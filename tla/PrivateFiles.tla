---------------------------- MODULE PrivateFiles ----------------------------
(***************************************************************************)
(* What ResMgr promises: every execution state has host files of its own.  *)
(* A descriptor number a state has got stands for the same file until that *)
(* very state closes it, whatever the other states open, close, or take    *)
(* with them when they end.                                                *)
(***************************************************************************)
CONSTANTS
  States,   \* execution states
  Names,    \* files of the host
  HostFds   \* descriptor numbers of the host

VARIABLE opened   \* for each live state, the file behind each of its numbers

PFInit == \E s \in States : opened = [t \in {s} |-> [f \in {} |-> s]]

\* The table of s becomes T, all others stay.
Becomes(s, T) == opened' = [t \in DOMAIN opened |-> IF t = s THEN T ELSE opened[t]]

PFOpen(s, f, n) ==
  /\ s \in DOMAIN opened /\ f \notin DOMAIN opened[s]
  /\ Becomes(s, [g \in DOMAIN opened[s] \cup {f} |-> IF g = f THEN n ELSE opened[s][g]])

PFClose(s, f) ==
  /\ s \in DOMAIN opened
  /\ Becomes(s, [g \in DOMAIN opened[s] \ {f} |-> opened[s][g]])

PFFork(s, c) ==
  /\ s \in DOMAIN opened /\ c \notin DOMAIN opened
  /\ opened' = [t \in DOMAIN opened \cup {c} |-> IF t = c THEN opened[s] ELSE opened[t]]

PFEnd(s) ==
  /\ s \in DOMAIN opened
  /\ opened' = [t \in DOMAIN opened \ {s} |-> opened[t]]

PFNext ==
  \/ \E s \in States, f \in HostFds : PFClose(s, f) \/ \E n \in Names : PFOpen(s, f, n)
  \/ \E s \in States : PFEnd(s) \/ \E c \in States : PFFork(s, c)

PFSpec == PFInit /\ [][PFNext]_opened
=============================================================================
