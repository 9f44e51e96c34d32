----------------------------- MODULE MCMonitors -----------------------------
(***************************************************************************)
(* The two monitors the main loop polls.  They share no state, so each is  *)
(* explored beside the other at rest.                                      *)
(***************************************************************************)
EXTENDS NetMonitor, BtMonitor, TLC

CONSTANTS a1, r1, r2, m1, m2, m3, m4

MCRawSignals == {60, -20, -120}

NetAtRest == samples = 0
BtAtRest == ~available /\ ~inquiry /\ heard = <<>> /\ paired = {}

Init == NetInit /\ BtInit
Next == \/ BtAtRest /\ NetPoll /\ UNCHANGED btVars
        \/ NetAtRest /\ BtNext /\ UNCHANGED netVars
Spec == Init /\ [][Next]_<<netVars, btVars>>

Symmetry == Permutations({r1, r2}) \union Permutations({m1, m2, m3, m4})
=============================================================================
