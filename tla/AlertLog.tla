------------------------------ MODULE AlertLog ------------------------------
(***************************************************************************)
(* What the alert manager promises to the screens: the last Capacity       *)
(* alerts pushed since the log was last cleared, in the order they were    *)
(* pushed.                                                                 *)
(***************************************************************************)
EXTENDS Naturals, Sequences

CONSTANTS Alerts,    \* what an alert says
          Capacity   \* alerts kept

VARIABLE log

Init == log = <<>>

Push(a) == log' = IF Len(log) < Capacity THEN Append(log, a) ELSE Append(Tail(log), a)

Clear == log' = <<>>

Next == (\E a \in Alerts : Push(a)) \/ Clear

Spec == Init /\ [][Next]_log
=============================================================================
