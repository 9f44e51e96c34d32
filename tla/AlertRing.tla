----------------------------- MODULE AlertRing ------------------------------
(***************************************************************************)
(* The alert manager (alerts.c): a ring of ALERTS_CAPACITY entries, the    *)
(* index of the next entry to write and the number of entries in use.      *)
(* An alert is an opaque value; Blank is an entry that memset has cleared. *)
(***************************************************************************)
EXTENDS Naturals, Sequences

CONSTANTS Alerts, Capacity, Blank

ASSUME RingAssumption == Capacity \in Nat /\ Capacity > 0 /\ Blank \notin Alerts

Slots == 0..(Capacity - 1)

VARIABLES items, head, count
vars == <<items, head, count>>

Cleared == [s \in Slots |-> Blank]

Init == items = Cleared /\ head = 0 /\ count = 0

Following_Saturating(s) == IF s + 1 < Capacity THEN s + 1 ELSE s         \* mutants
Following_Late(s) == (s + 1) % (Capacity + 1)
Following(s) == (s + 1) % Capacity

Push(a) == /\ items' = [items EXCEPT ![head] = a]
           /\ head' = Following(head)
           /\ count' = IF count < Capacity THEN count + 1 ELSE count

Clear == items' = Cleared /\ head' = 0 /\ count' = 0

\* alerts_get: the slot of the i-th newest alert, for i below count.
SlotOf_FromHead(i) == (head + Capacity - (i % Capacity)) % Capacity      \* mutant
SlotOf(i) == LET newest == (head + Capacity - 1) % Capacity
             IN (newest + Capacity - (i % Capacity)) % Capacity

Get(i) == IF i >= count THEN Blank ELSE items[SlotOf(i)]

Next == (\E a \in Alerts : Push(a)) \/ Clear

Spec == Init /\ [][Next]_vars

-----------------------------------------------------------------------------
TypeOK == /\ items \in [Slots -> Alerts \union {Blank}]
          /\ head \in Slots
          /\ count \in 0..Capacity

(***************************************************************************)
(* What the screens read through alerts_get, oldest first, is the log of   *)
(* AlertLog: no alert within the last Capacity is missing, repeated or out *)
(* of order, whichever way the ring has wrapped.                           *)
(***************************************************************************)
AsLog == INSTANCE AlertLog WITH log <- [i \in 1..count |-> Get(count - i)]
ImplementsLog == AsLog!Spec

(***************************************************************************)
(* The screens never show an entry that no one pushed.                     *)
(***************************************************************************)
NoBlankShown == \A i \in 0..(count - 1) : Get(i) \in Alerts
=============================================================================
