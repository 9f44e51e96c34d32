----------------------------- MODULE ScanRounds -----------------------------
(***************************************************************************)
(* What the LAN scanner promises to the screens that show its metrics.     *)
(*                                                                         *)
(* A scan proceeds in rounds.  The list of hosts found is emptied when a   *)
(* round begins and then only grows at its end, never repeating an         *)
(* address and never exceeding the table: an index into the list, such as  *)
(* the one the host-detail screen keeps, denotes the same host until the   *)
(* next round begins.  A round that runs to its end is counted once and    *)
(* stops the scanner; a round that is stopped is not counted.              *)
(***************************************************************************)
EXTENDS Naturals, Sequences

CONSTANTS Ips,      \* the addresses a host can have
          Capacity  \* size of the host table

VARIABLES running,  \* a round is in progress
          round,    \* number of rounds that ran to their end
          found     \* addresses of the hosts found in this round, in order

vars == <<running, round, found>>

Init == running = FALSE /\ round = 0 /\ found = <<>>

Begin == /\ running' = TRUE
         /\ found' = <<>>
         /\ UNCHANGED round

Discover(ip) == /\ running
                /\ Len(found) < Capacity
                /\ \A i \in 1..Len(found) : found[i] # ip
                /\ found' = Append(found, ip)
                /\ UNCHANGED <<running, round>>

Finish == /\ running
          /\ running' = FALSE
          /\ round' = round + 1
          /\ UNCHANGED found

Stop == running' = FALSE /\ UNCHANGED <<round, found>>

Next == Begin \/ (\E ip \in Ips : Discover(ip)) \/ Finish \/ Stop

Spec == Init /\ [][Next]_vars
=============================================================================
