------------------------------- MODULE Barrier -------------------------------
(***************************************************************************)
(* What a barrier promises: parties arrive in any order, nobody leaves     *)
(* without the others, and who has arrived does not go away.               *)
(***************************************************************************)
EXTENDS Naturals

CONSTANT Parties

VARIABLES
  arrived,  \* parties that wait in the current round
  rounds    \* rounds[p]: rounds party p has completed

vars == <<arrived, rounds>>

Init == arrived = {} /\ rounds = [p \in Parties |-> 0]

(* Some parties arrive; they may already be waiting. *)
Arrive(S) ==
  /\ arrived' = arrived \cup S
  /\ UNCHANGED rounds

(* All leave together; those missing so far arrive in this very step. *)
Release ==
  /\ rounds' = [p \in Parties |-> rounds[p] + 1]
  /\ arrived' = {}

Next == (\E S \in SUBSET Parties : Arrive(S)) \/ Release

Spec == Init /\ [][Next]_vars
==============================================================================
