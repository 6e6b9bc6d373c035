-------------------------- MODULE OwnershipLedger --------------------------
(* What a server transfer promises about ownership, with nothing of how the  *)
(* dashboard carries it out: the server has one owner, at most one move is   *)
(* open, opening it hands the server over, completing it changes nothing     *)
(* more, undoing it gives the server back to the one it was recorded to come *)
(* from, and removing the parties or the server closes it as it stands.      *)
CONSTANTS Users

VARIABLES owner, move

Closed == [open |-> FALSE]
Move(u, v) == [open |-> TRUE, giver |-> u, taker |-> v]

Init == owner \in Users /\ move = Closed

Open ==
    /\ ~move.open
    /\ \E u, v \in Users : u # v /\ move' = Move(u, v) /\ owner' = v
Complete == move.open /\ move' = Closed /\ UNCHANGED owner
Undo == move.open /\ move' = Closed /\ owner' = move.giver

Next == Open \/ Complete \/ Undo
Spec == Init /\ [][Next]_<<owner, move>>

=============================================================================
