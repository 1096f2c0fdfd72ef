--------------------------- MODULE MCRoomService ---------------------------
(* Small instances of RoomService for TLC. *)
EXTENDS RoomService, TLC

AskOnly == {[wants |-> TRUE, target |-> Nobody]}

AskOrSilent == {[wants |-> TRUE, target |-> Nobody],
                [wants |-> FALSE, target |-> Nobody]}

\* Which owner, which service and which control id it is makes no difference.
OwnersAndServices == Permutations(Owners) \cup Permutations(Services)

OwnersRequestsAndControls ==
    Permutations(Owners) \cup Permutations(Requests) \cup Permutations(Controls)
=============================================================================
