---------------------------- MODULE RoomAuthority ----------------------------
(***************************************************************************)
(* What the room library promises: one room is selected, and the           *)
(* selections of a library form one sequence.  The position of a selection *)
(* is its revision; a command that names another revision changes nothing. *)
(***************************************************************************)
EXTENDS Naturals, Sequences

CONSTANTS Rooms, First, MaxRevision

\* What the constants are; the modules that instantiate this one assume it.
RoomAuthorityConstants == First \in Rooms /\ MaxRevision \in Nat

VARIABLE hist      \* the rooms selected so far

Revision == Len(hist) - 1
Selected == hist[Len(hist)]

AuthorityInit == hist = <<First>>

\* One more selection, of any room: the one selected already included.
Move(r) == Len(hist) <= MaxRevision /\ hist' = Append(hist, r)

AuthorityNext == \E r \in Rooms : Move(r)

Authority == AuthorityInit /\ [][AuthorityNext]_hist

AuthorityTypeOK == hist \in Seq(Rooms) /\ hist # <<>>
=============================================================================
