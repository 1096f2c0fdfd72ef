---------------------------- MODULE RoomContract ----------------------------
(***************************************************************************)
(* What a room of the desktop companion promises, whatever its services,   *)
(* their claims, their providers and their clients do: a request enters    *)
(* the log once, with the director's decision directly behind it; it is    *)
(* answered at most once; and work that a pause, a stop or a mute found    *)
(* under way is never answered.                                            *)
(***************************************************************************)
EXTENDS Naturals, Sequences

CONSTANT Requests

VARIABLES transcript, \* what the log holds, as [kind, request]
          open,       \* requests whose persona has still to speak
          ended,      \* requests with a final outcome
          fenced      \* requests that a fence found open

contract_vars == <<transcript, open, ended, fenced>>

Entry(kind, r) == [kind |-> kind, request |-> r]

ContractInit ==
    /\ transcript = <<>>
    /\ open = {}
    /\ ended = {}
    /\ fenced = {}

\* A request is admitted: somebody is to speak, or nobody is and it is over.
Admit(r) ==
    /\ r \notin open \cup ended
    /\ transcript' = transcript \o <<Entry("human_message", r), Entry("director_decision", r)>>
    /\ \/ open' = open \cup {r} /\ UNCHANGED ended
       \/ ended' = ended \cup {r} /\ UNCHANGED open
    /\ UNCHANGED fenced

End(r) ==
    /\ r \in open
    /\ open' = open \ {r}
    /\ ended' = ended \cup {r}
    /\ UNCHANGED fenced

Answer(r) ==
    /\ End(r)
    /\ r \notin fenced
    /\ transcript' = Append(transcript, Entry("persona_message", r))

\* The persona keeps silent, or the request went stale.
Drop(r) == End(r) /\ UNCHANGED transcript

Fence(requests) ==
    /\ fenced' = fenced \cup requests
    /\ UNCHANGED <<transcript, open, ended>>

ContractNext ==
    \/ \E r \in Requests : Admit(r) \/ Answer(r) \/ Drop(r)
    \/ \E requests \in SUBSET open : Fence(requests)

ContractSpec == ContractInit /\ [][ContractNext]_contract_vars

=============================================================================
