---------------------------- MODULE TurnContract ----------------------------
(***************************************************************************)
(* What a room of the iPhone promises, whatever happens to the process,    *)
(* the network and the page: one turn at a time is open; it may be asked   *)
(* of the provider any number of times; it ends in one whole turn of the   *)
(* transcript, which answers the last question asked, or in nothing.       *)
(***************************************************************************)
EXTENDS Naturals, Sequences

CONSTANT Commands

VARIABLES transcript, \* the turns, [cmd, asked]: asked is 0 for a silent turn
          open,       \* the command that is open, 0 if none is
          asked,      \* how often each command was sent to the provider
          ended       \* the commands that were completed or abandoned

contract_vars == <<transcript, open, asked, ended>>

ContractInit ==
    /\ transcript = <<>>
    /\ open = 0
    /\ asked = [c \in Commands |-> 0]
    /\ ended = {}

Plan(c) ==
    /\ open = 0 /\ c \notin ended
    /\ open' = c
    /\ UNCHANGED <<transcript, asked, ended>>

Ask(c) ==
    /\ open = c
    /\ asked' = [asked EXCEPT ![c] = @ + 1]
    /\ UNCHANGED <<transcript, open, ended>>

End(c) ==
    /\ open = c
    /\ open' = 0
    /\ ended' = ended \cup {c}
    /\ UNCHANGED asked

Commit(c) == End(c) /\ transcript' = Append(transcript, [cmd |-> c, asked |-> asked[c]])

GiveUpOn(c) == End(c) /\ UNCHANGED transcript

ContractNext == \E c \in Commands : Plan(c) \/ Ask(c) \/ Commit(c) \/ GiveUpOn(c)

ContractSpec == ContractInit /\ [][ContractNext]_contract_vars

=============================================================================
