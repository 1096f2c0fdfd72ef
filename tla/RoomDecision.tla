---------------------------- MODULE RoomDecision ----------------------------
(***************************************************************************)
(* Who answers a message in a desktop room: RoomService.#decide in         *)
(* src/runtime/room-service.ts, as a function of the director_state row,   *)
(* the log and the participants.                                           *)
(***************************************************************************)
EXTENDS Turns

\* A message wants a response or not, and may be directed at one persona;
\* a directed message always wants a response (sendMessage rejects others).
Payload == {p \in [wants : BOOLEAN, target : Personas \cup {Nobody}] :
               p.target # Nobody => p.wants}

\* Who may speak when at least two personas are unmuted: the last speaker
\* rests for one human message.
Candidates(last, humansSince, muted) ==
    LET onCooldown == last # Nobody /\ humansSince <= 1
    IN  {p \in Personas \ muted : ~ onCooldown \/ p # last}

\* last is the last chosen speaker, humansSince the number of human messages
\* since the one it was chosen for, the message being decided included.
Decide(last, humansSince, muted, payload) ==
    LET unmuted == Personas \ muted
        start == IF last = Nobody THEN 0 ELSE After(last)
    IN  IF payload.target # Nobody THEN payload.target
        ELSE IF ~ payload.wants \/ unmuted = {} THEN Nobody
        ELSE IF \E p \in unmuted : unmuted = {p}
             THEN CHOOSE p \in unmuted : unmuted = {p}
        ELSE FirstFrom(start, Candidates(last, humansSince, muted))
=============================================================================
