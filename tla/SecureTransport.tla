--------------------------- MODULE SecureTransport ---------------------------
(* Cloud provider calls of the server: a fair semaphore bounds the calls   *)
(* in the network, each call resolves the provider's name, vets every      *)
(* answer, opens one TLS connection to the address it picked, writes the   *)
(* request with the key, reads the response and waits for its socket to    *)
(* close.  The slot of a call outlives its caller: it is given back when   *)
(* the socket is really closed.  The caller's signal, the total deadline   *)
(* and a timer of each phase can end the call at any point.  The adapter   *)
(* above turns what the transport answers into what the room is told.      *)
EXTENDS Integers, Sequences, FiniteSets, Functions

CONSTANTS Calls,
          Limit,      \* DEFAULT_CONCURRENCY
          MaxQueued,  \* MAX_QUEUED_REQUESTS
          MaxChunks,  \* MAX_RESPONSE_CHUNKS
          Answers,    \* DNS answers that can come back, each a sequence of addresses
          Kinds       \* kinds of response that can come back

\* What the constants are; the modules that instantiate this one assume it.
SlotsAssumption ==
    /\ Limit \in Nat \ {0} /\ MaxQueued \in Nat /\ MaxChunks \in Nat
    /\ Answers \subseteq Seq([family : {4, 6}, number : Nat, declared : {4, 6}, global : BOOLEAN])

VARIABLES active, \* FairSemaphore.#active
          queue,  \* FairSemaphore.#queue
          call    \* what withTotalDeadline and perform know of each call

vars == <<active, queue, call>>

\* What an upstream server may send: a response the transport refuses, one
\* the adapter refuses, and a good one.
Refused == {"redirect", "encoded", "oversized", "headers"}

Unusable == {"status", "media_type", "json", "other_model", "no_text"}

\* What the constants are; the modules that instantiate this one assume it.
KindsAssumption == Kinds \subseteq Refused \cup Unusable \cup {"good"}

Addresses == UNION {Range(a) : a \in Answers}

NoAddress == [family |-> 4, number |-> 0, declared |-> 4, global |-> FALSE]

Fresh == [stage |-> "idle", slot |-> FALSE, socket |-> "none", aborted |-> FALSE, timedOut |-> FALSE,
          late |-> FALSE, heard |-> <<>>, pick |-> NoAddress, sentTo |-> NoAddress,
          response |-> "none", chunks |-> 0, answer |-> "none", said |-> "none"]

Init == active = 0 /\ queue = <<>> /\ call = [c \in Calls |-> Fresh]

InNetwork == {"connecting", "writing", "headers", "body"}

Pending == {"queued", "granted", "dns", "closing"} \cup InNetwork

-----------------------------------------------------------------------------
(* DNS answers.                                                            *)

\* classifyAddress: the address is public and of the family it was listed under.
Public(a) == a.global /\ a.family = a.declared

\* vettedAnswers: one bad answer rejects the whole set.
Vetted(answers) == answers # <<>> /\ \A i \in DOMAIN answers : Public(answers[i])

\* IPv4 first, then numeric order.
Before(a, b) == a.family < b.family \/ (a.family = b.family /\ a.number < b.number)

\* The first of the sorted answers.
Picked(answers) ==
    CHOOSE a \in Range(answers) : \A b \in Range(answers) : a = b \/ Before(a, b)

-----------------------------------------------------------------------------
(* Slots.                                                                  *)

\* The slot of c, if it has one, goes to the first caller in the queue.
Release(c, calls) ==
    IF ~calls[c].slot
      THEN call' = calls /\ UNCHANGED <<active, queue>>
    ELSE IF queue = <<>>
      THEN call' = [calls EXCEPT ![c].slot = FALSE] /\ active' = active - 1 /\ UNCHANGED queue
      ELSE /\ call' = [calls EXCEPT ![c].slot = FALSE,
                                    ![Head(queue)].slot = TRUE, ![Head(queue)].stage = "granted"]
           /\ queue' = Tail(queue) /\ UNCHANGED active

\* Mutant: the slot goes back with the caller.
AnswerAndRelease(c, calls, outcome) ==
    LET answered == IF calls[c].aborted THEN "canceled"
                    ELSE IF calls[c].timedOut \/ calls[c].late THEN "timeout" ELSE outcome
    IN Release(c, [calls EXCEPT ![c].stage = "done", ![c].answer = answered])

\* withTotalDeadline ends: the caller's abort wins over the deadline, the
\* deadline over the result.  An open socket keeps the slot.
Answer(c, calls, outcome) ==
    LET answered == IF calls[c].aborted THEN "canceled"
                    ELSE IF calls[c].timedOut \/ calls[c].late THEN "timeout" ELSE outcome
        after == [calls EXCEPT ![c].stage = "done", ![c].answer = answered]
    IN IF calls[c].socket \in {"none", "closed"} THEN Release(c, after)
       ELSE call' = after /\ UNCHANGED <<active, queue>>

\* perform ends: its finally block destroys the socket and waits for it to
\* close, unless the call is aborted or past its deadline.
Settle(c, calls, outcome) ==
    LET left == [calls EXCEPT ![c].socket = IF @ = "open" THEN "closing" ELSE @]
        open == left[c].socket = "closing"
    IN IF open /\ ~left[c].aborted /\ ~left[c].timedOut /\ ~left[c].late
         THEN call' = [left EXCEPT ![c].stage = "closing", ![c].answer = outcome] /\ UNCHANGED <<active, queue>>
         ELSE Answer(c, left, outcome)

\* FairSemaphore.acquire.
Request(c) ==
    /\ call[c].stage = "idle"
    /\ \/ /\ active < Limit /\ queue = <<>>
          /\ active' = active + 1
          /\ call' = [call EXCEPT ![c].stage = "granted", ![c].slot = TRUE]
          /\ UNCHANGED queue
       \/ /\ active >= Limit /\ Len(queue) < MaxQueued
          /\ queue' = Append(queue, c)
          /\ call' = [call EXCEPT ![c].stage = "queued"]
          /\ UNCHANGED active
       \/ /\ active >= Limit /\ Len(queue) >= MaxQueued
          /\ Answer(c, call, "failed")

\* The granted caller continues: past its deadline or aborted it goes no further.
Enter(c) ==
    /\ call[c].stage = "granted"
    /\ IF call[c].late \/ call[c].aborted \/ call[c].timedOut
         THEN Answer(c, [call EXCEPT ![c].timedOut = @ \/ call[c].late], "failed")
         ELSE call' = [call EXCEPT ![c].stage = "dns"] /\ UNCHANGED <<active, queue>>

-----------------------------------------------------------------------------
(* perform.                                                                *)

Resolve(c, answers) ==
    /\ call[c].stage = "dns"
    /\ IF Vetted(answers)
         THEN /\ call' = [call EXCEPT ![c].stage = "connecting", ![c].socket = "open",
                                      ![c].heard = answers, ![c].pick = Picked(answers)]
              /\ UNCHANGED <<active, queue>>
         ELSE Settle(c, [call EXCEPT ![c].heard = answers], "failed")

\* secureConnect: certificate, port, protocol and the peer's address are
\* checked before the socket is handed to the request that carries the key.
SecureConnect(c, peer, authorized) ==
    /\ call[c].stage = "connecting"
    /\ IF authorized /\ peer = call[c].pick
         THEN /\ call' = [call EXCEPT ![c].stage = "writing", ![c].sentTo = peer]
              /\ UNCHANGED <<active, queue>>
         ELSE Settle(c, call, "failed")

Flushed(c) ==
    /\ call[c].stage = "writing"
    /\ call' = [call EXCEPT ![c].stage = "headers"]
    /\ UNCHANGED <<active, queue>>

\* The response callback, which may run before the request is flushed.
Respond(c, response) ==
    /\ call[c].stage \in {"writing", "headers"}
    /\ IF response \in Refused THEN Settle(c, call, "failed")
       ELSE call' = [call EXCEPT ![c].stage = "body", ![c].response = response] /\ UNCHANGED <<active, queue>>

Chunk(c) ==
    /\ call[c].stage = "body"
    /\ IF call[c].chunks >= MaxChunks THEN Settle(c, call, "failed")
       ELSE call' = [call EXCEPT ![c].chunks = @ + 1] /\ UNCHANGED <<active, queue>>

End(c) ==
    /\ call[c].stage = "body"
    /\ Settle(c, call, "ok")

\* The lookup fails, or the connection breaks with its socket still to close.
Break(c) ==
    /\ call[c].stage \in {"dns"} \cup InNetwork
    /\ Settle(c, call, "failed")

\* The timer of the current phase.
PhaseTimeout(c) ==
    /\ call[c].stage \in {"dns"} \cup InNetwork
    /\ Settle(c, call, "timeout")

\* Mutant: a close that comes after the caller left frees nothing.
SocketCloseForgets(c) ==
    /\ call[c].socket \in {"open", "closing"}
    /\ LET closed == [call EXCEPT ![c].socket = "closed"] IN
         CASE call[c].stage = "closing" -> Answer(c, closed, call[c].answer)
           [] call[c].stage = "done" -> call' = closed /\ UNCHANGED <<active, queue>>
           [] OTHER -> Settle(c, closed, "failed")

\* The close event of the socket: it ends the wait of the caller, or gives
\* the slot of a caller that is gone back.
SocketClose(c) ==
    /\ call[c].socket \in {"open", "closing"}
    /\ LET closed == [call EXCEPT ![c].socket = "closed"] IN
         CASE call[c].stage = "closing" -> Answer(c, closed, call[c].answer)
           [] call[c].stage = "done" -> Release(c, closed)
           [] OTHER -> Settle(c, closed, "failed")

-----------------------------------------------------------------------------
(* Deadline, cancellation and the adapter.                                 *)

\* A caller leaves the queue from wherever it is in it.
Without(q, i) == SubSeq(q, 1, i - 1) \o SubSeq(q, i + 1, Len(q))

\* The controller's signal reaches the stage the call is in.
Signal(c, calls) ==
    CASE call[c].stage = "queued" ->
           /\ \E i \in DOMAIN queue : queue[i] = c /\ queue' = Without(queue, i)
           /\ call' = [calls EXCEPT ![c].stage = "done",
                                    ![c].answer = IF calls[c].aborted THEN "canceled" ELSE "timeout"]
           /\ UNCHANGED active
      [] call[c].stage \in {"dns"} \cup InNetwork -> Settle(c, calls, "failed")
      [] call[c].stage = "closing" -> Answer(c, calls, call[c].answer)
      [] OTHER -> call' = calls /\ UNCHANGED <<active, queue>>

Abort(c) ==
    /\ call[c].stage \in Pending \cup {"done"} /\ ~call[c].aborted /\ call[c].said = "none"
    /\ Signal(c, [call EXCEPT ![c].aborted = TRUE])

\* The clock passes the deadline, and some time later the timer runs.
Pass(c) ==
    /\ call[c].stage \in Pending /\ ~call[c].late
    /\ call' = [call EXCEPT ![c].late = TRUE]
    /\ UNCHANGED <<active, queue>>

Deadline(c) ==
    /\ call[c].stage \in Pending /\ call[c].late /\ ~call[c].timedOut
    /\ Signal(c, [call EXCEPT ![c].timedOut = TRUE])

\* The adapter awaits the transport: a response is judged, a failure mapped
\* with the caller's signal as it is by now.
Verdict(record) ==
    IF record.answer = "ok"
      THEN IF record.response = "good" THEN "text"
           ELSE IF record.response = "status" THEN "provider_failure" ELSE "invalid_response"
    ELSE IF record.aborted THEN "canceled"
    ELSE IF record.answer = "timeout" THEN "timeout" ELSE "provider_failure"

Tell(c) ==
    /\ call[c].stage = "done" /\ call[c].said = "none"
    /\ call' = [call EXCEPT ![c].said = Verdict(call[c])]
    /\ UNCHANGED <<active, queue>>

Next ==
    \E c \in Calls :
      \/ Request(c) \/ Enter(c)
      \/ \E a \in Answers : Resolve(c, a)
      \/ \E peer \in Addresses, authorized \in BOOLEAN : SecureConnect(c, peer, authorized)
      \/ Flushed(c) \/ Chunk(c) \/ End(c) \/ Break(c) \/ PhaseTimeout(c)
      \/ \E r \in Kinds : Respond(c, r)
      \/ SocketClose(c) \/ Abort(c) \/ Pass(c) \/ Deadline(c) \/ Tell(c)

\* Timers run and promises are continued; a destroyed socket reports its
\* close; nothing is assumed of the network.
Fairness ==
    \A c \in Calls :
      /\ WF_vars(Enter(c)) /\ WF_vars(Pass(c)) /\ WF_vars(Deadline(c)) /\ WF_vars(Tell(c))
      /\ WF_vars(call[c].socket = "closing" /\ SocketClose(c))

Spec == Init /\ [][Next]_vars

LiveSpec == Spec /\ Fairness

-----------------------------------------------------------------------------
(* Properties.                                                             *)

Outcomes == {"ok", "failed", "timeout", "canceled"}

Verdicts == {"text", "provider_failure", "invalid_response", "canceled", "timeout"}

Records ==
    [stage : Pending \cup {"idle", "done"}, slot : BOOLEAN,
     socket : {"none", "open", "closing", "closed"},
     aborted : BOOLEAN, timedOut : BOOLEAN, late : BOOLEAN,
     heard : Answers \cup {<<>>}, pick : Addresses \cup {NoAddress},
     sentTo : Addresses \cup {NoAddress}, response : Kinds \cup {"none"},
     chunks : 0..MaxChunks, answer : Outcomes \cup {"none"}, said : Verdicts \cup {"none"}]

TypeOK ==
    /\ active \in 0..Limit /\ call \in [Calls -> Records]
    /\ queue \in Seq(Calls) /\ Len(queue) <= MaxQueued
    /\ \A i \in DOMAIN queue : call[queue[i]].stage = "queued"

\* Callers that were answered long ago still count: the sockets that are not
\* closed yet never exceed the concurrency limit, so a slow peer cannot make
\* the server open more of them by timing its callers out.
SocketsWithinLimit ==
    Cardinality({c \in Calls : call[c].socket \in {"open", "closing"}}) <= Limit

\* No wakeup is lost: whatever mix of aborts, deadlines, failures and late
\* closes frees slots, the count is that of their holders and nobody queues
\* beside a free slot.
NoIdleSlot ==
    /\ active = Cardinality({c \in Calls : call[c].slot})
    /\ queue # <<>> => active = Limit

\* The key leaves the server only for an address every DNS answer agrees is
\* public, and for the one the policy picks whatever order the resolver lists
\* them in.
KeyGoesToVettedPeer ==
    \A c \in Calls : call[c].sentTo # NoAddress =>
      LET heard == Range(call[c].heard) IN
        /\ \A a \in heard : Public(a)
        /\ call[c].sentTo \in heard
        /\ \A a \in heard : a = call[c].sentTo \/ Before(call[c].sentTo, a)

\* What the transport promises of every state.
TransportSound == TypeOK /\ SocketsWithinLimit /\ NoIdleSlot /\ KeyGoesToVettedPeer

ResultInTime ==
    \A c \in Calls :
      call[c].stage # "done" /\ call'[c].stage = "done" /\ call'[c].answer = "ok" =>
        ~call'[c].aborted /\ ~call'[c].late

\* A caller that gave up, or whose deadline has passed, is never answered
\* with a result, even one that was complete before its socket closed.
NoResultAfterTheEnd ==
    [][ResultInTime]_vars

\* Every caller is answered: in the queue, before a silent server, or
\* waiting for a socket that does not close.
EveryCallIsAnswered == \A c \in Calls : call[c].stage \in Pending ~> call[c].said # "none"

\* Every slot comes back.
SlotsReturn == <>[](active = 0 /\ queue = <<>>)

=============================================================================
