--------------------------- MODULE ProviderTasks ---------------------------
(***************************************************************************)
(* The native side of provider.listModels on the iPhone: the registry that *)
(* admits, queues, expires and cancels requests (ProviderTaskRegistry), the *)
(* URL session delegate that collects one answer (ProviderRequestDelegate) *)
(* and the service that ties a request to the credential it was made for.  *)
(*                                                                         *)
(* A bridge call loads, installs and, when it is admitted at once, starts  *)
(* its request without another bridge call in between.  The timers, the    *)
(* delegates of the sessions and the lifecycle run on threads of their     *)
(* own.  A body under the registry's lock is one step; the callbacks it    *)
(* returns run after the lock is released and are steps of their own.      *)
(***************************************************************************)
EXTENDS Naturals, Sequences, FiniteSets

CONSTANTS Ops,       \* the list operations, each a bridge call with its callId
          MaxActive, \* maximumConcurrent
          MaxQueued, \* maximumQueued
          MaxBody,   \* maximumResponseBytes, counted in chunks
          Errors,    \* how a task can complete: "none" or an error's code
          Kinds,     \* the responses that can come: "http", "big", "other", "redirect"
          Results,   \* what parsing a body can give
          MaxKeys,   \* bound on the credentials saved one after the other
          MaxDowns   \* bound on the losses of availability

\* What the constants are; the modules that instantiate this one assume it.
TasksAssumption ==
    /\ MaxActive \in Nat \ {0} /\ MaxQueued \in Nat /\ MaxBody \in Nat
    /\ MaxKeys \in Nat /\ MaxDowns \in Nat
    /\ Errors \subseteq {"none", "offline", "timeout", "provider_unreachable"}
    /\ Kinds \subseteq {"http", "big", "other", "redirect"}
    /\ Results \subseteq {"models", "provider_rejected", "invalid_response", "response_too_large"}

VARIABLES
    entry,   \* registry.tasks: the state of each operation and its started flag
    queue,   \* registry.queue
    up,      \* lifecycleAvailable /\ roomModeAvailable
    downs,   \* losses of availability so far
    key,     \* the selected credential: its mutation id and whether it is ready
    op,      \* where each call is, what it has loaded and what it answered
    net,     \* the session delegate of each operation
    cancels  \* cancellation callbacks still to run, [op, code]

vars == <<entry, queue, up, downs, key, op, net, cancels>>

-----------------------------------------------------------------------------

NoEntry == [state |-> "none", started |-> FALSE]

\* life: the registry's lifecycleEpoch is still the one the call has read.
\* late: the operation's deadline has passed.
NoOp == [pc |-> "idle", life |-> FALSE, key |-> 0, late |-> FALSE, answer |-> "none"]

NoNet == [task |-> "none", response |-> FALSE, size |-> 0, tooLarge |-> FALSE,
          redirected |-> FALSE, completed |-> FALSE, result |-> "none"]

Init ==
    /\ entry = [o \in Ops |-> NoEntry]
    /\ queue = <<>>
    /\ up = TRUE
    /\ downs = 0
    /\ key = [n |-> 1, ready |-> TRUE]
    /\ op = [o \in Ops |-> NoOp]
    /\ net = [o \in Ops |-> NoNet]
    /\ cancels = {}

Active(table) == {o \in Ops : table[o].state = "active"}

\* A call admitted at once holds the bridge until its start has run.
BridgeFree == \A o \in Ops : op[o].pc \notin {"loaded", "starting"}

\* ProviderListCompletion: only the first answer reaches the page.
Answered(calls, o, code) ==
    IF calls[o].answer = "none" THEN [calls EXCEPT ![o].answer = code] ELSE calls

-----------------------------------------------------------------------------
(* The registry.                                                           *)

\* Mutant: the queue is looked at again only when the next call arrives.
PromotionOfNone(table, waiting) == [table |-> table, queue |-> waiting, promoted |-> {}, expired |-> {}]

\* promoteLocked: entries leave the head of the queue until every slot is
\* taken or none is left; the ones whose deadline has passed are dropped.
Promotion(table, waiting) ==
    LET free == MaxActive - Cardinality(Active(table))
        InTime(n) == {waiting[i] : i \in {j \in 1 .. n : ~op[waiting[j]].late}}
        n == CHOOSE m \in 0 .. Len(waiting) :
                /\ m = Len(waiting) \/ Cardinality(InTime(m)) = free
                /\ \A k \in 0 .. m - 1 : Cardinality(InTime(k)) < free
        expired == {waiting[i] : i \in 1 .. n} \ InTime(n)
    IN [table |-> [o \in Ops |->
                      CASE o \in InTime(n) -> [table[o] EXCEPT !.state = "active"]
                        [] o \in expired -> NoEntry
                        [] OTHER -> table[o]],
        queue |-> SubSeq(waiting, n + 1, Len(waiting)),
        promoted |-> InTime(n), expired |-> expired]

\* One entry leaves the registry; an active one hands its slot to the queue.
Without(o) ==
    LET table == [entry EXCEPT ![o] = NoEntry]
        waiting == SelectSeq(queue, LAMBDA w : w # o)
    IN IF entry[o].state = "active" THEN Promotion(table, waiting)
       ELSE [table |-> table, queue |-> waiting, promoted |-> {}, expired |-> {}]

\* What the registry becomes and what it returns to be called outside the lock.
Registry(after, calls, callbacks) ==
    /\ entry' = after.table
    /\ queue' = after.queue
    /\ op' = [o \in Ops |-> IF o \in after.promoted THEN [calls[o] EXCEPT !.pc = "promoted"] ELSE calls[o]]
    /\ cancels' = cancels \cup callbacks \cup {[op |-> o, code |-> "timeout"] : o \in after.expired}

\* registry.cancel(requestId:failure:) of an entry that is there.
Canceled(o, code, calls) == Registry(Without(o), calls, {[op |-> o, code |-> code]})

-----------------------------------------------------------------------------
(* The bridge call.                                                        *)

\* providerListModelsAuthority: the profile's newest revision is the selected
\* one, its credential is ready and the data use was agreed to.
Authorized == key.ready

\* The snapshot of the lifecycle and the credential the call is made for.
ListModels(o) ==
    /\ op[o].pc = "idle" /\ BridgeFree
    /\ op' = IF ~up THEN Answered([op EXCEPT ![o].pc = "done"], o, "canceled")
             ELSE IF ~Authorized THEN Answered([op EXCEPT ![o].pc = "done"], o, "credential_missing")
             ELSE [op EXCEPT ![o].pc = "loaded", ![o].life = TRUE, ![o].key = key.n]
    /\ UNCHANGED <<entry, queue, up, downs, key, net, cancels>>

\* registry.install: active, queued, refused for lack of room, or refused
\* because the application lost its availability since the snapshot.
Install(o) ==
    /\ op[o].pc = "loaded"
    /\ LET full == Cardinality(Active(entry)) >= MaxActive
           admission == IF ~(up /\ op[o].life) THEN "canceled"
                        ELSE IF ~full THEN "active"
                        ELSE IF Len(queue) < MaxQueued THEN "queued"
                        ELSE "capacity_rejected"
       IN /\ entry' = IF admission \in {"active", "queued"}
                      THEN [entry EXCEPT ![o] = [state |-> admission, started |-> FALSE]] ELSE entry
          /\ queue' = IF admission = "queued" THEN Append(queue, o) ELSE queue
          /\ op' = CASE admission = "active" -> [op EXCEPT ![o].pc = "starting"]
                     [] admission = "queued" -> [op EXCEPT ![o].pc = "waiting"]
                     [] OTHER -> Answered([op EXCEPT ![o].pc = "done"], o, admission)
    /\ UNCHANGED <<up, downs, key, net, cancels>>

\* The guard of beginNetwork: the entry is still the one that was admitted.
Admitted(o) ==
    up /\ op[o].life /\ entry[o].state = "active" /\ ~entry[o].started /\ ~op[o].late

Starting(o) == op[o].pc \in {"starting", "promoted"}

\* Mutant: the credential is the one of the profile, whichever it is now.
SameProfile(o) == Authorized

\* The reservation read again under the database's lock.
SameCredential(o) == Authorized /\ op[o].key = key.n

\* makeListModelsTask with the rest of the deadline, and resume.
Sent(o) == [net EXCEPT ![o].task = "running"]

\* beginNetwork: the task is made and resumed while the lock is held.
Begin(o) ==
    /\ Starting(o) /\ Admitted(o) /\ SameCredential(o)
    /\ entry' = [entry EXCEPT ![o].started = TRUE]
    /\ net' = Sent(o)
    /\ op' = [op EXCEPT ![o].pc = "done"]
    /\ UNCHANGED <<queue, up, downs, key, cancels>>

\* The credential is gone or another one: failBeforeStart cancels the entry.
BeginFails(o) ==
    /\ Starting(o) /\ Admitted(o) /\ ~SameCredential(o)
    /\ Canceled(o, "credential_missing", [op EXCEPT ![o].pc = "done"])
    /\ UNCHANGED <<up, downs, key, net>>

\* The deadline passes between the guard and the resume of the task.
BeginExpires(o) ==
    /\ Starting(o) /\ Admitted(o) /\ SameCredential(o)
    /\ Registry(Without(o), [op EXCEPT ![o].pc = "done", ![o].late = TRUE],
                {[op |-> o, code |-> "timeout"]})
    /\ UNCHANGED <<up, downs, key, net>>

\* The entry is gone, or its timer is about to remove it: nothing is sent.
BeginRefused(o) ==
    /\ Starting(o) /\ ~Admitted(o)
    /\ op' = [op EXCEPT ![o].pc = "done"]
    /\ UNCHANGED <<entry, queue, up, downs, key, net, cancels>>

-----------------------------------------------------------------------------
(* The clock, the user and the lifecycle.                                  *)

Deadline(o) ==
    /\ entry[o].state # "none" /\ ~op[o].late
    /\ op' = [op EXCEPT ![o].late = TRUE]
    /\ UNCHANGED <<entry, queue, up, downs, key, net, cancels>>

Expire(o) ==
    /\ entry[o].state # "none" /\ op[o].late
    /\ Canceled(o, "timeout", op)
    /\ UNCHANGED <<up, downs, key, net>>

\* provider.cancel of the page.
Cancel(o) ==
    /\ entry[o].state # "none" /\ BridgeFree
    /\ Canceled(o, "canceled", op)
    /\ UNCHANGED <<up, downs, key, net>>

\* updateAvailability(false): every entry goes, none is promoted.
Lose ==
    /\ up /\ downs < MaxDowns
    /\ up' = FALSE
    /\ downs' = downs + 1
    /\ entry' = [o \in Ops |-> NoEntry]
    /\ queue' = <<>>
    /\ op' = [o \in Ops |-> [op[o] EXCEPT !.life = FALSE]]
    /\ cancels' = cancels \cup {[op |-> o, code |-> "canceled"] : o \in {p \in Ops : entry[p].state # "none"}}
    /\ UNCHANGED <<key, net>>

Regain ==
    /\ ~up
    /\ up' = TRUE
    /\ UNCHANGED <<entry, queue, downs, key, op, net, cancels>>

\* The credential calls of the page.
ReplaceKey ==
    /\ BridgeFree /\ key.n < MaxKeys
    /\ key' = [n |-> key.n + 1, ready |-> TRUE]
    /\ UNCHANGED <<entry, queue, up, downs, op, net, cancels>>

RemoveKey ==
    /\ BridgeFree /\ key.ready
    /\ key' = [key EXCEPT !.ready = FALSE]
    /\ UNCHANGED <<entry, queue, up, downs, op, net, cancels>>

\* entry.task?.cancel() and the cancellation closure of the entry.
Callback(c) ==
    /\ c \in cancels
    /\ cancels' = cancels \ {c}
    /\ net' = IF net[c.op].task = "running" THEN [net EXCEPT ![c.op].task = "canceled"] ELSE net
    /\ op' = Answered(op, c.op, c.code)
    /\ UNCHANGED <<entry, queue, up, downs, key>>

-----------------------------------------------------------------------------
(* The session delegate.  Its queue is serial: the next callback of the    *)
(* session waits until the completion the last one called has returned.    *)

Listening(o) == net[o].task \in {"running", "canceled"} /\ net[o].result = "none"

\* finish: only the first result is passed on.
Finished(d, result) == IF d.completed THEN d ELSE [d EXCEPT !.completed = TRUE, !.result = result]

Redirects(o) ==
    /\ "redirect" \in Kinds
    /\ Listening(o) /\ ~net[o].response /\ ~net[o].redirected
    /\ net' = [net EXCEPT ![o] = Finished([@ EXCEPT !.redirected = TRUE], "provider_rejected")]
    /\ UNCHANGED <<entry, queue, up, downs, key, op, cancels>>

\* A response that announces too much is canceled and finished later, when
\* the task completes; one that is not HTTP is finished here.
Responds(o, kind) ==
    /\ Listening(o) /\ ~net[o].response /\ ~net[o].tooLarge
    /\ net' = [net EXCEPT ![o] =
                 CASE kind = "http" -> [@ EXCEPT !.response = TRUE]
                   [] kind = "big" -> [@ EXCEPT !.tooLarge = TRUE, !.task = "canceled"]
                   [] kind = "other" -> Finished([@ EXCEPT !.task = "canceled"], "invalid_response")]
    /\ UNCHANGED <<entry, queue, up, downs, key, op, cancels>>

Receives(o) ==
    /\ Listening(o) /\ net[o].response /\ ~net[o].tooLarge
    /\ net' = [net EXCEPT ![o] =
                 IF @.size + 1 <= MaxBody THEN [@ EXCEPT !.size = @ + 1]
                 ELSE [@ EXCEPT !.tooLarge = TRUE, !.task = "canceled"]]
    /\ UNCHANGED <<entry, queue, up, downs, key, op, cancels>>

Outcome(d, error) ==
    IF d.tooLarge THEN "response_too_large"
    ELSE IF d.redirected THEN "provider_rejected"
    ELSE IF error # "none" THEN error
    ELSE IF ~d.response THEN "invalid_response"
    ELSE "body"

\* A task that was canceled may have finished on its own just before.
Completes(o, error) ==
    /\ Listening(o)
    /\ net[o].task = "canceled" => error \in {"none", "provider_unreachable"}
    /\ net' = [net EXCEPT ![o] = Finished([@ EXCEPT !.task = "ended"], Outcome(@, error))]
    /\ UNCHANGED <<entry, queue, up, downs, key, op, cancels>>

-----------------------------------------------------------------------------
(* The completion of the task.                                             *)

\* parseModels, and the size of the envelope the ids are sent in.
Parsed(result) ==
    IF result = "body" THEN Results ELSE {result}

Owned(o) == up /\ op[o].life /\ entry[o].started

Taken(o) == [net EXCEPT ![o].result = "none"]

\* claimCompletion: the entry leaves the registry, the queue moves up, and
\* the result counts unless the deadline has passed.
Claim(o) ==
    /\ net[o].result # "none" /\ Owned(o)
    /\ net' = Taken(o)
    /\ IF op[o].late
       THEN Registry(Without(o), op, {[op |-> o, code |-> "timeout"]})
       ELSE \E code \in Parsed(net[o].result) : Registry(Without(o), Answered(op, o, code), {})
    /\ UNCHANGED <<up, downs, key>>

\* The entry was canceled or expired: whoever removed it answers the call.
ClaimLost(o) ==
    /\ net[o].result # "none" /\ ~Owned(o)
    /\ net' = Taken(o)
    /\ UNCHANGED <<entry, queue, up, downs, key, op, cancels>>

Called(o) ==
    \E code \in {"timeout", "canceled", "credential_missing"} : Callback([op |-> o, code |-> code])

Next ==
    \/ \E o \in Ops :
         \/ ListModels(o) \/ Install(o)
         \/ Begin(o) \/ BeginFails(o) \/ BeginExpires(o) \/ BeginRefused(o)
         \/ Deadline(o) \/ Expire(o) \/ Cancel(o)
         \/ Redirects(o) \/ Receives(o)
         \/ \E kind \in Kinds \ {"redirect"} : Responds(o, kind)
         \/ \E error \in Errors : Completes(o, error)
         \/ Claim(o) \/ ClaimLost(o)
    \/ \E c \in cancels : Callback(c)
    \/ Lose \/ Regain \/ ReplaceKey \/ RemoveKey

Spec == Init /\ [][Next]_vars

\* The bridge's queue, the timers and the threads that hold a callback run
\* it; nothing is assumed of the provider, the network or the user.
Fairness ==
    /\ \A o \in Ops :
         /\ WF_vars(Install(o))
         /\ WF_vars(Begin(o) \/ BeginFails(o) \/ BeginExpires(o) \/ BeginRefused(o))
         /\ WF_vars(Deadline(o))
         /\ WF_vars(Expire(o))
         /\ WF_vars(Claim(o) \/ ClaimLost(o))
         /\ WF_vars(Called(o))

LiveSpec == Spec /\ Fairness

-----------------------------------------------------------------------------
(* Properties.                                                             *)

\* The shape of the state.
TypeOK ==
    /\ entry \in [Ops -> [state : {"none", "active", "queued"}, started : BOOLEAN]]
    /\ queue \in Seq(Ops) /\ up \in BOOLEAN /\ downs \in 0 .. MaxDowns
    /\ key.n \in Nat /\ key.ready \in BOOLEAN
    /\ \A o \in Ops :
         /\ op[o].pc \in {"idle", "loaded", "starting", "waiting", "promoted", "done"}
         /\ net[o].task \in {"none", "running", "canceled", "ended"}
         /\ net[o].size \in 0 .. MaxBody

\* No slot of the registry is free while a request waits for one, whatever
\* removed the last request (an answer, a timer, the user, a missing key).
NoIdleSlot ==
    /\ Cardinality(Active(entry)) <= MaxActive
    /\ queue # <<>> => Cardinality(Active(entry)) = MaxActive
    /\ \A o \in Ops : (entry[o].state = "queued") <=> \E i \in DOMAIN queue : queue[i] = o

\* A request on the network belongs to someone: its entry is in the registry,
\* or the callback that cancels it is about to run, or its answer was taken.
NoOrphan ==
    \A o \in Ops : net[o].task = "running" =>
        entry[o].started \/ net[o].completed \/ \E c \in cancels : c.op = o

\* A call is answered with models only when the body arrived whole and
\* came from the address that was asked.
ModelsAreWhole ==
    \A o \in Ops : op[o].answer = "models" =>
        net[o].response /\ ~net[o].tooLarge /\ ~net[o].redirected

SendsItsKey ==
    \A o \in Ops : (net[o].task = "none" /\ net'[o].task = "running") =>
        up /\ key.ready /\ op[o].key = key.n

\* A request leaves with the credential it was made for, still the selected
\* one and ready, although it may have waited while the user changed it.
SendsTheKeyItRead == [][SendsItsKey]_vars

ShowsInTime ==
    \A o \in Ops : (op[o].answer # "models" /\ op'[o].answer = "models") =>
        op[o].life /\ ~op[o].late

\* Models are shown only to an application that has been available since the
\* call was made, before the call's deadline.
ModelsInTime == [][ShowsInTime]_vars

\* Every call is answered, although an answer that lost its entry is dropped
\* by the completion of the task and the provider may stay silent.
EveryCallIsAnswered == \A o \in Ops : op[o].pc # "idle" ~> op[o].answer # "none"

\* No request stays on the network unanswered for ever, although nothing is
\* assumed of the provider.
EveryRequestEnds ==
    \A o \in Ops : (net[o].task = "running" /\ ~net[o].completed) ~>
                        (net[o].task # "running" \/ net[o].completed)

=============================================================================
