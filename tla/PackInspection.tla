--------------------------- MODULE PackInspection ---------------------------
(***************************************************************************)
(* The inspection of an uploaded persona pack: the route with its admission *)
(* queue and deadline, the service that stores the upload in a directory   *)
(* of its own, and the sidecar that runs the validator as a child process. *)
(* Each of the three has a semaphore with a queue; a request that is       *)
(* aborted (the client is gone, the deadline passed, the server closes)    *)
(* leaves whichever it waits in and gives back what it holds.              *)
(*                                                                         *)
(* Uploaded bytes and reports are left out, but for whether they are good. *)
(***************************************************************************)
EXTENDS Naturals, Sequences, FiniteSets

CONSTANTS
    Requests,     \* requests to /api/persona-packs/inspect
    ActiveLimit,  \* inspections the route admits at once
    QueueLimit,   \* requests that may wait for admission
    Concurrency,  \* inspections the service works on at once
    Children,     \* validators the sidecar runs at once
    Descendants   \* may a validator leave a process of its own behind?

\* What the constants are; the modules that instantiate this one assume it.
PackInspectionConstants ==
    /\ ActiveLimit \in Nat \ {0} /\ QueueLimit \in Nat
    /\ Concurrency \in Nat \ {0} /\ Children \in Nat \ {0}
    /\ Descendants \in BOOLEAN

Sems == {"route", "service", "sidecar"}
Limit(s) == CASE s = "route" -> ActiveLimit [] s = "service" -> Concurrency [] s = "sidecar" -> Children

VARIABLES
    pc,        \* where each request is
    active,    \* slots taken of each semaphore
    queue,     \* who waits for a slot, in order
    tracked,   \* the states the route keeps
    aborted,   \* the request's controller was aborted
    disc,      \* its client is gone
    resp,      \* what it was answered
    dir,       \* requests with a directory on the disk
    stuck,     \* requests whose directory could not be removed
    child,     \* its validator: "none", "alive", "orphan" (only a descendant is left), "closed"
    failed,    \* the run has a terminal error
    killing,   \* SIGTERM was sent and SIGKILL will be
    server     \* "open", "closing", "closed"

slots == <<active, queue>>
run   == <<child, failed, killing>>
vars  == <<pc, active, queue, tracked, aborted, disc, resp, dir, stuck, child, failed, killing, server>>

Waits(s) == CASE s = "route" -> "waits_route" [] s = "service" -> "waits_service" [] s = "sidecar" -> "waits_sidecar"
Has(s)   == CASE s = "route" -> "has_route" [] s = "service" -> "has_service" [] s = "sidecar" -> "has_sidecar"

TypeOK ==
    /\ pc \in [Requests -> {"idle", "hooked", "waits_route", "has_route", "waits_service", "has_service",
                            "uploading", "waits_sidecar", "has_sidecar", "running", "cleaning",
                            "leaving", "done"}]
    /\ \A s \in Sems : active[s] \in 0..Limit(s)
    /\ \A s \in Sems : \A i \in DOMAIN queue[s] : pc[queue[s][i]] = Waits(s)
    /\ Len(queue["route"]) <= QueueLimit
    /\ tracked \subseteq Requests
    /\ aborted \in [Requests -> BOOLEAN] /\ disc \in [Requests -> BOOLEAN]
    /\ resp \in [Requests -> {"none", "ok", "error"}]
    /\ dir \subseteq Requests /\ stuck \subseteq dir
    /\ child \in [Requests -> {"none", "alive", "orphan", "closed"}]
    /\ failed \in [Requests -> BOOLEAN] /\ killing \in [Requests -> BOOLEAN]
    /\ server \in {"open", "closing", "closed"}

Init ==
    /\ pc = [r \in Requests |-> "idle"]
    /\ active = [s \in Sems |-> 0] /\ queue = [s \in Sems |-> <<>>]
    /\ tracked = {}
    /\ aborted = [r \in Requests |-> FALSE] /\ disc = [r \in Requests |-> FALSE]
    /\ resp = [r \in Requests |-> "none"]
    /\ dir = {} /\ stuck = {}
    /\ child = [r \in Requests |-> "none"]
    /\ failed = [r \in Requests |-> FALSE] /\ killing = [r \in Requests |-> FALSE]
    /\ server = "open"

-----------------------------------------------------------------------------
(* Semaphores: a free slot is taken, else the request queues; a slot given *)
(* back goes to the head of the queue.  Each moves r to where it goes on.  *)

Acquire(s, r) ==
    IF active[s] < Limit(s)
    THEN /\ active' = [active EXCEPT ![s] = @ + 1]
         /\ pc' = [pc EXCEPT ![r] = Has(s)]
         /\ UNCHANGED queue
    ELSE /\ queue' = [queue EXCEPT ![s] = Append(@, r)]
         /\ pc' = [pc EXCEPT ![r] = Waits(s)]
         /\ UNCHANGED active

Release(s, r, to) ==
    IF queue[s] = <<>>
    THEN /\ active' = [active EXCEPT ![s] = @ - 1]
         /\ pc' = [pc EXCEPT ![r] = to]
         /\ UNCHANGED queue
    ELSE /\ queue' = [queue EXCEPT ![s] = Tail(@)]
         /\ pc' = [pc EXCEPT ![r] = to, ![Head(queue[s])] = Has(s)]
         /\ UNCHANGED active

-----------------------------------------------------------------------------
(* The route.                                                              *)

(* finishIfTerminal: a state is forgotten once its operation is done and   *)
(* it was answered, its client is gone, or the server closes.              *)
OperationDone(p) == p \in {"hooked", "done"}

Kept(R) ==
    {r \in tracked : r \in R /\ OperationDone(pc'[r])
                       => server' = "open" /\ ~disc'[r] /\ resp'[r] = "none"}

Answer(r, a) == resp' = [resp EXCEPT ![r] = IF @ = "none" THEN a ELSE @]

(* onRequest with acceptable headers, and with others.                     *)
Arrive(r) ==
    /\ pc[r] = "idle" /\ server # "closed"
    /\ pc' = [pc EXCEPT ![r] = "hooked"]
    /\ tracked' = tracked \cup {r}
    /\ aborted' = [aborted EXCEPT ![r] = server = "closing"]
    /\ UNCHANGED <<slots, disc, resp, dir, stuck, run, server>>

Refuse(r) ==
    /\ pc[r] = "idle" /\ server # "closed"
    /\ pc' = [pc EXCEPT ![r] = "done"]
    /\ Answer(r, "error")
    /\ UNCHANGED <<slots, tracked, aborted, disc, dir, stuck, run, server>>

(* The content type parser, up to the admission.                           *)
Parse(r) ==
    /\ pc[r] = "hooked"
    /\ IF \/ r \notin tracked \/ aborted[r]
          \/ active["route"] = ActiveLimit /\ Len(queue["route"]) >= QueueLimit
       THEN /\ pc' = [pc EXCEPT ![r] = "done"]
            /\ Answer(r, "error")
            /\ UNCHANGED slots
       ELSE Acquire("route", r) /\ UNCHANGED resp
    /\ UNCHANGED <<aborted, disc, dir, stuck, run, server>>
    /\ tracked' = Kept({r})

\* Mutant: the slot is given back as soon as the request is answered.
LeavesWhenAborted(r) ==
    /\ pc[r] = "leaving" \/ (pc[r] = "running" /\ aborted[r])
    /\ Release("route", r, "done")
    /\ UNCHANGED <<aborted, disc, resp, dir, stuck, run, server>>
    /\ tracked' = Kept({r})

(* The parser's finally block, once the service is through.                *)
Leave(r) ==
    /\ pc[r] = "leaving"
    /\ Release("route", r, "done")
    /\ UNCHANGED <<aborted, disc, resp, dir, stuck, run, server>>
    /\ tracked' = Kept({r})

(* What an abort does at once: a queued request leaves its queue, an       *)
(* upload ends, a live validator is told to stop, and the race with the    *)
(* service is lost, so that an admitted request is answered.               *)
AfterAbort(p) ==
    CASE p = "waits_route" -> "done"
      [] p = "waits_service" -> "leaving"
      [] p = "uploading" -> "cleaning"
      [] p = "waits_sidecar" -> "cleaning"
      [] OTHER -> p

Abort(R) ==
    /\ aborted' = [r \in Requests |-> aborted[r] \/ r \in R]
    /\ pc' = [r \in Requests |-> IF r \in R THEN AfterAbort(pc[r]) ELSE pc[r]]
    /\ queue' = [s \in Sems |-> SelectSeq(queue[s], LAMBDA r : r \notin R)]
    /\ resp' = [r \in Requests |->
                  IF r \in R /\ resp[r] = "none" /\ ~OperationDone(pc[r]) THEN "error" ELSE resp[r]]
    /\ failed' = [r \in Requests |-> failed[r] \/ (r \in R /\ pc[r] = "running")]
    /\ killing' = [r \in Requests |-> killing[r] \/ (r \in R /\ pc[r] = "running" /\ child[r] = "alive")]

Disconnect(r) ==
    /\ r \in tracked /\ ~disc[r]
    /\ disc' = [disc EXCEPT ![r] = TRUE]
    /\ Abort({r} \ {x \in Requests : aborted[x]})
    /\ UNCHANGED <<active, dir, stuck, child, server>>
    /\ tracked' = Kept({r})

Deadline(r) ==
    /\ r \in tracked /\ ~aborted[r]
    /\ Abort({r})
    /\ UNCHANGED <<active, disc, dir, stuck, child, server>>
    /\ tracked' = Kept({r})

(* preClose: everything is aborted; then it waits for the last state.      *)
Close ==
    /\ server = "open"
    /\ server' = "closing"
    /\ Abort({r \in tracked : ~aborted[r]})
    /\ tracked' = Kept(tracked)
    /\ UNCHANGED <<active, disc, dir, stuck, child>>

Closed ==
    /\ server = "closing" /\ tracked = {}
    /\ server' = "closed"
    /\ UNCHANGED <<pc, slots, tracked, aborted, disc, resp, dir, stuck, run>>

-----------------------------------------------------------------------------
(* The service.                                                            *)

Inspect(r) ==
    /\ pc[r] = "has_route"
    /\ IF aborted[r]
       THEN pc' = [pc EXCEPT ![r] = "leaving"] /\ Answer(r, "error") /\ UNCHANGED slots
       ELSE Acquire("service", r) /\ UNCHANGED resp
    /\ UNCHANGED <<tracked, aborted, disc, dir, stuck, run, server>>

(* The directory is made, unless the request is aborted or that fails.     *)
MakeDirectory(r) ==
    /\ pc[r] = "has_service"
    /\ \/ ~aborted[r] /\ pc' = [pc EXCEPT ![r] = "uploading"] /\ dir' = dir \cup {r}
       \/ pc' = [pc EXCEPT ![r] = "cleaning"] /\ UNCHANGED dir
    /\ UNCHANGED <<slots, tracked, aborted, disc, resp, stuck, run, server>>

(* The upload ends well and the validator is asked for; or the stream or   *)
(* the disk fails, or the archive is too large.                            *)
Upload(r) ==
    /\ pc[r] = "uploading"
    /\ \/ Acquire("sidecar", r)
       \/ pc' = [pc EXCEPT ![r] = "cleaning"] /\ UNCHANGED slots
    /\ UNCHANGED <<tracked, aborted, disc, resp, dir, stuck, run, server>>

\* Mutant: a service that is through answers whatever happened meanwhile.
AnswersAnyway(r) ==
    /\ pc[r] = "cleaning"
    /\ \/ dir' = dir \ {r} /\ UNCHANGED stuck
       \/ r \in dir /\ stuck' = stuck \cup {r} /\ UNCHANGED dir
    /\ Release("service", r, "leaving")
    /\ resp' = [resp EXCEPT ![r] = IF child[r] = "closed" THEN "ok" ELSE "error"]
    /\ UNCHANGED <<tracked, aborted, disc, run, server>>

(* The service's finally block: the directory is removed, the slot given   *)
(* back, and the route answers unless it already has.  A report is passed  *)
(* on only if the run ended well and the request is not aborted.           *)
CleanUp(r) ==
    /\ pc[r] = "cleaning"
    /\ \/ /\ dir' = dir \ {r} /\ UNCHANGED stuck
          /\ \/ child[r] = "closed" /\ ~failed[r] /\ ~aborted[r] /\ Answer(r, "ok")
             \/ Answer(r, "error")
       \/ r \in dir /\ stuck' = stuck \cup {r} /\ UNCHANGED dir /\ Answer(r, "error")
    /\ Release("service", r, "leaving")
    /\ UNCHANGED <<tracked, aborted, disc, run, server>>

-----------------------------------------------------------------------------
(* The sidecar.                                                            *)

(* The validator is spawned; an aborted request gives its slot back.       *)
Spawn(r) ==
    /\ pc[r] = "has_sidecar"
    /\ \/ ~aborted[r] /\ pc' = [pc EXCEPT ![r] = "running"] /\ child' = [child EXCEPT ![r] = "alive"]
            /\ UNCHANGED slots
       \/ Release("sidecar", r, "cleaning") /\ UNCHANGED child
    /\ UNCHANGED <<tracked, aborted, disc, resp, dir, stuck, failed, killing, server>>

(* The validator ends by itself, or leaves a process that holds its pipes. *)
ChildEnds(r) ==
    /\ child[r] = "alive"
    /\ \/ child' = [child EXCEPT ![r] = "closed"]
       \/ Descendants /\ child' = [child EXCEPT ![r] = "orphan"]
    /\ UNCHANGED <<pc, slots, tracked, aborted, disc, resp, dir, stuck, failed, killing, server>>

(* stop: the timeout passed or an output limit was exceeded.  Nothing is   *)
(* signalled when the child itself has already exited.                     *)
Stop(r) ==
    /\ pc[r] = "running" /\ child[r] # "closed" /\ ~failed[r]
    /\ failed' = [failed EXCEPT ![r] = TRUE]
    /\ killing' = [killing EXCEPT ![r] = child[r] = "alive"]
    /\ UNCHANGED <<pc, slots, tracked, aborted, disc, resp, dir, stuck, child, server>>

(* SIGKILL to the process group.                                           *)
Kill(r) ==
    /\ killing[r] /\ child[r] \in {"alive", "orphan"}
    /\ child' = [child EXCEPT ![r] = "closed"]
    /\ UNCHANGED <<pc, slots, tracked, aborted, disc, resp, dir, stuck, failed, killing, server>>

(* The close event: every pipe is closed and the run is settled.           *)
ChildClosed(r) ==
    /\ pc[r] = "running" /\ child[r] = "closed"
    /\ Release("sidecar", r, "cleaning")
    /\ UNCHANGED <<tracked, aborted, disc, resp, dir, stuck, run, server>>

Step(r) ==
    \/ Parse(r) \/ Leave(r) \/ Inspect(r) \/ MakeDirectory(r) \/ CleanUp(r)
    \/ Spawn(r) \/ Stop(r) \/ Kill(r) \/ ChildClosed(r)

Done == (\A r \in Requests : pc[r] \in {"idle", "done"}) /\ UNCHANGED vars

Next ==
    \/ \E r \in Requests :
          \/ Arrive(r) \/ Refuse(r) \/ Disconnect(r) \/ Deadline(r) \/ Upload(r)
          \/ ChildEnds(r) \/ Step(r)
    \/ Close \/ Closed \/ Done

(* The event loop runs what is ready, timers fire and SIGKILL ends a group.*)
(* Uploads and validators may take for ever, and nobody need close.        *)
Fairness ==
    /\ \A r \in Requests : WF_vars(Step(r)) /\ WF_vars(Deadline(r))
    /\ WF_vars(Closed)

Spec == Init /\ [][Next]_vars /\ Fairness

-----------------------------------------------------------------------------
(* Properties.                                                             *)

(* The requests that hold a slot of a semaphore.                           *)
Holders(s) ==
    {r \in Requests :
        CASE s = "route" -> pc[r] \notin {"idle", "hooked", "waits_route", "done"}
          [] s = "service" -> pc[r] \in {"has_service", "uploading", "waits_sidecar", "has_sidecar",
                                         "running", "cleaning"}
          [] s = "sidecar" -> pc[r] \in {"has_sidecar", "running"}}

(* The slots counted are the slots held, whoever was aborted where, and    *)
(* nobody waits while a slot is free (how each semaphore hands a released  *)
(* slot to the next that waits).                                           *)
SlotsMatchHolders ==
    \A s \in Sems : /\ active[s] = Cardinality(Holders(s))
                    /\ queue[s] # <<>> => active[s] = Limit(s)

(* A directory or a validator exists only while its request holds a slot   *)
(* of the service, so the disk holds as many uploads as the service works  *)
(* on, but for those whose removal failed.                                 *)
DiskBounded ==
    /\ dir \ stuck \subseteq Holders("service")
    /\ \A r \in Requests : child[r] \in {"alive", "orphan"} => r \in Holders("sidecar")

(* When the server has closed, and the directories are about to be         *)
(* removed, no request works any more and no validator runs.               *)
CloseAfterRequests ==
    server = "closed" =>
        /\ dir \subseteq stuck
        /\ \A r \in Requests : pc[r] \in {"idle", "hooked", "done"} /\ child[r] \in {"none", "closed"}

AnswersOnce ==
    \A r \in Requests :
        /\ resp[r] # "none" => resp'[r] = resp[r]
        /\ resp'[r] = "ok" => resp[r] = "ok" \/ ~aborted[r]

(* A request is answered once, and a report never goes out for a request   *)
(* that was aborted, however late the validator ends.                      *)
AbortWins == [][AnswersOnce]_vars

(* Every request is answered and gives back what it took.                  *)
RequestSettles == \A r \in Requests : pc[r] = "hooked" ~> pc[r] = "done" /\ resp[r] # "none"

(* A server that begins to close is closed in the end.                     *)
CloseResolves == server = "closing" ~> server = "closed"

(* A validator's timeout ends its whole subtree.                           *)
TimeoutEndsSubtree == \A r \in Requests : failed[r] ~> child[r] = "closed"

=============================================================================
