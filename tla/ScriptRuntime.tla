--------------------------- MODULE ScriptRuntime ---------------------------
(***************************************************************************)
(* One plugin runtime: ScriptRuntime::State of                             *)
(* src/src/scripting/script_runtime.cpp.  The main thread (and the threads *)
(* that finish asynchronous operations) put events into a bounded queue;   *)
(* a task of the script worker pool drains the queue and is the only one   *)
(* that touches the Luau host; results travel back to the main thread as   *)
(* deferred calls.                                                         *)
(*                                                                         *)
(* A section under State::mutex is one step.  What a script computes is    *)
(* abstracted to a verdict (returned, threw, ran out of CPU budget), to    *)
(* whether it started an asynchronous operation, and to the serial number  *)
(* of the request it answered.  A LuauHost is identified by the generation *)
(* of the Reload event that created it, as each such event creates one.    *)
(***************************************************************************)
EXTENDS Integers, Sequences, FiniteSets, SequencesExt

CONSTANTS
    Worker,                   \* threads of the script worker pool
    MaxQueuedEvents,          \* kMaxQueuedEvents
    MaxConsecutiveTimeouts,   \* kMaxConsecutiveTimeouts
    MaxTimeoutsPerWindow,     \* kMaxTimeoutsPerWindow
    MaxHardErrorsPerWindow,   \* kMaxHardErrorsPerWindow
    Streams,                  \* coalescing keys
    Ref,                      \* slots of a VM's callback registry
    OfferKinds,               \* events the owner of the runtime sends
    OpKinds,                  \* operations a script may start
    Verdicts,                 \* how a script call may end
    MaxOffers,                \* bound: events the owner sends
    MaxOps                    \* bound: operations the scripts start

None == "none"   \* no stream, no operation

OwnerKinds == {"Reload", "Update", "Call", "Hover", "Stream", "Settings"}
CompletionKinds == {"Async", "Sound"}
Bad == {"error", "timeout"}

ASSUME RuntimeAssumption ==
    /\ MaxQueuedEvents \in Nat \ {0}
    /\ MaxConsecutiveTimeouts \in Nat \ {0}
    /\ MaxTimeoutsPerWindow \in Nat \ {0}
    /\ MaxHardErrorsPerWindow \in Nat \ {0}
    /\ OfferKinds \subseteq OwnerKinds
    /\ OpKinds \subseteq CompletionKinds
    /\ Verdicts \subseteq {"ok"} \union Bad
    /\ MaxOffers \in Nat /\ MaxOps \in Nat
    /\ None \notin Streams

\* An operation a script started: the host and the registry slot its
\* completion names, and an identity of its own.
Op == [kind: CompletionKinds, host: Nat, ref: Ref, id: Nat]

Event ==
    [kind: OwnerKinds \union CompletionKinds \union {"Stop"},
     generation: Nat,
     serial: Nat,                       \* which request it carries
     tag: Streams \union Op \union {None}]

\* What a worker posts back: the event's generation, the host that ran the
\* call, the request it answered, and the sounds it asks the shell to load.
ScriptResult == [generation: Nat, by: Nat, serial: Nat, sounds: SUBSET Op]

NoHost == [generation |-> 0, callbacks |-> [r \in Ref |-> 0]]
NoEvent == [kind |-> "Stop", generation |-> 0, serial |-> 0, tag |-> None]
NoResult == [generation |-> 0, by |-> 0, serial |-> 0, sounds |-> {}]

VARIABLES
    \* State, guarded by its mutex
    generation, queue, scheduled, updateQueued, updateRunning,
    updateStamped,            \* lastUpdateAccepted is set
    stopping, stopped,
    hasOnConfigChanged,
    unhealthy, consecutiveTimeouts, timeoutHistory, errorHistory,
    \* owned by the draining worker
    host, settings,
    validEntryId,             \* isValidPluginEntryId(runtimeName)
    \* the pool: tasks of this runtime waiting, and each worker's progress
    pool, pc, event, result,
    \* the main thread
    main, deferred, delivered, seeded, serial,
    \* operations under way, and how many were started
    inflight, ops,
    \* history: generations whose host ran onExit, and the bad verdicts of
    \* calls of this generation and of older ones since the last Reload
    exited, ownBad, staleBad

flags == <<updateQueued, updateRunning, updateStamped>>
health == <<unhealthy, consecutiveTimeouts, timeoutHistory, errorHistory>>
blame == <<ownBad, staleBad>>
life == <<stopping, stopped, hasOnConfigChanged>>
task == <<pc, event, result>>
owner == <<main, deferred, delivered, seeded, serial>>
work == <<inflight, ops>>
locked == <<generation, queue, scheduled, flags, life, health, blame, pool>>
vars == <<locked, host, settings, validEntryId, task, owner, work, exited>>

Init ==
    /\ generation = 0 /\ queue = <<>> /\ scheduled = FALSE
    /\ updateQueued = FALSE /\ updateRunning = FALSE /\ updateStamped = FALSE
    /\ stopping = FALSE /\ stopped = FALSE /\ hasOnConfigChanged = FALSE
    /\ unhealthy = FALSE /\ consecutiveTimeouts = 0
    /\ timeoutHistory = 0 /\ errorHistory = 0
    /\ host = NoHost /\ settings = 0 /\ validEntryId \in BOOLEAN
    /\ pool = 0
    /\ pc = [w \in Worker |-> "idle"]
    /\ event = [w \in Worker |-> NoEvent]
    /\ result = [w \in Worker |-> NoResult]
    /\ main = "free" /\ deferred = <<>> /\ delivered = NoResult
    /\ seeded = 0 /\ serial = 0
    /\ inflight = {} /\ ops = 0
    /\ exited = {} /\ ownBad = 0 /\ staleBad = 0

----------------------------------------------------------------------------
(* State::enqueue: what happens to an event, under the mutex.              *)

\* Mutant: a call may be dropped as well.
EvictableToo(e) == e.kind \in {"Update", "Hover", "Call"}
Evictable(e) == e.kind \in {"Update", "Hover"}
\* Mutant: the bound is compared off by one.
FullLate == Len(queue) > MaxQueuedEvents
Full == Len(queue) >= MaxQueuedEvents

\* The early returns on stopped, stopping and unhealthy.
Admitted(kind) ==
    /\ ~stopped /\ ~stopping
    /\ unhealthy => kind \in {"Reload", "Sound"}

\* The queued event of the same coalescing stream.
Superseded(e, i) ==
    e.kind = "Stream" /\ queue[i].kind = "Stream" /\ queue[i].tag = e.tag

\* A full queue makes room by dropping its first Update or droppable event.
FirstEvictable(i) ==
    Evictable(queue[i]) /\ \A j \in 1..(i - 1) : ~Evictable(queue[j])

\* Mutant: sounds are not exempt from the bound.
NoRoomForSounds(e) ==
    /\ Full
    /\ Evictable(e) \/ \A i \in DOMAIN queue : ~Evictable(queue[i])

\* A full queue has no place for e.
NoRoom(e) ==
    /\ Full /\ e.kind # "Sound"
    /\ Evictable(e) \/ \A i \in DOMAIN queue : ~Evictable(queue[i])

Refuse(e) ==
    /\ \/ ~Admitted(e.kind)
       \/ /\ e.kind # "Update" /\ NoRoom(e)
          /\ \A i \in DOMAIN queue : ~Superseded(e, i)
    /\ UNCHANGED locked

\* Mutant: every event posts a task.
WakeAlways == scheduled' = TRUE /\ pool' = pool + 1

\* A task that drains the queue is posted unless one is on its way.
Wake ==
    /\ scheduled' = TRUE
    /\ pool' = IF scheduled THEN pool ELSE pool + 1

Supersede(e) ==
    /\ Admitted(e.kind)
    /\ \E i \in DOMAIN queue :
          Superseded(e, i) /\ queue' = ReplaceAt(queue, i, e)
    /\ UNCHANGED <<generation, scheduled, flags, life, health, blame, pool>>

\* An Update is dropped, reported as accepted, while one is queued or runs,
\* and within updateInterval of the last one accepted.
ThrottleUpdate(e) ==
    /\ e.kind = "Update" /\ Admitted(e.kind)
    /\ updateQueued \/ updateRunning \/ updateStamped
    /\ UNCHANGED locked

\* An Update that meets a full queue is refused but counts as accepted for
\* the throttle.
RefuseUpdate(e) ==
    /\ e.kind = "Update" /\ Admitted(e.kind) /\ Full
    /\ ~updateQueued /\ ~updateRunning
    /\ updateStamped' = TRUE
    /\ UNCHANGED <<generation, queue, scheduled, updateQueued, updateRunning,
                   life, health, blame, pool>>

AcceptUpdate(e) ==
    /\ e.kind = "Update" /\ Admitted(e.kind) /\ ~Full
    /\ ~updateQueued /\ ~updateRunning
    /\ updateQueued' = TRUE /\ updateStamped' = TRUE
    /\ queue' = Append(queue, e)
    /\ Wake
    /\ UNCHANGED <<generation, updateRunning, life, health, blame>>

Accept(e) ==
    /\ e.kind \notin {"Update", "Reload"} /\ Admitted(e.kind)
    /\ Full => e.kind = "Sound"
    /\ \A i \in DOMAIN queue : ~Superseded(e, i)
    /\ queue' = Append(queue, e)
    /\ Wake
    /\ UNCHANGED <<generation, flags, life, health, blame>>

\* Mutant: the evicted Update leaves its flag behind.
EvictKeepsFlag(e) ==
    /\ e.kind \notin {"Update", "Reload", "Hover", "Sound"} /\ Admitted(e.kind)
    /\ Full
    /\ \A i \in DOMAIN queue : ~Superseded(e, i)
    /\ \E i \in DOMAIN queue :
          FirstEvictable(i) /\ queue' = Append(RemoveAt(queue, i), e)
    /\ Wake
    /\ UNCHANGED <<generation, flags, life, health, blame>>

Evict(e) ==
    /\ e.kind \notin {"Update", "Reload", "Hover", "Sound"} /\ Admitted(e.kind)
    /\ Full
    /\ \A i \in DOMAIN queue : ~Superseded(e, i)
    /\ \E i \in DOMAIN queue :
          /\ FirstEvictable(i)
          /\ queue' = Append(RemoveAt(queue, i), e)
          /\ updateQueued' = (updateQueued /\ queue[i].kind # "Update")
    /\ Wake
    /\ UNCHANGED <<generation, updateRunning, updateStamped, life, health, blame>>

\* A Load or Reload starts a new generation; it discards what was queued and
\* the record of what the script did.

\* Mutant: a reload jumps the queue instead of clearing it.
ReloadJumps(e) == <<[e EXCEPT !.generation = generation + 1]>> \o queue

Reloaded(e) == <<[e EXCEPT !.generation = generation + 1]>>

\* Mutant: only the flag is reset, the counters go on.
ForgiveFlagOnly ==
    /\ unhealthy' = FALSE
    /\ UNCHANGED <<consecutiveTimeouts, timeoutHistory, errorHistory>>
    /\ ownBad' = 0 /\ staleBad' = 0

Forgive ==
    /\ unhealthy' = FALSE /\ consecutiveTimeouts' = 0
    /\ timeoutHistory' = 0 /\ errorHistory' = 0
    /\ ownBad' = 0 /\ staleBad' = 0

\* Mutant: the generation moves on before the full queue refuses the event.
AcceptReloadUnasked(e) ==
    /\ e.kind = "Reload" /\ Admitted(e.kind)
    /\ generation' = generation + 1
    /\ IF NoRoom(e) THEN UNCHANGED <<queue, scheduled, pool>>
                    ELSE queue' = Reloaded(e) /\ Wake
    /\ updateQueued' = FALSE /\ updateRunning' = FALSE /\ updateStamped' = FALSE
    /\ Forgive
    /\ UNCHANGED life

AcceptReload(e) ==
    /\ e.kind = "Reload" /\ Admitted(e.kind) /\ ~NoRoom(e)
    /\ generation' = generation + 1
    /\ queue' = Reloaded(e)
    /\ updateQueued' = FALSE /\ updateRunning' = FALSE /\ updateStamped' = FALSE
    /\ Forgive
    /\ Wake
    /\ UNCHANGED life

Enqueue(e) ==
    \/ Refuse(e)
    \/ Supersede(e)
    \/ ThrottleUpdate(e)
    \/ RefuseUpdate(e)
    \/ AcceptUpdate(e)
    \/ Accept(e)
    \/ Evict(e)
    \/ AcceptReload(e)

----------------------------------------------------------------------------
(* The main thread and the threads that finish operations.                 *)

\* The owner sends an event: start, reload, enqueueUpdate, enqueueCall,
\* enqueueCallBool (droppable), enqueueCallArgs (coalescing),
\* enqueueSettingsChanged.  The service host sends the last only to a script
\* known to define onConfigChanged, and forgets its result: lastSeededSettings
\* moves on whether or not the event was accepted.
Offer(kind, key) ==
    /\ main = "free" /\ serial < MaxOffers
    /\ kind # "Reload" => generation > 0
    /\ kind = "Settings" => hasOnConfigChanged
    /\ kind = "Stream" <=> key \in Streams
    /\ serial' = serial + 1
    /\ seeded' = IF kind = "Settings" THEN serial + 1 ELSE seeded
    /\ Enqueue([kind |-> kind, generation |-> generation,
                serial |-> serial + 1, tag |-> key])
    /\ UNCHANGED <<host, settings, task, main, deferred, delivered, work,
                   exited, validEntryId>>

\* An operation ends, on a thread of its own, and reports to the runtime.
Complete(op) ==
    /\ op \in inflight
    /\ inflight' = inflight \ {op}
    /\ Enqueue([kind |-> op.kind, generation |-> generation,
                serial |-> 0, tag |-> op])
    /\ UNCHANGED <<host, settings, task, owner, ops, exited, validEntryId>>

\* Mutant: stop() relies on a task that may not be there.
StopUnposted ==
    /\ main = "free" /\ ~stopping /\ ~stopped
    /\ stopping' = TRUE
    /\ updateQueued' = FALSE
    /\ queue' = <<[kind |-> "Stop", generation |-> generation,
                   serial |-> 0, tag |-> None]>>
    /\ main' = "stop"
    /\ UNCHANGED <<generation, scheduled, pool, updateRunning, updateStamped,
                   stopped, hasOnConfigChanged, health, blame, host, settings, task,
                   deferred, delivered, seeded, serial, work, exited, validEntryId>>

\* State::stop: the queue is replaced by a Stop event and the main thread
\* waits until the worker has torn the host down.
Stop ==
    /\ main = "free" /\ ~stopping /\ ~stopped
    /\ stopping' = TRUE
    /\ updateQueued' = FALSE
    /\ queue' = <<[kind |-> "Stop", generation |-> generation,
                   serial |-> 0, tag |-> None]>>
    /\ Wake
    /\ main' = "stop"
    /\ UNCHANGED <<generation, updateRunning, updateStamped, stopped,
                   hasOnConfigChanged, health, blame, host, settings, task,
                   deferred, delivered, seeded, serial, work, exited, validEntryId>>

StopReturns ==
    /\ main = "stop" /\ stopped
    /\ main' = "free"
    /\ UNCHANGED <<locked, host, settings, task, deferred, delivered, seeded,
                   serial, work, exited, validEntryId>>

\* Mutant: results of older generations are delivered.
DeliverAny ==
    /\ main = "free" /\ deferred # <<>>
    /\ deferred' = Tail(deferred)
    /\ IF stopped
       THEN UNCHANGED <<delivered, inflight>>
       ELSE /\ delivered' = Head(deferred)
            /\ inflight' = inflight \union Head(deferred).sounds
    /\ UNCHANGED <<locked, host, settings, task, main, seeded, serial, ops,
                   exited, validEntryId>>

\* deliverResult: a result of an older generation, or that arrives after the
\* stop, is dropped; side effects and subscribers run otherwise.
Deliver ==
    /\ main = "free" /\ deferred # <<>>
    /\ deferred' = Tail(deferred)
    /\ LET r == Head(deferred)
       IN IF r.generation # generation \/ stopped
          THEN UNCHANGED <<delivered, inflight>>
          ELSE delivered' = r /\ inflight' = inflight \union r.sounds
    /\ UNCHANGED <<locked, host, settings, task, main, seeded, serial, ops,
                   exited, validEntryId>>

----------------------------------------------------------------------------
(* State::drain on a worker of the pool.                                   *)

\* Mutant: a worker wakes without a task.
TakeTaskUnposted(w) ==
    /\ pc[w] = "idle"
    /\ pool' = pool - 1
    /\ pc' = [pc EXCEPT ![w] = "pop"]
    /\ UNCHANGED <<generation, queue, scheduled, flags, life, health, blame,
                   host, settings, event, result, owner, work, exited, validEntryId>>

TakeTask(w) ==
    /\ pc[w] = "idle" /\ pool > 0
    /\ pool' = pool - 1
    /\ pc' = [pc EXCEPT ![w] = "pop"]
    /\ UNCHANGED <<generation, queue, scheduled, flags, life, health, blame,
                   host, settings, event, result, owner, work, exited, validEntryId>>

\* Mutant: drain saw the queue empty before it took the lock.
DrainEndsLate(w) ==
    /\ pc[w] = "pop"
    /\ scheduled' = FALSE
    /\ pc' = [pc EXCEPT ![w] = "idle"]
    /\ UNCHANGED <<generation, queue, flags, life, health, blame, pool,
                   host, settings, event, result, owner, work, exited, validEntryId>>

DrainEnds(w) ==
    /\ pc[w] = "pop"
    /\ queue = <<>> \/ stopped
    /\ scheduled' = FALSE
    /\ pc' = [pc EXCEPT ![w] = "idle"]
    /\ UNCHANGED <<generation, queue, flags, life, health, blame, pool,
                   host, settings, event, result, owner, work, exited, validEntryId>>

Pop(w) ==
    /\ pc[w] = "pop" /\ queue # <<>> /\ ~stopped
    /\ LET e == Head(queue)
       IN /\ event' = [event EXCEPT ![w] = e]
          /\ pc' = [pc EXCEPT ![w] = IF e.kind = "Stop" THEN "exit" ELSE "run"]
          /\ updateQueued' = (updateQueued /\ e.kind # "Update")
          /\ updateRunning' = (updateRunning \/ e.kind = "Update")
    /\ queue' = Tail(queue)
    /\ UNCHANGED <<generation, scheduled, updateStamped, life, health, blame, pool,
                   host, settings, result, owner, work, exited, validEntryId>>

\* updateHealth: the verdict of a call.  Entries older than the window are
\* pruned when one is added; how many are left is open.
CountTimeout ==
    \E kept \in 0..timeoutHistory :
       /\ timeoutHistory' = kept + 1
       /\ consecutiveTimeouts' = consecutiveTimeouts + 1
       /\ unhealthy' = \/ unhealthy
                       \/ consecutiveTimeouts + 1 >= MaxConsecutiveTimeouts
                       \/ kept + 1 >= MaxTimeoutsPerWindow
       /\ UNCHANGED errorHistory

CountError ==
    \E kept \in 0..errorHistory :
       /\ errorHistory' = kept + 1
       /\ consecutiveTimeouts' = 0
       /\ unhealthy' = (unhealthy \/ kept + 1 >= MaxHardErrorsPerWindow)
       /\ UNCHANGED timeoutHistory

CountSuccess ==
    /\ consecutiveTimeouts' = 0
    /\ UNCHANGED <<unhealthy, timeoutHistory, errorHistory>>

\* History: whose call it was that went wrong.
Blame(e, verdict) ==
    IF verdict \notin Bad THEN UNCHANGED blame
    ELSE IF e.generation = generation
         THEN ownBad' = ownBad + 1 /\ UNCHANGED staleBad
         ELSE staleBad' = staleBad + 1 /\ UNCHANGED ownBad

Judge(e, verdict) ==
    /\ \/ verdict = "timeout" /\ CountTimeout
       \/ verdict = "error" /\ CountError
       \/ verdict = "ok" /\ CountSuccess
    /\ Blame(e, verdict)

\* A script call of worker w on host h: it may register one callback and
\* start the operation that completes it.  A sound is started by the main
\* thread, when the result that asks for it is delivered.
Startable(h) ==
    {op \in [kind: OpKinds, host: {h.generation}, ref: Ref, id: {ops + 1}] :
        ops < MaxOps /\ h.callbacks[op.ref] = 0}

Call(w, h, earlier) ==
    \E started \in {{}} \union {{op} : op \in Startable(h)} :
       /\ ops' = IF started = {} THEN ops ELSE ops + 1
       /\ host' = [h EXCEPT !.callbacks =
                     [r \in Ref |-> IF \E op \in started : op.ref = r
                                    THEN ops + 1 ELSE h.callbacks[r]]]
       /\ inflight' = inflight \union {op \in started : op.kind = "Async"}
       /\ result' = [result EXCEPT ![w] =
                       [generation |-> event[w].generation, by |-> h.generation,
                        serial |-> event[w].serial,
                        sounds |-> earlier \union {op \in started : op.kind = "Sound"}]]

HasHost == host.generation > 0

\* Mutant: the host is not compared.
CallableAnyHost(e) == host.callbacks[e.tag.ref] # 0

\* The guard of a completion: the host it names is the live one and still
\* holds its callback.
Callable(e) ==
    e.tag.host = host.generation /\ host.callbacks[e.tag.ref] # 0

\* processEvent returns nothing: no host, a completion whose host or callback
\* is gone, or a global the script does not define.
Skip(w) ==
    /\ pc[w] = "run" /\ event[w].kind # "Reload"
    /\ \/ ~HasHost
       \/ event[w].kind \in CompletionKinds => ~Callable(event[w])
    /\ settings' = IF HasHost /\ event[w].kind = "Settings"
                   THEN event[w].serial ELSE settings
    /\ result' = [result EXCEPT ![w] = NoResult]
    /\ pc' = [pc EXCEPT ![w] = "settle"]
    /\ UNCHANGED <<locked, host, event, owner, work, exited, validEntryId>>

\* processEvent calls the script.  A completion's callback is unregistered
\* before it runs.
Run(w) ==
    /\ pc[w] = "run" /\ event[w].kind # "Reload" /\ HasHost
    /\ event[w].kind \in CompletionKinds => Callable(event[w])
    /\ \E verdict \in Verdicts : Judge(event[w], verdict)
    /\ Call(w, IF event[w].kind \in CompletionKinds
               THEN [host EXCEPT !.callbacks[event[w].tag.ref] = 0] ELSE host, {})
    /\ settings' = IF event[w].kind = "Settings" THEN event[w].serial ELSE settings
    /\ pc' = [pc EXCEPT ![w] = "settle"]
    /\ UNCHANGED <<generation, queue, scheduled, flags, life, pool, event,
                   owner, exited, validEntryId>>

\* teardownHost: onExit, then the host goes.
Teardown == exited' = IF HasHost THEN exited \union {host.generation} ELSE exited

\* processLoad refuses an entry id that is not canonical.
RefuseLoad(w) ==
    /\ pc[w] = "run" /\ event[w].kind = "Reload" /\ ~validEntryId
    /\ Teardown
    /\ host' = NoHost
    /\ result' = [result EXCEPT ![w] = [NoResult EXCEPT !.generation = generation]]
    /\ pc' = [pc EXCEPT ![w] = "settle"]
    /\ UNCHANGED <<locked, settings, event, owner, work, validEntryId>>

\* Mutant: the old host is replaced without its onExit.
LoadHostOver(w) ==
    /\ pc[w] = "run" /\ event[w].kind = "Reload" /\ validEntryId
    /\ Call(w, [NoHost EXCEPT !.generation = event[w].generation], {})
    /\ \E verdict \in Verdicts :
          /\ Judge(event[w], verdict)
          /\ pc' = [pc EXCEPT ![w] = IF verdict = "ok" THEN "loaded" ELSE "settle"]
          /\ hasOnConfigChanged' = (hasOnConfigChanged \/ verdict # "ok")
    /\ UNCHANGED <<generation, queue, scheduled, flags, stopping, stopped, pool,
                   settings, event, owner, exited, validEntryId>>

\* processLoad: the old host leaves, the chunk runs on a new one.
LoadHost(w) ==
    /\ pc[w] = "run" /\ event[w].kind = "Reload" /\ validEntryId
    /\ Teardown
    /\ Call(w, [NoHost EXCEPT !.generation = event[w].generation], {})
    /\ \E verdict \in Verdicts :
          /\ Judge(event[w], verdict)
          /\ pc' = [pc EXCEPT ![w] = IF verdict = "ok" THEN "loaded" ELSE "settle"]
          /\ hasOnConfigChanged' = (hasOnConfigChanged \/ verdict # "ok")
    /\ UNCHANGED <<generation, queue, scheduled, flags, stopping, stopped, pool,
                   settings, event, owner, validEntryId>>

\* processLoad: after a good load the script's update() runs, if it has one.
\* The scripts modelled define onConfigChanged.
FirstUpdate(w) ==
    /\ pc[w] = "loaded"
    /\ \/ UNCHANGED <<health, blame, host, work, result>>
       \/ /\ \E verdict \in Verdicts : Judge(event[w], verdict)
          /\ Call(w, host, result[w].sounds)
    /\ hasOnConfigChanged' = TRUE
    /\ pc' = [pc EXCEPT ![w] = "settle"]
    /\ UNCHANGED <<generation, queue, scheduled, flags, stopping, stopped, pool,
                   settings, event, owner, exited, validEntryId>>

\* Mutant: an event that has no result leaves updateRunning set.
SettleEarly(w) ==
    /\ pc[w] = "settle"
    /\ updateRunning' = (updateRunning
                         /\ (result[w] # NoResult => event[w].kind # "Update"))
    /\ pc' = [pc EXCEPT ![w] = IF result[w] = NoResult THEN "pop" ELSE "post"]
    /\ UNCHANGED <<generation, queue, scheduled, updateQueued, updateStamped, life,
                   health, blame, pool, host, settings, event, result, owner,
                   work, exited, validEntryId>>

\* drain, after processEvent.
Settle(w) ==
    /\ pc[w] = "settle"
    /\ updateRunning' = (updateRunning /\ event[w].kind # "Update")
    /\ pc' = [pc EXCEPT ![w] = IF result[w] = NoResult THEN "pop" ELSE "post"]
    /\ UNCHANGED <<generation, queue, scheduled, updateQueued, updateStamped, life,
                   health, blame, pool, host, settings, event, result, owner,
                   work, exited, validEntryId>>

PostResult(w) ==
    /\ pc[w] = "post"
    /\ deferred' = Append(deferred, result[w])
    /\ pc' = [pc EXCEPT ![w] = "pop"]
    /\ UNCHANGED <<locked, host, settings, event, result, main, delivered, seeded,
                   serial, work, exited, validEntryId>>

\* Mutant: a host that has no onExit is not dropped.
ExitHostIfAsked(w) ==
    /\ pc[w] = "exit"
    /\ \/ Teardown /\ host' = NoHost
       \/ UNCHANGED <<host, exited>>
    /\ pc' = [pc EXCEPT ![w] = "halt"]
    /\ UNCHANGED <<locked, settings, event, result, owner, work, validEntryId>>

\* drain, on a Stop event: the host leaves, then the stop is announced.
ExitHost(w) ==
    /\ pc[w] = "exit"
    /\ Teardown
    /\ host' = NoHost
    /\ pc' = [pc EXCEPT ![w] = "halt"]
    /\ UNCHANGED <<locked, settings, event, result, owner, work, validEntryId>>

Halt(w) ==
    /\ pc[w] = "halt"
    /\ queue' = <<>> /\ stopped' = TRUE /\ scheduled' = FALSE
    /\ pc' = [pc EXCEPT ![w] = "idle"]
    /\ UNCHANGED <<generation, flags, stopping, hasOnConfigChanged, health, blame,
                   pool, host, settings, event, result, owner, work, exited,
                   validEntryId>>

Drain(w) ==
    \/ DrainEnds(w) \/ Pop(w) \/ Skip(w) \/ Run(w) \/ RefuseLoad(w)
    \/ LoadHost(w) \/ FirstUpdate(w) \/ Settle(w) \/ PostResult(w)
    \/ ExitHost(w) \/ Halt(w)

Next ==
    \/ \E kind \in OfferKinds, key \in Streams \union {None} : Offer(kind, key)
    \/ \E op \in inflight : Complete(op)
    \/ Stop
    \/ StopReturns
    \/ Deliver
    \/ \E w \in Worker : TakeTask(w) \/ Drain(w)

Spec == Init /\ [][Next]_vars

\* The pool runs a posted task on some worker, a worker that drains goes on
\* (the CPU budget ends every script call), the main loop runs its deferred
\* calls, and an operation that was started ends.  Nothing obliges the owner
\* to send events or to stop.
Fairness ==
    /\ WF_vars(\E w \in Worker : TakeTask(w))
    /\ \A w \in Worker : WF_vars(Drain(w))
    /\ WF_vars(Deliver)
    /\ WF_vars(StopReturns)
    /\ WF_vars(\E op \in inflight : Complete(op))

FairSpec == Spec /\ Fairness

----------------------------------------------------------------------------
(* Properties.                                                             *)

Busy(w) == pc[w] # "idle"
Running(w) == pc[w] \in {"run", "loaded", "settle"}

LockedTypeOK ==
    /\ generation \in Nat /\ queue \in Seq(Event) /\ scheduled \in BOOLEAN
    /\ updateQueued \in BOOLEAN /\ updateRunning \in BOOLEAN
    /\ updateStamped \in BOOLEAN
    /\ stopping \in BOOLEAN /\ stopped \in BOOLEAN
    /\ hasOnConfigChanged \in BOOLEAN
    /\ unhealthy \in BOOLEAN /\ consecutiveTimeouts \in Nat
    /\ timeoutHistory \in Nat /\ errorHistory \in Nat
    /\ ownBad \in Nat /\ staleBad \in Nat
    /\ pool \in Nat

WorkerTypeOK ==
    /\ host \in [generation: Nat, callbacks: [Ref -> Nat]] /\ settings \in Nat
    /\ pc \in [Worker -> {"idle", "pop", "run", "loaded", "settle", "post",
                          "exit", "halt"}]
    /\ event \in [Worker -> Event] /\ result \in [Worker -> ScriptResult]
    /\ exited \subseteq Nat /\ validEntryId \in BOOLEAN

OwnerTypeOK ==
    /\ main \in {"free", "stop"} /\ deferred \in Seq(ScriptResult)
    /\ delivered \in ScriptResult /\ seeded \in Nat /\ serial \in Nat
    /\ inflight \subseteq Op /\ ops \in Nat

\* Every variable keeps to its range.
TypeOK == LockedTypeOK /\ WorkerTypeOK /\ OwnerTypeOK

\* The host is used by one worker at a time without a lock of its own: the
\* flag "scheduled" is set exactly while one task is posted or one worker
\* drains, and never two.
SingleDrain ==
    /\ pool \in {0, 1}
    /\ scheduled <=> (pool = 1 \/ \E w \in Worker : Busy(w))
    /\ pool = 1 => \A w \in Worker : ~Busy(w)
    /\ \A v, w \in Worker : Busy(v) /\ Busy(w) => v = w

\* An accepted event never waits in the queue with no worker on its way to
\* it (the race of enqueue with a drain that has just found the queue empty).
NoLostWakeup ==
    queue # <<>> => pool > 0 \/ \E w \in Worker : Busy(w)

\* enqueue and drain hand the mailbox over exactly: never to two workers, and
\* never to none while an event waits.
DrainIsExact == SingleDrain /\ NoLostWakeup

\* updateQueued and updateRunning say what is there: one that stayed set would
\* silently stop the script's updates, one that was cleared too early would
\* let them pile up.
UpdateFlagsExact ==
    /\ updateQueued <=> \E i \in DOMAIN queue : queue[i].kind = "Update"
    /\ \A i, j \in DOMAIN queue :
          queue[i].kind = "Update" /\ queue[j].kind = "Update" => i = j
    /\ updateRunning =>
          \E w \in Worker : Running(w) /\ event[w].kind = "Update"
    /\ \A w \in Worker :
          Running(w) /\ event[w].kind = "Update" /\ event[w].generation = generation
          => updateRunning

\* An event accepted after a reload never runs on the script of before it,
\* nor one accepted before on the script of after: no lock is held between
\* the two and the generation travels in the event.
CallsMeetTheirHost ==
    \A w \in Worker :
       pc[w] = "run" /\ event[w].kind # "Reload" /\ HasHost
       => event[w].generation = host.generation

\* What the subscriber is given was computed by the script it last asked to
\* load, never by one that a reload has since replaced.
DeliveryIsFresh ==
    [][delivered' # delivered => delivered'.by \in {0, generation}]_vars

\* The queue stays within kMaxQueuedEvents but for sounds, which are exempt,
\* holds one event per coalescing stream, and keeps the order in which the
\* other requests were accepted.
QueueDiscipline ==
    /\ Cardinality({i \in DOMAIN queue : queue[i].kind # "Sound"}) <= MaxQueuedEvents
    /\ \A i, j \in DOMAIN queue :
          i < j => /\ ~Superseded(queue[i], j)
                   /\ {queue[i].kind, queue[j].kind} \subseteq OwnerKinds \ {"Stream"}
                      => queue[i].serial < queue[j].serial

\* A script is disabled for what it did itself: of the calls made before a
\* reload, only the one in progress can still be counted against the new
\* script, so at most one bad verdict is not its own.
UnhealthyIsEarned ==
    unhealthy => ownBad + 1 >= MaxConsecutiveTimeouts
                 \/ ownBad + 1 >= MaxTimeoutsPerWindow
                 \/ ownBad + 1 >= MaxHardErrorsPerWindow

\* A completion runs the callback that its own operation registered: neither
\* a reload that reuses registry slots nor a slot freed and taken again in the
\* same host confuses them.
CompletionMeetsItsCallback ==
    \A w \in Worker :
       pc[w] = "run" /\ event[w].kind \in CompletionKinds /\ HasHost
       /\ Callable(event[w])
       => host.callbacks[event[w].tag.ref] = event[w].tag.id

\* A host is never dropped without its onExit, and never runs it twice.
HostLeavesByExit ==
    [][/\ HasHost /\ host'.generation # host.generation
          => exited' = exited \union {host.generation}
       /\ HasHost => host.generation \notin exited]_vars

\* Once stopped, nothing of the runtime is left that could run: no host, no
\* event, no posted task, no worker; and the main thread comes back from
\* stop() only then.
StopIsFinal ==
    /\ stopped => ~HasHost /\ queue = <<>> /\ pool = 0 /\ \A w \in Worker : ~Busy(w)
    /\ stopping /\ main = "free" => stopped

\* stop() returns: the main thread is not left waiting for a worker.
StopCompletes == stopping ~> (stopped /\ main = "free")

\* A reload of a runtime with a canonical entry id, once accepted, takes
\* effect, unless another or a stop comes.
ReloadTakesEffect ==
    \A g \in 1..MaxOffers :
       generation = g /\ validEntryId ~> (host.generation = g \/ generation # g \/ stopping)

\* An update that was accepted does not block the next one for ever.
UpdatesKeepFlowing == (updateQueued \/ updateRunning) ~> ~(updateQueued \/ updateRunning)

\* A call of the script has asked for the sound that slot r was taken for.
SoundAsked(r, id) ==
    \E w \in Worker : /\ pc[w] \in {"loaded", "settle"}
                       /\ \E op \in result[w].sounds : op.ref = r /\ op.id = id

\* The callback of a sound runs, unless its host goes: the completion is exempt
\* from the bound of the mailbox (script_runtime.cpp:381).  Those of other
\* operations are not, and are lost when the mailbox is full.
SoundCallbackRuns ==
    \A r \in Ref : \A id \in 1..MaxOps :
       SoundAsked(r, id) ~> host.callbacks[r] # id

\* The settings that the service host has sent reach the script.
SettingsReachScript ==
    \A s \in 1..MaxOffers :
       seeded = s ~> (settings = s \/ seeded # s \/ stopping)
----------------------------------------------------------------------------
(* The runtime as its owner sees it.                                       *)

\* What becomes of an event, by what enqueue does with its kind.
NatureOf(kind) ==
    CASE kind = "Reload" -> "load"
      [] kind \in {"Call", "Settings"} -> "call"
      [] kind = "Stream" -> "stream"
      [] kind \in {"Update", "Hover"} -> "hint"
      [] OTHER -> "own"

AsRequest(e) == [of |-> e.serial, nature |-> NatureOf(e.kind)]
AsRunning(e) == [of |-> e.serial, nature |-> NatureOf(e.kind), load |-> e.generation]
AsAnswer(r) == [of |-> r.serial, load |-> r.generation, by |-> r.by]
AsAnswers(d) == [i \in DOMAIN d |-> AsAnswer(d[i])]

Working(w) == pc[w] \in {"run", "loaded", "settle", "post"}

\* The requests of a mailbox.
Waits(q) == {AsRequest(q[i]) : i \in {j \in DOMAIN q : q[j].kind \in OwnerKinds}}

waiting == Waits(queue)
running == {AsRunning(event[w]) : w \in {v \in Worker : Working(v)}}
answers == AsAnswers(deferred)
Phase == IF stopped THEN "ended" ELSE IF stopping THEN "ending" ELSE "open"

Service == INSTANCE ScriptService
            WITH asked <- serial, load <- generation, script <- host.generation,
                 shown <- AsAnswer(delivered),
                 phase <- Phase

\* The mailbox, the pool and the worker together are a script that handles one
\* request at a time: an accepted call is never dropped but by a load or the
\* stop, nothing runs twice, out of order or on another script than it was
\* meant for, and no answer is shown once its script was to be replaced.
ServiceIsImplemented == Service!Spec

----------------------------------------------------------------------------
(* Inductive strengthenings, for the proofs.                               *)

\* Once stop() has begun the queue holds nothing but its Stop event, the
\* worker that took it is the one that tears the host down, and what
\* StopIsFinal says holds from then on.
StopInv ==
    /\ StopIsFinal
    /\ stopped => stopping
    /\ \A i \in DOMAIN queue : stopping <=> queue[i].kind = "Stop"
    /\ \A w \in Worker :
          /\ pc[w] \in {"exit", "halt"} => stopping /\ ~stopped
          /\ pc[w] = "halt" => ~HasHost

ReloadAtHead == queue # <<>> /\ queue[1].kind = "Reload"

\* Whatever is still of an older generation, the host or the event in hand,
\* has a Reload right behind it.
GenerationInv ==
    /\ \A i \in DOMAIN queue :
          /\ queue[i].generation = generation
          /\ i > 1 => queue[i].kind # "Reload"
    /\ \A w \in Worker :
          pc[w] \in {"run", "loaded"} /\ ~stopping /\ event[w].generation # generation
          => ReloadAtHead
    /\ HasHost /\ ~stopping /\ host.generation # generation
       => \/ ReloadAtHead
          \/ \E w \in Worker : pc[w] = "run" /\ event[w].kind = "Reload"
    /\ CallsMeetTheirHost
    /\ \A w \in Worker : pc[w] = "loaded" => host.generation = event[w].generation

\* A result names the generation of the host that computed it.
ResultInv ==
    /\ \A w \in Worker :
          pc[w] \in {"loaded", "settle", "post"}
          => result[w].by \in {0, result[w].generation}
    /\ \A i \in DOMAIN deferred : deferred[i].by \in {0, deferred[i].generation}

\* The counters that decide on unhealthy count bad verdicts since the last
\* Reload, of which at most one is of an older generation; none as long as
\* that call is still in hand.
HealthInv ==
    /\ consecutiveTimeouts <= ownBad + staleBad
    /\ timeoutHistory <= ownBad + staleBad
    /\ errorHistory <= ownBad + staleBad
    /\ staleBad <= 1
    /\ \A w \in Worker :
          pc[w] \in {"run", "loaded"} /\ event[w].generation # generation
          => staleBad = 0
    /\ UnhealthyIsEarned
\* The requests in the queue are among those the owner has made.
RequestInv ==
    /\ QueueDiscipline
    /\ \A i \in DOMAIN queue :
          queue[i].kind \in OwnerKinds => queue[i].serial <= serial

\* No host of generation g has been there yet.
Unborn(g) == host.generation < g /\ \A x \in exited : x < g

\* A Reload that is still to run, queued or in hand, makes a host of its own.
HostInv ==
    /\ host.generation <= generation
    /\ HasHost => host.generation \notin exited
    /\ \A x \in exited : x <= generation
    /\ \A w \in Worker : event[w].generation <= generation
    /\ ReloadAtHead => /\ Unborn(generation)
                       /\ \A w \in Worker : event[w].generation < generation
    /\ \A w \in Worker :
          pc[w] = "run" /\ event[w].kind = "Reload" => Unborn(event[w].generation)

\* Where an operation may be, besides inflight: in a result that is computed
\* or posted, in the queue, or in hand.
Held == UNION {result[w].sounds :
                 w \in {v \in Worker : pc[v] \in {"loaded", "settle", "post"}}}
Posted == UNION {deferred[i].sounds : i \in DOMAIN deferred}
Queued == {queue[i].tag : i \in {j \in DOMAIN queue : queue[j].kind \in CompletionKinds}}
InHand == {event[w].tag :
             w \in {v \in Worker : pc[v] = "run" /\ event[v].kind \in CompletionKinds}}

Apart(a, b, c, d, e) ==
    /\ a \intersect (b \union c \union d \union e) = {}
    /\ b \intersect (c \union d \union e) = {}
    /\ c \intersect (d \union e) = {}
    /\ d \intersect e = {}

\* The operations of L, of the n that were started, are of hosts that are gone
\* or of h, which keeps their callbacks.
Fit(L, n, gone, h) ==
    /\ L \subseteq Op
    /\ \A o, q \in L : o.id = q.id => o = q
    /\ \A o \in L :
          /\ o.id \in 1..n
          /\ o.host \in gone \/ (h.generation > 0 /\ o.host = h.generation)
          /\ h.generation > 0 /\ o.host = h.generation => h.callbacks[o.ref] = o.id

\* An operation is in one place at a time, and as long as it is somewhere and
\* its host is there, its callback is in its slot.
OpInv ==
    /\ Apart(inflight, Held, Posted, Queued, InHand)
    /\ \A i, j \in DOMAIN queue :
          /\ queue[i].kind \in CompletionKinds /\ queue[j].kind \in CompletionKinds
          /\ queue[i].tag = queue[j].tag
          => i = j
    /\ \A i, j \in DOMAIN deferred :
          deferred[i].sounds \intersect deferred[j].sounds # {} => i = j
    /\ Fit(inflight \union Held \union Posted \union Queued \union InHand,
           ops, exited, host)

\* Each request in a mailbox has a number of its own, and a completion none.
Numbered(q) ==
    /\ \A i, j \in DOMAIN q :
          /\ q[i].kind \in OwnerKinds /\ q[j].kind \in OwnerKinds
          /\ q[i].serial = q[j].serial
          => i = j
    /\ \A i \in DOMAIN q : q[i].kind \in CompletionKinds => q[i].serial = 0

\* The result in hand is the answer of the script of the event's load.
Answered(w) ==
    /\ HasHost /\ host.generation = event[w].generation
    /\ result[w].by = host.generation /\ result[w].generation = event[w].generation
    /\ result[w].serial = event[w].serial

\* The result in hand says that a load left no script.
Failed(w) ==
    /\ ~HasHost /\ event[w].kind = "Reload"
    /\ result[w].by = 0 /\ result[w].serial = 0
    /\ 0 < result[w].generation /\ result[w].generation <= generation
    /\ event[w].generation <= result[w].generation

\* What a worker is about to post.
AnswerInv ==
    \A w \in Worker :
       /\ pc[w] = "loaded" => Answered(w)
       /\ pc[w] = "settle" => \/ Answered(w) \/ Failed(w)
                              \/ result[w] = NoResult /\ event[w].kind # "Reload"
       /\ pc[w] = "post" => Answered(w) \/ Failed(w)

ServiceInv == Numbered(queue) /\ AnswerInv
=============================================================================
