# Formal models of Chiroptera

Chiroptera is a Wayland desktop shell in C++ whose widgets, services and panels
can be extended with Luau plugins.  This directory holds TLA+ models of the
parts of it where order and failure matter, the TLC configurations that check
them and the TLAPS proofs about them.  Paths are relative to the repository:
`src/...` below is `src/src/...` in `PROJECT.json`, whose `src/` is the
repository's root.

| module | what it is |
|---|---|
| `ScriptService` | what a plugin runtime promises its owner: the abstract specification |
| `ScriptRuntime` | one plugin runtime: mailbox, worker, Luau host, results; its refinement of `ScriptService` |
| `ScriptRuntime_proofs` | theorems about it, the refinement among them |
| `PluginState` | the state channel between the runtimes of a plugin |
| `PluginState_proofs` | theorems about it |
| `TimerService` | what the timer manager promises: the abstract specification |
| `TimerManager` | the table of timers and `tick()`; its refinement of `TimerService` |
| `TimerManager_proofs` | the refinement proved |
| `MainLoop` | one turn of the main loop, with `TimerManager` and deferred calls |
| `MainLoop_proofs` | theorems about the loop, on those about the timers |
| `IdleManager` | idle behaviours, the fade before them, the lock screen's part in them |
| `IdleManager_proofs` | theorems about it |
| `LockScreen` | the session lock, its exit, authentication, the action after a lock |
| `FingerprintReader` | the claim, verification, retries and sleeps of the reader |
| `SessionGuard` | `LockScreen` and `FingerprintReader` with logind around them |
| `SessionGuard_proofs` | theorems about the three |
| `NotificationManager` | notifications, their history, the close signals owed |
| `NotificationManager_proofs` | theorems about it |
| `HttpClient` | downloads, requests and streams of the HTTP client |
| `HttpStream` | `HttpClient` with the script side of its streams |
| `HttpStream_proofs` | theorems about the two |
| `MC*` | model values and symmetry for TLC; each `.cfg` is one run |

## The system

One process with a main thread (`app/main_loop.cpp`: deferred calls, Wayland
events, poll sources, timers, in this order, for ever), a pool of script
workers, and threads that come and go for I/O.  Nearly every component lives on
the main thread and is reached from others by `DeferredCall::callLater`.

| component | state it keeps | operations | interacts by | what is hard | what makes it correct |
|---|---|---|---|---|---|
| Script runtime (`scripting/script_runtime.cpp`) | bounded mailbox, generation, update and health counters, stop flags; the worker's host | start, reload, update, call, settings, stop; results | events in, deferred results out | enqueue against drain; reload while a call runs; full queue; stop waits for the worker | one drain, no lost wake-up, events meet their host, fresh results, stop is final |
| Luau host (`scripting/luau_host.cpp`) | VM, callback registry, streams by registry slot | call, start an operation, register a watch, start and stop a stream | on the draining worker; deferred calls to the main thread | slots are reused; a stop overtakes a start | a completion meets its callback, a stopped stream is silent |
| Plugin service host (`scripting/plugin_service_host.cpp`) | runtimes of services, last settings seeded | refresh, reload, stop | owns runtimes | forgets what the mailbox answered | settings reach the script |
| Plugin state store (`scripting/plugin_state_store.cpp`) | values and watchers per plugin and key | set, get, watch, removeWatchers | called by workers, posts to mailboxes | watchers called after the mutex is released | no dead watcher, news in order, no news lost for another's sake |
| Main loop and deferred calls (`app/main_loop.cpp`, `core/deferred_call.cpp`) | source deadlines; queue and wake pipe | one turn; callLater from any thread | everything runs on it | a deadline kept while timers come and go; the push before the byte | never sleeps past a call, past a timer only for the floor of a poll with a full Wayland socket; neither starves the other |
| Timer manager (`core/timer_manager.cpp`) | timer table, sets of in-flight and cancelled timers | start, stop, move, tick | callbacks | callbacks that stop, restart, start | a cancelled timer does not fire, a started one does |
| Idle manager (`idle/idle_manager.cpp`) | phase per behaviour, the active grace, its timer, inhibitions | idled, resumed, reload, inhibit, lock state, fade end | compositor notifications, overlay, lock screen, action runner | resume against a posted show or completion; events dispatched inside a capture | actions only for absent users, undone on return, a grace ends |
| Lock screen (`shell/lockscreen/lock_screen.cpp`) | lock object, pending and locked flags, surfaces, authentication generation, action to follow | lock, unlock, locked, finished, outputs, authenticate | session-lock protocol, PAM thread, reader, hooks | late answers of threads and of the compositor; outputs that come and go | never unlocked by a stale answer; every output covered; hooks paired |
| Fingerprint reader (`auth/fingerprint_authenticator.cpp`) | claim, pending starts, retries, one timer, sleeping | start, stop, answers and signals of fprintd, sleep, resume | D-Bus; the lock screen | answers, retries, a lost claim and a sleep that overlap | at work, or gave up for a reason |
| Lock before sleep (`app/application_services.cpp`, `dbus/logind/logind_service.cpp`, `shell/session/session_action_runner.cpp`) | delay inhibitor, release when locked, skip the next lock | PrepareForSleep, Lock and Unlock, suspends of its own, reload | logind, lock screen, session hooks | the lock fails, is given up or comes late while logind waits | a sleep finds the session locked, and is not held up for nothing |
| Notification manager (`notification/notification_manager.cpp`) | notifications, history, deferred close signals, ids, scheduled save | add, replace, close, action, expire, sweep, clear, restart | D-Bus, toasts, bar, tab, file | deferred close against replacement, eviction and shutdown; a crash before the save | one close signal per notification; books in step |
| HTTP client (`net/http_client.cpp`) | transfers, transfers by destination, streams | download, post, request, stream, cancel | curl, callbacks, plugin hosts | shared destination; the next URL asked for inside a callback | each caller once, one writer per file |
| Configuration (`config/config_service.cpp`, `config_overrides.cpp`) | tables, own-write flag, subscribers | write override, reload, subscribe | inotify, callbacks | own echo against a user's edit; callbacks that subscribe | the last file state is loaded |
| Usage tracker, single instance, IPC, hooks, D-Bus mirrors, audio, monitors, compositor back ends, rendering | | | | mostly I/O or drawing | |

`PROJECT.json` lists every component with its status, the hazards at their
lines, and, under "map", the lines each definition stands for.

## ScriptRuntime

`ScriptRuntime::State` and the worker that drains it.  Each critical section of
`State::mutex` is one step.

* **State.** The variables have the names of the members.  `host` is the Luau
  host, named by the generation of the `Reload` event that created it, with the
  operation each callback slot waits for; `pool` is the number of tasks of this
  runtime that wait for a worker; `pc`, `event` and `result` are the locals of
  `drain()` on each worker; `deferred` is what this runtime has posted to the
  main thread; `inflight` are operations that have not ended.  `exited`,
  `ownBad` and `staleBad` are history, for the properties.
* **Main thread.** `Offer` is `start`, `reload`, `enqueueUpdate`,
  `enqueueCall`, `enqueueCallBool` (kind `Hover`, droppable), `enqueueCallArgs`
  (kind `Stream`, coalescing) and `enqueueSettingsChanged`, by way of `Enqueue`,
  whose eight disjuncts are the ways through `State::enqueue`.  `Stop` replaces
  the queue and blocks the main thread; `StopReturns` is the end of the wait.
  `Deliver` is `deliverResult`.
* **Operations.** `Complete` is the end of an asynchronous operation on its own
  thread.  A sound (`Sound`) is started by the main thread when the result that
  asks for it is delivered; its completion is exempt from the bound of the queue
  and admitted to an unhealthy runtime.
* **Worker.** `TakeTask`, `DrainEnds`, `Pop`, then `Skip`, `Run`, `RefuseLoad`
  or `LoadHost` and `FirstUpdate`, then `Settle` and `PostResult`; for a stop
  `ExitHost` and `Halt`.

What a script computes is abstract: a call ends well, throws or exhausts its CPU
budget, and may register one callback and start its operation.  The time window
of the health counters is abstract too: any number of older entries may be
pruned when one is added.  The update throttle is open: an update soon after the
last may be dropped or, once the interval has passed, accepted.  `Run` is one
step, though an operation may end while the call that started it still runs:
its completion queues behind.

Not modelled: subscribers and the replay of the last result, UI handler tables,
the output of processes and sockets line by line (for HTTP see HttpStream),
operations that `onExit` starts (their completions name a host that is gone,
`Skip`), an event that is both coalescing and droppable, and the shutdown of the pool.

| run | bounds | shows |
|---|---|---|
| `ScriptRuntime_queue` | 2 workers, queue of 2, 2 streams, 5 events of every kind but settings, calls that may overrun; 4.3M states | mailbox, flags, single drain, generations, stop; refinement |
| `ScriptRuntime_live` | 1 worker, queue of 1, 3 events (reload, call, update), 2 operations (commands and sounds), calls that may throw; fair; 485k states | health, callbacks, onExit, freshness of results; stop, reload and updates make progress, a sound's callback runs |
| `ScriptRuntime_settings` | queue of 2, 3 reloads and settings; fair | *violated*: settings are lost behind a reload |

The queue of the code holds 64 events; one or two are enough for every way
through `enqueue` (room, no room, something to evict, nothing to evict), and a
bound reached after two events leaves the rest of the five to meet it.  Two
workers are enough for the races between workers, as at most one can drain.
Three events allow reload, call and reload again, the shortest history in which
an operation, a host and a health record outlive their script; two operations are
what it takes to have a slot taken again.  The fair run has one worker: the
other run shows that no more than one drains.  Workers are interchangeable;
only the safety run uses that symmetry.

*Fairness.* The pool runs a posted task on some worker and a worker that drains
goes on (every script call has a CPU budget, and nothing in `drain()` blocks);
the main loop runs its deferred calls and is woken from `stop()`; an operation
that was started ends (processes, downloads and timers have their own ends or
timeouts; this is an assumption on the outside).  Weak fairness is enough: each
of these steps stays possible until it is taken.  Nothing obliges the owner of
a runtime to send events or to stop.

*Properties.*  `DrainIsExact` is the two sides of the `scheduled` flag, that no
two workers drain (`SingleDrain`) and that an event that waits has one on its
way (`NoLostWakeup`); `UpdateFlagsExact` says that the throttle's flags are never
stuck; `QueueDiscipline` is bound, coalescing and order; `CallsMeetTheirHost`
and `DeliveryIsFresh` are the two ends of the generation; `UnhealthyIsEarned`
bounds what a script pays for its predecessor (one call);
`CompletionMeetsItsCallback` is about slots that are reused;
`HostLeavesByExit`, `StopIsFinal` and `StopCompletes` are about the end.
`SoundCallbackRuns` says that the callback of a sound runs unless its host goes,
and says it of sounds only: their completions are exempt from the bound of the
queue (`script_runtime.cpp:381-397`).  It does not hold of a command, though the
same run has commands beside the sounds: the completion of `runAsync` may be
refused by a full mailbox, and its callback then never runs, against
`docs/user/plugins/development/runtime-api.mdx:229`.  TLC finds that run when
the formula is stated of commands.

*Refinement.*  `ScriptService` is what the owner of a runtime may rely on: a
script that handles one request at a time.  `Service == INSTANCE ScriptService
WITH asked <- serial, load <- generation, waiting <- waiting, running <-
running, script <- host.generation, answers <- answers, ...`: `waiting` are the
requests in the mailbox, `running` the one in a worker's hand (`pc` from `"run"`
to `"post"`), `answers` the results posted to the main thread.  Requests differ
by what `enqueue` does with them (`NatureOf`): a load discards those before it,
a call is never dropped, a coalescing event takes the place of one of its kind,
an update or a droppable event (a hint) may give way to anything; completions
are the script's own business and only take a hint's place (`Displace`).  Pool,
`scheduled`, update flags, health and callbacks do not appear: a health verdict
shows as a refusal, a posted task, a call of `onExit` and the end of the wait in
`stop()` as stuttering.  `ServiceIsImplemented` says that, across all of it, an
accepted call is dropped by a reload or the stop alone, that requests are begun
once, in order but for streams and by the host they were meant for, that a host
is only replaced by a later one, and that an answer is shown in order or, once a
reload was accepted, not at all.  The abstract specification leaves open when a
request is refused, which hint gives way, and which of its kind a coalescing
event replaces; those are `QueueDiscipline`'s.  `ScriptRuntime_queue` starts no
operation and so never takes `Displace`; the theorem covers it.

## PluginState

The store (`values`, `watchers`), each runtime's mailbox, VM and worker, and
`sending`: the copied watchers that a `set()` has still to call, on the thread
of the setter.  The lists of watchers are sets here, because what one watcher is
told depends on no other; the model so allows every order of a round, the
code's own included.  `Set` is the section under the mutex, `Notify` one watcher's
call, which a mailbox refuses that is full, stopped or of a disabled script
(`Admits`, `unhealthy`; `lost` is history); when a script is disabled is
ScriptRuntime's, here any call may end so, and a reload forgives it.  A reload or stop is
`TakeLeave` (the watchers go), a call of `onExit`, and `Leave` (they go again,
then the VM).  `told` and `called` are history: the last value of a key that
the script was given, and for which key the last callback was.

Load and Reload are one kind, as in the code that handles them; a call makes any
number of sets and ends with at most one watch; the other kinds of events are in
ScriptRuntime. `get` changes nothing and is not modelled.

| run | bounds | shows |
|---|---|---|
| `PluginState_news` | 2 runtimes, 1 key, mailboxes of 2, 3 events, 2 values, 2 callbacks of a VM; fair; 146k states | `WatchersAreLive`, `NewsInOrder`, `NewsArrives` |
| `PluginState_keys` | the same with 2 keys, 4 events, 1 value, 1 callback | *violated*: a callback is given another key's value |

Both runtimes can watch and the first can set, so a runtime also hears itself.
Two values show an order, mailboxes of two are filled by the two callbacks of
one runtime, and three events allow a reload or stop between any two steps of a
round.  The passing run has one key to keep `NewsArrives` affordable; the
safety properties are proved for any number of them.  *Fairness*: the pool serves
every mailbox and calls end.

## IdleManager

`idle_manager.cpp`, the overlay, the callbacks in `application_ui.cpp` that
connect them, and as much of the lock screen as they use.

* **State.** `phase` per behaviour; `grace`, `graceWillLock`, `graceGeneration`
  and `fallback` (the generation its timer was armed for) of the active grace;
  `overlay` with the grace it would report; `deferred` calls; `lock` and
  `screen`; `server`, `wire` and `told` for the compositor: what it has
  reported, what is on its way, what was last dispatched (`"missed"`: a resume
  that found its behaviour waiting behind a capture).  `account` (is an action
  settled, owed its resume, or forgotten by a reload) and `cancelled` (graces
  the user ended) are history.
* **Nesting.** `primeDesktopCaptures` and `LockScreen::lock` take blocking
  captures, which dispatch Wayland events while they wait.  `nest` is the stack
  of captures in progress with what is left of the handler that started each;
  steps of the main loop proper need an empty stack, `Dispatch` does not.
* **Actions.** `Dispatch(b)` is `handleIdled` and `handleResumed` in seven
  cases; `CallShow`, `CallDone`, `FallbackFires`, `FadeEnds` and `OutputsChange`
  are the fade (an output may change inside a capture, and voids it); `Reload`,
  `Inhibit`, `Uninhibit` and the lock's actions the rest.  `CompleteGrace` is
  `graceFadeComplete` with the actions it runs.

Timeouts are abstract: an absent user may be reported idle at any time.  The two
deferred hops of a fade without outputs are one; `unlock()` runs to the end of
its transition; `handleFinished` of a session that was locked has the same
effect as `Unlock` and is not a separate action.  Not modelled: the heartbeat
behind the live status, a compositor without the idle protocol or a seat, lock
and suspend.  `LockCaptureEnds` may end without a lock, as it does when the
outputs have gone or the lock cannot be created; a lock that is deferred so is
later a `RequestLock`.

| run | bounds | shows |
|---|---|---|
| `IdleManager_grace` | a locking and a blanking behaviour, no captures, 1 absence, 1 inhibition, 1 lock request or cancel; fair; 445k states | the grace ends, the screen comes back |
| `IdleManager_capture` | captures, two deep, 2 absences, 1 reload, 1 inhibition, 1 lock request, cancel or unlock, 3 of these in all; 6.3M states | the grace list, phases and actions under nested dispatch; cancelled fades |
| `IdleManager_reload` | a few steps suffice | *violated*: the screen stays off |

Two behaviours are what it takes to have one join another's grace, one that
locks and one whose effect must be undone.  `MaxIncidents` bounds absences,
reloads, inhibitions and lock requests together; three allow the user to leave,
return and leave again with any other incident in between, or a reload and a
lock within one absence.  Neither behaviour is locked-only, so that the blanking
one can wait behind the lock's capture, which is where the exceptions below
occur.  Liveness is checked without captures, to keep it affordable.

*Fairness.* The main loop dispatches events and runs deferred calls, captures
have a deadline and the timer fires.  The compositor is not trusted to finish a
fade, nor the user to do anything.

*Properties.*  `GraceIsWhole` is `TypeOK` and `GraceIsFading`: outside
`graceFadeComplete` the behaviours that fade are those of the grace, and its
timer is armed for it.  `PhaseFollowsReports`, `ActionMeansIdle` and
`ActionIsOwed` relate a phase to what the compositor said and to what was done,
with captures, reloads and inhibitions going on.  Each names the one exception
that the code makes.  A behaviour that waits behind the capture of `lock()` in
the loop of `graceFadeComplete` is still fading, in a grace that is no longer
there to cancel (`idle_manager.cpp:403`): a resume dispatched inside the capture
finds nothing to do (`told` is `"missed"`), its action runs for a present user,
and it stays idled until its user leaves and returns once more or its
notification is made anew.  And a reload forgets
what the actions before it owe (`account` is `"forgotten"`).
`CancelledFadeIsGone` is about the deferred show.  Two things the code does
that no property asks for: an inhibition during the fade does not stop its
action, although `idle_manager.h:43` speaks of suppressed actions, and
`cancelActiveGrace(false)` of a reload leaves the overlay up for a lock that is
not coming (`application_ui.cpp:788`).  TLC confirms both on this model.

## TimerManager, TimerService, MainLoop

`TimerService` is the abstract specification: an id is handed out once, armed
with a delay, called when the delay has passed and never before, once or at each
interval, until it is disarmed; one callback runs at a time.  It knows nothing
of `tick()`.

`TimerManager` is `core/timer_manager.cpp`.  `entries` is the table, `dueEntries`
what is left of the vector that `tick()` has filled, `current` the id in its
callback, `inFlight` and `canceled` the two sets, `nextId`, and `handle` the
`m_id` of each Timer object.  `Start`, `Stop` and `Move` are the operations of
Timer with the `cancel()` they contain; `TickBegins`, `TickSkips`, `TickCalls`
and `TickReturns` are `tick()`, cut where a callback begins and ends.  Handlers
run when `tick()` does not, or inside a callback (`MayHandle`).  The vector has
the order of an `unordered_map`, that is any.  Time is what is left until an
entry is due; the next interval of a repeating timer begins when its callback
returns, as in the code.

*Refinement.*  `Service == INSTANCE TimerService WITH armed <- armed, calling <-
current, issued <- nextId - 1`: what is armed is the table, the vector except for
what was cancelled, and a repeating timer in its callback.  `ServiceIsImplemented`
is `Service!Spec`; `TickBegins` and `TickSkips` are stuttering steps of it.

`MainLoop` EXTENDS it by `app/main_loop.cpp` and `core/deferred_call.cpp`: `pc` is
where `run()` is; `queue`, `byte` and `posting` are the posted calls, the wake
pipe, and the threads between the push and the write of `callLater`; `deadline`
is the entry of the timer source in `m_sourceDeadlines`, which `NextDeadline` only
brings forward until the source is dispatched; `flushBlocked` and `timeout` are
the two of this turn: what is left of `pollTimeout`, which is raised to
`FlushFloor` when the Wayland socket would take no more (16 ms in the code);
`woken` are the sources this pass has still to dispatch.  `Wake` is the return of
`poll()` that a byte or the timeout makes, `PollReturns` any return (room in a
full socket is one, pending frame work another), `Interrupted` the `EINTR` path.
Whatever ends the poll, a timer source whose deadline has come is dispatched.
Deferred calls, Wayland events, other sources and timer callbacks are the
handlers that may use timers and post calls (`UseTimers`, `PostHere`).

| run | bounds | shows |
|---|---|---|
| `MainLoop` | 2 Timer objects, 3 ids, delays of 0 and 1, a floor of 2, one call, one other thread; fair; 97k states | refinement, sleeps, no starvation |

Two objects allow a move and two timers due in one tick, the third id a restart
or a repeating timer beside both; a delay of zero is the timer that is due at
once, a delay of one the timer that is slept for; the floor is longer than both,
so a poll with a full socket outlasts every timer.  A call is queued at most
once at a time, but may be posted again for ever, by itself too.

*Fairness.*  Handlers end and the loop goes on (WF of `LoopStep`); signals
interrupt `poll()` finitely often (the shell handles `SIGTERM` and `SIGINT` only,
`application_services.cpp:557`, and each asks it to end); time passes; a thread
that has pushed writes its byte.  Nothing obliges a handler to do anything.

*Properties.*  `LoopIsSound` is `TypeOK`, `ActiveIsExact` (`Timer::active()` is
true exactly of what runs or will), `SleepsNoLonger` and `NoLostCall` (a loop that
sleeps has no timer due before its deadline, and no posted call without a byte
in the pipe or on its way).  `NothingStarves` is `TimersAreCalled` and
`CallsAreRun`: calls that post themselves and timers of no delay do not shut
each other out, because `takePending()` takes one batch.

Not modelled: frame scheduling, the read protocol of Wayland, shutdown, the log
of slow sources.

## LockScreen, FingerprintReader, SessionGuard

`LockScreen` has the members of the object as one record, `screen`; its helpers
are the private methods, from a screen to the next, with their names.
`compositor` is the other side of the lock object with the events on their way,
`thread` how far each attempt's thread is, `told` what the session hooks last
said.  `lock()` has two halves, before and after the desktop capture in which
events are dispatched (`starting`): `RequestLock` or what else calls it, then
`LockRequested`, `LockFails` or `OutputsVanished`.  `HandleLocked`,
`HandleFinished`, `OutputChange`, `ConfigChange`, `UnlockSession`, `Render`,
`ExitComplete` and the two timeouts are the handlers; `Authenticate`,
`ThreadEnds` and `AuthResult` an attempt; `RunAction` and `RunFinish` the deferred
calls.

`FingerprintReader` is `fingerprint_authenticator.cpp`: `auth` has its members,
`verifying` says that fprintd waits for a finger.  `StartVerify` is
`startVerify()`; the answers to Claim and VerifyStart, the signals, the retry
timer (also that of the one reclaim) and PrepareForSleep are one action each.

`SessionGuard` composes the two with logind.  Every step of the lock screen
keeps or changes the guard as its hooks do (`MayLock`, `MayUnlock`, `Locked`,
`Lost`, `NotLocked`, `Reconfigured`), and the reader follows `screen.reader`
(`Switch`).  `PrepareForSleep` is the handler with its four ways; `Resume` the
other signal; `AnnounceSleep` and `Sleep` are logind's, which waits for an
inhibitor it has granted, but not for ever; `SuspendAfterLock` and
`SuspendByMenu` are the shell's own suspends, which skip the next lock.

| run | bounds | shows |
|---|---|---|
| `SessionGuard` | one output that comes and goes, 2 locks, 1 attempt, 1 asked action, 1 retry, 1 sleep; 2.1M states | lock, reader and logind in step |

One output is enough for an output without a surface, for no output, and for a
transition that waits for a surface that goes.  Two locks allow a result of the
first to arrive in the second.  One sleep suffices, because its resume leaves
nothing but the inhibitor, which may have been refused before the first.
`guard.wanted` is `lock_before_suspend`, which a change of the configuration may
turn on or off by itself (`Reconfigured`, `ShouldLock`).

No fairness: the properties are safety.  Users, compositor, PAM, fprintd and
logind owe nothing.

*Properties.*  `GuardIsWhole` is `LockIsWhole` (types; hooks paired with the
lock; a surface on every output, but for those whose surface could not be
created; the action after a lock runs once at most each time it is asked), the
reader on exactly when the lock screen says so, and `DelayHasAReason`.
`UnlockIsOfferedAgain` is `UnlockIsOffered` (a prompt that shows that it
authenticates has an attempt under way, the reader is on only while a finger may
unlock) and `ReaderIsNotForgotten`.  `SessionIsGuarded` is
`StaleResultIsIgnored` (an attempt unlocks only the lock it was made for) and
`SleepsLocked`.  `ActionKeepsItsLock` is about the action that waits for a lock:
it is given up only with that lock, so no other path loses it, and it is not
left behind to follow some later one.  The exception is in the formula: one
asked for while the last lock is being left, with a surface that has yet to
render, which `finishUnlock` does not give up.  Two requests before the lock
came are one action, the second's: `m_pendingAfterLocked` holds one.
`SleepsLocked` has an excuse for each way by which the code lets a sleep find an
open session on purpose: a suspend of the shell's own, a lock that is disabled,
refused or without outputs, an unlock meanwhile, a delay that was not granted.

What the code does besides, with TLC's agreement where it is said:

* A pending lock that is unlocked runs neither `onUnlocked` nor
  `onLockAborted`: the inhibitor is then kept until the delay of logind ends
  (`application.h:265` says it is cleared).  TLC; hence `past.abandoned`.
* `finishUnlock` destroys a pending lock which the compositor may already have
  locked, although the comment at `lock_screen.cpp:992-993` says that it must be
  unlocked then.  TLC; `GiveBack` takes it to be allowed.
* `m_skipLockOnNextSleep` stays set after a suspend that was started and refused:
  the next sleep is not locked (`docs/user/getting-started/faq.mdx:339`).
* `handleFinished` leaves `m_suspendTimeoutTimer` running;
  `runAfterSessionLocked` during an exit runs its action although the session is
  being unlocked; logind's unlock does not cancel a deferred lock.
* A sleep within the 250 ms before a reclaim stops the timer and leaves
  `m_reclaimAttempted`: a claim lost on resume is not taken again.

Not modelled: the PAM conversation in its child process, status messages, what
surfaces draw, widgets, media and power controls of the lock screen.

## NotificationManager

A notification is what decides its way: may it be kept (`tracked`), is its
urgency one that the filter lets pass (`allowed`), has it `actions`.  `live` and
`expiring` are the notifications on screen, `history` the entries in their
order, `pending` the deferred close signals, `suppressed` the ids of what a
filter hides, `disk` the saved file (`behind`: history, a save or a load has
failed since it was written), `refresh` and `indicator` the deferred refresh of
the bar.  `issued` and `told` are history.  The private helpers (`Upsert`,
`MarkClosed`, `RemoveEntry`, `EmitPending`, `Clear`...) pass a book from one to
the next, so that a handler with several of them is one action: `Notify`,
`Suppress`, `Replace`, `Close` (user, application), `Expire`, `PauseExpiry`,
`Invoke`, `RemoveByUser`, `ClearAll`, `ClearHistory`, `Sweep` (age is abstract:
any closed entries may be old).  `Persist` and `RefreshShell` are the deferred
calls; `Restart` saves, `Crash` does not.  A save may leave the old file or one
cut short (`Saves`), a start may not read what is there (`Starts`); neither is
reported or tried again.

| run | bounds | shows |
|---|---|---|
| `NotificationManager_books` | 2 ids, history of 1, 4 kinds of notification, 2 configurations, 1 change, 1 restart or crash; 1.6M states | close signals, actions, books |

A history of one is full after one entry, so the second id evicts; a restart
between any two steps takes ids and entries over.  The configurations are one
that lets some urgencies pass and keeps what is dismissed, and one that hides
toasts and does not.  A filter that keeps no history treats every notification as
an untracked one is treated; one that passes all is met by an urgency that is
let pass, and one that drops all by one that is not.  No fairness: the
properties are safety.

*Properties.*  `ClosedOnce`: one close signal for each notification, at the time
it is neither on screen nor kept for its actions, whichever of dismissal, call,
expiry, eviction, sweep, clearing, replacement or action it was.
`NoCloseIsLeftBehind`: an entry that leaves the history takes its signal with
it.  `ActionsHaveAnOwner`: no action for an application that was told, or of an
earlier session.  `BooksAgree`: `TypeOK`, live entries are active, the bar shows
what is unread, ids in use are not handed out again after a crash either, and
what is shown is saved or about to be, unless a save or a load has failed since
(`notification_manager.cpp:874` looks at no result).

Besides: `notification-clear-history` leaves the bar's indicator as it was
(excepted in `BarIsInSync`); what was on screen at a restart stays active in the
history and is never swept, since `:140` asks for an inactive entry, although
`docs/user/services/notifications.mdx:55` has older entries removed (TLC);
expired notifications that are not tracked and have actions keep their signal
until shutdown; after a crash nobody sends what was owed.  A close asks the
filter without its urgencies (`notification_manager.cpp:617`): a notification
replaced by one of a barred urgency leaves the history, and is back in it when it
is closed.

Not modelled: a foreign daemon that is adopted, duplicates within a second,
`updateBody`, do-not-disturb and sounds, a daemon that is switched off, images.
A replacement always counts as a change of contents.

## HttpClient, HttpStream

`HttpClient`: `transfers` are the tables of transfers with the callbacks of each,
`activeByDest` the table by destination, `index` and `answers` where a caller is,
`calling` the callbacks that a finished transfer has still to make, `deferred`
the deferred calls.  `Ask` is download(), post() or request(): it joins a
transfer to the same file, begins one, or is refused with a deferred failure.
`Finish` is the end of a transfer up to its callbacks; `Call` is one of them,
which answers its caller or asks for the next URL from within.

`HttpStream` EXTENDS it by the `httpStream` table of `luau_host.cpp`.  A stream is
known to the host by a registry slot; the script's thread, the main thread and
the mailbox are three parties with deferred calls and events between them.
`StartStream` and `StartedStream` are the deferred start, cut where the client is
busy and the script may stop; `RunCancel` the deferred cancellation; `ReceiveLine`
and `FinishStream` come from curl; `HandleEvent` is the mailbox's end;
`ReplaceHost` a reload.

| run | bounds | shows |
|---|---|---|
| `HttpStream` | 2 downloads to one file (2 URLs and 1), 1 request, 2 streams, 1 slot, 1 line, 1 reload; fair; 2.1M states | callers, files, streams |

Two downloads of one file meet in every order, the retry of one with the start
of the other; one slot makes the second stream take the slot of the first, in
the same host or the next.

*Fairness.*  One weak fairness of the main loop's own steps: what is deferred
runs, callbacks return, and downloads and requests end, as they have timeouts.
Streams have none (`http_client.cpp:410`), and none is assumed.

*Properties.*  `TransfersAgree` is `TypeOK`, one writer per destination, each
caller in exactly one place until it is answered and then answered once, one
close callback, and `NoOrphanStream`, of every open stream: stopped or left
behind in a reload it is being cancelled, and otherwise the live host has it on
record, so that `stop()` and the next reload find it.  The one exception is in
the formula: a stream whose close callback has run while it was open, for the
queued close of an earlier stream with its slot.  `StopIsSilent`: no callback
of a stopped stream, nothing for a stream of a later host.  `EveryoneIsAnswered`
is the callers' liveness.

Besides: within one host the slot is all that names a stream, so that a line or
close still queued when the script stops a stream and starts another is given to
the other (TLC; `runtime-api.mdx:386`).  A close given to the other erases its
record (`luau_host.cpp:2540`): that stream stays open though its onClose has run,
its handle's `stop()` does nothing (`luau_host.cpp:2497-2499`), and a reload does
not cancel it, against `runtime-api.mdx:389`; without the exception in
`NoOrphanStream` TLC shows this.  `StopIsSilent` compares hosts, so it does not
speak of two streams of one host.  A close refused by a full mailbox is
lost; a caller that joins on its retry moves past a URL it never tried
(`http_client.h:65-68`) and gets the file of another URL.

Not modelled: headers and options, limits of size, the watch of curl's sockets
and timers; curl's done message is part of `Finish`; offline mode is one reason
to be refused.  `onData` looks at `cancelled` once per chunk, the model once per
line; a line too many is dropped, or misdirected, by the mailbox as above.

## What the violated runs show

Each is a place where the documentation or a comment says one thing and the
code does another; `PROJECT.json` "findings" quotes both.

1. `sr_settings`: settings accepted in place are dropped by a reload that
   follows before the worker has taken them.
2. `ps_keys`: news of a watched key carries no host, so after a reload it may
   reach the callback of another key.
3. `idle_reload`: a configuration reload while the screen is off forgets to turn
   it on again.

The sections above name further places where the code does something that a
reader of its comments would not expect; they are kept as notes with the
hazards, since no run of their own is needed to see them in the code.

## Proofs

Every safety property that a run checks is also a theorem, for every value of
the constants; what is left to TLC is liveness.  Each module's invariant was
checked by TLC before it was proved.

`ScriptRuntime_proofs` proves for every set of workers, every bound, every
choice of event kinds and every length of history, assuming only
`RuntimeAssumption` (positive limits, known kinds):

| theorem | property |
|---|---|
| `TypeCorrect` | `TypeOK` |
| `OneDrain`, `StopIsComplete` | `DrainIsExact`, `StopIsFinal` |
| `EventsMeetTheirHost` | `CallsMeetTheirHost` |
| `ResultsAreFresh` | `DeliveryIsFresh` |
| `UnhealthyEarned` | `UnhealthyIsEarned` |
| `FlagsAreExact` | `UpdateFlagsExact` |
| `MailboxInOrder` | `QueueDiscipline` |
| `HostsLeaveOnce` | `HostLeavesByExit` |
| `CompletionsMeetTheirCallback` | `CompletionMeetsItsCallback` |
| `RuntimeImplementsService` | `ServiceIsImplemented` |

The argument.  `SingleDrain`, half of `DrainIsExact`, is nearly inductive, but a
stop clears the flag while the queue may fill again, so it is proved together
with `StopInv`: once a stop has begun the queue holds nothing but its `Stop`
event, and nothing is admitted.  `CallsMeetTheirHost` needs `GenerationInv`:
events in the queue are of the current generation, a `Reload` is only ever at
its head, and whatever is of an older generation (the host, the event in hand)
has a `Reload` right behind it.  `DeliveryIsFresh` follows from `ResultInv`,
that a result names the generation of the host that computed it.
`UnhealthyIsEarned` needs `HealthInv`, that the three counters are bounded by
the bad verdicts since the last reload, of which at most one is of an older
generation, and none while that call is still in hand.

For `QueueDiscipline` the eight ways through `enqueue` are brought to one form:
`Origins` names the old place of each element of the new queue, keeps their
order, and says that an element which counts against the bound found room or
took the place of one that left (`EnqueueOrigins`); `RequestInv` adds that every
serial number in the queue has been given out.  `HostLeavesByExit` rests on
`HostInv`: a `Reload` that is still to run, queued or in hand, is of a
generation no host has had (`Unborn`).  `CompletionMeetsItsCallback` needs the
whole way of an operation, `OpInv`: it is in one place at a time (under way, in
a result that is computed or posted, in the queue, in hand: `Apart`), and as
long as it is somewhere and its host is there, its slot holds its callback
(`Fit`).  A call on a host adds one new operation in a free slot (`CallOps`); a
host that goes makes all of its operations strangers to the next (`FitLater`).

`RuntimeImplementsService` maps every step to one of `ScriptService` or to a
stutter, in states of `RuntimeInv`: the invariants above and `ServiceInv`.
`Numbered` says that no two requests in the mailbox have one number; without it
the set `waiting` would forget that two events are two.  `AnswerInv` says of
each worker that what it holds is the answer of its event's own host, or the
news that a load left none.  The lemmas `Waits...` say what an append, a removal,
a replacement and a tail do to `waiting`, and `Joins` is what the eight ways
through `enqueue` come to; `OneRunner`, with `SingleDrain`, makes `running` at
most one request, so that `Begin` finds it empty.  `GenerationInv` gives that a
request is begun under the load it was accepted for, `HostInv` that a load
replaces an earlier one.

`PluginState_proofs.tla` proves, for any runtimes, keys, writers and capacity of
the mailboxes:

| theorem | property |
|---|---|
| `TypeCorrect` | `TypeOK`, with the bound on every mailbox |
| `WatchersLive` | `WatchersAreLive` |
| `NewsOrdered` | `NewsInOrder` |

`WatchersAreLive` is inductive as it stands.  `NewsInOrder` needs `NewsInv`: for
a key with one writer, what the script was told, what its mailbox will tell it
(in the order of the letters) and what a round has still to post are in the
order of the writes, up to the stored value; `Set` keeps it because a runtime
posts all the news of one value before it sets the next, so with one writer
nothing older is pending.  It also needs `HostInv`, that a runtime without a VM
was told nothing, for the `Leave` of a stop.  The only assumption is the named
one of the module: mailboxes hold at least one letter, and the bounds are
numbers.

`TimerManager_proofs` proves, for any Timer objects, ids and delays:

| theorem | property |
|---|---|
| `TimersTyped` | `TimerTypeOK` |
| `ActiveExact` | `ActiveIsExact` |
| `TimersImplementService` | `TimerSpec => ServiceIsImplemented` |

The argument.  `armed` tells the table from the vector, so the refinement needs
to know that no id is in both, and that the sets speak of the vector: `TickInv`
says that what is in flight is what is in the vector, out of the table and due,
that only such ids are cancelled, that the running callback is one of them and
that no id in use will be handed out again.  A `cancel()` touches the timer it is
for and no other (`CancelIsLocal`); with it each operation maps to its
counterpart, `TickBegins` and `TickSkips` to stuttering.  The assumption is
`TimerAssumption`: the bounds are numbers and `NoEntry` is no entry.

`MainLoop_proofs` proves, for any calls and threads besides:

| theorem | property |
|---|---|
| `LoopImplementsService` | `ServiceIsImplemented`, of the whole loop |
| `LoopSound` | `LoopIsSound` |

Every step of the loop is a step of the timers or leaves them alone
(`LoopRunsTimers`), so their invariant and refinement carry over.  `LoopIsSound`
needs `CallsAnnounced`, that a queued call has its byte in the pipe or on its
way except where the loop has just drained the pipe and is about to take the
queue; `SleepsNoLonger` needs that the deadline in force is the least of what is
left and the timeout is that deadline or the floor (`DeadlineIsSoonest`,
`TimeoutIsSoon`), which rests on the existence of a least number, taken from the
library's well-founded induction.

`SessionGuard_proofs` proves, for any outputs, attempts and bounds:

| theorem | property |
|---|---|
| `SessionInvariant` | the inductive invariant, `SessionInv` |
| `GuardStaysWhole`, `UnlockStaysOffered` | `GuardIsWhole`, `UnlockIsOfferedAgain` |
| `SessionStaysGuarded` | `SessionIsGuarded` |
| `ActionsKeepTheirLock` | `ActionKeepsItsLock` |

`SessionInv` has the lock (`LockInv`: what belongs to a lock, to its exit or to
an attempt goes with it, and an attempt that is current has its thread), the
action after a lock (`OwedInv`), the reader (`ReaderInv`), on exactly when the
screen wants it, and the guard (`GuardInv`: a sleep that is held up waits for a
lock, and one that is let go finds the session locked or excused).  A lemma for
each private method says what it keeps; the composed steps need only that a
step of the session is one of the lock screen or leaves it alone
(`SessionIsLock`).  Two properties were not inductive as first stated:
`ActionRunsOnce` now counts what a screen still owes (`Owed`), and
`DelayHasAReason` says which lock the inhibitor waits for.
`ActionsKeepTheirLock` says of each private method what it does to the action
that waits (`Carries`): it stays owed, is run, or goes with the lock.

`HttpStream_proofs` proves, for any callers, files, streams, slots and bounds,
assuming that `None` is not one of them:

| theorem | property |
|---|---|
| `HttpInvariant` | the inductive invariant, `Inv` |
| `TransfersAlwaysAgree` | `TransfersAgree` |
| `StoppedIsSilent` | `StopIsSilent` |

Each caller is nowhere, or in one place of the transfers, of the callbacks still
to be made or of the deferred answers (`WaitsOnce`), and the transfer that
writes a file is the one the table has for it (`Writers`).  On the script side a
record stands for a live stream of this host, and a stream that was started has
one until it is stopped or its close callback has run (`HostInv`, `Accounted`),
an event names the host of a stream that was started (`MailInv`), and a stopped
stream that is still open has its cancellation on the way (`QueueInv`).

`NotificationManager_proofs` proves, for any ids, any bound of the history and
any configurations:

| theorem | property |
|---|---|
| `NotificationInvariant` | the inductive invariant, `NoteInv` |
| `ToldExactlyOnce`, `ActionsKeepAnOwner` | `ClosedOnce`, `ActionsHaveAnOwner` |
| `BooksAlwaysAgree` | `BooksAgree` |
| `EntriesTakeTheirClose` | `NoCloseIsLeftBehind` |

`BookInv` relates the books to what is on screen: entries are in the order of
their ids and live ones active, what is owed a close signal was given out and is
not on screen, what is neither was told once, and what is not saved will be.
Each helper that passes a book on keeps it and lets no entry leave with its
signal (`Leaves`), so a handler of several helpers needs no case of its own.
`Loadable` says that a restart or crash finds a file it can start from.

`IdleManager_proofs` proves, for any finite set of behaviours, any
configuration and any bounds:

| theorem | property |
|---|---|
| `IdleInvariant` | the inductive invariant, `IdleInv` |
| `GraceStaysWhole`, `CancelledFadesStayGone` | `GraceIsWhole`, `CancelledFadeIsGone` |
| `PhasesFollowReports`, `ActionsMeanIdle` | `PhaseFollowsReports`, `ActionMeansIdle` |
| `ActionsStayOwed` | `ActionIsOwed` |

They hold with captures and reloads, of which the properties name what they
except.  `IdleInv` says what a
stack of captures may look like (`NestFits`: one for the lock, or priming ones in
a fade), that a behaviour fades in the grace or waits for the capture of the
lock, never both (`FadeFits`), that no show, deferred or behind a capture, is of
a cancelled grace (`ShadeFits`), and what the compositor's reports on the wire
may be (`Stream`).  The compositor's order of reports is what makes
`PhaseFollowsReports` inductive (`Follow`).

Loops of the code over a list are recursive functions or filters in the model
(`Only`, `Without`, `Dismissed`).  What they compute is proved by the least
counterexample, which the library's well-founded induction gives for the naturals
(`Smallest`), as its induction rules themselves cannot be instantiated.

Only model-checked: all liveness (`StopCompletes`, `ReloadTakesEffect`,
`UpdatesKeepFlowing`, `SoundCallbackRuns`, `NewsArrives`, `GraceEnds`,
`ScreenComesBack`, `NothingStarves`, `EveryoneIsAnswered`): neither
fairness nor ENABLED is within the prover's reach.

## Not modelled

`PROJECT.json` lists every component with its status.  Left out altogether are
the mirrors of external services (D-Bus, audio, monitors, compositor back ends),
whose state is another program's; drawing, layout and shell surfaces, which
have no protocol to check; cryptography, git and parsing; and the pool, socket
and process wrappers, which appear only as operations that end on a thread of
their own.  They are most of the program by lines.  Two parts with a protocol of
their own are not modelled yet: the configuration service (own writes against
file events) and the usage tracker (two files that are written in turn).

## Plan

1. An abstract notification service for NotificationManager, and an abstract
   state channel for PluginState, each shown to be implemented as ScriptService
   and TimerService are.
2. `ConfigService`: own writes against file events, reload callbacks.
3. Subscribers of a runtime and the replay of its last result; the end of a
   plugin in PluginState.
4. The usage tracker; the PAM conversation.
