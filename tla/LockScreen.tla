----------------------------- MODULE LockScreen -----------------------------
(***************************************************************************)
(* shell/lockscreen/lock_screen.cpp: the session lock as a client of the    *)
(* compositor's lock protocol, its surfaces (one per output), the exit      *)
(* transition, the authentication attempts in threads of their own, and the *)
(* action (a suspend) that follows a lock.                                  *)
(*                                                                          *)
(* The members of the object are one record, screen: the helpers are the    *)
(* object's private methods, from a screen to the next.                     *)
(***************************************************************************)
EXTENDS Naturals, SequencesExt

CONSTANTS
    Output,         \* the outputs that can be connected
    Attempt,        \* the authentication attempts that can be made
    MaxLocks,       \* bound: lock objects
    MaxAsks,        \* bound: actions asked for
    NoAttempt       \* no attempt is current

ASSUME LockScreenAssumption ==
    /\ MaxLocks \in Nat /\ MaxAsks \in Nat
    /\ NoAttempt \notin Attempt

VARIABLES
    screen,     \* the members of LockScreen
    compositor, \* its side of the lock object, and the events on their way
    outputs,    \* the usable outputs
    enabled,    \* the lock screen is enabled in the configuration
    thread,     \* how far each attempt is: none, running, passed, failed, done
    fresh,      \* history: the attempts made since the session was last locked
    told,       \* what the session hooks last said: the session is locked
    count       \* history and bounds: locks, actions asked for and run

vars == <<screen, compositor, outputs, enabled, thread, fresh, told, count>>
others == <<outputs, enabled, thread, fresh>>

Screen == [
    lock : {"none", "pending", "locked"},   \* m_lock, m_lockPending, m_locked
    starting : BOOLEAN,                     \* m_lockStarting
    deferred : BOOLEAN,                     \* m_lockDeferred
    unlocking : BOOLEAN,                    \* m_unlocking
    finishQueued : BOOLEAN,                 \* m_unlockFinishQueued
    surfaces : SUBSET Output,               \* m_instances
    uncovered : SUBSET Output,              \* history: those that got no surface
    rendered : SUBSET Output,               \* those with a first frame
    leaving : SUBSET Output,                \* those in the exit transition
    afterLocked : BOOLEAN,                  \* m_pendingAfterLocked
    suspendTimer : BOOLEAN,                 \* m_suspendTimeoutTimer
    exitTimer : BOOLEAN,                    \* m_unlockTransitionTimer
    current : Attempt \cup {NoAttempt},     \* the attempt of m_authGeneration
    authenticating : BOOLEAN,               \* m_authenticating
    reader : BOOLEAN,                       \* the fingerprint reader is started
    calls : Seq({"finish", "action"})]      \* deferred calls

Active(s) == s.lock # "none"

-----------------------------------------------------------------------------
(* The private methods. *)

Post(s, call) == [s EXCEPT !.calls = Append(@, call)]

\* dispatchPendingAfterLocked
Dispatch(s) ==
    IF s.afterLocked
    THEN [Post(s, "action") EXCEPT !.afterLocked = FALSE, !.suspendTimer = FALSE]
    ELSE s

\* tryFlushPendingAfterLocked
Flush(s) ==
    IF s.lock = "locked" /\ s.surfaces \subseteq s.rendered THEN Dispatch(s) ELSE s

Invalidate(s) == [s EXCEPT !.current = NoAttempt, !.authenticating = FALSE]

\* tryFinishAnimatedUnlock
TryFinish(s) ==
    IF s.unlocking /\ ~s.finishQueued /\ s.leaving = {}
    THEN [Post(s, "finish") EXCEPT !.finishQueued = TRUE]
    ELSE s

\* What finishUnlock(), handleFinished() and resetLockState() leave alike.
Released(s) ==
    [s EXCEPT !.lock = "none", !.unlocking = FALSE, !.finishQueued = FALSE,
              !.exitTimer = FALSE, !.surfaces = {}, !.uncovered = {}, !.rendered = {},
              !.leaving = {}]

\* resetLockState
Reset(s) ==
    [Released(s) EXCEPT !.afterLocked = FALSE, !.suspendTimer = FALSE,
                        !.deferred = FALSE, !.starting = FALSE]

\* syncInstances: a surface for each output there is, unless createInstance
\* fails.
Syncs(s, there) ==
    {[s EXCEPT !.surfaces = there \ failed, !.uncovered = failed,
               !.rendered = @ \cap there, !.leaving = @ \cap there] :
        failed \in SUBSET (there \ s.surfaces)}

\* startExitTransition of some surfaces: without a picture of the desktop to
\* fade to, the transition is complete at once.
Leave(s, staying) == {[s EXCEPT !.leaving = @ \cup some] : some \in SUBSET staying}

-----------------------------------------------------------------------------
(* The compositor's side: the lock it was asked for, what it did, and the   *)
(* events the shell has not read.                                           *)

Free == [lock |-> "free", events |-> <<>>]

\* unlock_and_destroy, and destroy for a lock that is not known to be locked:
\* taken to be allowed even when the compositor has just locked the session.
GiveBack == compositor' = Free

FinishUnlock(s) ==
    /\ screen' = Released(s)
    /\ GiveBack
    /\ told' = IF s.lock = "locked" THEN FALSE ELSE told

\* Mutant: the action waits on.
AbandonWaiting(s) ==
    [Invalidate(s) EXCEPT !.deferred = FALSE, !.suspendTimer = FALSE, !.reader = FALSE]

\* Mutant: the fingerprint reader is left on.
AbandonReading(s) ==
    [Invalidate(s) EXCEPT !.deferred = FALSE, !.afterLocked = FALSE, !.suspendTimer = FALSE]

\* What unlock() gives up first.
Abandon(s) ==
    [Invalidate(s) EXCEPT !.deferred = FALSE, !.afterLocked = FALSE,
                          !.suspendTimer = FALSE, !.reader = FALSE]

Exits(s) ==
    {TryFinish(t) : t \in Leave([s EXCEPT !.unlocking = TRUE, !.exitTimer = TRUE], s.surfaces)}

\* unlock(), of an active lock.
Unlock(s) ==
    IF s.lock = "pending" THEN FinishUnlock(Abandon(s))
    ELSE /\ screen' \in IF s.unlocking THEN {s} ELSE Exits(Abandon(s))
         /\ UNCHANGED <<compositor, told>>

\* lock(), up to the picture of the desktop, with these outputs.
Lock(s, there) ==
    IF ~enabled \/ Active(s) \/ s.starting THEN s
    ELSE IF there = {} THEN Dispatch([s EXCEPT !.deferred = TRUE])
    ELSE [s EXCEPT !.starting = TRUE]

-----------------------------------------------------------------------------
Init ==
    /\ screen = [lock |-> "none", starting |-> FALSE, deferred |-> FALSE,
                 unlocking |-> FALSE, finishQueued |-> FALSE, surfaces |-> {},
                 uncovered |-> {}, rendered |-> {}, leaving |-> {}, afterLocked |-> FALSE,
                 suspendTimer |-> FALSE, exitTimer |-> FALSE, current |-> NoAttempt,
                 authenticating |-> FALSE, reader |-> FALSE, calls |-> <<>>]
    /\ compositor = Free
    /\ outputs = Output
    /\ enabled = TRUE
    /\ thread = [a \in Attempt |-> "none"]
    /\ fresh = {}
    /\ told = FALSE
    /\ count = [locks |-> 0, asked |-> 0, run |-> 0]

\* lock() by command, idle action or logind.
RequestLock ==
    /\ screen' = Lock(screen, outputs)
    /\ UNCHANGED <<compositor, others, told, count>>

\* runAfterSessionLocked
RunAfterLocked ==
    /\ count.asked < MaxAsks
    /\ count' = [count EXCEPT !.asked = @ + 1]
    /\ LET s == [screen EXCEPT !.afterLocked = TRUE]
       IN screen' = IF Active(s) THEN Flush(s)
                    ELSE IF ~enabled THEN [s EXCEPT !.afterLocked = FALSE]
                    ELSE Lock(s, outputs)
    /\ UNCHANGED <<compositor, others, told>>

\* The rest of lock(), after the events that were handled while the picture
\* of the desktop was taken.
OutputsVanished ==
    /\ screen.starting
    /\ outputs = {}
    /\ screen' = Dispatch([screen EXCEPT !.starting = FALSE, !.deferred = TRUE])
    /\ UNCHANGED <<compositor, others, told, count>>

LockRequested ==
    /\ screen.starting
    /\ outputs # {}
    /\ count.locks < MaxLocks
    /\ count' = [count EXCEPT !.locks = @ + 1]
    /\ screen' \in Syncs([screen EXCEPT !.lock = "pending", !.starting = FALSE], outputs)
    /\ screen'.surfaces # {}
    /\ compositor' = [Free EXCEPT !.lock = "asked"]
    /\ UNCHANGED <<others, told>>

\* No lock object, or no surface for it.
LockFails ==
    /\ screen.starting
    /\ outputs # {}
    /\ screen' = Reset(screen)
    /\ UNCHANGED <<compositor, others, told, count>>

\* The compositor locks the session, refuses to, or takes the lock away.
CompositorLocks ==
    /\ compositor.lock = "asked"
    /\ compositor' = [compositor EXCEPT !.lock = "locked", !.events = Append(@, "locked")]
    /\ UNCHANGED <<screen, others, told, count>>

CompositorFinishes ==
    /\ compositor.lock \in {"asked", "locked"}
    /\ compositor' = [compositor EXCEPT !.lock = "finished", !.events = Append(@, "finished")]
    /\ UNCHANGED <<screen, others, told, count>>

HandleLocked ==
    /\ compositor.events # <<>> /\ Head(compositor.events) = "locked"
    /\ screen.lock = "pending"
    /\ compositor' = [compositor EXCEPT !.events = Tail(@)]
    /\ screen' = Flush([screen EXCEPT !.lock = "locked", !.suspendTimer = TRUE, !.reader = TRUE])
    /\ told' = TRUE
    /\ fresh' = {}
    /\ UNCHANGED <<outputs, enabled, thread, count>>

HandleFinished ==
    /\ compositor.events # <<>> /\ Head(compositor.events) = "finished"
    /\ GiveBack
    /\ screen' = [Released(Invalidate(screen)) EXCEPT
                     !.afterLocked = FALSE, !.reader = FALSE, !.starting = FALSE]
    /\ told' = IF screen.lock = "locked" THEN FALSE ELSE told
    /\ UNCHANGED <<others, count>>

\* A surface shows a frame.
Render(o) ==
    /\ o \in screen.surfaces
    /\ screen' = Flush([screen EXCEPT !.rendered = @ \cup {o}])
    /\ UNCHANGED <<compositor, others, told, count>>

\* The surfaces take too long: the action is not held up any more.
SuspendTimeout ==
    /\ ~screen.starting
    /\ screen.suspendTimer
    /\ screen' = Dispatch([screen EXCEPT !.suspendTimer = FALSE])
    /\ UNCHANGED <<compositor, others, told, count>>

\* Mutant: a lock that is being left is not given new surfaces.
OutputsSeenUnlessLeaving(s, there) ==
    IF s.deferred
    THEN {IF there = {} THEN s ELSE Lock([s EXCEPT !.deferred = FALSE], there)}
    ELSE IF ~Active(s) \/ s.unlocking THEN {s}
    ELSE Syncs(s, there)

\* onOutputChange
OutputsSeen(s, there) ==
    IF s.deferred
    THEN {IF there = {} THEN s ELSE Lock([s EXCEPT !.deferred = FALSE], there)}
    ELSE IF ~Active(s) THEN {s}
    ELSE IF ~s.unlocking THEN Syncs(s, there)
    ELSE {TryFinish(t) : t \in UNION {Leave(u, u.surfaces \ s.surfaces) : u \in Syncs(s, there)}}

OutputChange ==
    /\ \E there \in (SUBSET Output) \ {outputs} :
          /\ outputs' = there
          /\ screen' \in OutputsSeen(screen, there)
    /\ UNCHANGED <<compositor, enabled, thread, fresh, told, count>>

\* onConfigChanged
ConfigChange ==
    /\ ~screen.starting
    /\ enabled' = ~enabled
    /\ IF enabled /\ Active(screen) THEN Unlock(screen)
       ELSE UNCHANGED <<screen, compositor, told>>
    /\ UNCHANGED <<outputs, thread, fresh, count>>

\* logind asks for the session to be unlocked.
UnlockSession ==
    /\ ~screen.starting
    /\ Active(screen)
    /\ Unlock(screen)
    /\ UNCHANGED <<others, count>>

ExitComplete(o) ==
    /\ o \in screen.leaving
    /\ screen' = TryFinish([screen EXCEPT !.leaving = @ \ {o}])
    /\ UNCHANGED <<compositor, others, told, count>>

ExitTimeout ==
    /\ screen.exitTimer
    /\ FinishUnlock([screen EXCEPT !.exitTimer = FALSE])
    /\ UNCHANGED <<others, count>>

\* The deferred calls.
RunAction ==
    /\ ~screen.starting
    /\ screen.calls # <<>> /\ Head(screen.calls) = "action"
    /\ screen' = [screen EXCEPT !.calls = Tail(@)]
    /\ count' = [count EXCEPT !.run = @ + 1]
    /\ UNCHANGED <<compositor, others, told>>

RunFinish ==
    /\ ~screen.starting
    /\ screen.calls # <<>> /\ Head(screen.calls) = "finish"
    /\ LET s == [screen EXCEPT !.calls = Tail(@)]
       IN IF s.unlocking THEN FinishUnlock(s)
          ELSE screen' = s /\ UNCHANGED <<compositor, told>>
    /\ UNCHANGED <<others, count>>

-----------------------------------------------------------------------------
(* Authentication. *)

\* tryAuthenticate
Authenticate(a) ==
    /\ thread[a] = "none"
    /\ screen.lock = "locked" /\ ~screen.unlocking /\ ~screen.authenticating
    /\ screen' = [screen EXCEPT !.current = a, !.authenticating = TRUE, !.reader = FALSE]
    /\ thread' = [thread EXCEPT ![a] = "running"]
    /\ fresh' = fresh \cup {a}
    /\ UNCHANGED <<compositor, outputs, enabled, told, count>>

ThreadEnds(a) ==
    /\ thread[a] = "running"
    /\ \E verdict \in {"passed", "failed"} : thread' = [thread EXCEPT ![a] = verdict]
    /\ UNCHANGED <<screen, compositor, outputs, enabled, fresh, told, count>>

\* Mutant: any result counts while the session is locked.
WantedIfLocked(s, a) == s.lock = "locked"

Wanted(s, a) == a = s.current /\ s.lock = "locked"

\* handleAuthResult, a deferred call.
AuthResult(a) ==
    /\ ~screen.starting
    /\ thread[a] \in {"passed", "failed"}
    /\ thread' = [thread EXCEPT ![a] = "done"]
    /\ LET s == [screen EXCEPT !.authenticating = FALSE]
       IN IF ~Wanted(screen, a) THEN UNCHANGED <<screen, compositor, told>>
          ELSE IF thread[a] = "passed" THEN Unlock(s)
          ELSE screen' = [s EXCEPT !.reader = TRUE] /\ UNCHANGED <<compositor, told>>
    /\ UNCHANGED <<outputs, enabled, fresh, count>>

\* The reader recognises a finger.
FingerprintMatches ==
    /\ screen.reader
    /\ Unlock(screen)
    /\ UNCHANGED <<others, count>>

-----------------------------------------------------------------------------
Next ==
    \/ RequestLock \/ RunAfterLocked
    \/ OutputsVanished \/ LockRequested \/ LockFails
    \/ CompositorLocks \/ CompositorFinishes
    \/ HandleLocked \/ HandleFinished
    \/ \E o \in Output : Render(o) \/ ExitComplete(o)
    \/ SuspendTimeout \/ ExitTimeout
    \/ OutputChange \/ ConfigChange \/ UnlockSession
    \/ RunAction \/ RunFinish
    \/ \E a \in Attempt : Authenticate(a) \/ ThreadEnds(a) \/ AuthResult(a)
    \/ FingerprintMatches

Spec == Init /\ [][Next]_vars

-----------------------------------------------------------------------------
(* Properties. *)

\* The object is whole: what belongs to a lock, to an exit or to an attempt
\* goes with it.
TypeOK ==
    /\ screen \in Screen
    /\ screen.unlocking => screen.lock = "locked"
    /\ screen.finishQueued => screen.unlocking
    /\ screen.unlocking = screen.exitTimer
    /\ screen.starting => ~Active(screen)
    /\ screen.leaving # {} => screen.unlocking
    /\ thread \in [Attempt -> {"none", "running", "passed", "failed", "done"}]

\* A session is unlocked by an attempt that was made since it was locked:
\* never by one whose result comes after the lock it was made for.
StaleResultIsIgnored ==
    [][\A a \in Attempt :
          thread[a] = "passed" /\ thread'[a] = "done" /\ screen'.unlocking /\ ~screen.unlocking
          => a \in fresh]_vars

\* A prompt that shows that it authenticates has an attempt under way.
PromptIsAnswered ==
    screen.authenticating =>
        /\ screen.lock = "locked" /\ ~screen.unlocking
        /\ screen.current \in Attempt
        /\ thread[screen.current] \in {"running", "passed", "failed"}

\* The rest of the shell (idle manager, logind, hooks) is told that the
\* session is locked exactly while it is.
HooksTellTheTruth == told = (screen.lock = "locked")

\* No output without a lock surface, whenever outputs come and go, but one
\* whose surface could not be created when outputs last changed.
EveryOutputIsCovered == Active(screen) => screen.surfaces = outputs \ screen.uncovered

\* The fingerprint reader is on only while a finger may unlock the session.
ReaderServesTheLock ==
    screen.reader => screen.lock = "locked" /\ ~screen.unlocking /\ ~screen.authenticating

\* What a screen owes whoever asked for an action: the one that waits for the
\* lock, and those that are about to run.
Owed(s) ==
    Cardinality({i \in DOMAIN s.calls : s.calls[i] = "action"})
        + (IF s.afterLocked THEN 1 ELSE 0)

\* The action that follows a lock is run once at most each time it is asked.
ActionRunsOnce == count.run + Owed(screen) <= count.asked

\* The lock, its surfaces, its hooks and the action that follows it agree.
LockIsWhole == TypeOK /\ HooksTellTheTruth /\ EveryOutputIsCovered /\ ActionRunsOnce

\* The prompt and the reader serve the lock and an attempt that exists.
UnlockIsOffered == PromptIsAnswered /\ ReaderServesTheLock

\* An action that has been asked for waits for a lock that is on its way or
\* there, and is given up only with that lock: never left behind to follow some
\* later one.  The exception is one asked for while the last lock is left, with
\* a surface that has yet to render (finishUnlock does not give it up).
Stranded(s) == s.afterLocked /\ ~Active(s) /\ ~s.starting

ActionKeepsItsLock ==
    [][/\ Stranded(screen') => Stranded(screen) \/ screen.unlocking
       /\ Owed(screen') + count'.run < Owed(screen) + count.run
             => ~Active(screen') \/ screen'.unlocking]_vars
=============================================================================
