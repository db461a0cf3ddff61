---------------------------- MODULE SessionGuard ----------------------------
(***************************************************************************)
(* The lock screen with what surrounds it in the application: the reader    *)
(* it starts and stops, and logind, which announces a sleep and waits for   *)
(* the shell to lock the session and give back its delay inhibitor          *)
(* (app/application_services.cpp, app/application_ui.cpp,                   *)
(* dbus/logind/logind_service.cpp, session_action_runner.cpp).              *)
(***************************************************************************)
EXTENDS LockScreen, FingerprintReader

CONSTANT
    MaxSleeps       \* bound: sleeps that are announced

ASSUME SleepAssumption == MaxSleeps \in Nat

VARIABLES
    guard,      \* what the shell keeps for the next sleep
    logind,     \* a sleep it delays, and the signals on their way
    past        \* history and bounds, see TypeOK of this module

sleepVars == <<guard, logind, past>>
sessionVars == <<vars, readerVars, sleepVars>>

GuardTypeOK ==
    /\ guard \in [
        held : BOOLEAN,         \* m_sleepDelayInhibitFd
        release : BOOLEAN,      \* m_releaseSleepDelayWhenLocked
        skip : BOOLEAN,         \* m_skipLockOnNextSleep
        wanted : BOOLEAN,       \* lock_before_suspend is on in the configuration
        locking : BOOLEAN]      \* the handler of PrepareForSleep is in lock()
    /\ logind \in [delays : BOOLEAN, signals : Seq(BOOLEAN)]
    /\ past \in [
        sleeps : 0..MaxSleeps,
        excused : BOOLEAN,      \* something entitles the sleep to an open session
        abandoned : BOOLEAN]    \* a lock was given up before it was granted

SessionInit ==
    /\ Init
    /\ ReaderInit
    /\ guard = [held |-> TRUE, release |-> FALSE, skip |-> FALSE, wanted |-> TRUE,
                locking |-> FALSE]
    /\ logind = [delays |-> FALSE, signals |-> <<>>]
    /\ past = [sleeps |-> 0, excused |-> FALSE, abandoned |-> FALSE]

-----------------------------------------------------------------------------
(* The lock screen's steps, and what they cause. *)

\* The reader follows what the lock screen says.
ReaderFollows ==
    IF screen'.reader = screen.reader THEN UNCHANGED readerVars ELSE Switch(screen'.reader)

Release(g) == [g EXCEPT !.held = FALSE, !.release = FALSE]

\* releaseSleepDelayInhibitIfPending
ReleaseIfPending(g) == IF g.release THEN Release(g) ELSE g

\* The sleep that is announced may find the session open.
Excuse(h) == [h EXCEPT !.excused = (@ \/ logind.delays)]

Unhooked ==
    /\ \/ CompositorLocks \/ CompositorFinishes
       \/ \E o \in Output : Render(o) \/ ExitComplete(o)
       \/ SuspendTimeout
       \/ \E a \in Attempt : Authenticate(a) \/ ThreadEnds(a)
    /\ UNCHANGED <<guard, past>>

\* What may unlock.  Whoever does it while the machine goes to sleep has it
\* so; a lock that is still pending is abandoned without a hook.
MayUnlock(Step) ==
    /\ Step
    /\ IF told /\ ~told'
       THEN guard' = ReleaseIfPending(guard) /\ past' = Excuse(past)
       ELSE UNCHANGED guard
            /\ past' = [past EXCEPT !.abandoned = (@ \/ (screen.lock = "pending" /\ ~Active(screen')))]

\* What may lock.  lock() runs the hook of a lock that is aborted when it is
\* disabled; logind's request does not come to it then.
MayLock ==
    /\ RequestLock \/ RunAfterLocked \/ OutputChange
    /\ guard' \in IF enabled THEN {guard} ELSE {guard, ReleaseIfPending(guard)}
    /\ UNCHANGED past

Requested ==
    /\ LockRequested
    /\ guard' = [guard EXCEPT !.locking = FALSE]
    /\ UNCHANGED past

\* Mutant: the sleep is not let go when the session is locked.
LockedButKept == HandleLocked /\ UNCHANGED <<guard, past>>

Locked ==
    /\ HandleLocked
    /\ guard' = ReleaseIfPending(guard)
    /\ UNCHANGED past

Lost ==
    /\ HandleFinished
    /\ guard' = ReleaseIfPending(guard)
    /\ past' = Excuse(past)

\* The lock fails, or is put off until there are outputs: the handler of
\* PrepareForSleep does not hold the sleep for it.
NotLocked ==
    /\ \/ LockFails /\ guard' = [ReleaseIfPending(guard) EXCEPT !.locking = FALSE]
       \/ /\ OutputsVanished
          /\ guard' = IF guard.locking THEN [Release(guard) EXCEPT !.locking = FALSE] ELSE guard
    /\ past' = Excuse(past)

\* shouldLockBeforeSuspend
ShouldLock == enabled /\ guard.wanted

\* The configuration's reload callback, whatever has changed; logind may
\* refuse an inhibitor.  lock_before_suspend matters while the lock screen is
\* enabled.
Reconfigured ==
    /\ ConfigChange \/ (~screen.starting /\ UNCHANGED vars)
    /\ \E wanted \in IF enabled' THEN BOOLEAN ELSE {TRUE} :
       \E held \in IF enabled' /\ wanted THEN {guard.held, TRUE} ELSE {FALSE} :
          guard' = [guard EXCEPT !.wanted = wanted, !.held = held]
    /\ past' = [past EXCEPT !.excused = (@ \/ (~ShouldLock' /\ logind.delays)),
                            !.abandoned = (@ \/ (~enabled' /\ screen.lock = "pending"))]

\* The action that follows a lock, and the session menu: a suspend, which may
\* not start, and if it starts may be refused by logind all the same.
Suspend ==
    /\ \E started \in BOOLEAN : guard' = [guard EXCEPT !.skip = started]
    /\ UNCHANGED past

SuspendAfterLock == RunAction /\ Suspend

SuspendByMenu ==
    /\ ~screen.starting
    /\ count.asked < MaxAsks
    /\ count' = [count EXCEPT !.asked = @ + 1]
    /\ Suspend
    /\ UNCHANGED <<screen, compositor, others, told, readerVars, logind>>

LockStep ==
    /\ \/ Unhooked \/ MayLock \/ Requested
       \/ Locked \/ Lost \/ NotLocked
       \/ MayUnlock(UnlockSession) \/ MayUnlock(RunFinish) \/ MayUnlock(ExitTimeout)
       \/ MayUnlock(FingerMatches /\ FingerprintMatches)
       \/ \E a \in Attempt : MayUnlock(AuthResult(a))
       \/ Reconfigured
       \/ SuspendAfterLock
    /\ ReaderFollows
    /\ UNCHANGED logind

-----------------------------------------------------------------------------
(* logind. *)

\* Somebody (the lid, another program, the shell) has the machine sleep.
\* logind waits only for an inhibitor that it has granted before.
AnnounceSleep ==
    /\ past.sleeps < MaxSleeps
    /\ ~logind.delays
    /\ logind' = [delays |-> TRUE, signals |-> Append(logind.signals, TRUE)]
    /\ past' = [past EXCEPT !.sleeps = @ + 1, !.excused = ~guard.held]
    /\ UNCHANGED <<vars, readerVars, guard>>

\* It sleeps, and wakes: as the inhibitor is back, or after the longest delay.
\* Nothing of the shell runs in between.
Sleep ==
    /\ logind.delays
    /\ logind' = [delays |-> FALSE, signals |-> Append(logind.signals, FALSE)]
    /\ UNCHANGED <<vars, readerVars, guard, past>>

\* Mutant: a lock that has been requested will do.
EngagedActive(s) == Active(s) \/ s.unlocking

Engaged(s) == s.lock = "locked"

\* PrepareForSleep(true): what the shell does about the lock.
LockBeforeSleep ==
    \/ /\ guard.skip \/ ~ShouldLock
       /\ guard' = [Release(guard) EXCEPT !.skip = FALSE]
       /\ past' = Excuse(past)
       /\ UNCHANGED screen
    \/ /\ ~guard.skip /\ ShouldLock /\ Engaged(screen)
       /\ guard' = Release(guard)
       /\ UNCHANGED <<screen, past>>
    \/ /\ ~guard.skip /\ ShouldLock /\ ~Engaged(screen)
       /\ screen' = Lock(screen, outputs)
       /\ IF Active(screen) \/ screen'.starting
          THEN /\ guard' = [guard EXCEPT !.release = TRUE, !.locking = screen'.starting]
               /\ UNCHANGED past
          ELSE guard' = Release(guard) /\ past' = Excuse(past)

PrepareForSleep ==
    /\ ~screen.starting
    /\ logind.signals # <<>> /\ Head(logind.signals)
    /\ logind' = [logind EXCEPT !.signals = Tail(@)]
    /\ LockBeforeSleep
    /\ FallAsleep
    /\ UNCHANGED <<compositor, others, told, count>>

Resume ==
    /\ ~screen.starting
    /\ logind.signals # <<>> /\ ~Head(logind.signals)
    /\ logind' = [logind EXCEPT !.signals = Tail(@)]
    /\ \E granted \in BOOLEAN :
          guard' = [guard EXCEPT !.skip = FALSE, !.release = FALSE,
                                 !.held = (@ \/ (ShouldLock /\ granted))]
    /\ past' = [past EXCEPT !.abandoned = FALSE]
    /\ WakeUp
    /\ UNCHANGED vars

ReaderWorks ==
    /\ ~screen.starting
    /\ ReaderStep
    /\ UNCHANGED <<vars, sleepVars>>

SessionNext ==
    \/ LockStep
    \/ SuspendByMenu
    \/ AnnounceSleep \/ Sleep
    \/ PrepareForSleep \/ Resume
    \/ ReaderWorks

SessionSpec == SessionInit /\ [][SessionNext]_sessionVars

-----------------------------------------------------------------------------
(* Properties. *)

\* When the shell has been asked in time, the machine sleeps with the session
\* locked: unless the shell itself asked for a suspend, the lock was refused,
\* impossible or disabled, or the user unlocked meanwhile
\* (docs/user/getting-started/faq.mdx:339).
SleepsLocked ==
    [][logind.delays /\ ~logind'.delays /\ ~guard.held =>
          screen.lock = "locked" \/ past.excused]_sessionVars

\* A session is opened by an attempt of its own, and not open in a sleep.
SessionIsGuarded == StaleResultIsIgnored /\ SleepsLocked

\* A sleep is held up only for a lock that is on its way; or was, and was
\* given up by unlock() before the compositor had granted it.
DelayHasAReason ==
    guard.held /\ guard.release =>
        (guard.locking /\ screen.starting) \/ screen.lock = "pending" \/ past.abandoned

\* What surrounds the lock is in step with it.
GuardIsWhole ==
    /\ LockIsWhole
    /\ GuardTypeOK /\ ReaderTypeOK
    /\ auth.active = screen.reader
    /\ DelayHasAReason

\* The prompt and the reader offer to unlock, and do so again after a failure.
UnlockIsOfferedAgain == UnlockIsOffered /\ ReaderIsNotForgotten
=============================================================================
