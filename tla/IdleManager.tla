---------------------------- MODULE IdleManager ----------------------------
(***************************************************************************)
(* Idle behaviours: IdleManager (src/src/idle/idle_manager.cpp), the fade  *)
(* overlay (idle_grace_overlay.cpp), their wiring (app/application_ui.cpp) *)
(* and what they use of the lock screen.  The compositor reports idle and  *)
(* resumed per notification object, in one stream of Wayland events.       *)
(*                                                                         *)
(* All of it runs on the main thread, but a desktop capture dispatches     *)
(* Wayland events while it waits ("nest"): it is where handlers interleave. *)
(* Timeouts are abstract: an absent user may be reported idle at any time. *)
(***************************************************************************)
EXTENDS Integers, Sequences, FiniteSets, SequencesExt

CONSTANTS
    Behavior,         \* the enabled behaviours of the configuration
    Lockers,          \* those whose idle action locks the session
    Blankers,         \* those whose idle action turns the screen off
    LockedOnly,       \* those that have a timeout only while locked
    LockEnabled,      \* isLockScreenEnabled
    Captures,         \* shouldCaptureDesktop
    MaxAbsences,      \* bound: how often the user goes away
    MaxReloads,       \* bound: reloads of the configuration
    MaxInhibits,      \* bound: screensaver inhibitions
    MaxSessions,      \* bound: locks and unlocks the user asks for
    MaxIncidents,     \* bound: all of these together
    MaxNest           \* bound: captures in progress, one within another

ASSUME IdleAssumption ==
    /\ IsFiniteSet(Behavior)
    /\ Lockers \subseteq Behavior /\ Blankers \subseteq Behavior \ Lockers
    /\ LockedOnly \subseteq Behavior
    /\ LockEnabled \in BOOLEAN /\ Captures \in BOOLEAN
    /\ {MaxAbsences, MaxReloads, MaxInhibits, MaxSessions, MaxIncidents, MaxNest}
          \subseteq Nat

VARIABLES
    \* IdleManager
    phase, grace, graceWillLock, graceGeneration, fallback, inhibited,
    idledWhileInhibited, fade,
    \* the overlay, the calls posted to the main loop, captures in progress
    overlay, overlayGeneration, deferred, nest, primed,
    \* the lock screen and the screen's power
    lock, screen,
    \* the user, the compositor's notifications, the events on their way
    away, server, wire,
    \* history: the last event dispatched for the notification of a behaviour
    \* ("missed": a resume that found it waiting behind a capture), what is owed
    \* for its action, and the fades users cancelled
    told, account, cancelled,
    bounds

manager == <<phase, grace, graceWillLock, graceGeneration, fallback>>
shade == <<overlay, overlayGeneration>>
inhibition == <<inhibited, idledWhileInhibited>>
compositor == <<server, wire, told>>
vars == <<manager, inhibition, fade, shade, deferred, nest, primed, lock, screen,
          away, compositor, account, cancelled, bounds>>

Hidden == [state |-> "hidden", grace |-> 0]
Spent == [absences |-> 0, reloads |-> 0, inhibits |-> 0, sessions |-> 0]

\* effectiveTimeoutSeconds and recreateBehaviorNotification: is there a
\* notification to create while the session is in state l?
Notification(b, l) == IF b \in LockedOnly /\ l # "locked" THEN "none" ELSE "active"

Init ==
    /\ phase = [b \in Behavior |-> "Waiting"]
    /\ grace = <<>> /\ graceWillLock = FALSE /\ graceGeneration = 0 /\ fallback = 0
    /\ inhibited = FALSE /\ idledWhileInhibited = FALSE /\ fade \in BOOLEAN
    /\ overlay = Hidden /\ overlayGeneration = 0 /\ deferred = <<>>
    /\ nest = <<>> /\ primed = FALSE
    /\ lock = "unlocked" /\ screen = "on"
    /\ away = FALSE /\ wire = <<>>
    /\ server = [b \in Behavior |-> Notification(b, "unlocked")]
    /\ told = [b \in Behavior |-> "active"]
    /\ account = [b \in Behavior |-> "settled"] /\ cancelled = {}
    /\ bounds = Spent

\* The user and the configuration may do something more.
Spare ==
    bounds.absences + bounds.reloads + bounds.inhibits + bounds.sessions < MaxIncidents

\* The main loop is not inside a capture.
MainLoop == nest = <<>>

----------------------------------------------------------------------------
(* The user and the compositor.                                            *)

Leave ==
    /\ ~away /\ Spare /\ bounds.absences < MaxAbsences
    /\ away' = TRUE
    /\ bounds' = [bounds EXCEPT !.absences = @ + 1]
    /\ UNCHANGED <<manager, inhibition, fade, shade, deferred, nest, primed, lock,
                   screen, compositor, account, cancelled>>

ReportIdle(b) ==
    /\ away /\ server[b] = "active"
    /\ server' = [server EXCEPT ![b] = "idle"]
    /\ wire' = Append(wire, [of |-> b, is |-> "idle"])
    /\ UNCHANGED <<manager, inhibition, fade, shade, deferred, nest, primed, lock,
                   screen, away, told, account, cancelled, bounds>>

\* Activity: every idle notification is resumed, in some order.
Return ==
    /\ away
    /\ away' = FALSE
    /\ \E order \in SetToSeqs({b \in Behavior : server[b] = "idle"}) :
          wire' = wire \o [i \in DOMAIN order |-> [of |-> order[i], is |-> "active"]]
    /\ server' = [b \in Behavior |-> IF server[b] = "idle" THEN "active" ELSE server[b]]
    /\ UNCHANGED <<manager, inhibition, fade, shade, deferred, nest, primed, lock,
                   screen, told, account, cancelled, bounds>>

----------------------------------------------------------------------------
(* Steps that several handlers take.                                       *)

\* invalidateDesktopCaptures, for the captures that are in progress.
Invalidated(frames) == [i \in DOMAIN frames |-> [frames[i] EXCEPT !.valid = FALSE]]

\* The grace-end callback: the overlay stays only for a lock that is to come.
Handoff(user, willLock) == ~user /\ willLock /\ LockEnabled

Invalidate == primed' = FALSE /\ nest' = Invalidated(nest)

\* cancelActiveGrace, without the phases; "hide" is the caller's own.
CancelGrace(user, hide) ==
    IF grace = <<>>
    THEN /\ UNCHANGED <<grace, graceWillLock, graceGeneration, fallback,
                        overlayGeneration, primed, nest, cancelled>>
         /\ overlay' = IF hide THEN Hidden ELSE overlay
    ELSE /\ grace' = <<>> /\ graceWillLock' = FALSE /\ fallback' = 0
         /\ graceGeneration' = graceGeneration + 1
         /\ overlayGeneration' = overlayGeneration + 1
         /\ cancelled' = IF user THEN cancelled \union {graceGeneration} ELSE cancelled
         /\ IF Handoff(user, graceWillLock)
            THEN /\ UNCHANGED <<primed, nest>>
                 /\ overlay' = IF hide THEN Hidden ELSE overlay
            ELSE Invalidate /\ overlay' = Hidden

\* The elements of s that are in keep, in their order.
Only(s, keep) ==
    LET kept[n \in 0..Len(s)] ==
            IF n = 0 THEN <<>>
            ELSE IF s[n] \in keep THEN Append(kept[n - 1], s[n])
            ELSE kept[n - 1]
    IN kept[Len(s)]

\* Destroys and creates the notifications of B: their events are gone.
Renew(B, l) ==
    /\ server' = [b \in Behavior |-> IF b \in B THEN Notification(b, l) ELSE server[b]]
    /\ wire' = Only(wire, {e \in ToSet(wire) : e.of \notin B})
    /\ told' = [b \in Behavior |-> IF b \in B THEN "active" ELSE told[b]]

\* runResumeBehavior for the behaviours of B that are idled.
Undo(B) ==
    LET back == {b \in B : phase[b] = "Idled"} IN
    /\ screen' = IF back \intersect Blankers # {} THEN "on" ELSE screen
    /\ account' = [b \in Behavior |-> IF b \in back THEN "settled" ELSE account[b]]

\* Mutant: a re-armed behaviour is not resumed.
RearmSilently(l, hide) ==
    /\ CancelGrace(FALSE, hide)
    /\ UNCHANGED <<screen, account>>
    /\ Renew(Behavior, l)
    /\ phase' = [b \in Behavior |-> "Waiting"]

\* recreateBehaviorNotifications, the session being in state l.
RearmAll(l, hide) ==
    /\ CancelGrace(FALSE, hide)
    /\ Undo(Behavior)
    /\ Renew(Behavior, l)
    /\ phase' = [b \in Behavior |-> "Waiting"]

\* LockScreen::lock is about to ask the compositor; unless captures are primed
\* it takes them first.
Locks(todo) ==
    LockEnabled /\ lock = "unlocked" /\ \E i \in DOMAIN todo : todo[i] \in Lockers

FirstLocker(todo) ==
    CHOOSE i \in DOMAIN todo :
       todo[i] \in Lockers /\ \A j \in 1..(i - 1) : todo[j] \notin Lockers

LockFrame(rest) ==
    [kind |-> "lock", rest |-> rest, valid |-> FALSE, show |-> 0, grace |-> 0]

\* The behaviours of todo become idled and run their actions, up to the first
\* that starts a capture; the rest waits for it.
RunActions(todo, ready, frames) ==
    LET capture == Locks(todo) /\ Captures /\ ~ready
        now == IF capture THEN SubSeq(todo, 1, FirstLocker(todo)) ELSE todo
        rest == SubSeq(todo, Len(now) + 1, Len(todo))
        run == ToSet(now)
    IN /\ phase' = [b \in Behavior |-> IF b \in run THEN "Idled" ELSE phase[b]]
       /\ account' = [b \in Behavior |-> IF b \in run THEN "owed" ELSE account[b]]
       /\ screen' = IF run \intersect Blankers # {} THEN "off" ELSE screen
       /\ lock' = IF capture THEN "starting" ELSE IF Locks(todo) THEN "pending" ELSE lock
       /\ primed' = (ready /\ ~Locks(todo))
       /\ nest' = LET old == IF Locks(todo) /\ ~ready THEN Invalidated(frames) ELSE frames
                  IN IF capture THEN Append(old, LockFrame(rest)) ELSE old

\* graceFadeComplete.
CompleteGrace ==
    LET todo == Only(grace, {b \in Behavior : phase[b] = "Fading"})
        keep == Handoff(FALSE, \E i \in DOMAIN todo : todo[i] \in Lockers)
    IN /\ grace' = <<>> /\ graceWillLock' = FALSE /\ fallback' = 0
       /\ overlayGeneration' = overlayGeneration + 1
       /\ overlay' = IF keep THEN overlay ELSE Hidden
       /\ RunActions(todo, primed /\ keep, nest)
       /\ UNCHANGED <<graceGeneration, server, wire, told, cancelled>>

----------------------------------------------------------------------------
(* handleIdled and handleResumed, from the main loop or inside a capture.  *)

Event(b, is) == wire # <<>> /\ Head(wire) = [of |-> b, is |-> is]
Dispatched(b, heard) == wire' = Tail(wire) /\ told' = [told EXCEPT ![b] = heard]

IgnoreEvent(b) ==
    /\ \/ Event(b, "idle") /\ phase[b] # "Waiting" /\ Dispatched(b, "idle")
       \/ Event(b, "active") /\ phase[b] = "Waiting" /\ Dispatched(b, "active")
    /\ UNCHANGED <<manager, inhibition, fade, shade, deferred, nest, primed, lock,
                   screen, away, server, account, cancelled, bounds>>

\* Mutant: a suppressed report is not asked for again.
SuppressIdledForGood(b) ==
    /\ Event(b, "idle") /\ phase[b] = "Waiting" /\ inhibited
    /\ idledWhileInhibited' = TRUE
    /\ Dispatched(b, "idle")
    /\ UNCHANGED <<manager, inhibited, fade, shade, deferred, nest, primed, lock,
                   screen, away, server, account, cancelled, bounds>>

\* An idle report under an inhibition: the notification is created anew.
SuppressIdled(b) ==
    /\ Event(b, "idle") /\ phase[b] = "Waiting" /\ inhibited
    /\ idledWhileInhibited' = TRUE
    /\ Renew({b}, lock)
    /\ UNCHANGED <<manager, inhibited, fade, shade, deferred, nest, primed, lock,
                   screen, away, account, cancelled, bounds>>

JoinGrace(b) ==
    /\ Event(b, "idle") /\ phase[b] = "Waiting" /\ ~inhibited /\ fade
    /\ grace # <<>>
    /\ Dispatched(b, "idle")
    /\ phase' = [phase EXCEPT ![b] = "Fading"]
    /\ grace' = Append(grace, b)
    /\ graceWillLock' = (graceWillLock \/ b \in Lockers)
    /\ UNCHANGED <<graceGeneration, fallback, inhibition, fade, shade, deferred, nest,
                   primed, lock, screen, away, server, account, cancelled, bounds>>

ShowCall(og, gg) == [kind |-> "show", overlay |-> og, grace |-> gg]
DoneCall(gg) == [kind |-> "done", overlay |-> 0, grace |-> gg]

\* Mutant: a grace relies on the overlay to report the end of the fade.
BeginGraceUntimed(b) ==
    /\ Event(b, "idle") /\ phase[b] = "Waiting" /\ ~inhibited /\ fade
    /\ grace = <<>> /\ ~Captures
    /\ Dispatched(b, "idle")
    /\ phase' = [phase EXCEPT ![b] = "Fading"]
    /\ grace' = <<b>> /\ graceWillLock' = (b \in Lockers)
    /\ graceGeneration' = graceGeneration + 1 /\ UNCHANGED fallback
    /\ overlayGeneration' = overlayGeneration + 1
    /\ deferred' = Append(deferred, ShowCall(overlayGeneration', graceGeneration'))
    /\ UNCHANGED <<nest, primed, inhibition, fade, overlay, lock, screen, away, server,
                   account, cancelled, bounds>>

\* A new grace: the lock screen primes its captures, then the overlay's show is
\* posted.
BeginGrace(b) ==
    /\ Event(b, "idle") /\ phase[b] = "Waiting" /\ ~inhibited /\ fade
    /\ grace = <<>>
    /\ Dispatched(b, "idle")
    /\ phase' = [phase EXCEPT ![b] = "Fading"]
    /\ grace' = <<b>> /\ graceWillLock' = (b \in Lockers)
    /\ graceGeneration' = graceGeneration + 1 /\ fallback' = graceGeneration + 1
    /\ overlayGeneration' = overlayGeneration + 1
    /\ IF LockEnabled /\ lock = "unlocked" /\ Captures
       THEN /\ Len(nest) < MaxNest
            /\ nest' = Append(Invalidated(nest),
                              [kind |-> "prime", rest |-> <<>>, valid |-> TRUE,
                               show |-> overlayGeneration', grace |-> graceGeneration'])
            /\ primed' = FALSE /\ UNCHANGED deferred
       ELSE /\ deferred' = Append(deferred, ShowCall(overlayGeneration', graceGeneration'))
            /\ UNCHANGED <<nest, primed>>
    /\ UNCHANGED <<inhibition, fade, overlay, lock, screen, away, server, account,
                   cancelled, bounds>>

\* Without a fade the action runs at once.
RunAtOnce(b) ==
    /\ Event(b, "idle") /\ phase[b] = "Waiting" /\ ~inhibited /\ ~fade
    /\ Len(nest) < MaxNest
    /\ Dispatched(b, "idle")
    /\ RunActions(<<b>>, primed, nest)
    /\ UNCHANGED <<grace, graceWillLock, graceGeneration, fallback, inhibition, fade,
                   shade, deferred, away, server, cancelled, bounds>>

\* Mutant: the resumed behaviour leaves the grace alone.
ResumeFadingAlone(b) ==
    /\ Event(b, "active") /\ phase[b] = "Fading"
    /\ Dispatched(b, "active")
    /\ phase' = [phase EXCEPT ![b] = "Waiting"]
    /\ UNCHANGED <<grace, graceWillLock, graceGeneration, fallback, shade, primed, nest,
                   cancelled, inhibition, fade, deferred, lock, screen, away, server,
                   account, bounds>>

\* Mutant: activity in the fade window cancels nothing.
ResumeFadingUnheard(b) ==
    /\ Event(b, "active") /\ phase[b] = "Fading"
    /\ Dispatched(b, "active")
    /\ UNCHANGED <<manager, inhibition, fade, shade, deferred, nest, primed, lock,
                   screen, away, server, account, cancelled, bounds>>

\* The user is back during the fade: the whole grace is cancelled.  A behaviour
\* that waits behind a capture has left the grace, and its resume is missed.
ResumeFading(b) ==
    /\ Event(b, "active") /\ phase[b] = "Fading"
    /\ Dispatched(b, IF b \in ToSet(grace) THEN "active" ELSE "missed")
    /\ CancelGrace(TRUE, FALSE)
    /\ phase' = [c \in Behavior |-> IF c \in ToSet(grace) THEN "Waiting" ELSE phase[c]]
    /\ UNCHANGED <<inhibition, fade, deferred, lock, screen, away, server, account,
                   bounds>>

\* Mutant: the resume action is not run.
ResumeIdledOnly(b) ==
    /\ Event(b, "active") /\ phase[b] = "Idled"
    /\ Dispatched(b, "active")
    /\ phase' = [phase EXCEPT ![b] = "Waiting"]
    /\ UNCHANGED <<grace, graceWillLock, graceGeneration, fallback, inhibition, fade,
                   shade, deferred, nest, primed, lock, screen, away, server, account,
                   cancelled, bounds>>

\* The user is back after the action ran: the behaviour's resume action runs.
ResumeIdled(b) ==
    /\ Event(b, "active") /\ phase[b] = "Idled"
    /\ Dispatched(b, "active")
    /\ Undo({b})
    /\ phase' = [phase EXCEPT ![b] = "Waiting"]
    /\ UNCHANGED <<grace, graceWillLock, graceGeneration, fallback, inhibition, fade,
                   shade, deferred, nest, primed, lock, away, server, cancelled, bounds>>

Dispatch(b) ==
    \/ IgnoreEvent(b) \/ SuppressIdled(b) \/ JoinGrace(b) \/ BeginGrace(b)
    \/ RunAtOnce(b) \/ ResumeFading(b) \/ ResumeIdled(b)

----------------------------------------------------------------------------
(* Captures end, latest at their deadline; the innermost first.            *)

PrimeEnds ==
    /\ nest # <<>> /\ Last(nest).kind = "prime"
    /\ nest' = Front(nest)
    /\ primed' = (primed \/ Last(nest).valid)
    /\ deferred' = Append(deferred, ShowCall(Last(nest).show, Last(nest).grace))
    /\ UNCHANGED <<manager, inhibition, fade, shade, lock, screen, away, compositor,
                   account, cancelled, bounds>>

\* The lock is requested, or deferred when the outputs have gone meanwhile (it is
\* a RequestLock then once there is one; a lock that cannot be created is refused
\* at once), and the actions behind it run.
LockCaptureEnds ==
    /\ nest # <<>> /\ Last(nest).kind = "lock"
    /\ nest' = Front(nest)
    /\ lock' \in {"pending", "unlocked"}
    /\ LET run == {b \in ToSet(Last(nest).rest) : phase[b] = "Fading"} IN
       /\ phase' = [b \in Behavior |-> IF b \in run THEN "Idled" ELSE phase[b]]
       /\ account' = [b \in Behavior |-> IF b \in run THEN "owed" ELSE account[b]]
       /\ screen' = IF run \intersect Blankers # {} THEN "off" ELSE screen
    /\ UNCHANGED <<grace, graceWillLock, graceGeneration, fallback, inhibition, fade,
                   shade, deferred, primed, away, compositor, cancelled, bounds>>

----------------------------------------------------------------------------
(* The main loop: deferred calls, the fallback timer, the overlay.         *)

\* Mutant: the overlay is shown for whichever grace asked for it.
CallShowAny ==
    /\ MainLoop /\ deferred # <<>> /\ Head(deferred).kind = "show"
    /\ deferred' = Tail(deferred)
    /\ overlay' = [state |-> "fading", grace |-> Head(deferred).grace]
    /\ UNCHANGED <<manager, inhibition, fade, overlayGeneration, nest, primed, lock,
                   screen, away, compositor, account, cancelled, bounds>>

\* The overlay's show; without outputs the fade is complete at once.
CallShow ==
    /\ MainLoop /\ deferred # <<>> /\ Head(deferred).kind = "show"
    /\ LET call == Head(deferred) IN
       \/ /\ call.overlay # overlayGeneration
          /\ deferred' = Tail(deferred) /\ UNCHANGED overlay
       \/ /\ call.overlay = overlayGeneration
          /\ deferred' = Tail(deferred)
          /\ overlay' = [state |-> "fading", grace |-> call.grace]
       \/ /\ call.overlay = overlayGeneration
          /\ deferred' = Append(Tail(deferred), DoneCall(call.grace))
          /\ UNCHANGED overlay
    /\ UNCHANGED <<manager, inhibition, fade, overlayGeneration, nest, primed, lock,
                   screen, away, compositor, account, cancelled, bounds>>

CallDone ==
    /\ MainLoop /\ deferred # <<>> /\ Head(deferred).kind = "done"
    /\ deferred' = Tail(deferred)
    /\ IF Head(deferred).grace = graceGeneration /\ grace # <<>>
       THEN CompleteGrace
       ELSE UNCHANGED <<manager, shade, nest, primed, lock, screen, compositor, account,
                        cancelled>>
    /\ UNCHANGED <<inhibition, fade, away, bounds>>

FallbackFires ==
    /\ MainLoop /\ fallback # 0 /\ fallback = graceGeneration /\ grace # <<>>
    /\ CompleteGrace
    /\ UNCHANGED <<inhibition, fade, deferred, away, bounds>>

FadeEnds ==
    /\ MainLoop /\ overlay.state = "fading"
    /\ overlay' = [overlay EXCEPT !.state = "opaque"]
    /\ deferred' = Append(deferred, DoneCall(overlay.grace))
    /\ UNCHANGED <<manager, inhibition, fade, overlayGeneration, nest, primed, lock,
                   screen, away, compositor, account, cancelled, bounds>>

\* The outputs change, inside a capture too: the desktop's captures are void unless
\* a lock is up, and surfaces that do not match go, with the end of their fade.
OutputsChange ==
    /\ overlay' \in {overlay, Hidden}
    /\ IF lock \in {"unlocked", "starting"} THEN Invalidate ELSE UNCHANGED <<primed, nest>>
    /\ UNCHANGED <<manager, inhibition, fade, overlayGeneration, deferred, lock, screen,
                   away, compositor, account, cancelled, bounds>>

----------------------------------------------------------------------------
(* Reload of the configuration, inhibitions, the session.                  *)

\* The new behaviours start anew; what is owed for the old ones is forgotten.
Reload ==
    /\ MainLoop /\ Spare /\ bounds.reloads < MaxReloads
    /\ bounds' = [bounds EXCEPT !.reloads = @ + 1]
    /\ fade' \in BOOLEAN
    /\ CancelGrace(FALSE, FALSE)
    /\ Renew(Behavior, lock)
    /\ phase' = [b \in Behavior |-> "Waiting"]
    /\ account' = [b \in Behavior |->
                      IF account[b] = "owed" THEN "forgotten" ELSE account[b]]
    /\ UNCHANGED <<inhibition, deferred, lock, screen, away>>

Inhibit ==
    /\ MainLoop /\ ~inhibited /\ Spare /\ bounds.inhibits < MaxInhibits
    /\ bounds' = [bounds EXCEPT !.inhibits = @ + 1]
    /\ inhibited' = TRUE
    /\ UNCHANGED <<manager, idledWhileInhibited, fade, shade, deferred, nest, primed,
                   lock, screen, away, compositor, account, cancelled>>

Uninhibit ==
    /\ MainLoop /\ inhibited
    /\ inhibited' = FALSE
    /\ IF idledWhileInhibited
       THEN idledWhileInhibited' = FALSE /\ RearmAll(lock, FALSE)
       ELSE UNCHANGED <<manager, idledWhileInhibited, shade, nest, primed, screen,
                        compositor, account, cancelled>>
    /\ UNCHANGED <<fade, deferred, lock, away, bounds>>

\* The user asks for the lock.
RequestLock ==
    /\ MainLoop /\ LockEnabled /\ lock = "unlocked"
    /\ Spare /\ bounds.sessions < MaxSessions
    /\ bounds' = [bounds EXCEPT !.sessions = @ + 1]
    /\ primed' = FALSE
    /\ IF Captures /\ ~primed
       THEN lock' = "starting" /\ nest' = <<LockFrame(<<>>)>>
       ELSE lock' = "pending" /\ UNCHANGED nest
    /\ UNCHANGED <<manager, inhibition, fade, shade, deferred, screen, away, compositor,
                   account, cancelled>>

\* handleLocked and its hook.
Locked ==
    /\ lock = "pending"
    /\ lock' = "locked"
    /\ RearmAll("locked", TRUE)
    /\ UNCHANGED <<inhibition, fade, deferred, away, bounds>>

\* The compositor refuses the lock: handleFinished and the abort hook.
LockRefused ==
    /\ lock = "pending"
    /\ lock' = "unlocked"
    /\ overlay' = Hidden
    /\ Invalidate
    /\ UNCHANGED <<manager, inhibition, fade, overlayGeneration, deferred, screen, away,
                   compositor, account, cancelled, bounds>>

\* unlock() before the compositor has locked: no hook is called.
CancelLock ==
    /\ MainLoop /\ lock = "pending" /\ Spare /\ bounds.sessions < MaxSessions
    /\ bounds' = [bounds EXCEPT !.sessions = @ + 1]
    /\ lock' = "unlocked"
    /\ Invalidate
    /\ UNCHANGED <<manager, inhibition, fade, shade, deferred, screen, away, compositor,
                   account, cancelled>>

\* unlock() of a locked session, to the end of its transition, and its hook (no
\* capture is primed then, so there is none to invalidate).
Unlock ==
    /\ MainLoop /\ lock = "locked" /\ Spare /\ bounds.sessions < MaxSessions
    /\ bounds' = [bounds EXCEPT !.sessions = @ + 1]
    /\ lock' = "unlocked"
    /\ RearmAll("unlocked", TRUE)
    /\ UNCHANGED <<inhibition, fade, deferred, away>>

Loop ==
    \/ \E b \in Behavior : Dispatch(b)
    \/ PrimeEnds \/ LockCaptureEnds \/ CallShow \/ CallDone

Next ==
    \/ Leave \/ Return \/ (\E b \in Behavior : ReportIdle(b))
    \/ Loop \/ FallbackFires \/ FadeEnds \/ OutputsChange
    \/ Reload \/ Inhibit \/ Uninhibit
    \/ RequestLock \/ Locked \/ LockRefused \/ CancelLock \/ Unlock

Spec == Init /\ [][Next]_vars

\* The main loop dispatches events and runs its deferred calls, captures have
\* a deadline and the timer fires.  The compositor may never finish a fade.
FairSpec == Spec /\ WF_vars(Loop) /\ WF_vars(FallbackFires)

----------------------------------------------------------------------------
(* Properties.                                                             *)

Frame == [kind: {"prime", "lock"}, rest: Seq(Behavior), valid: BOOLEAN, show: Nat,
          grace: Nat]

\* Every variable keeps to its range.
TypeOK ==
    /\ phase \in [Behavior -> {"Waiting", "Fading", "Idled"}]
    /\ grace \in Seq(Behavior) /\ graceWillLock \in BOOLEAN
    /\ graceGeneration \in Nat /\ fallback \in {0, graceGeneration}
    /\ inhibited \in BOOLEAN /\ idledWhileInhibited \in BOOLEAN /\ fade \in BOOLEAN
    /\ overlay \in [state: {"hidden", "fading", "opaque"}, grace: 0..graceGeneration]
    /\ overlayGeneration \in Nat
    /\ deferred \in Seq([kind: {"show", "done"}, overlay: 0..overlayGeneration,
                         grace: 0..graceGeneration])
    /\ nest \in Seq(Frame) /\ primed \in BOOLEAN
    /\ lock \in {"unlocked", "starting", "pending", "locked"} /\ screen \in {"on", "off"}
    /\ away \in BOOLEAN /\ server \in [Behavior -> {"none", "active", "idle"}]
    /\ wire \in Seq([of: Behavior, is: {"idle", "active"}])
    /\ told \in [Behavior -> {"active", "idle", "missed"}]
    /\ account \in [Behavior -> {"settled", "owed", "forgotten"}] /\ cancelled \subseteq Nat

\* A capture interrupts graceFadeComplete: these behaviours are not run yet.
Behind == UNION {ToSet(nest[i].rest) : i \in DOMAIN nest}

\* The behaviours of the active grace are those that fade: one left out would
\* never run nor be cancelled, one left in would run after its user is back.
GraceIsFading ==
    /\ {b \in Behavior : phase[b] = "Fading"} \ Behind = ToSet(grace)
    /\ grace # <<>> => fallback = graceGeneration

\* The grace and what it is made of are whole, in the middle of a capture too.
GraceIsWhole == TypeOK /\ GraceIsFading

\* A behaviour's phase follows what the compositor last told of it: it does not
\* stay idled or fading once its user is known to be back, unless the resume came
\* while it waited behind the lock's capture, and no idle report is lost, but for
\* one whose resume is already on its way.
PhaseFollowsReports ==
    \A b \in Behavior :
       /\ told[b] = "active" => phase[b] = "Waiting"
       /\ told[b] = "missed" => \/ phase[b] = "Idled"
                                \/ phase[b] = "Fading" /\ b \in Behind
       /\ told[b] = "idle" /\ phase[b] = "Waiting"
          => \E i \in DOMAIN wire : wire[i] = [of |-> b, is |-> "active"]

\* Activity in the fade window cancels the pending action: no action of a
\* behaviour whose user is known to be back runs, but for one that waited behind
\* the lock's capture when its resume came.
ActionMeansIdle ==
    [][\A b \in Behavior :
          phase[b] # "Idled" /\ phase'[b] = "Idled"
          => told'[b] = "idle" \/ (told[b] = "missed" /\ b \in Behind)]_vars

\* An action that ran is undone exactly when its behaviour leaves "Idled", whoever
\* ends it: only a reload forgets what it owes.
ActionIsOwed == \A b \in Behavior : account[b] = "owed" <=> phase[b] = "Idled"

\* The overlay of a fade that the user cancelled is gone and does not appear
\* later, whatever the order of show, resume and capture.
CancelledFadeIsGone == overlay # Hidden => overlay.grace \notin cancelled

\* A grace ends, even when its overlay never reports the end of the fade.
GraceEnds == grace # <<>> ~> grace = <<>>

\* The screen comes back when the user does.
ScreenComesBack == (screen = "off" /\ ~away) ~> (screen = "on" \/ away)
=============================================================================
