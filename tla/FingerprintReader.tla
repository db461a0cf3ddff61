-------------------------- MODULE FingerprintReader --------------------------
(***************************************************************************)
(* auth/fingerprint_authenticator.cpp: how the reader of fprintd is claimed *)
(* and made to verify, over D-Bus calls that are answered later, while      *)
(* fingers fail, fprintd loses the claim and the machine goes to sleep.     *)
(* The lock screen starts and stops it: see SessionGuard.                   *)
(***************************************************************************)
EXTENDS Naturals, SequencesExt

CONSTANT
    MaxRetries      \* kMaxRetries

ASSUME ReaderAssumption == MaxRetries \in Nat

VARIABLES
    auth,       \* the members of FingerprintAuthenticator
    verifying   \* fprintd waits for a finger on our behalf

readerVars == <<auth, verifying>>

Authenticator == [
    active : BOOLEAN,                       \* m_active
    sleeping : BOOLEAN,                     \* m_sleeping
    abort : BOOLEAN,                        \* m_abort
    reclaimed : BOOLEAN,                    \* m_reclaimAttempted
    retries : 0..MaxRetries,                \* m_retries, as far as it counts
    proxy : BOOLEAN,                        \* m_device
    claiming : BOOLEAN,                     \* m_claiming
    starts : Seq(BOOLEAN),                  \* VerifyStart calls: is it a retry
    timer : {"off", "retry", "reclaim"},    \* m_retryTimer
    gaveUp : BOOLEAN]                       \* history: it was told to give up

\* What stop() leaves.  The retries, the abort and the reclaim mean nothing
\* until start() sets them, and are set here.
Stopped(sleeping) ==
    [active |-> FALSE, sleeping |-> sleeping, abort |-> FALSE, reclaimed |-> FALSE,
     retries |-> 0, proxy |-> FALSE, claiming |-> FALSE, starts |-> <<>>,
     timer |-> "off", gaveUp |-> FALSE]

ReaderInit ==
    /\ auth = Stopped(FALSE)
    /\ verifying = FALSE

-----------------------------------------------------------------------------
(* startVerify(), from the members to those that may follow. *)

\* createDeviceProxy() finds a device, which is claimed, or none.
Claimed(a) == {[a EXCEPT !.proxy = TRUE, !.claiming = TRUE, !.gaveUp = FALSE],
               [a EXCEPT !.gaveUp = TRUE]}

StartVerify(a, isRetry) ==
    IF ~a.active \/ a.sleeping \/ a.abort THEN {a}
    ELSE IF ~a.proxy THEN Claimed(a)
    ELSE IF a.claiming THEN {a}
    ELSE {[a EXCEPT !.starts = Append(@, isRetry), !.gaveUp = FALSE]}

\* start()
Start(a) ==
    IF a.active THEN {a}
    ELSE StartVerify([Stopped(a.sleeping) EXCEPT !.active = TRUE], FALSE)

\* start() and stop() as the lock screen calls them; with the proxy go the
\* answers that are still to come, and releasing the device ends its work.
Switch(on) ==
    /\ auth' \in IF on THEN Start(auth) ELSE {Stopped(auth.sleeping)}
    /\ verifying' = (on /\ verifying)

-----------------------------------------------------------------------------
(* Answers of fprintd. *)

ClaimAnswered ==
    /\ auth.claiming
    /\ LET a == [auth EXCEPT !.claiming = FALSE]
       IN auth' \in {[a EXCEPT !.gaveUp = TRUE]} \cup StartVerify(a, FALSE)
    /\ UNCHANGED verifying

NextStart == [auth EXCEPT !.starts = Tail(@)]

\* A device that has been put to sleep meanwhile does not wait for a finger.
VerifyStarted ==
    /\ auth.starts # <<>>
    /\ auth' = [NextStart EXCEPT
                   !.reclaimed = FALSE,
                   !.retries = IF Head(auth.starts) /\ @ < MaxRetries THEN @ + 1 ELSE @]
    /\ verifying' = ~auth.sleeping

\* The error that says that the claim is gone: the device is claimed again,
\* once, by the timer, as its proxy may not go from within its own answer.
ClaimLost ==
    /\ auth.starts # <<>>
    /\ auth' = IF ~auth.reclaimed /\ ~auth.sleeping /\ ~auth.abort
               THEN [NextStart EXCEPT !.reclaimed = TRUE, !.timer = "reclaim"]
               ELSE [NextStart EXCEPT !.gaveUp = TRUE]
    /\ verifying' = FALSE

VerifyRefused ==
    /\ auth.starts # <<>>
    /\ auth' = [NextStart EXCEPT !.gaveUp = TRUE]
    /\ UNCHANGED verifying

\* The retry timer; for a reclaim the proxy is dropped first, with whatever
\* was still to be answered.
RetryTimer ==
    /\ auth.timer # "off"
    /\ LET a == [auth EXCEPT !.timer = "off"]
       IN IF auth.timer = "retry" THEN auth' \in StartVerify(a, TRUE)
          ELSE auth' \in StartVerify([a EXCEPT !.proxy = FALSE, !.starts = <<>>], FALSE)
    /\ verifying' = (verifying /\ auth.timer = "retry")

-----------------------------------------------------------------------------
(* VerifyStatus signals: what fprintd saw while it waited for a finger.     *)
(* Those that ask for another touch change nothing.                         *)

\* stopVerify() comes first, except for a result that is not known.
Seen == verifying /\ auth.proxy /\ verifying' = FALSE

\* No match, or an unknown error.
FingerFails ==
    /\ Seen
    /\ ~auth.sleeping
    /\ auth' = IF auth.retries >= MaxRetries
               THEN [auth EXCEPT !.timer = "off", !.gaveUp = TRUE]
               ELSE [auth EXCEPT !.timer = "retry"]

Disconnected ==
    /\ Seen
    /\ ~auth.sleeping
    /\ auth' = [auth EXCEPT !.timer = "off", !.abort = TRUE]

\* A result without a name ends the verification, which is begun again.
UnknownResult ==
    /\ Seen
    /\ ~auth.sleeping
    /\ auth' \in IF auth.abort THEN {auth} ELSE StartVerify(auth, TRUE)

\* The finger matches: the verification is over, and the lock screen unlocks.
FingerMatches ==
    /\ verifying /\ auth.proxy
    /\ auth.active /\ ~auth.sleeping

-----------------------------------------------------------------------------
(* PrepareForSleep: the device is left to fprintd, and begun with again.    *)

FallAsleep ==
    /\ auth' = [auth EXCEPT !.sleeping = TRUE, !.timer = "off"]
    /\ verifying' = FALSE

\* Mutant: a device that is still being claimed is taken for one at work.
WakeUpUnlessClaimed ==
    /\ LET a == [auth EXCEPT !.sleeping = FALSE]
       IN auth' \in IF a.active /\ ~a.abort /\ ~a.proxy THEN StartVerify(a, FALSE) ELSE {a}
    /\ UNCHANGED verifying

WakeUp ==
    /\ LET a == [auth EXCEPT !.sleeping = FALSE]
       IN auth' \in IF a.active /\ ~a.abort THEN StartVerify(a, FALSE) ELSE {a}
    /\ UNCHANGED verifying

ReaderStep ==
    \/ ClaimAnswered
    \/ VerifyStarted \/ ClaimLost \/ VerifyRefused
    \/ RetryTimer
    \/ FingerFails \/ Disconnected \/ UnknownResult

-----------------------------------------------------------------------------
(* Properties. *)

ReaderTypeOK ==
    /\ auth \in Authenticator
    /\ verifying \in BOOLEAN

\* A started reader is at work, about to be, or gave up for a reason: no
\* answer, retry or sleep that overlaps another leaves it waiting for nothing.
ReaderIsNotForgotten ==
    auth.active /\ ~auth.sleeping /\ ~auth.abort =>
        \/ auth.claiming
        \/ auth.starts # <<>>
        \/ verifying
        \/ auth.timer # "off"
        \/ auth.gaveUp
=============================================================================
