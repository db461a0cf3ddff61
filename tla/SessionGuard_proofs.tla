------------------------- MODULE SessionGuard_proofs -------------------------
(***************************************************************************)
(* The session lock, the reader and logind, for any outputs, attempts and  *)
(* bounds.                                                                  *)
(***************************************************************************)
EXTENDS SessionGuard, FiniteSetTheorems, FunctionTheorems,
        SequenceTheorems, TLAPS

-----------------------------------------------------------------------------
(* The members of the lock screen. *)

\* What belongs to a lock, to its exit or to an attempt goes with it.
Whole(s) ==
    /\ s \in Screen
    /\ s.unlocking => s.lock = "locked"
    /\ s.finishQueued => s.unlocking
    /\ s.unlocking = s.exitTimer
    /\ s.starting => ~Active(s)
    /\ s.leaving # {} => s.unlocking
    /\ s.deferred => ~Active(s) /\ ~s.starting
    /\ s.current # NoAttempt => s.lock = "locked" /\ ~s.unlocking
    /\ s.authenticating => s.current # NoAttempt
    /\ s.reader => s.lock = "locked" /\ ~s.unlocking /\ ~s.authenticating

LEMMA PostTyped ==
    ASSUME NEW s \in Screen, NEW call \in {"finish", "action"}
    PROVE  Post(s, call) \in Screen
<1>1. s.calls \in Seq({"finish", "action"})
    BY DEF Screen
<1>2. Append(s.calls, call) \in Seq({"finish", "action"})
    BY <1>1
<1> QED  BY <1>2 DEF Post, Screen

\* A screen that differs from s in what it owes at most.
SameButOwed(s, t) ==
    /\ t \in Screen
    /\ t.lock = s.lock /\ t.starting = s.starting /\ t.deferred = s.deferred
    /\ t.unlocking = s.unlocking /\ t.finishQueued = s.finishQueued
    /\ t.surfaces = s.surfaces /\ t.rendered = s.rendered /\ t.leaving = s.leaving
    /\ t.uncovered = s.uncovered
    /\ t.exitTimer = s.exitTimer /\ t.current = s.current
    /\ t.authenticating = s.authenticating /\ t.reader = s.reader

LEMMA SameIsWhole ==
    ASSUME NEW s, NEW t, Whole(s), SameButOwed(s, t)
    PROVE  Whole(t)
BY DEF Whole, SameButOwed, Active

LEMMA DispatchSame ==
    ASSUME NEW s \in Screen
    PROVE  SameButOwed(s, Dispatch(s))
<1>1. Post(s, "action") \in Screen
    BY PostTyped
<1>2. CASE s.afterLocked
    BY <1>1, <1>2 DEF Dispatch, Screen, SameButOwed, Post
<1>3. CASE ~s.afterLocked
    BY <1>3 DEF Dispatch, Screen, SameButOwed
<1> QED  BY <1>2, <1>3

LEMMA FlushSame ==
    ASSUME NEW s \in Screen
    PROVE  SameButOwed(s, Flush(s))
BY DispatchSame DEF Flush, SameButOwed

\* What is released, reset, invalidated or abandoned is whole.
LEMMA ReleasedWhole ==
    ASSUME NEW s \in Screen, ~s.deferred, s.current = NoAttempt,
           ~s.authenticating, ~s.reader, ~s.starting
    PROVE  /\ Whole(Released(s))
           /\ Released(s).lock = "none" /\ ~Released(s).deferred
           /\ Released(s).current = NoAttempt
           /\ ~Released(s).authenticating /\ ~Released(s).reader
BY DEF Whole, Released, Screen, Active

LEMMA ResetWhole ==
    ASSUME NEW s, Whole(s), ~Active(s)
    PROVE  /\ Whole(Reset(s)) /\ Reset(s).lock = "none" /\ ~Reset(s).deferred
           /\ Reset(s).current = NoAttempt /\ ~Reset(s).authenticating
BY DEF Whole, Reset, Released, Screen, Active

LEMMA AbandonWhole ==
    ASSUME NEW s, Whole(s)
    PROVE  /\ Whole(Abandon(s))
           /\ ~Abandon(s).deferred /\ Abandon(s).current = NoAttempt
           /\ ~Abandon(s).authenticating /\ ~Abandon(s).reader
           /\ Abandon(s).lock = s.lock /\ Abandon(s).unlocking = s.unlocking
           /\ Abandon(s).surfaces = s.surfaces /\ Abandon(s).starting = s.starting
           /\ Abandon(s).uncovered = s.uncovered
BY DEF Whole, Abandon, Invalidate, Screen, Active

\* The surfaces that are made, or not, and what stays as it was.
LEMMA SyncKeeps ==
    ASSUME NEW s \in Screen, NEW there, NEW u \in Syncs(s, there)
    PROVE  /\ u.leaving \in SUBSET s.leaving /\ u.lock = s.lock
           /\ u.unlocking = s.unlocking /\ u.deferred = s.deferred
           /\ u.current = s.current /\ u.authenticating = s.authenticating
           /\ u.reader = s.reader /\ u.starting = s.starting
           /\ u.calls = s.calls /\ u.afterLocked = s.afterLocked
           /\ u.finishQueued = s.finishQueued /\ u.exitTimer = s.exitTimer
<1>1. PICK failed \in SUBSET (there \ s.surfaces) :
        u = [s EXCEPT !.surfaces = there \ failed, !.uncovered = failed,
                      !.rendered = @ \cap there, !.leaving = @ \cap there]
    BY DEF Syncs
<1> DEFINE some == there \ failed
           shown == s.rendered \cap there
           left == s.leaving \cap there
<1>2. u = [s EXCEPT !.surfaces = some, !.uncovered = failed, !.rendered = shown,
                    !.leaving = left]
  <2> DEFINE v == [s EXCEPT !.surfaces = some, !.uncovered = failed]
             w == [v EXCEPT !.rendered = shown]
  <2>1. v.rendered = s.rendered
    BY DEF Screen
  <2>2. w.leaving = s.leaving
    BY DEF Screen
  <2> QED  BY <1>1, <2>1, <2>2
<1>3. left \in SUBSET s.leaving
    OBVIOUS
<1> HIDE DEF some, shown, left
<1>4. u.leaving = left /\ u.lock = s.lock
    BY <1>2 DEF Screen
<1>5. /\ u.unlocking = s.unlocking /\ u.deferred = s.deferred
      /\ u.current = s.current /\ u.authenticating = s.authenticating
      /\ u.reader = s.reader /\ u.starting = s.starting
    BY <1>2 DEF Screen
<1>6. /\ u.calls = s.calls /\ u.afterLocked = s.afterLocked
      /\ u.finishQueued = s.finishQueued /\ u.exitTimer = s.exitTimer
    BY <1>2 DEF Screen
<1> QED  BY <1>3, <1>4, <1>5, <1>6

LEMMA SyncTyped ==
    ASSUME NEW s \in Screen, NEW there \in SUBSET Output, NEW u \in Syncs(s, there)
    PROVE  u \in Screen /\ u.surfaces \in SUBSET Output
<1>1. PICK failed \in SUBSET (there \ s.surfaces) :
        u = [s EXCEPT !.surfaces = there \ failed, !.uncovered = failed,
                      !.rendered = @ \cap there, !.leaving = @ \cap there]
    BY DEF Syncs
<1> DEFINE some == there \ failed
           shown == s.rendered \cap there
           left == s.leaving \cap there
<1>2. u = [s EXCEPT !.surfaces = some, !.uncovered = failed, !.rendered = shown,
                    !.leaving = left]
  <2> DEFINE v == [s EXCEPT !.surfaces = some, !.uncovered = failed]
             w == [v EXCEPT !.rendered = shown]
  <2>1. v.rendered = s.rendered
    BY DEF Screen
  <2>2. w.leaving = s.leaving
    BY DEF Screen
  <2> QED  BY <1>1, <2>1, <2>2
<1>3. /\ some \in SUBSET Output /\ failed \in SUBSET Output
      /\ shown \in SUBSET Output /\ left \in SUBSET Output
    BY <1>1 DEF Screen
<1> HIDE DEF some, shown, left
<1>4. u \in Screen
    BY <1>2, <1>3 DEF Screen
<1>5. u.surfaces = some
    BY <1>2 DEF Screen
<1> QED  BY <1>3, <1>4, <1>5

LEMMA SyncCovers ==
    ASSUME NEW s \in Screen, NEW there, NEW u \in Syncs(s, there)
    PROVE  u.surfaces = there \ u.uncovered
<1>1. PICK failed :
        u = [s EXCEPT !.surfaces = there \ failed, !.uncovered = failed,
                      !.rendered = @ \cap there, !.leaving = @ \cap there]
    BY DEF Syncs
<1>2. u.surfaces = there \ failed
    BY <1>1 DEF Screen
<1>3. u.uncovered = failed
    BY <1>1 DEF Screen
<1> HIDE <1>1
<1> QED  BY <1>2, <1>3, Zenon

LEMMA SyncWhole ==
    ASSUME NEW s, Whole(s), NEW there \in SUBSET Output, NEW u \in Syncs(s, there)
    PROVE  Whole(u) /\ u.surfaces \in SUBSET Output
<1>1. s \in Screen
    BY DEF Whole
<1>2. u \in Screen /\ u.surfaces \in SUBSET Output
    BY <1>1, SyncTyped
<1>3. /\ u.leaving \in SUBSET s.leaving /\ u.lock = s.lock
      /\ u.unlocking = s.unlocking /\ u.deferred = s.deferred
      /\ u.current = s.current /\ u.authenticating = s.authenticating
      /\ u.reader = s.reader /\ u.starting = s.starting
      /\ u.finishQueued = s.finishQueued /\ u.exitTimer = s.exitTimer
    BY <1>1, SyncKeeps
<1> QED  BY <1>2, <1>3 DEF Whole, Active

\* An exit that goes on, or is complete.
LEMMA FinishWhole ==
    ASSUME NEW s, Whole(s)
    PROVE  /\ Whole(TryFinish(s))
           /\ TryFinish(s).lock = s.lock /\ TryFinish(s).surfaces = s.surfaces
           /\ TryFinish(s).uncovered = s.uncovered
           /\ TryFinish(s).unlocking = s.unlocking
           /\ TryFinish(s).deferred = s.deferred /\ TryFinish(s).current = s.current
           /\ TryFinish(s).authenticating = s.authenticating
           /\ TryFinish(s).reader = s.reader
<1>1. Post(s, "finish") \in Screen
    BY PostTyped DEF Whole
<1>2. CASE s.unlocking /\ ~s.finishQueued /\ s.leaving = {}
    BY <1>1, <1>2 DEF TryFinish, Post, Whole, Screen, Active
<1>3. CASE ~(s.unlocking /\ ~s.finishQueued /\ s.leaving = {})
    BY <1>3 DEF TryFinish
<1> QED  BY <1>2, <1>3

LEMMA LeaveWhole ==
    ASSUME NEW s, Whole(s), s.unlocking, NEW staying \in SUBSET Output,
           NEW t \in Leave(s, staying)
    PROVE  /\ Whole(TryFinish(t))
           /\ TryFinish(t).unlocking /\ TryFinish(t).surfaces = s.surfaces
           /\ TryFinish(t).uncovered = s.uncovered
           /\ TryFinish(t).lock = s.lock /\ TryFinish(t).reader = s.reader
           /\ TryFinish(t).deferred = s.deferred /\ TryFinish(t).current = s.current
           /\ TryFinish(t).authenticating = s.authenticating
<1>1. PICK some \in SUBSET staying : t = [s EXCEPT !.leaving = @ \cup some]
    BY DEF Leave
<1>2. /\ Whole(t) /\ t.unlocking
      /\ t.lock = s.lock /\ t.surfaces = s.surfaces /\ t.deferred = s.deferred
      /\ t.uncovered = s.uncovered
      /\ t.current = s.current /\ t.reader = s.reader
      /\ t.authenticating = s.authenticating
    BY <1>1 DEF Whole, Screen, Active
<1> QED  BY <1>2, FinishWhole

LEMMA ExitsWhole ==
    ASSUME NEW s, Whole(s), s.lock = "locked", s.current = NoAttempt, ~s.reader,
           NEW t \in Exits(s)
    PROVE  Whole(t) /\ t.unlocking /\ t.lock = "locked" /\ t.surfaces = s.surfaces
           /\ t.uncovered = s.uncovered
           /\ ~t.deferred /\ t.current = NoAttempt /\ ~t.reader /\ ~t.authenticating
<1> DEFINE u == [s EXCEPT !.unlocking = TRUE, !.exitTimer = TRUE]
<1>1. /\ Whole(u) /\ u.unlocking
      /\ u.lock = s.lock /\ u.surfaces = s.surfaces /\ u.deferred = s.deferred
      /\ u.uncovered = s.uncovered
      /\ u.current = s.current /\ u.reader = s.reader
      /\ u.authenticating = s.authenticating
    BY DEF Whole, Screen, Active
<1>2. u.surfaces \in SUBSET Output
    BY <1>1 DEF Whole, Screen
<1>3. PICK v \in Leave(u, u.surfaces) : t = TryFinish(v)
    BY <1>1 DEF Exits
<1>4. ~s.deferred /\ ~s.authenticating
    BY DEF Whole, Active
<1> HIDE DEF u
<1> QED  BY <1>1, <1>2, <1>3, <1>4, LeaveWhole

\* lock(): at most it begins, or is deferred for want of outputs.
LEMMA LockWhole ==
    ASSUME NEW s, Whole(s), enabled \in BOOLEAN, NEW there,
           s.deferred => there = {}
    PROVE  /\ Whole(Lock(s, there))
           /\ Lock(s, there).lock = s.lock /\ Lock(s, there).surfaces = s.surfaces /\ Lock(s, there).uncovered = s.uncovered
           /\ Lock(s, there).current = s.current
           /\ Lock(s, there).authenticating = s.authenticating
           /\ Lock(s, there).reader = s.reader
           /\ Lock(s, there).deferred => there = {}
<1> DEFINE d == [s EXCEPT !.deferred = TRUE]
           b == [s EXCEPT !.starting = TRUE]
<1>1. CASE ~enabled \/ Active(s) \/ s.starting
    BY <1>1 DEF Lock
<1>2. CASE enabled /\ ~Active(s) /\ ~s.starting /\ there = {}
  <2>1. /\ Whole(d) /\ d.lock = s.lock /\ d.surfaces = s.surfaces
        /\ d.uncovered = s.uncovered
        /\ d.current = s.current /\ d.authenticating = s.authenticating
        /\ d.reader = s.reader
    BY <1>2 DEF Whole, Screen, Active
  <2>2. Lock(s, there) = Dispatch(d)
    BY <1>2 DEF Lock
  <2>3. SameButOwed(d, Dispatch(d))
    BY <2>1, DispatchSame DEF Whole
  <2> HIDE DEF d
  <2>4. Whole(Dispatch(d))
    BY <2>1, <2>3, SameIsWhole
  <2> QED  BY <1>2, <2>1, <2>2, <2>3, <2>4 DEF SameButOwed
<1>3. CASE enabled /\ ~Active(s) /\ ~s.starting /\ there # {}
  <2>1. Lock(s, there) = b
    BY <1>3 DEF Lock
  <2>2. ~s.deferred
    BY <1>3
  <2> QED  BY <1>3, <2>1, <2>2 DEF Whole, Screen, Active
<1> QED  BY <1>1, <1>2, <1>3

-----------------------------------------------------------------------------
(* The lock and what is kept in step with it. *)

ThreadTyped == thread \in [Attempt -> {"none", "running", "passed", "failed", "done"}]

UnderWay == {"running", "passed", "failed"}

LockInv ==
    /\ Whole(screen)
    /\ ThreadTyped
    /\ outputs \in SUBSET Output /\ enabled \in BOOLEAN
    /\ HooksTellTheTruth /\ EveryOutputIsCovered
    /\ screen.deferred => outputs = {}
    /\ screen.current # NoAttempt => screen.current \in fresh
    /\ screen.authenticating => thread[screen.current] \in UnderWay

\* A step that leaves the lock as it is keeps all of it.
Keeps(s, t) ==
    /\ Whole(t)
    /\ t.lock = s.lock /\ t.surfaces = s.surfaces /\ t.uncovered = s.uncovered
    /\ t.deferred => outputs = {}
    /\ t.current \in {s.current, NoAttempt}
    /\ t.authenticating => s.authenticating

LEMMA KeepsLock ==
    ASSUME LockInv, Keeps(screen, screen'), UNCHANGED <<others, told>>
    PROVE  LockInv'
<1>1. screen'.authenticating => screen'.current = screen.current
    BY DEF Keeps, Whole
<1> QED  BY <1>1 DEF LockInv, Keeps, others, HooksTellTheTruth, EveryOutputIsCovered,
                 Active, ThreadTyped

\* unlock(): the lock ends with its hook, or its exit begins.
LEMMA UnlockKeeps ==
    ASSUME NEW s, Whole(s), Active(s), told = (s.lock = "locked"), Unlock(s)
    PROVE  /\ Whole(screen')
           /\ told' = (screen'.lock = "locked")
           /\ Active(screen') => screen'.surfaces = s.surfaces /\ screen'.uncovered = s.uncovered
           /\ ~screen'.deferred
           /\ screen'.current \in {s.current, NoAttempt}
           /\ screen'.authenticating => s.authenticating
<1>1. /\ Whole(Abandon(s))
      /\ ~Abandon(s).deferred /\ Abandon(s).current = NoAttempt
      /\ ~Abandon(s).authenticating /\ ~Abandon(s).reader
      /\ Abandon(s).lock = s.lock /\ Abandon(s).starting = s.starting
      /\ Abandon(s).surfaces = s.surfaces /\ Abandon(s).uncovered = s.uncovered
    BY AbandonWhole
<1>2. ~s.starting /\ ~s.deferred /\ s.lock \in {"pending", "locked"}
    BY DEF Whole, Active, Screen
<1>3. CASE s.lock = "pending"
  <2>1. screen' = Released(Abandon(s)) /\ told' = told
    BY <1>1, <1>3 DEF Unlock, FinishUnlock
  <2> QED  BY <1>1, <1>2, <1>3, <2>1, ReleasedWhole DEF Whole, Active
<1>4. CASE s.lock = "locked" /\ s.unlocking
    BY <1>2, <1>4 DEF Unlock
<1>5. CASE s.lock = "locked" /\ ~s.unlocking
  <2>1. screen' \in Exits(Abandon(s)) /\ told' = told
    BY <1>5 DEF Unlock
  <2> QED  BY <1>1, <1>2, <1>5, <2>1, ExitsWhole
<1> QED  BY <1>2, <1>3, <1>4, <1>5

LEMMA UnlockLock ==
    ASSUME LockInv, NEW s, Whole(s), Active(s),
           s.lock = screen.lock, s.surfaces = screen.surfaces,
           s.uncovered = screen.uncovered,
           s.current = screen.current, s.authenticating => screen.authenticating,
           Unlock(s), UNCHANGED <<outputs, fresh>>,
           ThreadTyped', enabled' \in BOOLEAN,
           s.authenticating => UNCHANGED thread
    PROVE  LockInv'
<1>1. told = (s.lock = "locked") /\ s.surfaces = outputs \ s.uncovered
    BY DEF LockInv, HooksTellTheTruth, EveryOutputIsCovered, Active
<1>2. /\ Whole(screen')
      /\ told' = (screen'.lock = "locked")
      /\ Active(screen') => screen'.surfaces = s.surfaces /\ screen'.uncovered = s.uncovered
      /\ ~screen'.deferred
      /\ screen'.current \in {s.current, NoAttempt}
      /\ screen'.authenticating => s.authenticating
    BY <1>1, UnlockKeeps
<1>3. screen'.authenticating => screen'.current = screen.current
    BY <1>2 DEF Whole
<1> QED  BY <1>1, <1>2, <1>3 DEF LockInv, HooksTellTheTruth, EveryOutputIsCovered

LEMMA FinishLock ==
    ASSUME LockInv, NEW s \in Screen, ~s.deferred, s.current = NoAttempt,
           ~s.authenticating, ~s.reader, ~s.starting,
           s.lock = screen.lock, FinishUnlock(s), UNCHANGED others
    PROVE  LockInv'
<1>1. /\ screen' = Released(s)
      /\ Whole(screen') /\ screen'.lock = "none" /\ ~screen'.deferred
      /\ screen'.current = NoAttempt
      /\ ~screen'.authenticating /\ ~screen'.reader
    BY ReleasedWhole DEF FinishUnlock
<1>2. told' = FALSE
    BY DEF FinishUnlock, LockInv, HooksTellTheTruth
<1> QED  BY <1>1, <1>2 DEF LockInv, HooksTellTheTruth, EveryOutputIsCovered, Active,
                 others, ThreadTyped

LEMMA SameLock ==
    ASSUME LockInv, SameButOwed(screen, screen'), UNCHANGED <<others, told>>
    PROVE  LockInv'
BY SameIsWhole, KeepsLock DEF LockInv, Keeps, SameButOwed

\* The screen after a deferred call has been taken.
LEMMA TailSame ==
    ASSUME NEW s \in Screen, s.calls # <<>>
    PROVE  SameButOwed(s, [s EXCEPT !.calls = Tail(@)])
<1>1. s.calls \in Seq({"finish", "action"})
    BY DEF Screen
<1>2. Tail(s.calls) \in Seq({"finish", "action"})
    BY <1>1
<1> QED  BY <1>2 DEF SameButOwed, Screen

LEMMA LockLock ==
    ASSUME LockInv, screen' = Lock(screen, outputs), UNCHANGED <<others, told>>
    PROVE  LockInv'
BY LockWhole, KeepsLock DEF LockInv, Keeps

LEMMA RunAfterLockedLock ==
    ASSUME LockInv, RunAfterLocked
    PROVE  LockInv'
<1> DEFINE s == [screen EXCEPT !.afterLocked = TRUE]
<1>1. SameButOwed(screen, s)
    BY DEF LockInv, Whole, SameButOwed, Screen
<1>2. Whole(s) /\ s.afterLocked
    BY <1>1, SameIsWhole DEF LockInv, Whole, Screen
<1>3. UNCHANGED <<others, told>>
    BY DEF RunAfterLocked
<1>4. CASE Active(s)
  <2>1. screen' = Flush(s)
    BY <1>4 DEF RunAfterLocked
  <2> HIDE DEF s
  <2>2. SameButOwed(screen, screen')
    BY <1>1, <1>2, <2>1, FlushSame DEF Whole, SameButOwed
  <2> QED  BY <1>3, <2>2, SameLock
<1>5. CASE ~Active(s) /\ ~enabled
  <2>1. screen' = [s EXCEPT !.afterLocked = FALSE]
    BY <1>5 DEF RunAfterLocked
  <2>2. SameButOwed(screen, screen')
    BY <2>1 DEF SameButOwed, Screen, LockInv, Whole
  <2> QED  BY <1>3, <2>2, SameLock
<1>6. CASE ~Active(s) /\ enabled
  <2>1. screen' = Lock(s, outputs)
    BY <1>6 DEF RunAfterLocked
  <2> HIDE DEF s
  <2>2. s.deferred => outputs = {}
    BY <1>1 DEF SameButOwed, LockInv
  <2>3. Keeps(screen, screen')
    BY <1>1, <1>2, <2>1, <2>2, LockWhole DEF Keeps, LockInv, SameButOwed
  <2> QED  BY <1>3, <2>3, KeepsLock
<1> QED  BY <1>4, <1>5, <1>6 DEF LockInv

LEMMA BeginLock ==
    ASSUME LockInv, OutputsVanished \/ LockRequested \/ LockFails
    PROVE  LockInv'
<1>0. Whole(screen) /\ screen.starting /\ ~Active(screen)
      /\ screen.current = NoAttempt /\ ~screen.authenticating /\ ~screen.reader
      /\ UNCHANGED <<others, told>> /\ ~told
    BY DEF LockInv, Whole, Active, OutputsVanished, LockRequested, LockFails,
           HooksTellTheTruth
<1>1. CASE OutputsVanished
  <2> DEFINE s == [screen EXCEPT !.starting = FALSE, !.deferred = TRUE]
  <2>1. /\ Whole(s) /\ s.lock = screen.lock /\ s.surfaces = screen.surfaces
        /\ s.uncovered = screen.uncovered
        /\ s.current = NoAttempt /\ ~s.authenticating
    BY <1>0 DEF Whole, Screen, Active
  <2>2. screen' = Dispatch(s) /\ outputs = {}
    BY <1>1 DEF OutputsVanished
  <2> HIDE DEF s
  <2>3. SameButOwed(s, screen')
    BY <2>1, <2>2, DispatchSame DEF Whole
  <2>4. Keeps(screen, screen')
    BY <2>1, <2>2, <2>3, SameIsWhole DEF Keeps, SameButOwed
  <2> QED  BY <1>0, <2>4, KeepsLock
<1>2. CASE LockRequested
  <2> DEFINE s == [screen EXCEPT !.lock = "pending", !.starting = FALSE]
  <2>1. /\ Whole(s) /\ s.lock = "pending" /\ ~s.deferred
        /\ s.current = NoAttempt /\ ~s.authenticating
    BY <1>0 DEF Whole, Screen, Active
  <2>2. screen' \in Syncs(s, outputs)
    BY <1>2 DEF LockRequested
  <2> HIDE DEF s
  <2>3. /\ Whole(screen') /\ screen'.surfaces = outputs \ screen'.uncovered
        /\ screen'.lock = "pending"
        /\ ~screen'.deferred /\ screen'.current = NoAttempt /\ ~screen'.authenticating
    <3>1. s \in Screen /\ outputs \in SUBSET Output
      BY <2>1 DEF Whole, LockInv
    <3>2. Whole(screen')
      BY <2>1, <2>2, <3>1, SyncWhole
    <3>3. screen'.surfaces = outputs \ screen'.uncovered
      BY <2>2, <3>1, SyncCovers
    <3>4. /\ screen'.lock = s.lock /\ screen'.deferred = s.deferred
          /\ screen'.current = s.current /\ screen'.authenticating = s.authenticating
      BY <2>2, <3>1, SyncKeeps
    <3> QED  BY <2>1, <3>2, <3>3, <3>4
  <2> QED  BY <1>0, <2>3 DEF LockInv, HooksTellTheTruth, EveryOutputIsCovered, others,
                             ThreadTyped
<1>3. CASE LockFails
  <2>1. screen' = Reset(screen)
    BY <1>3 DEF LockFails
  <2>2. /\ Whole(screen') /\ screen'.lock = "none" /\ ~screen'.deferred
        /\ screen'.current = NoAttempt /\ ~screen'.authenticating
    BY <1>0, <2>1, ResetWhole
  <2> QED  BY <1>0, <2>2 DEF LockInv, HooksTellTheTruth, EveryOutputIsCovered, Active,
                             others, ThreadTyped
<1> QED  BY <1>1, <1>2, <1>3

LEMMA HandleLock ==
    ASSUME LockInv, HandleLocked \/ HandleFinished
    PROVE  LockInv'
<1>1. CASE HandleLocked
  <2> DEFINE s == [screen EXCEPT !.lock = "locked", !.suspendTimer = TRUE, !.reader = TRUE]
  <2>1. screen.lock = "pending" /\ screen.current = NoAttempt /\ ~screen.authenticating
        /\ ~screen.unlocking /\ ~screen.deferred /\ ~screen.starting
    BY <1>1 DEF LockInv, Whole, HandleLocked, Active
  <2>2. /\ Whole(s) /\ s.lock = "locked" /\ s.surfaces = screen.surfaces
        /\ s.uncovered = screen.uncovered
        /\ ~s.deferred /\ s.current = NoAttempt /\ ~s.authenticating
    BY <2>1 DEF LockInv, Whole, Screen, Active
  <2>3. screen' = Flush(s) /\ told' = TRUE /\ UNCHANGED <<outputs, enabled, thread>>
    BY <1>1 DEF HandleLocked
  <2> HIDE DEF s
  <2>4. SameButOwed(s, screen')
    BY <2>2, <2>3, FlushSame DEF Whole
  <2>5. Whole(screen')
    BY <2>2, <2>4, SameIsWhole
  <2> QED  BY <2>1, <2>2, <2>3, <2>4, <2>5 DEF LockInv, SameButOwed, HooksTellTheTruth,
             EveryOutputIsCovered, Active, ThreadTyped
<1>2. CASE HandleFinished
  <2>1. screen' = [Released(Invalidate(screen)) EXCEPT
                     !.afterLocked = FALSE, !.reader = FALSE, !.starting = FALSE]
    BY <1>2 DEF HandleFinished
  <2>2. told' = FALSE /\ UNCHANGED others
    BY <1>2 DEF HandleFinished, LockInv, HooksTellTheTruth
  <2>3. /\ Whole(screen') /\ screen'.lock = "none" /\ screen'.deferred = screen.deferred
        /\ screen'.current = NoAttempt /\ ~screen'.authenticating
    BY <2>1 DEF LockInv, Whole, Released, Invalidate, Screen, Active
  <2> QED  BY <2>2, <2>3 DEF LockInv, HooksTellTheTruth, EveryOutputIsCovered, Active,
             others, ThreadTyped
<1> QED  BY <1>1, <1>2

LEMMA SurfaceLock ==
    ASSUME LockInv, NEW o \in Output,
           Render(o) \/ ExitComplete(o)
    PROVE  LockInv'
<1>0. UNCHANGED <<others, told>>
    BY DEF Render, ExitComplete
<1>1. CASE Render(o)
  <2> DEFINE s == [screen EXCEPT !.rendered = @ \cup {o}]
  <2>1. /\ Whole(s) /\ s.lock = screen.lock /\ s.surfaces = screen.surfaces
        /\ s.uncovered = screen.uncovered
        /\ s.deferred = screen.deferred /\ s.current = screen.current
        /\ s.authenticating = screen.authenticating
    BY DEF LockInv, Whole, Screen, Active
  <2>2. screen' = Flush(s)
    BY <1>1 DEF Render
  <2> HIDE DEF s
  <2>3. SameButOwed(s, screen')
    BY <2>1, <2>2, FlushSame DEF Whole
  <2>4. Keeps(screen, screen')
    BY <2>1, <2>3, SameIsWhole DEF Keeps, SameButOwed, LockInv
  <2> QED  BY <1>0, <2>4, KeepsLock
<1>2. CASE ExitComplete(o)
  <2> DEFINE s == [screen EXCEPT !.leaving = @ \ {o}]
  <2>1. /\ Whole(s) /\ s.lock = screen.lock /\ s.surfaces = screen.surfaces
        /\ s.uncovered = screen.uncovered
        /\ s.deferred = screen.deferred /\ s.current = screen.current
        /\ s.authenticating = screen.authenticating
    BY DEF LockInv, Whole, Screen, Active
  <2>2. screen' = TryFinish(s)
    BY <1>2 DEF ExitComplete
  <2> HIDE DEF s
  <2>4. Keeps(screen, screen')
    BY <2>1, <2>2, FinishWhole DEF Keeps, LockInv
  <2> QED  BY <1>0, <2>4, KeepsLock
<1> QED  BY <1>1, <1>2

LEMMA OutputLock ==
    ASSUME LockInv, OutputChange
    PROVE  LockInv'
<1>1. PICK there \in SUBSET Output : outputs' = there /\ screen' \in OutputsSeen(screen, there)
    BY DEF OutputChange
<1>2. UNCHANGED <<enabled, thread, fresh, told>>
    BY DEF OutputChange
<1>3. SUFFICES /\ Whole(screen') /\ screen'.lock = screen.lock
               /\ Active(screen) => screen'.surfaces = there \ screen'.uncovered
               /\ screen'.deferred => there = {}
               /\ screen'.current = screen.current
               /\ screen'.authenticating = screen.authenticating
    BY <1>1, <1>2 DEF LockInv, HooksTellTheTruth, EveryOutputIsCovered, Active, ThreadTyped
<1>4. CASE screen.deferred /\ there = {}
    BY <1>1, <1>4 DEF OutputsSeen, LockInv, Whole
<1>5. CASE screen.deferred /\ there # {}
  <2> DEFINE s == [screen EXCEPT !.deferred = FALSE]
  <2>1. /\ Whole(s) /\ s.lock = screen.lock /\ ~s.deferred
        /\ s.current = screen.current /\ s.authenticating = screen.authenticating
    BY DEF LockInv, Whole, Screen, Active
  <2>2. screen' = Lock(s, there)
    BY <1>1, <1>5 DEF OutputsSeen
  <2>3. ~Active(screen)
    BY <1>5 DEF LockInv, Whole
  <2> HIDE DEF s
  <2> QED  BY <2>1, <2>2, <2>3, LockWhole DEF LockInv
<1>6. CASE ~screen.deferred /\ ~Active(screen)
    BY <1>1, <1>6 DEF OutputsSeen, LockInv
<1>7. CASE ~screen.deferred /\ Active(screen) /\ ~screen.unlocking
  <2>1. screen' \in Syncs(screen, there)
    BY <1>1, <1>7 DEF OutputsSeen
  <2>2. Whole(screen) /\ screen \in Screen
    BY DEF LockInv, Whole
  <2>3. Whole(screen')
    BY <2>1, <2>2, SyncWhole
  <2>4. screen'.surfaces = there \ screen'.uncovered
    BY <2>1, <2>2, SyncCovers
  <2>5. /\ screen'.lock = screen.lock /\ screen'.deferred = screen.deferred
        /\ screen'.current = screen.current
        /\ screen'.authenticating = screen.authenticating
    BY <2>1, <2>2, SyncKeeps
  <2> QED  BY <1>7, <2>3, <2>4, <2>5
<1>8. CASE ~screen.deferred /\ Active(screen) /\ screen.unlocking
  <2>1. PICK u \in Syncs(screen, there) :
          \E t \in Leave(u, u.surfaces \ screen.surfaces) : screen' = TryFinish(t)
    BY <1>1, <1>8 DEF OutputsSeen
  <2>2. Whole(screen) /\ screen \in Screen
    BY DEF LockInv, Whole
  <2>3. Whole(u) /\ u.surfaces \ screen.surfaces \in SUBSET Output
    BY <2>2, SyncWhole
  <2>4. u.surfaces = there \ u.uncovered
    <3>1. screen \in Screen /\ u \in Syncs(screen, there)
      BY <2>2
    <3> QED  BY <3>1, SyncCovers
  <2>5. /\ u.lock = screen.lock
        /\ u.unlocking = screen.unlocking /\ u.deferred = screen.deferred
        /\ u.current = screen.current /\ u.authenticating = screen.authenticating
    BY <2>2, SyncKeeps
  <2>6. PICK t \in Leave(u, u.surfaces \ screen.surfaces) : screen' = TryFinish(t)
    BY <2>1
  <2>7. /\ Whole(screen') /\ screen'.surfaces = u.surfaces
        /\ screen'.uncovered = u.uncovered /\ screen'.lock = u.lock
        /\ screen'.deferred = u.deferred /\ screen'.current = u.current
        /\ screen'.authenticating = u.authenticating
    BY <1>8, <2>3, <2>5, <2>6, LeaveWhole
  <2> QED  BY <1>8, <2>4, <2>5, <2>7
<1> QED  BY <1>4, <1>5, <1>6, <1>7, <1>8

LEMMA UnlockingLock ==
    ASSUME LockInv, ConfigChange \/ UnlockSession \/ FingerprintMatches
    PROVE  LockInv'
<1>1. CASE ConfigChange /\ ~(enabled /\ Active(screen))
  <2>1. UNCHANGED <<screen, told, outputs, thread, fresh>> /\ enabled' = ~enabled
    BY <1>1 DEF ConfigChange
  <2> QED  BY <2>1 DEF LockInv, HooksTellTheTruth, EveryOutputIsCovered, ThreadTyped
<1>2. CASE ConfigChange /\ enabled /\ Active(screen)
  <2>1. Unlock(screen) /\ UNCHANGED <<outputs, thread, fresh>> /\ enabled' = ~enabled
    BY <1>2 DEF ConfigChange
  <2>2. ThreadTyped' /\ enabled' \in BOOLEAN
    BY <2>1 DEF LockInv, ThreadTyped
  <2> QED  BY <1>2, <2>1, <2>2, UnlockLock DEF LockInv
<1>3. CASE UnlockSession \/ FingerprintMatches
  <2>1. Unlock(screen) /\ UNCHANGED others /\ Active(screen)
    BY <1>3 DEF UnlockSession, FingerprintMatches, LockInv, Whole, Active
  <2>2. ThreadTyped' /\ enabled' \in BOOLEAN
    BY <2>1 DEF LockInv, ThreadTyped, others
  <2> QED  BY <2>1, <2>2, UnlockLock DEF LockInv, others
<1> QED  BY <1>1, <1>2, <1>3

LEMMA CallsLock ==
    ASSUME LockInv, ExitTimeout \/ RunAction \/ RunFinish
    PROVE  LockInv'
<1>0. UNCHANGED others /\ screen \in Screen
    BY DEF ExitTimeout, RunAction, RunFinish, LockInv, Whole
<1>1. CASE ExitTimeout
  <2> DEFINE s == [screen EXCEPT !.exitTimer = FALSE]
  <2>1. FinishUnlock(s) /\ screen.exitTimer
    BY <1>1 DEF ExitTimeout
  <2>2. /\ s \in Screen /\ ~s.deferred /\ s.current = NoAttempt
        /\ ~s.authenticating /\ ~s.reader /\ ~s.starting /\ s.lock = screen.lock
    BY <2>1 DEF LockInv, Whole, Screen, Active
  <2> HIDE DEF s
  <2> QED  BY <1>0, <2>1, <2>2, FinishLock
<1>2. CASE RunAction
    BY <1>0, <1>2, TailSame, SameLock DEF RunAction
<1>3. CASE RunFinish
  <2> DEFINE s == [screen EXCEPT !.calls = Tail(@)]
  <2>1. SameButOwed(screen, s)
    BY <1>0, <1>3, TailSame DEF RunFinish
  <2>2. CASE s.unlocking
    <3>1. FinishUnlock(s)
      BY <1>3, <2>2 DEF RunFinish
    <3> HIDE DEF s
    <3>2. Whole(s) /\ s.lock = screen.lock
      BY <2>1, SameIsWhole DEF LockInv, SameButOwed
    <3>3. /\ s \in Screen /\ ~s.deferred /\ s.current = NoAttempt
          /\ ~s.authenticating /\ ~s.reader /\ ~s.starting
      BY <2>2, <3>2 DEF Whole, Active
    <3> QED  BY <1>0, <3>1, <3>2, <3>3, FinishLock
  <2>3. CASE ~s.unlocking
    BY <1>0, <1>3, <2>1, <2>3, SameLock DEF RunFinish
  <2> QED  BY <2>2, <2>3
<1> QED  BY <1>1, <1>2, <1>3

LEMMA AttemptLock ==
    ASSUME LockInv, NEW a \in Attempt,
           Authenticate(a) \/ ThreadEnds(a) \/ AuthResult(a)
    PROVE  LockInv'
<1>0. a # NoAttempt
    BY LockScreenAssumption
<1>1. CASE Authenticate(a)
  <2>1. /\ Whole(screen')
        /\ screen'.lock = screen.lock /\ screen'.surfaces = screen.surfaces
        /\ screen'.uncovered = screen.uncovered
        /\ screen'.deferred = screen.deferred /\ screen'.current = a
    BY <1>0, <1>1 DEF Authenticate, LockInv, Whole, Screen, Active
  <2>2. /\ UNCHANGED <<outputs, enabled, told>> /\ fresh' = fresh \cup {a}
        /\ thread' = [thread EXCEPT ![a] = "running"]
    BY <1>1 DEF Authenticate
  <2> QED  BY <2>1, <2>2 DEF LockInv, HooksTellTheTruth, EveryOutputIsCovered, Active,
             ThreadTyped, UnderWay
<1>2. CASE ThreadEnds(a)
  <2>1. UNCHANGED <<screen, outputs, enabled, told, fresh>>
    BY <1>2 DEF ThreadEnds
  <2>2. PICK verdict \in {"passed", "failed"} : thread' = [thread EXCEPT ![a] = verdict]
    BY <1>2 DEF ThreadEnds
  <2> QED  BY <2>1, <2>2 DEF LockInv, HooksTellTheTruth, EveryOutputIsCovered, Active,
             ThreadTyped, UnderWay
<1>3. CASE AuthResult(a)
  <2> DEFINE s == [screen EXCEPT !.authenticating = FALSE]
  <2>1. /\ UNCHANGED <<outputs, enabled, fresh>>
        /\ thread' = [thread EXCEPT ![a] = "done"]
    BY <1>3 DEF AuthResult
  <2>2. ThreadTyped' /\ enabled' \in BOOLEAN
    BY <2>1 DEF LockInv, ThreadTyped
  <2>3. CASE ~Wanted(screen, a)
    <3>1. UNCHANGED <<screen, told>>
      BY <1>3, <2>3 DEF AuthResult
    <3>2. screen.authenticating => screen.current # a /\ screen.current \in Attempt
      BY <2>3 DEF Wanted, LockInv, Whole, Screen
    <3> QED  BY <2>1, <2>2, <3>1, <3>2 DEF LockInv, HooksTellTheTruth,
               EveryOutputIsCovered, Active, ThreadTyped
  <2>4. CASE Wanted(screen, a)
    <3>1. /\ Whole(s) /\ s.lock = screen.lock /\ Active(s) /\ s.surfaces = screen.surfaces
          /\ s.uncovered = screen.uncovered
          /\ s.current = screen.current /\ ~s.authenticating /\ s.deferred = screen.deferred
          /\ ~s.unlocking
      BY <1>0, <2>4 DEF LockInv, Whole, Screen, Active, Wanted
    <3>2. CASE thread[a] = "passed"
      <4>1. Unlock(s)
        BY <1>3, <2>4, <3>2 DEF AuthResult
      <4> HIDE DEF s
      <4> QED  BY <2>1, <2>2, <3>1, <4>1, UnlockLock
    <3>3. CASE thread[a] # "passed"
      <4>1. screen' = [s EXCEPT !.reader = TRUE] /\ UNCHANGED told
        BY <1>3, <2>4, <3>3 DEF AuthResult
      <4>2. /\ Whole(screen') /\ screen'.lock = s.lock /\ screen'.surfaces = s.surfaces
            /\ screen'.uncovered = s.uncovered
            /\ screen'.current = s.current /\ ~screen'.authenticating
            /\ screen'.deferred = s.deferred
        BY <2>4, <3>1, <4>1 DEF Whole, Screen, Active, Wanted
      <4> HIDE DEF s
      <4> QED  BY <2>1, <2>2, <3>1, <4>1, <4>2 DEF LockInv, HooksTellTheTruth,
                 EveryOutputIsCovered, Active
    <3> QED  BY <3>2, <3>3
  <2> QED  BY <2>3, <2>4
<1> QED  BY <1>1, <1>2, <1>3

LEMMA NextLock ==
    ASSUME LockInv, [Next]_vars
    PROVE  LockInv'
<1>1. CASE UNCHANGED vars \/ CompositorLocks \/ CompositorFinishes
  <2>1. UNCHANGED <<screen, others, told>>
    BY <1>1 DEF vars, others, CompositorLocks, CompositorFinishes
  <2> QED  BY <2>1 DEF LockInv, others, HooksTellTheTruth, EveryOutputIsCovered, ThreadTyped
<1>2. CASE RequestLock
    BY <1>2, LockLock DEF RequestLock
<1>3. CASE \E o \in Output : Render(o) \/ ExitComplete(o)
    BY <1>3, SurfaceLock
<1>4. CASE SuspendTimeout
  <2> DEFINE s == [screen EXCEPT !.suspendTimer = FALSE]
  <2>1. SameButOwed(screen, s)
    BY DEF LockInv, Whole, SameButOwed, Screen
  <2>2. screen' = Dispatch(s) /\ UNCHANGED <<others, told>>
    BY <1>4 DEF SuspendTimeout
  <2> HIDE DEF s
  <2>3. SameButOwed(screen, screen')
    BY <2>1, <2>2, DispatchSame DEF SameButOwed
  <2> QED  BY <2>2, <2>3, SameLock
<1>5. CASE \E a \in Attempt : Authenticate(a) \/ ThreadEnds(a) \/ AuthResult(a)
    BY <1>5, AttemptLock
<1> QED  BY <1>1, <1>2, <1>3, <1>4, <1>5, RunAfterLockedLock, BeginLock, HandleLock,
            OutputLock, UnlockingLock, CallsLock DEF Next

-----------------------------------------------------------------------------
(* The action that follows a lock: what is owed for it. *)

Call == {"finish", "action"}

Actions(q) == {i \in DOMAIN q : q[i] = "action"}

One(c) == IF c = "action" THEN 1 ELSE 0

Waiting(s) == IF s.afterLocked THEN 1 ELSE 0

LEMMA ActionsFinite ==
    ASSUME NEW q \in Seq(Call)
    PROVE  IsFiniteSet(Actions(q)) /\ Cardinality(Actions(q)) \in Nat
<1>1. IsFiniteSet(1..Len(q))
    BY FS_Interval
<1>2. Actions(q) \subseteq 1..Len(q)
    BY DEF Actions
<1> QED  BY <1>1, <1>2, FS_Subset, FS_CardinalityType

LEMMA ActionsOfAppend ==
    ASSUME NEW q \in Seq(Call), NEW c \in Call
    PROVE  Cardinality(Actions(Append(q, c))) = Cardinality(Actions(q)) + One(c)
<1> DEFINE n == Len(q) + 1
<1>1. n \notin Actions(q)
    BY DEF Actions
<1>2. CASE c = "action"
  <2>1. Actions(Append(q, c)) = Actions(q) \cup {n}
    BY <1>2 DEF Actions
  <2> QED  BY <1>1, <1>2, <2>1, ActionsFinite, FS_AddElement DEF One
<1>3. CASE c # "action"
  <2>1. Actions(Append(q, c)) = Actions(q)
    BY <1>3 DEF Actions
  <2> QED  BY <1>3, <2>1, ActionsFinite DEF One
<1> QED  BY <1>2, <1>3

\* The calls behind the first one, one place further on.
LEMMA ActionsOfTail ==
    ASSUME NEW q \in Seq(Call), q # <<>>
    PROVE  Cardinality(Actions(Tail(q))) + One(Head(q)) = Cardinality(Actions(q))
<1> DEFINE rest == Actions(q) \ {1}
           f == [i \in Actions(Tail(q)) |-> i + 1]
<1>0. Tail(q) \in Seq(Call)
    OBVIOUS
<1>1. IsFiniteSet(Actions(Tail(q)))
    BY <1>0, ActionsFinite
<1>2. f \in Bijection(Actions(Tail(q)), rest)
  <2>1. \A i \in Actions(Tail(q)) : i \in Nat /\ f[i] \in rest
    BY DEF Actions
  <2>2. \A i, j \in Actions(Tail(q)) : f[i] = f[j] => i = j
    BY <2>1
  <2>3. \A j \in rest : \E i \in Actions(Tail(q)) : f[i] = j
    <3> SUFFICES ASSUME NEW j \in rest
                 PROVE  j - 1 \in Actions(Tail(q)) /\ f[j - 1] = j
      OBVIOUS
    <3>1. j - 1 \in Actions(Tail(q))
      BY DEF Actions
    <3>2. j \in Int
      BY DEF Actions
    <3> QED  BY <3>1, <3>2
  <2> QED  BY <2>1, <2>2, <2>3, Fun_IsBij
<1>3. Cardinality(Actions(Tail(q))) = Cardinality(rest)
    BY <1>1, <1>2, FS_Bijection DEF ExistsBijection
<1>4. IsFiniteSet(rest) /\ Cardinality(rest) \in Nat
    BY ActionsFinite, FS_RemoveElement, FS_CardinalityType
<1>5. CASE Head(q) = "action"
  <2>1. 1 \in Actions(q)
    BY <1>5 DEF Actions
  <2> QED  BY <1>3, <1>4, <1>5, <2>1, ActionsFinite, FS_RemoveElement DEF One
<1>6. CASE Head(q) # "action"
  <2>1. rest = Actions(q)
    BY <1>6 DEF Actions
  <2>2. One(Head(q)) = 0
    BY <1>6 DEF One
  <2> HIDE DEF rest
  <2> QED  BY <1>3, <1>4, <2>1, <2>2
<1> QED  BY <1>5, <1>6

\* What a screen owes, and the steps that change it.
LEMMA OwedIsNat ==
    ASSUME NEW s \in Screen
    PROVE  /\ Owed(s) = Cardinality(Actions(s.calls)) + Waiting(s)
           /\ Cardinality(Actions(s.calls)) \in Nat
           /\ Owed(s) \in Nat
<1>1. Cardinality(Actions(s.calls)) \in Nat
    BY ActionsFinite DEF Screen, Call
<1> QED  BY <1>1 DEF Owed, Actions, Waiting, Screen

\* t owes what s does, or no longer waits for the lock.
LEMMA OwesNoMore ==
    ASSUME NEW s \in Screen, NEW t \in Screen,
           t.calls = s.calls, t.afterLocked => s.afterLocked
    PROVE  Owed(t) <= Owed(s)
<1>1. Waiting(t) <= Waiting(s)
      /\ Waiting(t) \in Nat /\ Waiting(s) \in Nat
    BY DEF Waiting
<1> QED  BY <1>1, OwedIsNat

LEMMA OwesTheSame ==
    ASSUME NEW s \in Screen, NEW t \in Screen,
           t.calls = s.calls, t.afterLocked = s.afterLocked
    PROVE  Owed(t) = Owed(s)
<1>1. Waiting(t) = Waiting(s)
    BY DEF Waiting
<1> QED  BY <1>1, OwedIsNat

LEMMA DispatchOwes ==
    ASSUME NEW s \in Screen
    PROVE  Owed(Dispatch(s)) = Owed(s)
<1>1. CASE s.afterLocked
  <2>1. Dispatch(s) \in Screen
    BY DispatchSame DEF SameButOwed
  <2>2. Dispatch(s).calls = Append(s.calls, "action") /\ Dispatch(s).afterLocked = FALSE
    BY <1>1 DEF Dispatch, Post, Screen
  <2>3. Cardinality(Actions(Dispatch(s).calls)) = Cardinality(Actions(s.calls)) + One("action")
    BY <2>2, ActionsOfAppend DEF Screen, Call
  <2>4. One("action") = 1 /\ Waiting(s) = 1 /\ Waiting(Dispatch(s)) = 0
    BY <1>1, <2>2 DEF One, Waiting
  <2> QED  BY <2>1, <2>3, <2>4, OwedIsNat
<1>2. CASE ~s.afterLocked
    BY <1>2 DEF Dispatch
<1> QED  BY <1>1, <1>2

LEMMA FlushOwes ==
    ASSUME NEW s \in Screen
    PROVE  Owed(Flush(s)) = Owed(s)
BY DispatchOwes DEF Flush

LEMMA FinishOwes ==
    ASSUME NEW s \in Screen
    PROVE  Owed(TryFinish(s)) = Owed(s)
<1>1. CASE s.unlocking /\ ~s.finishQueued /\ s.leaving = {}
  <2>1. Post(s, "finish") \in Screen
    BY PostTyped
  <2>2. /\ TryFinish(s) \in Screen
        /\ TryFinish(s).calls = Append(s.calls, "finish")
        /\ TryFinish(s).afterLocked = s.afterLocked
    BY <1>1, <2>1 DEF TryFinish, Post, Screen
  <2>3. Cardinality(Actions(TryFinish(s).calls)) = Cardinality(Actions(s.calls)) + One("finish")
    BY <2>2, ActionsOfAppend DEF Screen, Call
  <2>4. One("finish") = 0
    BY DEF One
  <2>5. Waiting(TryFinish(s)) = Waiting(s) /\ Waiting(s) \in Nat
    BY <2>2 DEF Waiting
  <2>6. /\ Owed(TryFinish(s)) = Cardinality(Actions(TryFinish(s).calls)) + Waiting(TryFinish(s))
        /\ Owed(s) = Cardinality(Actions(s.calls)) + Waiting(s)
        /\ Cardinality(Actions(s.calls)) \in Nat
    BY <2>2, OwedIsNat
  <2> QED  BY <2>3, <2>4, <2>5, <2>6
<1>2. CASE ~(s.unlocking /\ ~s.finishQueued /\ s.leaving = {})
    BY <1>2 DEF TryFinish
<1> QED  BY <1>1, <1>2

LEMMA TailOwes ==
    ASSUME NEW s \in Screen, s.calls # <<>>
    PROVE  Owed([s EXCEPT !.calls = Tail(@)]) + One(Head(s.calls)) = Owed(s)
<1> DEFINE t == [s EXCEPT !.calls = Tail(@)]
<1> SUFFICES Owed(t) + One(Head(s.calls)) = Owed(s)
    OBVIOUS
<1>1. t \in Screen
    BY TailSame DEF SameButOwed
<1>2. t.calls = Tail(s.calls) /\ t.afterLocked = s.afterLocked
    BY DEF Screen
<1>3. Cardinality(Actions(t.calls)) + One(Head(s.calls)) = Cardinality(Actions(s.calls))
    BY <1>2, ActionsOfTail DEF Screen, Call
<1>4. One(Head(s.calls)) \in Nat /\ Waiting(s) \in Nat /\ Waiting(t) = Waiting(s)
    BY <1>2 DEF One, Waiting
<1> HIDE DEF t
<1> QED  BY <1>1, <1>2, <1>3, <1>4, OwedIsNat

LEMMA LeaveOwes ==
    ASSUME NEW s \in Screen, NEW staying \in SUBSET Output, NEW t \in Leave(s, staying)
    PROVE  /\ t \in Screen
           /\ Owed(TryFinish(t)) = Owed(s) /\ Owed(TryFinish(t)) <= Owed(s)
<1>1. PICK some \in SUBSET staying : t = [s EXCEPT !.leaving = @ \cup some]
    BY DEF Leave
<1>2. t \in Screen /\ t.calls = s.calls /\ t.afterLocked = s.afterLocked
    BY <1>1 DEF Screen
<1>3. Owed(t) = Owed(s)
    BY <1>2, OwesTheSame
<1> QED  BY <1>2, <1>3, FinishOwes, OwedIsNat

LEMMA LockOwes ==
    ASSUME NEW s \in Screen, NEW there
    PROVE  Owed(Lock(s, there)) = Owed(s) /\ Owed(Lock(s, there)) <= Owed(s)
<1> DEFINE d == [s EXCEPT !.deferred = TRUE]
           b == [s EXCEPT !.starting = TRUE]
<1>1. /\ d \in Screen /\ d.calls = s.calls /\ d.afterLocked = s.afterLocked
      /\ b \in Screen /\ b.calls = s.calls /\ b.afterLocked = s.afterLocked
    BY DEF Screen
<1>2. Lock(s, there) \in {s, Dispatch(d), b}
    BY DEF Lock
<1> HIDE DEF d, b
<1>3. Owed(d) = Owed(s) /\ Owed(b) = Owed(s)
    BY <1>1, OwesTheSame
<1>4. Owed(Dispatch(d)) = Owed(d)
    BY <1>1, DispatchOwes
<1>5. Owed(s) \in Nat
    BY OwedIsNat
<1> QED  BY <1>2, <1>3, <1>4, <1>5

LEMMA FinishUnlockOwes ==
    ASSUME NEW s \in Screen, FinishUnlock(s)
    PROVE  Owed(screen') <= Owed(s)
<1>1. screen' \in Screen /\ screen'.calls = s.calls /\ screen'.afterLocked = s.afterLocked
    BY DEF FinishUnlock, Released, Screen
<1> QED  BY <1>1, OwesNoMore

LEMMA UnlockOwes ==
    ASSUME NEW s, Whole(s), Unlock(s)
    PROVE  Owed(screen') <= Owed(s)
<1>1. s \in Screen /\ Abandon(s) \in Screen
    BY AbandonWhole DEF Whole
<1>2. Abandon(s).calls = s.calls /\ ~Abandon(s).afterLocked
    BY <1>1 DEF Abandon, Invalidate, Screen
<1>3. Owed(Abandon(s)) <= Owed(s) /\ Owed(s) \in Nat /\ Owed(Abandon(s)) \in Nat
    BY <1>1, <1>2, OwesNoMore, OwedIsNat
<1>4. CASE s.lock = "pending"
  <2>1. FinishUnlock(Abandon(s))
    BY <1>4 DEF Unlock
  <2>2. screen' \in Screen
    BY <1>1, <2>1, SMTT(30), ZenonT(40) DEF FinishUnlock, Released, Screen
  <2> QED  BY <1>1, <1>3, <2>1, <2>2, FinishUnlockOwes, OwedIsNat
<1>5. CASE s.lock # "pending" /\ s.unlocking
  <2>1. screen' = s
    BY <1>5 DEF Unlock
  <2> QED  BY <1>3, <2>1
<1>6. CASE s.lock # "pending" /\ ~s.unlocking
  <2> DEFINE a == Abandon(s)
             u == [a EXCEPT !.unlocking = TRUE, !.exitTimer = TRUE]
  <2>1. screen' \in Exits(a)
    BY <1>6 DEF Unlock
  <2> HIDE DEF a
  <2>2. PICK t \in Leave(u, a.surfaces) : screen' = TryFinish(t)
    BY <2>1 DEF Exits
  <2>3. a \in Screen
    BY <1>1 DEF a
  <2>4. /\ u \in Screen /\ u.calls = a.calls /\ u.afterLocked = a.afterLocked
        /\ a.surfaces \in SUBSET Output
    BY <2>3 DEF Screen
  <2>5. Owed(u) <= Owed(a)
    BY <2>3, <2>4, OwesNoMore
  <2> HIDE DEF u
  <2>6. t \in Screen /\ Owed(TryFinish(t)) <= Owed(u)
    BY <2>2, <2>4, LeaveOwes
  <2>7. Owed(TryFinish(t)) \in Nat /\ Owed(u) \in Nat /\ Owed(a) \in Nat
    BY <2>3, <2>4, <2>6, FinishOwes, OwedIsNat
  <2>8. Owed(a) <= Owed(s)
    BY <1>3 DEF a
  <2> QED  BY <1>3, <2>2, <2>5, <2>6, <2>7, <2>8
<1> QED  BY <1>4, <1>5, <1>6

OwedInv ==
    /\ count \in [locks : Nat, asked : Nat, run : Nat]
    /\ ActionRunsOnce

LEMMA OwedKeeps ==
    ASSUME OwedInv, screen \in Screen, screen' \in Screen,
           Owed(screen') <= Owed(screen),
           count' \in [locks : Nat, asked : Nat, run : Nat],
           count'.run = count.run, count'.asked >= count.asked
    PROVE  OwedInv'
<1>1. Owed(screen') \in Nat /\ Owed(screen) \in Nat
    BY OwedIsNat
<1>2. count.run \in Nat /\ count.asked \in Nat /\ count'.asked \in Nat
    BY DEF OwedInv
<1>3. Owed(screen)' = Owed(screen')
    BY DEF Owed
<1> QED  BY <1>1, <1>2, <1>3 DEF OwedInv, ActionRunsOnce

LEMMA NextOwed ==
    ASSUME LockInv, LockInv', OwedInv, [Next]_vars
    PROVE  OwedInv'
<1>0. /\ Whole(screen) /\ screen \in Screen /\ screen' \in Screen
      /\ Owed(screen) \in Nat /\ Owed(screen') \in Nat
    BY OwedIsNat DEF LockInv, Whole
<1>c. count \in [locks : Nat, asked : Nat, run : Nat]
    BY DEF OwedInv
<1>k. ASSUME Owed(screen') <= Owed(screen), UNCHANGED count
      PROVE  OwedInv'
    BY <1>0, <1>c, <1>k, OwedKeeps
<1>n. ASSUME screen'.calls = screen.calls, screen'.afterLocked => screen.afterLocked,
             UNCHANGED count
      PROVE  OwedInv'
    BY <1>0, <1>k, <1>n, OwesNoMore
<1>1. CASE UNCHANGED vars \/ CompositorLocks \/ CompositorFinishes
    BY <1>1, <1>n DEF vars, CompositorLocks, CompositorFinishes
<1>2. CASE RequestLock
    BY <1>0, <1>2, <1>k, LockOwes DEF RequestLock
<1>3. CASE RunAfterLocked
  <2> DEFINE s == [screen EXCEPT !.afterLocked = TRUE]
             e == [s EXCEPT !.afterLocked = FALSE]
  <2>1. /\ s \in Screen /\ s.calls = screen.calls
        /\ e \in Screen /\ e.calls = screen.calls /\ ~e.afterLocked
    BY <1>0 DEF Screen
  <2>2. screen' \in {Flush(s), e, Lock(s, outputs)}
    BY <1>3 DEF RunAfterLocked
  <2>3. count' = [count EXCEPT !.asked = @ + 1]
    BY <1>3 DEF RunAfterLocked
  <2> HIDE DEF s, e
  <2>4. Owed(s) <= Owed(screen) + 1
    <3>1. Waiting(s) <= 1 /\ Waiting(s) \in Nat /\ Waiting(screen) \in Nat
      BY DEF Waiting
    <3> QED  BY <1>0, <2>1, <3>1, OwedIsNat
  <2>5. Owed(s) \in Nat
    BY <2>1, OwedIsNat
  <2>6. Owed(e) <= Owed(screen)
    BY <1>0, <2>1, OwesNoMore
  <2>7. Owed(screen') <= Owed(screen) + 1
    BY <1>0, <2>1, <2>2, <2>4, <2>5, <2>6, FlushOwes, LockOwes
  <2>8. Owed(screen)' = Owed(screen')
    BY DEF Owed
  <2>9. /\ count.run \in Nat /\ count.asked \in Nat
        /\ count' \in [locks : Nat, asked : Nat, run : Nat]
        /\ count'.run = count.run /\ count'.asked = count.asked + 1
    BY <1>c, <2>3
  <2> QED  BY <1>0, <2>7, <2>8, <2>9 DEF OwedInv, ActionRunsOnce
<1>4. CASE OutputsVanished
  <2> DEFINE s == [screen EXCEPT !.starting = FALSE, !.deferred = TRUE]
  <2>1. s \in Screen /\ s.calls = screen.calls /\ s.afterLocked = screen.afterLocked
    BY <1>0 DEF Screen
  <2>2. screen' = Dispatch(s) /\ UNCHANGED count
    BY <1>4 DEF OutputsVanished
  <2> HIDE DEF s
  <2> QED  BY <1>0, <1>k, <2>1, <2>2, DispatchOwes, OwesNoMore
<1>5. CASE LockRequested
  <2>1. /\ screen'.calls = screen.calls /\ screen'.afterLocked = screen.afterLocked
        /\ count' = [count EXCEPT !.locks = @ + 1]
    <3> DEFINE s == [screen EXCEPT !.lock = "pending", !.starting = FALSE]
    <3>1. s \in Screen /\ s.calls = screen.calls /\ s.afterLocked = screen.afterLocked
      BY <1>0 DEF Screen
    <3>2. screen' \in Syncs(s, outputs) /\ count' = [count EXCEPT !.locks = @ + 1]
      BY <1>5 DEF LockRequested
    <3> HIDE DEF s
    <3> QED  BY <3>1, <3>2, SyncKeeps
  <2>2. /\ count' \in [locks : Nat, asked : Nat, run : Nat]
        /\ count'.run = count.run /\ count'.asked = count.asked /\ count.asked \in Nat
    BY <1>c, <2>1
  <2> QED  BY <1>0, <2>1, <2>2, OwesNoMore, OwedKeeps
<1>6. CASE LockFails
    BY <1>0, <1>6, <1>n DEF LockFails, Reset, Released, Screen
<1>7. CASE HandleLocked
  <2> DEFINE s == [screen EXCEPT !.lock = "locked", !.suspendTimer = TRUE, !.reader = TRUE]
  <2>1. s \in Screen /\ s.calls = screen.calls /\ s.afterLocked = screen.afterLocked
    BY <1>0 DEF Screen
  <2>2. screen' = Flush(s) /\ UNCHANGED count
    BY <1>7 DEF HandleLocked
  <2> HIDE DEF s
  <2> QED  BY <1>0, <1>k, <2>1, <2>2, FlushOwes, OwesNoMore
<1>8. CASE HandleFinished
    BY <1>0, <1>8, <1>n DEF HandleFinished, Released, Invalidate, Screen
<1>9. ASSUME NEW o \in Output, Render(o) \/ ExitComplete(o)
      PROVE  OwedInv'
  <2> DEFINE s == [screen EXCEPT !.rendered = @ \cup {o}]
             t == [screen EXCEPT !.leaving = @ \ {o}]
  <2>1. /\ s \in Screen /\ s.calls = screen.calls /\ s.afterLocked = screen.afterLocked
        /\ t \in Screen /\ t.calls = screen.calls /\ t.afterLocked = screen.afterLocked
    BY <1>0 DEF Screen
  <2>2. screen' \in {Flush(s), TryFinish(t)} /\ UNCHANGED count
    BY <1>9 DEF Render, ExitComplete
  <2> HIDE DEF s, t
  <2> QED  BY <1>0, <1>k, <2>1, <2>2, FlushOwes, FinishOwes, OwesNoMore
<1>10. CASE SuspendTimeout
  <2> DEFINE s == [screen EXCEPT !.suspendTimer = FALSE]
  <2>1. s \in Screen /\ s.calls = screen.calls /\ s.afterLocked = screen.afterLocked
    BY <1>0 DEF Screen
  <2>2. screen' = Dispatch(s) /\ UNCHANGED count
    BY <1>10 DEF SuspendTimeout
  <2> HIDE DEF s
  <2> QED  BY <1>0, <1>k, <2>1, <2>2, DispatchOwes, OwesNoMore
<1>11. CASE ExitTimeout
  <2> DEFINE s == [screen EXCEPT !.exitTimer = FALSE]
  <2>1. s \in Screen /\ s.calls = screen.calls /\ s.afterLocked = screen.afterLocked
    BY <1>0 DEF Screen
  <2>2. FinishUnlock(s) /\ UNCHANGED count
    BY <1>11 DEF ExitTimeout
  <2> HIDE DEF s
  <2>3. Owed(s) <= Owed(screen) /\ Owed(s) \in Nat
    BY <1>0, <2>1, OwesNoMore, OwedIsNat
  <2> QED  BY <1>0, <1>k, <2>1, <2>2, <2>3, FinishUnlockOwes
<1>12. CASE OutputChange
  <2>1. PICK there \in SUBSET Output : screen' \in OutputsSeen(screen, there)
    BY <1>12 DEF OutputChange
  <2>2. UNCHANGED count
    BY <1>12 DEF OutputChange
  <2> DEFINE d == [screen EXCEPT !.deferred = FALSE]
  <2>3. d \in Screen /\ d.calls = screen.calls /\ d.afterLocked = screen.afterLocked
    BY <1>0 DEF Screen
  <2>4. Owed(d) <= Owed(screen) /\ Owed(d) \in Nat
    BY <1>0, <2>3, OwesNoMore, OwedIsNat
  <2>5. CASE screen' \in {screen, Lock(d, there)}
    <3> HIDE DEF d
    <3> QED  BY <1>0, <1>k, <2>2, <2>3, <2>4, <2>5, LockOwes
  <2>6. ASSUME NEW y \in Syncs(screen, there),
               \/ screen' = y
               \/ \E t \in Leave(y, y.surfaces \ screen.surfaces) : screen' = TryFinish(t)
        PROVE  OwedInv'
    <3>1. /\ y \in Screen /\ y.calls = screen.calls /\ y.afterLocked = screen.afterLocked
          /\ y.surfaces \in SUBSET Output
      <4>1. screen \in Screen
        BY <1>0
      <4> QED  BY <4>1, SyncTyped, SyncKeeps
    <3> y.surfaces \ screen.surfaces \in SUBSET Output
      BY <3>1
    <3>2. Owed(y) <= Owed(screen) /\ Owed(y) \in Nat
      BY <1>0, <3>1, OwesNoMore, OwedIsNat
    <3>3. CASE \E t \in Leave(y, y.surfaces \ screen.surfaces) : screen' = TryFinish(t)
      <4>1. Owed(screen') <= Owed(y)
        BY <3>1, <3>3, LeaveOwes
      <4> QED  BY <1>0, <1>k, <2>2, <3>2, <4>1
    <3> QED  BY <1>0, <1>k, <2>2, <2>6, <3>2, <3>3
  <2> QED  BY <2>1, <2>5, <2>6 DEF OutputsSeen
<1>13. CASE ConfigChange \/ UnlockSession \/ FingerprintMatches
    BY <1>0, <1>13, <1>k, <1>n, UnlockOwes DEF ConfigChange, UnlockSession,
       FingerprintMatches, others
<1>14. CASE RunAction
  <2>1. /\ screen.calls # <<>> /\ Head(screen.calls) = "action"
        /\ screen' = [screen EXCEPT !.calls = Tail(@)]
        /\ count' = [count EXCEPT !.run = @ + 1]
    BY <1>14 DEF RunAction
  <2>2. Owed(screen') + 1 = Owed(screen)
    <3>1. One(Head(screen.calls)) = 1
      BY <2>1 DEF One
    <3> QED  BY <1>0, <2>1, <3>1, TailOwes
  <2>3. Owed(screen)' = Owed(screen')
    BY DEF Owed
  <2>4. /\ count.run \in Nat /\ count.asked \in Nat
        /\ count' \in [locks : Nat, asked : Nat, run : Nat]
        /\ count'.run = count.run + 1 /\ count'.asked = count.asked
    BY <1>c, <2>1
  <2> QED  BY <1>0, <2>2, <2>3, <2>4 DEF OwedInv, ActionRunsOnce
<1>15. CASE RunFinish
  <2> DEFINE s == [screen EXCEPT !.calls = Tail(@)]
  <2>1. s \in Screen
    BY <1>0, <1>15, TailSame DEF RunFinish, SameButOwed
  <2>2. Owed(s) <= Owed(screen) /\ Owed(s) \in Nat
    <3>1. One(Head(screen.calls)) = 0
      BY <1>15 DEF RunFinish, One
    <3> QED  BY <1>0, <1>15, <2>1, <3>1, TailOwes, OwedIsNat DEF RunFinish
  <2>3. (FinishUnlock(s) \/ screen' = s) /\ UNCHANGED count
    BY <1>15 DEF RunFinish
  <2> HIDE DEF s
  <2> QED  BY <1>0, <1>k, <2>1, <2>2, <2>3, FinishUnlockOwes
<1>16. ASSUME NEW a \in Attempt, Authenticate(a) \/ ThreadEnds(a) \/ AuthResult(a)
       PROVE  OwedInv'
  <2>1. CASE Authenticate(a) \/ ThreadEnds(a)
      BY <1>0, <2>1, <1>n DEF Authenticate, ThreadEnds, Screen
  <2>2. CASE AuthResult(a)
    <3> DEFINE s == [screen EXCEPT !.authenticating = FALSE]
               r == [s EXCEPT !.reader = TRUE]
    <3>1. /\ s \in Screen /\ s.calls = screen.calls /\ s.afterLocked = screen.afterLocked
          /\ r \in Screen /\ r.calls = screen.calls /\ r.afterLocked = screen.afterLocked
      BY <1>0 DEF Screen
    <3>2. (screen' = screen \/ Unlock(s) \/ screen' = r) /\ UNCHANGED count
      BY <2>2 DEF AuthResult
    <3>3. Whole(s)
      BY <1>0 DEF Whole, Screen, Active
    <3> HIDE DEF s, r
    <3>4. Owed(s) <= Owed(screen) /\ Owed(r) <= Owed(screen) /\ Owed(s) \in Nat
      BY <1>0, <3>1, OwesNoMore, OwedIsNat
    <3> QED  BY <1>0, <1>k, <3>1, <3>2, <3>3, <3>4, UnlockOwes
  <2> QED  BY <1>16, <2>1, <2>2
<1> QED  BY <1>1, <1>2, <1>3, <1>4, <1>5, <1>6, <1>7, <1>8, <1>9, <1>10, <1>11, <1>12,
            <1>13, <1>14, <1>15, <1>16 DEF Next

-----------------------------------------------------------------------------
(* An action that has been asked for keeps to its lock. *)

\* From s to t, "done" more actions having run, nobody is left waiting for a
\* lock that is not on its way, and what was owed is owed or done, but for what
\* goes with the lock.
Carries(s, t, done) ==
    /\ Stranded(t) => Stranded(s) \/ s.unlocking
    /\ Owed(t) + done < Owed(s) => ~Active(t) \/ t.unlocking

\* A step that leaves the lock, or is on its way to one.
LEMMA KeepsAll ==
    ASSUME NEW s \in Screen, NEW t \in Screen,
           t.lock = s.lock, s.starting => t.starting, t.afterLocked => s.afterLocked,
           Owed(t) = Owed(s)
    PROVE  Carries(s, t, 0)
<1>1. Owed(s) \in Nat /\ Owed(t) \in Nat
    BY OwedIsNat
<1> QED  BY <1>1 DEF Carries, Stranded, Active

\* A step that gives the action up with the lock.
LEMMA KeepsNone ==
    ASSUME NEW s, NEW t, ~t.afterLocked, ~Active(t) \/ t.unlocking
    PROVE  Carries(s, t, 0)
BY DEF Carries, Stranded

LEMMA DispatchWaits ==
    ASSUME NEW s \in Screen
    PROVE  /\ ~Dispatch(s).afterLocked
           /\ Flush(s).afterLocked => s.afterLocked
           /\ TryFinish(s).afterLocked = s.afterLocked
<1>1. ~Dispatch(s).afterLocked
    BY PostTyped DEF Dispatch, Post, Screen
<1>2. TryFinish(s).afterLocked = s.afterLocked
    BY PostTyped DEF TryFinish, Post, Screen
<1> QED  BY <1>1, <1>2 DEF Flush

LEMMA LockWaits ==
    ASSUME NEW s \in Screen, NEW there
    PROVE  /\ Lock(s, there).afterLocked => s.afterLocked
           /\ Lock(s, there).afterLocked
                => Lock(s, there).starting \/ Active(s) \/ ~enabled
<1> DEFINE d == [s EXCEPT !.deferred = TRUE]
           b == [s EXCEPT !.starting = TRUE]
<1>1. d \in Screen /\ b.afterLocked = s.afterLocked /\ b.starting
    BY DEF Screen
<1>2. \/ Lock(s, there) = s /\ (~enabled \/ Active(s) \/ s.starting)
      \/ Lock(s, there) = Dispatch(d)
      \/ Lock(s, there) = b
    BY DEF Lock
<1> HIDE DEF d, b
<1> QED  BY <1>1, <1>2, DispatchWaits

LEMMA ReleasedWaits ==
    ASSUME NEW s \in Screen
    PROVE  /\ Released(s) \in Screen /\ ~Active(Released(s))
           /\ Released(s).afterLocked = s.afterLocked
BY DEF Released, Screen, Active

LEMMA UnlockWaits ==
    ASSUME NEW s, Whole(s), Unlock(s)
    PROVE  \/ screen' = s
           \/ ~screen'.afterLocked /\ (~Active(screen') \/ screen'.unlocking)
<1>1. Abandon(s) \in Screen /\ ~Abandon(s).afterLocked /\ Abandon(s).surfaces \in SUBSET Output
  <2>1. Abandon(s) \in Screen
    BY AbandonWhole DEF Whole
  <2>2. ~Abandon(s).afterLocked
    BY <2>1 DEF Abandon, Invalidate, Whole, Screen
  <2> QED  BY <2>1, <2>2 DEF Screen
<1> DEFINE a == Abandon(s)
           u == [a EXCEPT !.unlocking = TRUE, !.exitTimer = TRUE]
<1>2. CASE s.lock = "pending"
  <2>1. screen' = Released(a)
    BY <1>2 DEF Unlock, FinishUnlock
  <2> HIDE DEF a
  <2>2. a \in Screen /\ ~a.afterLocked
    BY <1>1 DEF a
  <2> QED  BY <2>1, <2>2, ReleasedWaits
<1>3. CASE s.lock # "pending" /\ s.unlocking
    BY <1>3 DEF Unlock
<1>4. CASE s.lock # "pending" /\ ~s.unlocking
  <2>1. screen' \in Exits(a)
    BY <1>4 DEF Unlock
  <2> HIDE DEF a
  <2>2. PICK some \in SUBSET a.surfaces : screen' = TryFinish([u EXCEPT !.leaving = @ \cup some])
    BY <2>1 DEF Exits, Leave
  <2> DEFINE t == [u EXCEPT !.leaving = @ \cup some]
  <2>3. a \in Screen /\ ~a.afterLocked /\ a.surfaces \in SUBSET Output
    BY <1>1 DEF a
  <2>4. t \in Screen /\ ~t.afterLocked /\ t.unlocking
    BY <2>3 DEF Screen
  <2>5. screen' = TryFinish(t)
    BY <2>2
  <2> HIDE DEF t
  <2>6. TryFinish(t).unlocking
    BY <2>4, PostTyped DEF TryFinish, Post, Screen
  <2> QED  BY <2>4, <2>5, <2>6, DispatchWaits
<1> QED  BY <1>2, <1>3, <1>4

-----------------------------------------------------------------------------
(* How the lock moves. *)

\* What the compositor has, or has told, is about a lock that is active.
AnswersALock ==
    compositor.lock # "free" \/ compositor.events # <<>> => Active(screen)

LEMMA FlushMoves ==
    ASSUME NEW s \in Screen
    PROVE  /\ Dispatch(s).lock = s.lock /\ Dispatch(s).starting = s.starting
           /\ Flush(s).lock = s.lock /\ Flush(s).starting = s.starting
           /\ TryFinish(s).lock = s.lock /\ TryFinish(s).starting = s.starting
<1>1. Post(s, "finish") \in Screen
    BY PostTyped
<1>2. TryFinish(s).lock = s.lock /\ TryFinish(s).starting = s.starting
    BY <1>1 DEF TryFinish, Post, Screen
<1> QED  BY <1>2, DispatchSame, FlushSame DEF SameButOwed

LEMMA LockMoves ==
    ASSUME NEW s \in Screen, NEW there
    PROVE  /\ Lock(s, there).lock = s.lock
           /\ s.starting => Lock(s, there).starting
<1> DEFINE d == [s EXCEPT !.deferred = TRUE]
           b == [s EXCEPT !.starting = TRUE]
<1>1. d \in Screen /\ d.lock = s.lock /\ d.starting = s.starting
      /\ b.lock = s.lock /\ b.starting
    BY DEF Screen
<1>2. Lock(s, there) \in {s, Dispatch(d), b}
    BY DEF Lock
<1> HIDE DEF d, b
<1> QED  BY <1>1, <1>2, FlushMoves

\* Steps that leave the lock, and a lock that is about to be asked for.
LEMMA LockStays ==
    ASSUME LockInv,
           \/ RequestLock \/ RunAfterLocked \/ OutputChange
           \/ CompositorLocks \/ CompositorFinishes
           \/ \E o \in Output : Render(o) \/ ExitComplete(o)
           \/ SuspendTimeout \/ RunAction
           \/ \E a \in Attempt : Authenticate(a) \/ ThreadEnds(a)
    PROVE  /\ screen'.lock = screen.lock /\ told' = told
           /\ screen.starting => screen'.starting
           /\ compositor' # Free => compositor.lock # "free" \/ compositor' = compositor
<1>0. Whole(screen) /\ screen \in Screen
    BY DEF LockInv, Whole
<1>c. /\ told' = told
      /\ compositor' # Free => compositor.lock # "free" \/ compositor' = compositor
    BY DEF RequestLock, RunAfterLocked, OutputChange, CompositorLocks, CompositorFinishes,
           Render, ExitComplete, SuspendTimeout, RunAction, Authenticate, ThreadEnds
<1> SUFFICES /\ screen'.lock = screen.lock
             /\ screen.starting => screen'.starting
    BY <1>c
<1>1. CASE RequestLock
    BY <1>0, <1>1, LockMoves DEF RequestLock
<1>2. CASE RunAfterLocked
  <2> DEFINE s == [screen EXCEPT !.afterLocked = TRUE]
             e == [s EXCEPT !.afterLocked = FALSE]
  <2>1. /\ s \in Screen /\ s.lock = screen.lock /\ s.starting = screen.starting
        /\ e.lock = screen.lock /\ e.starting = screen.starting
    BY <1>0 DEF Screen
  <2>2. screen' \in {Flush(s), e, Lock(s, outputs)}
    BY <1>2 DEF RunAfterLocked
  <2> HIDE DEF s, e
  <2> QED  BY <2>1, <2>2, FlushMoves, LockMoves
<1>3. CASE OutputChange
  <2>1. PICK there \in SUBSET Output : screen' \in OutputsSeen(screen, there)
    BY <1>3 DEF OutputChange
  <2> DEFINE d == [screen EXCEPT !.deferred = FALSE]
  <2>2. d \in Screen /\ d.lock = screen.lock /\ d.starting = screen.starting
    BY <1>0 DEF Screen
  <2>3. CASE screen' \in {screen, Lock(d, there)}
    <3> HIDE DEF d
    <3> QED  BY <2>2, <2>3, LockMoves
  <2>4. ASSUME NEW y \in Syncs(screen, there),
               \/ screen' = y
               \/ \E t \in Leave(y, y.surfaces \ screen.surfaces) : screen' = TryFinish(t)
        PROVE  screen'.lock = screen.lock /\ screen'.starting = screen.starting
    <3>1. /\ y \in Screen /\ y.lock = screen.lock /\ y.starting = screen.starting
          /\ y.surfaces \in SUBSET Output
      BY <1>0, SyncTyped, SyncKeeps
    <3> y.surfaces \ screen.surfaces \in SUBSET Output
      BY <3>1
    <3>2. ASSUME NEW t \in Leave(y, y.surfaces \ screen.surfaces), screen' = TryFinish(t)
          PROVE  screen'.lock = screen.lock /\ screen'.starting = screen.starting
      <4>1. PICK some \in SUBSET (y.surfaces \ screen.surfaces) :
              t = [y EXCEPT !.leaving = @ \cup some]
        BY <3>2 DEF Leave
      <4>2. t \in Screen /\ t.lock = y.lock /\ t.starting = y.starting
        BY <3>1, <4>1 DEF Screen
      <4> QED  BY <3>1, <3>2, <4>2, FlushMoves
    <3> QED  BY <2>4, <3>1, <3>2
  <2> QED  BY <2>1, <2>3, <2>4 DEF OutputsSeen
<1>4. CASE CompositorLocks \/ CompositorFinishes
    BY <1>4 DEF CompositorLocks, CompositorFinishes
<1>5. ASSUME NEW o \in Output, Render(o) \/ ExitComplete(o)
      PROVE  screen'.lock = screen.lock /\ (screen.starting => screen'.starting)
  <2> DEFINE s == [screen EXCEPT !.rendered = @ \cup {o}]
             t == [screen EXCEPT !.leaving = @ \ {o}]
  <2>1. /\ s \in Screen /\ s.lock = screen.lock /\ s.starting = screen.starting
        /\ t \in Screen /\ t.lock = screen.lock /\ t.starting = screen.starting
    BY <1>0 DEF Screen
  <2>2. screen' \in {Flush(s), TryFinish(t)}
    BY <1>5 DEF Render, ExitComplete
  <2> HIDE DEF s, t
  <2> QED  BY <2>1, <2>2, FlushMoves
<1>6. CASE SuspendTimeout
    BY <1>6 DEF SuspendTimeout, Dispatch, Post, Screen, LockInv, Whole
<1>7. CASE RunAction
    BY <1>0, <1>7, TailSame DEF RunAction, SameButOwed
<1>8. CASE \E a \in Attempt : Authenticate(a) \/ ThreadEnds(a)
    BY <1>0, <1>8 DEF Authenticate, ThreadEnds, Screen
<1> QED  BY <1>1, <1>2, <1>3, <1>4, <1>5, <1>6, <1>7, <1>8

LEMMA UnlockMoves ==
    ASSUME NEW s, Whole(s), Active(s), Unlock(s)
    PROVE  \/ /\ screen'.lock = s.lock /\ s.lock = "locked"
              /\ UNCHANGED <<compositor, told>>
           \/ screen'.lock = "none" /\ compositor' = Free
<1>1. CASE s.lock = "pending"
  <2>1. screen' = Released(Abandon(s)) /\ compositor' = Free
    BY <1>1 DEF Unlock, FinishUnlock, GiveBack
  <2>2. Abandon(s) \in Screen
    BY AbandonWhole DEF Whole
  <2> QED  BY <2>1, <2>2 DEF Released, Screen
<1>2. CASE s.lock = "locked" /\ s.unlocking
    BY <1>2 DEF Unlock
<1>3. CASE s.lock = "locked" /\ ~s.unlocking
  <2>1. screen' \in Exits(Abandon(s)) /\ UNCHANGED <<compositor, told>>
    BY <1>3 DEF Unlock
  <2> QED  BY <1>3, <2>1, AbandonWhole, ExitsWhole
<1> QED  BY <1>1, <1>2, <1>3 DEF Whole, Screen, Active

\* Steps that may end the lock.
LEMMA LockMayEnd ==
    ASSUME LockInv,
           \/ ExitTimeout \/ ConfigChange \/ UnlockSession \/ RunFinish
           \/ FingerprintMatches
           \/ \E a \in Attempt : AuthResult(a)
    PROVE  /\ \/ screen'.lock = screen.lock /\ UNCHANGED <<compositor, told>>
              \/ /\ screen'.lock = "none" /\ compositor' = Free
                 /\ Active(screen)
           /\ ~screen.starting
<1>0. Whole(screen) /\ screen \in Screen
    BY DEF LockInv, Whole
<1>1. ~screen.starting
    BY <1>0 DEF ExitTimeout, ConfigChange, UnlockSession, RunFinish, FingerprintMatches,
       AuthResult, Whole, Active
<1> SUFFICES \/ screen'.lock = screen.lock /\ UNCHANGED <<compositor, told>>
             \/ screen'.lock = "none" /\ compositor' = Free /\ Active(screen)
    BY <1>1
<1>2. CASE ExitTimeout
    BY <1>0, <1>2 DEF ExitTimeout, FinishUnlock, GiveBack, Released, Whole, Screen, Active
<1>3. CASE ConfigChange \/ UnlockSession \/ FingerprintMatches
  <2>1. CASE ConfigChange /\ ~(enabled /\ Active(screen))
    BY <2>1 DEF ConfigChange
  <2>2. CASE ~(ConfigChange /\ ~(enabled /\ Active(screen)))
    <3>1. Unlock(screen) /\ Active(screen)
      BY <1>0, <1>3, <2>2 DEF ConfigChange, UnlockSession, FingerprintMatches, Whole, Active
    <3> QED  BY <1>0, <3>1, UnlockMoves
  <2> QED  BY <2>1, <2>2
<1>4. CASE RunFinish
  <2> DEFINE s == [screen EXCEPT !.calls = Tail(@)]
  <2>1. s \in Screen /\ s.lock = screen.lock /\ s.unlocking = screen.unlocking
    BY <1>0, <1>4, TailSame DEF RunFinish, SameButOwed
  <2>2. \/ s.unlocking /\ screen' = Released(s) /\ compositor' = Free
        \/ screen' = s /\ UNCHANGED <<compositor, told>>
    BY <1>4 DEF RunFinish, FinishUnlock, GiveBack
  <2> HIDE DEF s
  <2> QED  BY <1>0, <2>1, <2>2 DEF Released, Screen, Whole, Active
<1>5. ASSUME NEW a \in Attempt, AuthResult(a)
      PROVE  \/ screen'.lock = screen.lock /\ UNCHANGED <<compositor, told>>
             \/ screen'.lock = "none" /\ compositor' = Free /\ Active(screen)
  <2> DEFINE s == [screen EXCEPT !.authenticating = FALSE]
             r == [s EXCEPT !.reader = TRUE]
  <2>1. /\ Whole(s) /\ s.lock = screen.lock /\ r.lock = screen.lock
    BY <1>0 DEF Whole, Screen, Active
  <2>2. \/ screen' \in {screen, r} /\ UNCHANGED <<compositor, told>>
        \/ Unlock(s) /\ screen.lock = "locked"
    BY <1>5 DEF AuthResult, Wanted
  <2> HIDE DEF s, r
  <2>3. CASE Unlock(s) /\ screen.lock = "locked"
    BY <2>1, <2>3, UnlockMoves DEF Active
  <2> QED  BY <2>1, <2>2, <2>3
<1> QED  BY <1>2, <1>3, <1>4, <1>5

\* Of the steps of a lock that is begun, answered or lost.
LEMMA LockBegins ==
    ASSUME LockInv, AnswersALock,
           OutputsVanished \/ LockRequested \/ LockFails \/ HandleLocked \/ HandleFinished
    PROVE  /\ OutputsVanished \/ LockFails => ~Active(screen') /\ UNCHANGED compositor
           /\ OutputsVanished \/ LockFails \/ LockRequested => ~Active(screen)
           /\ LockRequested => screen'.lock = "pending"
           /\ HandleLocked => screen'.lock = "locked" /\ ~screen.starting
           /\ HandleFinished => ~screen.starting /\ compositor' = Free
<1>0. Whole(screen) /\ screen \in Screen
    BY DEF LockInv, Whole
<1>1. OutputsVanished \/ LockFails \/ LockRequested => ~Active(screen)
    BY <1>0 DEF Whole, OutputsVanished, LockFails, LockRequested
<1>2. HandleLocked \/ HandleFinished => ~screen.starting
    BY <1>0 DEF Whole, HandleLocked, HandleFinished, AnswersALock
<1>3. LockRequested => screen'.lock = "pending"
  <2> SUFFICES ASSUME LockRequested PROVE screen'.lock = "pending"
    OBVIOUS
  <2> DEFINE s == [screen EXCEPT !.lock = "pending", !.starting = FALSE]
  <2>1. s \in Screen /\ s.lock = "pending"
    BY <1>0 DEF Screen
  <2>2. screen' \in Syncs(s, outputs)
    BY DEF LockRequested
  <2> HIDE DEF s
  <2> QED  BY <2>1, <2>2, SyncKeeps
<1>4. HandleFinished => compositor' = Free
    BY DEF HandleFinished, GiveBack
<1>5. LockFails => ~Active(screen') /\ UNCHANGED compositor
    BY <1>0 DEF LockFails, Reset, Released, Screen, Active
<1>6. ASSUME OutputsVanished
      PROVE  ~Active(screen') /\ UNCHANGED compositor
  <2> DEFINE s == [screen EXCEPT !.starting = FALSE, !.deferred = TRUE]
  <2>1. s \in Screen /\ s.lock = screen.lock
    BY <1>0 DEF Screen
  <2>2. screen' = Dispatch(s) /\ UNCHANGED compositor
    BY <1>6 DEF OutputsVanished
  <2> HIDE DEF s
  <2> QED  BY <1>1, <1>6, <2>1, <2>2, FlushMoves DEF Active
<1>7. ASSUME HandleLocked
      PROVE  screen'.lock = "locked"
  <2> DEFINE s == [screen EXCEPT !.lock = "locked", !.suspendTimer = TRUE, !.reader = TRUE]
  <2>1. s \in Screen /\ s.lock = "locked"
    BY <1>0 DEF Screen
  <2>2. screen' = Flush(s)
    BY <1>7 DEF HandleLocked
  <2> HIDE DEF s
  <2> QED  BY <2>1, <2>2, FlushMoves
<1> QED  BY <1>1, <1>2, <1>3, <1>4, <1>5, <1>6, <1>7

LEMMA NextAnswers ==
    ASSUME LockInv, AnswersALock, [Next]_vars
    PROVE  AnswersALock'
<1>1. CASE UNCHANGED vars
    BY <1>1 DEF vars, AnswersALock, Active
<1>2. CASE \/ OutputsVanished \/ LockRequested \/ LockFails \/ HandleLocked \/ HandleFinished
    BY <1>2, LockBegins DEF AnswersALock, Active, Free
<1>3. CASE \/ ExitTimeout \/ ConfigChange \/ UnlockSession \/ RunFinish
           \/ FingerprintMatches
           \/ \E a \in Attempt : AuthResult(a)
    BY <1>3, LockMayEnd DEF AnswersALock, Active, Free
<1>4. CASE \/ RequestLock \/ RunAfterLocked \/ OutputChange
           \/ CompositorLocks \/ CompositorFinishes
           \/ \E o \in Output : Render(o) \/ ExitComplete(o)
           \/ SuspendTimeout \/ RunAction
           \/ \E a \in Attempt : Authenticate(a) \/ ThreadEnds(a)
    BY <1>4, LockStays DEF AnswersALock, Active, Free
<1> QED  BY <1>1, <1>2, <1>3, <1>4 DEF Next

-----------------------------------------------------------------------------
(* The reader. *)

\* A reader in state a, while fprintd waits for a finger or not, is not
\* forgotten.
Served(a, waiting) ==
    a.active /\ ~a.sleeping /\ ~a.abort =>
        a.claiming \/ a.starts # <<>> \/ waiting \/ a.timer # "off" \/ a.gaveUp

LEMMA StartVerifyServes ==
    ASSUME NEW a \in Authenticator, NEW isRetry \in BOOLEAN,
           NEW t \in StartVerify(a, isRetry)
    PROVE  /\ t \in Authenticator
           /\ t.active = a.active /\ t.sleeping = a.sleeping
           /\ \A waiting \in BOOLEAN : Served(t, waiting)
<1>1. CASE ~a.active \/ a.sleeping \/ a.abort
    BY <1>1 DEF StartVerify, Served
<1>2. CASE a.active /\ ~a.sleeping /\ ~a.abort /\ ~a.proxy
    BY <1>2, SMTT(30), ZenonT(40) DEF StartVerify, Claimed, Served, Authenticator
<1>3. CASE a.active /\ ~a.sleeping /\ ~a.abort /\ a.proxy /\ a.claiming
    BY <1>3 DEF StartVerify, Served
<1>4. CASE a.active /\ ~a.sleeping /\ ~a.abort /\ a.proxy /\ ~a.claiming
  <2>1. t = [a EXCEPT !.starts = Append(@, isRetry), !.gaveUp = FALSE]
    BY <1>4 DEF StartVerify
  <2>2. a.starts \in Seq(BOOLEAN)
    BY DEF Authenticator
  <2>3. Append(a.starts, isRetry) \in Seq(BOOLEAN) /\ Append(a.starts, isRetry) # <<>>
    BY <2>2
  <2> QED  BY <2>1, <2>3 DEF Served, Authenticator
<1> QED  BY <1>1, <1>2, <1>3, <1>4

LEMMA StoppedTyped ==
    ASSUME NEW sleeping \in BOOLEAN
    PROVE  Stopped(sleeping) \in Authenticator /\ ~Stopped(sleeping).active
<1>1. <<>> \in Seq(BOOLEAN)
    OBVIOUS
<1>2. 0 \in 0..MaxRetries
    BY ReaderAssumption
<1> QED  BY <1>1, <1>2 DEF Stopped, Authenticator

ReaderInv == ReaderTypeOK /\ ReaderIsNotForgotten

LEMMA ServedInv ==
    ASSUME auth' \in Authenticator, verifying' \in BOOLEAN, Served(auth', verifying')
    PROVE  ReaderInv'
BY DEF ReaderInv, ReaderTypeOK, ReaderIsNotForgotten, Served

LEMMA SwitchServes ==
    ASSUME ReaderInv, NEW on \in BOOLEAN, Switch(on)
    PROVE  ReaderInv' /\ auth'.active = on
<1>1. auth \in Authenticator /\ verifying \in BOOLEAN /\ auth.sleeping \in BOOLEAN
      /\ auth.active \in BOOLEAN
    BY DEF ReaderInv, ReaderTypeOK, Authenticator
<1>2. verifying' \in BOOLEAN
    BY <1>1 DEF Switch
<1>3. CASE ~on
  <2>1. auth' = Stopped(auth.sleeping)
    BY <1>3 DEF Switch
  <2>2. auth' \in Authenticator /\ ~auth'.active
    BY <1>1, <2>1, StoppedTyped
  <2>3. ReaderInv'
    BY <1>2, <2>2, ServedInv DEF Served
  <2>4. auth'.active = FALSE /\ on = FALSE
    BY <1>3, <2>2 DEF Authenticator
  <2> QED  BY <2>3, <2>4
<1>4. CASE on /\ auth.active
  <2>1. auth' = auth /\ verifying' = verifying
    BY <1>1, <1>4 DEF Switch, Start
  <2> QED  BY <1>1, <1>4, <2>1 DEF ReaderInv, ReaderTypeOK, ReaderIsNotForgotten
<1>5. CASE on /\ ~auth.active
  <2> DEFINE a == [Stopped(auth.sleeping) EXCEPT !.active = TRUE]
  <2>1. auth' \in StartVerify(a, FALSE)
    BY <1>5 DEF Switch, Start
  <2>2. a \in Authenticator /\ a.active
    BY <1>1, StoppedTyped, SMTT(30), ZenonT(40) DEF Authenticator
  <2> HIDE DEF a
  <2> QED  BY <1>2, <1>5, <2>1, <2>2, StartVerifyServes, ServedInv
<1> QED  BY <1>3, <1>4, <1>5

LEMMA FallAsleepServes ==
    ASSUME ReaderInv, FallAsleep
    PROVE  ReaderInv' /\ auth'.active = auth.active
<1>1. auth' \in Authenticator /\ auth'.sleeping /\ auth'.active = auth.active
    BY DEF ReaderInv, ReaderTypeOK, FallAsleep, Authenticator
<1> QED  BY <1>1, ServedInv DEF Served, FallAsleep

LEMMA WakeUpServes ==
    ASSUME ReaderInv, WakeUp
    PROVE  ReaderInv' /\ auth'.active = auth.active
<1> DEFINE a == [auth EXCEPT !.sleeping = FALSE]
<1>1. a \in Authenticator /\ a.active = auth.active /\ verifying' \in BOOLEAN
    BY DEF ReaderInv, ReaderTypeOK, WakeUp, Authenticator
<1>2. auth' \in IF a.active /\ ~a.abort THEN StartVerify(a, FALSE) ELSE {a}
    BY DEF WakeUp
<1> HIDE DEF a
<1> QED  BY <1>1, <1>2, StartVerifyServes, ServedInv DEF Served

LEMMA ReaderStepServes ==
    ASSUME ReaderInv, ReaderStep
    PROVE  ReaderInv' /\ auth'.active = auth.active
<1>0. auth \in Authenticator /\ verifying \in BOOLEAN
    BY DEF ReaderInv, ReaderTypeOK
<1>v. verifying' \in BOOLEAN
    BY <1>0 DEF ReaderStep, ClaimAnswered, VerifyStarted, ClaimLost, VerifyRefused,
       RetryTimer, FingerFails, Disconnected, UnknownResult, Seen, Authenticator
<1> SUFFICES auth' \in Authenticator /\ auth'.active = auth.active /\ Served(auth', verifying')
    BY <1>v, ServedInv
<1>1. CASE ClaimAnswered
  <2> DEFINE a == [auth EXCEPT !.claiming = FALSE]
  <2>1. a \in Authenticator /\ a.active = auth.active
    BY <1>0 DEF Authenticator
  <2>2. auth' = [a EXCEPT !.gaveUp = TRUE] \/ auth' \in StartVerify(a, FALSE)
    BY <1>1 DEF ClaimAnswered
  <2>3. CASE auth' = [a EXCEPT !.gaveUp = TRUE]
    BY <2>1, <2>3 DEF Authenticator, Served
  <2> HIDE DEF a
  <2> QED  BY <1>v, <2>1, <2>2, <2>3, StartVerifyServes
<1>2. ASSUME auth.starts # <<>>
      PROVE  /\ NextStart \in Authenticator /\ NextStart.active = auth.active
             /\ NextStart.sleeping = auth.sleeping /\ NextStart.abort = auth.abort
  <2>1. auth.starts \in Seq(BOOLEAN)
    BY <1>0 DEF Authenticator
  <2>2. Tail(auth.starts) \in Seq(BOOLEAN)
    BY <1>2, <2>1, HeadTailProperties
  <2> QED  BY <1>0, <2>2 DEF NextStart, Authenticator
<1>3. CASE VerifyStarted
  <2> DEFINE n == NextStart.retries
             r == IF Head(auth.starts) /\ n < MaxRetries THEN n + 1 ELSE n
  <2>1. NextStart \in Authenticator /\ NextStart.active = auth.active
        /\ NextStart.sleeping = auth.sleeping
    BY <1>2, <1>3 DEF VerifyStarted
  <2>2. auth' = [NextStart EXCEPT !.reclaimed = FALSE, !.retries = r]
        /\ verifying' = ~auth.sleeping
    BY <1>3 DEF VerifyStarted
  <2>3. n \in 0..MaxRetries
    BY <2>1 DEF Authenticator
  <2>4. r \in 0..MaxRetries
    <3>1. CASE Head(auth.starts) /\ n < MaxRetries
      <4>1. n < MaxRetries /\ r = n + 1
        BY <3>1
      <4> HIDE DEF n, r
      <4> QED  BY <2>3, <4>1, ReaderAssumption
    <3>2. CASE ~(Head(auth.starts) /\ n < MaxRetries)
      BY <2>3, <3>2
    <3> QED  BY <3>1, <3>2
  <2> HIDE DEF n, r
  <2> QED  BY <1>0, <2>1, <2>2, <2>4 DEF Authenticator, Served
<1>4. CASE ClaimLost
    BY <1>0, <1>2, <1>4 DEF ClaimLost, Authenticator, Served
<1>5. CASE VerifyRefused
    BY <1>0, <1>2, <1>5 DEF VerifyRefused, Authenticator, Served
<1>6. CASE RetryTimer
  <2> DEFINE a == [auth EXCEPT !.timer = "off"]
             b == [a EXCEPT !.proxy = FALSE, !.starts = <<>>]
  <2>0. <<>> \in Seq(BOOLEAN)
    OBVIOUS
  <2>1. a \in Authenticator /\ a.active = auth.active
        /\ b \in Authenticator /\ b.active = auth.active
    BY <1>0, <2>0 DEF Authenticator
  <2>2. auth' \in StartVerify(a, TRUE) \/ auth' \in StartVerify(b, FALSE)
    BY <1>6 DEF RetryTimer
  <2> HIDE DEF a, b
  <2> QED  BY <1>v, <2>1, <2>2, StartVerifyServes
<1>7. CASE FingerFails \/ Disconnected
    BY <1>0, <1>7 DEF FingerFails, Disconnected, Authenticator, Served
<1>8. CASE UnknownResult
  <2>1. (auth' = auth /\ auth.abort) \/ auth' \in StartVerify(auth, TRUE)
    BY <1>8 DEF UnknownResult
  <2> QED  BY <1>0, <1>v, <2>1, StartVerifyServes DEF Served
<1> QED  BY <1>1, <1>3, <1>4, <1>5, <1>6, <1>7, <1>8 DEF ReaderStep

-----------------------------------------------------------------------------
(* The guard of the sleep. *)

\* A sleep that is held up waits for a lock.
HoldsForALock ==
    guard.release =>
        (guard.locking /\ screen.starting) \/ screen.lock = "pending" \/ past.abandoned

\* A sleep that is announced and not held up any more finds the session locked.
LetGoLocked ==
    /\ logind.delays /\ ~guard.held => screen.lock = "locked" \/ past.excused
    /\ ~enabled => ~guard.held

GuardInv == GuardTypeOK /\ HoldsForALock /\ LetGoLocked

SessionInv ==
    /\ LockInv /\ AnswersALock /\ OwedInv
    /\ ReaderInv /\ auth.active = screen.reader
    /\ GuardInv

\* What a step of the session is to the lock screen.
LEMMA SessionIsLock ==
    ASSUME SessionNext
    PROVE  [Next]_vars \/ SuspendByMenu
<1>1. LockStep => [Next]_vars
    BY DEF LockStep, Unhooked, MayLock, Requested, Locked, Lost, NotLocked, MayUnlock,
       Reconfigured, SuspendAfterLock, Next
<1>3. AnnounceSleep \/ Sleep \/ Resume \/ ReaderWorks => [Next]_vars
    BY DEF AnnounceSleep, Sleep, Resume, ReaderWorks
<1>4. PrepareForSleep => [Next]_vars
  <2>1. PrepareForSleep => screen' = screen \/ screen' = Lock(screen, outputs)
    BY DEF PrepareForSleep, LockBeforeSleep
  <2>2. PrepareForSleep => UNCHANGED <<compositor, others, told, count>>
    BY DEF PrepareForSleep
  <2> QED  BY <2>1, <2>2 DEF Next, RequestLock, vars, others
<1> QED  BY <1>1, <1>3, <1>4 DEF SessionNext

LEMMA SessionLock ==
    ASSUME LockInv, AnswersALock, OwedInv, [SessionNext]_sessionVars
    PROVE  LockInv' /\ AnswersALock' /\ OwedInv'
<1>1. CASE [Next]_vars
    BY <1>1, NextLock, NextAnswers, NextOwed
<1>2. CASE SuspendByMenu
  <2>1. UNCHANGED <<screen, compositor, others, told>> /\ count' = [count EXCEPT !.asked = @ + 1]
    BY <1>2 DEF SuspendByMenu
  <2>2. LockInv' /\ AnswersALock'
    BY <2>1 DEF LockInv, AnswersALock, others, HooksTellTheTruth, EveryOutputIsCovered,
       ThreadTyped
  <2>3. /\ screen \in Screen /\ Owed(screen') = Owed(screen) /\ Owed(screen) \in Nat
        /\ count \in [locks : Nat, asked : Nat, run : Nat]
    BY <2>1, OwedIsNat DEF LockInv, Whole, OwedInv
  <2>4. /\ count' \in [locks : Nat, asked : Nat, run : Nat]
        /\ count'.run = count.run /\ count'.asked >= count.asked
    BY <2>1, <2>3
  <2> QED  BY <2>1, <2>2, <2>3, <2>4, OwedKeeps DEF OwedInv
<1> QED  BY <1>1, <1>2, SessionIsLock DEF sessionVars

LEMMA ReaderFollowsLock ==
    ASSUME LockInv', ReaderInv, auth.active = screen.reader, ReaderFollows
    PROVE  ReaderInv' /\ auth'.active = screen'.reader
<1>1. screen'.reader \in BOOLEAN
    BY DEF LockInv, Whole, Screen
<1>2. CASE screen'.reader = screen.reader
    BY <1>2 DEF ReaderFollows, readerVars, ReaderInv, ReaderTypeOK, ReaderIsNotForgotten
<1>3. CASE screen'.reader # screen.reader
  <2>1. Switch(screen'.reader)
    BY <1>3 DEF ReaderFollows
  <2> QED  BY <1>1, <2>1, SwitchServes
<1> QED  BY <1>2, <1>3

LEMMA SessionReader ==
    ASSUME LockInv, LockInv', ReaderInv, auth.active = screen.reader,
           [SessionNext]_sessionVars
    PROVE  ReaderInv' /\ auth'.active = screen'.reader
<1>1. CASE UNCHANGED sessionVars
    BY <1>1 DEF sessionVars, vars, readerVars, ReaderInv, ReaderTypeOK, ReaderIsNotForgotten
<1>2. CASE LockStep
    BY <1>2, ReaderFollowsLock DEF LockStep
<1>3. CASE SuspendByMenu \/ AnnounceSleep \/ Sleep
    BY <1>3 DEF SuspendByMenu, AnnounceSleep, Sleep, vars, readerVars, ReaderInv,
       ReaderTypeOK, ReaderIsNotForgotten
<1>4. CASE PrepareForSleep
  <2>1. FallAsleep
    BY <1>4 DEF PrepareForSleep
  <2>2. screen' = screen \/ screen' = Lock(screen, outputs)
    BY <1>4 DEF PrepareForSleep, LockBeforeSleep
  <2>3. screen'.reader = screen.reader
    BY <2>2, LockWhole DEF LockInv
  <2> QED  BY <2>1, <2>3, FallAsleepServes
<1>5. CASE Resume
    BY <1>5, WakeUpServes DEF Resume, vars
<1>6. CASE ReaderWorks
    BY <1>6, ReaderStepServes DEF ReaderWorks, vars
<1> QED  BY <1>1, <1>2, <1>3, <1>4, <1>5, <1>6 DEF SessionNext

LEMMA ReleaseTyped ==
    ASSUME GuardTypeOK
    PROVE  /\ ReleaseIfPending(guard).held \in BOOLEAN
           /\ ~ReleaseIfPending(guard).release
           /\ ReleaseIfPending(guard).skip = guard.skip
           /\ ReleaseIfPending(guard).locking = guard.locking
           /\ ReleaseIfPending(guard).wanted = guard.wanted
           /\ ReleaseIfPending(guard).held => guard.held
           /\ ReleaseIfPending(guard) \in
                [held : BOOLEAN, release : BOOLEAN, skip : BOOLEAN, wanted : BOOLEAN, locking : BOOLEAN]
           /\ ~Release(guard).release /\ ~Release(guard).held
           /\ Release(guard).locking = guard.locking
           /\ Release(guard) \in
                [held : BOOLEAN, release : BOOLEAN, skip : BOOLEAN, wanted : BOOLEAN, locking : BOOLEAN]
BY DEF GuardTypeOK, ReleaseIfPending, Release

LEMMA SessionTyped ==
    ASSUME LockInv, LockInv', GuardTypeOK, [SessionNext]_sessionVars
    PROVE  GuardTypeOK'
<1> DEFINE Guards == [held : BOOLEAN, release : BOOLEAN, skip : BOOLEAN, wanted : BOOLEAN, locking : BOOLEAN]
           Pasts == [sleeps : 0..MaxSleeps, excused : BOOLEAN, abandoned : BOOLEAN]
<1>0. /\ guard \in Guards /\ past \in Pasts
      /\ logind.delays \in BOOLEAN /\ logind.signals \in Seq(BOOLEAN)
      /\ logind \in [delays : BOOLEAN, signals : Seq(BOOLEAN)]
    BY DEF GuardTypeOK
<1>e. Excuse(past) \in Pasts
    BY <1>0 DEF Excuse
<1>b. enabled' \in BOOLEAN /\ enabled \in BOOLEAN
    BY DEF LockInv
<1>1. CASE LockStep
  <2>1. UNCHANGED logind
    BY <1>1 DEF LockStep
  <2>2. guard' \in Guards /\ past' \in Pasts
    <3>1. CASE Unhooked \/ MayLock \/ Locked \/ Lost
      BY <1>0, <1>e, <3>1, ReleaseTyped DEF Unhooked, MayLock, Locked, Lost
    <3>2. CASE Requested \/ NotLocked
      BY <1>0, <1>e, <3>2, ReleaseTyped DEF Requested, NotLocked
    <3>3. CASE Reconfigured \/ SuspendAfterLock
      BY <1>0, <1>b, <3>3 DEF Reconfigured, SuspendAfterLock, Suspend
    <3>4. CASE \/ MayUnlock(ExitTimeout)
               \/ MayUnlock(UnlockSession) \/ MayUnlock(RunFinish)
               \/ MayUnlock(FingerMatches /\ FingerprintMatches)
               \/ \E a \in Attempt : MayUnlock(AuthResult(a))
      BY <1>0, <1>e, <3>4, ReleaseTyped DEF MayUnlock
    <3> QED  BY <1>1, <3>1, <3>2, <3>3, <3>4 DEF LockStep
  <2> QED  BY <1>0, <2>1, <2>2 DEF GuardTypeOK
<1>2. CASE SuspendByMenu
    BY <1>0, <1>2 DEF SuspendByMenu, Suspend, GuardTypeOK
<1>3. CASE AnnounceSleep
  <2>1. Append(logind.signals, TRUE) \in Seq(BOOLEAN)
    BY <1>0, AppendProperties
  <2>2. /\ logind' = [delays |-> TRUE, signals |-> Append(logind.signals, TRUE)]
        /\ guard' = guard
        /\ past' = [past EXCEPT !.sleeps = @ + 1, !.excused = ~guard.held]
        /\ past.sleeps < MaxSleeps
    BY <1>3 DEF AnnounceSleep
  <2>3. past.sleeps + 1 \in 0..MaxSleeps
    BY <1>0, <2>2, SleepAssumption
  <2> QED  BY <1>0, <2>1, <2>2, <2>3 DEF GuardTypeOK
<1>4. CASE Sleep
  <2>1. Append(logind.signals, FALSE) \in Seq(BOOLEAN)
    BY <1>0, AppendProperties
  <2> QED  BY <1>0, <1>4, <2>1 DEF Sleep, GuardTypeOK
<1>5. CASE PrepareForSleep \/ Resume
  <2>1. logind.signals # <<>> /\ logind' = [logind EXCEPT !.signals = Tail(@)]
    BY <1>5 DEF PrepareForSleep, Resume
  <2>2. Tail(logind.signals) \in Seq(BOOLEAN)
    BY <1>0, <2>1, HeadTailProperties
  <2>3. logind' \in [delays : BOOLEAN, signals : Seq(BOOLEAN)]
    BY <1>0, <2>1, <2>2
  <2>4. CASE Resume
    BY <1>0, <1>b, <2>3, <2>4 DEF Resume, GuardTypeOK
  <2>5. CASE PrepareForSleep
    <3>1. screen'.starting \in BOOLEAN
      BY DEF LockInv, Whole, Screen
    <3>2. guard' \in Guards /\ past' \in Pasts
      BY <1>0, <1>e, <2>5, <3>1, ReleaseTyped DEF PrepareForSleep, LockBeforeSleep
    <3> QED  BY <2>3, <3>2 DEF GuardTypeOK
  <2> QED  BY <1>5, <2>4, <2>5
<1>6. CASE UNCHANGED sleepVars
    BY <1>6 DEF sleepVars, GuardTypeOK
<1> QED  BY <1>1, <1>2, <1>3, <1>4, <1>5, <1>6 DEF SessionNext, ReaderWorks, sessionVars

LEMMA PrepareMoves ==
    ASSUME LockInv, PrepareForSleep
    PROVE  screen'.lock = screen.lock /\ ~screen.starting
<1>1. screen' = screen \/ screen' = Lock(screen, outputs)
    BY DEF PrepareForSleep, LockBeforeSleep
<1> QED  BY <1>1, LockMoves DEF PrepareForSleep, LockInv, Whole

LEMMA SessionHolds ==
    ASSUME LockInv, LockInv', AnswersALock, GuardTypeOK, GuardTypeOK', HoldsForALock,
           [SessionNext]_sessionVars
    PROVE  HoldsForALock'
<1>1. CASE UNCHANGED sessionVars
    BY <1>1 DEF sessionVars, vars, sleepVars, HoldsForALock
<1>2. CASE Unhooked \/ MayLock \/ SuspendAfterLock
  <2>1. /\ screen'.lock = screen.lock
        /\ screen.starting => screen'.starting
    BY <1>2, LockStays DEF Unhooked, MayLock, SuspendAfterLock
  <2>2. /\ guard'.release => guard.release
        /\ guard'.locking = guard.locking /\ past' = past
    BY <1>2, ReleaseTyped DEF Unhooked, MayLock, SuspendAfterLock, Suspend, GuardTypeOK
  <2> QED  BY <2>1, <2>2 DEF HoldsForALock
<1>3. CASE Requested
  <2>1. screen'.lock = "pending"
    BY <1>3, LockBegins DEF Requested
  <2> QED  BY <2>1 DEF HoldsForALock
<1>4. CASE Locked \/ Lost
  <2>1. ~guard'.release
    BY <1>4, ReleaseTyped DEF Locked, Lost
  <2> QED  BY <2>1 DEF HoldsForALock
<1>5. CASE NotLocked
  <2>1. ~Active(screen)
    BY <1>5, LockBegins DEF NotLocked
  <2>2. \/ ~guard'.release
        \/ guard' = guard /\ ~guard.locking
    BY <1>5, ReleaseTyped DEF NotLocked, GuardTypeOK
  <2>3. past.abandoned => past'.abandoned
    BY <1>5 DEF NotLocked, Excuse, GuardTypeOK
  <2> QED  BY <2>1, <2>2, <2>3 DEF HoldsForALock, Active
<1>6. CASE \/ MayUnlock(ExitTimeout)
           \/ MayUnlock(UnlockSession) \/ MayUnlock(RunFinish)
           \/ MayUnlock(FingerMatches /\ FingerprintMatches)
           \/ \E a \in Attempt : MayUnlock(AuthResult(a))
  <2>1. /\ \/ screen'.lock = screen.lock
           \/ screen'.lock = "none" /\ Active(screen)
        /\ ~screen.starting
    BY <1>6, LockMayEnd DEF MayUnlock
  <2>2. \/ guard' = ReleaseIfPending(guard)
        \/ /\ guard' = guard
           /\ past' = [past EXCEPT !.abandoned =
                          (@ \/ (screen.lock = "pending" /\ ~Active(screen')))]
    BY <1>6 DEF MayUnlock
  <2>3. CASE guard' = ReleaseIfPending(guard)
    BY <2>3, ReleaseTyped DEF HoldsForALock
  <2>4. CASE /\ guard' = guard
             /\ past' = [past EXCEPT !.abandoned =
                            (@ \/ (screen.lock = "pending" /\ ~Active(screen')))]
    <3>1. past'.abandoned = (past.abandoned \/ (screen.lock = "pending" /\ ~Active(screen')))
      BY <2>4 DEF GuardTypeOK
    <3> QED  BY <2>1, <2>4, <3>1 DEF HoldsForALock, Active
  <2> QED  BY <2>2, <2>3, <2>4
<1>7. CASE Reconfigured
  <2>1. guard'.release = guard.release /\ ~screen.starting
    BY <1>7, LockMayEnd DEF Reconfigured, GuardTypeOK
  <2>2. past'.abandoned = (past.abandoned \/ (~enabled' /\ screen.lock = "pending"))
    BY <1>7 DEF Reconfigured, GuardTypeOK
  <2>3. screen'.lock # screen.lock => ~enabled'
    <3>1. CASE ConfigChange /\ enabled
      BY <3>1 DEF ConfigChange
    <3>2. CASE ConfigChange /\ ~enabled
      BY <3>2 DEF ConfigChange
    <3>3. CASE UNCHANGED vars
      BY <3>3 DEF vars
    <3> QED  BY <1>7, <3>1, <3>2, <3>3 DEF Reconfigured
  <2> QED  BY <2>1, <2>2, <2>3 DEF HoldsForALock
<1>8. CASE SuspendByMenu
    BY <1>8 DEF SuspendByMenu, Suspend, HoldsForALock, GuardTypeOK
<1>9. CASE AnnounceSleep \/ Sleep
    BY <1>9 DEF AnnounceSleep, Sleep, vars, HoldsForALock, GuardTypeOK
<1>10. CASE PrepareForSleep
  <2>1. screen'.lock = screen.lock /\ ~screen.starting
    BY <1>10, PrepareMoves
  <2>2. \/ ~guard'.release
        \/ /\ guard'.locking = screen'.starting
           /\ Active(screen) \/ screen'.starting
           /\ ~Engaged(screen) /\ past' = past
    BY <1>10, ReleaseTyped DEF PrepareForSleep, LockBeforeSleep, GuardTypeOK
  <2>3. Active(screen) /\ ~Engaged(screen) => screen.lock = "pending"
    BY DEF Active, Engaged, LockInv, Whole, Screen
  <2>4. screen'.starting \in BOOLEAN /\ guard'.locking \in BOOLEAN
    BY DEF LockInv, Whole, Screen, GuardTypeOK
  <2> QED  BY <2>1, <2>2, <2>3, <2>4 DEF HoldsForALock
<1>11. CASE Resume
  <2>1. ~guard'.release
    BY <1>11 DEF Resume, GuardTypeOK
  <2> QED  BY <2>1 DEF HoldsForALock
<1>12. CASE ReaderWorks
    BY <1>12 DEF ReaderWorks, vars, sleepVars, HoldsForALock
<1> QED  BY <1>1, <1>2, <1>3, <1>4, <1>5, <1>6, <1>7, <1>8, <1>9, <1>10, <1>11, <1>12
         DEF SessionNext, LockStep

\* The configuration is the only way to enable the lock screen, or not.
LEMMA EnabledStays ==
    ASSUME [SessionNext]_sessionVars, ~(LockStep /\ Reconfigured)
    PROVE  enabled' = enabled
<1>1. LockStep => enabled' = enabled
    BY DEF LockStep, Unhooked, MayLock, Requested, Locked, Lost, NotLocked,
       MayUnlock, SuspendAfterLock, others, CompositorLocks, CompositorFinishes, Render,
       ExitComplete, SuspendTimeout, Authenticate, ThreadEnds, RequestLock, RunAfterLocked,
       OutputChange, LockRequested, HandleLocked, HandleFinished, LockFails,
       OutputsVanished, UnlockSession, RunFinish, FingerprintMatches, AuthResult,
       RunAction, ExitTimeout
<1>2. SuspendByMenu \/ AnnounceSleep \/ Sleep \/ PrepareForSleep \/ Resume \/ ReaderWorks
      => enabled' = enabled
    BY DEF SuspendByMenu, AnnounceSleep, Sleep, PrepareForSleep, Resume, ReaderWorks,
       others, vars
<1> QED  BY <1>1, <1>2 DEF SessionNext, sessionVars, vars

LEMMA SessionLetsGo ==
    ASSUME LockInv, LockInv', AnswersALock, GuardTypeOK, GuardTypeOK', LetGoLocked,
           [SessionNext]_sessionVars
    PROVE  LetGoLocked'
<1>0. /\ guard.held \in BOOLEAN /\ past.excused \in BOOLEAN
      /\ Excuse(past).excused = (past.excused \/ logind.delays)
    BY DEF GuardTypeOK, Excuse
<1>t. told = (screen.lock = "locked") /\ told' = (screen'.lock = "locked")
    BY DEF LockInv, HooksTellTheTruth
<1>1. CASE LockStep /\ Reconfigured
  <2>1. PICK wanted \in BOOLEAN :
          \E held \in IF enabled' /\ wanted THEN {guard.held, TRUE} ELSE {FALSE} :
             guard' = [guard EXCEPT !.wanted = wanted, !.held = held]
    BY <1>1 DEF Reconfigured
  <2>2. /\ guard'.held \in BOOLEAN /\ guard'.held => enabled' /\ guard'.wanted
        /\ ~guard'.held /\ enabled' /\ guard'.wanted => ~guard.held
    BY <1>0, <2>1 DEF GuardTypeOK
  <2>3. past'.excused = (past.excused \/ (~ShouldLock' /\ logind.delays))
    BY <1>1 DEF Reconfigured, GuardTypeOK
  <2>a. ShouldLock' = (enabled' /\ guard'.wanted)
    BY DEF ShouldLock
  <2>4. screen'.lock # screen.lock => ~enabled'
    <3>1. CASE ConfigChange /\ enabled
      BY <3>1 DEF ConfigChange
    <3>2. CASE ConfigChange /\ ~enabled
      BY <3>2 DEF ConfigChange
    <3>3. CASE UNCHANGED vars
      BY <3>3 DEF vars
    <3> QED  BY <1>1, <3>1, <3>2, <3>3 DEF Reconfigured
  <2>5. logind' = logind
    BY <1>1 DEF LockStep
  <2> QED  BY <2>2, <2>3, <2>a, <2>4, <2>5 DEF LetGoLocked
<1>e. CASE ~(LockStep /\ Reconfigured)
  <2>e. enabled' = enabled
    BY <1>e, EnabledStays
  <2>1. CASE UNCHANGED sessionVars
    BY <2>1 DEF sessionVars, vars, sleepVars, LetGoLocked
  <2>2. CASE LockStep /\ (Unhooked \/ MayLock \/ SuspendAfterLock)
    <3>1. screen'.lock = screen.lock
      BY <2>2, LockStays DEF Unhooked, MayLock, SuspendAfterLock
    <3>2. logind' = logind /\ past' = past
      BY <2>2 DEF LockStep, Unhooked, MayLock, SuspendAfterLock, Suspend
    <3>3. guard'.held = guard.held \/ (~enabled /\ (guard'.held => guard.held))
      BY <2>2, ReleaseTyped DEF Unhooked, MayLock, SuspendAfterLock, Suspend, GuardTypeOK
    <3> QED  BY <2>e, <3>1, <3>2, <3>3 DEF LetGoLocked
  <2>3. CASE LockStep /\ Requested
    <3>1. screen.lock # "locked"
      BY <2>3, LockBegins DEF Requested, Active
    <3>2. logind' = logind /\ past' = past /\ guard'.held = guard.held
      BY <2>3 DEF LockStep, Requested, GuardTypeOK
    <3> QED  BY <2>e, <3>1, <3>2 DEF LetGoLocked
  <2>4. CASE LockStep /\ Locked
    <3>1. screen'.lock = "locked" /\ (guard'.held => guard.held)
      BY <2>4, LockBegins, ReleaseTyped DEF Locked
    <3> QED  BY <2>e, <3>1 DEF LetGoLocked
  <2>5. CASE LockStep /\ (Lost \/ NotLocked)
    <3>1. past' = Excuse(past) /\ logind' = logind /\ (guard'.held => guard.held)
      BY <2>5, ReleaseTyped DEF LockStep, Lost, NotLocked, GuardTypeOK
    <3> QED  BY <1>0, <2>e, <3>1 DEF LetGoLocked
  <2>6. CASE \/ LockStep /\ \/ MayUnlock(ExitTimeout)
                            \/ MayUnlock(UnlockSession) \/ MayUnlock(RunFinish)
                            \/ MayUnlock(FingerMatches /\ FingerprintMatches)
                            \/ \E a \in Attempt : MayUnlock(AuthResult(a))
    <3>1. screen'.lock = screen.lock \/ screen'.lock = "none"
      BY <2>6, LockMayEnd DEF MayUnlock
    <3>2. logind' = logind
      BY <2>6 DEF LockStep
    <3>3. \/ past' = Excuse(past) /\ (guard'.held => guard.held)
          \/ /\ ~(told /\ ~told') /\ guard' = guard
             /\ past' = [past EXCEPT !.abandoned =
                            (@ \/ (screen.lock = "pending" /\ ~Active(screen')))]
      BY <2>6, ReleaseTyped DEF MayUnlock
    <3>4. CASE past' = Excuse(past) /\ (guard'.held => guard.held)
      BY <1>0, <2>e, <3>2, <3>4 DEF LetGoLocked
    <3>5. CASE /\ ~(told /\ ~told') /\ guard' = guard
               /\ past' = [past EXCEPT !.abandoned =
                              (@ \/ (screen.lock = "pending" /\ ~Active(screen')))]
      <4>1. past'.excused = past.excused
        BY <3>5 DEF GuardTypeOK
      <4> QED  BY <1>t, <2>e, <3>1, <3>2, <3>5, <4>1 DEF LetGoLocked
    <3> QED  BY <3>3, <3>4, <3>5
  <2>7. CASE SuspendByMenu \/ ReaderWorks \/ AnnounceSleep \/ Sleep
    BY <1>0, <2>e, <2>7 DEF SuspendByMenu, Suspend, ReaderWorks, AnnounceSleep, Sleep,
       vars, sleepVars, LetGoLocked, GuardTypeOK
  <2>8. CASE PrepareForSleep
    <3>1. screen'.lock = screen.lock
      BY <2>8, PrepareMoves
    <3>2. logind'.delays = logind.delays
      BY <2>8 DEF PrepareForSleep, GuardTypeOK
    <3>3. \/ past' = Excuse(past) /\ ~guard'.held
          \/ screen.lock = "locked" /\ ~guard'.held
          \/ past' = past /\ guard'.held = guard.held
      BY <2>8, ReleaseTyped DEF PrepareForSleep, LockBeforeSleep, Engaged, GuardTypeOK
    <3> QED  BY <1>0, <2>e, <3>1, <3>2, <3>3 DEF LetGoLocked
  <2>9. CASE Resume
    <3>1. screen'.lock = screen.lock /\ past'.excused = past.excused
          /\ logind'.delays = logind.delays
      BY <2>9 DEF Resume, vars, GuardTypeOK
    <3>2. PICK granted \in BOOLEAN :
              guard' = [guard EXCEPT !.skip = FALSE, !.release = FALSE,
                                     !.held = (@ \/ (ShouldLock /\ granted))]
      BY <2>9 DEF Resume
    <3>3. (guard.held => guard'.held) /\ (guard'.held => guard.held \/ enabled)
      BY <3>2 DEF GuardTypeOK, ShouldLock
    <3> QED  BY <2>e, <3>1, <3>3 DEF LetGoLocked
  <2> QED  BY <1>e, <2>1, <2>2, <2>3, <2>4, <2>5, <2>6, <2>7, <2>8, <2>9
           DEF SessionNext, LockStep
<1> QED  BY <1>1, <1>e

-----------------------------------------------------------------------------
(* The invariant, and what follows. *)

LEMMA SessionInitInv == SessionInit => SessionInv
<1> SUFFICES ASSUME SessionInit
             PROVE  SessionInv
    OBVIOUS
<1>1. <<>> \in Seq({"finish", "action"}) /\ <<>> \in Seq(BOOLEAN)
    OBVIOUS
<1>2. Whole(screen)
    BY <1>1 DEF SessionInit, Init, Whole, Screen, Active
<1>3. LockInv
    BY <1>2 DEF SessionInit, Init, LockInv, ThreadTyped, HooksTellTheTruth,
       EveryOutputIsCovered, Active
<1>4. AnswersALock
    BY DEF SessionInit, Init, AnswersALock, Free
<1>5. OwedInv
  <2>1. screen.calls = <<>> /\ ~screen.afterLocked
        /\ count = [locks |-> 0, asked |-> 0, run |-> 0]
    BY DEF SessionInit, Init
  <2>2. {i \in DOMAIN screen.calls : screen.calls[i] = "action"} = {}
    BY <2>1
  <2>3. Owed(screen) = 0
    BY <2>1, <2>2, FS_EmptySet DEF Owed
  <2> QED  BY <2>1, <2>3 DEF OwedInv, ActionRunsOnce
<1>6. auth = Stopped(FALSE) /\ verifying = FALSE
    BY DEF SessionInit, ReaderInit
<1>7. ReaderInv
    BY <1>6, StoppedTyped DEF ReaderInv, ReaderTypeOK, ReaderIsNotForgotten, Stopped
<1>8. auth.active = screen.reader
    BY <1>6 DEF SessionInit, Init, Stopped
<1>9. GuardTypeOK
    BY <1>1, SleepAssumption DEF SessionInit, GuardTypeOK
<1>10. HoldsForALock /\ LetGoLocked
    BY DEF SessionInit, Init, HoldsForALock, LetGoLocked
<1> QED  BY <1>3, <1>4, <1>5, <1>7, <1>8, <1>9, <1>10 DEF SessionInv, GuardInv

LEMMA SessionStep ==
    ASSUME SessionInv, [SessionNext]_sessionVars
    PROVE  SessionInv'
<1>1. LockInv' /\ AnswersALock' /\ OwedInv'
    BY SessionLock DEF SessionInv
<1>2. ReaderInv' /\ auth'.active = screen'.reader
    BY <1>1, SessionReader DEF SessionInv
<1>3. GuardTypeOK'
    BY <1>1, SessionTyped DEF SessionInv, GuardInv
<1>4. HoldsForALock' /\ LetGoLocked'
    BY <1>1, <1>3, SessionHolds, SessionLetsGo DEF SessionInv, GuardInv
<1> QED  BY <1>1, <1>2, <1>3, <1>4 DEF SessionInv, GuardInv

\* The invariant that the theorems of the session rest on.
THEOREM SessionInvariant == SessionSpec => []SessionInv
<1>1. SessionInit => SessionInv
    BY SessionInitInv
<1>2. SessionInv /\ [SessionNext]_sessionVars => SessionInv'
    BY SessionStep
<1> QED  BY <1>1, <1>2, PTL DEF SessionSpec

LEMMA LockInvIsWhole ==
    ASSUME LockInv, OwedInv
    PROVE  LockIsWhole
BY DEF LockInv, OwedInv, LockIsWhole, TypeOK, Whole, ThreadTyped

\* The lock, its surfaces, its hooks and its action agree, the reader is on
\* with the lock, and a sleep is held up only for a lock (lock_screen.cpp,
\* application_services.cpp).
THEOREM GuardStaysWhole == SessionSpec => []GuardIsWhole
<1>1. SessionInv => GuardIsWhole
    BY LockInvIsWhole DEF SessionInv, GuardInv, ReaderInv, GuardIsWhole, HoldsForALock,
       DelayHasAReason
<1> QED  BY <1>1, SessionInvariant, PTL

\* The prompt has an attempt under way while it says so, and the reader is on
\* only while it may unlock, at work or given up for a reason (lock_screen.cpp,
\* fingerprint_authenticator.cpp).
THEOREM UnlockStaysOffered == SessionSpec => []UnlockIsOfferedAgain
<1>1. SessionInv => UnlockIsOfferedAgain
  <2> SUFFICES ASSUME SessionInv
               PROVE  UnlockIsOffered /\ ReaderIsNotForgotten
    BY DEF UnlockIsOfferedAgain
  <2>1. LockInv /\ ReaderIsNotForgotten
    BY DEF SessionInv, ReaderInv
  <2>2. screen.current # NoAttempt => screen.current \in Attempt
    BY <2>1 DEF LockInv, Whole, Screen
  <2> QED  BY <2>1, <2>2 DEF UnlockIsOffered, PromptIsAnswered, ReaderServesTheLock,
             LockInv, Whole, UnderWay
<1> QED  BY <1>1, SessionInvariant, PTL

\* A result that comes after its lock opens nothing (handleAuthResult).
LEMMA ResultIsFresh ==
    ASSUME LockInv, [Next]_vars, NEW a \in Attempt,
           thread[a] = "passed", thread'[a] = "done",
           screen'.unlocking, ~screen.unlocking
    PROVE  a \in fresh
<1>1. PICK b \in Attempt : AuthResult(b)
  <2>1. thread' # thread
    OBVIOUS
  <2>2. \A b \in Attempt : ~Authenticate(b) /\ ~ThreadEnds(b)
    BY DEF Authenticate, ThreadEnds, LockInv, ThreadTyped
  <2> QED  BY <2>1, <2>2 DEF Next, vars, others, RequestLock, RunAfterLocked,
             OutputsVanished, LockRequested, LockFails, CompositorLocks, CompositorFinishes,
             HandleLocked, HandleFinished, Render, ExitComplete, SuspendTimeout,
             ExitTimeout, OutputChange, ConfigChange, UnlockSession, RunAction, RunFinish,
             FingerprintMatches
<1>2. a = b
    BY <1>1 DEF AuthResult, LockInv, ThreadTyped
<1>3. Wanted(screen, b)
    BY <1>1 DEF AuthResult
<1> QED  BY <1>2, <1>3, LockScreenAssumption DEF Wanted, LockInv

LEMMA SleepIsExcused ==
    ASSUME SessionInv, [SessionNext]_sessionVars,
           logind.delays, ~logind'.delays, ~guard.held
    PROVE  screen.lock = "locked" \/ past.excused
BY DEF SessionInv, GuardInv, LetGoLocked

\* A session is opened by an attempt of its own, and the machine sleeps with
\* it locked unless something excuses it.
THEOREM SessionStaysGuarded == SessionSpec => SessionIsGuarded
<1>1. SessionInv /\ [SessionNext]_sessionVars =>
        [\A a \in Attempt :
            thread[a] = "passed" /\ thread'[a] = "done" /\ screen'.unlocking /\ ~screen.unlocking
            => a \in fresh]_vars
  <2> SUFFICES ASSUME SessionInv, [SessionNext]_sessionVars, NEW a \in Attempt,
                      thread[a] = "passed", thread'[a] = "done",
                      screen'.unlocking, ~screen.unlocking
               PROVE  a \in fresh
    OBVIOUS
  <2>1. CASE [Next]_vars
    BY <2>1, ResultIsFresh DEF SessionInv
  <2>2. CASE SuspendByMenu
    BY <2>2 DEF SuspendByMenu
  <2> QED  BY <2>1, <2>2, SessionIsLock DEF sessionVars
<1>2. SessionInv /\ [SessionNext]_sessionVars =>
        [logind.delays /\ ~logind'.delays /\ ~guard.held =>
            screen.lock = "locked" \/ past.excused]_sessionVars
    BY SleepIsExcused
<1> QED  BY <1>1, <1>2, SessionInvariant, PTL DEF SessionSpec, SessionIsGuarded,
            StaleResultIsIgnored, SleepsLocked

-----------------------------------------------------------------------------
(* No step of the lock screen leaves an action behind or loses it. *)

LEMMA NextKeeps ==
    ASSUME LockInv, LockInv', OwedInv, [Next]_vars
    PROVE  /\ count.run \in Nat /\ count'.run \in Nat
           /\ Carries(screen, screen', count'.run - count.run)
<1>0. /\ Whole(screen) /\ screen \in Screen /\ screen' \in Screen
      /\ Owed(screen) \in Nat /\ Owed(screen') \in Nat
    BY OwedIsNat DEF LockInv, Whole
<1>c. count \in [locks : Nat, asked : Nat, run : Nat]
    BY DEF OwedInv
<1> DEFINE Goal == /\ count.run \in Nat /\ count'.run \in Nat
                   /\ Carries(screen, screen', count'.run - count.run)
<1>k. ASSUME Carries(screen, screen', 0), count'.run = count.run
      PROVE  Goal
  <2>1. count.run \in Nat /\ count'.run - count.run = 0
    BY <1>c, <1>k
  <2> QED  BY <1>k, <2>1
<1>m. ASSUME screen'.lock = screen.lock, screen.starting => screen'.starting,
             screen'.afterLocked => screen.afterLocked,
             Owed(screen') = Owed(screen), count'.run = count.run
      PROVE  Goal
    BY <1>0, <1>k, <1>m, KeepsAll
<1>1. CASE UNCHANGED vars \/ CompositorLocks \/ CompositorFinishes
  <2>1. screen' = screen /\ count' = count
    BY <1>1 DEF vars, CompositorLocks, CompositorFinishes
  <2> QED  BY <1>m, <2>1
<1>2. CASE RequestLock
  <2>1. screen' = Lock(screen, outputs) /\ count' = count
    BY <1>2 DEF RequestLock
  <2> QED  BY <1>0, <1>2, <1>m, <2>1, LockStays, LockOwes, LockWaits
<1>3. CASE RunAfterLocked
  <2> DEFINE s == [screen EXCEPT !.afterLocked = TRUE]
             e == [s EXCEPT !.afterLocked = FALSE]
  <2>1. /\ s \in Screen /\ s.calls = screen.calls /\ s.lock = screen.lock
        /\ e \in Screen /\ ~e.afterLocked /\ e.lock = screen.lock
        /\ s.afterLocked
    BY <1>0 DEF Screen
  <2>2. /\ \/ Active(s) /\ screen' = Flush(s)
           \/ ~Active(s) /\ ~enabled /\ screen' = e
           \/ ~Active(s) /\ enabled /\ screen' = Lock(s, outputs)
        /\ count'.run = count.run
    BY <1>3, <1>c DEF RunAfterLocked
  <2> HIDE DEF s, e
  <2>3. Owed(s) >= Owed(screen) /\ Owed(s) \in Nat
    <3>1. Waiting(s) = 1 /\ Waiting(screen) \in {0, 1}
      BY <2>1 DEF Waiting
    <3>2. /\ Owed(s) = Cardinality(Actions(s.calls)) + Waiting(s)
          /\ Cardinality(Actions(s.calls)) \in Nat
      BY <2>1, OwedIsNat
    <3>3. Owed(screen) = Cardinality(Actions(screen.calls)) + Waiting(screen)
      BY <1>0, OwedIsNat
    <3> QED  BY <2>1, <3>1, <3>2, <3>3
  <2>4. CASE Active(s) /\ screen' = Flush(s)
    <3>1. Active(screen')
      BY <2>1, <2>4, FlushMoves DEF Active
    <3>2. Owed(screen') = Owed(s)
      BY <2>1, <2>4, FlushOwes
    <3> QED  BY <1>0, <1>k, <2>2, <2>3, <3>1, <3>2 DEF Carries, Stranded
  <2>5. CASE ~Active(s) /\ screen' = e
    <3>1. ~Active(screen')
      BY <2>1, <2>5 DEF Active
    <3> QED  BY <1>k, <2>1, <2>2, <2>5, <3>1, KeepsNone
  <2>6. CASE ~Active(s) /\ enabled /\ screen' = Lock(s, outputs)
    <3>1. screen'.afterLocked => screen'.starting
      BY <2>1, <2>6, LockWaits
    <3>2. Owed(screen') = Owed(s)
      BY <2>1, <2>6, LockOwes
    <3> QED  BY <1>0, <1>k, <2>2, <2>3, <3>1, <3>2 DEF Carries, Stranded
  <2> QED  BY <2>2, <2>4, <2>5, <2>6
<1>4. CASE OutputsVanished
  <2> DEFINE s == [screen EXCEPT !.starting = FALSE, !.deferred = TRUE]
  <2>1. s \in Screen /\ s.calls = screen.calls /\ s.afterLocked = screen.afterLocked
    BY <1>0 DEF Screen
  <2>2. screen' = Dispatch(s) /\ count' = count
    BY <1>4 DEF OutputsVanished
  <2> HIDE DEF s
  <2>3. ~screen'.afterLocked /\ Owed(screen') = Owed(screen)
    BY <1>0, <2>1, <2>2, DispatchWaits, DispatchOwes, OwesTheSame
  <2> QED  BY <1>0, <1>k, <2>2, <2>3 DEF Carries, Stranded
<1>5. CASE LockRequested
  <2> DEFINE s == [screen EXCEPT !.lock = "pending", !.starting = FALSE]
  <2>1. /\ s \in Screen /\ s.calls = screen.calls /\ s.afterLocked = screen.afterLocked
        /\ s.lock = "pending"
    BY <1>0 DEF Screen
  <2>2. screen' \in Syncs(s, outputs) /\ count' = [count EXCEPT !.locks = @ + 1]
    BY <1>5 DEF LockRequested
  <2> HIDE DEF s
  <2>3. Active(screen') /\ Owed(screen') = Owed(screen)
    <3>1. /\ screen'.lock = "pending" /\ screen'.calls = screen.calls
          /\ screen'.afterLocked = screen.afterLocked
      BY <2>1, <2>2, SyncKeeps
    <3>2. Active(screen')
      BY <3>1 DEF Active
    <3> QED  BY <1>0, <3>1, <3>2, OwesTheSame
  <2>4. count'.run = count.run
    BY <1>c, <2>2
  <2> QED  BY <1>0, <1>k, <2>3, <2>4 DEF Carries, Stranded
<1>6. CASE LockFails \/ HandleFinished
  <2>1. ~screen'.afterLocked /\ screen'.lock = "none" /\ count' = count
    <3>1. CASE LockFails
      BY <1>0, <3>1 DEF LockFails, Reset, Released, Screen
    <3>2. CASE HandleFinished
      BY <1>0, <3>2 DEF HandleFinished, Released, Invalidate, Screen
    <3> QED  BY <1>6, <3>1, <3>2
  <2>2. ~Active(screen')
    BY <2>1 DEF Active
  <2> QED  BY <1>k, <2>1, <2>2, KeepsNone
<1>7. CASE HandleLocked
  <2> DEFINE s == [screen EXCEPT !.lock = "locked", !.suspendTimer = TRUE, !.reader = TRUE]
  <2>1. /\ s \in Screen /\ s.calls = screen.calls /\ s.afterLocked = screen.afterLocked
        /\ s.lock = "locked"
    BY <1>0 DEF Screen
  <2>2. screen' = Flush(s) /\ count' = count
    BY <1>7 DEF HandleLocked
  <2> HIDE DEF s
  <2>3. Active(screen') /\ Owed(screen') = Owed(screen)
    BY <1>0, <2>1, <2>2, FlushMoves, FlushOwes, OwesTheSame DEF Active
  <2> QED  BY <1>0, <1>k, <2>2, <2>3 DEF Carries, Stranded
<1>8. ASSUME NEW o \in Output, Render(o) \/ ExitComplete(o)
      PROVE  Goal
  <2> DEFINE s == [screen EXCEPT !.rendered = @ \cup {o}]
             t == [screen EXCEPT !.leaving = @ \ {o}]
  <2>1. /\ s \in Screen /\ s.calls = screen.calls /\ s.afterLocked = screen.afterLocked
        /\ t \in Screen /\ t.calls = screen.calls /\ t.afterLocked = screen.afterLocked
    BY <1>0 DEF Screen
  <2>2. screen' \in {Flush(s), TryFinish(t)} /\ count' = count
    BY <1>8 DEF Render, ExitComplete
  <2> HIDE DEF s, t
  <2>3. Owed(screen') = Owed(screen) /\ (screen'.afterLocked => screen.afterLocked)
    BY <1>0, <2>1, <2>2, FlushOwes, FinishOwes, OwesTheSame, DispatchWaits
  <2>4. screen'.lock = screen.lock /\ (screen.starting => screen'.starting)
    BY <1>8, LockStays
  <2> QED  BY <1>m, <2>2, <2>3, <2>4
<1>9. CASE SuspendTimeout
  <2> DEFINE s == [screen EXCEPT !.suspendTimer = FALSE]
  <2>1. s \in Screen /\ s.calls = screen.calls /\ s.afterLocked = screen.afterLocked
    BY <1>0 DEF Screen
  <2>2. screen' = Dispatch(s) /\ count' = count
    BY <1>9 DEF SuspendTimeout
  <2> HIDE DEF s
  <2>3. ~screen'.afterLocked /\ Owed(screen') = Owed(screen)
    BY <1>0, <2>1, <2>2, DispatchWaits, DispatchOwes, OwesTheSame
  <2> QED  BY <1>0, <1>k, <2>2, <2>3 DEF Carries, Stranded
<1>10. CASE ExitTimeout
  <2> DEFINE s == [screen EXCEPT !.exitTimer = FALSE]
  <2>1. s \in Screen
    BY <1>0 DEF Screen
  <2>2. screen' = Released(s) /\ count' = count
    BY <1>10 DEF ExitTimeout, FinishUnlock
  <2>3. screen.unlocking
    BY <1>0, <1>10 DEF ExitTimeout, Whole
  <2> HIDE DEF s
  <2>4. ~Active(screen')
    BY <2>1, <2>2, ReleasedWaits
  <2> QED  BY <1>k, <2>2, <2>3, <2>4 DEF Carries
<1>11. CASE OutputChange
  <2>1. PICK there \in SUBSET Output : screen' \in OutputsSeen(screen, there)
    BY <1>11 DEF OutputChange
  <2>2. /\ count' = count
        /\ screen'.lock = screen.lock /\ (screen.starting => screen'.starting)
    BY <1>11, LockStays DEF OutputChange
  <2> DEFINE d == [screen EXCEPT !.deferred = FALSE]
  <2>3. d \in Screen /\ d.calls = screen.calls /\ d.afterLocked = screen.afterLocked
    BY <1>0 DEF Screen
  <2>4. CASE screen' \in {screen, Lock(d, there)}
    <3> HIDE DEF d
    <3>1. Owed(screen') = Owed(screen) /\ (screen'.afterLocked => screen.afterLocked)
      BY <1>0, <2>3, <2>4, LockOwes, LockWaits, OwesTheSame
    <3> QED  BY <1>m, <2>2, <3>1
  <2>5. ASSUME NEW y \in Syncs(screen, there),
               \/ screen' = y
               \/ \E t \in Leave(y, y.surfaces \ screen.surfaces) : screen' = TryFinish(t)
        PROVE  Goal
    <3>1. /\ y \in Screen /\ y.calls = screen.calls /\ y.afterLocked = screen.afterLocked
          /\ y.surfaces \in SUBSET Output
      <4>1. screen \in Screen
        BY <1>0
      <4> QED  BY <4>1, SyncTyped, SyncKeeps
    <3> y.surfaces \ screen.surfaces \in SUBSET Output
      BY <3>1
    <3>2. Owed(y) = Owed(screen)
      BY <1>0, <3>1, OwesTheSame
    <3>3. ASSUME NEW t \in Leave(y, y.surfaces \ screen.surfaces), screen' = TryFinish(t)
          PROVE  Owed(screen') = Owed(screen) /\ screen'.afterLocked = screen.afterLocked
      <4>1. t \in Screen /\ Owed(TryFinish(t)) = Owed(y)
        BY <3>1, LeaveOwes
      <4>2. t.afterLocked = y.afterLocked
        BY <3>1 DEF Leave, Screen
      <4> QED  BY <3>1, <3>2, <3>3, <4>1, <4>2, DispatchWaits
    <3>4. Owed(screen') = Owed(screen) /\ (screen'.afterLocked => screen.afterLocked)
      BY <2>5, <3>1, <3>2, <3>3
    <3> QED  BY <1>m, <2>2, <3>4
  <2> QED  BY <2>1, <2>4, <2>5 DEF OutputsSeen
<1>12. CASE ConfigChange \/ UnlockSession \/ FingerprintMatches
  <2>1. (screen' = screen \/ Unlock(screen)) /\ count' = count
    BY <1>12 DEF ConfigChange, UnlockSession, FingerprintMatches, others
  <2>2. CASE screen' = screen
    BY <1>m, <2>1, <2>2
  <2>3. CASE ~screen'.afterLocked /\ (~Active(screen') \/ screen'.unlocking)
    BY <1>k, <2>1, <2>3, KeepsNone
  <2> QED  BY <1>0, <2>1, <2>2, <2>3, UnlockWaits
<1>13. CASE RunAction
  <2>1. /\ screen.calls # <<>> /\ Head(screen.calls) = "action"
        /\ screen' = [screen EXCEPT !.calls = Tail(@)]
        /\ count' = [count EXCEPT !.run = @ + 1]
    BY <1>13 DEF RunAction
  <2>2. Owed(screen') + 1 = Owed(screen)
    <3>1. One(Head(screen.calls)) = 1
      BY <2>1 DEF One
    <3> QED  BY <1>0, <2>1, <3>1, TailOwes
  <2>3. screen'.lock = screen.lock /\ screen'.starting = screen.starting
        /\ screen'.afterLocked = screen.afterLocked
    BY <1>0, <2>1 DEF Screen
  <2>4. count.run \in Nat /\ count'.run = count.run + 1
    BY <1>c, <2>1
  <2> QED  BY <1>0, <2>2, <2>3, <2>4 DEF Carries, Stranded, Active
<1>14. CASE RunFinish
  <2> DEFINE s == [screen EXCEPT !.calls = Tail(@)]
  <2>1. /\ s \in Screen /\ s.lock = screen.lock /\ s.starting = screen.starting
        /\ s.unlocking = screen.unlocking
    BY <1>0, <1>14, TailSame DEF RunFinish, SameButOwed
  <2>2. s.afterLocked = screen.afterLocked
    BY <1>0 DEF Screen
  <2>3. Owed(s) = Owed(screen)
    <3>1. One(Head(screen.calls)) = 0
      BY <1>14 DEF RunFinish, One
    <3>2. Owed(s) + 0 = Owed(screen)
      BY <1>0, <1>14, <3>1, TailOwes DEF RunFinish
    <3> QED  BY <1>0, <2>1, <3>2, OwedIsNat
  <2>4. /\ \/ s.unlocking /\ screen' = Released(s)
           \/ screen' = s
        /\ count' = count
    BY <1>14 DEF RunFinish, FinishUnlock
  <2> HIDE DEF s
  <2>5. CASE s.unlocking /\ screen' = Released(s)
    <3>1. ~Active(screen')
      BY <2>1, <2>5, ReleasedWaits
    <3> QED  BY <1>k, <2>1, <2>4, <2>5, <3>1 DEF Carries
  <2>6. CASE screen' = s
    BY <1>m, <2>1, <2>2, <2>3, <2>4, <2>6
  <2> QED  BY <2>4, <2>5, <2>6
<1>15. ASSUME NEW a \in Attempt, Authenticate(a) \/ ThreadEnds(a) \/ AuthResult(a)
       PROVE  Goal
  <2>1. CASE Authenticate(a) \/ ThreadEnds(a)
    <3>1. /\ screen'.calls = screen.calls /\ screen'.afterLocked = screen.afterLocked
          /\ count' = count
      BY <1>0, <2>1 DEF Authenticate, ThreadEnds, Screen
    <3>2. screen'.lock = screen.lock /\ (screen.starting => screen'.starting)
      BY <2>1, LockStays
    <3> QED  BY <1>0, <1>m, <3>1, <3>2, OwesTheSame
  <2>2. CASE AuthResult(a)
    <3> DEFINE s == [screen EXCEPT !.authenticating = FALSE]
               r == [s EXCEPT !.reader = TRUE]
    <3>1. /\ s \in Screen /\ s.calls = screen.calls /\ s.afterLocked = screen.afterLocked
          /\ r \in Screen /\ r.calls = screen.calls /\ r.afterLocked = screen.afterLocked
          /\ s.lock = screen.lock /\ s.starting = screen.starting
          /\ r.lock = screen.lock /\ r.starting = screen.starting
      BY <1>0 DEF Screen
    <3>2. (screen' = screen \/ Unlock(s) \/ screen' = r) /\ count' = count
      BY <2>2 DEF AuthResult
    <3>3. Whole(s)
      BY <1>0 DEF Whole, Screen, Active
    <3> HIDE DEF s, r
    <3>4. Owed(s) = Owed(screen) /\ Owed(r) = Owed(screen)
      BY <1>0, <3>1, OwesTheSame
    <3>5. CASE screen' \in {screen, s, r}
      BY <1>m, <3>1, <3>2, <3>4, <3>5
    <3>6. CASE ~screen'.afterLocked /\ (~Active(screen') \/ screen'.unlocking)
      BY <1>k, <3>2, <3>6, KeepsNone
    <3> QED  BY <3>2, <3>3, <3>5, <3>6, UnlockWaits
  <2> QED  BY <1>15, <2>1, <2>2
<1> QED  BY <1>1, <1>2, <1>3, <1>4, <1>5, <1>6, <1>7, <1>8, <1>9, <1>10, <1>11, <1>12,
            <1>13, <1>14, <1>15 DEF Next

\* An action that waits for a lock is never left behind for a later one, nor
\* lost while its lock is there (runAfterSessionLocked, unlock, handleFinished).
THEOREM ActionsKeepTheirLock == SessionSpec => ActionKeepsItsLock
<1>1. SessionInv /\ SessionInv' /\ [SessionNext]_sessionVars =>
        [/\ Stranded(screen') => Stranded(screen) \/ screen.unlocking
         /\ Owed(screen') + count'.run < Owed(screen) + count.run
               => ~Active(screen') \/ screen'.unlocking]_vars
  <2> SUFFICES ASSUME SessionInv, SessionInv', [SessionNext]_sessionVars
               PROVE  /\ Stranded(screen') => Stranded(screen) \/ screen.unlocking
                      /\ Owed(screen') + count'.run < Owed(screen) + count.run
                            => ~Active(screen') \/ screen'.unlocking
    OBVIOUS
  <2>0. Owed(screen) \in Nat /\ Owed(screen') \in Nat /\ count.run \in Nat
    <3>1. screen \in Screen /\ screen' \in Screen
      BY DEF SessionInv, LockInv, Whole
    <3>2. count.run \in Nat
      BY DEF SessionInv, OwedInv
    <3> QED  BY <3>1, <3>2, OwedIsNat
  <2>1. CASE [Next]_vars
    <3>1. /\ count.run \in Nat /\ count'.run \in Nat
          /\ Carries(screen, screen', count'.run - count.run)
      BY <2>1, NextKeeps DEF SessionInv
    <3> QED  BY <2>0, <3>1 DEF Carries
  <2>2. CASE SuspendByMenu
    <3>1. screen' = screen /\ count'.run = count.run
      BY <2>2 DEF SuspendByMenu, SessionInv, OwedInv
    <3> QED  BY <2>0, <3>1
  <2>3. CASE UNCHANGED sessionVars
    <3>1. screen' = screen /\ count'.run = count.run
      BY <2>3 DEF sessionVars, vars
    <3> QED  BY <2>0, <3>1
  <2> QED  BY <2>1, <2>2, <2>3, SessionIsLock
<1> QED  BY <1>1, SessionInvariant, PTL DEF SessionSpec, ActionKeepsItsLock
=============================================================================
