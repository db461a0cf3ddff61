--------------------------- MODULE MainLoop_proofs ---------------------------
(***************************************************************************)
(* The main loop drives the timer manager, so what is proved of the timers *)
(* holds in it; and it does not sleep past a timer or a posted call.        *)
(***************************************************************************)
EXTENDS MainLoop, TimerManager_proofs, WellFoundedInduction

\* Min() finds the least of some numbers.
LEMMA LeastExists ==
    ASSUME NEW S \in SUBSET Nat, S # {}
    PROVE  Min(S) \in S /\ \A y \in S : Min(S) <= y
<1>1. \E x \in S : \A y \in S : <<y, x>> \notin OpToRel(<, Nat)
    BY NatLessThanWellFounded, WFMin
<1>2. \A x, y \in Nat : y < x => <<y, x>> \in OpToRel(<, Nat)
    <2> TAKE x, y \in Nat
    <2> HAVE y < x
    <2>1. <<y, x>> \in Nat \X Nat /\ <<y, x>>[1] = y /\ <<y, x>>[2] = x
        OBVIOUS
    <2> QED  BY <2>1, Zenon DEF OpToRel
<1>3. \E x \in S : \A y \in S : ~(y < x)
    BY <1>1, <1>2
<1>4. \E x \in S : \A y \in S : x <= y
    BY <1>3
<1> QED  BY <1>4 DEF Min

LEMMA EmptySequence == <<>> \in Seq(Calls)
OBVIOUS

-----------------------------------------------------------------------------
(* The loop uses the timers by their operations only. *)

LEMMA LoopStepsTimers == [Next]_vars => [TimerNext]_timerVars
<1> SUFFICES ASSUME [Next]_vars
             PROVE  TimerNext \/ UNCHANGED timerVars
    OBVIOUS
<1>1. CASE LoopStep
    BY <1>1 DEF LoopStep, TopOfLoop, RunCall, BeginPoll, Wake, PollReturns, Dispatch,
                DrainPipe, TakeDrained, PostedDone, BeginTick, Tick, EndTick, EndPass,
                TimerNext
<1>2. CASE PollReturns \/ Interrupted
    BY <1>2 DEF PollReturns, Interrupted
<1>3. CASE UseTimers
    BY <1>3 DEF UseTimers, TimerNext
<1>4. CASE Post
    BY <1>4 DEF Post, Push, PostHere
<1>5. CASE \E t \in Threads : WriteByte(t)
    BY <1>5 DEF WriteByte
<1>6. CASE TimePasses
    BY <1>6 DEF TimePasses, TimerNext
<1>7. CASE UNCHANGED vars
    BY <1>7 DEF vars
<1> QED  BY <1>1, <1>2, <1>3, <1>4, <1>5, <1>6, <1>7 DEF Next

LEMMA LoopRunsTimers == Spec => TimerSpec
BY LoopStepsTimers, PTL DEF Spec, Init, TimerSpec

-----------------------------------------------------------------------------
(* The loop's own variables. *)

LoopTypes ==
    /\ pc \in {"top", "calls", "poll", "events", "sources", "drained", "posted", "tick"}
    /\ queue \in Seq(Calls)
    /\ batch \in Seq(Calls)
    /\ byte \in BOOLEAN
    /\ posting \subseteq Threads
    /\ deadline \in 0..MaxDelay \cup {NoTime}
    /\ flushBlocked \in BOOLEAN
    /\ timeout \in 0..MaxSleep \cup {NoTime}
    /\ callsReady \in BOOLEAN
    /\ woken \subseteq Sources

\* Whatever is posted has its byte in the pipe or on its way, except between
\* the drain of the pipe and that of the queue.
CallsAnnounced == queue # <<>> /\ pc # "drained" => byte \/ posting # {}

LEMMA SleepBounds ==
    /\ MaxDelay \in Nat /\ NoTime \notin 0..MaxDelay
    /\ MaxSleep \in Nat /\ NoTime \notin 0..MaxSleep
BY TimerAssumption, LoopAssumption DEF MaxSleep

\* What the loop asks poll() to wait for.
LEMMA DeadlineIsSoonest ==
    ASSUME TimerTypeOK, deadline \in 0..MaxDelay \cup {NoTime}
    PROVE  /\ NextDeadline \in 0..MaxDelay \cup {NoTime}
           /\ \A id \in Ids : InTable(id) =>
                 NextDeadline # NoTime /\ NextDeadline <= entries[id].left
<1> DEFINE S == PollTimeouts \cup ({deadline} \ {NoTime})
<1>1. \A id \in Ids : InTable(id) => entries[id].left \in 0..MaxDelay
    BY DEF TimerTypeOK, InTable, Entry
<1>2. PollTimeouts \subseteq 0..MaxDelay
    BY <1>1 DEF PollTimeouts
<1>3. S \subseteq 0..MaxDelay /\ S \in SUBSET Nat
    <2>1. S \subseteq 0..MaxDelay
        BY <1>2
    <2>2. 0..MaxDelay \subseteq Nat
        BY TimerAssumption
    <2> QED  BY <2>1, <2>2
<1>4. ASSUME NEW id \in Ids, InTable(id)
      PROVE  entries[id].left \in S
    BY <1>4 DEF PollTimeouts
<1>5. CASE TableEmpty
    BY <1>5 DEF NextDeadline, TableEmpty
<1>6. CASE ~TableEmpty
    <2>1. S # {} /\ NextDeadline = Min(S)
        BY <1>4, <1>6 DEF NextDeadline, TableEmpty
    <2> HIDE DEF S
    <2>2. NextDeadline \in S /\ \A y \in S : NextDeadline <= y
        BY <1>3, <2>1, LeastExists
    <2> QED  BY <1>3, <1>4, <2>2, SleepBounds
<1> QED  BY <1>5, <1>6

\* How long poll() is told to wait: as long, or for the floor.
LEMMA TimeoutIsSoon ==
    ASSUME NEW blocked \in BOOLEAN, NextDeadline \in 0..MaxDelay \cup {NoTime}
    PROVE  /\ PollTimeout(blocked) \in 0..MaxSleep \cup {NoTime}
           /\ NextDeadline # NoTime =>
                 /\ PollTimeout(blocked) # NoTime
                 /\ \/ PollTimeout(blocked) <= NextDeadline
                    \/ blocked /\ PollTimeout(blocked) <= FlushFloor
<1>1. MaxDelay \in Nat /\ FlushFloor \in Nat
    BY TimerAssumption, LoopAssumption
<1>2. MaxSleep = MaxDelay + FlushFloor
    BY DEF MaxSleep
<1>3. CASE NextDeadline = NoTime
    BY <1>3 DEF PollTimeout
<1>4. CASE NextDeadline \in 0..MaxDelay
    <2>1. NextDeadline \in 0..MaxSleep /\ FlushFloor \in 0..MaxSleep
        BY <1>1, <1>2, <1>4
    <2>2. \/ PollTimeout(blocked) = NextDeadline
          \/ blocked /\ PollTimeout(blocked) = FlushFloor
        BY Zenon DEF PollTimeout
    <2>3. PollTimeout(blocked) # NoTime
        BY <2>1, <2>2, SleepBounds
    <2> QED  BY <1>1, <2>1, <2>2, <2>3
<1> QED  BY <1>3, <1>4

\* A while later less is left.
LEMMA LessTime ==
    ASSUME NEW n \in Nat, NoTime \notin 0..n, NEW time \in 0..n \cup {NoTime}
    PROVE  /\ Less(time) \in 0..n \cup {NoTime}
           /\ time # NoTime => /\ Less(time) \in 0..n
                               /\ Less(time) # NoTime
                               /\ Less(time) = IF time = 0 THEN 0 ELSE time - 1
<1>1. CASE time = NoTime
    BY <1>1 DEF Less
<1>2. CASE time \in 0..n
    <2>1. Less(time) = IF time = 0 THEN 0 ELSE time - 1
        BY <1>2 DEF Less
    <2>2. Less(time) \in 0..n
        BY <1>2, <2>1
    <2> QED  BY <2>1, <2>2
<1> QED  BY <1>1, <1>2

LEMMA InitLoop == Init => LoopTypes /\ CallsAnnounced /\ SleepsNoLonger
<1> SUFFICES ASSUME Init PROVE LoopTypes /\ CallsAnnounced /\ SleepsNoLonger
    OBVIOUS
<1>1. LoopTypes
    BY EmptySequence DEF Init, LoopTypes
<1>2. CallsAnnounced /\ SleepsNoLonger
    BY DEF Init, CallsAnnounced, SleepsNoLonger
<1> QED  BY <1>1, <1>2

LEMMA StepTypes == Inv /\ LoopTypes /\ [Next]_vars => LoopTypes'
<1> SUFFICES ASSUME Inv, LoopTypes, [Next]_vars PROVE LoopTypes'
    OBVIOUS
<1>1. CASE TopOfLoop \/ TakeDrained
    <2>1. queue' = <<>> /\ batch' = queue
        BY <1>1 DEF TopOfLoop, TakeDrained, TakePending
    <2>2. /\ pc' \in {"calls", "posted"}
          /\ UNCHANGED <<byte, posting, deadline, pollVars, callsReady, woken>>
        BY <1>1 DEF TopOfLoop, TakeDrained
    <2> QED  BY <2>1, <2>2, EmptySequence DEF LoopTypes, pollVars
<1>2. CASE RunCall
    <2>1. batch' \in Seq(Calls)
        BY <1>2 DEF RunCall, LoopTypes
    <2> QED  BY <1>2, <2>1 DEF RunCall, LoopTypes, pollVars
<1>3. CASE BeginPoll
    <2>1. deadline' \in 0..MaxDelay \cup {NoTime}
        BY <1>3, DeadlineIsSoonest DEF BeginPoll, LoopTypes, Inv
    <2>2. flushBlocked' \in BOOLEAN /\ timeout' \in 0..MaxSleep \cup {NoTime}
        BY <1>3, <2>1, TimeoutIsSoon DEF BeginPoll
    <2> QED  BY <1>3, <2>1, <2>2 DEF BeginPoll, LoopTypes
<1>4. CASE PollReturns \/ Interrupted
    BY <1>4 DEF PollReturns, Interrupted, PollOver, LoopTypes
<1>5. CASE Dispatch \/ DrainPipe \/ PostedDone \/ EndTick \/ EndPass
    BY <1>5 DEF Dispatch, DrainPipe, PostedDone, EndTick, EndPass, LoopTypes, pollVars
<1>6. CASE BeginTick
    BY <1>6 DEF BeginTick, LoopTypes, pollVars
<1>7. CASE Tick \/ UseTimers
    BY <1>7 DEF Tick, UseTimers, loopVars, LoopTypes, pollVars
<1>8. CASE Post
    <2>1. \A c \in Calls : Append(queue, c) \in Seq(Calls)
        BY DEF LoopTypes
    <2> QED  BY <1>8, <2>1 DEF Post, Push, PostHere, LoopTypes, pollVars
<1>9. CASE \E t \in Threads : WriteByte(t)
    BY <1>9 DEF WriteByte, LoopTypes, pollVars
<1>10. CASE TimePasses
    <2>1. deadline' \in 0..MaxDelay \cup {NoTime}
        BY <1>10, SleepBounds, LessTime DEF TimePasses, LoopTypes
    <2>2. timeout' \in 0..MaxSleep \cup {NoTime}
        BY <1>10, SleepBounds, LessTime DEF TimePasses, LoopTypes
    <2> QED  BY <1>10, <2>1, <2>2 DEF TimePasses, LoopTypes
<1>11. CASE UNCHANGED vars
    BY <1>11 DEF vars, loopVars, pollVars, LoopTypes
<1> QED  BY <1>1, <1>2, <1>3, <1>4, <1>5, <1>6, <1>7, <1>8, <1>9, <1>10, <1>11
         DEF Next, LoopStep, Wake

LEMMA StepAnnounced == LoopTypes /\ CallsAnnounced /\ [Next]_vars => CallsAnnounced'
<1> SUFFICES ASSUME LoopTypes, CallsAnnounced, [Next]_vars PROVE CallsAnnounced'
    OBVIOUS
<1>1. CASE LoopStep \/ PollReturns \/ Interrupted
    BY <1>1 DEF LoopStep, TopOfLoop, TakeDrained, TakePending, RunCall, BeginPoll, Wake,
                PollReturns, Interrupted, Dispatch, DrainPipe, PostedDone, BeginTick,
                Tick, EndTick, EndPass, loopVars, CallsAnnounced
<1>2. CASE UseTimers \/ TimePasses
    BY <1>2 DEF UseTimers, TimePasses, loopVars, CallsAnnounced
<1>3. CASE Post
    BY <1>3 DEF Post, Push, PostHere, CallsAnnounced
<1>4. CASE \E t \in Threads : WriteByte(t)
    BY <1>4 DEF WriteByte, CallsAnnounced
<1>5. CASE UNCHANGED vars
    BY <1>5 DEF vars, loopVars, CallsAnnounced
<1> QED  BY <1>1, <1>2, <1>3, <1>4, <1>5 DEF Next

\* What SleepsNoLonger says of a timer of the table.
NotPast(id) ==
    /\ deadline # NoTime /\ deadline <= entries[id].left
    /\ timeout # NoTime
    /\ \/ timeout <= entries[id].left
       \/ flushBlocked /\ timeout <= FlushFloor

LEMMA StepSleeps == Inv /\ LoopTypes /\ SleepsNoLonger /\ [Next]_vars => SleepsNoLonger'
<1> SUFFICES ASSUME Inv, LoopTypes, SleepsNoLonger, [Next]_vars, pc' = "poll"
             PROVE  \A id \in Ids : InTable(id)' => NotPast(id)'
    BY DEF SleepsNoLonger, NotPast
<1>1. CASE BeginPoll
    <2>1. /\ entries' = entries /\ deadline' = NextDeadline
          /\ flushBlocked' \in BOOLEAN /\ timeout' = PollTimeout(flushBlocked')
        BY <1>1 DEF BeginPoll, timerVars
    <2> SUFFICES ASSUME NEW id \in Ids, InTable(id)'
                 PROVE  NotPast(id)'
        OBVIOUS
    <2>2. InTable(id) /\ entries[id].left \in 0..MaxDelay
        BY <2>1 DEF InTable, Inv, TimerTypeOK, Entry
    <2>3. NextDeadline \in 0..MaxDelay \cup {NoTime} /\ NextDeadline # NoTime
          /\ NextDeadline <= entries[id].left
        BY <2>2, DeadlineIsSoonest DEF LoopTypes, Inv
    <2>4. /\ timeout' \in 0..MaxSleep \cup {NoTime} /\ timeout' # NoTime
          /\ \/ timeout' <= NextDeadline
             \/ flushBlocked' /\ timeout' <= FlushFloor
        BY <2>1, <2>3, TimeoutIsSoon, Zenon
    <2>5. timeout' <= NextDeadline => timeout' <= entries[id].left
        BY <2>2, <2>3, <2>4, SleepBounds
    <2> QED  BY <2>1, <2>3, <2>4, <2>5 DEF NotPast
<1>2. CASE TimePasses
    <2>1. pc = "poll"
        BY <1>2 DEF TimePasses
    <2> SUFFICES ASSUME NEW id \in Ids, InTable(id)'
                 PROVE  NotPast(id)'
        OBVIOUS
    <2>2. entries'[id] = Older(entries[id]) /\ entries[id] \in Entry \cup {NoEntry}
        BY <1>2 DEF TimePasses, Elapse, Inv, TimerTypeOK
    <2>3. InTable(id) /\ entries[id] \in Entry /\ entries[id] # NoEntry
        BY <2>2, OlderEntry DEF InTable
    <2>4. entries[id].left \in 0..MaxDelay
        BY <2>3 DEF Entry
    <2>5. entries'[id].left = IF entries[id].left = 0 THEN 0 ELSE entries[id].left - 1
        <3>1. CASE entries[id].left = 0
            BY <2>2, <2>3, <3>1, OlderEntry
        <3>2. CASE entries[id].left # 0
            BY <2>2, <2>3, <2>4, <3>2 DEF Older, Entry
        <3> QED  BY <3>1, <3>2
    <2>6. /\ deadline \in 0..MaxDelay /\ deadline <= entries[id].left
          /\ timeout \in 0..MaxSleep
          /\ \/ timeout <= entries[id].left
             \/ flushBlocked /\ timeout <= FlushFloor
        <3>1. NotPast(id)
            BY <2>1, <2>3, Zenon DEF SleepsNoLonger, NotPast
        <3>2. /\ deadline \in 0..MaxDelay \cup {NoTime}
              /\ timeout \in 0..MaxSleep \cup {NoTime}
            BY DEF LoopTypes
        <3> QED  BY <3>1, <3>2, Zenon DEF NotPast
    <2>7. /\ deadline' \in 0..MaxDelay /\ deadline' # NoTime
          /\ deadline' = IF deadline = 0 THEN 0 ELSE deadline - 1
        BY <1>2, <2>6, SleepBounds, LessTime DEF TimePasses
    <2>8. /\ timeout' \in 0..MaxSleep /\ timeout' # NoTime
          /\ timeout' = IF timeout = 0 THEN 0 ELSE timeout - 1
        BY <1>2, <2>6, SleepBounds, LessTime DEF TimePasses
    <2>9. deadline' <= entries'[id].left
        BY <2>4, <2>5, <2>6, <2>7, SleepBounds
    <2>10. timeout <= entries[id].left => timeout' <= entries'[id].left
        BY <2>4, <2>5, <2>6, <2>8, SleepBounds
    <2>11. timeout <= FlushFloor => timeout' <= FlushFloor
        BY <2>6, <2>8, SleepBounds, LoopAssumption
    <2>12. flushBlocked' = flushBlocked
        BY <1>2 DEF TimePasses
    <2> QED  BY <2>6, <2>7, <2>8, <2>9, <2>10, <2>11, <2>12 DEF NotPast
<1>3. ASSUME pc = "poll", UNCHANGED <<timerVars, deadline, pollVars>>
      PROVE  \A id \in Ids : InTable(id)' => NotPast(id)'
    BY <1>3 DEF SleepsNoLonger, NotPast, timerVars, pollVars, InTable
<1>4. CASE UNCHANGED vars
    BY <1>3, <1>4 DEF vars, loopVars
<1>5. CASE Post \/ \E t \in Threads : WriteByte(t)
    BY <1>3, <1>5 DEF Post, Push, PostHere, WriteByte
<1>6. CASE UseTimers \/ Tick
    BY <1>6 DEF UseTimers, Tick, Handling, loopVars
<1>7. CASE PollReturns \/ Interrupted \/ TopOfLoop \/ Dispatch \/ DrainPipe \/ TakeDrained
           \/ PostedDone \/ BeginTick \/ EndTick \/ EndPass \/ RunCall
    BY <1>7 DEF PollReturns, Interrupted, TopOfLoop, Dispatch, DrainPipe, TakeDrained,
                PostedDone, BeginTick, EndTick, EndPass, RunCall
<1> QED  BY <1>1, <1>2, <1>4, <1>5, <1>6, <1>7 DEF Next, LoopStep, Wake

-----------------------------------------------------------------------------
(* Theorems. *)

\* In the loop too the timers are the timer service: whatever handlers and
\* callbacks do, no timer is called early, after it was cancelled or twice.
THEOREM LoopImplementsService == Spec => ServiceIsImplemented
BY LoopRunsTimers, TimersImplementService, PTL

\* The loop never sleeps past a posted call, nor past a timer but for what is
\* left of the floor when the Wayland socket is full, active() tells the truth,
\* and everything keeps to its range (app/main_loop.cpp).
THEOREM LoopSound == Spec => []LoopIsSound
<1>1. Spec => []Inv
    BY LoopRunsTimers, InvAlways, PTL
<1>2. Spec => []ActiveIsExact
    BY LoopRunsTimers, ActiveExact, PTL
<1>3. Spec => [](LoopTypes /\ CallsAnnounced /\ SleepsNoLonger)
    <2>1. Init => LoopTypes /\ CallsAnnounced /\ SleepsNoLonger
        BY InitLoop
    <2>2. Inv /\ (LoopTypes /\ CallsAnnounced /\ SleepsNoLonger) /\ [Next]_vars
              => (LoopTypes /\ CallsAnnounced /\ SleepsNoLonger)'
        BY StepTypes, StepAnnounced, StepSleeps
    <2> QED  BY <1>1, <2>1, <2>2, PTL DEF Spec
<1>4. Inv /\ ActiveIsExact /\ LoopTypes /\ CallsAnnounced /\ SleepsNoLonger => LoopIsSound
    BY DEF LoopIsSound, TypeOK, Inv, LoopTypes, CallsAnnounced, NoLostCall
<1> QED  BY <1>1, <1>2, <1>3, <1>4, PTL
=============================================================================
