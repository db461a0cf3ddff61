------------------------------ MODULE MainLoop ------------------------------
(***************************************************************************)
(* app/main_loop.cpp with the two sources everything else hangs on: the     *)
(* timer manager and core/deferred_call.cpp, by which any thread has the    *)
(* main thread call something later.  One turn of the loop runs the calls   *)
(* posted so far, works out how long it may sleep, polls, dispatches        *)
(* Wayland events and then the sources that woke.                           *)
(***************************************************************************)
EXTENDS TimerManager, SequencesExt

CONSTANTS
    Calls,      \* the calls that can be posted; each is queued at most once
    Threads,    \* the threads that post, besides the main thread
    NoTime,     \* no deadline
    FlushFloor  \* the least a poll lasts while the Wayland socket is full

\* A delay or the floor is the longest poll.
MaxSleep == MaxDelay + FlushFloor

ASSUME LoopAssumption == FlushFloor \in Nat /\ NoTime \notin 0..MaxSleep

VARIABLES
    pc,         \* where run() is
    queue,      \* DeferredCall::queue()
    batch,      \* the calls taken from it that have still to run
    byte,       \* the wake pipe holds a byte
    posting,    \* threads between the push and the write of callLater()
    deadline,   \* m_sourceDeadlines of the timer source: what is left of it
    flushBlocked, \* the Wayland socket would take no more before this poll
    timeout,    \* pollTimeout of this poll: what is left of it
    callsReady, \* poll() reported the wake pipe
    woken       \* the sources this pass has still to dispatch

pollVars == <<flushBlocked, timeout>>
loopVars == <<pc, queue, batch, byte, posting, deadline, pollVars, callsReady, woken>>
vars == <<timerVars, loopVars>>

Sources == {"calls", "timers"}

Init ==
    /\ TimerInit
    /\ pc = "top"
    /\ queue = <<>>
    /\ batch = <<>>
    /\ byte = FALSE
    /\ posting = {}
    /\ deadline = NoTime
    /\ flushBlocked = FALSE
    /\ timeout = NoTime
    /\ callsReady = FALSE
    /\ woken = {}

-----------------------------------------------------------------------------
(* Posted calls. *)

CanPost(c) == ~Contains(queue, c)

\* callLater() on a thread of its own: the push, then the byte.
Push(t, c) ==
    /\ t \notin posting
    /\ CanPost(c)
    /\ queue' = Append(queue, c)
    /\ posting' = posting \cup {t}
    /\ UNCHANGED <<timerVars, pc, batch, byte, deadline, pollVars, callsReady, woken>>

WriteByte(t) ==
    /\ t \in posting
    /\ byte' = TRUE
    /\ posting' = posting \ {t}
    /\ UNCHANGED <<timerVars, pc, queue, batch, deadline, pollVars, callsReady, woken>>

\* callLater() on the main thread.
PostHere(c) ==
    /\ CanPost(c)
    /\ queue' = Append(queue, c)
    /\ byte' = TRUE
    /\ UNCHANGED <<timerVars, pc, batch, posting, deadline, pollVars, callsReady, woken>>

\* takePending(): what is posted from now on waits for the next batch.
TakePending ==
    /\ batch' = queue
    /\ queue' = <<>>

\* Mutant: the queue is drained until it is empty.
RunCallUntilEmpty ==
    /\ pc \in {"calls", "posted"}
    /\ batch # <<>>
    /\ batch' = Tail(batch) \o queue
    /\ queue' = <<>>
    /\ UNCHANGED <<timerVars, pc, byte, posting, deadline, pollVars, callsReady, woken>>

\* A posted call runs, as a handler of the main thread.
RunCall ==
    /\ pc \in {"calls", "posted"}
    /\ batch # <<>>
    /\ batch' = Tail(batch)
    /\ UNCHANGED <<timerVars, pc, queue, byte, posting, deadline, pollVars, callsReady, woken>>

\* Deferred calls, Wayland events, other sources and timer callbacks all run
\* code that uses timers and posts calls.
Handling ==
    \/ pc \in {"calls", "events", "posted", "sources"}
    \/ pc = "tick" /\ current # 0

UseTimers ==
    /\ Handling
    /\ Handle
    /\ UNCHANGED loopVars

-----------------------------------------------------------------------------
(* The loop. *)

TopOfLoop ==
    /\ pc = "top"
    /\ TakePending
    /\ pc' = "calls"
    /\ UNCHANGED <<timerVars, byte, posting, deadline, pollVars, callsReady, woken>>

\* Mutant: the deadline of the first request is kept.
NextDeadlineKept ==
    IF TableEmpty THEN NoTime
    ELSE IF deadline # NoTime THEN deadline ELSE Min(PollTimeouts)

\* The timer source's deadline: set when it first asks for one, only ever
\* brought forward while the source has not been dispatched.
NextDeadline ==
    IF TableEmpty THEN NoTime
    ELSE Min(PollTimeouts \cup ({deadline} \ {NoTime}))

\* A timed poll lasts for the floor at least while the socket is full.
PollTimeout(blocked) ==
    IF blocked /\ NextDeadline # NoTime /\ NextDeadline < FlushFloor
    THEN FlushFloor ELSE NextDeadline

\* The timeout of 0 for frame work left is a poll that another source ends.
BeginPoll ==
    /\ pc = "calls"
    /\ batch = <<>>
    /\ deadline' = NextDeadline
    /\ flushBlocked' \in BOOLEAN
    /\ timeout' = PollTimeout(flushBlocked')
    /\ pc' = "poll"
    /\ UNCHANGED <<timerVars, queue, batch, byte, posting, callsReady, woken>>

PollOver == flushBlocked' = FALSE /\ timeout' = NoTime

\* poll() returns for the pipe, at its timeout, or for another source: events
\* of Wayland, and room in a socket that was full, among them.
PollReturns ==
    /\ pc = "poll"
    /\ callsReady' = byte
    /\ pc' = "events"
    /\ PollOver
    /\ UNCHANGED <<timerVars, queue, batch, byte, posting, deadline, woken>>

MustWake == pc = "poll" /\ (byte \/ timeout = 0)

Wake == MustWake /\ PollReturns

\* EINTR, when no descriptor is ready: the next turn begins, the deadline stays.
Interrupted ==
    /\ pc = "poll"
    /\ ~byte
    /\ pc' = "top"
    /\ PollOver
    /\ UNCHANGED <<timerVars, queue, batch, byte, posting, deadline, callsReady, woken>>

\* Wayland events are done; the sources that woke are known.
Dispatch ==
    /\ pc = "events"
    /\ woken' = {s \in Sources : IF s = "calls" THEN callsReady ELSE deadline = 0}
    /\ callsReady' = FALSE
    /\ pc' = "sources"
    /\ UNCHANGED <<timerVars, queue, batch, byte, posting, deadline, pollVars>>

DrainPipe ==
    /\ pc = "sources"
    /\ "calls" \in woken
    /\ woken' = woken \ {"calls"}
    /\ byte' = FALSE
    /\ pc' = "drained"
    /\ UNCHANGED <<timerVars, queue, batch, posting, deadline, pollVars, callsReady>>

TakeDrained ==
    /\ pc = "drained"
    /\ TakePending
    /\ pc' = "posted"
    /\ UNCHANGED <<timerVars, byte, posting, deadline, pollVars, callsReady, woken>>

PostedDone ==
    /\ pc = "posted"
    /\ batch = <<>>
    /\ pc' = "sources"
    /\ UNCHANGED <<timerVars, queue, batch, byte, posting, deadline, pollVars, callsReady, woken>>

BeginTick ==
    /\ pc = "sources"
    /\ woken = {"timers"}
    /\ TickBegins
    /\ woken' = {}
    /\ deadline' = NoTime
    /\ pc' = "tick"
    /\ UNCHANGED <<queue, batch, byte, posting, pollVars, callsReady>>

Tick ==
    /\ pc = "tick"
    /\ \/ \E id \in Ids : TickSkips(id) \/ TickCalls(id)
       \/ TickReturns
    /\ UNCHANGED loopVars

EndTick ==
    /\ pc = "tick"
    /\ NothingDue
    /\ pc' = "sources"
    /\ UNCHANGED <<timerVars, queue, batch, byte, posting, deadline, pollVars, callsReady, woken>>

EndPass ==
    /\ pc = "sources"
    /\ woken = {}
    /\ pc' = "top"
    /\ UNCHANGED <<timerVars, queue, batch, byte, posting, deadline, pollVars, callsReady, woken>>

Less(time) == IF time \in {NoTime, 0} THEN time ELSE time - 1

\* Time passes, in handlers and in poll().
TimePasses ==
    /\ Elapse
    /\ deadline' = Less(deadline)
    /\ timeout' = Less(timeout)
    /\ UNCHANGED <<pc, queue, batch, byte, posting, flushBlocked, callsReady, woken>>

Post ==
    \E c \in Calls : \/ \E t \in Threads : Push(t, c)
                     \/ Handling /\ PostHere(c)

LoopStep ==
    \/ TopOfLoop \/ RunCall \/ BeginPoll \/ Wake
    \/ Dispatch \/ DrainPipe \/ TakeDrained \/ PostedDone
    \/ BeginTick \/ Tick \/ EndTick \/ EndPass

Next ==
    \/ LoopStep
    \/ PollReturns \/ Interrupted
    \/ UseTimers
    \/ Post
    \/ \E t \in Threads : WriteByte(t)
    \/ TimePasses

Spec == Init /\ [][Next]_vars

\* Handlers end and the loop goes on, time passes, and callLater() ends.  The
\* shell handles two signals only, which ask it to end: they do not interrupt
\* poll() for ever.
FairSpec ==
    /\ Spec
    /\ WF_vars(LoopStep)
    /\ WF_vars(TimePasses)
    /\ \A t \in Threads : WF_vars(WriteByte(t))
    /\ <>[][~Interrupted]_vars

-----------------------------------------------------------------------------
(* Properties. *)

TypeOK ==
    /\ TimerTypeOK
    /\ pc \in {"top", "calls", "poll", "events", "sources", "drained", "posted", "tick"}
    /\ queue \in Seq(Calls)
    /\ batch \in Seq(Calls)
    /\ byte \in BOOLEAN
    /\ posting \subseteq Threads
    /\ deadline \in 0..MaxDelay \cup {NoTime}
    /\ flushBlocked \in BOOLEAN
    /\ timeout \in 0..MaxSleep \cup {NoTime}
    /\ callsReady \in BOOLEAN
    /\ woken \subseteq Sources

\* The loop never sleeps past a timer, however timers were started, stopped
\* and replaced since the timer source was last dispatched: while the Wayland
\* socket takes what is sent, not at all, and while it is full for no longer
\* than the floor, which keeps the loop from spinning.
SleepsNoLonger ==
    pc = "poll" => \A id \in Ids : InTable(id) =>
        /\ deadline # NoTime /\ deadline <= entries[id].left
        /\ timeout # NoTime
        /\ \/ timeout <= entries[id].left
           \/ flushBlocked /\ timeout <= FlushFloor

\* A posted call is never left behind by a loop that goes to sleep: the byte
\* is in the pipe or on its way.
NoLostCall ==
    pc = "poll" /\ queue # <<>> => byte \/ posting # {}

\* The loop and its timers are whole, and nothing is forgotten over a sleep.
LoopIsSound == TypeOK /\ ActiveIsExact /\ SleepsNoLonger /\ NoLostCall

\* A timer that is armed is called or disarmed, although handlers may post
\* calls that post themselves, and timers of no delay be started, for ever.
TimersAreCalled ==
    \A id \in Ids : armed[id] # NoEntry ~> armed[id] = NoEntry \/ current = id

\* A posted call is taken and run.
CallsAreRun ==
    \A c \in Calls : /\ Contains(queue, c) ~> Contains(batch, c)
                     /\ Contains(batch, c) ~> ~Contains(batch, c)

\* Timers and calls are served, each beside an endless supply of the other.
NothingStarves == TimersAreCalled /\ CallsAreRun
=============================================================================
