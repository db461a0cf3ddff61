---------------------------- MODULE TimerManager ----------------------------
(***************************************************************************)
(* core/timer_manager.cpp: the one table of timers of the main thread, and *)
(* the Timer objects that name its entries.  tick() moves the entries that *)
(* are due to a local vector and calls them one after another; a callback   *)
(* may start, stop and move any timer, its own and those still waiting in   *)
(* the vector included.  Time is what is left until an entry is due.        *)
(***************************************************************************)
EXTENDS Naturals, FiniteSets

CONSTANTS
    Timers,     \* the Timer objects
    MaxId,      \* bound: the ids that can be handed out
    MaxDelay,   \* bound: the longest delay
    NoEntry     \* no entry, std::unordered_map::end()

ASSUME TimerAssumption ==
    /\ MaxId \in Nat
    /\ MaxDelay \in Nat
    /\ NoEntry \notin [left : 0..MaxDelay, interval : 0..MaxDelay, repeating : BOOLEAN]

VARIABLES
    entries,      \* timerEntries(): the table
    dueEntries,   \* tick(): what of the local vector has not been dealt with
    current,      \* tick(): the id whose callback runs, or 0
    inFlight,     \* inFlightTimerIds()
    canceled,     \* canceledTimerIds()
    nextId,       \* nextTimerId()
    handle        \* Timer::m_id

timerVars == <<entries, dueEntries, current, inFlight, canceled, nextId, handle>>

Ids == 1..MaxId
Entry == [left : 0..MaxDelay, interval : 0..MaxDelay, repeating : BOOLEAN]

InTable(id) == id \in Ids /\ entries[id] # NoEntry
IsDue(id) == id \in Ids /\ dueEntries[id] # NoEntry
NothingDue == \A id \in Ids : ~IsDue(id)
TableEmpty == \A id \in Ids : ~InTable(id)

TimerInit ==
    /\ entries = [id \in Ids |-> NoEntry]
    /\ dueEntries = [id \in Ids |-> NoEntry]
    /\ current = 0
    /\ inFlight = {}
    /\ canceled = {}
    /\ nextId = 1
    /\ handle = [t \in Timers |-> 0]

\* Handlers run when tick() does not, or when it is in a callback.
MayHandle == NothingDue \/ current # 0

-----------------------------------------------------------------------------
(* Operations. *)

Older(e) ==
    IF e = NoEntry \/ e.left = 0 THEN e ELSE [e EXCEPT !.left = @ - 1]

Rearmed(e) == [e EXCEPT !.left = e.interval]

\* cancel(): out of the table, or remembered until the vector comes to it.
Without(old) ==
    [id \in Ids |-> IF id = old THEN NoEntry ELSE entries[id]]

CanceledWith(id) ==
    IF ~InTable(id) /\ id \in inFlight THEN canceled \cup {id} ELSE canceled

\* Timer::start and startRepeating.
Start(t, delay, repeating) ==
    /\ nextId \in Ids
    /\ entries' = [Without(handle[t]) EXCEPT ![nextId] =
                    [left |-> delay, interval |-> delay, repeating |-> repeating]]
    /\ canceled' = CanceledWith(handle[t])
    /\ handle' = [handle EXCEPT ![t] = nextId]
    /\ nextId' = nextId + 1
    /\ UNCHANGED <<dueEntries, current, inFlight>>

\* Timer::stop and the destructor.
Stop(t) ==
    /\ handle[t] # 0
    /\ entries' = Without(handle[t])
    /\ canceled' = CanceledWith(handle[t])
    /\ handle' = [handle EXCEPT ![t] = 0]
    /\ UNCHANGED <<dueEntries, current, inFlight, nextId>>

\* Timer::operator=(Timer&&): t lets its own timer go and takes that of u.
Move(t, u) ==
    /\ t # u
    /\ handle[u] # 0
    /\ entries' = Without(handle[t])
    /\ canceled' = CanceledWith(handle[t])
    /\ handle' = [handle EXCEPT ![t] = handle[u], ![u] = 0]
    /\ UNCHANGED <<dueEntries, current, inFlight, nextId>>

Active(id) ==
    /\ id # 0
    /\ id \notin canceled
    /\ InTable(id) \/ id \in inFlight

\* pollTimeoutMs(): what is left of the entry that is due first.
PollTimeouts == {entries[id].left : id \in {i \in Ids : InTable(i)}}

-----------------------------------------------------------------------------
(* tick() *)

\* The entries that are due leave the table for the vector.
TickBegins ==
    LET due == {id \in Ids : InTable(id) /\ entries[id].left = 0} IN
    /\ NothingDue
    /\ entries' = [id \in Ids |-> IF id \in due THEN NoEntry ELSE entries[id]]
    /\ dueEntries' = [id \in Ids |-> IF id \in due THEN entries[id] ELSE NoEntry]
    /\ inFlight' = inFlight \cup due
    /\ UNCHANGED <<current, canceled, nextId, handle>>

\* The order of the vector is that of an unordered_map: any.
TickSkips(id) ==
    /\ current = 0
    /\ IsDue(id)
    /\ id \in canceled
    /\ dueEntries' = [dueEntries EXCEPT ![id] = NoEntry]
    /\ canceled' = canceled \ {id}
    /\ inFlight' = inFlight \ {id}
    /\ UNCHANGED <<entries, current, nextId, handle>>

\* Mutant: what an earlier callback cancelled is called.
TickCallsAny(id) ==
    /\ current = 0
    /\ IsDue(id)
    /\ current' = id
    /\ UNCHANGED <<entries, dueEntries, inFlight, canceled, nextId, handle>>

TickCalls(id) ==
    /\ current = 0
    /\ IsDue(id)
    /\ id \notin canceled
    /\ current' = id
    /\ UNCHANGED <<entries, dueEntries, inFlight, canceled, nextId, handle>>

\* The callback has returned; a repeating timer goes back into the table.
TickReturns ==
    /\ current # 0
    /\ entries' = IF dueEntries[current].repeating /\ current \notin canceled
                  THEN [entries EXCEPT ![current] = Rearmed(dueEntries[current])]
                  ELSE entries
    /\ dueEntries' = [dueEntries EXCEPT ![current] = NoEntry]
    /\ canceled' = canceled \ {current}
    /\ inFlight' = inFlight \ {current}
    /\ current' = 0
    /\ UNCHANGED <<nextId, handle>>

Elapse ==
    /\ entries' = [id \in Ids |-> Older(entries[id])]
    /\ UNCHANGED <<dueEntries, current, inFlight, canceled, nextId, handle>>

Handle ==
    /\ MayHandle
    /\ \/ \E t \in Timers, delay \in 0..MaxDelay, repeating \in BOOLEAN :
            Start(t, delay, repeating)
       \/ \E t \in Timers : Stop(t)
       \/ \E t, u \in Timers : Move(t, u)

TimerNext ==
    \/ Handle
    \/ TickBegins
    \/ \E id \in Ids : TickSkips(id) \/ TickCalls(id)
    \/ TickReturns
    \/ Elapse

TimerSpec == TimerInit /\ [][TimerNext]_timerVars

-----------------------------------------------------------------------------
(* Properties. *)

TimerTypeOK ==
    /\ entries \in [Ids -> Entry \cup {NoEntry}]
    /\ dueEntries \in [Ids -> Entry \cup {NoEntry}]
    /\ current \in 0..MaxId
    /\ inFlight \subseteq Ids
    /\ canceled \subseteq Ids
    /\ nextId \in 1..MaxId + 1
    /\ handle \in [Timers -> 0..MaxId]

\* What is left to be called: the table, the vector but for what was
\* cancelled, and a repeating timer that is in its callback.
armed ==
    [id \in Ids |->
        IF InTable(id) THEN entries[id]
        ELSE IF ~IsDue(id) \/ id \in canceled THEN NoEntry
        ELSE IF id # current THEN dueEntries[id]
        ELSE IF dueEntries[id].repeating THEN Rearmed(dueEntries[id])
        ELSE NoEntry]

Service == INSTANCE TimerService
            WITH armed <- armed, calling <- current, issued <- nextId - 1

\* The table, the vector and the two sets of ids together are the timer
\* service: no timer is called early, after it was cancelled (by an earlier
\* callback of the same tick, or by its own) or twice for one start, and a
\* repeating one goes on until it is cancelled.
ServiceIsImplemented == Service!Spec

\* active() says of every id whether a callback of it runs or will: the two
\* sets are emptied with the vector, whatever the callbacks cancelled.
ActiveIsExact ==
    \A id \in Ids :
        Active(id) <=> \/ armed[id] # NoEntry
                       \/ id = current /\ id \notin canceled
=============================================================================
