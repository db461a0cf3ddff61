---------------------------- MODULE TimerService ----------------------------
(***************************************************************************)
(* What core/timer_manager.cpp promises its callers.  A timer is an id that *)
(* is handed out once.  It is armed with a delay; when the delay has passed *)
(* its callback is called, once or, for a repeating timer, again after each *)
(* interval, until it is disarmed.  One callback runs at a time.  How the   *)
(* manager keeps the timers that are due, being called, or cancelled while  *)
(* they wait for their turn does not show here.                             *)
(***************************************************************************)
EXTENDS Naturals

CONSTANTS
    Ids,        \* the ids of timers, in the order they are handed out
    MaxDelay,   \* the longest delay, in units of time
    NoEntry     \* no timer

VARIABLES
    armed,      \* for each id, the timer that will be called, or NoEntry
    calling,    \* the id whose callback runs, or 0
    issued      \* the last id handed out

serviceVars == <<armed, calling, issued>>

Armed(id) == armed[id] # NoEntry

Entry == [left : 0..MaxDelay, interval : 0..MaxDelay, repeating : BOOLEAN]

\* A timer some time later.
Older(e) ==
    IF e = NoEntry \/ e.left = 0 THEN e ELSE [e EXCEPT !.left = @ - 1]

Rearmed(e) == [e EXCEPT !.left = e.interval]

Init ==
    /\ armed = [id \in Ids |-> NoEntry]
    /\ calling = 0
    /\ issued = 0

\* start(): the timer of the caller's old id goes, a new id is armed.
Arm(old, delay, repeating) ==
    /\ issued + 1 \in Ids
    /\ issued' = issued + 1
    /\ armed' = [id \in Ids |->
                    IF id = issued + 1
                    THEN [left |-> delay, interval |-> delay, repeating |-> repeating]
                    ELSE IF id = old THEN NoEntry ELSE armed[id]]
    /\ UNCHANGED calling

Disarm(old) ==
    /\ armed' = [id \in Ids |-> IF id = old THEN NoEntry ELSE armed[id]]
    /\ UNCHANGED <<calling, issued>>

\* A callback is called: never early, never for a timer that was disarmed.
Call(id) ==
    /\ calling = 0
    /\ Armed(id)
    /\ armed[id].left = 0
    /\ calling' = id
    /\ armed' = [armed EXCEPT ![id] =
                    IF @.repeating THEN Rearmed(@) ELSE NoEntry]
    /\ UNCHANGED issued

Return ==
    /\ calling # 0
    /\ calling' = 0
    /\ UNCHANGED <<armed, issued>>

\* The next interval of a repeating timer begins when its callback returns.
Elapse ==
    /\ armed' = [id \in Ids |-> IF id = calling THEN armed[id] ELSE Older(armed[id])]
    /\ UNCHANGED <<calling, issued>>

Next ==
    \/ \E old \in Ids \cup {0}, delay \in 0..MaxDelay, repeating \in BOOLEAN :
        Arm(old, delay, repeating)
    \/ \E old \in Ids : Disarm(old)
    \/ \E id \in Ids : Call(id)
    \/ Return
    \/ Elapse

Spec == Init /\ [][Next]_serviceVars
=============================================================================
