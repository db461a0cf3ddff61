------------------------- MODULE TimerManager_proofs -------------------------
(***************************************************************************)
(* The timer manager implements the timer service, for every set of Timer   *)
(* objects, every number of ids and every delay.                            *)
(***************************************************************************)
EXTENDS TimerManager, TLAPS

\* The vector of tick() and the two sets of ids belong together: what is in
\* flight is what is in the vector, out of the table and due; a callback that
\* runs is one of them; and no id that is in use will be handed out again.
TickInv ==
    /\ inFlight = {id \in Ids : IsDue(id)}
    /\ canceled \subseteq inFlight
    /\ current # 0 => IsDue(current)
    /\ \A id \in Ids : IsDue(id) => ~InTable(id) /\ dueEntries[id].left = 0
    /\ \A id \in Ids : InTable(id) \/ IsDue(id) => id < nextId

Inv == TimerTypeOK /\ TickInv

-----------------------------------------------------------------------------
(* Entries. *)

LEMMA OlderEntry ==
    ASSUME NEW e \in Entry \cup {NoEntry}
    PROVE  /\ Older(e) \in Entry \cup {NoEntry}
           /\ Older(e) = NoEntry <=> e = NoEntry
           /\ e # NoEntry /\ e.left = 0 => Older(e) = e
<1>1. CASE e = NoEntry
    BY <1>1 DEF Older
<1>2. CASE e # NoEntry
    <2>1. e \in Entry
        BY <1>2
    <2>2. Older(e) \in Entry
        BY <2>1, <1>2, TimerAssumption DEF Older, Entry
    <2>3. NoEntry \notin Entry
        BY TimerAssumption DEF Entry
    <2> QED  BY <1>2, <2>1, <2>2, <2>3 DEF Older
<1> QED  BY <1>1, <1>2

LEMMA RearmedEntry ==
    ASSUME NEW e \in Entry
    PROVE  Rearmed(e) \in Entry /\ Rearmed(e) # NoEntry
<1>1. Rearmed(e) \in Entry
    BY DEF Rearmed, Entry
<1> QED  BY <1>1, TimerAssumption DEF Entry

\* cancel() touches the timer it is for and no other.
LEMMA CancelIsLocal ==
    ASSUME Inv, NEW old \in 0..MaxId
    PROVE  /\ Without(old) \in [Ids -> Entry \cup {NoEntry}]
           /\ CanceledWith(old) \subseteq inFlight
           /\ \A id \in Ids \ {old} :
                 /\ Without(old)[id] = entries[id]
                 /\ id \in CanceledWith(old) <=> id \in canceled
           /\ old \in Ids => Without(old)[old] = NoEntry
           /\ IsDue(old) => old \in CanceledWith(old)
BY DEF Inv, TimerTypeOK, TickInv, Without, CanceledWith, InTable, IsDue, Ids

-----------------------------------------------------------------------------
(* The invariant, one operation at a time. *)

LEMMA InitInv == TimerInit => Inv
BY TimerAssumption
   DEF TimerInit, Inv, TimerTypeOK, TickInv, InTable, IsDue, Ids

LEMMA StartInv ==
    ASSUME Inv, NEW t \in Timers, NEW delay \in 0..MaxDelay, NEW repeating \in BOOLEAN,
           Start(t, delay, repeating)
    PROVE  Inv'
<1> DEFINE e == [left |-> delay, interval |-> delay, repeating |-> repeating]
<1>1. handle[t] \in 0..MaxId
    BY DEF Inv, TimerTypeOK
<1>2. e \in Entry
    BY DEF Entry
<1>3. /\ nextId \in Ids /\ ~IsDue(nextId) /\ nextId' = nextId + 1
      /\ entries' = [Without(handle[t]) EXCEPT ![nextId] = e]
      /\ canceled' = CanceledWith(handle[t])
      /\ handle' = [handle EXCEPT ![t] = nextId]
      /\ UNCHANGED <<dueEntries, current, inFlight>>
    BY DEF Start, Inv, TickInv, Ids
<1> HIDE DEF e
<1>4. entries' \in [Ids -> Entry \cup {NoEntry}]
    BY <1>1, <1>2, <1>3, CancelIsLocal
<1>5. TimerTypeOK'
    BY <1>1, <1>3, <1>4, CancelIsLocal, TimerAssumption DEF Inv, TimerTypeOK, TickInv, Ids
<1>6. \A id \in Ids : IsDue(id)' <=> IsDue(id)
    BY <1>3 DEF IsDue
<1>7. \A id \in Ids : InTable(id)' => InTable(id) \/ id = nextId
    BY <1>1, <1>3, CancelIsLocal DEF InTable, Inv, TimerTypeOK
<1>8. TickInv'
    <2>1. inFlight' = {id \in Ids : IsDue(id)'}
        BY <1>3, <1>6 DEF Inv, TickInv
    <2>2. canceled' \subseteq inFlight' /\ (current' # 0 => IsDue(current)')
        BY <1>1, <1>3, CancelIsLocal DEF Inv, TickInv, IsDue
    <2>3. \A id \in Ids : IsDue(id)' => ~InTable(id)' /\ dueEntries'[id].left = 0
        BY <1>3, <1>6, <1>7 DEF Inv, TickInv
    <2>4. \A id \in Ids : InTable(id)' \/ IsDue(id)' => id < nextId'
        BY <1>3, <1>6, <1>7, TimerAssumption DEF Inv, TickInv, TimerTypeOK, Ids
    <2> QED  BY <2>1, <2>2, <2>3, <2>4 DEF TickInv, IsDue, InTable
<1> QED  BY <1>5, <1>8 DEF Inv

\* Stop and Move cancel one timer and change handles besides.
LEMMA CancelInv ==
    ASSUME Inv, NEW old \in 0..MaxId,
           entries' = Without(old),
           canceled' = CanceledWith(old),
           handle' \in [Timers -> 0..MaxId],
           UNCHANGED <<dueEntries, current, inFlight, nextId>>
    PROVE  Inv'
<1>1. TimerTypeOK'
    BY CancelIsLocal DEF Inv, TimerTypeOK
<1>2. \A id \in Ids : IsDue(id)' <=> IsDue(id)
    BY DEF IsDue
<1>3. \A id \in Ids : InTable(id)' => InTable(id)
    BY CancelIsLocal DEF InTable, Inv, TimerTypeOK
<1>4. canceled' \subseteq inFlight' /\ (current' # 0 => IsDue(current)')
    BY CancelIsLocal DEF Inv, TickInv, IsDue
<1>5. TickInv'
    BY <1>2, <1>3, <1>4 DEF Inv, TickInv
<1> QED  BY <1>1, <1>5 DEF Inv

LEMMA StopInv ==
    ASSUME Inv, NEW t \in Timers, Stop(t)
    PROVE  Inv'
<1>1. handle[t] \in 0..MaxId /\ handle' \in [Timers -> 0..MaxId]
    BY TimerAssumption DEF Inv, TimerTypeOK, Stop
<1> QED  BY <1>1, CancelInv DEF Stop

LEMMA MoveInv ==
    ASSUME Inv, NEW t \in Timers, NEW u \in Timers, Move(t, u)
    PROVE  Inv'
<1>1. handle[t] \in 0..MaxId /\ handle' \in [Timers -> 0..MaxId]
    BY TimerAssumption DEF Inv, TimerTypeOK, Move
<1> QED  BY <1>1, CancelInv DEF Move

LEMMA TickBeginsInv ==
    ASSUME Inv, TickBegins
    PROVE  Inv'
<1> DEFINE due == {id \in Ids : InTable(id) /\ entries[id].left = 0}
<1>1. /\ NothingDue
      /\ entries' = [id \in Ids |-> IF id \in due THEN NoEntry ELSE entries[id]]
      /\ dueEntries' = [id \in Ids |-> IF id \in due THEN entries[id] ELSE NoEntry]
      /\ inFlight' = inFlight \cup due
      /\ UNCHANGED <<current, canceled, nextId, handle>>
    BY DEF TickBegins
<1>2. inFlight = {} /\ canceled = {} /\ current = 0
    BY <1>1 DEF Inv, TickInv, NothingDue, IsDue
<1>3. \A id \in Ids : /\ IsDue(id)' <=> id \in due
                      /\ InTable(id)' => InTable(id) /\ id \notin due
    BY <1>1 DEF IsDue, InTable
<1>4. TimerTypeOK'
    BY <1>1, <1>2 DEF Inv, TimerTypeOK
<1>5. TickInv'
    <2>1. inFlight' = {id \in Ids : IsDue(id)'}
        BY <1>1, <1>2, <1>3
    <2>2. canceled' \subseteq inFlight' /\ current' = 0
        BY <1>1, <1>2
    <2>3. \A id \in Ids : IsDue(id)' => ~InTable(id)' /\ dueEntries'[id].left = 0
        BY <1>1, <1>3
    <2>4. \A id \in Ids : InTable(id)' \/ IsDue(id)' => id < nextId'
        BY <1>1, <1>3 DEF Inv, TickInv
    <2> QED  BY <2>1, <2>2, <2>3, <2>4 DEF TickInv
<1> QED  BY <1>4, <1>5 DEF Inv

LEMMA TickSkipsInv ==
    ASSUME Inv, NEW id \in Ids, TickSkips(id)
    PROVE  Inv'
<1>1. TimerTypeOK'
    BY DEF Inv, TimerTypeOK, TickSkips
<1>2. TickInv'
    BY DEF Inv, TimerTypeOK, TickInv, TickSkips, IsDue, InTable
<1> QED  BY <1>1, <1>2 DEF Inv

LEMMA TickCallsInv ==
    ASSUME Inv, NEW id \in Ids, TickCalls(id)
    PROVE  Inv'
<1>1. TimerTypeOK'
    BY DEF Inv, TimerTypeOK, TickCalls, Ids
<1>2. TickInv'
    BY DEF Inv, TimerTypeOK, TickInv, TickCalls, IsDue, InTable
<1> QED  BY <1>1, <1>2 DEF Inv

LEMMA TickReturnsInv ==
    ASSUME Inv, TickReturns
    PROVE  Inv'
<1>1. current \in Ids /\ IsDue(current) /\ ~InTable(current)
    BY DEF TickReturns, Inv, TickInv, IsDue
<1>2. dueEntries[current] \in Entry
    BY <1>1 DEF Inv, TimerTypeOK, IsDue
<1>3. entries' \in [Ids -> Entry \cup {NoEntry}]
    BY <1>1, <1>2, RearmedEntry DEF TickReturns, Inv, TimerTypeOK
<1>4. TimerTypeOK'
    <2>1. /\ dueEntries' = [dueEntries EXCEPT ![current] = NoEntry]
          /\ canceled' \subseteq canceled /\ inFlight' \subseteq inFlight
          /\ current' = 0 /\ nextId' = nextId /\ handle' = handle
        BY DEF TickReturns
    <2>2. dueEntries' \in [Ids -> Entry \cup {NoEntry}]
        BY <2>1 DEF Inv, TimerTypeOK
    <2>3. current' \in 0..MaxId
        BY <2>1, TimerAssumption
    <2> QED  BY <1>3, <2>1, <2>2, <2>3 DEF Inv, TimerTypeOK
<1>5. \A id \in Ids : /\ IsDue(id)' <=> IsDue(id) /\ id # current
                      /\ InTable(id)' => InTable(id) \/ id = current
                      /\ id # current => dueEntries'[id] = dueEntries[id]
    BY <1>1 DEF TickReturns, IsDue, InTable, Inv, TimerTypeOK
<1>6. TickInv'
    <2>1. inFlight' = {id \in Ids : IsDue(id)'}
        BY <1>5 DEF TickReturns, Inv, TickInv
    <2>2. canceled' \subseteq inFlight' /\ current' = 0 /\ nextId' = nextId
        BY DEF TickReturns, Inv, TickInv
    <2>3. \A id \in Ids : IsDue(id)' => ~InTable(id)' /\ dueEntries'[id].left = 0
        BY <1>5 DEF Inv, TickInv
    <2>4. \A id \in Ids : InTable(id)' \/ IsDue(id)' => id < nextId'
        BY <1>1, <1>5, <2>2 DEF Inv, TickInv
    <2> QED  BY <2>1, <2>2, <2>3, <2>4 DEF TickInv
<1> QED  BY <1>4, <1>6 DEF Inv

LEMMA ElapseInv ==
    ASSUME Inv, Elapse
    PROVE  Inv'
<1>1. entries' \in [Ids -> Entry \cup {NoEntry}]
    BY OlderEntry DEF Elapse, Inv, TimerTypeOK
<1>2. \A id \in Ids : (InTable(id)' <=> InTable(id)) /\ (IsDue(id)' <=> IsDue(id))
    BY OlderEntry DEF Elapse, InTable, IsDue, Inv, TimerTypeOK
<1>3. TimerTypeOK'
    BY <1>1 DEF Elapse, Inv, TimerTypeOK
<1>4. current' # 0 => IsDue(current)'
    BY DEF Elapse, Inv, TickInv, IsDue
<1>5. TickInv'
    BY <1>2, <1>4 DEF Elapse, Inv, TickInv
<1> QED  BY <1>3, <1>5 DEF Inv

LEMMA StepInv == Inv /\ [TimerNext]_timerVars => Inv'
<1> SUFFICES ASSUME Inv, [TimerNext]_timerVars PROVE Inv'
    OBVIOUS
<1>1. CASE Handle
    BY <1>1, StartInv, StopInv, MoveInv DEF Handle
<1>2. CASE TickBegins
    BY <1>2, TickBeginsInv
<1>3. CASE \E id \in Ids : TickSkips(id) \/ TickCalls(id)
    BY <1>3, TickSkipsInv, TickCallsInv
<1>4. CASE TickReturns
    BY <1>4, TickReturnsInv
<1>5. CASE Elapse
    BY <1>5, ElapseInv
<1>6. CASE UNCHANGED timerVars
    BY <1>6 DEF timerVars, Inv, TimerTypeOK, TickInv, InTable, IsDue
<1> QED  BY <1>1, <1>2, <1>3, <1>4, <1>5, <1>6 DEF TimerNext

LEMMA InvAlways == TimerSpec => []Inv
BY InitInv, StepInv, PTL DEF TimerSpec

-----------------------------------------------------------------------------
(* The refinement: each step of the manager, seen through armed, is a step  *)
(* of the service or changes nothing there.                                 *)

\* Where a timer that will be called is.
LEMMA ArmedIs ==
    ASSUME Inv, NEW id \in Ids
    PROVE  /\ InTable(id) => armed[id] = entries[id]
           /\ ~InTable(id) /\ (~IsDue(id) \/ id \in canceled) => armed[id] = NoEntry
           /\ IsDue(id) /\ id \notin canceled /\ id # current => armed[id] = dueEntries[id]
           /\ IsDue(id) /\ id \notin canceled /\ id = current =>
                 armed[id] = IF dueEntries[id].repeating
                             THEN Rearmed(dueEntries[id]) ELSE NoEntry
BY DEF Inv, TickInv, armed

\* What armed becomes when a step leaves one timer's places as they are.
LEMMA ArmedStays ==
    ASSUME NEW id \in Ids,
           entries'[id] = entries[id], dueEntries'[id] = dueEntries[id],
           id \in canceled' <=> id \in canceled,
           current' = current
    PROVE  armed'[id] = armed[id]
BY DEF armed, InTable, IsDue

LEMMA ServiceRearmed == \A e : Service!Rearmed(e) = Rearmed(e)
BY DEF Service!Rearmed, Rearmed

LEMMA ServiceOlder == \A e : Service!Older(e) = Older(e)
BY DEF Service!Older, Older

\* cancel(), seen from outside.
LEMMA CancelDisarms ==
    ASSUME Inv, NEW old \in 0..MaxId,
           dueEntries' = dueEntries, current' = current,
           canceled' = CanceledWith(old)
    PROVE  /\ \A id \in Ids \ {old} :
                  entries'[id] = entries[id] => armed'[id] = armed[id]
           /\ old \in Ids /\ entries'[old] = NoEntry => armed'[old] = NoEntry
<1>1. \A id \in Ids \ {old} : id \in canceled' <=> id \in canceled
    BY CancelIsLocal
<1>2. \A id \in Ids \ {old} : entries'[id] = entries[id] => armed'[id] = armed[id]
    BY <1>1, ArmedStays
<1>3. ASSUME old \in Ids, entries'[old] = NoEntry
      PROVE  armed'[old] = NoEntry
    <2>1. IsDue(old)' => old \in canceled'
        BY CancelIsLocal DEF IsDue
    <2> QED  BY <1>3, <2>1 DEF armed, InTable
<1> QED  BY <1>2, <1>3

LEMMA StartArms ==
    ASSUME Inv, NEW t \in Timers, NEW delay \in 0..MaxDelay, NEW repeating \in BOOLEAN,
           Start(t, delay, repeating)
    PROVE  Service!Arm(handle[t], delay, repeating)
<1> DEFINE e == [left |-> delay, interval |-> delay, repeating |-> repeating]
<1>1. handle[t] \in 0..MaxId /\ e \in Entry /\ e # NoEntry
    BY TimerAssumption DEF Inv, TimerTypeOK, Entry
<1>2. /\ nextId \in Ids /\ nextId' = nextId + 1
      /\ entries' = [Without(handle[t]) EXCEPT ![nextId] = e]
      /\ canceled' = CanceledWith(handle[t])
      /\ UNCHANGED <<dueEntries, current>>
    BY DEF Start
<1> HIDE DEF e
<1>3. ~IsDue(nextId) /\ ~InTable(nextId) /\ nextId \in Nat
    BY <1>2 DEF Inv, TickInv, TimerTypeOK, Ids
<1>4. entries'[nextId] = e
    BY <1>1, <1>2, CancelIsLocal
<1>5. armed'[nextId] = e
    BY <1>1, <1>2, <1>4 DEF armed, InTable
<1>6. ASSUME NEW id \in Ids, id # nextId
      PROVE  armed'[id] = IF id = handle[t] THEN NoEntry ELSE armed[id]
    <2>1. entries'[id] = Without(handle[t])[id]
        BY <1>1, <1>2, <1>6, CancelIsLocal
    <2> QED  BY <1>1, <1>2, <1>6, <2>1, CancelIsLocal, CancelDisarms
<1>7. armed' = [id \in Ids |-> IF id = nextId THEN e
                               ELSE IF id = handle[t] THEN NoEntry ELSE armed[id]]
    BY <1>5, <1>6 DEF armed
<1>8. nextId - 1 + 1 = nextId /\ nextId' - 1 = nextId
    BY <1>2, <1>3
<1> QED  BY <1>2, <1>7, <1>8 DEF Service!Arm, e

LEMMA CancelStep ==
    ASSUME Inv, NEW old \in 0..MaxId,
           entries' = Without(old),
           canceled' = CanceledWith(old),
           UNCHANGED <<dueEntries, current, nextId>>
    PROVE  IF old = 0 THEN UNCHANGED Service!serviceVars ELSE Service!Disarm(old)
<1>1. ASSUME NEW id \in Ids
      PROVE  armed'[id] = IF id = old THEN NoEntry ELSE armed[id]
    BY <1>1, CancelIsLocal, CancelDisarms
<1>2. armed' = [id \in Ids |-> IF id = old THEN NoEntry ELSE armed[id]]
    BY <1>1 DEF armed
<1>3. old = 0 => armed' = armed
    BY <1>2 DEF armed, Ids
<1> QED  BY <1>2, <1>3 DEF Service!serviceVars, Service!Disarm

LEMMA HandleStep ==
    ASSUME Inv, Handle
    PROVE  Service!Next \/ UNCHANGED Service!serviceVars
<1>1. ASSUME NEW t \in Timers, NEW delay \in 0..MaxDelay, NEW repeating \in BOOLEAN,
             Start(t, delay, repeating)
      PROVE  Service!Next
    <2>1. handle[t] \in Ids \cup {0}
        BY TimerAssumption DEF Inv, TimerTypeOK, Ids
    <2> QED  BY <1>1, <2>1, StartArms DEF Service!Next
<1>2. ASSUME NEW old \in 0..MaxId, Service!Disarm(old), old # 0
      PROVE  Service!Next
    BY <1>2, TimerAssumption DEF Service!Next, Ids
<1>3. ASSUME NEW t \in Timers, Stop(t)
      PROVE  Service!Next
    <2>1. handle[t] \in 0..MaxId
        BY DEF Inv, TimerTypeOK
    <2> QED  BY <1>2, <1>3, <2>1, CancelStep DEF Stop
<1>4. ASSUME NEW t \in Timers, NEW u \in Timers, Move(t, u)
      PROVE  Service!Next \/ UNCHANGED Service!serviceVars
    <2>1. handle[t] \in 0..MaxId
        BY DEF Inv, TimerTypeOK
    <2> QED  BY <1>2, <1>4, <2>1, CancelStep DEF Move
<1> QED  BY <1>1, <1>3, <1>4 DEF Handle

LEMMA TickBeginsUnseen ==
    ASSUME Inv, TickBegins
    PROVE  UNCHANGED Service!serviceVars
<1> DEFINE due == {id \in Ids : InTable(id) /\ entries[id].left = 0}
<1>1. /\ NothingDue
      /\ entries' = [id \in Ids |-> IF id \in due THEN NoEntry ELSE entries[id]]
      /\ dueEntries' = [id \in Ids |-> IF id \in due THEN entries[id] ELSE NoEntry]
      /\ UNCHANGED <<current, canceled, nextId>>
    BY DEF TickBegins
<1>2. canceled = {} /\ current = 0
    BY <1>1 DEF Inv, TickInv, NothingDue, IsDue
<1>3. ASSUME NEW id \in Ids
      PROVE  armed'[id] = armed[id]
    <2>1. CASE id \in due
        BY <1>1, <1>2, <2>1 DEF armed, InTable, IsDue, Ids
    <2>2. CASE id \notin due
        BY <1>1, <1>2, <2>2 DEF armed, InTable, IsDue, NothingDue
    <2> QED  BY <2>1, <2>2
<1>4. armed' = armed
    BY <1>3 DEF armed
<1> QED  BY <1>1, <1>4 DEF Service!serviceVars

LEMMA TickSkipsUnseen ==
    ASSUME Inv, NEW id \in Ids, TickSkips(id)
    PROVE  UNCHANGED Service!serviceVars
<1>1. ~InTable(id) /\ armed[id] = NoEntry
    BY ArmedIs DEF TickSkips, Inv, TickInv
<1>2. armed'[id] = NoEntry
    BY <1>1 DEF TickSkips, armed, IsDue, InTable, Inv, TimerTypeOK
<1>3. \A i \in Ids \ {id} : armed'[i] = armed[i]
    BY ArmedStays DEF TickSkips, Inv, TimerTypeOK
<1>4. armed' = armed
    BY <1>1, <1>2, <1>3 DEF armed
<1> QED  BY <1>4 DEF TickSkips, Service!serviceVars

LEMMA TickCallsStep ==
    ASSUME Inv, NEW id \in Ids, TickCalls(id)
    PROVE  Service!Call(id)
<1>1. /\ current = 0 /\ id # 0 /\ IsDue(id) /\ id \notin canceled /\ ~InTable(id)
      /\ dueEntries[id] \in Entry /\ dueEntries[id].left = 0
      /\ current' = id
      /\ UNCHANGED <<entries, dueEntries, canceled, nextId>>
    BY DEF TickCalls, Inv, TimerTypeOK, TickInv, IsDue, Ids
<1>2. armed[id] = dueEntries[id]
    BY <1>1, ArmedIs
<1>3. armed'[id] = IF armed[id].repeating THEN Service!Rearmed(armed[id]) ELSE NoEntry
    BY <1>1, <1>2, ServiceRearmed DEF armed, InTable, IsDue
<1>4. \A i \in Ids \ {id} : armed'[i] = armed[i]
    BY <1>1 DEF armed, InTable, IsDue, Ids
<1>5. armed' = [armed EXCEPT ![id] = IF @.repeating THEN Service!Rearmed(@) ELSE NoEntry]
    BY <1>3, <1>4 DEF armed
<1>6. Service!Armed(id) /\ armed[id].left = 0
    BY <1>1, <1>2 DEF Service!Armed, IsDue
<1> QED  BY <1>1, <1>5, <1>6 DEF Service!Call

LEMMA TickReturnsStep ==
    ASSUME Inv, TickReturns
    PROVE  Service!Return
<1>1. current \in Ids /\ current # 0 /\ IsDue(current) /\ ~InTable(current)
    BY DEF TickReturns, Inv, TickInv, IsDue
<1>2. dueEntries[current] \in Entry
    BY <1>1 DEF Inv, TimerTypeOK, IsDue
<1>3. ~IsDue(current)' \/ dueEntries'[current] = NoEntry
    BY <1>1 DEF TickReturns, Inv, TimerTypeOK
<1>4. armed'[current] = armed[current]
    <2>1. CASE dueEntries[current].repeating /\ current \notin canceled
        <3>1. entries'[current] = Rearmed(dueEntries[current])
            BY <1>1, <2>1 DEF TickReturns, Inv, TimerTypeOK
        <3>2. armed[current] = Rearmed(dueEntries[current])
            BY <1>1, <2>1, ArmedIs
        <3>3. armed'[current] = entries'[current]
            BY <1>1, <1>2, <3>1, RearmedEntry DEF armed, InTable
        <3> QED  BY <3>1, <3>2, <3>3
    <2>2. CASE ~(dueEntries[current].repeating /\ current \notin canceled)
        <3>1. armed[current] = NoEntry
            BY <1>1, <2>2, ArmedIs
        <3>2. entries'[current] = NoEntry /\ dueEntries'[current] = NoEntry
            BY <1>1, <2>2 DEF TickReturns, InTable, Inv, TimerTypeOK
        <3>3. armed'[current] = NoEntry
            BY <1>1, <3>2 DEF armed, InTable, IsDue
        <3> QED  BY <3>1, <3>3
    <2> QED  BY <2>1, <2>2
<1>5. ASSUME NEW id \in Ids, id # current
      PROVE  armed'[id] = armed[id]
    <2>1. /\ entries'[id] = entries[id] /\ dueEntries'[id] = dueEntries[id]
          /\ id \in canceled' <=> id \in canceled
          /\ current' = 0 /\ id # 0
        BY <1>1, <1>5 DEF TickReturns, Inv, TimerTypeOK, Ids
    <2> QED  BY <1>5, <2>1 DEF armed, InTable, IsDue
<1>6. armed' = armed
    BY <1>4, <1>5 DEF armed
<1> QED  BY <1>1, <1>6 DEF TickReturns, Service!Return

LEMMA ElapseStep ==
    ASSUME Inv, Elapse
    PROVE  Service!Elapse
<1>1. /\ entries' = [id \in Ids |-> Older(entries[id])]
      /\ UNCHANGED <<dueEntries, current, canceled, nextId>>
    BY DEF Elapse
<1>2. ASSUME NEW id \in Ids
      PROVE  armed'[id] = IF id = current THEN armed[id] ELSE Older(armed[id])
    <2>0. /\ entries[id] \in Entry \cup {NoEntry} /\ dueEntries[id] \in Entry \cup {NoEntry}
          /\ entries'[id] = Older(entries[id])
          /\ InTable(id)' <=> InTable(id)
          /\ IsDue(id)' <=> IsDue(id)
        BY <1>1, OlderEntry DEF Inv, TimerTypeOK, InTable, IsDue
    <2>1. CASE InTable(id)
        <3>1. id # current
            BY <2>1 DEF Inv, TickInv, Ids
        <3> QED  BY <2>0, <2>1, <3>1, ArmedIs DEF armed
    <2>2. CASE ~InTable(id)
        <3>1. armed'[id] = armed[id]
            BY <1>1, <2>0, <2>2 DEF armed
        <3>2. Older(NoEntry) = NoEntry
            BY DEF Older
        <3>3. IsDue(id) => Older(dueEntries[id]) = dueEntries[id]
            BY <2>0, OlderEntry DEF IsDue, Inv, TickInv
        <3> QED  BY <2>2, <3>1, <3>2, <3>3, ArmedIs
    <2> QED  BY <2>1, <2>2
<1>3. armed' = [id \in Ids |-> IF id = current THEN armed[id] ELSE Service!Older(armed[id])]
    BY <1>2, ServiceOlder DEF armed
<1> QED  BY <1>1, <1>3 DEF Service!Elapse

LEMMA InitService == TimerInit => Service!Init
<1> SUFFICES ASSUME TimerInit PROVE Service!Init
    OBVIOUS
<1>1. armed = [id \in Ids |-> NoEntry]
    BY DEF TimerInit, armed, InTable, IsDue
<1> QED  BY <1>1 DEF TimerInit, Service!Init

LEMMA StepService ==
    Inv /\ [TimerNext]_timerVars => [Service!Next]_Service!serviceVars
<1> SUFFICES ASSUME Inv, [TimerNext]_timerVars
             PROVE  Service!Next \/ UNCHANGED Service!serviceVars
    OBVIOUS
<1>1. CASE Handle
    BY <1>1, HandleStep
<1>2. CASE TickBegins
    BY <1>2, TickBeginsUnseen
<1>3. ASSUME NEW id \in Ids, TickSkips(id)
      PROVE  UNCHANGED Service!serviceVars
    BY <1>3, TickSkipsUnseen
<1>4. ASSUME NEW id \in Ids, TickCalls(id)
      PROVE  Service!Next
    BY <1>4, TickCallsStep DEF Service!Next
<1>5. CASE TickReturns
    BY <1>5, TickReturnsStep DEF Service!Next
<1>6. CASE Elapse
    BY <1>6, ElapseStep DEF Service!Next
<1>7. CASE UNCHANGED timerVars
    BY <1>7 DEF timerVars, Service!serviceVars, armed, InTable, IsDue
<1> QED  BY <1>1, <1>2, <1>3, <1>4, <1>5, <1>6, <1>7 DEF TimerNext

-----------------------------------------------------------------------------
(* Theorems. *)

\* Every variable of the timer manager keeps to its range
\* (core/timer_manager.cpp).
THEOREM TimersTyped == TimerSpec => []TimerTypeOK
<1>1. Inv => TimerTypeOK
    BY DEF Inv
<1> QED  BY <1>1, InvAlways, PTL

\* Timer::active() is true exactly of the timers that are called or will be,
\* whatever callbacks cancel during a tick.
THEOREM ActiveExact == TimerSpec => []ActiveIsExact
<1>1. Inv => ActiveIsExact
    <2> SUFFICES ASSUME Inv, NEW id \in Ids
                 PROVE  Active(id) <=> \/ armed[id] # NoEntry
                                       \/ id = current /\ id \notin canceled
        BY DEF ActiveIsExact
    <2>1. id # 0 /\ (id \in inFlight <=> IsDue(id)) /\ canceled \subseteq inFlight
        BY DEF Inv, TickInv, Ids
    <2>2. CASE InTable(id)
        BY <2>1, <2>2, ArmedIs DEF Active, InTable, Inv, TickInv
    <2>3. CASE ~InTable(id) /\ IsDue(id)
        <3>1. dueEntries[id] \in Entry /\ dueEntries[id] # NoEntry
            BY <2>3 DEF IsDue, Inv, TimerTypeOK
        <3> QED  BY <2>1, <2>3, <3>1, ArmedIs DEF Active
    <2>4. CASE ~InTable(id) /\ ~IsDue(id)
        <3>1. id # current
            BY <2>1, <2>4 DEF Inv, TickInv
        <3> QED  BY <2>1, <2>4, <3>1, ArmedIs DEF Active
    <2> QED  BY <2>2, <2>3, <2>4
<1> QED  BY <1>1, InvAlways, PTL

\* The manager is the timer service: no timer is called early, after it was
\* cancelled or twice for one start, and a repeating one goes on.
THEOREM TimersImplementService == TimerSpec => ServiceIsImplemented
BY InitService, StepService, InvAlways, PTL DEF TimerSpec, ServiceIsImplemented, Service!Spec
=============================================================================
