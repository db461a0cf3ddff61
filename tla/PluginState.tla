---------------------------- MODULE PluginState ----------------------------
(***************************************************************************)
(* The state channel of one plugin: PluginStateStore                       *)
(* (src/src/scripting/plugin_state_store.cpp) and what the runtimes of the *)
(* plugin's entries do with it.  Each runtime has a mailbox and a worker,  *)
(* as in ScriptRuntime; here an event is a call, a reload, a stop or the   *)
(* news of a watched key, and a call may set values and ends when it       *)
(* registers a watcher.                                                    *)
(*                                                                         *)
(* The store's mutex is held while set() writes the value and copies the   *)
(* list of watchers; the watchers are called after it is released, one by  *)
(* one, on the thread of the setter.  Values are numbered as they are set. *)
(* No watcher's news depends on those of another, so the lists are sets    *)
(* here and a round may go in any order.                                   *)
(***************************************************************************)
EXTENDS Integers, Sequences

CONSTANTS
    Runtime,           \* the plugin's entries: services, widgets, panels
    Key,               \* keys of the channel
    Writes,            \* which runtime sets which key
    MaxQueuedEvents,   \* kMaxQueuedEvents
    MaxEvents,         \* bound: events the owners send
    MaxSets,           \* bound: values set
    MaxFns             \* bound: watch callbacks of one host

ASSUME PluginStateAssumption ==
    /\ Writes \subseteq Runtime \X Key
    /\ MaxQueuedEvents \in Nat \ {0}
    /\ MaxEvents \in Nat /\ MaxSets \in Nat /\ MaxFns \in Nat

NoKey == "none"

\* What the store keeps of a watcher: the token of its runtime and the
\* registry slot of its callback; "host" is history, the VM it was made in.
Watcher == [token: Runtime, ref: Nat, host: Nat]
News == [to: Watcher, key: Key, value: Nat]
Mail == [kind: {"Call", "Reload", "Stop", "Watch"}, ref: Nat,
         key: Key \union {NoKey}, value: Nat]

VARIABLES
    values, watchers,   \* the store, guarded by its mutex
    mail, stopping,     \* each runtime's mailbox and whether its script was
    unhealthy,          \* disabled, guarded by its mutex
    host,               \* the VM: its number, the key of each callback slot
    phase, current,     \* each worker's progress, and the event it handles
    sending,            \* news a set() has still to hand out
    \* history: which value of a key the script was last given, which key the
    \* last callback was for and which key it was told of, and what was refused
    told, called, lost,
    events, sets

store == <<values, watchers>>
runtimes == <<mail, stopping, unhealthy, host, phase, current, told, called>>
vars == <<store, runtimes, sending, lost, events, sets>>

NoHost == [id |-> 0, fns |-> <<>>]
Untold == [k \in Key |-> 0]
Uncalled == [fn |-> NoKey, key |-> NoKey]

Init ==
    /\ values = [k \in Key |-> 0] /\ watchers = [k \in Key |-> {}]
    /\ mail = [r \in Runtime |-> <<>>] /\ stopping = [r \in Runtime |-> FALSE]
    /\ unhealthy = [r \in Runtime |-> FALSE]
    /\ host = [r \in Runtime |-> NoHost]
    /\ phase = [r \in Runtime |-> "idle"] /\ current = [r \in Runtime |-> "Call"]
    /\ sending = [r \in Runtime |-> {}]
    /\ told = [r \in Runtime |-> Untold]
    /\ called = [r \in Runtime |-> Uncalled]
    /\ lost = {} /\ events = 0 /\ sets = 0

----------------------------------------------------------------------------
(* The owner of a runtime: State::enqueue and State::stop, for the kinds of *)
(* events that are neither coalesced nor dropped.                          *)

\* Mutant: the mailbox takes one event too many.
HasRoomLate(r) == ~stopping[r] /\ Len(mail[r]) <= MaxQueuedEvents

HasRoom(r) == ~stopping[r] /\ Len(mail[r]) < MaxQueuedEvents

\* An unhealthy runtime takes nothing but a reload; a stop clears the mailbox.
Admits(r) == HasRoom(r) /\ ~unhealthy[r]

Letter(kind) == [kind |-> kind, ref |-> 0, key |-> NoKey, value |-> 0]

SendCall(r) ==
    /\ events < MaxEvents /\ Admits(r)
    /\ events' = events + 1
    /\ mail' = [mail EXCEPT ![r] = Append(@, Letter("Call"))]
    /\ UNCHANGED <<store, stopping, unhealthy, host, phase, current, told, called,
                   sending, lost, sets>>

\* A reload discards what is queued and forgives the script.
SendReload(r) ==
    /\ events < MaxEvents /\ HasRoom(r)
    /\ events' = events + 1
    /\ mail' = [mail EXCEPT ![r] = <<Letter("Reload")>>]
    /\ unhealthy' = [unhealthy EXCEPT ![r] = FALSE]
    /\ UNCHANGED <<store, stopping, host, phase, current, told, called, sending,
                   lost, sets>>

Stop(r) ==
    /\ ~stopping[r]
    /\ stopping' = [stopping EXCEPT ![r] = TRUE]
    /\ mail' = [mail EXCEPT ![r] = <<Letter("Stop")>>]
    /\ UNCHANGED <<store, unhealthy, host, phase, current, told, called, sending,
                   lost, events, sets>>

----------------------------------------------------------------------------
(* A worker on runtime r.                                                  *)

\* It is not in the middle of a set().
Free(r) == sending[r] = {}

Idle(r) == phase[r] = "idle" /\ Free(r) /\ mail[r] # <<>>

\* PluginStateStore::removeWatchers.
RemoveWatchers(r) ==
    watchers' = [k \in Key |-> {w \in watchers[k] : w.token # r}]

\* An event of the kind Call: the script runs if there is one.
TakeCall(r) ==
    /\ Idle(r) /\ Head(mail[r]).kind = "Call"
    /\ mail' = [mail EXCEPT ![r] = Tail(@)]
    /\ current' = [current EXCEPT ![r] = "Call"]
    /\ phase' = [phase EXCEPT ![r] = IF host[r].id > 0 THEN "call" ELSE "idle"]
    /\ UNCHANGED <<store, stopping, unhealthy, host, told, called, sending, lost,
                   events, sets>>

\* News of a key: the callback in the slot runs, if the host has one there.
\* Unlike the other completions the event names no host.
Hears(r, m) == m.ref \in DOMAIN host[r].fns

TakeNews(r) ==
    /\ Idle(r) /\ Head(mail[r]).kind = "Watch"
    /\ mail' = [mail EXCEPT ![r] = Tail(@)]
    /\ current' = [current EXCEPT ![r] = "Watch"]
    /\ LET m == Head(mail[r]) IN
       IF Hears(r, m)
       THEN /\ told' = [told EXCEPT ![r][m.key] = m.value]
            /\ called' = [called EXCEPT ![r] =
                            [fn |-> host[r].fns[m.ref], key |-> m.key]]
            /\ phase' = [phase EXCEPT ![r] = "call"]
       ELSE UNCHANGED <<told, called, phase>>
    /\ UNCHANGED <<store, stopping, unhealthy, host, sending, lost, events, sets>>

\* teardownHost: the watchers go, then onExit runs on the old host.
TakeLeave(r) ==
    /\ Idle(r) /\ Head(mail[r]).kind \in {"Reload", "Stop"}
    /\ mail' = [mail EXCEPT ![r] = Tail(@)]
    /\ current' = [current EXCEPT ![r] = Head(mail[r]).kind]
    /\ RemoveWatchers(r)
    /\ phase' = [phase EXCEPT ![r] = IF host[r].id > 0 THEN "exit" ELSE "leave"]
    /\ UNCHANGED <<values, stopping, unhealthy, host, told, called, sending, lost,
                   events, sets>>

\* The worker is in the script, and in no set().
InScript(r) == phase[r] \in {"call", "exit"} /\ Free(r)

\* The call ends; updateHealth may find that it was one failure or overrun too
\* many (ScriptRuntime says when).  onExit is not judged.
Ends(r) ==
    /\ phase' = [phase EXCEPT ![r] = IF @ = "call" THEN "idle" ELSE "leave"]
    /\ \/ UNCHANGED unhealthy
       \/ phase[r] = "call" /\ unhealthy' = [unhealthy EXCEPT ![r] = TRUE]

Return(r) ==
    /\ InScript(r) /\ Ends(r)
    /\ UNCHANGED <<store, mail, stopping, host, current, told, called, sending,
                   lost, events, sets>>

\* chiroptera.state.watch: the callback takes the next slot of the registry.
Watch(r, k) ==
    /\ InScript(r) /\ Len(host[r].fns) < MaxFns
    /\ host' = [host EXCEPT ![r].fns = Append(@, k)]
    /\ watchers' = [watchers EXCEPT ![k] = @ \union
                      {[token |-> r, ref |-> Len(host[r].fns) + 1, host |-> host[r].id]}]
    /\ Ends(r)
    /\ UNCHANGED <<values, mail, stopping, current, told, called, sending, lost,
                   events, sets>>

\* chiroptera.state.set, the section under the store's mutex.
Set(r, k) ==
    /\ InScript(r) /\ <<r, k>> \in Writes /\ sets < MaxSets
    /\ sets' = sets + 1
    /\ values' = [values EXCEPT ![k] = sets + 1]
    /\ sending' = [sending EXCEPT ![r] =
                     {[to |-> w, key |-> k, value |-> sets + 1] : w \in watchers[k]}]
    /\ UNCHANGED <<watchers, mail, stopping, unhealthy, host, phase, current,
                   told, called, lost, events>>

\* What a watcher puts into the mailbox of its runtime.
NewsLetter(n) == [kind |-> "Watch", ref |-> n.to.ref, key |-> n.key, value |-> n.value]

\* Mutant: the news goes to the front of the mailbox.
PostedFirst(n) == [mail EXCEPT ![n.to.token] = <<NewsLetter(n)>> \o @]

Posted(n) == [mail EXCEPT ![n.to.token] = Append(@, NewsLetter(n))]

\* Mutant: a full mailbox ends the round.
NotifyStops(r, n) ==
    /\ n \in sending[r]
    /\ IF Admits(n.to.token)
       THEN /\ mail' = Posted(n) /\ UNCHANGED lost
            /\ sending' = [sending EXCEPT ![r] = @ \ {n}]
       ELSE /\ lost' = lost \union {n} /\ UNCHANGED mail
            /\ sending' = [sending EXCEPT ![r] = {}]
    /\ UNCHANGED <<store, stopping, unhealthy, host, phase, current, told, called,
                   events, sets>>

\* The rest of set(): a copied watcher is called; the mailbox of its runtime
\* may refuse the news.
Notify(r, n) ==
    /\ n \in sending[r]
    /\ IF Admits(n.to.token)
       THEN mail' = Posted(n) /\ UNCHANGED lost
       ELSE lost' = lost \union {n} /\ UNCHANGED mail
    /\ sending' = [sending EXCEPT ![r] = @ \ {n}]
    /\ UNCHANGED <<store, stopping, unhealthy, host, phase, current, told, called,
                   events, sets>>

\* Mutant: the watchers that onExit registered stay.
KeepWatchers(r) == UNCHANGED watchers

\* teardownHost removes the watchers a second time, after onExit.
RemoveWatchersAgain(r) == RemoveWatchers(r)

\* The rest of teardownHost: the watchers go again and the host with them; a
\* reload loads a new one and runs its chunk.
Leave(r) ==
    /\ phase[r] = "leave" /\ Free(r)
    /\ RemoveWatchersAgain(r)
    /\ told' = [told EXCEPT ![r] = Untold]
    /\ called' = [called EXCEPT ![r] = Uncalled]
    /\ \/ /\ current[r] = "Reload"
          /\ host' = [host EXCEPT ![r] = [id |-> @.id + 1, fns |-> <<>>]]
          /\ phase' = [phase EXCEPT ![r] = "call"]
          /\ UNCHANGED mail
       \/ /\ current[r] = "Stop"
          /\ host' = [host EXCEPT ![r] = NoHost]
          /\ phase' = [phase EXCEPT ![r] = "idle"]
          /\ mail' = [mail EXCEPT ![r] = <<>>]
    /\ UNCHANGED <<values, stopping, unhealthy, current, sending, lost, events, sets>>

Work(r) ==
    \/ TakeCall(r) \/ TakeNews(r) \/ TakeLeave(r) \/ Return(r) \/ Leave(r)
    \/ \E k \in Key : Watch(r, k) \/ Set(r, k)
    \/ \E n \in sending[r] : Notify(r, n)

Next ==
    \E r \in Runtime :
       \/ SendCall(r) \/ SendReload(r) \/ Stop(r)
       \/ Work(r)

Spec == Init /\ [][Next]_vars

\* The pool serves every mailbox, and the CPU budget ends every call.
FairSpec == Spec /\ \A r \in Runtime : WF_vars(Work(r))

----------------------------------------------------------------------------
(* Properties.                                                             *)

\* Every variable keeps to its range and every mailbox to its size.
TypeOK ==
    /\ values \in [Key -> Nat] /\ watchers \in [Key -> SUBSET Watcher]
    /\ mail \in [Runtime -> Seq(Mail)]
    /\ \A r \in Runtime : Len(mail[r]) <= MaxQueuedEvents
    /\ stopping \in [Runtime -> BOOLEAN] /\ unhealthy \in [Runtime -> BOOLEAN]
    /\ host \in [Runtime -> [id: Nat, fns: Seq(Key)]]
    /\ phase \in [Runtime -> {"idle", "call", "exit", "leave"}]
    /\ current \in [Runtime -> {"Call", "Reload", "Stop", "Watch"}]
    /\ sending \in [Runtime -> SUBSET News]
    /\ told \in [Runtime -> [Key -> Nat]]
    /\ called \in [Runtime -> [fn: Key \union {NoKey}, key: Key \union {NoKey}]]
    /\ lost \subseteq News /\ events \in Nat /\ sets \in Nat

\* The store holds no watcher of a VM that is gone, not even one that the
\* script registered in its onExit, and the slot it names holds the callback
\* for its key.
WatchersAreLive ==
    \A k \in Key : \A w \in watchers[k] :
       /\ host[w.token].id = w.host
       /\ w.ref \in DOMAIN host[w.token].fns /\ host[w.token].fns[w.ref] = k

\* A script is given the values of a key that only one runtime sets in the
\* order in which they were set, over the store, the copied watchers and the
\* mailbox.
OneWriter(k) == \A r, s \in Runtime : <<r, k>> \in Writes /\ <<s, k>> \in Writes => r = s

NewsInOrder ==
    [][\A r \in Runtime, k \in Key :
          OneWriter(k) /\ host'[r].id = host[r].id => told'[r][k] >= told[r][k]]_vars

\* A VM that watched a key when it was set is told of that value, unless it is
\* torn down first or its runtime refuses the news: another watcher's runtime
\* being full, gone or disabled takes nothing from it.
InFlight(r, h, k, v) ==
    \E s \in Runtime : \E n \in sending[s] :
       n.to.token = r /\ n.to.host = h /\ n.key = k /\ n.value = v

Refused(r, h, k, v) ==
    \E n \in lost : n.to.token = r /\ n.to.host = h /\ n.key = k /\ n.value = v

NewsArrives ==
    \A r \in Runtime, k \in Key, h \in 1..MaxEvents, v \in 1..MaxSets :
       InFlight(r, h, k, v) ~>
          told[r][k] >= v \/ host[r].id # h \/ Refused(r, h, k, v)

\* A callback is given the values of the key it was registered for.
CalledForItsKey == \A r \in Runtime : called[r].fn = called[r].key
----------------------------------------------------------------------------
(* Inductive strengthening of NewsInOrder, for the proofs.                 *)

\* A runtime that runs a script has a VM, and one that has none was told
\* nothing.
HostInv ==
    \A r \in Runtime :
       /\ phase[r] \in {"call", "exit"} => host[r].id > 0
       /\ host[r].id = 0 => host[r].fns = <<>> /\ told[r] = Untold

\* Letter i of a mailbox is news of k.
Tells(r, i, k) == mail[r][i].kind = "Watch" /\ mail[r][i].key = k

\* What the script has been told of a key, what its mailbox will tell it and
\* what is still to be posted are in this order, up to the stored value.
ToldIsOld(k) ==
    /\ values[k] <= sets
    /\ \A r \in Runtime : told[r][k] <= values[k]

MailIsBetween(k) ==
    \A r \in Runtime : \A i \in DOMAIN mail[r] :
       Tells(r, i, k) => told[r][k] <= mail[r][i].value /\ mail[r][i].value <= values[k]

MailIsSorted(k) ==
    \A r \in Runtime : \A i, j \in DOMAIN mail[r] :
       i < j /\ Tells(r, i, k) /\ Tells(r, j, k) => mail[r][i].value <= mail[r][j].value

SendsTheLatest(k) ==
    \A r \in Runtime : \A n \in sending[r] :
       n.key = k => <<r, k>> \in Writes /\ n.value = values[k]

NewsInv ==
    \A k \in Key : OneWriter(k) =>
       ToldIsOld(k) /\ MailIsBetween(k) /\ MailIsSorted(k) /\ SendsTheLatest(k)
=============================================================================
