------------------------ MODULE NotificationManager ------------------------
(***************************************************************************)
(* notification/notification_manager.cpp as the notification daemon and the *)
(* shell use it: the notifications on screen, the history with its bound,   *)
(* the close signals owed to the applications, what is saved, and what the  *)
(* bar shows.  A notification is what decides its way: whether it may be    *)
(* kept in the history, whether its urgency is one that a filter with a list *)
(* of urgencies allows, and whether it has actions.                         *)
(***************************************************************************)
EXTENDS Naturals, SequencesExt

CONSTANTS
    MaxId,          \* bound: the ids that can be handed out
    MaxHistory,     \* kMaxHistoryEntries
    Notes,          \* the notifications that occur
    Configs,        \* the configurations that occur
    MaxChanges,     \* bound: changes of the configuration
    MaxRestarts,    \* bound: restarts of the shell
    NoNote          \* no notification

ASSUME NotificationAssumption ==
    /\ MaxId \in Nat
    /\ MaxHistory \in Nat \ {0}
    /\ Notes \subseteq [tracked : BOOLEAN, allowed : BOOLEAN, actions : BOOLEAN]
    /\ Configs \subseteq [filter : {"pass", "urgency", "noToast", "noHistory", "drop"},
                           keepDismissed : BOOLEAN]
    /\ NoNote \notin [tracked : BOOLEAN, allowed : BOOLEAN, actions : BOOLEAN]

VARIABLES
    live,               \* m_notifications
    expiring,           \* those whose expiryTime is set
    history,            \* m_history
    pending,            \* m_pendingDBusClose
    suppressed,         \* m_suppressedIds
    nextId,             \* m_nextId
    config,             \* m_filters (their verdict), m_keepDismissedInHistory
    persistScheduled,   \* m_persistScheduled
    disk,               \* notification_history.json; history: it is behind, as a
                        \* save or a load has failed since it was written
    refresh,            \* scheduleNotificationShellRefresh was called
    indicator,          \* the bar shows that something is unread
    panelOpen,          \* the notifications tab is open
    issued,             \* history: the ids given out in this session to be seen
    told,               \* history: NotificationClosed signals of this session
    changes             \* bounds: changes and restarts so far

manager == <<live, expiring, history, pending, suppressed, nextId>>
shell == <<config, panelOpen, changes>>
vars == <<manager, shell, persistScheduled, disk, refresh, indicator, issued, told>>

Ids == 1..MaxId
Note == [tracked : BOOLEAN, allowed : BOOLEAN, actions : BOOLEAN]
HistoryEntry == [id : Ids, active : BOOLEAN, seen : BOOLEAN, actions : BOOLEAN]
IsLive(id) == id \in Ids /\ live[id] # NoNote

-----------------------------------------------------------------------------
(* Filters. *)

\* shouldSaveNotificationToHistory, which a close asks: not for the urgencies.
ShouldSave(n) == n.tracked /\ config.filter \in {"pass", "urgency", "noToast"}

\* evaluateExternalDispatch, for one that comes or replaces another.
Barred(n) == config.filter = "urgency" /\ ~n.allowed
ShowsToast(n) == config.filter \in {"pass", "urgency", "noHistory"} /\ ~Barred(n)
SavesHistory(n) == ShouldSave(n) /\ ~Barred(n)
Suppresses(n) == ~ShowsToast(n) /\ ~SavesHistory(n)

-----------------------------------------------------------------------------
(* The book: what the private helpers change, passed from one to the next.  *)

Book == [history |-> history, pending |-> pending, told |-> told,
         save |-> persistScheduled, refresh |-> refresh]

Keep(b) ==
    /\ history' = b.history
    /\ pending' = b.pending
    /\ told' = b.told
    /\ persistScheduled' = b.save
    /\ refresh' = b.refresh

Place(b, id) == {i \in DOMAIN b.history : b.history[i].id = id}
InHistory(b, id) == Place(b, id) # {}
Unread(b) == \E i \in DOMAIN b.history : ~b.history[i].seen

\* The history is h from now on, and is to be saved: schedulePersistHistory().
WithHistory(b, h) == [b EXCEPT !.history = h, !.save = TRUE]

\* The entries of h without those of the ids in gone.
Without(h, gone) ==
    LET kept[n \in 0..Len(h)] ==
            IF n = 0 THEN <<>>
            ELSE IF h[n].id \in gone THEN kept[n - 1]
            ELSE Append(kept[n - 1], h[n])
    IN kept[Len(h)]

\* The bar is refreshed, later, for every event and every change of unread.
Refreshed(b) == [b EXCEPT !.refresh = TRUE]
UnreadWas(b, hadUnread) == IF Unread(b) # hadUnread THEN Refreshed(b) ELSE b

\* m_closeCallback: NotificationClosed goes out.
Emit(b, id) == [b EXCEPT !.told[id] = @ + 1]

\* The close signals that are owed for the ids in gone go out.
Tell(b, gone) ==
    [b EXCEPT !.told = [id \in Ids |-> IF id \in gone \cap b.pending THEN @[id] + 1 ELSE @[id]]]

\* Mutant: the signals stay owed after they were sent.
EmitPendingKept(b, gone) == Tell(b, gone)

EmitPending(b, gone) == [Tell(b, gone) EXCEPT !.pending = @ \ gone]

\* An entry moves to the newest place and stays seen; the oldest makes room.
Upsert(b, entry) ==
    LET seen == \E i \in Place(b, entry.id) : b.history[i].seen
        full == Append(Without(b.history, {entry.id}), [entry EXCEPT !.seen = seen])
    IN IF Len(full) <= MaxHistory THEN WithHistory(b, full)
       ELSE WithHistory(EmitPending(b, {Head(full).id}), Tail(full))

Closed(h, id) ==
    [i \in DOMAIN h |-> IF h[i].id = id THEN [h[i] EXCEPT !.active = FALSE] ELSE h[i]]

\* Mutant: the change is not saved.
MarkClosedUnsaved(b, id) == [b EXCEPT !.history = Closed(@, id)]

MarkClosed(b, id) == IF InHistory(b, id) THEN WithHistory(b, Closed(b.history, id)) ELSE b

\* Mutant: an entry goes without the close signal that is owed for it.
RemoveEntryUntold(b, id) ==
    IF InHistory(b, id) THEN UnreadWas(WithHistory(b, Without(b.history, {id})), Unread(b))
    ELSE b

RemoveEntry(b, id) ==
    IF InHistory(b, id)
    THEN UnreadWas(WithHistory(EmitPending(b, {id}), Without(b.history, {id})), Unread(b))
    ELSE b

AllSeen(h) == [i \in DOMAIN h |-> [h[i] EXCEPT !.seen = TRUE]]

MarkSeen(b) ==
    IF Unread(b) THEN UnreadWas(WithHistory(b, AllSeen(b.history)), TRUE) ELSE b

\* The entries are gone before they are marked as seen.
Clear(b) ==
    LET gone == {b.history[i].id : i \in DOMAIN b.history}
    IN IF b.history = <<>> THEN b ELSE MarkSeen(WithHistory(EmitPending(b, gone), <<>>))

-----------------------------------------------------------------------------
(* The file. *)

Blank == [history |-> <<>>, nextId |-> 1, behind |-> FALSE]
Behind(file) == [file EXCEPT !.behind = TRUE]

\* saveNotificationHistoryToFile: written; not written; or, as what was written
\* is not looked at before it takes the file's place, cut short: what does not
\* parse is read as nothing.
Saves ==
    {[history |-> history, nextId |-> nextId, behind |-> FALSE], Behind(disk), Behind(Blank)}

-----------------------------------------------------------------------------
Init ==
    /\ live = [id \in Ids |-> NoNote]
    /\ expiring = {}
    /\ history = <<>>
    /\ pending = {}
    /\ suppressed = {}
    /\ nextId = 1
    /\ config \in Configs
    /\ persistScheduled = FALSE
    /\ disk = Blank
    /\ refresh = FALSE
    /\ indicator = FALSE
    /\ panelOpen = FALSE
    /\ issued = {}
    /\ told = [id \in Ids |-> 0]
    /\ changes = [config |-> 0, restarts |-> 0]

Entry(id, n) == [id |-> id, active |-> TRUE, seen |-> FALSE, actions |-> n.actions]

\* Notify with an id that is not on screen: a new one is made.  The id of a
\* suppressed notification that is now let through is given up.
Notify(n, replaces) ==
    /\ nextId \in Ids
    /\ ~IsLive(replaces)
    /\ ~Suppresses(n)
    /\ live' = [live EXCEPT ![nextId] = n]
    /\ \E timed \in BOOLEAN :
          expiring' = IF timed THEN expiring \cup {nextId} ELSE expiring
    /\ nextId' = nextId + 1
    /\ suppressed' = suppressed \ {replaces}
    /\ LET b == IF SavesHistory(n)
                THEN UnreadWas(Upsert(Book, Entry(nextId, n)), Unread(Book))
                ELSE Book
       IN Keep(IF ~ShowsToast(n) THEN b
               ELSE Refreshed(IF panelOpen THEN MarkSeen(b) ELSE b))
    /\ issued' = issued \cup {nextId}
    /\ UNCHANGED <<shell, disk, indicator>>

\* A notification nobody is to see gets an id and nothing else.
Suppress(n, replaces) ==
    /\ nextId \in Ids
    /\ replaces \notin suppressed
    /\ ~IsLive(replaces)
    /\ Suppresses(n)
    /\ suppressed' = suppressed \cup {nextId}
    /\ nextId' = nextId + 1
    /\ UNCHANGED <<live, expiring, history, pending, shell, persistScheduled, disk,
                   refresh, indicator, issued, told>>

Replace(n, id) ==
    /\ IsLive(id)
    /\ live' = [live EXCEPT ![id] = n]
    /\ \E timed \in BOOLEAN :
          expiring' = IF timed THEN expiring \cup {id} ELSE expiring \ {id}
    /\ LET b == IF SavesHistory(n)
                THEN UnreadWas(Upsert(Book, Entry(id, n)), Unread(Book))
                ELSE RemoveEntry(Book, id)
       IN Keep(IF ShowsToast(n) THEN Refreshed(b) ELSE b)
    /\ UNCHANGED <<suppressed, nextId, shell, disk, indicator, issued>>

\* close() of a notification on screen.
CloseLive(b, id, reason) ==
    LET n == live[id]
        removed == reason = "Dismissed" /\ ~config.keepDismissed
        deferred == reason = "Expired" /\ n.actions
        kept == IF ~ShouldSave(n) THEN b
                ELSE IF removed THEN RemoveEntry(b, id)
                ELSE IF InHistory(b, id) THEN MarkClosed(b, id)
                ELSE Upsert(b, [Entry(id, n) EXCEPT !.active = FALSE])
        heard == Refreshed(kept)
    IN UnreadWas(IF deferred THEN [heard EXCEPT !.pending = @ \cup {id}]
                 ELSE Emit(heard, id),
                 Unread(b))

\* close() of one that expired and is remembered for its actions.
ClosePending(b, id, reason) ==
    LET c == EmitPending(b, {id})
    IN IF reason = "Dismissed" /\ ~config.keepDismissed
       THEN RemoveEntry(c, id) ELSE MarkClosed(c, id)

Gone(id) ==
    /\ live' = [live EXCEPT ![id] = NoNote]
    /\ expiring' = expiring \ {id}

\* close(): by the application, by the user, by expiry.
Close(id, reason) ==
    /\ id \notin suppressed
    /\ \/ /\ IsLive(id)
          /\ Keep(CloseLive(Book, id, reason))
          /\ Gone(id)
       \/ /\ ~IsLive(id) /\ id \in pending
          /\ Keep(ClosePending(Book, id, reason))
          /\ UNCHANGED <<live, expiring>>
    /\ UNCHANGED <<suppressed, nextId, shell, disk, indicator, issued>>

CloseSuppressed(id) ==
    /\ id \in suppressed
    /\ suppressed' = suppressed \ {id}
    /\ UNCHANGED <<live, expiring, history, pending, nextId, shell, persistScheduled,
                   disk, refresh, indicator, issued, told>>

\* processExpired() closes what expiredIds() lists, one by one.
Expire(id) == id \in expiring /\ Close(id, "Expired")

\* The toast stops the clock while the pointer is on it, and starts it again.
PauseExpiry(id) ==
    /\ id \in expiring
    /\ expiring' = expiring \ {id}
    /\ UNCHANGED <<live, history, pending, suppressed, nextId, shell, persistScheduled,
                   disk, refresh, indicator, issued, told>>

ResumeExpiry(id) ==
    /\ IsLive(id)
    /\ expiring' = expiring \cup {id}
    /\ UNCHANGED <<live, history, pending, suppressed, nextId, shell, persistScheduled,
                   disk, refresh, indicator, issued, told>>

\* Mutant: an action in the history can be invoked however it got there.
InvocableInHistory(id) ==
    \/ IsLive(id) /\ live[id].actions
    \/ ~IsLive(id) /\ \E i \in Place(Book, id) : history[i].actions

\* What invokeAction() accepts: a notification on screen, or one whose
\* application has not been told that it is closed.
Invocable(id) ==
    \/ IsLive(id) /\ live[id].actions
    \/ /\ ~IsLive(id)
       /\ id \in pending
       /\ \E i \in Place(Book, id) : history[i].actions

\* invokeAction() from the history: the entry stays without its actions.
InvokedEntry(b, id) ==
    WithHistory(EmitPending(b, {id}),
        [i \in DOMAIN b.history |->
            IF b.history[i].id = id
            THEN [b.history[i] EXCEPT !.actions = FALSE, !.active = FALSE]
            ELSE b.history[i]])

Invoke(id, closeAfterInvoke) ==
    /\ Invocable(id)
    /\ \/ ~closeAfterInvoke /\ UNCHANGED <<manager, persistScheduled, refresh, told>>
       \/ /\ closeAfterInvoke /\ IsLive(id)
          /\ Keep(CloseLive(Book, id, "Dismissed"))
          /\ Gone(id)
          /\ UNCHANGED <<suppressed, nextId>>
       \/ /\ closeAfterInvoke /\ ~IsLive(id)
          /\ Keep(InvokedEntry(Book, id))
          /\ UNCHANGED <<live, expiring, suppressed, nextId>>
    /\ UNCHANGED <<shell, disk, indicator, issued>>

\* removeNotificationEntry() of the tab: what is on screen is dismissed first.
RemoveByUser(id) ==
    /\ panelOpen
    /\ InHistory(Book, id)
    /\ \/ /\ IsLive(id)
          /\ Keep(RemoveEntry(CloseLive(Book, id, "Dismissed"), id))
          /\ Gone(id)
       \/ /\ ~IsLive(id)
          /\ Keep(RemoveEntry(Book, id))
          /\ UNCHANGED <<live, expiring>>
    /\ UNCHANGED <<suppressed, nextId, shell, disk, indicator, issued>>

\* The book after what is on screen, up to the id n, was dismissed.
Dismissed[n \in 0..MaxId] ==
    IF n = 0 THEN Book
    ELSE IF IsLive(n) THEN CloseLive(Dismissed[n - 1], n, "Dismissed")
    ELSE Dismissed[n - 1]

\* clearAllNotifications() of the tab: what is on screen is dismissed first.
ClearAll ==
    /\ panelOpen
    /\ Keep(Clear(Dismissed[MaxId]))
    /\ live' = [id \in Ids |-> NoNote]
    /\ expiring' = {}
    /\ UNCHANGED <<suppressed, nextId, shell, disk, indicator, issued>>

\* notification-clear-history over IPC.
ClearHistory ==
    /\ Keep(Clear(Book))
    /\ UNCHANGED <<live, expiring, suppressed, nextId, shell, disk, indicator, issued>>

\* cleanupOldHistoryEntries(), once a minute: some closed entries are older
\* than the retention.
ClosedEntries == {history[i].id : i \in {j \in DOMAIN history : ~history[j].active}}

Sweep ==
    \E gone \in (SUBSET ClosedEntries) \ {{}} :
       /\ Keep(UnreadWas(WithHistory(EmitPending(Book, gone), Without(history, gone)),
                         Unread(Book)))
       /\ UNCHANGED <<live, expiring, suppressed, nextId, shell, disk, indicator, issued>>

\* The tab is opened, which marks everything as seen, or closed.
OpenPanel ==
    /\ ~panelOpen
    /\ panelOpen' = TRUE
    /\ Keep(MarkSeen(Book))
    /\ UNCHANGED <<live, expiring, suppressed, nextId, config, changes, disk, indicator, issued>>

ClosePanel ==
    /\ panelOpen
    /\ panelOpen' = FALSE
    /\ UNCHANGED <<manager, config, changes, persistScheduled, disk, refresh, indicator, issued, told>>

Configure ==
    /\ changes.config < MaxChanges
    /\ config' \in Configs \ {config}
    /\ changes' = [changes EXCEPT !.config = @ + 1]
    /\ UNCHANGED <<manager, panelOpen, persistScheduled, disk, refresh, indicator, issued, told>>

\* The deferred calls: the file is written, the bar is brought up to date.
Persist ==
    /\ persistScheduled
    /\ persistScheduled' = FALSE
    /\ disk' \in Saves
    /\ UNCHANGED <<manager, shell, refresh, indicator, issued, told>>

RefreshShell ==
    /\ refresh
    /\ refresh' = FALSE
    /\ indicator' = Unread(Book)
    /\ UNCHANGED <<manager, shell, persistScheduled, disk, issued, told>>

NextIdAfter(saved) ==
    Max({saved.nextId} \cup {saved.history[i].id + 1 : i \in DOMAIN saved.history})

\* The shell starts again with what the file holds.
Load(saved) ==
    /\ live' = [id \in Ids |-> NoNote]
    /\ expiring' = {}
    /\ history' = saved.history
    /\ pending' = {}
    /\ suppressed' = {}
    /\ nextId' = NextIdAfter(saved)
    /\ persistScheduled' = FALSE
    /\ refresh' = FALSE
    /\ indicator' = \E i \in DOMAIN saved.history : ~saved.history[i].seen
    /\ panelOpen' = FALSE
    /\ issued' = {}
    /\ told' = [id \in Ids |-> 0]
    /\ changes' = [changes EXCEPT !.restarts = @ + 1]
    /\ UNCHANGED config

\* loadPersistedHistory: what the file holds, or nothing when it is not read.
Starts(file) ==
    \/ Load(file) /\ disk' = file
    \/ Load(Blank) /\ disk' = Behind(file)

\* ~Application flushes: what is pending is closed, the history is written.
Restart ==
    /\ changes.restarts < MaxRestarts
    /\ \E file \in Saves : Starts(file)

Crash ==
    /\ changes.restarts < MaxRestarts
    /\ Starts(disk)

Next ==
    \* An id that is neither suppressed nor on screen replaces nothing, as 0.
    \/ \E n \in Notes, id \in suppressed \cup {0} : Notify(n, id) \/ Suppress(n, id)
    \/ \E n \in Notes, id \in Ids : Replace(n, id)
    \/ \E id \in Ids :
        \/ Close(id, "Dismissed") \/ Close(id, "ClosedByCall")
        \/ CloseSuppressed(id)
        \/ Expire(id) \/ PauseExpiry(id) \/ ResumeExpiry(id)
        \/ Invoke(id, TRUE) \/ Invoke(id, FALSE)
        \/ RemoveByUser(id)
    \/ ClearHistory \/ ClearAll \/ Sweep
    \/ OpenPanel \/ ClosePanel \/ Configure
    \/ Persist \/ RefreshShell
    \/ Restart \/ Crash

Spec == Init /\ [][Next]_vars

-----------------------------------------------------------------------------
(* Properties. *)

\* Every kept entry has an id of its own and the bound is respected.
TypeOK ==
    /\ live \in [Ids -> Note \cup {NoNote}]
    /\ expiring \subseteq {id \in Ids : IsLive(id)}
    /\ history \in Seq(HistoryEntry) /\ Len(history) <= MaxHistory
    /\ \A i, j \in DOMAIN history : history[i].id = history[j].id => i = j
    /\ pending \subseteq Ids /\ suppressed \subseteq Ids
    /\ nextId \in 1..MaxId + 1 /\ disk.behind \in BOOLEAN
    /\ persistScheduled \in BOOLEAN /\ refresh \in BOOLEAN
    /\ indicator \in BOOLEAN /\ panelOpen \in BOOLEAN

\* An application is told exactly once that its notification is closed: not
\* while it is on screen or kept for its actions, and once it is neither,
\* whichever way it went (dismissed, expired, evicted, swept, cleared).
ClosedOnce ==
    \A id \in Ids : told[id] =
        IF id \in issued /\ ~IsLive(id) /\ id \notin pending THEN 1 ELSE 0

\* An entry that leaves the history takes the close signal that was kept back
\* for its actions with it: nobody could invoke them any more.
NoCloseIsLeftBehind ==
    [][\A id \in Ids : InHistory(Book, id) /\ ~InHistory(Book, id)' => id \notin pending']_vars

\* No action is reported for a notification whose application has been told
\* that it is closed, nor for one of an earlier session of the shell.
ActionsHaveAnOwner ==
    \A id \in Ids : Invocable(id) => id \in issued /\ told[id] = 0

\* What the history shows is on disk or about to be written; unless a save or a
\* load has failed, until the next save: a failed one is not tried again.
NothingUnsaved == persistScheduled \/ disk.behind \/ disk.history = history

\* An id in use is never given out again, after a crash either: a new
\* notification would take over an entry, or a close signal, of another.
IdsAreFresh ==
    LET used == {id \in Ids : IsLive(id)} \cup pending \cup suppressed
                \cup {history[i].id : i \in DOMAIN history}
    IN \A id \in used : id < nextId

\* The bar shows that something is unread exactly when it is, or is about to
\* be refreshed; except that clearing the history by command leaves it as it is.
BarIsInSync == ~refresh /\ history # <<>> => indicator = Unread(Book)

\* What is on screen is never swept from the history.
LiveEntriesAreActive ==
    \A i \in DOMAIN history : IsLive(history[i].id) => history[i].active

\* The history, the toasts, the bar, the disk and the ids agree.
BooksAgree == TypeOK /\ LiveEntriesAreActive /\ BarIsInSync /\ IdsAreFresh /\ NothingUnsaved
=============================================================================
