------------------------- MODULE PluginState_proofs -------------------------
(***************************************************************************)
(* Theorems about PluginState, for any runtimes, keys and writers, any     *)
(* capacity of the mailboxes, and however many values are set.             *)
(***************************************************************************)
EXTENDS PluginState, SequenceTheorems, TLAPS

\* What a letter posted at the end of a mailbox, and one taken from its front,
\* leave of it.
LEMMA PostedMail ==
    ASSUME NEW s \in Seq(Mail), NEW m \in Mail
    PROVE  /\ Append(s, m) \in Seq(Mail) /\ Len(Append(s, m)) = Len(s) + 1
           /\ \A i \in DOMAIN Append(s, m) :
                 \/ i \in DOMAIN s /\ Append(s, m)[i] = s[i]
                 \/ i = Len(s) + 1 /\ Append(s, m)[i] = m
<1>1. DOMAIN s = 1..Len(s) /\ Len(s) \in Nat
  BY LenProperties
<1>. QED
  BY <1>1, AppendProperties

LEMMA TakenMail ==
    ASSUME NEW s \in Seq(Mail), s # <<>>
    PROVE  /\ Head(s) \in Mail /\ Head(s) = s[1] /\ 1 \in DOMAIN s
           /\ Tail(s) \in Seq(Mail) /\ Len(Tail(s)) = Len(s) - 1 /\ Len(s) \in Nat
           /\ \A i \in DOMAIN Tail(s) :
                 i \in Nat \ {0} /\ i + 1 \in DOMAIN s /\ Tail(s)[i] = s[i + 1]
<1>1. DOMAIN s = 1..Len(s) /\ Len(s) \in Nat /\ Len(s) > 0
  BY LenProperties, EmptySeq
<1>. QED
  BY <1>1, HeadTailProperties, LenProperties

\* A letter that is the only one.
LEMMA OnlyMail ==
    ASSUME NEW m \in Mail
    PROVE  <<m>> \in Seq(Mail) /\ Len(<<m>>) = 1 /\ DOMAIN <<m>> = {1} /\ <<m>>[1] = m
OBVIOUS

LEMMA LetterIsMail ==
    ASSUME NEW kind \in {"Call", "Reload", "Stop"}
    PROVE  Letter(kind) \in Mail /\ Letter(kind).kind = kind
BY DEF Letter, Mail

LEMMA NewsLetterIsMail ==
    ASSUME NEW n \in News
    PROVE  /\ NewsLetter(n) \in Mail /\ NewsLetter(n).kind = "Watch"
           /\ NewsLetter(n).key = n.key /\ NewsLetter(n).value = n.value
BY DEF NewsLetter, News, Mail, Watcher

----------------------------------------------------------------------------
(* Type correctness, and the size of the mailboxes.                        *)

\* What the types say of the mailboxes.
MailOK ==
    /\ mail \in [Runtime -> Seq(Mail)]
    /\ \A r \in Runtime : Len(mail[r]) <= MaxQueuedEvents

\* A letter taken from its mailbox leaves the mailboxes in their ranges.
LEMMA TakeMailOK ==
    ASSUME MailOK, NEW r \in Runtime, mail[r] # <<>>,
           mail' = [mail EXCEPT ![r] = Tail(@)]
    PROVE  MailOK' /\ Head(mail[r]) \in Mail
<1>1. /\ Head(mail[r]) \in Mail /\ Tail(mail[r]) \in Seq(Mail)
      /\ Len(Tail(mail[r])) = Len(mail[r]) - 1 /\ Len(mail[r]) \in Nat
  BY TakenMail DEF MailOK
<1>. QED
  BY <1>1, PluginStateAssumption DEF MailOK, PluginStateAssumption

\* So does a letter posted where there is room.
LEMMA PostMailOK ==
    ASSUME MailOK, NEW r \in Runtime, NEW m \in Mail, HasRoom(r),
           mail' = [mail EXCEPT ![r] = Append(@, m)]
    PROVE  MailOK'
<1>1. /\ Append(mail[r], m) \in Seq(Mail) /\ Len(mail[r]) \in Nat
      /\ Len(Append(mail[r], m)) = Len(mail[r]) + 1
  BY PostedMail, LenProperties DEF MailOK
<1>. QED
  BY <1>1, PluginStateAssumption DEF MailOK, PluginStateAssumption, HasRoom

LEMMA OneLetterOK ==
    ASSUME MailOK, NEW r \in Runtime, NEW m \in Mail,
           mail' = [mail EXCEPT ![r] = <<m>>]
    PROVE  MailOK'
BY OnlyMail, PluginStateAssumption DEF MailOK, PluginStateAssumption

LEMMA NoLetterOK ==
    ASSUME MailOK, NEW r \in Runtime, mail' = [mail EXCEPT ![r] = <<>>]
    PROVE  MailOK'
<1>1. <<>> \in Seq(Mail) /\ Len(<<>>) = 0
  BY EmptySeq
<1>. QED
  BY <1>1, PluginStateAssumption DEF MailOK, PluginStateAssumption

\* The rest of the types.
RestOK ==
    /\ values \in [Key -> Nat] /\ watchers \in [Key -> SUBSET Watcher]
    /\ stopping \in [Runtime -> BOOLEAN] /\ unhealthy \in [Runtime -> BOOLEAN]
    /\ host \in [Runtime -> [id: Nat, fns: Seq(Key)]]
    /\ phase \in [Runtime -> {"idle", "call", "exit", "leave"}]
    /\ current \in [Runtime -> {"Call", "Reload", "Stop", "Watch"}]
    /\ sending \in [Runtime -> SUBSET News]
    /\ told \in [Runtime -> [Key -> Nat]]
    /\ called \in [Runtime -> [fn: Key \union {NoKey}, key: Key \union {NoKey}]]
    /\ lost \subseteq News /\ events \in Nat /\ sets \in Nat

LEMMA TypeParts == TypeOK <=> MailOK /\ RestOK
BY DEF TypeOK, MailOK, RestOK

LEMMA RemoveType ==
    ASSUME RestOK, NEW r \in Runtime, RemoveWatchers(r)
    PROVE  watchers' \in [Key -> SUBSET Watcher]
BY DEF RestOK, RemoveWatchers

\* Every variable of the channel stays in its range, and no mailbox ever holds
\* more than kMaxQueuedEvents, whoever posts to it.
THEOREM TypeCorrect == Spec => []TypeOK
<1>1. Init => TypeOK
  <2>1. <<>> \in Seq(Mail) /\ Len(<<>>) = 0 /\ <<>> \in Seq(Key)
    BY EmptySeq
  <2>. QED
    BY <2>1, PluginStateAssumption
    DEF PluginStateAssumption, Init, TypeOK, NoHost, Untold, Uncalled, NoKey
<1>2. TypeOK /\ [Next]_vars => TypeOK'
  <2>. SUFFICES ASSUME MailOK, RestOK, [Next]_vars
                PROVE  MailOK' /\ RestOK'
    BY TypeParts, PTL
  <2>1. CASE UNCHANGED vars
    BY <2>1 DEF vars, store, runtimes, MailOK, RestOK
  <2>2. ASSUME NEW r \in Runtime, SendCall(r) \/ SendReload(r)
        PROVE  MailOK' /\ RestOK'
    <3>1. HasRoom(r) /\ Letter("Call") \in Mail /\ Letter("Reload") \in Mail
      BY <2>2, LetterIsMail DEF SendCall, SendReload, Admits
    <3>2. MailOK'
      BY <2>2, <3>1, PostMailOK, OneLetterOK DEF SendCall, SendReload
    <3>3. unhealthy' \in [Runtime -> BOOLEAN]
      BY <2>2 DEF SendCall, SendReload, RestOK
    <3>. QED
      BY <2>2, <3>2, <3>3 DEF SendCall, SendReload, store, RestOK
  <2>3. ASSUME NEW r \in Runtime, Stop(r)
        PROVE  MailOK' /\ RestOK'
    BY <2>3, OneLetterOK, LetterIsMail DEF Stop, store, RestOK
  <2>4. ASSUME NEW r \in Runtime, TakeCall(r)
        PROVE  MailOK' /\ RestOK'
    <3>1. MailOK'
      BY <2>4, TakeMailOK DEF TakeCall, Idle
    <3>. QED
      BY <2>4, <3>1 DEF TakeCall, store, RestOK
  <2>5. ASSUME NEW r \in Runtime, TakeNews(r)
        PROVE  MailOK' /\ RestOK'
    <3>. DEFINE m == Head(mail[r])
    <3>1. MailOK' /\ m \in Mail
      BY <2>5, TakeMailOK DEF TakeNews, Idle
    <3>2. m.key \in Key \union {NoKey} /\ m.value \in Nat
      BY <3>1 DEF Mail
    <3>. HIDE DEF m
    <3>3. CASE Hears(r, m)
      <4>1. /\ told' = [told EXCEPT ![r][m.key] = m.value]
            /\ called' = [called EXCEPT ![r] = [fn |-> host[r].fns[m.ref], key |-> m.key]]
            /\ phase' = [phase EXCEPT ![r] = "call"]
        BY <2>5, <3>3 DEF TakeNews, m
      <4>2. host[r].fns[m.ref] \in Key
        BY <3>3, ElementOfSeq, LenProperties DEF Hears, RestOK
      <4>3. told' \in [Runtime -> [Key -> Nat]]
        BY <3>2, <4>1 DEF RestOK
      <4>4. called' \in [Runtime -> [fn: Key \union {NoKey}, key: Key \union {NoKey}]]
        BY <3>2, <4>1, <4>2 DEF RestOK
      <4>. QED
        BY <2>5, <3>1, <4>1, <4>3, <4>4 DEF TakeNews, store, RestOK
    <3>4. CASE ~Hears(r, m)
      BY <2>5, <3>1, <3>4 DEF TakeNews, store, RestOK, m
    <3>. QED
      BY <3>3, <3>4
  <2>6. ASSUME NEW r \in Runtime, TakeLeave(r)
        PROVE  MailOK' /\ RestOK'
    <3>1. MailOK'
      BY <2>6, TakeMailOK DEF TakeLeave, Idle
    <3>2. watchers' \in [Key -> SUBSET Watcher]
      BY <2>6, RemoveType DEF TakeLeave
    <3>. QED
      BY <2>6, <3>1, <3>2 DEF TakeLeave, RestOK
  <2>7. ASSUME NEW r \in Runtime, Return(r)
        PROVE  MailOK' /\ RestOK'
    <3>1. phase' \in [Runtime -> {"idle", "call", "exit", "leave"}]
      BY <2>7 DEF Return, Ends, RestOK
    <3>2. unhealthy' \in [Runtime -> BOOLEAN]
      BY <2>7 DEF Return, Ends, RestOK
    <3>. QED
      BY <2>7, <3>1, <3>2 DEF Return, store, MailOK, RestOK
  <2>8. ASSUME NEW r \in Runtime, NEW k \in Key, Watch(r, k)
        PROVE  MailOK' /\ RestOK'
    <3>1. Append(host[r].fns, k) \in Seq(Key) /\ Len(host[r].fns) \in Nat /\ host[r].id \in Nat
      BY AppendProperties, LenProperties DEF RestOK
    <3>2. host' \in [Runtime -> [id: Nat, fns: Seq(Key)]]
      <4>. DEFINE h == [host[r] EXCEPT !.fns = Append(@, k)]
      <4>1. host' = [host EXCEPT ![r] = h]
        BY <2>8 DEF Watch, RestOK
      <4>2. h \in [id: Nat, fns: Seq(Key)]
        BY <3>1 DEF RestOK
      <4>. QED
        BY <4>1, <4>2 DEF RestOK
    <3>3. watchers' \in [Key -> SUBSET Watcher]
      BY <2>8, <3>1 DEF Watch, RestOK, Watcher
    <3>4. phase' \in [Runtime -> {"idle", "call", "exit", "leave"}]
      BY <2>8 DEF Watch, Ends, RestOK
    <3>5. unhealthy' \in [Runtime -> BOOLEAN]
      BY <2>8 DEF Watch, Ends, RestOK
    <3>. QED
      BY <2>8, <3>2, <3>3, <3>4, <3>5 DEF Watch, MailOK, RestOK
  <2>9. ASSUME NEW r \in Runtime, NEW k \in Key, Set(r, k)
        PROVE  MailOK' /\ RestOK'
    <3>1. {[to |-> w, key |-> k, value |-> sets + 1] : w \in watchers[k]} \subseteq News
      BY DEF RestOK, News
    <3>2. sending' \in [Runtime -> SUBSET News]
      BY <2>9, <3>1 DEF Set, RestOK
    <3>. QED
      BY <2>9, <3>2 DEF Set, MailOK, RestOK
  <2>10. ASSUME NEW r \in Runtime, NEW n \in sending[r], Notify(r, n)
         PROVE  MailOK' /\ RestOK'
    <3>1. n \in News /\ n.to.token \in Runtime
      BY DEF RestOK, News, Watcher
    <3>2. MailOK'
      <4>1. CASE Admits(n.to.token)
        BY <2>10, <3>1, <4>1, PostMailOK, NewsLetterIsMail DEF Notify, Posted, Admits
      <4>2. CASE ~Admits(n.to.token)
        BY <2>10, <4>2 DEF Notify, MailOK
      <4>. QED
        BY <4>1, <4>2
    <3>3. lost' \subseteq News
      BY <2>10, <3>1 DEF Notify, RestOK
    <3>4. sending' \in [Runtime -> SUBSET News]
      BY <2>10 DEF Notify, RestOK
    <3>. QED
      BY <2>10, <3>2, <3>3, <3>4 DEF Notify, store, RestOK
  <2>11. ASSUME NEW r \in Runtime, Leave(r)
         PROVE  MailOK' /\ RestOK'
    <3>1. watchers' \in [Key -> SUBSET Watcher]
      BY <2>11, RemoveType DEF Leave, RemoveWatchersAgain
    <3>2. told' \in [Runtime -> [Key -> Nat]]
      BY <2>11 DEF Leave, RestOK, Untold
    <3>3. called' \in [Runtime -> [fn: Key \union {NoKey}, key: Key \union {NoKey}]]
      BY <2>11 DEF Leave, RestOK, Uncalled
    <3>4. <<>> \in Seq(Key)
      BY EmptySeq
    <3>5. host' \in [Runtime -> [id: Nat, fns: Seq(Key)]]
      <4>1. [id |-> host[r].id + 1, fns |-> <<>>] \in [id: Nat, fns: Seq(Key)]
        BY <3>4 DEF RestOK
      <4>2. NoHost \in [id: Nat, fns: Seq(Key)]
        BY <3>4 DEF NoHost
      <4>3. \/ host' = [host EXCEPT ![r] = [id |-> host[r].id + 1, fns |-> <<>>]]
            \/ host' = [host EXCEPT ![r] = NoHost]
        BY <2>11 DEF Leave
      <4>. QED
        BY <4>1, <4>2, <4>3 DEF RestOK
    <3>6. MailOK'
      <4>1. CASE UNCHANGED mail
        BY <4>1 DEF MailOK
      <4>2. CASE mail' = [mail EXCEPT ![r] = <<>>]
        BY <4>2, NoLetterOK
      <4>. QED
        BY <2>11, <4>1, <4>2 DEF Leave
    <3>. QED
      BY <2>11, <3>1, <3>2, <3>3, <3>5, <3>6 DEF Leave, RestOK
  <2>. QED
    BY <2>1, <2>2, <2>3, <2>4, <2>5, <2>6, <2>7, <2>8, <2>9, <2>10, <2>11 DEF Next, Work
<1>. QED
  BY <1>1, <1>2, PTL DEF Spec

----------------------------------------------------------------------------
(* Watchers.                                                               *)

\* Removing the watchers of a runtime leaves none of a VM that it replaces.
LEMMA RemovedAreLive ==
    ASSUME RestOK, WatchersAreLive, NEW r \in Runtime, RemoveWatchers(r),
           \A q \in Runtime \ {r} : host'[q] = host[q]
    PROVE  WatchersAreLive'
<1>. SUFFICES ASSUME NEW k \in Key, NEW w \in watchers'[k]
              PROVE  /\ host'[w.token].id = w.host
                     /\ w.ref \in DOMAIN host'[w.token].fns
                     /\ host'[w.token].fns[w.ref] = k
  BY DEF WatchersAreLive
<1>1. w \in watchers[k] /\ w.token # r
  BY DEF RemoveWatchers
<1>2. w.token \in Runtime
  BY <1>1 DEF RestOK, Watcher
<1>. QED
  BY <1>1, <1>2 DEF WatchersAreLive

\* Whatever the watchers did in between, onExit included, the store holds only
\* watchers of VMs that are there, each with its own callback in its slot.
THEOREM WatchersLive == Spec => []WatchersAreLive
<1>1. Init => WatchersAreLive
  BY DEF Init, WatchersAreLive
<1>2. TypeOK /\ WatchersAreLive /\ [Next]_vars => WatchersAreLive'
  <2>. SUFFICES ASSUME RestOK, WatchersAreLive, [Next]_vars
                PROVE  WatchersAreLive'
    BY TypeParts
  <2>1. CASE UNCHANGED <<watchers, host>>
    BY <2>1 DEF WatchersAreLive
  <2>2. ASSUME NEW r \in Runtime, TakeLeave(r)
        PROVE  WatchersAreLive'
    BY <2>2, RemovedAreLive DEF TakeLeave
  <2>3. ASSUME NEW r \in Runtime, Leave(r)
        PROVE  WatchersAreLive'
    <3>1. \A q \in Runtime \ {r} : host'[q] = host[q]
      BY <2>3 DEF Leave, RestOK
    <3>. QED
      BY <2>3, <3>1, RemovedAreLive DEF Leave, RemoveWatchersAgain
  <2>4. ASSUME NEW r \in Runtime, NEW k \in Key, Watch(r, k)
        PROVE  WatchersAreLive'
    <3>. DEFINE fns == host[r].fns
                new == [token |-> r, ref |-> Len(fns) + 1, host |-> host[r].id]
    <3>1. fns \in Seq(Key)
      BY DEF RestOK
    <3>2. /\ Append(fns, k)[Len(fns) + 1] = k
          /\ \A i \in DOMAIN fns : Append(fns, k)[i] = fns[i]
          /\ DOMAIN Append(fns, k) = 1..(Len(fns) + 1)
          /\ DOMAIN fns = 1..Len(fns) /\ Len(fns) \in Nat
      BY <3>1, AppendProperties, LenProperties
    <3>3. /\ host'[r].id = host[r].id /\ host'[r].fns = Append(fns, k)
          /\ \A q \in Runtime \ {r} : host'[q] = host[q]
      BY <2>4 DEF Watch, RestOK
    <3>4. \A c \in Key : watchers'[c] = IF c = k THEN watchers[c] \union {new}
                                        ELSE watchers[c]
      BY <2>4 DEF Watch, RestOK
    <3>. SUFFICES ASSUME NEW c \in Key, NEW w \in watchers'[c]
                  PROVE  /\ host'[w.token].id = w.host
                         /\ w.ref \in DOMAIN host'[w.token].fns
                         /\ host'[w.token].fns[w.ref] = c
      BY DEF WatchersAreLive
    <3>5. CASE w \in watchers[c]
      <4>1. w.token \in Runtime
        BY <3>5 DEF RestOK, Watcher
      <4>2. /\ host[w.token].id = w.host /\ w.ref \in DOMAIN host[w.token].fns
            /\ host[w.token].fns[w.ref] = c
        BY <3>5 DEF WatchersAreLive
      <4>3. CASE w.token = r
        <5>1. w.ref \in 1..(Len(fns) + 1)
          BY <3>2, <4>2, <4>3
        <5>. QED
          BY <3>2, <3>3, <4>2, <4>3, <5>1
      <4>4. CASE w.token # r
        BY <3>3, <4>1, <4>2, <4>4
      <4>. QED
        BY <4>3, <4>4
    <3>6. CASE w = new /\ c = k
      <4>1. Len(fns) + 1 \in 1..(Len(fns) + 1)
        BY <3>2
      <4>. QED
        BY <3>2, <3>3, <3>6, <4>1
    <3>. HIDE DEF new
    <3>. QED
      BY <3>4, <3>5, <3>6
  <2>5. ASSUME NEW r \in Runtime, Work(r), ~TakeLeave(r), ~Leave(r),
               \A k \in Key : ~Watch(r, k)
        PROVE  UNCHANGED <<watchers, host>>
    BY <2>5 DEF Work, TakeCall, TakeNews, Return, Set, Notify, store
  <2>6. ASSUME NEW r \in Runtime, Stop(r) \/ SendCall(r) \/ SendReload(r)
        PROVE  UNCHANGED <<watchers, host>>
    BY <2>6 DEF Stop, SendCall, SendReload, store
  <2>7. CASE UNCHANGED vars
    BY <2>1, <2>7 DEF vars, store, runtimes
  <2>. QED
    BY <2>1, <2>2, <2>3, <2>4, <2>5, <2>6, <2>7 DEF Next
<1>. QED
  BY <1>1, <1>2, TypeCorrect, PTL DEF Spec

----------------------------------------------------------------------------
(* The order of news.                                                      *)

\* Mailboxes from which letters are taken, or that get letters of other kinds,
\* tell a key as before.
Quiet(q, k) ==
    \E d \in {0, 1} : \A i \in DOMAIN mail'[q] :
       /\ i \in Nat
       /\ Tells(q, i, k)' => i + d \in DOMAIN mail[q] /\ mail'[q][i] = mail[q][i + d]

LEMMA QuietMail ==
    ASSUME NEW k \in Key, MailIsBetween(k), MailIsSorted(k), values' = values,
           told' = told, MailOK, \A q \in Runtime : Quiet(q, k)
    PROVE  MailIsBetween(k)' /\ MailIsSorted(k)'
<1>1. ASSUME NEW q \in Runtime, NEW i \in DOMAIN mail'[q], Tells(q, i, k)'
      PROVE  told'[q][k] <= mail'[q][i].value /\ mail'[q][i].value <= values'[k]
  BY <1>1 DEF Quiet, Tells, MailIsBetween
<1>2. ASSUME NEW q \in Runtime, NEW i \in DOMAIN mail'[q], NEW j \in DOMAIN mail'[q],
             i < j, Tells(q, i, k)', Tells(q, j, k)'
      PROVE  mail'[q][i].value <= mail'[q][j].value
  <2>1. PICK d \in {0, 1} :
           /\ i \in Nat /\ j \in Nat
           /\ i + d \in DOMAIN mail[q] /\ mail'[q][i] = mail[q][i + d]
           /\ j + d \in DOMAIN mail[q] /\ mail'[q][j] = mail[q][j + d]
    BY <1>2 DEF Quiet
  <2>2. i + d < j + d /\ Tells(q, i + d, k) /\ Tells(q, j + d, k)
    BY <1>2, <2>1 DEF Tells
  <2>. QED
    BY <2>1, <2>2 DEF MailIsSorted
<1>3. MailIsBetween(k)'
  BY <1>1 DEF MailIsBetween
<1>4. MailIsSorted(k)'
  BY <1>2 DEF MailIsSorted
<1>. QED
  BY <1>3, <1>4

\* Mailboxes that stay, that lose their first letter, or that get one that is
\* not news, are quiet.
LEMMA SameIsQuiet ==
    ASSUME MailOK, NEW k \in Key, NEW q \in Runtime, mail'[q] = mail[q]
    PROVE  Quiet(q, k)
<1>1. \A i \in DOMAIN mail'[q] : i \in Nat /\ i + 0 = i
  BY LenProperties DEF MailOK
<1>. QED
  BY <1>1 DEF Quiet

LEMMA TailIsQuiet ==
    ASSUME MailOK, NEW k \in Key, NEW q \in Runtime, mail[q] # <<>>,
           mail'[q] = Tail(mail[q])
    PROVE  Quiet(q, k)
<1>1. \A i \in DOMAIN mail'[q] :
         i \in Nat /\ i + 1 \in DOMAIN mail[q] /\ mail'[q][i] = mail[q][i + 1]
  BY TakenMail DEF MailOK
<1>. QED
  BY <1>1 DEF Quiet

LEMMA LetterIsQuiet ==
    ASSUME MailOK, NEW k \in Key, NEW q \in Runtime, NEW m \in Mail, m.kind # "Watch",
           mail'[q] = Append(mail[q], m) \/ mail'[q] = <<m>>
    PROVE  Quiet(q, k)
<1>1. CASE mail'[q] = Append(mail[q], m)
  <2>1. \A i \in DOMAIN mail'[q] :
           i \in Nat /\ i + 0 = i /\ (Tells(q, i, k)' => i \in DOMAIN mail[q] /\ mail'[q][i] = mail[q][i])
    BY <1>1, PostedMail, LenProperties DEF MailOK, Tells
  <2>. QED
    BY <2>1 DEF Quiet
<1>2. CASE mail'[q] = <<m>>
  BY <1>2, OnlyMail DEF Quiet, Tells
<1>. QED
  BY <1>1, <1>2

\* The part of the invariant about one key.
KeyInv(k) ==
    ToldIsOld(k) /\ MailIsBetween(k) /\ MailIsSorted(k) /\ SendsTheLatest(k)

\* Steps that neither set nor hand out anything keep it.
LEMMA QuietStep ==
    ASSUME MailOK, NEW k \in Key, KeyInv(k), \A q \in Runtime : Quiet(q, k),
           UNCHANGED <<values, told, sending, sets>>
    PROVE  KeyInv(k)'
<1>1. MailIsBetween(k)' /\ MailIsSorted(k)'
  BY QuietMail DEF KeyInv
<1>. QED
  BY <1>1 DEF KeyInv, ToldIsOld, SendsTheLatest

\* A letter of news that is handed out carries the stored value, and the
\* mailbox had nothing newer.
LEMMA NotifyStep ==
    ASSUME MailOK, RestOK, NEW k \in Key, KeyInv(k),
           NEW r \in Runtime, NEW n \in sending[r], Notify(r, n)
    PROVE  KeyInv(k)'
<1>. DEFINE t == n.to.token
            m == NewsLetter(n)
<1>0. n \in News /\ t \in Runtime
  BY DEF RestOK, News, Watcher
<1>1. ToldIsOld(k)' /\ SendsTheLatest(k)'
  BY DEF Notify, store, RestOK, KeyInv, ToldIsOld, SendsTheLatest
<1>2. UNCHANGED <<values, told>>
  BY DEF Notify, store
<1>3. CASE ~Admits(t)
  <2>1. mail' = mail
    BY <1>3 DEF Notify
  <2>. QED
    BY <1>1, <1>2, <2>1, SameIsQuiet, QuietMail DEF KeyInv
<1>4. CASE Admits(t)
  <2>1. m \in Mail /\ m.key = n.key /\ m.value = n.value
    BY <1>0, NewsLetterIsMail
  <2>. HIDE DEF m
  <2>2. mail[t] \in Seq(Mail) /\ \A q \in Runtime : mail'[q] = IF q = t THEN Append(mail[t], m)
                                                             ELSE mail[q]
    BY <1>0, <1>4 DEF Notify, Posted, MailOK, m
  <2>3. n.key = k => n.value = values[k]
    BY DEF KeyInv, SendsTheLatest
  <2>. HIDE DEF t
  <2>4. DOMAIN mail[t] = 1..Len(mail[t]) /\ Len(mail[t]) \in Nat
    BY <2>2, LenProperties
  <2>5. \A i \in DOMAIN mail'[t] :
           \/ i \in DOMAIN mail[t] /\ mail'[t][i] = mail[t][i]
           \/ i = Len(mail[t]) + 1 /\ mail'[t][i] = m
    BY <1>0, <2>1, <2>2, PostedMail
  <2>6. values[k] \in Nat /\ told[t][k] \in Nat /\ told[t][k] <= values[k]
    BY <1>0 DEF RestOK, KeyInv, ToldIsOld
  <2>7. MailIsBetween(k)'
    <3>. SUFFICES ASSUME NEW q \in Runtime, NEW i \in DOMAIN mail'[q], Tells(q, i, k)'
                  PROVE  told'[q][k] <= mail'[q][i].value /\ mail'[q][i].value <= values'[k]
      BY DEF MailIsBetween
    <3>1. CASE mail'[q][i] = mail[q][i] /\ i \in DOMAIN mail[q]
      BY <1>2, <3>1 DEF KeyInv, MailIsBetween, Tells
    <3>2. CASE q = t /\ mail'[q][i] = m
      BY <1>2, <2>1, <2>3, <2>6, <3>2 DEF Tells
    <3>. QED
      BY <2>2, <2>5, <3>1, <3>2
  <2>8. MailIsSorted(k)'
    <3>. SUFFICES ASSUME NEW q \in Runtime, NEW i \in DOMAIN mail'[q], NEW j \in DOMAIN mail'[q],
                         i < j, Tells(q, i, k)', Tells(q, j, k)'
                  PROVE  mail'[q][i].value <= mail'[q][j].value
      BY DEF MailIsSorted
    <3>1. CASE q # t
      BY <2>2, <3>1 DEF KeyInv, MailIsSorted, Tells
    <3>2. CASE q = t /\ j \in DOMAIN mail[t] /\ mail'[t][j] = mail[t][j]
      <4>1. i \in DOMAIN mail[t] /\ mail'[t][i] = mail[t][i]
        BY <2>4, <2>5, <3>2
      <4>. QED
        BY <3>2, <4>1 DEF KeyInv, MailIsSorted, Tells
    <3>3. CASE q = t /\ j = Len(mail[t]) + 1 /\ mail'[t][j] = m
      <4>1. i \in DOMAIN mail[t] /\ mail'[t][i] = mail[t][i]
        BY <2>4, <2>5, <3>3
      <4>2. mail[t][i].value <= values[k]
        BY <1>0, <3>3, <4>1 DEF KeyInv, MailIsBetween, Tells
      <4>3. mail'[t][j].value = values[k]
        BY <2>1, <2>3, <3>3 DEF Tells
      <4>. QED
        BY <3>3, <4>1, <4>2, <4>3
    <3>. QED
      BY <2>5, <3>1, <3>2, <3>3
  <2>. QED
    BY <1>1, <2>7, <2>8 DEF KeyInv
<1>. QED
  BY <1>3, <1>4

\* A value set is the latest; with one writer, no older one waits to be handed
\* out.
LEMMA SetStep ==
    ASSUME MailOK, RestOK, NEW k \in Key, OneWriter(k), KeyInv(k),
           NEW r \in Runtime, NEW c \in Key, Set(r, c)
    PROVE  KeyInv(k)'
<1>1. /\ UNCHANGED <<mail, told>> /\ sets' = sets + 1 /\ sets \in Nat
      /\ values'[k] = IF c = k THEN sets + 1 ELSE values[k]
      /\ values[k] \in Nat /\ values[k] <= sets
  BY DEF Set, RestOK, KeyInv, ToldIsOld
<1>2. values[k] <= values'[k] /\ values'[k] \in Nat
  BY <1>1
<1>3. \A q \in Runtime : told[q][k] \in Nat /\ told[q][k] <= values[k]
  BY DEF RestOK, KeyInv, ToldIsOld
<1>4. ToldIsOld(k)'
  BY <1>1, <1>2, <1>3 DEF ToldIsOld
<1>5. MailIsSorted(k)'
  BY <1>1 DEF KeyInv, MailIsSorted, Tells
<1>6. MailIsBetween(k)'
  <2>. SUFFICES ASSUME NEW q \in Runtime, NEW i \in DOMAIN mail[q], Tells(q, i, k)
                PROVE  told[q][k] <= mail[q][i].value /\ mail[q][i].value <= values'[k]
    BY <1>1 DEF MailIsBetween, Tells
  <2>1. told[q][k] <= mail[q][i].value /\ mail[q][i].value <= values[k]
    BY DEF KeyInv, MailIsBetween
  <2>2. mail[q][i] \in Mail
    BY ElementOfSeq, LenProperties DEF MailOK
  <2>. QED
    BY <1>1, <1>2, <2>1, <2>2 DEF Mail
<1>7. SendsTheLatest(k)'
  <2>. SUFFICES ASSUME NEW q \in Runtime, NEW n \in sending'[q], n.key = k
                PROVE  <<q, k>> \in Writes /\ n.value = values'[k]
    BY DEF SendsTheLatest
  <2>1. CASE q = r
    <3>1. \E w \in watchers[c] : n = [to |-> w, key |-> c, value |-> sets + 1]
      BY <2>1 DEF Set, RestOK
    <3>2. n.key = c /\ n.value = sets + 1
      BY <3>1
    <3>. QED
      BY <1>1, <2>1, <3>2 DEF Set
  <2>2. CASE q # r
    <3>1. n \in sending[q]
      BY <2>2 DEF Set, RestOK
    <3>2. <<q, k>> \in Writes /\ n.value = values[k]
      BY <3>1 DEF KeyInv, SendsTheLatest
    <3>3. c # k
      BY <2>2, <3>2 DEF OneWriter, Set
    <3>. QED
      BY <1>1, <3>2, <3>3
  <2>. QED
    BY <2>1, <2>2
<1>. QED
  BY <1>4, <1>5, <1>6, <1>7 DEF KeyInv

\* The news at the head of a mailbox is no newer than what is behind it, and
\* no older than what the script was told.
LEMMA TakeNewsStep ==
    ASSUME MailOK, RestOK, NEW k \in Key, KeyInv(k), NEW r \in Runtime, TakeNews(r)
    PROVE  KeyInv(k)' /\ \A q \in Runtime : told'[q][k] >= told[q][k]
<1>. DEFINE m == Head(mail[r])
<1>1. /\ m \in Mail /\ m = mail[r][1] /\ 1 \in DOMAIN mail[r]
      /\ \A i \in DOMAIN Tail(mail[r]) :
            i \in Nat \ {0} /\ i + 1 \in DOMAIN mail[r] /\ Tail(mail[r])[i] = mail[r][i + 1]
  BY TakenMail DEF TakeNews, Idle, MailOK
<1>2. /\ m.kind = "Watch" /\ mail[r] # <<>>
      /\ \A q \in Runtime : mail'[q] = IF q = r THEN Tail(mail[r]) ELSE mail[q]
      /\ UNCHANGED <<values, sending, sets>>
      /\ told' = told \/ told' = [told EXCEPT ![r][m.key] = m.value]
  BY DEF TakeNews, Idle, MailOK, store
<1>. HIDE DEF m
<1>3. \A q \in Runtime : told[q][k] \in Nat /\ values[k] \in Nat
  BY DEF RestOK
<1>4. CASE told' = told
  <2>1. \A q \in Runtime : Quiet(q, k)
    BY <1>2, SameIsQuiet, TailIsQuiet
  <2>. QED
    BY <1>2, <1>3, <1>4, <2>1, QuietStep
<1>5. CASE told' = [told EXCEPT ![r][m.key] = m.value]
  <2>1. \A q \in Runtime : told'[q][k] = IF q = r /\ m.key = k THEN m.value ELSE told[q][k]
    BY <1>5 DEF RestOK
  <2>2. m.key = k => told[r][k] <= m.value /\ m.value <= values[k]
    BY <1>1, <1>2 DEF KeyInv, MailIsBetween, Tells
  <2>3. m.value \in Nat
    BY <1>1 DEF Mail
  <2>4. \A q \in Runtime : told'[q][k] >= told[q][k] /\ told'[q][k] <= values[k]
    BY <1>3, <2>1, <2>2, <2>3 DEF KeyInv, ToldIsOld
  <2>5. ToldIsOld(k)' /\ SendsTheLatest(k)'
    BY <1>2, <2>4 DEF KeyInv, ToldIsOld, SendsTheLatest
  <2>6. MailIsBetween(k)'
    <3>. SUFFICES ASSUME NEW q \in Runtime, NEW i \in DOMAIN mail'[q], Tells(q, i, k)'
                  PROVE  told'[q][k] <= mail'[q][i].value /\ mail'[q][i].value <= values[k]
      BY <1>2 DEF MailIsBetween
    <3>1. CASE q # r
      BY <1>2, <2>1, <3>1 DEF KeyInv, MailIsBetween, Tells
    <3>2. CASE q = r
      <4>1. i \in Nat \ {0} /\ i + 1 \in DOMAIN mail[r] /\ mail'[r][i] = mail[r][i + 1]
        BY <1>1, <1>2, <3>2
      <4>2. Tells(r, i + 1, k)
        BY <3>2, <4>1 DEF Tells
      <4>3. told[r][k] <= mail[r][i + 1].value /\ mail[r][i + 1].value <= values[k]
        BY <4>1, <4>2 DEF KeyInv, MailIsBetween
      <4>4. m.key = k => m.value <= mail[r][i + 1].value
        <5>1. m.key = k => Tells(r, 1, k)
          BY <1>1, <1>2 DEF Tells
        <5>2. 1 < i + 1
          BY <4>1
        <5>. QED
          BY <1>1, <4>1, <4>2, <5>1, <5>2 DEF KeyInv, MailIsSorted
      <4>. QED
        BY <2>1, <3>2, <4>1, <4>3, <4>4
    <3>. QED
      BY <3>1, <3>2
  <2>7. MailIsSorted(k)'
    <3>. SUFFICES ASSUME NEW q \in Runtime, NEW i \in DOMAIN mail'[q], NEW j \in DOMAIN mail'[q],
                         i < j, Tells(q, i, k)', Tells(q, j, k)'
                  PROVE  mail'[q][i].value <= mail'[q][j].value
      BY DEF MailIsSorted
    <3>1. CASE q # r
      BY <1>2, <3>1 DEF KeyInv, MailIsSorted, Tells
    <3>2. CASE q = r
      <4>1. /\ i \in Nat /\ i + 1 \in DOMAIN mail[r] /\ mail'[r][i] = mail[r][i + 1]
            /\ j \in Nat /\ j + 1 \in DOMAIN mail[r] /\ mail'[r][j] = mail[r][j + 1]
        BY <1>1, <1>2, <3>2
      <4>2. i + 1 < j + 1 /\ Tells(r, i + 1, k) /\ Tells(r, j + 1, k)
        BY <3>2, <4>1 DEF Tells
      <4>. QED
        BY <3>2, <4>1, <4>2 DEF KeyInv, MailIsSorted
    <3>. QED
      BY <3>1, <3>2
  <2>. QED
    BY <2>4, <2>5, <2>6, <2>7 DEF KeyInv
<1>. QED
  BY <1>2, <1>4, <1>5

\* A new VM starts untold.
LEMMA LeaveStep ==
    ASSUME MailOK, RestOK, NEW k \in Key, KeyInv(k), NEW r \in Runtime, Leave(r)
    PROVE  KeyInv(k)'
<1>1. /\ UNCHANGED <<values, sending, sets>>
      /\ \A q \in Runtime : told'[q][k] = IF q = r THEN 0 ELSE told[q][k]
      /\ \A q \in Runtime : mail'[q] = mail[q] \/ mail'[q] = <<>>
  BY DEF Leave, RestOK, MailOK, Untold
<1>2. values[k] \in Nat /\ \A q \in Runtime : told[q][k] \in Nat
  BY DEF RestOK
<1>3. \A q \in Runtime : \A i \in DOMAIN mail[q] : mail[q][i].value \in Nat
  <2>1. \A q \in Runtime : \A i \in DOMAIN mail[q] : mail[q][i] \in Mail
    BY ElementOfSeq, LenProperties DEF MailOK
  <2>. QED
    BY <2>1 DEF Mail
<1>4. \A q \in Runtime : \A i \in DOMAIN mail'[q] :
         i \in DOMAIN mail[q] /\ mail'[q][i] = mail[q][i]
  <2>1. DOMAIN <<>> = {}
    OBVIOUS
  <2>. QED
    BY <1>1, <2>1
<1>5. ToldIsOld(k)' /\ SendsTheLatest(k)'
  BY <1>1, <1>2 DEF KeyInv, ToldIsOld, SendsTheLatest
<1>6. MailIsBetween(k)'
  BY <1>1, <1>2, <1>3, <1>4 DEF KeyInv, MailIsBetween, Tells
<1>7. MailIsSorted(k)'
  BY <1>4 DEF KeyInv, MailIsSorted, Tells
<1>. QED
  BY <1>5, <1>6, <1>7 DEF KeyInv

LEMMA NewsInvKeys == NewsInv <=> \A k \in Key : OneWriter(k) => KeyInv(k)
BY DEF NewsInv, KeyInv

\* Told, mailed and still to be posted, the values of a key with one writer
\* are always in the order in which they were set.
LEMMA NewsInvHolds == Spec => []NewsInv
<1>1. Init => NewsInv
  BY DEF Init, NewsInv, ToldIsOld, MailIsBetween, MailIsSorted, SendsTheLatest, Untold
<1>2. TypeOK /\ NewsInv /\ [Next]_vars => NewsInv'
  <2>1. TypeOK /\ NewsInv /\ [Next]_vars => \A k \in Key : OneWriter(k) => KeyInv(k)'
    <3>. SUFFICES ASSUME MailOK, RestOK, [Next]_vars,
                         NEW k \in Key, OneWriter(k), KeyInv(k)
                  PROVE  KeyInv(k)'
      BY TypeParts, NewsInvKeys
    <3>1. ASSUME UNCHANGED <<values, told, sending, sets, mail>>
          PROVE  KeyInv(k)'
      BY <3>1, SameIsQuiet, QuietStep
    <3>2. CASE UNCHANGED vars
      BY <3>1, <3>2 DEF vars, store, runtimes
    <3>3. ASSUME NEW r \in Runtime, TakeCall(r) \/ TakeLeave(r)
          PROVE  KeyInv(k)'
      <4>1. /\ mail[r] # <<>> /\ UNCHANGED <<values, told, sending, sets>>
            /\ \A q \in Runtime : mail'[q] = IF q = r THEN Tail(mail[r]) ELSE mail[q]
        BY <3>3 DEF TakeCall, TakeLeave, Idle, MailOK, store
      <4>2. \A q \in Runtime : Quiet(q, k)
        BY <4>1, SameIsQuiet, TailIsQuiet
      <4>. QED
        BY <4>1, <4>2, QuietStep
    <3>4. ASSUME NEW r \in Runtime, NEW m \in Mail, m.kind # "Watch",
                 UNCHANGED <<values, told, sending, sets>>,
                 \/ mail' = [mail EXCEPT ![r] = Append(@, m)]
                 \/ mail' = [mail EXCEPT ![r] = <<m>>]
          PROVE  KeyInv(k)'
      <4>1. /\ mail'[r] = Append(mail[r], m) \/ mail'[r] = <<m>>
            /\ \A q \in Runtime \ {r} : mail'[q] = mail[q]
        BY <3>4 DEF MailOK
      <4>2. \A q \in Runtime : Quiet(q, k)
        BY <3>4, <4>1, SameIsQuiet, LetterIsQuiet
      <4>. QED
        BY <3>4, <4>2, QuietStep
    <3>5. ASSUME NEW r \in Runtime, SendCall(r) \/ SendReload(r)
          PROVE  KeyInv(k)'
      <4>1. \A kind \in {"Call", "Reload"} :
               Letter(kind) \in Mail /\ Letter(kind).kind # "Watch"
        BY LetterIsMail
      <4>2. /\ UNCHANGED <<values, told, sending, sets>>
            /\ \/ mail' = [mail EXCEPT ![r] = Append(@, Letter("Call"))]
               \/ mail' = [mail EXCEPT ![r] = <<Letter("Reload")>>]
        BY <3>5 DEF SendCall, SendReload, store
      <4>. QED
        BY <3>4, <4>1, <4>2
    <3>6. ASSUME NEW r \in Runtime, Stop(r)
          PROVE  KeyInv(k)'
      <4>1. Letter("Stop") \in Mail /\ Letter("Stop").kind # "Watch"
        BY LetterIsMail
      <4>2. /\ UNCHANGED <<values, told, sending, sets>>
            /\ mail' = [mail EXCEPT ![r] = <<Letter("Stop")>>]
        BY <3>6 DEF Stop, store
      <4>. QED
        BY <3>4, <4>1, <4>2
    <3>7. ASSUME NEW r \in Runtime, Return(r) \/ \E c \in Key : Watch(r, c)
          PROVE  KeyInv(k)'
      BY <3>1, <3>7 DEF Return, Watch, store
    <3>8. ASSUME NEW r \in Runtime, Work(r)
          PROVE  KeyInv(k)'
      BY <3>3, <3>7, <3>8, SetStep, NotifyStep, TakeNewsStep, LeaveStep DEF Work
    <3>. QED
      BY <3>2, <3>5, <3>6, <3>8 DEF Next
  <2>2. (\A k \in Key : OneWriter(k) => KeyInv(k)') => NewsInv'
    BY DEF NewsInv, KeyInv, OneWriter
  <2>. QED
    BY <2>1, <2>2
<1>. QED
  BY <1>1, <1>2, TypeCorrect, PTL DEF Spec

LEMMA HostInvHolds == Spec => []HostInv
<1>1. Init => HostInv
  <2>1. NoHost.fns = <<>>
    BY DEF NoHost
  <2>2. Init => \A r \in Runtime :
                   ~(phase[r] \in {"call", "exit"}) /\ host[r] = NoHost /\ told[r] = Untold
    BY DEF Init
  <2>. QED
    BY <2>1, <2>2 DEF HostInv
<1>2. TypeOK /\ HostInv /\ [Next]_vars => HostInv'
  <2>. SUFFICES ASSUME RestOK, HostInv, [Next]_vars
                PROVE  HostInv'
    BY TypeParts
  <2>1. CASE UNCHANGED <<host, told, phase>>
    BY <2>1 DEF HostInv
  <2>2. ASSUME NEW r \in Runtime, TakeNews(r)
        PROVE  HostInv'
    <3>1. CASE ~Hears(r, Head(mail[r]))
      BY <2>1, <2>2, <3>1 DEF TakeNews
    <3>2. CASE Hears(r, Head(mail[r]))
      <4>1. host[r].fns # <<>> /\ host[r].id > 0
        BY <3>2 DEF Hears, HostInv, RestOK
      <4>. QED
        BY <2>2, <4>1 DEF TakeNews, HostInv, RestOK
    <3>. QED
      BY <3>1, <3>2
  <2>3. ASSUME NEW r \in Runtime, TakeCall(r) \/ TakeLeave(r)
        PROVE  HostInv'
    BY <2>3 DEF TakeCall, TakeLeave, HostInv, RestOK
  <2>4. ASSUME NEW r \in Runtime, Return(r) \/ \E c \in Key : Set(r, c)
        PROVE  HostInv'
    BY <2>4 DEF Return, Ends, Set, InScript, HostInv, RestOK
  <2>5. ASSUME NEW r \in Runtime, NEW c \in Key, Watch(r, c)
        PROVE  HostInv'
    <3>1. host[r].id > 0
      BY <2>5 DEF Watch, InScript, HostInv
    <3>2. \A q \in Runtime : host'[q].id = host[q].id /\ (q # r => host'[q] = host[q])
      BY <2>5 DEF Watch, RestOK
    <3>3. /\ told' = told /\ phase'[r] \in {"idle", "leave"}
          /\ \A q \in Runtime \ {r} : phase'[q] = phase[q]
      BY <2>5 DEF Watch, Ends, InScript, RestOK
    <3>. QED
      BY <3>1, <3>2, <3>3 DEF HostInv
  <2>6. ASSUME NEW r \in Runtime, Leave(r)
        PROVE  HostInv'
    <3>1. \/ host'[r].id = host[r].id + 1
          \/ host'[r] = NoHost /\ phase'[r] = "idle"
      BY <2>6 DEF Leave, RestOK
    <3>2. /\ told'[r] = Untold /\ host[r].id \in Nat
          /\ \A q \in Runtime \ {r} : host'[q] = host[q] /\ told'[q] = told[q]
                                      /\ phase'[q] = phase[q]
      BY <2>6 DEF Leave, RestOK
    <3>. QED
      BY <3>1, <3>2 DEF HostInv, NoHost
  <2>7. ASSUME NEW r \in Runtime, NEW n \in sending[r], Notify(r, n)
        PROVE  HostInv'
    BY <2>1, <2>7 DEF Notify
  <2>8. ASSUME NEW r \in Runtime, Stop(r) \/ SendCall(r) \/ SendReload(r)
        PROVE  HostInv'
    BY <2>1, <2>8 DEF Stop, SendCall, SendReload
  <2>9. CASE UNCHANGED vars
    BY <2>1, <2>9 DEF vars, runtimes
  <2>. QED
    BY <2>2, <2>3, <2>4, <2>5, <2>6, <2>7, <2>8, <2>9 DEF Next, Work
<1>. QED
  BY <1>1, <1>2, TypeCorrect, PTL DEF Spec

\* A script is never given an older value of a key that only one runtime sets
\* after a newer one, however the setters, the mailboxes and the reloads of the
\* runtimes are interleaved and whatever the mailboxes refuse.
THEOREM NewsOrdered == Spec => NewsInOrder
<1>1. ASSUME TypeOK, HostInv, NewsInv, [Next]_vars, NEW r \in Runtime, NEW k \in Key,
             OneWriter(k), host'[r].id = host[r].id
      PROVE  told'[r][k] >= told[r][k]
  <2>1. MailOK /\ RestOK /\ KeyInv(k)
    BY <1>1, TypeParts, NewsInvKeys
  <2>2. told[r][k] \in Nat
    BY <2>1 DEF RestOK
  <2>3. CASE told'[r] = told[r]
    BY <2>2, <2>3
  <2>4. ASSUME NEW q \in Runtime, TakeNews(q)
        PROVE  told'[r][k] >= told[r][k]
    BY <2>1, <2>4, TakeNewsStep
  <2>5. ASSUME NEW q \in Runtime, Leave(q)
        PROVE  told'[r] = told[r]
    <3>1. CASE q # r
      BY <2>1, <2>5, <3>1 DEF Leave, RestOK
    <3>2. CASE q = r
      <4>1. host'[r].id = 0
        BY <1>1, <2>1, <2>5, <3>2 DEF Leave, RestOK, NoHost
      <4>2. told[r] = Untold /\ told'[r] = Untold
        BY <1>1, <2>1, <2>5, <3>2, <4>1 DEF Leave, RestOK, HostInv
      <4>. QED
        BY <4>2
    <3>. QED
      BY <3>1, <3>2
  <2>6. ASSUME NEW q \in Runtime, Work(q), ~TakeNews(q), ~Leave(q)
        PROVE  told' = told
    BY <2>6 DEF Work, TakeCall, TakeLeave, Return, Watch, Set, Notify
  <2>7. ASSUME NEW q \in Runtime, Stop(q) \/ SendCall(q) \/ SendReload(q)
        PROVE  told' = told
    BY <2>7 DEF Stop, SendCall, SendReload
  <2>8. CASE UNCHANGED vars
    BY <2>3, <2>8 DEF vars, runtimes
  <2>. QED
    BY <1>1, <2>3, <2>4, <2>5, <2>6, <2>7, <2>8 DEF Next
<1>2. TypeOK /\ HostInv /\ NewsInv /\ [Next]_vars
      => [\A r \in Runtime, k \in Key :
            OneWriter(k) /\ host'[r].id = host[r].id => told'[r][k] >= told[r][k]]_vars
  BY <1>1
<1>. QED
  BY <1>2, TypeCorrect, HostInvHolds, NewsInvHolds, PTL DEF Spec, NewsInOrder
=============================================================================
