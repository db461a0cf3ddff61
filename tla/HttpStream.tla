----------------------------- MODULE HttpStream -----------------------------
(***************************************************************************)
(* The streaming requests of a plugin script: the table of                  *)
(* scripting/luau_host.cpp on the script's thread, the client on the main   *)
(* thread, and between them deferred calls one way and the mailbox of the   *)
(* script's runtime the other.  The client's other callers run beside them. *)
(*                                                                          *)
(* A stream is known to the host by the registry slot of its line callback. *)
(* Which free slot the registry hands out depends on everything else the    *)
(* script does, so any may come.                                            *)
(***************************************************************************)
EXTENDS HttpClient

CONSTANTS
    Slots,       \* registry slots
    MaxStreams,  \* kMaxHttpStreamsPerHost
    MaxLines,    \* bound: lines received
    MaxReloads   \* bound: reloads of the script

ASSUME StreamAssumption ==
    /\ None \notin Streams \cup Slots
    /\ MaxStreams \in Nat /\ MaxLines \in Nat /\ MaxReloads \in Nat

VARIABLES
    hostId,     \* m_hostId of the live host
    records,    \* m_httpStreams: slot -> the stream it stands for
    handle,     \* the slot in the script's handle of the stream; None before
    home,       \* the host that started the stream
    cancelled,  \* the streams whose HttpStreamControl is cancelled
    known,      \* the streams whose HttpStreamControl has the client's id
    starting,   \* the stream the deferred start is busy with
    received,   \* lines received so far
    mail,       \* events in the runtime's mailbox
    heard,      \* lines the stream's own callback was called with
    closed      \* calls of the stream's close callback

streamVars == <<hostId, records, handle, home, cancelled, known, starting, received, mail,
                heard, closed>>
vars == <<httpVars, streamVars>>

Init ==
    /\ HttpInit
    /\ hostId = 0
    /\ records = <<>>
    /\ handle = [s \in Streams |-> None]
    /\ home = [s \in Streams |-> 0]
    /\ cancelled = {}
    /\ known = {}
    /\ starting = None
    /\ received = 0
    /\ mail = <<>>
    /\ heard = [s \in Streams |-> 0]
    /\ closed = [s \in Streams |-> 0]

otherHttp == <<index, answers, transfers, activeByDest, calling>>

-----------------------------------------------------------------------------
(* The script's thread. *)

\* startHttpStream(): a slot, a record, and a deferred start.
StartHttpStream(s) ==
    /\ handle[s] = None
    /\ Cardinality(DOMAIN records) < MaxStreams
    /\ \E k \in Slots \ DOMAIN records :
           /\ records' = With(records, k, s)
           /\ handle' = [handle EXCEPT ![s] = k]
    /\ home' = [home EXCEPT ![s] = hostId]
    /\ deferred' = Append(deferred, [do |-> "start", for |-> s])
    /\ UNCHANGED <<otherHttp, streams, hostId, cancelled, known, starting, received,
                   mail, heard, closed>>

\* The controls of the streams in S are cancelled, and the client told.
Cancel(S) ==
    /\ cancelled' = cancelled \cup S
    /\ deferred' = deferred \o SetToSeq({[do |-> "cancel", for |-> s] : s \in S})

\* stopHttpStream(), by the slot in the script's handle of s.
StopHttpStream(s) ==
    /\ handle[s] \in DOMAIN records
    /\ home[s] = hostId
    /\ Cancel({records[handle[s]]})
    /\ records' = Without(records, handle[s])
    /\ UNCHANGED <<otherHttp, streams, hostId, handle, home, known, starting, received,
                   mail, heard, closed>>

\* Mutant: streams the client has no id for yet are passed over.
OnRecordKnown == {records[k] : k \in {j \in DOMAIN records : records[j] \in known}}

\* The streams stopAllHttpStreams() goes through.
OnRecord == {records[k] : k \in DOMAIN records}

\* stopAllHttpStreams(), as the host is destroyed for its successor.
ReplaceHost ==
    /\ hostId < MaxReloads
    /\ hostId' = hostId + 1
    /\ Cancel(OnRecord)
    /\ records' = <<>>
    /\ UNCHANGED <<otherHttp, streams, handle, home, known, starting, received, mail,
                   heard, closed>>

\* Mutant: the slot alone tells whose event it is.
MineBySlot(event) == event.slot \in DOMAIN records

\* The event is of this host and a stream of its own.
Mine(event) == event.host = hostId /\ event.slot \in DOMAIN records

\* callHttpStreamCloseCallback() forgets the stream before it calls.
Forget(k) == Without(records, k)

\* The runtime takes the next event of the mailbox: dropped, a line, or the
\* close of the stream its slot stands for now.
HandleEvent ==
    /\ mail # <<>>
    /\ mail' = Tail(mail)
    /\ LET event == Head(mail)
           s == records[event.slot]
       IN  \/ /\ ~Mine(event)
              /\ UNCHANGED <<records, heard, closed>>
           \/ /\ Mine(event) /\ ~event.closed
              /\ heard' = [heard EXCEPT ![s] = @ + 1]
              /\ UNCHANGED <<records, closed>>
           \/ /\ Mine(event) /\ event.closed
              /\ closed' = [closed EXCEPT ![s] = @ + 1]
              /\ records' = Forget(event.slot)
              /\ UNCHANGED heard
    /\ UNCHANGED <<httpVars, hostId, handle, home, cancelled, known, starting, received>>

-----------------------------------------------------------------------------
(* The main thread. *)

\* enqueueHttpStreamEvent(): nobody looks at the answer of a full mailbox.
Enqueue(s, isClose) ==
    IF s \in cancelled
    THEN UNCHANGED mail
    ELSE \/ mail' = Append(mail, [host |-> home[s], slot |-> handle[s],
                                  closed |-> isClose, from |-> s])
         \/ UNCHANGED mail

Deferred(what) ==
    /\ calling = <<>>
    /\ starting = None
    /\ deferred # <<>>
    /\ Head(deferred).do = what

\* The deferred start: not for a stream that was stopped meanwhile; when the
\* client cannot begin it, onClose follows as a deferred call of its own.
StartStream ==
    /\ Deferred("start")
    /\ LET s == Head(deferred).for
       IN  \/ /\ s \in cancelled
              /\ deferred' = Tail(deferred)
              /\ UNCHANGED <<streams, known, starting>>
           \/ /\ s \notin cancelled
              /\ deferred' = Append(Tail(deferred), [do |-> "close", for |-> s])
              /\ UNCHANGED <<streams, known, starting>>
           \/ /\ s \notin cancelled
              /\ streams' = streams \cup {s}
              /\ known' = known \cup {s}
              /\ starting' = s
              /\ deferred' = Tail(deferred)
    /\ UNCHANGED <<otherHttp, hostId, records, handle, home, cancelled, received, mail,
                   heard, closed>>

\* The rest of the deferred start: the script may have stopped the stream on
\* its own thread while the client began it.
StartedStream ==
    /\ starting # None
    /\ IF starting \in cancelled
       THEN CancelStream(starting)
       ELSE UNCHANGED streams
    /\ starting' = None
    /\ UNCHANGED <<otherHttp, deferred, hostId, records, handle, home, cancelled, known,
                   received, mail, heard, closed>>

\* The deferred cancellation, by the client's id if there is one yet.
RunCancel ==
    /\ Deferred("cancel")
    /\ deferred' = Tail(deferred)
    /\ IF Head(deferred).for \in known
       THEN CancelStream(Head(deferred).for)
       ELSE UNCHANGED streams
    /\ UNCHANGED <<otherHttp, streamVars>>

\* deferStreamClose(): the close of a stream that never began.
RunClose ==
    /\ Deferred("close")
    /\ deferred' = Tail(deferred)
    /\ Enqueue(Head(deferred).for, TRUE)
    /\ UNCHANGED <<otherHttp, streams, hostId, records, handle, home, cancelled, known,
                   starting, received, heard, closed>>

\* forwardStreamChunk() and onData: a line has come in.
ReceiveLine(s) ==
    /\ s \in streams
    /\ received < MaxLines
    /\ received' = received + 1
    /\ Enqueue(s, FALSE)
    /\ UNCHANGED <<httpVars, hostId, records, handle, home, cancelled, known, starting, heard,
                   closed>>

\* finishStreamTransfer().
FinishStream(s) ==
    /\ calling = <<>>
    /\ starting = None
    /\ s \in streams
    /\ streams' = streams \ {s}
    /\ Enqueue(s, TRUE)
    /\ UNCHANGED <<otherHttp, deferred, hostId, records, handle, home, cancelled, known,
                   starting, received, heard, closed>>

-----------------------------------------------------------------------------

Client ==
    /\ starting = None
    /\ \/ \E c \in Callers : Ask(c)
       \/ \E h \in Handles : Finish(h)
       \/ Call
       \/ RunFailure
    /\ UNCHANGED streamVars

Main ==
    \/ StartStream
    \/ StartedStream
    \/ RunCancel
    \/ RunClose
    \/ \E s \in Streams : ReceiveLine(s) \/ FinishStream(s)

Script ==
    \/ \E s \in Streams : StartHttpStream(s) \/ StopHttpStream(s)
    \/ ReplaceHost
    \/ HandleEvent

Next == Client \/ Main \/ Script

Spec == Init /\ [][Next]_vars

\* The main loop keeps running: what is deferred runs, callbacks return, and
\* downloads and requests, which have a timeout, come to their end.  A stream
\* has none.
LoopStep ==
    \/ starting = None /\ (Call \/ RunFailure \/ \E h \in Handles : Finish(h)) /\ UNCHANGED streamVars
    \/ StartStream \/ StartedStream \/ RunCancel \/ RunClose

FairSpec == Spec /\ WF_vars(LoopStep)

-----------------------------------------------------------------------------
(* Properties. *)

TypeOK ==
    /\ HttpTypeOK
    /\ hostId \in 0..MaxReloads
    /\ DOMAIN records \subseteq Slots
    /\ \A k \in DOMAIN records : records[k] \in Streams
    /\ handle \in [Streams -> Slots \cup {None}]
    /\ home \in [Streams -> 0..MaxReloads]
    /\ cancelled \subseteq Streams
    /\ known \subseteq Streams
    /\ starting \in Streams \cup {None}
    /\ received \in 0..MaxLines
    /\ \A i \in DOMAIN mail : /\ mail[i].host \in 0..MaxReloads
                              /\ mail[i].slot \in Slots
                              /\ mail[i].closed \in BOOLEAN
                              /\ mail[i].from \in Streams

\* The live host has the stream on record, under the slot in its handle: the
\* script can stop it, and a reload will.
Recorded(s) ==
    /\ home[s] = hostId
    /\ handle[s] \in DOMAIN records
    /\ records[handle[s]] = s

\* A stream the script has stopped, or left behind in a reload, is not kept
\* open: the client is being told to cancel it, wherever its start had got to;
\* and any other open stream is on record, so that this holds of it too when
\* its time comes (luau_host.cpp:2487-2491, 2511-2515, 2568-2573).  Excepted is
\* an open stream whose close callback has run already, for the close of an
\* earlier stream with its slot: the host has forgotten it (luau_host.cpp:2540),
\* and neither stop() nor a reload closes it.
NoOrphanStream ==
    \A s \in streams :
        IF s \in cancelled
        THEN starting = s \/ Contains(deferred, [do |-> "cancel", for |-> s])
        ELSE Recorded(s) \/ closed[s] > 0

\* The close callback of a stream runs at most once
\* (docs/user/plugins/development/runtime-api.mdx:386).
ClosedAtMostOnce == \A s \in Streams : closed[s] <= 1

\* Everything the client and the host keep about callers and streams agrees.
TransfersAgree ==
    TypeOK /\ OneWriterPerFile /\ CallersAreKept /\ NoOrphanStream /\ ClosedAtMostOnce

\* A stopped stream's callbacks are not called, whatever was still on its
\* way, and no line of a stream is given to a stream of a later host
\* (script_runtime.cpp:668-690).
StopIsSilent ==
    [][\A s \in Streams :
          heard'[s] # heard[s] \/ closed'[s] # closed[s]
              => s \notin cancelled /\ home[Head(mail).from] = home[s]]_vars
=============================================================================
