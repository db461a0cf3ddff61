----------------------------- MODULE HttpClient -----------------------------
(***************************************************************************)
(* net/http_client.cpp: transfers on curl's multi interface, driven by the  *)
(* main loop.  Downloads to one destination share a transfer; a download    *)
(* with several URLs asks for the next when one fails, from inside the      *)
(* callback of the transfer that failed; whatever cannot begin is answered  *)
(* by a deferred call.  post() and request() are the transfers without a    *)
(* destination.  Streams are opened and closed here and used by             *)
(* HttpStream.  The offline mode is one of the reasons for which a transfer *)
(* may be refused at any time.                                              *)
(*                                                                          *)
(* A handle is named by who opened it: <<caller, n>> for the caller's n-th  *)
(* URL, the stream itself for a stream.                                     *)
(***************************************************************************)
EXTENDS Naturals, FiniteSets, SequencesExt

CONSTANTS
    Downloads,   \* calls of download(), one callback each
    Requests,    \* calls of post() and request()
    Streams,     \* calls of startStream()
    Files,       \* destination paths
    Dest,        \* Dest[d]: where the download d goes
    Urls,        \* Urls[d]: how many URLs the download d may try
    None         \* no handle

Callers == Downloads \cup Requests

\* How many transfers a caller may have, one after the other.
Tries(c) == IF c \in Downloads THEN Urls[c] ELSE 1

Handles == UNION {{c} \X (1..Tries(c)) : c \in Callers}

ASSUME HttpAssumption ==
    /\ Dest \in [Downloads -> Files]
    /\ Urls \in [Downloads -> Nat \ {0}]
    /\ None \notin Handles

VARIABLES
    index,         \* SequentialDownload.index, from 1; 0 before the call
    answers,       \* how often the caller's callback has run
    transfers,     \* m_transfers and the two other tables: handle -> callbacks
    activeByDest,  \* m_activeByDest
    streams,       \* m_streamTransfers
    calling,       \* <<caller, success>> a finished transfer has still to call
    deferred       \* DeferredCall::queue(), as far as it is the client's

httpVars == <<index, answers, transfers, activeByDest, streams,
              calling, deferred>>

HttpInit ==
    /\ index = [c \in Callers |-> 0]
    /\ answers = [c \in Callers |-> 0]
    /\ transfers = <<>>
    /\ activeByDest = [f \in Files |-> None]
    /\ streams = {}
    /\ calling = <<>>
    /\ deferred = <<>>

Without(f, h) == [x \in DOMAIN f \ {h} |-> f[x]]
With(f, h, v) == [x \in DOMAIN f \cup {h} |-> IF x = h THEN v ELSE f[x]]

\* Mutant: streams and requests do not count.
HasActiveDownloads == \E h \in DOMAIN transfers : h[1] \in Downloads

\* hasActiveTransfers().
HasActiveTransfers == DOMAIN transfers # {} \/ streams # {}

-----------------------------------------------------------------------------
(* Beginning a transfer. *)

\* Mutant: every download is a transfer of its own.
NeverJoins(f) == FALSE

\* A transfer to f is under way, for a download to join.
Joins(f) == activeByDest[f] # None /\ activeByDest[f] \in DOMAIN transfers

\* deferFailure(), deferResponse().
Fail(c) == deferred' = Append(deferred, [do |-> "answer", for |-> c])

Refused(c) ==
    /\ Fail(c)
    /\ UNCHANGED transfers

\* download() of c's n-th URL: refused in offline mode, whatever is under
\* way; joined to a transfer; begun; or refused because the partial file
\* cannot be opened or curl will not take the handle.
Download(c, n) ==
    LET f == Dest[c] IN
    \/ /\ Refused(c)
       /\ UNCHANGED activeByDest
    \/ /\ Joins(f)
       /\ transfers' = [transfers EXCEPT ![activeByDest[f]] = Append(@, c)]
       /\ UNCHANGED <<activeByDest, deferred>>
    \/ /\ ~Joins(f)
       /\ \/ /\ transfers' = With(transfers, <<c, n>>, <<c>>)
             /\ activeByDest' = [activeByDest EXCEPT ![f] = <<c, n>>]
             /\ UNCHANGED deferred
          \/ /\ Refused(c)
             /\ activeByDest' = [activeByDest EXCEPT ![f] = None]

\* post() and request().
Send(c) ==
    /\ \/ Refused(c)
       \/ /\ transfers' = With(transfers, <<c, 1>>, <<c>>)
          /\ UNCHANGED deferred
    /\ UNCHANGED activeByDest

\* Somebody calls download(), post() or request() on the main thread.
Ask(c) ==
    /\ index[c] = 0
    /\ index' = [index EXCEPT ![c] = 1]
    /\ IF c \in Downloads THEN Download(c, 1) ELSE Send(c)
    /\ UNCHANGED <<answers, streams, calling>>

-----------------------------------------------------------------------------
(* The end of a transfer. *)

\* finishTransfer() takes the destination out of the table.
Freed(h) ==
    IF h[1] \in Downloads THEN [activeByDest EXCEPT ![Dest[h[1]]] = None] ELSE activeByDest

\* dispatch() of a transfer that curl has brought to its end, which the
\* timeouts of downloads and requests see to: finishTransfer() up to its
\* callbacks, finishPostTransfer() and finishRequestTransfer().  The transfer
\* leaves the tables first.  A download that is complete and cannot be moved
\* into place has failed as well.
Finish(h) ==
    /\ calling = <<>>
    /\ HasActiveTransfers
    /\ h \in DOMAIN transfers
    /\ \E ok \in BOOLEAN :
           calling' = [i \in DOMAIN transfers[h] |-> <<transfers[h][i], ok>>]
    /\ transfers' = Without(transfers, h)
    /\ activeByDest' = Freed(h)
    /\ UNCHANGED <<index, answers, streams, deferred>>

\* The download has no URL left.
LastUrl(c) == index[c] >= Tries(c)

\* The next callback of a finished transfer: it answers the caller, or goes
\* on to the next URL.
Call ==
    /\ calling # <<>>
    /\ calling' = Tail(calling)
    /\ LET c == Head(calling)[1]
           ok == Head(calling)[2]
       IN  \/ /\ ok \/ LastUrl(c)
              /\ answers' = [answers EXCEPT ![c] = @ + 1]
              /\ UNCHANGED <<index, transfers, activeByDest, deferred>>
           \/ /\ ~ok /\ ~LastUrl(c)
              /\ index' = [index EXCEPT ![c] = @ + 1]
              /\ Download(c, index[c] + 1)
              /\ UNCHANGED answers
    /\ UNCHANGED <<streams>>

\* A deferred failure runs.
RunFailure ==
    /\ calling = <<>>
    /\ deferred # <<>>
    /\ Head(deferred).do = "answer"
    /\ calling' = <<<<Head(deferred).for, FALSE>>>>
    /\ deferred' = Tail(deferred)
    /\ UNCHANGED <<index, answers, transfers, activeByDest, streams>>

\* cancelStream(): an id that has finished is harmless.
CancelStream(s) == streams' = streams \ {s}

-----------------------------------------------------------------------------
(* Properties. *)

HttpTypeOK ==
    /\ \A c \in Callers : index[c] \in 0..Tries(c)
    /\ answers \in [Callers -> Nat]
    /\ DOMAIN transfers \subseteq Handles
    /\ \A h \in DOMAIN transfers : transfers[h] \in Seq(Callers)
    /\ activeByDest \in [Files -> Handles \cup {None}]
    /\ streams \subseteq Streams
    /\ \A i \in DOMAIN calling : calling[i] \in Callers \X BOOLEAN

\* No two transfers write the partial file of one destination
\* (http_client.cpp:155-163, 567): not even when a callback of the first
\* begins the second.
OneWriterPerFile ==
    \A g, h \in DOMAIN transfers :
        g[1] \in Downloads /\ h[1] \in Downloads /\ Dest[g[1]] = Dest[h[1]] => g = h

\* How often the caller is still to be called.
Pending(c) ==
    Cardinality(UNION {{h} \X {i \in DOMAIN transfers[h] : transfers[h][i] = c} :
                           h \in DOMAIN transfers})
    + Cardinality({i \in DOMAIN calling : calling[i][1] = c})
    + Cardinality({i \in DOMAIN deferred : deferred[i] = [do |-> "answer", for |-> c]})

\* A caller is waiting in one place and no other until it is answered, and
\* is answered once (http_client.h:58-69): whether it joined a transfer, was
\* refused, or went on from one URL to the next.
CallersAreKept ==
    \A c \in Callers : Pending(c) + answers[c] = IF index[c] = 0 THEN 0 ELSE 1

\* Whoever asks is answered (http_client.h:58-69): with as many callers as
\* there are, time and again nobody is waiting.
EveryoneIsAnswered == []<>(\A c \in Callers : index[c] > 0 => answers[c] > 0)
=============================================================================
