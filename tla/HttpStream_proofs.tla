-------------------------- MODULE HttpStream_proofs --------------------------
(***************************************************************************)
(* The HTTP client and the streams of a script, for any callers, files,     *)
(* streams, slots and bounds.                                               *)
(***************************************************************************)
EXTENDS HttpStream, FiniteSetTheorems, FunctionTheorems, SequenceTheorems, TLAPS

-----------------------------------------------------------------------------
(* Where a caller waits. *)

\* A set with one element.
One(S) == \E x : S = {x}

\* What was nowhere still is, and what was in one place is in one.
Kept(S, T) == (S = {} => T = {}) /\ (One(S) => One(T))

In(q, e) == {i \in DOMAIN q : q[i] = e}

Called(q, c) == {i \in DOMAIN q : q[i][1] = c}

Held(t, c) == UNION {{h} \X {i \in DOMAIN t[h] : t[h][i] = c} : h \in DOMAIN t}

Answer(c) == [do |-> "answer", for |-> c]

LEMMA HeldMember ==
    ASSUME NEW t, NEW c, NEW x
    PROVE  x \in Held(t, c) <=>
               \E h \in DOMAIN t : \E i \in DOMAIN t[h] : t[h][i] = c /\ x = <<h, i>>
BY DEF Held

LEMMA AppendIn ==
    ASSUME NEW S, NEW q \in Seq(S), NEW x \in S, NEW e
    PROVE  /\ x # e => In(Append(q, x), e) = In(q, e)
           /\ x = e => In(Append(q, x), e) = In(q, e) \cup {Len(q) + 1}
BY DEF In

\* The places behind the first one.
LEMMA TailIn ==
    ASSUME NEW S, NEW q \in Seq(S), q # <<>>, NEW e, Head(q) # e
    PROVE  Kept(In(q, e), In(Tail(q), e))
<1>1. /\ Tail(q) \in Seq(S) /\ Len(Tail(q)) = Len(q) - 1
      /\ \A i \in 1 .. Len(Tail(q)) : Tail(q)[i] = q[i+1]
      /\ q[1] # e /\ Len(q) \in Nat
    BY HeadTailProperties
<1>2. \A i : i \in In(Tail(q), e) <=> i \in Int /\ i + 1 \in In(q, e)
    BY <1>1 DEF In
<1>3. \A i \in In(q, e) : i \in Int /\ i - 1 \in In(Tail(q), e)
    BY <1>1 DEF In
<1>4. In(q, e) = {} => In(Tail(q), e) = {}
    BY <1>2
<1>5. ASSUME NEW x, In(q, e) = {x}
      PROVE  In(Tail(q), e) = {x - 1}
  <2>1. x \in Int /\ x - 1 \in In(Tail(q), e)
    BY <1>3, <1>5
  <2>2. \A i \in In(Tail(q), e) : i \in Int /\ i + 1 = x
    BY <1>2, <1>5
  <2>3. \A i \in In(Tail(q), e) : i = x - 1
    BY <2>1, <2>2
  <2> QED  BY <2>1, <2>3
<1> QED  BY <1>4, <1>5 DEF Kept, One

\* Its only place is the first one.
LEMMA HeadIn ==
    ASSUME NEW S, NEW q \in Seq(S), q # <<>>, NEW e, Head(q) = e, One(In(q, e))
    PROVE  In(Tail(q), e) = {}
<1>1. /\ Len(Tail(q)) = Len(q) - 1 /\ Tail(q) \in Seq(S)
      /\ \A i \in 1 .. Len(Tail(q)) : Tail(q)[i] = q[i+1]
      /\ q[1] = e /\ Len(q) \in Nat
    BY HeadTailProperties
<1>2. 1 \in In(q, e)
    BY <1>1 DEF In
<1>3. \A i \in In(Tail(q), e) : i \in Int /\ i >= 1 /\ i + 1 \in In(q, e)
    BY <1>1 DEF In
<1>4. In(q, e) = {1}
    BY <1>2 DEF One
<1> QED  BY <1>3, <1>4

LEMMA TailCalled ==
    ASSUME NEW S, NEW q \in Seq(S), q # <<>>, NEW c
    PROVE  /\ Head(q)[1] # c => Kept(Called(q, c), Called(Tail(q), c))
           /\ Head(q)[1] = c /\ One(Called(q, c)) => Called(Tail(q), c) = {}
           /\ Head(q)[1] = c => Called(q, c) # {}
<1>1. /\ Tail(q) \in Seq(S) /\ Len(Tail(q)) = Len(q) - 1
      /\ \A i \in 1 .. Len(Tail(q)) : Tail(q)[i] = q[i+1]
      /\ q[1] = Head(q) /\ Len(q) \in Nat
    BY HeadTailProperties
<1>2. \A i \in Called(Tail(q), c) : i \in Int /\ i >= 1 /\ i + 1 \in Called(q, c)
    BY <1>1 DEF Called
<1>3. Head(q)[1] = c => 1 \in Called(q, c)
    BY <1>1 DEF Called
<1>4. ASSUME Head(q)[1] # c
      PROVE  Kept(Called(q, c), Called(Tail(q), c))
  <2>1. \A i \in Called(q, c) : i \in Int /\ i - 1 \in Called(Tail(q), c)
    BY <1>1, <1>4 DEF Called
  <2>2. Called(q, c) = {} => Called(Tail(q), c) = {}
    BY <1>2
  <2>3. ASSUME NEW x, Called(q, c) = {x}
        PROVE  Called(Tail(q), c) = {x - 1}
    <3>1. x \in Int /\ x - 1 \in Called(Tail(q), c)
      BY <2>1, <2>3
    <3>2. \A i \in Called(Tail(q), c) : i \in Int /\ i + 1 = x
      BY <1>2, <2>3
    <3>3. \A i \in Called(Tail(q), c) : i = x - 1
      BY <3>1, <3>2
    <3> QED  BY <3>1, <3>3
  <2> QED  BY <2>2, <2>3 DEF Kept, One
<1>5. ASSUME Head(q)[1] = c, One(Called(q, c))
      PROVE  Called(Tail(q), c) = {}
  <2>1. Called(q, c) = {1}
    BY <1>3, <1>5 DEF One
  <2> QED  BY <1>2, <2>1
<1> QED  BY <1>3, <1>4, <1>5

\* A client that is told to cancel streams has no answer to give for it.
LEMMA ConcatIn ==
    ASSUME NEW S, NEW q \in Seq(S), NEW r \in Seq(S), NEW e,
           \A i \in DOMAIN r : r[i] # e
    PROVE  In(q \o r, e) = In(q, e)
<1>1. /\ q \o r \in Seq(S) /\ Len(q \o r) = Len(q) + Len(r)
      /\ \A i \in 1 .. Len(q) + Len(r) :
             (q \o r)[i] = IF i <= Len(q) THEN q[i] ELSE r[i - Len(q)]
      /\ Len(q) \in Nat /\ Len(r) \in Nat
    BY ConcatProperties
<1> QED  BY <1>1 DEF In

\* SetToSeq lists a finite set, all of it.
LEMMA SetToSeqLists ==
    ASSUME NEW S, IsFiniteSet(S)
    PROVE  /\ SetToSeq(S) \in Seq(S)
           /\ \A x \in S : \E i \in DOMAIN SetToSeq(S) : SetToSeq(S)[i] = x
<1> DEFINE n == Cardinality(S)
           q == SetToSeq(S)
<1>1. n \in Nat /\ ExistsBijection(1..n, S)
    BY FS_CardinalityType
<1>2. PICK f : f \in Bijection(1..n, S)
    BY <1>1 DEF ExistsBijection
<1>3. f \in [1..n -> S] /\ IsInjective(f)
    BY <1>2 DEF Bijection, Injection
<1>4. q \in [1..n -> S] /\ IsInjective(q)
    BY <1>3 DEF SetToSeq
<1>5. q \in Injection(1..n, S)
    BY <1>4 DEF Injection
<1>6. IsFiniteSet(1..n) /\ Cardinality(1..n) = n
    BY <1>1, FS_Interval
<1>7. q \in Surjection(1..n, S)
    BY <1>5, <1>6, FS_Injection
<1>8. \A x \in S : \E i \in 1..n : q[i] = x
    BY <1>7 DEF Surjection
<1>9. q \in Seq(S) /\ DOMAIN q = 1..n
    BY <1>1, <1>4, SeqDef
<1> QED  BY <1>8, <1>9

-----------------------------------------------------------------------------
(* The callbacks of the transfers. *)

LEMMA HeldWith ==
    ASSUME NEW t, NEW h, h \notin DOMAIN t, NEW c
    PROVE  /\ Held(With(t, h, <<c>>), c) = Held(t, c) \cup {<<h, 1>>}
           /\ \A e : e # c => Held(With(t, h, <<c>>), e) = Held(t, e)
<1> DEFINE u == With(t, h, <<c>>)
<1>1. /\ DOMAIN u = DOMAIN t \cup {h}
      /\ u[h] = <<c>>
      /\ \A g \in DOMAIN t : u[g] = t[g]
    BY DEF With
<1>2. DOMAIN <<c>> = {1} /\ <<c>>[1] = c
    OBVIOUS
<1> HIDE DEF u
<1>3. \A e, x : x \in Held(u, e) <=> x \in Held(t, e) \/ (e = c /\ x = <<h, 1>>)
  <2> SUFFICES ASSUME NEW e, NEW x
               PROVE  x \in Held(u, e) <=> x \in Held(t, e) \/ (e = c /\ x = <<h, 1>>)
    OBVIOUS
  <2>1. x \in Held(u, e) <=> \E g \in DOMAIN u : \E i \in DOMAIN u[g] : u[g][i] = e /\ x = <<g, i>>
    BY HeldMember
  <2>2. x \in Held(t, e) <=> \E g \in DOMAIN t : \E i \in DOMAIN t[g] : t[g][i] = e /\ x = <<g, i>>
    BY HeldMember
  <2> QED  BY <1>1, <1>2, <2>1, <2>2
<1>4. Held(u, c) = Held(t, c) \cup {<<h, 1>>}
    BY <1>3
<1>5. \A e : e # c => Held(u, e) = Held(t, e)
    BY <1>3
<1> QED  BY <1>4, <1>5 DEF u

LEMMA HeldAppend ==
    ASSUME NEW t, NEW S, NEW h \in DOMAIN t, t[h] \in Seq(S), NEW c \in S, NEW u,
           DOMAIN u = DOMAIN t, u[h] = Append(t[h], c),
           \A g \in DOMAIN t \ {h} : u[g] = t[g]
    PROVE  /\ Held(u, c) = Held(t, c) \cup {<<h, Len(t[h]) + 1>>}
           /\ \A e : e # c => Held(u, e) = Held(t, e)
<1>2. /\ DOMAIN Append(t[h], c) = DOMAIN t[h] \cup {Len(t[h]) + 1}
      /\ Append(t[h], c)[Len(t[h]) + 1] = c
      /\ \A i \in DOMAIN t[h] : Append(t[h], c)[i] = t[h][i]
    OBVIOUS
<1>3. \A e, x : x \in Held(u, e) <=> x \in Held(t, e) \/ (e = c /\ x = <<h, Len(t[h]) + 1>>)
  <2> SUFFICES ASSUME NEW e, NEW x
               PROVE  x \in Held(u, e) <=>
                        x \in Held(t, e) \/ (e = c /\ x = <<h, Len(t[h]) + 1>>)
    OBVIOUS
  <2>1. x \in Held(u, e) <=> \E g \in DOMAIN u : \E i \in DOMAIN u[g] : u[g][i] = e /\ x = <<g, i>>
    BY HeldMember
  <2>2. x \in Held(t, e) <=> \E g \in DOMAIN t : \E i \in DOMAIN t[g] : t[g][i] = e /\ x = <<g, i>>
    BY HeldMember
  <2> DEFINE a == Append(t[h], c)
             n == Len(t[h]) + 1
  <2>3. u[h] = a /\ DOMAIN a = DOMAIN t[h] \cup {n} /\ a[n] = c /\ \A i \in DOMAIN t[h] : a[i] = t[h][i]
    BY <1>2
  <2> HIDE DEF a, n
  <2>4. x \in Held(u, e) <=> x \in Held(t, e) \/ (e = c /\ x = <<h, n>>)
    BY <2>1, <2>2, <2>3
  <2> QED  BY <2>4 DEF n
<1>4. Held(u, c) = Held(t, c) \cup {<<h, Len(t[h]) + 1>>}
    BY <1>3
<1>5. ASSUME NEW e, e # c
      PROVE  Held(u, e) = Held(t, e)
  <2>1. \A x : x \in Held(u, e) <=> x \in Held(t, e)
    BY <1>3, <1>5
  <2> QED  BY <2>1
<1> QED  BY <1>4, <1>5

LEMMA HeldWithout ==
    ASSUME NEW t, NEW h \in DOMAIN t, NEW c, NEW q,
           DOMAIN q = DOMAIN t[h], \A i \in DOMAIN q : q[i][1] = t[h][i]
    PROVE  /\ Held(t, c) = {} => Held(Without(t, h), c) = {} /\ Called(q, c) = {}
           /\ One(Held(t, c)) => \/ One(Held(Without(t, h), c)) /\ Called(q, c) = {}
                                 \/ Held(Without(t, h), c) = {} /\ One(Called(q, c))
<1> DEFINE u == Without(t, h)
<1>1. /\ DOMAIN u = DOMAIN t \ {h}
      /\ \A g \in DOMAIN u : u[g] = t[g]
    BY DEF Without
<1> HIDE DEF u
<1>2. \A x : x \in Held(u, c) <=>
         \E g \in DOMAIN t \ {h} : \E i \in DOMAIN t[g] : t[g][i] = c /\ x = <<g, i>>
    BY <1>1, HeldMember
<1>3. \A x : x \in Held(t, c) <=>
         \E g \in DOMAIN t : \E i \in DOMAIN t[g] : t[g][i] = c /\ x = <<g, i>>
    BY HeldMember
<1>4. \A i : i \in Called(q, c) <=> i \in DOMAIN t[h] /\ t[h][i] = c
    BY DEF Called
<1>5. \A i \in Called(q, c) : <<h, i>> \in Held(t, c)
    BY <1>3, <1>4
<1>6. Held(u, c) \subseteq Held(t, c)
    BY <1>2, <1>3
<1>7. ASSUME NEW x, Held(t, c) = {x}
      PROVE  \/ Held(u, c) = {x} /\ Called(q, c) = {}
             \/ Held(u, c) = {} /\ One(Called(q, c))
  <2>1. PICK g \in DOMAIN t : \E i \in DOMAIN t[g] : t[g][i] = c /\ x = <<g, i>>
    BY <1>3, <1>7
  <2>2. PICK i \in DOMAIN t[g] : t[g][i] = c /\ x = <<g, i>>
    BY <2>1
  <2>3. CASE g = h
    <3>1. i \in Called(q, c)
      BY <1>4, <2>2, <2>3
    <3>2. \A j \in Called(q, c) : j = i
      BY <1>5, <1>7, <2>2
    <3>3. Called(q, c) = {i}
      BY <3>1, <3>2
    <3>4. x \notin Held(u, c)
      BY <1>2, <2>2, <2>3
    <3> QED  BY <1>6, <1>7, <3>3, <3>4 DEF One
  <2>4. CASE g # h
    <3>1. x \in Held(u, c)
      BY <1>2, <2>2, <2>4
    <3>2. Called(q, c) = {}
      BY <1>5, <1>7, <2>2, <2>4
    <3> QED  BY <1>6, <1>7, <3>1, <3>2
  <2> QED  BY <2>3, <2>4
<1> QED  BY <1>5, <1>6, <1>7 DEF One, u

-----------------------------------------------------------------------------
(* The client's tables. *)

DeferredCall ==
    [do : {"answer"}, for : Callers] \cup [do : {"start", "cancel", "close"}, for : Streams]

ClientTyped ==
    /\ index \in [Callers -> Nat] /\ \A c \in Callers : index[c] <= Tries(c)
    /\ answers \in [Callers -> Nat]
    /\ activeByDest \in [Files -> Handles \cup {None}]
    /\ DOMAIN transfers \subseteq Handles
    /\ \A h \in DOMAIN transfers : transfers[h] \in Seq(Callers) /\ h[2] <= index[h[1]]
    /\ calling \in Seq(Callers \X BOOLEAN)
    /\ deferred \in Seq(DeferredCall)
    /\ streams \subseteq Streams

\* The transfer that writes a file is the one the table has for it.
Writers == \A h \in DOMAIN transfers : h[1] \in Downloads => activeByDest[Dest[h[1]]] = h

\* Where c waits: nowhere, or in one place.
Nowhere(t, q, d, c) == Held(t, c) = {} /\ Called(q, c) = {} /\ In(d, Answer(c)) = {}

OnePlace(t, q, d, c) ==
    \/ One(Held(t, c)) /\ Called(q, c) = {} /\ In(d, Answer(c)) = {}
    \/ Held(t, c) = {} /\ One(Called(q, c)) /\ In(d, Answer(c)) = {}
    \/ Held(t, c) = {} /\ Called(q, c) = {} /\ One(In(d, Answer(c)))

WaitsOnce(c) ==
    \/ index[c] = 0 /\ answers[c] = 0 /\ Nowhere(transfers, calling, deferred, c)
    \/ index[c] # 0 /\ answers[c] = 1 /\ Nowhere(transfers, calling, deferred, c)
    \/ index[c] # 0 /\ answers[c] = 0 /\ OnePlace(transfers, calling, deferred, c)

ClientInv == ClientTyped /\ Writers /\ \A c \in Callers : WaitsOnce(c)

LEMMA HandleIs ==
    ASSUME NEW c \in Callers, NEW n
    PROVE  /\ <<c, n>> \in Handles <=> n \in 1..Tries(c)
           /\ \A h \in Handles : h[1] \in Callers /\ h[2] \in 1..Tries(h[1])
                                 /\ h = <<h[1], h[2]>>
BY DEF Handles

LEMMA HandleType == \A h \in Handles : h[1] \in Callers /\ h[2] \in Nat
BY HttpAssumption DEF Handles, Tries

\* The beginning of a transfer, or of the answer that there is none: from
\* nowhere, c comes to wait in one place.
LEMMA Begins ==
    ASSUME ClientTyped, Writers,
           NEW c \in Callers, NEW n \in 1..Tries(c), <<c, n>> \notin DOMAIN transfers,
           Held(transfers, c) = {}, In(deferred, Answer(c)) = {},
           \/ c \in Downloads /\ Download(c, n)
           \/ c \notin Downloads /\ n = 1 /\ Send(c)
    PROVE  /\ \/ One(Held(transfers', c)) /\ In(deferred', Answer(c)) = {}
              \/ Held(transfers', c) = {} /\ One(In(deferred', Answer(c)))
           /\ \A e \in Callers \ {c} : /\ Held(transfers', e) = Held(transfers, e)
                                       /\ In(deferred', Answer(e)) = In(deferred, Answer(e))
           /\ \A h \in DOMAIN transfers' :
                  transfers'[h] \in Seq(Callers) /\ h \in DOMAIN transfers \cup {<<c, n>>}
           /\ deferred' \in Seq(DeferredCall)
           /\ activeByDest' \in [Files -> Handles \cup {None}]
           /\ Writers'
<1> DEFINE h == <<c, n>>
<1>0. /\ deferred \in Seq(DeferredCall) /\ DOMAIN transfers \subseteq Handles
      /\ activeByDest \in [Files -> Handles \cup {None}]
      /\ \A g \in DOMAIN transfers : transfers[g] \in Seq(Callers)
      /\ h \in Handles /\ h[1] = c
    BY HandleIs DEF ClientTyped
<1>1. ASSUME Refused(c)
      PROVE  /\ transfers' = transfers /\ deferred' \in Seq(DeferredCall)
             /\ One(In(deferred', Answer(c)))
             /\ \A e \in Callers \ {c} : In(deferred', Answer(e)) = In(deferred, Answer(e))
  <2>1. deferred' = Append(deferred, Answer(c)) /\ transfers' = transfers
    BY <1>1 DEF Refused, Fail, Answer
  <2>2. Answer(c) \in DeferredCall
    BY DEF Answer, DeferredCall
  <2>3. deferred' \in Seq(DeferredCall)
    BY <1>0, <2>1, <2>2, AppendProperties
  <2>4. In(deferred', Answer(c)) = {Len(deferred) + 1}
    BY <1>0, <2>1, <2>2, AppendIn
  <2>5. \A e \in Callers \ {c} : Answer(e) # Answer(c)
    BY DEF Answer
  <2>6. \A e \in Callers \ {c} : In(deferred', Answer(e)) = In(deferred, Answer(e))
    BY <1>0, <2>1, <2>2, <2>5, AppendIn
  <2> QED  BY <2>1, <2>3, <2>4, <2>6 DEF One
<1>2. ASSUME transfers' = With(transfers, h, <<c>>), UNCHANGED deferred
      PROVE  /\ One(Held(transfers', c))
             /\ \A e \in Callers \ {c} : Held(transfers', e) = Held(transfers, e)
             /\ \A g \in DOMAIN transfers' :
                    transfers'[g] \in Seq(Callers) /\ g \in DOMAIN transfers \cup {h}
  <2>1. <<c>> \in Seq(Callers)
    OBVIOUS
  <2>2. \A g \in DOMAIN transfers' :
            transfers'[g] \in Seq(Callers) /\ g \in DOMAIN transfers \cup {h}
    BY <1>0, <1>2, <2>1 DEF With
  <2> HIDE DEF h
  <2>3. /\ Held(With(transfers, h, <<c>>), c) = {<<h, 1>>}
        /\ \A e : e # c => Held(With(transfers, h, <<c>>), e) = Held(transfers, e)
    BY HeldWith DEF h
  <2>4. One({<<h, 1>>})
    BY DEF One
  <2> QED  BY <1>2, <2>2, <2>3, <2>4
<1>3. CASE c \notin Downloads
  <2>1. UNCHANGED activeByDest
    BY <1>3 DEF Send
  <2>2. CASE Refused(c)
    BY <1>0, <1>1, <2>1, <2>2 DEF Writers
  <2>3. CASE transfers' = With(transfers, h, <<c>>) /\ UNCHANGED deferred
    <3>1. Writers'
      BY <1>0, <1>2, <1>3, <2>1, <2>3 DEF Writers, With
    <3> QED  BY <1>0, <1>2, <2>1, <2>3, <3>1
  <2> QED  BY <1>3, <2>2, <2>3 DEF Send
<1>4. CASE c \in Downloads
  <2> DEFINE f == Dest[c]
  <2>0. f \in Files
    BY <1>4, HttpAssumption
  <2>1. CASE Refused(c) /\ UNCHANGED activeByDest
    BY <1>0, <1>1, <2>1 DEF Writers
  <2>2. CASE /\ Joins(f)
             /\ transfers' = [transfers EXCEPT ![activeByDest[f]] = Append(@, c)]
             /\ UNCHANGED <<activeByDest, deferred>>
    <3> DEFINE a == activeByDest[f]
    <3>1. a \in DOMAIN transfers /\ transfers[a] \in Seq(Callers)
      BY <1>0, <2>2 DEF Joins
    <3>2. transfers' = [transfers EXCEPT ![a] = Append(@, c)]
      BY <2>2
    <3> HIDE DEF a
    <3>3. /\ Held(transfers', c) = {<<a, Len(transfers[a]) + 1>>}
          /\ \A e : e # c => Held(transfers', e) = Held(transfers, e)
      <4>1. /\ DOMAIN transfers' = DOMAIN transfers
            /\ transfers'[a] = Append(transfers[a], c)
            /\ \A g \in DOMAIN transfers \ {a} : transfers'[g] = transfers[g]
        BY <3>1, <3>2
      <4> QED  BY <3>1, <4>1, HeldAppend
    <3>4. Append(transfers[a], c) \in Seq(Callers)
      BY <3>1
    <3>5. \A g \in DOMAIN transfers' :
              transfers'[g] \in Seq(Callers) /\ g \in DOMAIN transfers
      BY <1>0, <3>1, <3>2, <3>4
    <3>6. Writers'
      BY <2>2, <3>5 DEF Writers
    <3> QED  BY <1>0, <2>2, <3>3, <3>5, <3>6 DEF One
  <2>3. CASE /\ transfers' = With(transfers, h, <<c>>)
             /\ activeByDest' = [activeByDest EXCEPT ![f] = h]
             /\ UNCHANGED deferred /\ ~Joins(f)
    <3>1. \A g \in DOMAIN transfers : g[1] \in Downloads => Dest[g[1]] # f
      <4> SUFFICES ASSUME NEW g \in DOMAIN transfers, g[1] \in Downloads, Dest[g[1]] = f
                   PROVE  FALSE
        OBVIOUS
      <4>1. activeByDest[f] = g /\ g \in Handles
        BY <1>0 DEF Writers
      <4> QED  BY <2>3, <4>1, HttpAssumption DEF Joins
    <3>2. activeByDest' \in [Files -> Handles \cup {None}]
      BY <1>0, <2>3
    <3>3. \A g \in DOMAIN transfers' : g \in DOMAIN transfers \/ g = h
      BY <2>3 DEF With
    <3>4. \A g \in DOMAIN transfers' : g[1] \in Downloads => activeByDest'[Dest[g[1]]] = g
      <4> SUFFICES ASSUME NEW g \in DOMAIN transfers', g[1] \in Downloads
                   PROVE  activeByDest'[Dest[g[1]]] = g
        OBVIOUS
      <4>1. Dest[g[1]] \in Files
        BY HttpAssumption
      <4>2. CASE g = h
        BY <1>0, <2>0, <2>3, <4>2
      <4>3. CASE g \in DOMAIN transfers
        BY <1>0, <2>3, <3>1, <4>1, <4>3 DEF Writers
      <4> QED  BY <3>3, <4>2, <4>3
    <3> QED  BY <1>0, <1>2, <2>3, <3>2, <3>4 DEF Writers
  <2>4. CASE /\ Refused(c) /\ ~Joins(f)
             /\ activeByDest' = [activeByDest EXCEPT ![f] = None]
    <3>1. \A g \in DOMAIN transfers : g[1] \in Downloads => Dest[g[1]] # f
      <4> SUFFICES ASSUME NEW g \in DOMAIN transfers, g[1] \in Downloads, Dest[g[1]] = f
                   PROVE  FALSE
        OBVIOUS
      <4>1. activeByDest[f] = g /\ g \in Handles
        BY <1>0 DEF Writers
      <4> QED  BY <2>4, <4>1, HttpAssumption DEF Joins
    <3>2. activeByDest' \in [Files -> Handles \cup {None}]
      BY <1>0, <2>4
    <3>3. Writers'
      <4> SUFFICES ASSUME NEW g \in DOMAIN transfers, g[1] \in Downloads
                   PROVE  activeByDest'[Dest[g[1]]] = g
        BY <1>1, <2>4 DEF Writers
      <4>1. Dest[g[1]] \in Files
        BY HttpAssumption
      <4> QED  BY <1>0, <2>4, <3>1, <4>1 DEF Writers
    <3> QED  BY <1>0, <1>1, <2>4, <3>2, <3>3
  <2> QED  BY <1>4, <2>1, <2>2, <2>3, <2>4 DEF Download
<1> QED  BY <1>3, <1>4

-----------------------------------------------------------------------------
(* The client's steps. *)

LEMMA TriesType == ASSUME NEW c \in Callers PROVE Tries(c) \in Nat \ {0}
BY HttpAssumption DEF Tries, Callers

\* A caller that a step is not about waits where it waited.
LEMMA Stays ==
    ASSUME NEW e \in Callers, WaitsOnce(e), index'[e] = index[e], answers'[e] = answers[e],
           Kept(Held(transfers, e), Held(transfers', e)),
           Kept(Called(calling, e), Called(calling', e)),
           Kept(In(deferred, Answer(e)), In(deferred', Answer(e)))
    PROVE  WaitsOnce(e)'
BY DEF WaitsOnce, Nowhere, OnePlace, Kept

LEMMA Same == ASSUME NEW S, NEW T, T = S PROVE Kept(S, T)
BY DEF Kept

LEMMA NobodyCalled == \A e : Called(<<>>, e) = {}
BY DEF Called

LEMMA AskClient ==
    ASSUME ClientInv, NEW c \in Callers, Ask(c)
    PROVE  ClientInv'
<1>0. ClientTyped /\ Writers /\ \A e \in Callers : WaitsOnce(e)
    BY DEF ClientInv
<1>1. /\ index[c] = 0 /\ index' = [index EXCEPT ![c] = 1]
      /\ answers' = answers /\ streams' = streams /\ calling' = calling
      /\ \/ c \in Downloads /\ Download(c, 1)
         \/ c \notin Downloads /\ Send(c)
    BY DEF Ask
<1>2. 1 \in 1..Tries(c) /\ <<c, 1>> \in Handles
    BY TriesType, HandleIs
<1>3. <<c, 1>> \notin DOMAIN transfers
    BY <1>0, <1>1 DEF ClientTyped
<1>4. /\ answers[c] = 0
      /\ Nowhere(transfers, calling, deferred, c)
    BY <1>0, <1>1 DEF WaitsOnce
<1>5. Held(transfers, c) = {} /\ Called(calling, c) = {} /\ In(deferred, Answer(c)) = {}
    BY <1>4 DEF Nowhere
<1>6. /\ \/ One(Held(transfers', c)) /\ In(deferred', Answer(c)) = {}
         \/ Held(transfers', c) = {} /\ One(In(deferred', Answer(c)))
      /\ \A e \in Callers \ {c} : /\ Held(transfers', e) = Held(transfers, e)
                                  /\ In(deferred', Answer(e)) = In(deferred, Answer(e))
      /\ \A h \in DOMAIN transfers' :
             transfers'[h] \in Seq(Callers) /\ h \in DOMAIN transfers \cup {<<c, 1>>}
      /\ deferred' \in Seq(DeferredCall)
      /\ activeByDest' \in [Files -> Handles \cup {None}]
      /\ Writers'
    BY <1>0, <1>1, <1>2, <1>3, <1>5, Begins
<1>7. /\ index' \in [Callers -> Nat]
      /\ \A e \in Callers : index'[e] <= Tries(e) /\ index[e] <= index'[e]
      /\ index'[c] = 1
    BY <1>0, <1>1, TriesType DEF ClientTyped
<1>8. \A h \in DOMAIN transfers' : h \in Handles /\ h[2] <= index'[h[1]]
  <2> SUFFICES ASSUME NEW h \in DOMAIN transfers'
               PROVE  h \in Handles /\ h[2] <= index'[h[1]]
    OBVIOUS
  <2>1. CASE h = <<c, 1>>
    BY <1>2, <1>7, <2>1
  <2>2. CASE h \in DOMAIN transfers
    <3>1. h \in Handles /\ h[2] <= index[h[1]]
      BY <1>0, <2>2 DEF ClientTyped
    <3>2. h[1] \in Callers /\ h[2] \in Nat
      BY <3>1, HandleType
    <3>3. index[h[1]] \in Nat /\ index'[h[1]] \in Nat
      BY <1>0, <1>7, <3>2 DEF ClientTyped
    <3> QED  BY <1>7, <3>1, <3>2, <3>3
  <2> QED  BY <1>6, <2>1, <2>2
<1>9. ClientTyped'
    BY <1>0, <1>1, <1>6, <1>7, <1>8 DEF ClientTyped
<1>10. WaitsOnce(c)'
  <2>1. Called(calling', c) = {} /\ answers'[c] = 0 /\ index'[c] # 0
    BY <1>1, <1>4, <1>5, <1>7
  <2>2. OnePlace(transfers', calling', deferred', c)
    BY <1>6, <2>1 DEF OnePlace
  <2> QED  BY <2>1, <2>2 DEF WaitsOnce
<1>11. ASSUME NEW e \in Callers \ {c}
       PROVE  WaitsOnce(e)'
  <2>1. index'[e] = index[e] /\ answers'[e] = answers[e] /\ Called(calling', e) = Called(calling, e)
    BY <1>0, <1>1 DEF ClientTyped
  <2> QED  BY <1>0, <1>6, <2>1, Stays, Same
<1> QED  BY <1>6, <1>9, <1>10, <1>11 DEF ClientInv

LEMMA FinishClient ==
    ASSUME ClientInv, NEW h \in Handles, Finish(h)
    PROVE  ClientInv'
<1>0. ClientTyped /\ Writers /\ \A e \in Callers : WaitsOnce(e)
    BY DEF ClientInv
<1>1. /\ calling = <<>> /\ h \in DOMAIN transfers
      /\ transfers' = Without(transfers, h)
      /\ activeByDest' = Freed(h)
      /\ UNCHANGED <<index, answers, streams, deferred>>
    BY DEF Finish
<1>2. PICK ok \in BOOLEAN :
          calling' = [i \in DOMAIN transfers[h] |-> <<transfers[h][i], ok>>]
    BY DEF Finish
<1>3. transfers[h] \in Seq(Callers) /\ h[1] \in Callers
    BY <1>0, <1>1, HandleType DEF ClientTyped
<1>4. calling' \in Seq(Callers \X BOOLEAN)
  <2>1. DOMAIN transfers[h] = 1..Len(transfers[h]) /\ Len(transfers[h]) \in Nat
        /\ \A i \in 1..Len(transfers[h]) : transfers[h][i] \in Callers
    BY <1>3
  <2>2. calling' \in [1..Len(transfers[h]) -> Callers \X BOOLEAN]
    BY <1>2, <2>1
  <2> QED  BY <2>1, <2>2, SeqDef
<1>5. /\ DOMAIN calling' = DOMAIN transfers[h]
      /\ \A i \in DOMAIN calling' : calling'[i][1] = transfers[h][i]
    BY <1>2
<1>6. activeByDest' \in [Files -> Handles \cup {None}]
    BY <1>0, <1>1, HttpAssumption DEF Freed, ClientTyped
<1>7. \A g \in DOMAIN transfers' : g \in DOMAIN transfers /\ g # h /\ transfers'[g] = transfers[g]
    BY <1>1 DEF Without
<1>8. ClientTyped'
    BY <1>0, <1>1, <1>4, <1>6, <1>7 DEF ClientTyped
<1>9. Writers'
  <2> SUFFICES ASSUME NEW g \in DOMAIN transfers', g[1] \in Downloads
               PROVE  activeByDest'[Dest[g[1]]] = g
    BY DEF Writers
  <2>1. activeByDest[Dest[g[1]]] = g /\ g # h
    BY <1>0, <1>7 DEF Writers
  <2>2. h[1] \in Downloads => activeByDest[Dest[h[1]]] = h
    BY <1>0, <1>1 DEF Writers
  <2>3. Dest[g[1]] \in Files /\ activeByDest \in [Files -> Handles \cup {None}]
    BY <1>0, HttpAssumption DEF ClientTyped
  <2> QED  BY <1>1, <2>1, <2>2, <2>3 DEF Freed
<1>10. ASSUME NEW e \in Callers
       PROVE  WaitsOnce(e)'
  <2> DEFINE t == transfers
             u == Without(transfers, h)
             q == calling'
  <2>1. /\ Held(t, e) = {} => Held(u, e) = {} /\ Called(q, e) = {}
        /\ One(Held(t, e)) => \/ One(Held(u, e)) /\ Called(q, e) = {}
                              \/ Held(u, e) = {} /\ One(Called(q, e))
    BY <1>1, <1>5, HeldWithout
  <2>2. Called(calling, e) = {} /\ ~One(Called(calling, e))
    BY <1>1, NobodyCalled DEF One
  <2>3. WaitsOnce(e) /\ index' = index /\ answers' = answers /\ deferred' = deferred
        /\ transfers' = u
    BY <1>0, <1>1
  <2> HIDE DEF u, q, t
  <2>4. Nowhere(t, calling, deferred, e) => Nowhere(u, q, deferred, e)
    BY <2>1 DEF Nowhere
  <2>5. OnePlace(t, calling, deferred, e) => OnePlace(u, q, deferred, e)
    BY <2>1, <2>2 DEF OnePlace
  <2> QED  BY <2>3, <2>4, <2>5 DEF WaitsOnce, t, q
<1> QED  BY <1>8, <1>9, <1>10 DEF ClientInv

LEMMA CallClient ==
    ASSUME ClientInv, Call
    PROVE  ClientInv'
<1>0. ClientTyped /\ Writers /\ \A e \in Callers : WaitsOnce(e)
    BY DEF ClientInv
<1>1. calling # <<>> /\ calling' = Tail(calling) /\ streams' = streams
    BY DEF Call
<1>2. /\ calling \in Seq(Callers \X BOOLEAN) /\ calling' \in Seq(Callers \X BOOLEAN)
      /\ Head(calling)[1] \in Callers
  <2>1. calling \in Seq(Callers \X BOOLEAN)
    BY <1>0 DEF ClientTyped
  <2>2. Head(calling) \in Callers \X BOOLEAN /\ Tail(calling) \in Seq(Callers \X BOOLEAN)
    BY <1>1, <2>1, HeadTailProperties
  <2> QED  BY <1>1, <2>1, <2>2
<1>c. PICK c \in Callers : c = Head(calling)[1]
    BY <1>2
<1>3. /\ One(Called(calling, c)) => Called(calling', c) = {}
      /\ Called(calling, c) # {}
      /\ \A e \in Callers \ {c} : Kept(Called(calling, e), Called(calling', e))
    BY <1>1, <1>2, <1>c, TailCalled
<1>4. /\ index[c] # 0 /\ answers[c] = 0
      /\ Held(transfers, c) = {} /\ In(deferred, Answer(c)) = {} /\ Called(calling', c) = {}
    BY <1>0, <1>2, <1>3 DEF WaitsOnce, Nowhere, OnePlace
<1>5. CASE answers' = [answers EXCEPT ![c] = @ + 1]
           /\ UNCHANGED <<index, transfers, activeByDest, deferred>>
  <2>1. ClientTyped' /\ Writers'
    BY <1>0, <1>1, <1>2, <1>5, SMTT(30), ZenonT(40) DEF ClientTyped, Writers
  <2>2. WaitsOnce(c)'
    <3>1. index'[c] # 0 /\ answers'[c] = 1
      BY <1>0, <1>2, <1>4, <1>5 DEF ClientTyped
    <3>2. Nowhere(transfers', calling', deferred', c)
      BY <1>4, <1>5 DEF Nowhere
    <3> QED  BY <3>1, <3>2 DEF WaitsOnce
  <2>3. ASSUME NEW e \in Callers \ {c}
        PROVE  WaitsOnce(e)'
    <3>1. index'[e] = index[e] /\ answers'[e] = answers[e]
      BY <1>0, <1>5 DEF ClientTyped
    <3> QED  BY <1>0, <1>3, <1>5, <3>1, Stays, Same
  <2> QED  BY <2>1, <2>2, <2>3 DEF ClientInv
<1>6. CASE ~LastUrl(c) /\ index' = [index EXCEPT ![c] = @ + 1]
           /\ Download(c, index[c] + 1) /\ UNCHANGED answers
  <2>0. PICK n : n = index[c] + 1
    OBVIOUS
  <2>1. n \in 1..Tries(c) /\ n > 1 /\ <<c, n>> \in Handles /\ c \in Downloads
    <3>1. index[c] \in Nat /\ Tries(c) \in Nat \ {0} /\ index[c] # 0
      BY <1>0, <1>2, <1>4, TriesType DEF ClientTyped
    <3>2. n \in 1..Tries(c) /\ n > 1
      BY <1>6, <2>0, <3>1 DEF LastUrl
    <3> QED  BY <1>2, <3>2, HandleIs DEF Tries
  <2>2. <<c, n>> \notin DOMAIN transfers
    BY <1>0, <1>2, <2>0 DEF ClientTyped
  <2>3. /\ \/ One(Held(transfers', c)) /\ In(deferred', Answer(c)) = {}
           \/ Held(transfers', c) = {} /\ One(In(deferred', Answer(c)))
        /\ \A e \in Callers \ {c} : /\ Held(transfers', e) = Held(transfers, e)
                                    /\ In(deferred', Answer(e)) = In(deferred, Answer(e))
        /\ \A h \in DOMAIN transfers' :
               transfers'[h] \in Seq(Callers) /\ h \in DOMAIN transfers \cup {<<c, n>>}
        /\ deferred' \in Seq(DeferredCall)
        /\ activeByDest' \in [Files -> Handles \cup {None}]
        /\ Writers'
    <3>1. Download(c, n)
      BY <1>6, <2>0
    <3> QED  BY <1>0, <1>2, <1>4, <2>1, <2>2, <3>1, Begins
  <2>4. /\ index' \in [Callers -> Nat]
        /\ \A e \in Callers : index'[e] <= Tries(e) /\ index[e] <= index'[e]
        /\ index'[c] = n
    BY <1>0, <1>2, <1>6, <2>0, <2>1, TriesType, SMTT(30), ZenonT(40) DEF ClientTyped
  <2>5. \A h \in DOMAIN transfers' : h \in Handles /\ h[2] <= index'[h[1]]
    <3> SUFFICES ASSUME NEW h \in DOMAIN transfers'
                 PROVE  h \in Handles /\ h[2] <= index'[h[1]]
      OBVIOUS
    <3>1. CASE h = <<c, n>>
      BY <1>2, <2>1, <2>4, <3>1
    <3>2. CASE h \in DOMAIN transfers
      <4>1. h \in Handles /\ h[2] <= index[h[1]]
        BY <1>0, <3>2 DEF ClientTyped
      <4>2. h[1] \in Callers /\ h[2] \in Nat
        BY <4>1, HandleType
      <4>3. index[h[1]] \in Nat /\ index'[h[1]] \in Nat
        BY <1>0, <2>4, <4>2 DEF ClientTyped
      <4> QED  BY <2>4, <4>1, <4>2, <4>3
    <3> QED  BY <2>3, <3>1, <3>2
  <2>6. ClientTyped'
    BY <1>0, <1>1, <1>2, <1>6, <2>3, <2>4, <2>5 DEF ClientTyped
  <2>7. WaitsOnce(c)'
    <3>1. index'[c] # 0 /\ answers'[c] = 0
      BY <1>4, <1>6, <2>1, <2>4
    <3>2. OnePlace(transfers', calling', deferred', c)
      BY <1>4, <2>3 DEF OnePlace
    <3> QED  BY <3>1, <3>2 DEF WaitsOnce
  <2>8. ASSUME NEW e \in Callers \ {c}
        PROVE  WaitsOnce(e)'
    <3>1. index'[e] = index[e] /\ answers'[e] = answers[e]
      BY <1>0, <1>6 DEF ClientTyped
    <3> QED  BY <1>0, <1>3, <2>3, <3>1, Stays, Same
  <2> QED  BY <2>3, <2>6, <2>7, <2>8 DEF ClientInv
<1> QED  BY <1>5, <1>6, <1>c DEF Call

LEMMA RunFailureClient ==
    ASSUME ClientInv, RunFailure
    PROVE  ClientInv'
<1>0. ClientTyped /\ Writers /\ \A e \in Callers : WaitsOnce(e)
    BY DEF ClientInv
<1>1. /\ calling = <<>> /\ deferred # <<>> /\ Head(deferred).do = "answer"
      /\ calling' = <<<<Head(deferred).for, FALSE>>>> /\ deferred' = Tail(deferred)
      /\ UNCHANGED <<index, answers, transfers, activeByDest, streams>>
    BY DEF RunFailure
<1>2. /\ deferred \in Seq(DeferredCall) /\ deferred' \in Seq(DeferredCall)
      /\ Head(deferred) \in DeferredCall
  <2>1. deferred \in Seq(DeferredCall)
    BY <1>0 DEF ClientTyped
  <2> QED  BY <1>1, <2>1, HeadTailProperties
<1>3. PICK c \in Callers : Head(deferred) = Answer(c) /\ c = Head(deferred).for
    BY <1>1, <1>2 DEF DeferredCall, Answer
<1>4. Len(deferred) \in Nat \ {0} /\ deferred[1] = Answer(c) /\ DOMAIN deferred = 1..Len(deferred)
    BY <1>1, <1>2, <1>3, HeadTailProperties
<1>5. 1 \in In(deferred, Answer(c))
    BY <1>4 DEF In
<1>6. /\ index[c] # 0 /\ answers[c] = 0
      /\ Held(transfers, c) = {} /\ One(In(deferred, Answer(c)))
    BY <1>0, <1>3, <1>5 DEF WaitsOnce, Nowhere, OnePlace
<1>7. In(deferred', Answer(c)) = {}
    BY <1>1, <1>2, <1>3, <1>6, HeadIn
<1>8. Called(calling', c) = {1} /\ \A e : e # c => Called(calling', e) = {}
    BY <1>1, <1>3 DEF Called
<1>9. \A e \in Callers \ {c} : Kept(In(deferred, Answer(e)), In(deferred', Answer(e)))
  <2>1. \A e \in Callers \ {c} : Answer(e) # Answer(c)
    BY DEF Answer
  <2> QED  BY <1>1, <1>2, <1>3, <2>1, TailIn
<1>10. ClientTyped' /\ Writers'
  <2>1. calling' \in Seq(Callers \X BOOLEAN)
    <3>1. PICK x \in Callers \X BOOLEAN : x = <<c, FALSE>>
      OBVIOUS
    <3>2. calling' = <<x>>
      BY <1>1, <1>3, <3>1
    <3> QED  BY <3>2
  <2> QED  BY <1>0, <1>1, <1>2, <2>1 DEF ClientTyped, Writers
<1>11. WaitsOnce(c)'
  <2>1. One(Called(calling', c))
    BY <1>8 DEF One
  <2>2. OnePlace(transfers', calling', deferred', c)
    BY <1>1, <1>6, <1>7, <2>1 DEF OnePlace
  <2> QED  BY <1>1, <1>6, <2>2 DEF WaitsOnce
<1>12. ASSUME NEW e \in Callers \ {c}
       PROVE  WaitsOnce(e)'
  <2>1. Kept(Called(calling, e), Called(calling', e))
    BY <1>1, <1>8, NobodyCalled, Same
  <2> QED  BY <1>0, <1>1, <1>9, <2>1, Stays, Same
<1> QED  BY <1>10, <1>11, <1>12 DEF ClientInv

\* The steps of the streams are about none of the callers.
LEMMA StreamsClient ==
    ASSUME ClientInv, UNCHANGED <<index, answers, transfers, activeByDest, calling>>,
           deferred' \in Seq(DeferredCall), streams' \subseteq Streams,
           \A e \in Callers : Kept(In(deferred, Answer(e)), In(deferred', Answer(e)))
    PROVE  ClientInv'
<1>1. ClientTyped' /\ Writers'
    BY DEF ClientInv, ClientTyped, Writers
<1>2. ASSUME NEW e \in Callers
      PROVE  WaitsOnce(e)'
    BY Stays, Same DEF ClientInv
<1> QED  BY <1>1, <1>2 DEF ClientInv

-----------------------------------------------------------------------------
(* The streams of the script. *)

LEMMA AppendRange ==
    ASSUME NEW S, NEW q \in Seq(S), NEW x \in S
    PROVE  Append(q, x) \in Seq(S) /\ Range(Append(q, x)) = Range(q) \cup {x}
<1>1. /\ Append(q, x) \in Seq(S) /\ Len(q) \in Nat
      /\ DOMAIN Append(q, x) = 1..Len(q) + 1 /\ DOMAIN q = 1..Len(q)
      /\ \A i \in 1..Len(q) : Append(q, x)[i] = q[i]
      /\ Append(q, x)[Len(q) + 1] = x
    BY AppendProperties
<1>2. \A e : e \in Range(Append(q, x)) <=> e \in Range(q) \cup {x}
    BY <1>1 DEF Range
<1> QED  BY <1>1, <1>2

LEMMA RangeType ==
    ASSUME NEW S, NEW q \in Seq(S)
    PROVE  Range(q) \subseteq S
<1> SUFFICES ASSUME NEW i \in DOMAIN q
             PROVE  q[i] \in S
    BY DEF Range
<1> QED  OBVIOUS

LEMMA TailRange ==
    ASSUME NEW S, NEW q \in Seq(S), q # <<>>
    PROVE  /\ Tail(q) \in Seq(S) /\ Head(q) \in S /\ Head(q) \in Range(q)
           /\ Range(Tail(q)) \subseteq Range(q)
           /\ Range(q) \subseteq Range(Tail(q)) \cup {Head(q)}
<1>1. /\ Tail(q) \in Seq(S) /\ Len(Tail(q)) = Len(q) - 1 /\ Head(q) \in S
      /\ \A i \in 1 .. Len(Tail(q)) : Tail(q)[i] = q[i+1]
      /\ q[1] = Head(q) /\ Len(q) \in Nat \ {0} /\ DOMAIN q = 1..Len(q)
      /\ DOMAIN Tail(q) = 1..Len(q) - 1
    BY HeadTailProperties
<1>2. \A e : e \in Range(Tail(q)) => e \in Range(q)
    BY <1>1 DEF Range
<1>3. \A i \in DOMAIN q : i = 1 \/ (i - 1 \in DOMAIN Tail(q) /\ Tail(q)[i - 1] = q[i])
    BY <1>1
<1>4. \A e : e \in Range(q) => e \in Range(Tail(q)) \/ e = Head(q)
  <2> SUFFICES ASSUME NEW i \in DOMAIN q
               PROVE  q[i] \in Range(Tail(q)) \/ q[i] = Head(q)
    BY DEF Range
  <2> QED  BY <1>1, <1>3 DEF Range
<1>5. Head(q) \in Range(q)
    BY <1>1 DEF Range
<1> QED  BY <1>1, <1>2, <1>4, <1>5

LEMMA ConcatRange ==
    ASSUME NEW S, NEW q \in Seq(S), NEW r \in Seq(S)
    PROVE  q \o r \in Seq(S) /\ Range(q \o r) = Range(q) \cup Range(r)
<1>1. /\ q \o r \in Seq(S) /\ Len(q \o r) = Len(q) + Len(r)
      /\ \A i \in 1 .. Len(q) + Len(r) :
             (q \o r)[i] = IF i <= Len(q) THEN q[i] ELSE r[i - Len(q)]
      /\ Len(q) \in Nat /\ Len(r) \in Nat
      /\ DOMAIN q = 1..Len(q) /\ DOMAIN r = 1..Len(r) /\ DOMAIN (q \o r) = 1..Len(q) + Len(r)
    BY ConcatProperties
<1>2. \A e : e \in Range(q \o r) => e \in Range(q) \/ e \in Range(r)
    BY <1>1 DEF Range
<1>3. \A i \in DOMAIN q : i \in DOMAIN (q \o r) /\ (q \o r)[i] = q[i]
    BY <1>1
<1>4. \A i \in DOMAIN r : i + Len(q) \in DOMAIN (q \o r) /\ (q \o r)[i + Len(q)] = r[i]
    BY <1>1
<1>5. \A e : e \in Range(q) \/ e \in Range(r) => e \in Range(q \o r)
    BY <1>3, <1>4 DEF Range
<1> QED  BY <1>1, <1>2, <1>5

Event == [host : 0..MaxReloads, slot : Slots, closed : BOOLEAN, from : Streams]

Stopping(s) == [do |-> "cancel", for |-> s]

\* A stream that was started has a record until it is stopped or closed.
Accounted(s) == s \in cancelled \/ closed[s] = 1 \/ Recorded(s)

\* A record stands for a live stream of this host, and the stream's handle is
\* its slot.
HostInv ==
    /\ hostId \in 0..MaxReloads
    /\ DOMAIN records \subseteq Slots /\ IsFiniteSet(DOMAIN records)
    /\ handle \in [Streams -> Slots \cup {None}]
    /\ home \in [Streams -> 0..MaxReloads]
    /\ cancelled \subseteq Streams
    /\ heard \in [Streams -> Nat]
    /\ closed \in [Streams -> 0..1]
    /\ \A k \in DOMAIN records :
           /\ records[k] \in Streams
           /\ handle[records[k]] = k
           /\ home[records[k]] = hostId
           /\ records[k] \notin cancelled
           /\ closed[records[k]] = 0
    /\ \A s \in Streams : handle[s] = None => s \notin cancelled /\ closed[s] = 0
    /\ \A s \in Streams : handle[s] = None \/ Accounted(s)

\* What is in the mailbox is of a stream that was started, by the host the
\* event names.
MailInv ==
    /\ mail \in Seq(Event)
    /\ \A m \in Range(mail) : handle[m.from] # None /\ m.host = home[m.from]

\* What the client was told of was started, and what is stopped is being
\* cancelled.
QueueInv ==
    /\ received \in 0..MaxLines
    /\ known \subseteq Streams /\ streams \subseteq known
    /\ starting \in Streams \cup {None}
    /\ \A s \in known : handle[s] # None
    /\ \A m \in Range(deferred) : m.do # "answer" => handle[m.for] # None
    /\ \A s \in streams \cap cancelled : starting = s \/ Stopping(s) \in Range(deferred)

StreamInv == HostInv /\ MailInv /\ QueueInv

\* Cancelling a finite set of streams.
LEMMA Cancelling ==
    ASSUME deferred \in Seq(DeferredCall), NEW S \in SUBSET Streams, IsFiniteSet(S), Cancel(S)
    PROVE  /\ deferred' \in Seq(DeferredCall)
           /\ Range(deferred') = Range(deferred) \cup {Stopping(s) : s \in S}
           /\ \A e : In(deferred', Answer(e)) = In(deferred, Answer(e))
<1> DEFINE T == {Stopping(s) : s \in S}
           r == SetToSeq(T)
<1>1. deferred' = deferred \o r
    BY DEF Cancel, Stopping
<1>2. IsFiniteSet(T)
  <2>1. [s \in S |-> Stopping(s)] \in Surjection(S, T)
    BY DEF Surjection
  <2> QED  BY <2>1, FS_Surjection
<1>3. r \in Seq(T) /\ \A x \in T : \E i \in DOMAIN r : r[i] = x
    BY <1>2, SetToSeqLists
<1>4. T \subseteq DeferredCall /\ \A m \in T : m.do = "cancel"
    BY DEF DeferredCall, Stopping
<1> HIDE DEF T, r
<1>5. r \in Seq(DeferredCall) /\ \A i \in DOMAIN r : r[i] \in T
    BY <1>3, <1>4
<1>6. Range(r) = T
  <2>1. \A x : x \in Range(r) <=> x \in T
    BY <1>3, <1>5 DEF Range
  <2> QED  BY <2>1
<1>7. deferred' \in Seq(DeferredCall) /\ Range(deferred') = Range(deferred) \cup T
    BY <1>1, <1>5, <1>6, ConcatRange
<1>8. ASSUME NEW e
      PROVE  In(deferred', Answer(e)) = In(deferred, Answer(e))
  <2>1. \A i \in DOMAIN r : r[i] # Answer(e)
    BY <1>4, <1>5 DEF Answer
  <2> QED  BY <1>1, <1>5, <2>1, ConcatIn
<1> QED  BY <1>7, <1>8 DEF T

-----------------------------------------------------------------------------
(* The steps of the streams. *)

LEMMA HostSame ==
    ASSUME HostInv, UNCHANGED <<hostId, records, handle, home, cancelled, heard, closed>>
    PROVE  HostInv'
BY DEF HostInv, Accounted, Recorded

LEMMA MailSame ==
    ASSUME MailInv, UNCHANGED <<mail, handle, home>>
    PROVE  MailInv'
BY DEF MailInv

\* The client's own steps defer and run answers, nothing else.
LEMMA ClientStreams ==
    ASSUME ClientInv, StreamInv, Client
    PROVE  ClientInv' /\ StreamInv'
<1>1. ClientInv'
    BY AskClient, FinishClient, CallClient, RunFailureClient DEF Client
<1>2. deferred \in Seq(DeferredCall) /\ deferred' \in Seq(DeferredCall)
    BY <1>1 DEF ClientInv, ClientTyped
<1>3. \/ deferred' = deferred
      \/ \E c : deferred' = Append(deferred, Answer(c))
      \/ deferred # <<>> /\ Head(deferred).do = "answer" /\ deferred' = Tail(deferred)
  <2>1. ASSUME NEW c, Ask(c) PROVE deferred' = deferred \/ deferred' = Append(deferred, Answer(c))
    BY <2>1 DEF Ask, Download, Send, Refused, Fail, Answer
  <2>2. ASSUME NEW h, Finish(h) PROVE deferred' = deferred
    BY <2>2 DEF Finish
  <2>3. ASSUME Call PROVE \/ deferred' = deferred
                          \/ deferred' = Append(deferred, Answer(Head(calling)[1]))
    BY <2>3 DEF Call, Download, Refused, Fail, Answer
  <2>4. ASSUME RunFailure
        PROVE  deferred # <<>> /\ Head(deferred).do = "answer" /\ deferred' = Tail(deferred)
    BY <2>4 DEF RunFailure
  <2> QED  BY <2>1, <2>2, <2>3, <2>4 DEF Client
<1>4. \A m : m.do # "answer" => (m \in Range(deferred') <=> m \in Range(deferred))
  <2>1. CASE deferred' = deferred
    BY <2>1
  <2>2. ASSUME NEW c, deferred' = Append(deferred, Answer(c))
        PROVE  \A m : m.do # "answer" => (m \in Range(deferred') <=> m \in Range(deferred))
    <3>1. Answer(c) \in DeferredCall
      <4>1. Len(deferred') = Len(deferred) + 1 /\ deferred'[Len(deferred) + 1] = Answer(c)
            /\ Len(deferred) \in Nat
        BY <1>2, <2>2
      <4>2. DOMAIN deferred' = 1..Len(deferred')
        BY <1>2
      <4> QED  BY <1>2, <4>1, <4>2
    <3>2. Range(deferred') = Range(deferred) \cup {Answer(c)}
      BY <1>2, <2>2, <3>1, AppendRange
    <3>3. Answer(c).do = "answer"
      BY DEF Answer
    <3> QED  BY <3>2, <3>3
  <2>3. CASE deferred # <<>> /\ Head(deferred).do = "answer" /\ deferred' = Tail(deferred)
    <3>1. /\ Range(Tail(deferred)) \subseteq Range(deferred)
          /\ Range(deferred) \subseteq Range(Tail(deferred)) \cup {Head(deferred)}
      BY <1>2, <2>3, TailRange
    <3> QED  BY <2>3, <3>1
  <2> QED  BY <1>3, <2>1, <2>2, <2>3
<1>5. UNCHANGED <<streamVars, streams>>
    BY DEF Client, Ask, Finish, Call, RunFailure
<1>6. HostInv' /\ MailInv'
    BY <1>5, HostSame, MailSame DEF StreamInv, streamVars
<1>7. \A s : Stopping(s).do # "answer"
    BY DEF Stopping
<1>8. QueueInv'
    BY <1>4, <1>5, <1>7 DEF StreamInv, QueueInv, streamVars
<1> QED  BY <1>1, <1>6, <1>8 DEF StreamInv

LEMMA StartHttpStreamInv ==
    ASSUME ClientInv, StreamInv, NEW s \in Streams, StartHttpStream(s)
    PROVE  ClientInv' /\ StreamInv'
<1>0. HostInv /\ MailInv /\ QueueInv
    BY DEF StreamInv
<1>1. PICK k \in Slots \ DOMAIN records :
          /\ records' = With(records, k, s)
          /\ handle' = [handle EXCEPT ![s] = k]
    BY DEF StartHttpStream
<1>2. /\ handle[s] = None
      /\ home' = [home EXCEPT ![s] = hostId]
      /\ deferred' = Append(deferred, [do |-> "start", for |-> s])
      /\ UNCHANGED <<otherHttp, streams, hostId, cancelled, known, starting, received,
                     mail, heard, closed>>
    BY DEF StartHttpStream
<1>3. [do |-> "start", for |-> s] \in DeferredCall
    BY DEF DeferredCall
<1>4. deferred \in Seq(DeferredCall) /\ streams \subseteq Streams
    BY DEF ClientInv, ClientTyped
<1>5. /\ deferred' \in Seq(DeferredCall)
      /\ Range(deferred') = Range(deferred) \cup {[do |-> "start", for |-> s]}
    BY <1>2, <1>3, <1>4, AppendRange
<1>6. ClientInv'
  <2>1. \A e : Answer(e) # [do |-> "start", for |-> s]
    BY DEF Answer
  <2>2. \A e \in Callers : In(deferred', Answer(e)) = In(deferred, Answer(e))
    BY <1>2, <1>3, <1>4, <2>1, AppendIn
  <2> QED  BY <1>2, <1>4, <1>5, <2>2, Same, StreamsClient DEF otherHttp
<1>7. HostInv'
  <2>1. /\ DOMAIN records' = DOMAIN records \cup {k} /\ records'[k] = s
        /\ \A j \in DOMAIN records : records'[j] = records[j]
    BY <1>1 DEF With
  <2>2. IsFiniteSet(DOMAIN records')
    BY <1>0, <2>1, FS_AddElement DEF HostInv
  <2>3. \A j \in DOMAIN records : records[j] # s
    BY <1>0, <1>2, StreamAssumption DEF HostInv
  <2>4. /\ handle' \in [Streams -> Slots \cup {None}] /\ handle'[s] = k
        /\ \A r \in Streams \ {s} : handle'[r] = handle[r]
    BY <1>0, <1>1 DEF HostInv
  <2>5. /\ home' \in [Streams -> 0..MaxReloads] /\ home'[s] = hostId
        /\ \A r \in Streams \ {s} : home'[r] = home[r]
    BY <1>0, <1>2 DEF HostInv
  <2>6. \A j \in DOMAIN records' :
            /\ records'[j] \in Streams
            /\ handle'[records'[j]] = j
            /\ home'[records'[j]] = hostId
            /\ records'[j] \notin cancelled
            /\ closed[records'[j]] = 0
    BY <1>0, <1>2, <2>1, <2>3, <2>4, <2>5 DEF HostInv
  <2>7. k # None
    BY StreamAssumption
  <2>8. ASSUME NEW r \in Streams, handle'[r] # None
        PROVE  Accounted(r)'
    <3>1. CASE r = s
      BY <1>2, <2>1, <2>4, <2>5, <3>1 DEF Accounted, Recorded
    <3>2. CASE r # s
      <4>1. handle'[r] = handle[r] /\ home'[r] = home[r]
        BY <2>4, <2>5, <3>2
      <4>2. Accounted(r)
        BY <1>0, <2>8, <4>1 DEF HostInv
      <4>3. handle[r] \in DOMAIN records => records'[handle[r]] = records[handle[r]]
        BY <2>1
      <4> QED  BY <1>2, <2>1, <4>1, <4>2, <4>3 DEF Accounted, Recorded
    <3> QED  BY <3>1, <3>2
  <2>9. \A r \in Streams : handle'[r] = None \/ Accounted(r)'
    BY <2>8
  <2>10. \A r \in Streams : handle'[r] = None => r \notin cancelled' /\ closed'[r] = 0
    BY <1>0, <1>2, <2>4, <2>7 DEF HostInv
  <2> QED  BY <1>0, <1>2, <2>1, <2>2, <2>4, <2>5, <2>6, <2>9, <2>10 DEF HostInv
<1>8. \A r : handle'[r] # None \/ handle[r] = None
    BY <1>0, <1>1, StreamAssumption DEF HostInv
<1>9. MailInv'
  <2>0. Range(mail) \subseteq Event
    BY <1>0, RangeType DEF MailInv
  <2>1. \A m \in Range(mail) : m.from \in Streams /\ m.from # s
    BY <1>0, <1>2, <2>0 DEF MailInv, Event
  <2>2. \A m \in Range(mail) : handle'[m.from] = handle[m.from] /\ home'[m.from] = home[m.from]
    BY <1>0, <1>1, <1>2, <2>1 DEF HostInv
  <2> QED  BY <1>0, <1>2, <2>2 DEF MailInv
<1>10. QueueInv'
  <2>1. \A m \in Range(deferred') : m.do # "answer" => handle'[m.for] # None
    <3>1. handle'[s] # None
      BY <1>0, <1>1, StreamAssumption DEF HostInv
    <3> QED  BY <1>0, <1>5, <1>8, <3>1 DEF QueueInv
  <2> QED  BY <1>0, <1>2, <1>5, <1>8, <2>1 DEF QueueInv
<1> QED  BY <1>6, <1>7, <1>9, <1>10 DEF StreamInv

\* Whatever streams the script gives up, of those the host has a record of.
LEMMA GiveUp ==
    ASSUME ClientInv, StreamInv, NEW K \in SUBSET DOMAIN records,
           Cancel({records[k] : k \in K}),
           DOMAIN records' = DOMAIN records \ K,
           \A k \in DOMAIN records' : records'[k] = records[k],
           hostId' \in 0..MaxReloads, hostId' = hostId \/ records' = <<>>,
           UNCHANGED <<otherHttp, streams, handle, home, known, starting, received, mail,
                       heard, closed>>
    PROVE  ClientInv' /\ StreamInv'
<1> DEFINE S == {records[k] : k \in K}
<1>0. HostInv /\ MailInv /\ QueueInv
    BY DEF StreamInv
<1>1. IsFiniteSet(K)
    BY <1>0, FS_Subset DEF HostInv
<1>2. IsFiniteSet(S)
  <2>1. [k \in K |-> records[k]] \in Surjection(K, S)
    BY DEF Surjection
  <2> QED  BY <1>1, <2>1, FS_Surjection
<1>3. S \in SUBSET Streams
    BY <1>0 DEF HostInv
<1>4. deferred \in Seq(DeferredCall) /\ streams \subseteq Streams
    BY DEF ClientInv, ClientTyped
<1>5. Cancel(S) /\ \A s \in S : \E k \in K : s = records[k]
    OBVIOUS
<1>5a. \A k \in K : records[k] \in S
    OBVIOUS
<1> HIDE DEF S
<1>6. /\ deferred' \in Seq(DeferredCall)
      /\ Range(deferred') = Range(deferred) \cup {Stopping(s) : s \in S}
      /\ \A e : In(deferred', Answer(e)) = In(deferred, Answer(e))
    BY <1>2, <1>3, <1>4, <1>5, Cancelling
<1>7. cancelled' = cancelled \cup S
    BY <1>5 DEF Cancel
<1>8. ClientInv'
    BY <1>4, <1>6, Same, StreamsClient DEF otherHttp
<1>9. \A s \in S : handle[s] # None
    BY <1>0, <1>5, StreamAssumption DEF HostInv
<1>10. HostInv'
  <2>1. IsFiniteSet(DOMAIN records')
    BY <1>0, FS_Subset DEF HostInv
  <2>2. \A k \in DOMAIN records' : records[k] \notin S
    BY <1>0, <1>5 DEF HostInv
  <2>3. \A k \in DOMAIN records' : hostId' = hostId
    OBVIOUS
  <2>4. \A k \in DOMAIN records' :
            /\ records'[k] \in Streams
            /\ handle'[records'[k]] = k
            /\ home'[records'[k]] = hostId'
            /\ records'[k] \notin cancelled'
            /\ closed'[records'[k]] = 0
    BY <1>0, <1>7, <2>2, <2>3 DEF HostInv
  <2>5. \A s \in Streams : handle'[s] = None => s \notin cancelled' /\ closed'[s] = 0
    BY <1>0, <1>7, <1>9 DEF HostInv
  <2>6. ASSUME NEW s \in Streams, handle'[s] # None
        PROVE  Accounted(s)'
    <3>1. Accounted(s)
      BY <1>0, <2>6 DEF HostInv
    <3>2. CASE Recorded(s) /\ handle[s] \in K
      <4>1. s \in S
        BY <1>5a, <3>2 DEF Recorded
      <4> QED  BY <1>7, <4>1 DEF Accounted
    <3>3. CASE Recorded(s) /\ handle[s] \notin K
      <4>1. handle[s] \in DOMAIN records' /\ records'[handle[s]] = s /\ home[s] = hostId
        BY <3>3 DEF Recorded
      <4>2. hostId' = hostId
        BY <2>3, <4>1
      <4>3. handle' = handle /\ home' = home
        OBVIOUS
      <4>4. Recorded(s)'
        BY ONLY <4>1, <4>2, <4>3 DEF Recorded
      <4> QED  BY <4>4 DEF Accounted
    <3>4. CASE s \in cancelled \/ closed[s] = 1
      BY <1>7, <3>4 DEF Accounted
    <3> QED  BY <3>1, <3>2, <3>3, <3>4 DEF Accounted
  <2> QED  BY <1>0, <1>3, <1>7, <2>1, <2>4, <2>5, <2>6 DEF HostInv
<1>11. MailInv'
    BY <1>0, MailSame
<1>12. QueueInv'
  <2>1. \A m \in Range(deferred') : m.do # "answer" => handle[m.for] # None
    BY <1>0, <1>6, <1>9 DEF QueueInv, Stopping
  <2>2. \A s \in streams \cap cancelled' : starting = s \/ Stopping(s) \in Range(deferred')
    BY <1>0, <1>6, <1>7 DEF QueueInv
  <2> QED  BY <1>0, <2>1, <2>2 DEF QueueInv
<1> QED  BY <1>8, <1>10, <1>11, <1>12 DEF StreamInv

LEMMA StopHttpStreamInv ==
    ASSUME ClientInv, StreamInv, NEW s \in Streams, StopHttpStream(s)
    PROVE  ClientInv' /\ StreamInv'
<1> DEFINE K == {handle[s]}
<1>1. /\ K \in SUBSET DOMAIN records /\ records' = Without(records, handle[s])
      /\ Cancel({records[handle[s]]})
      /\ UNCHANGED <<otherHttp, streams, hostId, handle, home, known, starting, received,
                     mail, heard, closed>>
    BY DEF StopHttpStream
<1>2. {records[k] : k \in K} = {records[handle[s]]}
    OBVIOUS
<1>3. DOMAIN records' = DOMAIN records \ K /\ \A k \in DOMAIN records' : records'[k] = records[k]
    BY <1>1 DEF Without
<1>4. hostId \in 0..MaxReloads
    BY DEF StreamInv, HostInv
<1>5. Cancel({records[k] : k \in K})
    BY <1>1, <1>2
<1> HIDE DEF K
<1> QED  BY <1>1, <1>3, <1>4, <1>5, GiveUp

LEMMA ReplaceHostInv ==
    ASSUME ClientInv, StreamInv, ReplaceHost
    PROVE  ClientInv' /\ StreamInv'
<1>1. /\ Cancel({records[k] : k \in DOMAIN records}) /\ records' = <<>>
      /\ hostId < MaxReloads /\ hostId' = hostId + 1
      /\ UNCHANGED <<otherHttp, streams, handle, home, known, starting, received, mail,
                     heard, closed>>
    BY DEF ReplaceHost, OnRecord
<1>2. hostId' \in 0..MaxReloads
    BY <1>1, StreamAssumption DEF StreamInv, HostInv
<1>3. DOMAIN records' = {}
    BY <1>1
<1> QED  BY <1>1, <1>2, <1>3, GiveUp

LEMMA HandleEventInv ==
    ASSUME ClientInv, StreamInv, HandleEvent
    PROVE  ClientInv' /\ StreamInv'
<1> DEFINE event == Head(mail)
           k == event.slot
<1>0. HostInv /\ MailInv /\ QueueInv
    BY DEF StreamInv
<1>1. /\ mail # <<>> /\ mail' = Tail(mail)
      /\ UNCHANGED <<httpVars, hostId, handle, home, cancelled, known, starting, received>>
    BY DEF HandleEvent
<1>2. ClientInv'
  <2>1. deferred \in Seq(DeferredCall) /\ streams \subseteq Streams
    BY DEF ClientInv, ClientTyped
  <2> QED  BY <1>1, <2>1, Same, StreamsClient DEF httpVars
<1>3. mail \in Seq(Event)
    BY <1>0 DEF MailInv
<1>4. Tail(mail) \in Seq(Event) /\ Range(Tail(mail)) \subseteq Range(mail)
    BY <1>1, <1>3, TailRange
<1>5. MailInv'
    BY <1>0, <1>1, <1>4 DEF MailInv
<1>6. QueueInv'
    BY <1>0, <1>1 DEF QueueInv, httpVars
<1>7. HostInv'
  <2>1. CASE UNCHANGED <<records, heard, closed>>
    BY <1>0, <1>1, <2>1, HostSame
  <2>2. CASE Mine(event) /\ heard' = [heard EXCEPT ![records[k]] = @ + 1]
             /\ UNCHANGED <<records, closed>>
    <3>1. heard' \in [Streams -> Nat]
      BY <1>0, <2>2 DEF HostInv, Mine
    <3> QED  BY <1>0, <1>1, <2>2, <3>1 DEF HostInv, Accounted, Recorded
  <2>3. CASE Mine(event) /\ closed' = [closed EXCEPT ![records[k]] = @ + 1]
             /\ records' = Forget(k) /\ UNCHANGED heard
    <3>1. k \in DOMAIN records
      BY <2>3 DEF Mine
    <3>2. records' = Without(records, k) /\ closed' = [closed EXCEPT ![records[k]] = @ + 1]
      BY <2>3 DEF Forget
    <3> HIDE DEF k, event
    <3>3. /\ records[k] \in Streams /\ closed[records[k]] = 0 /\ handle[records[k]] = k
          /\ k # None
      BY <1>0, <3>1, StreamAssumption DEF HostInv
    <3>4. /\ closed' \in [Streams -> 0..1]
          /\ \A r \in Streams : r # records[k] => closed'[r] = closed[r]
      BY <1>0, <3>2, <3>3 DEF HostInv
    <3>5. /\ DOMAIN records' = DOMAIN records \ {k}
          /\ \A j \in DOMAIN records' : records'[j] = records[j]
      BY <3>2 DEF Without
    <3>6. IsFiniteSet(DOMAIN records')
      BY <1>0, <3>5, FS_Subset DEF HostInv
    <3>7. \A j \in DOMAIN records' : records[j] # records[k]
      BY <1>0, <3>3, <3>5 DEF HostInv
    <3>8. \A j \in DOMAIN records' :
              /\ records'[j] \in Streams
              /\ handle'[records'[j]] = j
              /\ home'[records'[j]] = hostId'
              /\ records'[j] \notin cancelled'
              /\ closed'[records'[j]] = 0
      BY <1>0, <1>1, <3>4, <3>5, <3>7 DEF HostInv
    <3>9. \A r \in Streams : handle'[r] = None => r \notin cancelled' /\ closed'[r] = 0
      BY <1>0, <1>1, <3>3, <3>4 DEF HostInv
    <3>10. ASSUME NEW r \in Streams, handle'[r] # None
           PROVE  Accounted(r)'
      <4>1. Accounted(r) /\ UNCHANGED <<hostId, handle, home, cancelled>>
        BY <1>0, <1>1, <3>10 DEF HostInv
      <4>2. CASE r = records[k]
        <5>1. closed'[r] = 1
          BY <1>0, <3>2, <3>3, <4>2 DEF HostInv
        <5> QED  BY <5>1 DEF Accounted
      <4>3. CASE r # records[k]
        <5>1. closed'[r] = closed[r]
          BY <3>4, <4>3
        <5>2. CASE Recorded(r)
          <6>1. handle[r] \in DOMAIN records' /\ records'[handle[r]] = r
            BY <3>5, <4>3, <5>2 DEF Recorded
          <6> QED  BY <4>1, <5>2, <6>1 DEF Accounted, Recorded
        <5> QED  BY <4>1, <5>1, <5>2 DEF Accounted
      <4> QED  BY <4>2, <4>3
    <3> QED  BY <1>0, <1>1, <2>3, <3>4, <3>5, <3>6, <3>8, <3>9, <3>10 DEF HostInv
  <2> QED  BY <2>1, <2>2, <2>3 DEF HandleEvent
<1> QED  BY <1>2, <1>5, <1>6, <1>7 DEF StreamInv

\* The head of the queue is not an answer.
LEMMA TakeDeferred ==
    ASSUME ClientInv, StreamInv, NEW what \in {"start", "cancel", "close"}, Deferred(what)
    PROVE  /\ deferred \in Seq(DeferredCall) /\ deferred # <<>> /\ starting = None
           /\ Tail(deferred) \in Seq(DeferredCall)
           /\ Head(deferred) = [do |-> what, for |-> Head(deferred).for]
           /\ Head(deferred).for \in Streams /\ handle[Head(deferred).for] # None
           /\ \A e : Kept(In(deferred, Answer(e)), In(Tail(deferred), Answer(e)))
           /\ Range(Tail(deferred)) \subseteq Range(deferred)
           /\ Range(deferred) \subseteq Range(Tail(deferred)) \cup {Head(deferred)}
<1>1. deferred # <<>> /\ Head(deferred).do = what /\ starting = None
    BY DEF Deferred
<1>2. deferred \in Seq(DeferredCall)
    BY DEF ClientInv, ClientTyped
<1>3. /\ Tail(deferred) \in Seq(DeferredCall) /\ Head(deferred) \in DeferredCall
      /\ Head(deferred) \in Range(deferred)
      /\ Range(Tail(deferred)) \subseteq Range(deferred)
      /\ Range(deferred) \subseteq Range(Tail(deferred)) \cup {Head(deferred)}
    BY <1>1, <1>2, TailRange
<1>4. /\ Head(deferred).for \in Streams
      /\ Head(deferred) = [do |-> what, for |-> Head(deferred).for]
    BY <1>1, <1>3 DEF DeferredCall
<1>5. handle[Head(deferred).for] # None
    BY <1>1, <1>3 DEF StreamInv, QueueInv
<1>6. \A e : Answer(e) # Head(deferred)
    BY <1>1 DEF Answer
<1>7. \A e : Kept(In(deferred, Answer(e)), In(Tail(deferred), Answer(e)))
    BY <1>1, <1>2, <1>6, TailIn
<1> QED  BY <1>1, <1>2, <1>3, <1>4, <1>5, <1>7

\* An event is of a stream that was started.
LEMMA Enqueued ==
    ASSUME StreamInv, NEW s \in Streams, handle[s] # None,
           Enqueue(s, TRUE) \/ Enqueue(s, FALSE), UNCHANGED <<handle, home>>
    PROVE  MailInv'
<1> DEFINE Put(e) == mail' = Append(mail, e)
           Of(b) == [host |-> home[s], slot |-> handle[s], closed |-> b, from |-> s]
<1>0. MailInv /\ handle[s] \in Slots /\ home[s] \in 0..MaxReloads
    BY DEF StreamInv, HostInv
<1>1. ASSUME NEW e \in Event, Put(e), e.from = s, e.host = home[s]
      PROVE  MailInv'
  <2>1. mail' \in Seq(Event) /\ Range(mail') = Range(mail) \cup {e}
    BY <1>0, <1>1, AppendRange DEF MailInv
  <2> QED  BY <1>0, <1>1, <2>1 DEF MailInv
<1>2. Of(TRUE) \in Event /\ Of(FALSE) \in Event
    BY <1>0 DEF Event
<1>3. CASE UNCHANGED mail
    BY <1>0, <1>3, MailSame
<1>4. CASE Put(Of(TRUE))
  <2>1. Of(TRUE).from = s /\ Of(TRUE).host = home[s]
    OBVIOUS
  <2> HIDE DEF Of, Put
  <2> QED  BY <1>1, <1>2, <1>4, <2>1
<1>5. CASE Put(Of(FALSE))
  <2>1. Of(FALSE).from = s /\ Of(FALSE).host = home[s]
    OBVIOUS
  <2> HIDE DEF Of, Put
  <2> QED  BY <1>1, <1>2, <1>5, <2>1
<1> QED  BY <1>3, <1>4, <1>5 DEF Enqueue

LEMMA StartStreamInv ==
    ASSUME ClientInv, StreamInv, StartStream
    PROVE  ClientInv' /\ StreamInv'
<1>0. HostInv /\ MailInv /\ QueueInv /\ streams \subseteq Streams
    BY DEF StreamInv, ClientInv, ClientTyped
<1>1. PICK s \in Streams :
          /\ s = Head(deferred).for /\ handle[s] # None
          /\ Head(deferred) = [do |-> "start", for |-> s]
    BY TakeDeferred DEF StartStream
<1>2. /\ deferred \in Seq(DeferredCall) /\ deferred # <<>> /\ starting = None
      /\ Tail(deferred) \in Seq(DeferredCall)
      /\ \A e : Kept(In(deferred, Answer(e)), In(Tail(deferred), Answer(e)))
      /\ Range(Tail(deferred)) \subseteq Range(deferred)
      /\ Range(deferred) \subseteq Range(Tail(deferred)) \cup {Head(deferred)}
    BY TakeDeferred DEF StartStream
<1>3. UNCHANGED <<otherHttp, hostId, records, handle, home, cancelled, received, mail,
                  heard, closed>>
    BY DEF StartStream
<1>4. HostInv' /\ MailInv'
    BY <1>0, <1>3, HostSame, MailSame
<1>5. \A r : Stopping(r) \in Range(deferred) => Stopping(r) \in Range(Tail(deferred))
    BY <1>1, <1>2 DEF Stopping
<1>6. CASE /\ deferred' = Tail(deferred)
           /\ UNCHANGED <<streams, known, starting>>
  <2>1. ClientInv'
    BY <1>0, <1>2, <1>3, <1>6, StreamsClient DEF otherHttp
  <2>2. QueueInv'
    BY <1>0, <1>2, <1>3, <1>5, <1>6 DEF QueueInv
  <2> QED  BY <1>4, <2>1, <2>2 DEF StreamInv
<1>7. CASE /\ deferred' = Append(Tail(deferred), [do |-> "close", for |-> s])
           /\ UNCHANGED <<streams, known, starting>>
  <2>1. [do |-> "close", for |-> s] \in DeferredCall
    BY DEF DeferredCall
  <2>0. PICK q \in Seq(DeferredCall) : q = Tail(deferred)
    BY <1>2
  <2>2. /\ deferred' \in Seq(DeferredCall)
        /\ Range(deferred') = Range(Tail(deferred)) \cup {[do |-> "close", for |-> s]}
    <3>1. PICK m \in DeferredCall : m = [do |-> "close", for |-> s]
      BY <2>1
    <3>2. deferred' = Append(q, m)
      BY <1>7, <2>0, <3>1
    <3> QED  BY <2>0, <3>1, <3>2, AppendRange, SMTT(30), ZenonT(40)
  <2>3. \A e \in Callers : Kept(In(deferred, Answer(e)), In(deferred', Answer(e)))
    <3>1. PICK m \in DeferredCall : m = [do |-> "close", for |-> s]
      BY <2>1
    <3>2. deferred' = Append(q, m)
      BY <1>7, <2>0, <3>1
    <3>3. \A e : Answer(e) # m
      BY <3>1 DEF Answer
    <3>4. \A e : In(deferred', Answer(e)) = In(Tail(deferred), Answer(e))
      <4> SUFFICES ASSUME NEW e
                   PROVE  In(deferred', Answer(e)) = In(Tail(deferred), Answer(e))
        OBVIOUS
      <4>1. m # Answer(e)
        BY <3>3
      <4>2. In(Append(q, m), Answer(e)) = In(q, Answer(e))
        BY <4>1, AppendIn
      <4> QED  BY <2>0, <3>2, <4>2
    <3> QED  BY <1>2, <3>4
  <2>4. ClientInv'
    BY <1>0, <1>3, <1>7, <2>2, <2>3, StreamsClient DEF otherHttp
  <2>5. QueueInv'
    BY <1>0, <1>1, <1>2, <1>3, <1>5, <1>7, <2>2 DEF QueueInv
  <2> QED  BY <1>4, <2>4, <2>5 DEF StreamInv
<1>8. CASE /\ s \notin cancelled
           /\ streams' = streams \cup {s} /\ known' = known \cup {s} /\ starting' = s
           /\ deferred' = Tail(deferred)
  <2>1. ClientInv'
    BY <1>0, <1>2, <1>3, <1>8, StreamsClient DEF otherHttp
  <2>2. \A r \in streams' \cap cancelled : r # s /\ r # None /\ r \in streams
    BY <1>0, <1>8, StreamAssumption
  <2>3. \A r \in streams' \cap cancelled : Stopping(r) \in Range(deferred')
    BY <1>0, <1>2, <1>5, <1>8, <2>2 DEF QueueInv
  <2>4. \A r \in known' : handle[r] # None
    BY <1>0, <1>1, <1>8 DEF QueueInv
  <2>5. \A m \in Range(deferred') : m.do # "answer" => handle[m.for] # None
    BY <1>0, <1>2, <1>8 DEF QueueInv
  <2>6. QueueInv'
    BY <1>0, <1>3, <1>8, <2>3, <2>4, <2>5 DEF QueueInv
  <2> QED  BY <1>4, <2>1, <2>6 DEF StreamInv
<1> QED  BY <1>1, <1>6, <1>7, <1>8 DEF StartStream

LEMMA StartedStreamInv ==
    ASSUME ClientInv, StreamInv, StartedStream
    PROVE  ClientInv' /\ StreamInv'
<1>0. HostInv /\ MailInv /\ QueueInv /\ streams \subseteq Streams
      /\ deferred \in Seq(DeferredCall)
    BY DEF StreamInv, ClientInv, ClientTyped
<1>1. /\ starting # None /\ starting' = None
      /\ \/ starting \in cancelled /\ streams' = streams \ {starting}
         \/ starting \notin cancelled /\ streams' = streams
      /\ UNCHANGED <<otherHttp, deferred, hostId, records, handle, home, cancelled, known,
                     received, mail, heard, closed>>
    BY DEF StartedStream, CancelStream
<1>2. HostInv' /\ MailInv'
    BY <1>0, <1>1, HostSame, MailSame
<1>3. ClientInv'
    BY <1>0, <1>1, Same, StreamsClient DEF otherHttp
<1>4. QueueInv'
    BY <1>0, <1>1 DEF QueueInv
<1> QED  BY <1>2, <1>3, <1>4 DEF StreamInv

LEMMA RunCancelInv ==
    ASSUME ClientInv, StreamInv, RunCancel
    PROVE  ClientInv' /\ StreamInv'
<1>0. HostInv /\ MailInv /\ QueueInv /\ streams \subseteq Streams
    BY DEF StreamInv, ClientInv, ClientTyped
<1>1. PICK s \in Streams : s = Head(deferred).for /\ Head(deferred) = Stopping(s)
    BY TakeDeferred DEF RunCancel, Stopping
<1>2. /\ Tail(deferred) \in Seq(DeferredCall)
      /\ \A e : Kept(In(deferred, Answer(e)), In(Tail(deferred), Answer(e)))
      /\ Range(Tail(deferred)) \subseteq Range(deferred)
      /\ Range(deferred) \subseteq Range(Tail(deferred)) \cup {Stopping(s)}
    BY <1>1, TakeDeferred DEF RunCancel
<1>3. /\ deferred' = Tail(deferred)
      /\ \/ s \in known /\ streams' = streams \ {s}
         \/ s \notin known /\ streams' = streams
      /\ UNCHANGED <<otherHttp, streamVars>>
    BY <1>1 DEF RunCancel, CancelStream
<1>4. HostInv' /\ MailInv'
    BY <1>0, <1>3, HostSame, MailSame DEF streamVars
<1>5. ClientInv'
    BY <1>0, <1>2, <1>3, StreamsClient DEF otherHttp
<1>6. \A r : r # s /\ Stopping(r) \in Range(deferred) => Stopping(r) \in Range(Tail(deferred))
  <2>1. \A r : r # s => Stopping(r) # Stopping(s)
    BY DEF Stopping
  <2> QED  BY <1>2, <2>1
<1>7. s \notin streams'
    BY <1>0, <1>3 DEF QueueInv
<1>8. QueueInv'
  <2>1. \A r \in streams' \cap cancelled : starting = r \/ Stopping(r) \in Range(deferred')
    BY <1>0, <1>3, <1>6, <1>7 DEF QueueInv
  <2> QED  BY <1>0, <1>2, <1>3, <2>1 DEF QueueInv, streamVars
<1> QED  BY <1>4, <1>5, <1>8 DEF StreamInv

LEMMA RunCloseInv ==
    ASSUME ClientInv, StreamInv, RunClose
    PROVE  ClientInv' /\ StreamInv'
<1>0. HostInv /\ MailInv /\ QueueInv /\ streams \subseteq Streams
    BY DEF StreamInv, ClientInv, ClientTyped
<1>1. PICK s \in Streams : /\ s = Head(deferred).for /\ handle[s] # None
                           /\ Head(deferred) = [do |-> "close", for |-> s]
    BY TakeDeferred DEF RunClose
<1>2. /\ Tail(deferred) \in Seq(DeferredCall)
      /\ \A e : Kept(In(deferred, Answer(e)), In(Tail(deferred), Answer(e)))
      /\ Range(Tail(deferred)) \subseteq Range(deferred)
      /\ Range(deferred) \subseteq Range(Tail(deferred)) \cup {Head(deferred)}
    BY TakeDeferred DEF RunClose
<1>3. /\ deferred' = Tail(deferred) /\ Enqueue(s, TRUE)
      /\ UNCHANGED <<otherHttp, streams, hostId, records, handle, home, cancelled, known,
                     starting, received, heard, closed>>
    BY <1>1 DEF RunClose
<1>4. HostInv' /\ MailInv'
    BY <1>0, <1>1, <1>3, HostSame, Enqueued
<1>5. ClientInv'
    BY <1>0, <1>2, <1>3, StreamsClient DEF otherHttp
<1>6. \A r : Stopping(r) \in Range(deferred) => Stopping(r) \in Range(Tail(deferred))
    BY <1>1, <1>2 DEF Stopping
<1>7. QueueInv'
    BY <1>0, <1>2, <1>3, <1>6 DEF QueueInv
<1> QED  BY <1>4, <1>5, <1>7 DEF StreamInv

LEMMA ReceiveLineInv ==
    ASSUME ClientInv, StreamInv, NEW s \in Streams, ReceiveLine(s)
    PROVE  ClientInv' /\ StreamInv'
<1>0. HostInv /\ MailInv /\ QueueInv /\ streams \subseteq Streams
      /\ deferred \in Seq(DeferredCall)
    BY DEF StreamInv, ClientInv, ClientTyped
<1>1. /\ s \in streams /\ received < MaxLines /\ received' = received + 1
      /\ Enqueue(s, FALSE)
      /\ UNCHANGED <<httpVars, hostId, records, handle, home, cancelled, known, starting,
                     heard, closed>>
    BY DEF ReceiveLine
<1>2. handle[s] # None
    BY <1>0, <1>1 DEF QueueInv
<1>3. HostInv' /\ MailInv'
    BY <1>0, <1>1, <1>2, HostSame, Enqueued
<1>4. ClientInv'
    BY <1>0, <1>1, Same, StreamsClient DEF httpVars
<1>5. received' \in 0..MaxLines
    BY <1>0, <1>1, StreamAssumption DEF QueueInv
<1>6. QueueInv'
    BY <1>0, <1>1, <1>5 DEF QueueInv, httpVars
<1> QED  BY <1>3, <1>4, <1>6 DEF StreamInv

LEMMA FinishStreamInv ==
    ASSUME ClientInv, StreamInv, NEW s \in Streams, FinishStream(s)
    PROVE  ClientInv' /\ StreamInv'
<1>0. HostInv /\ MailInv /\ QueueInv /\ streams \subseteq Streams
      /\ deferred \in Seq(DeferredCall)
    BY DEF StreamInv, ClientInv, ClientTyped
<1>1. /\ s \in streams /\ streams' = streams \ {s} /\ Enqueue(s, TRUE)
      /\ UNCHANGED <<otherHttp, deferred, hostId, records, handle, home, cancelled, known,
                     starting, received, heard, closed>>
    BY DEF FinishStream
<1>2. handle[s] # None
    BY <1>0, <1>1 DEF QueueInv
<1>3. HostInv' /\ MailInv'
    BY <1>0, <1>1, <1>2, HostSame, Enqueued
<1>4. ClientInv'
    BY <1>0, <1>1, Same, StreamsClient DEF otherHttp
<1>5. QueueInv'
    BY <1>0, <1>1 DEF QueueInv
<1> QED  BY <1>3, <1>4, <1>5 DEF StreamInv

-----------------------------------------------------------------------------
(* The theorems. *)

Inv == ClientInv /\ StreamInv

LEMMA InitInv == Init => Inv
<1> SUFFICES ASSUME Init PROVE Inv
    OBVIOUS
<1>1. HttpInit
    BY DEF Init
<1>2. ClientTyped /\ Writers
  <2>1. \A c \in Callers : index[c] = 0 /\ 0 <= Tries(c)
    BY <1>1, TriesType DEF HttpInit
  <2>2. /\ index \in [Callers -> Nat] /\ answers \in [Callers -> Nat]
        /\ activeByDest \in [Files -> Handles \cup {None}]
        /\ transfers = <<>> /\ calling = <<>> /\ deferred = <<>> /\ streams = {}
    BY <1>1 DEF HttpInit
  <2>3. DOMAIN transfers = {}
    BY <2>2
  <2>4. calling \in Seq(Callers \X BOOLEAN) /\ deferred \in Seq(DeferredCall)
    BY <2>2
  <2> QED  BY <2>1, <2>2, <2>3, <2>4 DEF ClientTyped, Writers
<1>3. ASSUME NEW c \in Callers
      PROVE  WaitsOnce(c)
  <2>1. transfers = <<>> /\ calling = <<>> /\ deferred = <<>> /\ index[c] = 0 /\ answers[c] = 0
    BY <1>1 DEF HttpInit
  <2>2. Held(transfers, c) = {}
    BY <2>1, HeldMember
  <2>3. Called(calling, c) = {} /\ In(deferred, Answer(c)) = {}
    BY <2>1 DEF Called, In
  <2> QED  BY <2>1, <2>2, <2>3 DEF WaitsOnce, Nowhere
<1>4. HostInv
  <2>1. DOMAIN records = {} /\ IsFiniteSet({})
    BY FS_EmptySet DEF Init
  <2>2. 0 \in 0..MaxReloads
    BY StreamAssumption
  <2> QED  BY <2>1, <2>2 DEF Init, HostInv
<1>5. MailInv
  <2>1. mail = <<>> /\ Range(<<>>) = {}
    BY DEF Init, Range
  <2> QED  BY <2>1 DEF MailInv
<1>6. QueueInv
  <2>1. deferred = <<>> /\ streams = {} /\ Range(<<>>) = {}
    BY <1>1 DEF HttpInit, Range
  <2>2. 0 \in 0..MaxLines
    BY StreamAssumption
  <2> QED  BY <2>1, <2>2 DEF QueueInv, Init
<1> QED  BY <1>2, <1>3, <1>4, <1>5, <1>6 DEF Inv, ClientInv, StreamInv

LEMMA NextInv == Inv /\ [Next]_vars => Inv'
<1> SUFFICES ASSUME ClientInv, StreamInv, [Next]_vars PROVE ClientInv' /\ StreamInv'
    BY DEF Inv
<1>1. CASE UNCHANGED vars
  <2>1. HostInv' /\ MailInv' /\ QueueInv'
    BY <1>1, HostSame, MailSame DEF vars, httpVars, streamVars, StreamInv, QueueInv
  <2>2. ClientInv'
    <3>1. deferred \in Seq(DeferredCall) /\ streams \subseteq Streams
      BY DEF ClientInv, ClientTyped
    <3> QED  BY <1>1, <3>1, Same, StreamsClient DEF vars, httpVars
  <2> QED  BY <2>1, <2>2 DEF StreamInv
<1>2. CASE Client
    BY <1>2, ClientStreams
<1>3. CASE Main
    BY <1>3, StartStreamInv, StartedStreamInv, RunCancelInv, RunCloseInv, ReceiveLineInv,
       FinishStreamInv DEF Main
<1>4. CASE Script
    BY <1>4, StartHttpStreamInv, StopHttpStreamInv, ReplaceHostInv, HandleEventInv DEF Script
<1> QED  BY <1>1, <1>2, <1>3, <1>4 DEF Next

\* Where every caller waits and what every stream has come to, at all times
\* (http_client.cpp, luau_host.cpp:2420-2580).
THEOREM HttpInvariant == Spec => []Inv
BY InitInv, NextInv, PTL DEF Spec

LEMMA CardOne == \A S : (S = {} => Cardinality(S) = 0) /\ (One(S) => Cardinality(S) = 1)
BY FS_EmptySet, FS_Singleton DEF One

\* The invariant says what TransfersAgree says.
LEMMA InvAgrees == Inv => TransfersAgree
<1> SUFFICES ASSUME Inv PROVE TransfersAgree
    OBVIOUS
<1>0. ClientTyped /\ Writers /\ HostInv /\ MailInv /\ QueueInv /\ \A c \in Callers : WaitsOnce(c)
    BY DEF Inv, ClientInv, StreamInv
<1>1. OneWriterPerFile
    BY <1>0 DEF OneWriterPerFile, Writers
<1>2. CallersAreKept
  <2> SUFFICES ASSUME NEW c \in Callers
               PROVE  Pending(c) + answers[c] = IF index[c] = 0 THEN 0 ELSE 1
    BY DEF CallersAreKept
  <2>1. Pending(c) = Cardinality(Held(transfers, c)) + Cardinality(Called(calling, c))
                     + Cardinality(In(deferred, Answer(c)))
    BY DEF Pending, Held, Called, In, Answer
  <2>2. Nowhere(transfers, calling, deferred, c) => Pending(c) = 0
    BY <2>1, CardOne DEF Nowhere
  <2>3. OnePlace(transfers, calling, deferred, c) => Pending(c) = 1
    BY <2>1, CardOne DEF OnePlace
  <2> QED  BY <1>0, <2>2, <2>3 DEF WaitsOnce
<1>3. NoOrphanStream
  <2> SUFFICES ASSUME NEW s \in streams
               PROVE  IF s \in cancelled
                      THEN starting = s \/ Contains(deferred, Stopping(s))
                      ELSE Recorded(s) \/ closed[s] > 0
    BY DEF NoOrphanStream, Stopping
  <2>1. CASE s \in cancelled /\ starting # s
    <3>1. Stopping(s) \in Range(deferred)
      BY <1>0, <2>1 DEF QueueInv
    <3>2. DOMAIN deferred = 1..Len(deferred)
      BY <1>0 DEF ClientTyped
    <3> QED  BY <2>1, <3>1, <3>2 DEF Range, Contains
  <2>2. CASE s \notin cancelled
    <3>1. s \in Streams /\ handle[s] # None
      BY <1>0 DEF QueueInv
    <3>2. Recorded(s) \/ closed[s] = 1
      BY <1>0, <2>2, <3>1 DEF HostInv, Accounted
    <3> QED  BY <2>2, <3>2
  <2> QED  BY <2>1, <2>2
<1>4. ClosedAtMostOnce
    BY <1>0 DEF ClosedAtMostOnce, HostInv
<1>5. HttpTypeOK
  <2>1. \A c \in Callers : index[c] \in 0..Tries(c)
    BY <1>0, TriesType DEF ClientTyped
  <2>2. \A i \in DOMAIN calling : calling[i] \in Callers \X BOOLEAN
    BY <1>0 DEF ClientTyped
  <2> QED  BY <1>0, <2>1, <2>2 DEF ClientTyped, HttpTypeOK
<1>6. TypeOK
  <2>1. \A i \in DOMAIN mail : mail[i] \in Event
    BY <1>0 DEF MailInv
  <2>2. \A i \in DOMAIN mail : /\ mail[i].host \in 0..MaxReloads
                               /\ mail[i].slot \in Slots
                               /\ mail[i].closed \in BOOLEAN
                               /\ mail[i].from \in Streams
    BY <2>1 DEF Event
  <2> QED  BY <1>0, <1>5, <2>2 DEF TypeOK, HostInv, QueueInv
<1> QED  BY <1>1, <1>2, <1>3, <1>4, <1>6 DEF TransfersAgree

\* No two transfers write one file, everybody who asks waits in one place
\* until he is answered and is answered once, a stopped stream is being
\* cancelled, any other open one is on record with its host, unless the close
\* of another was taken for its own, and no stream is closed twice (http_client.h:58-69,
\* http_client.cpp:155-163, luau_host.cpp:2487-2573).
THEOREM TransfersAlwaysAgree == Spec => []TransfersAgree
BY HttpInvariant, InvAgrees, PTL

\* A stopped stream is silent, whatever was on its way, and a later host's
\* streams hear nothing of an earlier host's (script_runtime.cpp:668-690).
THEOREM StoppedIsSilent == Spec => StopIsSilent
<1> DEFINE Silent == \A s \in Streams :
               heard'[s] # heard[s] \/ closed'[s] # closed[s]
                   => s \notin cancelled /\ home[Head(mail).from] = home[s]
<1>1. Inv /\ [Next]_vars => [Silent]_vars
  <2> SUFFICES ASSUME Inv, Next, NEW s \in Streams,
                      heard'[s] # heard[s] \/ closed'[s] # closed[s]
               PROVE  s \notin cancelled /\ home[Head(mail).from] = home[s]
    OBVIOUS
  <2>0. HostInv /\ MailInv
    BY DEF Inv, StreamInv
  <2>1. HandleEvent
    BY DEF Next, Client, Main, Script, StartStream, StartedStream, RunCancel, RunClose,
           ReceiveLine, FinishStream, StartHttpStream, StopHttpStream, ReplaceHost, streamVars
  <2> DEFINE event == Head(mail)
             k == event.slot
  <2>2. /\ Mine(event)
        /\ \/ heard' = [heard EXCEPT ![records[k]] = @ + 1] /\ UNCHANGED closed
           \/ closed' = [closed EXCEPT ![records[k]] = @ + 1] /\ UNCHANGED heard
    BY <2>1 DEF HandleEvent
  <2>3. k \in DOMAIN records /\ event.host = hostId
    BY <2>2 DEF Mine
  <2>4. s = records[k]
    BY <2>0, <2>2, <2>3 DEF HostInv
  <2>5. event \in Range(mail)
    BY <2>0, <2>1, TailRange DEF MailInv, HandleEvent
  <2>6. event.host = home[event.from]
    BY <2>0, <2>5 DEF MailInv
  <2> HIDE DEF event, k
  <2>7. s \notin cancelled /\ home[s] = hostId
    BY <2>0, <2>3, <2>4 DEF HostInv
  <2> QED  BY <2>3, <2>6, <2>7 DEF event
<1>2. Inv /\ [Next]_vars => [Silent]_vars
    BY <1>1
<1> QED  BY <1>2, HttpInvariant, PTL DEF Spec, StopIsSilent
=============================================================================
