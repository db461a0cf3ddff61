--------------------- MODULE NotificationManager_proofs ---------------------
(***************************************************************************)
(* The notifications and their history, for any number of ids, any bound of *)
(* the history and any configurations.                                      *)
(***************************************************************************)
EXTENDS NotificationManager, FiniteSetTheorems, SequenceTheorems, WellFoundedInduction, TLAPS

-----------------------------------------------------------------------------
(* Numbers. *)

LEMMA Smallest ==
    ASSUME NEW S \in SUBSET Nat, S # {}
    PROVE  \E m \in S : \A y \in S : m <= y
<1> DEFINE R == OpToRel(<, Nat)
<1>1. \A x, y \in Nat : x < y => <<x, y>> \in R
    BY Z3 DEF OpToRel
<1>2. IsWellFoundedOn(R, Nat)
    BY NatLessThanWellFounded
<1> HIDE DEF R
<1>3. PICK m \in S : \A y \in S : ~(<<y, m>> \in R)
    BY <1>2, WFMin
<1>4. \A y \in S : ~(y < m)
    BY <1>1, <1>3
<1> QED  BY <1>3, <1>4

LEMMA Induction ==
    ASSUME NEW S, 0 \in S, \A n \in Nat : n \in S => n + 1 \in S
    PROVE  Nat \subseteq S
<1> SUFFICES ASSUME Nat \ S # {} PROVE FALSE
    OBVIOUS
<1>1. PICK m \in Nat \ S : \A y \in Nat \ S : m <= y
    BY Smallest
<1>2. m - 1 \in Nat /\ m - 1 \in S
    BY <1>1
<1> QED  BY <1>1, <1>2

-----------------------------------------------------------------------------
(* Sequences. *)

LEMMA RangeType ==
    ASSUME NEW S, NEW q \in Seq(S)
    PROVE  Range(q) \subseteq S
<1> SUFFICES ASSUME NEW i \in DOMAIN q
             PROVE  q[i] \in S
    BY DEF Range
<1> QED  OBVIOUS

LEMMA AppendRange ==
    ASSUME NEW S, NEW q \in Seq(S), NEW x \in S
    PROVE  Append(q, x) \in Seq(S) /\ Range(Append(q, x)) = Range(q) \cup {x}
<1>1. /\ Append(q, x) \in Seq(S) /\ Len(q) \in Nat
      /\ DOMAIN Append(q, x) = 1..Len(q) + 1 /\ DOMAIN q = 1..Len(q)
      /\ \A i \in 1..Len(q) : Append(q, x)[i] = q[i]
      /\ Append(q, x)[Len(q) + 1] = x
    BY AppendProperties
<1>2. \A e : e \in Range(Append(q, x)) <=> e \in Range(q) \cup {x}
    BY <1>1 DEF Range
<1> QED  BY <1>1, <1>2

\* What erasing leaves of the first n entries.
Kept(k, h, gone, n) ==
    k = [i \in 0..n |-> IF i = 0 THEN <<>>
                        ELSE IF h[i].id \in gone THEN k[i - 1]
                        ELSE Append(k[i - 1], h[i])]

LEMMA KeptAt ==
    ASSUME NEW k, NEW h, NEW gone, NEW n \in Nat, Kept(k, h, gone, n)
    PROVE  /\ k[0] = <<>>
           /\ \A i \in 1..n : k[i] = IF h[i].id \in gone THEN k[i - 1]
                                    ELSE Append(k[i - 1], h[i])
<1> DEFINE Body(i) == IF i = 0 THEN <<>>
                      ELSE IF h[i].id \in gone THEN k[i - 1]
                      ELSE Append(k[i - 1], h[i])
           f == [i \in 0..n |-> Body(i)]
<1>1. k = f
    BY DEF Kept
<1>2. \A i \in 1..n : Body(i) = IF h[i].id \in gone THEN k[i - 1] ELSE Append(k[i - 1], h[i])
    OBVIOUS
<1>3. Body(0) = <<>>
    OBVIOUS
<1> HIDE DEF Body
<1>4. \A i \in 0..n : f[i] = Body(i)
    OBVIOUS
<1> HIDE DEF f
<1>5. \A i \in 0..n : k[i] = Body(i)
    BY <1>1, <1>4
<1>6. k[0] = <<>>
    BY <1>3, <1>5
<1>7. \A i \in 1..n : k[i] = Body(i)
    BY <1>5
<1> QED  BY <1>2, <1>6, <1>7

\* The recursion of Without has a solution.
LEMMA KeptExists ==
    ASSUME NEW h, NEW gone
    PROVE  \A n \in Nat : \E k : Kept(k, h, gone, n)
<1> DEFINE S == {n \in Nat : \E k : Kept(k, h, gone, n)}
<1>1. 0 \in S
  <2> DEFINE k == [i \in 0..0 |-> <<>>]
  <2>1. k = [i \in 0..0 |-> IF i = 0 THEN <<>>
                            ELSE IF h[i].id \in gone THEN k[i - 1]
                            ELSE Append(k[i - 1], h[i])]
    OBVIOUS
  <2>2. Kept(k, h, gone, 0)
    BY <2>1 DEF Kept
  <2> QED  BY <2>2
<1>2. ASSUME NEW n \in Nat, n \in S
      PROVE  n + 1 \in S
  <2>1. PICK k : Kept(k, h, gone, n)
    BY <1>2
  <2>2. /\ k[0] = <<>>
        /\ \A i \in 1..n : k[i] = IF h[i].id \in gone THEN k[i - 1] ELSE Append(k[i - 1], h[i])
    BY <2>1, KeptAt
  <2> DEFINE last == IF h[n + 1].id \in gone THEN k[n] ELSE Append(k[n], h[n + 1])
             m == [i \in 0..(n + 1) |-> IF i = n + 1 THEN last ELSE k[i]]
  <2>3. m[n + 1] = last /\ \A i \in 0..n : m[i] = k[i]
    OBVIOUS
  <2>4. \A i \in 0..(n + 1) :
            m[i] = IF i = 0 THEN <<>>
                   ELSE IF h[i].id \in gone THEN m[i - 1]
                   ELSE Append(m[i - 1], h[i])
    <3> SUFFICES ASSUME NEW i \in 0..(n + 1)
                 PROVE  m[i] = IF i = 0 THEN <<>>
                               ELSE IF h[i].id \in gone THEN m[i - 1]
                               ELSE Append(m[i - 1], h[i])
      OBVIOUS
    <3>1. CASE i = 0
      BY <2>2, <2>3, <3>1
    <3>2. CASE i \in 1..n
      BY <2>2, <2>3, <3>2
    <3>3. CASE i = n + 1
      BY <2>3, <3>3
    <3> HIDE DEF m
    <3> QED  BY <3>1, <3>2, <3>3
  <2>5. m = [i \in 0..(n + 1) |-> IF i = 0 THEN <<>>
                                  ELSE IF h[i].id \in gone THEN m[i - 1]
                                  ELSE Append(m[i - 1], h[i])]
    <3>1. m = [i \in 0..(n + 1) |-> m[i]]
      OBVIOUS
    <3> HIDE DEF m
    <3> QED  BY <2>4, <3>1
  <2> HIDE DEF m
  <2>6. Kept(m, h, gone, n + 1)
    BY <2>5 DEF Kept
  <2> QED  BY <2>6
<1> HIDE DEF S
<1>3. Nat \subseteq S
    BY <1>1, <1>2, Induction
<1> QED  BY <1>3 DEF S

Erases(k, h, gone) ==
    /\ Without(h, gone) = k[Len(h)]
    /\ k[0] = <<>>
    /\ \A i \in 1..Len(h) :
           k[i] = IF h[i].id \in gone THEN k[i - 1] ELSE Append(k[i - 1], h[i])

LEMMA WithoutIs ==
    ASSUME NEW h, NEW gone, Len(h) \in Nat
    PROVE  \E k : Erases(k, h, gone)
<1> DEFINE k == CHOOSE k : k = [n \in 0..Len(h) |->
                   IF n = 0 THEN <<>>
                   ELSE IF h[n].id \in gone THEN k[n - 1]
                   ELSE Append(k[n - 1], h[n])]
<1>1. PICK j : Kept(j, h, gone, Len(h))
    BY KeptExists
<1>2. k = CHOOSE m : Kept(m, h, gone, Len(h))
    BY Zenon DEF Kept
<1>3. Without(h, gone) = k[Len(h)]
    BY DEF Without
<1> HIDE DEF k
<1>4. Kept(k, h, gone, Len(h))
    BY <1>1, <1>2
<1> QED  BY <1>3, <1>4, KeptAt DEF Erases

Unique(h) == \A i, j \in DOMAIN h : h[i].id = h[j].id => i = j

LEMMA UniqueAppend ==
    ASSUME NEW S, NEW q \in Seq(S), NEW x \in S, Unique(q), \A e \in Range(q) : e.id # x.id
    PROVE  Unique(Append(q, x))
<1>1. /\ Len(q) \in Nat
      /\ DOMAIN Append(q, x) = 1..Len(q) + 1 /\ DOMAIN q = 1..Len(q)
      /\ \A i \in 1..Len(q) : Append(q, x)[i] = q[i]
      /\ Append(q, x)[Len(q) + 1] = x
    BY AppendProperties
<1>2. \A i \in 1..Len(q) : q[i].id # x.id
    BY <1>1 DEF Range
<1> DEFINE a == Append(q, x)
<1>3. ASSUME NEW i \in DOMAIN a, NEW j \in DOMAIN a, a[i].id = a[j].id
      PROVE  i = j
  <2>1. CASE i \in 1..Len(q) /\ j \in 1..Len(q)
    <3>1. q[i].id = q[j].id
      BY <1>1, <1>3, <2>1
    <3> QED  BY <1>1, <2>1, <3>1 DEF Unique
  <2>2. CASE i = Len(q) + 1 /\ j \in 1..Len(q)
    BY <1>1, <1>2, <1>3, <2>2
  <2>3. CASE j = Len(q) + 1 /\ i \in 1..Len(q)
    BY <1>1, <1>2, <1>3, <2>3
  <2>4. CASE i = Len(q) + 1 /\ j = Len(q) + 1
    BY <2>4
  <2> QED  BY <1>1, <2>1, <2>2, <2>3, <2>4
<1> QED  BY <1>3 DEF Unique

LEMMA UniqueTail ==
    ASSUME NEW S, NEW q \in Seq(S), q # <<>>, Unique(q)
    PROVE  /\ Unique(Tail(q)) /\ Tail(q) \in Seq(S) /\ Len(Tail(q)) = Len(q) - 1
           /\ Head(q) \in Range(q) /\ Head(q) \in S
           /\ \A e : e \in Range(Tail(q)) <=> e \in Range(q) /\ e.id # Head(q).id
<1>1. /\ Tail(q) \in Seq(S) /\ Len(Tail(q)) = Len(q) - 1 /\ Head(q) \in S
      /\ \A i \in 1 .. Len(Tail(q)) : Tail(q)[i] = q[i+1]
      /\ q[1] = Head(q) /\ Len(q) \in Nat \ {0} /\ DOMAIN q = 1..Len(q)
      /\ DOMAIN Tail(q) = 1..Len(q) - 1
    BY HeadTailProperties
<1>2. Unique(Tail(q))
  <2> SUFFICES ASSUME NEW i \in DOMAIN Tail(q), NEW j \in DOMAIN Tail(q),
                      Tail(q)[i].id = Tail(q)[j].id
               PROVE  i = j
    BY DEF Unique
  <2>1. q[i + 1].id = q[j + 1].id /\ i + 1 \in DOMAIN q /\ j + 1 \in DOMAIN q
    BY <1>1
  <2>2. i + 1 = j + 1
    BY <2>1 DEF Unique
  <2> QED  BY <1>1, <2>2
<1>3. ASSUME NEW e, e \in Range(Tail(q))
      PROVE  e \in Range(q) /\ e.id # Head(q).id
  <2>1. PICK i \in DOMAIN Tail(q) : e = Tail(q)[i]
    BY <1>3 DEF Range
  <2>2. e = q[i + 1] /\ i + 1 \in DOMAIN q /\ 1 \in DOMAIN q /\ i + 1 # 1
    BY <1>1, <2>1
  <2>3. q[i + 1].id # q[1].id
    BY <2>2 DEF Unique
  <2> QED  BY <1>1, <2>2, <2>3 DEF Range
<1>4. ASSUME NEW e, e \in Range(q), e.id # Head(q).id
      PROVE  e \in Range(Tail(q))
  <2>1. PICK i \in DOMAIN q : e = q[i]
    BY <1>4 DEF Range
  <2>2. i # 1
    BY <1>1, <1>4, <2>1
  <2>3. i - 1 \in DOMAIN Tail(q) /\ Tail(q)[i - 1] = e
    BY <1>1, <2>1, <2>2
  <2> QED  BY <2>3 DEF Range
<1>5. Head(q) \in Range(q)
    BY <1>1 DEF Range
<1> QED  BY <1>1, <1>2, <1>3, <1>4, <1>5

\* What erasing leaves.
LEMMA WithoutLeaves ==
    ASSUME NEW S, NEW h \in Seq(S), NEW gone
    PROVE  /\ Without(h, gone) \in Seq(S)
           /\ Len(Without(h, gone)) <= Len(h)
           /\ \A e : e \in Range(Without(h, gone)) <=> e \in Range(h) /\ e.id \notin gone
           /\ Unique(h) => Unique(Without(h, gone))
<1>0. Len(h) \in Nat /\ DOMAIN h = 1..Len(h) /\ \A i \in 1..Len(h) : h[i] \in S
    OBVIOUS
<1>a. PICK k : Erases(k, h, gone)
  <2>1. Len(h) \in Nat
    OBVIOUS
  <2> QED  BY <2>1, WithoutIs
<1>1. /\ Without(h, gone) = k[Len(h)]
      /\ k[0] = <<>>
      /\ \A i \in 1..Len(h) :
             k[i] = IF h[i].id \in gone THEN k[i - 1] ELSE Append(k[i - 1], h[i])
    BY <1>a DEF Erases
<1> DEFINE Q(n) == /\ k[n] \in Seq(S)
                   /\ Len(k[n]) <= n
                   /\ \A e : e \in Range(k[n]) <=>
                               \E i \in 1..n : e = h[i] /\ h[i].id \notin gone
                   /\ Unique(h) => Unique(k[n])
           T == {n \in Nat : n <= Len(h) => Q(n)}
<1>2. 0 \in T
  <2>1. k[0] \in Seq(S) /\ Len(k[0]) = 0 /\ Range(k[0]) = {} /\ Unique(k[0])
    BY <1>1 DEF Range, Unique
  <2> QED  BY <2>1
<1>3. ASSUME NEW n \in Nat, n \in T
      PROVE  n + 1 \in T
  <2> SUFFICES ASSUME n + 1 <= Len(h) PROVE Q(n + 1)
    OBVIOUS
  <2>0. n + 1 \in 1..Len(h) /\ n <= Len(h) /\ h[n + 1] \in S
    BY <1>0
  <2>1. Q(n)
    BY <1>3, <2>0
  <2>2. k[n + 1] = IF h[n + 1].id \in gone THEN k[n] ELSE Append(k[n], h[n + 1])
    BY <1>1, <2>0
  <2>3. CASE h[n + 1].id \in gone
    <3>1. k[n + 1] = k[n]
      BY <2>2, <2>3
    <3>2. \A e : (\E i \in 1..n + 1 : e = h[i] /\ h[i].id \notin gone)
                   <=> (\E i \in 1..n : e = h[i] /\ h[i].id \notin gone)
      BY <2>3
    <3>3. Len(k[n + 1]) <= n + 1
      BY <2>1, <3>1
    <3> QED  BY <2>1, <3>1, <3>2, <3>3
  <2>4. CASE h[n + 1].id \notin gone
    <3>1. k[n + 1] = Append(k[n], h[n + 1])
      BY <2>2, <2>4
    <3>2. /\ k[n + 1] \in Seq(S) /\ Len(k[n + 1]) <= n + 1
          /\ Range(k[n + 1]) = Range(k[n]) \cup {h[n + 1]}
      BY <2>0, <2>1, <3>1, AppendRange, AppendProperties
    <3>3. \A e : (\E i \in 1..n + 1 : e = h[i] /\ h[i].id \notin gone)
                   <=> (\E i \in 1..n : e = h[i] /\ h[i].id \notin gone) \/ e = h[n + 1]
      BY <2>4
    <3>4. ASSUME Unique(h) PROVE Unique(k[n + 1])
      <4>1. \A e \in Range(k[n]) : e.id # h[n + 1].id
        <5> SUFFICES ASSUME NEW e \in Range(k[n]) PROVE e.id # h[n + 1].id
          OBVIOUS
        <5>1. PICK i \in 1..n : e = h[i]
          BY <2>1
        <5>2. i \in DOMAIN h /\ n + 1 \in DOMAIN h /\ i # n + 1
          BY <1>0, <2>0
        <5> QED  BY <3>4, <5>1, <5>2 DEF Unique
      <4> QED  BY <2>0, <2>1, <3>1, <3>4, <4>1, UniqueAppend
    <3>5. \A e : e \in Range(k[n + 1]) <=> \E i \in 1..n + 1 : e = h[i] /\ h[i].id \notin gone
      BY <2>1, <3>2, <3>3
    <3> QED  BY <3>2, <3>4, <3>5
  <2> QED  BY <2>3, <2>4
<1>4. Len(h) \in T
  <2> HIDE DEF T
  <2> QED  BY <1>0, <1>2, <1>3, Induction
<1>5. Q(Len(h))
    BY <1>0, <1>4
<1>6. \A e : e \in Range(h) /\ e.id \notin gone
               <=> \E i \in 1..Len(h) : e = h[i] /\ h[i].id \notin gone
    BY <1>0 DEF Range
<1> QED  BY <1>1, <1>5, <1>6

-----------------------------------------------------------------------------
(* The book. *)

Books == [history : Seq(HistoryEntry), pending : SUBSET Ids, told : [Ids -> Nat],
          save : BOOLEAN, refresh : BOOLEAN]

\* A history in order: its bound, one entry per id, ids below n, and those of
\* what is on screen active.
InOrder(h, on, n) ==
    /\ h \in Seq(HistoryEntry) /\ Len(h) <= MaxHistory /\ Unique(h)
    /\ \A e \in Range(h) : e.id < n /\ (e.id \in on => e.active)

\* The close signals: owed for what was given out and is not on screen, and
\* sent, once, for the others that are not.
Owes(b, on, given) ==
    /\ b.pending \subseteq given /\ b.pending \cap on = {}
    /\ \A id \in Ids :
           b.told[id] = IF id \in given /\ id \notin on /\ id \notin b.pending THEN 1 ELSE 0

\* The book with the notifications of on on the screen, those of given handed
\* out in this session, n the next id and d the file.
BookInv(b, on, given, n, d) ==
    /\ b \in Books
    /\ InOrder(b.history, on, n)
    /\ Owes(b, on, given)
    /\ b.save \/ d.behind \/ d.history = b.history

\* What leaves the history is not pending any more.
Leaves(b, c) ==
    /\ c.pending \subseteq b.pending
    /\ \A id : InHistory(b, id) /\ ~InHistory(c, id) => id \notin c.pending

LEMMA InHistoryIs ==
    ASSUME NEW b, NEW id
    PROVE  InHistory(b, id) <=> \E e \in Range(b.history) : e.id = id
BY DEF InHistory, Place, Range

LEMMA UnreadIs ==
    ASSUME NEW b
    PROVE  Unread(b) <=> \E e \in Range(b.history) : ~e.seen
BY DEF Unread, Range

LEMMA LeavesTwice ==
    ASSUME NEW b, NEW c, NEW d, Leaves(b, c), Leaves(c, d)
    PROVE  Leaves(b, d)
BY DEF Leaves

LEMMA WithHistoryInv ==
    ASSUME NEW on, NEW given, NEW n, NEW d,
           NEW b, BookInv(b, on, given, n, d), NEW h, InOrder(h, on, n)
    PROVE  /\ BookInv(WithHistory(b, h), on, given, n, d)
           /\ WithHistory(b, h).history = h
           /\ WithHistory(b, h).pending = b.pending
           /\ WithHistory(b, h).refresh = b.refresh
<1>1. b \in Books /\ h \in Seq(HistoryEntry)
    BY DEF BookInv, InOrder
<1> DEFINE c == WithHistory(b, h)
<1>2. /\ c \in Books /\ c.history = h /\ c.save = TRUE /\ c.pending = b.pending
      /\ c.told = b.told /\ c.refresh = b.refresh
    BY <1>1 DEF WithHistory, Books
<1> HIDE DEF c
<1>3. Owes(c, on, given)
    BY <1>2 DEF BookInv, Owes
<1>4. BookInv(c, on, given, n, d)
    BY <1>2, <1>3 DEF BookInv
<1> QED  BY <1>2, <1>4 DEF c

LEMMA RefreshedInv ==
    ASSUME NEW on, NEW given, NEW n, NEW d, NEW b, BookInv(b, on, given, n, d)
    PROVE  /\ BookInv(Refreshed(b), on, given, n, d)
           /\ Refreshed(b).history = b.history
           /\ Refreshed(b).pending = b.pending
           /\ Refreshed(b).refresh = TRUE
<1> DEFINE c == Refreshed(b)
<1>1. b \in Books
    BY DEF BookInv
<1>2. /\ c \in Books /\ c.history = b.history /\ c.save = b.save /\ c.pending = b.pending
      /\ c.told = b.told /\ c.refresh = TRUE
    BY <1>1 DEF Refreshed, Books
<1> HIDE DEF c
<1>3. Owes(c, on, given)
    BY <1>2 DEF BookInv, Owes
<1>4. BookInv(c, on, given, n, d)
    BY <1>2, <1>3 DEF BookInv
<1> QED  BY <1>2, <1>4 DEF c

LEMMA EmitPendingInv ==
    ASSUME NEW on, NEW given, NEW n, NEW d, NEW b, BookInv(b, on, given, n, d), NEW gone
    PROVE  /\ BookInv(EmitPending(b, gone), on, given, n, d)
           /\ EmitPending(b, gone).history = b.history
           /\ EmitPending(b, gone).pending = b.pending \ gone
           /\ EmitPending(b, gone).refresh = b.refresh
<1> DEFINE t == [id \in Ids |-> IF id \in gone \cap b.pending THEN b.told[id] + 1 ELSE b.told[id]]
           c == EmitPending(b, gone)
<1>1. b \in Books
    BY DEF BookInv
<1>2. t \in [Ids -> Nat]
    BY <1>1 DEF Books
<1>3. Tell(b, gone) = [b EXCEPT !.told = t]
    BY DEF Tell
<1>3a. \A id \in Ids : t[id] = IF id \in gone \cap b.pending THEN b.told[id] + 1 ELSE b.told[id]
    OBVIOUS
<1> HIDE DEF t
<1>4. /\ c \in Books /\ c.history = b.history /\ c.save = b.save
      /\ c.pending = b.pending \ gone /\ c.told = t /\ c.refresh = b.refresh
    BY <1>1, <1>2, <1>3 DEF EmitPending, Books
<1> HIDE DEF c
<1>5. Owes(c, on, given)
  <2>1. \A id \in Ids : c.told[id] = IF id \in given /\ id \notin on /\ id \notin c.pending
                                     THEN 1 ELSE 0
    <3> SUFFICES ASSUME NEW id \in Ids
                 PROVE  c.told[id] = IF id \in given /\ id \notin on /\ id \notin c.pending
                                     THEN 1 ELSE 0
      OBVIOUS
    <3>1. /\ b.told[id] = IF id \in given /\ id \notin on /\ id \notin b.pending THEN 1 ELSE 0
          /\ id \in b.pending => id \in given /\ id \notin on
      BY DEF BookInv, Owes
    <3>2. c.told[id] = IF id \in gone \cap b.pending THEN b.told[id] + 1 ELSE b.told[id]
      BY <1>3a, <1>4
    <3>3. CASE id \in b.pending /\ id \in gone
      BY <1>4, <3>1, <3>2, <3>3
    <3>4. CASE id \in b.pending /\ id \notin gone
      BY <1>4, <3>1, <3>2, <3>4
    <3>5. CASE id \notin b.pending
      BY <1>4, <3>1, <3>2, <3>5
    <3> QED  BY <3>3, <3>4, <3>5
  <2> QED  BY <1>4, <2>1 DEF BookInv, Owes
<1>6. BookInv(c, on, given, n, d)
    BY <1>4, <1>5 DEF BookInv
<1> QED  BY <1>4, <1>6 DEF c

\* The bar shows what is unread, or is about to be refreshed.
Bar(b, shown) == b.refresh \/ b.history = <<>> \/ shown = Unread(b)

LEMMA UnreadWasIs ==
    ASSUME NEW b, NEW c
    PROVE  UnreadWas(c, Unread(b)) = IF Unread(c) <=> Unread(b) THEN c ELSE Refreshed(c)
BY DEF UnreadWas, Unread

LEMMA UnreadWasInv ==
    ASSUME NEW on, NEW given, NEW n, NEW d, NEW c, BookInv(c, on, given, n, d), NEW had
    PROVE  /\ BookInv(UnreadWas(c, had), on, given, n, d)
           /\ UnreadWas(c, had).history = c.history
           /\ UnreadWas(c, had).pending = c.pending
<1>1. UnreadWas(c, had) = c \/ UnreadWas(c, had) = Refreshed(c)
    BY DEF UnreadWas
<1> QED  BY <1>1, RefreshedInv, SMTT(30), ZenonT(40)

LEMMA UnreadWasKeepsRefresh ==
    ASSUME NEW c, c \in Books, c.refresh = TRUE, NEW had
    PROVE  UnreadWas(c, had).refresh = TRUE
<1>1. UnreadWas(c, had) = c \/ UnreadWas(c, had) = Refreshed(c)
    BY DEF UnreadWas
<1>2. Refreshed(c).refresh = TRUE
    BY DEF Refreshed, Books
<1> QED  BY <1>1, <1>2

LEMMA BarUnreadWas ==
    ASSUME NEW shown, NEW b, Bar(b, shown), NEW c, c \in Books, c.refresh = b.refresh,
           b.history = <<>> => c.history = <<>> \/ Unread(c)
    PROVE  Bar(UnreadWas(c, Unread(b)), shown)
<1>1. CASE Unread(c) <=> Unread(b)
  <2>1. UnreadWas(c, Unread(b)) = c
    BY <1>1, UnreadWasIs
  <2>2. b.history = <<>> => ~Unread(b)
    BY DEF Unread
  <2>3. Unread(c) = Unread(b)
    BY <1>1 DEF Unread
  <2>4. CASE b.refresh
    BY <2>1, <2>4 DEF Bar
  <2>5. CASE b.history = <<>>
    BY <1>1, <2>1, <2>2, <2>5 DEF Bar
  <2>6. CASE shown = Unread(b)
    BY <2>1, <2>3, <2>6, Zenon DEF Bar
  <2> QED  BY <2>4, <2>5, <2>6 DEF Bar
<1>2. CASE ~(Unread(c) <=> Unread(b))
  <2>1. UnreadWas(c, Unread(b)) = Refreshed(c)
    BY <1>2, UnreadWasIs
  <2>2. Refreshed(c).refresh = TRUE
    BY DEF Refreshed, Books
  <2> QED  BY <2>1, <2>2 DEF Bar
<1> QED  BY <1>1, <1>2

LEMMA UpsertInv ==
    ASSUME NEW on, NEW given, NEW n, NEW d, NEW b, BookInv(b, on, given, n, d),
           NEW entry \in HistoryEntry, entry.id < n, entry.id \in on => entry.active
    PROVE  /\ BookInv(Upsert(b, entry), on, given, n, d)
           /\ Leaves(b, Upsert(b, entry))
           /\ Upsert(b, entry).refresh = b.refresh
           /\ \E e \in Range(Upsert(b, entry).history) : e.id = entry.id
           /\ b.history = <<>> => Unread(Upsert(b, entry))
<1> DEFINE seen == \E i \in Place(b, entry.id) : b.history[i].seen
           rest == Without(b.history, {entry.id})
           x == [entry EXCEPT !.seen = seen]
           full == Append(rest, x)
<1>0. b.history \in Seq(HistoryEntry) /\ InOrder(b.history, on, n)
    BY DEF BookInv, InOrder
<1>1. x \in HistoryEntry /\ x.id = entry.id /\ x.active = entry.active /\ x.seen = seen
    BY DEF HistoryEntry
<1>2. /\ rest \in Seq(HistoryEntry) /\ Len(rest) <= Len(b.history)
      /\ \A e : e \in Range(rest) <=> e \in Range(b.history) /\ e.id # entry.id
      /\ Unique(rest)
    BY <1>0, WithoutLeaves DEF InOrder
<1>3. b.history = <<>> => ~seen /\ rest = <<>>
  <2>1. b.history = <<>> => ~seen
    BY DEF Place
  <2>2. b.history = <<>> => Len(rest) = 0
    BY <1>2
  <2> QED  BY <1>2, <2>1, <2>2
<1>4. Upsert(b, entry) = IF Len(full) <= MaxHistory THEN WithHistory(b, full)
                         ELSE WithHistory(EmitPending(b, {Head(full).id}), Tail(full))
    BY DEF Upsert
<1>4a. \A e \in Range(rest) : e.id # x.id
    BY <1>1, <1>2
<1>4b. b.history = <<>> => ~x.seen
    BY <1>1, <1>3
<1>4c. x.id < n /\ (x.id \in on => x.active)
    BY <1>1
<1> HIDE DEF x, rest, seen
<1>5. /\ full \in Seq(HistoryEntry) /\ Unique(full) /\ Range(full) = Range(rest) \cup {x}
      /\ Len(full) = Len(rest) + 1
    BY <1>1, <1>2, <1>4a, AppendRange, UniqueAppend, AppendProperties
<1> HIDE DEF full
<1>6. \A e \in Range(full) : e.id < n /\ (e.id \in on => e.active)
    BY <1>0, <1>2, <1>4c, <1>5 DEF InOrder
<1>7. \A e \in Range(b.history) : \E f \in Range(full) : f.id = e.id
  <2> SUFFICES ASSUME NEW e \in Range(b.history)
               PROVE  \E f \in Range(full) : f.id = e.id
    OBVIOUS
  <2>1. CASE e.id = entry.id
    BY <1>1, <1>5, <2>1
  <2>2. CASE e.id # entry.id
    BY <1>2, <1>5, <2>2
  <2> QED  BY <2>1, <2>2
<1>8. x \in Range(full) /\ x.id = entry.id
    BY <1>1, <1>5
<1>9. CASE Len(full) <= MaxHistory
  <2> DEFINE c == Upsert(b, entry)
  <2>1. c = WithHistory(b, full)
    BY <1>4, <1>9
  <2>2. InOrder(full, on, n)
    BY <1>5, <1>6, <1>9 DEF InOrder
  <2>3. /\ BookInv(c, on, given, n, d) /\ c.history = full
        /\ c.pending = b.pending /\ c.refresh = b.refresh
    BY <2>1, <2>2, WithHistoryInv
  <2> HIDE DEF c
  <2>4. Leaves(b, c)
    BY <1>7, <2>3, InHistoryIs DEF Leaves
  <2>5. b.history = <<>> => Unread(c)
    BY <1>4b, <1>8, <2>3, UnreadIs
  <2> QED  BY <1>8, <2>3, <2>4, <2>5 DEF c
<1>10. CASE ~(Len(full) <= MaxHistory)
  <2> DEFINE out == Head(full).id
             c == Upsert(b, entry)
             m == EmitPending(b, {out})
  <2>0. Len(full) \in Nat /\ Len(b.history) \in Nat /\ Len(rest) \in Nat
    BY <1>0, <1>2, <1>5
  <2>1. full # <<>> /\ b.history # <<>> /\ Len(rest) >= 1 /\ Len(full) <= MaxHistory + 1
    BY <1>0, <1>2, <1>5, <1>10, <2>0, NotificationAssumption DEF InOrder
  <2>2. /\ Tail(full) \in Seq(HistoryEntry) /\ Unique(Tail(full))
        /\ Len(Tail(full)) = Len(full) - 1
        /\ \A e : e \in Range(Tail(full)) <=> e \in Range(full) /\ e.id # out
    BY <1>5, <2>1, UniqueTail
  <2>3. Head(full) # x
    <3>1. rest[1] \in Range(rest) /\ Head(full) = full[1] /\ full[1] = rest[1]
      BY <1>1, <1>2, <2>0, <2>1 DEF Range, full
    <3> QED  BY <1>4a, <3>1
  <2>4. out # entry.id
    <3>1. Head(full) \in Range(full)
      BY <1>5, <2>1, UniqueTail
    <3> QED  BY <1>1, <1>4a, <1>5, <2>3, <3>1
  <2>5. c = WithHistory(m, Tail(full))
    BY <1>4, <1>10
  <2>5a. PICK rear \in Seq(HistoryEntry) : rear = Tail(full)
    BY <2>2
  <2> HIDE DEF out, c
  <2>6. /\ BookInv(m, on, given, n, d) /\ m.pending = b.pending \ {out}
        /\ m.refresh = b.refresh
    BY EmitPendingInv
  <2> HIDE DEF m
  <2>7. InOrder(Tail(full), on, n)
    BY <1>6, <2>0, <2>1, <2>2, NotificationAssumption DEF InOrder
  <2>7a. InOrder(rear, on, n) /\ c = WithHistory(m, rear)
    BY <2>5, <2>5a, <2>7
  <2>7b. /\ BookInv(WithHistory(m, rear), on, given, n, d)
         /\ WithHistory(m, rear).history = rear
         /\ WithHistory(m, rear).pending = m.pending
         /\ WithHistory(m, rear).refresh = m.refresh
    BY <2>6, <2>7a, WithHistoryInv
  <2>8. /\ BookInv(c, on, given, n, d) /\ c.history = Tail(full)
        /\ c.pending = b.pending \ {out} /\ c.refresh = b.refresh
    BY <2>5a, <2>6, <2>7a, <2>7b
  <2>9. Leaves(b, c)
    <3> SUFFICES ASSUME NEW id, InHistory(b, id), ~InHistory(c, id)
                 PROVE  id = out
      BY <2>8 DEF Leaves
    <3>1. PICK e \in Range(full) : e.id = id
      BY <1>7, InHistoryIs
    <3>2. e \notin Range(Tail(full))
      BY <2>8, <3>1, InHistoryIs
    <3> QED  BY <2>2, <3>1, <3>2
  <2>10. x \in Range(Tail(full))
    BY <1>8, <2>2, <2>4
  <2> QED  BY <1>8, <2>1, <2>8, <2>9, <2>10 DEF c
<1> QED  BY <1>9, <1>10

\* The entries of h are changed in their places, and keep their ids.
Renews(g, h, on) ==
    /\ g \in [DOMAIN h -> HistoryEntry]
    /\ \A i \in DOMAIN h : g[i].id = h[i].id /\ (g[i].id \in on => g[i].active)

SameIds(g, h) == \A id : (\E e \in Range(g) : e.id = id) <=> (\E e \in Range(h) : e.id = id)

LEMMA EntriesInOrder ==
    ASSUME NEW on, NEW n, NEW h, InOrder(h, on, n), NEW g, Renews(g, h, on)
    PROVE  InOrder(g, on, n) /\ SameIds(g, h)
<1>0. /\ g \in [DOMAIN h -> HistoryEntry]
      /\ \A i \in DOMAIN h : g[i].id = h[i].id /\ (g[i].id \in on => g[i].active)
    BY DEF Renews
<1>1. h \in Seq(HistoryEntry) /\ Len(h) \in Nat /\ DOMAIN h = 1..Len(h)
    BY DEF InOrder
<1>2. g \in [1..Len(h) -> HistoryEntry] /\ DOMAIN g = DOMAIN h
    BY <1>0, <1>1
<1>3. g \in Seq(HistoryEntry) /\ Len(g) = Len(h)
    BY <1>1, <1>2, SeqDef, LenProperties
<1>4. Unique(g)
    BY <1>0, <1>2 DEF Unique, InOrder
<1>5. \A i \in DOMAIN h : h[i] \in Range(h) /\ g[i] \in Range(g)
    BY <1>2 DEF Range
<1>6. \A e \in Range(g) : \E i \in DOMAIN h : e = g[i]
    BY <1>2 DEF Range
<1>7. \A e \in Range(h) : \E i \in DOMAIN h : e = h[i]
    BY DEF Range
<1>8. \A e \in Range(g) : e.id < n /\ (e.id \in on => e.active)
    BY <1>0, <1>5, <1>6 DEF InOrder
<1>9. InOrder(g, on, n)
    BY <1>3, <1>4, <1>8 DEF InOrder
<1>10. ASSUME NEW id
       PROVE  (\E e \in Range(g) : e.id = id) <=> (\E e \in Range(h) : e.id = id)
  <2>1. ASSUME NEW e \in Range(g), e.id = id PROVE \E f \in Range(h) : f.id = id
    BY <1>0, <1>5, <1>6, <2>1
  <2>2. ASSUME NEW e \in Range(h), e.id = id PROVE \E f \in Range(g) : f.id = id
    BY <1>0, <1>5, <1>7, <2>2
  <2> QED  BY <2>1, <2>2
<1> QED  BY <1>9, <1>10 DEF SameIds

LEMMA MarkClosedInv ==
    ASSUME NEW on, NEW given, NEW n, NEW d, NEW b, BookInv(b, on, given, n, d), NEW id,
           id \notin on
    PROVE  /\ BookInv(MarkClosed(b, id), on, given, n, d)
           /\ Leaves(b, MarkClosed(b, id))
           /\ MarkClosed(b, id).refresh = b.refresh
           /\ MarkClosed(b, id).history = <<>> <=> b.history = <<>>
           /\ Unread(MarkClosed(b, id)) <=> Unread(b)
           /\ \A j : InHistory(MarkClosed(b, id), j) <=> InHistory(b, j)
<1> DEFINE h == b.history
           g == Closed(h, id)
           c == MarkClosed(b, id)
<1>0. InOrder(h, on, n) /\ h \in Seq(HistoryEntry)
    BY DEF BookInv, InOrder
<1>1. /\ DOMAIN g = DOMAIN h /\ g = [i \in DOMAIN h |-> g[i]]
      /\ \A i \in DOMAIN h :
             g[i] = IF h[i].id = id THEN [h[i] EXCEPT !.active = FALSE] ELSE h[i]
    BY DEF Closed
<1> HIDE DEF g
<1>2. \A i \in DOMAIN h : h[i] \in HistoryEntry /\ h[i] \in Range(h)
    BY <1>0 DEF Range
<1>3. \A i \in DOMAIN h : g[i] \in HistoryEntry /\ g[i].id = h[i].id /\ g[i].seen = h[i].seen
                          /\ (g[i].id \in on => g[i].active)
    BY <1>0, <1>1, <1>2, SMTT(30), ZenonT(40) DEF HistoryEntry, InOrder
<1>3a. g \in [DOMAIN h -> HistoryEntry]
    BY <1>1, <1>3
<1>4. InOrder(g, on, n) /\ SameIds(g, h)
  <2>1. Renews(g, h, on)
    BY <1>3, <1>3a DEF Renews
  <2> QED  BY <1>0, <2>1, EntriesInOrder
<1>5. CASE InHistory(b, id)
  <2>1. c = WithHistory(b, g)
    BY <1>5 DEF MarkClosed, g
  <2>2. /\ BookInv(c, on, given, n, d) /\ c.history = g
        /\ c.pending = b.pending /\ c.refresh = b.refresh
    BY <1>4, <2>1, WithHistoryInv
  <2> HIDE DEF c
  <2>3. \A j : InHistory(c, j) <=> InHistory(b, j)
    BY <1>4, <2>2, InHistoryIs DEF SameIds
  <2>3a. Leaves(b, c)
    BY <2>2, <2>3 DEF Leaves
  <2>4. Unread(c) <=> Unread(b)
    BY <1>1, <1>3, <2>2 DEF Unread
  <2>5. c.history = <<>> <=> b.history = <<>>
    BY <1>0, <1>1, <1>4, <2>2 DEF InOrder
  <2> QED  BY <2>2, <2>3, <2>3a, <2>4, <2>5 DEF c
<1>6. CASE ~InHistory(b, id)
  <2>1. c = b
    BY <1>6 DEF MarkClosed
  <2> QED  BY <2>1 DEF Leaves
<1> QED  BY <1>5, <1>6

LEMMA RemoveEntryInv ==
    ASSUME NEW on, NEW given, NEW n, NEW d, NEW b, BookInv(b, on, given, n, d), NEW id
    PROVE  /\ BookInv(RemoveEntry(b, id), on, given, n, d)
           /\ Leaves(b, RemoveEntry(b, id))
           /\ \A shown : Bar(b, shown) => Bar(RemoveEntry(b, id), shown)
<1> DEFINE h == b.history
           g == Without(h, {id})
           m == EmitPending(b, {id})
           w == WithHistory(m, g)
           c == RemoveEntry(b, id)
<1>0. InOrder(h, on, n) /\ h \in Seq(HistoryEntry)
    BY DEF BookInv, InOrder
<1>1. CASE InHistory(b, id)
  <2>1. c = UnreadWas(w, Unread(b))
    BY <1>1 DEF RemoveEntry
  <2>2. /\ g \in Seq(HistoryEntry) /\ Len(g) <= Len(h) /\ Unique(g)
        /\ \A e : e \in Range(g) <=> e \in Range(h) /\ e.id \notin {id}
    BY <1>0, WithoutLeaves DEF InOrder
  <2> HIDE DEF g, c
  <2>3. InOrder(g, on, n)
    <3>1. Len(h) \in Nat /\ Len(g) \in Nat
      BY <1>0, <2>2
    <3> QED  BY <1>0, <2>2, <3>1, NotificationAssumption DEF InOrder
  <2>4. /\ BookInv(m, on, given, n, d) /\ m.pending = b.pending \ {id} /\ m.refresh = b.refresh
    BY EmitPendingInv
  <2> HIDE DEF m
  <2>5. /\ BookInv(w, on, given, n, d) /\ w.history = g /\ w.pending = m.pending
        /\ w.refresh = m.refresh
    BY <2>3, <2>4, WithHistoryInv
  <2> HIDE DEF w
  <2>6. /\ BookInv(c, on, given, n, d) /\ c.history = g /\ c.pending = b.pending \ {id}
    BY <2>1, <2>4, <2>5, UnreadWasInv
  <2>7. Leaves(b, c)
    BY <2>2, <2>6, InHistoryIs DEF Leaves
  <2>8. b.history # <<>>
    BY <1>1 DEF InHistory, Place
  <2>9. ASSUME NEW shown, Bar(b, shown)
        PROVE  Bar(c, shown)
    <3>1. w \in Books /\ w.refresh = b.refresh
      BY <2>4, <2>5 DEF BookInv
    <3> QED  BY <2>1, <2>8, <2>9, <3>1, BarUnreadWas
  <2> QED  BY <2>6, <2>7, <2>9 DEF c
<1>2. CASE ~InHistory(b, id)
  <2>1. c = b
    BY <1>2 DEF RemoveEntry
  <2> QED  BY <2>1 DEF Leaves
<1> QED  BY <1>1, <1>2

LEMMA MarkSeenInv ==
    ASSUME NEW on, NEW given, NEW n, NEW d, NEW b, BookInv(b, on, given, n, d)
    PROVE  /\ BookInv(MarkSeen(b), on, given, n, d)
           /\ Leaves(b, MarkSeen(b))
           /\ \A shown : Bar(b, shown) => Bar(MarkSeen(b), shown)
<1> DEFINE h == b.history
           g == AllSeen(h)
           c == MarkSeen(b)
<1>0. InOrder(h, on, n) /\ h \in Seq(HistoryEntry)
    BY DEF BookInv, InOrder
<1>1. DOMAIN g = DOMAIN h /\ \A i \in DOMAIN h : g[i] = [h[i] EXCEPT !.seen = TRUE]
    BY DEF AllSeen
<1>1a. g = [i \in DOMAIN h |-> g[i]]
    BY DEF AllSeen
<1>2. \A i \in DOMAIN h : h[i] \in HistoryEntry /\ h[i] \in Range(h)
    BY <1>0 DEF Range
<1> HIDE DEF g
<1>3. \A i \in DOMAIN h : g[i] \in HistoryEntry /\ g[i].id = h[i].id /\ g[i].seen = TRUE
                          /\ (g[i].id \in on => g[i].active)
  <2> SUFFICES ASSUME NEW i \in DOMAIN h
               PROVE  /\ g[i] \in HistoryEntry /\ g[i].id = h[i].id /\ g[i].seen = TRUE
                      /\ (g[i].id \in on => g[i].active)
    OBVIOUS
  <2>1. h[i] \in HistoryEntry /\ h[i] \in Range(h) /\ g[i] = [h[i] EXCEPT !.seen = TRUE]
    BY <1>1, <1>2
  <2>2. /\ g[i] \in HistoryEntry /\ g[i].id = h[i].id /\ g[i].seen = TRUE
        /\ g[i].active = h[i].active
    BY <2>1 DEF HistoryEntry
  <2>3. h[i].id \in on => h[i].active
    BY <1>0, <2>1 DEF InOrder
  <2> QED  BY <2>2, <2>3
<1>4. InOrder(g, on, n) /\ SameIds(g, h)
  <2>1. g \in [DOMAIN h -> HistoryEntry]
    BY <1>1a, <1>3
  <2>2. Renews(g, h, on)
    BY <1>3, <2>1 DEF Renews
  <2> QED  BY <1>0, <2>2, EntriesInOrder
<1>5. CASE Unread(b)
  <2> DEFINE w == WithHistory(b, g)
  <2>1. c = UnreadWas(w, TRUE)
    BY <1>5 DEF MarkSeen, g
  <2>2. /\ BookInv(w, on, given, n, d) /\ w.history = g
        /\ w.pending = b.pending /\ w.refresh = b.refresh
    BY <1>4, WithHistoryInv
  <2> HIDE DEF w, c
  <2>3. ~Unread(w)
    BY <1>1, <1>3, <2>2 DEF Unread
  <2>4. c = Refreshed(w)
    BY <2>1, <2>3 DEF UnreadWas, Unread
  <2>5. /\ BookInv(c, on, given, n, d) /\ c.history = g /\ c.pending = b.pending
        /\ c.refresh = TRUE
    BY <2>2, <2>4, RefreshedInv, SMTT(30), ZenonT(40)
  <2>6. Leaves(b, c)
    BY <1>4, <2>5, InHistoryIs DEF Leaves, SameIds
  <2>7. \A shown : Bar(c, shown)
    BY <2>5 DEF Bar
  <2> QED  BY <2>5, <2>6, <2>7 DEF c
<1>6. CASE ~Unread(b)
  <2>1. c = b
    BY <1>6 DEF MarkSeen
  <2> QED  BY <2>1 DEF Leaves
<1> QED  BY <1>5, <1>6

LEMMA ClearInv ==
    ASSUME NEW on, NEW given, NEW n, NEW d, NEW b, BookInv(b, on, given, n, d)
    PROVE  /\ BookInv(Clear(b), on, given, n, d)
           /\ Leaves(b, Clear(b))
           /\ \A shown : Bar(Clear(b), shown)
<1> DEFINE gone == {b.history[i].id : i \in DOMAIN b.history}
           m == EmitPending(b, gone)
           w == WithHistory(m, <<>>)
           c == Clear(b)
<1>1. CASE b.history = <<>>
  <2>1. c = b
    BY <1>1 DEF Clear
  <2> QED  BY <1>1, <2>1 DEF Leaves, Bar
<1>2. CASE b.history # <<>>
  <2>1. c = MarkSeen(w)
    BY <1>2 DEF Clear
  <2>2. InOrder(<<>>, on, n)
    <3>1. <<>> \in Seq(HistoryEntry) /\ Len(<<>>) = 0 /\ Range(<<>>) = {} /\ Unique(<<>>)
      BY DEF Range, Unique
    <3> QED  BY <3>1, NotificationAssumption DEF InOrder
  <2>3. \A id : InHistory(b, id) => id \in gone
    BY DEF InHistory, Place
  <2> HIDE DEF gone
  <2>4. BookInv(m, on, given, n, d) /\ m.pending = b.pending \ gone
    BY EmitPendingInv
  <2> HIDE DEF m
  <2>5. BookInv(w, on, given, n, d) /\ w.history = <<>> /\ w.pending = b.pending \ gone
    <3>1. PICK h : h = <<>>
      OBVIOUS
    <3>2. /\ BookInv(WithHistory(m, h), on, given, n, d) /\ WithHistory(m, h).history = h
          /\ WithHistory(m, h).pending = m.pending
      BY <2>2, <2>4, <3>1, WithHistoryInv
    <3> QED  BY <2>4, <3>1, <3>2
  <2> HIDE DEF w
  <2>6. ~Unread(w)
    BY <2>5 DEF Unread
  <2>7. c = w
    BY <2>1, <2>6 DEF MarkSeen
  <2> QED  BY <2>3, <2>5, <2>7 DEF Leaves, Bar
<1> QED  BY <1>1, <1>2

LEMMA InvokedEntryInv ==
    ASSUME NEW on, NEW given, NEW n, NEW d, NEW b, BookInv(b, on, given, n, d), NEW id,
           id \notin on
    PROVE  /\ BookInv(InvokedEntry(b, id), on, given, n, d)
           /\ Leaves(b, InvokedEntry(b, id))
           /\ \A shown : Bar(b, shown) => Bar(InvokedEntry(b, id), shown)
<1> DEFINE h == b.history
           g == [i \in DOMAIN h |-> IF h[i].id = id
                                    THEN [h[i] EXCEPT !.actions = FALSE, !.active = FALSE]
                                    ELSE h[i]]
           m == EmitPending(b, {id})
           c == InvokedEntry(b, id)
<1>0. InOrder(h, on, n) /\ h \in Seq(HistoryEntry)
    BY DEF BookInv, InOrder
<1>1. /\ DOMAIN g = DOMAIN h
      /\ \A i \in DOMAIN h :
             g[i] = IF h[i].id = id THEN [h[i] EXCEPT !.actions = FALSE, !.active = FALSE]
                    ELSE h[i]
    OBVIOUS
<1>1a. g = [i \in DOMAIN h |-> g[i]]
    OBVIOUS
<1>1b. c = WithHistory(m, g)
    BY DEF InvokedEntry
<1>2. \A i \in DOMAIN h : h[i] \in HistoryEntry /\ h[i] \in Range(h)
    BY <1>0 DEF Range
<1> HIDE DEF g, c
<1>3. \A i \in DOMAIN h : g[i] \in HistoryEntry /\ g[i].id = h[i].id /\ g[i].seen = h[i].seen
                          /\ (g[i].id \in on => g[i].active)
    BY <1>0, <1>1, <1>2, SMTT(30), ZenonT(40) DEF HistoryEntry, InOrder
<1>4. InOrder(g, on, n) /\ SameIds(g, h)
  <2>1. g \in [DOMAIN h -> HistoryEntry]
    BY <1>1a, <1>3
  <2>2. Renews(g, h, on)
    BY <1>3, <2>1 DEF Renews
  <2> QED  BY <1>0, <2>2, EntriesInOrder
<1>5. BookInv(m, on, given, n, d) /\ m.pending = b.pending \ {id} /\ m.refresh = b.refresh
    BY EmitPendingInv
<1> HIDE DEF m
<1>6. /\ BookInv(c, on, given, n, d) /\ c.history = g
      /\ c.pending = b.pending \ {id} /\ c.refresh = b.refresh
    BY <1>1b, <1>4, <1>5, WithHistoryInv
<1>7. Leaves(b, c)
    BY <1>4, <1>6, InHistoryIs DEF Leaves, SameIds
<1>8. Unread(c) = Unread(b)
    BY <1>1, <1>3, <1>6 DEF Unread
<1>9. b.history = <<>> => c.history = <<>>
    BY <1>0, <1>1, <1>4, <1>6 DEF InOrder
<1>10. ASSUME NEW shown, Bar(b, shown)
       PROVE  Bar(c, shown)
    BY <1>6, <1>8, <1>9, <1>10, Zenon DEF Bar
<1> QED  BY <1>6, <1>7, <1>10 DEF c

LEMMA BarMarkClosed ==
    ASSUME NEW on, NEW given, NEW n, NEW d, NEW b, BookInv(b, on, given, n, d), NEW id,
           id \notin on, NEW shown, Bar(b, shown)
    PROVE  Bar(MarkClosed(b, id), shown)
<1>1. /\ MarkClosed(b, id).refresh = b.refresh
      /\ MarkClosed(b, id).history = <<>> <=> b.history = <<>>
      /\ Unread(MarkClosed(b, id)) <=> Unread(b)
    BY MarkClosedInv
<1>2. Unread(MarkClosed(b, id)) = Unread(b)
    BY <1>1 DEF Unread
<1> QED  BY <1>1, <1>2, Zenon DEF Bar

LEMMA ClosePendingInv ==
    ASSUME NEW on, NEW given, NEW n, NEW d, NEW b, BookInv(b, on, given, n, d), NEW id,
           id \notin on, NEW reason
    PROVE  /\ BookInv(ClosePending(b, id, reason), on, given, n, d)
           /\ Leaves(b, ClosePending(b, id, reason))
           /\ \A shown : Bar(b, shown) => Bar(ClosePending(b, id, reason), shown)
<1> DEFINE m == EmitPending(b, {id})
           c == ClosePending(b, id, reason)
<1>1. /\ BookInv(m, on, given, n, d) /\ m.history = b.history
      /\ m.pending = b.pending \ {id} /\ m.refresh = b.refresh
    BY EmitPendingInv
<1>2. c = RemoveEntry(m, id) \/ c = MarkClosed(m, id)
    BY DEF ClosePending
<1> HIDE DEF m, c
<1>3. BookInv(c, on, given, n, d) /\ Leaves(m, c)
    BY <1>1, <1>2, RemoveEntryInv, MarkClosedInv
<1>4. Leaves(b, c)
    BY <1>1, <1>3 DEF Leaves, InHistory, Place
<1>5. ASSUME NEW shown, Bar(b, shown)
      PROVE  Bar(c, shown)
  <2>1. Unread(m) = Unread(b)
    BY <1>1 DEF Unread
  <2>2. Bar(m, shown)
    BY <1>1, <1>5, <2>1, Zenon DEF Bar
  <2> QED  BY <1>1, <1>2, <2>2, RemoveEntryInv, BarMarkClosed
<1> QED  BY <1>3, <1>4, <1>5 DEF c

NoneLeft(b, c) == \A id : InHistory(b, id) /\ ~InHistory(c, id) => id \notin c.pending

\* A notification leaves the screen: until its signal is sent or owed, the
\* book is as if it had never been given out.
LEMMA SetAside ==
    ASSUME NEW on, NEW given, NEW n, NEW d, NEW b, BookInv(b, on, given, n, d), NEW id \in on
    PROVE  BookInv(b, on \ {id}, given \ {id}, n, d)
<1>1. InOrder(b.history, on \ {id}, n)
    BY DEF BookInv, InOrder
<1>2. Owes(b, on \ {id}, given \ {id})
  <2>1. b.pending \subseteq given \ {id} /\ b.pending \cap (on \ {id}) = {}
    BY DEF BookInv, Owes
  <2> SUFFICES ASSUME NEW j \in Ids
               PROVE  b.told[j] = IF j \in given \ {id} /\ j \notin on \ {id} /\ j \notin b.pending
                                  THEN 1 ELSE 0
    BY <2>1 DEF Owes
  <2>2. b.told[j] = IF j \in given /\ j \notin on /\ j \notin b.pending THEN 1 ELSE 0
    BY DEF BookInv, Owes
  <2> QED  BY <2>2
<1> QED  BY <1>1, <1>2 DEF BookInv

\* Its signal is sent, or kept back for its actions.
LEMMA SignalSent ==
    ASSUME NEW on, NEW given, NEW n, NEW d, NEW id \in given \cap Ids, id \notin on,
           NEW b, BookInv(b, on, given \ {id}, n, d)
    PROVE  /\ BookInv(Emit(b, id), on, given, n, d)
           /\ Emit(b, id).history = b.history /\ Emit(b, id).pending = b.pending
           /\ Emit(b, id).refresh = b.refresh
<1> DEFINE t == [b.told EXCEPT ![id] = @ + 1]
           c == Emit(b, id)
<1>1. b \in Books /\ b.told \in [Ids -> Nat]
    BY DEF BookInv, Books
<1>2. t \in [Ids -> Nat] /\ \A j \in Ids : t[j] = IF j = id THEN b.told[j] + 1 ELSE b.told[j]
    BY <1>1
<1>3. c = [b EXCEPT !.told = t]
    BY DEF Emit
<1> HIDE DEF t
<1>4. /\ c \in Books /\ c.history = b.history /\ c.pending = b.pending /\ c.told = t
      /\ c.save = b.save /\ c.refresh = b.refresh
    BY <1>1, <1>2, <1>3 DEF Books
<1> HIDE DEF c
<1>5. Owes(c, on, given)
  <2>1. c.pending \subseteq given /\ c.pending \cap on = {}
    BY <1>4 DEF BookInv, Owes
  <2> SUFFICES ASSUME NEW j \in Ids
               PROVE  c.told[j] = IF j \in given /\ j \notin on /\ j \notin c.pending THEN 1 ELSE 0
    BY <2>1 DEF Owes
  <2>2. /\ b.told[j] = IF j \in given \ {id} /\ j \notin on /\ j \notin b.pending THEN 1 ELSE 0
        /\ id \notin b.pending
    BY DEF BookInv, Owes
  <2>3. CASE j = id
    BY <1>2, <1>4, <2>2, <2>3
  <2>4. CASE j # id
    BY <1>2, <1>4, <2>2, <2>4
  <2> QED  BY <2>3, <2>4
<1>6. BookInv(c, on, given, n, d)
    BY <1>4, <1>5 DEF BookInv
<1> QED  BY <1>4, <1>6 DEF c

LEMMA SignalKept ==
    ASSUME NEW on, NEW given, NEW n, NEW d, NEW id \in given \cap Ids, id \notin on,
           NEW b, BookInv(b, on, given \ {id}, n, d)
    PROVE  LET c == [b EXCEPT !.pending = @ \cup {id}]
           IN /\ BookInv(c, on, given, n, d)
              /\ c.history = b.history /\ c.pending = b.pending \cup {id}
              /\ c.refresh = b.refresh
<1> DEFINE c == [b EXCEPT !.pending = @ \cup {id}]
<1>1. b \in Books
    BY DEF BookInv
<1>2. /\ c \in Books /\ c.history = b.history /\ c.pending = b.pending \cup {id}
      /\ c.told = b.told /\ c.save = b.save /\ c.refresh = b.refresh
    BY <1>1 DEF Books
<1> HIDE DEF c
<1>3. Owes(c, on, given)
  <2>1. c.pending \subseteq given /\ c.pending \cap on = {}
    BY <1>2 DEF BookInv, Owes
  <2> SUFFICES ASSUME NEW j \in Ids
               PROVE  c.told[j] = IF j \in given /\ j \notin on /\ j \notin c.pending THEN 1 ELSE 0
    BY <2>1 DEF Owes
  <2>2. b.told[j] = IF j \in given \ {id} /\ j \notin on /\ j \notin b.pending THEN 1 ELSE 0
    BY DEF BookInv, Owes
  <2>3. CASE j = id
    BY <1>2, <2>2, <2>3
  <2>4. CASE j # id
    BY <1>2, <2>2, <2>4
  <2> QED  BY <2>3, <2>4
<1>4. BookInv(c, on, given, n, d)
    BY <1>2, <1>3 DEF BookInv
<1> QED  BY <1>2, <1>4 DEF c

\* The end of close() for what is on screen: what is kept back for the actions
\* of an entry keeps the entry.
Signals(b, kept, sent, id) ==
    \/ sent = Emit(Refreshed(kept), id)
    \/ /\ sent = [Refreshed(kept) EXCEPT !.pending = @ \cup {id}]
       /\ InHistory(b, id) => InHistory(kept, id)

LEMMA CloseEnds ==
    ASSUME NEW on, NEW given, NEW n, NEW d, NEW id \in given \cap Ids, id \notin on,
           NEW rest, rest = given \ {id},
           NEW b, NEW kept, BookInv(kept, on, rest, n, d), Leaves(b, kept),
           NEW sent, Signals(b, kept, sent, id), NEW had
    PROVE  /\ BookInv(UnreadWas(sent, had), on, given, n, d)
           /\ UnreadWas(sent, had).refresh = TRUE
           /\ NoneLeft(b, UnreadWas(sent, had))
           /\ sent = Emit(Refreshed(kept), id) => Leaves(b, UnreadWas(sent, had))
<1>1. PICK heard : heard = Refreshed(kept)
    OBVIOUS
<1>2. /\ BookInv(heard, on, given \ {id}, n, d) /\ heard.history = kept.history
      /\ heard.pending = kept.pending /\ heard.refresh = TRUE
  <2>1. BookInv(Refreshed(kept), on, rest, n, d)
    BY RefreshedInv
  <2>0. kept \in Books
    BY DEF BookInv
  <2>2. Refreshed(kept).history = kept.history
    BY <2>0 DEF Refreshed, Books
  <2>3. Refreshed(kept).pending = kept.pending
    BY <2>0 DEF Refreshed, Books
  <2>4. Refreshed(kept).refresh = TRUE
    BY RefreshedInv
  <2> QED  BY <1>1, <2>1, <2>2, <2>3, <2>4
<1>3. PICK c : c = UnreadWas(sent, had)
    OBVIOUS
<1>4. ASSUME BookInv(sent, on, given, n, d), sent.history = kept.history, sent.refresh = TRUE
      PROVE  /\ BookInv(c, on, given, n, d) /\ c.pending = sent.pending /\ c.refresh = TRUE
             /\ \A j : InHistory(c, j) <=> InHistory(kept, j)
  <2>1. /\ BookInv(c, on, given, n, d) /\ c.history = sent.history
        /\ c.pending = sent.pending
    BY <1>3, <1>4, UnreadWasInv
  <2>2. c.refresh = TRUE
    <3>1. sent \in Books
      BY <1>4 DEF BookInv
    <3> QED  BY <1>3, <1>4, <3>1, UnreadWasKeepsRefresh
  <2>3. \A j : InHistory(c, j) <=> InHistory(kept, j)
    BY <1>4, <2>1 DEF InHistory, Place
  <2> QED  BY <2>1, <2>2, <2>3
<1>5. CASE sent = Emit(Refreshed(kept), id)
  <2>1. /\ BookInv(sent, on, given, n, d) /\ sent.history = kept.history
        /\ sent.pending = kept.pending /\ sent.refresh = TRUE
    BY <1>1, <1>2, <1>5, SignalSent
  <2>2. Leaves(b, c) /\ NoneLeft(b, c)
    BY <1>4, <2>1 DEF NoneLeft, Leaves
  <2> QED  BY <1>3, <1>4, <2>1, <2>2
<1>6. CASE /\ sent = [Refreshed(kept) EXCEPT !.pending = @ \cup {id}]
           /\ InHistory(b, id) => InHistory(kept, id)
           /\ sent # Emit(Refreshed(kept), id)
  <2>0. sent = [heard EXCEPT !.pending = @ \cup {id}]
    BY <1>1, <1>6
  <2>1. /\ BookInv(sent, on, given, n, d) /\ sent.history = kept.history
        /\ sent.pending = kept.pending \cup {id} /\ sent.refresh = TRUE
    BY <1>2, <2>0, SignalKept
  <2>2. NoneLeft(b, c)
    BY <1>4, <1>6, <2>1 DEF NoneLeft, Leaves
  <2> QED  BY <1>3, <1>4, <1>6, <2>1, <2>2
<1> QED  BY <1>5, <1>6 DEF Signals

LEMMA CloseLiveInv ==
    ASSUME NEW on, NEW given, NEW n, NEW d, NEW b, BookInv(b, on, given, n, d),
           NEW id \in on \cap given \cap Ids, id < n, live[id] \in Note, NEW reason
    PROVE  /\ BookInv(CloseLive(b, id, reason), on \ {id}, given, n, d)
           /\ CloseLive(b, id, reason).refresh = TRUE
           /\ NoneLeft(b, CloseLive(b, id, reason))
           /\ reason # "Expired" => Leaves(b, CloseLive(b, id, reason))
<1> DEFINE note == live[id]
           removed == reason = "Dismissed" /\ ~config.keepDismissed
           deferred == reason = "Expired" /\ note.actions
           x == [Entry(id, note) EXCEPT !.active = FALSE]
           kept == IF ~ShouldSave(note) THEN b
                   ELSE IF removed THEN RemoveEntry(b, id)
                   ELSE IF InHistory(b, id) THEN MarkClosed(b, id)
                   ELSE Upsert(b, x)
           heard == Refreshed(kept)
           sent == IF deferred THEN [heard EXCEPT !.pending = @ \cup {id}] ELSE Emit(heard, id)
           c == CloseLive(b, id, reason)
           off == on \ {id}
           rest == given \ {id}
<1>1. BookInv(b, off, rest, n, d)
    BY SetAside
<1>2. x \in HistoryEntry /\ x.id = id /\ x.active = FALSE
    BY DEF Entry, HistoryEntry, Note
<1>4. /\ BookInv(kept, off, rest, n, d) /\ Leaves(b, kept)
      /\ reason = "Expired" /\ InHistory(b, id) => InHistory(kept, id)
  <2> HIDE DEF note, x
  <2>1. CASE ~ShouldSave(note)
    BY <1>1, <2>1 DEF Leaves
  <2>2. CASE ShouldSave(note) /\ removed
    <3>1. kept = RemoveEntry(b, id) /\ reason # "Expired"
      BY <2>2
    <3> HIDE DEF kept, off, rest
    <3> QED  BY <1>1, <3>1, RemoveEntryInv
  <2>3. CASE ShouldSave(note) /\ ~removed /\ InHistory(b, id)
    <3>1. kept = MarkClosed(b, id) /\ id \notin off
      BY <2>3
    <3> HIDE DEF kept, off, rest
    <3> QED  BY <1>1, <2>3, <3>1, MarkClosedInv
  <2>4. CASE ShouldSave(note) /\ ~removed /\ ~InHistory(b, id)
    <3>1. kept = Upsert(b, x) /\ x.id \notin off /\ x.id < n
      BY <1>2, <2>4
    <3>2. PICK e \in HistoryEntry : e = x
      BY <1>2
    <3> HIDE DEF kept, off, rest
    <3> QED  BY <1>1, <2>4, <3>1, <3>2, UpsertInv
  <2> QED  BY <2>1, <2>2, <2>3, <2>4
<1>5. c = UnreadWas(sent, Unread(b))
    BY DEF CloseLive
<1>6. id \notin off /\ id \in given \cap Ids
    OBVIOUS
<1>7. \/ sent = Emit(Refreshed(kept), id)
      \/ /\ sent = [Refreshed(kept) EXCEPT !.pending = @ \cup {id}]
         /\ reason = "Expired"
    OBVIOUS
<1> HIDE DEF kept, off, c, sent
<1>8. PICK had : had = Unread(b)
    OBVIOUS
<1>9. Signals(b, kept, sent, id)
    BY <1>4, <1>7 DEF Signals
<1> HIDE DEF rest, heard
<1>10. rest = given \ {id}
    BY DEF rest
<1>11. BookInv(kept, off, rest, n, d) /\ Leaves(b, kept)
    BY <1>4
<1>12. BookInv(UnreadWas(sent, had), off, given, n, d)
    BY <1>6, <1>9, <1>10, <1>11, CloseEnds
<1>13. UnreadWas(sent, had).refresh = TRUE
    BY <1>6, <1>9, <1>10, <1>11, CloseEnds
<1>14. NoneLeft(b, UnreadWas(sent, had))
    BY <1>6, <1>9, <1>10, <1>11, CloseEnds
<1>15. ASSUME sent = Emit(Refreshed(kept), id)
       PROVE  Leaves(b, UnreadWas(sent, had))
    BY <1>6, <1>9, <1>10, <1>11, <1>15, CloseEnds
<1> QED  BY <1>5, <1>7, <1>8, <1>12, <1>13, <1>14, <1>15 DEF c, off

\* A fresh id is given out, to be seen or not.
LEMMA FreshId ==
    ASSUME NEW on, NEW given, NEW n \in Ids, NEW d, NEW b, BookInv(b, on, given, n, d), n \notin given
    PROVE  BookInv(b, on \cup {n}, given \cup {n}, n + 1, d)
<1>1. InOrder(b.history, on \cup {n}, n + 1)
  <2> SUFFICES ASSUME NEW e \in Range(b.history)
               PROVE  e.id < n + 1 /\ (e.id \in on \cup {n} => e.active)
    BY DEF BookInv, InOrder
  <2>1. e.id \in Nat
    <3>1. b.history \in Seq(HistoryEntry)
      BY DEF BookInv, InOrder
    <3>2. e \in HistoryEntry
      BY <3>1 DEF Range
    <3> QED  BY <3>2 DEF HistoryEntry, Ids
  <2>2. e.id < n /\ (e.id \in on => e.active)
    BY DEF BookInv, InOrder
  <2> QED  BY <2>1, <2>2 DEF Ids
<1>2. Owes(b, on \cup {n}, given \cup {n})
  <2>1. b.pending \subseteq given \cup {n} /\ b.pending \cap (on \cup {n}) = {}
    BY DEF BookInv, Owes
  <2> SUFFICES ASSUME NEW j \in Ids
               PROVE  b.told[j] = IF j \in given \cup {n} /\ j \notin on \cup {n} /\ j \notin b.pending
                                  THEN 1 ELSE 0
    BY <2>1 DEF Owes
  <2>2. b.told[j] = IF j \in given /\ j \notin on /\ j \notin b.pending THEN 1 ELSE 0
    BY DEF BookInv, Owes
  <2> QED  BY <2>2
<1> QED  BY <1>1, <1>2 DEF BookInv

LEMMA SpentId ==
    ASSUME NEW on, NEW given, NEW n \in Ids, NEW d, NEW b, BookInv(b, on, given, n, d)
    PROVE  BookInv(b, on, given, n + 1, d)
<1>1. InOrder(b.history, on, n + 1)
  <2> SUFFICES ASSUME NEW e \in Range(b.history)
               PROVE  e.id < n + 1
    BY DEF BookInv, InOrder
  <2>1. e.id \in Nat
    <3>1. b.history \in Seq(HistoryEntry)
      BY DEF BookInv, InOrder
    <3>2. e \in HistoryEntry
      BY <3>1 DEF Range
    <3> QED  BY <3>2 DEF HistoryEntry, Ids
  <2>2. e.id < n
    BY DEF BookInv, InOrder
  <2> QED  BY <2>1, <2>2 DEF Ids
<1> QED  BY <1>1 DEF BookInv

\* What is saved or refreshed later makes no difference to the rest.
LEMMA OtherMarks ==
    ASSUME NEW on, NEW given, NEW n, NEW d, NEW b, BookInv(b, on, given, n, d),
           NEW c \in Books, c.history = b.history, c.pending = b.pending, c.told = b.told,
           NEW e, c.save \/ e.behind \/ e.history = c.history
    PROVE  BookInv(c, on, given, n, e)
<1>1. InOrder(c.history, on, n)
    BY DEF BookInv
<1>2. Owes(c, on, given)
    BY DEF BookInv, Owes
<1> QED  BY <1>1, <1>2 DEF BookInv

-----------------------------------------------------------------------------
(* What is on screen is dismissed, one after the other. *)

LiveIds == {id \in Ids : IsLive(id)}

Dismisses(k, n) ==
    k = [i \in 0..n |-> IF i = 0 THEN Book
                        ELSE IF IsLive(i) THEN CloseLive(k[i - 1], i, "Dismissed")
                        ELSE k[i - 1]]

LEMMA DismissesAt ==
    ASSUME NEW k, NEW n \in Nat, Dismisses(k, n)
    PROVE  /\ k[0] = Book
           /\ \A i \in 1..n : k[i] = IF IsLive(i) THEN CloseLive(k[i - 1], i, "Dismissed")
                                    ELSE k[i - 1]
<1> DEFINE Body(i) == IF i = 0 THEN Book
                      ELSE IF IsLive(i) THEN CloseLive(k[i - 1], i, "Dismissed")
                      ELSE k[i - 1]
           f == [i \in 0..n |-> Body(i)]
<1>1. k = f
    BY DEF Dismisses
<1>2. \A i \in 1..n : Body(i) = IF IsLive(i) THEN CloseLive(k[i - 1], i, "Dismissed") ELSE k[i - 1]
    OBVIOUS
<1>3. Body(0) = Book
    OBVIOUS
<1> HIDE DEF Body
<1>4. \A i \in 0..n : f[i] = Body(i)
    OBVIOUS
<1> HIDE DEF f
<1>5. \A i \in 0..n : k[i] = Body(i)
    BY <1>1, <1>4
<1>6. k[0] = Book
    BY <1>3, <1>5
<1>7. \A i \in 1..n : k[i] = Body(i)
    BY <1>5
<1> QED  BY <1>2, <1>6, <1>7

LEMMA DismissesExists == \A n \in Nat : \E k : Dismisses(k, n)
<1> DEFINE S == {n \in Nat : \E k : Dismisses(k, n)}
<1>1. 0 \in S
  <2> DEFINE k == [i \in 0..0 |-> Book]
  <2>1. k = [i \in 0..0 |-> IF i = 0 THEN Book
                            ELSE IF IsLive(i) THEN CloseLive(k[i - 1], i, "Dismissed")
                            ELSE k[i - 1]]
    OBVIOUS
  <2>2. Dismisses(k, 0)
    BY <2>1 DEF Dismisses
  <2> QED  BY <2>2
<1>2. ASSUME NEW n \in Nat, n \in S
      PROVE  n + 1 \in S
  <2>1. PICK k : Dismisses(k, n)
    BY <1>2
  <2>2. /\ k[0] = Book
        /\ \A i \in 1..n : k[i] = IF IsLive(i) THEN CloseLive(k[i - 1], i, "Dismissed")
                                  ELSE k[i - 1]
    BY <2>1, DismissesAt
  <2> DEFINE last == IF IsLive(n + 1) THEN CloseLive(k[n], n + 1, "Dismissed") ELSE k[n]
             m == [i \in 0..(n + 1) |-> IF i = n + 1 THEN last ELSE k[i]]
  <2>3. m[n + 1] = last /\ \A i \in 0..n : m[i] = k[i]
    OBVIOUS
  <2>4. \A i \in 0..(n + 1) :
            m[i] = IF i = 0 THEN Book
                   ELSE IF IsLive(i) THEN CloseLive(m[i - 1], i, "Dismissed")
                   ELSE m[i - 1]
    <3> SUFFICES ASSUME NEW i \in 0..(n + 1)
                 PROVE  m[i] = IF i = 0 THEN Book
                               ELSE IF IsLive(i) THEN CloseLive(m[i - 1], i, "Dismissed")
                               ELSE m[i - 1]
      OBVIOUS
    <3>1. CASE i = 0
      BY <2>2, <2>3, <3>1
    <3>2. CASE i \in 1..n
      BY <2>2, <2>3, <3>2
    <3>3. CASE i = n + 1
      BY <2>3, <3>3
    <3> HIDE DEF m
    <3> QED  BY <3>1, <3>2, <3>3
  <2>5. m = [i \in 0..(n + 1) |-> IF i = 0 THEN Book
                                  ELSE IF IsLive(i) THEN CloseLive(m[i - 1], i, "Dismissed")
                                  ELSE m[i - 1]]
    <3>1. m = [i \in 0..(n + 1) |-> m[i]]
      OBVIOUS
    <3> HIDE DEF m
    <3> QED  BY <2>4, <3>1
  <2> HIDE DEF m
  <2>6. Dismisses(m, n + 1)
    BY <2>5 DEF Dismisses
  <2> QED  BY <2>6
<1> HIDE DEF S
<1>3. Nat \subseteq S
    BY <1>1, <1>2, Induction
<1> QED  BY <1>3 DEF S

LEMMA DismissedIs == Dismisses(Dismissed, MaxId)
<1>1. PICK j : Dismisses(j, MaxId)
    BY DismissesExists, NotificationAssumption
<1>2. Dismissed = CHOOSE k : Dismisses(k, MaxId)
    BY Zenon DEF Dismissed, Dismisses
<1> QED  BY <1>1, <1>2

LEMMA DismissedInv ==
    ASSUME live \in [Ids -> Note \cup {NoNote}], LiveIds \subseteq issued, issued \subseteq Ids,
           \A id \in issued : id < nextId,
           NEW d, BookInv(Book, LiveIds, issued, nextId, d)
    PROVE  /\ BookInv(Dismissed[MaxId], {}, issued, nextId, d)
           /\ Leaves(Book, Dismissed[MaxId])
<1> DEFINE on(m) == LiveIds \ 1..m
           Q(m) == BookInv(Dismissed[m], on(m), issued, nextId, d) /\ Leaves(Book, Dismissed[m])
           S == {m \in Nat : m <= MaxId => Q(m)}
<1>0. MaxId \in Nat
    BY NotificationAssumption
<1>1. /\ Dismissed[0] = Book
      /\ \A i \in 1..MaxId : Dismissed[i] = IF IsLive(i) THEN CloseLive(Dismissed[i - 1], i, "Dismissed")
                                            ELSE Dismissed[i - 1]
    BY <1>0, DismissedIs, DismissesAt
<1>2. 0 \in S
  <2>1. on(0) = LiveIds
    OBVIOUS
  <2>2. Leaves(Book, Book)
    BY DEF Leaves
  <2> QED  BY <1>1, <2>1, <2>2
<1>3. ASSUME NEW m \in Nat, m \in S
      PROVE  m + 1 \in S
  <2> SUFFICES ASSUME m + 1 <= MaxId PROVE Q(m + 1)
    OBVIOUS
  <2>1. m <= MaxId /\ m + 1 \in 1..MaxId /\ m + 1 \in Ids
    BY <1>0 DEF Ids
  <2>2. BookInv(Dismissed[m], on(m), issued, nextId, d) /\ Leaves(Book, Dismissed[m])
    BY <1>3, <2>1
  <2>3. PICK a : a = on(m)
    OBVIOUS
  <2>4. PICK b : b = Dismissed[m]
    OBVIOUS
  <2>5. BookInv(b, a, issued, nextId, d) /\ Leaves(Book, b)
    BY <2>2, <2>3, <2>4
  <2>6. CASE IsLive(m + 1)
    <3>1. Dismissed[m + 1] = CloseLive(b, m + 1, "Dismissed")
      BY <1>1, <2>1, <2>4, <2>6
    <3>2. m + 1 \in LiveIds /\ m + 1 \in a \cap issued \cap Ids /\ m + 1 < nextId
      BY <2>1, <2>3, <2>6 DEF LiveIds
    <3>3. live[m + 1] \in Note
      BY <2>1, <2>6 DEF IsLive
    <3>4. PICK id : id = m + 1
      OBVIOUS
    <3>5. BookInv(CloseLive(b, id, "Dismissed"), a \ {id}, issued, nextId, d)
      BY <2>5, <3>2, <3>3, <3>4, CloseLiveInv
    <3>6. Leaves(b, CloseLive(b, id, "Dismissed"))
      BY <2>5, <3>2, <3>3, <3>4, CloseLiveInv, SMTT(30), ZenonT(40)
    <3>7. on(m + 1) = a \ {id}
      BY <2>3, <3>4
    <3>8. Leaves(Book, CloseLive(b, id, "Dismissed"))
      BY <2>5, <3>6, LeavesTwice
    <3> HIDE DEF on
    <3> QED  BY <3>1, <3>4, <3>5, <3>7, <3>8
  <2>7. CASE ~IsLive(m + 1)
    <3>1. Dismissed[m + 1] = b
      BY <1>1, <2>1, <2>4, <2>7
    <3>2. on(m + 1) = a
      BY <2>3, <2>7 DEF LiveIds
    <3> HIDE DEF on
    <3> QED  BY <2>5, <3>1, <3>2
  <2> QED  BY <2>6, <2>7
<1>4. MaxId \in S
  <2> HIDE DEF S
  <2> QED  BY <1>0, <1>2, <1>3, Induction
<1>5. on(MaxId) = {}
    BY DEF LiveIds, Ids
<1> QED  BY <1>0, <1>4, <1>5
-----------------------------------------------------------------------------
(* What holds of the manager in every state. *)

\* What is on screen was given out, and no id in use is given out again.
ScreenInv ==
    /\ live \in [Ids -> Note \cup {NoNote}]
    /\ expiring \subseteq LiveIds /\ LiveIds \subseteq issued
    /\ issued \subseteq Ids /\ suppressed \subseteq Ids
    /\ \A id \in issued \cup suppressed : id < nextId
    /\ nextId \in 1..MaxId + 1
    /\ indicator \in BOOLEAN /\ panelOpen \in BOOLEAN

\* A file from which the manager can start.
Loadable(f) ==
    /\ f \in [history : Seq(HistoryEntry), nextId : 1..MaxId + 1, behind : BOOLEAN]
    /\ Len(f.history) <= MaxHistory /\ Unique(f.history)

NoteInv ==
    /\ ScreenInv
    /\ Loadable(disk)
    /\ BookInv(Book, LiveIds, issued, nextId, disk)
    /\ Bar(Book, indicator)

\* No close signal stays owed for an entry that this step takes away.
NoneLeftNow == \A id \in Ids : InHistory(Book, id) /\ ~InHistory(Book, id)' => id \notin pending'

LEMMA KeepIs ==
    ASSUME NEW c, c \in Books, Keep(c)
    PROVE  Book' = c
BY DEF Keep, Book, Books

\* A step whose book is c.
LEMMA BookStep ==
    ASSUME NEW c, Keep(c), NoneLeft(Book, c), Bar(c, indicator'), ScreenInv', Loadable(disk'),
           NEW on, on = LiveIds', NEW given, given = issued', NEW n, n = nextId',
           NEW d, d = disk', BookInv(c, on, given, n, d)
    PROVE  NoteInv' /\ NoneLeftNow
<1>1. Book' = c
    BY KeepIs DEF BookInv
<1>2. BookInv(Book, LiveIds, issued, nextId, disk)'
    BY <1>1
<1>3. Bar(Book, indicator)'
    BY <1>1
<1>4. Loadable(disk)'
    OBVIOUS
<1>5. pending' = c.pending
    BY DEF Keep
<1>6. \A id : InHistory(Book, id)' <=> InHistory(c, id)
    BY <1>1
<1>7. NoneLeftNow
    BY <1>5, <1>6 DEF NoneLeftNow, NoneLeft
<1> QED  BY <1>2, <1>3, <1>4, <1>7 DEF NoteInv

LEMMA LeavesNone ==
    ASSUME NEW b, NEW c, Leaves(b, c)
    PROVE  NoneLeft(b, c)
BY DEF Leaves, NoneLeft

LEMMA NothingLeaves == ASSUME NEW b PROVE Leaves(b, b)
BY DEF Leaves

LEMMA GoneIs ==
    ASSUME live \in [Ids -> Note \cup {NoNote}], NEW id \in Ids, Gone(id)
    PROVE  LiveIds' = LiveIds \ {id} /\ live' \in [Ids -> Note \cup {NoNote}]
<1>1. live' = [live EXCEPT ![id] = NoNote]
    BY DEF Gone
<1>2. \A j : IsLive(j)' <=> IsLive(j) /\ j # id
    BY <1>1 DEF IsLive
<1> QED  BY <1>1, <1>2 DEF LiveIds

\* An entry is put into the history, and the bar learns of what is unread.
LEMMA UpsertServes ==
    ASSUME NEW on, NEW given, NEW n, NEW d, NEW b, BookInv(b, on, given, n, d),
           NEW entry \in HistoryEntry, entry.id < n, entry.id \in on => entry.active,
           NEW shown, Bar(b, shown)
    PROVE  LET c == UnreadWas(Upsert(b, entry), Unread(b))
           IN BookInv(c, on, given, n, d) /\ Leaves(b, c) /\ Bar(c, shown)
<1>1. PICK u : u = Upsert(b, entry)
    OBVIOUS
<1>2. PICK c : c = UnreadWas(u, Unread(b))
    OBVIOUS
<1>3. BookInv(u, on, given, n, d)
    BY <1>1, UpsertInv
<1>4. Leaves(b, u)
    BY <1>1, UpsertInv
<1>5. u.refresh = b.refresh
    BY <1>1, UpsertInv
<1>6. b.history = <<>> => Unread(u)
    BY <1>1, UpsertInv
<1>7. BookInv(c, on, given, n, d) /\ c.history = u.history /\ c.pending = u.pending
    BY <1>2, <1>3, UnreadWasInv
<1>8. Leaves(u, c)
    BY <1>7 DEF Leaves, InHistory, Place
<1>9. Leaves(b, c)
    BY <1>4, <1>8, LeavesTwice
<1>10. Bar(c, shown)
  <2>1. u \in Books
    BY <1>3 DEF BookInv
  <2> QED  BY <1>2, <1>5, <1>6, <2>1, BarUnreadWas
<1> QED  BY <1>1, <1>2, <1>7, <1>9, <1>10

LEMMA NotifyInv ==
    ASSUME NoteInv, NEW note \in Note, NEW replaces, Notify(note, replaces)
    PROVE  NoteInv' /\ NoneLeftNow
<1> DEFINE noted == IF SavesHistory(note)
                    THEN UnreadWas(Upsert(Book, Entry(nextId, note)), Unread(Book))
                    ELSE Book
           seen == IF panelOpen THEN MarkSeen(noted) ELSE noted
           after == IF ~ShowsToast(note) THEN noted ELSE Refreshed(seen)
<1>0. ScreenInv /\ nextId \in Ids /\ nextId \notin issued /\ Loadable(disk)
    BY DEF NoteInv, ScreenInv, Notify
<1>1. BookInv(Book, LiveIds \cup {nextId}, issued \cup {nextId}, nextId + 1, disk)
    BY <1>0, FreshId DEF NoteInv
<1>2. LiveIds' = LiveIds \cup {nextId} /\ live' \in [Ids -> Note \cup {NoNote}]
  <2>1. live' = [live EXCEPT ![nextId] = note] /\ note # NoNote
    BY NotificationAssumption DEF Notify, Note
  <2>2. \A j : IsLive(j)' <=> IsLive(j) \/ j = nextId
    BY <1>0, <2>1 DEF IsLive, ScreenInv
  <2> QED  BY <1>0, <2>1, <2>2 DEF LiveIds, ScreenInv
<1>3. /\ issued' = issued \cup {nextId} /\ nextId' = nextId + 1
      /\ suppressed' \subseteq suppressed /\ panelOpen' = panelOpen
      /\ expiring' \subseteq expiring \cup {nextId} /\ disk' = disk /\ indicator' = indicator
    BY DEF Notify, shell
<1>4. ScreenInv'
  <2>1. nextId \in Nat /\ nextId + 1 \in 1..MaxId + 1
    BY <1>0, NotificationAssumption DEF Ids
  <2>2. \A id \in issued' \cup suppressed' : id < nextId'
    <3> SUFFICES ASSUME NEW id \in issued' \cup suppressed' PROVE id < nextId + 1
      BY <1>3
    <3>1. id = nextId \/ id \in issued \cup suppressed
      BY <1>3
    <3>2. id \in Nat
      <4>1. id \in Ids
        BY <1>0, <3>1 DEF ScreenInv
      <4> QED  BY <4>1 DEF Ids
    <3> QED  BY <1>0, <2>1, <3>1, <3>2 DEF ScreenInv
  <2>3. suppressed' \subseteq Ids /\ issued' \subseteq Ids
    BY <1>0, <1>3 DEF ScreenInv
  <2>4. expiring' \subseteq LiveIds' /\ LiveIds' \subseteq issued'
    BY <1>0, <1>2, <1>3 DEF ScreenInv
  <2> QED  BY <1>0, <1>2, <1>3, <2>1, <2>2, <2>3, <2>4 DEF ScreenInv
<1>5. Keep(after)
    BY DEF Notify
<1>6. PICK on : on = LiveIds \cup {nextId}
    OBVIOUS
<1>7. PICK given : given = issued \cup {nextId}
    OBVIOUS
<1>8. PICK n : n = nextId + 1
    OBVIOUS
<1>9. PICK d : d = disk
    OBVIOUS
<1>10. PICK b : b = Book
    OBVIOUS
<1>11. BookInv(b, on, given, n, d) /\ Bar(b, indicator)
    BY <1>1, <1>6, <1>7, <1>8, <1>9, <1>10 DEF NoteInv
<1>12. BookInv(noted, on, given, n, d) /\ Leaves(b, noted) /\ Bar(noted, indicator)
  <2>1. CASE SavesHistory(note)
    <3>1. PICK e : e = Entry(nextId, note)
      OBVIOUS
    <3>2. e \in HistoryEntry /\ e.id < n /\ e.active
      BY <1>0, <1>8, <3>1 DEF Entry, HistoryEntry, Note, Ids
    <3>3. noted = UnreadWas(Upsert(b, e), Unread(b))
      BY <1>10, <2>1, <3>1
    <3> HIDE DEF noted
    <3> QED  BY <1>11, <3>2, <3>3, UpsertServes
  <2>2. CASE ~SavesHistory(note)
    BY <1>10, <1>11, <2>2, NothingLeaves
  <2> QED  BY <2>1, <2>2
<1> HIDE DEF noted
<1>13. BookInv(seen, on, given, n, d) /\ Leaves(noted, seen)
    BY <1>12, MarkSeenInv, NothingLeaves
<1> HIDE DEF seen
<1>14. BookInv(after, on, given, n, d) /\ Leaves(b, after) /\ Bar(after, indicator)
  <2>1. CASE ~ShowsToast(note)
    BY <1>12, <2>1
  <2>2. CASE ShowsToast(note)
    <3>1. after = Refreshed(seen)
      BY <2>2
    <3> HIDE DEF after
    <3>2. BookInv(after, on, given, n, d)
      BY <1>13, <3>1, RefreshedInv
    <3>3. after.history = seen.history /\ after.pending = seen.pending /\ after.refresh = TRUE
      <4>1. seen \in Books
        BY <1>13 DEF BookInv
      <4> QED  BY <3>1, <4>1 DEF Refreshed, Books
    <3>4. Leaves(seen, after)
      BY <3>3 DEF Leaves, InHistory, Place
    <3>5. Leaves(b, after)
      BY <1>12, <1>13, <3>4, LeavesTwice
    <3> QED  BY <3>2, <3>3, <3>5 DEF Bar
  <2> QED  BY <2>1, <2>2
<1> HIDE DEF after
<1>15. NoneLeft(Book, after) /\ Bar(after, indicator')
    BY <1>3, <1>10, <1>14, LeavesNone
<1>16. Loadable(disk') /\ on = LiveIds' /\ given = issued' /\ n = nextId' /\ d = disk'
    BY <1>0, <1>2, <1>3, <1>6, <1>7, <1>8, <1>9
<1> QED  BY <1>4, <1>5, <1>14, <1>15, <1>16, BookStep

LEMMA LiveStays == ASSUME live' = live PROVE LiveIds' = LiveIds
BY DEF LiveIds, IsLive

\* A step that hands out no id and does not write the file.
LEMMA Serves ==
    ASSUME NoteInv, NEW c, Keep(c), NEW on, on = LiveIds',
           BookInv(c, on, issued, nextId, disk), NoneLeft(Book, c), Bar(c, indicator),
           UNCHANGED <<issued, nextId, disk, indicator>>,
           live' \in [Ids -> Note \cup {NoNote}], expiring' \subseteq on, on \subseteq LiveIds,
           suppressed' \subseteq suppressed, panelOpen' \in BOOLEAN
    PROVE  NoteInv' /\ NoneLeftNow
<1>1. ScreenInv'
    BY DEF NoteInv, ScreenInv
<1>2. Loadable(disk')
    BY DEF NoteInv
<1>3. PICK given : given = issued
    OBVIOUS
<1>4. PICK n : n = nextId
    OBVIOUS
<1>5. PICK d : d = disk
    OBVIOUS
<1>6. BookInv(c, on, given, n, d) /\ given = issued' /\ n = nextId' /\ d = disk'
    BY <1>3, <1>4, <1>5
<1>7. Bar(c, indicator')
    OBVIOUS
<1> QED  BY <1>1, <1>2, <1>6, <1>7, BookStep

\* A step that leaves the books alone.
LEMMA BooksStay ==
    ASSUME NoteInv, UNCHANGED <<live, history, pending, told, persistScheduled, refresh, issued,
                                nextId, disk, indicator>>,
           expiring' \subseteq LiveIds, suppressed' \subseteq suppressed, panelOpen' \in BOOLEAN
    PROVE  NoteInv' /\ NoneLeftNow
<1>1. Keep(Book)
    BY DEF Keep, Book
<1>2. LiveIds' = LiveIds
    BY LiveStays
<1>3. NoneLeft(Book, Book)
    BY DEF NoneLeft
<1>4. BookInv(Book, LiveIds, issued, nextId, disk) /\ Bar(Book, indicator)
    BY DEF NoteInv
<1>5. live' \in [Ids -> Note \cup {NoNote}]
    BY DEF NoteInv, ScreenInv
<1> QED  BY <1>1, <1>2, <1>3, <1>4, <1>5, Serves

LEMMA SuppressInv ==
    ASSUME NoteInv, NEW note \in Note, NEW replaces, Suppress(note, replaces)
    PROVE  NoteInv' /\ NoneLeftNow
<1>0. ScreenInv /\ nextId \in Ids /\ Loadable(disk)
    BY DEF NoteInv, Suppress
<1>1. /\ nextId' = nextId + 1 /\ suppressed' = suppressed \cup {nextId}
      /\ UNCHANGED <<live, expiring, history, pending, told, persistScheduled, refresh, issued,
                     disk, indicator, panelOpen>>
    BY DEF Suppress, shell
<1>2. LiveIds' = LiveIds
    BY <1>1, LiveStays
<1>3. ScreenInv'
  <2>1. nextId \in Nat /\ nextId + 1 \in 1..MaxId + 1
    BY <1>0, NotificationAssumption DEF Ids
  <2>2. \A id \in issued' \cup suppressed' : id < nextId'
    <3> SUFFICES ASSUME NEW id \in issued' \cup suppressed' PROVE id < nextId + 1
      BY <1>1
    <3>1. id = nextId \/ id \in issued \cup suppressed
      BY <1>1
    <3>2. id \in Nat
      <4>1. id \in Ids
        BY <1>0, <3>1 DEF ScreenInv
      <4> QED  BY <4>1 DEF Ids
    <3> QED  BY <1>0, <2>1, <3>1, <3>2 DEF ScreenInv
  <2> QED  BY <1>0, <1>1, <1>2, <2>1, <2>2 DEF ScreenInv
<1>4. Keep(Book) /\ NoneLeft(Book, Book)
    BY <1>1 DEF Keep, Book, NoneLeft
<1>5. BookInv(Book, LiveIds, issued, nextId + 1, disk) /\ Bar(Book, indicator)
    BY <1>0, SpentId DEF NoteInv
<1>6. /\ Loadable(disk') /\ Bar(Book, indicator')
      /\ BookInv(Book, LiveIds, issued, nextId', disk)
    BY <1>0, <1>1, <1>5
<1>7. LiveIds = LiveIds' /\ issued = issued' /\ disk = disk'
    BY <1>1, <1>2
<1> QED  BY <1>3, <1>4, <1>6, <1>7, BookStep

LEMMA ReplaceInv ==
    ASSUME NoteInv, NEW note \in Note, NEW id \in Ids, Replace(note, id)
    PROVE  NoteInv' /\ NoneLeftNow
<1> DEFINE noted == IF SavesHistory(note)
                    THEN UnreadWas(Upsert(Book, Entry(id, note)), Unread(Book))
                    ELSE RemoveEntry(Book, id)
           after == IF ShowsToast(note) THEN Refreshed(noted) ELSE noted
<1>0. ScreenInv /\ IsLive(id) /\ id \in issued /\ id < nextId
    BY DEF NoteInv, ScreenInv, Replace, LiveIds
<1>1. /\ UNCHANGED <<issued, nextId, disk, indicator, suppressed, panelOpen>>
      /\ expiring' \subseteq expiring \cup {id} /\ live' = [live EXCEPT ![id] = note]
    BY DEF Replace, shell
<1>2. LiveIds' = LiveIds /\ live' \in [Ids -> Note \cup {NoNote}]
  <2>1. note # NoNote
    BY NotificationAssumption DEF Note
  <2>2. \A j : IsLive(j)' <=> IsLive(j)
    BY <1>0, <1>1, <2>1 DEF IsLive, ScreenInv
  <2> QED  BY <1>0, <1>1, <2>2 DEF LiveIds, ScreenInv
<1>3. expiring' \subseteq LiveIds
    BY <1>0, <1>1 DEF ScreenInv, LiveIds
<1>4. Keep(after)
    BY DEF Replace
<1>5. PICK b : b = Book
    OBVIOUS
<1>6. PICK on : on = LiveIds
    OBVIOUS
<1>7. PICK d : d = disk
    OBVIOUS
<1>8. BookInv(b, on, issued, nextId, d) /\ Bar(b, indicator)
    BY <1>5, <1>6, <1>7 DEF NoteInv
<1>9. BookInv(noted, on, issued, nextId, d) /\ Leaves(b, noted) /\ Bar(noted, indicator)
  <2>1. CASE SavesHistory(note)
    <3>1. PICK e : e = Entry(id, note)
      OBVIOUS
    <3>2. e \in HistoryEntry /\ e.id < nextId /\ e.active
      BY <1>0, <3>1 DEF Entry, HistoryEntry, Note
    <3>3. noted = UnreadWas(Upsert(b, e), Unread(b))
      BY <1>5, <2>1, <3>1
    <3> HIDE DEF noted
    <3> QED  BY <1>8, <3>2, <3>3, UpsertServes
  <2>2. CASE ~SavesHistory(note)
    <3>1. noted = RemoveEntry(b, id)
      BY <1>5, <2>2
    <3> HIDE DEF noted
    <3> QED  BY <1>8, <3>1, RemoveEntryInv
  <2> QED  BY <2>1, <2>2
<1> HIDE DEF noted
<1>10. BookInv(after, on, issued, nextId, d) /\ Leaves(b, after) /\ Bar(after, indicator)
  <2>1. CASE ~ShowsToast(note)
    BY <1>9, <2>1
  <2>2. CASE ShowsToast(note)
    <3>1. after = Refreshed(noted)
      BY <2>2
    <3> HIDE DEF after
    <3>2. BookInv(after, on, issued, nextId, d)
      BY <1>9, <3>1, RefreshedInv
    <3>3. after.history = noted.history /\ after.pending = noted.pending /\ after.refresh = TRUE
      <4>1. noted \in Books
        BY <1>9 DEF BookInv
      <4> QED  BY <3>1, <4>1 DEF Refreshed, Books
    <3>4. Leaves(noted, after)
      BY <3>3 DEF Leaves, InHistory, Place
    <3>5. Leaves(b, after)
      BY <1>9, <3>4, LeavesTwice
    <3> QED  BY <3>2, <3>3, <3>5 DEF Bar
  <2> QED  BY <2>1, <2>2
<1> HIDE DEF after
<1>11. NoneLeft(Book, after) /\ BookInv(after, on, issued, nextId, disk)
    BY <1>5, <1>7, <1>10, LeavesNone
<1>12. on = LiveIds' /\ expiring' \subseteq on /\ on \subseteq LiveIds
    BY <1>2, <1>3, <1>6
<1>13. panelOpen' \in BOOLEAN /\ suppressed' \subseteq suppressed
    BY <1>0, <1>1 DEF ScreenInv
<1> QED  BY <1>1, <1>2, <1>4, <1>10, <1>11, <1>12, <1>13, Serves

\* A step of Serves that leaves the screen alone.
LEMMA ServesHistory ==
    ASSUME NoteInv, NEW c, Keep(c),
           BookInv(c, LiveIds, issued, nextId, disk), Leaves(Book, c), Bar(c, indicator),
           UNCHANGED <<live, expiring, issued, nextId, disk, indicator, suppressed>>,
           panelOpen' \in BOOLEAN
    PROVE  NoteInv' /\ NoneLeftNow
<1>1. LiveIds' = LiveIds
    BY LiveStays
<1>2. NoneLeft(Book, c)
    BY LeavesNone
<1>3. live' \in [Ids -> Note \cup {NoNote}] /\ expiring' \subseteq LiveIds
    BY DEF NoteInv, ScreenInv
<1> QED  BY <1>1, <1>2, <1>3, Serves

\* The book of this state.
LEMMA BookNow ==
    ASSUME NoteInv
    PROVE  /\ BookInv(Book, LiveIds, issued, nextId, disk) /\ Bar(Book, indicator)
           /\ ScreenInv
BY DEF NoteInv

LEMMA CloseLiveServes ==
    ASSUME NoteInv, NEW id \in Ids, IsLive(id), NEW reason, Keep(CloseLive(Book, id, reason)),
           Gone(id), UNCHANGED <<issued, nextId, disk, indicator, suppressed, panelOpen>>
    PROVE  NoteInv' /\ NoneLeftNow
<1>1. ScreenInv /\ id \in LiveIds /\ id \in issued /\ id < nextId /\ live[id] \in Note
    BY DEF NoteInv, ScreenInv, LiveIds, IsLive
<1>2. PICK c : c = CloseLive(Book, id, reason)
    OBVIOUS
<1>3. LiveIds' = LiveIds \ {id} /\ live' \in [Ids -> Note \cup {NoNote}]
    BY <1>1, GoneIs DEF ScreenInv
<1>4. PICK on : on = LiveIds \ {id}
    OBVIOUS
<1>5. PICK d : d = disk
    OBVIOUS
<1>6. PICK b : b = Book
    OBVIOUS
<1>7. PICK screen : screen = LiveIds
    OBVIOUS
<1>8. BookInv(b, screen, issued, nextId, d) /\ id \in screen \cap issued \cap Ids
    BY <1>1, <1>5, <1>6, <1>7, BookNow
<1>9. BookInv(CloseLive(b, id, reason), screen \ {id}, issued, nextId, d)
    BY <1>1, <1>8, CloseLiveInv
<1>10. CloseLive(b, id, reason).refresh = TRUE
    BY <1>1, <1>8, CloseLiveInv, SMTT(30), ZenonT(40)
<1>11. NoneLeft(b, CloseLive(b, id, reason))
    BY <1>1, <1>8, CloseLiveInv, SMTT(30), ZenonT(40)
<1>12. c = CloseLive(b, id, reason) /\ on = screen \ {id}
    BY <1>2, <1>4, <1>6, <1>7
<1>13. BookInv(c, on, issued, nextId, disk)
    BY <1>5, <1>9, <1>12
<1>14. NoneLeft(Book, c) /\ Bar(c, indicator)
    BY <1>6, <1>10, <1>11, <1>12 DEF Bar
<1>15. expiring' \subseteq on /\ on \subseteq LiveIds /\ on = LiveIds'
    BY <1>1, <1>3, <1>4 DEF Gone, ScreenInv
<1>16. Keep(c) /\ panelOpen' \in BOOLEAN /\ suppressed' \subseteq suppressed
    BY <1>1, <1>2 DEF ScreenInv
<1> QED  BY <1>3, <1>13, <1>14, <1>15, <1>16, Serves

LEMMA CloseInv ==
    ASSUME NoteInv, NEW id \in Ids, NEW reason, Close(id, reason)
    PROVE  NoteInv' /\ NoneLeftNow
<1>1. UNCHANGED <<issued, nextId, disk, indicator, suppressed, panelOpen>>
    BY DEF Close, shell
<1>2. CASE IsLive(id) /\ Keep(CloseLive(Book, id, reason)) /\ Gone(id)
    BY <1>1, <1>2, CloseLiveServes
<1>3. CASE /\ ~IsLive(id) /\ Keep(ClosePending(Book, id, reason))
           /\ UNCHANGED <<live, expiring>>
  <2>1. id \notin LiveIds
    BY <1>3 DEF LiveIds
  <2>2. PICK c : c = ClosePending(Book, id, reason)
    OBVIOUS
  <2>3. PICK b : b = Book
    OBVIOUS
  <2>4. BookInv(b, LiveIds, issued, nextId, disk) /\ Bar(b, indicator)
    BY <2>3, BookNow
  <2>5. c = ClosePending(b, id, reason)
    BY <2>2, <2>3
  <2>6. BookInv(c, LiveIds, issued, nextId, disk)
    BY <2>1, <2>4, <2>5, ClosePendingInv
  <2>7. Leaves(b, c)
    BY <2>1, <2>4, <2>5, ClosePendingInv
  <2>8. Bar(c, indicator)
    BY <2>1, <2>4, <2>5, ClosePendingInv
  <2>9. Keep(c) /\ Leaves(Book, c) /\ panelOpen' \in BOOLEAN
    BY <1>1, <1>3, <2>2, <2>3, <2>7, BookNow DEF ScreenInv
  <2> QED  BY <1>1, <1>3, <2>6, <2>8, <2>9, ServesHistory
<1> QED  BY <1>2, <1>3 DEF Close

LEMMA InvokeInv ==
    ASSUME NoteInv, NEW id \in Ids, NEW closes \in BOOLEAN, Invoke(id, closes)
    PROVE  NoteInv' /\ NoneLeftNow
<1>1. UNCHANGED <<issued, nextId, disk, indicator, suppressed, panelOpen>>
    BY DEF Invoke, shell, manager
<1>2. CASE UNCHANGED <<manager, persistScheduled, refresh, told>>
  <2>1. expiring' \subseteq LiveIds /\ panelOpen' \in BOOLEAN
    BY <1>1, <1>2, BookNow DEF ScreenInv, manager
  <2> QED  BY <1>1, <1>2, <2>1, BooksStay DEF manager
<1>3. CASE IsLive(id) /\ Keep(CloseLive(Book, id, "Dismissed")) /\ Gone(id)
    BY <1>1, <1>3, CloseLiveServes
<1>4. CASE /\ ~IsLive(id) /\ Keep(InvokedEntry(Book, id))
           /\ UNCHANGED <<live, expiring>>
  <2>1. id \notin LiveIds
    BY <1>4 DEF LiveIds
  <2>2. PICK c : c = InvokedEntry(Book, id)
    OBVIOUS
  <2>3. PICK b : b = Book
    OBVIOUS
  <2>4. BookInv(b, LiveIds, issued, nextId, disk) /\ Bar(b, indicator)
    BY <2>3, BookNow
  <2>5. c = InvokedEntry(b, id)
    BY <2>2, <2>3
  <2>6. BookInv(c, LiveIds, issued, nextId, disk)
    BY <2>1, <2>4, <2>5, InvokedEntryInv
  <2>7. Leaves(b, c)
    BY <2>1, <2>4, <2>5, InvokedEntryInv
  <2>8. Bar(c, indicator)
    BY <2>1, <2>4, <2>5, InvokedEntryInv
  <2>9. Keep(c) /\ Leaves(Book, c) /\ panelOpen' \in BOOLEAN
    BY <1>1, <1>4, <2>2, <2>3, <2>7, BookNow DEF ScreenInv
  <2> QED  BY <1>1, <1>4, <2>6, <2>8, <2>9, ServesHistory
<1> QED  BY <1>2, <1>3, <1>4 DEF Invoke

LEMMA RemoveByUserInv ==
    ASSUME NoteInv, NEW id \in Ids, RemoveByUser(id)
    PROVE  NoteInv' /\ NoneLeftNow
<1>1. UNCHANGED <<issued, nextId, disk, indicator, suppressed, panelOpen>>
    BY DEF RemoveByUser, shell
<1>2. PICK b : b = Book
    OBVIOUS
<1>3. PICK d : d = disk
    OBVIOUS
<1>4. PICK screen : screen = LiveIds
    OBVIOUS
<1>5. BookInv(b, screen, issued, nextId, d) /\ Bar(b, indicator) /\ ScreenInv
    BY <1>2, <1>3, <1>4, BookNow
<1>6. CASE /\ IsLive(id) /\ Gone(id)
           /\ Keep(RemoveEntry(CloseLive(Book, id, "Dismissed"), id))
  <2>1. id \in screen \cap issued \cap Ids /\ id < nextId /\ live[id] \in Note
    BY <1>4, <1>5, <1>6 DEF ScreenInv, LiveIds, IsLive
  <2>2. PICK m : m = CloseLive(b, id, "Dismissed")
    OBVIOUS
  <2>3. PICK on : on = screen \ {id}
    OBVIOUS
  <2>4. BookInv(m, on, issued, nextId, d)
    BY <1>5, <2>1, <2>2, <2>3, CloseLiveInv
  <2>5. m.refresh = TRUE
    BY <1>5, <2>1, <2>2, CloseLiveInv
  <2>6. Leaves(b, m)
    BY <1>5, <2>1, <2>2, CloseLiveInv
  <2>7. PICK c : c = RemoveEntry(m, id)
    OBVIOUS
  <2>8. BookInv(c, on, issued, nextId, d)
    BY <2>4, <2>7, RemoveEntryInv
  <2>9. Leaves(m, c)
    BY <2>4, <2>7, RemoveEntryInv
  <2>10. Bar(c, indicator)
    <3>1. Bar(m, indicator)
      BY <2>5 DEF Bar
    <3> QED  BY <2>4, <2>7, <3>1, RemoveEntryInv
  <2>11. NoneLeft(Book, c)
    BY <1>2, <2>6, <2>9, LeavesTwice, LeavesNone
  <2>12. LiveIds' = on /\ live' \in [Ids -> Note \cup {NoNote}]
    BY <1>4, <1>5, <1>6, <2>3, GoneIs DEF ScreenInv
  <2>13. expiring' \subseteq on /\ on \subseteq LiveIds
    BY <1>4, <1>5, <1>6, <2>3 DEF Gone, ScreenInv
  <2>14. Keep(c) /\ panelOpen' \in BOOLEAN /\ suppressed' \subseteq suppressed
    BY <1>1, <1>2, <1>5, <1>6, <2>2, <2>7 DEF ScreenInv
  <2>15. BookInv(c, on, issued, nextId, disk)
    BY <1>3, <2>8
  <2> QED  BY <1>1, <2>10, <2>11, <2>12, <2>13, <2>14, <2>15, Serves
<1>7. CASE Keep(RemoveEntry(Book, id)) /\ UNCHANGED <<live, expiring>>
  <2>1. PICK c : c = RemoveEntry(b, id)
    OBVIOUS
  <2>2. BookInv(c, screen, issued, nextId, d)
    BY <1>5, <2>1, RemoveEntryInv
  <2>3. Leaves(b, c)
    BY <1>5, <2>1, RemoveEntryInv
  <2>4. Bar(c, indicator)
    BY <1>5, <2>1, RemoveEntryInv
  <2>5. /\ Keep(c) /\ Leaves(Book, c) /\ panelOpen' \in BOOLEAN
        /\ BookInv(c, LiveIds, issued, nextId, disk)
    BY <1>1, <1>2, <1>3, <1>4, <1>5, <1>7, <2>1, <2>2, <2>3 DEF ScreenInv
  <2> QED  BY <1>1, <1>7, <2>4, <2>5, ServesHistory
<1> QED  BY <1>6, <1>7 DEF RemoveByUser

LEMMA ClearAllInv ==
    ASSUME NoteInv, ClearAll
    PROVE  NoteInv' /\ NoneLeftNow
<1>0. ScreenInv
    BY BookNow
<1>1. /\ UNCHANGED <<issued, nextId, disk, indicator, suppressed, panelOpen>>
      /\ live' = [id \in Ids |-> NoNote] /\ expiring' = {}
    BY DEF ClearAll, shell
<1>2. PICK d : d = disk
    OBVIOUS
<1>3. PICK m : m = Dismissed[MaxId]
    OBVIOUS
<1>4. BookInv(m, {}, issued, nextId, d) /\ Leaves(Book, m)
  <2>1. BookInv(Book, LiveIds, issued, nextId, d)
    BY <1>2, BookNow
  <2>2. /\ live \in [Ids -> Note \cup {NoNote}] /\ LiveIds \subseteq issued /\ issued \subseteq Ids
        /\ \A id \in issued : id < nextId
    BY <1>0 DEF ScreenInv
  <2> QED  BY <1>3, <2>1, <2>2, DismissedInv
<1>5. PICK c : c = Clear(m)
    OBVIOUS
<1>6. PICK on : on = {}
    OBVIOUS
<1>7. BookInv(m, on, issued, nextId, d)
    BY <1>4, <1>6
<1>8. BookInv(c, on, issued, nextId, d)
    BY <1>5, <1>7, ClearInv
<1>9. Leaves(m, c)
    BY <1>5, <1>7, ClearInv
<1>10. Bar(c, indicator)
    BY <1>5, <1>7, ClearInv
<1>11. NoneLeft(Book, c)
    BY <1>4, <1>9, LeavesTwice, LeavesNone
<1>12. LiveIds' = on /\ live' \in [Ids -> Note \cup {NoNote}]
  <2>1. \A id : ~IsLive(id)'
    BY <1>1 DEF IsLive
  <2> QED  BY <1>1, <1>6, <2>1 DEF LiveIds
<1>13. Keep(c) /\ panelOpen' \in BOOLEAN /\ suppressed' \subseteq suppressed
    BY <1>0, <1>1, <1>3, <1>5 DEF ClearAll, ScreenInv
<1>14. BookInv(c, on, issued, nextId, disk) /\ on \subseteq LiveIds /\ expiring' \subseteq on
    BY <1>1, <1>2, <1>6, <1>8
<1> QED  BY <1>1, <1>10, <1>11, <1>12, <1>13, <1>14, Serves

LEMMA ClearHistoryInv ==
    ASSUME NoteInv, ClearHistory
    PROVE  NoteInv' /\ NoneLeftNow
<1>1. UNCHANGED <<live, expiring, issued, nextId, disk, indicator, suppressed, panelOpen>>
    BY DEF ClearHistory, shell
<1>2. PICK b : b = Book
    OBVIOUS
<1>3. PICK c : c = Clear(b)
    OBVIOUS
<1>4. BookInv(b, LiveIds, issued, nextId, disk)
    BY <1>2, BookNow
<1>5. BookInv(c, LiveIds, issued, nextId, disk)
    BY <1>3, <1>4, ClearInv
<1>6. Leaves(b, c)
    BY <1>3, <1>4, ClearInv
<1>7. Bar(c, indicator)
    BY <1>3, <1>4, ClearInv
<1>8. Keep(c) /\ Leaves(Book, c) /\ panelOpen' \in BOOLEAN
    BY <1>1, <1>2, <1>3, <1>6, BookNow DEF ClearHistory, ScreenInv
<1> QED  BY <1>1, <1>5, <1>7, <1>8, ServesHistory

LEMMA SweepInv ==
    ASSUME NoteInv, Sweep
    PROVE  NoteInv' /\ NoneLeftNow
<1>0. UNCHANGED <<live, expiring, issued, nextId, disk, indicator, suppressed, panelOpen>>
    BY DEF Sweep, shell
<1>1. PICK b : b = Book
    OBVIOUS
<1>2. PICK gone \in (SUBSET ClosedEntries) \ {{}} :
          Keep(UnreadWas(WithHistory(EmitPending(Book, gone), Without(history, gone)),
                         Unread(Book)))
    BY DEF Sweep
<1>3. history # <<>> /\ b.history = history
  <2>1. PICK id \in gone : TRUE
    OBVIOUS
  <2>2. PICK i \in {j \in DOMAIN history : ~history[j].active} : id = history[i].id
    BY <2>1, Zenon DEF ClosedEntries
  <2> QED  BY <1>1, <2>2 DEF Book
<1>4. BookInv(b, LiveIds, issued, nextId, disk) /\ Bar(b, indicator)
    BY <1>1, BookNow
<1>5. InOrder(history, LiveIds, nextId) /\ history \in Seq(HistoryEntry)
    BY <1>3, <1>4 DEF BookInv, InOrder
<1>6. PICK h : h = Without(history, gone)
    OBVIOUS
<1>7. /\ h \in Seq(HistoryEntry) /\ Len(h) <= Len(history) /\ Unique(h)
      /\ \A e : e \in Range(h) <=> e \in Range(history) /\ e.id \notin gone
    BY <1>5, <1>6, WithoutLeaves DEF InOrder
<1>8. InOrder(h, LiveIds, nextId)
  <2>1. Len(history) \in Nat /\ Len(h) \in Nat
    BY <1>5, <1>7
  <2> QED  BY <1>5, <1>7, <2>1, NotificationAssumption DEF InOrder
<1>9. PICK m : m = EmitPending(b, gone)
    OBVIOUS
<1>10. BookInv(m, LiveIds, issued, nextId, disk)
    BY <1>4, <1>9, EmitPendingInv
<1>11. m.pending = b.pending \ gone
    BY <1>4, <1>9, EmitPendingInv
<1>12. m.refresh = b.refresh
    BY <1>4, <1>9, EmitPendingInv
<1>13. PICK w : w = WithHistory(m, h)
    OBVIOUS
<1>14. BookInv(w, LiveIds, issued, nextId, disk)
    BY <1>8, <1>10, <1>13, WithHistoryInv
<1>15. w.history = h /\ w.pending = m.pending /\ w.refresh = m.refresh
    BY <1>8, <1>10, <1>13, WithHistoryInv
<1>16. PICK c : c = UnreadWas(w, Unread(b))
    OBVIOUS
<1>17. BookInv(c, LiveIds, issued, nextId, disk)
    BY <1>14, <1>16, UnreadWasInv
<1>18. c.history = h /\ c.pending = b.pending \ gone
    BY <1>11, <1>14, <1>15, <1>16, UnreadWasInv
<1>19. Bar(c, indicator)
  <2>1. w \in Books /\ w.refresh = b.refresh
    BY <1>12, <1>14, <1>15 DEF BookInv
  <2> QED  BY <1>3, <1>4, <1>16, <2>1, BarUnreadWas
<1>20. Leaves(b, c)
  <2> SUFFICES ASSUME NEW id, InHistory(b, id), ~InHistory(c, id)
               PROVE  id \in gone
    BY <1>18 DEF Leaves
  <2>1. PICK e \in Range(history) : e.id = id
    BY <1>3, InHistoryIs
  <2>2. e \notin Range(h)
    BY <1>18, <2>1, InHistoryIs
  <2> QED  BY <1>7, <2>1, <2>2
<1>21. Keep(c) /\ Leaves(Book, c) /\ panelOpen' \in BOOLEAN
    BY <1>0, <1>1, <1>2, <1>6, <1>9, <1>13, <1>16, <1>20, BookNow DEF ScreenInv
<1> QED  BY <1>0, <1>17, <1>19, <1>21, ServesHistory

LEMMA OpenPanelInv ==
    ASSUME NoteInv, OpenPanel
    PROVE  NoteInv' /\ NoneLeftNow
<1>1. /\ UNCHANGED <<live, expiring, issued, nextId, disk, indicator, suppressed>>
      /\ panelOpen' = TRUE
    BY DEF OpenPanel
<1>2. PICK b : b = Book
    OBVIOUS
<1>3. PICK c : c = MarkSeen(b)
    OBVIOUS
<1>4. BookInv(b, LiveIds, issued, nextId, disk) /\ Bar(b, indicator)
    BY <1>2, BookNow
<1>5. BookInv(c, LiveIds, issued, nextId, disk)
    BY <1>3, <1>4, MarkSeenInv
<1>6. Leaves(b, c)
    BY <1>3, <1>4, MarkSeenInv
<1>7. Bar(c, indicator)
    BY <1>3, <1>4, MarkSeenInv
<1>8. Keep(c) /\ Leaves(Book, c) /\ panelOpen' \in BOOLEAN
    BY <1>1, <1>2, <1>3, <1>6 DEF OpenPanel
<1> QED  BY <1>1, <1>5, <1>7, <1>8, ServesHistory

\* The steps that do not touch the books.
LEMMA IdleStepsInv ==
    ASSUME NoteInv,
           \/ \E id \in Ids : CloseSuppressed(id) \/ PauseExpiry(id) \/ ResumeExpiry(id)
           \/ ClosePanel \/ Configure
           \/ UNCHANGED vars
    PROVE  NoteInv' /\ NoneLeftNow
<1>1. CASE \E id \in Ids : CloseSuppressed(id) \/ PauseExpiry(id)
    BY <1>1, BooksStay, BookNow
    DEF CloseSuppressed, PauseExpiry, shell, manager, ScreenInv
<1>2. CASE \E id \in Ids : ResumeExpiry(id)
    BY <1>2, BooksStay, BookNow DEF ResumeExpiry, shell, ScreenInv, LiveIds
<1>3. CASE ClosePanel \/ Configure \/ UNCHANGED vars
    BY <1>3, BooksStay, BookNow DEF ClosePanel, Configure, vars, shell, manager, ScreenInv
<1> QED  BY <1>1, <1>2, <1>3

\* A file that is written, or was not, is one from which the manager can start.
LEMMA BlankLoads == Loadable(Blank)
<1>1. <<>> \in Seq(HistoryEntry) /\ Len(<<>>) = 0 /\ Unique(<<>>)
    BY DEF Unique
<1>2. MaxId \in Nat /\ MaxHistory \in Nat
    BY NotificationAssumption
<1> QED  BY <1>1, <1>2 DEF Loadable, Blank

LEMMA BehindLoads ==
    ASSUME NEW f, Loadable(f)
    PROVE  Loadable(Behind(f)) /\ Behind(f).behind = TRUE
<1> DEFINE g == Behind(f)
<1>1. /\ g \in [history : Seq(HistoryEntry), nextId : 1..MaxId + 1, behind : BOOLEAN]
      /\ g.history = f.history /\ g.behind = TRUE
    BY DEF Loadable, Behind
<1> HIDE DEF g
<1>2. Loadable(g)
    BY <1>1 DEF Loadable
<1> QED  BY <1>1, <1>2 DEF g

LEMMA SavesIs ==
    ASSUME NoteInv, NEW f \in Saves
    PROVE  Loadable(f) /\ (f.behind \/ f.history = history)
<1>1. ScreenInv /\ BookInv(Book, LiveIds, issued, nextId, disk) /\ Loadable(disk)
    BY BookNow DEF NoteInv
<1>2. CASE f = [history |-> history, nextId |-> nextId, behind |-> FALSE]
  <2>1. InOrder(history, LiveIds, nextId)
    BY <1>1 DEF BookInv, Book
  <2>2. nextId \in 1..MaxId + 1
    BY <1>1 DEF ScreenInv
  <2>3. f.history = history
    BY <1>2
  <2>4. /\ history \in Seq(HistoryEntry)
        /\ Len(history) <= MaxHistory /\ Unique(history)
    BY <2>1 DEF InOrder
  <2> QED  BY <1>2, <2>2, <2>3, <2>4 DEF Loadable
<1>3. CASE f \in {Behind(disk), Behind(Blank)}
    BY <1>1, <1>3, BlankLoads, BehindLoads
<1> QED  BY <1>2, <1>3 DEF Saves

LEMMA PersistInv ==
    ASSUME NoteInv, Persist
    PROVE  NoteInv' /\ NoneLeftNow
<1>0. ScreenInv /\ BookInv(Book, LiveIds, issued, nextId, disk) /\ Bar(Book, indicator)
    BY BookNow
<1>1. /\ disk' \in Saves /\ persistScheduled' = FALSE
      /\ UNCHANGED <<live, expiring, history, pending, told, refresh, issued, nextId, indicator,
                     suppressed, panelOpen>>
    BY DEF Persist, manager, shell
<1>2. LiveIds' = LiveIds
    BY <1>1, LiveStays
<1>3. ScreenInv'
    BY <1>0, <1>1, <1>2 DEF ScreenInv
<1>4. PICK c : c = [Book EXCEPT !.save = FALSE]
    OBVIOUS
<1>5. /\ c \in Books /\ c.history = Book.history /\ c.pending = Book.pending
      /\ c.told = Book.told /\ c.refresh = Book.refresh /\ c.save = FALSE
    BY <1>0, <1>4 DEF BookInv, Books, Book
<1>6. Keep(c)
    BY <1>1, <1>5 DEF Keep, Book
<1>7. InOrder(history, LiveIds, nextId) /\ Book.history = history
    BY <1>0 DEF BookInv, Book
<1>8. Loadable(disk') /\ (disk'.behind \/ disk'.history = history)
    BY <1>1, SavesIs
<1>9. PICK e : e = disk'
    OBVIOUS
<1>10. e.behind \/ e.history = c.history
    BY <1>5, <1>7, <1>8, <1>9
<1>11. BookInv(c, LiveIds, issued, nextId, e)
    BY <1>0, <1>5, <1>10, OtherMarks
<1>12. NoneLeft(Book, c)
    BY <1>5 DEF NoneLeft, InHistory, Place
<1>13. Bar(c, indicator')
  <2>1. Unread(c) = Unread(Book)
    BY <1>5 DEF Unread
  <2> QED  BY <1>0, <1>1, <1>5, <2>1, Zenon DEF Bar
<1>14. LiveIds = LiveIds' /\ issued = issued' /\ nextId = nextId'
    BY <1>1, <1>2
<1> QED  BY <1>3, <1>6, <1>8, <1>9, <1>11, <1>12, <1>13, <1>14, BookStep

LEMMA RefreshShellInv ==
    ASSUME NoteInv, RefreshShell
    PROVE  NoteInv' /\ NoneLeftNow
<1>0. ScreenInv /\ BookInv(Book, LiveIds, issued, nextId, disk) /\ Loadable(disk)
    BY BookNow DEF NoteInv
<1>1. /\ refresh' = FALSE
      /\ UNCHANGED <<live, expiring, history, pending, told, persistScheduled, issued, nextId, disk,
                     suppressed, panelOpen>>
    BY DEF RefreshShell, manager, shell
<1>1a. indicator' = Unread(Book)
    BY DEF RefreshShell
<1>2. LiveIds' = LiveIds
    BY <1>1, LiveStays
<1>3. indicator' \in BOOLEAN
    BY <1>1a DEF Unread
<1>4. ScreenInv'
    BY <1>0, <1>1, <1>2, <1>3 DEF ScreenInv
<1>5. PICK c : c = [Book EXCEPT !.refresh = FALSE]
    OBVIOUS
<1>6. /\ c \in Books /\ c.history = Book.history /\ c.pending = Book.pending
      /\ c.told = Book.told /\ c.refresh = FALSE /\ c.save = Book.save
    BY <1>0, <1>5 DEF BookInv, Books, Book
<1>7. Keep(c)
    BY <1>1, <1>6 DEF Keep, Book
<1>8. PICK e : e = disk'
    OBVIOUS
<1>9. c.save \/ e.behind \/ e.history = c.history
    BY <1>0, <1>1, <1>6, <1>8 DEF BookInv
<1>10. BookInv(c, LiveIds, issued, nextId, e)
    BY <1>0, <1>6, <1>9, OtherMarks
<1>11. NoneLeft(Book, c)
    BY <1>6 DEF NoneLeft, InHistory, Place
<1>12. Bar(c, indicator')
  <2>1. Unread(c) = Unread(Book)
    BY <1>6 DEF Unread
  <2> QED  BY <1>1a, <2>1, Zenon DEF Bar
<1>13. LiveIds = LiveIds' /\ issued = issued' /\ nextId = nextId' /\ Loadable(disk')
    BY <1>0, <1>1, <1>2
<1> QED  BY <1>4, <1>7, <1>8, <1>10, <1>11, <1>12, <1>13, BookStep

LEMMA Largest ==
    ASSUME NEW S \in SUBSET Nat, S # {}, NEW k \in Nat, \A y \in S : y <= k
    PROVE  Max(S) \in S /\ \A y \in S : y <= Max(S)
<1> DEFINE T == {m \in Nat : \A y \in S : y <= m}
<1>1. PICK m \in T : \A y \in T : m <= y
  <2>1. T # {} /\ T \in SUBSET Nat
    OBVIOUS
  <2> HIDE DEF T
  <2> QED  BY <2>1, Smallest
<1>2. m \in S
  <2> SUFFICES ASSUME m \notin S PROVE FALSE
    OBVIOUS
  <2>1. \A y \in S : y <= m - 1 /\ 0 <= y
    BY <1>1
  <2>1a. PICK y \in S : y <= m - 1 /\ 0 <= y
    BY <2>1
  <2>2. m - 1 \in T
    BY <1>1, <2>1, <2>1a
  <2> QED  BY <1>1, <2>2
<1>3. \A y \in S : m >= y
    BY <1>1
<1>4. Max(S) = CHOOSE x \in S : \A y \in S : x >= y
    BY DEF Max
<1>5. Max(S) \in S /\ \A y \in S : Max(S) >= y
    BY <1>2, <1>3, <1>4
<1> QED  BY <1>5

\* The ids of what was saved are not given out again.
LEMMA NextIdAfterIs ==
    ASSUME NEW saved, Loadable(saved)
    PROVE  /\ NextIdAfter(saved) \in 1..MaxId + 1
           /\ \A i \in DOMAIN saved.history : saved.history[i].id < NextIdAfter(saved)
<1> DEFINE S == {saved.nextId} \cup {saved.history[i].id + 1 : i \in DOMAIN saved.history}
<1>1. MaxId \in Nat
    BY NotificationAssumption
<1>2. \A i \in DOMAIN saved.history : saved.history[i].id \in 1..MaxId
  <2>1. \A i \in DOMAIN saved.history : saved.history[i] \in HistoryEntry
    BY DEF Loadable
  <2> QED  BY <2>1 DEF HistoryEntry, Ids
<1>3. \A y \in S : y \in 1..MaxId + 1
    BY <1>1, <1>2 DEF Loadable
<1>4. S \in SUBSET Nat /\ S # {}
    BY <1>1, <1>3
<1>5. \A i \in DOMAIN saved.history : saved.history[i].id + 1 \in S
    OBVIOUS
<1>6. NextIdAfter(saved) = Max(S)
    BY DEF NextIdAfter
<1> HIDE DEF S
<1>7. Max(S) \in S /\ \A y \in S : y <= Max(S)
    BY <1>1, <1>3, <1>4, Largest
<1> QED  BY <1>1, <1>2, <1>3, <1>5, <1>6, <1>7

LEMMA LoadInv ==
    ASSUME ScreenInv, NEW saved, Loadable(saved), Load(saved), Loadable(disk'),
           disk'.behind \/ disk'.history = saved.history
    PROVE  NoteInv' /\ NoneLeftNow
<1>1. /\ live' = [id \in Ids |-> NoNote] /\ expiring' = {} /\ history' = saved.history
      /\ pending' = {} /\ suppressed' = {} /\ nextId' = NextIdAfter(saved)
      /\ persistScheduled' = FALSE /\ refresh' = FALSE /\ panelOpen' = FALSE
      /\ issued' = {} /\ told' = [id \in Ids |-> 0]
    BY DEF Load
<1>2. indicator' = \E i \in DOMAIN saved.history : ~saved.history[i].seen
    BY DEF Load
<1>3. LiveIds' = {}
  <2>1. \A id : ~IsLive(id)'
    BY <1>1 DEF IsLive
  <2> QED  BY <2>1 DEF LiveIds
<1>4. ScreenInv'
  <2>1. indicator' \in BOOLEAN
    BY <1>2
  <2>2. nextId' \in 1..MaxId + 1
    BY <1>1, NextIdAfterIs
  <2> QED  BY <1>1, <1>3, <2>1, <2>2 DEF ScreenInv
<1>5. Book' = [history |-> saved.history, pending |-> {}, told |-> [id \in Ids |-> 0],
               save |-> FALSE, refresh |-> FALSE]
    BY <1>1 DEF Book
<1>6. PICK c : c = Book'
    OBVIOUS
<1>7. /\ c.history = saved.history /\ c.pending = {} /\ c.told = [id \in Ids |-> 0]
      /\ c.save = FALSE /\ c.refresh = FALSE /\ c \in Books
    BY <1>5, <1>6 DEF Loadable, Books
<1>8. PICK n : n = NextIdAfter(saved)
    OBVIOUS
<1>9. InOrder(c.history, {}, n)
  <2>1. \A e \in Range(saved.history) : e.id < n
    BY <1>8, NextIdAfterIs DEF Range
  <2> QED  BY <1>7, <2>1 DEF InOrder, Loadable
<1>10. Owes(c, {}, {})
    BY <1>7 DEF Owes
<1>11. PICK none : none = {}
    OBVIOUS
<1>12. PICK d : d = disk'
    OBVIOUS
<1>13. BookInv(c, none, none, n, d)
    BY <1>7, <1>9, <1>10, <1>11, <1>12 DEF BookInv
<1>14. none = LiveIds' /\ none = issued' /\ n = nextId' /\ d = disk'
    BY <1>1, <1>3, <1>8, <1>11, <1>12
<1>15. Bar(c, indicator')
  <2>1. Unread(c) = \E i \in DOMAIN saved.history : ~saved.history[i].seen
    BY <1>7 DEF Unread
  <2> QED  BY <1>2, <2>1, Zenon DEF Bar
<1>16. Keep(c)
    BY <1>6 DEF Keep, Book
<1>17. NoneLeft(Book, c)
    BY <1>7 DEF NoneLeft
<1> QED  BY <1>4, <1>13, <1>14, <1>15, <1>16, <1>17, BookStep

LEMMA StartsInv ==
    ASSUME ScreenInv, NEW file, Loadable(file), Starts(file)
    PROVE  NoteInv' /\ NoneLeftNow
<1>1. CASE Load(file) /\ disk' = file
    BY <1>1, LoadInv
<1>2. CASE Load(Blank) /\ disk' = Behind(file)
    BY <1>2, BlankLoads, BehindLoads, LoadInv
<1> QED  BY <1>1, <1>2 DEF Starts

LEMMA RestartInv ==
    ASSUME NoteInv, Restart
    PROVE  NoteInv' /\ NoneLeftNow
<1>1. PICK file \in Saves : Starts(file)
    BY DEF Restart
<1>2. ScreenInv /\ Loadable(file)
    BY SavesIs DEF NoteInv
<1> QED  BY <1>1, <1>2, StartsInv

LEMMA CrashInv ==
    ASSUME NoteInv, Crash
    PROVE  NoteInv' /\ NoneLeftNow
<1>1. ScreenInv /\ Loadable(disk) /\ Starts(disk)
    BY DEF NoteInv, Crash
<1> QED  BY <1>1, StartsInv

-----------------------------------------------------------------------------
(* The theorems. *)

LEMMA NoteInit == Init => NoteInv
<1> SUFFICES ASSUME Init PROVE NoteInv
    OBVIOUS
<1>1. LiveIds = {}
    BY DEF Init, LiveIds, IsLive
<1>2. <<>> \in Seq(HistoryEntry) /\ Len(<<>>) = 0 /\ Range(<<>>) = {} /\ Unique(<<>>)
    BY DEF Range, Unique
<1>3. MaxId \in Nat /\ MaxHistory \in Nat
    BY NotificationAssumption
<1>4. ScreenInv
  <2>1. live \in [Ids -> Note \cup {NoNote}]
    BY DEF Init
  <2>2. issued \cup suppressed = {} /\ expiring = {} /\ issued = {} /\ suppressed = {}
    BY DEF Init
  <2>3. nextId \in 1..MaxId + 1
    BY <1>3 DEF Init
  <2>4. indicator \in BOOLEAN /\ panelOpen \in BOOLEAN
    BY Zenon DEF Init
  <2> QED  BY <1>1, <2>1, <2>2, <2>3, <2>4 DEF ScreenInv
<1>5. disk = Blank /\ disk.history = <<>> /\ issued = {} /\ nextId = 1
    BY DEF Init, Blank
<1>6. Loadable(disk)
    BY <1>5, BlankLoads
<1>7. /\ Book.history = <<>> /\ Book.pending = {} /\ Book.told = [id \in Ids |-> 0]
      /\ Book.save = FALSE /\ Book.refresh = FALSE /\ Book \in Books
    BY <1>2 DEF Init, Book, Books
<1>8. InOrder(Book.history, {}, 1)
    BY <1>2, <1>3, <1>7 DEF InOrder
<1>9. Owes(Book, {}, {})
    BY <1>7 DEF Owes
<1>10. BookInv(Book, LiveIds, issued, nextId, disk)
    BY <1>1, <1>5, <1>7, <1>8, <1>9 DEF BookInv
<1>11. Bar(Book, indicator)
    BY <1>7 DEF Bar
<1> QED  BY <1>4, <1>6, <1>10, <1>11 DEF NoteInv

LEMMA NoteStep == NoteInv /\ [Next]_vars => NoteInv' /\ NoneLeftNow
<1> SUFFICES ASSUME NoteInv, [Next]_vars PROVE NoteInv' /\ NoneLeftNow
    OBVIOUS
<1>1. ASSUME NEW note \in Notes, NEW id \in suppressed \cup {0},
             Notify(note, id) \/ Suppress(note, id)
      PROVE  NoteInv' /\ NoneLeftNow
  <2>1. note \in Note
    BY NotificationAssumption DEF Note
  <2> QED  BY <1>1, <2>1, NotifyInv, SuppressInv
<1>2. ASSUME NEW note \in Notes, NEW id \in Ids, Replace(note, id)
      PROVE  NoteInv' /\ NoneLeftNow
  <2>1. note \in Note
    BY NotificationAssumption DEF Note
  <2> QED  BY <1>2, <2>1, ReplaceInv
<1>3. ASSUME NEW id \in Ids, Close(id, "Dismissed") \/ Close(id, "ClosedByCall") \/ Expire(id)
      PROVE  NoteInv' /\ NoneLeftNow
    BY <1>3, CloseInv DEF Expire
<1>4. ASSUME NEW id \in Ids, Invoke(id, TRUE) \/ Invoke(id, FALSE)
      PROVE  NoteInv' /\ NoneLeftNow
    BY <1>4, InvokeInv
<1>5. ASSUME NEW id \in Ids, RemoveByUser(id)
      PROVE  NoteInv' /\ NoneLeftNow
    BY <1>5, RemoveByUserInv
<1>6. ASSUME NEW id \in Ids, CloseSuppressed(id) \/ PauseExpiry(id) \/ ResumeExpiry(id)
      PROVE  NoteInv' /\ NoneLeftNow
    BY <1>6, IdleStepsInv
<1>7. CASE ClosePanel \/ Configure \/ UNCHANGED vars
    BY <1>7, IdleStepsInv
<1>8. CASE ClearHistory \/ ClearAll \/ Sweep \/ OpenPanel
    BY <1>8, ClearHistoryInv, ClearAllInv, SweepInv, OpenPanelInv
<1>9. CASE Persist \/ RefreshShell \/ Restart \/ Crash
    BY <1>9, PersistInv, RefreshShellInv, RestartInv, CrashInv
<1> QED  BY <1>1, <1>2, <1>3, <1>4, <1>5, <1>6, <1>7, <1>8, <1>9 DEF Next

\* In every state the history, the close signals, the file, the bar and the
\* ids agree with what is on screen: notification/notification_manager.cpp.
THEOREM NotificationInvariant == Spec => []NoteInv
<1>1. Init => NoteInv
    BY NoteInit
<1>2. NoteInv /\ [Next]_vars => NoteInv'
    BY NoteStep
<1> QED  BY <1>1, <1>2, PTL DEF Spec

\* An application is told exactly once that its notification is closed: as
\* soon as it is neither on screen nor kept for its actions, whichever of
\* close(), the bound of the history, the sweep or a clearing took it away.
THEOREM ToldExactlyOnce == Spec => []ClosedOnce
<1>1. NoteInv => ClosedOnce
  <2> SUFFICES ASSUME NoteInv, NEW id \in Ids
               PROVE  told[id] = IF id \in issued /\ ~IsLive(id) /\ id \notin pending THEN 1 ELSE 0
    BY DEF ClosedOnce
  <2>1. Owes(Book, LiveIds, issued) /\ Book.told = told /\ Book.pending = pending
    BY BookNow DEF BookInv, Book
  <2>2. id \in LiveIds <=> IsLive(id)
    BY DEF LiveIds
  <2> QED  BY <2>1, <2>2 DEF Owes
<1> QED  BY <1>1, NotificationInvariant, PTL

\* No action is reported for a notification whose application has been told
\* that it is closed, or for one of an earlier session: invokeAction() asks
\* m_pendingDBusClose, of which the file keeps nothing.
THEOREM ActionsKeepAnOwner == Spec => []ActionsHaveAnOwner
<1>1. NoteInv => ActionsHaveAnOwner
  <2> SUFFICES ASSUME NoteInv, NEW id \in Ids, Invocable(id)
               PROVE  id \in issued /\ told[id] = 0
    BY DEF ActionsHaveAnOwner
  <2>1. /\ Owes(Book, LiveIds, issued) /\ Book.told = told /\ Book.pending = pending
        /\ LiveIds \subseteq issued
    BY BookNow DEF BookInv, Book, ScreenInv
  <2>2. id \in LiveIds \/ id \in pending
    BY DEF Invocable, LiveIds
  <2> QED  BY <2>1, <2>2 DEF Owes
<1> QED  BY <1>1, NotificationInvariant, PTL

\* The history has one entry per id and keeps its bound; what is on screen is
\* never swept; the bar is right or about to be refreshed; no id in use is
\* given out again, after a crash either; what is shown is on disk or about to
\* be written.
THEOREM BooksAlwaysAgree == Spec => []BooksAgree
<1>1. NoteInv => BooksAgree
  <2> SUFFICES ASSUME NoteInv PROVE BooksAgree
    OBVIOUS
  <2>1. /\ ScreenInv /\ InOrder(history, LiveIds, nextId) /\ Owes(Book, LiveIds, issued)
        /\ Book \in Books /\ (persistScheduled \/ disk.behind \/ disk.history = history)
    BY BookNow DEF BookInv, Book
  <2>2. /\ pending \subseteq Ids /\ persistScheduled \in BOOLEAN /\ refresh \in BOOLEAN
    <3>1. Book \in Books
      BY BookNow DEF BookInv
    <3>2. Book.pending \in SUBSET Ids
      BY <3>1 DEF Books
    <3>3. Book.save \in BOOLEAN
      BY <3>1 DEF Books
    <3>4. Book.refresh \in BOOLEAN
      BY <3>1 DEF Books
    <3>5. Book.pending = pending /\ Book.save = persistScheduled /\ Book.refresh = refresh
      BY DEF Book
    <3> QED  BY <3>2, <3>3, <3>4, <3>5, Zenon
  <2>3. TypeOK
    <3>1. disk.behind \in BOOLEAN
      BY DEF NoteInv, Loadable
    <3> QED  BY <2>1, <2>2, <3>1 DEF TypeOK, ScreenInv, InOrder, Unique, LiveIds
  <2>4. \A i \in DOMAIN history : history[i] \in Range(history)
    BY DEF Range
  <2>5. LiveEntriesAreActive
    <3> SUFFICES ASSUME NEW i \in DOMAIN history, IsLive(history[i].id)
                 PROVE  history[i].active
      BY DEF LiveEntriesAreActive
    <3>1. history[i].id \in LiveIds
      BY DEF LiveIds, IsLive
    <3> QED  BY <2>1, <2>4, <3>1 DEF InOrder
  <2>6. BarIsInSync
    <3>1. Bar(Book, indicator) /\ Book.refresh = refresh /\ Book.history = history
      BY BookNow DEF Book
    <3> QED  BY <3>1, Zenon DEF BarIsInSync, Bar
  <2>7. IdsAreFresh
    <3>1. \A id \in pending : id < nextId
      BY <2>1 DEF Owes, Book, ScreenInv
    <3>2. \A id \in Ids : IsLive(id) => id < nextId
      BY <2>1 DEF ScreenInv, LiveIds
    <3>3. \A i \in DOMAIN history : history[i].id < nextId
      BY <2>1, <2>4 DEF InOrder
    <3> QED  BY <2>1, <3>1, <3>2, <3>3 DEF IdsAreFresh, ScreenInv
  <2> QED  BY <2>1, <2>3, <2>5, <2>6, <2>7 DEF BooksAgree, NothingUnsaved
<1> QED  BY <1>1, NotificationInvariant, PTL

\* An entry that leaves the history, on whichever way, takes the close signal
\* that was kept back for its actions with it.
THEOREM EntriesTakeTheirClose == Spec => NoCloseIsLeftBehind
<1>1. NoteInv /\ [Next]_vars
      => [\A id \in Ids : InHistory(Book, id) /\ ~InHistory(Book, id)' => id \notin pending']_vars
    BY NoteStep DEF NoneLeftNow
<1> QED  BY <1>1, NotificationInvariant, PTL DEF Spec, NoCloseIsLeftBehind
=============================================================================
