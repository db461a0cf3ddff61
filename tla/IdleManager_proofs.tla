------------------------- MODULE IdleManager_proofs -------------------------
(***************************************************************************)
(* The idle behaviours, for any finite set of them, any configuration and  *)
(* any bounds.                                                             *)
(***************************************************************************)
EXTENDS IdleManager, FiniteSetTheorems, SequenceTheorems, WellFoundedInduction, TLAPS

-----------------------------------------------------------------------------
(* Numbers. *)

LEMMA Smallest ==
    ASSUME NEW S \in SUBSET Nat, S # {}
    PROVE  \E m \in S : \A y \in S : m <= y
<1> DEFINE R == OpToRel(<, Nat)
<1>1. \A x, y \in Nat : x < y => <<x, y>> \in R
    BY Z3 DEF OpToRel
<1>2. IsWellFoundedOn(R, Nat)
    BY NatLessThanWellFounded
<1> HIDE DEF R
<1>3. PICK m \in S : \A y \in S : ~(<<y, m>> \in R)
    BY <1>2, WFMin
<1>4. \A y \in S : ~(y < m)
    BY <1>1, <1>3
<1> QED  BY <1>3, <1>4

LEMMA Induction ==
    ASSUME NEW S, 0 \in S, \A n \in Nat : n \in S => n + 1 \in S
    PROVE  Nat \subseteq S
<1> SUFFICES ASSUME Nat \ S # {} PROVE FALSE
    OBVIOUS
<1>1. PICK m \in Nat \ S : \A y \in Nat \ S : m <= y
    BY Smallest
<1>2. m - 1 \in Nat /\ m - 1 \in S
    BY <1>1
<1> QED  BY <1>1, <1>2

-----------------------------------------------------------------------------
(* What Only leaves of a sequence. *)

\* k[n] is what is kept of the first n elements.
Kept(k, s, keep, n) ==
    k = [i \in 0..n |-> IF i = 0 THEN <<>>
                        ELSE IF s[i] \in keep THEN Append(k[i - 1], s[i])
                        ELSE k[i - 1]]

Keeps(k, s, keep, n) ==
    /\ k[0] = <<>>
    /\ \A i \in 1..n : k[i] = IF s[i] \in keep THEN Append(k[i - 1], s[i]) ELSE k[i - 1]

LEMMA KeptAt ==
    ASSUME NEW k, NEW s, NEW keep, NEW n \in Nat, Kept(k, s, keep, n)
    PROVE  Keeps(k, s, keep, n)
<1> DEFINE Body(i) == IF i = 0 THEN <<>>
                      ELSE IF s[i] \in keep THEN Append(k[i - 1], s[i])
                      ELSE k[i - 1]
           f == [i \in 0..n |-> Body(i)]
<1>1. k = f
    BY DEF Kept
<1>2. \A i \in 1..n : Body(i) = IF s[i] \in keep THEN Append(k[i - 1], s[i]) ELSE k[i - 1]
    OBVIOUS
<1>3. Body(0) = <<>>
    OBVIOUS
<1> HIDE DEF Body
<1>4. \A i \in 0..n : f[i] = Body(i)
    OBVIOUS
<1> HIDE DEF f
<1>5. \A i \in 0..n : k[i] = Body(i)
    BY <1>1, <1>4
<1>6. k[0] = <<>>
    BY <1>3, <1>5
<1>7. \A i \in 1..n : k[i] = Body(i)
    BY <1>5
<1> QED  BY <1>2, <1>6, <1>7 DEF Keeps

\* The recursion of Only has a solution.
LEMMA KeptExists ==
    ASSUME NEW s, NEW keep
    PROVE  \A n \in Nat : \E k : Kept(k, s, keep, n)
<1> DEFINE S == {n \in Nat : \E k : Kept(k, s, keep, n)}
<1>1. 0 \in S
  <2> DEFINE k == [i \in 0..0 |-> <<>>]
  <2>1. k = [i \in 0..0 |-> IF i = 0 THEN <<>>
                            ELSE IF s[i] \in keep THEN Append(k[i - 1], s[i])
                            ELSE k[i - 1]]
    OBVIOUS
  <2>2. Kept(k, s, keep, 0)
    BY <2>1 DEF Kept
  <2> QED  BY <2>2
<1>2. ASSUME NEW n \in Nat, n \in S
      PROVE  n + 1 \in S
  <2>1. PICK k : Kept(k, s, keep, n)
    BY <1>2
  <2>2. /\ k[0] = <<>>
        /\ \A i \in 1..n : k[i] = IF s[i] \in keep THEN Append(k[i - 1], s[i]) ELSE k[i - 1]
    BY <2>1, KeptAt DEF Keeps
  <2> DEFINE last == IF s[n + 1] \in keep THEN Append(k[n], s[n + 1]) ELSE k[n]
             m == [i \in 0..(n + 1) |-> IF i = n + 1 THEN last ELSE k[i]]
  <2>3. m[n + 1] = last /\ \A i \in 0..n : m[i] = k[i]
    OBVIOUS
  <2>4. \A i \in 0..(n + 1) :
            m[i] = IF i = 0 THEN <<>>
                   ELSE IF s[i] \in keep THEN Append(m[i - 1], s[i])
                   ELSE m[i - 1]
    <3> SUFFICES ASSUME NEW i \in 0..(n + 1)
                 PROVE  m[i] = IF i = 0 THEN <<>>
                               ELSE IF s[i] \in keep THEN Append(m[i - 1], s[i])
                               ELSE m[i - 1]
      OBVIOUS
    <3>1. CASE i = 0
      BY <2>2, <2>3, <3>1
    <3>2. CASE i \in 1..n
      BY <2>2, <2>3, <3>2
    <3>3. CASE i = n + 1
      BY <2>3, <3>3
    <3> HIDE DEF m
    <3> QED  BY <3>1, <3>2, <3>3
  <2>5. m = [i \in 0..(n + 1) |-> IF i = 0 THEN <<>>
                                  ELSE IF s[i] \in keep THEN Append(m[i - 1], s[i])
                                  ELSE m[i - 1]]
    <3>1. m = [i \in 0..(n + 1) |-> m[i]]
      OBVIOUS
    <3> HIDE DEF m
    <3> QED  BY <2>4, <3>1
  <2> HIDE DEF m
  <2>6. Kept(m, s, keep, n + 1)
    BY <2>5 DEF Kept
  <2> QED  BY <2>6
<1> HIDE DEF S
<1>3. Nat \subseteq S
    BY <1>1, <1>2, Induction
<1> QED  BY <1>3 DEF S

LEMMA OnlyIs ==
    ASSUME NEW s, NEW keep, Len(s) \in Nat
    PROVE  \E k : Only(s, keep) = k[Len(s)] /\ Keeps(k, s, keep, Len(s))
<1> DEFINE k == CHOOSE k : k = [n \in 0..Len(s) |->
                   IF n = 0 THEN <<>>
                   ELSE IF s[n] \in keep THEN Append(k[n - 1], s[n])
                   ELSE k[n - 1]]
<1>1. PICK j : Kept(j, s, keep, Len(s))
    BY KeptExists
<1>2. k = CHOOSE m : Kept(m, s, keep, Len(s))
    BY Zenon DEF Kept
<1>3. Only(s, keep) = k[Len(s)]
    BY DEF Only
<1> HIDE DEF k
<1>4. Kept(k, s, keep, Len(s))
    BY <1>1, <1>2
<1> QED  BY <1>3, <1>4, KeptAt

\* f says where the elements of t come from in the first n of s.
Embeds(f, t, s, keep, n) ==
    /\ f \in [1..Len(t) -> 1..n]
    /\ \A i, j \in 1..Len(t) : i < j => f[i] < f[j]
    /\ \A i \in 1..Len(t) : t[i] = s[f[i]] /\ t[i] \in keep
    /\ \A p \in 1..n : s[p] \in keep => \E i \in 1..Len(t) : f[i] = p

\* Only keeps the elements that are in the set, in their order.
LEMMA OnlyEmbeds ==
    ASSUME NEW T, NEW s \in Seq(T), NEW keep
    PROVE  Only(s, keep) \in Seq(T) /\ \E f : Embeds(f, Only(s, keep), s, keep, Len(s))
<1>0. Len(s) \in Nat /\ \A i \in 1..Len(s) : s[i] \in T
    OBVIOUS
<1>1. PICK k : Only(s, keep) = k[Len(s)] /\ Keeps(k, s, keep, Len(s))
    BY <1>0, OnlyIs
<1>2. /\ k[0] = <<>>
      /\ \A i \in 1..Len(s) : k[i] = IF s[i] \in keep THEN Append(k[i - 1], s[i]) ELSE k[i - 1]
    BY <1>1 DEF Keeps
<1> DEFINE Good(n) == k[n] \in Seq(T) /\ \E f : Embeds(f, k[n], s, keep, n)
           G == {n \in Nat : n <= Len(s) => Good(n)}
<1>3. 0 \in G
  <2> DEFINE f == [i \in 1..0 |-> 0]
  <2>1. k[0] = <<>> /\ Len(k[0]) = 0 /\ k[0] \in Seq(T)
    BY <1>2
  <2>2. f \in [1..0 -> 1..0]
    OBVIOUS
  <2> HIDE DEF f
  <2>3. Embeds(f, k[0], s, keep, 0)
    BY <2>1, <2>2 DEF Embeds
  <2> QED  BY <2>1, <2>3
<1>4. ASSUME NEW n \in Nat, n \in G
      PROVE  n + 1 \in G
  <2> SUFFICES ASSUME n + 1 <= Len(s) PROVE Good(n + 1)
    OBVIOUS
  <2>1. Good(n) /\ n + 1 \in 1..Len(s) /\ s[n + 1] \in T
    BY <1>0, <1>4
  <2>2. PICK f : Embeds(f, k[n], s, keep, n)
    BY <2>1
  <2>3. k[n + 1] = IF s[n + 1] \in keep THEN Append(k[n], s[n + 1]) ELSE k[n]
    BY <1>2, <2>1
  <2>4. CASE s[n + 1] \notin keep
    <3>1. k[n + 1] = k[n]
      BY <2>3, <2>4
    <3>2. Embeds(f, k[n], s, keep, n + 1)
      BY <2>1, <2>2, <2>4 DEF Embeds
    <3> QED  BY <2>1, <3>1, <3>2
  <2>5. CASE s[n + 1] \in keep
    <3>1. k[n + 1] = Append(k[n], s[n + 1])
      BY <2>3, <2>5
    <3> DEFINE t == k[n]   u == k[n + 1]   m == Len(t)
    <3>2. /\ u \in Seq(T) /\ m \in Nat /\ Len(u) = m + 1
          /\ \A i \in 1..m : u[i] = t[i]
          /\ u[m + 1] = s[n + 1]
      BY <2>1, <3>1, AppendProperties
    <3> DEFINE g == [i \in 1..(m + 1) |-> IF i = m + 1 THEN n + 1 ELSE f[i]]
    <3>3. g[m + 1] = n + 1 /\ \A i \in 1..m : g[i] = f[i]
      BY <3>2
    <3>4. /\ \A i \in 1..m : f[i] \in 1..n
          /\ \A i, j \in 1..m : i < j => f[i] < f[j]
          /\ \A i \in 1..m : t[i] = s[f[i]] /\ t[i] \in keep
          /\ \A p \in 1..n : s[p] \in keep => \E i \in 1..m : f[i] = p
      BY <2>2 DEF Embeds
    <3>5. g \in [1..(m + 1) -> 1..(n + 1)]
      <4>1. \A i \in 1..(m + 1) : g[i] \in 1..(n + 1)
        BY <3>2, <3>3, <3>4
      <4> QED  BY <4>1
    <3> HIDE DEF g, t, u, m
    <3>6. \A i, j \in 1..(m + 1) : i < j => g[i] < g[j]
      <4> SUFFICES ASSUME NEW i \in 1..(m + 1), NEW j \in 1..(m + 1), i < j
                   PROVE  g[i] < g[j]
        OBVIOUS
      <4>1. i \in 1..m
        BY <3>2
      <4>2. CASE j \in 1..m
        BY <3>3, <3>4, <4>1, <4>2
      <4>3. CASE j = m + 1
        BY <3>3, <3>4, <4>1, <4>3
      <4> QED  BY <3>2, <4>2, <4>3
    <3>7. \A i \in 1..(m + 1) : u[i] = s[g[i]] /\ u[i] \in keep
      <4> SUFFICES ASSUME NEW i \in 1..(m + 1) PROVE u[i] = s[g[i]] /\ u[i] \in keep
        OBVIOUS
      <4>1. CASE i \in 1..m
        BY <3>2, <3>3, <3>4, <4>1
      <4>2. CASE i = m + 1
        BY <3>2, <3>3, <2>5, <4>2
      <4> QED  BY <3>2, <4>1, <4>2
    <3>8. \A p \in 1..(n + 1) : s[p] \in keep => \E i \in 1..(m + 1) : g[i] = p
      <4> SUFFICES ASSUME NEW p \in 1..(n + 1), s[p] \in keep
                   PROVE  \E i \in 1..(m + 1) : g[i] = p
        OBVIOUS
      <4>1. CASE p = n + 1
        <5>1. m + 1 \in 1..(m + 1)
          BY <3>2
        <5> QED  BY <3>3, <4>1, <5>1
      <4>2. CASE p \in 1..n
        <5>1. PICK i \in 1..m : f[i] = p
          BY <3>4, <4>2
        <5>2. i \in 1..(m + 1)
          BY <3>2
        <5> QED  BY <3>3, <5>1, <5>2
      <4> QED  BY <4>1, <4>2
    <3>9. Embeds(g, u, s, keep, n + 1)
      BY <3>2, <3>5, <3>6, <3>7, <3>8 DEF Embeds
    <3> QED  BY <3>2, <3>9 DEF u
  <2> QED  BY <2>4, <2>5
<1> HIDE DEF G
<1>5. Nat \subseteq G
    BY <1>3, <1>4, Induction
<1>6. Good(Len(s))
    BY <1>0, <1>5 DEF G
<1> QED  BY <1>1, <1>6

\* Nothing is lost of a sequence whose elements are all kept.
LEMMA OnlyAll ==
    ASSUME NEW T, NEW s \in Seq(T), NEW keep, \A i \in DOMAIN s : s[i] \in keep
    PROVE  Only(s, keep) = s
<1>0. Len(s) \in Nat /\ DOMAIN s = 1..Len(s) /\ \A i \in 1..Len(s) : s[i] \in T
    OBVIOUS
<1>1. PICK k : Only(s, keep) = k[Len(s)] /\ Keeps(k, s, keep, Len(s))
    BY <1>0, OnlyIs
<1>2. k[0] = <<>> /\ \A i \in 1..Len(s) : k[i] = Append(k[i - 1], s[i])
    BY <1>0, <1>1 DEF Keeps
<1> DEFINE Same(n) == k[n] \in Seq(T) /\ Len(k[n]) = n /\ \A i \in 1..n : k[n][i] = s[i]
           G == {n \in Nat : n <= Len(s) => Same(n)}
<1>3. 0 \in G
  <2>1. k[0] \in Seq(T) /\ Len(k[0]) = 0
    BY <1>2
  <2> QED  BY <2>1
<1>4. ASSUME NEW n \in Nat, n \in G
      PROVE  n + 1 \in G
  <2> SUFFICES ASSUME n + 1 <= Len(s) PROVE Same(n + 1)
    OBVIOUS
  <2>1. Same(n) /\ n + 1 \in 1..Len(s) /\ s[n + 1] \in T
    BY <1>0, <1>4
  <2>2. k[n + 1] = Append(k[n], s[n + 1])
    BY <1>2, <2>1
  <2>3. /\ k[n + 1] \in Seq(T) /\ Len(k[n + 1]) = n + 1
        /\ \A i \in 1..n : k[n + 1][i] = k[n][i]
        /\ k[n + 1][n + 1] = s[n + 1]
    BY <2>1, <2>2, AppendProperties
  <2> QED  BY <2>1, <2>3
<1> HIDE DEF G
<1>5. Nat \subseteq G
    BY <1>3, <1>4, Induction
<1>6. Same(Len(s))
    BY <1>0, <1>5 DEF G
<1>7. Only(s, keep) = k[Len(s)] /\ k[Len(s)] = s
    BY <1>0, <1>1, <1>6
<1> QED  BY <1>7

-----------------------------------------------------------------------------
(* The stream of the compositor's reports.                                 *)

Sent == [of : Behavior, is : {"idle", "active"}]

StreamTyped(s, w, t) ==
    /\ s \in [Behavior -> {"none", "active", "idle"}]
    /\ w \in Seq(Sent)
    /\ t \in [Behavior -> {"active", "idle", "missed"}]

\* Event k of the wire reports c idle; event 0 is the last one dispatched.
Reported(w, t, k, c) ==
    IF k = 0 THEN t[c] = "idle" ELSE w[k].of = c /\ w[k].is = "idle"

\* A resume of c is on its way behind event k.
Follows(w, k, c) == \E j \in (k + 1)..Len(w) : w[j].of = c /\ w[j].is = "active"

\* The compositor still holds c idle, and nobody's resume is behind event k.
StillIdle(s, w, k, c) == s[c] = "idle" /\ \A i \in (k + 1)..Len(w) : w[i].is # "active"

\* An idle report that no resume follows is the last word: the user has not come
\* back since, for no behaviour at all.
Ordered(s, w, t) ==
    \A k \in 0..Len(w), c \in Behavior :
        Reported(w, t, k, c) => Follows(w, k, c) \/ StillIdle(s, w, k, c)

StreamInv(s, w, t) == StreamTyped(s, w, t) /\ Ordered(s, w, t)

LEMMA ReportIdleOrdered ==
    ASSUME NEW s, NEW w, NEW t, StreamInv(s, w, t), NEW b \in Behavior
    PROVE  StreamInv([s EXCEPT ![b] = "idle"], Append(w, [of |-> b, is |-> "idle"]), t)
<1> DEFINE e == [of |-> b, is |-> "idle"]
           v == Append(w, e)
           r == [s EXCEPT ![b] = "idle"]
<1>0. e \in Sent /\ e.of = b /\ e.is = "idle"
    BY DEF Sent
<1>1. StreamTyped(s, w, t) /\ Ordered(s, w, t) /\ w \in Seq(Sent) /\ Len(w) \in Nat
    BY DEF StreamInv, StreamTyped
<1> HIDE DEF e
<1>2. /\ v \in Seq(Sent) /\ Len(v) = Len(w) + 1
      /\ \A i \in 1..Len(w) : v[i] = w[i]
      /\ v[Len(w) + 1] = e
    BY <1>0, <1>1, AppendProperties
<1>3. /\ r \in [Behavior -> {"none", "active", "idle"}] /\ r[b] = "idle"
      /\ \A c \in Behavior : s[c] = "idle" => r[c] = "idle"
    BY <1>1 DEF StreamTyped
<1> HIDE DEF v, r
<1>4. StreamTyped(r, v, t)
    BY <1>1, <1>2, <1>3 DEF StreamTyped
<1>5. Ordered(r, v, t)
  <2> SUFFICES ASSUME NEW k \in 0..Len(v), NEW c \in Behavior, Reported(v, t, k, c)
               PROVE  Follows(v, k, c) \/ StillIdle(r, v, k, c)
    BY DEF Ordered
  <2>1. CASE k = Len(w) + 1
    BY <1>0, <1>1, <1>2, <1>3, <2>1 DEF Reported, StillIdle
  <2>2. CASE k \in 0..Len(w)
    <3>1. Reported(w, t, k, c)
      BY <1>1, <1>2, <2>2 DEF Reported
    <3>2. CASE Follows(w, k, c)
      BY <1>1, <1>2, <2>2, <3>2 DEF Follows
    <3>3. CASE StillIdle(s, w, k, c)
      <4>1. \A i \in (k + 1)..Len(v) : v[i].is # "active"
        <5> SUFFICES ASSUME NEW i \in (k + 1)..Len(v) PROVE v[i].is # "active"
          OBVIOUS
        <5>1. CASE i = Len(w) + 1
          BY <1>0, <1>2, <5>1
        <5>2. CASE i \in 1..Len(w)
          BY <1>1, <1>2, <2>2, <3>3, <5>2 DEF StillIdle
        <5> QED  BY <1>1, <1>2, <2>2, <5>1, <5>2
      <4> QED  BY <1>3, <3>3, <4>1 DEF StillIdle
    <3> QED  BY <1>1, <2>2, <3>1, <3>2, <3>3 DEF Ordered
  <2> QED  BY <1>1, <1>2, <2>1, <2>2
<1> QED  BY <1>4, <1>5 DEF StreamInv, v, r, e

\* order lists what is to be resumed, and v says so.
LEMMA ReturnOrdered ==
    ASSUME NEW s, NEW w, NEW t, StreamInv(s, w, t), NEW order, NEW v, NEW r,
           order \in SetToSeqs({b \in Behavior : s[b] = "idle"}),
           v = w \o [i \in DOMAIN order |-> [of |-> order[i], is |-> "active"]],
           r = [b \in Behavior |-> IF s[b] = "idle" THEN "active" ELSE s[b]],
           IsFiniteSet(Behavior)
    PROVE  StreamInv(r, v, t)
<1> DEFINE I == {b \in Behavior : s[b] = "idle"}
           n == Cardinality(I)
           tail == [i \in DOMAIN order |-> [of |-> order[i], is |-> "active"]]
<1>1. StreamTyped(s, w, t) /\ Ordered(s, w, t) /\ w \in Seq(Sent) /\ Len(w) \in Nat
    BY DEF StreamInv, StreamTyped
<1>2. n \in Nat /\ order \in [1..n -> I] /\ \A i, j \in 1..n : order[i] = order[j] => i = j
  <2>1. IsFiniteSet(I)
    BY FS_Subset
  <2>2. n \in Nat
    BY <2>1, FS_CardinalityType
  <2>3. order \in {f \in [1..n -> I] : \A i, j \in 1..n : i # j => f[i] # f[j]}
    BY DEF SetToSeqs
  <2> HIDE DEF n, I
  <2>4. order \in [1..n -> I] /\ \A i, j \in 1..n : i # j => order[i] # order[j]
    BY <2>3
  <2> QED  BY <2>2, <2>4
<1>3. \A b \in I : \E i \in 1..n : order[i] = b
  <2>1. IsFiniteSet(I) /\ Cardinality(I) = n
    BY FS_Subset
  <2>2. Cardinality(1..n) = n
    BY <1>2, FS_Interval
  <2> HIDE DEF I, n
  <2>3. order \in Injection(1..n, I)
    BY <1>2 DEF Injection, IsInjective
  <2>4. order \in Surjection(1..n, I)
    BY <2>1, <2>2, <2>3, FS_Injection
  <2> QED  BY <2>4 DEF Surjection
<1>4. /\ tail \in Seq(Sent) /\ Len(tail) = n
      /\ \A i \in 1..n : tail[i].of = order[i] /\ tail[i].is = "active"
  <2>1. DOMAIN order = 1..n /\ \A i \in 1..n : order[i] \in Behavior
    BY <1>2
  <2>2. \A i \in 1..n : [of |-> order[i], is |-> "active"] \in Sent
    BY <2>1 DEF Sent
  <2>3. tail = [i \in 1..n |-> [of |-> order[i], is |-> "active"]]
    BY <2>1
  <2> HIDE DEF n
  <2> QED  BY <1>2, <2>2, <2>3
<1> HIDE DEF tail, n
<1>5. /\ v \in Seq(Sent) /\ Len(v) = Len(w) + n
      /\ \A i \in 1..Len(w) : v[i] = w[i]
      /\ \A i \in (Len(w) + 1)..(Len(w) + n) : v[i] = tail[i - Len(w)]
  <2>1. v = w \o tail
    BY DEF tail
  <2> HIDE DEF tail
  <2>2. n \in Nat
    BY <1>2
  <2>3. PICK x : x = tail
    OBVIOUS
  <2>4. v = w \o x /\ x \in Seq(Sent) /\ Len(x) = n
    BY <1>4, <2>1, <2>3
  <2>5. v \in Seq(Sent)
    BY <1>1, <2>4, ConcatProperties
  <2>6. Len(v) = Len(w) + n /\ \A i \in 1..Len(w) + n : v[i] = IF i <= Len(w) THEN w[i] ELSE x[i - Len(w)]
    BY <1>1, <2>4, ConcatProperties, SMTT(30), ZenonT(40)
  <2>7. \A i \in 1..Len(w) : v[i] = w[i]
    BY <1>1, <2>2, <2>6
  <2>8. ASSUME NEW i \in (Len(w) + 1)..(Len(w) + n) PROVE v[i] = x[i - Len(w)]
    <3>1. i \in 1..Len(w) + n /\ ~(i <= Len(w))
      BY <1>1, <2>2
    <3> QED  BY <2>6, <3>1
  <2> QED  BY <2>3, <2>5, <2>6, <2>7, <2>8
<1>6. StreamTyped(r, v, t)
  <2>1. r \in [Behavior -> {"none", "active", "idle"}]
    BY <1>1 DEF StreamTyped
  <2> QED  BY <1>1, <1>5, <2>1 DEF StreamTyped
<1>7. Ordered(r, v, t)
  <2> SUFFICES ASSUME NEW k \in 0..Len(v), NEW c \in Behavior, Reported(v, t, k, c)
               PROVE  Follows(v, k, c)
    BY DEF Ordered
  <2>1. CASE k \in (Len(w) + 1)..(Len(w) + n)
    <3>1. v[k] = tail[k - Len(w)] /\ k - Len(w) \in 1..n /\ k # 0
      BY <1>1, <1>2, <1>5, <2>1
    <3> QED  BY <1>4, <3>1 DEF Reported
  <2>2. CASE k \in 0..Len(w)
    <3>1. Reported(w, t, k, c)
      BY <1>1, <1>5, <2>2 DEF Reported
    <3>2. CASE Follows(w, k, c)
      BY <1>1, <1>2, <1>5, <2>2, <3>2 DEF Follows
    <3>3. CASE StillIdle(s, w, k, c)
      <4>1. PICK i \in 1..n : order[i] = c
        BY <1>3, <3>3 DEF StillIdle
      <4>2. Len(w) + i \in (k + 1)..Len(v) /\ v[Len(w) + i] = tail[i]
        BY <1>1, <1>2, <1>5, <2>2
      <4> QED  BY <1>4, <4>1, <4>2 DEF Follows
    <3> QED  BY <1>1, <2>2, <3>1, <3>2, <3>3 DEF Ordered
  <2> QED  BY <1>1, <1>2, <1>5, <2>1, <2>2
<1> QED  BY <1>6, <1>7 DEF StreamInv

LEMMA DispatchOrdered ==
    ASSUME NEW s, NEW w, NEW t, StreamInv(s, w, t), NEW b \in Behavior,
           NEW is \in {"idle", "active"}, w # <<>>, Head(w) = [of |-> b, is |-> is],
           NEW heard \in {"active", "idle", "missed"}, heard = "idle" <=> is = "idle"
    PROVE  StreamInv(s, Tail(w), [t EXCEPT ![b] = heard])
<1> DEFINE v == Tail(w)
           u == [t EXCEPT ![b] = heard]
<1>1. StreamTyped(s, w, t) /\ Ordered(s, w, t) /\ w \in Seq(Sent)
    BY DEF StreamInv, StreamTyped
<1>2. /\ v \in Seq(Sent) /\ Len(v) = Len(w) - 1 /\ Len(w) \in Nat \ {0}
      /\ \A i \in 1..Len(v) : v[i] = w[i + 1]
      /\ w[1].of = b /\ w[1].is = is
    BY <1>1, HeadTailProperties
<1>3. /\ u \in [Behavior -> {"active", "idle", "missed"}] /\ u[b] = heard
      /\ \A c \in Behavior : c # b => u[c] = t[c]
    BY <1>1 DEF StreamTyped
<1> HIDE DEF v, u
<1>4. StreamTyped(s, v, u)
    BY <1>1, <1>2, <1>3 DEF StreamTyped
<1>5. ASSUME NEW k \in 0..Len(v), NEW c \in Behavior, Follows(w, k + 1, c)
      PROVE  Follows(v, k, c)
  <2>1. PICK j \in (k + 2)..Len(w) : w[j].of = c /\ w[j].is = "active"
    BY <1>2, <1>5 DEF Follows
  <2>2. j - 1 \in (k + 1)..Len(v) /\ v[j - 1] = w[j]
    BY <1>2
  <2> QED  BY <2>1, <2>2 DEF Follows
<1>6. ASSUME NEW k \in 0..Len(v), NEW c \in Behavior, StillIdle(s, w, k + 1, c)
      PROVE  StillIdle(s, v, k, c)
    BY <1>2, <1>6 DEF StillIdle
<1>7. Ordered(s, v, u)
  <2> SUFFICES ASSUME NEW k \in 0..Len(v), NEW c \in Behavior, Reported(v, u, k, c)
               PROVE  Follows(v, k, c) \/ StillIdle(s, v, k, c)
    BY DEF Ordered
  <2>1. CASE k # 0 \/ c = b
    <3>1. Reported(w, t, k + 1, c) /\ k + 1 \in 0..Len(w)
      BY <1>2, <1>3, <2>1 DEF Reported
    <3>2. Follows(w, k + 1, c) \/ StillIdle(s, w, k + 1, c)
      BY <1>1, <3>1 DEF Ordered
    <3> QED  BY <1>5, <1>6, <3>2
  <2>2. CASE k = 0 /\ c # b
    <3>1. Reported(w, t, 0, c) /\ 0 \in 0..Len(w)
      BY <1>2, <1>3, <2>2 DEF Reported
    <3>2. CASE Follows(w, 0, c)
      <4>1. Follows(w, 1, c)
        BY <1>2, <2>2, <3>2 DEF Follows
      <4> QED  BY <1>5, <2>2, <4>1
    <3>3. CASE StillIdle(s, w, 0, c)
      <4>1. StillIdle(s, w, 1, c)
        BY <1>2, <3>3 DEF StillIdle
      <4> QED  BY <1>6, <2>2, <4>1
    <3> QED  BY <1>1, <3>1, <3>2, <3>3 DEF Ordered
  <2> QED  BY <2>1, <2>2
<1> QED  BY <1>4, <1>7 DEF StreamInv, v, u

\* The notifications of B are new ones.
LEMMA RenewOrdered ==
    ASSUME NEW s, NEW w, NEW t, StreamInv(s, w, t), NEW B, NEW l, NEW v, NEW r, NEW u,
           r = [b \in Behavior |-> IF b \in B THEN Notification(b, l) ELSE s[b]],
           v = Only(w, {e \in ToSet(w) : e.of \notin B}),
           u = [b \in Behavior |-> IF b \in B THEN "active" ELSE t[b]]
    PROVE  StreamInv(r, v, u)
<1> DEFINE keep == {e \in ToSet(w) : e.of \notin B}
<1>1. StreamTyped(s, w, t) /\ Ordered(s, w, t) /\ w \in Seq(Sent)
    BY DEF StreamInv, StreamTyped
<1>2. \A p \in 1..Len(w) : w[p] \in keep <=> w[p].of \notin B
    BY <1>1 DEF ToSet
<1>3. \A e \in keep : e.of \notin B
    OBVIOUS
<1> HIDE DEF keep
<1>4. v = Only(w, keep)
    BY DEF keep
<1>5. v \in Seq(Sent) /\ \E f : Embeds(f, v, w, keep, Len(w))
    BY <1>1, <1>4, OnlyEmbeds
<1>6. PICK f : Embeds(f, v, w, keep, Len(w))
    BY <1>5
<1>7. /\ Len(v) \in Nat /\ Len(w) \in Nat
      /\ \A i \in 1..Len(v) : f[i] \in 1..Len(w)
      /\ \A i, j \in 1..Len(v) : i < j => f[i] < f[j]
      /\ \A i \in 1..Len(v) : v[i] = w[f[i]] /\ v[i].of \notin B
      /\ \A p \in 1..Len(w) : w[p].of \notin B => \E i \in 1..Len(v) : f[i] = p
  <2>1. Len(v) \in Nat /\ Len(w) \in Nat
    BY <1>1, <1>5
  <2>2. /\ f \in [1..Len(v) -> 1..Len(w)]
        /\ \A i, j \in 1..Len(v) : i < j => f[i] < f[j]
        /\ \A i \in 1..Len(v) : v[i] = w[f[i]] /\ v[i] \in keep
        /\ \A p \in 1..Len(w) : w[p] \in keep => \E i \in 1..Len(v) : f[i] = p
    BY <1>6 DEF Embeds
  <2>3. \A i \in 1..Len(v) : v[i].of \notin B
    BY <1>3, <2>2
  <2>4. \A p \in 1..Len(w) : w[p].of \notin B => \E i \in 1..Len(v) : f[i] = p
    BY <1>2, <2>2
  <2> QED  BY <2>1, <2>2, <2>3, <2>4
<1>8. /\ r \in [Behavior -> {"none", "active", "idle"}]
      /\ u \in [Behavior -> {"active", "idle", "missed"}]
      /\ \A c \in Behavior : IF c \in B THEN u[c] = "active" ELSE u[c] = t[c] /\ r[c] = s[c]
    BY <1>1 DEF StreamTyped, Notification
<1>9. StreamTyped(r, v, u)
    BY <1>5, <1>8 DEF StreamTyped
<1> DEFINE from(k) == IF k = 0 THEN 0 ELSE f[k]
<1>10. ASSUME NEW k \in 0..Len(v)
       PROVE  /\ from(k) \in 0..Len(w)
              /\ \A i \in (k + 1)..Len(v) : f[i] \in (from(k) + 1)..Len(w)
              /\ \A i \in 1..Len(v) : f[i] > from(k) => i > k
  <2>1. CASE k = 0
    BY <1>7, <2>1
  <2>2. CASE k \in 1..Len(v)
    <3>1. from(k) = f[k] /\ f[k] \in 1..Len(w)
      BY <1>7, <2>2
    <3>2. ASSUME NEW i \in 1..Len(v), f[i] > f[k] PROVE i > k
      <4>1. f[i] \in 1..Len(w)
        BY <1>7
      <4>2. i < k => f[i] < f[k]
        BY <1>7, <2>2
      <4> QED  BY <1>7, <2>2, <3>1, <3>2, <4>1, <4>2
    <3> HIDE DEF from
    <3>3. ASSUME NEW i \in (k + 1)..Len(v) PROVE f[i] \in (f[k] + 1)..Len(w)
      <4>0. Len(v) \in Nat /\ Len(w) \in Nat
        BY <1>7
      <4>1. i \in 1..Len(v) /\ k < i
        BY ONLY <2>2, <3>3, <4>0
      <4>2. f[k] < f[i] /\ f[i] \in 1..Len(w)
        BY <1>7, <2>2, <4>1
      <4>3. f[k] \in 1..Len(w)
        BY <3>1
      <4> QED  BY ONLY <4>0, <4>2, <4>3
    <3> QED  BY <1>7, <3>1, <3>2, <3>3
  <2> QED  BY <1>7, <2>1, <2>2
<1>11. Ordered(r, v, u)
  <2> SUFFICES ASSUME NEW k \in 0..Len(v), NEW c \in Behavior, Reported(v, u, k, c)
               PROVE  Follows(v, k, c) \/ StillIdle(r, v, k, c)
    BY DEF Ordered
  <2>1. c \notin B /\ Reported(w, t, from(k), c)
    <3>1. CASE k = 0
      BY <1>8, <3>1 DEF Reported
    <3>2. CASE k \in 1..Len(v)
      BY <1>7, <3>2 DEF Reported
    <3> QED  BY <1>7, <3>1, <3>2
  <2>2. PICK p \in 0..Len(w) : p = from(k)
    BY <1>10
  <2>3. /\ \A i \in (k + 1)..Len(v) : f[i] \in (p + 1)..Len(w)
        /\ \A i \in 1..Len(v) : f[i] > p => i > k
    BY <1>10, <2>2
  <2> HIDE DEF from
  <2>4. CASE Follows(w, p, c)
    <3>1. PICK j \in (p + 1)..Len(w) : w[j].of = c /\ w[j].is = "active"
      BY <2>4 DEF Follows
    <3>2. j \in 1..Len(w)
      BY <2>2
    <3>3. PICK i \in 1..Len(v) : f[i] = j
      BY <1>7, <2>1, <3>1, <3>2
    <3>4. i \in (k + 1)..Len(v)
      BY <1>7, <2>2, <2>3, <3>3
    <3> QED  BY <1>7, <3>1, <3>3, <3>4 DEF Follows
  <2>5. CASE StillIdle(s, w, p, c)
    <3>1. r[c] = "idle"
      BY <1>8, <2>1, <2>5 DEF StillIdle
    <3>2. ASSUME NEW i \in (k + 1)..Len(v) PROVE v[i].is # "active"
      <4>1. i \in 1..Len(v) /\ f[i] \in (p + 1)..Len(w)
        BY <1>7, <2>3
      <4> QED  BY <1>7, <2>5, <4>1 DEF StillIdle
    <3> QED  BY <3>1, <3>2 DEF StillIdle
  <2> QED  BY <1>1, <2>1, <2>2, <2>4, <2>5 DEF Ordered
<1> QED  BY <1>9, <1>11 DEF StreamInv

-----------------------------------------------------------------------------
(* The overlay, the calls and captures that are on their way to it.        *)

Call(og, gg) == [kind : {"show", "done"}, overlay : 0..og, grace : 0..gg]

\* Once the overlay is at generation og, no call still valid shows a grace that
\* is in can.
CallsFit(d, og, gg, can) ==
    /\ d \in Seq(Call(og, gg))
    /\ \A i \in DOMAIN d : d[i].kind = "show" /\ d[i].overlay = og => d[i].grace \notin can

FrameFits(x, og, gg, can) ==
    x.kind = "prime" => x.show \in 0..og /\ x.grace \in 0..gg
                        /\ (x.show = og => x.grace \notin can)

FramesFit(n, og, gg, can) ==
    n \in Seq(Frame) /\ \A i \in DOMAIN n : FrameFits(n[i], og, gg, can)

OverlayFits(o, gg, can) ==
    /\ o \in [state : {"hidden", "fading", "opaque"}, grace : 0..gg]
    /\ o # Hidden => o.grace \notin can

\* The cancelled graces are earlier ones, and nothing shows one of them.
ShadeFits(o, og, gg, can, d, n) ==
    /\ og \in Nat /\ gg \in Nat /\ can \subseteq Nat
    /\ \A g \in can : g < gg
    /\ CallsFit(d, og, gg, can) /\ FramesFit(n, og, gg, can) /\ OverlayFits(o, gg, can)

LEMMA HiddenFits ==
    ASSUME NEW gg \in Nat, NEW can
    PROVE  OverlayFits(Hidden, gg, can)
BY DEF OverlayFits, Hidden

\* A later generation of the overlay outdates all calls.
LEMMA FitLater ==
    ASSUME NEW og \in Nat, NEW gg \in Nat, NEW can, NEW d, NEW n,
           NEW ng \in Nat, gg <= ng, NEW any,
           CallsFit(d, og, gg, can), FramesFit(n, og, gg, can)
    PROVE  CallsFit(d, og + 1, ng, any) /\ FramesFit(n, og + 1, ng, any)
<1>1. d \in Seq(Call(og, gg)) /\ n \in Seq(Frame)
    BY DEF CallsFit, FramesFit
<1>2. /\ Len(d) \in Nat /\ DOMAIN d = 1..Len(d) /\ \A i \in 1..Len(d) : d[i] \in Call(og, gg)
      /\ d = [i \in 1..Len(d) |-> d[i]]
    BY <1>1
<1>3. \A c \in Call(og, gg) : c \in Call(og + 1, ng) /\ c.overlay # og + 1
    BY DEF Call
<1>4. d \in Seq(Call(og + 1, ng))
    BY <1>2, <1>3
<1>5. \A i \in DOMAIN d : d[i].overlay # og + 1
    BY <1>2, <1>3
<1>6. ASSUME NEW i \in DOMAIN n PROVE FrameFits(n[i], og + 1, ng, any)
    BY DEF FramesFit, FrameFits
<1> QED  BY <1>1, <1>4, <1>5, <1>6 DEF CallsFit, FramesFit

LEMMA CallPosted ==
    ASSUME NEW og \in Nat, NEW gg \in Nat, NEW can, NEW d, CallsFit(d, og, gg, can),
           NEW c \in Call(og, gg), c.kind = "show" /\ c.overlay = og => c.grace \notin can
    PROVE  CallsFit(Append(d, c), og, gg, can)
<1>1. d \in Seq(Call(og, gg))
    BY DEF CallsFit
<1>2. /\ Append(d, c) \in Seq(Call(og, gg)) /\ Len(d) \in Nat
      /\ DOMAIN Append(d, c) = 1..Len(d) + 1 /\ DOMAIN d = 1..Len(d)
      /\ \A i \in 1..Len(d) : Append(d, c)[i] = d[i]
      /\ Append(d, c)[Len(d) + 1] = c
    BY <1>1, AppendProperties
<1>3. ASSUME NEW i \in DOMAIN Append(d, c), Append(d, c)[i].kind = "show",
             Append(d, c)[i].overlay = og
      PROVE  Append(d, c)[i].grace \notin can
  <2>1. CASE i = Len(d) + 1
    BY <1>2, <1>3, <2>1
  <2>2. CASE i \in 1..Len(d)
    BY <1>2, <1>3, <2>2 DEF CallsFit
  <2> QED  BY <1>2, <2>1, <2>2
<1> QED  BY <1>2, <1>3 DEF CallsFit

LEMMA CallTaken ==
    ASSUME NEW og \in Nat, NEW gg \in Nat, NEW can, NEW d, CallsFit(d, og, gg, can), d # <<>>
    PROVE  /\ CallsFit(Tail(d), og, gg, can)
           /\ Head(d) \in Call(og, gg)
           /\ Head(d).kind = "show" /\ Head(d).overlay = og => Head(d).grace \notin can
<1>1. d \in Seq(Call(og, gg))
    BY DEF CallsFit
<1>2. /\ Tail(d) \in Seq(Call(og, gg)) /\ Len(Tail(d)) = Len(d) - 1 /\ Len(d) \in Nat \ {0}
      /\ DOMAIN d = 1..Len(d) /\ DOMAIN Tail(d) = 1..Len(d) - 1
      /\ \A i \in 1..Len(Tail(d)) : Tail(d)[i] = d[i + 1]
      /\ Head(d) = d[1] /\ Head(d) \in Call(og, gg)
    BY <1>1, HeadTailProperties
<1> QED  BY <1>2 DEF CallsFit

LEMMA FrameOpened ==
    ASSUME NEW og \in Nat, NEW gg \in Nat, NEW can, NEW n, FramesFit(n, og, gg, can),
           NEW x \in Frame, FrameFits(x, og, gg, can)
    PROVE  /\ FramesFit(Append(n, x), og, gg, can)
           /\ Len(Append(n, x)) = Len(n) + 1 /\ Len(n) \in Nat
           /\ \A i \in 1..Len(n) : Append(n, x)[i] = n[i]
           /\ Append(n, x)[Len(n) + 1] = x
<1>1. n \in Seq(Frame)
    BY DEF FramesFit
<1>2. /\ Append(n, x) \in Seq(Frame) /\ Len(n) \in Nat
      /\ Len(Append(n, x)) = Len(n) + 1
      /\ DOMAIN Append(n, x) = 1..Len(n) + 1 /\ DOMAIN n = 1..Len(n)
      /\ \A i \in 1..Len(n) : Append(n, x)[i] = n[i]
      /\ Append(n, x)[Len(n) + 1] = x
    BY <1>1, AppendProperties
<1>3. ASSUME NEW i \in DOMAIN Append(n, x) PROVE FrameFits(Append(n, x)[i], og, gg, can)
  <2>1. CASE i = Len(n) + 1
    BY <1>2, <2>1
  <2>2. CASE i \in 1..Len(n)
    BY <1>2, <2>2 DEF FramesFit
  <2> QED  BY <1>2, <2>1, <2>2
<1> QED  BY <1>2, <1>3 DEF FramesFit

LEMMA FrameClosed ==
    ASSUME NEW og, NEW gg, NEW can, NEW n, FramesFit(n, og, gg, can), n # <<>>
    PROVE  /\ FramesFit(Front(n), og, gg, can)
           /\ Len(n) \in Nat \ {0} /\ Len(Front(n)) = Len(n) - 1
           /\ \A i \in 1..Len(n) - 1 : Front(n)[i] = n[i]
           /\ Last(n) = n[Len(n)] /\ Last(n) \in Frame /\ FrameFits(Last(n), og, gg, can)
<1>1. n \in Seq(Frame) /\ Len(n) \in Nat \ {0} /\ DOMAIN n = 1..Len(n)
    BY DEF FramesFit
<1>2. Last(n) = n[Len(n)] /\ Front(n) = SubSeq(n, 1, Len(n) - 1)
    BY DEF Last, Front
<1>3. /\ Front(n) \in Seq(Frame) /\ Len(Front(n)) = Len(n) - 1
      /\ \A i \in 1..Len(n) - 1 : Front(n)[i] = n[i]
  <2>1. 1 \in 1..Len(n) + 1 /\ Len(n) - 1 \in 0..Len(n)
    BY <1>1
  <2> QED  BY <1>1, <1>2, <2>1, SubSeqProperties
<1>4. Len(n) \in DOMAIN n /\ n[Len(n)] \in Frame
    BY <1>1
<1>5. DOMAIN Front(n) = 1..Len(n) - 1
    BY <1>1, <1>3
<1>6. \A i \in DOMAIN Front(n) : FrameFits(Front(n)[i], og, gg, can)
    BY <1>1, <1>3, <1>5 DEF FramesFit
<1> QED  BY <1>1, <1>2, <1>3, <1>4, <1>6 DEF FramesFit

SameFrames(v, n) ==
    /\ Len(v) = Len(n) /\ Len(n) \in Nat
    /\ \A i \in 1..Len(n) : v[i].kind = n[i].kind /\ v[i].rest = n[i].rest

\* An invalidated capture keeps all but its validity.
LEMMA InvalidatedIs ==
    ASSUME NEW og, NEW gg, NEW can, NEW n, FramesFit(n, og, gg, can)
    PROVE  /\ FramesFit(Invalidated(n), og, gg, can)
           /\ SameFrames(Invalidated(n), n)
<1> DEFINE v == Invalidated(n)
<1>1. n \in Seq(Frame) /\ Len(n) \in Nat /\ DOMAIN n = 1..Len(n) /\ \A i \in 1..Len(n) : n[i] \in Frame
    BY DEF FramesFit
<1>2. v = [i \in 1..Len(n) |-> [n[i] EXCEPT !.valid = FALSE]]
    BY <1>1 DEF Invalidated
<1>3. ASSUME NEW x \in Frame
      PROVE  /\ [x EXCEPT !.valid = FALSE] \in Frame
             /\ [x EXCEPT !.valid = FALSE].kind = x.kind /\ [x EXCEPT !.valid = FALSE].rest = x.rest
             /\ [x EXCEPT !.valid = FALSE].show = x.show /\ [x EXCEPT !.valid = FALSE].grace = x.grace
    BY DEF Frame
<1>4. ASSUME NEW i \in 1..Len(n)
      PROVE  /\ v[i] \in Frame /\ v[i].kind = n[i].kind /\ v[i].rest = n[i].rest
             /\ v[i].show = n[i].show /\ v[i].grace = n[i].grace
  <2>1. v[i] = [n[i] EXCEPT !.valid = FALSE]
    BY <1>2
  <2> QED  BY <1>1, <1>3, <2>1
<1>5. v \in Seq(Frame) /\ Len(v) = Len(n) /\ DOMAIN v = 1..Len(n)
  <2>1. \A i \in 1..Len(n) : [n[i] EXCEPT !.valid = FALSE] \in Frame
    BY <1>1, <1>3
  <2> QED  BY <1>1, <1>2, <2>1
<1>6. \A i \in DOMAIN v : FrameFits(v[i], og, gg, can)
    BY <1>1, <1>4, <1>5 DEF FramesFit, FrameFits
<1> QED  BY <1>1, <1>4, <1>5, <1>6 DEF FramesFit, SameFrames

-----------------------------------------------------------------------------
(* The inductive invariant.                                                *)

\* A capture for the lock is the only one; those that prime are taken in a fade
\* of an unlocked session, and no action waits for them.
NestFits(n, l, f) ==
    /\ l = "starting" => n # <<>>
    /\ \/ n = <<>>
       \/ Len(n) = 1 /\ n[1].kind = "lock" /\ l = "starting"
       \/ (\A i \in 1..Len(n) : n[i].kind = "prime" /\ n[i].rest = <<>>) /\ l = "unlocked" /\ f = TRUE

\* The behaviours whose actions wait for a capture of the lock.
Left(n) == IF n = <<>> THEN {} ELSE ToSet(n[1].rest)

\* A behaviour fades in the grace or waits for a capture, never both.
FadeFits(p, g, n) ==
    /\ p \in [Behavior -> {"Waiting", "Fading", "Idled"}]
    /\ g \in Seq(Behavior)
    /\ \A i, j \in 1..Len(g) : g[i] = g[j] => i = j
    /\ \A b \in Behavior : p[b] = "Fading" <=> b \in ToSet(g) \/ b \in Left(n)
    /\ ToSet(g) \cap Left(n) = {}

TimerFits(g, t, gg) == t \in {0, gg} /\ (g # <<>> => t = gg)

SwitchesFit ==
    /\ graceWillLock \in BOOLEAN
    /\ inhibited \in BOOLEAN /\ idledWhileInhibited \in BOOLEAN /\ fade \in BOOLEAN
    /\ primed \in BOOLEAN /\ away \in BOOLEAN
    /\ lock \in {"unlocked", "starting", "pending", "locked"} /\ screen \in {"on", "off"}
    /\ account \in [Behavior -> {"settled", "owed", "forgotten"}]

ShadeInv == ShadeFits(overlay, overlayGeneration, graceGeneration, cancelled, deferred, nest)
NestInv == NestFits(nest, lock, fade)
FadeInv == FadeFits(phase, grace, nest)
TimerInv == TimerFits(grace, fallback, graceGeneration)
Stream == StreamInv(server, wire, told)

IdleInv == SwitchesFit /\ ShadeInv /\ NestInv /\ FadeInv /\ TimerInv /\ Stream

LEMMA IdleTyped ==
    ASSUME IdleInv
    PROVE  TypeOK
<1>1. deferred \in Seq(Call(overlayGeneration, graceGeneration)) /\ nest \in Seq(Frame)
    BY DEF IdleInv, ShadeInv, ShadeFits, CallsFit, FramesFit
<1>2. /\ server \in [Behavior -> {"none", "active", "idle"}]
      /\ told \in [Behavior -> {"active", "idle", "missed"}]
      /\ wire \in Seq([of: Behavior, is: {"idle", "active"}])
    BY DEF IdleInv, Stream, StreamInv, StreamTyped, Sent
<1>3. /\ overlay \in [state: {"hidden", "fading", "opaque"}, grace: 0..graceGeneration]
      /\ overlayGeneration \in Nat /\ graceGeneration \in Nat /\ cancelled \subseteq Nat
    BY DEF IdleInv, ShadeInv, ShadeFits, OverlayFits
<1>4. phase \in [Behavior -> {"Waiting", "Fading", "Idled"}] /\ grace \in Seq(Behavior)
      /\ fallback \in {0, graceGeneration}
    BY DEF IdleInv, FadeInv, FadeFits, TimerInv, TimerFits
<1> QED  BY <1>1, <1>2, <1>3, <1>4 DEF IdleInv, SwitchesFit, TypeOK, Call

\* The behaviours that wait behind a capture are those of the lock's frame.
LEMMA BehindIsLeft ==
    ASSUME NestInv, nest \in Seq(Frame)
    PROVE  Behind = Left(nest)
<1>1. nest = <<>> \/ Len(nest) = 1 \/ \A i \in 1..Len(nest) : nest[i].rest = <<>>
    BY DEF NestInv, NestFits
<1>2. DOMAIN nest = 1..Len(nest) /\ Len(nest) \in Nat
    OBVIOUS
<1>3. CASE nest = <<>>
  <2>1. DOMAIN nest = {}
    BY <1>2, <1>3
  <2> QED  BY <1>3, <2>1 DEF Behind, Left
<1>4. CASE Len(nest) = 1
  <2>1. DOMAIN nest = {1} /\ nest # <<>>
    BY <1>2, <1>4
  <2>2. {ToSet(nest[i].rest) : i \in {1}} = {ToSet(nest[1].rest)}
    OBVIOUS
  <2>3. Behind = ToSet(nest[1].rest)
    BY <2>1, <2>2 DEF Behind
  <2> QED  BY <2>1, <2>3 DEF Left
<1>5. CASE nest # <<>> /\ \A i \in 1..Len(nest) : nest[i].rest = <<>>
  <2>1. \A i \in 1..Len(nest) : ToSet(nest[i].rest) = {}
    BY <1>5 DEF ToSet
  <2>2. 1 \in 1..Len(nest)
    BY <1>2, <1>5
  <2>3. Behind = {}
    BY <1>2, <2>1 DEF Behind
  <2> QED  BY <1>5, <2>1, <2>2, <2>3 DEF Left
<1> QED  BY <1>1, <1>3, <1>4, <1>5

LEMMA GraceWhole ==
    ASSUME IdleInv
    PROVE  GraceIsWhole /\ CancelledFadeIsGone
<1>1. TypeOK
    BY IdleTyped
<1>2. {b \in Behavior : phase[b] = "Fading"} \ Behind = ToSet(grace)
  <2>1. nest \in Seq(Frame) /\ grace \in Seq(Behavior)
    BY <1>1 DEF TypeOK
  <2>2. Behind = Left(nest)
    BY <2>1, BehindIsLeft DEF IdleInv
  <2>3. ToSet(grace) \subseteq Behavior
    BY <2>1 DEF ToSet
  <2>4. /\ \A b \in Behavior : phase[b] = "Fading" <=> b \in ToSet(grace) \/ b \in Left(nest)
        /\ ToSet(grace) \cap Left(nest) = {}
    BY DEF IdleInv, FadeInv, FadeFits
  <2> QED  BY <2>2, <2>3, <2>4
<1>3. grace # <<>> => fallback = graceGeneration
    BY DEF IdleInv, TimerInv, TimerFits
<1>4. CancelledFadeIsGone
    BY DEF IdleInv, ShadeInv, ShadeFits, OverlayFits, CancelledFadeIsGone
<1> QED  BY <1>1, <1>2, <1>3, <1>4 DEF GraceIsWhole, GraceIsFading

LEMMA IdleInit ==
    ASSUME IdleAssumption, Init
    PROVE  IdleInv
<1>1. SwitchesFit /\ TimerInv
    BY DEF Init, SwitchesFit, TimerInv, TimerFits
<1>2. NestInv
    BY DEF Init, NestInv, NestFits
<1>3. FadeInv
  <2>1. grace = <<>> /\ Left(nest) = {} /\ ToSet(grace) = {} /\ Len(grace) = 0
    BY DEF Init, Left, ToSet
  <2> QED  BY <2>1 DEF Init, FadeInv, FadeFits
<1>4. ShadeInv
  <2>1. CallsFit(deferred, 0, 0, cancelled) /\ FramesFit(nest, 0, 0, cancelled)
    BY DEF Init, CallsFit, FramesFit
  <2>2. OverlayFits(overlay, 0, cancelled)
    BY DEF Init, OverlayFits, Hidden
  <2> QED  BY <2>1, <2>2 DEF Init, ShadeInv, ShadeFits
<1>5. Stream
  <2>1. StreamTyped(server, wire, told) /\ Len(wire) = 0
    BY DEF Init, StreamTyped, Notification
  <2>2. Ordered(server, wire, told)
    BY <2>1 DEF Init, Ordered, Reported
  <2> QED  BY <2>1, <2>2 DEF Stream, StreamInv
<1> QED  BY <1>1, <1>2, <1>3, <1>4, <1>5 DEF IdleInv

-----------------------------------------------------------------------------
(* Steps that several handlers take.                                       *)

LEMMA NestKept ==
    ASSUME NEW og, NEW gg, NEW can, NEW n, FramesFit(n, og, gg, can), NEW l, NEW f,
           NestFits(n, l, f)
    PROVE  NestFits(Invalidated(n), l, f) /\ Left(Invalidated(n)) = Left(n)
<1> DEFINE v == Invalidated(n)
<1>1. /\ Len(v) = Len(n) /\ Len(n) \in Nat
      /\ \A i \in 1..Len(n) : v[i].kind = n[i].kind /\ v[i].rest = n[i].rest
      /\ v \in Seq(Frame) /\ n \in Seq(Frame)
  <2>1. FramesFit(v, og, gg, can)
    BY InvalidatedIs
  <2>2. SameFrames(v, n)
    BY InvalidatedIs
  <2> HIDE DEF v
  <2> QED  BY <2>1, <2>2 DEF FramesFit, SameFrames
<1> HIDE DEF v
<1>2. n = <<>> <=> v = <<>>
    BY <1>1
<1>3. n # <<>> => 1 \in 1..Len(n)
    BY <1>1
<1>4. Left(v) = Left(n)
    BY <1>1, <1>2, <1>3 DEF Left
<1>5. NestFits(v, l, f)
    BY <1>1, <1>2, <1>3 DEF NestFits
<1> QED  BY <1>4, <1>5 DEF v

LEMMA CancelGraceKeeps ==
    ASSUME IdleInv, NEW user \in BOOLEAN, NEW hide \in BOOLEAN, CancelGrace(user, hide),
           deferred' = deferred
    PROVE  /\ ShadeInv'
           /\ grace' = <<>> /\ TimerInv'
           /\ graceWillLock' \in BOOLEAN /\ primed' \in BOOLEAN
           /\ nest' \in {nest, Invalidated(nest)}
<1>1. /\ overlayGeneration \in Nat /\ graceGeneration \in Nat /\ cancelled \subseteq Nat
      /\ \A g \in cancelled : g < graceGeneration
      /\ CallsFit(deferred, overlayGeneration, graceGeneration, cancelled)
      /\ FramesFit(nest, overlayGeneration, graceGeneration, cancelled)
      /\ OverlayFits(overlay, graceGeneration, cancelled)
    BY DEF IdleInv, ShadeInv, ShadeFits
<1>2. CASE grace = <<>>
  <2>1. /\ grace' = <<>> /\ graceWillLock' = graceWillLock /\ graceGeneration' = graceGeneration
        /\ fallback' = fallback /\ overlayGeneration' = overlayGeneration
        /\ primed' = primed /\ nest' = nest /\ cancelled' = cancelled
        /\ overlay' \in {overlay, Hidden}
    BY <1>2 DEF CancelGrace
  <2>2. OverlayFits(overlay', graceGeneration, cancelled)
    BY <1>1, <2>1, HiddenFits
  <2>3. ShadeInv'
    BY <1>1, <2>1, <2>2 DEF ShadeInv, ShadeFits
  <2>4. TimerInv'
    BY <2>1 DEF IdleInv, TimerInv, TimerFits
  <2> QED  BY <2>1, <2>3, <2>4 DEF IdleInv, SwitchesFit
<1>3. CASE grace # <<>>
  <2>1. /\ grace' = <<>> /\ graceWillLock' = FALSE /\ fallback' = 0
        /\ graceGeneration' = graceGeneration + 1
        /\ overlayGeneration' = overlayGeneration + 1
        /\ cancelled' = IF user THEN cancelled \union {graceGeneration} ELSE cancelled
    BY <1>3 DEF CancelGrace
  <2>2. primed' \in BOOLEAN /\ nest' \in {nest, Invalidated(nest)}
    BY <1>3 DEF CancelGrace, Invalidate, IdleInv, SwitchesFit
  <2>3. overlay' = Hidden \/ (overlay' = overlay /\ user = FALSE)
    BY <1>3 DEF CancelGrace, Handoff
  <2>4. /\ cancelled' \subseteq Nat /\ \A g \in cancelled' : g < graceGeneration + 1
    BY <1>1, <2>1
  <2>5. PICK can : can = cancelled'
    OBVIOUS
  <2>6. FramesFit(nest', overlayGeneration, graceGeneration, cancelled)
    BY <1>1, <2>2, InvalidatedIs
  <2>7. PICK n : n = nest'
    OBVIOUS
  <2>8. /\ CallsFit(deferred, overlayGeneration + 1, graceGeneration + 1, can)
        /\ FramesFit(n, overlayGeneration + 1, graceGeneration + 1, can)
    BY <1>1, <2>6, <2>7, FitLater
  <2>9. OverlayFits(overlay', graceGeneration + 1, can)
    <3>1. CASE overlay' = Hidden
      BY <1>1, <3>1, HiddenFits
    <3>2. CASE overlay' = overlay /\ user = FALSE
      <4>1. can = cancelled
        BY <2>1, <2>5, <3>2
      <4> QED  BY <1>1, <3>2, <4>1 DEF OverlayFits
    <3> QED  BY <2>3, <3>1, <3>2
  <2>10. ShadeInv'
    BY <1>1, <2>1, <2>4, <2>5, <2>7, <2>8, <2>9 DEF ShadeInv, ShadeFits
  <2>11. TimerInv'
    BY <2>1 DEF TimerInv, TimerFits
  <2> QED  BY <2>1, <2>2, <2>10, <2>11
<1> QED  BY <1>2, <1>3

\* Without a capture in progress there is no frame to invalidate.
LEMMA NoFrames ==
    ASSUME nest = <<>>
    PROVE  Invalidated(nest) = <<>> /\ Left(nest) = {}
BY DEF Invalidated, Left

LEMMA RenewKeeps ==
    ASSUME Stream, NEW B, NEW l, Renew(B, l)
    PROVE  Stream'
<1>1. PICK r, v, u : r = server' /\ v = wire' /\ u = told'
    OBVIOUS
<1>2. PICK s, w, t : s = server /\ w = wire /\ t = told
    OBVIOUS
<1>3. StreamInv(s, w, t)
    BY <1>2 DEF Stream
<1>4. /\ r = [b \in Behavior |-> IF b \in B THEN Notification(b, l) ELSE s[b]]
      /\ v = Only(w, {e \in ToSet(w) : e.of \notin B})
      /\ u = [b \in Behavior |-> IF b \in B THEN "active" ELSE t[b]]
    BY <1>1, <1>2 DEF Renew
<1>5. StreamInv(r, v, u)
    BY <1>3, <1>4, RenewOrdered
<1> QED  BY <1>1, <1>5 DEF Stream

LEMMA DispatchKeeps ==
    ASSUME Stream, NEW b \in Behavior, NEW is \in {"idle", "active"},
           NEW heard \in {"active", "idle", "missed"}, heard = "idle" <=> is = "idle",
           Event(b, is), Dispatched(b, heard), server' = server
    PROVE  Stream'
BY DispatchOrdered DEF Stream, Event, Dispatched

\* All behaviours wait again, from the main loop.
LEMMA AllWaiting ==
    ASSUME IdleInv, nest = <<>>, nest' \in {nest, Invalidated(nest)}, grace' = <<>>,
           phase' = [b \in Behavior |-> "Waiting"]
    PROVE  FadeInv' /\ nest' = <<>>
<1>1. nest' = <<>>
    BY NoFrames
<1>2. Left(nest') = {} /\ ToSet(grace') = {} /\ Len(grace') = 0
    BY <1>1 DEF Left, ToSet
<1> QED  BY <1>1, <1>2 DEF FadeInv, FadeFits

LEMMA UndoKeeps ==
    ASSUME SwitchesFit, NEW B, Undo(B)
    PROVE  screen' \in {"on", "off"} /\ account' \in [Behavior -> {"settled", "owed", "forgotten"}]
BY DEF SwitchesFit, Undo

LEMMA LockerFound ==
    ASSUME NEW todo \in Seq(Behavior), Locks(todo)
    PROVE  FirstLocker(todo) \in 1..Len(todo)
<1> DEFINE S == {i \in DOMAIN todo : todo[i] \in Lockers}
<1>1. DOMAIN todo = 1..Len(todo) /\ Len(todo) \in Nat
    OBVIOUS
<1>2. S \in SUBSET Nat /\ S # {}
    BY <1>1 DEF Locks
<1>3. PICK m \in S : \A y \in S : m <= y
    BY <1>2, Smallest
<1>4. \A j \in 1..(m - 1) : todo[j] \notin Lockers
  <2> SUFFICES ASSUME NEW j \in 1..(m - 1), todo[j] \in Lockers PROVE FALSE
    OBVIOUS
  <2>1. j \in S /\ m \in Nat
    BY <1>1, <1>2, <1>3
  <2> QED  BY <1>3, <2>1
<1>5. m \in DOMAIN todo /\ todo[m] \in Lockers
    BY <1>3
<1> DEFINE First(i) == todo[i] \in Lockers /\ \A j \in 1..(i - 1) : todo[j] \notin Lockers
<1>6. FirstLocker(todo) = CHOOSE i \in DOMAIN todo : First(i)
    BY DEF FirstLocker
<1>7. First(m)
    BY <1>4, <1>5
<1> HIDE DEF First
<1>8. FirstLocker(todo) \in DOMAIN todo
    BY <1>5, <1>6, <1>7
<1> QED  BY <1>1, <1>8

\* The first k behaviours of todo run, and the rest waits if there is a capture.
RunsTo(todo, k) ==
    /\ phase' = [b \in Behavior |-> IF \E i \in 1..k : todo[i] = b THEN "Idled" ELSE phase[b]]
    /\ account' = [b \in Behavior |-> IF \E i \in 1..k : todo[i] = b THEN "owed" ELSE account[b]]
    /\ screen' \in {"on", "off"} /\ primed' \in BOOLEAN
    /\ \/ k = Len(todo) /\ nest' = nest /\ lock' = lock
       \/ k = Len(todo) /\ nest = <<>> /\ nest' = <<>> /\ lock = "unlocked" /\ lock' = "pending"
       \/ /\ k >= 1 /\ nest = <<>> /\ lock' = "starting" /\ Captures
          /\ nest' = <<LockFrame(SubSeq(todo, k + 1, Len(todo)))>>

LEMMA RunActionsDoes ==
    ASSUME SwitchesFit, NEW todo \in Seq(Behavior), NEW ready \in BOOLEAN,
           IdleAssumption, nest = <<>> \/ lock = "starting", RunActions(todo, ready, nest)
    PROVE  \E k \in 0..Len(todo) : RunsTo(todo, k)
<1> DEFINE capture == Locks(todo) /\ Captures /\ ~ready
           now == IF capture THEN SubSeq(todo, 1, FirstLocker(todo)) ELSE todo
           rest == SubSeq(todo, Len(now) + 1, Len(todo))
<1>1. Len(todo) \in Nat /\ DOMAIN todo = 1..Len(todo)
    OBVIOUS
<1>2. /\ phase' = [b \in Behavior |-> IF b \in ToSet(now) THEN "Idled" ELSE phase[b]]
      /\ account' = [b \in Behavior |-> IF b \in ToSet(now) THEN "owed" ELSE account[b]]
    BY DEF RunActions
<1>3. screen' \in {"on", "off"} /\ primed' \in BOOLEAN
    BY DEF RunActions, SwitchesFit
<1>4. /\ lock' = IF capture THEN "starting" ELSE IF Locks(todo) THEN "pending" ELSE lock
      /\ nest' = LET old == IF Locks(todo) /\ ~ready THEN Invalidated(nest) ELSE nest
                 IN IF capture THEN Append(old, LockFrame(rest)) ELSE old
    BY DEF RunActions
<1>5. Locks(todo) => nest = <<>> /\ lock = "unlocked" /\ Invalidated(nest) = <<>>
    BY NoFrames DEF Locks
<1>6. CASE capture
  <2>1. PICK k \in 1..Len(todo) : k = FirstLocker(todo)
    BY <1>6, LockerFound
  <2>2. now = SubSeq(todo, 1, k)
    BY <1>6, <2>1
  <2>3. Len(now) = k /\ \A i \in 1..k : now[i] = todo[i]
    <3>1. 1 \in 1..Len(todo) + 1 /\ k \in 0..Len(todo)
      BY <1>1
    <3>2. PICK q : q = SubSeq(todo, 1, k)
      OBVIOUS
    <3>3. Len(q) = k /\ \A i \in 1..k : q[i] = todo[i]
      BY <1>1, <3>1, <3>2, SubSeqProperties
    <3> QED  BY <2>2, <3>2, <3>3
  <2>4. nest' = <<LockFrame(SubSeq(todo, k + 1, Len(todo)))>> /\ lock' = "starting"
    <3>1. nest' = Append(<<>>, LockFrame(rest)) /\ lock' = "starting"
      BY <1>4, <1>5, <1>6
    <3>2. rest = SubSeq(todo, k + 1, Len(todo))
      BY <2>3
    <3> HIDE DEF rest
    <3> QED  BY <3>1, <3>2
  <2>5. DOMAIN now = 1..k
    <3>1. now \in Seq(Behavior)
      <4>1. 1 \in 1..Len(todo) + 1 /\ k \in 0..Len(todo)
        BY <1>1
      <4>2. PICK q : q = SubSeq(todo, 1, k)
        OBVIOUS
      <4>3. q \in Seq(Behavior)
        BY <1>1, <4>1, <4>2, SubSeqProperties
      <4> QED  BY <2>2, <4>2, <4>3
    <3> HIDE DEF now
    <3> QED  BY <2>3, <3>1
  <2>6. \A b : b \in ToSet(now) <=> \E i \in 1..k : todo[i] = b
    <3> HIDE DEF now
    <3> QED  BY <2>3, <2>5 DEF ToSet
  <2>7. Captures /\ nest = <<>>
    BY <1>5, <1>6
  <2> HIDE DEF now
  <2>8. phase' = [b \in Behavior |-> IF \E i \in 1..k : todo[i] = b THEN "Idled" ELSE phase[b]]
    BY Zenon, <1>2, <2>6
  <2>9. account' = [b \in Behavior |-> IF \E i \in 1..k : todo[i] = b THEN "owed" ELSE account[b]]
    BY Zenon, <1>2, <2>6
  <2>10. k \in 0..Len(todo) /\ k >= 1
    OBVIOUS
  <2>11. RunsTo(todo, k)
    BY <1>3, <2>4, <2>7, <2>8, <2>9, <2>10 DEF RunsTo
  <2> QED  BY <2>10, <2>11
<1>7. CASE ~capture
  <2>1. now = todo
    BY <1>7
  <2> DEFINE k == Len(todo)
  <2>2. \A b : b \in ToSet(now) <=> \E i \in 1..k : todo[i] = b
    BY <1>1, <2>1 DEF ToSet
  <2>3. \/ nest' = nest /\ lock' = lock
        \/ nest = <<>> /\ nest' = <<>> /\ lock = "unlocked" /\ lock' = "pending"
    <3>1. CASE Locks(todo)
      BY <1>4, <1>5, <1>7, <3>1
    <3>2. CASE ~Locks(todo)
      BY <1>4, <1>7, <3>2
    <3> QED  BY <3>1, <3>2
  <2> HIDE DEF now
  <2>4. phase' = [b \in Behavior |-> IF \E i \in 1..k : todo[i] = b THEN "Idled" ELSE phase[b]]
    BY Zenon, <1>2, <2>2
  <2>5. account' = [b \in Behavior |-> IF \E i \in 1..k : todo[i] = b THEN "owed" ELSE account[b]]
    BY Zenon, <1>2, <2>2
  <2>6. k \in 0..Len(todo)
    BY <1>1
  <2>7. RunsTo(todo, k)
    BY <1>3, <2>3, <2>4, <2>5 DEF RunsTo
  <2> QED  BY <2>6, <2>7
<1> QED  BY <1>6, <1>7

-----------------------------------------------------------------------------
(* The steps, one after another.                                           *)

\* What a step leaves alone keeps its part of the invariant.
LEMMA ShadeStays ==
    ASSUME ShadeInv, UNCHANGED <<shade, graceGeneration, cancelled, deferred, nest>>
    PROVE  ShadeInv'
BY DEF ShadeInv, shade

LEMMA FadeStays ==
    ASSUME FadeInv, UNCHANGED <<phase, grace, nest>>
    PROVE  FadeInv'
BY DEF FadeInv

LEMMA TimerStays ==
    ASSUME TimerInv, UNCHANGED <<grace, fallback, graceGeneration>>
    PROVE  TimerInv'
BY DEF TimerInv

LEMMA NestStays ==
    ASSUME NestInv, UNCHANGED <<nest, lock, fade>>
    PROVE  NestInv'
BY DEF NestInv

LEMMA StreamStays ==
    ASSUME Stream, UNCHANGED compositor
    PROVE  Stream'
BY DEF Stream, compositor

\* The user, the inhibitions and the reports nobody waits for.
LEMMA QuietSteps ==
    ASSUME IdleInv, Leave \/ Inhibit \/ (\E b \in Behavior : ReportIdle(b)) \/ Return
                    \/ (\E b \in Behavior : IgnoreEvent(b) \/ SuppressIdled(b)),
           IdleAssumption
    PROVE  IdleInv'
<1>1. /\ UNCHANGED <<shade, graceGeneration, cancelled, deferred, nest, phase, grace, fallback,
                     lock, fade>>
    BY DEF Leave, Inhibit, ReportIdle, Return, IgnoreEvent, SuppressIdled, manager, shade
<1>2. SwitchesFit'
  <2>1. UNCHANGED <<graceWillLock, fade, primed, lock, screen, account>>
    BY DEF Leave, Inhibit, ReportIdle, Return, IgnoreEvent, SuppressIdled, manager
  <2>2. /\ away' \in {away, TRUE, FALSE} /\ inhibited' \in {inhibited, TRUE}
        /\ idledWhileInhibited' \in {idledWhileInhibited, TRUE}
    BY DEF Leave, Inhibit, ReportIdle, Return, IgnoreEvent, SuppressIdled, manager, inhibition
  <2>3. SwitchesFit
    BY DEF IdleInv
  <2> QED  BY <2>1, <2>2, <2>3 DEF SwitchesFit
<1>3. ShadeInv' /\ FadeInv' /\ TimerInv' /\ NestInv'
    BY <1>1, ShadeStays, FadeStays, TimerStays, NestStays DEF IdleInv
<1>4. Stream'
  <2>1. CASE Leave \/ Inhibit
    BY <2>1, StreamStays DEF IdleInv, Leave, Inhibit
  <2>2. CASE \E b \in Behavior : ReportIdle(b)
    <3>1. PICK b \in Behavior : ReportIdle(b)
      BY <2>2
    <3>2. /\ server' = [server EXCEPT ![b] = "idle"] /\ told' = told
          /\ wire' = Append(wire, [of |-> b, is |-> "idle"])
      BY <3>1 DEF ReportIdle
    <3> QED  BY <3>2, ReportIdleOrdered DEF IdleInv, Stream
  <2>3. CASE Return
    <3>1. PICK order \in SetToSeqs({b \in Behavior : server[b] = "idle"}) :
             wire' = wire \o [i \in DOMAIN order |-> [of |-> order[i], is |-> "active"]]
      BY <2>3 DEF Return
    <3>2. server' = [b \in Behavior |-> IF server[b] = "idle" THEN "active" ELSE server[b]]
          /\ told' = told
      BY <2>3 DEF Return
    <3>3. PICK s, w, t, r, v : s = server /\ w = wire /\ t = told /\ r = server' /\ v = wire'
      OBVIOUS
    <3>4. StreamInv(s, w, t) /\ IsFiniteSet(Behavior)
      BY <3>3 DEF IdleInv, Stream, IdleAssumption
    <3>5. /\ order \in SetToSeqs({b \in Behavior : s[b] = "idle"})
          /\ v = w \o [i \in DOMAIN order |-> [of |-> order[i], is |-> "active"]]
          /\ r = [b \in Behavior |-> IF s[b] = "idle" THEN "active" ELSE s[b]]
      BY <3>1, <3>2, <3>3
    <3>6. StreamInv(r, v, t)
      BY <3>4, <3>5, ReturnOrdered
    <3> QED  BY <3>2, <3>3, <3>6 DEF Stream
  <2>4. CASE \E b \in Behavior : IgnoreEvent(b)
    <3>1. PICK b \in Behavior : IgnoreEvent(b)
      BY <2>4
    <3>2. PICK is \in {"idle", "active"} : Event(b, is) /\ Dispatched(b, is)
      BY <3>1 DEF IgnoreEvent
    <3>3. server' = server
      BY <3>1 DEF IgnoreEvent
    <3> QED  BY <3>2, <3>3, DispatchKeeps DEF IdleInv
  <2>5. CASE \E b \in Behavior : SuppressIdled(b)
    <3>1. PICK b \in Behavior : Renew({b}, lock)
      BY <2>5 DEF SuppressIdled
    <3> QED  BY <3>1, RenewKeeps DEF IdleInv
  <2> QED  BY <2>1, <2>2, <2>3, <2>4, <2>5
<1> QED  BY <1>2, <1>3, <1>4 DEF IdleInv

\* b, which waited, joins the behaviours that fade.
LEMMA FadeJoined ==
    ASSUME NEW p, NEW g, NEW n, NEW b \in Behavior, FadeFits(p, g, n), p[b] = "Waiting", NEW m,
           Left(m) = Left(n)
    PROVE  FadeFits([p EXCEPT ![b] = "Fading"], Append(g, b), m)
<1> DEFINE q == [p EXCEPT ![b] = "Fading"]
           h == Append(g, b)
<1>1. /\ p \in [Behavior -> {"Waiting", "Fading", "Idled"}] /\ g \in Seq(Behavior)
      /\ \A i, j \in 1..Len(g) : g[i] = g[j] => i = j
      /\ \A c \in Behavior : p[c] = "Fading" <=> c \in ToSet(g) \/ c \in Left(n)
      /\ ToSet(g) \cap Left(n) = {}
    BY DEF FadeFits
<1>2. /\ h \in Seq(Behavior) /\ Len(g) \in Nat /\ Len(h) = Len(g) + 1
      /\ DOMAIN h = 1..Len(g) + 1 /\ DOMAIN g = 1..Len(g)
      /\ \A i \in 1..Len(g) : h[i] = g[i]
      /\ h[Len(g) + 1] = b
    BY <1>1, AppendProperties
<1> HIDE DEF h
<1>3. ToSet(h) = ToSet(g) \cup {b}
    BY <1>2 DEF ToSet
<1>4. b \notin ToSet(g) /\ b \notin Left(n)
    BY <1>1
<1>5. ASSUME NEW i \in 1..Len(h), NEW j \in 1..Len(h), h[i] = h[j]
      PROVE  i = j
  <2>1. \A k \in 1..Len(g) : g[k] # b
    BY <1>2, <1>4 DEF ToSet
  <2>2. CASE i \in 1..Len(g) /\ j \in 1..Len(g)
    BY <1>1, <1>2, <1>5, <2>2
  <2>3. CASE i = Len(g) + 1 /\ j \in 1..Len(g)
    BY <1>2, <1>5, <2>1, <2>3
  <2>4. CASE j = Len(g) + 1 /\ i \in 1..Len(g)
    BY <1>2, <1>5, <2>1, <2>4
  <2>5. CASE i = Len(g) + 1 /\ j = Len(g) + 1
    BY <2>5
  <2> QED  BY <1>2, <2>2, <2>3, <2>4, <2>5
<1>6. /\ q \in [Behavior -> {"Waiting", "Fading", "Idled"}] /\ q[b] = "Fading"
      /\ \A c \in Behavior : c # b => q[c] = p[c]
    BY <1>1
<1> HIDE DEF q
<1>7. \A c \in Behavior : q[c] = "Fading" <=> c \in ToSet(h) \/ c \in Left(m)
    BY <1>1, <1>3, <1>6
<1>8. ToSet(h) \cap Left(m) = {}
    BY <1>1, <1>3, <1>4
<1> QED  BY <1>2, <1>5, <1>6, <1>7, <1>8 DEF FadeFits, q, h

LEMMA JoinGraceInv ==
    ASSUME IdleInv, NEW b \in Behavior, JoinGrace(b)
    PROVE  IdleInv'
<1>1. SwitchesFit'
    BY DEF IdleInv, SwitchesFit, JoinGrace, inhibition
<1>2. ShadeInv' /\ NestInv'
    BY ShadeStays, NestStays DEF IdleInv, JoinGrace
<1>3. FadeInv'
    BY FadeJoined DEF IdleInv, FadeInv, JoinGrace
<1>4. TimerInv'
    BY DEF IdleInv, TimerInv, TimerFits, JoinGrace
<1>5. Stream'
    BY DispatchKeeps DEF IdleInv, JoinGrace
<1> QED  BY <1>1, <1>2, <1>3, <1>4, <1>5 DEF IdleInv

LEMMA BeginGraceInv ==
    ASSUME IdleInv, NEW b \in Behavior, BeginGrace(b)
    PROVE  IdleInv'
<1>0. /\ overlayGeneration \in Nat /\ graceGeneration \in Nat /\ cancelled \subseteq Nat
      /\ \A g \in cancelled : g < graceGeneration
      /\ CallsFit(deferred, overlayGeneration, graceGeneration, cancelled)
      /\ FramesFit(nest, overlayGeneration, graceGeneration, cancelled)
      /\ OverlayFits(overlay, graceGeneration, cancelled)
    BY DEF IdleInv, ShadeInv, ShadeFits
<1>1. /\ phase[b] = "Waiting" /\ fade /\ grace = <<>> /\ grace' = <<b>>
      /\ phase' = [phase EXCEPT ![b] = "Fading"]
      /\ graceGeneration' = graceGeneration + 1 /\ fallback' = graceGeneration + 1
      /\ overlayGeneration' = overlayGeneration + 1
      /\ overlay' = overlay /\ cancelled' = cancelled /\ lock' = lock /\ fade' = fade
    BY DEF BeginGrace
<1> DEFINE og == overlayGeneration + 1   gg == graceGeneration + 1   can == cancelled
           x == [kind |-> "prime", rest |-> <<>>, valid |-> TRUE, show |-> og, grace |-> gg]
           call == ShowCall(og, gg)
           v == Invalidated(nest)
<1>2. \/ /\ lock = "unlocked" /\ nest' = Append(v, x) /\ primed' = FALSE /\ deferred' = deferred
      \/ /\ deferred' = Append(deferred, call) /\ nest' = nest /\ primed' = primed
    BY <1>1 DEF BeginGrace
<1>3. SwitchesFit'
  <2>1. primed' \in BOOLEAN
    BY <1>2 DEF IdleInv, SwitchesFit
  <2>2. /\ graceWillLock' \in BOOLEAN
        /\ UNCHANGED <<inhibited, idledWhileInhibited, fade, away, lock, screen, account>>
    BY DEF BeginGrace, inhibition
  <2> QED  BY <2>1, <2>2 DEF IdleInv, SwitchesFit
<1>4. TimerInv'
    BY <1>1 DEF TimerInv, TimerFits
<1>5. og \in Nat /\ gg \in Nat /\ gg \notin can /\ graceGeneration <= gg
    BY <1>0
<1>6. CallsFit(deferred, og, gg, can) /\ FramesFit(nest, og, gg, can)
    BY <1>0, <1>5, FitLater
<1>7. FramesFit(v, og, gg, can) /\ SameFrames(v, nest)
    BY <1>6, InvalidatedIs
<1>8. call \in Call(og, gg) /\ call.grace \notin can
    BY <1>5 DEF Call, ShowCall
<1>9. x \in Frame /\ FrameFits(x, og, gg, can) /\ x.kind = "prime" /\ x.rest = <<>>
    BY <1>5 DEF Frame, FrameFits
<1>10. NestFits(v, lock, fade) /\ Left(v) = Left(nest)
  <2>1. NestFits(nest, lock, fade)
    BY DEF IdleInv, NestInv
  <2> QED  BY <1>6, <2>1, NestKept
<1>11. CallsFit(deferred', og, gg, can)
    BY <1>2, <1>5, <1>6, <1>8, CallPosted
<1> HIDE DEF x, v, call
<1>12. /\ FramesFit(Append(v, x), og, gg, can) /\ Len(Append(v, x)) = Len(v) + 1
       /\ Len(v) \in Nat /\ \A i \in 1..Len(v) : Append(v, x)[i] = v[i]
       /\ Append(v, x)[Len(v) + 1] = x
    BY <1>5, <1>7, <1>9, FrameOpened
<1>13. FramesFit(nest', og, gg, can)
    BY <1>2, <1>6, <1>12
<1>14. ShadeInv'
  <2>1. OverlayFits(overlay, gg, can)
    BY <1>0 DEF OverlayFits
  <2>2. \A g \in can : g < gg
    BY <1>0
  <2> QED  BY <1>0, <1>1, <1>5, <1>11, <1>13, <2>1, <2>2 DEF ShadeInv, ShadeFits
<1>15. NestInv' /\ Left(nest') = Left(nest)
  <2>1. CASE nest' = nest
    BY <1>1, <2>1 DEF IdleInv, NestInv
  <2>2. CASE lock = "unlocked" /\ nest' = Append(v, x)
    <3> DEFINE u == Append(v, x)
    <3>1. \A i \in 1..Len(v) : v[i].kind = "prime" /\ v[i].rest = <<>>
      <4>1. v = <<>> => Len(v) = 0
        OBVIOUS
      <4> QED  BY <1>10, <1>12, <2>2, <4>1 DEF NestFits
    <3>2. \A i \in 1..Len(u) : u[i].kind = "prime" /\ u[i].rest = <<>>
      <4> SUFFICES ASSUME NEW i \in 1..Len(u)
                   PROVE  u[i].kind = "prime" /\ u[i].rest = <<>>
        OBVIOUS
      <4>1. CASE i = Len(v) + 1
        BY <1>9, <1>12, <4>1
      <4>2. CASE i \in 1..Len(v)
        BY <1>12, <3>1, <4>2
      <4> QED  BY <1>12, <4>1, <4>2
    <3> HIDE DEF u
    <3>3. nest' = u /\ Len(u) = Len(v) + 1 /\ Len(v) \in Nat /\ u # <<>>
      <4>1. u \in Seq(Frame)
        BY <1>12 DEF FramesFit, u
      <4> QED  BY <1>12, <2>2, <4>1 DEF u
    <3>4. NestFits(u, lock, fade)
      <4>1. fade = TRUE
        BY <1>1 DEF IdleInv, SwitchesFit
      <4> QED  BY <2>2, <3>2, <3>3, <4>1 DEF NestFits
    <3>5. Left(u) = {}
      <4>1. 1 \in 1..Len(u)
        BY <3>3
      <4> QED  BY <3>2, <3>3, <4>1 DEF Left, ToSet
    <3>6. Left(v) = {}
      <4>1. v # <<>> => 1 \in 1..Len(v)
        <5>1. v \in Seq(Frame)
          BY <1>7 DEF FramesFit
        <5> QED  BY <5>1
      <4> QED  BY <3>1, <4>1 DEF Left, ToSet
    <3> QED  BY <1>1, <1>10, <3>3, <3>4, <3>5, <3>6 DEF NestInv
  <2> QED  BY <1>2, <2>1, <2>2
<1>16. FadeInv'
  <2>1. Append(grace, b) = <<b>>
    BY <1>1
  <2>2. PICK m : m = nest'
    OBVIOUS
  <2>3. FadeFits([phase EXCEPT ![b] = "Fading"], Append(grace, b), m)
    BY <1>1, <1>15, <2>2, FadeJoined DEF IdleInv, FadeInv
  <2> QED  BY <1>1, <2>1, <2>2, <2>3 DEF FadeInv
<1>17. Stream'
    BY DispatchKeeps DEF IdleInv, BeginGrace
<1> QED  BY <1>3, <1>4, <1>14, <1>15, <1>16, <1>17 DEF IdleInv

\* The behaviours left by k of those in todo.
LEMMA LeftBehind ==
    ASSUME NEW todo \in Seq(Behavior), NEW k \in 0..Len(todo)
    PROVE  /\ LockFrame(SubSeq(todo, k + 1, Len(todo))) \in Frame
           /\ \A b : b \in Left(<<LockFrame(SubSeq(todo, k + 1, Len(todo)))>>)
                     <=> \E i \in (k + 1)..Len(todo) : todo[i] = b
<1> DEFINE rest == SubSeq(todo, k + 1, Len(todo))
           n == <<LockFrame(rest)>>
<1>1. PICK q : q = rest
    OBVIOUS
<1>2. Len(todo) \in Nat /\ k + 1 \in 1..Len(todo) + 1 /\ k + 1 - 1 = k
    OBVIOUS
<1>3. /\ q \in Seq(Behavior) /\ Len(q) = Len(todo) - k
      /\ \A i \in 1..Len(todo) - k : q[i] = todo[i + k]
  <2>1. Len(todo) \in k..Len(todo)
    BY <1>2
  <2>2. /\ q \in Seq(Behavior) /\ Len(q) = Len(todo) - (k + 1) + 1
        /\ \A i \in 1..Len(todo) - (k + 1) + 1 : q[i] = todo[(k + 1) + i - 1]
    BY <1>1, <1>2, <2>1, SubSeqProperties
  <2>3. Len(todo) - (k + 1) + 1 = Len(todo) - k
    BY <1>2
  <2>4. \A i \in 1..Len(todo) - k : (k + 1) + i - 1 = i + k
    BY <1>2
  <2> QED  BY <2>2, <2>3, <2>4
<1>4. DOMAIN q = 1..Len(todo) - k
    BY <1>2, <1>3
<1>5. n # <<>> /\ n[1].rest = q /\ LockFrame(rest) \in Frame
    BY <1>1, <1>3 DEF LockFrame, Frame
<1>6. Left(n) = ToSet(q)
    BY <1>5 DEF Left
<1>7. ASSUME NEW b
      PROVE  b \in ToSet(q) <=> \E i \in (k + 1)..Len(todo) : todo[i] = b
  <2>1. ASSUME NEW i \in 1..Len(todo) - k
        PROVE  i + k \in (k + 1)..Len(todo) /\ q[i] = todo[i + k]
    BY <1>2, <1>3
  <2>2. ASSUME NEW i \in (k + 1)..Len(todo)
        PROVE  i - k \in 1..Len(todo) - k /\ q[i - k] = todo[i]
    BY <1>2, <1>3
  <2>3. b \in ToSet(q) <=> \E i \in 1..Len(todo) - k : q[i] = b
    BY <1>4 DEF ToSet
  <2>4. ASSUME NEW i \in 1..Len(todo) - k, q[i] = b
        PROVE  \E j \in (k + 1)..Len(todo) : todo[j] = b
    BY <2>1, <2>4
  <2>5. ASSUME NEW i \in (k + 1)..Len(todo), todo[i] = b
        PROVE  \E j \in 1..Len(todo) - k : q[j] = b
    BY <2>2, <2>5
  <2> QED  BY <2>3, <2>4, <2>5
<1> QED  BY <1>5, <1>6, <1>7

LEMMA NestRuns ==
    ASSUME IdleInv, NEW todo \in Seq(Behavior), NEW k \in 0..Len(todo), RunsTo(todo, k),
           fade' = fade
    PROVE  NestInv' /\ FramesFit(nest', overlayGeneration, graceGeneration, cancelled)
<1>1. FramesFit(nest, overlayGeneration, graceGeneration, cancelled)
    BY DEF IdleInv, ShadeInv, ShadeFits
<1>2. CASE nest' = nest /\ lock' = lock
    BY <1>1, <1>2 DEF IdleInv, NestInv
<1>3. CASE nest = <<>> /\ nest' = <<>> /\ lock' = "pending"
    BY <1>1, <1>3 DEF NestInv, NestFits
<1>4. CASE /\ lock' = "starting"
           /\ nest' = <<LockFrame(SubSeq(todo, k + 1, Len(todo)))>>
  <2>1. PICK x \in Frame : x = LockFrame(SubSeq(todo, k + 1, Len(todo)))
    BY LeftBehind
  <2>2. x.kind = "lock"
    BY <2>1 DEF LockFrame
  <2>3. nest' = <<x>>
    BY <1>4, <2>1
  <2>4. NestInv'
    BY <1>4, <2>2, <2>3 DEF NestInv, NestFits
  <2>5. FramesFit(nest', overlayGeneration, graceGeneration, cancelled)
    BY <2>2, <2>3 DEF FramesFit, FrameFits
  <2> QED  BY <2>4, <2>5
<1> QED  BY <1>2, <1>3, <1>4 DEF RunsTo

LEMMA RunAtOnceInv ==
    ASSUME IdleInv, IdleAssumption, NEW b \in Behavior, RunAtOnce(b)
    PROVE  IdleInv'
<1>1. /\ phase[b] = "Waiting" /\ RunActions(<<b>>, primed, nest) /\ ~fade
      /\ UNCHANGED <<grace, graceWillLock, graceGeneration, fallback, inhibited,
                     idledWhileInhibited, fade, shade, deferred, away, cancelled>>
    BY DEF RunAtOnce, inhibition
<1>2. nest = <<>> \/ lock = "starting"
  <2>1. fade # TRUE
    BY <1>1
  <2> QED  BY <2>1 DEF IdleInv, NestInv, NestFits
<1> DEFINE todo == <<b>>
<1>3. todo \in Seq(Behavior) /\ Len(todo) = 1 /\ todo[1] = b
    OBVIOUS
<1>4. RunActions(todo, primed, nest)
    BY <1>1
<1>5. primed \in BOOLEAN /\ SwitchesFit
    BY DEF IdleInv, SwitchesFit
<1> HIDE DEF todo
<1>6. PICK k \in 0..Len(todo) : RunsTo(todo, k)
    BY <1>2, <1>3, <1>4, <1>5, RunActionsDoes
<1>7. \A i \in 1..k : todo[i] = b
    BY <1>3
<1>8. NestInv' /\ FramesFit(nest', overlayGeneration, graceGeneration, cancelled)
    BY <1>1, <1>3, <1>6, NestRuns
<1>9. SwitchesFit'
  <2>1. lock' \in {"unlocked", "starting", "pending", "locked"}
    BY <1>5, <1>6 DEF RunsTo, SwitchesFit
  <2>2. /\ account' \in [Behavior -> {"settled", "owed", "forgotten"}]
        /\ screen' \in {"on", "off"} /\ primed' \in BOOLEAN
    BY <1>5, <1>6 DEF RunsTo, SwitchesFit
  <2> QED  BY <1>1, <1>5, <2>1, <2>2 DEF SwitchesFit
<1>10. ShadeInv'
    BY <1>1, <1>8 DEF IdleInv, ShadeInv, ShadeFits, shade
<1>11. Left(nest') = Left(nest)
  <2>1. CASE nest' = nest
    BY <2>1
  <2>2. CASE nest = <<>> /\ nest' = <<>>
    BY <2>2
  <2>3. CASE k >= 1 /\ nest = <<>> /\ nest' = <<LockFrame(SubSeq(todo, k + 1, Len(todo)))>>
    <3>1. ~ \E i \in (k + 1)..Len(todo) : TRUE
      BY <1>3, <2>3
    <3>2. PICK n : n = <<LockFrame(SubSeq(todo, k + 1, Len(todo)))>>
      OBVIOUS
    <3>3. \A c : c \in Left(n) <=> \E i \in (k + 1)..Len(todo) : todo[i] = c
      BY <1>3, <3>2, LeftBehind
    <3>4. Left(n) = {}
      BY <3>1, <3>3
    <3> QED  BY <2>3, <3>2, <3>4 DEF Left
  <2> QED  BY <1>6, <2>1, <2>2, <2>3 DEF RunsTo
<1>12. FadeInv'
  <2>1. FadeFits(phase, grace, nest)
    BY DEF IdleInv, FadeInv
  <2>2. phase' = [c \in Behavior |-> IF \E i \in 1..k : todo[i] = c THEN "Idled" ELSE phase[c]]
    BY <1>6 DEF RunsTo
  <2>3. \A c \in Behavior : (\E i \in 1..k : todo[i] = c) => phase[c] # "Fading"
    BY <1>1, <1>7
  <2>4. phase' \in [Behavior -> {"Waiting", "Fading", "Idled"}]
    BY <2>1, <2>2 DEF FadeFits
  <2>5. \A c \in Behavior : phase'[c] = "Fading" <=> phase[c] = "Fading"
    BY <2>2, <2>3
  <2> QED  BY <1>1, <1>11, <2>1, <2>4, <2>5 DEF FadeInv, FadeFits
<1>13. TimerInv'
    BY <1>1, TimerStays DEF IdleInv
<1>14. Stream'
    BY DispatchKeeps DEF IdleInv, RunAtOnce
<1> QED  BY <1>8, <1>9, <1>10, <1>12, <1>13, <1>14 DEF IdleInv

LEMMA ResumeFadingInv ==
    ASSUME IdleInv, NEW b \in Behavior, ResumeFading(b)
    PROVE  IdleInv'
<1>1. /\ CancelGrace(TRUE, FALSE)
      /\ phase' = [c \in Behavior |-> IF c \in ToSet(grace) THEN "Waiting" ELSE phase[c]]
      /\ UNCHANGED <<inhibited, idledWhileInhibited, fade, deferred, lock, screen, away,
                     server, account>>
    BY DEF ResumeFading, inhibition
<1>2. /\ ShadeInv' /\ grace' = <<>> /\ TimerInv'
      /\ graceWillLock' \in BOOLEAN /\ primed' \in BOOLEAN
      /\ nest' \in {nest, Invalidated(nest)}
    BY <1>1, CancelGraceKeeps
<1>3. SwitchesFit'
    BY <1>1, <1>2 DEF IdleInv, SwitchesFit
<1>4. NestInv' /\ Left(nest') = Left(nest)
  <2>1. NestFits(nest, lock, fade)
        /\ FramesFit(nest, overlayGeneration, graceGeneration, cancelled)
    BY DEF IdleInv, NestInv, ShadeInv, ShadeFits
  <2>2. PICK n : n = nest'
    OBVIOUS
  <2>3. NestFits(n, lock, fade) /\ Left(n) = Left(nest)
    BY <1>2, <2>1, <2>2, NestKept
  <2> QED  BY <1>1, <2>2, <2>3 DEF NestInv
<1>5. FadeInv'
  <2>1. FadeFits(phase, grace, nest)
    BY DEF IdleInv, FadeInv
  <2>2. ToSet(grace') = {} /\ Len(grace') = 0 /\ grace' \in Seq(Behavior)
    BY <1>2 DEF ToSet
  <2>3. phase' \in [Behavior -> {"Waiting", "Fading", "Idled"}]
    BY <1>1, <2>1 DEF FadeFits
  <2>4. \A c \in Behavior : phase'[c] = "Fading" <=> c \in Left(nest)
    BY <1>1, <2>1 DEF FadeFits
  <2> QED  BY <1>4, <2>2, <2>3, <2>4 DEF FadeInv, FadeFits
<1>6. Stream'
    BY DispatchKeeps DEF IdleInv, ResumeFading
<1> QED  BY <1>2, <1>3, <1>4, <1>5, <1>6 DEF IdleInv

LEMMA ResumeIdledInv ==
    ASSUME IdleInv, NEW b \in Behavior, ResumeIdled(b)
    PROVE  IdleInv'
<1>1. /\ phase[b] = "Idled" /\ phase' = [phase EXCEPT ![b] = "Waiting"] /\ Undo({b})
      /\ UNCHANGED <<grace, graceWillLock, graceGeneration, fallback, inhibited,
                     idledWhileInhibited, fade, shade, deferred, nest, primed, lock, away,
                     cancelled>>
    BY DEF ResumeIdled, inhibition
<1>2. SwitchesFit'
  <2>1. screen' \in {"on", "off"} /\ account' \in [Behavior -> {"settled", "owed", "forgotten"}]
    BY <1>1, UndoKeeps DEF IdleInv
  <2> QED  BY <1>1, <2>1 DEF IdleInv, SwitchesFit
<1>3. ShadeInv' /\ TimerInv' /\ NestInv'
    BY <1>1, ShadeStays, TimerStays, NestStays DEF IdleInv
<1>4. FadeInv'
  <2>1. FadeFits(phase, grace, nest)
    BY DEF IdleInv, FadeInv
  <2>2. phase' \in [Behavior -> {"Waiting", "Fading", "Idled"}]
    BY <1>1, <2>1 DEF FadeFits
  <2>3. \A c \in Behavior : phase'[c] = "Fading" <=> phase[c] = "Fading"
    BY <1>1, <2>1 DEF FadeFits
  <2> QED  BY <1>1, <2>1, <2>2, <2>3 DEF FadeInv, FadeFits
<1>5. Stream'
    BY DispatchKeeps DEF IdleInv, ResumeIdled
<1> QED  BY <1>2, <1>3, <1>4, <1>5 DEF IdleInv

LEMMA PrimeEndsInv ==
    ASSUME IdleInv, PrimeEnds
    PROVE  IdleInv'
<1>0. /\ overlayGeneration \in Nat /\ graceGeneration \in Nat
      /\ CallsFit(deferred, overlayGeneration, graceGeneration, cancelled)
      /\ FramesFit(nest, overlayGeneration, graceGeneration, cancelled)
      /\ NestFits(nest, lock, fade)
    BY DEF IdleInv, ShadeInv, ShadeFits, NestInv
<1>1. PICK x, n : x = Last(nest) /\ n = Front(nest)
    OBVIOUS
<1>2. /\ nest # <<>> /\ x.kind = "prime" /\ nest' = n
      /\ primed' = (primed \/ x.valid)
      /\ deferred' = Append(deferred, ShowCall(x.show, x.grace))
      /\ UNCHANGED <<phase, grace, graceWillLock, graceGeneration, fallback, inhibited,
                     idledWhileInhibited, fade, overlay, overlayGeneration, lock, screen, away,
                     compositor, account, cancelled>>
    BY <1>1 DEF PrimeEnds, manager, inhibition, shade
<1>3. /\ FramesFit(n, overlayGeneration, graceGeneration, cancelled)
      /\ Len(nest) \in Nat \ {0} /\ Len(n) = Len(nest) - 1
      /\ \A i \in 1..Len(nest) - 1 : n[i] = nest[i]
      /\ x = nest[Len(nest)] /\ x \in Frame
      /\ FrameFits(x, overlayGeneration, graceGeneration, cancelled)
    BY <1>0, <1>1, <1>2, FrameClosed
<1>4. SwitchesFit'
  <2>1. x.valid \in BOOLEAN
    BY <1>3 DEF Frame
  <2>2. primed' \in BOOLEAN
    BY <1>2, <2>1 DEF IdleInv, SwitchesFit
  <2> QED  BY <1>2, <2>2 DEF IdleInv, SwitchesFit
<1>5. ShadeInv'
  <2> DEFINE c == ShowCall(x.show, x.grace)
  <2>1. c \in Call(overlayGeneration, graceGeneration)
        /\ (c.overlay = overlayGeneration => c.grace \notin cancelled)
    BY <1>2, <1>3 DEF ShowCall, Call, FrameFits
  <2> HIDE DEF c
  <2>2. CallsFit(Append(deferred, c), overlayGeneration, graceGeneration, cancelled)
    BY <1>0, <2>1, CallPosted
  <2>3. deferred' = Append(deferred, c)
    BY <1>2 DEF c
  <2>4. CallsFit(deferred', overlayGeneration, graceGeneration, cancelled)
        /\ FramesFit(nest', overlayGeneration, graceGeneration, cancelled)
    BY <1>2, <1>3, <2>2, <2>3
  <2> QED  BY <1>2, <2>4 DEF IdleInv, ShadeInv, ShadeFits
<1>6. /\ \A i \in 1..Len(nest) : nest[i].kind = "prime" /\ nest[i].rest = <<>>
      /\ lock = "unlocked" /\ fade = TRUE
  <2>1. Len(nest) = 1 => nest[1].kind # "lock"
    BY <1>2, <1>3
  <2> QED  BY <1>0, <1>2, <2>1 DEF NestFits
<1>7. \A i \in 1..Len(n) : n[i].kind = "prime" /\ n[i].rest = <<>>
    BY <1>3, <1>6
<1>8. NestInv'
    BY <1>2, <1>6, <1>7 DEF NestInv, NestFits
<1>9. Left(nest') = {} /\ Left(nest) = {}
  <2>1. n # <<>> => 1 \in 1..Len(n)
    <3>1. n \in Seq(Frame)
      BY <1>3 DEF FramesFit
    <3> QED  BY <3>1
  <2>2. 1 \in 1..Len(nest)
    BY <1>3
  <2> QED  BY <1>2, <1>6, <1>7, <2>1, <2>2 DEF Left, ToSet
<1>10. FadeInv'
    BY <1>2, <1>9 DEF IdleInv, FadeInv, FadeFits
<1>11. TimerInv' /\ Stream'
    BY <1>2, TimerStays, StreamStays DEF IdleInv
<1> QED  BY <1>4, <1>5, <1>8, <1>10, <1>11 DEF IdleInv

LEMMA LockCaptureEndsInv ==
    ASSUME IdleInv, LockCaptureEnds
    PROVE  IdleInv'
<1>0. /\ FramesFit(nest, overlayGeneration, graceGeneration, cancelled)
      /\ NestFits(nest, lock, fade) /\ FadeFits(phase, grace, nest)
    BY DEF IdleInv, ShadeInv, ShadeFits, NestInv, FadeInv
<1>1. PICK x, n : x = Last(nest) /\ n = Front(nest)
    OBVIOUS
<1> DEFINE run == {b \in ToSet(x.rest) : phase[b] = "Fading"}
<1>2. /\ nest # <<>> /\ x.kind = "lock" /\ nest' = n /\ lock' \in {"pending", "unlocked"}
      /\ phase' = [b \in Behavior |-> IF b \in run THEN "Idled" ELSE phase[b]]
      /\ account' = [b \in Behavior |-> IF b \in run THEN "owed" ELSE account[b]]
      /\ screen' = IF run \intersect Blankers # {} THEN "off" ELSE screen
      /\ UNCHANGED <<grace, graceWillLock, graceGeneration, fallback, inhibited,
                     idledWhileInhibited, fade, shade, deferred, primed, away, compositor,
                     cancelled>>
    BY <1>1 DEF LockCaptureEnds, inhibition
<1>3. /\ FramesFit(n, overlayGeneration, graceGeneration, cancelled)
      /\ Len(nest) \in Nat \ {0} /\ Len(n) = Len(nest) - 1
      /\ x = nest[Len(nest)] /\ x \in Frame
    BY <1>0, <1>1, <1>2, FrameClosed
<1>4. Len(nest) = 1
    BY <1>0, <1>2, <1>3 DEF NestFits
<1>5. nest' = <<>> /\ Left(nest') = {} /\ Left(nest) = ToSet(x.rest)
  <2>1. n = <<>>
    BY <1>3, <1>4 DEF FramesFit
  <2> QED  BY <1>2, <1>3, <1>4, <2>1 DEF Left
<1> HIDE DEF run
<1>6. SwitchesFit'
  <2>1. screen' \in {"on", "off"} /\ account' \in [Behavior -> {"settled", "owed", "forgotten"}]
    BY <1>2 DEF IdleInv, SwitchesFit
  <2> QED  BY <1>2, <2>1 DEF IdleInv, SwitchesFit
<1>7. ShadeInv'
    BY <1>2, <1>3 DEF IdleInv, ShadeInv, ShadeFits, shade
<1>8. NestInv'
    BY <1>2, <1>5 DEF NestInv, NestFits
<1>9. FadeInv'
  <2>1. phase' \in [Behavior -> {"Waiting", "Fading", "Idled"}]
    BY <1>0, <1>2 DEF FadeFits
  <2>2. \A b \in Behavior : phase'[b] = "Fading" <=> phase[b] = "Fading" /\ b \notin run
    BY <1>0, <1>2 DEF FadeFits
  <2>3. \A b \in Behavior : phase[b] = "Fading" /\ b \notin run <=> b \in ToSet(grace)
    BY <1>0, <1>5 DEF FadeFits, run
  <2> QED  BY <1>0, <1>2, <1>5, <2>1, <2>2, <2>3 DEF FadeInv, FadeFits
<1>10. TimerInv' /\ Stream'
    BY <1>2, TimerStays, StreamStays DEF IdleInv
<1> QED  BY <1>6, <1>7, <1>8, <1>9, <1>10 DEF IdleInv

\* The overlay's own steps.
LEMMA OverlaySteps ==
    ASSUME IdleInv, CallShow \/ FadeEnds
    PROVE  IdleInv'
<1>0. /\ overlayGeneration \in Nat /\ graceGeneration \in Nat
      /\ CallsFit(deferred, overlayGeneration, graceGeneration, cancelled)
      /\ OverlayFits(overlay, graceGeneration, cancelled)
    BY DEF IdleInv, ShadeInv, ShadeFits
<1>1. UNCHANGED <<phase, grace, graceWillLock, graceGeneration, fallback, inhibited,
                  idledWhileInhibited, fade, overlayGeneration, nest, primed, lock, screen,
                  away, compositor, account, cancelled>>
    BY DEF CallShow, FadeEnds, manager, inhibition
<1>2. SwitchesFit' /\ NestInv' /\ FadeInv' /\ TimerInv' /\ Stream'
    BY <1>1, NestStays, FadeStays, TimerStays, StreamStays DEF IdleInv, SwitchesFit
<1>3. /\ CallsFit(deferred', overlayGeneration, graceGeneration, cancelled)
      /\ OverlayFits(overlay', graceGeneration, cancelled)
  <2>1. CASE CallShow
    <3>1. PICK call, tail : call = Head(deferred) /\ tail = Tail(deferred)
      OBVIOUS
    <3>2. deferred # <<>> /\ call.kind = "show"
      BY <2>1, <3>1 DEF CallShow
    <3>3. /\ CallsFit(tail, overlayGeneration, graceGeneration, cancelled)
          /\ call \in Call(overlayGeneration, graceGeneration)
          /\ call.overlay = overlayGeneration => call.grace \notin cancelled
      BY <1>0, <3>1, <3>2, CallTaken
    <3>4. CASE deferred' = tail /\ overlay' = overlay
      BY <1>0, <3>3, <3>4
    <3>5. CASE /\ deferred' = tail /\ call.overlay = overlayGeneration
               /\ overlay' = [state |-> "fading", grace |-> call.grace]
      BY <3>3, <3>5 DEF OverlayFits, Call
    <3>6. CASE deferred' = Append(tail, DoneCall(call.grace)) /\ overlay' = overlay
      <4>1. DoneCall(call.grace) \in Call(overlayGeneration, graceGeneration)
            /\ DoneCall(call.grace).kind = "done"
        BY <1>0, <3>3 DEF DoneCall, Call
      <4>2. CallsFit(Append(tail, DoneCall(call.grace)), overlayGeneration, graceGeneration,
                     cancelled)
        BY <1>0, <3>3, <4>1, CallPosted
      <4> QED  BY <1>0, <3>6, <4>2
    <3> QED  BY <2>1, <3>1, <3>4, <3>5, <3>6 DEF CallShow
  <2>2. CASE FadeEnds
    <3>1. /\ overlay' = [overlay EXCEPT !.state = "opaque"] /\ overlay.state = "fading"
          /\ deferred' = Append(deferred, DoneCall(overlay.grace))
      BY <2>2 DEF FadeEnds
    <3>2. /\ overlay \in [state : {"hidden", "fading", "opaque"}, grace : 0..graceGeneration]
          /\ overlay.grace \notin cancelled
      BY <1>0, <3>1 DEF OverlayFits, Hidden
    <3>3. OverlayFits(overlay', graceGeneration, cancelled)
      BY <3>1, <3>2 DEF OverlayFits
    <3>4. DoneCall(overlay.grace) \in Call(overlayGeneration, graceGeneration)
          /\ DoneCall(overlay.grace).kind = "done"
      BY <1>0, <3>2 DEF DoneCall, Call
    <3>5. CallsFit(Append(deferred, DoneCall(overlay.grace)), overlayGeneration,
                   graceGeneration, cancelled)
      BY <1>0, <3>4, CallPosted
    <3> QED  BY <3>1, <3>3, <3>5
  <2> QED  BY <2>1, <2>2
<1>4. ShadeInv'
    BY <1>1, <1>3 DEF IdleInv, ShadeInv, ShadeFits
<1> QED  BY <1>2, <1>4 DEF IdleInv

LEMMA OutputsChangeInv ==
    ASSUME IdleInv, OutputsChange
    PROVE  IdleInv'
<1>0. /\ FramesFit(nest, overlayGeneration, graceGeneration, cancelled)
      /\ graceGeneration \in Nat
      /\ OverlayFits(overlay, graceGeneration, cancelled) /\ NestFits(nest, lock, fade)
    BY DEF IdleInv, ShadeInv, ShadeFits, NestInv
<1>1. /\ UNCHANGED <<phase, grace, graceWillLock, graceGeneration, fallback, inhibited,
                     idledWhileInhibited, fade, overlayGeneration, deferred, lock, screen,
                     away, compositor, account, cancelled>>
      /\ overlay' \in {overlay, Hidden} /\ nest' \in {nest, Invalidated(nest)}
      /\ primed' \in {primed, FALSE}
    BY DEF OutputsChange, Invalidate, manager, inhibition
<1>2. PICK n : n = nest'
    OBVIOUS
<1>3. /\ FramesFit(n, overlayGeneration, graceGeneration, cancelled)
      /\ NestFits(n, lock, fade) /\ Left(n) = Left(nest)
    BY <1>0, <1>1, <1>2, InvalidatedIs, NestKept
<1>4. ShadeInv'
  <2>1. OverlayFits(overlay', graceGeneration, cancelled)
    BY <1>0, <1>1, HiddenFits
  <2> QED  BY <1>1, <1>2, <1>3, <2>1 DEF IdleInv, ShadeInv, ShadeFits
<1>5. NestInv'
    BY <1>1, <1>2, <1>3 DEF NestInv
<1>6. FadeInv'
    BY <1>1, <1>2, <1>3 DEF IdleInv, FadeInv, FadeFits
<1>7. SwitchesFit'
    BY <1>1 DEF IdleInv, SwitchesFit
<1>8. TimerInv' /\ Stream'
    BY <1>1, TimerStays, StreamStays DEF IdleInv
<1> QED  BY <1>4, <1>5, <1>6, <1>7, <1>8 DEF IdleInv

\* The fade is complete: everything that fades runs, or waits for the capture.
LEMMA CompleteGraceInv ==
    ASSUME IdleInv, IdleAssumption, nest = <<>>, CompleteGrace,
           CallsFit(deferred', overlayGeneration, graceGeneration, cancelled),
           UNCHANGED <<inhibition, fade, away>>
    PROVE  IdleInv'
<1>0. /\ overlayGeneration \in Nat /\ graceGeneration \in Nat
      /\ OverlayFits(overlay, graceGeneration, cancelled)
      /\ FadeFits(phase, grace, nest) /\ Left(nest) = {}
    BY NoFrames DEF IdleInv, ShadeInv, ShadeFits, FadeInv
<1> DEFINE todo == Only(grace, {b \in Behavior : phase[b] = "Fading"})
           keep == Handoff(FALSE, \E i \in DOMAIN todo : todo[i] \in Lockers)
<1>1. /\ grace' = <<>> /\ graceWillLock' = FALSE /\ fallback' = 0
      /\ overlayGeneration' = overlayGeneration + 1
      /\ overlay' = IF keep THEN overlay ELSE Hidden
      /\ RunActions(todo, primed /\ keep, nest)
      /\ UNCHANGED <<graceGeneration, server, wire, told, cancelled>>
    BY DEF CompleteGrace
<1>2. /\ grace \in Seq(Behavior) /\ Len(grace) \in Nat /\ DOMAIN grace = 1..Len(grace)
      /\ \A i \in 1..Len(grace) : phase[grace[i]] = "Fading"
      /\ \A b \in Behavior : phase[b] = "Fading" <=> \E i \in 1..Len(grace) : grace[i] = b
      /\ \A i, j \in 1..Len(grace) : grace[i] = grace[j] => i = j
  <2>1. grace \in Seq(Behavior) /\ Len(grace) \in Nat /\ DOMAIN grace = 1..Len(grace)
    BY <1>0 DEF FadeFits
  <2>2. \A b \in Behavior : phase[b] = "Fading" <=> \E i \in 1..Len(grace) : grace[i] = b
    BY <1>0, <2>1 DEF FadeFits, ToSet
  <2>3. \A i \in 1..Len(grace) : grace[i] \in Behavior
    BY <2>1
  <2> QED  BY <1>0, <2>1, <2>2, <2>3 DEF FadeFits
<1>3. todo = grace
  <2> DEFINE fading == {b \in Behavior : phase[b] = "Fading"}
  <2>1. \A i \in DOMAIN grace : grace[i] \in fading
    BY <1>2
  <2> HIDE DEF fading
  <2>2. Only(grace, fading) = grace
    BY <1>2, <2>1, OnlyAll
  <2> QED  BY <2>2 DEF fading
<1>4. SwitchesFit /\ (primed /\ keep) \in BOOLEAN
    BY DEF IdleInv, SwitchesFit
<1> HIDE DEF todo, keep
<1>5. PICK g, ready : g = grace /\ ready = (primed /\ keep)
    OBVIOUS
<1>6. g \in Seq(Behavior) /\ ready \in BOOLEAN /\ RunActions(g, ready, nest)
    BY <1>1, <1>2, <1>3, <1>4, <1>5
<1>7. PICK k \in 0..Len(g) : RunsTo(g, k)
    BY <1>4, <1>6, RunActionsDoes
<1>8. NestInv' /\ FramesFit(nest', overlayGeneration, graceGeneration, cancelled)
    BY <1>6, <1>7, NestRuns
<1>9. SwitchesFit'
  <2>1. lock' \in {"unlocked", "starting", "pending", "locked"}
    BY <1>4, <1>7 DEF RunsTo, SwitchesFit
  <2>2. /\ account' \in [Behavior -> {"settled", "owed", "forgotten"}]
        /\ screen' \in {"on", "off"} /\ primed' \in BOOLEAN
    BY <1>4, <1>7 DEF RunsTo, SwitchesFit
  <2> QED  BY <1>1, <1>4, <2>1, <2>2 DEF SwitchesFit, inhibition
<1>10. ShadeInv'
  <2>1. OverlayFits(overlay', graceGeneration, cancelled)
    BY <1>0, <1>1, HiddenFits
  <2>2. PICK d, n : d = deferred' /\ n = nest'
    OBVIOUS
  <2>3. /\ CallsFit(d, overlayGeneration + 1, graceGeneration, cancelled)
        /\ FramesFit(n, overlayGeneration + 1, graceGeneration, cancelled)
    BY <1>0, <1>8, <2>2, FitLater
  <2> QED  BY <1>1, <2>1, <2>2, <2>3 DEF IdleInv, ShadeInv, ShadeFits
<1>11. FadeInv'
  <2>1. phase' = [b \in Behavior |-> IF \E i \in 1..k : g[i] = b THEN "Idled" ELSE phase[b]]
    BY <1>7 DEF RunsTo
  <2>2. phase' \in [Behavior -> {"Waiting", "Fading", "Idled"}]
    BY <1>0, <2>1 DEF FadeFits
  <2>3. \A b \in Behavior : phase'[b] = "Fading" <=> \E i \in (k + 1)..Len(g) : g[i] = b
    <3> SUFFICES ASSUME NEW b \in Behavior
                 PROVE  phase'[b] = "Fading" <=> \E i \in (k + 1)..Len(g) : g[i] = b
      OBVIOUS
    <3>1. Len(g) \in Nat /\ phase'[b] = IF \E i \in 1..k : g[i] = b THEN "Idled" ELSE phase[b]
      BY <1>2, <1>5, <2>1
    <3>2. ASSUME NEW i \in (k + 1)..Len(g), g[i] = b
          PROVE  ~(\E j \in 1..k : g[j] = b) /\ phase[b] = "Fading"
      <4>1. i \in 1..Len(g) /\ \A j \in 1..k : j \in 1..Len(g) /\ j # i
        BY <3>1
      <4> QED  BY <1>2, <1>5, <3>2, <4>1
    <3>3. ASSUME phase[b] = "Fading", ~(\E j \in 1..k : g[j] = b)
          PROVE  \E i \in (k + 1)..Len(g) : g[i] = b
      <4>1. PICK i \in 1..Len(g) : g[i] = b
        BY <1>2, <1>5, <3>3
      <4>2. i \in (k + 1)..Len(g)
        BY <3>1, <3>3, <4>1
      <4> QED  BY <4>1, <4>2
    <3> QED  BY <3>1, <3>2, <3>3
  <2>4. \A b \in Behavior : (\E i \in (k + 1)..Len(g) : g[i] = b) <=> b \in Left(nest')
    <3>1. CASE k = Len(g) /\ nest' = <<>>
      BY <1>2, <1>5, <3>1 DEF Left
    <3>2. CASE nest' = <<LockFrame(SubSeq(g, k + 1, Len(g)))>>
      <4>1. PICK n : n = <<LockFrame(SubSeq(g, k + 1, Len(g)))>>
        OBVIOUS
      <4>2. \A b : b \in Left(n) <=> \E i \in (k + 1)..Len(g) : g[i] = b
        BY <1>6, <4>1, LeftBehind
      <4>3. Left(nest') = Left(n)
        BY <3>2, <4>1
      <4> QED  BY <4>2, <4>3
    <3> QED  BY <1>7, <3>1, <3>2 DEF RunsTo
  <2>5. ToSet(grace') = {} /\ Len(grace') = 0 /\ grace' \in Seq(Behavior)
    BY <1>1 DEF ToSet
  <2> QED  BY <2>2, <2>3, <2>4, <2>5 DEF FadeInv, FadeFits
<1>12. TimerInv'
    BY <1>1 DEF TimerInv, TimerFits
<1>13. Stream'
    BY <1>1, StreamStays DEF IdleInv, compositor
<1> QED  BY <1>8, <1>9, <1>10, <1>11, <1>12, <1>13 DEF IdleInv

LEMMA FadeCompletes ==
    ASSUME IdleInv, IdleAssumption, CallDone \/ FallbackFires
    PROVE  IdleInv'
<1>0. /\ overlayGeneration \in Nat /\ graceGeneration \in Nat
      /\ CallsFit(deferred, overlayGeneration, graceGeneration, cancelled)
    BY DEF IdleInv, ShadeInv, ShadeFits
<1>1. CASE FallbackFires
    BY <1>0, <1>1, CompleteGraceInv DEF FallbackFires, MainLoop
<1>2. CASE CallDone
  <2>1. deferred # <<>> /\ deferred' = Tail(deferred)
    BY <1>2 DEF CallDone
  <2>2. CallsFit(deferred', overlayGeneration, graceGeneration, cancelled)
    BY <1>0, <2>1, CallTaken
  <2>3. CASE CompleteGrace
    BY <1>2, <2>2, <2>3, CompleteGraceInv DEF CallDone, MainLoop
  <2>4. CASE UNCHANGED <<manager, shade, nest, primed, lock, screen, compositor, account,
                         cancelled>>
    <3>1. /\ UNCHANGED <<phase, grace, graceWillLock, graceGeneration, fallback, inhibited,
                         idledWhileInhibited, fade, away, overlay, overlayGeneration, nest,
                         primed, lock, screen, compositor, account, cancelled>>
      BY <1>2, <2>4 DEF CallDone, manager, inhibition, shade
    <3>2. SwitchesFit' /\ NestInv' /\ FadeInv' /\ TimerInv' /\ Stream'
      BY <3>1, NestStays, FadeStays, TimerStays, StreamStays DEF IdleInv, SwitchesFit
    <3>3. ShadeInv'
      BY <2>2, <3>1 DEF IdleInv, ShadeInv, ShadeFits
    <3> QED  BY <3>2, <3>3 DEF IdleInv
  <2> QED  BY <1>2, <2>3, <2>4 DEF CallDone
<1> QED  BY <1>1, <1>2

\* The behaviours are armed again, from the main loop or a session's hook.
LEMMA Rearmed ==
    ASSUME IdleInv, nest = <<>>, NEW hide \in BOOLEAN, CancelGrace(FALSE, hide),
           deferred' = deferred, NEW l, Renew(Behavior, l),
           phase' = [b \in Behavior |-> "Waiting"], lock' # "starting"
    PROVE  /\ ShadeInv' /\ NestInv' /\ FadeInv' /\ TimerInv' /\ Stream'
           /\ graceWillLock' \in BOOLEAN /\ primed' \in BOOLEAN
<1>1. /\ ShadeInv' /\ grace' = <<>> /\ TimerInv'
      /\ graceWillLock' \in BOOLEAN /\ primed' \in BOOLEAN
      /\ nest' \in {nest, Invalidated(nest)}
    BY CancelGraceKeeps
<1>2. FadeInv' /\ nest' = <<>>
    BY <1>1, AllWaiting
<1>3. NestInv'
    BY <1>2 DEF NestInv, NestFits
<1>4. Stream'
  <2>1. PICK B : B = Behavior
    OBVIOUS
  <2>2. Renew(B, l) /\ Stream
    BY <2>1 DEF IdleInv
  <2> QED  BY <2>2, RenewKeeps
<1> QED  BY <1>1, <1>2, <1>3, <1>4

LEMMA RearmAllKeeps ==
    ASSUME IdleInv, nest = <<>>, NEW hide \in BOOLEAN, NEW l, RearmAll(l, hide),
           deferred' = deferred, lock' \in {"unlocked", "pending", "locked"},
           inhibited' \in BOOLEAN, idledWhileInhibited' \in BOOLEAN, fade' = fade, away' = away
    PROVE  IdleInv'
<1>1. /\ CancelGrace(FALSE, hide) /\ Renew(Behavior, l) /\ Undo(Behavior)
      /\ phase' = [b \in Behavior |-> "Waiting"]
    BY DEF RearmAll
<1>2. /\ ShadeInv' /\ NestInv' /\ FadeInv' /\ TimerInv' /\ Stream'
      /\ graceWillLock' \in BOOLEAN /\ primed' \in BOOLEAN
    BY <1>1, Rearmed
<1>3. screen' \in {"on", "off"} /\ account' \in [Behavior -> {"settled", "owed", "forgotten"}]
  <2>1. PICK B : B = Behavior
    OBVIOUS
  <2>2. Undo(B) /\ SwitchesFit
    BY <1>1, <2>1 DEF IdleInv
  <2> QED  BY <2>2, UndoKeeps
<1>4. SwitchesFit'
    BY <1>2, <1>3 DEF IdleInv, SwitchesFit
<1> QED  BY <1>2, <1>4 DEF IdleInv

LEMMA NotStarting ==
    ASSUME IdleInv, nest = <<>>
    PROVE  lock \in {"unlocked", "pending", "locked"}
BY DEF IdleInv, NestInv, NestFits, SwitchesFit

LEMMA NotNested ==
    ASSUME IdleInv, lock = "pending"
    PROVE  nest = <<>>
BY DEF IdleInv, NestInv, NestFits

\* The configuration, the inhibitions and the session.
LEMMA RearmSteps ==
    ASSUME IdleInv, Reload \/ Uninhibit \/ Locked \/ Unlock
    PROVE  IdleInv'
<1>1. CASE Reload
  <2>1. /\ nest = <<>> /\ fade' \in BOOLEAN /\ CancelGrace(FALSE, FALSE) /\ Renew(Behavior, lock)
        /\ phase' = [b \in Behavior |-> "Waiting"]
        /\ account' = [b \in Behavior |->
                         IF account[b] = "owed" THEN "forgotten" ELSE account[b]]
        /\ UNCHANGED <<inhibited, idledWhileInhibited, deferred, lock, screen, away>>
    BY <1>1 DEF Reload, MainLoop, inhibition
  <2>2. lock' # "starting"
    BY <2>1, NotStarting
  <2>3. /\ ShadeInv' /\ NestInv' /\ FadeInv' /\ TimerInv' /\ Stream'
        /\ graceWillLock' \in BOOLEAN /\ primed' \in BOOLEAN
    BY <2>1, <2>2, Rearmed
  <2>4. SwitchesFit'
    BY <2>1, <2>3 DEF IdleInv, SwitchesFit
  <2> QED  BY <2>3, <2>4 DEF IdleInv
<1>2. CASE Uninhibit
  <2>1. /\ nest = <<>> /\ inhibited' = FALSE
        /\ UNCHANGED <<fade, deferred, lock, away>>
    BY <1>2 DEF Uninhibit, MainLoop
  <2>2. lock' \in {"unlocked", "pending", "locked"}
    BY <2>1, NotStarting
  <2>3. CASE idledWhileInhibited
    <3>1. idledWhileInhibited' = FALSE /\ RearmAll(lock, FALSE)
      BY <1>2, <2>3 DEF Uninhibit
    <3> QED  BY <2>1, <2>2, <3>1, RearmAllKeeps
  <2>4. CASE ~idledWhileInhibited
    <3>1. UNCHANGED <<phase, grace, graceWillLock, graceGeneration, fallback,
                      idledWhileInhibited, shade, nest, primed, screen, compositor, account,
                      cancelled>>
      BY <1>2, <2>4 DEF Uninhibit, manager
    <3>2. SwitchesFit'
      BY <2>1, <3>1 DEF IdleInv, SwitchesFit
    <3>3. ShadeInv' /\ NestInv' /\ FadeInv' /\ TimerInv' /\ Stream'
      BY <2>1, <3>1, ShadeStays, NestStays, FadeStays, TimerStays, StreamStays DEF IdleInv
    <3> QED  BY <3>2, <3>3 DEF IdleInv
  <2> QED  BY <2>3, <2>4
<1>3. CASE Locked
  <2>1. /\ lock = "pending" /\ lock' = "locked" /\ RearmAll("locked", TRUE)
        /\ UNCHANGED <<inhibited, idledWhileInhibited, fade, deferred, away>>
    BY <1>3 DEF Locked, inhibition
  <2>2. nest = <<>> /\ inhibited' \in BOOLEAN /\ idledWhileInhibited' \in BOOLEAN
    BY <2>1, NotNested DEF IdleInv, SwitchesFit
  <2> QED  BY <2>1, <2>2, RearmAllKeeps
<1>4. CASE Unlock
  <2>1. /\ nest = <<>> /\ lock' = "unlocked" /\ RearmAll("unlocked", TRUE)
        /\ UNCHANGED <<inhibited, idledWhileInhibited, fade, deferred, away>>
    BY <1>4 DEF Unlock, MainLoop, inhibition
  <2>2. inhibited' \in BOOLEAN /\ idledWhileInhibited' \in BOOLEAN
    BY <2>1 DEF IdleInv, SwitchesFit
  <2> QED  BY <2>1, <2>2, RearmAllKeeps
<1> QED  BY <1>1, <1>2, <1>3, <1>4

LEMMA SessionSteps ==
    ASSUME IdleInv, RequestLock \/ LockRefused \/ CancelLock
    PROVE  IdleInv'
<1>0. /\ overlayGeneration \in Nat /\ graceGeneration \in Nat
      /\ FramesFit(nest, overlayGeneration, graceGeneration, cancelled)
    BY DEF IdleInv, ShadeInv, ShadeFits
<1>1. /\ nest = <<>> /\ primed' \in BOOLEAN /\ lock' \in {"unlocked", "pending", "starting"}
      /\ overlay' \in {overlay, Hidden}
      /\ nest' = IF lock' = "starting" THEN <<LockFrame(<<>>)>> ELSE <<>>
      /\ UNCHANGED <<phase, grace, graceWillLock, graceGeneration, fallback, inhibited,
                     idledWhileInhibited, fade, overlayGeneration, deferred, screen, away,
                     compositor, account, cancelled>>
  <2>1. nest = <<>>
    BY NotNested DEF RequestLock, LockRefused, CancelLock, MainLoop
  <2>2. CASE RequestLock
    BY <2>1, <2>2 DEF RequestLock, manager, inhibition, shade
  <2>3. CASE LockRefused
    BY <2>1, <2>3, NoFrames DEF LockRefused, Invalidate, manager, inhibition
  <2>4. CASE CancelLock
    BY <2>1, <2>4, NoFrames DEF CancelLock, Invalidate, manager, inhibition, shade
  <2> QED  BY <2>2, <2>3, <2>4
<1>2. SwitchesFit'
    BY <1>1 DEF IdleInv, SwitchesFit
<1>3. PICK x : x = LockFrame(<<>>)
    OBVIOUS
<1>4. x \in Frame /\ x.kind = "lock" /\ x.rest = <<>>
    BY <1>3 DEF LockFrame, Frame
<1>5. (nest' = <<x>> /\ lock' = "starting") \/ (nest' = <<>> /\ lock' # "starting")
    BY <1>1, <1>3
<1>6. FramesFit(nest', overlayGeneration, graceGeneration, cancelled)
  <2>1. CASE nest' = <<x>>
    BY <1>4, <2>1 DEF FramesFit, FrameFits
  <2>2. CASE nest' = <<>>
    BY <2>2 DEF FramesFit
  <2> QED  BY <1>5, <2>1, <2>2
<1>7. ShadeInv'
  <2>1. OverlayFits(overlay', graceGeneration, cancelled)
    BY <1>0, <1>1, HiddenFits DEF IdleInv, ShadeInv, ShadeFits
  <2> QED  BY <1>1, <1>6, <2>1 DEF IdleInv, ShadeInv, ShadeFits
<1>8. NestInv'
    BY <1>4, <1>5 DEF NestInv, NestFits
<1>9. FadeInv'
  <2>1. Left(nest') = {} /\ Left(nest) = {}
    BY <1>1, <1>4, <1>5 DEF Left, ToSet
  <2> QED  BY <1>1, <2>1 DEF IdleInv, FadeInv, FadeFits
<1>10. TimerInv' /\ Stream'
    BY <1>1, TimerStays, StreamStays DEF IdleInv
<1> QED  BY <1>2, <1>7, <1>8, <1>9, <1>10 DEF IdleInv

LEMMA IdleStep ==
    ASSUME IdleAssumption, IdleInv, [Next]_vars
    PROVE  IdleInv'
<1>1. CASE UNCHANGED vars
  <2>1. UNCHANGED <<phase, grace, graceWillLock, graceGeneration, fallback, inhibited,
                    idledWhileInhibited, fade, shade, deferred, nest, primed, lock, screen,
                    away, compositor, account, cancelled>>
    BY <1>1 DEF vars, manager, inhibition
  <2>2. SwitchesFit'
    BY <2>1 DEF IdleInv, SwitchesFit
  <2>3. ShadeInv' /\ NestInv' /\ FadeInv' /\ TimerInv' /\ Stream'
    BY <2>1, ShadeStays, NestStays, FadeStays, TimerStays, StreamStays DEF IdleInv
  <2> QED  BY <2>2, <2>3 DEF IdleInv
<1>2. CASE \E b \in Behavior : Dispatch(b)
    BY <1>2, QuietSteps, JoinGraceInv, BeginGraceInv, RunAtOnceInv, ResumeFadingInv,
       ResumeIdledInv DEF Dispatch
<1> QED
    BY <1>1, <1>2, QuietSteps, PrimeEndsInv, LockCaptureEndsInv, OverlaySteps,
       OutputsChangeInv, FadeCompletes, RearmSteps, SessionSteps DEF Next, Loop

\* Every reachable state keeps the whole of it: nothing fades but the grace and
\* what waits for a capture, and no call still valid shows a cancelled fade.
THEOREM IdleInvariant == Spec => []IdleInv
<1>1. Init => IdleInv
    BY IdleInit, IdleAssumption
<1>2. IdleInv /\ [Next]_vars => IdleInv'
    BY IdleStep, IdleAssumption
<1> QED  BY <1>1, <1>2, PTL DEF Spec

\* The grace is whole, whatever captures interrupt and whoever cancels it.
THEOREM GraceStaysWhole == Spec => []GraceIsWhole
<1>1. IdleInv => GraceIsWhole
    BY GraceWhole
<1> QED  BY <1>1, IdleInvariant, PTL

\* The overlay of a fade that its user cancelled never comes back.
THEOREM CancelledFadesStayGone == Spec => []CancelledFadeIsGone
<1>1. IdleInv => CancelledFadeIsGone
    BY GraceWhole
<1> QED  BY <1>1, IdleInvariant, PTL

-----------------------------------------------------------------------------
(* Phases follow the reports, captures and reloads included.               *)

\* A resume of b is on its way.
On(w, b) == \E i \in DOMAIN w : w[i] = [of |-> b, is |-> "active"]

\* What one behaviour owes to the reports.
Follow(p, t, w, b) ==
    /\ t[b] \in {"active", "idle", "missed"}
    /\ t[b] = "active" => p[b] = "Waiting"
    /\ t[b] = "missed" => p[b] # "Waiting"
    /\ t[b] = "idle" /\ p[b] = "Waiting" => On(w, b)

\* The invariant: a behaviour of the grace was never told of a resume since, so
\* one that misses its resume and still fades waits behind a capture.
Attentive ==
    /\ \A b \in Behavior : Follow(phase, told, wire, b)
    /\ \A b \in ToSet(grace) : told[b] = "idle"

\* A step that runs no action of a behaviour whose user is back.
RunsForAbsent ==
    \A b \in Behavior :
       phase[b] # "Idled" /\ phase'[b] = "Idled"
       => told'[b] = "idle" \/ (told[b] = "missed" /\ b \in Behind)

LEMMA AttentiveNow ==
    ASSUME NEW p, NEW t, NEW w, p = phase', t = told', w = wire',
           \A b \in Behavior : Follow(p, t, w, b), \A b \in ToSet(grace') : t[b] = "idle"
    PROVE  Attentive'
BY DEF Attentive, Follow, On

LEMMA ReportsFollowed ==
    ASSUME IdleInv, Attentive
    PROVE  PhaseFollowsReports
<1>1. Behind = Left(nest)
    BY BehindIsLeft DEF IdleInv, ShadeInv, ShadeFits, FramesFit
<1>2. /\ phase \in [Behavior -> {"Waiting", "Fading", "Idled"}]
      /\ \A b \in Behavior : phase[b] = "Fading" <=> b \in ToSet(grace) \/ b \in Left(nest)
    BY DEF IdleInv, FadeInv, FadeFits
<1>3. ASSUME NEW b \in Behavior, told[b] = "missed"
      PROVE  phase[b] = "Idled" \/ (phase[b] = "Fading" /\ b \in Behind)
  <2>1. phase[b] # "Waiting" /\ b \notin ToSet(grace)
    BY <1>3 DEF Attentive, Follow
  <2>2. phase[b] = "Fading" => b \in Behind
    BY <1>1, <1>2, <2>1
  <2> QED  BY <1>2, <2>1, <2>2
<1>4. ASSUME NEW b \in Behavior
      PROVE  /\ told[b] = "active" => phase[b] = "Waiting"
             /\ told[b] = "idle" /\ phase[b] = "Waiting" => On(wire, b)
    BY DEF Attentive, Follow
<1> QED  BY <1>3, <1>4 DEF PhaseFollowsReports, On

LEMMA OnAppend ==
    ASSUME NEW w \in Seq(Sent), NEW v \in Seq(Sent), NEW b, On(w, b)
    PROVE  On(w \o v, b)
<1>1. PICK i \in 1..Len(w) : w[i] = [of |-> b, is |-> "active"]
    BY DEF On
<1>2. /\ (w \o v) \in Seq(Sent) /\ Len(w \o v) = Len(w) + Len(v) /\ Len(w) \in Nat /\ Len(v) \in Nat
      /\ \A j \in 1..Len(w) + Len(v) :
            (w \o v)[j] = IF j <= Len(w) THEN w[j] ELSE v[j - Len(w)]
    BY ConcatProperties
<1>3. i \in 1..Len(w) + Len(v) /\ i <= Len(w)
    BY <1>2
<1>4. (w \o v)[i] = w[i]
    BY <1>2, <1>3
<1>5. DOMAIN (w \o v) = 1..Len(w) + Len(v)
    BY <1>2
<1> QED  BY <1>1, <1>3, <1>4, <1>5 DEF On

LEMMA OnTail ==
    ASSUME NEW w \in Seq(Sent), w # <<>>, NEW b, NEW c, NEW is,
           Head(w) = [of |-> b, is |-> is], c # b, On(w, c)
    PROVE  On(Tail(w), c)
<1>1. /\ Tail(w) \in Seq(Sent) /\ DOMAIN Tail(w) = 1..Len(w) - 1 /\ Len(w) \in Nat
      /\ DOMAIN w = 1..Len(w) /\ Len(Tail(w)) = Len(w) - 1
      /\ \A i \in 1..Len(w) - 1 : Tail(w)[i] = w[i + 1]
      /\ w[1] = Head(w)
    BY HeadTailProperties
<1>2. PICK i \in 1..Len(w) : w[i] = [of |-> c, is |-> "active"]
    BY <1>1 DEF On
<1>3. i # 1
    BY <1>1, <1>2
<1>4. i - 1 \in 1..Len(w) - 1 /\ (i - 1) + 1 = i
    BY <1>1, <1>3
<1> QED  BY <1>1, <1>2, <1>4 DEF On

LEMMA OnRenewed ==
    ASSUME NEW w \in Seq(Sent), NEW B, NEW c, c \notin B, On(w, c), NEW v,
           v = Only(w, {e \in ToSet(w) : e.of \notin B})
    PROVE  On(v, c)
<1> DEFINE keep == {e \in ToSet(w) : e.of \notin B}
<1>1. PICK i \in 1..Len(w) : w[i] = [of |-> c, is |-> "active"]
    BY DEF On
<1>2. w[i] \in keep
    BY <1>1 DEF ToSet
<1> HIDE DEF keep
<1>3. v = Only(w, keep)
    BY DEF keep
<1>4. v \in Seq(Sent) /\ \E f : Embeds(f, v, w, keep, Len(w))
    BY <1>3, OnlyEmbeds
<1>5. PICK f : Embeds(f, v, w, keep, Len(w))
    BY <1>4
<1>6. PICK j \in 1..Len(v) : f[j] = i
    BY <1>2, <1>5 DEF Embeds
<1>7. v[j] = w[i] /\ j \in DOMAIN v
    BY <1>4, <1>5, <1>6 DEF Embeds
<1> QED  BY <1>1, <1>7 DEF On

\* When one user's resume arrives, the resume of everyone reported idle is there.
LEMMA ResumeOnWire ==
    ASSUME Stream, NEW b, Event(b, "active"), NEW c \in Behavior, told[c] = "idle"
    PROVE  On(wire, c)
<1>1. /\ wire \in Seq(Sent) /\ Ordered(server, wire, told) /\ wire # <<>>
      /\ Head(wire) = [of |-> b, is |-> "active"]
    BY DEF Stream, StreamInv, StreamTyped, Event
<1>2. Len(wire) \in Nat \ {0} /\ wire[1].is = "active" /\ DOMAIN wire = 1..Len(wire)
  <2>1. Len(wire) \in Nat \ {0} /\ wire[1] = Head(wire)
    BY <1>1, HeadTailProperties
  <2> QED  BY <1>1, <2>1
<1>3. Reported(wire, told, 0, c) /\ 0 \in 0..Len(wire)
    BY <1>2 DEF Reported
<1>4. ~StillIdle(server, wire, 0, c)
    BY <1>2 DEF StillIdle
<1>5. Follows(wire, 0, c)
    BY <1>1, <1>3, <1>4 DEF Ordered
<1>6. PICK j \in 1..Len(wire) : wire[j].of = c /\ wire[j].is = "active"
    BY <1>5 DEF Follows
<1>7. wire[j] \in Sent
    BY <1>1, <1>6
<1>8. wire[j] = [of |-> c, is |-> "active"]
    BY <1>6, <1>7 DEF Sent
<1> QED  BY <1>2, <1>6, <1>8 DEF On

\* Who is no longer waiting was told idle, or missed a resume.
LEMMA Absent ==
    ASSUME Attentive, NEW c \in Behavior, phase[c] # "Waiting"
    PROVE  told[c] \in {"idle", "missed"}
BY DEF Attentive, Follow

\* A report of b is dispatched and leaves b in a phase that goes with what it
\* heard; those of the grace may go back to waiting when the report is a resume.
LEMMA ReportFollowed ==
    ASSUME IdleInv, Attentive, NEW b \in Behavior, NEW is \in {"idle", "active"},
           NEW heard \in {"active", "idle", "missed"}, heard = "idle" <=> is = "idle",
           Event(b, is), Dispatched(b, heard),
           heard = "active" <=> phase'[b] = "Waiting",
           is = "active" /\ phase'[b] = "Idled" => phase[b] = "Idled",
           \A c \in Behavior : c # b => \/ phase'[c] = phase[c]
                                        \/ /\ is = "active" /\ c \in ToSet(grace)
                                           /\ phase'[c] = "Waiting",
           \A c \in ToSet(grace') : (c = b /\ is = "idle") \/ (c # b /\ c \in ToSet(grace))
    PROVE  Attentive' /\ RunsForAbsent
<1>1. /\ wire \in Seq(Sent) /\ wire # <<>> /\ Head(wire) = [of |-> b, is |-> is]
      /\ wire' = Tail(wire) /\ told' = [told EXCEPT ![b] = heard]
      /\ told \in [Behavior -> {"active", "idle", "missed"}]
    BY DEF IdleInv, Stream, StreamInv, StreamTyped, Event, Dispatched
<1>2. PICK p, t, w : p = phase' /\ t = told' /\ w = wire'
    OBVIOUS
<1>3. t[b] = heard /\ \A c \in Behavior : c # b => t[c] = told[c]
    BY <1>1, <1>2
<1>4. \A c \in Behavior : c # b /\ On(wire, c) => On(w, c)
    BY <1>1, <1>2, OnTail
<1>5. ASSUME NEW c \in Behavior PROVE Follow(p, t, w, c)
  <2>1. Follow(phase, told, wire, c)
    BY DEF Attentive
  <2>2. CASE c = b
    BY <1>2, <1>3, <2>2 DEF Follow
  <2>3. CASE c # b /\ p[c] = phase[c]
    BY <1>3, <1>4, <2>1, <2>3 DEF Follow
  <2>4. CASE c # b /\ is = "active" /\ c \in ToSet(grace) /\ p[c] = "Waiting"
    <3>1. told[c] = "idle"
      BY <2>4 DEF Attentive
    <3>2. Stream /\ Event(b, "active")
      BY <2>4 DEF IdleInv
    <3>3. On(wire, c)
      BY <3>1, <3>2, ResumeOnWire
    <3> QED  BY <1>3, <1>4, <2>4, <3>1, <3>3 DEF Follow
  <2> QED  BY <1>2, <2>2, <2>3, <2>4
<1>6. \A c \in ToSet(grace') : t[c] = "idle"
  <2>1. ToSet(grace) \subseteq Behavior
    BY DEF IdleInv, FadeInv, FadeFits, ToSet
  <2>2. \A c \in ToSet(grace) : told[c] = "idle"
    BY DEF Attentive
  <2> QED  BY <1>3, <2>1, <2>2
<1>7. Attentive'
    BY <1>2, <1>5, <1>6, AttentiveNow
<1>8. RunsForAbsent
  <2> SUFFICES ASSUME NEW c \in Behavior, phase[c] # "Idled", phase'[c] = "Idled"
               PROVE  told'[c] = "idle"
    BY DEF RunsForAbsent
  <2>1. c = b
    OBVIOUS
  <2>2. is = "idle"
    BY <2>1
  <2> QED  BY <1>2, <1>3, <2>1, <2>2
<1> QED  BY <1>7, <1>8

\* Steps that dispatch no report and change no phase.
LEMMA OthersFollowed ==
    ASSUME Attentive, phase' = phase, told' = told, grace' = grace,
           \A c \in Behavior : On(wire, c) => On(wire', c)
    PROVE  Attentive' /\ RunsForAbsent
<1>1. PICK p, t, w : p = phase' /\ t = told' /\ w = wire'
    OBVIOUS
<1>2. ASSUME NEW c \in Behavior PROVE Follow(p, t, w, c)
  <2>1. Follow(phase, told, wire, c)
    BY DEF Attentive
  <2> QED  BY <1>1, <2>1 DEF Follow
<1>3. \A c \in ToSet(grace') : t[c] = "idle"
    BY <1>1 DEF Attentive
<1>4. RunsForAbsent
    BY DEF RunsForAbsent
<1> QED  BY <1>1, <1>2, <1>3, <1>4, AttentiveNow

LEMMA DispatchFollowed ==
    ASSUME IdleAssumption, IdleInv, Attentive, NEW b \in Behavior, Dispatch(b)
    PROVE  Attentive' /\ RunsForAbsent
<1>0. /\ phase \in [Behavior -> {"Waiting", "Fading", "Idled"}]
      /\ grace \in Seq(Behavior)
      /\ \A c \in Behavior : phase[c] = "Fading" <=> c \in ToSet(grace) \/ c \in Left(nest)
    BY DEF IdleInv, FadeInv, FadeFits
<1>1. CASE IgnoreEvent(b)
  <2>1. PICK is \in {"idle", "active"} :
            /\ Event(b, is) /\ Dispatched(b, is)
            /\ is = "active" => phase[b] = "Waiting"
            /\ is = "idle" => phase[b] # "Waiting"
    BY <1>1 DEF IgnoreEvent
  <2>2. phase' = phase /\ grace' = grace
    BY <1>1 DEF IgnoreEvent, manager
  <2>3. \A c \in ToSet(grace') : c = b => is = "idle"
    <3>1. ToSet(grace) \subseteq Behavior
      BY <1>0 DEF ToSet
    <3> QED  BY <1>0, <2>1, <2>2, <3>1
  <2> QED  BY <2>1, <2>2, <2>3, ReportFollowed
<1>2. CASE SuppressIdled(b)
  <2>1. /\ phase' = phase /\ grace' = grace /\ phase[b] = "Waiting"
        /\ Renew({b}, lock)
    BY <1>2 DEF SuppressIdled, manager
  <2>2. /\ wire \in Seq(Sent) /\ told \in [Behavior -> {"active", "idle", "missed"}]
    BY DEF IdleInv, Stream, StreamInv, StreamTyped
  <2>3. PICK p, t, w, B : p = phase' /\ t = told' /\ w = wire' /\ B = {b}
    OBVIOUS
  <2>4. /\ t = [c \in Behavior |-> IF c \in B THEN "active" ELSE told[c]]
        /\ w = Only(wire, {e \in ToSet(wire) : e.of \notin B})
    BY <2>1, <2>3 DEF Renew
  <2>5. \A c \in Behavior : c \notin B /\ On(wire, c) => On(w, c)
    BY <2>2, <2>4, OnRenewed
  <2>6. ASSUME NEW c \in Behavior PROVE Follow(p, t, w, c)
    <3>1. Follow(phase, told, wire, c)
      BY DEF Attentive
    <3> QED  BY <2>1, <2>3, <2>4, <2>5, <3>1 DEF Follow
  <2>7. \A c \in ToSet(grace') : t[c] = "idle"
    <3>1. ToSet(grace) \subseteq Behavior /\ b \notin ToSet(grace)
      BY <1>0, <2>1 DEF ToSet
    <3>2. \A c \in ToSet(grace) : told[c] = "idle"
      BY DEF Attentive
    <3> QED  BY <2>1, <2>3, <2>4, <3>1, <3>2
  <2>8. Attentive'
    BY <2>3, <2>6, <2>7, AttentiveNow
  <2> QED  BY <2>1, <2>8 DEF RunsForAbsent
<1>3. CASE JoinGrace(b) \/ BeginGrace(b)
  <2>1. /\ phase[b] = "Waiting" /\ phase' = [phase EXCEPT ![b] = "Fading"]
        /\ Event(b, "idle") /\ Dispatched(b, "idle")
        /\ grace' = Append(grace, b) \/ grace' = <<b>>
    BY <1>3 DEF JoinGrace, BeginGrace
  <2>2. phase'[b] = "Fading" /\ \A c \in Behavior : c # b => phase'[c] = phase[c]
    BY <1>0, <2>1
  <2>3. \A c \in ToSet(grace') : c = b \/ c \in ToSet(grace)
    <3>1. CASE grace' = <<b>>
      <4>1. PICK g : g = <<b>>
        OBVIOUS
      <4>2. \A i \in DOMAIN g : g[i] = b
        BY <4>1
      <4> QED  BY <3>1, <4>1, <4>2 DEF ToSet
    <3>2. CASE grace' = Append(grace, b)
      <4>1. PICK g : g = Append(grace, b)
        OBVIOUS
      <4>2. \A i \in DOMAIN g : g[i] = b \/ \E j \in DOMAIN grace : g[i] = grace[j]
        BY <1>0, <4>1
      <4> QED  BY <3>2, <4>1, <4>2 DEF ToSet
    <3> QED  BY <2>1, <3>1, <3>2
  <2> QED  BY <2>1, <2>2, <2>3, ReportFollowed
<1>4. CASE RunAtOnce(b)
  <2>1. /\ phase[b] = "Waiting" /\ Event(b, "idle") /\ Dispatched(b, "idle")
        /\ RunActions(<<b>>, primed, nest) /\ ~fade /\ grace' = grace
    BY <1>4 DEF RunAtOnce
  <2>2. nest = <<>> \/ lock = "starting"
    <3>1. fade # TRUE
      BY <2>1
    <3> QED  BY <3>1 DEF IdleInv, NestInv, NestFits
  <2>3. PICK todo : todo = <<b>>
    OBVIOUS
  <2>4. todo \in Seq(Behavior) /\ Len(todo) = 1 /\ todo[1] = b
    BY <2>3
  <2>5. primed \in BOOLEAN /\ SwitchesFit /\ RunActions(todo, primed, nest)
    BY <2>1, <2>3 DEF IdleInv, SwitchesFit
  <2>6. PICK k \in 0..Len(todo) : RunsTo(todo, k)
    BY <2>2, <2>4, <2>5, RunActionsDoes
  <2>7. k = 1
    BY <2>4, <2>6 DEF RunsTo
  <2>8. phase' = [c \in Behavior |-> IF \E i \in 1..k : todo[i] = c THEN "Idled" ELSE phase[c]]
    BY <2>6 DEF RunsTo
  <2>9. phase'[b] = "Idled" /\ \A c \in Behavior : c # b => phase'[c] = phase[c]
    BY <2>4, <2>7, <2>8
  <2> QED  BY <2>1, <2>9, ReportFollowed
<1>5. CASE ResumeFading(b)
  <2> DEFINE heard == IF b \in ToSet(grace) THEN "active" ELSE "missed"
  <2>1. /\ phase[b] = "Fading" /\ Event(b, "active") /\ Dispatched(b, heard)
        /\ phase' = [c \in Behavior |-> IF c \in ToSet(grace) THEN "Waiting" ELSE phase[c]]
        /\ CancelGrace(TRUE, FALSE) /\ deferred' = deferred
    BY <1>5 DEF ResumeFading
  <2>2. ToSet(grace') = {}
    <3>1. grace' = <<>>
      BY <2>1, CancelGraceKeeps
    <3> QED  BY <3>1 DEF ToSet
  <2>3. heard \in {"active", "missed"} /\ (heard = "active" <=> phase'[b] = "Waiting")
    BY <2>1
  <2>4. phase'[b] # "Idled"
    BY <2>1
  <2>5. \A c \in Behavior : \/ phase'[c] = phase[c]
                            \/ c \in ToSet(grace) /\ phase'[c] = "Waiting"
    BY <2>1
  <2> HIDE DEF heard
  <2> QED  BY <2>1, <2>2, <2>3, <2>4, <2>5, ReportFollowed
<1>6. CASE ResumeIdled(b)
  <2>1. /\ Event(b, "active") /\ Dispatched(b, "active") /\ grace' = grace
        /\ phase[b] = "Idled" /\ phase' = [phase EXCEPT ![b] = "Waiting"]
    BY <1>6 DEF ResumeIdled
  <2>2. phase'[b] = "Waiting" /\ \A c \in Behavior : c # b => phase'[c] = phase[c]
    BY <1>0, <2>1
  <2>3. b \notin ToSet(grace)
    BY <1>0, <2>1
  <2> QED  BY <2>1, <2>2, <2>3, ReportFollowed
<1> QED  BY <1>1, <1>2, <1>3, <1>4, <1>5, <1>6 DEF Dispatch

LEMMA WorldFollowed ==
    ASSUME IdleAssumption, IdleInv, Attentive,
           \/ Leave \/ Return \/ (\E b \in Behavior : ReportIdle(b))
           \/ PrimeEnds \/ CallShow \/ FadeEnds \/ OutputsChange \/ Inhibit
           \/ RequestLock \/ LockRefused \/ CancelLock \/ UNCHANGED vars
    PROVE  Attentive' /\ RunsForAbsent
<1>0. wire \in Seq(Sent)
    BY DEF IdleInv, Stream, StreamInv, StreamTyped
<1>1. phase' = phase /\ told' = told /\ grace' = grace
    BY DEF Leave, Return, ReportIdle, PrimeEnds, CallShow, FadeEnds, OutputsChange, Inhibit,
           RequestLock, LockRefused, CancelLock, vars, manager, compositor
<1>2. wire' = wire \/ \E v \in Seq(Sent) : wire' = wire \o v
  <2>1. CASE Return
    <3>1. PICK order \in SetToSeqs({b \in Behavior : server[b] = "idle"}) :
             wire' = wire \o [i \in DOMAIN order |-> [of |-> order[i], is |-> "active"]]
      BY <2>1 DEF Return
    <3> DEFINE v == [i \in DOMAIN order |-> [of |-> order[i], is |-> "active"]]
    <3>2. order \in [1..Cardinality({b \in Behavior : server[b] = "idle"}) ->
                        {b \in Behavior : server[b] = "idle"}]
      BY DEF SetToSeqs
    <3>3. Cardinality({b \in Behavior : server[b] = "idle"}) \in Nat
      <4>1. IsFiniteSet({b \in Behavior : server[b] = "idle"})
        BY FS_Subset DEF IdleAssumption
      <4> QED  BY <4>1, FS_CardinalityType
    <3>4. PICK m \in Nat : DOMAIN order = 1..m /\ \A i \in 1..m : order[i] \in Behavior
      BY <3>2, <3>3
    <3>5. v = [i \in 1..m |-> [of |-> order[i], is |-> "active"]]
      BY <3>4
    <3>6. \A i \in 1..m : [of |-> order[i], is |-> "active"] \in Sent
      BY <3>4 DEF Sent
    <3>7. v \in Seq(Sent)
      BY <3>5, <3>6
    <3> QED  BY <3>1, <3>7
  <2>2. CASE \E b \in Behavior : ReportIdle(b)
    <3>1. PICK b \in Behavior : wire' = Append(wire, [of |-> b, is |-> "idle"])
      BY <2>2 DEF ReportIdle
    <3>2. PICK e \in Sent : e = [of |-> b, is |-> "idle"]
      BY DEF Sent
    <3>3. Append(wire, e) = wire \o <<e>>
      BY <1>0
    <3>4. <<e>> \in Seq(Sent)
      OBVIOUS
    <3> QED  BY <3>1, <3>2, <3>3, <3>4
  <2>3. CASE \/ Leave \/ PrimeEnds \/ CallShow \/ FadeEnds \/ OutputsChange \/ Inhibit
             \/ RequestLock \/ LockRefused \/ CancelLock \/ UNCHANGED vars
    BY <2>3 DEF Leave, PrimeEnds, CallShow, FadeEnds, OutputsChange, Inhibit, RequestLock,
                LockRefused, CancelLock, vars, compositor
  <2> QED  BY <2>1, <2>2, <2>3
<1>3. \A c \in Behavior : On(wire, c) => On(wire', c)
    BY <1>0, <1>2, OnAppend
<1> QED  BY <1>1, <1>3, OthersFollowed

\* Behaviours that faded become idled: those of the grace, or those that waited.
LEMMA RunFollowed ==
    ASSUME IdleInv, Attentive, UNCHANGED <<wire, told>>,
           \A b \in Behavior :
              \/ phase'[b] = phase[b]
              \/ /\ phase[b] = "Fading" /\ phase'[b] = "Idled"
                 /\ b \in ToSet(grace) \/ b \in Behind,
           ToSet(grace') \subseteq ToSet(grace)
    PROVE  Attentive' /\ RunsForAbsent
<1>1. PICK p, t, w : p = phase' /\ t = told' /\ w = wire'
    OBVIOUS
<1>2. \A b \in Behavior : phase[b] = "Fading" => told[b] \in {"idle", "missed"}
    BY Absent
<1>3. ASSUME NEW c \in Behavior PROVE Follow(p, t, w, c)
  <2>1. Follow(phase, told, wire, c)
    BY DEF Attentive
  <2> QED  BY <1>1, <1>2, <2>1 DEF Follow
<1>4. \A c \in ToSet(grace) : told[c] = "idle"
    BY DEF Attentive
<1>5. Attentive'
    BY <1>1, <1>3, <1>4, AttentiveNow
<1>6. RunsForAbsent
    BY <1>2, <1>4 DEF RunsForAbsent
<1> QED  BY <1>5, <1>6

LEMMA CompleteGraceFollowed ==
    ASSUME IdleAssumption, IdleInv, nest = <<>>, Attentive, CompleteGrace
    PROVE  Attentive' /\ RunsForAbsent
<1> DEFINE fading == {b \in Behavior : phase[b] = "Fading"}
           keep == Handoff(FALSE, \E i \in DOMAIN Only(grace, fading) :
                                     Only(grace, fading)[i] \in Lockers)
<1>0. /\ grace \in Seq(Behavior) /\ DOMAIN grace = 1..Len(grace)
      /\ \A i \in 1..Len(grace) : grace[i] \in fading
  <2>1. FadeFits(phase, grace, nest)
    BY DEF IdleInv, FadeInv
  <2>2. grace \in Seq(Behavior) /\ DOMAIN grace = 1..Len(grace)
    BY <2>1 DEF FadeFits
  <2> QED  BY <2>1, <2>2 DEF FadeFits, ToSet
<1>1. RunActions(Only(grace, fading), primed /\ keep, nest) /\ UNCHANGED <<wire, told>>
      /\ grace' = <<>>
    BY DEF CompleteGrace
<1>2. PICK g, ready : g = grace /\ ready = (primed /\ keep)
    OBVIOUS
<1>3. ready \in BOOLEAN
    BY <1>2 DEF IdleInv, SwitchesFit
<1> HIDE DEF keep
<1>4. Only(grace, fading) = grace
  <2> HIDE DEF fading
  <2> QED  BY <1>0, OnlyAll
<1>5. RunActions(g, ready, nest) /\ g \in Seq(Behavior) /\ SwitchesFit
    BY <1>0, <1>1, <1>2, <1>4 DEF IdleInv
<1>6. PICK k \in 0..Len(g) : RunsTo(g, k)
    BY <1>3, <1>5, RunActionsDoes
<1>7. phase' = [b \in Behavior |-> IF \E i \in 1..k : g[i] = b THEN "Idled" ELSE phase[b]]
    BY <1>6 DEF RunsTo
<1>8. ASSUME NEW b \in Behavior
      PROVE  \/ phase'[b] = phase[b]
             \/ phase[b] = "Fading" /\ phase'[b] = "Idled" /\ b \in ToSet(grace)
  <2>1. CASE \E i \in 1..k : g[i] = b
    <3>1. PICK i \in 1..Len(grace) : grace[i] = b
      BY <1>0, <1>2, <2>1
    <3> QED  BY <1>0, <1>7, <2>1, <3>1 DEF ToSet
  <2>2. CASE ~(\E i \in 1..k : g[i] = b)
    BY <1>7, <2>2
  <2> QED  BY <2>1, <2>2
<1>9. ToSet(grace') = {}
    BY <1>1 DEF ToSet
<1> QED  BY <1>1, <1>8, <1>9, RunFollowed

LEMMA LockCaptureEndsFollowed ==
    ASSUME IdleInv, Attentive, LockCaptureEnds
    PROVE  Attentive' /\ RunsForAbsent
<1> DEFINE run == {b \in ToSet(Last(nest).rest) : phase[b] = "Fading"}
<1>1. /\ nest # <<>> /\ UNCHANGED <<wire, told, grace>>
      /\ phase' = [b \in Behavior |-> IF b \in run THEN "Idled" ELSE phase[b]]
    BY DEF LockCaptureEnds, compositor
<1>2. nest \in Seq(Frame)
    BY DEF IdleInv, ShadeInv, ShadeFits, FramesFit
<1>3. Len(nest) \in DOMAIN nest /\ Last(nest) = nest[Len(nest)]
    BY <1>1, <1>2 DEF Last
<1>4. ToSet(Last(nest).rest) \subseteq Behind
    BY <1>3 DEF Behind
<1>5. \A b \in Behavior : \/ phase'[b] = phase[b]
                          \/ phase[b] = "Fading" /\ phase'[b] = "Idled" /\ b \in Behind
    BY <1>1, <1>4
<1> QED  BY <1>1, <1>5, RunFollowed

LEMMA RearmFollowed ==
    ASSUME ToSet(grace') = {}, NEW l, Renew(Behavior, l),
           phase' = [b \in Behavior |-> "Waiting"]
    PROVE  Attentive' /\ RunsForAbsent
<1>1. told' = [b \in Behavior |-> "active"]
    BY DEF Renew
<1>2. PICK p, t, w : p = phase' /\ t = told' /\ w = wire'
    OBVIOUS
<1>3. ASSUME NEW c \in Behavior PROVE Follow(p, t, w, c)
    BY <1>1, <1>2 DEF Follow
<1>4. Attentive'
    BY <1>2, <1>3, AttentiveNow
<1> QED  BY <1>4 DEF RunsForAbsent

LEMMA RearmStepsFollowed ==
    ASSUME IdleInv, Attentive, Reload \/ Uninhibit \/ Locked \/ Unlock
    PROVE  Attentive' /\ RunsForAbsent
<1>1. CASE /\ phase' = [b \in Behavior |-> "Waiting"]
           /\ \E hide \in BOOLEAN, l \in {lock, "locked", "unlocked"} :
                 CancelGrace(FALSE, hide) /\ Renew(Behavior, l) /\ deferred' = deferred
  <2>1. PICK hide \in BOOLEAN, l \in {lock, "locked", "unlocked"} :
            CancelGrace(FALSE, hide) /\ Renew(Behavior, l) /\ deferred' = deferred
    BY <1>1
  <2>2. grace' = <<>>
    BY <2>1, CancelGraceKeeps
  <2>3. ToSet(grace') = {}
    BY <2>2 DEF ToSet
  <2> QED  BY <1>1, <2>1, <2>3, RearmFollowed
<1>2. CASE UNCHANGED <<phase, told, wire, grace>>
    BY <1>2, OthersFollowed
<1>3. CASE Reload
    BY <1>1, <1>3 DEF Reload
<1>4. CASE Uninhibit
    BY <1>1, <1>2, <1>4 DEF Uninhibit, RearmAll, manager, compositor
<1>5. CASE Locked
    BY <1>1, <1>5 DEF Locked, RearmAll
<1>6. CASE Unlock
    BY <1>1, <1>6 DEF Unlock, RearmAll
<1> QED  BY <1>3, <1>4, <1>5, <1>6

LEMMA AttentiveStep ==
    ASSUME IdleAssumption, IdleInv, Attentive, [Next]_vars
    PROVE  Attentive' /\ RunsForAbsent
<1>1. CASE CallDone \/ FallbackFires
  <2>1. CASE CompleteGrace
    BY <1>1, <2>1, CompleteGraceFollowed DEF CallDone, FallbackFires, MainLoop
  <2>2. CASE UNCHANGED <<phase, told, wire, grace>>
    BY <2>2, OthersFollowed
  <2> QED  BY <1>1, <2>1, <2>2 DEF CallDone, FallbackFires, manager, compositor
<1> QED
    BY <1>1, WorldFollowed, DispatchFollowed, LockCaptureEndsFollowed, RearmStepsFollowed
    DEF Next, Loop

LEMMA AttentiveInit ==
    ASSUME Init
    PROVE  Attentive
<1>1. ASSUME NEW c \in Behavior PROVE Follow(phase, told, wire, c)
    BY DEF Init, Follow
<1>2. ToSet(grace) = {}
    BY DEF Init, ToSet
<1> QED  BY <1>1, <1>2 DEF Attentive

\* A behaviour's phase follows the reports: what waits although it was last
\* reported idle has its resume on the way, and what does not wait although its
\* user is back missed the resume behind a capture of the lock.
THEOREM PhasesFollowReports == Spec => []PhaseFollowsReports
<1>1. Init => Attentive
    BY AttentiveInit
<1>2. IdleInv /\ Attentive /\ [Next]_vars => Attentive'
    BY AttentiveStep, IdleAssumption
<1>3. IdleInv /\ Attentive => PhaseFollowsReports
    BY ReportsFollowed
<1> QED  BY <1>1, <1>2, <1>3, IdleInvariant, PTL DEF Spec

\* No action runs of a behaviour whose user is known to be back, but for one that
\* missed the resume behind a capture of the lock.
THEOREM ActionsMeanIdle == Spec => ActionMeansIdle
<1>1. Init => Attentive
    BY AttentiveInit
<1>2. IdleInv /\ Attentive /\ [Next]_vars => Attentive'
    BY AttentiveStep, IdleAssumption
<1>3. IdleInv /\ Attentive /\ [Next]_vars
      => [\A b \in Behavior :
            phase[b] # "Idled" /\ phase'[b] = "Idled"
            => told'[b] = "idle" \/ (told[b] = "missed" /\ b \in Behind)]_vars
    BY AttentiveStep, IdleAssumption DEF RunsForAbsent
<1> QED  BY <1>1, <1>2, <1>3, IdleInvariant, PTL DEF Spec, ActionMeansIdle

-----------------------------------------------------------------------------
(* Actions are undone when their behaviour leaves "Idled".                 *)

LEMMA RunOwed ==
    ASSUME ActionIsOwed, NEW R,
           phase' = [b \in Behavior |-> IF b \in R THEN "Idled" ELSE phase[b]],
           account' = [b \in Behavior |-> IF b \in R THEN "owed" ELSE account[b]]
    PROVE  ActionIsOwed'
BY DEF ActionIsOwed

LEMMA RunsToOwed ==
    ASSUME ActionIsOwed, NEW todo, NEW k, RunsTo(todo, k)
    PROVE  ActionIsOwed'
BY DEF ActionIsOwed, RunsTo

\* The behaviours of B are undone and no longer idled.
LEMMA UndoOwed ==
    ASSUME ActionIsOwed, NEW B, Undo(B),
           \A b \in Behavior : phase'[b] = IF b \in B THEN "Waiting" ELSE phase[b]
    PROVE  ActionIsOwed'
BY DEF ActionIsOwed, Undo

\* A phase that changes between waiting and fading owes nothing.
LEMMA OthersOwed ==
    ASSUME ActionIsOwed, account' = account,
           \A b \in Behavior : phase'[b] = "Idled" <=> phase[b] = "Idled"
    PROVE  ActionIsOwed'
BY DEF ActionIsOwed

LEMMA DispatchOwed ==
    ASSUME IdleAssumption, IdleInv, ActionIsOwed, NEW b \in Behavior, Dispatch(b)
    PROVE  ActionIsOwed'
<1>0. phase \in [Behavior -> {"Waiting", "Fading", "Idled"}]
    BY DEF IdleInv, FadeInv, FadeFits
<1>1. CASE IgnoreEvent(b) \/ SuppressIdled(b)
  <2>1. phase' = phase /\ account' = account
    BY <1>1 DEF IgnoreEvent, SuppressIdled, manager
  <2> QED  BY <2>1, OthersOwed
<1>2. CASE JoinGrace(b) \/ BeginGrace(b)
  <2>1. phase[b] = "Waiting" /\ phase' = [phase EXCEPT ![b] = "Fading"] /\ account' = account
    BY <1>2 DEF JoinGrace, BeginGrace
  <2>2. \A c \in Behavior : phase'[c] = "Idled" <=> phase[c] = "Idled"
    BY <1>0, <2>1
  <2> QED  BY <2>1, <2>2, OthersOwed
<1>3. CASE RunAtOnce(b)
  <2>1. RunActions(<<b>>, primed, nest) /\ ~fade
    BY <1>3 DEF RunAtOnce
  <2>2. nest = <<>> \/ lock = "starting"
    <3>1. fade # TRUE
      BY <2>1
    <3> QED  BY <3>1 DEF IdleInv, NestInv, NestFits
  <2>3. PICK todo : todo = <<b>>
    OBVIOUS
  <2>4. todo \in Seq(Behavior) /\ primed \in BOOLEAN /\ SwitchesFit
        /\ RunActions(todo, primed, nest)
    BY <2>1, <2>3 DEF IdleInv, SwitchesFit
  <2>5. PICK k \in 0..Len(todo) : RunsTo(todo, k)
    BY <2>2, <2>4, RunActionsDoes
  <2> QED  BY <2>5, RunsToOwed
<1>4. CASE ResumeFading(b)
  <2>1. /\ phase' = [c \in Behavior |-> IF c \in ToSet(grace) THEN "Waiting" ELSE phase[c]]
        /\ account' = account
    BY <1>4 DEF ResumeFading
  <2>2. \A c \in Behavior : c \in ToSet(grace) => phase[c] = "Fading"
    BY DEF IdleInv, FadeInv, FadeFits
  <2>3. \A c \in Behavior : phase'[c] = "Idled" <=> phase[c] = "Idled"
    BY <2>1, <2>2
  <2> QED  BY <2>1, <2>3, OthersOwed
<1>5. CASE ResumeIdled(b)
  <2>1. Undo({b}) /\ phase' = [phase EXCEPT ![b] = "Waiting"]
    BY <1>5 DEF ResumeIdled
  <2>2. PICK B : B = {b}
    OBVIOUS
  <2>3. \A c \in Behavior : phase'[c] = IF c \in B THEN "Waiting" ELSE phase[c]
    BY <1>0, <2>1, <2>2
  <2>4. Undo(B)
    BY <2>1, <2>2
  <2> QED  BY <2>3, <2>4, UndoOwed
<1> QED  BY <1>1, <1>2, <1>3, <1>4, <1>5 DEF Dispatch

LEMMA CompleteGraceOwed ==
    ASSUME IdleAssumption, IdleInv, nest = <<>>, ActionIsOwed, CompleteGrace
    PROVE  ActionIsOwed'
<1> DEFINE todo == Only(grace, {b \in Behavior : phase[b] = "Fading"})
           keep == Handoff(FALSE, \E i \in DOMAIN todo : todo[i] \in Lockers)
<1>1. RunActions(todo, primed /\ keep, nest)
    BY DEF CompleteGrace
<1>2. PICK g, ready : g = todo /\ ready = (primed /\ keep)
    OBVIOUS
<1>3. g \in Seq(Behavior)
  <2>1. grace \in Seq(Behavior)
    BY DEF IdleInv, FadeInv, FadeFits
  <2> QED  BY <1>2, <2>1, OnlyEmbeds
<1>4. ready \in BOOLEAN /\ SwitchesFit
    BY <1>2 DEF IdleInv, SwitchesFit
<1> HIDE DEF todo, keep
<1>5. RunActions(g, ready, nest)
    BY <1>1, <1>2
<1>6. PICK k \in 0..Len(g) : RunsTo(g, k)
    BY <1>3, <1>4, <1>5, RunActionsDoes
<1> QED  BY <1>6, RunsToOwed

LEMMA OwedStep ==
    ASSUME IdleAssumption, IdleInv, ActionIsOwed, [Next]_vars
    PROVE  ActionIsOwed'
<1>1. CASE CallDone \/ FallbackFires
  <2>1. CASE CompleteGrace
    BY <1>1, <2>1, CompleteGraceOwed DEF CallDone, FallbackFires, MainLoop
  <2>2. CASE UNCHANGED <<phase, account>>
    BY <2>2, OthersOwed
  <2> QED  BY <1>1, <2>1, <2>2 DEF CallDone, FallbackFires, manager
<1>2. CASE LockCaptureEnds
  <2>1. PICK R : R = {b \in ToSet(Last(nest).rest) : phase[b] = "Fading"}
    OBVIOUS
  <2>2. /\ phase' = [b \in Behavior |-> IF b \in R THEN "Idled" ELSE phase[b]]
        /\ account' = [b \in Behavior |-> IF b \in R THEN "owed" ELSE account[b]]
    BY <1>2, <2>1 DEF LockCaptureEnds
  <2> QED  BY <2>2, RunOwed
<1>3. CASE \/ Leave \/ Return \/ (\E b \in Behavior : ReportIdle(b))
           \/ CallShow \/ FadeEnds \/ OutputsChange \/ Inhibit \/ PrimeEnds
           \/ RequestLock \/ LockRefused \/ CancelLock \/ UNCHANGED vars
  <2>1. phase' = phase /\ account' = account
    BY <1>3 DEF Leave, Return, ReportIdle, CallShow, FadeEnds, OutputsChange, Inhibit,
                PrimeEnds, RequestLock, LockRefused, CancelLock, vars, manager
  <2> QED  BY <2>1, OthersOwed
<1>4. CASE Uninhibit \/ Locked \/ Unlock
  <2>1. CASE UNCHANGED <<phase, account>>
    BY <2>1, OthersOwed
  <2>2. CASE Undo(Behavior) /\ phase' = [b \in Behavior |-> "Waiting"]
    <3>1. PICK B : B = Behavior
      OBVIOUS
    <3>2. Undo(B) /\ \A c \in Behavior : phase'[c] = IF c \in B THEN "Waiting" ELSE phase[c]
      BY <2>2, <3>1
    <3> QED  BY <3>2, UndoOwed
  <2> QED  BY <1>4, <2>1, <2>2 DEF Uninhibit, Locked, Unlock, RearmAll, manager
<1>5. CASE Reload
  <2>1. /\ phase' = [b \in Behavior |-> "Waiting"]
        /\ account' = [b \in Behavior |->
                         IF account[b] = "owed" THEN "forgotten" ELSE account[b]]
    BY <1>5 DEF Reload
  <2> QED  BY <2>1 DEF ActionIsOwed
<1> QED
    BY <1>1, <1>2, <1>3, <1>4, <1>5, DispatchOwed DEF Next, Loop

\* An action that ran is owed exactly as long as its behaviour is idled: whatever
\* takes it out of there undoes it, except for a reload, which forgets it.
THEOREM ActionsStayOwed == Spec => []ActionIsOwed
<1>1. Init => ActionIsOwed
    BY DEF Init, ActionIsOwed
<1>2. IdleInv /\ ActionIsOwed /\ [Next]_vars => ActionIsOwed'
    BY OwedStep, IdleAssumption
<1> QED  BY <1>1, <1>2, IdleInvariant, PTL DEF Spec

=============================================================================
