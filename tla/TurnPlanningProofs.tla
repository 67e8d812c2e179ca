-------------------------- MODULE TurnPlanningProofs --------------------------
(***************************************************************************)
(* For any messages, and requests and conversations of any length: answers *)
(* are given to the requests that asked for them, the record of a session  *)
(* is a path of its upstream conversation, a request continues it at the   *)
(* last place where it can, a client that echoes the answers is understood *)
(* (TurnPlanning), and what is sent is what the messages say               *)
(* (MessageContent).                                                       *)
(*                                                                         *)
(* That answers match and records are paths rests on the validation of the *)
(* whole request against the parent timeline, and on plan_turns only for   *)
(* where it may point.  That the place is the last one rests on how        *)
(* plan_turns compares the request with the turns, and on every timeline   *)
(* having the messages of users of the turns up to it, and no others.      *)
(***************************************************************************)
EXTENDS TurnPlanning, MessageContent, SequenceTheorems, WellFoundedInduction, TLAPS

-----------------------------------------------------------------------------
(* Induction                                                               *)

LEMMA LeastElement ==
    ASSUME NEW T \in SUBSET Nat, T # {}
    PROVE  \E m \in T : \A n \in T : m <= n
<1>1. PICK m \in T : \A n \in T : <<n, m>> \notin OpToRel(<, Nat)
  BY NatLessThanWellFounded, WFMin
<1>2. \A n \in T : ~(n < m)
  BY <1>1 DEF OpToRel
<1> QED
  BY <1>2

LEMMA Induction ==
    ASSUME NEW S, 0 \in S, \A n \in Nat : n \in S => n + 1 \in S
    PROVE  \A n \in Nat : n \in S
<1> SUFFICES ASSUME Nat \ S # {} PROVE FALSE
  OBVIOUS
<1>1. PICK m \in Nat \ S : \A n \in Nat \ S : m <= n
  BY LeastElement
<1>2. m # 0 /\ m - 1 \in Nat /\ m - 1 \notin Nat \ S
  BY <1>1
<1> QED
  BY <1>1, <1>2

-----------------------------------------------------------------------------
(* Sequences                                                               *)

\* The provers have an easier time without what they know of concatenation.
Cat(a, b) == a \o b

LEMMA Associates ==
    \A S : \A a, b, c \in Seq(S) : Cat(Cat(a, b), c) = Cat(a, Cat(b, c))
BY ConcatAssociative DEF Cat

LEMMA AppendedIsConcat == \A S : \A s \in Seq(S), e \in S : Append(s, e) = s \o <<e>>
BY AppendIsConcat

-----------------------------------------------------------------------------
(* FlattenSeq                                                              *)

\* f[i] is the first i elements of s, one after the other.
Joins(f, s, n) == f = [i \in 1..n |-> IF i = 1 THEN s[i] ELSE f[i - 1] \o s[i]]

LEMMA JoinsAt ==
    ASSUME NEW f, NEW s, NEW n \in Nat, Joins(f, s, n), NEW i \in 1..n
    PROVE  f[i] = IF i = 1 THEN s[i] ELSE f[i - 1] \o s[i]
<1> DEFINE F == [j \in 1..n |-> IF j = 1 THEN s[j] ELSE f[j - 1] \o s[j]]
<1>1. f = F
  BY DEF Joins
<1>2. F[i] = IF i = 1 THEN s[i] ELSE f[i - 1] \o s[i]
  OBVIOUS
<1> HIDE DEF F
<1> QED
  BY <1>1, <1>2

LEMMA JoinExists ==
    ASSUME NEW s, NEW n \in Nat
    PROVE  \E f : Joins(f, s, n)
<1> DEFINE S == {k \in Nat : \E f : Joins(f, s, k)}
<1>1. 0 \in S
  <2>1. Joins([i \in 1..0 |-> s], s, 0)
    BY DEF Joins
  <2> QED
    BY <2>1
<1>2. ASSUME NEW k \in Nat, k \in S PROVE k + 1 \in S
  <2>1. PICK f : Joins(f, s, k)
    BY <1>2
  <2> DEFINE g == [i \in 1..k + 1 |-> IF i <= k THEN f[i]
                                      ELSE IF i = 1 THEN s[i] ELSE f[k] \o s[i]]
  <2>2. ASSUME NEW i \in 1..k + 1
        PROVE  g[i] = IF i = 1 THEN s[i] ELSE g[i - 1] \o s[i]
    <3>1. CASE i <= k
      <4>1. g[i] = f[i] /\ f[i] = IF i = 1 THEN s[i] ELSE f[i - 1] \o s[i]
        BY <2>1, <3>1, JoinsAt
      <4>2. i # 1 => i - 1 \in 1..k + 1 /\ i - 1 <= k /\ g[i - 1] = f[i - 1]
        BY <3>1
      <4> QED
        BY <4>1, <4>2
    <3>2. CASE i = k + 1 /\ i # 1
      <4>1. i - 1 = k /\ k \in 1..k + 1 /\ ~(i <= k)
        BY <3>2
      <4>2. g[i - 1] = f[k]
        BY <4>1
      <4> QED
        BY <3>2, <4>1, <4>2
    <3>3. CASE i = k + 1 /\ i = 1
      BY <3>3
    <3> QED
      BY <3>1, <3>2, <3>3
  <2>3. Joins(g, s, k + 1)
    BY <2>2 DEF Joins
  <2> HIDE DEF g
  <2> QED
    BY <2>3
<1> HIDE DEF S
<1>3. n \in S
  BY <1>1, <1>2, Induction
<1> QED
  BY <1>3 DEF S

AgreeUpTo(s, r, n) == \A i \in 1..n : s[i] = r[i]

LEMMA JoinsAgree ==
    \A s, r, f, g : \A n \in Nat, m \in Nat :
        n <= m /\ AgreeUpTo(s, r, n) /\ Joins(f, s, n) /\ Joins(g, r, m) => AgreeUpTo(f, g, n)
<1> SUFFICES ASSUME NEW s, NEW r, NEW f, NEW g, NEW n \in Nat, NEW m \in Nat, n <= m,
                    \A i \in 1..n : s[i] = r[i], Joins(f, s, n), Joins(g, r, m)
             PROVE  \A i \in 1..n : f[i] = g[i]
  BY DEF AgreeUpTo
<1> DEFINE S == {i \in Nat : i \in 1..n => f[i] = g[i]}
<1>1. 0 \in S
  OBVIOUS
<1>2. ASSUME NEW i \in Nat, i \in S PROVE i + 1 \in S
  <2> SUFFICES ASSUME i + 1 \in 1..n PROVE f[i + 1] = g[i + 1]
    OBVIOUS
  <2>1. PICK j \in 1..n : j = i + 1 /\ j \in 1..m /\ j - 1 = i
    OBVIOUS
  <2>2. f[j] = IF j = 1 THEN s[j] ELSE f[j - 1] \o s[j]
    BY JoinsAt
  <2>3. g[j] = IF j = 1 THEN r[j] ELSE g[j - 1] \o r[j]
    BY <2>1, JoinsAt
  <2>4. j # 1 => f[i] = g[i]
    BY <1>2, <2>1
  <2> QED
    BY <2>1, <2>2, <2>3, <2>4
<1> HIDE DEF S
<1>3. \A i \in Nat : i \in S
  BY <1>1, <1>2, Induction
<1> QED
  BY <1>3 DEF S

LEMMA FlattenIsJoin ==
    ASSUME NEW s, NEW n \in Nat, Len(s) = n, n # 0, NEW f, Joins(f, s, n)
    PROVE  FlattenSeq(s) = f[n]
<1> DEFINE h == CHOOSE g : g = [i \in 1..Len(s) |-> IF i = 1 THEN s[i] ELSE g[i - 1] \o s[i]]
<1>1. \E g : Joins(g, s, n)
  BY JoinExists
<1>2. Joins(h, s, n)
  BY <1>1 DEF Joins
<1>3. FlattenSeq(s) = h[n]
  BY DEF FlattenSeq
<1> HIDE DEF h
<1>4. n <= n /\ AgreeUpTo(s, s, n)
  BY DEF AgreeUpTo
<1>5. AgreeUpTo(h, f, n)
  BY <1>2, <1>4, JoinsAgree
<1>6. h[n] = f[n]
  BY <1>5 DEF AgreeUpTo
<1> QED
  BY <1>3, <1>6

LEMMA FlattenNext ==
    ASSUME NEW D, NEW n \in Nat, NEW m \in Nat, m = n + 1,
           NEW s \in Seq(Seq(D)), NEW r \in Seq(Seq(D)),
           Len(s) = n, Len(r) = m, \A i \in 1..n : s[i] = r[i]
    PROVE  FlattenSeq(r) = FlattenSeq(s) \o r[m]
<1>1. PICK g : Joins(g, r, m)
  BY JoinExists
<1>2. FlattenSeq(r) = g[m]
  BY <1>1, FlattenIsJoin
<1>0. n <= m /\ AgreeUpTo(s, r, n)
  BY DEF AgreeUpTo
<1>3. m \in 1..m /\ m - 1 = n
  OBVIOUS
<1>4. g[m] = IF m = 1 THEN r[m] ELSE g[n] \o r[m]
  <2>1. g[m] = IF m = 1 THEN r[m] ELSE g[m - 1] \o r[m]
    BY <1>1, <1>3, JoinsAt
  <2> QED
    BY <1>3, <2>1
<1>5. CASE n = 0
  <2>1. FlattenSeq(s) = <<>>
    BY <1>5 DEF FlattenSeq
  <2> QED
    BY <1>2, <1>4, <1>5, <2>1
<1>6. CASE n # 0
  <2>1. PICK f : Joins(f, s, n)
    BY JoinExists
  <2>2. FlattenSeq(s) = f[n]
    BY <1>6, <2>1, FlattenIsJoin
  <2>3. AgreeUpTo(f, g, n)
    BY <1>0, <1>1, <2>1, JoinsAgree
  <2>4. m # 1 /\ n \in 1..n /\ f[n] = g[n]
    BY <1>6, <2>3 DEF AgreeUpTo
  <2> QED
    BY <1>2, <1>4, <2>2, <2>4
<1> QED
  BY <1>5, <1>6

LEMMA FlattenTyped ==
    ASSUME NEW D, NEW s \in Seq(Seq(D))
    PROVE  FlattenSeq(s) \in Seq(D)
<1>1. Len(s) \in Nat
  OBVIOUS
<1>2. CASE Len(s) = 0
  BY <1>2 DEF FlattenSeq
<1>3. CASE Len(s) # 0
  <2>1. \E f : Joins(f, s, Len(s))
    BY <1>1, JoinExists
  <2>2. PICK f : Joins(f, s, Len(s))
    BY <2>1
  <2> DEFINE S == {i \in Nat : i \in 1..Len(s) => f[i] \in Seq(D)}
  <2>3. 0 \in S
    OBVIOUS
  <2>4. ASSUME NEW i \in Nat, i \in S PROVE i + 1 \in S
    <3> SUFFICES ASSUME i + 1 \in 1..Len(s) PROVE f[i + 1] \in Seq(D)
      OBVIOUS
    <3>1. PICK j \in 1..Len(s) : j = i + 1 /\ j - 1 = i
      OBVIOUS
    <3>2. f[j] = IF j = 1 THEN s[j] ELSE f[j - 1] \o s[j]
      BY <1>1, <2>2, JoinsAt
    <3>3. j # 1 => f[i] \in Seq(D)
      BY <2>4, <3>1
    <3>4. s[j] \in Seq(D)
      OBVIOUS
    <3> QED
      BY <3>1, <3>2, <3>3, <3>4
  <2> HIDE DEF S
  <2>5. Len(s) \in S
    BY <1>1, <2>3, <2>4, Induction
  <2>6. FlattenSeq(s) = f[Len(s)]
    BY <1>1, <1>3, <2>2, FlattenIsJoin
  <2>7. Len(s) \in 1..Len(s)
    BY <1>1, <1>3
  <2> QED
    BY <2>5, <2>6, <2>7 DEF S
<1> QED
  BY <1>2, <1>3

-----------------------------------------------------------------------------
(* What a function makes of every element of a sequence, one after the     *)
(* other.  Choosing elements is the case of one element or none.           *)

Maps(D, E) == [D -> Seq(E)]
Parts(f, s) == [i \in DOMAIN s |-> f[s[i]]]
FlatMap(f, s) == FlattenSeq(Parts(f, s))

LEMMA PartsTyped ==
    ASSUME NEW D, NEW E, NEW f \in Maps(D, E), NEW s \in Seq(D)
    PROVE  Parts(f, s) \in Seq(Seq(E)) /\ Len(Parts(f, s)) = Len(s)
<1>1. \A i \in 1..Len(s) : f[s[i]] \in Seq(E)
  BY DEF Maps
<1>2. DOMAIN s = 1..Len(s) /\ Len(s) \in Nat
  OBVIOUS
<1>3. Parts(f, s) = [i \in 1..Len(s) |-> f[s[i]]]
  BY <1>2 DEF Parts
<1> QED
  BY <1>1, <1>2, <1>3

LEMMA PartsAt ==
    ASSUME NEW D, NEW s \in Seq(D), NEW f, NEW i \in 1..Len(s)
    PROVE  Parts(f, s)[i] = f[s[i]]
BY DEF Parts

LEMMA MapsOne ==
    ASSUME NEW D, NEW E, NEW f \in Maps(D, E), NEW e \in D
    PROVE  f[e] \in Seq(E)
BY DEF Maps

LEMMA FlatMapEmpty ==
    ASSUME NEW f
    PROVE  FlatMap(f, <<>>) = <<>>
<1>1. Parts(f, <<>>) = <<>>
  BY DEF Parts
<1>2. FlattenSeq(<<>>) = <<>>
  BY DEF FlattenSeq
<1> QED
  BY <1>1, <1>2 DEF FlatMap

LEMMA FlatMapTyped ==
    ASSUME NEW D, NEW E, NEW f \in Maps(D, E), NEW s \in Seq(D)
    PROVE  FlatMap(f, s) \in Seq(E)
<1>1. Parts(f, s) \in Seq(Seq(E))
  BY PartsTyped
<1> QED
  BY <1>1, FlattenTyped DEF FlatMap

LEMMA FlatMapNext ==
    ASSUME NEW D, NEW E, NEW f \in Maps(D, E), NEW s \in Seq(D), NEW e \in D
    PROVE  FlatMap(f, Append(s, e)) = FlatMap(f, s) \o f[e]
<1> DEFINE t == Append(s, e)
<1>1. t \in Seq(D) /\ Len(t) = Len(s) + 1 /\ Len(s) \in Nat
  BY AppendProperties
<1>2. \A i \in 1..Len(s) : t[i] = s[i]
  BY AppendProperties
<1>3. t[Len(s) + 1] = e
  BY AppendProperties
<1> HIDE DEF t
<1>4. Parts(f, s) \in Seq(Seq(E)) /\ Len(Parts(f, s)) = Len(s)
  BY PartsTyped
<1>5. Parts(f, t) \in Seq(Seq(E)) /\ Len(Parts(f, t)) = Len(t)
  BY <1>1, PartsTyped
<1>6. \A i \in 1..Len(s) : Parts(f, s)[i] = Parts(f, t)[i]
  <2> SUFFICES ASSUME NEW i \in 1..Len(s) PROVE Parts(f, s)[i] = Parts(f, t)[i]
    OBVIOUS
  <2>1. i \in 1..Len(t)
    BY <1>1
  <2> QED
    BY <1>1, <1>2, <2>1, PartsAt
<1>7. Parts(f, t)[Len(s) + 1] = f[e]
  <2>1. Len(s) + 1 \in 1..Len(t)
    BY <1>1
  <2> QED
    BY <1>1, <1>3, <2>1, PartsAt
<1>8. PICK n \in Nat, m \in Nat : n = Len(s) /\ m = n + 1
  BY <1>1
<1>9. PICK a \in Seq(Seq(E)), b \in Seq(Seq(E)) : a = Parts(f, s) /\ b = Parts(f, t)
  BY <1>4, <1>5
<1>10. Len(a) = n /\ Len(b) = m /\ (\A i \in 1..n : a[i] = b[i]) /\ b[m] = f[e]
  BY <1>1, <1>4, <1>5, <1>6, <1>7, <1>8, <1>9
<1>11. FlattenSeq(b) = FlattenSeq(a) \o b[m]
  BY ONLY <1>8, <1>10, FlattenNext
<1> QED
  BY <1>9, <1>10, <1>11 DEF t, FlatMap

LEMMA FlatMapOne ==
    ASSUME NEW D, NEW E, NEW f \in Maps(D, E), NEW e \in D
    PROVE  FlatMap(f, <<e>>) = f[e]
<1>1. <<e>> = Append(<<>>, e) /\ <<>> \in Seq(D)
  OBVIOUS
<1>2. FlatMap(f, <<e>>) = <<>> \o f[e]
  BY <1>1, FlatMapNext, FlatMapEmpty
<1> QED
  BY <1>2

LEMMA FlatMapConcat ==
    ASSUME NEW D, NEW E, NEW f \in Maps(D, E), NEW s \in Seq(D), NEW t \in Seq(D)
    PROVE  FlatMap(f, s \o t) = FlatMap(f, s) \o FlatMap(f, t)
<1> DEFINE S == {n \in Nat : \A u \in Seq(D) :
                    Len(u) = n => FlatMap(f, s \o u) = FlatMap(f, s) \o FlatMap(f, u)}
<1>1. 0 \in S
  <2> SUFFICES ASSUME NEW u \in Seq(D), Len(u) = 0
               PROVE  FlatMap(f, s \o u) = FlatMap(f, s) \o FlatMap(f, u)
    OBVIOUS
  <2>1. u = <<>> /\ s \o <<>> = s
    OBVIOUS
  <2>2. FlatMap(f, s) \o <<>> = FlatMap(f, s)
    BY FlatMapTyped, ConcatEmptySeq
  <2> QED
    BY <2>1, <2>2, FlatMapEmpty
<1>2. ASSUME NEW n \in Nat, n \in S PROVE n + 1 \in S
  <2> SUFFICES ASSUME NEW u \in Seq(D), Len(u) = n + 1
               PROVE  FlatMap(f, s \o u) = FlatMap(f, s) \o FlatMap(f, u)
    OBVIOUS
  <2>1. u # <<>>
    BY EmptySeq
  <2>2. PICK v \in Seq(D), e \in D : u = Append(v, e)
    BY <2>1, SequenceEmptyOrAppend
  <2>3. Len(v) = n
    <3>1. Len(u) = Len(v) + 1 /\ Len(v) \in Nat
      BY <2>2, AppendProperties
    <3> QED
      BY <3>1
  <2>4. FlatMap(f, s \o v) = FlatMap(f, s) \o FlatMap(f, v)
    BY <1>2, <2>3
  <2>5. s \o v \in Seq(D) /\ s \o u = Append(s \o v, e)
    BY <2>2
  <2>6. FlatMap(f, s \o u) = (FlatMap(f, s) \o FlatMap(f, v)) \o f[e]
    BY <2>4, <2>5, FlatMapNext
  <2>7. FlatMap(f, u) = FlatMap(f, v) \o f[e]
    BY <2>2, FlatMapNext
  <2>8. FlatMap(f, s) \in Seq(E) /\ FlatMap(f, v) \in Seq(E) /\ f[e] \in Seq(E)
    BY FlatMapTyped, MapsOne
  <2>9. (FlatMap(f, s) \o FlatMap(f, v)) \o f[e] = FlatMap(f, s) \o (FlatMap(f, v) \o f[e])
    <3>1. Cat(Cat(FlatMap(f, s), FlatMap(f, v)), f[e]) = Cat(FlatMap(f, s), Cat(FlatMap(f, v), f[e]))
      BY <2>8, Associates
    <3> QED
      BY <3>1 DEF Cat
  <2> QED
    BY <2>6, <2>7, <2>9
<1>3. \A n \in Nat : n \in S
  <2> HIDE DEF S
  <2> QED
    BY <1>1, <1>2, Induction
<1> QED
  BY <1>3

LEMMA FlatMapCat ==
    \A D, E : \A f \in Maps(D, E), s, t \in Seq(D) :
        FlatMap(f, Cat(s, t)) = Cat(FlatMap(f, s), FlatMap(f, t))
BY FlatMapConcat DEF Cat

\* One function after another is one function.
LEMMA FlatMapTwice ==
    ASSUME NEW D, NEW E, NEW F, NEW f \in Maps(D, E), NEW g \in Maps(E, F),
           NEW h \in Maps(D, F), \A x \in D : h[x] = FlatMap(g, f[x]),
           NEW s \in Seq(D)
    PROVE  FlatMap(g, FlatMap(f, s)) = FlatMap(h, s)
<1>0. \A x, y \in Seq(E) : FlatMap(g, x \o y) = FlatMap(g, x) \o FlatMap(g, y)
  BY ONLY g \in Maps(E, F), FlatMapConcat
<1> DEFINE S == {n \in Nat : \A u \in Seq(D) :
                    Len(u) = n => FlatMap(g, FlatMap(f, u)) = FlatMap(h, u)}
<1>1. 0 \in S
  <2> SUFFICES ASSUME NEW u \in Seq(D), Len(u) = 0
               PROVE  FlatMap(g, FlatMap(f, u)) = FlatMap(h, u)
    OBVIOUS
  <2>1. u = <<>>
    OBVIOUS
  <2> QED
    BY <2>1, FlatMapEmpty
<1>2. ASSUME NEW n \in Nat, n \in S PROVE n + 1 \in S
  <2> SUFFICES ASSUME NEW u \in Seq(D), Len(u) = n + 1
               PROVE  FlatMap(g, FlatMap(f, u)) = FlatMap(h, u)
    OBVIOUS
  <2>1. u # <<>>
    BY EmptySeq
  <2>2. PICK v \in Seq(D), e \in D : u = Append(v, e)
    BY <2>1, SequenceEmptyOrAppend
  <2>3. Len(v) = n
    <3>1. Len(u) = Len(v) + 1 /\ Len(v) \in Nat
      BY <2>2, AppendProperties
    <3> QED
      BY <3>1
  <2>4. FlatMap(g, FlatMap(f, v)) = FlatMap(h, v)
    BY <1>2, <2>3
  <2>5. FlatMap(f, u) = FlatMap(f, v) \o f[e] /\ FlatMap(h, u) = FlatMap(h, v) \o h[e]
    BY <2>2, FlatMapNext
  <2>6. FlatMap(f, v) \in Seq(E) /\ f[e] \in Seq(E)
    BY FlatMapTyped, MapsOne
  <2>7. FlatMap(g, FlatMap(f, v) \o f[e]) = FlatMap(g, FlatMap(f, v)) \o FlatMap(g, f[e])
    BY ONLY <1>0, <2>6
  <2> QED
    BY <2>4, <2>5, <2>7
<1>3. \A n \in Nat : n \in S
  <2> HIDE DEF S
  <2> QED
    BY <1>1, <1>2, Induction
<1> QED
  BY <1>3

\* A function that keeps every element keeps the sequence.
LEMMA FlatMapAll ==
    ASSUME NEW D, NEW E, NEW f \in Maps(D, E), NEW C \in SUBSET D,
           \A x \in C : f[x] = <<x>>, NEW s \in Seq(C)
    PROVE  FlatMap(f, s) = s
<1> DEFINE S == {n \in Nat : \A u \in Seq(C) : Len(u) = n => FlatMap(f, u) = u}
<1>1. 0 \in S
  <2> SUFFICES ASSUME NEW u \in Seq(C), Len(u) = 0 PROVE FlatMap(f, u) = u
    OBVIOUS
  <2>1. u = <<>>
    OBVIOUS
  <2> QED
    BY <2>1, FlatMapEmpty
<1>2. ASSUME NEW n \in Nat, n \in S PROVE n + 1 \in S
  <2> SUFFICES ASSUME NEW u \in Seq(C), Len(u) = n + 1 PROVE FlatMap(f, u) = u
    OBVIOUS
  <2>1. u # <<>>
    BY EmptySeq
  <2>2. PICK v \in Seq(C), e \in C : u = Append(v, e)
    BY <2>1, SequenceEmptyOrAppend
  <2>3. Len(v) = n
    <3>1. Len(u) = Len(v) + 1 /\ Len(v) \in Nat
      BY <2>2, AppendProperties
    <3> QED
      BY <3>1
  <2>4. FlatMap(f, v) = v
    BY <1>2, <2>3
  <2>5. f[e] = <<e>>
    OBVIOUS
  <2>6. v \in Seq(D) /\ e \in D
    OBVIOUS
  <2>7. FlatMap(f, u) = v \o <<e>>
    <3>1. FlatMap(f, Append(v, e)) = FlatMap(f, v) \o f[e]
      BY <2>6, FlatMapNext
    <3> QED
      BY <2>2, <2>4, <2>5, <3>1
  <2>8. u = v \o <<e>>
    BY ONLY <2>2, AppendedIsConcat
  <2> QED
    BY ONLY <2>7, <2>8
<1>3. \A n \in Nat : n \in S
  <2> HIDE DEF S
  <2> QED
    BY <1>1, <1>2, Induction
<1>4. Len(s) \in Nat
  OBVIOUS
<1> QED
  BY <1>3, <1>4

One(x) == <<x>>

\* A function that makes one element of each is read off element by element.
LEMMA FlatMapEach ==
    ASSUME NEW D, NEW E, NEW f \in Maps(D, E), NEW s \in Seq(D), NEW t \in Seq(E),
           Len(t) = Len(s), \A i \in 1..Len(s) : f[s[i]] = One(t[i])
    PROVE  t = FlatMap(f, s)
<1> DEFINE S == {n \in Nat : \A u \in Seq(D), w \in Seq(E) :
                    Len(u) = n /\ Len(w) = n /\ (\A i \in 1..n : f[u[i]] = One(w[i]))
                        => w = FlatMap(f, u)}
<1>1. 0 \in S
  <2> SUFFICES ASSUME NEW u \in Seq(D), NEW w \in Seq(E), Len(u) = 0, Len(w) = 0
               PROVE  w = FlatMap(f, u)
    OBVIOUS
  <2>1. u = <<>> /\ w = <<>>
    OBVIOUS
  <2> QED
    BY <2>1, FlatMapEmpty
<1>2. ASSUME NEW n \in Nat, n \in S PROVE n + 1 \in S
  <2> SUFFICES ASSUME NEW u \in Seq(D), NEW w \in Seq(E), Len(u) = n + 1, Len(w) = n + 1,
                      \A i \in 1..n + 1 : f[u[i]] = One(w[i])
               PROVE  w = FlatMap(f, u)
    OBVIOUS
  <2>1. u # <<>>
    BY EmptySeq
  <2>2. PICK v \in Seq(D), e \in D : u = Append(v, e)
    BY ONLY <2>1, SequenceEmptyOrAppend
  <2>3. w # <<>>
    BY EmptySeq
  <2>4. PICK x \in Seq(E), y \in E : w = Append(x, y)
    BY ONLY <2>3, SequenceEmptyOrAppend
  <2>5. /\ Len(v) = n /\ u[n + 1] = e /\ (\A i \in 1..n : u[i] = v[i])
        /\ Len(x) = n /\ w[n + 1] = y /\ (\A i \in 1..n : w[i] = x[i])
    <3>1. Len(u) = Len(v) + 1 /\ Len(v) \in Nat /\ Len(w) = Len(x) + 1 /\ Len(x) \in Nat
      BY <2>2, <2>4, AppendProperties
    <3>2. Len(v) = n /\ Len(x) = n
      BY <3>1
    <3> QED
      BY <2>2, <2>4, <3>2, AppendProperties
  <2>6. \A i \in 1..n : i \in 1..n + 1 /\ f[v[i]] = One(x[i])
    BY <2>5
  <2>7. x = FlatMap(f, v)
    BY <1>2, <2>5, <2>6
  <2>8. f[e] = <<y>>
    BY <2>5 DEF One
  <2>9. FlatMap(f, Append(v, e)) = FlatMap(f, v) \o f[e]
    BY FlatMapNext
  <2> QED
    BY <2>2, <2>4, <2>7, <2>8, <2>9, AppendIsConcat
<1>3. \A n \in Nat : n \in S
  <2> HIDE DEF S
  <2> QED
    BY <1>1, <1>2, Induction
<1>4. Len(s) \in Nat
  OBVIOUS
<1> QED
  BY <1>3, <1>4

LEMMA FlatMapNone ==
    ASSUME NEW D, NEW E, NEW f \in Maps(D, E), \A x \in D : f[x] = <<>>, NEW s \in Seq(D)
    PROVE  FlatMap(f, s) = <<>>
<1> DEFINE S == {n \in Nat : \A u \in Seq(D) : Len(u) = n => FlatMap(f, u) = <<>>}
<1>1. 0 \in S
  <2> SUFFICES ASSUME NEW u \in Seq(D), Len(u) = 0 PROVE FlatMap(f, u) = <<>>
    OBVIOUS
  <2>1. u = <<>>
    OBVIOUS
  <2> QED
    BY <2>1, FlatMapEmpty
<1>2. ASSUME NEW n \in Nat, n \in S PROVE n + 1 \in S
  <2> SUFFICES ASSUME NEW u \in Seq(D), Len(u) = n + 1 PROVE FlatMap(f, u) = <<>>
    OBVIOUS
  <2>1. u # <<>>
    BY EmptySeq
  <2>2. PICK v \in Seq(D), e \in D : u = Append(v, e)
    BY <2>1, SequenceEmptyOrAppend
  <2>3. Len(v) = n
    <3>1. Len(u) = Len(v) + 1 /\ Len(v) \in Nat
      BY <2>2, AppendProperties
    <3> QED
      BY <3>1
  <2>4. FlatMap(f, v) = <<>> /\ f[e] = <<>> /\ <<>> \o <<>> = <<>>
    BY <1>2, <2>3
  <2> QED
    BY <2>2, <2>4, FlatMapNext
<1>3. \A n \in Nat : n \in S
  <2> HIDE DEF S
  <2> QED
    BY <1>1, <1>2, Induction
<1>4. Len(s) \in Nat
  OBVIOUS
<1> QED
  BY <1>3, <1>4

\* Functions that differ only where one makes an element of Bad, on a sequence of
\* which it makes none.
LEMMA FlatMapUnless ==
    ASSUME NEW D, NEW E, NEW f \in Maps(D, E), NEW g \in Maps(D, E), NEW Bad,
           \A x \in D : f[x] = g[x] \/ \E k \in 1..Len(f[x]) : f[x][k] \in Bad,
           NEW s \in Seq(D), \A k \in 1..Len(FlatMap(f, s)) : FlatMap(f, s)[k] \notin Bad
    PROVE  FlatMap(f, s) = FlatMap(g, s)
<1> DEFINE Good(q) == \A k \in 1..Len(q) : q[k] \notin Bad
           S == {n \in Nat : \A u \in Seq(D) :
                    Len(u) = n /\ Good(FlatMap(f, u)) => FlatMap(f, u) = FlatMap(g, u)}
<1>0. \A x, y \in Seq(E) : Good(x \o y) => Good(x) /\ Good(y)
  <2> SUFFICES ASSUME NEW x \in Seq(E), NEW y \in Seq(E), Good(x \o y)
               PROVE  Good(x) /\ Good(y)
    OBVIOUS
  <2>1. \A k \in 1..Len(x) : k \in 1..Len(x \o y) /\ (x \o y)[k] = x[k]
    OBVIOUS
  <2>2. \A k \in 1..Len(y) : Len(x) + k \in 1..Len(x \o y) /\ (x \o y)[Len(x) + k] = y[k]
    OBVIOUS
  <2> QED
    BY <2>1, <2>2
<1>1. 0 \in S
  <2> SUFFICES ASSUME NEW u \in Seq(D), Len(u) = 0 PROVE FlatMap(f, u) = FlatMap(g, u)
    OBVIOUS
  <2>1. u = <<>>
    OBVIOUS
  <2> QED
    BY <2>1, FlatMapEmpty
<1>2. ASSUME NEW n \in Nat, n \in S PROVE n + 1 \in S
  <2> SUFFICES ASSUME NEW u \in Seq(D), Len(u) = n + 1, Good(FlatMap(f, u))
               PROVE  FlatMap(f, u) = FlatMap(g, u)
    OBVIOUS
  <2>1. u # <<>>
    BY EmptySeq
  <2>2. PICK v \in Seq(D), e \in D : u = Append(v, e)
    BY <2>1, SequenceEmptyOrAppend
  <2>3. Len(v) = n
    <3>1. Len(u) = Len(v) + 1 /\ Len(v) \in Nat
      BY <2>2, AppendProperties
    <3> QED
      BY <3>1
  <2>4. FlatMap(f, u) = FlatMap(f, v) \o f[e] /\ FlatMap(g, u) = FlatMap(g, v) \o g[e]
    BY <2>2, FlatMapNext
  <2>5. FlatMap(f, v) \in Seq(E) /\ f[e] \in Seq(E)
    BY FlatMapTyped, MapsOne
  <2> HIDE DEF Good
  <2>6. Good(FlatMap(f, v)) /\ Good(f[e])
    BY <1>0, <2>4, <2>5
  <2>7. FlatMap(f, v) = FlatMap(g, v)
    BY <1>2, <2>3, <2>6
  <2>8. f[e] = g[e]
    BY <2>6 DEF Good
  <2> QED
    BY <2>4, <2>7, <2>8
<1>3. \A n \in Nat : n \in S
  <2> HIDE DEF S
  <2> QED
    BY <1>1, <1>2, Induction
<1>4. Len(s) \in Nat
  OBVIOUS
<1> QED
  BY <1>3, <1>4

LEMMA FlatMapAgree ==
    \A D, E : \A f, g \in Maps(D, E), s \in Seq(D) :
        (\A x \in D : f[x] = g[x]) => FlatMap(f, s) = FlatMap(g, s)
<1> SUFFICES ASSUME NEW D, NEW E, NEW f \in Maps(D, E), NEW g \in Maps(D, E), NEW s \in Seq(D),
                    \A x \in D : f[x] = g[x]
             PROVE  FlatMap(f, s) = FlatMap(g, s)
  OBVIOUS
<1>1. \A i \in DOMAIN s : f[s[i]] = g[s[i]]
  OBVIOUS
<1>2. Parts(f, s) = Parts(g, s)
  BY <1>1 DEF Parts
<1> QED
  BY <1>2 DEF FlatMap

LEMMA FlatMapSame ==
    ASSUME NEW D, NEW E, NEW f \in Maps(D, E), NEW g \in Maps(D, E),
           NEW s \in Seq(D), NEW t \in Seq(D), Len(s) = Len(t),
           \A i \in 1..Len(s) : f[s[i]] = g[t[i]]
    PROVE  FlatMap(f, s) = FlatMap(g, t)
<1>1. DOMAIN s = 1..Len(s) /\ DOMAIN t = 1..Len(s)
  OBVIOUS
<1>2. Parts(f, s) = Parts(g, t)
  BY <1>1 DEF Parts
<1> QED
  BY <1>2 DEF FlatMap

LEMMA SubSeqOfAppend ==
    ASSUME NEW S, NEW s \in Seq(S), NEW e \in S, NEW j \in 1..Len(s)
    PROVE  SubSeq(Append(s, e), 1, j) = SubSeq(s, 1, j)
OBVIOUS

LEMMA FrontAndLast ==
    ASSUME NEW S, NEW s \in Seq(S), NEW n \in Nat, Len(s) = n + 1
    PROVE  /\ Front(s) \in Seq(S) /\ Front(s) = SubSeq(s, 1, n) /\ Len(Front(s)) = n
           /\ s[n + 1] \in S /\ s = Append(Front(s), s[n + 1])
           /\ n # 0 => Front(s) # <<>> /\ Front(s)[1] = s[1]
<1>1. Front(s) = SubSeq(s, 1, n)
  BY DEF Front
<1>2. /\ SubSeq(s, 1, n) \in Seq(S) /\ Len(SubSeq(s, 1, n)) = n /\ s[n + 1] \in S
      /\ \A i \in 1..n : SubSeq(s, 1, n)[i] = s[i]
  OBVIOUS
<1>3. PICK f \in Seq(S), e \in S : f = SubSeq(s, 1, n) /\ e = s[n + 1]
  BY <1>2
<1>4. Len(f) = n /\ \A i \in 1..n : f[i] = s[i]
  BY <1>2, <1>3
<1>5. /\ Append(f, e) \in Seq(S) /\ Len(Append(f, e)) = n + 1 /\ Append(f, e)[n + 1] = e
      /\ \A i \in 1..n : Append(f, e)[i] = f[i]
  BY <1>4, AppendProperties
<1>6. \A i \in 1..n + 1 : s[i] = Append(f, e)[i]
  <2> SUFFICES ASSUME NEW i \in 1..n + 1 PROVE s[i] = Append(f, e)[i]
    OBVIOUS
  <2>1. i \in 1..n \/ i = n + 1
    OBVIOUS
  <2> QED
    BY <1>3, <1>4, <1>5, <2>1
<1>7. s = Append(f, e)
  BY <1>5, <1>6, SeqEqual
<1>8. n # 0 => f # <<>> /\ f[1] = s[1]
  BY <1>4
<1> QED
  BY <1>1, <1>2, <1>3, <1>4, <1>7, <1>8

LEMMA LastAlone ==
    ASSUME NEW S, NEW s \in Seq(S), NEW n \in Nat, Len(s) = n, n # 0
    PROVE  SubSeq(s, n, n) = <<s[n]>>
<1>1. PICK a \in Seq(S), b \in Seq(S) : a = SubSeq(s, n, n) /\ b = <<s[n]>>
  <2>1. SubSeq(s, n, n) \in Seq(S) /\ <<s[n]>> \in Seq(S)
    OBVIOUS
  <2> QED
    BY <2>1
<1>2. Len(a) = 1 /\ a[1] = s[n] /\ Len(b) = 1 /\ b[1] = s[n]
  BY <1>1
<1>3. a = b
  BY <1>2, SeqEqual
<1> QED
  BY <1>1, <1>3

-----------------------------------------------------------------------------
(* Sessions                                                                *)

IsSeq(s) == \E S : s \in Seq(S)

\* The shape of the record, and its references into the upstream conversation.
RecordTyped ==
    session # NoSession =>
        /\ \E T : session \in [state : {"Committed", "Uncertain", "Tombstoned"},
                               system : Systems, turns : Seq(T)]
        /\ nodes # <<>> /\ \A i \in DOMAIN nodes : nodes[i].asked = session.system
        /\ \A i \in DOMAIN session.turns : session.turns[i].node \in 1..Len(nodes)

\* The inductive invariant of the first two theorems.
Inv == IsSeq(nodes) /\ RecordTyped /\ AnsweredAsAsked /\ RecordIsPath

-----------------------------------------------------------------------------
(* The messages of users in a timeline                                     *)

Digests == Users \cup Assistants
UserDigests == [m \in Digests |-> UserIn(m)]

LEMMA UserDigestsMap == UserDigests \in Maps(Digests, Users)
<1>1. \A m \in Digests : UserIn(m) \in Seq(Users)
  BY DEF UserIn
<1> QED
  BY <1>1 DEF UserDigests, Maps

LEMMA UsersOfIsMap ==
    ASSUME NEW s \in Seq(Digests)
    PROVE  UsersOf(s) = FlatMap(UserDigests, s)
<1>1. \A i \in DOMAIN s : s[i] \in Digests
  OBVIOUS
<1>2. [i \in DOMAIN s |-> UserIn(s[i])] = Parts(UserDigests, s)
  BY <1>1 DEF Parts, UserDigests
<1> QED
  BY <1>2 DEF UsersOf, FlatMap

LEMMA UsersOfTyped ==
    ASSUME NEW s \in Seq(Digests)
    PROVE  UsersOf(s) \in Seq(Users)
BY UsersOfIsMap, UserDigestsMap, FlatMapTyped

LEMMA UsersOfConcat ==
    ASSUME NEW s \in Seq(Digests), NEW t \in Seq(Digests)
    PROVE  UsersOf(s \o t) = UsersOf(s) \o UsersOf(t)
<1>1. s \o t \in Seq(Digests)
  OBVIOUS
<1>2. FlatMap(UserDigests, s \o t) = FlatMap(UserDigests, s) \o FlatMap(UserDigests, t)
  BY UserDigestsMap, FlatMapConcat
<1> QED
  BY <1>1, <1>2, UsersOfIsMap

LEMMA UsersOfUsers ==
    ASSUME NEW s \in Seq(Users)
    PROVE  s \in Seq(Digests) /\ UsersOf(s) = s
<1>1. s \in Seq(Digests) /\ Users \in SUBSET Digests
  BY DEF Digests
<1>2. \A m \in Users : UserDigests[m] = <<m>>
  BY <1>1 DEF UserDigests, UserIn
<1>3. FlatMap(UserDigests, s) = s
  BY <1>1, <1>2, UserDigestsMap, FlatMapAll
<1> QED
  BY <1>1, <1>3, UsersOfIsMap

LEMMA UsersOfAnswer ==
    ASSUME NEW a \in Answers
    PROVE  AnswerIn(a) \in Seq(Digests) /\ UsersOf(AnswerIn(a)) = <<>>
<1>1. CASE a = NoText
  <2>1. AnswerIn(a) = <<>> /\ <<>> \in Seq(Digests)
    BY <1>1 DEF AnswerIn
  <2> QED
    BY <2>1, UsersOfIsMap, FlatMapEmpty
<1>2. CASE a # NoText
  <2>1. AnswerIn(a) = <<a>> /\ a \in Digests /\ a \notin Users
    BY <1>2, RolesDiffer DEF AnswerIn, Digests
  <2>2. <<a>> \in Seq(Digests)
    BY <2>1
  <2>3. UserDigests[a] = <<>>
    BY <2>1 DEF UserDigests, UserIn
  <2>4. FlatMap(UserDigests, <<a>>) = UserDigests[a]
    BY <2>1, UserDigestsMap, FlatMapOne
  <2> QED
    BY <2>1, <2>2, <2>3, <2>4, UsersOfIsMap
<1> QED
  BY <1>1, <1>2

LEMMA RequestsAreTimelines ==
    ASSUME NEW r \in Requests
    PROVE  r \in Seq(Digests) /\ r # <<>>
<1>1. PICK k \in 1..MaxLength : r \in [1..k -> Digests]
  BY DEF Requests, Timelines, Digests
<1>2. k \in Nat /\ k # 0
  BY <1>1
<1>3. r \in Seq(Digests) /\ Len(r) = k
  BY <1>1, <1>2
<1> QED
  BY <1>2, <1>3

-----------------------------------------------------------------------------
(* The messages of users up to a turn                                      *)

AnyTurn == [parent : Nat, users : Seq(Users), parentTimeline : Seq(Digests),
            request : Seq(Digests), node : Nat, answer : Answers]
TurnUsers == [t \in AnyTurn |-> t.users]
UsersTo(ts, i) == FlatMap(TurnUsers, SubSeq(ts, 1, i))

LEMMA TurnUsersMap == TurnUsers \in Maps(AnyTurn, Users)
BY DEF TurnUsers, AnyTurn, Maps

LEMMA UsersToTyped ==
    ASSUME NEW ts \in Seq(AnyTurn), NEW i \in 0..Len(ts)
    PROVE  UsersTo(ts, i) \in Seq(Users)
<1>1. SubSeq(ts, 1, i) \in Seq(AnyTurn)
  OBVIOUS
<1> QED
  BY <1>1, TurnUsersMap, FlatMapTyped DEF UsersTo

LEMMA UsersToNone ==
    ASSUME NEW ts \in Seq(AnyTurn)
    PROVE  UsersTo(ts, 0) = <<>>
<1>1. SubSeq(ts, 1, 0) = <<>>
  OBVIOUS
<1> QED
  BY <1>1, FlatMapEmpty DEF UsersTo

LEMMA UsersToNext ==
    ASSUME NEW ts \in Seq(AnyTurn), NEW i \in 1..Len(ts)
    PROVE  UsersTo(ts, i) = UsersTo(ts, i - 1) \o ts[i].users
<1>1. /\ SubSeq(ts, 1, i - 1) \in Seq(AnyTurn) /\ ts[i] \in AnyTurn
      /\ SubSeq(ts, 1, i) = Append(SubSeq(ts, 1, i - 1), ts[i])
  OBVIOUS
<1>2. PICK s \in Seq(AnyTurn), t \in AnyTurn : s = SubSeq(ts, 1, i - 1) /\ t = ts[i]
  BY <1>1
<1>3. FlatMap(TurnUsers, Append(s, t)) = FlatMap(TurnUsers, s) \o TurnUsers[t]
  BY TurnUsersMap, FlatMapNext
<1>4. TurnUsers[t] = t.users
  BY DEF TurnUsers
<1> QED
  BY <1>1, <1>2, <1>3, <1>4 DEF UsersTo

\* Turns that begin alike.
LEMMA UsersToSame ==
    ASSUME NEW ts \in Seq(AnyTurn), NEW us \in Seq(AnyTurn),
           NEW i \in Nat, i <= Len(ts), i <= Len(us), \A j \in 1..i : ts[j] = us[j]
    PROVE  UsersTo(ts, i) = UsersTo(us, i)
<1>1. SubSeq(ts, 1, i) = SubSeq(us, 1, i)
  OBVIOUS
<1> QED
  BY <1>1 DEF UsersTo

LEMMA BeforeIsLength ==
    ASSUME NEW ts \in Seq(AnyTurn), NEW i \in 1..Len(ts) + 1
    PROVE  Before(ts, i) = Len(UsersTo(ts, i - 1))
<1> DEFINE s == SubSeq(ts, 1, i - 1)
<1>1. s \in Seq(AnyTurn) /\ DOMAIN s = 1..i - 1 /\ \A j \in 1..i - 1 : s[j] = ts[j] /\ s[j] \in AnyTurn
  OBVIOUS
<1> HIDE DEF s
<1>2. \A j \in 1..i - 1 : TurnUsers[s[j]] = ts[j].users
  BY <1>1 DEF TurnUsers
<1>3. Parts(TurnUsers, s) = [j \in 1..i - 1 |-> ts[j].users]
  BY <1>1, <1>2 DEF Parts
<1> QED
  BY <1>3 DEF Before, UsersTo, FlatMap, s

LEMMA CommittedIsAll ==
    ASSUME NEW ts \in Seq(AnyTurn)
    PROVE  Committed(ts) = UsersTo(ts, Len(ts))
<1>1. SubSeq(ts, 1, Len(ts)) = ts /\ \A i \in DOMAIN ts : ts[i] \in AnyTurn
  OBVIOUS
<1>2. Parts(TurnUsers, ts) = [i \in DOMAIN ts |-> ts[i].users]
  BY <1>1 DEF Parts, TurnUsers
<1> QED
  BY <1>1, <1>2 DEF Committed, UsersTo, FlatMap

\* The messages up to a turn begin with the messages up to an earlier turn.
LEMMA UsersToGrows ==
    ASSUME NEW ts \in Seq(AnyTurn), NEW i \in 0..Len(ts), NEW j \in i..Len(ts)
    PROVE  \E rest \in Seq(Users) : UsersTo(ts, j) = UsersTo(ts, i) \o rest
<1> DEFINE S == {k \in Nat : i + k <= Len(ts) =>
                    \E rest \in Seq(Users) : UsersTo(ts, i + k) = UsersTo(ts, i) \o rest}
<1>0. Len(ts) \in Nat /\ UsersTo(ts, i) \in Seq(Users)
  BY UsersToTyped
<1>1. 0 \in S
  <2>1. i + 0 = i /\ <<>> \in Seq(Users)
    OBVIOUS
  <2>2. UsersTo(ts, i) = UsersTo(ts, i) \o <<>>
    BY <1>0
  <2> QED
    BY <2>1, <2>2
<1>2. ASSUME NEW k \in Nat, k \in S PROVE k + 1 \in S
  <2> SUFFICES ASSUME i + (k + 1) <= Len(ts)
               PROVE  \E rest \in Seq(Users) : UsersTo(ts, i + (k + 1)) = UsersTo(ts, i) \o rest
    OBVIOUS
  <2>0. i + k <= Len(ts)
    BY <1>0
  <2>1. PICK rest \in Seq(Users) : UsersTo(ts, i + k) = UsersTo(ts, i) \o rest
    BY <1>2, <2>0
  <2>2. PICK n \in 1..Len(ts) : n = i + (k + 1) /\ n - 1 = i + k
    BY <1>0
  <2>3. UsersTo(ts, n) = UsersTo(ts, n - 1) \o ts[n].users
    BY UsersToNext
  <2>4. PICK a \in Seq(Users), b \in Seq(Users) : a = UsersTo(ts, i) /\ b = ts[n].users
    <3>1. ts[n] \in AnyTurn
      OBVIOUS
    <3>2. ts[n].users \in Seq(Users)
      BY ONLY <3>1 DEF AnyTurn
    <3> QED
      BY <1>0, <3>2
  <2>5. (a \o rest) \o b = a \o (rest \o b) /\ rest \o b \in Seq(Users)
    <3>1. Cat(Cat(a, rest), b) = Cat(a, Cat(rest, b))
      BY Associates
    <3>2. rest \o b \in Seq(Users)
      OBVIOUS
    <3> QED
      BY ONLY <3>1, <3>2 DEF Cat
  <2> QED
    BY <2>1, <2>2, <2>3, <2>4, <2>5
<1> HIDE DEF S
<1>3. \A k \in Nat : k \in S
  BY <1>1, <1>2, Induction
<1>4. j - i \in Nat /\ i + (j - i) = j /\ j <= Len(ts)
  BY <1>0
<1> QED
  BY <1>3, <1>4 DEF S

-----------------------------------------------------------------------------
(* The operators of plan                                                   *)

\* plan_turns points at a turn to be replaced, or one past the last to append.
LEMMA PlanPointsIntoTurns ==
    ASSUME NEW turns, IsSeq(turns), NEW users, PlanTurns(turns, users) # Refused
    PROVE  LET p == PlanTurns(turns, users)
           IN  /\ Len(turns) \in Nat /\ turns # <<>>
               /\ \/ p.kind = "append" /\ p.from = Len(turns) + 1
                  \/ p.kind # "append" /\ p.from \in 1..Len(turns)
<1>1. Len(turns) \in Nat /\ DOMAIN turns = 1..Len(turns) /\ turns # <<>>
  BY DEF IsSeq, PlanTurns
<1>2. Len(turns) \in 1..Len(turns)
  BY <1>1 DEF IsSeq
<1>3. CASE PlanTurns(turns, users) = Fork(turns, users)
  <2>1. \E i \in DOMAIN turns \ {1} : ForksAt(turns, users, i)
    BY <1>3 DEF Fork
  <2>2. PlanTurns(turns, users) =
            [kind |-> "fork",
             from |-> CHOOSE i \in DOMAIN turns \ {1} : ForksAt(turns, users, i)]
    BY <1>3, <2>1 DEF Fork
  <2>3. (CHOOSE i \in DOMAIN turns \ {1} : ForksAt(turns, users, i)) \in DOMAIN turns
    BY <2>1
  <2> QED BY <1>1, <2>2, <2>3
<1>4. CASE PlanTurns(turns, users) = [kind |-> "regenerate", from |-> Len(turns)]
  BY <1>1, <1>2, <1>4
<1>5. CASE PlanTurns(turns, users) = [kind |-> "append", from |-> Len(turns) + 1]
  BY <1>1, <1>5
<1> QED BY <1>3, <1>4, <1>5 DEF PlanTurns

\* What is planned for a request has a place, and the request is the messages up
\* to it and the ones that will be sent.
LEMMA PlannedIsValid ==
    ASSUME NEW system, NEW request, IsSeq(session.turns),
           Plan(session, system, request) # Refused
    PROVE  LET p == Plan(session, system, request)
               turns == session.turns
           IN  /\ session.state = "Committed" /\ session.system = system
               /\ Len(turns) \in Nat /\ turns # <<>>
               /\ \/ p.kind = "append" /\ p.from = Len(turns) + 1
                  \/ p.kind # "append" /\ p.from \in 1..Len(turns)
               /\ request = ParentTimeline(turns, p) \o Suffix(turns, p, UsersOf(request))
<1> DEFINE p == PlanTurns(session.turns, UsersOf(request))
<1>1. /\ session.state = "Committed" /\ session.system = system /\ p # Refused
      /\ Valid(session.turns, p, request) /\ Plan(session, system, request) = p
  BY DEF Plan
<1>2. request = ParentTimeline(session.turns, p) \o Suffix(session.turns, p, UsersOf(request))
  BY <1>1 DEF Valid
<1> QED BY <1>1, <1>2, PlanPointsIntoTurns

\* Replacing a turn keeps the turns before it and drops the ones after it.
LEMMA TurnsAfterIt ==
    ASSUME NEW T, NEW turns \in Seq(T), NEW t, NEW from \in 1..Len(turns) + 1
    PROVE  WithTurn(turns, from, t) \in Seq(T \cup {t})
<1> DEFINE kept == SubSeq(turns, 1, from - 1)
<1>1. kept \in Seq(T) /\ kept \in Seq(T \cup {t})
  OBVIOUS
<1> HIDE DEF kept
<1>2. Append(kept, t) \in Seq(T \cup {t})
  BY <1>1
<1> QED BY <1>2 DEF WithTurn, kept

\* It ends with the new turn and has the turns before it as they were.
LEMMA TurnsOfAnyType ==
    ASSUME NEW turns, IsSeq(turns), NEW t, NEW from \in 1..Len(turns) + 1
    PROVE  /\ Len(WithTurn(turns, from, t)) = from
           /\ WithTurn(turns, from, t)[from] = t
           /\ \A i \in 1..from - 1 : WithTurn(turns, from, t)[i] = turns[i]
<1> DEFINE kept == SubSeq(turns, 1, from - 1)
<1> PICK T : turns \in Seq(T)
  BY DEF IsSeq
<1>1. /\ kept \in Seq(T) /\ Len(kept) = from - 1
      /\ \A i \in 1..from - 1 : kept[i] = turns[i]
  OBVIOUS
<1>2. kept \in Seq(T \cup {t})
  BY <1>1
<1> HIDE DEF kept
<1>3. /\ Len(Append(kept, t)) = from /\ Append(kept, t)[from] = t
      /\ \A i \in 1..from - 1 : Append(kept, t)[i] = kept[i]
  BY <1>1, <1>2
<1> QED BY <1>1, <1>3 DEF WithTurn, kept

-----------------------------------------------------------------------------
(* Steps                                                                   *)

LEMMA InitInv == Init => Inv
<1> SUFFICES ASSUME Init PROVE Inv
  OBVIOUS
<1>1. nodes \in Seq({}) /\ DOMAIN nodes = {}
  BY DEF Init
<1> QED BY <1>1 DEF Init, Inv, IsSeq, RecordTyped, AnsweredAsAsked, RecordIsPath

\* What is upstream stays as it is when an answer is added.
LEMMA PathsStay ==
    ASSUME NEW n, IsSeq(nodes), nodes' = Append(nodes, n)
    PROVE  /\ IsSeq(nodes') /\ Len(nodes) \in Nat /\ Len(nodes') = Len(nodes) + 1
           /\ nodes'[Len(nodes) + 1] = n
           /\ \A i \in 1..Len(nodes) : nodes'[i] = nodes[i]
           /\ \A i \in 0..Len(nodes) : PathOf(nodes', i) = PathOf(nodes, i)
<1> PICK N : nodes \in Seq(N)
  BY DEF IsSeq
<1>1. nodes \in Seq(N \cup {n})
  OBVIOUS
<1>2. nodes' \in Seq(N \cup {n}) /\ Len(nodes) \in Nat /\ Len(nodes') = Len(nodes) + 1
  BY <1>1
<1>3. nodes'[Len(nodes) + 1] = n /\ \A i \in 1..Len(nodes) : nodes'[i] = nodes[i]
  BY <1>1
<1>4. ASSUME NEW i \in 0..Len(nodes) PROVE PathOf(nodes', i) = PathOf(nodes, i)
  <2>1. CASE i = 0
    BY <2>1 DEF PathOf
  <2>2. CASE i # 0
    <3>1. i \in 1..Len(nodes)
      BY <1>2, <2>2
    <3> QED BY <1>3, <2>2, <3>1 DEF PathOf
  <2> QED BY <2>1, <2>2
<1> QED BY <1>2, <1>3, <1>4 DEF IsSeq

LEMMA CreateInv ==
    ASSUME NEW request, NEW system \in Systems, Create(request, system)
    PROVE  Inv'
<1> PICK a \in Answers :
        /\ nodes' = <<Node(request, 1, system, request, system, a)>>
        /\ session' = [state |-> "Committed", system |-> system,
                       turns |-> <<Turn(0, UsersOf(request), <<>>, request, 1, a)>>]
  BY DEF Create
<1> DEFINE n == Node(request, 1, system, request, system, a)
           t == Turn(0, UsersOf(request), <<>>, request, 1, a)
<1>1. /\ n.after = request /\ n.request = request /\ n.answer = a
      /\ n.system = system /\ n.asked = system
      /\ t.parent = 0 /\ t.node = 1 /\ t.parentTimeline = <<>> /\ t.request = request /\ t.answer = a
  BY DEF Node, Turn
<1> HIDE DEF n, t
<1>2. nodes' = <<n>> /\ session' = [state |-> "Committed", system |-> system, turns |-> <<t>>]
  BY DEF n, t
<1>3. /\ nodes' \in Seq({n}) /\ Len(nodes') = 1 /\ nodes'[1] = n /\ nodes' # <<>>
      /\ DOMAIN nodes' = {1}
  BY <1>2
<1>4. /\ session'.turns \in Seq({t}) /\ session'.turns[1] = t /\ DOMAIN session'.turns = {1}
      /\ session' \in [state : {"Committed", "Uncertain", "Tombstoned"},
                        system : Systems, turns : Seq({t})]
      /\ session'.system = system
  BY <1>2
<1>5. PathOf(nodes', 0) = <<>>
  BY DEF PathOf
<1>6. RecordTyped'
  <2>1. \E T : session' \in [state : {"Committed", "Uncertain", "Tombstoned"},
                            system : Systems, turns : Seq(T)]
    BY <1>4
  <2>2. nodes' # <<>> /\ \A i \in DOMAIN nodes' : nodes'[i].asked = session'.system
    BY <1>1, <1>3, <1>4
  <2>3. \A i \in DOMAIN session'.turns : session'.turns[i].node \in 1..Len(nodes')
    BY <1>1, <1>3, <1>4
  <2> QED BY <2>1, <2>2, <2>3 DEF RecordTyped
<1>7. AnsweredAsAsked'
  BY <1>1, <1>3 DEF AnsweredAsAsked
<1>8. RecordIsPath'
  BY <1>1, <1>3, <1>4, <1>5 DEF RecordIsPath, OnPath
<1> QED BY <1>3, <1>6, <1>7, <1>8 DEF Inv, IsSeq

\* The messages that lead to the parent are the timeline that the request was
\* validated against, whichever place was planned.
LEMMA ParentIsTimeline ==
    ASSUME Inv, session # NoSession, NEW p, session.turns # <<>>,
           \/ p.kind = "append" /\ p.from = Len(session.turns) + 1
           \/ p.kind # "append" /\ p.from \in 1..Len(session.turns)
    PROVE  LET parent == ParentOf(session.turns, p)
           IN  /\ parent \in 0..Len(nodes)
               /\ PathOf(nodes, parent) = ParentTimeline(session.turns, p)
               /\ parent = IF p.from = 1 THEN 0 ELSE session.turns[p.from - 1].node
<1> DEFINE turns == session.turns
<1> PICK T : turns \in Seq(T)
  BY DEF Inv, RecordTyped
<1>1. /\ Len(turns) \in Nat /\ DOMAIN turns = 1..Len(turns) /\ Len(turns) > 0
      /\ Last(turns) = turns[Len(turns)]
  BY DEF Last
<1>2. Len(nodes) \in Nat /\ DOMAIN nodes = 1..Len(nodes)
  BY DEF Inv, IsSeq
<1>3. \A i \in DOMAIN turns : turns[i].node \in 1..Len(nodes)
  BY DEF Inv, RecordTyped
<1>4. ASSUME NEW i \in DOMAIN turns
      PROVE  /\ turns[i].parent = IF i = 1 THEN 0 ELSE turns[i - 1].node
             /\ turns[i].parentTimeline = PathOf(nodes, turns[i].parent)
             /\ turns[i].request = nodes[turns[i].node].request
             /\ turns[i].answer = nodes[turns[i].node].answer
  BY DEF Inv, RecordIsPath, OnPath
<1> HIDE DEF turns
<1>5. CASE p.kind = "append" /\ p.from = Len(turns) + 1
  <2> DEFINE last == turns[Len(turns)]
  <2>1. ParentOf(turns, p) = last.node /\ last.node \in 1..Len(nodes)
    BY <1>1, <1>3, <1>5 DEF ParentOf
  <2>2. last.request = nodes[last.node].request /\ last.answer = nodes[last.node].answer
    BY <1>1, <1>4
  <2>3. nodes[last.node].after = nodes[last.node].request
    BY <1>2, <2>1 DEF Inv, AnsweredAsAsked
  <2>4. PathOf(nodes, last.node) = last.request \o AnswerIn(last.answer)
    <3>1. last.node # 0
      BY <1>2, <2>1
    <3>2. PathOf(nodes, last.node) = nodes[last.node].after \o AnswerIn(nodes[last.node].answer)
      BY <3>1 DEF PathOf
    <3> QED BY <2>2, <2>3, <3>2
  <2>5. ParentTimeline(turns, p) = last.request \o AnswerIn(last.answer)
    BY <1>1, <1>5 DEF ParentTimeline
  <2> QED BY <1>1, <1>2, <1>5, <2>1, <2>4, <2>5 DEF turns
<1>6. CASE p.kind # "append" /\ p.from \in 1..Len(turns)
  <2>1. ParentOf(turns, p) = turns[p.from].parent
        /\ ParentTimeline(turns, p) = turns[p.from].parentTimeline
    BY <1>6 DEF ParentOf, ParentTimeline
  <2>2. turns[p.from].parent = IF p.from = 1 THEN 0 ELSE turns[p.from - 1].node
    BY <1>1, <1>4, <1>6
  <2>3. turns[p.from].parent \in 0..Len(nodes)
    <3>1. p.from # 1 => p.from - 1 \in DOMAIN turns
      BY <1>1, <1>6
    <3> QED BY <1>2, <1>3, <2>2, <3>1
  <2>4. turns[p.from].parentTimeline = PathOf(nodes, turns[p.from].parent)
    BY <1>1, <1>4, <1>6
  <2> QED BY <2>1, <2>2, <2>3, <2>4 DEF turns
<1> QED BY <1>5, <1>6 DEF turns

\* The answer n is added upstream, and the session stays or is uncertain.
LEMMA AnswerAddedInv ==
    ASSUME Inv, session # NoSession, NEW n, nodes' = Append(nodes, n),
           n.after = n.request, n.asked = session.system,
           n.system # n.asked => n.system = NoSystem /\ n.first # 1
    PROVE  /\ AnsweredAsAsked'
           /\ session' = [session EXCEPT !.state = "Uncertain"] => Inv'
<1>1. /\ IsSeq(nodes') /\ Len(nodes) \in Nat /\ Len(nodes') = Len(nodes) + 1
      /\ nodes'[Len(nodes) + 1] = n
      /\ \A i \in 1..Len(nodes) : nodes'[i] = nodes[i]
      /\ \A i \in 0..Len(nodes) : PathOf(nodes', i) = PathOf(nodes, i)
  BY PathsStay DEF Inv
<1>2. DOMAIN nodes = 1..Len(nodes) /\ DOMAIN nodes' = 1..Len(nodes')
  BY <1>1 DEF Inv, IsSeq
<1>3. /\ nodes' # <<>> /\ \A i \in DOMAIN nodes : nodes[i].asked = session.system
      /\ \A i \in DOMAIN nodes' : nodes'[i].asked = session.system
  BY <1>1, <1>2 DEF Inv, RecordTyped
<1>4. AnsweredAsAsked'
  BY <1>1, <1>2, <1>3 DEF Inv, AnsweredAsAsked
<1>5. ASSUME session' = [session EXCEPT !.state = "Uncertain"]
      PROVE  Inv'
  <2> PICK T : session \in [state : {"Committed", "Uncertain", "Tombstoned"},
                            system : Systems, turns : Seq(T)]
    BY DEF Inv, RecordTyped
  <2>1. /\ session' \in [state : {"Committed", "Uncertain", "Tombstoned"},
                          system : Systems, turns : Seq(T)]
        /\ session'.turns = session.turns /\ session'.system = session.system
    BY <1>5
  <2>2. \A i \in DOMAIN session.turns : session.turns[i].node \in 1..Len(nodes)
    BY DEF Inv, RecordTyped
  <2>3. RecordTyped'
    <3>1. \E S : session' \in [state : {"Committed", "Uncertain", "Tombstoned"},
                              system : Systems, turns : Seq(S)]
      BY <2>1
    <3>2. nodes' # <<>> /\ \A i \in DOMAIN nodes' : nodes'[i].asked = session'.system
      BY <1>3, <2>1
    <3>3. \A i \in DOMAIN session'.turns : session'.turns[i].node \in 1..Len(nodes')
      BY <1>1, <2>1, <2>2
    <3> QED BY <3>1, <3>2, <3>3 DEF RecordTyped
  <2>4. RecordIsPath'
    <3>1. ASSUME NEW i \in DOMAIN session.turns PROVE OnPath(nodes', session.turns, i)
      <4>1. OnPath(nodes, session.turns, i)
        BY DEF Inv, RecordIsPath
      <4>2. session.turns[i].node \in 1..Len(nodes)
        BY <2>2
      <4>3. session.turns[i].parent \in 0..Len(nodes)
        BY <1>1, <2>2, <4>1 DEF OnPath
      <4> QED BY <1>1, <4>1, <4>2, <4>3 DEF OnPath
    <3> QED BY <2>1, <3>1 DEF RecordIsPath
  <2> QED BY <1>1, <1>4, <2>3, <2>4 DEF Inv
<1> QED BY <1>4, <1>5

LEMMA ContinueInv ==
    ASSUME Inv, NEW request, NEW system, Continue(request, system)
    PROVE  Inv'
<1> DEFINE turns == session.turns
           p == Plan(session, system, request)
           parent == ParentOf(turns, p)
           users == Suffix(turns, p, UsersOf(request))
           timeline == ParentTimeline(turns, p)
           id == Len(nodes) + 1
<1>1. session # NoSession /\ p # Refused
  BY DEF Continue
<1> PICK a \in Answers :
        /\ nodes' = Append(nodes,
                Node(PathOf(nodes, parent) \o users, FirstOf(nodes, parent, id),
                     SystemOf(nodes, parent), request, system, a))
        /\ \/ session' = [session EXCEPT !.turns = WithTurn(turns, p.from,
                              Turn(parent, users, timeline, request, id, a))]
           \/ session' = [session EXCEPT !.state = "Uncertain"]
  BY DEF Continue
<1> PICK T : session \in [state : {"Committed", "Uncertain", "Tombstoned"},
                          system : Systems, turns : Seq(T)]
  BY <1>1 DEF Inv, RecordTyped
<1>2. turns \in Seq(T) /\ IsSeq(turns)
  BY DEF IsSeq
<1>3. /\ session.system = system /\ Len(turns) \in Nat /\ turns # <<>>
      /\ \/ p.kind = "append" /\ p.from = Len(turns) + 1
         \/ p.kind # "append" /\ p.from \in 1..Len(turns)
      /\ request = timeline \o users
  BY <1>1, <1>2, PlannedIsValid
<1>4. /\ parent \in 0..Len(nodes) /\ PathOf(nodes, parent) = timeline
      /\ parent = IF p.from = 1 THEN 0 ELSE turns[p.from - 1].node
  BY <1>1, <1>3, ParentIsTimeline
<1> DEFINE n == Node(PathOf(nodes, parent) \o users, FirstOf(nodes, parent, id),
                     SystemOf(nodes, parent), request, system, a)
           t == Turn(parent, users, timeline, request, id, a)
<1>5. /\ n.after = request /\ n.request = request /\ n.asked = system /\ n.answer = a
      /\ n.system # n.asked => n.system = NoSystem /\ n.first # 1
  <2>1. /\ n.after = request /\ n.request = request /\ n.asked = system /\ n.answer = a
        /\ n.system = SystemOf(nodes, parent) /\ n.first = FirstOf(nodes, parent, id)
    BY <1>3, <1>4 DEF Node
  <2>2. Len(nodes) \in Nat /\ DOMAIN nodes = 1..Len(nodes) /\ nodes # <<>> /\ Len(nodes) > 0
    BY <1>1 DEF Inv, RecordTyped, IsSeq
  <2> HIDE DEF n, parent
  <2>3. CASE parent = 0
    BY <2>1, <2>2, <2>3 DEF SystemOf, FirstOf
  <2>4. CASE parent # 0
    <3>1. parent \in DOMAIN nodes
      BY <1>4, <2>2, <2>4
    <3>2. /\ nodes[parent].asked = session.system
          /\ nodes[parent].system # nodes[parent].asked =>
                nodes[parent].system = NoSystem /\ nodes[parent].first # 1
      BY <1>1, <3>1 DEF Inv, RecordTyped, AnsweredAsAsked
    <3>3. n.system = nodes[parent].system /\ n.first = nodes[parent].first
      BY <2>1, <2>4 DEF SystemOf, FirstOf
    <3> QED
      BY <1>3, <2>1, <3>2, <3>3
  <2> QED
    BY <2>3, <2>4
<1>6. /\ t.parent = parent /\ t.parentTimeline = timeline /\ t.node = id
      /\ t.request = request /\ t.answer = a
  BY DEF Turn
<1>7. p.from \in 1..Len(turns) + 1
  BY <1>3
<1> HIDE DEF n, t, p, parent, timeline
<1>8. nodes' = Append(nodes, n)
  BY DEF n, parent, p
<1>9. AnsweredAsAsked' /\ (session' = [session EXCEPT !.state = "Uncertain"] => Inv')
  BY <1>1, <1>3, <1>5, <1>8, AnswerAddedInv
<1>10. ASSUME session' = [session EXCEPT !.turns = WithTurn(turns, p.from, t)]
       PROVE  Inv'
  <2> DEFINE new == WithTurn(turns, p.from, t)
  <2>1. /\ new \in Seq(T \cup {t}) /\ Len(new) = p.from /\ new[p.from] = t
        /\ \A i \in 1..p.from - 1 : new[i] = turns[i]
    <3>1. turns \in Seq(T) /\ IsSeq(turns) /\ p.from \in 1..Len(turns) + 1
      BY <1>2, <1>7
    <3> HIDE DEF turns
    <3>2. new \in Seq(T \cup {t})
      BY <3>1, TurnsAfterIt
    <3> QED BY <3>1, <3>2, TurnsOfAnyType
  <2> HIDE DEF new
  <2>2. /\ session'.turns = new /\ session'.system = system
        /\ session' \in [state : {"Committed", "Uncertain", "Tombstoned"},
                          system : Systems, turns : Seq(T \cup {t})]
    BY <1>3, <1>10, <2>1 DEF new
  <2>3. DOMAIN new = 1..p.from /\ DOMAIN turns = 1..Len(turns) /\ p.from \in Nat
    BY <1>2, <1>7, <2>1
  <2>4. /\ IsSeq(nodes') /\ Len(nodes) \in Nat /\ Len(nodes') = id /\ nodes'[id] = n
        /\ \A i \in 1..Len(nodes) : nodes'[i] = nodes[i]
        /\ \A i \in 0..Len(nodes) : PathOf(nodes', i) = PathOf(nodes, i)
    BY <1>8, PathsStay DEF Inv
  <2>5. /\ \A i \in DOMAIN nodes : nodes[i].asked = session.system
        /\ DOMAIN nodes = 1..Len(nodes) /\ DOMAIN nodes' = 1..id
        /\ \A i \in DOMAIN turns : turns[i].node \in 1..Len(nodes)
    BY <1>1, <2>4 DEF Inv, RecordTyped, IsSeq
  <2>6. RecordTyped'
    <3>1. \E S : session' \in [state : {"Committed", "Uncertain", "Tombstoned"},
                              system : Systems, turns : Seq(S)]
      BY <2>2
    <3>2. nodes' # <<>> /\ \A i \in DOMAIN nodes' : nodes'[i].asked = session'.system
      BY <1>3, <1>5, <2>2, <2>4, <2>5
    <3>3. \A i \in DOMAIN new : new[i].node \in 1..Len(nodes')
      BY SMTT(30), <1>6, <1>7, <2>1, <2>3, <2>4, <2>5
    <3> QED BY <2>2, <3>1, <3>2, <3>3 DEF RecordTyped
  <2>7. ASSUME NEW i \in DOMAIN new PROVE OnPath(nodes', new, i)
    <3>1. CASE i = p.from
      <4>1. t.parent = IF i = 1 THEN 0 ELSE new[i - 1].node
        BY SMTT(30), <1>4, <1>6, <2>1, <2>3, <3>1
      <4>2. t.parentTimeline = PathOf(nodes', t.parent)
        BY <1>4, <1>6, <2>4
      <4>3. t.request = nodes'[t.node].request /\ t.answer = nodes'[t.node].answer
        BY <1>5, <1>6, <2>4
      <4> QED BY <2>1, <3>1, <4>1, <4>2, <4>3 DEF OnPath
    <3>2. CASE i # p.from
      <4>1. i \in 1..p.from - 1 /\ i \in DOMAIN turns /\ (i # 1 => i - 1 \in 1..p.from - 1)
        BY <1>3, <1>7, <2>3, <3>2
      <4>2. new[i] = turns[i] /\ (i # 1 => new[i - 1] = turns[i - 1])
        BY <2>1, <4>1
      <4>3. OnPath(nodes, turns, i)
        BY <1>1, <4>1 DEF Inv, RecordIsPath
      <4>4. turns[i].node \in 1..Len(nodes)
        BY <2>5, <4>1
      <4>5. turns[i].parent \in 0..Len(nodes)
        <5>1. i # 1 => turns[i - 1].node \in 1..Len(nodes)
          BY <1>3, <1>7, <2>3, <2>5, <4>1
        <5> QED BY <2>4, <4>3, <5>1 DEF OnPath
      <4> QED BY <2>4, <4>2, <4>3, <4>4, <4>5 DEF OnPath
    <3> QED BY <3>1, <3>2
  <2>8. RecordIsPath'
    BY <2>2, <2>7 DEF RecordIsPath
  <2> QED BY <1>9, <2>4, <2>6, <2>8 DEF Inv
<1> QED BY <1>9, <1>10 DEF t, p, parent, timeline

\* The session is reset: it and what is upstream of it are begun again.
LEMMA RecoverInv == ASSUME Inv, Recover PROVE Inv'
<1>1. session' = NoSession /\ nodes' \in Seq({}) /\ DOMAIN nodes' = {}
  BY DEF Recover
<1> QED BY <1>1 DEF Inv, IsSeq, RecordTyped, AnsweredAsAsked, RecordIsPath

LEMMA ExpireInv == ASSUME Inv, Expire PROVE Inv'
<1>1. session # NoSession /\ nodes' = nodes
      /\ session' = [session EXCEPT !.state = "Tombstoned"]
  BY DEF Expire
<1> PICK T : session \in [state : {"Committed", "Uncertain", "Tombstoned"},
                          system : Systems, turns : Seq(T)]
  BY <1>1 DEF Inv, RecordTyped
<1>2. /\ session' \in [state : {"Committed", "Uncertain", "Tombstoned"},
                        system : Systems, turns : Seq(T)]
      /\ session'.turns = session.turns /\ session'.system = session.system
  BY <1>1
<1>3. \E S : session' \in [state : {"Committed", "Uncertain", "Tombstoned"},
                          system : Systems, turns : Seq(S)]
  BY <1>2
<1>4. RecordTyped'
  BY <1>1, <1>2, <1>3 DEF Inv, RecordTyped
<1>5. RecordIsPath'
  BY <1>1, <1>2 DEF Inv, RecordIsPath
<1>6. IsSeq(nodes') /\ AnsweredAsAsked'
  BY <1>1 DEF Inv, IsSeq, AnsweredAsAsked
<1> QED BY <1>4, <1>5, <1>6 DEF Inv

LEMMA NextInv == Inv /\ [Next]_vars => Inv'
<1> SUFFICES ASSUME Inv, [Next]_vars PROVE Inv'
  OBVIOUS
<1>1. CASE UNCHANGED vars
  BY <1>1 DEF vars, Inv, IsSeq, RecordTyped, AnsweredAsAsked, RecordIsPath
<1>2. ASSUME NEW r \in Requests, NEW system \in Systems, Create(r, system) PROVE Inv'
  BY <1>2, CreateInv
<1>3. ASSUME NEW r \in Requests, NEW system \in Systems, Continue(r, system) PROVE Inv'
  BY <1>3, ContinueInv
<1>4. CASE Recover
  BY <1>4, RecoverInv
<1>5. CASE Expire
  BY <1>5, ExpireInv
<1> QED BY <1>1, <1>2, <1>3, <1>4, <1>5 DEF Next

LEMMA AlwaysInv == Spec => []Inv
BY InitInv, NextInv, PTL DEF Spec

-----------------------------------------------------------------------------
(* Answers and records                                                     *)

\* Whatever requests are sent, in a session or after its resets, and whichever
\* answers are lost, regenerated or forked: an answer is given to exactly the
\* messages of the request that asked for it, although only the last of them
\* are sent (plan_turns, validate_timeline).  They are under its system prompt, or
\* under none if they follow a first turn that was regenerated.
THEOREM AnswersAreAsAsked == Spec => []AnsweredAsAsked
<1>1. Inv => AnsweredAsAsked
  BY DEF Inv
<1> QED BY <1>1, AlwaysInv, PTL

\* The turns of a record hang from one another upstream as the record says, and
\* say truly what was asked and answered (commit_explicit_turn).
THEOREM RecordsArePaths == Spec => []RecordIsPath
<1>1. Inv => RecordIsPath
  BY DEF Inv
<1> QED BY <1>1, AlwaysInv, PTL

-----------------------------------------------------------------------------
(* What is planned                                                         *)

LEMMA StrictPrefixHasRest ==
    ASSUME NEW S, NEW s \in Seq(S), NEW t \in Seq(S), IsStrictPrefix(s, t)
    PROVE  /\ t = s \o SubSeq(t, Len(s) + 1, Len(t)) /\ Len(s) < Len(t)
           /\ SubSeq(t, Len(s) + 1, Len(t)) \in Seq(S)
<1>1. Len(s) <= Len(t) /\ SubSeq(s, 1, Len(s)) = SubSeq(t, 1, Len(s)) /\ s # t
  BY DEF IsStrictPrefix, IsPrefix
<1>2. \A i \in 1..Len(s) : s[i] = t[i]
  <2> SUFFICES ASSUME NEW i \in 1..Len(s) PROVE s[i] = t[i]
    OBVIOUS
  <2>1. SubSeq(s, 1, Len(s))[i] = s[i] /\ SubSeq(t, 1, Len(s))[i] = t[i]
    BY <1>1
  <2> QED
    BY <1>1, <2>1
<1>3. Len(s) # Len(t)
  BY <1>1, <1>2, SeqEqual
<1> QED
  BY <1>1, <1>2, <1>3

LEMMA RestMakesStrictPrefix ==
    ASSUME NEW S, NEW s \in Seq(S), NEW rest \in Seq(S), rest # <<>>
    PROVE  /\ IsStrictPrefix(s, s \o rest) /\ Len(s) < Len(s \o rest)
           /\ SubSeq(s \o rest, Len(s) + 1, Len(s \o rest)) = rest
BY DEF IsStrictPrefix, IsPrefix

LEMMA MiddlePart ==
    ASSUME NEW S, NEW a \in Seq(S), NEW b \in Seq(S), NEW c \in Seq(S), NEW d \in Seq(S)
    PROVE  SubSeq(((a \o b) \o c) \o d, Len(a) + 1, Len(a) + Len(b)) = b
<1> DEFINE t == ((a \o b) \o c) \o d
           m == SubSeq(t, Len(a) + 1, Len(a) + Len(b))
<1>1. /\ t \in Seq(S) /\ Len(t) = Len(a) + Len(b) + Len(c) + Len(d)
      /\ \A i \in 1..Len(b) : t[Len(a) + i] = b[i]
  OBVIOUS
<1>2. PICK n \in Nat, k \in Nat : n = Len(a) /\ k = Len(b) /\ n + k <= Len(t)
  BY <1>1
<1> HIDE DEF t, m
<1>3. m = SubSeq(t, n + 1, n + k)
  BY <1>2 DEF m
<1>4. \A i \in n + 1..n + k : t[i] \in S
  BY <1>1, <1>2
<1>5. m \in Seq(S) /\ Len(m) = k /\ \A i \in 1..k : m[i] = t[n + i]
  BY <1>1, <1>2, <1>3, <1>4
<1>6. m = b
  BY <1>1, <1>2, <1>5, SeqEqual
<1> QED
  BY <1>6 DEF m, t

LEMMA LongerByMiddle ==
    ASSUME NEW S, NEW a \in Seq(S), NEW b \in Seq(S), NEW c \in Seq(S), b # <<>>
    PROVE  Len(a) < Len((a \o b) \o c)
OBVIOUS

\* Whatever is planned, the last turns of the record, from the planned one on, are
\* not all repeated by the request, or there is nothing after them.
LEMMA PlanIsLast ==
    ASSUME NEW ts \in Seq(AnyTurn), NEW users \in Seq(Users),
           PlanTurns(ts, users) # Refused,
           NEW j \in 1..Len(ts), PlanTurns(ts, users).from <= j,
           NEW rest \in Seq(Users), users = UsersTo(ts, j) \o rest
    PROVE  rest = <<>>
<1> DEFINE p == PlanTurns(ts, users)
<1>1. Len(ts) \in Nat /\ Committed(ts) = UsersTo(ts, Len(ts)) /\ IsSeq(ts)
  BY CommittedIsAll DEF IsSeq
<1>2. UsersTo(ts, j) \in Seq(Users)
  BY UsersToTyped
<1>3. CASE p = [kind |-> "regenerate", from |-> Len(ts)] /\ users = Committed(ts)
  <2>1. j = Len(ts)
    BY <1>1, <1>3
  <2>2. UsersTo(ts, j) = UsersTo(ts, j) \o rest
    BY <1>1, <1>3, <2>1
  <2> QED
    BY <1>2, <2>2, ConcatEqualIffEmpty
<1>4. CASE p = [kind |-> "append", from |-> Len(ts) + 1]
  BY <1>1, <1>4
<1>5. CASE p = Fork(ts, users)
  <2>1. \E i \in DOMAIN ts \ {1} : ForksAt(ts, users, i)
    BY <1>5 DEF Fork
  <2>2. PICK i \in DOMAIN ts \ {1} : p = [kind |-> "fork", from |-> i] /\ ForksAt(ts, users, i)
    BY <1>5, <2>1 DEF Fork
  <2>3. i \in 1..Len(ts) /\ i - 1 \in 0..Len(ts) /\ i <= j /\ i \in 0..Len(ts) /\ j \in i..Len(ts)
        /\ i \in 1..Len(ts) + 1 /\ ts[i] \in AnyTurn
    BY <1>1, <2>2
  <2>4. Before(ts, i) = Len(UsersTo(ts, i - 1))
    BY <2>3, BeforeIsLength
  <2>5. PICK more \in Seq(Users) : UsersTo(ts, j) = UsersTo(ts, i) \o more
    BY <2>3, UsersToGrows
  <2>6. UsersTo(ts, i) = UsersTo(ts, i - 1) \o ts[i].users
    BY <2>3, UsersToNext
  <2>7. ts[i].users \in Seq(Users)
    BY ONLY <2>3 DEF AnyTurn
  <2>8. PICK a \in Seq(Users), b \in Seq(Users) : a = UsersTo(ts, i - 1) /\ b = ts[i].users
    BY <2>3, <2>7, UsersToTyped
  <2>9. users = ((a \o b) \o more) \o rest
    BY <2>5, <2>6, <2>8
  <2>10. SubSeq(users, Len(a) + 1, Len(a) + Len(b)) = b
    BY <2>9, MiddlePart
  <2> QED
    BY <2>2, <2>4, <2>8, <2>10 DEF ForksAt
<1> QED
  BY <1>3, <1>4, <1>5 DEF PlanTurns

\* There is something to send.
LEMMA PlanHasSuffix ==
    ASSUME NEW ts \in Seq(AnyTurn), NEW users \in Seq(Users),
           PlanTurns(ts, users) # Refused, PlanTurns(ts, users).from # 1,
           \A i \in 2..Len(ts) : ts[i].users # <<>>
    PROVE  Len(UsersTo(ts, PlanTurns(ts, users).from - 1)) < Len(users)
<1> DEFINE p == PlanTurns(ts, users)
<1>1. /\ Len(ts) \in Nat /\ Committed(ts) = UsersTo(ts, Len(ts)) /\ UsersTo(ts, Len(ts)) \in Seq(Users)
      /\ Len(UsersTo(ts, Len(ts))) <= Len(users)
  BY CommittedIsAll, UsersToTyped DEF PlanTurns
<1>2. CASE p.from = Len(ts) + 1
  <2>1. IsStrictPrefix(Committed(ts), users)
    <3>1. p # [kind |-> "regenerate", from |-> Len(ts)]
      BY <1>1, <1>2
    <3>2. p # Fork(ts, users)
      <4> SUFFICES ASSUME p = Fork(ts, users) PROVE FALSE
        OBVIOUS
      <4>1. \E i \in DOMAIN ts \ {1} : ForksAt(ts, users, i)
        BY DEF Fork
      <4>2. PICK i \in DOMAIN ts : p = [kind |-> "fork", from |-> i]
        BY <4>1 DEF Fork
      <4> QED
        BY <1>1, <1>2, <4>2
    <3> QED
      BY <3>1, <3>2 DEF PlanTurns
  <2>2. Len(UsersTo(ts, Len(ts))) < Len(users)
    BY <1>1, <2>1, StrictPrefixHasRest
  <2> QED
    BY <1>1, <1>2, <2>2
<1>3. CASE p.from # Len(ts) + 1
  <2>1. IsSeq(ts)
    BY DEF IsSeq
  <2>2. PICK i \in 2..Len(ts) : i = p.from
    BY <1>1, <1>3, <2>1, PlanPointsIntoTurns
  <2>3. i \in 1..Len(ts) /\ i \in 0..Len(ts) /\ i - 1 \in 0..Len(ts) /\ Len(ts) \in i..Len(ts)
        /\ ts[i] \in AnyTurn
    BY <1>1
  <2>4. PICK more \in Seq(Users) : UsersTo(ts, Len(ts)) = UsersTo(ts, i) \o more
    BY <2>3, UsersToGrows
  <2>5. UsersTo(ts, i) = UsersTo(ts, i - 1) \o ts[i].users
    BY <2>3, UsersToNext
  <2>6. ts[i].users \in Seq(Users)
    BY ONLY <2>3 DEF AnyTurn
  <2>7. PICK a \in Seq(Users), b \in Seq(Users) : a = UsersTo(ts, i - 1) /\ b = ts[i].users /\ b # <<>>
    BY <2>3, <2>6, UsersToTyped
  <2>8. UsersTo(ts, Len(ts)) = (a \o b) \o more
    BY <2>4, <2>5, <2>7
  <2>9. Len(a) < Len(users)
    <3>1. Len(a) < Len(UsersTo(ts, Len(ts)))
      BY <2>7, <2>8, LongerByMiddle
    <3> QED
      BY <1>1, <3>1
  <2> QED
    BY <2>2, <2>7, <2>9
<1> QED
  BY <1>2, <1>3

-----------------------------------------------------------------------------
(* The turns of a record                                                   *)

\* The messages up to the turn before turn i.
TimelineTo(ts, i) ==
    IF i = 1 THEN <<>> ELSE ts[i - 1].request \o AnswerIn(ts[i - 1].answer)

\* A turn repeats the turns before it and adds messages of users, and its request
\* has no others than these.
Sound(ts, i) ==
    /\ ts[i].parentTimeline = TimelineTo(ts, i)
    /\ UsersOf(ts[i].request) = UsersTo(ts, i)
    /\ i # 1 => ts[i].request = ts[i].parentTimeline \o ts[i].users /\ ts[i].users # <<>>

SoundTurns(ts) == ts \in Seq(AnyTurn) /\ ts # <<>> /\ \A i \in 1..Len(ts) : Sound(ts, i)

TurnsInv ==
    session # NoSession =>
        /\ session.state \in {"Committed", "Uncertain", "Tombstoned"}
        /\ SoundTurns(session.turns)

LEMMA TimelineToTyped ==
    ASSUME NEW ts, SoundTurns(ts), NEW i \in 1..Len(ts) + 1
    PROVE  TimelineTo(ts, i) \in Seq(Digests) /\ UsersOf(TimelineTo(ts, i)) = UsersTo(ts, i - 1)
<1>0. ts \in Seq(AnyTurn)
  BY DEF SoundTurns
<1>1. CASE i = 1
  <2>1. TimelineTo(ts, i) = <<>> /\ <<>> \in Seq(Users)
    BY <1>1 DEF TimelineTo
  <2>2. <<>> \in Seq(Digests) /\ UsersOf(<<>>) = <<>>
    BY <2>1, UsersOfUsers
  <2>3. UsersTo(ts, i - 1) = <<>>
    BY <1>0, <1>1, UsersToNone
  <2> QED
    BY <2>1, <2>2, <2>3
<1>2. CASE i # 1
  <2>1. PICK j \in 1..Len(ts) : j = i - 1 /\ ts[j] \in AnyTurn
    BY <1>0, <1>2
  <2>2. ts[j].request \in Seq(Digests) /\ ts[j].answer \in Answers
    BY ONLY <2>1 DEF AnyTurn
  <2>3. AnswerIn(ts[j].answer) \in Seq(Digests) /\ UsersOf(AnswerIn(ts[j].answer)) = <<>>
    BY <2>2, UsersOfAnswer
  <2>4. UsersOf(ts[j].request) = UsersTo(ts, j) /\ UsersTo(ts, j) \in Seq(Users)
    <3>1. Sound(ts, j)
      BY DEF SoundTurns
    <3>2. j \in 0..Len(ts)
      BY <1>0
    <3> QED
      BY <1>0, <3>1, <3>2, UsersToTyped DEF Sound
  <2>5. PICK x \in Seq(Digests), y \in Seq(Digests) :
            x = ts[j].request /\ y = AnswerIn(ts[j].answer)
    BY <2>2, <2>3
  <2>6. TimelineTo(ts, i) = x \o y
    BY <1>2, <2>1, <2>5 DEF TimelineTo
  <2>7. x \o y \in Seq(Digests) /\ UsersOf(x \o y) = UsersOf(x) \o UsersOf(y)
    BY UsersOfConcat
  <2>8. UsersTo(ts, j) \o <<>> = UsersTo(ts, j)
    BY <2>4
  <2>9. UsersOf(x \o y) = UsersTo(ts, j)
    BY ONLY <2>3, <2>4, <2>5, <2>7, <2>8
  <2> QED
    BY <2>1, <2>6, <2>7, <2>9
<1> QED
  BY <1>1, <1>2

LEMMA RestOfLonger ==
    ASSUME NEW S, NEW u \in Seq(S), NEW k \in Nat, k < Len(u)
    PROVE  SubSeq(u, k + 1, Len(u)) # <<>>
<1>1. Len(SubSeq(u, k + 1, Len(u))) # 0
  <2>1. Len(u) \in Nat /\ k + 1 <= Len(u)
    OBVIOUS
  <2> QED
    BY <2>1
<1> QED
  BY ONLY <1>1, EmptySeq

\* What is planned, in terms of the turns: the request is the messages up to the
\* planned turn and the messages that will be sent.
LEMMA PlanIsSound ==
    ASSUME NEW system, NEW r \in Seq(Digests), SoundTurns(session.turns),
           Plan(session, system, r) # Refused
    PROVE  LET p == Plan(session, system, r)
               ts == session.turns
               sent == Suffix(ts, p, UsersOf(r))
           IN  /\ p = PlanTurns(ts, UsersOf(r)) /\ session.state = "Committed"
               /\ p.from \in 1..Len(ts) + 1
               /\ ParentTimeline(ts, p) = TimelineTo(ts, p.from)
               /\ sent \in Seq(Users) /\ r = TimelineTo(ts, p.from) \o sent
               /\ UsersOf(r) = UsersTo(ts, p.from - 1) \o sent
               /\ p.from # 1 => sent # <<>>
<1> DEFINE ts == session.turns
           p == Plan(session, system, r)
           sent == Suffix(ts, p, UsersOf(r))
<1>1. ts \in Seq(AnyTurn) /\ IsSeq(ts) /\ Len(ts) \in Nat
  BY DEF SoundTurns, IsSeq
<1>2. /\ session.state = "Committed" /\ ts # <<>>
      /\ \/ p.kind = "append" /\ p.from = Len(ts) + 1
         \/ p.kind # "append" /\ p.from \in 1..Len(ts)
      /\ r = ParentTimeline(ts, p) \o sent
  BY <1>1, PlannedIsValid
<1>3. p = PlanTurns(ts, UsersOf(r)) /\ p # Refused
  BY DEF Plan
<1>4. p.from \in 1..Len(ts) + 1 /\ Last(ts) = ts[Len(ts)] /\ Len(ts) # 0
  BY <1>1, <1>2 DEF Last
<1>5. ParentTimeline(ts, p) = TimelineTo(ts, p.from)
  <2>1. CASE p.kind = "append"
    <3>1. p.from = Len(ts) + 1 /\ p.from # 1 /\ p.from - 1 = Len(ts)
      BY <1>1, <1>2, <1>4, <2>1
    <3>2. ParentTimeline(ts, p) = ts[Len(ts)].request \o AnswerIn(ts[Len(ts)].answer)
      BY <1>4, <2>1 DEF ParentTimeline
    <3> QED
      BY <3>1, <3>2 DEF TimelineTo
  <2>2. CASE p.kind # "append"
    <3>1. p.from \in 1..Len(ts) /\ ParentTimeline(ts, p) = ts[p.from].parentTimeline
      BY <1>2, <2>2 DEF ParentTimeline
    <3> QED
      BY <3>1 DEF SoundTurns, Sound
  <2> QED
    BY <2>1, <2>2
<1>6. UsersOf(r) \in Seq(Users)
  BY UsersOfTyped
<1>7. PICK k \in Nat : k = Before(ts, p.from) /\ k = Len(UsersTo(ts, p.from - 1))
  <2>1. p.from - 1 \in 0..Len(ts)
    BY <1>1, <1>4
  <2>2. UsersTo(ts, p.from - 1) \in Seq(Users)
    BY <1>1, <2>1, UsersToTyped
  <2> QED
    BY <1>1, <1>4, <2>2, BeforeIsLength
<1>8. sent = SubSeq(UsersOf(r), k + 1, Len(UsersOf(r)))
  BY <1>7 DEF Suffix
<1> HIDE DEF ts, sent, p
<1>9. sent \in Seq(Users)
  BY <1>6, <1>7, <1>8
<1>10. UsersOf(r) = UsersTo(ts, p.from - 1) \o sent
  <2>1. sent \in Seq(Digests) /\ UsersOf(sent) = sent
    BY <1>9, UsersOfUsers
  <2>2. /\ TimelineTo(ts, p.from) \in Seq(Digests)
        /\ UsersOf(TimelineTo(ts, p.from)) = UsersTo(ts, p.from - 1)
    BY <1>4, TimelineToTyped DEF ts
  <2> QED
    BY <1>2, <1>5, <2>1, <2>2, UsersOfConcat
<1>11. p.from # 1 => sent # <<>>
  <2> SUFFICES ASSUME p.from # 1 PROVE sent # <<>>
    OBVIOUS
  <2>1. \A i \in 2..Len(ts) : ts[i].users # <<>>
    <3> SUFFICES ASSUME NEW i \in 2..Len(ts) PROVE ts[i].users # <<>>
      OBVIOUS
    <3>1. i \in 1..Len(ts) /\ i # 1
      OBVIOUS
    <3> QED
      BY <3>1 DEF SoundTurns, Sound, ts
  <2>2. k < Len(UsersOf(r))
    BY <1>1, <1>3, <1>6, <1>7, <2>1, PlanHasSuffix
  <2>3. PICK u \in Seq(Users) : u = UsersOf(r)
    BY <1>6
  <2>4. SubSeq(u, k + 1, Len(u)) # <<>>
    BY ONLY <2>2, <2>3, RestOfLonger
  <2> QED
    BY <1>8, <2>3, <2>4
<1> QED
  BY <1>2, <1>3, <1>4, <1>5, <1>9, <1>10, <1>11 DEF ts, sent, p

\* A turn that says of itself what is planned, after the turns that it keeps.
LEMMA WithTurnSound ==
    ASSUME NEW ts, SoundTurns(ts), NEW from \in 1..Len(ts) + 1, NEW t \in AnyTurn,
           t.parentTimeline = TimelineTo(ts, from),
           t.request = TimelineTo(ts, from) \o t.users,
           from # 1 => t.users # <<>>
    PROVE  SoundTurns(WithTurn(ts, from, t))
<1> DEFINE new == WithTurn(ts, from, t)
<1>1. ts \in Seq(AnyTurn) /\ IsSeq(ts) /\ Len(ts) \in Nat /\ from \in Nat
  BY DEF SoundTurns, IsSeq
<1>2. new \in Seq(AnyTurn)
  <2>1. new \in Seq(AnyTurn \cup {t}) /\ AnyTurn \cup {t} = AnyTurn
    BY <1>1, TurnsAfterIt
  <2> QED
    BY <2>1
<1>3. Len(new) = from /\ new[from] = t /\ \A i \in 1..from - 1 : new[i] = ts[i]
  BY <1>1, TurnsOfAnyType
<1> HIDE DEF new
<1>4. ASSUME NEW i \in 1..from
      PROVE  TimelineTo(new, i) = TimelineTo(ts, i) /\ UsersTo(new, i - 1) = UsersTo(ts, i - 1)
  <2>1. CASE i = 1
    BY <1>1, <1>2, <2>1, UsersToNone DEF TimelineTo
  <2>2. CASE i # 1
    <3>1. /\ i - 1 \in 1..from - 1 /\ i - 1 \in Nat /\ i - 1 <= Len(ts) /\ i - 1 <= Len(new)
          /\ 1..i - 1 \subseteq 1..from - 1
      BY <1>1, <1>3, <2>2
    <3>2. new[i - 1] = ts[i - 1] /\ \A j \in 1..i - 1 : new[j] = ts[j]
      BY <1>3, <3>1
    <3>3. UsersTo(new, i - 1) = UsersTo(ts, i - 1)
      BY <1>1, <1>2, <3>1, <3>2, UsersToSame
    <3> QED
      BY <2>2, <3>2, <3>3 DEF TimelineTo
  <2> QED
    BY <2>1, <2>2
<1>5. ASSUME NEW i \in 1..from PROVE Sound(new, i)
  <2>0. i \in 1..Len(new) /\ UsersTo(new, i) = UsersTo(new, i - 1) \o new[i].users
    BY <1>2, <1>3, UsersToNext
  <2>1. CASE i = from
    <3>1. new[i] = t /\ t.parentTimeline = TimelineTo(new, i)
          /\ t.request = t.parentTimeline \o t.users /\ (i # 1 => t.users # <<>>)
      BY <1>3, <1>4, <2>1
    <3>2. PICK x \in Seq(Digests), u \in Seq(Users) :
              /\ x = TimelineTo(ts, from) /\ UsersOf(x) = UsersTo(ts, from - 1)
              /\ u = t.users /\ u \in Seq(Digests) /\ UsersOf(u) = u
      <4>1. t.users \in Seq(Users)
        BY DEF AnyTurn
      <4> QED
        BY <4>1, TimelineToTyped, UsersOfUsers
    <3>3. UsersOf(x \o u) = UsersOf(x) \o UsersOf(u)
      BY <3>2, UsersOfConcat
    <3>4. UsersOf(t.request) = UsersTo(new, i)
      BY <1>4, <2>0, <2>1, <3>1, <3>2, <3>3
    <3> QED
      BY <3>1, <3>4 DEF Sound
  <2>2. CASE i # from
    <3>1. /\ i \in 1..Len(ts) /\ i \in 1..from - 1 /\ new[i] = ts[i]
          /\ UsersTo(ts, i) = UsersTo(ts, i - 1) \o ts[i].users
      <4>1. i \in 1..Len(ts) /\ i \in 1..from - 1
        BY <1>1, <2>2
      <4> QED
        BY <1>1, <1>3, <4>1, UsersToNext
    <3>2. Sound(ts, i)
      BY <3>1 DEF SoundTurns
    <3> QED
      BY <1>4, <2>0, <3>1, <3>2 DEF Sound
  <2> QED
    BY <2>1, <2>2
<1>6. new # <<>>
  BY <1>1, <1>3
<1> QED
  BY <1>2, <1>3, <1>5, <1>6 DEF SoundTurns, new

LEMMA CreateTurns ==
    ASSUME NEW r \in Requests, NEW system \in Systems, Create(r, system)
    PROVE  TurnsInv'
<1> PICK a \in Answers :
        session' = [state |-> "Committed", system |-> system,
                    turns |-> <<Turn(0, UsersOf(r), <<>>, r, 1, a)>>]
  BY DEF Create
<1> DEFINE t == Turn(0, UsersOf(r), <<>>, r, 1, a)
           new == <<t>>
<1>1. r \in Seq(Digests) /\ UsersOf(r) \in Seq(Users) /\ <<>> \in Seq(Digests)
  BY RequestsAreTimelines, UsersOfTyped
<1>2. t \in AnyTurn /\ t.parentTimeline = <<>> /\ t.request = r /\ t.users = UsersOf(r)
  BY <1>1 DEF Turn, AnyTurn
<1> HIDE DEF t
<1>3. new \in Seq(AnyTurn) /\ Len(new) = 1 /\ new[1] = t /\ new # <<>> /\ 1 - 1 = 0
  <2>1. t \in AnyTurn
    BY <1>2
  <2> QED
    BY ONLY <2>1
<1> HIDE DEF new
<1>4. UsersTo(new, 1) = UsersTo(new, 0) \o t.users /\ UsersTo(new, 0) = <<>>
  <2>1. 1 \in 1..Len(new)
    BY <1>3
  <2>2. UsersTo(new, 1) = UsersTo(new, 1 - 1) \o new[1].users
    BY <1>3, <2>1, UsersToNext
  <2> QED
    BY <1>3, <2>2, UsersToNone
<1>5. UsersTo(new, 1) = UsersOf(r)
  <2>1. PICK users \in Seq(Users) : users = UsersOf(r)
    BY <1>1
  <2>2. <<>> \o users = users
    BY ONLY ConcatEmptySeq
  <2> QED
    BY <1>2, <1>4, <2>1, <2>2
<1>6. Sound(new, 1)
  BY <1>2, <1>3, <1>5 DEF Sound, TimelineTo
<1>7. SoundTurns(new)
  BY <1>3, <1>6 DEF SoundTurns
<1>8. session'.state = "Committed" /\ session'.turns = new
  BY DEF new, t
<1> QED
  BY <1>7, <1>8 DEF TurnsInv

LEMMA ContinueTurns ==
    ASSUME Inv, TurnsInv, NEW r \in Requests, NEW system, Continue(r, system)
    PROVE  TurnsInv'
<1> DEFINE turns == session.turns
           p == Plan(session, system, r)
           parent == ParentOf(turns, p)
           users == Suffix(turns, p, UsersOf(r))
           timeline == ParentTimeline(turns, p)
           id == Len(nodes) + 1
<1>1. session # NoSession /\ p # Refused
  BY DEF Continue
<1> PICK a \in Answers :
        \/ session' = [session EXCEPT !.turns = WithTurn(turns, p.from,
                              Turn(parent, users, timeline, r, id, a))]
        \/ session' = [session EXCEPT !.state = "Uncertain"]
  BY DEF Continue
<1> PICK T : session \in [state : {"Committed", "Uncertain", "Tombstoned"},
                          system : Systems, turns : Seq(T)]
  BY <1>1 DEF Inv, RecordTyped
<1>2. SoundTurns(turns)
  BY <1>1 DEF TurnsInv
<1>3. CASE session' = [session EXCEPT !.state = "Uncertain"]
  <2>1. session'.state = "Uncertain" /\ session'.turns = turns
    BY <1>3
  <2> QED
    BY <1>2, <2>1 DEF TurnsInv
<1>4. CASE session' = [session EXCEPT !.turns = WithTurn(turns, p.from,
                              Turn(parent, users, timeline, r, id, a))]
  <2>1. r \in Seq(Digests)
    BY RequestsAreTimelines
  <2>2. /\ session.state = "Committed" /\ p.from \in 1..Len(turns) + 1
        /\ timeline = TimelineTo(turns, p.from)
        /\ users \in Seq(Users) /\ r = TimelineTo(turns, p.from) \o users
        /\ p.from # 1 => users # <<>>
    BY <1>1, <1>2, <2>1, PlanIsSound
  <2>3. parent \in Nat /\ id \in Nat
    <3>1. IsSeq(turns) /\ Len(nodes) \in Nat
      BY DEF IsSeq, Inv
    <3>2. /\ turns # <<>>
          /\ \/ p.kind = "append" /\ p.from = Len(turns) + 1
             \/ p.kind # "append" /\ p.from \in 1..Len(turns)
      BY <1>1, <3>1, PlannedIsValid
    <3>3. parent \in 0..Len(nodes)
      BY <1>1, <3>2, ParentIsTimeline
    <3> QED
      BY <3>1, <3>3
  <2> DEFINE t == Turn(parent, users, timeline, r, id, a)
             new == WithTurn(turns, p.from, t)
  <2>4. timeline \in Seq(Digests)
    BY <1>2, <2>2, TimelineToTyped
  <2>5. t.parentTimeline = timeline /\ t.request = r /\ t.users = users
    BY DEF Turn
  <2>6. t \in AnyTurn
    BY <2>1, <2>2, <2>3, <2>4 DEF Turn, AnyTurn
  <2>7. session'.state = "Committed" /\ session'.turns = new
    BY <1>4, <2>2
  <2> HIDE DEF t, p, users, timeline, turns
  <2>8. SoundTurns(new)
    BY <1>2, <2>2, <2>5, <2>6, WithTurnSound
  <2> QED
    BY <2>7, <2>8 DEF TurnsInv
<1> QED
  BY <1>3, <1>4

LEMMA AlwaysTurns == Spec => [](Inv /\ TurnsInv)
<1>1. Init => TurnsInv
  BY DEF Init, TurnsInv
<1>2. Inv /\ TurnsInv /\ [Next]_vars => TurnsInv'
  <2> SUFFICES ASSUME Inv, TurnsInv, [Next]_vars PROVE TurnsInv'
    OBVIOUS
  <2>1. CASE UNCHANGED vars
    BY <2>1 DEF vars, TurnsInv
  <2>2. ASSUME NEW r \in Requests, NEW system \in Systems, Create(r, system) PROVE TurnsInv'
    BY <2>2, CreateTurns
  <2>3. ASSUME NEW r \in Requests, NEW system \in Systems, Continue(r, system) PROVE TurnsInv'
    BY <2>3, ContinueTurns
  <2>4. CASE Recover
    BY <2>4 DEF Recover, TurnsInv
  <2>5. CASE Expire
    <3>1. session # NoSession /\ session' = [session EXCEPT !.state = "Tombstoned"]
      BY <2>5 DEF Expire
    <3>2. PICK T : session \in [state : {"Committed", "Uncertain", "Tombstoned"},
                              system : Systems, turns : Seq(T)]
      BY <3>1 DEF Inv, RecordTyped
    <3>3. session'.state = "Tombstoned" /\ session'.turns = session.turns
      BY <3>1, <3>2
    <3> QED
      BY <3>1, <3>3 DEF TurnsInv
  <2> QED
    BY <2>1, <2>2, <2>3, <2>4, <2>5 DEF Next
<1> QED
  BY <1>1, <1>2, AlwaysInv, PTL DEF Spec

-----------------------------------------------------------------------------
(* Where a request can be continued                                        *)

LEMMA ExtendsByUsers ==
    ASSUME NEW past \in Seq(Digests), NEW r \in Seq(Digests), Extends(r, past)
    PROVE  \E rest \in Seq(Users) : rest # <<>> /\ r = past \o rest
<1> DEFINE rest == SubSeq(r, Len(past) + 1, Len(r))
<1>1. r = past \o rest /\ Len(past) < Len(r)
  BY StrictPrefixHasRest DEF Extends
<1>2. Len(r) \in Nat /\ Len(past) \in Nat
  OBVIOUS
<1>3. PICK k \in Nat, n \in Nat : k = Len(past) /\ n = Len(r)
  BY <1>2
<1>4. \A i \in k + 1..n : r[i] \in Users
  BY <1>3 DEF Extends
<1>5. SubSeq(r, k + 1, n) \in Seq(Users)
  BY <1>3, <1>4
<1>6. rest # <<>>
  BY <1>1, <1>2, RestOfLonger
<1> QED
  BY <1>1, <1>3, <1>5, <1>6

LEMMA UsersExtend ==
    ASSUME NEW past \in Seq(Digests), NEW rest \in Seq(Users), rest # <<>>
    PROVE  Extends(past \o rest, past)
<1>1. rest \in Seq(Digests)
  BY UsersOfUsers
<1>2. IsStrictPrefix(past, past \o rest)
  BY <1>1, RestMakesStrictPrefix
<1>3. ASSUME NEW k \in Len(past) + 1..Len(past \o rest) PROVE (past \o rest)[k] \in Users
  <2>1. k - Len(past) \in 1..Len(rest) /\ (past \o rest)[k] = rest[k - Len(past)]
    BY <1>1
  <2> QED
    BY <2>1
<1> QED
  BY <1>2, <1>3 DEF Extends

LEMMA PlacesAreTimelines ==
    ASSUME NEW ts, NEW r
    PROVE  Places(ts, r) = {i \in 0..Len(ts) : Extends(r, TimelineTo(ts, i + 1))}
<1>1. ASSUME NEW i \in 0..Len(ts)
      PROVE  TimelineTo(ts, i + 1) =
                 IF i = 0 THEN <<>> ELSE ts[i].request \o AnswerIn(ts[i].answer)
  <2>1. (i + 1 = 1 <=> i = 0) /\ i + 1 - 1 = i
    OBVIOUS
  <2> QED
    BY <2>1 DEF TimelineTo
<1> QED
  BY <1>1 DEF Places

LEMMA TheLast ==
    ASSUME NEW S \in SUBSET Nat, NEW n \in S, \A j \in S : j <= n
    PROVE  (CHOOSE i \in S : \A j \in S : j <= i) = n
<1>1. \A i \in S : (\A j \in S : j <= i) <=> i = n
  OBVIOUS
<1> QED
  BY <1>1

\* plan_turns and validate_timeline agree with the reference.
LEMMA PlannedAtLastPlace ==
    ASSUME NEW system, NEW r \in Requests, SoundTurns(session.turns),
           Plan(session, system, r) # Refused
    PROVE  LET p == Plan(session, system, r)
               places == Places(session.turns, r)
           IN  /\ p.from - 1 \in places /\ p.from \in Nat
               /\ \A j \in places : j <= p.from - 1
<1> DEFINE ts == session.turns
           p == Plan(session, system, r)
           sent == Suffix(ts, p, UsersOf(r))
<1>1. r \in Seq(Digests) /\ r # <<>> /\ ts \in Seq(AnyTurn) /\ Len(ts) \in Nat
  BY RequestsAreTimelines DEF SoundTurns
<1>2. /\ p = PlanTurns(ts, UsersOf(r)) /\ p.from \in 1..Len(ts) + 1
      /\ sent \in Seq(Users) /\ r = TimelineTo(ts, p.from) \o sent
      /\ p.from # 1 => sent # <<>>
  BY <1>1, PlanIsSound
<1>3. PlanTurns(ts, UsersOf(r)) # Refused
  BY <1>2
<1> HIDE DEF ts, p, sent
<1>4. SoundTurns(ts)
  BY DEF ts
<1>5. p.from \in Nat /\ p.from - 1 \in 0..Len(ts) /\ (p.from - 1) + 1 = p.from
  BY <1>1, <1>2
<1>6. sent # <<>>
  <2> SUFFICES ASSUME p.from = 1, sent = <<>> PROVE FALSE
    BY <1>2
  <2>1. TimelineTo(ts, 1) = <<>> /\ <<>> \o <<>> = <<>>
    BY DEF TimelineTo
  <2> QED
    BY <1>1, <1>2, <2>1
<1>7. Extends(r, TimelineTo(ts, p.from))
  <2>1. TimelineTo(ts, p.from) \in Seq(Digests)
    BY <1>2, <1>4, TimelineToTyped
  <2> QED
    BY <1>2, <1>6, <2>1, UsersExtend
<1>8. p.from - 1 \in Places(ts, r)
  BY <1>5, <1>7, PlacesAreTimelines
<1>9. ASSUME NEW j \in Places(ts, r) PROVE j <= p.from - 1
  <2>1. j \in 0..Len(ts) /\ Extends(r, TimelineTo(ts, j + 1)) /\ j + 1 \in 1..Len(ts) + 1
    BY <1>1, PlacesAreTimelines
  <2>2. SUFFICES ASSUME p.from <= j PROVE FALSE
    BY <1>5, <2>1
  <2>3. TimelineTo(ts, j + 1) \in Seq(Digests) /\ UsersOf(TimelineTo(ts, j + 1)) = UsersTo(ts, j)
    <3>1. j + 1 - 1 = j
      BY <2>1
    <3> QED
      BY <1>4, <2>1, <3>1, TimelineToTyped
  <2>4. PICK rest \in Seq(Users) : rest # <<>> /\ r = TimelineTo(ts, j + 1) \o rest
    BY <1>1, <2>1, <2>3, ExtendsByUsers
  <2>5. UsersOf(r) = UsersTo(ts, j) \o rest
    <3>1. rest \in Seq(Digests) /\ UsersOf(rest) = rest
      BY UsersOfUsers
    <3> QED
      BY <2>3, <2>4, <3>1, UsersOfConcat
  <2>6. UsersOf(r) \in Seq(Users) /\ j \in 1..Len(ts)
    <3>1. UsersOf(r) \in Seq(Users)
      BY <1>1, UsersOfTyped
    <3>2. p.from # 0
      BY <1>1, <1>2
    <3>3. j \in Nat /\ j <= Len(ts) /\ j # 0
      BY ONLY <1>1, <1>5, <2>1, <2>2, <3>2
    <3> QED
      BY <1>1, <3>1, <3>3
  <2>7. PlanTurns(ts, UsersOf(r)).from <= j
    BY <1>2, <2>2
  <2>8. rest = <<>>
    BY <1>1, <1>3, <2>5, <2>6, <2>7, PlanIsLast
  <2> QED
    BY <2>4, <2>8
<1> QED
  BY <1>5, <1>8, <1>9 DEF ts, p

\* A request that is planned continues the conversation after the last of its turns
\* that it repeats and after which it has only messages of users, so that nothing
\* that is upstream is sent again (plan_turns, validate_timeline).
THEOREM PlansAreLastPlaces == Spec => []PlansLastPlace
<1>1. TurnsInv => PlansLastPlace
  <2> SUFFICES ASSUME TurnsInv, session # NoSession, NEW r \in Requests,
                      Plan(session, session.system, r) # Refused
               PROVE  LET p == Plan(session, session.system, r)
                          places == Places(session.turns, r)
                          last == CHOOSE i \in places : \A j \in places : j <= i
                      IN  places # {} /\ p.from = last + 1
    BY DEF PlansLastPlace
  <2> DEFINE p == Plan(session, session.system, r)
             places == Places(session.turns, r)
  <2>1. SoundTurns(session.turns)
    BY DEF TurnsInv
  <2>2. p.from - 1 \in places /\ p.from \in Nat /\ \A j \in places : j <= p.from - 1
    BY <2>1, PlannedAtLastPlace
  <2>3. places \in SUBSET Nat
    BY DEF Places
  <2> HIDE DEF p, places
  <2>4. (CHOOSE i \in places : \A j \in places : j <= i) = p.from - 1
    BY <2>2, <2>3, TheLast
  <2>5. (p.from - 1) + 1 = p.from /\ places # {}
    BY <2>2
  <2> QED
    BY <2>4, <2>5 DEF p, places
<1> QED
  BY <1>1, AlwaysTurns, PTL

-----------------------------------------------------------------------------
(* What an echo of the last turn is planned as                             *)

LEMMA RestOfConcat ==
    ASSUME NEW S, NEW s \in Seq(S), NEW rest \in Seq(S)
    PROVE  SubSeq(s \o rest, Len(s) + 1, Len(s \o rest)) = rest
OBVIOUS

LEMMA UsersOfAssistant ==
    ASSUME NEW x \in Assistants
    PROVE  <<x>> \in Seq(Digests) /\ UsersOf(<<x>>) = <<>>
<1>1. x \in Digests /\ x \notin Users
  BY RolesDiffer DEF Digests
<1>2. <<x>> \in Seq(Digests)
  BY <1>1
<1>3. UserDigests[x] = <<>>
  BY <1>1 DEF UserDigests, UserIn
<1>4. FlatMap(UserDigests, <<x>>) = UserDigests[x]
  BY <1>1, UserDigestsMap, FlatMapOne
<1> QED
  BY <1>2, <1>3, <1>4, UsersOfIsMap

\* More messages of users than the turns have are an append, and it sends them.
LEMMA MoreUsersAppend ==
    ASSUME NEW ts \in Seq(AnyTurn), ts # <<>>, NEW rest \in Seq(Users), rest # <<>>
    PROVE  LET p == [kind |-> "append", from |-> Len(ts) + 1]
               users == UsersTo(ts, Len(ts)) \o rest
           IN  PlanTurns(ts, users) = p /\ Suffix(ts, p, users) = rest
<1> DEFINE p == [kind |-> "append", from |-> Len(ts) + 1]
<1>1. Len(ts) \in Nat /\ Len(ts) \in 0..Len(ts) /\ (Len(ts) + 1) - 1 = Len(ts)
      /\ Len(ts) + 1 \in 1..Len(ts) + 1
  OBVIOUS
<1>2. PICK past \in Seq(Users) : past = UsersTo(ts, Len(ts))
  BY <1>1, UsersToTyped
<1>3. Committed(ts) = past
  BY <1>2, CommittedIsAll
<1>4. /\ IsStrictPrefix(past, past \o rest) /\ Len(past) < Len(past \o rest)
      /\ SubSeq(past \o rest, Len(past) + 1, Len(past \o rest)) = rest
  BY RestMakesStrictPrefix
<1>5. Before(ts, Len(ts) + 1) = Len(past)
  BY <1>1, <1>2, BeforeIsLength
<1>6. Suffix(ts, p, past \o rest) = rest
  BY <1>4, <1>5 DEF Suffix
<1>7. Len(past) \in Nat /\ Len(past \o rest) \in Nat /\ past \o rest # past
  BY <1>4
<1>8. PlanTurns(ts, past \o rest) = p
  BY <1>3, <1>4, <1>7 DEF PlanTurns
<1> QED
  BY <1>2, <1>6, <1>8

\* Messages of users after a timeline with the messages of users of all turns.
LEMMA EchoUsers ==
    ASSUME NEW ts, SoundTurns(ts), NEW past \in Seq(Digests),
           UsersOf(past) = UsersTo(ts, Len(ts)), NEW r \in Seq(Digests), Extends(r, past)
    PROVE  \E rest \in Seq(Users) :
              LET p == [kind |-> "append", from |-> Len(ts) + 1]
              IN  /\ rest # <<>> /\ r = past \o rest
                  /\ PlanTurns(ts, UsersOf(r)) = p /\ Suffix(ts, p, UsersOf(r)) = rest
<1>1. PICK rest \in Seq(Users) : rest # <<>> /\ r = past \o rest
  BY ExtendsByUsers
<1>2. rest \in Seq(Digests) /\ UsersOf(rest) = rest
  BY UsersOfUsers
<1>3. UsersOf(r) = UsersTo(ts, Len(ts)) \o rest
  BY <1>1, <1>2, UsersOfConcat
<1>4. ts \in Seq(AnyTurn) /\ ts # <<>>
  BY DEF SoundTurns
<1> QED
  BY <1>1, <1>3, <1>4, MoreUsersAppend

LEMMA EchoAppends ==
    ASSUME SoundTurns(session.turns), session.state = "Committed",
           NEW r \in Requests,
           Extends(r, Last(session.turns).request \o AnswerIn(Last(session.turns).answer))
    PROVE  Plan(session, session.system, r).kind = "append"
<1> DEFINE ts == session.turns
           past == Last(ts).request \o AnswerIn(Last(ts).answer)
           p == [kind |-> "append", from |-> Len(ts) + 1]
<1>1. ts \in Seq(AnyTurn) /\ ts # <<>> /\ Len(ts) \in Nat /\ Len(ts) # 0
      /\ Last(ts) = ts[Len(ts)] /\ r \in Seq(Digests)
  BY RequestsAreTimelines DEF SoundTurns, Last
<1>2. past = TimelineTo(ts, Len(ts) + 1)
  <2>1. Len(ts) + 1 # 1 /\ (Len(ts) + 1) - 1 = Len(ts)
    BY <1>1
  <2> QED
    BY <1>1, <2>1 DEF TimelineTo
<1>3. past \in Seq(Digests) /\ UsersOf(past) = UsersTo(ts, Len(ts))
  <2>1. Len(ts) + 1 \in 1..Len(ts) + 1 /\ (Len(ts) + 1) - 1 = Len(ts)
    BY <1>1
  <2> QED
    BY <1>2, <2>1, TimelineToTyped
<1>4. ParentTimeline(ts, p) = past
  BY DEF ParentTimeline
<1> HIDE DEF past, ts, p
<1>5. SoundTurns(ts) /\ Extends(r, past)
  BY DEF past, ts
<1>6. PICK rest \in Seq(Users) :
          r = past \o rest /\ PlanTurns(ts, UsersOf(r)) = p /\ Suffix(ts, p, UsersOf(r)) = rest
  BY <1>1, <1>3, <1>5, EchoUsers DEF p
<1>7. Valid(ts, p, r)
  BY <1>4, <1>6 DEF Valid
<1>8. p # Refused /\ p.kind = "append"
  BY DEF p, Refused
<1> QED
  BY <1>6, <1>7, <1>8 DEF Plan, ts

LEMMA OtherAnswerRefused ==
    ASSUME SoundTurns(session.turns), NEW r \in Requests,
           Last(session.turns).answer # NoText,
           NEW x \in Assistants \ {Last(session.turns).answer},
           Extends(r, Last(session.turns).request \o <<x>>)
    PROVE  Plan(session, session.system, r) = Refused
<1> DEFINE ts == session.turns
           p == [kind |-> "append", from |-> Len(ts) + 1]
<1>1. ts \in Seq(AnyTurn) /\ ts # <<>> /\ Len(ts) \in Nat /\ Len(ts) \in 1..Len(ts)
      /\ Last(ts) = ts[Len(ts)] /\ r \in Seq(Digests)
  BY RequestsAreTimelines DEF SoundTurns, Last
<1>2. Sound(ts, Len(ts)) /\ ts[Len(ts)] \in AnyTurn
  BY <1>1 DEF SoundTurns
<1>3. PICK before \in Seq(Digests), a \in Answers :
          /\ before = Last(ts).request /\ a = Last(ts).answer
          /\ UsersOf(before) = UsersTo(ts, Len(ts))
  BY <1>1, <1>2 DEF Sound, AnyTurn
<1>4. <<x>> \in Seq(Digests) /\ UsersOf(<<x>>) = <<>>
  BY UsersOfAssistant
<1>5. before \o <<x>> \in Seq(Digests) /\ UsersOf(before \o <<x>>) = UsersTo(ts, Len(ts))
  <2>1. UsersOf(before \o <<x>>) = UsersOf(before) \o <<>> /\ UsersOf(before) \in Seq(Users)
    BY <1>4, UsersOfConcat, UsersOfTyped
  <2>2. UsersOf(before) \o <<>> = UsersOf(before)
    BY <2>1
  <2> QED
    BY <1>3, <1>4, <2>1, <2>2
<1>6. ParentTimeline(ts, p) = before \o <<a>> /\ a # NoText /\ a # x
  BY <1>3 DEF ParentTimeline, AnswerIn
<1>7. a \in Digests
  BY <1>6, RolesDiffer DEF Digests
<1> HIDE DEF ts, p
<1>8. SoundTurns(ts) /\ Extends(r, before \o <<x>>)
  BY <1>3 DEF ts
<1> PICK past \in Seq(Digests) : past = before \o <<x>>
  BY <1>5
<1>9. PICK rest \in Seq(Users) :
          /\ r = (before \o <<x>>) \o rest /\ PlanTurns(ts, UsersOf(r)) = p
          /\ Suffix(ts, p, UsersOf(r)) = rest
  <2>1. /\ SoundTurns(ts) /\ past \in Seq(Digests) /\ r \in Seq(Digests)
        /\ Extends(r, past) /\ UsersOf(past) = UsersTo(ts, Len(ts))
    BY <1>1, <1>5, <1>8
  <2>2. PICK rest \in Seq(Users) :
            r = past \o rest /\ PlanTurns(ts, UsersOf(r)) = p /\ Suffix(ts, p, UsersOf(r)) = rest
    BY ONLY <2>1, EchoUsers DEF p
  <2> QED
    BY <2>2
<1>10. rest \in Seq(Digests)
  BY UsersOfUsers
<1>11. (before \o <<x>>) \o rest # (before \o <<a>>) \o rest
  <2>1. \A y \in Digests : ((before \o <<y>>) \o rest)[Len(before) + 1] = y
    BY <1>10
  <2>2. x \in Digests
    BY DEF Digests
  <2> QED
    BY <1>6, <1>7, <2>1, <2>2
<1>12. ~Valid(ts, p, r)
  BY <1>6, <1>9, <1>11 DEF Valid
<1> QED
  BY <1>9, <1>12 DEF Plan, ts

LEMMA OwnRegenerates ==
    ASSUME SoundTurns(session.turns), session.state = "Committed",
           LET t == Last(session.turns) IN t.parentTimeline \o t.users = t.request
    PROVE  Plan(session, session.system, Last(session.turns).request).kind = "regenerate"
<1> DEFINE ts == session.turns
           t == Last(ts)
           n == Len(ts)
           p == [kind |-> "regenerate", from |-> n]
<1>1. ts \in Seq(AnyTurn) /\ ts # <<>> /\ n \in Nat /\ n \in 1..n /\ n - 1 \in 0..n
      /\ n \in 1..n + 1 /\ t = ts[n]
  BY DEF SoundTurns, Last
<1>2. Sound(ts, n) /\ ts[n] \in AnyTurn
  BY <1>1 DEF SoundTurns
<1>3. UsersOf(t.request) = UsersTo(ts, n) /\ t.users \in Seq(Users)
  BY <1>1, <1>2 DEF Sound, AnyTurn
<1>4. UsersTo(ts, n) = UsersTo(ts, n - 1) \o t.users /\ UsersTo(ts, n - 1) \in Seq(Users)
  BY <1>1, UsersToNext, UsersToTyped
<1>5. Committed(ts) = UsersOf(t.request)
  BY <1>1, <1>3, CommittedIsAll
<1>6. PlanTurns(ts, UsersOf(t.request)) = p
  <2>1. ~(Len(UsersOf(t.request)) < Len(Committed(ts)))
    <3>1. UsersTo(ts, n) \in Seq(Users)
      BY <1>3, <1>4
    <3>2. Len(UsersTo(ts, n)) \in Nat
      BY <3>1
    <3> QED
      BY <1>3, <1>5, <3>2
  <2> QED
    BY <1>1, <1>5, <2>1 DEF PlanTurns
<1>7. Suffix(ts, p, UsersOf(t.request)) = t.users
  <2>1. Before(ts, n) = Len(UsersTo(ts, n - 1))
    BY <1>1, BeforeIsLength
  <2>2. PICK x \in Seq(Users), y \in Seq(Users) : x = UsersTo(ts, n - 1) /\ y = t.users
    BY <1>3, <1>4
  <2>3. SubSeq(x \o y, Len(x) + 1, Len(x \o y)) = y
    BY RestOfConcat
  <2> QED
    BY <1>3, <1>4, <2>1, <2>2, <2>3 DEF Suffix
<1>8. ParentTimeline(ts, p) = t.parentTimeline
  BY <1>1 DEF ParentTimeline
<1>9. Valid(ts, p, t.request) /\ p # Refused /\ p.kind = "regenerate"
  BY <1>7, <1>8 DEF Valid, Refused
<1> HIDE DEF p
<1> QED
  BY <1>6, <1>9 DEF Plan

\* A client that sends its request and the answer again, with more messages of users,
\* continues the conversation; with another answer in its place it is refused, so that
\* its session is rebuilt; and one that sends its request again regenerates the answer,
\* unless the conversation began with answers that the service has not given
\* (plan_turns, validate_timeline, commit_explicit_turn).
THEOREM EchoesContinue == Spec => []EchoContinues
<1>1. TurnsInv => EchoContinues
  <2> SUFFICES ASSUME TurnsInv, session # NoSession, session.state = "Committed"
               PROVE  EchoContinues
    BY DEF EchoContinues
  <2>1. SoundTurns(session.turns)
    BY DEF TurnsInv
  <2>2. Refused.kind = "refused"
    BY DEF Refused
  <2> QED
    BY <2>1, <2>2, EchoAppends, OtherAnswerRefused, OwnRegenerates DEF EchoContinues
<1> QED
  BY <1>1, AlwaysTurns, PTL

-----------------------------------------------------------------------------
(* Blocks of messages and pieces of content                                *)

AllValues == Values \cup {Blank}
AllNames == Names \cup {NoName}

Texts == [type : {"text"}, value : AllValues]
Attachments == [type : {"attachment"}, value : AllValues, name : AllNames]
Uploads == [type : {"data"}, value : AllValues, name : AllNames]
                \cup [type : {"file"}, value : AllValues, padded : BOOLEAN]
Pastes == [type : {"paste"}, texts : Seq(Texts)]
Pieces == Texts \cup Attachments \cup Uploads \cup Pastes

OkBlocks == {b \in Blocks : ~Refuses(b)}

\* What the two ways of sending make of a block that is not refused.
LEMMA BlockIs ==
    ASSUME NEW b \in OkBlocks
    PROVE  /\ b.value \in AllValues /\ b.name \in AllNames /\ b.padded \in BOOLEAN
           /\ \/ /\ b.kind = "text" /\ b.value = Blank /\ b.name = NoName
                 /\ NormalizedBlock(b) = <<>> /\ MergedBlock(b) = <<>>
              \/ /\ b.kind = "text" /\ b.value # Blank /\ b.name = NoName
                 /\ NormalizedBlock(b) = <<Text(b.value)>> /\ MergedBlock(b) = <<Text(b.value)>>
              \/ /\ b.kind = "textDocument" /\ b.value # Blank
                 /\ NormalizedBlock(b) = <<Attachment(b.value, b.name)>>
                 /\ MergedBlock(b) = <<Attachment(b.value, b.name)>>
              \/ /\ b.kind \in {"image", "dataUrl", "dataDocument"} /\ b.value # Blank
                 /\ NormalizedBlock(b) = <<Data(b.value, b.name)>>
                 /\ MergedBlock(b) = <<Data(b.value, b.name)>>
              \/ /\ b.kind \in {"imageFile", "container", "fileDocument"} /\ b.value # Blank
                 /\ b.name = NoName /\ NormalizedBlock(b) = <<File(b.value, FALSE)>>
                 /\ \/ MergedBlock(b) = <<File(b.value, FALSE)>>
                    \/ MergedBlock(b) = <<File(b.value, TRUE)>>
<1>1. /\ b.value \in AllValues /\ b.name \in AllNames /\ b.padded \in BOOLEAN /\ b.kind \in Kinds
      /\ b.name # NoName => b.kind \in {"textDocument", "dataDocument"}
      /\ b.value = Blank => b.kind \in Trimmed
  BY DEF OkBlocks, Blocks, AllValues, AllNames, Named
<1>2. /\ b.kind \notin {"remoteUrl", "urlDocument", "other"}
      /\ ~(b.kind \in Trimmed \ {"text"} /\ b.value = Blank)
  BY DEF OkBlocks, Refuses
<1>3. Trimmed = {"imageFile", "container", "fileDocument", "text", "textDocument", "dataDocument"}
  BY DEF Trimmed, WithId
<1>4. CASE b.kind = "text"
  BY <1>1, <1>4 DEF NormalizedBlock, MergedBlock
<1>5. CASE b.kind = "textDocument"
  BY <1>1, <1>2, <1>3, <1>5 DEF NormalizedBlock, MergedBlock
<1>6. CASE b.kind \in {"image", "dataUrl"}
  BY <1>1, <1>2, <1>3, <1>6 DEF NormalizedBlock, MergedBlock
<1>7. CASE b.kind = "dataDocument"
  BY <1>1, <1>2, <1>3, <1>7 DEF NormalizedBlock, MergedBlock
<1>8. CASE b.kind = "fileDocument"
  BY <1>1, <1>2, <1>3, <1>8 DEF NormalizedBlock, MergedBlock
<1>9. CASE b.kind \in {"imageFile", "container"}
  <2>1. NormalizedBlock(b) = <<File(b.value, FALSE)>>
    BY <1>9 DEF NormalizedBlock
  <2>2. MergedBlock(b) = <<File(b.value, b.padded)>>
    BY <1>9 DEF MergedBlock
  <2>3. b.value # Blank /\ b.name = NoName
    BY <1>1, <1>2, <1>3, <1>9
  <2>4. b.padded = TRUE \/ b.padded = FALSE
    BY <1>1
  <2> QED
    BY <1>1, <1>9, <2>1, <2>2, <2>3, <2>4
<1> QED
  BY <1>1, <1>2, <1>4, <1>5, <1>6, <1>7, <1>8, <1>9 DEF Kinds

LEMMA PieceIs ==
    ASSUME NEW v \in AllValues, NEW n \in AllNames, NEW padded \in BOOLEAN
    PROVE  /\ Text(v) \in Texts /\ Attachment(v, n) \in Attachments
           /\ Data(v, n) \in Uploads /\ File(v, padded) \in Uploads
BY DEF Text, Attachment, Data, File, Texts, Attachments, Uploads

LEMMA PieceTypes ==
    /\ \A p \in Texts : p \in Pieces /\ p.type = "text"
    /\ \A p \in Attachments : p \in Pieces /\ p.type = "attachment"
    /\ \A p \in Uploads : p \in Pieces /\ p.type \in {"data", "file"}
    /\ \A p \in Pastes : p \in Pieces /\ p.type = "paste" /\ p.texts \in Seq(Texts)
    /\ \A p \in Pieces : p \in Texts \/ p \in Attachments \/ p \in Uploads \/ p \in Pastes
BY DEF Texts, Attachments, Uploads, Pastes, Pieces

LEMMA BlocksTyped ==
    ASSUME NEW b \in OkBlocks
    PROVE  NormalizedBlock(b) \in Seq(Pieces) /\ MergedBlock(b) \in Seq(Pieces)
<1>1. b.value \in AllValues /\ b.name \in AllNames
  BY BlockIs
<1>2. /\ <<Text(b.value)>> \in Seq(Pieces) /\ <<Attachment(b.value, b.name)>> \in Seq(Pieces)
      /\ <<Data(b.value, b.name)>> \in Seq(Pieces) /\ <<File(b.value, FALSE)>> \in Seq(Pieces)
      /\ <<File(b.value, TRUE)>> \in Seq(Pieces) /\ <<>> \in Seq(Pieces)
  <2>1. /\ Text(b.value) \in Pieces /\ Attachment(b.value, b.name) \in Pieces
        /\ Data(b.value, b.name) \in Pieces /\ File(b.value, FALSE) \in Pieces
        /\ File(b.value, TRUE) \in Pieces
    BY <1>1, PieceIs, PieceTypes
  <2>2. <<>> \in Seq(Pieces) /\ \A p \in Pieces : <<p>> \in Seq(Pieces)
    OBVIOUS
  <2> QED
    BY <2>1, <2>2
<1> QED
  BY <1>2, BlockIs
-----------------------------------------------------------------------------
(* What is made of blocks and pieces, as functions                         *)

Normal == [b \in OkBlocks |-> NormalizedBlock(b)]
Merge == [b \in OkBlocks |-> MergedBlock(b)]
Pick(types) == [p \in Pieces |-> IF p.type \in types THEN <<p>> ELSE <<>>]
Unpaste == [p \in Pieces |-> IF p.type = "paste" THEN p.texts ELSE <<>>]

LEMMA NormalMap == Normal \in Maps(OkBlocks, Pieces) /\ Merge \in Maps(OkBlocks, Pieces)
BY BlocksTyped DEF Normal, Merge, Maps

LEMMA PickMap ==
    /\ \A types : Pick(types) \in Maps(Pieces, Pieces)
    /\ Pick({"text"}) \in Maps(Pieces, Texts)
    /\ Pick({"attachment"}) \in Maps(Pieces, Attachments)
    /\ Pick({"data", "file"}) \in Maps(Pieces, Uploads)
<1>1. ASSUME NEW types PROVE Pick(types) \in Maps(Pieces, Pieces)
  BY DEF Pick, Maps
<1>2. /\ \A p \in Pieces : p.type = "text" => p \in Texts
      /\ \A p \in Pieces : p.type = "attachment" => p \in Attachments
      /\ \A p \in Pieces : p.type \in {"data", "file"} => p \in Uploads
  BY PieceTypes
<1>3. Pick({"text"}) \in Maps(Pieces, Texts)
  BY <1>2 DEF Pick, Maps
<1>4. Pick({"attachment"}) \in Maps(Pieces, Attachments)
  BY <1>2 DEF Pick, Maps
<1>5. Pick({"data", "file"}) \in Maps(Pieces, Uploads)
  BY <1>2 DEF Pick, Maps
<1> QED
  BY <1>1, <1>3, <1>4, <1>5

LEMMA UnpasteMap == Unpaste \in Maps(Pieces, Texts)
<1>1. \A p \in Pieces : p.type = "paste" => p.texts \in Seq(Texts)
  BY PieceTypes
<1> QED
  BY <1>1 DEF Unpaste, Maps

LEMMA OfIsMap ==
    ASSUME NEW types, NEW s \in Seq(Pieces)
    PROVE  Of(types, s) = FlatMap(Pick(types), s)
<1>1. \A i \in DOMAIN s : s[i] \in Pieces
  OBVIOUS
<1>2. [i \in DOMAIN s |-> IF s[i].type \in types THEN <<s[i]>> ELSE <<>>] = Parts(Pick(types), s)
  BY <1>1 DEF Parts, Pick
<1> QED
  BY <1>2 DEF Of, FlatMap

LEMMA PastedIsMap ==
    ASSUME NEW s \in Seq(Pieces)
    PROVE  Pasted(s) = FlatMap(Unpaste, s)
<1>1. \A i \in DOMAIN s : s[i] \in Pieces
  OBVIOUS
<1>2. [i \in DOMAIN s |-> IF s[i].type = "paste" THEN s[i].texts ELSE <<>>] = Parts(Unpaste, s)
  BY <1>1 DEF Parts, Unpaste
<1> QED
  BY <1>2 DEF Pasted, FlatMap

LEMMA PickOne ==
    ASSUME NEW types, NEW p \in Pieces
    PROVE  FlatMap(Pick(types), <<p>>) = IF p.type \in types THEN <<p>> ELSE <<>>
<1>1. Pick(types) \in Maps(Pieces, Pieces)
  BY PickMap
<1>2. FlatMap(Pick(types), <<p>>) = Pick(types)[p]
  BY <1>1, FlatMapOne
<1> QED
  BY <1>2 DEF Pick

LEMMA OfTyped ==
    ASSUME NEW s \in Seq(Pieces)
    PROVE  /\ \A types : Of(types, s) \in Seq(Pieces)
           /\ Of({"text"}, s) \in Seq(Texts) /\ Of({"attachment"}, s) \in Seq(Attachments)
           /\ Of({"data", "file"}, s) \in Seq(Uploads)
<1>1. \A types : FlatMap(Pick(types), s) \in Seq(Pieces)
  <2> SUFFICES ASSUME NEW types PROVE FlatMap(Pick(types), s) \in Seq(Pieces)
    OBVIOUS
  <2>1. Pick(types) \in Maps(Pieces, Pieces)
    BY PickMap
  <2> QED
    BY <2>1, FlatMapTyped
<1>2. FlatMap(Pick({"text"}), s) \in Seq(Texts)
  BY PickMap, FlatMapTyped
<1>3. FlatMap(Pick({"attachment"}), s) \in Seq(Attachments)
  BY PickMap, FlatMapTyped
<1>4. FlatMap(Pick({"data", "file"}), s) \in Seq(Uploads)
  BY PickMap, FlatMapTyped
<1> QED
  BY <1>1, <1>2, <1>3, <1>4, OfIsMap

LEMMA OfConcat ==
    ASSUME NEW types, NEW s \in Seq(Pieces), NEW t \in Seq(Pieces)
    PROVE  Of(types, s \o t) = Of(types, s) \o Of(types, t)
<1>1. Pick(types) \in Maps(Pieces, Pieces) /\ s \o t \in Seq(Pieces)
  BY PickMap
<1>2. FlatMap(Pick(types), s \o t) = FlatMap(Pick(types), s) \o FlatMap(Pick(types), t)
  BY <1>1, FlatMapConcat
<1> QED
  BY <1>1, <1>2, OfIsMap

LEMMA OfAgain ==
    ASSUME NEW types, NEW s \in Seq(Pieces)
    PROVE  Of(types, Of(types, s)) = Of(types, s)
<1>1. Pick(types) \in Maps(Pieces, Pieces)
  BY PickMap
<1>2. \A p \in Pieces : Pick(types)[p] = FlatMap(Pick(types), Pick(types)[p])
  <2> SUFFICES ASSUME NEW p \in Pieces
               PROVE  Pick(types)[p] = FlatMap(Pick(types), Pick(types)[p])
    OBVIOUS
  <2>1. CASE p.type \in types
    <3>1. Pick(types)[p] = <<p>>
      BY <2>1 DEF Pick
    <3> QED
      BY <2>1, <3>1, PickOne
  <2>2. CASE p.type \notin types
    <3>1. Pick(types)[p] = <<>>
      BY <2>2 DEF Pick
    <3> QED
      BY <3>1, FlatMapEmpty
  <2> QED
    BY <2>1, <2>2
<1>3. FlatMap(Pick(types), FlatMap(Pick(types), s)) = FlatMap(Pick(types), s)
  BY <1>1, <1>2, FlatMapTwice
<1> QED
  BY <1>3, OfIsMap, OfTyped

\* Among attachments of their own there is no pasted text.
LEMMA NothingPasted ==
    ASSUME NEW s \in Seq(Pieces)
    PROVE  Pasted(Of({"attachment"}, s)) = <<>>
<1> DEFINE f == Pick({"attachment"})
           none == [p \in Pieces |-> <<>>]
<1>1. f \in Maps(Pieces, Pieces) /\ Unpaste \in Maps(Pieces, Texts)
  BY PickMap, UnpasteMap
<1>2. none \in Maps(Pieces, Texts) /\ \A p \in Pieces : none[p] = <<>>
  BY DEF Maps
<1>3. \A p \in Pieces : none[p] = FlatMap(Unpaste, f[p])
  <2> SUFFICES ASSUME NEW p \in Pieces PROVE FlatMap(Unpaste, f[p]) = <<>>
    BY <1>2
  <2>1. CASE p.type = "attachment"
    <3>1. f[p] = <<p>> /\ Unpaste[p] = <<>>
      BY <2>1 DEF Pick, Unpaste
    <3>2. FlatMap(Unpaste, <<p>>) = Unpaste[p]
      BY <1>1, FlatMapOne
    <3> QED
      BY <3>1, <3>2
  <2>2. CASE p.type # "attachment"
    <3>1. f[p] = <<>>
      BY <2>2 DEF Pick
    <3> QED
      BY <3>1, FlatMapEmpty
  <2> QED
    BY <2>1, <2>2
<1> HIDE DEF f, none
<1>4. FlatMap(Unpaste, FlatMap(f, s)) = FlatMap(none, s)
  BY <1>1, <1>2, <1>3, FlatMapTwice
<1>5. FlatMap(none, s) = <<>>
  BY <1>2, FlatMapNone
<1>6. Of({"attachment"}, s) = FlatMap(f, s) /\ Of({"attachment"}, s) \in Seq(Pieces)
  BY OfIsMap, OfTyped DEF f
<1> QED
  BY <1>4, <1>5, <1>6, PastedIsMap

-----------------------------------------------------------------------------
(* What a turn says                                                        *)

GotTurns == [texts : Seq(Texts), attachments : Seq(Pieces), files : Seq(Uploads)]
TurnTexts == [t \in GotTurns |-> t.texts \o Pasted(t.attachments)]
TurnAttachments == [t \in GotTurns |-> Of({"attachment"}, t.attachments)]
TurnFiles == [t \in GotTurns |-> t.files]

LEMMA TurnMaps ==
    /\ TurnTexts \in Maps(GotTurns, Texts)
    /\ TurnAttachments \in Maps(GotTurns, Attachments)
    /\ TurnFiles \in Maps(GotTurns, Uploads)
<1>1. ASSUME NEW t \in GotTurns
      PROVE  /\ t.texts \o Pasted(t.attachments) \in Seq(Texts)
             /\ Of({"attachment"}, t.attachments) \in Seq(Attachments)
             /\ t.files \in Seq(Uploads)
  <2>1. t.texts \in Seq(Texts) /\ t.attachments \in Seq(Pieces) /\ t.files \in Seq(Uploads)
    BY DEF GotTurns
  <2>2. Pasted(t.attachments) \in Seq(Texts)
    BY <2>1, PastedIsMap, UnpasteMap, FlatMapTyped
  <2> QED
    BY <2>1, <2>2, OfTyped
<1> QED
  BY <1>1 DEF TurnTexts, TurnAttachments, TurnFiles, Maps

\* The turn t says what the pieces s say, but for the files.
TurnSays(t, s) ==
    /\ t \in GotTurns
    /\ TurnTexts[t] = Of({"text"}, s) /\ TurnAttachments[t] = Of({"attachment"}, s)

LEMMA TurnOfSays ==
    ASSUME NEW s \in Seq(Pieces)
    PROVE  TurnSays(TurnOf(s), s) /\ TurnFiles[TurnOf(s)] = Of({"data", "file"}, s)
<1> DEFINE t == TurnOf(s)
<1>1. /\ t.texts = Of({"text"}, s) /\ t.attachments = Of({"attachment"}, s)
      /\ t.files = Of({"data", "file"}, s)
  BY DEF TurnOf
<1>2. t \in GotTurns
  BY OfTyped DEF TurnOf, GotTurns
<1>3. Pasted(t.attachments) = <<>> /\ Of({"attachment"}, t.attachments) = t.attachments
  BY <1>1, NothingPasted, OfAgain
<1>4. t.texts \o <<>> = t.texts
  BY <1>1, OfTyped
<1> HIDE DEF t
<1> QED
  BY <1>1, <1>2, <1>3, <1>4 DEF TurnSays, TurnTexts, TurnAttachments, TurnFiles, t

\* Pasted, the texts are still said.
LEMMA PastedSays ==
    ASSUME NEW s \in Seq(Pieces), NEW t,
           t = [TurnOf(s) EXCEPT !.texts = <<>>, !.attachments = Append(@, Paste(TurnOf(s).texts))]
    PROVE  TurnSays(t, s) /\ TurnFiles[t] = Of({"data", "file"}, s)
<1>1. PICK texts \in Seq(Texts), own \in Seq(Pieces), files \in Seq(Uploads) :
          /\ texts = Of({"text"}, s) /\ own = Of({"attachment"}, s)
          /\ files = Of({"data", "file"}, s)
  BY OfTyped
<1>2. PICK p \in Pieces : p = Paste(texts) /\ p.type = "paste" /\ p.texts = texts
  <2>1. Paste(texts) \in Pastes /\ Paste(texts).type = "paste" /\ Paste(texts).texts = texts
    BY DEF Paste, Pastes
  <2> QED
    BY <2>1, PieceTypes
<1>3. PICK last \in Seq(Pieces), all \in Seq(Pieces) :
          last = <<p>> /\ all = own \o last /\ all = Append(own, p)
  <2>1. PICK last \in Seq(Pieces) : last = <<p>>
    <3>1. <<p>> \in Seq(Pieces)
      OBVIOUS
    <3> QED
      BY <3>1
  <2>2. own \o last \in Seq(Pieces) /\ own \o last = Append(own, p)
    BY <2>1, AppendIsConcat
  <2> QED
    BY <2>1, <2>2
<1>4. PICK u \in GotTurns :
          /\ u = TurnOf(s) /\ u.texts = texts /\ u.attachments = own /\ u.files = files
  <2>1. TurnOf(s) \in GotTurns
    BY TurnOfSays DEF TurnSays
  <2> QED
    BY <1>1, <2>1 DEF TurnOf
<1>5. t \in GotTurns /\ t.texts = <<>> /\ t.attachments = all /\ t.files = files
  <2>1. t = [u EXCEPT !.texts = <<>>, !.attachments = all]
    BY <1>2, <1>3, <1>4
  <2>2. <<>> \in Seq(Texts)
    OBVIOUS
  <2> QED
    BY ONLY <1>4, <2>1, <2>2 DEF GotTurns
<1>6. Pasted(all) = texts
  <2>1. FlatMap(Unpaste, own \o last) = FlatMap(Unpaste, own) \o FlatMap(Unpaste, last)
    <3>1. PICK f \in Maps(Pieces, Texts) : f = Unpaste
      BY UnpasteMap
    <3>2. own \in Seq(Pieces) /\ last \in Seq(Pieces)
      BY <1>1, <1>3
    <3>3. FlatMap(f, Cat(own, last)) = Cat(FlatMap(f, own), FlatMap(f, last))
      BY ONLY <3>2, FlatMapCat
    <3> QED
      BY <3>1, <3>3 DEF Cat
  <2>2. FlatMap(Unpaste, last) = texts
    <3>1. FlatMap(Unpaste, <<p>>) = Unpaste[p]
      BY UnpasteMap, FlatMapOne
    <3> QED
      BY <1>2, <1>3, <3>1 DEF Unpaste
  <2>3. FlatMap(Unpaste, own) = <<>>
    BY <1>1, NothingPasted, PastedIsMap
  <2>4. <<>> \o texts = texts
    OBVIOUS
  <2> QED
    BY <1>3, <2>1, <2>2, <2>3, <2>4, PastedIsMap
<1>7. Of({"attachment"}, all) = own
  <2>1. Of({"attachment"}, own \o last) = Of({"attachment"}, own) \o Of({"attachment"}, last)
    BY ONLY OfConcat
  <2>2. Of({"attachment"}, last) = <<>>
    <3>1. FlatMap(Pick({"attachment"}), <<p>>) = <<>>
      BY <1>2, PickOne
    <3> QED
      BY <1>3, <3>1, OfIsMap
  <2>3. Of({"attachment"}, own) = own
    BY <1>1, OfAgain
  <2>4. own \o <<>> = own
    OBVIOUS
  <2> QED
    BY <1>3, <2>1, <2>2, <2>3, <2>4
<1>8. TurnTexts[t] = texts
  <2>1. <<>> \o texts = texts
    OBVIOUS
  <2>2. TurnTexts[t] = t.texts \o Pasted(t.attachments)
    BY <1>5 DEF TurnTexts
  <2> QED
    BY <1>5, <1>6, <2>1, <2>2
<1>9. TurnAttachments[t] = own
  BY <1>5, <1>7 DEF TurnAttachments
<1>10. TurnFiles[t] = files
  BY <1>5 DEF TurnFiles
<1> QED
  BY <1>1, <1>5, <1>8, <1>9, <1>10 DEF TurnSays

-----------------------------------------------------------------------------
(* What messages say                                                       *)

OkMessages == Seq(OkBlocks)
Whole == [m \in OkMessages |-> m]
NormalMessage == [m \in OkMessages |-> FlatMap(Normal, m)]
MergeMessage == [m \in OkMessages |-> FlatMap(Merge, m)]
PiecesOf(messages) == FlatMap(NormalMessage, messages)

LEMMA MessageMaps ==
    /\ Whole \in Maps(OkMessages, OkBlocks)
    /\ NormalMessage \in Maps(OkMessages, Pieces)
    /\ MergeMessage \in Maps(OkMessages, Pieces)
<1>1. ASSUME NEW m \in OkMessages
      PROVE  FlatMap(Normal, m) \in Seq(Pieces) /\ FlatMap(Merge, m) \in Seq(Pieces)
  BY NormalMap, FlatMapTyped DEF OkMessages
<1>2. Whole \in Maps(OkMessages, OkBlocks)
  BY DEF Whole, Maps, OkMessages
<1>3. NormalMessage \in Maps(OkMessages, Pieces)
  BY <1>1 DEF NormalMessage, Maps
<1>4. MergeMessage \in Maps(OkMessages, Pieces)
  BY <1>1 DEF MergeMessage, Maps
<1> QED
  BY <1>2, <1>3, <1>4

LEMMA MessageIsMap ==
    ASSUME NEW m \in OkMessages
    PROVE  /\ Normalized(m) = FlatMap(Normal, m)
           /\ FlattenSeq([k \in DOMAIN m |-> MergedBlock(m[k])]) = FlatMap(Merge, m)
<1>1. \A k \in DOMAIN m : m[k] \in OkBlocks
  BY DEF OkMessages
<1>2. [k \in DOMAIN m |-> NormalizedBlock(m[k])] = Parts(Normal, m)
  BY <1>1 DEF Parts, Normal
<1>3. [k \in DOMAIN m |-> MergedBlock(m[k])] = Parts(Merge, m)
  BY <1>1 DEF Parts, Merge
<1> QED
  BY <1>2, <1>3 DEF Normalized, FlatMap

LEMMA PiecesAreNormalized ==
    ASSUME NEW ms \in Seq(OkMessages)
    PROVE  /\ PiecesOf(ms) \in Seq(Pieces)
           /\ FlattenSeq([i \in DOMAIN ms |-> Normalized(ms[i])]) = PiecesOf(ms)
<1>1. \A i \in DOMAIN ms : ms[i] \in OkMessages
  OBVIOUS
<1>2. \A i \in DOMAIN ms : Normalized(ms[i]) = NormalMessage[ms[i]]
  BY <1>1, MessageIsMap DEF NormalMessage
<1>3. [i \in DOMAIN ms |-> Normalized(ms[i])] = Parts(NormalMessage, ms)
  BY <1>2 DEF Parts
<1>4. PiecesOf(ms) \in Seq(Pieces)
  BY MessageMaps, FlatMapTyped DEF PiecesOf
<1> QED
  BY <1>3, <1>4 DEF PiecesOf, FlatMap

\* Message by message, or all their blocks.
LEMMA BlockByBlock ==
    ASSUME NEW ms \in Seq(OkMessages)
    PROVE  /\ FlattenSeq(ms) \in Seq(OkBlocks)
           /\ PiecesOf(ms) = FlatMap(Normal, FlattenSeq(ms))
           /\ FlatMap(MergeMessage, ms) = FlatMap(Merge, FlattenSeq(ms))
<1>1. FlatMap(Whole, ms) = FlattenSeq(ms)
  <2>1. \A i \in DOMAIN ms : Whole[ms[i]] = ms[i]
    BY DEF Whole
  <2>2. Parts(Whole, ms) = ms
    BY <2>1 DEF Parts
  <2> QED
    BY <2>2 DEF FlatMap
<1>2. FlatMap(Whole, ms) \in Seq(OkBlocks)
  BY MessageMaps, FlatMapTyped
<1>3. \A m \in OkMessages : /\ NormalMessage[m] = FlatMap(Normal, Whole[m])
                            /\ MergeMessage[m] = FlatMap(Merge, Whole[m])
  BY DEF NormalMessage, MergeMessage, Whole
<1>4. FlatMap(Normal, FlatMap(Whole, ms)) = FlatMap(NormalMessage, ms)
  BY <1>3, MessageMaps, NormalMap, FlatMapTwice
<1>5. FlatMap(Merge, FlatMap(Whole, ms)) = FlatMap(MergeMessage, ms)
  BY <1>3, MessageMaps, NormalMap, FlatMapTwice
<1> QED
  BY <1>1, <1>2, <1>4, <1>5 DEF PiecesOf

LEMMA MergedIs ==
    ASSUME NEW ms \in Seq(OkMessages)
    PROVE  /\ Merged(ms) = TurnOf(FlatMap(Merge, FlattenSeq(ms)))
           /\ FlatMap(Merge, FlattenSeq(ms)) \in Seq(Pieces)
<1>1. \A i \in DOMAIN ms : ms[i] \in OkMessages
  OBVIOUS
<1>2. \A i \in DOMAIN ms :
          FlattenSeq([k \in DOMAIN ms[i] |-> MergedBlock(ms[i][k])]) = MergeMessage[ms[i]]
  BY <1>1, MessageIsMap DEF MergeMessage
<1>3. [i \in DOMAIN ms |-> FlattenSeq([k \in DOMAIN ms[i] |-> MergedBlock(ms[i][k])])]
          = Parts(MergeMessage, ms)
  BY <1>2 DEF Parts
<1>4. FlatMap(Merge, FlattenSeq(ms)) \in Seq(Pieces)
  BY BlockByBlock, NormalMap, FlatMapTyped
<1> QED
  BY <1>3, <1>4, BlockByBlock DEF Merged, FlatMap

-----------------------------------------------------------------------------
(* The two ways of sending                                                 *)

\* What is picked of the pieces of a block.
NormalOf(types) == [b \in OkBlocks |-> FlatMap(Pick(types), Normal[b])]
MergeOf(types) == [b \in OkBlocks |-> FlatMap(Pick(types), Merge[b])]

LEMMA OfBlocks ==
    ASSUME NEW types, NEW blocks \in Seq(OkBlocks)
    PROVE  /\ NormalOf(types) \in Maps(OkBlocks, Pieces) /\ MergeOf(types) \in Maps(OkBlocks, Pieces)
           /\ Of(types, FlatMap(Normal, blocks)) = FlatMap(NormalOf(types), blocks)
           /\ Of(types, FlatMap(Merge, blocks)) = FlatMap(MergeOf(types), blocks)
<1>1. Pick(types) \in Maps(Pieces, Pieces)
  BY PickMap
<1>2. ASSUME NEW b \in OkBlocks
      PROVE  /\ FlatMap(Pick(types), Normal[b]) \in Seq(Pieces)
             /\ FlatMap(Pick(types), Merge[b]) \in Seq(Pieces)
  <2>1. Normal[b] \in Seq(Pieces) /\ Merge[b] \in Seq(Pieces)
    BY NormalMap, MapsOne
  <2> QED
    BY <1>1, <2>1, FlatMapTyped
<1>3. NormalOf(types) \in Maps(OkBlocks, Pieces)
  BY <1>2 DEF NormalOf, Maps
<1>4. MergeOf(types) \in Maps(OkBlocks, Pieces)
  BY <1>2 DEF MergeOf, Maps
<1>5. \A b \in OkBlocks : /\ NormalOf(types)[b] = FlatMap(Pick(types), Normal[b])
                          /\ MergeOf(types)[b] = FlatMap(Pick(types), Merge[b])
  BY DEF NormalOf, MergeOf
<1>6. FlatMap(Pick(types), FlatMap(Normal, blocks)) = FlatMap(NormalOf(types), blocks)
  BY <1>1, <1>3, <1>5, NormalMap, FlatMapTwice
<1>7. FlatMap(Pick(types), FlatMap(Merge, blocks)) = FlatMap(MergeOf(types), blocks)
  BY <1>1, <1>4, <1>5, NormalMap, FlatMapTwice
<1>8. FlatMap(Normal, blocks) \in Seq(Pieces) /\ FlatMap(Merge, blocks) \in Seq(Pieces)
  BY NormalMap, FlatMapTyped
<1> QED
  BY <1>3, <1>4, <1>6, <1>7, <1>8, OfIsMap

Padded == {p \in Uploads : p.type = "file" /\ p.padded}

\* The two ways differ in the padding of the id of a file.
LEMMA BlockDiffers ==
    ASSUME NEW b \in OkBlocks
    PROVE  Merge[b] = Normal[b] \/ \E v \in AllValues : /\ Normal[b] = <<File(v, FALSE)>>
                                                        /\ Merge[b] = <<File(v, TRUE)>>
<1>1. Merge[b] = MergedBlock(b) /\ Normal[b] = NormalizedBlock(b)
  BY DEF Merge, Normal
<1>2. b.value \in AllValues
  BY BlockIs
<1>3. \/ MergedBlock(b) = NormalizedBlock(b)
      \/ NormalizedBlock(b) = <<File(b.value, FALSE)>> /\ MergedBlock(b) = <<File(b.value, TRUE)>>
  BY BlockIs
<1> QED
  BY <1>1, <1>2, <1>3

LEMMA SaidAlike ==
    ASSUME NEW b \in OkBlocks
    PROVE  /\ MergeOf({"text"})[b] = NormalOf({"text"})[b]
           /\ MergeOf({"attachment"})[b] = NormalOf({"attachment"})[b]
           /\ \/ MergeOf({"data", "file"})[b] = NormalOf({"data", "file"})[b]
              \/ \E k \in 1..Len(MergeOf({"data", "file"})[b]) :
                    MergeOf({"data", "file"})[b][k] \in Padded
<1>1. \A types : /\ NormalOf(types)[b] = FlatMap(Pick(types), Normal[b])
                 /\ MergeOf(types)[b] = FlatMap(Pick(types), Merge[b])
  BY DEF NormalOf, MergeOf
<1>2. CASE Merge[b] = Normal[b]
  BY <1>1, <1>2
<1>3. ASSUME NEW v \in AllValues, Normal[b] = <<File(v, FALSE)>>, Merge[b] = <<File(v, TRUE)>>
      PROVE  /\ MergeOf({"text"})[b] = NormalOf({"text"})[b]
             /\ MergeOf({"attachment"})[b] = NormalOf({"attachment"})[b]
             /\ \E k \in 1..Len(MergeOf({"data", "file"})[b]) :
                    MergeOf({"data", "file"})[b][k] \in Padded
  <2>1. \A padded \in BOOLEAN : File(v, padded) \in Pieces /\ File(v, padded).type = "file"
    BY DEF File, Uploads, Pieces
  <2>2. \A padded \in BOOLEAN : /\ FlatMap(Pick({"text"}), <<File(v, padded)>>) = <<>>
                                /\ FlatMap(Pick({"attachment"}), <<File(v, padded)>>) = <<>>
                                /\ FlatMap(Pick({"data", "file"}), <<File(v, padded)>>)
                                        = <<File(v, padded)>>
    BY <2>1, PickOne
  <2>3. File(v, TRUE) \in Padded
    BY DEF File, Uploads, Padded
  <2>4. MergeOf({"data", "file"})[b] = <<File(v, TRUE)>>
    BY <1>1, <1>3, <2>2
  <2>5. /\ MergeOf({"text"})[b] = <<>> /\ NormalOf({"text"})[b] = <<>>
        /\ MergeOf({"attachment"})[b] = <<>> /\ NormalOf({"attachment"})[b] = <<>>
    BY <1>1, <1>3, <2>2
  <2>6. 1 \in 1..Len(<<File(v, TRUE)>>) /\ <<File(v, TRUE)>>[1] \in Padded
    <3>1. \A p \in Padded : 1 \in 1..Len(<<p>>) /\ <<p>>[1] = p
      OBVIOUS
    <3> QED
      BY <2>3, <3>1
  <2> QED
    BY <2>4, <2>5, <2>6
<1> QED
  BY <1>2, <1>3, BlockDiffers

\* A turn of either way says what its messages say; what is merged does not say the
\* files in the same words if one is padded.
LEMMA MergedSays ==
    ASSUME NEW ms \in Seq(OkMessages)
    PROVE  LET t == Merged(ms)
           IN  /\ TurnSays(t, PiecesOf(ms))
               /\ (\A k \in 1..Len(t.files) : t.files[k] \notin Padded)
                     => TurnFiles[t] = Of({"data", "file"}, PiecesOf(ms))
<1> DEFINE t == Merged(ms)
<1>1. PICK blocks \in Seq(OkBlocks), merged \in Seq(Pieces) :
          /\ blocks = FlattenSeq(ms) /\ merged = FlatMap(Merge, blocks)
          /\ t = TurnOf(merged) /\ PiecesOf(ms) = FlatMap(Normal, blocks)
  BY BlockByBlock, MergedIs
<1>2. \A types : /\ Of(types, merged) = FlatMap(MergeOf(types), blocks)
                 /\ Of(types, PiecesOf(ms)) = FlatMap(NormalOf(types), blocks)
                 /\ NormalOf(types) \in Maps(OkBlocks, Pieces)
                 /\ MergeOf(types) \in Maps(OkBlocks, Pieces)
  BY <1>1, OfBlocks
<1>3. TurnSays(t, merged) /\ TurnFiles[t] = Of({"data", "file"}, merged)
      /\ t.files = Of({"data", "file"}, merged)
  BY <1>1, TurnOfSays DEF TurnOf
<1> HIDE DEF t
<1>4. Of({"text"}, merged) = Of({"text"}, PiecesOf(ms))
  <2>1. \A b \in OkBlocks : MergeOf({"text"})[b] = NormalOf({"text"})[b]
    BY SaidAlike
  <2>2. FlatMap(MergeOf({"text"}), blocks) = FlatMap(NormalOf({"text"}), blocks)
    BY <1>2, <2>1, FlatMapAgree
  <2> QED
    BY <1>2, <2>2
<1>5. Of({"attachment"}, merged) = Of({"attachment"}, PiecesOf(ms))
  <2>1. \A b \in OkBlocks : MergeOf({"attachment"})[b] = NormalOf({"attachment"})[b]
    BY SaidAlike
  <2>2. FlatMap(MergeOf({"attachment"}), blocks) = FlatMap(NormalOf({"attachment"}), blocks)
    BY <1>2, <2>1, FlatMapAgree
  <2> QED
    BY <1>2, <2>2
<1>6. ASSUME \A k \in 1..Len(t.files) : t.files[k] \notin Padded
      PROVE  Of({"data", "file"}, merged) = Of({"data", "file"}, PiecesOf(ms))
  <2> DEFINE f == MergeOf({"data", "file"})
             g == NormalOf({"data", "file"})
  <2>1. f \in Maps(OkBlocks, Pieces) /\ g \in Maps(OkBlocks, Pieces)
    BY <1>2
  <2>2. \A b \in OkBlocks : f[b] = g[b] \/ \E k \in 1..Len(f[b]) : f[b][k] \in Padded
    BY SaidAlike
  <2>3. t.files = FlatMap(f, blocks)
    BY <1>2, <1>3
  <2> HIDE DEF f, g
  <2>4. \A k \in 1..Len(FlatMap(f, blocks)) : FlatMap(f, blocks)[k] \notin Padded
    BY <1>6, <2>3
  <2>5. FlatMap(f, blocks) = FlatMap(g, blocks)
    BY ONLY <2>1, <2>2, <2>4, FlatMapUnless
  <2> QED
    BY <1>2, <2>5 DEF f, g
<1>7. TurnSays(t, PiecesOf(ms))
  BY <1>3, <1>4, <1>5 DEF TurnSays
<1> QED
  BY <1>3, <1>6, <1>7 DEF t

LEMMA BundledSays ==
    ASSUME NEW ms \in Seq(OkMessages), NEW long \in BOOLEAN
    PROVE  LET t == Bundled(ms, long)
           IN TurnSays(t, PiecesOf(ms)) /\ TurnFiles[t] = Of({"data", "file"}, PiecesOf(ms))
<1>1. PICK s \in Seq(Pieces) : s = PiecesOf(ms) /\ s = FlattenSeq([i \in DOMAIN ms |-> Normalized(ms[i])])
  BY PiecesAreNormalized
<1>2. CASE Bundled(ms, long) = TurnOf(s)
  BY <1>1, <1>2, TurnOfSays
<1>3. CASE Bundled(ms, long)
              = [TurnOf(s) EXCEPT !.texts = <<>>, !.attachments = Append(@, Paste(TurnOf(s).texts))]
  BY <1>1, <1>3, PastedSays
<1> QED
  BY <1>1, <1>2, <1>3 DEF Bundled

-----------------------------------------------------------------------------
(* Turns and the messages they say                                         *)

\* The turns ts say what the messages ms say; "exact" includes the files.
Says(ts, ms, exact) ==
    /\ FlatMap(TurnTexts, ts) = Of({"text"}, PiecesOf(ms))
    /\ FlatMap(TurnAttachments, ts) = Of({"attachment"}, PiecesOf(ms))
    /\ exact => FlatMap(TurnFiles, ts) = Of({"data", "file"}, PiecesOf(ms))

\* The turn t alone says them.
SaysAll(t, ms, exact) ==
    /\ TurnSays(t, PiecesOf(ms))
    /\ exact => TurnFiles[t] = Of({"data", "file"}, PiecesOf(ms))

\* Every turn after the first says one message, the first those before.
OneEach(ts, ms, exact) ==
    \A j \in 1..Len(ts) :
        Says(SubSeq(ts, 1, j), SubSeq(ms, 1, (Len(ms) - Len(ts)) + j), exact)

LEMMA SaysOne ==
    ASSUME NEW t, NEW ms, NEW exact, SaysAll(t, ms, exact)
    PROVE  Says(<<t>>, ms, exact)
<1>1. t \in GotTurns
  BY DEF SaysAll, TurnSays
<1>2. FlatMap(TurnTexts, <<t>>) = TurnTexts[t]
  BY <1>1, TurnMaps, FlatMapOne
<1>3. FlatMap(TurnAttachments, <<t>>) = TurnAttachments[t]
  BY <1>1, TurnMaps, FlatMapOne
<1>4. FlatMap(TurnFiles, <<t>>) = TurnFiles[t]
  BY <1>1, TurnMaps, FlatMapOne
<1> QED
  BY <1>2, <1>3, <1>4 DEF Says, SaysAll, TurnSays

LEMMA PiecesNext ==
    ASSUME NEW ms \in Seq(OkMessages), NEW m \in OkMessages, NEW types
    PROVE  Of(types, PiecesOf(Append(ms, m)))
             = Of(types, PiecesOf(ms)) \o Of(types, PiecesOf(<<m>>))
<1>1. /\ FlatMap(NormalMessage, Append(ms, m)) = FlatMap(NormalMessage, ms) \o NormalMessage[m]
      /\ FlatMap(NormalMessage, <<m>>) = NormalMessage[m]
  BY MessageMaps, FlatMapNext, FlatMapOne
<1>2. PiecesOf(ms) \in Seq(Pieces) /\ PiecesOf(<<m>>) \in Seq(Pieces)
  <2>1. <<m>> \in Seq(OkMessages)
    OBVIOUS
  <2> QED
    BY <2>1, PiecesAreNormalized
<1>3. PiecesOf(Append(ms, m)) = PiecesOf(ms) \o PiecesOf(<<m>>)
  BY <1>1 DEF PiecesOf
<1> QED
  BY <1>2, <1>3, OfConcat

LEMMA SaysNext ==
    ASSUME NEW ts \in Seq(GotTurns), NEW ms \in Seq(OkMessages), NEW exact, Says(ts, ms, exact),
           NEW m \in OkMessages, NEW t, SaysAll(t, <<m>>, exact)
    PROVE  Says(Append(ts, t), Append(ms, m), exact)
<1>1. t \in GotTurns
  BY DEF SaysAll, TurnSays
<1>2. FlatMap(TurnTexts, Append(ts, t)) = FlatMap(TurnTexts, ts) \o TurnTexts[t]
  BY <1>1, TurnMaps, FlatMapNext
<1>3. FlatMap(TurnAttachments, Append(ts, t)) = FlatMap(TurnAttachments, ts) \o TurnAttachments[t]
  BY <1>1, TurnMaps, FlatMapNext
<1>4. FlatMap(TurnFiles, Append(ts, t)) = FlatMap(TurnFiles, ts) \o TurnFiles[t]
  BY <1>1, TurnMaps, FlatMapNext
<1>5. \A types : Of(types, PiecesOf(Append(ms, m)))
                    = Of(types, PiecesOf(ms)) \o Of(types, PiecesOf(<<m>>))
  BY PiecesNext
<1>6. FlatMap(TurnTexts, Append(ts, t)) = Of({"text"}, PiecesOf(Append(ms, m)))
  BY <1>2, <1>5 DEF Says, SaysAll, TurnSays
<1>7. FlatMap(TurnAttachments, Append(ts, t)) = Of({"attachment"}, PiecesOf(Append(ms, m)))
  BY <1>3, <1>5 DEF Says, SaysAll, TurnSays
<1>8. exact => FlatMap(TurnFiles, Append(ts, t)) = Of({"data", "file"}, PiecesOf(Append(ms, m)))
  BY <1>4, <1>5 DEF Says, SaysAll
<1> QED
  BY <1>6, <1>7, <1>8 DEF Says

\* A turn begins the conversation with all messages.
LEMMA BegunWithAll ==
    ASSUME NEW ms \in Seq(OkMessages), ms # <<>>, NEW t, NEW exact, SaysAll(t, ms, exact)
    PROVE  OneEach(<<t>>, ms, exact)
<1>1. SubSeq(<<t>>, 1, 1) = <<t>> /\ Len(<<t>>) = 1 /\ 1..1 = {1}
  <2>1. PICK s \in Seq({t}) : s = <<t>> /\ Len(s) = 1
    <3>1. <<t>> \in Seq({t})
      OBVIOUS
    <3> QED
      BY <3>1
  <2>2. SubSeq(s, 1, Len(s)) = s
    OBVIOUS
  <2> QED
    BY <2>1, <2>2
<1>2. SubSeq(ms, 1, (Len(ms) - 1) + 1) = ms
  <2>1. Len(ms) \in Nat /\ (Len(ms) - 1) + 1 = Len(ms)
    OBVIOUS
  <2> QED
    BY <2>1
<1>3. Says(<<t>>, ms, exact)
  BY SaysOne
<1> QED
  BY <1>1, <1>2, <1>3 DEF OneEach

\* A turn with one more message follows.
LEMMA ContinuedWithOne ==
    ASSUME NEW ts \in Seq(GotTurns), ts # <<>>, NEW ms \in Seq(OkMessages), Len(ts) <= Len(ms),
           NEW exact, OneEach(ts, ms, exact),
           NEW m \in OkMessages, NEW t, SaysAll(t, <<m>>, exact)
    PROVE  OneEach(Append(ts, t), Append(ms, m), exact)
<1>1. t \in GotTurns
  BY DEF SaysAll, TurnSays
<1>2. PICK us \in Seq(GotTurns), ns \in Seq(OkMessages) : us = Append(ts, t) /\ ns = Append(ms, m)
  <2>1. Append(ts, t) \in Seq(GotTurns) /\ Append(ms, m) \in Seq(OkMessages)
    BY <1>1, AppendProperties
  <2> QED
    BY <2>1
<1>3. PICK n \in Nat, k \in Nat : n = Len(ts) /\ k = Len(ms) /\ n <= k /\ n # 0
  BY EmptySeq
<1>4. /\ Len(us) = n + 1 /\ Len(ns) = k + 1
      /\ \A i \in 1..n : us[i] = ts[i]
      /\ \A i \in 1..k : ns[i] = ms[i]
  BY <1>1, <1>2, <1>3, AppendProperties
<1>5. ASSUME NEW j \in 1..n
      PROVE  Says(SubSeq(us, 1, j), SubSeq(ns, 1, (Len(ns) - Len(us)) + j), exact)
  <2>1. SubSeq(us, 1, j) = SubSeq(ts, 1, j)
    BY <1>2, <1>3, SubSeqOfAppend
  <2>2. (Len(ns) - Len(us)) + j = (k - n) + j /\ (k - n) + j \in 1..k
    BY <1>3, <1>4
  <2>3. SubSeq(ns, 1, (k - n) + j) = SubSeq(ms, 1, (k - n) + j)
    BY <1>2, <1>3, <2>2, SubSeqOfAppend
  <2>4. Says(SubSeq(ts, 1, j), SubSeq(ms, 1, (k - n) + j), exact)
    BY <1>3 DEF OneEach
  <2> QED
    BY <2>1, <2>2, <2>3, <2>4
<1>6. Says(SubSeq(us, 1, n + 1), SubSeq(ns, 1, (Len(ns) - Len(us)) + (n + 1)), exact)
  <2>1. Says(ts, ms, exact)
    <3>1. n \in 1..Len(ts) /\ SubSeq(ts, 1, n) = ts /\ (k - n) + n = k /\ SubSeq(ms, 1, k) = ms
      BY <1>3
    <3>2. Says(SubSeq(ts, 1, n), SubSeq(ms, 1, (k - n) + n), exact)
      BY <1>3, <3>1 DEF OneEach
    <3> QED
      BY <3>1, <3>2
  <2>2. Says(us, ns, exact)
    BY <1>2, <2>1, SaysNext
  <2>3. (Len(ns) - Len(us)) + (n + 1) = Len(ns) /\ SubSeq(us, 1, n + 1) = us
        /\ SubSeq(ns, 1, Len(ns)) = ns
    BY <1>3, <1>4
  <2> QED
    BY <2>2, <2>3
<1>7. \A j \in 1..Len(us) : j \in 1..n \/ j = n + 1
  BY <1>3, <1>4
<1>8. OneEach(us, ns, exact)
  BY <1>5, <1>6, <1>7 DEF OneEach
<1> QED
  BY <1>2, <1>8

LEMMA WithoutLast ==
    ASSUME NEW ts \in Seq(GotTurns), NEW ms \in Seq(OkMessages), NEW exact,
           Len(ts) > 1, Len(ts) <= Len(ms), OneEach(ts, ms, exact)
    PROVE  /\ Front(ts) \in Seq(GotTurns) /\ Front(ts) # <<>> /\ Front(ts)[1] = ts[1]
           /\ Front(ms) \in Seq(OkMessages) /\ Len(Front(ts)) <= Len(Front(ms))
           /\ Len(Front(ts)) = Len(ts) - 1 /\ ms[Len(ms)] \in OkMessages
           /\ ms = Append(Front(ms), ms[Len(ms)])
           /\ OneEach(Front(ts), Front(ms), exact)
<1>0. Len(ts) \in Nat /\ Len(ms) \in Nat
  OBVIOUS
<1>1. PICK n \in Nat, k \in Nat : n = Len(ts) - 1 /\ k = Len(ms) - 1
  <2>1. Len(ts) - 1 \in Nat /\ Len(ms) - 1 \in Nat
    BY <1>0
  <2> QED
    BY <2>1
<1>2. n # 0 /\ n <= k /\ Len(ts) = n + 1 /\ Len(ms) = k + 1
  BY <1>0, <1>1
<1>3. PICK us \in Seq(GotTurns), ns \in Seq(OkMessages) :
          /\ us = Front(ts) /\ us = SubSeq(ts, 1, n) /\ ns = Front(ms) /\ ns = SubSeq(ms, 1, k)
          /\ Len(us) = n /\ Len(ns) = k /\ us # <<>> /\ us[1] = ts[1]
          /\ ms[k + 1] \in OkMessages /\ ms = Append(ns, ms[k + 1])
  <2>1. /\ Front(ts) \in Seq(GotTurns) /\ Front(ts) = SubSeq(ts, 1, n) /\ Len(Front(ts)) = n
        /\ Front(ts) # <<>> /\ Front(ts)[1] = ts[1]
    BY <1>2, FrontAndLast
  <2>2. /\ Front(ms) \in Seq(OkMessages) /\ Front(ms) = SubSeq(ms, 1, k) /\ Len(Front(ms)) = k
        /\ ms[k + 1] \in OkMessages /\ ms = Append(Front(ms), ms[k + 1])
    <3>1. Len(ms) = k + 1
      BY <1>2
    <3> QED
      BY ONLY <3>1, FrontAndLast
  <2> QED
    BY <2>1, <2>2
<1>5. ASSUME NEW j \in 1..n PROVE Says(SubSeq(us, 1, j), SubSeq(ns, 1, (k - n) + j), exact)
  <2>1. (k - n) + j \in 1..k /\ j \in 1..Len(ts) /\ (Len(ms) - Len(ts)) + j = (k - n) + j
    BY <1>2
  <2>2. SubSeq(us, 1, j) = SubSeq(ts, 1, j) /\ SubSeq(ns, 1, (k - n) + j) = SubSeq(ms, 1, (k - n) + j)
    BY <1>2, <1>3, <2>1
  <2> QED
    BY <2>1, <2>2 DEF OneEach
<1>6. OneEach(us, ns, exact)
  BY <1>3, <1>5 DEF OneEach
<1> QED
  BY <1>0, <1>1, <1>2, <1>3, <1>6

\* Messages with the same pieces are said by the same turns.
LEMMA SaidOtherwise ==
    ASSUME NEW ts \in Seq(GotTurns), NEW ms \in Seq(OkMessages), NEW ns \in Seq(OkMessages),
           NEW exact, Len(ts) <= Len(ms), OneEach(ts, ms, exact), Len(ns) = Len(ms),
           \A i \in 1..Len(ms) : NormalMessage[ms[i]] = NormalMessage[ns[i]]
    PROVE  OneEach(ts, ns, exact)
<1>1. ASSUME NEW j \in 1..Len(ts)
      PROVE  PiecesOf(SubSeq(ms, 1, (Len(ms) - Len(ts)) + j))
                = PiecesOf(SubSeq(ns, 1, (Len(ns) - Len(ts)) + j))
  <2>1. PICK k \in 1..Len(ms) : k = (Len(ms) - Len(ts)) + j /\ k = (Len(ns) - Len(ts)) + j
    <3>1. Len(ms) \in Nat /\ Len(ts) \in Nat
      OBVIOUS
    <3>2. (Len(ms) - Len(ts)) + j \in 1..Len(ms) /\ Len(ns) = Len(ms)
      BY <3>1
    <3> QED
      BY <3>2
  <2>2. PICK a \in Seq(OkMessages), b \in Seq(OkMessages) :
            /\ a = SubSeq(ms, 1, k) /\ b = SubSeq(ns, 1, k)
    <3>1. SubSeq(ms, 1, k) \in Seq(OkMessages) /\ SubSeq(ns, 1, k) \in Seq(OkMessages)
      OBVIOUS
    <3> QED
      BY <3>1
  <2>3. Len(a) = k /\ Len(b) = k /\ \A i \in 1..k : a[i] = ms[i] /\ b[i] = ns[i]
    BY <2>2
  <2>4. \A i \in 1..Len(a) : NormalMessage[a[i]] = NormalMessage[b[i]]
    BY <2>3
  <2>5. PICK f \in Maps(OkMessages, Pieces) : f = NormalMessage
    BY MessageMaps
  <2>6. a \in Seq(OkMessages) /\ b \in Seq(OkMessages) /\ Len(a) = Len(b) /\ f \in Maps(OkMessages, Pieces)
        /\ \A i \in 1..Len(a) : f[a[i]] = f[b[i]]
    BY <2>3, <2>4, <2>5
  <2>7. FlatMap(f, a) = FlatMap(f, b)
    BY ONLY <2>6, FlatMapSame
  <2> QED
    BY <2>1, <2>2, <2>5, <2>7 DEF PiecesOf
<1> QED
  BY <1>1 DEF OneEach, Says

-----------------------------------------------------------------------------
(* The requests of a session                                               *)

ContentInv ==
    /\ asked \in Seq(OkMessages) /\ got \in Seq(GotTurns)
    /\ (got = <<>> => asked = <<>>) /\ Len(got) <= Len(asked)
    /\ OneEach(got, asked, ~Untrimmed)

LEMMA AcceptedIsOk ==
    ASSUME NEW m \in Seq(Blocks), Accepted(m)
    PROVE  m \in OkMessages /\ Normalized(m) = NormalMessage[m]
<1>1. \A i \in 1..Len(m) : m[i] \in OkBlocks
  BY DEF Accepted, OkBlocks
<1>2. m \in OkMessages
  BY <1>1 DEF OkMessages
<1> QED
  BY <1>2, MessageIsMap DEF NormalMessage

LEMMA MessagesAreLists ==
    ASSUME NEW m \in Messages
    PROVE  m \in Seq(Blocks) /\ m # <<>>
<1>1. PICK k \in 1..MaxBlocks : m \in [1..k -> Blocks]
  BY DEF Messages
<1>2. k \in Nat /\ k # 0
  BY <1>1, ContentIsTyped
<1>3. m \in Seq(Blocks) /\ Len(m) = k
  BY <1>1, <1>2
<1> QED
  BY <1>2, <1>3

LEMMA BundledSaysAll ==
    ASSUME NEW ms \in Seq(OkMessages), NEW long \in BOOLEAN, NEW exact
    PROVE  SaysAll(Bundled(ms, long), ms, exact)
BY BundledSays DEF SaysAll

\* A conversation is begun, or begun again.
LEMMA Begun ==
    ASSUME NEW ms \in Seq(OkMessages), ms # <<>>, asked' = ms, got' = <<Merged(ms)>>
    PROVE  ContentInv'
<1>1. PICK t \in GotTurns : t = Merged(ms)
  BY MergedSays DEF TurnSays
<1>2. got' = <<t>> /\ got' \in Seq(GotTurns) /\ Len(got') = 1 /\ got' # <<>> /\ got'[1] = t
  <2>1. \A u \in GotTurns : <<u>> \in Seq(GotTurns) /\ Len(<<u>>) = 1 /\ <<u>> # <<>> /\ <<u>>[1] = u
    OBVIOUS
  <2> QED
    BY <1>1, <2>1
<1>3. ~Untrimmed' => \A k \in 1..Len(t.files) : t.files[k] \notin Padded
  <2>1. t.files \in Seq(Uploads)
    BY DEF GotTurns
  <2>2. \A k \in 1..Len(t.files) : t.files[k] \in ToSet(t.files)
    BY <2>1 DEF ToSet
  <2> QED
    BY <1>2, <2>2 DEF Untrimmed, Padded
<1>4. SaysAll(t, ms, ~Untrimmed')
  BY <1>1, <1>3, MergedSays DEF SaysAll
<1>5. OneEach(<<t>>, ms, ~Untrimmed')
  BY <1>4, BegunWithAll
<1>6. Len(ms) \in Nat /\ Len(ms) # 0
  BY EmptySeq
<1> QED
  BY <1>2, <1>5, <1>6 DEF ContentInv

LEMMA SendFullInv == ASSUME SendFull PROVE ContentInv'
<1>1. PICK m \in Messages : \E k \in 0..Len(m) - 1 :
          LET messages == IF k = 0 THEN <<m>> ELSE <<SubSeq(m, 1, k), SubSeq(m, k + 1, Len(m))>>
          IN  /\ \A i \in DOMAIN messages : Accepted(messages[i])
              /\ asked' = messages /\ got' = <<Merged(messages)>>
  BY DEF SendFull
<1>2. m \in Seq(Blocks)
  BY MessagesAreLists
<1>3. PICK k \in 0..Len(m) - 1 :
          LET messages == IF k = 0 THEN <<m>> ELSE <<SubSeq(m, 1, k), SubSeq(m, k + 1, Len(m))>>
          IN  /\ \A i \in DOMAIN messages : Accepted(messages[i])
              /\ asked' = messages /\ got' = <<Merged(messages)>>
  BY <1>1
<1>4. CASE k = 0
  <2>1. asked' = <<m>> /\ got' = <<Merged(<<m>>)>> /\ Accepted(<<m>>[1])
    BY <1>3, <1>4
  <2>2. m \in OkMessages
    BY <1>2, <2>1, AcceptedIsOk
  <2>3. <<m>> \in Seq(OkMessages) /\ <<m>> # <<>>
    BY <2>2
  <2> QED
    BY <2>1, <2>3, Begun
<1>5. CASE k # 0
  <2>1. PICK x \in Seq(Blocks), y \in Seq(Blocks) : x = SubSeq(m, 1, k) /\ y = SubSeq(m, k + 1, Len(m))
    <3>1. SubSeq(m, 1, k) \in Seq(Blocks) /\ SubSeq(m, k + 1, Len(m)) \in Seq(Blocks)
      BY <1>2
    <3> QED
      BY <3>1
  <2>2. /\ asked' = <<x, y>> /\ got' = <<Merged(<<x, y>>)>>
        /\ Accepted(<<x, y>>[1]) /\ Accepted(<<x, y>>[2])
    <3>1. /\ \A i \in DOMAIN <<x, y>> : Accepted(<<x, y>>[i])
          /\ asked' = <<x, y>> /\ got' = <<Merged(<<x, y>>)>>
      BY ONLY <1>3, <1>5, <2>1
    <3>2. 1 \in DOMAIN <<x, y>> /\ 2 \in DOMAIN <<x, y>>
      OBVIOUS
    <3> QED
      BY ONLY <3>1, <3>2
  <2>3. x \in OkMessages /\ y \in OkMessages
    BY <2>2, AcceptedIsOk
  <2>4. <<x, y>> \in Seq(OkMessages) /\ <<x, y>> # <<>>
    BY <2>3
  <2> QED
    BY <2>2, <2>4, Begun
<1> QED
  BY <1>4, <1>5

LEMMA SendIncrementalInv == ASSUME ContentInv, SendIncremental PROVE ContentInv'
<1>1. PICK m \in AcceptedMessages, long \in BOOLEAN :
          /\ got # <<>>
          /\ asked' = Append(asked, m) /\ got' = Append(got, Bundled(<<m>>, long))
  BY DEF SendIncremental
<1>2. m \in OkMessages
  BY MessagesAreLists, AcceptedIsOk DEF AcceptedMessages
<1>3. <<m>> \in Seq(OkMessages)
  BY <1>2
<1>4. PICK t \in GotTurns : t = Bundled(<<m>>, long)
  BY <1>3, BundledSays DEF TurnSays
<1>5. asked \in Seq(OkMessages) /\ got \in Seq(GotTurns) /\ Len(got) <= Len(asked)
  BY DEF ContentInv
<1>6. /\ asked' \in Seq(OkMessages) /\ Len(asked') = Len(asked) + 1
      /\ got' \in Seq(GotTurns) /\ Len(got') = Len(got) + 1 /\ got'[1] = got[1]
      /\ got' # <<>> /\ Len(got) \in Nat /\ Len(asked) \in Nat
  <2>1. 1 \in 1..Len(got)
    BY <1>1, <1>5, EmptySeq
  <2>2. got' = Append(got, t)
    BY <1>1, <1>4
  <2>3. asked' \in Seq(OkMessages) /\ Len(asked') = Len(asked) + 1
    BY <1>1, <1>2, <1>5, AppendProperties
  <2>4. got' \in Seq(GotTurns) /\ Len(got') = Len(got) + 1 /\ got'[1] = got[1] /\ got' # <<>>
    BY <1>5, <2>1, <2>2, AppendProperties
  <2> QED
    BY <1>5, <2>3, <2>4
<1>7. Untrimmed' <=> Untrimmed
  BY <1>1, <1>6 DEF Untrimmed
<1>8. OneEach(got', asked', ~Untrimmed)
  <2>1. SaysAll(t, <<m>>, ~Untrimmed)
    BY <1>3, <1>4, BundledSaysAll
  <2>2. OneEach(got, asked, ~Untrimmed)
    BY DEF ContentInv
  <2>3. OneEach(Append(got, t), Append(asked, m), ~Untrimmed)
    BY <1>1, <1>2, <1>5, <2>1, <2>2, ContinuedWithOne
  <2> QED
    BY <1>1, <1>4, <2>3
<1>9. OneEach(got', asked', ~Untrimmed')
  BY <1>7, <1>8 DEF OneEach, Says
<1> QED
  BY <1>5, <1>6, <1>9 DEF ContentInv

LEMMA SendIncrementalForkInv == ASSUME ContentInv, SendIncrementalFork PROVE ContentInv'
<1>1. PICK long \in BOOLEAN :
          got' = Front(got) \o <<Bundled(SubSeq(asked, IF Len(got) = 1 THEN 1 ELSE Len(asked),
                                                Len(asked)), long)>>
  BY DEF SendIncrementalFork
<1>2. /\ got # <<>> /\ asked' = asked
      /\ asked \in Seq(OkMessages) /\ got \in Seq(GotTurns) /\ Len(got) <= Len(asked)
      /\ OneEach(got, asked, ~Untrimmed)
  BY DEF SendIncrementalFork, ContentInv
<1>3. Len(got) \in Nat /\ Len(asked) \in Nat /\ Len(got) # 0
  BY <1>2, EmptySeq
<1>4. CASE Len(got) = 1
  <2>1. SubSeq(asked, 1, Len(asked)) = asked
    BY <1>2
  <2>2. PICK t \in GotTurns : t = Bundled(asked, long)
    BY <1>2, BundledSays DEF TurnSays
  <2>3. Front(got) = <<>>
    BY <1>2, <1>4 DEF Front
  <2>4. \A u \in GotTurns : /\ <<>> \o <<u>> = <<u>> /\ <<u>> \in Seq(GotTurns)
                            /\ Len(<<u>>) = 1 /\ <<u>> # <<>>
    OBVIOUS
  <2>5. got' = <<t>> /\ got' \in Seq(GotTurns) /\ Len(got') = 1 /\ got' # <<>>
    BY <1>1, <1>4, <2>1, <2>2, <2>3, <2>4
  <2>6. SaysAll(t, asked, ~Untrimmed')
    BY <1>2, <2>2, BundledSaysAll
  <2>7. asked # <<>>
    BY <1>2, <1>3
  <2>8. OneEach(<<t>>, asked, ~Untrimmed')
    BY <1>2, <2>6, <2>7, BegunWithAll
  <2> QED
    BY <1>2, <1>3, <1>4, <2>5, <2>8 DEF ContentInv
<1>5. CASE Len(got) # 1
  <2>1. Len(got) > 1
    <3>1. \A n \in Nat : n # 0 /\ n # 1 => n > 1
      OBVIOUS
    <3> QED
      BY ONLY <1>3, <1>5, <3>1
  <2>2. PICK us \in Seq(GotTurns), ns \in Seq(OkMessages), m \in OkMessages :
            /\ us = Front(got) /\ us # <<>> /\ us[1] = got[1] /\ Len(us) = Len(got) - 1
            /\ ns = Front(asked) /\ Len(us) <= Len(ns)
            /\ m = asked[Len(asked)] /\ asked = Append(ns, m)
            /\ OneEach(us, ns, ~Untrimmed)
    BY <1>2, <2>1, WithoutLast
  <2>3. SubSeq(asked, Len(asked), Len(asked)) = <<m>> /\ <<m>> \in Seq(OkMessages)
    <3>1. PICK n \in Nat : n = Len(asked) /\ n # 0
      BY <1>2, <1>3
    <3>2. SubSeq(asked, n, n) = <<asked[n]>>
      BY <1>2, <3>1, LastAlone
    <3>3. <<m>> \in Seq(OkMessages)
      OBVIOUS
    <3> QED
      BY <1>2, <2>2, <3>1, <3>2, <3>3
  <2>4. PICK t \in GotTurns : t = Bundled(<<m>>, long)
    BY <2>3, BundledSays DEF TurnSays
  <2>5. got' = Append(us, t)
    <3>1. got' = us \o <<t>>
      BY <1>1, <1>5, <2>2, <2>3, <2>4
    <3> QED
      BY <3>1, AppendIsConcat
  <2>6. got' \in Seq(GotTurns) /\ Len(got') = Len(got) /\ got' # <<>> /\ got'[1] = got[1]
    <3>1. 1 \in 1..Len(us) /\ Len(us) \in Nat
      BY <2>2, EmptySeq
    <3>2. got' \in Seq(GotTurns) /\ Len(got') = Len(us) + 1 /\ got'[1] = us[1] /\ got' # <<>>
      BY <2>5, <3>1, AppendProperties
    <3> QED
      BY <1>3, <2>2, <3>1, <3>2
  <2>7. Untrimmed' <=> Untrimmed
    BY <1>2, <2>6 DEF Untrimmed
  <2>8. OneEach(got', asked', ~Untrimmed)
    <3>1. SaysAll(t, <<m>>, ~Untrimmed)
      BY <2>3, <2>4, BundledSaysAll
    <3>2. OneEach(Append(us, t), Append(ns, m), ~Untrimmed)
      BY <2>2, <3>1, ContinuedWithOne
    <3> QED
      BY <1>2, <2>2, <2>5, <3>2
  <2>9. OneEach(got', asked', ~Untrimmed')
    BY <2>7, <2>8 DEF OneEach, Says
  <2> QED
    BY <1>2, <2>6, <2>9 DEF ContentInv
<1> QED
  BY <1>4, <1>5

\* What the client writes in another way has the same pieces.
LEMMA RepeatInv == ASSUME ContentInv, Repeat PROVE ContentInv'
<1>1. PICK i \in DOMAIN asked : \E m \in Rewritten(asked[i]) :
          /\ Accepted(m) /\ Digest(m) = Digest(asked[i]) /\ asked' = [asked EXCEPT ![i] = m]
  BY DEF Repeat
<1>2. PICK m \in Rewritten(asked[i]) :
          /\ Accepted(m) /\ Digest(m) = Digest(asked[i]) /\ asked' = [asked EXCEPT ![i] = m]
  BY <1>1
<1>3. /\ asked \in Seq(OkMessages) /\ got \in Seq(GotTurns) /\ Len(got) <= Len(asked)
      /\ OneEach(got, asked, ~Untrimmed) /\ got' = got /\ (got = <<>> => asked = <<>>)
  BY DEF Repeat, ContentInv
<1>4. i \in 1..Len(asked) /\ asked[i] \in OkMessages
  BY <1>3
<1>5. m \in Seq(Blocks)
  <2>1. PICK s \in Seq(Blocks) : s = asked[i]
    BY <1>4 DEF OkMessages, OkBlocks
  <2>2. CASE \E k \in DOMAIN s, b \in Blocks : m = [s EXCEPT ![k] = b]
    <3>1. PICK k \in 1..Len(s), b \in Blocks : m = [s EXCEPT ![k] = b]
      <4>1. DOMAIN s = 1..Len(s)
        OBVIOUS
      <4> QED
        BY ONLY <2>2, <4>1
    <3> QED
      BY <3>1, ExceptSeq
  <2>3. CASE \E k \in DOMAIN s : m = RemoveAt(s, k)
    <3>1. PICK k \in 1..Len(s) : m = RemoveAt(s, k)
      BY <2>3
    <3>2. SubSeq(s, 1, k - 1) \in Seq(Blocks) /\ SubSeq(s, k + 1, Len(s)) \in Seq(Blocks)
      OBVIOUS
    <3> QED
      BY <3>1, <3>2 DEF RemoveAt
  <2> QED
    BY <2>1, <2>2, <2>3 DEF Rewritten
<1>6. m \in OkMessages /\ NormalMessage[m] = NormalMessage[asked[i]]
  <2>1. m \in OkMessages /\ Normalized(m) = NormalMessage[m]
    BY <1>2, <1>5, AcceptedIsOk
  <2>2. Normalized(asked[i]) = NormalMessage[asked[i]]
    BY <1>4, MessageIsMap DEF NormalMessage
  <2> QED
    BY <1>2, <2>1, <2>2 DEF Digest
<1>7. PICK ns \in Seq(OkMessages) :
          /\ ns = asked' /\ Len(ns) = Len(asked)
          /\ \A j \in 1..Len(asked) : ns[j] = IF j = i THEN m ELSE asked[j]
  <2>1. /\ asked' \in Seq(OkMessages) /\ Len(asked') = Len(asked)
        /\ \A j \in 1..Len(asked) : asked'[j] = IF j = i THEN m ELSE asked[j]
    BY <1>2, <1>3, <1>4, <1>6, ExceptSeq
  <2> QED
    BY <2>1
<1>8. \A j \in 1..Len(asked) : NormalMessage[asked[j]] = NormalMessage[ns[j]]
  BY <1>6, <1>7
<1>9. OneEach(got, ns, ~Untrimmed)
  BY <1>3, <1>7, <1>8, SaidOtherwise
<1>10. Untrimmed' <=> Untrimmed
  BY <1>3 DEF Untrimmed
<1>11. OneEach(got', asked', ~Untrimmed')
  BY <1>3, <1>7, <1>9, <1>10 DEF OneEach, Says
<1>12. got' = <<>> => asked' = <<>>
  BY <1>3, <1>4, EmptySeq
<1> QED
  BY <1>3, <1>7, <1>11, <1>12 DEF ContentInv

LEMMA RebuildInv == ASSUME ContentInv, Rebuild PROVE ContentInv'
<1>1. asked \in Seq(OkMessages) /\ asked' = asked /\ got' = <<Merged(asked)>>
  BY DEF Rebuild, ContentInv
<1>2. asked # <<>>
  <2>1. got \in Seq(GotTurns) /\ got # <<>> /\ Len(got) <= Len(asked)
    BY DEF Rebuild, ContentInv
  <2>2. Len(got) \in Nat /\ Len(got) # 0
    BY <2>1, EmptySeq
  <2> QED
    BY <2>1, <2>2
<1> QED
  BY <1>1, <1>2, Begun

LEMMA AlwaysContent == ContentSpec => []ContentInv
<1>1. InitContent => ContentInv
  <2> SUFFICES ASSUME InitContent PROVE ContentInv
    OBVIOUS
  <2>1. asked = <<>> /\ got = <<>>
    BY DEF InitContent
  <2>2. \A T : <<>> \in Seq(T)
    OBVIOUS
  <2>3. Len(<<>>) = 0 /\ 1..0 = {}
    OBVIOUS
  <2>4. OneEach(got, asked, ~Untrimmed)
    BY <2>1, <2>3 DEF OneEach
  <2> QED
    BY <2>1, <2>2, <2>3, <2>4 DEF ContentInv
<1>2. ContentInv /\ [NextContent]_contentVars => ContentInv'
  <2> SUFFICES ASSUME ContentInv, [NextContent]_contentVars PROVE ContentInv'
    OBVIOUS
  <2>1. CASE UNCHANGED contentVars
    <3>1. asked' = asked /\ got' = got /\ (Untrimmed' <=> Untrimmed)
      BY <2>1 DEF contentVars, Untrimmed
    <3> QED
      BY <3>1 DEF ContentInv, OneEach, Says
  <2> QED
    BY <2>1, SendFullInv, SendIncrementalInv, SendIncrementalForkInv, RepeatInv, RebuildInv
       DEF NextContent
<1> QED
  BY <1>1, <1>2, PTL DEF ContentSpec

-----------------------------------------------------------------------------
(* What is said is what was meant                                          *)

Items == [value : AllValues, name : AllNames]
ReadText == [p \in Texts |-> <<[value |-> p.value, name |-> NoName]>>]
ReadAttachment == [p \in Attachments |-> <<[value |-> p.value, name |-> p.name]>>]
ReadUpload == [p \in Uploads |-> <<Uploaded(p)>>]
SaidBy(kinds) == [b \in OkBlocks |-> SaidIn(b, kinds)]

LEMMA ItemsRead ==
    /\ \A p \in Texts : [value |-> p.value, name |-> NoName] \in Items
    /\ \A p \in Attachments : [value |-> p.value, name |-> p.name] \in Items
    /\ \A p \in Uploads : Uploaded(p) \in Items
<1>1. Blank \in AllValues /\ NoName \in AllNames
  BY DEF AllValues, AllNames
<1>2. \A p \in Texts : [value |-> p.value, name |-> NoName] \in Items
  BY <1>1 DEF Texts, Items
<1>3. \A p \in Attachments : [value |-> p.value, name |-> p.name] \in Items
  BY DEF Attachments, Items
<1>4. ASSUME NEW p \in Uploads PROVE Uploaded(p) \in Items
  <2>1. p.value \in AllValues /\ (p.type = "data" => p.name \in AllNames)
    BY DEF Uploads
  <2> QED
    BY <1>1, <2>1 DEF Uploaded, Items
<1> QED
  BY <1>2, <1>3, <1>4

LEMMA ReadMaps ==
    /\ ReadText \in Maps(Texts, Items) /\ ReadAttachment \in Maps(Attachments, Items)
    /\ ReadUpload \in Maps(Uploads, Items)
<1>1. \A e \in Items : <<e>> \in Seq(Items)
  OBVIOUS
<1>2. ReadText \in Maps(Texts, Items)
  BY <1>1, ItemsRead DEF ReadText, Maps
<1>3. ReadAttachment \in Maps(Attachments, Items)
  BY <1>1, ItemsRead DEF ReadAttachment, Maps
<1>4. ReadUpload \in Maps(Uploads, Items)
  BY <1>1, ItemsRead DEF ReadUpload, Maps
<1> QED
  BY <1>2, <1>3, <1>4

LEMMA ReadTexts ==
    ASSUME NEW s \in Seq(Texts)
    PROVE  [i \in DOMAIN s |-> [value |-> s[i].value, name |-> NoName]] = FlatMap(ReadText, s)
<1> DEFINE t == [i \in DOMAIN s |-> [value |-> s[i].value, name |-> NoName]]
<1>1. DOMAIN s = 1..Len(s) /\ Len(s) \in Nat /\ \A i \in 1..Len(s) : s[i] \in Texts
  OBVIOUS
<1>2. \A i \in 1..Len(s) : [value |-> s[i].value, name |-> NoName] \in Items
  BY <1>1, ItemsRead
<1>3. t \in Seq(Items) /\ Len(t) = Len(s)
  BY <1>1, <1>2
<1>4. \A i \in 1..Len(s) : ReadText[s[i]] = <<t[i]>>
  BY <1>1 DEF ReadText
<1> HIDE DEF t
<1>5. ReadText \in Maps(Texts, Items)
  BY ReadMaps
<1>6. PICK u \in Seq(Items) : u = t
  BY <1>3
<1>7. PICK f \in Maps(Texts, Items) : f = ReadText
  BY <1>5
<1>8. /\ s \in Seq(Texts) /\ f \in Maps(Texts, Items) /\ u \in Seq(Items) /\ Len(u) = Len(s)
      /\ \A i \in 1..Len(s) : f[s[i]] = One(u[i])
  BY <1>3, <1>4, <1>6, <1>7 DEF One
<1>9. u = FlatMap(f, s)
  BY ONLY <1>8, FlatMapEach
<1> QED
  BY <1>6, <1>7, <1>9 DEF t

LEMMA ReadAttachments ==
    ASSUME NEW s \in Seq(Attachments)
    PROVE  [i \in DOMAIN s |-> [value |-> s[i].value, name |-> s[i].name]] = FlatMap(ReadAttachment, s)
<1> DEFINE t == [i \in DOMAIN s |-> [value |-> s[i].value, name |-> s[i].name]]
<1>1. DOMAIN s = 1..Len(s) /\ Len(s) \in Nat /\ \A i \in 1..Len(s) : s[i] \in Attachments
  OBVIOUS
<1>2. \A i \in 1..Len(s) : [value |-> s[i].value, name |-> s[i].name] \in Items
  BY <1>1, ItemsRead
<1>3. t \in Seq(Items) /\ Len(t) = Len(s)
  BY <1>1, <1>2
<1>4. \A i \in 1..Len(s) : ReadAttachment[s[i]] = <<t[i]>>
  BY <1>1 DEF ReadAttachment
<1> HIDE DEF t
<1>5. ReadAttachment \in Maps(Attachments, Items)
  BY ReadMaps
<1>6. PICK u \in Seq(Items) : u = t
  BY <1>3
<1>7. PICK f \in Maps(Attachments, Items) : f = ReadAttachment
  BY <1>5
<1>8. /\ s \in Seq(Attachments) /\ f \in Maps(Attachments, Items) /\ u \in Seq(Items) /\ Len(u) = Len(s)
      /\ \A i \in 1..Len(s) : f[s[i]] = One(u[i])
  BY <1>3, <1>4, <1>6, <1>7 DEF One
<1>9. u = FlatMap(f, s)
  BY ONLY <1>8, FlatMapEach
<1> QED
  BY <1>6, <1>7, <1>9 DEF t

LEMMA ReadUploads ==
    ASSUME NEW s \in Seq(Uploads)
    PROVE  [i \in DOMAIN s |-> Uploaded(s[i])] = FlatMap(ReadUpload, s)
<1> DEFINE t == [i \in DOMAIN s |-> Uploaded(s[i])]
<1>1. DOMAIN s = 1..Len(s) /\ Len(s) \in Nat /\ \A i \in 1..Len(s) : s[i] \in Uploads
  OBVIOUS
<1>2. \A i \in 1..Len(s) : Uploaded(s[i]) \in Items
  BY <1>1, ItemsRead
<1>3. t \in Seq(Items) /\ Len(t) = Len(s)
  BY <1>1, <1>2
<1>4. \A i \in 1..Len(s) : ReadUpload[s[i]] = <<t[i]>>
  BY <1>1 DEF ReadUpload
<1> HIDE DEF t
<1>5. ReadUpload \in Maps(Uploads, Items)
  BY ReadMaps
<1>6. PICK u \in Seq(Items) : u = t
  BY <1>3
<1>7. PICK f \in Maps(Uploads, Items) : f = ReadUpload
  BY <1>5
<1>8. /\ s \in Seq(Uploads) /\ f \in Maps(Uploads, Items) /\ u \in Seq(Items) /\ Len(u) = Len(s)
      /\ \A i \in 1..Len(s) : f[s[i]] = One(u[i])
  BY <1>3, <1>4, <1>6, <1>7 DEF One
<1>9. u = FlatMap(f, s)
  BY ONLY <1>8, FlatMapEach
<1> QED
  BY <1>6, <1>7, <1>9 DEF t

LEMMA SaidIsMap ==
    ASSUME NEW kinds, NEW ms \in Seq(OkMessages)
    PROVE  Said(ms, kinds) = FlatMap(SaidBy(kinds), FlattenSeq(ms))
<1>1. PICK blocks \in Seq(OkBlocks) : blocks = FlattenSeq(ms)
  BY BlockByBlock
<1>2. \A i \in DOMAIN blocks : blocks[i] \in OkBlocks
  OBVIOUS
<1>3. [i \in DOMAIN blocks |-> SaidIn(blocks[i], kinds)] = Parts(SaidBy(kinds), blocks)
  BY <1>2 DEF Parts, SaidBy
<1> QED
  BY <1>1, <1>3 DEF Said, FlatMap

LEMMA SaidByMap == \A kinds : SaidBy(kinds) \in Maps(OkBlocks, Items)
<1> SUFFICES ASSUME NEW kinds PROVE SaidBy(kinds) \in Maps(OkBlocks, Items)
  OBVIOUS
<1>1. ASSUME NEW b \in OkBlocks PROVE SaidIn(b, kinds) \in Seq(Items)
  <2>1. [value |-> b.value, name |-> b.name] \in Items
    BY BlockIs DEF Items
  <2>2. \A e \in Items : <<e>> \in Seq(Items) /\ <<>> \in Seq(Items)
    OBVIOUS
  <2> QED
    BY <2>1, <2>2 DEF SaidIn
<1> QED
  BY <1>1 DEF SaidBy, Maps

\* For one block, whatever it is.
LEMMA BlockSaid ==
    ASSUME NEW b \in OkBlocks
    PROVE  /\ FlatMap(ReadText, NormalOf({"text"})[b]) = SaidIn(b, {"text"})
           /\ FlatMap(ReadAttachment, NormalOf({"attachment"})[b]) = SaidIn(b, {"textDocument"})
           /\ FlatMap(ReadUpload, NormalOf({"data", "file"})[b])
                = SaidIn(b, Kinds \ {"text", "textDocument"})
<1> DEFINE v == b.value
           n == b.name
<1>1. v \in AllValues /\ n \in AllNames
  BY BlockIs
<1>2. \A types : NormalOf(types)[b] = FlatMap(Pick(types), NormalizedBlock(b))
  BY DEF NormalOf, Normal
<1>3. /\ Text(v) \in Texts /\ Attachment(v, n) \in Attachments /\ Data(v, n) \in Uploads
      /\ File(v, FALSE) \in Uploads
  BY <1>1, PieceIs
<1>4. /\ Text(v) \in Pieces /\ Text(v).type = "text" /\ Text(v).value = v
      /\ Attachment(v, n) \in Pieces /\ Attachment(v, n).type = "attachment"
      /\ Attachment(v, n).value = v /\ Attachment(v, n).name = n
      /\ Data(v, n) \in Pieces /\ Data(v, n).type = "data" /\ Data(v, n).value = v
      /\ Data(v, n).name = n
      /\ File(v, FALSE) \in Pieces /\ File(v, FALSE).type = "file" /\ File(v, FALSE).value = v
      /\ ~File(v, FALSE).padded
  BY <1>3, PieceTypes DEF Text, Attachment, Data, File
<1>5. /\ ReadText[Text(v)] = <<[value |-> v, name |-> NoName]>>
      /\ ReadAttachment[Attachment(v, n)] = <<[value |-> v, name |-> n]>>
  BY <1>3, <1>4 DEF ReadText, ReadAttachment
<1>6. /\ ReadUpload[Data(v, n)] = <<[value |-> v, name |-> n]>>
      /\ ReadUpload[File(v, FALSE)] = <<[value |-> v, name |-> NoName]>>
  BY <1>3, <1>4 DEF ReadUpload, Uploaded
<1>7. /\ FlatMap(ReadText, <<Text(v)>>) = ReadText[Text(v)]
      /\ FlatMap(ReadAttachment, <<Attachment(v, n)>>) = ReadAttachment[Attachment(v, n)]
      /\ FlatMap(ReadUpload, <<Data(v, n)>>) = ReadUpload[Data(v, n)]
      /\ FlatMap(ReadUpload, <<File(v, FALSE)>>) = ReadUpload[File(v, FALSE)]
  BY <1>3, ReadMaps, FlatMapOne
<1>8. FlatMap(ReadText, <<>>) = <<>> /\ FlatMap(ReadAttachment, <<>>) = <<>>
      /\ FlatMap(ReadUpload, <<>>) = <<>> /\ \A types : FlatMap(Pick(types), <<>>) = <<>>
  BY FlatMapEmpty
<1>9. /\ "textDocument" \in Kinds /\ "text" \in Kinds
      /\ {"image", "dataUrl", "dataDocument", "imageFile", "container", "fileDocument"}
            \subseteq Kinds \ {"text", "textDocument"}
  BY DEF Kinds
<1> HIDE DEF v, n
<1>10. CASE b.kind = "text" /\ v = Blank /\ NormalizedBlock(b) = <<>>
  BY <1>2, <1>8, <1>10 DEF SaidIn, v
<1>11. CASE b.kind = "text" /\ v # Blank /\ n = NoName /\ NormalizedBlock(b) = <<Text(v)>>
  <2>1. /\ NormalOf({"text"})[b] = <<Text(v)>>
        /\ NormalOf({"attachment"})[b] = <<>> /\ NormalOf({"data", "file"})[b] = <<>>
    BY <1>2, <1>4, <1>11, PickOne
  <2> QED
    BY <1>5, <1>7, <1>8, <1>11, <2>1 DEF SaidIn, v, n
<1>12. CASE b.kind = "textDocument" /\ v # Blank /\ NormalizedBlock(b) = <<Attachment(v, n)>>
  <2>1. /\ NormalOf({"text"})[b] = <<>>
        /\ NormalOf({"attachment"})[b] = <<Attachment(v, n)>> /\ NormalOf({"data", "file"})[b] = <<>>
    BY <1>2, <1>4, <1>12, PickOne
  <2> QED
    BY <1>5, <1>7, <1>8, <1>12, <2>1 DEF SaidIn, v, n
<1>13. CASE /\ b.kind \in {"image", "dataUrl", "dataDocument"} /\ v # Blank
            /\ NormalizedBlock(b) = <<Data(v, n)>>
  <2>1. /\ NormalOf({"text"})[b] = <<>>
        /\ NormalOf({"attachment"})[b] = <<>> /\ NormalOf({"data", "file"})[b] = <<Data(v, n)>>
    BY <1>2, <1>4, <1>13, PickOne
  <2> QED
    BY <1>6, <1>7, <1>8, <1>9, <1>13, <2>1 DEF SaidIn, v, n
<1>14. CASE /\ b.kind \in {"imageFile", "container", "fileDocument"} /\ v # Blank /\ n = NoName
            /\ NormalizedBlock(b) = <<File(v, FALSE)>>
  <2>1. PICK file \in Pieces : file = File(v, FALSE) /\ file.type = "file"
    BY <1>4
  <2>2. /\ FlatMap(Pick({"text"}), <<file>>) = <<>> /\ FlatMap(Pick({"attachment"}), <<file>>) = <<>>
        /\ FlatMap(Pick({"data", "file"}), <<file>>) = <<file>>
    BY <2>1, PickOne
  <2>3. /\ NormalOf({"text"})[b] = <<>> /\ NormalOf({"attachment"})[b] = <<>>
        /\ NormalOf({"data", "file"})[b] = <<File(v, FALSE)>>
    BY <1>2, <1>14, <2>1, <2>2
  <2> QED
    BY <1>6, <1>7, <1>8, <1>9, <1>14, <2>3 DEF SaidIn, v, n
<1> QED
  BY <1>10, <1>11, <1>12, <1>13, <1>14, BlockIs DEF v, n

\* For all messages.
LEMMA MessagesSaid ==
    ASSUME NEW ms \in Seq(OkMessages)
    PROVE  /\ FlatMap(ReadText, Of({"text"}, PiecesOf(ms))) = Said(ms, {"text"})
           /\ FlatMap(ReadAttachment, Of({"attachment"}, PiecesOf(ms))) = Said(ms, {"textDocument"})
           /\ FlatMap(ReadUpload, Of({"data", "file"}, PiecesOf(ms)))
                = Said(ms, Kinds \ {"text", "textDocument"})
<1>1. PICK blocks \in Seq(OkBlocks) :
          blocks = FlattenSeq(ms) /\ PiecesOf(ms) = FlatMap(Normal, blocks)
  BY BlockByBlock
<1>2. \A types : Of(types, PiecesOf(ms)) = FlatMap(NormalOf(types), blocks)
  BY <1>1, OfBlocks
<1>3. \A kinds : /\ Said(ms, kinds) = FlatMap(SaidBy(kinds), blocks)
                 /\ SaidBy(kinds) \in Maps(OkBlocks, Items)
  BY <1>1, SaidIsMap, SaidByMap
<1>4. \A kinds, b : b \in OkBlocks => SaidBy(kinds)[b] = SaidIn(b, kinds)
  BY DEF SaidBy
<1>5. /\ NormalOf({"text"}) \in Maps(OkBlocks, Texts)
      /\ NormalOf({"attachment"}) \in Maps(OkBlocks, Attachments)
      /\ NormalOf({"data", "file"}) \in Maps(OkBlocks, Uploads)
  <2>1. ASSUME NEW b \in OkBlocks
        PROVE  /\ FlatMap(Pick({"text"}), Normal[b]) \in Seq(Texts)
               /\ FlatMap(Pick({"attachment"}), Normal[b]) \in Seq(Attachments)
               /\ FlatMap(Pick({"data", "file"}), Normal[b]) \in Seq(Uploads)
    <3>1. Normal[b] \in Seq(Pieces)
      BY NormalMap, MapsOne
    <3> QED
      BY <3>1, OfTyped, OfIsMap
  <2>2. NormalOf({"text"}) \in Maps(OkBlocks, Texts)
    BY <2>1 DEF NormalOf, Maps
  <2>3. NormalOf({"attachment"}) \in Maps(OkBlocks, Attachments)
    BY <2>1 DEF NormalOf, Maps
  <2>4. NormalOf({"data", "file"}) \in Maps(OkBlocks, Uploads)
    BY <2>1 DEF NormalOf, Maps
  <2> QED
    BY <2>2, <2>3, <2>4
<1>6. FlatMap(ReadText, FlatMap(NormalOf({"text"}), blocks)) = FlatMap(SaidBy({"text"}), blocks)
  <2>1. \A b \in OkBlocks : SaidBy({"text"})[b] = FlatMap(ReadText, NormalOf({"text"})[b])
    BY <1>4, BlockSaid
  <2> QED
    BY <1>3, <1>5, <2>1, ReadMaps, FlatMapTwice
<1>7. FlatMap(ReadAttachment, FlatMap(NormalOf({"attachment"}), blocks))
        = FlatMap(SaidBy({"textDocument"}), blocks)
  <2>1. \A b \in OkBlocks :
            SaidBy({"textDocument"})[b] = FlatMap(ReadAttachment, NormalOf({"attachment"})[b])
    BY <1>4, BlockSaid
  <2> QED
    BY <1>3, <1>5, <2>1, ReadMaps, FlatMapTwice
<1>8. FlatMap(ReadUpload, FlatMap(NormalOf({"data", "file"}), blocks))
        = FlatMap(SaidBy(Kinds \ {"text", "textDocument"}), blocks)
  <2> DEFINE kinds == Kinds \ {"text", "textDocument"}
  <2>1. \A b \in OkBlocks : SaidBy(kinds)[b] = FlatMap(ReadUpload, NormalOf({"data", "file"})[b])
    BY <1>4, BlockSaid
  <2> HIDE DEF kinds
  <2>2. FlatMap(ReadUpload, FlatMap(NormalOf({"data", "file"}), blocks))
          = FlatMap(SaidBy(kinds), blocks)
    BY <1>3, <1>5, <2>1, ReadMaps, FlatMapTwice
  <2> QED
    BY <2>2 DEF kinds
<1> QED
  BY <1>2, <1>3, <1>6, <1>7, <1>8

\* All turns say all messages.
LEMMA WholeSays ==
    ASSUME ContentInv
    PROVE  asked \in Seq(OkMessages) /\ got \in Seq(GotTurns) /\ Says(got, asked, ~Untrimmed)
<1>1. asked \in Seq(OkMessages) /\ got \in Seq(GotTurns) /\ Len(got) <= Len(asked)
      /\ OneEach(got, asked, ~Untrimmed) /\ (got = <<>> => asked = <<>>)
  BY DEF ContentInv
<1>2. CASE got = <<>>
  <2>1. PiecesOf(<<>>) = <<>> /\ FlatMap(TurnTexts, <<>>) = <<>>
        /\ FlatMap(TurnAttachments, <<>>) = <<>> /\ FlatMap(TurnFiles, <<>>) = <<>>
    BY FlatMapEmpty DEF PiecesOf
  <2>2. \A types : Of(types, <<>>) = <<>>
    <3>1. <<>> \in Seq(Pieces)
      OBVIOUS
    <3> QED
      BY <3>1, OfIsMap, FlatMapEmpty
  <2> QED
    BY <1>1, <1>2, <2>1, <2>2 DEF Says
<1>3. CASE got # <<>>
  <2>1. PICK n \in Nat, k \in Nat : n = Len(got) /\ k = Len(asked) /\ n # 0
    BY <1>1, <1>3, EmptySeq
  <2>2. Says(SubSeq(got, 1, n), SubSeq(asked, 1, (k - n) + n), ~Untrimmed)
    BY <1>1, <2>1 DEF OneEach
  <2>3. SubSeq(got, 1, n) = got /\ (k - n) + n = k /\ SubSeq(asked, 1, k) = asked
    BY <1>1, <2>1
  <2> QED
    BY <1>1, <2>2, <2>3
<1> QED
  BY <1>2, <1>3

LEMMA GotAre ==
    ASSUME got \in Seq(GotTurns)
    PROVE  /\ GotTexts = FlatMap(ReadText, FlatMap(TurnTexts, got))
           /\ GotAttachments = FlatMap(ReadAttachment, FlatMap(TurnAttachments, got))
           /\ GotFiles = FlatMap(ReadUpload, FlatMap(TurnFiles, got))
<1>1. \A i \in DOMAIN got : got[i] \in GotTurns
  OBVIOUS
<1>2. /\ [i \in DOMAIN got |-> got[i].texts \o Pasted(got[i].attachments)] = Parts(TurnTexts, got)
      /\ [i \in DOMAIN got |-> Of({"attachment"}, got[i].attachments)] = Parts(TurnAttachments, got)
      /\ [i \in DOMAIN got |-> got[i].files] = Parts(TurnFiles, got)
  BY <1>1 DEF Parts, TurnTexts, TurnAttachments, TurnFiles
<1>3. PICK texts \in Seq(Texts) : texts = FlatMap(TurnTexts, got)
  BY TurnMaps, FlatMapTyped
<1>4. PICK own \in Seq(Attachments) : own = FlatMap(TurnAttachments, got)
  BY TurnMaps, FlatMapTyped
<1>5. PICK files \in Seq(Uploads) : files = FlatMap(TurnFiles, got)
  BY TurnMaps, FlatMapTyped
<1>6. GotTexts = FlatMap(ReadText, texts)
  BY <1>2, <1>3, ReadTexts DEF GotTexts, FlatMap
<1>7. GotAttachments = FlatMap(ReadAttachment, own)
  BY <1>2, <1>4, ReadAttachments DEF GotAttachments, FlatMap
<1>8. GotFiles = FlatMap(ReadUpload, files)
  BY <1>2, <1>5, ReadUploads DEF GotFiles, FlatMap
<1> QED
  BY <1>3, <1>4, <1>5, <1>6, <1>7, <1>8

\* Whichever way the messages of a session are sent, as one turn that begins it, with
\* its texts pasted or not, again after a reset, or written in another way with the same
\* digests: the service has got their texts, attachments and files, each once, in order
\* and by name (merge_messages, bundle_user_messages, normalize_explicit_message).
THEOREM ContentIsWhole == ContentSpec => []SentAsAWhole
<1>1. ContentInv => SentAsAWhole
  <2> SUFFICES ASSUME ContentInv, ~Untrimmed
               PROVE  /\ GotTexts = Said(asked, {"text"})
                      /\ GotAttachments = Said(asked, {"textDocument"})
                      /\ GotFiles = Said(asked, Kinds \ {"text", "textDocument"})
    BY DEF SentAsAWhole
  <2>1. asked \in Seq(OkMessages) /\ got \in Seq(GotTurns) /\ Says(got, asked, ~Untrimmed)
    BY WholeSays
  <2> QED
    BY <2>1, GotAre, MessagesSaid DEF Says
<1> QED
  BY <1>1, AlwaysContent, PTL
=============================================================================
