--------------------------- MODULE CookiePoolProofs ---------------------------
(***************************************************************************)
(* Proofs about the Cookie pool, for any set of Cookies and of affinity    *)
(* keys, any number of save tasks and of restarts.                         *)
(***************************************************************************)
EXTENDS CookiePool, FiniteSetTheorems, SequenceTheorems, TLAPS

\* No Cookie is usable and resting at once in anything that a restart may load,
\* nor given up besides.
StoredApart ==
    \A s \in writing \cup {config, file} :
        s.free \cap s.resting = {} /\ Array(s) \cap s.wasted \subseteq relapsed

\* The inductive invariant. OnePlace needs ConfigCovers, because Submit asks the
\* configuration whether a Cookie is new, and StoredApart, because a restart
\* makes the pool of what was stored; StoredApart needs OnePlace in turn.
PoolInv ==
    /\ TypeOK
    /\ OnePlace
    /\ ConfigCovers
    /\ StoredApart
    /\ IsFiniteSet(writing)

-----------------------------------------------------------------------------
(* The operators on queues                                                 *)

Injective(s) == \A i, j \in DOMAIN s : s[i] = s[j] => i = j
Elements(s) == {s[i] : i \in DOMAIN s}

LEMMA RankIsPlace ==
    ASSUME NEW n \in Nat, NEW S \in SUBSET (1..n)
    PROVE  /\ Cardinality(S) \in Nat
           /\ \A i \in S : Rank(S, i) \in 1..Cardinality(S) /\ Rank(S, i) <= i
           /\ \A i, j \in S : Rank(S, i) = Rank(S, j) => i = j
           /\ \A k \in 1..Cardinality(S) : \E i \in S : Rank(S, i) = k
<1> DEFINE Upto(i) == {j \in S : j <= i}
<1>0. \A i \in S : i \in Nat /\ 1 <= i /\ i <= n
    OBVIOUS
<1>1. IsFiniteSet(S) /\ Cardinality(S) \in Nat
    <2>1. IsFiniteSet(1..n)
        BY FS_Interval
    <2>2. IsFiniteSet(S)
        BY <2>1, FS_Subset
    <2> QED BY <2>2, FS_CardinalityType
<1>2. ASSUME NEW i \in S
      PROVE  /\ IsFiniteSet(Upto(i)) /\ Cardinality(Upto(i)) \in Nat
             /\ Cardinality(Upto(i)) <= Cardinality(S)
             /\ Cardinality(Upto(i)) <= i
             /\ Cardinality(Upto(i)) >= 1
    <2>1. /\ Upto(i) \in SUBSET S /\ Upto(i) \in SUBSET (1..i)
          /\ i \in Upto(i) /\ i \in Nat
        <3>1. i \in Nat /\ i \in Upto(i) /\ \A j \in Upto(i) : j \in S /\ j \in 1..i
            BY <1>0
        <3> HIDE DEF Upto
        <3> QED BY <3>1
    <2>2. IsFiniteSet(Upto(i)) /\ Cardinality(Upto(i)) <= Cardinality(S)
        BY <1>1, <2>1, FS_Subset
    <2>3. Cardinality(Upto(i)) <= i
        BY <2>1, FS_Subset, FS_Interval
    <2>4. Cardinality(Upto(i)) \in Nat /\ Cardinality(Upto(i)) # 0
        BY <2>1, <2>2, FS_EmptySet, FS_CardinalityType
    <2> QED BY <2>2, <2>3, <2>4
<1>3. ASSUME NEW i \in S, NEW j \in S, i < j
      PROVE  Cardinality(Upto(i)) # Cardinality(Upto(j))
    <2>0. j \in Upto(j) /\ j \notin Upto(i) /\ \A k \in Upto(i) : k \in Upto(j)
        BY <1>3, <1>0
    <2>1. Upto(i) \subseteq Upto(j) /\ Upto(i) # Upto(j)
        BY <2>0
    <2> QED BY <2>1, <1>2, FS_Subset
<1>4. \A i, j \in S : Cardinality(Upto(i)) = Cardinality(Upto(j)) => i = j
    BY <1>3
<1>5. ASSUME NEW k \in 1..Cardinality(S) PROVE \E i \in S : Cardinality(Upto(i)) = k
    <2> DEFINE f == [i \in S |-> Cardinality(Upto(i))]
    <2>1. f \in [S -> 1..Cardinality(S)]
        BY <1>1, <1>2
    <2>2. f \in Injection(S, 1..Cardinality(S))
        BY <2>1, <1>4 DEF Injection, IsInjective
    <2>3. IsFiniteSet(1..Cardinality(S)) /\ Cardinality(1..Cardinality(S)) = Cardinality(S)
        BY <1>1, FS_Interval
    <2>4. f \in Surjection(S, 1..Cardinality(S))
        BY <2>2, <2>3, FS_Injection
    <2> QED BY <2>4 DEF Surjection
<1> QED BY <1>1, <1>2, <1>4, <1>5 DEF Rank

LEMMA WithoutProperties ==
    ASSUME NEW S, NEW s \in Seq(S), NEW c
    PROVE  /\ Without(s, c) \in Seq(S)
           /\ Elements(Without(s, c)) = Elements(s) \ {c}
           /\ Injective(s) => Injective(Without(s, c))
           /\ \A i \in DOMAIN s :
                  s[i] # c => \E k \in DOMAIN Without(s, c) : k <= i /\ Without(s, c)[k] = s[i]
<1> DEFINE K == Kept(s, c)
           n == Cardinality(K)
           pos(k) == CHOOSE i \in K : Rank(K, i) = k
           w == Without(s, c)
<1>1. Len(s) \in Nat /\ DOMAIN s = 1..Len(s) /\ K \in SUBSET (1..Len(s))
    BY DEF Kept
<1>2. n \in Nat /\ \A k \in 1..n : pos(k) \in K /\ Rank(K, pos(k)) = k
    <2> HIDE DEF K
    <2> QED BY <1>1, RankIsPlace
<1>3. \A i \in K : Rank(K, i) \in 1..n /\ Rank(K, i) <= i /\ pos(Rank(K, i)) = i
    <2> HIDE DEF K
    <2> QED BY <1>1, RankIsPlace
<1>4. w = [k \in 1..n |-> s[pos(k)]]
    BY DEF Without
<1> HIDE DEF n, pos, w
<1>5. w \in Seq(S) /\ DOMAIN w = 1..n
    <2>1. \A k \in 1..n : s[pos(k)] \in S
        BY <1>1, <1>2
    <2>2. DOMAIN w = 1..n /\ w \in [1..n -> S]
        BY <1>4, <2>1
    <2> QED BY <1>2, <2>2, SeqDef
<1>6. \A i \in DOMAIN s : s[i] # c => \E k \in DOMAIN w : k <= i /\ w[k] = s[i]
    BY <1>3, <1>4, <1>5 DEF Kept
<1>7. Elements(w) = Elements(s) \ {c}
    <2>1. \A k \in DOMAIN w : w[k] \in Elements(s) \ {c}
        BY <1>2, <1>4, <1>5 DEF Kept, Elements
    <2> QED BY <2>1, <1>6 DEF Elements
<1>8. Injective(s) => Injective(w)
    BY <1>1, <1>2, <1>4, <1>5 DEF Injective
<1> QED BY <1>5, <1>6, <1>7, <1>8 DEF w

LEMMA OrdersProperties ==
    ASSUME NEW S, IsFiniteSet(S), NEW s \in Orders(S)
    PROVE  s \in Seq(S) /\ Injective(s) /\ Elements(s) = S
<1>1. Cardinality(S) \in Nat /\ s \in [1..Cardinality(S) -> S]
    BY FS_CardinalityType DEF Orders
<1>2. Injective(s)
    BY <1>1 DEF Orders, Injective
<1>3. s \in Injection(1..Cardinality(S), S)
    BY <1>1, <1>2 DEF Injective, Injection, IsInjective
<1>4. s \in Surjection(1..Cardinality(S), S)
    BY <1>1, <1>3, FS_Injection, FS_Interval
<1>5. Elements(s) = S
    BY <1>1, <1>4 DEF Elements, Surjection
<1>6. s \in Seq(S)
    BY <1>1
<1> QED BY <1>2, <1>5, <1>6

LEMMA RotatedProperties ==
    ASSUME NEW S, NEW s \in Seq(S), s # <<>>
    PROVE  LET t == Append(Tail(s), Head(s))
           IN  /\ t \in Seq(S) /\ Len(t) = Len(s) /\ DOMAIN t = 1..Len(s)
               /\ Elements(t) = Elements(s)
               /\ Injective(s) => Injective(t)
               /\ t[Len(s)] = s[1] /\ \A i \in 2..Len(s) : t[i - 1] = s[i]
<1> DEFINE t == Append(Tail(s), Head(s))
<1>1. /\ Len(s) \in Nat \ {0} /\ DOMAIN s = 1..Len(s) /\ Head(s) = s[1]
      /\ Head(s) \in S /\ Tail(s) \in Seq(S) /\ Len(Tail(s)) = Len(s) - 1
      /\ \A i \in 1..Len(s) - 1 : Tail(s)[i] = s[i + 1]
    BY HeadTailProperties, EmptySeq
<1>2. /\ t \in Seq(S) /\ Len(t) = Len(s) /\ DOMAIN t = 1..Len(s)
      /\ \A i \in 1..Len(s) - 1 : t[i] = s[i + 1]
      /\ t[Len(s)] = s[1]
    BY <1>1, AppendProperties
<1> HIDE DEF t
<1>3. \A i \in 2..Len(s) : t[i - 1] = s[i]
    BY <1>1, <1>2
<1> DEFINE next(i) == IF i = Len(s) THEN 1 ELSE i + 1
           last(j) == IF j = 1 THEN Len(s) ELSE j - 1
<1>6. \A i \in DOMAIN t : next(i) \in DOMAIN s /\ t[i] = s[next(i)] /\ last(next(i)) = i
    BY <1>1, <1>2
<1>7. \A j \in DOMAIN s : last(j) \in DOMAIN t /\ t[last(j)] = s[j]
    BY <1>1, <1>2, <1>3
<1> HIDE DEF next, last
<1>4. Injective(s) => Injective(t)
    <2> SUFFICES ASSUME Injective(s), NEW i \in DOMAIN t, NEW j \in DOMAIN t, t[i] = t[j]
                 PROVE  i = j
        BY DEF Injective
    <2>1. next(i) = next(j)
        BY <1>6 DEF Injective
    <2> QED BY <2>1, <1>6
<1>5. Elements(t) = Elements(s)
    BY <1>6, <1>7 DEF Elements
<1> QED BY <1>2, <1>3, <1>4, <1>5 DEF t

LEMMA AppendedProperties ==
    ASSUME NEW S, NEW s \in Seq(S), NEW c \in S
    PROVE  /\ Append(s, c) \in Seq(S)
           /\ Elements(Append(s, c)) = Elements(s) \cup {c}
           /\ Injective(s) /\ c \notin Elements(s) => Injective(Append(s, c))
<1> DEFINE t == Append(s, c)
<1>1. /\ t \in Seq(S) /\ Len(s) \in Nat /\ DOMAIN s = 1..Len(s)
      /\ DOMAIN t = 1..Len(s) + 1
      /\ \A i \in 1..Len(s) : t[i] = s[i]
      /\ t[Len(s) + 1] = c
    BY AppendProperties
<1> HIDE DEF t
<1>2. Elements(t) = Elements(s) \cup {c}
    <2>1. \A i \in DOMAIN t : t[i] \in Elements(s) \cup {c}
        BY <1>1 DEF Elements
    <2>2. Len(s) + 1 \in DOMAIN t /\ \A i \in DOMAIN s : i \in DOMAIN t
        BY <1>1
    <2> QED BY <1>1, <2>1, <2>2 DEF Elements
<1>3. Injective(s) /\ c \notin Elements(s) => Injective(t)
    BY <1>1 DEF Injective, Elements
<1> QED BY <1>1, <1>2, <1>3 DEF t

LEMMA JoinedProperties ==
    ASSUME NEW S, NEW s \in Seq(S), NEW t \in Seq(S)
    PROVE  /\ s \o t \in Seq(S)
           /\ Elements(s \o t) = Elements(s) \cup Elements(t)
           /\ Injective(s) /\ Injective(t) /\ Elements(s) \cap Elements(t) = {} => Injective(s \o t)
           /\ \A i \in DOMAIN s : i \in DOMAIN (s \o t) /\ (s \o t)[i] = s[i]
<1> DEFINE u == s \o t
<1>1. /\ u \in Seq(S) /\ Len(s) \in Nat /\ Len(t) \in Nat
      /\ DOMAIN s = 1..Len(s) /\ DOMAIN t = 1..Len(t) /\ DOMAIN u = 1..Len(s) + Len(t)
      /\ \A i \in 1..Len(s) + Len(t) : u[i] = IF i <= Len(s) THEN s[i] ELSE t[i - Len(s)]
    BY ConcatProperties
<1> HIDE DEF u
<1>2. \A i \in DOMAIN s : i \in DOMAIN u /\ u[i] = s[i]
    BY <1>1
<1>3. \A i \in DOMAIN t : i + Len(s) \in DOMAIN u /\ u[i + Len(s)] = t[i]
    BY <1>1
<1>4. \A i \in DOMAIN u : i \in DOMAIN s \/ (i - Len(s) \in DOMAIN t /\ u[i] = t[i - Len(s)])
    BY <1>1
<1>5. Elements(u) = Elements(s) \cup Elements(t)
    BY <1>2, <1>3, <1>4 DEF Elements
<1>6. Injective(s) /\ Injective(t) /\ Elements(s) \cap Elements(t) = {} => Injective(u)
    <2> SUFFICES ASSUME Injective(s), Injective(t), Elements(s) \cap Elements(t) = {},
                        NEW i \in DOMAIN u, NEW j \in DOMAIN u, u[i] = u[j]
                 PROVE  i = j
        BY DEF Injective
    <2>0. ASSUME NEW k \in DOMAIN s, NEW l \in DOMAIN t PROVE s[k] # t[l]
        <3>1. s[k] \in Elements(s) /\ t[l] \in Elements(t)
            BY DEF Elements
        <3> QED BY <3>1
    <2>1. CASE i \in DOMAIN s /\ j \in DOMAIN s
        BY <2>1, <1>2 DEF Injective
    <2>2. CASE i \in DOMAIN s /\ j \notin DOMAIN s
        BY <2>0, <2>2, <1>2, <1>4
    <2>3. CASE i \notin DOMAIN s /\ j \in DOMAIN s
        BY <2>0, <2>3, <1>2, <1>4
    <2>4. CASE i \notin DOMAIN s /\ j \notin DOMAIN s
        <3>1. i - Len(s) = j - Len(s)
            BY <2>4, <1>4 DEF Injective
        <3> QED BY <3>1, <1>1
    <2> QED BY <2>1, <2>2, <2>3, <2>4
<1> QED BY <1>1, <1>2, <1>5, <1>6 DEF u

-----------------------------------------------------------------------------
(* The pool                                                                *)

\* The part of the invariant that is about the collections of the actor.
PoolPart ==
    /\ valid \in Seq(Cookies)
    /\ exhausted \subseteq Cookies /\ due \subseteq exhausted
    /\ invalid \subseteq Cookies /\ relapsed \subseteq Cookies
    /\ OnePlace

\* The part that is about the configuration, the file and the save tasks.
StorePart ==
    /\ config \in Stored /\ file \in Stored /\ writing \subseteq Stored
    /\ queued \in 0..MaxSaves /\ restarts \in 0..MaxRestarts
    /\ IsFiniteSet(writing)
    /\ StoredApart
    /\ ConfigCovers

ClientPart ==
    /\ affinity \in [Keys -> Cookies \cup {NoCookie}]
    /\ lent \subseteq Cookies
    /\ running \in BOOLEAN

LEMMA PoolInvParts == PoolInv <=> PoolPart /\ StorePart /\ ClientPart
BY DEF PoolInv, TypeOK, PoolPart, StorePart, ClientPart

LEMMA OnePlaceOfQueue ==
    OnePlace <=> /\ Injective(valid) /\ Elements(valid) \cap exhausted = {}
                 /\ (Elements(valid) \cup exhausted) \cap invalid \subseteq relapsed
BY DEF OnePlace, InQueue, Injective, Elements

\* reset neither loses nor doubles a Cookie, and leaves those in the queue alone.
LEMMA ResetProperties ==
    ASSUME PoolPart, NEW queue \in QueuesAfterReset
    PROVE  /\ queue \in Seq(Cookies)
           /\ Elements(queue) = InQueue \cup due
           /\ Injective(queue)
           /\ Elements(queue) \cap (exhausted \ due) = {}
           /\ \A i \in DOMAIN valid : i \in DOMAIN queue /\ queue[i] = valid[i]
<1>1. PICK back \in Orders(due) : queue = valid \o back
    BY DEF QueuesAfterReset
<1>2. IsFiniteSet(due) /\ due \subseteq Cookies
    <2>1. due \in SUBSET Cookies
        BY DEF PoolPart
    <2> QED BY <2>1, FS_Subset, PoolAssumption
<1>3. back \in Seq(due) /\ Injective(back) /\ Elements(back) = due
    BY <1>2, OrdersProperties
<1>4. back \in Seq(Cookies) /\ valid \in Seq(Cookies)
    BY <1>2, <1>3, SeqMonotonic DEF PoolPart
<1>5. Injective(valid) /\ Elements(valid) \cap exhausted = {} /\ Elements(valid) = InQueue
    BY OnePlaceOfQueue DEF PoolPart, Elements, InQueue
<1>6. due \subseteq exhausted
    BY DEF PoolPart
<1> QED BY <1>1, <1>3, <1>4, <1>5, <1>6, JoinedProperties

\* A save publishes the collections as they are, so it covers them.
LEMMA SaveProperties ==
    ASSUME PoolInv, PoolPart', Save, UNCHANGED <<file, writing, restarts>>,
           relapsed \subseteq relapsed'
    PROVE  StorePart'
<1>1. Cardinality(writing) \in Nat
    BY FS_CardinalityType DEF PoolInv
<1>2. queued' \in 0..MaxSaves
    BY <1>1, PoolAssumption DEF Save, PoolInv, TypeOK
<1>3. /\ config' \in [free: SUBSET Cookies, resting: SUBSET Cookies, wasted: SUBSET Cookies]
      /\ config'.free = InQueue' /\ config'.resting = exhausted' /\ config'.wasted = invalid'
    <2>1. InQueue' \subseteq Cookies /\ exhausted' \subseteq Cookies /\ invalid' \subseteq Cookies
        BY DEF PoolPart, InQueue
    <2>2. config' = [free |-> InQueue', resting |-> exhausted', wasted |-> invalid']
        BY DEF Save, InQueue
    <2> QED BY <2>1, <2>2
<1>4. /\ ConfigCovers' /\ config'.free \cap config'.resting = {}
      /\ Array(config') \cap config'.wasted \subseteq relapsed'
    BY <1>3 DEF ConfigCovers, Array, PoolPart, OnePlace
<1>5. StoredApart'
    BY <1>4 DEF StoredApart, PoolInv
<1> QED BY <1>2, <1>3, <1>4, <1>5 DEF StorePart, Stored, PoolInv, TypeOK

-----------------------------------------------------------------------------
(* Steps                                                                   *)

LEMMA UnchangedPool ==
    ASSUME PoolPart, UNCHANGED <<poolVars, relapsed>>
    PROVE  PoolPart'
BY DEF PoolPart, poolVars, OnePlace, InQueue

LEMMA UnchangedStore ==
    ASSUME PoolInv, UNCHANGED <<config, file, writing, queued, restarts, invalid>>,
           relapsed \subseteq relapsed',
           InQueue' \cup exhausted' \subseteq InQueue \cup exhausted
    PROVE  StorePart'
BY DEF PoolInv, TypeOK, StorePart, StoredApart, ConfigCovers

\* The next collections are as they should be, if their parts are.
LEMMA PoolPartNext ==
    ASSUME valid' \in Seq(Cookies), Injective(valid'),
           exhausted' \subseteq Cookies, due' \subseteq exhausted', invalid' \subseteq Cookies,
           relapsed' \subseteq Cookies,
           Elements(valid') \cap exhausted' = {},
           (Elements(valid') \cup exhausted') \cap invalid' \subseteq relapsed'
    PROVE  PoolPart' /\ InQueue' = Elements(valid')
BY DEF PoolPart, OnePlace, InQueue, Injective, Elements

LEMMA RequestStep ==
    ASSUME PoolInv, NEW k \in Keys \cup {NoKey}, NEW required \in Cookies \cup {NoCookie},
           Request(k, required)
    PROVE  PoolPart' /\ StorePart' /\ (running' \in BOOLEAN => ClientPart')
<1>1. PoolPart /\ ClientPart
    BY PoolInvParts
<1>2. PICK queue \in QueuesAfterReset :
           \/ \E c \in Bound(queue, k, required) : Dispatched(c, k) /\ valid' = queue
           \/ /\ queue # <<>>
              /\ Dispatched(Head(queue), k)
              /\ valid' = Append(Tail(queue), Head(queue))
           \/ valid' = queue /\ UNCHANGED <<lent, affinity>>
    BY DEF Request
<1>3. /\ queue \in Seq(Cookies)
      /\ Elements(queue) = InQueue \cup due
      /\ Injective(queue)
      /\ Elements(queue) \cap (exhausted \ due) = {}
    BY <1>1, ResetProperties
<1>4. valid' \in Seq(Cookies) /\ Injective(valid') /\ Elements(valid') = Elements(queue)
    <2>1. CASE valid' = queue
        BY <1>3, <2>1
    <2>2. CASE queue # <<>> /\ valid' = Append(Tail(queue), Head(queue))
        BY <1>3, <2>2, RotatedProperties
    <2> QED BY <1>2, <2>1, <2>2
<1>5. exhausted' = exhausted \ due /\ due' = {} /\ invalid' = invalid /\ relapsed' = relapsed
    BY DEF Request, Rested
<1>6. PoolPart' /\ InQueue' = Elements(valid')
    BY <1>1, <1>3, <1>4, <1>5, PoolPartNext DEF PoolPart, OnePlace
<1>7. StorePart'
    <2>1. InQueue' \cup exhausted' \subseteq InQueue \cup exhausted
        BY <1>1, <1>3, <1>4, <1>5, <1>6 DEF PoolPart
    <2> QED BY <2>1, UnchangedStore DEF Request, saveVars
<1>8. ASSUME NEW c \in Cookies, Dispatched(c, k)
      PROVE  lent' \subseteq Cookies /\ affinity' \in [Keys -> Cookies \cup {NoCookie}]
    BY <1>1, <1>8 DEF Dispatched, ClientPart
<1>9. lent' \subseteq Cookies /\ affinity' \in [Keys -> Cookies \cup {NoCookie}]
    <2>1. Bound(queue, k, required) \subseteq Cookies
        BY <1>3 DEF Bound
    <2>2. queue # <<>> => Head(queue) \in Cookies
        BY <1>3, HeadTailProperties
    <2> QED BY <1>1, <1>2, <1>8, <2>1, <2>2 DEF ClientPart
<1> QED BY <1>6, <1>7, <1>9 DEF ClientPart

LEMMA ReturnedStep ==
    ASSUME PoolInv, NEW c \in Cookies, Returned(c)
    PROVE  PoolPart' /\ StorePart'
<1>1. PoolPart
    BY PoolInvParts
<1>2. CASE Return(c)
    <2>1. PoolPart'
        BY <1>1, <1>2, UnchangedPool DEF Return
    <2> QED BY <1>2, <2>1, SaveProperties DEF Return
<1>3. ASSUME valid' = Without(valid, c)
      PROVE  /\ valid' \in Seq(Cookies) /\ Injective(valid')
             /\ Elements(valid') = Elements(valid) \ {c}
             /\ Elements(valid) = InQueue /\ Elements(valid) \cap exhausted = {}
             /\ (Elements(valid) \cup exhausted) \cap invalid \subseteq relapsed
    <2>1. /\ valid \in Seq(Cookies) /\ Injective(valid) /\ Elements(valid) \cap exhausted = {}
          /\ (Elements(valid) \cup exhausted) \cap invalid \subseteq relapsed
        BY <1>1, OnePlaceOfQueue DEF PoolPart
    <2>2. Elements(valid) = InQueue
        BY DEF Elements, InQueue
    <2> QED BY <1>3, <2>1, <2>2, WithoutProperties
<1>4. CASE ReturnLimited(c)
    <2>1. /\ valid' = Without(valid, c) /\ exhausted' = exhausted \cup {c}
          /\ due' = due /\ invalid' = invalid /\ relapsed' = relapsed \cup ({c} \cap invalid)
        BY <1>4 DEF ReturnLimited
    <2>2. PoolPart' /\ InQueue' = Elements(valid')
        BY <1>1, <1>3, <2>1, PoolPartNext DEF PoolPart
    <2>3. CASE c \in exhausted
        <3>1. InQueue' \cup exhausted' \subseteq InQueue \cup exhausted
            BY <1>3, <2>1, <2>2, <2>3
        <3> QED BY <1>4, <2>2, <2>3, <3>1, UnchangedStore DEF ReturnLimited, saveVars
    <2>4. CASE c \notin exhausted
        BY <1>4, <2>2, <2>4, SaveProperties DEF ReturnLimited
    <2> QED BY <2>3, <2>4
<1>5. CASE ReturnUseless(c)
    <2>1. /\ valid' = Without(valid, c) /\ exhausted' = exhausted
          /\ due' = due /\ invalid' = invalid \cup {c}
          /\ relapsed' = relapsed \cup ({c} \cap exhausted)
        BY <1>5 DEF ReturnUseless
    <2>2. PoolPart' /\ InQueue' = Elements(valid')
        BY <1>1, <1>3, <2>1, PoolPartNext DEF PoolPart
    <2>3. CASE c \in invalid
        <3>1. InQueue' \cup exhausted' \subseteq InQueue \cup exhausted
            BY <1>3, <2>1, <2>2
        <3>2. invalid' = invalid /\ relapsed \subseteq relapsed'
            BY <2>1, <2>3
        <3> QED BY <1>5, <2>2, <2>3, <3>1, <3>2, UnchangedStore DEF ReturnUseless, saveVars
    <2>4. CASE c \notin invalid
        BY <1>5, <2>2, <2>4, SaveProperties DEF ReturnUseless
    <2> QED BY <2>3, <2>4
<1> QED BY <1>2, <1>4, <1>5 DEF Returned

\* What is new to the configuration is new to the collections, by ConfigCovers.
LEMMA SubmitStep ==
    ASSUME PoolInv, NEW c \in Cookies, Submit(c)
    PROVE  PoolPart' /\ StorePart'
<1>1. PoolPart /\ Elements(valid) = InQueue
    BY PoolInvParts DEF Elements, InQueue
<1>2. /\ Injective(valid) /\ Elements(valid) \cap exhausted = {}
      /\ (Elements(valid) \cup exhausted) \cap invalid \subseteq relapsed
    BY <1>1, OnePlaceOfQueue DEF PoolPart
<1>3. c \notin Elements(valid) /\ c \notin exhausted /\ c \notin invalid
    BY <1>1 DEF Submit, PoolInv, ConfigCovers
<1>4. /\ valid' \in Seq(Cookies) /\ Injective(valid')
      /\ Elements(valid') = Elements(valid) \cup {c}
    BY <1>1, <1>2, <1>3, AppendedProperties DEF Submit, PoolPart
<1>5. PoolPart'
    BY <1>1, <1>2, <1>3, <1>4, PoolPartNext DEF Submit, PoolPart
<1> QED BY <1>5, SaveProperties DEF Submit

LEMMA DeleteStep ==
    ASSUME PoolInv, NEW c \in Cookies, Delete(c)
    PROVE  PoolPart' /\ StorePart'
<1>1. PoolPart
    BY PoolInvParts
<1>2. /\ Injective(valid) /\ Elements(valid) \cap exhausted = {}
      /\ (Elements(valid) \cup exhausted) \cap invalid \subseteq relapsed
    BY <1>1, OnePlaceOfQueue DEF PoolPart
<1>3. /\ valid' \in Seq(Cookies) /\ Injective(valid')
      /\ Elements(valid') = Elements(valid) \ {c}
    BY <1>1, <1>2, WithoutProperties DEF Delete, PoolPart
<1>4. PoolPart'
    BY <1>1, <1>2, <1>3, PoolPartNext DEF Delete, PoolPart
<1> QED BY <1>4, SaveProperties DEF Delete

\* The save of a check comes before the reset, and covers what the reset moves.
LEMMA CheckResetStep ==
    ASSUME PoolInv, CheckReset
    PROVE  PoolPart' /\ StorePart'
<1>1. PoolPart
    BY PoolInvParts
<1>2. /\ valid' \in Seq(Cookies) /\ Injective(valid')
      /\ Elements(valid') = InQueue \cup due
      /\ Elements(valid') \cap (exhausted \ due) = {}
    BY <1>1, ResetProperties DEF CheckReset
<1>3. exhausted' = exhausted \ due /\ due' = {} /\ invalid' = invalid /\ relapsed' = relapsed
    BY DEF CheckReset, Rested
<1>4. PoolPart' /\ InQueue' = Elements(valid')
    BY <1>1, <1>2, <1>3, PoolPartNext DEF PoolPart, OnePlace
<1>5. InQueue' \cup exhausted' \subseteq InQueue \cup exhausted
    BY <1>1, <1>2, <1>3, <1>4 DEF PoolPart
<1>6. CASE UNCHANGED saveVars
    BY <1>4, <1>5, <1>6, UnchangedStore DEF CheckReset, saveVars
<1>7. CASE /\ queued + Cardinality(writing) < MaxSaves
           /\ queued' = queued + 1
           /\ config' = [free |-> InQueue, resting |-> exhausted, wasted |-> invalid]
    <2>1. Cardinality(writing) \in Nat
        BY FS_CardinalityType DEF PoolInv
    <2>2. queued' \in 0..MaxSaves
        BY <1>7, <2>1, PoolAssumption DEF PoolInv, TypeOK
    <2>3. /\ InQueue \subseteq Cookies /\ InQueue \cap exhausted = {}
          /\ (InQueue \cup exhausted) \cap invalid \subseteq relapsed
        BY <1>1 DEF PoolPart, OnePlace, InQueue
    <2>4. /\ config' \in [free: SUBSET Cookies, resting: SUBSET Cookies, wasted: SUBSET Cookies]
          /\ config'.free = InQueue /\ config'.resting = exhausted /\ config'.wasted = invalid
        BY <1>1, <1>7, <2>3 DEF PoolPart
    <2>5. ConfigCovers'
        BY <1>3, <1>5, <2>4 DEF ConfigCovers, Array
    <2>6. StoredApart'
        BY <1>3, <2>3, <2>4 DEF StoredApart, PoolInv, CheckReset, Array
    <2> QED BY <1>4, <2>2, <2>4, <2>5, <2>6 DEF StorePart, Stored, PoolInv, TypeOK, CheckReset
<1> QED BY <1>6, <1>7 DEF CheckReset

LEMMA GetStatusStep ==
    ASSUME PoolInv, GetStatus
    PROVE  PoolPart' /\ StorePart'
<1>1. PoolPart'
    BY PoolInvParts, UnchangedPool DEF GetStatus
<1>2. CASE Save
    BY <1>1, <1>2, SaveProperties DEF GetStatus
<1>3. CASE UNCHANGED saveVars
    <2>1. InQueue' \cup exhausted' \subseteq InQueue \cup exhausted
        BY DEF GetStatus, poolVars, InQueue
    <2> QED BY <1>1, <1>3, <2>1, UnchangedStore DEF GetStatus, saveVars, poolVars
<1> QED BY <1>2, <1>3 DEF GetStatus

\* Every snapshot that can come to the file is of one moment of the pool.
LEMMA SaveTaskStep ==
    ASSUME PoolInv, SaveLoads \/ SaveWrites \/ PostConfig
    PROVE  PoolPart' /\ StorePart' /\ UNCHANGED <<affinity, lent>>
<1>1. PoolPart'
    BY PoolInvParts, UnchangedPool DEF SaveLoads, SaveWrites, PostConfig
<1>2. ConfigCovers' /\ restarts' \in 0..MaxRestarts /\ config' \in Stored
    BY DEF PoolInv, TypeOK, ConfigCovers, SaveLoads, SaveWrites, PostConfig, saveVars, poolVars,
           InQueue
<1>3. CASE SaveLoads
    <2>1. writing' = writing \cup {config} /\ queued' = queued - 1 /\ queued > 0
          /\ file' = file /\ config' = config
        BY <1>3 DEF SaveLoads
    <2>2. IsFiniteSet(writing')
        BY <2>1, FS_AddElement DEF PoolInv
    <2>3. queued' \in 0..MaxSaves
        BY <2>1, PoolAssumption DEF PoolInv, TypeOK
    <2> QED BY <1>1, <1>2, <1>3, <2>1, <2>2, <2>3
            DEF StorePart, StoredApart, PoolInv, TypeOK, SaveLoads
<1>4. CASE SaveWrites
    <2>1. PICK snapshot \in writing : file' = snapshot /\ writing' = writing \ {snapshot}
        BY <1>4 DEF SaveWrites
    <2>2. IsFiniteSet(writing')
        BY <2>1, FS_RemoveElement DEF PoolInv
    <2> QED BY <1>1, <1>2, <1>4, <2>1, <2>2
            DEF StorePart, StoredApart, PoolInv, TypeOK, SaveWrites, saveVars
<1>5. CASE PostConfig
    <2>1. Cardinality(writing) \in Nat
        BY FS_CardinalityType DEF PoolInv
    <2>2. queued' \in 0..MaxSaves
        BY <1>5, <2>1, PoolAssumption DEF PostConfig, PoolInv, TypeOK
    <2> QED BY <1>1, <1>2, <1>5, <2>2 DEF StorePart, StoredApart, PoolInv, TypeOK, PostConfig
<1> QED BY <1>1, <1>3, <1>4, <1>5 DEF SaveLoads, SaveWrites, PostConfig

LEMMA TimeStep ==
    ASSUME PoolInv, NEW c \in Cookies, TimePasses(c)
    PROVE  PoolPart' /\ StorePart' /\ UNCHANGED <<affinity, lent>>
<1>1. PoolPart'
    BY PoolInvParts DEF TimePasses, PoolPart, OnePlace, InQueue
<1>2. StorePart'
    BY UnchangedStore DEF TimePasses, saveVars, InQueue
<1> QED BY <1>1, <1>2 DEF TimePasses

LEMMA ForgetStep ==
    ASSUME PoolInv, NEW k \in Keys, Forget(k)
    PROVE  PoolPart' /\ StorePart' /\ lent' = lent
           /\ affinity' \in [Keys -> Cookies \cup {NoCookie}]
<1>1. PoolPart'
    BY PoolInvParts, UnchangedPool DEF Forget
<1>2. StorePart'
    BY UnchangedStore DEF Forget, poolVars, saveVars, InQueue
<1>3. affinity' \in [Keys -> Cookies \cup {NoCookie}]
    BY DEF Forget, PoolInv, TypeOK
<1> QED BY <1>1, <1>2, <1>3 DEF Forget

\* A pool that is made of a stored configuration.
LEMMA LoadedPool ==
    ASSUME NEW stored \in Stored, stored.free \cap stored.resting = {},
           NEW queue \in Orders(stored.free)
    PROVE  queue \in Seq(Cookies) /\ Injective(queue) /\ Elements(queue) = stored.free
<1>1. stored.free \in SUBSET Cookies
    BY DEF Stored
<1>2. IsFiniteSet(stored.free)
    BY <1>1, FS_Subset, PoolAssumption
<1>3. queue \in Seq(stored.free) /\ Injective(queue) /\ Elements(queue) = stored.free
    BY <1>2, OrdersProperties
<1> QED BY <1>1, <1>3, SeqMonotonic

LEMMA RestartStep ==
    ASSUME PoolInv, Restart
    PROVE  PoolPart' /\ StorePart' /\ lent' = {}
           /\ affinity' \in [Keys -> Cookies \cup {NoCookie}]
<1>1. /\ file' \in Stored /\ file'.free \cap file'.resting = {}
      /\ Array(file') \cap file'.wasted \subseteq relapsed
    <2>1. file' = file \/ file' = Nothing
        BY DEF Restart
    <2>2. Nothing \in Stored /\ Nothing.free \cap Nothing.resting = {} /\ Nothing.wasted = {}
        BY DEF Nothing, Stored
    <2> QED BY <2>1, <2>2 DEF PoolInv, TypeOK, StoredApart
<1>2. PICK elapsed \in SUBSET file'.resting :
          config' = [file' EXCEPT !.free = @ \cup elapsed, !.resting = @ \ elapsed]
    BY DEF Restart
<1>3. /\ config' \in Stored /\ config'.free \cap config'.resting = {}
      /\ Array(config') \cap config'.wasted \subseteq relapsed
    BY <1>1, <1>2 DEF Stored, Array
<1>4. /\ valid' \in Orders(config'.free) /\ exhausted' = config'.resting
      /\ due' = {} /\ invalid' = config'.wasted /\ relapsed' = relapsed /\ relapsed \subseteq Cookies
    BY DEF Restart, PoolInv, TypeOK
<1>5. valid' \in Seq(Cookies) /\ Injective(valid') /\ Elements(valid') = config'.free
    BY <1>3, <1>4, LoadedPool
<1>6. PoolPart' /\ InQueue' = Elements(valid')
    BY <1>3, <1>4, <1>5, PoolPartNext DEF Stored, Array
<1>7. ConfigCovers'
    BY <1>4, <1>5, <1>6 DEF ConfigCovers, Array
<1>8. writing' = {config'} /\ queued' = 0 /\ restarts' = restarts + 1 /\ restarts < MaxRestarts
    BY DEF Restart
<1>9. IsFiniteSet(writing') /\ queued' \in 0..MaxSaves /\ restarts' \in 0..MaxRestarts
    <2>1. IsFiniteSet(writing')
        BY <1>8, FS_Singleton
    <2>2. restarts \in 0..MaxRestarts
        BY DEF PoolInv, TypeOK
    <2> QED BY <1>8, <2>1, <2>2, PoolAssumption
<1>10. StoredApart'
    BY <1>1, <1>3, <1>4, <1>8 DEF StoredApart
<1>11. lent' = {} /\ affinity' \in [Keys -> Cookies \cup {NoCookie}]
    BY DEF Restart
<1> QED BY <1>1, <1>3, <1>6, <1>7, <1>8, <1>9, <1>10, <1>11 DEF StorePart

-----------------------------------------------------------------------------
(* Theorems                                                                *)

LEMMA PoolInvInit == Init => PoolInv
<1> SUFFICES ASSUME Init PROVE PoolInv
    OBVIOUS
<1>1. PICK stored \in Stored :
          /\ stored.free \cap stored.resting = {} /\ Loaded(stored) /\ file = stored
          /\ relapsed = Array(stored) \cap stored.wasted
    BY DEF Init
<1>2. valid \in Seq(Cookies) /\ Injective(valid) /\ Elements(valid) = stored.free
    BY <1>1, LoadedPool DEF Loaded
<1>3. exhausted = stored.resting /\ due = {} /\ invalid = stored.wasted /\ config = stored
    BY <1>1 DEF Loaded
<1>4. PoolPart
    BY <1>1, <1>2, <1>3, OnePlaceOfQueue DEF PoolPart, Stored, Array
<1>5. ConfigCovers
    BY <1>2, <1>3 DEF ConfigCovers, InQueue, Elements, Array
<1>6. StorePart
    BY <1>1, <1>3, <1>5, FS_EmptySet, PoolAssumption DEF Init, StorePart, StoredApart
<1>7. ClientPart
    BY DEF Init, ClientPart
<1> QED BY <1>4, <1>6, <1>7, PoolInvParts

LEMMA PoolInvNext == PoolInv /\ [Next]_vars => PoolInv'
<1> SUFFICES ASSUME PoolInv, [Next]_vars PROVE PoolPart' /\ StorePart' /\ ClientPart'
    BY PoolInvParts DEF PoolInv, TypeOK, PoolPart, StorePart, ClientPart
<1>1. PoolPart /\ StorePart /\ ClientPart
    BY PoolInvParts
<1>2. ASSUME Replied, running' \in BOOLEAN PROVE PoolPart' /\ StorePart' /\ ClientPart'
    <2>1. CASE \E k \in Keys \cup {NoKey}, required \in Cookies \cup {NoCookie} : Request(k, required)
        BY <1>2, <2>1, RequestStep
    <2>2. CASE \E c \in Cookies : Delete(c)
        BY <1>1, <1>2, <2>2, DeleteStep DEF Delete, ClientPart
    <2>3. CASE GetStatus
        BY <1>1, <1>2, <2>3, GetStatusStep DEF GetStatus, ClientPart
    <2> QED BY <1>2, <2>1, <2>2, <2>3 DEF Replied
<1>3. ASSUME Unreplied, UNCHANGED running PROVE PoolPart' /\ StorePart' /\ ClientPart'
    <2>1. CASE CheckReset
        BY <1>1, <1>3, <2>1, CheckResetStep DEF CheckReset, ClientPart
    <2>2. CASE \E c \in Cookies : Returned(c)
        BY <1>1, <1>3, <2>2, ReturnedStep
           DEF Returned, Return, ReturnLimited, ReturnUseless, ClientPart
    <2>3. CASE \E c \in Cookies : Submit(c)
        BY <1>1, <1>3, <2>3, SubmitStep DEF Submit, ClientPart
    <2> QED BY <1>3, <2>1, <2>2, <2>3 DEF Unreplied
<1>4. ASSUME Outside, UNCHANGED running PROVE PoolPart' /\ StorePart' /\ ClientPart'
    BY <1>1, <1>4, TimeStep, ForgetStep, SaveTaskStep DEF Outside, ClientPart
<1>5. ASSUME Restart, running' = TRUE PROVE PoolPart' /\ StorePart' /\ ClientPart'
    BY <1>5, RestartStep DEF ClientPart
<1>6. CASE UNCHANGED vars
    <2>1. PoolPart'
        BY <1>1, <1>6, UnchangedPool DEF vars
    <2>2. StorePart'
        BY <1>6, UnchangedStore DEF vars, poolVars, saveVars, InQueue
    <2> QED BY <1>1, <1>6, <2>1, <2>2 DEF vars, ClientPart
<1> QED BY <1>2, <1>3, <1>4, <1>5, <1>6 DEF Next

LEMMA PoolInvariant == Spec => []PoolInv
BY PoolInvInit, PoolInvNext, PTL DEF Spec

\* The values of the variables of cookie_actor.rs and of the configuration.
THEOREM PoolTypes == Spec => []TypeOK
BY PoolInvariant, PTL DEF PoolInv

\* No return, reset, submission or restart puts a Cookie into the queue twice,
\* makes it usable while it rests, or has one in use that was given up, unless a
\* late copy gave it up while it rested, or limited it after.
THEOREM CookiesHaveOnePlace == Spec => []OnePlace
BY PoolInvariant, PTL DEF PoolInv

\* Whatever save task runs, and whenever, what it loads has every Cookie that the
\* actor may still hand out.
THEOREM ConfigurationCoversPool == Spec => []ConfigCovers
BY PoolInvariant, PTL DEF PoolInv

-----------------------------------------------------------------------------
(* What a step may do to the queue                                         *)

\* The Cookies of s keep their places in t.
Extends(t, s) == \A i \in DOMAIN s : i \in DOMAIN t /\ t[i] = s[i]

LEMMA PlaceOfElement ==
    ASSUME NEW s, Injective(s), NEW i \in DOMAIN s
    PROVE  Place(s, s[i]) = i
BY DEF Place, Injective

LEMMA RestartIsCounted == PoolInv /\ Restart => restarts' # restarts
<1>1. PoolInv => restarts \in Nat
    BY DEF PoolInv, TypeOK
<1>2. Restart => restarts' = restarts + 1
    BY DEF Restart
<1> QED BY <1>1, <1>2

\* A step extends the queue, takes a Cookie out, or takes a turn.
LEMMA QueueStep ==
    ASSUME PoolInv, [Next]_vars, restarts' = restarts
    PROVE  \/ Extends(valid', valid)
           \/ \E c \in Cookies : valid' = Without(valid, c)
           \/ \E queue \in QueuesAfterReset :
                  queue # <<>> /\ valid' = Append(Tail(queue), Head(queue))
<1>1. PoolPart
    BY PoolInvParts
<1>2. ASSUME valid' = valid PROVE Extends(valid', valid)
    BY <1>2 DEF Extends
<1>3. ASSUME valid' \in QueuesAfterReset PROVE Extends(valid', valid)
    BY <1>1, <1>3, ResetProperties DEF Extends
<1>4. CASE \E k \in Keys \cup {NoKey}, required \in Cookies \cup {NoCookie} : Request(k, required)
    BY <1>3, <1>4 DEF Request
<1>5. CASE GetStatus \/ Outside \/ UNCHANGED vars \/ \E c \in Cookies : Return(c)
    BY <1>2, <1>5 DEF GetStatus, Outside, TimePasses, Forget, PostConfig, SaveLoads, SaveWrites, vars,
       poolVars, Return
<1>6. CASE CheckReset
    BY <1>3, <1>6 DEF CheckReset
<1>7. CASE \E c \in Cookies : Submit(c)
    <2>1. PICK c \in Cookies : valid' = Append(valid, c)
        BY <1>7 DEF Submit
    <2>2. valid \in Seq(Cookies) /\ valid' \in Seq(Cookies) /\ DOMAIN valid = 1..Len(valid)
          /\ DOMAIN valid' = 1..Len(valid) + 1 /\ Len(valid) \in Nat
        BY <1>1, <2>1, AppendProperties DEF PoolPart
    <2> QED BY <2>1, <2>2, AppendProperties DEF Extends
<1>8. CASE \E c \in Cookies : ReturnLimited(c) \/ ReturnUseless(c) \/ Delete(c)
    BY <1>8 DEF ReturnLimited, ReturnUseless, Delete
<1>9. ~Restart
    BY RestartIsCounted
<1> QED BY <1>4, <1>5, <1>6, <1>7, <1>8, <1>9 DEF Next, Replied, Unreplied, Returned

\* dispatch pops the front and pushes it back, everything else pushes to the back
\* or takes out: a Cookie waits for its turn while others are used.
THEOREM RequestsTakeTurns == Spec => TakesTurns
<1>1. ASSUME PoolInv, PoolInv', [Next]_vars, restarts' = restarts,
             NEW c \in InQueue, \E i \in DOMAIN valid' : valid'[i] = c
      PROVE  \/ Place(valid', c) <= Place(valid, c)
             \/ Place(valid, c) = 1 /\ Place(valid', c) = Len(valid')
    <2>1. PoolPart /\ valid \in Seq(Cookies) /\ Injective(valid) /\ Injective(valid')
        BY <1>1, OnePlaceOfQueue, PoolInvParts DEF PoolInv, PoolPart, OnePlace, Injective
    <2>2. PICK i \in DOMAIN valid : valid[i] = c
        BY DEF InQueue
    <2>3. i \in Nat /\ Place(valid, c) = i
        BY <2>1, <2>2, PlaceOfElement
    <2>4. CASE Extends(valid', valid)
        BY <2>1, <2>2, <2>3, <2>4, PlaceOfElement DEF Extends
    <2>5. ASSUME NEW d \in Cookies, valid' = Without(valid, d)
          PROVE  Place(valid', c) <= Place(valid, c)
        <3>1. c # d
            BY <1>1, <2>1, <2>5, WithoutProperties DEF Elements
        <3>2. PICK k \in DOMAIN valid' : k <= i /\ valid'[k] = c
            BY <2>1, <2>2, <2>5, <3>1, WithoutProperties
        <3> QED BY <2>1, <2>3, <3>2, PlaceOfElement
    <2>6. ASSUME NEW queue \in QueuesAfterReset, queue # <<>>,
                 valid' = Append(Tail(queue), Head(queue))
          PROVE  \/ Place(valid', c) <= Place(valid, c)
                 \/ Place(valid, c) = 1 /\ Place(valid', c) = Len(valid')
        <3>1. queue \in Seq(Cookies) /\ i \in DOMAIN queue /\ queue[i] = c
            BY <2>1, <2>2, <2>6, ResetProperties
        <3>2. /\ Len(valid') = Len(queue) /\ DOMAIN valid' = 1..Len(queue)
              /\ valid'[Len(queue)] = queue[1]
              /\ \A j \in 2..Len(queue) : valid'[j - 1] = queue[j]
            BY <2>6, <3>1, RotatedProperties
        <3>3. Len(queue) \in Nat /\ i \in 1..Len(queue)
            BY <3>1
        <3>4. CASE i = 1
            BY <2>1, <2>3, <3>1, <3>2, <3>3, <3>4, PlaceOfElement
        <3>5. CASE i # 1
            <4>1. i - 1 \in DOMAIN valid' /\ valid'[i - 1] = c
                BY <3>1, <3>2, <3>3, <3>5
            <4> QED BY <2>1, <2>3, <4>1, PlaceOfElement
        <3> QED BY <3>4, <3>5
    <2> QED BY <1>1, <2>4, <2>5, <2>6, QueueStep
<1>2. PoolInv /\ PoolInv' /\ [Next]_vars =>
          [restarts' = restarts =>
               \A c \in InQueue :
                   (\E i \in DOMAIN valid' : valid'[i] = c) =>
                       \/ Place(valid', c) <= Place(valid, c)
                       \/ Place(valid, c) = 1 /\ Place(valid', c) = Len(valid')]_vars
    BY <1>1
<1> QED BY <1>2, PoolInvariant, PTL DEF Spec, TakesTurns

\* A Cookie leaves the exhausted set when it is due or deleted, never because a
\* client returns a copy it had from before.
THEOREM CookiesRest == Spec => RestsUntilDue
<1>1. ASSUME PoolInv, [Next]_vars, restarts' = restarts, NEW c \in exhausted \ due
      PROVE  c \in exhausted' \/ c \notin InPool'
    <2>1. ASSUME NEW d \in Cookies, Delete(d) PROVE c \in exhausted' \/ c \notin InPool'
        <3>1. valid \in Seq(Cookies) /\ InQueue \cap exhausted = {}
            BY <1>1 DEF PoolInv, TypeOK, OnePlace
        <3>2. Elements(valid') = Elements(valid) \ {d}
            BY <2>1, <3>1, WithoutProperties DEF Delete
        <3> QED BY <2>1, <3>1, <3>2 DEF Delete, InPool, InQueue, Elements
    <2>2. ~Restart
        BY <1>1, RestartIsCounted
    <2>3. CASE \E d \in Cookies : Delete(d)
        BY <2>1, <2>3
    <2>4. CASE \/ \E k \in Keys \cup {NoKey}, required \in Cookies \cup {NoCookie} :
                      Request(k, required)
               \/ CheckReset
        BY <2>4 DEF Request, CheckReset, Rested
    <2>5. CASE \/ \E d \in Cookies : Returned(d) \/ Submit(d)
               \/ GetStatus \/ Outside \/ UNCHANGED vars
        BY <2>5 DEF Returned, Return, ReturnLimited, ReturnUseless, Submit, GetStatus, Outside, TimePasses,
           Forget, PostConfig, SaveLoads, SaveWrites, vars, poolVars
    <2> QED BY <1>1, <2>2, <2>3, <2>4, <2>5 DEF Next, Replied, Unreplied
<1>2. PoolInv /\ [Next]_vars =>
          [restarts' = restarts =>
               \A c \in exhausted \ due : c \in exhausted' \/ c \notin InPool']_vars
    BY <1>1
<1> QED BY <1>2, PoolInvariant, PTL DEF Spec, RestsUntilDue
=============================================================================
