------------------------- MODULE ImplicitChatProofs -------------------------
(***************************************************************************)
(* The theorems about ImplicitChat: that the answers given by reuse are    *)
(* answers to the whole request, that the cache and its snapshot say of    *)
(* the conversations upstream what is so, both up to the turns that were   *)
(* recorded out of place, and that a conversation in which an attempt      *)
(* failed is not continued, for any requests, records, retries and faults, *)
(* with any number of requests of one key under way.                       *)
(*                                                                         *)
(* The first part is about sequences: the library's induction principle    *)
(* cannot be instantiated here, so the induction over lengths rests on the *)
(* least element of a set of numbers.                                      *)
(***************************************************************************)
EXTENDS ImplicitChat, SequenceTheorems, WellFoundedInduction, TLAPS

-----------------------------------------------------------------------------
(* Induction                                                               *)

LEMMA LeastElement ==
    ASSUME NEW T \in SUBSET Nat, T # {}
    PROVE  \E m \in T : \A n \in T : m <= n
<1>1. PICK m \in T : \A n \in T : <<n, m>> \notin OpToRel(<, Nat)
  BY NatLessThanWellFounded, WFMin
<1>2. \A n \in T : ~(n < m)
  BY <1>1 DEF OpToRel
<1> QED
  BY <1>2

LEMMA Induction ==
    ASSUME NEW S, 0 \in S, \A n \in Nat : n \in S => n + 1 \in S
    PROVE  \A n \in Nat : n \in S
<1> SUFFICES ASSUME Nat \ S # {} PROVE FALSE
  OBVIOUS
<1>1. PICK m \in Nat \ S : \A n \in Nat \ S : m <= n
  BY LeastElement
<1>2. m # 0 /\ m - 1 \in Nat /\ m - 1 \notin Nat \ S
  BY <1>1
<1> QED
  BY <1>1, <1>2

-----------------------------------------------------------------------------
(* FlattenSeq                                                              *)

\* f[i] is the first i elements of s, one after the other.
Joins(f, s, n) == f = [i \in 1..n |-> IF i = 1 THEN s[i] ELSE f[i - 1] \o s[i]]

LEMMA JoinsAt ==
    ASSUME NEW f, NEW s, NEW n \in Nat, Joins(f, s, n), NEW i \in 1..n
    PROVE  f[i] = IF i = 1 THEN s[i] ELSE f[i - 1] \o s[i]
<1> DEFINE F == [j \in 1..n |-> IF j = 1 THEN s[j] ELSE f[j - 1] \o s[j]]
<1>1. f = F
  BY DEF Joins
<1>2. F[i] = IF i = 1 THEN s[i] ELSE f[i - 1] \o s[i]
  OBVIOUS
<1> HIDE DEF F
<1> QED
  BY <1>1, <1>2

LEMMA JoinExists ==
    ASSUME NEW s, NEW n \in Nat
    PROVE  \E f : Joins(f, s, n)
<1> DEFINE S == {k \in Nat : \E f : Joins(f, s, k)}
<1>1. 0 \in S
  <2>1. Joins([i \in 1..0 |-> s], s, 0)
    BY DEF Joins
  <2> QED
    BY <2>1
<1>2. ASSUME NEW k \in Nat, k \in S PROVE k + 1 \in S
  <2>1. PICK f : Joins(f, s, k)
    BY <1>2
  <2> DEFINE g == [i \in 1..k + 1 |-> IF i <= k THEN f[i]
                                      ELSE IF i = 1 THEN s[i] ELSE f[k] \o s[i]]
  <2>2. ASSUME NEW i \in 1..k + 1
        PROVE  g[i] = IF i = 1 THEN s[i] ELSE g[i - 1] \o s[i]
    <3>1. CASE i <= k
      <4>1. g[i] = f[i] /\ f[i] = IF i = 1 THEN s[i] ELSE f[i - 1] \o s[i]
        BY <2>1, <3>1, JoinsAt
      <4>2. i # 1 => i - 1 \in 1..k + 1 /\ i - 1 <= k /\ g[i - 1] = f[i - 1]
        BY <3>1
      <4> QED
        BY <4>1, <4>2
    <3>2. CASE i = k + 1 /\ i # 1
      <4>1. i - 1 = k /\ k \in 1..k + 1 /\ ~(i <= k)
        BY <3>2
      <4>2. g[i - 1] = f[k]
        BY <4>1
      <4> QED
        BY <3>2, <4>1, <4>2
    <3>3. CASE i = k + 1 /\ i = 1
      BY <3>3
    <3> QED
      BY <3>1, <3>2, <3>3
  <2>3. Joins(g, s, k + 1)
    BY <2>2 DEF Joins
  <2> HIDE DEF g
  <2> QED
    BY <2>3
<1> HIDE DEF S
<1>3. n \in S
  BY <1>1, <1>2, Induction
<1> QED
  BY <1>3 DEF S

AgreeUpTo(s, r, n) == \A i \in 1..n : s[i] = r[i]

LEMMA JoinsAgree ==
    \A s, r, f, g : \A n \in Nat, m \in Nat :
        n <= m /\ AgreeUpTo(s, r, n) /\ Joins(f, s, n) /\ Joins(g, r, m) => AgreeUpTo(f, g, n)
<1> SUFFICES ASSUME NEW s, NEW r, NEW f, NEW g, NEW n \in Nat, NEW m \in Nat, n <= m,
                    \A i \in 1..n : s[i] = r[i], Joins(f, s, n), Joins(g, r, m)
             PROVE  \A i \in 1..n : f[i] = g[i]
  BY DEF AgreeUpTo
<1> DEFINE S == {i \in Nat : i \in 1..n => f[i] = g[i]}
<1>1. 0 \in S
  OBVIOUS
<1>2. ASSUME NEW i \in Nat, i \in S PROVE i + 1 \in S
  <2> SUFFICES ASSUME i + 1 \in 1..n PROVE f[i + 1] = g[i + 1]
    OBVIOUS
  <2>1. PICK j \in 1..n : j = i + 1 /\ j \in 1..m /\ j - 1 = i
    OBVIOUS
  <2>2. f[j] = IF j = 1 THEN s[j] ELSE f[j - 1] \o s[j]
    BY JoinsAt
  <2>3. g[j] = IF j = 1 THEN r[j] ELSE g[j - 1] \o r[j]
    BY <2>1, JoinsAt
  <2>4. j # 1 => f[i] = g[i]
    BY <1>2, <2>1
  <2> QED
    BY <2>1, <2>2, <2>3, <2>4
<1> HIDE DEF S
<1>3. \A i \in Nat : i \in S
  BY <1>1, <1>2, Induction
<1> QED
  BY <1>3 DEF S

LEMMA FlattenIsJoin ==
    ASSUME NEW s, NEW n \in Nat, Len(s) = n, n # 0, NEW f, Joins(f, s, n)
    PROVE  FlattenSeq(s) = f[n]
<1> DEFINE h == CHOOSE g : g = [i \in 1..Len(s) |-> IF i = 1 THEN s[i] ELSE g[i - 1] \o s[i]]
<1>1. \E g : Joins(g, s, n)
  BY JoinExists
<1>2. Joins(h, s, n)
  BY <1>1 DEF Joins
<1>3. FlattenSeq(s) = h[n]
  BY DEF FlattenSeq
<1> HIDE DEF h
<1>4. n <= n /\ AgreeUpTo(s, s, n)
  BY DEF AgreeUpTo
<1>5. AgreeUpTo(h, f, n)
  BY <1>2, <1>4, JoinsAgree
<1>6. h[n] = f[n]
  BY <1>5 DEF AgreeUpTo
<1> QED
  BY <1>3, <1>6

LEMMA FlattenNext ==
    ASSUME NEW D, NEW n \in Nat, NEW m \in Nat, m = n + 1,
           NEW s \in Seq(Seq(D)), NEW r \in Seq(Seq(D)),
           Len(s) = n, Len(r) = m, \A i \in 1..n : s[i] = r[i]
    PROVE  FlattenSeq(r) = FlattenSeq(s) \o r[m]
<1>1. PICK g : Joins(g, r, m)
  BY JoinExists
<1>2. FlattenSeq(r) = g[m]
  BY <1>1, FlattenIsJoin
<1>0. n <= m /\ AgreeUpTo(s, r, n)
  BY DEF AgreeUpTo
<1>3. m \in 1..m /\ m - 1 = n
  OBVIOUS
<1>4. g[m] = IF m = 1 THEN r[m] ELSE g[n] \o r[m]
  <2>1. g[m] = IF m = 1 THEN r[m] ELSE g[m - 1] \o r[m]
    BY <1>1, <1>3, JoinsAt
  <2> QED
    BY <1>3, <2>1
<1>5. CASE n = 0
  <2>1. FlattenSeq(s) = <<>>
    BY <1>5 DEF FlattenSeq
  <2> QED
    BY <1>2, <1>4, <1>5, <2>1
<1>6. CASE n # 0
  <2>1. PICK f : Joins(f, s, n)
    BY JoinExists
  <2>2. FlattenSeq(s) = f[n]
    BY <1>6, <2>1, FlattenIsJoin
  <2>3. AgreeUpTo(f, g, n)
    BY <1>0, <1>1, <2>1, JoinsAgree
  <2>4. m # 1 /\ n \in 1..n /\ f[n] = g[n]
    BY <1>6, <2>3 DEF AgreeUpTo
  <2> QED
    BY <1>2, <1>4, <2>2, <2>4
<1> QED
  BY <1>5, <1>6

LEMMA FlattenTyped ==
    ASSUME NEW D, NEW s \in Seq(Seq(D))
    PROVE  FlattenSeq(s) \in Seq(D)
<1>1. Len(s) \in Nat
  OBVIOUS
<1>2. CASE Len(s) = 0
  BY <1>2 DEF FlattenSeq
<1>3. CASE Len(s) # 0
  <2>1. \E f : Joins(f, s, Len(s))
    BY <1>1, JoinExists
  <2>2. PICK f : Joins(f, s, Len(s))
    BY <2>1
  <2> DEFINE S == {i \in Nat : i \in 1..Len(s) => f[i] \in Seq(D)}
  <2>3. 0 \in S
    OBVIOUS
  <2>4. ASSUME NEW i \in Nat, i \in S PROVE i + 1 \in S
    <3> SUFFICES ASSUME i + 1 \in 1..Len(s) PROVE f[i + 1] \in Seq(D)
      OBVIOUS
    <3>1. PICK j \in 1..Len(s) : j = i + 1 /\ j - 1 = i
      OBVIOUS
    <3>2. f[j] = IF j = 1 THEN s[j] ELSE f[j - 1] \o s[j]
      BY <1>1, <2>2, JoinsAt
    <3>3. j # 1 => f[i] \in Seq(D)
      BY <2>4, <3>1
    <3>4. s[j] \in Seq(D)
      OBVIOUS
    <3> QED
      BY <3>1, <3>2, <3>3, <3>4
  <2> HIDE DEF S
  <2>5. Len(s) \in S
    BY <1>1, <2>3, <2>4, Induction
  <2>6. FlattenSeq(s) = f[Len(s)]
    BY <1>1, <1>3, <2>2, FlattenIsJoin
  <2>7. Len(s) \in 1..Len(s)
    BY <1>1, <1>3
  <2> QED
    BY <2>5, <2>6, <2>7 DEF S
<1> QED
  BY <1>2, <1>3

-----------------------------------------------------------------------------
(* The invariant                                                           *)

Turns == [users : Seq(Messages), id : Nat]
Answers == [conv : Nat, users : Seq(Messages)]
Plans == [kind : {"rebuild", "append", "fork"}, from : Nat]

Handlers ==
    [pc : {"idle", "cookie", "bootstrap", "plan", "drop", "reuse", "full", "transform",
           "commit", "failed", "return"},
     req : Seq(Messages), tries : Nat, cookie : Cookies \cup {NoCookie}, pro : BOOLEAN,
     base : Records \cup {NoRecord}, plan : Plans, sent : Seq(Messages), node : Nat,
     refused : BOOLEAN]

Types ==
    /\ task \in [Tasks -> Handlers]
    /\ cache \in [Keys -> Records \cup {NoRecord}]
    /\ disk \in [Keys -> Records \cup {NoRecord}]
    /\ nodes \in Seq(Answers)
    /\ poisoned \in SUBSET (1..Len(nodes))
    /\ misplaced \in SUBSET Nat
    /\ faults \in Nat

\* The user messages of the first i turns.
Prefix(turns, i) == FlattenSeq([j \in 1..i |-> turns[j].users])

\* A conversation upstream, begun by a request of the key.
OfKey(conv, k) == conv \in 1..Len(nodes) /\ Head(nodes[conv].users) = k

\* The first i turns were recorded where they were planned.
Clean(turns, i) == \A j \in 1..i : turns[j].id \notin misplaced

\* What the record says is so upstream, whether it may still be used or not.
Real(c, k) ==
    /\ OfKey(c.conv, k)
    /\ \A i \in 1..Len(c.turns) :
        /\ c.turns[i].id \in 1..Len(nodes)
        /\ Clean(c.turns, i) =>
            /\ nodes[c.turns[i].id].conv = c.conv
            /\ nodes[c.turns[i].id].users = Prefix(c.turns, i)
RealOrNone(c, k) == c = NoRecord \/ Real(c, k)

\* The turns before the one the request replaces are the request, up to the suffix.
Continues(x) ==
    /\ x.base # NoRecord
    /\ x.plan.from \in 2..Len(x.base.turns) + 1
    /\ x.plan.kind = "append" => x.plan.from = Len(x.base.turns) + 1
    /\ x.req = Prefix(x.base.turns, x.plan.from - 1) \o x.sent

Answered(x) ==
    /\ x.node # 0
    /\ Clean(x.base.turns, x.plan.from - 1) => nodes[x.node].users = x.req
    /\ IF x.plan.kind = "rebuild"
       THEN x.sent = x.req /\ x.plan.from = 1 /\ nodes[x.node].conv = x.node
       ELSE nodes[x.node].conv = x.base.conv

Reuses(x) == x.pc \in {"reuse", "transform", "commit"} /\ x.plan.kind # "rebuild"

HandlerInv(x) ==
    /\ x.req \in Requests
    /\ x.pc # "cookie" => x.cookie \in Cookies
    /\ RealOrNone(x.base, Key(x.req))
    /\ x.node # 0 => x.node \in 1..Len(nodes) /\ OfKey(nodes[x.node].conv, Key(x.req))
    /\ x.pc = "reuse" => x.plan.kind # "rebuild"
    /\ x.pc \in {"transform", "commit"} => Answered(x)
    /\ Reuses(x) => Continues(x)

HandlersInv == \A t \in Tasks : task[t].pc # "idle" => HandlerInv(task[t])

\* The handler has begun a conversation and not recorded it yet: no attempt in
\* it has failed, and nobody else knows of it.
Owner(x) == x.pc \in {"transform", "commit"} /\ x.plan.kind = "rebuild"

OwnInv(t) ==
    Owner(task[t]) =>
        /\ task[t].node \notin poisoned
        /\ \A k \in Keys : cache[k] # NoRecord => cache[k].conv # task[t].node
        /\ \A u \in Tasks \ {t} : task[u].pc # "idle" => task[t].node \notin AttemptedIn(task[u])
OwnersInv == \A t \in Tasks : OwnInv(t)

RecordInv(k) ==
    /\ RealOrNone(cache[k], k)
    /\ RealOrNone(disk[k], k)
    /\ Retained(cache[k]) => cache[k].conv \notin poisoned
RecordsInv == \A k \in Keys : RecordInv(k)

ChatInv == Types /\ HandlersInv /\ OwnersInv /\ RecordsInv

-----------------------------------------------------------------------------
(* The comparison of a request with a record                               *)

LEMMA TurnUsers ==
    ASSUME NEW turns \in Seq(Turns), NEW i \in 0..Len(turns)
    PROVE  /\ [j \in 1..i |-> turns[j].users] \in Seq(Seq(Messages))
           /\ Len([j \in 1..i |-> turns[j].users]) = i
<1>1. \A j \in 1..i : j \in 1..Len(turns) /\ turns[j] \in Turns
  OBVIOUS
<1>2. \A j \in 1..i : turns[j].users \in Seq(Messages)
  BY <1>1 DEF Turns
<1> QED
  BY <1>2

LEMMA PrefixTyped ==
    ASSUME NEW turns \in Seq(Turns), NEW i \in 0..Len(turns)
    PROVE  Prefix(turns, i) \in Seq(Messages)
BY TurnUsers, FlattenTyped DEF Prefix

LEMMA PrefixZero ==
    ASSUME NEW turns
    PROVE  Prefix(turns, 0) = <<>>
<1>1. [j \in 1..0 |-> turns[j].users] = <<>>
  OBVIOUS
<1>2. FlattenSeq(<<>>) = <<>>
  BY DEF FlattenSeq
<1> QED
  BY <1>1, <1>2 DEF Prefix

LEMMA PrefixNext ==
    ASSUME NEW turns \in Seq(Turns), NEW i \in 1..Len(turns)
    PROVE  Prefix(turns, i) = Prefix(turns, i - 1) \o turns[i].users
<1> DEFINE s == [j \in 1..i - 1 |-> turns[j].users]
           r == [j \in 1..i |-> turns[j].users]
<1>1. i - 1 \in 0..Len(turns) /\ i \in 0..Len(turns) /\ i - 1 \in Nat /\ i \in Nat
  OBVIOUS
<1>2. s \in Seq(Seq(Messages)) /\ Len(s) = i - 1
  BY <1>1, TurnUsers
<1>3. r \in Seq(Seq(Messages)) /\ Len(r) = i
  BY <1>1, TurnUsers
<1>4. (\A j \in 1..i - 1 : s[j] = r[j]) /\ r[i] = turns[i].users
  OBVIOUS
<1>5. Prefix(turns, i - 1) = FlattenSeq(s) /\ Prefix(turns, i) = FlattenSeq(r)
  BY DEF Prefix
<1> HIDE DEF s, r
<1>6. PICK n \in Nat : n = i - 1 /\ i = n + 1
  BY <1>1
<1>7. FlattenSeq(r) = FlattenSeq(s) \o r[i]
  BY ZenonT(40), <1>1, <1>2, <1>3, <1>4, <1>6, FlattenNext
<1> QED
  BY <1>4, <1>5, <1>7

LEMMA PrefixSame ==
    ASSUME NEW turns, NEW other, NEW i \in Nat, \A j \in 1..i : turns[j] = other[j]
    PROVE  Prefix(turns, i) = Prefix(other, i)
<1>1. [j \in 1..i |-> turns[j].users] = [j \in 1..i |-> other[j].users]
  OBVIOUS
<1> QED
  BY <1>1 DEF Prefix

LEMMA Extended ==
    ASSUME NEW D, NEW users \in Seq(D), NEW w \in Seq(D), NEW n \in Nat, n <= Len(users),
           \A j \in 1..Len(w) : n + j <= Len(users) /\ users[n + j] = w[j]
    PROVE  /\ n + Len(w) <= Len(users)
           /\ SubSeq(users, 1, n) \o w = SubSeq(users, 1, n + Len(w))
<1>1. n + Len(w) <= Len(users)
  <2>1. CASE Len(w) = 0
    BY <2>1
  <2>2. CASE Len(w) # 0
    <3>1. Len(w) \in 1..Len(w)
      BY <2>2
    <3> QED
      BY <3>1
  <2> QED
    BY <2>1, <2>2
<1>2. w = SubSeq(users, n + 1, n + Len(w))
  <2> DEFINE q == SubSeq(users, n + 1, n + Len(w))
  <2>1. \A i \in n + 1..n + Len(w) : users[i] \in D
    BY <1>1
  <2>2. /\ q \in Seq(D)
        /\ Len(q) = IF n + 1 <= n + Len(w) THEN (n + Len(w)) - (n + 1) + 1 ELSE 0
        /\ \A i \in 1..(n + Len(w)) - (n + 1) + 1 : q[i] = users[(n + 1) + i - 1]
    BY <2>1, SubSeqProperties
  <2> HIDE DEF q
  <2>3. Len(q) = Len(w)
    BY <2>2
  <2>4. \A i \in 1..Len(w) : w[i] = q[i]
    <3> SUFFICES ASSUME NEW i \in 1..Len(w) PROVE w[i] = q[i]
      OBVIOUS
    <3>1. (n + 1) + i - 1 = n + i /\ i \in 1..(n + Len(w)) - (n + 1) + 1
      OBVIOUS
    <3>2. q[i] = users[(n + 1) + i - 1]
      BY <2>2, <3>1
    <3> QED
      BY <3>1, <3>2
  <2>5. w = q
    BY <2>2, <2>3, <2>4, SeqEqual
  <2> QED
    BY <2>5 DEF q
<1>3. 1 \in 1..Len(users) + 1 /\ n \in 1 - 1..Len(users) /\ n + Len(w) \in n..Len(users)
  BY <1>1
<1>4. SubSeq(users, 1, n) \o SubSeq(users, n + 1, n + Len(w)) = SubSeq(users, 1, n + Len(w))
  BY <1>3, ConcatAdjacentSubSeq
<1> QED
  BY <1>1, <1>2, <1>4

LEMMA Cut ==
    ASSUME NEW D, NEW users \in Seq(D), NEW n \in Nat, n <= Len(users)
    PROVE  SubSeq(users, 1, n) \o SubSeq(users, n + 1, Len(users)) = users
<1>1. 1 \in 1..Len(users) + 1 /\ n \in 1 - 1..Len(users) /\ Len(users) \in n..Len(users)
  OBVIOUS
<1>2. SubSeq(users, 1, n) \o SubSeq(users, n + 1, Len(users)) = SubSeq(users, 1, Len(users))
  BY <1>1, ConcatAdjacentSubSeq
<1> QED
  BY <1>2, SubSeqFull

\* The turns before the first that differs are what the request begins with.
LEMMA MatchedPrefix ==
    ASSUME NEW users \in Seq(Messages), NEW turns \in Seq(Turns), NEW n \in 0..Len(turns),
           \A i \in 1..n : Matches(turns, i, users)
    PROVE  /\ Len(Prefix(turns, n)) <= Len(users)
           /\ Prefix(turns, n) = SubSeq(users, 1, Len(Prefix(turns, n)))
<1> DEFINE P(k) == /\ Len(Prefix(turns, k)) <= Len(users)
                   /\ Prefix(turns, k) = SubSeq(users, 1, Len(Prefix(turns, k)))
           S == {k \in Nat : k \in 0..n => P(k)}
<1>1. 0 \in S
  <2>1. Prefix(turns, 0) = <<>>
    BY PrefixZero
  <2>2. Len(<<>>) = 0 /\ SubSeq(users, 1, 0) = <<>> /\ 0 <= Len(users)
    BY SubSeqEmpty
  <2>3. P(0)
    BY <2>1, <2>2, Zenon
  <2> QED
    BY <2>3
<1>2. ASSUME NEW k \in Nat, k \in S PROVE k + 1 \in S
  <2> SUFFICES ASSUME k + 1 \in 0..n PROVE P(k + 1)
    OBVIOUS
  <2>1. PICK i \in 1..n : i = k + 1 /\ i - 1 = k /\ i \in 1..Len(turns) /\ k \in 0..Len(turns)
    OBVIOUS
  <2>2. PICK p \in Seq(Messages) : p = Prefix(turns, k)
    BY <2>1, PrefixTyped
  <2>3. PICK w \in Seq(Messages) : w = turns[i].users /\ DOMAIN w = 1..Len(w)
    <3>1. turns[i] \in Turns
      BY <2>1
    <3> QED
      BY <3>1 DEF Turns
  <2>4. Len(p) <= Len(users) /\ p = SubSeq(users, 1, Len(p)) /\ Len(p) \in Nat
    BY <1>2, <2>1, <2>2
  <2>5. StartOf(turns, i) = Len(p)
    BY <2>1, <2>2 DEF StartOf, Prefix
  <2>6. \A j \in 1..Len(w) : Len(p) + j <= Len(users) /\ users[Len(p) + j] = w[j]
    <3>1. Matches(turns, i, users)
      OBVIOUS
    <3> QED
      BY <2>3, <2>5, <3>1 DEF Matches
  <2>7. /\ Len(p) + Len(w) <= Len(users)
        /\ SubSeq(users, 1, Len(p)) \o w = SubSeq(users, 1, Len(p) + Len(w))
    BY <2>4, <2>6, Extended
  <2>8. Prefix(turns, i) = p \o w
    BY <2>1, <2>2, <2>3, PrefixNext
  <2>9. Len(p \o w) = Len(p) + Len(w)
    OBVIOUS
  <2>10. P(i)
    BY <2>4, <2>7, <2>8, <2>9
  <2> QED
    BY <2>1, <2>10
<1> HIDE DEF S
<1>3. n \in S
  BY SMTT(30), <1>1, <1>2, Induction
<1> QED
  BY <1>3 DEF S

LEMMA SuffixFits ==
    ASSUME NEW users \in Seq(Messages), NEW turns \in Seq(Turns),
           NEW from \in 1..Len(turns) + 1, \A i \in 1..from - 1 : Matches(turns, i, users)
    PROVE  users = Prefix(turns, from - 1) \o Suffix(turns, from, users)
<1>1. PICK n \in 0..Len(turns) : n = from - 1
  OBVIOUS
<1>2. PICK p \in Seq(Messages) : p = Prefix(turns, n)
  BY PrefixTyped
<1>3. Len(p) <= Len(users) /\ p = SubSeq(users, 1, Len(p)) /\ Len(p) \in Nat
  BY <1>1, <1>2, MatchedPrefix
<1>4. Suffix(turns, from, users) = SubSeq(users, Len(p) + 1, Len(users))
  BY <1>1, <1>2 DEF Suffix, StartOf, Prefix
<1>5. SubSeq(users, 1, Len(p)) \o SubSeq(users, Len(p) + 1, Len(users)) = users
  BY <1>3, Cut
<1> QED
  BY <1>1, <1>2, <1>3, <1>4, <1>5

LEMMA DiffFacts ==
    ASSUME NEW users \in Seq(Messages), NEW turns \in Seq(Turns), NEW d,
           d = Diff(turns, users), d # Rebuild
    PROVE  /\ d \in Plans /\ d.kind # "rebuild"
           /\ d.from \in 2..Len(turns) + 1
           /\ d.kind = "append" => d.from = Len(turns) + 1
           /\ users = Prefix(turns, d.from - 1) \o Suffix(turns, d.from, users)
<1> DEFINE differ == {i \in DOMAIN turns : ~Matches(turns, i, users)}
           first == CHOOSE i \in differ : \A j \in differ : i <= j
<1>1. DOMAIN turns = 1..Len(turns) /\ Len(turns) \in Nat
  OBVIOUS
<1>2. CASE turns = <<>>
  BY <1>2 DEF Diff
<1>3. CASE turns # <<>> /\ differ = {}
  <2>1. d = [kind |-> "append", from |-> Len(turns) + 1]
    BY <1>3 DEF Diff
  <2>2. Len(turns) # 0
    BY <1>3
  <2>3. PICK from \in 1..Len(turns) + 1 : from = Len(turns) + 1 /\ from # 1
    BY <1>1, <2>2
  <2>4. \A i \in 1..from - 1 : Matches(turns, i, users)
    BY <1>1, <1>3, <2>3
  <2>5. users = Prefix(turns, from - 1) \o Suffix(turns, from, users)
    BY <2>4, SuffixFits
  <2> QED
    BY <1>1, <2>1, <2>3, <2>5 DEF Plans
<1>4. CASE differ # {}
  <2>1. turns # <<>>
    BY <1>4
  <2>2. differ \in SUBSET Nat
    BY <1>1
  <2>3. first \in differ /\ \A j \in differ : first <= j
    <3> HIDE DEF differ
    <3> QED
      BY <1>4, <2>2, LeastElement
  <2>4. d = [kind |-> "fork", from |-> first] /\ first # 1
    BY <1>4, <2>1 DEF Diff
  <2> HIDE DEF first
  <2>5. PICK from \in 1..Len(turns) + 1 : from = first /\ from \in 1..Len(turns) /\ from # 1
    BY <1>1, <2>3, <2>4
  <2>6. \A i \in 1..from - 1 : Matches(turns, i, users)
    <3> SUFFICES ASSUME NEW i \in 1..from - 1, ~Matches(turns, i, users) PROVE FALSE
      OBVIOUS
    <3>1. i \in differ
      BY <1>1, <2>5
    <3> QED
      BY <2>3, <2>5, <3>1
  <2>7. users = Prefix(turns, from - 1) \o Suffix(turns, from, users)
    BY <2>6, SuffixFits
  <2> QED
    BY <1>1, <2>4, <2>5, <2>7 DEF Plans
<1> QED
  BY <1>2, <1>3, <1>4

-----------------------------------------------------------------------------
(* What a step may change                                                  *)

\* Messages upstream stay as they are, and what is out of place stays so.
Grows ==
    /\ Len(nodes) <= Len(nodes')
    /\ \A n \in 1..Len(nodes) : nodes'[n] = nodes[n]
    /\ misplaced \subseteq misplaced'

\* The record of a key is forgotten, invalidated, aged or left alone.
Weakened(k) ==
    \/ cache'[k] = NoRecord
    \/ /\ cache[k] # NoRecord
       /\ cache'[k].conv = cache[k].conv /\ cache'[k].turns = cache[k].turns
       /\ Retained(cache'[k]) => Retained(cache[k])

\* The snapshot has what it had, perhaps aged, or what the cache has.
Saved(k) ==
    \/ disk'[k] = cache'[k] \/ disk'[k] = disk[k]
    \/ /\ disk[k] # NoRecord
       /\ disk'[k].conv = disk[k].conv /\ disk'[k].turns = disk[k].turns

\* No conversation of the key has been seen to fail.
Foreign(k) == \A v \in poisoned' \ poisoned : ~OfKey(v, k)

LEMMA RequestFacts ==
    ASSUME NEW r \in Requests
    PROVE  r \in Seq(Messages) /\ r # <<>> /\ Key(r) \in Keys /\ Len(r) # 0
<1>1. r \in Seq(Messages) /\ r # <<>>
  BY RequestsAreNotEmpty DEF Messages
<1>2. Key(r) \in Keys
  BY DEF Keys
<1>3. Len(r) # 0
  BY <1>1
<1> QED
  BY <1>1, <1>2, <1>3

LEMMA IdleTyped == Idle \in Handlers
<1>1. <<>> \in Seq(Messages)
  OBVIOUS
<1> QED
  BY <1>1 DEF Idle, Handlers, Plans, Rebuild

LEMMA RecordFacts ==
    ASSUME NEW c \in Records
    PROVE  /\ c # NoRecord /\ c.conv \in Nat /\ c.turns \in Seq(Turns)
           /\ Invalid(c) \in Records /\ ~Retained(Invalid(c))
           /\ Invalid(c).conv = c.conv /\ Invalid(c).turns = c.turns
           /\ [c EXCEPT !.old = TRUE] \in Records /\ ~Retained([c EXCEPT !.old = TRUE])
           /\ [c EXCEPT !.old = TRUE].conv = c.conv /\ [c EXCEPT !.old = TRUE].turns = c.turns
<1>1. c # NoRecord
  BY SentinelAssumption
<1>2. c.conv \in Nat /\ c.turns \in Seq(Turns)
  BY DEF Records, Turns
<1>3. [c EXCEPT !.valid = FALSE] \in Records /\ [c EXCEPT !.valid = FALSE].conv = c.conv
      /\ [c EXCEPT !.valid = FALSE].turns = c.turns /\ [c EXCEPT !.valid = FALSE].valid = FALSE
  BY DEF Records
<1>4. [c EXCEPT !.old = TRUE] \in Records /\ [c EXCEPT !.old = TRUE].conv = c.conv
      /\ [c EXCEPT !.old = TRUE].turns = c.turns /\ [c EXCEPT !.old = TRUE].old = TRUE
  BY DEF Records
<1> QED
  BY <1>1, <1>2, <1>3, <1>4 DEF Invalid, Retained

LEMMA PersistFacts ==
    ASSUME Types, cache' \in [Keys -> Records \cup {NoRecord}], Persist
    PROVE  /\ disk' \in [Keys -> Records \cup {NoRecord}] /\ faults' \in Nat
           /\ \A k \in Keys : Saved(k)
BY DEF Types, Persist, Fault, Saved

LEMMA KeepFacts ==
    ASSUME Types, Keep
    PROVE  /\ cache' \in [Keys -> Records \cup {NoRecord}]
           /\ disk' \in [Keys -> Records \cup {NoRecord}] /\ faults' \in Nat
           /\ \A k \in Keys : Saved(k) /\ Weakened(k)
BY DEF Types, Keep, Saved, Weakened

LEMMA InvalidateFacts ==
    ASSUME Types, NEW k \in Keys, Invalidate(k)
    PROVE  /\ cache' \in [Keys -> Records \cup {NoRecord}]
           /\ disk' \in [Keys -> Records \cup {NoRecord}] /\ faults' \in Nat
           /\ \A j \in Keys : Saved(j) /\ Weakened(j)
           /\ ~Retained(cache'[k])
<1>1. CASE cache[k] = NoRecord
  <2>1. Keep
    BY <1>1 DEF Invalidate
  <2>2. cache'[k] = NoRecord
    BY <1>1, <2>1 DEF Keep
  <2> QED
    BY <2>1, <2>2, KeepFacts DEF Retained
<1>2. CASE cache[k] # NoRecord
  <2>1. cache' = [cache EXCEPT ![k] = Invalid(cache[k])] /\ Persist
    BY <1>2 DEF Invalidate
  <2>2. PICK c \in Records : c = cache[k]
    BY <1>2 DEF Types
  <2>3. PICK d \in Records : d = Invalid(c) /\ ~Retained(d) /\ d.conv = c.conv /\ d.turns = c.turns
    BY RecordFacts
  <2>4. cache' = [cache EXCEPT ![k] = d]
    BY <2>1, <2>2, <2>3
  <2>5. cache' \in [Keys -> Records \cup {NoRecord}]
    BY <2>4 DEF Types
  <2>6. cache'[k] = d /\ \A j \in Keys : j # k => cache'[j] = cache[j]
    BY <2>4 DEF Types
  <2>7. \A j \in Keys : Weakened(j)
    BY <1>2, <2>2, <2>3, <2>6 DEF Weakened
  <2> QED
    BY <2>1, <2>3, <2>5, <2>6, <2>7, PersistFacts
<1> QED
  BY <1>1, <1>2

LEMMA InvalidateByCookieFacts ==
    ASSUME Types, NEW e, InvalidateByCookie(e)
    PROVE  /\ cache' \in [Keys -> Records \cup {NoRecord}]
           /\ disk' \in [Keys -> Records \cup {NoRecord}] /\ faults' \in Nat
           /\ \A j \in Keys : Saved(j) /\ Weakened(j)
<1> DEFINE bound == {k \in Keys : cache[k] # NoRecord /\ cache[k].cookie = e}
<1>1. CASE bound = {}
  BY <1>1, KeepFacts DEF InvalidateByCookie
<1>2. CASE bound # {}
  <2>1. /\ cache' = [k \in Keys |-> IF k \in bound THEN Invalid(cache[k]) ELSE cache[k]]
        /\ Persist
    BY <1>2 DEF InvalidateByCookie
  <2>2. ASSUME NEW j \in Keys
        PROVE  cache'[j] \in Records \cup {NoRecord} /\ Weakened(j)
    <3>1. CASE j \in bound
      <4>1. PICK c \in Records : c = cache[j]
        BY <3>1 DEF Types
      <4>2. cache'[j] = Invalid(c)
        BY <2>1, <3>1, <4>1
      <4> QED
        BY <4>1, <4>2, RecordFacts DEF Weakened
    <3>2. CASE j \notin bound
      <4>1. cache'[j] = cache[j]
        BY <2>1, <3>2
      <4> QED
        BY <4>1 DEF Weakened, Types
    <3> QED
      BY <3>1, <3>2
  <2> HIDE DEF bound
  <2>3. cache' \in [Keys -> Records \cup {NoRecord}]
    BY <2>1, <2>2
  <2> QED
    BY <2>1, <2>2, <2>3, PersistFacts
<1> QED
  BY <1>1, <1>2

-----------------------------------------------------------------------------
(* What the steps of others leave true                                     *)

LEMMA OfKeyStays ==
    ASSUME Types, Grows, nodes' \in Seq(Answers), NEW v, NEW k, OfKey(v, k)
    PROVE  OfKey(v, k)'
<1>1. v \in 1..Len(nodes) /\ Head(nodes[v].users) = k
  BY DEF OfKey
<1>2. Len(nodes) \in Nat /\ Len(nodes') \in Nat
  BY DEF Types
<1>3. v \in 1..Len(nodes') /\ nodes'[v] = nodes[v]
  BY <1>1, <1>2 DEF Grows
<1> QED
  BY <1>1, <1>3 DEF OfKey

LEMMA CleanStays ==
    ASSUME Grows, NEW turns, NEW i, Clean(turns, i)'
    PROVE  Clean(turns, i)
BY DEF Grows, Clean

LEMMA RealStays ==
    ASSUME Types, Grows, nodes' \in Seq(Answers), NEW c \in Records, NEW k, Real(c, k)
    PROVE  Real(c, k)'
<1>1. OfKey(c.conv, k)'
  BY OfKeyStays DEF Real
<1>2. ASSUME NEW i \in 1..Len(c.turns)
      PROVE  /\ c.turns[i].id \in 1..Len(nodes')
             /\ Clean(c.turns, i)' => /\ nodes'[c.turns[i].id].conv = c.conv
                                      /\ nodes'[c.turns[i].id].users = Prefix(c.turns, i)
  <2>1. /\ c.turns[i].id \in 1..Len(nodes)
        /\ Clean(c.turns, i) => /\ nodes[c.turns[i].id].conv = c.conv
                                /\ nodes[c.turns[i].id].users = Prefix(c.turns, i)
    BY DEF Real
  <2>2. Len(nodes) \in Nat /\ Len(nodes') \in Nat
    BY DEF Types
  <2>3. Clean(c.turns, i)' => Clean(c.turns, i)
    BY CleanStays
  <2> QED
    BY <2>1, <2>2, <2>3 DEF Grows
<1> QED
  BY <1>1, <1>2 DEF Real

LEMMA BaseStays ==
    ASSUME Types, Grows, nodes' \in Seq(Answers), NEW b, b \in Records \cup {NoRecord}, NEW k,
           RealOrNone(b, k)
    PROVE  RealOrNone(b, k)'
<1>1. CASE b = NoRecord
  BY <1>1 DEF RealOrNone
<1>2. CASE b # NoRecord
  <2>1. Real(b, k)'
    BY <1>2, RealStays DEF RealOrNone
  <2> QED
    BY <2>1 DEF RealOrNone
<1> QED
  BY <1>1, <1>2

LEMMA NodeStays ==
    ASSUME Types, Grows, nodes' \in Seq(Answers), NEW n, NEW k,
           n \in 1..Len(nodes), OfKey(nodes[n].conv, k)
    PROVE  n \in 1..Len(nodes') /\ nodes'[n] = nodes[n] /\ OfKey(nodes[n].conv, k)'
<1>1. Len(nodes) \in Nat /\ Len(nodes') \in Nat
  BY DEF Types
<1>2. n \in 1..Len(nodes') /\ nodes'[n] = nodes[n]
  BY <1>1 DEF Grows
<1>3. PICK v : v = nodes[n].conv
  OBVIOUS
<1>4. OfKey(v, k)'
  BY <1>3, OfKeyStays
<1>5. v = nodes'[n].conv
  BY <1>2, <1>3
<1> QED
  BY <1>2, <1>4, <1>5

LEMMA HandlerStays ==
    ASSUME Types, Grows, nodes' \in Seq(Answers), NEW x \in Handlers, HandlerInv(x)
    PROVE  HandlerInv(x)'
<1> DEFINE k == Key(x.req)
<1>1. RealOrNone(x.base, k)'
  BY BaseStays DEF HandlerInv, Handlers
<1>2. x.node # 0 =>
        /\ x.node \in 1..Len(nodes) /\ x.node \in 1..Len(nodes') /\ nodes'[x.node] = nodes[x.node]
        /\ OfKey(nodes[x.node].conv, k) /\ OfKey(nodes[x.node].conv, k)'
  BY NodeStays DEF HandlerInv
<1>3. x.pc \in {"transform", "commit"} => Answered(x)'
  <2> SUFFICES ASSUME x.pc \in {"transform", "commit"} PROVE Answered(x)'
    OBVIOUS
  <2>1. Answered(x)
    BY DEF HandlerInv
  <2>2. nodes'[x.node] = nodes[x.node]
    BY <1>2, <2>1 DEF Answered
  <2>3. Clean(x.base.turns, x.plan.from - 1)' => Clean(x.base.turns, x.plan.from - 1)
    BY CleanStays
  <2> QED
    BY <2>1, <2>2, <2>3 DEF Answered
<1>4. Reuses(x) => Continues(x)
  BY DEF HandlerInv
<1> QED
  BY <1>1, <1>2, <1>3, <1>4 DEF HandlerInv, Reuses, Continues

LEMMA HandlersNext ==
    ASSUME ChatInv, Types', Grows, NEW t \in Tasks, NEW y \in Handlers,
           task' = [task EXCEPT ![t] = y], y.pc # "idle" => HandlerInv(y)'
    PROVE  HandlersInv'
<1> SUFFICES ASSUME NEW a \in Tasks, task'[a].pc # "idle" PROVE HandlerInv(task[a])'
  BY DEF HandlersInv
<1>1. CASE a = t
  <2>1. task'[a] = y
    BY <1>1 DEF ChatInv, Types
  <2> QED
    BY <2>1
<1>2. CASE a # t
  <2>1. PICK x \in Handlers : x = task[a] /\ x = task'[a]
    BY <1>2 DEF ChatInv, Types
  <2>2. HandlerInv(x)
    BY <1>2, <2>1 DEF ChatInv, HandlersInv
  <2>3. HandlerInv(x)'
    BY <2>2, HandlerStays DEF ChatInv, Types
  <2> QED
    BY <2>1, <2>3
<1> QED
  BY <1>1, <1>2

LEMMA RecordNext ==
    ASSUME ChatInv, Types', Grows, NEW k \in Keys, Saved(k), Weakened(k),
           Retained(cache'[k]) => Foreign(k)
    PROVE  RecordInv(k)'
<1>1. PICK c : c = cache[k] /\ c \in Records \cup {NoRecord} /\ RealOrNone(c, k)
  BY DEF ChatInv, Types, RecordsInv, RecordInv
<1>2. PICK d : d = disk[k] /\ d \in Records \cup {NoRecord} /\ RealOrNone(d, k)
  BY DEF ChatInv, Types, RecordsInv, RecordInv
<1>3. RealOrNone(c, k)' /\ RealOrNone(d, k)'
  BY <1>1, <1>2, BaseStays DEF ChatInv, Types
<1>4. RealOrNone(cache[k], k)'
  <2>1. CASE cache'[k] = NoRecord
    BY <2>1 DEF RealOrNone
  <2>2. CASE cache'[k] # NoRecord
    <3>1. c # NoRecord /\ cache'[k].conv = c.conv /\ cache'[k].turns = c.turns
      BY <1>1, <2>2 DEF Weakened
    <3>2. Real(c, k)'
      BY <1>3, <3>1 DEF RealOrNone
    <3> QED
      BY <3>1, <3>2 DEF RealOrNone, Real
  <2> QED
    BY <2>1, <2>2
<1>5. RealOrNone(disk[k], k)'
  <2>1. CASE disk'[k] = cache'[k]
    BY <1>4, <2>1 DEF RealOrNone, Real
  <2>2. CASE disk'[k] = d
    BY <1>3, <2>2 DEF RealOrNone, Real
  <2>3. CASE d # NoRecord /\ disk'[k].conv = d.conv /\ disk'[k].turns = d.turns
    BY <1>3, <2>3 DEF RealOrNone, Real
  <2> QED
    BY <1>2, <2>1, <2>2, <2>3 DEF Saved
<1>6. Retained(cache'[k]) => cache'[k].conv \notin poisoned'
  <2> SUFFICES ASSUME Retained(cache'[k]) PROVE cache'[k].conv \notin poisoned'
    OBVIOUS
  <2>1. cache'[k] # NoRecord
    BY DEF Retained
  <2>2. c # NoRecord /\ cache'[k].conv = c.conv /\ Retained(c)
    BY <1>1, <2>1 DEF Weakened
  <2>3. c.conv \notin poisoned /\ OfKey(c.conv, k)
    BY <1>1, <2>2 DEF ChatInv, RecordsInv, RecordInv, RealOrNone, Real
  <2> QED
    BY <2>2, <2>3 DEF Foreign
<1> QED
  BY <1>4, <1>5, <1>6 DEF RecordInv, Retained

\* What a handler may have poisoned is of its own key.
LEMMA AttemptedFacts ==
    ASSUME ChatInv, NEW x \in Handlers, HandlerInv(x), NEW v \in AttemptedIn(x)
    PROVE  OfKey(v, Key(x.req)) /\ v \in 1..Len(nodes)
<1>1. CASE x.base # NoRecord /\ v = x.base.conv
  BY <1>1 DEF HandlerInv, RealOrNone, Real, OfKey
<1>2. CASE x.node # 0 /\ v = nodes[x.node].conv
  BY <1>2 DEF HandlerInv, OfKey
<1> QED
  BY <1>1, <1>2 DEF AttemptedIn

LEMMA OthersForeign ==
    ASSUME ChatInv, NEW x \in Handlers, HandlerInv(x), NEW k,
           poisoned' \subseteq poisoned \cup AttemptedIn(x), k # Key(x.req)
    PROVE  Foreign(k)
<1> SUFFICES ASSUME NEW v \in poisoned' \ poisoned PROVE ~OfKey(v, k)
  BY DEF Foreign
<1>1. OfKey(v, Key(x.req))
  BY AttemptedFacts
<1> QED
  BY <1>1 DEF OfKey

LEMMA AttemptedStays ==
    ASSUME Types, Grows, nodes' \in Seq(Answers), NEW x \in Handlers, HandlerInv(x)
    PROVE  AttemptedIn(x)' = AttemptedIn(x)
<1>1. x.node # 0 => nodes'[x.node] = nodes[x.node]
  BY NodeStays DEF HandlerInv
<1> QED
  BY <1>1 DEF AttemptedIn

\* A step of a handler from x to y: what it knows of afterwards is what it knew,
\* what the cache had, or new, and a conversation of its own is new or its old one.
OwnStep(x, y) ==
    /\ y.pc # "idle" => \A v \in AttemptedIn(y)' :
            \/ v \in AttemptedIn(x) \/ v \notin 1..Len(nodes)
            \/ \E k \in Keys : cache[k] # NoRecord /\ v = cache[k].conv
    /\ Owner(y) => /\ y.node \notin 1..Len(nodes) \/ (Owner(x) /\ y.node = x.node)
                   /\ UNCHANGED <<poisoned, cache>>

\* The conversation recorded under the key is the one it was, or the handler's.
ConvKept(x, k) ==
    cache'[k] # NoRecord => \/ cache[k] # NoRecord /\ cache'[k].conv = cache[k].conv
                            \/ cache'[k].conv \in AttemptedIn(x)

LEMMA OwnersNext ==
    ASSUME ChatInv, Types', Grows, NEW t \in Tasks, NEW x \in Handlers, x = task[t],
           x.pc # "idle", NEW y \in Handlers, task' = [task EXCEPT ![t] = y],
           OwnStep(x, y), poisoned' \subseteq poisoned \cup AttemptedIn(x),
           \A k \in Keys : ConvKept(x, k)
    PROVE  OwnersInv'
<1>1. /\ Types /\ nodes' \in Seq(Answers) /\ Len(nodes) \in Nat
      /\ poisoned \in SUBSET (1..Len(nodes))
  BY DEF ChatInv, Types
<1>2. \A a \in Tasks : task'[a] = IF a = t THEN y ELSE task[a]
  BY DEF ChatInv, Types
<1>3. ASSUME NEW u \in Tasks, u # t, task[u].pc # "idle"
      PROVE  /\ AttemptedIn(task[u])' = AttemptedIn(task[u])
             /\ AttemptedIn(task[u]) \subseteq 1..Len(nodes)
  <2>1. PICK z \in Handlers : z = task[u] /\ z = task'[u] /\ HandlerInv(z)
    BY <1>2, <1>3 DEF ChatInv, Types, HandlersInv
  <2>2. AttemptedIn(z)' = AttemptedIn(z) /\ AttemptedIn(z) \subseteq 1..Len(nodes)
    BY <1>1, <2>1, AttemptedStays, AttemptedFacts
  <2> QED
    BY <2>1, <2>2
<1>4. ASSUME NEW k \in Keys, cache[k] # NoRecord PROVE cache[k].conv \in 1..Len(nodes)
  BY <1>4 DEF ChatInv, RecordsInv, RecordInv, RealOrNone, Real, OfKey
<1>5. ASSUME Owner(y) PROVE OwnInv(t)'
  <2>1. task'[t] = y /\ poisoned' = poisoned /\ cache' = cache
    BY <1>2, <1>5 DEF OwnStep
  <2>2. /\ y.node \notin poisoned
        /\ \A k \in Keys : cache[k] # NoRecord => cache[k].conv # y.node
        /\ \A u \in Tasks \ {t} : task[u].pc # "idle" => y.node \notin AttemptedIn(task[u])
    <3>1. CASE y.node \notin 1..Len(nodes)
      BY <1>1, <1>3, <1>4, <3>1
    <3>2. CASE Owner(x) /\ y.node = x.node
      BY <3>2 DEF ChatInv, OwnersInv, OwnInv
    <3> QED
      BY <1>5, <3>1, <3>2 DEF OwnStep
  <2>3. \A u \in Tasks \ {t} : task'[u].pc # "idle" => y.node \notin AttemptedIn(task[u])'
    BY <1>2, <1>3, <2>2
  <2> QED
    BY <2>1, <2>2, <2>3 DEF OwnInv, Owner
<1>6. ASSUME NEW a \in Tasks, a # t, Owner(task[a]) PROVE OwnInv(a)'
  <2>1. PICK z \in Handlers : z = task[a] /\ z = task'[a]
    BY <1>2, <1>6 DEF ChatInv, Types
  <2>2. Owner(z) /\ z.pc # "idle"
    BY <1>6, <2>1 DEF Owner
  <2>3. z.node \in 1..Len(nodes)
    BY <2>1, <2>2 DEF ChatInv, HandlersInv, HandlerInv, Answered, Owner
  <2>4. /\ z.node \notin poisoned /\ z.node \notin AttemptedIn(x)
        /\ \A k \in Keys : cache[k] # NoRecord => cache[k].conv # z.node
        /\ \A u \in Tasks \ {a} : task[u].pc # "idle" => z.node \notin AttemptedIn(task[u])
    <3>1. OwnInv(a) /\ Owner(task[a])
      BY <1>6 DEF ChatInv, OwnersInv
    <3>2. t \in Tasks \ {a} /\ task[t].pc # "idle"
      BY <1>6
    <3> QED
      BY <2>1, <3>1, <3>2 DEF OwnInv
  <2>5. z.node \notin poisoned'
    BY <2>4
  <2>6. \A k \in Keys : cache'[k] # NoRecord => cache'[k].conv # z.node
    BY <2>4 DEF ConvKept
  <2>7. ASSUME NEW u \in Tasks \ {a}, task'[u].pc # "idle" PROVE z.node \notin AttemptedIn(task[u])'
    <3>1. CASE u # t
      BY <1>2, <1>3, <2>4, <2>7, <3>1
    <3>2. CASE u = t
      <4>1. task'[u] = y /\ y.pc # "idle"
        BY <1>2, <2>7, <3>2
      <4>2. z.node \notin AttemptedIn(y)'
        BY <2>3, <2>4, <4>1 DEF OwnStep
      <4>3. AttemptedIn(task[u])' = AttemptedIn(y)'
        BY <4>1 DEF AttemptedIn
      <4> QED
        BY <4>2, <4>3
    <3> QED
      BY <3>1, <3>2
  <2> QED
    BY <2>1, <2>5, <2>6, <2>7 DEF OwnInv
<1> SUFFICES ASSUME NEW a \in Tasks PROVE OwnInv(a)'
  BY DEF OwnersInv
<1>7. CASE a = t
  <2>1. ~Owner(y) => ~Owner(task[a])'
    BY <1>2, <1>7 DEF Owner
  <2> QED
    BY <1>5, <1>7, <2>1 DEF OwnInv
<1>8. CASE a # t
  <2>1. ~Owner(task[a]) => ~Owner(task[a])'
    BY <1>2, <1>8 DEF Owner
  <2> QED
    BY <1>6, <1>8, <2>1 DEF OwnInv
<1> QED
  BY <1>7, <1>8

\* A handler at a place where its record and its answer are of no further use.
LEMMA PlainHandler ==
    ASSUME Types, Grows, nodes' \in Seq(Answers), NEW x \in Handlers, HandlerInv(x),
           NEW y \in Handlers, y.req = x.req, y.base \in {x.base, NoRecord},
           y.node \in {x.node, 0}, y.pc \notin {"reuse", "transform", "commit"},
           y.pc # "cookie" => y.cookie \in Cookies
    PROVE  HandlerInv(y)'
<1> DEFINE k == Key(x.req)
<1>1. RealOrNone(y.base, k)'
  <2>1. RealOrNone(y.base, k)
    BY DEF HandlerInv, RealOrNone
  <2> QED
    BY <2>1, BaseStays DEF Handlers
<1>2. y.node # 0 => y.node \in 1..Len(nodes') /\ OfKey(nodes[y.node].conv, k)'
  <2> SUFFICES ASSUME y.node # 0
               PROVE  y.node \in 1..Len(nodes') /\ OfKey(nodes[y.node].conv, k)'
    OBVIOUS
  <2>1. y.node \in 1..Len(nodes) /\ OfKey(nodes[y.node].conv, k)
    BY DEF HandlerInv
  <2> QED
    BY <2>1, NodeStays
<1> QED
  BY <1>1, <1>2 DEF HandlerInv, Reuses

LEMMA PlainOwn ==
    ASSUME Types, Grows, nodes' \in Seq(Answers), NEW x \in Handlers, HandlerInv(x),
           NEW y, y.base \in {x.base, NoRecord}, y.node \in {x.node, 0},
           y.pc \notin {"transform", "commit"}
    PROVE  OwnStep(x, y)
<1>1. AttemptedIn(y)' \subseteq AttemptedIn(x)'
  BY DEF AttemptedIn
<1>2. AttemptedIn(x)' = AttemptedIn(x)
  BY AttemptedStays
<1> QED
  BY <1>1, <1>2 DEF OwnStep, Owner

\* A step of one handler that leaves the records as useful as they were, or less.
LEMMA StepNext ==
    ASSUME ChatInv, Types', Grows, NEW t \in Tasks, NEW x \in Handlers, x = task[t],
           x.pc # "idle", NEW y \in Handlers, task' = [task EXCEPT ![t] = y],
           y.pc # "idle" => HandlerInv(y)', OwnStep(x, y),
           poisoned' \subseteq poisoned \cup AttemptedIn(x),
           poisoned' = poisoned \/ ~Retained(cache'[Key(x.req)]),
           \A k \in Keys : k # Key(x.req) => Saved(k) /\ Weakened(k),
           \/ RecordInv(Key(x.req))' /\ ConvKept(x, Key(x.req))
           \/ Saved(Key(x.req)) /\ Weakened(Key(x.req))
    PROVE  ChatInv'
<1>1. HandlerInv(x)
  BY DEF ChatInv, HandlersInv
<1>2. \A k \in Keys : k # Key(x.req) => Foreign(k)
  BY <1>1, OthersForeign
<1>3. HandlersInv'
  BY HandlersNext
<1>4. OwnersInv'
  <2>1. \A k : Weakened(k) => ConvKept(x, k)
    BY DEF Weakened, ConvKept
  <2>2. \A k \in Keys : ConvKept(x, k)
    BY <2>1
  <2> QED
    BY <2>2, OwnersNext
<1>5. RecordsInv'
  <2> SUFFICES ASSUME NEW k \in Keys PROVE RecordInv(k)'
    BY DEF RecordsInv
  <2>1. CASE k # Key(x.req)
    BY <1>2, <2>1, RecordNext
  <2>2. CASE k = Key(x.req) /\ Saved(k) /\ Weakened(k)
    <3>1. Retained(cache'[k]) => Foreign(k)
      BY <2>2 DEF Foreign
    <3> QED
      BY <2>2, <3>1, RecordNext
  <2>3. CASE k = Key(x.req) /\ RecordInv(Key(x.req))'
    BY <2>3
  <2> QED
    BY <2>1, <2>2, <2>3
<1> QED
  BY <1>3, <1>4, <1>5 DEF ChatInv

-----------------------------------------------------------------------------
(* The steps of a handler                                                  *)

\* A step that moves the handler and may add messages upstream.
LEMMA MoveNext ==
    ASSUME ChatInv, NEW t \in Tasks, NEW x \in Handlers, x = task[t], x.pc # "idle",
           NEW y \in Handlers, task' = [task EXCEPT ![t] = y],
           UNCHANGED <<cache, disk, poisoned, misplaced>>, faults' \in Nat,
           nodes' \in Seq(Answers), Grows,
           y.pc # "idle" => HandlerInv(y)', OwnStep(x, y)
    PROVE  ChatInv'
<1>1. Types'
  <2>1. Len(nodes) \in Nat /\ Len(nodes') \in Nat /\ Len(nodes) <= Len(nodes')
    BY DEF ChatInv, Types, Grows
  <2>2. 1..Len(nodes) \subseteq 1..Len(nodes')
    BY <2>1
  <2> QED
    BY <2>2 DEF ChatInv, Types
<1>3. \A k : cache'[k] = cache[k] /\ disk'[k] = disk[k]
  OBVIOUS
<1>4. \A k \in Keys : Saved(k)
  BY <1>3 DEF Saved
<1>5. \A k \in Keys : Weakened(k)
  BY <1>3 DEF Weakened
<1>6. x.req \in Requests
  BY DEF ChatInv, HandlersInv, HandlerInv
<1>7. Key(x.req) \in Keys
  BY <1>6, RequestFacts
<1>8. poisoned' \subseteq poisoned \cup AttemptedIn(x) /\ poisoned' = poisoned
  OBVIOUS
<1> QED
  BY <1>1, <1>4, <1>5, <1>7, <1>8, StepNext

LEMMA CalmFacts ==
    ASSUME Types, UNCHANGED <<nodes, misplaced>>
    PROVE  nodes' \in Seq(Answers) /\ Grows
BY DEF Types, Grows

\* The same when what the handler had is of no further use.
LEMMA LeaveNext ==
    ASSUME ChatInv, NEW t \in Tasks, NEW x \in Handlers, x = task[t], x.pc # "idle",
           NEW y \in Handlers, task' = [task EXCEPT ![t] = y],
           UNCHANGED <<cache, disk, poisoned, misplaced>>, faults' \in Nat,
           nodes' \in Seq(Answers), Grows,
           y.pc # "idle" =>
                /\ y.req = x.req /\ y.base \in {x.base, NoRecord} /\ y.node \in {x.node, 0}
                /\ y.pc \notin {"reuse", "transform", "commit"}
                /\ y.pc # "cookie" => y.cookie \in Cookies
    PROVE  ChatInv'
<1>1. Types /\ HandlerInv(x)
  BY DEF ChatInv, HandlersInv
<1>2. y.pc # "idle" => HandlerInv(y)'
  BY <1>1, PlainHandler
<1>3. OwnStep(x, y)
  <2>1. CASE y.pc = "idle"
    BY <2>1 DEF OwnStep, Owner
  <2>2. CASE y.pc # "idle"
    BY <1>1, <2>2, PlainOwn
  <2> QED
    BY <2>1, <2>2
<1> QED
  BY <1>2, <1>3, MoveNext

LEMMA BeginNext ==
    ASSUME ChatInv, NEW t \in Tasks, Begin(t)
    PROVE  ChatInv'
<1>1. PICK r \in Requests : task' = [task EXCEPT ![t] = [Idle EXCEPT !.pc = "cookie", !.req = r]]
  BY DEF Begin
<1>2. PICK y \in Handlers : y = [Idle EXCEPT !.pc = "cookie", !.req = r]
  BY IdleTyped, RequestFacts DEF Handlers
<1>3. y.pc = "cookie" /\ y.req = r /\ y.base = NoRecord /\ y.node = 0
  BY <1>2 DEF Idle
<1>4. UNCHANGED <<cache, disk, nodes, poisoned, misplaced, faults>> /\ task' = [task EXCEPT ![t] = y]
  BY <1>1, <1>2 DEF Begin
<1>5. Types'
  BY <1>4 DEF ChatInv, Types
<1>6. Grows
  BY <1>4 DEF ChatInv, Types, Grows
<1>7. HandlerInv(y)'
  BY <1>3 DEF HandlerInv, RealOrNone, Reuses
<1>8. \A k : cache'[k] = cache[k] /\ disk'[k] = disk[k]
  BY <1>4
<1>9. \A k : Weakened(k) /\ Foreign(k) /\ Saved(k)
  BY <1>4, <1>8 DEF Weakened, Foreign, Saved
<1>10. HandlersInv'
  BY <1>4, <1>5, <1>6, <1>7, HandlersNext
<1>11. OwnersInv'
  <2> SUFFICES ASSUME NEW a \in Tasks, Owner(task'[a])
               PROVE  OwnInv(a)'
    BY DEF OwnersInv, OwnInv, Owner
  <2>1. \A e \in Tasks : task'[e] = IF e = t THEN y ELSE task[e]
    BY <1>4 DEF ChatInv, Types
  <2>2. a # t /\ task'[a] = task[a] /\ Owner(task[a]) /\ OwnInv(a)
    BY <1>3, <2>1 DEF Owner, ChatInv, OwnersInv
  <2>3. ASSUME NEW u \in Tasks \ {a}, task'[u].pc # "idle"
        PROVE  task[a].node \notin AttemptedIn(task[u])'
    <3>1. CASE u = t
      <4>1. task'[u] = y
        BY <2>1, <3>1
      <4>2. AttemptedIn(task[u])' = {}
        BY <1>3, <4>1 DEF AttemptedIn
      <4> QED
        BY <4>2
    <3>2. CASE u # t
      <4>1. task'[u] = task[u]
        BY <2>1, <3>2
      <4>2. AttemptedIn(task[u])' = AttemptedIn(task[u])
        BY <1>4, <4>1 DEF AttemptedIn
      <4> QED
        BY <2>2, <2>3, <4>1, <4>2 DEF OwnInv
    <3> QED
      BY <3>1, <3>2
  <2> QED
    BY <1>4, <2>2, <2>3 DEF OwnInv
<1>12. RecordsInv'
  BY <1>5, <1>6, <1>9, RecordNext DEF RecordsInv
<1> QED
  BY <1>5, <1>10, <1>11, <1>12 DEF ChatInv

LEMMA RequestCookieNext ==
    ASSUME ChatInv, NEW t \in Tasks, RequestCookie(t)
    PROVE  ChatInv'
<1>1. PICK x \in Handlers : x = task[t] /\ x.pc = "cookie"
  BY DEF RequestCookie, ChatInv, Types
<1>2. UNCHANGED <<cache, disk, nodes, poisoned, misplaced>> /\ faults' \in Nat
      /\ nodes' \in Seq(Answers) /\ Grows
  BY CalmFacts DEF RequestCookie, ChatInv, Types
<1>3. CASE task' = [task EXCEPT ![t] = Idle]
  <2>1. Idle.pc = "idle"
    BY DEF Idle
  <2> QED
    BY <1>1, <1>2, <1>3, <2>1, IdleTyped, LeaveNext
<1>4. ASSUME NEW c \in Cookies, task' = [task EXCEPT ![t] = [Attempt(x) EXCEPT !.cookie = c]]
      PROVE  ChatInv'
  <2>1. [Attempt(x) EXCEPT !.cookie = c] \in Handlers
    <3>1. PICK i \in Handlers : i = Idle
      BY IdleTyped
    <3>2. PICK n \in Nat : n = x.tries + 1
      BY DEF Handlers
    <3>3. PICK r \in Seq(Messages) : r = x.req
      BY DEF Handlers
    <3>4. [i EXCEPT !.pc = "bootstrap", !.req = r, !.tries = n] \in Handlers
      BY DEF Handlers
    <3>5. Attempt(x) \in Handlers
      BY <3>1, <3>2, <3>3, <3>4 DEF Attempt
    <3> QED
      BY <3>5 DEF Handlers
  <2>2. PICK y \in Handlers : y = [Attempt(x) EXCEPT !.cookie = c]
    BY <2>1
  <2>3. y.pc = "bootstrap" /\ y.req = x.req /\ y.base = NoRecord /\ y.node = 0 /\ y.cookie = c
    BY <2>2 DEF Attempt, Idle
  <2>4. task' = [task EXCEPT ![t] = y]
    BY <1>4, <2>2
  <2> QED
    BY <1>1, <1>2, <2>3, <2>4, LeaveNext
<1>5. \/ task' = [task EXCEPT ![t] = Idle]
      \/ \E c \in Cookies : task' = [task EXCEPT ![t] = [Attempt(x) EXCEPT !.cookie = c]]
  BY <1>1 DEF RequestCookie
<1> QED
  BY <1>3, <1>4, <1>5

LEMMA BootstrapNext ==
    ASSUME ChatInv, NEW t \in Tasks, Bootstrap(t)
    PROVE  ChatInv'
<1>1. PICK x \in Handlers : x = task[t] /\ x.pc = "bootstrap" /\ x.cookie \in Cookies
  BY DEF Bootstrap, ChatInv, Types, HandlersInv, HandlerInv
<1>2. UNCHANGED <<cache, disk, nodes, poisoned, misplaced>> /\ faults' \in Nat
      /\ nodes' \in Seq(Answers) /\ Grows
  BY CalmFacts DEF Bootstrap, ChatInv, Types
<1>3. CASE task' = [task EXCEPT ![t] = Idle]
  <2>1. Idle.pc = "idle"
    BY DEF Idle
  <2> QED
    BY <1>1, <1>2, <1>3, <2>1, IdleTyped, LeaveNext
<1>4. ASSUME NEW p \in BOOLEAN, task' = [task EXCEPT ![t].pc = "plan", ![t].pro = p]
      PROVE  ChatInv'
  <2>1. PICK y \in Handlers : y = [x EXCEPT !.pc = "plan", !.pro = p]
    BY DEF Handlers
  <2>2. y.pc = "plan" /\ y.req = x.req /\ y.base = x.base /\ y.node = x.node /\ y.cookie = x.cookie
    BY <2>1 DEF Handlers
  <2>3. task' = [task EXCEPT ![t] = y]
    BY <1>1, <1>4, <2>1 DEF ChatInv, Types
  <2> QED
    BY <1>1, <1>2, <2>2, <2>3, LeaveNext
<1>5. CASE task' = [task EXCEPT ![t].pc = "return", ![t].refused = TRUE]
  <2>1. PICK y \in Handlers : y = [x EXCEPT !.pc = "return", !.refused = TRUE]
    BY DEF Handlers
  <2>2. y.pc = "return" /\ y.req = x.req /\ y.base = x.base /\ y.node = x.node /\ y.cookie = x.cookie
    BY <2>1 DEF Handlers
  <2>3. task' = [task EXCEPT ![t] = y]
    BY <1>1, <1>5, <2>1 DEF ChatInv, Types
  <2> QED
    BY <1>1, <1>2, <2>2, <2>3, LeaveNext
<1> QED
  BY <1>3, <1>4, <1>5 DEF Bootstrap

\* What Goto does to the handler.
LEMMA GotoFacts ==
    ASSUME Types, NEW t \in Tasks, NEW x \in Handlers, x = task[t], NEW pc, Goto(t, pc),
           pc \in {"idle", "cookie", "bootstrap", "plan", "drop", "reuse", "full", "transform",
                   "commit", "failed", "return"}
    PROVE  \E y \in Handlers :
                /\ task' = [task EXCEPT ![t] = y] /\ y.pc = pc
                /\ y.req = x.req /\ y.base = x.base /\ y.node = x.node /\ y.cookie = x.cookie
                /\ y.plan = x.plan /\ y.sent = x.sent
<1>1. PICK y \in Handlers : y = [x EXCEPT !.pc = pc]
  BY DEF Handlers
<1>2. /\ y.pc = pc /\ y.req = x.req /\ y.base = x.base /\ y.node = x.node
      /\ y.cookie = x.cookie /\ y.plan = x.plan /\ y.sent = x.sent
  BY <1>1 DEF Handlers
<1>3. task' = [task EXCEPT ![t] = y]
  BY <1>1 DEF Goto, Types
<1> QED
  BY <1>2, <1>3

LEMMA PlanNext ==
    ASSUME ChatInv, NEW t \in Tasks, Plan(t)
    PROVE  ChatInv'
<1>1. PICK x \in Handlers : x = task[t] /\ x.pc = "plan"
  BY DEF Plan, ChatInv, Types
<1>2. HandlerInv(x) /\ x.cookie \in Cookies /\ x.req \in Requests
  BY <1>1 DEF ChatInv, HandlersInv, HandlerInv
<1>3. UNCHANGED <<cache, disk, nodes, poisoned, misplaced>> /\ faults' \in Nat
      /\ nodes' \in Seq(Answers) /\ Grows
  BY CalmFacts DEF Plan, ChatInv, Types
<1> DEFINE k == Key(x.req)
<1>4. k \in Keys /\ x.req \in Seq(Messages)
  BY <1>2, RequestFacts
<1>5. PICK c \in Records \cup {NoRecord} : c = cache[k]
  BY <1>4 DEF ChatInv, Types
<1>6. PICK d : d = IF Retained(c) /\ Belongs(c, x) THEN Diff(c.turns, x.req) ELSE Rebuild
  OBVIOUS
<1>7. ASSUME NEW pc \in {"full", "drop"}, Goto(t, pc) PROVE ChatInv'
  <2>1. PICK y \in Handlers :
            /\ task' = [task EXCEPT ![t] = y] /\ y.pc = pc
            /\ y.req = x.req /\ y.base = x.base /\ y.node = x.node /\ y.cookie = x.cookie
    BY <1>1, <1>7, GotoFacts DEF ChatInv
  <2> QED
    BY <1>1, <1>2, <1>3, <2>1, LeaveNext
<1>8. ASSUME Retained(c), d # Rebuild,
             task' = [task EXCEPT ![t].pc = "reuse", ![t].base = c, ![t].plan = d,
                                  ![t].sent = Suffix(c.turns, d.from, x.req)]
      PROVE  ChatInv'
  <2>1. c \in Records /\ c # NoRecord /\ c.turns \in Seq(Turns)
    BY <1>8, RecordFacts DEF Retained
  <2>2. d = Diff(c.turns, x.req)
    BY <1>6, <1>8
  <2>3. /\ d \in Plans /\ d.kind # "rebuild"
        /\ d.from \in 2..Len(c.turns) + 1
        /\ d.kind = "append" => d.from = Len(c.turns) + 1
        /\ x.req = Prefix(c.turns, d.from - 1) \o Suffix(c.turns, d.from, x.req)
    BY <1>4, <1>8, <2>1, <2>2, DiffFacts
  <2>4. Suffix(c.turns, d.from, x.req) \in Seq(Messages)
    <3>1. PICK n \in Nat : n = StartOf(c.turns, d.from)
      <4>1. d.from - 1 \in 0..Len(c.turns)
        BY <2>1, <2>3
      <4>2. Prefix(c.turns, d.from - 1) \in Seq(Messages)
        BY <2>1, <4>1, PrefixTyped
      <4>3. StartOf(c.turns, d.from) = Len(Prefix(c.turns, d.from - 1))
        BY DEF StartOf, Prefix
      <4> QED
        BY <4>2, <4>3
    <3>2. \A i \in n + 1..Len(x.req) : x.req[i] \in Messages
      BY <1>4
    <3>3. n + 1 \in Int /\ Len(x.req) \in Int
      BY <1>4
    <3>4. SubSeq(x.req, n + 1, Len(x.req)) \in Seq(Messages)
      BY <3>2, <3>3, SubSeqProperties
    <3> QED
      BY <3>1, <3>4 DEF Suffix
  <2>5. PICK s \in Seq(Messages) : s = Suffix(c.turns, d.from, x.req)
    BY <2>4
  <2>6. PICK y \in Handlers : y = [x EXCEPT !.pc = "reuse", !.base = c, !.plan = d, !.sent = s]
    BY <2>3 DEF Handlers
  <2>7. /\ y.pc = "reuse" /\ y.req = x.req /\ y.base = c /\ y.plan = d /\ y.sent = s
        /\ y.node = x.node /\ y.cookie = x.cookie
    BY <2>6 DEF Handlers
  <2>8. task' = [task EXCEPT ![t] = y]
    BY <1>1, <1>8, <2>5, <2>6 DEF ChatInv, Types
  <2>9. RealOrNone(c, k)
    BY <1>4, <1>5 DEF ChatInv, RecordsInv, RecordInv
  <2>10. RealOrNone(c, k)'
    BY <1>3, <2>9 DEF RealOrNone, Real, OfKey, Clean
  <2>11. Continues(y)
    BY <2>1, <2>3, <2>5, <2>7 DEF Continues
  <2>12. x.node # 0 => x.node \in 1..Len(nodes') /\ OfKey(nodes[x.node].conv, k)'
    BY <1>2, <1>3 DEF HandlerInv, OfKey
  <2>13. HandlerInv(y)'
    BY <1>2, <2>3, <2>7, <2>10, <2>11, <2>12 DEF HandlerInv, Reuses, Continues
  <2>14. OwnStep(x, y)
    <3>1. ~Owner(y)
      BY <2>7 DEF Owner
    <3>2. ASSUME NEW v \in AttemptedIn(y)'
          PROVE  v \in AttemptedIn(x) \/ \E j \in Keys : cache[j] # NoRecord /\ v = cache[j].conv
      <4>1. v = c.conv \/ v \in {nodes[n].conv : n \in {x.node} \ {0}}
        BY <1>3, <2>1, <2>7, <3>2 DEF AttemptedIn
      <4> QED
        BY <1>4, <1>5, <2>1, <4>1 DEF AttemptedIn
    <3> QED
      BY <3>1, <3>2 DEF OwnStep
  <2> QED
    BY <1>1, <1>3, <2>7, <2>8, <2>13, <2>14, MoveNext
<1>9. \/ Goto(t, "full") \/ Goto(t, "drop")
      \/ /\ Retained(c) /\ d # Rebuild
         /\ task' = [task EXCEPT ![t].pc = "reuse", ![t].base = c, ![t].plan = d,
                                 ![t].sent = Suffix(c.turns, d.from, x.req)]
  BY <1>1, <1>5, <1>6 DEF Plan
<1> QED
  BY <1>7, <1>8, <1>9

LEMMA Answer ==
    ASSUME Types, NEW a \in Answers, nodes' = Append(nodes, a), UNCHANGED misplaced
    PROVE  /\ nodes' \in Seq(Answers) /\ Grows
           /\ Len(nodes') = Len(nodes) + 1 /\ Len(nodes) + 1 \in 1..Len(nodes')
           /\ Len(nodes) + 1 # 0 /\ Len(nodes) + 1 \in Nat
           /\ nodes'[Len(nodes) + 1] = a
           /\ Len(nodes) + 1 \notin 1..Len(nodes)
<1>1. nodes \in Seq(Answers) /\ Len(nodes) \in Nat /\ poisoned \in SUBSET (1..Len(nodes))
  BY DEF Types
<1>2. /\ nodes' \in Seq(Answers) /\ Len(nodes') = Len(nodes) + 1
      /\ \A i \in 1..Len(nodes) : nodes'[i] = nodes[i]
      /\ nodes'[Len(nodes) + 1] = a
  BY <1>1, AppendProperties
<1>3. Grows
  BY <1>1, <1>2 DEF Grows
<1> QED
  BY <1>1, <1>2, <1>3

\* An answer after a message of the record: its path is the whole request.
LEMMA ReuseAnswer ==
    ASSUME ChatInv, NEW x \in Handlers, HandlerInv(x), x.pc = "reuse",
           NEW parent, parent = nodes[x.base.turns[x.plan.from - 1].id],
           parent.conv = x.base.conv
    PROVE  /\ [conv |-> x.base.conv, users |-> parent.users \o x.sent] \in Answers
           /\ Clean(x.base.turns, x.plan.from - 1) => parent.users \o x.sent = x.req
<1>1. Continues(x) /\ x.req \in Seq(Messages)
  BY RequestFacts DEF HandlerInv, Reuses
<1>2. x.base \in Records /\ Real(x.base, Key(x.req))
  BY <1>1 DEF HandlerInv, RealOrNone, Continues, Handlers
<1>3. x.base.conv \in Nat /\ x.base.turns \in Seq(Turns)
  BY <1>2, RecordFacts
<1>4. PICK i \in 1..Len(x.base.turns) : i = x.plan.from - 1
  <2>0. x.plan.from \in 2..Len(x.base.turns) + 1
    BY <1>1 DEF Continues
  <2>1. x.plan.from \in 2..Len(x.base.turns) + 1 /\ Len(x.base.turns) \in Nat
    BY <1>3, <2>0
  <2>2. x.plan.from - 1 \in 1..Len(x.base.turns)
    BY <2>1
  <2> QED
    BY <2>2
<1>5. x.base.turns[i].id \in 1..Len(nodes)
      /\ (Clean(x.base.turns, i) => parent.users = Prefix(x.base.turns, i))
  BY <1>2, <1>4 DEF Real
<1>6. Clean(x.base.turns, i) => parent.users \o x.sent = x.req
  BY <1>1, <1>4, <1>5 DEF Continues
<1>7. parent \in Answers
  BY <1>4, <1>5 DEF ChatInv, Types
<1>8. parent.users \o x.sent \in Seq(Messages)
  BY <1>7 DEF Answers, Handlers
<1> QED
  BY <1>3, <1>4, <1>6, <1>8 DEF Answers

LEMMA SendReuseNext ==
    ASSUME ChatInv, NEW t \in Tasks, SendReuse(t)
    PROVE  ChatInv'
<1>1. PICK x \in Handlers : x = task[t] /\ x.pc = "reuse"
  BY DEF SendReuse, ChatInv, Types
<1>2. HandlerInv(x) /\ x.cookie \in Cookies
  BY <1>1 DEF ChatInv, HandlersInv, HandlerInv
<1>3. UNCHANGED <<cache, disk, poisoned, misplaced>> /\ faults' \in Nat
  <2>1. UNCHANGED <<cache, disk, poisoned, misplaced>> /\ (UNCHANGED faults \/ Fault)
    BY DEF SendReuse
  <2>2. faults \in Nat
    BY DEF ChatInv, Types
  <2> QED
    BY <2>1, <2>2 DEF Fault
<1>4. ASSUME nodes' \in Seq(Answers), Grows, Goto(t, "drop") PROVE ChatInv'
  <2>1. PICK y \in Handlers :
            /\ task' = [task EXCEPT ![t] = y] /\ y.pc = "drop"
            /\ y.req = x.req /\ y.base = x.base /\ y.node = x.node /\ y.cookie = x.cookie
    BY <1>1, <1>4, GotoFacts DEF ChatInv
  <2> QED
    BY <1>1, <1>2, <1>3, <1>4, <2>1, LeaveNext
<1>5. CASE Goto(t, "drop") /\ UNCHANGED nodes
  BY <1>3, <1>4, <1>5, CalmFacts DEF ChatInv
<1>6. PICK parent : parent = nodes[x.base.turns[x.plan.from - 1].id]
  OBVIOUS
<1> DEFINE answer == [conv |-> x.base.conv, users |-> parent.users \o x.sent]
<1>7. ASSUME parent.conv = x.base.conv, nodes' = Append(nodes, answer),
             \/ task' = [task EXCEPT ![t].pc = "transform", ![t].node = Len(nodes) + 1]
             \/ Goto(t, "drop")
      PROVE  ChatInv'
  <2>1. answer \in Answers
        /\ (Clean(x.base.turns, x.plan.from - 1) => parent.users \o x.sent = x.req)
    BY <1>1, <1>2, <1>6, <1>7, ReuseAnswer
  <2>2. PICK a \in Answers :
            /\ a = answer /\ a.conv = x.base.conv
            /\ Clean(x.base.turns, x.plan.from - 1) => a.users = x.req
    BY <2>1
  <2>3. nodes' = Append(nodes, a)
    BY <1>7, <2>2
  <2>4. PICK n \in Nat : n = Len(nodes) + 1
    BY DEF ChatInv, Types
  <2>5. /\ nodes' \in Seq(Answers) /\ Grows /\ n \in 1..Len(nodes') /\ n # 0 /\ nodes'[n] = a
    BY <1>3, <2>3, <2>4, Answer DEF ChatInv
  <2>6. CASE Goto(t, "drop")
    BY <1>4, <2>5, <2>6
  <2>7. CASE task' = [task EXCEPT ![t].pc = "transform", ![t].node = Len(nodes) + 1]
    <3>1. PICK y \in Handlers : y = [x EXCEPT !.pc = "transform", !.node = n]
      BY DEF Handlers
    <3>2. /\ y.pc = "transform" /\ y.req = x.req /\ y.base = x.base /\ y.plan = x.plan
          /\ y.sent = x.sent /\ y.node = n /\ y.cookie = x.cookie
      BY <3>1 DEF Handlers
    <3>3. task' = [task EXCEPT ![t] = y]
      BY <1>1, <2>4, <2>7, <3>1 DEF ChatInv, Types
    <3>4. /\ x.plan.kind # "rebuild" /\ Continues(x) /\ RealOrNone(x.base, Key(x.req))
          /\ x.req \in Requests /\ x.base # NoRecord
      BY <1>1, <1>2 DEF HandlerInv, Reuses, Continues
    <3>5. RealOrNone(x.base, Key(x.req))'
      BY <2>5, <3>4, BaseStays DEF ChatInv, Handlers
    <3>6. OfKey(x.base.conv, Key(x.req))'
      BY <3>4, <3>5 DEF RealOrNone, Real
    <3>7. OfKey(nodes[n].conv, Key(x.req))'
      BY <2>2, <2>5, <3>6 DEF OfKey
    <3>8. Answered(y)'
      <4>1. Clean(x.base.turns, x.plan.from - 1)' => Clean(x.base.turns, x.plan.from - 1)
        BY <2>5, CleanStays
      <4> QED
        BY <2>2, <2>5, <3>2, <3>4, <4>1 DEF Answered
    <3>9. Continues(y)
      BY <3>2, <3>4 DEF Continues
    <3>10. OwnStep(x, y)
      <4>1. ~Owner(y)
        BY <3>2, <3>4 DEF Owner
      <4>2. AttemptedIn(y)' = {x.base.conv}
        BY <2>2, <2>5, <3>2, <3>4 DEF AttemptedIn
      <4>3. x.base.conv \in AttemptedIn(x)
        BY <3>4 DEF AttemptedIn
      <4> QED
        BY <4>1, <4>2, <4>3 DEF OwnStep
    <3>11. HandlerInv(y)'
      BY <1>2, <2>5, <3>2, <3>4, <3>5, <3>7, <3>8, <3>9 DEF HandlerInv, Reuses, Continues
    <3> QED
      BY <1>1, <1>3, <2>5, <3>2, <3>3, <3>10, <3>11, MoveNext
  <2> QED
    BY <1>7, <2>6, <2>7
<1>8. \/ Goto(t, "drop") /\ UNCHANGED nodes
      \/ /\ parent.conv = x.base.conv /\ nodes' = Append(nodes, answer)
         /\ \/ task' = [task EXCEPT ![t].pc = "transform", ![t].node = Len(nodes) + 1]
            \/ Goto(t, "drop")
  BY <1>1, <1>6 DEF SendReuse
<1> QED
  BY <1>5, <1>7, <1>8

LEMMA SendFullNext ==
    ASSUME ChatInv, NEW t \in Tasks, SendFull(t)
    PROVE  ChatInv'
<1>1. PICK x \in Handlers : x = task[t] /\ x.pc = "full"
  <2>1. PICK x \in Handlers : x = task[t]
    BY DEF ChatInv, Types
  <2>2. [x EXCEPT !.plan = Rebuild, !.sent = x.req].pc = "full"
    BY <2>1 DEF SendFull
  <2>3. x.pc = "full"
    BY <2>2 DEF Handlers
  <2> QED
    BY <2>1, <2>3
<1>2. HandlerInv(x) /\ x.cookie \in Cookies /\ x.req \in Requests /\ x.req \in Seq(Messages)
  BY <1>1, RequestFacts DEF ChatInv, HandlersInv, HandlerInv
<1>3. UNCHANGED <<cache, disk, poisoned, misplaced>> /\ faults' \in Nat
  <2>1. UNCHANGED <<cache, disk, poisoned, misplaced>> /\ (UNCHANGED faults \/ Fault)
    BY DEF SendFull
  <2>2. faults \in Nat
    BY DEF ChatInv, Types
  <2> QED
    BY <2>1, <2>2 DEF Fault
<1>4. PICK n \in Nat : n = Len(nodes) + 1
  BY DEF ChatInv, Types
<1>5. Rebuild \in Plans /\ Rebuild.kind = "rebuild"
  BY DEF Rebuild, Plans
<1>6. PICK z \in Handlers : z = [x EXCEPT !.plan = Rebuild, !.sent = x.req]
  BY <1>2, <1>5 DEF Handlers
<1>7. /\ z.pc = "full" /\ z.req = x.req /\ z.base = x.base /\ z.node = x.node
      /\ z.cookie = x.cookie /\ z.plan = Rebuild /\ z.sent = x.req
  BY <1>1, <1>6 DEF Handlers
<1>8. PICK a \in Answers : a = [conv |-> n, users |-> x.req]
  BY <1>2 DEF Answers
<1>9. ASSUME nodes' \in Seq(Answers), Grows, NEW r \in BOOLEAN,
             task' = [task EXCEPT ![t] = [z EXCEPT !.pc = "failed", !.refused = r]]
      PROVE  ChatInv'
  <2>1. PICK y \in Handlers : y = [z EXCEPT !.pc = "failed", !.refused = r]
    BY DEF Handlers
  <2>2. y.pc = "failed" /\ y.req = x.req /\ y.base = x.base /\ y.node = x.node /\ y.cookie = x.cookie
    BY <1>7, <2>1 DEF Handlers
  <2>3. task' = [task EXCEPT ![t] = y]
    BY <1>9, <2>1
  <2> QED
    BY <1>1, <1>2, <1>3, <1>9, <2>2, <2>3, LeaveNext
<1>10. ASSUME nodes' = Append(nodes, a),
              task' = [task EXCEPT ![t] = [z EXCEPT !.pc = "transform", !.node = n]]
       PROVE  ChatInv'
  <2>1. /\ nodes' \in Seq(Answers) /\ Grows /\ n \in 1..Len(nodes') /\ n # 0 /\ nodes'[n] = a
        /\ n \notin 1..Len(nodes)
    BY <1>3, <1>4, <1>10, Answer DEF ChatInv
  <2>2. a.conv = n /\ a.users = x.req
    BY <1>8
  <2>3. PICK y \in Handlers : y = [z EXCEPT !.pc = "transform", !.node = n]
    BY DEF Handlers
  <2>4. /\ y.pc = "transform" /\ y.req = x.req /\ y.base = x.base /\ y.plan = Rebuild
        /\ y.sent = x.req /\ y.node = n /\ y.cookie = x.cookie
    BY <1>7, <2>3 DEF Handlers
  <2>5. task' = [task EXCEPT ![t] = y]
    BY <1>10, <2>3
  <2>6. RealOrNone(x.base, Key(x.req))'
    BY <1>2, <2>1, BaseStays DEF ChatInv, Handlers, HandlerInv
  <2>7. OfKey(nodes[n].conv, Key(x.req))'
    BY <2>1, <2>2 DEF OfKey, Key
  <2>8. Answered(y)'
    BY <1>5, <2>1, <2>2, <2>4 DEF Answered, Rebuild
  <2>9. OwnStep(x, y)
    <3>1. \A v \in AttemptedIn(y)' : v = n \/ v \in AttemptedIn(x)
      BY <2>1, <2>2, <2>4 DEF AttemptedIn
    <3> QED
      BY <1>3, <2>1, <2>4, <3>1 DEF OwnStep
  <2>10. HandlerInv(y)'
    BY <1>2, <1>5, <2>1, <2>4, <2>6, <2>7, <2>8 DEF HandlerInv, Reuses
  <2> QED
    BY <1>1, <1>3, <2>1, <2>4, <2>5, <2>9, <2>10, MoveNext
<1>11. \/ /\ nodes' = Append(nodes, a)
          /\ task' = [task EXCEPT ![t] = [z EXCEPT !.pc = "transform", !.node = n]]
       \/ /\ nodes' = Append(nodes, a)
          /\ task' = [task EXCEPT ![t] = [z EXCEPT !.pc = "failed"]]
       \/ /\ UNCHANGED nodes
          /\ \E r \in BOOLEAN :
                task' = [task EXCEPT ![t] = [z EXCEPT !.pc = "failed", !.refused = r]]
  <2>1. z = [task[t] EXCEPT !.plan = Rebuild, !.sent = task[t].req]
    BY <1>1, <1>6
  <2>2. a = [conv |-> n, users |-> z.req]
    BY <1>7, <1>8
  <2> QED
    BY <1>4, <2>1, <2>2 DEF SendFull
<1>12. [z EXCEPT !.pc = "failed"] = [z EXCEPT !.pc = "failed", !.refused = z.refused]
       /\ z.refused \in BOOLEAN
  BY DEF Handlers
<1>13. nodes' = Append(nodes, a) => nodes' \in Seq(Answers) /\ Grows
  BY <1>3, Answer DEF ChatInv
<1>14. UNCHANGED nodes => nodes' \in Seq(Answers) /\ Grows
  BY <1>3, CalmFacts DEF ChatInv
<1> QED
  BY <1>9, <1>10, <1>11, <1>12, <1>13, <1>14

LEMMA TransformResponseNext ==
    ASSUME ChatInv, NEW t \in Tasks, TransformResponse(t)
    PROVE  ChatInv'
<1>1. PICK x \in Handlers : x = task[t] /\ x.pc = "transform"
  BY DEF TransformResponse, ChatInv, Types
<1>2. HandlerInv(x) /\ x.cookie \in Cookies
  BY <1>1 DEF ChatInv, HandlersInv, HandlerInv
<1>3. UNCHANGED <<cache, disk, nodes, poisoned, misplaced>> /\ faults' \in Nat
      /\ nodes' \in Seq(Answers) /\ Grows
  BY CalmFacts DEF TransformResponse, ChatInv, Types
<1>4. PICK pc \in {"commit", "failed"} : Goto(t, pc)
  BY DEF TransformResponse
<1>5. PICK y \in Handlers :
            /\ task' = [task EXCEPT ![t] = y] /\ y.pc = pc
            /\ y.req = x.req /\ y.base = x.base /\ y.node = x.node /\ y.cookie = x.cookie
            /\ y.plan = x.plan /\ y.sent = x.sent
  BY <1>1, <1>4, GotoFacts DEF ChatInv
<1>6. CASE pc = "failed"
  BY <1>1, <1>2, <1>3, <1>5, <1>6, LeaveNext
<1>7. CASE pc = "commit"
  <2>1. HandlerInv(y)
    BY <1>1, <1>2, <1>5, <1>7 DEF HandlerInv, Reuses, Continues, Answered
  <2>2. HandlerInv(y)'
    BY <1>3, <2>1, HandlerStays DEF ChatInv
  <2>3. OwnStep(x, y)
    <3>1. AttemptedIn(y)' = AttemptedIn(x)
      BY <1>3, <1>5 DEF AttemptedIn
    <3>2. Owner(y) => Owner(x)
      BY <1>1, <1>5 DEF Owner
    <3> QED
      BY <1>3, <1>5, <3>1, <3>2 DEF OwnStep
  <2> QED
    BY <1>1, <1>3, <1>5, <2>2, <2>3, MoveNext
<1> QED
  BY <1>6, <1>7

LEMMA CancelNext ==
    ASSUME ChatInv, NEW t \in Tasks, Cancel(t)
    PROVE  ChatInv'
<1>1. PICK x \in Handlers : x = task[t] /\ x.pc # "idle"
  BY DEF Cancel, ChatInv, Types
<1>2. UNCHANGED <<cache, disk, nodes, poisoned, misplaced>> /\ faults' \in Nat
      /\ nodes' \in Seq(Answers) /\ Grows /\ task' = [task EXCEPT ![t] = Idle]
  BY CalmFacts DEF Cancel, Fault, ChatInv, Types
<1>3. Idle.pc = "idle"
  BY DEF Idle
<1> QED
  BY <1>1, <1>2, <1>3, IdleTyped, LeaveNext

\* A step that lets go of what the handler had and makes records less useful.
LEMMA WeakenNext ==
    ASSUME ChatInv, NEW t \in Tasks, NEW x \in Handlers, x = task[t], x.pc # "idle",
           NEW y \in Handlers, task' = [task EXCEPT ![t] = y], UNCHANGED <<nodes, misplaced>>,
           cache' \in [Keys -> Records \cup {NoRecord}],
           disk' \in [Keys -> Records \cup {NoRecord}], faults' \in Nat,
           \A k \in Keys : Saved(k) /\ Weakened(k),
           poisoned \subseteq poisoned', poisoned' \subseteq poisoned \cup AttemptedIn(x),
           poisoned' = poisoned \/ ~Retained(cache'[Key(x.req)]),
           y.pc # "idle" =>
                /\ y.req = x.req /\ y.base \in {x.base, NoRecord} /\ y.node \in {x.node, 0}
                /\ y.pc \notin {"reuse", "transform", "commit"}
                /\ y.pc # "cookie" => y.cookie \in Cookies
    PROVE  ChatInv'
<1>1. HandlerInv(x) /\ Types
  BY DEF ChatInv, HandlersInv
<1>2. nodes' \in Seq(Answers) /\ Grows
  BY <1>1, CalmFacts
<1>3. poisoned' \in SUBSET (1..Len(nodes'))
  <2>1. \A v \in AttemptedIn(x) : v \in 1..Len(nodes)
    BY <1>1, AttemptedFacts
  <2> QED
    BY <1>1, <2>1 DEF Types
<1>4. Types'
  BY <1>1, <1>2, <1>3 DEF Types
<1>5. y.pc # "idle" => HandlerInv(y)'
  BY <1>1, <1>2, PlainHandler
<1>6. x.req \in Requests
  BY <1>1 DEF HandlerInv
<1>7. Key(x.req) \in Keys
  BY <1>6, RequestFacts
<1>8. OwnStep(x, y)
  <2>1. CASE y.pc = "idle"
    BY <2>1 DEF OwnStep, Owner
  <2>2. CASE y.pc # "idle"
    BY <1>1, <1>2, <2>2, PlainOwn
  <2> QED
    BY <2>1, <2>2
<1> QED
  BY <1>2, <1>4, <1>5, <1>7, <1>8, StepNext

LEMMA DropNext ==
    ASSUME ChatInv, NEW t \in Tasks, Drop(t)
    PROVE  ChatInv'
<1>1. PICK x \in Handlers : x = task[t] /\ x.pc = "drop"
  BY DEF Drop, ChatInv, Types
<1>2. x.cookie \in Cookies /\ x.req \in Requests
  BY <1>1 DEF ChatInv, HandlersInv, HandlerInv
<1>3. Key(x.req) \in Keys
  BY <1>2, RequestFacts
<1>4. /\ task' = [task EXCEPT ![t].pc = "full", ![t].base = NoRecord]
      /\ Invalidate(Key(x.req)) /\ poisoned' = poisoned \cup AttemptedIn(x)
      /\ UNCHANGED <<nodes, misplaced>>
  BY <1>1 DEF Drop
<1>5. /\ cache' \in [Keys -> Records \cup {NoRecord}]
      /\ disk' \in [Keys -> Records \cup {NoRecord}] /\ faults' \in Nat
      /\ \A j \in Keys : Saved(j) /\ Weakened(j)
      /\ ~Retained(cache'[Key(x.req)])
  BY <1>3, <1>4, InvalidateFacts DEF ChatInv
<1>6. PICK y \in Handlers : y = [x EXCEPT !.pc = "full", !.base = NoRecord]
  BY DEF Handlers
<1>7. y.pc = "full" /\ y.req = x.req /\ y.base = NoRecord /\ y.node = x.node /\ y.cookie = x.cookie
  BY <1>6 DEF Handlers
<1>8. task' = [task EXCEPT ![t] = y]
  BY <1>1, <1>4, <1>6 DEF ChatInv, Types
<1>9. poisoned \subseteq poisoned' /\ poisoned' \subseteq poisoned \cup AttemptedIn(x)
  BY <1>4
<1> QED
  BY <1>1, <1>2, <1>4, <1>5, <1>7, <1>8, <1>9, WeakenNext

LEMMA FailedNext ==
    ASSUME ChatInv, NEW t \in Tasks, Failed(t)
    PROVE  ChatInv'
<1>1. PICK x \in Handlers : x = task[t] /\ x.pc = "failed"
  BY DEF Failed, ChatInv, Types
<1>2. x.cookie \in Cookies /\ x.req \in Requests
  BY <1>1 DEF ChatInv, HandlersInv, HandlerInv
<1>3. Key(x.req) \in Keys
  BY <1>2, RequestFacts
<1>4. /\ Goto(t, "return") \/ task' = [task EXCEPT ![t] = Idle]
      /\ Invalidate(Key(x.req)) /\ poisoned' = poisoned \cup AttemptedIn(x)
      /\ UNCHANGED <<nodes, misplaced>>
  BY <1>1 DEF Failed
<1>5. /\ cache' \in [Keys -> Records \cup {NoRecord}]
      /\ disk' \in [Keys -> Records \cup {NoRecord}] /\ faults' \in Nat
      /\ \A j \in Keys : Saved(j) /\ Weakened(j)
      /\ ~Retained(cache'[Key(x.req)])
  BY <1>3, <1>4, InvalidateFacts DEF ChatInv
<1>6. PICK y \in Handlers :
        /\ task' = [task EXCEPT ![t] = y]
        /\ \/ y.pc = "idle"
           \/ /\ y.pc = "return" /\ y.req = x.req /\ y.base = x.base
              /\ y.node = x.node /\ y.cookie = x.cookie
  <2>1. CASE task' = [task EXCEPT ![t] = Idle]
    BY <2>1, IdleTyped DEF Idle
  <2>2. CASE Goto(t, "return")
    BY <1>1, <2>2, GotoFacts DEF ChatInv
  <2> QED
    BY <1>4, <2>1, <2>2
<1>7. poisoned \subseteq poisoned' /\ poisoned' \subseteq poisoned \cup AttemptedIn(x)
  BY <1>4
<1>8. y.pc # "idle" =>
        /\ y.req = x.req /\ y.base \in {x.base, NoRecord} /\ y.node \in {x.node, 0}
        /\ y.pc \notin {"reuse", "transform", "commit"}
        /\ y.pc # "cookie" => y.cookie \in Cookies
  BY <1>2, <1>6
<1> QED
  BY <1>1, <1>4, <1>5, <1>6, <1>7, <1>8, WeakenNext

LEMMA ReturnCookieNext ==
    ASSUME ChatInv, NEW t \in Tasks, ReturnCookie(t)
    PROVE  ChatInv'
<1>1. PICK x \in Handlers : x = task[t] /\ x.pc = "return"
  BY DEF ReturnCookie, ChatInv, Types
<1>2. Goto(t, "cookie") /\ InvalidateByCookie(x.cookie) /\ UNCHANGED <<nodes, poisoned, misplaced>>
  BY <1>1 DEF ReturnCookie
<1>3. /\ cache' \in [Keys -> Records \cup {NoRecord}]
      /\ disk' \in [Keys -> Records \cup {NoRecord}] /\ faults' \in Nat
      /\ \A j \in Keys : Saved(j) /\ Weakened(j)
  BY <1>2, InvalidateByCookieFacts DEF ChatInv
<1>4. PICK y \in Handlers :
        /\ task' = [task EXCEPT ![t] = y] /\ y.pc = "cookie"
        /\ y.req = x.req /\ y.base = x.base /\ y.node = x.node
  BY <1>1, <1>2, GotoFacts DEF ChatInv
<1>5. poisoned \subseteq poisoned' /\ poisoned' \subseteq poisoned \cup AttemptedIn(x)
      /\ poisoned' = poisoned /\ UNCHANGED <<nodes, misplaced>>
  BY <1>2
<1> QED
  BY <1>1, <1>3, <1>4, <1>5, WeakenNext

-----------------------------------------------------------------------------
(* The commit                                                              *)

LEMMA NewRecordIsReal ==
    ASSUME ChatInv, NEW x \in Handlers, HandlerInv(x), x.pc = "commit", x.plan.kind = "rebuild"
    PROVE  /\ NewRecord(x) \in Records /\ Real(NewRecord(x), Key(x.req))
           /\ NewRecord(x).conv = x.node /\ NewRecord(x).conv \in AttemptedIn(x)
<1>1. /\ x.node \in 1..Len(nodes) /\ OfKey(nodes[x.node].conv, Key(x.req))
      /\ nodes[x.node].users = x.req /\ x.sent = x.req /\ nodes[x.node].conv = x.node
      /\ x.cookie \in Cookies
  <2>1. Answered(x)
    BY DEF HandlerInv
  <2>2. Clean(x.base.turns, x.plan.from - 1)
    BY <2>1 DEF Answered, Clean
  <2> QED
    BY <2>1, <2>2 DEF HandlerInv, Answered
<1>2. nodes[x.node] \in Answers
  BY <1>1 DEF ChatInv, Types
<1>3. PICK u \in Turns : u = Turn(x) /\ u.id = x.node /\ u.users = x.req
  <2>1. x.sent \in Seq(Messages) /\ x.node \in Nat
    BY DEF Handlers
  <2>2. PICK u \in Turns : u = [users |-> x.sent, id |-> x.node]
    BY <2>1 DEF Turns
  <2> QED
    BY <1>1, <2>2 DEF Turn
<1>4. PICK s \in Seq(Turns) : s = <<u>> /\ Len(s) = 1 /\ s[1] = u
  <2>1. <<u>> \in Seq(Turns) /\ Len(<<u>>) = 1 /\ <<u>>[1] = u
    OBVIOUS
  <2> QED
    BY <2>1
<1>5. PICK r : r = [valid |-> TRUE, old |-> FALSE, conv |-> nodes[x.node].conv,
                    cookie |-> x.cookie, pro |-> x.pro, turns |-> s]
  OBVIOUS
<1>6. r \in Records /\ r.conv = nodes[x.node].conv /\ r.turns = s
  <2>1. x.pro \in BOOLEAN /\ nodes[x.node].conv \in Nat
    BY <1>2 DEF Handlers, Answers
  <2> QED
    BY <1>1, <1>5, <2>1 DEF Records, Turns
<1>7. NewRecord(x) = r
  BY <1>3, <1>4, <1>5 DEF NewRecord
<1>8. Prefix(s, 1) = x.req
  <2>1. Prefix(s, 1) = Prefix(s, 0) \o s[1].users
    <3>1. 1 \in 1..Len(s) /\ 1 - 1 = 0
      BY <1>4
    <3>2. Prefix(s, 1) = Prefix(s, 1 - 1) \o s[1].users
      BY <3>1, PrefixNext
    <3> QED
      BY <3>1, <3>2
  <2>2. x.req \in Seq(Messages)
    BY DEF Handlers
  <2> QED
    BY <1>3, <1>4, <2>1, <2>2, PrefixZero, ConcatEmptySeq
<1>9. Real(r, Key(x.req))
  <2>1. ASSUME NEW i \in 1..Len(s)
        PROVE  /\ s[i].id \in 1..Len(nodes)
               /\ nodes[s[i].id].conv = r.conv
               /\ nodes[s[i].id].users = Prefix(s, i)
    <3>1. i = 1
      BY <1>4
    <3> QED
      BY <1>1, <1>3, <1>4, <1>6, <1>8, <3>1
  <2> QED
    BY <1>1, <1>6, <2>1 DEF Real
<1>10. nodes[x.node].conv \in AttemptedIn(x)
  BY DEF AttemptedIn, HandlerInv, Answered
<1> QED
  BY <1>1, <1>6, <1>7, <1>9, <1>10

LEMMA SubSeqFacts ==
    ASSUME NEW D, NEW s \in Seq(D), NEW n \in 0..Len(s)
    PROVE  /\ SubSeq(s, 1, n) \in Seq(D) /\ Len(SubSeq(s, 1, n)) = n
           /\ \A i \in 1..n : SubSeq(s, 1, n)[i] = s[i]
<1>1. 1 \in Int /\ n \in Int /\ \A i \in 1..n : s[i] \in D
  OBVIOUS
<1>2. /\ SubSeq(s, 1, n) \in Seq(D)
      /\ Len(SubSeq(s, 1, n)) = IF 1 <= n THEN n - 1 + 1 ELSE 0
      /\ \A i \in 1..n - 1 + 1 : SubSeq(s, 1, n)[i] = s[1 + i - 1]
  BY <1>1, SubSeqProperties
<1> DEFINE p == SubSeq(s, 1, n)
<1>3. p \in Seq(D) /\ Len(p) = n
  BY <1>2
<1>4. \A i \in 1..n : p[i] = s[i]
  <2> SUFFICES ASSUME NEW i \in 1..n PROVE p[i] = s[i]
    OBVIOUS
  <2>1. i \in 1..n - 1 + 1 /\ 1 + i - 1 = i
    OBVIOUS
  <2>2. p[i] = s[1 + i - 1]
    BY <1>2, <2>1
  <2> QED
    BY <2>1, <2>2
<1> QED
  BY <1>3, <1>4

\* The record keeps some of its first turns.
LEMMA KeptFacts ==
    ASSUME NEW c \in Records, NEW x \in Handlers, x.plan.from \in Nat \ {0}
    PROVE  \E n \in 0..Len(c.turns) :
                /\ Kept(c, x) \in Seq(Turns) /\ Len(Kept(c, x)) = n
                /\ \A i \in 1..n : Kept(c, x)[i] = c.turns[i]
<1>1. c.turns \in Seq(Turns) /\ Len(c.turns) \in Nat
  <2>1. c.turns \in Seq(Turns)
    BY RecordFacts
  <2> QED
    BY <2>1
<1>2. CASE x.plan.kind = "append" \/ Len(c.turns) < x.plan.from
  BY <1>1, <1>2 DEF Kept
<1>3. CASE ~(x.plan.kind = "append" \/ Len(c.turns) < x.plan.from)
  <2>1. PICK n \in 0..Len(c.turns) : n = x.plan.from - 1
    BY <1>1, <1>3
  <2>2. Kept(c, x) = SubSeq(c.turns, 1, n)
    BY <1>3, <2>1 DEF Kept
  <2> QED
    BY <1>1, <2>2, SubSeqFacts
<1> QED
  BY <1>2, <1>3

LEMMA PlannedFacts ==
    ASSUME NEW x \in Handlers, Continues(x)
    PROVE  \E n \in 1..Len(x.base.turns) :
                /\ n = x.plan.from - 1 /\ Len(Planned(x)) = n
                /\ \A i \in 1..n : Planned(x)[i] = x.base.turns[i]
<1>1. x.base \in Records
  BY DEF Continues, Handlers
<1>2. x.base.turns \in Seq(Turns) /\ Len(x.base.turns) \in Nat
  <2>1. x.base.turns \in Seq(Turns)
    BY <1>1, RecordFacts
  <2> QED
    BY <2>1
<1>3. x.plan.from \in 2..Len(x.base.turns) + 1
  BY DEF Continues
<1>4. PICK n \in 1..Len(x.base.turns) : n = x.plan.from - 1
  BY <1>2, <1>3
<1>5. n \in 0..Len(x.base.turns)
  OBVIOUS
<1>6. /\ Len(SubSeq(x.base.turns, 1, n)) = n
      /\ \A i \in 1..n : SubSeq(x.base.turns, 1, n)[i] = x.base.turns[i]
  BY <1>2, <1>5, SubSeqFacts
<1> QED
  BY <1>4, <1>6 DEF Planned

\* A message recorded where it was planned continues what the record keeps.
LEMMA PlacedTurn ==
    ASSUME ChatInv, NEW x \in Handlers, HandlerInv(x), x.pc = "commit", x.plan.kind # "rebuild",
           NEW c \in Records, Real(c, Key(x.req)), NEW n \in 0..Len(c.turns),
           NEW kept, Len(kept) = n, \A i \in 1..n : kept[i] = c.turns[i],
           kept = Planned(x), Clean(kept, n)
    PROVE  /\ nodes[x.node].conv = c.conv
           /\ nodes[x.node].users = Prefix(c.turns, n) \o x.sent
<1>1. Continues(x) /\ Answered(x) /\ RealOrNone(x.base, Key(x.req))
  BY DEF HandlerInv, Reuses
<1>2. Real(x.base, Key(x.req)) /\ nodes[x.node].conv = x.base.conv
  BY <1>1 DEF RealOrNone, Continues, Answered
<1>3. /\ n \in 1..Len(x.base.turns) /\ n = x.plan.from - 1
      /\ \A i \in 1..n : c.turns[i] = x.base.turns[i] /\ kept[i] = x.base.turns[i]
  BY <1>1, PlannedFacts
<1>4. n \in Nat /\ 1 \in 1..n /\ 1 \in 1..Len(c.turns) /\ 1 \in 1..Len(x.base.turns)
  BY <1>3
<1>5. Clean(x.base.turns, n) /\ Clean(x.base.turns, 1) /\ Clean(c.turns, 1)
  BY <1>3, <1>4 DEF Clean
<1>6. nodes[c.turns[1].id].conv = c.conv /\ nodes[x.base.turns[1].id].conv = x.base.conv
  BY <1>2, <1>4, <1>5 DEF Real
<1>7. nodes[x.node].users = x.req /\ x.req = Prefix(x.base.turns, n) \o x.sent
  BY <1>1, <1>3, <1>5 DEF Answered, Continues
<1>8. Prefix(x.base.turns, n) = Prefix(c.turns, n)
  BY <1>3, <1>4, PrefixSame
<1> QED
  BY <1>2, <1>3, <1>4, <1>6, <1>7, <1>8

LEMMA ExtendedIsReal ==
    ASSUME ChatInv, NEW x \in Handlers, HandlerInv(x), x.pc = "commit", x.plan.kind # "rebuild",
           NEW c \in Records, c = cache[Key(x.req)], Key(x.req) \in Keys, UNCHANGED nodes,
           misplaced' = misplaced \cup {v \in {x.node} : Kept(c, x) # Planned(x)}
    PROVE  /\ WithTurn(c, x) \in Records /\ Real(WithTurn(c, x), Key(x.req))'
           /\ WithTurn(c, x).conv = c.conv
           /\ Retained(WithTurn(c, x)) => WithTurn(c, x).conv \notin poisoned
<1>1. x.node \in 1..Len(nodes) /\ Continues(x)
  BY DEF HandlerInv, Answered, Reuses
<1>2. c # NoRecord /\ c.turns \in Seq(Turns) /\ Len(c.turns) \in Nat
  <2>1. c # NoRecord /\ c.turns \in Seq(Turns)
    BY RecordFacts
  <2> QED
    BY <2>1
<1>3. Real(c, Key(x.req)) /\ (Retained(c) => c.conv \notin poisoned)
  BY <1>2 DEF ChatInv, RecordsInv, RecordInv, RealOrNone
<1>4. x.plan.from \in Nat \ {0}
  <2>1. x.base \in Records
    BY <1>1 DEF Continues, Handlers
  <2>2. Len(x.base.turns) \in Nat
    BY <2>1, RecordFacts
  <2> QED
    BY <1>1, <2>2 DEF Continues
<1>5. PICK n \in 0..Len(c.turns) :
        /\ Kept(c, x) \in Seq(Turns) /\ Len(Kept(c, x)) = n
        /\ \A i \in 1..n : Kept(c, x)[i] = c.turns[i]
  BY <1>4, KeptFacts
<1>6. PICK u \in Turns : u = Turn(x) /\ u.id = x.node /\ u.users = x.sent
  <2>1. x.sent \in Seq(Messages) /\ x.node \in Nat
    BY DEF Handlers
  <2>2. PICK u \in Turns : u = [users |-> x.sent, id |-> x.node]
    BY <2>1 DEF Turns
  <2> QED
    BY <2>2 DEF Turn
<1>7. PICK kept \in Seq(Turns) :
        kept = Kept(c, x) /\ Len(kept) = n /\ \A i \in 1..n : kept[i] = c.turns[i]
  BY <1>5
<1>8. PICK s \in Seq(Turns) :
        /\ s = Append(kept, u) /\ Len(s) = n + 1 /\ s[n + 1] = u
        /\ \A i \in 1..n : s[i] = c.turns[i]
  <2>1. /\ Append(kept, u) \in Seq(Turns) /\ Len(Append(kept, u)) = n + 1
        /\ \A i \in 1..n : Append(kept, u)[i] = kept[i]
        /\ Append(kept, u)[n + 1] = u
    BY <1>7, AppendProperties
  <2> DEFINE a == Append(kept, u)
  <2>2. \A i \in 1..n : a[i] = c.turns[i]
    BY <1>7, <2>1
  <2>3. a \in Seq(Turns) /\ Len(a) = n + 1 /\ a[n + 1] = u
    BY <2>1
  <2> QED
    BY <2>2, <2>3
<1>9. PICK d \in Records :
        /\ d = [c EXCEPT !.turns = s] /\ d.conv = c.conv /\ d.turns = s
        /\ d.valid = c.valid /\ d.old = c.old
  <2> DEFINE e == [c EXCEPT !.turns = s]
  <2>1. e \in Records
    BY DEF Records, Turns
  <2>2. e.conv = c.conv /\ e.turns = s /\ e.valid = c.valid /\ e.old = c.old
    BY DEF Records
  <2> QED
    BY <2>1, <2>2
<1>10. WithTurn(c, x) = d
  BY <1>6, <1>7, <1>8, <1>9 DEF WithTurn
<1>11. \A i \in 0..n : Prefix(s, i) = Prefix(c.turns, i)
  <2> SUFFICES ASSUME NEW i \in 0..n PROVE Prefix(s, i) = Prefix(c.turns, i)
    OBVIOUS
  <2>1. i \in Nat /\ \A j \in 1..i : s[j] = c.turns[j]
    BY <1>8
  <2> QED
    BY <2>1, PrefixSame
<1>12. Prefix(s, n + 1) = Prefix(c.turns, n) \o x.sent
  <2>1. n + 1 \in 1..Len(s) /\ (n + 1) - 1 = n /\ n \in 0..n
    BY <1>8
  <2>2. Prefix(s, n + 1) = Prefix(s, (n + 1) - 1) \o s[n + 1].users
    BY <2>1, PrefixNext
  <2> QED
    BY <1>6, <1>8, <1>11, <2>1, <2>2
<1>13. ASSUME NEW i \in 1..Len(s)
       PROVE  /\ s[i].id \in 1..Len(nodes)
              /\ Clean(s, i)' => /\ nodes[s[i].id].conv = c.conv
                                /\ nodes[s[i].id].users = Prefix(s, i)
  <2>1. CASE i \in 1..n
    <3>1. i \in 1..Len(c.turns) /\ s[i] = c.turns[i] /\ i \in 0..n
      BY <1>8, <2>1
    <3>2. /\ c.turns[i].id \in 1..Len(nodes)
          /\ Clean(c.turns, i) => /\ nodes[c.turns[i].id].conv = c.conv
                                  /\ nodes[c.turns[i].id].users = Prefix(c.turns, i)
      BY <1>3, <3>1 DEF Real
    <3>3. Clean(s, i)' => Clean(c.turns, i)
      BY <1>8, <2>1 DEF Clean
    <3> QED
      BY <1>11, <3>1, <3>2, <3>3
  <2>2. CASE i = n + 1
    <3>1. s[i] = u /\ u.id = x.node
      BY <1>6, <1>8, <2>2
    <3>2. ASSUME Clean(s, i)'
          PROVE  nodes[x.node].conv = c.conv /\ nodes[x.node].users = Prefix(c.turns, n) \o x.sent
      <4>1. i \in 1..i /\ 1..n \subseteq 1..i
        BY <2>2
      <4>2. x.node \notin misplaced' /\ \A j \in 1..n : c.turns[j].id \notin misplaced'
        BY <1>8, <3>1, <3>2, <4>1 DEF Clean
      <4>3. kept = Planned(x)
        BY <1>7, <4>2
      <4>4. Clean(kept, n)
        BY <1>7, <4>2 DEF Clean
      <4> QED
        BY <1>3, <1>7, <4>3, <4>4, PlacedTurn
    <3> QED
      BY <1>1, <1>12, <2>2, <3>1, <3>2
  <2> QED
    BY <1>8, <2>1, <2>2
<1>14. Real(d, Key(x.req))'
  <2>1. OfKey(d.conv, Key(x.req))'
    BY <1>3, <1>9 DEF Real, OfKey
  <2>2. \A i \in 1..Len(d.turns) :
            /\ d.turns[i].id \in 1..Len(nodes')
            /\ Clean(d.turns, i)' => /\ nodes'[d.turns[i].id].conv = d.conv
                                    /\ nodes'[d.turns[i].id].users = Prefix(d.turns, i)
    BY <1>9, <1>13
  <2> QED
    BY <2>1, <2>2 DEF Real
<1>15. Retained(d) => d.conv \notin poisoned
  BY <1>2, <1>3, <1>9 DEF Retained
<1> QED
  BY <1>9, <1>10, <1>14, <1>15

LEMMA CommitNext ==
    ASSUME ChatInv, NEW t \in Tasks, Commit(t)
    PROVE  ChatInv'
<1>1. PICK x \in Handlers : x = task[t] /\ x.pc = "commit"
  BY DEF Commit, ChatInv, Types
<1>2. HandlerInv(x) /\ x.req \in Requests
  BY <1>1 DEF ChatInv, HandlersInv, HandlerInv
<1>3. Key(x.req) \in Keys
  BY <1>2, RequestFacts
<1>4. /\ CommitCacheWrite(x) /\ task' = [task EXCEPT ![t] = Idle]
      /\ UNCHANGED <<nodes, poisoned>>
  BY <1>1 DEF Commit
<1> DEFINE k == Key(x.req)
<1>5. Idle.pc = "idle"
  BY DEF Idle
<1>6. misplaced' \in SUBSET Nat /\ misplaced \subseteq misplaced'
  <2>1. x.node \in Nat /\ misplaced \in SUBSET Nat
    BY DEF Handlers, ChatInv, Types
  <2>2. misplaced' = misplaced \/ \E S \in SUBSET {x.node} : misplaced' = misplaced \cup S
    BY <1>4 DEF CommitCacheWrite
  <2> QED
    BY <2>1, <2>2
<1>7. nodes' \in Seq(Answers) /\ Grows
  BY <1>4, <1>6 DEF ChatInv, Types, Grows
<1>8. CASE Keep /\ UNCHANGED misplaced
  <2>1. UNCHANGED <<cache, disk, poisoned, misplaced>> /\ faults' \in Nat
    BY <1>4, <1>8 DEF Keep, ChatInv, Types
  <2> QED
    BY <1>1, <1>4, <1>5, <1>7, <2>1, IdleTyped, LeaveNext
<1>9. ASSUME NEW d \in Records, cache' = [cache EXCEPT ![k] = d], Persist, Real(d, k)',
             Retained(d) => d.conv \notin poisoned,
             d.conv \in AttemptedIn(x) \/ (cache[k] # NoRecord /\ d.conv = cache[k].conv)
      PROVE  ChatInv'
  <2>1. cache' \in [Keys -> Records \cup {NoRecord}]
    BY <1>9 DEF ChatInv, Types
  <2>2. /\ disk' \in [Keys -> Records \cup {NoRecord}] /\ faults' \in Nat
        /\ \A j \in Keys : Saved(j)
    BY <1>9, <2>1, PersistFacts DEF ChatInv
  <2>3. Types'
    BY <1>4, <1>6, <1>7, <2>1, <2>2, IdleTyped DEF ChatInv, Types
  <2>4. cache'[k] = d /\ \A j \in Keys : j # k => cache'[j] = cache[j]
    BY <1>3, <1>9 DEF ChatInv, Types
  <2>5. \A j \in Keys : j # k => Saved(j) /\ Weakened(j)
    BY <2>2, <2>4 DEF Weakened
  <2>6. RealOrNone(disk[k], k)'
    <3>1. PICK e : e = disk[k] /\ e \in Records \cup {NoRecord} /\ RealOrNone(e, k)
      BY <1>3 DEF ChatInv, Types, RecordsInv, RecordInv
    <3>2. RealOrNone(e, k)'
      BY <1>7, <3>1, BaseStays DEF ChatInv
    <3>3. disk'[k] = d \/ disk'[k] = e
      BY <1>3, <1>9, <2>4, <3>1 DEF Persist
    <3> QED
      BY <1>9, <3>2, <3>3 DEF RealOrNone
  <2>7. RecordInv(k)'
    BY <1>4, <1>9, <2>4, <2>6 DEF RecordInv, RealOrNone, Retained
  <2>8. poisoned' \subseteq poisoned \cup AttemptedIn(x) /\ poisoned' = poisoned
    BY <1>4
  <2>9. ConvKept(x, k)
    BY <1>9, <2>4 DEF ConvKept
  <2>10. OwnStep(x, Idle)
    BY <1>5 DEF OwnStep, Owner
  <2> QED
    BY <1>1, <1>4, <1>5, <1>7, <2>3, <2>5, <2>7, <2>8, <2>9, <2>10, IdleTyped, StepNext
<1>10. CASE x.plan.kind = "rebuild"
  <2>1. PICK d \in Records :
            d = NewRecord(x) /\ Real(d, k) /\ d.conv = x.node /\ d.conv \in AttemptedIn(x)
    BY <1>1, <1>2, <1>10, NewRecordIsReal
  <2>2. cache' = [cache EXCEPT ![k] = d] /\ Persist
    BY <1>4, <1>10, <2>1 DEF CommitCacheWrite
  <2>3. Real(d, k)'
    BY <1>7, <2>1, RealStays DEF ChatInv
  <2>4. x.node \notin poisoned
    BY <1>1, <1>10 DEF ChatInv, OwnersInv, OwnInv, Owner
  <2> QED
    BY <1>9, <2>1, <2>2, <2>3, <2>4
<1>11. CASE x.plan.kind # "rebuild" /\ cache[k] # NoRecord
  <2>1. PICK c \in Records : c = cache[k]
    BY <1>3, <1>11 DEF ChatInv, Types
  <2>2. misplaced' = misplaced \cup {v \in {x.node} : Kept(c, x) # Planned(x)}
    BY <1>4, <1>11, <2>1 DEF CommitCacheWrite
  <2>3. PICK d \in Records :
            /\ d = WithTurn(c, x) /\ Real(d, k)' /\ d.conv = c.conv
            /\ Retained(d) => d.conv \notin poisoned
    BY <1>1, <1>2, <1>3, <1>4, <1>11, <2>1, <2>2, ExtendedIsReal
  <2>4. cache' = [cache EXCEPT ![k] = d] /\ Persist
    BY <1>4, <1>11, <2>1, <2>3 DEF CommitCacheWrite
  <2> QED
    BY <1>9, <1>11, <2>1, <2>3, <2>4
<1>12. x.plan.kind # "rebuild" /\ cache[k] = NoRecord => Keep /\ UNCHANGED misplaced
  BY <1>4 DEF CommitCacheWrite
<1> QED
  BY <1>8, <1>10, <1>11, <1>12

-----------------------------------------------------------------------------
(* What happens around the handlers                                        *)

LEMMA AroundNext ==
    ASSUME ChatInv, UNCHANGED <<task, nodes, poisoned, misplaced>>,
           cache' \in [Keys -> Records \cup {NoRecord}],
           disk' \in [Keys -> Records \cup {NoRecord}], faults' \in Nat,
           \A k \in Keys : Saved(k) /\ Weakened(k)
    PROVE  ChatInv'
<1>1. nodes' \in Seq(Answers) /\ Grows
  BY CalmFacts DEF ChatInv
<1>2. Types'
  BY DEF ChatInv, Types
<1>3. \A k : Foreign(k)
  BY DEF Foreign
<1>4. HandlersInv'
  <2> SUFFICES ASSUME NEW a \in Tasks, task[a].pc # "idle" PROVE HandlerInv(task[a])'
    BY DEF HandlersInv
  <2>1. PICK x \in Handlers : x = task[a] /\ x = task'[a] /\ HandlerInv(x)
    BY DEF ChatInv, Types, HandlersInv
  <2>2. HandlerInv(x)'
    BY <1>1, <2>1, HandlerStays DEF ChatInv
  <2> QED
    BY <2>1, <2>2
<1>5. OwnersInv'
  <2> SUFFICES ASSUME NEW a \in Tasks, Owner(task[a]) PROVE OwnInv(a)'
    BY DEF OwnersInv, OwnInv, Owner
  <2>1. OwnInv(a)
    BY DEF ChatInv, OwnersInv
  <2>2. \A k \in Keys : cache'[k] # NoRecord => cache[k] # NoRecord /\ cache'[k].conv = cache[k].conv
    BY DEF Weakened
  <2>3. \A u \in Tasks : AttemptedIn(task[u])' = AttemptedIn(task[u])
    BY DEF AttemptedIn
  <2> QED
    BY <2>1, <2>2, <2>3 DEF OwnInv
<1>6. RecordsInv'
  BY <1>1, <1>2, <1>3, RecordNext DEF RecordsInv
<1> QED
  BY <1>2, <1>4, <1>5, <1>6 DEF ChatInv

LEMMA AgeNext ==
    ASSUME ChatInv, NEW k \in Keys, Age(k)
    PROVE  ChatInv'
<1>1. /\ Retained(cache[k])
      /\ cache' = [cache EXCEPT ![k].old = TRUE]
      /\ disk' = [disk EXCEPT ![k] = IF disk[k] = NoRecord \/ disk[k].conv # cache[k].conv
                                     THEN disk[k] ELSE [disk[k] EXCEPT !.old = TRUE]]
      /\ UNCHANGED <<task, nodes, poisoned, misplaced>>
  BY DEF Age
<1>2. faults' \in Nat
  BY DEF Age, Fault, ChatInv, Types
<1>3. PICK c \in Records : c = cache[k]
  BY <1>1 DEF ChatInv, Types, Retained
<1>4. PICK d \in Records : d = [c EXCEPT !.old = TRUE] /\ d.conv = c.conv /\ d.turns = c.turns
                           /\ ~Retained(d)
  BY RecordFacts
<1>5. cache' = [cache EXCEPT ![k] = d]
  BY <1>1, <1>3, <1>4 DEF ChatInv, Types
<1>6. /\ cache' \in [Keys -> Records \cup {NoRecord}]
      /\ \A j \in Keys : cache'[j] = IF j = k THEN d ELSE cache[j]
  BY <1>5 DEF ChatInv, Types
<1>7. \A j \in Keys : Weakened(j)
  <2>1. c # NoRecord
    BY RecordFacts
  <2> QED
    BY <1>3, <1>4, <1>6, <2>1 DEF Weakened
<1>8. disk' \in [Keys -> Records \cup {NoRecord}] /\ \A j \in Keys : Saved(j)
  <2>1. CASE disk[k] = NoRecord \/ disk[k].conv # cache[k].conv
    <3>1. disk' = disk
      BY <1>1, <2>1 DEF ChatInv, Types
    <3> QED
      BY <3>1 DEF ChatInv, Types, Saved
  <2>2. CASE ~(disk[k] = NoRecord \/ disk[k].conv # cache[k].conv)
    <3>1. PICK e \in Records : e = disk[k] /\ e # NoRecord
      BY <2>2 DEF ChatInv, Types
    <3>2. PICK f \in Records : f = [e EXCEPT !.old = TRUE] /\ f.conv = e.conv /\ f.turns = e.turns
      BY RecordFacts
    <3>3. disk' = [disk EXCEPT ![k] = f]
      BY <1>1, <2>2, <3>1, <3>2
    <3>4. \A j \in Keys : disk'[j] = IF j = k THEN f ELSE disk[j]
      BY <3>3 DEF ChatInv, Types
    <3> QED
      BY <3>1, <3>2, <3>3, <3>4 DEF ChatInv, Types, Saved
  <2> QED
    BY <2>1, <2>2
<1> QED
  BY <1>1, <1>2, <1>6, <1>7, <1>8, AroundNext

LEMMA CleanupNext ==
    ASSUME ChatInv, Cleanup
    PROVE  ChatInv'
<1>1. /\ cache' = [k \in Keys |-> IF Retained(cache[k]) THEN cache[k] ELSE NoRecord]
      /\ Persist /\ UNCHANGED <<task, nodes, poisoned, misplaced>>
  BY DEF Cleanup
<1>2. cache' \in [Keys -> Records \cup {NoRecord}]
  BY <1>1 DEF ChatInv, Types
<1>3. \A k \in Keys : cache'[k] = NoRecord \/ (cache[k] # NoRecord /\ cache'[k] = cache[k])
  BY <1>1 DEF Retained
<1>4. \A k \in Keys : Weakened(k)
  BY <1>3 DEF Weakened
<1> QED
  BY <1>1, <1>2, <1>4, PersistFacts, AroundNext DEF ChatInv

LEMMA RestartNext ==
    ASSUME ChatInv, Restart
    PROVE  ChatInv'
<1>1. /\ task' = [t \in Tasks |-> Idle] /\ poisoned' = {}
      /\ cache' = [k \in Keys |-> IF Retained(disk[k]) THEN disk[k] ELSE NoRecord]
      /\ UNCHANGED <<disk, nodes, misplaced>>
  BY DEF Restart
<1>2. faults' \in Nat
  BY DEF Restart, Fault, ChatInv, Types
<1>3. Types'
  BY <1>1, <1>2, IdleTyped DEF ChatInv, Types
<1>4. \A t \in Tasks : task'[t].pc = "idle"
  BY <1>1 DEF Idle
<1>5. HandlersInv' /\ OwnersInv'
  BY <1>4 DEF HandlersInv, OwnersInv, OwnInv, Owner
<1>6. RecordsInv'
  <2> SUFFICES ASSUME NEW k \in Keys PROVE RecordInv(k)'
    BY DEF RecordsInv
  <2>1. RealOrNone(disk[k], k)'
    BY <1>1 DEF ChatInv, RecordsInv, RecordInv, RealOrNone, Real, OfKey, Clean
  <2>2. cache'[k] = disk'[k] \/ cache'[k] = NoRecord
    BY <1>1
  <2>3. RealOrNone(cache[k], k)'
    BY <2>1, <2>2 DEF RealOrNone, Real, OfKey, Clean
  <2> QED
    BY <1>1, <2>1, <2>3 DEF RecordInv
<1> QED
  BY <1>3, <1>5, <1>6 DEF ChatInv

-----------------------------------------------------------------------------
(* The theorems                                                            *)

LEMMA InitChat == Init => ChatInv
<1> SUFFICES ASSUME Init PROVE ChatInv
  OBVIOUS
<1>1. Types
  <2>1. nodes \in Seq(Answers)
    BY DEF Init
  <2> QED
    BY <2>1, IdleTyped DEF Init, Types
<1>2. \A t \in Tasks : task[t].pc = "idle"
  BY DEF Init, Idle
<1>3. HandlersInv /\ OwnersInv
  BY <1>2 DEF HandlersInv, OwnersInv, OwnInv, Owner
<1>4. RecordsInv
  BY DEF Init, RecordsInv, RecordInv, RealOrNone, Retained
<1> QED
  BY <1>1, <1>3, <1>4 DEF ChatInv

LEMMA StepChat == ChatInv /\ [Next]_vars => ChatInv'
<1> SUFFICES ASSUME ChatInv, [Next]_vars PROVE ChatInv'
  OBVIOUS
<1>1. CASE UNCHANGED vars
  <2>1. UNCHANGED <<task, cache, disk, nodes, poisoned, misplaced, faults>>
    BY <1>1 DEF vars
  <2>2. \A k : cache'[k] = cache[k] /\ disk'[k] = disk[k]
    BY <2>1
  <2>3. \A k \in Keys : Saved(k) /\ Weakened(k)
    BY <2>2 DEF Saved, Weakened
  <2>4. /\ cache' \in [Keys -> Records \cup {NoRecord}]
        /\ disk' \in [Keys -> Records \cup {NoRecord}] /\ faults' \in Nat
    BY <2>1 DEF ChatInv, Types
  <2> QED
    BY <2>1, <2>3, <2>4, AroundNext
<1>2. ASSUME NEW t \in Tasks, Begin(t) \/ Cancel(t) PROVE ChatInv'
  BY <1>2, BeginNext, CancelNext
<1>3. ASSUME NEW t \in Tasks, TryChat(t) PROVE ChatInv'
  BY <1>3, RequestCookieNext, BootstrapNext, PlanNext, DropNext, SendReuseNext, SendFullNext,
     TransformResponseNext, CommitNext, FailedNext, ReturnCookieNext DEF TryChat
<1>4. ASSUME NEW k \in Keys, Age(k) PROVE ChatInv'
  BY <1>4, AgeNext
<1>5. CASE Cleanup
  BY <1>5, CleanupNext
<1>6. CASE Restart
  BY <1>6, RestartNext
<1> QED
  BY <1>1, <1>2, <1>3, <1>4, <1>5, <1>6 DEF Next

LEMMA ChatInvariant == Spec => []ChatInv
<1>1. Init => ChatInv
  BY InitChat
<1>2. ChatInv /\ [Next]_vars => ChatInv'
  BY StepChat
<1> QED
  BY <1>1, <1>2, PTL DEF Spec

\* Every answer that reuse gives is an answer to the whole request, unless a
\* turn it follows was recorded out of place: however many requests of the key
\* there are at once (try_reuse_conversation, diff_messages).
THEOREM AnswersAreInContext == Spec => []AnswersInContext
<1>1. ChatInv => AnswersInContext
  <2> SUFFICES ASSUME ChatInv, NEW t \in Tasks, task[t].pc \in {"transform", "commit"}
               PROVE  \/ nodes[task[t].node].users = task[t].req
                      \/ \E i \in 1..task[t].plan.from - 1 : task[t].base.turns[i].id \in misplaced
    BY DEF AnswersInContext
  <2>1. Answered(task[t])
    BY DEF ChatInv, HandlersInv, HandlerInv
  <2> QED
    BY <2>1 DEF Answered, Clean
<1> QED
  BY <1>1, ChatInvariant, PTL

\* The cache, and the snapshot a restart loads, say of the conversations
\* upstream what is so, up to the first turn recorded out of place (append_turn,
\* fork_and_append).
THEOREM CacheIsReal == Spec => []RecordsAreReal
<1>1. ChatInv => RecordsAreReal
  <2> SUFFICES ASSUME ChatInv, NEW k \in Keys PROVE RecordIsReal(cache[k]) /\ RecordIsReal(disk[k])
    BY DEF RecordsAreReal
  <2>1. ASSUME NEW c, c \in Records \cup {NoRecord}, RealOrNone(c, k) PROVE RecordIsReal(c)
    <3>1. CASE c = NoRecord
      BY <3>1 DEF RecordIsReal, Retained
    <3>2. CASE c # NoRecord
      <4>1. c \in Records /\ c.turns \in Seq(Turns)
        BY <2>1, <3>2, RecordFacts
      <4>2. DOMAIN c.turns = 1..Len(c.turns)
        BY <4>1
      <4>3. Real(c, k)
        BY <2>1, <3>2 DEF RealOrNone
      <4> QED
        BY <4>2, <4>3 DEF RecordIsReal, Real, Prefix, Clean
    <3> QED
      BY <3>1, <3>2
  <2>2. cache[k] \in Records \cup {NoRecord} /\ disk[k] \in Records \cup {NoRecord}
    BY DEF ChatInv, Types
  <2>3. RealOrNone(cache[k], k) /\ RealOrNone(disk[k], k)
    BY DEF ChatInv, RecordsInv, RecordInv
  <2> QED
    BY <2>1, <2>2, <2>3
<1> QED
  BY <1>1, ChatInvariant, PTL

\* Only its own Plan takes a handler from "plan" to "reuse".
LEMMA ReuseIsPlanned ==
    ASSUME Types, Next, NEW t \in Tasks, task[t].pc = "plan", task'[t].pc = "reuse"
    PROVE  Plan(t)
<1>1. \A u \in Tasks \ {t} : ~(Begin(u) \/ TryChat(u) \/ Cancel(u))
  <2> SUFFICES ASSUME NEW u \in Tasks \ {t}, Begin(u) \/ TryChat(u) \/ Cancel(u)
               PROVE  task'[t] = task[t]
    OBVIOUS
  <2>1. task \in [Tasks -> Handlers]
    BY DEF Types
  <2>2. CASE Begin(u) \/ Cancel(u)
    BY <2>1, <2>2 DEF Begin, Cancel
  <2>3. CASE RequestCookie(u) \/ Bootstrap(u) \/ Plan(u)
    BY <2>1, <2>3 DEF RequestCookie, Bootstrap, Plan, Goto
  <2>4. CASE Drop(u) \/ SendReuse(u) \/ SendFull(u)
    BY <2>1, <2>4 DEF Drop, SendReuse, SendFull, Goto
  <2>5. CASE TransformResponse(u) \/ Commit(u) \/ Failed(u) \/ ReturnCookie(u)
    BY <2>1, <2>5 DEF TransformResponse, Commit, Failed, ReturnCookie, Goto
  <2> QED
    BY <2>2, <2>3, <2>4, <2>5 DEF TryChat
<1>2. ~Restart
  BY DEF Restart, Idle
<1>3. ~Cleanup /\ \A k \in Keys : ~Age(k)
  BY DEF Cleanup, Age
<1>4. ~Begin(t) /\ ~Cancel(t)
  <2>1. Cancel(t) => task'[t] = Idle
    BY DEF Cancel, Types
  <2> QED
    BY <2>1 DEF Begin, Idle
<1>5. TryChat(t)
  BY <1>1, <1>2, <1>3, <1>4 DEF Next
<1> QED
  <2>1. ~SendFull(t)
    <3>1. PICK x \in Handlers : x = task[t]
      BY DEF Types
    <3>2. [x EXCEPT !.plan = Rebuild, !.sent = x.req].pc = "plan"
      BY <3>1 DEF Handlers
    <3> QED
      BY <3>1, <3>2 DEF SendFull
  <2> QED
    BY <1>5, <2>1 DEF TryChat, RequestCookie, Bootstrap, Drop, SendReuse, TransformResponse,
       Commit, Failed, ReturnCookie

\* No request plans on a conversation in which an attempt of this process has
\* failed, whatever is lost, cancelled or not saved, and whatever other requests
\* of the key record meanwhile (the invalidation before each way out of an attempt).
THEOREM FailuresAreNotContinued == Spec => FailedNotReused
<1> DEFINE Fresh(t) == task[t].pc = "plan" /\ task'[t].pc = "reuse"
                          => task'[t].base.conv \notin poisoned
<1>1. ASSUME ChatInv, Next, NEW t \in Tasks, task[t].pc = "plan", task'[t].pc = "reuse"
      PROVE  task'[t].base.conv \notin poisoned
  <2>1. Types /\ Plan(t)
    BY <1>1, ReuseIsPlanned DEF ChatInv
  <2>2. PICK x \in Handlers : x = task[t]
    BY <2>1 DEF Types
  <2>3. Key(x.req) \in Keys
    <3>1. x.req \in Requests
      BY <1>1, <2>2 DEF ChatInv, HandlersInv, HandlerInv
    <3> QED
      BY <3>1, RequestFacts
  <2>4. PICK c : c = cache[Key(x.req)]
    OBVIOUS
  <2>5. Retained(c) /\ task'[t].base = c
    <3>1. ~Goto(t, "full") /\ ~Goto(t, "drop")
      BY <1>1, <2>1, <2>2 DEF Goto, Types, Handlers
    <3>2. PICK d, s : /\ Retained(c)
                      /\ task' = [task EXCEPT ![t].pc = "reuse", ![t].base = c, ![t].plan = d,
                                              ![t].sent = s]
      BY <2>1, <2>2, <2>4, <3>1 DEF Plan
    <3>3. task' = [task EXCEPT ![t] = [x EXCEPT !.pc = "reuse", !.base = c, !.plan = d, !.sent = s]]
      BY <2>1, <2>2, <3>2 DEF Types
    <3>4. task'[t] = [x EXCEPT !.pc = "reuse", !.base = c, !.plan = d, !.sent = s]
      BY <2>1, <3>3 DEF Types
    <3>5. [x EXCEPT !.pc = "reuse", !.base = c, !.plan = d, !.sent = s].base = c
      BY DEF Handlers
    <3> QED
      BY <3>2, <3>4, <3>5
  <2>6. c.conv \notin poisoned
    BY <1>1, <2>3, <2>4, <2>5 DEF ChatInv, RecordsInv, RecordInv
  <2> QED
    BY <2>5, <2>6
<1>2. ChatInv /\ [Next]_vars => [\A t \in Tasks : Fresh(t)]_vars
  BY <1>1
<1>3. Spec => [][Next]_vars
  BY DEF Spec
<1>4. Spec => [][\A t \in Tasks : Fresh(t)]_vars
  BY <1>2, <1>3, ChatInvariant, PTL
<1> QED
  BY <1>4 DEF FailedNotReused
=============================================================================
