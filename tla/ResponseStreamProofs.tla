------------------------ MODULE ResponseStreamProofs ------------------------
(***************************************************************************)
(* The theorems about ResponseStream: what a session's client is sent is   *)
(* committed, recorded as it is shown and counted once, and what any       *)
(* client of a stream is shown is well formed and ends with the first stop *)
(* sequence, for any pieces of text, links, stop sequences, number of      *)
(* deltas and blocks.                                                      *)
(*                                                                         *)
(* The first part is about sequences: the library's induction principle    *)
(* cannot be instantiated here, so the induction over lengths rests on the *)
(* least element of a set of numbers.                                      *)
(***************************************************************************)
EXTENDS ResponseStream, SequenceTheorems, WellFoundedInduction, TLAPS

-----------------------------------------------------------------------------
(* Induction                                                               *)

LEMMA LeastElement ==
    ASSUME NEW T \in SUBSET Nat, T # {}
    PROVE  \E m \in T : \A n \in T : m <= n
<1>1. PICK m \in T : \A n \in T : <<n, m>> \notin OpToRel(<, Nat)
  BY NatLessThanWellFounded, WFMin
<1>2. \A n \in T : ~(n < m)
  BY <1>1 DEF OpToRel
<1> QED
  BY <1>2

LEMMA Induction ==
    ASSUME NEW S, 0 \in S, \A n \in Nat : n \in S => n + 1 \in S
    PROVE  \A n \in Nat : n \in S
<1> SUFFICES ASSUME Nat \ S # {} PROVE FALSE
  OBVIOUS
<1>1. PICK m \in Nat \ S : \A n \in Nat \ S : m <= n
  BY LeastElement
<1>2. m # 0 /\ m - 1 \in Nat /\ m - 1 \notin Nat \ S
  BY <1>1
<1> QED
  BY <1>1, <1>2

-----------------------------------------------------------------------------
(* FlattenSeq                                                              *)

\* f[i] is the first i elements of s, one after the other.
Joins(f, s, n) == f = [i \in 1..n |-> IF i = 1 THEN s[i] ELSE f[i - 1] \o s[i]]

LEMMA JoinsAt ==
    ASSUME NEW f, NEW s, NEW n \in Nat, Joins(f, s, n), NEW i \in 1..n
    PROVE  f[i] = IF i = 1 THEN s[i] ELSE f[i - 1] \o s[i]
<1> DEFINE F == [j \in 1..n |-> IF j = 1 THEN s[j] ELSE f[j - 1] \o s[j]]
<1>1. f = F
  BY DEF Joins
<1>2. F[i] = IF i = 1 THEN s[i] ELSE f[i - 1] \o s[i]
  OBVIOUS
<1> HIDE DEF F
<1> QED
  BY <1>1, <1>2

LEMMA JoinExists ==
    ASSUME NEW s, NEW n \in Nat
    PROVE  \E f : Joins(f, s, n)
<1> DEFINE S == {k \in Nat : \E f : Joins(f, s, k)}
<1>1. 0 \in S
  <2>1. Joins([i \in 1..0 |-> s], s, 0)
    BY DEF Joins
  <2> QED
    BY <2>1
<1>2. ASSUME NEW k \in Nat, k \in S PROVE k + 1 \in S
  <2>1. PICK f : Joins(f, s, k)
    BY <1>2
  <2> DEFINE g == [i \in 1..k + 1 |-> IF i <= k THEN f[i]
                                      ELSE IF i = 1 THEN s[i] ELSE f[k] \o s[i]]
  <2>2. ASSUME NEW i \in 1..k + 1
        PROVE  g[i] = IF i = 1 THEN s[i] ELSE g[i - 1] \o s[i]
    <3>1. CASE i <= k
      <4>1. g[i] = f[i] /\ f[i] = IF i = 1 THEN s[i] ELSE f[i - 1] \o s[i]
        BY <2>1, <3>1, JoinsAt
      <4>2. i # 1 => i - 1 \in 1..k + 1 /\ i - 1 <= k /\ g[i - 1] = f[i - 1]
        BY <3>1
      <4> QED
        BY <4>1, <4>2
    <3>2. CASE i = k + 1 /\ i # 1
      <4>1. i - 1 = k /\ k \in 1..k + 1 /\ ~(i <= k)
        BY <3>2
      <4>2. g[i - 1] = f[k]
        BY <4>1
      <4> QED
        BY <3>2, <4>1, <4>2
    <3>3. CASE i = k + 1 /\ i = 1
      BY <3>3
    <3> QED
      BY <3>1, <3>2, <3>3
  <2>3. Joins(g, s, k + 1)
    BY <2>2 DEF Joins
  <2> HIDE DEF g
  <2> QED
    BY <2>3
<1> HIDE DEF S
<1>3. n \in S
  BY <1>1, <1>2, Induction
<1> QED
  BY <1>3 DEF S

AgreeUpTo(s, r, n) == \A i \in 1..n : s[i] = r[i]

LEMMA JoinsAgree ==
    \A s, r, f, g : \A n \in Nat, m \in Nat :
        n <= m /\ AgreeUpTo(s, r, n) /\ Joins(f, s, n) /\ Joins(g, r, m) => AgreeUpTo(f, g, n)
<1> SUFFICES ASSUME NEW s, NEW r, NEW f, NEW g, NEW n \in Nat, NEW m \in Nat, n <= m,
                    \A i \in 1..n : s[i] = r[i], Joins(f, s, n), Joins(g, r, m)
             PROVE  \A i \in 1..n : f[i] = g[i]
  BY DEF AgreeUpTo
<1> DEFINE S == {i \in Nat : i \in 1..n => f[i] = g[i]}
<1>1. 0 \in S
  OBVIOUS
<1>2. ASSUME NEW i \in Nat, i \in S PROVE i + 1 \in S
  <2> SUFFICES ASSUME i + 1 \in 1..n PROVE f[i + 1] = g[i + 1]
    OBVIOUS
  <2>1. PICK j \in 1..n : j = i + 1 /\ j \in 1..m /\ j - 1 = i
    OBVIOUS
  <2>2. f[j] = IF j = 1 THEN s[j] ELSE f[j - 1] \o s[j]
    BY JoinsAt
  <2>3. g[j] = IF j = 1 THEN r[j] ELSE g[j - 1] \o r[j]
    BY <2>1, JoinsAt
  <2>4. j # 1 => f[i] = g[i]
    BY <1>2, <2>1
  <2> QED
    BY <2>1, <2>2, <2>3, <2>4
<1> HIDE DEF S
<1>3. \A i \in Nat : i \in S
  BY <1>1, <1>2, Induction
<1> QED
  BY <1>3 DEF S

LEMMA FlattenIsJoin ==
    ASSUME NEW s, NEW n \in Nat, Len(s) = n, n # 0, NEW f, Joins(f, s, n)
    PROVE  FlattenSeq(s) = f[n]
<1> DEFINE h == CHOOSE g : g = [i \in 1..Len(s) |-> IF i = 1 THEN s[i] ELSE g[i - 1] \o s[i]]
<1>1. \E g : Joins(g, s, n)
  BY JoinExists
<1>2. Joins(h, s, n)
  BY <1>1 DEF Joins
<1>3. FlattenSeq(s) = h[n]
  BY DEF FlattenSeq
<1> HIDE DEF h
<1>4. n <= n /\ AgreeUpTo(s, s, n)
  BY DEF AgreeUpTo
<1>5. AgreeUpTo(h, f, n)
  BY <1>2, <1>4, JoinsAgree
<1>6. h[n] = f[n]
  BY <1>5 DEF AgreeUpTo
<1> QED
  BY <1>3, <1>6

LEMMA FlattenNext ==
    ASSUME NEW D, NEW n \in Nat, NEW m \in Nat, m = n + 1,
           NEW s \in Seq(Seq(D)), NEW r \in Seq(Seq(D)),
           Len(s) = n, Len(r) = m, \A i \in 1..n : s[i] = r[i]
    PROVE  FlattenSeq(r) = FlattenSeq(s) \o r[m]
<1>1. PICK g : Joins(g, r, m)
  BY JoinExists
<1>2. FlattenSeq(r) = g[m]
  BY <1>1, FlattenIsJoin
<1>0. n <= m /\ AgreeUpTo(s, r, n)
  BY DEF AgreeUpTo
<1>3. m \in 1..m /\ m - 1 = n
  OBVIOUS
<1>4. g[m] = IF m = 1 THEN r[m] ELSE g[n] \o r[m]
  <2>1. g[m] = IF m = 1 THEN r[m] ELSE g[m - 1] \o r[m]
    BY <1>1, <1>3, JoinsAt
  <2> QED
    BY <1>3, <2>1
<1>5. CASE n = 0
  <2>1. FlattenSeq(s) = <<>>
    BY <1>5 DEF FlattenSeq
  <2> QED
    BY <1>2, <1>4, <1>5, <2>1
<1>6. CASE n # 0
  <2>1. PICK f : Joins(f, s, n)
    BY JoinExists
  <2>2. FlattenSeq(s) = f[n]
    BY <1>6, <2>1, FlattenIsJoin
  <2>3. AgreeUpTo(f, g, n)
    BY <1>0, <1>1, <2>1, JoinsAgree
  <2>4. m # 1 /\ n \in 1..n /\ f[n] = g[n]
    BY <1>6, <2>3 DEF AgreeUpTo
  <2> QED
    BY <1>2, <1>4, <2>2, <2>4
<1> QED
  BY <1>5, <1>6

LEMMA FlattenTyped ==
    ASSUME NEW D, NEW s \in Seq(Seq(D))
    PROVE  FlattenSeq(s) \in Seq(D)
<1>1. Len(s) \in Nat
  OBVIOUS
<1>2. CASE Len(s) = 0
  BY <1>2 DEF FlattenSeq
<1>3. CASE Len(s) # 0
  <2>1. \E f : Joins(f, s, Len(s))
    BY <1>1, JoinExists
  <2>2. PICK f : Joins(f, s, Len(s))
    BY <2>1
  <2> DEFINE S == {i \in Nat : i \in 1..Len(s) => f[i] \in Seq(D)}
  <2>3. 0 \in S
    OBVIOUS
  <2>4. ASSUME NEW i \in Nat, i \in S PROVE i + 1 \in S
    <3> SUFFICES ASSUME i + 1 \in 1..Len(s) PROVE f[i + 1] \in Seq(D)
      OBVIOUS
    <3>1. PICK j \in 1..Len(s) : j = i + 1 /\ j - 1 = i
      OBVIOUS
    <3>2. f[j] = IF j = 1 THEN s[j] ELSE f[j - 1] \o s[j]
      BY <1>1, <2>2, JoinsAt
    <3>3. j # 1 => f[i] \in Seq(D)
      BY <2>4, <3>1
    <3>4. s[j] \in Seq(D)
      OBVIOUS
    <3> QED
      BY <3>1, <3>2, <3>3, <3>4
  <2> HIDE DEF S
  <2>5. Len(s) \in S
    BY <1>1, <2>3, <2>4, Induction
  <2>6. FlattenSeq(s) = f[Len(s)]
    BY <1>1, <1>3, <2>2, FlattenIsJoin
  <2>7. Len(s) \in 1..Len(s)
    BY <1>1, <1>3
  <2> QED
    BY <2>5, <2>6, <2>7 DEF S
<1> QED
  BY <1>2, <1>3

-----------------------------------------------------------------------------
(* The invariant                                                           *)

Letters == UNION {Range(q) : q \in Pieces \cup {Links} \cup UNION {m.stops : m \in Modes}}

Kinds == {"message_start", "text_start", "thinking_start", "text", "summary", "block_stop",
          "message_delta", "message_stop"}
Streamed == [type : Kinds, index : Int, text : Seq(Letters)]
Entire == [type : {"whole"}, index : Int, text : Seq(Letters)]
Sent == [type : Kinds \cup {"thinking", "whole"}, index : Int, text : Seq(Letters)]

Searches == [partial : SUBSET Seq(Letters), passed : Seq(Letters), hit : BOOLEAN]
BlockStates == [started : SUBSET Int, stopped : SUBSET Int, events : Seq(Sent)]

Service == [open : {"before", "none", "text", "thinking", "last", "after"}, next : Nat,
            deltas : Nat, thought : SUBSET Nat]
Places == {"reading", "counting", "ended", "failed", "gone"}
Readers == [at : Places, acc : Seq(Letters), active : Int, next : Int]

Types ==
    /\ mode \in Modes
    /\ up \in Service
    /\ reader \in Readers
    /\ life \in {"none", "open", "committed", "uncertain"}
    /\ usage \in Seq(Nat)
    /\ body \in Seq(IF mode.stream THEN Streamed ELSE Entire)
    /\ search \in Searches
    /\ blocks \in BlockStates
    /\ fed \in Seq(Letters)
    /\ out \in Seq(Sent)

\* A session's turn: it is open until it is committed or given up, and what is
\* counted or ended is committed.
TurnInv ==
    /\ mode.explicit =>
        /\ reader.at = "reading" => life \in {"open", "committed"}
        /\ reader.at \in {"counting", "ended"} => life = "committed"
    /\ ~mode.explicit => life = "none"
    /\ life = "committed" => up.open = "after" /\ digest = reader.acc

\* The answer is counted, with its links or without.
Counted ==
    \/ usage = <<Len(reader.acc)>>
    \/ /\ ~mode.stream /\ NamesFile(reader.acc)
       /\ usage = <<Len(reader.acc) + Len(Links)>>
\* The output is counted at the end, and the client is sent nothing before.
UsageInv ==
    /\ reader.at \in {"reading", "counting", "failed"} => usage = <<>>
    /\ Len(usage) <= 1
    /\ mode.explicit =>
        /\ reader.at = "ended" => Counted
        /\ out # <<>> => reader.at \in {"ended", "gone"} /\ life = "committed" /\ Counted

\* What the client has and what is on its way is the answer of the session.
ShownInv ==
    /\ ~mode.stream /\ reader.at = "reading" => body = <<>>
    /\ mode.explicit /\ ~search.hit /\ ~NamesFile(reader.acc)
            /\ reader.at \in {"counting", "ended"} \cup (IF mode.stream THEN {"reading"} ELSE {})
        => Texts(out) \o Texts(body) = reader.acc

\* s ends t, letter by letter.
Ends(s, t) == Len(s) <= Len(t) /\ \A i \in 1..Len(s) : s[i] = t[Len(t) - Len(s) + i]
\* The matches that have begun at the end of a text.
Begun(t) == {p \in Seq(Letters) :
                Ends(p, t) /\ (p = <<>> \/ \E q \in mode.stops : IsStrictPrefix(p, q))}
NoEnd(t) == \A k \in 1..Len(t) : ~EndsAt(t, k)

\* The search has seen all that has passed, and stopped at the first match.
SearchInv ==
    mode.stream =>
        /\ ~search.hit => /\ Texts(out) = fed
                          /\ search.partial = Begun(fed)
                          /\ NoEnd(fed)
        /\ search.hit => \E k \in 1..Len(fed) : /\ EndsAt(fed, k)
                                                /\ \A l \in 1..k - 1 : ~EndsAt(fed, l)
                                                /\ Texts(out) = SubSeq(fed, 1, k)

StreamInv == Types /\ TurnInv /\ UsageInv /\ ShownInv /\ SearchInv

-----------------------------------------------------------------------------
(* The text of events                                                      *)

LEMMA Kinship == Streamed \subseteq Sent /\ Entire \subseteq Sent
BY DEF Streamed, Entire, Sent

LEMMA TextOfTyped ==
    ASSUME NEW e \in Sent
    PROVE  TextOf(e) \in Seq(Letters) /\ EventText(e) \in Seq(Letters)
BY DEF Sent, TextOf, EventText

LEMMA Regrouped ==
    \A x, y, z \in Seq(Letters) : (x \o y) \o z = x \o (y \o z)
BY ConcatAssociative

LEMMA TextsParts ==
    ASSUME NEW s \in Seq(Sent)
    PROVE  /\ [i \in DOMAIN s |-> TextOf(s[i])] \in Seq(Seq(Letters))
           /\ Len([i \in DOMAIN s |-> TextOf(s[i])]) = Len(s)
<1>1. \A i \in 1..Len(s) : TextOf(s[i]) \in Seq(Letters)
  BY TextOfTyped
<1>2. DOMAIN s = 1..Len(s) /\ Len(s) \in Nat
  OBVIOUS
<1>3. [i \in DOMAIN s |-> TextOf(s[i])] = [i \in 1..Len(s) |-> TextOf(s[i])]
  BY <1>2
<1> QED
  BY <1>1, <1>2, <1>3

LEMMA TextsTyped ==
    ASSUME NEW s \in Seq(Sent)
    PROVE  Texts(s) \in Seq(Letters)
BY TextsParts, FlattenTyped DEF Texts

LEMMA TextsEmpty == Texts(<<>>) = <<>>
<1>1. [i \in DOMAIN <<>> |-> TextOf(<<>>[i])] = <<>>
  OBVIOUS
<1>2. FlattenSeq(<<>>) = <<>>
  BY DEF FlattenSeq
<1> QED
  BY <1>1, <1>2 DEF Texts

LEMMA TextsNext ==
    ASSUME NEW s \in Seq(Sent), NEW e \in Sent
    PROVE  Texts(Append(s, e)) = Texts(s) \o TextOf(e)
<1> DEFINE a == [i \in DOMAIN s |-> TextOf(s[i])]
           t == Append(s, e)
           b == [i \in DOMAIN t |-> TextOf(t[i])]
<1>1. t \in Seq(Sent) /\ Len(t) = Len(s) + 1 /\ Len(s) \in Nat
  BY AppendProperties
<1>2. a \in Seq(Seq(Letters)) /\ Len(a) = Len(s)
  BY TextsParts
<1> HIDE DEF t
<1>3. b \in Seq(Seq(Letters)) /\ Len(b) = Len(t)
  BY <1>1, TextsParts
<1>4. \A i \in 1..Len(s) : t[i] = s[i]
  BY AppendProperties DEF t
<1>5. t[Len(s) + 1] = e
  BY AppendProperties DEF t
<1>6. \A i \in 1..Len(s) : a[i] = b[i]
  BY <1>1, <1>4
<1>7. b[Len(s) + 1] = TextOf(e)
  BY <1>1, <1>5
<1>8. Texts(s) = FlattenSeq(a) /\ Texts(t) = FlattenSeq(b)
  BY DEF Texts
<1> HIDE DEF a, b
<1>9. PICK n \in Nat : n = Len(s)
  BY <1>1
<1>10. PICK m \in Nat : m = n + 1
  OBVIOUS
<1>11. Len(a) = n /\ Len(b) = m /\ (\A i \in 1..n : a[i] = b[i]) /\ b[m] = TextOf(e)
  BY <1>1, <1>2, <1>3, <1>6, <1>7, <1>9, <1>10
<1>12. FlattenSeq(b) = FlattenSeq(a) \o b[m]
  BY ONLY <1>2, <1>3, <1>10, <1>11, FlattenNext
<1> QED
  BY <1>8, <1>11, <1>12 DEF t

LEMMA TextsOne ==
    ASSUME NEW e \in Sent
    PROVE  Texts(<<e>>) = TextOf(e)
<1>1. <<e>> = Append(<<>>, e) /\ <<>> \in Seq(Sent)
  OBVIOUS
<1>2. Texts(<<e>>) = <<>> \o TextOf(e)
  BY <1>1, TextsNext, TextsEmpty
<1> QED
  BY <1>2, TextOfTyped, ConcatEmptySeq

LEMMA TextsConcat ==
    ASSUME NEW a \in Seq(Sent), NEW b \in Seq(Sent)
    PROVE  Texts(a \o b) = Texts(a) \o Texts(b)
<1> DEFINE S == {n \in Nat : \A t \in Seq(Sent) : Len(t) = n => Texts(a \o t) = Texts(a) \o Texts(t)}
<1>1. 0 \in S
  <2> SUFFICES ASSUME NEW t \in Seq(Sent), Len(t) = 0 PROVE Texts(a \o t) = Texts(a) \o Texts(t)
    OBVIOUS
  <2>1. t = <<>> /\ a \o <<>> = a
    BY ConcatEmptySeq
  <2> QED
    BY <2>1, TextsEmpty, TextsTyped, ConcatEmptySeq
<1>2. ASSUME NEW n \in Nat, n \in S PROVE n + 1 \in S
  <2> SUFFICES ASSUME NEW t \in Seq(Sent), Len(t) = n + 1 PROVE Texts(a \o t) = Texts(a) \o Texts(t)
    OBVIOUS
  <2>1. t # <<>>
    BY EmptySeq
  <2>2. PICK u \in Seq(Sent), e \in Sent : t = Append(u, e)
    BY <2>1, SequenceEmptyOrAppend
  <2>3. Len(u) = n
    <3>1. Len(t) = Len(u) + 1 /\ Len(u) \in Nat
      BY <2>2, AppendProperties
    <3> QED
      BY <3>1
  <2>4. Texts(a \o u) = Texts(a) \o Texts(u)
    BY <1>2, <2>3
  <2>5. a \o u \in Seq(Sent) /\ a \o t = Append(a \o u, e)
    BY <2>2
  <2>6. Texts(a \o t) = (Texts(a) \o Texts(u)) \o TextOf(e)
    BY <2>4, <2>5, TextsNext
  <2>7. Texts(t) = Texts(u) \o TextOf(e)
    BY <2>2, TextsNext
  <2>8. Texts(a) \in Seq(Letters) /\ Texts(u) \in Seq(Letters) /\ TextOf(e) \in Seq(Letters)
    BY TextsTyped, TextOfTyped
  <2>9. (Texts(a) \o Texts(u)) \o TextOf(e) = Texts(a) \o (Texts(u) \o TextOf(e))
    BY <2>8, Regrouped
  <2> QED
    BY <2>6, <2>7, <2>9
<1> HIDE DEF S
<1>3. Len(b) \in S
  <2>1. Len(b) \in Nat
    OBVIOUS
  <2> QED
    BY <1>1, <1>2, <2>1, Induction
<1> QED
  BY <1>3 DEF S

-----------------------------------------------------------------------------
(* The recursive functions of the layers                                   *)

\* f[k] is what the first k steps make of b.
Runs(f, n, b, step) == \A k \in 0..n : f[k] = IF k = 0 THEN b ELSE step[k][f[k - 1]]

LEMMA Recursion ==
    ASSUME NEW D, NEW n \in Nat, NEW b \in D, NEW step \in [1..n -> [D -> D]]
    PROVE  \E f \in [0..n -> D] : Runs(f, n, b, step)
<1> DEFINE S == {m \in Nat : m <= n => \E f \in [0..m -> D] : Runs(f, m, b, step)}
<1>1. 0 \in S
  <2>1. [k \in 0..0 |-> b] \in [0..0 -> D] /\ Runs([k \in 0..0 |-> b], 0, b, step)
    BY DEF Runs
  <2> QED
    BY <2>1
<1>2. ASSUME NEW m \in Nat, m \in S PROVE m + 1 \in S
  <2> SUFFICES ASSUME m + 1 <= n PROVE \E f \in [0..m + 1 -> D] : Runs(f, m + 1, b, step)
    OBVIOUS
  <2>1. PICK f \in [0..m -> D] : Runs(f, m, b, step)
    BY <1>2
  <2> DEFINE g == [k \in 0..m + 1 |-> IF k <= m THEN f[k] ELSE step[k][f[m]]]
  <2>2. \A k \in 0..m : g[k] = f[k] /\ f[k] \in D
    BY <2>1
  <2>7. m \in 0..m
    OBVIOUS
  <2>8. f[m] \in D
    BY <2>2, <2>7
  <2>3. m + 1 \in 0..m + 1 /\ m + 1 \in 1..n /\ ~(m + 1 <= m) /\ f[m] \in D
    BY <2>8
  <2>4. g[m + 1] = step[m + 1][f[m]] /\ step[m + 1][f[m]] \in D
    BY <2>3
  <2>5. g \in [0..m + 1 -> D]
    <3>1. \A k \in 0..m + 1 : k \in 0..m \/ k = m + 1
      OBVIOUS
    <3>2. \A k \in 0..m + 1 : g[k] \in D
      BY <2>2, <2>4, <3>1
    <3> QED
      BY <3>2
  <2>6. ASSUME NEW k \in 0..m + 1
        PROVE  g[k] = IF k = 0 THEN b ELSE step[k][g[k - 1]]
    <3>1. CASE k \in 0..m
      <4>1. g[k] = IF k = 0 THEN b ELSE step[k][f[k - 1]]
        BY <2>1, <2>2, <3>1 DEF Runs
      <4>2. k # 0 => k - 1 \in 0..m /\ g[k - 1] = f[k - 1]
        BY <2>2, <3>1
      <4> HIDE DEF g
      <4> QED
        BY <4>1, <4>2
    <3>2. CASE k = m + 1
      <4>1. k # 0 /\ k - 1 = m /\ m \in 0..m
        BY <3>2
      <4> HIDE DEF g
      <4> QED
        BY <2>2, <2>4, <3>2, <4>1
    <3> QED
      BY <3>1, <3>2
  <2> HIDE DEF g
  <2>9. Runs(g, m + 1, b, step)
    BY <2>6 DEF Runs
  <2> QED
    BY <2>5, <2>9
<1>3. n \in S
  <2> HIDE DEF S
  <2> QED
    BY <1>1, <1>2, Induction
<1> QED
  BY <1>3

LEMMA PrefixGrows ==
    ASSUME NEW D, NEW s \in Seq(D), NEW k \in Nat, k + 1 <= Len(s)
    PROVE  /\ SubSeq(s, 1, k) \in Seq(D)
           /\ SubSeq(s, 1, k + 1) = Append(SubSeq(s, 1, k), s[k + 1])
OBVIOUS

LEMMA SearchedTyped ==
    ASSUME NEW st \in Searches, NEW c \in Letters
    PROVE  Searched(st, c) \in Searches
<1> DEFINE grown == {Append(p, c) : p \in st.partial}
           r == [partial |-> {<<>>} \cup {g \in grown : \E q \in mode.stops : IsStrictPrefix(g, q)},
                 passed |-> Append(st.passed, c),
                 hit |-> grown \cap mode.stops # {}]
<1>1. grown \subseteq Seq(Letters) /\ Append(st.passed, c) \in Seq(Letters)
  <2>1. st.partial \subseteq Seq(Letters) /\ st.passed \in Seq(Letters)
    BY DEF Searches
  <2>2. \A p \in Seq(Letters) : Append(p, c) \in Seq(Letters)
    OBVIOUS
  <2> QED
    BY <2>1, <2>2
<1>2. Searched(st, c) = IF st.hit THEN st ELSE r
  BY DEF Searched
<1> HIDE DEF grown
<1>3. r.partial \subseteq Seq(Letters)
  <2>1. <<>> \in Seq(Letters)
    OBVIOUS
  <2>2. r.partial = {<<>>} \cup {g \in grown : \E q \in mode.stops : IsStrictPrefix(g, q)}
    OBVIOUS
  <2> HIDE DEF r
  <2> QED
    BY <1>1, <2>1, <2>2
<1>4. r \in Searches
  BY <1>1, <1>3 DEF Searches
<1> QED
  BY <1>2, <1>4

LEMMA SearchRun ==
    ASSUME NEW st \in Searches, NEW text \in Seq(Letters)
    PROVE  \E g : /\ g[0] = st
                  /\ \A k \in 1..Len(text) : g[k] = Searched(g[k - 1], text[k])
                  /\ SearchFrom(st, text) = g[Len(text)]
<1> DEFINE n == Len(text)
           h == CHOOSE g : g = [k \in 0..Len(text) |->
                                  IF k = 0 THEN st ELSE Searched(g[k - 1], text[k])]
           step == [k \in 1..n |-> [x \in Searches |-> Searched(x, text[k])]]
<1>1. n \in Nat /\ \A k \in 1..n : text[k] \in Letters
  OBVIOUS
<1>2. step \in [1..n -> [Searches -> Searches]]
  BY <1>1, SearchedTyped
<1>3. SearchFrom(st, text) = h[n]
  BY DEF SearchFrom
<1> HIDE DEF n, h, step
<1>4. PICK f \in [0..n -> Searches] : Runs(f, n, st, step)
  BY <1>1, <1>2, Recursion
<1>5. ASSUME NEW k \in 0..n, k # 0 PROVE step[k][f[k - 1]] = Searched(f[k - 1], text[k])
  <2>1. k - 1 \in 0..n /\ k \in 1..n
    BY <1>1, <1>5
  <2>2. f[k - 1] \in Searches
    BY <2>1
  <2>3. step[k] = [x \in Searches |-> Searched(x, text[k])]
    BY <2>1 DEF step
  <2> QED
    BY <2>2, <2>3
<1>6. f = [k \in 0..n |-> IF k = 0 THEN st ELSE Searched(f[k - 1], text[k])]
  <2>1. \A k \in 0..n : f[k] = IF k = 0 THEN st ELSE Searched(f[k - 1], text[k])
    BY <1>4, <1>5 DEF Runs
  <2>2. f = [k \in 0..n |-> f[k]]
    OBVIOUS
  <2> QED
    BY <2>1, <2>2
<1>7. h = [k \in 0..n |-> IF k = 0 THEN st ELSE Searched(h[k - 1], text[k])]
  BY <1>6 DEF n, h
<1>8. h[0] = st /\ \A k \in 1..n : h[k] = Searched(h[k - 1], text[k])
  <2> DEFINE G == [k \in 0..n |-> IF k = 0 THEN st ELSE Searched(h[k - 1], text[k])]
  <2>1. G[0] = st /\ \A k \in 1..n : G[k] = Searched(h[k - 1], text[k])
    BY <1>1
  <2> HIDE DEF G
  <2>2. h = G
    BY <1>7 DEF G
  <2> QED
    BY <2>1, <2>2
<1> QED
  BY <1>3, <1>8 DEF n

-----------------------------------------------------------------------------
(* What normalize_stream and transform_stream make of events has their text *)

LEMMA EventFacts ==
    ASSUME NEW k \in Kinds \cup {"thinking"}, k # "text", NEW i \in Int
    PROVE  Event(k, i, <<>>) \in Sent /\ TextOf(Event(k, i, <<>>)) = <<>>
<1>1. Event(k, i, <<>>) = [type |-> k, index |-> i, text |-> <<>>]
  BY DEF Event
<1>2. <<>> \in Seq(Letters)
  OBVIOUS
<1>3. Event(k, i, <<>>) \in Sent
  <2> DEFINE K == Kinds \cup {"thinking", "whole"}
             T == Seq(Letters)
  <2>1. k \in K /\ <<>> \in T
    BY <1>2
  <2>2. Sent = [type : K, index : Int, text : T]
    BY DEF Sent
  <2> HIDE DEF K, T
  <2> QED
    BY <1>1, <2>1, <2>2
<1>4. k \notin {"text", "completion", "whole"}
  BY DEF Kinds
<1>5. TextOf(Event(k, i, <<>>)) = <<>>
  BY <1>1, <1>4 DEF TextOf, EventText
<1> QED
  BY <1>3, <1>5

LEMMA NormalizedKeeps ==
    ASSUME NEW st \in BlockStates, NEW e \in Streamed
    PROVE  /\ Normalized(st, e) \in BlockStates
           /\ Texts(Normalized(st, e).events) = Texts(st.events) \o TextOf(e)
<1> DEFINE i == e.index
           new == IF e.type = "summary" THEN Event("thinking", i, <<>>) ELSE e
           start == IF StartMissing(st, e) THEN <<Event("thinking_start", i, <<>>)>> ELSE <<>>
           started == IF e.type \in {"thinking_start", "summary"} THEN st.started \cup {i} ELSE st.started
           stopped == IF e.type = "block_stop" /\ i \in started
                      THEN st.stopped \cup {i} ELSE st.stopped
<1>1. e \in Sent /\ i \in Int /\ st.events \in Seq(Sent)
  BY Kinship DEF Streamed, BlockStates
<1>2. new \in Sent
  BY <1>1 DEF Event, Sent
<1>3. TextOf(new) = TextOf(e)
  <2>1. CASE e.type = "summary"
    BY <2>1 DEF TextOf, EventText, Event
  <2>2. CASE e.type # "summary"
    BY <2>2
  <2> QED
    BY <2>1, <2>2
<1>4. start \in Seq(Sent) /\ Texts(start) = <<>>
  <2>1. CASE StartMissing(st, e)
    <3> DEFINE s == Event("thinking_start", i, <<>>)
    <3>1. s \in Sent /\ TextOf(s) = <<>>
      BY <1>1, EventFacts DEF Kinds
    <3>2. start = <<s>>
      BY <2>1
    <3> HIDE DEF s, start
    <3> QED
      BY <3>1, <3>2, TextsOne
  <2>2. CASE ~StartMissing(st, e)
    BY <2>2, TextsEmpty
  <2> QED
    BY <2>1, <2>2
<1>5. started \in SUBSET Int /\ stopped \in SUBSET Int
  BY <1>1 DEF BlockStates
<1>6. Normalized(st, e) = IF e.type = "summary" /\ i \in st.stopped THEN st
                          ELSE [started |-> started, stopped |-> stopped,
                                events |-> st.events \o start \o <<new>>]
  BY DEF Normalized
<1>7. CASE e.type = "summary" /\ i \in st.stopped
  <2>1. Normalized(st, e) = st
    BY <1>6, <1>7
  <2>2. TextOf(e) = <<>>
    BY <1>7 DEF TextOf, EventText
  <2> QED
    BY <1>1, <2>1, <2>2, TextsTyped, ConcatEmptySeq
<1>8. CASE ~(e.type = "summary" /\ i \in st.stopped)
  <2> HIDE DEF i, new, start, started, stopped
  <2> DEFINE events == st.events \o start \o <<new>>
  <2>1. <<new>> \in Seq(Sent) /\ st.events \o start \in Seq(Sent)
    BY <1>1, <1>2, <1>4
  <2>2. events \in Seq(Sent)
    BY <2>1
  <2>3. Texts(events) = Texts(st.events \o start) \o Texts(<<new>>)
    BY <2>1, TextsConcat
  <2>4. Texts(st.events \o start) = Texts(st.events) \o Texts(start)
    BY <1>1, <1>4, TextsConcat
  <2>5. Texts(st.events) \o Texts(start) = Texts(st.events)
    BY <1>1, <1>4, TextsTyped, ConcatEmptySeq
  <2>6. Texts(<<new>>) = TextOf(e)
    BY <1>2, <1>3, TextsOne
  <2>7. Normalized(st, e) = [started |-> started, stopped |-> stopped, events |-> events]
    BY <1>6, <1>8
  <2>8. Normalized(st, e).events = events
    BY <2>7
  <2> HIDE DEF events
  <2>9. Normalized(st, e) \in BlockStates
    BY <1>5, <2>2, <2>7 DEF BlockStates
  <2> QED
    BY <2>3, <2>4, <2>5, <2>6, <2>8, <2>9
<1> QED
  BY <1>7, <1>8

LEMMA Cleared ==
    ASSUME NEW b \in BlockStates
    PROVE  [b EXCEPT !.events = <<>>] \in BlockStates /\ [b EXCEPT !.events = <<>>].events = <<>>
<1>1. <<>> \in Seq(Sent)
  OBVIOUS
<1> QED
  BY <1>1 DEF BlockStates

LEMMA NormalizedRun ==
    ASSUME NEW events \in Seq(Streamed), blocks \in BlockStates
    PROVE  \E g : /\ g[0] = [blocks EXCEPT !.events = <<>>]
                  /\ \A k \in 1..Len(events) : g[k] = Normalized(g[k - 1], events[k])
                  /\ NormalizedAll(events) = g[Len(events)]
<1> DEFINE n == Len(events)
           st == [blocks EXCEPT !.events = <<>>]
           h == CHOOSE g : g = [k \in 0..Len(events) |->
                                  IF k = 0 THEN st ELSE Normalized(g[k - 1], events[k])]
           step == [k \in 1..n |-> [x \in BlockStates |-> Normalized(x, events[k])]]
<1>1. n \in Nat /\ \A k \in 1..n : events[k] \in Streamed
  OBVIOUS
<1>2. step \in [1..n -> [BlockStates -> BlockStates]]
  BY <1>1, NormalizedKeeps
<1>3. NormalizedAll(events) = h[n]
  BY DEF NormalizedAll
<1>0. st \in BlockStates
  BY Cleared
<1> HIDE DEF n, h, step, st
<1>4. PICK f \in [0..n -> BlockStates] : Runs(f, n, st, step)
  BY <1>0, <1>1, <1>2, Recursion
<1>5. ASSUME NEW k \in 0..n, k # 0 PROVE step[k][f[k - 1]] = Normalized(f[k - 1], events[k])
  <2>1. k - 1 \in 0..n /\ k \in 1..n
    BY <1>1, <1>5
  <2>2. f[k - 1] \in BlockStates
    BY <2>1
  <2>3. step[k] = [x \in BlockStates |-> Normalized(x, events[k])]
    BY <2>1 DEF step
  <2> QED
    BY <2>2, <2>3
<1>6. f = [k \in 0..n |-> IF k = 0 THEN st ELSE Normalized(f[k - 1], events[k])]
  <2>1. \A k \in 0..n : f[k] = IF k = 0 THEN st ELSE Normalized(f[k - 1], events[k])
    BY <1>4, <1>5 DEF Runs
  <2>2. f = [k \in 0..n |-> f[k]]
    OBVIOUS
  <2> QED
    BY <2>1, <2>2
<1>7. h = [k \in 0..n |-> IF k = 0 THEN st ELSE Normalized(h[k - 1], events[k])]
  BY <1>6 DEF n, h
<1>8. h[0] = st /\ \A k \in 1..n : h[k] = Normalized(h[k - 1], events[k])
  <2> DEFINE G == [k \in 0..n |-> IF k = 0 THEN st ELSE Normalized(h[k - 1], events[k])]
  <2>1. G[0] = st /\ \A k \in 1..n : G[k] = Normalized(h[k - 1], events[k])
    BY <1>1
  <2> HIDE DEF G
  <2>2. h = G
    BY <1>7 DEF G
  <2> QED
    BY <2>1, <2>2
<1> QED
  BY <1>3, <1>8 DEF n, st

LEMMA NormalizedTexts ==
    ASSUME NEW events \in Seq(Streamed), blocks \in BlockStates
    PROVE  /\ NormalizedAll(events) \in BlockStates
           /\ Texts(NormalizedAll(events).events) = Texts(events)
<1>1. PICK g : /\ g[0] = [blocks EXCEPT !.events = <<>>]
               /\ \A k \in 1..Len(events) : g[k] = Normalized(g[k - 1], events[k])
               /\ NormalizedAll(events) = g[Len(events)]
  BY NormalizedRun
<1>2. events \in Seq(Sent) /\ Len(events) \in Nat
  BY Kinship, SeqMonotonic
<1> DEFINE S == {k \in Nat : k <= Len(events) =>
                    /\ g[k] \in BlockStates
                    /\ Texts(g[k].events) = Texts(SubSeq(events, 1, k))}
<1>3. 0 \in S
  <2>1. g[0] \in BlockStates /\ g[0].events = <<>>
    BY <1>1, Cleared
  <2>2. SubSeq(events, 1, 0) = <<>>
    BY SubSeqEmpty
  <2> QED
    BY <2>1, <2>2
<1>4. ASSUME NEW k \in Nat, k \in S PROVE k + 1 \in S
  <2> SUFFICES ASSUME k + 1 <= Len(events)
               PROVE  /\ g[k + 1] \in BlockStates
                      /\ Texts(g[k + 1].events) = Texts(SubSeq(events, 1, k + 1))
    OBVIOUS
  <2>1. g[k] \in BlockStates /\ Texts(g[k].events) = Texts(SubSeq(events, 1, k))
    BY <1>2, <1>4
  <2>2. k + 1 \in 1..Len(events) /\ (k + 1) - 1 = k
    BY <1>2
  <2>3. PICK e \in Streamed : e = events[k + 1]
    BY <2>2
  <2>4. g[k + 1] = Normalized(g[k], e)
    BY <1>1, <2>2, <2>3
  <2>5. /\ Normalized(g[k], e) \in BlockStates
        /\ Texts(Normalized(g[k], e).events) = Texts(g[k].events) \o TextOf(e)
    BY <2>1, NormalizedKeeps
  <2>6. /\ SubSeq(events, 1, k) \in Seq(Sent)
        /\ SubSeq(events, 1, k + 1) = Append(SubSeq(events, 1, k), e)
    BY <1>2, <2>3, PrefixGrows
  <2>7. e \in Sent
    BY Kinship
  <2>8. Texts(Append(SubSeq(events, 1, k), e)) = Texts(SubSeq(events, 1, k)) \o TextOf(e)
    BY <2>6, <2>7, TextsNext
  <2> QED
    BY <2>1, <2>4, <2>5, <2>6, <2>8
<1> HIDE DEF S
<1>5. Len(events) \in S
  BY <1>2, <1>3, <1>4, Induction
<1>6. SubSeq(events, 1, Len(events)) = events
  BY <1>2, SubSeqFull
<1>7. /\ g[Len(events)] \in BlockStates
      /\ Texts(g[Len(events)].events) = Texts(SubSeq(events, 1, Len(events)))
  BY <1>2, <1>5 DEF S
<1> QED
  BY <1>1, <1>6, <1>7

LEMMA DeltaKeeps ==
    ASSUME NEW e \in Streamed
    PROVE  DeltaOf(e) \in Seq(Sent) /\ Texts(DeltaOf(e)) = TextOf(e)
<1>1. e \in Sent /\ e.index \in Int /\ e.type # "whole"
  BY Kinship DEF Streamed, Kinds
<1>2. CASE e.type = "text"
  <2>1. DeltaOf(e) = <<e>>
    BY <1>2 DEF DeltaOf
  <2> QED
    BY <1>1, <2>1, TextsOne
<1>3. CASE e.type = "summary"
  <2> DEFINE d == Event("thinking", e.index, <<>>)
  <2>1. DeltaOf(e) = <<d>> /\ TextOf(e) = <<>>
    BY <1>3 DEF DeltaOf, TextOf, EventText
  <2>2. d \in Sent /\ TextOf(d) = <<>>
    BY <1>1, EventFacts
  <2> HIDE DEF d
  <2> QED
    BY <2>1, <2>2, TextsOne
<1>4. CASE e.type \notin {"text", "summary"}
  <2>1. DeltaOf(e) = <<>>
    BY <1>4 DEF DeltaOf
  <2>2. TextOf(e) = <<>>
    BY <1>1, <1>4 DEF TextOf, EventText, Streamed, Kinds
  <2> QED
    BY <2>1, <2>2, TextsEmpty
<1> QED
  BY <1>2, <1>3, <1>4

LEMMA ConvertedNext ==
    ASSUME NEW s \in Seq(Streamed), NEW e \in Streamed
    PROVE  Converted(Append(s, e)) = Converted(s) \o DeltaOf(e)
<1> DEFINE a == [i \in DOMAIN s |-> DeltaOf(s[i])]
           t == Append(s, e)
           b == [i \in DOMAIN t |-> DeltaOf(t[i])]
<1>1. t \in Seq(Streamed) /\ Len(t) = Len(s) + 1 /\ Len(s) \in Nat
  BY AppendProperties
<1>0. ASSUME NEW u \in Seq(Streamed)
      PROVE  /\ [i \in DOMAIN u |-> DeltaOf(u[i])] \in Seq(Seq(Sent))
             /\ Len([i \in DOMAIN u |-> DeltaOf(u[i])]) = Len(u)
  <2>1. \A i \in 1..Len(u) : DeltaOf(u[i]) \in Seq(Sent)
    BY DeltaKeeps
  <2>2. DOMAIN u = 1..Len(u) /\ Len(u) \in Nat
    OBVIOUS
  <2>3. [i \in DOMAIN u |-> DeltaOf(u[i])] = [i \in 1..Len(u) |-> DeltaOf(u[i])]
    BY <2>2
  <2> QED
    BY <2>1, <2>2, <2>3
<1>2. a \in Seq(Seq(Sent)) /\ Len(a) = Len(s)
  BY <1>0
<1> HIDE DEF t
<1>3. b \in Seq(Seq(Sent)) /\ Len(b) = Len(t)
  BY <1>0, <1>1
<1>4. \A i \in 1..Len(s) : t[i] = s[i]
  BY AppendProperties DEF t
<1>5. t[Len(s) + 1] = e
  BY AppendProperties DEF t
<1>6. \A i \in 1..Len(s) : a[i] = b[i]
  BY <1>1, <1>4
<1>7. b[Len(s) + 1] = DeltaOf(e)
  BY <1>1, <1>5
<1>8. Converted(s) = FlattenSeq(a) /\ Converted(t) = FlattenSeq(b)
  BY DEF Converted
<1> HIDE DEF a, b
<1>9. PICK n \in Nat : n = Len(s)
  BY <1>1
<1>10. PICK m \in Nat : m = n + 1
  OBVIOUS
<1>11. Len(a) = n /\ Len(b) = m /\ (\A i \in 1..n : a[i] = b[i]) /\ b[m] = DeltaOf(e)
  BY <1>1, <1>2, <1>3, <1>6, <1>7, <1>9, <1>10
<1>12. FlattenSeq(b) = FlattenSeq(a) \o b[m]
  BY ONLY <1>2, <1>3, <1>10, <1>11, FlattenNext
<1> QED
  BY <1>8, <1>11, <1>12 DEF t

LEMMA ConvertedTexts ==
    ASSUME NEW events \in Seq(Streamed)
    PROVE  Converted(events) \in Seq(Sent) /\ Texts(Converted(events)) = Texts(events)
<1> DEFINE S == {n \in Nat : \A t \in Seq(Streamed) : Len(t) = n =>
                    Converted(t) \in Seq(Sent) /\ Texts(Converted(t)) = Texts(t)}
<1>1. 0 \in S
  <2> SUFFICES ASSUME NEW t \in Seq(Streamed), Len(t) = 0
               PROVE  Converted(t) \in Seq(Sent) /\ Texts(Converted(t)) = Texts(t)
    OBVIOUS
  <2>1. t = <<>>
    OBVIOUS
  <2>2. [j \in DOMAIN <<>> |-> DeltaOf(<<>>[j])] = <<>> /\ FlattenSeq(<<>>) = <<>>
    BY DEF FlattenSeq
  <2>3. Converted(<<>>) = <<>>
    BY <2>2 DEF Converted
  <2>4. <<>> \in Seq(Sent)
    OBVIOUS
  <2> QED
    BY <2>1, <2>3, <2>4
<1>2. ASSUME NEW n \in Nat, n \in S PROVE n + 1 \in S
  <2> SUFFICES ASSUME NEW t \in Seq(Streamed), Len(t) = n + 1
               PROVE  Converted(t) \in Seq(Sent) /\ Texts(Converted(t)) = Texts(t)
    OBVIOUS
  <2>1. t # <<>>
    BY EmptySeq
  <2>2. PICK u \in Seq(Streamed), e \in Streamed : t = Append(u, e)
    BY <2>1, SequenceEmptyOrAppend
  <2>3. Len(u) = n
    <3>1. Len(t) = Len(u) + 1 /\ Len(u) \in Nat
      BY <2>2, AppendProperties
    <3> QED
      BY <3>1
  <2>4. Converted(u) \in Seq(Sent) /\ Texts(Converted(u)) = Texts(u)
    BY <1>2, <2>3
  <2>5. Converted(t) = Converted(u) \o DeltaOf(e)
    BY <2>2, ConvertedNext
  <2>6. DeltaOf(e) \in Seq(Sent) /\ Texts(DeltaOf(e)) = TextOf(e)
    BY DeltaKeeps
  <2>7. Converted(t) \in Seq(Sent) /\ Texts(Converted(t)) = Texts(Converted(u)) \o Texts(DeltaOf(e))
    <3>1. PICK c \in Seq(Sent) : c = Converted(u)
      BY <2>4
    <3>2. PICK d \in Seq(Sent) : d = DeltaOf(e)
      BY <2>6
    <3>3. c \o d \in Seq(Sent) /\ Texts(c \o d) = Texts(c) \o Texts(d)
      BY TextsConcat
    <3> QED
      BY <2>5, <3>1, <3>2, <3>3
  <2>8. u \in Seq(Sent) /\ e \in Sent
    BY Kinship, SeqMonotonic
  <2>9. Texts(t) = Texts(u) \o TextOf(e)
    BY <2>2, <2>8, TextsNext
  <2> QED
    BY <2>4, <2>6, <2>7, <2>9
<1> HIDE DEF S
<1>3. Len(events) \in S
  <2>1. Len(events) \in Nat
    OBVIOUS
  <2> QED
    BY <1>1, <1>2, <2>1, Induction
<1> QED
  BY <1>3 DEF S

-----------------------------------------------------------------------------
(* The search for stop sequences                                           *)

LEMMA StopsAreTexts ==
    ASSUME mode \in Modes, NEW q \in mode.stops
    PROVE  q \in Seq(Letters) /\ q # <<>>
<1>1. q \in Seq(Range(q)) /\ q # <<>>
  BY TextAssumption
<1>2. Range(q) \subseteq Letters
  BY DEF Letters
<1> QED
  BY <1>1, <1>2, SeqMonotonic

LEMMA PrefixIs ==
    ASSUME NEW D, NEW s \in Seq(D), NEW t \in Seq(D)
    PROVE  IsPrefix(s, t) <=> Len(s) <= Len(t) /\ \A i \in 1..Len(s) : s[i] = t[i]
<1>1. Len(s) \in Nat /\ Len(t) \in Nat /\ SubSeq(s, 1, Len(s)) = s
  BY SubSeqFull
<1>2. CASE ~(Len(s) <= Len(t))
  BY <1>2 DEF IsPrefix
<1>3. CASE Len(s) <= Len(t)
  <2> DEFINE u == SubSeq(t, 1, Len(s))
  <2>1. u \in Seq(D) /\ Len(u) = Len(s) /\ \A i \in 1..Len(s) : u[i] = t[i]
    BY <1>1, <1>3
  <2> HIDE DEF u
  <2>2. s = u <=> \A i \in 1..Len(s) : s[i] = u[i]
    <3>1. ASSUME \A i \in 1..Len(s) : s[i] = u[i] PROVE s = u
      BY <2>1, <3>1, SeqEqual
    <3> QED
      BY <3>1
  <2>3. IsPrefix(s, t) <=> s = u
    BY <1>1, <1>3 DEF IsPrefix, u
  <2> QED
    BY <1>3, <2>1, <2>2, <2>3
<1> QED
  BY <1>2, <1>3

LEMMA ReverseIs ==
    ASSUME NEW D, NEW s \in Seq(D)
    PROVE  /\ Reverse(s) \in Seq(D) /\ Len(Reverse(s)) = Len(s)
           /\ \A i \in 1..Len(s) : Reverse(s)[i] = s[Len(s) - i + 1]
BY DEF Reverse

LEMMA SuffixIs ==
    ASSUME NEW D, NEW s \in Seq(D), NEW t \in Seq(D)
    PROVE  IsSuffix(s, t) <=> Ends(s, t)
<1> DEFINE r == Reverse(s)
           u == Reverse(t)
<1>1. /\ r \in Seq(D) /\ Len(r) = Len(s) /\ \A i \in 1..Len(s) : r[i] = s[Len(s) - i + 1]
      /\ u \in Seq(D) /\ Len(u) = Len(t) /\ \A i \in 1..Len(t) : u[i] = t[Len(t) - i + 1]
  BY ReverseIs
<1>2. IsSuffix(s, t) <=> IsPrefix(r, u)
  BY DEF IsSuffix
<1> HIDE DEF r, u
<1>3. IsPrefix(r, u) <=> Len(s) <= Len(t) /\ \A i \in 1..Len(s) : r[i] = u[i]
  BY <1>1, PrefixIs
<1>4. PICK m \in Nat : m = Len(s)
  OBVIOUS
<1>5. PICK n \in Nat : n = Len(t)
  OBVIOUS
<1>6. (\A i \in 1..m : r[i] = s[m - i + 1]) /\ (\A i \in 1..n : u[i] = t[n - i + 1])
  BY <1>1, <1>4, <1>5
<1>7. ASSUME m <= n, \A i \in 1..m : r[i] = u[i], NEW i \in 1..m
      PROVE  s[i] = t[n - m + i]
  <2>1. m - i + 1 \in 1..m /\ m - i + 1 \in 1..n /\ m - (m - i + 1) + 1 = i
        /\ n - (m - i + 1) + 1 = n - m + i
    BY ONLY m \in Nat, n \in Nat, i \in 1..m, <1>7
  <2>2. r[m - i + 1] = s[i] /\ u[m - i + 1] = t[n - m + i]
    BY ONLY <1>6, <2>1
  <2> QED
    BY <1>7, <2>1, <2>2
<1>8. ASSUME m <= n, \A i \in 1..m : s[i] = t[n - m + i], NEW i \in 1..m
      PROVE  r[i] = u[i]
  <2>1. m - i + 1 \in 1..m /\ i \in 1..n /\ n - m + (m - i + 1) = n - i + 1
    BY ONLY m \in Nat, n \in Nat, i \in 1..m, <1>8
  <2>2. r[i] = s[m - i + 1] /\ u[i] = t[n - i + 1]
    BY ONLY <1>6, <2>1, i \in 1..m
  <2>3. s[m - i + 1] = t[n - m + (m - i + 1)]
    BY ONLY <1>8, <2>1
  <2> QED
    BY <2>1, <2>2, <2>3
<1> QED
  BY <1>2, <1>3, <1>4, <1>5, <1>7, <1>8 DEF Ends

LEMMA EndsNext ==
    ASSUME NEW D, NEW p \in Seq(D), NEW w \in Seq(D), NEW c \in D, NEW d \in D
    PROVE  Ends(Append(p, d), Append(w, c)) <=> d = c /\ Ends(p, w)
<1> DEFINE q == Append(p, d)
           v == Append(w, c)
<1>1. /\ Len(q) = Len(p) + 1 /\ q[Len(p) + 1] = d /\ \A i \in 1..Len(p) : q[i] = p[i]
      /\ Len(v) = Len(w) + 1 /\ v[Len(w) + 1] = c /\ \A i \in 1..Len(w) : v[i] = w[i]
      /\ Len(p) \in Nat /\ Len(w) \in Nat
  BY AppendProperties
<1> HIDE DEF q, v
<1>2. ASSUME Ends(q, v) PROVE d = c /\ Ends(p, w)
  <2>1. Len(p) <= Len(w) /\ \A i \in 1..Len(p) + 1 : q[i] = v[Len(w) - Len(p) + i]
    <3>1. Len(q) <= Len(v) /\ \A i \in 1..Len(q) : q[i] = v[Len(v) - Len(q) + i]
      BY <1>2 DEF Ends
    <3>2. Len(v) - Len(q) = Len(w) - Len(p)
      BY <1>1
    <3> QED
      BY <1>1, <3>1, <3>2
  <2>2. Len(p) + 1 \in 1..Len(p) + 1 /\ Len(w) - Len(p) + (Len(p) + 1) = Len(w) + 1
    BY <1>1
  <2>3. d = c
    BY <1>1, <2>1, <2>2
  <2>4. ASSUME NEW i \in 1..Len(p) PROVE p[i] = w[Len(w) - Len(p) + i]
    <3>1. i \in 1..Len(p) + 1 /\ Len(w) - Len(p) + i \in 1..Len(w)
      BY <1>1, <2>1
    <3>2. q[i] = v[Len(w) - Len(p) + i] /\ q[i] = p[i]
      BY <1>1, <2>1, <3>1
    <3> QED
      BY <1>1, <3>1, <3>2
  <2> QED
    BY <2>1, <2>3, <2>4 DEF Ends
<1>3. ASSUME d = c, Ends(p, w) PROVE Ends(q, v)
  <2>1. Len(p) <= Len(w) /\ \A i \in 1..Len(p) : p[i] = w[Len(w) - Len(p) + i]
    BY <1>3 DEF Ends
  <2>2. Len(q) <= Len(v) /\ Len(v) - Len(q) = Len(w) - Len(p)
    BY <1>1, <2>1
  <2>3. ASSUME NEW i \in 1..Len(q) PROVE q[i] = v[Len(v) - Len(q) + i]
    <3>1. CASE i = Len(p) + 1
      <4>1. Len(v) - Len(q) + i = Len(w) + 1
        BY <1>1, <3>1
      <4> QED
        BY <1>1, <1>3, <3>1, <4>1
    <3>2. CASE i \in 1..Len(p)
      <4>1. Len(w) - Len(p) + i \in 1..Len(w) /\ Len(v) - Len(q) + i = Len(w) - Len(p) + i
        BY <1>1, <2>1, <3>2
      <4>2. q[i] = p[i] /\ v[Len(w) - Len(p) + i] = w[Len(w) - Len(p) + i]
        BY <1>1, <3>2, <4>1
      <4> QED
        BY <2>1, <3>2, <4>1, <4>2
    <3> QED
      BY <1>1, <3>1, <3>2
  <2> QED
    BY <2>2, <2>3 DEF Ends
<1> QED
  BY <1>2, <1>3 DEF q, v

\* What remains of a prefix without its last letter is one, too.
LEMMA ShorterPrefix ==
    ASSUME NEW D, NEW p \in Seq(D), NEW d \in D, NEW q \in Seq(D), IsPrefix(Append(p, d), q)
    PROVE  IsStrictPrefix(p, q)
<1> DEFINE g == Append(p, d)
<1>1. /\ g \in Seq(D) /\ Len(g) = Len(p) + 1 /\ \A i \in 1..Len(p) : g[i] = p[i]
      /\ Len(p) \in Nat /\ Len(q) \in Nat
  BY AppendProperties
<1>0. IsPrefix(g, q)
  OBVIOUS
<1> HIDE DEF g
<1>2. Len(g) <= Len(q) /\ \A i \in 1..Len(g) : g[i] = q[i]
  BY <1>0, <1>1, PrefixIs
<1>3. Len(p) < Len(q) /\ \A i \in 1..Len(p) : p[i] = q[i]
  BY <1>1, <1>2
<1>4. IsPrefix(p, q)
  BY <1>1, <1>3, PrefixIs
<1> QED
  BY <1>3, <1>4 DEF IsStrictPrefix

LEMMA SamePrefix ==
    ASSUME NEW D, NEW q \in Seq(D)
    PROVE  IsPrefix(q, q)
BY PrefixIs

\* One letter: the matches that have begun are those of the longer text, and a
\* stop sequence is found exactly when it ends there.
LEMMA SearchedOne ==
    ASSUME mode \in Modes, NEW st \in Searches, NEW w \in Seq(Letters), NEW c \in Letters,
           ~st.hit, st.partial = Begun(w)
    PROVE  /\ Searched(st, c).partial = Begun(Append(w, c))
           /\ Searched(st, c).passed = Append(st.passed, c)
           /\ Searched(st, c).hit <=> \E q \in mode.stops : Ends(q, Append(w, c))
<1> DEFINE grown == {Append(p, c) : p \in st.partial}
           v == Append(w, c)
           next == {<<>>} \cup {g \in grown : \E q \in mode.stops : IsStrictPrefix(g, q)}
<1>1. /\ Searched(st, c).partial = next
      /\ Searched(st, c).passed = Append(st.passed, c)
      /\ Searched(st, c).hit <=> grown \cap mode.stops # {}
  BY DEF Searched
<1>2. v \in Seq(Letters)
  OBVIOUS
<1>3. ASSUME NEW g, g \in grown PROVE g \in Seq(Letters) /\ Ends(g, v)
  <2>1. PICK p \in Seq(Letters) : g = Append(p, c) /\ Ends(p, w)
    BY <1>3 DEF Begun
  <2> QED
    BY <2>1, EndsNext
<1>4. ASSUME NEW g \in Seq(Letters), g # <<>>, Ends(g, v),
             NEW q \in mode.stops, IsPrefix(g, q)
      PROVE  g \in grown
  <2>1. PICK p \in Seq(Letters), d \in Letters : g = Append(p, d)
    BY <1>4, SequenceEmptyOrAppend
  <2>2. d = c /\ Ends(p, w)
    BY <1>4, <2>1, EndsNext
  <2>3. IsStrictPrefix(p, q)
    BY <1>4, <2>1, StopsAreTexts, ShorterPrefix
  <2>4. p \in st.partial
    BY <2>2, <2>3 DEF Begun
  <2> QED
    BY <2>1, <2>2, <2>4
<1> HIDE DEF grown, v
<1>5. next \subseteq Begun(v)
  <2>1. <<>> \in Begun(v)
    <3>1. <<>> \in Seq(Letters) /\ Len(v) \in Nat
      BY <1>2
    <3>2. Ends(<<>>, v)
      BY <3>1 DEF Ends
    <3> QED
      BY <3>1, <3>2 DEF Begun
  <2> QED
    BY <1>3, <2>1 DEF Begun
<1>6. ASSUME NEW g, g \in Begun(v) PROVE g \in next
  <2>1. CASE g = <<>>
    BY <2>1
  <2>2. CASE g # <<>>
    <3>1. PICK q \in mode.stops : IsStrictPrefix(g, q)
      BY <1>6, <2>2 DEF Begun
    <3>2. g \in Seq(Letters) /\ Ends(g, v) /\ IsPrefix(g, q)
      BY <1>6, <3>1 DEF Begun, IsStrictPrefix
    <3>3. g \in grown
      BY <1>4, <2>2, <3>2
    <3> QED
      BY <3>1, <3>3
  <2> QED
    BY <2>1, <2>2
<1>7. next = Begun(v)
  BY <1>5, <1>6
<1>8. grown \cap mode.stops # {} <=> \E q \in mode.stops : Ends(q, v)
  <2>1. ASSUME NEW q \in mode.stops, Ends(q, v) PROVE q \in grown
    <3>1. q \in Seq(Letters) /\ q # <<>>
      BY StopsAreTexts
    <3> QED
      BY <1>4, <2>1, <3>1, SamePrefix
  <2> QED
    BY <1>3, <2>1
<1> QED
  BY <1>1, <1>7, <1>8 DEF v

\* A text ends with a stop sequence at place k when its first k letters do.
LEMMA EndsAtIs ==
    ASSUME mode \in Modes, NEW t \in Seq(Letters), NEW k \in 0..Len(t)
    PROVE  /\ SubSeq(t, 1, k) \in Seq(Letters)
           /\ EndsAt(t, k) <=> \E q \in mode.stops : Ends(q, SubSeq(t, 1, k))
<1>1. SubSeq(t, 1, k) \in Seq(Letters)
  OBVIOUS
<1>2. ASSUME NEW q \in mode.stops
      PROVE  IsSuffix(q, SubSeq(t, 1, k)) <=> Ends(q, SubSeq(t, 1, k))
  BY <1>1, StopsAreTexts, SuffixIs
<1> QED
  BY <1>1, <1>2 DEF EndsAt

\* The text u after the text t, up to its k-th letter.
LEMMA ConcatParts ==
    ASSUME NEW D, NEW t \in Seq(D), NEW text \in Seq(D)
    PROVE  /\ t \o text \in Seq(D) /\ Len(t \o text) = Len(t) + Len(text)
           /\ \A l \in 0..Len(t) : SubSeq(t \o text, 1, l) = SubSeq(t, 1, l)
           /\ \A k \in 1..Len(text) : (t \o text)[Len(t) + k] = text[k]
<1>1. t \o text \in Seq(D) /\ Len(t \o text) = Len(t) + Len(text)
  OBVIOUS
<1>2. \A k \in 1..Len(text) : (t \o text)[Len(t) + k] = text[k]
  OBVIOUS
<1>3. ASSUME NEW l \in 0..Len(t) PROVE SubSeq(t \o text, 1, l) = SubSeq(t, 1, l)
  <2>1. CASE l = 0
    BY <2>1, SubSeqEmpty
  <2>2. CASE l # 0
    <3>1. 1 \in 1..Len(t) /\ l \in 1..Len(t)
      BY <2>2
    <3> QED
      BY <3>1, SubSeqOfConcat1
  <2> QED
    BY <2>1, <2>2
<1> QED
  BY <1>1, <1>2, <1>3

\* What the search has found after k letters of a text.
FoundNothing(st, u, n, text, k) ==
    /\ st.partial = Begun(SubSeq(u, 1, n + k))
    /\ st.passed = SubSeq(text, 1, k)
    /\ \A l \in 1..n + k : ~EndsAt(u, l)
FoundAt(st, u, n, text, m) ==
    /\ st.passed = SubSeq(text, 1, m)
    /\ EndsAt(u, n + m)
    /\ \A l \in 1..n + m - 1 : ~EndsAt(u, l)
FoundAfter(st, u, n, text, k) ==
    /\ st \in Searches
    /\ ~st.hit => FoundNothing(st, u, n, text, k)
    /\ st.hit => \E m \in 1..k : FoundAt(st, u, n, text, m)

LEMMA FoundNext ==
    ASSUME mode \in Modes, NEW u \in Seq(Letters), NEW text \in Seq(Letters), NEW n \in Nat,
           NEW k \in Nat, k + 1 <= Len(text), Len(u) = n + Len(text), u[n + (k + 1)] = text[k + 1],
           NEW st, FoundAfter(st, u, n, text, k)
    PROVE  FoundAfter(Searched(st, text[k + 1]), u, n, text, k + 1)
<1>1. PICK c \in Letters : c = text[k + 1] /\ c = u[n + k + 1]
  BY DEF FoundAfter
<1> DEFINE r == Searched(st, c)
<1>2. r \in Searches
  BY SearchedTyped DEF FoundAfter
<1>3. CASE st.hit
  <2>1. r = st
    BY <1>3 DEF Searched
  <2>2. PICK m \in 1..k : FoundAt(st, u, n, text, m)
    BY <1>3 DEF FoundAfter
  <2>3. m \in 1..k + 1
    OBVIOUS
  <2> QED
    BY <1>1, <1>2, <1>3, <2>1, <2>2, <2>3 DEF FoundAfter
<1>4. CASE ~st.hit
  <2> DEFINE w == SubSeq(u, 1, n + k)
  <2>1. FoundNothing(st, u, n, text, k) /\ st \in Searches
    BY <1>4 DEF FoundAfter
  <2>2. w \in Seq(Letters) /\ SubSeq(u, 1, n + k + 1) = Append(w, c)
    <3>1. n + k \in Nat /\ (n + k) + 1 <= Len(u) /\ (n + k) + 1 = n + k + 1
      OBVIOUS
    <3> QED
      BY <1>1, <3>1, PrefixGrows
  <2>3. SubSeq(text, 1, k + 1) = Append(SubSeq(text, 1, k), c)
    BY <1>1, PrefixGrows
  <2> HIDE DEF w, r
  <2>4. st.partial = Begun(w) /\ st.passed = SubSeq(text, 1, k)
    BY <2>1 DEF FoundNothing, w
  <2>5. /\ r.partial = Begun(Append(w, c)) /\ r.passed = Append(st.passed, c)
        /\ r.hit <=> \E q \in mode.stops : Ends(q, Append(w, c))
    BY <1>4, <2>1, <2>2, <2>4, SearchedOne DEF r
  <2>6. n + k + 1 \in 0..Len(u)
    OBVIOUS
  <2>7. r.hit <=> EndsAt(u, n + k + 1)
    BY <2>2, <2>5, <2>6, EndsAtIs
  <2>8. \A l \in 1..n + k : ~EndsAt(u, l)
    BY <2>1 DEF FoundNothing
  <2>9. r.passed = SubSeq(text, 1, k + 1)
    BY <2>3, <2>4, <2>5
  <2>10. n + (k + 1) = n + k + 1 /\ n + (k + 1) - 1 = n + k /\ k + 1 \in 1..k + 1
    OBVIOUS
  <2>11. CASE r.hit
    <3>1. FoundAt(r, u, n, text, k + 1)
      BY <2>7, <2>8, <2>9, <2>10, <2>11 DEF FoundAt
    <3> QED
      BY <1>1, <1>2, <2>10, <2>11, <3>1 DEF FoundAfter, r
  <2>12. CASE ~r.hit
    <3>1. \A l \in 1..n + k + 1 : l = n + k + 1 \/ l \in 1..n + k
      OBVIOUS
    <3>2. \A l \in 1..n + k + 1 : ~EndsAt(u, l)
      BY <2>7, <2>8, <2>12, <3>1
    <3>3. FoundNothing(r, u, n, text, k + 1)
      BY <2>2, <2>5, <2>9, <2>10, <3>2 DEF FoundNothing
    <3> QED
      BY <1>1, <1>2, <2>12, <3>3 DEF FoundAfter, r
  <2> QED
    BY <2>11, <2>12
<1> QED
  BY <1>3, <1>4

\* The search of one delta.
LEMMA SearchFinds ==
    ASSUME mode \in Modes, search \in Searches, ~search.hit, fed \in Seq(Letters),
           search.partial = Begun(fed), NoEnd(fed), NEW text \in Seq(Letters)
    PROVE  FoundAfter(Search(text), fed \o text, Len(fed), text, Len(text))
<1> DEFINE st == [search EXCEPT !.passed = <<>>]
           u == fed \o text
<1>0. PICK n \in Nat : n = Len(fed)
  OBVIOUS
<1>1. st \in Searches /\ st.hit = search.hit /\ st.partial = search.partial /\ st.passed = <<>>
  <2>1. <<>> \in Seq(Letters)
    OBVIOUS
  <2> QED
    BY <2>1 DEF Searches
<1>2. /\ u \in Seq(Letters) /\ Len(u) = n + Len(text)
      /\ \A l \in 0..n : SubSeq(u, 1, l) = SubSeq(fed, 1, l)
      /\ \A k \in 1..Len(text) : u[n + k] = text[k]
  BY <1>0, ConcatParts
<1> HIDE DEF st, u
<1>3. PICK g : /\ g[0] = st
               /\ \A k \in 1..Len(text) : g[k] = Searched(g[k - 1], text[k])
               /\ SearchFrom(st, text) = g[Len(text)]
  BY <1>1, SearchRun
<1> DEFINE S == {k \in Nat : k <= Len(text) => FoundAfter(g[k], u, n, text, k)}
<1>4. 0 \in S
  <2>1. SubSeq(u, 1, n + 0) = fed /\ SubSeq(text, 1, 0) = <<>>
    BY <1>0, <1>2, SubSeqFull, SubSeqEmpty
  <2>2. ASSUME NEW l \in 1..n + 0 PROVE ~EndsAt(u, l)
    <3>1. l \in 1..Len(fed) /\ l \in 0..n
      BY <1>0
    <3>2. ~EndsAt(fed, l)
      BY <3>1 DEF NoEnd
    <3> QED
      BY <1>2, <3>1, <3>2 DEF EndsAt
  <2>3. FoundNothing(st, u, n, text, 0)
    BY <1>1, <2>1, <2>2 DEF FoundNothing
  <2> QED
    BY <1>1, <1>3, <2>3 DEF FoundAfter
<1>5. ASSUME NEW k \in Nat, k \in S PROVE k + 1 \in S
  <2> SUFFICES ASSUME k + 1 <= Len(text) PROVE FoundAfter(g[k + 1], u, n, text, k + 1)
    OBVIOUS
  <2>1. k + 1 \in 1..Len(text) /\ (k + 1) - 1 = k /\ k <= Len(text)
    OBVIOUS
  <2>2. g[k + 1] = Searched(g[k], text[k + 1]) /\ u[n + (k + 1)] = text[k + 1]
    BY <1>2, <1>3, <2>1
  <2>3. FoundAfter(g[k], u, n, text, k)
    BY <1>5, <2>1
  <2> QED
    BY <1>2, <2>2, <2>3, FoundNext
<1> HIDE DEF S
<1>6. Len(text) \in Nat
  OBVIOUS
<1>7. Len(text) \in S
  BY <1>4, <1>5, <1>6, Induction
<1> QED
  BY <1>0, <1>3, <1>6, <1>7 DEF S, Search, st, u

-----------------------------------------------------------------------------
(* Types                                                                   *)

LEMMA ModesAre ==
    ASSUME mode \in Modes
    PROVE  mode.explicit \in BOOLEAN /\ mode.stream \in BOOLEAN
BY TextAssumption

LEMMA PiecesAreTexts == Pieces \subseteq Seq(Letters) /\ Links \in Seq(Letters)
<1>1. ASSUME NEW s \in Pieces \cup {Links} PROVE s \in Seq(Letters)
  <2>1. s \in Seq(Range(s))
    BY TextAssumption
  <2>2. Range(s) \subseteq Letters
    BY DEF Letters
  <2> QED
    BY <2>1, <2>2, SeqMonotonic
<1> QED
  BY <1>1

LEMMA EventParts ==
    \A k, i, s : /\ Event(k, i, s).type = k /\ Event(k, i, s).index = i /\ Event(k, i, s).text = s
                 /\ Mark(k) = Event(k, 0, <<>>) /\ TextDelta(i, s) = Event("text", i, s)
BY DEF Event, Mark, TextDelta

LEMMA StreamedEvents ==
    \A k \in Kinds, i \in Int, s \in Seq(Letters) : Event(k, i, s) \in Streamed
<1> DEFINE T == Seq(Letters)
<1>1. Streamed = [type : Kinds, index : Int, text : T]
  BY DEF Streamed
<1> HIDE DEF T
<1>2. \A k \in Kinds, i \in Int, s \in T : Event(k, i, s) \in Streamed
  BY <1>1 DEF Event
<1> QED
  BY <1>2 DEF T

\* The service begins and ends, and a message ends once.
LEMMA SendsFacts ==
    ASSUME up \in Service, NEW e, Sends(e)
    PROVE  /\ up' \in Service /\ up.open # "after"
           /\ up'.open = "after" <=> e.type = "message_stop"
<1>0. up.next \in Nat /\ up.deltas \in Nat /\ up.next + 1 \in Nat /\ up.deltas + 1 \in Nat
  BY DEF Service
<1>1. CASE up.open = "before" /\ e = Mark("message_start") /\ up' = [up EXCEPT !.open = "none"]
  <2>1. e.type = "message_start"
    BY <1>1, EventParts
  <2> QED
    BY <1>1, <2>1 DEF Service
<1>2. ASSUME NEW kind \in {"text", "thinking"}, up.open = "none",
             e = Event(StartOf[kind], up.next, <<>>), up' = [up EXCEPT !.open = kind]
      PROVE  /\ up' \in Service /\ up.open # "after"
             /\ up'.open = "after" <=> e.type = "message_stop"
  <2>1. e.type \in {"text_start", "thinking_start"}
    BY <1>2, EventParts DEF StartOf
  <2> QED
    BY <1>2, <2>1 DEF Service
<1>3. CASE /\ up.open = "none" /\ e = Event("summary", up.next, <<>>)
           /\ up' = [up EXCEPT !.open = "thinking", !.deltas = @ + 1]
  <2>1. e.type = "summary"
    BY <1>3, EventParts
  <2> QED
    BY <1>0, <1>3, <2>1 DEF Service
<1>4. ASSUME up.open \in {"text", "thinking", "none"}, e.type \in {"text", "summary"},
             up' = [up EXCEPT !.deltas = @ + 1]
      PROVE  /\ up' \in Service /\ up.open # "after"
             /\ up'.open = "after" <=> e.type = "message_stop"
  BY <1>0, <1>4 DEF Service
<1>5. CASE /\ up.open \in {"text", "thinking"} /\ e = Event("block_stop", up.next, <<>>)
           /\ up' = [up EXCEPT !.open = "none", !.next = @ + 1,
                               !.thought = IF up.open = "thinking" THEN @ \cup {up.next} ELSE @]
  <2> DEFINE th == IF up.open = "thinking" THEN up.thought \cup {up.next} ELSE up.thought
  <2>1. e.type = "block_stop"
    BY <1>5, EventParts
  <2>2. th \in SUBSET Nat /\ up' = [up EXCEPT !.open = "none", !.next = @ + 1, !.thought = th]
    BY <1>0, <1>5 DEF Service
  <2> HIDE DEF th
  <2> QED
    BY <1>0, <1>5, <2>1, <2>2 DEF Service
<1>6. CASE up.open = "none" /\ e = Mark("message_delta") /\ up' = [up EXCEPT !.open = "last"]
  <2>1. e.type = "message_delta"
    BY <1>6, EventParts
  <2> QED
    BY <1>6, <2>1 DEF Service
<1>7. CASE up.open = "last" /\ e = Mark("message_stop") /\ up' = [up EXCEPT !.open = "after"]
  <2>1. e.type = "message_stop"
    BY <1>7, EventParts
  <2> QED
    BY <1>7, <2>1 DEF Service
<1>8. CASE /\ up.open = "text" /\ \E s \in Pieces : e = TextDelta(up.next, s)
           /\ up' = [up EXCEPT !.deltas = @ + 1]
  <2>1. e.type = "text"
    BY <1>8, EventParts
  <2> QED
    BY <1>4, <1>8, <2>1
<1>9. CASE /\ up.open \in {"thinking", "none"} /\ \E j : e = Event("summary", j, <<>>)
           /\ up' = [up EXCEPT !.deltas = @ + 1]
  <2>1. e.type = "summary"
    BY <1>9, EventParts
  <2> QED
    BY <1>4, <1>9, <2>1
<1> QED
  BY <1>1, <1>2, <1>3, <1>5, <1>6, <1>7, <1>8, <1>9 DEF Sends

LEMMA CompletesFacts ==
    ASSUME up \in Service, NEW e, Completes(e)
    PROVE  /\ up' \in Service /\ up.open # "after"
           /\ up'.open = "after" <=> e.type = "message_stop"
<1>1. CASE /\ up.open \in {"before", "none"} /\ \E s \in Pieces : e = Event("completion", 0, s)
           /\ up' = [up EXCEPT !.open = "none", !.deltas = @ + 1]
  <2>1. e.type = "completion" /\ up.deltas + 1 \in Nat
    BY <1>1, EventParts DEF Service
  <2> QED
    BY <1>1, <2>1 DEF Service
<1>2. CASE up.open = "none" /\ e = Mark("message_stop") /\ up' = [up EXCEPT !.open = "after"]
  <2>1. e.type = "message_stop"
    BY <1>2, EventParts
  <2> QED
    BY <1>2, <2>1 DEF Service
<1> QED
  BY <1>1, <1>2 DEF Completes

LEMMA ReceivedFacts ==
    ASSUME NEW e \in Received
    PROVE  e \in Streamed /\ e \in Sent
<1>0. <<>> \in Seq(Letters) /\ 0 \in Int /\ (\A s \in Pieces : s \in Seq(Letters))
  BY PiecesAreTexts
<1>1. \E k \in Kinds, i \in Int, s \in Seq(Letters) : e = Event(k, i, s)
  <2>1. CASE \E k \in {"message_start", "message_delta", "message_stop"} : e = Mark(k)
    BY <1>0, <2>1, EventParts DEF Kinds
  <2>2. CASE \E i \in 0..MaxBlocks, k \in {"text_start", "thinking_start", "summary", "block_stop"} :
                e = Event(k, i, <<>>)
    <3>1. {"text_start", "thinking_start", "summary", "block_stop"} \subseteq Kinds
      BY DEF Kinds
    <3>2. \A i \in 0..MaxBlocks : i \in Int
      OBVIOUS
    <3> QED
      BY <1>0, <2>2, <3>1, <3>2
  <2>3. CASE \E i \in 0..MaxBlocks, s \in Pieces : e = TextDelta(i, s)
    <3>1. "text" \in Kinds
      BY DEF Kinds
    <3>2. PICK i \in 0..MaxBlocks, s \in Pieces : e = TextDelta(i, s)
      BY <2>3
    <3>3. i \in Int /\ s \in Seq(Letters) /\ e = Event("text", i, s)
      BY <1>0, <3>2, EventParts
    <3> QED
      BY <3>1, <3>3
  <2> QED
    BY <2>1, <2>2, <2>3 DEF Received
<1> QED
  BY <1>1, StreamedEvents, Kinship

LEMMA LinkFacts ==
    ASSUME NEW r \in Readers
    PROVE  LinkEvents(r) \in Seq(Streamed) /\ (~NamesFile(r.acc) => LinkEvents(r) = <<>>)
<1>1. <<>> \in Seq(Letters) /\ Links \in Seq(Letters) /\ r.active \in Int /\ r.next \in Int
  BY PiecesAreTexts DEF Readers
<1>2. /\ TextDelta(r.active, Links) \in Streamed /\ TextDelta(r.next, Links) \in Streamed
      /\ Event("text_start", r.next, <<>>) \in Streamed
      /\ Event("block_stop", r.next, <<>>) \in Streamed
  <2>1. {"text", "text_start", "block_stop"} \subseteq Kinds
    BY DEF Kinds
  <2>2. \A i : TextDelta(i, Links) = Event("text", i, Links)
    BY EventParts
  <2>3. \A i \in Int : /\ Event("text", i, Links) \in Streamed
                       /\ Event("text_start", i, <<>>) \in Streamed
                       /\ Event("block_stop", i, <<>>) \in Streamed
    BY <1>1, <2>1, StreamedEvents
  <2> QED
    BY <1>1, <2>2, <2>3
<1> QED
  BY <1>2 DEF LinkEvents

LEMMA GatheredFacts ==
    ASSUME NEW e, e.index \in Int, EventText(e) \in Seq(Letters), reader \in Readers
    PROVE  /\ Gathered(e) \in Readers /\ Gathered(e).at = reader.at
           /\ Gathered(e).acc = reader.acc \o EventText(e)
<1> DEFINE acc == reader.acc \o EventText(e)
           next == IF e.type \in {"text_start", "thinking_start", "block_stop"} /\ e.index >= reader.next
                   THEN e.index + 1 ELSE reader.next
           active == CASE e.type = "text_start" -> e.index
                       [] e.type = "block_stop" /\ e.index = reader.active -> NoBlock
                       [] OTHER -> reader.active
<1>1. acc \in Seq(Letters) /\ next \in Int /\ active \in Int
  BY DEF Readers, NoBlock
<1>2. Gathered(e) = [reader EXCEPT !.acc = acc, !.next = next, !.active = active]
  BY DEF Gathered
<1> HIDE DEF acc, next, active
<1>3. Gathered(e) \in Readers /\ Gathered(e).at = reader.at /\ Gathered(e).acc = acc
  BY <1>1, <1>2 DEF Readers
<1> QED
  BY <1>3 DEF acc

LEMMA StandsFacts ==
    ASSUME reader \in Readers, NEW place \in Places, Stands(place)
    PROVE  reader' \in Readers /\ reader'.at = place /\ reader'.acc = reader.acc
BY DEF Stands, Readers

-----------------------------------------------------------------------------
(* The steps                                                               *)

LEMMA NamesMore ==
    ASSUME NEW a \in Seq(Letters), NEW t \in Seq(Letters), ~NamesFile(a \o t)
    PROVE  ~NamesFile(a)
<1>1. Range(a \o t) = Range(a) \cup Range(t)
  BY RangeConcatenation
<1> QED
  BY <1>1 DEF NamesFile

\* What the invariant says while an answer is read.
LEMMA Reading ==
    ASSUME StreamInv, reader.at = "reading"
    PROVE  /\ usage = <<>>
           /\ mode.explicit => out = <<>> /\ life \in {"open", "committed"}
           /\ ~mode.explicit => life = "none"
           /\ up.open # "after" => life # "committed"
BY DEF StreamInv, TurnInv, UsageInv, Counted, NamesFile

LEMMA SearchStays ==
    ASSUME SearchInv, UNCHANGED <<mode, search, fed, out>>
    PROVE  SearchInv'
BY DEF SearchInv, Begun, NoEnd, EndsAt

LEMMA ReceiveStep ==
    ASSUME StreamInv, Receive
    PROVE  StreamInv'
<1>1. PICK e \in Received :
        /\ Sends(e)
        /\ IF e.type # "message_stop"
           THEN /\ reader' = Gathered(e)
                /\ body' = Append(body, e)
                /\ UNCHANGED <<life, digest>>
           ELSE \/ /\ reader' = Gathered(e)
                   /\ body' = body \o LinkEvents(reader) \o <<e>>
                   /\ Settle(reader.acc)
                \/ /\ mode.explicit
                   /\ Stands("failed")
                   /\ body' = body \o LinkEvents(reader)
                   /\ UNCHANGED <<life, digest>>
  BY DEF Receive
<1>2. mode.stream /\ reader.at = "reading" /\ UNCHANGED <<mode, usage, search, blocks, fed, out>>
  BY DEF Receive, layers
<1>3. /\ mode \in Modes /\ up \in Service /\ reader \in Readers
      /\ life \in {"none", "open", "committed", "uncertain"}
      /\ usage \in Seq(Nat) /\ body \in Seq(Streamed) /\ body \in Seq(Sent) /\ search \in Searches
      /\ blocks \in BlockStates /\ fed \in Seq(Letters) /\ out \in Seq(Sent)
  BY <1>2, Kinship, SeqMonotonic DEF StreamInv, Types
<1>4. mode.explicit \in BOOLEAN /\ mode.stream \in BOOLEAN
  BY <1>3, ModesAre
<1>5. e \in Streamed /\ e \in Sent
  BY ReceivedFacts
<1>6. EventText(e) \in Seq(Letters) /\ EventText(e) = TextOf(e) /\ e.index \in Int
  BY <1>5, TextOfTyped DEF Streamed, Kinds, TextOf
<1>7. /\ Gathered(e) \in Readers /\ Gathered(e).at = "reading"
      /\ Gathered(e).acc = reader.acc \o EventText(e)
  BY <1>2, <1>3, <1>6, GatheredFacts
<1>8. /\ up' \in Service /\ up.open # "after"
      /\ up'.open = "after" <=> e.type = "message_stop"
  BY <1>1, <1>3, SendsFacts
<1>9. /\ usage = <<>> /\ life # "committed"
      /\ mode.explicit => out = <<>> /\ life = "open"
      /\ ~mode.explicit => life = "none"
  BY <1>2, <1>8, Reading
<1>10. reader.acc \in Seq(Letters)
  BY <1>3 DEF Readers
<1>11. LinkEvents(reader) \in Seq(Streamed) /\ (~NamesFile(reader.acc) => LinkEvents(reader) = <<>>)
  BY <1>3, LinkFacts
<1>12. mode.explicit /\ ~search.hit /\ ~NamesFile(reader.acc) => Texts(out) \o Texts(body) = reader.acc
  BY <1>2 DEF StreamInv, ShownInv
<1>13. SearchInv'
  BY <1>2, SearchStays DEF StreamInv
<1>14. Texts(Append(body, e)) = Texts(body) \o EventText(e)
  BY <1>3, <1>5, <1>6, TextsNext
<1>15. CASE /\ e.type # "message_stop" /\ reader' = Gathered(e)
            /\ body' = Append(body, e) /\ UNCHANGED <<life, digest>>
  <2>1. reader' \in Readers /\ reader'.at = "reading" /\ reader'.acc = reader.acc \o EventText(e)
    BY <1>7, <1>15
  <2>2. body' \in Seq(Streamed)
    BY <1>3, <1>5, <1>15
  <2>3. Types'
    BY <1>2, <1>3, <1>8, <1>15, <2>1, <2>2 DEF Types
  <2>4. TurnInv'
    BY <1>2, <1>9, <1>15, <2>1 DEF TurnInv
  <2>5. UsageInv'
    BY <1>2, <1>9, <2>1 DEF UsageInv, StreamInv
  <2>6. ShownInv'
    <3> SUFFICES ASSUME mode.explicit, ~search.hit, ~NamesFile(reader'.acc)
                 PROVE  Texts(out) \o Texts(body') = reader'.acc
      BY <1>2 DEF ShownInv, NamesFile
    <3>1. Texts(out) \o Texts(body) = reader.acc
      BY <1>6, <1>10, <1>12, <2>1, NamesMore
    <3>2. Texts(out) \in Seq(Letters) /\ Texts(body) \in Seq(Letters)
      BY <1>3, TextsTyped
    <3>3. Texts(out) \o (Texts(body) \o EventText(e)) = (Texts(out) \o Texts(body)) \o EventText(e)
      BY ONLY <1>6, <3>2, Regrouped
    <3> QED
      BY <1>14, <1>15, <2>1, <3>1, <3>3
  <2> QED
    BY <1>13, <2>3, <2>4, <2>5, <2>6 DEF StreamInv
<1>16. CASE /\ e.type = "message_stop" /\ reader' = Gathered(e)
            /\ body' = body \o LinkEvents(reader) \o <<e>> /\ Settle(reader.acc)
  <2>0. EventText(e) = <<>> /\ reader.acc \o <<>> = reader.acc
    BY <1>10, <1>16, ConcatEmptySeq DEF EventText
  <2>1. reader' \in Readers /\ reader'.at = "reading" /\ reader'.acc = reader.acc
    BY <1>7, <1>16, <2>0
  <2>2. body' \in Seq(Streamed)
    BY <1>3, <1>5, <1>11, <1>16
  <2>3. IF mode.explicit THEN life' = "committed" /\ digest' = reader.acc
        ELSE UNCHANGED <<life, digest>>
    BY <1>16 DEF Settle
  <2>4. Types'
    BY <1>2, <1>3, <1>4, <1>8, <2>1, <2>2, <2>3 DEF Types
  <2>5. TurnInv'
    BY <1>2, <1>4, <1>8, <1>9, <1>16, <2>1, <2>3 DEF TurnInv
  <2>6. UsageInv'
    BY <1>2, <1>9, <2>1 DEF UsageInv, StreamInv
  <2>7. ShownInv'
    <3> SUFFICES ASSUME mode.explicit, ~search.hit, ~NamesFile(reader'.acc)
                 PROVE  Texts(out) \o Texts(body') = reader'.acc
      BY <1>2 DEF ShownInv, NamesFile
    <3>1. ~NamesFile(reader.acc)
      BY <2>1
    <3>2. body' = Append(body, e)
      BY <1>3, <1>5, <1>11, <1>16, <3>1, ConcatEmptySeq, AppendIsConcat
    <3>3. Texts(body) \in Seq(Letters)
      BY <1>3, TextsTyped
    <3>4. Texts(body') = Texts(body)
      BY <1>14, <2>0, <3>2, <3>3, ConcatEmptySeq
    <3> QED
      BY <1>12, <2>1, <3>1, <3>4
  <2> QED
    BY <1>13, <2>4, <2>5, <2>6, <2>7 DEF StreamInv
<1>17. CASE /\ mode.explicit /\ Stands("failed")
            /\ body' = body \o LinkEvents(reader) /\ UNCHANGED <<life, digest>>
  <2>1. reader' \in Readers /\ reader'.at = "failed" /\ reader'.acc = reader.acc
    BY <1>3, <1>17, StandsFacts DEF Places
  <2>2. body' \in Seq(Streamed)
    BY <1>3, <1>11, <1>17
  <2>3. Types'
    BY <1>2, <1>3, <1>8, <1>17, <2>1, <2>2 DEF Types
  <2>4. TurnInv'
    BY <1>2, <1>9, <1>17, <2>1 DEF TurnInv
  <2>5. UsageInv'
    BY <1>2, <1>9, <2>1 DEF UsageInv, StreamInv
  <2>6. ShownInv'
    BY <1>2, <2>1 DEF ShownInv
  <2> QED
    BY <1>13, <2>3, <2>4, <2>5, <2>6 DEF StreamInv
<1> QED
  BY <1>1, <1>15, <1>16, <1>17


LEMMA EndStep ==
    ASSUME StreamInv, End
    PROVE  StreamInv'
<1>1. /\ mode.stream /\ reader.at = "reading"
      /\ UNCHANGED <<mode, up, digest, usage, body, search, blocks, fed, out>>
  BY DEF End, layers
<1>2. /\ mode \in Modes /\ reader \in Readers /\ usage = <<>>
      /\ mode.explicit => out = <<>> /\ life \in {"open", "committed"}
      /\ ~mode.explicit => life = "none"
  BY <1>1, Reading DEF StreamInv, Types
<1>3. mode.explicit \in BOOLEAN
  BY <1>2, ModesAre
<1>4. SearchInv'
  BY <1>1, SearchStays DEF StreamInv
<1>5. CASE life = "open" /\ Stands("failed") /\ life' = "uncertain"
  <2>1. reader' \in Readers /\ reader'.at = "failed" /\ reader'.acc = reader.acc
    BY <1>2, <1>5, StandsFacts DEF Places
  <2>2. Types'
    BY <1>1, <1>5, <2>1 DEF StreamInv, Types
  <2>3. TurnInv'
    BY <1>1, <1>2, <1>3, <1>5, <2>1 DEF TurnInv
  <2>4. UsageInv' /\ ShownInv'
    BY <1>1, <1>2, <2>1 DEF UsageInv, Counted, NamesFile, ShownInv, StreamInv
  <2> QED
    BY <1>4, <2>2, <2>3, <2>4 DEF StreamInv
<1>6. CASE life # "open" /\ Stands("counting") /\ UNCHANGED life
  <2>1. reader' \in Readers /\ reader'.at = "counting" /\ reader'.acc = reader.acc
    BY <1>2, <1>6, StandsFacts DEF Places
  <2>2. Types'
    BY <1>1, <1>6, <2>1 DEF StreamInv, Types
  <2>3. TurnInv'
    BY <1>1, <1>2, <1>6, <2>1 DEF TurnInv, StreamInv
  <2>4. UsageInv'
    BY <1>1, <1>2, <2>1 DEF UsageInv, Counted, NamesFile, StreamInv
  <2>5. ShownInv'
    BY <1>1, <2>1 DEF ShownInv, NamesFile, StreamInv
  <2> QED
    BY <1>4, <2>2, <2>3, <2>4, <2>5 DEF StreamInv
<1> QED
  BY <1>5, <1>6 DEF End

LEMMA BreakStep ==
    ASSUME StreamInv, Break
    PROVE  StreamInv'
<1>1. /\ reader.at = "reading" /\ Stands("failed")
      /\ life' = IF ~mode.stream /\ mode.explicit THEN "uncertain" ELSE life
      /\ UNCHANGED <<mode, up, digest, usage, body, search, blocks, fed, out>>
  BY DEF Break, layers
<1>2. /\ mode \in Modes /\ reader \in Readers /\ usage = <<>>
      /\ mode.explicit => out = <<>>
      /\ ~mode.explicit => life = "none"
  BY <1>1, Reading DEF StreamInv, Types
<1>3. reader' \in Readers /\ reader'.at = "failed" /\ reader'.acc = reader.acc
  BY <1>1, <1>2, StandsFacts DEF Places
<1>4. Types'
  BY <1>1, <1>3 DEF StreamInv, Types
<1>5. TurnInv'
  BY <1>1, <1>2, <1>3 DEF TurnInv, StreamInv
<1>6. UsageInv' /\ ShownInv'
  BY <1>1, <1>2, <1>3 DEF UsageInv, Counted, NamesFile, ShownInv, StreamInv
<1>7. SearchInv'
  BY <1>1, SearchStays DEF StreamInv
<1> QED
  BY <1>4, <1>5, <1>6, <1>7 DEF StreamInv

LEMMA CountStep ==
    ASSUME StreamInv, Count
    PROVE  StreamInv'
<1>1. /\ reader.at = "counting" /\ Stands("ended")
      /\ \E n \in Counts : usage' = IF mode.explicit THEN Append(usage, n) ELSE usage
      /\ UNCHANGED <<mode, up, life, digest, body, search, blocks, fed, out>>
  BY DEF Count, layers
<1>2. /\ mode \in Modes /\ reader \in Readers /\ usage = <<>>
      /\ mode.explicit => out = <<>> /\ life = "committed"
      /\ ~mode.explicit => life = "none"
  BY <1>1 DEF StreamInv, Types, TurnInv, UsageInv
<1>3. reader' \in Readers /\ reader'.at = "ended" /\ reader'.acc = reader.acc
  BY <1>1, <1>2, StandsFacts DEF Places
<1>4. PICK n \in Nat : /\ usage' = IF mode.explicit THEN <<n>> ELSE usage
                       /\ \/ n = Len(reader.acc)
                          \/ /\ ~mode.stream /\ NamesFile(reader.acc)
                             /\ n = Len(reader.acc) + Len(Links)
  <2>1. reader.acc \in Seq(Letters) /\ Links \in Seq(Letters)
    BY <1>2, PiecesAreTexts DEF Readers
  <2>2. /\ Len(reader.acc) \in Nat /\ Len(reader.acc) + Len(Links) \in Nat
        /\ Len(reader.acc \o Links) = Len(reader.acc) + Len(Links)
    BY <2>1
  <2> QED
    BY <1>1, <1>2, <2>2 DEF Counts
<1>5. usage' \in Seq(Nat) /\ Len(usage') <= 1 /\ (mode.explicit => Counted')
  BY <1>1, <1>2, <1>3, <1>4 DEF Counted, NamesFile
<1>6. Types'
  BY <1>1, <1>3, <1>5 DEF StreamInv, Types
<1>7. TurnInv'
  BY <1>1, <1>3 DEF TurnInv, StreamInv
<1>8. UsageInv'
  BY <1>1, <1>2, <1>3, <1>5 DEF UsageInv, Counted, NamesFile
<1>9. ShownInv'
  BY <1>1, <1>3 DEF ShownInv, NamesFile, StreamInv
<1>10. SearchInv'
  BY <1>1, SearchStays DEF StreamInv
<1> QED
  BY <1>6, <1>7, <1>8, <1>9, <1>10 DEF StreamInv

LEMMA LeaveStep ==
    ASSUME StreamInv, Leave
    PROVE  StreamInv'
<1>1. /\ reader.at # "gone" /\ Stands("gone") /\ body' = <<>>
      /\ life' = IF life = "open" /\ reader.at = "reading" THEN "uncertain" ELSE life
      /\ UNCHANGED <<mode, up, digest, usage, search, blocks, fed, out>>
  BY DEF Leave, layers
<1>2. mode \in Modes /\ reader \in Readers
  BY DEF StreamInv, Types
<1>3. reader' \in Readers /\ reader'.at = "gone" /\ reader'.acc = reader.acc
  BY <1>1, <1>2, StandsFacts DEF Places
<1>4. body' \in Seq(IF mode.stream THEN Streamed ELSE Entire)
  BY <1>1
<1>5. Types'
  BY <1>1, <1>3, <1>4 DEF StreamInv, Types
<1>6. TurnInv'
  BY <1>1, <1>3 DEF TurnInv, StreamInv
<1>7. UsageInv' /\ ShownInv'
  BY <1>1, <1>3 DEF UsageInv, Counted, NamesFile, ShownInv, StreamInv
<1>8. SearchInv'
  BY <1>1, SearchStays DEF StreamInv
<1> QED
  BY <1>5, <1>6, <1>7, <1>8 DEF StreamInv

\* An event of an answer that is read as a whole.
LEMMA WholeFacts ==
    ASSUME NEW s \in Seq(Letters)
    PROVE  Event("whole", 0, s) \in Entire /\ Event("whole", 0, s) \in Sent
           /\ Texts(<<Event("whole", 0, s)>>) = s
<1> DEFINE e == Event("whole", 0, s)
           T == Seq(Letters)
<1>1. e.type = "whole" /\ e.text = s /\ e = [type |-> "whole", index |-> 0, text |-> s] /\ s \in T
  BY DEF Event
<1>2. Entire = [type : {"whole"}, index : Int, text : T]
  BY DEF Entire
<1> HIDE DEF e, T
<1>3. e \in Entire
  BY <1>1, <1>2
<1>4. e \in Sent
  BY <1>3, Kinship
<1>5. Texts(<<e>>) = s
  BY <1>1, <1>4, TextsOne DEF TextOf
<1> QED
  BY <1>3, <1>4, <1>5 DEF e

LEMMA MergeStep ==
    ASSUME StreamInv, Merge
    PROVE  StreamInv'
<1> DEFINE text == IF NamesFile(reader.acc) THEN reader.acc \o Links ELSE reader.acc
           Reads == \E e \in {Mark("message_stop")} \cup {Event("completion", 0, s) : s \in Pieces} :
                      /\ Completes(e)
                      /\ reader' = Gathered(e)
                      /\ UNCHANGED <<life, digest, body>>
<1>1. ~mode.stream /\ reader.at = "reading" /\ UNCHANGED <<mode, usage, search, blocks, fed, out>>
  BY DEF Merge, layers
<1>2. /\ mode \in Modes /\ up \in Service /\ reader \in Readers /\ usage = <<>>
      /\ mode.explicit => out = <<>>
      /\ ~mode.explicit => life = "none"
      /\ body \in Seq(Entire) /\ body = <<>>
  BY <1>1, Reading DEF StreamInv, Types, ShownInv
<1>3. mode.explicit \in BOOLEAN
  BY <1>2, ModesAre
<1>4. SearchInv'
  BY <1>1, SearchStays DEF StreamInv
<1>5. reader.acc \in Seq(Letters) /\ text \in Seq(Letters)
  BY <1>2, PiecesAreTexts DEF Readers
<1> HIDE DEF text
<1>6. CASE Reads
  <2>1. PICK e \in {Mark("message_stop")} \cup {Event("completion", 0, s) : s \in Pieces} :
          Completes(e) /\ reader' = Gathered(e) /\ UNCHANGED <<life, digest, body>>
    BY <1>6
  <2>2. e.index \in Int /\ EventText(e) \in Seq(Letters)
    <3>1. <<>> \in Seq(Letters)
      OBVIOUS
    <3>2. CASE e = Mark("message_stop")
      BY <3>1, <3>2, EventParts DEF EventText
    <3>3. ASSUME NEW s \in Pieces, e = Event("completion", 0, s)
          PROVE  e.index \in Int /\ EventText(e) \in Seq(Letters)
      BY <3>3, EventParts, PiecesAreTexts DEF EventText
    <3> QED
      BY <3>2, <3>3
  <2>3. /\ up' \in Service /\ up.open # "after"
    BY <1>2, <2>1, CompletesFacts
  <2>4. reader' \in Readers /\ reader'.at = "reading"
    BY <1>1, <1>2, <2>1, <2>2, GatheredFacts
  <2>5. Types'
    BY <1>1, <2>1, <2>3, <2>4 DEF StreamInv, Types
  <2>6. TurnInv'
    BY <1>1, <2>1, <2>3, <2>4 DEF TurnInv, StreamInv
  <2>7. UsageInv' /\ ShownInv'
    BY <1>1, <1>2, <2>1, <2>4 DEF UsageInv, Counted, NamesFile, ShownInv
  <2> QED
    BY <1>4, <2>5, <2>6, <2>7 DEF StreamInv
<1>7. CASE /\ UNCHANGED <<up, digest, body>> /\ mode.explicit /\ Stands("failed")
           /\ life' = "uncertain" \/ UNCHANGED life
  <2>1. reader' \in Readers /\ reader'.at = "failed" /\ reader'.acc = reader.acc
    BY <1>2, <1>7, StandsFacts DEF Places
  <2>2. Types'
    BY <1>1, <1>7, <2>1 DEF StreamInv, Types
  <2>3. TurnInv'
    BY <1>1, <1>7, <2>1 DEF TurnInv, StreamInv
  <2>4. UsageInv' /\ ShownInv'
    BY <1>1, <1>2, <1>7, <2>1 DEF UsageInv, Counted, NamesFile, ShownInv
  <2> QED
    BY <1>4, <2>2, <2>3, <2>4 DEF StreamInv
<1>8. CASE /\ UNCHANGED up /\ (mode.explicit => up.open = "after") /\ Stands("counting")
           /\ body' = <<Event("whole", 0, text)>> /\ Settle(reader.acc)
  <2>1. reader' \in Readers /\ reader'.at = "counting" /\ reader'.acc = reader.acc
    BY <1>2, <1>8, StandsFacts DEF Places
  <2>2. body' \in Seq(Entire) /\ body' \in Seq(Sent) /\ Texts(body') = text
    BY <1>5, <1>8, WholeFacts
  <2>3. IF mode.explicit THEN life' = "committed" /\ digest' = reader.acc
        ELSE UNCHANGED <<life, digest>>
    BY <1>8 DEF Settle
  <2>4. Types'
    BY <1>1, <1>3, <1>8, <2>1, <2>2, <2>3 DEF StreamInv, Types
  <2>5. TurnInv'
    BY <1>1, <1>2, <1>3, <1>8, <2>1, <2>3 DEF TurnInv, StreamInv
  <2>6. UsageInv'
    BY <1>1, <1>2, <2>1 DEF UsageInv, Counted, NamesFile
  <2>7. ShownInv'
    <3> SUFFICES ASSUME mode.explicit, ~NamesFile(reader.acc)
                 PROVE  Texts(out) \o Texts(body') = reader.acc
      BY <1>1, <2>1 DEF ShownInv, NamesFile
    <3>1. Texts(out) = <<>> /\ Texts(body') = reader.acc
      BY <1>2, <2>2, TextsEmpty DEF text
    <3> QED
      BY <1>5, <3>1, ConcatEmptySeq
  <2> QED
    BY <1>4, <2>4, <2>5, <2>6, <2>7 DEF StreamInv
<1> QED
  BY <1>6, <1>7, <1>8 DEF Merge, text

\* The first event of a sequence and the rest of it.
LEMMA TextsFirst ==
    ASSUME NEW D, D \subseteq Sent, NEW s \in Seq(D), s # <<>>
    PROVE  /\ Head(s) \in D /\ Tail(s) \in Seq(D) /\ Tail(s) \in Seq(Sent)
           /\ Texts(s) = TextOf(Head(s)) \o Texts(Tail(s))
<1>1. Head(s) \in D /\ Tail(s) \in Seq(D) /\ s = <<Head(s)>> \o Tail(s)
  BY HeadTailProperties
<1>2. Head(s) \in Sent /\ Tail(s) \in Seq(Sent) /\ <<Head(s)>> \in Seq(Sent)
  BY <1>1, SeqMonotonic
<1>3. Texts(s) = Texts(<<Head(s)>>) \o Texts(Tail(s))
  BY <1>1, <1>2, TextsConcat
<1> QED
  BY <1>1, <1>2, <1>3, TextsOne

LEMMA TextsOfFour ==
    ASSUME NEW a \in Sent, NEW b \in Sent, NEW c \in Sent, NEW d \in Sent,
           TextOf(b) = <<>>, TextOf(c) = <<>>, TextOf(d) = <<>>
    PROVE  Texts(<<a, b, c, d>>) = TextOf(a)
<1>1. /\ <<a>> \in Seq(Sent) /\ <<a, b>> \in Seq(Sent) /\ <<a, b, c>> \in Seq(Sent)
      /\ <<a, b>> = Append(<<a>>, b) /\ <<a, b, c>> = Append(<<a, b>>, c)
      /\ <<a, b, c, d>> = Append(<<a, b, c>>, d)
  OBVIOUS
<1>2. TextOf(a) \in Seq(Letters) /\ TextOf(a) \o <<>> = TextOf(a)
  BY TextOfTyped, ConcatEmptySeq
<1>3. Texts(<<a, b>>) = TextOf(a)
  BY <1>1, <1>2, TextsOne, TextsNext
<1>4. Texts(<<a, b, c>>) = TextOf(a)
  BY <1>1, <1>2, <1>3, TextsNext
<1> QED
  BY <1>1, <1>2, <1>4, TextsNext

\* What the stop layer makes of an event of a stream.
LEMMA StoppedFacts ==
    ASSUME mode \in Modes, search \in Searches, ~search.hit, fed \in Seq(Letters),
           search.partial = Begun(fed), NoEnd(fed),
           NEW e \in Streamed, NEW u, u = fed \o EventText(e)
    PROVE  /\ Stopped(e).search \in Searches /\ Stopped(e).events \in Seq(Streamed)
           /\ ~Stopped(e).search.hit =>
                 /\ Texts(Stopped(e).events) = EventText(e)
                 /\ Stopped(e).search.partial = Begun(u)
                 /\ NoEnd(u)
           /\ Stopped(e).search.hit => \E m \in 1..Len(EventText(e)) :
                 /\ Texts(Stopped(e).events) = SubSeq(EventText(e), 1, m)
                 /\ EndsAt(u, Len(fed) + m)
                 /\ \A l \in 1..Len(fed) + m - 1 : ~EndsAt(u, l)
<1>1. e \in Sent /\ EventText(e) \in Seq(Letters) /\ EventText(e) = TextOf(e) /\ e.index \in Int
  BY Kinship, TextOfTyped DEF Streamed, Kinds, TextOf
<1>2. Texts(<<e>>) = EventText(e) /\ <<e>> \in Seq(Streamed)
  BY <1>1, TextsOne
<1>3. CASE e.type # "text" \/ mode.stops = {}
  <2>1. Stopped(e) = [events |-> <<e>>, search |-> search]
    BY <1>3 DEF Stopped
  <2>2. Begun(u) = Begun(fed) /\ NoEnd(u)
    <3>1. CASE e.type # "text"
      <4>1. EventText(e) = <<>>
        BY <3>1 DEF EventText, Streamed, Kinds
      <4>2. u = fed
        BY <4>1, ConcatEmptySeq
      <4> QED
        BY <4>2
    <3>2. CASE mode.stops = {}
      <4>1. NoEnd(u)
        BY <3>2 DEF NoEnd, EndsAt
      <4>2. ASSUME NEW t \in Seq(Letters) PROVE Begun(t) = {<<>>}
        <5>1. Ends(<<>>, t) /\ <<>> \in Seq(Letters)
          BY DEF Ends
        <5> QED
          BY <3>2, <5>1 DEF Begun
      <4>3. u \in Seq(Letters)
        BY <1>1
      <4> QED
        BY <4>1, <4>2, <4>3
    <3> QED
      BY <1>3, <3>1, <3>2
  <2> QED
    BY <1>2, <2>1, <2>2
<1>4. CASE e.type = "text" /\ mode.stops # {}
  <2> DEFINE found == Search(e.text)
             text == e.text
             n == Len(fed)
             cut == TextDelta(e.index, found.passed)
             ends == Event("block_stop", e.index, <<>>)
             last == Mark("message_delta")
             over == Mark("message_stop")
             four == <<cut, ends, last, over>>
  <2>1. text = EventText(e) /\ text \in Seq(Letters)
    BY <1>1, <1>4 DEF EventText
  <2>2. FoundAfter(found, u, n, text, Len(text))
    BY <2>1, SearchFinds
  <2>3. /\ Stopped(e).search = found
        /\ Stopped(e).events = IF ~found.hit THEN <<e>> ELSE four
    BY <1>4 DEF Stopped
  <2>4. found \in Searches
    BY <2>2 DEF FoundAfter
  <2>5. found.passed \in Seq(Letters)
    BY <2>4 DEF Searches
  <2> HIDE DEF found, text
  <2>6. /\ cut \in Streamed /\ ends \in Streamed /\ last \in Streamed /\ over \in Streamed
        /\ TextOf(cut) = found.passed
        /\ TextOf(ends) = <<>> /\ TextOf(last) = <<>> /\ TextOf(over) = <<>>
    <3>1. {"text", "block_stop", "message_delta", "message_stop"} \subseteq Kinds /\ 0 \in Int
          /\ <<>> \in Seq(Letters)
      BY DEF Kinds
    <3>2. /\ cut = Event("text", e.index, found.passed)
          /\ last = Event("message_delta", 0, <<>>) /\ over = Event("message_stop", 0, <<>>)
      BY EventParts
    <3> HIDE DEF cut, last, over
    <3>3. cut \in Streamed /\ last \in Streamed
      BY <1>1, <2>5, <3>1, <3>2, StreamedEvents
    <3>4. ends \in Streamed /\ over \in Streamed
      BY <1>1, <3>1, <3>2, StreamedEvents
    <3> USE DEF cut, last, over
    <3>5. TextOf(cut) = found.passed
      BY EventParts DEF TextOf, EventText
    <3>6. TextOf(ends) = <<>> /\ TextOf(last) = <<>> /\ TextOf(over) = <<>>
      BY EventParts DEF TextOf, EventText
    <3> QED
      BY <3>3, <3>4, <3>5, <3>6
  <2> HIDE DEF cut, ends, last, over
  <2>7. four \in Seq(Streamed) /\ Texts(four) = found.passed
    BY <2>6, Kinship, TextsOfFour
  <2>8. Stopped(e).events \in Seq(Streamed)
    BY <1>2, <2>3, <2>7
  <2> HIDE DEF four
  <2>9. CASE ~found.hit
    <3>1. FoundNothing(found, u, n, text, Len(text))
      BY <2>2, <2>9 DEF FoundAfter
    <3>2. n + Len(text) = Len(u) /\ SubSeq(u, 1, Len(u)) = u
      BY <2>1, SubSeqFull
    <3>3. found.partial = Begun(u) /\ NoEnd(u)
      BY <3>1, <3>2 DEF FoundNothing, NoEnd
    <3> QED
      BY <1>2, <2>3, <2>4, <2>8, <2>9, <3>3
  <2>10. CASE found.hit
    <3>1. PICK m \in 1..Len(text) : FoundAt(found, u, n, text, m)
      BY <2>2, <2>10 DEF FoundAfter
    <3>2. Texts(Stopped(e).events) = SubSeq(text, 1, m)
      BY <2>3, <2>7, <2>10, <3>1 DEF FoundAt
    <3> QED
      BY <2>1, <2>3, <2>4, <2>8, <2>10, <3>1, <3>2 DEF FoundAt
  <2> QED
    BY <2>9, <2>10
<1> QED
  BY <1>3, <1>4

LEMMA PrefixOfConcat ==
    ASSUME NEW D, NEW s \in Seq(D), NEW t \in Seq(D), NEW m \in 1..Len(t)
    PROVE  s \o SubSeq(t, 1, m) = SubSeq(s \o t, 1, Len(s) + m)
<1> DEFINE u == s \o t
           p == SubSeq(t, 1, m)
           a == s \o p
           b == SubSeq(u, 1, Len(s) + m)
<1>0. PICK n \in Nat : n = Len(s)
  OBVIOUS
<1>1. u \in Seq(D) /\ Len(u) = Len(s) + Len(t)
      /\ \A i \in 1..Len(s) + Len(t) : u[i] = IF i <= Len(s) THEN s[i] ELSE t[i - Len(s)]
  BY ConcatProperties
<1>2. p \in Seq(D) /\ Len(p) = m /\ \A i \in 1..m : p[i] = t[i]
  OBVIOUS
<1> HIDE DEF u, p
<1>3. a \in Seq(D) /\ Len(a) = Len(s) + m
      /\ \A i \in 1..Len(s) + m : a[i] = IF i <= Len(s) THEN s[i] ELSE p[i - Len(s)]
  BY <1>2, ConcatProperties
<1>4. b \in Seq(D) /\ Len(b) = Len(s) + m /\ \A i \in 1..Len(s) + m : b[i] = u[i]
  BY <1>1
<1> HIDE DEF a, b
<1>5. ASSUME NEW i \in 1..Len(s) + m PROVE a[i] = b[i]
  <2>1. PICK j \in Nat : j = i
    BY <1>0
  <2>2. CASE j <= n
    BY <1>0, <1>1, <1>3, <1>4, <2>1, <2>2
  <2>3. CASE j > n
    <3>1. j - n \in 1..m /\ j \in 1..n + Len(t) /\ j \in 1..n + m
      BY <1>0, <2>1, <2>3
    <3>2. a[j] = p[j - n] /\ p[j - n] = t[j - n]
      BY <1>0, <1>2, <1>3, <2>3, <3>1
    <3>3. b[j] = u[j] /\ u[j] = t[j - n]
      BY <1>0, <1>1, <1>4, <2>3, <3>1
    <3> QED
      BY <2>1, <3>2, <3>3
  <2> QED
    BY <2>2, <2>3
<1>6. a = b
  BY <1>3, <1>4, <1>5, SeqEqual
<1> QED
  BY <1>6 DEF a, b, u, p

\* What the layers make of one event, for the client.
LEMMA DeliveredFacts ==
    ASSUME StreamInv, Deliver
    PROVE  \E e, x : /\ body # <<>> /\ e = Head(body) /\ x \in Seq(Sent)
                     /\ out' = out \o x
                     /\ search' = Stopped(e).search
                     /\ blocks' \in BlockStates
                     /\ mode.stream => Texts(x) = Texts(Stopped(e).events)
                     /\ ~mode.stream => search' = search /\ Texts(x) = TextOf(e)
<1> DEFINE e == Head(body)
           s == Stopped(e)
           n == NormalizedAll(s.events)
<1>1. /\ mode \in Modes /\ search \in Searches /\ blocks \in BlockStates /\ fed \in Seq(Letters)
      /\ body \in Seq(IF mode.stream THEN Streamed ELSE Entire) /\ out \in Seq(Sent)
  BY DEF StreamInv, Types
<1>2. /\ body # <<>> /\ ~search.hit /\ search' = s.search
      /\ IF mode.api = "openai" \/ ~mode.stream
         THEN /\ out' = out \o (IF mode.stream THEN Converted(s.events) ELSE s.events)
              /\ UNCHANGED blocks
         ELSE out' = out \o n.events /\ blocks' = [n EXCEPT !.events = <<>>]
  BY DEF Deliver, Readable
<1>3. CASE mode.stream
  <2>1. body \in Seq(Streamed)
    BY <1>1, <1>3
  <2>2. e \in Streamed
    BY <1>2, <2>1, HeadTailProperties
  <2>3. search.partial = Begun(fed) /\ NoEnd(fed)
    BY <1>2, <1>3 DEF StreamInv, SearchInv
  <2> HIDE DEF e
  <2>4. s.events \in Seq(Streamed)
    BY <1>1, <1>2, <2>2, <2>3, StoppedFacts
  <2> HIDE DEF s
  <2>5. Converted(s.events) \in Seq(Sent) /\ Texts(Converted(s.events)) = Texts(s.events)
    BY <2>4, ConvertedTexts
  <2>6. n \in BlockStates /\ Texts(n.events) = Texts(s.events)
    BY <1>1, <2>4, NormalizedTexts
  <2> HIDE DEF n
  <2>7. n.events \in Seq(Sent) /\ [n EXCEPT !.events = <<>>] \in BlockStates
    BY <2>6, Cleared DEF BlockStates
  <2>8. CASE mode.api = "openai"
    <3>1. out' = out \o Converted(s.events) /\ blocks' = blocks
      BY <1>2, <1>3, <2>8
    <3> QED
      BY <1>1, <1>2, <1>3, <2>5, <3>1 DEF s, e
  <2>9. CASE mode.api # "openai"
    <3>1. out' = out \o n.events /\ blocks' = [n EXCEPT !.events = <<>>]
      BY <1>2, <1>3, <2>9
    <3> QED
      BY <1>2, <1>3, <2>6, <2>7, <3>1 DEF s, e
  <2> QED
    BY <2>8, <2>9
<1>4. CASE ~mode.stream
  <2>1. body \in Seq(Entire)
    BY <1>1, <1>4
  <2>2. e \in Entire /\ e \in Sent
    BY <1>2, <2>1, HeadTailProperties, Kinship
  <2>3. e.type = "whole"
    BY <2>2 DEF Entire
  <2> HIDE DEF e
  <2>4. s = [events |-> <<e>>, search |-> search]
    BY <2>3 DEF Stopped
  <2>5. out' = out \o <<e>> /\ search' = search /\ blocks' = blocks
    BY <1>2, <1>4, <2>4
  <2>6. <<e>> \in Seq(Sent) /\ Texts(<<e>>) = TextOf(e)
    BY <2>2, TextsOne
  <2> QED
    BY <1>1, <1>2, <1>4, <2>5, <2>6 DEF s, e
<1> QED
  BY <1>3, <1>4

LEMMA DeliverStep ==
    ASSUME StreamInv, Deliver
    PROVE  StreamInv'
<1>1. PICK e, x : /\ body # <<>> /\ e = Head(body) /\ x \in Seq(Sent)
                  /\ out' = out \o x
                  /\ search' = Stopped(e).search
                  /\ blocks' \in BlockStates
                  /\ mode.stream => Texts(x) = Texts(Stopped(e).events)
                  /\ ~mode.stream => search' = search /\ Texts(x) = TextOf(e)
  BY DeliveredFacts
<1>2. /\ ~search.hit /\ reader.at # "gone"
      /\ mode.explicit \/ ~mode.stream => reader.at = "ended"
      /\ fed' = fed \o EventText(e)
      /\ IF search'.hit
         THEN /\ body' = <<>>
              /\ IF reader.at = "reading" THEN Stands("gone") ELSE UNCHANGED reader
         ELSE body' = Tail(body) /\ UNCHANGED reader
      /\ UNCHANGED <<mode, up, life, digest, usage>>
  BY <1>1 DEF Deliver, Readable
<1>3. /\ mode \in Modes /\ reader \in Readers /\ usage \in Seq(Nat) /\ search \in Searches
      /\ body \in Seq(IF mode.stream THEN Streamed ELSE Entire)
      /\ fed \in Seq(Letters) /\ out \in Seq(Sent)
  BY DEF StreamInv, Types
<1>4. mode.explicit \in BOOLEAN /\ mode.stream \in BOOLEAN
  BY <1>3, ModesAre
<1> DEFINE D == IF mode.stream THEN Streamed ELSE Entire
<1>5. D \subseteq Sent
  BY Kinship
<1>6. e \in D /\ Tail(body) \in Seq(D) /\ Texts(body) = TextOf(e) \o Texts(Tail(body))
      /\ Tail(body) \in Seq(Sent)
  <2> HIDE DEF D
  <2>1. body \in Seq(D)
    BY <1>3 DEF D
  <2> QED
    BY <1>1, <1>5, <2>1, TextsFirst
<1>7. e \in Sent /\ EventText(e) \in Seq(Letters) /\ TextOf(e) \in Seq(Letters)
  BY <1>5, <1>6, TextOfTyped
<1>8. Texts(out') = Texts(out) \o Texts(x) /\ out' \in Seq(Sent) /\ fed' \in Seq(Letters)
  BY <1>1, <1>2, <1>3, <1>7, TextsConcat
<1>9. mode.stream =>
        /\ search' \in Searches
        /\ TextOf(e) = EventText(e)
        /\ ~search'.hit => /\ Texts(x) = EventText(e)
                           /\ search'.partial = Begun(fed \o EventText(e))
                           /\ NoEnd(fed \o EventText(e))
        /\ search'.hit => \E m \in 1..Len(EventText(e)) :
              /\ Texts(x) = SubSeq(EventText(e), 1, m)
              /\ EndsAt(fed \o EventText(e), Len(fed) + m)
              /\ \A l \in 1..Len(fed) + m - 1 : ~EndsAt(fed \o EventText(e), l)
  <2> SUFFICES ASSUME mode.stream PROVE <1>9!2
    OBVIOUS
  <2>1. e \in Streamed
    BY <1>6
  <2>2. search.partial = Begun(fed) /\ NoEnd(fed)
    BY <1>2 DEF StreamInv, SearchInv
  <2>3. TextOf(e) = EventText(e)
    BY <2>1 DEF TextOf, Streamed, Kinds
  <2>4. PICK u : u = fed \o EventText(e)
    OBVIOUS
  <2>5. /\ Stopped(e).search \in Searches /\ Stopped(e).events \in Seq(Streamed)
        /\ ~Stopped(e).search.hit =>
              /\ Texts(Stopped(e).events) = EventText(e)
              /\ Stopped(e).search.partial = Begun(u)
              /\ NoEnd(u)
        /\ Stopped(e).search.hit => \E m \in 1..Len(EventText(e)) :
              /\ Texts(Stopped(e).events) = SubSeq(EventText(e), 1, m)
              /\ EndsAt(u, Len(fed) + m)
              /\ \A l \in 1..Len(fed) + m - 1 : ~EndsAt(u, l)
    BY <1>2, <1>3, <2>1, <2>2, <2>4, StoppedFacts
  <2> QED
    BY <1>1, <2>3, <2>4, <2>5
<1>10. ~search'.hit => Texts(x) = TextOf(e)
  BY <1>1, <1>4, <1>9
<1>11. /\ reader' \in Readers /\ reader'.acc = reader.acc
       /\ reader'.at = reader.at \/ (reader.at = "reading" /\ reader'.at = "gone")
  <2>1. CASE Stands("gone") /\ reader.at = "reading"
    BY <1>3, <2>1, StandsFacts DEF Places
  <2>2. CASE UNCHANGED reader
    BY <1>3, <2>2
  <2> QED
    BY <1>2, <2>1, <2>2
<1>12. body' \in Seq(D)
  <2>1. CASE body' = <<>>
    BY <2>1
  <2>2. CASE body' = Tail(body)
    BY <1>6, <2>2
  <2> QED
    BY <1>2, <2>1, <2>2
<1>13. Types'
  <2>1. search' \in Searches
    BY <1>1, <1>3, <1>4, <1>9
  <2> QED
    BY <1>1, <1>2, <1>8, <1>11, <1>12, <2>1 DEF Types, StreamInv
<1> HIDE DEF D
<1>14. TurnInv'
  BY <1>2, <1>4, <1>11 DEF TurnInv, StreamInv
<1>15. UsageInv'
  BY <1>2, <1>4, <1>11 DEF UsageInv, Counted, NamesFile, TurnInv, StreamInv
<1>16. ShownInv'
  <2>1. ~mode.stream => reader.at = "ended"
    BY <1>2
  <2>2. ASSUME mode.explicit, ~search'.hit, ~NamesFile(reader.acc)
        PROVE  Texts(out') \o Texts(body') = reader.acc
    <3>1. Texts(out) \o Texts(body) = reader.acc
      BY <1>2, <2>2 DEF ShownInv, StreamInv
    <3>2. body' = Tail(body) /\ Texts(x) = TextOf(e)
      BY <1>2, <1>10, <2>2
    <3>3. Texts(out) \in Seq(Letters) /\ Texts(Tail(body)) \in Seq(Letters)
      BY <1>3, <1>6, TextsTyped
    <3>4. (Texts(out) \o TextOf(e)) \o Texts(Tail(body))
              = Texts(out) \o (TextOf(e) \o Texts(Tail(body)))
      BY ONLY <1>7, <3>3, Regrouped
    <3> QED
      BY <1>6, <1>8, <3>1, <3>2, <3>4
  <2> QED
    BY <1>2, <1>11, <2>1, <2>2 DEF ShownInv, NamesFile
<1>17. SearchInv'
  <2> SUFFICES ASSUME mode.stream PROVE SearchInv'
    BY <1>2 DEF SearchInv
  <2>0. PICK u \in Seq(Letters) : u = fed \o EventText(e) /\ u = fed'
    BY <1>2, <1>8
  <2>1. CASE ~search'.hit
    <3>1. Texts(out') = u
      BY <1>2, <1>8, <1>9, <2>0, <2>1 DEF SearchInv, StreamInv
    <3>2. search'.partial = Begun(u) /\ NoEnd(u)
      BY <1>9, <2>0, <2>1
    <3>3. (Begun(fed))' = Begun(u) /\ ((NoEnd(fed))' <=> NoEnd(u))
      BY <1>2, <2>0 DEF Begun, NoEnd, EndsAt
    <3> QED
      BY <2>0, <2>1, <3>1, <3>2, <3>3 DEF SearchInv
  <2>2. CASE search'.hit
    <3>1. PICK m \in 1..Len(EventText(e)) :
              /\ Texts(x) = SubSeq(EventText(e), 1, m)
              /\ EndsAt(u, Len(fed) + m)
              /\ \A l \in 1..Len(fed) + m - 1 : ~EndsAt(u, l)
      BY <1>9, <2>0, <2>2
    <3>2. PICK k \in Nat : k = Len(fed) + m
      BY <1>3
    <3>3. k \in 1..Len(u)
      <4>1. PICK n \in Nat : n = Len(fed)
        BY <1>3
      <4>2. PICK l \in Nat : l = Len(EventText(e))
        BY <1>7
      <4>3. Len(u) = n + l
        BY <1>3, <1>7, <2>0, <4>1, <4>2, ConcatParts
      <4> QED
        BY <3>2, <4>1, <4>2, <4>3
    <3>4. Texts(out') = SubSeq(u, 1, k)
      <4>1. Texts(out) = fed
        BY <1>2 DEF SearchInv, StreamInv
      <4>2. fed \o SubSeq(EventText(e), 1, m) = SubSeq(fed \o EventText(e), 1, Len(fed) + m)
        BY <1>3, <1>7, PrefixOfConcat
      <4> QED
        BY <1>8, <2>0, <3>1, <3>2, <4>1, <4>2
    <3>5. \A l : (EndsAt(fed, l))' <=> EndsAt(u, l)
      BY <1>2, <2>0 DEF EndsAt
    <3>6. EndsAt(u, k) /\ \A l \in 1..k - 1 : ~EndsAt(u, l)
      BY <3>1, <3>2
    <3> QED
      BY <1>2, <2>0, <2>2, <3>3, <3>4, <3>5, <3>6 DEF SearchInv
  <2> QED
    BY <2>1, <2>2
<1> QED
  BY <1>13, <1>14, <1>15, <1>16, <1>17 DEF StreamInv

LEMMA InitStream ==
    ASSUME Init
    PROVE  StreamInv
<1>1. mode \in Modes /\ mode.explicit \in BOOLEAN /\ mode.stream \in BOOLEAN
  BY ModesAre DEF Init
<1>2. <<>> \in Seq(Letters) /\ <<>> \in Seq(Nat) /\ <<>> \in Seq(Sent)
      /\ <<>> \in Seq(IF mode.stream THEN Streamed ELSE Entire)
  OBVIOUS
<1>3. search.partial = {<<>>} /\ search.passed = <<>> /\ search.hit = FALSE /\ search \in Searches
  BY <1>2 DEF Init, Searching, Searches
<1>4. blocks \in BlockStates
  BY <1>2 DEF Init, BlockStates
<1>5. up \in Service
  BY DEF Init, Service
<1>6. reader \in Readers /\ reader.at = "reading" /\ reader.acc = <<>>
  BY <1>2 DEF Init, Readers, Places, NoBlock
<1>7. Types
  BY <1>1, <1>2, <1>3, <1>4, <1>5, <1>6 DEF Types, Init
<1>8. TurnInv
  BY <1>6 DEF TurnInv, Init
<1>9. UsageInv
  BY <1>6 DEF UsageInv, Counted, NamesFile, Init
<1>10. ShownInv
  <2>1. Texts(out) \o Texts(body) = reader.acc
    BY <1>6, TextsEmpty DEF Init
  <2>2. body = <<>>
    BY DEF Init
  <2> QED
    BY <2>1, <2>2 DEF ShownInv
<1>11. SearchInv
  <2>1. fed = <<>> /\ Texts(out) = <<>>
    BY TextsEmpty DEF Init
  <2>2. NoEnd(<<>>)
    BY DEF NoEnd
  <2>3. Begun(<<>>) = {<<>>}
    <3>1. \A p \in Seq(Letters) : Ends(p, <<>>) <=> p = <<>>
      BY DEF Ends
    <3> QED
      BY <1>2, <3>1 DEF Begun
  <2> QED
    BY <1>3, <2>1, <2>2, <2>3 DEF SearchInv
<1> QED
  BY <1>7, <1>8, <1>9, <1>10, <1>11 DEF StreamInv

LEMMA UnchangedStream ==
    ASSUME StreamInv, UNCHANGED vars
    PROVE  StreamInv'
BY DEF StreamInv, Types, TurnInv, UsageInv, Counted, ShownInv, NamesFile, SearchInv, Begun, NoEnd, EndsAt, vars

-----------------------------------------------------------------------------
(* The theorems                                                            *)

\* The invariant holds of every behaviour.
THEOREM Invariance == Spec => []StreamInv
<1>1. StreamInv /\ [Next]_vars => StreamInv'
  BY ReceiveStep, EndStep, BreakStep, CountStep, MergeStep, DeliverStep, LeaveStep, UnchangedStream
     DEF Next
<1> QED
  BY InitStream, <1>1, PTL DEF Spec

\* The client of a session is sent nothing of an answer before the session's
\* turn is committed, and the turn is committed only when the service has ended
\* its message, with the whole text of it (settle before the yield of
\* message_stop in transform_response, and what materialize_explicit_response
\* holds back).
THEOREM AnsweredFromCommit == Spec => []AnsweredIsCommitted
<1>1. StreamInv => AnsweredIsCommitted
  BY DEF StreamInv, TurnInv, UsageInv, AnsweredIsCommitted
<1> QED
  BY Invariance, <1>1, PTL

\* The tokens of a session's answer are counted once and before the client is
\* sent any of it (the persist of usage at the end of transform_response).
THEOREM OutputIsCounted == Spec => []CountedOnce
<1>1. StreamInv => CountedOnce
  BY DEF StreamInv, UsageInv, Counted, CountedOnce
<1> QED
  BY Invariance, <1>1, PTL

\* When its client has the whole of it, the text of a session's answer is the
\* text that its turn was committed with, whichever layers it passed, unless
\* links were added or a stop sequence cut it off.
THEOREM TurnsAreAsShown == Spec => []RecordedAsShown
<1>1. ASSUME StreamInv PROVE RecordedAsShown
  <2> SUFFICES ASSUME mode.explicit, out # <<>>, body = <<>>, reader.at = "ended",
                      ~search.hit, ~NamesFile(reader.acc)
               PROVE  Texts(out) = digest
    BY DEF RecordedAsShown, Shown
  <2>1. Texts(out) \o Texts(body) = reader.acc
    BY <1>1 DEF StreamInv, ShownInv
  <2>2. Texts(body) = <<>> /\ Texts(out) \in Seq(Letters)
    BY <1>1, TextsEmpty, TextsTyped DEF StreamInv, Types
  <2>3. Texts(out) = reader.acc
    BY <2>1, <2>2, ConcatEmptySeq
  <2>4. digest = reader.acc
    BY <1>1 DEF StreamInv, TurnInv
  <2> QED
    BY <2>3, <2>4
<1> QED
  BY Invariance, <1>1, PTL

\* What a streaming client is shown of an answer is the text that the stop layer
\* has read up to the first place where a stop sequence ends, in whatever pieces
\* the service sends it and with whatever stop sequences (stop_stream).
THEOREM StopsAtFirst == Spec => []ShownUpToFirstStop
<1>1. ASSUME StreamInv PROVE ShownUpToFirstStop
  <2> SUFFICES ASSUME mode.stream PROVE Texts(out) = UpToFirstStop(fed)
    BY DEF ShownUpToFirstStop, Shown
  <2> DEFINE ends == {k \in DOMAIN fed : EndsAt(fed, k)}
  <2>1. fed \in Seq(Letters) /\ search.hit \in BOOLEAN
    BY <1>1 DEF StreamInv, Types, Searches
  <2>2. DOMAIN fed = 1..Len(fed) /\ Len(fed) \in Nat
    BY <2>1
  <2>3. CASE ~search.hit
    <3>1. Texts(out) = fed /\ NoEnd(fed)
      BY <1>1, <2>3 DEF StreamInv, SearchInv
    <3>2. ends = {}
      BY <2>2, <3>1 DEF NoEnd
    <3> QED
      BY <3>1, <3>2 DEF UpToFirstStop
  <2>4. CASE search.hit
    <3>1. PICK k \in 1..Len(fed) : /\ EndsAt(fed, k)
                                   /\ \A l \in 1..k - 1 : ~EndsAt(fed, l)
                                   /\ Texts(out) = SubSeq(fed, 1, k)
      BY <1>1, <2>4 DEF StreamInv, SearchInv
    <3>2. k \in ends
      BY <2>2, <3>1
    <3>3. \A l \in ends : l \in 1..Len(fed) /\ k <= l
      <4>1. \A l \in ends : l \in 1..Len(fed) /\ ~(l \in 1..k - 1)
        BY <2>2, <3>1
      <4> QED
        BY <4>1
    <3>4. (CHOOSE j \in ends : \A l \in ends : j <= l) = k
      <4>1. \A j \in ends : (\A l \in ends : j <= l) => j = k
        <5> HIDE DEF ends
        <5> QED
          BY <3>2, <3>3
      <4> HIDE DEF ends
      <4> QED
        BY <3>2, <3>3, <4>1
    <3> QED
      BY <3>1, <3>2, <3>4 DEF UpToFirstStop
  <2> QED
    BY <2>1, <2>3, <2>4
<1> QED
  BY Invariance, <1>1, PTL

-----------------------------------------------------------------------------
(* Well-formed streams                                                     *)

StartKinds == {"text_start", "thinking_start"}
StartsIn(o, i) == {j \in DOMAIN o : o[j].index = i /\ o[j].type \in StartKinds}
StopsIn(o, i) == {j \in DOMAIN o : o[j].index = i /\ o[j].type = "block_stop"}

\* What WellFormed says of one event, for any events o.
FormedAt(o, j) ==
    /\ o[j].type \in StartKinds =>
          /\ StartsIn(o, o[j].index) = {j}
          /\ \A i \in Int, k \in 1..j - 1 : k \in StartsIn(o, i) => \E l \in StopsIn(o, i) : l < j
    /\ o[j].type \in {"text", "thinking", "block_stop"} =>
          /\ \E k \in StartsIn(o, o[j].index) : k < j
          /\ \A k \in StopsIn(o, o[j].index) : k >= j
    /\ o[j].type = "message_stop" =>
          /\ j = Len(o)
          /\ \A i \in Int : StartsIn(o, i) # {} => StopsIn(o, i) # {}
Formed(o) == \A j \in DOMAIN o : FormedAt(o, j)

\* The blocks of o are those before n and, if open, block n, which has not stopped.
Begins(o, n, open) == \A i \in Int : StartsIn(o, i) # {} <=> i \in 0..n - 1 \/ (open /\ i = n)
Finishes(o, n) == \A i \in Int : StopsIn(o, i) # {} <=> i \in 0..n - 1
Ended(o) == \E j \in DOMAIN o : o[j].type = "message_stop"
StandsAt(o, n, open) == Formed(o) /\ Begins(o, n, open) /\ Finishes(o, n)

\* p is o with e at place m.
Extended(o, e, p, m) ==
    /\ p \in Seq(Sent) /\ DOMAIN p = 1..m /\ DOMAIN o = 1..m - 1 /\ m \in Nat
    /\ Len(p) = m /\ p[m] = e /\ \A j \in 1..m - 1 : p[j] = o[j]
    /\ \A i : IF e.index = i /\ e.type \in StartKinds
              THEN StartsIn(p, i) = StartsIn(o, i) \cup {m} ELSE StartsIn(p, i) = StartsIn(o, i)
    /\ \A i : IF e.index = i /\ e.type = "block_stop"
              THEN StopsIn(p, i) = StopsIn(o, i) \cup {m} ELSE StopsIn(p, i) = StopsIn(o, i)

LEMMA Appended ==
    ASSUME NEW o \in Seq(Sent), NEW e \in Sent
    PROVE  Extended(o, e, Append(o, e), Len(o) + 1)
<1> DEFINE p == Append(o, e)
           m == Len(o) + 1
<1>1. /\ p \in Seq(Sent) /\ Len(p) = m /\ m \in Nat /\ p[m] = e /\ \A j \in 1..Len(o) : p[j] = o[j]
      /\ DOMAIN o = 1..Len(o) /\ Len(o) = m - 1 /\ DOMAIN p = 1..m
  BY AppendProperties
<1> HIDE DEF p, m
<1>2. \A j : j \in 1..m <=> j \in 1..m - 1 \/ j = m
  BY <1>1
<1>3. ~(m \in 1..m - 1)
  BY <1>1
<1>4. ASSUME NEW i
      PROVE  /\ IF e.index = i /\ e.type \in StartKinds
                THEN StartsIn(p, i) = StartsIn(o, i) \cup {m} ELSE StartsIn(p, i) = StartsIn(o, i)
             /\ IF e.index = i /\ e.type = "block_stop"
                THEN StopsIn(p, i) = StopsIn(o, i) \cup {m} ELSE StopsIn(p, i) = StopsIn(o, i)
  <2>1. \A j : j \in StartsIn(p, i) <=>
              j \in StartsIn(o, i) \/ (j = m /\ e.index = i /\ e.type \in StartKinds)
    BY <1>1, <1>2, <1>3 DEF StartsIn
  <2>2. \A j : j \in StopsIn(p, i) <=>
              j \in StopsIn(o, i) \/ (j = m /\ e.index = i /\ e.type = "block_stop")
    BY <1>1, <1>2, <1>3 DEF StopsIn
  <2>3. e.index = i /\ e.type \in StartKinds => StartsIn(p, i) = StartsIn(o, i) \cup {m}
    BY ONLY <2>1
  <2>4. ~(e.index = i /\ e.type \in StartKinds) => StartsIn(p, i) = StartsIn(o, i)
    BY ONLY <2>1
  <2>5. e.index = i /\ e.type = "block_stop" => StopsIn(p, i) = StopsIn(o, i) \cup {m}
    BY ONLY <2>2
  <2>6. ~(e.index = i /\ e.type = "block_stop") => StopsIn(p, i) = StopsIn(o, i)
    BY ONLY <2>2
  <2> QED
    BY <2>3, <2>4, <2>5, <2>6
<1> QED
  BY <1>1, <1>4 DEF Extended, p, m

\* An event that comes later takes nothing from the form of those before it.
LEMMA FormedBefore ==
    ASSUME NEW o, NEW e, NEW p, NEW m, Extended(o, e, p, m), NEW j \in 1..m - 1, FormedAt(o, j),
           o[j].type # "message_stop",
           e.type \in StartKinds => StartsIn(o, e.index) = {}
    PROVE  FormedAt(p, j)
<1>1. /\ p \in Seq(Sent) /\ DOMAIN p = 1..m /\ DOMAIN o = 1..m - 1 /\ m \in Nat
      /\ Len(p) = m /\ p[m] = e /\ \A k \in 1..m - 1 : p[k] = o[k]
      /\ \A i : IF e.index = i /\ e.type \in StartKinds
                THEN StartsIn(p, i) = StartsIn(o, i) \cup {m} ELSE StartsIn(p, i) = StartsIn(o, i)
      /\ \A i : IF e.index = i /\ e.type = "block_stop"
                THEN StopsIn(p, i) = StopsIn(o, i) \cup {m} ELSE StopsIn(p, i) = StopsIn(o, i)
  BY DEF Extended
<1>2. p[j] = o[j] /\ j \in Nat /\ j < m
  BY <1>1
<1>3. CASE o[j].type \in StartKinds
  <2>1. /\ StartsIn(o, o[j].index) = {j}
        /\ \A i \in Int, k \in 1..j - 1 : k \in StartsIn(o, i) => \E l \in StopsIn(o, i) : l < j
    BY <1>3 DEF FormedAt
  <2>2. ~(e.index = o[j].index /\ e.type \in StartKinds)
    BY <2>1
  <2>3. StartsIn(p, o[j].index) = {j}
    BY <1>1, <2>1, <2>2
  <2>4. ASSUME NEW i \in Int, NEW k \in 1..j - 1, k \in StartsIn(p, i)
        PROVE  \E l \in StopsIn(p, i) : l < j
    <3>1. k # m
      BY <1>2
    <3>2. k \in StartsIn(o, i)
      BY <1>1, <2>4, <3>1
    <3> QED
      BY <1>1, <2>1, <3>2
  <2> QED
    BY <1>2, <1>3, <2>3, <2>4 DEF FormedAt, StartKinds
<1>4. CASE o[j].type \in {"text", "thinking", "block_stop"}
  <2>1. /\ \E k \in StartsIn(o, o[j].index) : k < j
        /\ \A k \in StopsIn(o, o[j].index) : k >= j
    BY <1>4 DEF FormedAt
  <2>2. \E k \in StartsIn(p, o[j].index) : k < j
    BY <1>1, <2>1
  <2>3. \A k \in StopsIn(p, o[j].index) : k >= j
    BY <1>1, <1>2, <2>1
  <2> QED
    BY <1>2, <1>4, <2>2, <2>3 DEF FormedAt, StartKinds
<1>5. CASE o[j].type \notin StartKinds \cup {"text", "thinking", "block_stop"}
  BY <1>2, <1>5 DEF FormedAt
<1> QED
  BY <1>3, <1>4, <1>5

\* One more event.
LEMMA FormedNext ==
    ASSUME NEW o \in Seq(Sent), NEW n \in Nat, NEW open \in BOOLEAN, StandsAt(o, n, open),
           ~Ended(o), NEW e \in Sent, NEW p, p = Append(o, e)
    PROVE  /\ e.type \in StartKinds /\ e.index = n /\ ~open => StandsAt(p, n, TRUE) /\ ~Ended(p)
           /\ e.type \in {"text", "thinking"} /\ e.index = n /\ open
                    => StandsAt(p, n, open) /\ ~Ended(p)
           /\ e.type = "block_stop" /\ e.index = n /\ open => StandsAt(p, n + 1, FALSE) /\ ~Ended(p)
           /\ e.type = "message_stop" /\ ~open => StandsAt(p, n, open)
           /\ e.type \in {"message_start", "message_delta"} => StandsAt(p, n, open) /\ ~Ended(p)
<1>0. PICK m : Extended(o, e, p, m)
  BY Appended
<1>1. /\ p \in Seq(Sent) /\ DOMAIN p = 1..m /\ DOMAIN o = 1..m - 1 /\ m \in Nat
      /\ Len(p) = m /\ p[m] = e /\ \A k \in 1..m - 1 : p[k] = o[k]
      /\ \A i : IF e.index = i /\ e.type \in StartKinds
                THEN StartsIn(p, i) = StartsIn(o, i) \cup {m} ELSE StartsIn(p, i) = StartsIn(o, i)
      /\ \A i : IF e.index = i /\ e.type = "block_stop"
                THEN StopsIn(p, i) = StopsIn(o, i) \cup {m} ELSE StopsIn(p, i) = StopsIn(o, i)
  BY <1>0 DEF Extended
<1>2. /\ \A i \in Int : StartsIn(o, i) # {} <=> i \in 0..n - 1 \/ (open /\ i = n)
      /\ \A i \in Int : StopsIn(o, i) # {} <=> i \in 0..n - 1
      /\ \A j \in 1..m - 1 : FormedAt(o, j) /\ o[j].type # "message_stop"
      /\ \A i : StartsIn(o, i) \subseteq 1..m - 1 /\ StopsIn(o, i) \subseteq 1..m - 1
  BY <1>1 DEF StandsAt, Begins, Finishes, Formed, Ended, StartsIn, StopsIn
<1>3. n \in Int /\ n \notin 0..n - 1 /\ m \in 1..m /\ m \notin 1..m - 1
      /\ \A j \in 1..m : j = m \/ j \in 1..m - 1
  BY <1>1
<1>4. ASSUME e.type \in StartKinds => e.index = n /\ ~open, FormedAt(p, m) PROVE Formed(p)
  <2>1. e.type \in StartKinds => StartsIn(o, e.index) = {}
    BY <1>2, <1>3, <1>4
  <2>2. \A j \in 1..m - 1 : FormedAt(p, j)
    BY <1>0, <1>2, <2>1, FormedBefore
  <2> QED
    BY <1>1, <1>3, <1>4, <2>2 DEF Formed
<1>5. e.type # "message_stop" => ~Ended(p)
  BY <1>1, <1>2, <1>3 DEF Ended
<1>6. CASE e.type \in StartKinds /\ e.index = n /\ ~open
  <2>0. e.type # "block_stop"
    BY <1>6 DEF StartKinds
  <2>1. \A i : StopsIn(p, i) = StopsIn(o, i)
    BY ONLY <1>1, <2>0
  <2>2. StartsIn(p, n) = {m}
    BY <1>1, <1>2, <1>3, <1>6
  <2>3. ASSUME NEW i \in Int, NEW k \in 1..m - 1, k \in StartsIn(p, i)
        PROVE  \E l \in StopsIn(p, i) : l < m
    <3>1. k # m /\ k \in StartsIn(o, i)
      BY <1>1, <1>3, <2>3
    <3>2. StopsIn(o, i) # {}
      BY <1>2, <1>6, <3>1
    <3>3. PICK l \in StopsIn(o, i) : l \in 1..m - 1
      BY <1>2, <3>2
    <3> QED
      BY <1>1, <2>1, <3>3
  <2>4. FormedAt(p, m)
    BY <1>1, <1>6, <2>2, <2>3 DEF FormedAt, StartKinds
  <2>5. Begins(p, n, TRUE)
    <3>1. StartsIn(p, n) # {} /\ \A i : i # n => StartsIn(p, i) = StartsIn(o, i)
      BY ONLY <1>1, <1>6, <2>2
    <3> QED
      BY <1>2, <1>6, <3>1 DEF Begins
  <2>6. Finishes(p, n)
    BY <1>2, <2>1 DEF Finishes
  <2> QED
    BY <1>4, <1>5, <1>6, <2>4, <2>5, <2>6 DEF StandsAt, StartKinds
<1>7. CASE e.type \in {"text", "thinking", "block_stop"} /\ e.index = n /\ open
  <2>0. e.type \notin StartKinds
    BY <1>7 DEF StartKinds
  <2>1. \A i : StartsIn(p, i) = StartsIn(o, i)
    BY ONLY <1>1, <2>0
  <2>2. PICK k \in StartsIn(o, n) : k \in 1..m - 1
    BY <1>2, <1>3, <1>7
  <2>3. \A l \in StopsIn(p, n) : l = m
    BY <1>1, <1>2, <1>3
  <2>4. k < m /\ m >= m /\ \A l \in StopsIn(p, n) : l >= m
    BY <1>1, <2>2, <2>3
  <2>5. FormedAt(p, m)
    BY <1>1, <1>7, <2>1, <2>2, <2>4 DEF FormedAt, StartKinds
  <2>6. Formed(p)
    BY <1>4, <1>7, <2>5 DEF StartKinds
  <2>7. Begins(p, n, open)
    BY <1>2, <2>1 DEF Begins
  <2>8. CASE e.type # "block_stop"
    <3>1. \A i : StopsIn(p, i) = StopsIn(o, i)
      BY <1>1, <2>8
    <3>2. Finishes(p, n)
      BY <1>2, <3>1 DEF Finishes
    <3> QED
      BY <1>5, <1>7, <2>6, <2>7, <2>8, <3>2 DEF StandsAt, StartKinds
  <2>9. CASE e.type = "block_stop"
    <3>1. \A i \in Int : i \in 0..(n + 1) - 1 <=> i \in 0..n - 1 \/ i = n
      OBVIOUS
    <3>2. StopsIn(p, n) # {} /\ \A i : i # n => StopsIn(p, i) = StopsIn(o, i)
      <4>1. m \in StopsIn(p, n)
        BY <1>1, <1>7, <2>9
      <4>2. ASSUME NEW i, i # n PROVE StopsIn(p, i) = StopsIn(o, i)
        <5>1. ~(e.index = i /\ e.type = "block_stop")
          BY <1>7, <4>2
        <5> QED
          BY ONLY <1>1, <5>1
      <4> QED
        BY <4>1, <4>2
    <3>3. Finishes(p, n + 1)
      BY <1>2, <3>1, <3>2 DEF Finishes
    <3>4. Begins(p, n + 1, FALSE)
      BY <1>7, <2>7, <3>1 DEF Begins
    <3> QED
      BY <1>5, <2>6, <2>9, <3>3, <3>4 DEF StandsAt, StartKinds
  <2> QED
    BY <2>8, <2>9
<1>8. CASE (e.type = "message_stop" /\ ~open) \/ e.type \in {"message_start", "message_delta"}
  <2>1. \A i : StartsIn(p, i) = StartsIn(o, i) /\ StopsIn(p, i) = StopsIn(o, i)
    <3>1. e.type \notin StartKinds /\ e.type # "block_stop"
      BY <1>8 DEF StartKinds
    <3> QED
      BY ONLY <1>1, <3>1
  <2>2. e.type = "message_stop" => \A i \in Int : StartsIn(p, i) # {} => StopsIn(p, i) # {}
    BY <1>2, <1>8, <2>1
  <2>3. FormedAt(p, m)
    BY <1>1, <1>8, <2>2 DEF FormedAt, StartKinds
  <2>4. Formed(p)
    BY <1>4, <1>8, <2>3 DEF StartKinds
  <2>5. Begins(p, n, open) /\ Finishes(p, n)
    BY <1>2, <2>1 DEF Begins, Finishes
  <2> QED
    BY <1>5, <1>8, <2>4, <2>5 DEF StandsAt, StartKinds
<1> QED
  BY <1>6, <1>7, <1>8

-----------------------------------------------------------------------------
(* Where the service's stream and the client's stand                       *)

\* The service's next block, what it is if it is open, or that the message is
\* over, and the blocks of thinking that have stopped.
OpenBlocks == {"text", "thinking"}
Positions == [next : Nat, open : OpenBlocks \cup {"none", "over"}, thought : SUBSET Int]

\* The event e takes the service's stream from q to r.
Takes(q, e, r) ==
    /\ q.open # "over"
    /\ \/ e.type \in {"message_start", "message_delta"} /\ r = q
       \/ e.type = "text_start" /\ e.index = q.next /\ q.open = "none" /\ r = [q EXCEPT !.open = "text"]
       \/ /\ e.type = "thinking_start" /\ e.index = q.next /\ q.open = "none"
          /\ r = [q EXCEPT !.open = "thinking"]
       \/ /\ e.type = "summary" /\ e.index = q.next /\ q.open \in {"none", "thinking"}
          /\ r = [q EXCEPT !.open = "thinking"]
       \/ e.type = "summary" /\ e.index \in q.thought /\ r = q
       \/ e.type = "text" /\ e.index = q.next /\ q.open = "text" /\ r = q
       \/ /\ e.type = "block_stop" /\ e.index = q.next /\ q.open \in OpenBlocks
          /\ r = [q EXCEPT !.next = q.next + 1, !.open = "none",
                           !.thought = IF q.open = "thinking" THEN @ \cup {q.next} ELSE @]
       \/ e.type = "message_stop" /\ q.open = "none" /\ r = [q EXCEPT !.open = "over"]

\* The client's stream o and the thinking blocks st of the layers stand where the
\* service's stands; a block of thinking that has no start yet is not open in o.
Follows(q, st, o) ==
    /\ IF q.open \in OpenBlocks THEN StandsAt(o, q.next, TRUE) ELSE StandsAt(o, q.next, FALSE)
    /\ Ended(o) <=> q.open = "over"
    /\ q.thought \subseteq st.stopped /\ st.stopped \subseteq 0..q.next - 1
    /\ \A i \in st.started : i < q.next \/ (i = q.next /\ q.open = "thinking")
    /\ q.open = "thinking" => q.next \in st.started

LEMMA TakesTyped ==
    ASSUME NEW q \in Positions, NEW e \in Streamed, NEW r, Takes(q, e, r)
    PROVE  r \in Positions
<1>1. q.next + 1 \in Nat /\ q.next \in Int
  BY DEF Positions, OpenBlocks
<1>2. CASE r = [q EXCEPT !.next = q.next + 1, !.open = "none",
                         !.thought = IF q.open = "thinking" THEN @ \cup {q.next} ELSE @]
  <2> DEFINE th == IF q.open = "thinking" THEN q.thought \cup {q.next} ELSE q.thought
  <2>1. th \in SUBSET Int /\ r = [q EXCEPT !.next = q.next + 1, !.open = "none", !.thought = th]
    BY <1>1, <1>2 DEF Positions, OpenBlocks
  <2> HIDE DEF th
  <2> QED
    BY <1>1, <2>1 DEF Positions, OpenBlocks
<1>3. CASE r \in {q, [q EXCEPT !.open = "text"], [q EXCEPT !.open = "thinking"],
                  [q EXCEPT !.open = "over"]}
  BY <1>3 DEF Positions, OpenBlocks
<1> QED
  BY <1>2, <1>3 DEF Takes

LEMMA AfterOne ==
    ASSUME NEW a \in Seq(Sent), NEW b \in Seq(Sent), NEW x \in Sent
    PROVE  a \o (b \o <<x>>) = Append(a \o b, x)
<1>1. <<x>> \in Seq(Sent) /\ a \o b \in Seq(Sent)
  OBVIOUS
<1>2. a \o (b \o <<x>>) = (a \o b) \o <<x>>
  BY <1>1, ConcatAssociative
<1> QED
  BY <1>1, <1>2, AppendIsConcat

LEMMA AfterTwo ==
    ASSUME NEW a \in Seq(Sent), NEW b \in Seq(Sent), NEW x \in Sent, NEW y \in Sent
    PROVE  a \o (b \o <<x>> \o <<y>>) = Append(Append(a \o b, x), y)
<1>0. <<x>> \in Seq(Sent) /\ b \o <<x>> \in Seq(Sent)
  OBVIOUS
<1>1. PICK c \in Seq(Sent) : c = b \o <<x>>
  BY <1>0
<1>2. a \o c = Append(a \o b, x)
  BY <1>1, AfterOne
<1>3. a \o (c \o <<y>>) = Append(a \o c, y)
  BY AfterOne
<1> QED
  BY ONLY <1>1, <1>2, <1>3

\* normalize_stream keeps the client's stream where the service's is.
LEMMA NormalizedFollows ==
    ASSUME NEW q \in Positions, NEW e \in Streamed, NEW r, Takes(q, e, r),
           NEW st \in BlockStates, NEW o \in Seq(Sent), Follows(q, st, o \o st.events)
    PROVE  Follows(r, Normalized(st, e), o \o Normalized(st, e).events)
<1> DEFINE i == e.index
           w == o \o st.events
           n == Normalized(st, e)
           new == IF e.type = "summary" THEN Event("thinking", i, <<>>) ELSE e
           head == Event("thinking_start", i, <<>>)
           started == IF e.type \in {"thinking_start", "summary"} THEN st.started \cup {i} ELSE st.started
           stopped == IF e.type = "block_stop" /\ i \in started
                      THEN st.stopped \cup {i} ELSE st.stopped
<1>1. /\ e \in Sent /\ i \in Int /\ st.events \in Seq(Sent) /\ w \in Seq(Sent)
      /\ q.next \in Nat /\ q.open \in OpenBlocks \cup {"none", "over"} /\ r \in Positions
      /\ st.started \subseteq Int /\ e.type \in Kinds
  BY TakesTyped, Kinship DEF Streamed, BlockStates, Positions, OpenBlocks
<1>2. new \in Sent /\ head \in Sent /\ head.type = "thinking_start" /\ head.index = i
      /\ new.index = i /\ new.type = IF e.type = "summary" THEN "thinking" ELSE e.type
  BY <1>1, EventFacts, EventParts DEF Kinds
<1>3. n = IF e.type = "summary" /\ i \in st.stopped THEN st
          ELSE [started |-> started, stopped |-> stopped,
                events |-> st.events \o (IF StartMissing(st, e) THEN <<head>> ELSE <<>>) \o <<new>>]
  BY DEF Normalized
<1>4. /\ IF q.open \in OpenBlocks THEN StandsAt(w, q.next, TRUE) ELSE StandsAt(w, q.next, FALSE)
      /\ Ended(w) <=> q.open = "over"
      /\ q.thought \subseteq st.stopped /\ st.stopped \subseteq 0..q.next - 1
      /\ \A k \in st.started : k < q.next \/ (k = q.next /\ q.open = "thinking")
      /\ q.open = "thinking" => q.next \in st.started
  BY DEF Follows, OpenBlocks
<1>5. ~Ended(w) /\ q.open # "over"
  BY <1>4 DEF Takes
<1> HIDE DEF w, n, new, head
<1>6. ASSUME ~(e.type = "summary" /\ i \in st.stopped), ~StartMissing(st, e)
      PROVE  n.started = started /\ n.stopped = stopped /\ o \o n.events = Append(w, new)
  <2>1. n.started = started /\ n.stopped = stopped /\ n.events = st.events \o <<>> \o <<new>>
    BY <1>3, <1>6
  <2>2. n.events = st.events \o <<new>>
    BY <1>1, <2>1, ConcatEmptySeq
  <2>3. o \o (st.events \o <<new>>) = Append(w, new)
    BY <1>1, <1>2, AfterOne DEF w
  <2> QED
    BY <2>1, <2>2, <2>3
<1>7. CASE e.type = "summary" /\ e.index \in q.thought /\ r = q
  <2>1. n = st
    BY <1>3, <1>4, <1>7
  <2> QED
    BY <1>7, <2>1 DEF n
<1>8. CASE e.type = "summary" /\ i = q.next /\ q.open \in {"none", "thinking"} /\ r = [q EXCEPT !.open = "thinking"]
  <2>1. i \notin st.stopped
    BY <1>1, <1>4, <1>8
  <2>2. r.next = q.next /\ r.open = "thinking" /\ r.thought = q.thought
    BY <1>8 DEF Positions, OpenBlocks
  <2>3. CASE StartMissing(st, e)
    <3>1. q.open = "none"
      BY <1>1, <1>4, <1>8, <2>3 DEF StartMissing
    <3>2. PICK v \in Seq(Sent) : v = Append(w, head)
      BY <1>1, <1>2, AppendProperties
    <3>3. StandsAt(v, q.next, TRUE) /\ ~Ended(v)
      BY <1>1, <1>2, <1>4, <1>5, <1>8, <3>1, <3>2, FormedNext DEF StartKinds, OpenBlocks
    <3>4. PICK p : p = Append(v, new)
      OBVIOUS
    <3>5. StandsAt(p, q.next, TRUE) /\ ~Ended(p)
      BY <1>1, <1>2, <1>8, <3>3, <3>4, FormedNext DEF OpenBlocks
    <3>6. n.events = st.events \o <<head>> \o <<new>>
      BY <1>3, <2>1, <2>3
    <3>7. o \o (st.events \o <<head>> \o <<new>>) = Append(Append(w, head), new)
      <4>1. st.events \in Seq(Sent) /\ head \in Sent /\ new \in Sent
        BY <1>1, <1>2
      <4> QED
        BY ONLY <4>1, o \in Seq(Sent), AfterTwo DEF w
    <3>8. n.started = st.started \cup {i} /\ n.stopped = st.stopped
      BY <1>3, <1>8, <2>1
    <3> QED
      BY <1>4, <1>5, <1>8, <2>2, <3>2, <3>4, <3>5, <3>6, <3>7, <3>8 DEF Follows, OpenBlocks, n
  <2>4. CASE ~StartMissing(st, e)
    <3>1. i \in st.started /\ q.open = "thinking"
      BY <1>1, <1>4, <1>8, <2>4 DEF StartMissing
    <3>2. PICK p : p = Append(w, new)
      OBVIOUS
    <3>3. StandsAt(p, q.next, TRUE) /\ ~Ended(p)
      BY <1>1, <1>2, <1>4, <1>5, <1>8, <3>1, <3>2, FormedNext DEF OpenBlocks
    <3>4. n.started = st.started \cup {i} /\ n.stopped = st.stopped /\ o \o n.events = p
      BY <1>6, <1>8, <2>1, <2>4, <3>2
    <3> QED
      BY <1>4, <1>5, <1>8, <2>2, <3>3, <3>4 DEF Follows, OpenBlocks, n
  <2> QED
    BY <2>3, <2>4
<1>9. CASE e.type # "summary"
  <2>0. new = e /\ ~StartMissing(st, e) /\ n.started = started /\ n.stopped = stopped
        /\ o \o n.events = Append(w, e)
    BY <1>6, <1>9 DEF new, StartMissing
  <2>9. PICK p : p = Append(w, e)
    OBVIOUS
  <2>1. CASE e.type \in {"message_start", "message_delta"} /\ r = q
    <3>1. /\ IF q.open \in OpenBlocks THEN StandsAt(p, q.next, TRUE) ELSE StandsAt(p, q.next, FALSE)
          /\ ~Ended(p)
      <4>1. CASE q.open \in OpenBlocks
        BY <1>1, <1>4, <1>5, <2>1, <2>9, <4>1, FormedNext
      <4>2. CASE q.open \notin OpenBlocks
        BY <1>1, <1>4, <1>5, <2>1, <2>9, <4>2, FormedNext
      <4> QED
        BY <4>1, <4>2
    <3>2. n.started = st.started /\ n.stopped = st.stopped
      BY <2>0, <2>1
    <3> QED
      BY <1>4, <1>5, <2>0, <2>1, <2>9, <3>1, <3>2 DEF Follows, OpenBlocks, n
  <2>2. CASE e.type = "text_start" /\ i = q.next /\ q.open = "none" /\ r = [q EXCEPT !.open = "text"]
    <3>1. StandsAt(p, q.next, TRUE) /\ ~Ended(p)
      BY <1>1, <1>4, <1>5, <2>2, <2>9, FormedNext DEF StartKinds, OpenBlocks
    <3>2. n.started = st.started /\ n.stopped = st.stopped
      BY <2>0, <2>2
    <3>3. r.next = q.next /\ r.open = "text" /\ r.thought = q.thought
      BY <2>2 DEF Positions, OpenBlocks
    <3> QED
      BY <1>4, <1>5, <2>0, <2>2, <2>9, <3>1, <3>2, <3>3 DEF Follows, OpenBlocks, n
  <2>3. CASE /\ e.type = "thinking_start" /\ i = q.next /\ q.open = "none"
             /\ r = [q EXCEPT !.open = "thinking"]
    <3>1. StandsAt(p, q.next, TRUE) /\ ~Ended(p)
      BY <1>1, <1>4, <1>5, <2>3, <2>9, FormedNext DEF StartKinds, OpenBlocks
    <3>2. n.started = st.started \cup {i} /\ n.stopped = st.stopped
      BY <2>0, <2>3
    <3>3. r.next = q.next /\ r.open = "thinking" /\ r.thought = q.thought
      BY <2>3 DEF Positions, OpenBlocks
    <3> QED
      BY <1>4, <1>5, <2>0, <2>3, <2>9, <3>1, <3>2, <3>3 DEF Follows, OpenBlocks, n
  <2>4. CASE e.type = "text" /\ i = q.next /\ q.open = "text" /\ r = q
    <3>1. StandsAt(p, q.next, TRUE) /\ ~Ended(p)
      BY <1>1, <1>4, <1>5, <2>4, <2>9, FormedNext DEF OpenBlocks
    <3>2. n.started = st.started /\ n.stopped = st.stopped
      BY <2>0, <2>4
    <3> QED
      BY <1>4, <1>5, <2>0, <2>4, <2>9, <3>1, <3>2 DEF Follows, OpenBlocks, n
  <2>5. CASE /\ e.type = "block_stop" /\ i = q.next /\ q.open \in OpenBlocks
             /\ r = [q EXCEPT !.next = q.next + 1, !.open = "none",
                              !.thought = IF q.open = "thinking" THEN @ \cup {q.next} ELSE @]
    <3>1. StandsAt(p, q.next + 1, FALSE) /\ ~Ended(p)
      BY <1>1, <1>4, <1>5, <2>5, <2>9, FormedNext DEF OpenBlocks
    <3>2. n.started = st.started
          /\ n.stopped = IF i \in st.started THEN st.stopped \cup {i} ELSE st.stopped
      BY <2>0, <2>5
    <3>3. r.next = q.next + 1 /\ r.open = "none"
          /\ r.thought = IF q.open = "thinking" THEN q.thought \cup {q.next} ELSE q.thought
      BY <2>5 DEF Positions, OpenBlocks
    <3>4. \A k \in n.started : k < r.next
      BY <1>1, <1>4, <3>2, <3>3
    <3>5. n.stopped \subseteq 0..r.next - 1
      BY <1>1, <1>4, <2>5, <3>2, <3>3
    <3>6. r.thought \subseteq n.stopped
      BY <1>4, <2>5, <3>2, <3>3
    <3> QED
      BY <1>5, <2>0, <2>9, <3>1, <3>3, <3>4, <3>5, <3>6 DEF Follows, OpenBlocks, n
  <2>6. CASE e.type = "message_stop" /\ q.open = "none" /\ r = [q EXCEPT !.open = "over"]
    <3>1. StandsAt(p, q.next, FALSE)
      BY <1>1, <1>4, <1>5, <2>6, <2>9, FormedNext DEF OpenBlocks
    <3>2. n.started = st.started /\ n.stopped = st.stopped
      BY <2>0, <2>6
    <3>3. r.next = q.next /\ r.open = "over" /\ r.thought = q.thought
      BY <2>6 DEF Positions, OpenBlocks
    <3>4. Ended(p)
      <4>1. p[Len(w) + 1] = e /\ Len(w) + 1 \in DOMAIN p
        BY <1>1, <2>9, AppendProperties
      <4> QED
        BY <2>6, <4>1 DEF Ended
    <3> QED
      BY <1>4, <2>0, <2>6, <2>9, <3>1, <3>2, <3>3, <3>4 DEF Follows, OpenBlocks, n
  <2> QED
    BY <1>9, <2>1, <2>2, <2>3, <2>4, <2>5, <2>6 DEF Takes
<1> QED
  BY <1>7, <1>8, <1>9 DEF Takes

\* The events b take the service's stream from q to p.
Path(q, b, p) ==
    \E f \in [0..Len(b) -> Positions] :
        f[0] = q /\ f[Len(b)] = p /\ \A i \in 1..Len(b) : Takes(f[i - 1], b[i], f[i])

LEMMA PathEnds ==
    ASSUME NEW q, NEW p, NEW b \in Seq(Streamed), Path(q, b, p)
    PROVE  q \in Positions /\ p \in Positions
<1>1. 0 \in 0..Len(b) /\ Len(b) \in 0..Len(b)
  OBVIOUS
<1> QED
  BY <1>1 DEF Path

LEMMA PathNone ==
    ASSUME NEW q \in Positions
    PROVE  Path(q, <<>>, q)
<1> DEFINE f == [i \in 0..0 |-> q]
<1>1. Len(<<>>) = 0 /\ f \in [0..0 -> Positions] /\ f[0] = q /\ \A i : ~(i \in 1..0)
  OBVIOUS
<1> HIDE DEF f
<1> QED
  BY <1>1 DEF Path

LEMMA PathOn ==
    ASSUME NEW q, NEW p, NEW b \in Seq(Streamed), Path(q, b, p),
           NEW e \in Streamed, NEW r, Takes(p, e, r)
    PROVE  Path(q, Append(b, e), r)
<1>1. PICK f \in [0..Len(b) -> Positions] :
        f[0] = q /\ f[Len(b)] = p /\ \A i \in 1..Len(b) : Takes(f[i - 1], b[i], f[i])
  BY DEF Path
<1>2. PICK n \in Nat : n = Len(b)
  OBVIOUS
<1>3. r \in Positions
  BY PathEnds, TakesTyped
<1>4. PICK c \in Seq(Streamed) : c = Append(b, e)
  BY AppendProperties
<1>5. Len(c) = n + 1 /\ c[n + 1] = e /\ \A i \in 1..n : c[i] = b[i]
  BY <1>2, <1>4, AppendProperties
<1> DEFINE g == [i \in 0..n + 1 |-> IF i <= n THEN f[i] ELSE r]
<1>6. /\ g \in [0..n + 1 -> Positions] /\ g[n + 1] = r
      /\ \A i \in 0..n : g[i] = f[i]
  BY <1>1, <1>2, <1>3
<1> HIDE DEF g
<1>7. g[0] = q /\ g[n] = p
  BY <1>1, <1>2, <1>6
<1>8. ASSUME NEW i \in 1..n + 1 PROVE Takes(g[i - 1], c[i], g[i])
  <2>1. CASE i \in 1..n
    <3>1. i - 1 \in 0..n /\ i \in 0..n
      BY <2>1
    <3>2. g[i - 1] = f[i - 1] /\ g[i] = f[i] /\ c[i] = b[i]
      BY <1>5, <1>6, <2>1, <3>1
    <3> QED
      BY <1>1, <1>2, <2>1, <3>2
  <2>2. CASE i = n + 1
    <3>1. i - 1 = n
      BY <2>2
    <3> QED
      BY <1>5, <1>6, <1>7, <2>2, <3>1
  <2> QED
    BY <2>1, <2>2
<1> QED
  BY <1>4, <1>5, <1>6, <1>7, <1>8 DEF Path

LEMMA PathFirst ==
    ASSUME NEW q, NEW p, NEW b \in Seq(Streamed), b # <<>>, Path(q, b, p)
    PROVE  \E r : Takes(q, Head(b), r) /\ Path(r, Tail(b), p)
<1>1. PICK f \in [0..Len(b) -> Positions] :
        f[0] = q /\ f[Len(b)] = p /\ \A i \in 1..Len(b) : Takes(f[i - 1], b[i], f[i])
  BY DEF Path
<1>2. PICK n \in Nat : Len(b) = n + 1 /\ Len(Tail(b)) = n
  <2>1. PICK m \in Nat : m = Len(b)
    OBVIOUS
  <2>2. m # 0 /\ Len(Tail(b)) = m - 1
    BY <2>1, EmptySeq, HeadTailProperties
  <2>3. m - 1 \in Nat /\ m = (m - 1) + 1
    BY <2>2
  <2> QED
    BY <2>1, <2>2, <2>3
<1>3. b[1] = Head(b) /\ \A i \in 1..n : Tail(b)[i] = b[i + 1]
  BY <1>2, HeadTailProperties
<1> DEFINE g == [i \in 0..n |-> f[i + 1]]
<1>4. g \in [0..n -> Positions] /\ g[0] = f[1] /\ g[n] = p
  <2>1. \A i \in 0..n : i + 1 \in 0..Len(b)
    BY <1>2
  <2> QED
    BY <1>1, <1>2, <2>1
<1>5. ASSUME NEW i \in 1..n PROVE Takes(g[i - 1], Tail(b)[i], g[i])
  <2>1. i + 1 \in 1..Len(b) /\ (i + 1) - 1 = i /\ i \in 0..n /\ i - 1 \in 0..n /\ (i - 1) + 1 = i
    BY <1>2
  <2>2. g[i - 1] = f[i] /\ g[i] = f[i + 1]
    BY <2>1
  <2>3. Takes(f[(i + 1) - 1], b[i + 1], f[i + 1])
    BY <1>1, <2>1
  <2> HIDE DEF g
  <2> QED
    BY <1>3, <2>1, <2>2, <2>3
<1>6. Takes(q, Head(b), f[1])
  <2>1. 1 \in 1..Len(b) /\ 1 - 1 = 0
    BY <1>2
  <2> QED
    BY <1>1, <1>3, <2>1
<1> HIDE DEF g
<1>7. Path(f[1], Tail(b), p)
  BY <1>2, <1>4, <1>5 DEF Path
<1> QED
  BY <1>6, <1>7

\* The layers keep the client's stream along with the service's.
LEMMA PathFollows ==
    ASSUME blocks \in BlockStates, NEW o \in Seq(Sent), NEW events \in Seq(Streamed),
           NEW q, NEW p, Path(q, events, p), Follows(q, blocks, o)
    PROVE  Follows(p, NormalizedAll(events), o \o NormalizedAll(events).events)
<1>1. PICK g : /\ g[0] = [blocks EXCEPT !.events = <<>>]
               /\ \A k \in 1..Len(events) : g[k] = Normalized(g[k - 1], events[k])
               /\ NormalizedAll(events) = g[Len(events)]
  BY NormalizedRun
<1>2. PICK f \in [0..Len(events) -> Positions] :
        /\ f[0] = q /\ f[Len(events)] = p
        /\ \A i \in 1..Len(events) : Takes(f[i - 1], events[i], f[i])
  BY DEF Path
<1>3. Len(events) \in Nat
  OBVIOUS
<1> DEFINE S == {k \in Nat : k <= Len(events) =>
                    g[k] \in BlockStates /\ Follows(f[k], g[k], o \o g[k].events)}
<1>4. 0 \in S
  <2>1. g[0] \in BlockStates /\ g[0].events = <<>>
    BY <1>1, Cleared
  <2>2. g[0].started = blocks.started /\ g[0].stopped = blocks.stopped
    BY <1>1 DEF BlockStates
  <2>3. o \o <<>> = o
    BY ConcatEmptySeq
  <2>4. Follows(q, g[0], o)
    BY <2>2 DEF Follows
  <2> QED
    BY <1>2, <2>1, <2>3, <2>4
<1>5. ASSUME NEW k \in Nat, k \in S PROVE k + 1 \in S
  <2> SUFFICES ASSUME k + 1 <= Len(events)
               PROVE  /\ g[k + 1] \in BlockStates
                      /\ Follows(f[k + 1], g[k + 1], o \o g[k + 1].events)
    OBVIOUS
  <2>1. g[k] \in BlockStates /\ Follows(f[k], g[k], o \o g[k].events)
    BY <1>3, <1>5
  <2>2. k + 1 \in 1..Len(events) /\ (k + 1) - 1 = k /\ k \in 0..Len(events)
    BY <1>3
  <2>3. PICK e \in Streamed : e = events[k + 1]
    BY <2>2
  <2>4. g[k + 1] = Normalized(g[k], e) /\ Takes(f[k], e, f[k + 1]) /\ f[k] \in Positions
    BY <1>1, <1>2, <2>2, <2>3
  <2>5. Normalized(g[k], e) \in BlockStates
    BY <2>1, NormalizedKeeps
  <2>6. Follows(f[k + 1], Normalized(g[k], e), o \o Normalized(g[k], e).events)
    BY <2>1, <2>4, NormalizedFollows
  <2> QED
    BY <2>4, <2>5, <2>6
<1> HIDE DEF S
<1>6. Len(events) \in S
  BY <1>3, <1>4, <1>5, Induction
<1> QED
  BY <1>1, <1>2, <1>3, <1>6 DEF S

LEMMA PathOfOne ==
    ASSUME NEW q \in Positions, NEW e \in Streamed, NEW r, Takes(q, e, r)
    PROVE  Path(q, <<e>>, r)
<1>1. <<>> \in Seq(Streamed) /\ Append(<<>>, e) = <<e>>
  OBVIOUS
<1> QED
  BY <1>1, PathNone, PathOn

\* What the stop layer makes of an event goes on where the event does, and when a
\* stop sequence is found it ends the open block and the message.
LEMMA StoppedPath ==
    ASSUME NEW q \in Positions, NEW e \in Streamed, NEW r, Takes(q, e, r), ~search.hit,
           Stopped(e).events \in Seq(Streamed)
    PROVE  /\ ~Stopped(e).search.hit => Path(q, Stopped(e).events, r)
           /\ \E p : Path(q, Stopped(e).events, p)
<1> DEFINE found == Search(e.text)
           cut == TextDelta(e.index, found.passed)
           ends == Event("block_stop", e.index, <<>>)
           last == Mark("message_delta")
           over == Mark("message_stop")
           four == <<cut, ends, last, over>>
<1>1. Path(q, <<e>>, r)
  BY PathOfOne
<1>2. CASE Stopped(e).events = <<e>>
  BY <1>1, <1>2
<1>3. CASE e.type = "text" /\ Stopped(e).search.hit /\ Stopped(e).events = four
  <2>1. e.index = q.next /\ q.open = "text"
    BY <1>3 DEF Takes
  <2>2. /\ cut.type = "text" /\ cut.index = e.index
        /\ ends.type = "block_stop" /\ ends.index = e.index
        /\ last.type = "message_delta" /\ over.type = "message_stop"
    BY EventParts
  <2>3. cut \in Streamed /\ ends \in Streamed /\ last \in Streamed /\ over \in Streamed
    <3>1. four \in Seq(Streamed)
      BY <1>3
    <3> HIDE DEF cut, ends, last, over
    <3> QED
      BY <3>1
  <2> HIDE DEF found, cut, ends, last, over
  <2>4. Path(q, <<cut>>, q)
    <3>1. Takes(q, cut, q)
      BY <2>1, <2>2 DEF Takes
    <3> QED
      BY <2>3, <3>1, PathOfOne
  <2>5. PICK x \in Positions : Takes(q, ends, x) /\ x.open = "none"
    <3> DEFINE x == [q EXCEPT !.next = q.next + 1, !.open = "none",
                              !.thought = IF q.open = "thinking" THEN @ \cup {q.next} ELSE @]
    <3>1. Takes(q, ends, x)
      BY <2>1, <2>2 DEF Takes, OpenBlocks
    <3>2. x.open = "none"
      BY <2>1 DEF Positions
    <3> HIDE DEF x
    <3> QED
      BY <2>3, <3>1, <3>2, TakesTyped
  <2>6. PICK y \in Positions : Takes(x, over, y)
    <3>1. Takes(x, over, [x EXCEPT !.open = "over"])
      BY <2>2, <2>5 DEF Takes
    <3> QED
      BY <2>3, <3>1, TakesTyped
  <2>7. Takes(x, last, x)
    BY <2>2, <2>5 DEF Takes
  <2>8. /\ <<cut>> \in Seq(Streamed) /\ <<cut, ends>> = Append(<<cut>>, ends)
        /\ <<cut, ends>> \in Seq(Streamed) /\ <<cut, ends, last>> = Append(<<cut, ends>>, last)
        /\ <<cut, ends, last>> \in Seq(Streamed) /\ four = Append(<<cut, ends, last>>, over)
    <3>1. <<cut>> \in Seq(Streamed) /\ <<cut, ends>> = Append(<<cut>>, ends)
      BY <2>3
    <3>2. <<cut, ends>> \in Seq(Streamed)
      BY <2>3
    <3>3. <<cut, ends, last>> = Append(<<cut, ends>>, last)
      BY <2>3
    <3>4. <<cut, ends, last>> \in Seq(Streamed)
      BY <2>3
    <3>5. four = Append(<<cut, ends, last>>, over)
      BY <2>3
    <3> QED
      BY <3>1, <3>2, <3>3, <3>4, <3>5
  <2>9. Path(q, <<cut, ends>>, x)
    BY <2>3, <2>4, <2>5, <2>8, PathOn
  <2>10. Path(q, <<cut, ends, last>>, x)
    BY <2>3, <2>7, <2>8, <2>9, PathOn
  <2>11. Path(q, four, y)
    BY <2>3, <2>6, <2>8, <2>10, PathOn
  <2> QED
    BY <1>3, <2>11
<1>4. CASE e.type # "text" \/ mode.stops = {} \/ ~found.hit
  BY <1>2, <1>4 DEF Stopped
<1>5. CASE e.type = "text" /\ mode.stops # {} /\ found.hit
  <2> HIDE DEF cut, ends, last, over
  <2>1. Stopped(e) = [search |-> found, events |-> four]
    <3>1. Stopped(e) = [search |-> found, events |-> IF ~found.hit THEN <<e>> ELSE four]
      BY <1>5 DEF Stopped, cut, ends, last, over
    <3> QED
      BY <1>5, <3>1
  <2> HIDE DEF found
  <2> QED
    BY <1>3, <1>5, <2>1
<1> QED
  BY <1>4, <1>5

-----------------------------------------------------------------------------
(* The invariant of the form                                               *)

\* Where the service's stream stands.
Place == [next |-> up.next, thought |-> up.thought,
          open |-> CASE up.open \in OpenBlocks -> up.open
                     [] up.open = "after" -> "over"
                     [] OTHER -> "none"]

\* transform_response knows the open block of text, and the one after the last.
ReaderInv ==
    mode.stream /\ reader.at = "reading" /\ up.open # "after" =>
        /\ reader.active = IF up.open = "text" THEN up.next ELSE NoBlock
        /\ reader.next \in {up.next, up.next + 1}
        /\ up.open \notin {"text", "thinking"} => reader.next = up.next
        /\ up.open = "text" => reader.next = up.next + 1

\* The client's stream and what is on its way to it are one well-formed stream.
OnItsWay ==
    \E q, p : /\ Follows(q, blocks, out)
              /\ Path(q, body, p)
              /\ reader.at = "reading" /\ up.open # "after" => p = Place
FormInv ==
    /\ ReaderInv
    /\ mode.api = "claude" /\ mode.stream =>
          /\ Formed(out)
          /\ ~search.hit /\ reader.at # "gone" => OnItsWay

\* Sends, by the parts that the form depends on.
Moves(e) ==
    \/ /\ UNCHANGED <<up.next, up.thought>>
       /\ \/ e.type = "message_start" /\ up.open = "before" /\ up'.open = "none"
          \/ e.type = "message_delta" /\ up.open = "none" /\ up'.open = "last"
          \/ e.type = "message_stop" /\ up.open = "last" /\ up'.open = "after"
          \/ e.type = "text_start" /\ e.index = up.next /\ up.open = "none" /\ up'.open = "text"
          \/ /\ e.type = "thinking_start" /\ e.index = up.next
             /\ up.open = "none" /\ up'.open = "thinking"
          \/ /\ e.type = "summary" /\ e.index = up.next
             /\ up.open \in {"none", "thinking"} /\ up'.open = "thinking"
          \/ e.type = "summary" /\ e.index \in up.thought /\ up.open = "none" /\ up'.open = "none"
          \/ e.type = "text" /\ e.index = up.next /\ up.open = "text" /\ up'.open = "text"
    \/ /\ e.type = "block_stop" /\ e.index = up.next /\ up.open \in {"text", "thinking"}
       /\ up'.open = "none" /\ up'.next = up.next + 1
       /\ up'.thought = IF up.open = "thinking" THEN up.thought \cup {up.next} ELSE up.thought

LEMMA SendsMoves ==
    ASSUME up \in Service, NEW e, Sends(e)
    PROVE  Moves(e)
<1>1. CASE /\ up.open = "before" /\ e = Mark("message_start") /\ up' = [up EXCEPT !.open = "none"]
  BY <1>1, EventParts DEF Moves, Service
<1>2. ASSUME NEW kind \in {"text", "thinking"}, up.open = "none",
             e = Event(StartOf[kind], up.next, <<>>), up' = [up EXCEPT !.open = kind]
      PROVE  Moves(e)
  <2>1. e.index = up.next /\ e.type = StartOf[kind]
    BY <1>2, EventParts
  <2>2. CASE kind = "text"
    <3>1. e.type = "text_start"
      BY <2>1, <2>2 DEF StartOf
    <3> QED
      BY <1>2, <2>1, <2>2, <3>1 DEF Moves, Service
  <2>3. CASE kind = "thinking"
    <3>1. e.type = "thinking_start"
      BY <2>1, <2>3 DEF StartOf
    <3> QED
      BY <1>2, <2>1, <2>3, <3>1 DEF Moves, Service
  <2> QED
    BY <2>2, <2>3
<1>3. CASE /\ up.open = "none" /\ e = Event("summary", up.next, <<>>)
           /\ up' = [up EXCEPT !.open = "thinking", !.deltas = @ + 1]
  BY <1>3, EventParts DEF Moves, Service
<1>4. CASE /\ up.open = "text" /\ \E s \in Pieces : e = TextDelta(up.next, s)
           /\ up' = [up EXCEPT !.deltas = @ + 1]
  <2>1. e.type = "text" /\ e.index = up.next
    BY <1>4, EventParts
  <2> QED
    BY <1>4, <2>1 DEF Moves, Service
<1>5. CASE /\ up.open = "thinking" /\ e = Event("summary", up.next, <<>>)
           /\ up' = [up EXCEPT !.deltas = @ + 1]
  BY <1>5, EventParts DEF Moves, Service
<1>6. CASE /\ up.open = "none" /\ \E j \in up.thought : e = Event("summary", j, <<>>)
           /\ up' = [up EXCEPT !.deltas = @ + 1]
  <2>1. e.type = "summary" /\ e.index \in up.thought
    BY <1>6, EventParts
  <2> QED
    BY <1>6, <2>1 DEF Moves, Service
<1>7. CASE /\ up.open \in {"text", "thinking"} /\ e = Event("block_stop", up.next, <<>>)
           /\ up' = [up EXCEPT !.open = "none", !.next = @ + 1,
                               !.thought = IF up.open = "thinking" THEN @ \cup {up.next} ELSE @]
  BY <1>7, EventParts DEF Moves, Service
<1>8. CASE up.open = "none" /\ e = Mark("message_delta") /\ up' = [up EXCEPT !.open = "last"]
  BY <1>8, EventParts DEF Moves, Service
<1>9. CASE up.open = "last" /\ e = Mark("message_stop") /\ up' = [up EXCEPT !.open = "after"]
  BY <1>9, EventParts DEF Moves, Service
<1> QED
  BY <1>1, <1>2, <1>3, <1>4, <1>5, <1>6, <1>7, <1>8, <1>9 DEF Sends

LEMMA SendsTakes ==
    ASSUME up \in Service, NEW e, Sends(e)
    PROVE  Takes(Place, e, Place')
<1>1. Moves(e)
  BY SendsMoves
<1>2. /\ Place.next = up.next /\ Place.thought = up.thought
      /\ Place.open = CASE up.open \in OpenBlocks -> up.open
                        [] up.open = "after" -> "over"
                        [] OTHER -> "none"
  BY DEF Place
<1>3. /\ Place = [next |-> Place.next, open |-> Place.open, thought |-> Place.thought]
      /\ Place' = [next |-> Place'.next, open |-> Place'.open, thought |-> Place'.thought]
  BY DEF Place
<1>4. /\ Place'.next = up'.next /\ Place'.thought = up'.thought
      /\ Place'.open = CASE up'.open \in OpenBlocks -> up'.open
                        [] up'.open = "after" -> "over"
                        [] OTHER -> "none"
  BY DEF Place
<1> HIDE DEF Place
<1>5. CASE e.type = "block_stop"
  <2>1. Place' = [Place EXCEPT !.next = Place.next + 1, !.open = "none",
                      !.thought = IF Place.open = "thinking" THEN @ \cup {Place.next} ELSE @]
    <3>1. /\ up'.next = up.next + 1 /\ up'.open = "none" /\ up.open \in OpenBlocks
          /\ up'.thought = IF up.open = "thinking" THEN up.thought \cup {up.next} ELSE up.thought
      BY <1>1, <1>5 DEF Moves, OpenBlocks
    <3>2. /\ Place'.next = Place.next + 1 /\ Place'.open = "none"
          /\ Place'.thought = IF Place.open = "thinking" THEN Place.thought \cup {Place.next}
                               ELSE Place.thought
      BY <1>2, <1>4, <3>1 DEF OpenBlocks
    <3> QED
      BY <1>3, <3>2
  <2> QED
    BY <1>1, <1>2, <1>5, <2>1 DEF Moves, Takes, OpenBlocks
<1>6. CASE e.type = "message_stop"
  <2>1. Place' = [Place EXCEPT !.open = "over"]
    BY <1>1, <1>2, <1>3, <1>4, <1>6 DEF Moves, OpenBlocks
  <2> QED
    BY <1>1, <1>2, <1>6, <2>1 DEF Moves, Takes, OpenBlocks
<1>7. CASE e.type \in {"message_start", "message_delta", "text"}
  <2>1. Place' = Place
    BY <1>1, <1>2, <1>3, <1>4, <1>7 DEF Moves, OpenBlocks
  <2> QED
    BY <1>1, <1>2, <1>7, <2>1 DEF Moves, Takes, OpenBlocks
<1>8. CASE e.type = "text_start"
  <2>1. Place' = [Place EXCEPT !.open = "text"]
    BY <1>1, <1>2, <1>3, <1>4, <1>8 DEF Moves, OpenBlocks
  <2> QED
    BY <1>1, <1>2, <1>8, <2>1 DEF Moves, Takes, OpenBlocks
<1>9. CASE e.type \in {"thinking_start", "summary"} /\ up'.open = "thinking"
  <2>1. Place' = [Place EXCEPT !.open = "thinking"]
    BY <1>1, <1>2, <1>3, <1>4, <1>9 DEF Moves, OpenBlocks
  <2> QED
    BY <1>1, <1>2, <1>9, <2>1 DEF Moves, Takes, OpenBlocks
<1>10. CASE e.type = "summary" /\ up'.open = "none"
  <2>1. Place' = Place
    BY <1>1, <1>2, <1>3, <1>4, <1>10 DEF Moves, OpenBlocks
  <2> QED
    BY <1>1, <1>2, <1>10, <2>1 DEF Moves, Takes, OpenBlocks
<1> QED
  BY <1>1, <1>5, <1>6, <1>7, <1>8, <1>9, <1>10 DEF Moves

LEMMA GatheredPlace ==
    ASSUME up \in Service, reader \in Readers, NEW e, Sends(e), ReaderInv, mode.stream,
           reader.at = "reading", reader' = Gathered(e)
    PROVE  ReaderInv'
<1>1. /\ reader'.next =
             IF e.type \in {"text_start", "thinking_start", "block_stop"} /\ e.index >= reader.next
             THEN e.index + 1 ELSE reader.next
      /\ reader'.active =
             IF e.type = "text_start" THEN e.index
             ELSE IF e.type = "block_stop" /\ e.index = reader.active THEN NoBlock
             ELSE reader.active
  BY DEF Gathered, Readers
<1>2. up.next \in Nat /\ reader.next \in Int /\ reader.active \in Int /\ up.open # "after"
  BY SendsFacts DEF Service, Readers
<1>3. /\ reader.active = IF up.open = "text" THEN up.next ELSE NoBlock
      /\ reader.next \in {up.next, up.next + 1}
      /\ up.open \notin {"text", "thinking"} => reader.next = up.next
      /\ up.open = "text" => reader.next = up.next + 1
  BY <1>2 DEF ReaderInv
<1>4. Moves(e)
  BY SendsMoves
<1> QED
  BY <1>1, <1>2, <1>3, <1>4 DEF Moves, ReaderInv

\* The links go on where the last block has ended, in a block of their own.
LEMMA LinksPath ==
    ASSUME reader \in Readers, NEW b \in Seq(Streamed), NEW q, NEW p, Path(q, b, p),
           p.open = "none", p.next = reader.next, reader.active = NoBlock
    PROVE  \E r : r.open = "none" /\ Path(q, b \o LinkEvents(reader), r)
<1> DEFINE start == Event("text_start", reader.next, <<>>)
           text == TextDelta(reader.next, Links)
           stop == Event("block_stop", reader.next, <<>>)
<1>1. /\ start.type = "text_start" /\ start.index = reader.next
      /\ text.type = "text" /\ text.index = reader.next
      /\ stop.type = "block_stop" /\ stop.index = reader.next
  BY EventParts
<1>2. start \in Streamed /\ text \in Streamed /\ stop \in Streamed
  <2>1. {"text", "text_start", "block_stop"} \subseteq Kinds /\ <<>> \in Seq(Letters)
        /\ reader.next \in Int /\ Links \in Seq(Letters)
    BY PiecesAreTexts DEF Kinds, Readers
  <2>2. text = Event("text", reader.next, Links)
    BY EventParts
  <2> QED
    BY <2>1, <2>2, StreamedEvents
<1>3. CASE LinkEvents(reader) = <<>>
  BY <1>3, ConcatEmptySeq
<1>4. CASE LinkEvents(reader) = <<start, text, stop>>
  <2> HIDE DEF start, text, stop
  <2> DEFINE x == [p EXCEPT !.open = "text"]
             y == [x EXCEPT !.next = x.next + 1, !.open = "none",
                            !.thought = IF x.open = "thinking" THEN @ \cup {x.next} ELSE @]
  <2>1. p \in Positions
    BY PathEnds
  <2>2. x.next = p.next /\ x.open = "text"
    BY <2>1 DEF Positions
  <2>3. Takes(p, start, x)
    BY <1>1 DEF Takes
  <2>4. x \in Positions
    BY <1>2, <2>1, <2>3, TakesTyped
  <2> HIDE DEF x
  <2>5. Takes(x, text, x) /\ Takes(x, stop, y)
    BY <1>1, <2>2 DEF Takes, OpenBlocks
  <2>6. y.open = "none"
    BY <2>4 DEF Positions
  <2> HIDE DEF y
  <2>7. PICK c \in Seq(Streamed) : c = Append(b, start)
    BY <1>2, AppendProperties
  <2>8. PICK d \in Seq(Streamed) : d = Append(c, text)
    BY <1>2, AppendProperties
  <2>9. Path(q, c, x)
    BY <1>2, <2>3, <2>7, PathOn
  <2>10. Path(q, d, x)
    BY <1>2, <2>5, <2>8, <2>9, PathOn
  <2>11. Path(q, Append(d, stop), y)
    BY <1>2, <2>5, <2>10, PathOn
  <2>12. b \o <<start, text, stop>> = Append(d, stop)
    BY <1>2, <2>7, <2>8
  <2> QED
    BY <1>4, <2>6, <2>11, <2>12
<1> QED
  BY <1>3, <1>4 DEF LinkEvents

LEMMA ReceiveForm ==
    ASSUME StreamInv, FormInv, Receive
    PROVE  FormInv'
<1>1. PICK e \in Received :
        /\ Sends(e)
        /\ IF e.type # "message_stop"
           THEN reader' = Gathered(e) /\ body' = Append(body, e)
           ELSE \/ reader' = Gathered(e) /\ body' = body \o LinkEvents(reader) \o <<e>>
                \/ Stands("failed") /\ body' = body \o LinkEvents(reader)
  BY DEF Receive
<1>2. mode.stream /\ reader.at = "reading" /\ UNCHANGED <<mode, search, blocks, out>>
  BY DEF Receive, layers
<1>3. /\ up \in Service /\ reader \in Readers /\ body \in Seq(Streamed)
      /\ LinkEvents(reader) \in Seq(Streamed) /\ e \in Streamed
  BY <1>2, ReceivedFacts, LinkFacts DEF StreamInv, Types
<1>4. /\ up.open # "after"
      /\ up'.open = "after" <=> e.type = "message_stop"
  BY <1>1, <1>3, SendsFacts
<1>5. ReaderInv'
  <2>1. CASE reader' = Gathered(e)
    BY <1>1, <1>2, <1>3, <2>1, GatheredPlace DEF FormInv
  <2>2. CASE Stands("failed")
    <3>1. reader'.at = "failed"
      BY <1>3, <2>2, StandsFacts DEF Places
    <3> QED
      BY <3>1 DEF ReaderInv
  <2> QED
    BY <1>1, <2>1, <2>2
<1>6. ASSUME mode.api = "claude", ~search.hit PROVE OnItsWay'
  <2>1. PICK q, p : Follows(q, blocks, out) /\ Path(q, body, p) /\ p = Place
    BY <1>2, <1>4, <1>6 DEF FormInv, OnItsWay
  <2>2. Takes(p, e, Place')
    BY <1>1, <1>3, <2>1, SendsTakes
  <2>3. CASE e.type # "message_stop"
    <3>1. Path(q, body', Place')
      BY <1>1, <1>3, <2>1, <2>2, <2>3, PathOn
    <3> QED
      BY <1>2, <2>1, <3>1 DEF OnItsWay
  <2>4. CASE e.type = "message_stop"
    <3>1. p.open = "none"
      BY <2>2, <2>4 DEF Takes
    <3>2. up.open \notin {"text", "thinking"}
      BY <2>1, <3>1 DEF Place, OpenBlocks
    <3>3. p.next = reader.next /\ reader.active = NoBlock
      BY <1>2, <1>4, <2>1, <3>2 DEF FormInv, ReaderInv, Place
    <3>4. PICK r : r.open = "none" /\ Path(q, body \o LinkEvents(reader), r)
      BY <1>3, <2>1, <3>1, <3>3, LinksPath
    <3>5. body \o LinkEvents(reader) \in Seq(Streamed)
          /\ body \o LinkEvents(reader) \o <<e>> = Append(body \o LinkEvents(reader), e)
      BY <1>3
    <3>6. Takes(r, e, [r EXCEPT !.open = "over"])
      BY <2>4, <3>4 DEF Takes
    <3>7. Path(q, body \o LinkEvents(reader) \o <<e>>, [r EXCEPT !.open = "over"])
      BY <1>3, <3>4, <3>5, <3>6, PathOn
    <3>8. \E x : Path(q, body', x)
      BY <1>1, <2>4, <3>4, <3>7
    <3> QED
      BY <1>2, <1>4, <2>1, <2>4, <3>8 DEF OnItsWay
  <2> QED
    BY <2>3, <2>4
<1>7. reader.at # "gone"
  BY <1>2
<1> QED
  BY <1>2, <1>5, <1>6, <1>7 DEF FormInv

LEMMA DeliverForm ==
    ASSUME StreamInv, FormInv, Deliver
    PROVE  FormInv'
<1>1. reader' = reader \/ reader'.at = "gone"
  <2>1. reader \in Readers
    BY DEF StreamInv, Types
  <2> QED
    BY <2>1, StandsFacts DEF Deliver, Places
<1>2. ~search.hit /\ reader.at # "gone" /\ body # <<>> /\ UNCHANGED <<mode, up>>
  BY DEF Deliver, Readable
<1>3. ReaderInv'
  BY <1>1, <1>2 DEF FormInv, ReaderInv
<1>4. ASSUME mode.api = "claude", mode.stream
      PROVE  Formed(out') /\ (~search'.hit /\ reader'.at # "gone" => OnItsWay')
  <2> DEFINE e == Head(body)
             s == Stopped(e)
             n == NormalizedAll(s.events)
  <2>1. /\ mode \in Modes /\ search \in Searches /\ blocks \in BlockStates /\ fed \in Seq(Letters)
        /\ body \in Seq(Streamed) /\ out \in Seq(Sent)
    BY <1>4 DEF StreamInv, Types
  <2>2. /\ search' = s.search /\ out' = out \o n.events /\ blocks' = [n EXCEPT !.events = <<>>]
        /\ ~s.search.hit => body' = Tail(body) /\ UNCHANGED reader
    BY <1>4 DEF Deliver
  <2>3. e \in Streamed
    BY <1>2, <2>1, HeadTailProperties
  <2>4. search.partial = Begun(fed) /\ NoEnd(fed)
    BY <1>2, <1>4 DEF StreamInv, SearchInv
  <2>5. PICK q, p : /\ Follows(q, blocks, out) /\ Path(q, body, p)
                    /\ reader.at = "reading" /\ up.open # "after" => p = Place
    BY <1>2, <1>4 DEF FormInv, OnItsWay
  <2>6. PICK r : Takes(q, e, r) /\ Path(r, Tail(body), p)
    BY <1>2, <2>1, <2>5, PathFirst
  <2>7. q \in Positions
    BY <2>1, <2>5, PathEnds
  <2> HIDE DEF e
  <2>8. s.events \in Seq(Streamed)
    BY <1>2, <2>1, <2>3, <2>4, StoppedFacts
  <2>9. /\ ~s.search.hit => Path(q, s.events, r)
        /\ \E x : Path(q, s.events, x)
    BY <1>2, <2>3, <2>6, <2>7, <2>8, StoppedPath
  <2> HIDE DEF s
  <2>10. \A x : Path(q, s.events, x) => Follows(x, n, out')
    BY <2>1, <2>2, <2>5, <2>8, PathFollows
  <2>11. n \in BlockStates
    BY <2>1, <2>8, NormalizedTexts
  <2> HIDE DEF n
  <2>12. \A x : Follows(x, n, out') => Formed(out') /\ Follows(x, blocks', out')
    <3>1. blocks'.started = n.started /\ blocks'.stopped = n.stopped
      BY <2>2, <2>11 DEF BlockStates
    <3> QED
      BY <3>1 DEF Follows, StandsAt
  <2>13. Formed(out')
    BY <2>9, <2>10, <2>12
  <2>14. ASSUME ~search'.hit PROVE OnItsWay'
    <3>1. Follows(r, blocks', out')
      BY <2>2, <2>9, <2>10, <2>12, <2>14
    <3>2. body' = Tail(body) /\ reader' = reader
      BY <2>2, <2>14
    <3>3. Place' = Place
      BY <1>2 DEF Place
    <3> QED
      BY <1>2, <2>5, <2>6, <3>1, <3>2, <3>3 DEF OnItsWay
  <2> QED
    BY <2>13, <2>14
<1> QED
  BY <1>2, <1>3, <1>4 DEF FormInv

\* The other steps send nothing, and read nothing of a stream.
LEMMA OtherForm ==
    ASSUME StreamInv, FormInv, End \/ Break \/ Count \/ Merge \/ Leave \/ UNCHANGED vars
    PROVE  FormInv'
<1>1. reader \in Readers
  BY DEF StreamInv, Types
<1>2. UNCHANGED <<mode, search, blocks, out>>
  BY DEF End, Break, Count, Merge, Leave, layers, vars
<1>3. mode.stream => /\ up' = up
                     /\ reader' = reader \/ reader'.at \notin {"reading"}
                     /\ body' = body \/ reader'.at = "gone"
  BY <1>1, StandsFacts DEF End, Break, Count, Merge, Leave, vars, Places
<1>4. ReaderInv'
  BY <1>2, <1>3 DEF FormInv, ReaderInv
<1>5. ASSUME mode.stream, OnItsWay, body' = body PROVE OnItsWay'
  <2>1. Place' = Place
    BY <1>3, <1>5 DEF Place
  <2>2. PICK q, p : /\ Follows(q, blocks, out) /\ Path(q, body, p)
                    /\ reader.at = "reading" /\ up.open # "after" => p = Place
    BY <1>5 DEF OnItsWay
  <2>3. reader'.at = "reading" /\ up'.open # "after" => p = Place'
    BY <1>3, <1>5, <2>1, <2>2
  <2> QED
    BY <1>2, <1>5, <2>2, <2>3 DEF OnItsWay
<1>6. mode.stream /\ reader'.at # "gone" => reader.at # "gone"
  BY <1>1 DEF End, Break, Count, Merge, Leave, vars, Stands, Readers
<1> QED
  BY <1>2, <1>3, <1>4, <1>5, <1>6 DEF FormInv

LEMMA InitForm ==
    ASSUME Init
    PROVE  FormInv
<1>1. /\ up.open = "before" /\ up.next = 0 /\ up.thought = {} /\ reader.active = NoBlock
      /\ reader.next = 0 /\ body = <<>> /\ out = <<>> /\ blocks.started = {} /\ blocks.stopped = {}
  BY DEF Init
<1>2. ReaderInv
  BY <1>1 DEF ReaderInv
<1>3. Place = [next |-> 0, thought |-> {}, open |-> "none"] /\ Place \in Positions
  BY <1>1 DEF Place, OpenBlocks, Positions
<1>4. \A i : StartsIn(<<>>, i) = {} /\ StopsIn(<<>>, i) = {}
  BY DEF StartsIn, StopsIn
<1>5. Formed(<<>>) /\ ~Ended(<<>>)
  BY DEF Formed, Ended
<1>6. StandsAt(<<>>, 0, FALSE)
  BY <1>4, <1>5 DEF StandsAt, Begins, Finishes
<1>7. Follows(Place, blocks, out)
  BY <1>1, <1>3, <1>5, <1>6 DEF Follows, OpenBlocks
<1>8. Path(Place, body, Place)
  BY <1>1, <1>3, PathNone
<1> QED
  BY <1>1, <1>2, <1>5, <1>7, <1>8 DEF FormInv, OnItsWay

\* An event stream for a client of the Claude API is well formed: whatever starts
\* the service leaves out, wherever the links go and wherever the stop layer cuts
\* it off, a block is started once, has its deltas after that and nothing after
\* its stop, blocks do not overlap, and message_stop is last (transform_response,
\* stop_stream, normalize_stream).
THEOREM StreamsAreWellFormed == Spec => []WellFormed
<1>1. StreamInv /\ FormInv /\ [Next]_vars => FormInv'
  BY ReceiveForm, DeliverForm, OtherForm DEF Next
<1>2. ASSUME FormInv PROVE WellFormed
  <2> SUFFICES ASSUME Formed(out) PROVE WellFormed
    BY <1>2 DEF FormInv, WellFormed
  <2>1. \A i : Starts(i) = StartsIn(out, i) /\ Stops(i) = StopsIn(out, i)
    BY DEF Starts, Stops, StartsIn, StopsIn, StartKinds
  <2>2. \A i \in 0..MaxBlocks : i \in Int
    OBVIOUS
  <2> HIDE DEF Starts, Stops, StartsIn, StopsIn
  <2>3. \A j \in DOMAIN out : FormedAt(out, j)
    BY DEF Formed
  <2> QED
    BY <2>1, <2>2, <2>3 DEF WellFormed, FormedAt, StartKinds
<1> QED
  BY Invariance, InitForm, <1>1, <1>2, PTL DEF Spec
=============================================================================
