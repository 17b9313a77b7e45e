----------------------------- MODULE WireProofs -----------------------------
(***************************************************************************)
(* The properties of Wire, for any bytes, heads and frames, any number of  *)
(* frames and cuts, and any pieces in which TCP delivers the bytes.        *)
(*                                                                         *)
(* All of them rest on one fact about Drain (PiecesParsedAlike): what is   *)
(* left of a buffer, with more bytes behind it, is taken apart as the      *)
(* whole would have been.  It holds of every function that, once it has    *)
(* found an item or an error at the front of a buffer, finds the same      *)
(* whatever comes behind (Reads).                                          *)
(***************************************************************************)
EXTENDS Wire, InductionLemmas

-----------------------------------------------------------------------------
(* Sequences. *)

\* What a suffix is.
LEMMA SuffixProperties ==
    ASSUME NEW S, NEW b \in Seq(S), NEW n \in 1..(Len(b) + 1)
    PROVE  /\ Suffix(b, n) \in Seq(S)
           /\ Len(Suffix(b, n)) = Len(b) - n + 1
           /\ \A i \in 1..(Len(b) - n + 1) : Suffix(b, n)[i] = b[n + i - 1]
           /\ n = 1 => Suffix(b, n) = b
           /\ n = Len(b) + 1 => Suffix(b, n) = <<>>
<1>1. Len(b) \in Nat /\ n \in Int /\ Len(b) \in Int
  BY LenProperties
<1>2. \A i \in n..Len(b) : b[i] \in S
  BY <1>1, ElementOfSeq
<1>3. /\ SubSeq(b, n, Len(b)) \in Seq(S)
      /\ Len(SubSeq(b, n, Len(b))) = IF n <= Len(b) THEN Len(b) - n + 1 ELSE 0
      /\ \A i \in 1..(Len(b) - n + 1) : SubSeq(b, n, Len(b))[i] = b[n + i - 1]
  BY <1>1, <1>2, SubSeqProperties
<1>4. n = 1 => SubSeq(b, n, Len(b)) = b
  BY SubSeqFull
<1>5. n = Len(b) + 1 => SubSeq(b, n, Len(b)) = <<>>
  BY <1>1, SubSeqEmpty
<1> QED BY <1>1, <1>3, <1>4, <1>5 DEF Suffix

\* A suffix of a buffer that grows grows with it.
LEMMA SuffixOfConcat ==
    ASSUME NEW S, NEW b \in Seq(S), NEW c \in Seq(S), NEW n \in 1..(Len(b) + 1)
    PROVE  Suffix(b \o c, n) = Suffix(b, n) \o c
<1>1. /\ b \o c \in Seq(S) /\ Len(b \o c) = Len(b) + Len(c)
      /\ \A i \in 1..(Len(b) + Len(c)) : (b \o c)[i] = IF i <= Len(b) THEN b[i] ELSE c[i - Len(b)]
  BY ConcatProperties
<1>2. Len(b) \in Nat /\ Len(c) \in Nat /\ n \in 1..(Len(b \o c) + 1)
  BY <1>1, LenProperties
<1> DEFINE s == Suffix(b, n)
           t == Suffix(b \o c, n)
<1>3. /\ s \in Seq(S) /\ Len(s) = Len(b) - n + 1
      /\ \A i \in 1..(Len(b) - n + 1) : s[i] = b[n + i - 1]
  BY SuffixProperties
<1>4. /\ t \in Seq(S) /\ Len(t) = Len(b \o c) - n + 1
      /\ \A i \in 1..(Len(b \o c) - n + 1) : t[i] = (b \o c)[n + i - 1]
  BY <1>1, <1>2, SuffixProperties
<1> HIDE DEF s, t
<1>5. /\ s \o c \in Seq(S) /\ Len(s \o c) = Len(s) + Len(c)
      /\ \A i \in 1..(Len(s) + Len(c)) : (s \o c)[i] = IF i <= Len(s) THEN s[i] ELSE c[i - Len(s)]
  BY <1>3, ConcatProperties
<1>6. Len(t) = Len(s \o c)
  BY <1>1, <1>2, <1>3, <1>4, <1>5
<1>7. ASSUME NEW i \in 1..Len(t)
      PROVE  t[i] = (s \o c)[i]
  <2>1. i \in 1..(Len(b) + Len(c) - n + 1) /\ i \in 1..(Len(s) + Len(c))
    BY <1>1, <1>2, <1>3, <1>4, <1>5, <1>6
  <2>2. t[i] = (b \o c)[n + i - 1] /\ n + i - 1 \in 1..(Len(b) + Len(c))
    BY <2>1, <1>1, <1>2, <1>4
  <2>3. CASE i <= Len(s)
    <3>1. n + i - 1 <= Len(b) /\ i \in 1..(Len(b) - n + 1)
      BY <2>1, <2>3, <1>2, <1>3
    <3> QED BY <3>1, <2>1, <2>2, <2>3, <1>1, <1>3, <1>5
  <2>4. CASE ~(i <= Len(s))
    <3>1. ~(n + i - 1 <= Len(b)) /\ n + i - 1 - Len(b) = i - Len(s)
      BY <2>1, <2>4, <1>2, <1>3
    <3>2. (b \o c)[n + i - 1] = c[n + i - 1 - Len(b)]
      BY <3>1, <2>2, <1>1
    <3>3. (s \o c)[i] = c[i - Len(s)]
      BY <2>1, <2>4, <1>5
    <3> QED BY <3>1, <3>2, <3>3, <2>2
  <2> QED BY <2>3, <2>4
<1>8. t = s \o c
  BY <1>4, <1>5, <1>6, <1>7, SeqEqual
<1> QED BY <1>8 DEF s, t

\* A buffer is its first bytes and the others.
LEMMA CutAnywhere ==
    ASSUME NEW S, NEW b \in Seq(S), NEW n \in 0..Len(b)
    PROVE  /\ SubSeq(b, 1, n) \in Seq(S) /\ Len(SubSeq(b, 1, n)) = n
           /\ Suffix(b, n + 1) \in Seq(S) /\ Len(Suffix(b, n + 1)) = Len(b) - n
           /\ b = SubSeq(b, 1, n) \o Suffix(b, n + 1)
<1>1. Len(b) \in Nat /\ n \in Nat /\ n + 1 \in 1..(Len(b) + 1)
  BY LenProperties
<1>2. \A i \in 1..n : b[i] \in S
  BY <1>1, ElementOfSeq
<1>3. SubSeq(b, 1, n) \in Seq(S) /\ Len(SubSeq(b, 1, n)) = IF 1 <= n THEN n - 1 + 1 ELSE 0
  BY <1>1, <1>2, SubSeqProperties
<1>4. SubSeq(b, 1, n) \o SubSeq(b, n + 1, Len(b)) = SubSeq(b, 1, Len(b))
  <2>1. 1 \in 1..(Len(b) + 1) /\ n \in (1 - 1)..Len(b) /\ Len(b) \in n..Len(b)
    BY <1>1
  <2> QED BY <2>1, ConcatAdjacentSubSeq
<1>5. SubSeq(b, 1, Len(b)) = b
  BY SubSeqFull
<1>6. Suffix(b, n + 1) \in Seq(S) /\ Len(Suffix(b, n + 1)) = Len(b) - (n + 1) + 1
  BY <1>1, SuffixProperties
<1>7. Len(SubSeq(b, 1, n)) = n /\ Len(Suffix(b, n + 1)) = Len(b) - n
  <2>1. Len(b) - (n + 1) + 1 = Len(b) - n /\ (IF 1 <= n THEN n - 1 + 1 ELSE 0) = n
    BY <1>1
  <2> QED BY <2>1, <1>3, <1>6
<1>8. b = SubSeq(b, 1, n) \o Suffix(b, n + 1)
  BY <1>4, <1>5, Zenon DEF Suffix
<1> QED BY <1>3, <1>6, <1>7, <1>8

\* The same of all sequences at once.
LEMMA Cuts ==
    \A S : \A s \in Seq(S) : \A m \in 0..Len(s) :
        Suffix(s, m + 1) \in Seq(S) /\ s = SubSeq(s, 1, m) \o Suffix(s, m + 1)
BY CutAnywhere

\* Bytes that are there stay where they are when others are added.
LEMMA PartStable ==
    ASSUME NEW B, NEW b \in Seq(B), NEW c \in Seq(B), NEW m \in Nat \ {0}, NEW n \in 0..Len(b)
    PROVE  /\ SubSeq(b \o c, m, n) = SubSeq(b, m, n)
           /\ SubSeq(b, m, n) \in Seq(B)
           /\ Len(SubSeq(b, m, n)) = IF m <= n THEN n - m + 1 ELSE 0
<1>1. Len(b) \in Nat /\ m \in Int /\ n \in Int /\ n \in Nat
  BY LenProperties
<1>2. CASE m <= n
  <2>1. m \in 1..Len(b) /\ n \in 1..Len(b)
    BY <1>1, <1>2
  <2>2. SubSeq(b \o c, m, n) = SubSeq(b, m, n)
    BY <2>1, SubSeqOfConcat1
  <2>3. \A i \in m..n : b[i] \in B
    BY <1>1, <2>1, ElementOfSeq
  <2>4. SubSeq(b, m, n) \in Seq(B) /\ Len(SubSeq(b, m, n)) = IF m <= n THEN n - m + 1 ELSE 0
    BY <1>1, <2>3, SubSeqProperties
  <2> QED BY <2>2, <2>4
<1>3. CASE ~(m <= n)
  <2>1. n < m
    BY <1>1, <1>3
  <2>2. SubSeq(b \o c, m, n) = <<>> /\ SubSeq(b, m, n) = <<>>
    BY <1>1, <2>1, SubSeqEmpty
  <2> QED BY <2>2, <1>3, EmptySeq
<1> QED BY <1>2, <1>3

\* A byte that is there stays.
LEMMA ByteStable ==
    ASSUME NEW B, NEW b \in Seq(B), NEW c \in Seq(B), NEW i \in 1..Len(b)
    PROVE  (b \o c)[i] = b[i] /\ i \in 1..Len(b \o c) /\ Len(b \o c) >= Len(b)
<1>1. Len(b) \in Nat /\ Len(c) \in Nat
  BY LenProperties
<1>2. /\ Len(b \o c) = Len(b) + Len(c)
      /\ \A j \in 1..(Len(b) + Len(c)) : (b \o c)[j] = IF j <= Len(b) THEN b[j] ELSE c[j - Len(b)]
  BY ConcatProperties
<1> QED BY <1>1, <1>2

\* Concatenation, for any three sequences.
LEMMA Concat ==
    ASSUME NEW S
    PROVE  /\ <<>> \in Seq(S) /\ \A s \in Seq(S) : s \o <<>> = s /\ <<>> \o s = s
           /\ \A s, t \in Seq(S) : s \o t \in Seq(S) /\ Len(s \o t) = Len(s) + Len(t)
           /\ \A s, t, u \in Seq(S) : (s \o t) \o u = s \o (t \o u)
           /\ \A s, t, u \in Seq(S) : s \o t = s \o u => t = u
<1>1. <<>> \in Seq(S) /\ \A s \in Seq(S) : s \o <<>> = s /\ <<>> \o s = s
  BY EmptySeq, ConcatEmptySeq
<1>2. \A s, t \in Seq(S) : s \o t \in Seq(S) /\ Len(s \o t) = Len(s) + Len(t)
  BY ConcatProperties
<1>3. \A s, t, u \in Seq(S) : (s \o t) \o u = s \o (t \o u)
  BY ConcatAssociative
<1>4. \A s, t, u \in Seq(S) : s \o t = s \o u => t = u
  BY ConcatSimplifications
<1> QED BY <1>1, <1>2, <1>3, <1>4

\* The bytes between two cuts.
Between(S, a, b, c, d) == \E e \in Seq(S) : c = a \o e /\ b = e \o d

\* The bytes of two cuts of a buffer are those of one, some between the cuts, and those
\* of the other.
LEMMA TwoCuts ==
    ASSUME NEW S, NEW a \in Seq(S), NEW b \in Seq(S), NEW c \in Seq(S), NEW d \in Seq(S),
           a \o b = c \o d, Len(a) <= Len(c)
    PROVE  Between(S, a, b, c, d)
<1>1. Len(a) \in 0..Len(c) /\ Len(a) \in 0..Len(a)
  BY LenProperties
<1> DEFINE e == Suffix(c, Len(a) + 1)
<1>2. e \in Seq(S) /\ c = SubSeq(c, 1, Len(a)) \o e
  <2>1. \A s \in Seq(S) : \A m \in 0..Len(s) :
          Suffix(s, m + 1) \in Seq(S) /\ s = SubSeq(s, 1, m) \o Suffix(s, m + 1)
    BY Cuts, Zenon
  <2> QED BY <1>1, <2>1
<1>3. SubSeq(c, 1, Len(a)) = a
  <2>0. \A s, t \in Seq(S) : \A m \in 0..Len(s) : SubSeq(s \o t, 1, m) = SubSeq(s, 1, m)
    BY PartStable
  <2>1. SubSeq(c \o d, 1, Len(a)) = SubSeq(c, 1, Len(a))
    BY <1>1, <2>0
  <2>2. SubSeq(a \o b, 1, Len(a)) = SubSeq(a, 1, Len(a))
    BY <1>1, <2>0
  <2>3. SubSeq(a, 1, Len(a)) = a
    BY SubSeqFull
  <2> QED BY <2>1, <2>2, <2>3
<1> HIDE DEF e
<1>4. c = a \o e
  BY <1>2, <1>3
<1>5. (a \o e) \o d = a \o (e \o d) /\ e \o d \in Seq(S)
  <2>1. \A s, t, u \in Seq(S) : (s \o t) \o u = s \o (t \o u)
    BY Concat
  <2>2. \A s, t \in Seq(S) : s \o t \in Seq(S)
    BY Concat
  <2>3. e \in Seq(S)
    BY <1>2
  <2>4. (a \o e) \o d = a \o (e \o d)
    BY <2>1, <2>3
  <2>5. e \o d \in Seq(S)
    BY <2>2, <2>3
  <2> QED BY <2>4, <2>5
<1>7. \A s, t, v \in Seq(S) : s \o t = s \o v => t = v
  BY Concat
<1>8. b = e \o d
  <2>1. a \o b = a \o (e \o d)
    BY <1>4, <1>5
  <2> QED BY <2>1, <1>5, <1>7
<1> QED BY <1>2, <1>4, <1>8 DEF Between

\* What a sequence begins with is a prefix of it.
LEMMA PrefixIs ==
    ASSUME NEW S, NEW s \in Seq(S), NEW t \in Seq(S)
    PROVE  IsPrefix(s, s \o t)
<1>1. Len(s) \in 0..Len(s) /\ Len(t) \in Nat /\ Len(s \o t) = Len(s) + Len(t)
  BY LenProperties, ConcatProperties
<1>2. SubSeq(s \o t, 1, Len(s)) = SubSeq(s, 1, Len(s))
  BY <1>1, PartStable
<1> QED BY <1>1, <1>2 DEF IsPrefix

\* One element more.
LEMMA PrefixGrows ==
    ASSUME NEW S, NEW s \in Seq(S), NEW t \in Seq(S), NEW i \in 0..(Len(t) - 1)
    PROVE  /\ t[i + 1] \in S /\ SubSeq(t, 1, i) \in Seq(S)
           /\ Append(s \o SubSeq(t, 1, i), t[i + 1]) = s \o SubSeq(t, 1, i + 1)
<1>1. Len(t) \in Nat
  BY LenProperties
<1>2. i + 1 \in 1..Len(t) /\ 1 \in 1..Len(t) /\ i \in 0..Len(t) /\ (i + 1) - 1 = i
  BY <1>1
<1>3. t[i + 1] \in S /\ SubSeq(t, 1, i) \in Seq(S)
  BY <1>2, ElementOfSeq, PartStable
<1>4. SubSeq(t, 1, i + 1) = SubSeq(t, 1, i) \o <<t[i + 1]>>
  <2>1. SubSeq(t, 1, i + 1) = SubSeq(t, 1, (i + 1) - 1) \o <<t[i + 1]>>
    BY <1>2, SubSeqRecursiveSecond
  <2> QED BY <2>1, <1>2
<1> DEFINE u == SubSeq(t, 1, i)
           x == t[i + 1]
<1>5. s \o u \in Seq(S)
  BY <1>3, ConcatProperties
<1> HIDE DEF u, x
<1>6. Append(s \o u, x) = (s \o u) \o <<x>>
  BY <1>3, <1>5, AppendIsConcat DEF x
<1>7. <<x>> \in Seq(S)
  BY <1>3 DEF x
<1>8. (s \o u) \o <<x>> = s \o (u \o <<x>>)
  <2>1. u \in Seq(S)
    BY <1>3 DEF u
  <2> QED BY <2>1, <1>7, Concat
<1> QED BY <1>3, <1>4, <1>6, <1>8 DEF u, x

-----------------------------------------------------------------------------
(* Drain. *)

Results == {"SUCCESS", "INCOMPLETE", "PROTOCOL_ERROR"}

\* A function that finds items of I in buffers over B: what it has found, an item or an
\* error, stays found when bytes are added.
Reads(one, B, I) == \A b \in Seq(B) : b # <<>> =>
    /\ one[b].result \in Results
    /\ one[b].result = "SUCCESS" => one[b].item \in I /\ one[b].next \in 2..(Len(b) + 1)
    /\ one[b].result # "INCOMPLETE" => \A c \in Seq(B) : one[b \o c] = one[b]

\* The states of Drain.
State(B, I) == [result : Results, items : Seq(I \ {<<>>}), rest : Seq(B)]

Opening(b) == [result |-> "SUCCESS", items |-> <<>>, rest |-> b]

\* The state s, with items in front of its own.
Ahead(items, s) == [result |-> s.result, items |-> items \o s.items, rest |-> s.rest]

\* f repeats Round n times from s.
IsRun(one, X, s, f, n) ==
    f \in [0..n -> X] /\ f[0] = s /\ \A i \in 1..n : f[i] = Round(one, f[i - 1])

\* The items that an item adds.
Kept(item) == IF item = <<>> THEN <<>> ELSE <<item>>

\* The four cases of a round.
RoundLaw(one, s) ==
    /\ s.result # "SUCCESS" \/ s.rest = <<>> => Round(one, s) = s
    /\ s.result = "SUCCESS" /\ s.rest # <<>> =>
         /\ one[s.rest].result = "INCOMPLETE" =>
              Round(one, s) = [result |-> "INCOMPLETE", items |-> s.items, rest |-> s.rest]
         /\ one[s.rest].result = "PROTOCOL_ERROR" =>
              Round(one, s) = [result |-> "PROTOCOL_ERROR", items |-> s.items, rest |-> <<>>]
         /\ one[s.rest].result = "SUCCESS" =>
              Round(one, s) = [result |-> "SUCCESS", items |-> s.items \o Kept(one[s.rest].item),
                               rest |-> Suffix(s.rest, one[s.rest].next)]

\* A round is one of the four cases.
LEMMA RoundCases ==
    ASSUME NEW B, NEW I, NEW one, Reads(one, B, I), NEW s \in State(B, I)
    PROVE  RoundLaw(one, s)
<1>1. CASE s.result # "SUCCESS" \/ s.rest = <<>>
  BY <1>1 DEF Round, RoundLaw
<1>2. CASE s.result = "SUCCESS" /\ s.rest # <<>>
  <2>1. s.items \in Seq(I \ {<<>>}) /\ s.rest \in Seq(B)
    BY DEF State
  <2>2. s = [result |-> s.result, items |-> s.items, rest |-> s.rest]
    BY DEF State
  <2>3. ASSUME one[s.rest].result = "SUCCESS"
        PROVE  (IF one[s.rest].item = <<>> THEN s.items ELSE Append(s.items, one[s.rest].item))
                 = s.items \o Kept(one[s.rest].item)
    <3>1. one[s.rest].item \in I
      BY <1>2, <2>1, <2>3 DEF Reads
    <3>2. CASE one[s.rest].item = <<>>
      BY <3>2, <2>1, ConcatEmptySeq DEF Kept
    <3>3. CASE one[s.rest].item # <<>>
      <4>1. one[s.rest].item \in I \ {<<>>}
        BY <3>1, <3>3
      <4>2. Append(s.items, one[s.rest].item) = s.items \o <<one[s.rest].item>>
        BY <4>1, <2>1, AppendIsConcat
      <4> QED BY <4>2, <3>3, Zenon DEF Kept
    <3> QED BY <3>2, <3>3
  <2> DEFINE r == one[s.rest]
             next == s.items \o Kept(r.item)
  <2>4. r.result = "INCOMPLETE" =>
          Round(one, s) = [result |-> "INCOMPLETE", items |-> s.items, rest |-> s.rest]
    BY <1>2, <2>2 DEF Round
  <2>5. r.result = "PROTOCOL_ERROR" =>
          Round(one, s) = [result |-> "PROTOCOL_ERROR", items |-> s.items, rest |-> <<>>]
    BY <1>2, <2>2 DEF Round
  <2>6. r.result = "SUCCESS" =>
          Round(one, s) = [result |-> "SUCCESS", items |-> next, rest |-> Suffix(s.rest, r.next)]
    <3> SUFFICES ASSUME r.result = "SUCCESS"
                 PROVE  Round(one, s)
                          = [result |-> "SUCCESS", items |-> next, rest |-> Suffix(s.rest, r.next)]
      OBVIOUS
    <3>1. Round(one, s) =
            [result |-> "SUCCESS", rest |-> Suffix(s.rest, r.next),
             items |-> IF r.item = <<>> THEN s.items ELSE Append(s.items, r.item)]
      BY <1>2 DEF Round
    <3> QED BY <3>1, <2>3
  <2> QED BY <1>2, <2>4, <2>5, <2>6 DEF RoundLaw
<1> QED BY <1>1, <1>2

\* Rounds keep the type of the state.
LEMMA RoundInState ==
    ASSUME NEW B, NEW I, NEW one, Reads(one, B, I), NEW s \in State(B, I)
    PROVE  Round(one, s) \in State(B, I)
<1>1. s.items \in Seq(I \ {<<>>}) /\ s.rest \in Seq(B) /\ s.result \in Results
  BY DEF State
<1>0. RoundLaw(one, s)
  BY RoundCases
<1>2. CASE s.result # "SUCCESS" \/ s.rest = <<>>
  BY <1>0, <1>2 DEF RoundLaw
<1>3. CASE s.result = "SUCCESS" /\ s.rest # <<>>
  <2> DEFINE r == one[s.rest]
  <2>1. r.result \in Results
    BY <1>1, <1>3 DEF Reads
  <2>2. CASE r.result = "INCOMPLETE"
    <3>1. Round(one, s) = [result |-> "INCOMPLETE", items |-> s.items, rest |-> s.rest]
      BY <1>3, <2>2, <1>0 DEF RoundLaw
    <3> QED BY <3>1, <1>1 DEF State, Results
  <2>3. CASE r.result = "PROTOCOL_ERROR"
    <3>1. Round(one, s) = [result |-> "PROTOCOL_ERROR", items |-> s.items, rest |-> <<>>]
      BY <1>3, <2>3, <1>0 DEF RoundLaw
    <3> QED BY <3>1, <1>1, EmptySeq DEF State, Results
  <2>4. CASE r.result = "SUCCESS"
    <3>1. r.item \in I /\ r.next \in 2..(Len(s.rest) + 1)
      BY <1>1, <1>3, <2>4 DEF Reads
    <3>2. Round(one, s) = [result |-> "SUCCESS", items |-> s.items \o Kept(r.item),
                           rest |-> Suffix(s.rest, r.next)]
      BY <1>3, <2>4, <1>0 DEF RoundLaw
    <3>3. Kept(r.item) \in Seq(I \ {<<>>})
      <4>1. CASE r.item = <<>>
        BY <4>1, EmptySeq DEF Kept
      <4>2. CASE r.item # <<>>
        <5>1. r.item \in I \ {<<>>}
          BY <4>2, <3>1
        <5> QED BY <5>1, <4>2 DEF Kept
      <4> QED BY <4>1, <4>2
    <3>4. s.items \o Kept(r.item) \in Seq(I \ {<<>>})
      BY <3>3, <1>1, ConcatProperties
    <3>5. Suffix(s.rest, r.next) \in Seq(B)
      <4>1. r.next \in 1..(Len(s.rest) + 1)
        BY <3>1, <1>1, LenProperties
      <4> QED BY <4>1, <1>1, SuffixProperties
    <3> QED BY <3>2, <3>4, <3>5 DEF State, Results
  <2> QED BY <2>1, <2>2, <2>3, <2>4 DEF Results
<1> QED BY <1>2, <1>3

\* From any state, rounds can be repeated.
LEMMA RunFrom ==
    ASSUME NEW B, NEW I, NEW one, Reads(one, B, I), NEW s \in State(B, I), NEW n \in Nat
    PROVE  \E f : IsRun(one, State(B, I), s, f, n)
<1> DEFINE X == State(B, I)
           step == [p \in X \X Nat |-> Round(one, p[1])]
<1>1. \A x \in X : \A i \in 1..n : step[<<x, i>>] = Round(one, x)
  OBVIOUS
<1>2. \A x \in X : Round(one, x) \in X
  BY RoundInState
<1> HIDE DEF X, step
<1>3. \A x \in X : \A i \in 1..n : step[<<x, i>>] \in X
  BY <1>1, <1>2
<1>4. s \in X
  BY DEF X
<1>5. PICK f : Repeats(f, n, X, s, step)
  BY <1>3, <1>4, RunExists
<1>6. f \in [0..n -> X] /\ f[0] = s /\ \A i \in 1..n : f[i] = step[<<f[i - 1], i>>]
  BY <1>5 DEF Repeats
<1>7. \A i \in 1..n : f[i - 1] \in X
  BY <1>6
<1>8. \A i \in 1..n : f[i] = Round(one, f[i - 1])
  BY <1>6, <1>7, <1>1
<1> QED BY <1>6, <1>8 DEF IsRun, X

\* Drain repeats Round, once for each byte.
LEMMA DrainRun ==
    ASSUME NEW B, NEW I, NEW one, Reads(one, B, I), NEW b \in Seq(B)
    PROVE  \E f : IsRun(one, State(B, I), Opening(b), f, Len(b)) /\ Drain(one, b) = f[Len(b)]
<1> DEFINE n == Len(b)
           X == State(B, I)
           Law(g) == g = [i \in 0..n |->
                            IF i = 0 THEN [result |-> "SUCCESS", items |-> <<>>, rest |-> b]
                            ELSE Round(one, g[i - 1])]
           after == CHOOSE g : Law(g)
           P == {i \in 0..n : after[i] \in X}
<1>0. Drain(one, b) = after[n]
  BY Zenon DEF Drain
<1>1. n \in Nat
  BY LenProperties
<1>2. Opening(b) \in X
  <2>1. <<>> \in Seq(I \ {<<>>})
    BY EmptySeq
  <2> QED BY <2>1 DEF Opening, State, Results
<1> HIDE DEF n
<1>3. PICK f : IsRun(one, X, Opening(b), f, n)
  BY <1>1, <1>2, RunFrom
<1>4. Law(f)
  <2> HIDE DEF X
  <2>1. /\ f = [i \in 0..n |-> f[i]] /\ f[0] = Opening(b)
        /\ \A i \in 1..n : f[i] = Round(one, f[i - 1])
    BY <1>3 DEF IsRun
  <2>2. \A i \in 0..n : f[i] = IF i = 0 THEN Opening(b) ELSE Round(one, f[i - 1])
    BY <1>1, <2>1
  <2> QED BY <2>1, <2>2, Zenon DEF Opening
<1>5. Law(after)
  <2> HIDE DEF Law
  <2> QED BY <1>4, Zenon
<1> HIDE DEF after
<1>6. \A i \in 0..n : after[i] = IF i = 0 THEN Opening(b) ELSE Round(one, after[i - 1])
  BY <1>5 DEF Opening
<1>7. 0 \in P /\ after[0] = Opening(b)
  BY <1>1, <1>2, <1>6
<1>8. ASSUME NEW i \in 0..(n - 1), i \in P
      PROVE  i + 1 \in P
  <2>1. i + 1 \in 0..n /\ i + 1 # 0 /\ (i + 1) - 1 = i
    BY <1>1
  <2>2. after[i + 1] = Round(one, after[i])
    BY <1>6, <2>1
  <2>3. after[i] \in X
    BY <1>8
  <2>4. Round(one, after[i]) \in X
    BY <2>3, RoundInState
  <2> HIDE DEF X
  <2> QED BY <2>1, <2>2, <2>4
<1> HIDE DEF P
<1>9. 0..n \subseteq P
  BY <1>1, <1>7, <1>8, UpTo
<1>10. IsRun(one, X, Opening(b), after, n)
  <2>1. \A i \in 0..n : after[i] \in X
    BY <1>9 DEF P
  <2>2. after = [i \in 0..n |-> after[i]]
    BY <1>5
  <2>3. \A i \in 1..n : after[i] = Round(one, after[i - 1])
    BY <1>1, <1>6
  <2> HIDE DEF X, Law
  <2> QED BY <2>1, <2>2, <2>3, <1>7 DEF IsRun
<1> QED BY <1>0, <1>10, Zenon DEF n, X

\* A state that no round changes.
Settled(s) == s.result # "SUCCESS" \/ s.rest = <<>>

\* A run of one round for each byte ends settled.
LEMMA RunSettles ==
    ASSUME NEW B, NEW I, NEW one, Reads(one, B, I), NEW s \in State(B, I), NEW f,
           IsRun(one, State(B, I), s, f, Len(s.rest))
    PROVE  Settled(f[Len(s.rest)])
<1> DEFINE n == Len(s.rest)
           X == State(B, I)
           P == {i \in 0..n : Settled(f[i]) \/ Len(f[i].rest) <= n - i}
<1>1. n \in Nat
  BY LenProperties DEF State
<1>2. 0 \in P
  <2>1. f[0] = s
    BY DEF IsRun
  <2> QED BY <2>1, <1>1
<1>3. ASSUME NEW i \in 0..(n - 1), i \in P
      PROVE  i + 1 \in P
  <2>1. i + 1 \in 0..n /\ i + 1 \in 1..n /\ (i + 1) - 1 = i
    BY <1>1
  <2>2. f[i + 1] = Round(one, f[i]) /\ f[i] \in X
    <3>1. i \in 0..n
      BY <1>1
    <3> HIDE DEF X, n
    <3> QED BY <2>1, <3>1 DEF IsRun, X, n
  <2>3. RoundLaw(one, f[i])
    BY <2>2, RoundCases
  <2> DEFINE r == one[f[i].rest]
  <2>4. CASE Settled(f[i])
    <3>1. f[i + 1] = f[i]
      BY <2>2, <2>3, <2>4 DEF Settled, RoundLaw
    <3> QED BY <3>1, <2>1, <2>4
  <2>5. CASE ~Settled(f[i])
    <3>1. Len(f[i].rest) <= n - i /\ f[i].rest \in Seq(B)
      BY <1>3, <2>2, <2>5 DEF State
    <3>2. f[i].result = "SUCCESS" /\ f[i].rest # <<>>
      BY <2>5 DEF Settled
    <3>3. r.result \in Results
      BY <3>1, <3>2 DEF Reads
    <3>4. CASE r.result # "SUCCESS"
      <4>1. f[i + 1].result # "SUCCESS"
        BY <2>2, <2>3, <3>2, <3>3, <3>4 DEF RoundLaw, Results
      <4> QED BY <4>1, <2>1 DEF Settled
    <3>5. CASE r.result = "SUCCESS"
      <4>1. r.next \in 2..(Len(f[i].rest) + 1)
        BY <3>1, <3>2, <3>5 DEF Reads
      <4>2. f[i + 1].rest = Suffix(f[i].rest, r.next)
        BY <2>2, <2>3, <3>2, <3>5 DEF RoundLaw
      <4>3. Len(Suffix(f[i].rest, r.next)) = Len(f[i].rest) - r.next + 1
        <5>1. r.next \in 1..(Len(f[i].rest) + 1)
          BY <4>1
        <5> QED BY <3>1, <5>1, SuffixProperties
      <4>4. Len(f[i].rest) \in Nat
        BY <3>1, LenProperties
      <4>5. Len(f[i + 1].rest) <= n - (i + 1)
        <5> HIDE DEF n
        <5>1. \A a \in Nat : \A x \in 2..(a + 1) : a <= n - i => a - x + 1 <= n - (i + 1)
          BY <1>1
        <5> QED BY <5>1, <3>1, <4>1, <4>2, <4>3, <4>4
      <4> QED BY <4>5, <2>1
    <3> QED BY <3>4, <3>5
  <2> QED BY <2>4, <2>5
<1> HIDE DEF P
<1>4. n \in P
  <2> HIDE DEF n
  <2>1. 0..n \subseteq P
    BY <1>1, <1>2, <1>3, UpTo
  <2> QED BY <1>1, <2>1
<1>5. CASE ~Settled(f[n])
  <2>1. Len(f[n].rest) <= n - n
    BY <1>4, <1>5 DEF P
  <2>2. f[n].rest \in Seq(B)
    <3>1. n \in 0..n
      BY <1>1
    <3>2. f[n] \in State(B, I)
      BY <3>1 DEF IsRun
    <3> QED BY <3>2 DEF State
  <2>3. Len(f[n].rest) \in Nat
    BY <2>2, LenProperties
  <2>4. Len(f[n].rest) = 0
    BY <1>1, <2>1, <2>3
  <2>5. f[n].rest = <<>>
    BY <2>2, <2>4, EmptySeq
  <2> QED BY <2>5 DEF Settled
<1> QED BY <1>5

\* Whatever the number of rounds, runs of a state that settle end alike.
LEMMA RunsMeet ==
    ASSUME NEW B, NEW I, NEW one, Reads(one, B, I), NEW s \in State(B, I),
           NEW n \in Nat, NEW m \in Nat, n <= m, NEW f, NEW g,
           IsRun(one, State(B, I), s, f, n), IsRun(one, State(B, I), s, g, m), Settled(f[n])
    PROVE  g[m] = f[n]
<1> DEFINE X == State(B, I)
           P == {i \in 0..m : g[i] = f[IF i <= n THEN i ELSE n]}
<1>1. /\ f \in [0..n -> X] /\ f[0] = s /\ \A i \in 1..n : f[i] = Round(one, f[i - 1])
      /\ g \in [0..m -> X] /\ g[0] = s /\ \A i \in 1..m : g[i] = Round(one, g[i - 1])
  BY DEF IsRun
<1>2. Round(one, f[n]) = f[n]
  <2>1. f[n] \in X
    BY <1>1
  <2>2. RoundLaw(one, f[n])
    BY <2>1, RoundCases
  <2> QED BY <2>2 DEF RoundLaw, Settled
<1> HIDE DEF X
<1>3. 0 \in P
  BY <1>1
<1>4. ASSUME NEW i \in 0..(m - 1), i \in P
      PROVE  i + 1 \in P
  <2>1. i + 1 \in 1..m /\ i + 1 \in 0..m /\ (i + 1) - 1 = i
    OBVIOUS
  <2>2. g[i + 1] = Round(one, g[i])
    BY <1>1, <2>1
  <2>3. CASE i + 1 <= n
    <3>1. i + 1 \in 1..n /\ g[i] = f[i]
      BY <1>4, <2>3
    <3>2. f[i + 1] = Round(one, f[i])
      BY <1>1, <2>1, <3>1
    <3> QED BY <2>1, <2>2, <2>3, <3>1, <3>2
  <2>4. CASE ~(i + 1 <= n)
    <3>1. g[i] = f[n]
      <4>1. i <= n => i = n
        BY <2>4
      <4> QED BY <1>4, <4>1
    <3> QED BY <2>1, <2>2, <2>4, <3>1, <1>2
  <2> QED BY <2>3, <2>4
<1> HIDE DEF P
<1>5. m \in P
  <2>1. 0..m \subseteq P
    BY <1>3, <1>4, UpTo
  <2> QED BY <2>1
<1>6. m <= n => m = n
  OBVIOUS
<1> QED BY <1>5, <1>6 DEF P

\* Items in front of a state's own make no difference to a round.
LEMMA RoundAhead ==
    ASSUME NEW B, NEW I, NEW one, Reads(one, B, I), NEW s \in State(B, I),
           NEW items \in Seq(I \ {<<>>})
    PROVE  /\ Ahead(items, s) \in State(B, I)
           /\ Round(one, Ahead(items, s)) = Ahead(items, Round(one, s))
<1> DEFINE t == Ahead(items, s)
           r == one[s.rest]
<1>1. s.items \in Seq(I \ {<<>>}) /\ s.rest \in Seq(B) /\ s.result \in Results
  BY DEF State
<1>2. t.result = s.result /\ t.rest = s.rest /\ t.items = items \o s.items
  BY DEF Ahead
<1>3. t \in State(B, I)
  <2>1. items \o s.items \in Seq(I \ {<<>>})
    BY <1>1, ConcatProperties
  <2> QED BY <2>1, <1>1 DEF Ahead, State
<1>4. RoundLaw(one, s) /\ RoundLaw(one, t)
  <2> HIDE DEF t
  <2> QED BY <1>3, RoundCases
<1> HIDE DEF t
<1>5. CASE s.result # "SUCCESS" \/ s.rest = <<>>
  <2>1. Round(one, s) = s /\ Round(one, t) = t
    BY <1>2, <1>4, <1>5 DEF RoundLaw
  <2> QED BY <2>1, <1>3 DEF t
<1>6. CASE s.result = "SUCCESS" /\ s.rest # <<>>
  <2>1. r.result \in Results
    BY <1>1, <1>6 DEF Reads
  <2>2. CASE r.result = "INCOMPLETE"
    <3>1. /\ Round(one, s) = [result |-> "INCOMPLETE", items |-> s.items, rest |-> s.rest]
          /\ Round(one, t) = [result |-> "INCOMPLETE", items |-> items \o s.items, rest |-> s.rest]
      BY <1>2, <1>4, <1>6, <2>2 DEF RoundLaw
    <3> QED BY <3>1, <1>3 DEF t, Ahead
  <2>3. CASE r.result = "PROTOCOL_ERROR"
    <3>1. /\ Round(one, s) = [result |-> "PROTOCOL_ERROR", items |-> s.items, rest |-> <<>>]
          /\ Round(one, t) = [result |-> "PROTOCOL_ERROR", items |-> items \o s.items, rest |-> <<>>]
      BY <1>2, <1>4, <1>6, <2>3 DEF RoundLaw
    <3> QED BY <3>1, <1>3 DEF t, Ahead
  <2>4. CASE r.result = "SUCCESS"
    <3> DEFINE more == Kept(r.item)
               left == Suffix(s.rest, r.next)
    <3>1. /\ Round(one, s) = [result |-> "SUCCESS", items |-> s.items \o more, rest |-> left]
          /\ Round(one, t) = [result |-> "SUCCESS", items |-> (items \o s.items) \o more,
                              rest |-> left]
      BY <1>2, <1>4, <1>6, <2>4 DEF RoundLaw
    <3>2. more \in Seq(I \ {<<>>})
      <4>1. r.item \in I
        BY <1>1, <1>6, <2>4 DEF Reads
      <4>2. CASE r.item = <<>>
        BY <4>2, EmptySeq DEF Kept
      <4>3. CASE r.item # <<>>
        <5>1. r.item \in I \ {<<>>}
          BY <4>1, <4>3
        <5> QED BY <5>1, <4>3 DEF Kept
      <4> QED BY <4>2, <4>3
    <3> HIDE DEF more, left
    <3>3. (items \o s.items) \o more = items \o (s.items \o more)
      <4> DEFINE J == I \ {<<>>}
      <4>1. items \in Seq(J) /\ s.items \in Seq(J) /\ more \in Seq(J)
        BY <1>1, <3>2
      <4> HIDE DEF J
      <4>2. \A x, y, z \in Seq(J) : (x \o y) \o z = x \o (y \o z)
        BY ConcatAssociative
      <4> QED BY <4>1, <4>2
    <3> QED BY <3>1, <3>3, <1>3 DEF t, Ahead
  <2> QED BY <2>1, <2>2, <2>3, <2>4 DEF Results
<1> QED BY <1>5, <1>6

\* What is drained is settled, and of the type of the state.
LEMMA DrainSettles ==
    ASSUME NEW B, NEW I, NEW one, Reads(one, B, I), NEW b \in Seq(B)
    PROVE  Drain(one, b) \in State(B, I) /\ Settled(Drain(one, b))
<1>1. PICK f : IsRun(one, State(B, I), Opening(b), f, Len(b)) /\ Drain(one, b) = f[Len(b)]
  BY DrainRun
<1>2. Opening(b) \in State(B, I) /\ Opening(b).rest = b
  <2>1. <<>> \in Seq(I \ {<<>>})
    BY EmptySeq
  <2> QED BY <2>1 DEF Opening, State, Results
<1>3. Settled(f[Len(b)])
  <2> DEFINE s == Opening(b)
  <2>1. s \in State(B, I) /\ Len(s.rest) = Len(b)
    BY <1>2
  <2> HIDE DEF s
  <2>2. IsRun(one, State(B, I), s, f, Len(s.rest))
    BY <1>1, <2>1 DEF s
  <2> QED BY <2>1, <2>2, RunSettles
<1>4. f[Len(b)] \in State(B, I)
  <2>1. Len(b) \in 0..Len(b)
    BY LenProperties
  <2> QED BY <1>1, <2>1 DEF IsRun
<1> QED BY <1>1, <1>3, <1>4

\* The run that settles a state is what Drain gives.
LEMMA DrainIs ==
    ASSUME NEW B, NEW I, NEW one, Reads(one, B, I), NEW b \in Seq(B), NEW n \in 0..Len(b), NEW g,
           IsRun(one, State(B, I), Opening(b), g, n), Settled(g[n])
    PROVE  Drain(one, b) = g[n]
<1>1. PICK f : IsRun(one, State(B, I), Opening(b), f, Len(b)) /\ Drain(one, b) = f[Len(b)]
  BY DrainRun
<1>2. Opening(b) \in State(B, I)
  <2>1. <<>> \in Seq(I \ {<<>>})
    BY EmptySeq
  <2> QED BY <2>1 DEF Opening, State, Results
<1>3. n \in Nat /\ Len(b) \in Nat /\ n <= Len(b)
  BY LenProperties
<1>4. f[Len(b)] = g[n]
  BY <1>1, <1>2, <1>3, RunsMeet
<1> QED BY <1>1, <1>4

\* What Drain gives, by what is found at the front.
DrainLaw(one, b) ==
    /\ b = <<>> => Drain(one, b) = [result |-> "SUCCESS", items |-> <<>>, rest |-> <<>>]
    /\ b # <<>> =>
         /\ one[b].result = "INCOMPLETE" =>
              Drain(one, b) = [result |-> "INCOMPLETE", items |-> <<>>, rest |-> b]
         /\ one[b].result = "PROTOCOL_ERROR" =>
              Drain(one, b) = [result |-> "PROTOCOL_ERROR", items |-> <<>>, rest |-> <<>>]
         /\ one[b].result = "SUCCESS" =>
              Drain(one, b) = Ahead(Kept(one[b].item), Drain(one, Suffix(b, one[b].next)))

\* When something other than an item is found at the front, Drain ends with it.
LEMMA DrainStops ==
    ASSUME NEW B, NEW I, NEW one, Reads(one, B, I), NEW b \in Seq(B), b # <<>>,
           one[b].result # "SUCCESS"
    PROVE  Drain(one, b) = Round(one, Opening(b))
<1> DEFINE X == State(B, I)
           g == [i \in 0..1 |-> IF i = 0 THEN Opening(b) ELSE Round(one, Opening(b))]
<1>1. Opening(b) \in X
  <2>1. <<>> \in Seq(I \ {<<>>})
    BY EmptySeq
  <2> QED BY <2>1 DEF Opening, State, Results
<1>2. Round(one, Opening(b)) \in X
  BY <1>1, RoundInState
<1>3. IsRun(one, X, Opening(b), g, 1)
  <2> HIDE DEF X
  <2>1. g \in [0..1 -> X] /\ g[0] = Opening(b) /\ g[1] = Round(one, Opening(b))
    BY <1>1, <1>2
  <2>2. \A i \in 1..1 : i = 1 /\ i - 1 = 0
    OBVIOUS
  <2> HIDE DEF g
  <2> QED BY <2>1, <2>2 DEF IsRun
<1>4. Settled(g[1])
  <2>1. g[1] = Round(one, Opening(b))
    OBVIOUS
  <2>2. RoundLaw(one, Opening(b))
    BY <1>1, RoundCases
  <2>3. one[b].result \in {"INCOMPLETE", "PROTOCOL_ERROR"}
    BY DEF Reads, Results
  <2>4. Opening(b).rest = b /\ Opening(b).result = "SUCCESS"
    BY DEF Opening
  <2>5. Round(one, Opening(b)).result # "SUCCESS"
    BY <2>2, <2>3, <2>4 DEF RoundLaw
  <2> HIDE DEF g
  <2> QED BY <2>1, <2>5 DEF Settled
<1>5. 1 \in 0..Len(b) /\ g[1] = Round(one, Opening(b))
  BY EmptySeq
<1> HIDE DEF g
<1>6. Drain(one, b) = g[1]
  BY <1>3, <1>4, <1>5, DrainIs DEF X
<1> QED BY <1>5, <1>6

\* When an item is found at the front, what follows it is drained.
LEMMA DrainGoesOn ==
    ASSUME NEW B, NEW I, NEW one, Reads(one, B, I), NEW b \in Seq(B), b # <<>>,
           one[b].result = "SUCCESS"
    PROVE  Drain(one, b) = Ahead(Kept(one[b].item), Drain(one, Suffix(b, one[b].next)))
<1> DEFINE X == State(B, I)
           kept == Kept(one[b].item)
           c == Suffix(b, one[b].next)
           n == Len(c)
<1>1. one[b].item \in I /\ one[b].next \in 2..(Len(b) + 1)
  BY DEF Reads
<1>2. c \in Seq(B) /\ n \in Nat /\ n + 1 \in 0..Len(b)
  <2>1. one[b].next \in 1..(Len(b) + 1)
    BY <1>1
  <2>2. c \in Seq(B) /\ n = Len(b) - one[b].next + 1 /\ Len(b) \in Nat
    BY <2>1, SuffixProperties, LenProperties
  <2>3. n \in Nat
    BY <2>2, LenProperties
  <2>4. n + 1 <= Len(b)
    BY <1>1, <2>2
  <2> HIDE DEF n, c
  <2> QED BY <2>2, <2>3, <2>4
<1>3. kept \in Seq(I \ {<<>>})
  <2>1. CASE one[b].item = <<>>
    BY <2>1, EmptySeq DEF Kept
  <2>2. CASE one[b].item # <<>>
    <3>1. one[b].item \in I \ {<<>>}
      BY <1>1, <2>2
    <3> QED BY <3>1, <2>2 DEF Kept
  <2> QED BY <2>1, <2>2
<1>4. Opening(b) \in X /\ Opening(c) \in X
  <2>1. <<>> \in Seq(I \ {<<>>})
    BY EmptySeq
  <2> QED BY <2>1, <1>2 DEF Opening, State, Results
<1>5. Round(one, Opening(b)) = Ahead(kept, Opening(c))
  <2>1. RoundLaw(one, Opening(b))
    BY <1>4, RoundCases
  <2>2. Opening(b).rest = b /\ Opening(b).result = "SUCCESS" /\ Opening(b).items = <<>>
    BY DEF Opening
  <2>3. Round(one, Opening(b)) = [result |-> "SUCCESS", items |-> <<>> \o kept, rest |-> c]
    <3> HIDE DEF kept
    <3> QED BY <2>1, <2>2 DEF RoundLaw, kept
  <2>4. <<>> \o kept = kept /\ kept \o <<>> = kept
    BY <1>3, ConcatEmptySeq
  <2>5. Ahead(kept, Opening(c)) = [result |-> "SUCCESS", items |-> kept \o <<>>, rest |-> c]
    BY DEF Ahead, Opening
  <2> QED BY <2>3, <2>4, <2>5
<1> HIDE DEF kept, c, X, n
<1>6. PICK f : IsRun(one, X, Opening(c), f, n) /\ Drain(one, c) = f[n]
  BY <1>2, DrainRun DEF X, n
<1>7. f \in [0..n -> X] /\ f[0] = Opening(c) /\ \A i \in 1..n : f[i] = Round(one, f[i - 1])
  BY <1>6 DEF IsRun
<1>8. \A s \in X : Ahead(kept, s) \in X /\ Round(one, Ahead(kept, s)) = Ahead(kept, Round(one, s))
  BY <1>3, RoundAhead DEF X
<1> DEFINE g == [i \in 0..(n + 1) |-> IF i = 0 THEN Opening(b) ELSE Ahead(kept, f[i - 1])]
<1>9. g \in [0..(n + 1) -> X]
  <2>1. ASSUME NEW i \in 0..(n + 1), i # 0
        PROVE  Ahead(kept, f[i - 1]) \in X
    <3>1. i - 1 \in 0..n
      BY <1>2, <2>1
    <3> QED BY <3>1, <1>7, <1>8
  <2> QED BY <2>1, <1>4
<1>10. g[0] = Opening(b)
  BY <1>2
<1>11. ASSUME NEW i \in 1..(n + 1)
       PROVE  g[i] = Round(one, g[i - 1])
  <2>1. i \in 0..(n + 1) /\ i # 0 /\ i - 1 \in 0..(n + 1)
    BY <1>2
  <2>2. g[i] = Ahead(kept, f[i - 1])
    BY <2>1
  <2>3. CASE i = 1
    BY <2>2, <2>3, <1>5, <1>7, <1>10
  <2>4. CASE i # 1
    <3>1. i - 1 \in 1..n /\ (i - 1) - 1 \in 0..n
      BY <1>2, <2>4
    <3>2. g[i - 1] = Ahead(kept, f[(i - 1) - 1])
      BY <2>1, <3>1
    <3>3. f[i - 1] = Round(one, f[(i - 1) - 1]) /\ f[(i - 1) - 1] \in X
      BY <3>1, <1>7
    <3> HIDE DEF g
    <3> QED BY <2>2, <3>2, <3>3, <1>8
  <2> QED BY <2>3, <2>4
<1>12. IsRun(one, X, Opening(b), g, n + 1)
  <2> HIDE DEF g
  <2> QED BY <1>9, <1>10, <1>11 DEF IsRun
<1>13. g[n + 1] = Ahead(kept, Drain(one, c))
  <2>1. n + 1 \in 0..(n + 1) /\ n + 1 # 0 /\ (n + 1) - 1 = n
    BY <1>2
  <2> QED BY <2>1, <1>6
<1>14. Settled(g[n + 1])
  <2>1. Settled(Drain(one, c))
    BY <1>2, DrainSettles
  <2> HIDE DEF g
  <2> QED BY <2>1, <1>13 DEF Settled, Ahead
<1> HIDE DEF g
<1>15. Drain(one, b) = g[n + 1]
  BY <1>2, <1>12, <1>14, DrainIs DEF X
<1> QED BY <1>13, <1>15 DEF kept, c

\* Drain gives one of four things.
LEMMA DrainCases ==
    ASSUME NEW B, NEW I, NEW one, Reads(one, B, I), NEW b \in Seq(B)
    PROVE  DrainLaw(one, b)
<1>1. Opening(b) \in State(B, I)
  <2>1. <<>> \in Seq(I \ {<<>>})
    BY EmptySeq
  <2> QED BY <2>1 DEF Opening, State, Results
<1>2. CASE b = <<>>
  <2>1. PICK f : IsRun(one, State(B, I), Opening(b), f, Len(b)) /\ Drain(one, b) = f[Len(b)]
    BY DrainRun
  <2>2. Len(b) = 0
    BY <1>2
  <2>3. Drain(one, b) = Opening(b)
    BY <2>1, <2>2 DEF IsRun
  <2> QED BY <1>2, <2>3 DEF DrainLaw, Opening
<1>3. CASE b # <<>>
  <2>1. RoundLaw(one, Opening(b))
    BY <1>1, RoundCases
  <2>2. Opening(b).rest = b /\ Opening(b).result = "SUCCESS" /\ Opening(b).items = <<>>
    BY DEF Opening
  <2>3. ASSUME one[b].result = "INCOMPLETE"
        PROVE  Drain(one, b) = [result |-> "INCOMPLETE", items |-> <<>>, rest |-> b]
    <3>1. Drain(one, b) = Round(one, Opening(b))
      BY <1>3, <2>3, DrainStops
    <3> QED BY <1>3, <2>1, <2>2, <2>3, <3>1 DEF RoundLaw
  <2>4. ASSUME one[b].result = "PROTOCOL_ERROR"
        PROVE  Drain(one, b) = [result |-> "PROTOCOL_ERROR", items |-> <<>>, rest |-> <<>>]
    <3>1. Drain(one, b) = Round(one, Opening(b))
      BY <1>3, <2>4, DrainStops
    <3> QED BY <1>3, <2>1, <2>2, <2>4, <3>1 DEF RoundLaw
  <2>5. one[b].result = "SUCCESS" =>
          Drain(one, b) = Ahead(Kept(one[b].item), Drain(one, Suffix(b, one[b].next)))
    BY <1>3, DrainGoesOn
  <2> QED BY <1>3, <2>3, <2>4, <2>5 DEF DrainLaw
<1> QED BY <1>2, <1>3

\* What the first part of a buffer leaves, with the second behind it, is drained as the
\* whole is, and where it stops, there is nothing to be found yet.
Resumes(one, b, c) ==
    LET p == Drain(one, b)
    IN  /\ p.result = "PROTOCOL_ERROR" => Drain(one, b \o c) = p /\ p.rest = <<>>
        /\ p.result # "PROTOCOL_ERROR" =>
             Drain(one, b \o c) = Ahead(p.items, Drain(one, p.rest \o c))
        /\ p.result = "SUCCESS" => p.rest = <<>>
        /\ p.result = "INCOMPLETE" => p.rest # <<>> /\ one[p.rest].result = "INCOMPLETE"

\* What is kept of an item found, and what is behind it.
LEMMA ItemFound ==
    ASSUME NEW B, NEW I, NEW one, Reads(one, B, I), NEW b \in Seq(B), b # <<>>,
           one[b].result = "SUCCESS"
    PROVE  /\ one[b].next \in 1..(Len(b) + 1)
           /\ Kept(one[b].item) \in Seq(I \ {<<>>})
           /\ Suffix(b, one[b].next) \in Seq(B)
           /\ Len(Suffix(b, one[b].next)) \in 0..(Len(b) - 1)
<1>1. one[b].item \in I /\ one[b].next \in 2..(Len(b) + 1)
  BY DEF Reads
<1>2. one[b].next \in 1..(Len(b) + 1) /\ Len(b) \in Nat
  BY <1>1, LenProperties
<1>3. Kept(one[b].item) \in Seq(I \ {<<>>})
  <2>1. CASE one[b].item = <<>>
    BY <2>1, EmptySeq DEF Kept
  <2>2. CASE one[b].item # <<>>
    <3>1. one[b].item \in I \ {<<>>}
      BY <1>1, <2>2
    <3> QED BY <3>1, <2>2 DEF Kept
  <2> QED BY <2>1, <2>2
<1>4. Suffix(b, one[b].next) \in Seq(B) /\ Len(Suffix(b, one[b].next)) = Len(b) - one[b].next + 1
  BY <1>2, SuffixProperties
<1>5. Len(b) - one[b].next + 1 \in 0..(Len(b) - 1)
  BY <1>1, <1>2
<1> QED BY <1>2, <1>3, <1>4, <1>5

\* One step of the induction for DrainResumes, on the length of the first part.
LEMMA ResumesStep ==
    ASSUME NEW B, NEW I, NEW one, Reads(one, B, I), NEW b \in Seq(B), NEW c \in Seq(B),
           \A d \in Seq(B) : Len(d) \in 0..(Len(b) - 1) => Resumes(one, d, c)
    PROVE  Resumes(one, b, c)
<1>1. DrainLaw(one, b) /\ b \o c \in Seq(B) /\ DrainLaw(one, b \o c)
  <2>1. b \o c \in Seq(B)
    BY ConcatProperties
  <2> HIDE DEF Reads
  <2> QED BY <2>1, DrainCases
<1>2. ASSUME NEW x \in Seq(B)
      PROVE  Ahead(<<>>, Drain(one, x)) = Drain(one, x)
  <2>1. Drain(one, x) \in State(B, I)
    BY DrainSettles
  <2>2. /\ Drain(one, x).items \in Seq(I \ {<<>>})
        /\ Drain(one, x) = [result |-> Drain(one, x).result, items |-> Drain(one, x).items,
                            rest |-> Drain(one, x).rest]
    BY <2>1 DEF State
  <2>3. <<>> \o Drain(one, x).items = Drain(one, x).items
    BY <2>2, ConcatEmptySeq
  <2> QED BY <2>2, <2>3 DEF Ahead
<1>3. CASE b = <<>>
  <2>1. Drain(one, b) = [result |-> "SUCCESS", items |-> <<>>, rest |-> <<>>]
    BY <1>1, <1>3 DEF DrainLaw
  <2>2. b \o c = c /\ <<>> \o c = c
    BY <1>3, ConcatEmptySeq
  <2> QED BY <1>2, <2>1, <2>2 DEF Resumes
<1>4. CASE b # <<>>
  <2>0. b \o c # <<>>
    BY <1>4, ConcatEqualIffEmpty
  <2>1. one[b].result \in Results
    BY <1>4 DEF Reads
  <2>2. CASE one[b].result = "INCOMPLETE"
    <3>1. Drain(one, b) = [result |-> "INCOMPLETE", items |-> <<>>, rest |-> b]
      BY <1>1, <1>4, <2>2 DEF DrainLaw
    <3>2. Drain(one, b \o c) = Ahead(<<>>, Drain(one, b \o c))
      BY <1>1, <1>2
    <3>3. Drain(one, b).result = "INCOMPLETE" /\ Drain(one, b).items = <<>> /\ Drain(one, b).rest = b
      BY <3>1
    <3> HIDE DEF Reads
    <3> QED BY <1>4, <2>2, <3>2, <3>3 DEF Resumes
  <2>3. CASE one[b].result = "PROTOCOL_ERROR"
    <3>1. one[b \o c] = one[b]
      BY <1>4, <2>3 DEF Reads
    <3>2. Drain(one, b) = [result |-> "PROTOCOL_ERROR", items |-> <<>>, rest |-> <<>>]
      BY <1>1, <1>4, <2>3 DEF DrainLaw
    <3>3. Drain(one, b \o c) = [result |-> "PROTOCOL_ERROR", items |-> <<>>, rest |-> <<>>]
      BY <1>1, <2>0, <2>3, <3>1 DEF DrainLaw
    <3> QED BY <3>2, <3>3 DEF Resumes
  <2>4. CASE one[b].result = "SUCCESS"
    <3>1. one[b \o c] = one[b]
      BY <1>4, <2>4 DEF Reads
    <3> DEFINE k == Kept(one[b].item)
               d == Suffix(b, one[b].next)
               q == Drain(one, d)
    <3>2. one[b].next \in 1..(Len(b) + 1) /\ k \in Seq(I \ {<<>>}) /\ d \in Seq(B)
          /\ Len(d) \in 0..(Len(b) - 1)
      BY <1>4, <2>4, ItemFound
    <3>3. Suffix(b \o c, one[b].next) = d \o c
      BY <3>2, SuffixOfConcat
    <3>4. Drain(one, b) = Ahead(k, q)
      BY <1>1, <1>4, <2>4, Zenon DEF DrainLaw
    <3>5. Drain(one, b \o c) = Ahead(k, Drain(one, d \o c))
      BY <1>1, <2>0, <2>4, <3>1, <3>3, Zenon DEF DrainLaw
    <3>6. Resumes(one, d, c)
      BY <3>2
    <3>7. q \in State(B, I)
      BY <3>2, DrainSettles
    <3> HIDE DEF k, d
    <3>8. q.result \in Results /\ q.items \in Seq(I \ {<<>>}) /\ q.rest \in Seq(B)
          /\ q = [result |-> q.result, items |-> q.items, rest |-> q.rest]
      BY <3>7 DEF State
    <3>9. CASE q.result = "PROTOCOL_ERROR"
      <4>1. Drain(one, d \o c) = q /\ q.rest = <<>>
        BY <3>6, <3>9 DEF Resumes
      <4>2. Drain(one, b \o c) = Drain(one, b)
        BY <3>4, <3>5, <4>1
      <4>3. Drain(one, b).result = "PROTOCOL_ERROR" /\ Drain(one, b).rest = <<>>
        BY <3>4, <3>9, <4>1 DEF Ahead
      <4> QED BY <4>2, <4>3 DEF Resumes
    <3>10. CASE q.result # "PROTOCOL_ERROR"
      <4> DEFINE z == Drain(one, q.rest \o c)
      <4>1. Drain(one, d \o c) = Ahead(q.items, z)
        BY <3>6, <3>10 DEF Resumes
      <4>2. z \in State(B, I)
        <5>1. q.rest \o c \in Seq(B)
          BY <3>8, ConcatProperties
        <5> QED BY <5>1, DrainSettles
      <4>3. z.items \in Seq(I \ {<<>>})
        <5> HIDE DEF z
        <5> QED BY <4>2 DEF State
      <4> HIDE DEF z
      <4>4. k \o (q.items \o z.items) = (k \o q.items) \o z.items
        <5>1. \A s, t, u \in Seq(I \ {<<>>}) : (s \o t) \o u = s \o (t \o u)
          BY ConcatAssociative
        <5> QED BY <5>1, <3>2, <3>8, <4>3
      <4>5. Ahead(k, Ahead(q.items, z)) = Ahead(k \o q.items, z)
        BY <4>4 DEF Ahead
      <4>6. Drain(one, b).items = k \o q.items /\ Drain(one, b).result = q.result
            /\ Drain(one, b).rest = q.rest
        BY <3>4 DEF Ahead
      <4>7. Drain(one, b \o c) = Ahead(Drain(one, b).items, z)
        BY <3>5, <4>1, <4>5, <4>6
      <4>8. /\ q.result = "SUCCESS" => q.rest = <<>>
            /\ q.result = "INCOMPLETE" => q.rest # <<>> /\ one[q.rest].result = "INCOMPLETE"
        BY <3>6 DEF Resumes
      <4> QED BY <3>10, <4>6, <4>7, <4>8 DEF Resumes, z
    <3> QED BY <3>9, <3>10
  <2> QED BY <2>1, <2>2, <2>3, <2>4 DEF Results
<1> QED BY <1>3, <1>4

\* Drain resumes, whatever the parts.
LEMMA DrainResumes ==
    ASSUME NEW B, NEW I, NEW one, Reads(one, B, I), NEW b \in Seq(B), NEW c \in Seq(B)
    PROVE  Resumes(one, b, c)
<1> DEFINE P == {n \in Nat : \A d \in Seq(B) : Len(d) = n => Resumes(one, d, c)}
<1>1. ASSUME NEW n \in Nat, \A m \in 0..(n - 1) : m \in P
      PROVE  n \in P
  <2>1. ASSUME NEW d \in Seq(B), Len(d) = n
        PROVE  Resumes(one, d, c)
    <3>1. ASSUME NEW e \in Seq(B), Len(e) \in 0..(Len(d) - 1)
          PROVE  Resumes(one, e, c)
      <4>1. Len(e) \in P
        BY <1>1, <2>1, <3>1
      <4> QED BY <4>1
    <3> HIDE DEF P
    <3> QED BY <3>1, ResumesStep
  <2> QED BY <2>1
<1> HIDE DEF P
<1>2. Len(b) \in P
  <2>1. Nat \subseteq P
    BY <1>1, AllSmaller
  <2> QED BY <2>1, LenProperties
<1> QED BY <1>2 DEF P


\* Nothing is found in b, and all of it is left.
Waits(one, b) == Drain(one, b).items = <<>> /\ Drain(one, b).rest = b

\* What Drain leaves is left again when nothing is added.
LEMMA DrainType ==
    ASSUME NEW B, NEW I, NEW one, Reads(one, B, I), NEW b \in Seq(B)
    PROVE  /\ Drain(one, b).result \in Results
           /\ Drain(one, b).items \in Seq(I \ {<<>>}) /\ Drain(one, b).rest \in Seq(B)
           /\ Drain(one, b).result # "INCOMPLETE" => Drain(one, b).rest = <<>>
           /\ Waits(one, Drain(one, b).rest)
<1> DEFINE p == Drain(one, b)
<1>1. p \in State(B, I)
  BY DrainSettles
<1>2. <<>> \in Seq(B)
  BY EmptySeq
<1>3. Resumes(one, b, <<>>)
  BY <1>2, DrainResumes
<1>4. /\ p.result = "PROTOCOL_ERROR" => p.rest = <<>>
      /\ p.result = "SUCCESS" => p.rest = <<>>
      /\ p.result = "INCOMPLETE" => p.rest # <<>> /\ one[p.rest].result = "INCOMPLETE"
  BY <1>3 DEF Resumes
<1> HIDE DEF p
<1>5. p.result \in Results /\ p.items \in Seq(I \ {<<>>}) /\ p.rest \in Seq(B)
  BY <1>1 DEF State
<1>6. DrainLaw(one, p.rest)
  BY <1>5, DrainCases
<1>7. p.rest = <<>> \/ one[p.rest].result = "INCOMPLETE"
  BY <1>4, <1>5 DEF Results
<1>8. Waits(one, p.rest)
  BY <1>6, <1>7 DEF DrainLaw, Waits
<1> QED BY <1>4, <1>5, <1>8 DEF Results, p

\* The parts of a state with items in front.
LEMMA AheadParts ==
    \A items, s : /\ Ahead(items, s).result = s.result /\ Ahead(items, s).rest = s.rest
                  /\ Ahead(items, s).items = items \o s.items
BY DEF Ahead

\* What a buffer and more bytes give.
MoreLaw(one, I, b, c) ==
    /\ Drain(one, b).result = "PROTOCOL_ERROR" => Drain(one, b \o c).result = "PROTOCOL_ERROR"
    /\ Drain(one, b).result # "PROTOCOL_ERROR" =>
         /\ Drain(one, b \o c).result = Drain(one, Drain(one, b).rest \o c).result
         /\ Drain(one, b \o c).items
              = Drain(one, b).items \o Drain(one, Drain(one, b).rest \o c).items
    /\ \E more \in Seq(I \ {<<>>}) : Drain(one, b \o c).items = Drain(one, b).items \o more

\* The items, and whether it goes well, are those of what is left and the rest.
LEMMA DrainMore ==
    ASSUME NEW B, NEW I, NEW one, Reads(one, B, I), NEW b \in Seq(B), NEW c \in Seq(B)
    PROVE  MoreLaw(one, I, b, c)
<1> DEFINE p == Drain(one, b)
           q == Drain(one, p.rest \o c)
           all == Drain(one, b \o c)
<1>1. Resumes(one, b, c)
  BY DrainResumes
<1>2. /\ p.result = "PROTOCOL_ERROR" => all = p
      /\ p.result # "PROTOCOL_ERROR" => all = Ahead(p.items, q)
  BY <1>1 DEF Resumes
<1>3. p.items \in Seq(I \ {<<>>}) /\ p.rest \in Seq(B)
  BY DrainType
<1>4. p.rest \o c \in Seq(B)
  BY <1>3, ConcatProperties
<1>5. q.items \in Seq(I \ {<<>>})
  BY <1>4, DrainType
<1> HIDE DEF p, q, all
<1>6. p.result # "PROTOCOL_ERROR" => all.result = q.result /\ all.items = p.items \o q.items
  BY <1>2, AheadParts, Zenon
<1>7. p.items \o <<>> = p.items /\ <<>> \in Seq(I \ {<<>>})
  BY <1>3, ConcatEmptySeq, EmptySeq
<1>8. \E more \in Seq(I \ {<<>>}) : all.items = p.items \o more
  BY <1>2, <1>5, <1>6, <1>7
<1>9. p.result = "PROTOCOL_ERROR" => all.result = "PROTOCOL_ERROR"
  BY <1>2
<1> QED BY <1>6, <1>8, <1>9 DEF p, q, all, MoreLaw

\* All of a buffer is found, and nothing else.
Done(items) == [result |-> "SUCCESS", items |-> items, rest |-> <<>>]

\* Two buffers of which all is found, one behind the other.
LEMMA DrainTwo ==
    ASSUME NEW B, NEW I, NEW one, Reads(one, B, I), NEW b \in Seq(B), NEW c \in Seq(B),
           NEW s, NEW t, Drain(one, b) = Done(s), Drain(one, c) = Done(t)
    PROVE  Drain(one, b \o c) = Done(s \o t)
<1> DEFINE p == Drain(one, b)
           q == Drain(one, c)
           all == Drain(one, b \o c)
<1>1. Resumes(one, b, c)
  BY DrainResumes
<1>2. p.result = "SUCCESS" /\ p.items = s /\ p.rest = <<>>
  BY DEF Done
<1>3. p.rest \o c = c
  BY <1>2, ConcatEmptySeq
<1>4. all = Ahead(s, q)
  <2>1. p.result # "PROTOCOL_ERROR" => all = Ahead(p.items, Drain(one, p.rest \o c))
    BY <1>1 DEF Resumes
  <2> HIDE DEF p, all
  <2> QED BY <2>1, <1>2, <1>3
<1>5. q = Done(t)
  OBVIOUS
<1> HIDE DEF p, q, all
<1>6. Ahead(s, q) = [result |-> q.result, items |-> s \o q.items, rest |-> q.rest]
  BY Zenon DEF Ahead
<1>7. q.result = "SUCCESS" /\ q.items = t /\ q.rest = <<>>
  BY <1>5 DEF Done
<1>8. Ahead(s, q) = Done(s \o t)
  BY <1>6, <1>7, Zenon DEF Done
<1> QED BY <1>4, <1>8 DEF all

-----------------------------------------------------------------------------
(* Line ends. *)

\* The first of some places is one of them, and none is before it.
LEMMA FirstProperties ==
    ASSUME NEW places, places \subseteq Nat \ {0}
    PROVE  /\ places = {} => First(places) = 0
           /\ places # {} => First(places) \in places /\ \A p \in places : First(places) <= p
<1>1. CASE places = {}
  BY <1>1 DEF First
<1>2. CASE places # {}
  <2>1. \E n \in places : \A m \in places : n <= m
    BY <1>2, LeastExists
  <2>2. First(places) = CHOOSE x \in places : \A y \in places : x <= y
    BY <1>2 DEF First, Min
  <2> QED BY <1>2, <2>1, <2>2
<1> QED BY <1>1, <1>2

\* A line end at place i.
EndsLine(b, i) == b[i] = "CR" /\ b[i + 1] = "LF"

\* FindCrLf gives the first line end from a place on, or 0.
LEMMA FindCrLfProperties ==
    ASSUME NEW B, NEW b \in Seq(B), NEW from \in Nat \ {0}
    PROVE  /\ FindCrLf(b, from) = 0 => \A i \in from..(Len(b) - 1) : ~EndsLine(b, i)
           /\ FindCrLf(b, from) # 0 =>
                /\ FindCrLf(b, from) \in from..(Len(b) - 1)
                /\ EndsLine(b, FindCrLf(b, from))
                /\ \A i \in from..(FindCrLf(b, from) - 1) : ~EndsLine(b, i)
<1> DEFINE places == {i \in from..(Len(b) - 1) : b[i] = "CR" /\ b[i + 1] = "LF"}
<1>1. Len(b) \in Nat
  BY LenProperties
<1>2. places \subseteq Nat \ {0}
  BY <1>1
<1>3. FindCrLf(b, from) = First(places)
  BY DEF FindCrLf
<1>4. \A i \in from..(Len(b) - 1) : i \in places <=> EndsLine(b, i)
  BY DEF EndsLine
<1>5. places \subseteq from..(Len(b) - 1)
  OBVIOUS
<1> HIDE DEF places
<1>6. CASE places = {}
  <2>1. First(places) = 0
    BY <1>2, <1>6, FirstProperties
  <2> QED BY <1>3, <1>4, <1>6, <2>1
<1>7. CASE places # {}
  <2>1. First(places) \in places /\ \A p \in places : First(places) <= p
    BY <1>2, <1>7, FirstProperties
  <2>2. First(places) \in from..(Len(b) - 1) /\ First(places) # 0
    BY <2>1, <1>2, <1>5
  <2>3. ASSUME NEW i \in from..(First(places) - 1)
        PROVE  ~EndsLine(b, i)
    <3>1. i \in from..(Len(b) - 1) /\ ~(First(places) <= i)
      BY <1>1, <2>2
    <3> QED BY <3>1, <2>1, <1>4
  <2> QED BY <1>3, <1>4, <2>1, <2>2, <2>3
<1> QED BY <1>6, <1>7

\* Whatever is a line end with none before it is what FindCrLf gives.
LEMMA FindCrLfIs ==
    ASSUME NEW B, NEW b \in Seq(B), NEW from \in Nat \ {0}, NEW k \in from..(Len(b) - 1),
           EndsLine(b, k), \A i \in from..(k - 1) : ~EndsLine(b, i)
    PROVE  FindCrLf(b, from) = k
<1> DEFINE j == FindCrLf(b, from)
<1>1. Len(b) \in Nat
  BY LenProperties
<1>2. /\ j = 0 => \A i \in from..(Len(b) - 1) : ~EndsLine(b, i)
      /\ j # 0 => /\ j \in from..(Len(b) - 1) /\ EndsLine(b, j)
                  /\ \A i \in from..(j - 1) : ~EndsLine(b, i)
  BY FindCrLfProperties
<1> HIDE DEF j
<1>3. j # 0 /\ j \in from..(Len(b) - 1)
  BY <1>2
<1>4. ~(j < k) /\ ~(k < j)
  BY <1>1, <1>2, <1>3
<1>5. j = k
  BY <1>1, <1>3, <1>4
<1> QED BY <1>5 DEF j

\* A line end that is found stays the first when bytes are added.
LEMMA FindCrLfStable ==
    ASSUME NEW B, NEW b \in Seq(B), NEW c \in Seq(B), NEW from \in Nat \ {0},
           FindCrLf(b, from) # 0
    PROVE  FindCrLf(b \o c, from) = FindCrLf(b, from)
<1> DEFINE k == FindCrLf(b, from)
<1>1. Len(b) \in Nat /\ Len(c) \in Nat
  BY LenProperties
<1>2. /\ k \in from..(Len(b) - 1) /\ EndsLine(b, k)
      /\ \A i \in from..(k - 1) : ~EndsLine(b, i)
  BY FindCrLfProperties
<1>3. /\ b \o c \in Seq(B) /\ Len(b \o c) = Len(b) + Len(c)
      /\ \A i \in 1..(Len(b) + Len(c)) : (b \o c)[i] = IF i <= Len(b) THEN b[i] ELSE c[i - Len(b)]
  BY ConcatProperties
<1> HIDE DEF k
<1>4. \A i \in from..k : EndsLine(b \o c, i) <=> EndsLine(b, i)
  <2> SUFFICES ASSUME NEW i \in from..k
               PROVE  EndsLine(b \o c, i) <=> EndsLine(b, i)
    OBVIOUS
  <2>1. /\ i \in 1..(Len(b) + Len(c)) /\ i <= Len(b)
        /\ i + 1 \in 1..(Len(b) + Len(c)) /\ i + 1 <= Len(b)
    BY <1>1, <1>2
  <2>2. (b \o c)[i] = b[i] /\ (b \o c)[i + 1] = b[i + 1]
    BY <2>1, <1>3
  <2> QED BY <2>2 DEF EndsLine
<1>5. k \in from..(Len(b \o c) - 1)
  BY <1>1, <1>2, <1>3
<1>6. EndsLine(b \o c, k) /\ \A i \in from..(k - 1) : ~EndsLine(b \o c, i)
  BY <1>1, <1>2, <1>4
<1>7. FindCrLf(b \o c, from) = k
  BY <1>3, <1>5, <1>6, FindCrLfIs
<1> QED BY <1>7 DEF k

-----------------------------------------------------------------------------
(* The parser of resp.cpp. *)

\* What the heads read as.
LEMMA Numbers ==
    /\ \A head \in DOMAIN Number : Number[head] \in Int
    /\ BulkHeads \subseteq Byte /\ ArrayHeads \subseteq Byte /\ Plain \subseteq Byte
    /\ \A x \in Plain : x \notin BulkHeads /\ x \notin ArrayHeads
BY ByteAssumption, NumberAssumption

\* A bulk string at a place in b, as an item that is found.
BulkLaw(b, at) ==
    /\ Bulk(b, at).result \in Results
    /\ Bulk(b, at).result = "INCOMPLETE" => Bulk(b, at) = Incomplete
    /\ Bulk(b, at).result = "PROTOCOL_ERROR" => Bulk(b, at) = ProtocolError
    /\ Bulk(b, at).result = "SUCCESS" =>
         /\ Bulk(b, at).item \in Seq(Byte) /\ Bulk(b, at).next \in (at + 1)..(Len(b) + 1)
         /\ Bulk(b, at) = Success(Bulk(b, at).item, Bulk(b, at).next)
    /\ Bulk(b, at).result # "INCOMPLETE" => \A c \in Seq(Byte) : Bulk(b \o c, at) = Bulk(b, at)

\* What stands for a bulk string stays one, and what does not never will.
LEMMA BulkReads ==
    ASSUME NEW b \in Seq(Byte), NEW at \in Nat \ {0}
    PROVE  BulkLaw(b, at)
<1> DEFINE crlf == FindCrLf(b, at)
           str == crlf + 2
           end == str + Number[b[at]]
<1>0. Len(b) \in Nat
  BY LenProperties
<1>1. CASE at > Len(b)
  <2>1. Bulk(b, at) = Incomplete
    BY <1>1 DEF Bulk
  <2> QED BY <2>1 DEF BulkLaw, Incomplete, Results
<1>2. CASE ~(at > Len(b))
  <2>0. at \in 1..Len(b)
    BY <1>0, <1>2
  <2>1. ASSUME NEW c \in Seq(Byte)
        PROVE  (b \o c)[at] = b[at] /\ ~(at > Len(b \o c))
    BY <2>0, <1>0, ByteStable
  <2>2. CASE b[at] \notin BulkHeads
    <3>1. Bulk(b, at) = ProtocolError
      BY <1>2, <2>2 DEF Bulk
    <3>2. \A c \in Seq(Byte) : Bulk(b \o c, at) = ProtocolError
      BY <2>1, <2>2 DEF Bulk
    <3> QED BY <3>1, <3>2 DEF BulkLaw, ProtocolError, Results
  <2>3. CASE b[at] \in BulkHeads /\ crlf = 0
    <3>1. Bulk(b, at) = Incomplete
      BY <1>2, <2>3 DEF Bulk
    <3> QED BY <3>1 DEF BulkLaw, Incomplete, Results
  <2>4. CASE b[at] \in BulkHeads /\ crlf # 0
    <3>1. crlf \in at..(Len(b) - 1)
      BY <2>4, FindCrLfProperties
    <3>2. \A c \in Seq(Byte) : FindCrLf(b \o c, at) = crlf
      BY <2>4, FindCrLfStable
    <3> HIDE DEF crlf
    <3>3. CASE b[at] \notin DOMAIN Number
      <4>1. Bulk(b, at) = ProtocolError
        BY <1>2, <2>4, <3>3 DEF Bulk, crlf
      <4>2. \A c \in Seq(Byte) : Bulk(b \o c, at) = ProtocolError
        BY <2>1, <2>4, <3>2, <3>3 DEF Bulk
      <4> QED BY <4>1, <4>2 DEF BulkLaw, ProtocolError, Results
    <3>4. CASE b[at] \in DOMAIN Number /\ Number[b[at]] < 0
      <4>1. Bulk(b, at) = Success(<<>>, str)
        BY <1>2, <2>4, <3>4 DEF Bulk, crlf
      <4>2. \A c \in Seq(Byte) : Bulk(b \o c, at) = Success(<<>>, str)
        BY <2>1, <2>4, <3>2, <3>4 DEF Bulk
      <4>3. <<>> \in Seq(Byte) /\ str \in (at + 1)..(Len(b) + 1)
        BY <1>0, <3>1, EmptySeq
      <4> HIDE DEF str
      <4> QED BY <4>1, <4>2, <4>3 DEF BulkLaw, Success, Results
    <3>5. CASE b[at] \in DOMAIN Number /\ ~(Number[b[at]] < 0)
      <4>1. Number[b[at]] \in Nat
        BY <3>5, Numbers
      <4>2. end \in Nat \ {0} /\ str \in (at + 1)..end /\ str \in (at + 1)..(Len(b) + 1)
        BY <1>0, <3>1, <4>1
      <4> HIDE DEF str, end
      <4>3. CASE end + 1 > Len(b)
        <5>1. Bulk(b, at) = Incomplete
          BY <1>2, <2>4, <3>5, <4>3 DEF Bulk, crlf, end, str
        <5> QED BY <5>1 DEF BulkLaw, Incomplete, Results
      <4>4. CASE ~(end + 1 > Len(b))
        <5>1. end + 1 \in 0..Len(b) /\ end - 1 \in 0..Len(b) /\ str \in Nat \ {0}
          BY <1>0, <4>2, <4>4
        <5>2. ASSUME NEW c \in Seq(Byte)
              PROVE  /\ SubSeq(b \o c, end, end + 1) = SubSeq(b, end, end + 1)
                     /\ SubSeq(b \o c, str, end - 1) = SubSeq(b, str, end - 1)
                     /\ ~(end + 1 > Len(b \o c))
          <6>1. Len(b \o c) >= Len(b) /\ Len(b \o c) \in Nat
            BY ConcatProperties, LenProperties
          <6>2. ~(end + 1 > Len(b \o c))
            BY <1>0, <4>2, <4>4, <6>1
          <6> QED BY <4>2, <5>1, <6>2, PartStable
        <5>3. CASE SubSeq(b, end, end + 1) # CrLf
          <6>1. Bulk(b, at) = ProtocolError
            BY <1>2, <2>4, <3>5, <4>4, <5>3 DEF Bulk, crlf, end, str
          <6>2. \A c \in Seq(Byte) : Bulk(b \o c, at) = ProtocolError
            BY <2>1, <2>4, <3>2, <3>5, <5>2, <5>3 DEF Bulk, end, str
          <6> QED BY <6>1, <6>2 DEF BulkLaw, ProtocolError, Results
        <5>4. CASE SubSeq(b, end, end + 1) = CrLf
          <6>1. Bulk(b, at) = Success(SubSeq(b, str, end - 1), end + 2)
            BY <1>2, <2>4, <3>5, <4>4, <5>4 DEF Bulk, crlf, end, str
          <6>2. \A c \in Seq(Byte) : Bulk(b \o c, at) = Success(SubSeq(b, str, end - 1), end + 2)
            BY <2>1, <2>4, <3>2, <3>5, <5>2, <5>4 DEF Bulk, end, str
          <6>3. SubSeq(b, str, end - 1) \in Seq(Byte)
            BY <5>1, PartStable
          <6>4. end + 2 \in (at + 1)..(Len(b) + 1)
            BY <1>0, <4>2, <4>4
          <6> QED BY <6>1, <6>2, <6>3, <6>4 DEF BulkLaw, Success, Results
        <5> QED BY <5>3, <5>4
      <4> QED BY <4>3, <4>4
    <3> QED BY <3>3, <3>4, <3>5
  <2> QED BY <2>2, <2>3, <2>4
<1> QED BY <1>1, <1>2

\* What can be read of an array up to some bulk string.
Read(b) == {Success(item, next) : item \in Seq(Seq(Byte)), next \in 1..(Len(b) + 1)}
Reading(b) == {Incomplete, ProtocolError} \cup Read(b)

\* An array read up to some bulk string.
LEMMA InReading ==
    ASSUME NEW b, NEW item \in Seq(Seq(Byte)), NEW next \in 1..(Len(b) + 1)
    PROVE  Success(item, next) \in Reading(b)
<1>1. Success(item, next) \in {Success(i, n) : i \in Seq(Seq(Byte)), n \in 1..(Len(b) + 1)}
  <2> DEFINE W == Seq(Seq(Byte))
             N == 1..(Len(b) + 1)
  <2>1. item \in W /\ next \in N
    OBVIOUS
  <2> HIDE DEF W, N
  <2>2. \E i \in W : \E n \in N : Success(item, next) = Success(i, n)
    BY <2>1
  <2>3. Success(item, next) \in {Success(i, n) : i \in W, n \in N}
    BY <2>2
  <2> QED BY <2>3 DEF W, N
<1>2. Success(item, next) \in Read(b)
  BY <1>1 DEF Read
<1> QED BY <1>2 DEF Reading

\* The cases of one more bulk string.
OneMoreLaw(b, s) ==
    /\ s.result # "SUCCESS" => OneMore(b, s) = s
    /\ s.result = "SUCCESS" =>
         /\ Bulk(b, s.next).result = "INCOMPLETE" => OneMore(b, s) = Incomplete
         /\ Bulk(b, s.next).result = "PROTOCOL_ERROR" => OneMore(b, s) = ProtocolError
         /\ Bulk(b, s.next).result = "SUCCESS" =>
              OneMore(b, s) = Success(Append(s.item, Bulk(b, s.next).item), Bulk(b, s.next).next)

\* One more bulk string is one of these cases, and leads from reading to reading.
LEMMA OneMoreCases ==
    ASSUME NEW b \in Seq(Byte), NEW s \in Reading(b)
    PROVE  /\ OneMoreLaw(b, s) /\ OneMore(b, s) \in Reading(b)
           /\ s.result = "SUCCESS" => BulkLaw(b, s.next) /\ s.next \in Nat \ {0}
<1>1. CASE s.result # "SUCCESS"
  <2>1. OneMore(b, s) = s
    BY <1>1 DEF OneMore
  <2> QED BY <1>1, <2>1 DEF OneMoreLaw
<1>2. CASE s.result = "SUCCESS"
  <2>1. PICK item \in Seq(Seq(Byte)), next \in 1..(Len(b) + 1) : s = Success(item, next)
    <3>1. s # Incomplete /\ s # ProtocolError
      BY <1>2 DEF Incomplete, ProtocolError
    <3> QED BY <3>1 DEF Reading, Read
  <2>2. s.item = item /\ s.next = next /\ next \in Nat \ {0}
    BY <2>1, LenProperties DEF Success
  <2>3. BulkLaw(b, next)
    BY <2>2, BulkReads
  <2> DEFINE bulk == Bulk(b, next)
  <2>4. bulk.result \in Results
    BY <2>3 DEF BulkLaw
  <2>5. CASE bulk.result # "SUCCESS"
    <3>1. OneMore(b, s) = bulk
      BY <1>2, <2>2, <2>5 DEF OneMore
    <3>2. \/ bulk.result = "INCOMPLETE" /\ bulk = Incomplete
          \/ bulk.result = "PROTOCOL_ERROR" /\ bulk = ProtocolError
      BY <2>3, <2>4, <2>5 DEF BulkLaw, Results
    <3> HIDE DEF bulk
    <3>3. OneMore(b, s) \in Reading(b)
      BY <3>1, <3>2 DEF Reading
    <3>4. OneMoreLaw(b, s)
      BY <1>2, <2>2, <3>1, <3>2 DEF OneMoreLaw, bulk
    <3> QED BY <2>2, <2>3, <3>3, <3>4
  <2>6. CASE bulk.result = "SUCCESS"
    <3>1. OneMore(b, s) = Success(Append(item, bulk.item), bulk.next)
      BY <1>2, <2>2, <2>6 DEF OneMore
    <3>2. bulk.item \in Seq(Byte) /\ bulk.next \in (next + 1)..(Len(b) + 1)
      BY <2>3, <2>6 DEF BulkLaw
    <3>3. Append(item, bulk.item) \in Seq(Seq(Byte)) /\ bulk.next \in 1..(Len(b) + 1)
      BY <3>2, <2>2, LenProperties, AppendProperties
    <3> HIDE DEF bulk
    <3>4. OneMore(b, s) \in Reading(b)
      BY <3>1, <3>3, InReading
    <3>5. OneMoreLaw(b, s)
      BY <1>2, <2>2, <2>6, <3>1 DEF OneMoreLaw, bulk
    <3> QED BY <2>2, <2>3, <3>4, <3>5
  <2> QED BY <2>5, <2>6
<1> QED BY <1>1, <1>2

\* f reads n bulk strings from a place.
ReadsBulks(f, b, at, n) ==
    /\ f \in [0..n -> Reading(b)] /\ f[0] = Success(<<>>, at)
    /\ \A i \in 1..n : f[i] = OneMore(b, f[i - 1])

\* Bulks reads bulk strings one by one.
LEMMA BulksRun ==
    ASSUME NEW b \in Seq(Byte), NEW at \in 1..(Len(b) + 1), NEW n \in Nat
    PROVE  \E f : ReadsBulks(f, b, at, n) /\ Bulks(b, at, n) = f[n]
<1> DEFINE X == Reading(b)
           a == Success(<<>>, at)
           step == [p \in X \X Nat |-> OneMore(b, p[1])]
           Law(g) == g = [i \in 0..n |-> IF i = 0 THEN Success(<<>>, at) ELSE OneMore(b, g[i - 1])]
           read == CHOOSE g : Law(g)
<1>0. Bulks(b, at, n) = read[n]
  BY Zenon DEF Bulks
<1>1. a \in X
  <2>1. <<>> \in Seq(Seq(Byte))
    BY EmptySeq
  <2> QED BY <2>1, InReading
<1>2. \A x \in X : OneMore(b, x) \in X
  BY OneMoreCases
<1>3. \A x \in X : \A i \in 1..n : step[<<x, i>>] = OneMore(b, x)
  OBVIOUS
<1> HIDE DEF X, step, a
<1>4. PICK f : Repeats(f, n, X, a, step)
  <2>1. \A x \in X : \A i \in 1..n : step[<<x, i>>] \in X
    BY <1>2, <1>3
  <2> QED BY <1>1, <2>1, RunExists
<1>5. Law(f)
  <2>1. f \in [0..n -> X] /\ f[0] = a /\ \A i \in 1..n : f[i] = step[<<f[i - 1], i>>]
    BY <1>4 DEF Repeats
  <2>2. \A i \in 1..n : f[i - 1] \in X
    BY <2>1
  <2>3. \A i \in 0..n : f[i] = IF i = 0 THEN a ELSE OneMore(b, f[i - 1])
    <3> HIDE DEF Law
    <3>1. \A i \in 0..n : i # 0 => i \in 1..n
      OBVIOUS
    <3> QED BY <3>1, <1>3, <2>1, <2>2
  <2>4. f = [i \in 0..n |-> f[i]]
    BY <2>1
  <2> QED BY <2>3, <2>4, Zenon DEF a
<1>6. Law(read)
  <2> HIDE DEF Law
  <2> QED BY <1>5, Zenon
<1> HIDE DEF read
<1>7. \A i \in 0..n : read[i] = IF i = 0 THEN a ELSE OneMore(b, read[i - 1])
  BY <1>6 DEF a
<1>8. \A i \in 0..n : read[i] \in X
  <2>1. read[0] \in X
    BY <1>1, <1>7
  <2>2. \A i \in 1..n : read[i] = OneMore(b, read[i - 1])
    BY <1>7
  <2>3. \A i \in 1..n : read[i - 1] \in X => read[i] \in X
    BY <1>2, <2>2
  <2> HIDE DEF Law
  <2> QED BY <2>1, <2>3, RunStays
<1>9. ReadsBulks(read, b, at, n)
  <2>1. read = [i \in 0..n |-> read[i]]
    BY <1>6
  <2>2. read[0] = a /\ \A i \in 1..n : read[i] = OneMore(b, read[i - 1])
    BY <1>7
  <2> HIDE DEF Law
  <2> QED BY <2>1, <2>2, <1>8 DEF ReadsBulks, X, a
<1> QED BY <1>0, <1>9

\* What is read of an array, as an item that is found.
BulksLaw(b, at, n) ==
    /\ Bulks(b, at, n).result \in Results
    /\ Bulks(b, at, n).result = "SUCCESS" =>
         Bulks(b, at, n).item \in Seq(Seq(Byte)) /\ Bulks(b, at, n).next \in at..(Len(b) + 1)
    /\ Bulks(b, at, n).result # "INCOMPLETE" =>
         \A c \in Seq(Byte) : Bulks(b \o c, at, n) = Bulks(b, at, n)

\* Bulk strings that are read stay read.
LEMMA BulksReads ==
    ASSUME NEW b \in Seq(Byte), NEW at \in 1..(Len(b) + 1), NEW n \in Nat
    PROVE  BulksLaw(b, at, n)
<1>1. PICK f : ReadsBulks(f, b, at, n) /\ Bulks(b, at, n) = f[n]
  BY BulksRun
<1>2. /\ f \in [0..n -> Reading(b)] /\ f[0] = Success(<<>>, at)
      /\ \A i \in 1..n : f[i] = OneMore(b, f[i - 1])
  BY <1>1 DEF ReadsBulks
<1>3. \A s \in Reading(b) : s.result \in Results
  BY DEF Reading, Read, Incomplete, ProtocolError, Success, Results
<1>4. \A i \in 1..n : f[i - 1] \in Reading(b)
  BY <1>2
<1>5. \A i \in 1..n : OneMoreLaw(b, f[i - 1])
                      /\ (f[i - 1].result = "SUCCESS" => BulkLaw(b, f[i - 1].next))
  BY <1>4, OneMoreCases
<1>6. f[n] \in Reading(b)
  BY <1>2
<1>7. f[n].result = "SUCCESS" => f[n].next \in at..(Len(b) + 1)
  <2> DEFINE X == {s \in Reading(b) : s.result = "SUCCESS" => s.next \in at..(Len(b) + 1)}
  <2>1. f[0] \in X
    BY <1>2 DEF Success
  <2>2. ASSUME NEW i \in 1..n, f[i - 1] \in X
        PROVE  f[i] \in X
    <3>1. OneMoreLaw(b, f[i - 1]) /\ f[i] = OneMore(b, f[i - 1]) /\ f[i] \in Reading(b)
      BY <1>2, <1>5
    <3>2. CASE f[i - 1].result # "SUCCESS"
      BY <3>1, <3>2, <2>2 DEF OneMoreLaw
    <3>3. CASE f[i - 1].result = "SUCCESS"
      <4> DEFINE at1 == f[i - 1].next
                 bulk == Bulk(b, at1)
      <4>1. BulkLaw(b, at1) /\ at1 \in at..(Len(b) + 1)
        BY <1>5, <2>2, <3>3
      <4>2. bulk.result \in Results
        BY <4>1 DEF BulkLaw
      <4>3. CASE bulk.result # "SUCCESS"
        <5>1. f[i].result # "SUCCESS"
          BY <3>1, <3>3, <4>2, <4>3 DEF OneMoreLaw, Incomplete, ProtocolError, Results
        <5> QED BY <3>1, <5>1
      <4>4. CASE bulk.result = "SUCCESS"
        <5>1. f[i].next = bulk.next
          BY <3>1, <3>3, <4>4 DEF OneMoreLaw, Success
        <5>2. bulk.next \in (at1 + 1)..(Len(b) + 1)
          BY <4>1, <4>4 DEF BulkLaw
        <5> HIDE DEF at1, bulk
        <5>3. bulk.next \in at..(Len(b) + 1)
          BY <4>1, <5>2, LenProperties
        <5> QED BY <3>1, <5>1, <5>3
      <4> QED BY <4>3, <4>4
    <3> QED BY <3>2, <3>3
  <2> HIDE DEF X
  <2>3. \A i \in 0..n : f[i] \in X
    BY <2>1, <2>2, RunStays
  <2> QED BY <2>3 DEF X
<1>8. f[n].result = "SUCCESS" => f[n].item \in Seq(Seq(Byte))
  BY <1>6 DEF Reading, Read, Incomplete, ProtocolError, Success
<1>9. ASSUME NEW c \in Seq(Byte), f[n].result # "INCOMPLETE"
      PROVE  Bulks(b \o c, at, n) = f[n]
  <2>1. b \o c \in Seq(Byte) /\ at \in 1..(Len(b \o c) + 1)
    <3>1. b \o c \in Seq(Byte) /\ Len(b \o c) = Len(b) + Len(c) /\ Len(b) \in Nat /\ Len(c) \in Nat
      BY ConcatProperties, LenProperties
    <3> QED BY <3>1
  <2>2. PICK g : ReadsBulks(g, b \o c, at, n) /\ Bulks(b \o c, at, n) = g[n]
    BY <2>1, BulksRun
  <2>3. /\ g \in [0..n -> Reading(b \o c)] /\ g[0] = Success(<<>>, at)
        /\ \A i \in 1..n : g[i] = OneMore(b \o c, g[i - 1])
    BY <2>2 DEF ReadsBulks
  <2> DEFINE P == {i \in 0..n : f[i].result # "INCOMPLETE" => g[i] = f[i]}
  <2>4. 0 \in P
    BY <1>2, <2>3
  <2>5. ASSUME NEW i \in 0..(n - 1), i \in P
        PROVE  i + 1 \in P
    <3>1. i + 1 \in 1..n /\ i + 1 \in 0..n /\ (i + 1) - 1 = i
      OBVIOUS
    <3>2. f[i + 1] = OneMore(b, f[i]) /\ g[i + 1] = OneMore(b \o c, g[i])
          /\ f[i] \in Reading(b) /\ g[i] \in Reading(b \o c)
      <4>1. i \in 0..n
        OBVIOUS
      <4> QED BY <1>2, <2>3, <3>1, <4>1
    <3>3. OneMoreLaw(b, f[i]) /\ (f[i].result = "SUCCESS" => BulkLaw(b, f[i].next))
      BY <3>2, OneMoreCases
    <3>4. OneMoreLaw(b \o c, g[i])
      BY <2>1, <3>2, OneMoreCases
    <3>5. SUFFICES ASSUME f[i + 1].result # "INCOMPLETE"
                   PROVE  g[i + 1] = f[i + 1]
      BY <3>1
    <3>6. f[i].result # "INCOMPLETE"
      BY <3>2, <3>3, <3>5 DEF OneMoreLaw
    <3>7. g[i] = f[i]
      BY <2>5, <3>6
    <3>8. CASE f[i].result # "SUCCESS"
      BY <3>2, <3>3, <3>4, <3>7, <3>8 DEF OneMoreLaw
    <3>9. CASE f[i].result = "SUCCESS"
      <4> DEFINE bulk == Bulk(b, f[i].next)
      <4>1. bulk.result \in Results
        BY <3>3, <3>9 DEF BulkLaw
      <4>2. bulk.result # "INCOMPLETE"
        BY <3>2, <3>3, <3>5, <3>9 DEF OneMoreLaw, Incomplete
      <4>3. Bulk(b \o c, f[i].next) = bulk
        BY <3>3, <3>9, <4>2 DEF BulkLaw
      <4> QED BY <3>2, <3>3, <3>4, <3>7, <3>9, <4>1, <4>2, <4>3 DEF OneMoreLaw, Results
    <3> QED BY <3>8, <3>9
  <2> HIDE DEF P
  <2>6. 0..n \subseteq P
    BY <2>4, <2>5, UpTo
  <2>7. n \in P
    BY <2>6
  <2> QED BY <1>9, <2>2, <2>7 DEF P
<1>10. f[n].result \in Results
  BY <1>3, <1>6
<1> QED BY <1>1, <1>7, <1>8, <1>9, <1>10 DEF BulksLaw

\* The words of an inline line are words.
LEMMA InlineWordsType ==
    ASSUME NEW line \in Seq(Byte)
    PROVE  InlineWords(line) \in Seq(Seq(Byte))
<1> DEFINE X == [cmd : Seq(Seq(Byte)), arg : Seq(Byte), quoted : BOOLEAN]
           n == Len(line)
           a == [cmd |-> <<>>, arg |-> <<>>, quoted |-> FALSE]
           step == [p \in X \X Nat |-> Split(p[1], line[p[2]])]
           Law(g) == g = [i \in 0..n |-> IF i = 0 THEN [cmd |-> <<>>, arg |-> <<>>, quoted |-> FALSE]
                                         ELSE Split(g[i - 1], line[i])]
           split == CHOOSE g : Law(g)
<1>0. InlineWords(line) = IF split[n].arg = <<>> THEN split[n].cmd
                          ELSE Append(split[n].cmd, split[n].arg)
  BY Zenon DEF InlineWords
<1>1. a \in X
  <2>1. <<>> \in Seq(Byte) /\ <<>> \in Seq(Seq(Byte))
    BY EmptySeq
  <2> QED BY <2>1
<1>2. ASSUME NEW s \in X, NEW c \in Byte
      PROVE  Split(s, c) \in X
  <2>1. s.cmd \in Seq(Seq(Byte)) /\ s.arg \in Seq(Byte) /\ s.quoted \in BOOLEAN
    OBVIOUS
  <2>2. /\ <<>> \in Seq(Byte) /\ Append(s.arg, c) \in Seq(Byte)
        /\ Append(s.cmd, s.arg) \in Seq(Seq(Byte))
    BY <2>1, EmptySeq, AppendProperties
  <2>3. /\ [s EXCEPT !.quoted = ~@] \in X
        /\ [s EXCEPT !.cmd = Append(@, s.arg), !.arg = <<>>] \in X
        /\ [s EXCEPT !.arg = Append(@, c)] \in X
    BY <2>1, <2>2
  <2> HIDE DEF X
  <2> QED BY <2>3 DEF Split
<1>3. n \in Nat /\ \A i \in 1..n : line[i] \in Byte
  BY LenProperties, ElementOfSeq
<1>4. \A x \in X : \A i \in 1..n : step[<<x, i>>] = Split(x, line[i])
  OBVIOUS
<1> HIDE DEF X, n, step, a
<1>5. PICK f : Repeats(f, n, X, a, step)
  <2>1. \A x \in X : \A i \in 1..n : step[<<x, i>>] \in X
    BY <1>2, <1>3, <1>4
  <2> QED BY <1>1, <1>3, <2>1, RunExists
<1>6. Law(f)
  <2>1. f \in [0..n -> X] /\ f[0] = a /\ \A i \in 1..n : f[i] = step[<<f[i - 1], i>>]
    BY <1>5 DEF Repeats
  <2>2. \A i \in 1..n : f[i - 1] \in X
    BY <1>3, <2>1
  <2>3. \A i \in 0..n : f[i] = IF i = 0 THEN a ELSE Split(f[i - 1], line[i])
    <3> HIDE DEF Law
    <3>1. \A i \in 0..n : i # 0 => i \in 1..n
      BY <1>3
    <3> QED BY <3>1, <1>4, <2>1, <2>2
  <2>4. f = [i \in 0..n |-> f[i]]
    BY <2>1
  <2> QED BY <2>3, <2>4, Zenon DEF a
<1>7. Law(split)
  <2> HIDE DEF Law
  <2> QED BY <1>6, Zenon
<1> HIDE DEF split
<1>8. \A i \in 0..n : split[i] = IF i = 0 THEN a ELSE Split(split[i - 1], line[i])
  BY <1>7 DEF a
<1> HIDE DEF Law
<1>9. \A i \in 0..n : split[i] \in X
  <2>1. split[0] \in X
    BY <1>1, <1>3, <1>8
  <2>2. \A i \in 1..n : split[i] = Split(split[i - 1], line[i])
    BY <1>3, <1>8
  <2>3. \A i \in 1..n : split[i - 1] \in X => split[i] \in X
    BY <1>2, <1>3, <2>2
  <2> QED BY <1>3, <2>1, <2>3, RunStays
<1>10. split[n].cmd \in Seq(Seq(Byte)) /\ split[n].arg \in Seq(Byte)
  BY <1>3, <1>9 DEF X
<1>11. Append(split[n].cmd, split[n].arg) \in Seq(Seq(Byte))
  BY <1>10, AppendProperties
<1> QED BY <1>0, <1>10, <1>11

\* A command at the front of a buffer, as an item that is found.
FrontLaw(b, one(_)) ==
    /\ one(b).result \in Results
    /\ one(b).result = "SUCCESS" =>
         one(b).item \in Seq(Seq(Byte)) /\ one(b).next \in 2..(Len(b) + 1)
    /\ one(b).result # "INCOMPLETE" => \A c \in Seq(Byte) : one(b \o c) = one(b)

\* Inline commands stay what they are.
LEMMA ParseInlineReads ==
    ASSUME NEW b \in Seq(Byte)
    PROVE  FrontLaw(b, ParseInline)
<1> DEFINE Lfs(d) == {i \in 1..Len(d) : d[i] = "LF"}
           End(d, lf) == IF lf > 1 /\ d[lf - 1] = "CR" THEN lf - 2 ELSE lf - 1
           lf == First(Lfs(b))
           end == End(b, lf)
<1>0. Len(b) \in Nat
  BY LenProperties
<1>1. ASSUME NEW d \in Seq(Byte)
      PROVE  /\ First(Lfs(d)) = 0 => ParseInline(d) = Incomplete
             /\ First(Lfs(d)) # 0 =>
                  ParseInline(d) = Success(InlineWords(SubSeq(d, 1, End(d, First(Lfs(d))))),
                                           First(Lfs(d)) + 1)
  BY DEF ParseInline
<1>2. \A d \in Seq(Byte) : Lfs(d) \subseteq Nat \ {0}
  BY LenProperties
<1>3. CASE lf = 0
  <2>1. ParseInline(b) = Incomplete
    BY <1>1, <1>3
  <2> QED BY <2>1 DEF FrontLaw, Incomplete, Results
<1>4. CASE lf # 0
  <2>1. lf \in Lfs(b) /\ \A p \in Lfs(b) : lf <= p
    <3>1. Lfs(b) # {}
      BY <1>2, <1>4, FirstProperties
    <3> HIDE DEF Lfs
    <3> QED BY <3>1, <1>2, FirstProperties
  <2>2. lf \in 1..Len(b) /\ b[lf] = "LF"
    BY <2>1
  <2> HIDE DEF lf
  <2>3. end \in 0..Len(b)
    <3>1. lf > 1 /\ b[lf - 1] = "CR" => lf - 2 \in 0..Len(b)
      BY <1>0, <2>2
    <3>2. lf - 1 \in 0..Len(b)
      BY <1>0, <2>2
    <3> QED BY <3>1, <3>2
  <2>4. ParseInline(b) = Success(InlineWords(SubSeq(b, 1, end)), lf + 1)
    BY <1>1, <1>4 DEF lf
  <2>5. SubSeq(b, 1, end) \in Seq(Byte)
    <3> HIDE DEF end
    <3> QED BY <2>3, PartStable
  <2>6. InlineWords(SubSeq(b, 1, end)) \in Seq(Seq(Byte)) /\ lf + 1 \in 2..(Len(b) + 1)
    <3> HIDE DEF end
    <3>1. InlineWords(SubSeq(b, 1, end)) \in Seq(Seq(Byte))
      <4> DEFINE line == SubSeq(b, 1, end)
      <4>1. line \in Seq(Byte)
        BY <2>5
      <4> HIDE DEF line
      <4>2. InlineWords(line) \in Seq(Seq(Byte))
        BY <4>1, InlineWordsType
      <4> QED BY <4>2 DEF line
    <3>2. lf + 1 \in 2..(Len(b) + 1)
      BY <1>0, <2>2
    <3> QED BY <3>1, <3>2
  <2>7. ASSUME NEW c \in Seq(Byte)
        PROVE  ParseInline(b \o c) = ParseInline(b)
    <3>1. /\ b \o c \in Seq(Byte) /\ Len(b \o c) = Len(b) + Len(c) /\ Len(c) \in Nat
          /\ \A i \in 1..Len(b) : (b \o c)[i] = b[i]
      BY ConcatProperties, LenProperties, ByteStable
    <3>2. First(Lfs(b \o c)) = lf
      <4>1. lf \in Lfs(b \o c)
        BY <1>0, <2>2, <3>1
      <4>2. \A p \in Lfs(b \o c) : lf <= p
        <5> SUFFICES ASSUME NEW p \in Lfs(b \o c), ~(lf <= p)
                     PROVE  FALSE
          OBVIOUS
        <5>1. p \in 1..Len(b) /\ (b \o c)[p] = "LF"
          BY <1>0, <2>2, <3>1
        <5>2. p \in Lfs(b)
          BY <5>1, <3>1
        <5> QED BY <5>2, <2>1
      <4>3. LET l == First(Lfs(b \o c)) IN l \in Lfs(b \o c) /\ \A p \in Lfs(b \o c) : l <= p
        <5> DEFINE places == Lfs(b \o c)
        <5>1. places \subseteq Nat \ {0} /\ places # {}
          BY <4>1, <1>2, <3>1
        <5> HIDE DEF places
        <5>2. First(places) \in places /\ \A p \in places : First(places) <= p
          BY <5>1, FirstProperties
        <5> QED BY <5>2 DEF places
      <4> DEFINE l == First(Lfs(b \o c))
      <4>4. l <= lf /\ lf <= l /\ l \in Nat /\ lf \in Nat
        BY <4>1, <4>2, <4>3, <1>2, <2>2, <3>1
      <4> HIDE DEF l
      <4>5. l = lf
        BY <4>4
      <4> QED BY <4>5 DEF l
    <3>3. End(b \o c, lf) = end
      <4>1. lf > 1 => (b \o c)[lf - 1] = b[lf - 1]
        <5>1. lf > 1 => lf - 1 \in 1..Len(b)
          BY <1>0, <2>2
        <5> QED BY <5>1, <3>1
      <4> QED BY <4>1
    <3>4. SubSeq(b \o c, 1, end) = SubSeq(b, 1, end)
      <4> HIDE DEF end
      <4> QED BY <2>3, PartStable
    <3>5. ParseInline(b \o c) = Success(InlineWords(SubSeq(b \o c, 1, End(b \o c, lf))), lf + 1)
      BY <1>1, <3>1, <3>2, <1>4
    <3> HIDE DEF End
    <3> QED BY <3>5, <3>3, <3>4, <2>4
  <2> HIDE DEF end
  <2> QED BY <2>4, <2>6, <2>7 DEF FrontLaw, Success, Results
<1> QED BY <1>3, <1>4

\* Arrays stay what they are.
LEMMA ParseArrayReads ==
    ASSUME NEW b \in Seq(Byte), b # <<>>
    PROVE  FrontLaw(b, ParseArray)
<1> DEFINE crlf == FindCrLf(b, 1)
<1>0. Len(b) \in Nat /\ 1 \in 1..Len(b)
  BY EmptySeq
<1>1. CASE crlf = 0
  <2>1. ParseArray(b) = Incomplete
    BY <1>1 DEF ParseArray
  <2> QED BY <2>1 DEF FrontLaw, Incomplete, Results
<1>2. CASE crlf # 0
  <2>1. crlf \in 1..(Len(b) - 1)
    BY <1>2, FindCrLfProperties
  <2>2. ASSUME NEW c \in Seq(Byte)
        PROVE  FindCrLf(b \o c, 1) = crlf /\ (b \o c)[1] = b[1]
    BY <1>0, <1>2, FindCrLfStable, ByteStable
  <2> HIDE DEF crlf
  <2>3. CASE b[1] \notin DOMAIN Number
    <3>1. ParseArray(b) = ProtocolError
      BY <1>2, <2>3 DEF ParseArray, crlf
    <3>2. \A c \in Seq(Byte) : ParseArray(b \o c) = ProtocolError
      BY <1>2, <2>2, <2>3 DEF ParseArray
    <3> QED BY <3>1, <3>2 DEF FrontLaw, ProtocolError, Results
  <2>4. CASE b[1] \in DOMAIN Number /\ Number[b[1]] < 0
    <3>1. ParseArray(b) = Success(<<>>, crlf + 2)
      BY <1>2, <2>4 DEF ParseArray, crlf
    <3>2. \A c \in Seq(Byte) : ParseArray(b \o c) = Success(<<>>, crlf + 2)
      BY <1>2, <2>2, <2>4 DEF ParseArray
    <3>3. <<>> \in Seq(Seq(Byte)) /\ crlf + 2 \in 2..(Len(b) + 1)
      BY <1>0, <2>1, EmptySeq
    <3> QED BY <3>1, <3>2, <3>3 DEF FrontLaw, Success, Results
  <2>5. CASE b[1] \in DOMAIN Number /\ ~(Number[b[1]] < 0)
    <3>1. Number[b[1]] \in Nat
      BY <2>5, Numbers
    <3> DEFINE n == Number[b[1]]
               at == crlf + 2
    <3>2. at \in 3..(Len(b) + 1) /\ at \in 1..(Len(b) + 1)
      BY <1>0, <2>1
    <3>3. ParseArray(b) = Bulks(b, at, n)
      BY <1>2, <2>5 DEF ParseArray, crlf
    <3>4. \A c \in Seq(Byte) : ParseArray(b \o c) = Bulks(b \o c, at, n)
      BY <1>2, <2>2, <2>5 DEF ParseArray
    <3> HIDE DEF n, at
    <3>5. BulksLaw(b, at, n)
      BY <3>1, <3>2, BulksReads DEF n
    <3>6. \A i \in at..(Len(b) + 1) : i \in 2..(Len(b) + 1)
      BY <3>2, <1>0
    <3> QED BY <3>3, <3>4, <3>5, <3>6 DEF BulksLaw, FrontLaw
  <2> QED BY <2>3, <2>4, <2>5
<1> QED BY <1>1, <1>2

\* parse_single_command() can be resumed.
LEMMA CommandAtReads == Reads(CommandAt, Byte, Seq(Seq(Byte)))
<1> SUFFICES ASSUME NEW b \in Seq(Byte), b # <<>>
             PROVE  /\ CommandAt[b].result \in Results
                    /\ CommandAt[b].result = "SUCCESS" =>
                         /\ CommandAt[b].item \in Seq(Seq(Byte))
                         /\ CommandAt[b].next \in 2..(Len(b) + 1)
                    /\ CommandAt[b].result # "INCOMPLETE" =>
                         \A c \in Seq(Byte) : CommandAt[b \o c] = CommandAt[b]
  BY DEF Reads
<1>1. \A d \in Seq(Byte) : CommandAt[d] = IF d[1] \in ArrayHeads THEN ParseArray(d) ELSE ParseInline(d)
  BY DEF CommandAt, ParseSingleCommand
<1>2. ASSUME NEW c \in Seq(Byte)
      PROVE  b \o c \in Seq(Byte) /\ (b \o c)[1] = b[1]
  <2>1. 1 \in 1..Len(b)
    BY EmptySeq
  <2> QED BY <2>1, ConcatProperties, ByteStable
<1>3. CASE b[1] \in ArrayHeads
  <2>1. FrontLaw(b, ParseArray)
    BY ParseArrayReads
  <2>2. CommandAt[b] = ParseArray(b)
    BY <1>1, <1>3
  <2>3. \A c \in Seq(Byte) : CommandAt[b \o c] = ParseArray(b \o c)
    BY <1>1, <1>2, <1>3
  <2> QED BY <2>1, <2>2, <2>3 DEF FrontLaw
<1>4. CASE b[1] \notin ArrayHeads
  <2>1. FrontLaw(b, ParseInline)
    BY ParseInlineReads
  <2>2. CommandAt[b] = ParseInline(b)
    BY <1>1, <1>4
  <2>3. \A c \in Seq(Byte) : CommandAt[b \o c] = ParseInline(b \o c)
    BY <1>1, <1>2, <1>4
  <2> QED BY <2>1, <2>2, <2>3 DEF FrontLaw
<1> QED BY <1>3, <1>4

\* What parse() has left of the bytes it was given, with those that follow, gives what
\* all of them would have given at once; and once it has met an error, what follows is
\* thrown away with the rest.  So the commands do not depend on how TCP cuts the bytes.
THEOREM PiecesParsedAlike ==
    ASSUME NEW b \in Seq(Byte), NEW c \in Seq(Byte)
    PROVE  LET p == Parse(b)
           IN  /\ p.result = "PROTOCOL_ERROR" => Parse(b \o c) = p /\ p.rest = <<>>
               /\ p.result # "PROTOCOL_ERROR" =>
                    LET q == Parse(p.rest \o c)
                    IN  Parse(b \o c) = [result |-> q.result, items |-> p.items \o q.items,
                                         rest |-> q.rest]
<1>1. Resumes(CommandAt, b, c)
  BY CommandAtReads, DrainResumes
<1> QED BY <1>1 DEF Resumes, Parse, Ahead

-----------------------------------------------------------------------------
(* The replica's lines and tokens. *)

\* A blank at place i.
Blank(b, i) == b[i] \in {"SP", "TAB"}

\* A token ends at the first blank.
LEMMA TokenAtProperties ==
    ASSUME NEW b \in Seq(Wired)
    PROVE  \/ TokenAt[b] = Incomplete /\ \A i \in 1..Len(b) : ~Blank(b, i)
           \/ \E k \in 1..Len(b) : /\ Blank(b, k) /\ \A i \in 1..(k - 1) : ~Blank(b, i)
                                   /\ TokenAt[b] = Success(SubSeq(b, 1, k - 1), k + 1)
<1> DEFINE places == {i \in 1..Len(b) : b[i] \in {"SP", "TAB"}}
<1>1. TokenAt[b] = IF First(places) = 0 THEN Incomplete
                   ELSE Success(SubSeq(b, 1, First(places) - 1), First(places) + 1)
  BY DEF TokenAt
<1>2. places \subseteq Nat \ {0} /\ places \subseteq 1..Len(b)
  BY LenProperties
<1>3. \A i \in 1..Len(b) : i \in places <=> Blank(b, i)
  BY DEF Blank
<1> HIDE DEF places
<1>4. CASE places = {}
  <2>1. First(places) = 0
    BY <1>2, <1>4, FirstProperties
  <2> QED BY <1>1, <1>3, <1>4, <2>1
<1>5. CASE places # {}
  <2> DEFINE k == First(places)
  <2>1. k \in places /\ \A p \in places : k <= p
    BY <1>2, <1>5, FirstProperties
  <2> HIDE DEF k
  <2>2. k \in 1..Len(b) /\ Blank(b, k) /\ k # 0
    BY <1>2, <1>3, <2>1
  <2>3. ASSUME NEW i \in 1..(k - 1)
        PROVE  ~Blank(b, i)
    <3>1. i \in 1..Len(b) /\ ~(k <= i)
      BY <2>2, LenProperties
    <3> QED BY <3>1, <2>1, <1>3
  <2>4. TokenAt[b] = Success(SubSeq(b, 1, k - 1), k + 1)
    BY <1>1, <2>2 DEF k
  <2> QED BY <2>2, <2>3, <2>4
<1> QED BY <1>4, <1>5

\* The first blank ends the token.
LEMMA TokenAtIs ==
    ASSUME NEW b \in Seq(Wired), NEW k \in 1..Len(b), Blank(b, k),
           \A i \in 1..(k - 1) : ~Blank(b, i)
    PROVE  TokenAt[b] = Success(SubSeq(b, 1, k - 1), k + 1)
<1>1. PICK j \in 1..Len(b) : /\ Blank(b, j) /\ \A i \in 1..(j - 1) : ~Blank(b, i)
                             /\ TokenAt[b] = Success(SubSeq(b, 1, j - 1), j + 1)
  BY TokenAtProperties
<1>2. Len(b) \in Nat
  BY LenProperties
<1>3. ~(j < k) /\ ~(k < j)
  BY <1>1, <1>2
<1>4. j = k
  BY <1>2, <1>3
<1> QED BY <1>1, <1>4

\* Tokens stay what they are.
LEMMA TokenAtReads == Reads(TokenAt, Wired, Seq(Wired))
<1> SUFFICES ASSUME NEW b \in Seq(Wired), b # <<>>
             PROVE  /\ TokenAt[b].result \in Results
                    /\ TokenAt[b].result = "SUCCESS" =>
                         TokenAt[b].item \in Seq(Wired) /\ TokenAt[b].next \in 2..(Len(b) + 1)
                    /\ TokenAt[b].result # "INCOMPLETE" =>
                         \A c \in Seq(Wired) : TokenAt[b \o c] = TokenAt[b]
  BY DEF Reads
<1>1. CASE TokenAt[b] = Incomplete
  BY <1>1 DEF Incomplete, Results
<1>2. CASE TokenAt[b] # Incomplete
  <2>1. PICK k \in 1..Len(b) : /\ Blank(b, k) /\ \A i \in 1..(k - 1) : ~Blank(b, i)
                               /\ TokenAt[b] = Success(SubSeq(b, 1, k - 1), k + 1)
    BY <1>2, TokenAtProperties
  <2>2. Len(b) \in Nat
    BY LenProperties
  <2>3. k - 1 \in 0..Len(b) /\ k + 1 \in 2..(Len(b) + 1)
    BY <2>2
  <2>4. SubSeq(b, 1, k - 1) \in Seq(Wired)
    BY <2>3, PartStable
  <2>5. ASSUME NEW c \in Seq(Wired)
        PROVE  TokenAt[b \o c] = TokenAt[b]
    <3>1. b \o c \in Seq(Wired) /\ k \in 1..Len(b \o c) /\ \A i \in 1..Len(b) : (b \o c)[i] = b[i]
      BY ConcatProperties, ByteStable
    <3>2. Blank(b \o c, k)
      BY <2>1, <3>1 DEF Blank
    <3>3. \A i \in 1..(k - 1) : ~Blank(b \o c, i)
      <4>1. \A i \in 1..(k - 1) : i \in 1..Len(b)
        BY <2>2
      <4> QED BY <2>1, <3>1, <4>1 DEF Blank
    <3>4. TokenAt[b \o c] = Success(SubSeq(b \o c, 1, k - 1), k + 1)
      BY <3>1, <3>2, <3>3, TokenAtIs
    <3>5. SubSeq(b \o c, 1, k - 1) = SubSeq(b, 1, k - 1)
      BY <2>3, PartStable
    <3> QED BY <2>1, <3>4, <3>5
  <2> QED BY <2>1, <2>3, <2>4, <2>5 DEF Success, Results
<1> QED BY <1>1, <1>2

\* A function on 1..n is a sequence.
LEMMA FunctionIsSeq ==
    ASSUME NEW S, NEW n \in Nat, NEW f \in [1..n -> S]
    PROVE  f \in Seq(S) /\ Len(f) = n /\ DOMAIN f = 1..n
<1>1. f \in Seq(S)
  BY SeqDef
<1>2. DOMAIN f = 1..n
  OBVIOUS
<1>3. Len(f) \in Nat /\ DOMAIN f = 1..Len(f)
  BY <1>1, LenProperties
<1>4. Len(f) = n
  BY <1>2, <1>3
<1> QED BY <1>1, <1>2, <1>4

\* One byte, encoded and decoded.
Encoded(x) == CASE x = "%"  -> "%25" [] x = "SP" -> "%20"
                [] x = "CR" -> "%0D" [] x = "LF" -> "%0A" [] OTHER -> x
Decoded(x) == CASE x = "%25" -> "%"  [] x = "%20" -> "SP"
                [] x = "%0D" -> "CR" [] x = "%0A" -> "LF" [] OTHER -> x

\* decode() takes back what encode() does to a byte, and no line end or space is left.
LEMMA ByteEncoded ==
    /\ \A x \in Byte : /\ Encoded(x) \in Wired /\ Decoded(Encoded(x)) = x
                       /\ Encoded(x) \notin {"CR", "LF", "SP"}
                       /\ Encoded(x) = "TAB" => x = "TAB"
    /\ \A x \in Wired : Decoded(x) \in Byte
<1>1. Escapes \cap Byte = {} /\ {"%", "SP", "CR", "LF"} \subseteq Byte
  BY ByteAssumption DEF Plain
<1>2. ASSUME NEW x \in Byte
      PROVE  /\ Encoded(x) \in Wired /\ Decoded(Encoded(x)) = x
             /\ Encoded(x) \notin {"CR", "LF", "SP"}
             /\ Encoded(x) = "TAB" => x = "TAB"
  <2>1. CASE x = "%"
    BY <2>1 DEF Encoded, Decoded, Wired, Escapes
  <2>2. CASE x = "SP"
    BY <2>2 DEF Encoded, Decoded, Wired, Escapes
  <2>3. CASE x = "CR"
    BY <2>3 DEF Encoded, Decoded, Wired, Escapes
  <2>4. CASE x = "LF"
    BY <2>4 DEF Encoded, Decoded, Wired, Escapes
  <2>5. CASE x \notin {"%", "SP", "CR", "LF"}
    <3>1. Encoded(x) = x
      BY <2>5 DEF Encoded
    <3>2. x \notin {"%25", "%20", "%0D", "%0A"}
      BY <1>1 DEF Escapes
    <3>3. Decoded(x) = x
      BY <3>2 DEF Decoded
    <3> QED BY <2>5, <3>1, <3>3 DEF Wired
  <2> QED BY <2>1, <2>2, <2>3, <2>4, <2>5
<1>3. ASSUME NEW x \in Wired
      PROVE  Decoded(x) \in Byte
  <2>1. CASE x \in {"%25", "%20", "%0D", "%0A"}
    BY <1>1, <2>1 DEF Decoded
  <2>2. CASE x \notin {"%25", "%20", "%0D", "%0A"}
    <3>1. Decoded(x) = x
      BY <2>2 DEF Decoded
    <3>2. x \in Byte
      BY <2>2 DEF Wired, Escapes
    <3> QED BY <3>1, <3>2
  <2> QED BY <2>1, <2>2
<1> QED BY <1>2, <1>3

\* Decoding gives bytes.
LEMMA DecodeType ==
    ASSUME NEW s \in Seq(Wired)
    PROVE  /\ Decode(s) \in Seq(Byte) /\ Len(Decode(s)) = Len(s)
           /\ \A i \in 1..Len(s) : Decode(s)[i] = Decoded(s[i])
<1>1. Len(s) \in Nat /\ DOMAIN s = 1..Len(s) /\ \A i \in 1..Len(s) : s[i] \in Wired
  BY LenProperties, ElementOfSeq
<1>2. Decode(s) = [i \in 1..Len(s) |-> Decoded(s[i])]
  BY <1>1, Zenon DEF Decode, Decoded
<1>3. \A i \in 1..Len(s) : Decoded(s[i]) \in Byte
  BY <1>1, ByteEncoded
<1>4. Decode(s) \in [1..Len(s) -> Byte]
  BY <1>2, <1>3
<1>5. Decode(s) \in Seq(Byte) /\ Len(Decode(s)) = Len(s)
  BY <1>1, <1>4, FunctionIsSeq
<1> QED BY <1>2, <1>5

\* Encoding gives bytes of the wire, and decoding takes them back.
LEMMA EncodeDecode ==
    ASSUME NEW s \in Seq(Byte)
    PROVE  /\ Encode(s) \in Seq(Wired) /\ Len(Encode(s)) = Len(s)
           /\ \A i \in 1..Len(s) : Encode(s)[i] = Encoded(s[i])
           /\ Decode(Encode(s)) = s
<1>1. Len(s) \in Nat /\ DOMAIN s = 1..Len(s) /\ \A i \in 1..Len(s) : s[i] \in Byte
  BY LenProperties, ElementOfSeq
<1>2. Encode(s) = [i \in 1..Len(s) |-> Encoded(s[i])]
  BY <1>1, Zenon DEF Encode, Encoded
<1>3. \A i \in 1..Len(s) : Encoded(s[i]) \in Wired /\ Decoded(Encoded(s[i])) = s[i]
  BY <1>1, ByteEncoded
<1>4. Encode(s) \in [1..Len(s) -> Wired]
  BY <1>2, <1>3
<1> DEFINE e == Encode(s)
<1>5. e \in Seq(Wired) /\ Len(e) = Len(s) /\ \A i \in 1..Len(s) : e[i] = Encoded(s[i])
  BY <1>1, <1>2, <1>4, FunctionIsSeq
<1> HIDE DEF e
<1>6. /\ Decode(e) \in Seq(Byte) /\ Len(Decode(e)) = Len(e)
      /\ \A i \in 1..Len(e) : Decode(e)[i] = Decoded(e[i])
  BY <1>5, DecodeType
<1>7. Decode(e) = s
  <2>1. \A i \in 1..Len(Decode(e)) : Decode(e)[i] = s[i]
    BY <1>3, <1>5, <1>6
  <2>2. Len(Decode(e)) = Len(s)
    BY <1>5, <1>6
  <2> QED BY <2>1, <2>2, <1>6, SeqEqual
<1> QED BY <1>5, <1>7 DEF e

\* The tokens of a line are not empty.
LEMMA TokensType ==
    ASSUME NEW line \in Seq(Wired)
    PROVE  /\ Tokens(line) \in Seq(Seq(Wired) \ {<<>>})
           /\ Append(line, "SP") \in Seq(Wired) /\ Append(line, "SP") = line \o <<"SP">>
<1>1. "SP" \in Wired
  BY ByteAssumption DEF Plain, Wired
<1>2. Append(line, "SP") \in Seq(Wired) /\ Append(line, "SP") = line \o <<"SP">>
  BY <1>1, AppendProperties, AppendIsConcat
<1>3. Drain(TokenAt, Append(line, "SP")) \in State(Wired, Seq(Wired))
  BY <1>2, TokenAtReads, DrainSettles
<1>4. Drain(TokenAt, Append(line, "SP")).items \in Seq(Seq(Wired) \ {<<>>})
  BY <1>3 DEF State
<1> QED BY <1>2, <1>4 DEF Tokens

\* The tokens of a line, decoded.
Words(line) == [i \in DOMAIN Tokens(line) |-> Decode(Tokens(line)[i])]

\* There is a word for each token.
LEMMA WordsType ==
    ASSUME NEW line \in Seq(Wired)
    PROVE  /\ Words(line) \in Seq(Seq(Byte)) /\ Len(Words(line)) = Len(Tokens(line))
           /\ \A i \in 1..Len(Tokens(line)) : Words(line)[i] = Decode(Tokens(line)[i])
<1> DEFINE t == Tokens(line)
<1>1. t \in Seq(Seq(Wired) \ {<<>>})
  BY TokensType
<1>2. Words(line) = [i \in DOMAIN t |-> Decode(t[i])]
  BY DEF Words
<1> HIDE DEF t
<1>3. Len(t) \in Nat /\ DOMAIN t = 1..Len(t) /\ \A i \in 1..Len(t) : t[i] \in Seq(Wired)
  BY <1>1, LenProperties, ElementOfSeq
<1>4. \A i \in 1..Len(t) : Decode(t[i]) \in Seq(Byte)
  BY <1>3, DecodeType
<1>5. Words(line) \in [1..Len(t) -> Seq(Byte)]
  BY <1>2, <1>3, <1>4
<1>6. Words(line) \in Seq(Seq(Byte)) /\ Len(Words(line)) = Len(t)
  BY <1>3, <1>5, FunctionIsSeq
<1> QED BY <1>2, <1>3, <1>6 DEF t

\* A line ends at the first line end.
LEMMA LineAtIs ==
    ASSUME NEW b \in Seq(Wired)
    PROVE  LineAt[b] = IF FindCrLf(b, 1) = 0 THEN Incomplete
                       ELSE Success(Words(SubSeq(b, 1, FindCrLf(b, 1) - 1)), FindCrLf(b, 1) + 2)
BY DEF LineAt, Words

\* Lines stay what they are.
LEMMA LineAtReads == Reads(LineAt, Wired, Seq(Seq(Byte)))
<1> SUFFICES ASSUME NEW b \in Seq(Wired), b # <<>>
             PROVE  /\ LineAt[b].result \in Results
                    /\ LineAt[b].result = "SUCCESS" =>
                         LineAt[b].item \in Seq(Seq(Byte)) /\ LineAt[b].next \in 2..(Len(b) + 1)
                    /\ LineAt[b].result # "INCOMPLETE" =>
                         \A c \in Seq(Wired) : LineAt[b \o c] = LineAt[b]
  BY DEF Reads
<1> DEFINE k == FindCrLf(b, 1)
<1>1. CASE k = 0
  <2>1. LineAt[b] = Incomplete
    BY <1>1, LineAtIs
  <2> QED BY <2>1 DEF Incomplete, Results
<1>2. CASE k # 0
  <2>1. k \in 1..(Len(b) - 1) /\ Len(b) \in Nat
    BY <1>2, FindCrLfProperties, LenProperties
  <2>2. LineAt[b] = Success(Words(SubSeq(b, 1, k - 1)), k + 2)
    BY <1>2, LineAtIs
  <2>3. \A c \in Seq(Wired) : FindCrLf(b \o c, 1) = k
    BY <1>2, FindCrLfStable
  <2> HIDE DEF k
  <2>4. k - 1 \in 0..Len(b) /\ k + 2 \in 2..(Len(b) + 1)
    BY <2>1
  <2> DEFINE line == SubSeq(b, 1, k - 1)
  <2>5. line \in Seq(Wired) /\ \A c \in Seq(Wired) : SubSeq(b \o c, 1, k - 1) = line
    BY <2>4, PartStable
  <2>6. ASSUME NEW c \in Seq(Wired)
        PROVE  LineAt[b \o c] = LineAt[b]
    <3>1. b \o c \in Seq(Wired)
      BY ConcatProperties
    <3>2. LineAt[b \o c] = Success(Words(SubSeq(b \o c, 1, k - 1)), k + 2)
      BY <1>2, <2>3, <3>1, LineAtIs DEF k
    <3> HIDE DEF line
    <3>3. SubSeq(b \o c, 1, k - 1) = line
      BY <2>5
    <3> QED BY <2>2, <3>2, <3>3 DEF line
  <2> HIDE DEF line
  <2>7. Words(line) \in Seq(Seq(Byte))
    BY <2>5, WordsType
  <2> QED BY <2>2, <2>4, <2>6, <2>7 DEF Success, Results, line
<1> QED BY <1>1, <1>2

-----------------------------------------------------------------------------
(* A line of encode_command(). *)

\* A command that the parser can give.
Request == Seq(Seq(Byte)) \ {<<>>}

\* Capitals are bytes, and a name that has no tab keeps having none.
LEMMA UpperType ==
    ASSUME NEW s \in Seq(Byte)
    PROVE  /\ Upper(s) \in Seq(Byte) /\ Len(Upper(s)) = Len(s)
           /\ \A i \in 1..Len(s) : Upper(s)[i] = "TAB" => s[i] = "TAB"
<1>1. Len(s) \in Nat /\ DOMAIN s = 1..Len(s) /\ \A i \in 1..Len(s) : s[i] \in Byte
  BY LenProperties, ElementOfSeq
<1> DEFINE Up(x) == CASE x = "set" -> "SET" [] x = "get" -> "GET" [] OTHER -> x
<1>2. Upper(s) = [i \in 1..Len(s) |-> Up(s[i])]
  BY <1>1, Zenon DEF Upper
<1>3. \A x \in Byte : Up(x) \in Byte /\ (Up(x) = "TAB" => x = "TAB")
  <2>1. "SET" \in Byte /\ "GET" \in Byte
    BY ByteAssumption DEF Plain
  <2> QED BY <2>1
<1> HIDE DEF Up
<1>4. Upper(s) \in [1..Len(s) -> Byte]
  BY <1>1, <1>2, <1>3
<1>5. Upper(s) \in Seq(Byte) /\ Len(Upper(s)) = Len(s)
  BY <1>1, <1>4, FunctionIsSeq
<1> QED BY <1>1, <1>2, <1>3, <1>5

\* The words of a command as they are sent.
Sent(cmd, i) == IF i = 1 THEN Encode(Upper(cmd[1])) ELSE Encode(cmd[i])

\* What is sent of a word has no line end and no space, and decodes to the word.
LEMMA SentType ==
    ASSUME NEW cmd \in Request, NEW i \in 1..Len(cmd)
    PROVE  /\ Sent(cmd, i) \in Seq(Wired) /\ Len(Sent(cmd, i)) = Len(cmd[i])
           /\ \A j \in 1..Len(Sent(cmd, i)) :
                /\ Sent(cmd, i)[j] \notin {"CR", "LF", "SP"}
                /\ Sent(cmd, i)[j] = "TAB" => cmd[i][j] = "TAB"
           /\ Decode(Sent(cmd, i)) = IF i = 1 THEN Upper(cmd[1]) ELSE cmd[i]
<1> DEFINE w == IF i = 1 THEN Upper(cmd[1]) ELSE cmd[i]
<1>1. cmd[i] \in Seq(Byte)
  BY ElementOfSeq DEF Request
<1>2. /\ w \in Seq(Byte) /\ Len(w) = Len(cmd[i])
      /\ \A j \in 1..Len(w) : w[j] = "TAB" => cmd[i][j] = "TAB"
  BY <1>1, UpperType
<1>3. Sent(cmd, i) = Encode(w)
  BY DEF Sent
<1> HIDE DEF w
<1>4. /\ Encode(w) \in Seq(Wired) /\ Len(Encode(w)) = Len(w)
      /\ \A j \in 1..Len(w) : Encode(w)[j] = Encoded(w[j])
      /\ Decode(Encode(w)) = w
  BY <1>2, EncodeDecode
<1>5. ASSUME NEW j \in 1..Len(w)
      PROVE  Encode(w)[j] \notin {"CR", "LF", "SP"} /\ (Encode(w)[j] = "TAB" => cmd[i][j] = "TAB")
  <2>1. w[j] \in Byte
    BY <1>2, ElementOfSeq
  <2>2. /\ Encoded(w[j]) \notin {"CR", "LF", "SP"}
        /\ Encoded(w[j]) = "TAB" => w[j] = "TAB"
    BY <2>1, ByteEncoded
  <2> QED BY <2>2, <1>2, <1>4
<1> QED BY <1>2, <1>3, <1>4, <1>5 DEF w

\* f puts the words of a command one behind the other.
Lays(f, cmd) ==
    /\ f \in [0..Len(cmd) -> Seq(Wired)]
    /\ f[1] = Sent(cmd, 1)
    /\ \A i \in 2..Len(cmd) : f[i] = (f[i - 1] \o <<"SP">>) \o Sent(cmd, i)

\* encode_command() lays out the words and ends the line.
LEMMA EncodeCommandRun ==
    ASSUME NEW cmd \in Request
    PROVE  \E f : Lays(f, cmd) /\ EncodeCommand(cmd) = f[Len(cmd)] \o CrLf
<1> DEFINE X == Seq(Wired)
           n == Len(cmd)
           Next1(x, i) == CASE i = 0 -> <<>>
                            [] i = 1 -> Encode(Upper(cmd[1]))
                            [] OTHER -> (x \o <<"SP">>) \o Encode(cmd[i])
           step == [p \in X \X Nat |-> Next1(p[1], p[2])]
           Law(g) == g = [i \in 0..n |->
                            CASE i = 0 -> <<>>
                              [] i = 1 -> Encode(Upper(cmd[1]))
                              [] OTHER -> (g[i - 1] \o <<"SP">>) \o Encode(cmd[i])]
           out == CHOOSE g : Law(g)
<1>0. EncodeCommand(cmd) = out[n] \o CrLf
  BY Zenon DEF EncodeCommand
<1>1. n \in Nat /\ n >= 1 /\ <<>> \in X
  BY EmptySeq DEF Request
<1>2. ASSUME NEW x \in X, NEW i \in 1..n
      PROVE  Next1(x, i) \in X
  <2>1. Sent(cmd, i) \in X
    BY SentType
  <2>2. <<"SP">> \in X
    BY ByteAssumption DEF Plain, Wired
  <2>3. (x \o <<"SP">>) \o Sent(cmd, i) \in X
    BY <2>1, <2>2, ConcatProperties
  <2> HIDE DEF X
  <2> QED BY <2>1, <2>3 DEF Sent
<1>3. \A x \in X : \A i \in 1..n : step[<<x, i>>] = Next1(x, i)
  <2> HIDE DEF Next1
  <2> QED OBVIOUS
<1> HIDE DEF X, n, step
<1>4. PICK f : Repeats(f, n, X, <<>>, step)
  <2>1. \A x \in X : \A i \in 1..n : step[<<x, i>>] \in X
    BY <1>2, <1>3
  <2> QED BY <1>1, <2>1, RunExists
<1>5. Law(f)
  <2>1. f \in [0..n -> X] /\ f[0] = <<>> /\ \A i \in 1..n : f[i] = step[<<f[i - 1], i>>]
    BY <1>4 DEF Repeats
  <2>2. \A i \in 1..n : f[i - 1] \in X
    BY <1>1, <2>1
  <2>3. \A i \in 0..n : f[i] = Next1(f[i - 1], i)
    <3> HIDE DEF Law
    <3>1. \A i \in 0..n : i # 0 => i \in 1..n
      BY <1>1
    <3>2. \A x : Next1(x, 0) = <<>>
      OBVIOUS
    <3> HIDE DEF Next1
    <3> QED BY <3>1, <3>2, <1>3, <2>1, <2>2
  <2>4. f = [i \in 0..n |-> f[i]]
    BY <2>1
  <2> QED BY <2>3, <2>4, Zenon
<1>6. Law(out)
  <2> HIDE DEF Law
  <2> QED BY <1>5, Zenon
<1> HIDE DEF out
<1>7. \A i \in 0..n : out[i] = Next1(out[i - 1], i)
  BY <1>6, Zenon
<1>8. out = [i \in 0..n |-> out[i]]
  <2> HIDE DEF Next1
  <2>1. out = [i \in 0..n |-> Next1(out[i - 1], i)]
    BY <1>6, Zenon DEF Next1
  <2> QED BY <2>1
<1> HIDE DEF Law
<1>9. \A i \in 0..n : out[i] \in X
  <2>1. out[0] \in X
    <3>1. 0 \in 0..n
      BY <1>1
    <3>2. out[0] = <<>>
      BY <1>7, <3>1
    <3> QED BY <1>1, <3>2
  <2>2. \A i \in 1..n : out[i] = Next1(out[i - 1], i)
    <3> HIDE DEF Next1
    <3> QED BY <1>1, <1>7
  <2>3. \A i \in 1..n : out[i - 1] \in X => out[i] \in X
    <3> HIDE DEF Next1
    <3> QED BY <1>2, <2>2
  <2> QED BY <1>1, <2>1, <2>3, RunStays
<1>10. out[1] = Sent(cmd, 1)
  <2>1. 1 \in 0..n
    BY <1>1
  <2> QED BY <2>1, <1>7 DEF Sent
<1>11. ASSUME NEW i \in 2..n
       PROVE  out[i] = (out[i - 1] \o <<"SP">>) \o Sent(cmd, i)
  <2>1. i \in 0..n /\ i # 0 /\ i # 1
    BY <1>1
  <2>2. out[i] = Next1(out[i - 1], i)
    BY <1>7, <2>1
  <2> QED BY <2>1, <2>2 DEF Sent
<1>12. out \in [0..n -> X]
  BY <1>8, <1>9
<1> QED BY <1>0, <1>10, <1>11, <1>12 DEF Lays, X, n


\* A line of encode_command() is one of the bytes of the wire.
LEMMA EncodeCommandType ==
    ASSUME NEW cmd \in Request
    PROVE  EncodeCommand(cmd) \in Seq(Wired)
<1>1. PICK f : Lays(f, cmd) /\ EncodeCommand(cmd) = f[Len(cmd)] \o CrLf
  BY EncodeCommandRun
<1>2. Len(cmd) \in 0..Len(cmd)
  BY LenProperties DEF Request
<1>3. f[Len(cmd)] \in Seq(Wired)
  BY <1>1, <1>2 DEF Lays
<1>4. "CR" \in Wired /\ "LF" \in Wired
  BY ByteAssumption DEF Plain, Wired
<1>5. CrLf \in Seq(Wired)
  BY <1>4 DEF CrLf
<1> QED BY <1>1, <1>3, <1>5, ConcatProperties

\* What stands in a line.
Inner == Wired \ {"CR", "LF"}

\* A sequence and one or two more elements.
LEMMA EndsWith ==
    ASSUME NEW S, NEW s \in Seq(S), NEW e \in Seq(S)
    PROVE  /\ s \o e \in Seq(S) /\ Len(s \o e) = Len(s) + Len(e)
           /\ \A i \in 1..Len(s) : (s \o e)[i] = s[i]
           /\ \A i \in 1..Len(e) : (s \o e)[Len(s) + i] = e[i]
           /\ SubSeq(s \o e, 1, Len(s)) = s
<1>1. Len(s) \in Nat /\ Len(e) \in Nat
  BY LenProperties
<1>2. /\ s \o e \in Seq(S) /\ Len(s \o e) = Len(s) + Len(e)
      /\ \A i \in 1..(Len(s) + Len(e)) : (s \o e)[i] = IF i <= Len(s) THEN s[i] ELSE e[i - Len(s)]
  BY ConcatProperties
<1>3. \A i \in 1..Len(s) : (s \o e)[i] = s[i]
  BY <1>1, <1>2
<1>4. ASSUME NEW i \in 1..Len(e)
      PROVE  (s \o e)[Len(s) + i] = e[i]
  <2>1. \A m, n \in Nat : \A j \in 1..n : m + j \in 1..(m + n) /\ ~(m + j <= m) /\ (m + j) - m = j
    OBVIOUS
  <2>2. Len(s) + i \in 1..(Len(s) + Len(e)) /\ ~(Len(s) + i <= Len(s)) /\ (Len(s) + i) - Len(s) = i
    BY <1>1, <2>1
  <2> QED BY <1>2, <2>2
<1>5. Len(s) \in 0..Len(s)
  BY <1>1
<1>6. SubSeq(s \o e, 1, Len(s)) = SubSeq(s, 1, Len(s)) /\ SubSeq(s, 1, Len(s)) = s
  BY <1>5, PartStable, SubSeqFull
<1> QED BY <1>2, <1>3, <1>4, <1>6

\* When the item at the front is all there is.
LEMMA DrainOne ==
    ASSUME NEW B, NEW I, NEW one, Reads(one, B, I), NEW b \in Seq(B), b # <<>>,
           one[b].result = "SUCCESS", one[b].next = Len(b) + 1
    PROVE  Drain(one, b) = [result |-> "SUCCESS", items |-> Kept(one[b].item), rest |-> <<>>]
<1>1. Kept(one[b].item) \in Seq(I \ {<<>>})
  BY ItemFound
<1>2. Suffix(b, one[b].next) = <<>>
  <2>1. Len(b) + 1 \in 1..(Len(b) + 1)
    BY LenProperties
  <2> QED BY <2>1, SuffixProperties
<1>3. <<>> \in Seq(B)
  BY EmptySeq
<1>4. Drain(one, <<>>) = [result |-> "SUCCESS", items |-> <<>>, rest |-> <<>>]
  BY <1>3, DrainCases DEF DrainLaw
<1>5. DrainLaw(one, b)
  BY DrainCases
<1>6. Drain(one, b) = Ahead(Kept(one[b].item), Drain(one, <<>>))
  BY <1>2, <1>5 DEF DrainLaw
<1> DEFINE kept == Kept(one[b].item)
           none == Drain(one, <<>>)
<1>7. kept \o <<>> = kept
  BY <1>1, ConcatEmptySeq
<1>8. /\ Drain(one, b) = Ahead(kept, none)
      /\ none.result = "SUCCESS" /\ none.items = <<>> /\ none.rest = <<>>
  BY <1>4, <1>6
<1> HIDE DEF kept, none
<1>9. Ahead(kept, none) = [result |-> none.result, items |-> kept \o none.items, rest |-> none.rest]
  BY Zenon DEF Ahead
<1>10. Ahead(kept, none) = [result |-> "SUCCESS", items |-> kept, rest |-> <<>>]
  BY <1>7, <1>8, <1>9, Zenon
<1> QED BY <1>8, <1>10 DEF kept

\* A whole line gives its words and leaves nothing.
LEMMA LineFound ==
    ASSUME NEW line \in Seq(Inner)
    PROVE  /\ line \o CrLf \in Seq(Wired)
           /\ Lines(line \o CrLf) = [result |-> "SUCCESS", items |-> Kept(Words(line)), rest |-> <<>>]
<1> DEFINE b == line \o CrLf
           n == Len(line)
<1>1. line \in Seq(Wired) /\ n \in Nat /\ \A i \in 1..n : line[i] # "CR"
  <2>1. \A i \in 1..n : line[i] \in Inner
    BY ElementOfSeq
  <2>2. Inner \subseteq Wired
    BY DEF Inner
  <2>3. line \in Seq(Wired)
    BY <2>2
  <2> QED BY <2>1, <2>3, LenProperties DEF Inner
<1>2. CrLf \in Seq(Wired) /\ Len(CrLf) = 2 /\ CrLf[1] = "CR" /\ CrLf[2] = "LF"
  <2>1. "CR" \in Wired /\ "LF" \in Wired
    BY ByteAssumption DEF Plain, Wired
  <2> QED BY <2>1 DEF CrLf
<1> HIDE DEF n
<1>3. /\ b \in Seq(Wired) /\ Len(b) = n + 2 /\ \A i \in 1..n : b[i] = line[i]
      /\ b[n + 1] = "CR" /\ b[n + 2] = "LF" /\ SubSeq(b, 1, n) = line
  <2>1. /\ b \in Seq(Wired) /\ Len(b) = n + Len(CrLf)
        /\ \A i \in 1..n : b[i] = line[i]
        /\ \A i \in 1..Len(CrLf) : b[n + i] = CrLf[i]
        /\ SubSeq(b, 1, n) = line
    BY <1>1, <1>2, EndsWith DEF n
  <2> HIDE DEF b
  <2>2. 1 \in 1..Len(CrLf) /\ 2 \in 1..Len(CrLf)
    BY <1>2
  <2> QED BY <2>1, <2>2, <1>2
<1> HIDE DEF b
<1>4. FindCrLf(b, 1) = n + 1
  <2>1. n + 1 \in 1..(Len(b) - 1) /\ (n + 1) + 1 = n + 2 /\ (n + 1) - 1 = n
    BY <1>1, <1>3
  <2>2. EndsLine(b, n + 1)
    BY <1>3, <2>1 DEF EndsLine
  <2>3. \A i \in 1..n : ~EndsLine(b, i)
    BY <1>1, <1>3 DEF EndsLine
  <2> QED BY <1>3, <2>1, <2>2, <2>3, FindCrLfIs
<1>5. LineAt[b] = Success(Words(line), n + 3)
  <2>1. n + 1 # 0 /\ (n + 1) - 1 = n /\ (n + 1) + 2 = n + 3
    BY <1>1
  <2>2. LineAt[b] = IF FindCrLf(b, 1) = 0 THEN Incomplete
                    ELSE Success(Words(SubSeq(b, 1, FindCrLf(b, 1) - 1)), FindCrLf(b, 1) + 2)
    BY <1>3, LineAtIs
  <2> QED BY <1>3, <1>4, <2>1, <2>2
<1>6. b # <<>> /\ n + 3 = Len(b) + 1
  <2>1. Len(b) # 0
    BY <1>1, <1>3
  <2> QED BY <2>1, <1>1, <1>3
<1>7. LineAt[b].result = "SUCCESS" /\ LineAt[b].next = Len(b) + 1 /\ LineAt[b].item = Words(line)
  BY <1>5, <1>6 DEF Success
<1>8. Drain(LineAt, b) = [result |-> "SUCCESS", items |-> Kept(LineAt[b].item), rest |-> <<>>]
  BY <1>3, <1>6, <1>7, LineAtReads, DrainOne
<1> QED BY <1>3, <1>7, <1>8 DEF Lines, b

\* A word and a space give one token.
LEMMA TokenFound ==
    ASSUME NEW w \in Seq(Wired), \A i \in 1..Len(w) : ~Blank(w, i)
    PROVE  /\ w \o <<"SP">> \in Seq(Wired)
           /\ Drain(TokenAt, w \o <<"SP">>) = [result |-> "SUCCESS", items |-> Kept(w), rest |-> <<>>]
<1> DEFINE b == w \o <<"SP">>
           n == Len(w)
<1>1. n \in Nat
  BY LenProperties
<1>2. <<"SP">> \in Seq(Wired)
  BY ByteAssumption DEF Plain, Wired
<1> HIDE DEF n
<1>3. /\ b \in Seq(Wired) /\ Len(b) = n + 1 /\ \A i \in 1..n : b[i] = w[i]
      /\ b[n + 1] = "SP" /\ SubSeq(b, 1, n) = w
  <2>1. /\ b \in Seq(Wired) /\ Len(b) = n + Len(<<"SP">>)
        /\ \A i \in 1..n : b[i] = w[i]
        /\ \A i \in 1..Len(<<"SP">>) : b[n + i] = <<"SP">>[i]
        /\ SubSeq(b, 1, n) = w
    BY <1>2, EndsWith DEF n
  <2> HIDE DEF b
  <2> QED BY <2>1
<1> HIDE DEF b
<1>4. TokenAt[b] = Success(w, n + 2)
  <2>1. n + 1 \in 1..Len(b) /\ (n + 1) - 1 = n /\ (n + 1) + 1 = n + 2
    BY <1>1, <1>3
  <2>2. Blank(b, n + 1)
    BY <1>3 DEF Blank
  <2>3. \A i \in 1..n : ~Blank(b, i)
    BY <1>3 DEF Blank, n
  <2>4. TokenAt[b] = Success(SubSeq(b, 1, (n + 1) - 1), (n + 1) + 1)
    BY <1>3, <2>1, <2>2, <2>3, TokenAtIs
  <2> QED BY <1>3, <2>1, <2>4
<1>5. b # <<>> /\ n + 2 = Len(b) + 1
  <2>1. Len(b) # 0
    BY <1>1, <1>3
  <2> QED BY <2>1, <1>1, <1>3
<1>6. TokenAt[b].result = "SUCCESS" /\ TokenAt[b].next = Len(b) + 1 /\ TokenAt[b].item = w
  BY <1>4, <1>5 DEF Success
<1>7. Drain(TokenAt, b) = [result |-> "SUCCESS", items |-> Kept(TokenAt[b].item), rest |-> <<>>]
  BY <1>3, <1>5, <1>6, TokenAtReads, DrainOne
<1> QED BY <1>3, <1>6, <1>7 DEF b

\* No line end in a line of words.
LEMMA LaysInner ==
    ASSUME NEW cmd \in Request, NEW f, Lays(f, cmd)
    PROVE  \A i \in 1..Len(cmd) : f[i] \in Seq(Inner)
<1> DEFINE n == Len(cmd)
           P == {i \in 1..n : f[i] \in Seq(Inner)}
<1>1. n \in Nat /\ n >= 1
  BY LenProperties, EmptySeq DEF Request
<1>2. ASSUME NEW i \in 1..n
      PROVE  Sent(cmd, i) \in Seq(Inner)
  <2>1. /\ Sent(cmd, i) \in Seq(Wired)
        /\ \A j \in 1..Len(Sent(cmd, i)) : Sent(cmd, i)[j] \notin {"CR", "LF", "SP"}
    BY SentType
  <2> DEFINE w == Sent(cmd, i)
  <2> HIDE DEF w
  <2>2. \A j \in 1..Len(w) : w[j] \in Inner
    BY <2>1, ElementOfSeq DEF w, Inner
  <2>3. Len(w) \in Nat /\ w \in [1..Len(w) -> Wired]
    BY <2>1, LenProperties DEF w
  <2>4. w \in [1..Len(w) -> Inner]
    BY <2>2, <2>3
  <2>5. w \in Seq(Inner)
    BY <2>3, <2>4, FunctionIsSeq
  <2> QED BY <2>5 DEF w
<1>3. <<"SP">> \in Seq(Inner)
  <2>1. "SP" \in Inner
    BY ByteAssumption DEF Plain, Wired, Inner
  <2> QED BY <2>1
<1> HIDE DEF n
<1>4. 1 \in P
  <2>1. 1 \in 1..n
    BY <1>1
  <2> QED BY <2>1, <1>2 DEF Lays
<1>5. ASSUME NEW i \in 1..(n - 1), i \in P
      PROVE  i + 1 \in P
  <2>1. i + 1 \in 1..n /\ i + 1 \in 2..n /\ (i + 1) - 1 = i
    BY <1>1
  <2>2. f[i + 1] = (f[i] \o <<"SP">>) \o Sent(cmd, i + 1)
    BY <2>1 DEF Lays, n
  <2>3. Sent(cmd, i + 1) \in Seq(Inner)
    BY <1>2, <2>1
  <2>4. f[i] \o <<"SP">> \in Seq(Inner)
    BY <1>3, <1>5, ConcatProperties
  <2>5. (f[i] \o <<"SP">>) \o Sent(cmd, i + 1) \in Seq(Inner)
    BY <2>3, <2>4, ConcatProperties
  <2> QED BY <2>1, <2>2, <2>5
<1> HIDE DEF P
<1>6. 1..n \subseteq P
  BY <1>1, <1>4, <1>5, UpTo
<1> QED BY <1>6 DEF P, n

\* A write command's line begins with its name.
LEMMA LineHasWords ==
    ASSUME NEW cmd \in Request, IsWrite(cmd), NEW f, Lays(f, cmd)
    PROVE  Words(f[Len(cmd)]) # <<>>
<1> DEFINE n == Len(cmd)
           P == {i \in 1..n : Drain(TokenAt, f[i] \o <<"SP">>).items # <<>>}
<1>1. n \in Nat /\ n >= 1
  BY LenProperties, EmptySeq DEF Request
<1>2. \A i \in 0..n : f[i] \in Seq(Wired)
  BY DEF Lays
<1>3. \A s, t, u \in Seq(Wired) : (s \o t) \o u = s \o (t \o u)
  BY ConcatAssociative
<1>4. <<"SP">> \in Seq(Wired)
  BY ByteAssumption DEF Plain, Wired
<1> HIDE DEF n
<1>5. 1 \in P
  <2>1. Sent(cmd, 1) = <<"SET">>
    <3>1. Upper(cmd[1]) = <<"SET">>
      BY DEF IsWrite
    <3> QED BY <3>1 DEF Sent, Encode
  <2>2. f[1] = <<"SET">> /\ 1 \in 1..n
    BY <2>1, <1>1 DEF Lays
  <2>3. <<"SET">> \in Seq(Wired) /\ \A i \in 1..Len(<<"SET">>) : ~Blank(<<"SET">>, i)
    BY ByteAssumption DEF Plain, Wired, Blank
  <2>4. Drain(TokenAt, <<"SET">> \o <<"SP">>).items = Kept(<<"SET">>)
    <3> DEFINE w == <<"SET">>
    <3>1. w \in Seq(Wired) /\ \A i \in 1..Len(w) : ~Blank(w, i)
      BY <2>3
    <3> HIDE DEF w
    <3>2. Drain(TokenAt, w \o <<"SP">>) = [result |-> "SUCCESS", items |-> Kept(w), rest |-> <<>>]
      BY <3>1, TokenFound
    <3> QED BY <3>2 DEF w
  <2>5. Kept(<<"SET">>) # <<>>
    BY DEF Kept
  <2> QED BY <2>2, <2>4, <2>5
<1>6. ASSUME NEW i \in 1..(n - 1), i \in P
      PROVE  i + 1 \in P
  <2>1. i + 1 \in 1..n /\ i + 1 \in 2..n /\ (i + 1) - 1 = i /\ i \in 0..n
    BY <1>1
  <2> DEFINE x == f[i] \o <<"SP">>
             y == Sent(cmd, i + 1) \o <<"SP">>
             w == Sent(cmd, i + 1)
  <2>2. f[i + 1] = x \o w
    BY <2>1 DEF Lays, n
  <2>3. w \in Seq(Wired)
    BY <2>1, SentType DEF n
  <2>4. x \in Seq(Wired) /\ y \in Seq(Wired)
    BY <1>2, <1>4, <2>1, <2>3, ConcatProperties
  <2>5. Drain(TokenAt, x).items # <<>>
    BY <1>6
  <2>6. f[i + 1] \o <<"SP">> = x \o y
    <3> HIDE DEF x, w
    <3>1. (x \o w) \o <<"SP">> = x \o (w \o <<"SP">>)
      BY <1>3, <1>4, <2>3, <2>4
    <3> QED BY <3>1, <2>2 DEF w
  <2> HIDE DEF x, y, w, P
  <2>7. MoreLaw(TokenAt, Seq(Wired), x, y)
    BY <2>4, TokenAtReads, DrainMore
  <2>8. PICK more \in Seq(Seq(Wired) \ {<<>>}) :
          Drain(TokenAt, x \o y).items = Drain(TokenAt, x).items \o more
    BY <2>7 DEF MoreLaw
  <2>9. Drain(TokenAt, x).items \in Seq(Seq(Wired) \ {<<>>})
    BY <2>4, TokenAtReads, DrainType
  <2>10. Drain(TokenAt, x \o y).items # <<>>
    BY <2>5, <2>8, <2>9, ConcatEqualIffEmpty
  <2> QED BY <2>1, <2>6, <2>10 DEF P
<1> HIDE DEF P
<1>7. n \in P
  <2>1. 1..n \subseteq P
    BY <1>1, <1>5, <1>6, UpTo
  <2> QED BY <2>1, <1>1
<1>8. f[n] \in Seq(Wired)
  BY <1>1, <1>2
<1>9. Append(f[n], "SP") = f[n] \o <<"SP">>
  BY <1>8, TokensType
<1>10. Tokens(f[n]) # <<>> /\ Tokens(f[n]) \in Seq(Seq(Wired) \ {<<>>})
  BY <1>7, <1>8, <1>9, TokensType DEF P, Tokens
<1>11. Len(Words(f[n])) # 0
  <2>1. Len(Tokens(f[n])) # 0
    BY <1>10, EmptySeq
  <2> QED BY <2>1, <1>8, WordsType
<1>12. Words(f[n]) # <<>>
  BY <1>11
<1> QED BY <1>12 DEF n

\* The words sent of a command that encode() can carry are tokens.
LEMMA CarriedToken ==
    ASSUME NEW cmd \in Request, Carried(cmd), NEW i \in 1..Len(cmd)
    PROVE  /\ Sent(cmd, i) \in Seq(Wired) \ {<<>>} /\ Sent(cmd, i) \o <<"SP">> \in Seq(Wired)
           /\ Drain(TokenAt, Sent(cmd, i) \o <<"SP">>) = Done(<<Sent(cmd, i)>>)
<1> DEFINE w == Sent(cmd, i)
<1>1. /\ w \in Seq(Wired) /\ Len(w) = Len(cmd[i])
      /\ \A j \in 1..Len(w) : w[j] \notin {"CR", "LF", "SP"} /\ (w[j] = "TAB" => cmd[i][j] = "TAB")
  BY SentType
<1> HIDE DEF w
<1>2. cmd \in Seq(Seq(Byte)) /\ cmd[i] \in Seq(Byte)
  BY ElementOfSeq DEF Request
<1>3. cmd[i] \in Range(cmd)
  <2>1. i \in DOMAIN cmd
    BY <1>2, LenProperties
  <2> QED BY <2>1 DEF Range
<1>4. cmd[i] # <<>> /\ "TAB" \notin Range(cmd[i])
  BY <1>3 DEF Carried
<1>5. \A j \in 1..Len(cmd[i]) : cmd[i][j] # "TAB"
  <2>1. DOMAIN cmd[i] = 1..Len(cmd[i])
    BY <1>2, LenProperties
  <2> QED BY <2>1, <1>4 DEF Range
<1>6. w # <<>>
  <2>1. Len(cmd[i]) # 0
    BY <1>2, <1>4, EmptySeq
  <2> QED BY <2>1, <1>1
<1>7. \A j \in 1..Len(w) : ~Blank(w, j)
  BY <1>1, <1>5 DEF Blank
<1>8. /\ w \o <<"SP">> \in Seq(Wired)
      /\ Drain(TokenAt, w \o <<"SP">>) = [result |-> "SUCCESS", items |-> Kept(w), rest |-> <<>>]
  BY <1>1, <1>7, TokenFound
<1>9. Kept(w) = <<w>>
  BY <1>6 DEF Kept
<1>10. Drain(TokenAt, w \o <<"SP">>) = Done(<<w>>)
  BY <1>8, <1>9, Zenon DEF Done
<1> QED BY <1>1, <1>6, <1>8, <1>10 DEF w

\* The tokens of the line of a command that encode() can carry.
LEMMA CarriedTokens ==
    ASSUME NEW cmd \in Request, Carried(cmd), NEW f, Lays(f, cmd)
    PROVE  Tokens(f[Len(cmd)]) = [j \in 1..Len(cmd) |-> Sent(cmd, j)]
<1> DEFINE n == Len(cmd)
           T(i) == [j \in 1..i |-> Sent(cmd, j)]
           P == {i \in 1..n : Drain(TokenAt, f[i] \o <<"SP">>) = Done(T(i))}
<1>1. n \in Nat /\ n >= 1
  BY LenProperties, EmptySeq DEF Request
<1>2. \A i \in 0..n : f[i] \in Seq(Wired)
  BY DEF Lays
<1>3. \A s, t, u \in Seq(Wired) : (s \o t) \o u = s \o (t \o u)
  BY ConcatAssociative
<1>4. <<"SP">> \in Seq(Wired)
  BY ByteAssumption DEF Plain, Wired
<1>5. \A i \in 1..n : /\ Sent(cmd, i) \in Seq(Wired) /\ Sent(cmd, i) \o <<"SP">> \in Seq(Wired)
                      /\ Drain(TokenAt, Sent(cmd, i) \o <<"SP">>) = Done(<<Sent(cmd, i)>>)
  BY CarriedToken
<1> HIDE DEF n
<1>6. ASSUME NEW i \in 0..n
      PROVE  T(i) \in Seq(Seq(Wired)) /\ Len(T(i)) = i
  <2>1. i \in Nat /\ \A j \in 1..i : j \in 1..n
    BY <1>1
  <2>2. T(i) \in [1..i -> Seq(Wired)]
    BY <1>5, <2>1
  <2> HIDE DEF T
  <2> QED BY <2>1, <2>2, FunctionIsSeq
<1>7. ASSUME NEW i \in 0..(n - 1)
      PROVE  T(i) \o <<Sent(cmd, i + 1)>> = T(i + 1)
  <2> DEFINE s == T(i)
             e == <<Sent(cmd, i + 1)>>
             t == T(i + 1)
  <2>1. i \in 0..n /\ i + 1 \in 0..n /\ i + 1 \in 1..n
    BY <1>1
  <2>2. s \in Seq(Seq(Wired)) /\ Len(s) = i /\ t \in Seq(Seq(Wired)) /\ Len(t) = i + 1
    BY <1>6, <2>1
  <2>3. Sent(cmd, i + 1) \in Seq(Wired)
    BY <1>5, <2>1
  <2>4. e \in Seq(Seq(Wired)) /\ Len(e) = 1 /\ e[1] = Sent(cmd, i + 1)
    BY <2>3
  <2>5. /\ \A j \in 1..i : s[j] = Sent(cmd, j)
        /\ \A j \in 1..(i + 1) : t[j] = Sent(cmd, j)
    OBVIOUS
  <2> HIDE DEF s, e, t, T
  <2>6. /\ s \o e \in Seq(Seq(Wired)) /\ Len(s \o e) = Len(s) + Len(e)
        /\ \A j \in 1..Len(s) : (s \o e)[j] = s[j]
        /\ \A j \in 1..Len(e) : (s \o e)[Len(s) + j] = e[j]
    <3> DEFINE X == Seq(Wired)
    <3>1. s \in Seq(X) /\ e \in Seq(X)
      BY <2>2, <2>4
    <3> HIDE DEF X
    <3>2. /\ s \o e \in Seq(X) /\ Len(s \o e) = Len(s) + Len(e)
          /\ \A j \in 1..Len(s) : (s \o e)[j] = s[j]
          /\ \A j \in 1..Len(e) : (s \o e)[Len(s) + j] = e[j]
      BY <3>1, EndsWith
    <3> QED BY <3>2 DEF X
  <2>7. ASSUME NEW j \in 1..(i + 1)
        PROVE  (s \o e)[j] = t[j]
    <3>1. CASE j \in 1..i
      BY <3>1, <2>2, <2>5, <2>6
    <3>2. CASE j \notin 1..i
      <4>1. j = i + 1 /\ 1 \in 1..Len(e)
        BY <3>2, <2>4
      <4>2. (s \o e)[Len(s) + 1] = e[1]
        BY <4>1, <2>6
      <4> QED BY <4>1, <4>2, <2>2, <2>4, <2>5
    <3> QED BY <3>1, <3>2
  <2>8. Len(s \o e) = Len(t)
    BY <2>2, <2>4, <2>6
  <2>9. \A j \in 1..Len(t) : (s \o e)[j] = t[j]
    BY <2>2, <2>7
  <2>10. s \o e = t
    BY <2>2, <2>6, <2>8, <2>9, SeqEqual
  <2> QED BY <2>10 DEF s, e, t
<1>8. T(1) = <<Sent(cmd, 1)>>
  <2>1. <<Sent(cmd, 1)>> = [j \in 1..1 |-> Sent(cmd, 1)]
    OBVIOUS
  <2>2. T(1) = [j \in 1..1 |-> Sent(cmd, 1)]
    OBVIOUS
  <2> QED BY <2>1, <2>2
<1> HIDE DEF T
<1>9. 1 \in P
  <2>1. 1 \in 1..n
    BY <1>1
  <2>2. f[1] = Sent(cmd, 1)
    BY DEF Lays
  <2>3. Drain(TokenAt, f[1] \o <<"SP">>) = Done(T(1))
    BY <2>1, <2>2, <1>5, <1>8
  <2> QED BY <2>1, <2>3
<1>10. ASSUME NEW i \in 1..(n - 1), i \in P
       PROVE  i + 1 \in P
  <2>1. i + 1 \in 1..n /\ i + 1 \in 2..n /\ (i + 1) - 1 = i /\ i \in 0..n /\ i \in 0..(n - 1)
    BY <1>1
  <2> DEFINE x == f[i] \o <<"SP">>
             w == Sent(cmd, i + 1)
             y == w \o <<"SP">>
  <2>2. f[i + 1] = x \o w
    BY <2>1 DEF Lays, n
  <2>3. w \in Seq(Wired) /\ y \in Seq(Wired) /\ Drain(TokenAt, y) = Done(<<w>>)
    BY <2>1, <1>5
  <2>4. x \in Seq(Wired)
    BY <1>2, <1>4, <2>1, ConcatProperties
  <2>5. Drain(TokenAt, x) = Done(T(i))
    BY <1>10
  <2>6. f[i + 1] \o <<"SP">> = x \o y
    <3> HIDE DEF x, w
    <3>1. (x \o w) \o <<"SP">> = x \o (w \o <<"SP">>)
      BY <1>3, <1>4, <2>3, <2>4
    <3> QED BY <3>1, <2>2
  <2>7. T(i) \o <<w>> = T(i + 1)
    BY <1>7, <2>1
  <2> HIDE DEF x, y, w, P
  <2>8. Drain(TokenAt, x \o y) = Done(T(i) \o <<w>>)
    BY <2>3, <2>4, <2>5, TokenAtReads, DrainTwo
  <2>9. Drain(TokenAt, f[i + 1] \o <<"SP">>) = Done(T(i + 1))
    BY <2>6, <2>7, <2>8
  <2> QED BY <2>1, <2>9 DEF P
<1> HIDE DEF P
<1>11. n \in P
  <2>1. 1..n \subseteq P
    BY <1>1, <1>9, <1>10, UpTo
  <2> QED BY <2>1, <1>1
<1>12. f[n] \in Seq(Wired)
  BY <1>1, <1>2
<1>13. Append(f[n], "SP") = f[n] \o <<"SP">>
  BY <1>12, TokensType
<1>14. Drain(TokenAt, Append(f[n], "SP")) = Done(T(n))
  BY <1>11, <1>13 DEF P
<1>15. Tokens(f[n]) = T(n)
  BY <1>14 DEF Tokens, Done
<1> QED BY <1>15 DEF n, T

\* The words the client gave, the name in capitals.
Faithful(cmd) == <<Upper(cmd[1])>> \o Tail(cmd)

\* The replica finds the words of a command that encode() can carry.
LEMMA CarriedWords ==
    ASSUME NEW cmd \in Request, Carried(cmd), NEW f, Lays(f, cmd)
    PROVE  Words(f[Len(cmd)]) = Faithful(cmd)
<1> DEFINE n == Len(cmd)
           words == Words(f[n])
<1>1. n \in Nat /\ n >= 1 /\ cmd \in Seq(Seq(Byte)) /\ cmd # <<>>
  BY LenProperties, EmptySeq DEF Request
<1>2. f[n] \in Seq(Wired)
  <2>1. n \in 0..n
    BY <1>1
  <2> QED BY <2>1 DEF Lays
<1>3. Tokens(f[n]) = [j \in 1..n |-> Sent(cmd, j)]
  BY CarriedTokens
<1>4. /\ words \in Seq(Seq(Byte)) /\ Len(words) = n
      /\ \A i \in 1..n : words[i] = Decode(Sent(cmd, i))
  <2> DEFINE t == Tokens(f[n])
  <2>1. t \in Seq(Seq(Wired) \ {<<>>})
    BY <1>2, TokensType
  <2>2. t = [j \in 1..n |-> Sent(cmd, j)]
    BY <1>3
  <2>3. words \in Seq(Seq(Byte)) /\ Len(words) = Len(t) /\ \A i \in 1..Len(t) : words[i] = Decode(t[i])
    BY <1>2, WordsType
  <2> HIDE DEF t, n, words
  <2>4. DOMAIN t = 1..n /\ \A i \in 1..n : t[i] = Sent(cmd, i)
    BY <2>2
  <2>5. DOMAIN t = 1..Len(t) /\ Len(t) \in Nat
    BY <2>1, LenProperties
  <2>6. Len(t) = n
    BY <2>4, <2>5, <1>1
  <2> QED BY <2>3, <2>4, <2>6
<1>5. \A i \in 1..n : Decode(Sent(cmd, i)) = IF i = 1 THEN Upper(cmd[1]) ELSE cmd[i]
  BY SentType
<1>6. /\ Tail(cmd) \in Seq(Seq(Byte)) /\ Len(Tail(cmd)) = n - 1
      /\ \A i \in 1..(n - 1) : Tail(cmd)[i] = cmd[i + 1]
  BY <1>1, HeadTailProperties
<1> DEFINE s == <<Upper(cmd[1])>>
           e == Tail(cmd)
<1>7. s \in Seq(Seq(Byte)) /\ Len(s) = 1 /\ s[1] = Upper(cmd[1])
  <2>1. 1 \in 1..n
    BY <1>1
  <2>2. cmd[1] \in Seq(Byte)
    BY <2>1, <1>1, ElementOfSeq
  <2>3. Upper(cmd[1]) \in Seq(Byte)
    BY <2>2, UpperType
  <2> QED BY <2>3
<1> HIDE DEF s, e, n, words
<1>8. /\ s \o e \in Seq(Seq(Byte)) /\ Len(s \o e) = Len(s) + Len(e)
      /\ \A j \in 1..Len(s) : (s \o e)[j] = s[j]
      /\ \A j \in 1..Len(e) : (s \o e)[Len(s) + j] = e[j]
  <2> DEFINE X == Seq(Byte)
  <2>1. s \in Seq(X) /\ e \in Seq(X)
    BY <1>6, <1>7 DEF e
  <2> HIDE DEF X
  <2>2. /\ s \o e \in Seq(X) /\ Len(s \o e) = Len(s) + Len(e)
        /\ \A j \in 1..Len(s) : (s \o e)[j] = s[j]
        /\ \A j \in 1..Len(e) : (s \o e)[Len(s) + j] = e[j]
    BY <2>1, EndsWith
  <2> QED BY <2>2 DEF X
<1>9. Len(e) = n - 1 /\ \A i \in 1..(n - 1) : e[i] = cmd[i + 1]
  BY <1>6 DEF e
<1>10. Len(s \o e) = n
  BY <1>1, <1>7, <1>8, <1>9
<1>11. ASSUME NEW i \in 1..n
       PROVE  words[i] = (s \o e)[i]
  <2>1. words[i] = IF i = 1 THEN Upper(cmd[1]) ELSE cmd[i]
    BY <1>4, <1>5
  <2>2. CASE i = 1
    BY <2>1, <2>2, <1>7, <1>8
  <2>3. CASE i # 1
    <3>1. i - 1 \in 1..(n - 1) /\ 1 + (i - 1) = i /\ (i - 1) + 1 = i
      BY <2>3, <1>1
    <3>2. (s \o e)[1 + (i - 1)] = e[i - 1]
      BY <3>1, <1>7, <1>8, <1>9
    <3>3. e[i - 1] = cmd[(i - 1) + 1]
      BY <3>1, <1>9
    <3> QED BY <2>1, <2>3, <3>1, <3>2, <3>3
  <2> QED BY <2>2, <2>3
<1>12. words = s \o e
  BY <1>4, <1>8, <1>10, <1>11, SeqEqual
<1> QED BY <1>12 DEF words, s, e, n, Faithful

-----------------------------------------------------------------------------
(* The server. *)

\* What answers are made of.
Spoken == Byte \cup {HeadFor(BulkHeads, n) : n \in Nat}

\* The states of the server.
Server == [value : Seq(Byte) \cup {Unset}, answers : Seq(Spoken), parsed : Seq(Request),
           stream : Seq(Wired), due : Seq(Request)]

\* A command leaves a value and is answered.
LEMMA ExecuteType ==
    ASSUME NEW v \in Seq(Byte) \cup {Unset}, NEW cmd \in Request
    PROVE  Execute(v, cmd).value \in Seq(Byte) \cup {Unset} /\ Execute(v, cmd).answer \in Seq(Spoken)
<1>1. Len(cmd) \in Nat /\ Len(cmd) >= 1
  BY LenProperties, EmptySeq DEF Request
<1>2. cmd[1] \in Seq(Byte) /\ (Len(cmd) = 2 => cmd[2] \in Seq(Byte))
  <2>1. cmd \in Seq(Seq(Byte))
    BY DEF Request
  <2>2. \A n \in Nat : n >= 1 => 1 \in 1..n /\ (n = 2 => 2 \in 1..n)
    OBVIOUS
  <2> QED BY <2>1, <2>2, <1>1, ElementOfSeq
<1>3. \A s \in Seq(Byte) : s \in Seq(Spoken)
  <2>1. Byte \subseteq Spoken
    BY DEF Spoken
  <2> QED BY <2>1
<1>4. /\ CrLf \in Seq(Spoken) /\ <<"+">> \in Seq(Spoken) /\ <<"-">> \in Seq(Spoken)
      /\ <<"$-1">> \in Seq(Spoken) /\ <<"OK">> \in Seq(Spoken) /\ <<"arity">> \in Seq(Spoken)
      /\ <<"unknown">> \in Seq(Spoken)
  <2>1. {"CR", "LF", "+", "-", "$-1", "OK", "arity", "unknown"} \subseteq Spoken
    BY ByteAssumption, NumberAssumption DEF Plain, Spoken
  <2> HIDE DEF Spoken
  <2> QED BY <2>1 DEF CrLf
<1>5. \A s, t \in Seq(Spoken) : s \o t \in Seq(Spoken)
  BY ConcatProperties
<1>6. SimpleString(<<"OK">>) \in Seq(Spoken)
  BY <1>4, <1>5, Zenon DEF SimpleString
<1>7. NullBulkString \in Seq(Spoken)
  BY <1>4, <1>5, Zenon DEF NullBulkString
<1>8. Error(<<"arity">>) \in Seq(Spoken)
  BY <1>4, <1>5, Zenon DEF Error
<1>9. Error(<<"unknown">> \o cmd[1]) \in Seq(Spoken)
  BY <1>2, <1>3, <1>4, <1>5, Zenon DEF Error
<1>10. ASSUME v \in Seq(Byte)
       PROVE  BulkString(v) \in Seq(Spoken)
  <2>1. Len(v) \in Nat
    BY <1>10, LenProperties
  <2>2. HeadFor(BulkHeads, Len(v)) \in Spoken
    BY <2>1 DEF Spoken
  <2>3. <<HeadFor(BulkHeads, Len(v))>> \in Seq(Spoken) /\ v \in Seq(Spoken)
    BY <2>2, <1>3, <1>10
  <2> QED BY <2>3, <1>4, <1>5, Zenon DEF BulkString
<1> DEFINE name == Upper(cmd[1])
<1>11. CASE name = <<"SET">> /\ Len(cmd) = 2
  <2>1. Execute(v, cmd) = [value |-> cmd[2], answer |-> SimpleString(<<"OK">>)]
    BY <1>11 DEF Execute
  <2> QED BY <2>1, <1>2, <1>6, <1>11
<1>12. CASE name = <<"GET">> /\ Len(cmd) = 1
  <2>1. Execute(v, cmd) = [value |-> v,
                           answer |-> IF v = Unset THEN NullBulkString ELSE BulkString(v)]
    BY <1>12 DEF Execute
  <2> QED BY <2>1, <1>7, <1>10
<1>13. CASE (name = <<"SET">> /\ Len(cmd) # 2) \/ (name = <<"GET">> /\ Len(cmd) # 1)
  <2>1. Execute(v, cmd) = [value |-> v, answer |-> Error(<<"arity">>)]
    BY <1>13 DEF Execute
  <2> QED BY <2>1, <1>8
<1>14. CASE name # <<"SET">> /\ name # <<"GET">>
  <2>1. Execute(v, cmd) = [value |-> v, answer |-> Error(<<"unknown">> \o cmd[1])]
    BY <1>14 DEF Execute
  <2> QED BY <2>1, <1>9
<1> QED BY <1>11, <1>12, <1>13, <1>14

\* Serving a command keeps the server's type.
LEMMA ServeType ==
    ASSUME NEW s \in Server, NEW cmd \in Request
    PROVE  Serve(s, cmd) \in Server
<1>1. /\ s.value \in Seq(Byte) \cup {Unset} /\ s.answers \in Seq(Spoken)
      /\ s.parsed \in Seq(Request) /\ s.stream \in Seq(Wired) /\ s.due \in Seq(Request)
  BY DEF Server
<1> DEFINE done == Execute(s.value, cmd)
           sent == IF IsWrite(cmd) THEN s.stream \o EncodeCommand(cmd) ELSE s.stream
           todo == IF IsWrite(cmd) THEN Append(s.due, cmd) ELSE s.due
<1>2. done.value \in Seq(Byte) \cup {Unset} /\ done.answer \in Seq(Spoken)
  BY <1>1, ExecuteType
<1>3. s.answers \o done.answer \in Seq(Spoken)
  BY <1>1, <1>2, ConcatProperties
<1>4. Append(s.parsed, cmd) \in Seq(Request) /\ Append(s.due, cmd) \in Seq(Request)
  BY <1>1, AppendProperties
<1>5. s.stream \o EncodeCommand(cmd) \in Seq(Wired)
  BY <1>1, EncodeCommandType, ConcatProperties
<1>6. sent \in Seq(Wired) /\ todo \in Seq(Request)
  BY <1>1, <1>4, <1>5
<1>7. Serve(s, cmd) = [value |-> done.value, answers |-> s.answers \o done.answer,
                       parsed |-> Append(s.parsed, cmd), stream |-> sent, due |-> todo]
  BY DEF Serve
<1> HIDE DEF done, sent, todo
<1> QED BY <1>2, <1>3, <1>4, <1>6, <1>7 DEF Server

\* f serves commands one after the other, and never leaves X.
Serves(f, X, s, cmds) ==
    /\ f \in [0..Len(cmds) -> X]
    /\ f[0] = s /\ ServeAll(s, cmds) = f[Len(cmds)]
    /\ \A i \in 1..Len(cmds) : f[i] = Serve(f[i - 1], cmds[i])

\* ServeAll serves one command after the other; what no command can leave, it does not.
LEMMA ServeAllRun ==
    ASSUME NEW cmds \in Seq(Request), NEW X, NEW s \in X,
           \A x \in X : \A i \in 1..Len(cmds) : Serve(x, cmds[i]) \in X
    PROVE  \E f : Serves(f, X, s, cmds)
<1> DEFINE n == Len(cmds)
           step == [p \in X \X Nat |-> Serve(p[1], cmds[p[2]])]
           Law(g) == g = [i \in 0..n |-> IF i = 0 THEN s ELSE Serve(g[i - 1], cmds[i])]
           served == CHOOSE g : Law(g)
<1>0. ServeAll(s, cmds) = served[n]
  BY Zenon DEF ServeAll
<1>1. n \in Nat
  BY LenProperties
<1>2. \A x \in X : \A i \in 1..n : step[<<x, i>>] = Serve(x, cmds[i])
  OBVIOUS
<1>3. \A x \in X : \A i \in 1..n : step[<<x, i>>] \in X
  BY <1>2
<1> HIDE DEF n, step
<1>4. PICK f : Repeats(f, n, X, s, step)
  BY <1>1, <1>3, RunExists
<1>5. Law(f)
  <2>1. f \in [0..n -> X] /\ f[0] = s /\ \A i \in 1..n : f[i] = step[<<f[i - 1], i>>]
    BY <1>4 DEF Repeats
  <2>2. \A i \in 1..n : f[i - 1] \in X
    BY <1>1, <2>1
  <2>3. \A i \in 0..n : f[i] = IF i = 0 THEN s ELSE Serve(f[i - 1], cmds[i])
    <3> HIDE DEF Law
    <3>1. \A i \in 0..n : i # 0 => i \in 1..n
      BY <1>1
    <3> QED BY <3>1, <1>2, <2>1, <2>2
  <2>4. f = [i \in 0..n |-> f[i]]
    BY <2>1
  <2> QED BY <2>3, <2>4, Zenon
<1>6. Law(served)
  <2> HIDE DEF Law
  <2> QED BY <1>5, Zenon
<1> HIDE DEF served
<1>7. \A i \in 0..n : served[i] = IF i = 0 THEN s ELSE Serve(served[i - 1], cmds[i])
  BY <1>6
<1>8. served = [i \in 0..n |-> served[i]]
  BY <1>6
<1> HIDE DEF Law
<1>9. served[0] = s /\ \A i \in 1..n : served[i] = Serve(served[i - 1], cmds[i])
  BY <1>1, <1>7
<1>10. \A i \in 0..n : served[i] \in X
  <2>1. \A i \in 1..n : served[i - 1] \in X => served[i] \in X
    BY <1>9 DEF n
  <2> QED BY <1>1, <1>9, <2>1, RunStays
<1>11. served \in [0..n -> X]
  BY <1>8, <1>10
<1> QED BY <1>0, <1>9, <1>11 DEF Serves, n


\* ServeAll keeps the server's type, and takes note of the commands in their order.
LEMMA ServeAllType ==
    ASSUME NEW cmds \in Seq(Request), NEW s \in Server
    PROVE  ServeAll(s, cmds) \in Server /\ ServeAll(s, cmds).parsed = s.parsed \o cmds
<1>1. \A i \in 1..Len(cmds) : cmds[i] \in Request
  BY ElementOfSeq
<1>2. PICK f : Serves(f, Server, s, cmds)
  <2>1. \A x \in Server : \A i \in 1..Len(cmds) : Serve(x, cmds[i]) \in Server
    BY <1>1, ServeType
  <2> QED BY <2>1, ServeAllRun
<1> DEFINE n == Len(cmds)
           P == {i \in 0..n : f[i].parsed = s.parsed \o SubSeq(cmds, 1, i)}
<1>3. n \in Nat
  BY LenProperties
<1>4. s.parsed \in Seq(Request)
  BY DEF Server
<1>5. 0 \in P
  <2>1. SubSeq(cmds, 1, 0) = <<>>
    BY SubSeqEmpty
  <2>2. s.parsed \o <<>> = s.parsed
    BY <1>4, Concat
  <2>3. f[0] = s /\ 0 \in 0..n
    BY <1>2, <1>3 DEF Serves
  <2>4. f[0].parsed = s.parsed \o SubSeq(cmds, 1, 0)
    BY <2>1, <2>2, <2>3
  <2> QED BY <2>3, <2>4
<1>6. ASSUME NEW i \in 0..(n - 1), i \in P
      PROVE  i + 1 \in P
  <2>1. i + 1 \in 1..n /\ i + 1 \in 0..n /\ (i + 1) - 1 = i
    BY <1>3
  <2>2. f[i + 1] = Serve(f[i], cmds[i + 1])
    BY <1>2, <2>1 DEF Serves
  <2>3. f[i + 1].parsed = Append(f[i].parsed, cmds[i + 1])
    BY <2>2 DEF Serve
  <2>4. f[i].parsed = s.parsed \o SubSeq(cmds, 1, i)
    BY <1>6
  <2>5. Append(s.parsed \o SubSeq(cmds, 1, i), cmds[i + 1]) = s.parsed \o SubSeq(cmds, 1, i + 1)
    BY <1>4, PrefixGrows
  <2> QED BY <2>1, <2>3, <2>4, <2>5
<1> HIDE DEF P
<1>7. n \in P
  <2>1. 0..n \subseteq P
    BY <1>3, <1>5, <1>6, UpTo
  <2> QED BY <1>3, <2>1
<1>8. ServeAll(s, cmds) = f[n] /\ f[n] \in Server
  <2>1. n \in 0..n
    BY <1>3
  <2> QED BY <1>2, <2>1 DEF Serves
<1>9. SubSeq(cmds, 1, n) = cmds
  BY SubSeqFull
<1>10. f[n].parsed = s.parsed \o SubSeq(cmds, 1, n)
  BY <1>7 DEF P
<1> QED BY <1>8, <1>9, <1>10

-----------------------------------------------------------------------------
(* The types of the variables. *)

Typed ==
    /\ incoming \in Seq(Byte) /\ input_buffer \in Seq(Byte)
    /\ parsed \in Seq(Request) /\ script \in Seq(Request) /\ spoiled \in BOOLEAN
    /\ value \in Seq(Byte) \cup {Unset} /\ answers \in Seq(Spoken)
    /\ stream \in Seq(Wired) /\ leader_input_buffer \in Seq(Wired)
    /\ applied \in Seq(Request) /\ due \in Seq(Request)
    /\ count \in [frames : Nat, cuts : Nat]

\* The server as the variables show it.
Now == [value |-> value, answers |-> answers, parsed |-> parsed, stream |-> stream, due |-> due]

\* n bytes are received from the client.
Receives(n) ==
    LET got    == Parse(input_buffer \o SubSeq(incoming, 1, n))
        server == ServeAll(Now, got.items)
    IN  /\ incoming' = Suffix(incoming, n + 1) /\ input_buffer' = got.rest
        /\ value' = server.value /\ answers' = server.answers /\ parsed' = server.parsed
        /\ stream' = server.stream /\ due' = server.due
        /\ UNCHANGED <<leader_input_buffer, applied, script, spoiled, count>>

\* n bytes are received from the leader.
Hears(n) ==
    LET got == Lines(leader_input_buffer \o SubSeq(stream, 1, n))
    IN  /\ stream' = Suffix(stream, n + 1) /\ leader_input_buffer' = got.rest
        /\ applied' = applied \o got.items
        /\ UNCHANGED <<incoming, input_buffer, parsed, value, answers, due, script, spoiled, count>>

\* What the parser gives is commands and bytes.
LEMMA ParseType ==
    ASSUME NEW b \in Seq(Byte)
    PROVE  /\ Parse(b).result \in Results
           /\ Parse(b).items \in Seq(Request) /\ Parse(b).rest \in Seq(Byte)
           /\ Parse(b).result # "INCOMPLETE" => Parse(b).rest = <<>>
           /\ Waits(CommandAt, Parse(b).rest)
BY CommandAtReads, DrainType DEF Parse, Request

\* What the replica takes from its lines is commands and bytes.
LEMMA LinesType ==
    ASSUME NEW b \in Seq(Wired)
    PROVE  /\ Lines(b).result \in Results
           /\ Lines(b).items \in Seq(Request) /\ Lines(b).rest \in Seq(Wired)
           /\ Lines(b).result # "INCOMPLETE" => Lines(b).rest = <<>>
           /\ Waits(LineAt, Lines(b).rest)
BY LineAtReads, DrainType DEF Lines, Request

\* A recv() takes some of the bytes; the rest stays.
LEMMA ReceiveIs ==
    ASSUME Typed, ReceiveFromClient
    PROVE  \E a, b \in Seq(Byte) :
             /\ incoming = a \o b /\ incoming' = b
             /\ input_buffer' = Parse(input_buffer \o a).rest
             /\ \E server \in Server :
                  /\ server = ServeAll(Now, Parse(input_buffer \o a).items)
                  /\ Now' = server
                  /\ parsed' = parsed \o Parse(input_buffer \o a).items
             /\ UNCHANGED <<leader_input_buffer, applied, script, spoiled, count>>
<1>1. PICK n \in 1..Len(incoming) : Receives(n)
  BY Zenon DEF ReceiveFromClient, Receives, Now
<1>2. incoming \in Seq(Byte) /\ input_buffer \in Seq(Byte) /\ n \in 0..Len(incoming)
  BY LenProperties DEF Typed
<1> DEFINE a == SubSeq(incoming, 1, n)
           b == Suffix(incoming, n + 1)
           got == Parse(input_buffer \o a)
           server == ServeAll(Now, got.items)
<1>3. a \in Seq(Byte) /\ b \in Seq(Byte) /\ incoming = a \o b
  BY <1>2, CutAnywhere
<1>4. incoming' = b /\ input_buffer' = got.rest
      /\ UNCHANGED <<leader_input_buffer, applied, script, spoiled, count>>
  BY <1>1 DEF Receives
<1>5. /\ value' = server.value /\ answers' = server.answers /\ parsed' = server.parsed
      /\ stream' = server.stream /\ due' = server.due
  BY <1>1 DEF Receives
<1>6. Now \in Server /\ Now.parsed = parsed
  BY DEF Typed, Now, Server
<1> HIDE DEF a, b
<1>7. got.items \in Seq(Request)
  BY <1>2, <1>3, Concat, ParseType
<1>8. server \in Server /\ server.parsed = parsed \o got.items
  BY <1>6, <1>7, ServeAllType
<1>9. Now' = server
  <2> HIDE DEF server
  <2>1. server = [value |-> server.value, answers |-> server.answers, parsed |-> server.parsed,
                  stream |-> server.stream, due |-> server.due]
    BY <1>8 DEF Server
  <2> QED BY <2>1, <1>5 DEF Now
<1>10. parsed' = parsed \o got.items
  BY <1>5, <1>8
<1> QED BY <1>3, <1>4, <1>8, <1>9, <1>10

\* The same of the replica.
LEMMA HearIs ==
    ASSUME Typed, ReceiveFromLeader
    PROVE  \E a, b \in Seq(Wired) :
             /\ stream = a \o b /\ stream' = b
             /\ leader_input_buffer' = Lines(leader_input_buffer \o a).rest
             /\ applied' = applied \o Lines(leader_input_buffer \o a).items
             /\ UNCHANGED <<incoming, input_buffer, parsed, value, answers, due, script, spoiled,
                            count>>
<1>1. PICK n \in 1..Len(stream) : Hears(n)
  BY Zenon DEF ReceiveFromLeader, Hears
<1>2. stream \in Seq(Wired) /\ n \in 0..Len(stream)
  BY LenProperties DEF Typed
<1>3. /\ SubSeq(stream, 1, n) \in Seq(Wired) /\ Suffix(stream, n + 1) \in Seq(Wired)
      /\ stream = SubSeq(stream, 1, n) \o Suffix(stream, n + 1)
  BY <1>2, CutAnywhere
<1> QED BY <1>1, <1>3 DEF Hears

\* The types are kept.
THEOREM TypesKept == Spec => []Typed
<1>1. Init => Typed
  <2> SUFFICES ASSUME Init
               PROVE  Typed
    OBVIOUS
  <2>1. \A S : <<>> \in Seq(S)
    BY EmptySeq
  <2> QED BY <2>1 DEF Init, Typed
<1>2. Typed /\ [Next]_vars => Typed'
  <2> SUFFICES ASSUME Typed, [Next]_vars
               PROVE  Typed'
    OBVIOUS
  <2>1. ASSUME NEW f \in Frames, Send(f)
        PROVE  Typed'
    <3>1. f.bytes \in Seq(Byte) /\ f.cmd \in Seq(Seq(Byte)) /\ f.valid \in BOOLEAN
      BY FrameAssumption
    <3>2. incoming' \in Seq(Byte)
      BY <2>1, <3>1, Concat DEF Send, Typed
    <3>3. script' \in Seq(Request)
      <4>1. f.cmd # <<>> => f.cmd \in Request
        BY <3>1 DEF Request
      <4>2. script \in Seq(Request)
        BY DEF Typed
      <4>3. f.cmd # <<>> => Append(script, f.cmd) \in Seq(Request)
        BY <4>1, <4>2, AppendProperties
      <4> QED BY <4>2, <4>3, <2>1 DEF Send
    <3>4. spoiled' \in BOOLEAN
      BY <2>1, <3>1 DEF Send, Typed
    <3>5. count' \in [frames : Nat, cuts : Nat]
      <4>1. count \in [frames : Nat, cuts : Nat] /\ count' = [count EXCEPT !.frames = @ + 1]
        BY <2>1 DEF Send, Typed
      <4> QED BY <4>1
    <3> QED BY <2>1, <3>2, <3>3, <3>4, <3>5 DEF Send, Typed
  <2>2. CASE ReceiveFromClient
    <3>1. PICK a, b \in Seq(Byte) :
             /\ incoming = a \o b /\ incoming' = b
             /\ input_buffer' = Parse(input_buffer \o a).rest
             /\ \E server \in Server :
                  /\ server = ServeAll(Now, Parse(input_buffer \o a).items)
                  /\ Now' = server
                  /\ parsed' = parsed \o Parse(input_buffer \o a).items
             /\ UNCHANGED <<leader_input_buffer, applied, script, spoiled, count>>
      BY <2>2, ReceiveIs
    <3>2. Parse(input_buffer \o a).rest \in Seq(Byte)
      BY ParseType, Concat DEF Typed
    <3>3. Now' \in Server
      BY <3>1
    <3>4. /\ value' \in Seq(Byte) \cup {Unset} /\ answers' \in Seq(Spoken)
          /\ parsed' \in Seq(Request) /\ stream' \in Seq(Wired) /\ due' \in Seq(Request)
      BY <3>3 DEF Now, Server
    <3> QED BY <3>1, <3>2, <3>4 DEF Typed
  <2>3. CASE ReceiveFromLeader
    <3>1. PICK a, b \in Seq(Wired) :
             /\ stream = a \o b /\ stream' = b
             /\ leader_input_buffer' = Lines(leader_input_buffer \o a).rest
             /\ applied' = applied \o Lines(leader_input_buffer \o a).items
             /\ UNCHANGED <<incoming, input_buffer, parsed, value, answers, due, script, spoiled,
                            count>>
      BY <2>3, HearIs
    <3>2. /\ Lines(leader_input_buffer \o a).rest \in Seq(Wired)
          /\ Lines(leader_input_buffer \o a).items \in Seq(Request)
      BY LinesType, Concat DEF Typed
    <3>3. applied' \in Seq(Request)
      BY <3>1, <3>2, Concat DEF Typed
    <3> QED BY <3>1, <3>2, <3>3 DEF Typed
  <2>4. CASE Reconnect
    <3>1. \A S : <<>> \in Seq(S)
      BY EmptySeq
    <3>2. count' \in [frames : Nat, cuts : Nat]
      <4>1. count \in [frames : Nat, cuts : Nat] /\ count' = [count EXCEPT !.cuts = @ + 1]
        BY <2>4 DEF Reconnect, Typed
      <4> QED BY <4>1
    <3> QED BY <2>4, <3>1, <3>2 DEF Reconnect, Typed
  <2>5. CASE UNCHANGED vars
    BY <2>5 DEF Typed, vars
  <2> QED BY <2>1, <2>2, <2>3, <2>4, <2>5 DEF Next
<1> QED BY <1>1, <1>2, PTL DEF Spec


-----------------------------------------------------------------------------
(* ServedAsSent. *)

\* Up to some byte, which is the last unless a malformed frame was sent, what is on its
\* way completes the script; or all of the script is done and only what came with or
\* behind a malformed frame is being looked at.
Completes(c, d) ==
    /\ incoming = c \o d /\ (spoiled \/ d = <<>>)
    /\ Parse(input_buffer \o c).result = "SUCCESS"
    /\ script = parsed \o Parse(input_buffer \o c).items

AsSent ==
    /\ Waits(CommandAt, input_buffer)
    /\ \/ \E c, d \in Seq(Byte) : Completes(c, d)
       \/ spoiled /\ \E more \in Seq(Request) : parsed = script \o more

\* What a buffer and more bytes give the parser.
LEMMA ParseMore ==
    ASSUME NEW b \in Seq(Byte), NEW c \in Seq(Byte)
    PROVE  /\ Parse(b).result = "PROTOCOL_ERROR" => Parse(b \o c).result = "PROTOCOL_ERROR"
           /\ Parse(b).result # "PROTOCOL_ERROR" =>
                /\ Parse(b \o c).result = Parse(Parse(b).rest \o c).result
                /\ Parse(b \o c).items = Parse(b).items \o Parse(Parse(b).rest \o c).items
           /\ \E more \in Seq(Request) : Parse(b \o c).items = Parse(b).items \o more
<1>1. MoreLaw(CommandAt, Seq(Seq(Byte)), b, c)
  BY CommandAtReads, DrainMore
<1> QED BY <1>1 DEF MoreLaw, Parse, Request

\* Nothing sent, nothing asked for.
LEMMA AsSentInit == Init => AsSent
<1> SUFFICES ASSUME Init
             PROVE  AsSent
  OBVIOUS
<1>1. <<>> \in Seq(Byte) /\ <<>> \o <<>> = <<>>
  BY Concat
<1>2. Parse(<<>>) = [result |-> "SUCCESS", items |-> <<>>, rest |-> <<>>]
  BY <1>1, CommandAtReads, DrainCases DEF Parse, DrainLaw
<1>3. Waits(CommandAt, input_buffer)
  BY <1>2 DEF Init, Waits, Parse
<1>4. script = parsed \o Parse(<<>>).items
  <2>1. <<>> \in Seq(Request) /\ <<>> \o <<>> = <<>>
    BY Concat
  <2> QED BY <2>1, <1>2 DEF Init
<1>5. Completes(<<>>, <<>>)
  BY <1>1, <1>2, <1>4 DEF Init, Completes
<1> QED BY <1>1, <1>3, <1>5 DEF AsSent

\* A frame adds its command to both sides, and a malformed one only to the bytes.
LEMMA AsSentSend ==
    ASSUME Typed, AsSent, NEW f \in Frames, Send(f)
    PROVE  AsSent'
<1>91. \A s, t, u \in Seq(Byte) : (s \o t) \o u = s \o (t \o u)
  BY ConcatAssociative
<1>92. \A s, t, u \in Seq(Request) : (s \o t) \o u = s \o (t \o u)
  BY ConcatAssociative
<1>1. f.bytes \in Seq(Byte) /\ f.cmd \in Seq(Seq(Byte)) /\ f.valid \in BOOLEAN
  BY FrameAssumption
<1>2. /\ incoming' = incoming \o f.bytes /\ input_buffer' = input_buffer /\ parsed' = parsed
      /\ spoiled' = (spoiled \/ ~f.valid)
      /\ script' = IF spoiled' \/ f.cmd = <<>> THEN script ELSE Append(script, f.cmd)
  BY DEF Send
<1>3. /\ incoming \in Seq(Byte) /\ input_buffer \in Seq(Byte) /\ spoiled \in BOOLEAN
      /\ parsed \in Seq(Request) /\ script \in Seq(Request)
  BY DEF Typed
<1>4. Waits(CommandAt, input_buffer)'
  BY <1>2 DEF AsSent, Waits
<1>5. CASE spoiled /\ \E more \in Seq(Request) : parsed = script \o more
  <2>1. spoiled' /\ script' = script
    BY <1>2, <1>5
  <2> QED BY <2>1, <1>2, <1>4, <1>5 DEF AsSent
<1>6. CASE \E c, d \in Seq(Byte) : Completes(c, d)
  <2>1. PICK c, d \in Seq(Byte) : Completes(c, d)
    BY <1>6
  <2>2. d \o f.bytes \in Seq(Byte) /\ (c \o d) \o f.bytes = c \o (d \o f.bytes)
    <3>1. f.bytes \in Seq(Byte)
      BY <1>1
    <3>2. d \o f.bytes \in Seq(Byte)
      BY <3>1, ConcatProperties
    <3>3. (c \o d) \o f.bytes = c \o (d \o f.bytes)
      BY <3>1, <1>91
    <3> QED BY <3>2, <3>3
  <2>3. CASE spoiled'
    <3>1. script' = script
      BY <1>2, <2>3
    <3>2. Completes(c, d \o f.bytes)'
      BY <2>1, <2>2, <2>3, <3>1, <1>2 DEF Completes
    <3> QED BY <2>2, <3>2, <1>4 DEF AsSent
  <2>4. CASE ~spoiled'
    <3>1. ~spoiled /\ f.valid
      BY <2>4, <1>1, <1>2, <1>3
    <3>2. d = <<>> /\ incoming = c
      BY <2>1, <3>1, Concat DEF Completes
    <3>3. Parse(f.bytes) = [result |-> "SUCCESS", rest |-> <<>>,
                            items |-> IF f.cmd = <<>> THEN <<>> ELSE <<f.cmd>>]
      BY <3>1, FrameAssumption
    <3> DEFINE p == Parse(input_buffer \o c)
               new == IF f.cmd = <<>> THEN <<>> ELSE <<f.cmd>>
    <3>4. input_buffer \o c \in Seq(Byte)
      BY <1>3, Concat
    <3>5. p.result = "SUCCESS" /\ p.rest = <<>> /\ p.items \in Seq(Request)
      BY <2>1, <3>4, ParseType DEF Completes
    <3>6. <<>> \o f.bytes = f.bytes
      BY <1>1, Concat
    <3> DEFINE x == input_buffer \o c
               y == f.bytes
    <3>7. /\ Parse((input_buffer \o c) \o f.bytes).result = "SUCCESS"
          /\ Parse((input_buffer \o c) \o f.bytes).items = p.items \o new
      <4>1. x \in Seq(Byte) /\ y \in Seq(Byte) /\ p = Parse(x)
        BY <1>1, <3>4
      <4>2. Parse(y).result = "SUCCESS" /\ Parse(y).items = new /\ <<>> \o y = y
        BY <3>3, <3>6
      <4> HIDE DEF x, y, p, new
      <4>3. Parse(x).result # "PROTOCOL_ERROR" =>
              /\ Parse(x \o y).result = Parse(Parse(x).rest \o y).result
              /\ Parse(x \o y).items = Parse(x).items \o Parse(Parse(x).rest \o y).items
        BY <4>1, ParseMore
      <4>4. Parse(x \o y).result = "SUCCESS" /\ Parse(x \o y).items = p.items \o new
        BY <4>1, <4>2, <4>3, <3>5
      <4> QED BY <4>4 DEF x, y
    <3>8. (input_buffer \o c) \o f.bytes = input_buffer \o (c \o f.bytes)
      <4>1. f.bytes \in Seq(Byte) /\ input_buffer \in Seq(Byte)
        BY <1>1, <1>3
      <4> HIDE DEF x, y, p, new
      <4> QED BY <4>1, <1>91
    <3>9. new \in Seq(Request)
      <4>1. f.cmd # <<>> => f.cmd \in Request
        BY <1>1 DEF Request
      <4> QED BY <4>1, EmptySeq
    <3>10. script' = script \o new
      <4>1. CASE f.cmd = <<>>
        BY <4>1, <1>2, <1>3, <2>4, Concat
      <4>2. CASE f.cmd # <<>>
        <5>1. f.cmd \in Request
          BY <4>2, <1>1 DEF Request
        <5>2. Append(script, f.cmd) = script \o <<f.cmd>>
          BY <5>1, <1>3, AppendIsConcat
        <5> QED BY <5>2, <4>2, <1>2, <2>4
      <4> QED BY <4>1, <4>2
    <3> HIDE DEF p, new
    <3>11. script = parsed \o p.items
      BY <2>1 DEF Completes, p
    <3>12. script' = parsed \o (p.items \o new)
      <4>1. parsed \in Seq(Request) /\ p.items \in Seq(Request) /\ new \in Seq(Request)
        BY <1>3, <3>5, <3>9
      <4>2. (parsed \o p.items) \o new = parsed \o (p.items \o new)
        BY <4>1, <1>92
      <4> QED BY <4>2, <3>10, <3>11
    <3>13. (c \o f.bytes) \in Seq(Byte) /\ (c \o f.bytes) \o <<>> = c \o f.bytes /\ <<>> \in Seq(Byte)
      BY <1>1, Concat
    <3>14. Completes(c \o f.bytes, <<>>)'
      BY <1>2, <3>2, <3>7, <3>8, <3>12, <3>13 DEF Completes
    <3> QED BY <3>13, <3>14, <1>4 DEF AsSent
  <2> QED BY <2>3, <2>4
<1> QED BY <1>5, <1>6 DEF AsSent

\* The bytes of a recv() end before or behind those that complete the script.
LEMMA AsSentReceive ==
    ASSUME Typed, AsSent, ReceiveFromClient
    PROVE  AsSent'
<1>91. \A s, t, u \in Seq(Byte) : (s \o t) \o u = s \o (t \o u)
  BY ConcatAssociative
<1>92. \A s, t, u \in Seq(Request) : (s \o t) \o u = s \o (t \o u)
  BY ConcatAssociative
<1>1. PICK a, b \in Seq(Byte) :
             /\ incoming = a \o b /\ incoming' = b
             /\ input_buffer' = Parse(input_buffer \o a).rest
             /\ \E server \in Server :
                  /\ server = ServeAll(Now, Parse(input_buffer \o a).items)
                  /\ Now' = server
                  /\ parsed' = parsed \o Parse(input_buffer \o a).items
             /\ UNCHANGED <<leader_input_buffer, applied, script, spoiled, count>>
  BY ReceiveIs
<1> DEFINE got == Parse(input_buffer \o a)
<1>2. /\ parsed' = parsed \o got.items /\ input_buffer' = got.rest
      /\ script' = script /\ spoiled' = spoiled /\ incoming' = b
  BY <1>1
<1>3. /\ incoming \in Seq(Byte) /\ input_buffer \in Seq(Byte)
      /\ parsed \in Seq(Request) /\ script \in Seq(Request)
  BY DEF Typed
<1>4. input_buffer \o a \in Seq(Byte)
  BY <1>3, Concat
<1>5. got.items \in Seq(Request) /\ got.rest \in Seq(Byte) /\ got.result \in Results
  BY <1>4, ParseType
<1>6. Waits(CommandAt, input_buffer)'
  <2>1. Waits(CommandAt, got.rest)
    BY <1>4, ParseType
  <2> QED BY <2>1, <1>2 DEF Waits
<1>7. CASE spoiled /\ \E more \in Seq(Request) : parsed = script \o more
  <2>1. PICK more \in Seq(Request) : parsed = script \o more
    BY <1>7
  <2> HIDE DEF got
  <2>2. /\ more \o got.items \in Seq(Request)
        /\ (script \o more) \o got.items = script \o (more \o got.items)
    <3>1. script \in Seq(Request) /\ got.items \in Seq(Request)
      BY <1>3, <1>5
    <3>2. more \o got.items \in Seq(Request)
      BY <3>1, ConcatProperties
    <3>3. (script \o more) \o got.items = script \o (more \o got.items)
      BY <3>1, <1>92
    <3> QED BY <3>2, <3>3
  <2>3. parsed' = script' \o (more \o got.items)
    BY <1>2, <2>1, <2>2
  <2> QED BY <2>2, <2>3, <1>2, <1>6, <1>7 DEF AsSent
<1>8. ASSUME NEW c \in Seq(Byte), NEW d \in Seq(Byte), Completes(c, d)
      PROVE  AsSent'
  <2> DEFINE p == Parse(input_buffer \o c)
  <2>1. incoming = c \o d /\ (spoiled \/ d = <<>>) /\ p.result = "SUCCESS" /\ script = parsed \o p.items
    BY <1>8 DEF Completes
  <2>2. input_buffer \o c \in Seq(Byte)
    BY <1>3, Concat
  <2>3. p.items \in Seq(Request) /\ p.rest = <<>>
    BY <2>1, <2>2, ParseType
  <2>4. Len(a) \in Nat /\ Len(c) \in Nat /\ a \o b = c \o d
    BY <1>1, <2>1, LenProperties
  <2>5. CASE Len(a) <= Len(c)
    <3>1. PICK e \in Seq(Byte) : c = a \o e /\ b = e \o d
      <4> HIDE DEF got, p
      <4>1. Between(Byte, a, b, c, d)
        BY <2>4, <2>5, TwoCuts
      <4> QED BY <4>1 DEF Between
    <3>2. input_buffer \o c = (input_buffer \o a) \o e
      <4>1. input_buffer \in Seq(Byte)
        BY <1>3
      <4> HIDE DEF got, p
      <4>2. (input_buffer \o a) \o e = input_buffer \o (a \o e)
        BY <4>1, <1>91
      <4> QED BY <4>2, <3>1
    <3> DEFINE q == Parse(got.rest \o e)
    <3> DEFINE x == input_buffer \o a
    <3>3. got.result # "PROTOCOL_ERROR" /\ p.result = q.result /\ p.items = got.items \o q.items
      <4>1. x \in Seq(Byte) /\ got = Parse(x) /\ p = Parse(x \o e)
        BY <3>2, <1>4
      <4> HIDE DEF x, p, got
      <4>2. /\ Parse(x).result = "PROTOCOL_ERROR" => Parse(x \o e).result = "PROTOCOL_ERROR"
            /\ Parse(x).result # "PROTOCOL_ERROR" =>
                 /\ Parse(x \o e).result = Parse(Parse(x).rest \o e).result
                 /\ Parse(x \o e).items = Parse(x).items \o Parse(Parse(x).rest \o e).items
        BY <4>1, ParseMore
      <4> QED BY <4>1, <4>2, <2>1
    <3>4. q.items \in Seq(Request)
      BY <1>5, Concat, ParseType
    <3> HIDE DEF got, p, q
    <3>5. script' = parsed' \o q.items
      <4>1. script = parsed \o (got.items \o q.items)
        BY <2>1, <3>3
      <4>2. (parsed \o got.items) \o q.items = parsed \o (got.items \o q.items)
        <5>1. parsed \in Seq(Request) /\ got.items \in Seq(Request) /\ q.items \in Seq(Request)
          BY <1>3, <1>5, <3>4
        <5> QED BY <5>1, <1>92
      <4> QED BY <4>1, <4>2, <1>2
    <3>6. Completes(e, d)'
      BY <3>1, <3>3, <3>5, <1>2, <2>1 DEF Completes, q
    <3> QED BY <3>6, <1>6 DEF AsSent
  <2>6. CASE ~(Len(a) <= Len(c))
    <3>1. Len(c) <= Len(a)
      BY <2>4, <2>6
    <3>2. PICK e \in Seq(Byte) : a = c \o e /\ d = e \o b
      <4> HIDE DEF got, p
      <4>1. Between(Byte, c, d, a, b)
        BY <2>4, <3>1, TwoCuts
      <4> QED BY <4>1 DEF Between
    <3>3. d # <<>>
      <4>1. Len(a) = Len(c) + Len(e) /\ Len(d) = Len(e) + Len(b) /\ Len(e) \in Nat /\ Len(b) \in Nat
        BY <3>2, Concat, LenProperties
      <4>2. Len(d) # 0
        BY <4>1, <2>4, <2>6
      <4> QED BY <4>2
    <3>4. spoiled
      BY <3>3, <2>1
    <3>5. input_buffer \o a = (input_buffer \o c) \o e
      <4>1. input_buffer \in Seq(Byte)
        BY <1>3
      <4> HIDE DEF got, p
      <4>2. (input_buffer \o c) \o e = input_buffer \o (c \o e)
        BY <4>1, <1>91
      <4> QED BY <4>2, <3>2
    <3> DEFINE x == input_buffer \o c
    <3>6. PICK more \in Seq(Request) : got.items = p.items \o more
      <4>1. x \in Seq(Byte) /\ got = Parse(x \o e) /\ p = Parse(x)
        BY <3>5, <2>2
      <4> HIDE DEF x, p, got
      <4>2. \E more \in Seq(Request) : Parse(x \o e).items = Parse(x).items \o more
        BY <4>1, ParseMore
      <4> QED BY <4>1, <4>2
    <3> HIDE DEF got, p
    <3>7. parsed' = script' \o more
      <4>1. parsed' = parsed \o (p.items \o more)
        BY <1>2, <3>6
      <4>2. (parsed \o p.items) \o more = parsed \o (p.items \o more)
        <5>1. parsed \in Seq(Request) /\ p.items \in Seq(Request)
          BY <1>3, <2>3
        <5> QED BY <5>1, <1>92
      <4> QED BY <4>1, <4>2, <1>2, <2>1
    <3> QED BY <3>4, <3>7, <1>2, <1>6 DEF AsSent
  <2> QED BY <2>5, <2>6
<1> QED BY <1>7, <1>8 DEF AsSent

\* However the bytes are cut, the commands executed are those sent, in their order, up
\* to a malformed frame (handle_client_read() and parse() of resp.cpp).
THEOREM ServedAsSentKept == Spec => []ServedAsSent
<1>1. Init => AsSent
  BY AsSentInit
<1>2. Typed /\ AsSent /\ [Next]_vars => AsSent'
  <2> SUFFICES ASSUME Typed, AsSent, [Next]_vars
               PROVE  AsSent'
    OBVIOUS
  <2>1. ASSUME NEW f \in Frames, Send(f)
        PROVE  AsSent'
    BY <2>1, AsSentSend
  <2>2. CASE ReceiveFromClient
    BY <2>2, AsSentReceive
  <2>3. CASE ReceiveFromLeader
    <3>1. UNCHANGED <<incoming, input_buffer, parsed, spoiled, script>>
      BY <2>3 DEF ReceiveFromLeader
    <3> QED BY <3>1 DEF AsSent, Completes, Waits
  <2>4. CASE Reconnect
    <3>1. UNCHANGED <<incoming, input_buffer, parsed, spoiled, script>>
      BY <2>4 DEF Reconnect
    <3> QED BY <3>1 DEF AsSent, Completes, Waits
  <2>5. CASE UNCHANGED vars
    <3>1. UNCHANGED <<incoming, input_buffer, parsed, spoiled, script>>
      BY <2>5 DEF vars
    <3> QED BY <3>1 DEF AsSent, Completes, Waits
  <2> QED BY <2>1, <2>2, <2>3, <2>4, <2>5 DEF Next
<1>3. Typed /\ AsSent => ServedAsSent
  <2> SUFFICES ASSUME Typed, AsSent
               PROVE  ServedAsSent
    OBVIOUS
  <2>1. parsed \in Seq(Request) /\ script \in Seq(Request) /\ input_buffer \in Seq(Byte)
    BY DEF Typed
  <2>2. CASE spoiled /\ \E more \in Seq(Request) : parsed = script \o more
    BY <2>1, <2>2, PrefixIs DEF ServedAsSent
  <2>3. ASSUME NEW c \in Seq(Byte), NEW d \in Seq(Byte), Completes(c, d)
        PROVE  ServedAsSent
    <3>1. Parse(input_buffer \o c).items \in Seq(Request)
      BY <2>1, Concat, ParseType
    <3>2. IsPrefix(parsed, script)
      BY <2>1, <2>3, <3>1, PrefixIs DEF Completes
    <3>3. ASSUME incoming = <<>>
          PROVE  IsPrefix(script, parsed)
      <4>1. c = <<>>
        <5>1. c \o d = <<>>
          BY <2>3, <3>3 DEF Completes
        <5>2. Len(c) + Len(d) = 0 /\ Len(c) \in Nat /\ Len(d) \in Nat
          BY <5>1, Concat, LenProperties
        <5>3. Len(c) = 0
          BY <5>2
        <5> QED BY <5>3
      <4>2. Parse(input_buffer \o c).items = <<>>
        BY <4>1, <2>1, Concat DEF AsSent, Waits, Parse
      <4>3. script = parsed \o <<>> /\ parsed \o <<>> = parsed /\ script \o <<>> = script
        BY <4>2, <2>1, <2>3, Concat DEF Completes
      <4>4. IsPrefix(script, script \o <<>>)
        BY <2>1, Concat, PrefixIs
      <4> QED BY <4>3, <4>4
    <3> QED BY <3>2, <3>3 DEF ServedAsSent
  <2> QED BY <2>2, <2>3 DEF AsSent
<1> QED BY <1>1, <1>2, <1>3, TypesKept, PTL DEF Spec


-----------------------------------------------------------------------------
(* AppliedAsServed. *)

\* A write's line is found by the replica, with its words if encode() can carry it.
LEMMA WriteLine ==
    ASSUME NEW cmd \in Request, IsWrite(cmd)
    PROVE  /\ EncodeCommand(cmd) \in Seq(Wired)
           /\ \E w \in Request : /\ Lines(EncodeCommand(cmd)) = Done(<<w>>)
                                 /\ Carried(cmd) => w = Faithful(cmd)
<1>1. PICK f : Lays(f, cmd) /\ EncodeCommand(cmd) = f[Len(cmd)] \o CrLf
  BY EncodeCommandRun
<1> DEFINE line == f[Len(cmd)]
           w == Words(line)
<1>2. line \in Seq(Inner) /\ line \in Seq(Wired)
  <2>1. Len(cmd) \in 1..Len(cmd) /\ Len(cmd) \in 0..Len(cmd)
    BY LenProperties, EmptySeq DEF Request
  <2>2. line \in Seq(Inner)
    BY <1>1, <2>1, LaysInner
  <2>3. line \in Seq(Wired)
    BY <1>1, <2>1 DEF Lays
  <2> QED BY <2>2, <2>3
<1>3. w # <<>>
  BY <1>1, LineHasWords
<1>4. Carried(cmd) => w = Faithful(cmd)
  BY <1>1, CarriedWords
<1>5. w \in Request
  BY <1>2, <1>3, WordsType DEF Request
<1> HIDE DEF w, line
<1>6. /\ line \o CrLf \in Seq(Wired)
      /\ Lines(line \o CrLf) = [result |-> "SUCCESS", items |-> Kept(w), rest |-> <<>>]
  BY <1>2, LineFound DEF w
<1>7. Kept(w) = <<w>>
  BY <1>3 DEF Kept
<1>8. Lines(line \o CrLf) = Done(<<w>>)
  BY <1>6, <1>7, Zenon DEF Done
<1>9. EncodeCommand(cmd) = line \o CrLf
  BY <1>1 DEF line
<1> QED BY <1>4, <1>5, <1>6, <1>8, <1>9

\* What is applied, or will be, against what was executed.
Tally(a, d) ==
    Len(a) = Len(d) /\ \A i \in 1..Len(a) : Carried(d[i]) => a[i] = Faithful(d[i])

\* One write more on both sides.
LEMMA TallyGrows ==
    ASSUME NEW a \in Seq(Request), NEW d \in Seq(Request), Tally(a, d),
           NEW w \in Request, NEW cmd \in Request, Carried(cmd) => w = Faithful(cmd)
    PROVE  Tally(a \o <<w>>, Append(d, cmd))
<1> DEFINE n == Len(a)
           x == Append(a, w)
           y == Append(d, cmd)
<1>1. a \o <<w>> = x
  BY AppendIsConcat
<1>2. n \in Nat /\ Len(d) = n /\ \A i \in 1..n : Carried(d[i]) => a[i] = Faithful(d[i])
  BY LenProperties DEF Tally
<1>3. /\ Len(x) = n + 1 /\ \A i \in 1..n : x[i] = a[i]
      /\ x[n + 1] = w
  BY AppendProperties
<1>4. /\ Len(y) = n + 1 /\ \A i \in 1..n : y[i] = d[i]
      /\ y[n + 1] = cmd
  BY <1>2, AppendProperties
<1> HIDE DEF x, y, n
<1>5. ASSUME NEW i \in 1..(n + 1), Carried(y[i])
      PROVE  x[i] = Faithful(y[i])
  <2>1. CASE i \in 1..n
    BY <2>1, <1>2, <1>3, <1>4, <1>5
  <2>2. CASE i \notin 1..n
    <3>1. i = n + 1
      BY <2>2, <1>2
    <3> QED BY <3>1, <1>3, <1>4, <1>5
  <2> QED BY <2>1, <2>2
<1>6. Tally(x, y)
  BY <1>3, <1>4, <1>5 DEF Tally
<1> QED BY <1>1, <1>6 DEF y

\* What the replica has and what is on its way to it make up what was executed.
Followed(lb, ap, st, du) ==
    Lines(lb \o st).result = "SUCCESS" /\ Tally(ap \o Lines(lb \o st).items, du)

\* A command that is served adds the same to both sides.
LEMMA ServeFollowed ==
    ASSUME NEW lb \in Seq(Wired), NEW ap \in Seq(Request), NEW s \in Server, NEW cmd \in Request,
           Followed(lb, ap, s.stream, s.due)
    PROVE  Followed(lb, ap, Serve(s, cmd).stream, Serve(s, cmd).due)
<1>1. s.stream \in Seq(Wired) /\ s.due \in Seq(Request)
  BY DEF Server
<1>2. /\ Serve(s, cmd).stream = IF IsWrite(cmd) THEN s.stream \o EncodeCommand(cmd) ELSE s.stream
      /\ Serve(s, cmd).due = IF IsWrite(cmd) THEN Append(s.due, cmd) ELSE s.due
  BY DEF Serve
<1>3. CASE ~IsWrite(cmd)
  BY <1>2, <1>3
<1>4. CASE IsWrite(cmd)
  <2> DEFINE x == lb \o s.stream
             e == EncodeCommand(cmd)
             items == Lines(x).items
  <2>1. PICK w \in Request : Lines(e) = Done(<<w>>) /\ (Carried(cmd) => w = Faithful(cmd))
    BY <1>4, WriteLine
  <2>2. x \in Seq(Wired) /\ e \in Seq(Wired)
    BY <1>1, EncodeCommandType, ConcatProperties
  <2>3. Lines(x).result = "SUCCESS" /\ Tally(ap \o items, s.due)
    BY DEF Followed
  <2>4. lb \o (s.stream \o e) = x \o e
    <3>1. \A t, u, v \in Seq(Wired) : (t \o u) \o v = t \o (u \o v)
      BY ConcatAssociative
    <3> HIDE DEF e
    <3> QED BY <3>1, <1>1, <2>2
  <2>5. items \in Seq(Request) /\ Lines(x).rest = <<>>
    BY <2>2, <2>3, LinesType
  <2>6. Lines(x) = Done(items)
    <3>1. Lines(x) \in State(Wired, Seq(Seq(Byte)))
      BY <2>2, LineAtReads, DrainSettles DEF Lines
    <3> DEFINE p == Lines(x)
    <3>2. p = [result |-> p.result, items |-> p.items, rest |-> p.rest]
      <4> HIDE DEF p
      <4>1. p \in State(Wired, Seq(Seq(Byte)))
        BY <3>1 DEF p
      <4> QED BY <4>1 DEF State
    <3> QED BY <3>2, <2>3, <2>5 DEF Done
  <2> HIDE DEF x, e, items
  <2>7. Lines(x \o e) = Done(items \o <<w>>)
    BY <2>1, <2>2, <2>6, LineAtReads, DrainTwo DEF Lines
  <2>8. (ap \o items) \o <<w>> = ap \o (items \o <<w>>)
    <3>1. \A t, u, v \in Seq(Request) : (t \o u) \o v = t \o (u \o v)
      BY ConcatAssociative
    <3>2. <<w>> \in Seq(Request)
      OBVIOUS
    <3> QED BY <3>1, <3>2, <2>5
  <2>9. ap \o items \in Seq(Request)
    BY <2>5, ConcatProperties
  <2>10. Tally((ap \o items) \o <<w>>, Append(s.due, cmd))
    <3> DEFINE a == ap \o items
               d == s.due
    <3>1. a \in Seq(Request) /\ d \in Seq(Request) /\ Tally(a, d)
      BY <1>1, <2>3, <2>9
    <3> HIDE DEF a, d
    <3>2. Tally(a \o <<w>>, Append(d, cmd))
      BY <3>1, <2>1, TallyGrows
    <3> QED BY <3>2 DEF a, d
  <2>11. Lines(x \o e).result = "SUCCESS" /\ Lines(x \o e).items = items \o <<w>>
    BY <2>7 DEF Done
  <2>12. Serve(s, cmd).stream = s.stream \o e /\ Serve(s, cmd).due = Append(s.due, cmd)
    BY <1>2, <1>4 DEF e
  <2> QED BY <2>4, <2>8, <2>10, <2>11, <2>12 DEF Followed
<1> QED BY <1>3, <1>4

AsApplied ==
    /\ Waits(LineAt, leader_input_buffer)
    /\ Followed(leader_input_buffer, applied, stream, due)

\* Nothing received and nothing to be received.
LEMMA FollowedAtStart == Waits(LineAt, <<>>) /\ Followed(<<>>, <<>>, <<>>, <<>>)
<1>1. <<>> \in Seq(Wired) /\ <<>> \o <<>> = <<>>
  BY Concat
<1>2. Lines(<<>>) = [result |-> "SUCCESS", items |-> <<>>, rest |-> <<>>]
  BY <1>1, LineAtReads, DrainCases DEF Lines, DrainLaw
<1>3. Tally(<<>>, <<>>)
  BY DEF Tally
<1> QED BY <1>1, <1>2, <1>3 DEF Followed, Waits, Lines

\* The commands of one recv().
LEMMA AsAppliedReceive ==
    ASSUME Typed, AsApplied, ReceiveFromClient
    PROVE  AsApplied'
<1>1. PICK a, b \in Seq(Byte) :
             /\ incoming = a \o b /\ incoming' = b
             /\ input_buffer' = Parse(input_buffer \o a).rest
             /\ \E server \in Server :
                  /\ server = ServeAll(Now, Parse(input_buffer \o a).items)
                  /\ Now' = server
                  /\ parsed' = parsed \o Parse(input_buffer \o a).items
             /\ UNCHANGED <<leader_input_buffer, applied, script, spoiled, count>>
  BY ReceiveIs
<1> DEFINE cmds == Parse(input_buffer \o a).items
           lb == leader_input_buffer
           ap == applied
           X == {s \in Server : Followed(lb, ap, s.stream, s.due)}
           now == Now
<1>2. lb \in Seq(Wired) /\ ap \in Seq(Request) /\ input_buffer \in Seq(Byte)
  BY DEF Typed
<1>3. cmds \in Seq(Request)
  <2>1. input_buffer \o a \in Seq(Byte)
    BY <1>2, ConcatProperties
  <2> QED BY <2>1, ParseType
<1>4. now \in X
  <2>1. Now \in Server /\ Now.stream = stream /\ Now.due = due
    BY DEF Typed, Now, Server
  <2> QED BY <2>1 DEF AsApplied
<1>5. Now' = ServeAll(now, cmds) /\ lb' = lb /\ ap' = ap
  BY <1>1
<1> HIDE DEF cmds, lb, ap, now
<1>6. ASSUME NEW s \in X, NEW i \in 1..Len(cmds)
      PROVE  Serve(s, cmds[i]) \in X
  <2>1. cmds[i] \in Request
    BY <1>3, ElementOfSeq
  <2>2. Serve(s, cmds[i]) \in Server
    BY <2>1, ServeType
  <2>3. Followed(lb, ap, Serve(s, cmds[i]).stream, Serve(s, cmds[i]).due)
    BY <2>1, <1>2, ServeFollowed
  <2> QED BY <2>2, <2>3
<1> HIDE DEF X
<1>7. PICK f : Serves(f, X, now, cmds)
  BY <1>3, <1>4, <1>6, ServeAllRun
<1>8. ServeAll(now, cmds) \in X
  <2>1. Len(cmds) \in 0..Len(cmds)
    BY <1>3, LenProperties
  <2> QED BY <2>1, <1>7 DEF Serves
<1>9. Followed(lb, ap, ServeAll(now, cmds).stream, ServeAll(now, cmds).due)
  BY <1>8 DEF X
<1>10. stream' = ServeAll(now, cmds).stream /\ due' = ServeAll(now, cmds).due
  <2>1. Now' = [value |-> value', answers |-> answers', parsed |-> parsed', stream |-> stream',
                due |-> due']
    BY DEF Now
  <2> QED BY <2>1, <1>5
<1>11. leader_input_buffer' = lb /\ applied' = ap /\ leader_input_buffer = lb
  BY <1>5 DEF lb, ap
<1> QED BY <1>9, <1>10, <1>11 DEF AsApplied, Waits

\* The bytes of one recv() of the replica.
LEMMA AsAppliedHear ==
    ASSUME Typed, AsApplied, ReceiveFromLeader
    PROVE  AsApplied'
<1>91. \A t, u, v \in Seq(Wired) : (t \o u) \o v = t \o (u \o v)
  BY ConcatAssociative
<1>92. \A t, u, v \in Seq(Request) : (t \o u) \o v = t \o (u \o v)
  BY ConcatAssociative
<1>1. PICK a, b \in Seq(Wired) :
             /\ stream = a \o b /\ stream' = b
             /\ leader_input_buffer' = Lines(leader_input_buffer \o a).rest
             /\ applied' = applied \o Lines(leader_input_buffer \o a).items
             /\ UNCHANGED <<incoming, input_buffer, parsed, value, answers, due, script, spoiled,
                            count>>
  BY HearIs
<1> DEFINE lb == leader_input_buffer
           x == lb \o a
           got == Lines(x)
           q == Lines(got.rest \o b)
           all == Lines(x \o b)
<1>2. lb \in Seq(Wired) /\ applied \in Seq(Request)
  BY DEF Typed
<1>3. x \in Seq(Wired)
  BY <1>2, ConcatProperties
<1>4. lb \o (a \o b) = x \o b
  <2> HIDE DEF lb
  <2> QED BY <1>91, <1>2
<1>5. all.result = "SUCCESS" /\ Tally(applied \o all.items, due)
  BY <1>1, <1>4 DEF AsApplied, Followed
<1>6. got.items \in Seq(Request) /\ got.rest \in Seq(Wired) /\ Waits(LineAt, got.rest)
  BY <1>3, LinesType
<1>7. MoreLaw(LineAt, Seq(Seq(Byte)), x, b)
  <2> HIDE DEF x
  <2> QED BY <1>3, LineAtReads, DrainMore
<1>8. all.result = q.result /\ all.items = got.items \o q.items
  BY <1>5, <1>7 DEF MoreLaw, Lines
<1>9. q.items \in Seq(Request)
  <2>1. got.rest \o b \in Seq(Wired)
    <3> HIDE DEF got
    <3> QED BY <1>6, ConcatProperties
  <2> QED BY <2>1, LinesType
<1>10. applied' = applied \o got.items /\ leader_input_buffer' = got.rest /\ stream' = b /\ due' = due
  BY <1>1
<1> HIDE DEF lb, x, got, q, all
<1>11. (applied \o got.items) \o q.items = applied \o (got.items \o q.items)
  BY <1>92, <1>2, <1>6, <1>9
<1>12. q.result = "SUCCESS" /\ Tally(applied' \o q.items, due')
  BY <1>5, <1>8, <1>10, <1>11
<1> QED BY <1>6, <1>10, <1>12 DEF AsApplied, Followed, Waits, q

\* For every write since the connection was made the replica applies one line, in order
\* and with the words the client gave, however the bytes are cut (read_from_leader() and
\* encode_command() of replication.cpp).
THEOREM AppliedAsServedKept == Spec => []AppliedAsServed
<1>1. Init => AsApplied
  BY FollowedAtStart DEF Init, AsApplied
<1>2. Typed /\ AsApplied /\ [Next]_vars => AsApplied'
  <2> SUFFICES ASSUME Typed, AsApplied, [Next]_vars
               PROVE  AsApplied'
    OBVIOUS
  <2>1. ASSUME NEW f \in Frames, Send(f)
        PROVE  AsApplied'
    <3>1. UNCHANGED <<leader_input_buffer, applied, stream, due>>
      BY <2>1 DEF Send
    <3> QED BY <3>1 DEF AsApplied, Waits, Followed
  <2>2. CASE ReceiveFromClient
    BY <2>2, AsAppliedReceive
  <2>3. CASE ReceiveFromLeader
    BY <2>3, AsAppliedHear
  <2>4. CASE Reconnect
    BY <2>4, FollowedAtStart DEF Reconnect, AsApplied
  <2>5. CASE UNCHANGED vars
    <3>1. UNCHANGED <<leader_input_buffer, applied, stream, due>>
      BY <2>5 DEF vars
    <3> QED BY <3>1 DEF AsApplied, Waits, Followed
  <2> QED BY <2>1, <2>2, <2>3, <2>4, <2>5 DEF Next
<1>3. Typed /\ AsApplied => AppliedAsServed
  <2> SUFFICES ASSUME Typed, AsApplied
               PROVE  AppliedAsServed
    OBVIOUS
  <2> DEFINE lb == leader_input_buffer
             items == Lines(lb \o stream).items
             all == applied \o items
  <2>1. lb \in Seq(Wired) /\ stream \in Seq(Wired) /\ applied \in Seq(Request) /\ due \in Seq(Request)
    BY DEF Typed
  <2>2. items \in Seq(Request)
    <3>1. lb \o stream \in Seq(Wired)
      BY <2>1, ConcatProperties
    <3> QED BY <3>1, LinesType
  <2>3. Tally(all, due)
    BY DEF AsApplied, Followed
  <2>4. stream = <<>> => items = <<>>
    <3> SUFFICES ASSUME stream = <<>>
                 PROVE  items = <<>>
      OBVIOUS
    <3>1. lb \o stream = lb
      BY <2>1, ConcatEmptySeq
    <3> QED BY <3>1 DEF AsApplied, Waits, Lines
  <2> HIDE DEF lb, items
  <2>5. /\ Len(all) = Len(applied) + Len(items) /\ Len(applied) \in Nat /\ Len(items) \in Nat
        /\ \A i \in 1..Len(applied) : all[i] = applied[i]
    BY <2>1, <2>2, EndsWith, LenProperties
  <2> HIDE DEF all
  <2>6. DOMAIN applied = 1..Len(applied)
    BY <2>1, LenProperties
  <2>7. Len(applied) <= Len(due) /\ (stream = <<>> => Len(applied) = Len(due))
    <3>1. stream = <<>> => Len(items) = 0
      BY <2>4
    <3> QED BY <3>1, <2>3, <2>5 DEF Tally
  <2>8. ASSUME NEW i \in DOMAIN applied, Carried(due[i])
        PROVE  applied[i] = Faithful(due[i])
    <3>1. i \in 1..Len(applied) /\ i \in 1..Len(all)
      BY <2>5, <2>6
    <3>2. all[i] = Faithful(due[i])
      BY <3>1, <2>3, <2>8 DEF Tally
    <3> QED BY <3>1, <3>2, <2>5
  <2> QED BY <2>7, <2>8 DEF AppliedAsServed, Faithful
<1> QED BY <1>1, <1>2, <1>3, TypesKept, PTL DEF Spec

-----------------------------------------------------------------------------
(* AnsweredAsServed. *)

\* Every length can be written in a head, as std::to_string() does (serialize_array() and
\* serialize_bulk_string() of resp.cpp).
Lengths(heads) == \A n \in Nat : \E head \in heads \cap DOMAIN Number : Number[head] = n

\* The answers that a client can hear.
Answer == (Byte \cup {"$"}) \X Seq(Byte)

\* An answer is a line.
IsLine(h) == h \notin BulkHeads \cap DOMAIN Number \/ Number[h] < 0

\* What is at the front of b, when the first line end is at crlf.
AnswerLaw(b, crlf) ==
    LET n == Number[b[1]]
    IN  /\ crlf = 0 => AnswerAt[b] = Incomplete
        /\ crlf # 0 /\ IsLine(b[1]) => AnswerAt[b] = Success(Heard(b[1], <<>>), crlf + 2)
        /\ crlf # 0 /\ ~IsLine(b[1]) /\ crlf + n + 3 > Len(b) => AnswerAt[b] = Incomplete
        /\ crlf # 0 /\ ~IsLine(b[1]) /\ ~(crlf + n + 3 > Len(b)) =>
             AnswerAt[b] = Success(Heard("$", SubSeq(b, crlf + 2, crlf + n + 1)), crlf + n + 4)

\* The cases of AnswerAt.
LEMMA AnswerAtCases ==
    ASSUME NEW b \in Seq(Byte)
    PROVE  AnswerLaw(b, FindCrLf(b, 1))
<1> DEFINE at == FindCrLf(b, 1)
           h == b[1]
           line == h \notin BulkHeads \cap DOMAIN Number \/ Number[h] < 0
           n == Number[h]
<1>1. AnswerAt[b] = IF at = 0 THEN Incomplete
                    ELSE IF line THEN Success(Heard(h, <<>>), at + 2)
                    ELSE IF at + 2 + n + 1 > Len(b) THEN Incomplete
                    ELSE Success(Heard("$", SubSeq(b, at + 2, (at + 2 + n) - 1)), at + 2 + n + 2)
  BY Zenon DEF AnswerAt
<1>2. at # 0 => at \in Int
  BY FindCrLfProperties
<1>3. ~line => n \in Int
  BY Numbers
<1>4. line = IsLine(h)
  BY DEF IsLine
<1>5. at # 0 /\ ~line =>
        /\ at + 2 + n + 1 = at + n + 3 /\ (at + 2 + n) - 1 = at + n + 1 /\ at + 2 + n + 2 = at + n + 4
  BY <1>2, <1>3
<1> HIDE DEF at, line, n
<1>6. AnswerLaw(b, at)
  BY <1>1, <1>4, <1>5 DEF AnswerLaw, n, h
<1> QED BY <1>6 DEF at

\* Of an answer that has been heard, the bytes that follow change nothing.
LEMMA AnswerAtReads == Reads(AnswerAt, Byte, Answer)
<1> SUFFICES ASSUME NEW b \in Seq(Byte), b # <<>>
             PROVE  /\ AnswerAt[b].result \in Results
                    /\ AnswerAt[b].result = "SUCCESS" =>
                         AnswerAt[b].item \in Answer /\ AnswerAt[b].next \in 2..(Len(b) + 1)
                    /\ AnswerAt[b].result # "INCOMPLETE" =>
                         \A c \in Seq(Byte) : AnswerAt[b \o c] = AnswerAt[b]
  BY DEF Reads
<1> DEFINE crlf == FindCrLf(b, 1)
           n == Number[b[1]]
<1>1. AnswerLaw(b, crlf)
  BY AnswerAtCases
<1>2. Len(b) \in Nat /\ 1 \in 1..Len(b) /\ b[1] \in Byte
  BY EmptySeq, LenProperties, ElementOfSeq
<1>3. ASSUME NEW c \in Seq(Byte), crlf # 0
      PROVE  /\ (b \o c)[1] = b[1] /\ Len(b \o c) >= Len(b) /\ Len(b \o c) \in Nat
             /\ AnswerLaw(b \o c, crlf)
  <2>1. b \o c \in Seq(Byte) /\ FindCrLf(b \o c, 1) = crlf
    BY <1>3, ConcatProperties, FindCrLfStable
  <2>2. AnswerLaw(b \o c, crlf)
    BY <2>1, AnswerAtCases
  <2> QED BY <2>1, <2>2, <1>2, ByteStable, LenProperties
<1>4. crlf # 0 => crlf \in 1..(Len(b) - 1)
  BY FindCrLfProperties
<1>5. ~IsLine(b[1]) => n \in Nat
  BY Numbers DEF IsLine
<1>6. \A m \in Nat \ {0} : \A l \in 0..Len(b) :
        SubSeq(b, m, l) \in Seq(Byte) /\ \A c \in Seq(Byte) : SubSeq(b \o c, m, l) = SubSeq(b, m, l)
  BY PartStable
<1>7. \A x \in Seq(Byte) : Heard("$", x) \in Answer
  BY DEF Heard, Answer
<1> HIDE DEF crlf
<1>8. CASE crlf = 0
  BY <1>1, <1>8 DEF AnswerLaw, Incomplete, Results
<1>9. CASE crlf # 0 /\ IsLine(b[1])
  <2>1. AnswerAt[b] = Success(Heard(b[1], <<>>), crlf + 2)
    BY <1>1, <1>9 DEF AnswerLaw
  <2>2. \A c \in Seq(Byte) : AnswerAt[b \o c] = Success(Heard(b[1], <<>>), crlf + 2)
    BY <1>3, <1>9 DEF AnswerLaw
  <2>3. Heard(b[1], <<>>) \in Answer
    <3>1. b[1] \in Byte \cup {"$"} /\ <<>> \in Seq(Byte)
      BY <1>2, EmptySeq
    <3> QED BY <3>1 DEF Heard, Answer
  <2>4. crlf + 2 \in 2..(Len(b) + 1)
    BY <1>2, <1>4, <1>9
  <2> QED BY <2>1, <2>2, <2>3, <2>4 DEF Success, Results
<1>10. CASE crlf # 0 /\ ~IsLine(b[1]) /\ crlf + n + 3 > Len(b)
  <2>1. AnswerAt[b] = Incomplete
    BY <1>1, <1>10 DEF AnswerLaw
  <2> QED BY <2>1 DEF Incomplete, Results
<1>11. CASE crlf # 0 /\ ~IsLine(b[1]) /\ ~(crlf + n + 3 > Len(b))
  <2>0. n \in Nat /\ crlf \in 1..(Len(b) - 1)
    BY <1>4, <1>5, <1>11
  <2>1. AnswerAt[b] = Success(Heard("$", SubSeq(b, crlf + 2, crlf + n + 1)), crlf + n + 4)
    BY <1>1, <1>11 DEF AnswerLaw
  <2> HIDE DEF n
  <2>2. crlf + 2 \in Nat \ {0} /\ crlf + n + 1 \in 0..Len(b) /\ crlf + n + 4 \in 2..(Len(b) + 1)
    BY <1>2, <2>0, <1>11
  <2>3. ASSUME NEW c \in Seq(Byte)
        PROVE  AnswerAt[b \o c] = AnswerAt[b]
    <3> DEFINE d == b \o c
    <3>1. SubSeq(d, crlf + 2, crlf + n + 1) = SubSeq(b, crlf + 2, crlf + n + 1)
      BY <2>2, <1>6
    <3>2. AnswerLaw(d, crlf) /\ d[1] = b[1] /\ Len(d) >= Len(b) /\ Len(d) \in Nat
      BY <1>3, <1>11
    <3> HIDE DEF d
    <3>3. ~(crlf + n + 3 > Len(d))
      BY <1>2, <1>11, <2>0, <3>2
    <3>4. AnswerAt[d] = Success(Heard("$", SubSeq(d, crlf + 2, crlf + n + 1)), crlf + n + 4)
      BY <1>11, <3>2, <3>3 DEF AnswerLaw, n
    <3> QED BY <2>1, <3>1, <3>4 DEF d
  <2>4. Heard("$", SubSeq(b, crlf + 2, crlf + n + 1)) \in Answer
    BY <2>2, <1>6, <1>7
  <2> QED BY <2>1, <2>2, <2>3, <2>4 DEF Success, Results
<1> QED BY <1>8, <1>9, <1>10, <1>11

\* A line without a line end in it ends at its end, even when its last byte is a CR.
LEMMA LineEnds ==
    ASSUME NEW h \in Byte, h # "CR", NEW t \in Seq(Byte), FindCrLf(t, 1) = 0
    PROVE  LET b == (<<h>> \o t) \o CrLf
           IN  /\ b \in Seq(Byte) /\ Len(b) = Len(t) + 3 /\ b[1] = h
               /\ FindCrLf(b, 1) = Len(t) + 2
<1> DEFINE a == <<h>> \o t
           b == a \o CrLf
           n == Len(t)
<1>0. \A s, e \in Seq(Byte) : /\ s \o e \in Seq(Byte) /\ Len(s \o e) = Len(s) + Len(e)
                              /\ \A i \in 1..Len(s) : (s \o e)[i] = s[i]
                              /\ \A i \in 1..Len(e) : (s \o e)[Len(s) + i] = e[i]
  BY EndsWith
<1>1. n \in Nat /\ \A i \in 1..(n - 1) : ~EndsLine(t, i)
  BY LenProperties, FindCrLfProperties
<1>2. CrLf \in Seq(Byte) /\ Len(CrLf) = 2 /\ CrLf[1] = "CR" /\ CrLf[2] = "LF"
  <2>1. "CR" \in Byte /\ "LF" \in Byte
    BY ByteAssumption DEF Plain
  <2> QED BY <2>1 DEF CrLf
<1>3. /\ a \in Seq(Byte) /\ Len(a) = n + 1 /\ a[1] = h
      /\ \A i \in 1..n : a[1 + i] = t[i]
  <2> DEFINE o == <<h>>
  <2>1. o \in Seq(Byte) /\ Len(o) = 1 /\ o[1] = h
    OBVIOUS
  <2> HIDE DEF o
  <2>2. /\ o \o t \in Seq(Byte) /\ Len(o \o t) = Len(o) + Len(t)
        /\ \A i \in 1..Len(o) : (o \o t)[i] = o[i]
        /\ \A i \in 1..Len(t) : (o \o t)[Len(o) + i] = t[i]
    BY <2>1, <1>0
  <2>3. 1 + n = n + 1 /\ 1 \in 1..1
    BY <1>1
  <2> HIDE DEF n
  <2> QED BY <2>1, <2>2, <2>3 DEF o, n
<1> HIDE DEF a, n
<1>4. /\ b \in Seq(Byte) /\ Len(b) = n + 3 /\ \A i \in 1..(n + 1) : b[i] = a[i]
      /\ b[n + 2] = "CR" /\ b[n + 3] = "LF"
  <2>1. /\ b \in Seq(Byte) /\ Len(b) = Len(a) + Len(CrLf)
        /\ \A i \in 1..Len(a) : b[i] = a[i]
        /\ \A i \in 1..Len(CrLf) : b[Len(a) + i] = CrLf[i]
    BY <1>0, <1>2, <1>3
  <2> HIDE DEF b
  <2>2. (n + 1) + 1 = n + 2 /\ (n + 1) + 2 = n + 3 /\ 1 \in 1..2 /\ 2 \in 1..2
    BY <1>1
  <2> QED BY <2>1, <2>2, <1>2, <1>3
<1> HIDE DEF b
<1>5. ASSUME NEW i \in 1..(n + 1)
      PROVE  ~EndsLine(b, i)
  <2>1. CASE i = 1
    BY <2>1, <1>1, <1>3, <1>4 DEF EndsLine
  <2>2. CASE i = n + 1
    <3>1. i + 1 = n + 2
      BY <2>2, <1>1
    <3> QED BY <3>1, <1>4 DEF EndsLine
  <2>3. CASE i # 1 /\ i # n + 1
    <3>1. /\ i - 1 \in 1..(n - 1) /\ i - 1 \in 1..n /\ i \in 1..n /\ i + 1 \in 1..(n + 1)
          /\ 1 + (i - 1) = i /\ 1 + i = i + 1 /\ (i - 1) + 1 = i
      BY <2>3, <1>1
    <3>2. b[i] = t[i - 1] /\ b[i + 1] = t[i]
      BY <3>1, <1>3, <1>4
    <3>3. ~EndsLine(t, i - 1)
      BY <3>1, <1>1
    <3> QED BY <3>1, <3>2, <3>3 DEF EndsLine
  <2> QED BY <2>1, <2>2, <2>3
<1>6. n + 2 \in 1..(Len(b) - 1) /\ (n + 2) - 1 = n + 1 /\ (n + 2) + 1 = n + 3 /\ 1 \in 1..(n + 1)
  BY <1>1, <1>4
<1>7. FindCrLf(b, 1) = n + 2
  <2>1. EndsLine(b, n + 2)
    BY <1>4, <1>6 DEF EndsLine
  <2> QED BY <2>1, <1>4, <1>5, <1>6, FindCrLfIs
<1>8. b[1] = h
  BY <1>3, <1>4, <1>6
<1> QED BY <1>4, <1>7, <1>8 DEF a, b, n

\* The SETs before a command.
SetsBefore(cmds, i) == {j \in 1..(i - 1) : IsWrite(cmds[j]) /\ Len(cmds[j]) = 2}

\* What the key holds after commands.
Holds(v, cmds) ==
    LET sets == SetsBefore(cmds, Len(cmds) + 1)
    IN  IF sets = {} THEN v = Unset ELSE v \in Seq(Byte) /\ v = cmds[Max(sets)][2]

\* What a command is owed when the key holds v.
Owing(v, cmd) ==
    IF Upper(cmd[1]) = <<"SET">> /\ Len(cmd) = 2 THEN Heard("+", <<>>)
    ELSE IF Upper(cmd[1]) # <<"GET">> \/ Len(cmd) # 1 THEN Heard("-", <<>>)
    ELSE IF v = Unset THEN Heard("$-1", <<>>)
    ELSE Heard("$", v)

\* What the i-th of some commands is owed.
OwedAt(cmds, i) ==
    IF Upper(cmds[i][1]) = <<"SET">> /\ Len(cmds[i]) = 2 THEN Heard("+", <<>>)
    ELSE IF Upper(cmds[i][1]) # <<"GET">> \/ Len(cmds[i]) # 1 THEN Heard("-", <<>>)
    ELSE IF SetsBefore(cmds, i) = {} THEN Heard("$-1", <<>>)
    ELSE Heard("$", cmds[Max(SetsBefore(cmds, i))][2])

\* What the commands are owed, one by one.
LEMMA OwedIs == \A cmds : Owed(cmds) = [i \in DOMAIN cmds |-> OwedAt(cmds, i)]
BY DEF Owed, OwedAt, SetsBefore

\* The last of some SETs is one of them.
LEMMA LastSet ==
    ASSUME NEW n \in Nat, NEW S, S \subseteq 1..n, S # {}
    PROVE  /\ Max(S) \in S /\ \A m \in S : Max(S) >= m
           /\ \A g \in S : (\A m \in S : g >= m) => Max(S) = g
<1>1. S \subseteq 0..n
  OBVIOUS
<1>2. \E g \in S : \A m \in S : g >= m
  BY <1>1, GreatestExists
<1>3. Max(S) \in S /\ \A m \in S : Max(S) >= m
  BY <1>2 DEF Max
<1>4. ASSUME NEW g \in S, \A m \in S : g >= m
      PROVE  Max(S) = g
  <2> DEFINE l == Max(S)
  <2>1. l \in S /\ l >= g
    BY <1>3
  <2> HIDE DEF l
  <2>2. g >= l
    BY <1>4, <2>1
  <2>3. \A x \in S : x \in Int
    OBVIOUS
  <2>4. l = g
    BY <2>1, <2>2, <2>3
  <2> QED BY <2>4 DEF l
<1> QED BY <1>3, <1>4

\* The cases of execute().
LEMMA ExecuteCases ==
    ASSUME NEW v, NEW cmd
    PROVE  LET name == Upper(cmd[1])
           IN  /\ name = <<"SET">> /\ Len(cmd) = 2 =>
                    Execute(v, cmd) = [value |-> cmd[2], answer |-> SimpleString(<<"OK">>)]
               /\ name = <<"GET">> /\ name # <<"SET">> /\ Len(cmd) = 1 =>
                    Execute(v, cmd) = [value |-> v, answer |-> IF v = Unset THEN NullBulkString
                                                               ELSE BulkString(v)]
               /\ (name = <<"SET">> /\ Len(cmd) # 2)
                    \/ (name = <<"GET">> /\ name # <<"SET">> /\ Len(cmd) # 1) =>
                    Execute(v, cmd) = [value |-> v, answer |-> Error(<<"arity">>)]
               /\ name # <<"SET">> /\ name # <<"GET">> =>
                    Execute(v, cmd) = [value |-> v, answer |-> Error(<<"unknown">> \o cmd[1])]
<1> DEFINE name == Upper(cmd[1])
<1>1. CASE name = <<"SET">> /\ Len(cmd) = 2
  BY <1>1 DEF Execute
<1>2. CASE name = <<"GET">> /\ name # <<"SET">> /\ Len(cmd) = 1
  BY <1>2 DEF Execute
<1>3. CASE (name = <<"SET">> /\ Len(cmd) # 2) \/ (name = <<"GET">> /\ name # <<"SET">> /\ Len(cmd) # 1)
  BY <1>3 DEF Execute
<1>4. CASE name # <<"SET">> /\ name # <<"GET">>
  BY <1>4 DEF Execute
<1> QED BY <1>1, <1>2, <1>3, <1>4

\* One command more.
LEMMA OwedGrows ==
    ASSUME NEW cmds \in Seq(Request), NEW cmd \in Request, NEW v, Holds(v, cmds)
    PROVE  /\ Owed(Append(cmds, cmd)) = Owed(cmds) \o <<Owing(v, cmd)>>
           /\ Holds(Execute(v, cmd).value, Append(cmds, cmd))
<1> DEFINE n == Len(cmds)
           more == Append(cmds, cmd)
<1>1. n \in Nat /\ DOMAIN cmds = 1..n /\ \A i \in 1..n : cmds[i] \in Request
  BY LenProperties, ElementOfSeq
<1>2. /\ more \in Seq(Request) /\ Len(more) = n + 1
      /\ \A i \in 1..n : more[i] = cmds[i]
      /\ more[n + 1] = cmd
  BY AppendProperties
<1>3. DOMAIN more = 1..(n + 1)
  BY <1>2, LenProperties
<1> HIDE DEF n, more
<1>4. ASSUME NEW i \in 1..(n + 1)
      PROVE  SetsBefore(more, i) = SetsBefore(cmds, i) /\ SetsBefore(cmds, i) \subseteq 1..n
  <2>1. \A j \in 1..(i - 1) : j \in 1..n /\ more[j] = cmds[j]
    BY <1>1, <1>2
  <2> QED BY <2>1 DEF SetsBefore
<1>5. ASSUME NEW i \in 1..(n + 1), SetsBefore(cmds, i) # {}
      PROVE  more[Max(SetsBefore(more, i))] = cmds[Max(SetsBefore(cmds, i))]
  <2>1. Max(SetsBefore(cmds, i)) \in 1..n
    BY <1>1, <1>4, <1>5, LastSet
  <2> QED BY <2>1, <1>2, <1>4
<1>6. \A i \in 1..n : OwedAt(more, i) = OwedAt(cmds, i)
  <2> SUFFICES ASSUME NEW i \in 1..n
               PROVE  OwedAt(more, i) = OwedAt(cmds, i)
    OBVIOUS
  <2>1. i \in 1..(n + 1) /\ more[i] = cmds[i]
    BY <1>1, <1>2
  <2> QED BY <2>1, <1>4, <1>5 DEF OwedAt
<1>7. n + 1 \in 1..(n + 1)
  BY <1>1
<1>8. OwedAt(more, n + 1) = Owing(v, cmd)
  <2>1. /\ SetsBefore(more, n + 1) = {} => v = Unset
        /\ SetsBefore(more, n + 1) # {} =>
             v # Unset /\ v = more[Max(SetsBefore(more, n + 1))][2]
    BY <1>4, <1>5, <1>7, WireAssumption DEF Holds, n
  <2> QED BY <2>1, <1>2 DEF OwedAt, Owing
<1>9. Owed(more) = Owed(cmds) \o <<Owing(v, cmd)>>
  <2> DEFINE a == Owed(cmds)
             b == Owed(more)
             T == {OwedAt(cmds, i) : i \in 1..n} \cup {Owing(v, cmd)}
  <2>1. a = [i \in 1..n |-> OwedAt(cmds, i)] /\ b = [i \in 1..(n + 1) |-> OwedAt(more, i)]
    BY <1>1, <1>3, OwedIs
  <2>2. a \in [1..n -> T]
    BY <2>1
  <2> HIDE DEF a, b, T
  <2>3. a \in Seq(T) /\ Len(a) = n
    BY <1>1, <2>2, FunctionIsSeq
  <2>4. Owing(v, cmd) \in T
    BY DEF T
  <2> DEFINE x == Owing(v, cmd)
             c == Append(a, x)
  <2>5. a \o <<x>> = c
    BY <2>3, <2>4, AppendIsConcat
  <2>6. /\ c \in Seq(T) /\ Len(c) = n + 1 /\ \A i \in 1..n : c[i] = a[i]
        /\ c[n + 1] = x
    BY <2>3, <2>4, AppendProperties
  <2> HIDE DEF c, x
  <2>7. c = [i \in 1..(n + 1) |-> c[i]]
    BY <2>6, LenProperties
  <2>8. ASSUME NEW i \in 1..(n + 1)
        PROVE  c[i] = OwedAt(more, i)
    <3>1. CASE i \in 1..n
      BY <3>1, <2>1, <2>6, <1>6
    <3>2. CASE i \notin 1..n
      <4>1. i = n + 1
        BY <3>2, <1>1
      <4> QED BY <4>1, <2>6, <1>8 DEF x
    <3> QED BY <3>1, <3>2
  <2>9. c = b
    BY <2>1, <2>7, <2>8
  <2> QED BY <2>5, <2>9 DEF a, b, x
<1>10. (n + 1) + 1 = n + 2 /\ (n + 2) - 1 = n + 1 /\ (n + 1) - 1 = n
  BY <1>1
<1>11. IsWrite(cmd) = (Upper(cmd[1]) = <<"SET">>)
  BY DEF IsWrite
<1>12. CASE IsWrite(cmd) /\ Len(cmd) = 2
  <2> DEFINE S == SetsBefore(more, n + 2)
  <2>1. Execute(v, cmd).value = cmd[2]
    <3> DEFINE w == cmd[2]
               ok == SimpleString(<<"OK">>)
               r == Execute(v, cmd)
    <3>0. Upper(cmd[1]) = <<"SET">> /\ Len(cmd) = 2 => r = [value |-> w, answer |-> ok]
      BY ExecuteCases
    <3>1. r = [value |-> w, answer |-> ok]
      BY <1>11, <1>12, <3>0, Zenon
    <3> HIDE DEF r, w, ok
    <3>2. r.value = w
      BY <3>1
    <3> QED BY <3>2 DEF r, w
  <2>2. cmd[2] \in Seq(Byte)
    <3>1. cmd \in Seq(Seq(Byte)) /\ 2 \in 1..Len(cmd)
      BY <1>12 DEF Request
    <3> QED BY <3>1, ElementOfSeq
  <2>3. S \subseteq 1..(n + 1) /\ n + 1 \in S
    BY <1>1, <1>2, <1>7, <1>10, <1>12 DEF SetsBefore
  <2> HIDE DEF S
  <2>4. \A m \in S : n + 1 >= m
    BY <1>1, <2>3
  <2>5. Max(S) = n + 1
    <3> DEFINE k == n + 1
    <3>1. k \in Nat /\ S \subseteq 1..k /\ k \in S /\ \A m \in S : k >= m
      BY <1>1, <2>3, <2>4
    <3> HIDE DEF k
    <3>2. S # {}
      BY <3>1
    <3>3. \A g \in S : (\A m \in S : g >= m) => Max(S) = g
      BY <3>1, <3>2, LastSet
    <3>4. Max(S) = k
      BY <3>1, <3>3
    <3> QED BY <3>4 DEF k
  <2>6. SetsBefore(more, Len(more) + 1) = S
    BY <1>2, <1>10 DEF S
  <2>7. S # {}
    BY <2>3
  <2>8. Holds(cmd[2], more)
    BY <1>2, <2>2, <2>5, <2>6, <2>7 DEF Holds
  <2> QED BY <1>9, <2>1, <2>8 DEF more
<1>13. CASE ~(IsWrite(cmd) /\ Len(cmd) = 2)
  <2>1. Execute(v, cmd).value = v
    <3> DEFINE name == Upper(cmd[1])
    <3>1. CASE name = <<"SET">>
      <4>1. Execute(v, cmd) = [value |-> v, answer |-> Error(<<"arity">>)]
        BY <1>11, <1>13, <3>1, ExecuteCases
      <4> QED BY <4>1
    <3>2. CASE name # <<"SET">> /\ name = <<"GET">> /\ Len(cmd) = 1
      <4>1. Execute(v, cmd) = [value |-> v, answer |-> IF v = Unset THEN NullBulkString
                                                       ELSE BulkString(v)]
        BY <3>2, ExecuteCases
      <4> QED BY <4>1
    <3>3. CASE name # <<"SET">> /\ name = <<"GET">> /\ Len(cmd) # 1
      <4>1. Execute(v, cmd) = [value |-> v, answer |-> Error(<<"arity">>)]
        BY <3>3, ExecuteCases
      <4> QED BY <4>1
    <3>4. CASE name # <<"SET">> /\ name # <<"GET">>
      <4>1. Execute(v, cmd) = [value |-> v, answer |-> Error(<<"unknown">> \o cmd[1])]
        BY <3>4, ExecuteCases
      <4> QED BY <4>1
    <3> QED BY <3>1, <3>2, <3>3, <3>4
  <2>2. SetsBefore(more, n + 2) = SetsBefore(more, n + 1)
    <3>1. \A j \in 1..(n + 1) : j \in 1..n \/ j = n + 1
      BY <1>1
    <3>2. \A j \in 1..n : j \in 1..(n + 1)
      BY <1>1
    <3> QED BY <3>1, <3>2, <1>2, <1>10, <1>13 DEF SetsBefore
  <2>3. Holds(v, more)
    BY <1>2, <1>4, <1>5, <1>7, <1>10, <2>2 DEF Holds, n
  <2> QED BY <1>9, <2>1, <2>3 DEF more
<1> QED BY <1>12, <1>13

\* An answer that is all there is, is heard.
LEMMA HeardWhole ==
    ASSUME NEW b \in Seq(Byte), b # <<>>, NEW kind, NEW data,
           AnswerAt[b] = Success(Heard(kind, data), Len(b) + 1)
    PROVE  Understood(b) = Done(<<Heard(kind, data)>>)
<1> DEFINE item == Heard(kind, data)
<1>1. item # <<>>
  BY DEF Heard
<1> HIDE DEF item
<1>2. AnswerAt[b].result = "SUCCESS" /\ AnswerAt[b].next = Len(b) + 1 /\ AnswerAt[b].item = item
  BY DEF Success, item
<1>3. Drain(AnswerAt, b) = [result |-> "SUCCESS", items |-> Kept(AnswerAt[b].item), rest |-> <<>>]
  BY <1>2, AnswerAtReads, DrainOne
<1>4. Kept(item) = <<item>>
  BY <1>1 DEF Kept
<1> QED BY <1>2, <1>3, <1>4 DEF Understood, Done, item

\* Short texts have no line end.
LEMMA NoLineEnd == \A t \in Seq(Byte) : Len(t) < 2 => FindCrLf(t, 1) = 0
<1> SUFFICES ASSUME NEW t \in Seq(Byte), Len(t) < 2
             PROVE  FindCrLf(t, 1) = 0
  OBVIOUS
<1>1. FindCrLf(t, 1) # 0 => FindCrLf(t, 1) \in 1..(Len(t) - 1)
  BY FindCrLfProperties
<1> QED BY <1>1, LenProperties

\* A line is heard as its kind.
LEMMA LineHeard ==
    ASSUME NEW h \in Byte, h # "CR", IsLine(h), NEW t \in Seq(Byte), FindCrLf(t, 1) = 0
    PROVE  LET b == (<<h>> \o t) \o CrLf
           IN  b \in Seq(Byte) /\ Understood(b) = Done(<<Heard(h, <<>>)>>)
<1> DEFINE b == (<<h>> \o t) \o CrLf
<1>1. /\ b \in Seq(Byte) /\ Len(b) = Len(t) + 3 /\ b[1] = h
      /\ FindCrLf(b, 1) = Len(t) + 2
  BY LineEnds
<1>2. Len(t) \in Nat
  BY LenProperties
<1> HIDE DEF b
<1>3. AnswerLaw(b, FindCrLf(b, 1))
  BY <1>1, AnswerAtCases
<1>4. AnswerAt[b] = Success(Heard(h, <<>>), Len(t) + 2 + 2) /\ Len(t) + 2 + 2 = Len(b) + 1
  BY <1>1, <1>2, <1>3 DEF AnswerLaw
<1>5. b # <<>>
  BY <1>1, <1>2, EmptySeq
<1> QED BY <1>1, <1>4, <1>5, HeardWhole DEF b

\* The head for a length.
LEMMA HeadIs ==
    ASSUME NEW heads, Lengths(heads), NEW n \in Nat
    PROVE  HeadFor(heads, n) \in heads \cap DOMAIN Number /\ Number[HeadFor(heads, n)] = n
<1>1. \E head \in heads \cap DOMAIN Number : Number[head] = n
  BY DEF Lengths
<1> QED BY <1>1 DEF HeadFor

\* A value is heard byte for byte, line ends included.
LEMMA BulkHeard ==
    ASSUME Lengths(BulkHeads), NEW v \in Seq(Byte)
    PROVE  BulkString(v) \in Seq(Byte) /\ Understood(BulkString(v)) = Done(<<Heard("$", v)>>)
<1>90. \A s, e \in Seq(Byte) : /\ s \o e \in Seq(Byte) /\ Len(s \o e) = Len(s) + Len(e)
                               /\ \A i \in 1..Len(s) : (s \o e)[i] = s[i]
                               /\ \A i \in 1..Len(e) : (s \o e)[Len(s) + i] = e[i]
                               /\ SubSeq(s \o e, 1, Len(s)) = s
  BY EndsWith
<1> DEFINE n == Len(v)
           h == HeadFor(BulkHeads, n)
           a == <<h>> \o CrLf
           c == a \o v
           b == c \o CrLf
<1>1. n \in Nat
  BY LenProperties
<1>2. h \in BulkHeads \cap DOMAIN Number /\ Number[h] = n /\ h \in Byte /\ h # "CR"
  <2>1. h \in BulkHeads \cap DOMAIN Number /\ Number[h] = n
    BY <1>1, HeadIs
  <2> HIDE DEF h
  <2> QED BY <2>1, Numbers DEF Plain
<1> HIDE DEF h
<1>3. a \in Seq(Byte) /\ Len(a) = 3 /\ a[1] = h /\ FindCrLf(a, 1) = 2
  <2>1. <<>> \in Seq(Byte) /\ Len(<<>>) = 0
    BY EmptySeq
  <2>2. FindCrLf(<<>>, 1) = 0
    <3> DEFINE e == <<>>
    <3>1. e \in Seq(Byte) /\ Len(e) < 2
      BY <2>1
    <3> HIDE DEF e
    <3>2. FindCrLf(e, 1) = 0
      BY <3>1, NoLineEnd
    <3> QED BY <3>2 DEF e
  <2> DEFINE x == (<<h>> \o <<>>) \o CrLf
  <2>3. x \in Seq(Byte) /\ Len(x) = Len(<<>>) + 3 /\ x[1] = h /\ FindCrLf(x, 1) = Len(<<>>) + 2
    BY <1>2, <2>1, <2>2, LineEnds
  <2>4. <<h>> \in Seq(Byte)
    BY <1>2
  <2>5. <<h>> \o <<>> = <<h>>
    BY <2>4, ConcatEmptySeq
  <2>6. a = x
    BY <2>5
  <2> HIDE DEF a, x
  <2> QED BY <2>1, <2>3, <2>6
<1>4. CrLf \in Seq(Byte) /\ Len(CrLf) = 2
  <2>1. "CR" \in Byte /\ "LF" \in Byte
    BY ByteAssumption DEF Plain
  <2> QED BY <2>1 DEF CrLf
<1> HIDE DEF a, n
<1>5. /\ c \in Seq(Byte) /\ Len(c) = 3 + n /\ c[1] = h
      /\ \A i \in 1..n : c[3 + i] = v[i]
  <2>1. /\ c \in Seq(Byte) /\ Len(c) = Len(a) + Len(v)
        /\ \A i \in 1..Len(a) : c[i] = a[i]
        /\ \A i \in 1..Len(v) : c[Len(a) + i] = v[i]
    BY <1>3, <1>90
  <2>2. 1 \in 1..3 /\ Len(v) = n
    BY DEF n
  <2> HIDE DEF c
  <2> QED BY <1>3, <2>1, <2>2
<1>6. FindCrLf(c, 1) = 2
  BY <1>3, FindCrLfStable
<1> HIDE DEF c
<1>7. /\ b \in Seq(Byte) /\ Len(b) = 3 + n + 2
      /\ \A i \in 1..(3 + n) : b[i] = c[i]
  <2>1. /\ b \in Seq(Byte) /\ Len(b) = Len(c) + Len(CrLf)
        /\ \A i \in 1..Len(c) : b[i] = c[i]
    BY <1>4, <1>5, <1>90
  <2> HIDE DEF b
  <2> QED BY <2>1, <1>4, <1>5
<1>8. FindCrLf(b, 1) = 2
  BY <1>4, <1>5, <1>6, FindCrLfStable
<1> HIDE DEF b
<1>9. b[1] = h
  <2>1. 1 \in 1..(3 + n)
    BY <1>1
  <2> QED BY <2>1, <1>5, <1>7
<1>10. ~IsLine(h)
  BY <1>1, <1>2 DEF IsLine
<1>11. SubSeq(b, 4, 3 + n) = v
  <2> DEFINE w == SubSeq(b, 4, 3 + n)
  <2>1. \A i \in 4..(3 + n) : b[i] \in Byte
    <3>1. \A i \in 4..(3 + n) : i \in 1..Len(b)
      BY <1>1, <1>7
    <3> QED BY <3>1, <1>7, ElementOfSeq
  <2>2. /\ w \in Seq(Byte) /\ Len(w) = IF 4 <= 3 + n THEN (3 + n) - 4 + 1 ELSE 0
        /\ \A i \in 1..((3 + n) - 4 + 1) : w[i] = b[4 + i - 1]
    BY <1>1, <2>1, SubSeqProperties
  <2> HIDE DEF w
  <2>3. Len(w) = n /\ (3 + n) - 4 + 1 = n
    BY <1>1, <2>2
  <2>4. ASSUME NEW i \in 1..n
        PROVE  w[i] = v[i]
    <3>1. 4 + i - 1 = 3 + i /\ 3 + i \in 1..(3 + n)
      BY <1>1
    <3>2. w[i] = b[3 + i]
      BY <2>2, <2>3, <3>1
    <3> QED BY <3>1, <3>2, <1>5, <1>7
  <2>5. w = v
    BY <2>2, <2>3, <2>4, SeqEqual DEF n
  <2> QED BY <2>5 DEF w
<1>12. AnswerAt[b] = Success(Heard("$", v), Len(b) + 1)
  <2>1. AnswerLaw(b, 2)
    BY <1>7, <1>8, AnswerAtCases
  <2>2. 2 + n + 3 = Len(b) /\ 2 + n + 1 = 3 + n /\ 2 + 2 = 4 /\ 2 + n + 4 = Len(b) + 1
        /\ ~(2 + n + 3 > Len(b))
    BY <1>1, <1>7
  <2>3. Number[b[1]] = n /\ ~IsLine(b[1])
    BY <1>2, <1>9, <1>10
  <2>4. AnswerAt[b] = Success(Heard("$", SubSeq(b, 2 + 2, 2 + n + 1)), 2 + n + 4)
    BY <2>1, <2>2, <2>3 DEF AnswerLaw
  <2> QED BY <2>2, <2>4, <1>11
<1>13. b # <<>>
  BY <1>1, <1>7, EmptySeq
<1>14. BulkString(v) = b
  BY DEF BulkString, b, c, a, h, n
<1> QED BY <1>7, <1>12, <1>13, <1>14, HeardWhole

\* A text behind a byte that is no CR has a line end only where the text has one.
LEMMA NoLineEndAfter ==
    ASSUME NEW h \in Byte, h # "CR", NEW t \in Seq(Byte), FindCrLf(t, 1) = 0
    PROVE  <<h>> \o t \in Seq(Byte) /\ FindCrLf(<<h>> \o t, 1) = 0
<1> DEFINE a == <<h>> \o t
           k == FindCrLf(a, 1)
<1>1. FindCrLf(a \o CrLf, 1) = Len(t) + 2
  BY LineEnds
<1>2. <<h>> \in Seq(Byte) /\ Len(<<h>>) = 1 /\ Len(t) \in Nat
  BY LenProperties
<1>3. a \in Seq(Byte) /\ Len(a) = 1 + Len(t)
  BY <1>2, ConcatProperties
<1>4. CrLf \in Seq(Byte)
  <2>1. "CR" \in Byte /\ "LF" \in Byte
    BY ByteAssumption DEF Plain
  <2> QED BY <2>1 DEF CrLf
<1> HIDE DEF a
<1>5. k # 0 => k \in 1..(Len(a) - 1) /\ FindCrLf(a \o CrLf, 1) = k
  BY <1>3, <1>4, FindCrLfProperties, FindCrLfStable
<1>6. k = 0
  BY <1>1, <1>2, <1>3, <1>5
<1> QED BY <1>3, <1>6 DEF a

\* The answer to a command is heard as what the command is owed.
LEMMA AnswerHeard ==
    ASSUME Lengths(BulkHeads), NEW v \in Seq(Byte) \cup {Unset}, NEW cmd \in Request, FindCrLf(cmd[1], 1) = 0
    PROVE  /\ Execute(v, cmd).answer \in Seq(Byte)
           /\ Understood(Execute(v, cmd).answer) = Done(<<Owing(v, cmd)>>)
<1> DEFINE name == Upper(cmd[1])
<1>1. cmd[1] \in Seq(Byte)
  <2>1. cmd \in Seq(Seq(Byte)) /\ 1 \in 1..Len(cmd)
    BY LenProperties, EmptySeq DEF Request
  <2> QED BY <2>1, ElementOfSeq
<1>2. /\ {"+", "-", "OK", "arity", "unknown", "$-1"} \subseteq Byte
      /\ IsLine("+") /\ IsLine("-") /\ IsLine("$-1") /\ "$-1" # "CR"
  <2>1. {"CR", "+", "-", "OK", "arity", "unknown"} \subseteq Plain
    BY DEF Plain
  <2>2. \A x \in {"+", "-"} : IsLine(x)
    BY <2>1, Numbers DEF IsLine
  <2>3. IsLine("$-1")
    BY NumberAssumption DEF IsLine
  <2> QED BY <2>1, <2>2, <2>3, Numbers, NumberAssumption
<1>3. /\ <<"OK">> \in Seq(Byte) /\ FindCrLf(<<"OK">>, 1) = 0
      /\ <<"arity">> \in Seq(Byte) /\ FindCrLf(<<"arity">>, 1) = 0
      /\ <<>> \in Seq(Byte) /\ FindCrLf(<<>>, 1) = 0
  <2>1. /\ <<"OK">> \in Seq(Byte) /\ <<"arity">> \in Seq(Byte) /\ <<>> \in Seq(Byte)
        /\ Len(<<"OK">>) < 2 /\ Len(<<"arity">>) < 2 /\ Len(<<>>) < 2
    BY <1>2
  <2> QED BY <2>1, NoLineEnd
<1>4. "+" # "CR" /\ "-" # "CR" /\ "unknown" # "CR"
  OBVIOUS
<1>5. /\ SimpleString(<<"OK">>) \in Seq(Byte)
      /\ Understood(SimpleString(<<"OK">>)) = Done(<<Heard("+", <<>>)>>)
  <2> DEFINE w == <<"OK">>
             h == "+"
  <2>1. w \in Seq(Byte) /\ FindCrLf(w, 1) = 0 /\ h \in Byte /\ h # "CR" /\ IsLine(h)
    BY <1>2, <1>3, <1>4
  <2> HIDE DEF w, h
  <2>2. (<<h>> \o w) \o CrLf \in Seq(Byte)
        /\ Understood((<<h>> \o w) \o CrLf) = Done(<<Heard(h, <<>>)>>)
    BY <2>1, LineHeard
  <2> QED BY <2>2 DEF w, h, SimpleString
<1>6. \A w \in Seq(Byte) : FindCrLf(w, 1) = 0 =>
         Error(w) \in Seq(Byte) /\ Understood(Error(w)) = Done(<<Heard("-", <<>>)>>)
  <2> DEFINE h == "-"
  <2>1. h \in Byte /\ h # "CR" /\ IsLine(h)
    BY <1>2, <1>4
  <2> HIDE DEF h
  <2>2. \A w \in Seq(Byte) : FindCrLf(w, 1) = 0 =>
          (<<h>> \o w) \o CrLf \in Seq(Byte)
          /\ Understood((<<h>> \o w) \o CrLf) = Done(<<Heard(h, <<>>)>>)
    BY <2>1, LineHeard
  <2> QED BY <2>2 DEF h, Error
<1>7. NullBulkString \in Seq(Byte) /\ Understood(NullBulkString) = Done(<<Heard("$-1", <<>>)>>)
  <2> DEFINE h == "$-1"
             w == <<>>
  <2>1. w \in Seq(Byte) /\ FindCrLf(w, 1) = 0 /\ h \in Byte /\ h # "CR" /\ IsLine(h)
    BY <1>2, <1>3
  <2> HIDE DEF w, h
  <2>2. (<<h>> \o w) \o CrLf \in Seq(Byte)
        /\ Understood((<<h>> \o w) \o CrLf) = Done(<<Heard(h, <<>>)>>)
    BY <2>1, LineHeard
  <2>3. <<h>> \in Seq(Byte)
    BY <2>1
  <2>4. <<h>> \o w = <<h>>
    BY <2>3, ConcatEmptySeq DEF w
  <2> QED BY <2>2, <2>4 DEF h, NullBulkString
<1>8. CASE name = <<"SET">> /\ Len(cmd) = 2
  <2>1. Execute(v, cmd) = [value |-> cmd[2], answer |-> SimpleString(<<"OK">>)]
    BY <1>8, ExecuteCases
  <2>2. Owing(v, cmd) = Heard("+", <<>>)
    BY <1>8 DEF Owing
  <2> QED BY <2>1, <2>2, <1>5
<1>9. CASE name # <<"SET">> /\ name = <<"GET">> /\ Len(cmd) = 1
  <2>1. Execute(v, cmd) = [value |-> v, answer |-> IF v = Unset THEN NullBulkString
                                                   ELSE BulkString(v)]
    BY <1>9, ExecuteCases
  <2>2. CASE v = Unset
    <3>1. Owing(v, cmd) = Heard("$-1", <<>>)
      BY <1>9, <2>2 DEF Owing
    <3>2. Execute(v, cmd).answer = NullBulkString
      BY <2>1, <2>2
    <3> QED BY <3>1, <3>2, <1>7
  <2>3. CASE v # Unset
    <3>1. Owing(v, cmd) = Heard("$", v)
      BY <1>9, <2>3 DEF Owing
    <3>2. v \in Seq(Byte)
      BY <2>3
    <3>3. BulkString(v) \in Seq(Byte) /\ Understood(BulkString(v)) = Done(<<Heard("$", v)>>)
      BY <3>2, BulkHeard
    <3>4. Execute(v, cmd).answer = BulkString(v)
      BY <2>1, <2>3
    <3> QED BY <3>1, <3>3, <3>4
  <2> QED BY <2>2, <2>3
<1>10. CASE (name = <<"SET">> /\ Len(cmd) # 2)
              \/ (name # <<"SET">> /\ name = <<"GET">> /\ Len(cmd) # 1)
  <2>1. Execute(v, cmd) = [value |-> v, answer |-> Error(<<"arity">>)]
    BY <1>10, ExecuteCases
  <2>2. Owing(v, cmd) = Heard("-", <<>>)
    BY <1>10 DEF Owing
  <2> DEFINE text == <<"arity">>
             answer == Execute(v, cmd).answer
  <2>3. text \in Seq(Byte) /\ FindCrLf(text, 1) = 0 /\ answer = Error(text)
    BY <2>1, <1>3
  <2> HIDE DEF text, answer
  <2>4. answer \in Seq(Byte) /\ Understood(answer) = Done(<<Heard("-", <<>>)>>)
    BY <2>3, <1>6
  <2> QED BY <2>2, <2>4 DEF answer
<1>11. CASE name # <<"SET">> /\ name # <<"GET">>
  <2>1. Execute(v, cmd) = [value |-> v, answer |-> Error(<<"unknown">> \o cmd[1])]
    BY <1>11, ExecuteCases
  <2>2. Owing(v, cmd) = Heard("-", <<>>)
    BY <1>11 DEF Owing
  <2>3. <<"unknown">> \o cmd[1] \in Seq(Byte) /\ FindCrLf(<<"unknown">> \o cmd[1], 1) = 0
    <3> DEFINE h == "unknown"
               w == cmd[1]
    <3>1. h \in Byte /\ h # "CR" /\ w \in Seq(Byte) /\ FindCrLf(w, 1) = 0
      BY <1>1, <1>2, <1>4
    <3> HIDE DEF h, w
    <3>2. <<h>> \o w \in Seq(Byte) /\ FindCrLf(<<h>> \o w, 1) = 0
      BY <3>1, NoLineEndAfter
    <3> QED BY <3>2 DEF h, w
  <2> DEFINE text == <<"unknown">> \o cmd[1]
             answer == Execute(v, cmd).answer
  <2>4. text \in Seq(Byte) /\ FindCrLf(text, 1) = 0 /\ answer = Error(text)
    BY <2>1, <2>3
  <2> HIDE DEF text, answer
  <2>5. answer \in Seq(Byte) /\ Understood(answer) = Done(<<Heard("-", <<>>)>>)
    BY <2>4, <1>6
  <2> QED BY <2>2, <2>5 DEF answer
<1> QED BY <1>8, <1>9, <1>10, <1>11

\* No command's name has a line end.
Clean(cmds) == \A i \in DOMAIN cmds : FindCrLf(cmds[i][1], 1) = 0

\* What the server has answered, and what the key holds, against what it has executed.
Answered(s) ==
    /\ Holds(s.value, s.parsed)
    /\ Clean(s.parsed) =>
         s.answers \in Seq(Byte) /\ Understood(s.answers) = Done(Owed(s.parsed))

\* A command that is served is answered as it is owed.
LEMMA ServeAnswered ==
    ASSUME Lengths(BulkHeads), NEW s \in Server, NEW cmd \in Request, Answered(s)
    PROVE  Answered(Serve(s, cmd))
<1> DEFINE v == s.value
           p == s.parsed
           q == Append(p, cmd)
           n == Len(p)
           answer == Execute(v, cmd).answer
<1>1. v \in Seq(Byte) \cup {Unset} /\ p \in Seq(Request)
  BY DEF Server
<1>2. /\ Serve(s, cmd).value = Execute(v, cmd).value /\ Serve(s, cmd).parsed = q
      /\ Serve(s, cmd).answers = s.answers \o answer
  BY DEF Serve
<1>3. Holds(v, p)
  BY DEF Answered
<1>4. Owed(q) = Owed(p) \o <<Owing(v, cmd)>> /\ Holds(Execute(v, cmd).value, q)
  <2> HIDE DEF v, p
  <2> QED BY <1>1, <1>3, OwedGrows
<1>5. /\ n \in Nat /\ DOMAIN p = 1..n
      /\ q \in Seq(Request) /\ Len(q) = n + 1 /\ (\A i \in 1..n : q[i] = p[i]) /\ q[n + 1] = cmd
  <2> HIDE DEF p
  <2> QED BY <1>1, AppendProperties, LenProperties
<1>6. DOMAIN q = 1..(n + 1)
  <2> HIDE DEF q
  <2> QED BY <1>5, LenProperties
<1>7. Clean(p) => s.answers \in Seq(Byte) /\ Understood(s.answers) = Done(Owed(p))
  BY DEF Answered
<1> HIDE DEF v, p, q, n
<1>8. ASSUME Clean(q)
      PROVE  /\ s.answers \o answer \in Seq(Byte)
             /\ Understood(s.answers \o answer) = Done(Owed(q))
  <2>1. FindCrLf(cmd[1], 1) = 0
    <3>1. n + 1 \in 1..(n + 1)
      BY <1>5
    <3> QED BY <3>1, <1>5, <1>6, <1>8 DEF Clean
  <2>2. Clean(p)
    <3>1. \A i \in 1..n : i \in 1..(n + 1)
      BY <1>5
    <3> QED BY <3>1, <1>5, <1>6, <1>8 DEF Clean
  <2>3. answer \in Seq(Byte) /\ Understood(answer) = Done(<<Owing(v, cmd)>>)
    BY <1>1, <2>1, AnswerHeard
  <2>4. s.answers \in Seq(Byte) /\ Understood(s.answers) = Done(Owed(p))
    BY <1>7, <2>2
  <2> HIDE DEF answer
  <2> DEFINE a == s.answers
             t == <<Owing(v, cmd)>>
  <2>5. Drain(AnswerAt, a) = Done(Owed(p)) /\ Drain(AnswerAt, answer) = Done(t)
    BY <2>3, <2>4 DEF Understood
  <2>6. a \in Seq(Byte) /\ answer \in Seq(Byte) /\ Owed(q) = Owed(p) \o t
    BY <2>3, <2>4, <1>4
  <2> HIDE DEF a, t
  <2>7. Drain(AnswerAt, a \o answer) = Done(Owed(p) \o t)
    BY <2>5, <2>6, AnswerAtReads, DrainTwo
  <2>8. a \o answer \in Seq(Byte)
    BY <2>6, ConcatProperties
  <2> QED BY <2>6, <2>7, <2>8 DEF Understood, a
<1> QED BY <1>2, <1>4, <1>8 DEF Answered

\* At the start nothing is owed.
LEMMA AnsweredInit == Init => Answered(Now)
<1> SUFFICES ASSUME Init
             PROVE  Answered(Now)
  OBVIOUS
<1> DEFINE e == <<>>
<1>1. /\ Now.value = Unset /\ Now.parsed = e /\ Now.answers = <<>>
  BY DEF Init, Now
<1>2. e \in Seq(Byte) /\ e \in Seq(Request) /\ Len(e) = 0 /\ DOMAIN e = 1..0
  BY EmptySeq
<1> HIDE DEF e
<1>3. Holds(Unset, e)
  <2>1. SetsBefore(e, Len(e) + 1) = {}
    BY <1>2 DEF SetsBefore
  <2> QED BY <2>1 DEF Holds
<1>4. Owed(e) = <<>>
  <2> DEFINE o == Owed(e)
  <2>1. o = [i \in 1..0 |-> OwedAt(e, i)]
    BY <1>2, OwedIs
  <2>2. o \in [1..0 -> {}]
    BY <2>1
  <2> HIDE DEF o
  <2>3. o \in Seq({}) /\ Len(o) = 0
    BY <2>2, FunctionIsSeq
  <2>4. o = <<>>
    BY <2>3, EmptySeq
  <2> QED BY <2>4 DEF o
<1>5. Understood(<<>>) = Done(<<>>)
  <2>1. <<>> \in Seq(Byte)
    BY EmptySeq
  <2>2. DrainLaw(AnswerAt, <<>>)
    BY <2>1, AnswerAtReads, DrainCases
  <2> QED BY <2>2 DEF DrainLaw, Understood, Done
<1> QED BY <1>1, <1>3, <1>4, <1>5, EmptySeq DEF Answered

\* The commands of one recv().
LEMMA AnsweredReceive ==
    ASSUME Lengths(BulkHeads), Typed, Answered(Now), ReceiveFromClient
    PROVE  Answered(Now)'
<1>1. PICK a \in Seq(Byte) : Now' = ServeAll(Now, Parse(input_buffer \o a).items)
  BY ReceiveIs
<1> DEFINE cmds == Parse(input_buffer \o a).items
           X == {s \in Server : Answered(s)}
           now == Now
<1>2. cmds \in Seq(Request)
  <2>1. input_buffer \o a \in Seq(Byte)
    BY ConcatProperties DEF Typed
  <2> QED BY <2>1, ParseType
<1>3. now \in X
  <2>1. Now \in Server
    BY DEF Typed, Now, Server
  <2> QED BY <2>1
<1>4. Now' = ServeAll(now, cmds)
  BY <1>1
<1> HIDE DEF cmds, now
<1>5. ASSUME NEW s \in X, NEW i \in 1..Len(cmds)
      PROVE  Serve(s, cmds[i]) \in X
  <2>1. cmds[i] \in Request
    BY <1>2, ElementOfSeq
  <2> QED BY <2>1, ServeType, ServeAnswered
<1> HIDE DEF X
<1>6. PICK f : Serves(f, X, now, cmds)
  BY <1>2, <1>3, <1>5, ServeAllRun
<1>7. ServeAll(now, cmds) \in X
  <2>1. Len(cmds) \in 0..Len(cmds)
    BY <1>2, LenProperties
  <2> QED BY <2>1, <1>6 DEF Serves
<1>8. Answered(ServeAll(now, cmds))
  BY <1>7 DEF X
<1> DEFINE then == ServeAll(now, cmds)
<1>9. then = Now'
  BY <1>4
<1> HIDE DEF then
<1>10. Answered(then)
  BY <1>8 DEF then
<1>11. Now' = [value |-> value', answers |-> answers', parsed |-> parsed', stream |-> stream',
               due |-> due']
  BY DEF Now
<1> QED BY <1>9, <1>10, <1>11 DEF Answered, Now

\* A client hears one answer for each of its commands that was executed, in order: OK for
\* a SET, the last value set, byte for byte, for a GET, an error for the rest (execute(),
\* the handlers of SET and GET and the serialisers of resp.cpp).
THEOREM AnsweredAsServedKept ==
    ASSUME Lengths(BulkHeads)
    PROVE  Spec => []AnsweredAsServed
<1>1. Init => Answered(Now)
  BY AnsweredInit
<1>2. Typed /\ Answered(Now) /\ [Next]_vars => Answered(Now)'
  <2> SUFFICES ASSUME Typed, Answered(Now), [Next]_vars
               PROVE  Answered(Now)'
    OBVIOUS
  <2>1. ASSUME UNCHANGED <<value, answers, parsed, stream, due>>
        PROVE  Answered(Now)'
    BY <2>1 DEF Answered, Now
  <2>2. ASSUME UNCHANGED <<value, answers, parsed>>
        PROVE  Answered(Now)'
    BY <2>2 DEF Answered, Now
  <2>3. ASSUME NEW f \in Frames, Send(f)
        PROVE  Answered(Now)'
    BY <2>1, <2>3 DEF Send
  <2>4. CASE ReceiveFromClient
    BY <2>4, AnsweredReceive
  <2>5. CASE ReceiveFromLeader
    BY <2>2, <2>5 DEF ReceiveFromLeader
  <2>6. CASE Reconnect
    BY <2>2, <2>6 DEF Reconnect
  <2>7. CASE UNCHANGED vars
    BY <2>1, <2>7 DEF vars
  <2> QED BY <2>3, <2>4, <2>5, <2>6, <2>7 DEF Next
<1>3. Answered(Now) => AnsweredAsServed
  BY DEF Answered, Now, AnsweredAsServed, Clean, Done
<1> QED BY <1>1, <1>2, <1>3, TypesKept, PTL DEF Spec

-----------------------------------------------------------------------------
(* NoLockup. *)

\* Whatever is closed under suffixes holds what Drain leaves of its members.
LEMMA DrainWithin ==
    ASSUME NEW B, NEW I, NEW one, Reads(one, B, I), NEW G, G \subseteq Seq(B), <<>> \in G,
           \A x \in G : \A n \in 1..(Len(x) + 1) : Suffix(x, n) \in G,
           NEW b \in G
    PROVE  Drain(one, b).rest \in G
<1> DEFINE P == {n \in Nat : \A d \in G : Len(d) = n => Drain(one, d).rest \in G}
<1>1. ASSUME NEW n \in Nat, \A m \in 0..(n - 1) : m \in P
      PROVE  n \in P
  <2>1. ASSUME NEW d \in G, Len(d) = n
        PROVE  Drain(one, d).rest \in G
    <3>1. d \in Seq(B) /\ DrainLaw(one, d)
      BY DrainCases
    <3>2. CASE d = <<>>
      <4>1. Drain(one, d).rest = <<>>
        BY <3>1, <3>2 DEF DrainLaw
      <4> QED BY <4>1
    <3>3. CASE d # <<>> /\ one[d].result = "INCOMPLETE"
      <4>1. Drain(one, d).rest = d
        BY <3>1, <3>3 DEF DrainLaw
      <4> QED BY <4>1
    <3>4. CASE d # <<>> /\ one[d].result = "PROTOCOL_ERROR"
      <4>1. Drain(one, d).rest = <<>>
        BY <3>1, <3>4 DEF DrainLaw
      <4> QED BY <4>1
    <3>5. CASE d # <<>> /\ one[d].result = "SUCCESS"
      <4> DEFINE e == Suffix(d, one[d].next)
                 q == Drain(one, e)
      <4>1. one[d].next \in 1..(Len(d) + 1) /\ Len(e) \in 0..(n - 1)
        BY <2>1, <3>1, <3>5, ItemFound
      <4>2. e \in G
        BY <4>1
      <4>3. Drain(one, d) = Ahead(Kept(one[d].item), q)
        BY <3>1, <3>5 DEF DrainLaw
      <4> HIDE DEF e
      <4>4. q.rest \in G
        BY <1>1, <4>1, <4>2
      <4> HIDE DEF q
      <4> QED BY <4>3, <4>4, AheadParts
    <3> QED BY <3>1, <3>2, <3>3, <3>4, <3>5 DEF Reads, Results
  <2> QED BY <2>1
<1> HIDE DEF P
<1>2. Len(b) \in P
  <2>1. Nat \subseteq P
    BY <1>1, AllSmaller
  <2> QED BY <2>1, LenProperties
<1> QED BY <1>2 DEF P

\* Bytes that end every frame: a line end, more bytes than any bulk string before them
\* can claim, none of them its line end, and the end of an inline line.
Filler(m) == [i \in 1..(m + 3) |-> CASE i = 1 -> "CR" [] i = 2 \/ i = m + 3 -> "LF" [] OTHER -> "+"]

\* A part of a buffer with a filler behind it.
Filled(x, m) ==
    \A i \in 1..Len(x) :
        /\ i = Len(x) => x[i] = "LF"
        /\ i < Len(x) /\ i >= Len(x) - m => x[i] = "+"
        /\ i = Len(x) - m - 1 => x[i] = "LF"
        /\ i = Len(x) - m - 2 => x[i] = "CR"
        /\ i < Len(x) - m - 2 /\ x[i] \in DOMAIN Number => Number[x[i]] <= m - 2

\* The suffixes of a part are parts.
LEMMA FilledSuffix ==
    ASSUME NEW x \in Seq(Byte), NEW m \in Nat \ {0}, Filled(x, m), NEW n \in 1..(Len(x) + 1)
    PROVE  Suffix(x, n) \in Seq(Byte) /\ Filled(Suffix(x, n), m)
<1> DEFINE s == Suffix(x, n)
           l == Len(x)
<1>1. l \in Nat
  BY LenProperties
<1>2. s \in Seq(Byte) /\ Len(s) = l - n + 1 /\ \A i \in 1..(l - n + 1) : s[i] = x[n + i - 1]
  BY SuffixProperties
<1>3. \A i \in 1..l :
        /\ i = l => x[i] = "LF"
        /\ i < l /\ i >= l - m => x[i] = "+"
        /\ i = l - m - 1 => x[i] = "LF"
        /\ i = l - m - 2 => x[i] = "CR"
        /\ i < l - m - 2 /\ x[i] \in DOMAIN Number => Number[x[i]] <= m - 2
  BY DEF Filled
<1>4. n \in 1..(l + 1)
  OBVIOUS
<1> HIDE DEF s, l
<1>5. ASSUME NEW i \in 1..Len(s)
      PROVE  /\ i = Len(s) => s[i] = "LF"
             /\ i < Len(s) /\ i >= Len(s) - m => s[i] = "+"
             /\ i = Len(s) - m - 1 => s[i] = "LF"
             /\ i = Len(s) - m - 2 => s[i] = "CR"
             /\ i < Len(s) - m - 2 /\ s[i] \in DOMAIN Number => Number[s[i]] <= m - 2
  <2> DEFINE j == n + i - 1
  <2>1. j \in 1..l /\ s[i] = x[j]
    BY <1>1, <1>2, <1>4
  <2>2. /\ i = Len(s) => j = l
        /\ i < Len(s) => j < l
        /\ i >= Len(s) - m => j >= l - m
        /\ i = Len(s) - m - 1 => j = l - m - 1
        /\ i = Len(s) - m - 2 => j = l - m - 2
        /\ i < Len(s) - m - 2 => j < l - m - 2
    BY <1>1, <1>2, <1>4
  <2> HIDE DEF j
  <2> QED BY <1>3, <2>1, <2>2
<1> QED BY <1>2, <1>5 DEF Filled, s

\* What stands where.
LEMMA FilledPlaces ==
    ASSUME NEW x \in Seq(Byte), x # <<>>, NEW m \in Nat \ {0}, Filled(x, m)
    PROVE  /\ Len(x) \in Nat \ {0} /\ x[Len(x)] = "LF"
           /\ Len(x) # 1 => ~EndsLine(x, Len(x) - 1)
           /\ \A i \in 1..Len(x) : x[i] \in ArrayHeads \cup BulkHeads =>
                /\ i < Len(x) - m - 2 /\ EndsLine(x, Len(x) - m - 2)
                /\ x[i] \in DOMAIN Number => Number[x[i]] <= m - 2
<1> DEFINE l == Len(x)
<1>1. l \in Nat \ {0}
  BY EmptySeq, LenProperties
<1>2. \A i \in 1..l :
        /\ i = l => x[i] = "LF"
        /\ i < l /\ i >= l - m => x[i] = "+"
        /\ i = l - m - 1 => x[i] = "LF"
        /\ i = l - m - 2 => x[i] = "CR"
        /\ i < l - m - 2 /\ x[i] \in DOMAIN Number => Number[x[i]] <= m - 2
  BY DEF Filled
<1>3. \A i \in 1..l : x[i] \in ArrayHeads \cup BulkHeads => x[i] \notin {"LF", "CR", "+"}
  BY Numbers DEF Plain
<1> HIDE DEF l
<1>4. x[l] = "LF"
  BY <1>1, <1>2
<1>5. ASSUME NEW i \in 1..l, x[i] \in ArrayHeads \cup BulkHeads
      PROVE  /\ i < l - m - 2 /\ EndsLine(x, l - m - 2)
             /\ x[i] \in DOMAIN Number => Number[x[i]] <= m - 2
  <2>1. x[i] # "LF" /\ x[i] # "CR" /\ x[i] # "+"
    BY <1>3, <1>5
  <2>2. i # l /\ ~(i < l /\ i >= l - m) /\ i # l - m - 1 /\ i # l - m - 2
    BY <2>1, <1>2
  <2>3. i < l - m - 2
    BY <2>2, <1>1
  <2>4. /\ l - m - 2 \in 1..l /\ l - m - 1 \in 1..l
        /\ (l - m - 2) + 1 = l - m - 1
    BY <2>3, <1>1
  <2>5. x[l - m - 2] = "CR" /\ x[l - m - 1] = "LF"
    BY <2>4, <1>2
  <2> QED BY <2>3, <2>4, <2>5, <1>2 DEF EndsLine
<1>6. ASSUME l # 1
      PROVE  ~EndsLine(x, l - 1)
  <2>1. l - 1 \in 1..l /\ l - 1 < l /\ l - 1 >= l - m
    BY <1>1, <1>6
  <2>2. x[l - 1] = "+"
    BY <2>1, <1>2
  <2> QED BY <2>2 DEF EndsLine
<1> QED BY <1>1, <1>4, <1>5, <1>6 DEF l

\* Of a bulk string behind a line end, with a filler behind it, all is there.
LEMMA FilledBulk ==
    ASSUME NEW x \in Seq(Byte), x # <<>>, NEW m \in Nat \ {0}, Filled(x, m),
           NEW at \in 3..(Len(x) + 1), EndsLine(x, at - 2)
    PROVE  /\ Bulk(x, at).result # "INCOMPLETE"
           /\ Bulk(x, at).result = "SUCCESS" => EndsLine(x, Bulk(x, at).next - 2)
<1> DEFINE l == Len(x)
           crlf == FindCrLf(x, at)
           str == crlf + 2
           end == str + Number[x[at]]
           p == l - m - 2
<1>1. l \in Nat \ {0} /\ (l # 1 => ~EndsLine(x, l - 1))
  BY FilledPlaces
<1>2. at \in 3..l
  <2>1. CASE at = l + 1
    <3>0. at \in 3..(l + 1)
      OBVIOUS
    <3> HIDE DEF l
    <3>1. at - 2 = l - 1 /\ l # 1
      BY <2>1, <1>1, <3>0
    <3> QED BY <3>1, <1>1
  <2> QED BY <2>1, <1>1
<1>3. \A i \in 1..l : x[i] \in BulkHeads =>
        /\ i < l - m - 2 /\ EndsLine(x, p)
        /\ x[i] \in DOMAIN Number => Number[x[i]] <= m - 2
  BY FilledPlaces
<1>4. at \in 1..l /\ ~(at > l)
  BY <1>1, <1>2
<1>5. CASE x[at] \notin BulkHeads
  <2>1. Bulk(x, at) = ProtocolError
    BY <1>4, <1>5 DEF Bulk
  <2> QED BY <2>1 DEF ProtocolError
<1>6. CASE x[at] \in BulkHeads
  <2>1. at < p /\ EndsLine(x, p) /\ (x[at] \in DOMAIN Number => Number[x[at]] <= m - 2)
    BY <1>3, <1>4, <1>6
  <2>2. p \in at..(l - 1)
    BY <1>1, <1>4, <2>1
  <2>3. crlf # 0 /\ crlf \in at..p /\ EndsLine(x, crlf)
    <3>1. at \in Nat \ {0} /\ l \in Nat /\ p \in Nat
      BY <1>1, <1>4, <2>2
    <3> HIDE DEF p
    <3>2. /\ crlf = 0 => \A i \in at..(l - 1) : ~EndsLine(x, i)
          /\ crlf # 0 => /\ crlf \in at..(l - 1)
                         /\ EndsLine(x, crlf)
                         /\ \A i \in at..(crlf - 1) : ~EndsLine(x, i)
      BY <3>1, FindCrLfProperties
    <3> HIDE DEF crlf, l
    <3>3. crlf # 0
      BY <2>1, <2>2, <3>2
    <3>4. ~(p < crlf)
      <4>1. p < crlf => p \in at..(crlf - 1)
        BY <2>2, <3>1, <3>2, <3>3
      <4> QED BY <4>1, <2>1, <3>2, <3>3
    <3> QED BY <3>1, <3>2, <3>3, <3>4
  <2> HIDE DEF crlf
  <2>4. CASE x[at] \notin DOMAIN Number
    <3>1. Bulk(x, at) = ProtocolError
      BY <1>4, <1>6, <2>3, <2>4 DEF Bulk, crlf
    <3> QED BY <3>1 DEF ProtocolError
  <2>5. CASE x[at] \in DOMAIN Number /\ Number[x[at]] < 0
    <3>1. Bulk(x, at) = Success(<<>>, str)
      BY <1>4, <1>6, <2>3, <2>5 DEF Bulk, crlf
    <3>2. str - 2 = crlf
      BY <1>1, <1>4, <2>3
    <3> HIDE DEF str
    <3> QED BY <2>3, <3>1, <3>2 DEF Success
  <2>6. CASE x[at] \in DOMAIN Number /\ ~(Number[x[at]] < 0)
    <3> DEFINE n == Number[x[at]]
    <3>1. n \in Nat /\ n <= m - 2
      BY <2>1, <2>6, Numbers
    <3>2. end \in Nat \ {0} /\ end + 1 \in 1..l /\ end \in 1..l /\ ~(end + 1 > l)
      <4> HIDE DEF n
      <4>1. crlf \in Nat \ {0} /\ crlf <= l - m - 2 /\ l \in Nat /\ m \in Nat
        BY <1>1, <1>4, <2>2, <2>3
      <4> HIDE DEF crlf, l
      <4>2. (crlf + 2) + n \in Nat \ {0} /\ ((crlf + 2) + n) + 1 <= l
        BY <4>1, <3>1
      <4>3. end = (crlf + 2) + n
        BY DEF n
      <4> HIDE DEF end
      <4> QED BY <4>1, <4>2, <4>3
    <3> HIDE DEF str, end
    <3>3. CASE SubSeq(x, end, end + 1) # CrLf
      <4>1. Bulk(x, at) = ProtocolError
        BY <1>4, <1>6, <2>3, <2>6, <3>2, <3>3 DEF Bulk, crlf, str, end
      <4> QED BY <4>1 DEF ProtocolError
    <3>4. CASE SubSeq(x, end, end + 1) = CrLf
      <4>1. Bulk(x, at) = Success(SubSeq(x, str, end - 1), end + 2)
        BY <1>4, <1>6, <2>3, <2>6, <3>2, <3>4 DEF Bulk, crlf, str, end
      <4> DEFINE w == SubSeq(x, end, end + 1)
      <4>2. \A i \in end..(end + 1) : x[i] \in Byte
        <5>1. \A i \in end..(end + 1) : i \in 1..Len(x)
          BY <1>1, <3>2
        <5> QED BY <5>1, ElementOfSeq
      <4>3. \A i \in 1..((end + 1) - end + 1) : w[i] = x[end + i - 1]
        BY <3>2, <4>2, SubSeqProperties
      <4>0. w = CrLf
        BY <3>4
      <4> HIDE DEF w
      <4>4. w[1] = x[end] /\ w[2] = x[end + 1]
        <5>1. /\ 1 \in 1..((end + 1) - end + 1) /\ 2 \in 1..((end + 1) - end + 1)
              /\ end + 1 - 1 = end /\ end + 2 - 1 = end + 1
          BY <3>2
        <5> QED BY <5>1, <4>3
      <4>5. w[1] = "CR" /\ w[2] = "LF"
        BY <4>0 DEF CrLf
      <4>6. EndsLine(x, end) /\ (end + 2) - 2 = end
        BY <3>2, <4>4, <4>5 DEF EndsLine
      <4> QED BY <4>1, <4>6 DEF Success
    <3> QED BY <3>3, <3>4
  <2> QED BY <2>4, <2>5, <2>6
<1> QED BY <1>5, <1>6

\* So of an array.
LEMMA FilledBulks ==
    ASSUME NEW x \in Seq(Byte), x # <<>>, NEW m \in Nat \ {0}, Filled(x, m),
           NEW at \in 3..(Len(x) + 1), EndsLine(x, at - 2), NEW n \in Nat
    PROVE  Bulks(x, at, n).result # "INCOMPLETE"
<1>0. Len(x) \in Nat /\ at \in 1..(Len(x) + 1)
  BY LenProperties
<1>1. PICK f : ReadsBulks(f, x, at, n) /\ Bulks(x, at, n) = f[n]
  BY <1>0, BulksRun
<1>2. /\ f \in [0..n -> Reading(x)] /\ f[0] = Success(<<>>, at)
      /\ \A i \in 1..n : f[i] = OneMore(x, f[i - 1])
  BY <1>1 DEF ReadsBulks
<1>3. \A i \in 1..n : f[i - 1] \in Reading(x)
  BY <1>2
<1>4. \A i \in 1..n : OneMoreLaw(x, f[i - 1])
                      /\ (f[i - 1].result = "SUCCESS" => BulkLaw(x, f[i - 1].next))
  BY <1>3, OneMoreCases
<1> DEFINE X == {s \in Reading(x) :
                   /\ s.result # "INCOMPLETE"
                   /\ s.result = "SUCCESS" =>
                        s.next \in 3..(Len(x) + 1) /\ EndsLine(x, s.next - 2)}
<1>5. f[0] \in X
  <2>1. f[0] \in Reading(x) /\ f[0].result = "SUCCESS" /\ f[0].next = at
    BY <1>2 DEF Success
  <2> QED BY <2>1
<1>6. ASSUME NEW i \in 1..n, f[i - 1] \in X
      PROVE  f[i] \in X
  <2> DEFINE s == f[i - 1]
             bulk == Bulk(x, s.next)
  <2>1. f[i] = OneMore(x, s) /\ f[i] \in Reading(x) /\ OneMoreLaw(x, s)
    BY <1>2, <1>4
  <2>2. CASE s.result # "SUCCESS"
    BY <2>1, <2>2, <1>6 DEF OneMoreLaw
  <2>3. CASE s.result = "SUCCESS"
    <3>1. s.next \in 3..(Len(x) + 1) /\ EndsLine(x, s.next - 2) /\ BulkLaw(x, s.next)
      BY <1>4, <1>6, <2>3
    <3>2. /\ bulk.result # "INCOMPLETE"
          /\ bulk.result = "SUCCESS" => EndsLine(x, bulk.next - 2)
      BY <3>1, FilledBulk
    <3>3. bulk.result \in Results
          /\ (bulk.result = "SUCCESS" => bulk.next \in (s.next + 1)..(Len(x) + 1))
      BY <3>1 DEF BulkLaw
    <3>4. CASE bulk.result = "PROTOCOL_ERROR"
      <4>1. f[i] = ProtocolError
        BY <2>1, <2>3, <3>4 DEF OneMoreLaw
      <4> QED BY <4>1, <2>1 DEF ProtocolError
    <3>5. CASE bulk.result = "SUCCESS"
      <4>1. f[i] = Success(Append(s.item, bulk.item), bulk.next)
        BY <2>1, <2>3, <3>5 DEF OneMoreLaw
      <4>2. bulk.next \in 3..(Len(x) + 1)
        BY <3>1, <3>3, <3>5, <1>0
      <4>3. f[i].result = "SUCCESS" /\ f[i].next = bulk.next
        BY <4>1 DEF Success
      <4> QED BY <2>1, <3>2, <3>5, <4>2, <4>3
    <3> HIDE DEF bulk
    <3> QED BY <3>2, <3>3, <3>4, <3>5 DEF Results
  <2> QED BY <2>2, <2>3
<1> HIDE DEF X
<1>7. f[n] \in X
  <2>1. \A i \in 0..n : f[i] \in X
    BY <1>5, <1>6, RunStays
  <2> QED BY <2>1
<1> QED BY <1>1, <1>7 DEF X

\* And of any frame.
LEMMA FilledFound ==
    ASSUME NEW x \in Seq(Byte), x # <<>>, NEW m \in Nat \ {0}, Filled(x, m)
    PROVE  CommandAt[x].result # "INCOMPLETE"
<1> DEFINE l == Len(x)
           crlf == FindCrLf(x, 1)
           p == l - m - 2
<1>1. CommandAt[x] = IF x[1] \in ArrayHeads THEN ParseArray(x) ELSE ParseInline(x)
  BY DEF CommandAt, ParseSingleCommand
<1>2. /\ l \in Nat \ {0} /\ x[l] = "LF"
      /\ \A i \in 1..l : x[i] \in ArrayHeads => i < p /\ EndsLine(x, p)
  BY FilledPlaces
<1>3. CASE x[1] \notin ArrayHeads
  <2> DEFINE lfs == {i \in 1..l : x[i] = "LF"}
             lf == First(lfs)
             e == IF lf > 1 /\ x[lf - 1] = "CR" THEN lf - 2 ELSE lf - 1
  <2>1. l \in lfs /\ lfs \subseteq Nat \ {0}
    BY <1>2
  <2>2. lf \in Nat \ {0}
    <3> HIDE DEF lfs
    <3>1. lf \in lfs
      BY <2>1, FirstProperties
    <3> QED BY <3>1, <2>1
  <2>3. ParseInline(x) = IF lf = 0 THEN Incomplete ELSE Success(InlineWords(SubSeq(x, 1, e)), lf + 1)
    BY DEF ParseInline
  <2> HIDE DEF lf, e
  <2>4. ParseInline(x).result = "SUCCESS"
    BY <2>2, <2>3 DEF Success
  <2> QED BY <1>1, <1>3, <2>4
<1>4. CASE x[1] \in ArrayHeads
  <2>1. 1 \in 1..l
    BY <1>2
  <2>2. 1 < p /\ EndsLine(x, p)
    BY <1>2, <1>4, <2>1
  <2>3. p \in 1..(l - 1)
    BY <1>2, <2>2
  <2>4. crlf # 0 /\ crlf \in 1..(l - 1) /\ EndsLine(x, crlf)
    BY <2>2, <2>3, FindCrLfProperties
  <2> HIDE DEF crlf, p
  <2>5. CASE x[1] \notin DOMAIN Number
    <3>1. ParseArray(x) = ProtocolError
      BY <2>4, <2>5 DEF ParseArray, crlf
    <3> QED BY <1>1, <1>4, <3>1 DEF ProtocolError
  <2>6. CASE x[1] \in DOMAIN Number /\ Number[x[1]] < 0
    <3>1. ParseArray(x) = Success(<<>>, crlf + 2)
      BY <2>4, <2>6 DEF ParseArray, crlf
    <3> QED BY <1>1, <1>4, <3>1 DEF Success
  <2>7. CASE x[1] \in DOMAIN Number /\ ~(Number[x[1]] < 0)
    <3> DEFINE n == Number[x[1]]
               at == crlf + 2
    <3>1. ParseArray(x) = Bulks(x, at, n)
      BY <2>4, <2>7 DEF ParseArray, crlf
    <3>2. n \in Nat
      BY <2>7, Numbers
    <3>3. at \in 3..(Len(x) + 1) /\ at - 2 = crlf
      BY <1>2, <2>4
    <3> HIDE DEF n, at
    <3>4. Bulks(x, at, n).result # "INCOMPLETE"
      BY <2>4, <3>2, <3>3, FilledBulks
    <3> QED BY <1>1, <1>4, <3>1, <3>4
  <2> QED BY <2>5, <2>6, <2>7
<1> QED BY <1>3, <1>4

\* The numbers in a buffer have a bound.
LEMMA NumbersBounded ==
    ASSUME NEW b \in Seq(Byte)
    PROVE  \E m \in Nat \ {0} : \A i \in 1..Len(b) :
             b[i] \in DOMAIN Number => Number[b[i]] <= m - 2
<1> DEFINE Bounds(m, n) == \A i \in 1..n : b[i] \in DOMAIN Number => Number[b[i]] <= m - 2
           P == {n \in 0..Len(b) : \E m \in Nat \ {0} : Bounds(m, n)}
<1>1. Len(b) \in Nat
  BY LenProperties
<1>2. 0 \in P
  <2>1. Bounds(1, 0)
    OBVIOUS
  <2> HIDE DEF Bounds
  <2> QED BY <2>1, <1>1
<1>3. ASSUME NEW n \in 0..(Len(b) - 1), n \in P
      PROVE  n + 1 \in P
  <2>1. PICK m \in Nat \ {0} : Bounds(m, n)
    BY <1>3
  <2> DEFINE k == Number[b[n + 1]]
  <2>2. PICK r \in Nat \ {0} : m <= r /\ (b[n + 1] \in DOMAIN Number => k <= r - 2)
    <3>1. CASE b[n + 1] \in DOMAIN Number /\ k > m - 2
      <4>1. k \in Int
        BY <3>1, Numbers
      <4> HIDE DEF k
      <4>2. k + 2 \in Nat \ {0} /\ m <= k + 2 /\ k <= (k + 2) - 2
        BY <4>1, <3>1
      <4> QED BY <4>2
    <3>2. CASE b[n + 1] \in DOMAIN Number /\ ~(k > m - 2)
      <4>1. k \in Int
        BY <3>2, Numbers
      <4> HIDE DEF k
      <4>2. m <= m /\ k <= m - 2
        BY <4>1, <3>2
      <4> QED BY <4>2
    <3>3. CASE b[n + 1] \notin DOMAIN Number
      <4>1. m <= m
        OBVIOUS
      <4> QED BY <3>3, <4>1
    <3> QED BY <3>1, <3>2, <3>3
  <2>3. ASSUME NEW i \in 1..(n + 1), b[i] \in DOMAIN Number
        PROVE  Number[b[i]] <= r - 2
    <3>1. CASE i = n + 1
      BY <3>1, <2>2, <2>3
    <3>2. CASE i # n + 1
      <4>1. i \in 1..n
        BY <3>2, <1>1
      <4>2. Number[b[i]] \in Int /\ Number[b[i]] <= m - 2
        BY <4>1, <2>1, <2>3, Numbers
      <4> QED BY <4>2, <2>2
    <3> QED BY <3>1, <3>2
  <2>4. Bounds(r, n + 1)
    BY <2>3
  <2>5. n + 1 \in 0..Len(b)
    BY <1>1
  <2> HIDE DEF Bounds
  <2> QED BY <2>4, <2>5
<1>4. Len(b) \in P
  <2> HIDE DEF P
  <2>1. 0..Len(b) \subseteq P
    BY <1>1, <1>2, <1>3, UpTo
  <2> QED BY <2>1, <1>1
<1> QED BY <1>4

\* A buffer with a filler behind it.
LEMMA FilledUp ==
    ASSUME NEW b \in Seq(Byte), NEW m \in Nat \ {0},
           \A i \in 1..Len(b) : b[i] \in DOMAIN Number => Number[b[i]] <= m - 2
    PROVE  /\ Filler(m) \in Seq(Byte) /\ Filler(m) # <<>>
           /\ b \o Filler(m) \in Seq(Byte) /\ Filled(b \o Filler(m), m)
<1> DEFINE c == Filler(m)
           x == b \o c
           l == Len(b)
<1>0. \A s, e \in Seq(Byte) : /\ s \o e \in Seq(Byte) /\ Len(s \o e) = Len(s) + Len(e)
                              /\ \A i \in 1..Len(s) : (s \o e)[i] = s[i]
                              /\ \A i \in 1..Len(e) : (s \o e)[Len(s) + i] = e[i]
  BY EndsWith
<1>1. l \in Nat /\ m + 3 \in Nat
  BY LenProperties
<1>2. c \in [1..(m + 3) -> Byte]
  <2>1. "CR" \in Byte /\ "LF" \in Byte /\ "+" \in Byte
    BY ByteAssumption DEF Plain
  <2> QED BY <2>1 DEF Filler
<1>3. /\ \A i \in 1..(m + 3) : /\ i = 1 => c[i] = "CR"
                               /\ i = 2 => c[i] = "LF"
                               /\ i = m + 3 => c[i] = "LF"
                               /\ i > 2 /\ i < m + 3 => c[i] = "+"
  BY DEF Filler
<1> HIDE DEF c
<1>4. c \in Seq(Byte) /\ Len(c) = m + 3
  BY <1>1, <1>2, FunctionIsSeq
<1>5. /\ x \in Seq(Byte) /\ Len(x) = l + (m + 3)
      /\ (\A i \in 1..l : x[i] = b[i]) /\ \A i \in 1..(m + 3) : x[l + i] = c[i]
  <2>1. /\ x \in Seq(Byte) /\ Len(x) = Len(b) + Len(c)
        /\ \A i \in 1..Len(b) : x[i] = b[i]
        /\ \A i \in 1..Len(c) : x[Len(b) + i] = c[i]
    BY <1>0, <1>4
  <2> HIDE DEF x
  <2> QED BY <2>1, <1>4
<1> HIDE DEF x, l
<1>6. ASSUME NEW i \in 1..Len(x)
      PROVE  /\ i = Len(x) => x[i] = "LF"
             /\ i < Len(x) /\ i >= Len(x) - m => x[i] = "+"
             /\ i = Len(x) - m - 1 => x[i] = "LF"
             /\ i = Len(x) - m - 2 => x[i] = "CR"
             /\ i < Len(x) - m - 2 /\ x[i] \in DOMAIN Number => Number[x[i]] <= m - 2
  <2>1. CASE i \in 1..l
    <3>1. ~(i = Len(x)) /\ ~(i >= Len(x) - m) /\ ~(i = Len(x) - m - 1) /\ ~(i = Len(x) - m - 2)
      BY <2>1, <1>1, <1>5
    <3>2. x[i] = b[i]
      BY <2>1, <1>5
    <3>3. b[i] \in DOMAIN Number => Number[b[i]] <= m - 2
      BY <2>1 DEF l
    <3> QED BY <3>1, <3>2, <3>3
  <2>2. CASE i \notin 1..l
    <3> DEFINE j == i - l
    <3>1. j \in 1..(m + 3) /\ l + j = i
      BY <2>2, <1>1, <1>5
    <3>2. x[i] = c[j]
      BY <3>1, <1>5
    <3>3. /\ i = Len(x) => j = m + 3
          /\ i < Len(x) /\ i >= Len(x) - m => j > 2 /\ j < m + 3
          /\ i = Len(x) - m - 1 => j = 2
          /\ i = Len(x) - m - 2 => j = 1
          /\ ~(i < Len(x) - m - 2)
      BY <3>1, <1>1, <1>5
    <3> HIDE DEF j
    <3> QED BY <3>1, <3>2, <3>3, <1>3
  <2> QED BY <2>1, <2>2
<1>7. Filled(x, m)
  BY <1>6 DEF Filled
<1>8. c # <<>>
  BY <1>1, <1>4, EmptySeq
<1> QED BY <1>4, <1>5, <1>7, <1>8 DEF x, c

\* Whatever a client has sent, there is something to send that ends it: the parser is
\* done with all of it, in an error or not (parse_single_command() of resp.cpp).
THEOREM EveryBufferEnds ==
    ASSUME NEW b \in Seq(Byte)
    PROVE  \E c \in Seq(Byte) : c # <<>> /\ Parse(b \o c).rest = <<>>
<1>1. PICK m \in Nat \ {0} : \A i \in 1..Len(b) : b[i] \in DOMAIN Number => Number[b[i]] <= m - 2
  BY NumbersBounded
<1> DEFINE c == Filler(m)
           d == b \o c
           r == Drain(CommandAt, d).rest
           G == {x \in Seq(Byte) : Filled(x, m)}
<1>2. c \in Seq(Byte) /\ c # <<>> /\ d \in Seq(Byte) /\ Filled(d, m)
  BY <1>1, FilledUp
<1> HIDE DEF c, d
<1>3. r \in G
  <2>1. d \in G /\ G \subseteq Seq(Byte)
    BY <1>2
  <2>2. <<>> \in G
    <3> DEFINE e == <<>>
    <3>1. e \in Seq(Byte) /\ Len(e) = 0
      BY EmptySeq
    <3> HIDE DEF e
    <3>2. Filled(e, m)
      BY <3>1 DEF Filled
    <3>3. e \in G
      BY <3>1, <3>2
    <3> QED BY <3>3 DEF e
  <2>3. \A x \in G : \A n \in 1..(Len(x) + 1) : Suffix(x, n) \in G
    BY FilledSuffix
  <2> HIDE DEF G
  <2> QED BY <2>1, <2>2, <2>3, CommandAtReads, DrainWithin
<1>4. r # <<>> => CommandAt[r].result = "INCOMPLETE"
  <2>1. <<>> \in Seq(Byte)
    BY EmptySeq
  <2>2. Resumes(CommandAt, d, <<>>)
    BY <1>2, <2>1, CommandAtReads, DrainResumes
  <2>3. Drain(CommandAt, d).result \in Results
    BY <1>2, CommandAtReads, DrainType
  <2> QED BY <2>2, <2>3 DEF Resumes, Results
<1> HIDE DEF r
<1>5. r = <<>>
  BY <1>3, <1>4, FilledFound
<1> QED BY <1>2, <1>5 DEF r, d, Parse

\* A client may send any bytes.
AnyBytes == \A c \in Seq(Byte) : c # <<>> => \E f \in Frames : f.bytes = c

\* No buffer is stuck for good: some end of a frame ends it (parse() of resp.cpp).
THEOREM NoLockupKept ==
    ASSUME AnyBytes
    PROVE  Spec => []NoLockup
<1>1. Typed => NoLockup
  <2> SUFFICES ASSUME Typed
               PROVE  NoLockup
    OBVIOUS
  <2>1. input_buffer \in Seq(Byte)
    BY DEF Typed
  <2>2. PICK c \in Seq(Byte) : c # <<>> /\ Parse(input_buffer \o c).rest = <<>>
    BY <2>1, EveryBufferEnds
  <2>3. PICK f \in Frames : f.bytes = c
    BY <2>2 DEF AnyBytes
  <2>4. 1 \in 1..Len(c) /\ SubSeq(c, 1, Len(c)) = c
    BY <2>2, EmptySeq, LenProperties, SubSeqFull
  <2> QED BY <2>2, <2>3, <2>4 DEF NoLockup
<1> QED BY <1>1, TypesKept, PTL

-----------------------------------------------------------------------------
(* What a client writes, the parser reads. *)

\* The bytes of a bulk string.
BulkShape(s, v) ==
    LET n == Len(v)
    IN  /\ s \in Seq(Byte) /\ Len(s) = n + 5
        /\ s[1] \in BulkHeads \cap DOMAIN Number /\ Number[s[1]] = n
        /\ s[2] = "CR" /\ s[3] = "LF" /\ s[n + 4] = "CR" /\ s[n + 5] = "LF"
        /\ \A i \in 1..n : s[i + 3] = v[i]

\* serialize_bulk_string() writes them.
LEMMA BulkStringShape ==
    ASSUME Lengths(BulkHeads), NEW v \in Seq(Byte)
    PROVE  BulkShape(BulkString(v), v)
<1>90. \A s, e \in Seq(Byte) : /\ s \o e \in Seq(Byte) /\ Len(s \o e) = Len(s) + Len(e)
                               /\ \A i \in 1..Len(s) : (s \o e)[i] = s[i]
                               /\ \A i \in 1..Len(e) : (s \o e)[Len(s) + i] = e[i]
  BY EndsWith
<1> DEFINE n == Len(v)
           h == HeadFor(BulkHeads, n)
           o == <<h>>
           a == o \o CrLf
           c == a \o v
           b == c \o CrLf
<1>1. n \in Nat
  BY LenProperties
<1>2. h \in BulkHeads \cap DOMAIN Number /\ Number[h] = n
  BY <1>1, HeadIs
<1>3. o \in Seq(Byte) /\ Len(o) = 1 /\ o[1] = h
  <2> HIDE DEF h
  <2>1. h \in Byte
    BY <1>2, Numbers
  <2> QED BY <2>1
<1>4. CrLf \in Seq(Byte) /\ Len(CrLf) = 2 /\ CrLf[1] = "CR" /\ CrLf[2] = "LF"
  <2>1. "CR" \in Byte /\ "LF" \in Byte
    BY ByteAssumption DEF Plain
  <2> QED BY <2>1 DEF CrLf
<1>0. b = BulkString(v)
  BY DEF BulkString
<1> HIDE DEF o, n, h
<1>5. /\ a \in Seq(Byte) /\ Len(a) = 3 /\ a[1] = h /\ a[2] = "CR" /\ a[3] = "LF"
  <2>1. /\ a \in Seq(Byte) /\ Len(a) = Len(o) + Len(CrLf)
        /\ \A i \in 1..Len(o) : a[i] = o[i]
        /\ \A i \in 1..Len(CrLf) : a[Len(o) + i] = CrLf[i]
    BY <1>3, <1>4, <1>90
  <2> HIDE DEF a
  <2>2. a[1] = o[1] /\ a[1 + 1] = CrLf[1] /\ a[1 + 2] = CrLf[2]
    BY <1>3, <1>4, <2>1
  <2> QED BY <1>3, <1>4, <2>1, <2>2
<1> HIDE DEF a
<1>6. /\ c \in Seq(Byte) /\ Len(c) = 3 + n /\ c[1] = h /\ c[2] = "CR" /\ c[3] = "LF"
      /\ \A i \in 1..n : c[3 + i] = v[i]
  <2>1. /\ c \in Seq(Byte) /\ Len(c) = Len(a) + Len(v)
        /\ \A i \in 1..Len(a) : c[i] = a[i]
        /\ \A i \in 1..Len(v) : c[Len(a) + i] = v[i]
    BY <1>5, <1>90
  <2>2. 1 \in 1..3 /\ 2 \in 1..3 /\ 3 \in 1..3 /\ Len(v) = n
    BY DEF n
  <2> HIDE DEF c
  <2> QED BY <1>5, <2>1, <2>2
<1> HIDE DEF c
<1>7. /\ b \in Seq(Byte) /\ Len(b) = (3 + n) + 2
      /\ \A i \in 1..(3 + n) : b[i] = c[i]
      /\ b[(3 + n) + 1] = "CR" /\ b[(3 + n) + 2] = "LF"
  <2>1. /\ b \in Seq(Byte) /\ Len(b) = Len(c) + Len(CrLf)
        /\ \A i \in 1..Len(c) : b[i] = c[i]
        /\ \A i \in 1..Len(CrLf) : b[Len(c) + i] = CrLf[i]
    BY <1>4, <1>6, <1>90
  <2> HIDE DEF b
  <2>2. b[(3 + n) + 1] = CrLf[1] /\ b[(3 + n) + 2] = CrLf[2]
    BY <1>4, <1>6, <2>1
  <2> QED BY <1>4, <1>6, <2>1, <2>2
<1> HIDE DEF b
<1>8. b[1] = h /\ b[2] = "CR" /\ b[3] = "LF" /\ \A i \in 1..n : b[3 + i] = v[i]
  <2>1. 1 \in 1..(3 + n) /\ 2 \in 1..(3 + n) /\ 3 \in 1..(3 + n)
        /\ \A i \in 1..n : 3 + i \in 1..(3 + n)
    BY <1>1
  <2> QED BY <2>1, <1>6, <1>7
<1>9. (3 + n) + 1 = n + 4 /\ (3 + n) + 2 = n + 5 /\ \A i \in 1..n : 3 + i = i + 3
  BY <1>1
<1>10. BulkShape(b, v)
  BY <1>2, <1>7, <1>8, <1>9 DEF BulkShape, n
<1> QED BY <1>0, <1>10

\* A bulk string behind other bytes is read where it begins, byte for byte, to its end.
LEMMA BulkBehind ==
    ASSUME NEW a \in Seq(Byte), NEW v \in Seq(Byte), NEW s, BulkShape(s, v)
    PROVE  /\ a \o s \in Seq(Byte) /\ Len(a \o s) = Len(a) + Len(v) + 5
           /\ Bulk(a \o s, Len(a) + 1) = Success(v, Len(a \o s) + 1)
<1>90. \A t, e \in Seq(Byte) : /\ t \o e \in Seq(Byte) /\ Len(t \o e) = Len(t) + Len(e)
                               /\ \A i \in 1..Len(e) : (t \o e)[Len(t) + i] = e[i]
  BY EndsWith
<1> DEFINE m == Len(a)
           n == Len(v)
           d == a \o s
           at == m + 1
<1>1. m \in Nat /\ n \in Nat
  BY LenProperties
<1>2. /\ s \in Seq(Byte) /\ Len(s) = n + 5
      /\ s[1] \in BulkHeads \cap DOMAIN Number /\ Number[s[1]] = n
      /\ s[2] = "CR" /\ s[3] = "LF" /\ s[n + 4] = "CR" /\ s[n + 5] = "LF"
      /\ \A i \in 1..n : s[i + 3] = v[i]
  BY DEF BulkShape
<1>3. /\ d \in Seq(Byte) /\ Len(d) = m + (n + 5) /\ \A i \in 1..(n + 5) : d[m + i] = s[i]
  <2>1. /\ d \in Seq(Byte) /\ Len(d) = m + Len(s) /\ \A i \in 1..Len(s) : d[m + i] = s[i]
    BY <1>2, <1>90
  <2> HIDE DEF d, m, n
  <2> QED BY <1>2, <2>1
<1> HIDE DEF d, m, n
<1>4. /\ d[m + 1] = s[1] /\ d[m + 2] = "CR" /\ d[m + 3] = "LF"
      /\ d[m + (n + 4)] = "CR" /\ d[m + (n + 5)] = "LF"
      /\ \A i \in 1..n : d[m + (i + 3)] = v[i]
  <2>1. /\ 1 \in 1..(n + 5) /\ 2 \in 1..(n + 5) /\ 3 \in 1..(n + 5)
        /\ n + 4 \in 1..(n + 5) /\ n + 5 \in 1..(n + 5)
        /\ \A i \in 1..n : i + 3 \in 1..(n + 5)
    BY <1>1
  <2> QED BY <2>1, <1>2, <1>3
<1>5. FindCrLf(d, at) = m + 2
  <2>1. /\ at \in Nat \ {0} /\ m + 2 \in at..(Len(d) - 1) /\ (m + 2) + 1 = m + 3
        /\ \A i \in at..((m + 2) - 1) : i = m + 1
    BY <1>1, <1>3
  <2>2. EndsLine(d, m + 2)
    BY <2>1, <1>4 DEF EndsLine
  <2>3. d[m + 1] # "CR"
    BY <1>2, <1>4, Numbers DEF Plain
  <2>4. \A i \in at..((m + 2) - 1) : ~EndsLine(d, i)
    BY <2>1, <2>3 DEF EndsLine
  <2> HIDE DEF at
  <2> QED BY <1>3, <2>1, <2>2, <2>4, FindCrLfIs
<1> DEFINE str == (m + 2) + 2
           end == str + n
<1>6. /\ end \in Nat /\ end + 1 = Len(d) /\ end + 2 = Len(d) + 1 /\ ~(end + 1 > Len(d))
      /\ ~(at > Len(d)) /\ end = m + (n + 4) /\ end + 1 = m + (n + 5)
      /\ str \in Nat /\ end \in 1..Len(d) /\ end + 1 \in 1..Len(d) /\ str \in 1..Len(d)
  BY <1>1, <1>3
<1>7. SubSeq(d, end, end + 1) = CrLf
  <2>1. d[end] = "CR" /\ d[end + 1] = "LF"
    BY <1>4, <1>6
  <2> DEFINE w == SubSeq(d, end, end + 1)
  <2>2. \A i \in end..(end + 1) : d[i] \in Byte
    <3>1. \A i \in end..(end + 1) : i \in 1..Len(d)
      BY <1>1, <1>3
    <3> QED BY <3>1, <1>3, ElementOfSeq
  <2>20. end \in Int /\ end + 1 \in Int /\ end <= end + 1 /\ (end + 1) - end + 1 = 2
    BY <1>1
  <2> HIDE DEF end
  <2>3. /\ w \in Seq(Byte) /\ Len(w) = IF end <= end + 1 THEN (end + 1) - end + 1 ELSE 0
        /\ \A i \in 1..((end + 1) - end + 1) : w[i] = d[end + i - 1]
    BY <2>2, <2>20, SubSeqProperties
  <2> HIDE DEF w
  <2>4. Len(w) = 2 /\ w[1] = d[end] /\ w[2] = d[end + 1]
    <3>1. Len(w) = 2
      BY <2>3, <2>20
    <3>2. 1 \in 1..2 /\ 2 \in 1..2 /\ end + 1 - 1 = end /\ end + 2 - 1 = end + 1
      BY <2>20
    <3>3. \A i \in 1..2 : w[i] = d[end + i - 1]
      BY <2>3, <2>20
    <3> QED BY <3>1, <3>2, <3>3
  <2>5. CrLf \in Seq(Byte) /\ Len(CrLf) = 2 /\ CrLf[1] = "CR" /\ CrLf[2] = "LF"
    <3>1. "CR" \in Byte /\ "LF" \in Byte
      BY ByteAssumption DEF Plain
    <3> QED BY <3>1 DEF CrLf
  <2>6. w = CrLf
    <3>1. \A i \in 1..2 : w[i] = CrLf[i]
      BY <2>1, <2>4, <2>5
    <3> QED BY <3>1, <2>3, <2>4, <2>5, SeqEqual
  <2> QED BY <2>6 DEF w
<1>8. SubSeq(d, str, end - 1) = v
  <2> DEFINE w == SubSeq(d, str, end - 1)
  <2>1. \A i \in str..(end - 1) : d[i] \in Byte
    <3>1. \A i \in str..(end - 1) : i \in 1..Len(d)
      BY <1>1, <1>3
    <3> QED BY <3>1, <1>3, ElementOfSeq
  <2>2. str \in Int /\ end - 1 \in Int /\ (end - 1) - str + 1 = n /\ (str <= end - 1 <=> n > 0)
    BY <1>1
  <2>3. \A i \in 1..n : str + i - 1 = m + (i + 3)
    BY <1>1
  <2> DEFINE last == end - 1
  <2> HIDE DEF str, last
  <2>4. /\ w \in Seq(Byte) /\ Len(w) = IF str <= last THEN last - str + 1 ELSE 0
        /\ \A i \in 1..(last - str + 1) : w[i] = d[str + i - 1]
    <3>1. w = SubSeq(d, str, last) /\ str \in Int /\ last \in Int /\ \A i \in str..last : d[i] \in Byte
      BY <2>1, <2>2 DEF last
    <3> HIDE DEF w
    <3> QED BY <3>1, SubSeqProperties
  <2> HIDE DEF w
  <2>5. last - str + 1 = n /\ (str <= last <=> n > 0)
    BY <2>2 DEF last
  <2>6. Len(w) = n
    BY <1>1, <2>4, <2>5
  <2>7. \A i \in 1..n : w[i] = v[i]
    BY <1>4, <2>3, <2>4, <2>5
  <2>8. w = v
    BY <2>4, <2>6, <2>7, SeqEqual DEF n
  <2> QED BY <2>8 DEF w
<1>9. d[at] \in BulkHeads /\ d[at] \in DOMAIN Number /\ Number[d[at]] = n
  BY <1>2, <1>4
<1>10. Bulk(d, at) = Success(v, Len(d) + 1)
  <2>1. FindCrLf(d, at) # 0 /\ ~(n < 0)
    BY <1>1, <1>5
  <2>2. FindCrLf(d, at) + 2 = str /\ str + Number[d[at]] = end
    BY <1>5, <1>9
  <2> HIDE DEF at, str, end
  <2>3. Bulk(d, at) = Success(SubSeq(d, str, end - 1), end + 2)
    BY <1>6, <1>7, <1>9, <2>1, <2>2 DEF Bulk
  <2> QED BY <2>3, <1>6, <1>8
<1>11. Len(d) = m + n + 5
  BY <1>1, <1>3
<1> QED BY <1>3, <1>10, <1>11 DEF d, m, n

\* One bulk string more is one step more.
LEMMA BulksNext ==
    ASSUME NEW b \in Seq(Byte), NEW at \in 1..(Len(b) + 1), NEW n \in Nat
    PROVE  /\ Bulks(b, at, 0) = Success(<<>>, at)
           /\ Bulks(b, at, n + 1) = OneMore(b, Bulks(b, at, n))
<1>1. PICK f : ReadsBulks(f, b, at, n) /\ Bulks(b, at, n) = f[n]
  BY BulksRun
<1>2. n + 1 \in Nat
  OBVIOUS
<1>3. PICK g : ReadsBulks(g, b, at, n + 1) /\ Bulks(b, at, n + 1) = g[n + 1]
  BY <1>2, BulksRun
<1>4. PICK h : ReadsBulks(h, b, at, 0) /\ Bulks(b, at, 0) = h[0]
  <2>1. 0 \in Nat
    OBVIOUS
  <2> QED BY <2>1, BulksRun
<1>5. /\ f[0] = Success(<<>>, at) /\ g[0] = Success(<<>>, at) /\ h[0] = Success(<<>>, at)
      /\ \A i \in 1..n : f[i] = OneMore(b, f[i - 1])
      /\ \A i \in 1..(n + 1) : g[i] = OneMore(b, g[i - 1])
  BY <1>1, <1>3, <1>4 DEF ReadsBulks
<1> DEFINE P == {i \in 0..n : f[i] = g[i]}
<1>6. 0 \in P
  BY <1>5
<1>7. ASSUME NEW i \in 0..(n - 1), i \in P
      PROVE  i + 1 \in P
  <2>1. i + 1 \in 1..n /\ i + 1 \in 0..n /\ i + 1 \in 1..(n + 1) /\ (i + 1) - 1 = i
    OBVIOUS
  <2>2. f[i + 1] = OneMore(b, f[i]) /\ g[i + 1] = OneMore(b, g[i])
    BY <1>5, <2>1
  <2> QED BY <1>7, <2>1, <2>2
<1> HIDE DEF P
<1>8. 0..n \subseteq P
  BY <1>6, <1>7, UpTo
<1>9. f[n] = g[n]
  <2>1. n \in P
    BY <1>8
  <2> QED BY <2>1 DEF P
<1>10. g[n + 1] = OneMore(b, g[n])
  <2>1. n + 1 \in 1..(n + 1) /\ (n + 1) - 1 = n
    OBVIOUS
  <2> QED BY <1>5, <2>1
<1> QED BY <1>1, <1>3, <1>4, <1>5, <1>9, <1>10

\* f writes an array: its head, then its elements.
Writes(f, cmd) ==
    /\ f \in [0..Len(cmd) -> Seq(Byte)]
    /\ f[0] = <<HeadFor(ArrayHeads, Len(cmd))>> \o CrLf
    /\ \A i \in 1..Len(cmd) : f[i] = f[i - 1] \o BulkString(cmd[i])

\* serialize_array() writes arrays so.
LEMMA ArrayRun ==
    ASSUME Lengths(BulkHeads), Lengths(ArrayHeads), NEW cmd \in Seq(Seq(Byte))
    PROVE  \E f : Writes(f, cmd) /\ Array(cmd) = f[Len(cmd)]
<1> DEFINE X == Seq(Byte)
           n == Len(cmd)
           a == <<HeadFor(ArrayHeads, Len(cmd))>> \o CrLf
           More(x, i) == x \o BulkString(cmd[i])
           step == [p \in X \X Nat |-> More(p[1], p[2])]
           Law(g) == g = [i \in 0..n |->
                            IF i = 0 THEN <<HeadFor(ArrayHeads, Len(cmd))>> \o CrLf
                            ELSE g[i - 1] \o BulkString(cmd[i])]
           out == CHOOSE g : Law(g)
<1>0. Array(cmd) = out[n]
  BY Zenon DEF Array
<1>1. n \in Nat /\ a \in X
  <2>1. n \in Nat
    BY LenProperties
  <2> DEFINE h == HeadFor(ArrayHeads, n)
  <2>2. h \in Byte
    BY <2>1, HeadIs, Numbers
  <2> HIDE DEF h
  <2>3. <<h>> \in X /\ CrLf \in X
    <3>1. "CR" \in Byte /\ "LF" \in Byte
      BY ByteAssumption DEF Plain
    <3> QED BY <2>2, <3>1 DEF CrLf
  <2>4. <<h>> \o CrLf \in X
    BY <2>3, ConcatProperties
  <2> QED BY <2>1, <2>4 DEF h
<1>2. ASSUME NEW x \in X, NEW i \in 1..n
      PROVE  More(x, i) \in X
  <2>1. cmd[i] \in X
    BY ElementOfSeq
  <2>2. BulkShape(BulkString(cmd[i]), cmd[i])
    BY <2>1, BulkStringShape
  <2>3. BulkString(cmd[i]) \in X
    BY <2>2 DEF BulkShape
  <2> QED BY <2>3, ConcatProperties
<1>3. \A x \in X : \A i \in 1..n : step[<<x, i>>] = More(x, i)
  <2> HIDE DEF More
  <2> QED OBVIOUS
<1> HIDE DEF X, n, step, a
<1>4. PICK f : Repeats(f, n, X, a, step)
  <2>1. \A x \in X : \A i \in 1..n : step[<<x, i>>] \in X
    BY <1>2, <1>3
  <2> QED BY <1>1, <2>1, RunExists
<1>5. Law(f)
  <2>1. f \in [0..n -> X] /\ f[0] = a /\ \A i \in 1..n : f[i] = step[<<f[i - 1], i>>]
    BY <1>4 DEF Repeats
  <2>2. \A i \in 1..n : f[i - 1] \in X
    BY <1>1, <2>1
  <2>3. \A i \in 0..n : f[i] = IF i = 0 THEN a ELSE More(f[i - 1], i)
    <3> HIDE DEF Law
    <3>1. \A i \in 0..n : i # 0 => i \in 1..n
      BY <1>1
    <3> HIDE DEF More
    <3> QED BY <3>1, <1>3, <2>1, <2>2
  <2>4. f = [i \in 0..n |-> f[i]]
    BY <2>1
  <2> QED BY <2>3, <2>4, Zenon DEF a
<1>6. Law(out)
  <2> HIDE DEF Law
  <2> QED BY <1>5, Zenon
<1> HIDE DEF out
<1>7. out = [i \in 0..n |-> IF i = 0 THEN a ELSE More(out[i - 1], i)]
  BY <1>6, Zenon DEF a
<1> HIDE DEF Law
<1>8. out[0] = a /\ \A i \in 1..n : out[i] = More(out[i - 1], i)
  <2> HIDE DEF More
  <2>1. 0 \in 0..n /\ \A i \in 1..n : i \in 0..n /\ i # 0
    BY <1>1
  <2> QED BY <1>7, <2>1
<1>9. \A i \in 0..n : out[i] \in X
  <2>1. \A i \in 1..n : out[i - 1] \in X => out[i] \in X
    <3> HIDE DEF More
    <3> QED BY <1>2, <1>8
  <2> QED BY <1>1, <1>8, <2>1, RunStays
<1>10. out \in [0..n -> X]
  <2> HIDE DEF More
  <2>1. out = [i \in 0..n |-> out[i]]
    BY <1>7
  <2> QED BY <2>1, <1>9
<1> QED BY <1>0, <1>8, <1>10 DEF Writes, X, n, a

\* The first k elements of cmd, written one behind the other, are read as those.
WrittenTo(b, cmd, k) ==
    /\ b \in Seq(Byte) /\ Len(b) >= 3
    /\ b[1] = HeadFor(ArrayHeads, Len(cmd)) /\ FindCrLf(b, 1) = 2
    /\ Bulks(b, 4, k) = Success(SubSeq(cmd, 1, k), Len(b) + 1)

\* The head alone is read as no elements.
LEMMA WrittenNone ==
    ASSUME Lengths(ArrayHeads), NEW cmd \in Seq(Seq(Byte))
    PROVE  WrittenTo(<<HeadFor(ArrayHeads, Len(cmd))>> \o CrLf, cmd, 0)
<1>90. \A s, e \in Seq(Byte) : /\ s \o e \in Seq(Byte) /\ Len(s \o e) = Len(s) + Len(e)
                               /\ \A i \in 1..Len(s) : (s \o e)[i] = s[i]
                               /\ \A i \in 1..Len(e) : (s \o e)[Len(s) + i] = e[i]
  BY EndsWith
<1> DEFINE h == HeadFor(ArrayHeads, Len(cmd))
           b == <<h>> \o CrLf
<1>1. h \in Byte /\ h # "CR"
  <2>1. Len(cmd) \in Nat
    BY LenProperties
  <2>2. h \in ArrayHeads
    BY <2>1, HeadIs
  <2> HIDE DEF h
  <2> QED BY <2>2, Numbers DEF Plain
<1> HIDE DEF h
<1> DEFINE o == <<h>>
<1>2. o \in Seq(Byte) /\ Len(o) = 1 /\ o[1] = h
  BY <1>1
<1>3. CrLf \in Seq(Byte) /\ Len(CrLf) = 2 /\ CrLf[1] = "CR" /\ CrLf[2] = "LF"
  <2>1. "CR" \in Byte /\ "LF" \in Byte
    BY ByteAssumption DEF Plain
  <2> QED BY <2>1 DEF CrLf
<1> HIDE DEF o
<1>4. b \in Seq(Byte) /\ Len(b) = 3 /\ b[1] = h /\ b[2] = "CR" /\ b[3] = "LF"
  <2>0. b = o \o CrLf
    BY DEF o
  <2> HIDE DEF b
  <2>1. /\ b \in Seq(Byte) /\ Len(b) = Len(o) + Len(CrLf)
        /\ \A i \in 1..Len(o) : b[i] = o[i]
        /\ \A i \in 1..Len(CrLf) : b[Len(o) + i] = CrLf[i]
    BY <1>2, <1>3, <1>90, <2>0
  <2>2. b[1] = o[1] /\ b[1 + 1] = CrLf[1] /\ b[1 + 2] = CrLf[2]
    BY <1>2, <1>3, <2>1
  <2> QED BY <1>2, <1>3, <2>1, <2>2
<1> HIDE DEF b
<1>5. FindCrLf(b, 1) = 2
  <2>1. EndsLine(b, 2) /\ ~EndsLine(b, 1)
    BY <1>1, <1>4 DEF EndsLine
  <2>2. 1 \in Nat \ {0} /\ 2 \in 1..(Len(b) - 1) /\ \A i \in 1..(2 - 1) : i = 1
    BY <1>4
  <2> QED BY <1>4, <2>1, <2>2, FindCrLfIs
<1>6. Bulks(b, 4, 0) = Success(<<>>, 4)
  <2>1. 4 \in 1..(Len(b) + 1) /\ 0 \in Nat
    BY <1>4
  <2> QED BY <1>4, <2>1, BulksNext
<1>7. SubSeq(cmd, 1, 0) = <<>>
  BY SubSeqEmpty
<1>8. WrittenTo(b, cmd, 0)
  <2>1. Len(b) >= 3 /\ Len(b) + 1 = 4
    BY <1>4
  <2> QED BY <1>4, <1>5, <1>6, <1>7, <2>1 DEF WrittenTo, h
<1> QED BY <1>8 DEF b, h

\* With the next element behind them, as one more.
LEMMA WrittenMore ==
    ASSUME Lengths(BulkHeads), NEW cmd \in Seq(Seq(Byte)), NEW k \in 0..(Len(cmd) - 1),
           NEW b, WrittenTo(b, cmd, k)
    PROVE  WrittenTo(b \o BulkString(cmd[k + 1]), cmd, k + 1)
<1> DEFINE v == cmd[k + 1]
           s == BulkString(v)
           d == b \o s
           some == SubSeq(cmd, 1, k)
<1>1. /\ b \in Seq(Byte) /\ Len(b) >= 3
      /\ b[1] = HeadFor(ArrayHeads, Len(cmd)) /\ FindCrLf(b, 1) = 2
      /\ Bulks(b, 4, k) = Success(some, Len(b) + 1)
  BY DEF WrittenTo
<1>2. Len(b) \in Nat /\ Len(cmd) \in Nat /\ k \in Nat /\ k + 1 \in 1..Len(cmd)
  BY <1>1, LenProperties
<1>3. v \in Seq(Byte)
  BY <1>2, ElementOfSeq
<1>4. SubSeq(cmd, 1, k + 1) = Append(some, v)
  <2>1. <<>> \in Seq(Seq(Byte))
    BY EmptySeq
  <2>2. SubSeq(cmd, 1, k) \in Seq(Seq(Byte)) /\ SubSeq(cmd, 1, k + 1) \in Seq(Seq(Byte))
    <3>1. k \in 0..Len(cmd) /\ k + 1 \in 0..Len(cmd)
      BY <1>2
    <3> QED BY <3>1, PartStable
  <2>3. Append(<<>> \o SubSeq(cmd, 1, k), cmd[k + 1]) = <<>> \o SubSeq(cmd, 1, k + 1)
    BY <2>1, PrefixGrows
  <2>4. \A t \in Seq(Seq(Byte)) : <<>> \o t = t
    BY ConcatEmptySeq
  <2> QED BY <2>2, <2>3, <2>4
<1>5. BulkShape(s, v)
  BY <1>3, BulkStringShape
<1> HIDE DEF v, s, some
<1>6. /\ d \in Seq(Byte) /\ Len(d) = Len(b) + Len(v) + 5
      /\ Bulk(d, Len(b) + 1) = Success(v, Len(d) + 1)
  BY <1>1, <1>3, <1>5, BulkBehind
<1>7. s \in Seq(Byte)
  BY <1>5 DEF BulkShape
<1>8. 4 \in 1..(Len(b) + 1) /\ 1 \in 1..Len(b) /\ Len(v) \in Nat
  BY <1>1, <1>2, <1>3, LenProperties
<1>9. Bulks(d, 4, k) = Success(some, Len(b) + 1)
  <2>1. BulksLaw(b, 4, k)
    BY <1>1, <1>2, <1>8, BulksReads
  <2>2. Bulks(b, 4, k).result # "INCOMPLETE"
    BY <1>1 DEF Success
  <2> QED BY <1>1, <1>7, <2>1, <2>2 DEF BulksLaw
<1>10. FindCrLf(d, 1) = 2
  BY <1>1, <1>7, FindCrLfStable
<1>11. d[1] = b[1]
  BY <1>1, <1>7, <1>8, ByteStable
<1> HIDE DEF d
<1>12. Bulks(d, 4, k + 1) = Success(Append(some, v), Len(d) + 1)
  <2>1. 4 \in 1..(Len(d) + 1)
    BY <1>2, <1>6, <1>8
  <2>2. Bulks(d, 4, k + 1) = OneMore(d, Bulks(d, 4, k))
    BY <1>2, <1>6, <2>1, BulksNext
  <2> DEFINE r == Success(some, Len(b) + 1)
  <2>3. r.result = "SUCCESS" /\ r.item = some /\ r.next = Len(b) + 1
    BY DEF Success
  <2> HIDE DEF r
  <2> DEFINE bulk == Bulk(d, r.next)
  <2>4. bulk = Success(v, Len(d) + 1)
    BY <1>6, <2>3
  <2>5. bulk.result = "SUCCESS" /\ bulk.item = v /\ bulk.next = Len(d) + 1
    BY <2>4 DEF Success
  <2>6. OneMore(d, r) = Success(Append(r.item, bulk.item), bulk.next)
    BY <2>3, <2>5 DEF OneMore
  <2> QED BY <1>9, <2>2, <2>3, <2>5, <2>6 DEF r
<1>13. Len(d) >= 3
  BY <1>1, <1>2, <1>6, <1>8
<1> QED BY <1>1, <1>4, <1>6, <1>10, <1>11, <1>12, <1>13 DEF WrittenTo, d, s, v, some

\* What serialize_array() writes for a command, parse() takes for this command and nothing
\* else, whatever the bytes of its words: a length in front needs no escapes.  The frames
\* that Wire assumes exist for every command.
THEOREM RoundTrip ==
    ASSUME Lengths(BulkHeads), Lengths(ArrayHeads), NEW cmd \in Seq(Seq(Byte))
    PROVE  /\ Array(cmd) \in Seq(Byte)
           /\ Parse(Array(cmd)) = [result |-> "SUCCESS", rest |-> <<>>,
                                   items |-> IF cmd = <<>> THEN <<>> ELSE <<cmd>>]
<1> DEFINE n == Len(cmd)
           b == Array(cmd)
<1>1. n \in Nat /\ SubSeq(cmd, 1, n) = cmd
  BY LenProperties, SubSeqFull
<1>2. PICK f : Writes(f, cmd) /\ Array(cmd) = f[n]
  BY ArrayRun
<1>3. /\ f[0] = <<HeadFor(ArrayHeads, Len(cmd))>> \o CrLf
      /\ \A i \in 1..n : f[i] = f[i - 1] \o BulkString(cmd[i])
  BY <1>2 DEF Writes
<1> DEFINE P == {i \in 0..n : WrittenTo(f[i], cmd, i)}
<1>4. 0 \in P
  <2> DEFINE a == <<HeadFor(ArrayHeads, Len(cmd))>> \o CrLf
  <2>1. WrittenTo(a, cmd, 0)
    BY WrittenNone
  <2>2. f[0] = a
    BY <1>3
  <2> HIDE DEF a
  <2>3. 0 \in 0..n
    BY <1>1
  <2> QED BY <2>1, <2>2, <2>3
<1>5. ASSUME NEW i \in 0..(n - 1), i \in P
      PROVE  i + 1 \in P
  <2>1. i + 1 \in 1..n /\ i + 1 \in 0..n /\ (i + 1) - 1 = i
    BY <1>1
  <2>2. f[i + 1] = f[i] \o BulkString(cmd[i + 1])
    BY <1>3, <2>1
  <2>3. WrittenTo(f[i], cmd, i)
    BY <1>5
  <2>4. WrittenTo(f[i] \o BulkString(cmd[i + 1]), cmd, i + 1)
    BY <2>3, WrittenMore
  <2> QED BY <2>1, <2>2, <2>4
<1> HIDE DEF P
<1>6. 0..n \subseteq P
  BY <1>1, <1>4, <1>5, UpTo
<1>7. WrittenTo(b, cmd, n)
  <2>1. n \in P
    BY <1>1, <1>6
  <2> QED BY <1>2, <2>1 DEF P
<1> HIDE DEF b
<1>8. /\ b \in Seq(Byte) /\ Len(b) >= 3
      /\ b[1] = HeadFor(ArrayHeads, n) /\ FindCrLf(b, 1) = 2
      /\ Bulks(b, 4, n) = Success(cmd, Len(b) + 1)
  BY <1>1, <1>7 DEF WrittenTo
<1>9. b[1] \in ArrayHeads /\ b[1] \in DOMAIN Number /\ Number[b[1]] = n
  BY <1>1, <1>8, HeadIs
<1>10. CommandAt[b] = Success(cmd, Len(b) + 1)
  <2>1. CommandAt[b] = ParseArray(b)
    BY <1>8, <1>9 DEF CommandAt, ParseSingleCommand
  <2>2. ~(n < 0) /\ 2 + 2 = 4 /\ 2 # 0
    BY <1>1
  <2>3. ParseArray(b) = Bulks(b, 4, n)
    BY <1>8, <1>9, <2>2 DEF ParseArray
  <2> QED BY <1>8, <2>1, <2>3
<1>11. b # <<>>
  <2>1. Len(<<>>) = 0
    BY EmptySeq
  <2> QED BY <1>8, <2>1
<1>12. CommandAt[b].result = "SUCCESS" /\ CommandAt[b].item = cmd /\ CommandAt[b].next = Len(b) + 1
  BY <1>10 DEF Success
<1>13. Drain(CommandAt, b) = [result |-> "SUCCESS", items |-> Kept(cmd), rest |-> <<>>]
  <2>1. Drain(CommandAt, b) =
          [result |-> "SUCCESS", items |-> Kept(CommandAt[b].item), rest |-> <<>>]
    BY <1>8, <1>11, <1>12, CommandAtReads, DrainOne
  <2> QED BY <1>12, <2>1
<1> QED BY <1>8, <1>13 DEF b, Parse, Kept
=============================================================================
