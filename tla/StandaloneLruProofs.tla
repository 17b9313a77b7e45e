------------------------ MODULE StandaloneLruProofs ------------------------
(***************************************************************************)
(* set() evicts the least recently used string, for every set of keys,     *)
(* every capacity and every clock, as long as nothing but the lazy         *)
(* eviction removes a string.  The list of nodes with the values of their  *)
(* keys is then an LRU cache, step by step (ImplementsLruCache), and the   *)
(* order of that cache is the order in which the strings were last used    *)
(* (EvictsLeastRecentlyUsed).  Both rest on one invariant: every node of   *)
(* lru_order_ belongs to a string, its key's iterator points to it, and    *)
(* the history of uses is the order of the nodes.                          *)
(***************************************************************************)
EXTENDS StandaloneLru, StandaloneProofs

-----------------------------------------------------------------------------
(* Sequences of cache entries. *)

CacheEntry == [key : Key, value : Value \cup {Absent}]

\* No key has two entries.
OnceEach(c) == \A i, j \in 1..Len(c) : c[i].key = c[j].key => i = j

Cached(c, k) == \E i \in 1..Len(c) : c[i].key = k

\* The entry of a is in front of the entry of b.
Before(c, a, b) == \E i, j \in 1..Len(c) : i < j /\ c[i].key = a /\ c[j].key = b

\* Without the entry at p, the cache is what Others of its key says.
LEMMA OthersAt ==
    ASSUME NEW c \in Seq(CacheEntry), OnceEach(c), NEW p \in 1..Len(c)
    PROVE  Cache!Others(c, c[p].key) = RemoveAt(c, p)
<1> DEFINE q == CHOOSE i \in 1..Len(c) : c[i].key = c[p].key
<1>1. q \in 1..Len(c) /\ c[q].key = c[p].key
  OBVIOUS
<1>2. q = p
  BY <1>1 DEF OnceEach
<1> HIDE DEF q
<1>3. Cache!Others(c, c[p].key) = RemoveAt(c, q)
  BY DEF Cache!Others, Cache!RemoveAt, RemoveAt, q
<1> QED BY <1>2, <1>3

\* Nothing to take out.
LEMMA OthersNone ==
    ASSUME NEW c, NEW k, ~Cached(c, k)
    PROVE  Cache!Others(c, k) = c
BY DEF Cache!Others, Cached

\* Taking an entry out leaves the order of the others.
LEMMA OthersOrder ==
    ASSUME NEW c \in Seq(CacheEntry), OnceEach(c), NEW k
    PROVE  LET o == Cache!Others(c, k)
           IN  /\ o \in Seq(CacheEntry) /\ OnceEach(o)
               /\ Len(o) = IF Cached(c, k) THEN Len(c) - 1 ELSE Len(c)
               /\ \A a : Cached(o, a) <=> a # k /\ Cached(c, a)
               /\ \A a, b : Before(o, a, b) <=> a # k /\ b # k /\ Before(c, a, b)
<1>0. Len(c) \in Nat
  BY LenProperties
<1>1. CASE ~Cached(c, k)
  <2>1. Cache!Others(c, k) = c
    BY <1>1, OthersNone
  <2> QED BY <1>1, <2>1 DEF Cached, Before
<1>2. CASE Cached(c, k)
  <2>1. PICK p \in 1..Len(c) : c[p].key = k
    BY <1>2 DEF Cached
  <2> DEFINE o == RemoveAt(c, p)
  <2>2. Cache!Others(c, k) = o
    BY <2>1, OthersAt
  <2>3. /\ o \in Seq(CacheEntry)
        /\ Len(o) = Len(c) - 1
        /\ \A i \in 1..(Len(c) - 1) : o[i] = IF i < p THEN c[i] ELSE c[i + 1]
    BY RemoveAtShifts
  <2> HIDE DEF o
  <2> DEFINE old(i) == IF i < p THEN i ELSE i + 1
             new(i) == IF i < p THEN i ELSE i - 1
  <2>4. \A i \in 1..Len(o) : old(i) \in 1..Len(c) /\ old(i) # p /\ o[i] = c[old(i)]
    BY <1>0, <2>3
  <2>5. \A i \in 1..Len(c) : i # p => /\ new(i) \in 1..Len(o)
                                     /\ o[new(i)] = c[i]
    BY <1>0, <2>3
  <2>6. \A i, j \in 1..Len(o) : (i < j <=> old(i) < old(j)) /\ (old(i) = old(j) => i = j)
    BY <1>0, <2>3
  <2>7. \A i, j \in 1..Len(c) : i # p /\ j # p /\ i < j => new(i) < new(j)
    BY <1>0
  <2>8. \A i \in 1..Len(c) : c[i].key = k => i = p
    BY <2>1 DEF OnceEach
  <2> HIDE DEF old, new
  <2>9. OnceEach(o)
    BY <2>4, <2>6 DEF OnceEach
  <2>10. ASSUME NEW a
         PROVE  Cached(o, a) <=> a # k /\ Cached(c, a)
    <3>1. ASSUME Cached(o, a)
          PROVE  a # k /\ Cached(c, a)
      <4>1. PICK i \in 1..Len(o) : o[i].key = a
        BY <3>1 DEF Cached
      <4>2. old(i) \in 1..Len(c) /\ old(i) # p /\ c[old(i)].key = a
        BY <2>4, <4>1
      <4> QED BY <2>8, <4>2 DEF Cached
    <3>2. ASSUME a # k, Cached(c, a)
          PROVE  Cached(o, a)
      <4>1. PICK i \in 1..Len(c) : c[i].key = a
        BY <3>2 DEF Cached
      <4>2. new(i) \in 1..Len(o) /\ o[new(i)].key = a
        BY <2>1, <2>5, <3>2, <4>1
      <4> QED BY <4>2 DEF Cached
    <3> QED BY <3>1, <3>2
  <2>11. ASSUME NEW a, NEW b, Before(o, a, b)
         PROVE  a # k /\ b # k /\ Before(c, a, b)
    BY <2>1, <2>4, <2>6, <2>8, <2>11 DEF Before
  <2>12. ASSUME NEW a, NEW b, a # k, b # k, Before(c, a, b)
         PROVE  Before(o, a, b)
    <3>1. PICK i, j \in 1..Len(c) : i < j /\ c[i].key = a /\ c[j].key = b
      BY <2>12 DEF Before
    <3>2. i # p /\ j # p
      BY <2>1, <2>12, <3>1
    <3>3. /\ new(i) \in 1..Len(o) /\ new(j) \in 1..Len(o) /\ new(i) < new(j)
          /\ o[new(i)].key = a /\ o[new(j)].key = b
      BY <2>5, <2>7, <3>1, <3>2
    <3> QED BY <3>3 DEF Before
  <2> QED BY <1>2, <2>2, <2>3, <2>9, <2>10, <2>11, <2>12
<1> QED BY <1>1, <1>2

\* What is cut off the end was behind everything that is kept.
LEMMA PrefixOrder ==
    ASSUME NEW c \in Seq(CacheEntry), OnceEach(c), NEW n \in 0..Len(c), NEW o, o = SubSeq(c, 1, n)
    PROVE  /\ o \in Seq(CacheEntry) /\ OnceEach(o) /\ Len(o) = n
           /\ \A a : Cached(o, a) => Cached(c, a)
           /\ \A a, b : Before(o, a, b) <=> Cached(o, a) /\ Cached(o, b) /\ Before(c, a, b)
           /\ \A a, b : Cached(o, a) /\ Cached(c, b) /\ ~Cached(o, b) => Before(c, a, b)
<1>0. Len(c) \in Nat /\ n \in Int /\ 1 \in Int /\ \A i \in 1..n : c[i] \in CacheEntry
  BY LenProperties, ElementOfSeq
<1>1. /\ o \in Seq(CacheEntry) /\ Len(o) = n
      /\ \A i \in 1..n : o[i] = c[i]
  <2>1. o \in Seq(CacheEntry) /\ Len(o) = IF 1 <= n THEN n - 1 + 1 ELSE 0
    BY <1>0, SubSeqProperties
  <2>2. \A i \in 1..(n - 1 + 1) : o[i] = c[1 + i - 1]
    BY <1>0, SubSeqProperties
  <2> QED BY <1>0, <2>1, <2>2
<1>2. 1..n \subseteq 1..Len(c)
  BY <1>0
<1>3. OnceEach(o) /\ \A a : Cached(o, a) => Cached(c, a)
  BY <1>1, <1>2 DEF OnceEach, Cached
<1>4. ASSUME NEW a, NEW b, Before(o, a, b)
      PROVE  Cached(o, a) /\ Cached(o, b) /\ Before(c, a, b)
  BY <1>1, <1>2, <1>4 DEF Cached, Before
<1>5. ASSUME NEW a, NEW b, Cached(o, a), Cached(o, b), Before(c, a, b)
      PROVE  Before(o, a, b)
  <2>1. PICK i, j \in 1..Len(c) : i < j /\ c[i].key = a /\ c[j].key = b
    BY <1>5 DEF Before
  <2>2. i \in 1..n /\ j \in 1..n
    <3>1. PICK p \in 1..Len(o) : o[p].key = a
      BY <1>5 DEF Cached
    <3>2. PICK q \in 1..Len(o) : o[q].key = b
      BY <1>5 DEF Cached
    <3>3. p \in 1..Len(c) /\ q \in 1..Len(c) /\ c[p].key = a /\ c[q].key = b
      BY <1>1, <1>2, <3>1, <3>2
    <3>4. i = p /\ j = q
      BY <2>1, <3>3 DEF OnceEach
    <3> QED BY <1>1, <3>1, <3>2, <3>4
  <2> QED BY <1>1, <2>1, <2>2 DEF Before
<1>6. ASSUME NEW a, NEW b, Cached(o, a), Cached(c, b), ~Cached(o, b)
      PROVE  Before(c, a, b)
  <2>1. PICK i \in 1..n : c[i].key = a
    BY <1>1, <1>6 DEF Cached
  <2>2. PICK j \in 1..Len(c) : c[j].key = b
    BY <1>6 DEF Cached
  <2>3. j \notin 1..n
    BY <1>1, <1>6, <2>2 DEF Cached
  <2>4. i \in 1..Len(c) /\ i < j
    BY <1>0, <2>1, <2>2, <2>3
  <2> QED BY <2>1, <2>2, <2>4 DEF Before
<1> QED BY <1>1, <1>3, <1>4, <1>5, <1>6

\* A new entry in front is in front of every other.
LEMMA FrontOrder ==
    ASSUME NEW c \in Seq(CacheEntry), OnceEach(c), NEW e \in CacheEntry, ~Cached(c, e.key),
           NEW o, o = <<e>> \o c
    PROVE  /\ o \in Seq(CacheEntry) /\ OnceEach(o) /\ Len(o) = Len(c) + 1
           /\ \A a : Cached(o, a) <=> a = e.key \/ Cached(c, a)
           /\ \A a, b : Before(o, a, b) <=> (a = e.key /\ Cached(c, b)) \/ Before(c, a, b)
<1>0. Len(c) \in Nat
  BY LenProperties
<1>1. <<e>> \in Seq(CacheEntry) /\ Len(<<e>>) = 1 /\ <<e>>[1] = e
  OBVIOUS
<1>2. /\ <<e>> \o c \in Seq(CacheEntry) /\ Len(<<e>> \o c) = 1 + Len(c)
      /\ \A i \in 1..(1 + Len(c)) : (<<e>> \o c)[i] = IF i <= 1 THEN <<e>>[i] ELSE c[i - 1]
  BY <1>1, ConcatProperties
<1>3. /\ o \in Seq(CacheEntry) /\ Len(o) = Len(c) + 1 /\ o[1] = e
      /\ \A i \in 1..Len(c) : i + 1 \in 1..Len(o) /\ o[i + 1] = c[i]
      /\ \A i \in 1..Len(o) : i # 1 => i - 1 \in 1..Len(c) /\ o[i] = c[i - 1]
      /\ 1 \in 1..Len(o)
  BY <1>0, <1>1, <1>2
<1>4. ASSUME NEW a
      PROVE  Cached(o, a) <=> a = e.key \/ Cached(c, a)
  BY <1>3 DEF Cached
<1>5. OnceEach(o)
  <2> SUFFICES ASSUME NEW i \in 1..Len(o), NEW j \in 1..Len(o), o[i].key = o[j].key
               PROVE  i = j
    BY DEF OnceEach
  <2>1. CASE i # 1 /\ j # 1
    <3>1. /\ i - 1 \in 1..Len(c) /\ j - 1 \in 1..Len(c)
          /\ o[i] = c[i - 1] /\ o[j] = c[j - 1]
      BY <1>3, <2>1
    <3>2. c[i - 1].key = c[j - 1].key
      BY <3>1
    <3>3. i - 1 = j - 1
      BY <3>1, <3>2 DEF OnceEach
    <3> QED BY <1>0, <1>3, <3>3
  <2>2. CASE i = 1 \/ j = 1
    BY <1>3, <2>2 DEF Cached
  <2> QED BY <2>1, <2>2
<1>6. ASSUME NEW a, NEW b, Before(o, a, b)
      PROVE  (a = e.key /\ Cached(c, b)) \/ Before(c, a, b)
  <2>1. PICK i, j \in 1..Len(o) : i < j /\ o[i].key = a /\ o[j].key = b
    BY <1>6 DEF Before
  <2>2. j # 1 /\ i - 1 < j - 1
    BY <1>0, <1>3, <2>1
  <2> QED BY <1>3, <2>1, <2>2 DEF Cached, Before
<1>7. ASSUME NEW a, NEW b, (a = e.key /\ Cached(c, b)) \/ Before(c, a, b)
      PROVE  Before(o, a, b)
  <2>1. CASE a = e.key /\ Cached(c, b)
    <3>1. PICK j \in 1..Len(c) : c[j].key = b
      BY <2>1 DEF Cached
    <3>2. 1 < j + 1
      BY <1>0, <3>1
    <3> QED BY <1>3, <2>1, <3>1, <3>2 DEF Before
  <2>2. CASE Before(c, a, b)
    <3>1. PICK i, j \in 1..Len(c) : i < j /\ c[i].key = a /\ c[j].key = b
      BY <2>2 DEF Before
    <3>2. i + 1 < j + 1
      BY <1>0, <3>1
    <3> QED BY <1>3, <3>1, <3>2 DEF Before
  <2> QED BY <1>7, <2>1, <2>2
<1> QED BY <1>3, <1>4, <1>5, <1>6, <1>7

-----------------------------------------------------------------------------
(* The list with the values of its keys. *)

\* The nodes of a sound database with the values of their keys are cache entries.
LEMMA CacheFacts ==
    ASSUME NEW d, Sound(d), Exact(d)
    PROVE  LET c == CacheOf(d)
           IN  /\ c \in Seq(CacheEntry) /\ OnceEach(c)
               /\ Len(c) = Len(d.lru_order) /\ Len(c) \in Nat
               /\ \A i \in 1..Len(c) : c[i] = [key |-> d.lru_order[i].key,
                                               value |-> d.string_store[d.lru_order[i].key]]
               /\ \A k \in Key : Cached(c, k) <=> Has(d.string_store, k)
<1> DEFINE c == CacheOf(d)
<1>1. /\ d.lru_order \in Seq(Node)
      /\ d.string_store \in [Key -> Value \cup {Absent}]
  BY SoundDatabase DEF Database
<1>2. /\ Len(d.lru_order) \in Nat
      /\ \A i \in 1..Len(d.lru_order) : d.lru_order[i].key \in Key
  <2>1. \A i \in 1..Len(d.lru_order) : d.lru_order[i] \in Node
    BY <1>1, ElementOfSeq
  <2> QED BY <1>1, <2>1, LenProperties DEF Node
<1>3. /\ c = [i \in 1..Len(d.lru_order) |->
                [key |-> d.lru_order[i].key, value |-> d.string_store[d.lru_order[i].key]]]
      /\ \A i \in 1..Len(d.lru_order) :
            [key |-> d.lru_order[i].key, value |-> d.string_store[d.lru_order[i].key]] \in CacheEntry
  BY <1>1, <1>2 DEF CacheOf, CacheEntry
<1> HIDE DEF c
<1>4. c \in Seq(CacheEntry) /\ Len(c) = Len(d.lru_order)
  BY <1>2, <1>3
<1>5. \A i \in 1..Len(c) : c[i] = [key |-> d.lru_order[i].key,
                                   value |-> d.string_store[d.lru_order[i].key]]
  BY <1>3, <1>4
<1>6. /\ \A i, j \in 1..Len(d.lru_order) : d.lru_order[i].key = d.lru_order[j].key => i = j
      /\ \A k \in Key : Has(d.string_store, k) <=>
            \E i \in 1..Len(d.lru_order) : d.lru_order[i].key = k
  BY ExactCount
<1>7. OnceEach(c) /\ \A k \in Key : Cached(c, k) <=> Has(d.string_store, k)
  <2>1. ASSUME NEW i \in 1..Len(c)
        PROVE  c[i].key = d.lru_order[i].key
    <3> DEFINE v == d.string_store[d.lru_order[i].key]
    <3>1. c[i] = [key |-> d.lru_order[i].key, value |-> v]
      BY <1>5
    <3> HIDE DEF v
    <3> QED BY <3>1
  <2> QED BY <1>4, <1>6, <2>1 DEF OnceEach, Cached
<1> QED BY <1>2, <1>4, <1>5, <1>7 DEF c

\* A database whose nodes are those of s, in front k with value v, has that cache.
LEMMA CachePushed ==
    ASSUME NEW e, Sound(e), Exact(e), NEW k \in Key, NEW s \in Seq(CacheEntry),
           Len(e.lru_order) = Len(s) + 1,
           e.lru_order[1].key = k,
           \A i \in 1..Len(s) :
              /\ e.lru_order[i + 1].key = s[i].key
              /\ e.string_store[s[i].key] = s[i].value
    PROVE  CacheOf(e) = <<[key |-> k, value |-> e.string_store[k]]>> \o s
<1> DEFINE c == CacheOf(e)
           x == [key |-> k, value |-> e.string_store[k]]
<1>0. Len(s) \in Nat
  BY LenProperties
<1>1. /\ c \in Seq(CacheEntry) /\ Len(c) = Len(s) + 1
      /\ \A i \in 1..Len(c) : c[i] = [key |-> e.lru_order[i].key,
                                      value |-> e.string_store[e.lru_order[i].key]]
  BY CacheFacts
<1>2. x \in CacheEntry
  <2>1. e.string_store \in [Key -> Value \cup {Absent}]
    BY SoundDatabase DEF Database
  <2> QED BY <2>1 DEF CacheEntry
<1> HIDE DEF c
<1>3. \A i \in 1..Len(s) : c[i + 1] = s[i]
  <2> SUFFICES ASSUME NEW i \in 1..Len(s)
               PROVE  c[i + 1] = s[i]
    OBVIOUS
  <2>1. i + 1 \in 1..Len(c)
    BY <1>0, <1>1
  <2>2. s[i] \in CacheEntry
    OBVIOUS
  <2>3. c[i + 1] = [key |-> s[i].key, value |-> s[i].value]
    <3>1. c[i + 1] = [key |-> e.lru_order[i + 1].key,
                      value |-> e.string_store[e.lru_order[i + 1].key]]
      BY <1>1, <2>1
    <3>2. e.lru_order[i + 1].key = s[i].key /\ e.string_store[s[i].key] = s[i].value
      OBVIOUS
    <3> QED BY <3>1, <3>2
  <2> QED BY <2>2, <2>3 DEF CacheEntry
<1>4. c[1] = x
  BY <1>0, <1>1
<1> HIDE DEF x
<1>5. <<x>> \in Seq(CacheEntry) /\ Len(<<x>>) = 1 /\ <<x>>[1] = x
  BY <1>2
<1>6. /\ <<x>> \o s \in Seq(CacheEntry) /\ Len(<<x>> \o s) = 1 + Len(s)
      /\ \A i \in 1..(1 + Len(s)) : (<<x>> \o s)[i] = IF i <= 1 THEN <<x>>[i] ELSE s[i - 1]
  BY <1>5, ConcatProperties
<1>7. \A i \in 1..Len(c) : c[i] = (<<x>> \o s)[i]
  <2> SUFFICES ASSUME NEW i \in 1..Len(c)
               PROVE  c[i] = (<<x>> \o s)[i]
    OBVIOUS
  <2>1. CASE i = 1
    BY <1>0, <1>4, <1>5, <1>6, <2>1
  <2>2. CASE i # 1
    <3>1. i - 1 \in 1..Len(s) /\ (i - 1) + 1 = i /\ ~(i <= 1) /\ i \in 1..(1 + Len(s))
      BY <1>0, <1>1, <2>2
    <3> QED BY <1>3, <1>6, <3>1
  <2> QED BY <2>1, <2>2
<1>8. c = <<x>> \o s
  <2>1. Len(c) = Len(<<x>> \o s)
    BY <1>0, <1>1, <1>6
  <2> QED BY <1>1, <1>6, <1>7, <2>1, SeqEqual
<1> QED BY <1>8 DEF c, x

\* A database that lost the node and the string of k has the cache without its entry.
LEMMA CachePulled ==
    ASSUME NEW d, Sound(d), Exact(d), NEW e, Sound(e), Exact(e),
           NEW p \in 1..Len(d.lru_order), e.lru_order = RemoveAt(d.lru_order, p),
           \A j \in Key : j # d.lru_order[p].key => e.string_store[j] = d.string_store[j]
    PROVE  CacheOf(e) = RemoveAt(CacheOf(d), p)
<1> DEFINE c == CacheOf(d)
           f == CacheOf(e)
           r == RemoveAt(c, p)
<1>1. /\ c \in Seq(CacheEntry) /\ OnceEach(c) /\ Len(c) = Len(d.lru_order) /\ Len(c) \in Nat
      /\ \A i \in 1..Len(c) : c[i] = [key |-> d.lru_order[i].key,
                                      value |-> d.string_store[d.lru_order[i].key]]
  BY CacheFacts
<1>2. /\ f \in Seq(CacheEntry) /\ Len(f) = Len(e.lru_order)
      /\ \A i \in 1..Len(f) : f[i] = [key |-> e.lru_order[i].key,
                                      value |-> e.string_store[e.lru_order[i].key]]
  BY CacheFacts
<1>3. /\ Len(e.lru_order) = Len(d.lru_order) - 1
      /\ \A i \in 1..(Len(d.lru_order) - 1) :
            e.lru_order[i] = IF i < p THEN d.lru_order[i] ELSE d.lru_order[i + 1]
  <2>1. d.lru_order \in Seq(Node)
    BY SoundDatabase DEF Database
  <2> QED BY <2>1, RemoveAtShifts
<1> HIDE DEF c, f
<1>4. /\ r \in Seq(CacheEntry) /\ Len(r) = Len(c) - 1
      /\ \A i \in 1..(Len(c) - 1) : r[i] = IF i < p THEN c[i] ELSE c[i + 1]
  BY <1>1, RemoveAtShifts
<1> HIDE DEF r
<1>5. ASSUME NEW i \in 1..Len(f)
      PROVE  f[i] = r[i]
  <2>1. PICK q \in 1..Len(c) : /\ q # p
                              /\ e.lru_order[i] = d.lru_order[q]
                              /\ r[i] = c[q]
    <3>1. CASE i < p
      <4>1. i \in 1..Len(c) /\ i # p /\ e.lru_order[i] = d.lru_order[i] /\ r[i] = c[i]
        BY <1>1, <1>2, <1>3, <1>4, <3>1
      <4> QED BY <4>1
    <3>2. CASE ~(i < p)
      <4>1. /\ i + 1 \in 1..Len(c) /\ i + 1 # p
            /\ e.lru_order[i] = d.lru_order[i + 1] /\ r[i] = c[i + 1]
        BY <1>1, <1>2, <1>3, <1>4, <3>2
      <4> QED BY <4>1
    <3> QED BY <3>1, <3>2
  <2> DEFINE k == d.lru_order[q].key
             l == d.lru_order[p].key
  <2>2. /\ f[i] = [key |-> k, value |-> e.string_store[k]]
        /\ c[q] = [key |-> k, value |-> d.string_store[k]]
        /\ c[p] = [key |-> l, value |-> d.string_store[l]]
    BY <1>1, <1>2, <2>1
  <2>3. k \in Key
    <3>1. d.lru_order \in Seq(Node)
      BY SoundDatabase DEF Database
    <3>2. d.lru_order[q] \in Node
      BY <1>1, <3>1, ElementOfSeq
    <3> QED BY <3>2 DEF Node
  <2> HIDE DEF k, l
  <2>4. k # l
    <3>1. c[q].key = k /\ c[p].key = l
      BY <2>2
    <3> QED BY <1>1, <2>1, <3>1 DEF OnceEach
  <2>5. e.string_store[k] = d.string_store[k]
    BY <2>3, <2>4 DEF l
  <2> QED BY <2>1, <2>2, <2>5
<1>6. f = r
  <2>1. Len(f) = Len(r)
    BY <1>1, <1>2, <1>3, <1>4
  <2> QED BY <1>2, <1>4, <1>5, <2>1, SeqEqual
<1> QED BY <1>6 DEF c, f, r

\* The look at the deadline drops the entry of an elapsed key and nothing else.
LEMMA LazyEvictCache ==
    ASSUME NEW d, Sound(d), Exact(d), NoLists(d), NEW k \in Key, NEW t \in Int
    PROVE  LET f == LazyEvict(d, k, t)
           IN  /\ Sound(f) /\ Exact(f) /\ NoLists(f)
               /\ Has(f.string_store, k) => f = d
               /\ ~Has(f.string_store, k) => CacheOf(f) = Cache!Others(CacheOf(d), k)
<1> DEFINE f == LazyEvict(d, k, t)
<1>1. Sound(f)
  BY LazyEvictSound
<1>2. CASE ~Elapsed(d, k, t)
  <2>1. f = d
    BY <1>2 DEF LazyEvict
  <2>2. ~Has(d.string_store, k) => ~Cached(CacheOf(d), k)
    BY CacheFacts
  <2> QED BY <1>1, <2>1, <2>2, OthersNone
<1>3. CASE Elapsed(d, k, t)
  <2>1. Has(d.string_store, k) /\ Has(d.lru_position, k)
    BY <1>3 DEF Sound, StoresSound, Tracked, Elapsed, Present, NoLists
  <2> DEFINE u == Unlink(d, k)
  <2>2. ExactBut(u, k)
    BY <2>1, UnlinkExact
  <2>3. PICK p \in 1..Len(d.lru_order) :
           /\ d.lru_order[p].key = k
           /\ u = [d EXCEPT !.lru_order = RemoveAt(@, p)]
    BY <2>1, UnlinkExact
  <2>4. f = [[u EXCEPT !.lru_position = Erase(@, {k})]
                EXCEPT !.string_store = Erase(@, {k}),
                       !.list_store   = Erase(@, {k}),
                       !.expiry       = Erase(@, {k})]
    BY <1>3, <2>1 DEF LazyEvict
  <2>5. d \in Database
    BY SoundDatabase
  <2> HIDE DEF f, u
  <2>6. /\ f.lru_order = u.lru_order /\ f.lru_order = RemoveAt(d.lru_order, p)
        /\ f.lru_position = Erase(d.lru_position, {k})
        /\ f.string_store = Erase(d.string_store, {k})
        /\ f.list_store = Erase(d.list_store, {k})
        /\ u.string_store = d.string_store
        /\ u.lru_position = d.lru_position
    BY <2>3, <2>4, <2>5 DEF Database
  <2>7. /\ \A j \in Key : j # k => /\ f.string_store[j] = d.string_store[j]
                                  /\ f.lru_position[j] = d.lru_position[j]
        /\ ~Has(f.string_store, k)
        /\ NoLists(f)
    BY <2>6 DEF Erase, Has, NoLists
  <2>8. Exact(f)
    <3> SUFFICES ASSUME NEW i \in 1..Len(f.lru_order)
                 PROVE  /\ Has(f.string_store, f.lru_order[i].key)
                        /\ Points(f, f.lru_order[i].key, i)
      BY DEF Exact
    <3>1. f.lru_order \in Seq(Node)
      BY <1>1, SoundDatabase DEF Database, f
    <3>2. f.lru_order[i] \in Node
      BY <3>1, ElementOfSeq
    <3>3. f.lru_order[i].key \in Key
      BY <3>2 DEF Node
    <3>4. /\ Has(u.string_store, f.lru_order[i].key)
          /\ Points(u, f.lru_order[i].key, i)
          /\ f.lru_order[i].key # k
      BY <2>2, <2>6 DEF ExactBut, Exact
    <3> QED BY <2>6, <2>7, <3>3, <3>4 DEF Has, Points
  <2>9. CacheOf(f) = RemoveAt(CacheOf(d), p)
    BY <1>1, <2>3, <2>6, <2>7, <2>8, CachePulled DEF f
  <2>10. Cache!Others(CacheOf(d), k) = RemoveAt(CacheOf(d), p)
    <3> DEFINE c == CacheOf(d)
    <3>1. /\ c \in Seq(CacheEntry) /\ OnceEach(c) /\ p \in 1..Len(c)
          /\ c[p] = [key |-> d.lru_order[p].key, value |-> d.string_store[d.lru_order[p].key]]
      BY CacheFacts
    <3> HIDE DEF c
    <3>2. c[p].key = k
      BY <2>3, <3>1
    <3>3. Cache!Others(c, k) = RemoveAt(c, p)
      BY <3>1, <3>2, OthersAt
    <3> QED BY <3>3 DEF c
  <2> QED BY <1>1, <2>7, <2>8, <2>9, <2>10 DEF f
<1> QED BY <1>2, <1>3

\* get() on a string moves its entry to the front.
LEMMA TouchCache ==
    ASSUME NEW d, Sound(d), Exact(d), NoLists(d), NEW k \in Key, Has(d.string_store, k)
    PROVE  LET e == Touch(d, k)
           IN  /\ Exact(e) /\ NoLists(e)
               /\ CacheOf(e) = <<[key |-> k, value |-> d.string_store[k]]>>
                                 \o Cache!Others(CacheOf(d), k)
<1> DEFINE u == Unlink(d, k)
           e == Touch(d, k)
<1>1. Has(d.lru_position, k)
  BY DEF Sound, Tracked
<1>2. ExactBut(u, k)
  BY UnlinkExact
<1>3. PICK p \in 1..Len(d.lru_order) :
         d.lru_order[p].key = k /\ u = [d EXCEPT !.lru_order = RemoveAt(@, p)]
  BY UnlinkExact
<1>4. u \in Database /\ FreeCell(u, d.lru_position[k])
  BY <1>1, UnlinkSound DEF Sound
<1>5. d \in Database /\ d.lru_position[k] \in Cell
  <2>1. d \in Database
    BY SoundDatabase
  <2> QED BY <1>1, <2>1 DEF Database, Has
<1>6. e = PushFront(u, k)
  BY <1>1 DEF Touch
<1>7. Sound(e) /\ e.string_store = d.string_store /\ e.list_store = d.list_store
  BY <1>5, TouchSound, TouchSame
<1> HIDE DEF e, u
<1>8. u.string_store = d.string_store /\ u.lru_order = RemoveAt(d.lru_order, p)
  BY <1>3, <1>5 DEF Database
<1>9. /\ Exact(e)
      /\ Len(e.lru_order) = Len(u.lru_order) + 1
      /\ e.lru_order[1].key = k
      /\ \A i \in 1..Len(u.lru_order) : e.lru_order[i + 1] = u.lru_order[i]
  <2>1. \A j \in Key : Has(u.string_store, j) \/ j = k => Has(e.string_store, j)
    BY <1>7, <1>8
  <2>2. \E c \in Cell : FreeCell(u, c)
    BY <1>4, <1>5
  <2> QED BY <1>2, <1>4, <1>6, <2>1, <2>2, PushFrontExact
<1> DEFINE c == CacheOf(d)
           r == RemoveAt(c, p)
<1>10. /\ c \in Seq(CacheEntry) /\ OnceEach(c) /\ Len(c) = Len(d.lru_order) /\ Len(c) \in Nat
       /\ \A i \in 1..Len(c) : c[i] = [key |-> d.lru_order[i].key,
                                       value |-> d.string_store[d.lru_order[i].key]]
  BY CacheFacts
<1> HIDE DEF c
<1>11. Cache!Others(c, k) = r
  <2>1. c[p] = [key |-> d.lru_order[p].key, value |-> d.string_store[d.lru_order[p].key]]
    BY <1>10
  <2>2. c[p].key = k
    BY <1>3, <2>1
  <2> QED BY <1>10, <2>2, OthersAt
<1>12. /\ r \in Seq(CacheEntry) /\ Len(r) = Len(c) - 1
       /\ \A i \in 1..(Len(c) - 1) : r[i] = IF i < p THEN c[i] ELSE c[i + 1]
  BY <1>10, RemoveAtShifts
<1>13. /\ Len(u.lru_order) = Len(d.lru_order) - 1
       /\ \A i \in 1..(Len(d.lru_order) - 1) :
             u.lru_order[i] = IF i < p THEN d.lru_order[i] ELSE d.lru_order[i + 1]
  <2>1. d.lru_order \in Seq(Node)
    BY <1>5 DEF Database
  <2> QED BY <1>8, <2>1, RemoveAtShifts
<1> HIDE DEF r
<1>14. ASSUME NEW i \in 1..Len(r)
       PROVE  e.lru_order[i + 1].key = r[i].key /\ e.string_store[r[i].key] = r[i].value
  <2>1. PICK q \in 1..Len(c) : u.lru_order[i] = d.lru_order[q] /\ r[i] = c[q]
    <3>1. CASE i < p
      <4>1. i \in 1..Len(c) /\ u.lru_order[i] = d.lru_order[i] /\ r[i] = c[i]
        BY <1>10, <1>12, <1>13, <3>1
      <4> QED BY <4>1
    <3>2. CASE ~(i < p)
      <4>1. i + 1 \in 1..Len(c) /\ u.lru_order[i] = d.lru_order[i + 1] /\ r[i] = c[i + 1]
        BY <1>10, <1>12, <1>13, <3>2
      <4> QED BY <4>1
    <3> QED BY <3>1, <3>2
  <2> DEFINE l == d.lru_order[q].key
  <2>2. r[i] = [key |-> l, value |-> d.string_store[l]]
    BY <1>10, <2>1
  <2>3. e.lru_order[i + 1] = u.lru_order[i]
    BY <1>9, <1>10, <1>12, <1>13
  <2>4. e.lru_order[i + 1].key = l
    BY <2>1, <2>3
  <2> HIDE DEF l
  <2> QED BY <1>7, <2>2, <2>4
<1>15. CacheOf(e) = <<[key |-> k, value |-> e.string_store[k]]>> \o r
  <2>1. Len(e.lru_order) = Len(r) + 1
    BY <1>9, <1>10, <1>12, <1>13
  <2> QED BY <1>7, <1>9, <1>12, <1>14, <2>1, CachePushed
<1>16. NoLists(e)
  BY <1>7 DEF NoLists
<1> QED BY <1>7, <1>9, <1>11, <1>15, <1>16 DEF c, e

\* The capacity a write keeps of the other entries.
Kept(old) == IF Len(old) < MaxCapacity THEN old ELSE SubSeq(old, 1, MaxCapacity - 1)

\* Before set() links its key, the list holds what the cache keeps of the others.
LEMMA SetKeeps ==
    ASSUME NEW d, Sound(d), Exact(d), NoLists(d), Fits(d), NEW k \in Key
    PROVE  LET o == Overwrite(d, k)
               m == IF Has(o.string_store, k) THEN Unlink(o, k) ELSE MakeRoom(o)
               s == Kept(Cache!Others(CacheOf(d), k))
           IN  /\ SetHasRoom(d, k)
               /\ s \in Seq(CacheEntry)
               /\ Len(m.lru_order) = Len(s)
               /\ \A i \in 1..Len(s) : \E q \in 1..Len(d.lru_order) :
                     /\ m.lru_order[i] = d.lru_order[q]
                     /\ s[i] = CacheOf(d)[q]
                     /\ d.lru_order[q].key # k
<1> DEFINE o == Overwrite(d, k)
           c == CacheOf(d)
           old == Cache!Others(c, k)
           s == Kept(old)
<1>1. /\ Sound(o) /\ o.string_store = d.string_store
      /\ o.lru_order = d.lru_order /\ o.lru_position = d.lru_position
  BY OverwriteSound
<1>2. Exact(o) /\ NoLists(o)
  BY OverwriteExact
<1>3. SetHasRoom(d, k)
  BY <1>1, <1>2, RoomExact DEF SetHasRoom
<1>4. /\ c \in Seq(CacheEntry) /\ OnceEach(c) /\ Len(c) = Len(d.lru_order) /\ Len(c) \in Nat
      /\ \A i \in 1..Len(c) : c[i] = [key |-> d.lru_order[i].key,
                                      value |-> d.string_store[d.lru_order[i].key]]
      /\ Cached(c, k) <=> Has(d.string_store, k)
  BY CacheFacts
<1>5. Len(c) <= MaxCapacity
  BY <1>4, ExactCount DEF Fits
<1>6. MaxCapacity \in Nat \ {0}
  BY CapacityAssumption
<1>7. \A i \in 1..Len(c) : c[i].key = d.lru_order[i].key
  <2> SUFFICES ASSUME NEW i \in 1..Len(c)
               PROVE  c[i].key = d.lru_order[i].key
    OBVIOUS
  <2> DEFINE v == d.string_store[d.lru_order[i].key]
  <2>1. c[i] = [key |-> d.lru_order[i].key, value |-> v]
    BY <1>4
  <2> HIDE DEF v
  <2> QED BY <2>1
<1> HIDE DEF o, c
<1>8. CASE Has(d.string_store, k)
  <2> DEFINE m == Unlink(o, k)
  <2>1. PICK p \in 1..Len(o.lru_order) :
           /\ o.lru_order[p].key = k
           /\ m = [o EXCEPT !.lru_order = RemoveAt(@, p)]
    BY <1>1, <1>2, <1>8, UnlinkExact
  <2>2. m.lru_order = RemoveAt(d.lru_order, p)
    <3>1. o \in Database
      BY <1>1, SoundDatabase
    <3> QED BY <1>1, <2>1, <3>1 DEF Database
  <2>3. /\ Len(m.lru_order) = Len(d.lru_order) - 1
        /\ \A i \in 1..(Len(d.lru_order) - 1) :
              m.lru_order[i] = IF i < p THEN d.lru_order[i] ELSE d.lru_order[i + 1]
    <3>1. d.lru_order \in Seq(Node)
      BY SoundDatabase DEF Database
    <3>2. p \in 1..Len(d.lru_order)
      BY <1>1
    <3> HIDE DEF m
    <3> QED BY <2>2, <3>1, <3>2, RemoveAtShifts
  <2>4. p \in 1..Len(c) /\ c[p].key = k
    BY <1>1, <1>4, <1>7, <2>1
  <2> DEFINE r == RemoveAt(c, p)
  <2>5. old = r
    BY <1>4, <2>4, OthersAt
  <2>6. /\ r \in Seq(CacheEntry) /\ Len(r) = Len(c) - 1
        /\ \A i \in 1..(Len(c) - 1) : r[i] = IF i < p THEN c[i] ELSE c[i + 1]
    BY <1>4, <2>4, RemoveAtShifts
  <2> HIDE DEF m, r, old
  <2>7. s = r
    BY <1>4, <1>5, <1>6, <2>5, <2>6 DEF Kept
  <2>8. \A q \in 1..Len(c) : q # p => d.lru_order[q].key # k
    BY <1>4, <1>7, <2>4 DEF OnceEach
  <2>9. ASSUME NEW i \in 1..Len(r)
        PROVE  \E q \in 1..Len(d.lru_order) :
                  m.lru_order[i] = d.lru_order[q] /\ r[i] = c[q] /\ d.lru_order[q].key # k
    <3>1. CASE i < p
      <4>1. i \in 1..Len(c) /\ i # p /\ m.lru_order[i] = d.lru_order[i] /\ r[i] = c[i]
        BY <1>4, <2>3, <2>4, <2>6, <3>1
      <4> QED BY <1>4, <2>8, <4>1
    <3>2. CASE ~(i < p)
      <4>1. /\ i + 1 \in 1..Len(c) /\ i + 1 # p
            /\ m.lru_order[i] = d.lru_order[i + 1] /\ r[i] = c[i + 1]
        BY <1>4, <2>3, <2>4, <2>6, <3>2
      <4> QED BY <1>4, <2>8, <4>1
    <3> QED BY <3>1, <3>2
  <2>10. Len(m.lru_order) = Len(r)
    BY <1>4, <2>3, <2>6
  <2> HIDE DEF s
  <2>11. s \in Seq(CacheEntry)
    BY <2>6, <2>7
  <2>12. Has(o.string_store, k)
    BY <1>1, <1>8
  <2> QED BY <1>3, <2>7, <2>9, <2>10, <2>11, <2>12 DEF m, s, old, c, o
<1>9. CASE ~Has(d.string_store, k)
  <2> DEFINE n == IF Len(d.lru_order) < MaxCapacity THEN 0
                  ELSE Len(d.lru_order) - MaxCapacity + 1
             m == MakeRoom(o)
  <2>1. m = EvictLast(o, n)
    BY <1>1, <1>2, RoomExact
  <2>2. n \in 0..Len(o.lru_order) /\ n \in Int
    BY <1>1, <1>4, <1>5, <1>6
  <2> HIDE DEF m
  <2>3. /\ Len(m.lru_order) = Len(d.lru_order) - n
        /\ \A i \in 1..(Len(d.lru_order) - n) : m.lru_order[i] = d.lru_order[i]
    <3> HIDE DEF n
    <3>1. /\ Len(EvictLast(o, n).lru_order) = Len(o.lru_order) - n
          /\ \A i \in 1..(Len(o.lru_order) - n) :
                EvictLast(o, n).lru_order[i] = o.lru_order[i]
      BY <1>1, <1>2, <2>2, EvictLastExact
    <3> QED BY <1>1, <2>1, <3>1
  <2>4. old = c
    BY <1>4, <1>9, OthersNone
  <2>5. /\ s \in Seq(CacheEntry) /\ Len(s) = Len(c) - n
        /\ \A i \in 1..Len(s) : s[i] = c[i]
    <3>1. CASE Len(c) < MaxCapacity
      BY <1>4, <2>4, <3>1 DEF Kept
    <3>2. CASE ~(Len(c) < MaxCapacity)
      <4>1. Len(c) = MaxCapacity /\ n = 1 /\ MaxCapacity - 1 \in 0..Len(c)
        BY <1>4, <1>5, <1>6, <3>2
      <4>2. s = SubSeq(c, 1, MaxCapacity - 1)
        BY <2>4, <3>2 DEF Kept
      <4> HIDE DEF s
      <4>3. \A i \in 1..(MaxCapacity - 1) : c[i] \in CacheEntry
        BY <1>4, <4>1, ElementOfSeq
      <4>4. /\ s \in Seq(CacheEntry)
            /\ Len(s) = IF 1 <= MaxCapacity - 1 THEN MaxCapacity - 1 - 1 + 1 ELSE 0
            /\ \A i \in 1..(MaxCapacity - 1 - 1 + 1) : s[i] = c[1 + i - 1]
        BY <1>6, <4>2, <4>3, SubSeqProperties
      <4>5. Len(s) = MaxCapacity - 1 /\ \A i \in 1..(MaxCapacity - 1) : s[i] = c[i]
        BY <1>6, <4>4
      <4> QED BY <1>4, <1>6, <4>1, <4>4, <4>5
    <3> QED BY <3>1, <3>2
  <2> HIDE DEF s, old
  <2>6. ASSUME NEW i \in 1..Len(s)
        PROVE  \E q \in 1..Len(d.lru_order) :
                  m.lru_order[i] = d.lru_order[q] /\ s[i] = c[q] /\ d.lru_order[q].key # k
    <3>1. i \in 1..Len(d.lru_order) /\ m.lru_order[i] = d.lru_order[i] /\ s[i] = c[i]
      BY <1>1, <1>4, <2>2, <2>3, <2>5
    <3>2. d.lru_order[i].key # k
      BY <1>4, <1>7, <1>9, <3>1 DEF Cached
    <3> QED BY <3>1, <3>2
  <2>7. Len(m.lru_order) = Len(s)
    BY <1>4, <2>3, <2>5
  <2>8. ~Has(o.string_store, k)
    BY <1>1, <1>9
  <2> QED BY <1>3, <2>5, <2>6, <2>7, <2>8 DEF m, s, old, c, o
<1> QED BY <1>8, <1>9

\* set() is a write of the cache.
LEMMA SetCache ==
    ASSUME NEW d, Sound(d), Exact(d), NoLists(d), Fits(d), NEW k \in Key, NEW v \in Value,
           \E c \in Cell : FreeCell(d, c)
    PROVE  LET e == Set(d, k, v)
           IN  /\ SetHasRoom(d, k)
               /\ Exact(e) /\ NoLists(e)
               /\ CacheOf(e) = <<[key |-> k, value |-> v]>> \o Kept(Cache!Others(CacheOf(d), k))
<1> DEFINE o == Overwrite(d, k)
           m == IF Has(o.string_store, k) THEN Unlink(o, k) ELSE MakeRoom(o)
           s == Kept(Cache!Others(CacheOf(d), k))
           c == CacheOf(d)
           e == Set(d, k, v)
<1>1. /\ SetHasRoom(d, k)
      /\ s \in Seq(CacheEntry)
      /\ Len(m.lru_order) = Len(s)
      /\ \A i \in 1..Len(s) : \E q \in 1..Len(d.lru_order) :
            /\ m.lru_order[i] = d.lru_order[q]
            /\ s[i] = c[q]
            /\ d.lru_order[q].key # k
  BY SetKeeps
<1>2. /\ Exact(e) /\ NoLists(e)
      /\ Len(e.lru_order) = Len(m.lru_order) + 1
      /\ e.lru_order[1].key = k
      /\ \A i \in 1..Len(m.lru_order) : e.lru_order[i + 1] = m.lru_order[i]
  BY <1>1, SetExact
<1>3. Sound(e)
  BY <1>1, SetSound
<1>4. /\ e.string_store[k] = v
      /\ \A j \in Key \ {k} : SameAt(d, e, j) \/ ~Present(e, j)
  BY <1>1, SetSeen
<1>5. \A i \in 1..Len(d.lru_order) :
         c[i] = [key |-> d.lru_order[i].key, value |-> d.string_store[d.lru_order[i].key]]
  BY CacheFacts
<1>6. e.lru_order \in Seq(Node) /\ Len(s) \in Nat
  BY <1>1, <1>3, SoundDatabase, LenProperties DEF Database
<1> HIDE DEF o, m, s, e, c
<1>7. ASSUME NEW i \in 1..Len(s)
      PROVE  e.lru_order[i + 1].key = s[i].key /\ e.string_store[s[i].key] = s[i].value
  <2>1. PICK q \in 1..Len(d.lru_order) :
           m.lru_order[i] = d.lru_order[q] /\ s[i] = c[q] /\ d.lru_order[q].key # k
    BY <1>1
  <2> DEFINE l == d.lru_order[q].key
  <2>2. s[i] = [key |-> l, value |-> d.string_store[l]]
    BY <1>5, <2>1
  <2>3. i + 1 \in 1..Len(e.lru_order) /\ e.lru_order[i + 1] = d.lru_order[q]
    BY <1>1, <1>2, <1>6, <2>1
  <2>4. e.lru_order[i + 1].key = l
    BY <2>3
  <2>5. l \in Key
    <3>1. e.lru_order[i + 1] \in Node
      BY <1>6, <2>3, ElementOfSeq
    <3> QED BY <2>4, <3>1 DEF Node
  <2>6. Has(e.string_store, l)
    BY <1>2, <2>3, <2>4 DEF Exact
  <2>7. e.string_store[l] = d.string_store[l]
    BY <1>4, <2>1, <2>5, <2>6 DEF Present, SameAt
  <2> HIDE DEF l
  <2> QED BY <2>2, <2>4, <2>7
<1>8. CacheOf(e) = <<[key |-> k, value |-> e.string_store[k]]>> \o s
  <2>1. Len(e.lru_order) = Len(s) + 1
    BY <1>1, <1>2
  <2> QED BY <1>1, <1>2, <1>3, <1>7, <2>1, CachePushed
<1> QED BY <1>1, <1>2, <1>4, <1>8 DEF s, e

-----------------------------------------------------------------------------
(* The order of the nodes as a set of pairs of keys. *)

Pairs(c) == {p \in Key \X Key : Before(c, p[1], p[2])}

\* What a write keeps of the other entries is in their order, in front of what it cuts.
LEMMA KeptOrder ==
    ASSUME NEW o \in Seq(CacheEntry), OnceEach(o), NEW s, s = Kept(o)
    PROVE  /\ s \in Seq(CacheEntry) /\ OnceEach(s)
           /\ \A a : Cached(s, a) => Cached(o, a)
           /\ \A a, b : Before(s, a, b) <=> Cached(s, a) /\ Cached(s, b) /\ Before(o, a, b)
           /\ \A a, b : Cached(s, a) /\ Cached(o, b) /\ ~Cached(s, b)
                           => Before(o, a, b) /\ ~(Len(o) < MaxCapacity)
<1>1. CASE Len(o) < MaxCapacity
  <2>1. s = o
    BY <1>1 DEF Kept
  <2> QED BY <2>1 DEF Cached, Before
<1>2. CASE ~(Len(o) < MaxCapacity)
  <2>1. MaxCapacity - 1 \in 0..Len(o)
    BY <1>2, CapacityAssumption, LenProperties
  <2>2. s = SubSeq(o, 1, MaxCapacity - 1)
    BY <1>2 DEF Kept
  <2> DEFINE n == MaxCapacity - 1
  <2> HIDE DEF n
  <2> QED BY <1>2, <2>1, <2>2, PrefixOrder DEF n
<1> QED BY <1>1, <1>2

\* The pairs of cache e, when a use of k made it of cache c.
PairsAfter(c, k, e) ==
    {p \in {p \in Pairs(c) : k \notin {p[1], p[2]}} \cup {<<k, j>> : j \in Key \ {k}} :
        Cached(e, p[1]) /\ Cached(e, p[2])}

\* A use puts its key in front of every other and leaves the order of those.
LEMMA UsePairs ==
    ASSUME NEW c \in Seq(CacheEntry), OnceEach(c), NEW x \in CacheEntry,
           NEW s \in Seq(CacheEntry), OnceEach(s),
           \A a : Cached(s, a) => Cached(Cache!Others(c, x.key), a),
           \A a, b : Before(s, a, b) <=>
              Cached(s, a) /\ Cached(s, b) /\ Before(Cache!Others(c, x.key), a, b)
    PROVE  Pairs(<<x>> \o s) = PairsAfter(c, x.key, <<x>> \o s)
<1> DEFINE k == x.key
           e == <<x>> \o s
           o == Cache!Others(c, k)
<1>0. k \in Key
  BY DEF CacheEntry, k
<1>1. /\ \A a : Cached(o, a) <=> a # k /\ Cached(c, a)
      /\ \A a, b : Before(o, a, b) <=> a # k /\ b # k /\ Before(c, a, b)
  BY OthersOrder
<1> HIDE DEF o, k, e
<1>2. ~Cached(s, k)
  BY <1>1 DEF o, k
<1>3. /\ \A a : Cached(e, a) <=> a = k \/ Cached(s, a)
      /\ \A a, b : Before(e, a, b) <=> (a = k /\ Cached(s, b)) \/ Before(s, a, b)
  BY <1>2, FrontOrder DEF k, e
<1>4. \A a, b : Before(s, a, b) <=>
         Cached(s, a) /\ Cached(s, b) /\ a # k /\ b # k /\ Before(c, a, b)
  BY <1>1 DEF o, k
<1>5. ASSUME NEW a \in Key, NEW b \in Key
      PROVE  Before(e, a, b) <=>
                /\ Cached(e, a) /\ Cached(e, b)
                /\ (k # a /\ k # b /\ Before(c, a, b)) \/ (a = k /\ b # k)
  BY <1>2, <1>3, <1>4
<1> DEFINE R == PairsAfter(c, k, e)
<1>6. ASSUME NEW a \in Key, NEW b \in Key
      PROVE  <<a, b>> \in Pairs(e) <=> <<a, b>> \in R
  <2>1. <<a, b>> \in Pairs(e) <=> Before(e, a, b)
    BY DEF Pairs
  <2>2. <<a, b>> \in Pairs(c) <=> Before(c, a, b)
    BY DEF Pairs
  <2>3. <<a, b>> \in {<<k, j>> : j \in Key \ {k}} <=> a = k /\ b # k
    OBVIOUS
  <2>4. <<a, b>> \in R <=>
           /\ Cached(e, a) /\ Cached(e, b)
           /\ (<<a, b>> \in Pairs(c) /\ k # a /\ k # b) \/ (a = k /\ b # k)
    BY <2>3 DEF PairsAfter
  <2> QED BY <1>5, <2>1, <2>2, <2>4
<1>7. Pairs(e) \subseteq Key \X Key /\ R \subseteq Key \X Key
  BY <1>0 DEF Pairs, PairsAfter
<1> HIDE DEF R
<1>8. \A p \in Key \X Key : p \in Pairs(e) <=> p \in R
  BY <1>6
<1>9. Pairs(e) = R
  BY <1>7, <1>8
<1> QED BY <1>9 DEF R, k, e

\* Losing an entry, or nothing, takes pairs away and makes none.
LEMMA KeepPairs ==
    ASSUME NEW c \in Seq(CacheEntry), OnceEach(c), NEW k, NEW e,
           e = c \/ e = Cache!Others(c, k)
    PROVE  Pairs(e) = {p \in Pairs(c) : Cached(e, p[1]) /\ Cached(e, p[2])}
<1>1. ASSUME NEW a, NEW b
      PROVE  Before(e, a, b) <=> Before(c, a, b) /\ Cached(e, a) /\ Cached(e, b)
  <2>1. Before(c, a, b) => Cached(c, a) /\ Cached(c, b)
    BY DEF Before, Cached
  <2>2. CASE e = c
    BY <2>1, <2>2
  <2>3. CASE e = Cache!Others(c, k)
    BY <2>1, <2>3, OthersOrder
  <2> QED BY <2>2, <2>3
<1> QED BY <1>1 DEF Pairs

-----------------------------------------------------------------------------
(* The invariant. *)

LruInv == /\ IInv /\ up
          /\ Exact(db) /\ NoLists(db)
          /\ recency = Pairs(CacheOf(db))

\* What a step does to the cache when it counts as a use of k, with value v.
Used(c, e, k, v) ==
    \E s \in Seq(CacheEntry) :
       /\ s = Cache!Others(c, k) \/ s = Kept(Cache!Others(c, k))
       /\ e = <<[key |-> k, value |-> v]>> \o s

\* After a use the history is still the order of the nodes.
LEMMA UseOrder ==
    ASSUME LruInv, NEW d, d = db', Sound(d), Exact(d), NEW k \in Key, NEW v \in Value,
           Used(CacheOf(db), CacheOf(d), k, v), Use(k)
    PROVE  recency' = Pairs(CacheOf(d))
<1> DEFINE c == CacheOf(db)
           e == CacheOf(d)
           x == [key |-> k, value |-> v]
           o == Cache!Others(c, k)
<1>1. c \in Seq(CacheEntry) /\ OnceEach(c) /\ recency = Pairs(c)
  BY CacheFacts DEF LruInv, IInv
<1>2. \A a \in Key : Has(d.string_store, a) <=> Cached(e, a)
  BY CacheFacts
<1>3. x \in CacheEntry /\ x.key = k
  BY DEF CacheEntry
<1>4. PICK s \in Seq(CacheEntry) : (s = o \/ s = Kept(o)) /\ e = <<x>> \o s
  BY DEF Used
<1> HIDE DEF c, e, x, o
<1>5. o \in Seq(CacheEntry) /\ OnceEach(o)
  BY <1>1, OthersOrder DEF o
<1>6. /\ OnceEach(s)
      /\ \A a : Cached(s, a) => Cached(o, a)
      /\ \A a, b : Before(s, a, b) <=> Cached(s, a) /\ Cached(s, b) /\ Before(o, a, b)
  <2>1. CASE s = o
    BY <1>5, <2>1 DEF Before, Cached
  <2>2. CASE s = Kept(o)
    BY <1>5, <2>2, KeptOrder
  <2> QED BY <1>4, <2>1, <2>2
<1>7. Pairs(e) = PairsAfter(c, k, e)
  BY <1>1, <1>3, <1>4, <1>6, UsePairs DEF o
<1>8. ASSUME NEW p
      PROVE  p \in recency' <=> p \in PairsAfter(c, k, e)
  <2> DEFINE older == {q \in Pairs(c) : k \notin {q[1], q[2]}} \cup {<<k, j>> : j \in Key \ {k}}
  <2>1. recency' = {q \in older : Has(d.string_store, q[1]) /\ Has(d.string_store, q[2])}
    BY <1>1 DEF Use, Strings
  <2>2. PairsAfter(c, k, e) = {q \in older : Cached(e, q[1]) /\ Cached(e, q[2])}
    BY DEF PairsAfter
  <2>3. \A q \in older : q[1] \in Key /\ q[2] \in Key
    BY DEF Pairs
  <2> HIDE DEF older
  <2> QED BY <1>2, <2>1, <2>2, <2>3
<1>10. recency' = Pairs(e)
  <2>1. recency' \subseteq PairsAfter(c, k, e) /\ PairsAfter(c, k, e) \subseteq recency'
    BY <1>8
  <2> QED BY <1>7, <2>1
<1> QED BY <1>10 DEF e

\* Nor does a step that drops one entry, or none, disturb it.
LEMMA KeepOrder ==
    ASSUME LruInv, NEW d, d = db', Sound(d), Exact(d), NEW k,
           CacheOf(d) = CacheOf(db) \/ CacheOf(d) = Cache!Others(CacheOf(db), k), Keep
    PROVE  recency' = Pairs(CacheOf(d))
<1> DEFINE c == CacheOf(db)
           e == CacheOf(d)
<1>1. c \in Seq(CacheEntry) /\ OnceEach(c) /\ recency = Pairs(c)
  BY CacheFacts DEF LruInv, IInv
<1>2. \A a \in Key : Has(d.string_store, a) <=> Cached(e, a)
  BY CacheFacts
<1>3. Pairs(e) = {p \in Pairs(c) : Cached(e, p[1]) /\ Cached(e, p[2])}
  BY <1>1, KeepPairs
<1>4. recency' = {p \in Pairs(c) : Has(d.string_store, p[1]) /\ Has(d.string_store, p[2])}
  BY <1>1 DEF Keep, Strings
<1>5. \A p \in Pairs(c) : p[1] \in Key /\ p[2] \in Key
  BY DEF Pairs
<1> HIDE DEF c, e
<1>6. recency' = Pairs(e)
  BY <1>2, <1>3, <1>4, <1>5
<1> QED BY <1>6 DEF e

-----------------------------------------------------------------------------
(* The steps. *)

\* What every step keeps beside the history.
Stepped == IInv' /\ up' /\ Exact(db') /\ NoLists(db')

\* The mapping reads the next database.
LEMMA CacheNext == CacheOf(db)' = CacheOf(db')
BY DEF CacheOf

\* A SET writes the cache and always finds room.
LEMMA SetStep ==
    ASSUME LruInv, NEW k \in Key, NEW v \in Value, HandleSet(k, v)
    PROVE  /\ Stepped
           /\ CacheOf(db') = <<[key |-> k, value |-> v]>> \o Kept(Cache!Others(CacheOf(db), k))
           /\ Used(CacheOf(db), CacheOf(db'), k, v)
           /\ Cache!Write(k, v)
<1>1. IInv'
  <2>1. HandleCommand
    BY DEF HandleCommand
  <2> QED BY <2>1, NextIInv DEF Next, LruInv
<1>2. Sound(db) /\ Fits(db) /\ Exact(db) /\ NoLists(db) /\ \E c \in Cell : FreeCell(db, c)
  BY DEF LruInv, IInv, HandleSet, HeapHasCell
<1>3. /\ SetHasRoom(db, k)
      /\ Exact(Set(db, k, v)) /\ NoLists(Set(db, k, v))
      /\ CacheOf(Set(db, k, v))
           = <<[key |-> k, value |-> v]>> \o Kept(Cache!Others(CacheOf(db), k))
  BY <1>2, SetCache
<1>4. db' = Set(db, k, v) /\ reply' = Ok /\ up' = (Ok # Aborted)
  BY <1>3 DEF HandleSet, Serve, DoSet, Result
<1>5. up'
  BY <1>4 DEF Ok, Aborted
<1>6. Stepped
  BY <1>1, <1>3, <1>4, <1>5 DEF Stepped
<1> DEFINE o == Cache!Others(CacheOf(db), k)
<1>7. CacheOf(db') = <<[key |-> k, value |-> v]>> \o Kept(o)
  BY <1>3, <1>4
<1>8. Kept(o) \in Seq(CacheEntry)
  <2>1. CacheOf(db) \in Seq(CacheEntry) /\ OnceEach(CacheOf(db))
    BY <1>2, CacheFacts
  <2>2. o \in Seq(CacheEntry) /\ OnceEach(o)
    BY <2>1, OthersOrder
  <2> QED BY <2>2, KeptOrder
<1>9. Cache!Write(k, v)
  BY <1>4, <1>7, CacheNext DEF Cache!Write, Kept, Ok
<1>10. Used(CacheOf(db), CacheOf(db'), k, v)
  BY <1>7, <1>8 DEF Used
<1> QED BY <1>6, <1>7, <1>9, <1>10

\* A GET is a read of the cache that hits, or one that misses.
LEMMA GetStep ==
    ASSUME LruInv, NEW k \in Key, HandleGet(k)
    PROVE  /\ Stepped
           /\ \/ Cache!Read(k) /\ \E v \in Value : Used(CacheOf(db), CacheOf(db'), k, v)
              \/ Cache!Miss(k) /\ CacheOf(db') = Cache!Others(CacheOf(db), k)
                               /\ ~Has(db'.string_store, k)
<1> DEFINE f == LazyEvict(db, k, now)
           c == CacheOf(db)
<1>1. IInv'
  <2>1. HandleCommand
    BY DEF HandleCommand
  <2> QED BY <2>1, NextIInv DEF Next, LruInv
<1>2. Sound(db) /\ Exact(db) /\ NoLists(db) /\ now \in Int /\ up
  BY LoopAssumption DEF LruInv, IInv
<1>3. /\ Sound(f) /\ Exact(f) /\ NoLists(f)
      /\ Has(f.string_store, k) => f = db
      /\ ~Has(f.string_store, k) => CacheOf(f) = Cache!Others(c, k)
  BY <1>2, LazyEvictCache
<1>4. ~IsList(f, k)
  BY <1>3 DEF IsList, NoLists
<1>5. DoGet(db, k, now) = IF IsString(f, k) THEN Result(Touch(f, k), Bulk(f.string_store[k]))
                          ELSE Result(f, Nil)
  BY <1>4 DEF DoGet
<1>6. \A b : Bulk(b) # Aborted
  BY DEF Bulk, Aborted
<1>7. CASE Has(f.string_store, k)
  <2>1. f = db
    BY <1>3, <1>7
  <2> DEFINE v == db.string_store[k]
             s == Cache!Others(c, k)
  <2>2. /\ Exact(Touch(db, k)) /\ NoLists(Touch(db, k))
        /\ CacheOf(Touch(db, k)) = <<[key |-> k, value |-> v]>> \o s
    BY <1>2, <1>7, <2>1, TouchCache
  <2>3. db' = Touch(db, k) /\ reply' = Bulk(v) /\ up' = (Bulk(v) # Aborted)
    <3>1. DoGet(db, k, now) = Result(Touch(db, k), Bulk(v))
      BY <1>5, <1>7, <2>1 DEF IsString
    <3> QED BY <3>1 DEF HandleGet, Serve, Result
  <2>4. up'
    BY <1>6, <2>3
  <2>5. v \in Value
    <3>1. db.string_store \in [Key -> Value \cup {Absent}]
      BY <1>2, SoundDatabase DEF Database
    <3> QED BY <1>7, <2>1, <3>1 DEF Has
  <2>6. /\ c \in Seq(CacheEntry) /\ OnceEach(c) /\ Len(c) = Len(db.lru_order)
        /\ \A i \in 1..Len(c) : c[i] = [key |-> db.lru_order[i].key,
                                        value |-> db.string_store[db.lru_order[i].key]]
        /\ Cached(c, k)
    BY <1>2, <1>7, <2>1, CacheFacts
  <2> HIDE DEF c, f
  <2>7. s \in Seq(CacheEntry)
    BY <2>6, OthersOrder
  <2>8. PICK i \in 1..Len(c) : c[i].key = k
    BY <2>6 DEF Cached
  <2>9. c[i] = [key |-> k, value |-> v]
    <3> DEFINE l == db.lru_order[i].key
    <3>1. c[i] = [key |-> l, value |-> db.string_store[l]]
      BY <2>6
    <3> HIDE DEF l
    <3>2. l = k
      BY <2>8, <3>1
    <3> QED BY <3>1, <3>2
  <2> HIDE DEF v, s
  <2>10. CacheOf(db') = <<[key |-> k, value |-> v]>> \o s
    BY <2>2, <2>3
  <2>11. Cache!Read(k)
    <3>1. c[i].value = v
      BY <2>9
    <3>2. CacheOf(db') = <<c[i]>> \o s
      BY <2>9, <2>10
    <3> QED BY <2>3, <2>8, <3>1, <3>2, CacheNext DEF Cache!Read, Bulk, c, s
  <2>12. Used(c, CacheOf(db'), k, v)
    BY <2>7, <2>10 DEF Used, s
  <2> QED BY <1>1, <2>2, <2>3, <2>4, <2>5, <2>11, <2>12 DEF Stepped, c
<1>8. CASE ~Has(f.string_store, k)
  <2>1. db' = f /\ reply' = Nil /\ up' = (Nil # Aborted)
    <3>1. DoGet(db, k, now) = Result(f, Nil)
      BY <1>5, <1>8 DEF IsString
    <3> QED BY <3>1 DEF HandleGet, Serve, Result
  <2>2. up'
    BY <1>6, <2>1 DEF Nil
  <2>3. CacheOf(db') = Cache!Others(c, k)
    BY <1>3, <1>8, <2>1
  <2>4. Cache!Miss(k)
    BY <2>1, <2>3, CacheNext DEF Cache!Miss, Cache!Drop, Nil, Bulk
  <2> QED BY <1>1, <1>3, <1>8, <2>1, <2>2, <2>3, <2>4 DEF Stepped
<1> QED BY <1>7, <1>8

\* EXISTS, TTL and EXPIRE look at the deadline and touch no node of another key.
LEMMA QuietStep ==
    ASSUME LruInv, NEW k \in Key,
           HandleExists(k) \/ HandleTtl(k) \/ \E s \in Seconds : HandleExpire(k, s)
    PROVE  /\ Stepped
           /\ CacheOf(db') = CacheOf(db) \/ CacheOf(db') = Cache!Others(CacheOf(db), k)
           /\ Cache!Other(k) /\ reply' \in [int : Int] \cup {Err}
<1> DEFINE f == LazyEvict(db, k, now)
           c == CacheOf(db)
<1>1. IInv'
  <2>1. HandleCommand
    BY DEF HandleCommand
  <2> QED BY <2>1, NextIInv DEF Next, LruInv
<1>2. Sound(db) /\ Exact(db) /\ NoLists(db) /\ now \in Int /\ up
  BY LoopAssumption DEF LruInv, IInv
<1>3. /\ Sound(f) /\ Exact(f) /\ NoLists(f)
      /\ CacheOf(f) = c \/ CacheOf(f) = Cache!Others(c, k)
  BY <1>2, LazyEvictCache
<1>4. PICK r : /\ r.db = f \/ r.db = db \/ \E t : r.db = ExpireAt(f, k, t)
               /\ r.reply \in [int : Int] \cup {Err}
               /\ Serve(r)
  <2>1. CASE HandleExists(k)
    <3>1. DoExists(db, k, now).db = f /\ DoExists(db, k, now).reply \in [int : Int]
      BY DEF DoExists, Result, Integer
    <3> QED BY <2>1, <3>1 DEF HandleExists
  <2>2. CASE HandleTtl(k)
    <3>1. f.expiry \in [Key -> Int \cup {Absent}]
      BY <1>3, SoundDatabase DEF Database
    <3> HIDE DEF f
    <3>2. Has(f.expiry, k) => (f.expiry[k] - now) \div MsPerSecond \in Int
      BY <1>2, <3>1, UnitsAssumption DEF Has
    <3>3. DoTtl(db, k, now).db = f /\ DoTtl(db, k, now).reply \in [int : Int]
      BY <3>2 DEF DoTtl, Result, Integer, f
    <3> QED BY <2>2, <3>3 DEF HandleTtl
  <2>3. CASE \E s \in Seconds : HandleExpire(k, s)
    <3>1. PICK s \in Seconds : HandleExpire(k, s)
      BY <2>3
    <3> DEFINE q == DoExpire(db, k, s, now)
    <3>2. /\ q.db = db \/ \E t : q.db = ExpireAt(f, k, t)
          /\ q.reply \in [int : Int] \cup {Err}
      BY DEF DoExpire, Expire, Result, Integer
    <3>3. Serve(q)
      BY <3>1 DEF HandleExpire
    <3> HIDE DEF q
    <3> QED BY <3>2, <3>3
  <2> QED BY <2>1, <2>2, <2>3
<1>5. /\ db'.lru_order = f.lru_order \/ db' = db
      /\ db' # db => /\ db'.lru_position = f.lru_position
                     /\ db'.string_store = f.string_store
                     /\ db'.list_store = f.list_store
                     /\ db'.lru_order = f.lru_order
  <2>1. f \in Database
    BY <1>3, SoundDatabase
  <2>2. ASSUME NEW t
        PROVE  LET e == ExpireAt(f, k, t)
               IN  /\ e.lru_position = f.lru_position /\ e.lru_order = f.lru_order
                   /\ e.string_store = f.string_store /\ e.list_store = f.list_store
    <3> HIDE DEF f
    <3> QED BY <2>1 DEF ExpireAt, Database
  <2> HIDE DEF f
  <2> QED BY <1>4, <2>2 DEF Serve
<1> HIDE DEF c, f
<1>6. /\ Exact(db') /\ NoLists(db')
      /\ CacheOf(db') = c \/ CacheOf(db') = Cache!Others(c, k)
  <2>1. CASE db' = db
    BY <1>2, <2>1 DEF c
  <2>2. CASE db' # db
    <3>1. CacheOf(db') = CacheOf(f)
      BY <1>5, <2>2 DEF CacheOf
    <3>2. Exact(db') /\ NoLists(db')
      BY <1>3, <1>5, <2>2 DEF Exact, Points, NoLists
    <3> QED BY <1>3, <3>1, <3>2
  <2> QED BY <2>1, <2>2
<1>7. reply' \in [int : Int] \cup {Err} /\ up'
  <2>1. Aborted \notin [int : Int] \cup {Err}
    BY DEF Aborted, Err
  <2> QED BY <1>4, <2>1 DEF Serve
<1>8. Cache!Other(k)
  BY <1>6, CacheNext DEF Cache!Other, Cache!Drop, c
<1> QED BY <1>1, <1>6, <1>7, <1>8 DEF Stepped, c

\* Every step keeps the invariant, is a step of the cache or leaves it alone.
LEMMA StringsStep ==
    ASSUME LruInv, [NextStrings]_lruvars
    PROVE  LruInv' /\ [Cache!LNext]_(Cache!lvars)
<1> DEFINE d == db'
<1>1. ASSUME Stepped
      PROVE  Sound(d) /\ Exact(d) /\ (recency' = Pairs(CacheOf(d)) => LruInv')
  BY <1>1, CacheNext DEF Stepped, LruInv, IInv, Exact, NoLists, Pairs, Before
<1>2. ASSUME NEW k \in Key, NEW v \in Value, HandleSet(k, v), Use(k)
      PROVE  LruInv' /\ Cache!LNext
  <2>1. Stepped /\ Used(CacheOf(db), CacheOf(d), k, v) /\ Cache!Write(k, v)
    BY <1>2, SetStep
  <2>2. recency' = Pairs(CacheOf(d))
    BY <1>1, <1>2, <2>1, UseOrder
  <2> QED BY <1>1, <2>1, <2>2 DEF Cache!LNext
<1>3. ASSUME NEW k \in Key, HandleGet(k), Use(k)
      PROVE  LruInv' /\ Cache!LNext
  <2>1. Stepped
    BY <1>3, GetStep
  <2>2. CASE Cache!Read(k) /\ \E v \in Value : Used(CacheOf(db), CacheOf(d), k, v)
    <3>1. recency' = Pairs(CacheOf(d))
      BY <1>1, <1>3, <2>1, <2>2, UseOrder
    <3> QED BY <1>1, <2>1, <2>2, <3>1 DEF Cache!LNext
  <2>3. CASE /\ Cache!Miss(k) /\ CacheOf(d) = Cache!Others(CacheOf(db), k)
             /\ ~Has(d.string_store, k)
    <3>1. Keep
      <4> DEFINE used == {p \in recency : k \notin {p[1], p[2]}} \cup {<<k, j>> : j \in Key \ {k}}
      <4>1. ASSUME NEW p, Has(d.string_store, p[1]), Has(d.string_store, p[2])
            PROVE  p \in used <=> p \in recency
        <5>1. p[1] # k /\ p[2] # k
          BY <2>3, <4>1
        <5>2. p \notin {<<k, j>> : j \in Key \ {k}}
          BY <5>1
        <5> QED BY <5>1, <5>2
      <4>2. recency' = Strings(used)
        BY <1>3 DEF Use
      <4> HIDE DEF used
      <4>3. ASSUME NEW p
            PROVE  p \in Strings(used) <=> p \in Strings(recency)
        BY <4>1 DEF Strings
      <4>4. Strings(used) \subseteq Strings(recency) /\ Strings(recency) \subseteq Strings(used)
        BY <4>3
      <4> QED BY <4>2, <4>4 DEF Keep
    <3>2. recency' = Pairs(CacheOf(d))
      BY <1>1, <2>1, <2>3, <3>1, KeepOrder
    <3> QED BY <1>1, <2>1, <2>3, <3>2 DEF Cache!LNext
  <2> QED BY <1>3, <2>2, <2>3, GetStep
<1>4. ASSUME NEW k \in Key, Keep,
             HandleExists(k) \/ HandleTtl(k) \/ \E s \in Seconds : HandleExpire(k, s)
      PROVE  LruInv' /\ Cache!LNext
  <2>1. /\ Stepped
        /\ CacheOf(d) = CacheOf(db) \/ CacheOf(d) = Cache!Others(CacheOf(db), k)
        /\ Cache!Other(k) /\ reply' \in [int : Int] \cup {Err}
    BY <1>4, QuietStep
  <2>2. recency' = Pairs(CacheOf(d))
    BY <1>1, <1>4, <2>1, KeepOrder
  <2> QED BY <1>1, <2>1, <2>2 DEF Cache!LNext
<1>5. ASSUME UNCHANGED <<db, up, reply>>, IInv', Keep \/ UNCHANGED recency
      PROVE  LruInv' /\ UNCHANGED Cache!lvars
  <2>1. Stepped
    BY <1>5 DEF Stepped, LruInv
  <2>2. recency' = Pairs(CacheOf(d))
    <3>1. CASE UNCHANGED recency
      BY <1>5, <3>1 DEF LruInv
    <3>2. CASE Keep
      <4>1. CacheOf(d) = CacheOf(db)
        BY <1>5
      <4> QED BY <1>1, <2>1, <3>2, <4>1, KeepOrder
    <3> QED BY <1>5, <3>1, <3>2
  <2> QED BY <1>1, <1>5, <2>1, <2>2, CacheNext DEF Cache!lvars
<1>6. CASE Advance /\ Keep
  <2>1. IInv'
    BY <1>6, NextIInv DEF Next, LruInv
  <2> QED BY <1>5, <1>6, <2>1 DEF Advance
<1>7. CASE UNCHANGED lruvars
  <2>1. UNCHANGED vars /\ UNCHANGED recency
    BY <1>7 DEF lruvars
  <2>2. IInv'
    BY <2>1, NextIInv DEF LruInv
  <2> QED BY <1>5, <2>1, <2>2 DEF vars
<1> QED BY <1>2, <1>3, <1>4, <1>6, <1>7 DEF NextStrings

\* The empty list is the empty cache, and nothing has been used.
LEMMA InitLru == InitStrings => LruInv /\ Cache!LInit
<1> SUFFICES ASSUME InitStrings
             PROVE  LruInv /\ Cache!LInit
  OBVIOUS
<1>1. IInv /\ up /\ db = EmptyDb /\ reply = Ok /\ recency = {}
  BY InitIInv DEF InitStrings, Init
<1>2. db.lru_order = <<>> /\ Exact(db) /\ NoLists(db)
  BY <1>1 DEF EmptyDb, EmptyMap, Exact, NoLists, Has
<1>3. CacheOf(db) = <<>>
  BY <1>2 DEF CacheOf
<1>4. Pairs(<<>>) = {}
  BY DEF Pairs, Before
<1> QED BY <1>1, <1>2, <1>3, <1>4 DEF LruInv, Cache!LInit, Ok

\* The invariant holds throughout every behaviour of strings alone.
LEMMA SpecLruInv == SpecStrings => []LruInv
BY InitLru, StringsStep, PTL DEF SpecStrings

\* Without DEL, lists and the sweep, lru_order_ is an LRU cache of max_capacity_
\* entries, answers included, for every set of keys, every capacity and every clock.
THEOREM ListIsLruCache == SpecStrings => ImplementsLruCache
<1>1. LruInv /\ [NextStrings]_lruvars => [Cache!LNext]_(Cache!lvars)
  BY StringsStep
<1> QED BY <1>1, InitLru, SpecLruInv, PTL DEF SpecStrings, ImplementsLruCache, Cache!LSpec

\* A SET of another key never costs a string that was used after one it keeps.
THEOREM LeastRecentlyUsedEvicted == SpecStrings => EvictsLeastRecentlyUsed
<1> DEFINE A == \A k \in Key :
                   /\ Has(db.string_store, k) /\ ~Has(db'.string_store, k)
                   /\ \E j \in Key \ {k}, v \in Value : HandleSet(j, v)
                   => \A j \in Key : Has(db'.string_store, j) /\ Has(db.string_store, j)
                         => <<j, k>> \in recency
<1>1. LruInv => A
  <2> SUFFICES ASSUME LruInv, NEW k \in Key,
                      Has(db.string_store, k), ~Has(db'.string_store, k),
                      NEW h \in Key \ {k}, NEW v \in Value, HandleSet(h, v),
                      NEW j \in Key, Has(db'.string_store, j), Has(db.string_store, j)
               PROVE  <<j, k>> \in recency
    BY DEF A
  <2> DEFINE c == CacheOf(db)
             d == db'
             e == CacheOf(d)
             o == Cache!Others(c, h)
             s == Kept(o)
             x == [key |-> h, value |-> v]
  <2>1. Stepped /\ e = <<x>> \o s
    BY SetStep
  <2>2. /\ c \in Seq(CacheEntry) /\ OnceEach(c) /\ recency = Pairs(c)
        /\ Len(c) = Len(db.lru_order) /\ Len(c) \in Nat
        /\ Cached(c, k) /\ Cached(c, j)
    BY CacheFacts DEF LruInv, IInv
  <2>3. Len(c) <= MaxCapacity
    BY <2>2, ExactCount DEF LruInv, IInv, Fits
  <2>4. Sound(d) /\ Exact(d)
    BY <2>1 DEF Stepped, IInv, Exact
  <2>5. Cached(e, j) /\ ~Cached(e, k)
    BY <2>4, CacheFacts
  <2> HIDE DEF c, d, e
  <2>6. /\ o \in Seq(CacheEntry) /\ OnceEach(o)
        /\ Len(o) = IF Cached(c, h) THEN Len(c) - 1 ELSE Len(c)
        /\ \A a : Cached(o, a) <=> a # h /\ Cached(c, a)
        /\ \A a, b : Before(o, a, b) <=> a # h /\ b # h /\ Before(c, a, b)
    BY <2>2, OthersOrder
  <2> HIDE DEF o
  <2>7. /\ s \in Seq(CacheEntry) /\ OnceEach(s)
        /\ \A a : Cached(s, a) => Cached(o, a)
        /\ \A a, b : Cached(s, a) /\ Cached(o, b) /\ ~Cached(s, b)
                        => Before(o, a, b) /\ ~(Len(o) < MaxCapacity)
    BY <2>6, KeptOrder
  <2> HIDE DEF s
  <2>8. x \in CacheEntry /\ x.key = h
    BY DEF CacheEntry
  <2>9. \A a : Cached(e, a) <=> a = h \/ Cached(s, a)
    <3> HIDE DEF x
    <3>1. ~Cached(s, x.key)
      BY <2>6, <2>7, <2>8
    <3> QED BY <2>1, <2>7, <2>8, <3>1, FrontOrder
  <2>10. Cached(o, k) /\ ~Cached(s, k)
    BY <2>2, <2>5, <2>6, <2>9
  <2>11. CASE j = h
    <3>1. Len(o) < MaxCapacity
      BY <2>2, <2>3, <2>6, <2>11, CapacityAssumption
    <3>2. s = o
      BY <3>1 DEF Kept, s
    <3> QED BY <2>10, <3>2
  <2>12. CASE j # h
    <3>1. Before(c, j, k)
      BY <2>5, <2>6, <2>7, <2>9, <2>10, <2>12
    <3> QED BY <2>2, <3>1 DEF Pairs
  <2> QED BY <2>11, <2>12
<1>2. LruInv /\ [NextStrings]_lruvars => [A]_lruvars
  BY <1>1
<1> HIDE DEF A
<1> QED BY <1>2, SpecLruInv, PTL DEF SpecStrings, EvictsLeastRecentlyUsed, A
=============================================================================
