------------------------- MODULE ReplicationProofs -------------------------
(***************************************************************************)
(* What a replica can hold, for any number of replicas, any keys, values   *)
(* and capacity, any clock and any mix of cuts, restarts and deaths.       *)
(***************************************************************************)
EXTENDS Replication, StoreProofs

-----------------------------------------------------------------------------
(* The words of a line. *)

Word == Key \cup Value \cup Int \cup {Absent}

\* The tokens g that the first n words leave: the words that are not empty, in order.
Kept(g, words, n) ==
    /\ g \in Seq(Word) /\ Len(g) \in 0..n
    /\ \A p \in 1..Len(g) : g[p] # Empty /\ \E q \in p..n : g[p] = words[q]
    /\ \A m \in 0..n : (\A q \in 1..m : words[q] # Empty)
                          => m <= Len(g) /\ \A q \in 1..m : g[q] = words[q]
    /\ \A q \in 1..n : words[q] = Empty => Len(g) < n

\* The recursion of Tokens is well founded.
LEMMA TokensRecursion ==
    ASSUME NEW words, NEW n \in Nat
    PROVE  \E g : g = [i \in 0..n |-> IF i = 0 THEN <<>>
                                      ELSE IF words[i] = Empty THEN g[i - 1]
                                      ELSE Append(g[i - 1], words[i])]
<1> DEFINE After(s, w) == IF w = Empty THEN s ELSE Append(s, w)
           IsKept(g, m) == g = [i \in 0..m |-> IF i = 0 THEN <<>> ELSE After(g[i - 1], words[i])]
           P == {m \in 0..n : \E g : IsKept(g, m)}
<1> HIDE DEF After
<1>1. 0 \in P
  <2> DEFINE g == [i \in 0..0 |-> <<>>]
  <2>1. IsKept(g, 0)
    OBVIOUS
  <2> HIDE DEF g, IsKept
  <2> QED BY <2>1
<1>2. ASSUME NEW m \in 0..(n - 1), m \in P
      PROVE  m + 1 \in P
  <2>1. PICK g : IsKept(g, m)
    BY <1>2
  <2> DEFINE h == [i \in 0..(m + 1) |-> IF i <= m THEN g[i] ELSE After(g[m], words[m + 1])]
  <2>2. \A i \in 0..m : h[i] = g[i]
    OBVIOUS
  <2>3. ASSUME NEW i \in 0..(m + 1)
        PROVE  h[i] = IF i = 0 THEN <<>> ELSE After(h[i - 1], words[i])
    <3>1. CASE i <= m
      <4>1. i \in 0..m /\ h[i] = g[i] /\ (i # 0 => i - 1 \in 0..m)
        BY <3>1
      <4>2. g[i] = IF i = 0 THEN <<>> ELSE After(g[i - 1], words[i])
        BY <2>1, <4>1
      <4>3. i # 0 => h[i - 1] = g[i - 1]
        BY <2>2, <4>1
      <4> HIDE DEF h, IsKept
      <4> QED BY <4>1, <4>2, <4>3
    <3>2. CASE ~(i <= m)
      <4>1. i = m + 1 /\ i # 0 /\ i - 1 = m
        BY <3>2
      <4>2. h[i] = After(g[m], words[m + 1]) /\ h[m] = g[m]
        BY <4>1
      <4> HIDE DEF h, IsKept
      <4> QED BY <4>1, <4>2
    <3> QED BY <3>1, <3>2
  <2>4. h = [i \in 0..(m + 1) |-> h[i]]
    OBVIOUS
  <2>5. IsKept(h, m + 1)
    <3> HIDE DEF h
    <3> QED BY <2>3, <2>4
  <2>6. m + 1 \in 0..n
    OBVIOUS
  <2> HIDE DEF IsKept
  <2> QED BY <2>5, <2>6
<1> HIDE DEF P
<1>3. n \in P
  <2>1. 0..n \subseteq P
    BY <1>1, <1>2, UpTo
  <2> QED BY <2>1
<1>4. PICK g : IsKept(g, n)
  BY <1>3 DEF P
<1> QED BY <1>4 DEF After

\* One more word.
LEMMA KeptNext ==
    ASSUME NEW words \in Seq(Word), NEW n \in 0..(Len(words) - 1), NEW g, Kept(g, words, n),
           NEW h, h = IF words[n + 1] = Empty THEN g ELSE Append(g, words[n + 1])
    PROVE  Kept(h, words, n + 1)
<1>0. Len(words) \in Nat /\ n \in Nat /\ n + 1 \in 1..Len(words)
  BY LenProperties
<1>1. g \in Seq(Word) /\ Len(g) \in 0..n
  BY DEF Kept
<1>2. ASSUME NEW p \in 1..Len(g)
      PROVE  g[p] # Empty /\ \E q \in p..(n + 1) : g[p] = words[q]
  <2>1. PICK q \in p..n : g[p] = words[q]
    BY DEF Kept
  <2>2. q \in p..(n + 1)
    BY <1>0
  <2> QED BY <2>1, <2>2 DEF Kept
<1>3. ASSUME NEW m \in 0..n, \A q \in 1..m : words[q] # Empty
      PROVE  m <= Len(g) /\ \A q \in 1..m : g[q] = words[q]
  BY <1>3 DEF Kept
<1>4. CASE words[n + 1] = Empty
  <2>1. ASSUME NEW m \in 0..(n + 1), \A q \in 1..m : words[q] # Empty
        PROVE  m \in 0..n
    <3>1. m # n + 1
      BY <1>0, <1>4, <2>1
    <3> QED BY <1>0, <3>1
  <2>2. Len(g) \in 0..(n + 1)
    BY <1>0, <1>1
  <2>3. \A m \in 0..(n + 1) : (\A q \in 1..m : words[q] # Empty)
           => m <= Len(g) /\ \A q \in 1..m : g[q] = words[q]
    BY <1>3, <2>1
  <2>4. Len(g) < n + 1
    BY <1>0, <1>1
  <2> QED BY <1>1, <1>2, <1>4, <2>2, <2>3, <2>4 DEF Kept
<1>5. CASE words[n + 1] # Empty
  <2>1. words[n + 1] \in Word
    BY <1>0, ElementOfSeq
  <2>2. /\ h = Append(g, words[n + 1]) /\ h \in Seq(Word) /\ Len(h) = Len(g) + 1
        /\ h[Len(g) + 1] = words[n + 1]
        /\ \A p \in 1..Len(g) : h[p] = g[p]
    <3>1. h = Append(g, words[n + 1])
      BY <1>5
    <3>2. /\ Append(g, words[n + 1]) \in Seq(Word)
          /\ Len(Append(g, words[n + 1])) = Len(g) + 1
          /\ \A p \in 1..Len(g) : Append(g, words[n + 1])[p] = g[p]
          /\ Append(g, words[n + 1])[Len(g) + 1] = words[n + 1]
      BY <1>1, <2>1, AppendProperties
    <3> QED BY <3>1, <3>2
  <2>3. ASSUME NEW p \in 1..Len(h)
        PROVE  h[p] # Empty /\ \E q \in p..(n + 1) : h[p] = words[q]
    <3>1. CASE p \in 1..Len(g)
      BY <1>2, <2>2, <3>1
    <3>2. CASE p \notin 1..Len(g)
      <4>1. p = Len(g) + 1 /\ n + 1 \in p..(n + 1)
        BY <1>0, <1>1, <2>2, <3>2
      <4> QED BY <1>5, <2>2, <4>1
    <3> QED BY <3>1, <3>2
  <2>4. ASSUME NEW m \in 0..(n + 1), \A q \in 1..m : words[q] # Empty
        PROVE  m <= Len(h) /\ \A q \in 1..m : h[q] = words[q]
    <3>1. CASE m <= n
      <4>1. m \in 0..n
        BY <3>1
      <4>2. m <= Len(g) /\ \A q \in 1..m : g[q] = words[q]
        BY <1>3, <2>4, <4>1
      <4>3. \A q \in 1..m : q \in 1..Len(g)
        BY <1>1, <4>1, <4>2
      <4> QED BY <1>1, <2>2, <4>1, <4>2, <4>3
    <3>2. CASE ~(m <= n)
      <4>1. m = n + 1 /\ n \in 0..n /\ \A q \in 1..n : q \in 1..m
        BY <1>0, <3>2
      <4>2. n <= Len(g) /\ \A q \in 1..n : g[q] = words[q]
        BY <1>3, <2>4, <4>1
      <4>3. Len(g) = n
        BY <1>1, <4>2
      <4> QED BY <1>0, <2>2, <4>1, <4>2, <4>3
    <3> QED BY <3>1, <3>2
  <2>5. Len(h) \in 0..(n + 1)
    BY <1>0, <1>1, <2>2
  <2>6. ASSUME NEW q \in 1..(n + 1), words[q] = Empty
        PROVE  Len(h) < n + 1
    <3>1. q \in 1..n
      <4>1. q # n + 1
        BY <1>5, <2>6
      <4> QED BY <1>0, <4>1
    <3>2. Len(g) < n
      BY <2>6, <3>1 DEF Kept
    <3> QED BY <1>0, <1>1, <2>2, <3>2
  <2> QED BY <2>2, <2>3, <2>4, <2>5, <2>6 DEF Kept
<1> QED BY <1>4, <1>5

\* The tokens of a whole line.
LEMMA TokensKept ==
    ASSUME NEW words \in Seq(Word)
    PROVE  Kept(Tokens(words), words, Len(words))
<1> DEFINE n == Len(words)
           kept[i \in 0..n] == IF i = 0 THEN <<>>
                               ELSE IF words[i] = Empty THEN kept[i - 1]
                               ELSE Append(kept[i - 1], words[i])
           P == {i \in 0..n : Kept(kept[i], words, i)}
<1>1. n \in Nat
  BY LenProperties
<1>2. Tokens(words) = kept[n]
  BY DEF Tokens
<1>3. kept = [i \in 0..n |-> IF i = 0 THEN <<>>
                             ELSE IF words[i] = Empty THEN kept[i - 1]
                             ELSE Append(kept[i - 1], words[i])]
  BY <1>1, TokensRecursion
<1> HIDE DEF kept, n
<1>4. ASSUME NEW i \in 0..n
      PROVE  kept[i] = IF i = 0 THEN <<>>
                       ELSE IF words[i] = Empty THEN kept[i - 1]
                       ELSE Append(kept[i - 1], words[i])
  BY <1>3
<1>5. 0 \in P
  <2>1. kept[0] = <<>> /\ 0 \in 0..n
    BY <1>1, <1>4
  <2>2. <<>> \in Seq(Word) /\ Len(<<>>) = 0
    OBVIOUS
  <2>3. Kept(<<>>, words, 0)
    BY <2>2 DEF Kept
  <2> QED BY <2>1, <2>3
<1>6. ASSUME NEW i \in 0..(n - 1), i \in P
      PROVE  i + 1 \in P
  <2>1. i + 1 \in 0..n /\ i + 1 # 0 /\ (i + 1) - 1 = i
    BY <1>1
  <2>2. kept[i + 1] = IF words[i + 1] = Empty THEN kept[i]
                      ELSE Append(kept[i], words[i + 1])
    BY <1>4, <2>1
  <2>3. Kept(kept[i + 1], words, i + 1)
    BY <1>6, <2>2, KeptNext DEF n
  <2> QED BY <2>1, <2>3
<1> HIDE DEF P
<1>7. n \in P
  <2>1. 0..n \subseteq P
    BY <1>1, <1>5, <1>6, UpTo
  <2> QED BY <1>1, <2>1
<1> QED BY <1>2, <1>7 DEF P, n

-----------------------------------------------------------------------------
(* What an operation does to the strings of a database, whatever its LRU      *)
(* list holds: a replica that runs out of room, or that has yet to apply what *)
(* is on its way, need not be sound for it.                                   *)

\* A record with the members of a database, of which the strings are a map on the keys.
Shaped(d) ==
    /\ d \in [string_store : {d.string_store}, list_store : {d.list_store},
              expiry : {d.expiry}, lru_order : {d.lru_order}, lru_position : {d.lru_position}]
    /\ d.string_store = [k \in Key |-> d.string_store[k]]

\* e holds no string that d did not hold.
Fades(d, e) ==
    /\ Shaped(e)
    /\ \A k \in Key : e.string_store[k] \in {Absent, d.string_store[k]}

\* Strings that fade in two steps fade.
LEMMA FadesTwice ==
    ASSUME NEW d, NEW e, NEW f, Fades(d, e), Fades(e, f)
    PROVE  Fades(d, f)
BY DEF Fades

\* Nothing fades in no step.
LEMMA FadesSame ==
    ASSUME NEW d, Shaped(d)
    PROVE  Fades(d, d)
BY DEF Fades

\* unlinking and push_front() touch no string.
LEMMA LruFades ==
    ASSUME NEW d, Shaped(d), NEW k
    PROVE  /\ Fades(d, Unlink(d, k)) /\ Unlink(d, k).string_store = d.string_store
           /\ Fades(d, PushFront(d, k)) /\ PushFront(d, k).string_store = d.string_store
<1>1. Fades(d, Unlink(d, k)) /\ Unlink(d, k).string_store = d.string_store
  <2> DEFINE i == CHOOSE i \in 1..Len(d.lru_order) : d.lru_order[i].cell = d.lru_position[k]
  <2>1. Unlink(d, k) = [d EXCEPT !.lru_order = RemoveAt(d.lru_order, i)]
    BY DEF Unlink, Shaped
  <2> HIDE DEF i
  <2> QED BY <2>1 DEF Fades, Shaped
<1>2. Fades(d, PushFront(d, k)) /\ PushFront(d, k).string_store = d.string_store
  <2> DEFINE c == CHOOSE c \in Cell : FreeCell(d, c)
             node == [cell |-> c, key |-> k]
  <2>1. PushFront(d, k) = [d EXCEPT !.lru_order = Cons(node, d.lru_order),
                                    !.lru_position = [d.lru_position EXCEPT ![k] = c]]
    BY DEF PushFront, Shaped
  <2> HIDE DEF c, node
  <2> QED BY <2>1 DEF Fades, Shaped
<1> QED BY <1>1, <1>2

\* Erasing keys, here with every way a member can change beside it.
LEMMA EraseFades ==
    ASSUME NEW d, Shaped(d), NEW K, NEW l, NEW x, NEW o, NEW p
    PROVE  /\ Fades(d, [d EXCEPT !.string_store = Erase(@, K), !.list_store = l, !.expiry = x])
           /\ Fades(d, [d EXCEPT !.list_store = l, !.expiry = x])
           /\ Fades(d, [d EXCEPT !.list_store = l])
           /\ Fades(d, [d EXCEPT !.expiry = x])
           /\ Fades(d, [d EXCEPT !.lru_position = p])
           /\ Fades(d, [string_store |-> Erase(d.string_store, K), list_store |-> l,
                        expiry |-> x, lru_order |-> o, lru_position |-> p])
BY DEF Fades, Shaped, Erase

\* is_expired() and the active sweep.
LEMMA ExpiryFades ==
    ASSUME NEW d, Shaped(d), NEW k, NEW t
    PROVE  Fades(d, LazyEvict(d, k, t)) /\ Fades(d, EvictExpired(d, t))
<1>1. Fades(d, EvictExpired(d, t))
  BY EraseFades DEF EvictExpired, Shaped
<1>2. CASE ~Elapsed(d, k, t)
  BY <1>1, <1>2, FadesSame DEF LazyEvict
<1>3. CASE Elapsed(d, k, t)
  <2> DEFINE u == [Unlink(d, k) EXCEPT !.lru_position = Erase(@, {k})]
             lru == IF Has(d.lru_position, k) THEN u ELSE d
  <2>1. Fades(d, u)
    <3> DEFINE w == Unlink(d, k)
    <3>1. Fades(d, w) /\ Shaped(w)
      BY LruFades DEF Fades
    <3> HIDE DEF w
    <3>2. Fades(w, [w EXCEPT !.lru_position = Erase(w.lru_position, {k})])
      BY <3>1, EraseFades
    <3> QED BY <3>1, <3>2, FadesTwice DEF w
  <2>2. Fades(d, lru)
    BY <2>1, FadesSame
  <2>3. LazyEvict(d, k, t) = [lru EXCEPT !.string_store = Erase(@, {k}),
                                         !.list_store   = Erase(@, {k}),
                                         !.expiry       = Erase(@, {k})]
    BY <1>3 DEF LazyEvict
  <2> HIDE DEF u, lru
  <2>4. Shaped(lru)
    BY <2>2 DEF Fades
  <2>5. Fades(lru, [lru EXCEPT !.string_store = Erase(@, {k}),
                               !.list_store   = Erase(lru.list_store, {k}),
                               !.expiry       = Erase(lru.expiry, {k})])
    BY <2>4, EraseFades
  <2>6. Fades(lru, LazyEvict(d, k, t))
    BY <2>3, <2>5
  <2> QED BY <1>1, <2>2, <2>6, FadesTwice
<1> QED BY <1>2, <1>3

\* The eviction loop, after any number of rounds, and the operations that clear keys.
LEMMA ClearingFades ==
    ASSUME NEW d, Shaped(d), NEW k, NEW n
    PROVE  /\ Fades(d, EvictLast(d, n)) /\ Fades(d, MakeRoom(d))
           /\ Fades(d, Overwrite(d, k)) /\ Fades(d, Del(d, k))
<1>1. \A m : Fades(d, EvictLast(d, m))
  BY EraseFades DEF EvictLast
<1>2. Fades(d, Overwrite(d, k)) /\ Fades(d, Del(d, k))
  BY EraseFades DEF Overwrite, Del
<1> QED BY <1>1, <1>2 DEF MakeRoom

\* The operations on lists.
LEMMA ListsFade ==
    ASSUME NEW d, Shaped(d), NEW k, NEW v, NEW s, NEW t
    PROVE  /\ Fades(d, LPush(d, k, v)) /\ Fades(d, RPush(d, k, v)) /\ Fades(d, RPushAll(d, k, s))
           /\ Fades(d, LPop(d, k, t)) /\ Fades(d, RPop(d, k, t))
<1>1. \A x : Fades(d, WithList(d, k, x))
  BY EraseFades DEF WithList
<1>2. Fades(d, LPush(d, k, v)) /\ Fades(d, RPush(d, k, v)) /\ Fades(d, RPushAll(d, k, s))
  BY <1>1, FadesSame DEF LPush, RPush, RPushAll
<1>3. ASSUME NEW e, Shaped(e), NEW x
      PROVE  Fades(e, PopTo(e, k, x))
  BY <1>3, EraseFades DEF PopTo, WithList
<1> DEFINE e == LazyEvict(d, k, t)
<1>4. Fades(d, e) /\ Shaped(e)
  BY ExpiryFades DEF Fades
<1>5. /\ \/ LPop(d, k, t) = e
         \/ LPop(d, k, t) = PopTo(e, k, Tail(e.list_store[k]))
      /\ \/ RPop(d, k, t) = e
         \/ RPop(d, k, t) = PopTo(e, k, Front(e.list_store[k]))
  BY DEF LPop, RPop
<1> HIDE DEF e
<1>6. Fades(d, PopTo(e, k, Tail(e.list_store[k]))) /\ Fades(d, PopTo(e, k, Front(e.list_store[k])))
  BY <1>3, <1>4, FadesTwice
<1> QED BY <1>2, <1>4, <1>5, <1>6

\* The operations on deadlines.
LEMMA DeadlinesFade ==
    ASSUME NEW d, Shaped(d), NEW k, NEW x, NEW t
    PROVE  /\ Fades(d, Expire(d, k, x, t)) /\ Fades(d, WithDeadline(d, k, x))
           /\ WithDeadline(d, k, x).string_store = d.string_store
<1>1. ASSUME NEW e, Shaped(e)
      PROVE  Fades(e, ExpireAt(e, k, x)) /\ ExpireAt(e, k, x).string_store = e.string_store
  <2>1. [e EXCEPT !.expiry = [@ EXCEPT ![k] = x]].string_store = e.string_store
    BY <1>1 DEF Shaped
  <2> QED BY <1>1, <2>1, EraseFades, FadesSame DEF ExpireAt
<1>2. Fades(d, LazyEvict(d, k, t)) /\ Shaped(LazyEvict(d, k, t))
  BY ExpiryFades DEF Fades
<1>3. Fades(d, Expire(d, k, x, t))
  BY <1>1, <1>2, FadesTwice DEF Expire
<1> QED BY <1>1, <1>3, FadesSame DEF WithDeadline

\* set() writes its own key; whatever it evicts fades.
LEMMA SetWrites ==
    ASSUME NEW d, Shaped(d), NEW k, NEW v
    PROVE  LET e == Set(d, k, v)
           IN  /\ Shaped(e)
               /\ \A j \in Key : IF j = k THEN e.string_store[j] = v
                                 ELSE e.string_store[j] \in {Absent, d.string_store[j]}
<1> DEFINE old  == Overwrite(d, k)
           room == IF Has(old.string_store, k) THEN Unlink(old, k) ELSE MakeRoom(old)
           new  == PushFront(room, k)
           e    == Set(d, k, v)
<1>1. Fades(d, old) /\ Shaped(old)
  BY ClearingFades DEF Fades
<1>2. Fades(old, room) /\ Shaped(room)
  <2> HIDE DEF old
  <2> QED BY <1>1, LruFades, ClearingFades DEF Fades
<1>3. Fades(room, new) /\ Shaped(new)
  <2> HIDE DEF room
  <2> QED BY <1>2, LruFades DEF Fades
<1>4. e = [new EXCEPT !.string_store = [new.string_store EXCEPT ![k] = v]]
  BY DEF Set
<1> HIDE DEF old, room, new, e
<1>5. Fades(d, new)
  BY <1>1, <1>2, <1>3, FadesTwice
<1>6. e.string_store = [new.string_store EXCEPT ![k] = v]
  BY <1>3, <1>4 DEF Shaped
<1>7. Shaped(e)
  BY <1>3, <1>4, <1>6 DEF Shaped
<1>8. \A j \in Key : e.string_store[j] = IF j = k THEN v ELSE new.string_store[j]
  BY <1>3, <1>6 DEF Shaped
<1> QED BY <1>5, <1>7, <1>8 DEF Fades, e

-----------------------------------------------------------------------------
(* What a line, and a sequence of lines, does to the strings of a replica. *)

\* The line writes a string under k, unless there is no room for it.
Writes(l, k) ==
    /\ \/ l.type = "SET" /\ Len(l.tokens) >= 2
       \/ l.type = "REPLSET" /\ Len(l.tokens) >= 3
    /\ l.tokens[1] = k

\* The string it writes.
Written(l) == l.tokens[2]

\* A line that writes no string under a key leaves the one that is there, or takes it
\* away; a line that writes one leaves its own, or none.
LEMMA LineWrites ==
    ASSUME NEW d, Shaped(d), NEW l, NEW t
    PROVE  LET e == ApplyLine(d, l, t)
           IN  /\ Shaped(e)
               /\ \A k \in Key : IF Writes(l, k) THEN e.string_store[k] \in {Absent, Written(l)}
                                 ELSE e.string_store[k] \in {Absent, d.string_store[k]}
<1> DEFINE tok == l.tokens
           n == Len(tok)
           e == ApplyLine(d, l, t)
           Done(f) == /\ Shaped(f)
                      /\ \A k \in Key : IF Writes(l, k) THEN f.string_store[k] \in {Absent, Written(l)}
                                        ELSE f.string_store[k] \in {Absent, d.string_store[k]}
<1> SUFFICES Done(e)
  OBVIOUS
<1>1. ASSUME NEW f, Fades(d, f), \A k \in Key : Writes(l, k) => ~Has(f.string_store, k)
      PROVE  Done(f)
  BY <1>1 DEF Fades, Has
<1>2. ASSUME NEW f, Fades(d, f), \A k \in Key : ~Writes(l, k)
      PROVE  Done(f)
  BY <1>1, <1>2
<1>3. CASE l.type = "REPLSET"
  <2>1. e = ApplyReplSet(d, tok)
    BY <1>3 DEF ApplyLine
  <2>2. CASE n < 3
    <3>1. e = d /\ \A k \in Key : ~Writes(l, k)
      BY <1>3, <2>1, <2>2 DEF ApplyReplSet, Writes
    <3> QED BY <3>1, <1>2, FadesSame
  <2>3. CASE ~(n < 3) /\ ~SetHasRoom(d, tok[1])
    <3> DEFINE o == Overwrite(d, tok[1])
    <3>1. e = EvictLast(o, Len(d.lru_order))
      BY <2>1, <2>3 DEF ApplyReplSet
    <3>2. Fades(d, o) /\ Shaped(o)
      BY ClearingFades DEF Fades
    <3>3. ~Has(d.string_store, tok[1])
      BY <2>3 DEF SetHasRoom
    <3> HIDE DEF o
    <3>4. Fades(d, e)
      BY <3>1, <3>2, ClearingFades, FadesTwice
    <3>5. \A k \in Key : Writes(l, k) => ~Has(e.string_store, k)
      BY <3>3, <3>4 DEF Writes, Fades, Has
    <3> HIDE DEF Done, e
    <3> QED BY <3>4, <3>5, <1>1
  <2>4. CASE ~(n < 3) /\ SetHasRoom(d, tok[1])
    <3> DEFINE f == Set(d, tok[1], tok[2])
    <3>1. e = WithDeadline(f, tok[1], tok[3])
      BY <2>1, <2>4 DEF ApplyReplSet
    <3>2. /\ Shaped(f)
          /\ \A k \in Key : IF k = tok[1] THEN f.string_store[k] = tok[2]
                            ELSE f.string_store[k] \in {Absent, d.string_store[k]}
      BY SetWrites
    <3> HIDE DEF f
    <3>3. Shaped(e) /\ e.string_store = f.string_store
      <4> HIDE DEF e, Done, tok
      <4>1. /\ Fades(f, Expire(f, tok[1], tok[3], t)) /\ Fades(f, WithDeadline(f, tok[1], tok[3]))
            /\ WithDeadline(f, tok[1], tok[3]).string_store = f.string_store
        BY <3>2, DeadlinesFade
      <4> QED BY <3>1, <4>1 DEF Fades
    <3>4. \A k \in Key : Writes(l, k) => k = tok[1]
      BY DEF Writes
    <3>5. \A k \in Key : k = tok[1] => Writes(l, k)
      <4>1. ~(n < 3) => n >= 3
        OBVIOUS
      <4> QED BY <1>3, <2>4, <4>1 DEF Writes
    <3> HIDE DEF e
    <3> QED BY <3>2, <3>3, <3>4, <3>5, <2>4 DEF Written
  <2> QED BY <2>2, <2>3, <2>4
<1>4. CASE l.type = "SET" /\ n >= 2 /\ SetHasRoom(d, tok[1])
  <2> DEFINE f == Set(d, tok[1], tok[2])
  <2>1. e = f
    BY <1>4 DEF ApplyLine
  <2>2. /\ Shaped(f)
        /\ \A k \in Key : IF k = tok[1] THEN f.string_store[k] = tok[2]
                          ELSE f.string_store[k] \in {Absent, d.string_store[k]}
    BY SetWrites
  <2> HIDE DEF f
  <2>3. \A k \in Key : Writes(l, k) <=> k = tok[1]
    BY <1>4 DEF Writes
  <2> QED BY <2>1, <2>2, <2>3 DEF Written
<1>5. CASE l.type = "SET" /\ ~(n >= 2 /\ SetHasRoom(d, tok[1]))
  <2>1. e = d
    BY <1>5 DEF ApplyLine
  <2>2. \A k \in Key : Writes(l, k) => ~Has(d.string_store, k)
    BY <1>5 DEF Writes, SetHasRoom
  <2> QED BY <2>1, <2>2, <1>1, FadesSame
<1>6. CASE l.type \notin {"SET", "REPLSET"}
  <2>1. \A k \in Key : ~Writes(l, k)
    BY <1>6 DEF Writes
  <2>2. Fades(d, e)
    <3>1. CASE l.type = "REPLLIST"
      <4> DEFINE f == Del(d, tok[1])
                 g == RPushAll(f, tok[1], SubSeq(tok, 3, Len(tok)))
      <4>1. e = WithDeadline(g, tok[1], tok[2])
        BY <3>1 DEF ApplyLine, ApplyReplList
      <4>2. Fades(d, f) /\ Shaped(f)
        BY ClearingFades DEF Fades
      <4> HIDE DEF f
      <4>3. Fades(f, g) /\ Shaped(g)
        BY <4>2, ListsFade DEF Fades
      <4> HIDE DEF g
      <4>4. Fades(g, e)
        BY <4>1, <4>3, DeadlinesFade
      <4> HIDE DEF e
      <4> QED BY <4>2, <4>3, <4>4, FadesTwice
    <3>2. CASE l.type = "DEL" /\ n >= 1
      BY <3>2, ClearingFades DEF ApplyLine
    <3>3. CASE l.type = "EXPIRE" /\ n >= 2
      <4>1. e = ApplyExpire(d, tok[1], tok[2], t)
        BY <3>3 DEF ApplyLine
      <4> QED BY <4>1, DeadlinesFade, FadesSame DEF ApplyExpire
    <3>4. CASE l.type = "LPUSH" /\ n >= 2
      BY <3>4, ListsFade DEF ApplyLine
    <3>5. CASE l.type = "RPUSH" /\ n >= 2
      BY <3>5, ListsFade DEF ApplyLine
    <3>6. CASE l.type = "LPOP" /\ n >= 1
      BY <3>6, ListsFade DEF ApplyLine
    <3>7. CASE l.type = "RPOP" /\ n >= 1
      BY <3>7, ListsFade DEF ApplyLine
    <3>8. CASE /\ l.type # "REPLLIST"
               /\ ~(l.type = "DEL" /\ n >= 1)
               /\ ~(l.type = "EXPIRE" /\ n >= 2)
               /\ ~(l.type = "LPUSH" /\ n >= 2)
               /\ ~(l.type = "RPUSH" /\ n >= 2)
               /\ ~(l.type = "LPOP" /\ n >= 1)
               /\ ~(l.type = "RPOP" /\ n >= 1)
      <4>1. e = d
        BY <1>6, <3>8 DEF ApplyLine
      <4> QED BY <4>1, FadesSame
    <3> QED BY <3>1, <3>2, <3>3, <3>4, <3>5, <3>6, <3>7, <3>8
  <2> HIDE DEF e, Done
  <2> QED BY <2>1, <2>2, <1>2
<1> QED BY <1>3, <1>4, <1>5, <1>6

-----------------------------------------------------------------------------
(* What a client command does to the strings of a database. *)

\* The command stores a string under k, unless the process dies of it.
Stores(c, k) == c.name = "SET" /\ Len(c.args) = 2 /\ c.args[1] = k

\* Every handler but the one of SET lets strings fade.
LEMMA HandlersFade ==
    ASSUME NEW d, Shaped(d), NEW k, NEW v, NEW t
    PROVE  /\ Fades(d, DoGet(d, k, t).db) /\ Fades(d, DoDel(d, k).db)
           /\ Fades(d, DoExists(d, k, t).db) /\ Fades(d, DoExpire(d, k, v, t).db)
           /\ Fades(d, DoTtl(d, k, t).db)
           /\ Fades(d, DoLPush(d, k, v, t).db) /\ Fades(d, DoRPush(d, k, v, t).db)
           /\ Fades(d, DoLPop(d, k, t).db) /\ Fades(d, DoRPop(d, k, t).db)
           /\ Fades(d, DoLLen(d, k, t).db)
<1> DEFINE e == LazyEvict(d, k, t)
           x == Wrap(t + Wrap(v * MsPerSecond))
<1>1. Fades(d, e) /\ Shaped(e)
  BY ExpiryFades DEF Fades
<1>2. DoGet(d, k, t).db \in {e, Touch(e, k)}
  BY DEF DoGet, Result, IsList, IsString
<1>3. DoExpire(d, k, v, t).db \in {d, Expire(d, k, x, t)}
  BY DEF DoExpire, Result
<1>4. DoDel(d, k).db = Del(d, k) /\ DoExists(d, k, t).db = e /\ DoTtl(d, k, t).db = e
  BY DEF DoDel, DoExists, DoTtl, Result
<1>5. /\ DoLPush(d, k, v, t).db \in {e, LPush(e, k, v)}
      /\ DoRPush(d, k, v, t).db \in {e, RPush(e, k, v)}
      /\ DoLPop(d, k, t).db \in {e, LPop(e, k, t)}
      /\ DoRPop(d, k, t).db \in {e, RPop(e, k, t)}
      /\ DoLLen(d, k, t).db = e
  BY DEF DoLPush, DoRPush, DoLPop, DoRPop, DoLLen, Result
<1> HIDE DEF e, x
<1>6. Fades(e, Touch(e, k))
  <2> DEFINE u == Unlink(e, k)
  <2>1. Fades(e, u) /\ Shaped(u)
    BY <1>1, LruFades DEF Fades
  <2> HIDE DEF u
  <2>2. Fades(u, PushFront(u, k))
    BY <2>1, LruFades
  <2>3. Touch(e, k) \in {e, PushFront(u, k)}
    BY DEF Touch, u
  <2> QED BY <1>1, <2>1, <2>2, <2>3, FadesTwice, FadesSame
<1>7. Fades(d, Touch(e, k)) /\ Fades(d, d) /\ Fades(d, Del(d, k))
  BY <1>1, <1>6, FadesTwice, FadesSame, ClearingFades
<1>8. /\ Fades(e, LPush(e, k, v)) /\ Fades(e, RPush(e, k, v)) /\ Fades(e, RPushAll(e, k, v))
      /\ Fades(e, LPop(e, k, t)) /\ Fades(e, RPop(e, k, t))
  BY <1>1, ListsFade
<1>9. /\ Fades(d, LPush(e, k, v)) /\ Fades(d, RPush(e, k, v))
      /\ Fades(d, LPop(e, k, t)) /\ Fades(d, RPop(e, k, t))
  BY <1>1, <1>8, FadesTwice
<1>10. Fades(d, Expire(d, k, x, t))
  <2>1. Fades(d, Expire(d, k, x, t)) /\ Fades(d, WithDeadline(d, k, x))
    BY DeadlinesFade
  <2> QED BY <2>1
<1> QED BY <1>1, <1>2, <1>3, <1>4, <1>5, <1>7, <1>9, <1>10

\* A string appears only as the argument of a SET of its key.
LEMMA ExecuteWrites ==
    ASSUME NEW d, Shaped(d), NEW c, NEW t
    PROVE  LET e == Execute(d, c, t).db
           IN  /\ Shaped(e)
               /\ \A k \in Key : IF Stores(c, k)
                     THEN Execute(d, c, t).reply # Aborted => e.string_store[k] = c.args[2]
                     ELSE e.string_store[k] \in {Absent, d.string_store[k]}
<1> DEFINE a == c.args
           r == Execute(d, c, t)
           Done(x) == /\ Shaped(x.db)
                      /\ \A k \in Key : IF Stores(c, k)
                            THEN x.reply # Aborted => x.db.string_store[k] = c.args[2]
                            ELSE x.db.string_store[k] \in {Absent, d.string_store[k]}
<1> SUFFICES Done(r)
  OBVIOUS
<1> HIDE DEF r
<1>1. CASE c.name \notin DOMAIN Arity \/ Len(a) \notin Arity[c.name]
  <2>1. r.db = d
    BY <1>1 DEF Execute, Result, r
  <2>2. "SET" \in DOMAIN Arity /\ Arity["SET"] = {2}
    BY DEF Arity
  <2>3. \A k \in Key : ~Stores(c, k)
    <3> SUFFICES ASSUME NEW k \in Key, Stores(c, k) PROVE FALSE
      OBVIOUS
    <3>1. c.name = "SET" /\ Len(a) = 2
      BY DEF Stores
    <3>2. Arity[c.name] = {2} /\ c.name \in DOMAIN Arity
      BY <2>2, <3>1
    <3> QED BY <1>1, <3>1, <3>2
  <2> QED BY <2>1, <2>3, FadesSame DEF Fades
<1>2. CASE c.name \in DOMAIN Arity /\ Len(a) \in Arity[c.name]
  <2>1. CASE c.name = "SET"
    <3>1. r = DoSet(d, a[1], a[2])
      BY <1>2, <2>1 DEF Execute, r
    <3>2. \A k \in Key : Stores(c, k) <=> k = a[1]
      BY <1>2, <2>1 DEF Stores, Arity
    <3>3. CASE SetHasRoom(d, a[1])
      <4>1. r.db = Set(d, a[1], a[2])
        BY <3>1, <3>3 DEF DoSet, Result
      <4> DEFINE f == Set(d, a[1], a[2])
      <4>2. /\ Shaped(f)
            /\ \A k \in Key : IF k = a[1] THEN f.string_store[k] = a[2]
                              ELSE f.string_store[k] \in {Absent, d.string_store[k]}
        BY SetWrites
      <4> HIDE DEF f
      <4> QED BY <3>2, <4>1, <4>2 DEF f
    <3>4. CASE ~SetHasRoom(d, a[1])
      <4>1. r.db = d /\ r.reply = Aborted
        BY <3>1, <3>4 DEF DoSet, Result
      <4> QED BY <4>1
    <3> QED BY <3>3, <3>4
  <2>2. CASE c.name # "SET"
    <3>1. \A k \in Key : ~Stores(c, k)
      BY <2>2 DEF Stores
    <3>2. Fades(d, r.db)
      <4> DEFINE k == a[1]
                 v == a[2]
      <4> HIDE DEF a, k, v
      <4>1. /\ Fades(d, DoGet(d, k, t).db) /\ Fades(d, DoDel(d, k).db)
            /\ Fades(d, DoExists(d, k, t).db) /\ Fades(d, DoExpire(d, k, v, t).db)
            /\ Fades(d, DoTtl(d, k, t).db)
            /\ Fades(d, DoLPush(d, k, v, t).db) /\ Fades(d, DoRPush(d, k, v, t).db)
            /\ Fades(d, DoLPop(d, k, t).db) /\ Fades(d, DoRPop(d, k, t).db)
            /\ Fades(d, DoLLen(d, k, t).db)
        BY HandlersFade
      <4>2. CASE c.name = "GET"
        BY <1>2, <4>1, <4>2 DEF Execute, r, a, k
      <4>3. CASE c.name = "DEL"
        BY <1>2, <4>1, <4>3 DEF Execute, r, a, k
      <4>4. CASE c.name = "EXISTS"
        BY <1>2, <4>1, <4>4 DEF Execute, r, a, k
      <4>5. CASE c.name = "EXPIRE"
        BY <1>2, <4>1, <4>5 DEF Execute, r, a, k, v
      <4>6. CASE c.name = "TTL"
        BY <1>2, <4>1, <4>6 DEF Execute, r, a, k
      <4>7. CASE c.name = "LPUSH"
        BY <1>2, <4>1, <4>7 DEF Execute, r, a, k, v
      <4>8. CASE c.name = "RPUSH"
        BY <1>2, <4>1, <4>8 DEF Execute, r, a, k, v
      <4>9. CASE c.name = "LPOP"
        BY <1>2, <4>1, <4>9 DEF Execute, r, a, k
      <4>10. CASE c.name = "RPOP"
        BY <1>2, <4>1, <4>10 DEF Execute, r, a, k
      <4>11. CASE c.name = "LLEN"
        BY <1>2, <4>1, <4>11 DEF Execute, r, a, k
      <4>12. CASE c.name = "PING"
        <5>1. r.db = d
          BY <1>2, <4>12 DEF Execute, Result, r, a
        <5> QED BY <5>1, FadesSame
      <4> QED BY <1>2, <2>2, <4>2, <4>3, <4>4, <4>5, <4>6, <4>7, <4>8, <4>9, <4>10, <4>11, <4>12
              DEF Arity
    <3> QED BY <3>1, <3>2 DEF Fades
  <2> QED BY <2>1, <2>2
<1> QED BY <1>1, <1>2

-----------------------------------------------------------------------------
(* The strings that a sequence of lines leaves. *)

\* x is what the first n lines of s leave under k, unless there is no room for it: the
\* string of the last line that writes one, or the string b that was there before.
LeftBy(s, n, b, k, x) ==
    \/ \E i \in 1..n : /\ Writes(s[i], k) /\ x = Written(s[i])
                       /\ \A j \in (i + 1)..n : ~Writes(s[j], k)
    \/ x = b /\ \A j \in 1..n : ~Writes(s[j], k)

\* The lines leave v under k, or nothing.
Agreeing(s, b, k, v) == \A x : LeftBy(s, Len(s), b, k, x) => x \in {Absent, v}

\* One more line at the end: it settles the string, or has no say in it.
LEMMA AgreeingAppend ==
    ASSUME NEW S, NEW s \in Seq(S), NEW l \in S, NEW b, NEW k, NEW v,
           IF Writes(l, k) THEN Written(l) = v ELSE Agreeing(s, b, k, v)
    PROVE  Agreeing(Append(s, l), b, k, v)
<1> DEFINE z == Append(s, l)
           n == Len(s)
<1>1. /\ n \in Nat /\ Len(z) = n + 1 /\ z[n + 1] = l
      /\ \A i \in 1..n : z[i] = s[i]
  BY AppendProperties, LenProperties
<1> HIDE DEF z
<1> SUFFICES ASSUME NEW x, LeftBy(z, n + 1, b, k, x)
             PROVE  x \in {Absent, v}
  BY <1>1 DEF Agreeing, z
<1>2. n + 1 \in 1..(n + 1) /\ \A i \in 1..n : i \in 1..(n + 1) /\ n + 1 \in (i + 1)..(n + 1)
  BY <1>1
<1>3. CASE Writes(l, k)
  <2>1. PICK i \in 1..(n + 1) : x = Written(z[i]) /\ \A j \in (i + 1)..(n + 1) : ~Writes(z[j], k)
    BY <1>1, <1>2, <1>3 DEF LeftBy
  <2>2. i \notin 1..n
    BY <1>1, <1>2, <1>3, <2>1
  <2>3. i = n + 1
    BY <1>1, <2>2
  <2> QED BY <1>1, <1>3, <2>1, <2>3
<1>4. CASE ~Writes(l, k)
  <2>1. LeftBy(s, n, b, k, x)
    <3>1. CASE x = b /\ \A j \in 1..(n + 1) : ~Writes(z[j], k)
      BY <1>1, <1>2, <3>1 DEF LeftBy
    <3>2. CASE \E i \in 1..(n + 1) : /\ Writes(z[i], k) /\ x = Written(z[i])
                                     /\ \A j \in (i + 1)..(n + 1) : ~Writes(z[j], k)
      <4>1. PICK i \in 1..(n + 1) : /\ Writes(z[i], k) /\ x = Written(z[i])
                                    /\ \A j \in (i + 1)..(n + 1) : ~Writes(z[j], k)
        BY <3>2
      <4>2. i # n + 1
        BY <1>1, <1>4, <4>1
      <4>3. i \in 1..n /\ \A j \in (i + 1)..n : j \in 1..n /\ j \in (i + 1)..(n + 1)
        BY <1>1, <4>2
      <4>4. Writes(s[i], k) /\ x = Written(s[i]) /\ \A j \in (i + 1)..n : ~Writes(s[j], k)
        BY <1>1, <4>1, <4>3
      <4> QED BY <4>3, <4>4 DEF LeftBy
    <3> QED BY <3>1, <3>2 DEF LeftBy
  <2> QED BY <1>4, <2>1 DEF Agreeing
<1> QED BY <1>3, <1>4

\* The first line is applied.
LEMMA AgreeingTail ==
    ASSUME NEW S, NEW s \in Seq(S), s # <<>>, NEW b, NEW k, NEW v, Agreeing(s, b, k, v),
           NEW c, IF Writes(Head(s), k) THEN c \in {Absent, Written(Head(s))}
                  ELSE c \in {Absent, b}
    PROVE  Agreeing(Tail(s), c, k, v)
<1> DEFINE z == Tail(s)
           n == Len(z)
<1>1. /\ n \in Nat /\ Len(s) = n + 1 /\ \A i \in 1..n : z[i] = s[i + 1]
  <2>1. z \in Seq(S) /\ n = Len(s) - 1 /\ \A i \in 1..n : z[i] = s[i + 1]
    BY HeadTailProperties
  <2> QED BY <2>1, LenProperties
<1>2. Head(s) = s[1]
  OBVIOUS
<1> HIDE DEF z
<1> SUFFICES ASSUME NEW x, LeftBy(z, n, c, k, x)
             PROVE  x \in {Absent, v}
  BY DEF Agreeing, z
<1>3. \A y : LeftBy(s, n + 1, b, k, y) => y \in {Absent, v}
  BY <1>1 DEF Agreeing
<1>4. ASSUME NEW i \in 1..(n + 1), \A j \in i..n : ~Writes(z[j], k)
      PROVE  \A j \in (i + 1)..(n + 1) : ~Writes(s[j], k)
  <2> TAKE j \in (i + 1)..(n + 1)
  <2>1. j - 1 \in 1..n /\ j - 1 \in i..n /\ (j - 1) + 1 = j
    BY <1>1
  <2> QED BY <1>1, <1>4, <2>1
<1>5. CASE \E i \in 1..n : /\ Writes(z[i], k) /\ x = Written(z[i])
                           /\ \A j \in (i + 1)..n : ~Writes(z[j], k)
  <2>1. PICK i \in 1..n : /\ Writes(z[i], k) /\ x = Written(z[i])
                          /\ \A j \in (i + 1)..n : ~Writes(z[j], k)
    BY <1>5
  <2>2. i + 1 \in 1..(n + 1) /\ z[i] = s[i + 1]
    BY <1>1
  <2>3. \A j \in ((i + 1) + 1)..(n + 1) : ~Writes(s[j], k)
    BY <1>4, <2>1, <2>2
  <2>4. LeftBy(s, n + 1, b, k, x)
    BY <2>1, <2>2, <2>3 DEF LeftBy
  <2> QED BY <1>3, <2>4
<1>6. CASE x = c /\ \A j \in 1..n : ~Writes(z[j], k)
  <2>1. 1 \in 1..(n + 1)
    BY <1>1
  <2>2. \A j \in (1 + 1)..(n + 1) : ~Writes(s[j], k)
    BY <1>4, <1>6, <2>1
  <2>3. CASE Writes(s[1], k)
    <3>1. LeftBy(s, n + 1, b, k, Written(s[1]))
      BY <2>1, <2>2, <2>3 DEF LeftBy
    <3> QED BY <1>2, <1>3, <1>6, <2>3, <3>1
  <2>4. CASE ~Writes(s[1], k)
    <3>1. \A j \in 1..(n + 1) : j = 1 \/ j \in (1 + 1)..(n + 1)
      BY <1>1
    <3>2. LeftBy(s, n + 1, b, k, b)
      BY <2>2, <2>4, <3>1 DEF LeftBy
    <3> QED BY <1>2, <1>3, <1>6, <2>4, <3>2
  <2> QED BY <2>3, <2>4
<1> QED BY <1>5, <1>6 DEF LeftBy

\* What the replica holds fades.
LEMMA AgreeingFades ==
    ASSUME NEW s, NEW b, NEW k, NEW v, Agreeing(s, b, k, v), NEW c \in {Absent, b}
    PROVE  Agreeing(s, c, k, v)
BY DEF Agreeing, LeftBy

\* g[i] is the database d once the first i lines of s, of n, have been applied to it.
IsReplay(g, d, s, t, n) ==
    g = [i \in 0..n |-> IF i = 0 THEN d ELSE ApplyLine(g[i - 1], s[i], t)]

\* The recursion of Replayed is well founded.
LEMMA ReplayRecursion ==
    ASSUME NEW d, NEW s, NEW t, NEW n \in Nat
    PROVE  \E g : IsReplay(g, d, s, t, n)
<1> DEFINE Is(g, m) == g = [i \in 0..m |-> IF i = 0 THEN d ELSE ApplyLine(g[i - 1], s[i], t)]
           P == {m \in 0..n : \E g : Is(g, m)}
<1>1. 0 \in P
  <2> DEFINE g == [i \in 0..0 |-> d]
  <2>1. Is(g, 0)
    OBVIOUS
  <2> HIDE DEF g, Is
  <2> QED BY <2>1
<1>2. ASSUME NEW m \in 0..(n - 1), m \in P
      PROVE  m + 1 \in P
  <2>1. PICK g : Is(g, m)
    BY <1>2
  <2> DEFINE h == [i \in 0..(m + 1) |-> IF i <= m THEN g[i] ELSE ApplyLine(g[m], s[m + 1], t)]
  <2>2. \A i \in 0..m : h[i] = g[i]
    OBVIOUS
  <2>3. ASSUME NEW i \in 0..(m + 1)
        PROVE  h[i] = IF i = 0 THEN d ELSE ApplyLine(h[i - 1], s[i], t)
    <3>1. CASE i <= m
      <4>1. i \in 0..m /\ h[i] = g[i] /\ (i # 0 => i - 1 \in 0..m)
        BY <3>1
      <4>2. g[i] = IF i = 0 THEN d ELSE ApplyLine(g[i - 1], s[i], t)
        BY <2>1, <4>1
      <4>3. i # 0 => h[i - 1] = g[i - 1]
        BY <2>2, <4>1
      <4> HIDE DEF h, Is
      <4> QED BY <4>1, <4>2, <4>3
    <3>2. CASE ~(i <= m)
      <4>1. i = m + 1 /\ i # 0 /\ i - 1 = m
        BY <3>2
      <4>2. h[i] = ApplyLine(g[m], s[m + 1], t) /\ h[m] = g[m]
        BY <4>1
      <4> HIDE DEF h, Is
      <4> QED BY <4>1, <4>2
    <3> QED BY <3>1, <3>2
  <2>4. h = [i \in 0..(m + 1) |-> h[i]]
    OBVIOUS
  <2>5. Is(h, m + 1)
    <3> HIDE DEF h
    <3> QED BY <2>3, <2>4
  <2>6. m + 1 \in 0..n
    OBVIOUS
  <2> HIDE DEF Is
  <2> QED BY <2>5, <2>6
<1> HIDE DEF P
<1>3. n \in P
  <2>1. 0..n \subseteq P
    BY <1>1, <1>2, UpTo
  <2> QED BY <2>1
<1> QED BY <1>3 DEF P, IsReplay

\* Applying n + 1 lines is applying n and then one more.
LEMMA LeftByNext ==
    ASSUME NEW s, NEW n \in Nat, NEW b, NEW k, NEW x, LeftBy(s, n, b, k, x), NEW y,
           y = IF Writes(s[n + 1], k) THEN Written(s[n + 1]) ELSE x
    PROVE  LeftBy(s, n + 1, b, k, y)
<1>1. n + 1 \in 1..(n + 1) /\ \A j \in ((n + 1) + 1)..(n + 1) : FALSE
  OBVIOUS
<1>2. \A j \in 1..(n + 1) : j \in 1..n \/ j = n + 1
  OBVIOUS
<1>3. CASE Writes(s[n + 1], k)
  BY <1>1, <1>3 DEF LeftBy
<1>4. CASE ~Writes(s[n + 1], k) /\ x = b /\ \A j \in 1..n : ~Writes(s[j], k)
  BY <1>2, <1>4 DEF LeftBy
<1>5. CASE ~Writes(s[n + 1], k) /\ \E i \in 1..n : /\ Writes(s[i], k) /\ x = Written(s[i])
                                                   /\ \A j \in (i + 1)..n : ~Writes(s[j], k)
  <2>1. PICK i \in 1..n : /\ Writes(s[i], k) /\ x = Written(s[i])
                          /\ \A j \in (i + 1)..n : ~Writes(s[j], k)
    BY <1>5
  <2>2. i \in 1..(n + 1) /\ \A j \in (i + 1)..(n + 1) : j \in (i + 1)..n \/ j = n + 1
    OBVIOUS
  <2> QED BY <1>5, <2>1, <2>2 DEF LeftBy
<1> QED BY <1>3, <1>4, <1>5 DEF LeftBy

\* A replica whose lines agree with a string ends with that string, or with none.
LEMMA ReplayedAgrees ==
    ASSUME NEW r \in Replica, Shaped(rdb[r]), Len(stream[r]) \in Nat, NEW k \in Key, NEW v,
           Agreeing(stream[r], rdb[r].string_store[k], k, v)
    PROVE  Replayed(r).string_store[k] \in {Absent, v}
<1> DEFINE s == stream[r]
           n == Len(s)
           b == rdb[r].string_store[k]
           applied[i \in 0..n] == IF i = 0 THEN rdb[r] ELSE ApplyLine(applied[i - 1], s[i], now)
           Good(i) == /\ Shaped(applied[i])
                      /\ \E x : /\ LeftBy(s, i, b, k, x)
                                /\ applied[i].string_store[k] \in {Absent, x}
           P == {i \in 0..n : Good(i)}
<1>1. Replayed(r) = applied[n]
  BY DEF Replayed
<1>2. applied = [i \in 0..n |-> IF i = 0 THEN rdb[r] ELSE ApplyLine(applied[i - 1], s[i], now)]
  <2>1. \E g : IsReplay(g, rdb[r], s, now, n)
    BY ReplayRecursion
  <2> HIDE DEF s, n
  <2> QED BY <2>1 DEF IsReplay
<1> HIDE DEF applied
<1>3. ASSUME NEW i \in 0..n
      PROVE  applied[i] = IF i = 0 THEN rdb[r] ELSE ApplyLine(applied[i - 1], s[i], now)
  BY <1>2
<1>4. 0 \in P
  <2>1. applied[0] = rdb[r] /\ 0 \in 0..n
    BY <1>3
  <2>2. LeftBy(s, 0, b, k, b)
    BY DEF LeftBy
  <2> QED BY <2>1, <2>2
<1>5. ASSUME NEW i \in 0..(n - 1), i \in P
      PROVE  i + 1 \in P
  <2>1. i + 1 \in 0..n /\ i + 1 # 0 /\ (i + 1) - 1 = i /\ i \in Nat
    OBVIOUS
  <2>2. applied[i + 1] = ApplyLine(applied[i], s[i + 1], now)
    BY <1>3, <2>1
  <2>3. Shaped(applied[i])
    BY <1>5
  <2>4. PICK x : LeftBy(s, i, b, k, x) /\ applied[i].string_store[k] \in {Absent, x}
    BY <1>5
  <2>5. /\ Shaped(applied[i + 1])
        /\ IF Writes(s[i + 1], k)
           THEN applied[i + 1].string_store[k] \in {Absent, Written(s[i + 1])}
           ELSE applied[i + 1].string_store[k] \in {Absent, applied[i].string_store[k]}
    BY <2>2, <2>3, LineWrites
  <2> DEFINE y == IF Writes(s[i + 1], k) THEN Written(s[i + 1]) ELSE x
  <2>6. LeftBy(s, i + 1, b, k, y)
    BY <2>1, <2>4, LeftByNext
  <2>7. applied[i + 1].string_store[k] \in {Absent, y}
    BY <2>4, <2>5
  <2> HIDE DEF y, s, b, n
  <2>8. Good(i + 1)
    BY <2>5, <2>6, <2>7
  <2> QED BY <2>1, <2>8
<1>6. n \in P
  <2> HIDE DEF P
  <2>1. 0..n \subseteq P
    BY <1>4, <1>5, UpTo
  <2> QED BY <2>1
<1>7. PICK x : LeftBy(s, n, b, k, x) /\ applied[n].string_store[k] \in {Absent, x}
  BY <1>6
<1> QED BY <1>1, <1>7 DEF Agreeing

-----------------------------------------------------------------------------
(* The lines a leader sends. *)

\* No token is empty, a key comes first, and values and deadlines are where
\* apply_leader_line() looks for them.
WellFormed(l) ==
    LET tok == l.tokens
        n   == Len(l.tokens)
    IN  /\ \A p \in 1..n : tok[p] # Empty
        /\ l.type \notin {"FULLSYNC", "FULLSYNCDONE"} /\ n >= 1 => tok[1] \in Key
        /\ l.type \in {"SET", "LPUSH", "RPUSH"} => \A p \in 2..n : tok[p] \in Value
        /\ l.type = "REPLSET" /\ n >= 3 => tok[2] \in Value /\ tok[3] \in Int \cup {Absent}
        /\ l.type = "REPLLIST" => /\ n >= 2 /\ tok[2] \in Int \cup {Absent}
                                  /\ \A p \in 3..n : tok[p] \in Value

Sent == {l \in [type : LineTypes, tokens : Seq(Word)] : WellFormed(l)}

\* A propagated command is well formed, with as many arguments as the client sent.
LEMMA CommandSent ==
    ASSUME NEW c \in Requests, c.name \in WriteCommands
    PROVE  Line(c.name, c.args) \in Sent
<1> DEFINE a == c.args
           tok == Tokens(a)
           l == Line(c.name, a)
<1>1. /\ a \in Seq(Key \cup Value \cup Int)
      /\ a # <<>> => a[1] \in Key
      /\ c.name \in {"SET", "LPUSH", "RPUSH"} => \A i \in 2..Len(a) : a[i] \in Value
  BY RequestsAssumption
<1>2. a \in Seq(Word)
  <2>1. \A i \in 1..Len(a) : a[i] \in Word
    BY <1>1 DEF Word
  <2> QED BY <1>1, <2>1 DEF Word
<1>3. Kept(tok, a, Len(a))
  BY <1>2, TokensKept
<1>4. l.type = c.name /\ l.tokens = tok /\ l = [type |-> c.name, tokens |-> tok]
  BY DEF Line
<1> HIDE DEF tok, l, a
<1>5. tok \in Seq(Word) /\ Len(tok) \in 0..Len(a) /\ Len(a) \in Nat
  BY <1>2, <1>3, LenProperties DEF Kept
<1>6. \A p \in 1..Len(tok) : tok[p] # Empty /\ \E q \in p..Len(a) : tok[p] = a[q]
  BY <1>3 DEF Kept
<1>7. ASSUME Len(tok) >= 1
      PROVE  tok[1] \in Key
  <2>1. a # <<>> /\ 1 \in 0..Len(a)
    BY <1>2, <1>5, <1>7, EmptySeq
  <2>2. a[1] # Empty /\ \A q \in 1..1 : q = 1
    BY <1>1, <2>1, EmptyAssumption
  <2>3. tok[1] = a[1]
    BY <1>3, <2>1, <2>2 DEF Kept
  <2> QED BY <1>1, <2>1, <2>3
<1>8. ASSUME c.name \in {"SET", "LPUSH", "RPUSH"}, NEW p \in 2..Len(tok)
      PROVE  tok[p] \in Value
  <2>1. p \in 1..Len(tok) /\ p >= 2
    BY <1>5
  <2>2. PICK q \in p..Len(a) : tok[p] = a[q]
    BY <1>6, <2>1
  <2>3. q \in 2..Len(a)
    BY <1>5, <2>1
  <2> QED BY <1>1, <1>8, <2>2, <2>3
<1>9. c.name \in LineTypes /\ c.name \notin {"REPLSET", "REPLLIST"}
  BY DEF LineTypes, WriteCommands
<1>10. WellFormed(l)
  BY <1>4, <1>6, <1>7, <1>8, <1>9 DEF WellFormed
<1> QED BY <1>4, <1>5, <1>9, <1>10 DEF Sent, l, a

\* An entry of a snapshot becomes a well formed line, with every word of it unless its
\* value is empty.
LEMMA EntrySent ==
    ASSUME NEW e \in Entry
    PROVE  /\ EntryLine(e) \in Sent
           /\ e.type = "string" => /\ EntryLine(e).type = "REPLSET"
                                   /\ e.data # Empty =>
                                        EntryLine(e).tokens = <<e.key, e.data, e.expiry>>
           /\ e.type = "list" => EntryLine(e).type = "REPLLIST"
<1>1. CASE e.type = "string"
  <2> DEFINE a == <<e.key, e.data, e.expiry>>
             tok == Tokens(a)
             l == EntryLine(e)
  <2>1. e.key \in Key /\ e.data \in Value /\ e.expiry \in Int \cup {Absent}
    BY <1>1 DEF Entry
  <2>2. a \in Seq(Word) /\ Len(a) = 3 /\ a[1] = e.key /\ a[2] = e.data /\ a[3] = e.expiry
    BY <2>1 DEF Word
  <2>3. Kept(tok, a, Len(a))
    BY <2>2, TokensKept
  <2>4. l = [type |-> "REPLSET", tokens |-> tok]
    BY <1>1 DEF EntryLine, Line
  <2> HIDE DEF a, tok, l
  <2>5. l.type = "REPLSET" /\ l.tokens = tok
    BY <2>4
  <2>6. tok \in Seq(Word) /\ Len(tok) \in 0..3
    BY <2>2, <2>3 DEF Kept
  <2>7. \A p \in 1..Len(tok) : tok[p] # Empty /\ \E q \in p..3 : tok[p] = a[q]
    BY <2>2, <2>3 DEF Kept
  <2>8. e.key # Empty /\ e.expiry # Empty
    BY <2>1, EmptyAssumption
  <2>9. Len(tok) >= 1 /\ tok[1] = e.key
    <3>1. \A q \in 1..1 : a[q] # Empty
      BY <2>2, <2>8
    <3>2. 1 \in 0..Len(a)
      BY <2>2
    <3> QED BY <2>2, <2>3, <3>1, <3>2 DEF Kept
  <2>10. Len(tok) >= 3 => e.data # Empty
    BY <2>2, <2>3 DEF Kept
  <2>11. e.data # Empty => tok = <<e.key, e.data, e.expiry>>
    <3> SUFFICES ASSUME e.data # Empty
                 PROVE  tok = <<e.key, e.data, e.expiry>>
      OBVIOUS
    <3>1. \A q \in 1..3 : a[q] # Empty
      BY <2>2, <2>8
    <3>2. Len(tok) = 3 /\ \A q \in 1..3 : tok[q] = a[q]
      BY <2>2, <2>3, <2>6, <3>1 DEF Kept
    <3> QED BY <2>2, <2>6, <3>2
  <2>12. Len(tok) >= 3 => tok[2] = e.data /\ tok[3] = e.expiry
    BY <2>10, <2>11
  <2>13. WellFormed(l)
    BY <2>1, <2>5, <2>7, <2>9, <2>12 DEF WellFormed
  <2> QED BY <1>1, <2>4, <2>5, <2>6, <2>11, <2>13 DEF Sent, LineTypes, tok, a, l
<1>2. CASE e.type = "list"
  <2> DEFINE h == <<e.key, e.expiry>>
             a == h \o e.data
             tok == Tokens(a)
             l == EntryLine(e)
             n == Len(e.data)
  <2>1. e.key \in Key /\ e.data \in Seq(Value) /\ e.expiry \in Int \cup {Absent}
    BY <1>2 DEF Entry
  <2>2. /\ a \in Seq(Word) /\ Len(a) = n + 2 /\ n \in Nat /\ a[1] = e.key /\ a[2] = e.expiry
        /\ \A q \in 3..Len(a) : a[q] \in Value
    <3>1. h \in Seq(Word) /\ Len(h) = 2 /\ h[1] = e.key /\ h[2] = e.expiry
      BY <2>1 DEF Word
    <3>2. e.data \in Seq(Word) /\ n \in Nat /\ \A i \in 1..n : e.data[i] \in Value
      BY <2>1 DEF Word
    <3> HIDE DEF h, n
    <3>3. /\ h \o e.data \in Seq(Word) /\ Len(h \o e.data) = Len(h) + Len(e.data)
          /\ \A i \in 1..(Len(h) + Len(e.data)) :
                (h \o e.data)[i] = IF i <= Len(h) THEN h[i] ELSE e.data[i - Len(h)]
      BY <3>1, <3>2, ConcatProperties
    <3>4. Len(a) = n + 2 /\ a \in Seq(Word)
      BY <3>1, <3>2, <3>3 DEF n
    <3>5. a[1] = e.key /\ a[2] = e.expiry
      BY <3>1, <3>2, <3>3 DEF n
    <3>6. ASSUME NEW q \in 3..Len(a)
          PROVE  a[q] \in Value
      <4>1. q - 2 \in 1..n /\ q \in 1..(n + 2) /\ ~(q <= 2)
        BY <3>2, <3>4
      <4> QED BY <3>1, <3>2, <3>3, <4>1 DEF n
    <3> QED BY <3>2, <3>4, <3>5, <3>6
  <2>3. Kept(tok, a, Len(a))
    BY <2>2, TokensKept
  <2>4. l = [type |-> "REPLLIST", tokens |-> tok]
    BY <1>2 DEF EntryLine, Line
  <2> HIDE DEF a, tok, l, n
  <2>5. l.type = "REPLLIST" /\ l.tokens = tok
    BY <2>4
  <2>6. tok \in Seq(Word) /\ Len(tok) \in 0..(n + 2)
    BY <2>2, <2>3 DEF Kept
  <2>7. \A p \in 1..Len(tok) : tok[p] # Empty /\ \E q \in p..(n + 2) : tok[p] = a[q]
    BY <2>2, <2>3 DEF Kept
  <2>8. Len(tok) >= 2 /\ tok[1] = e.key /\ tok[2] = e.expiry
    <3>1. \A q \in 1..2 : a[q] # Empty
      <4>1. e.key # Empty /\ e.expiry # Empty
        BY <2>1, EmptyAssumption
      <4> QED BY <2>2, <4>1
    <3>2. 2 \in 0..Len(a)
      BY <2>2
    <3> QED BY <2>2, <2>3, <3>1, <3>2 DEF Kept
  <2>9. ASSUME NEW p \in 3..Len(tok)
        PROVE  tok[p] \in Value
    <3>1. p \in 1..Len(tok)
      BY <2>6
    <3>2. PICK q \in p..(n + 2) : tok[p] = a[q]
      BY <2>7, <3>1
    <3>3. q \in 3..Len(a)
      BY <2>2, <3>1
    <3> QED BY <2>2, <3>2, <3>3
  <2>10. WellFormed(l)
    BY <2>1, <2>5, <2>7, <2>8, <2>9 DEF WellFormed
  <2> QED BY <1>2, <2>4, <2>5, <2>6, <2>10 DEF Sent, LineTypes, l
<1> QED BY <1>1, <1>2 DEF Entry

StringLine(d, k) == EntryLine(EntryOf("string", d.expiry, d.string_store, k))
ListLine(d, k) == EntryLine(EntryOf("list", d.expiry, d.list_store, k))

\* The lines of a full sync: the live keys of the database and two markers.
SyncOf(sync, d, t) ==
    /\ sync \in Seq(Sent)
    /\ \A i \in 1..Len(sync) : \/ sync[i].type \in {"FULLSYNC", "FULLSYNCDONE"}
                               \/ \E k \in LiveStrings(d, t) : sync[i] = StringLine(d, k)
                               \/ \E k \in LiveLists(d, t) : sync[i] = ListLine(d, k)
    /\ \A k \in LiveStrings(d, t) : \E i \in 1..Len(sync) : sync[i] = StringLine(d, k)
    /\ \A k \in LiveLists(d, t) : \E i \in 1..Len(sync) : sync[i] = ListLine(d, k)

\* That is what build_full_sync() makes of a snapshot.
LEMMA FullSyncLines ==
    ASSUME NEW d, Sound(d), NEW t, NEW sync \in FullSyncs(d, t)
    PROVE  SyncOf(sync, d, t)
<1>1. PICK entries \in Snapshots(d, t) :
         sync = <<Line("FULLSYNC", <<>>)>> \o [i \in 1..Len(entries) |-> EntryLine(entries[i])]
                  \o <<Line("FULLSYNCDONE", <<>>)>>
  BY DEF FullSyncs
<1>2. PICK s, l, os, ol :
         /\ entries = s \o l
         /\ Ordered(s, Entry, LiveStrings(d, t), "string", d.expiry, d.string_store, os)
         /\ Ordered(l, Entry, LiveLists(d, t), "list", d.expiry, d.list_store, ol)
  BY SnapshotEntries
<1>3. s \in Seq(Entry) /\ l \in Seq(Entry) /\ Len(s) \in Nat /\ Len(l) \in Nat
  BY <1>2 DEF Ordered
<1> DEFINE n == Len(entries)
           h == <<Line("FULLSYNC", <<>>)>>
           z == <<Line("FULLSYNCDONE", <<>>)>>
           m == [i \in 1..n |-> EntryLine(entries[i])]
<1>4. /\ entries \in Seq(Entry) /\ n = Len(s) + Len(l) /\ n \in Nat
      /\ \A i \in 1..n : entries[i] = IF i <= Len(s) THEN s[i] ELSE l[i - Len(s)]
  <2>1. /\ s \o l \in Seq(Entry) /\ Len(s \o l) = Len(s) + Len(l)
        /\ \A i \in 1..(Len(s) + Len(l)) : (s \o l)[i] = IF i <= Len(s) THEN s[i] ELSE l[i - Len(s)]
    BY <1>3, ConcatProperties
  <2> QED BY <1>2, <1>3, <2>1
<1>5. /\ \A i \in 1..Len(s) : s[i] = EntryOf("string", d.expiry, d.string_store, os[i])
                              /\ os[i] \in LiveStrings(d, t)
      /\ \A i \in 1..Len(l) : l[i] = EntryOf("list", d.expiry, d.list_store, ol[i])
                              /\ ol[i] \in LiveLists(d, t)
      /\ \A k \in LiveStrings(d, t) : \E i \in 1..Len(s) : os[i] = k
      /\ \A k \in LiveLists(d, t) : \E i \in 1..Len(l) : ol[i] = k
  BY <1>2 DEF Ordered
<1>6. ASSUME NEW i \in 1..n
      PROVE  \/ \E k \in LiveStrings(d, t) : EntryLine(entries[i]) = StringLine(d, k)
             \/ \E k \in LiveLists(d, t) : EntryLine(entries[i]) = ListLine(d, k)
  <2>1. CASE i <= Len(s)
    <3>1. i \in 1..Len(s) /\ entries[i] = s[i]
      BY <1>3, <1>4, <2>1
    <3> QED BY <1>5, <3>1 DEF StringLine
  <2>2. CASE ~(i <= Len(s))
    <3>1. i - Len(s) \in 1..Len(l) /\ entries[i] = l[i - Len(s)]
      BY <1>3, <1>4, <2>2
    <3> QED BY <1>5, <3>1 DEF ListLine
  <2> QED BY <2>1, <2>2
<1>7. ASSUME NEW k \in LiveStrings(d, t)
      PROVE  \E i \in 1..n : EntryLine(entries[i]) = StringLine(d, k)
  <2>1. PICK i \in 1..Len(s) : os[i] = k
    BY <1>5
  <2>2. i \in 1..n /\ entries[i] = s[i]
    BY <1>3, <1>4
  <2> QED BY <1>5, <2>1, <2>2 DEF StringLine
<1>8. ASSUME NEW k \in LiveLists(d, t)
      PROVE  \E i \in 1..n : EntryLine(entries[i]) = ListLine(d, k)
  <2>1. PICK i \in 1..Len(l) : ol[i] = k
    BY <1>5
  <2> DEFINE j == i + Len(s)
  <2>2. j \in 1..n /\ ~(j <= Len(s)) /\ j - Len(s) = i
    BY <1>3, <1>4
  <2>3. entries[j] = l[i]
    <3> HIDE DEF j
    <3> QED BY <1>4, <2>2
  <2> HIDE DEF j
  <2> QED BY <1>5, <2>1, <2>2, <2>3 DEF ListLine
<1>9. \A type \in {"FULLSYNC", "FULLSYNCDONE"} :
         Line(type, <<>>) \in Sent /\ Line(type, <<>>).type = type
  <2>1. <<>> \in Seq(Word) /\ Len(<<>>) = 0
    OBVIOUS
  <2> DEFINE tok == Tokens(<<>>)
  <2>2. Kept(tok, <<>>, 0)
    BY <2>1, TokensKept
  <2> HIDE DEF tok
  <2>3. tok \in Seq(Word) /\ Len(tok) = 0
    BY <2>2 DEF Kept
  <2>4. ASSUME NEW type \in {"FULLSYNC", "FULLSYNCDONE"}
        PROVE  [type |-> type, tokens |-> tok] \in Sent
    BY <2>3 DEF Sent, LineTypes, WellFormed
  <2> QED BY <2>4 DEF Line, tok
<1>10. /\ h \in Seq(Sent) /\ Len(h) = 1 /\ h[1].type = "FULLSYNC"
       /\ z \in Seq(Sent) /\ Len(z) = 1 /\ z[1].type = "FULLSYNCDONE"
  <2>1. Line("FULLSYNC", <<>>) \in Sent /\ Line("FULLSYNCDONE", <<>>) \in Sent
    BY <1>9
  <2> QED BY <1>9, <2>1
<1>11. m \in Seq(Sent) /\ Len(m) = n /\ \A i \in 1..n : m[i] = EntryLine(entries[i])
  <2>1. \A i \in 1..n : entries[i] \in Entry
    BY <1>4
  <2>2. m \in [1..n -> Sent]
    BY <2>1, EntrySent
  <2>3. \A i \in 1..n : m[i] = EntryLine(entries[i])
    OBVIOUS
  <2> HIDE DEF m
  <2> QED BY <1>4, <2>2, <2>3, SeqDef
<1>12. sync = (h \o m) \o z
  BY <1>1
<1> HIDE DEF h, m, z, n
<1>13. /\ sync \in Seq(Sent) /\ Len(sync) = n + 2
       /\ sync[1].type = "FULLSYNC" /\ sync[n + 2].type = "FULLSYNCDONE"
       /\ \A i \in 1..n : sync[i + 1] = m[i]
  <2> DEFINE hm == h \o m
  <2>1. /\ hm \in Seq(Sent) /\ Len(hm) = 1 + n
        /\ \A i \in 1..(1 + n) : hm[i] = IF i <= 1 THEN h[i] ELSE m[i - 1]
    <3>1. /\ h \o m \in Seq(Sent) /\ Len(h \o m) = Len(h) + Len(m)
          /\ \A i \in 1..(Len(h) + Len(m)) : (h \o m)[i] = IF i <= Len(h) THEN h[i] ELSE m[i - Len(h)]
      BY <1>10, <1>11, ConcatProperties
    <3> QED BY <1>10, <1>11, <3>1
  <2> HIDE DEF hm
  <2>2. /\ hm \o z \in Seq(Sent) /\ Len(hm \o z) = (1 + n) + 1
        /\ \A i \in 1..((1 + n) + 1) : (hm \o z)[i] = IF i <= 1 + n THEN hm[i] ELSE z[i - (1 + n)]
    <3>1. /\ hm \o z \in Seq(Sent) /\ Len(hm \o z) = Len(hm) + Len(z)
          /\ \A i \in 1..(Len(hm) + Len(z)) : (hm \o z)[i] = IF i <= Len(hm) THEN hm[i] ELSE z[i - Len(hm)]
      BY <1>10, <2>1, ConcatProperties
    <3> QED BY <1>10, <2>1, <3>1
  <2>3. sync = hm \o z
    BY <1>12 DEF hm
  <2>4. sync[1] = h[1] /\ sync[n + 2] = z[1]
    BY <1>4, <2>1, <2>2, <2>3 DEF n
  <2>5. ASSUME NEW i \in 1..n
        PROVE  sync[i + 1] = m[i]
    <3>1. i + 1 \in 1..(1 + n) /\ i + 1 \in 1..((1 + n) + 1) /\ ~(i + 1 <= 1) /\ (i + 1) - 1 = i
      BY <1>4 DEF n
    <3> QED BY <2>1, <2>2, <2>3, <3>1
  <2> QED BY <1>4, <1>10, <2>2, <2>3, <2>4, <2>5 DEF n
<1>14. \A i \in 1..n : i + 1 \in 1..Len(sync) /\ sync[i + 1] = EntryLine(entries[i])
  BY <1>4, <1>11, <1>13 DEF n
<1>15. ASSUME NEW i \in 1..Len(sync)
       PROVE  \/ sync[i].type \in {"FULLSYNC", "FULLSYNCDONE"}
              \/ \E k \in LiveStrings(d, t) : sync[i] = StringLine(d, k)
              \/ \E k \in LiveLists(d, t) : sync[i] = ListLine(d, k)
  <2>1. CASE i = 1 \/ i = n + 2
    BY <1>13, <2>1
  <2>2. CASE i # 1 /\ i # n + 2
    <3>1. i - 1 \in 1..n /\ (i - 1) + 1 = i
      BY <1>4, <1>13, <2>2 DEF n
    <3> QED BY <1>6, <1>14, <3>1 DEF n
  <2> QED BY <2>1, <2>2
<1>16. \A k \in LiveStrings(d, t) : \E i \in 1..Len(sync) : sync[i] = StringLine(d, k)
  BY <1>7, <1>14 DEF n
<1>17. \A k \in LiveLists(d, t) : \E i \in 1..Len(sync) : sync[i] = ListLine(d, k)
  BY <1>8, <1>14 DEF n
<1> QED BY <1>13, <1>15, <1>16, <1>17 DEF SyncOf

-----------------------------------------------------------------------------
(* What a replica keeps.  A propagated LPUSH lands on a key whatever it holds *)
(* there, so that a replica's stores are not disjoint, and only the LRU list  *)
(* of it is sound.                                                            *)

Steady(d) == LruSound(d) /\ Tracked(d)

\* A sound database is steady.
LEMMA SoundSteady == \A d : Sound(d) => Steady(d)
BY DEF Sound, Steady

\* An operation that leaves the LRU list alone and adds no string.
LEMMA SteadyAside ==
    ASSUME NEW d, Steady(d), NEW e, e \in Database,
           e.lru_order = d.lru_order, e.lru_position = d.lru_position,
           \A k \in Key : Has(e.string_store, k) => Has(d.string_store, k)
    PROVE  Steady(e)
<1>1. DistinctCells(d) /\ Linked(d, {})
  BY DEF Steady, LruSound
<1>2. DistinctCells(e) /\ Linked(e, {})
  BY <1>1, SameLru, Zenon
<1>3. Tracked(e)
  BY DEF Steady, Tracked
<1> QED BY <1>2, <1>3 DEF Steady, LruSound

\* The operations that forget: the sweep, del() and the first step of set().
LEMMA ForgetSteady ==
    ASSUME NEW d, Steady(d), NEW k, NEW t
    PROVE  /\ Steady(EvictExpired(d, t)) /\ Steady(Del(d, k))
           /\ Steady(Overwrite(d, k)) /\ Overwrite(d, k).string_store = d.string_store
           /\ Overwrite(d, k).lru_order = d.lru_order
<1>1. d \in Database
  BY DEF Steady, LruSound
<1>2. ASSUME NEW K
      PROVE  Steady([d EXCEPT !.string_store = Erase(@, K),
                              !.list_store   = Erase(@, K),
                              !.expiry       = Erase(@, K)])
  <2> DEFINE e == [d EXCEPT !.string_store = Erase(@, K),
                            !.list_store   = Erase(@, K),
                            !.expiry       = Erase(@, K)]
  <2>1. /\ e \in Database /\ e.string_store = Erase(d.string_store, K)
        /\ e.lru_order = d.lru_order /\ e.lru_position = d.lru_position
    BY <1>1 DEF Database, Erase
  <2>2. \A j \in Key : Has(e.string_store, j) => Has(d.string_store, j)
    BY <2>1 DEF Erase, Has
  <2> HIDE DEF e
  <2>3. Steady(e)
    BY <2>1, <2>2, SteadyAside
  <2> QED BY <2>3 DEF e
<1>3. Steady(Overwrite(d, k)) /\ Overwrite(d, k).string_store = d.string_store
      /\ Overwrite(d, k).lru_order = d.lru_order
  <2> DEFINE o == Overwrite(d, k)
  <2>1. /\ o \in Database /\ o.string_store = d.string_store
        /\ o.lru_order = d.lru_order /\ o.lru_position = d.lru_position
    BY <1>1 DEF Overwrite, Database, Erase
  <2> HIDE DEF o
  <2>2. Steady(o)
    BY <2>1, SteadyAside
  <2> QED BY <2>1, <2>2 DEF o
<1> QED BY <1>2, <1>3 DEF EvictExpired, Del

\* A list written, emptied or erased.
LEMMA ListSteady ==
    ASSUME NEW d, Steady(d), NEW k \in Key, NEW s \in Seq(Value)
    PROVE  Steady(WithList(d, k, s)) /\ Steady(PopTo(d, k, s))
<1>1. d \in Database
  BY DEF Steady, LruSound
<1>2. Steady(WithList(d, k, s))
  <2> DEFINE e == WithList(d, k, s)
  <2>1. /\ e \in Database /\ e.string_store = d.string_store
        /\ e.lru_order = d.lru_order /\ e.lru_position = d.lru_position
    BY <1>1 DEF WithList, Database
  <2> HIDE DEF e
  <2>2. Steady(e)
    BY <2>1, SteadyAside
  <2> QED BY <2>2 DEF e
<1>3. PopTo(d, k, s) \in {Overwrite(d, k), WithList(d, k, s)}
  BY DEF PopTo, Overwrite
<1>4. Steady(Overwrite(d, k))
  <2>1. Steady(EvictExpired(d, 0)) /\ Steady(Overwrite(d, k))
    BY ForgetSteady
  <2> QED BY <2>1
<1> QED BY <1>2, <1>3, <1>4

\* A deadline.
LEMMA DeadlineSteady ==
    ASSUME NEW d, Steady(d), NEW k, NEW x \in Int
    PROVE  Steady(ExpireAt(d, k, x)) /\ Steady(WithDeadline(d, k, x))
<1> DEFINE e == [d EXCEPT !.expiry = [@ EXCEPT ![k] = x]]
<1>1. d \in Database
  BY DEF Steady, LruSound
<1>2. /\ e \in Database /\ e.string_store = d.string_store
      /\ e.lru_order = d.lru_order /\ e.lru_position = d.lru_position
  BY <1>1 DEF Database
<1>3. ExpireAt(d, k, x) \in {d, e} /\ WithDeadline(d, k, x) \in {d, ExpireAt(d, k, x)}
  BY DEF ExpireAt, WithDeadline
<1> HIDE DEF e
<1>4. Steady(e)
  BY <1>2, SteadyAside
<1> QED BY <1>3, <1>4

\* The sequences that the list operations write.
LEMMA ListTyped ==
    ASSUME NEW d, d \in Database, NEW k \in Key
    PROVE  /\ ListAt(d, k) \in Seq(Value)
           /\ ListAt(d, k) # <<>> => /\ d.list_store[k] \in Seq(Value)
                                     /\ Tail(d.list_store[k]) \in Seq(Value)
                                     /\ Front(d.list_store[k]) \in Seq(Value)
<1>1. ListAt(d, k) \in Seq(Value) /\ (ListAt(d, k) # <<>> => ListAt(d, k) = d.list_store[k])
  BY EmptySeq DEF ListAt, Has, Database
<1> DEFINE s == ListAt(d, k)
<1> HIDE DEF s
<1>2. ASSUME s # <<>>, s \in Seq(Value)
      PROVE  Tail(s) \in Seq(Value) /\ Front(s) \in Seq(Value)
  <2>1. Tail(s) \in Seq(Value)
    BY <1>2, HeadTailProperties
  <2>2. Front(s) \in Seq(Value)
    <3>1. \A i \in 1..(Len(s) - 1) : s[i] \in Value
      BY <1>2
    <3>2. 1 \in Int /\ Len(s) - 1 \in Int
      BY <1>2, LenProperties
    <3> QED BY <3>1, <3>2, SubSeqProperties DEF Front
  <2> QED BY <2>1, <2>2
<1> QED BY <1>1, <1>2 DEF s

\* is_expired().
LEMMA LazyEvictSteady ==
    ASSUME NEW d, Steady(d), NEW k \in Key, NEW t
    PROVE  Steady(LazyEvict(d, k, t))
<1>1. CASE ~Elapsed(d, k, t)
  BY <1>1 DEF LazyEvict
<1>2. CASE Elapsed(d, k, t)
  <2> DEFINE lru == IF Has(d.lru_position, k)
                    THEN [Unlink(d, k) EXCEPT !.lru_position = Erase(@, {k})]
                    ELSE d
             e == LazyEvict(d, k, t)
  <2>0. d \in Database
    BY DEF Steady, LruSound
  <2>1. /\ lru \in Database
        /\ lru.string_store = d.string_store
        /\ lru.lru_position = Erase(d.lru_position, {k})
        /\ DistinctCells(lru)
        /\ Linked(lru, {})
    <3>1. CASE Has(d.lru_position, k)
      <4> DEFINE u == Unlink(d, k)
      <4>1. u \in Database /\ DistinctCells(u) /\ Linked(u, {k})
        BY <3>1, UnlinkSound DEF Steady
      <4>2. u.string_store = d.string_store /\ u.lru_position = d.lru_position
        BY <2>0 DEF Unlink, Database
      <4> HIDE DEF u
      <4>3. lru = [u EXCEPT !.lru_position = Erase(u.lru_position, {k})]
        BY <3>1 DEF u
      <4> HIDE DEF lru
      <4>4. /\ lru \in Database
            /\ lru.string_store = u.string_store
            /\ lru.lru_order = u.lru_order
            /\ lru.lru_position = Erase(u.lru_position, {k})
        BY <4>1, <4>3 DEF Database, Erase
      <4>5. DistinctCells(lru)
        BY <4>1, <4>4 DEF DistinctCells
      <4>6. Linked(lru, {})
        BY <4>1, <4>4 DEF Linked, Points, Erase, Has
      <4> QED BY <4>2, <4>4, <4>5, <4>6
    <3>2. CASE ~Has(d.lru_position, k)
      <4>1. d.lru_position = Erase(d.lru_position, {k})
        BY <2>0, <3>2 DEF Database, Erase, Has
      <4> QED BY <3>2, <4>1 DEF Steady, LruSound
    <3> QED BY <3>1, <3>2
  <2>2. e = [lru EXCEPT !.string_store = Erase(@, {k}),
                        !.list_store   = Erase(@, {k}),
                        !.expiry       = Erase(@, {k})]
    BY <1>2 DEF LazyEvict
  <2> HIDE DEF lru, e
  <2>3. /\ e \in Database
        /\ e.string_store = Erase(d.string_store, {k})
        /\ e.lru_order = lru.lru_order
        /\ e.lru_position = lru.lru_position
    BY <2>1, <2>2 DEF Database, Erase
  <2>4. DistinctCells(e) /\ Linked(e, {})
    BY <2>1, <2>3, SameLru, Zenon
  <2>5. Tracked(e)
    BY <2>1, <2>3 DEF Steady, Tracked, Erase, Has
  <2> QED BY <2>3, <2>4, <2>5 DEF Steady, LruSound, e
<1> QED BY <1>1, <1>2

\* The list operations, as the replica calls them and as a read checks a deadline.
LEMMA ListOpsSteady ==
    ASSUME NEW d, Steady(d), NEW k \in Key, NEW t
    PROVE  /\ \A v \in Value : Steady(LPush(d, k, v)) /\ Steady(RPush(d, k, v))
           /\ \A s \in Seq(Value) : Steady(RPushAll(d, k, s))
           /\ Steady(LPop(d, k, t)) /\ Steady(RPop(d, k, t))
<1>1. \A s \in Seq(Value) : Steady(WithList(d, k, s))
  BY ListSteady
<1>2. ListAt(d, k) \in Seq(Value)
  BY ListTyped DEF Steady, LruSound
<1>3. ASSUME NEW v \in Value
      PROVE  Steady(LPush(d, k, v)) /\ Steady(RPush(d, k, v))
  <2>1. Append(ListAt(d, k), v) \in Seq(Value)
    BY <1>2, AppendProperties
  <2>2. Cons(v, ListAt(d, k)) \in Seq(Value)
    <3>1. <<v>> \in Seq(Value)
      OBVIOUS
    <3>2. <<v>> \o ListAt(d, k) \in Seq(Value)
      BY <1>2, <3>1, ConcatProperties
    <3> QED BY <3>2 DEF Cons
  <2> QED BY <1>1, <2>1, <2>2 DEF LPush, RPush
<1>4. ASSUME NEW s \in Seq(Value)
      PROVE  Steady(RPushAll(d, k, s))
  <2>1. ListAt(d, k) \o s \in Seq(Value)
    BY <1>2, ConcatProperties
  <2> QED BY <1>1, <2>1 DEF RPushAll
<1>5. Steady(LPop(d, k, t)) /\ Steady(RPop(d, k, t))
  <2> DEFINE e == LazyEvict(d, k, t)
  <2>1. Steady(e) /\ e \in Database
    BY LazyEvictSteady DEF Steady, LruSound
  <2>2. /\ \/ LPop(d, k, t) = e
           \/ ListAt(e, k) # <<>> /\ LPop(d, k, t) = PopTo(e, k, Tail(e.list_store[k]))
        /\ \/ RPop(d, k, t) = e
           \/ ListAt(e, k) # <<>> /\ RPop(d, k, t) = PopTo(e, k, Front(e.list_store[k]))
    BY DEF LPop, RPop
  <2> HIDE DEF e
  <2>3. ListAt(e, k) # <<>> => /\ Tail(e.list_store[k]) \in Seq(Value)
                               /\ Front(e.list_store[k]) \in Seq(Value)
    BY <2>1, ListTyped
  <2>4. ListAt(e, k) # <<>> => /\ Steady(PopTo(e, k, Tail(e.list_store[k])))
                               /\ Steady(PopTo(e, k, Front(e.list_store[k])))
    BY <2>1, <2>3, ListSteady
  <2> QED BY <2>1, <2>2, <2>4
<1> QED BY <1>3, <1>4, <1>5

\* The eviction loop.
LEMMA EvictLastSteady ==
    ASSUME NEW d, Steady(d), NEW n \in 0..Len(d.lru_order)
    PROVE  Steady(EvictLast(d, n))
<1> DEFINE len == Len(d.lru_order)
           keys == {d.lru_order[i].key : i \in (len - n + 1)..len}
           e == EvictLast(d, n)
<1>1. /\ d \in Database /\ d.lru_order \in Seq(Node) /\ len \in Nat
      /\ d.lru_position \in [Key -> Cell \cup {Absent}]
  BY DEF Steady, LruSound, Database
<1>2. /\ e.string_store = Erase(d.string_store, keys)
      /\ e.lru_order = SubSeq(d.lru_order, 1, len - n)
      /\ e.lru_position = Erase(d.lru_position, keys)
  BY DEF EvictLast
<1>3. /\ e.lru_order \in Seq(Node)
      /\ Len(e.lru_order) = len - n
      /\ \A i \in 1..(len - n) : e.lru_order[i] = d.lru_order[i]
  BY <1>1, <1>2, SubSeqProperties
<1>4. e \in Database
  BY <1>1, <1>3 DEF EvictLast, Database, Erase
<1> HIDE DEF e, keys
<1>5. DistinctCells(e)
  <2> SUFFICES ASSUME NEW i \in 1..(len - n), NEW j \in 1..(len - n),
                      e.lru_order[i].cell = e.lru_order[j].cell
               PROVE  i = j
    BY <1>3 DEF DistinctCells
  <2>1. i \in 1..len /\ j \in 1..len
    BY <1>1
  <2>2. d.lru_order[i].cell = d.lru_order[j].cell
    BY <1>3
  <2> QED BY <2>1, <2>2 DEF Steady, LruSound, DistinctCells
<1>6. Linked(e, {})
  <2> SUFFICES ASSUME NEW j \in Key, Has(e.lru_position, j)
               PROVE  \E i \in 1..(len - n) : Points(e, j, i)
    BY <1>3 DEF Linked
  <2>1. j \notin keys /\ e.lru_position[j] = d.lru_position[j] /\ Has(d.lru_position, j)
    BY <1>2 DEF Erase, Has
  <2>2. PICK i \in 1..len : Points(d, j, i)
    BY <2>1 DEF Steady, LruSound, Linked
  <2>3. i \in 1..(len - n)
    BY <1>1, <2>1, <2>2 DEF Points, keys
  <2> QED BY <1>3, <2>1, <2>2, <2>3 DEF Points
<1>7. Tracked(e)
  BY <1>2 DEF Steady, Tracked, Erase, Has
<1> QED BY <1>4, <1>5, <1>6, <1>7 DEF Steady, LruSound, e

\* set() with a cell in the heap and room to be made.
LEMMA SetSteady ==
    ASSUME NEW d, Steady(d), NEW k \in Key, NEW v \in Value,
           \E c \in Cell : FreeCell(d, c), SetHasRoom(d, k)
    PROVE  Steady(Set(d, k, v))
<1> DEFINE old  == Overwrite(d, k)
           room == IF Has(old.string_store, k) THEN Unlink(old, k) ELSE MakeRoom(old)
           f    == PushFront(room, k)
           new  == Set(d, k, v)
<1>1. /\ Steady(old) /\ old \in Database
      /\ old.string_store = d.string_store /\ old.lru_order = d.lru_order
  <2>1. /\ Steady(EvictExpired(d, 0)) /\ Steady(old)
        /\ old.string_store = d.string_store /\ old.lru_order = d.lru_order
    BY ForgetSteady
  <2> QED BY <2>1 DEF Steady, LruSound
<1>2. new = [f EXCEPT !.string_store = [f.string_store EXCEPT ![k] = v]]
  BY DEF Set
<1>3. \E c \in Cell : FreeCell(old, c)
  BY <1>1 DEF FreeCell
<1>4. /\ room \in Database /\ DistinctCells(room) /\ Linked(room, {k})
      /\ \A j \in Key : Has(room.string_store, j) /\ j # k => Has(room.lru_position, j)
      /\ \E c \in Cell : FreeCell(room, c)
  <2>1. CASE Has(old.string_store, k)
    <3> DEFINE u == Unlink(old, k)
    <3>1. Has(old.lru_position, k)
      BY <1>1, <2>1 DEF Steady, Tracked
    <3>2. u \in Database /\ DistinctCells(u) /\ Linked(u, {k}) /\ FreeCell(u, old.lru_position[k])
      BY <1>1, <3>1, UnlinkSound DEF Steady
    <3>3. old.lru_position[k] \in Cell
      BY <1>1, <3>1 DEF Database, Has
    <3>4. u.string_store = old.string_store /\ u.lru_position = old.lru_position
      BY <1>1 DEF Unlink, Database
    <3>5. room = u
      BY <2>1
    <3> HIDE DEF u, room
    <3> QED BY <1>1, <3>2, <3>3, <3>4, <3>5 DEF Steady, Tracked
  <2>2. CASE ~Has(old.string_store, k)
    <3>1. RoomAfter(old) # {}
      BY <1>1, <2>2 DEF SetHasRoom
    <3>2. PICK n \in 0..Len(old.lru_order) : MakeRoom(old) = EvictLast(old, n)
      BY <3>1, MakeRoomLeast
    <3>3. room = EvictLast(old, n)
      BY <2>2, <3>2
    <3> HIDE DEF room, old
    <3>4. Steady(room) /\ (\A c : FreeCell(old, c) => FreeCell(room, c))
      BY <1>1, <3>3, EvictLastSteady, EvictLastShrinks
    <3> QED BY <1>3, <3>4 DEF Steady, Tracked, LruSound, Linked
  <2> QED BY <2>1, <2>2
<1> HIDE DEF old, room
<1>5. /\ LruSound(f)
      /\ \A j \in Key : Has(f.lru_position, j) <=> j = k \/ Has(room.lru_position, j)
      /\ f.string_store = room.string_store
  BY <1>4, PushFrontSound
<1> HIDE DEF f, new
<1>6. /\ new \in Database
      /\ new.string_store = [f.string_store EXCEPT ![k] = v]
      /\ new.lru_order = f.lru_order /\ new.lru_position = f.lru_position
  BY <1>2, <1>5 DEF LruSound, Database
<1>7. DistinctCells(f) /\ Linked(f, {})
  BY <1>5 DEF LruSound
<1>8. DistinctCells(new) /\ Linked(new, {})
  BY <1>6, <1>7, SameLru, Zenon
<1>9. Tracked(new)
  <2>1. f.string_store \in [Key -> Value \cup {Absent}]
    BY <1>5 DEF LruSound, Database
  <2>2. \A j \in Key : Has(new.string_store, j) => j = k \/ Has(room.string_store, j)
    BY <1>5, <1>6, <2>1 DEF Has
  <2> QED BY <1>4, <1>5, <1>6, <2>2 DEF Tracked
<1> QED BY <1>6, <1>8, <1>9 DEF Steady, LruSound, new

\* get() on a string.
LEMMA TouchSteady ==
    ASSUME NEW d, Steady(d), NEW k \in Key
    PROVE  Steady(Touch(d, k))
<1>1. CASE ~Has(d.lru_position, k)
  BY <1>1 DEF Touch
<1>2. CASE Has(d.lru_position, k)
  <2> DEFINE u == Unlink(d, k)
             t == Touch(d, k)
  <2>0. d \in Database
    BY DEF Steady, LruSound
  <2>1. u \in Database /\ DistinctCells(u) /\ Linked(u, {k}) /\ FreeCell(u, d.lru_position[k])
    BY <1>2, UnlinkSound DEF Steady
  <2>2. d.lru_position[k] \in Cell
    BY <1>2, <2>0 DEF Database, Has
  <2>3. u.string_store = d.string_store /\ u.lru_position = d.lru_position
    BY <2>0 DEF Unlink, Database
  <2>4. t = PushFront(u, k)
    BY <1>2 DEF Touch
  <2> HIDE DEF u, t
  <2>5. /\ LruSound(t)
        /\ \A j \in Key : Has(t.lru_position, j) <=> j = k \/ Has(u.lru_position, j)
        /\ t.string_store = u.string_store
    BY <2>1, <2>2, <2>4, PushFrontSound
  <2>6. Tracked(t)
    BY <2>3, <2>5 DEF Steady, Tracked
  <2> QED BY <2>5, <2>6 DEF Steady, t
<1> QED BY <1>1, <1>2

\* Applying a line, with a cell in the heap.
LEMMA LineSteady ==
    ASSUME NEW d, Steady(d), NEW l \in Sent, NEW t \in Int, \E c \in Cell : FreeCell(d, c)
    PROVE  Steady(ApplyLine(d, l, t))
<1> DEFINE tok == l.tokens
           n == Len(tok)
           e == ApplyLine(d, l, t)
<1>1. tok \in Seq(Word) /\ n \in Nat /\ l.type \in LineTypes
  BY LenProperties DEF Sent
<1>2. /\ l.type \notin {"FULLSYNC", "FULLSYNCDONE"} /\ n >= 1 => tok[1] \in Key
      /\ l.type \in {"SET", "LPUSH", "RPUSH"} => \A p \in 2..n : tok[p] \in Value
      /\ l.type = "REPLSET" /\ n >= 3 => tok[2] \in Value /\ tok[3] \in Int \cup {Absent}
      /\ l.type = "REPLLIST" => /\ n >= 2 /\ tok[2] \in Int \cup {Absent}
                                /\ \A p \in 3..n : tok[p] \in Value
  BY DEF Sent, WellFormed
<1>3. n >= 2 => 2 \in 2..n
  BY <1>1
<1> HIDE DEF tok, n, e
<1>4. CASE l.type = "REPLSET"
  <2>1. e = ApplyReplSet(d, tok)
    BY <1>4 DEF ApplyLine, e, tok
  <2>2. CASE n < 3
    <3>1. e = d
      BY <2>1, <2>2 DEF ApplyReplSet, n
    <3> QED BY <3>1 DEF e
  <2>3. CASE ~(n < 3) /\ ~SetHasRoom(d, tok[1])
    <3> DEFINE o == Overwrite(d, tok[1])
    <3>1. e = EvictLast(o, Len(d.lru_order))
      BY <2>1, <2>3 DEF ApplyReplSet, n
    <3>2. Steady(o) /\ o.lru_order = d.lru_order
      <4>1. /\ Steady(EvictExpired(d, 0)) /\ Steady(o) /\ o.lru_order = d.lru_order
        BY ForgetSteady
      <4> QED BY <4>1
    <3>3. Len(d.lru_order) \in 0..Len(o.lru_order)
      <4>1. d.lru_order \in Seq(Node)
        BY DEF Steady, LruSound, Database
      <4> QED BY <3>2, <4>1, LenProperties
    <3> HIDE DEF o
    <3> QED BY <3>1, <3>2, <3>3, EvictLastSteady DEF e
  <2>4. CASE ~(n < 3) /\ SetHasRoom(d, tok[1])
    <3>1. n >= 3 /\ n >= 1
      BY <1>1, <2>4
    <3>2. e = WithDeadline(Set(d, tok[1], tok[2]), tok[1], tok[3])
      BY <2>1, <2>4 DEF ApplyReplSet, n
    <3>3. tok[1] \in Key /\ tok[2] \in Value /\ tok[3] \in Int \cup {Absent}
      BY <1>2, <1>4, <3>1
    <3>4. Steady(Set(d, tok[1], tok[2]))
      BY <2>4, <3>3, SetSteady
    <3> DEFINE f == Set(d, tok[1], tok[2])
    <3> HIDE DEF f
    <3>5. Steady(WithDeadline(f, tok[1], tok[3]))
      <4>1. CASE tok[3] = Absent
        BY <3>4, <4>1 DEF WithDeadline, f
      <4>2. CASE tok[3] \in Int
        BY <3>4, <4>2, DeadlineSteady DEF f
      <4> QED BY <3>3, <4>1, <4>2
    <3> QED BY <3>2, <3>5 DEF e, f
  <2> QED BY <1>1, <2>1, <2>2, <2>3, <2>4 DEF e
<1>5. CASE l.type = "REPLLIST"
  <2> DEFINE s == SubSeq(tok, 3, n)
             f == Del(d, tok[1])
             g == RPushAll(f, tok[1], s)
  <2>1. e = WithDeadline(g, tok[1], tok[2])
    BY <1>5 DEF ApplyLine, ApplyReplList, e, tok, n
  <2>2. tok[1] \in Key /\ tok[2] \in Int \cup {Absent} /\ \A p \in 3..n : tok[p] \in Value
    BY <1>1, <1>2, <1>5
  <2>3. s \in Seq(Value)
    BY <1>1, <2>2, SubSeqProperties
  <2>4. Steady(f)
    <3>1. Steady(EvictExpired(d, 0)) /\ Steady(f)
      BY ForgetSteady
    <3> QED BY <3>1
  <2> HIDE DEF s, f
  <2>5. Steady(g)
    BY <2>2, <2>3, <2>4, ListOpsSteady
  <2> HIDE DEF g
  <2>6. Steady(WithDeadline(g, tok[1], tok[2]))
    <3>1. CASE tok[2] = Absent
      BY <2>5, <3>1 DEF WithDeadline
    <3>2. CASE tok[2] \in Int
      BY <2>5, <3>2, DeadlineSteady
    <3> QED BY <2>2, <3>1, <3>2
  <2> QED BY <2>1, <2>6 DEF e
<1>6. CASE l.type = "SET"
  <2>1. CASE n >= 2 /\ SetHasRoom(d, tok[1])
    <3>1. e = Set(d, tok[1], tok[2])
      BY <1>6, <2>1 DEF ApplyLine, e, tok, n
    <3>2. tok[1] \in Key /\ tok[2] \in Value
      BY <1>1, <1>2, <1>3, <1>6, <2>1
    <3> QED BY <2>1, <3>1, <3>2, SetSteady DEF e
  <2>2. CASE ~(n >= 2 /\ SetHasRoom(d, tok[1]))
    BY <1>6, <2>2 DEF ApplyLine, tok, n
  <2> QED BY <2>1, <2>2
<1>7. CASE l.type = "DEL"
  <2>1. Steady(EvictExpired(d, 0)) /\ Steady(Del(d, tok[1]))
    BY ForgetSteady
  <2>2. e \in {d, Del(d, tok[1])}
    BY <1>7 DEF ApplyLine, e, tok
  <2> QED BY <2>1, <2>2 DEF e
<1>8. CASE l.type = "EXPIRE"
  <2>1. CASE n >= 2 /\ tok[2] \in Int
    <3> DEFINE x == Wrap(t + Wrap(tok[2] * MsPerSecond))
               f == LazyEvict(d, tok[1], t)
    <3>1. e = ExpireAt(f, tok[1], x)
      BY <1>8, <2>1 DEF ApplyLine, ApplyExpire, Expire, e, tok, n
    <3>2. x \in Int
      <4>1. tok[2] * MsPerSecond \in Int
        BY <2>1, UnitsAssumption
      <4>2. t + Wrap(tok[2] * MsPerSecond) \in Int
        BY <4>1, WrapTyped
      <4> QED BY <4>2, WrapTyped
    <3>3. Steady(f)
      BY <1>1, <1>2, <1>8, <2>1, LazyEvictSteady
    <3> HIDE DEF x, f
    <3> QED BY <3>1, <3>2, <3>3, DeadlineSteady DEF e
  <2>2. CASE ~(n >= 2 /\ tok[2] \in Int)
    BY <1>8, <2>2 DEF ApplyLine, ApplyExpire, tok, n
  <2> QED BY <2>1, <2>2
<1>9. CASE l.type \in {"LPUSH", "RPUSH"}
  <2>1. CASE n >= 2
    <3>1. tok[1] \in Key /\ tok[2] \in Value
      BY <1>1, <1>2, <1>3, <1>9, <2>1
    <3>2. e \in {LPush(d, tok[1], tok[2]), RPush(d, tok[1], tok[2])}
      BY <1>9, <2>1 DEF ApplyLine, e, tok, n
    <3>3. Steady(LPush(d, tok[1], tok[2])) /\ Steady(RPush(d, tok[1], tok[2]))
      BY <3>1, ListOpsSteady
    <3> QED BY <3>2, <3>3 DEF e
  <2>2. CASE ~(n >= 2)
    BY <1>9, <2>2 DEF ApplyLine, tok, n
  <2> QED BY <2>1, <2>2
<1>10. CASE l.type \in {"LPOP", "RPOP"}
  <2>1. CASE n >= 1
    <3>1. tok[1] \in Key
      BY <1>2, <1>10, <2>1
    <3>2. e \in {LPop(d, tok[1], t), RPop(d, tok[1], t)}
      BY <1>10, <2>1 DEF ApplyLine, e, tok, n
    <3>3. Steady(LPop(d, tok[1], t)) /\ Steady(RPop(d, tok[1], t))
      BY <3>1, ListOpsSteady
    <3> QED BY <3>2, <3>3 DEF e
  <2>2. CASE ~(n >= 1)
    BY <1>10, <2>2 DEF ApplyLine, tok, n
  <2> QED BY <2>1, <2>2
<1>11. CASE l.type \in {"FULLSYNC", "FULLSYNCDONE"}
  BY <1>11 DEF ApplyLine
<1> QED BY <1>1, <1>4, <1>5, <1>6, <1>7, <1>8, <1>9, <1>10, <1>11 DEF LineTypes, WriteCommands

\* A command that a replica serves.
LEMMA ReadSteady ==
    ASSUME NEW d, Steady(d), NEW c, WellTyped(c), c.name \notin WriteCommands, NEW t \in Int
    PROVE  Steady(Execute(d, c, t).db)
<1> DEFINE a == c.args
           r == Execute(d, c, t)
<1>1. CASE c.name \notin DOMAIN Arity \/ Len(a) \notin Arity[c.name]
  BY <1>1 DEF Execute, Result
<1>2. CASE c.name \in DOMAIN Arity /\ Len(a) \in Arity[c.name]
  <2>1. c.name # "PING" => a[1] \in Key
    BY <1>2 DEF WellTyped
  <2> HIDE DEF a, r
  <2>2. CASE c.name = "PING"
    BY <1>2, <2>2 DEF Execute, Result, r, a
  <2>3. CASE c.name \in {"GET", "EXISTS", "TTL", "LLEN"}
    <3> DEFINE e == LazyEvict(d, a[1], t)
    <3>1. Steady(e)
      BY <2>1, <2>3, LazyEvictSteady
    <3>2. Steady(Touch(e, a[1]))
      <4> HIDE DEF e
      <4> QED BY <2>1, <2>3, <3>1, TouchSteady
    <3>3. r.db \in {e, Touch(e, a[1])}
      BY <1>2, <2>3 DEF Execute, DoGet, DoExists, DoTtl, DoLLen, Result, IsList, IsString, r, a
    <3> HIDE DEF e
    <3> QED BY <3>1, <3>2, <3>3 DEF r
  <2> QED BY <1>2, <2>2, <2>3 DEF Arity, WriteCommands
<1> QED BY <1>1, <1>2


-----------------------------------------------------------------------------
(* Type correctness: every database stays well formed, the leader's sound. *)

Links == {"down", "handshake", "live", "closing"}

\* The leader's database is sound; a replica's keeps a sound LRU list (a record of the
\* full sync may store a list under a key that holds a string, so its maps overlap).
TypeInv ==
    /\ Sound(ldb) /\ Fits(ldb)
    /\ rdb \in [Replica -> Database] /\ \A r \in Replica : Steady(rdb[r])
    /\ link \in [Replica -> Links]
    /\ stream \in [Replica -> Seq(Sent)]
    /\ stale \in [Replica -> SUBSET Key]
    /\ now \in 0..MaxTime /\ writes \in 0..MaxWrites /\ faults \in 0..MaxFaults

\* The invariant names every conjunct of TypeOK.
LEMMA TypeInvSuffices == TypeInv => TypeOK
<1> SUFFICES ASSUME TypeInv
             PROVE  TypeOK
  OBVIOUS
<1>1. ldb \in Database
  BY SoundDatabase DEF TypeInv
<1>2. ASSUME NEW r \in Replica, NEW i \in 1..Len(stream[r])
      PROVE  stream[r][i].type \in LineTypes /\ Empty \notin ToSet(stream[r][i].tokens)
  <2>1. stream[r][i] \in Sent
    BY <1>2, ElementOfSeq DEF TypeInv
  <2>2. PICK l : l = stream[r][i]
    OBVIOUS
  <2>3. l.type \in LineTypes /\ l.tokens \in Seq(Word) /\ \A p \in 1..Len(l.tokens) : l.tokens[p] # Empty
    BY <2>1, <2>2 DEF Sent, WellFormed
  <2>4. DOMAIN l.tokens = 1..Len(l.tokens)
    BY <2>3, LenProperties
  <2> QED BY <2>2, <2>3, <2>4 DEF ToSet
<1> QED BY <1>1, <1>2 DEF TypeOK, TypeInv, Links

\* The initial state.
LEMMA TypeInit == Init => TypeInv
<1>1. Steady(EmptyDb) /\ EmptyDb \in Database
  BY EmptySound, SoundSteady, SoundDatabase
<1>2. <<>> \in Seq(Sent)
  BY EmptySeq
<1> QED BY <1>1, <1>2, EmptySound, BoundsAssumption DEF Init, TypeInv, Links

\* What is cut is the end of a stream.
LEMMA SeverPrefixes ==
    ASSUME NEW S, stream \in [Replica -> Seq(S)], NEW R \in SUBSET Replica, Sever(R)
    PROVE  stream' \in [Replica -> Seq(S)]
<1>1. PICK sent \in [R -> 0..Max({Len(stream[r]) : r \in R})] :
         /\ \A r \in R : sent[r] <= Len(stream[r])
         /\ stream' = [r \in Replica |->
                          IF r \in R THEN SubSeq(stream[r], 1, sent[r]) ELSE stream[r]]
  BY DEF Sever
<1>2. ASSUME NEW r \in R
      PROVE  SubSeq(stream[r], 1, sent[r]) \in Seq(S)
  <2>1. sent[r] \in Int /\ sent[r] <= Len(stream[r])
    <3>1. PICK most : most = Max({Len(stream[p]) : p \in R})
      OBVIOUS
    <3>2. sent \in [R -> 0..most]
      BY <1>1, <3>1
    <3>3. sent[r] \in 0..most
      BY <1>2, <3>2
    <3> QED BY <1>1, <1>2, <3>3
  <2>2. stream[r] \in Seq(S) /\ Len(stream[r]) \in Nat
    BY LenProperties
  <2>3. \A i \in 1..sent[r] : stream[r][i] \in S
    BY <2>1, <2>2, ElementOfSeq
  <2> QED BY <2>1, <2>3, SubSeqProperties
<1> QED BY <1>1, <1>2

\* Cutting the connections of R leaves the other replicas alone; none of R stays live.
LEMMA SeverCuts ==
    ASSUME TypeInv, NEW R \in SUBSET Replica, Sever(R)
    PROVE  /\ link' \in [Replica -> Links] /\ stream' \in [Replica -> Seq(Sent)]
           /\ \A r \in Replica : link'[r] = "live" => /\ link[r] = "live" /\ r \notin R
                                                      /\ stream'[r] = stream[r]
<1>1. link' \in [Replica -> Links]
  BY DEF Sever, TypeInv, Links
<1>2. stream' \in [Replica -> Seq(Sent)]
  BY SeverPrefixes DEF TypeInv
<1>3. ASSUME NEW r \in Replica, link'[r] = "live"
      PROVE  link[r] = "live" /\ r \notin R /\ stream'[r] = stream[r]
  BY <1>3 DEF Sever, TypeInv
<1> QED BY <1>1, <1>2, <1>3

\* A command on the leader.
LEMMA LeaderCommandType ==
    ASSUME TypeInv, NEW c \in Requests, LeaderCommand(c)
    PROVE  TypeInv'
<1> DEFINE r == Execute(ldb, c, now)
<1>1. Sound(r.db) /\ Fits(r.db)
  <2>1. WellTyped(c) /\ now \in Int /\ \E e \in Cell : FreeCell(ldb, e)
    BY RequestsAssumption, BoundsAssumption DEF TypeInv, LeaderCommand, HeapHasCell
  <2> QED BY <2>1, ExecuteGood DEF TypeInv, GoodResult
<1>2. UNCHANGED <<rdb, now, faults>> /\ writes' \in 0..MaxWrites
  BY BoundsAssumption DEF LeaderCommand, TypeInv
<1>3. CASE r.reply = Aborted
  <2>1. ldb' = EmptyDb /\ Sever(Replica) /\ UNCHANGED stale
    BY <1>3 DEF LeaderCommand
  <2>2. link' \in [Replica -> Links] /\ stream' \in [Replica -> Seq(Sent)]
    BY <2>1, SeverCuts
  <2> QED BY <1>2, <2>1, <2>2, EmptySound DEF TypeInv
<1>4. CASE r.reply # Aborted
  <2>1. ldb' = r.db /\ UNCHANGED link
    BY <1>4 DEF LeaderCommand
  <2>2. stream' \in [Replica -> Seq(Sent)] /\ stale' \in [Replica -> SUBSET Key]
    <3>1. CASE c.name \in WriteCommands
      <4>1. Line(c.name, c.args) \in Sent
        BY <3>1, CommandSent
      <4>2. Propagate(c) /\ stale' = [p \in Replica |-> IF link[p] = "live"
                                        THEN stale[p] \ Replaced(c) ELSE stale[p]]
        BY <1>4, <3>1 DEF LeaderCommand
      <4>3. ASSUME NEW p \in Replica
            PROVE  Append(stream[p], Line(c.name, c.args)) \in Seq(Sent)
        BY <4>1, AppendProperties DEF TypeInv
      <4>4. stream' \in [Replica -> Seq(Sent)]
        BY <4>2, <4>3 DEF Propagate, TypeInv
      <4> QED BY <4>2, <4>4 DEF TypeInv
    <3>2. CASE c.name \notin WriteCommands
      BY <1>4, <3>2 DEF LeaderCommand, TypeInv
    <3> QED BY <3>1, <3>2
  <2> HIDE DEF r
  <2> QED BY <1>1, <1>2, <2>1, <2>2 DEF TypeInv
<1> QED BY <1>3, <1>4

\* A command on a replica.
LEMMA ReplicaCommandType ==
    ASSUME TypeInv, NEW r \in Replica, NEW c \in Requests, ReplicaCommand(r, c)
    PROVE  TypeInv'
<1>1. UNCHANGED <<ldb, link, stream, stale, now, writes, faults>>
  BY DEF ReplicaCommand
<1>2. CASE c.name \in WriteCommands
  BY <1>1, <1>2 DEF ReplicaCommand, TypeInv
<1>3. CASE c.name \notin WriteCommands
  <2>1. PICK e : e = Execute(rdb[r], c, now).db
    OBVIOUS
  <2>2. Steady(e) /\ e \in Database
    <3>1. WellTyped(c) /\ now \in Int /\ Steady(rdb[r])
      BY RequestsAssumption, BoundsAssumption DEF TypeInv
    <3>2. Steady(e)
      BY <1>3, <2>1, <3>1, ReadSteady
    <3> QED BY <3>2 DEF Steady, LruSound
  <2>3. rdb' = [rdb EXCEPT ![r] = e]
    BY <1>3, <2>1 DEF ReplicaCommand
  <2> QED BY <1>1, <2>2, <2>3 DEF TypeInv
<1> QED BY <1>2, <1>3

\* A line delivered.
LEMMA DeliverType ==
    ASSUME TypeInv, NEW r \in Replica, Deliver(r)
    PROVE  TypeInv'
<1>1. UNCHANGED <<ldb, stale, now, writes, faults>>
  BY DEF Deliver
<1>2. CASE KillsReplica(rdb[r], Head(stream[r]))
  <2>1. Steady(EmptyDb) /\ EmptyDb \in Database /\ <<>> \in Seq(Sent)
    BY EmptySound, SoundSteady, SoundDatabase, EmptySeq
  <2>2. FreshReplica(r)
    BY <1>2 DEF Deliver
  <2> QED BY <1>1, <2>1, <2>2 DEF FreshReplica, TypeInv, Links
<1>3. CASE ~KillsReplica(rdb[r], Head(stream[r]))
  <2>1. PICK e : e = ApplyLine(rdb[r], Head(stream[r]), now)
    OBVIOUS
  <2>2. /\ stream[r] \in Seq(Sent) /\ stream[r] # <<>> /\ now \in Int /\ Steady(rdb[r])
        /\ \E c \in Cell : FreeCell(rdb[r], c)
    BY BoundsAssumption DEF Deliver, TypeInv, HeapHasCell
  <2>3. Head(stream[r]) \in Sent /\ Tail(stream[r]) \in Seq(Sent)
    BY <2>2, HeadTailProperties
  <2>4. Steady(e) /\ e \in Database
    <3>1. Steady(e)
      BY <2>1, <2>2, <2>3, LineSteady
    <3> QED BY <3>1 DEF Steady, LruSound
  <2>5. /\ rdb' = [rdb EXCEPT ![r] = e]
        /\ stream' = [stream EXCEPT ![r] = Tail(stream[r])]
        /\ UNCHANGED link
    BY <1>3, <2>1 DEF Deliver
  <2> QED BY <1>1, <2>3, <2>4, <2>5 DEF TypeInv
<1> QED BY <1>2, <1>3

\* A promotion.
LEMMA PromoteType ==
    ASSUME TypeInv, NEW r \in Replica, Promote(r)
    PROVE  TypeInv'
<1>1. PICK sync \in FullSyncs(ldb, now) : stream' = [stream EXCEPT ![r] = sync]
  BY DEF Promote
<1>2. sync \in Seq(Sent)
  BY <1>1, FullSyncLines DEF TypeInv, SyncOf
<1>3. stream' \in [Replica -> Seq(Sent)]
  BY <1>1, <1>2 DEF TypeInv
<1>4. stale' \in [Replica -> SUBSET Key] /\ link' \in [Replica -> Links]
  BY DEF Promote, TypeInv, Links
<1>5. UNCHANGED <<ldb, rdb, now, writes, faults>>
  BY DEF Promote
<1> QED BY <1>3, <1>4, <1>5 DEF TypeInv

\* Every step.
LEMMA TypeNext ==
    ASSUME TypeInv, [Next]_vars
    PROVE  TypeInv'
<1>1. Steady(EmptyDb) /\ EmptyDb \in Database /\ <<>> \in Seq(Sent)
  BY EmptySound, SoundSteady, SoundDatabase, EmptySeq
<1>2. ASSUME Fault
      PROVE  faults' \in 0..MaxFaults
  BY <1>2, BoundsAssumption DEF Fault, TypeInv
<1>3. ASSUME NEW c \in Requests, LeaderCommand(c)
      PROVE  TypeInv'
  BY <1>3, LeaderCommandType
<1>4. ASSUME NEW r \in Replica
      PROVE  /\ \A c \in Requests : ReplicaCommand(r, c) => TypeInv'
             /\ Promote(r) => TypeInv'
             /\ Deliver(r) => TypeInv'
  BY <1>4, ReplicaCommandType, PromoteType, DeliverType
<1>5. ASSUME NEW r \in Replica, Connect(r) \/ Eof(r)
      PROVE  TypeInv'
  BY <1>5 DEF Connect, Eof, TypeInv, Links
<1>6. ASSUME NEW r \in Replica, LeaderDrops(r)
      PROVE  TypeInv'
  <2>1. Sever({r}) /\ {r} \in SUBSET Replica
    BY <1>6 DEF LeaderDrops
  <2>2. link' \in [Replica -> Links] /\ stream' \in [Replica -> Seq(Sent)]
    BY <2>1, SeverCuts
  <2> QED BY <1>2, <1>6, <2>2 DEF LeaderDrops, TypeInv
<1>7. ASSUME NEW r \in Replica, ReplicaDrops(r)
      PROVE  TypeInv'
  BY <1>1, <1>2, <1>7 DEF ReplicaDrops, TypeInv, Links
<1>8. ASSUME NEW r \in Replica, ReplicaRestart(r)
      PROVE  TypeInv'
  BY <1>1, <1>2, <1>8 DEF ReplicaRestart, FreshReplica, TypeInv, Links
<1>9. ASSUME NEW r \in Replica, ReplicaSweep(r)
      PROVE  TypeInv'
  <2>1. PICK e : e = EvictExpired(rdb[r], now)
    OBVIOUS
  <2>2. Steady(rdb[r])
    BY DEF TypeInv
  <2>3. Steady(EvictExpired(rdb[r], now)) /\ Steady(Del(rdb[r], r))
        /\ Steady(Overwrite(rdb[r], r)) /\ Overwrite(rdb[r], r).string_store = rdb[r].string_store
        /\ Overwrite(rdb[r], r).lru_order = rdb[r].lru_order
    BY <2>2, ForgetSteady
  <2>4. Steady(e) /\ e \in Database
    BY <2>1, <2>3 DEF Steady, LruSound
  <2>5. rdb' = [rdb EXCEPT ![r] = e] /\ UNCHANGED <<ldb, link, stream, stale, now, writes, faults>>
    BY <1>9, <2>1 DEF ReplicaSweep
  <2> QED BY <2>4, <2>5 DEF TypeInv
<1>10. ASSUME LeaderRestart
       PROVE  TypeInv'
  <2>1. Sever(Replica) /\ ldb' = EmptyDb
    BY <1>10 DEF LeaderRestart
  <2>2. link' \in [Replica -> Links] /\ stream' \in [Replica -> Seq(Sent)]
    BY <2>1, SeverCuts
  <2> QED BY <1>2, <1>10, <2>1, <2>2, EmptySound DEF LeaderRestart, TypeInv
<1>11. ASSUME LeaderSweep
       PROVE  TypeInv'
  <2>1. now \in Int /\ ldb' = EvictExpired(ldb, now) /\ UNCHANGED <<rdb, link, stream, stale, now, writes, faults>>
    BY <1>11, BoundsAssumption DEF LeaderSweep, TypeInv
  <2>2. Sound(EvictExpired(ldb, now)) /\ Fits(EvictExpired(ldb, now))
    BY <2>1, EvictExpiredSound, EvictExpiredFits DEF TypeInv
  <2> QED BY <2>1, <2>2 DEF TypeInv
<1>12. ASSUME Advance
       PROVE  TypeInv'
  BY <1>12, BoundsAssumption DEF Advance, TypeInv
<1>13. ASSUME UNCHANGED vars
       PROVE  TypeInv'
  BY <1>13 DEF vars, TypeInv
<1> QED BY <1>3, <1>4, <1>5, <1>6, <1>7, <1>8, <1>9, <1>10, <1>11, <1>12, <1>13 DEF Next

\* Whatever is sent, lost, swept or restarted, the leader's database, those of the
\* replicas and the lines on their way keep their types, and no empty word survives
\* the encoding.
THEOREM ReplicationTypeCorrect == Spec => []TypeOK
<1>1. TypeInv /\ [Next]_vars => TypeInv'
  BY TypeNext
<1> QED BY <1>1, TypeInit, TypeInvSuffices, PTL DEF Spec


-----------------------------------------------------------------------------
(* A replica never contradicts its leader. *)

\* No client sends a SET with an empty value, or with words after the value.  Both are
\* propagated in a form that a replica reads otherwise than the leader did: without a
\* token for the value the line is malformed and skipped, and a SET that the leader
\* refuses for its number of arguments is obeyed.
PlainSets ==
    \A c \in Requests :
       c.name = "SET" => Len(c.args) <= 2 /\ \A i \in 1..Len(c.args) : c.args[i] # Empty

\* Then a propagated command writes what it stored on the leader, and nothing else does.
LEMMA LineStores ==
    ASSUME PlainSets, NEW c \in Requests, c.name \in WriteCommands, NEW k \in Key
    PROVE  LET l == Line(c.name, c.args)
           IN  /\ Writes(l, k) <=> Stores(c, k)
               /\ Stores(c, k) => Written(l) = c.args[2] /\ c.args[2] # Empty
<1> DEFINE a == c.args
           tok == Tokens(a)
           l == Line(c.name, a)
<1>1. l.type = c.name /\ l.tokens = tok
  BY DEF Line
<1>2. c.name # "REPLSET"
  BY DEF WriteCommands
<1> HIDE DEF l
<1>3. CASE c.name # "SET"
  BY <1>1, <1>2, <1>3 DEF Writes, Stores, l
<1>4. CASE c.name = "SET"
  <2>1. a \in Seq(Word)
    <3>1. a \in Seq(Key \cup Value \cup Int)
      BY RequestsAssumption
    <3>2. \A i \in 1..Len(a) : a[i] \in Word
      BY <3>1 DEF Word
    <3> QED BY <3>1, <3>2 DEF Word
  <2>2. Len(a) \in Nat /\ Len(a) <= 2 /\ \A i \in 1..Len(a) : a[i] # Empty
    BY <1>4, <2>1, LenProperties DEF PlainSets
  <2>3. Kept(tok, a, Len(a))
    BY <2>1, TokensKept
  <2> HIDE DEF a, tok
  <2>4. Len(tok) \in 0..Len(a)
    BY <2>3 DEF Kept
  <2>5. Len(a) <= Len(tok) /\ \A i \in 1..Len(a) : tok[i] = a[i]
    <3>1. Len(a) \in 0..Len(a)
      BY <2>2
    <3> QED BY <2>2, <2>3, <3>1 DEF Kept
  <2>6. Len(tok) = Len(a)
    BY <2>2, <2>4, <2>5
  <2>7. Writes(l, k) <=> Len(a) >= 2 /\ tok[1] = k
    BY <1>1, <1>2, <1>4, <2>6 DEF Writes
  <2>8. Stores(c, k) <=> Len(a) = 2 /\ a[1] = k
    BY <1>4 DEF Stores, a
  <2>9. Len(a) >= 2 => tok[1] = a[1] /\ tok[2] = a[2] /\ a[2] # Empty
    BY <2>2, <2>5
  <2>10. Written(l) = tok[2]
    BY <1>1 DEF Written
  <2>11. Writes(l, k) => Stores(c, k)
    <3> SUFFICES ASSUME Writes(l, k)
                 PROVE  Stores(c, k)
      OBVIOUS
    <3>1. Len(a) >= 2 /\ tok[1] = k
      BY <2>7
    <3>2. Len(a) = 2
      <4>1. \A n \in Nat : n <= 2 /\ n >= 2 => n = 2
        OBVIOUS
      <4> QED BY <2>2, <3>1, <4>1, Zenon
    <3>3. a[1] = k
      BY <2>9, <3>1
    <3> QED BY <2>8, <3>2, <3>3
  <2>12. Stores(c, k) => Writes(l, k) /\ Written(l) = a[2] /\ a[2] # Empty
    <3> SUFFICES ASSUME Stores(c, k)
                 PROVE  Writes(l, k) /\ Written(l) = a[2] /\ a[2] # Empty
      OBVIOUS
    <3>1. Len(a) = 2 /\ a[1] = k
      BY <2>8
    <3>2. Len(a) >= 2
      BY <3>1
    <3> QED BY <2>7, <2>9, <2>10, <3>1, <3>2
  <2> QED BY <2>11, <2>12 DEF l, a
<1> QED BY <1>3, <1>4

\* A full sync agrees with the leader on every key that the replica does not keep.
LEMMA SyncAgrees ==
    ASSUME NEW d, Sound(d), NEW t, NEW sync, SyncOf(sync, d, t), NEW k \in Key,
           Has(d.string_store, k), \A j \in Key : d.string_store[j] # Empty,
           NEW b, Elapsed(d, k, t) => b = Absent
    PROVE  Agreeing(sync, b, k, d.string_store[k])
<1>1. d \in Database
  BY SoundDatabase
<1>2. ASSUME NEW j \in LiveStrings(d, t)
      PROVE  LET l == StringLine(d, j)
             IN  l.type = "REPLSET" /\ l.tokens = <<j, d.string_store[j], d.expiry[j]>>
  <2> DEFINE e == EntryOf("string", d.expiry, d.string_store, j)
  <2>1. /\ e.type = "string" /\ e.key = j /\ e.data = d.string_store[j] /\ e.expiry = d.expiry[j]
        /\ e \in Entry
    BY <1>1 DEF EntryOf, Entry, LiveStrings, Held, Has, Database
  <2>2. e.data # Empty
    BY <2>1 DEF LiveStrings, Held
  <2>3. EntryLine(e).type = "REPLSET" /\ EntryLine(e).tokens = <<e.key, e.data, e.expiry>>
    BY <2>1, <2>2, EntrySent
  <2> QED BY <2>1, <2>3 DEF StringLine
<1>3. ASSUME NEW j \in LiveLists(d, t)
      PROVE  ListLine(d, j).type = "REPLLIST"
  <2> DEFINE e == EntryOf("list", d.expiry, d.list_store, j)
  <2>1. e.type = "list" /\ e \in Entry
    BY <1>1 DEF EntryOf, Entry, LiveLists, Held, Has, Database
  <2>2. EntryLine(e).type = "REPLLIST"
    BY <2>1, EntrySent
  <2> QED BY <2>2 DEF ListLine
<1>4. ASSUME NEW j \in LiveStrings(d, t)
      PROVE  /\ Writes(StringLine(d, j), k) <=> j = k
             /\ Written(StringLine(d, j)) = d.string_store[j]
  <2>1. PICK l : l = StringLine(d, j)
    OBVIOUS
  <2>2. l.type = "REPLSET" /\ l.tokens = <<j, d.string_store[j], d.expiry[j]>>
    BY <1>2, <2>1
  <2>3. Len(l.tokens) = 3 /\ l.tokens[1] = j /\ l.tokens[2] = d.string_store[j]
    BY <2>2
  <2> QED BY <2>1, <2>2, <2>3 DEF Writes, Written
<1>5. ASSUME NEW i \in 1..Len(sync), Writes(sync[i], k)
      PROVE  Written(sync[i]) = d.string_store[k]
  <2>1. sync[i].type \in {"SET", "REPLSET"}
    BY <1>5 DEF Writes
  <2>2. PICK j \in LiveStrings(d, t) : sync[i] = StringLine(d, j)
    BY <1>3, <2>1 DEF SyncOf
  <2> QED BY <1>4, <1>5, <2>2
<1>6. ASSUME ~Elapsed(d, k, t)
      PROVE  \E i \in 1..Len(sync) : Writes(sync[i], k)
  <2>1. k \in LiveStrings(d, t)
    BY <1>6 DEF LiveStrings, Held
  <2>2. PICK i \in 1..Len(sync) : sync[i] = StringLine(d, k)
    BY <2>1 DEF SyncOf
  <2> QED BY <1>4, <2>1, <2>2
<1>7. ASSUME NEW x, LeftBy(sync, Len(sync), b, k, x)
      PROVE  x \in {Absent, d.string_store[k]}
  BY <1>5, <1>6, <1>7 DEF LeftBy
<1> QED BY <1>7 DEF Agreeing

\* What is on the way to a replica that the leader feeds leaves the string that the
\* leader holds under k, or none.
Truthful(r, k) ==
    link[r] = "live" /\ k \notin stale[r] /\ Has(ldb.string_store, k)
       => Agreeing(stream[r], rdb[r].string_store[k], k, ldb.string_store[k])

TruthInv == /\ TypeInv
            /\ \A k \in Key : ldb.string_store[k] # Empty
            /\ \A r \in Replica, k \in Key : Truthful(r, k)

\* The databases have the shape that the lemmas on strings ask for.
LEMMA DatabaseShaped ==
    ASSUME NEW d, d \in Database
    PROVE  Shaped(d)
BY DEF Database, Shaped

\* Those of the type invariant have it.
LEMMA TypeInvShaped ==
    ASSUME TypeInv
    PROVE  /\ Shaped(ldb) /\ \A r \in Replica : Shaped(rdb[r])
           /\ \A r \in Replica : stream[r] \in Seq(Sent) /\ Len(stream[r]) \in Nat
<1>1. ldb \in Database /\ \A r \in Replica : rdb[r] \in Database
  BY SoundDatabase DEF TypeInv
<1>2. \A r \in Replica : stream[r] \in Seq(Sent) /\ Len(stream[r]) \in Nat
  BY LenProperties DEF TypeInv
<1> QED BY <1>1, <1>2, DatabaseShaped

\* The invariant implies the property.
LEMMA TruthSuffices == TruthInv => ReplicaNeverContradicts
<1> SUFFICES ASSUME TruthInv, NEW r \in Replica, NEW k \in Key \ stale[r], link[r] = "live",
                    Has(Replayed(r).string_store, k), Has(ldb.string_store, k)
             PROVE  Replayed(r).string_store[k] = ldb.string_store[k]
  BY DEF ReplicaNeverContradicts, IsString
<1>1. Agreeing(stream[r], rdb[r].string_store[k], k, ldb.string_store[k])
  BY DEF TruthInv, Truthful
<1>2. Shaped(rdb[r]) /\ Len(stream[r]) \in Nat
  BY TypeInvShaped DEF TruthInv
<1>3. Replayed(r).string_store[k] \in {Absent, ldb.string_store[k]}
  BY <1>1, <1>2, ReplayedAgrees
<1> QED BY <1>3 DEF Has

\* No one is connected.
LEMMA TruthInit == Init => TruthInv
<1> SUFFICES ASSUME Init
             PROVE  TruthInv
  OBVIOUS
<1>1. \A k \in Key : ldb.string_store[k] # Empty
  BY EmptyAssumption DEF Init, EmptyDb, EmptyMap
<1>2. \A r \in Replica, k \in Key : Truthful(r, k)
  BY DEF Init, Truthful
<1> QED BY <1>1, <1>2, TypeInit DEF TruthInv

\* A step in which strings fade, on either side, and no line is sent.
LEMMA TruthfulStays ==
    ASSUME NEW r \in Replica, NEW k \in Key, Truthful(r, k),
           link'[r] = "live" => link[r] = "live", stale'[r] = stale[r], stream'[r] = stream[r],
           rdb'[r].string_store[k] \in {Absent, rdb[r].string_store[k]},
           ldb'.string_store[k] \in {Absent, ldb.string_store[k]}
    PROVE  Truthful(r, k)'
<1> SUFFICES ASSUME link'[r] = "live", k \notin stale'[r], Has(ldb'.string_store, k)
             PROVE  Agreeing(stream'[r], rdb'[r].string_store[k], k, ldb'.string_store[k])
  BY DEF Truthful
<1>1. Has(ldb.string_store, k) /\ ldb'.string_store[k] = ldb.string_store[k]
  BY DEF Has
<1>2. Agreeing(stream[r], rdb[r].string_store[k], k, ldb.string_store[k])
  BY <1>1 DEF Truthful
<1>3. Agreeing(stream[r], rdb'[r].string_store[k], k, ldb.string_store[k])
  BY <1>2, AgreeingFades
<1> QED BY <1>1, <1>3

\* A command on the leader: the line it sends, if any, writes what it stored.
LEMMA LeaderCommandTruth ==
    ASSUME PlainSets, TruthInv, NEW c \in Requests, LeaderCommand(c)
    PROVE  /\ \A k \in Key : ldb'.string_store[k] # Empty
           /\ \A r \in Replica, k \in Key : Truthful(r, k)'
<1> DEFINE e == Execute(ldb, c, now)
<1>1. UNCHANGED rdb
  BY DEF LeaderCommand
<1>2. CASE e.reply = Aborted
  <2>1. ldb' = EmptyDb /\ Sever(Replica)
    BY <1>2 DEF LeaderCommand
  <2>2. \A r \in Replica : link'[r] # "live"
    BY <2>1, SeverCuts DEF TruthInv
  <2> QED BY <2>1, <2>2, EmptyAssumption DEF EmptyDb, EmptyMap, Truthful
<1>3. CASE e.reply # Aborted
  <2>1. ldb' = e.db /\ UNCHANGED link
    BY <1>3 DEF LeaderCommand
  <2>2. \A k \in Key : IF Stores(c, k) THEN ldb'.string_store[k] = c.args[2]
                       ELSE ldb'.string_store[k] \in {Absent, ldb.string_store[k]}
    <3>1. Shaped(ldb)
      BY TypeInvShaped DEF TruthInv
    <3> QED BY <1>3, <2>1, <3>1, ExecuteWrites
  <2>3. \A k \in Key : Stores(c, k) => c.name \in WriteCommands
    BY DEF Stores, WriteCommands
  <2>4. \A k \in Key : ldb'.string_store[k] # Empty
    <3> SUFFICES ASSUME NEW k \in Key
                 PROVE  ldb'.string_store[k] # Empty
      OBVIOUS
    <3>1. Stores(c, k) => c.args[2] # Empty
      BY DEF Stores, PlainSets
    <3> QED BY <2>2, <3>1, EmptyAssumption DEF TruthInv
  <2>5. CASE c.name \notin WriteCommands
    <3>1. UNCHANGED <<stream, stale>>
      BY <1>3, <2>5 DEF LeaderCommand
    <3>2. ASSUME NEW r \in Replica, NEW k \in Key
          PROVE  Truthful(r, k)'
      <4>1. ldb'.string_store[k] \in {Absent, ldb.string_store[k]}
        BY <2>2, <2>3, <2>5
      <4>2. Truthful(r, k)
        BY DEF TruthInv
      <4>3. /\ link'[r] = "live" => link[r] = "live"
            /\ stale'[r] = stale[r] /\ stream'[r] = stream[r]
            /\ rdb'[r].string_store[k] \in {Absent, rdb[r].string_store[k]}
        BY <1>1, <2>1, <3>1
      <4> QED BY <4>1, <4>2, <4>3, TruthfulStays
    <3> QED BY <2>4, <3>2
  <2>6. CASE c.name \in WriteCommands
    <3> DEFINE l == Line(c.name, c.args)
    <3>1. /\ stream' = [p \in Replica |-> IF link[p] = "live" THEN Append(stream[p], l) ELSE stream[p]]
          /\ stale' = [p \in Replica |-> IF link[p] = "live" THEN stale[p] \ Replaced(c) ELSE stale[p]]
      BY <1>3, <2>6 DEF LeaderCommand, Propagate
    <3>2. l \in Sent
      BY <2>6, CommandSent
    <3>3. ASSUME NEW k \in Key
          PROVE  /\ Writes(l, k) <=> Stores(c, k)
                 /\ Stores(c, k) => Written(l) = c.args[2]
      BY <2>6, LineStores
    <3> HIDE DEF l
    <3>4. ASSUME NEW r \in Replica, NEW k \in Key, link[r] = "live", k \notin stale'[r],
                 Has(ldb'.string_store, k)
          PROVE  IF Writes(l, k) THEN Written(l) = ldb'.string_store[k]
                 ELSE Agreeing(stream[r], rdb[r].string_store[k], k, ldb'.string_store[k])
      <4>1. CASE Stores(c, k)
        BY <2>2, <3>3, <4>1
      <4>2. CASE ~Stores(c, k)
        <5>1. ldb'.string_store[k] = ldb.string_store[k] /\ Has(ldb.string_store, k)
          BY <2>2, <3>4, <4>2 DEF Has
        <5>2. k \notin Replaced(c)
          <6>1. CASE c.name = "DEL" /\ Len(c.args) \in Arity[c.name] /\ c.args[1] = k
            <7>1. e.db = Del(ldb, k)
              BY <6>1 DEF Execute, DoDel, Result, Arity
            <7>2. Del(ldb, k).string_store[k] = Absent
              <8>1. ldb \in Database
                BY SoundDatabase DEF TruthInv, TypeInv
              <8> QED BY <8>1 DEF Del, Erase, Database
            <7> QED BY <2>1, <3>4, <7>1, <7>2 DEF Has
          <6>2. CASE c.name = "SET" /\ Len(c.args) \in Arity[c.name] /\ c.args[1] = k
            BY <4>2, <6>2 DEF Stores, Arity
          <6> QED BY <6>1, <6>2 DEF Replaced
        <5>3. k \notin stale[r]
          BY <3>1, <3>4, <5>2
        <5>4. Agreeing(stream[r], rdb[r].string_store[k], k, ldb.string_store[k])
          BY <3>4, <5>1, <5>3 DEF TruthInv, Truthful
        <5> QED BY <3>3, <4>2, <5>1, <5>4
      <4> QED BY <4>1, <4>2
    <3>5. ASSUME NEW r \in Replica, NEW k \in Key
          PROVE  Truthful(r, k)'
      <4> SUFFICES ASSUME link'[r] = "live", k \notin stale'[r], Has(ldb'.string_store, k)
                   PROVE  Agreeing(stream'[r], rdb'[r].string_store[k], k, ldb'.string_store[k])
        BY DEF Truthful
      <4>1. link[r] = "live" /\ stream'[r] = Append(stream[r], l)
        BY <2>1, <3>1
      <4>2. stream[r] \in Seq(Sent)
        BY TypeInvShaped DEF TruthInv
      <4>3. IF Writes(l, k) THEN Written(l) = ldb'.string_store[k]
            ELSE Agreeing(stream[r], rdb[r].string_store[k], k, ldb'.string_store[k])
        BY <3>4, <4>1
      <4>4. Agreeing(Append(stream[r], l), rdb[r].string_store[k], k, ldb'.string_store[k])
        BY <3>2, <4>2, <4>3, AgreeingAppend
      <4> QED BY <1>1, <4>1, <4>4
    <3> QED BY <2>4, <3>5
  <2> QED BY <2>5, <2>6
<1> QED BY <1>2, <1>3

\* A line delivered: what it writes is what the lines left to come were to leave.
LEMMA DeliverTruth ==
    ASSUME TruthInv, NEW r \in Replica, Deliver(r), NEW p \in Replica, NEW k \in Key
    PROVE  Truthful(p, k)'
<1>1. UNCHANGED <<ldb, stale>> /\ Truthful(p, k) /\ TypeInv
  BY DEF Deliver, TruthInv
<1>2. CASE KillsReplica(rdb[r], Head(stream[r]))
  <2>1. FreshReplica(r)
    BY <1>2 DEF Deliver
  <2>2. CASE p = r
    BY <1>1, <2>1, <2>2 DEF FreshReplica, Truthful, TypeInv
  <2>3. CASE p # r
    <3>1. link'[p] = link[p] /\ stream'[p] = stream[p] /\ rdb'[p] = rdb[p]
      BY <1>1, <2>1, <2>3 DEF FreshReplica, TypeInv
    <3> QED BY <1>1, <3>1 DEF Truthful
  <2> QED BY <2>2, <2>3
<1>3. CASE ~KillsReplica(rdb[r], Head(stream[r]))
  <2>1. PICK e : e = ApplyLine(rdb[r], Head(stream[r]), now)
    OBVIOUS
  <2>2. /\ rdb' = [rdb EXCEPT ![r] = e]
        /\ stream' = [stream EXCEPT ![r] = Tail(stream[r])]
        /\ UNCHANGED link /\ stream[r] # <<>>
    BY <1>3, <2>1 DEF Deliver
  <2>3. CASE p # r
    <3>1. link'[p] = link[p] /\ stream'[p] = stream[p] /\ rdb'[p] = rdb[p]
      BY <1>1, <2>2, <2>3 DEF TypeInv
    <3> QED BY <1>1, <3>1 DEF Truthful
  <2>4. CASE p = r
    <3> SUFFICES ASSUME link[r] = "live", k \notin stale[r], Has(ldb.string_store, k)
                 PROVE  Agreeing(stream'[r], rdb'[r].string_store[k], k, ldb.string_store[k])
      BY <1>1, <2>2, <2>4 DEF Truthful
    <3>1. rdb'[r] = e /\ stream'[r] = Tail(stream[r])
      BY <1>1, <2>2 DEF TypeInv
    <3>2. Agreeing(stream[r], rdb[r].string_store[k], k, ldb.string_store[k])
      BY <1>1, <2>4 DEF Truthful
    <3>3. IF Writes(Head(stream[r]), k) THEN e.string_store[k] \in {Absent, Written(Head(stream[r]))}
          ELSE e.string_store[k] \in {Absent, rdb[r].string_store[k]}
      <4>1. Shaped(rdb[r])
        BY <1>1, TypeInvShaped
      <4> QED BY <2>1, <4>1, LineWrites
    <3>4. stream[r] \in Seq(Sent)
      BY <1>1, TypeInvShaped
    <3>5. Agreeing(Tail(stream[r]), e.string_store[k], k, ldb.string_store[k])
      BY <2>2, <3>2, <3>3, <3>4, AgreeingTail
    <3> QED BY <3>1, <3>5
  <2> QED BY <2>3, <2>4
<1> QED BY <1>2, <1>3

\* A promotion: the full sync settles every key, and the stale ones are set aside.
LEMMA PromoteTruth ==
    ASSUME TruthInv, NEW r \in Replica, Promote(r), NEW p \in Replica, NEW k \in Key
    PROVE  Truthful(p, k)'
<1>1. UNCHANGED <<ldb, rdb>> /\ Truthful(p, k) /\ TypeInv
  BY DEF Promote, TruthInv
<1>2. PICK sync \in FullSyncs(ldb, now) : stream' = [stream EXCEPT ![r] = sync]
  BY DEF Promote
<1>3. CASE p # r
  <2>1. link'[p] = link[p] /\ stream'[p] = stream[p] /\ stale'[p] = stale[p]
    BY <1>1, <1>2, <1>3 DEF Promote, TypeInv
  <2> QED BY <1>1, <2>1 DEF Truthful
<1>4. CASE p = r
  <2> SUFFICES ASSUME k \notin stale'[r], Has(ldb.string_store, k)
               PROVE  Agreeing(stream'[r], rdb[r].string_store[k], k, ldb.string_store[k])
    BY <1>1, <1>4 DEF Truthful
  <2>1. stream'[r] = sync
    BY <1>1, <1>2 DEF TypeInv
  <2>2. stale'[r] = {j \in Key : Present(rdb[r], j) /\ ~Visible(ldb, j, now)}
    BY <1>1 DEF Promote, TypeInv
  <2>3. Elapsed(ldb, k, now) => rdb[r].string_store[k] = Absent
    BY <2>2 DEF Visible, Present, Has
  <2>4. SyncOf(sync, ldb, now)
    BY <1>1, FullSyncLines DEF TypeInv
  <2>5. Sound(ldb) /\ \A j \in Key : ldb.string_store[j] # Empty
    BY DEF TruthInv, TypeInv
  <2>6. Agreeing(sync, rdb[r].string_store[k], k, ldb.string_store[k])
    BY <2>3, <2>4, <2>5, SyncAgrees
  <2> QED BY <2>1, <2>6
<1> QED BY <1>3, <1>4

\* Every step.
LEMMA TruthNext ==
    ASSUME PlainSets, TruthInv, [Next]_vars
    PROVE  TruthInv'
<1> DEFINE Aim == /\ \A k \in Key : ldb'.string_store[k] # Empty
                  /\ \A p \in Replica, k \in Key : Truthful(p, k)'
<1>1. TypeInv /\ TypeInv'
  BY TypeNext DEF TruthInv
<1>2. \A k \in Key : ldb.string_store[k] # Empty
  BY DEF TruthInv
<1>3. Shaped(ldb) /\ \A p \in Replica : Shaped(rdb[p])
  BY <1>1, TypeInvShaped
<1>4. ASSUME \A k \in Key : ldb'.string_store[k] \in {Absent, ldb.string_store[k]},
             \A p \in Replica : /\ link'[p] = "live" =>
                                     /\ link[p] = "live"
                                     /\ stream'[p] = stream[p] /\ stale'[p] = stale[p]
                                     /\ \A k \in Key : rdb'[p].string_store[k]
                                                          \in {Absent, rdb[p].string_store[k]}
      PROVE  Aim
  <2>1. \A k \in Key : ldb'.string_store[k] # Empty
    BY <1>2, <1>4, EmptyAssumption
  <2>2. ASSUME NEW p \in Replica, NEW k \in Key
        PROVE  Truthful(p, k)'
    <3>1. CASE link'[p] # "live"
      BY <3>1 DEF Truthful
    <3>2. CASE link'[p] = "live"
      <4>1. /\ link[p] = "live" /\ stream'[p] = stream[p] /\ stale'[p] = stale[p]
            /\ rdb'[p].string_store[k] \in {Absent, rdb[p].string_store[k]}
            /\ ldb'.string_store[k] \in {Absent, ldb.string_store[k]}
        BY <1>4, <3>2
      <4>2. Truthful(p, k)
        BY DEF TruthInv
      <4> QED BY <4>1, <4>2, TruthfulStays
    <3> QED BY <3>1, <3>2
  <2> QED BY <2>1, <2>2
<1> SUFFICES Aim
  BY <1>1 DEF TruthInv
<1>5. ASSUME NEW c \in Requests, LeaderCommand(c)
      PROVE  Aim
  BY <1>5, LeaderCommandTruth
<1>6. ASSUME NEW r \in Replica, Promote(r) \/ Deliver(r)
      PROVE  Aim
  <2>1. UNCHANGED ldb
    BY <1>6 DEF Promote, Deliver
  <2>2. \A p \in Replica, k \in Key : Truthful(p, k)'
    BY <1>6, PromoteTruth, DeliverTruth
  <2> QED BY <1>2, <2>1, <2>2
<1> HIDE DEF Aim
<1>7. ASSUME NEW r \in Replica, NEW c \in Requests, ReplicaCommand(r, c)
      PROVE  Aim
  <2>1. UNCHANGED <<ldb, link, stream, stale>>
    BY <1>7 DEF ReplicaCommand
  <2>2. CASE c.name \in WriteCommands
    BY <1>4, <1>7, <2>1, <2>2 DEF ReplicaCommand
  <2>3. CASE c.name \notin WriteCommands
    <3>1. PICK e : e = Execute(rdb[r], c, now).db
      OBVIOUS
    <3>2. \A k \in Key : e.string_store[k] \in {Absent, rdb[r].string_store[k]}
      <4>1. \A k \in Key : ~Stores(c, k)
        BY <2>3 DEF Stores, WriteCommands
      <4> QED BY <1>3, <3>1, <4>1, ExecuteWrites
    <3>3. rdb' = [rdb EXCEPT ![r] = e]
      BY <1>7, <2>3, <3>1 DEF ReplicaCommand
    <3>4. \A p \in Replica : rdb'[p] = IF p = r THEN e ELSE rdb[p]
      BY <1>1, <3>3 DEF TypeInv
    <3> QED BY <1>4, <2>1, <3>2, <3>4
  <2> QED BY <2>2, <2>3
<1>8. ASSUME NEW r \in Replica, Connect(r) \/ Eof(r)
      PROVE  Aim
  <2>1. UNCHANGED <<ldb, rdb, stream, stale>> /\ \A p \in Replica : link'[p] = "live" => link[p] = "live"
    BY <1>1, <1>8 DEF Connect, Eof, TypeInv
  <2> QED BY <1>4, <2>1
<1>9. ASSUME NEW r \in Replica, LeaderDrops(r)
      PROVE  Aim
  <2>1. Sever({r}) /\ {r} \in SUBSET Replica /\ UNCHANGED <<ldb, rdb, stale>>
    BY <1>9 DEF LeaderDrops
  <2>2. \A p \in Replica : link'[p] = "live" => link[p] = "live" /\ stream'[p] = stream[p]
    BY <1>1, <2>1, SeverCuts
  <2> QED BY <1>4, <2>1, <2>2
<1>10. ASSUME NEW r \in Replica, ReplicaDrops(r) \/ ReplicaRestart(r)
       PROVE  Aim
  <2>1. UNCHANGED <<ldb, stale>>
    BY <1>10 DEF ReplicaDrops, ReplicaRestart
  <2>2. \A p \in Replica : link'[p] = "live" =>
           link[p] = "live" /\ stream'[p] = stream[p] /\ rdb'[p] = rdb[p]
    BY <1>1, <1>10 DEF ReplicaDrops, ReplicaRestart, FreshReplica, TypeInv
  <2> QED BY <1>4, <2>1, <2>2
<1>11. ASSUME NEW r \in Replica, ReplicaSweep(r)
       PROVE  Aim
  <2>1. PICK e : e = EvictExpired(rdb[r], now)
    OBVIOUS
  <2>2. \A k \in Key : e.string_store[k] \in {Absent, rdb[r].string_store[k]}
    <3>1. Fades(rdb[r], LazyEvict(rdb[r], r, now)) /\ Fades(rdb[r], EvictExpired(rdb[r], now))
      BY <1>3, ExpiryFades
    <3> QED BY <2>1, <3>1 DEF Fades
  <2>3. rdb' = [rdb EXCEPT ![r] = e] /\ UNCHANGED <<ldb, link, stream, stale>>
    BY <1>11, <2>1 DEF ReplicaSweep
  <2>4. \A p \in Replica : rdb'[p] = IF p = r THEN e ELSE rdb[p]
    BY <1>1, <2>3 DEF TypeInv
  <2> QED BY <1>4, <2>2, <2>3, <2>4
<1>12. ASSUME LeaderRestart
       PROVE  Aim
  <2>1. Sever(Replica) /\ ldb' = EmptyDb
    BY <1>12 DEF LeaderRestart
  <2>2. \A p \in Replica : link'[p] # "live"
    BY <1>1, <2>1, SeverCuts
  <2>3. \A k \in Key : ldb'.string_store[k] = Absent
    BY <2>1 DEF EmptyDb, EmptyMap
  <2> QED BY <1>4, <2>2, <2>3
<1>13. ASSUME LeaderSweep
       PROVE  Aim
  <2>1. ldb' = EvictExpired(ldb, now) /\ UNCHANGED <<rdb, link, stream, stale>>
    BY <1>13 DEF LeaderSweep
  <2>2. Fades(ldb, LazyEvict(ldb, now, now)) /\ Fades(ldb, EvictExpired(ldb, now))
    BY <1>3, ExpiryFades
  <2>3. \A k \in Key : ldb'.string_store[k] \in {Absent, ldb.string_store[k]}
    BY <2>1, <2>2 DEF Fades
  <2> QED BY <1>4, <2>1, <2>3
<1>14. ASSUME Advance \/ UNCHANGED vars
       PROVE  Aim
  <2>1. UNCHANGED <<ldb, rdb, link, stream, stale>>
    BY <1>14 DEF Advance, vars
  <2> QED BY <1>4, <2>1
<1> QED BY <1>5, <1>6, <1>7, <1>8, <1>9, <1>10, <1>11, <1>12, <1>13, <1>14 DEF Next

\* When no SET is empty or refused, a replica that has applied what is on its way never
\* answers a GET with another value than its leader: through evictions and deadlines of
\* its own, cuts, deaths, restarts and synchronisations on top of an older state.
THEOREM ReplicaTellsTheTruth ==
    ASSUME PlainSets
    PROVE  Spec => []ReplicaNeverContradicts
<1>1. TruthInv /\ [Next]_vars => TruthInv'
  BY TruthNext
<1> QED BY <1>1, TruthInit, TruthSuffices, PTL DEF Spec


-----------------------------------------------------------------------------
(* What the operations do to strings and lists as long as no key has a        *)
(* deadline and there is room for all.                                        *)

Timeless(d) == Steady(d) /\ d.expiry = EmptyMap

\* Room for every key, even if each string hides a list, and heap for every node.
Ample == 2 * Cardinality(Key) <= MaxCapacity /\ \A d \in Database : HeapHasCell(d)

\* A list as the maps hold it: none when it is empty.
Rest(s) == IF s = <<>> THEN Absent ELSE s

Holds(d, strings, lists) ==
    d.string_store = strings /\ d.list_store = lists /\ d.expiry = EmptyMap

\* Nothing is elapsed.
LEMMA TimelessKeeps ==
    ASSUME NEW d, Timeless(d), NEW k \in Key, NEW t
    PROVE  /\ LazyEvict(d, k, t) = d
           /\ Holds(EvictExpired(d, t), d.string_store, d.list_store)
           /\ ~Elapsed(d, k, t)
<1>1. d \in Database
  BY DEF Timeless, Steady, LruSound
<1>2. \A j \in Key : ~Elapsed(d, j, t)
  BY DEF Timeless, Elapsed, Has, EmptyMap
<1>3. EvictExpired(d, t) = [d EXCEPT !.string_store = Erase(@, {}), !.list_store = Erase(@, {}),
                                     !.expiry = Erase(@, {})]
  <2>1. {j \in Key : Elapsed(d, j, t)} = {}
    BY <1>2
  <2> QED BY <2>1 DEF EvictExpired
<1>4. Erase(d.string_store, {}) = d.string_store /\ Erase(d.list_store, {}) = d.list_store
      /\ Erase(d.expiry, {}) = d.expiry
  BY <1>1 DEF Erase, Database
<1>5. Holds(EvictExpired(d, t), d.string_store, d.list_store)
  BY <1>1, <1>3, <1>4 DEF Holds, Timeless, Database
<1> QED BY <1>2, <1>5 DEF LazyEvict

\* unlinking and push_front() touch no key.
LEMMA LruAside ==
    ASSUME NEW d, Shaped(d), NEW k, NEW strings, NEW lists, Holds(d, strings, lists)
    PROVE  /\ Shaped(Unlink(d, k)) /\ Holds(Unlink(d, k), strings, lists)
           /\ Shaped(PushFront(d, k)) /\ Holds(PushFront(d, k), strings, lists)
<1>1. Shaped(Unlink(d, k)) /\ Holds(Unlink(d, k), strings, lists)
  <2> DEFINE i == CHOOSE i \in 1..Len(d.lru_order) : d.lru_order[i].cell = d.lru_position[k]
  <2>1. Unlink(d, k) = [d EXCEPT !.lru_order = RemoveAt(d.lru_order, i)]
    BY DEF Unlink, Shaped
  <2> HIDE DEF i
  <2> QED BY <2>1 DEF Holds, Shaped
<1>2. Shaped(PushFront(d, k)) /\ Holds(PushFront(d, k), strings, lists)
  <2> DEFINE c == CHOOSE c \in Cell : FreeCell(d, c)
             node == [cell |-> c, key |-> k]
  <2>1. PushFront(d, k) = [d EXCEPT !.lru_order = Cons(node, d.lru_order),
                                    !.lru_position = [d.lru_position EXCEPT ![k] = c]]
    BY DEF PushFront, Shaped
  <2> HIDE DEF c, node
  <2> QED BY <2>1 DEF Holds, Shaped
<1> QED BY <1>1, <1>2

\* get() of a string.
LEMMA TouchAside ==
    ASSUME NEW d, d \in Database, d.expiry = EmptyMap, NEW k
    PROVE  Holds(Touch(d, k), d.string_store, d.list_store)
<1>1. Shaped(d) /\ Holds(d, d.string_store, d.list_store)
  BY DatabaseShaped DEF Holds
<1>2. PICK strings, lists : strings = d.string_store /\ lists = d.list_store
  OBVIOUS
<1>3. PICK u : u = Unlink(d, k)
  OBVIOUS
<1>4. Shaped(u) /\ Holds(u, strings, lists)
  BY <1>1, <1>2, <1>3, LruAside
<1>5. Holds(PushFront(u, k), strings, lists)
  BY <1>4, LruAside
<1> QED BY <1>1, <1>2, <1>3, <1>5 DEF Touch

\* With room for every key a new string finds some.
LEMMA AmpleRoom ==
    ASSUME Ample, NEW d, d \in Database, NEW k \in Key, ~Has(d.string_store, k),
           ~Has(d.list_store, k)
    PROVE  Size(d) < MaxCapacity
<1>1. IsFiniteSet(Key) /\ MaxCapacity \in Nat
  BY KeyAssumption, CapacityAssumption
<1>2. /\ Held(d.string_store) \subseteq Key \ {k}
      /\ Held(d.list_store) \subseteq Key \ {k}
  BY DEF Held
<1>3. IsFiniteSet(Key \ {k}) /\ Cardinality(Key \ {k}) = Cardinality(Key) - 1
      /\ Cardinality(Key) \in Nat
  BY <1>1, FS_RemoveElement, FS_CardinalityType
<1>4. /\ Cardinality(Held(d.string_store)) <= Cardinality(Key) - 1
      /\ Cardinality(Held(d.list_store)) <= Cardinality(Key) - 1
      /\ Cardinality(Held(d.string_store)) \in Nat
      /\ Cardinality(Held(d.list_store)) \in Nat
  BY <1>2, <1>3, FS_Subset, FS_CardinalityType
<1> QED BY <1>1, <1>3, <1>4 DEF Ample, Size

\* set() then writes its key, clears its list, and that is all.
LEMMA AmpleSet ==
    ASSUME Ample, NEW d, Timeless(d), NEW k \in Key, NEW v
    PROVE  /\ SetHasRoom(d, k)
           /\ Holds(Set(d, k, v), [d.string_store EXCEPT ![k] = v], Erase(d.list_store, {k}))
<1> DEFINE old  == Overwrite(d, k)
           room == IF Has(old.string_store, k) THEN Unlink(old, k) ELSE MakeRoom(old)
           new  == PushFront(room, k)
<1>1. PICK strings, lists : strings = d.string_store /\ lists = Erase(d.list_store, {k})
  OBVIOUS
<1>2. old \in Database /\ Holds(old, strings, lists) /\ Shaped(old)
  <2>1. d \in Database
    BY DEF Timeless, Steady, LruSound
  <2>2. old \in Database /\ old.string_store = d.string_store
        /\ old.list_store = Erase(d.list_store, {k}) /\ old.expiry = Erase(d.expiry, {k})
    BY <2>1 DEF Overwrite, Database, Erase
  <2>3. Erase(d.expiry, {k}) = EmptyMap
    BY DEF Timeless, EmptyMap, Erase
  <2> HIDE DEF old
  <2> QED BY <1>1, <2>2, <2>3, DatabaseShaped DEF Holds
<1>3. old.string_store = d.string_store
  BY <1>1, <1>2 DEF Holds
<1> HIDE DEF old
<1>4. ASSUME ~Has(d.string_store, k)
      PROVE  Shaped(room) /\ Holds(room, strings, lists) /\ SetHasRoom(d, k)
  <2>1. Size(old) < MaxCapacity
    <3>1. ~Has(old.string_store, k) /\ ~Has(old.list_store, k)
      BY <1>1, <1>2, <1>4 DEF Holds, Has, Erase
    <3> QED BY <1>2, <3>1, AmpleRoom
  <2>2. Len(old.lru_order) \in Nat
    BY <1>2, LenProperties DEF Database
  <2>3. Holds(EvictLast(old, 0), strings, lists)
    BY <1>2, EvictLastNone DEF Holds
  <2>4. Size(EvictLast(old, 0)) = Size(old)
    BY <1>2, <2>3 DEF Holds, Size
  <2>5. 0 \in RoomAfter(old)
    BY <2>1, <2>2, <2>4 DEF RoomAfter
  <2>6. PICK n \in RoomAfter(old) : /\ n \in 0..Len(old.lru_order) /\ MakeRoom(old) = EvictLast(old, n)
                                    /\ \A m \in RoomAfter(old) : n <= m
    BY <2>5, MakeRoomLeast
  <2>7. n = 0
    BY <2>2, <2>5, <2>6
  <2>8. room = EvictLast(old, 0) /\ SetHasRoom(d, k)
    BY <1>3, <1>4, <2>5, <2>6, <2>7 DEF SetHasRoom, old
  <2>9. Shaped(room)
    <3>1. Fades(old, EvictLast(old, 0)) /\ Fades(old, MakeRoom(old))
          /\ Fades(old, Overwrite(old, k)) /\ Fades(old, Del(old, k))
      BY <1>2, ClearingFades
    <3> QED BY <2>8, <3>1 DEF Fades
  <2> QED BY <2>3, <2>8, <2>9
<1>5. ASSUME Has(d.string_store, k)
      PROVE  Shaped(room) /\ Holds(room, strings, lists) /\ SetHasRoom(d, k)
  <2>1. room = Unlink(old, k) /\ SetHasRoom(d, k)
    BY <1>3, <1>5 DEF SetHasRoom
  <2> QED BY <1>2, <2>1, LruAside
<1>6. Shaped(room) /\ Holds(room, strings, lists) /\ SetHasRoom(d, k)
  BY <1>4, <1>5
<1> HIDE DEF room
<1>7. Shaped(new) /\ Holds(new, strings, lists)
  BY <1>6, LruAside
<1>8. Set(d, k, v) = [new EXCEPT !.string_store = [new.string_store EXCEPT ![k] = v]]
  BY <1>7 DEF Set, Shaped, room, old
<1> HIDE DEF new
<1>9. Holds(Set(d, k, v), [strings EXCEPT ![k] = v], lists)
  BY <1>7, <1>8 DEF Holds, Shaped
<1> QED BY <1>1, <1>6, <1>9

\* The operations on lists, and del().
LEMMA AmpleLists ==
    ASSUME NEW d, Timeless(d), NEW k \in Key, NEW v, NEW s \in Seq(Value), NEW t
    PROVE  /\ Holds(Del(d, k), Erase(d.string_store, {k}), Erase(d.list_store, {k}))
           /\ Holds(LPush(d, k, v), d.string_store, [d.list_store EXCEPT ![k] = Cons(v, ListAt(d, k))])
           /\ Holds(RPush(d, k, v), d.string_store, [d.list_store EXCEPT ![k] = Append(ListAt(d, k), v)])
           /\ s # <<>> => Holds(RPushAll(Del(d, k), k, s), Erase(d.string_store, {k}),
                                [d.list_store EXCEPT ![k] = s])
           /\ IF ListAt(d, k) = <<>> THEN LPop(d, k, t) = d
              ELSE Holds(LPop(d, k, t), d.string_store,
                         [d.list_store EXCEPT ![k] = Rest(Tail(d.list_store[k]))])
           /\ IF ListAt(d, k) = <<>> THEN RPop(d, k, t) = d
              ELSE Holds(RPop(d, k, t), d.string_store,
                         [d.list_store EXCEPT ![k] = Rest(Front(d.list_store[k]))])
<1>1. d \in Database /\ d.expiry = EmptyMap
  BY DEF Timeless, Steady, LruSound
<1>2. ASSUME NEW e \in Database, e.expiry = EmptyMap, NEW x
      PROVE  Holds(WithList(e, k, x), e.string_store, [e.list_store EXCEPT ![k] = x])
  BY <1>2 DEF WithList, Holds, Database
<1>3. Erase(d.expiry, {k}) = EmptyMap
  BY <1>1 DEF Erase, EmptyMap
<1>4. ASSUME NEW x
      PROVE  Holds(PopTo(d, k, x), d.string_store, [d.list_store EXCEPT ![k] = Rest(x)])
  <2>1. CASE x = <<>>
    <3>1. Erase(d.list_store, {k}) = [d.list_store EXCEPT ![k] = Absent]
      BY <1>1 DEF Erase, Database
    <3> QED BY <1>1, <1>3, <2>1, <3>1 DEF PopTo, Rest, Holds, Database
  <2>2. CASE x # <<>>
    BY <1>1, <1>2, <2>2 DEF PopTo, Rest
  <2> QED BY <2>1, <2>2
<1>5. /\ Holds(Del(d, k), Erase(d.string_store, {k}), Erase(d.list_store, {k}))
      /\ Del(d, k) \in Database
  BY <1>1, <1>3 DEF Del, Holds, Database, Erase
<1>6. /\ Holds(LPush(d, k, v), d.string_store, [d.list_store EXCEPT ![k] = Cons(v, ListAt(d, k))])
      /\ Holds(RPush(d, k, v), d.string_store, [d.list_store EXCEPT ![k] = Append(ListAt(d, k), v)])
  BY <1>1, <1>2 DEF LPush, RPush
<1>7. ASSUME s # <<>>
      PROVE  Holds(RPushAll(Del(d, k), k, s), Erase(d.string_store, {k}), [d.list_store EXCEPT ![k] = s])
  <2>1. PICK e : e = Del(d, k)
    OBVIOUS
  <2>2. e \in Database /\ e.expiry = EmptyMap
    BY <1>5, <2>1 DEF Holds
  <2>3. ListAt(e, k) = <<>>
    BY <1>1, <1>5, <2>1 DEF Holds, ListAt, Has, Erase
  <2>4. RPushAll(e, k, s) = WithList(e, k, s)
    <3>1. <<>> \o s = s
      BY ConcatEmptySeq
    <3> QED BY <1>7, <2>3, <3>1 DEF RPushAll
  <2>5. Holds(WithList(e, k, s), e.string_store, [e.list_store EXCEPT ![k] = s])
    BY <1>2, <2>2
  <2>6. [Erase(d.list_store, {k}) EXCEPT ![k] = s] = [d.list_store EXCEPT ![k] = s]
    BY <1>1 DEF Erase, Database
  <2> QED BY <1>5, <2>1, <2>4, <2>5, <2>6 DEF Holds
<1>8. LazyEvict(d, k, t) = d
  BY TimelessKeeps
<1> QED BY <1>4, <1>5, <1>6, <1>7, <1>8 DEF LPop, RPop


-----------------------------------------------------------------------------
(* What a client sees under a key, and how a line moves it. *)

\* The list under a key, unless a string hides it.
SeenList(d, k) == IF Has(d.string_store, k) THEN Absent ELSE d.list_store[k]

Elements(g) == IF g = Absent THEN <<>> ELSE g

Markers == {"FULLSYNC", "FULLSYNCDONE"}

Keyed(l, k) == l.type \notin Markers /\ l.tokens[1] = k

\* A line as long as its handler wants it, and without a deadline.
PlainLine(l) ==
    LET n == Len(l.tokens)
    IN  /\ l.type # "EXPIRE"
        /\ l.type \in {"SET", "LPUSH", "RPUSH"} => n = 2
        /\ l.type \in {"DEL", "LPOP", "RPOP"} => n = 1
        /\ l.type = "REPLSET" => n = 3 /\ l.tokens[3] = Absent
        /\ l.type = "REPLLIST" => n >= 3 /\ l.tokens[2] = Absent

\* From the string s and the list g that are seen under k.
StringAfter(l, k, s) ==
    IF ~Keyed(l, k) THEN s
    ELSE IF l.type \in {"SET", "REPLSET"} THEN l.tokens[2]
    ELSE IF l.type \in {"DEL", "REPLLIST"} THEN Absent
    ELSE s

ListAfter(l, k, s, g) ==
    IF ~Keyed(l, k) THEN g
    ELSE IF l.type \in {"SET", "REPLSET", "DEL"} THEN Absent
    ELSE IF l.type = "REPLLIST" THEN SubSeq(l.tokens, 3, Len(l.tokens))
    ELSE IF s # Absent THEN g
    ELSE IF l.type = "LPUSH" THEN Cons(l.tokens[2], Elements(g))
    ELSE IF l.type = "RPUSH" THEN Append(Elements(g), l.tokens[2])
    ELSE IF Elements(g) = <<>> THEN g
    ELSE IF l.type = "LPOP" THEN Rest(Tail(g)) ELSE Rest(Front(g))

\* The key of a well formed line.
LEMMA LineKeyed ==
    ASSUME NEW l \in Sent, PlainLine(l)
    PROVE  /\ l.type \in LineTypes /\ l.tokens \in Seq(Word) /\ Len(l.tokens) \in Nat
           /\ l.type \notin Markers => l.tokens[1] \in Key
           /\ l.type \in {"SET", "REPLSET", "LPUSH", "RPUSH"} => l.tokens[2] \in Value
           /\ l.type = "REPLLIST" => SubSeq(l.tokens, 3, Len(l.tokens)) \in Seq(Value)
           /\ l.type = "REPLLIST" => SubSeq(l.tokens, 3, Len(l.tokens)) # <<>>
<1> DEFINE n == Len(l.tokens)
<1>1. l.type \in LineTypes /\ l.tokens \in Seq(Word) /\ n \in Nat /\ WellFormed(l)
  BY LenProperties DEF Sent
<1>2. l.type \in LineTypes \ (Markers \cup {"EXPIRE"}) => n >= 1
  <2>1. /\ l.type \in {"SET", "LPUSH", "RPUSH"} => n = 2
        /\ l.type \in {"DEL", "LPOP", "RPOP"} => n = 1
        /\ l.type = "REPLSET" => n = 3
        /\ l.type = "REPLLIST" => n >= 3
    BY DEF PlainLine
  <2>2. LineTypes \ (Markers \cup {"EXPIRE"})
           \subseteq {"SET", "LPUSH", "RPUSH", "DEL", "LPOP", "RPOP", "REPLSET", "REPLLIST"}
    BY DEF LineTypes, WriteCommands, Markers
  <2> HIDE DEF n
  <2>3. \A m \in Nat : m \in {1, 2, 3} \/ m >= 3 => m >= 1
    OBVIOUS
  <2>4. l.type \in LineTypes \ (Markers \cup {"EXPIRE"}) => n \in {1, 2, 3} \/ n >= 3
    BY <2>1, <2>2
  <2> QED BY <1>1, <2>3, <2>4
<1>3. l.type \notin Markers => l.tokens[1] \in Key
  BY <1>1, <1>2 DEF WellFormed, Markers, PlainLine
<1>4. l.type \in {"SET", "REPLSET", "LPUSH", "RPUSH"} => l.tokens[2] \in Value
  <2>1. l.type \in {"SET", "LPUSH", "RPUSH"} => 2 \in 2..n
    <3>1. l.type \in {"SET", "LPUSH", "RPUSH"} => n = 2
      BY DEF PlainLine
    <3> HIDE DEF n
    <3>2. n = 2 => 2 \in 2..n
      OBVIOUS
    <3> QED BY <3>1, <3>2
  <2> QED BY <1>1, <2>1 DEF WellFormed, PlainLine
<1>5. ASSUME l.type = "REPLLIST"
      PROVE  SubSeq(l.tokens, 3, n) \in Seq(Value) /\ SubSeq(l.tokens, 3, n) # <<>>
  <2>1. n >= 3 /\ \A p \in 3..n : l.tokens[p] \in Value
    BY <1>1, <1>5 DEF WellFormed, PlainLine
  <2> HIDE DEF n
  <2>2. /\ SubSeq(l.tokens, 3, n) \in Seq(Value)
        /\ Len(SubSeq(l.tokens, 3, n)) = IF 3 <= n THEN n - 3 + 1 ELSE 0
    BY <1>1, <2>1, SubSeqProperties
  <2>3. Len(SubSeq(l.tokens, 3, n)) # 0
    BY <1>1, <2>1, <2>2
  <2> QED BY <2>2, <2>3, EmptySeq
<1> QED BY <1>1, <1>3, <1>4, <1>5

\* The line moves what is seen.
LEMMA LineMoves ==
    ASSUME Ample, NEW d, Timeless(d), NEW l \in Sent, PlainLine(l), NEW t, NEW k \in Key
    PROVE  LET e == ApplyLine(d, l, t)
           IN  /\ e.expiry = EmptyMap
               /\ e.string_store[k] = StringAfter(l, k, d.string_store[k])
               /\ SeenList(e, k) = ListAfter(l, k, d.string_store[k], SeenList(d, k))
<1> DEFINE e == ApplyLine(d, l, t)
           tok == l.tokens
           q == tok[1]
           Moved(strings, lists) ==
              /\ strings[k] = StringAfter(l, k, d.string_store[k])
              /\ (IF strings[k] # Absent THEN Absent ELSE lists[k])
                    = ListAfter(l, k, d.string_store[k], SeenList(d, k))
<1>1. ASSUME NEW strings, NEW lists, Holds(e, strings, lists), Moved(strings, lists)
      PROVE  /\ e.expiry = EmptyMap
             /\ e.string_store[k] = StringAfter(l, k, d.string_store[k])
             /\ SeenList(e, k) = ListAfter(l, k, d.string_store[k], SeenList(d, k))
  BY <1>1 DEF Holds, SeenList, Has
<1> SUFFICES \E strings, lists : Holds(e, strings, lists) /\ Moved(strings, lists)
  <2> HIDE DEF e, Moved
  <2> QED BY <1>1 DEF e
<1>2. d \in Database /\ d.expiry = EmptyMap /\ Holds(d, d.string_store, d.list_store)
  BY DEF Timeless, Steady, LruSound, Holds
<1>3. /\ l.type \in LineTypes
      /\ l.type \notin Markers => q \in Key
      /\ l.type \in {"SET", "REPLSET", "LPUSH", "RPUSH"} => tok[2] \in Value
      /\ l.type = "REPLLIST" => SubSeq(tok, 3, Len(tok)) \in Seq(Value)
      /\ l.type = "REPLLIST" => SubSeq(tok, 3, Len(tok)) # <<>>
      /\ Len(tok) \in Nat
  BY LineKeyed
<1>4. CASE l.type \in Markers
  <2>1. e = d
    BY <1>4 DEF ApplyLine, Markers
  <2>2. Moved(d.string_store, d.list_store)
    BY <1>4 DEF StringAfter, ListAfter, Keyed, SeenList, Has
  <2> QED BY <1>2, <2>1, <2>2
<1>5. CASE l.type \in {"SET", "REPLSET"}
  <2> DEFINE strings == [d.string_store EXCEPT ![q] = tok[2]]
             lists == Erase(d.list_store, {q})
  <2>1. q \in Key /\ tok[2] \in Value
    BY <1>3, <1>5 DEF Markers
  <2>2. SetHasRoom(d, q) /\ Holds(Set(d, q, tok[2]), strings, lists)
    BY <2>1, AmpleSet
  <2>3. e = Set(d, q, tok[2])
    <3>1. CASE l.type = "SET"
      BY <1>3, <2>2, <3>1 DEF ApplyLine, PlainLine
    <3>2. CASE l.type = "REPLSET"
      BY <1>3, <2>2, <3>2 DEF ApplyLine, ApplyReplSet, PlainLine, WithDeadline
    <3> QED BY <1>5, <3>1, <3>2
  <2>4. Moved(strings, lists)
    <3>1. CASE q = k
      BY <1>2, <1>5, <2>1, <3>1, AbsentAssumption
         DEF StringAfter, ListAfter, Keyed, Markers, Database
    <3>2. CASE q # k
      BY <1>2, <1>5, <2>1, <3>2
         DEF StringAfter, ListAfter, Keyed, Markers, Database, Erase, SeenList, Has
    <3> QED BY <3>1, <3>2
  <2> QED BY <2>2, <2>3, <2>4
<1>6. CASE l.type = "DEL"
  <2> DEFINE strings == Erase(d.string_store, {q})
             lists == Erase(d.list_store, {q})
  <2>1. q \in Key
    BY <1>3, <1>6 DEF Markers
  <2>2. e = Del(d, q)
    BY <1>3, <1>6 DEF ApplyLine, PlainLine
  <2>3. Holds(e, strings, lists)
    <3>1. <<>> \in Seq(Value)
      BY EmptySeq
    <3> QED BY <2>1, <2>2, <3>1, AmpleLists
  <2>4. Moved(strings, lists)
    BY <1>6 DEF StringAfter, ListAfter, Keyed, Markers, Erase, SeenList, Has
  <2> QED BY <2>3, <2>4
<1>7. CASE l.type = "REPLLIST"
  <2> DEFINE s == SubSeq(tok, 3, Len(tok))
             strings == Erase(d.string_store, {q})
             lists == [d.list_store EXCEPT ![q] = s]
  <2>1. q \in Key /\ s \in Seq(Value) /\ s # <<>>
    BY <1>3, <1>7 DEF Markers
  <2>2. e = RPushAll(Del(d, q), q, s)
    BY <1>7 DEF ApplyLine, ApplyReplList, PlainLine, WithDeadline
  <2>3. Holds(e, strings, lists)
    <3> HIDE DEF s
    <3> QED BY <2>1, <2>2, AmpleLists
  <2>4. Moved(strings, lists)
    BY <1>2, <1>7, <2>1 DEF StringAfter, ListAfter, Keyed, Markers, Erase, SeenList, Has, Database
  <2> QED BY <2>3, <2>4
<1>8. CASE l.type \in {"LPUSH", "RPUSH"}
  <2> DEFINE at == ListAt(d, q)
             s == IF l.type = "LPUSH" THEN Cons(tok[2], at) ELSE Append(at, tok[2])
             lists == [d.list_store EXCEPT ![q] = s]
  <2>1. q \in Key
    BY <1>3, <1>8 DEF Markers
  <2>2. e = IF l.type = "LPUSH" THEN LPush(d, q, tok[2]) ELSE RPush(d, q, tok[2])
    BY <1>3, <1>8 DEF ApplyLine, PlainLine
  <2>3. Holds(e, d.string_store, lists)
    <3>1. <<>> \in Seq(Value)
      BY EmptySeq
    <3>2. /\ Holds(LPush(d, q, tok[2]), d.string_store, [d.list_store EXCEPT ![q] = Cons(tok[2], at)])
          /\ Holds(RPush(d, q, tok[2]), d.string_store, [d.list_store EXCEPT ![q] = Append(at, tok[2])])
      BY <2>1, <3>1, AmpleLists
    <3> QED BY <2>2, <3>2
  <2>4. ~Has(d.string_store, q) => Elements(SeenList(d, q)) = at
    BY DEF Elements, SeenList, ListAt, Has
  <2>5. Moved(d.string_store, lists)
    <3> HIDE DEF at
    <3>1. CASE q # k
      BY <1>2, <2>1, <3>1 DEF StringAfter, ListAfter, Keyed, SeenList, Has, Database
    <3>2. CASE q = k
      BY <1>2, <1>8, <2>1, <2>4, <3>2
         DEF StringAfter, ListAfter, Keyed, Markers, SeenList, Has, Database
    <3> QED BY <3>1, <3>2
  <2> QED BY <2>3, <2>5
<1>9. CASE l.type \in {"LPOP", "RPOP"}
  <2> DEFINE s == IF l.type = "LPOP" THEN Rest(Tail(d.list_store[q])) ELSE Rest(Front(d.list_store[q]))
             lists == IF ListAt(d, q) = <<>> THEN d.list_store ELSE [d.list_store EXCEPT ![q] = s]
  <2>1. q \in Key
    BY <1>3, <1>9 DEF Markers
  <2>2. e = IF l.type = "LPOP" THEN LPop(d, q, t) ELSE RPop(d, q, t)
    BY <1>3, <1>9 DEF ApplyLine, PlainLine
  <2>3. Holds(e, d.string_store, lists)
    <3>1. <<>> \in Seq(Value)
      BY EmptySeq
    <3>2. /\ IF ListAt(d, q) = <<>> THEN LPop(d, q, t) = d
             ELSE Holds(LPop(d, q, t), d.string_store,
                        [d.list_store EXCEPT ![q] = Rest(Tail(d.list_store[q]))])
          /\ IF ListAt(d, q) = <<>> THEN RPop(d, q, t) = d
             ELSE Holds(RPop(d, q, t), d.string_store,
                        [d.list_store EXCEPT ![q] = Rest(Front(d.list_store[q]))])
      BY <2>1, <3>1, AmpleLists
    <3> QED BY <1>2, <2>2, <3>2
  <2>4. ~Has(d.string_store, q) => /\ SeenList(d, q) = d.list_store[q]
                                   /\ Elements(SeenList(d, q)) = ListAt(d, q)
    BY DEF Elements, SeenList, ListAt, Has
  <2>5. Moved(d.string_store, lists)
    <3>1. CASE q # k
      BY <1>2, <2>1, <3>1 DEF StringAfter, ListAfter, Keyed, SeenList, Has, Database
    <3>2. CASE q = k /\ Has(d.string_store, k)
      BY <1>9, <3>2 DEF StringAfter, ListAfter, Keyed, Markers, SeenList, Has
    <3>3. CASE q = k /\ ~Has(d.string_store, k)
      BY <1>2, <1>9, <2>1, <2>4, <3>3 DEF StringAfter, ListAfter, Keyed, Markers, Has, Database
    <3> QED BY <3>1, <3>2, <3>3
  <2> QED BY <2>3, <2>5
<1> HIDE DEF e, Moved
<1> QED BY <1>3, <1>4, <1>5, <1>6, <1>7, <1>8, <1>9 DEF LineTypes, WriteCommands, Markers, PlainLine


-----------------------------------------------------------------------------
(* A run of lines under one key. *)

\* f and g hold the string and the list that are seen under k after each line of s.
IsRun(f, g, s, k) ==
    \A i \in 1..Len(s) : /\ f[i] = StringAfter(s[i], k, f[i - 1])
                         /\ g[i] = ListAfter(s[i], k, f[i - 1], g[i - 1])

\* The lines lead from a and b to x and y.
Leads(s, k, a, b, x, y) ==
    \E f, g : /\ f[0] = a /\ g[0] = b /\ f[Len(s)] = x /\ g[Len(s)] = y
              /\ IsRun(f, g, s, k)

\* One more line at the end.
LEMMA LeadsAppend ==
    ASSUME NEW s \in Seq(Sent), NEW l \in Sent, NEW k, NEW a, NEW b, NEW x, NEW y,
           Leads(s, k, a, b, x, y)
    PROVE  Leads(Append(s, l), k, a, b, StringAfter(l, k, x), ListAfter(l, k, x, y))
<1> DEFINE n == Len(s)
           z == Append(s, l)
<1>1. /\ n \in Nat /\ Len(z) = n + 1 /\ z[n + 1] = l
      /\ \A i \in 1..n : z[i] = s[i]
  BY AppendProperties, LenProperties
<1>2. PICK f, g : /\ f[0] = a /\ g[0] = b /\ f[n] = x /\ g[n] = y
                  /\ IsRun(f, g, s, k)
  BY DEF Leads
<1> HIDE DEF z
<1> DEFINE F == [i \in 0..(n + 1) |-> IF i = n + 1 THEN StringAfter(l, k, x) ELSE f[i]]
           G == [i \in 0..(n + 1) |-> IF i = n + 1 THEN ListAfter(l, k, x, y) ELSE g[i]]
<1>3. /\ F[0] = a /\ G[0] = b
      /\ F[n + 1] = StringAfter(l, k, x) /\ G[n + 1] = ListAfter(l, k, x, y)
      /\ F[n] = x /\ G[n] = y
      /\ \A i \in 0..n : F[i] = f[i] /\ G[i] = g[i]
  BY <1>1, <1>2
<1> HIDE DEF F, G
<1>4. ASSUME NEW i \in 1..(n + 1)
      PROVE  /\ F[i] = StringAfter(z[i], k, F[i - 1])
             /\ G[i] = ListAfter(z[i], k, F[i - 1], G[i - 1])
  <2>1. CASE i = n + 1
    <3>1. z[i] = l /\ i - 1 = n
      BY <1>1, <2>1
    <3> QED BY <1>3, <2>1, <3>1
  <2>2. CASE i # n + 1
    <3>1. i \in 1..n /\ i \in 0..n /\ i - 1 \in 0..n
      BY <1>1, <2>2
    <3>2. f[i] = StringAfter(s[i], k, f[i - 1]) /\ g[i] = ListAfter(s[i], k, f[i - 1], g[i - 1])
      BY <1>2, <3>1 DEF IsRun
    <3> QED BY <1>1, <1>3, <3>1, <3>2
  <2> QED BY <2>1, <2>2
<1>5. IsRun(F, G, z, k)
  BY <1>1, <1>4 DEF IsRun
<1> QED BY <1>1, <1>3, <1>5 DEF Leads, z

\* The first line is applied.
LEMMA LeadsTail ==
    ASSUME NEW s \in Seq(Sent), s # <<>>, NEW k, NEW a, NEW b, NEW x, NEW y,
           Leads(s, k, a, b, x, y)
    PROVE  Leads(Tail(s), k, StringAfter(Head(s), k, a), ListAfter(Head(s), k, a, b), x, y)
<1> DEFINE n == Len(s)
           z == Tail(s)
<1>1. /\ n \in Nat /\ n >= 1 /\ Len(z) = n - 1 /\ Head(s) = s[1]
      /\ \A i \in 1..(n - 1) : z[i] = s[i + 1]
  BY HeadTailProperties, LenProperties, EmptySeq
<1>2. PICK f, g : /\ f[0] = a /\ g[0] = b /\ f[n] = x /\ g[n] = y
                  /\ IsRun(f, g, s, k)
  BY DEF Leads
<1> HIDE DEF z
<1> DEFINE F == [i \in 0..(n - 1) |-> f[i + 1]]
           G == [i \in 0..(n - 1) |-> g[i + 1]]
<1>3. \A i \in 0..(n - 1) : F[i] = f[i + 1] /\ G[i] = g[i + 1]
  OBVIOUS
<1> HIDE DEF F, G
<1>4. F[n - 1] = x /\ G[n - 1] = y
  <2>1. n - 1 \in 0..(n - 1) /\ (n - 1) + 1 = n
    BY <1>1
  <2> QED BY <1>2, <1>3, <2>1
<1>5. F[0] = StringAfter(Head(s), k, a) /\ G[0] = ListAfter(Head(s), k, a, b)
  <2>1. 0 \in 0..(n - 1) /\ 0 + 1 = 1 /\ 1 \in 1..n /\ 1 - 1 = 0
    BY <1>1
  <2>2. f[1] = StringAfter(s[1], k, f[0]) /\ g[1] = ListAfter(s[1], k, f[0], g[0])
    BY <1>2, <2>1 DEF IsRun
  <2> QED BY <1>1, <1>2, <1>3, <2>1, <2>2
<1>6. ASSUME NEW i \in 1..(n - 1)
      PROVE  /\ F[i] = StringAfter(z[i], k, F[i - 1])
             /\ G[i] = ListAfter(z[i], k, F[i - 1], G[i - 1])
  <2>1. /\ i \in 0..(n - 1) /\ i - 1 \in 0..(n - 1) /\ i + 1 \in 1..n
        /\ (i - 1) + 1 = i /\ (i + 1) - 1 = i
    BY <1>1
  <2>2. /\ f[i + 1] = StringAfter(s[i + 1], k, f[i])
        /\ g[i + 1] = ListAfter(s[i + 1], k, f[i], g[i])
    BY <1>2, <2>1 DEF IsRun
  <2>3. F[i] = f[i + 1] /\ G[i] = g[i + 1] /\ F[i - 1] = f[i] /\ G[i - 1] = g[i] /\ z[i] = s[i + 1]
    BY <1>1, <1>3, <2>1
  <2> QED BY <2>2, <2>3
<1>7. IsRun(F, G, z, k)
  BY <1>1, <1>6 DEF IsRun
<1> QED BY <1>1, <1>4, <1>5, <1>7 DEF Leads, z

\* A replica ends where its lines lead.
LEMMA LeadsReplay ==
    ASSUME Ample, NEW r \in Replica, Timeless(rdb[r]), stream[r] \in Seq(Sent), now \in Int,
           \A i \in 1..Len(stream[r]) : PlainLine(stream[r][i]),
           NEW k \in Key, NEW x, NEW y,
           Leads(stream[r], k, rdb[r].string_store[k], SeenList(rdb[r], k), x, y)
    PROVE  /\ Replayed(r).expiry = EmptyMap
           /\ Replayed(r).string_store[k] = x /\ SeenList(Replayed(r), k) = y
<1> DEFINE s == stream[r]
           n == Len(s)
           applied[i \in 0..n] == IF i = 0 THEN rdb[r] ELSE ApplyLine(applied[i - 1], s[i], now)
<1>0. n \in Nat /\ \A i \in 1..n : s[i] \in Sent /\ PlainLine(s[i])
  BY LenProperties, ElementOfSeq
<1>1. Replayed(r) = applied[n]
  BY DEF Replayed
<1>2. applied = [i \in 0..n |-> IF i = 0 THEN rdb[r] ELSE ApplyLine(applied[i - 1], s[i], now)]
  <2>1. \E h : IsReplay(h, rdb[r], s, now, n)
    BY <1>0, ReplayRecursion
  <2> HIDE DEF s, n
  <2> QED BY <2>1 DEF IsReplay
<1> HIDE DEF applied
<1>3. ASSUME NEW i \in 0..n
      PROVE  applied[i] = IF i = 0 THEN rdb[r] ELSE ApplyLine(applied[i - 1], s[i], now)
  BY <1>2
<1>4. PICK f, g : /\ f[0] = rdb[r].string_store[k] /\ g[0] = SeenList(rdb[r], k)
                  /\ f[n] = x /\ g[n] = y /\ IsRun(f, g, s, k)
  BY DEF Leads
<1> DEFINE Good(i) == /\ Timeless(applied[i])
                      /\ applied[i].string_store[k] = f[i] /\ SeenList(applied[i], k) = g[i]
           P == {i \in 0..n : Good(i)}
<1>5. 0 \in P
  <2>1. applied[0] = rdb[r] /\ 0 \in 0..n
    BY <1>0, <1>3
  <2> QED BY <1>4, <2>1
<1>6. ASSUME NEW i \in 0..(n - 1), i \in P
      PROVE  i + 1 \in P
  <2>1. i + 1 \in 0..n /\ i + 1 \in 1..n /\ i + 1 # 0 /\ (i + 1) - 1 = i
    BY <1>0
  <2>2. PICK d, l : d = applied[i] /\ l = s[i + 1]
    OBVIOUS
  <2>3. applied[i + 1] = ApplyLine(d, l, now)
    BY <1>3, <2>1, <2>2
  <2>4. Timeless(d) /\ d.string_store[k] = f[i] /\ SeenList(d, k) = g[i]
    BY <1>6, <2>2
  <2>5. l \in Sent /\ PlainLine(l)
    BY <1>0, <2>1, <2>2
  <2>6. f[i + 1] = StringAfter(l, k, f[i]) /\ g[i + 1] = ListAfter(l, k, f[i], g[i])
    BY <1>4, <2>1, <2>2 DEF IsRun
  <2>7. /\ ApplyLine(d, l, now).expiry = EmptyMap
        /\ ApplyLine(d, l, now).string_store[k] = StringAfter(l, k, d.string_store[k])
        /\ SeenList(ApplyLine(d, l, now), k) = ListAfter(l, k, d.string_store[k], SeenList(d, k))
    BY <2>4, <2>5, LineMoves
  <2>8. Steady(ApplyLine(d, l, now))
    <3>1. Steady(d) /\ \E c \in Cell : FreeCell(d, c)
      BY <2>4 DEF Timeless, Ample, HeapHasCell, Steady, LruSound
    <3> QED BY <2>5, <3>1, LineSteady
  <2>9. Timeless(applied[i + 1])
    BY <2>3, <2>7, <2>8 DEF Timeless
  <2>10. applied[i + 1].string_store[k] = f[i + 1] /\ SeenList(applied[i + 1], k) = g[i + 1]
    BY <2>3, <2>4, <2>6, <2>7
  <2> QED BY <2>1, <2>9, <2>10
<1>7. n \in P
  <2> HIDE DEF P
  <2>1. 0..n \subseteq P
    BY <1>0, <1>5, <1>6, UpTo
  <2> QED BY <1>0, <2>1
<1> QED BY <1>1, <1>4, <1>7 DEF Timeless


-----------------------------------------------------------------------------
(* The words of plain commands and of a full sync. *)

\* What is checked of ReplicaConverges, as a condition on the requests: no deadlines, no
\* write that its handler refuses for its number of arguments (a replica obeys some of
\* those) and no empty word (it would be lost on the way).  Pushes and pops that the
\* leader refuses for the type of the key are let in.
PlainWrites ==
    \A c \in Requests : c.name \in WriteCommands =>
       /\ c.name # "EXPIRE" /\ Len(c.args) \in Arity[c.name]
       /\ \A i \in 1..Len(c.args) : c.args[i] # Empty

\* Without an empty word, the tokens are the words.
LEMMA TokensPlain ==
    ASSUME NEW words \in Seq(Word), \A i \in 1..Len(words) : words[i] # Empty
    PROVE  Tokens(words) = words
<1> DEFINE tok == Tokens(words)
           n == Len(words)
<1>1. Kept(tok, words, n) /\ n \in Nat
  BY TokensKept, LenProperties
<1> HIDE DEF tok, n
<1>2. tok \in Seq(Word) /\ Len(tok) \in 0..n
  BY <1>1 DEF Kept
<1>3. n <= Len(tok) /\ \A q \in 1..n : tok[q] = words[q]
  <2>1. n \in 0..n /\ \A q \in 1..n : words[q] # Empty
    BY <1>1 DEF n
  <2> QED BY <1>1, <2>1 DEF Kept
<1>4. Len(tok) = n
  BY <1>1, <1>2, <1>3
<1>5. Len(tok) = Len(words)
  BY <1>4 DEF n
<1>6. tok = words
  BY <1>2, <1>3, <1>5, SeqEqual DEF n
<1> QED BY <1>6 DEF tok

\* A propagated command is a plain line with its words.
LEMMA PlainCommand ==
    ASSUME PlainWrites, NEW c \in Requests, c.name \in WriteCommands
    PROVE  /\ Line(c.name, c.args) \in Sent /\ PlainLine(Line(c.name, c.args))
           /\ Line(c.name, c.args) = [type |-> c.name, tokens |-> c.args]
           /\ c.args[1] \in Key /\ Len(c.args) \in Arity[c.name]
           /\ c.name \in {"SET", "LPUSH", "RPUSH"} => c.args[2] \in Value
<1> DEFINE a == c.args
<1>1. a \in Seq(Word)
  <2>1. a \in Seq(Key \cup Value \cup Int)
    BY RequestsAssumption
  <2>2. \A i \in 1..Len(a) : a[i] \in Word
    BY <2>1 DEF Word
  <2> QED BY <2>1, <2>2 DEF Word
<1>2. Tokens(a) = a
  BY <1>1, TokensPlain DEF PlainWrites
<1>3. Line(c.name, a) = [type |-> c.name, tokens |-> a]
  BY <1>2 DEF Line
<1>4. Len(a) \in Arity[c.name] /\ c.name # "EXPIRE" /\ WellTyped(c)
  BY RequestsAssumption DEF PlainWrites
<1>5. /\ c.name \in {"SET", "LPUSH", "RPUSH"} => Len(a) = 2
      /\ c.name \in {"DEL", "LPOP", "RPOP"} => Len(a) = 1
  <2>1. /\ Arity["SET"] = {2} /\ Arity["LPUSH"] = {2} /\ Arity["RPUSH"] = {2}
        /\ Arity["DEL"] = {1} /\ Arity["LPOP"] = {1} /\ Arity["RPOP"] = {1}
    BY DEF Arity
  <2> HIDE DEF a
  <2>2. Len(a) \in Arity[c.name]
    BY <1>4 DEF a
  <2> QED BY <2>1, <2>2
<1>6. c.name \in DOMAIN Arity /\ c.name # "PING"
  BY DEF Arity, WriteCommands
<1>7. PlainLine(Line(c.name, a))
  BY <1>3, <1>4, <1>5 DEF PlainLine, WriteCommands
<1>8. a[1] \in Key /\ (c.name \in {"SET", "LPUSH", "RPUSH"} => a[2] \in Value)
  BY <1>4, <1>6 DEF WellTyped
<1> QED BY <1>3, <1>4, <1>7, <1>8, CommandSent

\* Words after words.
LEMMA WordsConcat ==
    ASSUME NEW g \in Seq(Word), NEW h \in Seq(Word)
    PROVE  /\ g \o h \in Seq(Word) /\ Len(g \o h) = Len(g) + Len(h)
           /\ \A i \in 1..(Len(g) + Len(h)) :
                 (g \o h)[i] = IF i <= Len(g) THEN g[i] ELSE h[i - Len(g)]
BY ConcatProperties

\* A list without empty elements is carried whole.
LEMMA ListCarried ==
    ASSUME NEW e \in [type : {"list"}, key : Key, expiry : {Absent}, data : Seq(Value \ {Empty})],
           e.data # <<>>
    PROVE  /\ EntryLine(e).type = "REPLLIST" /\ EntryLine(e).tokens[1] = e.key
           /\ PlainLine(EntryLine(e))
           /\ SubSeq(EntryLine(e).tokens, 3, Len(EntryLine(e).tokens)) = e.data
<1> DEFINE h == <<e.key, e.expiry>>
           a == h \o e.data
           n == Len(e.data)
<1>1. /\ e.type = "list" /\ e.key \in Key /\ e.expiry = Absent
      /\ e.data \in Seq(Value \ {Empty}) /\ n \in Nat /\ \A i \in 1..n : e.data[i] \in Value \ {Empty}
  BY LenProperties, ElementOfSeq
<1>2. h \in Seq(Word) /\ Len(h) = 2 /\ h[1] = e.key /\ h[2] = Absent
  BY <1>1 DEF Word
<1>3. e.data \in Seq(Word) /\ n >= 1
  <2>1. \A i \in 1..n : e.data[i] \in Word
    BY <1>1 DEF Word
  <2> QED BY <1>1, <2>1, EmptySeq DEF Word
<1> HIDE DEF h, n
<1>4. /\ h \o e.data \in Seq(Word) /\ Len(h \o e.data) = Len(h) + Len(e.data)
      /\ \A i \in 1..(Len(h) + Len(e.data)) :
            (h \o e.data)[i] = IF i <= Len(h) THEN h[i] ELSE e.data[i - Len(h)]
  BY <1>2, <1>3, WordsConcat
<1>5. Len(a) = n + 2 /\ a \in Seq(Word)
  BY <1>1, <1>2, <1>3, <1>4 DEF n
<1>6. a[1] = e.key /\ a[2] = Absent
  BY <1>1, <1>2, <1>3, <1>4 DEF n
<1>7. ASSUME NEW i \in 1..n
      PROVE  a[i + 2] = e.data[i]
  <2>1. i + 2 \in 1..(n + 2) /\ ~(i + 2 <= 2) /\ (i + 2) - 2 = i
    BY <1>1
  <2> QED BY <1>2, <1>4, <2>1 DEF n
<1> HIDE DEF a
<1>8. ASSUME NEW i \in 1..Len(a)
      PROVE  a[i] # Empty
  <2>1. CASE i = 1 \/ i = 2
    BY <1>1, <1>6, <2>1, EmptyAssumption
  <2>2. CASE ~(i = 1 \/ i = 2)
    <3>1. i - 2 \in 1..n /\ (i - 2) + 2 = i
      BY <1>1, <1>5, <2>2
    <3>2. a[i] = e.data[i - 2]
      BY <1>7, <3>1
    <3> QED BY <1>1, <3>1, <3>2
  <2> QED BY <2>1, <2>2
<1>9. Tokens(a) = a
  BY <1>5, <1>8, TokensPlain
<1>10. EntryLine(e) = [type |-> "REPLLIST", tokens |-> a]
  BY <1>1, <1>9 DEF EntryLine, Line, a, h
<1>11. SubSeq(a, 3, n + 2) = e.data
  <2>1. \A i \in 3..(n + 2) : a[i] \in Word
    BY <1>1, <1>5, ElementOfSeq
  <2>2. /\ SubSeq(a, 3, n + 2) \in Seq(Word)
        /\ Len(SubSeq(a, 3, n + 2)) = IF 3 <= n + 2 THEN (n + 2) - 3 + 1 ELSE 0
        /\ \A i \in 1..((n + 2) - 3 + 1) : SubSeq(a, 3, n + 2)[i] = a[3 + i - 1]
    BY <1>1, <2>1, SubSeqProperties
  <2>3. Len(SubSeq(a, 3, n + 2)) = n
    BY <1>1, <1>3, <2>2
  <2>4. ASSUME NEW i \in 1..n
        PROVE  SubSeq(a, 3, n + 2)[i] = e.data[i]
    <3>1. i \in 1..((n + 2) - 3 + 1) /\ 3 + i - 1 = i + 2
      BY <1>1
    <3> QED BY <1>7, <2>2, <3>1
  <2>5. Len(SubSeq(a, 3, n + 2)) = Len(e.data)
    BY <2>3 DEF n
  <2>6. \A i \in 1..Len(SubSeq(a, 3, n + 2)) : SubSeq(a, 3, n + 2)[i] = e.data[i]
    BY <2>3, <2>4
  <2> QED BY <1>3, <2>2, <2>5, <2>6, SeqEqual
<1>12. n + 2 >= 3
  BY <1>1, <1>3
<1> QED BY <1>5, <1>6, <1>10, <1>11, <1>12 DEF PlainLine


-----------------------------------------------------------------------------
(* What a command moves on the leader, and a read on either side.             *)

\* A read moves nothing.
LEMMA ReadsAside ==
    ASSUME NEW d, Timeless(d), NEW c, WellTyped(c), c.name \notin WriteCommands, NEW t
    PROVE  Holds(Execute(d, c, t).db, d.string_store, d.list_store)
<1> DEFINE a == c.args
           r == Execute(d, c, t)
<1>1. d \in Database /\ d.expiry = EmptyMap /\ Holds(d, d.string_store, d.list_store)
  BY DEF Timeless, Steady, LruSound, Holds
<1>2. CASE c.name \notin DOMAIN Arity \/ Len(a) \notin Arity[c.name]
  <2>1. r.db = d
    BY <1>2 DEF Execute, Result
  <2> QED BY <1>1, <2>1
<1>3. CASE c.name \in DOMAIN Arity /\ Len(a) \in Arity[c.name]
  <2>1. c.name # "PING" => a[1] \in Key
    BY <1>3 DEF WellTyped
  <2> HIDE DEF a, r
  <2>2. CASE c.name = "PING"
    <3>1. r.db = d
      BY <1>3, <2>2 DEF Execute, Result, r, a
    <3> QED BY <1>1, <3>1 DEF r
  <2>3. CASE c.name \in {"GET", "EXISTS", "TTL", "LLEN"}
    <3>1. LazyEvict(d, a[1], t) = d
      BY <2>1, <2>3, TimelessKeeps
    <3>2. Holds(Touch(d, a[1]), d.string_store, d.list_store)
      BY <1>1, TouchAside
    <3>3. r.db \in {d, Touch(d, a[1])}
      BY <1>3, <2>3, <3>1 DEF Execute, DoGet, DoExists, DoTtl, DoLLen, Result, IsList, IsString, r, a
    <3> QED BY <1>1, <3>2, <3>3 DEF r
  <2> QED BY <1>3, <2>2, <2>3 DEF Arity, WriteCommands
<1> QED BY <1>2, <1>3

\* A write moves on the leader what its line moves on a replica.
LEMMA LeaderMoves ==
    ASSUME PlainWrites, Ample, NEW d, Timeless(d), NEW c \in Requests, c.name \in WriteCommands,
           NEW t, NEW k \in Key
    PROVE  LET e == Execute(d, c, t).db
               l == Line(c.name, c.args)
           IN  /\ e.expiry = EmptyMap
               /\ e.string_store[k] = StringAfter(l, k, d.string_store[k])
               /\ SeenList(e, k) = ListAfter(l, k, d.string_store[k], SeenList(d, k))
<1> DEFINE a == c.args
           q == a[1]
           e == Execute(d, c, t).db
           l == Line(c.name, a)
<1>1. /\ l \in Sent /\ PlainLine(l) /\ l.type = c.name /\ l.tokens = a
      /\ q \in Key /\ Len(a) \in Arity[c.name]
      /\ c.name \in {"SET", "LPUSH", "RPUSH"} => a[2] \in Value
  <2>1. /\ l \in Sent /\ PlainLine(l)
        /\ l = [type |-> c.name, tokens |-> a]
        /\ q \in Key /\ Len(a) \in Arity[c.name]
        /\ c.name \in {"SET", "LPUSH", "RPUSH"} => a[2] \in Value
    BY PlainCommand
  <2> HIDE DEF l, a
  <2>2. l.type = c.name /\ l.tokens = a
    BY <2>1
  <2> QED BY <2>1, <2>2
<1>2. /\ c.name \in {"SET", "DEL", "LPUSH", "RPUSH", "LPOP", "RPOP"}
      /\ c.name \in DOMAIN Arity
  BY DEF PlainWrites, WriteCommands, Arity
<1>3. LazyEvict(d, q, t) = d
  BY <1>1, TimelessKeeps
<1> HIDE DEF l
<1>4. CASE c.name \notin {"SET", "DEL"} /\ Has(d.string_store, q)
  <2>1. e = d
    BY <1>1, <1>2, <1>3, <1>4
       DEF Execute, DoLPush, DoRPush, DoLPop, DoRPop, Result, IsString, WriteCommands
  <2>2. d.expiry = EmptyMap
    BY DEF Timeless
  <2>3. /\ StringAfter(l, k, d.string_store[k]) = d.string_store[k]
        /\ ListAfter(l, k, d.string_store[k], SeenList(d, k)) = SeenList(d, k)
    BY <1>1, <1>2, <1>4 DEF StringAfter, ListAfter, Keyed, Has
  <2> QED BY <2>1, <2>2, <2>3 DEF l
<1>5. CASE ~(c.name \notin {"SET", "DEL"} /\ Has(d.string_store, q))
  <2>1. e = ApplyLine(d, l, t)
    <3>1. CASE c.name = "SET"
      <4>1. SetHasRoom(d, q) /\ Len(a) = 2
        <5>1. Len(a) = 2
          BY <1>1, <3>1 DEF PlainLine
        <5> QED BY <1>1, <3>1, <5>1, AmpleSet
      <4>2. e = Set(d, q, a[2])
        BY <1>1, <1>2, <3>1, <4>1 DEF Execute, DoSet, Result
      <4>3. ApplyLine(d, l, t) = Set(d, q, a[2])
        BY <1>1, <3>1, <4>1 DEF ApplyLine
      <4> QED BY <4>2, <4>3
    <3>2. CASE c.name = "DEL"
      <4>1. e = Del(d, q)
        BY <1>1, <1>2, <3>2 DEF Execute, DoDel, Result
      <4>2. ApplyLine(d, l, t) = Del(d, q)
        BY <1>1, <3>2 DEF ApplyLine, PlainLine
      <4> QED BY <4>1, <4>2
    <3>3. CASE c.name \in {"LPUSH", "RPUSH"}
      <4>1. e = IF c.name = "LPUSH" THEN LPush(d, q, a[2]) ELSE RPush(d, q, a[2])
        BY <1>1, <1>2, <1>3, <1>5, <3>3 DEF Execute, DoLPush, DoRPush, Result, IsString
      <4>2. ApplyLine(d, l, t) = IF c.name = "LPUSH" THEN LPush(d, q, a[2]) ELSE RPush(d, q, a[2])
        BY <1>1, <3>3 DEF ApplyLine, PlainLine
      <4> QED BY <4>1, <4>2
    <3>4. CASE c.name \in {"LPOP", "RPOP"}
      <4>1. e = IF c.name = "LPOP" THEN LPop(d, q, t) ELSE RPop(d, q, t)
        BY <1>1, <1>2, <1>3, <1>5, <3>4 DEF Execute, DoLPop, DoRPop, Result, IsString
      <4>2. ApplyLine(d, l, t) = IF c.name = "LPOP" THEN LPop(d, q, t) ELSE RPop(d, q, t)
        BY <1>1, <3>4 DEF ApplyLine, PlainLine
      <4> QED BY <4>1, <4>2
    <3> QED BY <1>2, <3>1, <3>2, <3>3, <3>4
  <2> HIDE DEF e
  <2> QED BY <1>1, <2>1, LineMoves DEF e, l
<1> QED BY <1>4, <1>5


\* No word that a client can see is empty.
Text == Value \ {Empty}

Worded(d) ==
    \A k \in Key : d.string_store[k] # Empty /\ SeenList(d, k) \in Seq(Text) \cup {Absent}

\* A plain line brings none.
LEMMA WordsAfter ==
    ASSUME NEW l \in Sent, PlainLine(l), NEW k, NEW s, s # Empty,
           NEW g \in Seq(Text) \cup {Absent}
    PROVE  /\ StringAfter(l, k, s) # Empty
           /\ ListAfter(l, k, s, g) \in Seq(Text) \cup {Absent}
<1> DEFINE tok == l.tokens
           n == Len(tok)
           h == Elements(g)
<1>1. /\ n \in Nat /\ tok \in Seq(Word)
      /\ l.type \in {"SET", "REPLSET", "LPUSH", "RPUSH"} => tok[2] \in Value
      /\ l.type = "REPLLIST" => n >= 3 /\ \A p \in 3..n : tok[p] \in Value
      /\ \A p \in 1..n : tok[p] # Empty
  BY LineKeyed DEF PlainLine, Sent, WellFormed
<1>2. l.type \in {"SET", "REPLSET", "LPUSH", "RPUSH"} => n >= 2
  BY DEF PlainLine
<1>3. h \in Seq(Text) /\ (h # <<>> => h = g)
  BY EmptySeq DEF Elements
<1> HIDE DEF tok, n, h
<1>4. l.type \in {"SET", "REPLSET", "LPUSH", "RPUSH"} => tok[2] \in Text /\ tok[2] # Empty
  BY <1>1, <1>2 DEF Text
<1>5. l.type = "REPLLIST" => SubSeq(tok, 3, n) \in Seq(Text)
  <2> SUFFICES ASSUME l.type = "REPLLIST"
               PROVE  SubSeq(tok, 3, n) \in Seq(Text)
    OBVIOUS
  <2>1. \A p \in 3..n : tok[p] \in Text
    BY <1>1 DEF Text
  <2> QED BY <1>1, <2>1, SubSeqProperties
<1>6. /\ tok[2] \in Text => Cons(tok[2], h) \in Seq(Text) /\ Append(h, tok[2]) \in Seq(Text)
      /\ h # <<>> => Tail(h) \in Seq(Text) /\ Front(h) \in Seq(Text)
  <2>1. ASSUME tok[2] \in Text
        PROVE  Cons(tok[2], h) \in Seq(Text) /\ Append(h, tok[2]) \in Seq(Text)
    <3>1. Append(h, tok[2]) \in Seq(Text)
      BY <1>3, <2>1, AppendProperties
    <3>2. <<tok[2]>> \in Seq(Text)
      BY <2>1
    <3>3. <<tok[2]>> \o h \in Seq(Text)
      BY <1>3, <3>2, ConcatProperties
    <3> QED BY <3>1, <3>3 DEF Cons
  <2>2. ASSUME h # <<>>
        PROVE  Tail(h) \in Seq(Text) /\ Front(h) \in Seq(Text)
    <3>1. Tail(h) \in Seq(Text)
      BY <1>3, <2>2, HeadTailProperties
    <3>2. 1 \in Int /\ Len(h) - 1 \in Int /\ \A i \in 1..(Len(h) - 1) : h[i] \in Text
      BY <1>3, LenProperties
    <3> QED BY <3>1, <3>2, SubSeqProperties DEF Front
  <2> QED BY <2>1, <2>2
<1>7. StringAfter(l, k, s) # Empty
  BY <1>4, EmptyAssumption DEF StringAfter, tok
<1>8. ListAfter(l, k, s, g) \in Seq(Text) \cup {Absent}
  <2>1. h # <<>> => Rest(Tail(g)) \in Seq(Text) \cup {Absent} /\ Rest(Front(g)) \in Seq(Text) \cup {Absent}
    BY <1>3, <1>6 DEF Rest
  <2>2. l.type \in LineTypes /\ l.type # "EXPIRE"
    BY LineKeyed DEF PlainLine
  <2>3. ListAfter(l, k, s, g) \in {g, Absent} \cup
           (IF l.type = "REPLLIST" THEN {SubSeq(tok, 3, n)}
            ELSE IF l.type = "LPUSH" THEN {Cons(tok[2], h)}
            ELSE IF l.type = "RPUSH" THEN {Append(h, tok[2])}
            ELSE IF h = <<>> THEN {} ELSE {Rest(Tail(g)), Rest(Front(g))})
    BY DEF ListAfter, tok, n, h
  <2> QED BY <1>4, <1>5, <1>6, <2>1, <2>3
<1> QED BY <1>7, <1>8

-----------------------------------------------------------------------------
(* A full sync leads to what the leader holds.                                *)

\* If every line under k says the same, a run ends with that, or as it began.
LEMMA RunSettles ==
    ASSUME NEW s \in Seq(Sent), NEW k, NEW a, NEW b, NEW x, NEW y,
           \A i \in 1..Len(s) : Keyed(s[i], k) =>
              \A u, v : StringAfter(s[i], k, u) = x /\ ListAfter(s[i], k, u, v) = y
    PROVE  IF \E i \in 1..Len(s) : Keyed(s[i], k) THEN Leads(s, k, a, b, x, y)
           ELSE Leads(s, k, a, b, a, b)
<1> DEFINE n == Len(s)
           Said(i) == \E j \in 1..i : Keyed(s[j], k)
           f == [i \in 0..n |-> IF Said(i) THEN x ELSE a]
           g == [i \in 0..n |-> IF Said(i) THEN y ELSE b]
<1>1. n \in Nat
  BY LenProperties
<1>2. \A i \in 0..n : /\ f[i] = IF Said(i) THEN x ELSE a
                      /\ g[i] = IF Said(i) THEN y ELSE b
  OBVIOUS
<1>3. ASSUME NEW i \in 1..n
      PROVE  Said(i) <=> Keyed(s[i], k) \/ Said(i - 1)
  <2>1. \A j : j \in 1..i <=> j = i \/ j \in 1..(i - 1)
    BY <1>1
  <2> QED BY <2>1
<1>4. ~Said(0) /\ 0 \in 0..n /\ n \in 0..n
  BY <1>1
<1> HIDE DEF f, g, Said
<1>5. IsRun(f, g, s, k)
  <2> SUFFICES ASSUME NEW i \in 1..n
               PROVE  /\ f[i] = StringAfter(s[i], k, f[i - 1])
                      /\ g[i] = ListAfter(s[i], k, f[i - 1], g[i - 1])
    BY DEF IsRun
  <2>1. i \in 0..n /\ i - 1 \in 0..n
    BY <1>1
  <2>2. CASE Keyed(s[i], k)
    BY <1>2, <1>3, <2>1, <2>2
  <2>3. CASE ~Keyed(s[i], k)
    BY <1>2, <1>3, <2>1, <2>3 DEF StringAfter, ListAfter
  <2> QED BY <2>2, <2>3
<1>6. f[0] = a /\ g[0] = b
  BY <1>2, <1>4
<1>7. f[n] = (IF Said(n) THEN x ELSE a) /\ g[n] = (IF Said(n) THEN y ELSE b)
  BY <1>2, <1>4
<1> QED BY <1>5, <1>6, <1>7 DEF Leads, Said

\* A plain line that says under j, and under no other key, what d holds there.
Says(l, d, j, k) ==
    /\ PlainLine(l)
    /\ Keyed(l, k) <=> j = k
    /\ j = k => \A u, v : /\ StringAfter(l, k, u) = d.string_store[k]
                           /\ ListAfter(l, k, u, v) = SeenList(d, k)

\* The lines of a full sync do.
LEMMA SyncSays ==
    ASSUME NEW d, Sound(d), d.expiry = EmptyMap, Worded(d), NEW t, NEW j, NEW k \in Key
    PROVE  /\ j \in LiveStrings(d, t) => Says(StringLine(d, j), d, j, k)
           /\ j \in LiveLists(d, t) => Says(ListLine(d, j), d, j, k)
<1>1. d \in Database
  BY SoundDatabase
<1>2. ASSUME j \in LiveStrings(d, t)
      PROVE  Says(StringLine(d, j), d, j, k)
  <2> DEFINE e == EntryOf("string", d.expiry, d.string_store, j)
  <2>1. /\ e.type = "string" /\ e.key = j /\ e.data = d.string_store[j] /\ e.expiry = Absent
        /\ e \in Entry /\ j \in Key
    BY <1>1, <1>2 DEF EntryOf, Entry, LiveStrings, Held, Has, Database, EmptyMap
  <2>2. e.data # Empty
    BY <2>1 DEF Worded
  <2>3. EntryLine(e).type = "REPLSET" /\ EntryLine(e).tokens = <<e.key, e.data, e.expiry>>
    BY <2>1, <2>2, EntrySent
  <2> HIDE DEF e
  <2>4. PICK l : l = EntryLine(e)
    OBVIOUS
  <2>5. l.type = "REPLSET" /\ l.tokens = <<j, d.string_store[j], Absent>>
    BY <2>1, <2>3, <2>4
  <2>6. /\ Len(l.tokens) = 3 /\ l.tokens[1] = j /\ l.tokens[2] = d.string_store[j]
        /\ l.tokens[3] = Absent
    BY <2>5
  <2>7. PlainLine(l) /\ (Keyed(l, k) <=> j = k)
    BY <2>5, <2>6 DEF PlainLine, Keyed, Markers
  <2>8. j = k => SeenList(d, k) = Absent
    BY <1>2 DEF LiveStrings, Held, SeenList
  <2>9. j = k => \A u, v : /\ StringAfter(l, k, u) = d.string_store[k]
                           /\ ListAfter(l, k, u, v) = SeenList(d, k)
    BY <2>5, <2>6, <2>7, <2>8 DEF StringAfter, ListAfter
  <2> QED BY <2>4, <2>7, <2>9 DEF StringLine, e, Says
<1>3. ASSUME j \in LiveLists(d, t)
      PROVE  Says(ListLine(d, j), d, j, k)
  <2> DEFINE e == EntryOf("list", d.expiry, d.list_store, j)
  <2>1. j \in Key /\ d.list_store[j] # <<>> /\ Has(d.list_store, j) /\ ~Has(d.string_store, j)
    BY <1>3 DEF LiveLists, Held, Sound, StoresSound
  <2>2. d.list_store[j] \in Seq(Text) /\ SeenList(d, j) = d.list_store[j]
    BY <2>1 DEF Worded, SeenList, Has
  <2>3. /\ e.type = "list" /\ e.key = j /\ e.data = d.list_store[j] /\ e.expiry = Absent
        /\ e \in [type : {"list"}, key : Key, expiry : {Absent}, data : Seq(Text)]
    BY <2>1, <2>2 DEF EntryOf, EmptyMap
  <2> HIDE DEF e
  <2>4. /\ EntryLine(e).type = "REPLLIST" /\ EntryLine(e).tokens[1] = e.key
        /\ PlainLine(EntryLine(e))
        /\ SubSeq(EntryLine(e).tokens, 3, Len(EntryLine(e).tokens)) = e.data
    BY <2>1, <2>3, ListCarried DEF Text
  <2>5. PICK l : l = EntryLine(e)
    OBVIOUS
  <2>6. /\ l.type = "REPLLIST" /\ l.tokens[1] = j /\ PlainLine(l)
        /\ SubSeq(l.tokens, 3, Len(l.tokens)) = d.list_store[j]
    BY <2>3, <2>4, <2>5
  <2>7. Keyed(l, k) <=> j = k
    BY <2>6 DEF Keyed, Markers
  <2>8. j = k => \A u, v : /\ StringAfter(l, k, u) = d.string_store[k]
                           /\ ListAfter(l, k, u, v) = SeenList(d, k)
    BY <2>1, <2>2, <2>6, <2>7 DEF StringAfter, ListAfter, Has
  <2> QED BY <2>5, <2>6, <2>7, <2>8 DEF ListLine, e, Says
<1> QED BY <1>2, <1>3

\* Whatever the replica holds, it ends with what the leader holds under every key of the
\* leader, and leaves the others as they are.
LEMMA SyncLeads ==
    ASSUME NEW d, Sound(d), d.expiry = EmptyMap, Worded(d), NEW t, NEW sync, SyncOf(sync, d, t),
           NEW k \in Key, NEW a, NEW b
    PROVE  /\ \A i \in 1..Len(sync) : PlainLine(sync[i])
           /\ \E x, y : /\ Leads(sync, k, a, b, x, y)
                        /\ Present(d, k) \/ (a = Absent /\ b = Absent)
                              => x = d.string_store[k] /\ y = SeenList(d, k)
<1> DEFINE n == Len(sync)
           p == d.string_store[k]
           q == SeenList(d, k)
<1>1. /\ sync \in Seq(Sent)
      /\ \A i \in 1..n : \/ sync[i].type \in Markers
                         \/ \E j \in LiveStrings(d, t) : sync[i] = StringLine(d, j)
                         \/ \E j \in LiveLists(d, t) : sync[i] = ListLine(d, j)
      /\ \A j \in LiveStrings(d, t) : \E i \in 1..n : sync[i] = StringLine(d, j)
      /\ \A j \in LiveLists(d, t) : \E i \in 1..n : sync[i] = ListLine(d, j)
  BY DEF SyncOf, Markers
<1>2. ASSUME NEW i \in 1..n
      PROVE  /\ PlainLine(sync[i])
             /\ Keyed(sync[i], k) =>
                  \A u, v : StringAfter(sync[i], k, u) = p /\ ListAfter(sync[i], k, u, v) = q
  <2> HIDE DEF p, q
  <2>1. CASE sync[i].type \in Markers
    BY <2>1 DEF PlainLine, Keyed, Markers
  <2>2. ASSUME NEW j \in LiveStrings(d, t), sync[i] = StringLine(d, j)
        PROVE  /\ PlainLine(sync[i])
               /\ Keyed(sync[i], k) =>
                    \A u, v : StringAfter(sync[i], k, u) = p /\ ListAfter(sync[i], k, u, v) = q
    <3>1. Says(StringLine(d, j), d, j, k)
      BY <2>2, SyncSays
    <3> QED BY <2>2, <3>1 DEF Says, p, q
  <2>3. ASSUME NEW j \in LiveLists(d, t), sync[i] = ListLine(d, j)
        PROVE  /\ PlainLine(sync[i])
               /\ Keyed(sync[i], k) =>
                    \A u, v : StringAfter(sync[i], k, u) = p /\ ListAfter(sync[i], k, u, v) = q
    <3>1. Says(ListLine(d, j), d, j, k)
      BY <2>3, SyncSays
    <3> QED BY <2>3, <3>1 DEF Says, p, q
  <2> QED BY <1>1, <2>1, <2>2, <2>3
<1>3. IF \E i \in 1..n : Keyed(sync[i], k) THEN Leads(sync, k, a, b, p, q)
      ELSE Leads(sync, k, a, b, a, b)
  <2> HIDE DEF p, q
  <2> QED BY <1>1, <1>2, RunSettles
<1>4. ASSUME Present(d, k)
      PROVE  \E i \in 1..n : Keyed(sync[i], k)
  <2>1. ~Elapsed(d, k, t)
    BY DEF Elapsed, Has, EmptyMap
  <2>2. CASE Has(d.string_store, k)
    <3>1. k \in LiveStrings(d, t)
      BY <2>1, <2>2 DEF LiveStrings, Held
    <3>2. PICK i \in 1..n : sync[i] = StringLine(d, k)
      BY <1>1, <3>1
    <3>3. Says(StringLine(d, k), d, k, k)
      BY <3>1, SyncSays
    <3> QED BY <3>2, <3>3 DEF Says
  <2>3. CASE Has(d.list_store, k)
    <3>1. k \in LiveLists(d, t)
      BY <2>1, <2>3 DEF LiveLists, Held, Sound, StoresSound
    <3>2. PICK i \in 1..n : sync[i] = ListLine(d, k)
      BY <1>1, <3>1
    <3>3. Says(ListLine(d, k), d, k, k)
      BY <3>1, SyncSays
    <3> QED BY <3>2, <3>3 DEF Says
  <2> QED BY <1>4, <2>2, <2>3 DEF Present
<1>5. ~Present(d, k) => p = Absent /\ q = Absent
  BY DEF Present, Has, SeenList
<1> HIDE DEF p, q
<1>6. CASE \E i \in 1..n : Keyed(sync[i], k)
  BY <1>2, <1>3, <1>6 DEF p, q
<1>7. CASE ~\E i \in 1..n : Keyed(sync[i], k)
  BY <1>2, <1>3, <1>4, <1>5, <1>7 DEF p, q
<1> QED BY <1>6, <1>7



-----------------------------------------------------------------------------
(* A replica converges to its leader.                                         *)

Plain == {l \in Sent : PlainLine(l)}

\* What is on the way to a replica that the leader feeds leads to what the leader holds
\* under k; of a stale key only where it leads to is unknown.
Leading(r, k) ==
    link[r] = "live" =>
       \E x, y : /\ Leads(stream[r], k, rdb[r].string_store[k], SeenList(rdb[r], k), x, y)
                 /\ k \notin stale[r] => x = ldb.string_store[k] /\ y = SeenList(ldb, k)

ConvInv == /\ TypeInv
           /\ ldb.expiry = EmptyMap /\ Worded(ldb)
           /\ \A r \in Replica : rdb[r].expiry = EmptyMap
           /\ stream \in [Replica -> Seq(Plain)]
           /\ \A r \in Replica, k \in Key : Leading(r, k)

\* The databases are timeless, and the lines plain.
LEMMA ConvTimeless ==
    ASSUME ConvInv
    PROVE  /\ Timeless(ldb) /\ \A r \in Replica : Timeless(rdb[r])
           /\ \A r \in Replica : /\ stream[r] \in Seq(Sent)
                                 /\ \A i \in 1..Len(stream[r]) : PlainLine(stream[r][i])
<1>1. Timeless(ldb) /\ \A r \in Replica : Timeless(rdb[r])
  BY SoundSteady DEF ConvInv, TypeInv, Timeless
<1>2. ASSUME NEW r \in Replica, NEW i \in 1..Len(stream[r])
      PROVE  PlainLine(stream[r][i])
  <2>1. stream[r][i] \in Plain
    BY <1>2, ElementOfSeq DEF ConvInv
  <2> QED BY <2>1 DEF Plain
<1> QED BY <1>1, <1>2 DEF ConvInv, TypeInv

\* Without deadlines a client reads what is seen under the key.
LEMMA DataSeen ==
    ASSUME NEW d, d.expiry = EmptyMap, NEW k \in Key
    PROVE  Data(d, k) = IF d.string_store[k] # Absent THEN [string |-> d.string_store[k]]
                        ELSE IF SeenList(d, k) # Absent THEN [list |-> SeenList(d, k)]
                        ELSE Absent
<1>1. Visible(d, k, now) <=> Present(d, k)
  BY DEF Visible, Elapsed, Has, EmptyMap
<1> QED BY <1>1 DEF Data, Present, IsString, Has, SeenList

\* The invariant implies the property.
LEMMA ConvSuffices ==
    ASSUME Ample, ConvInv
    PROVE  ReplicaConverges
<1> SUFFICES ASSUME NEW r \in Replica, NEW k \in Key \ stale[r], link[r] = "live"
             PROVE  Data(Replayed(r), k) = Data(ldb, k)
  BY DEF ReplicaConverges, Agrees
<1>1. Leads(stream[r], k, rdb[r].string_store[k], SeenList(rdb[r], k),
            ldb.string_store[k], SeenList(ldb, k))
  BY DEF ConvInv, Leading
<1>2. now \in Int /\ ldb.expiry = EmptyMap /\ Timeless(rdb[r]) /\ stream[r] \in Seq(Sent)
      /\ \A i \in 1..Len(stream[r]) : PlainLine(stream[r][i])
  BY ConvTimeless, BoundsAssumption DEF ConvInv, TypeInv
<1>3. /\ Replayed(r).expiry = EmptyMap
      /\ Replayed(r).string_store[k] = ldb.string_store[k]
      /\ SeenList(Replayed(r), k) = SeenList(ldb, k)
  BY <1>1, <1>2, LeadsReplay
<1> QED BY <1>2, <1>3, DataSeen

\* No one is connected.
LEMMA ConvInit == Init => ConvInv
<1> SUFFICES ASSUME Init
             PROVE  ConvInv
  OBVIOUS
<1>1. ldb.expiry = EmptyMap /\ Worded(ldb)
  BY EmptyAssumption DEF Init, EmptyDb, EmptyMap, Worded, SeenList, Has
<1>2. \A r \in Replica : rdb[r].expiry = EmptyMap
  BY DEF Init, EmptyDb
<1>3. stream \in [Replica -> Seq(Plain)]
  <2>1. <<>> \in Seq(Plain)
    BY EmptySeq
  <2> QED BY <2>1 DEF Init
<1>4. \A r \in Replica, k \in Key : Leading(r, k)
  BY DEF Init, Leading
<1> QED BY <1>1, <1>2, <1>3, <1>4, TypeInit DEF ConvInv

\* The same is seen on both sides, and no line is sent.
LEMMA LeadingStays ==
    ASSUME NEW r \in Replica, NEW k \in Key, Leading(r, k),
           link'[r] = "live" =>
              /\ link[r] = "live" /\ stale'[r] = stale[r] /\ stream'[r] = stream[r]
              /\ Holds(rdb'[r], rdb[r].string_store, rdb[r].list_store)
              /\ Holds(ldb', ldb.string_store, ldb.list_store)
    PROVE  Leading(r, k)'
<1> SUFFICES ASSUME link'[r] = "live"
             PROVE  Leading(r, k)'
  BY DEF Leading
<1>1. /\ rdb'[r].string_store[k] = rdb[r].string_store[k]
      /\ SeenList(rdb'[r], k) = SeenList(rdb[r], k)
      /\ ldb'.string_store[k] = ldb.string_store[k] /\ SeenList(ldb', k) = SeenList(ldb, k)
  BY DEF Holds, SeenList
<1>2. PICK x, y : /\ Leads(stream[r], k, rdb[r].string_store[k], SeenList(rdb[r], k), x, y)
                  /\ k \notin stale[r] => x = ldb.string_store[k] /\ y = SeenList(ldb, k)
  BY DEF Leading
<1>3. /\ Leads(stream'[r], k, rdb'[r].string_store[k], SeenList(rdb'[r], k), x, y)
      /\ k \notin stale'[r] => x = ldb'.string_store[k] /\ y = SeenList(ldb', k)
  BY <1>1, <1>2
<1> QED BY <1>3 DEF Leading


\* A read or a sweep brings no empty word.
LEMMA WordedStays ==
    ASSUME NEW d, Worded(d), NEW e, Holds(e, d.string_store, d.list_store)
    PROVE  Worded(e)
BY DEF Worded, Holds, SeenList

\* What a step has to show besides the types.
ConvAim == /\ ldb'.expiry = EmptyMap /\ Worded(ldb')
           /\ \A r \in Replica : rdb'[r].expiry = EmptyMap
           /\ stream' \in [Replica -> Seq(Plain)]
           /\ \A r \in Replica, k \in Key : Leading(r, k)'

\* A write on the leader: the line moves the replica's end as the write moved the leader.
LEMMA WriteLeads ==
    ASSUME PlainWrites, Ample, ConvInv, NEW c \in Requests, LeaderCommand(c),
           c.name \in WriteCommands, Execute(ldb, c, now).reply # Aborted
    PROVE  ConvAim
<1> DEFINE l == Line(c.name, c.args)
           e == Execute(ldb, c, now).db
<1>1. /\ ldb' = e /\ UNCHANGED <<link, rdb>>
      /\ stream' = [p \in Replica |-> IF link[p] = "live" THEN Append(stream[p], l) ELSE stream[p]]
      /\ stale' = [p \in Replica |-> IF link[p] = "live" THEN stale[p] \ Replaced(c) ELSE stale[p]]
  BY DEF LeaderCommand, Propagate
<1>2. Timeless(ldb) /\ Worded(ldb)
  BY ConvTimeless DEF ConvInv
<1>3. l \in Sent /\ PlainLine(l) /\ l = [type |-> c.name, tokens |-> c.args]
  BY PlainCommand
<1>4. ASSUME NEW k \in Key
      PROVE  /\ e.expiry = EmptyMap
             /\ e.string_store[k] = StringAfter(l, k, ldb.string_store[k])
             /\ SeenList(e, k) = ListAfter(l, k, ldb.string_store[k], SeenList(ldb, k))
  BY <1>2, LeaderMoves
<1>5. e.expiry = EmptyMap
  <2>1. WellTyped(c) /\ c.args[1] \in Key
    BY PlainCommand, RequestsAssumption
  <2> QED BY <1>4, <2>1
<1>6. Replaced(c) = IF c.name \in {"SET", "DEL"} THEN {c.args[1]} ELSE {}
  BY DEF Replaced, PlainWrites
<1> HIDE DEF l, e
<1>7. Worded(ldb')
  <2> SUFFICES ASSUME NEW k \in Key
               PROVE  e.string_store[k] # Empty /\ SeenList(e, k) \in Seq(Text) \cup {Absent}
    BY <1>1 DEF Worded
  <2>1. ldb.string_store[k] # Empty /\ SeenList(ldb, k) \in Seq(Text) \cup {Absent}
    BY <1>2 DEF Worded
  <2>2. /\ StringAfter(l, k, ldb.string_store[k]) # Empty
        /\ ListAfter(l, k, ldb.string_store[k], SeenList(ldb, k)) \in Seq(Text) \cup {Absent}
    BY <1>3, <2>1, WordsAfter
  <2> QED BY <1>4, <2>2
<1>8. stream' \in [Replica -> Seq(Plain)]
  <2>1. l \in Plain
    BY <1>3 DEF Plain
  <2>2. ASSUME NEW p \in Replica
        PROVE  Append(stream[p], l) \in Seq(Plain)
    BY <2>1, AppendProperties DEF ConvInv
  <2> QED BY <1>1, <2>2 DEF ConvInv
<1>9. ASSUME NEW r \in Replica, NEW k \in Key
      PROVE  Leading(r, k)'
  <2> SUFFICES ASSUME link[r] = "live"
               PROVE  Leading(r, k)'
    BY <1>1 DEF Leading
  <2> DEFINE a == rdb[r].string_store[k]
             b == SeenList(rdb[r], k)
  <2>1. PICK x, y : /\ Leads(stream[r], k, a, b, x, y)
                    /\ k \notin stale[r] => x = ldb.string_store[k] /\ y = SeenList(ldb, k)
    BY DEF ConvInv, Leading
  <2>2. stream[r] \in Seq(Sent)
    BY ConvTimeless
  <2> HIDE DEF a, b
  <2>3. Leads(Append(stream[r], l), k, a, b, StringAfter(l, k, x), ListAfter(l, k, x, y))
    BY <1>3, <2>1, <2>2, LeadsAppend
  <2>4. stream'[r] = Append(stream[r], l) /\ stale'[r] = stale[r] \ Replaced(c)
    BY <1>1
  <2>5. ASSUME k \notin stale'[r]
        PROVE  /\ StringAfter(l, k, x) = StringAfter(l, k, ldb.string_store[k])
               /\ ListAfter(l, k, x, y) = ListAfter(l, k, ldb.string_store[k], SeenList(ldb, k))
    <3>1. CASE k \notin stale[r]
      BY <2>1, <3>1
    <3>2. CASE k \in stale[r]
      <4>1. c.name \in {"SET", "DEL"} /\ k = c.args[1]
        BY <1>6, <2>4, <2>5, <3>2
      <4>2. l.type = c.name /\ l.tokens[1] = k
        BY <1>3, <4>1
      <4>3. Keyed(l, k) /\ l.type \in {"SET", "DEL"}
        BY <4>1, <4>2 DEF Keyed, Markers
      <4> QED BY <4>3 DEF StringAfter, ListAfter
    <3> QED BY <3>1, <3>2
  <2>6. k \notin stale'[r] => /\ StringAfter(l, k, x) = ldb'.string_store[k]
                              /\ ListAfter(l, k, x, y) = SeenList(ldb', k)
    BY <1>1, <1>4, <2>5
  <2>7. Leads(stream'[r], k, rdb'[r].string_store[k], SeenList(rdb'[r], k),
              StringAfter(l, k, x), ListAfter(l, k, x, y))
    BY <1>1, <2>3, <2>4 DEF a, b
  <2> QED BY <2>6, <2>7 DEF Leading
<1>10. \A r \in Replica : rdb'[r].expiry = EmptyMap
  BY <1>1 DEF ConvInv
<1> QED BY <1>1, <1>5, <1>7, <1>8, <1>9, <1>10 DEF ConvAim

\* A line delivered: the replica starts where it leads.
LEMMA DeliverLeads ==
    ASSUME Ample, ConvInv, NEW r \in Replica, Deliver(r),
           ~KillsReplica(rdb[r], Head(stream[r]))
    PROVE  ConvAim
<1>1. PICK e : e = ApplyLine(rdb[r], Head(stream[r]), now)
  OBVIOUS
<1>2. /\ rdb' = [rdb EXCEPT ![r] = e]
      /\ stream' = [stream EXCEPT ![r] = Tail(stream[r])]
      /\ UNCHANGED <<link, ldb, stale>> /\ stream[r] # <<>>
  BY <1>1 DEF Deliver
<1>3. TypeInv /\ stream \in [Replica -> Seq(Plain)]
  BY DEF ConvInv
<1>4. \A p \in Replica : /\ rdb'[p] = IF p = r THEN e ELSE rdb[p]
                         /\ stream'[p] = IF p = r THEN Tail(stream[r]) ELSE stream[p]
  BY <1>2, <1>3 DEF TypeInv
<1>5. PICK l : l = Head(stream[r])
  OBVIOUS
<1>6. l \in Sent /\ PlainLine(l) /\ Tail(stream[r]) \in Seq(Plain) /\ stream[r] \in Seq(Sent)
  <2>1. l \in Plain /\ Tail(stream[r]) \in Seq(Plain)
    BY <1>2, <1>3, <1>5, HeadTailProperties
  <2> QED BY <1>3, <2>1 DEF Plain, TypeInv
<1>7. ASSUME NEW k \in Key
      PROVE  /\ e.expiry = EmptyMap
             /\ e.string_store[k] = StringAfter(l, k, rdb[r].string_store[k])
             /\ SeenList(e, k) = ListAfter(l, k, rdb[r].string_store[k], SeenList(rdb[r], k))
  <2>1. Timeless(rdb[r])
    BY ConvTimeless
  <2> QED BY <1>1, <1>5, <1>6, <2>1, LineMoves
<1>8. e.expiry = EmptyMap
  <2>1. CASE Key = {}
    <3>1. Steady(e)
      <4>1. now \in Int /\ Steady(rdb[r]) /\ \E c \in Cell : FreeCell(rdb[r], c)
        BY BoundsAssumption DEF ConvInv, TypeInv, Deliver, HeapHasCell
      <4> QED BY <1>1, <1>5, <1>6, <4>1, LineSteady
    <3> QED BY <2>1, <3>1 DEF Steady, LruSound, Database, EmptyMap
  <2>2. CASE Key # {}
    BY <1>7, <2>2
  <2> QED BY <2>1, <2>2
<1>9. ASSUME NEW k \in Key
      PROVE  Leading(r, k)'
  <2> SUFFICES ASSUME link[r] = "live"
               PROVE  Leading(r, k)'
    BY <1>2 DEF Leading
  <2>1. PICK x, y : /\ Leads(stream[r], k, rdb[r].string_store[k], SeenList(rdb[r], k), x, y)
                    /\ k \notin stale[r] => x = ldb.string_store[k] /\ y = SeenList(ldb, k)
    BY DEF ConvInv, Leading
  <2>2. Leads(Tail(stream[r]), k, e.string_store[k], SeenList(e, k), x, y)
    <3> DEFINE a == rdb[r].string_store[k]
               b == SeenList(rdb[r], k)
    <3>1. Leads(stream[r], k, a, b, x, y)
      BY <2>1
    <3> HIDE DEF a, b
    <3>2. Leads(Tail(stream[r]), k, StringAfter(l, k, a), ListAfter(l, k, a, b), x, y)
      BY <1>2, <1>5, <1>6, <3>1, LeadsTail
    <3> QED BY <1>7, <3>2 DEF a, b
  <2>3. Leads(stream'[r], k, rdb'[r].string_store[k], SeenList(rdb'[r], k), x, y)
    BY <1>4, <2>2
  <2> QED BY <1>2, <2>1, <2>3 DEF Leading
<1>10. ASSUME NEW p \in Replica, NEW k \in Key, p # r
       PROVE  Leading(p, k)'
  <2>1. /\ link'[p] = link[p] /\ stale'[p] = stale[p] /\ stream'[p] = stream[p]
        /\ Holds(rdb'[p], rdb[p].string_store, rdb[p].list_store)
        /\ Holds(ldb', ldb.string_store, ldb.list_store)
    BY <1>2, <1>4, <1>10 DEF Holds, ConvInv
  <2>2. Leading(p, k)
    BY DEF ConvInv
  <2> QED BY <2>1, <2>2, LeadingStays
<1>11. stream' \in [Replica -> Seq(Plain)]
  BY <1>2, <1>3, <1>6
<1>12. \A p \in Replica : rdb'[p].expiry = EmptyMap
  BY <1>4, <1>8 DEF ConvInv
<1>13. ldb'.expiry = EmptyMap /\ Worded(ldb')
  BY <1>2 DEF ConvInv
<1> QED BY <1>9, <1>10, <1>11, <1>12, <1>13 DEF ConvAim

\* A promotion.
LEMMA PromoteLeads ==
    ASSUME ConvInv, NEW r \in Replica, Promote(r)
    PROVE  ConvAim
<1>1. UNCHANGED <<ldb, rdb>> /\ TypeInv /\ Sound(ldb) /\ ldb.expiry = EmptyMap /\ Worded(ldb)
  BY DEF Promote, ConvInv, TypeInv
<1>2. PICK sync \in FullSyncs(ldb, now) : stream' = [stream EXCEPT ![r] = sync]
  BY DEF Promote
<1>3. \A p \in Replica : /\ stream'[p] = IF p = r THEN sync ELSE stream[p]
                         /\ p # r => link'[p] = link[p] /\ stale'[p] = stale[p]
  BY <1>1, <1>2 DEF Promote, TypeInv
<1>4. stale'[r] = {j \in Key : Present(rdb[r], j) /\ ~Visible(ldb, j, now)}
  BY <1>1 DEF Promote, TypeInv
<1>5. SyncOf(sync, ldb, now)
  BY <1>1, FullSyncLines
<1>6. ASSUME NEW k \in Key, NEW a, NEW b
      PROVE  /\ \A i \in 1..Len(sync) : PlainLine(sync[i])
             /\ \E x, y : /\ Leads(sync, k, a, b, x, y)
                          /\ Present(ldb, k) \/ (a = Absent /\ b = Absent)
                                => x = ldb.string_store[k] /\ y = SeenList(ldb, k)
  BY <1>1, <1>5, SyncLeads
<1>7. sync \in Seq(Plain)
  <2>1. sync \in Seq(Sent)
    BY <1>5 DEF SyncOf
  <2>2. \A i \in 1..Len(sync) : sync[i] \in Plain
    <3>1. \A i \in 1..Len(sync) : sync[i] \in Sent
      BY <2>1, ElementOfSeq
    <3>2. \A i \in 1..Len(sync) : PlainLine(sync[i])
      <4>1. CASE Key # {}
        BY <1>6, <4>1
      <4>2. CASE Key = {}
        <5>1. LiveStrings(ldb, now) = {} /\ LiveLists(ldb, now) = {}
          BY <4>2 DEF LiveStrings, LiveLists, Held
        <5> QED BY <1>5, <5>1 DEF SyncOf, PlainLine
      <4> QED BY <4>1, <4>2
    <3> QED BY <3>1, <3>2 DEF Plain
  <2>3. Len(sync) \in Nat /\ sync = [i \in 1..Len(sync) |-> sync[i]]
    BY <2>1, LenProperties
  <2> QED BY <2>2, <2>3
<1>8. ASSUME NEW k \in Key
      PROVE  Leading(r, k)'
  <2>1. PICK x, y : /\ Leads(sync, k, rdb[r].string_store[k], SeenList(rdb[r], k), x, y)
                    /\ Present(ldb, k) \/ (rdb[r].string_store[k] = Absent /\ SeenList(rdb[r], k) = Absent)
                          => x = ldb.string_store[k] /\ y = SeenList(ldb, k)
    BY <1>6
  <2>2. k \notin stale'[r] =>
           Present(ldb, k) \/ (rdb[r].string_store[k] = Absent /\ SeenList(rdb[r], k) = Absent)
    BY <1>4 DEF Visible, Present, Has, SeenList
  <2>3. Leads(stream'[r], k, rdb'[r].string_store[k], SeenList(rdb'[r], k), x, y)
    BY <1>1, <1>3, <2>1
  <2> QED BY <1>1, <2>1, <2>2, <2>3 DEF Leading
<1>9. ASSUME NEW p \in Replica, NEW k \in Key, p # r
      PROVE  Leading(p, k)'
  <2>1. /\ link'[p] = link[p] /\ stale'[p] = stale[p] /\ stream'[p] = stream[p]
        /\ Holds(rdb'[p], rdb[p].string_store, rdb[p].list_store)
        /\ Holds(ldb', ldb.string_store, ldb.list_store)
    BY <1>1, <1>3, <1>9 DEF Holds, ConvInv
  <2>2. Leading(p, k)
    BY DEF ConvInv
  <2> QED BY <2>1, <2>2, LeadingStays
<1>10. stream' \in [Replica -> Seq(Plain)]
  BY <1>2, <1>7 DEF ConvInv
<1>11. \A p \in Replica : rdb'[p].expiry = EmptyMap
  BY <1>1 DEF ConvInv
<1> QED BY <1>1, <1>8, <1>9, <1>10, <1>11 DEF ConvAim


\* Every step.
LEMMA ConvNext ==
    ASSUME PlainWrites, Ample, ConvInv, [Next]_vars
    PROVE  ConvInv'
<1>1. TypeInv /\ TypeInv'
  BY TypeNext DEF ConvInv
<1>2. /\ Timeless(ldb) /\ \A p \in Replica : Timeless(rdb[p])
      /\ ldb.expiry = EmptyMap /\ Worded(ldb) /\ \A p \in Replica : rdb[p].expiry = EmptyMap
      /\ stream \in [Replica -> Seq(Plain)]
  BY ConvTimeless DEF ConvInv
<1>3. Worded(EmptyDb) /\ EmptyDb.expiry = EmptyMap /\ <<>> \in Seq(Plain)
  <2>1. Worded(EmptyDb)
    BY EmptyAssumption DEF EmptyDb, EmptyMap, Worded, SeenList, Has
  <2> QED BY <2>1, EmptySeq DEF EmptyDb
<1>4. ASSUME ldb'.expiry = EmptyMap, Worded(ldb'), stream' \in [Replica -> Seq(Plain)],
             \A p \in Replica : rdb'[p].expiry = EmptyMap,
             \A p \in Replica : link'[p] = "live" =>
                /\ link[p] = "live" /\ stale'[p] = stale[p] /\ stream'[p] = stream[p]
                /\ Holds(rdb'[p], rdb[p].string_store, rdb[p].list_store)
                /\ Holds(ldb', ldb.string_store, ldb.list_store)
      PROVE  ConvAim
  <2>1. ASSUME NEW p \in Replica, NEW k \in Key
        PROVE  Leading(p, k)'
    <3>1. Leading(p, k)
      BY DEF ConvInv
    <3>2. link'[p] = "live" =>
                /\ link[p] = "live" /\ stale'[p] = stale[p] /\ stream'[p] = stream[p]
                /\ Holds(rdb'[p], rdb[p].string_store, rdb[p].list_store)
                /\ Holds(ldb', ldb.string_store, ldb.list_store)
      BY <1>4
    <3> QED BY <3>1, <3>2, LeadingStays
  <2> QED BY <1>4, <2>1 DEF ConvAim
<1>5. /\ Holds(ldb, ldb.string_store, ldb.list_store)
      /\ \A p \in Replica : Holds(rdb[p], rdb[p].string_store, rdb[p].list_store)
  BY <1>2 DEF Holds
<1> SUFFICES ConvAim
  BY <1>1 DEF ConvAim, ConvInv
<1>6. ASSUME Sever(Replica), ldb' = EmptyDb, UNCHANGED rdb
      PROVE  ConvAim
  <2>1. \A p \in Replica : link'[p] # "live"
    BY <1>1, <1>6, SeverCuts
  <2>2. stream' \in [Replica -> Seq(Plain)]
    BY <1>2, <1>6, SeverPrefixes
  <2> QED BY <1>2, <1>3, <1>4, <1>6, <2>1, <2>2
<1>7. ASSUME NEW r \in Replica, NEW e, Holds(e, rdb[r].string_store, rdb[r].list_store),
             rdb' = [rdb EXCEPT ![r] = e], UNCHANGED <<ldb, link, stream, stale>>
      PROVE  ConvAim
  <2>1. \A p \in Replica : rdb'[p] = IF p = r THEN e ELSE rdb[p]
    BY <1>1, <1>7 DEF TypeInv
  <2>2. \A p \in Replica : Holds(rdb'[p], rdb[p].string_store, rdb[p].list_store)
    BY <1>5, <1>7, <2>1
  <2>3. \A p \in Replica : rdb'[p].expiry = EmptyMap
    BY <2>2 DEF Holds
  <2> QED BY <1>2, <1>4, <1>5, <1>7, <2>2, <2>3
<1>8. ASSUME Holds(ldb', ldb.string_store, ldb.list_store), UNCHANGED <<rdb, link, stream, stale>>
      PROVE  ConvAim
  <2>1. ldb'.expiry = EmptyMap /\ Worded(ldb')
    BY <1>2, <1>8, WordedStays DEF Holds
  <2> QED BY <1>2, <1>4, <1>5, <1>8, <2>1
<1>9. ASSUME NEW c \in Requests, LeaderCommand(c)
      PROVE  ConvAim
  <2>1. CASE Execute(ldb, c, now).reply = Aborted
    <3>1. ldb' = EmptyDb /\ Sever(Replica) /\ UNCHANGED rdb
      BY <1>9, <2>1 DEF LeaderCommand
    <3> QED BY <1>6, <3>1
  <2>2. CASE Execute(ldb, c, now).reply # Aborted /\ c.name \in WriteCommands
    BY <1>9, <2>2, WriteLeads
  <2>3. CASE Execute(ldb, c, now).reply # Aborted /\ c.name \notin WriteCommands
    <3>1. ldb' = Execute(ldb, c, now).db /\ UNCHANGED <<rdb, link, stream, stale>>
      BY <1>9, <2>3 DEF LeaderCommand
    <3>2. WellTyped(c)
      BY RequestsAssumption
    <3>3. Holds(Execute(ldb, c, now).db, ldb.string_store, ldb.list_store)
      BY <1>2, <2>3, <3>2, ReadsAside
    <3>4. Holds(ldb', ldb.string_store, ldb.list_store)
      BY <3>1, <3>3
    <3> QED BY <1>8, <3>1, <3>4
  <2> QED BY <2>1, <2>2, <2>3
<1>10. ASSUME NEW r \in Replica, NEW c \in Requests, ReplicaCommand(r, c)
       PROVE  ConvAim
  <2>1. PICK e : e = IF c.name \in WriteCommands THEN rdb[r] ELSE Execute(rdb[r], c, now).db
    OBVIOUS
  <2>2. Holds(e, rdb[r].string_store, rdb[r].list_store)
    <3>1. CASE c.name \in WriteCommands
      BY <1>5, <2>1, <3>1
    <3>2. CASE c.name \notin WriteCommands
      <4>1. Timeless(rdb[r]) /\ WellTyped(c)
        BY <1>2, RequestsAssumption
      <4>2. Holds(Execute(rdb[r], c, now).db, rdb[r].string_store, rdb[r].list_store)
        BY <3>2, <4>1, ReadsAside
      <4> QED BY <2>1, <3>2, <4>2
    <3> QED BY <3>1, <3>2
  <2>3. rdb' = [rdb EXCEPT ![r] = e] /\ UNCHANGED <<ldb, link, stream, stale>>
    BY <1>1, <1>10, <2>1 DEF ReplicaCommand, TypeInv
  <2> QED BY <1>7, <2>2, <2>3
<1>11. ASSUME NEW r \in Replica, Promote(r)
       PROVE  ConvAim
  BY <1>11, PromoteLeads
<1>12. ASSUME NEW r \in Replica, FreshReplica(r), UNCHANGED <<ldb, stale>>
       PROVE  ConvAim
  <2>1. \A p \in Replica : /\ rdb'[p] = IF p = r THEN EmptyDb ELSE rdb[p]
                           /\ link'[p] = IF p = r THEN "down" ELSE link[p]
                           /\ stream'[p] = IF p = r THEN <<>> ELSE stream[p]
    BY <1>1, <1>12 DEF FreshReplica, TypeInv
  <2>2. stream' \in [Replica -> Seq(Plain)]
    BY <1>2, <1>3, <1>12 DEF FreshReplica
  <2>3. \A p \in Replica : rdb'[p].expiry = EmptyMap
    BY <1>2, <1>3, <2>1
  <2>4. \A p \in Replica : link'[p] = "live" => link[p] = "live" /\ stream'[p] = stream[p] /\ rdb'[p] = rdb[p]
    BY <2>1
  <2> QED BY <1>2, <1>4, <1>5, <1>12, <2>2, <2>3, <2>4
<1>13. ASSUME NEW r \in Replica, Deliver(r)
       PROVE  ConvAim
  <2>1. CASE KillsReplica(rdb[r], Head(stream[r]))
    BY <1>12, <1>13, <2>1 DEF Deliver
  <2>2. CASE ~KillsReplica(rdb[r], Head(stream[r]))
    BY <1>13, <2>2, DeliverLeads
  <2> QED BY <2>1, <2>2
<1>14. ASSUME NEW r \in Replica, Connect(r) \/ Eof(r)
       PROVE  ConvAim
  <2>1. UNCHANGED <<ldb, rdb, stream, stale>> /\ \A p \in Replica : link'[p] = "live" => link[p] = "live"
    BY <1>1, <1>14 DEF Connect, Eof, TypeInv
  <2> QED BY <1>2, <1>4, <1>5, <2>1
<1>15. ASSUME NEW r \in Replica, LeaderDrops(r)
       PROVE  ConvAim
  <2>1. Sever({r}) /\ {r} \in SUBSET Replica /\ UNCHANGED <<ldb, rdb, stale>>
    BY <1>15 DEF LeaderDrops
  <2>2. \A p \in Replica : link'[p] = "live" => link[p] = "live" /\ stream'[p] = stream[p]
    BY <1>1, <2>1, SeverCuts
  <2>3. stream' \in [Replica -> Seq(Plain)]
    BY <1>2, <2>1, SeverPrefixes
  <2> QED BY <1>2, <1>4, <1>5, <2>1, <2>2, <2>3
<1>16. ASSUME NEW r \in Replica, ReplicaDrops(r)
       PROVE  ConvAim
  <2>1. UNCHANGED <<ldb, rdb, stale>>
    BY <1>16 DEF ReplicaDrops
  <2>2. \A p \in Replica : link'[p] = "live" => link[p] = "live" /\ stream'[p] = stream[p]
    BY <1>1, <1>16 DEF ReplicaDrops, TypeInv
  <2>3. stream' \in [Replica -> Seq(Plain)]
    BY <1>2, <1>3, <1>16 DEF ReplicaDrops
  <2> QED BY <1>2, <1>4, <1>5, <2>1, <2>2, <2>3
<1>17. ASSUME NEW r \in Replica, ReplicaRestart(r)
       PROVE  ConvAim
  BY <1>12, <1>17 DEF ReplicaRestart
<1>18. ASSUME NEW r \in Replica, ReplicaSweep(r)
       PROVE  ConvAim
  <2>1. PICK e : e = EvictExpired(rdb[r], now)
    OBVIOUS
  <2>2. rdb' = [rdb EXCEPT ![r] = e] /\ UNCHANGED <<ldb, link, stream, stale>>
    BY <1>18, <2>1 DEF ReplicaSweep
  <2>3. Holds(e, rdb[r].string_store, rdb[r].list_store)
    <3>1. CASE Key = {}
      BY <1>1, <1>2, <2>1, <3>1 DEF EvictExpired, Erase, Holds, TypeInv, Database, EmptyMap
    <3>2. ASSUME NEW k \in Key
          PROVE  Holds(e, rdb[r].string_store, rdb[r].list_store)
      BY <1>2, <2>1, TimelessKeeps
    <3> QED BY <3>1, <3>2
  <2> QED BY <1>7, <2>2, <2>3
<1>19. ASSUME LeaderRestart
       PROVE  ConvAim
  BY <1>6, <1>19 DEF LeaderRestart
<1>20. ASSUME LeaderSweep
       PROVE  ConvAim
  <2>1. ldb' = EvictExpired(ldb, now) /\ UNCHANGED <<rdb, link, stream, stale>>
    BY <1>20 DEF LeaderSweep
  <2>2. Holds(EvictExpired(ldb, now), ldb.string_store, ldb.list_store)
    <3>1. CASE Key = {}
      <4>1. ldb \in Database
        BY <1>1, SoundDatabase DEF TypeInv
      <4> QED BY <1>2, <3>1, <4>1 DEF EvictExpired, Erase, Holds, Database, EmptyMap
    <3>2. ASSUME NEW k \in Key
          PROVE  Holds(EvictExpired(ldb, now), ldb.string_store, ldb.list_store)
      BY <1>2, TimelessKeeps
    <3> QED BY <3>1, <3>2
  <2>3. Holds(ldb', ldb.string_store, ldb.list_store)
    BY <2>1, <2>2
  <2> QED BY <1>8, <2>1, <2>3
<1>21. ASSUME Advance \/ UNCHANGED vars
       PROVE  ConvAim
  <2>1. UNCHANGED <<ldb, rdb, link, stream, stale>>
    BY <1>21 DEF Advance, vars
  <2> QED BY <1>5, <1>8, <2>1
<1> HIDE DEF ConvAim
<1> QED BY <1>9, <1>10, <1>11, <1>13, <1>14, <1>15, <1>16, <1>17, <1>18, <1>19, <1>20, <1>21 DEF Next

\* Without deadlines, refused or empty writes, and with room for every key: on a connection
\* that the leader feeds, what is on the way always completes the replica, whenever it was
\* connected, cut, restarted or synchronised on top of an older state; for any number of
\* replicas, keys, writes and faults.
THEOREM ReplicaConvergence ==
    ASSUME PlainWrites, Ample
    PROVE  Spec => []ReplicaConverges
<1>1. ConvInv /\ [Next]_vars => ConvInv'
  BY ConvNext
<1>2. ConvInv => ReplicaConverges
  BY ConvSuffices
<1> QED BY <1>1, <1>2, ConvInit, PTL DEF Spec
=============================================================================
