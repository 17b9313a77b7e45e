---------------------------- MODULE StoreProofs ----------------------------
(***************************************************************************)
(* Lemmas about the operators of Store and Commands, for every value of    *)
(* the constants: each operation and each handler keeps a database sound,  *)
(* and what it changes for a client is confined to its own key.            *)
(***************************************************************************)
EXTENDS Commands, InductionLemmas, FiniteSetTheorems

\* The nodes of lru_order_ occupy distinct cells.
DistinctCells(d) == \A i, j \in 1..Len(d.lru_order) :
    d.lru_order[i].cell = d.lru_order[j].cell => i = j

\* Every iterator of a key outside K points to a linked node of its own key.
Linked(d, K) == \A k \in Key \ K : Has(d.lru_position, k) =>
    \E i \in 1..Len(d.lru_order) : Points(d, k, i)

LruSound(d) == d \in Database /\ DistinctCells(d) /\ Linked(d, {})

Tracked(d) == \A k \in Key : Has(d.string_store, k) => Has(d.lru_position, k)

StoresSound(d) == \A k \in Key :
    /\ ~(Has(d.string_store, k) /\ Has(d.list_store, k))
    /\ d.list_store[k] # <<>>
    /\ Has(d.expiry, k) => Present(d, k)

\* Strings alone do not exceed the capacity.
Fits(d) == Cardinality(Held(d.string_store)) <= MaxCapacity

\* What every command preserves.
Sound(d) == LruSound(d) /\ Tracked(d) /\ StoresSound(d)

-----------------------------------------------------------------------------

\* The mark of an absent key is not an empty list.
LEMMA AbsentIsNoList == Absent # <<>>
<1>1. <<>> \in Seq(Value)
  BY EmptySeq
<1> QED BY <1>1, AbsentAssumption

\* Databases with the same list and the same iterators are equally well linked.
LEMMA SameLru ==
    ASSUME NEW d, NEW e, NEW K,
           e.lru_order = d.lru_order, e.lru_position = d.lru_position
    PROVE  /\ DistinctCells(d) => DistinctCells(e)
           /\ Linked(d, K) => Linked(e, K)
<1>1. DistinctCells(d) => DistinctCells(e)
  BY Zenon DEF DistinctCells
<1>2. ASSUME Linked(d, K)
      PROVE  Linked(e, K)
  <2> SUFFICES ASSUME NEW k \in Key \ K, Has(e.lru_position, k)
               PROVE  \E i \in 1..Len(e.lru_order) : Points(e, k, i)
    BY Zenon DEF Linked
  <2>1. PICK i \in 1..Len(d.lru_order) : Points(d, k, i)
    BY <1>2, Zenon DEF Linked
  <2>2. i \in 1..Len(e.lru_order) /\ Points(e, k, i)
    BY <2>1, Zenon DEF Points
  <2> QED BY <2>2, Zenon
<1> QED BY <1>1, <1>2, Zenon

\* Removing position p shifts what follows it one place to the front.
LEMMA RemoveAtShifts ==
    ASSUME NEW S, NEW s \in Seq(S), NEW p \in 1..Len(s)
    PROVE  /\ RemoveAt(s, p) \in Seq(S)
           /\ Len(RemoveAt(s, p)) = Len(s) - 1
           /\ \A i \in 1..(Len(s) - 1) :
                 RemoveAt(s, p)[i] = IF i < p THEN s[i] ELSE s[i + 1]
<1> DEFINE front == SubSeq(s, 1, p - 1)
           back  == SubSeq(s, p + 1, Len(s))
<1>1. /\ front \in Seq(S) /\ Len(front) = p - 1
      /\ \A i \in 1..(p - 1) : front[i] = s[i]
  BY SubSeqProperties
<1>2. /\ back \in Seq(S) /\ Len(back) = Len(s) - p
      /\ \A i \in 1..(Len(s) - p) : back[i] = s[p + i]
  BY SubSeqProperties
<1>3. RemoveAt(s, p) = front \o back
  BY DEF RemoveAt
<1> HIDE DEF front, back
<1>4. /\ front \o back \in Seq(S)
      /\ Len(front \o back) = Len(s) - 1
  <2>1. front \o back \in Seq(S) /\ Len(front \o back) = Len(front) + Len(back)
    BY <1>1, <1>2, ConcatProperties
  <2>2. Len(s) \in Nat
    BY LenProperties
  <2> QED BY <1>1, <1>2, <2>1, <2>2
<1>5. ASSUME NEW i \in 1..(Len(s) - 1)
      PROVE  (front \o back)[i] = IF i < p THEN s[i] ELSE s[i + 1]
  <2>1. (front \o back)[i] = IF i <= Len(front) THEN front[i] ELSE back[i - Len(front)]
    BY <1>1, <1>2, ConcatProperties
  <2> QED BY <1>1, <1>2, <2>1
<1> QED BY <1>3, <1>4, <1>5

\* erase(lru_position_[k]) leaves the list well formed; only the iterator of k
\* itself dangles afterwards, and the freed cell is free.
LEMMA UnlinkSound ==
    ASSUME NEW d, NEW k \in Key, LruSound(d), Has(d.lru_position, k)
    PROVE  LET u == Unlink(d, k)
           IN  /\ u \in Database
               /\ DistinctCells(u)
               /\ Linked(u, {k})
               /\ FreeCell(u, d.lru_position[k])
<1> DEFINE n == Len(d.lru_order)
           p == CHOOSE i \in 1..n : d.lru_order[i].cell = d.lru_position[k]
           u == Unlink(d, k)
<1>1. /\ d.lru_order \in Seq(Node)
      /\ n \in Nat
      /\ d.lru_position \in [Key -> Cell \cup {Absent}]
  BY DEF LruSound, Database
<1>2. PICK q \in 1..n : Points(d, k, q)
  BY DEF LruSound, Linked
<1>3. p \in 1..n /\ d.lru_order[p].cell = d.lru_position[k]
  BY <1>2 DEF Points
<1>4. u = [d EXCEPT !.lru_order = RemoveAt(d.lru_order, p)]
  BY DEF Unlink
<1> HIDE DEF p, u
<1>5. /\ u.lru_order = RemoveAt(d.lru_order, p)
      /\ u.lru_position = d.lru_position
      /\ u.string_store = d.string_store
      /\ u.list_store = d.list_store
      /\ u.expiry = d.expiry
  BY <1>4 DEF LruSound, Database
<1>6. /\ RemoveAt(d.lru_order, p) \in Seq(Node)
      /\ Len(RemoveAt(d.lru_order, p)) = n - 1
      /\ \A i \in 1..(n - 1) : RemoveAt(d.lru_order, p)[i]
                                 = IF i < p THEN d.lru_order[i] ELSE d.lru_order[i + 1]
  BY <1>1, <1>3, RemoveAtShifts
<1>7. u \in Database
  BY <1>4, <1>6 DEF LruSound, Database
<1>8. DistinctCells(u)
  <2> SUFFICES ASSUME NEW i \in 1..(n - 1), NEW j \in 1..(n - 1),
                      u.lru_order[i].cell = u.lru_order[j].cell
               PROVE  i = j
    BY <1>5, <1>6 DEF DistinctCells
  <2> DEFINE Old(m) == IF m < p THEN m ELSE m + 1
  <2>1. /\ Old(i) \in 1..n /\ Old(j) \in 1..n
        /\ u.lru_order[i] = d.lru_order[Old(i)]
        /\ u.lru_order[j] = d.lru_order[Old(j)]
    BY <1>1, <1>3, <1>5, <1>6
  <2>2. Old(i) = Old(j)
    BY <2>1 DEF LruSound, DistinctCells
  <2>3. i \in Int /\ j \in Int /\ p \in Int
    BY <1>1, <1>3
  <2> QED BY <2>2, <2>3
<1>9. Linked(u, {k})
  <2> SUFFICES ASSUME NEW j \in Key \ {k}, Has(u.lru_position, j)
               PROVE  \E i \in 1..Len(u.lru_order) : Points(u, j, i)
    BY DEF Linked
  <2>1. PICK i \in 1..n : Points(d, j, i)
    BY <1>5 DEF LruSound, Linked
  <2>2. i # p
    BY <1>2, <1>3, <2>1 DEF LruSound, DistinctCells, Points
  <2>3. CASE i < p
    BY <1>1, <1>3, <1>5, <1>6, <2>1, <2>3 DEF Points
  <2>4. CASE i > p
    <3>1. i - 1 \in 1..(n - 1) /\ u.lru_order[i - 1] = d.lru_order[i]
      BY <1>1, <1>3, <1>5, <1>6, <2>4
    <3> QED BY <1>5, <1>6, <2>1, <3>1 DEF Points
  <2> QED BY <2>2, <2>3, <2>4, <1>3
<1>10. FreeCell(u, d.lru_position[k])
  <2> SUFFICES ASSUME NEW i \in 1..(n - 1), u.lru_order[i].cell = d.lru_position[k]
               PROVE  FALSE
    BY <1>5, <1>6 DEF FreeCell
  <2> DEFINE old == IF i < p THEN i ELSE i + 1
  <2>1. old \in 1..n /\ old # p
    BY <1>1, <1>3
  <2>2. u.lru_order[i] = d.lru_order[old]
    BY <1>5, <1>6
  <2> HIDE DEF old
  <2> QED BY <1>3, <2>1, <2>2 DEF LruSound, DistinctCells
<1>11. u = Unlink(d, k)
  BY DEF u
<1> HIDE DEF n
<1> QED BY <1>7, <1>8, <1>9, <1>10, <1>11, Zenon

\* push_front() into a free cell links the key it pushes, whatever its iterator
\* was before, and disturbs no other iterator.
LEMMA PushFrontSound ==
    ASSUME NEW d \in Database, NEW k \in Key,
           DistinctCells(d), Linked(d, {k}), \E c \in Cell : FreeCell(d, c)
    PROVE  LET f == PushFront(d, k)
           IN  /\ LruSound(f)
               /\ \A j \in Key : Has(f.lru_position, j) <=> j = k \/ Has(d.lru_position, j)
               /\ f.string_store = d.string_store
               /\ f.list_store = d.list_store
               /\ f.expiry = d.expiry
<1> DEFINE n == Len(d.lru_order)
           c == CHOOSE c \in Cell : FreeCell(d, c)
           node == [cell |-> c, key |-> k]
           f == PushFront(d, k)
<1>1. c \in Cell /\ FreeCell(d, c)
  OBVIOUS
<1>2. /\ d.lru_order \in Seq(Node) /\ n \in Nat
      /\ d.lru_position \in [Key -> Cell \cup {Absent}]
  BY DEF Database
<1>3. f = [d EXCEPT !.lru_order = <<node>> \o d.lru_order,
                    !.lru_position = [d.lru_position EXCEPT ![k] = c]]
  BY DEF PushFront, Cons, Database
<1> HIDE DEF c, f
<1>4. /\ <<node>> \o d.lru_order \in Seq(Node)
      /\ Len(<<node>> \o d.lru_order) = n + 1
      /\ \A i \in 1..(n + 1) : (<<node>> \o d.lru_order)[i]
                                 = IF i = 1 THEN node ELSE d.lru_order[i - 1]
  <2>1. /\ <<node>> \in Seq(Node) /\ Len(<<node>>) = 1 /\ <<node>>[1] = node
    BY <1>1 DEF Node
  <2>2. /\ <<node>> \o d.lru_order \in Seq(Node)
        /\ Len(<<node>> \o d.lru_order) = Len(<<node>>) + n
        /\ \A i \in 1..(Len(<<node>>) + n) : (<<node>> \o d.lru_order)[i]
              = IF i <= Len(<<node>>) THEN <<node>>[i] ELSE d.lru_order[i - Len(<<node>>)]
    BY <2>1, <1>2, ConcatProperties
  <2> HIDE DEF node
  <2> QED BY <1>2, <2>1, <2>2
<1>5. /\ f.lru_order = <<node>> \o d.lru_order
      /\ f.lru_position = [d.lru_position EXCEPT ![k] = c]
      /\ f.string_store = d.string_store
      /\ f.list_store = d.list_store
      /\ f.expiry = d.expiry
  BY <1>3 DEF Database
<1>6. f \in Database
  BY <1>1, <1>2, <1>3, <1>4 DEF Database
<1>7. DistinctCells(f)
  <2> SUFFICES ASSUME NEW i \in 1..(n + 1), NEW j \in 1..(n + 1),
                      f.lru_order[i].cell = f.lru_order[j].cell
               PROVE  i = j
    BY <1>4, <1>5 DEF DistinctCells
  <2>1. CASE i = 1 \/ j = 1
    BY <1>1, <1>2, <1>4, <1>5, <2>1 DEF FreeCell
  <2>2. CASE i # 1 /\ j # 1
    <3>1. /\ i - 1 \in 1..n /\ j - 1 \in 1..n
          /\ f.lru_order[i] = d.lru_order[i - 1]
          /\ f.lru_order[j] = d.lru_order[j - 1]
      BY <1>2, <1>4, <1>5, <2>2
    <3>2. i - 1 = j - 1
      BY <3>1 DEF DistinctCells
    <3> QED BY <3>2
  <2> QED BY <2>1, <2>2
<1>8. Linked(f, {})
  <2> SUFFICES ASSUME NEW j \in Key, Has(f.lru_position, j)
               PROVE  \E i \in 1..(n + 1) : Points(f, j, i)
    BY <1>4, <1>5 DEF Linked
  <2>1. CASE j = k
    <3>1. 1 \in 1..(n + 1) /\ f.lru_order[1] = node /\ f.lru_position[k] = c
      BY <1>2, <1>4, <1>5
    <3> QED BY <2>1, <3>1 DEF Points
  <2>2. CASE j # k
    <3>1. f.lru_position[j] = d.lru_position[j]
      BY <1>2, <1>5, <2>2
    <3>2. PICK i \in 1..n : Points(d, j, i)
      BY <2>2, <3>1 DEF Linked, Has
    <3>3. i + 1 \in 1..(n + 1) /\ f.lru_order[i + 1] = d.lru_order[i]
      BY <1>2, <1>4, <1>5
    <3> QED BY <3>1, <3>2, <3>3 DEF Points
  <2> QED BY <2>1, <2>2
<1>9. \A j \in Key : Has(f.lru_position, j) <=> j = k \/ Has(d.lru_position, j)
  BY <1>1, <1>2, <1>5, AbsentAssumption DEF Has
<1> QED BY <1>5, <1>6, <1>7, <1>8, <1>9 DEF LruSound, f

\* Popping n nodes and erasing their keys everywhere leaves no dangling iterator,
\* even when a popped node is not the one its key's iterator points to.
LEMMA EvictLastSound ==
    ASSUME NEW d, Sound(d), NEW n \in 0..Len(d.lru_order)
    PROVE  Sound(EvictLast(d, n))
<1> DEFINE len == Len(d.lru_order)
           keys == {d.lru_order[i].key : i \in (len - n + 1)..len}
           e == EvictLast(d, n)
<1>1. /\ d \in Database /\ d.lru_order \in Seq(Node) /\ len \in Nat
      /\ d.lru_position \in [Key -> Cell \cup {Absent}]
  BY DEF Sound, LruSound, Database
<1>2. /\ e.string_store = Erase(d.string_store, keys)
      /\ e.list_store = Erase(d.list_store, keys)
      /\ e.expiry = Erase(d.expiry, keys)
      /\ e.lru_order = SubSeq(d.lru_order, 1, len - n)
      /\ e.lru_position = Erase(d.lru_position, keys)
  BY DEF EvictLast
<1>3. /\ e.lru_order \in Seq(Node)
      /\ Len(e.lru_order) = len - n
      /\ \A i \in 1..(len - n) : e.lru_order[i] = d.lru_order[i]
  BY <1>1, <1>2, SubSeqProperties
<1>4. e \in Database
  BY <1>1, <1>3 DEF EvictLast, Database, Erase
<1> HIDE DEF e, keys
<1>5. DistinctCells(e)
  <2> SUFFICES ASSUME NEW i \in 1..(len - n), NEW j \in 1..(len - n),
                      e.lru_order[i].cell = e.lru_order[j].cell
               PROVE  i = j
    BY <1>3 DEF DistinctCells
  <2>1. i \in 1..len /\ j \in 1..len
    BY <1>1
  <2>2. d.lru_order[i].cell = d.lru_order[j].cell
    BY <1>3
  <2> QED BY <2>1, <2>2 DEF Sound, LruSound, DistinctCells
<1>6. Linked(e, {})
  <2> SUFFICES ASSUME NEW j \in Key, Has(e.lru_position, j)
               PROVE  \E i \in 1..(len - n) : Points(e, j, i)
    BY <1>3 DEF Linked
  <2>1. j \notin keys /\ e.lru_position[j] = d.lru_position[j] /\ Has(d.lru_position, j)
    BY <1>2 DEF Erase, Has
  <2>2. PICK i \in 1..len : Points(d, j, i)
    BY <2>1 DEF Sound, LruSound, Linked
  <2>3. i \in 1..(len - n)
    BY <1>1, <2>1, <2>2 DEF Points, keys
  <2> QED BY <1>3, <2>1, <2>2, <2>3 DEF Points
<1>7. Tracked(e)
  BY <1>2 DEF Sound, Tracked, Erase, Has
<1>8. StoresSound(e)
  BY <1>2, AbsentIsNoList DEF Sound, StoresSound, Erase, Has, Present
<1> QED BY <1>4, <1>5, <1>6, <1>7, <1>8 DEF Sound, LruSound, e
-----------------------------------------------------------------------------

\* Erasing keys from the stores and from the deadlines, whatever else is kept in
\* the LRU list, is what del(), the sweep and an emptied list do.
LEMMA ForgetSound ==
    ASSUME NEW d, Sound(d), NEW K \in SUBSET Key
    PROVE  Sound([d EXCEPT !.string_store = Erase(@, K),
                           !.list_store   = Erase(@, K),
                           !.expiry       = Erase(@, K)])
<1> DEFINE e == [d EXCEPT !.string_store = Erase(@, K),
                          !.list_store   = Erase(@, K),
                          !.expiry       = Erase(@, K)]
<1>1. d \in Database
  BY DEF Sound, LruSound
<1>2. /\ e.string_store = Erase(d.string_store, K)
      /\ e.list_store = Erase(d.list_store, K)
      /\ e.expiry = Erase(d.expiry, K)
      /\ e.lru_order = d.lru_order
      /\ e.lru_position = d.lru_position
  BY <1>1 DEF Database
<1>3. e \in Database
  BY <1>1 DEF Database, Erase
<1> HIDE DEF e
<1>4. DistinctCells(e) /\ Linked(e, {})
  <2>1. DistinctCells(d) /\ Linked(d, {})
    BY Zenon DEF Sound, LruSound
  <2> QED BY <1>2, <2>1, SameLru, Zenon
<1>5. Tracked(e)
  BY <1>2 DEF Sound, Tracked, Erase, Has
<1>6. StoresSound(e)
  BY <1>2, AbsentIsNoList DEF Sound, StoresSound, Erase, Has, Present
<1> QED BY <1>3, <1>4, <1>5, <1>6 DEF Sound, LruSound, e

\* is_expired(): the key goes from every map and its node from the list.
LEMMA LazyEvictSound ==
    ASSUME NEW d, Sound(d), NEW k \in Key, NEW now \in Int
    PROVE  /\ Sound(LazyEvict(d, k, now))
           /\ ~Elapsed(LazyEvict(d, k, now), k, now)
           /\ Held(LazyEvict(d, k, now).string_store) \subseteq Held(d.string_store)
<1>1. CASE ~Elapsed(d, k, now)
  BY <1>1 DEF LazyEvict
<1>2. CASE Elapsed(d, k, now)
  <2> DEFINE lru == IF Has(d.lru_position, k)
                    THEN [Unlink(d, k) EXCEPT !.lru_position = Erase(@, {k})]
                    ELSE d
             e == LazyEvict(d, k, now)
  <2>1. /\ lru \in Database
        /\ lru.string_store = d.string_store
        /\ lru.list_store = d.list_store
        /\ lru.expiry = d.expiry
        /\ lru.lru_position = Erase(d.lru_position, {k})
        /\ DistinctCells(lru)
        /\ Linked(lru, {})
    <3>1. CASE Has(d.lru_position, k)
      <4> DEFINE u == Unlink(d, k)
      <4>1. u \in Database /\ DistinctCells(u) /\ Linked(u, {k})
        BY <3>1, UnlinkSound DEF Sound
      <4>2. /\ u.string_store = d.string_store
            /\ u.list_store = d.list_store
            /\ u.expiry = d.expiry
            /\ u.lru_position = d.lru_position
        BY DEF Unlink, Sound, LruSound, Database
      <4> HIDE DEF u
      <4>3. lru = [u EXCEPT !.lru_position = Erase(u.lru_position, {k})]
        BY <3>1 DEF u
      <4> HIDE DEF lru
      <4>4. /\ lru \in Database
            /\ lru.string_store = u.string_store
            /\ lru.list_store = u.list_store
            /\ lru.expiry = u.expiry
            /\ lru.lru_order = u.lru_order
            /\ lru.lru_position = Erase(u.lru_position, {k})
        BY <4>1, <4>3 DEF Database, Erase
      <4>5. DistinctCells(lru)
        BY <4>1, <4>4 DEF DistinctCells
      <4>6. Linked(lru, {})
        BY <4>1, <4>4 DEF Linked, Points, Erase, Has
      <4> QED BY <4>2, <4>4, <4>5, <4>6
    <3>2. CASE ~Has(d.lru_position, k)
      <4>1. d.lru_position = Erase(d.lru_position, {k})
        BY <3>2 DEF Sound, LruSound, Database, Erase, Has
      <4> QED BY <3>2, <4>1 DEF Sound, LruSound
    <3> QED BY <3>1, <3>2
  <2>2. e = [lru EXCEPT !.string_store = Erase(@, {k}),
                        !.list_store   = Erase(@, {k}),
                        !.expiry       = Erase(@, {k})]
    BY <1>2 DEF LazyEvict
  <2> HIDE DEF lru, e
  <2>3. /\ e.string_store = Erase(d.string_store, {k})
        /\ e.list_store = Erase(d.list_store, {k})
        /\ e.expiry = Erase(d.expiry, {k})
        /\ e.lru_order = lru.lru_order
        /\ e.lru_position = Erase(d.lru_position, {k})
    BY <2>1, <2>2 DEF Database
  <2>4. e \in Database
    BY <2>1, <2>2 DEF Database, Erase
  <2>5. DistinctCells(e) /\ Linked(e, {})
    <3>1. e.lru_order = lru.lru_order /\ e.lru_position = lru.lru_position
      BY <2>1, <2>3
    <3> QED BY <2>1, <3>1, SameLru, Zenon
  <2>6. Tracked(e)
    BY <2>3 DEF Sound, Tracked, Erase, Has
  <2>7. StoresSound(e)
    BY <2>3, AbsentIsNoList DEF Sound, StoresSound, Erase, Has, Present
  <2>8. ~Elapsed(e, k, now)
    BY <2>3 DEF Elapsed, Erase, Has
  <2>9. Held(e.string_store) \subseteq Held(d.string_store)
    BY <2>3 DEF Held, Erase, Has
  <2> QED BY <2>4, <2>5, <2>6, <2>7, <2>8, <2>9 DEF Sound, LruSound, e
<1> QED BY <1>1, <1>2
\* evict_expired() leaves the LRU list alone, and with it every iterator.
LEMMA EvictExpiredSound ==
    ASSUME NEW d, Sound(d), NEW now \in Int
    PROVE  Sound(EvictExpired(d, now))
BY ForgetSound DEF EvictExpired

\* del() keeps the database sound, the node it leaves in lru_order_ included.
LEMMA DelSound ==
    ASSUME NEW d, Sound(d), NEW k \in Key
    PROVE  Sound(Del(d, k))
BY ForgetSound DEF Del

\* get() on a string: its node moves to the front.  The freed cell makes room for
\* the new node, so nothing is asked of the heap.
LEMMA TouchSound ==
    ASSUME NEW d, Sound(d), NEW k \in Key
    PROVE  Sound(Touch(d, k))
<1>1. CASE ~Has(d.lru_position, k)
  BY <1>1 DEF Touch
<1>2. CASE Has(d.lru_position, k)
  <2> DEFINE u == Unlink(d, k)
             t == Touch(d, k)
  <2>1. u \in Database /\ DistinctCells(u) /\ Linked(u, {k}) /\ FreeCell(u, d.lru_position[k])
    BY <1>2, UnlinkSound DEF Sound
  <2>2. d.lru_position[k] \in Cell
    BY <1>2 DEF Sound, LruSound, Database, Has
  <2>3. /\ u.string_store = d.string_store
        /\ u.list_store = d.list_store
        /\ u.expiry = d.expiry
        /\ u.lru_position = d.lru_position
    BY DEF Unlink, Sound, LruSound, Database
  <2>4. t = PushFront(u, k)
    BY <1>2 DEF Touch
  <2> HIDE DEF u, t
  <2>5. /\ LruSound(t)
        /\ \A j \in Key : Has(t.lru_position, j) <=> j = k \/ Has(u.lru_position, j)
        /\ t.string_store = u.string_store
        /\ t.list_store = u.list_store
        /\ t.expiry = u.expiry
    BY <2>1, <2>2, <2>4, PushFrontSound
  <2>6. Tracked(t)
    BY <2>3, <2>5 DEF Sound, Tracked
  <2>7. StoresSound(t)
    BY <2>3, <2>5 DEF Sound, StoresSound, Present
  <2> QED BY <2>5, <2>6, <2>7 DEF Sound, t
<1> QED BY <1>1, <1>2

\* The least n that leaves room exists when any does: the naturals are well founded.
LEMMA MakeRoomLeast ==
    ASSUME NEW d, RoomAfter(d) # {}
    PROVE  \E n \in RoomAfter(d) : /\ n \in 0..Len(d.lru_order)
                                  /\ MakeRoom(d) = EvictLast(d, n)
                                  /\ \A m \in RoomAfter(d) : n <= m
<1> DEFINE least == CHOOSE n \in RoomAfter(d) : \A m \in RoomAfter(d) : n <= m
<1>1. RoomAfter(d) \subseteq Nat
  BY DEF RoomAfter
<1>2. \E n \in RoomAfter(d) : \A m \in RoomAfter(d) : ~(<<m, n>> \in OpToRel(<, Nat))
  BY <1>1, WFMin, NatLessThanWellFounded
<1>3. \E n \in RoomAfter(d) : \A m \in RoomAfter(d) : n <= m
  <2>1. ASSUME NEW m \in Nat, NEW n \in Nat, m < n
        PROVE  <<m, n>> \in OpToRel(<, Nat)
    <3>1. <<m, n>> \in Nat \X Nat /\ <<m, n>>[1] = m /\ <<m, n>>[2] = n
      OBVIOUS
    <3>2. <<m, n>>[1] < <<m, n>>[2]
      BY <2>1, <3>1
    <3> QED BY <3>1, <3>2, Zenon DEF OpToRel
  <2>2. PICK n \in RoomAfter(d) : \A m \in RoomAfter(d) : ~(<<m, n>> \in OpToRel(<, Nat))
    BY <1>2
  <2>3. \A m \in RoomAfter(d) : ~(m < n)
    BY <1>1, <2>1, <2>2
  <2> QED BY <1>1, <2>3
<1>4. least \in RoomAfter(d) /\ \A m \in RoomAfter(d) : least <= m
  BY <1>3
<1>5. MakeRoom(d) = EvictLast(d, least)
  BY DEF MakeRoom
<1> HIDE DEF least
<1>6. least \in 0..Len(d.lru_order)
  BY <1>4 DEF RoomAfter
<1> QED BY <1>4, <1>5, <1>6

\* And what it leaves of a sound database is sound.
LEMMA MakeRoomSound ==
    ASSUME NEW d, Sound(d), RoomAfter(d) # {}
    PROVE  /\ Sound(MakeRoom(d))
           /\ Size(MakeRoom(d)) < MaxCapacity
           /\ \E n \in 0..Len(d.lru_order) : MakeRoom(d) = EvictLast(d, n)
           /\ \E n \in RoomAfter(d) : /\ MakeRoom(d) = EvictLast(d, n)
                                     /\ \A m \in RoomAfter(d) : n <= m
<1>1. PICK n \in RoomAfter(d) : /\ n \in 0..Len(d.lru_order)
                               /\ MakeRoom(d) = EvictLast(d, n)
                               /\ \A m \in RoomAfter(d) : n <= m
  BY MakeRoomLeast
<1>2. Size(EvictLast(d, n)) < MaxCapacity
  BY DEF RoomAfter
<1> QED BY <1>1, <1>2, EvictLastSound
-----------------------------------------------------------------------------

\* An operation that creates no string keeps the strings within the capacity.
LEMMA FitsMonotone ==
    ASSUME NEW d, NEW e, Fits(d), Held(e.string_store) \subseteq Held(d.string_store)
    PROVE  Fits(e)
<1>1. IsFiniteSet(Held(d.string_store))
  BY KeyAssumption, FS_Subset DEF Held
<1>2. /\ Cardinality(Held(e.string_store)) <= Cardinality(Held(d.string_store))
      /\ Cardinality(Held(d.string_store)) \in Nat
      /\ Cardinality(Held(e.string_store)) \in Nat
  BY <1>1, FS_Subset, FS_CardinalityType
<1> QED BY <1>2, CapacityAssumption DEF Fits

\* So the sweep, which only erases, keeps the strings within capacity.
LEMMA EvictExpiredFits ==
    ASSUME NEW d, Sound(d), Fits(d), NEW now \in Int
    PROVE  Fits(EvictExpired(d, now))
<1>1. d.string_store \in [Key -> Value \cup {Absent}] /\ d \in Database
  BY DEF Sound, LruSound, Database
<1>2. EvictExpired(d, now).string_store
        = Erase(d.string_store, {k \in Key : Elapsed(d, k, now)})
  BY <1>1 DEF EvictExpired, Database
<1>3. Held(EvictExpired(d, now).string_store) \subseteq Held(d.string_store)
  BY <1>2 DEF Held, Has, Erase
<1> QED BY <1>3, FitsMonotone

\* What set() does once there is room: link the key in front and write its value.
LEMMA WriteSound ==
    ASSUME NEW m, NEW k \in Key, NEW v \in Value,
           m \in Database, DistinctCells(m), Linked(m, {k}), Tracked(m), StoresSound(m),
           ~Has(m.list_store, k), ~Has(m.expiry, k),
           \E c \in Cell : FreeCell(m, c)
    PROVE  LET w == [PushFront(m, k) EXCEPT !.string_store = [@ EXCEPT ![k] = v]]
           IN  /\ Sound(w)
               /\ Held(w.string_store) = Held(m.string_store) \cup {k}
<1> DEFINE f == PushFront(m, k)
           w == [PushFront(m, k) EXCEPT !.string_store = [@ EXCEPT ![k] = v]]
<1>1. /\ LruSound(f)
      /\ \A j \in Key : Has(f.lru_position, j) <=> j = k \/ Has(m.lru_position, j)
      /\ f.string_store = m.string_store
      /\ f.list_store = m.list_store
      /\ f.expiry = m.expiry
  BY PushFrontSound
<1> HIDE DEF f
<1>2. w = [f EXCEPT !.string_store = [f.string_store EXCEPT ![k] = v]]
  BY DEF f
<1> HIDE DEF w
<1>3. /\ w \in Database
      /\ w.string_store = [m.string_store EXCEPT ![k] = v]
      /\ w.list_store = m.list_store
      /\ w.expiry = m.expiry
      /\ w.lru_order = f.lru_order
      /\ w.lru_position = f.lru_position
  BY <1>1, <1>2 DEF LruSound, Database
<1>4. DistinctCells(w)
  BY <1>1, <1>3 DEF LruSound, DistinctCells
<1>5. Linked(w, {})
  BY <1>1, <1>3 DEF LruSound, Linked, Points
<1>6. m.string_store \in [Key -> Value \cup {Absent}]
  BY DEF Database
<1>7. \A j \in Key : Has(w.string_store, j) <=> j = k \/ Has(m.string_store, j)
  BY <1>3, <1>6, AbsentAssumption DEF Has
<1>8. Tracked(w)
  BY <1>1, <1>3, <1>7 DEF Tracked
<1>9. StoresSound(w)
  BY <1>3, <1>7 DEF StoresSound, Present
<1>10. Held(w.string_store) = Held(m.string_store) \cup {k}
  BY <1>7 DEF Held
<1> QED BY <1>3, <1>4, <1>5, <1>8, <1>9, <1>10 DEF Sound, LruSound, w

\* set() clears the key's list and deadline before anything else.
LEMMA OverwriteSound ==
    ASSUME NEW d, Sound(d), NEW k \in Key
    PROVE  LET o == Overwrite(d, k)
           IN  /\ Sound(o)
               /\ o.string_store = d.string_store
               /\ o.lru_order = d.lru_order
               /\ o.lru_position = d.lru_position
               /\ ~Has(o.list_store, k) /\ ~Has(o.expiry, k)
<1> DEFINE o == Overwrite(d, k)
<1>1. d \in Database
  BY DEF Sound, LruSound
<1>2. /\ o \in Database
      /\ o.string_store = d.string_store
      /\ o.list_store = Erase(d.list_store, {k})
      /\ o.expiry = Erase(d.expiry, {k})
      /\ o.lru_order = d.lru_order
      /\ o.lru_position = d.lru_position
  BY <1>1 DEF Overwrite, Database, Erase
<1> HIDE DEF o
<1>3. DistinctCells(o)
  BY <1>2 DEF Sound, LruSound, DistinctCells
<1>4. Linked(o, {})
  BY <1>2 DEF Sound, LruSound, Linked, Points
<1>5. Tracked(o)
  BY <1>2 DEF Sound, Tracked
<1>6. StoresSound(o)
  BY <1>2, AbsentIsNoList DEF Sound, StoresSound, Present, Erase, Has
<1>7. ~Has(o.list_store, k) /\ ~Has(o.expiry, k)
  BY <1>2 DEF Erase, Has
<1> QED BY <1>2, <1>3, <1>4, <1>5, <1>6, <1>7 DEF Sound, LruSound, o
\* Evicting n nodes keeps free cells free and absent keys absent, and leaves no
\* more strings than there were.
LEMMA EvictLastShrinks ==
    ASSUME NEW d \in Database, NEW n \in 0..Len(d.lru_order)
    PROVE  LET e == EvictLast(d, n)
           IN  /\ \A c : FreeCell(d, c) => FreeCell(e, c)
               /\ \A j \in Key : ~Has(d.list_store, j) => ~Has(e.list_store, j)
               /\ \A j \in Key : ~Has(d.expiry, j) => ~Has(e.expiry, j)
               /\ Held(e.string_store) \subseteq Held(d.string_store)
<1> DEFINE e == EvictLast(d, n)
           len == Len(d.lru_order)
<1>1. d.lru_order \in Seq(Node) /\ len \in Nat
  BY DEF Database
<1>2. /\ Len(e.lru_order) = len - n
      /\ \A i \in 1..(len - n) : e.lru_order[i] = d.lru_order[i]
  <2>1. e.lru_order = SubSeq(d.lru_order, 1, len - n)
    BY DEF EvictLast
  <2> QED BY <1>1, <2>1, SubSeqProperties
<1>3. \A c : FreeCell(d, c) => FreeCell(e, c)
  <2> HIDE DEF e
  <2> QED BY <1>1, <1>2 DEF FreeCell
<1>4. /\ \A j \in Key : ~Has(d.list_store, j) => ~Has(e.list_store, j)
      /\ \A j \in Key : ~Has(d.expiry, j) => ~Has(e.expiry, j)
      /\ Held(e.string_store) \subseteq Held(d.string_store)
  BY DEF EvictLast, Erase, Has, Held
<1> QED BY <1>3, <1>4

\* set() as a whole: with a cell in the heap and room to be made, the database
\* stays sound and its strings stay within the capacity.
LEMMA SetSound ==
    ASSUME NEW d, Sound(d), Fits(d), NEW k \in Key, NEW v \in Value,
           \E c \in Cell : FreeCell(d, c), SetHasRoom(d, k)
    PROVE  Sound(Set(d, k, v)) /\ Fits(Set(d, k, v))
<1> DEFINE old  == Overwrite(d, k)
           room == IF Has(old.string_store, k) THEN Unlink(old, k) ELSE MakeRoom(old)
           new  == Set(d, k, v)
<1>1. /\ Sound(old)
      /\ old.string_store = d.string_store
      /\ old.lru_order = d.lru_order
      /\ old.lru_position = d.lru_position
      /\ ~Has(old.list_store, k) /\ ~Has(old.expiry, k)
  BY OverwriteSound
<1>2. new = [PushFront(room, k) EXCEPT !.string_store = [@ EXCEPT ![k] = v]]
  BY DEF Set
<1>3. \E c \in Cell : FreeCell(old, c)
  BY <1>1 DEF FreeCell
<1>4. Fits(old)
  BY <1>1 DEF Fits
<1>5. CASE Has(d.string_store, k)
  <2> DEFINE u == Unlink(old, k)
  <2>1. Has(old.lru_position, k)
    BY <1>1, <1>5 DEF Sound, Tracked
  <2>2. u \in Database /\ DistinctCells(u) /\ Linked(u, {k}) /\ FreeCell(u, old.lru_position[k])
    BY <1>1, <2>1, UnlinkSound DEF Sound
  <2>3. old.lru_position[k] \in Cell
    BY <1>1, <2>1 DEF Sound, LruSound, Database, Has
  <2>4. /\ u.string_store = old.string_store
        /\ u.list_store = old.list_store
        /\ u.expiry = old.expiry
        /\ u.lru_position = old.lru_position
    BY <1>1 DEF Unlink, Sound, LruSound, Database
  <2>5. room = u
    BY <1>1, <1>5
  <2> HIDE DEF u, old, room, new
  <2>6. Tracked(u) /\ StoresSound(u)
    BY <1>1, <2>4 DEF Sound, Tracked, StoresSound, Present
  <2>7. /\ Sound(new)
        /\ Held(new.string_store) = Held(u.string_store) \cup {k}
    BY <1>1, <1>2, <2>2, <2>3, <2>4, <2>5, <2>6, WriteSound
  <2>8. Held(new.string_store) \subseteq Held(d.string_store)
    BY <1>1, <1>5, <2>4, <2>7 DEF Held
  <2> QED BY <2>7, <2>8, FitsMonotone DEF new
<1>6. CASE ~Has(d.string_store, k)
  <2> DEFINE m == MakeRoom(old)
  <2>1. RoomAfter(old) # {}
    BY <1>6 DEF SetHasRoom
  <2>2. /\ Sound(m) /\ Size(m) < MaxCapacity
        /\ \E n \in 0..Len(old.lru_order) : m = EvictLast(old, n)
    BY <1>1, <2>1, MakeRoomSound
  <2>3. room = m
    BY <1>1, <1>6
  <2> HIDE DEF m, old, room, new
  <2>4. /\ \E c \in Cell : FreeCell(m, c)
        /\ ~Has(m.list_store, k) /\ ~Has(m.expiry, k)
        /\ Held(m.string_store) \subseteq Held(old.string_store)
    BY <1>1, <1>3, <2>2, EvictLastShrinks DEF Sound, LruSound
  <2>5. m \in Database /\ DistinctCells(m) /\ Linked(m, {k}) /\ Tracked(m) /\ StoresSound(m)
    BY <2>2 DEF Sound, LruSound, Linked
  <2>6. /\ Sound(new)
        /\ Held(new.string_store) = Held(m.string_store) \cup {k}
    BY <1>2, <2>3, <2>4, <2>5, WriteSound
  <2>7. Fits(new)
    <3>1. IsFiniteSet(Held(m.string_store)) /\ IsFiniteSet(Held(m.list_store))
      BY KeyAssumption, FS_Subset DEF Held
    <3>2. /\ Cardinality(Held(m.string_store)) \in Nat
          /\ Cardinality(Held(m.list_store)) \in Nat
          /\ Cardinality(Held(m.string_store) \cup {k})
                \in {Cardinality(Held(m.string_store)), Cardinality(Held(m.string_store)) + 1}
      BY <3>1, FS_CardinalityType, FS_AddElement
    <3> QED BY <2>2, <2>6, <3>2, CapacityAssumption DEF Size, Fits
  <2> QED BY <2>6, <2>7 DEF new
<1> QED BY <1>5, <1>6

-----------------------------------------------------------------------------

\* Writing a list that is not empty to a key that holds no string.
LEMMA WithListSound ==
    ASSUME NEW d, Sound(d), NEW k \in Key, NEW s \in Seq(Value), s # <<>>,
           ~Has(d.string_store, k)
    PROVE  Sound(WithList(d, k, s)) /\ WithList(d, k, s).string_store = d.string_store
<1> DEFINE w == WithList(d, k, s)
<1>1. d \in Database
  BY DEF Sound, LruSound
<1>2. /\ w \in Database
      /\ w.string_store = d.string_store
      /\ w.list_store = [d.list_store EXCEPT ![k] = s]
      /\ w.expiry = d.expiry
      /\ w.lru_order = d.lru_order
      /\ w.lru_position = d.lru_position
  BY <1>1 DEF WithList, Database
<1> HIDE DEF w
<1>3. DistinctCells(w)
  BY <1>2, SameLru, Zenon DEF Sound, LruSound
<1>4. Linked(w, {})
  BY <1>2, SameLru, Zenon DEF Sound, LruSound
<1>5. Tracked(w)
  BY <1>2 DEF Sound, Tracked
<1>6. d.list_store \in [Key -> Seq(Value) \cup {Absent}]
  BY <1>1 DEF Database
<1>7. StoresSound(w)
  BY <1>2, <1>6, AbsentAssumption DEF Sound, StoresSound, Present, Has
<1> QED BY <1>2, <1>3, <1>4, <1>5, <1>7 DEF Sound, LruSound, w

\* What is left after a pop: a shorter list, or neither list nor deadline.
LEMMA PopToSound ==
    ASSUME NEW d, Sound(d), NEW k \in Key, NEW rest \in Seq(Value), ~Has(d.string_store, k)
    PROVE  Sound(PopTo(d, k, rest)) /\ PopTo(d, k, rest).string_store = d.string_store
<1>1. CASE rest = <<>>
  BY <1>1, OverwriteSound DEF PopTo, Overwrite
<1>2. CASE rest # <<>>
  BY <1>2, WithListSound DEF PopTo
<1> QED BY <1>1, <1>2

\* A deadline is given only to a key that is present.
LEMMA ExpireAtSound ==
    ASSUME NEW d, Sound(d), NEW k \in Key, NEW deadline \in Int
    PROVE  /\ Sound(ExpireAt(d, k, deadline))
           /\ ExpireAt(d, k, deadline).string_store = d.string_store
<1>1. CASE ~Present(d, k)
  BY <1>1 DEF ExpireAt
<1>2. CASE Present(d, k)
  <2> DEFINE w == ExpireAt(d, k, deadline)
  <2>1. d \in Database
    BY DEF Sound, LruSound
  <2>2. /\ w \in Database
        /\ w.string_store = d.string_store
        /\ w.list_store = d.list_store
        /\ w.expiry = [d.expiry EXCEPT ![k] = deadline]
        /\ w.lru_order = d.lru_order
        /\ w.lru_position = d.lru_position
    BY <1>2, <2>1 DEF ExpireAt, Database
  <2> HIDE DEF w
  <2>3. DistinctCells(w)
    BY <2>2, SameLru, Zenon DEF Sound, LruSound
  <2>4. Linked(w, {})
    BY <2>2, SameLru, Zenon DEF Sound, LruSound
  <2>5. Tracked(w)
    BY <2>2 DEF Sound, Tracked
  <2>6. d.expiry \in [Key -> Int \cup {Absent}]
    BY <2>1 DEF Database
  <2>7. StoresSound(w)
    BY <1>2, <2>2, <2>6 DEF Sound, StoresSound, Present, Has
  <2> QED BY <2>2, <2>3, <2>4, <2>5, <2>7 DEF Sound, LruSound, w
<1> QED BY <1>1, <1>2

\* The list under a key; one that is not empty belongs to a key without a string.
LEMMA ListAtTyped ==
    ASSUME NEW d, Sound(d), NEW k \in Key
    PROVE  /\ ListAt(d, k) \in Seq(Value)
           /\ ListAt(d, k) # <<>> => ListAt(d, k) = d.list_store[k] /\ ~Has(d.string_store, k)
<1>1. d.list_store \in [Key -> Seq(Value) \cup {Absent}]
  BY DEF Sound, LruSound, Database
<1>2. <<>> \in Seq(Value)
  BY EmptySeq
<1> QED BY <1>1, <1>2 DEF ListAt, Has, Sound, StoresSound

\* The pushes, on a key that holds no string (their callers checked the type).
LEMMA PushSound ==
    ASSUME NEW d, Sound(d), NEW k \in Key, NEW v \in Value, ~Has(d.string_store, k)
    PROVE  /\ Sound(LPush(d, k, v)) /\ LPush(d, k, v).string_store = d.string_store
           /\ Sound(RPush(d, k, v)) /\ RPush(d, k, v).string_store = d.string_store
<1>1. ListAt(d, k) \in Seq(Value)
  BY ListAtTyped
<1>2. Cons(v, ListAt(d, k)) \in Seq(Value) /\ Cons(v, ListAt(d, k)) # <<>>
  <2>1. <<v>> \in Seq(Value) /\ Len(<<v>>) = 1
    OBVIOUS
  <2>2. /\ <<v>> \o ListAt(d, k) \in Seq(Value)
        /\ Len(<<v>> \o ListAt(d, k)) = 1 + Len(ListAt(d, k))
    BY <1>1, <2>1, ConcatProperties
  <2>3. Len(ListAt(d, k)) \in Nat /\ Len(<<>>) = 0
    BY <1>1, LenProperties, EmptySeq
  <2> QED BY <2>2, <2>3 DEF Cons
<1>3. Append(ListAt(d, k), v) \in Seq(Value) /\ Append(ListAt(d, k), v) # <<>>
  BY <1>1, AppendProperties
<1> QED BY <1>2, <1>3, WithListSound DEF LPush, RPush

\* The pops check the deadline themselves, and need no check of the type.
LEMMA PopSound ==
    ASSUME NEW d, Sound(d), NEW k \in Key, NEW now \in Int
    PROVE  /\ Sound(LPop(d, k, now))
           /\ Held(LPop(d, k, now).string_store) \subseteq Held(d.string_store)
           /\ Sound(RPop(d, k, now))
           /\ Held(RPop(d, k, now).string_store) \subseteq Held(d.string_store)
<1> DEFINE e == LazyEvict(d, k, now)
<1>1. Sound(e) /\ Held(e.string_store) \subseteq Held(d.string_store)
  BY LazyEvictSound
<1> HIDE DEF e
<1>2. CASE ListAt(e, k) = <<>>
  BY <1>1, <1>2 DEF LPop, RPop, e
<1>3. CASE ListAt(e, k) # <<>>
  <2>1. /\ e.list_store[k] \in Seq(Value) /\ e.list_store[k] # <<>>
        /\ ~Has(e.string_store, k)
    BY <1>1, <1>3, ListAtTyped
  <2>2. Tail(e.list_store[k]) \in Seq(Value)
    BY <2>1, HeadTailProperties
  <2>3. Front(e.list_store[k]) \in Seq(Value)
    <3> DEFINE s == e.list_store[k]
    <3>1. s \in Seq(Value) /\ Len(s) \in Nat
      BY <2>1, LenProperties
    <3>2. Front(s) = SubSeq(s, 1, Len(s) - 1)
      BY DEF Front
    <3> HIDE DEF s
    <3>3. \A i \in 1..(Len(s) - 1) : i \in 1..Len(s)
      BY <3>1
    <3>4. \A i \in 1..(Len(s) - 1) : s[i] \in Value
      BY <3>1, <3>3, ElementOfSeq
    <3>5. SubSeq(s, 1, Len(s) - 1) \in Seq(Value)
      BY <3>1, <3>3, SubSeqProperties
    <3> QED BY <3>2, <3>5 DEF s
  <2>4. /\ LPop(d, k, now) = PopTo(e, k, Tail(e.list_store[k]))
        /\ RPop(d, k, now) = PopTo(e, k, Front(e.list_store[k]))
    BY <1>3 DEF LPop, RPop, e
  <2>5. Sound(LPop(d, k, now)) /\ LPop(d, k, now).string_store = e.string_store
    BY <1>1, <2>1, <2>2, <2>4, PopToSound, Zenon
  <2>6. Sound(RPop(d, k, now)) /\ RPop(d, k, now).string_store = e.string_store
    BY <1>1, <2>1, <2>3, <2>4, PopToSound, Zenon
  <2> QED BY <1>1, <2>5, <2>6
<1> QED BY <1>2, <1>3

\* The empty database is sound.
LEMMA EmptySound == Sound(EmptyDb) /\ Fits(EmptyDb)
<1>1. EmptyDb \in Database
  BY EmptySeq DEF EmptyDb, EmptyMap, Database
<1>2. /\ \A k \in Key : /\ ~Has(EmptyDb.string_store, k)
                        /\ ~Has(EmptyDb.list_store, k)
                        /\ ~Has(EmptyDb.expiry, k)
                        /\ ~Has(EmptyDb.lru_position, k)
      /\ Len(EmptyDb.lru_order) = 0
  BY EmptySeq DEF EmptyDb, EmptyMap, Has
<1>3. Held(EmptyDb.string_store) = {}
  BY <1>2 DEF Held
<1>4. Fits(EmptyDb)
  BY <1>3, FS_EmptySet, CapacityAssumption DEF Fits
<1>5. LruSound(EmptyDb)
  BY <1>1, <1>2 DEF LruSound, DistinctCells, Linked
<1>6. Tracked(EmptyDb) /\ StoresSound(EmptyDb)
  BY <1>2, AbsentIsNoList DEF Tracked, StoresSound, Has
<1> QED BY <1>4, <1>5, <1>6 DEF Sound

-----------------------------------------------------------------------------
(* The handlers keep the database sound. *)

\* The result of a handler that keeps the database sound and answers properly.
GoodResult(r) == Sound(r.db) /\ Fits(r.db) /\ r.reply \in Reply

\* A sound database is well typed.
LEMMA SoundDatabase == ASSUME NEW d, Sound(d) PROVE d \in Database
BY DEF Sound, LruSound

\* A sound database and a proper reply make a good result.
LEMMA ResultGood ==
    ASSUME NEW d, Sound(d), Fits(d), NEW r \in Reply
    PROVE  GoodResult(Result(d, r))
BY DEF GoodResult, Result

\* Every reply a handler serialises is one of the RESP kinds.
LEMMA RepliesTyped ==
    /\ Ok \in Reply /\ Pong \in Reply /\ Err \in Reply /\ WrongType \in Reply
    /\ Nil \in Reply /\ Aborted \in Reply
    /\ \A n \in Int : Integer(n) \in Reply
    /\ \A v \in Value : Bulk(v) \in Reply
BY DEF Ok, Pong, Err, WrongType, Nil, Aborted, Integer, Bulk, Reply

\* The look at the deadline with which every handler but SET and DEL begins.
LEMMA LazyEvictGood ==
    ASSUME NEW d, Sound(d), Fits(d), NEW k \in Key, NEW t \in Int
    PROVE  Sound(LazyEvict(d, k, t)) /\ Fits(LazyEvict(d, k, t))
BY LazyEvictSound, FitsMonotone

\* The SET handler, with a cell in the heap; without room it answers with its death.
LEMMA DoSetGood ==
    ASSUME NEW d, Sound(d), Fits(d), NEW k \in Key, NEW v \in Value,
           \E c \in Cell : FreeCell(d, c)
    PROVE  GoodResult(DoSet(d, k, v))
<1>1. CASE SetHasRoom(d, k)
  BY <1>1, SetSound, ResultGood, RepliesTyped DEF DoSet
<1>2. CASE ~SetHasRoom(d, k)
  BY <1>2, ResultGood, RepliesTyped DEF DoSet
<1> QED BY <1>1, <1>2

\* The GET handler, on a list, a string and a key without either.
LEMMA DoGetGood ==
    ASSUME NEW d, Sound(d), Fits(d), NEW k \in Key, NEW t \in Int
    PROVE  GoodResult(DoGet(d, k, t))
<1> DEFINE e == LazyEvict(d, k, t)
<1>1. Sound(e) /\ Fits(e)
  BY LazyEvictGood
<1>2. CASE IsList(e, k)
  <2>1. DoGet(d, k, t) = Result(e, WrongType)
    BY <1>2 DEF DoGet, IsList, IsString
  <2> QED BY <1>1, <2>1, ResultGood, RepliesTyped
<1>3. CASE IsString(e, k)
  <2>1. Sound(Touch(e, k))
    BY <1>1, TouchSound
  <2>2. Touch(e, k).string_store = e.string_store
    BY DEF Touch, PushFront, Unlink
  <2>3. Fits(Touch(e, k))
    BY <1>1, <2>2 DEF Fits
  <2>4. e.string_store[k] \in Value
    BY <1>1, <1>3, SoundDatabase DEF Database, IsString, Has
  <2>5. DoGet(d, k, t) = Result(Touch(e, k), Bulk(e.string_store[k]))
    BY <1>3 DEF DoGet, IsList, IsString
  <2> QED BY <2>1, <2>3, <2>4, <2>5, ResultGood, RepliesTyped
<1>4. CASE ~IsList(e, k) /\ ~IsString(e, k)
  <2>1. DoGet(d, k, t) = Result(e, Nil)
    BY <1>4 DEF DoGet
  <2> QED BY <1>1, <2>1, ResultGood, RepliesTyped
<1> QED BY <1>2, <1>3, <1>4

\* The DEL handler.
LEMMA DoDelGood ==
    ASSUME NEW d, Sound(d), Fits(d), NEW k \in Key
    PROVE  GoodResult(DoDel(d, k))
<1>1. Held(Del(d, k).string_store) \subseteq Held(d.string_store)
  <2>1. Del(d, k).string_store = Erase(d.string_store, {k})
    BY SoundDatabase DEF Del, Database
  <2> QED BY <2>1 DEF Held, Erase, Has
<1>2. Sound(Del(d, k)) /\ Fits(Del(d, k))
  BY <1>1, DelSound, FitsMonotone
<1> QED BY <1>2, ResultGood, RepliesTyped DEF DoDel

\* The EXISTS handler.
LEMMA DoExistsGood ==
    ASSUME NEW d, Sound(d), Fits(d), NEW k \in Key, NEW t \in Int
    PROVE  GoodResult(DoExists(d, k, t))
BY LazyEvictGood, ResultGood, RepliesTyped DEF DoExists

\* int64_t arithmetic yields integers.
LEMMA WrapTyped == \A n \in Int : Wrap(n) \in Int
BY UnitsAssumption DEF Wrap

\* The EXPIRE handler, whatever its argument.
LEMMA DoExpireGood ==
    ASSUME NEW d, Sound(d), Fits(d), NEW k \in Key, NEW s, NEW t \in Int
    PROVE  GoodResult(DoExpire(d, k, s, t))
<1> DEFINE e == LazyEvict(d, k, t)
           deadline == Wrap(t + Wrap(s * MsPerSecond))
           answer == Integer(IF Present(e, k) THEN 1 ELSE 0)
<1>1. CASE s \notin Int \/ s < 0
  BY <1>1, ResultGood, RepliesTyped DEF DoExpire
<1>2. CASE s \in Int /\ ~(s < 0)
  <2>1. deadline \in Int
    <3>1. s * MsPerSecond \in Int
      BY <1>2, UnitsAssumption
    <3>2. t + Wrap(s * MsPerSecond) \in Int
      BY <3>1, WrapTyped
    <3> QED BY <3>2, WrapTyped
  <2>2. answer \in Reply
    BY RepliesTyped
  <2> HIDE DEF deadline, answer
  <2>3. Sound(e) /\ Fits(e)
    BY LazyEvictGood
  <2>4. /\ Sound(ExpireAt(e, k, deadline))
        /\ ExpireAt(e, k, deadline).string_store = e.string_store
    BY <2>1, <2>3, ExpireAtSound
  <2>5. Sound(Expire(d, k, deadline, t)) /\ Fits(Expire(d, k, deadline, t))
    BY <2>3, <2>4 DEF Expire, Fits
  <2>6. DoExpire(d, k, s, t) = Result(Expire(d, k, deadline, t), answer)
    BY <1>2 DEF DoExpire, deadline, answer
  <2> QED BY <2>2, <2>5, <2>6, ResultGood
<1> QED BY <1>1, <1>2

\* The TTL handler.
LEMMA DoTtlGood ==
    ASSUME NEW d, Sound(d), Fits(d), NEW k \in Key, NEW t \in Int
    PROVE  GoodResult(DoTtl(d, k, t))
<1> DEFINE e == LazyEvict(d, k, t)
           seconds == IF ~Present(e, k) THEN -2
                      ELSE IF ~Has(e.expiry, k) THEN -1
                      ELSE (e.expiry[k] - t) \div MsPerSecond
<1>1. Sound(e) /\ Fits(e)
  BY LazyEvictGood
<1>2. Has(e.expiry, k) => (e.expiry[k] - t) \div MsPerSecond \in Int
  <2>1. Has(e.expiry, k) => e.expiry[k] \in Int
    BY <1>1, SoundDatabase DEF Database, Has
  <2> QED BY <2>1, UnitsAssumption
<1>3. Integer(seconds) \in Reply
  <2>1. CASE ~Present(e, k)
    BY <2>1, RepliesTyped
  <2>2. CASE Present(e, k) /\ ~Has(e.expiry, k)
    BY <2>2, RepliesTyped
  <2>3. CASE Present(e, k) /\ Has(e.expiry, k)
    BY <1>2, <2>3, RepliesTyped
  <2> QED BY <2>1, <2>2, <2>3
<1>4. DoTtl(d, k, t) = Result(e, Integer(seconds))
  BY DEF DoTtl
<1> QED BY <1>1, <1>3, <1>4, ResultGood

\* The LPUSH and RPUSH handlers: the type check is what lets lpush() and rpush() ignore
\* the strings.
LEMMA DoPushGood ==
    ASSUME NEW d, Sound(d), Fits(d), NEW k \in Key, NEW v \in Value, NEW t \in Int
    PROVE  GoodResult(DoLPush(d, k, v, t)) /\ GoodResult(DoRPush(d, k, v, t))
<1> DEFINE e == LazyEvict(d, k, t)
           l == LPush(e, k, v)
           r == RPush(e, k, v)
<1>1. Sound(e) /\ Fits(e)
  BY LazyEvictGood
<1>2. CASE IsString(e, k)
  BY <1>1, <1>2, ResultGood, RepliesTyped DEF DoLPush, DoRPush
<1>3. CASE ~IsString(e, k)
  <2>1. /\ Sound(l) /\ l.string_store = e.string_store
        /\ Sound(r) /\ r.string_store = e.string_store
    BY <1>1, <1>3, PushSound DEF IsString
  <2>2. Fits(l) /\ Fits(r)
    BY <1>1, <2>1 DEF Fits
  <2>3. l.list_store[k] \in Seq(Value) /\ r.list_store[k] \in Seq(Value)
    <3>1. e.list_store \in [Key -> Seq(Value) \cup {Absent}]
      BY <1>1, SoundDatabase DEF Database
    <3>2. ListAt(e, k) \in Seq(Value)
      BY <1>1, ListAtTyped
    <3>3. <<v>> \o ListAt(e, k) \in Seq(Value)
      <4>1. <<v>> \in Seq(Value)
        OBVIOUS
      <4> QED BY <3>2, <4>1, ConcatProperties
    <3>4. Append(ListAt(e, k), v) \in Seq(Value)
      BY <3>2, AppendProperties
    <3>5. /\ l.list_store = [e.list_store EXCEPT ![k] = <<v>> \o ListAt(e, k)]
          /\ r.list_store = [e.list_store EXCEPT ![k] = Append(ListAt(e, k), v)]
      BY <1>1, SoundDatabase DEF LPush, RPush, WithList, Cons, Database
    <3> QED BY <3>1, <3>3, <3>4, <3>5
  <2>4. Integer(Len(l.list_store[k])) \in Reply /\ Integer(Len(r.list_store[k])) \in Reply
    BY <2>3, LenProperties, RepliesTyped
  <2>5. /\ DoLPush(d, k, v, t) = Result(l, Integer(Len(l.list_store[k])))
        /\ DoRPush(d, k, v, t) = Result(r, Integer(Len(r.list_store[k])))
    BY <1>3 DEF DoLPush, DoRPush
  <2> QED BY <2>1, <2>2, <2>4, <2>5, ResultGood
<1> QED BY <1>2, <1>3

\* The LPOP and RPOP handlers, on an empty and on a longer list.
LEMMA DoPopGood ==
    ASSUME NEW d, Sound(d), Fits(d), NEW k \in Key, NEW t \in Int
    PROVE  GoodResult(DoLPop(d, k, t)) /\ GoodResult(DoRPop(d, k, t))
<1> DEFINE e == LazyEvict(d, k, t)
           s == ListAt(e, k)
           l == LPop(e, k, t)
           r == RPop(e, k, t)
<1>1. Sound(e) /\ Fits(e)
  BY LazyEvictGood
<1>2. s \in Seq(Value)
  BY <1>1, ListAtTyped
<1>3. Sound(l) /\ Fits(l) /\ Sound(r) /\ Fits(r)
  BY <1>1, PopSound, FitsMonotone
<1>4. CASE IsString(e, k)
  <2>1. DoLPop(d, k, t) = Result(e, WrongType) /\ DoRPop(d, k, t) = Result(e, WrongType)
    BY <1>4 DEF DoLPop, DoRPop
  <2> QED BY <1>1, <2>1, ResultGood, RepliesTyped
<1>5. CASE ~IsString(e, k) /\ s = <<>>
  <2>1. DoLPop(d, k, t) = Result(l, Nil) /\ DoRPop(d, k, t) = Result(r, Nil)
    BY <1>5 DEF DoLPop, DoRPop
  <2> QED BY <1>3, <2>1, ResultGood, RepliesTyped
<1>6. CASE ~IsString(e, k) /\ s # <<>>
  <2>1. Head(s) \in Value
    BY <1>2, <1>6, HeadTailProperties
  <2>2. Last(s) \in Value
    <3>1. Len(s) \in Nat \ {0}
      BY <1>2, <1>6, EmptySeq
    <3>2. Len(s) \in 1..Len(s)
      BY <3>1
    <3> QED BY <1>2, <3>2, ElementOfSeq DEF Last
  <2>3. DoLPop(d, k, t) = Result(l, Bulk(Head(s))) /\ DoRPop(d, k, t) = Result(r, Bulk(Last(s)))
    BY <1>6 DEF DoLPop, DoRPop
  <2> QED BY <1>3, <2>1, <2>2, <2>3, ResultGood, RepliesTyped
<1> QED BY <1>4, <1>5, <1>6

\* The LLEN handler.
LEMMA DoLLenGood ==
    ASSUME NEW d, Sound(d), Fits(d), NEW k \in Key, NEW t \in Int
    PROVE  GoodResult(DoLLen(d, k, t))
<1> DEFINE e == LazyEvict(d, k, t)
<1>1. Sound(e) /\ Fits(e)
  BY LazyEvictGood
<1>2. Integer(Len(ListAt(e, k))) \in Reply
  BY <1>1, ListAtTyped, LenProperties, RepliesTyped
<1> QED BY <1>1, <1>2, ResultGood, RepliesTyped DEF DoLLen

\* Every command, known or not and with any number of arguments, keeps the database
\* sound as long as the heap has a cell for one more node.
LEMMA ExecuteGood ==
    ASSUME NEW d, Sound(d), Fits(d), NEW cmd, WellTyped(cmd), NEW t \in Int,
           \E c \in Cell : FreeCell(d, c)
    PROVE  GoodResult(Execute(d, cmd, t))
<1> DEFINE a == cmd.args
<1>1. CASE cmd.name \notin DOMAIN Arity \/ Len(a) \notin Arity[cmd.name]
  <2>1. Execute(d, cmd, t) = Result(d, Err)
    BY <1>1 DEF Execute
  <2> QED BY <2>1, ResultGood, RepliesTyped
<1>2. CASE cmd.name \in DOMAIN Arity /\ Len(a) \in Arity[cmd.name]
  <2>1. /\ cmd.name # "PING" => a[1] \in Key
        /\ cmd.name \in {"SET", "LPUSH", "RPUSH"} => a[2] \in Value
        /\ cmd.name = "PING" /\ a # <<>> => a[1] \in Value
    BY <1>2 DEF WellTyped
  <2> HIDE DEF a
  <2>2. CASE cmd.name = "SET"
    BY <1>2, <2>1, <2>2, DoSetGood DEF Execute, a
  <2>3. CASE cmd.name = "GET"
    BY <1>2, <2>1, <2>3, DoGetGood DEF Execute, a
  <2>4. CASE cmd.name = "DEL"
    BY <1>2, <2>1, <2>4, DoDelGood DEF Execute, a
  <2>5. CASE cmd.name = "EXISTS"
    BY <1>2, <2>1, <2>5, DoExistsGood DEF Execute, a
  <2>6. CASE cmd.name = "EXPIRE"
    BY <1>2, <2>1, <2>6, DoExpireGood DEF Execute, a
  <2>7. CASE cmd.name = "TTL"
    BY <1>2, <2>1, <2>7, DoTtlGood DEF Execute, a
  <2>8. CASE cmd.name = "LPUSH"
    BY <1>2, <2>1, <2>8, DoPushGood DEF Execute, a
  <2>9. CASE cmd.name = "RPUSH"
    BY <1>2, <2>1, <2>9, DoPushGood DEF Execute, a
  <2>10. CASE cmd.name = "LPOP"
    BY <1>2, <2>1, <2>10, DoPopGood DEF Execute, a
  <2>11. CASE cmd.name = "RPOP"
    BY <1>2, <2>1, <2>11, DoPopGood DEF Execute, a
  <2>12. CASE cmd.name = "LLEN"
    BY <1>2, <2>1, <2>12, DoLLenGood DEF Execute, a
  <2>13. CASE cmd.name = "PING"
    <3>1. Execute(d, cmd, t) = Result(d, IF a = <<>> THEN Pong ELSE Bulk(a[1]))
      BY <1>2, <2>13 DEF Execute, a
    <3>2. (IF a = <<>> THEN Pong ELSE Bulk(a[1])) \in Reply
      BY <2>1, <2>13, RepliesTyped
    <3> QED BY <3>1, <3>2, ResultGood
  <2> QED BY <1>2, <2>2, <2>3, <2>4, <2>5, <2>6, <2>7, <2>8, <2>9, <2>10, <2>11, <2>12, <2>13
          DEF Arity
<1> QED BY <1>1, <1>2

-----------------------------------------------------------------------------
(* What a client can see of an operation and of a handler. *)

\* The three maps agree on a key.
SameAt(d, e, k) == /\ e.string_store[k] = d.string_store[k]
                   /\ e.list_store[k] = d.list_store[k]
                   /\ e.expiry[k] = d.expiry[k]

\* No client can tell the two databases apart by this key: nothing changed, or
\* what went had reached its deadline.
Unseen(d, e, k, t) == SameAt(d, e, k) \/ (Elapsed(d, k, t) /\ ~Present(e, k))

\* The same of every key but one.
UnseenElsewhere(d, e, k, t) == \A j \in Key \ {k} : Unseen(d, e, j, t)

\* An unseen change makes no key visible and hides none.
LEMMA UnseenVisible ==
    ASSUME NEW d, NEW e, NEW k, NEW t, Unseen(d, e, k, t)
    PROVE  Visible(e, k, t) <=> Visible(d, k, t)
BY DEF Unseen, SameAt, Visible, Present, Has, Elapsed

\* Erasing keys from the three maps leaves every other key as it was.
LEMMA ErasedAt ==
    ASSUME NEW d, NEW e, NEW K,
           e.string_store = Erase(d.string_store, K),
           e.list_store = Erase(d.list_store, K),
           e.expiry = Erase(d.expiry, K)
    PROVE  \A j \in Key : IF j \in K THEN ~Present(e, j) /\ ~Has(e.expiry, j)
                                     ELSE SameAt(d, e, j)
BY DEF Erase, SameAt, Present, Has

\* The look at the deadline is never seen, and leaves either a key as it was or
\* no part of it.
LEMMA LazyEvictUnseen ==
    ASSUME NEW d, d \in Database, NEW k \in Key, NEW t
    PROVE  LET e == LazyEvict(d, k, t)
           IN  /\ UnseenElsewhere(d, e, k, t)
               /\ Unseen(d, e, k, t)
               /\ Elapsed(d, k, t) => ~Present(e, k) /\ ~Has(e.expiry, k)
               /\ ~Elapsed(d, k, t) => e = d
<1> DEFINE e == LazyEvict(d, k, t)
<1>1. CASE ~Elapsed(d, k, t)
  BY <1>1 DEF LazyEvict, UnseenElsewhere, Unseen, SameAt
<1>2. CASE Elapsed(d, k, t)
  <2> DEFINE lru == IF Has(d.lru_position, k)
                    THEN [Unlink(d, k) EXCEPT !.lru_position = Erase(@, {k})]
                    ELSE d
  <2>1. /\ lru.string_store = d.string_store
        /\ lru.list_store = d.list_store
        /\ lru.expiry = d.expiry
        /\ DOMAIN lru = DOMAIN d
    BY DEF Unlink, Database
  <2>2. e = [lru EXCEPT !.string_store = Erase(@, {k}),
                        !.list_store   = Erase(@, {k}),
                        !.expiry       = Erase(@, {k})]
    BY <1>2 DEF LazyEvict
  <2>3. {"string_store", "list_store", "expiry"} \subseteq DOMAIN lru
    BY <2>1 DEF Database
  <2> HIDE DEF lru, e
  <2>4. /\ e.string_store = Erase(d.string_store, {k})
        /\ e.list_store = Erase(d.list_store, {k})
        /\ e.expiry = Erase(d.expiry, {k})
    BY <2>1, <2>2, <2>3
  <2>5. \A j \in Key : IF j \in {k} THEN ~Present(e, j) /\ ~Has(e.expiry, j)
                                    ELSE SameAt(d, e, j)
    BY <2>4, ErasedAt
  <2> QED BY <1>2, <2>5 DEF UnseenElsewhere, Unseen, e
<1> QED BY <1>1, <1>2

\* The sweep is never seen.
LEMMA EvictExpiredUnseen ==
    ASSUME NEW d, d \in Database, NEW t
    PROVE  \A k \in Key : Unseen(d, EvictExpired(d, t), k, t)
<1> DEFINE elapsed == {k \in Key : Elapsed(d, k, t)}
           e == EvictExpired(d, t)
<1>1. /\ e.string_store = Erase(d.string_store, elapsed)
      /\ e.list_store = Erase(d.list_store, elapsed)
      /\ e.expiry = Erase(d.expiry, elapsed)
  BY DEF EvictExpired, Database
<1> HIDE DEF e
<1>2. \A j \in Key : IF j \in elapsed THEN ~Present(e, j) /\ ~Has(e.expiry, j)
                                      ELSE SameAt(d, e, j)
  BY <1>1, ErasedAt
<1> QED BY <1>2 DEF Unseen, e

\* Moving a key to the front of the LRU list changes none of the three maps.
LEMMA TouchSame ==
    ASSUME NEW d, d \in Database, NEW k
    PROVE  /\ Touch(d, k).string_store = d.string_store
           /\ Touch(d, k).list_store = d.list_store
           /\ Touch(d, k).expiry = d.expiry
BY DEF Touch, PushFront, Unlink, Database

\* del() leaves no part of its key that a client can see.
LEMMA DelClears ==
    ASSUME NEW d, d \in Database, NEW k \in Key
    PROVE  \A j \in Key : IF j = k THEN ~Present(Del(d, k), j)
                                   ELSE SameAt(d, Del(d, k), j)
<1> DEFINE e == Del(d, k)
<1>1. /\ e.string_store = Erase(d.string_store, {k})
      /\ e.list_store = Erase(d.list_store, {k})
      /\ e.expiry = Erase(d.expiry, {k})
  BY DEF Del, Database
<1> HIDE DEF e
<1>2. \A j \in Key : IF j \in {k} THEN ~Present(e, j) /\ ~Has(e.expiry, j)
                                  ELSE SameAt(d, e, j)
  BY <1>1, ErasedAt
<1> QED BY <1>2 DEF e

\* operator[] and the deque behind it: only the list of the key changes.
LEMMA WithListAt ==
    \A d \in Database, k \in Key : \A s :
        /\ WithList(d, k, s).string_store = d.string_store
        /\ WithList(d, k, s).list_store[k] = s
        /\ WithList(d, k, s).expiry = d.expiry
        /\ \A j \in Key \ {k} : SameAt(d, WithList(d, k, s), j)
BY DEF WithList, Database, SameAt

\* A pop that empties a list takes the whole key; any other leaves the deadline.
LEMMA PopToAt ==
    \A d \in Database, k \in Key, rest \in Seq(Value) :
        /\ \A j \in Key \ {k} : SameAt(d, PopTo(d, k, rest), j)
        /\ PopTo(d, k, rest).string_store = d.string_store
        /\ rest = <<>> => ~Has(PopTo(d, k, rest).list_store, k)
        /\ rest # <<>> => /\ PopTo(d, k, rest).list_store[k] = rest
                          /\ PopTo(d, k, rest).expiry = d.expiry
<1> SUFFICES ASSUME NEW d \in Database, NEW k \in Key, NEW rest \in Seq(Value)
             PROVE  LET e == PopTo(d, k, rest)
                    IN  /\ \A j \in Key \ {k} : SameAt(d, e, j)
                        /\ e.string_store = d.string_store
                        /\ rest = <<>> => ~Has(e.list_store, k)
                        /\ rest # <<>> => /\ e.list_store[k] = rest
                                          /\ e.expiry = d.expiry
  OBVIOUS
<1>1. CASE rest = <<>>
  BY <1>1 DEF PopTo, Database, Erase, SameAt, Has
<1>2. CASE rest # <<>>
  BY <1>2, WithListAt DEF PopTo
<1> QED BY <1>1, <1>2

\* A deadline is given to a key that is present, and changes nothing else.
LEMMA ExpireAtAt ==
    \A d \in Database, k \in Key, deadline \in Int :
        /\ \A j \in Key \ {k} : SameAt(d, ExpireAt(d, k, deadline), j)
        /\ ExpireAt(d, k, deadline).string_store = d.string_store
        /\ ExpireAt(d, k, deadline).list_store = d.list_store
        /\ Present(d, k) => ExpireAt(d, k, deadline).expiry[k] = deadline
        /\ ~Present(d, k) => ExpireAt(d, k, deadline) = d
BY DEF ExpireAt, Database, SameAt

\* After the look, a key is present exactly when it was visible; then the database
\* is the one before, and otherwise the key has no deadline.
LEMMA LazyEvictDecides ==
    ASSUME NEW d, Sound(d), NEW k \in Key, NEW t \in Int
    PROVE  LET e == LazyEvict(d, k, t)
           IN  /\ Sound(e) /\ e \in Database
               /\ UnseenElsewhere(d, e, k, t) /\ Unseen(d, e, k, t)
               /\ Present(e, k) <=> Visible(d, k, t)
               /\ ~Elapsed(e, k, t)
               /\ Visible(d, k, t) => e = d
               /\ ~Visible(d, k, t) => ~Has(e.expiry, k)
<1> DEFINE e == LazyEvict(d, k, t)
<1>1. d \in Database
  BY SoundDatabase
<1>2. /\ UnseenElsewhere(d, e, k, t) /\ Unseen(d, e, k, t)
      /\ Elapsed(d, k, t) => ~Present(e, k) /\ ~Has(e.expiry, k)
      /\ ~Elapsed(d, k, t) => e = d
  BY <1>1, LazyEvictUnseen
<1>3. Sound(e) /\ ~Elapsed(e, k, t)
  BY LazyEvictSound
<1> HIDE DEF e
<1>4. e \in Database
  BY <1>3, SoundDatabase
<1>5. Present(e, k) <=> Visible(d, k, t)
  BY <1>2 DEF Visible
<1>6. Visible(d, k, t) => e = d
  BY <1>2 DEF Visible
<1>7. ~Visible(d, k, t) => ~Has(e.expiry, k)
  BY <1>3, <1>5 DEF Sound, StoresSound
<1> QED BY <1>2, <1>3, <1>4, <1>5, <1>6, <1>7 DEF e

-----------------------------------------------------------------------------
(* The handlers. *)

\* GET, EXISTS, TTL and LLEN are never seen.
LEMMA ReadsUnseen ==
    ASSUME NEW d, Sound(d), NEW k \in Key, NEW t \in Int,
           NEW e \in {DoGet(d, k, t).db, DoExists(d, k, t).db,
                      DoTtl(d, k, t).db, DoLLen(d, k, t).db}
    PROVE  \A j \in Key : Unseen(d, e, j, t)
<1> DEFINE g == LazyEvict(d, k, t)
<1>1. g \in Database /\ UnseenElsewhere(d, g, k, t) /\ Unseen(d, g, k, t)
  BY LazyEvictDecides
<1>2. DoExists(d, k, t).db = g /\ DoTtl(d, k, t).db = g /\ DoLLen(d, k, t).db = g
  BY DEF DoExists, DoTtl, DoLLen, Result
<1>3. DoGet(d, k, t).db \in {g, Touch(g, k)}
  <2>1. CASE IsList(g, k)
    BY <2>1 DEF DoGet, Result, IsList, IsString
  <2>2. CASE IsString(g, k)
    BY <2>2 DEF DoGet, Result, IsList, IsString
  <2>3. CASE ~IsList(g, k) /\ ~IsString(g, k)
    BY <2>3 DEF DoGet, Result
  <2> QED BY <2>1, <2>2, <2>3
<1>4. e \in {g, Touch(g, k)}
  BY <1>2, <1>3
<1>5. /\ Touch(g, k).string_store = g.string_store
      /\ Touch(g, k).list_store = g.list_store
      /\ Touch(g, k).expiry = g.expiry
  BY <1>1, TouchSame
<1>6. /\ e.string_store = g.string_store
      /\ e.list_store = g.list_store
      /\ e.expiry = g.expiry
  BY <1>4, <1>5
<1> HIDE DEF g
<1>7. ASSUME NEW j \in Key
      PROVE  Unseen(d, e, j, t)
  <2>1. Unseen(d, g, j, t)
    BY <1>1 DEF UnseenElsewhere
  <2> QED BY <1>6, <2>1 DEF Unseen, SameAt, Present, Has
<1> QED BY <1>7

\* A push onto a string is never seen; onto anything else it writes the list that
\* was visible, with the new element at its end of it, and no deadline.
LEMMA PushSeen ==
    ASSUME NEW d, Sound(d), NEW k \in Key, NEW v \in Value, NEW t \in Int
    PROVE  LET g == LazyEvict(d, k, t)
               l == DoLPush(d, k, v, t).db
               r == DoRPush(d, k, v, t).db
           IN  /\ UnseenElsewhere(d, l, k, t) /\ UnseenElsewhere(d, r, k, t)
               /\ IsString(g, k) => l = g /\ r = g
               /\ ~IsString(g, k) =>
                    /\ ~IsString(l, k) /\ l.list_store[k] = Cons(v, ListAt(g, k))
                    /\ ~IsString(r, k) /\ r.list_store[k] = Append(ListAt(g, k), v)
                    /\ Visible(l, k, t) /\ l.expiry = g.expiry
                    /\ Visible(r, k, t) /\ r.expiry = g.expiry
<1> DEFINE g == LazyEvict(d, k, t)
           front == Cons(v, ListAt(g, k))
           back == Append(ListAt(g, k), v)
           l == DoLPush(d, k, v, t).db
           r == DoRPush(d, k, v, t).db
<1>1. /\ g \in Database /\ Sound(g)
      /\ UnseenElsewhere(d, g, k, t) /\ ~Elapsed(g, k, t)
  BY LazyEvictDecides
<1>2. CASE IsString(g, k)
  <2>1. l = g /\ r = g
    BY <1>2 DEF DoLPush, DoRPush, Result
  <2> QED BY <1>1, <1>2, <2>1
<1>3. CASE ~IsString(g, k)
  <2>1. l = WithList(g, k, front) /\ r = WithList(g, k, back)
    BY <1>3 DEF DoLPush, DoRPush, Result, LPush, RPush
  <2>2. ListAt(g, k) \in Seq(Value)
    BY <1>1, ListAtTyped
  <2>3. front \in Seq(Value) /\ back \in Seq(Value)
    <3>1. <<v>> \in Seq(Value)
      OBVIOUS
    <3>2. <<v>> \o ListAt(g, k) \in Seq(Value)
      BY <2>2, <3>1, ConcatProperties
    <3>3. back \in Seq(Value)
      BY <2>2, AppendProperties
    <3> QED BY <3>2, <3>3 DEF Cons
  <2>4. front # Absent /\ back # Absent
    BY <2>3, AbsentAssumption
  <2> HIDE DEF g, l, r, front, back
  <2>5. ASSUME NEW w, NEW s \in {front, back}, w = WithList(g, k, s)
        PROVE  /\ w.string_store = g.string_store
               /\ w.list_store[k] = s
               /\ w.expiry = g.expiry
               /\ ~IsString(w, k)
               /\ Visible(w, k, t)
               /\ UnseenElsewhere(d, w, k, t)
    <3>1. /\ w.string_store = g.string_store
          /\ w.expiry = g.expiry
          /\ w.list_store[k] = s
          /\ \A j \in Key \ {k} : SameAt(g, w, j)
      <4>1. g \in Database
        BY <1>1
      <4>2. /\ WithList(g, k, s).string_store = g.string_store
            /\ WithList(g, k, s).expiry = g.expiry
            /\ WithList(g, k, s).list_store[k] = s
            /\ \A j \in Key \ {k} : SameAt(g, WithList(g, k, s), j)
        BY <4>1, WithListAt
      <4> QED BY <2>5, <4>2, Zenon
    <3>2. UnseenElsewhere(d, w, k, t)
      BY <1>1, <3>1 DEF UnseenElsewhere, Unseen, SameAt, Present, Has
    <3>3. ~IsString(w, k)
      BY <1>3, <3>1 DEF IsString
    <3>4. Visible(w, k, t)
      BY <1>1, <2>4, <3>1 DEF Visible, Present, Has, Elapsed
    <3> QED BY <3>1, <3>2, <3>3, <3>4
  <2>6. /\ ~IsString(l, k) /\ l.list_store[k] = front /\ Visible(l, k, t)
        /\ l.expiry = g.expiry /\ UnseenElsewhere(d, l, k, t)
    BY <2>1, <2>5
  <2>7. /\ ~IsString(r, k) /\ r.list_store[k] = back /\ Visible(r, k, t)
        /\ r.expiry = g.expiry /\ UnseenElsewhere(d, r, k, t)
    BY <2>1, <2>5
  <2> QED BY <1>3, <2>6, <2>7 DEF g, l, r, front, back
<1> QED BY <1>2, <1>3

\* A pop from a string or from nothing is never seen; from a list it takes the
\* element, and the key with the last one.
LEMMA PopSeen ==
    ASSUME NEW d, Sound(d), NEW k \in Key, NEW t \in Int
    PROVE  LET g == LazyEvict(d, k, t)
               s == ListAt(g, k)
               l == DoLPop(d, k, t).db
               r == DoRPop(d, k, t).db
           IN  /\ UnseenElsewhere(d, l, k, t) /\ UnseenElsewhere(d, r, k, t)
               /\ IsString(g, k) \/ s = <<>> => l = g /\ r = g
               /\ ~IsString(g, k) /\ s # <<>> =>
                    l = PopTo(g, k, Tail(s)) /\ r = PopTo(g, k, Front(s))
<1> DEFINE g == LazyEvict(d, k, t)
           s == ListAt(g, k)
           l == DoLPop(d, k, t).db
           r == DoRPop(d, k, t).db
<1>1. /\ g \in Database /\ Sound(g)
      /\ UnseenElsewhere(d, g, k, t) /\ ~Elapsed(g, k, t)
  BY LazyEvictDecides
<1>2. LazyEvict(g, k, t) = g
  BY <1>1 DEF LazyEvict
<1>3. s \in Seq(Value) /\ (s # <<>> => s = g.list_store[k])
  BY <1>1, ListAtTyped
<1>4. CASE IsString(g, k)
  <2>1. l = g /\ r = g
    BY <1>4 DEF DoLPop, DoRPop, Result
  <2> QED BY <1>1, <1>4, <2>1
<1>5. CASE ~IsString(g, k) /\ s = <<>>
  <2>1. l = LPop(g, k, t) /\ r = RPop(g, k, t)
    BY <1>5 DEF DoLPop, DoRPop, Result
  <2>2. l = g /\ r = g
    BY <1>2, <1>5, <2>1 DEF LPop, RPop
  <2> QED BY <1>1, <1>5, <2>2
<1>6. CASE ~IsString(g, k) /\ s # <<>>
  <2>1. l = LPop(g, k, t) /\ r = RPop(g, k, t)
    BY <1>6 DEF DoLPop, DoRPop, Result
  <2>2. l = PopTo(g, k, Tail(s)) /\ r = PopTo(g, k, Front(s))
    BY <1>2, <1>3, <1>6, <2>1 DEF LPop, RPop
  <2>3. Tail(s) \in Seq(Value) /\ Front(s) \in Seq(Value)
    <3>1. Tail(s) \in Seq(Value)
      BY <1>3, <1>6, HeadTailProperties
    <3>2. Front(s) \in Seq(Value)
      BY <1>3, <1>6, SubSeqProperties, EmptySeq, LenProperties DEF Front
    <3> QED BY <3>1, <3>2
  <2> HIDE DEF g, s, l, r
  <2>4. \A j \in Key \ {k} : SameAt(g, l, j) /\ SameAt(g, r, j)
    BY <1>1, <2>2, <2>3, PopToAt
  <2>5. UnseenElsewhere(d, l, k, t) /\ UnseenElsewhere(d, r, k, t)
    BY <1>1, <2>4 DEF UnseenElsewhere, Unseen, SameAt, Present, Has
  <2> QED BY <1>6, <2>2, <2>5 DEF g, s, l, r
<1> QED BY <1>4, <1>5, <1>6

\* EXPIRE with a bad argument is never seen; otherwise a key that was not visible
\* stays so, and a visible one gets its deadline.
LEMMA ExpireSeen ==
    ASSUME NEW d, Sound(d), NEW k \in Key, NEW s, NEW t \in Int
    PROVE  LET e == DoExpire(d, k, s, t).db
               deadline == Wrap(t + Wrap(s * MsPerSecond))
           IN  /\ UnseenElsewhere(d, e, k, t)
               /\ s \notin Int \/ s < 0 \/ ~Visible(d, k, t) => Unseen(d, e, k, t)
               /\ s \in Int /\ ~(s < 0) /\ Visible(d, k, t) =>
                    e = ExpireAt(d, k, deadline) /\ deadline \in Int
<1> DEFINE g == LazyEvict(d, k, t)
           e == DoExpire(d, k, s, t).db
           deadline == Wrap(t + Wrap(s * MsPerSecond))
<1>1. /\ g \in Database
      /\ UnseenElsewhere(d, g, k, t) /\ Unseen(d, g, k, t)
      /\ Present(g, k) <=> Visible(d, k, t)
      /\ Visible(d, k, t) => g = d
  BY LazyEvictDecides
<1>2. CASE s \notin Int \/ s < 0
  <2>1. e = d
    BY <1>2 DEF DoExpire, Result
  <2>2. UnseenElsewhere(d, e, k, t) /\ Unseen(d, e, k, t)
    BY <2>1 DEF UnseenElsewhere, Unseen, SameAt
  <2> QED BY <1>2, <2>2
<1>3. CASE s \in Int /\ ~(s < 0)
  <2>1. deadline \in Int
    <3>1. s * MsPerSecond \in Int
      BY <1>3, UnitsAssumption
    <3>2. t + Wrap(s * MsPerSecond) \in Int
      BY <3>1, WrapTyped
    <3> QED BY <3>2, WrapTyped
  <2>2. e = ExpireAt(g, k, deadline)
    BY <1>3 DEF DoExpire, Result, Expire
  <2> HIDE DEF e, g, deadline
  <2>3. \A j \in Key \ {k} : SameAt(g, e, j)
    BY <1>1, <2>1, <2>2, ExpireAtAt
  <2>4. UnseenElsewhere(d, e, k, t)
    BY <1>1, <2>3 DEF UnseenElsewhere, Unseen, SameAt, Present, Has
  <2>5. ~Visible(d, k, t) => Unseen(d, e, k, t)
    BY <1>1, <2>1, <2>2, ExpireAtAt
  <2>6. Visible(d, k, t) => e = ExpireAt(d, k, deadline)
    BY <1>1, <2>2
  <2> QED BY <1>3, <2>1, <2>4, <2>5, <2>6 DEF e, g, deadline
<1> QED BY <1>2, <1>3

\* The eviction loop takes whole keys.
LEMMA EvictLastWhole ==
    ASSUME NEW d, NEW n
    PROVE  \A j \in Key : \/ SameAt(d, EvictLast(d, n), j)
                          \/ ~Present(EvictLast(d, n), j)
<1> DEFINE e == EvictLast(d, n)
           keys == {d.lru_order[i].key : i \in (Len(d.lru_order) - n + 1)..Len(d.lru_order)}
<1>1. /\ e.string_store = Erase(d.string_store, keys)
      /\ e.list_store = Erase(d.list_store, keys)
      /\ e.expiry = Erase(d.expiry, keys)
  BY DEF EvictLast
<1> HIDE DEF e, keys
<1>2. \A j \in Key : IF j \in keys THEN ~Present(e, j) /\ ~Has(e.expiry, j)
                                   ELSE SameAt(d, e, j)
  BY <1>1, ErasedAt
<1> QED BY <1>2 DEF e

\* No round of the loop, no effect.
LEMMA EvictLastNone ==
    ASSUME NEW d, d \in Database
    PROVE  /\ EvictLast(d, 0).string_store = d.string_store
           /\ EvictLast(d, 0).list_store = d.list_store
           /\ EvictLast(d, 0).expiry = d.expiry
<1>1. Len(d.lru_order) \in Nat
  BY LenProperties DEF Database
<1>2. {d.lru_order[i].key : i \in (Len(d.lru_order) - 0 + 1)..Len(d.lru_order)} = {}
  BY <1>1
<1>3. \A map : Erase(map, {}) = [k \in Key |-> map[k]]
  BY DEF Erase
<1>4. /\ EvictLast(d, 0).string_store = Erase(d.string_store, {})
      /\ EvictLast(d, 0).list_store = Erase(d.list_store, {})
      /\ EvictLast(d, 0).expiry = Erase(d.expiry, {})
  BY <1>2 DEF EvictLast
<1> QED BY <1>3, <1>4 DEF Database

\* set() with room for the key: nothing else is lost.
LEMMA MakeRoomIdle ==
    ASSUME NEW d, Sound(d), Size(d) < MaxCapacity, NEW j \in Key
    PROVE  SameAt(d, MakeRoom(d), j)
<1>1. Len(d.lru_order) \in Nat
  BY SoundDatabase, LenProperties DEF Database
<1>2. Size(EvictLast(d, 0)) = Size(d)
  BY SoundDatabase, EvictLastNone DEF Size
<1>3. 0 \in RoomAfter(d)
  BY <1>1, <1>2 DEF RoomAfter
<1>4. PICK n \in RoomAfter(d) : MakeRoom(d) = EvictLast(d, n) /\ \A m \in RoomAfter(d) : n <= m
  BY <1>3, MakeRoomSound
<1>5. n = 0
  BY <1>1, <1>3, <1>4 DEF RoomAfter
<1> QED BY <1>4, <1>5, SoundDatabase, EvictLastNone DEF SameAt

\* SET writes its key afresh; any other key is as before, or evicted whole when the
\* key is new and the stores were full.
LEMMA SetSeen ==
    ASSUME NEW d, Sound(d), NEW k \in Key, NEW v \in Value, SetHasRoom(d, k)
    PROVE  LET e == Set(d, k, v)
           IN  /\ e.string_store[k] = v /\ ~Has(e.list_store, k) /\ ~Has(e.expiry, k)
               /\ \A j \in Key \ {k} :
                     \/ SameAt(d, e, j)
                     \/ /\ ~Present(e, j)
                        /\ ~Has(d.string_store, k)
                        /\ Size(Overwrite(d, k)) >= MaxCapacity
<1> DEFINE old  == Overwrite(d, k)
           room == IF Has(old.string_store, k) THEN Unlink(old, k) ELSE MakeRoom(old)
           e    == Set(d, k, v)
<1>1. /\ Sound(old) /\ old.string_store = d.string_store
      /\ ~Has(old.list_store, k) /\ ~Has(old.expiry, k)
  BY OverwriteSound
<1>2. \A j \in Key \ {k} : SameAt(d, old, j)
  BY SoundDatabase DEF Overwrite, Database, Erase, SameAt
<1>3. e = [PushFront(room, k) EXCEPT !.string_store = [@ EXCEPT ![k] = v]]
  BY DEF Set
<1>4. /\ room \in Database
      /\ ~Has(room.list_store, k) /\ ~Has(room.expiry, k)
      /\ \A j \in Key \ {k} :
            \/ SameAt(old, room, j)
            \/ /\ ~Present(room, j)
               /\ ~Has(d.string_store, k)
               /\ Size(old) >= MaxCapacity
  <2> HIDE DEF old
  <2>1. CASE Has(old.string_store, k)
    <3>1. LruSound(old) /\ Has(old.lru_position, k) /\ old \in Database
      BY <1>1, <2>1, SoundDatabase DEF Sound, Tracked
    <3>2. Unlink(old, k) \in Database
      BY <3>1, UnlinkSound
    <3>3. /\ Unlink(old, k).string_store = old.string_store
          /\ Unlink(old, k).list_store = old.list_store
          /\ Unlink(old, k).expiry = old.expiry
      BY <3>1 DEF Unlink, Database
    <3>4. room = Unlink(old, k)
      BY <2>1
    <3> QED BY <1>1, <3>2, <3>3, <3>4 DEF SameAt
  <2>2. CASE ~Has(old.string_store, k)
    <3>1. RoomAfter(old) # {}
      BY <1>1, <2>2 DEF SetHasRoom, old
    <3>2. PICK n \in RoomAfter(old) : MakeRoom(old) = EvictLast(old, n)
      BY <1>1, <3>1, MakeRoomSound
    <3>3. room = EvictLast(old, n) /\ room = MakeRoom(old)
      BY <2>2, <3>2
    <3>4. room \in Database
      BY <1>1, <3>1, <3>3, MakeRoomSound, SoundDatabase
    <3>5. ~Has(room.list_store, k) /\ ~Has(room.expiry, k)
      BY <1>1, <3>2, <3>3, SoundDatabase, EvictLastShrinks DEF RoomAfter
    <3>6. \A j \in Key : SameAt(old, room, j) \/ ~Present(room, j)
      BY <3>3, EvictLastWhole
    <3>7. Size(old) < MaxCapacity => \A j \in Key : SameAt(old, room, j)
      BY <1>1, <3>3, MakeRoomIdle
    <3>8. Size(old) < MaxCapacity \/ Size(old) >= MaxCapacity
      <4>1. Size(old) \in Nat
        BY KeyAssumption, FS_Subset, FS_CardinalityType DEF Size, Held
      <4> QED BY <4>1, CapacityAssumption
    <3> QED BY <1>1, <2>2, <3>4, <3>5, <3>6, <3>7, <3>8
  <2> QED BY <2>1, <2>2
<1> HIDE DEF room, e, old
<1>5. /\ e.string_store = [room.string_store EXCEPT ![k] = v]
      /\ e.list_store = room.list_store
      /\ e.expiry = room.expiry
  BY <1>3, <1>4 DEF PushFront, Database
<1>6. e.string_store[k] = v
  BY <1>4, <1>5 DEF Database
<1>7. \A j \in Key \ {k} : SameAt(room, e, j)
  BY <1>4, <1>5 DEF Database, SameAt
<1> QED BY <1>2, <1>4, <1>5, <1>6, <1>7 DEF SameAt, Present, Has, e, old

-----------------------------------------------------------------------------
(* How much a SET evicts. *)

\* Erasing one key costs the stores at most one entry when they are disjoint.
LEMMA EraseOneCosts ==
    ASSUME NEW d, NEW e, NEW x, StoresSound(d),
           e.string_store = Erase(d.string_store, {x}),
           e.list_store = Erase(d.list_store, {x})
    PROVE  Size(d) \in Nat /\ Size(e) \in Nat /\ Size(d) <= Size(e) + 1
<1> DEFINE S == Held(d.string_store)
           L == Held(d.list_store)
<1>1. IsFiniteSet(S) /\ IsFiniteSet(L)
  BY KeyAssumption, FS_Subset DEF Held
<1>2. Held(e.string_store) = S \ {x} /\ Held(e.list_store) = L \ {x}
  BY DEF Held, Erase, Has
<1>3. x \notin S \/ x \notin L
  BY DEF StoresSound, Held
<1> HIDE DEF S, L
<1>4. /\ Cardinality(S) \in Nat /\ Cardinality(L) \in Nat
      /\ Cardinality(S \ {x}) = IF x \in S THEN Cardinality(S) - 1 ELSE Cardinality(S)
      /\ Cardinality(L \ {x}) = IF x \in L THEN Cardinality(L) - 1 ELSE Cardinality(L)
  BY <1>1, FS_CardinalityType, FS_RemoveElement
<1>5. Cardinality(S \ {x}) \in Nat /\ Cardinality(L \ {x}) \in Nat
  <2>1. IsFiniteSet(S \ {x}) /\ IsFiniteSet(L \ {x})
    BY <1>1, FS_RemoveElement
  <2> QED BY <2>1, FS_CardinalityType
<1>6. /\ Size(d) = Cardinality(S) + Cardinality(L)
      /\ Size(e) = Cardinality(S \ {x}) + Cardinality(L \ {x})
  BY <1>2 DEF Size, S, L
<1> QED BY <1>3, <1>4, <1>5, <1>6

\* Each round of the eviction loop erases the key of one more node.
LEMMA EvictLastStep ==
    ASSUME NEW d, NEW n \in 1..Len(d.lru_order), Len(d.lru_order) \in Nat
    PROVE  LET x == d.lru_order[Len(d.lru_order) - n + 1].key
           IN  /\ EvictLast(d, n).string_store = Erase(EvictLast(d, n - 1).string_store, {x})
               /\ EvictLast(d, n).list_store = Erase(EvictLast(d, n - 1).list_store, {x})
<1> DEFINE len == Len(d.lru_order)
           x == d.lru_order[len - n + 1].key
           less == {d.lru_order[i].key : i \in (len - (n - 1) + 1)..len}
           more == {d.lru_order[i].key : i \in (len - n + 1)..len}
<1>1. more = less \cup {x}
  <2>1. (len - n + 1)..len = ((len - (n - 1) + 1)..len) \cup {len - n + 1}
    OBVIOUS
  <2> QED BY <2>1
<1>2. /\ EvictLast(d, n).string_store = Erase(d.string_store, more)
      /\ EvictLast(d, n).list_store = Erase(d.list_store, more)
      /\ EvictLast(d, n - 1).string_store = Erase(d.string_store, less)
      /\ EvictLast(d, n - 1).list_store = Erase(d.list_store, less)
  BY DEF EvictLast
<1> HIDE DEF more, less
<1>3. \A map : Erase(map, more) = Erase(Erase(map, less), {x})
  BY <1>1 DEF Erase
<1> QED BY <1>2, <1>3

\* The loop stops at the first round that makes room, so a round that ran leaves
\* exactly one place.
LEMMA MakeRoomFills ==
    ASSUME NEW d, Sound(d), RoomAfter(d) # {}, Size(d) >= MaxCapacity
    PROVE  Size(MakeRoom(d)) = MaxCapacity - 1
<1> DEFINE len == Len(d.lru_order)
<1>1. PICK n \in RoomAfter(d) : MakeRoom(d) = EvictLast(d, n) /\ \A m \in RoomAfter(d) : n <= m
  BY MakeRoomSound
<1>2. len \in Nat /\ n \in 0..len /\ Size(EvictLast(d, n)) < MaxCapacity
  BY SoundDatabase, LenProperties DEF RoomAfter, Database
<1>3. Size(EvictLast(d, 0)) = Size(d)
  BY SoundDatabase, EvictLastNone DEF Size
<1>4. Size(d) \in Nat /\ MaxCapacity \in Nat
  BY KeyAssumption, CapacityAssumption, FS_Subset, FS_CardinalityType DEF Size, Held
<1>5. n # 0
  BY <1>2, <1>3, <1>4
<1>6. n \in 1..len /\ n - 1 \in 0..len /\ n - 1 < n
  BY <1>2, <1>5
<1>7. ~(Size(EvictLast(d, n - 1)) < MaxCapacity)
  BY <1>1, <1>6 DEF RoomAfter
<1>8. StoresSound(EvictLast(d, n - 1))
  BY <1>6, EvictLastSound DEF Sound
<1>9. PICK x : /\ EvictLast(d, n).string_store = Erase(EvictLast(d, n - 1).string_store, {x})
               /\ EvictLast(d, n).list_store = Erase(EvictLast(d, n - 1).list_store, {x})
  BY <1>2, <1>6, EvictLastStep
<1>10. /\ Size(EvictLast(d, n - 1)) \in Nat
       /\ Size(EvictLast(d, n)) \in Nat
       /\ Size(EvictLast(d, n - 1)) <= Size(EvictLast(d, n)) + 1
  BY <1>8, <1>9, EraseOneCosts
<1> QED BY <1>1, <1>2, <1>4, <1>7, <1>10

\* A SET of a new key adds one entry to the stores the loop leaves.
LEMMA SetSize ==
    ASSUME NEW d, Sound(d), NEW k \in Key, NEW v \in Value,
           ~Has(d.string_store, k), RoomAfter(Overwrite(d, k)) # {}
    PROVE  Size(Set(d, k, v)) = Size(MakeRoom(Overwrite(d, k))) + 1
<1> DEFINE old  == Overwrite(d, k)
           room == MakeRoom(old)
           e    == Set(d, k, v)
<1>1. Sound(old) /\ old.string_store = d.string_store
  BY OverwriteSound
<1>2. e = [PushFront(room, k) EXCEPT !.string_store = [@ EXCEPT ![k] = v]]
  BY <1>1 DEF Set
<1> HIDE DEF old, e
<1>3. room \in Database /\ ~Has(room.string_store, k)
  <2>1. Sound(room) /\ \E n \in 0..Len(old.lru_order) : room = EvictLast(old, n)
    BY <1>1, MakeRoomSound DEF old
  <2>2. room \in Database
    BY <2>1, SoundDatabase
  <2>3. Held(room.string_store) \subseteq Held(old.string_store)
    BY <1>1, <2>1, SoundDatabase, EvictLastShrinks
  <2> QED BY <1>1, <2>2, <2>3 DEF Held
<1> HIDE DEF room
<1>4. /\ e.string_store = [room.string_store EXCEPT ![k] = v]
      /\ e.list_store = room.list_store
  BY <1>2, <1>3 DEF PushFront, Database
<1>5. Held(e.string_store) = Held(room.string_store) \cup {k} /\ k \notin Held(room.string_store)
  BY <1>3, <1>4, AbsentAssumption DEF Held, Has, Database
<1>6. IsFiniteSet(Held(room.string_store)) /\ IsFiniteSet(Held(room.list_store))
  BY KeyAssumption, FS_Subset DEF Held
<1>7. /\ Cardinality(Held(room.string_store) \cup {k}) = Cardinality(Held(room.string_store)) + 1
      /\ Cardinality(Held(room.string_store)) \in Nat
      /\ Cardinality(Held(room.list_store)) \in Nat
  BY <1>5, <1>6, FS_AddElement, FS_CardinalityType
<1> QED BY <1>4, <1>5, <1>7 DEF Size, e, room, old

-----------------------------------------------------------------------------
(* lru_order_ in step with the strings.                                    *)

\* Every node of lru_order_ is the node of a string, and its iterator points to it.
\* DEL and the sweep end this; nothing else does.
Exact(d) == \A i \in 1..Len(d.lru_order) :
    /\ Has(d.string_store, d.lru_order[i].key)
    /\ Points(d, d.lru_order[i].key, i)

\* The same when the node of k has been taken out.
ExactBut(d, k) == Exact(d) /\ \A i \in 1..Len(d.lru_order) : d.lru_order[i].key # k

\* The stores hold strings only.
NoLists(d) == \A k \in Key : ~Has(d.list_store, k)

\* The nodes are as many as the strings, and each string has one.
LEMMA ExactCount ==
    ASSUME NEW d, Sound(d), Exact(d)
    PROVE  /\ Len(d.lru_order) \in Nat
           /\ Cardinality(Held(d.string_store)) = Len(d.lru_order)
           /\ \A i, j \in 1..Len(d.lru_order) : d.lru_order[i].key = d.lru_order[j].key => i = j
           /\ \A k \in Key : Has(d.string_store, k) <=>
                 \E i \in 1..Len(d.lru_order) : d.lru_order[i].key = k
<1> DEFINE n == Len(d.lru_order)
           S == Held(d.string_store)
           f == [i \in 1..n |-> d.lru_order[i].key]
<1>1. d.lru_order \in Seq(Node) /\ n \in Nat
  BY SoundDatabase DEF Database
<1>2. \A i \in 1..n : d.lru_order[i].key \in Key
  <2>1. \A i \in 1..n : d.lru_order[i] \in Node
    BY <1>1
  <2> QED BY <2>1 DEF Node
<1>3. \A i, j \in 1..n : d.lru_order[i].key = d.lru_order[j].key => i = j
  BY DEF Exact, Points, Sound, LruSound, DistinctCells
<1>4. \A k \in Key : Has(d.string_store, k) <=> \E i \in 1..n : d.lru_order[i].key = k
  BY DEF Exact, Sound, Tracked, LruSound, Linked, Points
<1>5. f \in Bijection(1..n, S)
  <2>1. f \in [1..n -> S]
    BY <1>2, <1>4 DEF Held
  <2>2. \A i, j \in 1..n : f[i] = f[j] => i = j
    BY <1>3
  <2>3. \A k \in S : \E i \in 1..n : f[i] = k
    BY <1>4 DEF Held
  <2> HIDE DEF f, S
  <2> QED BY <2>1, <2>2, <2>3 DEF Bijection, Injection, Surjection, IsInjective
<1>6. Cardinality(S) = n
  <2> HIDE DEF f, S
  <2> QED BY <1>1, <1>5, FS_CountingElements DEF ExistsBijection
<1> QED BY <1>1, <1>3, <1>4, <1>6

\* Unlinking a string takes out its own node, and no other.
LEMMA UnlinkExact ==
    ASSUME NEW d, Sound(d), Exact(d), NEW k \in Key, Has(d.string_store, k)
    PROVE  /\ ExactBut(Unlink(d, k), k)
           /\ \E p \in 1..Len(d.lru_order) :
                 /\ d.lru_order[p].key = k
                 /\ Unlink(d, k) = [d EXCEPT !.lru_order = RemoveAt(@, p)]
<1>1. PICK p \in 1..Len(d.lru_order) : Points(d, k, p)
  BY DEF Sound, Tracked, LruSound, Linked
<1>2. \A i \in 1..Len(d.lru_order) : d.lru_order[i].cell = d.lru_position[k] <=> i = p
  BY <1>1 DEF Points, Sound, LruSound, DistinctCells
<1>3. Unlink(d, k) = [d EXCEPT !.lru_order = RemoveAt(@, p)]
  <2>1. (CHOOSE i \in 1..Len(d.lru_order) : d.lru_order[i].cell = d.lru_position[k]) = p
    BY <1>2
  <2> QED BY <2>1 DEF Unlink
<1>4. d \in Database /\ d.lru_order \in Seq(Node)
  BY SoundDatabase DEF Database
<1>5. ExactBut(Unlink(d, k), k)
  <2> DEFINE u == Unlink(d, k)
  <2>1. /\ u.lru_order = RemoveAt(d.lru_order, p)
        /\ u.string_store = d.string_store /\ u.lru_position = d.lru_position
    BY <1>3, <1>4 DEF Database
  <2>2. /\ Len(u.lru_order) = Len(d.lru_order) - 1 /\ Len(d.lru_order) \in Nat
        /\ \A i \in 1..(Len(d.lru_order) - 1) :
              u.lru_order[i] = IF i < p THEN d.lru_order[i] ELSE d.lru_order[i + 1]
    BY <2>1, <1>4, RemoveAtShifts, LenProperties
  <2> HIDE DEF u
  <2>3. ASSUME NEW i \in 1..Len(u.lru_order)
        PROVE  \E j \in 1..Len(d.lru_order) : j # p /\ u.lru_order[i] = d.lru_order[j]
    <3>1. CASE i < p
      BY <3>1, <2>2
    <3>2. CASE ~(i < p)
      <4>1. i + 1 \in 1..Len(d.lru_order) /\ i + 1 # p
        BY <3>2, <2>2
      <4> QED BY <4>1, <3>2, <2>2
    <3> QED BY <3>1, <3>2
  <2>4. \A j \in 1..Len(d.lru_order) : j # p => d.lru_order[j].key # k
    BY <1>1, ExactCount DEF Points
  <2> QED BY <2>1, <2>3, <2>4 DEF ExactBut, Exact, Points, u
<1> QED BY <1>1, <1>3, <1>5 DEF Points

\* push_front() of a string whose node was taken out, or of a new string.
LEMMA PushFrontExact ==
    ASSUME NEW m \in Database, NEW k \in Key, ExactBut(m, k), \E c \in Cell : FreeCell(m, c),
           NEW e,
           e.lru_order = PushFront(m, k).lru_order,
           e.lru_position = PushFront(m, k).lru_position,
           \A j \in Key : Has(m.string_store, j) \/ j = k => Has(e.string_store, j)
    PROVE  /\ Exact(e)
           /\ Len(e.lru_order) = Len(m.lru_order) + 1
           /\ e.lru_order[1].key = k
           /\ \A i \in 1..Len(m.lru_order) : e.lru_order[i + 1] = m.lru_order[i]
<1>1. PICK c \in Cell : /\ e.lru_order = Cons([cell |-> c, key |-> k], m.lru_order)
                        /\ e.lru_position = [m.lru_position EXCEPT ![k] = c]
  BY DEF PushFront, Database
<1>2. /\ m.lru_order \in Seq(Node) /\ Len(m.lru_order) \in Nat
      /\ m.lru_position \in [Key -> Cell \cup {Absent}]
  BY LenProperties DEF Database
<1>3. \A i \in 1..Len(m.lru_order) : m.lru_order[i].key \in Key
  <2>1. \A i \in 1..Len(m.lru_order) : m.lru_order[i] \in Node
    BY <1>2
  <2> QED BY <2>1 DEF Node
<1>4. /\ Len(e.lru_order) = Len(m.lru_order) + 1
      /\ e.lru_order[1] = [cell |-> c, key |-> k]
      /\ \A i \in 1..Len(m.lru_order) : e.lru_order[i + 1] = m.lru_order[i]
  <2>1. [cell |-> c, key |-> k] \in Node
    BY DEF Node
  <2> DEFINE one == <<[cell |-> c, key |-> k]>>
  <2>2. one \in Seq(Node) /\ Len(one) = 1 /\ one[1] = [cell |-> c, key |-> k]
    BY <2>1
  <2>3. e.lru_order = one \o m.lru_order
    BY <1>1 DEF Cons
  <2> HIDE DEF one
  <2>4. /\ Len(one \o m.lru_order) = Len(one) + Len(m.lru_order)
        /\ \A i \in 1..(Len(one) + Len(m.lru_order)) : (one \o m.lru_order)[i]
              = IF i <= Len(one) THEN one[i] ELSE m.lru_order[i - Len(one)]
    BY <1>2, <2>2, ConcatProperties
  <2> QED BY <1>2, <2>2, <2>3, <2>4
<1>5. ASSUME NEW i \in 1..Len(e.lru_order)
      PROVE  Has(e.string_store, e.lru_order[i].key) /\ Points(e, e.lru_order[i].key, i)
  <2>1. CASE i = 1
    BY <2>1, <1>1, <1>2, <1>4 DEF Points
  <2>2. CASE i # 1
    <3>1. PICK j \in 1..Len(m.lru_order) : i = j + 1
      BY <2>2, <1>2, <1>4
    <3>2. e.lru_order[i] = m.lru_order[j]
      BY <3>1, <1>4
    <3> QED BY <3>2, <1>1, <1>2, <1>3 DEF ExactBut, Exact, Points
  <2> QED BY <2>1, <2>2
<1> QED BY <1>4, <1>5 DEF Exact

\* The eviction loop erases the string of each node it pops.
LEMMA EvictLastExact ==
    ASSUME NEW d, Sound(d), Exact(d), NEW n \in 0..Len(d.lru_order)
    PROVE  LET e == EvictLast(d, n)
           IN  /\ Exact(e)
               /\ Len(d.lru_order) \in Nat
               /\ Len(e.lru_order) = Len(d.lru_order) - n
               /\ \A i \in 1..(Len(d.lru_order) - n) : e.lru_order[i] = d.lru_order[i]
               /\ NoLists(d) => NoLists(e)
<1> DEFINE len == Len(d.lru_order)
           e == EvictLast(d, n)
           keys == {d.lru_order[i].key : i \in (len - n + 1)..len}
<1>1. d.lru_order \in Seq(Node) /\ len \in Nat /\ n \in 0..len /\ d \in Database
  BY SoundDatabase DEF Database
<1>2. /\ e.string_store = Erase(d.string_store, keys)
      /\ e.list_store = Erase(d.list_store, keys)
      /\ e.lru_order = SubSeq(d.lru_order, 1, len - n)
      /\ e.lru_position = Erase(d.lru_position, keys)
  BY DEF EvictLast
<1>3. Len(e.lru_order) = len - n /\ \A i \in 1..(len - n) : e.lru_order[i] = d.lru_order[i]
  BY <1>1, <1>2, SubSeqProperties
<1>4. ASSUME NEW i \in 1..(len - n)
      PROVE  d.lru_order[i].key \in Key /\ d.lru_order[i].key \notin keys
  <2>1. i \in 1..len /\ d.lru_order[i] \in Node
    BY <1>1
  <2>2. \A j \in (len - n + 1)..len : j \in 1..len /\ i # j
    BY <1>1
  <2> QED BY <2>1, <2>2, ExactCount DEF Node
<1>5. NoLists(d) => NoLists(e)
  BY <1>2 DEF NoLists, Erase, Has
<1>6. Exact(e)
  <2> HIDE DEF e, keys, len
  <2>1. \A i \in 1..(len - n) : Has(d.string_store, d.lru_order[i].key) /\ Points(d, d.lru_order[i].key, i)
    BY <1>1 DEF Exact, len
  <2>2. ASSUME NEW i \in 1..(len - n)
        PROVE  Has(e.string_store, d.lru_order[i].key) /\ Points(e, d.lru_order[i].key, i)
    BY <2>1, <1>2, <1>3, <1>4 DEF Points, Erase, Has
  <2> QED BY <2>2, <1>3 DEF Exact
<1> QED BY <1>1, <1>3, <1>5, <1>6

\* The size of stores that hold strings only is the length of the list.
LEMMA SizeExact ==
    ASSUME NEW d, Sound(d), Exact(d), NoLists(d)
    PROVE  Size(d) = Len(d.lru_order) /\ Len(d.lru_order) \in Nat
<1>1. Held(d.list_store) = {}
  BY DEF NoLists, Held
<1>2. Cardinality(Held(d.list_store)) = 0
  BY <1>1, FS_EmptySet
<1> QED BY <1>2, ExactCount DEF Size

\* So set() always finds room in them, and takes no more than it has to.
LEMMA RoomExact ==
    ASSUME NEW d, Sound(d), Exact(d), NoLists(d)
    PROVE  /\ RoomAfter(d) # {}
           /\ MakeRoom(d) = EvictLast(d, IF Len(d.lru_order) < MaxCapacity THEN 0
                                         ELSE Len(d.lru_order) - MaxCapacity + 1)
<1> DEFINE len == Len(d.lru_order)
           least == IF len < MaxCapacity THEN 0 ELSE len - MaxCapacity + 1
<1>1. len \in Nat /\ MaxCapacity \in Nat \ {0}
  BY SizeExact, CapacityAssumption
<1>2. ASSUME NEW n \in 0..len
      PROVE  Size(EvictLast(d, n)) = len - n
  BY SizeExact, EvictLastExact, EvictLastSound
<1>3. RoomAfter(d) = {n \in 0..len : len - n < MaxCapacity}
  BY <1>2 DEF RoomAfter
<1>4. least \in RoomAfter(d) /\ \A m \in RoomAfter(d) : least <= m
  BY <1>1, <1>3
<1>5. \A n \in RoomAfter(d) : (\A m \in RoomAfter(d) : n <= m) => n = least
  <2>1. \A n \in RoomAfter(d) : n \in Nat
    BY <1>1, <1>3
  <2> HIDE DEF least
  <2> QED BY <2>1, <1>4
<1>6. (CHOOSE n \in RoomAfter(d) : \A m \in RoomAfter(d) : n <= m) = least
  <2> HIDE DEF least
  <2> QED BY <1>4, <1>5
<1> QED BY <1>4, <1>6 DEF MakeRoom

\* Clearing the key's list and deadline moves no node.
LEMMA OverwriteExact ==
    ASSUME NEW d, Sound(d), Exact(d), NEW k \in Key
    PROVE  /\ Exact(Overwrite(d, k))
           /\ NoLists(d) => NoLists(Overwrite(d, k))
<1>1. d \in Database
  BY SoundDatabase
<1>2. \A j \in Key : ~Has(d.list_store, j) => ~Has(Overwrite(d, k).list_store, j)
  BY <1>1 DEF Overwrite, Erase, Has, Database
<1> QED BY <1>2, OverwriteSound DEF Exact, Points, NoLists

\* set(): the key's node is in front, and behind it are the nodes that the unlinking
\* or the eviction left.
LEMMA SetExact ==
    ASSUME NEW d, Sound(d), Exact(d), NEW k \in Key, NEW v \in Value,
           SetHasRoom(d, k), \E c \in Cell : FreeCell(d, c)
    PROVE  LET o == Overwrite(d, k)
               m == IF Has(o.string_store, k) THEN Unlink(o, k) ELSE MakeRoom(o)
               e == Set(d, k, v)
           IN  /\ Exact(e)
               /\ NoLists(d) => NoLists(e)
               /\ Len(e.lru_order) = Len(m.lru_order) + 1
               /\ e.lru_order[1].key = k
               /\ \A i \in 1..Len(m.lru_order) : e.lru_order[i + 1] = m.lru_order[i]
<1> DEFINE o == Overwrite(d, k)
           m == IF Has(o.string_store, k) THEN Unlink(o, k) ELSE MakeRoom(o)
           e == Set(d, k, v)
<1>1. /\ Sound(o) /\ Exact(o) /\ (NoLists(d) => NoLists(o)) /\ o \in Database
      /\ o.string_store = d.string_store /\ o.lru_order = d.lru_order
  BY OverwriteSound, OverwriteExact, SoundDatabase
<1>2. \E c \in Cell : FreeCell(o, c)
  BY <1>1 DEF FreeCell
<1>3. /\ m \in Database /\ ExactBut(m, k) /\ (NoLists(o) => NoLists(m))
      /\ \E c \in Cell : FreeCell(m, c)
  <2>1. CASE Has(o.string_store, k)
    <3>1. Has(o.lru_position, k) /\ LruSound(o)
      BY <1>1, <2>1 DEF Sound, Tracked
    <3>2. Unlink(o, k) \in Database /\ FreeCell(Unlink(o, k), o.lru_position[k])
      BY <3>1, UnlinkSound
    <3>3. o.lru_position[k] \in Cell
      BY <3>1, <1>1 DEF Database, Has
    <3>4. Unlink(o, k).list_store = o.list_store
      BY <1>1 DEF Unlink, Database
    <3> QED BY <3>2, <3>3, <3>4, <1>1, <2>1, UnlinkExact DEF NoLists
  <2>2. CASE ~Has(o.string_store, k)
    <3>1. RoomAfter(o) # {}
      BY <2>2, <1>1 DEF SetHasRoom
    <3>2. PICK n \in 0..Len(o.lru_order) : MakeRoom(o) = EvictLast(o, n)
      BY <3>1, <1>1, MakeRoomSound
    <3>3. /\ MakeRoom(o) \in Database /\ Exact(MakeRoom(o))
          /\ (NoLists(o) => NoLists(MakeRoom(o)))
          /\ Sound(MakeRoom(o))
      BY <3>2, <1>1, EvictLastExact, EvictLastSound, SoundDatabase
    <3>4. /\ \A c : FreeCell(o, c) => FreeCell(MakeRoom(o), c)
          /\ Held(MakeRoom(o).string_store) \subseteq Held(o.string_store)
      BY <3>2, <1>1, EvictLastShrinks
    <3>5. \A i \in 1..Len(MakeRoom(o).lru_order) : MakeRoom(o).lru_order[i].key # k
      <4>1. ~Has(MakeRoom(o).string_store, k)
        BY <3>4, <2>2 DEF Held
      <4> QED BY <4>1, <3>3 DEF Exact
    <3> QED BY <3>3, <3>4, <3>5, <1>2, <2>2 DEF ExactBut
  <2> QED BY <2>1, <2>2
<1>4. e = [PushFront(m, k) EXCEPT !.string_store = [@ EXCEPT ![k] = v]]
  BY DEF Set
<1> HIDE DEF e, m, o
<1>5. /\ e.lru_order = PushFront(m, k).lru_order
      /\ e.lru_position = PushFront(m, k).lru_position
      /\ e.string_store = [m.string_store EXCEPT ![k] = v]
      /\ e.list_store = m.list_store
  BY <1>3, <1>4 DEF PushFront, Database
<1>6. \A j \in Key : Has(m.string_store, j) \/ j = k => Has(e.string_store, j)
  BY <1>3, <1>5, AbsentAssumption DEF Has, Database
<1>7. /\ Exact(e)
      /\ Len(e.lru_order) = Len(m.lru_order) + 1
      /\ e.lru_order[1].key = k
      /\ \A i \in 1..Len(m.lru_order) : e.lru_order[i + 1] = m.lru_order[i]
  BY <1>3, <1>5, <1>6, PushFrontExact
<1>8. NoLists(d) => NoLists(e)
  BY <1>1, <1>3, <1>5 DEF NoLists
<1> QED BY <1>7, <1>8 DEF e, m, o

\* A heap with more cells than the capacity has one for the next node.
LEMMA CellLeft ==
    ASSUME NEW d, Sound(d), Exact(d), Fits(d),
           IsFiniteSet(Cell) => Cardinality(Cell) > MaxCapacity
    PROVE  \E c \in Cell : FreeCell(d, c)
<1> SUFFICES ASSUME \A c \in Cell : ~FreeCell(d, c)
             PROVE  FALSE
  OBVIOUS
<1> DEFINE n == Len(d.lru_order)
           f == [i \in 1..n |-> d.lru_order[i].cell]
<1>1. d.lru_order \in Seq(Node) /\ n \in Nat /\ n <= MaxCapacity
  BY SoundDatabase, ExactCount, CapacityAssumption DEF Database, Fits
<1>2. \A i \in 1..n : d.lru_order[i].cell \in Cell
  <2>1. \A i \in 1..n : d.lru_order[i] \in Node
    BY <1>1
  <2> QED BY <2>1 DEF Node
<1>3. f \in Surjection(1..n, Cell)
  BY <1>2 DEF FreeCell, Surjection
<1>4. IsFiniteSet(1..n) /\ Cardinality(1..n) = n
  BY <1>1, FS_Interval
<1>5. IsFiniteSet(Cell) /\ Cardinality(Cell) <= n
  <2> HIDE DEF f
  <2> QED BY <1>3, <1>4, FS_Surjection DEF ExistsSurjection
<1> QED BY <1>1, <1>5, FS_CardinalityType, CapacityAssumption

-----------------------------------------------------------------------------
(* What snapshot() lists. *)

\* The entries of the keys of one store in some order.
EntryOf(type, expiry, map, k) ==
    [type |-> type, key |-> k, expiry |-> expiry[k], data |-> map[k]]
OrderOf(type, expiry, map, order) ==
    [i \in 1..Len(order) |-> EntryOf(type, expiry, map, order[i])]

Entry == [type : {"string"}, key : Key, expiry : Int \cup {Absent}, data : Value]
         \cup [type : {"list"}, key : Key, expiry : Int \cup {Absent}, data : Seq(Value)]

LiveStrings(d, t) == {k \in Held(d.string_store) : ~Elapsed(d, k, t)}
LiveLists(d, t) == {k \in Held(d.list_store) : ~Elapsed(d, k, t) /\ d.list_store[k] # <<>>}

\* s has one entry of each of the keys K of one store, in the given order.
Ordered(s, S, K, type, expiry, map, order) ==
    /\ s \in Seq(S) /\ Len(s) \in Nat
    /\ \A i \in 1..Len(s) : order[i] \in K /\ s[i] = EntryOf(type, expiry, map, order[i])
    /\ \A i, j \in 1..Len(s) : i # j => order[i] # order[j]
    /\ \A k \in K : \E i \in 1..Len(s) : order[i] = k

\* That is what the loop over one of the two hash maps lists.
LEMMA OrderedKeys ==
    ASSUME NEW S, NEW K, IsFiniteSet(K), NEW order \in SetToSeqs(K),
           NEW type, NEW expiry, NEW map,
           \A k \in K : EntryOf(type, expiry, map, k) \in S
    PROVE  Ordered(OrderOf(type, expiry, map, order), S, K, type, expiry, map, order)
<1> DEFINE n == Cardinality(K)
           s == OrderOf(type, expiry, map, order)
<1>1. n \in Nat
  BY FS_CardinalityType
<1>2. order \in [1..n -> K] /\ \A i, j \in 1..n : i # j => order[i] # order[j]
  BY DEF SetToSeqs
<1>3. Len(order) = n
  BY <1>1, <1>2, SeqDef
<1>4. s = [i \in 1..n |-> EntryOf(type, expiry, map, order[i])]
  BY <1>3 DEF OrderOf
<1>5. s \in [1..n -> S]
  BY <1>2, <1>4
<1> HIDE DEF s
<1>6. s \in Seq(S) /\ Len(s) = n
  BY <1>1, <1>5, SeqDef
<1>7. order \in Surjection(1..n, K)
  <2>1. order \in Injection(1..n, K)
    BY <1>2 DEF Injection, IsInjective
  <2>2. Cardinality(1..n) = n
    BY <1>1, FS_Interval
  <2> QED BY <2>1, <2>2, FS_Injection
<1>8. \A k \in K : \E i \in 1..n : order[i] = k
  BY <1>7 DEF Surjection
<1> HIDE DEF n
<1>9. Ordered(s, S, K, type, expiry, map, order)
  BY <1>1, <1>2, <1>4, <1>6, <1>8 DEF Ordered
<1> QED BY <1>9 DEF s

\* A snapshot is the live strings in some order and then the live lists in some order.
LEMMA SnapshotEntries ==
    ASSUME NEW d, Sound(d), NEW t, NEW entries \in Snapshots(d, t), NEW S, Entry \subseteq S
    PROVE  \E s, l, os, ol :
              /\ entries = s \o l
              /\ Ordered(s, S, LiveStrings(d, t), "string", d.expiry, d.string_store, os)
              /\ Ordered(l, S, LiveLists(d, t), "list", d.expiry, d.list_store, ol)
<1> DEFINE strings == LiveStrings(d, t)
           lists == LiveLists(d, t)
           A == {OrderOf("string", d.expiry, d.string_store, order) : order \in SetToSeqs(strings)}
           B == {OrderOf("list", d.expiry, d.list_store, order) : order \in SetToSeqs(lists)}
<1>1. IsFiniteSet(strings) /\ IsFiniteSet(lists)
  <2>1. strings \subseteq Key /\ lists \subseteq Key
    BY DEF LiveStrings, LiveLists, Held
  <2> QED BY <2>1, KeyAssumption, FS_Subset
<1>2. Snapshots(d, t) = {s \o l : s \in A, l \in B}
  <2>1. lists = {k \in {k \in Held(d.list_store) : ~Elapsed(d, k, t)} : d.list_store[k] # <<>>}
    BY DEF LiveLists
  <2>2. strings = {k \in Held(d.string_store) : ~Elapsed(d, k, t)}
    BY DEF LiveStrings
  <2> QED BY <2>1, <2>2 DEF Snapshots, OrderOf, EntryOf
<1>3. PICK s \in A, l \in B : entries = s \o l
  <2> HIDE DEF A, B
  <2> QED BY <1>2
<1>4. PICK os \in SetToSeqs(strings) : s = OrderOf("string", d.expiry, d.string_store, os)
  BY <1>3
<1>5. PICK ol \in SetToSeqs(lists) : l = OrderOf("list", d.expiry, d.list_store, ol)
  BY <1>3
<1>6. d \in Database
  BY SoundDatabase
<1>7. \A k \in strings : EntryOf("string", d.expiry, d.string_store, k) \in S
  BY <1>6 DEF LiveStrings, Held, Has, EntryOf, Entry, Database
<1>8. \A k \in lists : EntryOf("list", d.expiry, d.list_store, k) \in S
  BY <1>6 DEF LiveLists, Held, Has, EntryOf, Entry, Database
<1> HIDE DEF A, B, strings, lists
<1>9. Ordered(s, S, strings, "string", d.expiry, d.string_store, os)
  BY <1>1, <1>4, <1>7, OrderedKeys
<1>10. Ordered(l, S, lists, "list", d.expiry, d.list_store, ol)
  BY <1>1, <1>5, <1>8, OrderedKeys
<1> QED BY <1>3, <1>9, <1>10 DEF strings, lists
=============================================================================
