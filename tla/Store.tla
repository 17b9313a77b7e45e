------------------------------- MODULE Store -------------------------------
(***************************************************************************)
(* The storage engine of db.hpp / db.cpp as operators on a database value. *)
(*                                                                         *)
(* A database is a record with one field per member of class Database.  A  *)
(* hash map is a total function on Key in which Absent marks a key the map *)
(* does not hold.  lru_order_ is a std::list whose nodes live in heap      *)
(* cells; an iterator kept in lru_position_ is the cell it points to, so   *)
(* an iterator is dangling exactly when no node of the list occupies its   *)
(* cell.  Every operation takes the database and returns the next one;     *)
(* the operations that read the clock take the time as a parameter (one    *)
(* reading for the whole operation).                                       *)
(***************************************************************************)
EXTENDS Integers, SequencesExt

CONSTANTS
    Key,          \* keys
    Value,        \* string values and list elements
    Cell,         \* heap cells a list node can occupy (bounds lru_order_)
    Absent,       \* marks a key that a map does not hold
    MaxCapacity   \* max_capacity_, 31 in the code

ASSUME CapacityAssumption == MaxCapacity \in Nat \ {0}
ASSUME KeyAssumption == IsFiniteSet(Key)
ASSUME AbsentAssumption ==
    Absent \notin Value /\ Absent \notin Cell /\ Absent \notin Int /\ Absent \notin Seq(Value)

Node == [cell : Cell, key : Key]

Database == [string_store : [Key -> Value \cup {Absent}],
             list_store   : [Key -> Seq(Value) \cup {Absent}],
             expiry       : [Key -> Int \cup {Absent}],
             lru_order    : Seq(Node),
             lru_position : [Key -> Cell \cup {Absent}]]

EmptyMap == [k \in Key |-> Absent]

EmptyDb == [string_store |-> EmptyMap, list_store |-> EmptyMap, expiry |-> EmptyMap,
            lru_order |-> <<>>, lru_position |-> EmptyMap]

Has(map, k) == map[k] # Absent
Erase(map, K) == [k \in Key |-> IF k \in K THEN Absent ELSE map[k]]
Held(map) == {k \in Key : Has(map, k)}
Present(db, k) == Has(db.string_store, k) \/ Has(db.list_store, k)
Size(db) == Cardinality(Held(db.string_store)) + Cardinality(Held(db.list_store))

-----------------------------------------------------------------------------
(* The LRU list: where a key's iterator points, unlinking, push_front. *)

Points(db, k, i) == /\ db.lru_order[i].cell = db.lru_position[k]
                    /\ db.lru_order[i].key = k

\* lru_order_.erase(lru_position_[key])
Unlink(db, k) ==
    LET i == CHOOSE i \in 1..Len(db.lru_order) : db.lru_order[i].cell = db.lru_position[k]
    IN  [db EXCEPT !.lru_order = RemoveAt(@, i)]

FreeCell(db, c) == \A i \in 1..Len(db.lru_order) : db.lru_order[i].cell # c

\* Mutant: the iterator of the new node is not kept.
PushFrontUntracked(db, k) ==
    LET c == CHOOSE c \in Cell : FreeCell(db, c)
    IN  [db EXCEPT !.lru_order = Cons([cell |-> c, key |-> k], @)]

\* lru_order_.push_front(key); lru_position_[key] = lru_order_.begin()
PushFront(db, k) ==
    LET c == CHOOSE c \in Cell : FreeCell(db, c)
    IN  [db EXCEPT !.lru_order = Cons([cell |-> c, key |-> k], @),
                   !.lru_position = [@ EXCEPT ![k] = c]]

-----------------------------------------------------------------------------
(* Expiry. *)

\* Mutant: the deadline itself is not elapsed yet.
ElapsedLate(db, k, now) == Has(db.expiry, k) /\ now > db.expiry[k]

Elapsed(db, k, now) == Has(db.expiry, k) /\ now >= db.expiry[k]

\* What a client can see of a key: present, and its deadline not reached.
Visible(db, k, now) == Present(db, k) /\ ~Elapsed(db, k, now)

\* Mutants: the iterator, or the list, of an elapsed key stays.
LazyEvictKeepsIterator(db, k, now) ==
    IF ~Elapsed(db, k, now) THEN db
    ELSE LET lru == IF Has(db.lru_position, k) THEN Unlink(db, k) ELSE db
         IN  [lru EXCEPT !.string_store = Erase(@, {k}),
                         !.list_store   = Erase(@, {k}),
                         !.expiry       = Erase(@, {k})]

LazyEvictKeepsList(db, k, now) ==
    IF ~Elapsed(db, k, now) THEN db
    ELSE LET lru == IF Has(db.lru_position, k)
                    THEN [Unlink(db, k) EXCEPT !.lru_position = Erase(@, {k})]
                    ELSE db
         IN  [lru EXCEPT !.string_store = Erase(@, {k}), !.expiry = Erase(@, {k})]

\* is_expired(): an elapsed key is erased from every map and from the LRU list.
LazyEvict(db, k, now) ==
    IF ~Elapsed(db, k, now) THEN db
    ELSE LET lru == IF Has(db.lru_position, k)
                    THEN [Unlink(db, k) EXCEPT !.lru_position = Erase(@, {k})]
                    ELSE db
         IN  [lru EXCEPT !.string_store = Erase(@, {k}),
                         !.list_store   = Erase(@, {k}),
                         !.expiry       = Erase(@, {k})]

\* Mutant: the sweep takes every key that has a deadline.
EvictExpiredAll(db, now) ==
    LET expiring == Held(db.expiry)
    IN  [db EXCEPT !.string_store = Erase(@, expiring),
                   !.list_store   = Erase(@, expiring),
                   !.expiry       = Erase(@, expiring)]

\* evict_expired(), the active sweep: it leaves the LRU list as it is.
EvictExpired(db, now) ==
    LET elapsed == {k \in Key : Elapsed(db, k, now)}
    IN  [db EXCEPT !.string_store = Erase(@, elapsed),
                   !.list_store   = Erase(@, elapsed),
                   !.expiry       = Erase(@, elapsed)]

-----------------------------------------------------------------------------
(* Capacity: set() pops nodes off the back until there is room.  EvictLast  *)
(* is the effect of n rounds of that loop; the loop stops at the first n    *)
(* that leaves the stores below capacity.  When no n does (the list runs    *)
(* empty while lists alone fill the store) the code calls back() on an      *)
(* empty std::list.                                                         *)

\* Mutant: the nodes are taken off the front.
EvictFirst(db, n) ==
    LET keys == {db.lru_order[i].key : i \in 1..n}
    IN  [string_store |-> Erase(db.string_store, keys),
         list_store   |-> Erase(db.list_store, keys),
         expiry       |-> Erase(db.expiry, keys),
         lru_order    |-> SubSeq(db.lru_order, n + 1, Len(db.lru_order)),
         lru_position |-> Erase(db.lru_position, keys)]

EvictLast(db, n) ==
    LET len  == Len(db.lru_order)
        keys == {db.lru_order[i].key : i \in (len - n + 1)..len}
    IN  [string_store |-> Erase(db.string_store, keys),
         list_store   |-> Erase(db.list_store, keys),
         expiry       |-> Erase(db.expiry, keys),
         lru_order    |-> SubSeq(db.lru_order, 1, len - n),
         lru_position |-> Erase(db.lru_position, keys)]

\* Mutants: the comparison with the capacity is off by one, either way.
RoomAfterLess(db) == {n \in 0..Len(db.lru_order) : Size(EvictLast(db, n)) <= MaxCapacity}
RoomAfterMore(db) == {n \in 0..Len(db.lru_order) : Size(EvictLast(db, n)) < MaxCapacity - 1}

RoomAfter(db) == {n \in 0..Len(db.lru_order) : Size(EvictLast(db, n)) < MaxCapacity}

MakeRoom(db) ==
    LET n == CHOOSE n \in RoomAfter(db) : \A m \in RoomAfter(db) : n <= m
    IN  EvictLast(db, n)

-----------------------------------------------------------------------------
(* Strings. *)

\* Mutant: a string written over a list leaves the list.
OverwriteKeepsList(db, k) == [db EXCEPT !.expiry = Erase(@, {k})]

\* set() clears any list and any deadline before it looks at the capacity.
Overwrite(db, k) == [db EXCEPT !.list_store = Erase(@, {k}), !.expiry = Erase(@, {k})]

SetHasRoom(db, k) ==
    Has(db.string_store, k) \/ RoomAfter(Overwrite(db, k)) # {}

Set(db, k, v) ==
    LET old  == Overwrite(db, k)
        room == IF Has(old.string_store, k) THEN Unlink(old, k) ELSE MakeRoom(old)
    IN  [PushFront(room, k) EXCEPT !.string_store = [@ EXCEPT ![k] = v]]

\* Mutant: a read does not move the key to the front.
TouchInPlace(db, k) == db

\* The part of get() that follows the expiry check on a key that holds a string.
Touch(db, k) ==
    IF Has(db.lru_position, k) THEN PushFront(Unlink(db, k), k) ELSE db

\* Mutant: the deadline outlives the key.
DelKeepsDeadline(db, k) == [db EXCEPT !.string_store = Erase(@, {k}),
                                      !.list_store   = Erase(@, {k})]

\* del() erases the key from the maps; its LRU node stays.
Del(db, k) == [db EXCEPT !.string_store = Erase(@, {k}),
                         !.list_store   = Erase(@, {k}),
                         !.expiry       = Erase(@, {k})]

-----------------------------------------------------------------------------
(* Lists.  operator[] creates an empty deque for a key that has none; the   *)
(* pops delete a list, and its deadline, when they empty it.                *)

ListAt(db, k) == IF Has(db.list_store, k) THEN db.list_store[k] ELSE <<>>

WithList(db, k, s) == [db EXCEPT !.list_store = [@ EXCEPT ![k] = s]]

LPush(db, k, v) == WithList(db, k, Cons(v, ListAt(db, k)))
RPush(db, k, v) == WithList(db, k, Append(ListAt(db, k), v))

\* rpush() of each element in turn; no element, no operator[].
RPushAll(db, k, s) == IF s = <<>> THEN db ELSE WithList(db, k, ListAt(db, k) \o s)

\* Mutant: a pop leaves an empty list behind.
PopToEmpty(db, k, rest) == WithList(db, k, rest)

PopTo(db, k, rest) ==
    IF rest = <<>>
    THEN [db EXCEPT !.list_store = Erase(@, {k}), !.expiry = Erase(@, {k})]
    ELSE WithList(db, k, rest)

\* lpop() and rpop() check the deadline themselves.
LPop(db, k, now) ==
    LET e == LazyEvict(db, k, now)
    IN  IF ListAt(e, k) = <<>> THEN e ELSE PopTo(e, k, Tail(e.list_store[k]))

RPop(db, k, now) ==
    LET e == LazyEvict(db, k, now)
    IN  IF ListAt(e, k) = <<>> THEN e ELSE PopTo(e, k, Front(e.list_store[k]))

-----------------------------------------------------------------------------
(* Deadlines. *)

\* expire_at(): no expiry check, no effect on an absent key.
ExpireAt(db, k, deadline) ==
    IF Present(db, k) THEN [db EXCEPT !.expiry = [@ EXCEPT ![k] = deadline]] ELSE db

\* expire(): an elapsed key is evicted, never revived.
Expire(db, k, deadline, now) == ExpireAt(LazyEvict(db, k, now), k, deadline)

-----------------------------------------------------------------------------
(* snapshot(): the keys whose deadline has not passed, strings first, each    *)
(* store in the order of its hash map, which is any order.  An entry without  *)
(* deadline carries Absent (-1 in the code).  Nothing is evicted.             *)

Snapshots(db, now) ==
    LET Entry(type, map, k) ==
            [type |-> type, key |-> k, expiry |-> db.expiry[k], data |-> map[k]]
        Entries(type, map, K) ==
            {[i \in 1..Len(order) |-> Entry(type, map, order[i])] : order \in SetToSeqs(K)}
        Live(map) == {k \in Held(map) : ~Elapsed(db, k, now)}
        lists == {k \in Live(db.list_store) : db.list_store[k] # <<>>}
    IN  {s \o l : s \in Entries("string", db.string_store, Live(db.string_store)),
                  l \in Entries("list", db.list_store, lists)}

=============================================================================
