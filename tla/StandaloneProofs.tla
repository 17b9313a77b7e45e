-------------------------- MODULE StandaloneProofs -------------------------
(***************************************************************************)
(* The invariants of Standalone for every set of keys, values and cells,   *)
(* every capacity and every clock.  The inductive invariant is that the    *)
(* database is sound (StoreProofs): none of the invariants is inductive by *)
(* itself.  An iterator stays valid only because cells are distinct, a     *)
(* string keeps its iterator only because eviction erases both, and a      *)
(* deadline keeps its key only because the stores are disjoint.  The       *)
(* action properties follow from the invariant, one step at a time: each   *)
(* handler is an unseen look at the deadline and an effect on its own key. *)
(*                                                                         *)
(* Standalone implements Keyspace, if no deadline overflows int64_t.  The  *)
(* mapping shows the visible part of each key; a handler's look at the     *)
(* deadline, the sweep and the LRU list change nothing in it, so each      *)
(* handler is the abstract action of its key, applied to the database as   *)
(* that look leaves it.                                                    *)
(***************************************************************************)
EXTENDS Standalone, StoreProofs

-----------------------------------------------------------------------------
(* The inductive invariant. *)

IInv == /\ Sound(db) /\ Fits(db)
        /\ now \in 0..MaxTime
        /\ loop_tick \in 0..(EvictionInterval - 1)
        /\ up \in BOOLEAN
        /\ reply \in Reply

\* The empty database of a fresh server satisfies the invariant.
LEMMA InitIInv == Init => IInv
BY EmptySound, RepliesTyped, LoopAssumption DEF Init, IInv

\* Serving a good result keeps the invariant.
LEMMA ServeIInv ==
    ASSUME IInv, NEW r, GoodResult(r), Serve(r)
    PROVE  IInv'
BY DEF IInv, GoodResult, Serve

\* Every command keeps the invariant.
LEMMA CommandIInv ==
    ASSUME IInv, HandleCommand
    PROVE  IInv'
<1>1. Sound(db) /\ Fits(db) /\ now \in Int
  BY LoopAssumption DEF IInv
<1>2. ASSUME NEW k \in Key, NEW v \in Value, HandleSet(k, v)
      PROVE  IInv'
  BY <1>1, <1>2, DoSetGood, ServeIInv DEF HandleSet, HeapHasCell
<1>3. ASSUME NEW k \in Key, NEW v \in Value, HandleLPush(k, v)
      PROVE  IInv'
  BY <1>1, <1>3, DoPushGood, ServeIInv DEF HandleLPush
<1>4. ASSUME NEW k \in Key, NEW v \in Value, HandleRPush(k, v)
      PROVE  IInv'
  BY <1>1, <1>4, DoPushGood, ServeIInv DEF HandleRPush
<1>5. ASSUME NEW k \in Key, NEW s \in Seconds, HandleExpire(k, s)
      PROVE  IInv'
  BY <1>1, <1>5, DoExpireGood, ServeIInv DEF HandleExpire
<1>6. ASSUME NEW k \in Key, HandleGet(k)
      PROVE  IInv'
  BY <1>1, <1>6, DoGetGood, ServeIInv DEF HandleGet
<1>7. ASSUME NEW k \in Key, HandleDel(k)
      PROVE  IInv'
  BY <1>1, <1>7, DoDelGood, ServeIInv DEF HandleDel
<1>8. ASSUME NEW k \in Key, HandleExists(k)
      PROVE  IInv'
  BY <1>1, <1>8, DoExistsGood, ServeIInv DEF HandleExists
<1>9. ASSUME NEW k \in Key, HandleTtl(k)
      PROVE  IInv'
  BY <1>1, <1>9, DoTtlGood, ServeIInv DEF HandleTtl
<1>10. ASSUME NEW k \in Key, HandleLPop(k) \/ HandleRPop(k)
       PROVE  IInv'
  BY <1>1, <1>10, DoPopGood, ServeIInv DEF HandleLPop, HandleRPop
<1>11. ASSUME NEW k \in Key, HandleLLen(k)
       PROVE  IInv'
  BY <1>1, <1>11, DoLLenGood, ServeIInv DEF HandleLLen
<1>12. ASSUME HandleOther
       PROVE  IInv'
  <2>1. PICK r \in {Pong, Err} \cup {Bulk(v) : v \in Value} : Serve(Result(db, r))
    BY <1>12 DEF HandleOther
  <2>2. r \in Reply
    BY RepliesTyped
  <2> QED BY <1>1, <2>1, <2>2, ResultGood, ServeIInv
<1> QED BY <1>2, <1>3, <1>4, <1>5, <1>6, <1>7, <1>8, <1>9, <1>10, <1>11, <1>12
        DEF HandleCommand

\* Every step keeps the invariant, the sweep, the clock and a restart included.
LEMMA NextIInv == IInv /\ [Next]_vars => IInv'
<1> SUFFICES ASSUME IInv, [Next]_vars
             PROVE  IInv'
  OBVIOUS
<1>1. CASE HandleCommand
  BY <1>1, CommandIInv
<1>2. CASE LoopTick
  <2>1. Sound(EvictExpired(db, now)) /\ Fits(EvictExpired(db, now))
    BY LoopAssumption, EvictExpiredSound, EvictExpiredFits DEF IInv
  <2>2. loop_tick' \in 0..(EvictionInterval - 1)
    BY <1>2, LoopAssumption DEF LoopTick, IInv
  <2> QED BY <1>2, <2>1, <2>2 DEF LoopTick, IInv
<1>3. CASE Advance
  BY <1>3, LoopAssumption DEF Advance, IInv
<1>4. CASE Restart
  BY <1>4, EmptySound, LoopAssumption DEF Restart, IInv
<1>5. CASE UNCHANGED vars
  BY <1>5 DEF vars, IInv
<1> QED BY <1>1, <1>2, <1>3, <1>4, <1>5 DEF Next

\* The invariant holds throughout every behaviour.
LEMMA SpecIInv == Spec => []IInv
BY InitIInv, NextIInv, PTL DEF Spec

-----------------------------------------------------------------------------
(* The theorems. *)

\* The database keeps its type under every command, sweep and restart.
THEOREM TypeCorrect == Spec => []TypeOK
<1>1. IInv => TypeOK
  BY SoundDatabase DEF IInv, TypeOK
<1> QED BY <1>1, SpecIInv, PTL

\* No key is ever a string and a list at once.
THEOREM StoresDisjoint == Spec => []DisjointStores
<1>1. IInv => DisjointStores
  BY DEF IInv, Sound, StoresSound, DisjointStores
<1> QED BY <1>1, SpecIInv, PTL

\* No list is ever empty.
THEOREM ListsNonEmpty == Spec => []NoEmptyList
<1>1. IInv => NoEmptyList
  BY DEF IInv, Sound, StoresSound, NoEmptyList
<1> QED BY <1>1, SpecIInv, PTL

\* No deadline outlives its key.
THEOREM DeadlinesOwned == Spec => []NoOrphanDeadline
<1>1. IInv => NoOrphanDeadline
  BY DEF IInv, Sound, StoresSound, NoOrphanDeadline
<1> QED BY <1>1, SpecIInv, PTL

\* No iterator into lru_order_ ever dangles or points to another key's node, so
\* every erase through lru_position_ is defined behaviour.
THEOREM NoDanglingIterator == Spec => []IteratorsValid
<1>1. IInv => IteratorsValid
  BY DEF IInv, Sound, LruSound, DistinctCells, Linked, IteratorsValid
<1> QED BY <1>1, SpecIInv, PTL

\* set() on an existing string always finds the iterator it erases through.
THEOREM EveryStringTracked == Spec => []StringsTracked
<1>1. IInv => StringsTracked
  BY DEF IInv, Sound, Tracked, StringsTracked
<1> QED BY <1>1, SpecIInv, PTL

\* The strings never exceed max_capacity_, for every capacity.
THEOREM StringsWithinCapacity == Spec => []StringsFit
<1>1. IInv => StringsFit
  BY DEF IInv, Fits, StringsFit
<1> QED BY <1>1, SpecIInv, PTL

-----------------------------------------------------------------------------
(* The steps: no visible key is lost and none appears without a reason. *)

Explained == LossExplained /\ BirthExplained

\* Away from the key of the command there is nothing to explain.
LEMMA ElsewhereQuiet ==
    ASSUME NEW k \in Key, UnseenElsewhere(db, db', k, now), now' = now
    PROVE  \A j \in Key \ {k} : Visible(db', j, now') <=> Visible(db, j, now)
BY UnseenVisible DEF UnseenElsewhere

\* Nothing is to explain when no key changes for a client.
LEMMA AllQuiet ==
    ASSUME \A j \in Key : Unseen(db, db', j, now), now' = now
    PROVE  Explained
<1>1. \A j \in Key : Visible(db', j, now') <=> Visible(db, j, now)
  BY UnseenVisible
<1> QED BY <1>1 DEF Explained, LossExplained, BirthExplained

\* SET.
LEMMA SetExplained ==
    ASSUME IInv, NEW k \in Key, NEW v \in Value, HandleSet(k, v)
    PROVE  Explained
<1>1. now' = now /\ db' = DoSet(db, k, v).db /\ Sound(db)
  BY DEF HandleSet, Serve, IInv
<1>2. CASE ~SetHasRoom(db, k)
  <2>1. db' = db
    BY <1>1, <1>2 DEF DoSet, Result
  <2> QED BY <1>1, <2>1, AllQuiet DEF Unseen, SameAt
<1>3. CASE SetHasRoom(db, k)
  <2>1. db' = Set(db, k, v)
    BY <1>1, <1>3 DEF DoSet, Result
  <2>2. /\ db'.string_store[k] = v /\ ~Has(db'.expiry, k)
        /\ \A j \in Key \ {k} :
              \/ SameAt(db, db', j)
              \/ /\ ~Present(db', j)
                 /\ ~Has(db.string_store, k)
                 /\ Size(Overwrite(db, k)) >= MaxCapacity
    BY <1>1, <1>3, <2>1, SetSeen
  <2>3. Visible(db', k, now')
    BY <2>2, AbsentAssumption DEF Visible, Present, Has, Elapsed
  <2>4. \A j \in Key \ {k} : SameAt(db, db', j) => (Visible(db', j, now') <=> Visible(db, j, now))
    BY <1>1, UnseenVisible DEF Unseen
  <2>5. \A j \in Key \ {k} : ~Present(db', j) => ~Visible(db', j, now')
    BY DEF Visible
  <2>6. LossExplained
    <3> SUFFICES ASSUME NEW j \in Key, Visible(db, j, now), ~Visible(db', j, now')
                 PROVE  \E i \in Key \ {j}, w \in Value :
                           /\ HandleSet(i, w)
                           /\ ~Has(db.string_store, i)
                           /\ Size(Overwrite(db, i)) >= MaxCapacity
      BY DEF LossExplained
    <3>1. j # k
      BY <2>3
    <3>2. ~SameAt(db, db', j)
      BY <2>4, <3>1
    <3>3. ~Has(db.string_store, k) /\ Size(Overwrite(db, k)) >= MaxCapacity
      BY <2>2, <3>1, <3>2
    <3>4. k \in Key \ {j}
      BY <3>1
    <3> QED BY <3>3, <3>4, Zenon
  <2>7. BirthExplained
    <3> SUFFICES ASSUME NEW j \in Key, ~Visible(db, j, now), Visible(db', j, now')
                 PROVE  /\ ~Has(db'.expiry, j)
                        /\ \E w \in Value : HandleSet(j, w)
      BY DEF BirthExplained
    <3>1. j = k
      BY <2>2, <2>4, <2>5
    <3> QED BY <2>2, <3>1
  <2> QED BY <2>6, <2>7 DEF Explained
<1> QED BY <1>2, <1>3

\* LPUSH and RPUSH.
LEMMA PushExplained ==
    ASSUME IInv, NEW k \in Key, NEW v \in Value, HandleLPush(k, v) \/ HandleRPush(k, v)
    PROVE  Explained
<1> DEFINE g == LazyEvict(db, k, now)
<1>1. /\ now' = now /\ Sound(db) /\ now \in Int
      /\ db' \in {DoLPush(db, k, v, now).db, DoRPush(db, k, v, now).db}
  BY LoopAssumption DEF HandleLPush, HandleRPush, Serve, IInv
<1>2. /\ Unseen(db, g, k, now) /\ Sound(g)
      /\ Present(g, k) <=> Visible(db, k, now)
      /\ ~Visible(db, k, now) => ~Has(g.expiry, k)
  BY <1>1, LazyEvictDecides
<1>3. /\ UnseenElsewhere(db, db', k, now)
      /\ IsString(g, k) => db' = g
      /\ ~IsString(g, k) =>
            /\ Visible(db', k, now) /\ db'.expiry = g.expiry
            /\ db'.list_store[k] \in {Cons(v, ListAt(g, k)), Append(ListAt(g, k), v)}
  BY <1>1, PushSeen
<1>4. CASE IsString(g, k)
  <2>1. \A j \in Key : Unseen(db, db', j, now)
    BY <1>2, <1>3, <1>4 DEF UnseenElsewhere
  <2> QED BY <1>1, <2>1, AllQuiet
<1>5. CASE ~IsString(g, k)
  <2>1. \A j \in Key \ {k} : Visible(db', j, now') <=> Visible(db, j, now)
    BY <1>1, <1>3, ElsewhereQuiet
  <2>2. Visible(db', k, now')
    BY <1>1, <1>3, <1>5
  <2>3. LossExplained
    BY <2>1, <2>2 DEF LossExplained
  <2>4. ~Visible(db, k, now) => ~Has(db'.expiry, k) /\ db'.list_store[k] = <<v>>
    <3> SUFFICES ASSUME ~Visible(db, k, now)
                 PROVE  ~Has(db'.expiry, k) /\ db'.list_store[k] = <<v>>
      OBVIOUS
    <3>1. ListAt(g, k) = <<>> /\ ~Has(g.expiry, k)
      BY <1>2 DEF ListAt, Present
    <3>2. Cons(v, <<>>) = <<v>> /\ Append(<<>>, v) = <<v>>
      BY DEF Cons
    <3> QED BY <1>3, <1>5, <3>1, <3>2 DEF Has
  <2>5. BirthExplained
    <3> SUFFICES ASSUME NEW j \in Key, ~Visible(db, j, now), Visible(db', j, now')
                 PROVE  /\ ~Has(db'.expiry, j)
                        /\ \E w \in Value :
                              (HandleLPush(j, w) \/ HandleRPush(j, w)) /\ db'.list_store[j] = <<w>>
      BY DEF BirthExplained
    <3>1. j = k
      BY <2>1
    <3> QED BY <2>4, <3>1, Zenon
  <2> QED BY <2>3, <2>5 DEF Explained
<1> QED BY <1>4, <1>5

\* LPOP and RPOP give no life to their key.
LEMMA PopExplained ==
    ASSUME IInv, NEW k \in Key, HandleLPop(k) \/ HandleRPop(k)
    PROVE  Explained
<1> DEFINE g == LazyEvict(db, k, now)
<1>1. /\ now' = now /\ Sound(db) /\ now \in Int
      /\ db' \in {DoLPop(db, k, now).db, DoRPop(db, k, now).db}
  BY LoopAssumption DEF HandleLPop, HandleRPop, Serve, IInv
<1>2. /\ Unseen(db, g, k, now)
      /\ Present(g, k) <=> Visible(db, k, now)
  BY <1>1, LazyEvictDecides
<1>3. /\ UnseenElsewhere(db, db', k, now)
      /\ IsString(g, k) \/ ListAt(g, k) = <<>> => db' = g
  BY <1>1, PopSeen
<1>4. ~Visible(db, k, now) => ~Visible(db', k, now')
  <2>1. ~Visible(db, k, now) => ListAt(g, k) = <<>>
    BY <1>2 DEF ListAt, Present
  <2> QED BY <1>1, <1>2, <1>3, <2>1, UnseenVisible
<1>5. \A j \in Key \ {k} : Visible(db', j, now') <=> Visible(db, j, now)
  BY <1>1, <1>3, ElsewhereQuiet
<1>6. LossExplained
  <2> SUFFICES ASSUME NEW j \in Key, Visible(db, j, now), ~Visible(db', j, now')
               PROVE  HandleLPop(j) \/ HandleRPop(j)
    BY Zenon DEF LossExplained
  <2>1. j = k
    BY <1>5
  <2> QED BY <2>1
<1>7. BirthExplained
  BY <1>4, <1>5 DEF BirthExplained
<1> QED BY <1>6, <1>7 DEF Explained

\* EXPIRE gives no life to its key.
LEMMA ExpireExplained ==
    ASSUME IInv, NEW k \in Key, NEW s \in Seconds, HandleExpire(k, s)
    PROVE  Explained
<1>1. /\ now' = now /\ Sound(db) /\ now \in Int
      /\ db' = DoExpire(db, k, s, now).db
  BY LoopAssumption DEF HandleExpire, Serve, IInv
<1>2. /\ UnseenElsewhere(db, db', k, now)
      /\ ~Visible(db, k, now) => Unseen(db, db', k, now)
  BY <1>1, ExpireSeen
<1>3. ~Visible(db, k, now) => ~Visible(db', k, now')
  BY <1>1, <1>2, UnseenVisible
<1>4. \A j \in Key \ {k} : Visible(db', j, now') <=> Visible(db, j, now)
  BY <1>1, <1>2, ElsewhereQuiet
<1>5. LossExplained
  <2> SUFFICES ASSUME NEW j \in Key, Visible(db, j, now), ~Visible(db', j, now')
               PROVE  \E x \in Seconds : HandleExpire(j, x)
    BY Zenon DEF LossExplained
  <2>1. j = k
    BY <1>4
  <2> QED BY <2>1
<1>6. BirthExplained
  BY <1>3, <1>4 DEF BirthExplained
<1> QED BY <1>5, <1>6 DEF Explained

\* DEL takes its own key only.
LEMMA DelExplained ==
    ASSUME IInv, NEW k \in Key, HandleDel(k)
    PROVE  Explained
<1>1. now' = now /\ db \in Database /\ db' = Del(db, k)
  BY SoundDatabase DEF HandleDel, DoDel, Result, Serve, IInv
<1>2. \A j \in Key : IF j = k THEN ~Present(db', j) ELSE SameAt(db, db', j)
  BY <1>1, DelClears
<1>3. \A j \in Key \ {k} : Visible(db', j, now') <=> Visible(db, j, now)
  BY <1>1, <1>2, ElsewhereQuiet DEF UnseenElsewhere, Unseen
<1>4. ~Visible(db', k, now')
  BY <1>2 DEF Visible
<1>5. LossExplained
  <2> SUFFICES ASSUME NEW j \in Key, Visible(db, j, now), ~Visible(db', j, now')
               PROVE  HandleDel(j)
    BY Zenon DEF LossExplained
  <2>1. j = k
    BY <1>3
  <2> QED BY <2>1
<1>6. BirthExplained
  BY <1>3, <1>4 DEF BirthExplained
<1> QED BY <1>5, <1>6 DEF Explained

\* Every step explains what it takes and what it brings to life.
LEMMA NextExplained == IInv /\ [Next]_vars => Explained
<1> SUFFICES ASSUME IInv, [Next]_vars
             PROVE  Explained
  OBVIOUS
<1>1. Sound(db) /\ now \in Int /\ db \in Database
  BY LoopAssumption, SoundDatabase DEF IInv
<1>2. CASE HandleCommand
  <2>1. ASSUME NEW k \in Key,
               HandleGet(k) \/ HandleExists(k) \/ HandleTtl(k) \/ HandleLLen(k)
        PROVE  Explained
    <3>1. /\ now' = now
          /\ db' \in {DoGet(db, k, now).db, DoExists(db, k, now).db,
                      DoTtl(db, k, now).db, DoLLen(db, k, now).db}
      BY <2>1 DEF HandleGet, HandleExists, HandleTtl, HandleLLen, Serve
    <3> QED BY <1>1, <3>1, ReadsUnseen, AllQuiet
  <2>2. ASSUME HandleOther
        PROVE  Explained
    <3>1. db' = db /\ now' = now
      BY <2>2 DEF HandleOther, Serve, Result
    <3> QED BY <3>1, AllQuiet DEF Unseen, SameAt
  <2>3. ASSUME NEW k \in Key, HandleDel(k) \/ HandleLPop(k) \/ HandleRPop(k)
        PROVE  Explained
    BY <2>3, DelExplained, PopExplained
  <2>4. ASSUME NEW k \in Key, NEW v \in Value,
               HandleSet(k, v) \/ HandleLPush(k, v) \/ HandleRPush(k, v)
        PROVE  Explained
    BY <2>4, SetExplained, PushExplained
  <2> QED BY <1>2, <2>1, <2>2, <2>3, <2>4, ExpireExplained, Zenon DEF HandleCommand
<1>3. CASE LoopTick
  <2>1. now' = now /\ db' \in {db, EvictExpired(db, now)}
    BY <1>3 DEF LoopTick
  <2> QED BY <1>1, <2>1, EvictExpiredUnseen, AllQuiet DEF Unseen, SameAt
<1>4. CASE Advance
  <2>1. db' = db /\ now' = now + 1
    BY <1>4 DEF Advance
  <2>2. \A k \in Key : Elapsed(db, k, now) => Elapsed(db, k, now')
    BY <1>1, <2>1 DEF Elapsed, Database, Has
  <2>3. \A k \in Key : Visible(db', k, now') => Visible(db, k, now)
    BY <2>1, <2>2 DEF Visible
  <2>4. LossExplained
    BY <1>4, Zenon DEF LossExplained
  <2> QED BY <2>3, <2>4 DEF Explained, BirthExplained
<1>5. CASE Restart
  <2>1. \A k \in Key : ~Visible(db', k, now')
    BY <1>5 DEF Restart, Visible, Present, Has, EmptyDb, EmptyMap
  <2>2. LossExplained
    BY <1>5, Zenon DEF LossExplained
  <2> QED BY <2>1, <2>2 DEF Explained, BirthExplained
<1>6. CASE UNCHANGED vars
  BY <1>6, AllQuiet DEF vars, Unseen, SameAt
<1> QED BY <1>2, <1>3, <1>4, <1>5, <1>6 DEF Next

\* A key a client could read is never lost without a reason a client can know of.
THEOREM NothingLostSilently == Spec => NoSilentLoss
<1>1. IInv /\ [Next]_vars => [LossExplained]_vars
  BY NextExplained DEF Explained
<1> QED BY <1>1, SpecIInv, PTL DEF Spec, NoSilentLoss

\* A key comes to life only by a SET or a push, without any part of a dead one.
THEOREM KeysStartFresh == Spec => FreshStart
<1>1. IInv /\ [Next]_vars => [BirthExplained]_vars
  BY NextExplained DEF Explained
<1> QED BY <1>1, SpecIInv, PTL DEF Spec, FreshStart

-----------------------------------------------------------------------------
(* How much a SET evicts. *)

\* Whenever a SET evicts another key, the stores are exactly full afterwards.
LEMMA SetFillsExactly == IInv => EvictionFillsExactly
<1> SUFFICES ASSUME IInv, NEW k \in Key, NEW v \in Value, HandleSet(k, v),
                    NEW j \in Key \ {k}, Present(db, j), ~Present(db', j)
             PROVE  Size(db') = MaxCapacity
  BY DEF EvictionFillsExactly
<1> DEFINE old == Overwrite(db, k)
<1>1. db' = DoSet(db, k, v).db /\ Sound(db)
  BY DEF HandleSet, Serve, IInv
<1>2. SetHasRoom(db, k) /\ db' = Set(db, k, v)
  BY <1>1 DEF DoSet, Result
<1>3. ~SameAt(db, db', j)
  BY DEF SameAt, Present, Has
<1>4. ~Has(db.string_store, k) /\ Size(old) >= MaxCapacity
  BY <1>1, <1>2, <1>3, SetSeen
<1>5. RoomAfter(old) # {} /\ Sound(old)
  BY <1>1, <1>2, <1>4, OverwriteSound DEF SetHasRoom
<1>6. Size(MakeRoom(old)) = MaxCapacity - 1
  BY <1>4, <1>5, MakeRoomFills
<1>7. Size(db') = Size(MakeRoom(old)) + 1
  BY <1>1, <1>2, <1>4, <1>5, SetSize
<1> QED BY <1>6, <1>7, CapacityAssumption

\* set() never evicts one key more than it needs, for every capacity.
THEOREM EvictionIsMinimal == Spec => EvictsNoMoreThanNeeded
<1>1. IInv /\ [Next]_vars => [EvictionFillsExactly]_vars
  BY SetFillsExactly
<1> QED BY <1>1, SpecIInv, PTL DEF Spec, EvictsNoMoreThanNeeded

-----------------------------------------------------------------------------
(* Standalone implements Keyspace. *)

\* No deadline that EXPIRE computes leaves the range of int64_t.
NoOverflow == \A s \in Seconds : s \in Int => MaxTime + s * MsPerSecond < Int64Half

\* What a client sees of a key of database d at time t.
EntryAt(d, t, k) ==
    IF ~Visible(d, k, t) THEN Absent
    ELSE [data |-> IF IsString(d, k) THEN [string |-> d.string_store[k]]
                                     ELSE [list |-> d.list_store[k]],
          deadline |-> d.expiry[k]]

View(d, t) == [k \in Key |-> EntryAt(d, t, k)]

-----------------------------------------------------------------------------
(* The mapping. *)

\* The mapping is the view of the current database.
LEMMA ViewNow ==
    /\ [k \in Key |-> VisibleEntry(k)] = View(db, now)
    /\ [k \in Key |-> VisibleEntry(k)]' = View(db', now')
BY DEF VisibleEntry, View, EntryAt

\* The entry of a visible key is not the mark of an absent one.
LEMMA EntryPresent ==
    ASSUME NEW d, Sound(d), NEW k \in Key, NEW t, Visible(d, k, t)
    PROVE  EntryAt(d, t, k) # Absent
<1>1. d \in Database
  BY SoundDatabase
<1>2. d.expiry[k] \in Int \cup {Absent}
  BY <1>1 DEF Database
<1>3. CASE IsString(d, k)
  <2>1. d.string_store[k] \in Value
    BY <1>1, <1>3 DEF IsString, Has, Database
  <2>2. EntryAt(d, t, k) = [data |-> [string |-> d.string_store[k]], deadline |-> d.expiry[k]]
    BY <1>3 DEF EntryAt
  <2> QED BY <1>2, <2>1, <2>2, EntryAssumption
<1>4. CASE ~IsString(d, k)
  <2>1. d.list_store[k] \in Seq(Value)
    BY <1>1, <1>4 DEF IsString, Has, Database, Visible, Present
  <2>2. EntryAt(d, t, k) = [data |-> [list |-> d.list_store[k]], deadline |-> d.expiry[k]]
    BY <1>4 DEF EntryAt
  <2> QED BY <1>2, <2>1, <2>2, EntryAssumption
<1> QED BY <1>3, <1>4

\* What no client can tell apart has the same entry.
LEMMA EntryUnseen ==
    ASSUME NEW d, NEW e, NEW k, NEW t, Unseen(d, e, k, t)
    PROVE  EntryAt(e, t, k) = EntryAt(d, t, k)
<1>1. CASE SameAt(d, e, k)
  BY <1>1 DEF SameAt, EntryAt, Visible, Present, Elapsed, Has, IsString
<1>2. CASE Elapsed(d, k, t) /\ ~Present(e, k)
  BY <1>2 DEF EntryAt, Visible
<1> QED BY <1>1, <1>2 DEF Unseen

\* A change no client can see leaves the view.
LEMMA ViewSame ==
    ASSUME NEW d, NEW e, NEW t, \A k \in Key : Unseen(d, e, k, t)
    PROVE  View(e, t) = View(d, t)
BY EntryUnseen DEF View

\* A change seen at one key changes the view there.
LEMMA ViewPut ==
    ASSUME NEW d, NEW e, NEW k \in Key, NEW t, UnseenElsewhere(d, e, k, t)
    PROVE  View(e, t) = [View(d, t) EXCEPT ![k] = EntryAt(e, t, k)]
<1>1. \A j \in Key \ {k} : EntryAt(e, t, j) = EntryAt(d, t, j)
  BY EntryUnseen DEF UnseenElsewhere
<1> QED BY <1>1 DEF View

\* The abstract state of a key, read off the database as the look at its deadline
\* leaves it.
LEMMA AbstractKey ==
    ASSUME IInv, NEW k \in Key
    PROVE  LET g == LazyEvict(db, k, now)
           IN  /\ Keys!Live(k) <=> Present(g, k)
               /\ Keys!IsStr(k) <=> IsString(g, k)
               /\ Keys!IsLst(k) <=> IsList(g, k)
               /\ IsString(g, k) => View(db, now)[k].data.string = g.string_store[k]
               /\ Keys!Items(k) = ListAt(g, k)
               /\ Keys!DeadlineOf(k) = g.expiry[k]
<1> DEFINE g == LazyEvict(db, k, now)
           entry == EntryAt(db, now, k)
<1>1. Sound(db) /\ now \in Int /\ db \in Database
  BY LoopAssumption, SoundDatabase DEF IInv
<1>2. /\ Sound(g) /\ g \in Database
      /\ Present(g, k) <=> Visible(db, k, now)
      /\ Visible(db, k, now) => g = db
      /\ ~Visible(db, k, now) => ~Has(g.expiry, k)
  BY <1>1, LazyEvictDecides
<1>3. /\ Keys!Live(k) <=> entry # Absent
      /\ Keys!IsStr(k) <=> entry # Absent /\ "string" \in DOMAIN entry.data
      /\ Keys!IsLst(k) <=> entry # Absent /\ "list" \in DOMAIN entry.data
      /\ Keys!Items(k) = IF entry # Absent /\ "list" \in DOMAIN entry.data
                         THEN entry.data.list ELSE <<>>
      /\ Keys!DeadlineOf(k) = IF entry # Absent THEN entry.deadline ELSE Absent
      /\ View(db, now)[k] = entry
  BY ViewNow DEF Keys!Live, Keys!IsStr, Keys!IsLst, Keys!Items, Keys!DeadlineOf, View
<1>4. CASE ~Visible(db, k, now)
  <2>1. entry = Absent
    BY <1>4 DEF EntryAt
  <2>2. ~Present(g, k) /\ ~IsString(g, k) /\ ~IsList(g, k) /\ ListAt(g, k) = <<>>
    BY <1>2, <1>4 DEF Present, IsString, IsList, ListAt
  <2>3. g.expiry[k] = Absent
    BY <1>2, <1>4 DEF Has
  <2> QED BY <1>3, <2>1, <2>2, <2>3
<1>5. CASE Visible(db, k, now) /\ IsString(db, k)
  <2>1. entry = [data |-> [string |-> db.string_store[k]], deadline |-> db.expiry[k]]
    BY <1>5 DEF EntryAt
  <2>2. entry # Absent
    BY <1>1, <1>5, EntryPresent
  <2>3. g = db /\ Present(g, k) /\ ~IsList(g, k) /\ ListAt(g, k) = <<>>
    BY <1>1, <1>2, <1>5 DEF IsString, IsList, ListAt, Sound, StoresSound
  <2> QED BY <1>3, <1>5, <2>1, <2>2, <2>3
<1>6. CASE Visible(db, k, now) /\ ~IsString(db, k)
  <2>1. entry = [data |-> [list |-> db.list_store[k]], deadline |-> db.expiry[k]]
    BY <1>6 DEF EntryAt
  <2>2. entry # Absent
    BY <1>1, <1>6, EntryPresent
  <2>3. /\ g = db /\ Present(g, k) /\ ~IsString(g, k) /\ IsList(g, k)
        /\ ListAt(g, k) = db.list_store[k]
    BY <1>2, <1>6 DEF Present, IsString, IsList, ListAt
  <2> QED BY <1>3, <2>1, <2>2, <2>3
<1> QED BY <1>4, <1>5, <1>6

-----------------------------------------------------------------------------
(* Answers. *)

\* No answer but that of a dying process reads as one.
LEMMA NotAborted ==
    /\ Ok # Aborted /\ Pong # Aborted /\ Err # Aborted /\ WrongType # Aborted /\ Nil # Aborted
    /\ \A n : Integer(n) # Aborted
    /\ \A v : Bulk(v) # Aborted
<1>1. DOMAIN Aborted = {"abort"}
  BY DEF Aborted
<1>2. /\ DOMAIN Ok = {"status"} /\ DOMAIN Pong = {"status"}
      /\ DOMAIN Err = {"error"} /\ DOMAIN WrongType = {"error"}
      /\ \A n : DOMAIN Integer(n) = {"int"}
      /\ \A v : DOMAIN Bulk(v) = {"bulk"}
  BY DEF Ok, Pong, Err, WrongType, Integer, Bulk
<1>3. {"abort"} # {"status"} /\ {"abort"} # {"error"} /\ {"abort"} # {"int"} /\ {"abort"} # {"bulk"}
  OBVIOUS
<1> QED BY <1>1, <1>2, <1>3, Zenon DEF Nil

\* A served command queues its answer and leaves the clock.
LEMMA ServeAnswers ==
    ASSUME IInv, NEW d, NEW r, Serve(Result(d, r)), r # Aborted
    PROVE  db' = d /\ now' = now /\ Keys!Answer(r)
BY DEF Serve, Result, Keys!Answer, IInv

\* A command whose effect no client sees leaves the abstract keys alone.
LEMMA UnseenSame ==
    ASSUME \A k \in Key : Unseen(db, db', k, now), now' = now
    PROVE  Keys!Same
BY ViewNow, ViewSame DEF Keys!Same

\* A command whose effect is seen at its key only puts that key's new entry.
LEMMA SeenPut ==
    ASSUME NEW k \in Key, UnseenElsewhere(db, db', k, now), now' = now,
           NEW e, EntryAt(db', now, k) = e
    PROVE  Keys!Put(k, e)
BY ViewNow, ViewPut DEF Keys!Put

\* A command answered with WRONGTYPE changes nothing.
LEMMA SameWrongType ==
    ASSUME IInv, NEW k \in Key, Serve(Result(LazyEvict(db, k, now), WrongType))
    PROVE  Keys!WrongTypeOf(k)
<1>1. /\ db' = LazyEvict(db, k, now) /\ now' = now /\ Keys!Answer(WrongType)
  BY ServeAnswers, NotAborted
<1>2. \A j \in Key : Unseen(db, db', j, now)
  BY <1>1, LazyEvictDecides, LoopAssumption DEF IInv, UnseenElsewhere
<1> QED BY <1>1, <1>2, UnseenSame DEF Keys!WrongTypeOf, WrongType

-----------------------------------------------------------------------------
(* The handlers. *)

\* What every handler below starts from.
LEMMA Ground ==
    ASSUME IInv
    PROVE  Sound(db) /\ db \in Database /\ now \in Int
BY LoopAssumption, SoundDatabase DEF IInv

\* GET.
LEMMA GetMaps ==
    ASSUME IInv, NEW k \in Key, HandleGet(k)
    PROVE  Keys!GetKey(k)
<1> DEFINE g == LazyEvict(db, k, now)
<1>1. CASE IsList(g, k)
  <2>1. Serve(Result(g, WrongType))
    BY <1>1 DEF HandleGet, DoGet, IsList, IsString
  <2>2. Keys!IsLst(k)
    BY <1>1, AbstractKey
  <2> QED BY <2>1, <2>2, SameWrongType DEF Keys!GetKey
<1>2. now' = now /\ db' = DoGet(db, k, now).db
  BY DEF HandleGet, Serve
<1>3. Keys!Same
  BY <1>2, Ground, ReadsUnseen, UnseenSame
<1>4. CASE IsString(g, k)
  <2>1. Serve(Result(Touch(g, k), Bulk(g.string_store[k])))
    BY <1>4 DEF HandleGet, DoGet, IsList, IsString
  <2>2. Keys!Answer(Bulk(g.string_store[k]))
    BY <2>1, ServeAnswers, NotAborted
  <2>3. Keys!IsStr(k) /\ View(db, now)[k].data.string = g.string_store[k]
    BY <1>4, AbstractKey
  <2> QED BY <1>3, <2>2, <2>3, ViewNow DEF Keys!GetKey, Bulk
<1>5. CASE ~IsList(g, k) /\ ~IsString(g, k)
  <2>1. Serve(Result(g, Nil))
    BY <1>5 DEF HandleGet, DoGet
  <2>2. Keys!Answer(Nil)
    BY <2>1, ServeAnswers, NotAborted
  <2>3. ~Keys!Live(k)
    BY <1>5, AbstractKey DEF Present, IsList, IsString
  <2> QED BY <1>3, <2>2, <2>3 DEF Keys!GetKey, Nil, Bulk
<1> QED BY <1>1, <1>4, <1>5

\* DEL.
LEMMA DelMaps ==
    ASSUME IInv, NEW k \in Key, HandleDel(k)
    PROVE  Keys!DelKey(k)
<1>1. db' = Del(db, k) /\ now' = now /\ Keys!Answer(Ok)
  BY ServeAnswers, NotAborted DEF HandleDel, DoDel
<1>2. \A j \in Key : IF j = k THEN ~Present(db', j) ELSE SameAt(db, db', j)
  BY <1>1, Ground, DelClears
<1>3. EntryAt(db', now, k) = Absent
  BY <1>2 DEF EntryAt, Visible
<1>4. UnseenElsewhere(db, db', k, now)
  BY <1>2 DEF UnseenElsewhere, Unseen
<1> QED BY <1>1, <1>3, <1>4, SeenPut DEF Keys!DelKey, Ok

\* EXISTS, TTL and LLEN.
LEMMA LookMaps ==
    ASSUME IInv, NEW k \in Key
    PROVE  /\ HandleExists(k) => Keys!ExistsKey(k)
           /\ HandleTtl(k) => Keys!TtlKey(k)
           /\ HandleLLen(k) => Keys!LLenKey(k)
<1> DEFINE g == LazyEvict(db, k, now)
<1>1. /\ Keys!Live(k) <=> Present(g, k)
      /\ Keys!IsStr(k) <=> IsString(g, k)
      /\ Keys!Items(k) = ListAt(g, k)
      /\ Keys!DeadlineOf(k) = g.expiry[k]
  BY AbstractKey
<1> HIDE DEF g
<1>2. ASSUME NEW n, Serve(Result(g, Integer(n)))
      PROVE  Keys!Same /\ Keys!Answer([int |-> n])
  <2>1. db' = g /\ now' = now /\ Keys!Answer(Integer(n))
    BY <1>2, ServeAnswers, NotAborted
  <2>2. \A j \in Key : Unseen(db, db', j, now)
    BY <2>1, Ground, LazyEvictDecides DEF g, UnseenElsewhere
  <2> QED BY <2>1, <2>2, UnseenSame DEF Integer
<1>3. ASSUME HandleExists(k)
      PROVE  Keys!ExistsKey(k)
  <2>1. Serve(Result(g, Integer(IF Present(g, k) THEN 1 ELSE 0)))
    BY <1>3 DEF HandleExists, DoExists, g
  <2> QED BY <1>1, <1>2, <2>1 DEF Keys!ExistsKey
<1>4. ASSUME HandleTtl(k)
      PROVE  Keys!TtlKey(k)
  <2> DEFINE n == IF ~Present(g, k) THEN -2
                  ELSE IF ~Has(g.expiry, k) THEN -1
                  ELSE (g.expiry[k] - now) \div MsPerSecond
  <2>1. Serve(Result(g, Integer(n)))
    BY <1>4 DEF HandleTtl, DoTtl, g
  <2>2. n = IF ~Keys!Live(k) THEN -2
            ELSE IF Keys!DeadlineOf(k) = Absent THEN -1
            ELSE (Keys!DeadlineOf(k) - now) \div MsPerSecond
    BY <1>1 DEF Has
  <2> HIDE DEF n
  <2>3. Keys!Same /\ Keys!Answer([int |-> n])
    BY <1>2, <2>1
  <2> QED BY <2>2, <2>3 DEF Keys!TtlKey
<1>5. ASSUME HandleLLen(k)
      PROVE  Keys!LLenKey(k)
  <2>1. CASE IsString(g, k)
    <3>1. Serve(Result(g, WrongType))
      BY <1>5, <2>1 DEF HandleLLen, DoLLen, g
    <3> QED BY <1>1, <2>1, <3>1, SameWrongType DEF Keys!LLenKey, g
  <2>2. CASE ~IsString(g, k)
    <3>1. Serve(Result(g, Integer(Len(ListAt(g, k)))))
      BY <1>5, <2>2 DEF HandleLLen, DoLLen, g
    <3> QED BY <1>1, <1>2, <2>2, <3>1 DEF Keys!LLenKey
  <2> QED BY <2>1, <2>2
<1> QED BY <1>3, <1>4, <1>5

\* SET: the key's new entry, and the keys the eviction loop took.  Without room the
\* process dies.
LEMMA SetMaps ==
    ASSUME IInv, NEW k \in Key, NEW v \in Value, HandleSet(k, v)
    PROVE  Keys!SetKey(k, v) \/ Keys!Die
<1>1. CASE ~SetHasRoom(db, k)
  <2>1. Serve(Result(db, Aborted))
    BY <1>1 DEF HandleSet, DoSet
  <2>2. db' = db /\ now' = now /\ up /\ ~up' /\ up' \in BOOLEAN /\ reply' = [abort |-> TRUE]
    BY <2>1 DEF Serve, Result, Aborted
  <2>3. View(db', now') = View(db, now)
    BY <2>2
  <2> QED BY <2>2, <2>3, ViewNow DEF Keys!Die
<1>2. CASE SetHasRoom(db, k)
  <2> DEFINE lost == {j \in Key \ {k} : ~SameAt(db, db', j)}
  <2>1. Serve(Result(Set(db, k, v), Ok))
    BY <1>2 DEF HandleSet, DoSet
  <2>2. db' = Set(db, k, v) /\ now' = now /\ Keys!Answer(Ok)
    BY <2>1, ServeAnswers, NotAborted
  <2>3. /\ db'.string_store[k] = v /\ ~Has(db'.list_store, k) /\ ~Has(db'.expiry, k)
        /\ \A j \in Key \ {k} :
              SameAt(db, db', j) \/ (~Present(db', j) /\ ~Has(db.string_store, k))
    BY <1>2, <2>2, Ground, SetSeen
  <2>4. EntryAt(db', now, k) = [data |-> [string |-> v], deadline |-> Absent]
    <3>1. IsString(db', k) /\ Visible(db', k, now)
      BY <2>3, AbsentAssumption DEF IsString, Visible, Present, Elapsed, Has
    <3>2. db'.expiry[k] = Absent
      BY <2>3 DEF Has
    <3> QED BY <2>3, <3>1, <3>2 DEF EntryAt
  <2>5. \A j \in Key \ {k} : EntryAt(db', now, j) = IF j \in lost THEN Absent
                                                    ELSE EntryAt(db, now, j)
    <3> SUFFICES ASSUME NEW j \in Key \ {k}
                 PROVE  EntryAt(db', now, j) = IF j \in lost THEN Absent
                                               ELSE EntryAt(db, now, j)
      OBVIOUS
    <3>1. CASE j \in lost
      BY <2>3, <3>1 DEF EntryAt, Visible
    <3>2. CASE j \notin lost
      BY <3>2, EntryUnseen DEF Unseen
    <3> QED BY <3>1, <3>2
  <2>6. Keys!IsStr(k) => lost = {}
    <3>1. Keys!IsStr(k) => IsString(LazyEvict(db, k, now), k)
      BY AbstractKey
    <3>2. Keys!IsStr(k) => Has(db.string_store, k)
      BY <3>1, Ground, LazyEvictDecides DEF IsString, Has, Unseen, SameAt, Present
    <3> QED BY <2>3, <3>2
  <2>7. View(db', now') = [j \in Key |-> IF j = k THEN [data |-> [string |-> v], deadline |-> Absent]
                                         ELSE IF j \in lost THEN Absent ELSE View(db, now)[j]]
    BY <2>2, <2>4, <2>5 DEF View
  <2>8. lost \in SUBSET (Key \ {k})
    OBVIOUS
  <2> HIDE DEF lost
  <2>9. \E gone \in SUBSET (Key \ {k}) :
          /\ Keys!IsStr(k) => gone = {}
          /\ View(db', now')
               = [j \in Key |-> IF j = k THEN [data |-> [string |-> v], deadline |-> Absent]
                                ELSE IF j \in gone THEN Absent ELSE View(db, now)[j]]
    BY <2>6, <2>7, <2>8
  <2> QED BY <2>2, <2>9, ViewNow DEF Keys!SetKey, Keys!Entry, Keys!Str, Ok
<1> QED BY <1>1, <1>2

\* LPUSH and RPUSH.
LEMMA PushMaps ==
    ASSUME IInv, NEW k \in Key, NEW v \in Value
    PROVE  /\ HandleLPush(k, v) => Keys!PushKey(k, <<v>> \o Keys!Items(k))
           /\ HandleRPush(k, v) => Keys!PushKey(k, Append(Keys!Items(k), v))
<1> DEFINE g == LazyEvict(db, k, now)
           l == DoLPush(db, k, v, now).db
           r == DoRPush(db, k, v, now).db
<1>1. /\ Keys!IsStr(k) <=> IsString(g, k)
      /\ Keys!Items(k) = ListAt(g, k)
      /\ Keys!DeadlineOf(k) = g.expiry[k]
  BY AbstractKey
<1>2. /\ UnseenElsewhere(db, l, k, now) /\ UnseenElsewhere(db, r, k, now)
      /\ ~IsString(g, k) =>
           /\ ~IsString(l, k) /\ l.list_store[k] = Cons(v, ListAt(g, k))
           /\ ~IsString(r, k) /\ r.list_store[k] = Append(ListAt(g, k), v)
           /\ Visible(l, k, now) /\ l.expiry = g.expiry
           /\ Visible(r, k, now) /\ r.expiry = g.expiry
  BY Ground, PushSeen
<1>3. CASE IsString(g, k)
  <2>1. HandleLPush(k, v) \/ HandleRPush(k, v) => Serve(Result(g, WrongType))
    BY <1>3 DEF HandleLPush, HandleRPush, DoLPush, DoRPush
  <2>2. HandleLPush(k, v) \/ HandleRPush(k, v) => Keys!WrongTypeOf(k)
    BY <2>1, SameWrongType
  <2> QED BY <1>1, <1>3, <2>2 DEF Keys!PushKey
<1>4. CASE ~IsString(g, k)
  <2> HIDE DEF g, l, r
  <2>1. ASSUME NEW e, NEW s, Serve(Result(e, Integer(Len(s)))),
               UnseenElsewhere(db, e, k, now), ~IsString(e, k), Visible(e, k, now),
               e.expiry = g.expiry, e.list_store[k] = s
        PROVE  Keys!PushKey(k, s)
    <3>1. db' = e /\ now' = now /\ Keys!Answer(Integer(Len(s)))
      BY <2>1, ServeAnswers, NotAborted
    <3>2. EntryAt(db', now, k) = [data |-> [list |-> s], deadline |-> g.expiry[k]]
      BY <2>1, <3>1 DEF EntryAt
    <3>3. Keys!Put(k, [data |-> [list |-> s], deadline |-> g.expiry[k]])
      BY <2>1, <3>1, <3>2, SeenPut
    <3> QED BY <1>1, <1>4, <3>1, <3>3
            DEF Keys!PushKey, Keys!Entry, Keys!Lst, Integer
  <2>2. HandleLPush(k, v) => Serve(Result(l, Integer(Len(l.list_store[k]))))
    <3>1. DoLPush(db, k, v, now) = Result(l, Integer(Len(l.list_store[k])))
      BY <1>4 DEF DoLPush, Result, g, l
    <3> QED BY <3>1 DEF HandleLPush
  <2>3. HandleRPush(k, v) => Serve(Result(r, Integer(Len(r.list_store[k]))))
    <3>1. DoRPush(db, k, v, now) = Result(r, Integer(Len(r.list_store[k])))
      BY <1>4 DEF DoRPush, Result, g, r
    <3> QED BY <3>1 DEF HandleRPush
  <2>4. Cons(v, ListAt(g, k)) = <<v>> \o Keys!Items(k)
    BY <1>1 DEF Cons
  <2> QED BY <1>1, <1>2, <1>4, <2>1, <2>2, <2>3, <2>4
<1> QED BY <1>3, <1>4

\* Taking the first or the last element off a list, index by index.
LEMMA TakenOff ==
    ASSUME NEW s \in Seq(Value), s # <<>>
    PROVE  LET But(i) == [j \in 1..(Len(s) - 1) |-> IF j < i THEN s[j] ELSE s[j + 1]]
           IN  /\ Tail(s) = But(1) /\ Head(s) = s[1]
               /\ Front(s) = But(Len(s)) /\ Last(s) = s[Len(s)]
               /\ Tail(s) \in Seq(Value) /\ Front(s) \in Seq(Value)
<1> DEFINE n == Len(s)
           But(i) == [j \in 1..(n - 1) |-> IF j < i THEN s[j] ELSE s[j + 1]]
<1>1. n \in Nat /\ n # 0
  BY EmptySeq, LenProperties
<1>2. /\ Tail(s) \in Seq(Value) /\ Len(Tail(s)) = n - 1
      /\ \A j \in 1..(n - 1) : Tail(s)[j] = s[j + 1]
      /\ Head(s) = s[1]
  BY HeadTailProperties
<1>3. /\ Front(s) \in Seq(Value) /\ Len(Front(s)) = n - 1
      /\ \A j \in 1..(n - 1) : Front(s)[j] = s[j]
  <2>1. Front(s) = SubSeq(s, 1, n - 1)
    BY DEF Front
  <2>2. n - 1 \in Int /\ \A j \in 1..(n - 1) : s[j] \in Value
    BY <1>1, ElementOfSeq
  <2>3. /\ SubSeq(s, 1, n - 1) \in Seq(Value)
        /\ Len(SubSeq(s, 1, n - 1)) = IF 1 <= n - 1 THEN (n - 1) - 1 + 1 ELSE 0
        /\ \A j \in 1..((n - 1) - 1 + 1) : SubSeq(s, 1, n - 1)[j] = s[1 + j - 1]
    <3> HIDE DEF n
    <3> QED BY <2>2, SubSeqProperties
  <2>4. Len(Front(s)) = n - 1
    <3> HIDE DEF n
    <3>1. (IF 1 <= n - 1 THEN (n - 1) - 1 + 1 ELSE 0) = n - 1
      BY <1>1
    <3> QED BY <2>1, <2>3, <3>1, Zenon
  <2>5. ASSUME NEW j \in 1..(n - 1)
        PROVE  Front(s)[j] = s[j]
    <3>1. j \in 1..((n - 1) - 1 + 1) /\ 1 + j - 1 = j
      BY <1>1
    <3> HIDE DEF n
    <3> QED BY <2>1, <2>3, <3>1
  <2> QED BY <2>1, <2>3, <2>4, <2>5
<1>4. Tail(s) = [j \in 1..(n - 1) |-> Tail(s)[j]] /\ Front(s) = [j \in 1..(n - 1) |-> Front(s)[j]]
  BY <1>2, <1>3, LenProperties
<1>5. Tail(s) = But(1)
  <2>1. \A j \in 1..(n - 1) : ~(j < 1)
    BY <1>1
  <2> QED BY <1>2, <1>4, <2>1
<1>6. Front(s) = But(n)
  <2>1. \A j \in 1..(n - 1) : j < n
    BY <1>1
  <2> QED BY <1>3, <1>4, <2>1
<1> QED BY <1>2, <1>3, <1>5, <1>6 DEF Last

\* LPOP and RPOP.
LEMMA PopMaps ==
    ASSUME IInv, NEW k \in Key
    PROVE  /\ HandleLPop(k) => Keys!PopKey(k, 1)
           /\ HandleRPop(k) => Keys!PopKey(k, Len(Keys!Items(k)))
<1> DEFINE g == LazyEvict(db, k, now)
           s == ListAt(g, k)
           l == DoLPop(db, k, now).db
           r == DoRPop(db, k, now).db
<1>1. /\ Keys!Live(k) <=> Present(g, k)
      /\ Keys!IsStr(k) <=> IsString(g, k)
      /\ Keys!IsLst(k) <=> IsList(g, k)
      /\ Keys!Items(k) = s
      /\ Keys!DeadlineOf(k) = g.expiry[k]
  BY AbstractKey
<1>2. Sound(g) /\ g \in Database /\ ~Elapsed(g, k, now) /\ \A j \in Key : Unseen(db, g, j, now)
  BY Ground, LazyEvictDecides DEF UnseenElsewhere
<1>3. /\ s \in Seq(Value)
      /\ s # <<>> => s = g.list_store[k] /\ ~IsString(g, k)
  BY <1>2, ListAtTyped DEF IsString
<1>4. s = <<>> <=> ~Has(g.list_store, k)
  BY <1>2 DEF ListAt, Sound, StoresSound
<1>5. /\ UnseenElsewhere(db, l, k, now) /\ UnseenElsewhere(db, r, k, now)
      /\ IsString(g, k) \/ s = <<>> => l = g /\ r = g
      /\ ~IsString(g, k) /\ s # <<>> => l = PopTo(g, k, Tail(s)) /\ r = PopTo(g, k, Front(s))
  BY Ground, PopSeen
<1>6. CASE IsString(g, k)
  <2>1. HandleLPop(k) \/ HandleRPop(k) => Serve(Result(g, WrongType))
    BY <1>6 DEF HandleLPop, HandleRPop, DoLPop, DoRPop
  <2>2. HandleLPop(k) \/ HandleRPop(k) => Keys!WrongTypeOf(k)
    BY <2>1, SameWrongType
  <2> QED BY <1>1, <1>6, <2>2 DEF Keys!PopKey
<1>7. CASE ~IsString(g, k) /\ s = <<>>
  <2>1. HandleLPop(k) \/ HandleRPop(k) => Serve(Result(g, Nil))
    <3>1. /\ DoLPop(db, k, now) = Result(l, Nil) /\ DoRPop(db, k, now) = Result(r, Nil)
      BY <1>7 DEF DoLPop, DoRPop, Result
    <3> QED BY <1>5, <1>7, <3>1 DEF HandleLPop, HandleRPop
  <2>2. Serve(Result(g, Nil)) => db' = g /\ now' = now /\ Keys!Answer(Nil)
    BY ServeAnswers, NotAborted
  <2>3. Serve(Result(g, Nil)) => Keys!Same
    BY <1>2, <2>2, UnseenSame
  <2>4. ~Keys!Live(k)
    BY <1>1, <1>4, <1>7 DEF Present, IsString
  <2> QED BY <2>1, <2>2, <2>3, <2>4 DEF Keys!PopKey, Nil, Bulk
<1>8. CASE ~IsString(g, k) /\ s # <<>>
  <2> DEFINE But(i) == [j \in 1..(Len(s) - 1) |-> IF j < i THEN s[j] ELSE s[j + 1]]
  <2>1. /\ Tail(s) = But(1) /\ Head(s) = s[1]
        /\ Front(s) = But(Len(s)) /\ Last(s) = s[Len(s)]
        /\ Tail(s) \in Seq(Value) /\ Front(s) \in Seq(Value)
    BY <1>3, <1>8, TakenOff
  <2>2. HandleLPop(k) => Serve(Result(PopTo(g, k, Tail(s)), Bulk(s[1])))
    <3>1. DoLPop(db, k, now) = Result(l, Bulk(Head(s)))
      BY <1>8 DEF DoLPop, Result
    <3> QED BY <1>5, <1>8, <2>1, <3>1 DEF HandleLPop
  <2>3. HandleRPop(k) => Serve(Result(PopTo(g, k, Front(s)), Bulk(s[Len(s)])))
    <3>1. DoRPop(db, k, now) = Result(r, Bulk(Last(s)))
      BY <1>8 DEF DoRPop, Result
    <3> QED BY <1>5, <1>8, <2>1, <3>1 DEF HandleRPop
  <2>4. Keys!IsLst(k)
    BY <1>1, <1>4, <1>8 DEF IsList, IsString
  <2>5. UnseenElsewhere(db, PopTo(g, k, Tail(s)), k, now) /\ UnseenElsewhere(db, PopTo(g, k, Front(s)), k, now)
    BY <1>5, <1>8
  <2>6. \A i : But(i) = [j \in 1..(Len(Keys!Items(k)) - 1) |->
                            IF j < i THEN Keys!Items(k)[j] ELSE Keys!Items(k)[j + 1]]
    BY <1>1
  <2> HIDE DEF g, s, But
  <2>7. ASSUME NEW i, NEW rest \in Seq(Value), rest = But(i),
               Serve(Result(PopTo(g, k, rest), Bulk(s[i]))),
               UnseenElsewhere(db, PopTo(g, k, rest), k, now)
        PROVE  Keys!PopKey(k, i)
    <3>1. db' = PopTo(g, k, rest) /\ now' = now /\ Keys!Answer(Bulk(s[i]))
      BY <2>7, ServeAnswers, NotAborted
    <3>2. EntryAt(db', now, k) = IF rest = <<>> THEN Absent
                                 ELSE [data |-> [list |-> rest], deadline |-> g.expiry[k]]
      <4>1. CASE rest = <<>>
        <5>1. ~Has(db'.list_store, k) /\ db'.string_store = g.string_store
          BY <1>2, <3>1, <4>1, PopToAt
        <5>2. ~Present(db', k)
          BY <1>8, <5>1 DEF Present, IsString
        <5> QED BY <4>1, <5>2 DEF EntryAt, Visible
      <4>2. CASE rest # <<>>
        <5>1. /\ db'.list_store[k] = rest /\ db'.string_store = g.string_store
              /\ db'.expiry = g.expiry
          BY <1>2, <3>1, <4>2, PopToAt
        <5>2. Visible(db', k, now) /\ ~IsString(db', k)
          BY <1>2, <1>8, <5>1, AbsentAssumption DEF Visible, Present, Elapsed, IsString, Has
        <5> QED BY <4>2, <5>1, <5>2 DEF EntryAt
      <4> QED BY <4>1, <4>2
    <3>3. Keys!Put(k, IF rest = <<>> THEN Absent
                      ELSE [data |-> [list |-> rest], deadline |-> g.expiry[k]])
      BY <2>7, <3>1, <3>2, SeenPut
    <3>4. Keys!Answer([bulk |-> Keys!Items(k)[i]])
      BY <1>1, <3>1 DEF Bulk
    <3>5. Keys!Put(k, IF But(i) = <<>> THEN Absent
                      ELSE [data |-> [list |-> But(i)], deadline |-> Keys!DeadlineOf(k)])
      BY <1>1, <2>7, <3>3
    <3> QED BY <2>4, <2>6, <3>4, <3>5 DEF Keys!PopKey, Keys!Entry, Keys!Lst
  <2>8. HandleLPop(k) => Keys!PopKey(k, 1)
    BY <2>1, <2>2, <2>5, <2>7
  <2>9. HandleRPop(k) => Keys!PopKey(k, Len(s))
    BY <2>1, <2>3, <2>5, <2>7
  <2> QED BY <1>1, <2>8, <2>9
<1> QED BY <1>6, <1>7, <1>8

\* Within the range of int64_t the arithmetic is that of the integers, and a positive
\* number of seconds is a positive number of milliseconds.
LEMMA WrapIdle ==
    ASSUME NoOverflow, NEW s \in Seconds, s \in Nat, NEW t \in 0..MaxTime
    PROVE  /\ Wrap(t + Wrap(s * MsPerSecond)) = t + s * MsPerSecond
           /\ t + s * MsPerSecond \in Int
           /\ t >= t + s * MsPerSecond <=> s = 0
<1> DEFINE ms == s * MsPerSecond
<1>1. ms \in Nat /\ (ms = 0 <=> s = 0)
  BY UnitsAssumption
<1>2. t \in Nat /\ MaxTime \in Nat /\ t <= MaxTime /\ MaxTime + ms < Int64Half
  BY LoopAssumption DEF NoOverflow
<1> HIDE DEF ms
<1>3. ASSUME NEW n \in Nat, n < Int64Half
      PROVE  Wrap(n) = n
  <2>1. (n + Int64Half) % (2 * Int64Half) = n + Int64Half
    <3> DEFINE a == n + Int64Half
               b == 2 * Int64Half
    <3>1. a \in Nat /\ b \in Nat \ {0} /\ a < b
      BY <1>3, UnitsAssumption
    <3> HIDE DEF a, b
    <3>2. a % b = a
      BY <3>1
    <3> QED BY <3>2 DEF a, b
  <2> QED BY <2>1, UnitsAssumption DEF Wrap
<1>4. Wrap(ms) = ms /\ Wrap(t + ms) = t + ms
  BY <1>1, <1>2, <1>3, UnitsAssumption
<1>5. t + ms \in Int /\ (t >= t + ms <=> ms = 0)
  BY <1>1, <1>2
<1> QED BY <1>1, <1>4, <1>5 DEF ms

\* EXPIRE, as long as the deadline does not overflow.
LEMMA ExpireMaps ==
    ASSUME NoOverflow, IInv, NEW k \in Key, NEW s \in Seconds, HandleExpire(k, s)
    PROVE  Keys!ExpireKey(k, s)
<1> DEFINE g == LazyEvict(db, k, now)
           deadline == Wrap(now + Wrap(s * MsPerSecond))
<1>1. /\ Keys!Live(k) <=> Present(g, k)
      /\ Present(g, k) <=> Visible(db, k, now)
  BY Ground, AbstractKey, LazyEvictDecides
<1>2. /\ db' = DoExpire(db, k, s, now).db /\ now' = now
  BY DEF HandleExpire, Serve
<1>3. /\ UnseenElsewhere(db, db', k, now)
      /\ s \notin Int \/ s < 0 \/ ~Visible(db, k, now) => Unseen(db, db', k, now)
      /\ s \in Int /\ ~(s < 0) /\ Visible(db, k, now) =>
           db' = ExpireAt(db, k, deadline) /\ deadline \in Int
  BY <1>2, Ground, ExpireSeen
<1>4. CASE s \notin Int \/ s < 0
  <2>1. Serve(Result(db, Err))
    BY <1>4 DEF HandleExpire, DoExpire
  <2>2. Keys!Answer(Err)
    BY <2>1, ServeAnswers, NotAborted
  <2>3. Keys!Same
    BY <1>2, <1>3, <1>4, UnseenSame DEF UnseenElsewhere
  <2> QED BY <1>4, <2>2, <2>3 DEF Keys!ExpireKey, Err
<1>5. CASE s \in Int /\ ~(s < 0)
  <2>1. s \in Nat
    BY <1>5
  <2>2. Keys!Answer([int |-> IF Keys!Live(k) THEN 1 ELSE 0])
    <3>1. Serve(Result(Expire(db, k, deadline, now), Integer(IF Present(g, k) THEN 1 ELSE 0)))
      BY <1>5 DEF HandleExpire, DoExpire
    <3>2. Keys!Answer(Integer(IF Present(g, k) THEN 1 ELSE 0))
      BY <3>1, ServeAnswers, NotAborted
    <3> QED BY <1>1, <3>2 DEF Integer
  <2>3. CASE ~Visible(db, k, now)
    <3>1. EntryAt(db', now, k) = Absent
      BY <1>3, <2>3, UnseenVisible DEF EntryAt
    <3>2. Keys!Put(k, Absent)
      BY <1>2, <1>3, <3>1, SeenPut
    <3> QED BY <1>1, <2>1, <2>2, <2>3, <3>2 DEF Keys!ExpireKey
  <2>4. CASE Visible(db, k, now)
    <3>1. /\ deadline = now + s * MsPerSecond
          /\ deadline \in Int
          /\ now >= deadline <=> s = 0
      BY <2>1, WrapIdle DEF IInv
    <3> HIDE DEF deadline
    <3>2. /\ db'.string_store = db.string_store
          /\ db'.list_store = db.list_store
          /\ db'.expiry[k] = deadline
      BY <1>3, <1>5, <2>4, <3>1, Ground, ExpireAtAt DEF Visible
    <3>3. Visible(db', k, now) <=> s # 0
      BY <2>4, <3>1, <3>2, AbsentAssumption DEF Visible, Present, Elapsed, Has
    <3>4. /\ EntryAt(db, now, k) = [data |-> EntryAt(db, now, k).data, deadline |-> db.expiry[k]]
          /\ s # 0 => EntryAt(db', now, k)
                        = [data |-> EntryAt(db, now, k).data, deadline |-> deadline]
      BY <2>4, <3>2, <3>3 DEF EntryAt, IsString, Has
    <3>5. s # 0 => EntryAt(db', now, k) = [View(db, now)[k] EXCEPT !.deadline = deadline]
      <4>1. View(db, now)[k] = EntryAt(db, now, k)
        BY DEF View
      <4> QED BY <3>4, <4>1
    <3>6. s = 0 => EntryAt(db', now, k) = Absent
      BY <3>3 DEF EntryAt
    <3>7. EntryAt(db', now, k) = IF s > 0 THEN [View(db, now)[k] EXCEPT !.deadline = deadline]
                                 ELSE Absent
      BY <2>1, <3>5, <3>6
    <3>8. Keys!Put(k, IF s > 0 THEN [View(db, now)[k] EXCEPT !.deadline = deadline] ELSE Absent)
      BY <1>2, <1>3, <3>7, SeenPut
    <3>9. s > 0 => Keys!Put(k, [View(db, now)[k] EXCEPT !.deadline = now + s * MsPerSecond])
      BY <3>1, <3>8
    <3>10. ~(s > 0) => Keys!Put(k, Absent)
      BY <3>8
    <3> QED BY <1>1, <2>1, <2>2, <2>4, <3>9, <3>10, ViewNow DEF Keys!ExpireKey
  <2> QED BY <2>3, <2>4
<1> QED BY <1>4, <1>5

\* Every command is the abstract command of its key.
LEMMA CommandMaps ==
    ASSUME NoOverflow, IInv, HandleCommand
    PROVE  Keys!KNext
<1>1. ASSUME NEW k \in Key, NEW v \in Value,
             HandleSet(k, v) \/ HandleLPush(k, v) \/ HandleRPush(k, v)
      PROVE  Keys!KNext
  BY <1>1, SetMaps, PushMaps, Zenon DEF Keys!KNext
<1>2. ASSUME NEW k \in Key, NEW s \in Seconds, HandleExpire(k, s)
      PROVE  Keys!KNext
  BY <1>2, ExpireMaps, Zenon DEF Keys!KNext
<1>3. ASSUME NEW k \in Key,
             \/ HandleGet(k) \/ HandleDel(k) \/ HandleExists(k) \/ HandleTtl(k)
             \/ HandleLPop(k) \/ HandleRPop(k) \/ HandleLLen(k)
      PROVE  Keys!KNext
  BY <1>3, GetMaps, DelMaps, LookMaps, PopMaps, Zenon DEF Keys!KNext
<1>4. ASSUME HandleOther
      PROVE  Keys!KNext
  <2>1. PICK r \in {Pong, Err} \cup {Bulk(v) : v \in Value} : Serve(Result(db, r))
    BY <1>4 DEF HandleOther
  <2>2. db' = db /\ now' = now /\ Keys!Answer(r)
    BY <2>1, ServeAnswers, NotAborted
  <2>3. Keys!Same
    BY <2>2, UnseenSame DEF Unseen, SameAt
  <2>4. r \in {[status |-> "PONG"], [error |-> "ERR"]} \cup {[bulk |-> v] : v \in Value}
    BY DEF Pong, Err, Bulk
  <2>5. Keys!Other
    BY <2>2, <2>3, <2>4, Zenon DEF Keys!Other
  <2> QED BY <2>5, Zenon DEF Keys!KNext
<1> QED BY <1>1, <1>2, <1>3, <1>4, Zenon DEF HandleCommand

\* The clock takes exactly the keys whose deadline it reaches.
LEMMA AdvanceMaps ==
    ASSUME IInv, Advance
    PROVE  Keys!Elapse
<1>1. /\ now < MaxTime /\ now' = now + 1 /\ now \in Int /\ db' = db /\ db \in Database
      /\ UNCHANGED <<up, reply>>
  BY Ground DEF Advance
<1>2. ASSUME NEW k \in Key
      PROVE  /\ Keys!DeadlineOf(k) = IF Visible(db, k, now) THEN db.expiry[k] ELSE Absent
             /\ Elapsed(db, k, now) => Elapsed(db, k, now + 1)
  <2>1. Keys!DeadlineOf(k) = LazyEvict(db, k, now).expiry[k]
    BY AbstractKey
  <2>2. Keys!DeadlineOf(k) = IF Visible(db, k, now) THEN db.expiry[k] ELSE Absent
    BY <2>1, Ground, LazyEvictDecides DEF Has
  <2> QED BY <1>1, <2>2 DEF Elapsed, Has, Database
<1>3. ASSUME NEW k \in Key
      PROVE  EntryAt(db, now + 1, k)
               = IF Keys!DeadlineOf(k) # Absent /\ Keys!DeadlineOf(k) <= now + 1
                 THEN Absent ELSE EntryAt(db, now, k)
  <2>1. CASE ~Visible(db, k, now)
    <3>1. ~Visible(db, k, now + 1)
      BY <1>2, <2>1 DEF Visible
    <3> QED BY <1>2, <2>1, <3>1 DEF EntryAt
  <2>2. CASE Visible(db, k, now)
    <3>1. db.expiry[k] # Absent => db.expiry[k] \in Int
      BY <1>1 DEF Database
    <3>2. ~Visible(db, k, now + 1)
            <=> Keys!DeadlineOf(k) # Absent /\ Keys!DeadlineOf(k) <= now + 1
      BY <1>1, <1>2, <2>2, <3>1 DEF Visible, Elapsed, Has
    <3>3. CASE Visible(db, k, now + 1)
      BY <2>2, <3>2, <3>3 DEF EntryAt
    <3>4. CASE ~Visible(db, k, now + 1)
      BY <3>2, <3>4 DEF EntryAt
    <3> QED BY <3>3, <3>4
  <2> QED BY <2>1, <2>2
<1>4. View(db', now')
        = [k \in Key |-> IF Keys!DeadlineOf(k) # Absent /\ Keys!DeadlineOf(k) <= now'
                         THEN Absent ELSE View(db, now)[k]]
  BY <1>1, <1>3 DEF View
<1> QED BY <1>1, <1>4, ViewNow DEF Keys!Elapse

\* Every step is an abstract step or changes nothing a client can see.
LEMMA StepMaps == NoOverflow /\ IInv /\ [Next]_vars => [Keys!KNext]_(Keys!kvars)
<1> SUFFICES ASSUME NoOverflow, IInv, [Next]_vars
             PROVE  Keys!KNext \/ UNCHANGED Keys!kvars
  OBVIOUS
<1>1. ASSUME Keys!Same, UNCHANGED <<now, up, reply>>
      PROVE  UNCHANGED Keys!kvars
  BY <1>1 DEF Keys!kvars, Keys!Same
<1>2. CASE HandleCommand
  BY <1>2, CommandMaps
<1>3. CASE LoopTick
  <2>1. db' \in {db, EvictExpired(db, now)} /\ UNCHANGED <<now, up, reply>>
    BY <1>3 DEF LoopTick
  <2>2. \A k \in Key : Unseen(db, db', k, now)
    BY <2>1, Ground, EvictExpiredUnseen DEF Unseen, SameAt
  <2> QED BY <1>1, <2>1, <2>2, UnseenSame
<1>4. CASE Advance
  BY <1>4, AdvanceMaps, Zenon DEF Keys!KNext
<1>5. CASE Restart
  <2>1. View(db', now') = [k \in Key |-> Absent]
    BY <1>5 DEF Restart, View, EntryAt, Visible, Present, Has, EmptyDb, EmptyMap
  <2>2. Keys!Reborn
    BY <1>5, <2>1, ViewNow DEF Restart, Keys!Reborn
  <2> QED BY <2>2, Zenon DEF Keys!KNext
<1>6. CASE UNCHANGED vars
  <2>1. db' = db /\ UNCHANGED <<now, up, reply>>
    BY <1>6 DEF vars
  <2>2. Keys!Same
    BY <2>1, UnseenSame DEF Unseen, SameAt
  <2> QED BY <1>1, <2>1, <2>2
<1> QED BY <1>2, <1>3, <1>4, <1>5, <1>6 DEF Next

\* The empty database is the empty keyspace.
LEMMA InitMaps == Init => Keys!KInit
<1> SUFFICES ASSUME Init
             PROVE  Keys!KInit
  OBVIOUS
<1>1. View(db, now) = [k \in Key |-> Absent]
  BY DEF Init, View, EntryAt, Visible, Present, Has, EmptyDb, EmptyMap
<1> QED BY <1>1, ViewNow DEF Init, Keys!KInit, Ok

\* For every set of keys, every capacity and every clock, a client sees a map whose
\* keys vanish exactly at their deadlines, as long as no deadline overflows.
THEOREM ServerIsKeyspace == ASSUME NoOverflow PROVE Spec => ImplementsKeyspace
<1>1. IInv /\ [Next]_vars => [Keys!KNext]_(Keys!kvars)
  BY StepMaps
<1> QED BY <1>1, InitMaps, SpecIInv, PTL DEF Spec, ImplementsKeyspace, Keys!KSpec
=============================================================================
