---------------------------- MODULE Standalone -----------------------------
(***************************************************************************)
(* One server process without replication: the event loop of server.cpp    *)
(* serves the commands of command.cpp one at a time on the database of     *)
(* db.cpp, counts its iterations, and sweeps the expired keys every        *)
(* EvictionInterval of them.  The clock moves between any two steps.  A    *)
(* command is atomic: the loop runs in one thread, and a handler runs to   *)
(* its end before the next one starts.                                     *)
(***************************************************************************)
EXTENDS Commands

CONSTANTS
    Seconds,           \* arguments tried for EXPIRE
    EvictionInterval,  \* kEvictionInterval, 100 in the code
    MaxTime,           \* bound on the clock
    MaxList            \* bound on the length of a list

ASSUME LoopAssumption == EvictionInterval \in Nat \ {0} /\ MaxTime \in Nat

VARIABLES
    db,         \* db_
    now,        \* the wall clock, in milliseconds
    loop_tick,  \* loop_tick_
    up,         \* the process is alive
    reply       \* the last answer queued to a client

vars == <<db, now, loop_tick, up, reply>>

Init == /\ db = EmptyDb
        /\ now = 0
        /\ loop_tick = 0
        /\ up = TRUE
        /\ reply = Ok

-----------------------------------------------------------------------------
(* Commands. *)

\* Run a handler and queue its answer; the process dies with an abort.
Serve(r) == /\ up
            /\ db' = r.db
            /\ reply' = r.reply
            /\ up' = (r.reply # Aborted)
            /\ UNCHANGED <<now, loop_tick>>

\* The heap has a cell for one more list node (the bound on lru_order_).
HeapHasCell == \E c \in Cell : FreeCell(db, c)
ListHasRoom(k) == Len(ListAt(db, k)) < MaxList

HandleSet(k, v)    == HeapHasCell /\ Serve(DoSet(db, k, v))
HandleGet(k)       == Serve(DoGet(db, k, now))
HandleDel(k)       == Serve(DoDel(db, k))
HandleExists(k)    == Serve(DoExists(db, k, now))
HandleExpire(k, s) == Serve(DoExpire(db, k, s, now))
HandleTtl(k)       == Serve(DoTtl(db, k, now))
HandleLPush(k, v)  == ListHasRoom(k) /\ Serve(DoLPush(db, k, v, now))
HandleRPush(k, v)  == ListHasRoom(k) /\ Serve(DoRPush(db, k, v, now))
HandleLPop(k)      == Serve(DoLPop(db, k, now))
HandleRPop(k)      == Serve(DoRPop(db, k, now))
HandleLLen(k)      == Serve(DoLLen(db, k, now))

\* PING, an unknown name, a wrong number of arguments: no effect on the database.
HandleOther == \E r \in {Pong, Err} \cup {Bulk(v) : v \in Value} : Serve(Result(db, r))

HandleCommand ==
    \/ \E k \in Key, v \in Value :
         HandleSet(k, v) \/ HandleLPush(k, v) \/ HandleRPush(k, v)
    \/ \E k \in Key, s \in Seconds : HandleExpire(k, s)
    \/ \E k \in Key :
         \/ HandleGet(k)
         \/ HandleDel(k)
         \/ HandleExists(k)
         \/ HandleTtl(k)
         \/ HandleLPop(k)
         \/ HandleRPop(k)
         \/ HandleLLen(k)
    \/ HandleOther

-----------------------------------------------------------------------------
(* The loop's own work, the clock, and a new process. *)

\* Mutant: the tick is compared with >.
LoopTickLate ==
    /\ up
    /\ LET tick == loop_tick + 1
       IN  IF tick > EvictionInterval
           THEN loop_tick' = 0 /\ db' = EvictExpired(db, now)
           ELSE loop_tick' = tick /\ db' = db
    /\ UNCHANGED <<now, up, reply>>

\* One return of select(): count it, sweep on every EvictionInterval-th one.
LoopTick ==
    /\ up
    /\ LET tick == loop_tick + 1
       IN  IF tick >= EvictionInterval
           THEN loop_tick' = 0 /\ db' = EvictExpired(db, now)
           ELSE loop_tick' = tick /\ db' = db
    /\ UNCHANGED <<now, up, reply>>

Advance == /\ now < MaxTime
           /\ now' = now + 1
           /\ UNCHANGED <<db, loop_tick, up, reply>>

\* A process that died left no database file: it had no chance to save.
Restart == /\ ~up
           /\ db' = EmptyDb
           /\ loop_tick' = 0
           /\ up' = TRUE
           /\ UNCHANGED <<now, reply>>

Next == HandleCommand \/ LoopTick \/ Advance \/ Restart

Spec == Init /\ [][Next]_vars

-----------------------------------------------------------------------------
(* Safety. *)

TypeOK == /\ db \in Database
          /\ now \in 0..MaxTime
          /\ loop_tick \in 0..(EvictionInterval - 1)
          /\ up \in BOOLEAN
          /\ reply \in Reply

\* No key is a string and a list at once: db.hpp says the stores are disjoint,
\* although lpush(), rpush(), set() and the eviction loop each write one store
\* and rely on what their callers checked.
DisjointStores == \A k \in Key : ~(Has(db.string_store, k) /\ Has(db.list_store, k))

\* No list is ever empty, although operator[] of lpush() creates one: db.hpp's
\* auto-delete rule, on which snapshot() and the persisted format rely.
NoEmptyList == \A k \in Key : db.list_store[k] # <<>>

\* A deadline belongs to a key that is present.  An orphan would be given to
\* the next list created under the name, because lpush() clears no deadline.
NoOrphanDeadline == \A k \in Key : Has(db.expiry, k) => Present(db, k)

\* Nodes of lru_order_ are distinct, and an iterator in lru_position_ points to a
\* node that is still linked and carries its own key.
\* Otherwise the next erase(lru_position_[key]) frees freed memory or another
\* key's node.
IteratorsValid ==
    /\ \A i, j \in 1..Len(db.lru_order) :
          db.lru_order[i].cell = db.lru_order[j].cell => i = j
    /\ \A k \in Key : Has(db.lru_position, k) =>
          \E i \in 1..Len(db.lru_order) : Points(db, k, i)

\* Every string has an iterator: set() on an existing string erases
\* lru_position_[key] without a look, and operator[] would invent a null one.
StringsTracked ==
    \A k \in Key : Has(db.string_store, k) => Has(db.lru_position, k)

\* Strings alone never exceed max_capacity_, whatever lists were pushed around
\* them and however the LRU list was left by DEL and by the sweep.
StringsFit == Cardinality(Held(db.string_store)) <= MaxCapacity

-----------------------------------------------------------------------------
(* Action properties. *)

LossExplained ==
    \A k \in Key : Visible(db, k, now) /\ ~Visible(db', k, now') =>
        \/ Advance \/ Restart
        \/ HandleDel(k) \/ HandleLPop(k) \/ HandleRPop(k)
        \/ \E s \in Seconds : HandleExpire(k, s)
        \/ \E j \in Key \ {k}, v \in Value :
             /\ HandleSet(j, v)
             /\ ~Has(db.string_store, j)
             /\ Size(Overwrite(db, j)) >= MaxCapacity

\* A key a client could read is lost only by its own DEL, pop or EXPIRE, by the
\* clock, or to a SET of a new key that found the stores full: never by a read,
\* a push, a sweep or a SET that only overwrites.
NoSilentLoss == [][LossExplained]_vars

EvictionFillsExactly ==
    \A k \in Key, v \in Value :
        /\ HandleSet(k, v)
        /\ \E j \in Key \ {k} : Present(db, j) /\ ~Present(db', j)
        => Size(db') = MaxCapacity

\* set() evicts one key at a time and stops at the first round that makes room:
\* when it has evicted anything, the new key fills the stores exactly.
EvictsNoMoreThanNeeded == [][EvictionFillsExactly]_vars

BirthExplained ==
    \A k \in Key : ~Visible(db, k, now) /\ Visible(db', k, now') =>
        /\ ~Has(db'.expiry, k)
        /\ \E v \in Value :
             \/ HandleSet(k, v)
             \/ (HandleLPush(k, v) \/ HandleRPush(k, v)) /\ db'.list_store[k] = <<v>>

\* A key that comes to life does so by its own SET or push, with no deadline and
\* with nothing but what was written: neither the lazy eviction, the sweep nor DEL
\* leaves a part of a dead key behind for the next one of that name.
FreshStart == [][BirthExplained]_vars

-----------------------------------------------------------------------------
(* Refinement: what a client can see of the database is a Keyspace. *)

\* The visible part of a key: its typed value and its deadline.
VisibleEntry(k) ==
    IF ~Visible(db, k, now) THEN Absent
    ELSE [data |-> IF IsString(db, k) THEN [string |-> db.string_store[k]]
                                      ELSE [list |-> db.list_store[k]],
          deadline |-> db.expiry[k]]

\* The mark of an absent key is not the entry of a key.
ASSUME EntryAssumption ==
    Absent \notin [data : [string : Value] \cup [list : Seq(Value)],
                   deadline : Int \cup {Absent}]

Keys == INSTANCE Keyspace WITH keys <- [k \in Key |-> VisibleEntry(k)]

\* Every reply and every effect of the server is one of a map from which keys
\* vanish exactly at their deadlines: lazy eviction in eleven handlers, the sweep
\* and the LRU list are invisible, in every order they can happen.
ImplementsKeyspace == Keys!KSpec
-----------------------------------------------------------------------------
(* What the documents say of the store and the code does not do. *)

\* README: "When it fills up, the Least Recently Used key is evicted to make room":
\* a SET always finds room, so the server survives it.
SetFindsRoom == up
=============================================================================
