--------------------------- MODULE StandaloneLru ---------------------------
(***************************************************************************)
(* When set() evicts the right key.  lru_order_ is an LRU cache as long as *)
(* nothing but the lazy eviction removes a string: is_expired() unlinks    *)
(* the node, while del() and evict_expired() leave it behind.              *)
(***************************************************************************)
EXTENDS Standalone

VARIABLE recency   \* the pairs of strings of which the first was used later (history)

Strings(pairs) == {p \in pairs : Has(db'.string_store, p[1]) /\ Has(db'.string_store, p[2])}
Keep   == recency' = Strings(recency)
Use(k) == recency' = Strings({p \in recency : k \notin {p[1], p[2]}}
                             \cup {<<k, j>> : j \in Key \ {k}})

\* The commands on strings that keep lru_order_ in step with string_store_.  A SET
\* and a GET that hits are uses.
NextStrings ==
    \/ \E k \in Key, v \in Value : HandleSet(k, v) /\ Use(k)
    \/ \E k \in Key : HandleGet(k) /\ Use(k)
    \/ /\ \/ \E k \in Key, s \in Seconds : HandleExpire(k, s)
          \/ \E k \in Key : HandleExists(k) \/ HandleTtl(k)
          \/ Advance
       /\ Keep

\* The steps that remove a string and leave its node.
NextStale == (LoopTick \/ \E k \in Key : HandleDel(k)) /\ Keep

lruvars == <<vars, recency>>

InitStrings == Init /\ recency = {}
SpecStrings == InitStrings /\ [][NextStrings]_lruvars
SpecStale   == InitStrings /\ [][NextStrings \/ NextStale]_lruvars

\* lru_order_ with the values of its keys.
CacheOf(d) == [i \in 1..Len(d.lru_order) |->
                 [key |-> d.lru_order[i].key, value |-> d.string_store[d.lru_order[i].key]]]

Cache == INSTANCE LruCache WITH
    Capacity <- MaxCapacity,
    Answers <- [int : Int] \cup {Err},
    answer <- reply,
    cache <- CacheOf(db)

\* README: the least recently used key is evicted.  Without DEL, lists and the
\* sweep, lru_order_ with the values of its keys is exactly an LRU cache of
\* max_capacity_ entries, answers included, whatever expires lazily in between.
ImplementsLruCache == Cache!LSpec

\* README: "the Least Recently Used key is evicted".  A string that a SET of another
\* key costs was used, by a SET or a GET that hit, before every string that is kept.
EvictsLeastRecentlyUsed ==
    [][\A k \in Key :
          /\ Has(db.string_store, k) /\ ~Has(db'.string_store, k)
          /\ \E j \in Key \ {k}, v \in Value : HandleSet(j, v)
          => \A j \in Key : Has(db'.string_store, j) /\ Has(db.string_store, j)
                => <<j, k>> \in recency]_lruvars
=============================================================================
