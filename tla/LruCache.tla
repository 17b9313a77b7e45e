----------------------------- MODULE LruCache ------------------------------
(***************************************************************************)
(* A least-recently-used cache: its entries from the most to the least     *)
(* recently used, at most Capacity of them, and the last answer it gave.   *)
(***************************************************************************)
EXTENDS Integers, SequencesExt

CONSTANTS Key, Value, Absent, Capacity, Answers

VARIABLES cache, answer

lvars == <<cache, answer>>

\* The entries of s without the one of k.
Others(s, k) ==
    IF \E i \in 1..Len(s) : s[i].key = k
    THEN RemoveAt(s, CHOOSE i \in 1..Len(s) : s[i].key = k)
    ELSE s

LInit == cache = <<>> /\ answer = [status |-> "OK"]

\* A write is a use; it drops the last entry when a new one finds the cache full.
Write(k, v) ==
    LET old == Others(cache, k)
        kept == IF Len(old) < Capacity THEN old ELSE SubSeq(old, 1, Capacity - 1)
    IN  cache' = <<[key |-> k, value |-> v]>> \o kept /\ answer' = [status |-> "OK"]

\* A read that hits is a use.
Read(k) == \E i \in 1..Len(cache) :
              /\ cache[i].key = k
              /\ cache' = <<cache[i]>> \o Others(cache, k)
              /\ answer' = [bulk |-> cache[i].value]

\* An expired entry leaves the order of the others alone, whoever notices it.
Drop(k) == cache' = Others(cache, k)
Miss(k) == Drop(k) /\ answer' = [bulk |-> Absent]
Other(k) == Drop(k) \/ UNCHANGED cache

LNext == \E k \in Key :
            \/ Read(k) \/ Miss(k) \/ \E v \in Value : Write(k, v)
            \/ Other(k) /\ answer' \in Answers

LSpec == LInit /\ [][LNext]_lvars
=============================================================================
