----------------------------- MODULE Keyspace ------------------------------
(***************************************************************************)
(* What the server promises its clients, without how it keeps the promise: *)
(* a map from keys to typed values with deadlines, in which a key is gone  *)
(* the moment its deadline is reached.  There is no lazy eviction, no      *)
(* sweep, no LRU list and no overflow here; a SET of a key that holds no   *)
(* string may cost other keys, or the process.                             *)
(***************************************************************************)
EXTENDS Integers, Sequences

CONSTANTS Key, Value, Absent, Seconds, MsPerSecond, MaxTime

VARIABLES keys, now, up, reply

kvars == <<keys, now, up, reply>>

Str(v)  == [string |-> v]
Lst(s)  == [list |-> s]
Entry(data, deadline) == [data |-> data, deadline |-> deadline]

Live(k)  == keys[k] # Absent
IsStr(k) == Live(k) /\ "string" \in DOMAIN keys[k].data
IsLst(k) == Live(k) /\ "list" \in DOMAIN keys[k].data
Items(k) == IF IsLst(k) THEN keys[k].data.list ELSE <<>>
DeadlineOf(k) == IF Live(k) THEN keys[k].deadline ELSE Absent

KInit == /\ keys = [k \in Key |-> Absent]
         /\ now = 0
         /\ up = TRUE
         /\ reply = [status |-> "OK"]

Answer(r) == up /\ reply' = r /\ UNCHANGED <<now, up>>
Put(k, e) == keys' = [keys EXCEPT ![k] = e]
Same == UNCHANGED keys
WrongTypeOf(k) == Answer([error |-> "WRONGTYPE"]) /\ Same

\* A new or retyped key may cost other keys; an overwritten string costs none.
SetKey(k, v) ==
    /\ Answer([status |-> "OK"])
    /\ \E lost \in SUBSET (Key \ {k}) :
          /\ IsStr(k) => lost = {}
          /\ keys' = [j \in Key |-> IF j = k THEN Entry(Str(v), Absent)
                                    ELSE IF j \in lost THEN Absent ELSE keys[j]]

GetKey(k) ==
    \/ IsLst(k) /\ WrongTypeOf(k)
    \/ IsStr(k) /\ Same /\ Answer([bulk |-> keys[k].data.string])
    \/ ~Live(k) /\ Same /\ Answer([bulk |-> Absent])

DelKey(k) == Put(k, Absent) /\ Answer([status |-> "OK"])

ExistsKey(k) == Same /\ Answer([int |-> IF Live(k) THEN 1 ELSE 0])

\* A deadline of 0 seconds is reached at once.
ExpireKey(k, s) ==
    \/ (s \notin Int \/ s < 0) /\ Same /\ Answer([error |-> "ERR"])
    \/ /\ s \in Nat
       /\ Answer([int |-> IF Live(k) THEN 1 ELSE 0])
       /\ IF Live(k) /\ s > 0
          THEN Put(k, [keys[k] EXCEPT !.deadline = now + s * MsPerSecond])
          ELSE Put(k, Absent)

TtlKey(k) ==
    /\ Same
    /\ Answer([int |-> IF ~Live(k) THEN -2
                       ELSE IF DeadlineOf(k) = Absent THEN -1
                       ELSE (DeadlineOf(k) - now) \div MsPerSecond])

\* s is the list after the push; the deadline of an existing list stays.
PushKey(k, s) ==
    \/ IsStr(k) /\ WrongTypeOf(k)
    \/ ~IsStr(k) /\ Put(k, Entry(Lst(s), DeadlineOf(k))) /\ Answer([int |-> Len(s)])

\* i is the end popped from; an emptied list is gone.
PopKey(k, i) ==
    LET s == Items(k)
        rest == [j \in 1..(Len(s) - 1) |-> IF j < i THEN s[j] ELSE s[j + 1]]
    IN  \/ IsStr(k) /\ WrongTypeOf(k)
        \/ ~Live(k) /\ Same /\ Answer([bulk |-> Absent])
        \/ /\ IsLst(k)
           /\ Answer([bulk |-> s[i]])
           /\ Put(k, IF rest = <<>> THEN Absent ELSE Entry(Lst(rest), DeadlineOf(k)))

LLenKey(k) ==
    \/ IsStr(k) /\ WrongTypeOf(k)
    \/ ~IsStr(k) /\ Same /\ Answer([int |-> Len(Items(k))])

Other == Same /\ \E r \in {[status |-> "PONG"], [error |-> "ERR"]}
                          \cup {[bulk |-> v] : v \in Value} : Answer(r)

\* The clock takes every key whose deadline it reaches.
Elapse ==
    /\ now < MaxTime
    /\ now' = now + 1
    /\ keys' = [k \in Key |-> IF DeadlineOf(k) # Absent /\ DeadlineOf(k) <= now'
                              THEN Absent ELSE keys[k]]
    /\ UNCHANGED <<up, reply>>

Die == up /\ up' = FALSE /\ reply' = [abort |-> TRUE] /\ UNCHANGED <<keys, now>>
Reborn == ~up /\ up' = TRUE /\ keys' = [k \in Key |-> Absent] /\ UNCHANGED <<now, reply>>

KNext ==
    \/ \E k \in Key, v \in Value :
         \/ SetKey(k, v)
         \/ PushKey(k, <<v>> \o Items(k))
         \/ PushKey(k, Append(Items(k), v))
    \/ \E k \in Key, s \in Seconds : ExpireKey(k, s)
    \/ \E k \in Key :
         \/ GetKey(k) \/ DelKey(k) \/ ExistsKey(k) \/ TtlKey(k) \/ LLenKey(k)
         \/ PopKey(k, 1) \/ PopKey(k, Len(Items(k)))
    \/ Other \/ Elapse \/ Die \/ Reborn

KSpec == KInit /\ [][KNext]_kvars
=============================================================================
