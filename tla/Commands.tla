----------------------------- MODULE Commands ------------------------------
(***************************************************************************)
(* The dispatch table of command.cpp: what each command does to a database *)
(* and what it answers.  A command is a record of its name and its         *)
(* arguments; a result is a record of the next database and the reply.     *)
(* Replies keep the RESP kind the handler serialises (status, error,       *)
(* integer, bulk); a nil bulk string is the bulk Absent.                   *)
(***************************************************************************)
EXTENDS Store

CONSTANTS
    MsPerSecond,  \* 1000 in the code
    Int64Half     \* 2^63 in the code: int64_t ranges over -Int64Half .. Int64Half-1

ASSUME UnitsAssumption == MsPerSecond \in Nat \ {0} /\ Int64Half \in Nat \ {0}

Ok      == [status |-> "OK"]
Pong    == [status |-> "PONG"]
Err     == [error |-> "ERR"]
WrongType == [error |-> "WRONGTYPE"]
Integer(n) == [int |-> n]
Bulk(v) == [bulk |-> v]
Nil     == Bulk(Absent)
Aborted == [abort |-> TRUE]   \* the process died before it could answer

Reply == [status : {"OK", "PONG"}] \cup [error : {"ERR", "WRONGTYPE"}]
         \cup [int : Int] \cup [bulk : Value \cup {Absent}] \cup [abort : {TRUE}]

Result(d, r) == [db |-> d, reply |-> r]

\* Two's complement arithmetic on int64_t.
Wrap(n) == ((n + Int64Half) % (2 * Int64Half)) - Int64Half

\* is_write_command(): what a leader propagates and a replica refuses.
WriteCommands == {"SET", "DEL", "EXPIRE", "LPUSH", "RPUSH", "LPOP", "RPOP"}

\* The number of arguments each handler insists on (SAVE is in Persistence).
Arity == [SET |-> {2}, GET |-> {1}, DEL |-> {1}, EXISTS |-> {1}, EXPIRE |-> {2},
          TTL |-> {1}, LPUSH |-> {2}, RPUSH |-> {2}, LPOP |-> {1}, RPOP |-> {1},
          LLEN |-> {1}, PING |-> {0, 1}]

-----------------------------------------------------------------------------
(* Handlers. *)

\* type_of(key) == KeyType::String, once the key's deadline has been checked.
IsString(db, k) == Has(db.string_store, k)
IsList(db, k) == ~Has(db.string_store, k) /\ Has(db.list_store, k)

\* std::string copied from back() of an empty list: the copy throws and nothing
\* catches it, so the process dies before it answers.
DoSet(db, k, v) ==
    IF SetHasRoom(db, k) THEN Result(Set(db, k, v), Ok) ELSE Result(db, Aborted)

DoGet(db, k, now) ==
    LET e == LazyEvict(db, k, now)
    IN  CASE IsList(e, k)   -> Result(e, WrongType)
          [] IsString(e, k) -> Result(Touch(e, k), Bulk(e.string_store[k]))
          [] OTHER          -> Result(e, Nil)

DoDel(db, k) == Result(Del(db, k), Ok)

DoExists(db, k, now) ==
    LET e == LazyEvict(db, k, now)
    IN  Result(e, Integer(IF Present(e, k) THEN 1 ELSE 0))

\* db.expire(key, seconds * 1000LL), both the product and the sum with the clock
\* being int64_t arithmetic.  A non-numeric or negative argument is refused.
DoExpire(db, k, seconds, now) ==
    LET e == LazyEvict(db, k, now)
        deadline == Wrap(now + Wrap(seconds * MsPerSecond))
    IN  IF seconds \notin Int \/ seconds < 0 THEN Result(db, Err)
        ELSE Result(Expire(db, k, deadline, now), Integer(IF Present(e, k) THEN 1 ELSE 0))

\* Whole seconds, rounded down; -1 without a deadline, -2 without a key.
DoTtl(db, k, now) ==
    LET e == LazyEvict(db, k, now)
        seconds == IF ~Present(e, k) THEN -2
                   ELSE IF ~Has(e.expiry, k) THEN -1
                   ELSE (e.expiry[k] - now) \div MsPerSecond
    IN  Result(e, Integer(seconds))

\* The list handlers look at the type first; that look evicts an elapsed key.
DoLPush(db, k, v, now) ==
    LET e == LazyEvict(db, k, now)
        d == LPush(e, k, v)
    IN  IF IsString(e, k) THEN Result(e, WrongType)
        ELSE Result(d, Integer(Len(d.list_store[k])))

DoRPush(db, k, v, now) ==
    LET e == LazyEvict(db, k, now)
        d == RPush(e, k, v)
    IN  IF IsString(e, k) THEN Result(e, WrongType)
        ELSE Result(d, Integer(Len(d.list_store[k])))

DoLPop(db, k, now) ==
    LET e == LazyEvict(db, k, now)
        s == ListAt(e, k)
    IN  IF IsString(e, k) THEN Result(e, WrongType)
        ELSE Result(LPop(e, k, now), IF s = <<>> THEN Nil ELSE Bulk(Head(s)))

DoRPop(db, k, now) ==
    LET e == LazyEvict(db, k, now)
        s == ListAt(e, k)
    IN  IF IsString(e, k) THEN Result(e, WrongType)
        ELSE Result(RPop(e, k, now), IF s = <<>> THEN Nil ELSE Bulk(Last(s)))

DoLLen(db, k, now) ==
    LET e == LazyEvict(db, k, now)
    IN  IF IsString(e, k) THEN Result(e, WrongType)
        ELSE Result(e, Integer(Len(ListAt(e, k))))

\* What the RESP parser can hand to a handler: arguments are strings, of which the
\* first is taken for a key and the second for a value (EXPIRE reads a number in it).
WellTyped(cmd) ==
    cmd.name \in DOMAIN Arity /\ Len(cmd.args) \in Arity[cmd.name] =>
        /\ cmd.name # "PING" => cmd.args[1] \in Key
        /\ cmd.name \in {"SET", "LPUSH", "RPUSH"} => cmd.args[2] \in Value
        /\ cmd.name = "PING" /\ cmd.args # <<>> => cmd.args[1] \in Value

-----------------------------------------------------------------------------
(* CommandProcessor::execute(): an unknown name or a wrong number of          *)
(* arguments is an error that leaves the database alone.                      *)

Execute(db, cmd, now) ==
    LET a == cmd.args
    IN  IF cmd.name \notin DOMAIN Arity THEN Result(db, Err)
        ELSE IF Len(a) \notin Arity[cmd.name] THEN Result(db, Err)
        ELSE CASE cmd.name = "SET"    -> DoSet(db, a[1], a[2])
               [] cmd.name = "GET"    -> DoGet(db, a[1], now)
               [] cmd.name = "DEL"    -> DoDel(db, a[1])
               [] cmd.name = "EXISTS" -> DoExists(db, a[1], now)
               [] cmd.name = "EXPIRE" -> DoExpire(db, a[1], a[2], now)
               [] cmd.name = "TTL"    -> DoTtl(db, a[1], now)
               [] cmd.name = "LPUSH"  -> DoLPush(db, a[1], a[2], now)
               [] cmd.name = "RPUSH"  -> DoRPush(db, a[1], a[2], now)
               [] cmd.name = "LPOP"   -> DoLPop(db, a[1], now)
               [] cmd.name = "RPOP"   -> DoRPop(db, a[1], now)
               [] cmd.name = "LLEN"   -> DoLLen(db, a[1], now)
               [] cmd.name = "PING"   -> Result(db, IF a = <<>> THEN Pong ELSE Bulk(a[1]))

=============================================================================
