---------------------------- MODULE Replication ----------------------------
(***************************************************************************)
(* A leader and its replicas: replication.cpp and the parts of server.cpp  *)
(* that drive it.                                                          *)
(*                                                                         *)
(* The unit of the stream is a line.  stream[r] is everything between the  *)
(* leader's propagate() and the replica's apply_leader_line(): the output  *)
(* buffer, the connection, and the replica's input buffer, three queues in *)
(* a row that keep their order.  link[r] is the connection that replica r  *)
(* believes it has:                                                        *)
(*   down       leader_connected_ is false; try_reconnect() will come      *)
(*   handshake  connected, the leader has not read REPLICAOF yet           *)
(*   live       the leader holds a ReplicaConnection for it                *)
(*   closing    the leader's end is gone; what it had sent still arrives   *)
(* The nodes share one clock.                                              *)
(***************************************************************************)
EXTENDS Commands

CONSTANTS
    Replica,    \* replica processes
    Requests,   \* client commands tried, on the leader and on the replicas
    Empty,      \* the empty string, if it is one of the values
    MaxWrites,  \* bound on the commands the leader executes
    MaxFaults,  \* bound on crashes and lost connections
    MaxTime     \* bound on the clock

ASSUME BoundsAssumption == MaxWrites \in Nat /\ MaxFaults \in Nat /\ MaxTime \in Nat
ASSUME EmptyAssumption == Empty \notin Key /\ Empty \notin Int /\ Empty # Absent
\* Arguments are keys, values and numbers.  A write command reaches a replica with any
\* number of them.
ASSUME RequestsAssumption ==
    \A c \in Requests :
        /\ WellTyped(c)
        /\ c.args \in Seq(Key \cup Value \cup Int)
        /\ c.name \in WriteCommands /\ c.args # <<>> => c.args[1] \in Key
        /\ c.name \in {"SET", "LPUSH", "RPUSH"} => \A i \in 2..Len(c.args) : c.args[i] \in Value

VARIABLES
    ldb,      \* db_ of the leader
    rdb,      \* db_ of each replica
    link,     \* the connection of each replica
    stream,   \* the lines on their way to each replica
    stale,    \* keys a replica held and its last full sync did not mention (history)
    now,      \* the wall clock, in milliseconds
    writes,   \* commands executed by the leader so far
    faults    \* crashes and lost connections so far

vars == <<ldb, rdb, link, stream, stale, now, writes, faults>>

Init == /\ ldb = EmptyDb
        /\ rdb = [r \in Replica |-> EmptyDb]
        /\ link = [r \in Replica |-> "down"]
        /\ stream = [r \in Replica |-> <<>>]
        /\ stale = [r \in Replica |-> {}]
        /\ now = 0 /\ writes = 0 /\ faults = 0

-----------------------------------------------------------------------------
(* The lines of the stream.  encode() escapes '%', space, CR and LF, and the  *)
(* receiver splits a line with operator>>: an empty argument leaves no token. *)

Tokens(args) ==
    LET kept[i \in 0..Len(args)] ==
            IF i = 0 THEN <<>>
            ELSE IF args[i] = Empty THEN kept[i - 1]
            ELSE Append(kept[i - 1], args[i])
    IN  kept[Len(args)]

Line(type, args) == [type |-> type, tokens |-> Tokens(args)]

EntryLine(e) == IF e.type = "string"
                THEN Line("REPLSET", <<e.key, e.data, e.expiry>>)
                ELSE Line("REPLLIST", <<e.key, e.expiry>> \o e.data)

\* build_full_sync(): the entries of a snapshot between two markers.
FullSyncs(d, t) == {<<Line("FULLSYNC", <<>>)>>
                      \o [i \in 1..Len(entries) |-> EntryLine(entries[i])]
                      \o <<Line("FULLSYNCDONE", <<>>)>> : entries \in Snapshots(d, t)}

-----------------------------------------------------------------------------
(* apply_leader_line(): what a line does to the replica's database.  It calls *)
(* the Database directly, so no handler checks a type, a deadline or an exact *)
(* number of arguments before it.                                             *)

WithDeadline(d, k, deadline) == IF deadline = Absent THEN d ELSE ExpireAt(d, k, deadline)

\* Mutant: a record of the full sync does not overwrite what the replica holds.
ApplyReplSetOnce(d, tok) ==
    IF Len(tok) < 3 \/ Present(d, tok[1]) THEN d
    ELSE WithDeadline(Set(d, tok[1], tok[2]), tok[1], tok[3])

\* A value that left no token makes the line malformed: it is skipped.  A set()
\* that finds no room throws; the handler catches it after the key was cleared and
\* every node of the LRU list evicted.
ApplyReplSet(d, tok) ==
    IF Len(tok) < 3 THEN d
    ELSE IF ~SetHasRoom(d, tok[1]) THEN EvictLast(Overwrite(d, tok[1]), Len(d.lru_order))
    ELSE WithDeadline(Set(d, tok[1], tok[2]), tok[1], tok[3])

\* Mutants: the list is pushed onto the one the replica holds; the first element is
\* looked for one token too early.
ApplyReplListOnTop(d, tok) ==
    WithDeadline(RPushAll(d, tok[1], SubSeq(tok, 3, Len(tok))), tok[1], tok[2])

ApplyReplListEarly(d, tok) ==
    WithDeadline(RPushAll(Del(d, tok[1]), tok[1], SubSeq(tok, 2, Len(tok))), tok[1], tok[2])

ApplyReplList(d, tok) ==
    WithDeadline(RPushAll(Del(d, tok[1]), tok[1], SubSeq(tok, 3, Len(tok))), tok[1], tok[2])

\* EXPIRE with the replica's clock, and without the leader's check for a negative
\* number of seconds.
ApplyExpire(d, k, seconds, t) ==
    IF seconds \notin Int THEN d
    ELSE Expire(d, k, Wrap(t + Wrap(seconds * MsPerSecond)), t)

ApplyLine(d, l, t) ==
    LET tok == l.tokens
        n   == Len(tok)
    IN  CASE l.type = "REPLSET"            -> ApplyReplSet(d, tok)
          [] l.type = "REPLLIST"           -> ApplyReplList(d, tok)
          [] l.type = "SET" /\ n >= 2 /\ SetHasRoom(d, tok[1]) -> Set(d, tok[1], tok[2])
          [] l.type = "DEL" /\ n >= 1      -> Del(d, tok[1])
          [] l.type = "EXPIRE" /\ n >= 2   -> ApplyExpire(d, tok[1], tok[2], t)
          [] l.type = "LPUSH" /\ n >= 2    -> LPush(d, tok[1], tok[2])
          [] l.type = "RPUSH" /\ n >= 2    -> RPush(d, tok[1], tok[2])
          [] l.type = "LPOP" /\ n >= 1     -> LPop(d, tok[1], t)
          [] l.type = "RPOP" /\ n >= 1     -> RPop(d, tok[1], t)
          [] OTHER                         -> d

\* Nothing catches the exception of a propagated SET that finds no room.
KillsReplica(d, l) == /\ l.type = "SET" /\ Len(l.tokens) >= 2
                      /\ ~SetHasRoom(d, l.tokens[1])

-----------------------------------------------------------------------------
(* Client commands. *)

HeapHasCell(d) == \E c \in Cell : FreeCell(d, c)

\* The leader's end of every connection goes away with the process or the socket;
\* any part of what was queued had left before.
Sever(R) ==
    /\ link' = [r \in Replica |-> IF r \in R /\ link[r] # "down" THEN "closing" ELSE link[r]]
    /\ \E sent \in [R -> 0..Max({Len(stream[r]) : r \in R})] :
         /\ \A r \in R : sent[r] <= Len(stream[r])
         /\ stream' = [r \in Replica |->
                          IF r \in R THEN SubSeq(stream[r], 1, sent[r]) ELSE stream[r]]

\* propagate(): the command as the client sent it, to every replica connection.
Propagate(c) ==
    stream' = [r \in Replica |-> IF link[r] = "live"
                                 THEN Append(stream[r], Line(c.name, c.args))
                                 ELSE stream[r]]

\* Keys whose stale value the replica will have replaced when it reads this line.
Replaced(c) == IF c.name \in {"SET", "DEL"} /\ Len(c.args) \in Arity[c.name]
               THEN {c.args[1]} ELSE {}

\* The leader executes a command and propagates every write command, answered
\* with an error or not.  Without room for a SET it dies before it propagates.
LeaderCommand(c) ==
    LET r == Execute(ldb, c, now)
    IN  /\ writes < MaxWrites
        /\ HeapHasCell(ldb)
        /\ writes' = writes + 1
        /\ IF r.reply = Aborted
           THEN ldb' = EmptyDb /\ Sever(Replica) /\ UNCHANGED stale
           ELSE /\ ldb' = r.db
                /\ UNCHANGED link
                /\ IF c.name \in WriteCommands
                   THEN /\ Propagate(c)
                        /\ stale' = [p \in Replica |-> IF link[p] = "live"
                                        THEN stale[p] \ Replaced(c) ELSE stale[p]]
                   ELSE UNCHANGED <<stream, stale>>
        /\ UNCHANGED <<rdb, now, faults>>

\* A client of a replica: READONLY for a write command, else the same handlers.
ReplicaCommand(r, c) ==
    /\ rdb' = IF c.name \in WriteCommands THEN rdb
              ELSE [rdb EXCEPT ![r] = Execute(@, c, now).db]
    /\ UNCHANGED <<ldb, link, stream, stale, now, writes, faults>>

-----------------------------------------------------------------------------
(* Connections. *)

\* try_reconnect(), and the connect at startup: after some delay, a handshake.
Connect(r) == /\ link[r] = "down"
              /\ link' = [link EXCEPT ![r] = "handshake"]
              /\ UNCHANGED <<ldb, rdb, stream, stale, now, writes, faults>>

\* The leader reads REPLICAOF: add_replica() queues a full sync.
Promote(r) ==
    /\ link[r] = "handshake"
    /\ link' = [link EXCEPT ![r] = "live"]
    /\ \E sync \in FullSyncs(ldb, now) : stream' = [stream EXCEPT ![r] = sync]
    /\ stale' = [stale EXCEPT ![r] =
                   {k \in Key : Present(rdb[r], k) /\ ~Visible(ldb, k, now)}]
    /\ UNCHANGED <<ldb, rdb, now, writes, faults>>

\* The replica's process is gone; the next one starts empty and unconnected.
FreshReplica(r) == /\ rdb' = [rdb EXCEPT ![r] = EmptyDb]
                   /\ link' = [link EXCEPT ![r] = "down"]
                   /\ stream' = [stream EXCEPT ![r] = <<>>]

\* read_from_leader() applies the next complete line.
Deliver(r) ==
    /\ link[r] \in {"live", "closing"}
    /\ stream[r] # <<>>
    /\ HeapHasCell(rdb[r])
    /\ IF KillsReplica(rdb[r], Head(stream[r]))
       THEN FreshReplica(r)
       ELSE /\ rdb' = [rdb EXCEPT ![r] = ApplyLine(@, Head(stream[r]), now)]
            /\ stream' = [stream EXCEPT ![r] = Tail(@)]
            /\ UNCHANGED link
    /\ UNCHANGED <<ldb, stale, now, writes, faults>>

\* Mutant: the replica stays connected to a leader that has closed.
EofUnnoticed(r) == /\ link[r] = "closing" /\ stream[r] = <<>>
                   /\ UNCHANGED vars

\* recv() returns 0 once everything sent has been read.
Eof(r) == /\ link[r] = "closing"
          /\ stream[r] = <<>>
          /\ link' = [link EXCEPT ![r] = "down"]
          /\ UNCHANGED <<ldb, rdb, stream, stale, now, writes, faults>>

-----------------------------------------------------------------------------
(* Faults, sweeps and the clock. *)

Fault == faults < MaxFaults /\ faults' = faults + 1

\* handle_replica_read() or flush_replica() fails: the leader removes the replica.
LeaderDrops(r) == /\ Fault
                  /\ link[r] = "live"
                  /\ Sever({r})
                  /\ UNCHANGED <<ldb, rdb, stale, now, writes>>

\* recv() fails on the replica: it closes, and what was on the way is lost.
ReplicaDrops(r) == /\ Fault
                   /\ link[r] # "down"
                   /\ link' = [link EXCEPT ![r] = "down"]
                   /\ stream' = [stream EXCEPT ![r] = <<>>]
                   /\ UNCHANGED <<ldb, rdb, stale, now, writes>>

\* The leader dies without a database file and starts again.
LeaderRestart == /\ Fault
                 /\ ldb' = EmptyDb
                 /\ Sever(Replica)
                 /\ UNCHANGED <<rdb, stale, now, writes>>

ReplicaRestart(r) == /\ Fault
                     /\ FreshReplica(r)
                     /\ UNCHANGED <<ldb, stale, now, writes>>

LeaderSweep == /\ ldb' = EvictExpired(ldb, now)
               /\ UNCHANGED <<rdb, link, stream, stale, now, writes, faults>>

ReplicaSweep(r) == /\ rdb' = [rdb EXCEPT ![r] = EvictExpired(@, now)]
                   /\ UNCHANGED <<ldb, link, stream, stale, now, writes, faults>>

Advance == /\ now < MaxTime
           /\ now' = now + 1
           /\ UNCHANGED <<ldb, rdb, link, stream, stale, writes, faults>>

Next ==
    \/ \E c \in Requests : LeaderCommand(c)
    \/ \E r \in Replica :
         \/ \E c \in Requests : ReplicaCommand(r, c)
         \/ Connect(r) \/ Promote(r) \/ Deliver(r) \/ Eof(r)
         \/ LeaderDrops(r) \/ ReplicaDrops(r) \/ ReplicaRestart(r) \/ ReplicaSweep(r)
    \/ LeaderRestart \/ LeaderSweep \/ Advance

Spec == Init /\ [][Next]_vars

\* Both event loops keep turning: select() returns within 100 ms, register_fds()
\* watches every replica with output and the leader's socket, and try_reconnect()
\* runs on every iteration without a connection.
FairSpec == Spec /\ \A r \in Replica : /\ WF_vars(Connect(r)) /\ WF_vars(Promote(r))
                                       /\ WF_vars(Deliver(r)) /\ WF_vars(Eof(r))

-----------------------------------------------------------------------------
(* Properties. *)

LineTypes == WriteCommands \cup {"FULLSYNC", "FULLSYNCDONE", "REPLSET", "REPLLIST"}

TypeOK == /\ ldb \in Database
          /\ rdb \in [Replica -> Database]
          /\ link \in [Replica -> {"down", "handshake", "live", "closing"}]
          /\ \A r \in Replica : \A i \in 1..Len(stream[r]) :
                /\ stream[r][i].type \in LineTypes
                /\ Empty \notin ToSet(stream[r][i].tokens)
          /\ stale \in [Replica -> SUBSET Key]
          /\ now \in 0..MaxTime /\ writes \in 0..MaxWrites /\ faults \in 0..MaxFaults

\* What a client reads under a key.
Data(d, k) == IF ~Visible(d, k, now) THEN Absent
              ELSE IF IsString(d, k) THEN [string |-> d.string_store[k]]
              ELSE [list |-> d.list_store[k]]

\* The replica's database once everything on its way has been applied.
Replayed(r) ==
    LET applied[i \in 0..Len(stream[r])] ==
            IF i = 0 THEN rdb[r] ELSE ApplyLine(applied[i - 1], stream[r][i], now)
    IN  applied[Len(stream[r])]

Agrees(d, r) == \A k \in Key \ stale[r] : Data(d, k) = Data(ldb, k)

\* replication.cpp on add_replica(): full sync, then the writes in the order the
\* leader executed them, "guarantees the replica converges to the leader's state".
\* On a connection the leader feeds, what is on the way always completes the
\* replica, whenever it was connected, cut, restarted or synchronised on top of an
\* older state; the documented stale keys excepted.
ReplicaConverges == \A r \in Replica : link[r] = "live" => Agrees(Replayed(r), r)

\* The drift of relative deadlines (EXPIRE is propagated as a number of seconds) and
\* an LRU list of its own decide whether the replica still holds a string, and never
\* what it says: once it has applied what is on the way, a replica never answers a
\* GET with another value than the leader.
ReplicaNeverContradicts ==
    \A r \in Replica : \A k \in Key \ stale[r] :
       LET replica == Replayed(r)
           Answers(d) == Visible(d, k, now) /\ IsString(d, k)
       IN  link[r] = "live" /\ Answers(replica) /\ Answers(ldb)
              => replica.string_store[k] = ldb.string_store[k]

\* README: "Live write propagation to read-only replicas with auto-reconnect".  When
\* clients and faults pause, every replica ends up connected, drained and equal to
\* the leader, wherever its connection was cut.
EventuallyInSync ==
    <>[](\A r \in Replica : link[r] = "live" /\ stream[r] = <<>> /\ Agrees(rdb[r], r))
=============================================================================
