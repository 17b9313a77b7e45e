----------------------------- MODULE EventLoop -----------------------------
(***************************************************************************)
(* The event loop of server.cpp on a leader, one system call per step,     *)
(* with the Client objects of client.cpp, the replica connections of       *)
(* replication.cpp, the peers at the other ends of the sockets, and the    *)
(* signal handler.  Between any two steps of the loop peers connect, send  *)
(* and go away, and the signal may come.  Whatever select() reported may   *)
(* be out of date when the loop acts on it.                                *)
(*                                                                         *)
(* The unit of a stream is a request, an answer, a propagated command or a *)
(* full sync; Wire has the bytes, Replication the lines.                   *)
(***************************************************************************)
EXTENDS Commands

CONSTANTS
    Peer,              \* processes that connect, each of them once
    Requests,          \* what they send
    Handshake,         \* "REPLICAOF self self", one of the requests
    MaxFd,             \* descriptors the server can have open for peers
    EvictionInterval,  \* kEvictionInterval, 100 in the code
    Now,               \* the clock's reading: it stands still here
    MaxRequests        \* bound on the requests sent

ASSUME DescriptorAssumption == MaxFd \in Nat /\ Absent \notin Peer
ASSUME RequestsAssumption == \A c \in Requests : WellTyped(c)
ASSUME ClockAssumption == Now \in Int /\ MaxRequests \in Nat
ASSUME IntervalAssumption == EvictionInterval \in Nat \ {0}

Fd == 1..MaxFd
Kind == {"client", "replica"}

VARIABLES
    \* the peers and the kernel
    end,        \* the peer's end of its connection
    backlog,    \* peers that connected and were not accepted yet
    inbox,      \* what a peer sent and the server has not received
    sent,       \* what send() has taken for a peer so far (history)
    conn,       \* the peer behind each open descriptor
    \* the server
    table,      \* clients_ and replicas_: maps from descriptors to output buffers
    db,         \* db_
    running,    \* running_
    loop_tick,  \* loop_tick_
    phase,      \* where the loop is
    ready,      \* the descriptors select() reported, as FD_ISSET tells them
    todo,       \* descriptors of the snapshot the loop has yet to look at
    cur,        \* the descriptor being served
    batch,      \* parsed commands of that client not yet executed
    \* history
    quiet,      \* peers that left with nothing on its way to the server
    asks        \* requests sent so far

peers  == <<end, backlog, inbox, quiet, asks>>
server == <<table, db, running, loop_tick, phase, ready, todo, cur, batch>>
vars   == <<peers, sent, conn, server>>

NoPeers == [fd \in Fd |-> Absent]
NoTable == [kind \in Kind |-> [fd \in {} |-> <<>>]]
NotReady == [read |-> {}, write |-> {}]
Ended == phase \in {"exited", "killed"}

Entries(kind) == DOMAIN table[kind]
Without(map, fd) == [x \in DOMAIN map \ {fd} |-> map[x]]
With(map, fd, out) == [x \in DOMAIN map \cup {fd} |-> IF x = fd THEN out ELSE map[x]]
\* Mutant: has_pending_write() of the clients is forgotten.
PendingReplica(fd) == fd \in Entries("replica") /\ table["replica"][fd] # <<>>
Pending(fd) == \E kind \in Kind : fd \in Entries(kind) /\ table[kind][fd] # <<>>

Init ==
    /\ end = [p \in Peer |-> "away"] /\ backlog = {} /\ quiet = {} /\ asks = 0
    /\ inbox = [p \in Peer |-> <<>>] /\ sent = [p \in Peer |-> <<>>]
    /\ conn = NoPeers /\ table = NoTable
    /\ db = EmptyDb /\ running = FALSE /\ loop_tick = 0
    /\ phase = "init" /\ ready = NotReady /\ todo = {} /\ cur = Absent /\ batch = <<>>

-----------------------------------------------------------------------------
(* The peers. *)

Connected(p) == p \in backlog \/ \E fd \in Fd : conn[fd] = p

\* The socket listens from init() on.
Connect(p) == /\ ~Ended /\ end[p] = "away"
              /\ end' = [end EXCEPT ![p] = "here"]
              /\ backlog' = backlog \cup {p}
              /\ UNCHANGED <<inbox, quiet, asks, sent, conn, server>>

Request(p) == /\ end[p] = "here" /\ Connected(p)
              /\ asks < MaxRequests /\ asks' = asks + 1
              /\ \E c \in Requests : inbox' = [inbox EXCEPT ![p] = Append(@, c)]
              /\ UNCHANGED <<end, backlog, quiet, sent, conn, server>>

\* close(), or an abortive close (the peer had answers it did not read).
Leave(p) == /\ end[p] = "here" /\ Connected(p)
            /\ \E how \in {"left", "aborted"} : end' = [end EXCEPT ![p] = how]
            /\ quiet' = IF inbox[p] = <<>> /\ ~(cur # Absent /\ conn[cur] = p)
                        THEN quiet \cup {p} ELSE quiet
            /\ UNCHANGED <<backlog, inbox, asks, sent, conn, server>>

-----------------------------------------------------------------------------
(* Descriptors and the end of the process. *)

\* close(): the table entry goes with the descriptor.
Close(kind, fd) == /\ table' = [table EXCEPT ![kind] = Without(@, fd)]
                   /\ conn' = [conn EXCEPT ![fd] = Absent]

EndProcess(how) ==
    /\ phase' = how
    /\ conn' = NoPeers /\ table' = NoTable
    /\ ready' = NotReady /\ todo' = {} /\ cur' = Absent /\ batch' = <<>>
    /\ UNCHANGED <<peers, sent, db, running, loop_tick>>

\* Mutant: while (true).
MoveOnForever(left) ==
    /\ todo' = left /\ cur' = Absent
    /\ phase' = IF left # {} THEN "turns" ELSE "select"
    /\ ready' = IF left # {} THEN ready ELSE NotReady

\* The loop goes on with the descriptors left, or to the next test of while (running_).
MoveOn(left) ==
    /\ todo' = left /\ cur' = Absent
    /\ phase' = IF left # {} THEN "turns" ELSE IF running THEN "select" ELSE "closing"
    /\ ready' = IF left # {} THEN ready ELSE NotReady

\* Mutant: the buffer is cleared whatever send() took.
SendOutputOnce(kind, fd, least) ==
    LET p   == conn[fd]
        out == table[kind][fd]
    IN  /\ \E n \in least..Len(out) :
             /\ table' = [table EXCEPT ![kind][fd] = <<>>]
             /\ sent' = [sent EXCEPT ![p] = @ \o SubSeq(out, 1, n)]
        /\ UNCHANGED <<end, conn>>

\* send() of an output buffer; least is 1 when select() has just said that the
\* socket takes something.  A peer that has closed answers what it is sent with a
\* reset; after that, send() raises SIGPIPE, which nothing in the code handles.
SendOutput(kind, fd, least) ==
    LET p   == conn[fd]
        out == table[kind][fd]
    IN  \/ /\ end[p] \in {"here", "left"}
           /\ \E n \in least..Len(out) :
                /\ n = 0 => end[p] = "here"
                /\ table' = [table EXCEPT ![kind][fd] = SubSeq(out, n + 1, Len(out))]
                /\ sent' = [sent EXCEPT ![p] = @ \o SubSeq(out, 1, n)]
           /\ end' = IF end[p] = "left" THEN [end EXCEPT ![p] = "reset"] ELSE end
           /\ UNCHANGED conn
        \/ /\ end[p] = "aborted"
           /\ Close(kind, fd)
           /\ UNCHANGED <<sent, end>>

Raises(kind, fd) == end[conn[fd]] = "reset" /\ table[kind][fd] # <<>>

-----------------------------------------------------------------------------
(* select(), the sweep, accept(). *)

Begin == /\ phase = "init"
         /\ running' = TRUE /\ loop_tick' = 0 /\ phase' = "select"
         /\ UNCHANGED <<peers, sent, conn, table, db, ready, todo, cur, batch>>

Readable(fd) == conn[fd] # Absent /\ (inbox[conn[fd]] # <<>> \/ end[conn[fd]] # "here")

\* Mutants: the tick is compared with >, or counted without a sweep.
TickLate == LET tick == loop_tick + 1
            IN  IF tick > EvictionInterval
                THEN loop_tick' = 0 /\ db' = EvictExpired(db, Now)
                ELSE loop_tick' = tick /\ db' = db

TickOnly == loop_tick' = (loop_tick + 1) % EvictionInterval /\ db' = db

\* Count the return of select(), sweep on every EvictionInterval-th one.
Tick == LET tick == loop_tick + 1
        IN  IF tick >= EvictionInterval
            THEN loop_tick' = 0 /\ db' = EvictExpired(db, Now)
            ELSE loop_tick' = tick /\ db' = db

\* The sets are built from the two tables.  Peers read what they are sent, so a socket
\* with something to send is writable by the time select() returns, at the latest
\* after 100 ms.
Select ==
    LET watched == Entries("client") \cup Entries("replica")
        read    == {fd \in watched : Readable(fd)}
        write   == {fd \in watched : Pending(fd)}
    IN  /\ phase = "select"
        /\ Tick
        /\ \/ /\ backlog # {} \/ read \cup write # {}
              /\ phase' = IF backlog # {} THEN "accept" ELSE "turns"
              /\ ready' = [read |-> read, write |-> write] /\ todo' = read \cup write
              /\ UNCHANGED cur
           \/ backlog = {} /\ read \cup write = {} /\ MoveOn({})
        /\ UNCHANGED <<peers, sent, conn, table, running, batch>>

\* handle_new_connection(), until nobody waits.  The kernel gives out the lowest free
\* descriptor; FD_ISSET is false for it, so its turn comes in the next round.
Accept ==
    /\ phase = "accept"
    /\ \E p \in backlog, fd \in Fd :
         /\ conn[fd] = Absent /\ \A low \in 1..(fd - 1) : conn[low] # Absent
         /\ backlog' = backlog \ {p}
         /\ conn' = [conn EXCEPT ![fd] = p]
         /\ table' = [table EXCEPT !["client"] = With(@, fd, <<>>)]
    /\ IF backlog' = {} THEN MoveOn(todo) ELSE UNCHANGED <<ready, todo, cur, phase>>
    /\ UNCHANGED <<end, inbox, quiet, asks, sent, db, running, loop_tick, batch>>

-----------------------------------------------------------------------------
(* Turns. *)

\* Mutant: the write of a turn comes before the read.
WritesFirst(fd) == fd \in ready.write

\* The write of a turn comes after the read, if both are due.
Writes(fd) == fd \in ready.write /\ (cur = fd \/ fd \notin ready.read)

(* The turn of one client: read, serve what was read, write. *)

ClientTurn(fd) == phase = "turns" /\ fd \in todo \cap Entries("client") /\ cur \in {Absent, fd}

\* recv() in read_from_socket(): some of what was sent, or the end of the stream.
ReadClient(fd) ==
    /\ ClientTurn(fd) /\ cur = Absent /\ fd \in ready.read
    /\ LET p == conn[fd]
       IN  \/ /\ inbox[p] # <<>>
              /\ \E n \in 1..Len(inbox[p]) :
                   /\ batch' = SubSeq(inbox[p], 1, n)
                   /\ inbox' = [inbox EXCEPT ![p] = SubSeq(@, n + 1, Len(@))]
              /\ phase' = "serve" /\ cur' = fd
              /\ UNCHANGED <<table, conn, ready, todo>>
           \/ /\ inbox[p] = <<>> /\ end[p] # "here"
              /\ Close("client", fd) /\ MoveOn(todo \ {fd})
              /\ UNCHANGED <<batch, inbox>>
    /\ UNCHANGED <<end, backlog, quiet, asks, sent, db, running, loop_tick>>

HeapHasCell == \E c \in Cell : FreeCell(db, c)

\* Execute a command, queue the answer, propagate a write.
ServeCommand ==
    LET c == Head(batch)
        r == Execute(db, c, Now)
    IN  /\ phase = "serve" /\ batch # <<>> /\ c # Handshake /\ HeapHasCell
        /\ IF r.reply = Aborted THEN EndProcess("killed")
           ELSE /\ db' = r.db
                /\ batch' = Tail(batch)
                /\ table' = [table EXCEPT
                       !["client"][cur] = Append(@, r.reply),
                       !["replica"] = IF c.name \in WriteCommands
                                      THEN [fd \in DOMAIN @ |-> Append(@[fd], c)] ELSE @]
                /\ UNCHANGED <<peers, sent, conn, running, loop_tick, phase, ready, todo, cur>>

\* Mutant: the client is erased without the release, so ~Client() closes the socket.
PromoteClosing ==
    /\ phase = "serve" /\ batch # <<>> /\ Head(batch) = Handshake
    /\ table' = [table EXCEPT !["client"] = Without(@, cur),
                              !["replica"] = With(@, cur, <<[sync |-> db]>>)]
    /\ conn' = [conn EXCEPT ![cur] = Absent]
    /\ batch' = <<>> /\ MoveOn(todo)
    /\ UNCHANGED <<peers, sent, db, running, loop_tick>>

\* REPLICAOF: release the descriptor, erase the client with its buffers, hand the
\* descriptor to the ReplicationManager.  The rest of the batch goes with it.  The
\* bits select() reported are still set when the turns of the replicas come.
Promote ==
    /\ phase = "serve" /\ batch # <<>> /\ Head(batch) = Handshake
    /\ table' = [table EXCEPT !["client"] = Without(@, cur),
                              !["replica"] = With(@, cur, <<[sync |-> db]>>)]
    /\ batch' = <<>> /\ MoveOn(todo)
    /\ UNCHANGED <<peers, sent, conn, db, running, loop_tick>>

\* write_to_socket() at the end of handle_client_read().
SendReplies ==
    /\ phase = "serve" /\ batch = <<>>
    /\ IF Raises("client", cur) THEN EndProcess("killed")
       ELSE /\ SendOutput("client", cur, 0)
            /\ IF cur \in DOMAIN table'["client"] \cap ready.write
               THEN phase' = "turns" /\ UNCHANGED <<ready, todo, cur>>
               ELSE MoveOn(todo \ {cur})
            /\ UNCHANGED <<backlog, inbox, quiet, asks, db, running, loop_tick, batch>>

\* handle_client_write(), after the read of this turn or without one.
WriteClient(fd) ==
    /\ ClientTurn(fd) /\ Writes(fd)
    /\ IF Raises("client", fd) THEN EndProcess("killed")
       ELSE /\ \/ table["client"][fd] = <<>> /\ UNCHANGED <<table, sent, conn, end>>
               \/ /\ table["client"][fd] # <<>>
                  /\ SendOutput("client", fd, IF cur = fd THEN 0 ELSE 1)
            /\ MoveOn(todo \ {fd})
            /\ UNCHANGED <<backlog, inbox, quiet, asks, db, running, loop_tick, batch>>

-----------------------------------------------------------------------------
(* The turn of one replica, after those of all clients: read, then flush. *)

ReplicaTurn(fd) == /\ phase = "turns" /\ todo \cap Entries("client") = {}
                   /\ fd \in todo \cap Entries("replica") /\ cur \in {Absent, fd}

\* handle_replica_read(): the end of the stream removes the replica, anything else
\* is thrown away; a bit left from before the promotion may find nothing to read.
ReadReplica(fd) ==
    /\ ReplicaTurn(fd) /\ cur = Absent /\ fd \in ready.read
    /\ LET p == conn[fd]
       IN  \/ /\ inbox[p] = <<>> /\ end[p] # "here"
              /\ Close("replica", fd) /\ MoveOn(todo \ {fd})
              /\ UNCHANGED inbox
           \/ /\ inbox[p] # <<>> \/ end[p] = "here"
              /\ \E n \in (IF inbox[p] = <<>> THEN {0} ELSE 1..Len(inbox[p])) :
                   inbox' = [inbox EXCEPT ![p] = SubSeq(@, n + 1, Len(@))]
              /\ IF fd \in ready.write THEN cur' = fd /\ UNCHANGED <<ready, todo, phase>>
                                       ELSE MoveOn(todo \ {fd})
              /\ UNCHANGED <<table, conn>>
    /\ UNCHANGED <<end, backlog, quiet, asks, sent, db, running, loop_tick, batch>>

\* flush_replica(), and remove_replica() when it fails.
FlushReplica(fd) ==
    /\ ReplicaTurn(fd) /\ Writes(fd)
    /\ IF Raises("replica", fd) THEN EndProcess("killed")
       ELSE /\ SendOutput("replica", fd, 1)
            /\ MoveOn(todo \ {fd})
            /\ UNCHANGED <<backlog, inbox, quiet, asks, db, running, loop_tick, batch>>

LoopExits == phase = "closing" /\ EndProcess("exited")

-----------------------------------------------------------------------------
(* SIGINT and SIGTERM. *)

\* handle_signal() calls stop(), which saves once.  It may come between any two steps;
\* when select() is waiting, the signal interrupts it and the loop breaks.  A signal
\* before start() has set running_, or a second one, changes nothing.
Signal ==
    /\ running /\ ~Ended
    /\ running' = FALSE
    /\ \/ UNCHANGED phase
       \/ phase = "select" /\ phase' = "closing"
    /\ UNCHANGED <<peers, sent, conn, table, db, loop_tick, ready, todo, cur, batch>>

LoopStep ==
    \/ Begin \/ Select \/ Accept
    \/ \E fd \in Fd : ReadClient(fd) \/ WriteClient(fd) \/ ReadReplica(fd) \/ FlushReplica(fd)
    \/ ServeCommand \/ Promote \/ SendReplies
    \/ LoopExits

\* The process is gone and stays so.
Over == Ended /\ UNCHANGED vars

Next == \/ \E p \in Peer : Connect(p) \/ Request(p) \/ Leave(p)
        \/ LoopStep
        \/ Signal
        \/ Over

Spec == Init /\ [][Next]_vars

\* The loop never blocks for good: every call is on a non-blocking socket, and
\* select() returns within 100 ms.  Peers and signals owe nothing.
FairSpec == Spec /\ WF_vars(LoopStep)

-----------------------------------------------------------------------------
(* Properties. *)

TypeOK ==
    /\ end \in [Peer -> {"away", "here", "left", "aborted", "reset"}]
    /\ backlog \in SUBSET Peer /\ quiet \in SUBSET Peer /\ asks \in 0..MaxRequests
    /\ inbox \in [Peer -> Seq(Requests)]
    /\ conn \in [Fd -> Peer \cup {Absent}]
    /\ DOMAIN table = Kind /\ \A kind \in Kind : Entries(kind) \subseteq Fd
    /\ db \in Database
    /\ running \in BOOLEAN /\ loop_tick \in 0..(EvictionInterval - 1)
    /\ todo \in SUBSET Fd /\ batch \in Seq(Requests)
    /\ cur \in todo \cup {Absent} /\ (phase = "serve" => cur # Absent)

\* server.cpp on the promotion: "~Client() will NOT close socket", "ReplicationManager
\* now owns the socket".  Every entry of clients_ and of replicas_ has its descriptor
\* open, every open descriptor has one owner, and no two of them lead to one peer:
\* nothing is closed twice, leaked, or served through a number the kernel has given to
\* somebody else.
DescriptorsOwned ==
    /\ \A fd \in Fd : conn[fd] # Absent <=> \E kind \in Kind : fd \in Entries(kind)
    /\ Entries("client") \cap Entries("replica") = {}
    /\ \A fd, other \in Fd : conn[fd] = conn[other] /\ conn[fd] # Absent => fd = other

-----------------------------------------------------------------------------
(* Refinement: what the peers see is a Service. *)

RoleOf(p) ==
    IF Ended \/ (end[p] # "away" /\ ~Connected(p)) THEN "gone"
    ELSE IF \E fd \in Entries("replica") : conn[fd] = p THEN "replica"
    ELSE "client"

AskedOf(p) ==
    IF RoleOf(p) # "client" THEN <<>>
    ELSE IF cur # Absent /\ conn[cur] = p THEN batch \o inbox[p]
    ELSE inbox[p]

UnsentTo(p) ==
    LET buffers == UNION {{table[kind][fd] : fd \in {f \in Entries(kind) : conn[f] = p}} :
                          kind \in Kind}
    IN  IF buffers = {} THEN <<>> ELSE CHOOSE out \in buffers : TRUE

ExecuteNow(d, c) == Execute(d, c, Now)
SweepNow(d) == EvictExpired(d, Now)

Promise == INSTANCE Service WITH Outcome <- ExecuteNow, Swept <- SweepNow,
                                 Propagated <- WriteCommands, Empty <- EmptyDb,
                                 role  <- [p \in Peer |-> RoleOf(p)],
                                 asked <- [p \in Peer |-> AskedOf(p)],
                                 told  <- [p \in Peer |-> sent[p] \o UnsentTo(p)]

\* However requests are split over reads and answers over writes, whoever connects,
\* leaves or is promoted in between, and whenever the signal comes: every request is
\* executed at most once and in order, its answer goes to the peer that asked and to
\* nobody else, and each replica hears one snapshot and every write after it.
ImplementsService == Promise!SSpec

-----------------------------------------------------------------------------
(* Action properties and liveness. *)

\* A peer that goes away while the server neither has a request of it in hand nor one
\* waiting does no harm: the loop sees the end of the stream before it sends again,
\* to clients and (server.cpp: "detect disconnect before attempting write") replicas.
\* The others can take the server down, because SIGPIPE is not handled.
QuietLeaversHarmless ==
    [][phase' = "killed" /\ phase # "killed" =>
          \/ \E p \in Peer \ quiet : end[p] = "reset"
          \/ phase = "serve" /\ batch # <<>>]_vars

\* No peer starves: what it asked is served and what it was told is sent, or its
\* connection ends, whatever the other peers do.
EveryRequestAnswered ==
    \A p \in Peer : (AskedOf(p) # <<>> \/ UnsentTo(p) # <<>>)
                     ~> (AskedOf(p) = <<>> /\ UnsentTo(p) = <<>>)

\* server.hpp on stop(): it "signals the event loop to exit".
StopEnds == (~running /\ phase # "init") ~> Ended

\* The sweep reclaims elapsed keys nobody reads, with traffic and without.
ElapsedIsErased == \A k \in Key : Elapsed(db, k, Now) ~> (~Elapsed(db, k, Now) \/ Ended)
=============================================================================
