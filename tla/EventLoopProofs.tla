-------------------------- MODULE EventLoopProofs --------------------------
(***************************************************************************)
(* The event loop, for any number of peers and descriptors, any requests,  *)
(* and any order of accepts, reads, promotions, failing sends and signals: *)
(* first, who owns a descriptor and which peers can do harm; then, that    *)
(* EventLoop implements Service.  The splitting of requests over reads and *)
(* of answers over writes, the queues, the promotion and every way in      *)
(* which a connection or the process can end are invisible to the peers.   *)
(***************************************************************************)
EXTENDS EventLoop, StoreProofs

\* The shapes of the tables.
Shaped ==
    /\ conn \in [Fd -> Peer \cup {Absent}]
    /\ table = [kind \in Kind |-> table[kind]]
    /\ \A kind \in Kind : Entries(kind) \subseteq Fd
    /\ backlog \subseteq Peer
    /\ end = [p \in Peer |-> end[p]]

\* A peer connects once, so whoever waits in the backlog has no descriptor yet.
ConnectsOnce ==
    /\ \A p \in backlog : end[p] # "away" /\ \A fd \in Fd : conn[fd] # p
    /\ \A fd \in Fd : conn[fd] # Absent => end[conn[fd]] # "away"

\* The inductive invariant.  The client being served is still in clients_: nothing
\* between the read and the end of the batch disconnects it.
OwnInv ==
    /\ Shaped
    /\ ConnectsOnce
    /\ phase = "serve" => cur \in Entries("client")
    /\ DescriptorsOwned

\* The parts of OwnInv look at no other variable.
LEMMA OwnUnchanged ==
    ASSUME OwnInv, UNCHANGED <<conn, table, backlog, end>>,
           phase' = "serve" => phase = "serve" /\ cur' = cur
    PROVE  OwnInv'
BY DEF OwnInv, Shaped, ConnectsOnce, DescriptorsOwned, Entries

\* Nobody comes or goes: entries and connections stay, whatever is in the buffers.
LEMMA SameEntries ==
    ASSUME OwnInv, UNCHANGED <<conn, backlog>>,
           table' = [kind \in Kind |-> table'[kind]],
           \A kind \in Kind : Entries(kind)' = Entries(kind),
           end' = [p \in Peer |-> end'[p]],
           \A p \in Peer : end[p] # "away" => end'[p] # "away",
           phase' = "serve" => phase = "serve" /\ cur' = cur
    PROVE  OwnInv'
<1>1. Shaped'
  BY DEF OwnInv, Shaped
<1>2. ConnectsOnce'
  BY DescriptorAssumption DEF OwnInv, Shaped, ConnectsOnce
<1>3. phase' = "serve" => cur' \in Entries("client")'
  BY DEF OwnInv, Kind
<1>4. DescriptorsOwned'
  BY DEF OwnInv, DescriptorsOwned, Kind
<1> QED BY <1>1, <1>2, <1>3, <1>4 DEF OwnInv

\* The end of the process closes everything.
LEMMA EndProcessOwn ==
    ASSUME OwnInv, NEW how \in {"exited", "killed"}, EndProcess(how)
    PROVE  OwnInv'
<1>1. /\ conn' = NoPeers /\ table' = NoTable /\ phase' # "serve"
      /\ UNCHANGED <<backlog, end>>
  BY DEF EndProcess, peers
<1>2. \A kind \in Kind : Entries(kind)' = {}
  BY <1>1 DEF Entries, NoTable
<1>3. \A fd \in Fd : conn'[fd] = Absent
  BY <1>1 DEF NoPeers
<1>4. Shaped'
  BY <1>1, <1>2 DEF OwnInv, Shaped, NoPeers, NoTable
<1>5. ConnectsOnce'
  BY <1>1, <1>3, DescriptorAssumption DEF OwnInv, Shaped, ConnectsOnce
<1>6. DescriptorsOwned'
  BY <1>2, <1>3 DEF DescriptorsOwned, Kind
<1> QED BY <1>1, <1>4, <1>5, <1>6 DEF OwnInv

\* A close takes the one entry of its descriptor.
LEMMA CloseOwn ==
    ASSUME OwnInv, NEW kind \in Kind, NEW fd \in Entries(kind), Close(kind, fd),
           UNCHANGED <<backlog, end>>, phase' # "serve"
    PROVE  OwnInv'
<1>1. /\ fd \in Fd
      /\ conn' = [conn EXCEPT ![fd] = Absent]
      /\ table' = [table EXCEPT ![kind] = Without(@, fd)]
  BY DEF OwnInv, Shaped, Close
<1>2. /\ Entries(kind)' = Entries(kind) \ {fd}
      /\ \A other \in Kind \ {kind} : Entries(other)' = Entries(other)
  BY <1>1 DEF OwnInv, Shaped, Entries, Without
<1>3. /\ conn' \in [Fd -> Peer \cup {Absent}] /\ conn'[fd] = Absent
      /\ \A x \in Fd \ {fd} : conn'[x] = conn[x]
  BY <1>1 DEF OwnInv, Shaped
<1>4. table' = [k \in Kind |-> table'[k]]
  BY <1>1 DEF OwnInv, Shaped
<1>5. Shaped'
  BY <1>2, <1>3, <1>4 DEF OwnInv, Shaped
<1>6. ConnectsOnce'
  BY <1>3, DescriptorAssumption DEF OwnInv, Shaped, ConnectsOnce
<1>7. DescriptorsOwned'
  BY <1>2, <1>3 DEF OwnInv, DescriptorsOwned, Kind
<1> QED BY <1>5, <1>6, <1>7 DEF OwnInv

\* An accepted peer gets a descriptor that was closed.
LEMMA AcceptOwn ==
    ASSUME OwnInv, Accept
    PROVE  OwnInv'
<1>1. PICK p \in backlog, fd \in Fd :
        /\ conn[fd] = Absent
        /\ backlog' = backlog \ {p}
        /\ conn' = [conn EXCEPT ![fd] = p]
        /\ table' = [table EXCEPT !["client"] = With(@, fd, <<>>)]
  BY DEF Accept
<1>2. /\ Entries("client")' = Entries("client") \cup {fd}
      /\ Entries("replica")' = Entries("replica")
      /\ table' = [k \in Kind |-> table'[k]]
  BY <1>1 DEF OwnInv, Shaped, Entries, With, Kind
<1>3. p \in Peer /\ p # Absent
  BY DescriptorAssumption DEF OwnInv, Shaped
<1>4. /\ conn' \in [Fd -> Peer \cup {Absent}] /\ conn'[fd] = p
      /\ \A x \in Fd \ {fd} : conn'[x] = conn[x]
  BY <1>1, <1>3 DEF OwnInv, Shaped
<1>5. end' = end /\ phase' # "serve"
  BY DEF Accept, MoveOn
<1>6. Shaped'
  BY <1>1, <1>2, <1>4, <1>5 DEF OwnInv, Shaped, Kind
<1>7. ConnectsOnce'
  BY <1>1, <1>4, <1>5, DescriptorAssumption DEF OwnInv, Shaped, ConnectsOnce
<1>8. DescriptorsOwned'
  <2>1. fd \notin Entries("client") /\ fd \notin Entries("replica")
    BY <1>1 DEF OwnInv, DescriptorsOwned, Kind
  <2>2. \A x \in Fd : conn[x] # p
    BY <1>1 DEF OwnInv, ConnectsOnce
  <2> QED BY <1>2, <1>3, <1>4, <2>1, <2>2 DEF OwnInv, DescriptorsOwned, Kind
<1> QED BY <1>5, <1>6, <1>7, <1>8 DEF OwnInv

\* The promotion moves an entry from clients_ to replicas_ and closes nothing.
LEMMA PromoteOwn ==
    ASSUME OwnInv, Promote
    PROVE  OwnInv'
<1>1. /\ cur \in Entries("client") /\ cur \in Fd
      /\ table' = [table EXCEPT !["client"] = Without(@, cur),
                                !["replica"] = With(@, cur, <<[sync |-> db]>>)]
      /\ UNCHANGED <<conn, end, backlog>>
  BY DEF OwnInv, Shaped, Promote, Kind, peers
<1>2. /\ Entries("client")' = Entries("client") \ {cur}
      /\ Entries("replica")' = Entries("replica") \cup {cur}
      /\ table' = [k \in Kind |-> table'[k]]
  BY <1>1 DEF OwnInv, Shaped, Entries, With, Without, Kind
<1>3. phase' # "serve"
  BY DEF Promote, MoveOn
<1>4. Shaped'
  BY <1>1, <1>2 DEF OwnInv, Shaped, Kind
<1>5. ConnectsOnce'
  BY <1>1 DEF OwnInv, ConnectsOnce
<1>6. DescriptorsOwned'
  BY <1>1, <1>2 DEF OwnInv, DescriptorsOwned, Kind
<1> QED BY <1>3, <1>4, <1>5, <1>6 DEF OwnInv

\* A send leaves the entry or, when it fails, closes the descriptor.
LEMMA SendOwn ==
    ASSUME OwnInv, NEW kind \in Kind, NEW fd \in Entries(kind), NEW least,
           SendOutput(kind, fd, least), UNCHANGED backlog, phase' # "serve"
    PROVE  OwnInv'
<1>1. CASE Close(kind, fd) /\ UNCHANGED end
  BY <1>1, CloseOwn
<1>2. ASSUME NEW out, table' = [table EXCEPT ![kind][fd] = out], UNCHANGED conn,
             end' = IF end[conn[fd]] = "left" THEN [end EXCEPT ![conn[fd]] = "reset"] ELSE end
      PROVE  OwnInv'
  <2>1. /\ table' = [k \in Kind |-> table'[k]]
        /\ \A k \in Kind : Entries(k)' = Entries(k)
    BY <1>2 DEF OwnInv, Shaped, Entries
  <2>2. end' = [p \in Peer |-> end'[p]] /\ \A p \in Peer : end[p] # "away" => end'[p] # "away"
    BY <1>2 DEF OwnInv, Shaped
  <2> QED BY <1>2, <2>1, <2>2, SameEntries
<1> QED BY <1>1, <1>2 DEF SendOutput

\* A command changes what is in the buffers, and not whose they are.
LEMMA ServeOwn ==
    ASSUME OwnInv, ServeCommand
    PROVE  OwnInv'
<1> DEFINE c == Head(batch)
           r == Execute(db, c, Now)
           aloud == c.name \in WriteCommands
<1>1. CASE EndProcess("killed")
  BY <1>1, EndProcessOwn
<1>2. CASE ~EndProcess("killed")
  <2>1. /\ table' = [table EXCEPT
                !["client"][cur] = Append(@, r.reply),
                !["replica"] = IF aloud THEN [fd \in DOMAIN @ |-> Append(@[fd], c)] ELSE @]
        /\ UNCHANGED <<end, backlog, conn, phase, cur>>
    BY <1>2 DEF ServeCommand, peers
  <2> HIDE DEF c, r, aloud
  <2>2. /\ table' = [k \in Kind |-> table'[k]]
        /\ \A k \in Kind : Entries(k)' = Entries(k)
    BY <2>1 DEF OwnInv, Shaped, Entries, Kind
  <2> QED BY <2>1, <2>2, SameEntries DEF OwnInv, Shaped
<1> QED BY <1>1, <1>2

\* A fresh server has no connection.
LEMMA InitOwn == Init => OwnInv
BY DEF Init, OwnInv, Shaped, ConnectsOnce, DescriptorsOwned, Entries, NoPeers, NoTable, Kind

\* Every step keeps the invariant.
LEMMA NextOwn == OwnInv /\ [Next]_vars => OwnInv'
<1> SUFFICES ASSUME OwnInv, [Next]_vars
             PROVE  OwnInv'
  OBVIOUS
<1>1. ASSUME NEW p \in Peer, Connect(p)
      PROVE  OwnInv'
  <2>1. /\ end[p] = "away" /\ end' = [end EXCEPT ![p] = "here"]
        /\ backlog' = backlog \cup {p}
        /\ UNCHANGED <<conn, table, phase, cur>>
    BY <1>1 DEF Connect, server
  <2>2. Shaped'
    BY <2>1 DEF OwnInv, Shaped, Entries
  <2>3. ConnectsOnce'
    BY <2>1, DescriptorAssumption DEF OwnInv, Shaped, ConnectsOnce
  <2> QED BY <2>1, <2>2, <2>3 DEF OwnInv, DescriptorsOwned, Entries
<1>2. ASSUME NEW p \in Peer, Request(p)
      PROVE  OwnInv'
  BY <1>2, OwnUnchanged DEF Request, server
<1>3. ASSUME NEW p \in Peer, Leave(p)
      PROVE  OwnInv'
  <2>1. PICK how \in {"left", "aborted"} : end' = [end EXCEPT ![p] = how]
    BY <1>3 DEF Leave
  <2>2. UNCHANGED <<conn, table, backlog, phase, cur>>
    BY <1>3 DEF Leave, server
  <2>3. end' = [q \in Peer |-> end'[q]] /\ \A q \in Peer : end[q] # "away" => end'[q] # "away"
    BY <2>1 DEF OwnInv, Shaped
  <2> QED BY <2>2, <2>3, SameEntries DEF OwnInv, Shaped, Entries
<1>4. CASE Begin \/ Select
  BY <1>4, OwnUnchanged DEF Begin, Select, MoveOn, peers
<1>5. CASE Accept
  BY <1>5, AcceptOwn
<1>6. ASSUME NEW fd \in Fd, ReadClient(fd)
      PROVE  OwnInv'
  <2>1. fd \in Entries("client") /\ UNCHANGED <<backlog, end>>
    BY <1>6 DEF ReadClient, ClientTurn
  <2>2. CASE Close("client", fd) /\ MoveOn(todo \ {fd})
    BY <2>1, <2>2, CloseOwn DEF MoveOn, Kind
  <2>3. CASE cur' = fd /\ UNCHANGED <<table, conn>>
    BY <2>1, <2>3 DEF OwnInv, Shaped, ConnectsOnce, DescriptorsOwned, Entries
  <2> QED BY <1>6, <2>2, <2>3 DEF ReadClient
<1>7. ASSUME NEW fd \in Fd, WriteClient(fd)
      PROVE  OwnInv'
  <2>1. fd \in Entries("client")
    BY <1>7 DEF WriteClient, ClientTurn
  <2>2. CASE EndProcess("killed")
    BY <2>2, EndProcessOwn
  <2>3. CASE ~EndProcess("killed")
    <3>1. UNCHANGED backlog /\ phase' # "serve"
      BY <1>7, <2>3 DEF WriteClient, MoveOn
    <3>2. \/ UNCHANGED <<table, conn, end>>
          \/ SendOutput("client", fd, IF cur = fd THEN 0 ELSE 1)
      BY <1>7, <2>3 DEF WriteClient
    <3> QED BY <2>1, <3>1, <3>2, OwnUnchanged, SendOwn DEF Kind
  <2> QED BY <2>2, <2>3
<1>8. ASSUME NEW fd \in Fd, ReadReplica(fd)
      PROVE  OwnInv'
  <2>1. fd \in Entries("replica") /\ UNCHANGED <<backlog, end>> /\ phase = "turns"
    BY <1>8 DEF ReadReplica, ReplicaTurn
  <2>2. CASE Close("replica", fd) /\ MoveOn(todo \ {fd})
    BY <2>1, <2>2, CloseOwn DEF MoveOn, Kind
  <2>3. CASE UNCHANGED <<table, conn>> /\ phase' # "serve"
    BY <2>1, <2>3, OwnUnchanged
  <2> QED BY <1>8, <2>1, <2>2, <2>3 DEF ReadReplica, MoveOn
<1>9. ASSUME NEW fd \in Fd, FlushReplica(fd)
      PROVE  OwnInv'
  <2>1. fd \in Entries("replica")
    BY <1>9 DEF FlushReplica, ReplicaTurn
  <2>2. CASE EndProcess("killed")
    BY <2>2, EndProcessOwn
  <2>3. CASE ~EndProcess("killed")
    <3>1. UNCHANGED backlog /\ phase' # "serve" /\ SendOutput("replica", fd, 1)
      BY <1>9, <2>3 DEF FlushReplica, MoveOn
    <3> QED BY <2>1, <3>1, SendOwn DEF Kind
  <2> QED BY <2>2, <2>3
<1>10. CASE ServeCommand
  BY <1>10, ServeOwn
<1>11. CASE Promote
  BY <1>11, PromoteOwn
<1>12. CASE SendReplies
  <2>1. CASE EndProcess("killed")
    BY <2>1, EndProcessOwn
  <2>2. CASE ~EndProcess("killed")
    <3>1. cur \in Entries("client") /\ SendOutput("client", cur, 0) /\ UNCHANGED backlog
      BY <1>12, <2>2 DEF SendReplies, OwnInv
    <3>2. phase' # "serve"
      BY <1>12, <2>2 DEF SendReplies, MoveOn
    <3> QED BY <3>1, <3>2, SendOwn DEF Kind
  <2> QED BY <2>1, <2>2
<1>13. CASE LoopExits
  BY <1>13, EndProcessOwn DEF LoopExits
<1>14. CASE Signal
  BY <1>14, OwnUnchanged DEF Signal, peers
<1>15. CASE UNCHANGED vars
  BY <1>15, OwnUnchanged DEF vars, peers, server
<1> QED BY <1>1, <1>2, <1>3, <1>4, <1>5, <1>6, <1>7, <1>8, <1>9, <1>10, <1>11, <1>12, <1>13,
           <1>14, <1>15 DEF Next, LoopStep, Over

-----------------------------------------------------------------------------
(* Descriptors. *)

\* Whatever is accepted, promoted, closed or killed, every descriptor has one owner
\* and every owner its descriptor.
THEOREM EveryDescriptorOwned == Spec => []DescriptorsOwned
<1>1. OwnInv => DescriptorsOwned
  BY DEF OwnInv
<1> QED BY InitOwn, NextOwn, <1>1, PTL DEF Spec

-----------------------------------------------------------------------------
(* Types. *)

\* What TypeOK says of the variables that OwnInv leaves out, over a database that
\* the commands and the sweep keep sound.
TypeInv ==
    /\ end \in [Peer -> {"away", "here", "left", "aborted", "reset"}]
    /\ quiet \in SUBSET Peer /\ asks \in 0..MaxRequests
    /\ inbox \in [Peer -> Seq(Requests)]
    /\ Sound(db) /\ Fits(db)
    /\ running \in BOOLEAN /\ loop_tick \in 0..(EvictionInterval - 1)
    /\ todo \in SUBSET Fd /\ batch \in Seq(Requests)
    /\ cur \in todo \cup {Absent} /\ (phase = "serve" => cur # Absent)
    /\ phase \notin {"turns", "serve"} => cur = Absent

\* The beginning of a sequence of requests and the rest of it.
LEMMA SplitTyped ==
    ASSUME NEW s \in Seq(Requests), NEW n \in 0..Len(s)
    PROVE  SubSeq(s, 1, n) \in Seq(Requests) /\ SubSeq(s, n + 1, Len(s)) \in Seq(Requests)
<1>1. Len(s) \in Nat /\ \A i \in 1..Len(s) : s[i] \in Requests
  BY LenProperties, ElementOfSeq
<1> QED BY <1>1, SubSeqProperties

\* Steps that touch only the tables, the connections and what has been sent.
LEMMA TypeUnchanged ==
    ASSUME TypeInv, UNCHANGED <<end, quiet, asks, inbox, db, running, loop_tick>>,
           UNCHANGED <<todo, batch, cur>>, phase' = "serve" => phase = "serve",
           phase' \notin {"turns", "serve"} => phase \notin {"turns", "serve"}
    PROVE  TypeInv'
BY DEF TypeInv

\* The end of a turn.
LEMMA MoveOnType ==
    ASSUME TypeInv, NEW left \in SUBSET Fd, MoveOn(left),
           end' \in [Peer -> {"away", "here", "left", "aborted", "reset"}],
           inbox' \in [Peer -> Seq(Requests)], batch' \in Seq(Requests),
           UNCHANGED <<quiet, asks, db, running, loop_tick>>
    PROVE  TypeInv'
BY DEF TypeInv, MoveOn

\* The end of the process.
LEMMA EndProcessType ==
    ASSUME TypeInv, NEW how \in {"exited", "killed"}, EndProcess(how)
    PROVE  TypeInv'
<1>1. <<>> \in Seq(Requests)
  BY EmptySeq
<1> QED BY <1>1 DEF TypeInv, EndProcess, peers

\* A send at most makes the peer answer the next one with a reset.
LEMMA SendType ==
    ASSUME TypeInv, NEW kind, NEW fd, NEW least, SendOutput(kind, fd, least)
    PROVE  end' \in [Peer -> {"away", "here", "left", "aborted", "reset"}]
BY DEF TypeInv, SendOutput, Close

\* A fresh server.
LEMMA InitType == Init => TypeInv
<1>1. <<>> \in Seq(Requests)
  BY EmptySeq
<1>2. 0 \in 0..MaxRequests /\ 0 \in 0..(EvictionInterval - 1)
  BY ClockAssumption, IntervalAssumption
<1>3. Init => Sound(db) /\ Fits(db)
  BY EmptySound DEF Init
<1> QED BY <1>1, <1>2, <1>3 DEF Init, TypeInv

\* The return of select(): the sweep keeps the database sound.
LEMMA SelectType ==
    ASSUME OwnInv, TypeInv, Select
    PROVE  TypeInv'
<1>1. Sound(EvictExpired(db, Now)) /\ Fits(EvictExpired(db, Now))
  BY ClockAssumption, EvictExpiredSound, EvictExpiredFits DEF TypeInv
<1>2. /\ Sound(db') /\ Fits(db')
      /\ loop_tick' \in 0..(EvictionInterval - 1)
  <2>1. Tick
    BY DEF Select
  <2>2. CASE loop_tick + 1 >= EvictionInterval
    BY <1>1, <2>1, <2>2, IntervalAssumption DEF Tick
  <2>3. CASE ~(loop_tick + 1 >= EvictionInterval)
    <3>1. loop_tick' = loop_tick + 1 /\ db' = db
      BY <2>1, <2>3 DEF Tick
    <3> QED BY <2>3, <3>1, IntervalAssumption DEF TypeInv
  <2> QED BY <2>2, <2>3
<1>3. todo' \in SUBSET Fd /\ cur' = Absent /\ phase' # "serve"
  <2>1. Entries("client") \subseteq Fd /\ Entries("replica") \subseteq Fd
    BY DEF OwnInv, Shaped, Kind
  <2>2. CASE MoveOn({})
    BY <2>2 DEF MoveOn
  <2>3. CASE ~MoveOn({})
    <3>1. /\ todo' \subseteq Entries("client") \cup Entries("replica")
          /\ phase' # "serve" /\ cur' = cur
      BY <2>3 DEF Select
    <3> QED BY <2>1, <3>1 DEF Select, TypeInv
  <2> QED BY <2>2, <2>3
<1>4. UNCHANGED <<end, quiet, asks, inbox, running, batch>>
  BY DEF Select, peers
<1> QED BY <1>2, <1>3, <1>4 DEF TypeInv

\* A command leaves a sound database and the rest of the batch.
LEMMA ServeType ==
    ASSUME TypeInv, ServeCommand
    PROVE  TypeInv'
<1>1. CASE EndProcess("killed")
  BY <1>1, EndProcessType
<1>2. CASE ~EndProcess("killed")
  <2>1. /\ batch # <<>> /\ phase = "serve" /\ \E cell \in Cell : FreeCell(db, cell)
        /\ db' = Execute(db, Head(batch), Now).db /\ batch' = Tail(batch)
        /\ UNCHANGED <<end, quiet, asks, inbox, running, loop_tick, phase, todo, cur>>
    BY <1>2 DEF ServeCommand, HeapHasCell, peers
  <2>2. Head(batch) \in Requests /\ Tail(batch) \in Seq(Requests)
    BY <2>1, HeadTailProperties DEF TypeInv
  <2>3. WellTyped(Head(batch))
    BY <2>2, RequestsAssumption
  <2>4. GoodResult(Execute(db, Head(batch), Now))
    BY <2>1, <2>3, ClockAssumption, ExecuteGood DEF TypeInv
  <2> QED BY <2>1, <2>2, <2>4 DEF TypeInv, GoodResult
<1> QED BY <1>1, <1>2

\* Every step keeps the types.
LEMMA NextType == OwnInv /\ TypeInv /\ [Next]_vars => TypeInv'
<1> SUFFICES ASSUME OwnInv, TypeInv, [Next]_vars
             PROVE  TypeInv'
  OBVIOUS
<1> DEFINE Ends == {"away", "here", "left", "aborted", "reset"}
<1>1. /\ \A p \in Peer : inbox[p] \in Seq(Requests) /\ Len(inbox[p]) \in Nat
      /\ inbox \in [Peer -> Seq(Requests)] /\ end \in [Peer -> Ends]
      /\ batch \in Seq(Requests) /\ todo \in SUBSET Fd /\ asks \in 0..MaxRequests
  BY LenProperties DEF TypeInv
<1>2. ASSUME NEW p \in Peer, Connect(p)
      PROVE  TypeInv'
  BY <1>2 DEF Connect, TypeInv, server
<1>3. ASSUME NEW p \in Peer, Request(p)
      PROVE  TypeInv'
  <2>1. PICK c \in Requests : inbox' = [inbox EXCEPT ![p] = Append(@, c)]
    BY <1>3 DEF Request
  <2>2. Append(inbox[p], c) \in Seq(Requests)
    BY <1>1, AppendProperties
  <2>3. inbox' \in [Peer -> Seq(Requests)]
    BY <1>1, <2>1, <2>2
  <2>4. asks' \in 0..MaxRequests /\ UNCHANGED <<end, quiet, server>>
    BY <1>1, <1>3, ClockAssumption DEF Request
  <2> QED BY <2>3, <2>4 DEF TypeInv, server
<1>4. ASSUME NEW p \in Peer, Leave(p)
      PROVE  TypeInv'
  <2>1. end' \in [Peer -> Ends] /\ quiet' \in SUBSET Peer
    BY <1>4 DEF Leave, TypeInv
  <2> QED BY <1>4, <2>1 DEF TypeInv, Leave, server
<1>5. CASE Begin
  <2>1. 0 \in 0..(EvictionInterval - 1)
    BY IntervalAssumption
  <2> QED BY <1>5, <2>1 DEF Begin, TypeInv, peers
<1>6. CASE Select
  BY <1>6, SelectType
<1>7. CASE Accept
  <2>1. UNCHANGED <<end, inbox, quiet, asks, db, running, loop_tick, batch>>
    BY <1>7 DEF Accept
  <2> QED BY <1>1, <1>7, <2>1, MoveOnType, TypeUnchanged DEF Accept
<1>8. ASSUME NEW fd \in Fd, ReadClient(fd)
      PROVE  TypeInv'
  <2>1. /\ fd \in todo /\ fd \in Entries("client")
        /\ UNCHANGED <<end, quiet, asks, db, running, loop_tick>>
    BY <1>8 DEF ReadClient, ClientTurn
  <2>2. CASE MoveOn(todo \ {fd}) /\ UNCHANGED <<batch, inbox>>
    BY <1>1, <2>1, <2>2, MoveOnType
  <2>3. CASE ~(MoveOn(todo \ {fd}) /\ UNCHANGED <<batch, inbox>>)
    <3>1. PICK n \in 1..Len(inbox[conn[fd]]) :
            /\ batch' = SubSeq(inbox[conn[fd]], 1, n)
            /\ inbox' = [inbox EXCEPT ![conn[fd]] = SubSeq(@, n + 1, Len(@))]
      BY <1>8, <2>3 DEF ReadClient
    <3>2. phase' = "serve" /\ cur' = fd /\ UNCHANGED todo
      BY <1>8, <2>3 DEF ReadClient
    <3>3. PICK p : p = conn[fd]
      OBVIOUS
    <3>4. p \in Peer
      BY <2>1, <3>3 DEF OwnInv, Shaped, DescriptorsOwned, Kind
    <3>5. n \in 0..Len(inbox[p])
      BY <1>1, <3>3, <3>4
    <3>6. batch' \in Seq(Requests) /\ SubSeq(inbox[p], n + 1, Len(inbox[p])) \in Seq(Requests)
      BY <1>1, <3>1, <3>3, <3>4, <3>5, SplitTyped
    <3>7. inbox' \in [Peer -> Seq(Requests)]
      BY <1>1, <3>1, <3>3, <3>4, <3>6
    <3>8. fd # Absent
      BY AbsentAssumption DEF Fd
    <3> QED BY <2>1, <3>2, <3>6, <3>7, <3>8 DEF TypeInv
  <2> QED BY <2>2, <2>3
<1>9. ASSUME NEW fd \in Fd, WriteClient(fd)
      PROVE  TypeInv'
  <2>1. CASE EndProcess("killed")
    BY <2>1, EndProcessType
  <2>2. CASE ~EndProcess("killed")
    <3>1. /\ MoveOn(todo \ {fd}) /\ UNCHANGED <<inbox, quiet, asks, db, running, loop_tick, batch>>
          /\ \/ UNCHANGED end
             \/ SendOutput("client", fd, IF cur = fd THEN 0 ELSE 1)
      BY <1>9, <2>2 DEF WriteClient
    <3>2. end' \in [Peer -> Ends]
      BY <1>1, <3>1, SendType
    <3> QED BY <1>1, <3>1, <3>2, MoveOnType
  <2> QED BY <2>1, <2>2
<1>10. ASSUME NEW fd \in Fd, ReadReplica(fd)
       PROVE  TypeInv'
  <2>1. /\ fd \in todo /\ fd \in Entries("replica") /\ phase = "turns"
        /\ UNCHANGED <<end, quiet, asks, db, running, loop_tick, batch>>
    BY <1>10 DEF ReadReplica, ReplicaTurn
  <2>2. PICK p : p = conn[fd]
    OBVIOUS
  <2>3. p \in Peer
    BY <2>1, <2>2 DEF OwnInv, Shaped, DescriptorsOwned, Kind
  <2>4. inbox' \in [Peer -> Seq(Requests)]
    <3>1. CASE UNCHANGED inbox
      BY <1>1, <3>1
    <3>2. ASSUME NEW n \in (IF inbox[p] = <<>> THEN {0} ELSE 1..Len(inbox[p])),
                 inbox' = [inbox EXCEPT ![p] = SubSeq(@, n + 1, Len(@))]
          PROVE  inbox' \in [Peer -> Seq(Requests)]
      <4>1. n \in 0..Len(inbox[p])
        BY <1>1, <2>3
      <4>2. SubSeq(inbox[p], n + 1, Len(inbox[p])) \in Seq(Requests)
        BY <1>1, <2>3, <4>1, SplitTyped
      <4> QED BY <1>1, <2>3, <3>2, <4>2
    <3> QED BY <1>10, <2>2, <3>1, <3>2 DEF ReadReplica
  <2>5. CASE MoveOn(todo \ {fd})
    BY <1>1, <2>1, <2>4, <2>5, MoveOnType
  <2>6. CASE ~MoveOn(todo \ {fd})
    <3>1. cur' = fd /\ UNCHANGED <<todo, phase>>
      BY <1>10, <2>6 DEF ReadReplica
    <3> QED BY <2>1, <2>4, <3>1 DEF TypeInv
  <2> QED BY <2>5, <2>6
<1>11. ASSUME NEW fd \in Fd, FlushReplica(fd)
       PROVE  TypeInv'
  <2>1. CASE EndProcess("killed")
    BY <2>1, EndProcessType
  <2>2. CASE ~EndProcess("killed")
    <3>1. /\ MoveOn(todo \ {fd}) /\ UNCHANGED <<inbox, quiet, asks, db, running, loop_tick, batch>>
          /\ SendOutput("replica", fd, 1)
      BY <1>11, <2>2 DEF FlushReplica
    <3> QED BY <1>1, <3>1, SendType, MoveOnType
  <2> QED BY <2>1, <2>2
<1>12. CASE ServeCommand
  BY <1>12, ServeType
<1>13. CASE Promote
  <2>1. <<>> \in Seq(Requests)
    BY EmptySeq
  <2>2. /\ MoveOn(todo) /\ batch' = <<>>
        /\ UNCHANGED <<end, inbox, quiet, asks, db, running, loop_tick>>
    BY <1>13 DEF Promote, peers
  <2> QED BY <1>1, <2>1, <2>2, MoveOnType
<1>14. CASE SendReplies
  <2>1. CASE EndProcess("killed")
    BY <2>1, EndProcessType
  <2>2. CASE ~EndProcess("killed")
    <3>1. /\ UNCHANGED <<inbox, quiet, asks, db, running, loop_tick, batch>>
          /\ SendOutput("client", cur, 0)
          /\ \/ phase' = "turns" /\ UNCHANGED <<todo, cur>>
             \/ MoveOn(todo \ {cur})
      BY <1>14, <2>2 DEF SendReplies
    <3>2. end' \in [Peer -> Ends]
      BY <3>1, SendType
    <3>3. CASE MoveOn(todo \ {cur})
      BY <1>1, <3>1, <3>2, <3>3, MoveOnType
    <3>4. CASE phase' = "turns" /\ UNCHANGED <<todo, cur>>
      BY <3>1, <3>2, <3>4 DEF TypeInv
    <3> QED BY <3>1, <3>3, <3>4
  <2> QED BY <2>1, <2>2
<1>15. CASE LoopExits
  BY <1>15, EndProcessType DEF LoopExits
<1>16. CASE Signal
  BY <1>16 DEF Signal, TypeInv, peers
<1>17. CASE UNCHANGED vars
  BY <1>17 DEF vars, peers, server, TypeInv
<1> QED BY <1>2, <1>3, <1>4, <1>5, <1>6, <1>7, <1>8, <1>9, <1>10, <1>11, <1>12, <1>13, <1>14,
           <1>15, <1>16, <1>17 DEF Next, LoopStep, Over

\* The type invariant: requests stay requests on their way through the server, and what
\* the loop serves is always a well-formed database.
THEOREM LoopTypeCorrect == Spec => []TypeOK
<1>1. OwnInv /\ TypeInv => TypeOK
  <2>1. OwnInv => /\ DOMAIN table = Kind /\ backlog \in SUBSET Peer
                  /\ conn \in [Fd -> Peer \cup {Absent}]
                  /\ \A kind \in Kind : Entries(kind) \subseteq Fd
    BY DEF OwnInv, Shaped
  <2>2. TypeInv => db \in Database
    BY SoundDatabase DEF TypeInv
  <2> QED BY <2>1, <2>2 DEF TypeInv, TypeOK
<1> QED BY InitOwn, NextOwn, InitType, NextType, <1>1, PTL DEF Spec

-----------------------------------------------------------------------------
(* Peers that left quietly. *)

QuietShaped ==
    /\ quiet \subseteq Peer
    /\ inbox = [p \in Peer |-> inbox[p]]
    /\ todo \subseteq {fd \in Fd : conn[fd] # Absent}
    /\ cur # Absent => cur \in Fd /\ conn[cur] # Absent

\* A peer that left quietly has nothing to be read but the end of its stream; it is not
\* the one being served, and if a send has already made it answer with a reset, its
\* next turn begins with a read.
QuietInv ==
    /\ QuietShaped
    /\ \A p \in quiet : inbox[p] = <<>> /\ end[p] \in {"left", "aborted", "reset"}
    /\ cur # Absent => conn[cur] \notin quiet
    /\ \A fd \in todo : conn[fd] \in quiet /\ end[conn[fd]] = "reset" => fd \in ready.read

\* The end of the process leaves nobody to be served.
LEMMA EndProcessQuiet ==
    ASSUME QuietInv, NEW how, EndProcess(how)
    PROVE  QuietInv'
BY DEF QuietInv, QuietShaped, EndProcess, peers

\* Moving on with fewer descriptors, after a close or without.
LEMMA MoveOnQuiet ==
    ASSUME OwnInv, QuietInv, NEW left \in SUBSET todo, MoveOn(left),
           UNCHANGED <<quiet, inbox, end>>,
           \A fd \in left : conn'[fd] = conn[fd]
    PROVE  QuietInv'
<1>1. cur' = Absent /\ todo' = left /\ (left # {} => ready' = ready)
  BY DEF MoveOn
<1>2. QuietShaped'
  BY <1>1 DEF QuietInv, QuietShaped
<1> QED BY <1>1, <1>2 DEF QuietInv, QuietShaped

\* A send to a descriptor whose turn is over.
LEMMA SendQuiet ==
    ASSUME OwnInv, QuietInv, NEW kind \in Kind, NEW fd \in Entries(kind), NEW least,
           SendOutput(kind, fd, least), MoveOn(todo \ {fd}), UNCHANGED <<quiet, inbox>>
    PROVE  QuietInv'
<1>1. CASE UNCHANGED end
  <2>1. \A x \in todo \ {fd} : conn'[x] = conn[x]
    BY DEF SendOutput, Close, OwnInv, Shaped, QuietInv, QuietShaped
  <2> QED BY <1>1, <2>1, MoveOnQuiet
<1>2. CASE end[conn[fd]] = "left" /\ end' = [end EXCEPT ![conn[fd]] = "reset"]
           /\ UNCHANGED conn
  <2>1. /\ fd \in Fd /\ conn[fd] \in Peer
        /\ \A x \in Fd \ {fd} : conn[x] # conn[fd]
    BY DEF OwnInv, Shaped, DescriptorsOwned
  <2>2. /\ cur' = Absent /\ todo' = todo \ {fd}
        /\ todo \ {fd} # {} => ready' = ready
    BY DEF MoveOn
  <2>3. QuietShaped'
    BY <1>2, <2>2 DEF QuietInv, QuietShaped
  <2>4. \A p \in Peer : end'[p] = IF p = conn[fd] THEN "reset" ELSE end[p]
    BY <1>2 DEF OwnInv, Shaped
  <2>5. \A x \in todo' : end'[conn'[x]] = end[conn[x]] \/ conn[x] \notin quiet
    BY <1>2, <2>1, <2>2, <2>4 DEF QuietInv, QuietShaped
  <2> QED BY <1>2, <2>2, <2>3, <2>4, <2>5 DEF QuietInv, QuietShaped
<1> QED BY <1>1, <1>2 DEF SendOutput

\* Every step keeps the invariant.
LEMMA NextQuiet == OwnInv /\ QuietInv /\ [Next]_vars => QuietInv'
<1> SUFFICES ASSUME OwnInv, QuietInv, [Next]_vars
             PROVE  QuietInv'
  OBVIOUS
<1>1. ASSUME UNCHANGED <<quiet, inbox, conn, end, todo, cur, ready>>
      PROVE  QuietInv'
  BY <1>1 DEF QuietInv, QuietShaped
<1>2. ASSUME NEW p \in Peer, Connect(p)
      PROVE  QuietInv'
  <2>1. /\ end[p] = "away" /\ end' = [end EXCEPT ![p] = "here"]
        /\ UNCHANGED <<quiet, inbox, conn, todo, cur, ready>>
    BY <1>2 DEF Connect, server
  <2>2. p \notin quiet /\ \A q \in quiet : end'[q] = end[q]
    BY <2>1 DEF QuietInv, QuietShaped, OwnInv, Shaped
  <2> QED BY <2>1, <2>2 DEF QuietInv, QuietShaped
<1>3. ASSUME NEW p \in Peer, Request(p)
      PROVE  QuietInv'
  <2>1. /\ end[p] = "here" /\ \E c \in Requests : inbox' = [inbox EXCEPT ![p] = Append(@, c)]
        /\ UNCHANGED <<quiet, end, conn, todo, cur, ready>>
    BY <1>3 DEF Request, server
  <2>2. p \notin quiet /\ \A q \in quiet : inbox'[q] = inbox[q]
    BY <2>1 DEF QuietInv, QuietShaped
  <2> QED BY <2>1, <2>2 DEF QuietInv, QuietShaped
<1>4. ASSUME NEW p \in Peer, Leave(p)
      PROVE  QuietInv'
  <2>1. PICK how \in {"left", "aborted"} : end' = [end EXCEPT ![p] = how]
    BY <1>4 DEF Leave
  <2>2. UNCHANGED <<inbox, conn, todo, cur, ready>>
    BY <1>4 DEF Leave, server
  <2>3. \/ quiet' = quiet
        \/ /\ quiet' = quiet \cup {p} /\ inbox[p] = <<>>
           /\ ~(cur # Absent /\ conn[cur] = p)
    BY <1>4 DEF Leave
  <2>4. \A q \in Peer : end'[q] = IF q = p THEN how ELSE end[q]
    BY <2>1 DEF OwnInv, Shaped
  <2>5. end'[p] \in {"left", "aborted"}
    BY <2>4
  <2>6. QuietShaped'
    BY <2>2, <2>3 DEF QuietInv, QuietShaped
  <2>7. \A q \in quiet' : inbox'[q] = <<>> /\ end'[q] \in {"left", "aborted", "reset"}
    BY <2>2, <2>3, <2>4, <2>5 DEF QuietInv, QuietShaped
  <2>8. cur' # Absent => conn'[cur'] \notin quiet'
    BY <2>2, <2>3 DEF QuietInv, QuietShaped
  <2>9. \A fd \in todo' :
          conn'[fd] \in quiet' /\ end'[conn'[fd]] = "reset" => fd \in ready'.read
    <3> SUFFICES ASSUME NEW fd \in todo', conn'[fd] \in quiet', end'[conn'[fd]] = "reset"
                 PROVE  fd \in ready'.read
      OBVIOUS
    <3>1. conn[fd] # p /\ conn[fd] \in quiet /\ end[conn[fd]] = "reset"
      BY <2>2, <2>3, <2>4, <2>5 DEF QuietInv, QuietShaped
    <3> QED BY <2>2, <3>1 DEF QuietInv
  <2> QED BY <2>6, <2>7, <2>8, <2>9 DEF QuietInv
<1>5. CASE Begin \/ Signal
  BY <1>1, <1>5 DEF Begin, Signal, peers
<1>6. CASE Select
  <2>1. UNCHANGED <<quiet, inbox, end, conn>>
    BY <1>6 DEF Select, peers
  <2>2. CASE MoveOn({})
    BY <2>1, <2>2, MoveOnQuiet
  <2>3. CASE ~MoveOn({})
    <3> DEFINE watched == Entries("client") \cup Entries("replica")
               read == {fd \in watched : Readable(fd)}
               write == {fd \in watched : Pending(fd)}
    <3>1. ready' = [read |-> read, write |-> write] /\ todo' = read \cup write /\ cur' = cur
      BY <1>6, <2>3 DEF Select
    <3>2. ready'.read = read
      BY <3>1
    <3>3. watched \subseteq {fd \in Fd : conn[fd] # Absent}
      BY DEF OwnInv, Shaped, DescriptorsOwned, Kind
    <3>4. \A fd \in watched : end[conn[fd]] = "reset" => fd \in read
      BY <3>3 DEF Readable
    <3>5. todo' \subseteq watched
      BY <3>1
    <3> HIDE DEF watched, read, write
    <3>6. QuietShaped'
      BY <2>1, <3>1, <3>3, <3>5 DEF QuietInv, QuietShaped
    <3> QED BY <2>1, <3>1, <3>2, <3>4, <3>5, <3>6 DEF QuietInv
  <2> QED BY <2>2, <2>3
<1>7. CASE Accept
  <2>1. PICK p \in backlog, fd \in Fd : conn[fd] = Absent /\ conn' = [conn EXCEPT ![fd] = p]
    BY <1>7 DEF Accept
  <2>2. UNCHANGED <<quiet, inbox, end>>
    BY <1>7 DEF Accept
  <2>3. \A x \in Fd : conn[x] # Absent => conn'[x] = conn[x]
    BY <2>1 DEF OwnInv, Shaped
  <2>4. CASE MoveOn(todo)
    BY <2>2, <2>3, <2>4, MoveOnQuiet DEF QuietInv, QuietShaped
  <2>5. CASE UNCHANGED <<ready, todo, cur>>
    <3>1. \A x \in todo : conn'[x] = conn[x] /\ x \in Fd /\ conn[x] # Absent
      BY <2>3 DEF QuietInv, QuietShaped
    <3>2. cur # Absent => conn'[cur] = conn[cur]
      BY <2>3 DEF QuietInv, QuietShaped
    <3>3. QuietShaped'
      BY <2>2, <2>5, <3>1, <3>2 DEF QuietInv, QuietShaped
    <3> QED BY <2>2, <2>5, <3>1, <3>2, <3>3 DEF QuietInv
  <2> QED BY <1>7, <2>4, <2>5 DEF Accept
<1>8. ASSUME NEW fd \in Fd, ReadClient(fd)
      PROVE  QuietInv'
  <2>1. /\ fd \in Entries("client") /\ fd \in todo /\ conn[fd] \in Peer
        /\ UNCHANGED <<end, quiet>>
    BY <1>8 DEF ReadClient, ClientTurn, OwnInv, Shaped, DescriptorsOwned, Kind
  <2>2. CASE Close("client", fd) /\ MoveOn(todo \ {fd}) /\ UNCHANGED inbox
    <3>1. \A x \in todo \ {fd} : conn'[x] = conn[x]
      BY <2>2 DEF Close, OwnInv, Shaped, QuietInv, QuietShaped
    <3> QED BY <2>1, <2>2, <3>1, MoveOnQuiet
  <2>3. ASSUME inbox[conn[fd]] # <<>>, cur' = fd, UNCHANGED <<conn, ready, todo>>,
               NEW rest, inbox' = [inbox EXCEPT ![conn[fd]] = rest]
        PROVE  QuietInv'
    <3>1. conn[fd] \notin quiet /\ \A q \in quiet : inbox'[q] = inbox[q]
      BY <2>3 DEF QuietInv, QuietShaped
    <3>2. QuietShaped'
      BY <2>1, <2>3 DEF QuietInv, QuietShaped
    <3> QED BY <2>1, <2>3, <3>1, <3>2 DEF QuietInv
  <2> QED BY <1>8, <2>2, <2>3 DEF ReadClient
<1>9. ASSUME NEW fd \in Fd, WriteClient(fd)
      PROVE  QuietInv'
  <2>1. fd \in Entries("client")
    BY <1>9 DEF WriteClient, ClientTurn
  <2>2. CASE EndProcess("killed")
    BY <2>2, EndProcessQuiet
  <2>3. CASE ~EndProcess("killed")
    <3>1. MoveOn(todo \ {fd}) /\ UNCHANGED <<quiet, inbox>>
      BY <1>9, <2>3 DEF WriteClient
    <3>2. \/ UNCHANGED <<table, conn, end>>
          \/ SendOutput("client", fd, IF cur = fd THEN 0 ELSE 1)
      BY <1>9, <2>3 DEF WriteClient
    <3> QED BY <2>1, <3>1, <3>2, MoveOnQuiet, SendQuiet DEF Kind
  <2> QED BY <2>2, <2>3
<1>10. ASSUME NEW fd \in Fd, ReadReplica(fd)
       PROVE  QuietInv'
  <2>1. /\ fd \in Entries("replica") /\ fd \in todo /\ conn[fd] \in Peer
        /\ UNCHANGED <<end, quiet>>
    BY <1>10 DEF ReadReplica, ReplicaTurn, OwnInv, Shaped, DescriptorsOwned, Kind
  <2>2. CASE Close("replica", fd) /\ MoveOn(todo \ {fd}) /\ UNCHANGED inbox
    <3>1. \A x \in todo \ {fd} : conn'[x] = conn[x]
      BY <2>2 DEF Close, OwnInv, Shaped, QuietInv, QuietShaped
    <3> QED BY <2>1, <2>2, <3>1, MoveOnQuiet
  <2>3. ASSUME inbox[conn[fd]] # <<>> \/ end[conn[fd]] = "here", UNCHANGED conn,
               NEW rest, inbox' = [inbox EXCEPT ![conn[fd]] = rest],
               \/ cur' = fd /\ UNCHANGED <<ready, todo>>
               \/ MoveOn(todo \ {fd})
        PROVE  QuietInv'
    <3>1. conn[fd] \notin quiet /\ \A q \in quiet : inbox'[q] = inbox[q]
      BY <2>3 DEF QuietInv, QuietShaped
    <3>2. /\ todo' \subseteq todo /\ (cur' = fd \/ cur' = Absent)
          /\ todo' # {} => ready' = ready
      BY <2>3 DEF MoveOn
    <3>3. QuietShaped'
      BY <2>1, <2>3, <3>2 DEF QuietInv, QuietShaped
    <3> QED BY <2>1, <2>3, <3>1, <3>2, <3>3 DEF QuietInv
  <2> QED BY <1>10, <2>2, <2>3 DEF ReadReplica
<1>11. ASSUME NEW fd \in Fd, FlushReplica(fd)
       PROVE  QuietInv'
  <2>1. fd \in Entries("replica")
    BY <1>11 DEF FlushReplica, ReplicaTurn
  <2>2. CASE EndProcess("killed")
    BY <2>2, EndProcessQuiet
  <2>3. CASE ~EndProcess("killed")
    BY <1>11, <2>1, <2>3, SendQuiet DEF FlushReplica, Kind
  <2> QED BY <2>2, <2>3
<1>12. CASE ServeCommand
  <2>1. CASE EndProcess("killed")
    BY <2>1, EndProcessQuiet
  <2>2. CASE ~EndProcess("killed")
    BY <1>1, <1>12, <2>2 DEF ServeCommand, peers
  <2> QED BY <2>1, <2>2
<1>13. CASE Promote
  BY <1>13, MoveOnQuiet DEF Promote, peers
<1>14. CASE SendReplies
  <2>1. cur \in Entries("client") /\ cur \in Fd /\ cur # Absent /\ conn[cur] \notin quiet
    BY <1>14, AbsentAssumption DEF SendReplies, OwnInv, Shaped, Kind, Fd, QuietInv
  <2>2. CASE EndProcess("killed")
    BY <2>2, EndProcessQuiet
  <2>3. CASE ~EndProcess("killed")
    <3>1. SendOutput("client", cur, 0) /\ UNCHANGED <<quiet, inbox>>
      BY <1>14, <2>3 DEF SendReplies
    <3>2. CASE MoveOn(todo \ {cur})
      BY <2>1, <3>1, <3>2, SendQuiet DEF Kind
    <3>3. CASE cur \in DOMAIN table'["client"] /\ UNCHANGED <<ready, todo, cur>>
      <4>1. ~Close("client", cur)
        BY <3>3 DEF Close, Without, OwnInv, Shaped, Kind
      <4>2. UNCHANGED conn
        BY <3>1, <4>1 DEF SendOutput
      <4>3. \A p \in quiet : end'[p] = end[p]
        BY <2>1, <3>1 DEF SendOutput, OwnInv, Shaped, QuietInv, QuietShaped
      <4>4. QuietShaped'
        BY <3>1, <3>3, <4>2 DEF QuietInv, QuietShaped
      <4> QED BY <3>1, <3>3, <4>2, <4>3, <4>4 DEF QuietInv
    <3> QED BY <1>14, <2>3, <3>2, <3>3 DEF SendReplies
  <2> QED BY <2>2, <2>3
<1>15. CASE LoopExits
  BY <1>15, EndProcessQuiet DEF LoopExits
<1>16. CASE UNCHANGED vars
  BY <1>1, <1>16 DEF vars, peers, server
<1> QED BY <1>2, <1>3, <1>4, <1>5, <1>6, <1>7, <1>8, <1>9, <1>10, <1>11, <1>12, <1>13, <1>14,
           <1>15, <1>16 DEF Next, LoopStep, Over

\* SIGPIPE never comes from a peer that left quietly: before anything is sent to it a
\* second time, its turn reads the end of its stream.
LEMMA RaisesNotQuiet ==
    ASSUME OwnInv, QuietInv, NEW kind \in Kind, NEW fd \in Entries(kind), Raises(kind, fd),
           fd = cur \/ (fd \in todo /\ Writes(fd))
    PROVE  \E p \in Peer \ quiet : end[p] = "reset"
<1>1. fd \in Fd /\ conn[fd] \in Peer /\ end[conn[fd]] = "reset" /\ fd # Absent
  BY AbsentAssumption DEF Raises, OwnInv, Shaped, DescriptorsOwned, Fd
<1>2. conn[fd] \notin quiet
  BY <1>1 DEF QuietInv, Writes
<1> QED BY <1>1, <1>2

\* A peer that goes away with nothing on its way to the server does not kill it.
THEOREM QuietPeersHarmless == Spec => QuietLeaversHarmless
<1> DEFINE A == phase' = "killed" /\ phase # "killed" =>
                   \/ \E p \in Peer \ quiet : end[p] = "reset"
                   \/ phase = "serve" /\ batch # <<>>
<1>1. Init => OwnInv /\ QuietInv
  BY InitOwn DEF Init, QuietInv, QuietShaped
<1>2. OwnInv /\ QuietInv /\ [Next]_vars => OwnInv' /\ QuietInv'
  BY NextOwn, NextQuiet
<1>3. OwnInv /\ QuietInv /\ [Next]_vars => A
  <2> SUFFICES ASSUME OwnInv, QuietInv, [Next]_vars, phase' = "killed", phase # "killed",
                      ~(phase = "serve" /\ batch # <<>>)
               PROVE  \E p \in Peer \ quiet : end[p] = "reset"
    OBVIOUS
  <2>1. ASSUME NEW fd \in Fd, WriteClient(fd)
        PROVE  \E p \in Peer \ quiet : end[p] = "reset"
    <3>1. Raises("client", fd) /\ fd \in Entries("client") /\ fd \in todo /\ Writes(fd)
      BY <2>1 DEF WriteClient, ClientTurn, MoveOn
    <3> QED BY <3>1, RaisesNotQuiet DEF Kind
  <2>2. ASSUME NEW fd \in Fd, FlushReplica(fd)
        PROVE  \E p \in Peer \ quiet : end[p] = "reset"
    <3>1. Raises("replica", fd) /\ fd \in Entries("replica") /\ fd \in todo /\ Writes(fd)
      BY <2>2 DEF FlushReplica, ReplicaTurn, MoveOn
    <3> QED BY <3>1, RaisesNotQuiet DEF Kind
  <2>3. CASE SendReplies
    <3>1. Raises("client", cur) /\ cur \in Entries("client")
      BY <2>3 DEF SendReplies, MoveOn, OwnInv
    <3> QED BY <3>1, RaisesNotQuiet DEF Kind
  <2>4. ASSUME NEW fd \in Fd, ReadClient(fd) \/ ReadReplica(fd)
        PROVE  FALSE
    BY <2>4 DEF ReadClient, ReadReplica, MoveOn
  <2>5. CASE Begin \/ Select \/ Accept \/ Promote \/ LoopExits \/ Signal
    BY <2>5 DEF Begin, Select, Accept, Promote, LoopExits, EndProcess, Signal, MoveOn
  <2>6. CASE ServeCommand
    BY <2>6 DEF ServeCommand
  <2>7. ASSUME NEW p \in Peer, Connect(p) \/ Request(p) \/ Leave(p)
        PROVE  FALSE
    BY <2>7 DEF Connect, Request, Leave, server
  <2>8. CASE UNCHANGED vars
    BY <2>8 DEF vars, server
  <2> QED BY <2>1, <2>2, <2>3, <2>4, <2>5, <2>6, <2>7, <2>8 DEF Next, LoopStep, Over
<1> QED BY <1>1, <1>2, <1>3, PTL DEF Spec, QuietLeaversHarmless

-----------------------------------------------------------------------------
(* EventLoop implements Service. *)

\* A sequence, whatever is in it.
Strand(s) == \E S : s \in Seq(S)

-----------------------------------------------------------------------------
(* Sequences. *)

\* Two sequences and an element have a common set of elements.
LEMMA CommonSet ==
    ASSUME NEW s, NEW t, NEW u, NEW x, Strand(s), Strand(t), Strand(u)
    PROVE  \E S : s \in Seq(S) /\ t \in Seq(S) /\ u \in Seq(S) /\ x \in S
<1>1. PICK S1 : s \in Seq(S1)
  BY DEF Strand
<1>2. PICK S2 : t \in Seq(S2)
  BY DEF Strand
<1>3. PICK S3 : u \in Seq(S3)
  BY DEF Strand
<1> DEFINE S == S1 \cup S2 \cup S3 \cup {x}
<1>4. S1 \subseteq S /\ S2 \subseteq S /\ S3 \subseteq S /\ x \in S
  OBVIOUS
<1> HIDE DEF S
<1>5. s \in Seq(S) /\ t \in Seq(S) /\ u \in Seq(S)
  BY <1>1, <1>2, <1>3, <1>4, SeqMonotonic
<1> QED BY <1>4, <1>5

\* What appending and joining do to the end and to the beginning.
LEMMA StrandJoin ==
    ASSUME NEW s, NEW t, NEW x, Strand(s), Strand(t)
    PROVE  /\ Strand(s \o t) /\ Strand(Append(t, x))
           /\ s \o Append(t, x) = Append(s \o t, x)
           /\ s \o <<>> = s /\ <<>> \o s = s
           /\ Len(s) \in 0..Len(s \o t) /\ SubSeq(s \o t, 1, Len(s)) = s
<1>1. PICK S : s \in Seq(S) /\ t \in Seq(S) /\ x \in S
  BY CommonSet
<1>2. <<x>> \in Seq(S)
  BY <1>1
<1>3. s \o t \in Seq(S) /\ Append(t, x) \in Seq(S)
  BY <1>1, ConcatProperties, AppendProperties
<1>4. Append(t, x) = t \o <<x>> /\ Append(s \o t, x) = (s \o t) \o <<x>>
  BY <1>1, <1>3, AppendIsConcat
<1>5. (s \o t) \o <<x>> = s \o (t \o <<x>>)
  BY <1>1, <1>2, ConcatAssociative
<1>6. s \o <<>> = s /\ <<>> \o s = s
  BY <1>1, ConcatEmptySeq
<1>7. Len(s) \in Nat /\ Len(t) \in Nat /\ Len(s \o t) = Len(s) + Len(t)
  BY <1>1, LenProperties, ConcatProperties
<1>8. SubSeq(s \o t, 1, Len(s)) = s
  <2>1. CASE s = <<>>
    <3>1. Len(s) = 0
      BY <2>1, EmptySeq
    <3> QED BY <2>1, <3>1, SubSeqEmpty
  <2>2. CASE s # <<>>
    <3>1. 1 \in 1..Len(s) /\ Len(s) \in 1..Len(s)
      BY <1>1, <2>2, EmptySeq
    <3>2. SubSeq(s \o t, 1, Len(s)) = SubSeq(s, 1, Len(s))
      BY <1>1, <3>1, SubSeqOfConcat1
    <3> QED BY <1>1, <3>2, SubSeqFull
  <2> QED BY <2>1, <2>2
<1> QED BY <1>3, <1>4, <1>5, <1>6, <1>7, <1>8 DEF Strand

\* The head of a joined sequence.
LEMMA StrandHead ==
    ASSUME NEW s, NEW t, Strand(s), Strand(t), s # <<>>
    PROVE  /\ s \o t # <<>>
           /\ Head(s \o t) = Head(s)
           /\ Tail(s \o t) = Tail(s) \o t
           /\ Strand(Tail(s))
<1>1. PICK S : s \in Seq(S) /\ t \in Seq(S)
  BY CommonSet
<1>2. /\ s \o t \in Seq(S) /\ Len(s \o t) = Len(s) + Len(t)
      /\ \A i \in 1..(Len(s) + Len(t)) :
            (s \o t)[i] = IF i <= Len(s) THEN s[i] ELSE t[i - Len(s)]
  BY <1>1, ConcatProperties
<1>3. Len(s) \in Nat \ {0} /\ Len(t) \in Nat
  BY <1>1, EmptySeq, LenProperties
<1>4. s \o t # <<>>
  BY <1>1, <1>2, <1>3, EmptySeq
<1>5. Tail(s) \in Seq(S) /\ Len(Tail(s)) = Len(s) - 1 /\ \A i \in 1..Len(Tail(s)) : Tail(s)[i] = s[i + 1]
  BY <1>1, HeadTailProperties
<1>6. /\ Tail(s \o t) \in Seq(S) /\ Len(Tail(s \o t)) = Len(s \o t) - 1
      /\ \A i \in 1..Len(Tail(s \o t)) : Tail(s \o t)[i] = (s \o t)[i + 1]
  BY <1>2, <1>4, HeadTailProperties
<1>7. /\ Tail(s) \o t \in Seq(S) /\ Len(Tail(s) \o t) = Len(s) - 1 + Len(t)
      /\ \A i \in 1..(Len(s) - 1 + Len(t)) :
            (Tail(s) \o t)[i] = IF i <= Len(s) - 1 THEN Tail(s)[i] ELSE t[i - (Len(s) - 1)]
  BY <1>1, <1>5, ConcatProperties
<1>8. ASSUME NEW i \in 1..Len(Tail(s \o t))
      PROVE  Tail(s \o t)[i] = (Tail(s) \o t)[i]
  <2>1. i \in 1..(Len(s) - 1 + Len(t)) /\ i + 1 \in 1..(Len(s) + Len(t))
    BY <1>2, <1>3, <1>6
  <2>2. Tail(s \o t)[i] = IF i + 1 <= Len(s) THEN s[i + 1] ELSE t[(i + 1) - Len(s)]
    BY <1>2, <1>6, <2>1
  <2>3. (Tail(s) \o t)[i] = IF i <= Len(s) - 1 THEN Tail(s)[i] ELSE t[i - (Len(s) - 1)]
    BY <1>7, <2>1
  <2>4. CASE i <= Len(s) - 1
    <3>1. i \in 1..Len(Tail(s)) /\ i + 1 <= Len(s)
      BY <1>3, <1>5, <2>1, <2>4
    <3> QED BY <1>5, <2>2, <2>3, <2>4, <3>1
  <2>5. CASE ~(i <= Len(s) - 1)
    <3>1. ~(i + 1 <= Len(s)) /\ (i + 1) - Len(s) = i - (Len(s) - 1)
      BY <1>3, <2>1, <2>5
    <3> QED BY <2>2, <2>3, <2>5, <3>1
  <2> QED BY <2>4, <2>5
<1>9. Tail(s \o t) = Tail(s) \o t
  <2>1. Len(Tail(s \o t)) = Len(Tail(s) \o t)
    BY <1>2, <1>3, <1>6, <1>7
  <2> QED BY <1>6, <1>7, <1>8, <2>1, SeqEqual
<1>10. Head(s \o t) = Head(s)
  BY <1>2, <1>3
<1> QED BY <1>4, <1>5, <1>9, <1>10 DEF Strand

\* A sequence cut in two, between any two elements.
LEMMA StrandCut ==
    ASSUME NEW s, NEW r, Strand(s), Strand(r), NEW n \in 0..Len(s)
    PROVE  /\ Strand(SubSeq(s, 1, n)) /\ Strand(SubSeq(s, n + 1, Len(s)))
           /\ SubSeq(s, 1, n) \o SubSeq(s, n + 1, Len(s)) = s
           /\ Strand(r \o SubSeq(s, 1, n))
           /\ (r \o SubSeq(s, 1, n)) \o SubSeq(s, n + 1, Len(s)) = r \o s
<1>1. PICK S : s \in Seq(S) /\ r \in Seq(S)
  BY CommonSet
<1>2. Len(s) \in Nat
  BY <1>1, LenProperties
<1> DEFINE a == SubSeq(s, 1, n)
           b == SubSeq(s, n + 1, Len(s))
<1>3. a \in Seq(S) /\ b \in Seq(S)
  <2>1. /\ 1 \in Int /\ n \in Int /\ n + 1 \in Int /\ Len(s) \in Int
        /\ \A i \in 1..n : s[i] \in S
        /\ \A i \in (n + 1)..Len(s) : s[i] \in S
    BY <1>1, <1>2, ElementOfSeq
  <2> QED BY <2>1, SubSeqProperties
<1>4. a \o b = s
  <2>1. 1 \in 1..(Len(s) + 1) /\ n \in (1 - 1)..Len(s) /\ Len(s) \in n..Len(s)
    BY <1>2
  <2>2. a \o b = SubSeq(s, 1, Len(s))
    BY <1>1, <2>1, ConcatAdjacentSubSeq
  <2> QED BY <1>1, <2>2, SubSeqFull
<1> HIDE DEF a, b
<1>5. r \o a \in Seq(S) /\ (r \o a) \o b = r \o (a \o b)
  BY <1>1, <1>3, ConcatProperties, ConcatAssociative
<1> QED BY <1>3, <1>4, <1>5 DEF Strand, a, b

-----------------------------------------------------------------------------
(* What is in the buffers. *)

\* Streams, buffers and the batch are sequences; a batch is only there while it is
\* served; an ended process has no connection.
StreamInv ==
    /\ sent = [p \in Peer |-> sent[p]]
    /\ \A p \in Peer : Strand(sent[p]) /\ Strand(inbox[p])
    /\ \A kind \in Kind : \A fd \in Entries(kind) : Strand(table[kind][fd])
    /\ Strand(batch)
    /\ batch # <<>> => phase = "serve"
    /\ Ended => conn = NoPeers /\ table = NoTable

\* Nothing is a sequence too.
LEMMA StrandEmpty == Strand(<<>>)
BY EmptySeq DEF Strand

\* Entries stay as they are or go.
Fewer == \A kind \in Kind : \A fd \in Entries(kind)' :
             fd \in Entries(kind) /\ table'[kind][fd] = table[kind][fd]

\* A close leaves the other entries.
LEMMA CloseFewer ==
    ASSUME OwnInv, NEW kind \in Kind, NEW fd \in Fd, Close(kind, fd)
    PROVE  /\ Fewer
           /\ conn'[fd] = Absent
           /\ \A x \in Fd \ {fd} : conn'[x] = conn[x]
           /\ \A k \in Kind : Entries(k)' = IF k = kind THEN Entries(k) \ {fd} ELSE Entries(k)
BY DEF OwnInv, Shaped, Close, Without, Fewer, Entries

\* A send that closes sends nothing.
LEMMA SendCloses ==
    ASSUME OwnInv, NEW kind \in Kind, NEW fd \in Entries(kind), NEW least,
           SendOutput(kind, fd, least), Close(kind, fd)
    PROVE  UNCHANGED <<sent, end>>
<1>1. fd \in Fd /\ conn'[fd] # conn[fd]
  BY DEF OwnInv, Shaped, DescriptorsOwned, Close
<1> QED BY <1>1 DEF SendOutput

\* What a send leaves in its buffer and adds to the stream.
LEMMA SendSplits ==
    ASSUME OwnInv, StreamInv, NEW kind \in Kind, NEW fd \in Entries(kind), NEW least \in Nat,
           SendOutput(kind, fd, least), ~Close(kind, fd)
    PROVE  LET p == conn[fd] IN
           /\ p \in Peer /\ fd \in Fd
           /\ UNCHANGED conn /\ end[p] \in {"here", "left"}
           /\ end' = IF end[p] = "left" THEN [end EXCEPT ![p] = "reset"] ELSE end
           /\ \A k \in Kind : /\ Entries(k)' = Entries(k)
                              /\ \A x \in Entries(k) :
                                   k # kind \/ x # fd => table'[k][x] = table[k][x]
           /\ \A q \in Peer \ {p} : sent'[q] = sent[q]
           /\ sent' = [q \in Peer |-> sent'[q]]
           /\ Strand(table'[kind][fd]) /\ Strand(sent'[p])
           /\ sent'[p] \o table'[kind][fd] = sent[p] \o table[kind][fd]
<1> DEFINE p == conn[fd]
           out == table[kind][fd]
<1>1. fd \in Fd /\ p \in Peer
  BY DEF OwnInv, Shaped, DescriptorsOwned
<1>2. Strand(out) /\ Strand(sent[p])
  BY <1>1 DEF StreamInv
<1>3. PICK n \in least..Len(out) :
        /\ table' = [table EXCEPT ![kind][fd] = SubSeq(out, n + 1, Len(out))]
        /\ sent' = [sent EXCEPT ![p] = @ \o SubSeq(out, 1, n)]
  BY DEF SendOutput
<1>4. Len(out) \in Nat
  BY <1>2, LenProperties DEF Strand
<1>5. n \in 0..Len(out)
  BY <1>4
<1>6. /\ table'[kind][fd] = SubSeq(out, n + 1, Len(out))
      /\ sent'[p] = sent[p] \o SubSeq(out, 1, n)
  BY <1>1, <1>3 DEF OwnInv, Shaped, Entries, StreamInv
<1>7. /\ Strand(table'[kind][fd]) /\ Strand(sent'[p])
      /\ sent'[p] \o table'[kind][fd] = sent[p] \o out
  <2>1. ASSUME NEW s, NEW r, Strand(s), Strand(r), n \in 0..Len(s)
        PROVE  /\ Strand(SubSeq(s, n + 1, Len(s))) /\ Strand(r \o SubSeq(s, 1, n))
               /\ (r \o SubSeq(s, 1, n)) \o SubSeq(s, n + 1, Len(s)) = r \o s
    BY <2>1, StrandCut
  <2>2. /\ Strand(SubSeq(out, n + 1, Len(out))) /\ Strand(sent[p] \o SubSeq(out, 1, n))
        /\ (sent[p] \o SubSeq(out, 1, n)) \o SubSeq(out, n + 1, Len(out)) = sent[p] \o out
    BY <1>2, <1>5, <2>1
  <2> QED BY <1>6, <2>2
<1>8. \A k \in Kind : /\ Entries(k)' = Entries(k)
                      /\ \A x \in Entries(k) :
                           k # kind \/ x # fd => table'[k][x] = table[k][x]
  BY <1>3 DEF OwnInv, Shaped, Entries
<1>9. (\A q \in Peer \ {p} : sent'[q] = sent[q]) /\ sent' = [q \in Peer |-> sent'[q]]
  BY <1>1, <1>3 DEF StreamInv
<1> QED BY <1>1, <1>7, <1>8, <1>9 DEF SendOutput

\* Steps that only take entries away, and end the batch if they end its turn.
LEMMA FewerStream ==
    ASSUME StreamInv, Fewer, UNCHANGED <<sent, inbox>>,
           (batch' = batch /\ (batch # <<>> => phase' = phase)) \/ batch' = <<>>,
           Ended' => conn' = NoPeers /\ table' = NoTable
    PROVE  StreamInv'
BY StrandEmpty DEF StreamInv, Fewer

\* The end of the process leaves nothing.
LEMMA EndProcessStream ==
    ASSUME StreamInv, NEW how, EndProcess(how)
    PROVE  StreamInv'
<1>1. Fewer
  BY DEF EndProcess, Fewer, Entries, NoTable
<1> QED BY <1>1, FewerStream DEF EndProcess, peers

\* A send keeps what it does not take.
LEMMA SendStream ==
    ASSUME OwnInv, StreamInv, NEW kind \in Kind, NEW fd \in Entries(kind), NEW least \in Nat,
           SendOutput(kind, fd, least), UNCHANGED <<inbox, batch>>, batch = <<>>, ~Ended'
    PROVE  StreamInv'
<1>1. CASE Close(kind, fd)
  <2>1. fd \in Fd /\ UNCHANGED sent
    BY <1>1, SendCloses DEF OwnInv, Shaped
  <2>2. Fewer
    BY <1>1, <2>1, CloseFewer
  <2> QED BY <2>1, <2>2, FewerStream
<1>2. CASE ~Close(kind, fd)
  <2> DEFINE p == conn[fd]
  <2>1. /\ p \in Peer
        /\ \A k \in Kind : /\ Entries(k)' = Entries(k)
                           /\ \A x \in Entries(k) :
                                k # kind \/ x # fd => table'[k][x] = table[k][x]
        /\ \A q \in Peer \ {p} : sent'[q] = sent[q]
        /\ sent' = [q \in Peer |-> sent'[q]]
        /\ Strand(table'[kind][fd]) /\ Strand(sent'[p])
    BY <1>2, SendSplits
  <2> HIDE DEF p
  <2>2. \A q \in Peer : Strand(sent'[q]) /\ Strand(inbox'[q])
    BY <2>1 DEF StreamInv
  <2>3. \A k \in Kind : \A x \in Entries(k)' : Strand(table'[k][x])
    BY <2>1 DEF StreamInv
  <2> QED BY <2>1, <2>2, <2>3, StrandEmpty DEF StreamInv
<1> QED BY <1>1, <1>2

\* Every step keeps the invariant.
LEMMA NextStream == OwnInv /\ QuietInv /\ StreamInv /\ [Next]_vars => StreamInv'
<1> SUFFICES ASSUME OwnInv, QuietInv, StreamInv, [Next]_vars
             PROVE  StreamInv'
  OBVIOUS
<1> USE StrandEmpty
<1>1. ASSUME UNCHANGED <<sent, inbox, table, batch>>, phase' = "serve" \/ batch = <<>>, ~Ended'
      PROVE  StreamInv'
  BY <1>1 DEF StreamInv, Entries
<1>2. ASSUME NEW p \in Peer, Connect(p) \/ Leave(p)
      PROVE  StreamInv'
  <2>1. UNCHANGED <<sent, inbox, table, batch, phase, conn>>
    BY <1>2 DEF Connect, Leave, server
  <2> QED BY <2>1 DEF StreamInv, Entries, Ended
<1>3. ASSUME NEW p \in Peer, Request(p)
      PROVE  StreamInv'
  <2>1. PICK c \in Requests : inbox' = [inbox EXCEPT ![p] = Append(@, c)]
    BY <1>3 DEF Request
  <2>2. UNCHANGED <<sent, table, batch, phase, conn>>
    BY <1>3 DEF Request, server
  <2>3. Strand(inbox[p])
    BY DEF StreamInv
  <2>4. Strand(Append(inbox[p], c))
    BY <2>3, StrandJoin
  <2>5. \A q \in Peer : Strand(inbox'[q])
    BY <2>1, <2>4 DEF StreamInv, QuietInv, QuietShaped
  <2> QED BY <2>2, <2>5 DEF StreamInv, Entries, Ended
<1>4. CASE Begin \/ Select \/ Signal
  BY <1>1, <1>4 DEF Begin, Select, Signal, MoveOn, peers, Ended, StreamInv
<1>5. CASE Accept
  <2>1. PICK fd \in Fd : table' = [table EXCEPT !["client"] = With(@, fd, <<>>)]
    BY <1>5 DEF Accept
  <2>2. UNCHANGED <<sent, inbox, batch>> /\ batch = <<>> /\ ~Ended'
    BY <1>5 DEF Accept, MoveOn, StreamInv, Ended
  <2>3. \A k \in Kind : \A x \in Entries(k)' : Strand(table'[k][x])
    BY <2>1 DEF StreamInv, OwnInv, Shaped, Entries, With, Kind
  <2> QED BY <2>2, <2>3 DEF StreamInv
<1>6. ASSUME NEW kind \in Kind, NEW fd \in Entries(kind), Close(kind, fd), MoveOn(todo \ {fd}),
             UNCHANGED <<sent, inbox, batch>>, batch = <<>>
      PROVE  StreamInv'
  <2>1. Fewer
    BY <1>6, CloseFewer DEF OwnInv, Shaped
  <2> QED BY <1>6, <2>1, FewerStream DEF MoveOn, Ended
<1>7. ASSUME NEW fd \in Fd, ReadClient(fd)
      PROVE  StreamInv'
  <2>1. fd \in Entries("client") /\ conn[fd] \in Peer /\ sent' = sent /\ batch = <<>>
    BY <1>7 DEF ReadClient, ClientTurn, OwnInv, Shaped, DescriptorsOwned, Kind, StreamInv
  <2>2. CASE Close("client", fd) /\ MoveOn(todo \ {fd}) /\ UNCHANGED <<batch, inbox>>
    BY <1>6, <2>1, <2>2 DEF Kind
  <2>3. ASSUME NEW n \in 1..Len(inbox[conn[fd]]),
               batch' = SubSeq(inbox[conn[fd]], 1, n),
               inbox' = [inbox EXCEPT ![conn[fd]] = SubSeq(@, n + 1, Len(@))],
               phase' = "serve", table' = table
        PROVE  StreamInv'
    <3>1. ASSUME NEW s, Strand(s), n \in 1..Len(s)
          PROVE  Strand(SubSeq(s, 1, n)) /\ Strand(SubSeq(s, n + 1, Len(s)))
      <4>1. n \in 0..Len(s)
        BY <3>1
      <4> QED BY <3>1, <4>1, StrandCut
    <3>2. Strand(inbox[conn[fd]])
      BY <2>1 DEF StreamInv
    <3>3. Strand(batch') /\ Strand(SubSeq(inbox[conn[fd]], n + 1, Len(inbox[conn[fd]])))
      BY <2>3, <3>1, <3>2
    <3>4. \A q \in Peer : Strand(inbox'[q])
      BY <2>3, <3>3 DEF StreamInv, QuietInv, QuietShaped
    <3> QED BY <2>1, <2>3, <3>3, <3>4 DEF StreamInv, Ended, Entries
  <2> QED BY <1>7, <2>2, <2>3 DEF ReadClient
<1>8. ASSUME NEW fd \in Fd, WriteClient(fd)
      PROVE  StreamInv'
  <2>1. fd \in Entries("client") /\ batch = <<>>
    BY <1>8 DEF WriteClient, ClientTurn, StreamInv
  <2>2. CASE EndProcess("killed")
    BY <2>2, EndProcessStream
  <2>3. CASE ~EndProcess("killed")
    <3>1. MoveOn(todo \ {fd}) /\ UNCHANGED <<inbox, batch>> /\ ~Ended'
      BY <1>8, <2>3 DEF WriteClient, MoveOn, Ended
    <3>2. CASE UNCHANGED <<table, sent>>
      BY <1>1, <2>1, <3>1, <3>2
    <3>3. CASE SendOutput("client", fd, IF cur = fd THEN 0 ELSE 1)
      BY <2>1, <3>1, <3>3, SendStream DEF Kind
    <3> QED BY <1>8, <2>3, <3>2, <3>3 DEF WriteClient
  <2> QED BY <2>2, <2>3
<1>9. ASSUME NEW fd \in Fd, ReadReplica(fd)
      PROVE  StreamInv'
  <2>1. /\ fd \in Entries("replica") /\ conn[fd] \in Peer
        /\ UNCHANGED <<sent, batch>> /\ batch = <<>>
    BY <1>9 DEF ReadReplica, ReplicaTurn, OwnInv, Shaped, DescriptorsOwned, Kind, StreamInv
  <2>2. CASE Close("replica", fd) /\ MoveOn(todo \ {fd}) /\ UNCHANGED inbox
    BY <1>6, <2>1, <2>2 DEF Kind
  <2>3. ASSUME NEW n \in (IF inbox[conn[fd]] = <<>> THEN {0} ELSE 1..Len(inbox[conn[fd]])),
               inbox' = [inbox EXCEPT ![conn[fd]] = SubSeq(@, n + 1, Len(@))],
               ~Ended', table' = table
        PROVE  StreamInv'
    <3>1. Strand(inbox[conn[fd]])
      BY <2>1 DEF StreamInv
    <3>2. ASSUME NEW s, Strand(s), n \in (IF s = <<>> THEN {0} ELSE 1..Len(s))
          PROVE  Strand(SubSeq(s, n + 1, Len(s)))
      <4>1. n \in 0..Len(s)
        BY <3>2, LenProperties DEF Strand
      <4> QED BY <3>2, <4>1, StrandCut
    <3>3. Strand(SubSeq(inbox[conn[fd]], n + 1, Len(inbox[conn[fd]])))
      BY <3>1, <3>2
    <3>4. \A q \in Peer : Strand(inbox'[q])
      BY <2>3, <3>3 DEF StreamInv, QuietInv, QuietShaped
    <3> QED BY <2>1, <2>3, <3>4 DEF StreamInv, Entries
  <2>4. phase = "turns" /\ (MoveOn(todo \ {fd}) => ~Ended')
    BY <1>9 DEF ReadReplica, ReplicaTurn, MoveOn, Ended
  <2> QED BY <1>9, <2>2, <2>3, <2>4 DEF ReadReplica, Ended
<1>10. ASSUME NEW fd \in Fd, FlushReplica(fd)
      PROVE  StreamInv'
  <2>1. fd \in Entries("replica") /\ batch = <<>>
    BY <1>10 DEF FlushReplica, ReplicaTurn, StreamInv
  <2>2. CASE EndProcess("killed")
    BY <2>2, EndProcessStream
  <2>3. CASE ~EndProcess("killed")
    <3>1. UNCHANGED <<inbox, batch>> /\ ~Ended' /\ SendOutput("replica", fd, 1)
      BY <1>10, <2>3 DEF FlushReplica, MoveOn, Ended
    <3> QED BY <2>1, <3>1, SendStream DEF Kind
  <2> QED BY <2>2, <2>3
<1>11. CASE ServeCommand
  <2> DEFINE c == Head(batch)
             r == Execute(db, c, Now)
             aloud == c.name \in WriteCommands
  <2>1. CASE EndProcess("killed")
    BY <2>1, EndProcessStream
  <2>2. CASE ~EndProcess("killed")
    <3>1. /\ table' = [table EXCEPT
                  !["client"][cur] = Append(@, r.reply),
                  !["replica"] = IF aloud THEN [fd \in DOMAIN @ |-> Append(@[fd], c)] ELSE @]
          /\ UNCHANGED <<sent, inbox, phase, conn>>
          /\ batch # <<>> /\ batch' = Tail(batch) /\ phase = "serve"
      BY <1>11, <2>2 DEF ServeCommand, peers
    <3> HIDE DEF c, r, aloud
    <3>2. Strand(batch')
      <4>1. ASSUME NEW s, Strand(s), s # <<>>
            PROVE  Strand(Tail(s))
        BY <4>1, StrandHead
      <4> QED BY <3>1, <4>1 DEF StreamInv
    <3>3. \A s, x : Strand(s) => Strand(Append(s, x))
      BY StrandJoin
    <3>4. \A k \in Kind : \A x \in Entries(k)' : Strand(table'[k][x])
      BY <3>1, <3>3 DEF StreamInv, OwnInv, Shaped, Entries, Kind
    <3> QED BY <3>1, <3>2, <3>4 DEF StreamInv, Ended
  <2> QED BY <2>1, <2>2
<1>12. CASE Promote
  <2>1. /\ table' = [table EXCEPT !["client"] = Without(@, cur),
                                  !["replica"] = With(@, cur, <<[sync |-> db]>>)]
        /\ batch' = <<>> /\ UNCHANGED <<sent, inbox>> /\ ~Ended'
    BY <1>12 DEF Promote, MoveOn, peers, Ended
  <2>2. \A x : <<x>> \in Seq({x})
    OBVIOUS
  <2>3. Strand(<<[sync |-> db]>>)
    BY <2>2 DEF Strand
  <2>4. \A k \in Kind : \A x \in Entries(k)' : Strand(table'[k][x])
    BY <2>1, <2>3 DEF StreamInv, OwnInv, Shaped, Entries, With, Without, Kind
  <2> QED BY <2>1, <2>4 DEF StreamInv
<1>13. CASE SendReplies
  <2>1. CASE EndProcess("killed")
    BY <2>1, EndProcessStream
  <2>2. CASE ~EndProcess("killed")
    <3>1. /\ cur \in Entries("client") /\ SendOutput("client", cur, 0)
          /\ UNCHANGED <<inbox, batch>> /\ batch = <<>> /\ ~Ended'
      BY <1>13, <2>2 DEF SendReplies, OwnInv, MoveOn, Ended
    <3> QED BY <3>1, SendStream DEF Kind
  <2> QED BY <2>1, <2>2
<1>14. CASE LoopExits
  BY <1>14, EndProcessStream DEF LoopExits
<1>15. CASE UNCHANGED vars
  BY <1>15 DEF vars, peers, server, StreamInv, Entries, Ended
<1> QED BY <1>2, <1>3, <1>4, <1>5, <1>7, <1>8, <1>9, <1>10, <1>11, <1>12, <1>13, <1>14, <1>15
        DEF Next, LoopStep, Over

-----------------------------------------------------------------------------
(* What the peers see. *)

ViewInv == OwnInv /\ QuietInv /\ StreamInv

InHand(p) == cur # Absent /\ conn[cur] = p /\ batch # <<>>
Attached(p) == \E fd \in Fd : conn[fd] = p
Told(p) == sent[p] \o UnsentTo(p)

\* The role, the requests and the answers of a peer, by where it is connected.
Viewed ==
    /\ \A kind \in Kind : \A fd \in Entries(kind) :
          /\ RoleOf(conn[fd]) = kind
          /\ UnsentTo(conn[fd]) = table[kind][fd]
    /\ \A p \in Peer :
          /\ ~Attached(p) => UnsentTo(p) = <<>>
          /\ ~Ended /\ (p \in backlog \/ end[p] = "away") => RoleOf(p) = "client"
          /\ Ended \/ (end[p] # "away" /\ ~Connected(p)) => RoleOf(p) = "gone"
          /\ AskedOf(p) = IF RoleOf(p) # "client" THEN <<>>
                          ELSE IF InHand(p) THEN batch \o inbox[p]
                          ELSE inbox[p]
          /\ Strand(sent[p]) /\ Strand(UnsentTo(p)) /\ Strand(inbox[p])

\* The view follows from the invariant.
LEMMA Views == ViewInv => Viewed
<1> SUFFICES ASSUME ViewInv
             PROVE  Viewed
  OBVIOUS
<1>1. ASSUME NEW kind \in Kind, NEW fd \in Entries(kind)
      PROVE  /\ RoleOf(conn[fd]) = kind
             /\ UnsentTo(conn[fd]) = table[kind][fd]
  <2>1. fd \in Fd /\ conn[fd] \in Peer /\ conn[fd] # Absent
    BY <1>1 DEF ViewInv, OwnInv, Shaped, DescriptorsOwned
  <2>2. \A other \in Kind : {f \in Entries(other) : conn[f] = conn[fd]}
                              = IF other = kind THEN {fd} ELSE {}
    BY <1>1, <2>1 DEF ViewInv, OwnInv, Shaped, DescriptorsOwned, Kind
  <2>3. UNION {{table[other][f] : f \in {x \in Entries(other) : conn[x] = conn[fd]}} :
               other \in Kind} = {table[kind][fd]}
    BY <1>1, <2>2
  <2>4. UnsentTo(conn[fd]) = table[kind][fd]
    BY <2>3 DEF UnsentTo
  <2>5. ~Ended
    BY <1>1 DEF ViewInv, StreamInv, NoTable, Entries
  <2>6. Connected(conn[fd])
    BY <2>1 DEF Connected
  <2>7. (\E f \in Entries("replica") : conn[f] = conn[fd]) <=> kind = "replica"
    BY <1>1, <2>2 DEF Kind
  <2>8. RoleOf(conn[fd]) = kind
    BY <1>1, <2>5, <2>6, <2>7 DEF RoleOf, Kind
  <2> QED BY <2>4, <2>8
<1>2. ASSUME NEW p \in Peer, ~Attached(p)
      PROVE  UnsentTo(p) = <<>>
  <2>1. \A other \in Kind : {f \in Entries(other) : conn[f] = p} = {}
    BY <1>2 DEF Attached, ViewInv, OwnInv, Shaped
  <2>2. UNION {{table[other][f] : f \in {x \in Entries(other) : conn[x] = p}} :
               other \in Kind} = {}
    BY <2>1
  <2> QED BY <2>2 DEF UnsentTo
<1>3. ASSUME NEW p \in Peer
      PROVE  /\ ~Ended /\ (p \in backlog \/ end[p] = "away") => RoleOf(p) = "client"
             /\ Ended \/ (end[p] # "away" /\ ~Connected(p)) => RoleOf(p) = "gone"
  <2>1. p \in backlog \/ end[p] = "away" => ~\E fd \in Entries("replica") : conn[fd] = p
    BY DescriptorAssumption DEF ViewInv, OwnInv, Shaped, ConnectsOnce, Kind
  <2> QED BY <2>1 DEF RoleOf, Connected
<1>4. ASSUME NEW p \in Peer
      PROVE  AskedOf(p) = IF RoleOf(p) # "client" THEN <<>>
                          ELSE IF InHand(p) THEN batch \o inbox[p]
                          ELSE inbox[p]
  <2>1. Strand(inbox[p])
    BY DEF ViewInv, StreamInv
  <2>2. <<>> \o inbox[p] = inbox[p]
    BY <2>1, StrandJoin
  <2> QED BY <2>2 DEF AskedOf, InHand
<1>5. ASSUME NEW p \in Peer
      PROVE  Strand(sent[p]) /\ Strand(UnsentTo(p)) /\ Strand(inbox[p])
  <2>1. CASE Attached(p)
    <3>1. PICK fd \in Fd : conn[fd] = p
      BY <2>1 DEF Attached
    <3>2. PICK kind \in Kind : fd \in Entries(kind)
      BY <3>1, DescriptorAssumption DEF ViewInv, OwnInv, DescriptorsOwned
    <3> QED BY <1>1, <3>1, <3>2 DEF ViewInv, StreamInv
  <2>2. CASE ~Attached(p)
    BY <1>2, <2>2, StrandEmpty DEF ViewInv, StreamInv
  <2> QED BY <2>1, <2>2
<1> QED BY <1>1, <1>2, <1>3, <1>4, <1>5 DEF Viewed

\* The same one step later.
LEMMA ViewsNext == ViewInv' => Viewed'
BY Views, PTL

-----------------------------------------------------------------------------
(* Steps of the service. *)

SameFor(p) == /\ RoleOf(p)' = RoleOf(p)
              /\ AskedOf(p)' = AskedOf(p)
              /\ Told(p)' = Told(p)

GoneFor(p) == /\ RoleOf(p)' = "gone"
              /\ AskedOf(p)' = <<>>
              /\ Told(p)' \in Promise!SomeOf(Told(p))

\* Nobody sees anything.
LEMMA NothingSeen ==
    ASSUME \A p \in Peer : SameFor(p), db' = db
    PROVE  UNCHANGED Promise!svars
BY DEF SameFor, Told, Promise!svars

\* Some connections end.
LEMMA HangsUp ==
    ASSUME NEW gone \in SUBSET Peer, db' = db,
           \A p \in Peer : IF p \in gone THEN GoneFor(p) ELSE SameFor(p)
    PROVE  Promise!HangUp(gone)
BY DEF SameFor, GoneFor, Told, Promise!HangUp

\* A peer whose connection, buffer and role in the batch stay.
Untouched(p) ==
    /\ Ended' <=> Ended
    /\ end'[p] = "away" <=> end[p] = "away"
    /\ p \in backlog' <=> p \in backlog
    /\ \A fd \in Fd : conn'[fd] = p <=> conn[fd] = p
    /\ \A kind \in Kind : \A fd \in Entries(kind) : conn[fd] = p => fd \in Entries(kind)'

\* Such a peer keeps its role, and its unsent answers unless its buffer changed.
LEMMA UntouchedRole ==
    ASSUME ViewInv, ViewInv', NEW p \in Peer, Untouched(p)
    PROVE  /\ RoleOf(p)' = RoleOf(p)
           /\ Attached(p)' <=> Attached(p)
           /\ (\A kind \in Kind : \A fd \in Entries(kind) :
                  conn[fd] = p => table'[kind][fd] = table[kind][fd])
                => UnsentTo(p)' = UnsentTo(p)
<1>1. Viewed /\ Viewed'
  BY Views, ViewsNext
<1>2. Attached(p)' <=> Attached(p)
  BY DEF Attached, Untouched
<1>3. CASE Attached(p)
  <2>1. PICK fd \in Fd : conn[fd] = p
    BY <1>3 DEF Attached
  <2>2. PICK kind \in Kind : fd \in Entries(kind)
    BY <2>1, DescriptorAssumption DEF ViewInv, OwnInv, DescriptorsOwned
  <2>3. conn'[fd] = p /\ fd \in Entries(kind)'
    BY <2>1, <2>2 DEF Untouched
  <2>4. RoleOf(p) = kind /\ UnsentTo(p) = table[kind][fd]
    BY <1>1, <2>1, <2>2 DEF Viewed
  <2>5. RoleOf(p)' = kind /\ UnsentTo(p)' = table'[kind][fd]
    BY <1>1, <2>3 DEF Viewed
  <2> QED BY <1>2, <2>1, <2>2, <2>4, <2>5
<1>4. CASE ~Attached(p)
  <2>1. UnsentTo(p) = <<>> /\ UnsentTo(p)' = <<>>
    BY <1>1, <1>2, <1>4 DEF Viewed
  <2>2. Connected(p)' = Connected(p)
    BY DEF Connected, Untouched
  <2>3. RoleOf(p)' = RoleOf(p)
    BY <1>1, <1>4, <2>2 DEF Viewed, Untouched, Connected, Attached
  <2> QED BY <1>2, <2>1, <2>3
<1> QED BY <1>3, <1>4

\* With buffer, streams and batch unchanged, it sees nothing.
LEMMA UntouchedSame ==
    ASSUME ViewInv, ViewInv', NEW p \in Peer, Untouched(p),
           \A kind \in Kind : \A fd \in Entries(kind) :
               conn[fd] = p => table'[kind][fd] = table[kind][fd],
           sent'[p] = sent[p], inbox'[p] = inbox[p],
           InHand(p)' <=> InHand(p), InHand(p) => batch' = batch
    PROVE  SameFor(p)
<1>1. RoleOf(p)' = RoleOf(p) /\ UnsentTo(p)' = UnsentTo(p)
  BY UntouchedRole
<1>2. AskedOf(p)' = AskedOf(p)
  BY <1>1, Views, ViewsNext DEF Viewed
<1> QED BY <1>1, <1>2 DEF SameFor, Told

\* The end of the process is the end of all connections.
LEMMA EndProcessHangsUp ==
    ASSUME ViewInv, ViewInv', NEW how \in {"exited", "killed"}, EndProcess(how)
    PROVE  Promise!HangUp(Peer)
<1>1. Viewed /\ Viewed'
  BY Views, ViewsNext
<1>2. Ended' /\ sent' = sent /\ db' = db /\ conn' = NoPeers
  BY DEF EndProcess, Ended
<1>3. ASSUME NEW p \in Peer
      PROVE  GoneFor(p)
  <2>1. ~Attached(p)'
    BY <1>2, DescriptorAssumption DEF Attached, NoPeers
  <2>2. RoleOf(p)' = "gone" /\ AskedOf(p)' = <<>> /\ UnsentTo(p)' = <<>>
    BY <1>1, <1>2, <2>1 DEF Viewed
  <2>3. ASSUME NEW s, NEW t, Strand(s), Strand(t)
        PROVE  s \o <<>> \in Promise!SomeOf(s \o t)
    BY <2>3, StrandJoin DEF Promise!SomeOf
  <2>4. Strand(sent[p]) /\ Strand(UnsentTo(p))
    BY <1>1 DEF Viewed
  <2>5. sent[p] \o <<>> \in Promise!SomeOf(sent[p] \o UnsentTo(p))
    BY <2>3, <2>4
  <2> QED BY <1>2, <2>2, <2>5 DEF GoneFor, Told
<1> QED BY <1>2, <1>3, HangsUp

\* The end of one connection.
LEMMA CloseHangsUp ==
    ASSUME ViewInv, ViewInv', NEW kind \in Kind, NEW fd \in Entries(kind), Close(kind, fd),
           UNCHANGED <<sent, end, backlog, inbox, batch, db>>, batch = <<>>, ~Ended, ~Ended'
    PROVE  \E p \in Peer : Promise!HangUp({p})
<1>1. Viewed /\ Viewed'
  BY Views, ViewsNext
<1>2. PICK p \in Peer : conn[fd] = p /\ fd \in Fd /\ p # Absent
  BY DEF ViewInv, OwnInv, Shaped, DescriptorsOwned
<1>3. /\ Fewer
      /\ conn'[fd] = Absent
      /\ \A x \in Fd \ {fd} : conn'[x] = conn[x]
      /\ \A k \in Kind : Entries(k)' = IF k = kind THEN Entries(k) \ {fd} ELSE Entries(k)
  BY <1>2, CloseFewer DEF ViewInv
<1>4. \A x \in Fd \ {fd} : conn[x] # p
  BY <1>2 DEF ViewInv, OwnInv, DescriptorsOwned
<1>5. GoneFor(p)
  <2>1. ~Attached(p)'
    BY <1>2, <1>3, <1>4 DEF Attached
  <2>2. p \notin backlog' /\ end'[p] # "away"
    BY <1>2 DEF ViewInv, OwnInv, ConnectsOnce
  <2>3. RoleOf(p)' = "gone" /\ AskedOf(p)' = <<>> /\ UnsentTo(p)' = <<>>
    BY <1>1, <1>2, <2>1, <2>2 DEF Viewed, Connected, Attached
  <2>4. ASSUME NEW s, NEW t, Strand(s), Strand(t)
        PROVE  s \o <<>> \in Promise!SomeOf(s \o t)
    BY <2>4, StrandJoin DEF Promise!SomeOf
  <2>5. Strand(sent[p]) /\ Strand(UnsentTo(p))
    BY <1>1, <1>2 DEF Viewed
  <2>6. sent[p] \o <<>> \in Promise!SomeOf(sent[p] \o UnsentTo(p))
    BY <2>4, <2>5
  <2> QED BY <2>3, <2>6 DEF GoneFor, Told
<1>6. ASSUME NEW q \in Peer \ {p}
      PROVE  SameFor(q)
  <2>1. \A k \in Kind : \A x \in Entries(k) : conn[x] = q => x \in Entries(k)'
    BY <1>2, <1>3, <1>6
  <2>2. \A x \in Fd : conn'[x] = q <=> conn[x] = q
    BY <1>2, <1>3, <1>6, DescriptorAssumption
  <2>3. Untouched(q)
    BY <2>1, <2>2 DEF Untouched
  <2>4. \A k \in Kind : \A x \in Entries(k) : conn[x] = q => table'[k][x] = table[k][x]
    BY <1>3, <2>1 DEF Fewer
  <2> QED BY <2>3, <2>4, UntouchedSame DEF InHand
<1>7. \A q \in Peer : IF q \in {p} THEN GoneFor(q) ELSE SameFor(q)
  BY <1>5, <1>6
<1>8. Promise!HangUp({p})
  BY <1>2, <1>7, HangsUp
<1> QED BY <1>2, <1>8, Zenon

\* A send moves answers from the buffer to the stream, or ends the connection.
LEMMA SendMaps ==
    ASSUME ViewInv, ViewInv', NEW kind \in Kind, NEW fd \in Entries(kind), NEW least \in Nat,
           SendOutput(kind, fd, least),
           UNCHANGED <<backlog, inbox, batch, db>>, batch = <<>>, ~Ended, ~Ended'
    PROVE  (\E p \in Peer : Promise!HangUp({p})) \/ UNCHANGED Promise!svars
<1>1. CASE Close(kind, fd)
  <2>1. UNCHANGED <<sent, end>>
    BY <1>1, SendCloses DEF ViewInv
  <2> QED BY <1>1, <2>1, CloseHangsUp
<1>2. CASE ~Close(kind, fd)
  <2>1. PICK p \in Peer :
        /\ p = conn[fd] /\ fd \in Fd
        /\ UNCHANGED conn /\ end[p] \in {"here", "left"}
        /\ end' = IF end[p] = "left" THEN [end EXCEPT ![p] = "reset"] ELSE end
        /\ \A k \in Kind : /\ Entries(k)' = Entries(k)
                           /\ \A x \in Entries(k) :
                                k # kind \/ x # fd => table'[k][x] = table[k][x]
        /\ \A q \in Peer \ {p} : sent'[q] = sent[q]
        /\ sent'[p] \o table'[kind][fd] = sent[p] \o table[kind][fd]
    BY <1>2, SendSplits DEF ViewInv
  <2>2. \A q \in Peer : end'[q] = "away" <=> end[q] = "away"
    BY <2>1 DEF ViewInv, OwnInv, Shaped
  <2>3. \A q \in Peer : Untouched(q)
    BY <2>1, <2>2 DEF Untouched
  <2>4. \A q \in Peer : ~InHand(q) /\ ~InHand(q)'
    BY DEF InHand
  <2>5. SameFor(p)
    <3>1. RoleOf(p)' = RoleOf(p)
      BY <2>1, <2>3, UntouchedRole
    <3>2. AskedOf(p)' = AskedOf(p)
      BY <2>1, <2>4, <3>1, Views, ViewsNext DEF Viewed
    <3>3. UnsentTo(p) = table[kind][fd]
      BY <2>1, Views DEF Viewed
    <3>4. fd \in Entries(kind)' /\ conn'[fd] = p
      BY <2>1
    <3>5. UnsentTo(p)' = table'[kind][fd]
      BY <3>4, ViewsNext DEF Viewed
    <3> QED BY <2>1, <3>1, <3>2, <3>3, <3>5 DEF SameFor, Told
  <2>6. ASSUME NEW q \in Peer \ {p}
        PROVE  SameFor(q)
    <3>1. \A k \in Kind : \A x \in Entries(k) : conn[x] = q => table'[k][x] = table[k][x]
      BY <2>1, <2>6
    <3> QED BY <2>1, <2>3, <2>4, <2>6, <3>1, UntouchedSame
  <2>7. \A q \in Peer : SameFor(q)
    BY <2>5, <2>6
  <2> QED BY <2>7, NothingSeen
<1> QED BY <1>1, <1>2

\* Steps that move nothing between peers and buffers.
LEMMA NothingMoved ==
    ASSUME ViewInv, ViewInv', UNCHANGED <<sent, inbox, conn, table, backlog, batch>>,
           Ended' <=> Ended, \A p \in Peer : end'[p] = "away" <=> end[p] = "away",
           cur' = cur \/ batch = <<>>
    PROVE  \A p \in Peer : SameFor(p)
<1> SUFFICES ASSUME NEW p \in Peer
             PROVE  SameFor(p)
  OBVIOUS
<1>1. Untouched(p)
  BY DEF Untouched, Entries
<1>2. InHand(p)' <=> InHand(p)
  BY DEF InHand
<1> QED BY <1>1, <1>2, UntouchedSame

\* Connecting and leaving are seen by nobody; a request is asked, unless the peer is a
\* replica or its connection has ended.
LEMMA PeerMaps ==
    ASSUME ViewInv, ViewInv', NEW p \in Peer, Connect(p) \/ Request(p) \/ Leave(p)
    PROVE  Promise!SNext \/ UNCHANGED Promise!svars
<1>1. UNCHANGED <<sent, conn, table, batch, cur, phase, db>>
  BY DEF Connect, Request, Leave, server
<1>2. Ended' <=> Ended
  BY <1>1 DEF Ended
<1>3. CASE Leave(p)
  <2>1. PICK how \in {"left", "aborted"} : end' = [end EXCEPT ![p] = how]
    BY <1>3 DEF Leave
  <2>2. \A q \in Peer : end'[q] = "away" <=> end[q] = "away"
    BY <1>3, <2>1 DEF Leave, ViewInv, OwnInv, Shaped
  <2>3. UNCHANGED <<inbox, backlog>>
    BY <1>3 DEF Leave
  <2>4. \A q \in Peer : SameFor(q)
    BY <1>1, <1>2, <2>2, <2>3, NothingMoved
  <2> QED BY <1>1, <2>4, NothingSeen
<1>4. CASE Connect(p)
  <2>1. /\ ~Ended /\ end[p] = "away" /\ end' = [end EXCEPT ![p] = "here"]
        /\ backlog' = backlog \cup {p} /\ inbox' = inbox
    BY <1>4 DEF Connect
  <2>2. \A q \in Peer : InHand(q)' <=> InHand(q)
    BY <1>1 DEF InHand
  <2>3. SameFor(p)
    <3>1. ~Attached(p) /\ ~Attached(p)'
      BY <1>1, <2>1, DescriptorAssumption DEF Attached, ViewInv, OwnInv, ConnectsOnce
    <3>2. RoleOf(p) = "client" /\ RoleOf(p)' = "client"
      BY <1>2, <2>1, Views, ViewsNext DEF Viewed
    <3>3. UnsentTo(p) = <<>> /\ UnsentTo(p)' = <<>>
      BY <3>1, Views, ViewsNext DEF Viewed
    <3>4. AskedOf(p)' = AskedOf(p)
      BY <1>1, <2>1, <2>2, <3>2, Views, ViewsNext DEF Viewed, InHand
    <3> QED BY <1>1, <3>2, <3>3, <3>4 DEF SameFor, Told
  <2>4. ASSUME NEW q \in Peer \ {p}
        PROVE  SameFor(q)
    <3>1. Untouched(q)
      BY <1>1, <1>2, <2>1 DEF Untouched, Entries, ViewInv, OwnInv, Shaped
    <3> QED BY <1>1, <2>1, <3>1, UntouchedSame DEF InHand
  <2>5. \A q \in Peer : SameFor(q)
    BY <2>3, <2>4
  <2> QED BY <1>1, <2>5, NothingSeen
<1>5. CASE Request(p)
  <2>1. PICK c \in Requests : inbox' = [inbox EXCEPT ![p] = Append(@, c)]
    BY <1>5 DEF Request
  <2>2. UNCHANGED <<end, backlog>>
    BY <1>5 DEF Request
  <2>3. inbox'[p] = Append(inbox[p], c) /\ \A q \in Peer \ {p} : inbox'[q] = inbox[q]
    BY <2>1 DEF ViewInv, QuietInv, QuietShaped
  <2>4. \A q \in Peer : Untouched(q)
    BY <1>1, <1>2, <2>2 DEF Untouched, Entries
  <2>5. \A q \in Peer : RoleOf(q)' = RoleOf(q) /\ Told(q)' = Told(q)
    BY <1>1, <2>4, UntouchedRole DEF Told, Entries
  <2>6. ASSUME NEW q \in Peer \ {p}
        PROVE  AskedOf(q)' = AskedOf(q)
    <3>1. inbox'[q] = inbox[q] /\ RoleOf(q)' = RoleOf(q) /\ (InHand(q)' <=> InHand(q))
      BY <1>1, <2>3, <2>5, <2>6 DEF InHand
    <3> QED BY <1>1, <3>1, Views, ViewsNext DEF Viewed
  <2>7. CASE RoleOf(p) # "client"
    <3>1. AskedOf(p)' = AskedOf(p)
      BY <2>5, <2>7, Views, ViewsNext DEF Viewed
    <3>2. \A q \in Peer : SameFor(q)
      BY <2>5, <2>6, <3>1 DEF SameFor
    <3> QED BY <1>1, <3>2, NothingSeen
  <2>8. CASE RoleOf(p) = "client"
    <3>1. batch \o Append(inbox[p], c) = Append(batch \o inbox[p], c)
      <4>1. ASSUME NEW s, NEW t, Strand(s), Strand(t)
            PROVE  s \o Append(t, c) = Append(s \o t, c)
        BY <4>1, StrandJoin
      <4>2. Strand(batch) /\ Strand(inbox[p])
        BY DEF ViewInv, StreamInv
      <4> QED BY <4>1, <4>2
    <3>2. AskedOf(p)' = Append(AskedOf(p), c)
      BY <1>1, <2>3, <2>5, <2>8, <3>1, Views, ViewsNext DEF Viewed, InHand
    <3>3. Promise!Ask(p)
      BY <1>1, <2>5, <2>6, <2>8, <3>2 DEF Promise!Ask, Told
    <3> QED BY <3>3, Zenon DEF Promise!SNext
  <2> QED BY <2>7, <2>8
<1> QED BY <1>3, <1>4, <1>5

\* The sweep reclaims; the rest of select() and the signal are seen by nobody.
LEMMA RoundMaps ==
    ASSUME ViewInv, ViewInv', Begin \/ Select \/ Signal
    PROVE  Promise!SNext \/ UNCHANGED Promise!svars
<1>1. /\ UNCHANGED <<sent, inbox, conn, table, backlog, batch, end>>
      /\ ~Ended /\ ~Ended'
      /\ db' \in {db, SweepNow(db)}
  BY DEF Begin, Select, Signal, Tick, MoveOn, peers, Ended, SweepNow
<1>2. cur' = cur \/ batch = <<>>
  BY DEF Begin, Select, Signal, ViewInv, StreamInv
<1>3. \A p \in Peer : SameFor(p)
  BY <1>1, <1>2, NothingMoved
<1>4. CASE db' = db
  BY <1>3, <1>4, NothingSeen
<1>5. CASE db' = SweepNow(db)
  <2>1. Promise!Reclaim
    BY <1>3, <1>5 DEF SameFor, Told, Promise!Reclaim
  <2> QED BY <2>1, Zenon DEF Promise!SNext
<1> QED BY <1>1, <1>4, <1>5

\* A peer is a client before it is accepted as after.
LEMMA AcceptMaps ==
    ASSUME ViewInv, ViewInv', Accept
    PROVE  UNCHANGED Promise!svars
<1>1. PICK p \in backlog, fd \in Fd :
        /\ conn[fd] = Absent
        /\ backlog' = backlog \ {p}
        /\ conn' = [conn EXCEPT ![fd] = p]
        /\ table' = [table EXCEPT !["client"] = With(@, fd, <<>>)]
  BY DEF Accept
<1>2. /\ UNCHANGED <<end, inbox, sent, db, batch>> /\ batch = <<>>
      /\ ~Ended /\ ~Ended'
  BY DEF Accept, MoveOn, Ended, ViewInv, StreamInv
<1>3. /\ p \in Peer /\ p # Absent /\ conn'[fd] = p
      /\ \A x \in Fd \ {fd} : conn'[x] = conn[x]
  BY <1>1, DescriptorAssumption DEF ViewInv, OwnInv, Shaped
<1>4. /\ fd \notin Entries("client") /\ fd \notin Entries("replica")
      /\ fd \in Entries("client")' /\ table'["client"][fd] = <<>>
      /\ \A k \in Kind : \A x \in Entries(k) :
            x \in Entries(k)' /\ table'[k][x] = table[k][x]
  BY <1>1 DEF ViewInv, OwnInv, Shaped, DescriptorsOwned, Entries, With, Kind
<1>5. SameFor(p)
  <2>1. ~Attached(p)
    BY <1>1, <1>3 DEF Attached, ViewInv, OwnInv, ConnectsOnce
  <2>2. RoleOf(p) = "client" /\ UnsentTo(p) = <<>>
    BY <1>1, <1>2, <1>3, <2>1, Views DEF Viewed
  <2>3. RoleOf(p)' = "client" /\ UnsentTo(p)' = <<>>
    BY <1>3, <1>4, ViewsNext DEF Viewed, Kind
  <2>4. AskedOf(p)' = AskedOf(p)
    BY <1>2, <1>3, <2>2, <2>3, Views, ViewsNext DEF Viewed, InHand
  <2> QED BY <1>2, <2>2, <2>3, <2>4 DEF SameFor, Told
<1>6. ASSUME NEW q \in Peer \ {p}
      PROVE  SameFor(q)
  <2>1. \A x \in Fd : conn'[x] = q <=> conn[x] = q
    BY <1>1, <1>3, <1>6, DescriptorAssumption
  <2>2. Untouched(q)
    BY <1>1, <1>2, <1>4, <1>6, <2>1 DEF Untouched
  <2> QED BY <1>2, <1>4, <2>2, UntouchedSame DEF InHand
<1>7. \A q \in Peer : SameFor(q)
  BY <1>5, <1>6
<1> QED BY <1>2, <1>7, NothingSeen

\* What is read was asked before; the end of the stream ends the connection.
LEMMA ReadClientMaps ==
    ASSUME ViewInv, ViewInv', NEW fd \in Fd, ReadClient(fd)
    PROVE  (\E p \in Peer : Promise!HangUp({p})) \/ UNCHANGED Promise!svars
<1>1. /\ fd \in Entries("client") /\ fd # Absent
      /\ UNCHANGED <<end, backlog, sent, db>> /\ batch = <<>> /\ ~Ended
  BY AbsentAssumption
     DEF ReadClient, ClientTurn, Fd, ViewInv, StreamInv, Ended
<1>2. CASE Close("client", fd) /\ MoveOn(todo \ {fd}) /\ UNCHANGED <<batch, inbox>>
  <2>1. ~Ended'
    BY <1>2 DEF MoveOn, Ended
  <2> QED BY <1>1, <1>2, <2>1, CloseHangsUp DEF Kind
<1>3. ASSUME NEW n \in 1..Len(inbox[conn[fd]]),
             batch' = SubSeq(inbox[conn[fd]], 1, n),
             inbox' = [inbox EXCEPT ![conn[fd]] = SubSeq(@, n + 1, Len(@))],
             phase' = "serve", cur' = fd, UNCHANGED <<table, conn>>
      PROVE  UNCHANGED Promise!svars
  <2>1. PICK p \in Peer : p = conn[fd]
    BY <1>1 DEF ViewInv, OwnInv, Shaped, DescriptorsOwned, Kind
  <2>2. ~Ended'
    BY <1>3 DEF Ended
  <2>3. \A q \in Peer : Untouched(q)
    BY <1>1, <1>3, <2>2 DEF Untouched, Entries
  <2>4. \A q \in Peer : RoleOf(q)' = RoleOf(q) /\ Told(q)' = Told(q)
    BY <1>1, <1>3, <2>3, UntouchedRole DEF Told
  <2>5. batch' \o inbox'[p] = inbox[p]
    <3>1. inbox'[p] = SubSeq(inbox[p], n + 1, Len(inbox[p]))
      BY <1>3, <2>1 DEF ViewInv, QuietInv, QuietShaped
    <3>2. ASSUME NEW s, Strand(s), n \in 1..Len(s)
          PROVE  SubSeq(s, 1, n) \o SubSeq(s, n + 1, Len(s)) = s
      <4>1. n \in 0..Len(s)
        BY <3>2
      <4> QED BY <3>2, <4>1, StrandCut
    <3>3. Strand(inbox[p])
      BY DEF ViewInv, StreamInv
    <3> QED BY <1>3, <2>1, <3>1, <3>2, <3>3
  <2>6. AskedOf(p)' = AskedOf(p)
    <3>1. InHand(p)' <=> batch' # <<>>
      BY <1>1, <1>3, <2>1 DEF InHand
    <3>2. ~InHand(p)
      BY <1>1 DEF InHand
    <3>3. batch' = <<>> => batch' \o inbox'[p] = inbox'[p]
      BY ViewsNext, StrandJoin DEF Viewed
    <3> QED BY <2>4, <2>5, <3>1, <3>2, <3>3, Views, ViewsNext DEF Viewed
  <2>7. ASSUME NEW q \in Peer \ {p}
        PROVE  AskedOf(q)' = AskedOf(q)
    <3>1. inbox'[q] = inbox[q]
      BY <1>3, <2>1, <2>7 DEF ViewInv, QuietInv, QuietShaped
    <3>2. ~InHand(q) /\ ~InHand(q)'
      BY <1>1, <1>3, <2>1, <2>7 DEF InHand
    <3> QED BY <2>4, <3>1, <3>2, Views, ViewsNext DEF Viewed
  <2>8. \A q \in Peer : SameFor(q)
    BY <2>4, <2>6, <2>7 DEF SameFor
  <2> QED BY <1>1, <2>8, NothingSeen
<1> QED BY <1>1, <1>2, <1>3 DEF ReadClient

\* A replica is asked nothing; the end of its stream ends the connection.
LEMMA ReadReplicaMaps ==
    ASSUME ViewInv, ViewInv', NEW fd \in Fd, ReadReplica(fd)
    PROVE  (\E p \in Peer : Promise!HangUp({p})) \/ UNCHANGED Promise!svars
<1>1. /\ fd \in Entries("replica")
      /\ UNCHANGED <<end, backlog, sent, db, batch>> /\ batch = <<>> /\ ~Ended
  BY DEF ReadReplica, ReplicaTurn, ViewInv, StreamInv, Ended
<1>2. ~Ended'
  BY DEF ReadReplica, ReplicaTurn, MoveOn, Ended
<1>3. CASE Close("replica", fd) /\ UNCHANGED inbox
  BY <1>1, <1>2, <1>3, CloseHangsUp DEF Kind
<1>4. ASSUME UNCHANGED <<table, conn>>, NEW rest, inbox' = [inbox EXCEPT ![conn[fd]] = rest]
      PROVE  UNCHANGED Promise!svars
  <2>1. PICK p \in Peer : p = conn[fd]
    BY <1>1 DEF ViewInv, OwnInv, Shaped, DescriptorsOwned, Kind
  <2>2. \A q \in Peer : Untouched(q)
    BY <1>1, <1>2, <1>4 DEF Untouched, Entries
  <2>3. \A q \in Peer : RoleOf(q)' = RoleOf(q) /\ Told(q)' = Told(q)
    BY <1>1, <1>4, <2>2, UntouchedRole DEF Told
  <2>4. AskedOf(p)' = AskedOf(p)
    BY <1>1, <2>1, <2>3, Views, ViewsNext DEF Viewed, Kind
  <2>5. ASSUME NEW q \in Peer \ {p}
        PROVE  AskedOf(q)' = AskedOf(q)
    <3>1. inbox'[q] = inbox[q]
      BY <1>4, <2>1, <2>5 DEF ViewInv, QuietInv, QuietShaped
    <3> QED BY <1>1, <2>3, <3>1, Views, ViewsNext DEF Viewed, InHand
  <2>6. \A q \in Peer : SameFor(q)
    BY <2>3, <2>4, <2>5 DEF SameFor
  <2> QED BY <1>1, <2>6, NothingSeen
<1> QED BY <1>3, <1>4 DEF ReadReplica

\* A command is the next request of its client: the client is told the answer and,
\* if it is a write, every replica the command.
LEMMA ServeMaps ==
    ASSUME ViewInv, ViewInv', ServeCommand, ~EndProcess("killed")
    PROVE  \E p \in Peer : Promise!Serve(p)
<1> DEFINE c == Head(batch)
           r == Execute(db, c, Now)
           aloud == c.name \in WriteCommands
<1>1. /\ table' = [table EXCEPT
             !["client"][cur] = Append(@, r.reply),
             !["replica"] = IF aloud THEN [fd \in DOMAIN @ |-> Append(@[fd], c)] ELSE @]
      /\ UNCHANGED <<end, backlog, inbox, sent, conn, phase, cur>>
      /\ phase = "serve" /\ batch # <<>> /\ batch' = Tail(batch) /\ c # Handshake
      /\ db' = r.db
  BY DEF ServeCommand, peers
<1> HIDE DEF c, r, aloud
<1>2. PICK p \in Peer : /\ p = conn[cur] /\ cur \in Entries("client")
                        /\ cur \in Fd /\ cur # Absent
  BY <1>1, AbsentAssumption DEF ViewInv, OwnInv, Shaped, DescriptorsOwned, Kind, Fd
<1>3. /\ \A k \in Kind : Entries(k)' = Entries(k)
      /\ table'["client"][cur] = Append(table["client"][cur], r.reply)
      /\ \A x \in Entries("client") \ {cur} : table'["client"][x] = table["client"][x]
      /\ \A x \in Entries("replica") :
            table'["replica"][x] = IF aloud THEN Append(table["replica"][x], c)
                                   ELSE table["replica"][x]
  BY <1>1, <1>2 DEF ViewInv, OwnInv, Shaped, Entries, Kind
<1>4. \A q \in Peer : Untouched(q)
  BY <1>1, <1>3 DEF Untouched, Ended
<1>5. \A q \in Peer : RoleOf(q)' = RoleOf(q)
  BY <1>4, UntouchedRole
<1>6. /\ RoleOf(p) = "client" /\ UnsentTo(p) = table["client"][cur]
      /\ UnsentTo(p)' = table'["client"][cur]
  <2>1. cur \in Entries("client")' /\ conn'[cur] = p
    BY <1>1, <1>2, <1>3 DEF Kind
  <2>2. UnsentTo(p)' = table'["client"][cur]
    BY <2>1, ViewsNext DEF Viewed, Kind
  <2> QED BY <1>2, <2>2, Views DEF Viewed, Kind
<1>7. /\ AskedOf(p) # <<>> /\ Head(AskedOf(p)) = c
      /\ AskedOf(p)' = Tail(AskedOf(p))
  <2>1. AskedOf(p) = batch \o inbox[p]
    BY <1>1, <1>2, <1>6, Views DEF Viewed, InHand
  <2>2. Strand(batch) /\ Strand(inbox[p]) /\ Strand(batch')
    BY DEF ViewInv, StreamInv
  <2>3. ASSUME NEW s, NEW t, Strand(s), Strand(t), s # <<>>
        PROVE  s \o t # <<>> /\ Head(s \o t) = Head(s) /\ Tail(s \o t) = Tail(s) \o t
    BY <2>3, StrandHead
  <2>4. /\ AskedOf(p) # <<>> /\ Head(AskedOf(p)) = Head(batch)
        /\ Tail(AskedOf(p)) = batch' \o inbox[p]
    BY <1>1, <2>1, <2>2, <2>3
  <2>5. batch' = <<>> => batch' \o inbox[p] = inbox[p]
    <3>1. ASSUME NEW s, Strand(s)
          PROVE  <<>> \o s = s
      BY <3>1, StrandJoin
    <3> QED BY <2>2, <3>1
  <2>6. AskedOf(p)' = batch' \o inbox[p]
    BY <1>1, <1>2, <1>5, <1>6, <2>5, ViewsNext DEF Viewed, InHand
  <2> QED BY <2>4, <2>6 DEF c
<1>8. \A q \in Peer \ {p} : AskedOf(q)' = AskedOf(q)
  BY <1>1, <1>2, <1>5, Views, ViewsNext DEF Viewed, InHand
<1>9. ASSUME NEW x, NEW s, NEW t, Strand(s), Strand(t)
      PROVE  s \o Append(t, x) = Append(s \o t, x)
  BY <1>9, StrandJoin
<1>10. Told(p)' = Append(Told(p), r.reply)
  <2>1. Strand(sent[p]) /\ Strand(table["client"][cur])
    BY <1>2 DEF ViewInv, StreamInv, Kind
  <2>2. sent[p] \o Append(table["client"][cur], r.reply)
          = Append(sent[p] \o table["client"][cur], r.reply)
    <3>1. ASSUME NEW x
          PROVE  sent[p] \o Append(table["client"][cur], x)
                   = Append(sent[p] \o table["client"][cur], x)
      BY <1>9, <2>1
    <3> QED BY <3>1
  <2> QED BY <1>1, <1>3, <1>6, <2>2 DEF Told
<1>11. ASSUME NEW q \in Peer \ {p}
       PROVE  Told(q)' = IF RoleOf(q) = "replica" /\ aloud THEN Append(Told(q), c) ELSE Told(q)
  <2>1. CASE \E fd \in Entries("replica") : conn[fd] = q
    <3>1. PICK fd \in Entries("replica") : conn[fd] = q
      BY <2>1
    <3>2. RoleOf(q) = "replica" /\ UnsentTo(q) = table["replica"][fd]
      BY <3>1, Views DEF Viewed, Kind
    <3>3. fd \in Entries("replica")' /\ conn'[fd] = q
      BY <1>1, <1>3, <3>1 DEF Kind
    <3>4. UnsentTo(q)' = table'["replica"][fd]
      BY <3>3, ViewsNext DEF Viewed, Kind
    <3>5. Strand(sent[q]) /\ Strand(table["replica"][fd])
      BY <3>1 DEF ViewInv, StreamInv, Kind
    <3>6. sent[q] \o Append(table["replica"][fd], c) = Append(sent[q] \o table["replica"][fd], c)
      <4>1. ASSUME NEW x
            PROVE  sent[q] \o Append(table["replica"][fd], x)
                     = Append(sent[q] \o table["replica"][fd], x)
        BY <1>9, <3>5
      <4> QED BY <4>1
    <3>7. CASE aloud
      BY <1>1, <1>3, <3>1, <3>2, <3>4, <3>6, <3>7 DEF Told
    <3>8. CASE ~aloud
      BY <1>1, <1>3, <3>1, <3>2, <3>4, <3>8 DEF Told
    <3> QED BY <3>7, <3>8
  <2>2. CASE ~\E fd \in Entries("replica") : conn[fd] = q
    <3>1. RoleOf(q) # "replica"
      BY <2>2 DEF RoleOf
    <3>2. \A k \in Kind : \A fd \in Entries(k) : conn[fd] = q => table'[k][fd] = table[k][fd]
      BY <1>2, <1>3, <1>11, <2>2 DEF Kind
    <3>3. UnsentTo(q)' = UnsentTo(q)
      BY <1>4, <3>2, UntouchedRole
    <3> QED BY <1>1, <3>1, <3>3 DEF Told
  <2> QED BY <2>1, <2>2
<1>12. Promise!Serve(p)
  <2>1. Promise!Heard(p, p, c, r.reply) = Told(p)'
    BY <1>2, <1>10 DEF Promise!Heard, Told
  <2>2. \A q \in Peer \ {p} : Promise!Heard(q, p, c, r.reply) = Told(q)'
    BY <1>2, <1>11 DEF Promise!Heard, Told, aloud
  <2>3. \A q \in Peer : Promise!Heard(q, p, c, r.reply) = Told(q)'
    BY <2>1, <2>2
  <2>4. ExecuteNow(db, c) = r
    BY DEF ExecuteNow, r
  <2> QED BY <1>1, <1>5, <1>6, <1>7, <1>8, <2>3, <2>4 DEF Promise!Serve, Told
<1> QED BY <1>12, Zenon

\* The promotion enrols the client; what it was told and not sent is lost.
LEMMA PromoteMaps ==
    ASSUME ViewInv, ViewInv', Promote
    PROVE  \E p \in Peer : Promise!Enrol(p)
<1>1. /\ table' = [table EXCEPT !["client"] = Without(@, cur),
                                !["replica"] = With(@, cur, <<[sync |-> db]>>)]
      /\ UNCHANGED <<end, backlog, inbox, sent, conn, db>>
      /\ phase = "serve" /\ batch # <<>> /\ Head(batch) = Handshake
      /\ batch' = <<>> /\ ~Ended /\ ~Ended'
  BY DEF Promote, MoveOn, peers, Ended
<1>2. PICK p \in Peer : /\ p = conn[cur] /\ cur \in Entries("client")
                        /\ cur \in Fd /\ cur # Absent
  BY <1>1, AbsentAssumption DEF ViewInv, OwnInv, Shaped, DescriptorsOwned, Kind, Fd
<1>3. /\ cur \in Entries("replica")' /\ table'["replica"][cur] = <<[sync |-> db]>>
      /\ \A k \in Kind : \A x \in Entries(k) \ {cur} :
            x \in Entries(k)' /\ table'[k][x] = table[k][x]
  BY <1>1, <1>2 DEF ViewInv, OwnInv, Shaped, Entries, With, Without, Kind
<1>4. RoleOf(p) = "client" /\ RoleOf(p)' = "replica"
  BY <1>1, <1>2, <1>3, Views, ViewsNext DEF Viewed, Kind
<1>5. AskedOf(p) # <<>> /\ Head(AskedOf(p)) = Handshake /\ AskedOf(p)' = <<>>
  <2>1. AskedOf(p) = batch \o inbox[p]
    BY <1>1, <1>2, <1>4, Views DEF Viewed, InHand
  <2>2. ASSUME NEW s, NEW t, Strand(s), Strand(t), s # <<>>
        PROVE  s \o t # <<>> /\ Head(s \o t) = Head(s)
    BY <2>2, StrandHead
  <2>3. Strand(batch) /\ Strand(inbox[p])
    BY DEF ViewInv, StreamInv
  <2> QED BY <1>1, <1>4, <2>1, <2>2, <2>3, ViewsNext DEF Viewed
<1>6. /\ Told(p)' = Append(sent[p], [sync |-> db])
      /\ sent[p] \in Promise!SomeOf(Told(p))
  <2>1. UnsentTo(p)' = <<[sync |-> db]>>
    BY <1>1, <1>2, <1>3, ViewsNext DEF Viewed, Kind
  <2>2. ASSUME NEW s, NEW t, NEW x, Strand(s), Strand(t)
        PROVE  s \o <<x>> = Append(s, x) /\ s \in Promise!SomeOf(s \o t)
    <3>1. PICK S : s \in Seq(S) /\ t \in Seq(S) /\ x \in S
      BY <2>2, CommonSet
    <3>2. s \o <<x>> = Append(s, x)
      BY <3>1, AppendIsConcat
    <3> QED BY <2>2, <3>2, StrandJoin DEF Promise!SomeOf
  <2>3. Strand(sent[p]) /\ Strand(UnsentTo(p))
    BY Views DEF Viewed
  <2> QED BY <1>1, <2>1, <2>2, <2>3 DEF Told
<1>7. ASSUME NEW q \in Peer \ {p}
      PROVE  SameFor(q)
  <2>1. \A k \in Kind : \A x \in Entries(k) :
          conn[x] = q => x \in Entries(k)' /\ table'[k][x] = table[k][x]
    BY <1>2, <1>3, <1>7
  <2>2. Untouched(q)
    BY <1>1, <2>1 DEF Untouched
  <2> QED BY <1>1, <1>2, <1>7, <2>1, <2>2, UntouchedSame DEF InHand
<1>8. Promise!Enrol(p)
  BY <1>1, <1>4, <1>5, <1>6, <1>7 DEF Promise!Enrol, SameFor, Told
<1> QED BY <1>8, Zenon

\* Every step is a step of the service or seen by nobody.
LEMMA ServiceStep == ViewInv /\ ViewInv' /\ [Next]_vars => [Promise!SNext]_(Promise!svars)
<1> SUFFICES ASSUME ViewInv, ViewInv', [Next]_vars
             PROVE  Promise!SNext \/ UNCHANGED Promise!svars
  OBVIOUS
<1>1. ASSUME \/ \E p \in Peer : Promise!Serve(p) \/ Promise!Enrol(p) \/ Promise!HangUp({p})
             \/ Promise!HangUp(Peer)
      PROVE  Promise!SNext
  BY <1>1, Zenon DEF Promise!SNext
<1>2. ASSUME EndProcess("killed") \/ EndProcess("exited")
      PROVE  Promise!SNext
  BY <1>1, <1>2, EndProcessHangsUp
<1>3. ASSUME NEW p \in Peer, Connect(p) \/ Request(p) \/ Leave(p)
      PROVE  Promise!SNext \/ UNCHANGED Promise!svars
  BY <1>3, PeerMaps
<1>4. CASE Begin \/ Select \/ Signal
  BY <1>4, RoundMaps
<1>5. CASE Accept
  BY <1>5, AcceptMaps
<1>6. ASSUME NEW fd \in Fd, ReadClient(fd) \/ ReadReplica(fd)
      PROVE  Promise!SNext \/ UNCHANGED Promise!svars
  BY <1>1, <1>6, ReadClientMaps, ReadReplicaMaps
<1>7. ASSUME NEW kind \in Kind, NEW fd \in Entries(kind), NEW least \in Nat,
             SendOutput(kind, fd, least),
             UNCHANGED <<backlog, inbox, batch, db>>, batch = <<>>, ~Ended, ~Ended'
      PROVE  Promise!SNext \/ UNCHANGED Promise!svars
  BY <1>1, <1>7, SendMaps
<1>8. ASSUME NEW fd \in Fd, WriteClient(fd), ~EndProcess("killed")
      PROVE  Promise!SNext \/ UNCHANGED Promise!svars
  <2>1. /\ fd \in Entries("client") /\ UNCHANGED <<backlog, inbox, batch, db>>
        /\ batch = <<>> /\ ~Ended /\ ~Ended'
    BY <1>8 DEF WriteClient, ClientTurn, MoveOn, Ended, ViewInv, StreamInv
  <2>2. CASE UNCHANGED <<table, sent, conn, end>>
    <3>1. \A p \in Peer : SameFor(p)
      BY <2>1, <2>2, NothingMoved
    <3> QED BY <2>1, <3>1, NothingSeen
  <2>3. CASE SendOutput("client", fd, IF cur = fd THEN 0 ELSE 1)
    BY <1>7, <2>1, <2>3 DEF Kind
  <2> QED BY <1>8, <2>2, <2>3 DEF WriteClient
<1>9. ASSUME NEW fd \in Fd, FlushReplica(fd), ~EndProcess("killed")
      PROVE  Promise!SNext \/ UNCHANGED Promise!svars
  <2>1. /\ fd \in Entries("replica") /\ UNCHANGED <<backlog, inbox, batch, db>>
        /\ batch = <<>> /\ ~Ended /\ ~Ended' /\ SendOutput("replica", fd, 1)
    BY <1>9 DEF FlushReplica, ReplicaTurn, MoveOn, Ended, ViewInv, StreamInv
  <2> QED BY <1>7, <2>1 DEF Kind
<1>10. CASE SendReplies /\ ~EndProcess("killed")
  <2>1. /\ cur \in Entries("client") /\ UNCHANGED <<backlog, inbox, batch, db>>
        /\ batch = <<>> /\ ~Ended /\ ~Ended' /\ SendOutput("client", cur, 0)
    BY <1>10 DEF SendReplies, MoveOn, Ended, ViewInv, OwnInv
  <2> QED BY <1>7, <2>1 DEF Kind
<1>11. CASE ServeCommand /\ ~EndProcess("killed")
  BY <1>1, <1>11, ServeMaps
<1>12. CASE Promote
  BY <1>1, <1>12, PromoteMaps
<1>13. CASE LoopExits
  BY <1>2, <1>13 DEF LoopExits
<1>14. CASE UNCHANGED vars
  <2>1. /\ UNCHANGED <<sent, inbox, conn, table, backlog, batch, end, cur, db>>
        /\ (Ended' <=> Ended)
    BY <1>14 DEF vars, peers, server, Ended
  <2>2. \A p \in Peer : SameFor(p)
    BY <2>1, NothingMoved
  <2> QED BY <2>1, <2>2, NothingSeen
<1> QED BY <1>2, <1>3, <1>4, <1>5, <1>6, <1>8, <1>9, <1>10, <1>11, <1>12, <1>13, <1>14
        DEF Next, LoopStep, Over

\* A fresh server is a fresh service.
LEMMA ServiceInit == Init => ViewInv /\ Promise!SInit
<1> SUFFICES ASSUME Init
             PROVE  ViewInv /\ Promise!SInit
  OBVIOUS
<1>1. OwnInv
  BY InitOwn
<1>2. QuietInv
  BY DEF Init, QuietInv, QuietShaped
<1>3. StreamInv
  BY StrandEmpty DEF Init, StreamInv, Entries, NoTable
<1>4. ViewInv
  BY <1>1, <1>2, <1>3 DEF ViewInv
<1>5. ASSUME NEW p \in Peer
      PROVE  RoleOf(p) = "client" /\ AskedOf(p) = <<>> /\ sent[p] \o UnsentTo(p) = <<>>
  <2>1. ~Ended /\ ~Attached(p) /\ end[p] = "away" /\ inbox[p] = <<>> /\ sent[p] = <<>>
    BY DescriptorAssumption DEF Init, Ended, Attached, NoPeers
  <2>2. RoleOf(p) = "client" /\ UnsentTo(p) = <<>>
    BY <1>4, <2>1, Views DEF Viewed
  <2>3. ~InHand(p)
    BY DEF Init, InHand
  <2>4. AskedOf(p) = <<>>
    BY <1>4, <2>1, <2>2, <2>3, Views DEF Viewed
  <2>5. <<>> \o <<>> = <<>>
    BY StrandEmpty, StrandJoin
  <2> QED BY <2>1, <2>2, <2>4, <2>5
<1>6. Promise!SInit
  BY <1>5 DEF Init, Promise!SInit
<1> QED BY <1>4, <1>6

\* For any number of peers and descriptors and any requests: however requests are split
\* over reads and answers over writes, and whoever connects, leaves or is promoted, each
\* request is served at most once and in order, and told to whom it concerns.
THEOREM ServerIsService == Spec => ImplementsService
<1>1. Spec => []ViewInv
  <2>1. ViewInv /\ [Next]_vars => ViewInv'
    BY NextOwn, NextQuiet, NextStream DEF ViewInv
  <2> QED BY <2>1, ServiceInit, PTL DEF Spec
<1> QED BY <1>1, ServiceInit, ServiceStep, PTL DEF Spec, ImplementsService, Promise!SSpec
=============================================================================
