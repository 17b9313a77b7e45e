------------------------------ MODULE Service ------------------------------
(***************************************************************************)
(* What the server promises to those who connect to it: it serves the      *)
(* requests of each client in the order they were sent, each once, tells   *)
(* the client the answer and every replica the write, and nothing else to  *)
(* anybody.  A client that asks to be a replica is told the database as it *)
(* is then, and every later write.  A connection may end, and takes with   *)
(* it what was asked and not served, and what was told and not sent.  What *)
(* a command does and answers is a parameter.                              *)
(***************************************************************************)
EXTENDS Integers, Sequences

CONSTANTS
    Peer,            \* the processes at the other ends of the connections
    Handshake,       \* the request by which a client becomes a replica
    Requests,        \* what clients ask for
    Propagated,      \* the names of the commands replicas are told of
    Empty,           \* the database of a fresh server
    Outcome(_, _),   \* the next database and the reply, of a database and a command
    Swept(_)         \* a database without its elapsed keys

VARIABLES
    db,     \* the database
    role,   \* what each peer is to the server: client, replica or gone
    asked,  \* requests of each client not yet served
    told    \* everything each peer was told

svars == <<db, role, asked, told>>

SInit == /\ db = Empty
         /\ role = [p \in Peer |-> "client"]
         /\ asked = [p \in Peer |-> <<>>]
         /\ told = [p \in Peer |-> <<>>]

Ask(p) == /\ role[p] = "client"
          /\ \E c \in Requests : asked' = [asked EXCEPT ![p] = Append(@, c)]
          /\ UNCHANGED <<db, role, told>>

\* What a peer hears when the server executes command c of client p.
Heard(q, p, c, answer) ==
    IF q = p THEN Append(told[q], answer)
    ELSE IF role[q] = "replica" /\ c.name \in Propagated THEN Append(told[q], c)
    ELSE told[q]

Serve(p) ==
    LET c == Head(asked[p])
        r == Outcome(db, c)
    IN  /\ role[p] = "client" /\ asked[p] # <<>> /\ c # Handshake
        /\ db' = r.db
        /\ asked' = [asked EXCEPT ![p] = Tail(@)]
        /\ told' = [q \in Peer |-> Heard(q, p, c, r.reply)]
        /\ UNCHANGED role

\* Some of what a peer was told may be lost with the end of its connection.
SomeOf(s) == {SubSeq(s, 1, n) : n \in 0..Len(s)}

Enrol(p) ==
    /\ role[p] = "client" /\ asked[p] # <<>> /\ Head(asked[p]) = Handshake
    /\ role' = [role EXCEPT ![p] = "replica"]
    /\ asked' = [asked EXCEPT ![p] = <<>>]
    /\ \E heard \in SomeOf(told[p]) :
         told' = [told EXCEPT ![p] = Append(heard, [sync |-> db])]
    /\ UNCHANGED db

\* Connections end, one of them or with the server all of them.
HangUp(gone) ==
    /\ role' = [p \in Peer |-> IF p \in gone THEN "gone" ELSE role[p]]
    /\ asked' = [p \in Peer |-> IF p \in gone THEN <<>> ELSE asked[p]]
    /\ \A p \in Peer : told'[p] \in (IF p \in gone THEN SomeOf(told[p]) ELSE {told[p]})
    /\ DOMAIN told' = Peer
    /\ UNCHANGED db

Reclaim == db' = Swept(db) /\ UNCHANGED <<role, asked, told>>

SNext == \/ \E p \in Peer : Ask(p) \/ Serve(p) \/ Enrol(p) \/ HangUp({p})
         \/ HangUp(Peer)
         \/ Reclaim

SSpec == SInit /\ [][SNext]_svars
=============================================================================
