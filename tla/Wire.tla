-------------------------------- MODULE Wire --------------------------------
(***************************************************************************)
(* The bytes: from a client's frames through Client::input_buffer_ and the *)
(* parser of resp.cpp to commands, from the answers through its            *)
(* serialisers back to the client, and from a command through the line     *)
(* protocol of replication.cpp to the tokens a replica applies.  Both      *)
(* connections deliver their bytes in pieces of any length, and the one to *)
(* the replica is cut and made again at any point of a line.               *)
(*                                                                         *)
(* A byte is a string.  The head of an array, "*2", and of a bulk string,  *)
(* "$1", count as one: their digits matter only with the line end after    *)
(* them.  So do the escape "%20" of a space, the texts of answers, and the *)
(* names "set" and "get" of the commands here.  They leave out the key:    *)
(* there is one.                                                           *)
(***************************************************************************)
EXTENDS Integers, Sequences, SequencesExt, FiniteSetsExt

CONSTANTS
    Byte,        \* what client and server send each other
    ArrayHeads,  \* the heads of arrays
    BulkHeads,   \* the heads of bulk strings
    Number,      \* what std::stoi() reads in a head; it throws for the others
    Unset,       \* the key has no value
    Frames,      \* what clients send: the bytes and the command they stand for
    MaxFrames,   \* bound on the frames sent
    MaxCuts      \* bound on the connections to the leader that end

Plain   == {"CR", "LF", "SP", "QUOTE", "TAB", "%", "+", "-", "set", "get", "SET", "GET",
            "OK", "arity", "unknown"}
Escapes == {"%25", "%20", "%0D", "%0A"}

ASSUME ByteAssumption ==
    /\ Plain \cup ArrayHeads \cup BulkHeads \subseteq Byte /\ Escapes \cap Byte = {}
    /\ Plain \cap (ArrayHeads \cup BulkHeads) = {} /\ ArrayHeads \cap BulkHeads = {}
ASSUME NumberAssumption ==
    /\ DOMAIN Number \subseteq ArrayHeads \cup BulkHeads
    /\ \A head \in DOMAIN Number : Number[head] \in Int
    /\ "$-1" \in BulkHeads \cap DOMAIN Number /\ Number["$-1"] = -1
ASSUME WireAssumption == MaxFrames \in Nat /\ MaxCuts \in Nat /\ Unset \notin Seq(Byte)

VARIABLES
    incoming,             \* from the client, not received yet
    input_buffer,         \* input_buffer_ of its Client
    parsed,               \* commands the parser has given (history)
    value,                \* what the key holds
    answers,              \* bytes queued for the client so far
    stream,               \* to the replica, not received yet
    leader_input_buffer,  \* leader_input_buffer_ of the replica
    applied,              \* token lists applied since the last connect (history)
    due,                  \* write commands executed since the last connect (history)
    script,               \* commands the client sent, up to a malformed frame (history)
    spoiled,              \* it has sent a malformed frame (history)
    count                 \* frames sent and connections cut

vars == <<incoming, input_buffer, parsed, value, answers, stream, leader_input_buffer, applied, due,
          script, spoiled, count>>

-----------------------------------------------------------------------------
(* Both protocols, and operator>>, take a buffer apart from its front. *)

Incomplete == [result |-> "INCOMPLETE"]
ProtocolError == [result |-> "PROTOCOL_ERROR"]
Success(item, next) == [result |-> "SUCCESS", item |-> item, next |-> next]

Suffix(b, n) == SubSeq(b, n, Len(b))

\* Mutants: the buffer is cleared when a frame is incomplete; kept after an error.
RoundDropping(one, s) ==
    LET found == one[s.rest]
    IN  IF s.result # "SUCCESS" \/ s.rest = <<>> THEN s
        ELSE IF found.result # "SUCCESS" THEN [s EXCEPT !.result = found.result, !.rest = <<>>]
        ELSE [result |-> "SUCCESS", rest |-> Suffix(s.rest, found.next),
              items |-> IF found.item = <<>> THEN s.items ELSE Append(s.items, found.item)]

RoundKeeping(one, s) ==
    LET found == one[s.rest]
    IN  IF s.result # "SUCCESS" \/ s.rest = <<>> THEN s
        ELSE IF found.result # "SUCCESS" THEN [s EXCEPT !.result = found.result]
        ELSE [result |-> "SUCCESS", rest |-> Suffix(s.rest, found.next),
              items |-> IF found.item = <<>> THEN s.items ELSE Append(s.items, found.item)]

\* What one finds at the front of the rest: the end for now, an error, which throws the
\* rest away, or an item.  Empty items count for nothing.
Round(one, s) ==
    LET found == one[s.rest]
    IN  IF s.result # "SUCCESS" \/ s.rest = <<>> THEN s
        ELSE IF found.result = "INCOMPLETE" THEN [s EXCEPT !.result = "INCOMPLETE"]
        ELSE IF found.result = "PROTOCOL_ERROR"
             THEN [s EXCEPT !.result = "PROTOCOL_ERROR", !.rest = <<>>]
        ELSE [result |-> "SUCCESS", rest |-> Suffix(s.rest, found.next),
              items |-> IF found.item = <<>> THEN s.items ELSE Append(s.items, found.item)]

\* Each round that finds an item shortens the rest.
Drain(one, b) ==
    LET after[i \in 0..Len(b)] ==
            IF i = 0 THEN [result |-> "SUCCESS", items |-> <<>>, rest |-> b]
            ELSE Round(one, after[i - 1])
    IN  after[Len(b)]

\* The first of some places, 0 for none.
First(places) == IF places = {} THEN 0 ELSE Min(places)

CrLf == <<"CR", "LF">>
FindCrLf(b, from) == First({i \in from..(Len(b) - 1) : b[i] = "CR" /\ b[i + 1] = "LF"})

-----------------------------------------------------------------------------
(* resp.cpp. *)

\* The bulk string at a place; a null one counts as empty.
Bulk(b, at) ==
    LET crlf == FindCrLf(b, at)
        str  == crlf + 2
        end  == str + Number[b[at]]
    IN  IF at > Len(b) THEN Incomplete
        ELSE IF b[at] \notin BulkHeads THEN ProtocolError
        ELSE IF crlf = 0 THEN Incomplete
        ELSE IF b[at] \notin DOMAIN Number THEN ProtocolError
        ELSE IF Number[b[at]] < 0 THEN Success(<<>>, str)
        ELSE IF end + 1 > Len(b) THEN Incomplete
        ELSE IF SubSeq(b, end, end + 1) # CrLf THEN ProtocolError
        ELSE Success(SubSeq(b, str, end - 1), end + 2)

OneMore(b, s) ==
    LET bulk == Bulk(b, s.next)
    IN  IF s.result # "SUCCESS" THEN s
        ELSE IF bulk.result # "SUCCESS" THEN bulk
        ELSE Success(Append(s.item, bulk.item), bulk.next)

\* So many bulk strings from a place on.
Bulks(b, at, n) ==
    LET read[i \in 0..n] == IF i = 0 THEN Success(<<>>, at) ELSE OneMore(b, read[i - 1])
    IN  read[n]

ParseArray(b) ==
    LET crlf == FindCrLf(b, 1)
    IN  IF crlf = 0 THEN Incomplete
        ELSE IF b[1] \notin DOMAIN Number THEN ProtocolError
        ELSE IF Number[b[1]] < 0 THEN Success(<<>>, crlf + 2)
        ELSE Bulks(b, crlf + 2, Number[b[1]])

\* One more character of an inline line, which is cut at the spaces outside quotes.
Split(s, c) ==
    CASE c = "QUOTE" -> [s EXCEPT !.quoted = ~@]
      [] c = "SP" /\ ~s.quoted -> IF s.arg = <<>> THEN s
                                  ELSE [s EXCEPT !.cmd = Append(@, s.arg), !.arg = <<>>]
      [] OTHER -> [s EXCEPT !.arg = Append(@, c)]

InlineWords(line) ==
    LET split[i \in 0..Len(line)] ==
            IF i = 0 THEN [cmd |-> <<>>, arg |-> <<>>, quoted |-> FALSE]
            ELSE Split(split[i - 1], line[i])
        last == split[Len(line)]
    IN  IF last.arg = <<>> THEN last.cmd ELSE Append(last.cmd, last.arg)

ParseInline(b) ==
    LET lf  == First({i \in 1..Len(b) : b[i] = "LF"})
        end == IF lf > 1 /\ b[lf - 1] = "CR" THEN lf - 2 ELSE lf - 1
    IN  IF lf = 0 THEN Incomplete ELSE Success(InlineWords(SubSeq(b, 1, end)), lf + 1)

ParseSingleCommand(b) == IF b[1] \in ArrayHeads THEN ParseArray(b) ELSE ParseInline(b)

\* parse(): commands until the buffer ends or a frame is incomplete; an error throws
\* the rest of the buffer away and keeps the commands before it.
CommandAt == [b \in Seq(Byte) |-> ParseSingleCommand(b)]
Parse(b)  == Drain(CommandAt, b)

\* A frame is what the parser, given nothing else, takes for the command.
ASSUME FrameAssumption ==
    \A f \in Frames :
        /\ f.bytes \in Seq(Byte) /\ f.cmd \in Seq(Seq(Byte)) /\ f.valid \in BOOLEAN
        /\ f.valid => Parse(f.bytes) = [result |-> "SUCCESS", rest |-> <<>>,
                                       items |-> IF f.cmd = <<>> THEN <<>> ELSE <<f.cmd>>]

\* The serialisers.  Only a bulk string carries its length.
SimpleString(s) == <<"+">> \o s \o CrLf
Error(s)        == <<"-">> \o s \o CrLf
NullBulkString  == <<"$-1">> \o CrLf

\* Mutant: a value is sent as a line.
BulkAsLine(s) == SimpleString(s)

HeadFor(heads, n) == CHOOSE head \in heads \cap DOMAIN Number : Number[head] = n
BulkString(s) == <<HeadFor(BulkHeads, Len(s))>> \o CrLf \o s \o CrLf

Array(elements) ==
    LET out[i \in 0..Len(elements)] ==
            IF i = 0 THEN <<HeadFor(ArrayHeads, Len(elements))>> \o CrLf
            ELSE out[i - 1] \o BulkString(elements[i])
    IN  out[Len(elements)]

-----------------------------------------------------------------------------
(* replication.cpp: encode_command(), and the lines and tokens of the replica. *)

Encode(s) == [i \in DOMAIN s |-> CASE s[i] = "%"  -> "%25" [] s[i] = "SP" -> "%20"
                                   [] s[i] = "CR" -> "%0D" [] s[i] = "LF" -> "%0A"
                                   [] OTHER -> s[i]]
Decode(s) == [i \in DOMAIN s |-> CASE s[i] = "%25" -> "%"  [] s[i] = "%20" -> "SP"
                                   [] s[i] = "%0D" -> "CR" [] s[i] = "%0A" -> "LF"
                                   [] OTHER -> s[i]]

\* The name in capitals.
Upper(s) == [i \in DOMAIN s |-> CASE s[i] = "set" -> "SET" [] s[i] = "get" -> "GET" [] OTHER -> s[i]]
IsWrite(cmd) == Upper(cmd[1]) = <<"SET">>

EncodeCommand(cmd) ==
    LET out[i \in 0..Len(cmd)] ==
            CASE i = 0 -> <<>>
              [] i = 1 -> Encode(Upper(cmd[1]))
              [] OTHER -> (out[i - 1] \o <<"SP">>) \o Encode(cmd[i])
    IN  out[Len(cmd)] \o CrLf

\* operator>>: what stands between blanks, and a tab is one.  The end of the line ends
\* the last token, as a blank would.
Wired == Byte \cup Escapes
TokenAt == [b \in Seq(Wired) |->
              LET blank == First({i \in 1..Len(b) : b[i] \in {"SP", "TAB"}})
              IN  IF blank = 0 THEN Incomplete
                  ELSE Success(SubSeq(b, 1, blank - 1), blank + 1)]
Tokens(line) == Drain(TokenAt, Append(line, "SP")).items

\* read_from_leader(): the complete lines of the buffer, split and decoded.
LineAt == [b \in Seq(Wired) |->
             LET crlf   == FindCrLf(b, 1)
                 tokens == Tokens(SubSeq(b, 1, crlf - 1))
             IN  IF crlf = 0 THEN Incomplete
                 ELSE Success([i \in DOMAIN tokens |-> Decode(tokens[i])], crlf + 2)]
Lines(b) == Drain(LineAt, b)

-----------------------------------------------------------------------------
(* command.cpp: execute(), with handlers for SET and GET of the one key. *)

\* The value after a command, and the answer.
Execute(v, cmd) ==
    LET Answer(w, bytes) == [value |-> w, answer |-> bytes]
        name == Upper(cmd[1])
    IN  CASE name = <<"SET">> /\ Len(cmd) = 2 -> Answer(cmd[2], SimpleString(<<"OK">>))
          [] name = <<"GET">> /\ Len(cmd) = 1 ->
               Answer(v, IF v = Unset THEN NullBulkString ELSE BulkString(v))
          [] (name = <<"SET">> /\ Len(cmd) # 2) \/ (name = <<"GET">> /\ Len(cmd) # 1) ->
               Answer(v, Error(<<"arity">>))
          [] OTHER -> Answer(v, Error(<<"unknown">> \o cmd[1]))

\* handle_client_read() on one command: its execution, the answer and, of a write, the
\* line to the replica.
Serve(s, cmd) ==
    LET done == Execute(s.value, cmd)
    IN  [value |-> done.value, answers |-> s.answers \o done.answer,
         parsed |-> Append(s.parsed, cmd),
         stream |-> IF IsWrite(cmd) THEN s.stream \o EncodeCommand(cmd) ELSE s.stream,
         due |-> IF IsWrite(cmd) THEN Append(s.due, cmd) ELSE s.due]

ServeAll(s, cmds) ==
    LET served[i \in 0..Len(cmds)] == IF i = 0 THEN s ELSE Serve(served[i - 1], cmds[i])
    IN  served[Len(cmds)]

-----------------------------------------------------------------------------

Init ==
    /\ incoming = <<>> /\ input_buffer = <<>> /\ parsed = <<>>
    /\ value = Unset /\ answers = <<>>
    /\ stream = <<>> /\ leader_input_buffer = <<>> /\ applied = <<>> /\ due = <<>>
    /\ script = <<>> /\ spoiled = FALSE /\ count = [frames |-> 0, cuts |-> 0]

\* A client sends a frame: a command, nothing (an empty array or line), or not a frame.
Send(f) ==
    /\ count.frames < MaxFrames
    /\ count' = [count EXCEPT !.frames = @ + 1]
    /\ incoming' = incoming \o f.bytes
    /\ spoiled' = (spoiled \/ ~f.valid)
    /\ script' = IF spoiled' \/ f.cmd = <<>> THEN script ELSE Append(script, f.cmd)
    /\ UNCHANGED <<input_buffer, parsed, value, answers, stream, leader_input_buffer, applied, due>>

\* handle_client_read(): one recv(), the parser, and the commands.
ReceiveFromClient ==
    /\ \E n \in 1..Len(incoming) :
         \E got \in {Parse(input_buffer \o SubSeq(incoming, 1, n))} :
         \E server \in {ServeAll([value |-> value, answers |-> answers, parsed |-> parsed,
                                 stream |-> stream, due |-> due], got.items)} :
            /\ incoming' = Suffix(incoming, n + 1)
            /\ input_buffer' = got.rest
            /\ value' = server.value /\ answers' = server.answers
            /\ parsed' = server.parsed /\ stream' = server.stream /\ due' = server.due
    /\ UNCHANGED <<leader_input_buffer, applied, script, spoiled, count>>

\* read_from_leader().
ReceiveFromLeader ==
    /\ \E n \in 1..Len(stream) :
         \E got \in {Lines(leader_input_buffer \o SubSeq(stream, 1, n))} :
            /\ stream' = Suffix(stream, n + 1)
            /\ leader_input_buffer' = got.rest
            /\ applied' = applied \o got.items
    /\ UNCHANGED <<incoming, input_buffer, parsed, value, answers, due, script, spoiled, count>>

\* Mutant: the buffer of the old connection is kept.
ReconnectKeepsBuffer ==
    /\ count.cuts < MaxCuts
    /\ count' = [count EXCEPT !.cuts = @ + 1]
    /\ stream' = <<>> /\ applied' = <<>> /\ due' = <<>>
    /\ UNCHANGED <<incoming, input_buffer, parsed, value, answers, leader_input_buffer,
                   script, spoiled>>

\* The connection to the leader ends with what was on its way; connect_to_leader()
\* clears the buffer.  The full sync that follows stands for the commands so far.
Reconnect ==
    /\ count.cuts < MaxCuts
    /\ count' = [count EXCEPT !.cuts = @ + 1]
    /\ stream' = <<>> /\ leader_input_buffer' = <<>> /\ applied' = <<>> /\ due' = <<>>
    /\ UNCHANGED <<incoming, input_buffer, parsed, value, answers, script, spoiled>>

Next == \/ \E f \in Frames : Send(f)
        \/ ReceiveFromClient
        \/ ReceiveFromLeader
        \/ Reconnect

Spec == Init /\ [][Next]_vars

-----------------------------------------------------------------------------
(* Properties. *)

\* resp.cpp: an error discards the buffer "to prevent lockups".  Whatever a client has
\* sent, and in whatever pieces, there is an end of some frame with which the parser is
\* done with all of it.
NoLockup ==
    input_buffer # <<>> =>
        \E f \in Frames : \E n \in 1..Len(f.bytes) :
            Parse(input_buffer \o SubSeq(f.bytes, n, Len(f.bytes))).rest = <<>>

\* However TCP cuts the bytes, the server executes the commands the client sent, in
\* order, each once, with arguments byte for byte (CR LF in them, empty, null), and
\* those before a malformed frame all the same; and as soon as the bytes are there.
ServedAsSent ==
    /\ IsPrefix(parsed, script) \/ (spoiled /\ IsPrefix(script, parsed))
    /\ incoming = <<>> => IsPrefix(script, parsed)

\* What a client takes the bytes it is sent for: the kind and value of each answer.
Heard(kind, data) == <<kind, data>>
AnswerAt == [b \in Seq(Byte) |->
    LET crlf == FindCrLf(b, 1)
        end  == crlf + 2 + Number[b[1]]
    IN  IF crlf = 0 THEN Incomplete
        ELSE IF b[1] \notin BulkHeads \cap DOMAIN Number \/ Number[b[1]] < 0
             THEN Success(Heard(b[1], <<>>), crlf + 2)
        ELSE IF end + 1 > Len(b) THEN Incomplete
        ELSE Success(Heard("$", SubSeq(b, crlf + 2, end - 1)), end + 2)]
Understood(b) == Drain(AnswerAt, b)

\* What each command is owed: a GET the value of the last SET before it.
Owed(cmds) ==
    LET Sets(i)  == {j \in 1..(i - 1) : IsWrite(cmds[j]) /\ Len(cmds[j]) = 2}
        Is(i, n) == Upper(cmds[i][1]) = <<n>>
    IN  [i \in DOMAIN cmds |->
           IF Is(i, "SET") /\ Len(cmds[i]) = 2 THEN Heard("+", <<>>)
           ELSE IF ~Is(i, "GET") \/ Len(cmds[i]) # 1 THEN Heard("-", <<>>)
           ELSE IF Sets(i) = {} THEN Heard("$-1", <<>>)
           ELSE Heard("$", cmds[Max(Sets(i))][2])]

\* A client that counts its answers is never off by one, and reads back byte for byte
\* what was set, line ends included.  The exception is a name that is not known and
\* has a line end: the error quotes it as it is (command.cpp:41).
AnsweredAsServed ==
    (\A i \in DOMAIN parsed : FindCrLf(parsed[i][1], 1) = 0) =>
        Understood(answers) = [result |-> "SUCCESS", items |-> Owed(parsed), rest |-> <<>>]

\* A command that encode() can carry: no word of it is empty or has a tab.
Carried(cmd) == \A w \in Range(cmd) : w # <<>> /\ "TAB" \notin Range(w)

\* The replica applies one line for each write since its connection was made, in
\* order and with the words the client gave; an empty word or a tab (replication.cpp:
\* "percent-encode characters that would break our line-based, space-delimited
\* protocol") spoils its own line and no other.
AppliedAsServed ==
    /\ Len(applied) <= Len(due)
    /\ stream = <<>> => Len(applied) = Len(due)
    /\ \A i \in DOMAIN applied :
          Carried(due[i]) => applied[i] = <<Upper(due[i][1])>> \o Tail(due[i])
=============================================================================
