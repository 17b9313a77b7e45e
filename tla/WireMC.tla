------------------------------- MODULE WireMC -------------------------------
EXTENDS Wire

ArrayTexts == {"*-1", "*0", "*1", "*2", "*x"}
BulkTexts == {"$-1", "$0", "$1", "$2", "$x"}
Numbers == [head \in (ArrayTexts \cup BulkTexts) \ {"*x", "$x"} |->
              CASE head \in {"*-1", "$-1"} -> -1
                [] head \in {"*0", "$0"}   -> 0
                [] head \in {"*1", "$1"}   -> 1
                [] head \in {"*2", "$2"}   -> 2]
Bytes == Plain \cup ArrayTexts \cup BulkTexts \cup {"a"}

Text(heads, n) == CHOOSE head \in heads \ {"*x", "$x"} : Numbers[head] = n
RECURSIVE BulksOf(_)
BulksOf(cmd) ==
    IF cmd = <<>> THEN <<>>
    ELSE <<Text(BulkTexts, Len(Head(cmd)))>> \o CrLf \o Head(cmd) \o CrLf \o BulksOf(Tail(cmd))

Frame(bytes, cmd) == [bytes |-> bytes, cmd |-> cmd, valid |-> TRUE]
Resp(cmd) == Frame(<<Text(ArrayTexts, Len(cmd))>> \o CrLf \o BulksOf(cmd), cmd)
Garbage(bytes) == [bytes |-> bytes, cmd |-> <<>>, valid |-> FALSE]
SetOf(v) == <<<<"set">>, v>>

SomeFrames ==
    {Resp(SetOf(<<"CR", "LF">>)), Resp(SetOf(<<"SP", "%">>)),
     Resp(SetOf(<<>>)), Resp(SetOf(<<"TAB">>)),
     Resp(<<<<"CR", "LF">>>>), Resp(<<<<"get">>>>), Resp(<<>>),
     Frame(<<"*-1">> \o CrLf, <<>>),
     Frame(<<"*2">> \o CrLf \o <<"$1">> \o CrLf \o <<"set">> \o CrLf \o <<"$-1">> \o CrLf,
           SetOf(<<>>)),
     Frame(<<"set", "SP", "SP", "QUOTE", "a", "SP", "QUOTE">> \o CrLf, SetOf(<<"a", "SP">>)),
     Frame(<<"SP", "LF">>, <<>>),
     \* a wrong length, no number, no '$'
     Garbage(<<"*1">> \o CrLf \o <<"$1">> \o CrLf \o <<"a", "a">> \o CrLf),
     Garbage(<<"*x">> \o CrLf), Garbage(<<"*1">> \o CrLf \o <<"$x">> \o CrLf),
     Garbage(<<"*2">> \o CrLf \o <<"a">> \o CrLf)}
=============================================================================
