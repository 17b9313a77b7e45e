--------------------------- MODULE PersistenceMC ---------------------------
EXTENDS Persistence
CONSTANTS SetValue, LeftValue, RightValue

Cells == 1..4
Command(name, args) == [name |-> name, args |-> args]
SomeRequests ==
    UNION {{Command("SET", <<k, SetValue>>), Command("DEL", <<k>>),
            Command("LPUSH", <<k, LeftValue>>), Command("RPUSH", <<k, RightValue>>),
            Command("EXPIRE", <<k, 1>>)} : k \in Key}

\* RPushAll() is the rpush() of each element in turn.
ASSUME RPushAllIsRPushes ==
    LET Lists == UNION {[1..n -> Value] : n \in 0..3}
        WithK(s) == IF s = <<>> THEN EmptyDb ELSE WithList(EmptyDb, CHOOSE k \in Key : TRUE, s)
    IN  \A s, t \in Lists : \A k \in Key :
           RPushAll(WithK(s), k, t) = FoldLeft(LAMBDA e, v : RPush(e, k, v), WithK(s), t)

CloseFails == {"close_fails"}
Symmetry == Permutations(Key)
=============================================================================
