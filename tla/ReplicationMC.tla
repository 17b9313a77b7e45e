--------------------------- MODULE ReplicationMC ---------------------------
EXTENDS Replication
CONSTANTS SetValue, LeftValue, RightValue

Cells == 1..8
Command(name, args) == [name |-> name, args |-> args]
Pops == {Command(name, <<k>>) : name \in {"LPOP", "RPOP"}, k \in Key}
Strings == {Command("SET", <<k, SetValue>>) : k \in Key}
           \cup {Command("DEL", <<k>>) : k \in Key}
Lists == {Command("LPUSH", <<k, LeftValue>>) : k \in Key}
         \cup {Command("RPUSH", <<k, RightValue>>) : k \in Key} \cup Pops
Lookups == {Command("GET", <<k>>) : k \in Key}
\* Strings with two values and every legal number of seconds up to the clock's bound;
\* lists, to fill the stores with what set() cannot evict.
ValueRequests == {Command("SET", <<k, v>>) : k \in Key, v \in {SetValue, LeftValue}}
                 \cup {Command("EXPIRE", <<k, s>>) : k \in Key, s \in 0..2}
                 \cup {Command("LPUSH", <<k, RightValue>>) : k \in Key}
                 \cup {Command("TTL", <<k>>) : k \in Key}

DataRequests == Strings \cup Lists \cup Lookups
\* What a handler refuses and the leader propagates all the same.
RefusedRequests == Strings \cup {Command("EXPIRE", <<k, -1>>) : k \in Key}

Symmetry == Permutations(Key)
=============================================================================
