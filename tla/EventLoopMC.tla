--------------------------- MODULE EventLoopMC ---------------------------
EXTENDS EventLoop
CONSTANTS k1, v1

Cells == {1}
Hello == [name |-> "REPLICAOF", args |-> <<"self", "self">>]
\* Every push is answered with another length; EXPIRE 0 makes the key elapsed.
SomeRequests == {[name |-> "LPUSH", args |-> <<k1, v1>>],
                 [name |-> "EXPIRE", args |-> <<k1, 0>>], Hello}
=============================================================================
