---------------------------- MODULE StandaloneMC ---------------------------
EXTENDS Standalone
CONSTANTS NotANumber

TwoCells == 1..2
ThreeCells == 1..3
SomeSeconds == {-1, 0, 1, NotANumber}
FewSeconds == {0, 1}
\* The last answer is written by every command and read by none.
View == <<db, now, loop_tick, up>>
\* Where answers matter: every state is also explored as a PING leaves it, and from
\* there no answer of another command is hidden as a stuttering step.
AnswerView == <<db, now, loop_tick, up, reply = Pong>>
Symmetry == Permutations(Key) \cup Permutations(Value)
=============================================================================
