--------------------------- MODULE MCWriteBackCache ---------------------------
(* Instances of WriteBackCache for TLC. *)
EXTENDS WriteBackCache, TLC

CONSTANTS A, B, C

OneSet == [line \in Lines |-> 1]

Read(line) == [op |-> "read", line |-> line, offs |-> {1}]
WriteByte(line) == [op |-> "write", line |-> line, offs |-> {1}]
WriteLine(line) == [op |-> "write", line |-> line, offs |-> Offsets]
Ops(line) == {Read(line), WriteByte(line), WriteLine(line)}

FlushReq(discard, pause) == [op |-> "flush", discard |-> discard, pause |-> pause]
RestartReq == [op |-> "restart", discard |-> FALSE, pause |-> FALSE]

NoControl == {<< >>}
Flushes == {<<FlushReq(FALSE, FALSE)>>, <<FlushReq(FALSE, TRUE), RestartReq>>}

\* Every three requests for two lines, up to renaming the lines.
ThreeOps == {f \in [1..3 -> Ops(A) \cup Ops(B)] : f[1].line = A}

\* A line is written and evicted, then every two requests for the two lines and
\* a read: the line may be fetched from its eviction, written meanwhile and
\* evicted once more before it is read.
EvictedThenOps ==
    {<<WriteLine(A), Read(B)>> \o f \o <<Read(line)>> :
        f \in [1..2 -> Ops(A) \cup Ops(B)], line \in Lines}

\* A line is evicted twice before the memory serves the first eviction.
EvictedTwice == {<<WriteLine(A), Read(B), WriteLine(A), Read(A), Read(B), Read(A)>>}
===============================================================================
