------------------------------ MODULE MCL1Cache ------------------------------
(* Instances of L1Cache for TLC. *)
EXTENDS L1Cache, TLC

CONSTANTS A, B

OneSet == [line \in Lines |-> 1]
AllPolicies == {"writethrough", "writearound", "writeevict"}

\* Write-through has no directory pipeline by default; the others do.
Latencies == "writethrough" :> 0 @@ "writearound" :> 1 @@ "writeevict" :> 1

Req(op, line, offs, wait) == [op |-> op, line |-> line, offs |-> offs, wait |-> wait]
Read(line) == Req("read", line, {1}, FALSE)
WriteByte(line) == Req("write", line, {1}, FALSE)
WriteLine(line) == Req("write", line, Offsets, FALSE)

\* Only the write-through cache tells a full write from a partial one.
Ops(p, line) == {Read(line), WriteByte(line)}
                  \cup IF p = "writethrough" THEN {WriteLine(line)} ELSE {}
Invalidate == Req("invalidate", A, {}, FALSE)

\* A wave of two requests of one kind that may coalesce, for one line or two.
Waves == {<<Req(op, A, {1}, TRUE), Req(op, line, {2}, FALSE)>> :
             op \in {"read", "write"}, line \in {A, B}}

\* Three requests for two lines, up to renaming the lines; a wave in the middle;
\* and an invalidation at the end, which the write-evict cache does not know.
ThreeOps(p) == {f \in [1..3 -> Ops(p, A) \cup Ops(p, B)] : f[1].line = A}
AroundWaves(p) == {<<x>> \o w \o <<Read(A)>> : x \in Ops(p, A), w \in Waves}
ThenInvalidate(p) == {<<x, Read(A), Invalidate>> : x \in Ops(p, A)}
Workloads ==
    [p \in AllPolicies |-> ThreeOps(p) \cup AroundWaves(p)
                             \cup (IF p = "writeevict" THEN {} ELSE ThenInvalidate(p))]

FlushReq(pause) == [op |-> "flush", discard |-> FALSE, pause |-> pause]
RestartReq == [op |-> "restart", discard |-> FALSE, pause |-> FALSE]
Flushes == {<<FlushReq(FALSE)>>, <<FlushReq(TRUE), RestartReq>>}
=============================================================================
