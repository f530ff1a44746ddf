----------------------------- MODULE MCDrawings -----------------------------
(***************************************************************************)
(* Four tasks in every arrangement of three instants and of parents, three *)
(* of four instants, so that tasks overlap in part; two samples of stacks  *)
(* of at most three of two functions, so that recursion happens; up to     *)
(* eight pages.                                                            *)
(***************************************************************************)
EXTENDS Drawings

CONSTANTS f, g

Times(n) == {x \in (0..n) \X (0..n) : x[1] <= x[2]}
TaskOf(x, p) == [start |-> x[1], end |-> x[2], parent |-> p]
FourTasks ==
    {<<TaskOf(a, 0), TaskOf(b, pb), TaskOf(c, pc), TaskOf(d, pd)>> :
        a \in Times(2), b \in Times(2), c \in Times(2), d \in Times(2),
        pb \in 0..1, pc \in 0..2, pd \in 0..3}
ThreeTasks ==
    {<<TaskOf(a, 0), TaskOf(b, pb), TaskOf(c, pc)>> :
        a \in Times(3), b \in Times(3), c \in Times(3), pb \in 0..1, pc \in 0..2}
ManyTasks == FourTasks \cup ThreeTasks

Stacks == UNION {[1..n -> {f, g}] : n \in 1..3}
TwoSamples == {<<[stack |-> s, value |-> v], [stack |-> t, value |-> 2]>> :
                    s \in Stacks, t \in Stacks, v \in 0..1}
=============================================================================
