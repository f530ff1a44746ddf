------------------------- MODULE MCMessageDelivery -------------------------
(* An instance of MessageDelivery for TLC: three agents, each with a port on *)
(* one connection, and a second connection between two of them.  ParallelEngine *)
(* also takes every step that SerialEngine takes, so it stands for both.     *)
EXTENDS MessageDelivery

CONSTANTS a1, a2, a3, k1, k2, p1, p2, p3, p4, p5,
    MaxMsgs     \* length of the longest MsgsToSend

Msg(i, s, d) == [id |-> i, src |-> s, dst |-> d]

ThreeAgents == {a1, a2, a3}
TwoConns == {k1, k2}
FivePorts == {p1, p2, p3, p4, p5}
OwnerOf == p1 :> a1 @@ p2 :> a2 @@ p3 :> a3 @@ p4 :> a2 @@ p5 :> a3
ConnectionOf == [p \in FivePorts |-> IF p \in {p4, p5} THEN k2 ELSE k1]
PortLists == k1 :> <<p1, p2, p3>> @@ k2 :> <<p4, p5>>
Capacities == [p \in FivePorts |-> 1]
BufferSizes == [p \in FivePorts |-> IF p = p5 THEN 2 ELSE 1]

\* Clock domains whose ticks meet at some times and not at others.
Clocks == a1 :> 1 @@ a2 :> 2 @@ a3 :> 3 @@ k1 :> 2 @@ k2 :> 3

\* Every list of at most MaxMsgs sends, each a pair of ports.
Lists(sends) ==
    UNION {{[i \in 1..n |-> Msg(i, s[i][1], s[i][2])] : s \in [1..n -> sends]} :
              n \in 0..MaxMsgs}
AllWorkloads ==
    {a1 :> x @@ a2 :> y @@ a3 :> z :
        x \in Lists({<<p1, p2>>, <<p1, p3>>}),
        y \in Lists({<<p2, p1>>, <<p2, p3>>, <<p4, p5>>}),
        z \in Lists({<<p3, p1>>, <<p3, p2>>, <<p5, p4>>})}

=============================================================================
