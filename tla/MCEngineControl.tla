--------------------------- MODULE MCEngineControl ---------------------------
(* Instances of EngineControl for TLC. *)
EXTENDS EngineControl, TLC

CONSTANTS c1, c2, r1, r2, u1, u2

TwoComps == {c1, c2}
TwoClocks == c1 :> 1 @@ c2 :> 2
TwoRunners == {r1, r2}
TwoClients == {u1, u2}

\* All lists of at most three pause and continue requests.
AnyPauses == UNION {[1..n -> {"pause", "continue"}] : n \in 0..3}
\* The requests of clients that pair every pause with a continue and tick
\* components in between, up to four.
PairedOrTick ==
    {s \in UNION {[1..n -> {"pause", "tick", "continue"}] : n \in 0..4} :
        Pairs(s, FALSE) /\ (s # << >> => s[Len(s)] = "continue")}
\* The serial engine takes pauses in any order.
ScriptsOf == [engine \in BOOLEAN |-> IF engine THEN AnyPauses ELSE PairedOrTick]
=============================================================================
