--------------------------- MODULE ProfileNetwork ---------------------------
(***************************************************************************)
(* The call graph that AkitaRTM draws of a CPU profile of the simulation   *)
(* (pprofDataToNetwork): the samples are added one by one.  A sample is a  *)
(* call stack, the function that ran first, and the time spent in it.      *)
(***************************************************************************)
EXTENDS Naturals, Sequences, FiniteSets, FiniteSetsExt

CONSTANTS
    Functions,      \* functions of the simulation
    Profiles        \* the sequences of samples the server may answer with

Samples == [stack : Seq(Functions) \ {<<>>}, value : Nat]

ASSUME ProfileAssumption ==
    IsFiniteSet(Functions) /\ \A p \in Profiles : p \in Seq(Samples)

VARIABLES
    samples,        \* the samples still to be added
    totalTime,
    time, selfTime, \* PProfNode: function -> time
    edges           \* PProfNetwork.edges: <<caller, callee>> -> time

networkVars == <<samples, totalTime, time, selfTime, edges>>

\* How often a function, or a call of callee by caller, is in a stack.
Occurrences(s, f) == Cardinality({i \in DOMAIN s : s[i] = f})
Calls(s) == {<<s[i + 1], s[i]>> : i \in 1..(Len(s) - 1)}
CallsOf(s, e) == Cardinality({i \in 1..(Len(s) - 1) : <<s[i + 1], s[i]>> = e})

\* getOrCreateEdge, and the time added to it.
EdgeTime(e) == IF e \in DOMAIN edges THEN edges[e] ELSE 0
\* Mutant: a recursive call counts once per sample.
WithEdgesMutant(s, v) ==
    [e \in DOMAIN edges \cup Calls(s) |->
        EdgeTime(e) + (IF e \in Calls(s) THEN v ELSE 0)]
WithEdges(s, v) ==
    [e \in DOMAIN edges \cup Calls(s) |-> EdgeTime(e) + v * CallsOf(s, e)]

AddSample ==
    /\ samples # <<>>
    /\ LET s == Head(samples).stack
           v == Head(samples).value
       IN  /\ totalTime' = totalTime + v
           /\ time' = [f \in Functions |-> time[f] + v * Occurrences(s, f)]
           /\ selfTime' = [selfTime EXCEPT ![s[1]] = @ + v]
           /\ edges' = WithEdges(s, v)
    /\ samples' = Tail(samples)

EmptyNetwork ==
    /\ totalTime = 0
    /\ time = [f \in Functions |-> 0]
    /\ selfTime = [f \in Functions |-> 0]
    /\ edges = [e \in {} |-> 0]

NetworkInit == samples \in Profiles /\ EmptyNetwork

-----------------------------------------------------------------------------
(* Properties *)

\* The graph accounts for every sample, recursive calls included: the time
\* of a function is what it spent itself and in the calls it made, and all
\* the time was spent in some function.
Spent(f) == MapThenSumSet(LAMBDA e : edges[e], {e \in DOMAIN edges : e[1] = f})
TimeIsAccountedFor ==
    /\ \A f \in Functions : time[f] = selfTime[f] + Spent(f)
    /\ MapThenSumSet(LAMBDA f : selfTime[f], Functions) = totalTime
=============================================================================
