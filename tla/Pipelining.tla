----------------------------- MODULE Pipelining -----------------------------
(***************************************************************************)
(* The pipeline of pipelining/pipeline.go with one cycle per stage.  A     *)
(* pipeline is a sequence of lanes, a lane a sequence of stages, and a     *)
(* stage holds an item (a positive number) or Bubble.  The last stage       *)
(* empties into a buffer.                                                  *)
(***************************************************************************)
EXTENDS Naturals, Sequences, FiniteSets, SequencesExt

Bubble == 0

(* Clear *)
EmptyPipe(width, numStage) == [l \in 1..width |-> [i \in 1..numStage |-> Bubble]]

FreeLanes(pipe) == {l \in DOMAIN pipe : pipe[l][1] = Bubble}

CanAccept(pipe) == FreeLanes(pipe) # {}

(* The first lane whose first stage is free takes the item. *)
Accept(pipe, item) ==
    [pipe EXCEPT ![CHOOSE l \in FreeLanes(pipe) :
                      \A k \in FreeLanes(pipe) : l <= k][1] = item]

(* The lanes whose last item moves to a buffer with this much room; Tick    *)
(* serves the lanes in order.                                               *)
Leaving(pipe, room) ==
    LET ready == {l \in DOMAIN pipe : Last(pipe[l]) # Bubble}
    IN  {l \in ready : Cardinality({k \in ready : k <= l}) <= room}

(* An item moves when the stage ahead is free or becomes free in this tick. *)
MoveLane(lane, leaves) ==
    LET free == {i \in DOMAIN lane : lane[i] = Bubble}
                    \cup (IF leaves THEN {Len(lane)} ELSE {})
    IN  [i \in DOMAIN lane |->
            IF \A j \in free : j < i THEN lane[i]
            ELSE IF i = 1 THEN Bubble ELSE lane[i - 1]]

(* Tick: the items that leave, in lane order, and the pipeline afterwards. *)
PipeOut(pipe, room) ==
    LET OfLanes[l \in 0..Len(pipe)] ==
            IF l = 0 THEN << >>
            ELSE IF l \in Leaving(pipe, room)
                 THEN Append(OfLanes[l - 1], Last(pipe[l]))
                 ELSE OfLanes[l - 1]
    IN  OfLanes[Len(pipe)]

PipeTick(pipe, room) ==
    [l \in DOMAIN pipe |-> MoveLane(pipe[l], l \in Leaving(pipe, room))]

PipeItems(pipe) == {pipe[l][i] : l \in DOMAIN pipe, i \in 1..Len(pipe[1])} \ {Bubble}

=============================================================================
