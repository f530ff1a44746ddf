--------------------------- MODULE OrderedDelivery ---------------------------
(***************************************************************************)
(* What the connections of a simulation promise their components: between  *)
(* two ports messages arrive at most once, unaltered and in the order of   *)
(* the sends (doc/connection_system.md: no packet is dropped).             *)
(***************************************************************************)
EXTENDS Naturals, Sequences

CONSTANTS Agents, Ports, Workloads, Owner

VARIABLES MsgsToSend, inFlight, received

vars == <<MsgsToSend, inFlight, received>>

Init ==
    /\ MsgsToSend \in Workloads
    /\ inFlight = [c \in Ports \X Ports |-> << >>]
    /\ received = [p \in Ports |-> << >>]

(* The network accepts the next message of agent a. *)
Accept(a) ==
    /\ MsgsToSend[a] # << >>
    /\ LET m == Head(MsgsToSend[a])
       IN  inFlight' = [inFlight EXCEPT ![<<m.src, m.dst>>] = Append(@, m)]
    /\ MsgsToSend' = [MsgsToSend EXCEPT ![a] = Tail(@)]
    /\ UNCHANGED received

(* An agent takes the oldest message of one source at each port in got. *)
Take(got, from) ==
    /\ \A p \in got : inFlight[<<from[p], p>>] # << >>
    /\ inFlight' = [c \in Ports \X Ports |->
            IF c[2] \in got /\ from[c[2]] = c[1]
            THEN Tail(inFlight[c]) ELSE inFlight[c]]
    /\ received' = [p \in Ports |->
            IF p \in got THEN Append(received[p], Head(inFlight[<<from[p], p>>]))
                         ELSE received[p]]
    /\ UNCHANGED MsgsToSend

PortsOf(a) == {p \in Ports : Owner[p] = a}

TakeSome ==
    \E a \in Agents : \E got \in (SUBSET PortsOf(a)) \ {{}} :
        \E from \in [got -> Ports] : Take(got, from)

Next == (\E a \in Agents : Accept(a)) \/ TakeSome

Spec == Init /\ [][Next]_vars

=============================================================================
