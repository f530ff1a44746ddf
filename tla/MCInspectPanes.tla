--------------------------- MODULE MCInspectPanes ---------------------------
(* Instances of InspectPanes for TLC: two fields, one inside the other, and  *)
(* two links, one counted in bytes and one in messages.                      *)
EXTENDS InspectPanes, TLC

TwoComps == {"CU", "L1"}
Nested == {"top", "top.inner"}
NestedIn == [f \in Nested |-> "top"]
TwoLinks == {"out", "msgs"}
LinkUnit == "out" :> "Byte" @@ "msgs" :> "Msg"
\* Traffic on one of the links or on both, or none at all.
Traffic == {"out" :> 1, "out" :> 1 @@ "msgs" :> 1, "out" :> 0}
=============================================================================
