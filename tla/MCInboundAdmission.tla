------------------------- MODULE MCInboundAdmission -------------------------
(***************************************************************************)
(* Instances of InboundAdmission for TLC.  A behaviour is of one of them,  *)
(* its part.                                                               *)
(***************************************************************************)
EXTENDS InboundAdmission, FiniteSets, TLC

CONSTANTS Parts, c1, m1

VARIABLE part

OneConversation == [m \in Messages |-> c1]

\* One message redelivered to one process, with failing calls.
Redelivery == INSTANCE InboundAdmission WITH Faults <- {"error"}, MaxEpoch <- 1

OnlyOneMessage == \A d \in Deliveries : pc'[d] # "idle" => msg'[d] = m1

\* One message delivered twice across a restart, with failing calls.
Takeover == INSTANCE InboundAdmission WITH Faults <- {"error"}

OnlyTwoDeliveries == Cardinality({d \in Deliveries : pc'[d] # "idle"}) <= 2

\* Two messages of one Conversation in one process, its calls cancelled.
Conversation == INSTANCE InboundAdmission WITH
    Faults <- {"cancel"}, Presenter <- FALSE, MaxEpoch <- 1

MCInit ==
    /\ part \in Parts
    /\ CASE part = "redelivery" -> Redelivery!Init
         [] part = "takeover" -> Takeover!Init
         [] part = "conversation" -> Conversation!Init

MCNext ==
    /\ \/ part = "redelivery" /\ Redelivery!Next /\ OnlyOneMessage
       \/ part = "takeover" /\ Takeover!Next /\ OnlyOneMessage /\ OnlyTwoDeliveries
       \/ part = "conversation" /\ Conversation!Next
    /\ UNCHANGED part

MCSpec == MCInit /\ [][MCNext]_<<vars, part>>

DeliverySymmetry == Permutations(Deliveries)

=============================================================================
