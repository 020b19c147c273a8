SPECIFICATION MCSpec
CONSTANTS
    Parts = {"redelivery", "takeover", "conversation"}
    c1 = c1
    m1 = m1
    Messages = {m1, m2}
    Conversations = {c1}
    ConversationOf <- OneConversation
    Deliveries = {d1, d2, d3}
    Nobody = Nobody
    Faults = {"cancel", "error"}
    Presenter = TRUE
    MaxPending = 1
    MaxEpoch = 2
SYMMETRY DeliverySymmetry
CHECK_DEADLOCK FALSE
INVARIANTS
    AtMostOneSend
    NoticesAreTrue
    InOrder
    ClaimsAreSettled
PROPERTIES
    FencedStaysFenced
