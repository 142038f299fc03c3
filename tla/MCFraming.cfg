\* Two requests of any framing on one connection, cut anywhere.
SPECIFICATION FairSpec
CONSTANTS
    Messages <- WellFramed
    Port <- MCPort
    MaxNumber = 30
    MaxSent = 2
INVARIANTS NothingLost WholeOnly BodyDelivered HeadersRead LineJudged
PROPERTY RequestsComplete
\* The client has sent all it wants to.
CHECK_DEADLOCK FALSE
