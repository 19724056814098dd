SPECIFICATION FairSpec
CONSTANTS
    Members = {u1, u2, u3}
    Convs = {c1}
    Messages = {m1}
    Requests = {r1, r2}
    None = None
    Operations <- Joining
    MaxAdd = 2
    MaxStays = 1
PROPERTIES EveryRequestEnds
\* Nothing is left to call when the ids are used up and the conversation is deleted.
CHECK_DEADLOCK FALSE
