SPECIFICATION Spec
CONSTANTS
    Members = {u1, u2}
    Convs = {c1, c2}
    Messages = {m1}
    Requests = {r1, r2}
    None = None
    Operations <- Membership
    MaxAdd = 1
    MaxStays = 2
INVARIANTS OneDirectPerPair
\* Nothing is left to call when the ids are used up and the conversation is deleted.
CHECK_DEADLOCK FALSE
