SPECIFICATION Spec
CONSTANTS
    Members = {u1, u2}
    Convs = {c1}
    Messages = {m1}
    Requests = {r1, r2}
    None = None
    Operations <- AllOperations
    MaxAdd = 2
    MaxStays = 2
SYMMETRY Symmetry
INVARIANTS TypeOK OneCurrentRow CreatorIsTheAdmin
PROPERTIES GoneStaysGone ActsWithAuthority
\* Nothing is left to call when the ids are used up and the conversation is deleted.
CHECK_DEADLOCK FALSE
