\* Two users, one with two connections, behind one address; one standard and one extra slot.
CONSTANTS
    u1 = u1
    u2 = u2
    c1 = c1
    c2 = c2
    c3 = c3
    Users = {u1, u2}
    Conns = {c1, c2, c3}
    owner <- TwoOfOne
    ip <- OneAddress
    Slots = 1
    EXTRA_SLOTS = 1
    EXTRA_PARTIAL_SLOTS = 0
    MaxRaces = 1
SPECIFICATION FairSpec
INVARIANTS TypeOK SlotsAreCounted SlotsPromisedOnce
PROPERTIES WaitingIsServed
