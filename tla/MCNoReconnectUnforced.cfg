\* Two users, two connections.
CONSTANTS
    u1 = u1
    u2 = u2
    c1 = c1
    c2 = c2
    None = None
    Users = {u1, u2}
    Conns = {c1, c2}
    MaxErrors = 1
SYMMETRY Symmetry
SPECIFICATION Spec
PROPERTIES NoReconnectUnforced
