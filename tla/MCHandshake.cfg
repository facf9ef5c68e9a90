CONSTANTS
    a1 = a1
    a2 = a2
    a3 = a3
    c1 = c1
    c2 = c2
    Attempts = {a1, a2, a3}
    Clients = {c1, c2}
    ClientOf <- MCClientOf
    Allowed = {c1}
    Server = Server
    Sids = {s1, s2}
    None = None
    MaxResponses = 3
    MaxSeq = 1
SYMMETRY Alike
SPECIFICATION Spec
INVARIANTS
    TypeOK
    Agreement
    SessionsAreAskedFor
    NoncesStayFresh
CHECK_DEADLOCK FALSE
