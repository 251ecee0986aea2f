SPECIFICATION ServerSpec
CONSTANTS
    p1 = p1
    p2 = p2
    p3 = p3
    h1 = h1
    h2 = h2
    h3 = h3
    NoTask = NoTask
    Verifier = Verifier
    NoThread = NoThread
    Workers = {p1, p2, p3}
    Handlers = {h1, h2, h3}
INVARIANTS
    VerifierReferencesLive
