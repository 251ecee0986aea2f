SPECIFICATION Spec
CONSTANTS
    a1 = a1
    a2 = a2
    zece = zece
    zeceJumatate = zeceJumatate
    noua = noua
    seara = seara
    fara = fara
    rau = rau
    Workers = {a1, a2}
    Auditor = Auditor
    NoThread = NoThread
    NoRow = NoRow
    Malformed = Malformed
    NullSlot = NullSlot
    Rooms <- MCOneRoom
    Capacity <- MCOneCapacity
    DefaultCapacity = 2
    Times = {zece, rau}
    OraStart <- MCOraStart
    OraGrup <- MCOraGrup
    Sume = {50}
    ReqIds = {1, 2}
    MaxId = 3
    Faults = {"read", "write", "crash"}
SYMMETRY Symmetry
INVARIANTS
    OverlapsReported
    RepliesMatchStatus
    MoneyConserved
PROPERTIES
    HistoryKept
