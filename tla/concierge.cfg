\* Two requests in flight, four in all, four credentials, one failed call or crash.
CONSTANTS
    Handler = {h1, h2}
    None = None
    Damaged = Damaged
    Absent = Absent
    Source = Source
    Target = Target
    Custom = {Target}
    MaxSerial = 4
    MaxRequests = 4
    MaxFaults = 1
SPECIFICATION Spec
SYMMETRY Symmetry
INVARIANTS
    ListedForever
    MemoryIsCurrent
    CanAct
    LateIsLater
