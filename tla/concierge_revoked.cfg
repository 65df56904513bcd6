\* Two requests in flight, four in all, four credentials.
CONSTANTS
    Handler = {h1, h2}
    None = None
    Damaged = Damaged
    Absent = Absent
    Source = Source
    Target = Target
    Custom = {Target}
    MaxSerial = 4
    MaxRequests = 4
    MaxFaults = 0
SPECIFICATION Spec
SYMMETRY Symmetry
INVARIANT RevokedCannotAct
