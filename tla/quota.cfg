\* Two accounts, two handlers, a limit of one, four credentials ever.
CONSTANTS
    Account = {a1, a2}
    Handler = {h1, h2}
    Limit = 1
    ListLimit = 2
    MaxVcs = 4
    MaxPending = 1
    PageLimit = 2
    None = None
SPECIFICATION Spec
SYMMETRY Symmetry
INVARIANTS
    OvershootBounded
    ChargedOnce
    Metered
    AnsweredIsListed
