\* Two accounts, one route at a time, two items, one post, one list request of two
\* records, or of none (refused); presentations whose chain of three credentials was
\* verified, or that were rejected, and what is posted of them, true or not.
CONSTANTS
    Account = {a1, a2}
    Handler = {h1}
    MaxItems = 2
    None = None
    Reader = {r1}
    Limit = {0, 2}
    MaxPosts = 1
    MaxTrail = 2
    Depth = {3}
    Body <- MCBody
SPECIFICATION AuditSpec
SYMMETRY Symmetry
INVARIANTS
    OwnTrail
    DelegationShown
CONSTRAINTS
    Unanswered
    PostedLast
