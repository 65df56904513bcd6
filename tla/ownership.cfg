\* Two accounts and the operator, two handlers, three items ever.
CONSTANTS
    Account = {a1, a2}
    Handler = {h1, h2}
    MaxItems = 3
    None = None
SPECIFICATION Spec
SYMMETRY Symmetry
INVARIANTS
    IInv
    OwnerFollowsToken
    RevokedByOwner
