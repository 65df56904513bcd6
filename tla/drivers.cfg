\* Two accounts, one Google identity, one verification mail, two refresh tokens, one link.
CONSTANTS
    Email = {e1, e2}
    GoogleId = {g1}
    Hash = {n1}
    Key = {k1}
    RowId = {1, 2}
    MaxAccounts = 2
    MaxTokens = 2
    None = None
SPECIFICATION Spec
SYMMETRY Symmetry
INVARIANTS
    SqlTiersAgree
    MemoryAgrees
