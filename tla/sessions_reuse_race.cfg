\* Two requests in flight for one account.
CONSTANTS
    Account = {a1}
    Handler = {h1, h2}
    MaxTokens = 4
    None = None
SPECIFICATION Spec
SYMMETRY Symmetry
INVARIANT BurnForcesRelogin
