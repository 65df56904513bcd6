\* Two accounts, two handlers in flight at once, three refresh tokens ever.
CONSTANTS
    Account = {a1, a2}
    Handler = {h1, h2}
    MaxTokens = 3
    None = None
SPECIFICATION Spec
SYMMETRY Symmetry
INVARIANTS
    IInv
    BurnIsFinal
    HandoverComplete
    SurvivorsBounded
    OneUsableTokenPerSession
    LogoutEndsSession
PROPERTY
    KeepsPromise
