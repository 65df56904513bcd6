\* Two addresses, one Google identity, two handlers in flight at once.
CONSTANTS
    Email = {e1, e2}
    GoogleId = {g1}
    Handler = {h1, h2}
    MaxAccounts = 2
    MaxMails = 2
    None = None
SPECIFICATION Spec
SYMMETRY Symmetry
INVARIANTS
    OneAccountPerIdentity
    DidIsBacked
    UnprovisionedIsOrphaned
    VerifiedWasVouched
