\* Two processes, two issuer keys, one configured secret, one account; two crashes,
\* failed listens or changes of configuration on an empty database, one more on a
\* running deployment; a verifier that is asked for one presentation again and
\* again, by two requests at once, status lists that are used for one unit of time
\* at the server and one at the verifier.
CONSTANTS
    Process = {p1, p2}
    Key = {k1, k2}
    Account = {a1}
    Random = {x1, x2, x3, x4}
    Secret = {s1}
    None = None
    MaxTrouble = 2
    Vp = {v1}
    Request = {r1, r2}
    ServerTtl = 1
    ClientTtl = 1
    MaxTime = 3
SPECIFICATION MCSpec
INVARIANTS
    OneIssuerKey
    LateIsCached
PROPERTIES
    MatchingServes
    SecretsHeal
