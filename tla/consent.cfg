\* Two requests in flight and two grants ever; every grant has s1, which the agent lacks.
CONSTANTS
    Handler = {h1, h2}
    Scope = {s1, s2}
    Required = {s1}
    ToolScope = {s1, s2}
    Ceiling = {s2}
    MaxGrants = 2
SPECIFICATION Spec
SYMMETRY Symmetry
INVARIANTS
    IInv
    RunsAreConsented
    AnsweredIsDurable
    WithdrawnIsDurable
    NoLateRun
