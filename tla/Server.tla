-------------------------------- MODULE Server --------------------------------
(***************************************************************************)
(* Processes of the API server over one database (server.ts): how each one   *)
(* settles the issuer DID before it listens, the secrets it holds, and what  *)
(* was made with them and outlives it: credentials, the issuer keys of       *)
(* accounts (key-custody.ts) and access tokens (tokens.ts).                  *)
(*                                                                          *)
(* A start runs the module top-level of server.ts, and any rejection in it   *)
(* ends the process; the container restarts it (restart: unless-stopped).    *)
(* Cryptography is what it is used for: a value opens what was made with the *)
(* same value.  A random value is one that nothing else was made with.       *)
(***************************************************************************)
EXTENDS FiniteSets, Naturals

CONSTANTS
    Process,    \* server processes that share the database
    Key,        \* HELIX_SIGNING_KEYs, by their public key
    Account,    \* hosted accounts
    Random,     \* values of crypto.randomBytes and generateKeyPair
    Secret,     \* values an operator configures as secrets
    None,       \* nothing
    MaxTrouble  \* bound: crashes, failed listens and changes of configuration

ASSUME ServerAssumption ==
    /\ None \notin Key \union Secret \union Random
    /\ Secret \intersect Random = {}
    /\ MaxTrouble \in Nat

SecretValue == Random \union Secret

VARIABLES
    container, \* the environment a process is started with
    proc,      \* the processes
    issuer,    \* the public key in the stored document of HELIX_ISSUER_DID
    sealed,    \* issuer_key_records: what each account's key is encrypted with
    access,    \* what the access tokens not yet expired are signed with
    signers,   \* history: keys credentials were signed with
    trouble    \* crashes, failed listens and changes of configuration so far

made == <<sealed, access, signers>>
serverVars == <<container, proc, issuer, made, trouble>>

PC == {"down", "find", "create", "listen", "up"}

\* HELIX_SIGNING_KEY, and HOSTED_KEY_ENCRYPTION_KEY with
\* HOSTED_ACCESS_TOKEN_SECRET: configured as a pair, each process with one of
\* its own choice, or not at all.
Environment == [key : Key, secret : Secret \union {None}]

Down == [pc |-> "down", key |-> None, master |-> None, access |-> None]

ServerTypeOK ==
    /\ container \in [Process -> Environment]
    /\ proc \in [Process -> [pc : PC, key : Key \union {None},
                             master : SecretValue \union {None},
                             access : SecretValue \union {None}]]
    /\ issuer \in Key \union {None}
    /\ sealed \in [Account -> SecretValue \union {None}]
    /\ access \subseteq SecretValue
    /\ signers \subseteq Key
    /\ trouble \in 0 .. MaxTrouble

ServerInit ==
    /\ container \in [Process -> Environment]
    /\ proc = [p \in Process |-> Down]
    /\ issuer = None
    /\ sealed = [a \in Account |-> None]
    /\ access = {}
    /\ signers = {}
    /\ trouble = 0

Up == {p \in Process : proc[p].pc = "up"}

-----------------------------------------------------------------------------
(* Start and stop.                                                          *)

Goto(p, label) == proc' = [proc EXCEPT ![p].pc = label]

Die(p) == proc' = [proc EXCEPT ![p] = Down]

\* loadConfigFromEnv; the repositories, and the services of the registry.
Start(p) ==
    /\ proc[p].pc = "down"
    /\ proc' = [proc EXCEPT ![p] = [Down EXCEPT !.pc = "find", !.key = container[p].key]]
    /\ UNCHANGED <<container, issuer, made, trouble>>

\* Mutant: one key is lower-cased, the other is not.
NeverEqual(p) == FALSE

\* existingPublicKey === expectedPublicKey
IssuerMatches(p) == issuer = proc[p].key

\* ensureIssuerDidCached: findDidById.  A document with another key ends the
\* process: VCs would not verify.
FindIssuer(p) ==
    /\ proc[p].pc = "find"
    /\ IF issuer = None THEN Goto(p, "create")
       ELSE IF IssuerMatches(p) THEN Goto(p, "listen")
       ELSE Die(p)
    /\ UNCHANGED <<container, issuer, made, trouble>>

\* Mutant: the row of another process is overwritten.
CreateOver(p) ==
    /\ issuer' = proc[p].key
    /\ Goto(p, "listen")

\* didRepository.createDid: the DID is a primary key.
CreateOnce(p) ==
    IF issuer = None
    THEN issuer' = proc[p].key /\ Goto(p, "listen")
    ELSE Die(p) /\ UNCHANGED issuer

CreateIssuer(p) ==
    /\ proc[p].pc = "create"
    /\ CreateOnce(p)
    /\ UNCHANGED <<container, made, trouble>>

InUse == access \union {sealed[a] : a \in Account}
            \union UNION {{proc[p].master, proc[p].access} : p \in Process}

\* Mutant: what is configured is ignored.
AlwaysDrawn(p, r) == r

\* config.HOSTED_... ?? crypto.randomBytes(32): configured, or r.
Drawn(p, r) == IF container[p].secret # None THEN container[p].secret ELSE r

\* The rest of the start, and app.listen.
Listen(p) ==
    /\ proc[p].pc = "listen"
    /\ Random \ InUse # {}
    /\ LET r == CHOOSE r \in Random : r \notin InUse IN
        proc' = [proc EXCEPT ![p].pc = "up", ![p].master = Drawn(p, r), ![p].access = Drawn(p, r)]
    /\ UNCHANGED <<container, issuer, made, trouble>>

Trouble ==
    /\ trouble < MaxTrouble
    /\ trouble' = trouble + 1

\* A crash anywhere, a port that is taken, or SIGTERM.
Stop(p) ==
    /\ Trouble
    /\ proc[p].pc # "down"
    /\ Die(p)
    /\ UNCHANGED <<container, issuer, made>>

\* The operator changes the environment: the container is made anew.
Reconfigure(p) ==
    /\ Trouble
    /\ \E e \in Environment : e # container[p] /\ container' = [container EXCEPT ![p] = e]
    /\ Die(p)
    /\ UNCHANGED <<issuer, made>>

-----------------------------------------------------------------------------
(* What the routes make with the key and the secrets of a process.          *)

\* vcService signs with config.HELIX_SIGNING_KEY.
IssueVC(p) ==
    /\ p \in Up
    /\ signers' = signers \union {proc[p].key}
    /\ UNCHANGED <<container, proc, issuer, sealed, access, trouble>>

\* keyCustody.generateAndEncrypt for a new account
Provision(p, a) ==
    /\ p \in Up
    /\ sealed[a] = None
    /\ sealed' = [sealed EXCEPT ![a] = proc[p].master]
    /\ UNCHANGED <<container, proc, issuer, access, signers, trouble>>

\* issueAccessToken, at login and at every refresh
IssueAccess(p) ==
    /\ p \in Up
    /\ access' = access \union {proc[p].access}
    /\ UNCHANGED <<container, proc, issuer, sealed, signers, trouble>>

\* HOSTED_ACCESS_TOKEN_TTL_SECONDS passes: the tokens signed with s are no more.
ExpireAccess(s) ==
    /\ s \in access
    /\ access' = access \ {s}
    /\ UNCHANGED <<container, proc, issuer, sealed, signers, trouble>>

\* AesGcmKeyCustody.sign: decrypt throws unless the auth tag matches.
CanSign(p, a) == sealed[a] = proc[p].master

\* verifyAccessToken: the signature is recomputed with the process's secret.
Accepts(p, token) == token = proc[p].access

-----------------------------------------------------------------------------

Boot(p) == Start(p) \/ FindIssuer(p) \/ CreateIssuer(p) \/ Listen(p)

ServerNext ==
    \/ \E p \in Process :
        \/ Boot(p)
        \/ Stop(p) \/ Reconfigure(p)
        \/ IssueVC(p) \/ IssueAccess(p)
        \/ \E a \in Account : Provision(p, a)
    \/ \E s \in SecretValue : ExpireAccess(s)

-----------------------------------------------------------------------------
(* Properties.                                                              *)

\* However processes with different keys start together on an empty database,
\* those that listen sign with the key of the stored issuer DID, and so did
\* whatever was issued.
OneIssuerKey ==
    /\ \A p \in Up : proc[p].key = issuer
    /\ signers \subseteq {issuer}

\* A process whose key is that of the stored issuer DID comes up for good, even
\* if it died in a race to create it.
MatchingServes ==
    \A p \in Process : <>[](container[p].key = issuer) => <>[](proc[p].pc = "up")

\* Once every container has the issuer's key and one configured secret s, for
\* good, the deployment heals, whatever secrets were drawn before or configured
\* otherwise: every process is up, accepts every access token, whoever made it,
\* and opens every account's key that was sealed with s.
SecretsHeal ==
    \A s \in Secret :
        <>[](\A p \in Process : container[p] = [key |-> issuer, secret |-> s]) =>
        <>[](\A p \in Process :
                /\ p \in Up
                /\ \A t \in access : Accepts(p, t)
                /\ \A a \in Account : sealed[a] = s => CanSign(p, a))

=============================================================================
