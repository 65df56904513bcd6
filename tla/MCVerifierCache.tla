--------------------------- MODULE MCVerifierCache ---------------------------
(* Instance of VerifierCache, and of Server below it, for TLC.  It starts    *)
(* either with an empty database and a verifier whose presentations have     *)
(* expired, or with every process up, one secret and a verifier at work.     *)
EXTENDS VerifierCache

Quiet ==
    /\ now = MaxTime
    /\ expired = Vp
    /\ revokedAt = [v \in Vp |-> None]
    /\ held = [p \in Process |-> None]
    /\ copy = None
    /\ cache = {}
    /\ handling = [r \in Request |-> NoRequest]
    /\ granted = None

\* All were started with the key k and the secret s, and have made everything;
\* one more of them may fail.
Running(k, s) ==
    /\ container = [p \in Process |-> [key |-> k, secret |-> s]]
    /\ proc = [p \in Process |-> [pc |-> "up", key |-> k, master |-> s, access |-> s]]
    /\ issuer = k
    /\ sealed = [a \in Account |-> s]
    /\ access = {s}
    /\ signers = {k}
    /\ trouble = MaxTrouble - 1

MCInit ==
    \/ ServerInit /\ Quiet
    \/ Running(CHOOSE k \in Key : TRUE, CHOOSE s \in Secret : TRUE) /\ VerifierInit

MCSpec == MCInit /\ [][Next]_vars /\ Fairness

=============================================================================
