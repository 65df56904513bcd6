----------------------------- MODULE MCAuditLog -----------------------------
(* AuditLog on small instances.                                             *)
EXTENDS AuditLog, TLC

\* A body about the holder of the nth credential of the chain of length n.
About(n) == [NoBody EXCEPT !.result = "success", !.subjectDid = n]

Sent(n) == [i \in 1 .. n |-> Entry(i)]

\* The chain of three alone; all the fields of it; what a rejected presentation
\* attempted, alone and with the chain it claims; fields that disagree with the
\* chain; a result that is refused.
MCBody ==
    LET chain == [About(3) EXCEPT !.delegationChain = Sent(3)]
        fields == [About(3) EXCEPT !.delegatedFrom = 2, !.parentVcId = Vc(2),
                                   !.delegatedTo = 3, !.delegationDepth = 2]
        attempted == [About(3) EXCEPT !.result = "rejected", !.attemptedDelegatedFrom = 2,
                                      !.attemptedParentVcId = Vc(2)]
    IN  {chain, fields, attempted,
         [attempted EXCEPT !.delegationChain = Sent(3)],
         [chain EXCEPT !.delegatedFrom = 1, !.delegatedTo = 2, !.delegationDepth = 1],
         [About(1) EXCEPT !.result = "unknown"]}

\* Bound: a behaviour is followed until its list requests are answered.
Unanswered == \E r \in Reader : asking[r].pc # "answered"

\* Bound: what is posted of a presentation is the last record.
PostedLast == \A i \in DOMAIN trail : trail[i].post # NoBody => i = Len(trail)

\* Accounts are interchangeable.
Symmetry == Permutations(Account)

=============================================================================
