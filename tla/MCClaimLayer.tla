------------------------------ MODULE MCClaimLayer -----------------------------
(* Small instances of the claim layer for TLC.                              *)
EXTENDS ClaimLayer

CONSTANTS a, b, c, bundle, wiki, policy

\* a and b contradict each other, b and c contradict each other, a and c do not.
MCStatements == {a, b, c}
MCConflicts == {<<a, b>>, <<b, a>>, <<b, c>>, <<c, b>>}

\* The bundle is unranked; an official policy outranks the wiki.
MCSources == {bundle, wiki, policy}
MCAuthority == [s \in MCSources |-> CASE s = bundle -> 0 [] s = wiki -> 1 [] s = policy -> 2]

\* For the dated paragraphs: a later c also supplants an earlier a.
MCDatedConflicts == MCConflicts \cup {<<a, c>>}
MCTwoSources == {bundle, wiki}
MCTwoAuthority == [s \in MCTwoSources |-> IF s = bundle THEN 0 ELSE 1]
================================================================================
