------------------------------ MODULE MCSourceRun ------------------------------
(* Two processes, two runs that commit and any number that do not, one change    *)
(* with a secret, one too large to read, one rewritten branch.                   *)
EXTENDS SourceRun, TLC

CONSTANTS p1, p2, r1, r2, a, b, s, o, none

MCProcs == {p1, p2}
MCRuns == {r1, r2}
MCChanges == {a, b, s, o}
MCSecrets == {s}
MCOversized == {o}
\* The branch grows from a to ab and aba, or is rewritten to as; or an o comes first,
\* which no run reads, and then a b.
MCHistories == {<<a>>, <<a, b>>, <<a, b, a>>, <<a, s>>, <<o>>, <<o, b>>}
Prefixes(h) == {SubSeq(h, 1, n) : n \in 0..Len(h)}
MCTexts == UNION {{<<x, h>> : x \in Prefixes(h)} : h \in MCHistories}
             \cup {<<<<>>, <<c>>>> : c \in MCChanges}
MCSymmetry == Permutations(MCProcs) \cup Permutations(MCRuns)
================================================================================
