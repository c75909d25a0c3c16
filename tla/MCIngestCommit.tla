----------------------------- MODULE MCIngestCommit ----------------------------
(* Two ingests that share the log file, and one restore to an earlier day.  *)
EXTENDS IngestCommit

CONSTANTS p1, p2, r1, x, y, fx, fy, seed, old, loose

MCProcs == {p1, p2, r1}
MCFiles == {x, y, Log}
MCFacts == {fx, fy, seed, old, loose}
MCFact == [p \in MCProcs |-> CASE p = p1 -> fx [] p = p2 -> fy [] p = r1 -> NoFact]
MCTouches == [f \in MCFacts |-> CASE f = fx -> {x, Log} [] f = fy -> {y, Log} [] OTHER -> {Log}]
MCReplaces == [f \in MCFacts |-> IF f = fy THEN {old} ELSE {}]
MCUndated == {loose}

\* x is new to the bundle, y was added since the earlier day, the log since changed.
MCSeed == [f \in MCFiles |-> CASE f = x -> {} [] f = y -> {old} [] f = Log -> {seed, loose}]
MCEarlier == [f \in MCFiles |-> IF f = Log THEN {loose} ELSE {}]

\* On one concept that was added since the earlier day, and the log: an ingest, its
\* retry and a restore.
MCTwoFiles == {y, Log}
MCTwoTouches == [f \in MCFacts |-> IF f = fy THEN {y, Log} ELSE {Log}]
MCTwoSeed == [f \in MCTwoFiles |-> IF f = y THEN {old, seed} ELSE {seed, loose}]
MCTwoEarlier == [f \in MCTwoFiles |-> IF f = y THEN {} ELSE {loose}]

MCRetryProcs == {p1, p2, r1}
MCRetry == [p \in MCRetryProcs |-> IF p = r1 THEN NoFact ELSE fy]
================================================================================
