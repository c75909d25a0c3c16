-------------------------------- MODULE GateZero --------------------------------
(* The Gate-0 benchmark: bench/realworld/runner.py decides whether the           *)
(* maintenance loop beats a prompt, and bench/realworld/status.py and            *)
(* sync/status_surfaces.py publish the verdict.  The models and the embedding    *)
(* are external, so whatever they answer is a choice.  Rates are compared as     *)
(* exact fractions, and where two are equal the floating point of the code may   *)
(* fall either way.  The query comparison and the routing comparison (C.10) are  *)
(* reported and decide nothing; they are left out.                               *)
EXTENDS Integers, Sequences, FiniteSets

CONSTANTS
    Contradictions,             \* how many held-out contradictions there are
    UpdateCases, CreateCases,   \* the held-out notes, by the route expected of them
    IngestCounts,               \* what --ingests may be
    MinIngests,                 \* MIN_INGESTS; FIDELITY_INGESTS is lower and never decides
    SafetyMargin, DriftTolerance, MinGrowth,  \* in percent
    Gold                        \* the paragraph no fidelity ingest is about

ASSUME GateAssumption ==
    /\ Contradictions \in Nat \ {0} /\ MinIngests \in Nat \ {0}
    /\ IngestCounts \subseteq Nat \ {0}
    /\ {SafetyMargin, DriftTolerance, MinGrowth} \subseteq 0..100
    /\ IsFiniteSet(UpdateCases \cup CreateCases) /\ UpdateCases \cup CreateCases # {}
    /\ Gold \notin Int

VARIABLES
    bench,    \* the run: how far it is and what it has measured
    recorded, \* the verdict of recorded_gate0_report(), which the repository keeps
    section,  \* the verdict the generated section of docs/gate0-status.md states
    rows      \* the verdicts rendered as rows of its evidence table

gateVars == <<bench, recorded, section, rows>>

NotRun == [at |-> "idle"]
GateInit == bench = NotRun /\ recorded = "NO-GO" /\ section = "NO-GO" /\ rows = {}
--------------------------------------------------------------------------------
\* `kosha bench-realworld`: providers, count of ingests, nothing measured.
Start(local, n) ==
    /\ bench = NotRun
    /\ bench' = [at |-> "safety", local |-> local, ingests |-> n, left |-> Contradictions,
                 loopSafe |-> 0, promptSafe |-> 0, start |-> 0, end |-> 0, added |-> 0,
                 heads |-> <<0, Gold>>, intact |-> TRUE, onTarget |-> TRUE, verdict |-> "none"]
    /\ UNCHANGED <<recorded, section, rows>>

\* A provider, a file, an ingest or an unknown targeter that raises ends the run without a report.
Abort ==
    /\ bench.at \in {"safety", "seeded", "growing", "grown", "fidelity"}
    /\ bench' = [at |-> "aborted"]
    /\ UNCHANGED <<recorded, section, rows>>

Tally(n, cond) == n + (IF cond THEN 1 ELSE 0)

\* One case of _run_safety: what the prompt keeps and flags is counted first; a judge
\* that raises skips the loop's side.  Reconciling keeps both claims whatever the
\* judge says (ClaimLayer's NoSilentOverwrite), so the loop is safe when it is told of
\* the conflict, and never overwrites.
_run_safety(flagged, preserved, judged) ==
    /\ bench.at = "safety"
    /\ bench' = [bench EXCEPT
         !.at = IF bench.left = 1 THEN "seeded" ELSE "safety",
         !.left = @ - 1,
         !.promptSafe = Tally(@, flagged /\ preserved),
         !.loopSafe = Tally(@, judged = "conflict")]
    /\ UNCHANGED <<recorded, section, rows>>

\* What the loop makes of a held-out note; an adjudication that cannot be parsed is a
\* SPLIT.
Routes == {"UPDATE target", "UPDATE other", "CREATE", "SPLIT"}
_is_correct(case, route) == route = IF case \in UpdateCases THEN "UPDATE target" ELSE "CREATE"
_drift_accuracy(route) == Cardinality({c \in UpdateCases \cup CreateCases : _is_correct(c, route[c])})

MeasureStart(route) ==
    /\ bench.at = "seeded"
    /\ bench' = [bench EXCEPT !.at = "growing", !.start = _drift_accuracy(route), !.left = bench.ingests]
    /\ UNCHANGED <<recorded, section, rows>>

\* One growth document: it may be taken for a known concept, become one, or be split.
GrowOnce(concepts) ==
    /\ bench.at = "growing"
    /\ bench' = [bench EXCEPT !.at = IF bench.left = 1 THEN "grown" ELSE "growing",
                              !.left = @ - 1, !.added = @ + concepts]
    /\ UNCHANGED <<recorded, section, rows>>

FidelityIngests(n) == IF n > MinIngests THEN n ELSE MinIngests

MeasureEnd(route) ==
    /\ bench.at = "grown"
    /\ bench' = [bench EXCEPT !.at = "fidelity", !.end = _drift_accuracy(route),
                              !.left = FidelityIngests(bench.ingests)]
    /\ UNCHANGED <<recorded, section, rows>>
--------------------------------------------------------------------------------
Stated(heads, text) == \E j \in DOMAIN heads : heads[j] = text

\* merge_update of a concept whose current statements are heads with the i-th text
\* about returns: the targeter picks one of them, or none (0).
merge_update(heads, picked, i) ==
    IF picked = 0 THEN Append(heads, i) ELSE [heads EXCEPT ![picked] = i]

\* One ingest of _run_fidelity.  The body is a projection of the claims, so that drift,
\* reconstruction and conformance hold by themselves; Gold has to survive every step.
_run_fidelity(picked) ==
    /\ bench.at = "fidelity" /\ bench.left > 0
    /\ LET i == FidelityIngests(bench.ingests) - bench.left + 1
           heads == merge_update(bench.heads, picked, i)
       IN bench' = [bench EXCEPT !.left = @ - 1, !.heads = heads,
                                 !.intact = @ /\ Stated(heads, Gold),
                                 !.onTarget = @ /\ picked = 1]
    /\ UNCHANGED <<recorded, section, rows>>

\* Fault: the body is searched, and the list of current statements is not compared.
latest_reflectedLoose ==
    /\ Stated(bench.heads, FidelityIngests(bench.ingests))
    /\ ~Stated(bench.heads, 0) /\ Stated(bench.heads, Gold)

latest_reflected == bench.heads = <<FidelityIngests(bench.ingests), Gold>>

fidelity_ok == bench.intact /\ latest_reflected
--------------------------------------------------------------------------------
\* What a >= b may come to in floating point, for exact a and b.
AtLeast(a, b) == IF a = b THEN BOOLEAN ELSE {a > b}

beats_on_safety ==
    AtLeast(100 * (bench.loopSafe - bench.promptSafe), SafetyMargin * Contradictions)

\* int(ingests * MIN_GROWTH_RATIO) concepts have come.
grew == bench.added >= (bench.ingests * MinGrowth) \div 100

KeptAccuracy ==
    AtLeast(100 * (bench.end - bench.start) + DriftTolerance * Cardinality(UpdateCases \cup CreateCases), 0)

no_degradation ==
    {kept /\ bench.ingests >= MinIngests /\ grew /\ fidelity_ok : kept \in KeptAccuracy}

MeasuredVerdicts ==
    IF bench.local /\ bench.ingests >= MinIngests
    THEN {"INVALID"}
    ELSE {IF safer /\ kept THEN "GO" ELSE "NO-GO" : safer \in beats_on_safety, kept \in no_degradation}

Report ==
    /\ bench.at = "fidelity" /\ bench.left = 0
    /\ \E v \in MeasuredVerdicts : bench' = [bench EXCEPT !.at = "done", !.verdict = v]
    /\ UNCHANGED <<recorded, section, rows>>
--------------------------------------------------------------------------------
\* Neither renderer turns an INVALID verdict into text: InvalidGate0VerdictError.
Publishable(verdict) == verdict # "INVALID"

render_gate_status_row ==
    /\ bench.at = "done" /\ Publishable(bench.verdict)
    /\ rows' = rows \cup {bench.verdict}
    /\ UNCHANGED <<bench, recorded, section>>

\* A maintainer copies the figures of the report into recorded_gate0_report().
RecordVerdict ==
    /\ bench.at = "done"
    /\ recorded' = bench.verdict
    /\ UNCHANGED <<bench, section, rows>>

\* The summary of an INVALID report raises, and nothing is written.
write_gate0_status ==
    /\ Publishable(recorded)
    /\ section' = recorded
    /\ UNCHANGED <<bench, recorded, rows>>

GateNext ==
    \/ \E local \in BOOLEAN, n \in IngestCounts : Start(local, n)
    \/ Abort
    \/ \E flagged, preserved \in BOOLEAN, judged \in {"conflict", "none", "unparsable"} :
         _run_safety(flagged, preserved, judged)
    \/ \E route \in [UpdateCases \cup CreateCases -> Routes] : MeasureStart(route) \/ MeasureEnd(route)
    \/ \E concepts \in 0..2 : GrowOnce(concepts)
    \/ bench.at = "fidelity" /\ \E picked \in 0..Len(bench.heads) : _run_fidelity(picked)
    \/ Report \/ render_gate_status_row \/ RecordVerdict \/ write_gate0_status

GateSpec == GateInit /\ [][GateNext]_gateVars
--------------------------------------------------------------------------------
\* The run met the criterion fixed before it, by at least this much over every line:
\* real providers, the margin on the contradictions, no more accuracy lost than is
\* tolerated, a corpus that grew, and a targeter that found the returns paragraph at
\* every single ingest.
Met(over) ==
    /\ ~bench.local /\ bench.ingests >= MinIngests
    /\ 100 * (bench.loopSafe - bench.promptSafe) >= SafetyMargin * Contradictions + over
    /\ 100 * (bench.start - bench.end) + over <= DriftTolerance * Cardinality(UpdateCases \cup CreateCases)
    /\ bench.added >= (bench.ingests * MinGrowth) \div 100
    /\ bench.onTarget

\* GO is earned, and nothing else is published: a run that met the criterion with
\* anything to spare is a GO, one that did not meet it is none, a single fidelity
\* ingest that went to the wrong paragraph fails the run even if later ones put the
\* text right (acceptance.py:287-296), and neither the table nor the section says GO
\* unless such a run was reported (status.py:42-43).
GoIsEarned ==
    /\ bench.at = "done" =>
         /\ bench.verdict = "GO" => Met(0)
         /\ Met(1) => bench.verdict = "GO"
    /\ "GO" \in rows \cup {recorded, section} => bench.at = "done" /\ Met(0)

\* runner.py:105-112, KILL_CRITERION: at least 90% of the ingests "add a concept".
\* The code rounds down and counts concepts, so fewer will do.
GrowthAsPromised ==
    bench.at = "done" /\ bench.verdict = "GO" => 100 * bench.added >= MinGrowth * bench.ingests

\* status.py:42-43: "a GO/NO-GO verdict is only valid when real providers are
\* configured".  A run of fewer ingests with local ones is a NO-GO that is published.
LocalNeverPublished == rows # {} => ~bench.local
================================================================================
