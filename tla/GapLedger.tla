------------------------------- MODULE GapLedger -------------------------------
(* The knowledge-gap ledger (gaps/): one JSON file per bundle that every command  *)
(* loads whole, changes and saves whole, without a lock.  A scan derives gap      *)
(* events from the bundle's compliance report and merges them; an operator        *)
(* answers, invalidates or ages out a gap.  A gap's identity is the digest of the *)
(* commit, or the commit and path, it stands for; here a member of GapIds.        *)
(* Of a record the status, the resolution and last_seen_at are kept; opened_at is *)
(* never changed, and the counters and links only grow when last_seen_at is set.  *)
EXTENDS Integers, Sequences, FiniteSets

CONSTANTS
    Clients,    \* processes that run `kosha gap`
    GapIds,     \* what the bundle's history can be found to lack
    References, \* what an operator may give as a resolution
    Rejected,   \* the references the gap model refuses: too long, or a secret
    Times,      \* what a process's clock may read
    Unset       \* no resolution

ASSUME GapAssumption ==
    /\ Times \subseteq Nat
    /\ Rejected \subseteq References
    /\ Unset \notin References

VARIABLES
    gaps,       \* the file: gap id -> its record
    task        \* client -> the command it is in: the ledger it will save, and
                \* whether the file has changed since it was loaded

gapVars == <<gaps, task>>

Terminal == {"answered", "invalidated", "stale"}
NoTask == [at |-> "idle", write |-> <<>>, stale |-> FALSE]
NewGap(at) == [status |-> "open", seen |-> at, reference |-> Unset]
Later(a, b) == IF a < b THEN b ELSE a
--------------------------------------------------------------------------------
\* load() validates every record; one the model refuses makes the ledger unreadable.
Loads == \A g \in DOMAIN gaps : gaps[g].reference \notin Rejected

\* observe() never changes the status, and refuses to move last_seen_at back.
Observed(gap, at) == [gap EXCEPT !.seen = at]

\* One event that is older than its gap raises, and the whole batch with it.
Mergeable(events, at) == \A g \in events \cap DOMAIN gaps : at >= gaps[g].seen
Merged(events, at) ==
    [g \in DOMAIN gaps \cup events |->
        IF g \notin DOMAIN gaps THEN NewGap(at)
        ELSE IF g \in events THEN Observed(gaps[g], at) ELSE gaps[g]]

\* Fault: a gap that was settled can be settled again.
ResolvableAgain(g) == g \in DOMAIN gaps

\* _resolve and mark_stale: from open only.  The update is copied in without being
\* validated, so a reference the model refuses is stored all the same.
Resolvable(g) == g \in DOMAIN gaps /\ gaps[g].status = "open"
Resolved(g, status, reference, at) ==
    [gaps EXCEPT ![g] = [status |-> status, seen |-> Later(gaps[g].seen, at),
                         reference |-> reference]]
--------------------------------------------------------------------------------
GapInit ==
    /\ gaps = <<>>
    /\ task = [c \in Clients |-> NoTask]

Begin(c, new) == task' = [task EXCEPT ![c] = [at |-> "saving", write |-> new, stale |-> FALSE]]

\* The report says what the history lacks now, any set of gaps, and the file is
\* loaded; the save comes later.
Scan(c) ==
    /\ task[c].at = "idle" /\ Loads
    /\ \E events \in SUBSET GapIds, at \in Times :
         /\ Mergeable(events, at)
         /\ Begin(c, Merged(events, at))
    /\ UNCHANGED gaps

Resolve(c) ==
    /\ task[c].at = "idle" /\ Loads
    /\ \E g \in GapIds, at \in Times :
         /\ Resolvable(g)
         /\ \E r \in [status : {"answered", "invalidated"}, reference : References]
                       \cup [status : {"stale"}, reference : {Unset}] :
              Begin(c, Resolved(g, r.status, r.reference, at))
    /\ UNCHANGED gaps

\* A temporary file and one rename: the whole ledger as this client computed it.
SaveLedger(c) ==
    /\ task[c].at = "saving"
    /\ gaps' = task[c].write
    /\ task' = [d \in Clients |-> IF d = c THEN NoTask
                                  ELSE [task[d] EXCEPT !.stale = @ \/ (task[d].at = "saving" /\ gaps' # gaps)]]

DieUnsaved(c) ==
    /\ task[c].at = "saving"
    /\ task' = [task EXCEPT ![c] = NoTask]
    /\ UNCHANGED gaps

GapNext == \E c \in Clients : Scan(c) \/ Resolve(c) \/ SaveLedger(c) \/ DieUnsaved(c)

GapSpec == GapInit /\ [][GapNext]_gapVars
--------------------------------------------------------------------------------
\* Every record the ledger holds, or a client is about to save, is one the gap
\* model would accept on the next load: a resolution reference exactly when the gap
\* was answered or invalidated.
Record == [status : {"open"} \cup Terminal, seen : Nat, reference : References \cup {Unset}]
WellFormed(ledger) ==
    /\ DOMAIN ledger \subseteq GapIds
    /\ \A g \in DOMAIN ledger :
         /\ ledger[g] \in Record
         /\ ledger[g].reference # Unset <=> ledger[g].status \in {"answered", "invalidated"}
GapTypeOK ==
    /\ WellFormed(gaps)
    /\ \A c \in Clients : WellFormed(task[c].write)

\* What a later ledger keeps of an earlier one: every gap, and a settled gap's
\* status and reference; last_seen_at does not go back.
Keeps(old, new) ==
    \A g \in DOMAIN old :
      /\ g \in DOMAIN new
      /\ new[g].seen >= old[g].seen
      /\ old[g].status # "open" =>
           new[g].status = old[g].status /\ new[g].reference = old[g].reference

\* A client saves over a ledger that changed after it loaded it.
SavesStale == \E c \in Clients : task[c].stale /\ ~task'[c].stale

\* No scan and no command loses a gap, reopens a settled one or takes a resolution
\* back (gaps/model.py: stale and invalidated gaps remain auditable), except that a
\* save without a lock undoes whatever was saved since the client's load.
GapsOnlyGrow == [][SavesStale \/ Keeps(gaps, gaps')]_gapVars

\* gaps/model.py:82-89: resolution references get the same enforced guard as other
\* operator text.  The code stores one unvalidated and no later load succeeds.
LedgerStaysReadable == Loads
================================================================================
