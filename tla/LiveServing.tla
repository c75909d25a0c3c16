------------------------------- MODULE LiveServing -----------------------------
(***************************************************************************)
(* Live serving: the start-up, refresh and call_tool of BundleRegistry      *)
(* (src/kosha/server/registry.py), driven by HTTP handler threads and by    *)
(* the polling loop of server/watcher.py, while an ingest or a person       *)
(* rewrites the bundles on disk.  The three reads a refresh makes of the    *)
(* disk (hash, load, validate) are separate steps, and so are the two of    *)
(* the start-up; what runs under self._lock is one step.                    *)
(*                                                                          *)
(* Abstractions.  The content of a bundle directory is a number and its     *)
(* revision, the hash of that content, is the same number.  A read sees the *)
(* directory as it is at one instant.  The index is built from the loaded   *)
(* bundle alone, so a registration is what was loaded and its revision.     *)
(***************************************************************************)
EXTENDS Naturals, FiniteSets

CONSTANTS
  Bundles,      \* the bundle ids
  Threads,      \* the threads that call refresh
  Watchers,     \* those that run BundleWatcher's loop; the rest serve HTTP
  Readers,      \* the threads that call call_tool
  Contents,     \* what a bundle directory may hold
  Loadable,     \* the contents load_bundle parses
  Conformant,   \* the contents validate_bundle finds no error in
  Initial,      \* what every bundle holds at the start
  None,         \* Python's None
  QuietStart,   \* is the disk left alone while the server starts?
  MayFail,      \* may hashing and index building raise?
  Reverts,      \* may a directory come to hold what it held before?
  MaxWrites     \* bound: the writes to the disk

Registrations == [content : Contents, revision : Contents]
Answerable == [bundle : Bundles, content : Contents, revision : Contents]
Stages == {"revision", "load", "validate", "index"}
Steps == {"idle", "hashing", "unchanged", "loading", "validating", "indexing",
          "activating", "failing"}

ASSUME ServingAssumption ==
  /\ Watchers \subseteq Threads
  /\ Contents \subseteq Nat
  /\ Initial \in Loadable \cap Contents
  /\ None \notin Nat \cup Bundles \cup Stages \cup Answerable
  /\ QuietStart \in BOOLEAN
  /\ MayFail \in BOOLEAN
  /\ Reverts \in BOOLEAN
  /\ MaxWrites \in Nat

VARIABLES
  disk,        \* the content of each bundle directory
  writes,      \* the number of writes so far
  boot,        \* how far the start-up is with each bundle
  active,      \* registry._active: the registration each bundle serves
  health,      \* registry._health
  errors,      \* registry._errors: the stage that failed
  last,        \* the revision of each bundle's last activation event
  activated,   \* every registration a bundle has served
  at,          \* where each thread is in refresh()
  on,          \* the bundle it refreshes
  seen,        \* the _active it took its current registration from
  candidate,   \* its candidate_revision
  loaded,      \* the bundle it loaded
  stage,       \* the stage its attempt failed at
  todo,        \* the bundles a watcher has yet to poll in this pass
  calls,       \* the registration each reader works on
  answers      \* the last answer it gave

locals == <<at, on, seen, candidate, loaded, stage>>
registry == <<active, health, errors, last, activated>>
vars == <<disk, writes, boot, registry, locals, todo, calls, answers>>

\* A registration served by bundle b.
Served(b, reg) == [bundle |-> b, content |-> reg.content, revision |-> reg.revision]

Loading(c) == [content |-> c, revision |-> c]

Fresh == [b \in Bundles |-> Loading(Initial)]

\* The registry is built, and its threads run.
Up == \A b \in Bundles : boot[b] = "up"

Init ==
  /\ disk = [b \in Bundles |-> Initial]
  /\ writes = 0
  /\ boot = [b \in Bundles |-> "new"]
  /\ active = Fresh
  /\ health = [b \in Bundles |-> "current"]
  /\ errors = [b \in Bundles |-> None]
  /\ last = [b \in Bundles |-> None]
  /\ activated = {}
  /\ at = [t \in Threads |-> "idle"]
  /\ on = [t \in Threads |-> None]
  /\ seen = [t \in Threads |-> Fresh]
  /\ candidate = [t \in Threads |-> Initial]
  /\ loaded = [t \in Threads |-> Initial]
  /\ stage = [t \in Threads |-> None]
  /\ todo = [t \in Watchers |-> Bundles]
  /\ calls = [r \in Readers |-> None]
  /\ answers = [r \in Readers |-> None]

--------------------------------------------------------------------------------
(* The world outside the server: an ingest, a checkout, an editor.          *)

Write(b, c) ==
  /\ writes < MaxWrites
  /\ QuietStart => Up
  /\ IF Reverts THEN c # disk[b] ELSE c > disk[b]
  /\ disk' = [disk EXCEPT ![b] = c]
  /\ writes' = writes + 1
  /\ UNCHANGED <<boot, registry, locals, todo, calls, answers>>

--------------------------------------------------------------------------------
(* The start-up: every bundle is loaded, and then every one is activated.   *)

\* _load_registration.  Nothing validates the bundle here.
StartLoad(b) ==
  /\ boot[b] = "new"
  /\ disk[b] \in Loadable
  /\ boot' = [boot EXCEPT ![b] = "loaded"]
  /\ active' = [active EXCEPT ![b].content = disk[b]]
  /\ UNCHANGED <<disk, writes, health, errors, last, activated, locals, todo, calls, answers>>

\* _activate, called by BundleRegistry(): the directory is hashed by now.
StartActivate(b) ==
  /\ \A a \in Bundles : boot[a] # "new"
  /\ boot[b] = "loaded"
  /\ boot' = [boot EXCEPT ![b] = "up"]
  /\ active' = [active EXCEPT ![b].revision = disk[b]]
  /\ activated' = activated \cup {Served(b, active'[b])}
  /\ UNCHANGED <<disk, writes, health, errors, last, locals, todo, calls, answers>>

--------------------------------------------------------------------------------
(* refresh.                                                                 *)

\* active_registration: the current registration, out of one snapshot.  The
\* watcher takes the bundles of a pass in turn.
Begin(t, b) ==
  /\ Up
  /\ at[t] = "idle"
  /\ t \in Watchers => b \in todo[t]
  /\ todo' = IF t \notin Watchers THEN todo
             ELSE [todo EXCEPT ![t] = IF @ = {b} THEN Bundles ELSE @ \ {b}]
  /\ at' = [at EXCEPT ![t] = "hashing"]
  /\ on' = [on EXCEPT ![t] = b]
  /\ seen' = [seen EXCEPT ![t] = active]
  /\ UNCHANGED <<disk, writes, boot, registry, candidate, loaded, stage, calls, answers>>

\* One step of refresh() that only reads, and where it leads.
Goto(t, from, to) ==
  /\ at[t] = from
  /\ at' = [at EXCEPT ![t] = to]
  /\ UNCHANGED <<disk, writes, boot, registry, on, seen, todo, calls, answers>>

Raise(t, from, s) ==
  /\ Goto(t, from, "failing")
  /\ stage' = [stage EXCEPT ![t] = s]
  /\ UNCHANGED <<candidate, loaded>>

\* compute_bundle_revision, compared with the revision of that registration.
Hash(t) ==
  /\ Goto(t, "hashing",
          IF disk[on[t]] = seen[t][on[t]].revision THEN "unchanged" ELSE "loading")
  /\ candidate' = [candidate EXCEPT ![t] = disk[on[t]]]
  /\ UNCHANGED <<loaded, stage>>

HashFails(t) == MayFail /\ Raise(t, "hashing", "revision")

Load(t) ==
  /\ Goto(t, "loading", "validating")
  /\ disk[on[t]] \in Loadable
  /\ loaded' = [loaded EXCEPT ![t] = disk[on[t]]]
  /\ UNCHANGED <<candidate, stage>>

LoadFails(t) == Raise(t, "loading", "load") /\ disk[on[t]] \notin Loadable

Validate(t) ==
  /\ Goto(t, "validating", "indexing")
  /\ disk[on[t]] \in Conformant
  /\ UNCHANGED <<candidate, loaded, stage>>

ValidateFails(t) == Raise(t, "validating", "validate") /\ disk[on[t]] \notin Conformant

Index(t) ==
  /\ Goto(t, "indexing", "activating")
  /\ UNCHANGED <<candidate, loaded, stage>>

IndexFails(t) == MayFail /\ Raise(t, "indexing", "index")

\* refresh returns, and its locals are gone.
Return(t) ==
  /\ at' = [at EXCEPT ![t] = "idle"]
  /\ on' = [on EXCEPT ![t] = None]
  /\ seen' = [seen EXCEPT ![t] = Fresh]
  /\ candidate' = [candidate EXCEPT ![t] = Initial]
  /\ loaded' = [loaded EXCEPT ![t] = Initial]
  /\ stage' = [stage EXCEPT ![t] = None]
  /\ UNCHANGED <<disk, writes, boot, todo, calls, answers>>

\* Fault: the no-op forgets the error an earlier attempt left behind.
UnchangedQuietly(t) ==
  /\ at[t] = "unchanged"
  /\ health' = [health EXCEPT ![on[t]] = "current"]
  /\ UNCHANGED <<active, errors, last, activated>>
  /\ Return(t)

\* The no-op: the disk holds the revision that is being served.
Unchanged(t) ==
  /\ at[t] = "unchanged"
  /\ health' = [health EXCEPT ![on[t]] = "current"]
  /\ errors' = [errors EXCEPT ![on[t]] = None]
  /\ UNCHANGED <<active, last, activated>>
  /\ Return(t)

\* The swap, the health and the event, of registration reg over base.
Swap(t, base, reg) ==
  /\ at[t] = "activating"
  /\ active' = [base EXCEPT ![on[t]] = reg]
  /\ health' = [health EXCEPT ![on[t]] = "current"]
  /\ errors' = [errors EXCEPT ![on[t]] = None]
  /\ last' = [last EXCEPT ![on[t]] = reg.revision]
  /\ activated' = activated \cup {Served(on[t], reg)}
  /\ Return(t)

Candidate(t) == [content |-> loaded[t], revision |-> candidate[t]]

\* Fault: the dictionary is copied before the lock is taken.
ActivateFromSnapshot(t) == Swap(t, seen[t], Candidate(t))

\* Fault: the revision is hashed anew when the registration is built.
ActivateLabelled(t) == Swap(t, active, [Candidate(t) EXCEPT !.revision = disk[on[t]]])

Activate(t) == Swap(t, active, Candidate(t))

\* _fail: the failure is recorded and the registration left alone.
Fail(t) ==
  /\ at[t] = "failing"
  /\ health' = [health EXCEPT ![on[t]] = "failed"]
  /\ errors' = [errors EXCEPT ![on[t]] = stage[t]]
  /\ UNCHANGED <<active, last, activated>>
  /\ Return(t)

--------------------------------------------------------------------------------
(* call_tool.                                                               *)

Ask(r, b) ==
  /\ Up
  /\ calls[r] = None
  /\ calls' = [calls EXCEPT ![r] = Served(b, active[b])]
  /\ UNCHANGED <<disk, writes, boot, registry, locals, todo, answers>>

\* Fault: the revision is looked up again once the tool has answered.
AnswerLabelled(r) ==
  /\ calls[r] # None
  /\ answers' = [answers EXCEPT ![r] =
                   [calls[r] EXCEPT !.revision = active[calls[r].bundle].revision]]
  /\ calls' = [calls EXCEPT ![r] = None]
  /\ UNCHANGED <<disk, writes, boot, registry, locals, todo>>

\* The answer comes from the service, its revision from the same registration.
Answer(r) ==
  /\ calls[r] # None
  /\ answers' = [answers EXCEPT ![r] = calls[r]]
  /\ calls' = [calls EXCEPT ![r] = None]
  /\ UNCHANGED <<disk, writes, boot, registry, locals, todo>>

--------------------------------------------------------------------------------
Refresh(t) ==
  \/ Hash(t) \/ HashFails(t)
  \/ Load(t) \/ LoadFails(t)
  \/ Validate(t) \/ ValidateFails(t)
  \/ Index(t) \/ IndexFails(t)
  \/ Unchanged(t) \/ Activate(t) \/ Fail(t)

Next ==
  \/ \E b \in Bundles, c \in Contents : Write(b, c)
  \/ \E b \in Bundles : StartLoad(b) \/ StartActivate(b)
  \/ \E t \in Threads, b \in Bundles : Begin(t, b)
  \/ \E t \in Threads : Refresh(t)
  \/ \E r \in Readers, b \in Bundles : Ask(r, b)
  \/ \E r \in Readers : Answer(r)

Spec == Init /\ [][Next]_vars

\* The server starts, a refresh that has begun runs on, and a watcher polls again.
FairSpec ==
  /\ Spec
  /\ WF_vars(\E b \in Bundles : StartLoad(b) \/ StartActivate(b))
  /\ \A t \in Threads : WF_vars(Refresh(t))
  /\ \A t \in Watchers : WF_vars(\E b \in Bundles : Begin(t, b))

--------------------------------------------------------------------------------
TypeOK ==
  /\ disk \in [Bundles -> Contents]
  /\ writes \in 0..MaxWrites
  /\ boot \in [Bundles -> {"new", "loaded", "up"}]
  /\ active \in [Bundles -> Registrations]
  /\ health \in [Bundles -> {"current", "failed"}]
  /\ errors \in [Bundles -> Stages \cup {None}]
  /\ last \in [Bundles -> Contents \cup {None}]
  /\ activated \subseteq Answerable
  /\ at \in [Threads -> Steps]
  /\ on \in [Threads -> Bundles \cup {None}]
  /\ \A t \in Threads : at[t] # "idle" => on[t] \in Bundles
  /\ seen \in [Threads -> [Bundles -> Registrations]]
  /\ candidate \in [Threads -> Contents]
  /\ loaded \in [Threads -> Contents]
  /\ stage \in [Threads -> Stages \cup {None}]
  /\ todo \in [Watchers -> SUBSET Bundles]
  /\ calls \in [Readers -> Answerable \cup {None}]
  /\ answers \in [Readers -> Answerable \cup {None}]

\* The activation history ends in what is served: a bundle's last event names
\* the revision it serves, so no refresh of one bundle undoes the activation of
\* another.
HistoryEndsInServed ==
  \A b \in Bundles : last[b] # None => active[b].revision = last[b]

\* A bundle reports an error exactly while it reports failed health.
HealthExplained == \A b \in Bundles : health[b] = "failed" <=> errors[b] # None

\* The registry's records tell one story: the history names what is served, and a
\* failure is there exactly with its error, whichever refresh came last.
RecordsAgree == HistoryEndsInServed /\ HealthExplained

\* Whatever is activated meanwhile, an answer bears the revision of the
\* registration it came from (registry.py:229-232).
AnswersConsistent ==
  \A r \in Readers : answers[r] # None => answers[r] \in activated

\* Once the disk is left alone the server tells the truth about it for good: it
\* serves what is there, under its own revision, or reports that it cannot.
Settled(b) ==
  \/ active[b] = Loading(disk[b]) /\ health[b] = "current"
  \/ disk[b] \notin Loadable \cap Conformant /\ health[b] = "failed"

ServerCatchesUp == <>[](\A b \in Bundles : Settled(b))

\* When a refresh finds the revision unchanged, the disk holds what the bundle
\* serves (registry.py:269-271: "On-disk content genuinely matches what is being
\* served").
UnchangedMeansServed ==
  [][\A t \in Threads : at[t] = "hashing" /\ at'[t] = "unchanged" =>
       seen[t][on[t]].content = disk[on[t]]]_vars

\* What a refresh activates has passed validation (registry.py:8-11: a refresh
\* "builds a brand-new (bundle, index, service) triple off the active path,
\* validates it, and swaps").
ActivatedIsValid ==
  [][\A b \in Bundles : last'[b] # last[b] => active'[b].content \in Conformant]_vars

\* health_view, whose live check hashes the directory once more.
LiveHealth(b) ==
  IF health[b] = "failed" THEN "failed"
  ELSE IF disk[b] = active[b].revision THEN "current" ELSE "stale"

\* Whoever asks for the health of a bundle is not told "current" while the disk
\* holds something else (registry.py:197-201: it "reports "stale" rather than
\* falsely claiming "current"").
NeverFalselyCurrent ==
  Up => \A b \in Bundles : LiveHealth(b) = "current" => active[b].content = disk[b]
================================================================================
