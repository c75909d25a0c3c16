------------------------------ MODULE ReviewQueue ------------------------------
(* The shared queue of BLOCK-lane changes (approve/queue.py): one JSON list of    *)
(* items, read, changed and rewritten in place under a file lock the system gives *)
(* back when its holder dies.  An ingest queues the blocked paths of its plan,    *)
(* reviewers decide items.  An item's identity is its place in the list, which    *)
(* only ever grows; an item of one source is the path it blocks.                  *)
EXTENDS Integers, Sequences, FiniteSets

CONSTANTS
    Users,      \* ingests and reviewers, each a process of its own
    Paths,      \* <<source, path>> of the changes an ingest may block
    MaxItems,   \* bound: items the queue holds
    MaxRecords  \* bound: decisions recorded on one item

ASSUME QueueAssumption == IsFiniteSet(Paths) /\ MaxItems \in Nat /\ MaxRecords \in Nat

VARIABLES
    items,      \* the list in the file, or the last one if the file is not whole
    whole,      \* the file parses: no process is rewriting it or died doing so
    holder,     \* who holds the lock
    work,       \* user -> the list it read and the one it will write
    told        \* user -> the decision reported to it as recorded, <<item, decision>>

queueVars == <<items, whole, holder, work, told>>

Decisions == {"approve", "reject"}
Nobody == {}
NoWork == [at |-> "idle", read |-> <<>>, write |-> <<>>, says |-> {}]
NewItem(path) == [path |-> path, status |-> "pending", decisions |-> <<>>]

Pending(list) == {list[i].path : i \in {j \in DOMAIN list : list[j].status = "pending"}}
\* The blocked paths in some order; the order of the plan.
InOrder(set) == {s \in [1..Cardinality(set) -> set] : {s[i] : i \in DOMAIN s} = set}
--------------------------------------------------------------------------------
QueueInit ==
    /\ items = <<>> /\ whole = TRUE
    /\ holder = Nobody
    /\ work = [u \in Users |-> NoWork]
    /\ told = {}

\* Fault: the list is read before the lock is taken.
ReadFirst(u) ==
    /\ work[u].at = "idle" /\ whole
    /\ holder' = {u}
    /\ work' = [work EXCEPT ![u] = [NoWork EXCEPT !.at = "locked", !.read = items]]
    /\ UNCHANGED <<items, whole, told>>

\* A list that does not parse raises with the lock given back.
Read(u) ==
    /\ holder = Nobody /\ work[u].at = "idle"
    /\ whole
    /\ holder' = {u}
    /\ work' = [work EXCEPT ![u] = [NoWork EXCEPT !.at = "locked", !.read = items]]
    /\ UNCHANGED <<items, whole, told>>

\* Fault: a path is queued whether or not it waits already.
FreshAll(list, blocked) == blocked
\* A path of this source that still waits is not queued again; a decided one is.
Fresh(list, blocked) == blocked \ Pending(list)

Enqueue(u) ==
    /\ work[u].at = "locked"
    /\ \E blocked \in SUBSET Paths : \E order \in InOrder(Fresh(work[u].read, blocked)) :
         /\ Len(work[u].read) + Len(order) <= MaxItems
         /\ work' = [work EXCEPT ![u].at = "changed",
                         ![u].write = work[u].read \o [i \in DOMAIN order |-> NewItem(order[i])]]
    /\ UNCHANGED <<items, whole, holder, told>>

\* Fault: the new record replaces the earlier ones.
DecidedOnly(item, d) == [item EXCEPT !.status = d, !.decisions = <<d>>]
\* Any reviewer may decide any item, decided or not: the status follows the last
\* record, and the earlier ones stay.
Decided(item, d) == [item EXCEPT !.status = d, !.decisions = Append(item.decisions, d)]

Decide(u) ==
    /\ work[u].at = "locked"
    /\ \E i \in DOMAIN work[u].read, d \in Decisions :
         /\ Len(work[u].read[i].decisions) < MaxRecords
         /\ work' = [work EXCEPT ![u].at = "changed", ![u].says = {<<i, d>>},
                         ![u].write = [work[u].read EXCEPT ![i] = Decided(@, d)]]
    /\ UNCHANGED <<items, whole, holder, told>>

\* An item that is not there: the list is written back as it was read, and then
\* KeyError is raised, when the lock is free again.
UnknownItem(u) ==
    /\ work[u].at = "locked"
    /\ work' = [work EXCEPT ![u].at = "changed", ![u].write = work[u].read]
    /\ UNCHANGED <<items, whole, holder, told>>

\* write_text opens the file for writing, which empties it, and then writes.
Truncate(u) ==
    /\ work[u].at = "changed"
    /\ whole' = FALSE
    /\ work' = [work EXCEPT ![u].at = "writing"]
    /\ UNCHANGED <<items, holder, told>>

WriteAndUnlock(u) ==
    /\ work[u].at = "writing"
    /\ items' = work[u].write /\ whole' = TRUE
    /\ holder' = Nobody
    /\ told' = told \cup work[u].says
    /\ work' = [work EXCEPT ![u] = NoWork]

\* The system gives back the lock of a process that dies, whatever the file is like.
DieHolding(u) ==
    /\ work[u].at # "idle"
    /\ holder' = Nobody
    /\ work' = [work EXCEPT ![u] = NoWork]
    /\ UNCHANGED <<items, whole, told>>

QueueNext ==
    \E u \in Users :
        \/ Read(u) \/ Enqueue(u) \/ Decide(u) \/ UnknownItem(u)
        \/ Truncate(u) \/ WriteAndUnlock(u) \/ DieHolding(u)

QueueSpec == QueueInit /\ [][QueueNext]_queueVars
--------------------------------------------------------------------------------
\* One list extends another: no item goes, moves or loses a recorded decision.
Extends(old, new) ==
    /\ Len(old) <= Len(new)
    /\ \A i \in DOMAIN old :
         /\ new[i].path = old[i].path
         /\ Len(old[i].decisions) <= Len(new[i].decisions)
         /\ \A k \in DOMAIN old[i].decisions : new[i].decisions[k] = old[i].decisions[k]

\* Whoever runs at the same time, the queue only grows: no queued change and no
\* reviewer's decision is lost (approve/queue.py:93).  A process that dies inside
\* the rewrite leaves a file no later call reads, and so none writes either.
QueueOnlyGrows == [][Extends(items, items')]_queueVars

\* A change waits in the queue once, an item's status is its last decision, and a
\* decision a reviewer was told of is in the list.
QueueConsistent ==
    /\ \A i, j \in DOMAIN items :
         items[i].path = items[j].path /\ items[i].status = "pending"
           /\ items[j].status = "pending" => i = j
    /\ \A i \in DOMAIN items :
         items[i].status = IF items[i].decisions = <<>> THEN "pending"
                           ELSE items[i].decisions[Len(items[i].decisions)]
    /\ \A t \in told : \E k \in DOMAIN items[t[1]].decisions : items[t[1]].decisions[k] = t[2]
================================================================================
