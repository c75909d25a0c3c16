----------------------------- MODULE BundleWatcher -----------------------------
(* The polling watcher of a live server (server/watcher.py) as its owner starts   *)
(* and stops it.  BundleRegistry.refresh, which LiveServing models call by call,  *)
(* is one step here: it activates what is on the disk or changes nothing.  An     *)
(* activation is a number, in the order of the bundle's event log.                *)
EXTENDS Integers, Sequences, FiniteSets

CONSTANTS
    Threads,        \* the polling threads the owner may come to start
    MaxActivations  \* bound: activations of the bundle

ASSUME WatcherAssumption == MaxActivations \in Nat

VARIABLES
    dirty,          \* the directory differs from what is served
    activations,    \* how many activations the bundle's event log holds
    stop,           \* the shared stop event is set
    current,        \* the thread the watcher remembers, if any
    loop,           \* thread -> its place, and the last activation its refresh made
    delivered,      \* thread -> the events it handed to the callback, in order
    orphaned        \* stop() gave up on a thread that was still running

watchVars == <<dirty, activations, stop, current, loop, delivered, orphaned>>

NoThread == {}
NotStarted == [at |-> "new", made |-> 0]
Alive(t) == loop[t].at \in {"waiting", "activated"}
--------------------------------------------------------------------------------
WatchInit ==
    /\ dirty \in BOOLEAN
    /\ activations = 0
    /\ stop = FALSE /\ current = NoThread
    /\ loop = [t \in Threads |-> NotStarted]
    /\ delivered = [t \in Threads |-> <<>>]
    /\ orphaned = FALSE

\* start() is refused while a thread is remembered; it clears the shared event.
StartWatcher ==
    /\ current = NoThread
    /\ \E t \in Threads :
         /\ loop[t].at = "new"
         /\ current' = {t}
         /\ loop' = [loop EXCEPT ![t].at = "waiting"]
    /\ stop' = FALSE
    /\ UNCHANGED <<dirty, activations, delivered, orphaned>>

SetStop ==
    /\ ~stop /\ stop' = TRUE
    /\ UNCHANGED <<dirty, activations, current, loop, delivered, orphaned>>

\* join(timeout=5) returns when the thread is dead or the time is over, and the
\* thread is forgotten either way.
StopReturns ==
    /\ stop /\ current # NoThread
    /\ current' = NoThread
    /\ orphaned' = (orphaned \/ \E t \in current : Alive(t))
    /\ UNCHANGED <<dirty, activations, stop, loop, delivered>>

LoopEnds(t) ==
    /\ loop[t].at = "waiting" /\ stop
    /\ loop' = [loop EXCEPT ![t].at = "ended"]
    /\ UNCHANGED <<dirty, activations, stop, current, delivered, orphaned>>

\* poll_once: refresh; after a change the newest event of the log is read next.
Poll(t) ==
    /\ loop[t].at = "waiting" /\ ~stop
    /\ dirty /\ activations < MaxActivations
    /\ dirty' = FALSE /\ activations' = activations + 1
    /\ loop' = [loop EXCEPT ![t] = [at |-> "activated", made |-> activations + 1]]
    /\ UNCHANGED <<stop, current, delivered, orphaned>>

\* Fault: the event reported is the oldest of the log.
Oldest == 1
\* activation_events(bundle_id)[-1:]: the newest event, whoever made it.
Newest == activations

Callback(t) ==
    /\ loop[t].at = "activated"
    /\ delivered' = [delivered EXCEPT ![t] = Append(@, Newest)]
    /\ loop' = [loop EXCEPT ![t].at = "waiting"]
    /\ UNCHANGED <<dirty, activations, stop, current, orphaned>>

\* The exception leaves the loop and the thread ends.  The watcher still remembers
\* it: start() is refused until somebody calls stop().
CallbackRaises(t) ==
    /\ loop[t].at = "activated"
    /\ loop' = [loop EXCEPT ![t].at = "ended"]
    /\ UNCHANGED <<dirty, activations, stop, current, delivered, orphaned>>

\* A refresh somebody asks for over HTTP; no callback hears of it.
RefreshElsewhere ==
    /\ dirty /\ activations < MaxActivations
    /\ dirty' = FALSE /\ activations' = activations + 1
    /\ UNCHANGED <<stop, current, loop, delivered, orphaned>>

Edit ==
    /\ ~dirty /\ dirty' = TRUE
    /\ UNCHANGED <<activations, stop, current, loop, delivered, orphaned>>

WatchNext ==
    \/ StartWatcher \/ SetStop \/ StopReturns
    \/ \E t \in Threads : LoopEnds(t) \/ Poll(t) \/ Callback(t) \/ CallbackRaises(t)
    \/ RefreshElsewhere \/ Edit

WatchSpec == WatchInit /\ [][WatchNext]_watchVars
--------------------------------------------------------------------------------
Last(s) == s[Len(s)]

\* Unless stop() gave up on a thread, one thread polls at a time.  A thread never
\* hands the callback one event twice or an older one after a newer, though others
\* refresh between its own refresh and its look at the event log; and when it goes
\* on polling, what it activated was reported, as itself or as something newer.
WatcherReports ==
    /\ ~orphaned => Cardinality({t \in Threads : Alive(t)}) <= 1
    /\ \A t \in Threads :
         /\ \A i, j \in DOMAIN delivered[t] : i < j => delivered[t][i] < delivered[t][j]
         /\ loop[t].at = "waiting" /\ loop[t].made > 0 =>
              delivered[t] # <<>> /\ loop[t].made <= Last(delivered[t])
================================================================================
