------------------------------- MODULE AgentReads -------------------------------
(* How agents read a live server: the access label every bundle gets at start-up  *)
(* (cli.py), the traversal tools (mcp/service.py, server/registry.py), the HTTP   *)
(* endpoints over them (server/http.py), the kosha:// resources (mcp/resources.py)*)
(* and the subscriptions to them (mcp/subscriptions.py).  LiveServing models how  *)
(* a bundle is replaced under a running call; here a bundle is what it holds.     *)
EXTENDS Integers, FiniteSets

CONSTANTS
    Sessions,   \* clients connected to the MCP server
    Bundles,    \* bundle directories
    Labels,     \* access labels
    Clearance,  \* the labels the server's one caller holds
    Open,       \* the access of a bundle that was given no label
    Nowhere,    \* an id no bundle has
    ReadIds,    \* concept ids clients ask for
    Has,        \* bundle -> the ids it holds
    Shapes      \* shapes of the bundle resources clients subscribe to

ASSUME ReadAssumption ==
    /\ Open \notin Labels /\ Nowhere \notin Bundles
    /\ Clearance \subseteq Labels
    /\ Has \in [Bundles -> SUBSET ReadIds]
    /\ Shapes \subseteq {"bundle", "index", "concept"}

VARIABLES
    access,     \* bundle -> the label it requires
    subscribed, \* <<uri, session>>
    connected,  \* sessions whose transport works
    notice      \* the notification under way: see NoNotice

readVars == <<access, subscribed, connected, notice>>

BundlesList == [shape |-> "bundles", bundle |-> Nowhere]
Uri == {BundlesList} \cup [shape : Shapes, bundle : Bundles \cup {Nowhere}]
\* todo are the URIs still to be reached, now the sessions still to be sent to at
\* the URI reached; told is what was sent, kept who stayed subscribed and connected
\* since the activation.
NoNotice == [at |-> "idle", bundle |-> Nowhere, todo |-> {}, now |-> {}, told |-> {}, kept |-> {}]
--------------------------------------------------------------------------------
\* `kosha serve`: an entry that names no bundle is refused, and so is a bundle with
\* no label unless the operator allows open bundles.
StartServer ==
    \E entries \in UNION {[named -> Labels] : named \in SUBSET (Bundles \cup {Nowhere})},
       allow_open_bundles \in BOOLEAN :
        /\ DOMAIN entries \subseteq Bundles
        /\ Bundles \subseteq DOMAIN entries \/ allow_open_bundles
        /\ access = [b \in Bundles |-> IF b \in DOMAIN entries THEN entries[b] ELSE Open]

ReadInit ==
    /\ StartServer
    /\ subscribed = {}
    /\ connected = Sessions
    /\ notice = NoNotice

Cleared(b) == access[b] = Open \/ access[b] \in Clearance
authorized_bundle_ids == {b \in Bundles : Cleared(b)}
--------------------------------------------------------------------------------
Tools == {"list_index", "read_frontmatter", "load_concept", "find_concepts",
          "follow_links", "claim_history"}
OfConcept == Tools \ {"list_index", "find_concepts"}
\* What may be wrong with the arguments: one is missing or of another type; the date
\* of load_concept does not parse; claim_history is asked for one claim, whose id is
\* never one of the claims hydrated for this call.
Flaws == {"none", "mistyped", "bad_asof", "one_claim"}

\* Fault: the concept is looked up before the caller's clearance.
AnsweredFirst(q) ==
    IF q.tool \in OfConcept /\ q.concept \notin Has[q.bundle] THEN "not_found"
    ELSE IF ~Cleared(q.bundle) THEN "denied"
    ELSE IF q.tool = "load_concept" /\ q.flaw = "bad_asof" THEN "bad_request"
    ELSE IF q.tool = "claim_history" /\ q.flaw = "one_claim" THEN "not_found" ELSE "ok"

\* The service: clearance first, then the concept, then the rest.
Answered(q) ==
    IF ~Cleared(q.bundle) THEN "denied"
    ELSE IF q.tool \in OfConcept /\ q.concept \notin Has[q.bundle] THEN "not_found"
    ELSE IF q.tool = "load_concept" /\ q.flaw = "bad_asof" THEN "bad_request"
    ELSE IF q.tool = "claim_history" /\ q.flaw = "one_claim" THEN "not_found" ELSE "ok"

\* The arguments are read before the service is asked.
_dispatch(q) == IF q.flaw = "mistyped" THEN "bad_request" ELSE Answered(q)

call_tool(q) ==
    IF q.bundle \notin Bundles \/ q.tool \notin Tools THEN "not_found" ELSE _dispatch(q)

\* GET /bundles, /health and /activations: the bundles the answer tells of, when some
\* have been activated since the start.
handle_get(path, activated) ==
    IF path = "activations" THEN activated \cap authorized_bundle_ids ELSE authorized_bundle_ids

Status == [ok |-> 200, bad_request |-> 400, denied |-> 403, not_found |-> 404]
\* POST /tools/<tool>: the body must be a JSON object that names a bundle.
handle_post(q, named) == IF ~named THEN Status["bad_request"] ELSE Status[call_tool(q)]
\* POST /refresh/<bundle>: a probe of the access, then the refresh.
handle_refresh(b) ==
    IF b \notin Bundles THEN Status["not_found"]
    ELSE IF ~Cleared(b) THEN Status["denied"] ELSE Status["ok"]

require_authorized_bundle(b) == b \in authorized_bundle_ids
\* An unknown bundle and one the caller is not cleared for are the same refusal.
read_resource(uri, id) ==
    IF uri = BundlesList THEN "ok"
    ELSE IF ~require_authorized_bundle(uri.bundle) THEN "no_access"
    ELSE IF uri.shape = "concept"
         THEN call_tool([bundle |-> uri.bundle, tool |-> "load_concept", concept |-> id, flaw |-> "none"])
         ELSE "ok"
--------------------------------------------------------------------------------
authorize_subscription(uri) == uri = BundlesList \/ require_authorized_bundle(uri.bundle)

Subscribe(s, uri) ==
    /\ s \in connected /\ authorize_subscription(uri)
    /\ subscribed' = subscribed \cup {<<uri, s>>}
    /\ UNCHANGED <<access, connected, notice>>

\* When a URI loses its last session its entry is deleted: a notification that has
\* not reached it yet finds the set it remembers empty, whoever comes back.
Drop(gone) ==
    /\ subscribed' = subscribed \ gone
    /\ notice' = [notice EXCEPT
         !.todo = {u \in @ : \E s \in Sessions : <<u, s>> \in subscribed'},
         !.kept = @ \ gone]

Unsubscribe(s, uri) ==
    /\ s \in connected /\ <<uri, s>> \in subscribed
    /\ Drop({<<uri, s>>})
    /\ UNCHANGED <<access, connected>>

\* A session that is gone keeps its subscriptions until somebody discards it.
Disconnect(s) ==
    /\ s \in connected
    /\ connected' = connected \ {s}
    /\ notice' = [notice EXCEPT !.kept = {k \in @ : k[2] # s}]
    /\ UNCHANGED <<access, subscribed>>

discard_session(s) ==
    /\ s \notin connected
    /\ Drop({<<uri, s>> : uri \in Uri} \cap subscribed)
    /\ UNCHANGED <<access, connected>>
--------------------------------------------------------------------------------
is_relevant(uri, b) == uri = BundlesList \/ uri.bundle = b

\* refresh_and_notify, when the refresh succeeds and finds the directory changed since
\* the last one: a refresh through HTTP or the watcher's tells no subscriber, and
\* leaves this one nothing to find.
RefreshAndNotify(b) ==
    /\ notice.at = "idle"
    /\ notice' = [NoNotice EXCEPT
         !.at = "sending", !.bundle = b,
         !.todo = {k[1] : k \in {j \in subscribed : is_relevant(j[1], b)}},
         !.kept = {k \in subscribed : is_relevant(k[1], b) /\ k[2] \in connected}]
    /\ UNCHANGED <<access, subscribed, connected>>

\* The sessions of a URI are taken when the loop reaches it.
ReachUri(uri) ==
    /\ notice.now = {} /\ uri \in notice.todo
    /\ notice' = [notice EXCEPT !.todo = @ \ {uri}, !.now = {k \in subscribed : k[1] = uri}]
    /\ UNCHANGED <<access, subscribed, connected>>

Send(k) ==
    /\ k \in notice.now /\ k[2] \in connected
    /\ notice' = [notice EXCEPT !.now = @ \ {k}, !.told = @ \cup {k}]
    /\ UNCHANGED <<access, subscribed, connected>>

\* Fault: the first session that cannot be told ends the loop over its URI.
RestSkipped(k) == {}
Rest(k) == notice.now \ {k}
SendFails(k) ==
    /\ k \in notice.now /\ k[2] \notin connected
    /\ notice' = [notice EXCEPT !.now = Rest(k)]
    /\ UNCHANGED <<access, subscribed, connected>>

Notified ==
    /\ notice.at = "sending" /\ notice.todo = {} /\ notice.now = {}
    /\ notice' = [notice EXCEPT !.at = "sent"]
    /\ UNCHANGED <<access, subscribed, connected>>

Forget ==
    /\ notice.at = "sent" /\ notice' = NoNotice
    /\ UNCHANGED <<access, subscribed, connected>>

ReadNext ==
    \/ \E s \in Sessions : Disconnect(s) \/ discard_session(s)
                             \/ \E uri \in Uri : Subscribe(s, uri) \/ Unsubscribe(s, uri)
    \/ \E b \in Bundles : RefreshAndNotify(b)
    \/ \E uri \in Uri : ReachUri(uri)
    \/ \E k \in notice.now : Send(k) \/ SendFails(k)
    \/ Notified \/ Forget

ReadSpec == ReadInit /\ [][ReadNext]_readVars
--------------------------------------------------------------------------------
\* When a notification ends, every session that stayed subscribed to a resource of
\* the activated bundle, or to the bundle list, and stayed connected was told, whoever
\* else came, left or broke meanwhile; and nothing was sent about another bundle
\* (mcp/subscriptions.py:78-86).
SubscribersHear ==
    /\ notice.at = "sent" => notice.kept \subseteq notice.told
    /\ \A k \in notice.told : k[1].bundle \in {notice.bundle, Nowhere}

\* No surface is an oracle about a bundle the caller is not cleared for: no tool, no
\* endpoint, no resource and no subscription gives anything of it or names it, a
\* tool's refusal does not depend on what the bundle holds, and the refusal of a
\* resource is the one of a bundle that does not exist (mcp/resources.py:199-208).
AccessHolds ==
    /\ \A b \in Bundles \ authorized_bundle_ids :
         /\ \A q \in [bundle : {b}, tool : Tools, concept : ReadIds, flaw : Flaws], id \in ReadIds :
              /\ handle_post(q, TRUE) # Status["ok"]
              /\ call_tool(q) = call_tool([q EXCEPT !.concept = id])
         /\ handle_refresh(b) # Status["ok"]
         /\ \A path \in {"bundles", "health", "activations"}, activated \in SUBSET Bundles :
              b \notin handle_get(path, activated)
         /\ \A shape \in Shapes, id \in ReadIds :
              read_resource([shape |-> shape, bundle |-> b], id)
                = read_resource([shape |-> shape, bundle |-> Nowhere], id)
    /\ \A k \in subscribed \cup notice.told : k[1] = BundlesList \/ k[1].bundle \in authorized_bundle_ids
================================================================================
