-------------------------------- MODULE McpSource --------------------------------
(* The MCP connector (connectors/mcp.py): a source run calls one tool of one       *)
(* server the operator configured and stages its answer as evidence.  The server   *)
(* may change what it says of the tool at any time, between two runs or within     *)
(* one, and the operator may edit the instance's configuration.                    *)
(* A schema stands for its digest; what the answer says is left out.  Writing the  *)
(* evidence and the bundle is in SourceRun, of which this is one connector.        *)

CONSTANTS
    Schemas,    \* the input schemas the tool may have
    Absent,     \* the server does not offer the tool
    Unpinned    \* the operator pinned no schema

ASSUME McpAssumption == Absent \notin Schemas /\ Unpinned \notin Schemas \cup {Absent}

\* What the server says of the tool: a destructive one is that whatever else it
\* says.  And what the operator wrote in the instance.
NotOffered == [schema |-> Absent, hint |-> "none"]
Offers == {NotOffered} \cup [schema : Schemas, hint : {"none", "read_only", "destructive"}]
Configs == [readable : BOOLEAN, allowed : BOOLEAN, pin : Schemas \cup {Unpinned}]

VARIABLES
    offer,      \* what the server says of the tool now
    config,     \* what the configuration file says now
    call,       \* the run under way: see NoCall
    shown,      \* what the server said since the run under way began
    staged,     \* the last answer staged: see NoAnswer
    honest      \* every answer staged was of a tool that might be called in its run

mcpVars == <<offer, config, call, shown, staged, honest>>

\* with is the configuration the run loaded, listed the offer it listed.
NoCall == [at |-> "idle", with |-> [readable |-> FALSE, allowed |-> FALSE, pin |-> Unpinned], listed |-> NotOffered]
NoAnswer == [listed |-> NotOffered]

McpInit ==
    /\ offer \in Offers /\ config \in Configs
    /\ call = NoCall /\ shown = FALSE /\ staged = NoAnswer /\ honest = TRUE
--------------------------------------------------------------------------------
\* What the operator let a run call: as its documentation has it.
Permits(c, o) ==
    /\ c.allowed /\ o # NotOffered
    /\ o.hint = "read_only" \/ (o.hint = "none" /\ o.schema = c.pin)

\* A limit that is no positive number, pins or arguments that are no JSON object, a
\* variable to forward that is not set: none of it is guessed.
_parse_config(c) == c.readable

\* The instance is loaded once a run, and refused before the server is started when
\* it does not parse or its own allowlist lacks the tool.
load_source_instance ==
    /\ call.at = "idle" /\ _parse_config(config) /\ config.allowed
    /\ call' = [call EXCEPT !.at = "connecting", !.with = config]
    /\ shown' = Permits(config, offer)
    /\ UNCHANGED <<offer, config, staged, honest>>

\* Fault: the listing of the last run is good enough.
ListRemembered ==
    /\ call.at = "connecting"
    /\ \E o \in {offer, staged.listed} : call' = [call EXCEPT !.at = "listed", !.listed = o]
    /\ UNCHANGED <<offer, config, shown, staged, honest>>

ListTools ==
    /\ call.at = "connecting"
    /\ call' = [call EXCEPT !.at = "listed", !.listed = offer]
    /\ UNCHANGED <<offer, config, shown, staged, honest>>

Pinned == call.with.pin = call.listed.schema
_call_tool ==
    /\ call.at = "listed"
    /\ call.listed # NotOffered
    /\ call.listed.hint # "destructive"
    /\ call.listed.hint = "read_only" \/ Pinned
    /\ call' = [call EXCEPT !.at = "called"]
    /\ UNCHANGED <<offer, config, shown, staged, honest>>

\* A tool the run may not call; or, at any time, the timeout, a transport that
\* breaks, an error result, an answer over the limit: nothing is staged.
Abandon ==
    /\ call.at # "idle"
    /\ call' = NoCall /\ shown' = FALSE
    /\ UNCHANGED <<offer, config, staged, honest>>

\* run_mcp_source hands the answer to the ingest.
Stage ==
    /\ call.at = "called"
    /\ staged' = [listed |-> call.listed]
    /\ honest' = (honest /\ shown)
    /\ call' = NoCall /\ shown' = FALSE
    /\ UNCHANGED <<offer, config>>
--------------------------------------------------------------------------------
ServerChanges ==
    /\ offer' \in Offers \ {offer}
    /\ shown' = (shown \/ (call.at # "idle" /\ Permits(call.with, offer')))
    /\ UNCHANGED <<config, call, staged, honest>>

OperatorEdits ==
    /\ config' \in Configs \ {config}
    /\ UNCHANGED <<offer, call, shown, staged, honest>>

McpNext ==
    \/ load_source_instance \/ ListTools \/ _call_tool \/ Abandon \/ Stage
    \/ ServerChanges \/ OperatorEdits

McpSpec == McpInit /\ [][McpNext]_mcpVars
--------------------------------------------------------------------------------
\* Whatever the server says and when, an answer reaches the bundle only if during
\* that very run it offered the tool as not destructive, and as read-only or with
\* the very schema the operator had pinned when the run began: what it said in an
\* earlier run, or what the operator wrote since, authorises nothing
\* (connectors/mcp.py:17-22).
CallsAuthorised == honest
================================================================================
