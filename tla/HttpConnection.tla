----------------------------- MODULE HttpConnection -----------------------------
(* One keep-alive connection to the HTTP server (server/http.py).  A client sends *)
(* requests without waiting for the answers; the server's thread reads the next   *)
(* head from the stream, and of the body what its endpoint reads, and answers.    *)
(* What an endpoint leaves unread is read as the beginning of the next request.   *)
(* What the registry answers is in LiveServing and AgentReads: a request carries  *)
(* the outcome it will have there.                                                *)
EXTENDS Naturals, Sequences

CONSTANTS
    Requests,   \* the requests a client makes: see Shape
    MaxSent     \* bound: requests sent on the connection

Shape ==
    [to : {"get", "refresh", "tool", "other"},    \* the endpoint
     length : {"right", "absent", "garbled"},     \* its Content-Length
     body : BOOLEAN,                              \* whether a body follows the head
     means : {"ok", "denied", "unknown", "bad", "raises"}]

ASSUME RequestsAssumption == Requests \subseteq Shape /\ MaxSent \in Nat

VARIABLES
    sent,       \* the requests sent so far
    owed,       \* the client has sent a head and not yet its body
    stream,     \* what the server has not read: [id, part]
    served,     \* the request the server is in the middle of, 0 if none
    replies,    \* the answers so far: [to, status]
    open        \* neither side has closed the connection

httpVars == <<sent, owed, stream, served, replies, open>>

HttpInit ==
    /\ sent = <<>> /\ owed = FALSE /\ stream = <<>>
    /\ served = 0 /\ replies = <<>> /\ open = TRUE

Piece(id, part) == [id |-> id, part |-> part]
--------------------------------------------------------------------------------
SendHead(r) ==
    /\ open /\ ~owed /\ Len(sent) < MaxSent
    /\ sent' = Append(sent, r)
    /\ stream' = Append(stream, Piece(Len(sent'), "head"))
    /\ owed' = r.body
    /\ UNCHANGED <<served, replies, open>>

SendBody ==
    /\ open /\ owed
    /\ stream' = Append(stream, Piece(Len(sent), "body"))
    /\ owed' = FALSE
    /\ UNCHANGED <<sent, served, replies, open>>

Hangup ==
    /\ open /\ open' = FALSE
    /\ UNCHANGED <<sent, owed, stream, served, replies>>
--------------------------------------------------------------------------------
\* Fault: a refresh leaves its body on the stream.
_drain_bodyNot(r) == FALSE

\* Whether the endpoint reads the body: the read waits until it is there.
_drain_body(r) == r.length = "right" /\ r.body

_read_json_body(r) == r.length = "right" /\ r.body
ReadsBody(r) == CASE r.to = "refresh" -> _drain_body(r)
                  [] r.to = "tool" -> _read_json_body(r)
                  [] OTHER -> FALSE

_handle_get(r) == IF r.means = "unknown" THEN 404 ELSE 200
_handle_refresh(r) == CASE r.means = "unknown" -> 404 [] r.means = "denied" -> 403 [] OTHER -> 200
_handle_post(r) ==
    CASE r.to = "refresh" -> _handle_refresh(r)
      [] r.to = "other" -> 404
      [] r.length # "right" \/ r.means = "bad" -> 400
      [] r.means = "unknown" -> 404
      [] r.means = "denied" -> 403
      [] OTHER -> 200

\* do_GET, do_POST: an exception is logged and answered as a server error.
StatusOf(r) == IF r.means = "raises" THEN 500
             ELSE IF r.to = "get" THEN _handle_get(r) ELSE _handle_post(r)

_send_json(id, status) == replies' = Append(replies, [to |-> id, status |-> status])

\* The next head is read, and answered at once if its endpoint reads no body.
ReadHead ==
    /\ open /\ served = 0 /\ stream # <<>> /\ Head(stream).part = "head"
    /\ LET id == Head(stream).id IN
       IF ReadsBody(sent[id])
       THEN served' = id /\ UNCHANGED replies
       ELSE _send_json(id, StatusOf(sent[id])) /\ UNCHANGED served
    /\ stream' = Tail(stream)
    /\ UNCHANGED <<sent, owed, open>>

ReadBody ==
    /\ open /\ served # 0 /\ stream # <<>>
    /\ _send_json(served, StatusOf(sent[served]))
    /\ served' = 0
    /\ stream' = Tail(stream)
    /\ UNCHANGED <<sent, owed, open>>

\* A body nobody read runs into the head after it: together no request line, or one
\* with a method there is no handler for.  The answer is an error, and closes the
\* connection.  A body that is a request itself is left out.
Misread ==
    /\ open /\ served = 0 /\ Len(stream) > 1 /\ Head(stream).part = "body"
    /\ \E status \in {400, 501} : replies' = Append(replies, [to |-> stream[2].id, status |-> status])
    /\ stream' = <<>>
    /\ open' = FALSE
    /\ UNCHANGED <<sent, owed, served>>

HttpNext ==
    \/ \E r \in Requests : SendHead(r)
    \/ SendBody \/ Hangup \/ ReadHead \/ ReadBody \/ Misread

HttpSpec == HttpInit /\ [][HttpNext]_httpVars
--------------------------------------------------------------------------------
\* The body of every request goes to an endpoint that takes one or says it drops it,
\* with its length.
Framed(r) == r.body => r.to \in {"refresh", "tool"} /\ r.length = "right"

\* The connection stays in step: as long as every request before it was framed, a
\* request is answered in its turn, once, and by what it asked for, whatever was
\* refused before it and however the requests overlap ("unread bytes would otherwise
\* be misparsed as the start of the next pipelined request", server/http.py:166-175).
StaysInStep ==
    \A i \in DOMAIN replies :
      (\A n \in 1..(i - 1) : Framed(sent[n])) => replies[i] = [to |-> i, status |-> StatusOf(sent[i])]

\* server/http.py:169-173: the same for every POST endpoint.  The code breaks it: a
\* POST to an unknown endpoint or tool path, a GET, and a tool call without a length
\* leave their bodies unread.
AlwaysInStep == \A i \in DOMAIN replies : replies[i] = [to |-> i, status |-> StatusOf(sent[i])]
================================================================================
