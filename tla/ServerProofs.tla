------------------------------ MODULE ServerProofs -----------------------------
(* What agents and tools get to see, for every set of threads, sessions, bundles   *)
(* and schemas: the callbacks of the polling watcher (BundleWatcher), the answers  *)
(* on a keep-alive connection (HttpConnection), what access labels keep apart and  *)
(* subscribers are told (AgentReads), and what Kosha itself asks of somebody       *)
(* else's MCP server (McpSource).                                                  *)
EXTENDS BundleWatcher, HttpConnection, AgentReads, McpSource,
        FiniteSetTheorems, SequenceTheorems, TLAPS

--------------------------------------------------------------------------------
(* The MCP connector.                                                             *)

Places == {"idle", "connecting", "listed", "called"}

McpTypeOK ==
    /\ offer \in Offers /\ config \in Configs
    /\ call \in [at : Places, with : Configs, listed : Offers]
    /\ shown \in BOOLEAN /\ honest \in BOOLEAN

\* Of a run under way: an offer it could be authorised by, now or in its listing,
\* has been seen; and a call is only made of a tool its listing authorises.
SeenNow == call.at # "idle" /\ Permits(call.with, offer) => shown
SeenListed == call.at \in {"listed", "called"} /\ Permits(call.with, call.listed) => shown
CalledPermitted == call.at = "called" => Permits(call.with, call.listed)
LoadedAllows == call.at # "idle" => call.with.allowed

McpInv == McpTypeOK /\ SeenNow /\ SeenListed /\ CalledPermitted /\ LoadedAllows /\ honest
--------------------------------------------------------------------------------
LEMMA McpStarts == McpInit => McpInv
<1> SUFFICES ASSUME McpInit PROVE McpInv OBVIOUS
<1>1. NoCall.with \in Configs /\ NotOffered \in Offers
  BY DEF NoCall, Configs, Offers
<1>2. call.at = "idle" /\ call \in [at : Places, with : Configs, listed : Offers]
  BY <1>1 DEF McpInit, NoCall, Places
<1> QED
  BY <1>2 DEF McpInit, McpInv, McpTypeOK, SeenNow, SeenListed, CalledPermitted, LoadedAllows

LEMMA McpStep == McpInv /\ [McpNext]_mcpVars => McpInv'
<1> SUFFICES ASSUME McpInv, [McpNext]_mcpVars PROVE McpInv' OBVIOUS
<1> USE DEF McpInv, McpTypeOK, SeenNow, SeenListed, CalledPermitted, LoadedAllows, Places
<1>0. NoCall \in [at : Places, with : Configs, listed : Offers] /\ NoCall.at = "idle"
  BY DEF NoCall, Configs, Offers
<1>1. CASE load_source_instance
  <2>1. /\ call' \in [at : Places, with : Configs, listed : Offers]
        /\ call'.at = "connecting" /\ call'.with = config
    BY <1>1 DEF load_source_instance
  <2>2. offer' = offer /\ config' = config /\ honest' /\ call'.with.allowed
    BY <1>1, <2>1 DEF load_source_instance
  <2>3. shown' \in BOOLEAN /\ (Permits(call'.with, offer') => shown')
    BY <1>1, <2>1, <2>2 DEF load_source_instance, Permits
  <2> QED BY <2>1, <2>2, <2>3
<1>2. CASE ListTools
  <2>1. /\ call' \in [at : Places, with : Configs, listed : Offers]
        /\ call'.at = "listed" /\ call'.listed = offer /\ call'.with = call.with
        /\ call.at = "connecting"
    BY <1>2 DEF ListTools
  <2> QED BY <1>2, <2>1 DEF ListTools
<1>3. CASE _call_tool
  <2>1. /\ call' \in [at : Places, with : Configs, listed : Offers]
        /\ call'.at = "called" /\ call'.listed = call.listed /\ call'.with = call.with
        /\ call.at = "listed"
    BY <1>3 DEF _call_tool
  <2>2. Permits(call'.with, call'.listed)
    <3>1. call.listed \in [schema : Schemas, hint : {"none", "read_only", "destructive"}]
      BY <1>3 DEF _call_tool, Offers
    <3> QED BY <1>3, <2>1, <3>1 DEF _call_tool, Permits, Pinned
  <2> QED BY <1>3, <2>1, <2>2 DEF _call_tool
<1>4. CASE Abandon
  BY <1>0, <1>4 DEF Abandon
<1>5. CASE Stage
  <2>1. shown BY <1>5 DEF Stage
  <2> QED BY <1>0, <1>5, <2>1 DEF Stage
<1>6. CASE ServerChanges
  BY <1>6 DEF ServerChanges
<1>7. CASE OperatorEdits
  BY <1>7 DEF OperatorEdits
<1>8. CASE UNCHANGED mcpVars
  BY <1>8 DEF mcpVars, Permits
<1> QED
  BY <1>1, <1>2, <1>3, <1>4, <1>5, <1>6, <1>7, <1>8 DEF McpNext

\* Whatever a server says and when it changes its mind, and however the operator
\* edits the configuration between, no answer is staged in a run in which the tool
\* was not at some moment one the operator's documentation lets a run call.
THEOREM AnswersAreAuthorised == McpSpec => []CallsAuthorised
<1>1. McpInv => CallsAuthorised BY DEF McpInv, CallsAuthorised
<1> QED BY McpStarts, McpStep, <1>1, PTL DEF McpSpec

--------------------------------------------------------------------------------
(* The polling watcher.                                                           *)

Loop == [at : {"new", "waiting", "activated", "ended"}, made : Nat]

WatchTypeOK ==
    /\ dirty \in BOOLEAN /\ activations \in Nat /\ stop \in BOOLEAN /\ orphaned \in BOOLEAN
    /\ current \in SUBSET Threads
    /\ loop \in [Threads -> Loop]
    /\ delivered \in [Threads -> Seq(Nat)]

\* A thread that runs is the one the watcher remembers, unless it was given up.
OneRemembered == \A t, u \in current : t = u
RunsRemembered == ~orphaned => \A t \in Threads : Alive(t) => t \in current

\* What a thread handed over is older than what it is about to hand over, and an
\* activation it made is reported before it polls again.
Reported(t) ==
    /\ loop[t].made <= activations
    /\ loop[t].at = "new" => loop[t].made = 0
    /\ \A i \in DOMAIN delivered[t] :
         /\ delivered[t][i] <= activations
         /\ loop[t].at = "activated" => delivered[t][i] < loop[t].made
         /\ \A j \in DOMAIN delivered[t] : i < j => delivered[t][i] < delivered[t][j]
    /\ loop[t].at = "waiting" /\ loop[t].made > 0 =>
         delivered[t] # <<>> /\ loop[t].made <= Last(delivered[t])

WatchInv ==
    /\ WatchTypeOK /\ OneRemembered /\ RunsRemembered
    /\ \A t \in Threads : Reported(t)

\* A watcher nobody started has nothing to report.
LEMMA WatchStarts == WatchInit => WatchInv
<1> SUFFICES ASSUME WatchInit PROVE WatchInv
  OBVIOUS
<1>1. WatchTypeOK
  BY EmptySeq DEF WatchInit, WatchTypeOK, Loop, NotStarted, NoThread
<1>2. \A t \in Threads : Reported(t)
  BY DEF WatchInit, Reported, NotStarted
<1> QED BY <1>1, <1>2 DEF WatchInit, WatchInv, OneRemembered, RunsRemembered, Alive,
                          NotStarted, NoThread

\* Everything the owner, a thread, the disk or another client does keeps the watcher's
\* reports in order.
LEMMA WatchStep == WatchInv /\ [WatchNext]_watchVars => WatchInv'
<1> SUFFICES ASSUME WatchInv, [WatchNext]_watchVars PROVE WatchInv'
  OBVIOUS
<1>0. WatchTypeOK
  BY DEF WatchInv
<1>1. CASE UNCHANGED watchVars
  BY <1>1 DEF watchVars, WatchInv, WatchTypeOK, OneRemembered, RunsRemembered, Reported, Alive
<1>2. CASE StartWatcher
  <2>1. PICK t \in Threads :
          /\ loop[t].at = "new" /\ current' = {t}
          /\ loop' = [loop EXCEPT ![t].at = "waiting"]
    BY <1>2 DEF StartWatcher
  <2>2. /\ current = {} /\ UNCHANGED <<dirty, activations, delivered, orphaned>> /\ stop' = FALSE
    BY <1>2 DEF StartWatcher, NoThread
  <2>3. /\ loop'[t].at = "waiting" /\ loop'[t].made = loop[t].made /\ loop' \in [Threads -> Loop]
        /\ \A u \in Threads : u # t => loop'[u] = loop[u]
    BY <1>0, <2>1 DEF WatchTypeOK, Loop
  <2>4. loop[t].made = 0
    BY <2>1 DEF WatchInv, Reported
  <2>5. WatchTypeOK'
    BY <1>0, <2>1, <2>2, <2>3 DEF WatchTypeOK
  <2>6. \A u \in Threads : Reported(u)'
    BY <2>2, <2>3, <2>4 DEF WatchInv, Reported
  <2>7. OneRemembered' /\ RunsRemembered'
    BY <2>1, <2>2, <2>3 DEF WatchInv, OneRemembered, RunsRemembered, Alive
  <2> QED BY <2>5, <2>6, <2>7 DEF WatchInv
<1>3. CASE SetStop \/ RefreshElsewhere \/ Edit
  <2>1. /\ activations' \in Nat /\ activations <= activations'
        /\ dirty' \in BOOLEAN /\ stop' \in BOOLEAN
        /\ UNCHANGED <<current, loop, delivered, orphaned>>
    <3>1. CASE SetStop
      BY <1>0, <3>1 DEF SetStop, WatchTypeOK
    <3>2. CASE RefreshElsewhere
      <4>1. /\ activations' = activations + 1 /\ dirty' = FALSE
            /\ UNCHANGED <<stop, current, loop, delivered, orphaned>>
        BY <3>2 DEF RefreshElsewhere
      <4>2. activations \in Nat /\ stop \in BOOLEAN
        BY <1>0 DEF WatchTypeOK
      <4>3. activations' \in Nat /\ activations <= activations'
        BY <4>1, <4>2
      <4> QED BY <4>1, <4>2, <4>3
    <3>3. CASE Edit
      BY <1>0, <3>3 DEF Edit, WatchTypeOK
    <3> QED BY <1>3, <3>1, <3>2, <3>3
  <2>2. \A t \in Threads : loop[t].made \in Nat /\ \A i \in DOMAIN delivered[t] : delivered[t][i] \in Nat
    BY <1>0 DEF WatchTypeOK, Loop
  <2>3. \A t \in Threads : Reported(t)'
    BY <1>0, <2>1, <2>2 DEF WatchInv, Reported, WatchTypeOK
  <2> QED BY <1>0, <2>1, <2>3 DEF WatchInv, WatchTypeOK, OneRemembered, RunsRemembered, Alive
<1>4. CASE StopReturns
  BY <1>0, <1>4 DEF StopReturns, WatchInv, WatchTypeOK, OneRemembered, RunsRemembered, Reported,
                    Alive, NoThread
<1>5. ASSUME NEW t \in Threads, LoopEnds(t) \/ CallbackRaises(t) PROVE WatchInv'
  <2>1. /\ loop' = [loop EXCEPT ![t].at = "ended"]
        /\ UNCHANGED <<dirty, activations, stop, current, delivered, orphaned>>
        /\ Alive(t)
    BY <1>5 DEF LoopEnds, CallbackRaises, Alive
  <2>2. /\ loop'[t].at = "ended" /\ loop'[t].made = loop[t].made /\ loop' \in [Threads -> Loop]
        /\ \A u \in Threads : u # t => loop'[u] = loop[u]
    BY <1>0, <2>1 DEF WatchTypeOK, Loop
  <2>3. \A u \in Threads : Reported(u)'
    BY <2>1, <2>2 DEF WatchInv, Reported
  <2> QED BY <1>0, <2>1, <2>2, <2>3
          DEF WatchInv, WatchTypeOK, OneRemembered, RunsRemembered, Alive
<1>6. ASSUME NEW t \in Threads, Poll(t) PROVE WatchInv'
  <2>1. /\ activations' = activations + 1 /\ dirty' = FALSE /\ loop[t].at = "waiting"
        /\ loop' = [loop EXCEPT ![t] = [at |-> "activated", made |-> activations + 1]]
        /\ UNCHANGED <<stop, current, delivered, orphaned>>
    BY <1>6 DEF Poll
  <2>2. /\ loop'[t].at = "activated" /\ loop'[t].made = activations'
        /\ loop' \in [Threads -> Loop] /\ activations' \in Nat
        /\ \A u \in Threads : u # t => loop'[u] = loop[u]
    BY <1>0, <2>1 DEF WatchTypeOK, Loop
  <2>3. \A u \in Threads : loop[u].made \in Nat /\ \A i \in DOMAIN delivered[u] : delivered[u][i] \in Nat
    BY <1>0 DEF WatchTypeOK, Loop
  <2>4. Reported(t)'
    BY <1>0, <2>1, <2>2, <2>3 DEF WatchInv, Reported, WatchTypeOK
  <2>5. \A u \in Threads : u # t => Reported(u)'
    BY <1>0, <2>1, <2>2, <2>3 DEF WatchInv, Reported, WatchTypeOK
  <2>6. OneRemembered' /\ RunsRemembered'
    BY <2>1, <2>2 DEF WatchInv, OneRemembered, RunsRemembered, Alive
  <2>7. WatchTypeOK'
    BY <1>0, <2>1, <2>2 DEF WatchTypeOK
  <2> QED BY <2>4, <2>5, <2>6, <2>7 DEF WatchInv
<1>7. ASSUME NEW t \in Threads, Callback(t) PROVE WatchInv'
  <2>1. /\ delivered' = [delivered EXCEPT ![t] = Append(delivered[t], activations)]
        /\ loop[t].at = "activated" /\ loop' = [loop EXCEPT ![t].at = "waiting"]
        /\ UNCHANGED <<dirty, activations, stop, current, orphaned>>
    BY <1>7 DEF Callback, Newest
  <2> DEFINE n == Len(delivered[t])
  <2>2. /\ loop'[t].at = "waiting" /\ loop'[t].made = loop[t].made /\ loop' \in [Threads -> Loop]
        /\ \A u \in Threads : u # t => loop'[u] = loop[u]
    BY <1>0, <2>1 DEF WatchTypeOK, Loop
  <2>3. /\ delivered[t] \in Seq(Nat) /\ activations \in Nat /\ n \in Nat
        /\ DOMAIN delivered[t] = 1..n /\ loop[t].made \in Nat
        /\ \A i \in 1..n : delivered[t][i] \in Nat
    BY <1>0, LenProperties DEF WatchTypeOK, Loop
  <2>4. /\ delivered'[t] \in Seq(Nat) /\ Len(delivered'[t]) = n + 1 /\ DOMAIN delivered'[t] = 1..(n + 1)
        /\ \A i \in 1..n : delivered'[t][i] = delivered[t][i]
        /\ delivered'[t][n + 1] = activations
        /\ \A u \in Threads : u # t => delivered'[u] = delivered[u]
    BY <1>0, <2>1, <2>3, AppendProperties, LenProperties DEF WatchTypeOK
  <2>5. WatchTypeOK'
    BY <1>0, <2>1, <2>2, <2>4 DEF WatchTypeOK
  <2>6. \A i \in 1..n : delivered[t][i] < activations
    BY <2>1, <2>3 DEF WatchInv, Reported
  <2>7. Reported(t)'
    <3>1. delivered'[t] # <<>> /\ Last(delivered'[t]) = activations
      BY <2>3, <2>4, EmptySeq DEF Last
    <3> HIDE DEF n
    <3>2. ASSUME NEW i \in 1..(n + 1), NEW j \in 1..(n + 1), i < j
          PROVE  delivered'[t][i] < delivered'[t][j]
      <4>1. i \in 1..n
        BY <2>3, <3>2
      <4>2. CASE j \in 1..n
        BY <2>3, <2>4, <3>2, <4>1, <4>2 DEF WatchInv, Reported
      <4>3. CASE j = n + 1
        BY <2>4, <2>6, <4>1, <4>3
      <4> QED BY <2>3, <4>2, <4>3
    <3>3. ASSUME NEW i \in 1..(n + 1) PROVE delivered'[t][i] <= activations
      <4>1. CASE i \in 1..n
        BY <2>3, <2>4, <2>6, <4>1
      <4>2. CASE i = n + 1
        BY <2>3, <2>4, <4>2
      <4> QED BY <2>3, <4>1, <4>2
    <3>4. loop[t].made <= activations
      BY DEF WatchInv, Reported
    <3> QED BY <2>1, <2>2, <2>4, <3>1, <3>2, <3>3, <3>4 DEF Reported
  <2>8. \A u \in Threads : u # t => Reported(u)'
    BY <2>1, <2>2, <2>4 DEF WatchInv, Reported, Last
  <2>9. OneRemembered' /\ RunsRemembered'
    BY <2>1, <2>2 DEF WatchInv, OneRemembered, RunsRemembered, Alive
  <2> QED BY <2>5, <2>7, <2>8, <2>9 DEF WatchInv
<1> QED BY <1>1, <1>2, <1>3, <1>4, <1>5, <1>6, <1>7 DEF WatchNext

\* However often the owner starts and stops the watcher, and whoever else refreshes
\* the bundle, one thread polls at a time unless one was given up, no callback gets
\* events twice or out of order, and no activation a thread made goes unreported
\* while it polls on.
THEOREM WatcherAlwaysReports == WatchSpec => []WatcherReports
<1>1. WatchInv => WatcherReports
  <2> SUFFICES ASSUME WatchInv PROVE WatcherReports
    OBVIOUS
  <2>1. ASSUME ~orphaned PROVE Cardinality({t \in Threads : Alive(t)}) <= 1
    <3>1. CASE \E x \in Threads : Alive(x)
      <4>1. PICK x \in Threads : Alive(x)
        BY <3>1
      <4>2. {t \in Threads : Alive(t)} = {x}
        BY <2>1, <4>1 DEF WatchInv, OneRemembered, RunsRemembered
      <4>3. Cardinality({x}) = 1
        BY FS_Singleton
      <4> QED BY <4>2, <4>3
    <3>2. CASE ~ \E x \in Threads : Alive(x)
      <4>1. {t \in Threads : Alive(t)} = {}
        BY <3>2
      <4>2. Cardinality({}) = 0
        BY FS_EmptySet
      <4> QED BY <4>1, <4>2
    <3> QED BY <3>1, <3>2
  <2>2. \A t \in Threads : Reported(t)
    BY DEF WatchInv
  <2> QED BY <2>1, <2>2 DEF WatcherReports, Reported
<1> QED BY WatchStarts, WatchStep, <1>1, PTL DEF WatchSpec

--------------------------------------------------------------------------------
(* The keep-alive connection.                                                     *)

Pieces == [id : Nat, part : {"head", "body"}]
HttpTypeOK ==
    /\ sent \in Seq(Shape) /\ owed \in BOOLEAN /\ open \in BOOLEAN
    /\ stream \in Seq(Pieces) /\ served \in 0..Len(sent)
    /\ \A i \in 1..Len(stream) : stream[i].id \in 1..Len(sent)
    /\ replies \in Seq([to : Nat, status : Nat])

\* What a client sends after a piece, of the requests q it makes.
After(p, q) == IF p.part = "head" /\ q[p.id].body THEN Piece(p.id, "body") ELSE Piece(p.id + 1, "head")

\* A stream from the piece a up to, and without, the piece c.
Chained(s, a, c, q) ==
    /\ s = <<>> => a = c
    /\ s # <<>> => s[1] = a /\ After(s[Len(s)], q) = c
    /\ \A i \in 1..(Len(s) - 1) : s[i + 1] = After(s[i], q)

Coming == IF owed THEN Piece(Len(sent), "body") ELSE Piece(Len(sent) + 1, "head")
Awaited == IF served = 0 THEN Piece(Len(replies) + 1, "head") ELSE Piece(served, "body")
Right(i) == replies[i] = [to |-> i, status |-> StatusOf(sent[i])]

\* Every request read so far was framed: all were answered in turn, and the stream
\* holds exactly what the server has not read, in the order it was sent.
InStep ==
    /\ Len(replies) <= Len(sent)
    /\ \A i \in 1..Len(replies) : Right(i)
    /\ served # 0 => served = Len(replies) + 1 /\ ReadsBody(sent[served])
    /\ owed => Len(sent) > 0 /\ sent[Len(sent)].body
    /\ Chained(stream, Awaited, Coming, sent)

\* A request that was not framed was read, and everything up to it answered in turn.
OutOfStep ==
    \E b \in 1..Len(sent) : b <= Len(replies) /\ ~Framed(sent[b]) /\ \A i \in 1..b : Right(i)

HttpInv == HttpTypeOK /\ (InStep \/ OutOfStep)
--------------------------------------------------------------------------------
\* A piece put at the end of a stream is the one that was to come.
LEMMA ChainGrows ==
  ASSUME NEW s \in Seq(Pieces), NEW a \in Pieces, NEW c \in Pieces, NEW q, Chained(s, a, c, q)
  PROVE  Chained(Append(s, c), a, After(c, q), q)
<1> DEFINE t == Append(s, c)
           n == Len(s)
<1>1. /\ n \in Nat /\ t \in Seq(Pieces) /\ Len(t) = n + 1 /\ t[n + 1] = c
      /\ \A i \in 1..n : t[i] = s[i]
  BY AppendProperties, LenProperties
<1>2. t # <<>> /\ (s = <<>> <=> n = 0)
  BY <1>1, EmptySeq
<1>3. t[1] = a
  BY <1>1, <1>2 DEF Chained
<1>4. ASSUME NEW i \in 1..(Len(t) - 1) PROVE t[i + 1] = After(t[i], q)
  <2>1. i \in 1..n
    BY <1>1
  <2>2. CASE i = n
    BY <1>1, <1>2, <2>1, <2>2 DEF Chained
  <2>3. CASE i < n
    <3>1. i + 1 \in 1..n /\ i \in 1..(n - 1)
      BY <1>1, <2>1, <2>3
    <3> QED BY <1>1, <2>1, <3>1 DEF Chained
  <2> QED BY <1>1, <2>1, <2>2, <2>3
<1>5. After(t[Len(t)], q) = After(c, q)
  BY <1>1
<1> HIDE DEF t
<1>6. Chained(t, a, After(c, q), q)
  BY <1>2, <1>3, <1>4, <1>5 DEF Chained
<1> QED BY <1>6 DEF t

\* A stream read begins with the piece that follows.
LEMMA ChainShrinks ==
  ASSUME NEW s \in Seq(Pieces), s # <<>>, NEW a, NEW c, NEW q, Chained(s, a, c, q)
  PROVE  Head(s) = a /\ Chained(Tail(s), After(a, q), c, q)
<1> DEFINE t == Tail(s)
           n == Len(s)
<1>1. /\ n \in Nat /\ n >= 1 /\ t \in Seq(Pieces) /\ Len(t) = n - 1 /\ Head(s) = s[1]
      /\ \A i \in 1..(n - 1) : t[i] = s[i + 1]
  BY HeadTailProperties, LenProperties, EmptySeq
<1>2. t = <<>> <=> n = 1
  <2>1. t = <<>> <=> Len(t) = 0
    BY <1>1, EmptySeq
  <2> HIDE DEF t, n
  <2> QED BY <1>1, <2>1
<1>3. s[1] = a /\ After(s[n], q) = c
  BY DEF Chained
<1>4. ASSUME t # <<>> PROVE t[1] = After(a, q) /\ After(t[Len(t)], q) = c
  <2>1. n > 1 /\ 1 \in 1..(n - 1) /\ n - 1 \in 1..(n - 1)
    BY <1>1, <1>2, <1>4
  <2>2. t[1] = s[1 + 1] /\ t[n - 1] = s[(n - 1) + 1]
    BY <1>1, <2>1
  <2>3. s[1 + 1] = After(s[1], q)
    BY <2>1 DEF Chained
  <2>4. (n - 1) + 1 = n
    BY <1>1
  <2> QED BY <1>1, <1>3, <2>2, <2>3, <2>4
<1>5. ASSUME NEW i \in 1..(Len(t) - 1) PROVE t[i + 1] = After(t[i], q)
  <2>1. i \in 1..(n - 1) /\ i + 1 \in 1..(n - 1)
    BY <1>1
  <2>2. t[i] = s[i + 1] /\ t[i + 1] = s[(i + 1) + 1]
    BY <1>1, <2>1
  <2>3. s[(i + 1) + 1] = After(s[i + 1], q)
    BY <2>1 DEF Chained
  <2> QED BY <2>2, <2>3
<1>6. t = <<>> => After(a, q) = c
  BY <1>1, <1>2, <1>3
<1> HIDE DEF t
<1>7. Chained(t, After(a, q), c, q)
  BY <1>4, <1>5, <1>6 DEF Chained
<1> QED BY <1>1, <1>3, <1>7 DEF t

\* A request that comes after them changes nothing in a stream of earlier ones.
LEMMA ChainKept ==
  ASSUME NEW s \in Seq(Pieces), NEW a, NEW c, NEW q \in Seq(Shape), NEW r \in Shape,
         \A i \in 1..Len(s) : s[i].id \in 1..Len(q), Chained(s, a, c, q)
  PROVE  Chained(s, a, c, Append(q, r))
<1>1. \A i \in 1..Len(q) : Append(q, r)[i] = q[i]
  BY AppendProperties, LenProperties
<1>2. \A i \in 1..Len(s) : After(s[i], Append(q, r)) = After(s[i], q)
  BY <1>1 DEF After
<1>3. s # <<>> => Len(s) \in 1..Len(s)
  BY LenProperties, EmptySeq
<1>4. \A i \in 1..(Len(s) - 1) : i \in 1..Len(s)
  BY LenProperties
<1> QED BY <1>2, <1>3, <1>4 DEF Chained

\* A request that reads its body is framed, and one framed that does not has none.
LEMMA FramedRead ==
  ASSUME NEW r \in Shape
  PROVE  /\ ReadsBody(r) => r.body /\ Framed(r)
         /\ Framed(r) /\ ~ReadsBody(r) => ~r.body
         /\ StatusOf(r) \in Nat
<1>1. ReadsBody(r) <=> r.to \in {"refresh", "tool"} /\ r.length = "right" /\ r.body
  BY DEF ReadsBody, _drain_body, _read_json_body, Shape
<1>2. StatusOf(r) \in Nat
  BY DEF StatusOf, _handle_get, _handle_post, _handle_refresh
<1> QED BY <1>1, <1>2 DEF Framed, Shape

\* What an answer leaves: the earlier answers, and one more.
LEMMA AnswerAdded ==
  ASSUME HttpTypeOK, NEW id \in Nat, NEW s \in Nat,
         replies' = Append(replies, [to |-> id, status |-> s]), sent' = sent
  PROVE  /\ replies' \in Seq([to : Nat, status : Nat])
         /\ Len(replies') = Len(replies) + 1
         /\ \A i \in 1..Len(replies) : replies'[i] = replies[i]
         /\ replies'[Len(replies')] = [to |-> id, status |-> s]
         /\ OutOfStep => OutOfStep'
<1>1. replies \in Seq([to : Nat, status : Nat]) /\ [to |-> id, status |-> s] \in [to : Nat, status : Nat]
  BY DEF HttpTypeOK
<1>2. /\ replies' \in Seq([to : Nat, status : Nat]) /\ Len(replies') = Len(replies) + 1
      /\ \A i \in 1..Len(replies) : replies'[i] = replies[i]
      /\ replies'[Len(replies')] = [to |-> id, status |-> s] /\ Len(replies) \in Nat
  BY <1>1, AppendProperties, LenProperties
<1>3. OutOfStep => OutOfStep'
  <2> SUFFICES ASSUME OutOfStep PROVE OutOfStep'
    OBVIOUS
  <2>1. PICK b \in 1..Len(sent) :
          b <= Len(replies) /\ ~Framed(sent[b]) /\ \A i \in 1..b : Right(i)
    BY DEF OutOfStep
  <2>2. \A i \in 1..b : i \in 1..Len(replies)
    BY <1>2, <2>1
  <2>3. \A i \in 1..b : Right(i)'
    BY <1>2, <2>1, <2>2 DEF Right
  <2>4. b <= Len(replies') /\ b \in 1..Len(sent') /\ ~Framed(sent'[b])
    BY <1>2, <2>1
  <2> QED BY <2>3, <2>4 DEF OutOfStep
<1> QED BY <1>2, <1>3

LEMMA HttpStarts == HttpInit => HttpInv
<1> SUFFICES ASSUME HttpInit PROVE HttpInv
  OBVIOUS
<1>1. Len(sent) = 0 /\ Len(replies) = 0 /\ Len(stream) = 0
  BY EmptySeq DEF HttpInit
<1>2. HttpTypeOK
  <2>1. \A S : <<>> \in Seq(S)
    BY EmptySeq
  <2>2. sent \in Seq(Shape) /\ stream \in Seq(Pieces) /\ replies \in Seq([to : Nat, status : Nat])
    BY <2>1 DEF HttpInit
  <2>3. \A i \in 1..Len(stream) : stream[i].id \in 1..Len(sent)
    BY <1>1
  <2>4. owed = FALSE /\ open = TRUE /\ served = 0 /\ 0 \in 0..Len(sent)
    BY <1>1 DEF HttpInit
  <2> QED BY <2>2, <2>3, <2>4 DEF HttpTypeOK
<1>3. InStep
  BY <1>1 DEF HttpInit, InStep, Chained, Awaited, Coming
<1> QED BY <1>2, <1>3 DEF HttpInv

\* A client sends a head.
LEMMA HeadSent == HttpInv /\ (\E r \in Requests : SendHead(r)) => HttpInv'
<1> SUFFICES ASSUME HttpInv, NEW r \in Requests, SendHead(r) PROVE HttpInv'
  OBVIOUS
<1> DEFINE n == Len(sent)
           p == Piece(n + 1, "head")
<1>0. HttpTypeOK /\ r \in Shape
  BY RequestsAssumption DEF HttpInv
<1>1. /\ n \in Nat /\ sent' \in Seq(Shape) /\ Len(sent') = n + 1 /\ sent'[n + 1] = r
      /\ \A i \in 1..n : sent'[i] = sent[i]
  BY <1>0, AppendProperties, LenProperties DEF SendHead, HttpTypeOK
<1>2. /\ ~owed /\ owed' = r.body /\ stream' = Append(stream, p) /\ sent' = Append(sent, r)
      /\ UNCHANGED <<served, replies, open>>
  BY <1>1 DEF SendHead
<1>3. p \in Pieces /\ p.id = n + 1 /\ p.part = "head"
  BY <1>1 DEF Piece, Pieces
<1>4. /\ stream' \in Seq(Pieces) /\ Len(stream') = Len(stream) + 1 /\ Len(stream) \in Nat
      /\ \A i \in 1..Len(stream) : stream'[i] = stream[i]
      /\ stream'[Len(stream) + 1] = p
  BY <1>0, <1>2, <1>3, AppendProperties, LenProperties DEF HttpTypeOK
<1>5. HttpTypeOK'
  <2>1. \A i \in 1..Len(stream') : stream'[i].id \in 1..Len(sent')
    <3> TAKE i \in 1..Len(stream')
    <3>1. CASE i \in 1..Len(stream)
      <4>1. stream[i].id \in 1..n
        BY <1>0, <3>1 DEF HttpTypeOK
      <4> HIDE DEF n, p
      <4> QED BY <1>1, <1>4, <3>1, <4>1
    <3>2. CASE i = Len(stream) + 1
      BY <1>1, <1>3, <1>4, <3>2
    <3> QED BY <1>4, <3>1, <3>2
  <2>2. served' \in 0..Len(sent')
    BY <1>0, <1>1, <1>2 DEF HttpTypeOK
  <2>3. owed' \in BOOLEAN
    BY <1>0, <1>2 DEF Shape
  <2> HIDE DEF n, p
  <2> QED BY <1>0, <1>1, <1>2, <1>4, <2>1, <2>2, <2>3 DEF HttpTypeOK
<1>6. CASE InStep
  <2>1. Coming = p
    BY <1>2 DEF Coming
  <2>2. Awaited \in Pieces /\ Awaited' = Awaited
    BY <1>0, <1>2, LenProperties DEF Awaited, Piece, Pieces, HttpTypeOK
  <2>3. Chained(stream, Awaited, p, sent')
    BY <1>0, <1>2, <1>6, <2>1, ChainKept DEF InStep, HttpTypeOK
  <2>4. Chained(stream', Awaited, After(p, sent'), sent')
    BY <1>0, <1>2, <1>3, <2>2, <2>3, ChainGrows DEF HttpTypeOK
  <2>5. Coming' = After(p, sent')
    BY <1>0, <1>1, <1>2, <1>3 DEF Coming, After, Shape
  <2>6. Len(replies) \in Nat /\ \A i \in 1..Len(replies) : Right(i)'
    BY <1>0, <1>1, <1>2, <1>6, LenProperties DEF InStep, Right, HttpTypeOK
  <2>7. served # 0 => sent'[served] = sent[served]
    BY <1>0, <1>1 DEF HttpTypeOK
  <2>8. owed' => Len(sent') > 0 /\ sent'[Len(sent')].body
    BY <1>1, <1>2
  <2>9. Len(replies') <= Len(sent')
    BY <1>1, <1>2, <1>6, <2>6 DEF InStep
  <2> HIDE DEF n, p
  <2>10. InStep'
    BY <1>2, <1>6, <2>2, <2>4, <2>5, <2>6, <2>7, <2>8, <2>9 DEF InStep
  <2> QED BY <1>5, <2>10 DEF HttpInv
<1>7. CASE OutOfStep
  <2>1. PICK b \in 1..n : b <= Len(replies) /\ ~Framed(sent[b]) /\ \A i \in 1..b : Right(i)
    BY <1>7 DEF OutOfStep
  <2>2. b \in 1..Len(sent') /\ ~Framed(sent'[b]) /\ b <= Len(replies')
    BY <1>1, <1>2, <2>1
  <2>3. \A i \in 1..b : Right(i)'
    <3> TAKE i \in 1..b
    <3>1. i \in 1..n
      BY <1>1, <2>1
    <3> HIDE DEF n, p
    <3> QED BY <1>1, <1>2, <2>1, <3>1 DEF Right
  <2>4. OutOfStep'
    BY <2>2, <2>3 DEF OutOfStep
  <2> QED BY <1>5, <2>4 DEF HttpInv
<1> QED BY <1>6, <1>7 DEF HttpInv

\* A client sends the body it owes.
LEMMA BodySent == HttpInv /\ SendBody => HttpInv'
<1> SUFFICES ASSUME HttpInv, SendBody PROVE HttpInv'
  OBVIOUS
<1> DEFINE p == Piece(Len(sent), "body")
<1>1. /\ owed /\ ~owed' /\ owed' \in BOOLEAN /\ stream' = Append(stream, p)
      /\ UNCHANGED <<sent, served, replies, open>>
  BY DEF SendBody
<1>2. HttpTypeOK /\ Len(sent) \in Nat /\ p \in Pieces /\ p.id = Len(sent) /\ p.part = "body"
  BY LenProperties DEF HttpInv, HttpTypeOK, Piece, Pieces
<1>3. /\ stream' \in Seq(Pieces) /\ Len(stream') = Len(stream) + 1 /\ Len(stream) \in Nat
      /\ \A i \in 1..Len(stream) : stream'[i] = stream[i]
      /\ stream'[Len(stream) + 1] = p
  BY <1>1, <1>2, AppendProperties, LenProperties DEF HttpTypeOK
<1>4. OutOfStep => OutOfStep'
  BY <1>1 DEF OutOfStep, Right
<1>5. CASE Len(sent) > 0
  <2>1. \A i \in 1..Len(stream') : stream'[i].id \in 1..Len(sent')
    <3> TAKE i \in 1..Len(stream')
    <3>1. CASE i \in 1..Len(stream)
      BY <1>1, <1>2, <1>3, <3>1 DEF HttpTypeOK
    <3>2. CASE i = Len(stream) + 1
      BY <1>1, <1>2, <1>3, <1>5, <3>2
    <3> QED BY <1>3, <3>1, <3>2
  <2> HIDE DEF p
  <2>2. HttpTypeOK'
    BY <1>1, <1>2, <1>3, <2>1 DEF HttpTypeOK
  <2>3. ASSUME InStep PROVE InStep'
    <3>1. Coming = p /\ Coming' = Piece(Len(sent) + 1, "head")
      BY <1>1 DEF Coming, p
    <3>2. After(p, sent) = Coming'
      BY <1>2, <3>1 DEF After
    <3>3. Awaited \in Pieces /\ Awaited' = Awaited
      BY <1>1, <1>2, LenProperties DEF Awaited, Piece, Pieces, HttpTypeOK
    <3>4. Chained(stream', Awaited', Coming', sent')
      BY <1>1, <1>2, <2>3, <3>1, <3>2, <3>3, ChainGrows DEF InStep, HttpTypeOK
    <3> QED BY <1>1, <2>3, <3>4 DEF InStep, Right
  <2> QED BY <1>4, <2>2, <2>3 DEF HttpInv
<1>6. CASE ~(Len(sent) > 0)
  BY <1>1, <1>2, <1>6 DEF HttpInv, InStep, OutOfStep
<1> QED BY <1>5, <1>6

\* The server reads a head, and answers a request that is all there.
LEMMA HeadRead == HttpInv /\ ReadHead => HttpInv'
<1> SUFFICES ASSUME HttpInv, ReadHead PROVE HttpInv'
  OBVIOUS
<1> DEFINE id == Head(stream).id
           r == sent[id]
           k == Len(replies)
<1>0. HttpTypeOK /\ k \in Nat /\ Len(sent) \in Nat /\ Len(stream) \in Nat
  BY LenProperties DEF HttpInv, HttpTypeOK
<1>1. /\ served = 0 /\ stream # <<>> /\ Head(stream).part = "head" /\ stream' = Tail(stream)
      /\ UNCHANGED <<sent, owed, open>>
  BY DEF ReadHead
<1>2. IF ReadsBody(r)
      THEN served' = id /\ UNCHANGED replies
      ELSE _send_json(id, StatusOf(r)) /\ UNCHANGED served
  BY DEF ReadHead
<1>3. /\ stream' \in Seq(Pieces) /\ Len(stream') = Len(stream) - 1 /\ Head(stream) = stream[1]
      /\ \A i \in 1..Len(stream') : stream'[i] = stream[i + 1]
      /\ Len(stream) >= 1
  BY <1>0, <1>1, HeadTailProperties, EmptySeq DEF HttpTypeOK
<1>4. id \in 1..Len(sent) /\ r \in Shape
  BY <1>0, <1>3 DEF HttpTypeOK
<1>5. \A i \in 1..Len(stream') : stream'[i].id \in 1..Len(sent')
  BY <1>0, <1>1, <1>3 DEF HttpTypeOK
<1>6. StatusOf(r) \in Nat /\ (ReadsBody(r) => r.body /\ Framed(r))
      /\ (Framed(r) /\ ~ReadsBody(r) => ~r.body)
  BY <1>4, FramedRead
<1>7. CASE ReadsBody(r)
  <2>1. served' = id /\ replies' = replies
    BY <1>2, <1>7
  <2>2. HttpTypeOK'
    BY <1>0, <1>1, <1>3, <1>4, <1>5, <2>1 DEF HttpTypeOK
  <2>3. OutOfStep => OutOfStep'
    BY <1>1, <2>1 DEF OutOfStep, Right
  <2>4. ASSUME InStep PROVE InStep'
    <3>1. Head(stream) = Piece(k + 1, "head") /\ Chained(stream', After(Head(stream), sent), Coming, sent)
      BY <1>0, <1>1, <2>4, ChainShrinks DEF InStep, HttpTypeOK, Awaited
    <3>2. id = k + 1
      BY <3>1 DEF Piece
    <3>3. Awaited' = After(Head(stream), sent)
      BY <1>1, <1>4, <1>6, <1>7, <2>1, <3>1, <3>2 DEF Awaited, After, Piece
    <3>4. Coming' = Coming
      BY <1>1 DEF Coming
    <3> HIDE DEF id, r, k
    <3>5. served' = Len(replies') + 1 /\ ReadsBody(sent'[served'])
      BY <1>1, <1>7, <2>1, <3>2 DEF r, k
    <3> QED BY <1>1, <2>1, <2>4, <3>1, <3>3, <3>4, <3>5 DEF InStep, Right
  <2> QED BY <2>2, <2>3, <2>4 DEF HttpInv
<1>8. CASE ~ReadsBody(r)
  <2>1. served' = 0 /\ replies' = Append(replies, [to |-> id, status |-> StatusOf(r)])
    BY <1>1, <1>2, <1>8 DEF _send_json
  <2>2. id \in Nat /\ sent' = sent
    BY <1>1, <1>4
  <2>3. /\ replies' \in Seq([to : Nat, status : Nat]) /\ Len(replies') = k + 1
        /\ \A i \in 1..k : replies'[i] = replies[i]
        /\ replies'[k + 1] = [to |-> id, status |-> StatusOf(r)]
        /\ OutOfStep => OutOfStep'
    BY <1>0, <1>6, <2>1, <2>2, AnswerAdded
  <2>4. HttpTypeOK'
    BY <1>0, <1>1, <1>3, <1>5, <2>1, <2>3 DEF HttpTypeOK
  <2>5. ASSUME InStep PROVE InStep' \/ OutOfStep'
    <3>1. Head(stream) = Piece(k + 1, "head") /\ Chained(stream', After(Head(stream), sent), Coming, sent)
      BY <1>0, <1>1, <2>5, ChainShrinks DEF InStep, HttpTypeOK, Awaited
    <3>2. id = k + 1
      BY <3>1 DEF Piece
    <3>3. \A i \in 1..(k + 1) : Right(i)'
      <4>1. \A i \in 1..k : Right(i)'
        BY <2>2, <2>3, <2>5 DEF InStep, Right
      <4>2. \A i \in 1..(k + 1) : i = k + 1 => Right(i)'
        BY <2>2, <2>3, <3>2 DEF Right
      <4> HIDE DEF k
      <4>3. \A i \in 1..(k + 1) : i \in 1..k \/ i = k + 1
        BY <1>0
      <4> QED BY <4>1, <4>2, <4>3
    <3>4. CASE Framed(r)
      <4>1. Awaited' = After(Head(stream), sent)
        <5>1. ~r.body
          BY <1>6, <1>8, <3>4
        <5>2. Awaited' = Piece(k + 1 + 1, "head")
          BY <2>1, <2>3 DEF Awaited
        <5>3. After(Head(stream), sent) = Piece(id + 1, "head")
          BY <5>1 DEF After
        <5> HIDE DEF id, k
        <5> QED BY <3>2, <5>2, <5>3
      <4>2. Coming' = Coming
        BY <1>1 DEF Coming
      <4>3. Len(replies') <= Len(sent')
        BY <1>4, <2>2, <2>3, <3>2
      <4> HIDE DEF id, r, k
      <4>4. InStep'
        BY <1>1, <2>1, <2>3, <2>5, <3>1, <3>3, <4>1, <4>2, <4>3 DEF InStep
      <4> QED BY <4>4
    <3>5. CASE ~Framed(r)
      <4>1. ~Framed(sent'[k + 1]) /\ k + 1 \in 1..Len(sent') /\ k + 1 <= Len(replies')
        BY <1>0, <1>4, <2>2, <2>3, <3>2, <3>5
      <4> HIDE DEF id, r, k
      <4>2. OutOfStep'
        BY <3>3, <4>1 DEF OutOfStep
      <4> QED BY <4>2
    <3> QED BY <3>4, <3>5
  <2> QED BY <2>3, <2>4, <2>5 DEF HttpInv
<1> QED BY <1>7, <1>8

\* The server reads the body of the request it is in the middle of, and answers.
LEMMA BodyRead == HttpInv /\ ReadBody => HttpInv'
<1> SUFFICES ASSUME HttpInv, ReadBody PROVE HttpInv'
  OBVIOUS
<1> DEFINE k == Len(replies)
<1>0. HttpTypeOK /\ k \in Nat /\ Len(sent) \in Nat /\ Len(stream) \in Nat
  BY LenProperties DEF HttpInv, HttpTypeOK
<1>1. /\ served # 0 /\ served' = 0 /\ stream # <<>> /\ stream' = Tail(stream)
      /\ UNCHANGED <<sent, owed, open>>
      /\ replies' = Append(replies, [to |-> served, status |-> StatusOf(sent[served])])
  BY DEF ReadBody, _send_json
<1>2. served \in 1..Len(sent) /\ served \in Nat /\ sent[served] \in Shape
  BY <1>0, <1>1 DEF HttpTypeOK
<1>3. /\ stream' \in Seq(Pieces) /\ Len(stream') = Len(stream) - 1 /\ Head(stream) = stream[1]
      /\ \A i \in 1..Len(stream') : stream'[i] = stream[i + 1]
      /\ Len(stream) >= 1
  BY <1>0, <1>1, HeadTailProperties, EmptySeq DEF HttpTypeOK
<1>4. StatusOf(sent[served]) \in Nat
  BY <1>2, FramedRead
<1>5. /\ replies' \in Seq([to : Nat, status : Nat]) /\ Len(replies') = k + 1
      /\ \A i \in 1..k : replies'[i] = replies[i]
      /\ replies'[k + 1] = [to |-> served, status |-> StatusOf(sent[served])]
      /\ OutOfStep => OutOfStep'
  BY <1>0, <1>1, <1>2, <1>4, AnswerAdded
<1>6. HttpTypeOK'
  BY <1>0, <1>1, <1>3, <1>5 DEF HttpTypeOK
<1>7. ASSUME InStep PROVE InStep'
  <2>1. served = k + 1
    BY <1>1, <1>7 DEF InStep
  <2>2. Head(stream) = Piece(served, "body") /\ Chained(stream', After(Head(stream), sent), Coming, sent)
    BY <1>0, <1>1, <1>7, ChainShrinks DEF InStep, HttpTypeOK, Awaited
  <2>3. Awaited' = After(Head(stream), sent)
    <3>1. Awaited' = Piece(k + 1 + 1, "head")
      BY <1>1, <1>5 DEF Awaited
    <3>2. After(Head(stream), sent) = Piece(served + 1, "head")
      BY <2>2 DEF After, Piece
    <3> HIDE DEF k
    <3> QED BY <2>1, <3>1, <3>2
  <2>4. \A i \in 1..(k + 1) : Right(i)'
    <3>1. \A i \in 1..k : Right(i)'
      BY <1>1, <1>5, <1>7 DEF InStep, Right
    <3>2. \A i \in 1..(k + 1) : i = k + 1 => Right(i)'
      BY <1>1, <1>5, <2>1 DEF Right
    <3> HIDE DEF k
    <3>3. \A i \in 1..(k + 1) : i \in 1..k \/ i = k + 1
      BY <1>0
    <3> QED BY <3>1, <3>2, <3>3
  <2>5. Coming' = Coming /\ Len(replies') <= Len(sent')
    BY <1>1, <1>2, <1>5, <2>1 DEF Coming
  <2> HIDE DEF k
  <2> QED BY <1>1, <1>5, <1>7, <2>2, <2>3, <2>4, <2>5 DEF InStep
<1> QED BY <1>5, <1>6, <1>7 DEF HttpInv

\* What is read of two requests at once is read out of step already.
LEMMA Misreading == HttpInv /\ Misread => HttpInv'
<1> SUFFICES ASSUME HttpInv, Misread PROVE HttpInv'
  OBVIOUS
<1>0. HttpTypeOK /\ Len(stream) \in Nat
  BY LenProperties DEF HttpInv, HttpTypeOK
<1>1. /\ served = 0 /\ Len(stream) > 1 /\ Head(stream).part = "body"
      /\ \E status \in {400, 501} : replies' = Append(replies, [to |-> stream[2].id, status |-> status])
      /\ stream' = <<>> /\ open' = FALSE /\ UNCHANGED <<sent, owed, served>>
  BY DEF Misread
<1>2. OutOfStep
  <2> SUFFICES ASSUME InStep PROVE FALSE
    BY DEF HttpInv
  <2>1. stream # <<>>
    BY <1>0, <1>1, EmptySeq DEF HttpTypeOK
  <2>2. Head(stream) = Piece(Len(replies) + 1, "head")
    BY <1>0, <1>1, <2>1, ChainShrinks DEF InStep, HttpTypeOK, Awaited
  <2> QED BY <1>1, <2>2 DEF Piece
<1>3. stream[2].id \in Nat
  BY <1>0, <1>1 DEF HttpTypeOK
<1>4. replies' \in Seq([to : Nat, status : Nat]) /\ OutOfStep'
  <2>1. PICK status \in {400, 501} : replies' = Append(replies, [to |-> stream[2].id, status |-> status])
    BY <1>1
  <2>2. status \in Nat
    BY <2>1
  <2> QED BY <1>0, <1>1, <1>2, <1>3, <2>1, <2>2, AnswerAdded
<1>5. stream' \in Seq(Pieces) /\ Len(stream') = 0
  BY <1>1, EmptySeq
<1>6. HttpTypeOK'
  <2>1. \A i \in 1..Len(stream') : stream'[i].id \in 1..Len(sent')
    BY <1>5
  <2>2. sent' \in Seq(Shape) /\ owed' \in BOOLEAN /\ open' \in BOOLEAN /\ served' \in 0..Len(sent')
    BY <1>0, <1>1 DEF HttpTypeOK
  <2> QED BY <1>4, <1>5, <2>1, <2>2 DEF HttpTypeOK
<1> QED BY <1>4, <1>6 DEF HttpInv

\* Whatever a client asks for and however its requests overlap: the server answers
\* them in turn, once, each by its own outcome, up to the first that was not framed.
THEOREM ConnectionStaysInStep == HttpSpec => []StaysInStep
<1>1. HttpInv /\ [HttpNext]_httpVars => HttpInv'
  <2> SUFFICES ASSUME HttpInv, [HttpNext]_httpVars PROVE HttpInv'
    OBVIOUS
  <2>1. CASE Hangup
    BY <2>1 DEF Hangup, HttpInv, HttpTypeOK, InStep, OutOfStep, Awaited, Coming, Right
  <2>2. CASE UNCHANGED httpVars
    BY <2>2 DEF httpVars, HttpInv, HttpTypeOK, InStep, OutOfStep, Awaited, Coming, Right
  <2> QED BY <2>1, <2>2, HeadSent, BodySent, HeadRead, BodyRead, Misreading DEF HttpNext
<1>2. HttpInv => StaysInStep
  <2> SUFFICES ASSUME HttpInv, NEW i \in DOMAIN replies,
                      \A n \in 1..(i - 1) : Framed(sent[n])
               PROVE  Right(i)
    BY DEF StaysInStep, Right
  <2>1. i \in 1..Len(replies)
    BY LenProperties DEF HttpInv, HttpTypeOK
  <2>2. CASE InStep
    BY <2>1, <2>2 DEF InStep
  <2>3. CASE OutOfStep
    <3>1. PICK b \in 1..Len(sent) : ~Framed(sent[b]) /\ \A j \in 1..b : Right(j)
      BY <2>3 DEF OutOfStep
    <3>2. b \notin 1..(i - 1)
      BY <3>1
    <3>3. i \in 1..b
      BY <2>1, <3>2
    <3> QED BY <3>1, <3>3
  <2> QED BY <2>2, <2>3 DEF HttpInv
<1> QED BY HttpStarts, <1>1, <1>2, PTL DEF HttpSpec

--------------------------------------------------------------------------------
(* What agents read and subscribe to.                                             *)

Phases == {"idle", "sending", "sent"}
ReadTypeOK ==
    /\ subscribed \in SUBSET (Uri \X Sessions) /\ connected \in SUBSET Sessions
    /\ notice \in [at : Phases, bundle : Bundles \cup {Nowhere}, todo : SUBSET Uri,
                   now : SUBSET (Uri \X Sessions), told : SUBSET (Uri \X Sessions),
                   kept : SUBSET (Uri \X Sessions)]

\* Nobody is subscribed to, sent or told of a bundle the caller is not cleared for.
Authorised(k) == k[1] = BundlesList \/ k[1].bundle \in authorized_bundle_ids
OnlyAuthorised == \A k \in subscribed \cup notice.now \cup notice.told : Authorised(k)

\* Of a notification: all it reaches is about its bundle; who stayed was told, is
\* being told, or is subscribed to a resource not reached yet; and one that is not
\* under way reaches nobody.
AllRelevant ==
    /\ \A u \in notice.todo : is_relevant(u, notice.bundle)
    /\ \A k \in notice.now \cup notice.told : is_relevant(k[1], notice.bundle)
NoneForgotten ==
    /\ notice.kept \subseteq subscribed
    /\ \A k \in notice.kept : k[2] \in connected
    /\ \A k \in notice.kept : k \in notice.told \cup notice.now \/ k[1] \in notice.todo
    /\ notice.at # "sending" => notice.todo = {} /\ notice.now = {}

ReadInv == ReadTypeOK /\ OnlyAuthorised /\ AllRelevant /\ NoneForgotten
--------------------------------------------------------------------------------
\* A server that starts has told nobody anything.
LEMMA ReadStarts == ReadInit => ReadInv
<1> SUFFICES ASSUME ReadInit PROVE ReadInv
  OBVIOUS
<1>1. ReadTypeOK
  BY DEF ReadInit, ReadTypeOK, NoNotice, Phases
<1>2. OnlyAuthorised /\ AllRelevant /\ NoneForgotten
  BY DEF ReadInit, NoNotice, OnlyAuthorised, AllRelevant, NoneForgotten
<1> QED BY <1>1, <1>2 DEF ReadInv

\* A session that unsubscribes or is discarded takes nothing from those who stay.
LEMMA DropKeeps ==
  ASSUME ReadInv, NEW gone, Drop(gone), UNCHANGED <<access, connected>>
  PROVE  ReadInv'
<1>1. /\ notice'.at = notice.at /\ notice'.bundle = notice.bundle
      /\ notice'.now = notice.now /\ notice'.told = notice.told
      /\ notice'.todo = {u \in notice.todo : \E s \in Sessions : <<u, s>> \in subscribed'}
      /\ notice'.kept = notice.kept \ gone
      /\ subscribed' = subscribed \ gone
  BY DEF ReadInv, ReadTypeOK, Drop
<1>2. ReadTypeOK'
  <2>1. notice' \in [at : Phases, bundle : Bundles \cup {Nowhere}, todo : SUBSET Uri,
                     now : SUBSET (Uri \X Sessions), told : SUBSET (Uri \X Sessions),
                     kept : SUBSET (Uri \X Sessions)]
    BY DEF ReadInv, ReadTypeOK, Drop
  <2> QED BY <1>1, <2>1 DEF ReadInv, ReadTypeOK, Uri
<1>3. OnlyAuthorised' /\ AllRelevant'
  BY <1>1 DEF ReadInv, OnlyAuthorised, AllRelevant, Authorised, authorized_bundle_ids, Cleared,
              is_relevant
<1>4. ASSUME NEW k \in notice'.kept PROVE k \in notice'.told \cup notice'.now \/ k[1] \in notice'.todo
  <2>1. k \in notice.kept /\ k \in subscribed'
    BY <1>1 DEF ReadInv, NoneForgotten
  <2>2. k = <<k[1], k[2]>> /\ k[2] \in Sessions
    BY <2>1 DEF ReadInv, ReadTypeOK
  <2>3. <<k[1], k[2]>> \in subscribed'
    BY <2>1, <2>2
  <2> QED BY <1>1, <2>1, <2>2, <2>3 DEF ReadInv, NoneForgotten
<1>5. NoneForgotten'
  BY <1>1, <1>4 DEF ReadInv, NoneForgotten
<1> QED BY <1>2, <1>3, <1>5 DEF ReadInv

\* Whatever sessions and the server do, the invariant stays.
LEMMA ReadStep == ReadInv /\ [ReadNext]_readVars => ReadInv'
<1> SUFFICES ASSUME ReadInv, [ReadNext]_readVars PROVE ReadInv'
  OBVIOUS
<1>0. ReadTypeOK /\ OnlyAuthorised /\ AllRelevant /\ NoneForgotten
  BY DEF ReadInv
<1>1. CASE UNCHANGED readVars
  BY <1>1 DEF readVars, ReadInv, ReadTypeOK, OnlyAuthorised, AllRelevant, NoneForgotten, Authorised,
              authorized_bundle_ids, Cleared, Uri
<1>2. ASSUME NEW s \in Sessions, Disconnect(s) PROVE ReadInv'
  <2>1. /\ notice'.at = notice.at /\ notice'.bundle = notice.bundle
        /\ notice'.now = notice.now /\ notice'.told = notice.told /\ notice'.todo = notice.todo
        /\ notice'.kept = {k \in notice.kept : k[2] # s}
        /\ connected' = connected \ {s} /\ UNCHANGED <<access, subscribed>>
    BY <1>0, <1>2 DEF Disconnect, ReadTypeOK
  <2>2. ReadTypeOK'
    <3>1. notice' \in [at : Phases, bundle : Bundles \cup {Nowhere}, todo : SUBSET Uri,
                       now : SUBSET (Uri \X Sessions), told : SUBSET (Uri \X Sessions),
                       kept : SUBSET (Uri \X Sessions)]
      BY <1>0, <1>2 DEF Disconnect, ReadTypeOK
    <3> QED BY <1>0, <2>1, <3>1 DEF ReadTypeOK
  <2>3. OnlyAuthorised' /\ AllRelevant'
    BY <1>0, <2>1 DEF OnlyAuthorised, AllRelevant, Authorised, authorized_bundle_ids, Cleared,
                      is_relevant
  <2>4. NoneForgotten'
    BY <1>0, <2>1 DEF NoneForgotten, ReadTypeOK
  <2> QED BY <2>2, <2>3, <2>4 DEF ReadInv
<1>3. ASSUME NEW s \in Sessions, discard_session(s) PROVE ReadInv'
  BY <1>3, DropKeeps DEF discard_session
<1>4. ASSUME NEW s \in Sessions, NEW uri \in Uri, Subscribe(s, uri) PROVE ReadInv'
  <2>1. /\ subscribed' = subscribed \cup {<<uri, s>>} /\ UNCHANGED <<access, connected, notice>>
        /\ Authorised(<<uri, s>>)
    BY <1>4 DEF Subscribe, authorize_subscription, require_authorized_bundle, Authorised
  <2>2. ReadTypeOK'
    BY <1>0, <2>1 DEF ReadTypeOK
  <2>3. OnlyAuthorised'
    BY <1>0, <2>1 DEF OnlyAuthorised, Authorised, authorized_bundle_ids, Cleared
  <2>4. AllRelevant' /\ NoneForgotten'
    BY <1>0, <2>1 DEF AllRelevant, NoneForgotten, is_relevant
  <2> QED BY <2>2, <2>3, <2>4 DEF ReadInv
<1>5. ASSUME NEW s \in Sessions, NEW uri \in Uri, Unsubscribe(s, uri) PROVE ReadInv'
  BY <1>5, DropKeeps DEF Unsubscribe
<1>6. ASSUME NEW b \in Bundles, RefreshAndNotify(b) PROVE ReadInv'
  <2>1. /\ notice'.at = "sending" /\ notice'.bundle = b
        /\ notice'.now = {} /\ notice'.told = {}
        /\ notice'.todo = {k[1] : k \in {j \in subscribed : is_relevant(j[1], b)}}
        /\ notice'.kept = {k \in subscribed : is_relevant(k[1], b) /\ k[2] \in connected}
        /\ UNCHANGED <<access, subscribed, connected>>
    BY <1>6 DEF RefreshAndNotify, NoNotice
  <2>2. ReadTypeOK'
    <3>1. notice'.todo \in SUBSET Uri /\ notice'.kept \in SUBSET (Uri \X Sessions)
      BY <1>0, <2>1 DEF ReadTypeOK
    <3>2. notice' = [at |-> "sending", bundle |-> b, todo |-> notice'.todo, now |-> {},
                     told |-> {}, kept |-> notice'.kept]
      BY <1>6 DEF RefreshAndNotify, NoNotice
    <3>3. "sending" \in Phases /\ b \in Bundles \cup {Nowhere}
      BY DEF Phases
    <3>4. notice' \in [at : Phases, bundle : Bundles \cup {Nowhere}, todo : SUBSET Uri,
                       now : SUBSET (Uri \X Sessions), told : SUBSET (Uri \X Sessions),
                       kept : SUBSET (Uri \X Sessions)]
      BY <3>1, <3>2, <3>3
    <3> QED BY <1>0, <2>1, <3>4 DEF ReadTypeOK
  <2>3. OnlyAuthorised'
    BY <1>0, <2>1 DEF OnlyAuthorised, Authorised, authorized_bundle_ids, Cleared
  <2>4. AllRelevant'
    BY <2>1 DEF AllRelevant, is_relevant
  <2>5. NoneForgotten'
    BY <2>1 DEF NoneForgotten
  <2> QED BY <2>2, <2>3, <2>4, <2>5 DEF ReadInv
<1>7. ASSUME NEW uri \in Uri, ReachUri(uri) PROVE ReadInv'
  <2>1. /\ notice'.at = notice.at /\ notice'.bundle = notice.bundle
        /\ notice'.told = notice.told /\ notice'.kept = notice.kept
        /\ notice'.todo = notice.todo \ {uri} /\ notice'.now = {k \in subscribed : k[1] = uri}
        /\ notice.now = {} /\ uri \in notice.todo
        /\ UNCHANGED <<access, subscribed, connected>>
    BY <1>0, <1>7 DEF ReachUri, ReadTypeOK
  <2>2. ReadTypeOK'
    <3>1. notice'.todo \in SUBSET Uri /\ notice'.now \in SUBSET (Uri \X Sessions)
      BY <1>0, <2>1 DEF ReadTypeOK
    <3>2. notice' \in [at : Phases, bundle : Bundles \cup {Nowhere}, todo : SUBSET Uri,
                       now : SUBSET (Uri \X Sessions), told : SUBSET (Uri \X Sessions),
                       kept : SUBSET (Uri \X Sessions)]
      BY <1>0, <1>7, <3>1 DEF ReachUri, ReadTypeOK
    <3> QED BY <1>0, <2>1, <3>2 DEF ReadTypeOK
  <2>3. OnlyAuthorised'
    BY <1>0, <2>1 DEF OnlyAuthorised, Authorised, authorized_bundle_ids, Cleared
  <2>4. AllRelevant'
    BY <1>0, <2>1 DEF AllRelevant, is_relevant
  <2>5. NoneForgotten'
    BY <1>0, <2>1 DEF NoneForgotten
  <2> QED BY <2>2, <2>3, <2>4, <2>5 DEF ReadInv
<1>8. ASSUME NEW k \in notice.now, Send(k) \/ SendFails(k) PROVE ReadInv'
  <2>1. /\ notice'.at = notice.at /\ notice'.bundle = notice.bundle
        /\ notice'.todo = notice.todo /\ notice'.kept = notice.kept
        /\ notice'.now = notice.now \ {k}
        /\ notice'.told \subseteq notice.told \cup {k} /\ notice.told \subseteq notice'.told
        /\ k \in notice'.told \/ k[2] \notin connected
        /\ UNCHANGED <<access, subscribed, connected>>
    BY <1>0, <1>8 DEF Send, SendFails, Rest, ReadTypeOK
  <2>2. ReadTypeOK'
    <3>1. notice'.now \in SUBSET (Uri \X Sessions) /\ notice'.told \in SUBSET (Uri \X Sessions)
      BY <1>0, <2>1 DEF ReadTypeOK
    <3>2. notice' \in [at : Phases, bundle : Bundles \cup {Nowhere}, todo : SUBSET Uri,
                       now : SUBSET (Uri \X Sessions), told : SUBSET (Uri \X Sessions),
                       kept : SUBSET (Uri \X Sessions)]
      BY <1>0, <1>8, <3>1 DEF Send, SendFails, ReadTypeOK
    <3> QED BY <1>0, <2>1, <3>2 DEF ReadTypeOK
  <2>3. OnlyAuthorised'
    BY <1>0, <2>1 DEF OnlyAuthorised, Authorised, authorized_bundle_ids, Cleared
  <2>4. AllRelevant'
    BY <1>0, <2>1 DEF AllRelevant, is_relevant
  <2>5. NoneForgotten'
    BY <1>0, <2>1 DEF NoneForgotten
  <2> QED BY <2>2, <2>3, <2>4, <2>5 DEF ReadInv
<1>9. CASE Notified
  <2>1. /\ notice'.at = "sent" /\ notice'.bundle = notice.bundle
        /\ notice'.todo = notice.todo /\ notice'.kept = notice.kept
        /\ notice'.now = notice.now /\ notice'.told = notice.told
        /\ notice.todo = {} /\ notice.now = {}
        /\ UNCHANGED <<access, subscribed, connected>>
    BY <1>0, <1>9 DEF Notified, ReadTypeOK
  <2>2. ReadTypeOK'
    BY <1>0, <1>9, <2>1 DEF Notified, ReadTypeOK, Phases
  <2>3. OnlyAuthorised'
    BY <1>0, <2>1 DEF OnlyAuthorised, Authorised, authorized_bundle_ids, Cleared
  <2>4. AllRelevant' /\ NoneForgotten'
    BY <1>0, <2>1 DEF AllRelevant, NoneForgotten, is_relevant
  <2> QED BY <2>2, <2>3, <2>4 DEF ReadInv
<1>10. CASE Forget
  <2>1. notice' = NoNotice /\ UNCHANGED <<access, subscribed, connected>>
    BY <1>10 DEF Forget
  <2>2. ReadTypeOK'
    BY <1>0, <2>1 DEF ReadTypeOK, NoNotice, Phases
  <2>3. OnlyAuthorised' /\ AllRelevant' /\ NoneForgotten'
    BY <1>0, <2>1 DEF OnlyAuthorised, Authorised, authorized_bundle_ids, Cleared, NoNotice,
                      AllRelevant, NoneForgotten
  <2> QED BY <2>2, <2>3 DEF ReadInv
<1> QED BY <1>1, <1>2, <1>3, <1>4, <1>5, <1>6, <1>7, <1>8, <1>9, <1>10 DEF ReadNext

\* Every session that stayed subscribed and connected is told of an activation, and
\* nothing of another bundle's.
THEOREM SubscribersAlwaysHear == ReadSpec => []SubscribersHear
<1>1. ReadInv => SubscribersHear
  <2> SUFFICES ASSUME ReadInv PROVE SubscribersHear
    OBVIOUS
  <2>1. notice.at = "sent" => notice.kept \subseteq notice.told
    BY DEF ReadInv, NoneForgotten
  <2>2. \A k \in notice.told : k[1].bundle \in {notice.bundle, Nowhere}
    BY DEF ReadInv, AllRelevant, is_relevant, BundlesList
  <2> QED BY <2>1, <2>2 DEF SubscribersHear
<1> QED BY ReadStarts, ReadStep, <1>1, PTL DEF ReadSpec

\* Of a bundle the caller is not cleared for, every tool and endpoint refuses in the
\* same way whatever the bundle holds.
LEMMA DeniedAlike ==
  ASSUME NEW b \in Bundles, ~Cleared(b),
         NEW q \in [bundle : {b}, tool : Tools, concept : ReadIds, flaw : Flaws], NEW id \in ReadIds
  PROVE  /\ handle_post(q, TRUE) # Status["ok"]
         /\ call_tool(q) = call_tool([q EXCEPT !.concept = id])
<1> DEFINE r == [q EXCEPT !.concept = id]
<1>1. /\ q.bundle = b /\ q.tool \in Tools
      /\ r.bundle = b /\ r.tool = q.tool /\ r.flaw = q.flaw
  OBVIOUS
<1>2. call_tool(q) = IF q.flaw = "mistyped" THEN "bad_request" ELSE "denied"
  BY <1>1 DEF call_tool, _dispatch, Answered
<1>3. call_tool(r) = IF r.flaw = "mistyped" THEN "bad_request" ELSE "denied"
  <2> HIDE DEF r
  <2> QED BY <1>1 DEF call_tool, _dispatch, Answered
<1>4. handle_post(q, TRUE) # Status["ok"]
  BY <1>2 DEF handle_post, Status
<1>5. call_tool(q) = call_tool(r)
  <2> HIDE DEF r
  <2> QED BY <1>1, <1>2, <1>3
<1> QED BY <1>4, <1>5

\* No surface gives away anything of a bundle the caller is not cleared for, whatever
\* labels the bundles got, and nobody is told of one.
THEOREM AccessAlwaysHolds == ReadSpec => []AccessHolds
<1>1. ReadInv => AccessHolds
  <2> SUFFICES ASSUME ReadInv PROVE AccessHolds
    OBVIOUS
  <2>1. ASSUME NEW b \in Bundles \ authorized_bundle_ids
        PROVE  /\ \A q \in [bundle : {b}, tool : Tools, concept : ReadIds, flaw : Flaws], id \in ReadIds :
                    /\ handle_post(q, TRUE) # Status["ok"]
                    /\ call_tool(q) = call_tool([q EXCEPT !.concept = id])
               /\ handle_refresh(b) # Status["ok"]
               /\ \A path \in {"bundles", "health", "activations"}, activated \in SUBSET Bundles :
                    b \notin handle_get(path, activated)
               /\ \A shape \in Shapes, id \in ReadIds :
                    read_resource([shape |-> shape, bundle |-> b], id)
                      = read_resource([shape |-> shape, bundle |-> Nowhere], id)
    <3>1. b \in Bundles /\ ~Cleared(b)
      BY <2>1 DEF authorized_bundle_ids
    <3>2. handle_refresh(b) # Status["ok"]
      BY <3>1 DEF handle_refresh, Status
    <3>3. ASSUME NEW shape \in Shapes, NEW id \in ReadIds
          PROVE  read_resource([shape |-> shape, bundle |-> b], id)
                   = read_resource([shape |-> shape, bundle |-> Nowhere], id)
      <4>1. shape # "bundles" /\ Nowhere \notin authorized_bundle_ids
        BY <3>3, ReadAssumption DEF authorized_bundle_ids
      <4>2. ASSUME NEW c, c \notin authorized_bundle_ids
            PROVE  read_resource([shape |-> shape, bundle |-> c], id) = "no_access"
        BY <4>1, <4>2 DEF read_resource, require_authorized_bundle, BundlesList
      <4> QED BY <2>1, <4>1, <4>2
    <3>4. \A path, activated : b \notin handle_get(path, activated)
      BY <2>1 DEF handle_get
    <3> QED BY <3>1, <3>2, <3>3, <3>4, DeniedAlike
  <2>2. \A k \in subscribed \cup notice.told : k[1] = BundlesList \/ k[1].bundle \in authorized_bundle_ids
    BY DEF ReadInv, OnlyAuthorised, Authorised
  <2> QED BY <2>1, <2>2 DEF AccessHolds
<1> QED BY ReadStarts, ReadStep, <1>1, PTL DEF ReadSpec
================================================================================
