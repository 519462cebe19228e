----------------------------- MODULE McpSessions -----------------------------
(***************************************************************************)
(* The MCP server (mcp/server.go, session.go, stdio.go), the client of the *)
(* command line (mcp/client/client.go) and the hooks that use it           *)
(* (cmd/cli/hook_*.go).                                                    *)
(*                                                                         *)
(* A connection is a stream of events the server keeps open for a session; *)
(* the session's calls come in as requests of their own, each run by a     *)
(* goroutine, and the answers go out by the stream.  On stdio there is one *)
(* session, and one call at a time.                                        *)
(***************************************************************************)
EXTENDS Integers, Sequences, FiniteSets

CONSTANTS
    Conn,
    Scope,       \* scopes of projects
    NoScope,     \* "": no scope has been set
    Torn,        \* a scope read while it was written
    Plans,       \* what the peer of each connection is, which methods a host
                 \* calls, and how often; a choice at the start
    MaxConns,    \* 100 in the code
    OutSize,     \* 64 in the code
    Faults       \* may tools, streams and requests fail, or be too many?

Peer   == {"host", "stdio", "start", "capture", "stop", "none"}
Tools  == {"create_session", "retain", "scan", "finalize_session"}
Method == {"initialize", "initialized", "ping"} \cup Tools

ASSUME ScopeAssumption == {NoScope, Torn} \cap Scope = {} /\ NoScope # Torn
ASSUME PlansAssumption == Plans \subseteq [peer : [Conn -> Peer], methods : SUBSET Method, most : Nat]
ASSUME SizeAssumption  == {MaxConns, OutSize} \subseteq Nat \ {0}
ASSUME FaultAssumption == Faults \in BOOLEAN

VARIABLES
    plan,        \* what was chosen
    conns,       \* Server.sseConns
    handler,     \* each stream's handler: where it is
    registered,  \* Server.sessions
    initialized, \* of each Session
    scope,       \* its projectScope
    out,         \* its outCh: calls, with their outcomes
    closed,      \* is outCh closed?
    calls,       \* the calls of each connection
    client,      \* each client: where it is
    gone,        \* has its end of the stream been closed?
    inbox,       \* Client.responses
    failed,      \* Stop hook: has a call of it failed, as it sees it?
    latest,      \* history: the scope last created in the session
    taken,       \* history: the call a hook waited for, and the one it took
    received     \* history: answers that reached the client

server  == <<conns, handler, registered, initialized, scope, out, closed>>
clients == <<client, gone, inbox, failed>>
history == <<latest, taken, received>>
vars    == <<plan, server, calls, clients, history>>

peer        == plan.peer
Streamed(c) == peer[c] \notin {"stdio", "none"}
Hook(c)     == peer[c] \in {"start", "capture", "stop"}

Init ==
    /\ plan \in Plans
    /\ conns = 0
    /\ handler = [c \in Conn |-> "none"]
    /\ registered = {}
    /\ initialized = [c \in Conn |-> FALSE]
    /\ scope = [c \in Conn |-> NoScope]
    /\ out = [c \in Conn |-> <<>>]
    /\ closed = [c \in Conn |-> FALSE]
    /\ calls = [c \in Conn |-> <<>>]
    /\ client = [c \in Conn |-> IF peer[c] = "stdio" THEN "ready" ELSE "idle"]
    /\ gone = [c \in Conn |-> FALSE]
    /\ inbox = [c \in Conn |-> <<>>]
    /\ failed = [c \in Conn |-> FALSE]
    /\ latest = [c \in Conn |-> NoScope]
    /\ taken = {} /\ received = {}

\* Field f of call n of connection c becomes v.
Set(c, n, f, v) == calls' = [calls EXCEPT ![c][n][f] = v]

------------------------------------------------------------------------------
(* The handler of a stream: handleSSE.                                      *)

HasSlot(c) == conns < MaxConns

\* rateLimitWrap: one limiter for all requests, those of other clients too.
Limited == Faults

Check(c) ==
    /\ client[c] = "connecting" /\ handler[c] = "none"
    /\ \E to \in {"checked", "refused"} :
          /\ IF to = "checked" THEN HasSlot(c) ELSE Limited \/ ~HasSlot(c)
          /\ handler' = [handler EXCEPT ![c] = to]
    /\ UNCHANGED <<plan, conns, registered, initialized, scope, out, closed, calls, clients, history>>

Open(c) ==
    /\ handler[c] = "checked"
    /\ conns' = conns + 1
    /\ registered' = registered \cup {c}
    /\ handler' = [handler EXCEPT ![c] = "forwarding"]
    /\ UNCHANGED <<plan, initialized, scope, out, closed, calls, clients, history>>

\* One event: it reaches the client, or the time to write is over, and the
\* stream with it.
Forward(c) ==
    /\ handler[c] = "forwarding" /\ out[c] # <<>>
    /\ out' = [out EXCEPT ![c] = Tail(@)]
    /\ \/ /\ ~gone[c]
          /\ inbox' = [inbox EXCEPT ![c] = IF Hook(c) THEN Append(@, Head(out[c])) ELSE @]
          /\ received' = received \cup {<<c, Head(out[c]).id>>}
          /\ UNCHANGED gone
       \/ /\ gone[c] \/ Faults
          /\ gone' = [gone EXCEPT ![c] = TRUE]
          /\ UNCHANGED <<inbox, received>>
    /\ UNCHANGED <<plan, conns, handler, registered, initialized, scope, closed, calls,
                   client, failed, latest, taken>>

Finished_GoneOnly(c) == gone[c]

\* The request's context is done, or the channel is closed and empty.
Finished(c) == gone[c] \/ (closed[c] /\ out[c] = <<>>)

EndStream(c) ==
    /\ handler[c] = "forwarding" /\ Finished(c)
    /\ registered' = registered \ {c}
    /\ closed' = [closed EXCEPT ![c] = TRUE]
    /\ handler' = [handler EXCEPT ![c] = "leaving"]
    /\ UNCHANGED <<plan, conns, initialized, scope, out, calls, clients, history>>

\* The stream ends for the client too.
Release(c) ==
    /\ handler[c] = "leaving"
    /\ conns' = conns - 1
    /\ handler' = [handler EXCEPT ![c] = "ended"]
    /\ gone' = [gone EXCEPT ![c] = TRUE]
    /\ UNCHANGED <<plan, registered, initialized, scope, out, closed, calls,
                   client, inbox, failed, history>>

------------------------------------------------------------------------------
(* The handler of a call: handleMessages.                                   *)

\* 404, for a session that is not there; 429, or 400 for a body that is too long
\* or cut short, for any.
Accept(c, n) ==
    /\ calls[c][n].post = "sent" /\ Streamed(c)
    /\ \/ /\ c \in registered
          /\ calls' = [calls EXCEPT ![c][n].post = "accepted", ![c][n].at = "spawned"]
       \/ c \notin registered /\ Set(c, n, "post", "refused")
       \/ Limited /\ Set(c, n, "post", "rejected")
    /\ UNCHANGED <<plan, server, clients, history>>

\* 202; the deferred cancel ends the context that the goroutine was given.
Return(c, n) ==
    /\ calls[c][n].post = "accepted"
    /\ calls' = [calls EXCEPT ![c][n].post = "returned", ![c][n].cancelled = TRUE]
    /\ UNCHANGED <<plan, server, clients, history>>

\* RunStdio reads a line when it is done with those before.
ReadLine(c, n) ==
    /\ calls[c][n].post = "sent" /\ peer[c] = "stdio"
    /\ \A k \in 1..(n - 1) : calls[c][k].at \in {"sent", "silent"}
    /\ calls' = [calls EXCEPT ![c][n].post = "read", ![c][n].at = "spawned"]
    /\ UNCHANGED <<plan, server, clients, history>>

------------------------------------------------------------------------------
(* The call: Session.Dispatch.                                              *)

Answer(c, n, o) == [calls EXCEPT ![c][n].at = "answering", ![c][n].outcome = o]

\* projectScope is a string, of two words, and has no lock: a create_session
\* that is running may have stored one of them.
Readable(c) ==
    {scope[c]} \cup
    {Torn : k \in {k \in DOMAIN calls[c] :
        /\ calls[c][k].at = "tool" /\ calls[c][k].method = "create_session"
        /\ calls[c][k].arg \notin {NoScope, scope[c]} /\ ~calls[c][k].cancelled}}

\* The scope is read; then the handshake is checked.
Begin(c, n) ==
    /\ calls[c][n].at = "spawned"
    /\ \E own \in Readable(c) :
       LET m        == calls[c][n].method
           to(l, o) == calls' = [calls EXCEPT ![c][n].own = own, ![c][n].at = l, ![c][n].outcome = o]
       IN \/ ~initialized[c] /\ m \in {"initialize", "initialized"} /\ to("handshake", "none")
          \/ ~initialized[c] /\ m \in Tools /\ to("answering", "error")
          \/ initialized[c] /\ m = "initialize" /\ to("answering", "error")
          \/ initialized[c] /\ m = "initialized" /\ to("silent", "none")
          \/ m = "ping" /\ to("answering", "ok")
          \/ initialized[c] /\ m \in Tools /\ to("tool", "none")
    /\ UNCHANGED <<plan, server, clients, history>>

Handshake(c, n) ==
    /\ calls[c][n].at = "handshake"
    /\ initialized' = [initialized EXCEPT ![c] = TRUE]
    /\ IF calls[c][n].method = "initialize"
       THEN calls' = Answer(c, n, "ok")
       ELSE Set(c, n, "at", "silent")
    /\ UNCHANGED <<plan, conns, handler, registered, scope, out, closed, clients, history>>

ScopeSet_First(c, p) == IF scope[c] = NoScope THEN [scope EXCEPT ![c] = p] ELSE scope

\* CreateSessionTool, if the call names a scope.
ScopeSet(c, p) == IF p = NoScope THEN scope ELSE [scope EXCEPT ![c] = p]

\* A call that waits may see the scope that is being created.
Offered(c, p) ==
    [k \in DOMAIN calls[c] |->
        IF calls[c][k].at \in {"none", "spawned", "tool"} /\ p # NoScope
        THEN [calls[c][k] EXCEPT !.current = @ \cup {p}] ELSE calls[c][k]]

\* The stores refuse a context that has been cancelled.
Execute(c, n) ==
    LET r == calls[c][n] IN
    /\ r.at = "tool"
    /\ \/ /\ r.cancelled \/ Faults
          /\ calls' = Answer(c, n, "error")
          /\ UNCHANGED <<scope, latest>>
       \/ /\ r.own = Torn    \* a panic
          /\ Set(c, n, "at", "silent")
          /\ UNCHANGED <<scope, latest>>
       \/ /\ ~r.cancelled
          /\ IF r.method = "create_session"
             THEN /\ scope' = ScopeSet(c, r.arg)
                  /\ latest' = IF r.arg = NoScope THEN latest ELSE [latest EXCEPT ![c] = r.arg]
                  /\ calls' = [calls EXCEPT ![c] =
                                  [Offered(c, r.arg) EXCEPT ![n].at = "answering", ![n].outcome = "ok"]]
             ELSE calls' = Answer(c, n, "ok") /\ UNCHANGED <<scope, latest>>
    /\ UNCHANGED <<plan, conns, handler, registered, initialized, out, closed,
                   clients, taken, received>>

Full_Dropped(c) == closed

\* The channel is full: the session is closed.
Full(c) == [closed EXCEPT ![c] = TRUE]

\* A send on a closed channel panics; the goroutine recovers, and the answer is
\* lost.
Send(c, n) ==
    LET r == calls[c][n] IN
    /\ r.at = "answering"
    /\ CASE peer[c] = "stdio" ->
              /\ received' = received \cup {<<c, n>>}
              /\ UNCHANGED <<out, closed>>
         [] Streamed(c) /\ closed[c] ->
              UNCHANGED <<out, closed, received>>
         [] Streamed(c) /\ ~closed[c] /\ Len(out[c]) < OutSize ->
              /\ out' = [out EXCEPT ![c] = Append(@, [id |-> n, outcome |-> r.outcome])]
              /\ UNCHANGED <<closed, received>>
         [] OTHER ->
              /\ closed' = Full(c)
              /\ UNCHANGED <<out, received>>
    /\ Set(c, n, "at", "sent")
    /\ UNCHANGED <<plan, conns, handler, registered, initialized, scope, clients, latest, taken>>

------------------------------------------------------------------------------
(* The clients.                                                             *)

New(c, m, p) ==
    [method |-> m, arg |-> p, post |-> "sent", at |-> "none", cancelled |-> FALSE,
     own |-> NoScope, outcome |-> "none", current |-> {latest[c]}]

Posted(c, m, p) == calls' = [calls EXCEPT ![c] = Append(@, New(c, m, p))]

At(c, l) == client' = [client EXCEPT ![c] = l]

Connect(c) ==
    /\ client[c] = "idle" /\ Streamed(c)
    /\ At(c, "connecting")
    /\ UNCHANGED <<plan, server, calls, gone, inbox, failed, history>>

Connected(c) ==
    /\ client[c] = "connecting" /\ handler[c] = "forwarding"
    /\ At(c, "ready")
    /\ UNCHANGED <<plan, server, calls, gone, inbox, failed, history>>

\* Refused, or after three seconds: a hook is silent, and ends.
ConnectFails(c) ==
    /\ client[c] = "connecting"
    /\ handler[c] \in {"refused", "ended"} \/ Faults
    /\ At(c, "offline")
    /\ gone' = [gone EXCEPT ![c] = TRUE]
    /\ UNCHANGED <<plan, server, calls, inbox, failed, history>>

\* A host waits for the answer to initialize before it calls a tool, and does
\* not wait otherwise.
HostCall(c) ==
    /\ client[c] = "ready" /\ peer[c] \in {"host", "stdio"} /\ Len(calls[c]) < plan.most
    /\ \E m \in plan.methods :
       /\ m \in Tools => \E n \in DOMAIN calls[c] : calls[c][n].method = "initialize" /\ <<c, n>> \in received
       /\ \E p \in IF m = "create_session" THEN Scope ELSE {NoScope} : Posted(c, m, p)
    /\ UNCHANGED <<plan, server, clients, history>>

HostLeaves(c) ==
    /\ client[c] = "ready" /\ peer[c] = "host"
    /\ At(c, "done")
    /\ gone' = [gone EXCEPT ![c] = TRUE]
    /\ UNCHANGED <<plan, server, calls, inbox, failed, history>>

\* Connect returns, and cancels the context of the request of the stream.
StreamCancelled(c) ==
    /\ Hook(c) /\ client[c] \notin {"idle", "connecting"} /\ ~gone[c]
    /\ gone' = [gone EXCEPT ![c] = TRUE]
    /\ UNCHANGED <<plan, server, calls, client, inbox, failed, history>>

\* runSessionStart, runCapture, runSessionStop.
Script(c) ==
    CASE peer[c] = "start"   -> <<"create_session", "scan">>
      [] peer[c] = "capture" -> <<"retain">>
      [] peer[c] = "stop"    -> IF failed[c] THEN <<"finalize_session", "retain">> ELSE <<"finalize_session">>

Sync(c) == peer[c] = "start"

HookCall(c) ==
    /\ client[c] = "ready" /\ Hook(c) /\ Len(calls[c]) < Len(Script(c))
    /\ LET m == Script(c)[Len(calls[c]) + 1] IN
       \E p \in IF m = "create_session" THEN Scope \cup {NoScope} ELSE {NoScope} : Posted(c, m, p)
    /\ At(c, "posting")
    /\ UNCHANGED <<plan, server, gone, inbox, failed, history>>

\* callToolPost, and the five seconds of its context.
PostDone(c) ==
    LET n == Len(calls[c]) IN
    /\ client[c] = "posting"
    /\ \/ /\ calls[c][n].post = "returned"
          /\ At(c, IF Sync(c) THEN "waiting" ELSE "ready")
          /\ UNCHANGED <<calls, failed>>
       \/ /\ calls[c][n].post \in {"refused", "rejected"} \/ Faults
          /\ At(c, "ready")
          /\ failed' = [failed EXCEPT ![c] = TRUE]
          /\ Set(c, n, "cancelled", TRUE)
    /\ UNCHANGED <<plan, server, gone, inbox, history>>

Matches_Any(c, a) == TRUE

Matches(c, a) == a.id = Len(calls[c])

\* CallToolSync waits for the answer to its own call.
Receive(c) ==
    /\ client[c] = "waiting" /\ inbox[c] # <<>>
    /\ LET a == Head(inbox[c]) IN
       IF Matches(c, a)
       THEN At(c, "ready") /\ taken' = taken \cup {<<c, Len(calls[c]), a.id>>}
       ELSE UNCHANGED <<client, taken>>
    /\ inbox' = [inbox EXCEPT ![c] = Tail(@)]
    /\ UNCHANGED <<plan, server, calls, gone, failed, latest, received>>

\* The stream has been closed, or the time is over.
GiveUp(c) ==
    /\ client[c] = "waiting"
    /\ (gone[c] /\ inbox[c] = <<>>) \/ Faults
    /\ At(c, "ready")
    /\ UNCHANGED <<plan, server, calls, gone, inbox, failed, history>>

HookEnds(c) ==
    /\ client[c] = "ready" /\ Hook(c) /\ Len(calls[c]) = Len(Script(c))
    /\ At(c, "done")
    /\ gone' = [gone EXCEPT ![c] = TRUE]
    /\ UNCHANGED <<plan, server, calls, inbox, failed, history>>

------------------------------------------------------------------------------
Serve(c)  == Check(c) \/ Open(c) \/ Forward(c) \/ EndStream(c) \/ Release(c)
Run(c, n) == \/ Accept(c, n) \/ Return(c, n) \/ ReadLine(c, n)
             \/ Begin(c, n) \/ Handshake(c, n) \/ Execute(c, n) \/ Send(c, n)
Use(c)    == \/ Connect(c) \/ Connected(c) \/ ConnectFails(c) \/ HostCall(c) \/ HostLeaves(c)
             \/ StreamCancelled(c) \/ HookCall(c) \/ PostDone(c) \/ Receive(c) \/ GiveUp(c) \/ HookEnds(c)

Next == \E c \in Conn : Serve(c) \/ Use(c) \/ \E n \in DOMAIN calls[c] : Run(c, n)

Spec == Init /\ [][Next]_vars

\* The handler of a stream runs on as long as the server does.
FairSpec == Spec /\ \A c \in Conn : WF_vars(Forward(c)) /\ WF_vars(EndStream(c)) /\ WF_vars(Release(c))

------------------------------------------------------------------------------
HandlerAt == {"none", "checked", "refused", "forwarding", "leaving", "ended"}
ClientAt  == {"idle", "connecting", "offline", "ready", "posting", "waiting", "done"}

TypeOK ==
    /\ plan \in Plans
    /\ conns \in 0..Cardinality(Conn)
    /\ handler \in [Conn -> HandlerAt]
    /\ registered \subseteq Conn
    /\ initialized \in [Conn -> BOOLEAN] /\ closed \in [Conn -> BOOLEAN]
    /\ scope \in [Conn -> Scope \cup {NoScope}] /\ latest \in [Conn -> Scope \cup {NoScope}]
    /\ \A c \in Conn : Len(out[c]) <= OutSize /\ Len(calls[c]) <= plan.most
    /\ client \in [Conn -> ClientAt]
    /\ gone \in [Conn -> BOOLEAN] /\ failed \in [Conn -> BOOLEAN]

\* CallToolSync (mcp/client): what it returns is the answer to the call it
\* made, though answers to calls it gave up on may arrive first.
SyncAnswersItsCall == \A t \in taken : t[2] = t[3]

\* Session.send and handleSSE: while a session is open at both ends, an
\* answer that was sent is with the client or on its way; a client that is too
\* slow for that has its session closed.
NoSilentLoss ==
    \A c \in Conn : \A n \in DOMAIN calls[c] :
       calls[c][n].at = "sent" =>
          \/ <<c, n>> \in received
          \/ \E i \in DOMAIN out[c] : out[c][i].id = n
          \/ gone[c] \/ closed[c]

\* Dispatch, create_session and retain: the project scope a tool is given is
\* one that its session had at some time since the call was posted, or one read
\* while it was written; no call uses the scope of a project left before that.
ScopeIsCurrent ==
    \A c \in Conn : \A n \in DOMAIN calls[c] :
       calls[c][n].at = "tool" => calls[c][n].own \in calls[c][n].current \cup {Torn}

\* handleSSE: when the client has left, or was too slow, its stream ends, the
\* session is forgotten, and the slot is free again.
StreamsEnd ==
    \A c \in Conn :
       (handler[c] = "forwarding" /\ (gone[c] \/ closed[c])) ~> (handler[c] = "ended" /\ c \notin registered)

\* The outcome of call n waits in the channel of its session.
Queued(c, n) == \E i \in DOMAIN out[c] : out[c][i] = [id |-> n, outcome |-> calls[c][n].outcome]

\* Where a call is, as far as whoever made it is concerned: it has been
\* answered when its outcome is with the session or on the stream, and told
\* when it has left the stream for the client.
Phase(c, n) ==
    LET r == calls[c][n] IN
    CASE r.at = "none" -> IF r.post \in {"refused", "rejected"} THEN r.post ELSE "asked"
      [] r.at \in {"spawned", "handshake", "tool"} -> "running"
      [] r.at = "silent"                          -> "silent"
      [] r.at = "answering"                       -> "answered"
      [] r.at = "sent" -> CASE <<c, n>> \in received -> "told"
                            [] <<c, n>> \notin received /\ Queued(c, n) -> "answered"
                            [] OTHER -> "lost"

View(c, n) ==
    [phase |-> Phase(c, n),
     outcome |-> IF calls[c][n].at \in {"answering", "sent"} THEN calls[c][n].outcome ELSE "none"]

\* With its streams, channels and clients, the server is a CallService.
Promise == INSTANCE CallService WITH
    calls    <- [c \in Conn |-> [n \in DOMAIN calls[c] |-> View(c, n)]],
    session  <- [c \in Conn |-> CASE gone[c]                -> "gone"
                                  [] ~gone[c] /\ closed[c]  -> "closing"
                                  [] ~gone[c] /\ ~closed[c] -> "open"],
    returned <- {<<t[1], t[2]>> : t \in taken}

\* session.go, server.go, client.go: a call is rejected before anything of it is
\* run, and is not found a session only when that is over; it is answered at
\* most once and with the outcome it had, and its answer is lost only with the
\* session; what CallToolSync returns with has arrived, and answers the call it
\* made.
ImplementsCalls == Promise!Spec

------------------------------------------------------------------------------
(* An inductive invariant: calls and answers are typed; the scope of a      *)
(* session is the one created last; a call that has not read it yet may     *)
(* still see it, and one that has read it saw it in its time.               *)

Outcome == {"none", "ok", "error"}
Call ==
    [method : Method, arg : Scope \cup {NoScope},
     post : {"sent", "accepted", "returned", "refused", "rejected", "read"},
     at : {"none", "spawned", "handshake", "tool", "answering", "silent", "sent"},
     cancelled : BOOLEAN, own : Scope \cup {NoScope, Torn}, outcome : Outcome,
     current : SUBSET (Scope \cup {NoScope})]

InTime(r, s) ==
    /\ r.post = "sent" => r.at = "none"
    /\ r.at \in {"none", "spawned"} => s \in r.current
    /\ r.at = "tool" => r.own \in r.current \cup {Torn}

CallsOK ==
    /\ calls \in [Conn -> Seq(Call)]
    /\ scope \in [Conn -> Scope \cup {NoScope}] /\ latest = scope
    /\ \A c \in Conn : \A n \in DOMAIN calls[c] : InTime(calls[c][n], scope[c])

StreamsOK ==
    /\ out \in [Conn -> Seq([id : Nat, outcome : Outcome])]
    /\ gone \in [Conn -> BOOLEAN] /\ closed \in [Conn -> BOOLEAN]

IInv == plan \in Plans /\ CallsOK /\ StreamsOK /\ NoSilentLoss /\ SyncAnswersItsCall

------------------------------------------------------------------------------
(* What the refinement rests on: an answer waits in one place, as it was    *)
(* given; a client has only answers that have left the stream; a client has *)
(* connected before it calls, and a stream that is over has its session     *)
(* closed.                                                                  *)

AnswersOK ==
    \A c \in Conn : \A i \in DOMAIN out[c] :
       LET n == out[c][i].id IN
       /\ n \in DOMAIN calls[c] /\ calls[c][n].at = "sent" /\ <<c, n>> \notin received
       /\ out[c][i].outcome = calls[c][n].outcome
       /\ \A j \in DOMAIN out[c] : out[c][j].id = n => j = i

ArrivedOK ==
    /\ \A t \in received : \E c \in Conn : \E n \in DOMAIN calls[c] :
          t = <<c, n>> /\ calls[c][n].at = "sent"
    /\ inbox \in [Conn -> Seq([id : Nat, outcome : Outcome])]
    /\ \A c \in Conn : \A i \in DOMAIN inbox[c] : <<c, inbox[c][i].id>> \in received

PeerOK(c) ==
    /\ peer[c] = "stdio" => handler[c] = "none" /\ client[c] = "ready" /\ ~gone[c]
    /\ Streamed(c) /\ (DOMAIN calls[c] # {} \/ client[c] \notin {"idle", "connecting", "offline"})
          => handler[c] \in {"forwarding", "leaving", "ended"}
    /\ handler[c] = "forwarding" => c \in registered
    /\ handler[c] \in {"leaving", "ended"} => closed[c]

PeersOK ==
    /\ handler \in [Conn -> HandlerAt] /\ client \in [Conn -> ClientAt]
    /\ \A c \in Conn : PeerOK(c)

ServiceInv == AnswersOK /\ ArrivedOK /\ PeersOK

------------------------------------------------------------------------------
(* What comments say of the code, and is not so.                            *)

\* hook_session_stop.go:73, "Fallback to retain summary on finalize failure":
\* a Stop hook that has ended, online, without a finalized session has called
\* retain.
FallbackOnFailure ==
    \A c \in Conn :
       (peer[c] = "stop" /\ client[c] = "done" /\ calls[c][1].at = "sent" /\ calls[c][1].outcome = "error")
          => Len(calls[c]) = 2

\* server.go:185, "Dispatch asynchronously; response delivered via SSE": the
\* context of a call that was accepted is not cancelled before it has run.
AcceptedCallsRun ==
    \A c \in Conn : \A n \in DOMAIN calls[c] :
       calls[c][n].post = "returned" /\ ~gone[c] /\ calls[c][n].at = "tool" => ~calls[c][n].cancelled

\* client.go:69, "keeps the stream open for sync responses".
StreamStaysOpen == \A c \in Conn : client[c] = "waiting" /\ ~closed[c] => ~gone[c]

\* session.go:161, "already initialized": a session is initialized once.
InitializedOnce ==
    \A c \in Conn : Cardinality({n \in DOMAIN calls[c] :
       calls[c][n].method = "initialize" /\ calls[c][n].outcome = "ok"}) <= 1

\* session.go:112: the scope is a scope.
ScopeIsWhole == \A c \in Conn : \A n \in DOMAIN calls[c] : calls[c][n].own # Torn

\* server.go:93: the limit of the streams.
AtMostMaxConns == conns <= MaxConns
==============================================================================
