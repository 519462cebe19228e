---------------------------- MODULE CallService ----------------------------
(***************************************************************************)
(* What the MCP server and its client promise to whoever makes a call,     *)
(* with no streams, channels, goroutines or handshakes.                    *)
(*                                                                         *)
(* A call is refused only by a session that is over, and may be rejected   *)
(* by any, unread; one that is taken up is answered at most once, or ends  *)
(* without an answer; the answer that was given reaches the client unless  *)
(* the session ends; a client that waits returns with the answer to the    *)
(* call it made last.  McpSessions is shown to implement this.             *)
(***************************************************************************)
EXTENDS Naturals, Sequences

CONSTANT Conn

VARIABLES calls,    \* calls[c]: the calls of a connection, in the order made
          session,  \* session[c]: is it there, closing, or gone?
          returned  \* the calls a client returned from with an answer

vars == <<calls, session, returned>>

Outcome == {"ok", "error"}

Init ==
    /\ calls = [c \in Conn |-> <<>>]
    /\ session = [c \in Conn |-> "open"]
    /\ returned = {}

Ask(c) ==
    /\ calls' = [calls EXCEPT ![c] = Append(@, [phase |-> "asked", outcome |-> "none"])]
    /\ UNCHANGED <<session, returned>>

\* Call n of connection c goes from one phase to another.
Moves(c, n, p, q, o) ==
    /\ calls[c][n].phase = p
    /\ calls' = [calls EXCEPT ![c][n] = [phase |-> q, outcome |-> o]]

Start(c, n) ==
    /\ Moves(c, n, "asked", "running", "none")
    /\ UNCHANGED <<session, returned>>

Refuse(c, n) ==
    /\ session[c] # "open"
    /\ Moves(c, n, "asked", "refused", "none")
    /\ UNCHANGED <<session, returned>>

\* Too many requests, or a body that cannot be read.
Reject(c, n) ==
    /\ Moves(c, n, "asked", "rejected", "none")
    /\ UNCHANGED <<session, returned>>

Answer(c, n) ==
    /\ \E o \in Outcome : Moves(c, n, "running", "answered", o)
    /\ UNCHANGED <<session, returned>>

\* A notification, or a call whose goroutine panics.
Silence(c, n) ==
    /\ Moves(c, n, "running", "silent", "none")
    /\ UNCHANGED <<session, returned>>

\* The client has the answer, as it was given.
Tell(c, n) ==
    /\ session[c] # "gone"
    /\ Moves(c, n, "answered", "told", calls[c][n].outcome)
    /\ UNCHANGED <<session, returned>>

\* What a session may become from s.
Later(s) == CASE s = "open"    -> {"open", "closing", "gone"}
              [] s = "closing" -> {"closing", "gone"}
              [] s = "gone"    -> {"gone"}

\* The answer is lost, with the session, or because it is over.
Lose(c, n) ==
    /\ Moves(c, n, "answered", "lost", calls[c][n].outcome)
    /\ \E s \in Later(session[c]) \ {"open"} : session' = [session EXCEPT ![c] = s]
    /\ UNCHANGED returned

Close(c) ==
    /\ \E s \in Later(session[c]) : session' = [session EXCEPT ![c] = s]
    /\ UNCHANGED <<calls, returned>>

\* A client that waits takes the answer to its last call.
Take(c) ==
    /\ calls[c] # <<>> /\ calls[c][Len(calls[c])].phase = "told"
    /\ returned' = returned \cup {<<c, Len(calls[c])>>}
    /\ UNCHANGED <<calls, session>>

Next ==
    \E c \in Conn :
       \/ Ask(c) \/ Close(c) \/ Take(c)
       \/ \E n \in DOMAIN calls[c] : \/ Start(c, n) \/ Refuse(c, n) \/ Reject(c, n) \/ Answer(c, n)
                                     \/ Silence(c, n) \/ Tell(c, n) \/ Lose(c, n)

Spec == Init /\ [][Next]_vars
=============================================================================
