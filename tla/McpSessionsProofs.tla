-------------------------- MODULE McpSessionsProofs --------------------------
(***************************************************************************)
(* Sessions of the MCP server, for any connections, scopes, clients and    *)
(* sizes: no answer is lost in silence, a hook takes the answer to its own *)
(* call, the scope a tool is given was its session's in time, and the      *)
(* server and its clients are a CallService.                               *)
(***************************************************************************)
EXTENDS McpSessions, SequenceTheorems, TLAPS

Answers == [id : Nat, outcome : Outcome]

\* Answer n is with the client of c, on its way, or its session has ended.
Told(c, n) ==
    \/ <<c, n>> \in received
    \/ \E i \in DOMAIN out[c] : out[c][i].id = n
    \/ gone[c] \/ closed[c]

\* Steps that send nothing: what is sent after them was so before.
SendsNothing ==
    \A c \in Conn : \A n \in DOMAIN calls'[c] :
       calls'[c][n].at = "sent" => n \in DOMAIN calls[c] /\ calls[c][n].at = "sent"

KeepsTold == \A c \in Conn, n \in Nat : Told(c, n) => Told(c, n)'

LEMMA LossKept ==
  ASSUME CallsOK, NoSilentLoss, SendsNothing, KeepsTold
  PROVE  NoSilentLoss'
<1>1. ASSUME NEW c \in Conn, NEW n \in DOMAIN calls'[c], calls'[c][n].at = "sent"
      PROVE  Told(c, n)'
  <2>1. n \in DOMAIN calls[c] /\ calls[c][n].at = "sent" BY <1>1 DEF SendsNothing
  <2>2. calls[c] \in Seq(Call) BY DEF CallsOK
  <2>3. n \in Nat BY <2>1, <2>2
  <2>4. Told(c, n) BY <2>1 DEF NoSilentLoss, Told
  <2> QED BY <2>3, <2>4 DEF KeepsTold
<1> QED BY <1>1 DEF NoSilentLoss, Told

(* A stream that only ends or loses nothing of what it holds.               *)
LEMMA ToldWhileHeld ==
  ASSUME out' = out, received \subseteq received',
         \A c \in Conn : (gone[c] => gone'[c]) /\ (closed[c] => closed'[c])
  PROVE  KeepsTold
BY DEF KeepsTold, Told

LEMMA SameCalls == ASSUME CallsOK, UNCHANGED <<calls, scope, latest>> PROVE CallsOK' /\ SendsNothing
BY DEF CallsOK, SendsNothing, InTime

LEMMA SameStreams ==
  ASSUME StreamsOK, UNCHANGED <<out, closed, gone, received>> PROVE StreamsOK' /\ KeepsTold
<1>1. StreamsOK' BY DEF StreamsOK
<1> QED BY <1>1, ToldWhileHeld

(* One call of one connection goes on.                                      *)
LEMMA OneCallTyped ==
  ASSUME CallsOK, NEW c \in Conn, NEW n \in DOMAIN calls[c], NEW r \in Call, InTime(r, scope[c]),
         calls' = [calls EXCEPT ![c] = [calls[c] EXCEPT ![n] = r]], UNCHANGED <<scope, latest>>
  PROVE  CallsOK'
<1> DEFINE s == [calls[c] EXCEPT ![n] = r]
<1>1. calls[c] \in Seq(Call) /\ calls \in [Conn -> Seq(Call)] BY DEF CallsOK
<1>2. s \in Seq(Call) /\ DOMAIN s = DOMAIN calls[c] BY <1>1
<1>3. \A k \in DOMAIN s : s[k] = IF k = n THEN r ELSE calls[c][k] BY <1>1
<1>4. calls' = [calls EXCEPT ![c] = s] OBVIOUS
<1> HIDE DEF s
<1>5. calls' \in [Conn -> Seq(Call)] BY <1>1, <1>2, <1>4
<1>6. calls'[c] = s /\ \A d \in Conn \ {c} : calls'[d] = calls[d] BY <1>1, <1>4
<1>7. ASSUME NEW d \in Conn, NEW k \in DOMAIN calls'[d] PROVE InTime(calls'[d][k], scope'[d])
  <2>1. CASE d = c BY <2>1, <1>2, <1>3, <1>6, <1>7 DEF CallsOK
  <2>2. CASE d # c BY <2>2, <1>6, <1>7 DEF CallsOK
  <2> QED BY <2>1, <2>2
<1> QED BY <1>5, <1>7 DEF CallsOK

LEMMA CallGoesOn ==
  ASSUME CallsOK, NEW c \in Conn, NEW n \in DOMAIN calls[c], NEW r \in Call, InTime(r, scope[c]),
         r.at = "sent" => calls[c][n].at = "sent",
         calls' = [calls EXCEPT ![c] = [calls[c] EXCEPT ![n] = r]], UNCHANGED <<scope, latest>>
  PROVE  CallsOK' /\ SendsNothing
<1>1. CallsOK' BY OneCallTyped
<1>2. calls[c] \in Seq(Call) /\ calls \in [Conn -> Seq(Call)] BY DEF CallsOK
<1>3. ASSUME NEW d \in Conn, NEW k \in DOMAIN calls'[d], calls'[d][k].at = "sent"
      PROVE  k \in DOMAIN calls[d] /\ calls[d][k].at = "sent"
  <2>1. CASE d = c /\ k = n BY <1>2, <1>3, <2>1
  <2>2. CASE ~(d = c /\ k = n) BY <1>2, <1>3, <2>2
  <2> QED BY <2>1, <2>2
<1> QED BY <1>1, <1>3 DEF SendsNothing

(* The types of one call.                                                   *)
LEMMA CallTyped ==
  ASSUME CallsOK, NEW c \in Conn, NEW n \in DOMAIN calls[c]
  PROVE  calls[c][n] \in Call /\ InTime(calls[c][n], scope[c])
BY DEF CallsOK

(* A client calls.                                                          *)
LEMMA CallPosted ==
  ASSUME CallsOK, NEW c \in Conn, NEW m \in Method, NEW p \in Scope \cup {NoScope},
         Posted(c, m, p), UNCHANGED <<scope, latest>>
  PROVE  CallsOK' /\ SendsNothing
<1> DEFINE r == New(c, m, p)
           s == Append(calls[c], r)
<1>1. calls[c] \in Seq(Call) /\ calls \in [Conn -> Seq(Call)] BY DEF CallsOK
<1>2. latest[c] = scope[c] /\ latest[c] \in Scope \cup {NoScope} BY DEF CallsOK
<1>3. r \in Call BY <1>2 DEF New, Call, Outcome
<1>4. InTime(r, scope[c]) /\ r.at = "none" BY <1>2 DEF New, InTime
<1>5. calls' = [calls EXCEPT ![c] = s] BY DEF Posted
<1> HIDE DEF r
<1>6. /\ s \in Seq(Call)
      /\ \A k \in DOMAIN s : \/ k \in DOMAIN calls[c] /\ s[k] = calls[c][k]
                             \/ s[k] = r
  BY <1>1, <1>3
<1> HIDE DEF s
<1>7. calls' \in [Conn -> Seq(Call)] BY <1>1, <1>5, <1>6
<1>8. calls'[c] = s /\ \A d \in Conn \ {c} : calls'[d] = calls[d] BY <1>1, <1>5
<1>9. ASSUME NEW d \in Conn, NEW k \in DOMAIN calls'[d] PROVE InTime(calls'[d][k], scope'[d])
  <2>1. CASE d = c BY <2>1, <1>4, <1>6, <1>8, <1>9 DEF CallsOK
  <2>2. CASE d # c BY <2>2, <1>8, <1>9 DEF CallsOK
  <2> QED BY <2>1, <2>2
<1>10. CallsOK' BY <1>7, <1>9 DEF CallsOK
<1>11. SendsNothing BY <1>4, <1>6, <1>8 DEF SendsNothing
<1> QED BY <1>10, <1>11

(* A step that sends nothing, takes no answer, and loses nothing it holds.  *)
LEMMA Quiet ==
  ASSUME IInv, plan' = plan, taken' = taken, CallsOK', SendsNothing, StreamsOK', KeepsTold
  PROVE  IInv'
<1>1. NoSilentLoss' BY LossKept DEF IInv
<1>2. SyncAnswersItsCall' BY DEF IInv, SyncAnswersItsCall
<1> QED BY <1>1, <1>2 DEF IInv

LEMMA InitInv == Init => IInv
<1> SUFFICES ASSUME Init PROVE IInv
  OBVIOUS
<1>1. calls \in [Conn -> Seq(Call)] /\ \A c \in Conn : calls[c] = <<>> BY DEF Init
<1>2. CallsOK BY <1>1 DEF Init, CallsOK
<1>3. out \in [Conn -> Seq(Answers)] BY DEF Init
<1>4. StreamsOK BY <1>3 DEF Init, StreamsOK, Answers
<1>5. NoSilentLoss BY <1>1 DEF NoSilentLoss
<1>6. SyncAnswersItsCall BY DEF Init, SyncAnswersItsCall
<1> QED BY <1>2, <1>4, <1>5, <1>6 DEF Init, IInv

------------------------------------------------------------------------------
(* The handler of a stream.                                                 *)

\* The client's end or the session's is closed; nothing else of the stream.
Closing ==
    /\ out' = out /\ received' = received
    /\ gone' \in [Conn -> BOOLEAN] /\ closed' \in [Conn -> BOOLEAN]
    /\ \A c \in Conn : (gone[c] => gone'[c]) /\ (closed[c] => closed'[c])

LEMMA ClosingKeeps == ASSUME StreamsOK, Closing PROVE StreamsOK' /\ KeepsTold
<1>1. KeepsTold BY ToldWhileHeld DEF Closing
<1> QED BY <1>1 DEF Closing, StreamsOK

LEMMA GoneIsClosing ==
  ASSUME StreamsOK, NEW c \in Conn, gone' = [gone EXCEPT ![c] = TRUE], UNCHANGED <<out, closed, received>>
  PROVE  Closing
BY DEF Closing, StreamsOK

LEMMA ClosedIsClosing ==
  ASSUME StreamsOK, NEW c \in Conn, closed' = [closed EXCEPT ![c] = TRUE], UNCHANGED <<out, gone, received>>
  PROVE  Closing
BY DEF Closing, StreamsOK

\* The one answer that leaves the stream reaches the client, or ends it.
LEMMA ForwardTells ==
  ASSUME StreamsOK, NEW c \in Conn, Forward(c) PROVE StreamsOK' /\ KeepsTold
<1>1. out[c] \in Seq(Answers) /\ out[c] # <<>> /\ out \in [Conn -> Seq(Answers)]
  BY DEF Forward, StreamsOK, Answers
<1>2. out' = [out EXCEPT ![c] = Tail(out[c])] /\ closed' = closed BY DEF Forward
<1>3. Tail(out[c]) \in Seq(Answers) BY <1>1
<1>4. out' \in [Conn -> Seq(Answers)] BY <1>1, <1>2, <1>3
<1>5. \/ gone' = gone /\ received' = received \cup {<<c, Head(out[c]).id>>}
      \/ gone' = [gone EXCEPT ![c] = TRUE] /\ received' = received
  BY DEF Forward
<1>6. gone \in [Conn -> BOOLEAN] /\ closed \in [Conn -> BOOLEAN] BY DEF StreamsOK
<1>7. gone' \in [Conn -> BOOLEAN] /\ \A d \in Conn : gone[d] => gone'[d] BY <1>5, <1>6
<1>8. received \subseteq received' BY <1>5
<1>9. ASSUME NEW d \in Conn, NEW n \in Nat, Told(d, n) PROVE Told(d, n)'
  <2>1. CASE <<d, n>> \in received \/ gone[d] \/ closed[d]
    BY <2>1, <1>2, <1>7, <1>8 DEF Told
  <2>2. CASE \E i \in DOMAIN out[d] : out[d][i].id = n
    <3>1. PICK i \in DOMAIN out[d] : out[d][i].id = n BY <2>2
    <3>2. CASE d # c
      <4>1. out'[d] = out[d] BY <3>2, <1>1, <1>2
      <4> QED BY <3>1, <4>1 DEF Told
    <3>3. CASE d = c /\ i = 1
      <4>1. Head(out[c]).id = n BY <1>1, <3>1, <3>3
      <4>2. CASE received' = received \cup {<<c, Head(out[c]).id>>} BY <4>1, <4>2, <3>3 DEF Told
      <4>3. CASE gone' = [gone EXCEPT ![c] = TRUE] BY <4>3, <3>3, <1>6 DEF Told
      <4> QED BY <4>2, <4>3, <1>5
    <3>4. CASE d = c /\ i # 1
      <4>1. i - 1 \in DOMAIN Tail(out[c]) /\ Tail(out[c])[i - 1] = out[c][i] BY <1>1, <3>1, <3>4
      <4>2. out'[d] = Tail(out[c]) BY <1>1, <1>2, <3>4
      <4> QED BY <3>1, <3>4, <4>1, <4>2 DEF Told
    <3> QED BY <3>2, <3>3, <3>4
  <2> QED BY <1>9, <2>1, <2>2 DEF Told
<1>10. KeepsTold BY <1>9 DEF KeepsTold
<1> QED BY <1>2, <1>4, <1>6, <1>7, <1>10 DEF StreamsOK, Answers

LEMMA ServeKeeps == ASSUME IInv, NEW c \in Conn, Serve(c) PROVE IInv'
<1> USE DEF server, clients, history
<1>0. CallsOK /\ StreamsOK BY DEF IInv
<1>1. UNCHANGED <<plan, calls, scope, latest, taken>>
  BY DEF Serve, Check, Open, Forward, EndStream, Release
<1>2. CallsOK' /\ SendsNothing BY <1>0, <1>1, SameCalls
<1>3. CASE Check(c) \/ Open(c)
  <2>1. UNCHANGED <<out, closed, gone, received>> BY <1>3 DEF Check, Open
  <2> QED BY <2>1, <1>0, <1>1, <1>2, SameStreams, Quiet
<1>4. CASE Forward(c) BY <1>4, <1>0, <1>1, <1>2, ForwardTells, Quiet
<1>5. CASE EndStream(c)
  <2>1. Closing BY <1>0, <1>5, ClosedIsClosing DEF EndStream
  <2> QED BY <2>1, <1>0, <1>1, <1>2, ClosingKeeps, Quiet
<1>6. CASE Release(c)
  <2>1. Closing BY <1>0, <1>6, GoneIsClosing DEF Release
  <2> QED BY <2>1, <1>0, <1>1, <1>2, ClosingKeeps, Quiet
<1> QED BY <1>3, <1>4, <1>5, <1>6 DEF Serve

------------------------------------------------------------------------------
(* The call.                                                                *)

(* CallGoesOn, for a step that changes calls and perhaps what the           *)
(* invariant does not read.                                                 *)
LEMMA CallQuiet ==
  ASSUME IInv, NEW c \in Conn, NEW n \in DOMAIN calls[c], NEW r \in Call,
         InTime(r, scope[c]), r.at = "sent" => calls[c][n].at = "sent",
         calls' = [calls EXCEPT ![c][n] = r],
         UNCHANGED <<plan, scope, latest, out, closed, gone, received, taken>>
  PROVE  IInv'
<1>1. CallsOK /\ StreamsOK BY DEF IInv
<1>2. calls' = [calls EXCEPT ![c] = [calls[c] EXCEPT ![n] = r]] OBVIOUS
<1>3. CallsOK' /\ SendsNothing BY <1>1, <1>2, CallGoesOn
<1>4. StreamsOK' /\ KeepsTold BY <1>1, SameStreams
<1> QED BY <1>3, <1>4, Quiet

LEMMA AcceptIs ==
  ASSUME NEW c \in Conn, NEW n \in DOMAIN calls[c], Accept(c, n)
  PROVE  \E r : /\ calls' = [calls EXCEPT ![c][n] = r]
                /\ \/ r = [calls[c][n] EXCEPT !.post = "accepted", !.at = "spawned"]
                   \/ \E p \in {"refused", "rejected"} : r = [calls[c][n] EXCEPT !.post = p]
                /\ r.post = "refused" => r.post = calls[c][n].post \/ c \notin registered
<1>1. CASE calls' = [calls EXCEPT ![c][n].post = "accepted", ![c][n].at = "spawned"]
  <2> DEFINE r == [calls[c][n] EXCEPT !.post = "accepted", !.at = "spawned"]
  <2>1. calls' = [calls EXCEPT ![c][n] = r] BY <1>1
  <2>2. r.post = "refused" => r.post = calls[c][n].post OBVIOUS
  <2> HIDE DEF r
  <2>3. r = [calls[c][n] EXCEPT !.post = "accepted", !.at = "spawned"] BY DEF r
  <2> QED BY <2>1, <2>2, <2>3
<1>2. CASE \E p \in {"refused", "rejected"} : Set(c, n, "post", p) /\ (p = "refused" => c \notin registered)
  <2>1. PICK p \in {"refused", "rejected"} : Set(c, n, "post", p) /\ (p = "refused" => c \notin registered)
    BY <1>2
  <2> DEFINE r == [calls[c][n] EXCEPT !.post = p]
  <2>2. calls' = [calls EXCEPT ![c][n] = r] BY <2>1 DEF Set
  <2>3. r.post = "refused" => r.post = calls[c][n].post \/ c \notin registered BY <2>1
  <2> HIDE DEF r
  <2>4. r = [calls[c][n] EXCEPT !.post = p] BY DEF r
  <2> QED BY <2>2, <2>3, <2>4
<1> QED BY <1>1, <1>2 DEF Accept

LEMMA AcceptKeeps ==
  ASSUME IInv, NEW c \in Conn, NEW n \in DOMAIN calls[c], Accept(c, n) PROVE IInv'
<1> USE DEF server, clients, history
<1>1. calls[c][n] \in Call /\ InTime(calls[c][n], scope[c]) BY CallTyped DEF IInv
<1>2. calls[c][n].at = "none" /\ scope[c] \in calls[c][n].current BY <1>1 DEF Accept, InTime
<1>3. PICK r : /\ calls' = [calls EXCEPT ![c][n] = r]
               /\ \/ r = [calls[c][n] EXCEPT !.post = "accepted", !.at = "spawned"]
                  \/ \E p \in {"refused", "rejected"} : r = [calls[c][n] EXCEPT !.post = p]
  BY AcceptIs
<1>4. r \in Call BY <1>1, <1>3 DEF Call
<1>5. InTime(r, scope[c]) /\ r.at # "sent" BY <1>1, <1>2, <1>3 DEF InTime, Call
<1>6. UNCHANGED <<plan, scope, latest, out, closed, gone, received, taken>> BY DEF Accept
<1> QED BY <1>3, <1>4, <1>5, <1>6, CallQuiet

LEMMA ReturnKeeps ==
  ASSUME IInv, NEW c \in Conn, NEW n \in DOMAIN calls[c], Return(c, n) PROVE IInv'
<1> USE DEF server, clients, history
<1> DEFINE r == [calls[c][n] EXCEPT !.post = "returned", !.cancelled = TRUE]
<1>1. calls[c][n] \in Call /\ InTime(calls[c][n], scope[c]) BY CallTyped DEF IInv
<1>2. r \in Call BY <1>1 DEF Call
<1>3. InTime(r, scope[c]) /\ r.at = calls[c][n].at BY <1>1 DEF InTime, Call
<1>4. calls' = [calls EXCEPT ![c][n] = r] BY DEF Return
<1>5. UNCHANGED <<plan, scope, latest, out, closed, gone, received, taken>> BY DEF Return
<1> HIDE DEF r
<1> QED BY <1>2, <1>3, <1>4, <1>5, CallQuiet

LEMMA ReadLineKeeps ==
  ASSUME IInv, NEW c \in Conn, NEW n \in DOMAIN calls[c], ReadLine(c, n) PROVE IInv'
<1> USE DEF server, clients, history
<1> DEFINE r == [calls[c][n] EXCEPT !.post = "read", !.at = "spawned"]
<1>1. calls[c][n] \in Call /\ InTime(calls[c][n], scope[c]) BY CallTyped DEF IInv
<1>2. scope[c] \in calls[c][n].current BY <1>1 DEF ReadLine, InTime
<1>3. r \in Call BY <1>1 DEF Call
<1>4. InTime(r, scope[c]) /\ r.at # "sent" BY <1>1, <1>2 DEF InTime, Call
<1>5. calls' = [calls EXCEPT ![c][n] = r] BY DEF ReadLine
<1>6. UNCHANGED <<plan, scope, latest, out, closed, gone, received, taken>> BY DEF ReadLine
<1> HIDE DEF r
<1> QED BY <1>3, <1>4, <1>5, <1>6, CallQuiet

(* What a call reads as the scope is the session's, or torn.                *)
LEMMA ReadsItsScope ==
  ASSUME IInv, NEW c \in Conn, NEW own \in Readable(c)
  PROVE  own \in {scope[c], Torn} /\ own \in Scope \cup {NoScope, Torn}
BY DEF Readable, IInv, CallsOK

LEMMA BeginKeeps ==
  ASSUME IInv, NEW c \in Conn, NEW n \in DOMAIN calls[c], Begin(c, n) PROVE IInv'
<1> USE DEF server, clients, history
<1>1. calls[c][n] \in Call /\ InTime(calls[c][n], scope[c]) BY CallTyped DEF IInv
<1>2. calls[c][n].at = "spawned" BY DEF Begin
<1>3. PICK own \in Readable(c), l \in {"handshake", "answering", "silent", "tool"}, o \in Outcome :
         calls' = [calls EXCEPT ![c][n].own = own, ![c][n].at = l, ![c][n].outcome = o]
  BY DEF Begin, Outcome
<1> DEFINE r == [calls[c][n] EXCEPT !.own = own, !.at = l, !.outcome = o]
<1>4. own \in {scope[c], Torn} /\ own \in Scope \cup {NoScope, Torn} BY ReadsItsScope
<1>5. r \in Call BY <1>1, <1>4 DEF Call
<1>6. InTime(r, scope[c]) /\ r.at # "sent" BY <1>1, <1>2, <1>4 DEF InTime, Call
<1>7. calls' = [calls EXCEPT ![c][n] = r] BY <1>3
<1>8. UNCHANGED <<plan, scope, latest, out, closed, gone, received, taken>> BY DEF Begin
<1> HIDE DEF r
<1> QED BY <1>5, <1>6, <1>7, <1>8, CallQuiet

(* A call that is answered, or ends without an answer.                      *)
LEMMA Concluded ==
  ASSUME IInv, NEW c \in Conn, NEW n \in DOMAIN calls[c], calls[c][n].post # "sent",
         NEW l \in {"answering", "silent"}, NEW o \in Outcome
  PROVE  LET r == [calls[c][n] EXCEPT !.at = l, !.outcome = o]
         IN  r \in Call /\ InTime(r, scope[c]) /\ r.at # "sent"
<1> DEFINE r == [calls[c][n] EXCEPT !.at = l, !.outcome = o]
<1>1. calls[c][n] \in Call /\ InTime(calls[c][n], scope[c]) BY CallTyped DEF IInv
<1>2. r \in Call BY <1>1 DEF Call
<1>3. InTime(r, scope[c]) /\ r.at # "sent" BY <1>1 DEF InTime, Call
<1> QED BY <1>2, <1>3

(* What has been run was accepted, or read from the line.                   *)
LEMMA NotSent ==
  ASSUME IInv, NEW c \in Conn, NEW n \in DOMAIN calls[c], calls[c][n].at # "none"
  PROVE  calls[c][n].post # "sent"
BY CallTyped DEF IInv, InTime

LEMMA ConcludedKeeps ==
  ASSUME IInv, NEW c \in Conn, NEW n \in DOMAIN calls[c], calls[c][n].at # "none",
         NEW l \in {"answering", "silent"}, NEW o \in Outcome,
         calls' = [calls EXCEPT ![c][n] = [calls[c][n] EXCEPT !.at = l, !.outcome = o]],
         UNCHANGED <<plan, scope, latest, out, closed, gone, received, taken>>
  PROVE  IInv'
<1> DEFINE r == [calls[c][n] EXCEPT !.at = l, !.outcome = o]
<1>1. r \in Call /\ InTime(r, scope[c]) /\ r.at # "sent" BY Concluded, NotSent
<1>2. calls' = [calls EXCEPT ![c][n] = r] OBVIOUS
<1> HIDE DEF r
<1> QED BY <1>1, <1>2, CallQuiet

(* The two ways in which the actions write the end of a call.               *)
LEMMA Ends ==
  ASSUME IInv, NEW c \in Conn, NEW n \in DOMAIN calls[c]
  PROVE  /\ \A o \in Outcome : Answer(c, n, o) =
              [calls EXCEPT ![c][n] = [calls[c][n] EXCEPT !.at = "answering", !.outcome = o]]
         /\ \A l \in {"silent", "sent"} : Set(c, n, "at", l) =>
              calls' = [calls EXCEPT ![c][n] = [calls[c][n] EXCEPT !.at = l, !.outcome = calls[c][n].outcome]]
         /\ calls[c][n].outcome \in Outcome
<1>1. calls[c][n] \in Call BY CallTyped DEF IInv
<1>2. calls[c][n].outcome \in Outcome BY <1>1 DEF Call
<1>3. ASSUME NEW l \in {"silent", "sent"}
      PROVE  [calls[c][n] EXCEPT !["at"] = l] = [calls[c][n] EXCEPT !.at = l, !.outcome = calls[c][n].outcome]
  BY <1>1 DEF Call
<1>4. ASSUME NEW l \in {"silent", "sent"}, Set(c, n, "at", l)
      PROVE  calls' = [calls EXCEPT ![c][n] = [calls[c][n] EXCEPT !.at = l, !.outcome = calls[c][n].outcome]]
  BY <1>3, <1>4 DEF Set
<1>5. \A o \in Outcome : Answer(c, n, o) =
         [calls EXCEPT ![c][n] = [calls[c][n] EXCEPT !.at = "answering", !.outcome = o]]
  BY DEF Answer
<1> QED BY <1>2, <1>4, <1>5

LEMMA HandshakeKeeps ==
  ASSUME IInv, NEW c \in Conn, NEW n \in DOMAIN calls[c], Handshake(c, n) PROVE IInv'
<1> USE DEF server, clients, history
<1>1. UNCHANGED <<plan, scope, latest, out, closed, gone, received, taken>> BY DEF Handshake
<1>2. calls[c][n].at # "none" BY DEF Handshake
<1>3. CASE calls' = Answer(c, n, "ok")
  <2>1. calls' = [calls EXCEPT ![c][n] = [calls[c][n] EXCEPT !.at = "answering", !.outcome = "ok"]]
    BY <1>3, Ends DEF Outcome
  <2> QED BY <1>1, <1>2, <2>1, ConcludedKeeps DEF Outcome
<1>4. CASE Set(c, n, "at", "silent")
  <2>1. /\ calls' = [calls EXCEPT ![c][n] = [calls[c][n] EXCEPT !.at = "silent", !.outcome = calls[c][n].outcome]]
        /\ calls[c][n].outcome \in Outcome
    BY <1>4, Ends
  <2> QED BY <1>1, <1>2, <2>1, ConcludedKeeps
<1> QED BY <1>3, <1>4 DEF Handshake

(* The scope is created: every call that waits may see it.                  *)
LEMMA ScopeCreated ==
  ASSUME IInv, NEW c \in Conn, NEW n \in DOMAIN calls[c], calls[c][n].at = "tool",
         NEW p \in Scope, scope' = [scope EXCEPT ![c] = p], latest' = [latest EXCEPT ![c] = p],
         calls' = [calls EXCEPT ![c] = [Offered(c, p) EXCEPT ![n].at = "answering", ![n].outcome = "ok"]]
  PROVE  CallsOK' /\ SendsNothing
<1> DEFINE offer(r) == IF r.at \in {"none", "spawned", "tool"} THEN [r EXCEPT !.current = @ \cup {p}] ELSE r
           done(r)  == [r EXCEPT !.at = "answering", !.outcome = "ok"]
           s == [k \in DOMAIN calls[c] |-> IF k = n THEN done(offer(calls[c][k])) ELSE offer(calls[c][k])]
<1>1. CallsOK /\ calls[c] \in Seq(Call) /\ calls \in [Conn -> Seq(Call)] BY DEF IInv, CallsOK
<1>2. p # NoScope BY ScopeAssumption
<1>3. Offered(c, p) = [k \in DOMAIN calls[c] |-> offer(calls[c][k])] BY <1>2 DEF Offered
<1>4. calls' = [calls EXCEPT ![c] = s] BY <1>3
<1>5. ASSUME NEW r \in Call, InTime(r, scope[c])
      PROVE  /\ offer(r) \in Call /\ InTime(offer(r), p) /\ offer(r).at = r.at
             /\ done(offer(r)) \in Call
  <2>1. offer(r) \in Call BY <1>5 DEF Call
  <2>2. InTime(offer(r), p) /\ offer(r).at = r.at BY <1>5 DEF InTime, Call
  <2> HIDE DEF offer
  <2>3. done(offer(r)) \in Call BY <2>1 DEF Call, Outcome
  <2> QED BY <2>1, <2>2, <2>3
<1>6. \A k \in DOMAIN calls[c] : calls[c][k] \in Call /\ InTime(calls[c][k], scope[c])
  BY <1>1, CallTyped
<1>7. calls[c][n].post # "sent" BY NotSent
<1>8. /\ InTime(done(offer(calls[c][n])), p)
      /\ done(offer(calls[c][n])).at # "sent"
  BY <1>6, <1>7 DEF InTime, Call
<1> HIDE DEF offer, done
<1>9. \A k \in DOMAIN s : /\ s[k] \in Call /\ InTime(s[k], p)
                          /\ s[k].at = "sent" => calls[c][k].at = "sent"
  BY <1>5, <1>6, <1>8
<1>10. s \in Seq(Call) /\ DOMAIN s = DOMAIN calls[c]
  <2>1. PICK len \in Nat : DOMAIN calls[c] = 1..len BY <1>1
  <2>2. s \in [1..len -> Call] BY <1>9, <2>1
  <2> QED BY <2>1, <2>2
<1> HIDE DEF s
<1>11. calls'[c] = s /\ \A d \in Conn \ {c} : calls'[d] = calls[d] BY <1>1, <1>4
<1>12. calls' \in [Conn -> Seq(Call)] BY <1>1, <1>4, <1>10
<1>13. /\ scope \in [Conn -> Scope \cup {NoScope}] /\ latest = scope
  BY <1>1 DEF CallsOK
<1>14. ASSUME NEW d \in Conn, NEW k \in DOMAIN calls'[d] PROVE InTime(calls'[d][k], scope'[d])
  <2>1. CASE d = c BY <2>1, <1>9, <1>11, <1>13, <1>14
  <2>2. CASE d # c BY <2>2, <1>1, <1>11, <1>13, <1>14 DEF CallsOK
  <2> QED BY <2>1, <2>2
<1>15. CallsOK' BY <1>12, <1>13, <1>14 DEF CallsOK
<1>16. SendsNothing BY <1>9, <1>10, <1>11 DEF SendsNothing
<1> QED BY <1>15, <1>16

LEMMA ExecuteKeeps ==
  ASSUME IInv, NEW c \in Conn, NEW n \in DOMAIN calls[c], Execute(c, n) PROVE IInv'
<1> USE DEF server, clients, history
<1>1. UNCHANGED <<plan, out, closed, gone, received, taken>> BY DEF Execute
<1>2. calls[c][n].at = "tool" BY DEF Execute
<1>3. ASSUME NEW o \in Outcome, calls' = Answer(c, n, o), UNCHANGED <<scope, latest>> PROVE IInv'
  <2>1. calls' = [calls EXCEPT ![c][n] = [calls[c][n] EXCEPT !.at = "answering", !.outcome = o]]
    BY <1>3 DEF Answer
  <2>2. UNCHANGED <<plan, scope, latest, out, closed, gone, received, taken>> BY <1>1, <1>3
  <2>3. calls[c][n].at # "none" /\ o \in Outcome BY <1>2, <1>3
  <2> QED BY <2>1, <2>2, <2>3, ConcludedKeeps, Zenon
<1>4. CASE Set(c, n, "at", "silent") /\ UNCHANGED <<scope, latest>>
  <2>1. /\ calls' = [calls EXCEPT ![c][n] = [calls[c][n] EXCEPT !.at = "silent", !.outcome = calls[c][n].outcome]]
        /\ calls[c][n].outcome \in Outcome
    BY <1>4, Ends
  <2> QED BY <1>1, <1>2, <1>4, <2>1, ConcludedKeeps
<1>5. ASSUME NEW p \in Scope \cup {NoScope}, scope' = ScopeSet(c, p),
             latest' = IF p = NoScope THEN latest ELSE [latest EXCEPT ![c] = p],
             calls' = [calls EXCEPT ![c] = [Offered(c, p) EXCEPT ![n].at = "answering", ![n].outcome = "ok"]]
      PROVE  IInv'
  <2>1. CASE p = NoScope
    <3>1. UNCHANGED <<scope, latest>> BY <1>5, <2>1 DEF ScopeSet
    <3>2. calls[c] \in Seq(Call) /\ calls \in [Conn -> Seq(Call)] BY DEF IInv, CallsOK
    <3>3. Offered(c, p) = calls[c] BY <2>1, <3>2 DEF Offered
    <3>4. calls' = [calls EXCEPT ![c][n] = [calls[c][n] EXCEPT !.at = "answering", !.outcome = "ok"]]
      BY <1>5, <3>2, <3>3
    <3> QED BY <1>1, <1>2, <3>1, <3>4, ConcludedKeeps DEF Outcome
  <2>2. CASE p # NoScope
    <3>1. scope' = [scope EXCEPT ![c] = p] /\ latest' = [latest EXCEPT ![c] = p]
      BY <1>5, <2>2 DEF ScopeSet
    <3>2. p \in Scope BY <2>2
    <3>3. CallsOK' /\ SendsNothing BY <1>2, <1>5, <3>1, <3>2, ScopeCreated
    <3>4. StreamsOK' /\ KeepsTold BY <1>1, SameStreams DEF IInv
    <3> QED BY <1>1, <3>3, <3>4, Quiet
  <2> QED BY <2>1, <2>2
<1>6. calls[c][n].arg \in Scope \cup {NoScope} BY CallTyped DEF IInv, Call
<1>7. CASE calls' = Answer(c, n, "error") /\ UNCHANGED <<scope, latest>>
  BY <1>3, <1>7 DEF Outcome
<1>8. CASE calls' = Answer(c, n, "ok") /\ UNCHANGED <<scope, latest>>
  BY <1>3, <1>8 DEF Outcome
<1>9. CASE /\ scope' = ScopeSet(c, calls[c][n].arg)
           /\ latest' = IF calls[c][n].arg = NoScope THEN latest ELSE [latest EXCEPT ![c] = calls[c][n].arg]
           /\ calls' = [calls EXCEPT ![c] =
                [Offered(c, calls[c][n].arg) EXCEPT ![n].at = "answering", ![n].outcome = "ok"]]
  BY <1>5, <1>6, <1>9
<1> QED BY <1>4, <1>7, <1>8, <1>9 DEF Execute

(* A call is over: its answer is on its way, or no more will come.          *)
LEMMA SendKeeps ==
  ASSUME IInv, NEW c \in Conn, NEW n \in DOMAIN calls[c], Send(c, n) PROVE IInv'
<1> USE DEF server, clients, history
<1> DEFINE r == [calls[c][n] EXCEPT !.at = "sent", !.outcome = calls[c][n].outcome]
           a == [id |-> n, outcome |-> calls[c][n].outcome]
<1>0. CallsOK /\ StreamsOK /\ NoSilentLoss BY DEF IInv
<1>1. calls[c] \in Seq(Call) /\ calls \in [Conn -> Seq(Call)] /\ n \in Nat BY <1>0 DEF CallsOK
<1>2. UNCHANGED <<plan, scope, latest, gone, taken>> BY DEF Send
<1>3. calls' = [calls EXCEPT ![c][n] = r] /\ calls[c][n].outcome \in Outcome
  BY Ends DEF Send
<1>4. calls[c][n] \in Call /\ InTime(calls[c][n], scope[c]) /\ calls[c][n].at = "answering"
  BY <1>0, CallTyped DEF Send
<1>5. r \in Call /\ InTime(r, scope[c]) BY <1>3, <1>4 DEF InTime, Call
<1>6. calls' = [calls EXCEPT ![c] = [calls[c] EXCEPT ![n] = r]] BY <1>3
<1> HIDE DEF r
<1>7. CallsOK' BY <1>0, <1>1, <1>2, <1>5, <1>6, OneCallTyped
<1>8. out \in [Conn -> Seq(Answers)] /\ closed \in [Conn -> BOOLEAN] /\ a \in Answers
  BY <1>0, <1>1, <1>3 DEF StreamsOK, Answers
<1>9. \/ received' = received \cup {<<c, n>>} /\ UNCHANGED <<out, closed>>
      \/ closed[c] /\ UNCHANGED <<out, closed, received>>
      \/ out' = [out EXCEPT ![c] = Append(out[c], a)] /\ UNCHANGED <<closed, received>>
      \/ closed' = [closed EXCEPT ![c] = TRUE] /\ UNCHANGED <<out, received>>
  BY DEF Send, Full
<1> HIDE DEF a
<1>10. StreamsOK' /\ KeepsTold
  <2>1. CASE out' = out
    <3>1. closed' \in [Conn -> BOOLEAN] /\ \A d \in Conn : closed[d] => closed'[d]
      BY <1>8, <1>9, <2>1
    <3>2. received \subseteq received' BY <1>9
    <3> QED BY <1>0, <1>2, <2>1, <3>1, <3>2, ToldWhileHeld DEF StreamsOK
  <2>2. CASE out' = [out EXCEPT ![c] = Append(out[c], a)] /\ UNCHANGED <<closed, received>>
    <3>1. Append(out[c], a) \in Seq(Answers) BY <1>8
    <3>2. out' \in [Conn -> Seq(Answers)] BY <1>8, <2>2, <3>1
    <3>3. \A d \in Conn : \A i \in DOMAIN out[d] : i \in DOMAIN out'[d] /\ out'[d][i] = out[d][i]
      <4> SUFFICES ASSUME NEW d \in Conn, NEW i \in DOMAIN out[d]
                   PROVE  i \in DOMAIN out'[d] /\ out'[d][i] = out[d][i]
        OBVIOUS
      <4>1. CASE d = c BY <1>8, <2>2, <4>1
      <4>2. CASE d # c BY <1>8, <2>2, <4>2
      <4> QED BY <4>1, <4>2
    <3>4. KeepsTold BY <1>2, <2>2, <3>3 DEF KeepsTold, Told
    <3> QED BY <1>0, <1>2, <2>2, <3>2, <3>4 DEF StreamsOK, Answers
  <2> QED BY <1>9, <2>1, <2>2
<1>11. Told(c, n)'
  <2>1. CASE received' = received \cup {<<c, n>>} BY <2>1 DEF Told
  <2>2. CASE closed[c] /\ UNCHANGED closed BY <2>2 DEF Told
  <2>3. CASE closed' = [closed EXCEPT ![c] = TRUE] BY <1>8, <2>3 DEF Told
  <2>4. CASE out' = [out EXCEPT ![c] = Append(out[c], a)]
    <3>1. /\ out'[c] = Append(out[c], a)
          /\ Len(out[c]) + 1 \in DOMAIN Append(out[c], a)
          /\ Append(out[c], a)[Len(out[c]) + 1] = a
      BY <1>8, <2>4
    <3>2. a.id = n BY DEF a
    <3> QED BY <3>1, <3>2 DEF Told
  <2> QED BY <1>9, <2>1, <2>2, <2>3, <2>4
<1>12. ASSUME NEW d \in Conn, NEW k \in DOMAIN calls'[d], calls'[d][k].at = "sent"
       PROVE  Told(d, k)'
  <2>1. CASE d = c /\ k = n BY <1>11, <2>1
  <2>2. CASE ~(d = c /\ k = n)
    <3>1. k \in DOMAIN calls[d] /\ calls'[d][k] = calls[d][k] BY <1>1, <1>6, <1>12, <2>2
    <3>2. calls[d] \in Seq(Call) BY <1>0 DEF CallsOK
    <3>3. k \in Nat BY <3>1, <3>2
    <3>4. Told(d, k) BY <1>0, <1>12, <3>1 DEF NoSilentLoss, Told
    <3> QED BY <1>10, <3>3, <3>4 DEF KeepsTold
  <2> QED BY <2>1, <2>2
<1>13. NoSilentLoss' BY <1>12 DEF NoSilentLoss, Told
<1>14. SyncAnswersItsCall' BY <1>2 DEF IInv, SyncAnswersItsCall
<1> QED BY <1>2, <1>7, <1>10, <1>13, <1>14 DEF IInv

------------------------------------------------------------------------------
(* The clients.                                                             *)

(* A client calls, or closes its end, or goes on elsewhere.                 *)
LEMMA PostedKeeps ==
  ASSUME IInv, NEW c \in Conn, NEW m \in Method, NEW p \in Scope \cup {NoScope}, Posted(c, m, p),
         UNCHANGED <<plan, scope, latest, out, closed, gone, received, taken>>
  PROVE  IInv'
<1>1. CallsOK /\ StreamsOK BY DEF IInv
<1>2. CallsOK' /\ SendsNothing BY <1>1, CallPosted
<1>3. StreamsOK' /\ KeepsTold BY <1>1, SameStreams
<1> QED BY <1>2, <1>3, Quiet

LEMMA LeavesKeeps ==
  ASSUME IInv, NEW c \in Conn, gone' = gone \/ gone' = [gone EXCEPT ![c] = TRUE],
         UNCHANGED <<plan, calls, scope, latest, out, closed, received, taken>>
  PROVE  IInv'
<1>1. CallsOK /\ StreamsOK BY DEF IInv
<1>2. CallsOK' /\ SendsNothing BY <1>1, SameCalls
<1>3. Closing BY <1>1, GoneIsClosing DEF Closing, StreamsOK
<1>4. StreamsOK' /\ KeepsTold BY <1>1, <1>3, ClosingKeeps
<1> QED BY <1>2, <1>4, Quiet

LEMMA HostCallKeeps == ASSUME IInv, NEW c \in Conn, HostCall(c) PROVE IInv'
<1> USE DEF server, clients, history
<1>1. PICK m \in plan.methods, p \in Scope \cup {NoScope} : Posted(c, m, p) BY DEF HostCall
<1>2. m \in Method BY PlansAssumption DEF IInv
<1>3. UNCHANGED <<plan, scope, latest, out, closed, gone, received, taken>> BY DEF HostCall
<1> QED BY <1>1, <1>2, <1>3, PostedKeeps

(* The scripts of the hooks name methods.                                   *)
LEMMA ScriptIsMethods ==
  ASSUME NEW c \in Conn, Hook(c), NEW n \in Nat, n < Len(Script(c))
  PROVE  Script(c)[n + 1] \in Method
<1>1. CASE peer[c] = "start"
  <2>1. Script(c) = <<"create_session", "scan">> BY <1>1 DEF Script
  <2> QED BY <2>1 DEF Method, Tools
<1>2. CASE peer[c] = "capture"
  <2>1. Script(c) = <<"retain">> BY <1>2 DEF Script
  <2> QED BY <2>1 DEF Method, Tools
<1>3. CASE peer[c] = "stop"
  <2>1. Script(c) = <<"finalize_session", "retain">> \/ Script(c) = <<"finalize_session">>
    BY <1>3 DEF Script
  <2> QED BY <2>1 DEF Method, Tools
<1> QED BY <1>1, <1>2, <1>3 DEF Hook

LEMMA HookCallKeeps == ASSUME IInv, NEW c \in Conn, HookCall(c) PROVE IInv'
<1> USE DEF server, clients, history
<1> DEFINE m == Script(c)[Len(calls[c]) + 1]
<1>1. PICK p \in Scope \cup {NoScope} : Posted(c, m, p) BY DEF HookCall
<1>2. calls[c] \in Seq(Call) BY DEF IInv, CallsOK
<1>3. m \in Method BY <1>2, ScriptIsMethods DEF HookCall
<1>4. UNCHANGED <<plan, scope, latest, out, closed, gone, received, taken>> BY DEF HookCall, At
<1> HIDE DEF m
<1> QED BY <1>1, <1>3, <1>4, PostedKeeps

(* The request is over; the call is marked, if there is one.                *)
LEMMA PostDoneKeeps == ASSUME IInv, NEW c \in Conn, PostDone(c) PROVE IInv'
<1> USE DEF server, clients, history
<1> DEFINE n == Len(calls[c])
           r == [calls[c][n] EXCEPT !.cancelled = TRUE]
<1>1. calls[c] \in Seq(Call) /\ calls \in [Conn -> Seq(Call)] BY DEF IInv, CallsOK
<1>2. UNCHANGED <<plan, scope, latest, out, closed, gone, received, taken>> BY DEF PostDone, At
<1>3. CASE Set(c, n, "cancelled", TRUE) /\ n \notin DOMAIN calls[c]
  <2>1. calls' = calls BY <1>1, <1>3 DEF Set
  <2> QED BY <1>2, <2>1, LeavesKeeps
<1>4. CASE Set(c, n, "cancelled", TRUE) /\ n \in DOMAIN calls[c]
  <2>1. calls[c][n] \in Call /\ InTime(calls[c][n], scope[c]) BY <1>4, CallTyped DEF IInv
  <2>2. r \in Call BY <2>1 DEF Call
  <2>3. InTime(r, scope[c]) /\ r.at = calls[c][n].at BY <2>1 DEF InTime, Call
  <2>4. calls' = [calls EXCEPT ![c][n] = r] BY <1>4 DEF Set
  <2> HIDE DEF r
  <2> QED BY <1>2, <1>4, <2>2, <2>3, <2>4, CallQuiet
<1>5. CASE calls' = calls BY <1>2, <1>5, LeavesKeeps
<1> QED BY <1>3, <1>4, <1>5 DEF PostDone

(* CallToolSync takes only what Matches.                                    *)
LEMMA ReceiveKeeps == ASSUME IInv, NEW c \in Conn, Receive(c) PROVE IInv'
<1> USE DEF server, clients, history
<1>1. UNCHANGED <<plan, calls, scope, latest, out, closed, gone, received>> BY DEF Receive
<1>2. CallsOK' /\ SendsNothing BY <1>1, SameCalls DEF IInv
<1>3. StreamsOK' /\ KeepsTold BY <1>1, SameStreams DEF IInv
<1>4. NoSilentLoss' BY <1>2, <1>3, LossKept DEF IInv
<1>5. \A t \in taken' : t \in taken \/ \E n, k : t = <<c, n, k>> /\ n = k
  BY DEF Receive, Matches
<1>6. SyncAnswersItsCall' BY <1>5 DEF IInv, SyncAnswersItsCall
<1> QED BY <1>1, <1>2, <1>3, <1>4, <1>6 DEF IInv

LEMMA UseKeeps == ASSUME IInv, NEW c \in Conn, Use(c) PROVE IInv'
<1> USE DEF server, clients, history
<1>1. CASE Connect(c) \/ Connected(c) \/ ConnectFails(c) \/ HostLeaves(c)
           \/ StreamCancelled(c) \/ GiveUp(c) \/ HookEnds(c)
  <2>1. UNCHANGED <<plan, calls, scope, latest, out, closed, received, taken>>
    BY <1>1 DEF Connect, Connected, ConnectFails, HostLeaves, StreamCancelled, GiveUp, HookEnds
  <2>2. gone' = gone \/ gone' = [gone EXCEPT ![c] = TRUE]
    BY <1>1 DEF Connect, Connected, ConnectFails, HostLeaves, StreamCancelled, GiveUp, HookEnds
  <2> QED BY <2>1, <2>2, LeavesKeeps
<1>2. CASE HostCall(c) BY <1>2, HostCallKeeps
<1>3. CASE HookCall(c) BY <1>3, HookCallKeeps
<1>4. CASE PostDone(c) BY <1>4, PostDoneKeeps
<1>5. CASE Receive(c) BY <1>5, ReceiveKeeps
<1> QED BY <1>1, <1>2, <1>3, <1>4, <1>5 DEF Use

LEMMA RunKeeps ==
  ASSUME IInv, NEW c \in Conn, NEW n \in DOMAIN calls[c], Run(c, n) PROVE IInv'
<1>1. CASE Accept(c, n) BY <1>1, AcceptKeeps
<1>2. CASE Return(c, n) BY <1>2, ReturnKeeps
<1>3. CASE ReadLine(c, n) BY <1>3, ReadLineKeeps
<1>4. CASE Begin(c, n) BY <1>4, BeginKeeps
<1>5. CASE Handshake(c, n) BY <1>5, HandshakeKeeps
<1>6. CASE Execute(c, n) BY <1>6, ExecuteKeeps
<1>7. CASE Send(c, n) BY <1>7, SendKeeps
<1> QED BY <1>1, <1>2, <1>3, <1>4, <1>5, <1>6, <1>7 DEF Run

(* Every step of clients, requests and streams keeps the invariant.         *)
LEMMA StepInv == IInv /\ [Next]_vars => IInv'
<1> SUFFICES ASSUME IInv, [Next]_vars PROVE IInv'
  OBVIOUS
<1>1. CASE UNCHANGED vars
  <2>1. UNCHANGED <<plan, calls, scope, latest, out, closed, gone, received, taken>>
    BY <1>1 DEF vars, server, clients, history
  <2>2. CallsOK' /\ SendsNothing BY <2>1, SameCalls DEF IInv
  <2>3. StreamsOK' /\ KeepsTold BY <2>1, SameStreams DEF IInv
  <2> QED BY <2>1, <2>2, <2>3, Quiet
<1>2. CASE Next
  <2>1. PICK c \in Conn : Serve(c) \/ Use(c) \/ \E n \in DOMAIN calls[c] : Run(c, n)
    BY <1>2 DEF Next
  <2>2. CASE Serve(c) BY <2>2, ServeKeeps
  <2>3. CASE Use(c) BY <2>3, UseKeeps
  <2>4. CASE \E n \in DOMAIN calls[c] : Run(c, n) BY <2>4, RunKeeps
  <2> QED BY <2>1, <2>2, <2>3, <2>4
<1> QED BY <1>1, <1>2

(* The inductive invariant holds in every state, for any connections,       *)
(* scopes, clients and sizes, and whatever fails (mcp/server.go, session.go,*)
(* client.go).                                                              *)
THEOREM Invariance == Spec => []IInv
BY InitInv, StepInv, PTL DEF Spec

(* Session.send and handleSSE: an answer that was sent is with the client   *)
(* or on its way, or the session has ended.                                 *)
THEOREM NothingLostInSilence == Spec => []NoSilentLoss
<1>1. IInv => NoSilentLoss BY DEF IInv
<1> QED BY <1>1, Invariance, PTL

(* CallToolSync: the answer taken is the answer to the call it made.        *)
THEOREM SyncCallsMatch == Spec => []SyncAnswersItsCall
<1>1. IInv => SyncAnswersItsCall BY DEF IInv
<1> QED BY <1>1, Invariance, PTL

(* Dispatch and create_session: the scope a tool is given is one that its   *)
(* session had since the call was posted, unless it was read while written. *)
THEOREM ScopesAreCurrent == Spec => []ScopeIsCurrent
<1>1. IInv => ScopeIsCurrent
  BY DEF IInv, CallsOK, InTime, ScopeIsCurrent
<1> QED BY <1>1, Invariance, PTL

------------------------------------------------------------------------------
(* What a step of a request does to its call, and leaves alone.             *)

\* Calls are where they were, but for call n of c.
Goes(c, n) ==
    /\ \A d \in Conn : DOMAIN calls'[d] = DOMAIN calls[d]
    /\ \A d \in Conn : \A k \in DOMAIN calls[d] :
          ~(d = c /\ k = n) => /\ calls'[d][k].at = calls[d][k].at
                               /\ calls'[d][k].post = calls[d][k].post
                               /\ calls'[d][k].outcome = calls[d][k].outcome

Running == {"spawned", "handshake", "tool"}

Away    == {"refused", "rejected"}

\* What has become of the call, for whoever made it.
Becomes(old, new) ==
    \/ old.at = "none" /\ old.post \notin Away /\ new.at \in Running
    \/ old.at = "none" /\ old.post = "sent" /\ new.at = "none" /\ new.post \in Away
    \/ old.at \in Running /\ new.at \in Running
    \/ old.at \in Running /\ new.at = "silent"
    \/ old.at \in Running /\ new.at = "answering" /\ new.outcome \in {"ok", "error"}
    \/ new.at = old.at /\ new.outcome = old.outcome /\ \A p \in Away : new.post = p <=> old.post = p

NotCalls == <<plan, handler, client, registered, out, closed, gone, inbox, received, taken>>

LEMMA OneGoes ==
  ASSUME IInv, NEW c \in Conn, NEW n \in DOMAIN calls[c], NEW r, calls' = [calls EXCEPT ![c][n] = r]
  PROVE  Goes(c, n) /\ calls'[c][n] = r
<1>1. calls[c] \in Seq(Call) /\ calls \in [Conn -> Seq(Call)] BY DEF IInv, CallsOK
<1> DEFINE s == [calls[c] EXCEPT ![n] = r]
<1>2. DOMAIN s = DOMAIN calls[c] /\ \A k \in DOMAIN s : s[k] = IF k = n THEN r ELSE calls[c][k]
  BY <1>1
<1>3. calls' = [calls EXCEPT ![c] = s] OBVIOUS
<1> HIDE DEF s
<1>4. calls'[c] = s /\ \A d \in Conn \ {c} : calls'[d] = calls[d] BY <1>1, <1>3
<1> QED BY <1>2, <1>4 DEF Goes

LEMMA AcceptGoes ==
  ASSUME IInv, NEW c \in Conn, NEW n \in DOMAIN calls[c], Accept(c, n)
  PROVE  /\ Goes(c, n) /\ Becomes(calls[c][n], calls'[c][n]) /\ UNCHANGED NotCalls
         /\ calls'[c][n].post = "refused" => Streamed(c) /\ c \notin registered
<1> USE DEF server, clients, history
<1>1. calls[c][n] \in Call /\ InTime(calls[c][n], scope[c]) BY CallTyped DEF IInv
<1>2. calls[c][n].at = "none" /\ calls[c][n].post = "sent" /\ Streamed(c) BY <1>1 DEF Accept, InTime
<1>3. PICK r : /\ calls' = [calls EXCEPT ![c][n] = r]
               /\ \/ r = [calls[c][n] EXCEPT !.post = "accepted", !.at = "spawned"]
                  \/ \E p \in {"refused", "rejected"} : r = [calls[c][n] EXCEPT !.post = p]
               /\ r.post = "refused" => r.post = calls[c][n].post \/ c \notin registered
  BY AcceptIs
<1>4. Becomes(calls[c][n], r) BY <1>1, <1>2, <1>3 DEF Call, Becomes, Running, Away
<1>5. UNCHANGED NotCalls BY DEF Accept, NotCalls
<1>6. Goes(c, n) /\ calls'[c][n] = r
  <2>1. calls' = [calls EXCEPT ![c][n] = r] BY <1>3
  <2> QED BY <2>1, OneGoes
<1>7. r.post = "refused" => c \notin registered BY <1>2, <1>3
<1> QED BY <1>2, <1>4, <1>5, <1>6, <1>7

\* The other steps refuse nothing.
Proceeds(c, n) ==
    /\ Goes(c, n) /\ Becomes(calls[c][n], calls'[c][n]) /\ UNCHANGED NotCalls
    /\ calls'[c][n].post = "refused" => calls[c][n].post = "refused" \/ calls'[c][n].at # "none"

LEMMA ReturnGoes ==
  ASSUME IInv, NEW c \in Conn, NEW n \in DOMAIN calls[c], Return(c, n) PROVE Proceeds(c, n)
<1> USE DEF server, clients, history
<1> DEFINE r == [calls[c][n] EXCEPT !.post = "returned", !.cancelled = TRUE]
<1>1. calls[c][n] \in Call /\ calls[c][n].post = "accepted" BY CallTyped DEF IInv, Return
<1>2. calls' = [calls EXCEPT ![c][n] = r] BY DEF Return
<1>3. Becomes(calls[c][n], r) /\ r.post # "refused" BY <1>1 DEF Call, Becomes, Away
<1>4. UNCHANGED NotCalls BY DEF Return, NotCalls
<1> HIDE DEF r
<1> QED BY <1>2, <1>3, <1>4, OneGoes DEF Proceeds

LEMMA ReadLineGoes ==
  ASSUME IInv, NEW c \in Conn, NEW n \in DOMAIN calls[c], ReadLine(c, n) PROVE Proceeds(c, n)
<1> USE DEF server, clients, history
<1> DEFINE r == [calls[c][n] EXCEPT !.post = "read", !.at = "spawned"]
<1>1. calls[c][n] \in Call /\ InTime(calls[c][n], scope[c]) BY CallTyped DEF IInv
<1>2. calls' = [calls EXCEPT ![c][n] = r] BY DEF ReadLine
<1>3. Becomes(calls[c][n], r) /\ r.post # "refused"
  BY <1>1 DEF Call, Becomes, InTime, ReadLine, Running, Away
<1>4. UNCHANGED NotCalls BY DEF ReadLine, NotCalls
<1> HIDE DEF r
<1> QED BY <1>2, <1>3, <1>4, OneGoes DEF Proceeds

LEMMA BeginGoes ==
  ASSUME IInv, NEW c \in Conn, NEW n \in DOMAIN calls[c], Begin(c, n) PROVE Proceeds(c, n)
<1> USE DEF server, clients, history
<1>1. calls[c][n] \in Call /\ calls[c][n].at = "spawned" BY CallTyped DEF IInv, Begin
<1>2. PICK own \in Readable(c), l \in {"handshake", "answering", "silent", "tool"}, o \in Outcome :
         /\ calls' = [calls EXCEPT ![c][n].own = own, ![c][n].at = l, ![c][n].outcome = o]
         /\ l = "answering" => o \in {"ok", "error"}
  BY DEF Begin, Outcome
<1> DEFINE r == [calls[c][n] EXCEPT !.own = own, !.at = l, !.outcome = o]
<1>3. calls' = [calls EXCEPT ![c][n] = r] BY <1>2
<1>4. Becomes(calls[c][n], r) /\ r.at # "none" BY <1>1, <1>2 DEF Call, Becomes, Running
<1>5. UNCHANGED NotCalls BY DEF Begin, NotCalls
<1> HIDE DEF r
<1> QED BY <1>3, <1>4, <1>5, OneGoes DEF Proceeds

\* A call that runs ends, with an answer or in silence.
LEMMA EndGoes ==
  ASSUME IInv, NEW c \in Conn, NEW n \in DOMAIN calls[c], calls[c][n].at \in Running, UNCHANGED NotCalls,
         \/ \E o \in {"ok", "error"} : calls' = Answer(c, n, o)
         \/ Set(c, n, "at", "silent")
  PROVE  Proceeds(c, n)
<1>1. calls[c][n] \in Call BY CallTyped DEF IInv
<1>2. PICK l \in {"answering", "silent"}, o \in Outcome :
         /\ calls' = [calls EXCEPT ![c][n] = [calls[c][n] EXCEPT !.at = l, !.outcome = o]]
         /\ l = "answering" => o \in {"ok", "error"}
  <2>1. ASSUME NEW o \in {"ok", "error"}, calls' = Answer(c, n, o)
        PROVE  calls' = [calls EXCEPT ![c][n] = [calls[c][n] EXCEPT !.at = "answering", !.outcome = o]]
    BY <2>1 DEF Answer
  <2>2. CASE Set(c, n, "at", "silent")
    <3>1. /\ calls' = [calls EXCEPT ![c][n] = [calls[c][n] EXCEPT !.at = "silent", !.outcome = calls[c][n].outcome]]
          /\ calls[c][n].outcome \in Outcome
      BY <2>2, Ends
    <3> QED BY <3>1
  <2>3. {"ok", "error"} \subseteq Outcome BY DEF Outcome
  <2> QED BY <2>1, <2>2, <2>3
<1> DEFINE r == [calls[c][n] EXCEPT !.at = l, !.outcome = o]
<1>3. calls' = [calls EXCEPT ![c][n] = r] BY <1>2
<1>4. Becomes(calls[c][n], r) /\ r.at # "none" BY <1>1, <1>2 DEF Call, Becomes
<1> HIDE DEF r
<1> QED BY <1>3, <1>4, OneGoes DEF Proceeds

LEMMA HandshakeGoes ==
  ASSUME IInv, NEW c \in Conn, NEW n \in DOMAIN calls[c], Handshake(c, n) PROVE Proceeds(c, n)
<1>1. UNCHANGED NotCalls BY DEF Handshake, NotCalls, clients, history
<1>2. calls[c][n].at \in Running BY DEF Handshake, Running
<1>3. calls' = Answer(c, n, "ok") \/ Set(c, n, "at", "silent") BY DEF Handshake
<1> QED BY <1>1, <1>2, <1>3, EndGoes

LEMMA ExecuteGoes ==
  ASSUME IInv, NEW c \in Conn, NEW n \in DOMAIN calls[c], Execute(c, n) PROVE Proceeds(c, n)
<1>1. UNCHANGED NotCalls BY DEF Execute, NotCalls, clients
<1>2. calls[c][n].at \in Running /\ calls[c][n].at = "tool" BY DEF Execute, Running
<1>3. ASSUME NEW p, calls' = [calls EXCEPT ![c] = [Offered(c, p) EXCEPT ![n].at = "answering", ![n].outcome = "ok"]]
      PROVE  Proceeds(c, n)
  <2> DEFINE offer(r) == IF r.at \in {"none", "spawned", "tool"} /\ p # NoScope
                         THEN [r EXCEPT !.current = @ \cup {p}] ELSE r
             done(r)  == [r EXCEPT !.at = "answering", !.outcome = "ok"]
             s == [k \in DOMAIN calls[c] |-> IF k = n THEN done(offer(calls[c][k])) ELSE offer(calls[c][k])]
  <2>1. Offered(c, p) = [k \in DOMAIN calls[c] |-> offer(calls[c][k])] BY DEF Offered
  <2>2. calls' = [calls EXCEPT ![c] = s] BY <1>3, <2>1
  <2>3. calls \in [Conn -> Seq(Call)] BY DEF IInv, CallsOK
  <2>4. ASSUME NEW r \in Call
        PROVE  /\ offer(r).at = r.at /\ offer(r).post = r.post /\ offer(r).outcome = r.outcome
               /\ done(offer(r)).at = "answering" /\ done(offer(r)).outcome = "ok"
    BY <2>4 DEF Call
  <2>5. \A k \in DOMAIN calls[c] : calls[c][k] \in Call BY CallTyped DEF IInv
  <2> HIDE DEF offer, done
  <2>6. DOMAIN s = DOMAIN calls[c] /\ s[n].at = "answering" /\ s[n].outcome = "ok"
    BY <2>4, <2>5
  <2>7. \A k \in DOMAIN calls[c] : k # n =>
           s[k].at = calls[c][k].at /\ s[k].post = calls[c][k].post /\ s[k].outcome = calls[c][k].outcome
    BY <2>4, <2>5
  <2> HIDE DEF s
  <2>8. calls'[c] = s /\ \A d \in Conn \ {c} : calls'[d] = calls[d] BY <2>2, <2>3
  <2>9. Goes(c, n) BY <2>6, <2>7, <2>8 DEF Goes
  <2>10. Becomes(calls[c][n], calls'[c][n]) BY <1>2, <2>6, <2>8 DEF Becomes
  <2> QED BY <1>1, <2>6, <2>8, <2>9, <2>10 DEF Proceeds
<1>4. \/ \E o \in {"ok", "error"} : calls' = Answer(c, n, o)
      \/ Set(c, n, "at", "silent")
      \/ calls' = [calls EXCEPT ![c] = [Offered(c, calls[c][n].arg) EXCEPT ![n].at = "answering", ![n].outcome = "ok"]]
  BY DEF Execute
<1> QED BY <1>1, <1>2, <1>3, <1>4, EndGoes

------------------------------------------------------------------------------
(* Answers, from the session to the client.                                 *)

\* What was sent stays sent, as it was.
SentStays ==
    \A c \in Conn : \A n \in DOMAIN calls[c] : calls[c][n].at = "sent" =>
       n \in DOMAIN calls'[c] /\ calls'[c][n].at = "sent" /\ calls'[c][n].outcome = calls[c][n].outcome

LEMMA GoesStays ==
  ASSUME NEW c \in Conn, NEW n \in DOMAIN calls[c], Goes(c, n), Becomes(calls[c][n], calls'[c][n])
  PROVE  SentStays
<1> SUFFICES ASSUME NEW d \in Conn, NEW k \in DOMAIN calls[d], calls[d][k].at = "sent"
             PROVE  /\ k \in DOMAIN calls'[d] /\ calls'[d][k].at = "sent"
                    /\ calls'[d][k].outcome = calls[d][k].outcome
  BY DEF SentStays
<1>1. CASE d = c /\ k = n BY <1>1 DEF Goes, Becomes, Running
<1>2. CASE ~(d = c /\ k = n) BY <1>2 DEF Goes
<1> QED BY <1>1, <1>2

LEMMA AnswersHeld ==
  ASSUME AnswersOK, ArrivedOK, SentStays, UNCHANGED <<out, received, inbox>>
  PROVE  AnswersOK' /\ ArrivedOK'
<1>1. AnswersOK'
  BY DEF AnswersOK, SentStays
<1>2. ArrivedOK'
  <2>1. ASSUME NEW t \in received'
        PROVE  \E c \in Conn : \E n \in DOMAIN calls'[c] : t = <<c, n>> /\ calls'[c][n].at = "sent"
    <3>1. PICK c \in Conn : \E n \in DOMAIN calls[c] : t = <<c, n>> /\ calls[c][n].at = "sent"
      BY <2>1 DEF ArrivedOK
    <3> QED BY <3>1 DEF SentStays
  <2> QED BY <2>1 DEF ArrivedOK
<1> QED BY <1>1, <1>2

LEMMA OneOfEach ==
  ASSUME AnswersOK, NEW c \in Conn, NEW i \in DOMAIN out[c], NEW j \in DOMAIN out[c], out[c][i].id = out[c][j].id
  PROVE  i = j
BY DEF AnswersOK

\* The first answer leaves the stream: no other has its call.
LEMMA ForwardHeld ==
  ASSUME IInv, AnswersOK, ArrivedOK, NEW c \in Conn, Forward(c)
  PROVE  AnswersOK' /\ ArrivedOK'
<1> DEFINE a == Head(out[c])
<1>1. out[c] \in Seq(Answers) /\ out[c] # <<>> /\ out \in [Conn -> Seq(Answers)]
  BY DEF IInv, Forward, StreamsOK, Answers
<1>2. /\ calls' = calls /\ out' = [out EXCEPT ![c] = Tail(out[c])]
      /\ received' \in {received, received \cup {<<c, a.id>>}}
      /\ inbox' = inbox \/ (inbox' = [inbox EXCEPT ![c] = Append(inbox[c], a)] /\ <<c, a.id>> \in received')
  <2>1. inbox \in [Conn -> Seq(Answers)] BY DEF ArrivedOK, Answers
  <2> QED BY <2>1 DEF Forward
<1>3. 1 \in DOMAIN out[c] /\ a = out[c][1] /\ a \in Answers BY <1>1
<1>4. \A i \in DOMAIN Tail(out[c]) : i + 1 \in DOMAIN out[c] /\ Tail(out[c])[i] = out[c][i + 1] /\ i \in Nat \ {0}
  BY <1>1
<1>5. a.id \in DOMAIN calls[c] /\ calls[c][a.id].at = "sent" BY <1>3 DEF AnswersOK
<1>6. out'[c] = Tail(out[c]) /\ \A d \in Conn \ {c} : out'[d] = out[d] BY <1>1, <1>2
<1> HIDE DEF a
<1>7. AnswersOK'
  <2> SUFFICES ASSUME NEW d \in Conn, NEW i \in DOMAIN out'[d]
               PROVE  LET n == out'[d][i].id IN
                      /\ n \in DOMAIN calls[d] /\ calls[d][n].at = "sent" /\ <<d, n>> \notin received'
                      /\ out'[d][i].outcome = calls[d][n].outcome
                      /\ \A j \in DOMAIN out'[d] : out'[d][j].id = n => j = i
    BY <1>2 DEF AnswersOK
  <2>1. CASE d # c
    <3>1. out'[d] = out[d] BY <1>6, <2>1
    <3>2. \A n : <<d, n>> \in received' => <<d, n>> \in received BY <1>2, <2>1
    <3> QED BY <3>1, <3>2 DEF AnswersOK
  <2>2. CASE d = c
    <3> DEFINE n == out'[d][i].id
    <3>1. out'[d] = Tail(out[c]) /\ i \in DOMAIN Tail(out[c]) BY <1>6, <2>2
    <3>2. i + 1 \in DOMAIN out[c] /\ out'[d][i] = out[c][i + 1] /\ i + 1 # 1 BY <1>4, <3>1
    <3>3. n # a.id BY <1>3, <3>2, OneOfEach
    <3>4. <<c, n>> \notin received' BY <1>2, <3>2, <3>3 DEF AnswersOK
    <3>5. \A j \in DOMAIN out'[d] : out'[d][j].id = n => j = i
      <4> SUFFICES ASSUME NEW j \in DOMAIN out'[d], out'[d][j].id = n PROVE j = i
        OBVIOUS
      <4>1. j + 1 \in DOMAIN out[c] /\ out'[d][j] = out[c][j + 1] /\ j \in Nat /\ i \in Nat
        BY <1>4, <3>1
      <4>2. j + 1 = i + 1 BY <3>2, <4>1, OneOfEach
      <4> QED BY <4>1, <4>2
    <3> QED BY <2>2, <3>2, <3>4, <3>5 DEF AnswersOK
  <2> QED BY <2>1, <2>2
<1>8. ArrivedOK'
  <2>1. ASSUME NEW t \in received'
        PROVE  \E d \in Conn : \E n \in DOMAIN calls'[d] : t = <<d, n>> /\ calls'[d][n].at = "sent"
    BY <1>2, <1>5, <2>1 DEF ArrivedOK
  <2>2. received \subseteq received' BY <1>2
  <2>3. CASE inbox' = inbox BY <2>1, <2>2, <2>3 DEF ArrivedOK
  <2>4. CASE inbox' = [inbox EXCEPT ![c] = Append(inbox[c], a)] /\ <<c, a.id>> \in received'
    <3>1. inbox \in [Conn -> Seq(Answers)] /\ inbox[c] \in Seq(Answers) BY DEF ArrivedOK, Answers
    <3>2. Append(inbox[c], a) \in Seq(Answers) BY <1>3, <3>1
    <3>3. inbox' \in [Conn -> Seq(Answers)] BY <2>4, <3>1, <3>2
    <3>4. inbox'[c] = Append(inbox[c], a) /\ \A d \in Conn \ {c} : inbox'[d] = inbox[d] BY <2>4, <3>1
    <3>5. \A i \in DOMAIN Append(inbox[c], a) :
             Append(inbox[c], a)[i] = a \/ (i \in DOMAIN inbox[c] /\ Append(inbox[c], a)[i] = inbox[c][i])
      BY <3>1
    <3>6. ASSUME NEW d \in Conn, NEW i \in DOMAIN inbox'[d] PROVE <<d, inbox'[d][i].id>> \in received'
      <4>1. CASE d = c BY <2>2, <2>4, <3>4, <3>5, <3>6, <4>1 DEF ArrivedOK
      <4>2. CASE d # c BY <2>2, <3>4, <3>6, <4>2 DEF ArrivedOK
      <4> QED BY <4>1, <4>2
    <3> QED BY <2>1, <3>3, <3>6 DEF ArrivedOK, Answers
  <2> QED BY <1>2, <2>3, <2>4
<1> QED BY <1>7, <1>8

\* A client takes the first of its answers.
LEMMA ReceiveHeld ==
  ASSUME IInv, AnswersOK, ArrivedOK, NEW c \in Conn, Receive(c)
  PROVE  AnswersOK' /\ ArrivedOK'
<1> USE DEF server, clients, history
<1>1. UNCHANGED <<calls, out, received>> /\ inbox' = [inbox EXCEPT ![c] = Tail(inbox[c])] /\ inbox[c] # <<>>
  BY DEF Receive
<1>2. inbox \in [Conn -> Seq(Answers)] /\ inbox[c] \in Seq(Answers) BY DEF ArrivedOK, Answers
<1>3. Tail(inbox[c]) \in Seq(Answers) BY <1>1, <1>2
<1>4. inbox' \in [Conn -> Seq(Answers)] BY <1>1, <1>2, <1>3
<1>5. inbox'[c] = Tail(inbox[c]) /\ \A d \in Conn \ {c} : inbox'[d] = inbox[d] BY <1>1, <1>2
<1>6. \A i \in DOMAIN Tail(inbox[c]) : i + 1 \in DOMAIN inbox[c] /\ Tail(inbox[c])[i] = inbox[c][i + 1]
  BY <1>1, <1>2
<1>7. \A d \in Conn : \A i \in DOMAIN inbox'[d] : <<d, inbox'[d][i].id>> \in received'
  BY <1>1, <1>5, <1>6 DEF ArrivedOK
<1>8. AnswersOK' BY <1>1 DEF AnswersOK
<1> QED BY <1>1, <1>4, <1>7, <1>8 DEF ArrivedOK, Answers

\* A call that has sent no answer has none anywhere.
LEMMA NotYet ==
  ASSUME AnswersOK, ArrivedOK, NEW c \in Conn, NEW n \in DOMAIN calls[c], calls[c][n].at # "sent"
  PROVE  <<c, n>> \notin received /\ \A i \in DOMAIN out[c] : out[c][i].id # n
<1>1. ASSUME <<c, n>> \in received PROVE FALSE
  <2>1. PICK d \in Conn : \E k \in DOMAIN calls[d] : <<c, n>> = <<d, k>> /\ calls[d][k].at = "sent"
    BY <1>1 DEF ArrivedOK
  <2> QED BY <2>1
<1>2. \A i \in DOMAIN out[c] : out[c][i].id # n BY DEF AnswersOK
<1> QED BY <1>1, <1>2

\* An answer is sent: it is the only one of its call.
LEMMA SendHeld ==
  ASSUME IInv, AnswersOK, ArrivedOK, NEW c \in Conn, NEW n \in DOMAIN calls[c], Send(c, n)
  PROVE  AnswersOK' /\ ArrivedOK'
<1> USE DEF server, clients, history
<1> DEFINE r == [calls[c][n] EXCEPT !.at = "sent", !.outcome = calls[c][n].outcome]
           a == [id |-> n, outcome |-> calls[c][n].outcome]
<1>1. calls[c] \in Seq(Call) /\ calls[c][n] \in Call /\ calls[c][n].at = "answering" /\ n \in Nat
  BY CallTyped DEF Send, IInv, CallsOK
<1>2. calls' = [calls EXCEPT ![c][n] = r] BY Ends DEF Send
<1>3. r.at = "sent" /\ r.outcome = calls[c][n].outcome BY <1>1 DEF Call
<1> HIDE DEF r
<1>4. Goes(c, n) /\ calls'[c][n].at = "sent" /\ calls'[c][n].outcome = calls[c][n].outcome
  BY <1>2, <1>3, OneGoes
<1>5. SentStays BY <1>1, <1>4 DEF SentStays, Goes
<1>6. out \in [Conn -> Seq(Answers)] /\ a \in Answers
  <2>1. calls[c][n].outcome \in Outcome BY <1>1 DEF Call
  <2> QED BY <1>1, <2>1 DEF IInv, StreamsOK, Answers
<1>7. <<c, n>> \notin received /\ \A i \in DOMAIN out[c] : out[c][i].id # n
  BY <1>1, NotYet
<1>9. inbox' = inbox BY DEF Send
<1>10. CASE UNCHANGED <<out, received>> BY <1>5, <1>9, <1>10, AnswersHeld
<1>11. CASE out' = out /\ received' = received \cup {<<c, n>>}
  <2>1. AnswersOK'
    <3> SUFFICES ASSUME NEW d \in Conn, NEW i \in DOMAIN out[d]
                 PROVE  LET k == out[d][i].id IN
                        /\ k \in DOMAIN calls'[d] /\ calls'[d][k].at = "sent" /\ <<d, k>> \notin received'
                        /\ out[d][i].outcome = calls'[d][k].outcome
                        /\ \A j \in DOMAIN out[d] : out[d][j].id = k => j = i
      BY <1>11 DEF AnswersOK
    <3>1. <<d, out[d][i].id>> # <<c, n>> BY <1>7
    <3> QED BY <1>5, <1>11, <3>1 DEF AnswersOK, SentStays
  <2>2. ASSUME NEW t \in received'
        PROVE  \E d \in Conn : \E k \in DOMAIN calls'[d] : t = <<d, k>> /\ calls'[d][k].at = "sent"
    <3>1. CASE t = <<c, n>> BY <1>4, <3>1 DEF Goes
    <3>2. CASE t \in received
      <4>1. PICK d \in Conn : \E k \in DOMAIN calls[d] : t = <<d, k>> /\ calls[d][k].at = "sent"
        BY <3>2 DEF ArrivedOK
      <4> QED BY <1>5, <4>1 DEF SentStays
    <3> QED BY <1>11, <2>2, <3>1, <3>2
  <2> QED BY <1>9, <1>11, <2>1, <2>2 DEF ArrivedOK
<1>12. CASE out' = [out EXCEPT ![c] = Append(out[c], a)] /\ received' = received
  <2>1. out'[c] = Append(out[c], a) /\ \A d \in Conn \ {c} : out'[d] = out[d] BY <1>6, <1>12
  <2>2. \A i \in DOMAIN Append(out[c], a) :
           \/ i = Len(out[c]) + 1 /\ Append(out[c], a)[i] = a
           \/ i \in DOMAIN out[c] /\ i # Len(out[c]) + 1 /\ Append(out[c], a)[i] = out[c][i]
    BY <1>6
  <2>3. a.id = n /\ a.outcome = calls[c][n].outcome OBVIOUS
  <2> HIDE DEF a
  <2>4. AnswersOK'
    <3> SUFFICES ASSUME NEW d \in Conn, NEW i \in DOMAIN out'[d]
                 PROVE  LET k == out'[d][i].id IN
                        /\ k \in DOMAIN calls'[d] /\ calls'[d][k].at = "sent" /\ <<d, k>> \notin received
                        /\ out'[d][i].outcome = calls'[d][k].outcome
                        /\ \A j \in DOMAIN out'[d] : out'[d][j].id = k => j = i
      BY <1>12 DEF AnswersOK
    <3>1. CASE d # c
      <4>1. out'[d] = out[d] BY <2>1, <3>1
      <4> QED BY <1>5, <4>1 DEF AnswersOK, SentStays
    <3>2. CASE d = c /\ i = Len(out[c]) + 1
      <4>1. out'[d][i] = a BY <2>1, <2>2, <3>2
      <4>2. \A j \in DOMAIN out'[d] : out'[d][j].id = n => j = i BY <1>7, <2>1, <2>2, <3>2
      <4> QED BY <1>4, <1>7, <2>3, <3>2, <4>1, <4>2 DEF Goes
    <3>3. CASE d = c /\ i # Len(out[c]) + 1
      <4>1. i \in DOMAIN out[c] /\ out'[d][i] = out[c][i] BY <2>1, <2>2, <3>3
      <4>2. \A j \in DOMAIN out'[d] : out'[d][j].id = out[c][i].id => j = i
        <5> SUFFICES ASSUME NEW j \in DOMAIN out'[d], out'[d][j].id = out[c][i].id PROVE j = i
          OBVIOUS
        <5>1. out[c][i].id # n BY <1>7, <4>1
        <5>2. j \in DOMAIN out[c] /\ out'[d][j] = out[c][j] BY <2>1, <2>2, <2>3, <3>3, <5>1
        <5> QED BY <4>1, <5>2, OneOfEach
      <4> QED BY <1>5, <3>3, <4>1, <4>2 DEF AnswersOK, SentStays
    <3> QED BY <3>1, <3>2, <3>3
  <2>5. ASSUME NEW t \in received
        PROVE  \E d \in Conn : \E k \in DOMAIN calls'[d] : t = <<d, k>> /\ calls'[d][k].at = "sent"
    <3>1. PICK d \in Conn : \E k \in DOMAIN calls[d] : t = <<d, k>> /\ calls[d][k].at = "sent"
      BY <2>5 DEF ArrivedOK
    <3> QED BY <1>5, <3>1 DEF SentStays
  <2> QED BY <1>9, <1>12, <2>4, <2>5 DEF ArrivedOK
<1> HIDE DEF a
<1>13. \/ UNCHANGED <<out, received>>
       \/ out' = out /\ received' = received \cup {<<c, n>>}
       \/ out' = [out EXCEPT ![c] = Append(out[c], a)] /\ received' = received
  BY DEF Send, a
<1> QED BY <1>10, <1>11, <1>12, <1>13

------------------------------------------------------------------------------
(* Clients connect before they call; a stream that is over is closed.       *)

\* A step of connection c leaves the others as they are.
LEMMA OnePeer ==
  ASSUME PeersOK, NEW c \in Conn, plan' = plan,
         handler' \in [Conn -> HandlerAt], client' \in [Conn -> ClientAt],
         \A d \in Conn \ {c} :
            /\ handler'[d] = handler[d] /\ client'[d] = client[d] /\ gone'[d] = gone[d] /\ closed'[d] = closed[d]
            /\ DOMAIN calls'[d] = DOMAIN calls[d]
            /\ d \in registered => d \in registered',
         PeerOK(c)'
  PROVE  PeersOK'
<1>1. ASSUME NEW d \in Conn \ {c} PROVE PeerOK(d)'
  BY <1>1 DEF PeersOK, PeerOK, Streamed, peer
<1> QED BY <1>1 DEF PeersOK

LEMMA ServePeers == ASSUME IInv, PeersOK, NEW c \in Conn, Serve(c) PROVE PeersOK'
<1> USE DEF server, clients, history, HandlerAt
<1>1. /\ handler \in [Conn -> HandlerAt] /\ client \in [Conn -> ClientAt] /\ PeerOK(c)
      /\ gone \in [Conn -> BOOLEAN] /\ closed \in [Conn -> BOOLEAN]
  BY DEF PeersOK, IInv, StreamsOK
<1>2. CASE Check(c)
  <2>1. PeerOK(c)' BY <1>1, <1>2 DEF Check, PeerOK, Streamed, peer
  <2> QED BY <1>1, <1>2, <2>1, OnePeer DEF Check
<1>3. CASE Open(c)
  <2>1. PeerOK(c)' BY <1>1, <1>3 DEF Open, PeerOK, Streamed, peer
  <2> QED BY <1>1, <1>3, <2>1, OnePeer DEF Open
<1>4. CASE Forward(c)
  <2>1. UNCHANGED <<plan, handler, client, closed, calls, registered>> BY <1>4 DEF Forward
  <2>2. gone' = gone \/ gone' = [gone EXCEPT ![c] = TRUE] BY <1>4 DEF Forward
  <2>3. PeerOK(c)' BY <1>1, <1>4, <2>1 DEF Forward, PeerOK, Streamed, peer
  <2> QED BY <1>1, <2>1, <2>2, <2>3, OnePeer
<1>5. CASE EndStream(c)
  <2>1. PeerOK(c)' BY <1>1, <1>5 DEF EndStream, PeerOK, Streamed, peer
  <2> QED BY <1>1, <1>5, <2>1, OnePeer DEF EndStream
<1>6. CASE Release(c)
  <2>1. PeerOK(c)' BY <1>1, <1>6 DEF Release, PeerOK, Streamed, peer
  <2> QED BY <1>1, <1>6, <2>1, OnePeer DEF Release
<1> QED BY <1>2, <1>3, <1>4, <1>5, <1>6 DEF Serve

\* A client that only goes elsewhere, or closes its end.
LEMMA ClientPeers ==
  ASSUME IInv, PeersOK, NEW c \in Conn, NEW l \in ClientAt, peer[c] # "stdio",
         Streamed(c) => \/ l \in {"idle", "connecting", "offline"} /\ DOMAIN calls'[c] = {}
                        \/ handler[c] \in {"forwarding", "leaving", "ended"},
         client' = [client EXCEPT ![c] = l], gone' = gone \/ gone' = [gone EXCEPT ![c] = TRUE],
         \A d \in Conn \ {c} : DOMAIN calls'[d] = DOMAIN calls[d],
         UNCHANGED <<plan, handler, registered, closed>>
  PROVE  PeersOK'
<1>1. /\ handler \in [Conn -> HandlerAt] /\ client \in [Conn -> ClientAt] /\ PeerOK(c)
      /\ gone \in [Conn -> BOOLEAN] /\ closed \in [Conn -> BOOLEAN]
  BY DEF PeersOK, IInv, StreamsOK
<1>2. client' \in [Conn -> ClientAt] /\ client'[c] = l BY <1>1
<1>3. PeerOK(c)' BY <1>1, <1>2 DEF PeerOK, Streamed, peer
<1> QED BY <1>1, <1>2, <1>3, OnePeer

LEMMA RunPeers ==
  ASSUME IInv, PeersOK, NEW c \in Conn, NEW n \in DOMAIN calls[c], Goes(c, n), UNCHANGED NotCalls
  PROVE  PeersOK'
<1>1. \A d \in Conn : DOMAIN calls'[d] = DOMAIN calls[d] BY DEF Goes
<1>2. UNCHANGED <<plan, handler, client, registered, closed, gone>> BY DEF NotCalls
<1> QED BY <1>1, <1>2 DEF PeersOK, PeerOK, Streamed, peer

LEMMA SendPeers ==
  ASSUME IInv, PeersOK, NEW c \in Conn, NEW n \in DOMAIN calls[c], Send(c, n) PROVE PeersOK'
<1> USE DEF server, clients, history
<1>1. /\ handler \in [Conn -> HandlerAt] /\ client \in [Conn -> ClientAt] /\ PeerOK(c)
      /\ closed \in [Conn -> BOOLEAN]
  BY DEF PeersOK, IInv, StreamsOK
<1>2. UNCHANGED <<plan, handler, client, registered, gone>> BY DEF Send
<1>3. closed' = closed \/ closed' = [closed EXCEPT ![c] = TRUE] BY DEF Send, Full
<1>4. \A d \in Conn : DOMAIN calls'[d] = DOMAIN calls[d]
  <2>1. calls' = [calls EXCEPT ![c][n] = [calls[c][n] EXCEPT !.at = "sent", !.outcome = calls[c][n].outcome]]
    BY Ends DEF Send
  <2> QED BY <2>1, OneGoes DEF Goes
<1>5. PeerOK(c)' BY <1>1, <1>2, <1>3, <1>4 DEF PeerOK, Streamed, peer
<1> QED BY <1>1, <1>2, <1>3, <1>4, <1>5, OnePeer

\* Calls are posted at the end of the client's.
LEMMA PostedAdds ==
  ASSUME IInv, NEW c \in Conn, NEW m, NEW p, Posted(c, m, p)
  PROVE  /\ calls' = [calls EXCEPT ![c] = Append(calls[c], New(c, m, p))]
         /\ calls'[c] = Append(calls[c], New(c, m, p))
         /\ calls[c] \in Seq(Call) /\ DOMAIN calls'[c] = 1..(Len(calls[c]) + 1)
         /\ \A n \in DOMAIN calls[c] : n \in DOMAIN calls'[c] /\ calls'[c][n] = calls[c][n]
         /\ calls'[c][Len(calls[c]) + 1] = New(c, m, p)
         /\ \A d \in Conn \ {c} : calls'[d] = calls[d]
<1>1. calls[c] \in Seq(Call) /\ calls \in [Conn -> Seq(Call)] BY DEF IInv, CallsOK
<1> DEFINE r == New(c, m, p)
<1>2. calls' = [calls EXCEPT ![c] = Append(calls[c], r)] BY DEF Posted
<1> HIDE DEF r
<1>3. calls'[c] = Append(calls[c], r) /\ \A d \in Conn \ {c} : calls'[d] = calls[d] BY <1>1, <1>2
<1>4. /\ DOMAIN Append(calls[c], r) = 1..(Len(calls[c]) + 1) /\ Append(calls[c], r)[Len(calls[c]) + 1] = r
      /\ \A n \in DOMAIN calls[c] : n \in DOMAIN Append(calls[c], r) /\ Append(calls[c], r)[n] = calls[c][n]
  BY <1>1
<1> QED BY <1>1, <1>2, <1>3, <1>4 DEF r

\* The request of the last call is over: nothing of it changes for its caller.
LEMMA PostDoneGoes ==
  ASSUME IInv, NEW c \in Conn, PostDone(c)
  PROVE  \/ calls' = calls
         \/ \E n \in DOMAIN calls[c] :
               /\ Goes(c, n)
               /\ calls'[c][n].at = calls[c][n].at /\ calls'[c][n].outcome = calls[c][n].outcome
               /\ calls'[c][n].post = calls[c][n].post
<1> DEFINE n == Len(calls[c])
           r == [calls[c][n] EXCEPT !.cancelled = TRUE]
<1>1. calls[c] \in Seq(Call) /\ calls \in [Conn -> Seq(Call)] BY DEF IInv, CallsOK
<1>2. CASE n \notin DOMAIN calls[c]
  <2>1. Set(c, n, "cancelled", TRUE) => calls' = calls BY <1>1, <1>2 DEF Set
  <2> QED BY <2>1 DEF PostDone
<1>3. CASE n \in DOMAIN calls[c] /\ Set(c, n, "cancelled", TRUE)
  <2>1. calls[c][n] \in Call BY <1>1, <1>3
  <2>2. r.at = calls[c][n].at /\ r.outcome = calls[c][n].outcome /\ r.post = calls[c][n].post
    BY <2>1 DEF Call
  <2>3. calls' = [calls EXCEPT ![c][n] = r] BY <1>3 DEF Set
  <2> HIDE DEF r
  <2>4. Goes(c, n) /\ calls'[c][n] = r BY <1>3, <2>3, OneGoes
  <2> QED BY <1>3, <2>2, <2>4
<1> QED BY <1>2, <1>3 DEF PostDone

LEMMA UsePeers == ASSUME IInv, PeersOK, NEW c \in Conn, Use(c) PROVE PeersOK'
<1> USE DEF server, clients, history, At
<1>1. /\ handler \in [Conn -> HandlerAt] /\ client \in [Conn -> ClientAt] /\ PeerOK(c)
      /\ gone \in [Conn -> BOOLEAN] /\ closed \in [Conn -> BOOLEAN]
  BY DEF PeersOK, IInv, StreamsOK
<1>2. CASE Connect(c)
  BY <1>1, <1>2, ClientPeers DEF Connect, Streamed, PeerOK, ClientAt
<1>3. CASE Connected(c)
  BY <1>1, <1>3, ClientPeers DEF Connected, PeerOK, ClientAt
<1>4. CASE ConnectFails(c)
  BY <1>1, <1>4, ClientPeers DEF ConnectFails, Streamed, PeerOK, ClientAt
<1>5. CASE HostCall(c)
  <2>1. PICK m \in plan.methods, p \in Scope \cup {NoScope} : Posted(c, m, p) BY <1>5 DEF HostCall
  <2>2. UNCHANGED <<plan, handler, client, registered, closed, gone>> /\ client[c] = "ready" BY <1>5 DEF HostCall
  <2>3. \A d \in Conn \ {c} : calls'[d] = calls[d] BY <2>1, PostedAdds
  <2>4. PeerOK(c)' BY <1>1, <2>2 DEF PeerOK, Streamed, peer
  <2> QED BY <1>1, <2>2, <2>3, <2>4, OnePeer
<1>6. CASE HostLeaves(c)
  BY <1>1, <1>6, ClientPeers DEF HostLeaves, PeerOK, ClientAt
<1>7. CASE StreamCancelled(c)
  <2>1. client' = [client EXCEPT ![c] = client[c]] /\ client[c] \in ClientAt BY <1>1, <1>7 DEF StreamCancelled
  <2> QED BY <1>1, <1>7, <2>1, ClientPeers DEF StreamCancelled, Hook, Streamed, PeerOK, ClientAt
<1>8. CASE HookCall(c)
  <2>1. PICK m, p : Posted(c, m, p) BY <1>8 DEF HookCall
  <2>2. \A d \in Conn \ {c} : calls'[d] = calls[d] BY <2>1, PostedAdds
  <2> QED BY <1>1, <1>8, <2>2, ClientPeers DEF HookCall, Hook, PeerOK, ClientAt
<1>9. CASE PostDone(c)
  <2>1. \A d \in Conn : DOMAIN calls'[d] = DOMAIN calls[d] BY <1>9, PostDoneGoes DEF Goes
  <2>2. PICK l \in {"waiting", "ready"} : client' = [client EXCEPT ![c] = l] BY <1>9 DEF PostDone
  <2> QED BY <1>1, <1>9, <2>1, <2>2, ClientPeers DEF PostDone, PeerOK, ClientAt
<1>10. CASE Receive(c)
  <2>1. PICK l \in {"waiting", "ready"} : client' = [client EXCEPT ![c] = l] BY <1>1, <1>10 DEF Receive
  <2> QED BY <1>1, <1>10, <2>1, ClientPeers DEF Receive, PeerOK, ClientAt
<1>11. CASE GiveUp(c)
  BY <1>1, <1>11, ClientPeers DEF GiveUp, PeerOK, ClientAt
<1>12. CASE HookEnds(c)
  BY <1>1, <1>12, ClientPeers DEF HookEnds, Hook, PeerOK, ClientAt
<1> QED BY <1>2, <1>3, <1>4, <1>5, <1>6, <1>7, <1>8, <1>9, <1>10, <1>11, <1>12 DEF Use

LEMMA InitService == Init => ServiceInv
<1> SUFFICES ASSUME Init PROVE ServiceInv
  OBVIOUS
<1>1. AnswersOK BY DEF Init, AnswersOK
<1>2. inbox \in [Conn -> Seq(Answers)] /\ \A c \in Conn : inbox[c] = <<>> BY DEF Init
<1>3. ArrivedOK BY <1>2 DEF Init, ArrivedOK, Answers
<1>4. handler \in [Conn -> HandlerAt] /\ client \in [Conn -> ClientAt] BY DEF Init, HandlerAt, ClientAt
<1>5. \A c \in Conn : PeerOK(c) BY DEF Init, PeerOK, Streamed
<1> QED BY <1>1, <1>3, <1>4, <1>5 DEF ServiceInv, PeersOK

LEMMA SameStay == ASSUME calls' = calls PROVE SentStays
BY DEF SentStays

\* What a step of a request is, but for the answer it sends.
LEMMA RunGoes ==
  ASSUME IInv, NEW c \in Conn, NEW n \in DOMAIN calls[c], Run(c, n), ~Send(c, n)
  PROVE  /\ Goes(c, n) /\ Becomes(calls[c][n], calls'[c][n]) /\ UNCHANGED NotCalls
         /\ \/ calls'[c][n].post = "refused" => calls[c][n].post = "refused" \/ calls'[c][n].at # "none"
            \/ Streamed(c) /\ c \notin registered
<1>1. CASE Accept(c, n)
  <2>1. /\ Goes(c, n) /\ Becomes(calls[c][n], calls'[c][n]) /\ UNCHANGED NotCalls
        /\ calls'[c][n].post = "refused" => Streamed(c) /\ c \notin registered
    BY <1>1, AcceptGoes
  <2> QED BY <2>1
<1>2. CASE Proceeds(c, n) BY <1>2 DEF Proceeds
<1>3. Accept(c, n) \/ Proceeds(c, n)
  BY ReturnGoes, ReadLineGoes, BeginGoes, HandshakeGoes, ExecuteGoes DEF Run
<1> QED BY <1>1, <1>2, <1>3

LEMMA ServiceStep == IInv /\ ServiceInv /\ [Next]_vars => ServiceInv'
<1> SUFFICES ASSUME IInv, AnswersOK, ArrivedOK, PeersOK, [Next]_vars
             PROVE  AnswersOK' /\ ArrivedOK' /\ PeersOK'
  BY DEF ServiceInv
<1> USE DEF server, clients, history
<1>1. CASE UNCHANGED vars
  <2>1. UNCHANGED <<plan, handler, client, registered, closed, gone, calls, out, received, inbox>>
    BY <1>1 DEF vars
  <2>2. PeersOK' BY <2>1 DEF PeersOK, PeerOK, Streamed, peer
  <2> QED BY <2>1, <2>2, SameStay, AnswersHeld
<1>2. ASSUME NEW c \in Conn, Serve(c) PROVE AnswersOK' /\ ArrivedOK' /\ PeersOK'
  <2>1. PeersOK' BY <1>2, ServePeers
  <2>2. CASE Forward(c) BY <2>1, <2>2, ForwardHeld
  <2>3. CASE Check(c) \/ Open(c) \/ EndStream(c) \/ Release(c)
    <3>1. UNCHANGED <<calls, out, received, inbox>> BY <2>3 DEF Check, Open, EndStream, Release
    <3> QED BY <2>1, <3>1, SameStay, AnswersHeld
  <2> QED BY <1>2, <2>2, <2>3 DEF Serve
<1>3. ASSUME NEW c \in Conn, Use(c) PROVE AnswersOK' /\ ArrivedOK' /\ PeersOK'
  <2>1. PeersOK' BY <1>3, UsePeers
  <2>2. CASE Receive(c) BY <2>1, <2>2, ReceiveHeld
  <2>3. CASE HostCall(c) \/ HookCall(c)
    <3>1. UNCHANGED <<out, received, inbox>> BY <2>3 DEF HostCall, HookCall
    <3>2. PICK m, p : Posted(c, m, p) BY <2>3 DEF HostCall, HookCall
    <3>3. SentStays BY <3>2, PostedAdds DEF SentStays
    <3> QED BY <2>1, <3>1, <3>3, AnswersHeld
  <2>4. CASE PostDone(c)
    <3>1. UNCHANGED <<out, received, inbox>> BY <2>4 DEF PostDone
    <3>2. SentStays BY <2>4, PostDoneGoes, SameStay, GoesStays DEF Becomes
    <3> QED BY <2>1, <3>1, <3>2, AnswersHeld
  <2>5. CASE Connect(c) \/ Connected(c) \/ ConnectFails(c) \/ HostLeaves(c)
             \/ StreamCancelled(c) \/ GiveUp(c) \/ HookEnds(c)
    <3>1. UNCHANGED <<calls, out, received, inbox>>
      BY <2>5 DEF Connect, Connected, ConnectFails, HostLeaves, StreamCancelled, GiveUp, HookEnds
    <3> QED BY <2>1, <3>1, SameStay, AnswersHeld
  <2> QED BY <1>3, <2>2, <2>3, <2>4, <2>5 DEF Use
<1>4. ASSUME NEW c \in Conn, NEW n \in DOMAIN calls[c], Run(c, n)
      PROVE  AnswersOK' /\ ArrivedOK' /\ PeersOK'
  <2>1. CASE Send(c, n) BY <2>1, SendHeld, SendPeers
  <2>2. CASE ~Send(c, n)
    <3>1. Goes(c, n) /\ Becomes(calls[c][n], calls'[c][n]) /\ UNCHANGED NotCalls BY <1>4, <2>2, RunGoes
    <3>2. UNCHANGED <<out, received, inbox>> BY <3>1 DEF NotCalls
    <3>3. SentStays BY <3>1, GoesStays
    <3> QED BY <3>1, <3>2, <3>3, AnswersHeld, RunPeers
  <2> QED BY <2>1, <2>2
<1> QED BY <1>1, <1>2, <1>3, <1>4 DEF Next

------------------------------------------------------------------------------
(* The server and its clients are a CallService.                            *)

Views    == [c \in Conn |-> [n \in DOMAIN calls[c] |-> View(c, n)]]
Sessions == [c \in Conn |-> CASE gone[c]                -> "gone"
                              [] ~gone[c] /\ closed[c]  -> "closing"
                              [] ~gone[c] /\ ~closed[c] -> "open"]
Returned == {<<t[1], t[2]>> : t \in taken}

LEMMA ViewKept ==
  ASSUME NEW c \in Conn, NEW n \in DOMAIN calls[c],
         calls'[c][n].at = calls[c][n].at, calls'[c][n].outcome = calls[c][n].outcome,
         \A p \in Away : calls'[c][n].post = p <=> calls[c][n].post = p,
         Queued(c, n)' <=> Queued(c, n), <<c, n>> \in received' <=> <<c, n>> \in received
  PROVE  View(c, n)' = View(c, n)
BY DEF View, Phase, Away

LEMMA ViewsKept ==
  ASSUME \A c \in Conn : DOMAIN calls'[c] = DOMAIN calls[c],
         \A c \in Conn : \A n \in DOMAIN calls[c] : View(c, n)' = View(c, n)
  PROVE  Views' = Views
BY DEF Views

LEMMA ViewMoves ==
  ASSUME NEW c \in Conn, NEW n \in DOMAIN calls[c], NEW v, View(c, n)' = v,
         \A d \in Conn : DOMAIN calls'[d] = DOMAIN calls[d],
         \A d \in Conn : \A k \in DOMAIN calls[d] : ~(d = c /\ k = n) => View(d, k)' = View(d, k)
  PROVE  Views' = [Views EXCEPT ![c][n] = v] /\ Views[c][n] = View(c, n)
<1>1. Views[c] = [k \in DOMAIN calls[c] |-> View(c, k)] BY DEF Views
<1>2. ASSUME NEW d \in Conn PROVE Views'[d] = IF d = c THEN [Views[c] EXCEPT ![n] = v] ELSE Views[d]
  <2>1. Views'[d] = [k \in DOMAIN calls[d] |-> View(d, k)'] BY DEF Views
  <2>2. CASE d = c
    <3>1. \A k \in DOMAIN calls[c] : View(c, k)' = [Views[c] EXCEPT ![n] = v][k] BY <1>1
    <3> QED BY <1>1, <2>1, <2>2, <3>1
  <2>3. CASE d # c BY <2>1, <2>3 DEF Views
  <2> QED BY <2>2, <2>3
<1>3. Views' = [d \in Conn |-> IF d = c THEN [Views[c] EXCEPT ![n] = v] ELSE Views[d]]
  <2>1. Views' = [d \in Conn |-> Views'[d]] BY DEF Views
  <2> QED BY <1>2, <2>1
<1>4. [Views EXCEPT ![c][n] = v] = [d \in Conn |-> IF d = c THEN [Views[c] EXCEPT ![n] = v] ELSE Views[d]]
  BY DEF Views
<1> QED BY <1>1, <1>3, <1>4

LEMMA Stutter ==
  ASSUME Views' = Views, UNCHANGED <<gone, closed, taken>>
  PROVE  UNCHANGED Promise!vars
BY DEF Promise!vars, Views

LEMMA Still == ASSUME UNCHANGED <<calls, out, received>> PROVE Views' = Views
<1>1. ASSUME NEW c \in Conn, NEW n \in DOMAIN calls[c] PROVE View(c, n)' = View(c, n)
  BY DEF View, Phase, Queued
<1> QED BY <1>1, ViewsKept

\* A session only comes nearer to its end.
LEMMA SessionMoves ==
  ASSUME StreamsOK, NEW c \in Conn, gone[c] => gone'[c], closed[c] => closed'[c],
         gone' \in [Conn -> BOOLEAN], closed' \in [Conn -> BOOLEAN],
         \A d \in Conn \ {c} : gone'[d] = gone[d] /\ closed'[d] = closed[d]
  PROVE  /\ Sessions' = [Sessions EXCEPT ![c] = Sessions'[c]]
         /\ Sessions'[c] \in Promise!Later(Sessions[c])
         /\ gone'[c] \/ closed'[c] => Sessions'[c] # "open"
<1>1. \A d \in Conn \ {c} : Sessions'[d] = Sessions[d] BY DEF Sessions, StreamsOK
<1>2. Sessions' = [Sessions EXCEPT ![c] = Sessions'[c]] BY <1>1 DEF Sessions
<1>3. Sessions'[c] \in Promise!Later(Sessions[c]) /\ (gone'[c] \/ closed'[c] => Sessions'[c] # "open")
  BY DEF Sessions, Promise!Later, StreamsOK
<1> QED BY <1>2, <1>3

LEMMA InitRefines == Init => Promise!Init
<1> SUFFICES ASSUME Init PROVE Promise!Init
  OBVIOUS
<1>1. \A c \in Conn : calls[c] = <<>> /\ ~gone[c] /\ ~closed[c] BY DEF Init
<1>2. Views = [c \in Conn |-> <<>>]
  <2>1. \A c \in Conn : [n \in DOMAIN calls[c] |-> View(c, n)] = <<>> BY <1>1
  <2> QED BY <2>1 DEF Views
<1>3. Sessions = [c \in Conn |-> "open"] BY <1>1 DEF Sessions
<1>4. Returned = {} BY DEF Init, Returned
<1> QED BY <1>2, <1>3, <1>4 DEF Promise!Init, Views, Sessions, Returned

\* One call moves, of one connection.
LEMMA Step ==
  ASSUME NEW c \in Conn, NEW n \in DOMAIN calls[c],
         \/ Promise!Start(c, n) \/ Promise!Refuse(c, n) \/ Promise!Reject(c, n) \/ Promise!Answer(c, n)
         \/ Promise!Silence(c, n) \/ Promise!Tell(c, n) \/ Promise!Lose(c, n)
  PROVE  Promise!Next
BY DEF Promise!Next

LEMMA RunRefines ==
  ASSUME IInv, ServiceInv, NEW c \in Conn, NEW n \in DOMAIN calls[c], Run(c, n), ~Send(c, n)
  PROVE  Promise!Next \/ UNCHANGED Promise!vars
<1> DEFINE old == calls[c][n]
           new == calls'[c][n]
<1>1. Goes(c, n) /\ Becomes(old, new) /\ UNCHANGED NotCalls BY RunGoes
<1>2. \/ new.post = "refused" => old.post = "refused" \/ new.at # "none"
      \/ Streamed(c) /\ c \notin registered
  BY RunGoes
<1>3. old \in Call /\ InTime(old, scope[c]) BY CallTyped DEF IInv
<1>4. UNCHANGED <<out, received, gone, closed, taken>> BY <1>1 DEF NotCalls
<1>5. \A d \in Conn : DOMAIN calls'[d] = DOMAIN calls[d] BY <1>1 DEF Goes
<1>6. ASSUME NEW d \in Conn, NEW k \in DOMAIN calls[d], ~(d = c /\ k = n) PROVE View(d, k)' = View(d, k)
  <2>1. calls'[d][k].at = calls[d][k].at /\ calls'[d][k].post = calls[d][k].post
        /\ calls'[d][k].outcome = calls[d][k].outcome
    BY <1>1, <1>6 DEF Goes
  <2>2. Queued(d, k)' <=> Queued(d, k) BY <1>4, <2>1 DEF Queued
  <2> QED BY <1>4, <2>1, <2>2, ViewKept
<1>7. ASSUME NEW p, NEW o, View(c, n)' = [phase |-> p, outcome |-> o]
      PROVE  Views' = [Views EXCEPT ![c][n] = [phase |-> p, outcome |-> o]] /\ Views[c][n] = View(c, n)
  BY <1>5, <1>6, <1>7, ViewMoves
<1>8. UNCHANGED <<Sessions, Returned>> BY <1>4 DEF Sessions, Returned
<1>10. CASE old.at = "none" /\ old.post \notin Away /\ new.at \in Running
  <2>1. View(c, n).phase = "asked" BY <1>10 DEF View, Phase, Away
  <2>2. View(c, n)' = [phase |-> "running", outcome |-> "none"] BY <1>10 DEF View, Phase, Running
  <2>3. Promise!Start(c, n)
    BY <1>7, <1>8, <2>1, <2>2 DEF Promise!Start, Promise!Moves, Views, Sessions, Returned
  <2> QED BY <2>3, Step
<1>9. CASE old.at = "none" /\ old.post = "sent" /\ new.at = "none" /\ new.post = "rejected"
  <2>1. View(c, n).phase = "asked" BY <1>9 DEF View, Phase
  <2>2. View(c, n)' = [phase |-> "rejected", outcome |-> "none"] BY <1>9 DEF View, Phase
  <2>3. Promise!Reject(c, n)
    BY <1>7, <1>8, <2>1, <2>2 DEF Promise!Reject, Promise!Moves, Views, Sessions, Returned
  <2> QED BY <2>3, Step
<1>11. CASE old.at = "none" /\ old.post = "sent" /\ new.at = "none" /\ new.post = "refused"
  <2>1. View(c, n).phase = "asked" BY <1>11 DEF View, Phase
  <2>2. View(c, n)' = [phase |-> "refused", outcome |-> "none"] BY <1>11 DEF View, Phase
  <2>3. Streamed(c) /\ c \notin registered BY <1>2, <1>11
  <2>4. closed[c] BY <2>3 DEF ServiceInv, PeersOK, PeerOK
  <2>5. Sessions[c] # "open" BY <2>4 DEF Sessions
  <2>6. Promise!Refuse(c, n)
    BY <1>7, <1>8, <2>1, <2>2, <2>5 DEF Promise!Refuse, Promise!Moves, Views, Sessions, Returned
  <2> QED BY <2>6, Step
<1>12. CASE old.at \in Running /\ new.at \in Running
  <2>1. View(c, n) = [phase |-> "running", outcome |-> "none"] BY <1>12 DEF View, Phase, Running
  <2>2. View(c, n)' = [phase |-> "running", outcome |-> "none"] BY <1>12 DEF View, Phase, Running
  <2>3. Views' = Views BY <1>5, <1>6, <2>1, <2>2, ViewsKept
  <2> QED BY <1>4, <2>3, Stutter
<1>13. CASE old.at \in Running /\ new.at = "silent"
  <2>1. View(c, n).phase = "running" BY <1>13 DEF View, Phase, Running
  <2>2. View(c, n)' = [phase |-> "silent", outcome |-> "none"] BY <1>13 DEF View, Phase
  <2>3. Promise!Silence(c, n)
    BY <1>7, <1>8, <2>1, <2>2 DEF Promise!Silence, Promise!Moves, Views, Sessions, Returned
  <2> QED BY <2>3, Step
<1>14. CASE old.at \in Running /\ new.at = "answering" /\ new.outcome \in {"ok", "error"}
  <2>1. View(c, n).phase = "running" BY <1>14 DEF View, Phase, Running
  <2>2. View(c, n)' = [phase |-> "answered", outcome |-> new.outcome] BY <1>14 DEF View, Phase
  <2>3. PICK o \in {"ok", "error"} : new.outcome = o BY <1>14
  <2>4. Promise!Moves(c, n, "running", "answered", o)
    BY <1>7, <2>1, <2>2, <2>3 DEF Promise!Moves, Views
  <2>5. Promise!Answer(c, n)
    BY <1>8, <2>4 DEF Promise!Answer, Promise!Outcome, Sessions, Returned
  <2> QED BY <2>5, Step
<1>15. CASE new.at = old.at /\ new.outcome = old.outcome /\ \A p \in Away : new.post = p <=> old.post = p
  <2>1. Queued(c, n)' <=> Queued(c, n) BY <1>4, <1>15 DEF Queued
  <2>2. View(c, n)' = View(c, n) BY <1>4, <1>15, <2>1, ViewKept
  <2>3. Views' = Views BY <1>5, <1>6, <2>2, ViewsKept
  <2> QED BY <1>4, <2>3, Stutter
<1> QED BY <1>1, <1>9, <1>10, <1>11, <1>12, <1>13, <1>14, <1>15 DEF Becomes, Away

\* The answer of a call waits on the stream, has reached the client, or is lost
\* with a session that is over.
LEMMA SendRefines ==
  ASSUME IInv, ServiceInv, NEW c \in Conn, NEW n \in DOMAIN calls[c], Send(c, n)
  PROVE  Promise!Next \/ UNCHANGED Promise!vars
<1> USE DEF server, clients, history
<1> DEFINE r == [calls[c][n] EXCEPT !.at = "sent", !.outcome = calls[c][n].outcome]
           o == calls[c][n].outcome
           a == [id |-> n, outcome |-> o]
<1>1. calls[c][n] \in Call /\ calls[c][n].at = "answering" /\ StreamsOK BY CallTyped DEF Send, IInv
<1>2. calls' = [calls EXCEPT ![c][n] = r] BY Ends DEF Send
<1>3. r.at = "sent" /\ r.outcome = o BY <1>1 DEF Call
<1> HIDE DEF r
<1>4. Goes(c, n) /\ calls'[c][n].at = "sent" /\ calls'[c][n].outcome = o BY <1>2, <1>3, OneGoes
<1>5. <<c, n>> \notin received /\ \A i \in DOMAIN out[c] : out[c][i].id # n
  BY <1>1, NotYet DEF ServiceInv
<1>6. View(c, n) = [phase |-> "answered", outcome |-> o] BY <1>1 DEF View, Phase
<1>7. \A d \in Conn : DOMAIN calls'[d] = DOMAIN calls[d] BY <1>4 DEF Goes
<1>8. ASSUME NEW d \in Conn, NEW k \in DOMAIN calls[d], ~(d = c /\ k = n),
             Queued(d, k)' <=> Queued(d, k), <<d, k>> \in received' <=> <<d, k>> \in received
      PROVE  View(d, k)' = View(d, k)
  BY <1>4, <1>8, ViewKept DEF Goes
<1>9. \A d \in Conn : \A k \in DOMAIN calls[d] : ~(d = c /\ k = n) => calls'[d][k].outcome = calls[d][k].outcome
  BY <1>4 DEF Goes
<1>10. UNCHANGED <<gone, taken>> /\ Returned' = Returned BY DEF Send, Returned
<1>11. CASE peer[c] = "stdio" /\ received' = received \cup {<<c, n>>} /\ UNCHANGED <<out, closed>>
  <2>1. \A d \in Conn : \A k \in DOMAIN calls[d] : ~(d = c /\ k = n) => View(d, k)' = View(d, k)
    BY <1>8, <1>9, <1>11 DEF Queued
  <2>2. View(c, n)' = [phase |-> "told", outcome |-> o] BY <1>4, <1>11 DEF View, Phase
  <2>3. Views' = [Views EXCEPT ![c][n] = [phase |-> "told", outcome |-> o]] /\ Views[c][n] = View(c, n)
    BY <1>7, <2>1, <2>2, ViewMoves
  <2>4. Sessions[c] # "gone" BY <1>11 DEF ServiceInv, PeersOK, PeerOK, Sessions
  <2>5. Sessions' = Sessions BY <1>10, <1>11 DEF Sessions
  <2>6. Promise!Moves(c, n, "answered", "told", Views[c][n].outcome)
    <3>1. Views[c][n].outcome = o /\ Views[c][n].phase = "answered" BY <1>6, <2>3
    <3>2. Views' = [Views EXCEPT ![c][n] = [phase |-> "told", outcome |-> Views[c][n].outcome]] BY <2>3, <3>1
    <3> QED BY <3>1, <3>2 DEF Promise!Moves, Views
  <2>7. Promise!Tell(c, n)
    BY <1>10, <2>4, <2>5, <2>6 DEF Promise!Tell, Views, Sessions, Returned
  <2> QED BY <2>7, Step
<1>12. CASE /\ UNCHANGED <<out, received>>
            /\ (closed[c] /\ closed' = closed) \/ closed' = [closed EXCEPT ![c] = TRUE]
  <2>1. \A d \in Conn : \A k \in DOMAIN calls[d] : ~(d = c /\ k = n) => View(d, k)' = View(d, k)
    BY <1>8, <1>9, <1>12 DEF Queued
  <2>2. View(c, n)' = [phase |-> "lost", outcome |-> o] BY <1>4, <1>5, <1>12 DEF View, Phase, Queued
  <2>3. Views' = [Views EXCEPT ![c][n] = [phase |-> "lost", outcome |-> o]] /\ Views[c][n] = View(c, n)
    BY <1>7, <2>1, <2>2, ViewMoves
  <2>4. closed'[c] /\ closed' \in [Conn -> BOOLEAN] /\ \A d \in Conn \ {c} : closed'[d] = closed[d]
    BY <1>1, <1>12 DEF StreamsOK
  <2>5. /\ Sessions' = [Sessions EXCEPT ![c] = Sessions'[c]]
        /\ Sessions'[c] \in Promise!Later(Sessions[c]) /\ Sessions'[c] # "open"
    BY <1>1, <1>10, <2>4, SessionMoves DEF StreamsOK
  <2>6. Promise!Moves(c, n, "answered", "lost", Views[c][n].outcome)
    <3>1. Views[c][n].outcome = o /\ Views[c][n].phase = "answered" BY <1>6, <2>3
    <3>2. Views' = [Views EXCEPT ![c][n] = [phase |-> "lost", outcome |-> Views[c][n].outcome]] BY <2>3, <3>1
    <3> QED BY <3>1, <3>2 DEF Promise!Moves, Views
  <2>7. Promise!Lose(c, n)
    BY <1>10, <2>5, <2>6 DEF Promise!Lose, Views, Sessions, Returned
  <2> QED BY <2>7, Step
<1>13. CASE out' = [out EXCEPT ![c] = Append(out[c], a)] /\ UNCHANGED <<closed, received>>
  <2>1. out \in [Conn -> Seq(Answers)] BY <1>1 DEF StreamsOK, Answers
  <2>2. out'[c] = Append(out[c], a) /\ \A d \in Conn \ {c} : out'[d] = out[d] BY <1>13, <2>1
  <2>3. /\ Len(out[c]) + 1 \in DOMAIN out'[c] /\ out'[c][Len(out[c]) + 1] = a
        /\ \A i \in DOMAIN out[c] : i \in DOMAIN out'[c] /\ out'[c][i] = out[c][i]
        /\ \A i \in DOMAIN out'[c] : out'[c][i] = a \/ i \in DOMAIN out[c]
    BY <2>1, <2>2
  <2>4. \A d \in Conn : \A k \in DOMAIN calls[d] : ~(d = c /\ k = n) => View(d, k)' = View(d, k)
    <3> SUFFICES ASSUME NEW d \in Conn, NEW k \in DOMAIN calls[d], ~(d = c /\ k = n)
                 PROVE  Queued(d, k)' <=> Queued(d, k)
      BY <1>8, <1>13
    <3>1. CASE d # c BY <1>9, <2>2, <3>1 DEF Queued
    <3>2. CASE d = c /\ k # n
      <4>1. a # [id |-> k, outcome |-> calls[c][k].outcome] BY <3>2
      <4> QED BY <1>9, <2>3, <3>2, <4>1 DEF Queued
    <3> QED BY <3>1, <3>2
  <2>5. Queued(c, n)' BY <1>4, <2>3 DEF Queued
  <2>6. View(c, n)' = [phase |-> "answered", outcome |-> o] BY <1>4, <1>5, <1>13, <2>5 DEF View, Phase
  <2>7. Views' = Views BY <1>6, <1>7, <2>4, <2>6, ViewsKept
  <2> QED BY <1>10, <1>13, <2>7, Stutter
<1>14. \/ peer[c] = "stdio" /\ received' = received \cup {<<c, n>>} /\ UNCHANGED <<out, closed>>
       \/ /\ UNCHANGED <<out, received>>
          /\ (closed[c] /\ closed' = closed) \/ closed' = [closed EXCEPT ![c] = TRUE]
       \/ out' = [out EXCEPT ![c] = Append(out[c], a)] /\ UNCHANGED <<closed, received>>
  BY DEF Send, Full
<1> QED BY <1>11, <1>12, <1>13, <1>14

\* The first answer leaves the stream for the client, or is lost with it.
LEMMA ForwardRefines ==
  ASSUME IInv, ServiceInv, NEW c \in Conn, Forward(c)
  PROVE  Promise!Next \/ UNCHANGED Promise!vars
<1>0. PICK a, n, o : a = out[c][1] /\ n = a.id /\ o = calls[c][n].outcome OBVIOUS
<1>1. out[c] \in Seq(Answers) /\ out[c] # <<>> /\ out \in [Conn -> Seq(Answers)] /\ StreamsOK
  BY DEF IInv, Forward, StreamsOK, Answers
<1>2. 1 \in DOMAIN out[c] /\ a \in Answers /\ Head(out[c]) = a BY <1>0, <1>1
<1>3. n \in DOMAIN calls[c] /\ calls[c][n].at = "sent" /\ <<c, n>> \notin received /\ a.outcome = o
  BY <1>0, <1>2 DEF ServiceInv, AnswersOK
<1>4. a = [id |-> n, outcome |-> o] BY <1>0, <1>2, <1>3 DEF Answers
<1>5. View(c, n) = [phase |-> "answered", outcome |-> o]
  <2>1. Queued(c, n) BY <1>0, <1>2, <1>3, <1>4 DEF Queued
  <2> QED BY <1>0, <1>3, <2>1 DEF View, Phase
<1>6. UNCHANGED <<calls, closed, taken>> /\ Returned' = Returned BY DEF Forward, Returned
<1>7. out' = [out EXCEPT ![c] = Tail(out[c])] BY DEF Forward
<1>8. out'[c] = Tail(out[c]) /\ \A d \in Conn \ {c} : out'[d] = out[d] BY <1>1, <1>7
<1>9. /\ \A i \in DOMAIN Tail(out[c]) : i + 1 \in DOMAIN out[c] /\ Tail(out[c])[i] = out[c][i + 1] /\ i + 1 # 1
      /\ \A i \in DOMAIN out[c] : i = 1 \/ (i - 1 \in DOMAIN Tail(out[c]) /\ Tail(out[c])[i - 1] = out[c][i])
  BY <1>1
<1>10. received' \in {received, received \cup {<<c, n>>}} BY <1>0, <1>2 DEF Forward
<1>11. \A d \in Conn : \A k \in DOMAIN calls[d] : ~(d = c /\ k = n) => View(d, k)' = View(d, k)
  <2> SUFFICES ASSUME NEW d \in Conn, NEW k \in DOMAIN calls[d], ~(d = c /\ k = n)
               PROVE  View(d, k)' = View(d, k)
    OBVIOUS
  <2>1. Queued(d, k)' <=> Queued(d, k)
    <3>1. CASE d # c BY <1>6, <1>8, <3>1 DEF Queued
    <3>2. CASE d = c /\ k # n
      <4>1. ASSUME NEW i \in DOMAIN out[c], out[c][i] = [id |-> k, outcome |-> calls[c][k].outcome]
            PROVE  Queued(c, k)'
        <5>1. out[c][i].id = k BY <4>1
        <5>2. i # 1 BY <1>0, <3>2, <5>1
        <5>3. i - 1 \in DOMAIN out'[c] /\ out'[c][i - 1] = [id |-> k, outcome |-> calls'[c][k].outcome]
          BY <1>6, <1>8, <1>9, <4>1, <5>2
        <5> QED BY <5>3 DEF Queued
      <4>2. ASSUME NEW i \in DOMAIN out'[c], out'[c][i] = [id |-> k, outcome |-> calls'[c][k].outcome]
            PROVE  Queued(c, k)
        <5>1. i + 1 \in DOMAIN out[c] /\ out[c][i + 1] = [id |-> k, outcome |-> calls[c][k].outcome]
          BY <1>6, <1>8, <1>9, <4>2
        <5> QED BY <5>1 DEF Queued
      <4> QED BY <3>2, <4>1, <4>2 DEF Queued
    <3> QED BY <3>1, <3>2
  <2>2. <<d, k>> \in received' <=> <<d, k>> \in received BY <1>10
  <2> QED BY <1>6, <2>1, <2>2, ViewKept
<1>12. CASE ~gone[c] /\ received' = received \cup {<<c, n>>} /\ gone' = gone
  <2>1. View(c, n)' = [phase |-> "told", outcome |-> o] BY <1>0, <1>3, <1>6, <1>12 DEF View, Phase
  <2>2. Views' = [Views EXCEPT ![c][n] = [phase |-> "told", outcome |-> o]] /\ Views[c][n] = View(c, n)
    BY <1>3, <1>6, <1>11, <2>1, ViewMoves
  <2>3. Sessions[c] # "gone" /\ Sessions' = Sessions BY <1>6, <1>12 DEF Sessions
  <2>4. Promise!Moves(c, n, "answered", "told", Views[c][n].outcome)
    <3>1. Views[c][n].outcome = o /\ Views[c][n].phase = "answered" BY <1>5, <2>2
    <3>2. Views' = [Views EXCEPT ![c][n] = [phase |-> "told", outcome |-> Views[c][n].outcome]] BY <2>2, <3>1
    <3> QED BY <3>1, <3>2 DEF Promise!Moves, Views
  <2>5. Promise!Tell(c, n)
    BY <1>5, <1>6, <2>3, <2>4 DEF Promise!Tell, Views, Sessions, Returned
  <2> QED BY <1>3, <2>5, Step
<1>13. CASE gone' = [gone EXCEPT ![c] = TRUE] /\ received' = received
  <2>1. ~Queued(c, n)'
    <3> SUFFICES ASSUME NEW i \in DOMAIN out'[c], out'[c][i].id = n PROVE FALSE
      BY <1>6 DEF Queued
    <3>1. i + 1 \in DOMAIN out[c] /\ out[c][i + 1].id = out[c][1].id /\ i + 1 # 1 BY <1>0, <1>8, <1>9
    <3> QED BY <1>2, <3>1, OneOfEach DEF ServiceInv
  <2>2. View(c, n)' = [phase |-> "lost", outcome |-> o] BY <1>0, <1>3, <1>6, <1>13, <2>1 DEF View, Phase
  <2>3. Views' = [Views EXCEPT ![c][n] = [phase |-> "lost", outcome |-> o]] /\ Views[c][n] = View(c, n)
    BY <1>3, <1>6, <1>11, <2>2, ViewMoves
  <2>4. gone'[c] /\ gone' \in [Conn -> BOOLEAN] /\ \A d \in Conn \ {c} : gone'[d] = gone[d]
    BY <1>1, <1>13 DEF StreamsOK
  <2>5. /\ Sessions' = [Sessions EXCEPT ![c] = Sessions'[c]]
        /\ Sessions'[c] \in Promise!Later(Sessions[c]) /\ Sessions'[c] # "open"
    BY <1>1, <1>6, <2>4, SessionMoves DEF StreamsOK
  <2>6. Promise!Moves(c, n, "answered", "lost", Views[c][n].outcome)
    <3>1. Views[c][n].outcome = o /\ Views[c][n].phase = "answered" BY <1>5, <2>3
    <3>2. Views' = [Views EXCEPT ![c][n] = [phase |-> "lost", outcome |-> Views[c][n].outcome]] BY <2>3, <3>1
    <3> QED BY <3>1, <3>2 DEF Promise!Moves, Views
  <2>7. Promise!Lose(c, n)
    BY <1>5, <1>6, <2>5, <2>6 DEF Promise!Lose, Views, Sessions, Returned
  <2> QED BY <1>3, <2>7, Step
<1>14. \/ ~gone[c] /\ received' = received \cup {<<c, n>>} /\ gone' = gone
       \/ gone' = [gone EXCEPT ![c] = TRUE] /\ received' = received
  BY <1>0, <1>2 DEF Forward
<1> QED BY <1>12, <1>13, <1>14

\* Nothing but the ends of a session.
LEMMA EndsRefine ==
  ASSUME IInv, NEW c \in Conn, UNCHANGED <<calls, out, received, taken>>,
         gone' = gone \/ gone' = [gone EXCEPT ![c] = TRUE],
         closed' = closed \/ closed' = [closed EXCEPT ![c] = TRUE]
  PROVE  Promise!Next
<1>1. StreamsOK BY DEF IInv
<1>2. /\ gone' \in [Conn -> BOOLEAN] /\ (gone[c] => gone'[c]) /\ \A d \in Conn \ {c} : gone'[d] = gone[d]
      /\ closed' \in [Conn -> BOOLEAN] /\ (closed[c] => closed'[c]) /\ \A d \in Conn \ {c} : closed'[d] = closed[d]
  BY <1>1 DEF StreamsOK
<1>3. Sessions' = [Sessions EXCEPT ![c] = Sessions'[c]] /\ Sessions'[c] \in Promise!Later(Sessions[c])
  BY <1>1, <1>2, SessionMoves
<1>4. Views' = Views /\ Returned' = Returned BY Still DEF Returned
<1>5. Promise!Close(c) BY <1>3, <1>4 DEF Promise!Close, Views, Sessions, Returned
<1> QED BY <1>5 DEF Promise!Next

PhaseOf == {"asked", "refused", "rejected", "running", "silent", "answered", "told", "lost"}

LEMMA ViewsTyped ==
  ASSUME IInv, NEW c \in Conn
  PROVE  Views[c] \in Seq([phase : PhaseOf, outcome : Outcome]) /\ Len(Views[c]) = Len(calls[c])
<1>1. calls[c] \in Seq(Call) BY DEF IInv, CallsOK
<1>2. PICK len \in Nat : DOMAIN calls[c] = 1..len BY <1>1
<1>3. Views[c] = [n \in 1..len |-> View(c, n)] BY <1>2 DEF Views
<1>4. ASSUME NEW n \in 1..len PROVE View(c, n) \in [phase : PhaseOf, outcome : Outcome]
  <2>1. calls[c][n] \in Call BY <1>2, CallTyped DEF IInv
  <2>2. calls[c][n].outcome \in Outcome /\ "none" \in Outcome BY <2>1 DEF Call, Outcome
  <2>3. Phase(c, n) \in PhaseOf BY <2>1 DEF Phase, PhaseOf, Call
  <2> QED BY <2>2, <2>3 DEF View
<1>5. Views[c] \in Seq([phase : PhaseOf, outcome : Outcome]) BY <1>3, <1>4
<1>6. Len(calls[c]) = len BY <1>1, <1>2
<1>7. Len(Views[c]) = len BY <1>3, <1>5
<1> QED BY <1>5, <1>6, <1>7

LEMMA AppendIs ==
  ASSUME NEW T, NEW s \in Seq(T), NEW e \in T
  PROVE  Append(s, e) = [k \in 1..(Len(s) + 1) |-> IF k = Len(s) + 1 THEN e ELSE s[k]]
<1> DEFINE t == [k \in 1..(Len(s) + 1) |-> IF k = Len(s) + 1 THEN e ELSE s[k]]
<1>1. Append(s, e) \in Seq(T) /\ DOMAIN Append(s, e) = 1..(Len(s) + 1) OBVIOUS
<1>2. \A k \in 1..(Len(s) + 1) : Append(s, e)[k] = t[k] OBVIOUS
<1>3. Append(s, e) \in [1..(Len(s) + 1) -> T]
  <2>1. Append(s, e) \in [1..Len(Append(s, e)) -> T] BY <1>1, LenProperties
  <2> QED BY <2>1
<1> QED BY <1>2, <1>3

LEMMA PostedRefines ==
  ASSUME IInv, NEW c \in Conn, NEW m, NEW p, Posted(c, m, p),
         UNCHANGED <<out, received, gone, closed, taken>>
  PROVE  Promise!Next
<1> DEFINE v == [phase |-> "asked", outcome |-> "none"]
           n == Len(calls[c]) + 1
<1>1. /\ calls[c] \in Seq(Call) /\ DOMAIN calls'[c] = 1..n /\ calls'[c][n] = New(c, m, p)
      /\ \A k \in DOMAIN calls[c] : k \in DOMAIN calls'[c] /\ calls'[c][k] = calls[c][k]
      /\ \A d \in Conn \ {c} : calls'[d] = calls[d]
  BY PostedAdds
<1>2. \A d \in Conn : \A k \in DOMAIN calls[d] : View(d, k)' = View(d, k)
  <2> SUFFICES ASSUME NEW d \in Conn, NEW k \in DOMAIN calls[d] PROVE View(d, k)' = View(d, k)
    OBVIOUS
  <2>1. calls'[d][k] = calls[d][k] BY <1>1
  <2> QED BY <2>1, ViewKept DEF Queued
<1>3. PICK l : l = n OBVIOUS
<1>4. View(c, l)' = v BY <1>1, <1>3 DEF View, Phase, New
<1>5. Views'[c] = [k \in 1..l |-> IF k = l THEN v ELSE Views[c][k]]
  <2>1. Views'[c] = [k \in 1..l |-> View(c, k)'] BY <1>1, <1>3 DEF Views
  <2>2. ASSUME NEW k \in 1..l PROVE View(c, k)' = IF k = l THEN v ELSE Views[c][k]
    <3>1. CASE k = l BY <1>4, <3>1
    <3>2. CASE k # l
      <4>1. k \in DOMAIN calls[c] BY <1>1, <1>3, <2>2, <3>2
      <4> QED BY <1>2, <3>2, <4>1 DEF Views
    <3> QED BY <3>1, <3>2
  <2> QED BY <2>1, <2>2
<1>6. Views'[c] = Append(Views[c], v)
  <2>1. Len(Views[c]) + 1 = l BY <1>3, ViewsTyped
  <2>2. v \in [phase : PhaseOf, outcome : Outcome] BY DEF PhaseOf, Outcome
  <2> QED BY <1>5, <2>1, <2>2, ViewsTyped, AppendIs
<1>7. \A d \in Conn \ {c} : Views'[d] = Views[d]
  <2> SUFFICES ASSUME NEW d \in Conn \ {c} PROVE Views'[d] = Views[d]
    OBVIOUS
  <2>1. calls'[d] = calls[d] BY <1>1
  <2> QED BY <1>2, <2>1 DEF Views
<1>8. Views' = [Views EXCEPT ![c] = Append(Views[c], v)] BY <1>6, <1>7 DEF Views
<1>9. UNCHANGED <<Sessions, Returned>> BY DEF Sessions, Returned
<1>10. Promise!Ask(c) BY <1>8, <1>9 DEF Promise!Ask, Views, Sessions, Returned
<1> QED BY <1>10 DEF Promise!Next

\* What CallToolSync returns with has arrived, and is the last call's.
LEMMA ReceiveRefines ==
  ASSUME IInv, ServiceInv, NEW c \in Conn, Receive(c) PROVE Promise!Next \/ UNCHANGED Promise!vars
<1> USE DEF server, clients, history
<1>1. UNCHANGED <<calls, out, received, gone, closed>> BY DEF Receive
<1>2. Views' = Views BY <1>1, Still
<1>3. CASE taken' = taken BY <1>1, <1>2, <1>3, Stutter
<1>4. CASE taken' # taken
  <2>1. PICK n : n = Len(calls[c]) OBVIOUS
  <2>2. Head(inbox[c]).id = n /\ taken' = taken \cup {<<c, n, n>>} BY <1>4, <2>1 DEF Receive, Matches
  <2>3. inbox[c] # <<>> /\ inbox[c] \in Seq(Answers) BY DEF Receive, ServiceInv, ArrivedOK, Answers
  <2>4. 1 \in DOMAIN inbox[c] /\ Head(inbox[c]) = inbox[c][1] BY <2>3
  <2>5. <<c, n>> \in received BY <2>2, <2>4 DEF ServiceInv, ArrivedOK
  <2>6. n \in DOMAIN calls[c] /\ calls[c][n].at = "sent"
    <3>1. PICK d \in Conn : \E k \in DOMAIN calls[d] : <<c, n>> = <<d, k>> /\ calls[d][k].at = "sent"
      BY <2>5 DEF ServiceInv, ArrivedOK
    <3> QED BY <3>1
  <2>7. View(c, n).phase = "told" BY <2>5, <2>6 DEF View, Phase
  <2>8. Len(Views[c]) = n /\ Views[c][n].phase = "told" BY <2>1, <2>6, <2>7, ViewsTyped DEF Views
  <2>9. Views[c] # <<>>
    <3>1. n \in DOMAIN Views[c] BY <2>6 DEF Views
    <3> QED BY <3>1
  <2>10. Returned' = Returned \cup {<<c, n>>}
    <3>1. \A x : x \in Returned' <=> x = <<c, n>> \/ \E t \in taken : x = <<t[1], t[2]>>
      <4>1. Returned' = {<<t[1], t[2]>> : t \in taken \cup {<<c, n, n>>}} BY <2>2 DEF Returned
      <4>2. <<c, n, n>>[1] = c /\ <<c, n, n>>[2] = n OBVIOUS
      <4> HIDE DEF Returned
      <4> QED BY <4>1, <4>2
    <3>2. \A x : x \in Returned <=> \E t \in taken : x = <<t[1], t[2]>> BY DEF Returned
    <3> QED BY <3>1, <3>2
  <2>11. Promise!Take(c)
    <3>1. Views[c] # <<>> /\ Views[c][Len(Views[c])].phase = "told" /\ UNCHANGED <<Views, Sessions>>
          /\ Returned' = Returned \cup {<<c, Len(Views[c])>>}
      BY <1>1, <1>2, <2>8, <2>9, <2>10 DEF Sessions
    <3> QED BY <3>1 DEF Promise!Take, Views, Sessions, Returned
  <2> QED BY <2>11 DEF Promise!Next
<1> QED BY <1>3, <1>4

LEMMA ServeRefines ==
  ASSUME IInv, ServiceInv, NEW c \in Conn, Serve(c) PROVE Promise!Next \/ UNCHANGED Promise!vars
<1>1. CASE Forward(c) BY <1>1, ForwardRefines
<1>2. CASE Check(c) \/ Open(c) \/ EndStream(c) \/ Release(c)
  <2>1. UNCHANGED <<calls, out, received, taken>>
    BY <1>2 DEF Check, Open, EndStream, Release, server, clients, history
  <2>2. /\ gone' = gone \/ gone' = [gone EXCEPT ![c] = TRUE]
        /\ closed' = closed \/ closed' = [closed EXCEPT ![c] = TRUE]
    BY <1>2 DEF Check, Open, EndStream, Release, server, clients, history
  <2> QED BY <2>1, <2>2, EndsRefine
<1> QED BY <1>1, <1>2 DEF Serve

LEMMA UseRefines ==
  ASSUME IInv, ServiceInv, NEW c \in Conn, Use(c) PROVE Promise!Next \/ UNCHANGED Promise!vars
<1> USE DEF server, clients, history
<1>1. CASE Connect(c) \/ Connected(c) \/ ConnectFails(c) \/ HostLeaves(c)
           \/ StreamCancelled(c) \/ GiveUp(c) \/ HookEnds(c)
  <2>1. /\ UNCHANGED <<calls, out, received, taken, closed>>
        /\ gone' = gone \/ gone' = [gone EXCEPT ![c] = TRUE]
    BY <1>1 DEF Connect, Connected, ConnectFails, HostLeaves, StreamCancelled, GiveUp, HookEnds
  <2> QED BY <2>1, EndsRefine
<1>2. CASE HostCall(c) \/ HookCall(c)
  <2>1. PICK m, p : Posted(c, m, p) BY <1>2 DEF HostCall, HookCall
  <2>2. UNCHANGED <<out, received, gone, closed, taken>> BY <1>2 DEF HostCall, HookCall
  <2> QED BY <2>1, <2>2, PostedRefines
<1>3. CASE PostDone(c)
  <2>1. UNCHANGED <<out, received, gone, closed, taken>> BY <1>3 DEF PostDone
  <2>2. CASE calls' = calls BY <2>1, <2>2, Still, Stutter
  <2>3. ASSUME NEW n \in DOMAIN calls[c], Goes(c, n), calls'[c][n].post = calls[c][n].post,
               calls'[c][n].at = calls[c][n].at, calls'[c][n].outcome = calls[c][n].outcome
        PROVE  Views' = Views
    <3>1. ASSUME NEW d \in Conn, NEW k \in DOMAIN calls[d] PROVE View(d, k)' = View(d, k)
      <4>1. /\ calls'[d][k].at = calls[d][k].at /\ calls'[d][k].post = calls[d][k].post
            /\ calls'[d][k].outcome = calls[d][k].outcome
        BY <2>3 DEF Goes
      <4>2. Queued(d, k)' <=> Queued(d, k) BY <2>1, <4>1 DEF Queued
      <4> QED BY <2>1, <4>1, <4>2, ViewKept
    <3>2. \A d \in Conn : DOMAIN calls'[d] = DOMAIN calls[d] BY <2>3 DEF Goes
    <3> QED BY <3>1, <3>2, ViewsKept
  <2> QED BY <1>3, <2>1, <2>2, <2>3, PostDoneGoes, Stutter
<1>4. CASE Receive(c) BY <1>4, ReceiveRefines
<1> QED BY <1>1, <1>2, <1>3, <1>4 DEF Use

LEMMA NextRefines == IInv /\ ServiceInv /\ [Next]_vars => [Promise!Next]_(Promise!vars)
<1> SUFFICES ASSUME IInv, ServiceInv, [Next]_vars PROVE Promise!Next \/ UNCHANGED Promise!vars
  OBVIOUS
<1>1. CASE UNCHANGED vars
  <2>1. UNCHANGED <<calls, out, received, gone, closed, taken>> BY <1>1 DEF vars, server, clients, history
  <2> QED BY <2>1, Still, Stutter
<1>2. CASE Next
  <2>1. PICK c \in Conn : Serve(c) \/ Use(c) \/ \E n \in DOMAIN calls[c] : Run(c, n) BY <1>2 DEF Next
  <2>2. CASE Serve(c) BY <2>2, ServeRefines
  <2>3. CASE Use(c) BY <2>3, UseRefines
  <2>4. CASE \E n \in DOMAIN calls[c] : Run(c, n) BY <2>4, RunRefines, SendRefines
  <2> QED BY <2>1, <2>2, <2>3, <2>4
<1> QED BY <1>1, <1>2

(* For any connections, plans and sizes, and whatever fails: the server and *)
(* its clients refuse a call only when its session is over, answer it once, *)
(* lose an answer only with the session, and return with the answer to the  *)
(* call that was made (mcp/server.go, session.go, client.go).               *)
THEOREM ServerKeepsPromise == Spec => ImplementsCalls
BY InitInv, StepInv, InitService, ServiceStep, InitRefines, NextRefines, PTL
   DEF Spec, ImplementsCalls, Promise!Spec
==============================================================================
