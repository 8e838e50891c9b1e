----------------------------- MODULE RTSPClient -----------------------------
(***************************************************************************)
(* sRTSPClient (sRTSP/sRTSP/sRTSPClient.m) as the broadcast manager drives *)
(* it in setupRTPTCPConnection and setupRTPUDPConnection, with the server  *)
(* it talks to.  One request is outstanding at a time: a method composes   *)
(* it, writes it and reads an answer; a 401 is answered by calling the     *)
(* method again, once, with credentials.                                   *)
(*                                                                         *)
(* The answer is whatever one recv returns: nothing delimits answers and   *)
(* nothing compares their CSeq with the request's.  A request is           *)
(* identified by its step and by the depth of the recursion that sent it;  *)
(* cSeq itself, which only numbers requests on the wire, is left out.      *)
(* streamType is RTSP_PUBLISH, as in every use by the application.         *)
(***************************************************************************)
EXTENDS Naturals, Sequences, FiniteSets

CONSTANTS
  NumTracks,  \* 2 for audio and video, 1 for either alone
  UseTCP,     \* transport
  Scheme,     \* the scheme of the server's challenges
  Challenged, \* the methods a server may protect
  Splits,     \* may an answer reach recv in two pieces
  MaxReports  \* bound: receiver reports interleaved while streaming

Tracks    == 1..NumTracks
NumSteps  == NumTracks + 3
TearStep  == NumSteps + 1
Steps     == 1..TearStep
Methods   == {"OPTIONS", "ANNOUNCE", "SETUP", "RECORD", "TEARDOWN"}

ASSUME RTSPAssumption ==
  /\ NumTracks \in {1, 2}
  /\ UseTCP \in BOOLEAN
  /\ Scheme \in {"Basic", "Digest"}
  /\ Challenged \subseteq Methods
  /\ Splits \in BOOLEAN
  /\ MaxReports \in Nat

VARIABLES
  pc,       \* "idle", "send", "read", "returned", "up", or how it ended
  step,     \* the request in progress
  depth,    \* recurse_depth of its method
  auth,     \* authentication: "none", "Basic" or the method of a Digest
  session,  \* whether the session id is known
  channels, \* channelCount
  closes,   \* how many times teardown has closed the socket
  ret,      \* the last answer: its code, whether its headers came with it, its port
  ports,    \* the manager's local variable `ports`; 0 is uninitialised
  route,    \* where the RTP session of each track sends: channel or port
  toServer, \* the request in flight
  toClient, \* what the server has written, as the pieces recv will see
  srv       \* the server: its settings, steps accepted, session, reports, routes

clientVars == <<pc, step, depth, auth, session, channels, closes, ret, ports, route>>
vars == <<clientVars, toServer, toClient, srv>>

-----------------------------------------------------------------------------
(* Requests and answers. *)

Method(s) ==
  CASE s = 1        -> "OPTIONS"
    [] s = 2        -> "ANNOUNCE"
    [] s = NumSteps -> "RECORD"
    [] s = TearStep -> "TEARDOWN"
    [] OTHER        -> "SETUP"

Track(s) == s - 2

Nowhere == 99
NoAnswer == [code |-> "none", whole |-> FALSE, port |-> 0, session |-> FALSE]

\* options sends neither credentials nor a session.
Request ==
  [step    |-> step,
   depth   |-> depth,
   auth    |-> IF Method(step) = "OPTIONS" THEN "none" ELSE auth,
   session |-> session /\ Method(step) # "OPTIONS",
   channel |-> channels]

\* interleaved=%d-%d takes two channels each time a SETUP is composed.
Composed == IF Method(step) = "SETUP" /\ UseTCP THEN channels + 2 ELSE channels

\* generateBasicAuth or generateDigestAuth, from the challenge just parsed.
Credentials == IF Scheme = "Basic" THEN "Basic" ELSE Method(step)

\* What is left of a split answer, or a receiver report: not a status line.
Garbled(hasSession) == [code |-> "garbled", whole |-> FALSE, port |-> 0, session |-> hasSession]

\* The answer in the n pieces one recv returns.
Received(n) == [Head(toClient) EXCEPT !.whole = @ \/ (n > 1 /\ Head(toClient).code # "garbled")]

-----------------------------------------------------------------------------
(* The server (external). *)

FreshServer ==
  [protected : SUBSET Challenged, good : BOOLEAN, accepted : {0},
   session : {FALSE}, reports : {0}, route : {[t \in Tracks |-> Nowhere]}]

\* Credentials the server takes for a step.
Proper(s) == IF Scheme = "Basic" THEN "Basic" ELSE Method(s)

Due(r) ==
  CASE Method(r.step) \in srv.protected /\ ~(srv.good /\ r.auth = Proper(r.step)) -> "unauthorized"
    [] (srv.session /\ ~r.session) \/ r.step # srv.accepted + 1 -> "refused"
    [] OTHER -> "ok"

\* An accepted SETUP opens the session and fixes where its track is expected.
ServerAfter(r) ==
  IF Method(r.step) = "SETUP"
  THEN [srv EXCEPT !.accepted = r.step, !.session = TRUE,
                   !.route[Track(r.step)] = IF UseTCP THEN r.channel ELSE Track(r.step)]
  ELSE [srv EXCEPT !.accepted = r.step]

\* The pieces an answer may arrive in; a split falls after the status line.
Pieces(r, code) ==
  LET setup == code = "ok" /\ Method(r.step) = "SETUP"
      a == [code |-> code, whole |-> TRUE, session |-> setup,
            port |-> IF setup /\ ~UseTCP THEN Track(r.step) ELSE 0]
  IN  {<<a>>} \cup (IF Splits THEN {<<[a EXCEPT !.whole = FALSE], Garbled(setup)>>} ELSE {})

Serve ==
  /\ toServer # <<>>
  /\ LET r == Head(toServer) IN
       \E code \in {Due(r), "refused"} :
         /\ srv' = IF code = "ok" THEN ServerAfter(r) ELSE srv
         /\ \E p \in Pieces(r, code) : toClient' = toClient \o p
  /\ toServer' = Tail(toServer)
  /\ UNCHANGED clientVars

\* A receiver report on the interleaved connection: nothing over TCP reads it.
Report ==
  /\ UseTCP /\ srv.accepted = NumSteps /\ srv.reports < MaxReports
  /\ srv' = [srv EXCEPT !.reports = @ + 1]
  /\ toClient' = Append(toClient, Garbled(FALSE))
  /\ UNCHANGED <<clientVars, toServer>>

-----------------------------------------------------------------------------
(* The client: a method from its request to its return value. *)

Init ==
  /\ pc = "idle" /\ step = 1 /\ depth = 0 /\ auth = "none" /\ session = FALSE
  /\ channels = 0 /\ closes = 0 /\ ret = NoAnswer /\ ports = 0
  /\ route = [t \in Tracks |-> Nowhere]
  /\ toServer = <<>> /\ toClient = <<>> /\ srv \in FreshServer

ConnectTo ==
  /\ pc = "idle"
  /\ pc' \in {"send", "failed"}
  /\ UNCHANGED <<step, depth, auth, session, channels, closes, ret, ports, route,
                 toServer, toClient, srv>>

\* Seeded fault: announce forgets its credentials, as its commented-out line did.
ForgetsEveryTime == depth = 1

\* After a retry every method but announce forgets the credentials.
Forgets == depth = 1 /\ Method(step) # "ANNOUNCE"

\* The method returns; teardown closes the socket at each level of recursion.
Return(a) ==
  /\ pc' = "returned"
  /\ ret' = a
  /\ auth' = IF Forgets THEN "none" ELSE auth
  /\ closes' = IF Method(step) = "TEARDOWN" THEN closes + 1 + depth ELSE closes
  /\ depth' = 0

Send ==
  /\ pc = "send"
  /\ channels' = Composed
  /\ \/ /\ pc' = "read"
        /\ toServer' = Append(toServer, Request)
        /\ UNCHANGED <<depth, auth, closes, ret>>
     \/ /\ Return([NoAnswer EXCEPT !.code = "write"])
        /\ UNCHANGED toServer
  /\ UNCHANGED <<step, session, ports, route, toClient, srv>>

\* Seeded fault: only setupResponse of a player reads the session.
SessionAfterPlayOnly(a) == {session}

\* parseResponse: a piece without its first line may still name the session.
SessionAfter(a) ==
  CASE a.session /\ a.whole -> {TRUE}
    [] a.session /\ a.code = "garbled" -> {session, TRUE}
    [] OTHER -> {session}

\* Seeded fault: no bound on the recursion.
RetriesForEver(a) == a.code = "unauthorized" /\ a.whole /\ Method(step) # "OPTIONS"

Retries(a) == a.code = "unauthorized" /\ a.whole /\ depth = 0 /\ Method(step) # "OPTIONS"

Read ==
  /\ pc = "read"
  /\ \E n \in 1..Len(toClient) :
       LET a == Received(n) IN
         /\ toClient' = SubSeq(toClient, n + 1, Len(toClient))
         /\ session' \in SessionAfter(a)
         /\ IF Retries(a)
            THEN /\ auth' = Credentials /\ depth' = depth + 1 /\ pc' = "send"
                 /\ UNCHANGED <<closes, ret>>
            ELSE Return(a)
  /\ UNCHANGED <<step, channels, ports, route, toServer, srv>>

\* Seeded fault: no receive time-out, so a silent server is waited for.
ReadFailsOnClose ==
  /\ pc = "read" /\ toClient = <<>> /\ toServer = <<>>
  /\ Return([NoAnswer EXCEPT !.code = "eof"])
  /\ UNCHANGED <<step, session, channels, ports, route, toServer, toClient, srv>>

\* SO_RCVTIMEO, or the server has closed the connection.
ReadFails ==
  /\ pc = "read" /\ toClient = <<>>
  /\ \E code \in {"timeout", "eof"} : Return([NoAnswer EXCEPT !.code = code])
  /\ UNCHANGED <<step, session, channels, ports, route, toServer, toClient, srv>>

-----------------------------------------------------------------------------
(* The manager: what it does with the value a method returns. *)

\* Seeded fault: the handshake stops one request early.
ContinueNoRecord ==
  /\ IF step + 1 = NumSteps
     THEN pc' = "up" /\ UNCHANGED step
     ELSE pc' = "send" /\ step' = step + 1

Continue ==
  /\ IF step = NumSteps
     THEN pc' = "up" /\ UNCHANGED step
     ELSE pc' = "send" /\ step' = step + 1

\* Seeded fault: the first server_port found is kept.
PortsAfterFirst == IF ports = 0 /\ ret.whole THEN ret.port ELSE ports

\* server_port of this answer's Transport header, else what `ports` held.
PortsAfter == IF ret.whole /\ ret.port # 0 THEN ret.port ELSE ports

StreamId(t) == 2 * (t - 1)

SetupDone ==
  /\ pc = "returned" /\ ret.code = "ok" /\ Method(step) = "SETUP"
  /\ IF UseTCP
     THEN /\ route' = [route EXCEPT ![Track(step)] = StreamId(Track(step))]
          /\ UNCHANGED ports
          /\ Continue
     ELSE /\ ports' = PortsAfter
          /\ \/ /\ route' = [route EXCEPT ![Track(step)] = PortsAfter]
                /\ Continue
             \/ /\ PortsAfter = 0   \* an uninitialised pointer is messaged
                /\ pc' = "crashed" /\ UNCHANGED <<step, route>>
  /\ UNCHANGED <<depth, auth, session, channels, closes, ret, toServer, toClient, srv>>

StepDone ==
  /\ pc = "returned" /\ ret.code = "ok" /\ Method(step) \in {"OPTIONS", "ANNOUNCE", "RECORD"}
  /\ Continue
  /\ UNCHANGED <<depth, auth, session, channels, closes, ret, ports, route,
                 toServer, toClient, srv>>

GiveUp ==
  /\ pc = "returned" /\ ret.code # "ok" /\ Method(step) # "TEARDOWN"
  /\ pc' = IF ret.code = "unauthorized" THEN "denied" ELSE "failed"
  /\ UNCHANGED <<step, depth, auth, session, channels, closes, ret, ports, route,
                 toServer, toClient, srv>>

\* disconnectInternal: sends TEARDOWN, unless the stream has failed.
Disconnect ==
  /\ pc = "up"
  /\ \/ pc' = "send" /\ step' = TearStep
     \/ pc' = "dropped" /\ UNCHANGED step
  /\ UNCHANGED <<depth, auth, session, channels, closes, ret, ports, route,
                 toServer, toClient, srv>>

TornDown ==
  /\ pc = "returned" /\ Method(step) = "TEARDOWN"
  /\ pc' = "closed"
  /\ UNCHANGED <<step, depth, auth, session, channels, closes, ret, ports, route,
                 toServer, toClient, srv>>

\* Every attempt allocates a client of its own, on a connection of its own.
NewAttempt ==
  /\ pc \in {"failed", "denied", "crashed", "dropped", "closed"}
  /\ pc' = "idle" /\ step' = 1 /\ depth' = 0 /\ auth' = "none" /\ session' = FALSE
  /\ channels' = 0 /\ closes' = 0 /\ ret' = NoAnswer /\ ports' = 0
  /\ route' = [t \in Tracks |-> Nowhere]
  /\ toServer' = <<>> /\ toClient' = <<>> /\ srv' \in FreshServer

-----------------------------------------------------------------------------
ClientStep == Send \/ Read \/ ReadFails \/ SetupDone \/ StepDone \/ GiveUp \/ TornDown

Next == ClientStep \/ ConnectTo \/ Disconnect \/ NewAttempt \/ Serve \/ Report

Spec == Init /\ [][Next]_vars

\* The thread the client runs on is scheduled; every call of it returns within
\* the socket's time-outs.  The server owes nothing.
FairSpec == Spec /\ WF_vars(ClientStep)

-----------------------------------------------------------------------------
(* Properties. *)

Codes == {"none", "ok", "unauthorized", "refused", "garbled", "write", "timeout", "eof"}
Answers == [code : Codes, whole : BOOLEAN, port : Nat, session : BOOLEAN]
Credential == {"none", "Basic"} \cup Methods
Requests == [step : Steps, depth : {0, 1}, auth : Credential, session : BOOLEAN, channel : Nat]
Routes == [Tracks -> Nat]
Servers ==
  [protected : SUBSET Challenged, good : BOOLEAN, accepted : 0..TearStep,
   session : BOOLEAN, reports : 0..MaxReports, route : Routes]

ClientTyped ==
  /\ pc \in {"idle", "send", "read", "returned", "up", "failed", "denied",
             "crashed", "dropped", "closed"}
  /\ step \in Steps /\ depth \in {0, 1} /\ auth \in Credential /\ session \in BOOLEAN
  /\ channels \in Nat /\ closes \in Nat /\ ret \in Answers

ManagerTyped == ports \in Nat /\ route \in Routes
WireTyped == toServer \in Seq(Requests) /\ toClient \in Seq(Answers)

TypeOK == ClientTyped /\ ManagerTyped /\ WireTyped /\ srv \in Servers

\* What the caller has been told, what the server did, what may be to blame.
Phase ==
  CASE pc = "idle" -> "idle"
    [] pc \in {"failed", "crashed"} -> "failed"
    [] pc = "denied" -> "denied"
    [] pc \in {"closed", "dropped"} -> "closed"
    [] pc = "up" \/ (pc \in {"send", "read", "returned"} /\ step = TearStep) -> "recording"
    [] OTHER -> "connecting"
StepsAccepted == IF srv.accepted = TearStep THEN NumSteps ELSE srv.accepted
Deniable == ~srv.good \/ Splits \/ "OPTIONS" \in srv.protected

Session == INSTANCE RTSPSession WITH
  phase <- Phase, accepted <- StepsAccepted, deniable <- Deniable

\* The client's handlers implement RTSPSession: whatever is retried, split,
\* refused or lost, connect: reports success only when the server has accepted
\* every request in order, and reports a wrong password only if it is wrong,
\* a split answer may have hidden the challenge, or OPTIONS is challenged,
\* which options cannot answer.
SessionSpec == Session!Spec

\* What makes the client an implementation of RTSPSession, part by part.
Answered(code) == \E i \in DOMAIN toClient : toClient[i].code = code
NoAnswerYet == \A i \in DOMAIN toClient : toClient[i].code = "garbled"

\* Every call begins with its first request, every client with the first call.
CallsBegin ==
  /\ pc = "idle" => step = 1
  /\ pc \in {"idle", "returned"} => depth = 0

\* At most one request is in flight or has its answer waiting.
OneOutstanding ==
  /\ Len(toServer) <= 1
  /\ toServer # <<>> => NoAnswerYet
  /\ \A i, j \in DOMAIN toClient :
       toClient[i].code # "garbled" /\ toClient[j].code # "garbled" => i = j
  /\ (pc \in {"idle", "send", "up"} \/ (pc = "returned" /\ ret.code = "ok"))
       => toServer = <<>> /\ NoAnswerYet

\* An "ok" is the answer of the request in progress.
OkIsAccepted ==
  /\ pc = "read" /\ Answered("ok") => srv.accepted >= step
  /\ pc = "read" /\ toServer # <<>> => Head(toServer).step = step
  /\ pc = "returned" /\ ret.code = "ok" => srv.accepted >= step
  /\ Phase \in {"recording", "closed"} => srv.accepted >= NumSteps

\* With the right password only the first sending of a request is challenged.
RetryIsProper ==
  (Phase = "connecting" /\ ~Deniable) =>
    /\ pc \in {"send", "read"} /\ depth = 1 => auth = Proper(step)
    /\ pc = "read" /\ toServer # <<>> /\ Method(step) # "OPTIONS" => Head(toServer).auth = auth
    /\ pc = "read" => \A i \in DOMAIN toClient :
         toClient[i].code = "unauthorized" =>
           depth = 0 /\ toClient[i].whole /\ Method(step) # "OPTIONS"
    /\ pc = "returned" => ret.code # "unauthorized"

SessionInv == CallsBegin /\ OneOutstanding /\ OkIsAccepted /\ RetryIsProper

\* A server that challenges a method the client has no credentials for yet:
\* only Basic credentials given to announce outlive the request they were for.
Rechallenged(m) == m \in srv.protected /\ ~(Scheme = "Basic" /\ "ANNOUNCE" \in srv.protected)

\* While streaming, the RTP session of every track sends where the server
\* expects that track, although the channel numbers are computed twice, by the
\* client and by the manager, and `ports` outlives the SETUP it was read from.
\* A SETUP challenged over TCP is the exception: its retry takes two channels more.
RoutesAgree ==
  (pc = "up" /\ ~(UseTCP /\ Rechallenged("SETUP"))) => route = srv.route

\* A request for which the server needs the session id carries it, provided
\* that no answer was split: the client learns it from any answer (parseResponse).
SessionCarried ==
  \A i \in DOMAIN toServer :
    (srv.session /\ ~Splits) => toServer[i].session

\* teardown closes the socket once: only a retry of TEARDOWN closes it again,
\* and none happens unless the server challenges TEARDOWN anew.
SocketClosedOnce == closes > 1 => Rechallenged("TEARDOWN")

\* A method never sends a third request, and a second only for a challenge, so
\* every call returns (recurse_depth, SO_RCVTIMEO): a handshake ends, and so does
\* a stop that sends TEARDOWN, whatever the server answers or withholds.
ExchangesEnd ==
  /\ (pc = "send" /\ step = 1) ~> pc \in {"up", "failed", "denied", "crashed"}
  /\ (pc = "send" /\ step = TearStep) ~> pc = "closed"

=============================================================================
