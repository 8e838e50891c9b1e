-------------------------- MODULE RTSPClientProofs --------------------------
(***************************************************************************)
(* Theorems about RTSPClient, for one or two tracks, either transport,     *)
(* either scheme, every set of challenged methods, answers split or not    *)
(* and any number of receiver reports.                                     *)
(***************************************************************************)
EXTENDS RTSPClient, SequenceTheorems, TLAPS

(* The order of the requests: which step is which method.                  *)
LEMMA StepFacts ==
  /\ NumTracks \in {1, 2} /\ NumSteps = NumTracks + 3 /\ TearStep = NumSteps + 1
  /\ \A s \in Steps :
       /\ s \in Nat /\ 1 <= s /\ s <= TearStep
       /\ Method(s) \in Methods
       /\ Method(s) = "OPTIONS" <=> s = 1
       /\ Method(s) = "ANNOUNCE" <=> s = 2
       /\ Method(s) = "SETUP" <=> 3 <= s /\ s < NumSteps
       /\ Method(s) = "RECORD" <=> s = NumSteps
       /\ Method(s) = "TEARDOWN" <=> s = TearStep
       /\ Method(s) = "SETUP" => Track(s) \in Tracks /\ Track(s) \in Nat
<1>1. NumTracks \in {1, 2} /\ NumSteps = NumTracks + 3 /\ TearStep = NumSteps + 1
  BY RTSPAssumption DEF RTSPAssumption, NumSteps, TearStep
<1>2. ASSUME NEW s \in Steps
      PROVE  /\ s \in Nat /\ 1 <= s /\ s <= TearStep
             /\ Method(s) \in Methods
             /\ Method(s) = "OPTIONS" <=> s = 1
             /\ Method(s) = "ANNOUNCE" <=> s = 2
             /\ Method(s) = "SETUP" <=> 3 <= s /\ s < NumSteps
             /\ Method(s) = "RECORD" <=> s = NumSteps
             /\ Method(s) = "TEARDOWN" <=> s = TearStep
             /\ Method(s) = "SETUP" => Track(s) \in Tracks /\ Track(s) \in Nat
  BY <1>1 DEF Steps, Method, Methods, Track, Tracks
<1>3. QED
  BY <1>1, <1>2

(* What recv leaves in the socket after taking n pieces.                   *)
LEMMA RestOfWire ==
  ASSUME toClient \in Seq(Answers), NEW n \in 1..Len(toClient),
         toClient' = SubSeq(toClient, n + 1, Len(toClient))
  PROVE  /\ toClient' \in Seq(Answers)
         /\ DOMAIN toClient' = 1..(Len(toClient) - n)
         /\ \A i \in DOMAIN toClient' : i + n \in DOMAIN toClient /\ toClient'[i] = toClient[i + n]
<1>1. \A i \in (n + 1)..Len(toClient) : toClient[i] \in Answers
  OBVIOUS
<1>2. n + 1 \in Int /\ Len(toClient) \in Int
  OBVIOUS
<1>3. /\ toClient' \in Seq(Answers)
      /\ Len(toClient') = IF n + 1 <= Len(toClient) THEN Len(toClient) - (n + 1) + 1 ELSE 0
      /\ \A i \in 1..(Len(toClient) - (n + 1) + 1) : toClient'[i] = toClient[(n + 1) + i - 1]
  BY <1>1, <1>2, SubSeqProperties
<1>4. QED
  BY <1>3

(* What recv returns is an answer with the code of the first piece.        *)
LEMMA ReceivedFacts ==
  ASSUME toClient \in Seq(Answers), NEW n \in 1..Len(toClient)
  PROVE  /\ Received(n) \in Answers
         /\ Received(n).code = toClient[1].code
         /\ toClient[1].whole => Received(n).whole
         /\ 1 \in DOMAIN toClient
<1>1. Head(toClient) = toClient[1] /\ toClient[1] \in Answers /\ 1 \in DOMAIN toClient
  OBVIOUS
<1>2. QED
  BY <1>1 DEF Received, Answers

(* The pieces of an answer: the first has its code, a second is garbled,   *)
(* an answer that cannot be split is whole, and that to a SETUP names the  *)
(* session unless it is cut off, and the port.                             *)
LEMMA PiecesFacts ==
  ASSUME NEW r \in Requests, NEW code \in Codes, code # "garbled", NEW p \in Pieces(r, code)
  PROVE  /\ p \in Seq(Answers)
         /\ Len(p) \in {1, 2}
         /\ p[1].code = code
         /\ ~Splits => p[1].whole
         /\ Len(p) = 2 => p[2].code = "garbled"
         /\ p[1].whole \/ Len(p) = 2
         /\ ~Splits => Len(p) = 1
         /\ code = "ok" /\ Method(r.step) = "SETUP" =>
              p[1].session /\ (~UseTCP => p[1].port = Track(r.step))
<1> DEFINE setup == code = "ok" /\ Method(r.step) = "SETUP"
           a == [code |-> code, whole |-> TRUE, session |-> setup,
                 port |-> IF setup /\ ~UseTCP THEN Track(r.step) ELSE 0]
           b == [a EXCEPT !.whole = FALSE]
<1>1. r.step \in Steps
  BY DEF Requests
<1>2. (IF setup /\ ~UseTCP THEN Track(r.step) ELSE 0) \in Nat
  BY <1>1, StepFacts
<1>3. a \in Answers /\ a.code = code /\ a.whole
  BY <1>2 DEF Answers
<1>4. b \in Answers /\ b.code = code
  BY <1>2 DEF Answers
<1>10. /\ setup => a.session /\ (~UseTCP => a.port = Track(r.step))
       /\ setup => b.session /\ (~UseTCP => b.port = Track(r.step))
  OBVIOUS
<1>11. setup <=> code = "ok" /\ Method(r.step) = "SETUP"
  OBVIOUS
<1>5. Garbled(setup) \in Answers /\ Garbled(setup).code = "garbled"
  BY DEF Garbled, Answers, Codes
<1>6. p = <<a>> \/ (Splits /\ p = <<b, Garbled(setup)>>)
  BY DEF Pieces
<1> HIDE DEF setup, a, b
<1>7. CASE p = <<a>>
  BY <1>3, <1>7, <1>10, <1>11
<1>8. CASE Splits /\ p = <<b, Garbled(setup)>>
  BY <1>4, <1>5, <1>8, <1>10, <1>11
<1>9. QED
  BY <1>6, <1>7, <1>8

(* The answer a call returns when there is none is an answer. *)
LEMMA FailureTyped ==
  \A code \in Codes : /\ [NoAnswer EXCEPT !.code = code] \in Answers
                      /\ [NoAnswer EXCEPT !.code = code].code = code
<1>1. NoAnswer \in Answers
  BY DEF NoAnswer, Answers, Codes
<1>2. QED
  BY <1>1 DEF Answers

(* A server that has not been spoken to is typed. *)
LEMMA FreshTyped == FreshServer \subseteq Servers
<1>1. [t \in Tracks |-> Nowhere] \in Routes
  BY DEF Routes, Nowhere
<1>2. 0 \in 0..TearStep /\ 0 \in 0..MaxReports
  BY StepFacts, RTSPAssumption DEF RTSPAssumption
<1>3. QED
  BY <1>1, <1>2 DEF FreshServer, Servers

(* The initial state satisfies the type invariant. *)
LEMMA InitTyped == Init => TypeOK
<1> SUFFICES ASSUME Init PROVE TypeOK
  OBVIOUS
<1>1. ClientTyped
  <2>1. NoAnswer \in Answers
    BY DEF NoAnswer, Answers, Codes
  <2>2. 1 \in Steps
    BY StepFacts DEF Steps
  <2>3. QED
    BY <2>1, <2>2 DEF Init, ClientTyped, Credential
<1>2. ManagerTyped /\ WireTyped
  BY DEF Init, ManagerTyped, WireTyped, Routes, Nowhere
<1>3. srv \in Servers
  BY FreshTyped DEF Init
<1>4. QED
  BY <1>1, <1>2, <1>3 DEF TypeOK

(* A call that returns leaves the client typed. *)
LEMMA ReturnTyped ==
  ASSUME ClientTyped, NEW a \in Answers, Return(a)
  PROVE  /\ pc' = "returned" /\ depth' = 0 /\ ret' = a
         /\ auth' \in Credential /\ closes' \in Nat
<1>1. depth \in {0, 1} /\ closes \in Nat /\ auth \in Credential
  BY DEF ClientTyped
<1>2. auth' \in Credential
  BY <1>1 DEF Return, Credential
<1>3. closes' \in Nat
  BY <1>1 DEF Return
<1>4. QED
  BY <1>2, <1>3 DEF Return

(* The server's state stays typed when it answers the request in flight. *)
LEMMA ServerTyped ==
  ASSUME srv \in Servers, NEW r \in Requests
  PROVE  /\ ServerAfter(r) \in Servers
         /\ ServerAfter(r).accepted = r.step
         /\ ServerAfter(r).protected = srv.protected
         /\ ServerAfter(r).good = srv.good
<1>1. r.step \in Steps /\ r.channel \in Nat /\ r.step \in 0..TearStep
  BY StepFacts DEF Requests, Steps
<1>2. CASE Method(r.step) # "SETUP"
  <2>1. ServerAfter(r) = [srv EXCEPT !.accepted = r.step]
    BY <1>2 DEF ServerAfter
  <2>2. QED
    BY <1>1, <2>1 DEF Servers
<1>3. CASE Method(r.step) = "SETUP"
  <2> DEFINE at == IF UseTCP THEN r.channel ELSE Track(r.step)
             rt == [srv.route EXCEPT ![Track(r.step)] = at]
  <2>1. Track(r.step) \in Tracks /\ at \in Nat
    BY <1>1, <1>3, StepFacts
  <2>2. srv.route \in Routes
    BY DEF Servers
  <2>3. rt \in Routes
    BY <2>1, <2>2 DEF Routes
  <2>4. ServerAfter(r) = [srv EXCEPT !.accepted = r.step, !.session = TRUE, !.route = rt]
    BY <1>3 DEF ServerAfter, Servers
  <2> HIDE DEF at, rt
  <2>5. QED
    BY <1>1, <2>3, <2>4 DEF Servers
<1>4. QED
  BY <1>2, <1>3

(* Every step preserves the type invariant. *)
LEMMA NextTyped == ASSUME TypeOK, [Next]_vars PROVE TypeOK'
<1>0. ClientTyped /\ ManagerTyped /\ WireTyped /\ srv \in Servers
  BY DEF TypeOK
<1> USE <1>0
<1>1. ASSUME Serve PROVE TypeOK'
  <2>1. toServer # <<>> /\ toServer' = Tail(toServer) /\ UNCHANGED clientVars
    BY <1>1 DEF Serve
  <2> DEFINE r == Head(toServer)
  <2>2. r \in Requests /\ Tail(toServer) \in Seq(Requests)
    BY <2>1 DEF WireTyped
  <2>3. PICK code \in {Due(r), "refused"} :
          /\ srv' = IF code = "ok" THEN ServerAfter(r) ELSE srv
          /\ \E p \in Pieces(r, code) : toClient' = toClient \o p
    BY <1>1 DEF Serve
  <2>4. code \in Codes /\ code # "garbled"
    BY DEF Due, Codes
  <2>5. PICK p \in Seq(Answers) : toClient' = toClient \o p
    BY <2>2, <2>3, <2>4, PiecesFacts
  <2>6. srv' \in Servers
    BY <2>2, <2>3, ServerTyped
  <2>7. WireTyped'
    <3>1. toClient \o p \in Seq(Answers)
      BY <2>5, ConcatProperties DEF WireTyped
    <3>2. QED
      BY <2>1, <2>2, <2>5, <3>1 DEF WireTyped
  <2>8. ClientTyped' /\ ManagerTyped'
    BY <2>1 DEF ClientTyped, ManagerTyped, clientVars
  <2>9. QED
    BY <2>6, <2>7, <2>8 DEF TypeOK
<1>2. ASSUME Report PROVE TypeOK'
  <2>1. srv' \in Servers
    <3>1. srv.reports + 1 \in 0..MaxReports
      BY <1>2, RTSPAssumption DEF Report, Servers, RTSPAssumption
    <3>2. srv' = [srv EXCEPT !.reports = @ + 1]
      BY <1>2 DEF Report
    <3>3. QED
      BY <3>1, <3>2 DEF Servers
  <2>2. WireTyped'
    <3>1. Garbled(FALSE) \in Answers
      BY DEF Garbled, Answers, Codes
    <3>2. Append(toClient, Garbled(FALSE)) \in Seq(Answers)
      BY <3>1, AppendProperties DEF WireTyped
    <3>3. UNCHANGED toServer /\ toClient' = Append(toClient, Garbled(FALSE))
      BY <1>2 DEF Report
    <3>4. QED
      BY <3>2, <3>3 DEF WireTyped
  <2>3. ClientTyped' /\ ManagerTyped'
    BY <1>2 DEF Report, ClientTyped, ManagerTyped, clientVars
  <2>4. QED
    BY <2>1, <2>2, <2>3 DEF TypeOK
<1>3. ASSUME ConnectTo \/ GiveUp \/ TornDown PROVE TypeOK'
  BY <1>3 DEF ConnectTo, GiveUp, TornDown, TypeOK, ClientTyped, ManagerTyped, WireTyped
<1>4. ASSUME Send PROVE TypeOK'
  <2>1. channels' \in Nat
    BY <1>4 DEF Send, Composed, ClientTyped
  <2>2. ClientTyped' /\ toServer' \in Seq(Requests)
    <3>1. CASE pc' = "read" /\ toServer' = Append(toServer, Request)
               /\ UNCHANGED <<depth, auth, closes, ret>>
      <4>1. Request \in Requests
        BY DEF Request, Requests, ClientTyped, Credential
      <4>2. QED
        BY <1>4, <2>1, <3>1, <4>1 DEF Send, ClientTyped, WireTyped
    <3>2. CASE Return([NoAnswer EXCEPT !.code = "write"]) /\ UNCHANGED toServer
      <4>1. [NoAnswer EXCEPT !.code = "write"] \in Answers
        BY FailureTyped DEF Codes
      <4>2. /\ pc' = "returned" /\ depth' = 0 /\ ret' = [NoAnswer EXCEPT !.code = "write"]
            /\ auth' \in Credential /\ closes' \in Nat
        BY <3>2, <4>1, ReturnTyped
      <4>3. QED
        BY <1>4, <2>1, <3>2, <4>1, <4>2 DEF Send, ClientTyped, WireTyped
    <3>3. QED
      BY <1>4, <3>1, <3>2 DEF Send
  <2>3. QED
    BY <1>4, <2>2 DEF Send, TypeOK, ManagerTyped, WireTyped
<1>5. ASSUME Read PROVE TypeOK'
  <2>1. PICK n \in 1..Len(toClient) :
          /\ toClient' = SubSeq(toClient, n + 1, Len(toClient))
          /\ session' \in SessionAfter(Received(n))
          /\ IF Retries(Received(n))
             THEN /\ auth' = Credentials /\ depth' = depth + 1 /\ pc' = "send"
                  /\ UNCHANGED <<closes, ret>>
             ELSE Return(Received(n))
    BY <1>5 DEF Read
  <2>2. toClient' \in Seq(Answers)
    BY <2>1, RestOfWire DEF WireTyped
  <2>3. Received(n) \in Answers
    BY <2>1, ReceivedFacts DEF WireTyped
  <2>4. session' \in BOOLEAN
    BY <2>1, <2>3 DEF SessionAfter, ClientTyped
  <2>5. pc' \in {"send", "returned"} /\ depth' \in {0, 1} /\ auth' \in Credential
        /\ closes' \in Nat /\ ret' \in Answers
    <3>1. CASE Retries(Received(n))
      <4>1. Credentials \in Credential
        BY StepFacts DEF Credentials, Credential, ClientTyped
      <4>2. QED
        BY <2>1, <3>1, <4>1 DEF Retries, ClientTyped
    <3>2. CASE ~Retries(Received(n))
      <4>1. Return(Received(n))
        BY <2>1, <3>2
      <4>2. QED
        BY <2>3, <4>1, ReturnTyped
    <3>3. QED
      BY <3>1, <3>2
  <2>6. QED
    BY <1>5, <2>2, <2>4, <2>5 DEF Read, TypeOK, ClientTyped, ManagerTyped, WireTyped
<1>6. ASSUME ReadFails PROVE TypeOK'
  <2>1. PICK code \in {"timeout", "eof"} : Return([NoAnswer EXCEPT !.code = code])
    BY <1>6 DEF ReadFails
  <2>2. [NoAnswer EXCEPT !.code = code] \in Answers
    BY FailureTyped DEF Codes
  <2>3. /\ pc' = "returned" /\ depth' = 0 /\ ret' \in Answers
        /\ auth' \in Credential /\ closes' \in Nat
    BY <2>1, <2>2, ReturnTyped
  <2>4. QED
    BY <1>6, <2>3 DEF ReadFails, TypeOK, ClientTyped, ManagerTyped, WireTyped
<1>7. ASSUME SetupDone \/ StepDone PROVE TypeOK'
  <2>1. /\ pc' \in {"send", "up", "crashed"} /\ step' \in Steps
        /\ UNCHANGED <<depth, auth, session, channels, closes, ret, toServer, toClient, srv>>
    <3>1. Method(step) \in {"SETUP", "OPTIONS", "ANNOUNCE", "RECORD"}
      BY <1>7 DEF SetupDone, StepDone
    <3>2. step \in Nat /\ step < TearStep
      BY <3>1, StepFacts DEF ClientTyped
    <3>3. step + 1 \in Steps
      BY <3>2, StepFacts DEF Steps
    <3>4. QED
      BY <1>7, <3>3 DEF SetupDone, StepDone, Continue, ClientTyped
  <2>2. ManagerTyped'
    <3>1. CASE StepDone
      BY <3>1 DEF StepDone, ManagerTyped
    <3>2. CASE SetupDone
      <4>1. StreamId(Track(step)) \in Nat
        BY <3>2, StepFacts DEF SetupDone, StreamId, ClientTyped, Tracks
      <4>2. PortsAfter \in Nat
        BY DEF PortsAfter, ManagerTyped, ClientTyped, Answers
      <4>3. QED
        BY <3>2, <4>1, <4>2 DEF SetupDone, ManagerTyped, Routes
    <3>3. QED
      BY <1>7, <3>1, <3>2
  <2>3. QED
    BY <2>1, <2>2 DEF TypeOK, ClientTyped, WireTyped
<1>8. ASSUME Disconnect PROVE TypeOK'
  <2>1. TearStep \in Steps
    BY StepFacts DEF Steps
  <2>2. QED
    BY <1>8, <2>1 DEF Disconnect, TypeOK, ClientTyped, ManagerTyped, WireTyped
<1>9. ASSUME NewAttempt PROVE TypeOK'
  <2>1. ClientTyped'
    <3>1. NoAnswer \in Answers
      BY DEF NoAnswer, Answers, Codes
    <3>2. 1 \in Steps
      BY StepFacts DEF Steps
    <3>3. QED
      BY <1>9, <3>1, <3>2 DEF NewAttempt, ClientTyped, Credential
  <2>2. ManagerTyped' /\ WireTyped'
    BY <1>9 DEF NewAttempt, ManagerTyped, WireTyped, Routes, Nowhere
  <2>3. srv' \in Servers
    BY <1>9, FreshTyped DEF NewAttempt
  <2>4. QED
    BY <2>1, <2>2, <2>3 DEF TypeOK
<1>10. ASSUME UNCHANGED vars PROVE TypeOK'
  BY <1>10 DEF vars, clientVars, TypeOK, ClientTyped, ManagerTyped, WireTyped
<1>11. QED
  BY <1>1, <1>2, <1>3, <1>4, <1>5, <1>6, <1>7, <1>8, <1>9, <1>10 DEF Next, ClientStep

(* No exchange with any server takes a variable of the client, the manager  *)
(* or the connection out of its range.                                      *)
THEOREM TypeCorrect == Spec => []TypeOK
<1>1. Init => TypeOK
  BY InitTyped
<1>2. TypeOK /\ [Next]_vars => TypeOK'
  BY NextTyped
<1>3. QED
  BY <1>1, <1>2, PTL DEF Spec
(***************************************************************************)
(* The invariant behind the refinement.                                    *)
(***************************************************************************)

(* Where the caller is depends on the client's control state only. *)
LEMMA PhaseFacts ==
  ASSUME TypeOK
  PROVE  /\ Phase \in {"idle", "failed", "denied", "closed", "recording", "connecting"}
         /\ Phase = "idle" <=> pc = "idle"
         /\ Phase = "failed" <=> pc \in {"failed", "crashed"}
         /\ Phase = "denied" <=> pc = "denied"
         /\ Phase = "closed" <=> pc \in {"closed", "dropped"}
         /\ Phase = "recording" <=>
              pc = "up" \/ (pc \in {"send", "read", "returned"} /\ step = TearStep)
         /\ Phase = "connecting" <=> pc \in {"send", "read", "returned"} /\ step # TearStep
BY DEF Phase, TypeOK, ClientTyped

(* Inside a call the caller's view does not move. *)
LEMMA PhaseKept ==
  ASSUME TypeOK, UNCHANGED step,
         pc \in {"send", "read", "returned"}, pc' \in {"send", "read", "returned"}
  PROVE  Phase' = Phase
BY DEF Phase

(* The initial state satisfies the invariant. *)
LEMMA SessionInit == Init => SessionInv
<1> SUFFICES ASSUME Init PROVE SessionInv
  OBVIOUS
<1>1. CallsBegin
  BY DEF Init, CallsBegin
<1>2. OneOutstanding
  BY DEF Init, OneOutstanding, NoAnswerYet
<1>3. Phase = "idle"
  BY DEF Init, Phase
<1>4. OkIsAccepted /\ RetryIsProper
  BY <1>3 DEF Init, OkIsAccepted, RetryIsProper
<1>5. QED
  BY <1>1, <1>2, <1>4 DEF SessionInv

(* What the server's answer adds to the wire. *)
LEMMA ServeFacts ==
  ASSUME TypeOK, SessionInv, Serve
  PROVE  LET r == Head(toServer) IN
         /\ r \in Requests /\ toServer # <<>> /\ toServer' = <<>>
         /\ UNCHANGED clientVars /\ srv \in Servers
         /\ \E code \in {Due(r), "refused"} :
              /\ srv' = IF code = "ok" THEN ServerAfter(r) ELSE srv
              /\ \A i \in DOMAIN toClient' : toClient'[i].code # "garbled" =>
                   /\ i = Len(toClient) + 1
                   /\ toClient'[i].code = code
                   /\ ~Splits => toClient'[i].whole
<1> DEFINE r == Head(toServer)
<1>1. toServer # <<>> /\ UNCHANGED clientVars /\ srv \in Servers
  BY DEF Serve, TypeOK
<1>2. r \in Requests /\ toServer' = <<>>
  <2>1. Len(toServer) <= 1 /\ toServer \in Seq(Requests)
    BY DEF SessionInv, OneOutstanding, TypeOK, WireTyped
  <2>2. Len(toServer) = 1
    <3>1. Len(toServer) \in Nat \ {0}
      BY <1>1, <2>1, EmptySeq, Zenon
    <3>2. \A n \in Nat \ {0} : n <= 1 => n = 1
      OBVIOUS
    <3>3. Len(toServer) <= 1
      BY <2>1
    <3>4. QED
      BY <3>1, <3>2, <3>3, Zenon
  <2>3. Tail(toServer) \in Seq(Requests) /\ Len(Tail(toServer)) = 0 /\ Head(toServer) \in Requests
    BY <1>1, <2>1, <2>2, HeadTailProperties
  <2>4. Tail(toServer) = <<>>
    BY <2>3, EmptySeq
  <2>5. toServer' = Tail(toServer)
    BY DEF Serve
  <2>6. QED
    BY <2>3, <2>4, <2>5
<1>3. PICK code \in {Due(r), "refused"} :
        /\ srv' = IF code = "ok" THEN ServerAfter(r) ELSE srv
        /\ \E p \in Pieces(r, code) : toClient' = toClient \o p
  BY DEF Serve
<1>4. code \in Codes /\ code # "garbled"
  BY DEF Due, Codes
<1>5. PICK p \in Pieces(r, code) : toClient' = toClient \o p
  BY <1>3
<1>6. /\ p \in Seq(Answers) /\ Len(p) \in {1, 2} /\ p[1].code = code
      /\ ~Splits => p[1].whole
      /\ Len(p) = 2 => p[2].code = "garbled"
  BY <1>2, <1>4, PiecesFacts
<1>7. toClient \in Seq(Answers) /\ \A i \in DOMAIN toClient : toClient[i].code = "garbled"
  BY <1>1 DEF SessionInv, OneOutstanding, NoAnswerYet, TypeOK, WireTyped
<1>8. /\ DOMAIN toClient' = 1..(Len(toClient) + Len(p))
      /\ \A i \in 1..(Len(toClient) + Len(p)) :
           toClient'[i] = IF i <= Len(toClient) THEN toClient[i] ELSE p[i - Len(toClient)]
  BY <1>5, <1>6, <1>7, ConcatProperties
<1>9. ASSUME NEW i \in DOMAIN toClient', toClient'[i].code # "garbled"
      PROVE  i = Len(toClient) + 1 /\ toClient'[i] = p[1]
  <2>1. CASE i <= Len(toClient)
    BY <1>7, <1>8, <1>9, <2>1
  <2>2. CASE i = Len(toClient) + 1
    BY <1>7, <1>8, <2>2
  <2>3. CASE i = Len(toClient) + 2
    BY <1>6, <1>7, <1>8, <1>9, <2>3
  <2>4. QED
    BY <1>6, <1>7, <1>8, <2>1, <2>2, <2>3
<1>10. \A i \in DOMAIN toClient' : toClient'[i].code # "garbled" =>
                   /\ i = Len(toClient) + 1
                   /\ toClient'[i].code = code
                   /\ ~Splits => toClient'[i].whole
  BY <1>6, <1>9
<1>11. QED
  BY <1>1, <1>2, <1>3, <1>10

(* Serve: the server answers the request in flight. *)
LEMMA ServeKeeps == ASSUME TypeOK, SessionInv, Serve PROVE SessionInv'
<1> DEFINE r == Head(toServer)
<1>1. /\ r \in Requests /\ toServer # <<>> /\ toServer' = <<>>
      /\ UNCHANGED clientVars /\ srv \in Servers
  BY ServeFacts
<1>2. PICK code \in {Due(r), "refused"} :
              /\ srv' = IF code = "ok" THEN ServerAfter(r) ELSE srv
              /\ \A i \in DOMAIN toClient' : toClient'[i].code # "garbled" =>
                   /\ i = Len(toClient) + 1
                   /\ toClient'[i].code = code
                   /\ ~Splits => toClient'[i].whole
  BY ServeFacts
<1>3. pc \notin {"idle", "send", "up"} /\ ~(pc = "returned" /\ ret.code = "ok")
  BY <1>1 DEF SessionInv, OneOutstanding
<1>4. Phase' = Phase /\ Deniable' = Deniable
  BY <1>1, <1>2, ServerTyped DEF Phase, Deniable, clientVars
<1>5. srv'.accepted >= srv.accepted /\ (code = "ok" => srv'.accepted = r.step)
      /\ srv.accepted \in Nat /\ srv'.accepted \in Nat
  <2>1. srv.accepted \in Nat /\ r.step \in Nat
    BY <1>1, StepFacts DEF Servers, Requests
  <2>2. CASE code = "ok"
    <3>1. r.step = srv.accepted + 1
      BY <1>2, <2>2 DEF Due
    <3>2. QED
      BY <1>1, <1>2, <2>1, <2>2, <3>1, ServerTyped
  <2>3. CASE code # "ok"
    BY <1>2, <2>1, <2>3
  <2>4. QED
    BY <2>2, <2>3
<1>6. CallsBegin'
  BY <1>1 DEF SessionInv, CallsBegin, clientVars
<1>7. OneOutstanding'
  BY <1>1, <1>2, <1>3 DEF OneOutstanding, clientVars
<1>8. OkIsAccepted'
  <2>1. pc = "read" /\ Answered("ok")' => srv'.accepted >= step
    <3>1. pc = "read" => r.step = step
      BY <1>1 DEF SessionInv, OkIsAccepted
    <3>2. Answered("ok")' => code = "ok"
      BY <1>2 DEF Answered
    <3>3. QED
      BY <1>5, <3>1, <3>2
  <2>2. Phase' \in {"recording", "closed"} => srv'.accepted >= NumSteps
    BY <1>4, <1>5, StepFacts DEF SessionInv, OkIsAccepted
  <2>3. QED
    BY <1>1, <1>3, <2>1, <2>2 DEF OkIsAccepted, clientVars
<1>9. RetryIsProper'
  <2> SUFFICES ASSUME Phase = "connecting", ~Deniable
               PROVE  /\ pc \in {"send", "read"} /\ depth = 1 => auth = Proper(step)
                      /\ pc = "read" => \A i \in DOMAIN toClient' :
                           toClient'[i].code = "unauthorized" =>
                             depth = 0 /\ toClient'[i].whole /\ Method(step) # "OPTIONS"
                      /\ pc = "returned" => ret.code # "unauthorized"
    BY <1>1, <1>4 DEF RetryIsProper, clientVars, Proper, Method
  <2>1. /\ pc \in {"send", "read"} /\ depth = 1 => auth = Proper(step)
        /\ pc = "read" /\ Method(step) # "OPTIONS" => r.auth = auth
        /\ pc = "returned" => ret.code # "unauthorized"
    BY <1>1 DEF SessionInv, RetryIsProper
  <2>2. ASSUME pc = "read", NEW i \in DOMAIN toClient', toClient'[i].code = "unauthorized"
        PROVE  depth = 0 /\ toClient'[i].whole /\ Method(step) # "OPTIONS"
    <3>1. Due(r) = "unauthorized" /\ (~Splits => toClient'[i].whole)
      BY <1>2, <2>2
    <3>2. Method(r.step) \in srv.protected /\ ~(srv.good /\ r.auth = Proper(r.step))
      BY <3>1 DEF Due
    <3>3. r.step = step
      BY <1>1, <2>2 DEF SessionInv, OkIsAccepted
    <3>4. srv.good /\ ~Splits /\ "OPTIONS" \notin srv.protected
      BY DEF Deniable
    <3>5. depth \in {0, 1}
      BY DEF TypeOK, ClientTyped
    <3>6. QED
      BY <2>1, <2>2, <3>1, <3>2, <3>3, <3>4, <3>5
  <2>3. QED
    BY <2>1, <2>2
<1>10. QED
  BY <1>6, <1>7, <1>8, <1>9 DEF SessionInv
(* A call that fails without an answer keeps the invariant. *)
LEMMA ReturnFailureKeeps ==
  ASSUME TypeOK, SessionInv, pc \in {"send", "read"}, NEW code \in {"write", "timeout", "eof"},
         Return([NoAnswer EXCEPT !.code = code]), UNCHANGED <<step, toServer, toClient, srv>>
  PROVE  SessionInv'
<1>1. [NoAnswer EXCEPT !.code = code].code = code /\ code \in Codes
  BY FailureTyped DEF Codes
<1>2. pc' = "returned" /\ depth' = 0 /\ ret'.code = code
  BY <1>1 DEF Return
<1>3. Phase' = Phase /\ Deniable' = Deniable
  BY <1>2, PhaseKept DEF Deniable
<1>4. CallsBegin'
  BY <1>2 DEF CallsBegin
<1>5. OneOutstanding'
  BY <1>2 DEF SessionInv, OneOutstanding, NoAnswerYet
<1>6. OkIsAccepted'
  BY <1>2, <1>3 DEF SessionInv, OkIsAccepted, NumSteps
<1>7. RetryIsProper'
  BY <1>2, <1>3 DEF RetryIsProper
<1>8. QED
  BY <1>4, <1>5, <1>6, <1>7 DEF SessionInv

(* Report: a receiver report is no answer to anything. *)
LEMMA ReportKeeps == ASSUME TypeOK, SessionInv, Report PROVE SessionInv'
<1>1. /\ UNCHANGED clientVars /\ UNCHANGED toServer
      /\ toClient' = Append(toClient, Garbled(FALSE))
      /\ srv' = [srv EXCEPT !.reports = @ + 1]
  BY DEF Report
<1>2. srv'.accepted = srv.accepted /\ Phase' = Phase /\ Deniable' = Deniable
  BY <1>1 DEF TypeOK, Servers, Phase, Deniable, clientVars
<1>3. Garbled(FALSE) \in Answers /\ Garbled(FALSE).code = "garbled"
  BY DEF Garbled, Answers, Codes
<1>4. ASSUME NEW i \in DOMAIN toClient', toClient'[i].code # "garbled"
      PROVE  i \in DOMAIN toClient /\ toClient'[i] = toClient[i]
  <2>1. toClient \in Seq(Answers)
    BY DEF TypeOK, WireTyped
  <2>2. /\ toClient' \in Seq(Answers)
        /\ Len(toClient') = Len(toClient) + 1
        /\ \A j \in 1..Len(toClient) : toClient'[j] = toClient[j]
        /\ toClient'[Len(toClient) + 1] = Garbled(FALSE)
    BY <1>1, <1>3, <2>1, AppendProperties
  <2>3. CASE i = Len(toClient) + 1
    BY <1>3, <1>4, <2>2, <2>3
  <2>4. CASE i # Len(toClient) + 1
    BY <1>4, <2>1, <2>2, <2>4
  <2>5. QED
    BY <2>3, <2>4
<1>5. CallsBegin'
  BY <1>1 DEF SessionInv, CallsBegin, clientVars
<1>6. OneOutstanding'
  <2>1. NoAnswerYet => NoAnswerYet'
    BY <1>4 DEF NoAnswerYet
  <2>2. QED
    BY <1>1, <1>4, <2>1 DEF SessionInv, OneOutstanding, clientVars
<1>7. OkIsAccepted'
  <2>1. Answered("ok")' => Answered("ok")
    BY <1>4 DEF Answered
  <2>2. QED
    BY <1>1, <1>2, <2>1 DEF SessionInv, OkIsAccepted, clientVars
<1>8. RetryIsProper'
  BY <1>1, <1>2, <1>4 DEF SessionInv, RetryIsProper, clientVars, Proper, Method
<1>9. QED
  BY <1>5, <1>6, <1>7, <1>8 DEF SessionInv

(* A request that is written is the only one in flight. *)
LEMMA SendKeeps == ASSUME TypeOK, SessionInv, Send PROVE SessionInv'
<1>1. pc = "send" /\ UNCHANGED <<step, session, ports, route, toClient, srv>>
  BY DEF Send
<1>2. toServer = <<>> /\ NoAnswerYet
  BY <1>1 DEF SessionInv, OneOutstanding
<1>3. CASE pc' = "read" /\ toServer' = Append(toServer, Request)
           /\ UNCHANGED <<depth, auth, closes, ret>>
  <2>1. toServer' = <<Request>> /\ toServer' # <<>> /\ Len(toServer') = 1
        /\ Head(toServer') = Request
    BY <1>2, <1>3
  <2>2. Phase' = Phase /\ Deniable' = Deniable
    BY <1>1, <1>3, PhaseKept DEF Deniable
  <2>3. CallsBegin'
    BY <1>3 DEF CallsBegin
  <2>4. NoAnswerYet'
    BY <1>1, <1>2 DEF NoAnswerYet
  <2>5. OneOutstanding'
    BY <1>1, <1>3, <2>1, <2>4 DEF SessionInv, OneOutstanding
  <2>6. OkIsAccepted'
    <3>1. ~Answered("ok")'
      BY <2>4 DEF NoAnswerYet, Answered
    <3>2. Head(toServer').step = step
      BY <2>1 DEF Request
    <3>3. QED
      BY <1>1, <1>3, <2>2, <3>1, <3>2 DEF SessionInv, OkIsAccepted, NumSteps
  <2>7. RetryIsProper'
    <3>1. Method(step) # "OPTIONS" => Head(toServer').auth = auth
      BY <2>1 DEF Request
    <3>2. \A i \in DOMAIN toClient' : toClient'[i].code # "unauthorized"
      BY <2>4 DEF NoAnswerYet
    <3>3. QED
      BY <1>1, <1>3, <2>2, <3>1, <3>2
      DEF SessionInv, RetryIsProper, Proper, Method, NumSteps, TearStep
  <2>8. QED
    BY <2>3, <2>5, <2>6, <2>7 DEF SessionInv
<1>4. CASE Return([NoAnswer EXCEPT !.code = "write"]) /\ UNCHANGED toServer
  BY <1>1, <1>4, ReturnFailureKeeps DEF Codes
<1>5. QED
  BY <1>3, <1>4 DEF Send

(* ReadFails: a call that got no answer returns no "ok". *)
LEMMA ReadFailsKeeps == ASSUME TypeOK, SessionInv, ReadFails PROVE SessionInv'
<1>1. PICK code \in {"timeout", "eof"} : Return([NoAnswer EXCEPT !.code = code])
  BY DEF ReadFails
<1>2. pc = "read" /\ UNCHANGED <<step, toServer, toClient, srv>>
  BY DEF ReadFails
<1>3. QED
  BY <1>1, <1>2, ReturnFailureKeeps DEF Codes

(* What one recv delivers: an answer leaves nothing behind it. *)
LEMMA ReadFacts ==
  ASSUME TypeOK, SessionInv, Read
  PROVE  \E a \in Answers :
           /\ IF Retries(a)
              THEN auth' = Credentials /\ depth' = depth + 1 /\ pc' = "send" /\ UNCHANGED ret
              ELSE Return(a)
           /\ a.code # "garbled" => toServer = <<>> /\ NoAnswerYet'
           /\ \E i \in DOMAIN toClient : a.code = toClient[i].code /\ (toClient[i].whole => a.whole)
<1>1. PICK n \in 1..Len(toClient) :
        /\ toClient' = SubSeq(toClient, n + 1, Len(toClient))
        /\ IF Retries(Received(n))
           THEN auth' = Credentials /\ depth' = depth + 1 /\ pc' = "send" /\ UNCHANGED ret
           ELSE Return(Received(n))
  BY DEF Read
<1>2. toClient \in Seq(Answers)
  BY DEF TypeOK, WireTyped
<1>3. /\ Received(n) \in Answers
      /\ Received(n).code = toClient[1].code
      /\ toClient[1].whole => Received(n).whole
      /\ 1 \in DOMAIN toClient
  BY <1>2, ReceivedFacts
<1>4. /\ DOMAIN toClient' = 1..(Len(toClient) - n)
      /\ \A i \in DOMAIN toClient' : i + n \in DOMAIN toClient /\ toClient'[i] = toClient[i + n]
  BY <1>1, <1>2, RestOfWire
<1>5. ASSUME Received(n).code # "garbled" PROVE toServer = <<>> /\ NoAnswerYet'
  <2>1. toServer = <<>>
    BY <1>3, <1>5 DEF SessionInv, OneOutstanding, NoAnswerYet
  <2>2. ASSUME NEW i \in DOMAIN toClient' PROVE toClient'[i].code = "garbled"
    <3>1. i + n \in DOMAIN toClient /\ toClient'[i] = toClient[i + n] /\ i + n # 1
      BY <1>4, <2>2
    <3>2. QED
      BY <1>3, <1>5, <3>1 DEF SessionInv, OneOutstanding
  <2>3. QED
    BY <2>1, <2>2 DEF NoAnswerYet
<1>6. QED
  BY <1>1, <1>3, <1>5

(* Reading takes pieces off the front and puts none in. *)
LEMMA ReadShortens ==
  ASSUME TypeOK, Read
  PROVE  \E n \in Nat : \A i \in DOMAIN toClient' :
           i \in Nat /\ i + n \in DOMAIN toClient /\ toClient'[i] = toClient[i + n]
<1>1. PICK n \in 1..Len(toClient) : toClient' = SubSeq(toClient, n + 1, Len(toClient))
  BY DEF Read
<1>2. toClient \in Seq(Answers)
  BY DEF TypeOK, WireTyped
<1>3. /\ DOMAIN toClient' = 1..(Len(toClient) - n)
      /\ \A i \in DOMAIN toClient' : i + n \in DOMAIN toClient /\ toClient'[i] = toClient[i + n]
  BY <1>1, <1>2, RestOfWire
<1>4. n \in Nat /\ \A i \in DOMAIN toClient' : i \in Nat
  BY <1>1, <1>3
<1>5. QED
  BY <1>3, <1>4

(* Read: an answer is taken, and ends the call or starts its only retry. *)
LEMMA ReadKeeps == ASSUME TypeOK, SessionInv, Read PROVE SessionInv'
<1>1. pc = "read" /\ UNCHANGED <<step, channels, ports, route, toServer, srv>>
  BY DEF Read
<1>2. PICK a \in Answers :
           /\ IF Retries(a)
              THEN auth' = Credentials /\ depth' = depth + 1 /\ pc' = "send" /\ UNCHANGED ret
              ELSE Return(a)
           /\ a.code # "garbled" => toServer = <<>> /\ NoAnswerYet'
           /\ \E i \in DOMAIN toClient : a.code = toClient[i].code /\ (toClient[i].whole => a.whole)
  BY ReadFacts
<1>3. PICK n \in Nat : \A i \in DOMAIN toClient' :
           i \in Nat /\ i + n \in DOMAIN toClient /\ toClient'[i] = toClient[i + n]
  BY ReadShortens
<1>4. pc' \in {"send", "returned"} /\ (pc' = "returned" => ret' = a /\ depth' = 0)
  BY <1>2 DEF Return
<1>5. Phase' = Phase /\ Deniable' = Deniable
  BY <1>1, <1>4, PhaseKept DEF Deniable
<1>6. CallsBegin'
  BY <1>4 DEF CallsBegin
<1>7. OneOutstanding'
  <2>1. /\ Len(toServer') <= 1
        /\ toServer' # <<>> => NoAnswerYet'
    BY <1>1, <1>3 DEF SessionInv, OneOutstanding, NoAnswerYet
  <2>2. ASSUME NEW i \in DOMAIN toClient', NEW j \in DOMAIN toClient',
               toClient'[i].code # "garbled", toClient'[j].code # "garbled"
        PROVE  i = j
    <3>1. /\ i \in Nat /\ i + n \in DOMAIN toClient /\ toClient'[i] = toClient[i + n]
          /\ j \in Nat /\ j + n \in DOMAIN toClient /\ toClient'[j] = toClient[j + n]
      BY <1>3, <2>2
    <3>2. i + n = j + n
      BY <2>2, <3>1 DEF SessionInv, OneOutstanding
    <3>3. QED
      BY <3>1, <3>2
  <2>3. (pc' = "send" \/ (pc' = "returned" /\ ret'.code = "ok"))
          => toServer' = <<>> /\ NoAnswerYet'
    <3>1. (pc' = "send" \/ (pc' = "returned" /\ ret'.code = "ok")) => a.code # "garbled"
      BY <1>2, <1>4 DEF Retries, Return
    <3>2. QED
      BY <1>1, <1>2, <3>1
  <2>4. QED
    BY <1>4, <2>1, <2>2, <2>3 DEF OneOutstanding
<1>8. OkIsAccepted'
  <2>1. pc' = "returned" /\ ret'.code = "ok" => srv.accepted >= step
    BY <1>1, <1>2, <1>4 DEF SessionInv, OkIsAccepted, Answered
  <2>2. QED
    BY <1>1, <1>4, <1>5, <2>1 DEF SessionInv, OkIsAccepted, NumSteps
<1>9. RetryIsProper'
  <2> SUFFICES ASSUME Phase = "connecting", ~Deniable
               PROVE  /\ pc' = "send" /\ depth' = 1 => auth' = Proper(step)
                      /\ pc' = "returned" => ret'.code # "unauthorized"
    BY <1>1, <1>4, <1>5 DEF RetryIsProper, Proper, Method, NumSteps, TearStep
  <2>1. pc' = "send" => auth' = Proper(step)
    BY <1>2, <1>4 DEF Credentials, Proper, Return
  <2>2. pc' = "returned" => ret'.code # "unauthorized"
    <3>1. a.code = "unauthorized" => Retries(a)
      BY <1>1, <1>2 DEF SessionInv, RetryIsProper, Retries
    <3>2. QED
      BY <1>2, <1>4, <3>1
  <2>3. QED
    BY <2>1, <2>2
<1>10. QED
  BY <1>6, <1>7, <1>8, <1>9 DEF SessionInv

(* The steps of the manager between two calls of the client.               *)
LEMMA ManagerFacts ==
  ASSUME TypeOK, ConnectTo \/ SetupDone \/ StepDone \/ GiveUp \/ TornDown \/ Disconnect
  PROVE  /\ UNCHANGED <<depth, auth, session, channels, closes, ret, toServer, toClient, srv>>
         /\ step \in Steps /\ step' \in Steps
         /\ \/ pc = "idle" /\ pc' \in {"send", "failed"} /\ step' = step
            \/ pc = "returned" /\ ret.code = "ok" /\ step < NumSteps /\ pc' = "send" /\ step' = step + 1
            \/ pc = "returned" /\ ret.code = "ok" /\ step = NumSteps /\ pc' = "up" /\ step' = step
            \/ pc = "returned" /\ step < NumSteps /\ pc' = "crashed" /\ step' = step
            \/ pc = "returned" /\ step # TearStep /\ pc' \in {"denied", "failed"} /\ step' = step
            \/ pc = "returned" /\ step = TearStep /\ pc' = "closed" /\ step' = step
            \/ pc = "up" /\ pc' = "send" /\ step' = TearStep
            \/ pc = "up" /\ pc' = "dropped" /\ step' = step
<1>1. /\ UNCHANGED <<depth, auth, session, channels, closes, ret, toServer, toClient, srv>>
      /\ step \in Steps /\ step' \in Steps
  <2>1. TypeOK'
    BY NextTyped DEF Next, ClientStep
  <2>2. QED
    BY <2>1 DEF TypeOK, ClientTyped, ConnectTo, SetupDone, StepDone, GiveUp, TornDown, Disconnect
<1>2. \/ pc = "idle" /\ pc' \in {"send", "failed"} /\ step' = step
      \/ pc = "returned" /\ ret.code = "ok" /\ step < NumSteps /\ pc' = "send" /\ step' = step + 1
      \/ pc = "returned" /\ ret.code = "ok" /\ step = NumSteps /\ pc' = "up" /\ step' = step
      \/ pc = "returned" /\ step < NumSteps /\ pc' = "crashed" /\ step' = step
      \/ pc = "returned" /\ step # TearStep /\ pc' \in {"denied", "failed"} /\ step' = step
      \/ pc = "returned" /\ step = TearStep /\ pc' = "closed" /\ step' = step
      \/ pc = "up" /\ pc' = "send" /\ step' = TearStep
      \/ pc = "up" /\ pc' = "dropped" /\ step' = step
  <2>1. CASE ConnectTo
    BY <2>1 DEF ConnectTo
  <2>2. CASE SetupDone
    BY <1>1, <2>2, StepFacts DEF SetupDone, Continue
  <2>3. CASE StepDone
    BY <1>1, <2>3, StepFacts DEF StepDone, Continue
  <2>4. CASE GiveUp
    BY <1>1, <2>4, StepFacts DEF GiveUp
  <2>5. CASE TornDown
    BY <1>1, <2>5, StepFacts DEF TornDown
  <2>6. CASE Disconnect
    BY <2>6 DEF Disconnect
  <2>7. QED
    BY <2>1, <2>2, <2>3, <2>4, <2>5, <2>6
<1>3. QED
  BY <1>1, <1>2

(* Between two calls of the client the manager only moves on. *)
LEMMA ManagerKeeps ==
  ASSUME TypeOK, SessionInv, ConnectTo \/ SetupDone \/ StepDone \/ GiveUp \/ TornDown \/ Disconnect
  PROVE  SessionInv'
<1>1. UNCHANGED <<depth, auth, ret, toServer, toClient, srv>> /\ step \in Steps /\ step' \in Steps
  BY ManagerFacts
<1>2. \/ pc = "idle" /\ pc' \in {"send", "failed"} /\ step' = step
      \/ pc = "returned" /\ ret.code = "ok" /\ step < NumSteps /\ pc' = "send" /\ step' = step + 1
      \/ pc = "returned" /\ ret.code = "ok" /\ step = NumSteps /\ pc' = "up" /\ step' = step
      \/ pc = "returned" /\ step < NumSteps /\ pc' = "crashed" /\ step' = step
      \/ pc = "returned" /\ pc' \in {"denied", "failed"} /\ step' = step
      \/ pc = "returned" /\ step = TearStep /\ pc' = "closed" /\ step' = step
      \/ pc = "up" /\ pc' = "send" /\ step' = TearStep
      \/ pc = "up" /\ pc' = "dropped" /\ step' = step
  BY ManagerFacts
<1>3. Deniable' = Deniable /\ NoAnswerYet' = NoAnswerYet
  BY <1>1 DEF Deniable, NoAnswerYet
<1>4. pc' # "idle" /\ pc' # "returned" /\ pc' # "read"
  BY <1>2
<1>5. CallsBegin'
  BY <1>4 DEF CallsBegin
<1>6. OneOutstanding'
  BY <1>1, <1>2, <1>3 DEF SessionInv, OneOutstanding
<1>7. OkIsAccepted'
  <2>1. Phase' \in {"recording", "closed"} => srv.accepted >= NumSteps
    <3>1. Phase' \in {"recording", "closed"} =>
            \/ pc = "returned" /\ ret.code = "ok" /\ step = NumSteps
            \/ Phase \in {"recording", "closed"}
      <4>1. TypeOK'
        BY NextTyped DEF Next, ClientStep
      <4>2. Phase' \in {"recording", "closed"} =>
              \/ pc' \in {"closed", "dropped", "up"}
              \/ pc' = "send" /\ step' = TearStep
        BY <1>4, <4>1 DEF Phase, TypeOK, ClientTyped
      <4>3. step = TearStep => ~(pc = "idle")
        BY StepFacts DEF SessionInv, CallsBegin
      <4>4. QED
        BY <1>1, <1>2, <4>2, <4>3, PhaseFacts, StepFacts
    <3>2. QED
      BY <3>1 DEF SessionInv, OkIsAccepted
  <2>2. QED
    BY <1>1, <1>4, <2>1 DEF OkIsAccepted, NumSteps
<1>8. RetryIsProper'
  <2>1. pc' = "send" => depth' = 0 \/ Phase' = "recording"
    <3>1. CASE pc \in {"idle", "returned"}
      BY <1>1, <3>1 DEF SessionInv, CallsBegin
    <3>2. CASE pc = "up"
      BY <1>2, <3>2 DEF Phase
    <3>3. QED
      BY <1>2, <3>1, <3>2
  <2>2. QED
    BY <1>4, <2>1 DEF RetryIsProper
<1>9. QED
  BY <1>5, <1>6, <1>7, <1>8 DEF SessionInv

(* NewAttempt: a new client on a new connection. *)
LEMMA NewAttemptKeeps == ASSUME NewAttempt PROVE SessionInv'
<1>1. CallsBegin' /\ OneOutstanding'
  BY DEF NewAttempt, CallsBegin, OneOutstanding, NoAnswerYet
<1>2. Phase' = "idle"
  BY DEF NewAttempt, Phase
<1>3. OkIsAccepted' /\ RetryIsProper'
  BY <1>2 DEF NewAttempt, OkIsAccepted, RetryIsProper
<1>4. QED
  BY <1>1, <1>3 DEF SessionInv

(* The invariant is inductive, given the types. *)
LEMMA SessionStep == ASSUME TypeOK, SessionInv, [Next]_vars PROVE SessionInv'
<1>1. CASE UNCHANGED vars
  BY <1>1 DEF vars, clientVars, SessionInv, CallsBegin, OneOutstanding, NoAnswerYet, OkIsAccepted,
    Answered, RetryIsProper, Phase, Deniable, Proper, Method, NumSteps, TearStep
<1>2. CASE Next
  BY <1>2, ServeKeeps, ReportKeeps, SendKeeps, ReadFailsKeeps, ReadKeeps, ManagerKeeps,
    NewAttemptKeeps DEF Next, ClientStep
<1>3. QED
  BY <1>1, <1>2

(***************************************************************************)
(* Refinement.                                                             *)
(***************************************************************************)

(* Initial states map to initial states of the abstract session. *)
LEMMA SessionInitRefines == Init => Session!Init
<1> SUFFICES ASSUME Init PROVE Session!Init
  OBVIOUS
<1>1. Phase = "idle"
  BY DEF Init, Phase
<1>2. srv.accepted = 0
  BY DEF Init, FreshServer
<1>3. StepsAccepted = 0
  BY <1>2, StepFacts DEF StepsAccepted
<1>4. Deniable \in BOOLEAN
  BY DEF Deniable
<1>5. QED
  BY <1>1, <1>3, <1>4 DEF Session!Init

(* Every step of the client, the manager and the server is a step of the    *)
(* abstract session, or leaves it as it is.                                  *)
LEMMA SessionStepRefines ==
  ASSUME TypeOK, SessionInv, [Next]_vars
  PROVE  [Session!Next]_(Session!vars)
<1> USE DEF Session!vars
<1>0. TypeOK'
  BY NextTyped
<1>1. srv.accepted \in Nat /\ srv.accepted <= TearStep /\ step \in Steps
  BY StepFacts DEF TypeOK, ClientTyped, Servers
<1>2. ASSUME Phase' = Phase, UNCHANGED srv PROVE UNCHANGED Session!vars
  BY <1>2 DEF StepsAccepted, Deniable, TearStep, NumSteps
<1>3. ASSUME Serve PROVE [Session!Next]_(Session!vars)
  <2> DEFINE r == Head(toServer)
  <2>1. r \in Requests /\ toServer # <<>> /\ UNCHANGED clientVars /\ srv \in Servers
    BY <1>3, ServeFacts
  <2>2. PICK code \in {Due(r), "refused"} : srv' = IF code = "ok" THEN ServerAfter(r) ELSE srv
    BY <1>3, ServeFacts
  <2>3. Phase' = Phase
    BY <2>1 DEF Phase, clientVars
  <2>4. CASE code # "ok"
    BY <1>2, <2>2, <2>3, <2>4
  <2>5. CASE code = "ok"
    <3>1. r.step = srv.accepted + 1
      BY <2>2, <2>5 DEF Due
    <3>2. srv'.accepted = srv.accepted + 1 /\ Deniable' = Deniable
      BY <2>1, <2>2, <2>5, <3>1, ServerTyped DEF Deniable
    <3>3. CASE srv.accepted >= NumSteps
      <4>1. srv.accepted = NumSteps /\ srv'.accepted = TearStep
        BY <1>0, <1>1, <3>2, <3>3, StepFacts DEF TypeOK, Servers
      <4>2. StepsAccepted' = StepsAccepted
        BY <4>1, StepFacts DEF StepsAccepted
      <4>3. QED
        BY <2>3, <3>2, <4>2
    <3>4. CASE srv.accepted < NumSteps
      <4>1. StepsAccepted = srv.accepted /\ StepsAccepted' = srv.accepted + 1
        BY <1>1, <3>2, <3>4, StepFacts DEF StepsAccepted
      <4>2. Phase \in {"connecting", "failed", "denied"}
        <5>1. pc # "idle"
          BY <2>1 DEF SessionInv, OneOutstanding
        <5>2. Phase \notin {"recording", "closed"}
          BY <1>1, <3>4, StepFacts DEF SessionInv, OkIsAccepted
        <5>3. QED
          BY <5>1, <5>2, PhaseFacts
      <4>3. Session!Accept
        BY <2>3, <3>2, <3>4, <4>1, <4>2 DEF Session!Accept
      <4>4. QED
        BY <4>3 DEF Session!Next
    <3>5. QED
      BY <1>1, <3>3, <3>4, StepFacts
  <2>6. QED
    BY <2>4, <2>5
<1>4. ASSUME Report PROVE [Session!Next]_(Session!vars)
  <2>1. srv' = [srv EXCEPT !.reports = @ + 1] /\ UNCHANGED clientVars
    BY <1>4 DEF Report
  <2>2. Phase' = Phase
    BY <2>1 DEF Phase, clientVars
  <2>3. StepsAccepted' = StepsAccepted /\ Deniable' = Deniable
    BY <2>1 DEF StepsAccepted, Deniable, TypeOK, Servers
  <2>4. QED
    BY <2>2, <2>3
<1>5. ASSUME Send \/ Read \/ ReadFails PROVE [Session!Next]_(Session!vars)
  <2>1. pc \in {"send", "read"} /\ pc' \in {"send", "read", "returned"} /\ UNCHANGED <<step, srv>>
    BY <1>5 DEF Send, Read, ReadFails, Return
  <2>2. Phase' = Phase
    BY <2>1, PhaseKept
  <2>3. QED
    BY <1>2, <2>1, <2>2
<1>6. ASSUME ConnectTo PROVE [Session!Next]_(Session!vars)
  <2>1. pc = "idle" /\ pc' \in {"send", "failed"} /\ step' = 1 /\ UNCHANGED srv
    BY <1>6 DEF ConnectTo, SessionInv, CallsBegin
  <2>2. Phase = "idle" /\ Phase' \in {"connecting", "failed"}
    BY <2>1, StepFacts DEF Phase
  <2>3. UNCHANGED <<StepsAccepted, Deniable>>
    BY <2>1 DEF StepsAccepted, Deniable
  <2>4. Session!Dial \/ Session!Fail
    BY <2>2, <2>3 DEF Session!Dial, Session!Fail
  <2>5. QED
    BY <2>4 DEF Session!Next
<1>7. ASSUME SetupDone \/ StepDone PROVE [Session!Next]_(Session!vars)
  <2>1. pc = "returned" /\ ret.code = "ok" /\ UNCHANGED srv /\ step # TearStep
    BY <1>1, <1>7, StepFacts DEF SetupDone, StepDone
  <2>2. \/ pc' = "send" /\ step' = step + 1 /\ step < NumSteps
        \/ pc' = "up" /\ step = NumSteps
        \/ pc' = "crashed"
    BY <1>1, <1>7, StepFacts DEF SetupDone, StepDone, Continue
  <2>3. Phase = "connecting"
    BY <2>1, PhaseFacts
  <2>4. UNCHANGED <<StepsAccepted, Deniable>>
    BY <2>1 DEF StepsAccepted, Deniable
  <2>5. CASE pc' = "send" /\ step' = step + 1 /\ step < NumSteps
    <3>1. Phase' = "connecting"
      BY <1>1, <2>5, StepFacts DEF Phase
    <3>2. QED
      BY <2>3, <2>4, <3>1
  <2>6. CASE pc' = "up" /\ step = NumSteps
    <3>1. srv.accepted >= NumSteps
      BY <2>1, <2>6 DEF SessionInv, OkIsAccepted
    <3>2. StepsAccepted = NumSteps
      BY <1>1, <3>1, StepFacts DEF StepsAccepted
    <3>3. Phase' = "recording"
      BY <2>6 DEF Phase
    <3>4. Session!Record
      BY <2>3, <2>4, <3>2, <3>3 DEF Session!Record
    <3>5. QED
      BY <3>4 DEF Session!Next
  <2>7. CASE pc' = "crashed"
    <3>1. Phase' = "failed"
      BY <2>7 DEF Phase
    <3>2. Session!Fail
      BY <2>3, <2>4, <3>1 DEF Session!Fail
    <3>3. QED
      BY <3>2 DEF Session!Next
  <2>8. QED
    BY <2>2, <2>5, <2>6, <2>7
<1>8. ASSUME GiveUp PROVE [Session!Next]_(Session!vars)
  <2>1. /\ pc = "returned" /\ UNCHANGED srv /\ step # TearStep
        /\ pc' = IF ret.code = "unauthorized" THEN "denied" ELSE "failed"
    BY <1>1, <1>8, StepFacts DEF GiveUp
  <2>2. Phase = "connecting"
    BY <2>1, PhaseFacts
  <2>3. UNCHANGED <<StepsAccepted, Deniable>>
    BY <2>1 DEF StepsAccepted, Deniable
  <2>4. CASE ret.code = "unauthorized"
    <3>1. Phase' = "denied"
      BY <2>1, <2>4 DEF Phase
    <3>2. Deniable
      BY <2>1, <2>2, <2>4 DEF SessionInv, RetryIsProper
    <3>3. Session!Deny
      BY <2>2, <2>3, <3>1, <3>2 DEF Session!Deny
    <3>4. QED
      BY <3>3 DEF Session!Next
  <2>5. CASE ret.code # "unauthorized"
    <3>1. Phase' = "failed"
      BY <2>1, <2>5 DEF Phase
    <3>2. Session!Fail
      BY <2>2, <2>3, <3>1 DEF Session!Fail
    <3>3. QED
      BY <3>2 DEF Session!Next
  <2>6. QED
    BY <2>4, <2>5
<1>9. ASSUME TornDown \/ Disconnect PROVE [Session!Next]_(Session!vars)
  <2>1. /\ UNCHANGED srv
        /\ \/ pc = "returned" /\ step = TearStep /\ pc' = "closed"
           \/ pc = "up" /\ pc' = "send" /\ step' = TearStep
           \/ pc = "up" /\ pc' = "dropped"
    BY <1>1, <1>9, StepFacts DEF TornDown, Disconnect
  <2>2. Phase = "recording" /\ Phase' \in {"recording", "closed"}
    BY <2>1 DEF Phase
  <2>3. UNCHANGED <<StepsAccepted, Deniable>>
    BY <2>1 DEF StepsAccepted, Deniable
  <2>4. CASE Phase' = "recording"
    BY <2>2, <2>3, <2>4
  <2>5. CASE Phase' = "closed"
    <3>1. Session!Close
      BY <2>2, <2>3, <2>5 DEF Session!Close
    <3>2. QED
      BY <3>1 DEF Session!Next
  <2>6. QED
    BY <2>2, <2>4, <2>5
<1>10. ASSUME NewAttempt PROVE [Session!Next]_(Session!vars)
  <2>1. Phase \in {"failed", "denied", "closed"} /\ Phase' = "idle"
    BY <1>10 DEF NewAttempt, Phase
  <2>2. srv'.accepted = 0
    BY <1>10 DEF NewAttempt, FreshServer
  <2>3. StepsAccepted' = 0
    BY <2>2, StepFacts DEF StepsAccepted
  <2>4. Deniable' \in BOOLEAN
    BY DEF Deniable
  <2>5. Session!Again
    BY <2>1, <2>3, <2>4 DEF Session!Again
  <2>6. QED
    BY <2>5 DEF Session!Next
<1>11. ASSUME UNCHANGED vars PROVE [Session!Next]_(Session!vars)
  BY <1>11 DEF vars, clientVars, Phase, StepsAccepted, Deniable
<1>12. QED
  BY <1>3, <1>4, <1>5, <1>6, <1>7, <1>8, <1>9, <1>10, <1>11 DEF Next, ClientStep

(* The client implements the abstract session: whatever a server challenges, *)
(* refuses, splits or withholds, the manager's connect: reports success only *)
(* when every request has been accepted in order, and a bad password only    *)
(* when one may be to blame.                                                 *)
THEOREM Implements == Spec => SessionSpec
<1>1. Init => TypeOK /\ SessionInv /\ Session!Init
  BY InitTyped, SessionInit, SessionInitRefines
<1>2. TypeOK /\ SessionInv /\ [Next]_vars => TypeOK' /\ SessionInv'
  BY NextTyped, SessionStep
<1>3. TypeOK /\ SessionInv /\ [Next]_vars => [Session!Next]_(Session!vars)
  BY SessionStepRefines
<1>4. QED
  BY <1>1, <1>2, <1>3, PTL DEF Spec, SessionSpec, Session!Spec

(***************************************************************************)
(* Channels and ports, the session id, and the socket.                     *)
(***************************************************************************)

(* The server is never ahead of the request in progress, and behind it     *)
(* while that request is still to be sent, in flight or challenged.        *)
PaceInv ==
  /\ toServer # <<>> => Head(toServer).step = step /\ srv.accepted < step
  /\ srv.accepted <= step
  /\ pc \in {"idle", "send"} => srv.accepted < step
  /\ pc = "read" /\ Answered("unauthorized") => srv.accepted < step
  /\ pc = "up" => step = NumSteps /\ depth = 0

(* Basic credentials, once announce has been challenged for them, satisfy  *)
(* every later challenge before it is made.                                *)
KeptCredentials == Scheme = "Basic" /\ "ANNOUNCE" \in srv.protected

(* A request is sent again only when its method is protected and no        *)
(* credentials were kept, and the socket is closed once per sending of     *)
(* TEARDOWN.                                                               *)
CloseInv ==
  /\ depth = 1 => Method(step) \in srv.protected
  /\ pc = "read" /\ Answered("unauthorized") => Method(step) \in srv.protected
  /\ KeptCredentials /\ step = 2 =>
       /\ pc = "read" /\ toServer # <<>> => Head(toServer).auth = auth
       /\ pc = "read" /\ Answered("ok") => srv.good /\ auth = "Basic"
       /\ pc = "returned" /\ ret.code = "ok" => srv.good /\ auth = "Basic"
  /\ KeptCredentials /\ step > 2 =>
       /\ srv.good /\ auth = "Basic" /\ depth = 0
       /\ toServer # <<>> => Head(toServer).auth = "Basic"
       /\ pc = "read" => ~Answered("unauthorized")
  /\ ~(step = TearStep /\ pc \in {"returned", "closed"}) => closes = 0
  /\ SocketClosedOnce

(* Unless answers are split, the client knows the session from the answer  *)
(* to the first SETUP on.                                                  *)
CarryInv ==
  ~Splits =>
    /\ srv.session => srv.accepted >= 3
    /\ srv.accepted < NumSteps => \A i \in DOMAIN toClient : toClient[i].code # "garbled"
    /\ pc = "read" /\ step = 3 =>
         \A i \in DOMAIN toClient :
           toClient[i].code = "ok" => toClient[i].session /\ toClient[i].whole
    /\ pc = "returned" /\ ret.code = "ok" /\ step = 3 => session
    /\ step > 3 => session
    /\ toServer # <<>> /\ step > 3 => Head(toServer).session

(* What is left of a split answer is the next to be read. *)
Behind == 1 \in DOMAIN toClient /\ toClient[1].code = "garbled"

Expected(t) == IF UseTCP THEN StreamId(t) ELSE t
RoutesUpTo(s) == \A t \in Tracks : t + 2 < s => route[t] = Expected(t)

(* The server has been told what the manager will use. *)
ServerAgrees == \A t \in Tracks : t + 2 <= srv.accepted => srv.route[t] = Expected(t)

(* Over TCP, channels are counted in step with the requests. *)
ChannelsCounted ==
  UseTCP => /\ Method(step) # "SETUP" /\ step < 3 => channels = 0
            /\ Method(step) = "SETUP" =>
                 channels = StreamId(Track(step)) + (IF pc = "send" THEN 0 ELSE 2)
            /\ toServer # <<>> /\ Method(step) = "SETUP" =>
                 Head(toServer).channel = StreamId(Track(step))

(* Over UDP, an answer brings its port, or leaves behind what makes the    *)
(* next request fail.                                                      *)
PortsCarried ==
  pc = "read" /\ Method(step) = "SETUP" /\ ~UseTCP =>
    \A i \in DOMAIN toClient :
      toClient[i].code = "ok" =>
        /\ toClient[i].port = Track(step)
        /\ toClient[i].whole \/ (i + 1 \in DOMAIN toClient /\ toClient[i + 1].code = "garbled")

(* The manager's routes are as expected, or the handshake is bound to fail. *)
ManagerAgrees ==
  /\ pc \in {"send", "read"} /\ step <= NumSteps => RoutesUpTo(step) \/ (~UseTCP /\ Behind)
  /\ pc = "returned" /\ ret.code = "ok" /\ step <= NumSteps =>
       /\ RoutesUpTo(step)
       /\ Method(step) = "SETUP" /\ ~UseTCP => (ret.whole /\ ret.port = Track(step)) \/ Behind
  /\ pc = "up" => RoutesUpTo(NumSteps)

RouteInv ==
  ~(UseTCP /\ Rechallenged("SETUP")) =>
    ServerAgrees /\ ChannelsCounted /\ PortsCarried /\ ManagerAgrees

(* What the answer adds to the wire, entry by entry. *)
LEMMA ServeAdds ==
  ASSUME TypeOK, SessionInv, Serve
  PROVE  \E r \in Requests : \E code \in {Due(r), "refused"} :
           /\ r = Head(toServer) /\ toServer # <<>> /\ toServer' = <<>>
           /\ UNCHANGED clientVars
           /\ srv' = IF code = "ok" THEN ServerAfter(r) ELSE srv
           /\ Behind => Behind'
           /\ \A i \in DOMAIN toClient' : toClient'[i].code # "garbled" =>
                /\ toClient'[i].code = code
                /\ ~Splits => toClient'[i].whole
                /\ code = "ok" /\ Method(r.step) = "SETUP" =>
                     toClient'[i].session /\ (~UseTCP => toClient'[i].port = Track(r.step))
                /\ toClient'[i].whole
                     \/ (i + 1 \in DOMAIN toClient' /\ toClient'[i + 1].code = "garbled")
           /\ ~Splits => \A i \in DOMAIN toClient' :
                toClient'[i].code = "garbled" =>
                  i \in DOMAIN toClient /\ toClient[i].code = "garbled"
<1>1. PICK r : r = Head(toServer)
  OBVIOUS
<1>2. /\ r \in Requests /\ toServer # <<>> /\ toServer' = <<>>
      /\ UNCHANGED clientVars /\ srv \in Servers
  BY <1>1, ServeFacts
<1>0. PICK code \in {Due(r), "refused"} :
        /\ srv' = IF code = "ok" THEN ServerAfter(r) ELSE srv
        /\ \E p \in Pieces(r, code) : toClient' = toClient \o p
  BY <1>1 DEF Serve
<1>3. PICK p \in Pieces(r, code) : toClient' = toClient \o p
  BY <1>0
<1>4. code \in Codes /\ code # "garbled"
  BY DEF Due, Codes
<1>5. /\ p \in Seq(Answers) /\ Len(p) \in {1, 2} /\ p[1].code = code
      /\ ~Splits => p[1].whole
      /\ Len(p) = 2 => p[2].code = "garbled"
      /\ p[1].whole \/ Len(p) = 2
      /\ ~Splits => Len(p) = 1
      /\ code = "ok" /\ Method(r.step) = "SETUP" =>
           p[1].session /\ (~UseTCP => p[1].port = Track(r.step))
  BY <1>2, <1>4, PiecesFacts
<1>6. /\ toClient \in Seq(Answers) /\ Len(toClient) \in Nat
      /\ DOMAIN toClient = 1..Len(toClient)
      /\ \A i \in DOMAIN toClient : toClient[i].code = "garbled"
  BY <1>2 DEF SessionInv, OneOutstanding, NoAnswerYet, TypeOK, WireTyped
<1>7. /\ DOMAIN toClient' = 1..(Len(toClient) + Len(p))
      /\ \A i \in 1..(Len(toClient) + Len(p)) :
           toClient'[i] = IF i <= Len(toClient) THEN toClient[i] ELSE p[i - Len(toClient)]
  BY <1>3, <1>5, <1>6, ConcatProperties
<1>8. PICK m \in Nat : m = Len(toClient)
  BY <1>6
<1>9. /\ \A i \in DOMAIN toClient : i \in DOMAIN toClient' /\ toClient'[i] = toClient[i]
      /\ m + 1 \in DOMAIN toClient' /\ toClient'[m + 1] = p[1]
      /\ Len(p) = 2 => m + 2 \in DOMAIN toClient' /\ toClient'[m + 2] = p[2]
      /\ \A i \in DOMAIN toClient' :
           i \in DOMAIN toClient \/ i = m + 1 \/ (Len(p) = 2 /\ i = m + 2)
  <2>1. \A i \in DOMAIN toClient : i \in DOMAIN toClient' /\ toClient'[i] = toClient[i]
    BY <1>5, <1>6, <1>7
  <2>2. m + 1 \in DOMAIN toClient' /\ toClient'[m + 1] = p[1]
    BY <1>5, <1>7, <1>8
  <2>3. Len(p) = 2 => m + 2 \in DOMAIN toClient' /\ toClient'[m + 2] = p[2]
    BY <1>7, <1>8
  <2>4. \A i \in DOMAIN toClient' :
          i \in DOMAIN toClient \/ i = m + 1 \/ (Len(p) = 2 /\ i = m + 2)
    BY <1>5, <1>6, <1>7, <1>8
  <2>5. QED
    BY <2>1, <2>2, <2>3, <2>4
<1>10. Behind => Behind'
  BY <1>9 DEF Behind
<1>11. ASSUME NEW i \in DOMAIN toClient', toClient'[i].code # "garbled"
       PROVE  /\ toClient'[i] = p[1]
              /\ Len(p) = 2 => i + 1 \in DOMAIN toClient' /\ toClient'[i + 1] = p[2]
  <2>1. i = m + 1
    BY <1>5, <1>6, <1>9, <1>11
  <2>2. i + 1 = m + 2
    BY <2>1
  <2>3. QED
    BY <1>9, <2>1, <2>2
<1>12. ASSUME ~Splits, NEW i \in DOMAIN toClient', toClient'[i].code = "garbled"
       PROVE  i \in DOMAIN toClient /\ toClient[i].code = "garbled"
  <2>1. i # m + 1
    BY <1>4, <1>5, <1>9, <1>12
  <2>2. QED
    BY <1>5, <1>6, <1>9, <1>12, <2>1
<1>13. \A i \in DOMAIN toClient' : toClient'[i].code # "garbled" =>
                /\ toClient'[i].code = code
                /\ ~Splits => toClient'[i].whole
                /\ code = "ok" /\ Method(r.step) = "SETUP" =>
                     toClient'[i].session /\ (~UseTCP => toClient'[i].port = Track(r.step))
                /\ toClient'[i].whole
                     \/ (i + 1 \in DOMAIN toClient' /\ toClient'[i + 1].code = "garbled")
  BY <1>5, <1>11
<1>14. QED
  BY <1>0, <1>1, <1>2, <1>10, <1>12, <1>13

(* What one recv takes: the first entry decides, and a short read leaves   *)
(* the second in its place.                                                *)
LEMMA ReadTakes ==
  ASSUME TypeOK, Read
  PROVE  \E a \in Answers :
           /\ pc = "read" /\ UNCHANGED <<step, channels, ports, route, toServer, srv>>
           /\ session' \in SessionAfter(a)
           /\ IF Retries(a)
              THEN auth' = Credentials /\ depth' = depth + 1 /\ pc' = "send"
                   /\ UNCHANGED <<closes, ret>>
              ELSE Return(a)
           /\ 1 \in DOMAIN toClient
           /\ a.code = toClient[1].code /\ a.session = toClient[1].session
           /\ a.port = toClient[1].port
           /\ toClient[1].whole => a.whole
           /\ ~a.whole /\ a.code # "garbled" /\ 2 \in DOMAIN toClient =>
                1 \in DOMAIN toClient' /\ toClient'[1] = toClient[2]
<1>1. PICK n \in 1..Len(toClient) :
        /\ toClient' = SubSeq(toClient, n + 1, Len(toClient))
        /\ session' \in SessionAfter(Received(n))
        /\ IF Retries(Received(n))
           THEN auth' = Credentials /\ depth' = depth + 1 /\ pc' = "send"
                /\ UNCHANGED <<closes, ret>>
           ELSE Return(Received(n))
  BY DEF Read
<1>2. toClient \in Seq(Answers)
  BY DEF TypeOK, WireTyped
<1>3. PICK a : a = Received(n)
  OBVIOUS
<1>4. /\ a \in Answers /\ a.code = toClient[1].code
      /\ toClient[1].whole => a.whole
      /\ 1 \in DOMAIN toClient
  BY <1>2, <1>3, ReceivedFacts
<1>5. /\ a.session = toClient[1].session /\ a.port = toClient[1].port
      /\ n > 1 /\ a.code # "garbled" => a.whole
  <2>1. Head(toClient) = toClient[1] /\ toClient[1] \in Answers
    BY <1>2, <1>4
  <2>2. PICK w : w = (toClient[1].whole \/ (n > 1 /\ toClient[1].code # "garbled"))
    OBVIOUS
  <2>3. a = [toClient[1] EXCEPT !.whole = w]
    BY <1>3, <2>1, <2>2 DEF Received
  <2>4. a.session = toClient[1].session /\ a.port = toClient[1].port /\ a.whole = w
    BY <2>1, <2>3 DEF Answers
  <2>5. QED
    BY <1>4, <2>2, <2>4
<1>6. ASSUME n = 1, 2 \in DOMAIN toClient
      PROVE  1 \in DOMAIN toClient' /\ toClient'[1] = toClient[2]
  <2>1. /\ DOMAIN toClient' = 1..(Len(toClient) - n)
        /\ \A i \in DOMAIN toClient' : i + n \in DOMAIN toClient /\ toClient'[i] = toClient[i + n]
    BY <1>1, <1>2, RestOfWire
  <2>2. DOMAIN toClient = 1..Len(toClient) /\ Len(toClient) \in Nat
    BY <1>2
  <2>3. 1 \in DOMAIN toClient'
    BY <1>6, <2>1, <2>2
  <2>4. QED
    BY <1>6, <2>1, <2>3
<1>7. ~a.whole /\ a.code # "garbled" => n = 1
  BY <1>5
<1>8. pc = "read" /\ UNCHANGED <<step, channels, ports, route, toServer, srv>>
  BY DEF Read
<1>9. QED
  BY <1>1, <1>3, <1>4, <1>5, <1>6, <1>7, <1>8

(* What sending does: the request is alone on the wire, or the call fails. *)
LEMMA SendTakes ==
  ASSUME TypeOK, SessionInv, Send
  PROVE  /\ pc = "send" /\ toServer = <<>> /\ NoAnswerYet /\ channels' = Composed
         /\ UNCHANGED <<step, session, ports, route, toClient, srv>>
         /\ \/ /\ pc' = "read" /\ toServer' # <<>> /\ Head(toServer') = Request
               /\ DOMAIN toServer' = {1} /\ toServer'[1] = Request
               /\ UNCHANGED <<depth, auth, closes, ret>>
            \/ /\ Return([NoAnswer EXCEPT !.code = "write"])
               /\ UNCHANGED toServer
<1>1. /\ pc = "send" /\ channels' = Composed
      /\ UNCHANGED <<step, session, ports, route, toClient, srv>>
  BY DEF Send
<1>2. toServer = <<>> /\ NoAnswerYet
  BY <1>1 DEF SessionInv, OneOutstanding
<1>3. PICK r : r = Request
  OBVIOUS
<1>4. toServer' = Append(toServer, Request) => toServer' = <<r>>
  BY <1>2, <1>3
<1>5. toServer' = <<r>> => /\ toServer' # <<>> /\ Head(toServer') = r
                           /\ DOMAIN toServer' = {1} /\ toServer'[1] = r
  OBVIOUS
<1>6. \/ /\ pc' = "read" /\ toServer' = Append(toServer, Request)
         /\ UNCHANGED <<depth, auth, closes, ret>>
      \/ Return([NoAnswer EXCEPT !.code = "write"]) /\ UNCHANGED toServer
  BY DEF Send
<1>7. QED
  BY <1>1, <1>2, <1>3, <1>4, <1>5, <1>6

(* A call that fails for want of an answer *)
LEMMA Failing ==
  ASSUME TypeOK, SessionInv, ReadFails
  PROVE  /\ pc = "read"
         /\ UNCHANGED <<step, session, channels, ports, route, toServer, toClient, srv>>
         /\ \E code \in {"write", "timeout", "eof"} : Return([NoAnswer EXCEPT !.code = code])
BY DEF ReadFails

(* What is returned then is no answer. *)
LEMMA FailureReturned ==
  ASSUME NEW code \in {"write", "timeout", "eof"}, Return([NoAnswer EXCEPT !.code = code])
  PROVE  /\ pc' = "returned" /\ ret'.code # "ok" /\ ret'.code # "unauthorized" /\ depth' = 0
         /\ auth' = (IF Forgets THEN "none" ELSE auth)
         /\ closes' = IF Method(step) = "TEARDOWN" THEN closes + 1 + depth ELSE closes
<1>1. [NoAnswer EXCEPT !.code = code].code = code
  BY FailureTyped DEF Codes
<1>2. QED
  BY <1>1 DEF Return

(* A receiver report is no answer. *)
LEMMA ReportAdds ==
  ASSUME TypeOK, Report
  PROVE  /\ UseTCP /\ srv.accepted = NumSteps /\ UNCHANGED clientVars /\ UNCHANGED toServer
         /\ srv'.accepted = srv.accepted /\ srv'.protected = srv.protected
         /\ srv'.good = srv.good /\ srv'.session = srv.session /\ srv'.route = srv.route
         /\ \A i \in DOMAIN toClient' : toClient'[i].code # "garbled" =>
              i \in DOMAIN toClient /\ toClient'[i] = toClient[i]
<1>1. /\ UseTCP /\ srv.accepted = NumSteps /\ UNCHANGED clientVars /\ UNCHANGED toServer
      /\ toClient' = Append(toClient, Garbled(FALSE))
      /\ srv' = [srv EXCEPT !.reports = @ + 1]
  BY DEF Report
<1>2. PICK g : g = Garbled(FALSE)
  OBVIOUS
<1>3. g.code = "garbled" /\ toClient' = Append(toClient, g)
  BY <1>1, <1>2 DEF Garbled
<1>4. toClient \in Seq(Answers) /\ srv \in Servers
  BY DEF TypeOK, WireTyped
<1>5. \A i \in DOMAIN toClient' : toClient'[i].code # "garbled" =>
        i \in DOMAIN toClient /\ toClient'[i] = toClient[i]
  BY <1>3, <1>4
<1>6. /\ srv'.accepted = srv.accepted /\ srv'.protected = srv.protected
      /\ srv'.good = srv.good /\ srv'.session = srv.session /\ srv'.route = srv.route
  BY <1>1, <1>4 DEF Servers
<1>7. QED
  BY <1>1, <1>5, <1>6

(* NewAttempt puts everything back. *)
LEMMA AttemptFresh ==
  ASSUME NewAttempt
  PROVE  /\ pc' = "idle" /\ step' = 1 /\ depth' = 0 /\ closes' = 0 /\ channels' = 0
         /\ toServer' = <<>> /\ toClient' = <<>> /\ DOMAIN toClient' = {}
         /\ srv'.accepted = 0 /\ srv'.session = FALSE
<1>1. srv' \in FreshServer
  BY DEF NewAttempt
<1>2. srv'.accepted = 0 /\ srv'.session = FALSE
  BY <1>1 DEF FreshServer
<1>3. QED
  BY <1>2 DEF NewAttempt

(* The server and the request in progress: every action. *)
LEMMA PaceStep == ASSUME TypeOK, SessionInv, PaceInv, [Next]_vars PROVE PaceInv'
<1>0. /\ srv.accepted \in Nat /\ step \in Steps /\ step \in Nat
      /\ NumSteps \in Nat /\ TearStep = NumSteps + 1
  BY StepFacts DEF TypeOK, ClientTyped, Servers
<1>1. ASSUME Serve PROVE PaceInv'
  <2>1. PICK r \in Requests, code \in {"unauthorized", "refused", "ok"} :
           /\ r = Head(toServer) /\ toServer # <<>> /\ toServer' = <<>>
           /\ UNCHANGED clientVars
           /\ srv' = IF code = "ok" THEN ServerAfter(r) ELSE srv
           /\ \A i \in DOMAIN toClient' : toClient'[i].code # "garbled" => toClient'[i].code = code
    BY <1>1, ServeAdds DEF Due
  <2>2. r.step = step /\ srv.accepted < step
    BY <2>1 DEF PaceInv
  <2>3. srv' = srv \/ (code = "ok" /\ srv'.accepted = step)
    BY <2>1, <2>2, ServerTyped DEF TypeOK
  <2>4. pc \notin {"idle", "send", "up"}
    BY <2>1 DEF SessionInv, OneOutstanding
  <2>5. UNCHANGED <<pc, step, depth>>
    BY <2>1 DEF clientVars
  <2>6. Answered("unauthorized")' => srv' = srv
    BY <2>1 DEF Answered
  <2>7. QED
    BY <1>0, <2>1, <2>2, <2>3, <2>4, <2>5, <2>6 DEF PaceInv
<1>2. ASSUME Report PROVE PaceInv'
  BY <1>2, ReportAdds DEF PaceInv, Answered, clientVars
<1>3. ASSUME Send PROVE PaceInv'
  <2>1. /\ pc = "send" /\ toServer = <<>> /\ NoAnswerYet /\ UNCHANGED <<step, toClient, srv>>
        /\ \/ pc' = "read" /\ Head(toServer') = Request
           \/ pc' = "returned" /\ UNCHANGED toServer
    BY <1>3, SendTakes DEF Return
  <2>2. Request.step = step
    BY DEF Request
  <2>3. ~Answered("unauthorized")'
    BY <2>1 DEF Answered, NoAnswerYet
  <2>4. srv.accepted < step
    BY <2>1 DEF PaceInv
  <2>5. QED
    BY <2>1, <2>2, <2>3, <2>4 DEF PaceInv
<1>4. ASSUME Read PROVE PaceInv'
  <2>1. PICK a \in Answers :
           /\ pc = "read" /\ UNCHANGED <<step, toServer, srv>>
           /\ IF Retries(a) THEN pc' = "send" ELSE pc' = "returned"
           /\ 1 \in DOMAIN toClient /\ a.code = toClient[1].code
    BY <1>4, ReadTakes DEF Return
  <2>2. Retries(a) => srv.accepted < step
    BY <2>1 DEF Retries, PaceInv, Answered
  <2>3. QED
    BY <2>1, <2>2 DEF PaceInv
<1>5. ASSUME ReadFails PROVE PaceInv'
  BY <1>5, Failing, FailureReturned DEF PaceInv
<1>6. ASSUME ConnectTo \/ SetupDone \/ StepDone \/ GiveUp \/ TornDown \/ Disconnect
      PROVE  PaceInv'
  <2>1. UNCHANGED <<depth, toServer, toClient, srv>> /\ (pc = "returned" => depth = 0)
    BY <1>6, ManagerFacts DEF SessionInv, CallsBegin
  <2>2. \/ pc' \notin {"idle", "send", "read", "up"} /\ step' = step
        \/ pc = "idle" /\ pc' = "send" /\ step' = step
        \/ pc = "returned" /\ ret.code = "ok" /\ pc' = "send" /\ step' = step + 1
        \/ pc = "returned" /\ step = NumSteps /\ pc' = "up" /\ step' = step
        \/ pc = "up" /\ pc' = "send" /\ step' = TearStep
    BY <1>6, ManagerFacts
  <2>3. (pc = "returned" /\ ret.code = "ok") \/ pc = "up" => toServer = <<>>
    BY DEF SessionInv, OneOutstanding
  <2>4. QED
    BY <1>0, <2>1, <2>2, <2>3 DEF PaceInv
<1>7. ASSUME NewAttempt PROVE PaceInv'
  BY <1>7, AttemptFresh DEF PaceInv
<1>8. CASE UNCHANGED vars
  BY <1>8 DEF vars, clientVars, PaceInv, Answered
<1>9. QED
  BY <1>1, <1>2, <1>3, <1>4, <1>5, <1>6, <1>7, <1>8 DEF Next, ClientStep

(* Credentials, retries and the socket: every action. *)
LEMMA CloseStep == ASSUME TypeOK, SessionInv, PaceInv, CloseInv, [Next]_vars PROVE CloseInv'
<1>0. /\ step \in Steps /\ step \in Nat /\ depth \in {0, 1} /\ NumSteps \in Nat /\ NumSteps > 3
      /\ TearStep = NumSteps + 1 /\ srv \in Servers
      /\ Method(step) = "TEARDOWN" <=> step = TearStep
      /\ Method(step) = "ANNOUNCE" <=> step = 2
      /\ Method(step) = "OPTIONS" <=> step = 1
  BY StepFacts DEF TypeOK, ClientTyped
<1> DEFINE Kept == /\ KeptCredentials /\ step = 2 =>
                        /\ pc = "read" /\ toServer # <<>> => Head(toServer).auth = auth
                        /\ pc = "read" /\ Answered("ok") => srv.good /\ auth = "Basic"
                        /\ pc = "returned" /\ ret.code = "ok" => srv.good /\ auth = "Basic"
                   /\ KeptCredentials /\ step > 2 =>
                        /\ srv.good /\ auth = "Basic" /\ depth = 0
                        /\ toServer # <<>> => Head(toServer).auth = "Basic"
                        /\ pc = "read" => ~Answered("unauthorized")
           Retried == /\ depth = 1 => Method(step) \in srv.protected
                      /\ pc = "read" /\ Answered("unauthorized") => Method(step) \in srv.protected
           Closed == /\ ~(step = TearStep /\ pc \in {"returned", "closed"}) => closes = 0
                     /\ SocketClosedOnce
<1>a. CloseInv <=> Kept /\ Retried /\ Closed
  BY DEF CloseInv
<1>b. CloseInv' <=> Kept' /\ Retried' /\ Closed'
  BY DEF CloseInv
<1>1. ASSUME Serve PROVE CloseInv'
  <2>0. PICK r \in Requests : r = Head(toServer)
    BY <1>1, ServeAdds
  <2>1. PICK code \in {Due(r), "refused"} :
           /\ r = Head(toServer) /\ toServer # <<>> /\ toServer' = <<>>
           /\ UNCHANGED clientVars
           /\ srv' = IF code = "ok" THEN ServerAfter(r) ELSE srv
           /\ \A i \in DOMAIN toClient' : toClient'[i].code # "garbled" => toClient'[i].code = code
    BY <1>1, <2>0, ServeAdds
  <2>2. r.step = step
    BY <2>1 DEF PaceInv
  <2>3. /\ code = "unauthorized" => Method(step) \in srv.protected
                                    /\ ~(srv.good /\ r.auth = Proper(step))
        /\ code = "ok" /\ Method(step) \in srv.protected => srv.good /\ r.auth = Proper(step)
    BY <2>1, <2>2 DEF Due
  <2>4. srv'.protected = srv.protected /\ srv'.good = srv.good
    BY <1>0, <2>1, ServerTyped
  <2>5. Scheme = "Basic" => Proper(step) = "Basic"
    BY DEF Proper
  <2>6. UNCHANGED <<pc, step, depth, auth, closes, ret>>
    BY <2>1 DEF clientVars
  <2>7. /\ Answered("unauthorized")' => code = "unauthorized"
        /\ Answered("ok")' => code = "ok"
    BY <2>1 DEF Answered
  <2>8. Retried'
    BY <1>a, <2>3, <2>4, <2>6, <2>7 DEF Method, NumSteps, TearStep
  <2>9. Closed'
    BY <1>a, <2>4, <2>6 DEF SocketClosedOnce, Rechallenged, TearStep, NumSteps
  <2>10. Kept'
    <3>1. KeptCredentials' <=> KeptCredentials
      BY <2>4 DEF KeptCredentials
    <3>2. KeptCredentials /\ step = 2 /\ pc = "read" /\ code = "ok" => srv.good /\ auth = "Basic"
      BY <1>0, <1>a, <2>1, <2>3, <2>5 DEF KeptCredentials
    <3>3. KeptCredentials /\ step > 2 => code # "unauthorized"
      BY <1>a, <2>1, <2>3, <2>5 DEF KeptCredentials
    <3>4. QED
      BY <1>a, <2>1, <2>4, <2>6, <2>7, <3>1, <3>2, <3>3
  <2>11. QED
    BY <1>b, <2>8, <2>9, <2>10
<1>2. ASSUME pc \in {"send", "read"}, pc' = "returned", depth' = 0, UNCHANGED <<step, toServer, srv>>,
             auth' = (IF Forgets THEN "none" ELSE auth),
             closes' = IF Method(step) = "TEARDOWN" THEN closes + 1 + depth ELSE closes,
             KeptCredentials /\ step = 2 /\ ret'.code = "ok" => srv.good /\ auth = "Basic"
      PROVE  CloseInv'
  <2>1. closes = 0
    BY <1>a, <1>2
  <2>2. Retried'
    BY <1>2
  <2>3. Closed'
    <3>1. step # TearStep => closes' = 0
      BY <1>0, <1>2, <2>1
    <3>2. closes' > 1 => step = TearStep /\ depth = 1
      BY <1>0, <1>2, <2>1
    <3>3. step = TearStep /\ depth = 1 => Rechallenged("TEARDOWN")
      BY <1>0, <1>a DEF Rechallenged, KeptCredentials
    <3>4. Rechallenged("TEARDOWN") => Rechallenged("TEARDOWN")'
      BY <1>2 DEF Rechallenged
    <3>5. QED
      BY <1>2, <3>1, <3>2, <3>3, <3>4 DEF SocketClosedOnce, TearStep, NumSteps
  <2>4. Kept'
    <3>1. KeptCredentials' <=> KeptCredentials
      BY <1>2 DEF KeptCredentials
    <3>2. KeptCredentials /\ step = 2 /\ ret'.code = "ok" => auth' = "Basic"
      BY <1>0, <1>2 DEF Forgets
    <3>3. KeptCredentials /\ step > 2 => auth' = "Basic"
      BY <1>a, <1>2 DEF Forgets
    <3>4. QED
      BY <1>a, <1>2, <3>1, <3>2, <3>3
  <2>5. QED
    BY <1>b, <2>2, <2>3, <2>4
<1>3. ASSUME Report PROVE CloseInv'
  <2>1. /\ UNCHANGED <<pc, step, depth, auth, closes, ret, toServer>>
        /\ srv'.protected = srv.protected /\ srv'.good = srv.good
        /\ Answered("unauthorized")' => Answered("unauthorized")
        /\ Answered("ok")' => Answered("ok")
    BY <1>3, ReportAdds DEF Answered, clientVars
  <2>2. KeptCredentials' <=> KeptCredentials
    BY <2>1 DEF KeptCredentials
  <2>3. Retried' /\ Kept'
    BY <1>a, <2>1, <2>2 DEF Method, NumSteps, TearStep
  <2>4. Closed'
    BY <1>a, <2>1 DEF SocketClosedOnce, Rechallenged, TearStep, NumSteps
  <2>5. QED
    BY <1>b, <2>3, <2>4
<1>4. ASSUME Send PROVE CloseInv'
  <2>1. /\ pc = "send" /\ toServer = <<>> /\ NoAnswerYet /\ UNCHANGED <<step, toClient, srv>>
        /\ \/ /\ pc' = "read" /\ toServer' # <<>> /\ Head(toServer') = Request
              /\ UNCHANGED <<depth, auth, closes, ret>>
           \/ /\ Return([NoAnswer EXCEPT !.code = "write"])
              /\ UNCHANGED toServer
    BY <1>4, SendTakes
  <2>2. CASE pc' = "read"
    <3>1. /\ toServer' # <<>> /\ Head(toServer') = Request /\ UNCHANGED <<depth, auth, closes, ret>>
      BY <2>1, <2>2 DEF Return
    <3>2. step # 1 => Request.auth = auth
      BY <1>0 DEF Request
    <3>3. ~Answered("unauthorized")' /\ ~Answered("ok")'
      BY <2>1 DEF Answered, NoAnswerYet
    <3>4. KeptCredentials' <=> KeptCredentials
      BY <2>1 DEF KeptCredentials
    <3>5. Kept'
      BY <1>0, <1>a, <2>1, <2>2, <3>1, <3>2, <3>3, <3>4
    <3>6. Retried'
      BY <1>a, <2>1, <3>1, <3>3 DEF Method, NumSteps, TearStep
    <3>7. Closed'
      BY <1>a, <2>1, <3>1 DEF SocketClosedOnce, Rechallenged, TearStep, NumSteps
    <3>8. QED
      BY <1>b, <3>5, <3>6, <3>7
  <2>3. CASE Return([NoAnswer EXCEPT !.code = "write"]) /\ UNCHANGED toServer
    BY <1>2, <2>1, <2>3, FailureReturned
  <2>4. QED
    BY <2>1, <2>2, <2>3
<1>5. ASSUME ReadFails PROVE CloseInv'
  BY <1>2, <1>5, Failing, FailureReturned
<1>6. ASSUME Read PROVE CloseInv'
  <2>1. PICK a \in Answers :
           /\ pc = "read" /\ UNCHANGED <<step, toServer, srv>>
           /\ IF Retries(a)
              THEN auth' = Credentials /\ depth' = depth + 1 /\ pc' = "send"
                   /\ UNCHANGED <<closes, ret>>
              ELSE Return(a)
           /\ 1 \in DOMAIN toClient /\ a.code = toClient[1].code
    BY <1>6, ReadTakes
  <2>2. CASE Retries(a)
    <3>1. Answered("unauthorized") /\ depth = 0
      BY <2>1, <2>2 DEF Retries, Answered
    <3>2. Method(step) \in srv.protected
      BY <1>a, <2>1, <3>1
    <3>3. KeptCredentials => ~(step > 2)
      BY <1>a, <2>1, <3>1
    <3>4. KeptCredentials' <=> KeptCredentials
      BY <2>1 DEF KeptCredentials
    <3>5. pc' = "send" /\ UNCHANGED <<closes, ret>>
      BY <2>1, <2>2
    <3>6. Kept'
      BY <2>1, <3>3, <3>4, <3>5
    <3>7. Retried'
      BY <2>1, <3>2, <3>5 DEF Method, NumSteps, TearStep
    <3>8. Closed'
      BY <1>a, <2>1, <3>5 DEF SocketClosedOnce, Rechallenged, TearStep, NumSteps
    <3>9. QED
      BY <1>b, <3>6, <3>7, <3>8
  <2>3. CASE ~Retries(a)
    <3>1. /\ pc' = "returned" /\ ret' = a /\ depth' = 0
          /\ auth' = (IF Forgets THEN "none" ELSE auth)
          /\ closes' = IF Method(step) = "TEARDOWN" THEN closes + 1 + depth ELSE closes
      BY <2>1, <2>3 DEF Return
    <3>2. KeptCredentials /\ step = 2 /\ ret'.code = "ok" => srv.good /\ auth = "Basic"
      BY <1>a, <2>1, <3>1 DEF Answered
    <3>3. QED
      BY <1>2, <2>1, <3>1, <3>2
  <2>4. QED
    BY <2>2, <2>3
<1>7. ASSUME ConnectTo \/ SetupDone \/ StepDone \/ GiveUp \/ TornDown \/ Disconnect
      PROVE  CloseInv'
  <2>1. UNCHANGED <<depth, auth, closes, ret, toServer, toClient, srv>> /\ step' \in Steps
    BY <1>7, ManagerFacts
  <2>2. \/ pc = "idle" /\ pc' \in {"send", "failed"} /\ step' = step
        \/ pc = "returned" /\ ret.code = "ok" /\ step < NumSteps /\ pc' = "send" /\ step' = step + 1
        \/ pc = "returned" /\ ret.code = "ok" /\ step = NumSteps /\ pc' = "up" /\ step' = step
        \/ pc = "returned" /\ step < NumSteps /\ pc' = "crashed" /\ step' = step
        \/ pc = "returned" /\ step # TearStep /\ pc' \in {"denied", "failed"} /\ step' = step
        \/ pc = "returned" /\ step = TearStep /\ pc' = "closed" /\ step' = step
        \/ pc = "up" /\ step = NumSteps /\ pc' = "send" /\ step' = TearStep
        \/ pc = "up" /\ pc' = "dropped" /\ step' = step
    BY <1>7, ManagerFacts DEF PaceInv
  <2>3. KeptCredentials' <=> KeptCredentials
    BY <2>1 DEF KeptCredentials
  <2>4. pc' # "read" /\ pc' # "returned"
    BY <2>2
  <2>5. pc \in {"idle", "returned"} => depth = 0
    BY DEF SessionInv, CallsBegin
  <2>6. (pc = "returned" /\ ret.code = "ok") => toServer = <<>>
    BY DEF SessionInv, OneOutstanding
  <2>7. Retried'
    <3>1. step' # step => depth' = 0 \/ (pc = "up" /\ step = NumSteps)
      BY <2>1, <2>2, <2>5
    <3>2. pc = "up" => depth = 0
      BY DEF PaceInv
    <3>3. QED
      BY <1>a, <2>1, <2>4, <3>1, <3>2 DEF Method, NumSteps, TearStep
  <2>8. Closed'
    BY <1>0, <1>a, <2>1, <2>2 DEF SocketClosedOnce, Rechallenged, TearStep, NumSteps
  <2>9. Kept'
    BY <1>0, <1>a, <2>1, <2>2, <2>3, <2>4, <2>5, <2>6
  <2>10. QED
    BY <1>b, <2>7, <2>8, <2>9
<1>8. ASSUME NewAttempt PROVE CloseInv'
  BY <1>b, <1>8, AttemptFresh DEF SocketClosedOnce
<1>9. CASE UNCHANGED vars
  BY <1>9 DEF vars, clientVars, CloseInv, KeptCredentials, Answered, SocketClosedOnce, Rechallenged,
    Method, TearStep, NumSteps
<1>10. QED
  BY <1>1, <1>3, <1>4, <1>5, <1>6, <1>7, <1>8, <1>9 DEF Next, ClientStep

(* What accepting a request leaves in the server. *)
LEMMA ServerData ==
  ASSUME srv \in Servers, NEW r \in Requests
  PROVE  /\ Method(r.step) # "SETUP" => /\ ServerAfter(r).session = srv.session
                                        /\ ServerAfter(r).route = srv.route
         /\ Method(r.step) = "SETUP" =>
              /\ ServerAfter(r).session = TRUE
              /\ ServerAfter(r).route =
                   [srv.route EXCEPT ![Track(r.step)] = IF UseTCP THEN r.channel ELSE Track(r.step)]
<1>1. CASE Method(r.step) # "SETUP"
  <2>1. ServerAfter(r) = [srv EXCEPT !.accepted = r.step]
    BY <1>1 DEF ServerAfter
  <2>2. QED
    BY <1>1, <2>1 DEF Servers
<1>2. CASE Method(r.step) = "SETUP"
  <2>1. PICK rt : rt = [srv.route EXCEPT ![Track(r.step)] = IF UseTCP THEN r.channel ELSE Track(r.step)]
    OBVIOUS
  <2>2. ServerAfter(r) = [srv EXCEPT !.accepted = r.step, !.session = TRUE, !.route = rt]
    BY <1>2, <2>1 DEF ServerAfter, Servers
  <2>3. ServerAfter(r).session = TRUE /\ ServerAfter(r).route = rt
    BY <2>2 DEF Servers
  <2>4. QED
    BY <1>2, <2>1, <2>3
<1>3. QED
  BY <1>1, <1>2

(* The session id: every action. *)
LEMMA CarryStep == ASSUME TypeOK, SessionInv, PaceInv, CarryInv, [Next]_vars PROVE CarryInv'
<1> SUFFICES ASSUME ~Splits PROVE CarryInv'
  BY DEF CarryInv
<1>0. /\ step \in Steps /\ step \in Nat /\ NumSteps \in Nat /\ NumSteps > 3
      /\ TearStep = NumSteps + 1 /\ srv \in Servers /\ srv.accepted \in Nat
      /\ session \in BOOLEAN
      /\ Method(step) = "SETUP" <=> 3 <= step /\ step < NumSteps
      /\ Method(step) = "OPTIONS" <=> step = 1
  BY StepFacts DEF TypeOK, ClientTyped, Servers
<1>a. /\ srv.session => srv.accepted >= 3
      /\ srv.accepted < NumSteps => \A i \in DOMAIN toClient : toClient[i].code # "garbled"
      /\ pc = "read" /\ step = 3 =>
           \A i \in DOMAIN toClient :
             toClient[i].code = "ok" => toClient[i].session /\ toClient[i].whole
      /\ pc = "returned" /\ ret.code = "ok" /\ step = 3 => session
      /\ step > 3 => session
      /\ toServer # <<>> /\ step > 3 => Head(toServer).session
  BY DEF CarryInv
<1>1. ASSUME Serve PROVE CarryInv'
  <2>0. PICK r \in Requests : r = Head(toServer)
    BY <1>1, ServeAdds
  <2>1. PICK code \in {Due(r), "refused"} :
           /\ toServer # <<>> /\ toServer' = <<>> /\ UNCHANGED clientVars
           /\ srv' = IF code = "ok" THEN ServerAfter(r) ELSE srv
           /\ \A i \in DOMAIN toClient' : toClient'[i].code # "garbled" =>
                /\ toClient'[i].code = code
                /\ toClient'[i].whole
                /\ code = "ok" /\ Method(r.step) = "SETUP" => toClient'[i].session
           /\ \A i \in DOMAIN toClient' :
                toClient'[i].code = "garbled" =>
                  i \in DOMAIN toClient /\ toClient[i].code = "garbled"
    BY <1>1, <2>0, ServeAdds
  <2>2. r.step = step /\ srv.accepted < step
    BY <2>0, <2>1 DEF PaceInv
  <2>3. UNCHANGED <<pc, step, session, ret>>
    BY <2>1 DEF clientVars
  <2>4. code = "ok" => srv'.accepted = step
    BY <1>0, <2>1, <2>2, ServerTyped
  <2>5. srv'.session => srv'.accepted >= 3
    <3>1. code = "ok" /\ Method(step) # "SETUP" => srv'.session = srv.session
      BY <1>0, <2>1, <2>2, ServerData
    <3>2. QED
      BY <1>0, <1>a, <2>1, <2>2, <2>4, <3>1
  <2>6. srv'.accepted < NumSteps => \A i \in DOMAIN toClient' : toClient'[i].code # "garbled"
    BY <1>0, <1>a, <2>1, <2>2, <2>4
  <2>7. step = 3 =>
          \A i \in DOMAIN toClient' :
            toClient'[i].code = "ok" => toClient'[i].session /\ toClient'[i].whole
    BY <1>0, <2>1, <2>2
  <2>8. QED
    BY <1>a, <2>1, <2>3, <2>5, <2>6, <2>7 DEF CarryInv
<1>2. ASSUME Report PROVE CarryInv'
  <2>1. /\ srv.accepted = NumSteps /\ UNCHANGED <<pc, step, session, ret, toServer>>
        /\ srv'.accepted = srv.accepted /\ srv'.session = srv.session
    BY <1>2, ReportAdds DEF clientVars
  <2>2. ~(srv'.accepted < NumSteps) /\ step # 3
    BY <1>0, <2>1 DEF PaceInv
  <2>3. QED
    BY <1>a, <2>1, <2>2 DEF CarryInv
<1>3. ASSUME Send PROVE CarryInv'
  <2>1. /\ pc = "send" /\ toServer = <<>> /\ NoAnswerYet
        /\ UNCHANGED <<step, session, toClient, srv>>
        /\ \/ /\ pc' = "read" /\ Head(toServer') = Request
           \/ /\ pc' = "returned" /\ ret'.code # "ok"
              /\ UNCHANGED toServer
    BY <1>3, SendTakes, FailureReturned
  <2>2. step > 3 => Request.session
    <3>1. SUFFICES ASSUME step > 3 PROVE Request.session
      OBVIOUS
    <3>2. session = TRUE /\ Method(step) # "OPTIONS"
      BY <1>0, <1>a, <3>1
    <3>3. PICK b : b = (session /\ Method(step) # "OPTIONS")
      OBVIOUS
    <3>4. Request.session = b
      BY <3>3 DEF Request
    <3>5. QED
      BY <3>2, <3>3, <3>4
  <2>3. \A i \in DOMAIN toClient : toClient[i].code # "ok"
    BY <2>1 DEF NoAnswerYet
  <2>4. QED
    BY <1>a, <2>1, <2>2, <2>3 DEF CarryInv
<1>4. ASSUME ReadFails PROVE CarryInv'
  BY <1>4, <1>a, Failing, FailureReturned DEF CarryInv
<1>5. ASSUME Read PROVE CarryInv'
  <2>1. PICK a \in Answers :
           /\ pc = "read" /\ UNCHANGED <<step, toServer, srv>>
           /\ session' \in SessionAfter(a)
           /\ IF Retries(a) THEN pc' = "send" ELSE pc' = "returned" /\ ret' = a
           /\ 1 \in DOMAIN toClient
           /\ a.code = toClient[1].code /\ a.session = toClient[1].session
           /\ toClient[1].whole => a.whole
    BY <1>5, ReadTakes DEF Return
  <2>2. PICK n \in Nat : \A i \in DOMAIN toClient' :
           i \in Nat /\ i + n \in DOMAIN toClient /\ toClient'[i] = toClient[i + n]
    BY <1>5, ReadShortens
  <2>3. srv.accepted < NumSteps => \A i \in DOMAIN toClient' : toClient'[i].code # "garbled"
    BY <1>a, <2>2
  <2>4. session => session'
    BY <1>0, <2>1 DEF SessionAfter
  <2>5. step = 3 /\ a.code = "ok" => session'
    <3>1. step = 3 /\ a.code = "ok" => a.session /\ a.whole
      BY <1>a, <2>1
    <3>2. QED
      BY <2>1, <3>1 DEF SessionAfter
  <2>6. pc' # "read"
    BY <2>1
  <2>7. pc' = "returned" => ret' = a
    BY <2>1
  <2>8. QED
    BY <1>a, <2>1, <2>3, <2>4, <2>5, <2>6, <2>7 DEF CarryInv
<1>6. ASSUME ConnectTo \/ SetupDone \/ StepDone \/ GiveUp \/ TornDown \/ Disconnect
      PROVE  CarryInv'
  <2>1. UNCHANGED <<session, ret, toServer, toClient, srv>>
    BY <1>6, ManagerFacts
  <2>2. \/ pc' \notin {"read", "returned"} /\ step' = step
        \/ pc = "returned" /\ ret.code = "ok" /\ pc' = "send" /\ step' = step + 1
        \/ pc = "up" /\ step = NumSteps /\ pc' = "send" /\ step' = TearStep
    BY <1>6, ManagerFacts DEF PaceInv
  <2>3. pc' = "send" => toServer = <<>> \/ step' = step
    BY <2>2 DEF SessionInv, OneOutstanding
  <2>4. pc' # "read" /\ pc' # "returned"
    BY <2>2
  <2>5. step' > 3 => session
    BY <1>0, <1>a, <2>2
  <2>6. QED
    BY <1>a, <2>1, <2>2, <2>3, <2>4, <2>5 DEF CarryInv
<1>7. ASSUME NewAttempt PROVE CarryInv'
  <2>1. /\ pc' = "idle" /\ step' = 1 /\ toServer' = <<>> /\ DOMAIN toClient' = {}
        /\ srv'.session = FALSE
    BY <1>7, AttemptFresh
  <2>2. QED
    BY <2>1 DEF CarryInv
<1>8. CASE UNCHANGED vars
  BY <1>8 DEF vars, clientVars, CarryInv
<1>9. QED
  BY <1>1, <1>2, <1>3, <1>4, <1>5, <1>6, <1>7, <1>8 DEF Next, ClientStep

(* The request in progress as a number. *)
LEMMA SetupSteps ==
  ASSUME NEW s \in Steps
  PROVE  /\ s \in Nat /\ NumSteps = NumTracks + 3 /\ TearStep = NumTracks + 4 /\ NumTracks \in Nat
         /\ Tracks = 1..NumTracks /\ s <= TearStep
         /\ Method(s) = "SETUP" <=> (3 <= s /\ s < NumSteps)
         /\ Track(s) = s - 2
BY StepFacts DEF Tracks, Track

(* Serving a request keeps the server in agreement. *)
LEMMA ServerAgreesServe ==
  ASSUME TypeOK, SessionInv, PaceInv, Serve, ServerAgrees, ChannelsCounted
  PROVE  ServerAgrees'
<1>1. PICK r \in Requests : r = Head(toServer)
  BY ServeAdds
<1>2. PICK code \in {Due(r), "refused"} :
        /\ toServer # <<>> /\ UNCHANGED clientVars
        /\ srv' = IF code = "ok" THEN ServerAfter(r) ELSE srv
  BY <1>1, ServeAdds
<1>3. r.step = step /\ srv.accepted < step /\ srv \in Servers /\ step \in Steps
  BY <1>1, <1>2 DEF PaceInv, TypeOK, ClientTyped
<1>4. CASE code # "ok"
  BY <1>2, <1>4 DEF ServerAgrees
<1>5. CASE code = "ok"
  <2>1. srv' = ServerAfter(r) /\ srv'.accepted = step
    BY <1>2, <1>3, <1>5, ServerTyped
  <2>2. step = srv.accepted + 1
    BY <1>2, <1>3, <1>5 DEF Due
  <2>3. srv.accepted \in Nat /\ srv.route \in [Tracks -> Nat]
    BY <1>3 DEF Servers, Routes
  <2>4. \A t \in Tracks : t + 2 <= srv.accepted => srv.route[t] = Expected(t)
    BY DEF ServerAgrees
  <2>5. ASSUME NEW t \in Tracks, t + 2 <= step PROVE srv'.route[t] = Expected(t)
    <3>0. t \in 1..NumTracks /\ NumTracks \in Nat
      BY <1>3, SetupSteps
    <3>1. CASE Method(step) = "SETUP"
      <4>1. PICK v : v = IF UseTCP THEN r.channel ELSE Track(step)
        OBVIOUS
      <4>2. srv'.route = [srv.route EXCEPT ![Track(step)] = v]
        BY <1>3, <2>1, <3>1, <4>1, ServerData
      <4>3. CASE t = Track(step)
        <5>1. srv'.route[t] = v
          BY <2>3, <4>2, <4>3
        <5>2. UseTCP => r.channel = StreamId(Track(step))
          BY <1>1, <1>2, <3>1 DEF ChannelsCounted
        <5>3. QED
          BY <4>1, <4>3, <5>1, <5>2 DEF Expected
      <4>4. CASE t # Track(step)
        <5>1. t + 2 <= srv.accepted
          BY <1>3, <2>2, <2>3, <2>5, <3>0, <4>4, SetupSteps
        <5>2. srv'.route[t] = srv.route[t]
          BY <2>3, <4>2, <4>4
        <5>3. QED
          BY <2>4, <5>1, <5>2
      <4>5. QED
        BY <4>3, <4>4
    <3>2. CASE Method(step) # "SETUP"
      <4>1. srv'.route = srv.route
        BY <1>3, <2>1, <3>2, ServerData
      <4>2. ~(3 <= step /\ step < NumSteps) /\ step \in Nat /\ NumSteps = NumTracks + 3
        BY <1>3, <3>2, SetupSteps
      <4>3. t + 2 <= srv.accepted
        BY <2>2, <2>3, <2>5, <3>0, <4>2
      <4>4. QED
        BY <2>4, <4>1, <4>3
    <3>3. QED
      BY <3>1, <3>2
  <2>6. UNCHANGED step
    BY <1>2 DEF clientVars
  <2>7. QED
    BY <2>1, <2>5, <2>6 DEF ServerAgrees
<1>6. QED
  BY <1>4, <1>5

(* What the manager does between two requests to the routes. *)
LEMMA RoutesExtend ==
  ASSUME TypeOK, Method(step) = "SETUP", RoutesUpTo(step), NEW v,
         route' = [route EXCEPT ![Track(step)] = v], v = Expected(Track(step)), step' = step + 1
  PROVE  RoutesUpTo(step)'
<1>1. step \in Steps /\ route \in [Tracks -> Nat]
  BY DEF TypeOK, ClientTyped, ManagerTyped, Routes
<1>2. \A t \in Tracks : t \in Nat /\ (t + 2 < step => route[t] = Expected(t))
  BY <1>1, SetupSteps DEF RoutesUpTo
<1>3. ASSUME NEW t \in Tracks, t + 2 < step + 1 PROVE route'[t] = Expected(t)
  <2>1. t = Track(step) \/ t + 2 < step
    BY <1>1, <1>2, <1>3, SetupSteps
  <2>2. CASE t = Track(step)
    BY <1>1, <2>2
  <2>3. CASE t # Track(step)
    BY <1>1, <1>2, <2>1, <2>3
  <2>4. QED
    BY <2>2, <2>3
<1>4. QED
  BY <1>3 DEF RoutesUpTo

(* The routes: every action. *)
LEMMA RouteStep ==
  ASSUME TypeOK, SessionInv, PaceInv, CloseInv, RouteInv, [Next]_vars
  PROVE  RouteInv'
<1> DEFINE Excepted == UseTCP /\ Rechallenged("SETUP")
<1>0. /\ step \in Steps /\ step \in Nat /\ NumSteps \in Nat /\ NumSteps = NumTracks + 3
      /\ NumTracks \in {1, 2} /\ Tracks = 1..NumTracks /\ \A t \in Tracks : t \in Nat /\ t <= NumTracks
      /\ TearStep = NumSteps + 1 /\ srv \in Servers
      /\ Method(step) = "SETUP" <=> (3 <= step /\ step < NumSteps)
  BY StepFacts, SetupSteps DEF TypeOK, ClientTyped
<1>1. ASSUME NewAttempt PROVE RouteInv'
  <2>1. /\ pc' = "idle" /\ step' = 1 /\ toServer' = <<>> /\ channels' = 0 /\ srv'.accepted = 0
    BY <1>1, AttemptFresh
  <2>2. Method(step') # "SETUP"
    BY <2>1, StepFacts DEF Steps, TearStep
  <2>3. ServerAgrees'
    BY <1>0, <2>1 DEF ServerAgrees
  <2>4. ChannelsCounted' /\ PortsCarried' /\ ManagerAgrees'
    BY <2>1, <2>2 DEF ChannelsCounted, PortsCarried, ManagerAgrees
  <2>5. QED
    BY <2>3, <2>4 DEF RouteInv
<1>2. ASSUME srv'.protected = srv.protected,
             ~Excepted => ServerAgrees' /\ ChannelsCounted' /\ PortsCarried' /\ ManagerAgrees'
      PROVE  RouteInv'
  BY <1>2 DEF RouteInv, Rechallenged
<1>3. ~Excepted => ServerAgrees /\ ChannelsCounted /\ PortsCarried /\ ManagerAgrees
  BY DEF RouteInv
<1> HIDE DEF Excepted
<1>4. ASSUME Serve PROVE RouteInv'
  <2>0. PICK r \in Requests : r = Head(toServer)
    BY <1>4, ServeAdds
  <2>1. PICK code \in {Due(r), "refused"} :
           /\ toServer # <<>> /\ toServer' = <<>> /\ UNCHANGED clientVars
           /\ srv' = IF code = "ok" THEN ServerAfter(r) ELSE srv
           /\ Behind => Behind'
           /\ \A i \in DOMAIN toClient' : toClient'[i].code # "garbled" =>
                /\ toClient'[i].code = code
                /\ code = "ok" /\ Method(r.step) = "SETUP" =>
                     (~UseTCP => toClient'[i].port = Track(r.step))
                /\ toClient'[i].whole
                     \/ (i + 1 \in DOMAIN toClient' /\ toClient'[i + 1].code = "garbled")
    BY <1>4, <2>0, ServeAdds
  <2>2. r.step = step
    BY <2>0, <2>1 DEF PaceInv
  <2>3. UNCHANGED <<pc, step, channels, ret, route>>
    BY <2>1 DEF clientVars
  <2>4. srv'.protected = srv.protected
    BY <1>0, <2>1, ServerTyped
  <2>5. ASSUME ~Excepted PROVE ServerAgrees' /\ ChannelsCounted' /\ PortsCarried' /\ ManagerAgrees'
    <3>1. ServerAgrees /\ ChannelsCounted /\ PortsCarried /\ ManagerAgrees
      BY <1>3, <2>5
    <3>2. ServerAgrees'
      BY <1>4, <3>1, ServerAgreesServe
    <3>3. ChannelsCounted'
      BY <2>1, <2>3, <3>1 DEF ChannelsCounted, Method, NumSteps, TearStep
    <3>4. PortsCarried'
      BY <2>1, <2>2, <2>3 DEF PortsCarried
    <3>5. ManagerAgrees'
      BY <2>1, <2>3, <3>1 DEF ManagerAgrees, RoutesUpTo
    <3>6. QED
      BY <3>2, <3>3, <3>4, <3>5
  <2>6. QED
    BY <1>2, <2>4, <2>5
<1>5. ASSUME Report PROVE RouteInv'
  <2>1. /\ UseTCP /\ UNCHANGED <<pc, step, channels, ret, route, toServer>>
        /\ srv'.accepted = srv.accepted /\ srv'.protected = srv.protected /\ srv'.route = srv.route
    BY <1>5, ReportAdds DEF clientVars
  <2>2. ASSUME ~Excepted PROVE ServerAgrees' /\ ChannelsCounted' /\ PortsCarried' /\ ManagerAgrees'
    <3>1. ServerAgrees /\ ChannelsCounted /\ PortsCarried /\ ManagerAgrees
      BY <1>3, <2>2
    <3>2. ServerAgrees' /\ PortsCarried'
      BY <2>1, <3>1 DEF ServerAgrees, PortsCarried
    <3>3. ChannelsCounted'
      BY <2>1, <3>1 DEF ChannelsCounted, Method, NumSteps, TearStep
    <3>4. ManagerAgrees'
      BY <2>1, <3>1 DEF ManagerAgrees, RoutesUpTo
    <3>5. QED
      BY <3>2, <3>3, <3>4
  <2>3. QED
    BY <1>2, <2>1, <2>2
<1>6. ASSUME Send PROVE RouteInv'
  <2>1. /\ pc = "send" /\ toServer = <<>> /\ NoAnswerYet /\ channels' = Composed
        /\ UNCHANGED <<step, route, toClient, srv>>
        /\ \/ pc' = "read" /\ Head(toServer') = Request
           \/ pc' = "returned" /\ ret'.code # "ok" /\ UNCHANGED toServer
    BY <1>6, SendTakes, FailureReturned
  <2>2. ASSUME ~Excepted PROVE ServerAgrees' /\ ChannelsCounted' /\ PortsCarried' /\ ManagerAgrees'
    <3>1. ServerAgrees /\ ChannelsCounted /\ PortsCarried /\ ManagerAgrees
      BY <1>3, <2>2
    <3>2. ServerAgrees'
      BY <2>1, <3>1 DEF ServerAgrees
    <3>3. Request.channel = channels
      BY DEF Request
    <3>4. UseTCP => /\ Method(step) # "SETUP" => channels' = channels
                    /\ Method(step) = "SETUP" => /\ channels = StreamId(Track(step)) + 0
                                                 /\ channels' = channels + 2
      BY <2>1, <3>1 DEF Composed, ChannelsCounted
    <3>5. Method(step) = "SETUP" => StreamId(Track(step)) \in Nat
      BY <1>0, SetupSteps DEF StreamId
    <3>6. ChannelsCounted'
      BY <2>1, <3>1, <3>3, <3>4, <3>5 DEF ChannelsCounted
    <3>7. PortsCarried'
      BY <2>1 DEF PortsCarried, NoAnswerYet
    <3>8. ManagerAgrees'
      BY <2>1, <3>1 DEF ManagerAgrees, RoutesUpTo, Behind
    <3>9. QED
      BY <3>2, <3>6, <3>7, <3>8
  <2>3. QED
    BY <1>2, <2>1, <2>2
<1>7. ASSUME ReadFails PROVE RouteInv'
  <2>1. /\ pc = "read" /\ pc' = "returned" /\ ret'.code # "ok"
        /\ UNCHANGED <<step, channels, route, toServer, toClient, srv>>
    BY <1>7, Failing, FailureReturned
  <2>2. ASSUME ~Excepted PROVE ServerAgrees' /\ ChannelsCounted' /\ PortsCarried' /\ ManagerAgrees'
    <3>1. ServerAgrees /\ ChannelsCounted
      BY <1>3, <2>2
    <3>2. ServerAgrees' /\ PortsCarried' /\ ManagerAgrees'
      BY <2>1, <3>1 DEF ServerAgrees, PortsCarried, ManagerAgrees
    <3>3. ChannelsCounted'
      BY <2>1, <3>1 DEF ChannelsCounted, Method, NumSteps, TearStep
    <3>4. QED
      BY <3>2, <3>3
  <2>3. QED
    BY <1>2, <2>1, <2>2
<1>8. ASSUME Read PROVE RouteInv'
  <2>1. PICK a \in Answers :
           /\ pc = "read" /\ UNCHANGED <<step, channels, route, toServer, srv>>
           /\ IF Retries(a) THEN pc' = "send" ELSE pc' = "returned" /\ ret' = a
           /\ 1 \in DOMAIN toClient
           /\ a.code = toClient[1].code /\ a.port = toClient[1].port
           /\ toClient[1].whole => a.whole
           /\ ~a.whole /\ a.code # "garbled" /\ 2 \in DOMAIN toClient =>
                1 \in DOMAIN toClient' /\ toClient'[1] = toClient[2]
    BY <1>8, ReadTakes DEF Return
  <2>2. ASSUME ~Excepted PROVE ServerAgrees' /\ ChannelsCounted' /\ PortsCarried' /\ ManagerAgrees'
    <3>1. ServerAgrees /\ ChannelsCounted /\ PortsCarried /\ ManagerAgrees
      BY <1>3, <2>2
    <3>2. ServerAgrees' /\ PortsCarried'
      BY <2>1, <3>1 DEF ServerAgrees, PortsCarried
    <3>3. Retries(a) /\ UseTCP => Method(step) # "SETUP"
      <4>1. SUFFICES ASSUME Retries(a), UseTCP, Method(step) = "SETUP" PROVE FALSE
        OBVIOUS
      <4>2. Answered("unauthorized")
        BY <2>1, <4>1 DEF Retries, Answered
      <4>3. step > 2
        BY <1>0, <4>1
      <4>4. "SETUP" \in srv.protected /\ ~KeptCredentials
        BY <2>1, <4>1, <4>2, <4>3 DEF CloseInv
      <4>5. QED
        BY <2>2, <4>1, <4>4 DEF Excepted, Rechallenged, KeptCredentials
    <3>4. ChannelsCounted'
      BY <2>1, <3>1, <3>3 DEF ChannelsCounted
    <3>5. step <= NumSteps => RoutesUpTo(step) \/ (~UseTCP /\ toClient[1].code = "garbled")
      BY <2>1, <3>1 DEF ManagerAgrees, Behind
    <3>6. ASSUME a.code = "ok", Method(step) = "SETUP", ~UseTCP
          PROVE  (a.whole /\ a.port = Track(step)) \/ Behind'
      <4>1. \A i \in DOMAIN toClient : toClient[i].code = "ok" =>
              /\ toClient[i].port = Track(step)
              /\ toClient[i].whole \/ (i + 1 \in DOMAIN toClient /\ toClient[i + 1].code = "garbled")
        BY <2>1, <3>1, <3>6 DEF PortsCarried
      <4>2. toClient[1].code = "ok" /\ 1 \in DOMAIN toClient /\ 1 + 1 = 2
        BY <2>1, <3>6
      <4>3. /\ toClient[1].port = Track(step)
            /\ toClient[1].whole \/ (1 + 1 \in DOMAIN toClient /\ toClient[1 + 1].code = "garbled")
        BY <4>1, <4>2
      <4>4. QED
        BY <2>1, <3>6, <4>2, <4>3 DEF Behind
    <3>7. UNCHANGED route /\ UNCHANGED step
      BY <2>1
    <3>8. RoutesUpTo(step) => RoutesUpTo(step)'
      BY <3>7 DEF RoutesUpTo
    <3>9. Retries(a) => a.code = "unauthorized"
      BY DEF Retries
    <3>10. ManagerAgrees'
      BY <2>1, <3>5, <3>6, <3>8, <3>9 DEF ManagerAgrees
    <3>11. QED
      BY <3>2, <3>4, <3>10
  <2>3. QED
    BY <1>2, <2>1, <2>2
<1>9. ASSUME SetupDone PROVE RouteInv'
  <2>1. /\ pc = "returned" /\ ret.code = "ok" /\ Method(step) = "SETUP"
        /\ UNCHANGED <<channels, toServer, toClient, srv>> /\ toServer = <<>>
    BY <1>9 DEF SetupDone, SessionInv, OneOutstanding
  <2>2. /\ step # NumSteps /\ 3 <= step /\ step < NumSteps /\ step + 1 \in Steps
        /\ Track(step) = step - 2 /\ Track(step + 1) = step - 1
    BY <1>0, <2>1 DEF Steps, Track
  <2>3. ASSUME ~Excepted PROVE ServerAgrees' /\ ChannelsCounted' /\ PortsCarried' /\ ManagerAgrees'
    <3>1. ServerAgrees /\ ChannelsCounted /\ PortsCarried /\ ManagerAgrees
      BY <1>3, <2>3
    <3>2. ServerAgrees'
      BY <2>1, <3>1 DEF ServerAgrees
    <3>3. RoutesUpTo(step)
      BY <1>0, <2>1, <2>2, <3>1 DEF ManagerAgrees
    <3>4. CASE UseTCP
      <4>1. /\ route' = [route EXCEPT ![Track(step)] = StreamId(Track(step))]
            /\ pc' = "send" /\ step' = step + 1
        BY <1>9, <2>2, <3>4 DEF SetupDone, Continue
      <4>2. RoutesUpTo(step)'
        BY <2>1, <3>3, <3>4, <4>1, RoutesExtend DEF Expected
      <4>3. channels = StreamId(Track(step)) + 2
        BY <2>1, <3>1, <3>4 DEF ChannelsCounted
      <4>4. channels = StreamId(Track(step + 1)) + 0
        BY <1>0, <2>2, <4>3 DEF StreamId
      <4>5. ~(step + 1 < 3)
        BY <1>0, <2>2
      <4>6. ChannelsCounted'
        BY <2>1, <4>1, <4>4, <4>5 DEF ChannelsCounted
      <4>7. PortsCarried' /\ ManagerAgrees'
        BY <4>1, <4>2 DEF PortsCarried, ManagerAgrees
      <4>8. QED
        BY <3>2, <4>6, <4>7
    <3>5. CASE ~UseTCP
      <4>1. \/ /\ route' = [route EXCEPT ![Track(step)] = PortsAfter]
               /\ pc' = "send" /\ step' = step + 1
            \/ pc' = "crashed"
        BY <1>9, <2>2, <3>5 DEF SetupDone, Continue
      <4>2. (ret.whole /\ ret.port = Track(step)) \/ Behind
        BY <1>0, <2>1, <2>2, <3>1, <3>5 DEF ManagerAgrees
      <4>3. Behind => Behind'
        BY <2>1 DEF Behind
      <4>4. ret.whole /\ ret.port = Track(step) => PortsAfter = Track(step)
        <5>1. Track(step) # 0
          BY <1>0, <2>2
        <5>2. QED
          BY <5>1 DEF PortsAfter
      <4>5. pc' # "crashed" => RoutesUpTo(step)' \/ Behind'
        BY <2>1, <3>3, <3>5, <4>1, <4>2, <4>3, <4>4, RoutesExtend DEF Expected
      <4>6. ManagerAgrees'
        BY <3>5, <4>1, <4>5 DEF ManagerAgrees
      <4>7. ChannelsCounted' /\ PortsCarried'
        BY <3>5, <4>1 DEF ChannelsCounted, PortsCarried
      <4>8. QED
        BY <3>2, <4>6, <4>7
    <3>6. QED
      BY <3>4, <3>5
  <2>4. QED
    BY <1>2, <2>1, <2>3
<1>10. ASSUME StepDone PROVE RouteInv'
  <2>1. /\ pc = "returned" /\ ret.code = "ok" /\ UNCHANGED <<channels, route, toServer, toClient, srv>>
        /\ toServer = <<>> /\ step \in {1, 2, NumSteps}
        /\ IF step = NumSteps THEN pc' = "up" /\ step' = step ELSE pc' = "send" /\ step' = step + 1
    BY <1>10, StepFacts DEF StepDone, Continue, SessionInv, OneOutstanding, TypeOK, ClientTyped
  <2>2. ASSUME ~Excepted PROVE ServerAgrees' /\ ChannelsCounted' /\ PortsCarried' /\ ManagerAgrees'
    <3>1. ServerAgrees /\ ChannelsCounted /\ PortsCarried /\ ManagerAgrees
      BY <1>3, <2>2
    <3>2. ServerAgrees' /\ PortsCarried'
      BY <2>1, <3>1 DEF ServerAgrees, PortsCarried
    <3>3. CASE step = NumSteps
      <4>1. RoutesUpTo(NumSteps)
        BY <1>0, <2>1, <3>1, <3>3 DEF ManagerAgrees
      <4>2. ManagerAgrees'
        BY <2>1, <3>3, <4>1 DEF ManagerAgrees, RoutesUpTo
      <4>3. ChannelsCounted'
        BY <1>0, <2>1, <3>1, <3>3 DEF ChannelsCounted
      <4>4. QED
        BY <3>2, <4>2, <4>3
    <3>4. CASE step \in {1, 2}
      <4>1. pc' = "send" /\ step' = step + 1 /\ step' <= 3 /\ step' \in Nat /\ step' \in Steps
        BY <1>0, <2>1, <3>4 DEF Steps
      <4>2. RoutesUpTo(step)'
        BY <1>0, <4>1 DEF RoutesUpTo
      <4>3. UseTCP => channels' = 0
        BY <1>0, <2>1, <3>1, <3>4 DEF ChannelsCounted
      <4>4. Method(step') = "SETUP" => StreamId(Track(step')) + 0 = 0
        BY <4>1, SetupSteps DEF StreamId
      <4>5. ChannelsCounted'
        BY <2>1, <4>1, <4>3, <4>4 DEF ChannelsCounted
      <4>6. ManagerAgrees'
        BY <4>1, <4>2 DEF ManagerAgrees
      <4>7. QED
        BY <3>2, <4>5, <4>6
    <3>5. QED
      BY <2>1, <3>3, <3>4
  <2>3. QED
    BY <1>2, <2>1, <2>2
<1>11. ASSUME ConnectTo \/ GiveUp \/ TornDown \/ Disconnect PROVE RouteInv'
  <2>1. UNCHANGED <<channels, route, toServer, toClient, srv>>
    BY <1>11 DEF ConnectTo, GiveUp, TornDown, Disconnect
  <2>2. \/ pc = "idle" /\ step = 1 /\ pc' \in {"send", "failed"} /\ step' = step
        \/ pc = "returned" /\ pc' \in {"denied", "failed", "closed"} /\ step' = step
        \/ pc = "up" /\ pc' = "send" /\ step' = TearStep
        \/ pc = "up" /\ pc' = "dropped" /\ step' = step
    BY <1>11 DEF ConnectTo, GiveUp, TornDown, Disconnect, SessionInv, CallsBegin
  <2>3. ASSUME ~Excepted PROVE ServerAgrees' /\ ChannelsCounted' /\ PortsCarried' /\ ManagerAgrees'
    <3>1. ServerAgrees /\ ChannelsCounted
      BY <1>3, <2>3
    <3>2. ServerAgrees' /\ PortsCarried'
      BY <2>1, <2>2, <3>1 DEF ServerAgrees, PortsCarried
    <3>3. step = 1 => Method(step) # "SETUP" /\ RoutesUpTo(step)
      BY <1>0 DEF RoutesUpTo
    <3>4. TearStep \in Steps /\ Method(TearStep) # "SETUP" /\ ~(TearStep < 3) /\ ~(TearStep <= NumSteps)
      BY <1>0, SetupSteps DEF Steps
    <3>5. ChannelsCounted'
      BY <2>1, <2>2, <3>1, <3>3, <3>4 DEF ChannelsCounted
    <3>6. RoutesUpTo(step) /\ step' = step => RoutesUpTo(step)'
      BY <2>1 DEF RoutesUpTo
    <3>7. ManagerAgrees'
      BY <2>1, <2>2, <3>3, <3>4, <3>6 DEF ManagerAgrees
    <3>8. QED
      BY <3>2, <3>5, <3>7
  <2>4. QED
    BY <1>2, <2>1, <2>3
<1>12. CASE UNCHANGED vars
  BY <1>12 DEF vars, clientVars, RouteInv, ServerAgrees, ChannelsCounted, PortsCarried, ManagerAgrees,
    Rechallenged, RoutesUpTo, Behind
<1>13. QED
  BY <1>1, <1>4, <1>5, <1>6, <1>7, <1>8, <1>9, <1>10, <1>11, <1>12 DEF Next, ClientStep

(* A connection just allocated meets the four invariants. *)
LEMMA StartInit == Init => PaceInv /\ CloseInv /\ CarryInv /\ RouteInv
<1> SUFFICES ASSUME Init PROVE PaceInv /\ CloseInv /\ CarryInv /\ RouteInv
  OBVIOUS
<1>1. /\ pc = "idle" /\ step = 1 /\ depth = 0 /\ closes = 0 /\ channels = 0
      /\ toServer = <<>> /\ DOMAIN toClient = {} /\ srv \in FreshServer
  BY DEF Init
<1>2. srv.accepted = 0 /\ srv.session = FALSE
  BY <1>1 DEF FreshServer
<1>3. NumSteps > 3 /\ TearStep > 1 /\ Method(1) # "SETUP" /\ Tracks \subseteq Nat
  BY StepFacts DEF Method, Tracks
<1>4. PaceInv
  BY <1>1, <1>2 DEF PaceInv
<1>5. CloseInv
  BY <1>1, <1>3 DEF CloseInv, SocketClosedOnce
<1>6. CarryInv
  BY <1>1, <1>2 DEF CarryInv
<1>7. ServerAgrees
  BY <1>2, <1>3 DEF ServerAgrees
<1>8. ChannelsCounted /\ PortsCarried /\ ManagerAgrees
  BY <1>1, <1>3 DEF ChannelsCounted, PortsCarried, ManagerAgrees
<1>9. QED
  BY <1>4, <1>5, <1>6, <1>7, <1>8 DEF RouteInv

(* The whole invariant, from which the properties of the connection follow. *)
WireInv == TypeOK /\ SessionInv /\ PaceInv /\ CloseInv /\ CarryInv /\ RouteInv

(* Every state of every connection meets it. *)
LEMMA WireAlways == Spec => []WireInv
<1>1. Init => WireInv
  BY InitTyped, SessionInit, StartInit DEF WireInv
<1>2. WireInv /\ [Next]_vars => WireInv'
  BY NextTyped, SessionStep, PaceStep, CloseStep, CarryStep, RouteStep DEF WireInv
<1>3. QED
  BY <1>1, <1>2, PTL DEF Spec

(* teardown closes the socket once, whatever the server challenges, unless  *)
(* it challenges TEARDOWN of a client that has kept no credentials for it.  *)
THEOREM SocketOnce == Spec => []SocketClosedOnce
<1>1. WireInv => SocketClosedOnce
  BY DEF WireInv, CloseInv
<1>2. QED
  BY <1>1, WireAlways, PTL

(* Where answers arrive whole, every request sent after the server has      *)
(* opened a session carries its id, retries and lost answers included.      *)
THEOREM SessionAlwaysCarried == Spec => []SessionCarried
<1>1. ASSUME WireInv PROVE SessionCarried
  <2>1. SUFFICES ASSUME NEW i \in DOMAIN toServer, srv.session, ~Splits
                 PROVE  toServer[i].session
    BY DEF SessionCarried
  <2>2. toServer \in Seq(Requests) /\ Len(toServer) <= 1 /\ Len(toServer) \in Nat
    BY <1>1 DEF WireInv, TypeOK, WireTyped, SessionInv, OneOutstanding
  <2>3. i = 1 /\ toServer # <<>> /\ Head(toServer) = toServer[1]
    BY <2>1, <2>2
  <2>4. srv.accepted >= 3 /\ srv.accepted < step /\ step \in Nat /\ srv.accepted \in Nat
    BY <1>1, <2>1, <2>3, StepFacts DEF WireInv, CarryInv, PaceInv, TypeOK, ClientTyped, Servers
  <2>5. step > 3
    BY <2>4
  <2>6. Head(toServer).session
    BY <1>1, <2>1, <2>3, <2>5 DEF WireInv, CarryInv
  <2>7. QED
    BY <2>3, <2>6
<1>2. QED
  BY <1>1, WireAlways, PTL

(* While streaming, every track is sent where the server expects it, over   *)
(* either transport and for one track or two, unless SETUP was challenged   *)
(* over TCP.                                                                *)
THEOREM RoutesAlwaysAgree == Spec => []RoutesAgree
<1>1. ASSUME WireInv PROVE RoutesAgree
  <2>1. SUFFICES ASSUME pc = "up", ~(UseTCP /\ Rechallenged("SETUP")) PROVE route = srv.route
    BY DEF RoutesAgree
  <2>2. ServerAgrees /\ RoutesUpTo(NumSteps)
    BY <1>1, <2>1 DEF WireInv, RouteInv, ManagerAgrees
  <2>3. srv.accepted >= NumSteps
    BY <1>1, <2>1, PhaseFacts DEF WireInv, SessionInv, OkIsAccepted
  <2>4. route \in [Tracks -> Nat] /\ srv.route \in [Tracks -> Nat] /\ srv.accepted \in Nat
    BY <1>1 DEF WireInv, TypeOK, ManagerTyped, Servers, Routes
  <2>5. \A t \in Tracks : t + 2 < NumSteps /\ t + 2 <= srv.accepted
    BY <2>3, <2>4, StepFacts DEF Tracks
  <2>6. \A t \in Tracks : route[t] = srv.route[t]
    BY <2>2, <2>5 DEF ServerAgrees, RoutesUpTo
  <2>7. QED
    BY <2>4, <2>6
<1>2. QED
  BY <1>1, WireAlways, PTL


=============================================================================
