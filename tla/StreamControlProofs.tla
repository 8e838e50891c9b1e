------------------------ MODULE StreamControlProofs ------------------------
(***************************************************************************)
(* Proofs about StreamControl: with one hand on the button, whatever runs  *)
(* is shown and a stop is heard, for all delays and bounds.                *)
(***************************************************************************)
EXTENDS StreamControl, SequenceTheorems, TLAPS

-----------------------------------------------------------------------------
(* The inductive invariant *)

Encoding == enc.avc \/ enc.capture \/ enc.aac \/ enc.monitor

(* The button is not selected: nothing runs and nothing is on its way.     *)
(* Only a start may be awaiting its handshake, with the button disabled,   *)
(* no stop asked for, its countdown under way and one stopStream pending.  *)
AtRest ==
  /\ ~on /\ inbox = <<>> /\ ~Encoding
  /\ giveUps # {} => ~button.enabled /\ ~countdown.tryToStop /\ countdown.timer
  /\ \A g, h \in giveUps : g = h

(* The broadcaster has a message out that it has started, and perhaps one  *)
(* that it has failed since; the button stays disabled until the first.    *)
Starting ==
  /\ ~button.enabled /\ ~countdown.tryToStop
  /\ \/ on /\ inbox = <<"started">>
     \/ ~on /\ inbox = <<"started", "error">>

Live == on /\ inbox = <<>>

(* The last message of a stream is out; after a stop only the monitor can  *)
(* still be running.                                                       *)
Ending ==
  /\ ~on
  /\ \/ inbox \in {<<"error">>, <<"badpass">>}
     \/ inbox = <<"stopped">> /\ ~enc.avc /\ ~enc.capture /\ ~enc.aac

ControlInv ==
  OneHand =>
    /\ ~button.selected => AtRest
    /\ button.selected => giveUps = {} /\ (Starting \/ Live \/ Ending)
    /\ on => countdown.timer
    /\ alerts = {}

-----------------------------------------------------------------------------
(* Types *)

Messages == {"started", "badpass", "error", "connect", "stopped"}

(* What the parts of TypeOK say of the records. *)
Profiles == [useTCP : BOOLEAN, autoRestart : BOOLEAN]
Buttons == [enabled : BOOLEAN, selected : BOOLEAN]
Countdowns ==
  [timer : BOOLEAN, lost : 0 .. MaxTimers - 1, due : 0 .. MaxTimers,
   throttleCount : 0 .. Throttle, tryToStop : BOOLEAN]
Services == [streaming : BOOLEAN, requests : 0 .. MaxRequests, updates : 0 .. MaxRequests]
Encoders == [avc : BOOLEAN, capture : BOOLEAN, aac : BOOLEAN, monitor : BOOLEAN]

(* The constants are positive. *)
LEMMA Constants ==
  /\ Throttle \in Nat \ {0} /\ GiveUp \in Nat \ {0} /\ RestartDelay \in Nat \ {0}
  /\ MaxRequests \in Nat \ {0} /\ MaxTimers \in Nat \ {0} /\ MaxInbox \in Nat \ {0}
  BY ControlAssumption DEF ControlAssumption

(* What connect: tells is a sequence of messages. *)
LEMMA ToldTyped == \A told \in Outcomes \cup {<<>>} : told \in Seq(Messages)
<1>1. /\ <<"started">> \in Seq(Messages) /\ <<"badpass">> \in Seq(Messages)
      /\ <<"error">> \in Seq(Messages) /\ <<"error", "connect">> \in Seq(Messages)
      /\ <<>> \in Seq(Messages)
  BY DEF Messages
<1> QED
  BY <1>1 DEF Outcomes

(* connect: and disconnect keep the broadcaster's variables in their types. *)
LEMMA BroadcasterTyped ==
  ASSUME TypeOK, connect \/ disconnect
  PROVE  on' \in BOOLEAN /\ inbox' \in Seq(Messages)
<1>1. on \in BOOLEAN /\ inbox \in Seq(Messages)
  BY DEF TypeOK, Messages
<1>2. CASE disconnect
  <2>1. Append(inbox, "stopped") \in Seq(Messages)
    BY <1>1 DEF Messages
  <2>2. CASE on' = FALSE /\ inbox' = Append(inbox, "stopped")
    BY <2>1, <2>2
  <2>3. CASE UNCHANGED <<on, inbox>>
    BY <1>1, <2>3
  <2> QED
    BY <1>2, <2>2, <2>3 DEF disconnect
<1>3. CASE connect
  <2>1. \A told \in Outcomes : told \in Seq(Messages)
    BY ToldTyped
  <2>2. CASE on
    BY <1>1, <1>3, <2>2 DEF connect
  <2>3. ASSUME NEW told \in Outcomes, on' = (told = <<"started">>), inbox' = inbox \o told
        PROVE  on' \in BOOLEAN /\ inbox' \in Seq(Messages)
    BY <1>1, <2>1, <2>3
  <2> QED
    BY <1>3, <2>2, <2>3 DEF connect
<1> QED
  BY <1>2, <1>3

(* stopStream keeps every variable in its type. *)
LEMMA StopTyped ==
  ASSUME TypeOK, NEW C \in Countdowns, stopStream(C)
  PROVE  /\ countdown' \in Countdowns /\ service' \in Services /\ enc' \in Encoders
         /\ button' \in Buttons /\ on' \in BOOLEAN /\ inbox' \in Seq(Messages)
         /\ late' \in BOOLEAN
<1>1. countdown' \in Countdowns
  BY DEF stopStream, Countdowns
<1>2. service' \in Services /\ enc' \in Encoders /\ button' \in Buttons /\ late' \in BOOLEAN
  BY DEF stopStream, TypeOK, Services, Encoders, Buttons, EncodersOff, Stopped
<1>3. on' \in BOOLEAN /\ inbox' \in Seq(Messages)
  BY BroadcasterTyped DEF stopStream
<1> QED
  BY <1>1, <1>2, <1>3

(* And so does what the button does, whoever presses it. *)
LEMMA ToggleTyped ==
  ASSUME TypeOK, toggleBroadcast
  PROVE  /\ countdown' \in Countdowns /\ service' \in Services /\ enc' \in Encoders
         /\ button' \in Buttons /\ on' \in BOOLEAN /\ inbox' \in Seq(Messages)
         /\ late' \in BOOLEAN /\ giveUps' \subseteq 0 .. GiveUp
<1> USE Constants
<1>0. /\ countdown \in Countdowns /\ service \in Services /\ enc \in Encoders
      /\ button \in Buttons /\ on \in BOOLEAN /\ inbox \in Seq(Messages)
      /\ late \in BOOLEAN /\ giveUps \subseteq 0 .. GiveUp
  BY DEF TypeOK, Countdowns, Services, Encoders, Buttons, Messages
<1>1. CASE ~reachable /\ button' = [button EXCEPT !.enabled = FALSE]
           /\ UNCHANGED <<countdown, giveUps, service, on, inbox, enc, late>>
  BY <1>0, <1>1 DEF Buttons
<1>2. CASE /\ button' = [button EXCEPT !.enabled = FALSE]
           /\ service' = [service EXCEPT !.requests = IF @ < MaxRequests THEN @ + 1 ELSE @]
           /\ giveUps' = giveUps \cup {GiveUp}
           /\ countdown' = NewCountdown(countdown)
           /\ UNCHANGED <<on, inbox, enc, late>>
  <2>1. button' \in Buttons
    BY <1>0, <1>2 DEF Buttons
  <2>2. service' \in Services
    BY <1>0, <1>2 DEF Services
  <2>3. countdown' \in Countdowns
    <3>1. countdown.lost \in 0 .. MaxTimers - 1 /\ countdown.due \in 0 .. MaxTimers
      BY <1>0 DEF Countdowns
    <3> DEFINE lost == IF countdown.timer /\ countdown.lost + 1 < MaxTimers
                       THEN countdown.lost + 1 ELSE countdown.lost
    <3>2. lost \in 0 .. MaxTimers - 1 /\ Throttle \in 0 .. Throttle
      BY <3>1
    <3>3. countdown' = [countdown EXCEPT !.timer = TRUE, !.throttleCount = Throttle,
                                         !.tryToStop = FALSE, !.lost = lost]
      BY <1>2 DEF NewCountdown
    <3> HIDE DEF lost
    <3> QED
      BY <1>0, <3>2, <3>3 DEF Countdowns
  <2>4. giveUps' \subseteq 0 .. GiveUp
    BY <1>0, <1>2
  <2> QED
    BY <1>0, <1>2, <2>1, <2>2, <2>3, <2>4
<1>3. CASE stopStream(countdown) /\ UNCHANGED giveUps
  BY <1>0, <1>3, StopTyped
<1>4. CASE /\ button' = [button EXCEPT !.enabled = FALSE]
           /\ countdown' = [countdown EXCEPT !.tryToStop = TRUE]
           /\ UNCHANGED <<giveUps, service, on, inbox, enc, late>>
  BY <1>0, <1>4 DEF Buttons, Countdowns
<1> QED
  BY <1>1, <1>2, <1>3, <1>4 DEF toggleBroadcast

(* Every step keeps the types. *)
LEMMA TypeStep == TypeOK /\ [Next]_vars => TypeOK'
<1> SUFFICES ASSUME TypeOK, [Next]_vars PROVE TypeOK'
  OBVIOUS
<1> USE Constants
<1>0. /\ countdown \in Countdowns /\ service \in Services /\ enc \in Encoders
      /\ button \in Buttons /\ on \in BOOLEAN /\ inbox \in Seq(Messages)
      /\ late \in BOOLEAN /\ giveUps \subseteq 0 .. GiveUp
      /\ profile \in Profiles /\ reachable \in BOOLEAN /\ alerts \subseteq 0 .. RestartDelay
  BY DEF TypeOK, Countdowns, Services, Encoders, Buttons, Messages, Profiles
<1>Q. SUFFICES /\ countdown' \in Countdowns /\ service' \in Services /\ enc' \in Encoders
               /\ button' \in Buttons /\ on' \in BOOLEAN /\ inbox' \in Seq(Messages)
               /\ late' \in BOOLEAN /\ giveUps' \subseteq 0 .. GiveUp
               /\ profile' \in Profiles /\ reachable' \in BOOLEAN
               /\ alerts' \subseteq 0 .. RestartDelay
  BY DEF TypeOK, Countdowns, Services, Encoders, Buttons, Messages, Profiles
<1>1. CASE Press
  BY <1>0, <1>1, ToggleTyped DEF Press, settings
<1>2. CASE CancelRestart
  BY <1>0, <1>2 DEF CancelRestart, settings
<1>3. CASE throttleCountDown
  <2> DEFINE C == [countdown EXCEPT !.due = @ - 1]
  <2>1. countdown.due > 0 /\ C \in Countdowns
    BY <1>0, <1>3 DEF throttleCountDown, Countdowns
  <2>2. UNCHANGED <<settings, giveUps, alerts>>
    BY <1>3 DEF throttleCountDown
  <2>3. CASE stopStream(C)
    BY <1>0, <2>1, <2>2, <2>3, StopTyped DEF settings
  <2>4. CASE countdown' = CountedDown(C) /\ UNCHANGED <<button, service, on, inbox, enc, late>>
    <3>1. countdown' \in Countdowns
      <4>1. CASE C.throttleCount > 0 /\ countdown' = [C EXCEPT !.throttleCount = @ - 1]
        <5>1. C.throttleCount - 1 \in 0 .. Throttle
          BY <2>1, <4>1 DEF Countdowns
        <5> HIDE DEF C
        <5> QED
          BY <2>1, <4>1, <5>1 DEF Countdowns
      <4>2. CASE countdown' = C
        BY <2>1, <4>2
      <4> QED
        BY <2>4, <4>1, <4>2 DEF CountedDown
    <3> QED
      BY <1>0, <2>2, <2>4, <3>1 DEF settings
  <2> QED
    BY <1>3, <2>3, <2>4 DEF throttleCountDown
<1>4. CASE GivenUp
  BY <1>0, <1>4, StopTyped DEF GivenUp, settings
<1>5. CASE Restart
  BY <1>0, <1>5, ToggleTyped DEF Restart, settings
<1>6. CASE Tick
  <2>1. countdown' \in Countdowns
    BY <1>0, <1>6 DEF Tick, Countdowns
  <2>2. giveUps' \subseteq 0 .. GiveUp
    BY <1>0, <1>6 DEF Tick
  <2>3. alerts' \subseteq 0 .. RestartDelay
    BY <1>0, <1>6 DEF Tick
  <2> QED
    BY <1>0, <1>6, <2>1, <2>2, <2>3 DEF Tick, settings
<1>7. CASE Handle
  <2>1. UNCHANGED <<settings, countdown, giveUps, service, late>> /\ inbox # <<>>
    BY <1>7 DEF Handle
  <2>2. Tail(inbox) \in Seq(Messages)
    BY <1>0, <2>1
  <2>3. CASE Head(inbox) = "connect" /\ UNCHANGED <<button, alerts, enc>>
    <3>1. \A told \in Outcomes \cup {<<>>} : told \in Seq(Messages)
      BY ToldTyped
    <3>2. PICK told \in Outcomes \cup {<<>>} :
            on' = (on \/ told = <<"started">>) /\ inbox' = Tail(inbox) \o told
      BY <1>7, <2>3 DEF Handle, StreamStopped, StreamError, InvalidUserPass, StreamStarted
    <3> QED
      BY <1>0, <2>1, <2>2, <2>3, <3>1, <3>2 DEF settings
  <2>4. CASE StreamStopped \/ StreamError \/ InvalidUserPass \/ StreamStarted
    <3>1. enc' \in Encoders
      BY <1>0, <2>4 DEF StreamStopped, StreamError, InvalidUserPass, StreamStarted, Encoders,
                       NoMonitor, AfterError, EncodersOff, Profiles
    <3>2. button' \in Buttons
      <4>1. CASE button' = Deselected(button)
        BY <4>1 DEF Deselected, Buttons
      <4>2. CASE button' = [enabled |-> TRUE, selected |-> TRUE]
        BY <4>2 DEF Buttons
      <4> QED
        BY <2>4, <4>1, <4>2 DEF StreamStopped, StreamError, InvalidUserPass, StreamStarted
    <3>3. alerts' \subseteq 0 .. RestartDelay
      BY <1>0, <2>4 DEF StreamStopped, StreamError, InvalidUserPass, StreamStarted
    <3>4. on' \in BOOLEAN /\ inbox' \in Seq(Messages)
      <4>1. CASE UNCHANGED on /\ inbox' = Tail(inbox)
        BY <1>0, <2>2, <4>1
      <4>2. CASE Head(inbox) = "connect" /\ UNCHANGED <<button, alerts, enc>>
        <5>1. \A told \in Outcomes \cup {<<>>} : told \in Seq(Messages)
          BY ToldTyped
        <5>2. PICK told \in Outcomes \cup {<<>>} :
                on' = (on \/ told = <<"started">>) /\ inbox' = Tail(inbox) \o told
          BY <1>7, <4>2 DEF Handle
        <5> QED
          BY <1>0, <2>2, <5>1, <5>2
      <4> QED
        BY <1>7, <4>1, <4>2 DEF Handle
    <3> QED
      BY <1>0, <2>1, <3>1, <3>2, <3>3, <3>4 DEF settings
  <2> QED
    BY <1>7, <2>3, <2>4 DEF Handle
<1>8. CASE Timeout
  <2>1. inbox' \in Seq(Messages)
    BY <1>0, <1>8 DEF Timeout, Messages
  <2> QED
    BY <1>0, <1>8, <2>1 DEF Timeout, settings
<1>9. CASE didUpdateToLocation
  <2>1. service' \in Services
    BY <1>0, <1>9 DEF didUpdateToLocation, Services
  <2> QED
    BY <1>0, <1>9, <2>1 DEF didUpdateToLocation, settings
<1>10. ASSUME NEW kind \in {"requests", "updates"}, NEW handshake \in BOOLEAN,
              requestFinished(kind, handshake)
       PROVE  /\ countdown' \in Countdowns /\ service' \in Services /\ enc' \in Encoders
              /\ button' \in Buttons /\ on' \in BOOLEAN /\ inbox' \in Seq(Messages)
              /\ late' \in BOOLEAN /\ giveUps' \subseteq 0 .. GiveUp
              /\ profile' \in Profiles /\ reachable' \in BOOLEAN
              /\ alerts' \subseteq 0 .. RestartDelay
  <2>1. UNCHANGED <<settings, countdown, alerts>> /\ service[kind] > 0
    BY <1>10 DEF requestFinished
  <2>2. service' \in Services
    <3>1. \/ service' = [service EXCEPT ![kind] = @ - 1, !.streaming = TRUE]
          \/ service' = [service EXCEPT ![kind] = @ - 1]
      BY <1>10 DEF requestFinished
    <3>2. CASE kind = "requests"
      <4>1. service.requests - 1 \in 0 .. MaxRequests
        BY <1>0, <2>1, <3>2 DEF Services
      <4> QED
        BY <1>0, <3>1, <3>2, <4>1 DEF Services
    <3>3. CASE kind = "updates"
      <4>1. service.updates - 1 \in 0 .. MaxRequests
        BY <1>0, <2>1, <3>3 DEF Services
      <4> QED
        BY <1>0, <3>1, <3>3, <4>1 DEF Services
    <3> QED
      BY <3>2, <3>3
  <2>3. CASE didCompleteHandshake
    <3>1. on' \in BOOLEAN /\ inbox' \in Seq(Messages)
      BY <2>3, BroadcasterTyped DEF didCompleteHandshake
    <3>2. button' \in Buttons /\ enc' \in Encoders /\ late' \in BOOLEAN /\ giveUps' = {}
      BY <1>0, <2>3 DEF didCompleteHandshake, Buttons, Encoders
    <3> QED
      BY <1>0, <2>1, <2>2, <3>1, <3>2 DEF settings
  <2>4. CASE UNCHANGED <<button, giveUps, on, inbox, enc, late>>
    BY <1>0, <2>1, <2>2, <2>4 DEF settings
  <2> QED
    BY <1>10, <2>3, <2>4 DEF requestFinished
<1>11. CASE UNCHANGED vars
  BY <1>0, <1>11 DEF vars, settings
<1> QED
  BY <1>1, <1>2, <1>3, <1>4, <1>5, <1>6, <1>7, <1>8, <1>9, <1>10, <1>11 DEF Next, Timers

(* The initial state is typed. *)
LEMMA TypeInit == Init => TypeOK
<1> SUFFICES ASSUME Init PROVE TypeOK
  OBVIOUS
<1>1. /\ 0 \in 0 .. MaxTimers - 1 /\ 0 \in 0 .. MaxTimers /\ 0 \in 0 .. Throttle
      /\ 0 \in 0 .. MaxRequests
  BY Constants
<1>2. countdown \in [timer : BOOLEAN, lost : 0 .. MaxTimers - 1, due : 0 .. MaxTimers,
                    throttleCount : 0 .. Throttle, tryToStop : BOOLEAN]
  BY <1>1 DEF Init
<1>3. service \in [streaming : BOOLEAN, requests : 0 .. MaxRequests, updates : 0 .. MaxRequests]
  BY <1>1 DEF Init
<1>4. /\ giveUps \subseteq 0 .. GiveUp /\ alerts \subseteq 0 .. RestartDelay
      /\ inbox \in Seq({"started", "badpass", "error", "connect", "stopped"})
  BY DEF Init
<1>5. /\ profile \in [useTCP : BOOLEAN, autoRestart : BOOLEAN] /\ reachable \in BOOLEAN
      /\ button \in [enabled : BOOLEAN, selected : BOOLEAN] /\ {on, late} \subseteq BOOLEAN
      /\ enc \in [avc : BOOLEAN, capture : BOOLEAN, aac : BOOLEAN, monitor : BOOLEAN]
  BY DEF Init
<1> QED
  BY <1>2, <1>3, <1>4, <1>5 DEF TypeOK

(* Button, countdown, timers, web service, broadcaster and encoders stay   *)
(* in their types whatever order presses, timers, answers and messages     *)
(* come in.                                                                *)
THEOREM TypeCorrect == Spec => []TypeOK
  BY TypeInit, TypeStep, PTL DEF Spec

-----------------------------------------------------------------------------
(* With one hand on the button *)

(* A stop, carried out at once, by the countdown or by a start given up.   *)
LEMMA StopStep ==
  ASSUME TypeOK, NEW C \in Countdowns, stopStream(C), ~Starting,
         button.selected => giveUps = {} /\ (Live \/ Ending),
         ~button.selected => AtRest /\ giveUps' = {},
         UNCHANGED alerts, button.selected => UNCHANGED giveUps
  PROVE  /\ ~button'.selected => AtRest'
         /\ button'.selected => giveUps' = {} /\ (Live' \/ Ending')
         /\ ~on'
<1>0. on \in BOOLEAN /\ inbox \in Seq(Messages) /\ button \in Buttons /\ enc \in Encoders
  BY DEF TypeOK, Messages, Buttons, Encoders
<1>1. /\ button'.selected = button.selected
      /\ ~enc'.avc /\ ~enc'.capture /\ ~enc'.aac /\ enc'.monitor = enc.monitor
  BY <1>0 DEF stopStream, EncodersOff, Stopped, Buttons, Encoders
<1>2. /\ ~on' /\ (on => inbox' = Append(inbox, "stopped")) /\ (~on => inbox' = inbox)
  BY <1>0 DEF stopStream, disconnect
<1>3. CASE ~button.selected
  BY <1>1, <1>2, <1>3 DEF AtRest, Encoding
<1>4. CASE button.selected /\ Live
  <2>1. inbox' = <<"stopped">>
    BY <1>2, <1>4 DEF Live
  <2> QED
    BY <1>1, <1>2, <1>4, <2>1 DEF Ending
<1>5. CASE button.selected /\ Ending
  BY <1>1, <1>2, <1>5 DEF Ending
<1> QED
  BY <1>3, <1>4, <1>5

(* The invariant is inductive. *)
LEMMA ControlStep == TypeOK /\ ControlInv /\ [Next]_vars => ControlInv'
<1> SUFFICES ASSUME TypeOK, ControlInv, [Next]_vars, OneHand'
             PROVE  /\ ~button'.selected => AtRest'
                    /\ button'.selected => giveUps' = {} /\ (Starting' \/ Live' \/ Ending')
                    /\ on' => countdown'.timer
                    /\ alerts' = {}
  BY DEF ControlInv
<1>0. /\ countdown \in Countdowns /\ service \in Services /\ enc \in Encoders
      /\ button \in Buttons /\ on \in BOOLEAN /\ inbox \in Seq(Messages)
      /\ late \in BOOLEAN /\ profile \in Profiles
  BY DEF TypeOK, Countdowns, Services, Encoders, Buttons, Messages, Profiles
<1>1. profile' = profile /\ (late => late')
  <2>1. ASSUME NEW C, stopStream(C) PROVE UNCHANGED late
    BY <2>1 DEF stopStream
  <2>2. toggleBroadcast => UNCHANGED late
    BY <2>1 DEF toggleBroadcast
  <2>3. ASSUME Press \/ CancelRestart \/ throttleCountDown \/ GivenUp \/ Restart
        PROVE  profile' = profile /\ late' = late
    BY <2>1, <2>2, <2>3 DEF Press, CancelRestart, throttleCountDown, GivenUp, Restart, settings
  <2>4. ASSUME Tick \/ Handle \/ Timeout \/ didUpdateToLocation \/ UNCHANGED vars
        PROVE  profile' = profile /\ late' = late
    BY <2>4 DEF Tick, Handle, Timeout, didUpdateToLocation, vars, settings
  <2>5. ASSUME NEW kind \in {"requests", "updates"}, NEW handshake \in BOOLEAN,
               requestFinished(kind, handshake)
        PROVE  profile' = profile /\ (late => late')
    BY <2>5 DEF requestFinished, didCompleteHandshake, settings
  <2> QED
    BY <2>3, <2>4, <2>5 DEF Next, Timers
<1>2. OneHand
  BY <1>0, <1>1 DEF OneHand
<1>3. /\ ~button.selected => AtRest
      /\ button.selected => giveUps = {} /\ (Starting \/ Live \/ Ending)
      /\ on => countdown.timer
      /\ alerts = {}
  BY <1>2 DEF ControlInv
<1>4. CASE Press
  <2>1. button.enabled /\ ~Starting /\ UNCHANGED alerts
    BY <1>4 DEF Press, Starting
  <2>2. CASE ~reachable /\ button' = [button EXCEPT !.enabled = FALSE]
             /\ UNCHANGED <<countdown, giveUps, service, on, inbox, enc, late>>
    BY <1>0, <1>3, <2>1, <2>2 DEF Buttons, AtRest, Live, Ending, Encoding
  <2>3. CASE /\ ~button.selected /\ button' = [button EXCEPT !.enabled = FALSE]
             /\ giveUps' = giveUps \cup {GiveUp}
             /\ countdown' = NewCountdown(countdown)
             /\ UNCHANGED <<on, inbox, enc, late>>
    <3>1. countdown'.timer /\ ~countdown'.tryToStop /\ ~button'.enabled /\ ~button'.selected
      BY <1>0, <2>3 DEF NewCountdown, Countdowns, Buttons
    <3>2. giveUps = {} /\ AtRest
      BY <1>3, <2>1, <2>3 DEF AtRest
    <3> QED
      BY <1>3, <2>1, <2>3, <3>1, <3>2 DEF AtRest, Encoding
  <2>4. CASE button.selected /\ stopStream(countdown) /\ UNCHANGED giveUps
    BY <1>0, <1>3, <2>1, <2>4, StopStep
  <2>5. CASE /\ button.selected /\ button' = [button EXCEPT !.enabled = FALSE]
             /\ countdown' = [countdown EXCEPT !.tryToStop = TRUE]
             /\ UNCHANGED <<giveUps, service, on, inbox, enc, late>>
    BY <1>0, <1>3, <2>1, <2>5 DEF Buttons, Countdowns, Live, Ending
  <2> QED
    BY <1>4, <2>2, <2>3, <2>4, <2>5 DEF Press, toggleBroadcast
<1>5. CASE CancelRestart \/ Restart
  BY <1>3, <1>5 DEF CancelRestart, Restart
<1>6. CASE throttleCountDown
  <2> DEFINE C == [countdown EXCEPT !.due = @ - 1]
  <2>1. /\ countdown.due > 0 /\ C \in Countdowns /\ UNCHANGED <<giveUps, alerts>>
        /\ C.timer = countdown.timer /\ C.tryToStop = countdown.tryToStop
    BY <1>0, <1>6, Constants DEF throttleCountDown, Countdowns
  <2>2. CASE C.tryToStop /\ stopStream(C)
    <3>1. ~Starting
      BY <2>1, <2>2 DEF Starting
    <3>2. ~button.selected => giveUps = {}
      BY <1>3, <2>1, <2>2 DEF AtRest
    <3> QED
      BY <1>3, <2>1, <2>2, <3>1, <3>2, StopStep
  <2>3. CASE countdown' = CountedDown(C) /\ UNCHANGED <<button, service, on, inbox, enc, late>>
    <3>1. countdown'.timer = countdown.timer /\ countdown'.tryToStop = countdown.tryToStop
      BY <2>1, <2>3 DEF CountedDown, Countdowns
    <3> QED
      BY <1>3, <2>1, <2>3, <3>1 DEF AtRest, Starting, Live, Ending, Encoding
  <2> QED
    BY <1>6, <2>2, <2>3 DEF throttleCountDown
<1>7. CASE GivenUp
  <2>1. stopStream(countdown) /\ UNCHANGED alerts /\ 0 \in giveUps /\ giveUps' = giveUps \ {0}
    BY <1>7 DEF GivenUp
  <2>2. ~button.selected /\ AtRest
    BY <1>3, <2>1
  <2>3. giveUps' = {}
    BY <2>1, <2>2 DEF AtRest
  <2>4. ~Starting
    BY <2>2 DEF AtRest, Starting
  <2> QED
    BY <1>0, <1>3, <2>1, <2>2, <2>3, <2>4, StopStep
<1>8. CASE Tick
  <2>1. /\ UNCHANGED <<button, on, inbox, enc>> /\ alerts' = {a - 1 : a \in alerts}
        /\ giveUps' = {g - 1 : g \in giveUps}
        /\ countdown'.timer = countdown.timer /\ countdown'.tryToStop = countdown.tryToStop
    BY <1>0, <1>8 DEF Tick, Countdowns
  <2>2. alerts' = {} /\ (giveUps = {} <=> giveUps' = {})
    BY <1>3, <2>1
  <2>3. (\A g, h \in giveUps : g = h) => \A g, h \in giveUps' : g = h
    BY <2>1
  <2> QED
    BY <1>3, <2>1, <2>2, <2>3 DEF AtRest, Starting, Live, Ending, Encoding
<1>9. CASE Handle
  <2>1. inbox # <<>> /\ UNCHANGED <<countdown, giveUps>>
    BY <1>9 DEF Handle
  <2>2. button.selected /\ giveUps = {} /\ (Starting \/ Ending)
    BY <1>3, <2>1 DEF AtRest, Live
  <2>3. Head(inbox) # "connect"
    BY <2>2 DEF Starting, Ending
  <2>4. inbox' = Tail(inbox) /\ UNCHANGED on
    BY <1>9, <2>3 DEF Handle
  <2>5. CASE Starting
    <3>1. Head(inbox) = "started"
      BY <2>5 DEF Starting
    <3>2. StreamStarted
      BY <1>9, <3>1 DEF Handle
    <3>3. button'.selected /\ UNCHANGED alerts
      BY <3>2 DEF StreamStarted
    <3>4. CASE on /\ inbox = <<"started">>
      BY <1>3, <2>1, <2>2, <2>4, <3>3, <3>4 DEF Live
    <3>5. CASE ~on /\ inbox = <<"started", "error">>
      <4>1. inbox' = <<"error">>
        BY <2>4, <3>5
      <4> QED
        BY <1>3, <2>1, <2>2, <2>4, <3>3, <3>5, <4>1 DEF Ending
    <3> QED
      BY <2>5, <3>4, <3>5 DEF Starting
  <2>6. CASE Ending
    <3>1. inbox' = <<>> /\ ~on' /\ Head(inbox) \in {"error", "badpass", "stopped"}
      BY <2>4, <2>6 DEF Ending
    <3>2. ~profile.autoRestart
      BY <1>2 DEF OneHand
    <3>3. (StreamStopped /\ Head(inbox) = "stopped") \/ StreamError \/ InvalidUserPass
      BY <1>9, <3>1 DEF Handle
    <3>4. ~button'.selected /\ alerts' = {}
      BY <1>3, <3>2, <3>3 DEF StreamStopped, StreamError, InvalidUserPass, Deselected
    <3>5. ~Encoding'
      <4>1. CASE StreamError \/ InvalidUserPass
        BY <1>0, <4>1 DEF StreamError, InvalidUserPass, AfterError, EncodersOff, NoMonitor,
                         Encoders, Encoding
      <4>2. CASE StreamStopped /\ Head(inbox) = "stopped"
        <5>1. ~enc.avc /\ ~enc.capture /\ ~enc.aac
          BY <2>6, <4>2 DEF Ending
        <5> QED
          BY <1>0, <4>2, <5>1 DEF StreamStopped, NoMonitor, Encoders, Encoding
      <4> QED
        BY <3>3, <4>1, <4>2
    <3> QED
      BY <2>1, <2>2, <3>1, <3>4, <3>5 DEF AtRest
  <2> QED
    BY <2>2, <2>5, <2>6
<1>10. CASE Timeout
  <2>1. /\ on /\ ~on' /\ inbox' = Append(inbox, "error")
        /\ UNCHANGED <<button, countdown, giveUps, alerts, enc>>
    BY <1>10 DEF Timeout
  <2>2. button.selected /\ giveUps = {} /\ (Starting \/ Live)
    BY <1>3, <2>1 DEF AtRest, Ending
  <2>3. CASE Starting
    <3>1. inbox = <<"started">>
      BY <2>1, <2>3 DEF Starting
    <3>2. inbox' = <<"started", "error">>
      <4> DEFINE one == <<"started">>
                 two == <<"started", "error">>
      <4>1. one \in Seq(Messages) /\ two \in Seq(Messages)
        BY DEF Messages
      <4>2. Len(one) = 1 /\ one[1] = "started"
        OBVIOUS
      <4>3. Len(two) = 2 /\ two[1] = "started" /\ two[2] = "error"
        OBVIOUS
      <4>4. inbox' = Append(one, "error") /\ "error" \in Messages
        BY <2>1, <3>1 DEF Messages
      <4> HIDE DEF one, two
      <4>5. /\ inbox' \in Seq(Messages) /\ Len(inbox') = 2
            /\ inbox'[1] = "started" /\ inbox'[2] = "error"
        <5>1. /\ inbox' \in Seq(Messages) /\ Len(inbox') = Len(one) + 1
              /\ \A i \in 1 .. Len(one) : inbox'[i] = one[i]
              /\ inbox'[Len(one) + 1] = "error"
          BY <4>1, <4>4, AppendProperties
        <5> QED
          BY <4>2, <5>1
      <4>6. inbox' = two
        BY <4>1, <4>3, <4>5, SeqEqual
      <4> QED
        BY <4>6 DEF two
    <3> QED
      BY <1>3, <2>1, <2>2, <2>3, <3>2 DEF Starting
  <2>4. CASE Live
    <3>1. inbox' = <<"error">>
      BY <2>1, <2>4 DEF Live
    <3> QED
      BY <1>3, <2>1, <2>2, <3>1 DEF Ending
  <2> QED
    BY <2>2, <2>3, <2>4
<1>11. CASE didUpdateToLocation
  BY <1>3, <1>11 DEF didUpdateToLocation, AtRest, Starting, Live, Ending, Encoding
<1>12. ASSUME NEW kind \in {"requests", "updates"}, NEW handshake \in BOOLEAN,
              requestFinished(kind, handshake)
       PROVE  /\ ~button'.selected => AtRest'
              /\ button'.selected => giveUps' = {} /\ (Starting' \/ Live' \/ Ending')
              /\ on' => countdown'.timer
              /\ alerts' = {}
  <2>1. UNCHANGED <<countdown, alerts>>
    BY <1>12 DEF requestFinished
  <2>2. CASE didCompleteHandshake
    <3>1. giveUps # {} /\ giveUps' = {}
      BY <2>2 DEF didCompleteHandshake, OneHand
    <3>2. ~button.selected /\ AtRest
      BY <1>3, <3>1
    <3>3. ~button'.enabled /\ button'.selected /\ countdown'.timer /\ ~countdown'.tryToStop
      BY <1>0, <2>1, <2>2, <3>1, <3>2 DEF didCompleteHandshake, AtRest, Buttons
    <3>4. PICK told \in Outcomes : on' = (told = <<"started">>) /\ inbox' = inbox \o told
      BY <2>2, <3>2 DEF didCompleteHandshake, connect, AtRest
    <3>5. told \in {<<"started">>, <<"badpass">>, <<"error">>}
      BY <1>2 DEF Outcomes, OneHand
    <3>6. inbox' = told
      BY <3>2, <3>4, <3>5 DEF AtRest
    <3>7. CASE told = <<"started">>
      BY <1>3, <2>1, <3>1, <3>3, <3>4, <3>6, <3>7 DEF Starting
    <3>8. CASE told \in {<<"badpass">>, <<"error">>}
      <4>1. told # <<"started">>
        BY <3>8
      <4> QED
        BY <1>3, <2>1, <3>1, <3>3, <3>4, <3>6, <3>8, <4>1 DEF Ending
    <3> QED
      BY <3>5, <3>7, <3>8
  <2>3. CASE UNCHANGED <<button, giveUps, on, inbox, enc, late>>
    BY <1>3, <2>1, <2>3 DEF AtRest, Starting, Live, Ending, Encoding
  <2> QED
    BY <1>12, <2>2, <2>3 DEF requestFinished
<1>13. CASE UNCHANGED vars
  BY <1>3, <1>13 DEF vars, AtRest, Starting, Live, Ending, Encoding
<1> QED
  BY <1>4, <1>5, <1>6, <1>7, <1>8, <1>9, <1>10, <1>11, <1>12, <1>13 DEF Next, Timers

(* The invariant holds at first, and always. *)
LEMMA ControlAlways == Spec => [](TypeOK /\ ControlInv)
<1>1. Init => ControlInv
  BY DEF Init, ControlInv, AtRest, Encoding
<1> QED
  BY <1>1, TypeInit, TypeStep, ControlStep, PTL DEF Spec

(* While anything records or sends, the button offers to stop it or the    *)
(* message that will is on its way: for all delays, timers and answers.    *)
THEOREM RunningIsShown == Spec => []ShownAsLive
<1>1. TypeOK /\ ControlInv => ShownAsLive
  BY DEF ControlInv, ShownAsLive, AtRest, Encoding, TypeOK
<1> QED
  BY <1>1, ControlAlways, PTL

(* A stream that is shown and runs can be stopped at once, or has the      *)
(* countdown that will stop it.                                            *)
THEOREM StopAlwaysHeard == Spec => []StopIsHeard
<1>1. TypeOK /\ ControlInv => StopIsHeard
  BY DEF ControlInv, StopIsHeard
<1> QED
  BY <1>1, ControlAlways, PTL
=============================================================================
