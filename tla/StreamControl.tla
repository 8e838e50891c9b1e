---------------------------- MODULE StreamControl ----------------------------
(***************************************************************************)
(* How a stream is started and stopped: the record button, its timers, the *)
(* handshake with the web service, the callback of the broadcaster and the *)
(* alert that announces a restart (LivuViewController.m, its message       *)
(* handlers, Utilities.m).                                                 *)
(*                                                                         *)
(* Everything here runs on the main thread, one handler at a time, and     *)
(* connect: blocks it; what makes it hard is the order in which presses,   *)
(* timers, answers of the web service and messages of the broadcaster      *)
(* come.  The broadcaster is what BroadcastManager shows of it: on or      *)
(* idle, with its messages in the order of the main queue; the encoders    *)
(* are on or off.                                                          *)
(*                                                                         *)
(* Time is counted in seconds: a Tick makes timers due, and each then      *)
(* fires as a handler of its own, in any order.                            *)
(***************************************************************************)
EXTENDS Naturals, Sequences

CONSTANTS
  Throttle,     \* seconds before a stop is carried out, 5 in the code
  GiveUp,       \* seconds before a start is given up, 5 in the code
  RestartDelay, \* seconds the restart alert is shown, 5 in the code
  MaxRequests,  \* bound: requests of each kind that are unanswered
  MaxTimers,    \* bound: countdown timers that are scheduled (more change nothing new)
  MaxInbox      \* bound: messages waiting when one more may be caused

ASSUME ControlAssumption ==
  {Throttle, GiveUp, RestartDelay, MaxRequests, MaxTimers, MaxInbox} \subseteq Nat \ {0}

VARIABLES
  profile,   \* the settings that matter here: [useTCP, autoRestart]
  reachable, \* remoteHostStatus # NotReachable; read once, when the view loads
  button,    \* the record button: [enabled, selected]
  countdown, \* [timer, lost, due, throttleCount, tryToStop]: throttleTimer is
             \* set; timers it no longer points to; firings due now
  giveUps,   \* delayed stopStream: seconds left of each
  alerts,    \* restart alerts still visible: seconds left of each
  service,   \* Utilities: [streaming, requests, updates], unanswered requests
             \* of starts and of location changes
  on,        \* the broadcaster is broadcasting
  inbox,     \* its blocks on the main queue, in order
  enc,       \* which encoders run: [avc, capture, aac, monitor]
  late       \* a handshake has answered a start that had been given up, or
             \* no start at all

vars == <<profile, reachable, button, countdown, giveUps, alerts, service,
          on, inbox, enc, late>>
settings == <<profile, reachable>>

Init ==
  /\ profile \in [useTCP : BOOLEAN, autoRestart : BOOLEAN] /\ reachable \in BOOLEAN
  /\ button = [enabled |-> TRUE, selected |-> FALSE]
  /\ countdown = [timer |-> FALSE, lost |-> 0, due |-> 0, throttleCount |-> 0, tryToStop |-> FALSE]
  /\ giveUps = {} /\ alerts = {}
  /\ service = [streaming |-> FALSE, requests |-> 0, updates |-> 0]
  /\ on = FALSE /\ inbox = <<>>
  /\ enc = [avc |-> FALSE, capture |-> FALSE, aac |-> FALSE, monitor |-> FALSE]
  /\ late = FALSE

EncodersOff(E) == [E EXCEPT !.avc = FALSE, !.capture = FALSE, !.aac = FALSE]

-----------------------------------------------------------------------------
(* The broadcaster *)

(* connect: reports how it went; a failure other than a bad password is    *)
(* tried again when the profile says so.                                   *)
Outcomes ==
  {<<"started">>, <<"badpass">>, IF profile.autoRestart THEN <<"error", "connect">> ELSE <<"error">>}

connect ==
  IF on THEN UNCHANGED <<on, inbox>>
  ELSE \E told \in Outcomes : on' = (told = <<"started">>) /\ inbox' = inbox \o told

disconnect ==
  IF on THEN on' = FALSE /\ inbox' = Append(inbox, "stopped")
  ELSE UNCHANGED <<on, inbox>>

(* The RTCP watchdog of a UDP broadcast gives up *)
Timeout ==
  /\ on /\ ~profile.useTCP /\ Len(inbox) < MaxInbox
  /\ on' = FALSE /\ inbox' = Append(inbox, "error")
  /\ UNCHANGED <<settings, button, countdown, giveUps, alerts, service, enc, late>>

-----------------------------------------------------------------------------
(* The record button *)

(* Faulty variant: the button stays disabled. *)
Stopped_disabled(B) == B
Stopped(B) == [B EXCEPT !.enabled = TRUE]

(* stopStream, without what its caller does to the countdown's counters.   *)
(* tcp_monitor_stop is left to the callback.                               *)
stopStream(C) ==
  /\ countdown' = [C EXCEPT !.timer = FALSE]
  /\ service' = [service EXCEPT !.streaming = FALSE]
  /\ enc' = EncodersOff(enc)
  /\ disconnect
  /\ button' = Stopped(button)
  /\ UNCHANGED late

(* A new countdown.  A timer that is still scheduled is no longer known.   *)
(* Faulty variant: no timer is scheduled.                                  *)
NewCountdown_no_timer(C) == [C EXCEPT !.throttleCount = Throttle, !.tryToStop = FALSE]
NewCountdown(C) ==
  [C EXCEPT !.timer = TRUE, !.throttleCount = Throttle, !.tryToStop = FALSE,
            !.lost = IF C.timer /\ @ + 1 < MaxTimers THEN @ + 1 ELSE @]

(* toggleBroadcast *)
toggleBroadcast ==
  \/ /\ ~reachable
     /\ button' = [button EXCEPT !.enabled = FALSE]
     /\ UNCHANGED <<countdown, giveUps, service, on, inbox, enc, late>>
  \/ /\ reachable /\ ~button.selected
     /\ button' = [button EXCEPT !.enabled = FALSE]
     /\ service' = [service EXCEPT !.requests = IF @ < MaxRequests THEN @ + 1 ELSE @]
     /\ giveUps' = giveUps \cup {GiveUp}
     /\ countdown' = NewCountdown(countdown)
     /\ UNCHANGED <<on, inbox, enc, late>>
  \/ /\ reachable /\ button.selected /\ countdown.throttleCount = 0
     /\ stopStream(countdown) /\ UNCHANGED giveUps
  \/ /\ reachable /\ button.selected /\ countdown.throttleCount > 0
     /\ button' = [button EXCEPT !.enabled = FALSE]
     /\ countdown' = [countdown EXCEPT !.tryToStop = TRUE]
     /\ UNCHANGED <<giveUps, service, on, inbox, enc, late>>

Press ==
  /\ button.enabled /\ toggleBroadcast
  /\ UNCHANGED <<settings, alerts>>

CountedDown(C) ==
  IF C.throttleCount > 0 THEN [C EXCEPT !.throttleCount = @ - 1] ELSE C

(* throttleCountDown, for the timer known or for one that is not *)
throttleCountDown ==
  LET C == [countdown EXCEPT !.due = @ - 1] IN
  /\ countdown.due > 0
  /\ \/ C.throttleCount = 0 /\ C.tryToStop /\ stopStream(C)
     \/ /\ C.throttleCount > 0 \/ ~C.tryToStop
        /\ countdown' = CountedDown(C)
        /\ UNCHANGED <<button, service, on, inbox, enc, late>>
  /\ UNCHANGED <<settings, giveUps, alerts>>

(* The stopStream that a start has scheduled for itself *)
GivenUp ==
  /\ 0 \in giveUps /\ giveUps' = giveUps \ {0}
  /\ stopStream(countdown)
  /\ UNCHANGED <<settings, alerts>>

-----------------------------------------------------------------------------
(* The web service *)

(* didCompleteHandshake: the start is not given up any more, the video     *)
(* encoder starts and the broadcaster connects.                            *)
didCompleteHandshake ==
  /\ giveUps' = {} /\ late' = (late \/ giveUps = {})
  /\ button' = [button EXCEPT !.selected = TRUE]
  /\ enc' = [enc EXCEPT !.avc = TRUE]
  /\ connect

(* requestFinished and requestFailed, with kind "requests" or "updates":   *)
(* only an answer with a handshake, while not streaming, does anything.    *)
requestFinished(kind, handshake) ==
  /\ service[kind] > 0 /\ Len(inbox) < MaxInbox
  /\ IF handshake /\ ~service.streaming
     THEN /\ service' = [service EXCEPT ![kind] = @ - 1, !.streaming = TRUE]
          /\ didCompleteHandshake
     ELSE /\ service' = [service EXCEPT ![kind] = @ - 1]
          /\ UNCHANGED <<button, giveUps, on, inbox, enc, late>>
  /\ UNCHANGED <<settings, countdown, alerts>>

(* didUpdateToLocation *)
didUpdateToLocation ==
  /\ service.streaming /\ service.updates < MaxRequests
  /\ service' = [service EXCEPT !.updates = @ + 1]
  /\ UNCHANGED <<settings, button, countdown, giveUps, alerts, on, inbox, enc, late>>

-----------------------------------------------------------------------------
(* The main queue: the broadcaster's callback, and the connect: it posts *)

Deselected(B) == [enabled |-> TRUE, selected |-> FALSE]
NoMonitor(E) == [E EXCEPT !.monitor = FALSE]

StreamStopped ==
  /\ button' = Deselected(button) /\ enc' = NoMonitor(enc)
  /\ UNCHANGED alerts

(* Faulty variant: the encoders go on. *)
AfterError_running(E) == NoMonitor(E)
AfterError(E) == NoMonitor(EncodersOff(E))

StreamError ==
  /\ enc' = AfterError(enc)
  /\ button' = Deselected(button)
  /\ alerts' = IF profile.autoRestart THEN alerts \cup {RestartDelay} ELSE alerts

InvalidUserPass ==
  /\ enc' = AfterError(enc)
  /\ button' = Deselected(button)
  /\ UNCHANGED alerts

(* The monitor starts when the host's name can be resolved. *)
StreamStarted ==
  /\ button' = [enabled |-> TRUE, selected |-> TRUE]
  /\ \E m \in {enc.monitor, profile.useTCP} :
       enc' = [enc EXCEPT !.aac = TRUE, !.capture = TRUE, !.monitor = m]
  /\ UNCHANGED alerts

Handle ==
  /\ inbox # <<>>
  /\ \/ /\ Head(inbox) = "connect"
        /\ \E told \in (IF on THEN {<<>>} ELSE Outcomes) :
             on' = (on \/ told = <<"started">>) /\ inbox' = Tail(inbox) \o told
        /\ UNCHANGED <<button, alerts, enc>>
     \/ /\ inbox' = Tail(inbox) /\ UNCHANGED on
        /\ \/ Head(inbox) = "stopped" /\ StreamStopped
           \/ Head(inbox) = "error" /\ StreamError
           \/ Head(inbox) = "badpass" /\ InvalidUserPass
           \/ Head(inbox) = "started" /\ StreamStarted
  /\ UNCHANGED <<settings, countdown, giveUps, service, late>>

(* The alert has been shown long enough: the button is toggled for the     *)
(* user.                                                                   *)
Restart ==
  /\ 0 \in alerts /\ alerts' = alerts \ {0}
  /\ toggleBroadcast
  /\ UNCHANGED settings

(* The user cancels it *)
CancelRestart ==
  /\ \E a \in alerts : alerts' = alerts \ {a}
  /\ UNCHANGED <<settings, button, countdown, giveUps, service, on, inbox, enc, late>>

-----------------------------------------------------------------------------
Tick ==
  /\ countdown.due = 0 /\ 0 \notin giveUps /\ 0 \notin alerts
  /\ countdown' = [countdown EXCEPT !.due = countdown.lost + (IF countdown.timer THEN 1 ELSE 0)]
  /\ giveUps' = {g - 1 : g \in giveUps} /\ alerts' = {a - 1 : a \in alerts}
  /\ UNCHANGED <<settings, button, service, on, inbox, enc, late>>

Timers == throttleCountDown \/ GivenUp \/ Restart

Next ==
  \/ Press \/ CancelRestart
  \/ Timers \/ Tick \/ Handle \/ Timeout
  \/ didUpdateToLocation
  \/ \E kind \in {"requests", "updates"}, handshake \in BOOLEAN : requestFinished(kind, handshake)

(* Time passes, and the main run loop serves its timers and its queue *)
Fairness ==
  /\ WF_vars(Tick) /\ WF_vars(Handle)
  /\ WF_vars(throttleCountDown) /\ WF_vars(GivenUp) /\ WF_vars(Restart)

Spec == Init /\ [][Next]_vars /\ Fairness

-----------------------------------------------------------------------------
(* Properties *)

TypeOK ==
  /\ profile \in [useTCP : BOOLEAN, autoRestart : BOOLEAN] /\ reachable \in BOOLEAN
  /\ button \in [enabled : BOOLEAN, selected : BOOLEAN] /\ {on, late} \subseteq BOOLEAN
  /\ countdown \in [timer : BOOLEAN, lost : 0 .. MaxTimers - 1, due : 0 .. MaxTimers,
                    throttleCount : 0 .. Throttle, tryToStop : BOOLEAN]
  /\ giveUps \subseteq 0 .. GiveUp /\ alerts \subseteq 0 .. RestartDelay
  /\ service \in [streaming : BOOLEAN, requests : 0 .. MaxRequests, updates : 0 .. MaxRequests]
  /\ inbox \in Seq({"started", "badpass", "error", "connect", "stopped"})
  /\ enc \in [avc : BOOLEAN, capture : BOOLEAN, aac : BOOLEAN, monitor : BOOLEAN]

(* The button is the only one to start and to stop: the manager does not   *)
(* reconnect by itself, and no start was answered after it was given up.   *)
OneHand == ~profile.autoRestart /\ ~late

(* Whatever runs is shown: while anything records or sends, the button     *)
(* offers to stop it, or a message that will is already on its way.        *)
(* (Without OneHand a stop can overtake the message that the stream has    *)
(* started, and that message's handler starts the encoders unseen.)        *)
ShownAsLive ==
  OneHand /\ (on \/ enc.avc \/ enc.capture \/ enc.aac \/ enc.monitor)
    => button.selected \/ inbox # <<>>

(* The user can stop what the user started: a press stops the stream at    *)
(* once, or a countdown is there to do it.  (Without OneHand a stream may  *)
(* run that no press can stop.)                                            *)
StopIsHeard ==
  OneHand /\ button.selected /\ on => countdown.timer \/ countdown.throttleCount = 0

(* The button comes back: whatever a press began, it is answered, given up *)
(* or carried out.  (Without a network it does not; without OneHand a stop *)
(* that is not heard leaves it disabled.)                                  *)
ButtonComesBack ==
  (~button.enabled /\ reachable /\ OneHand) ~> (button.enabled \/ ~OneHand)

(* LivuViewController+MessageHandlers.h:94: "The connecton was lost.       *)
(* Restarting in 5 seconds".  The button that is toggled then starts a     *)
(* stream rather than stop one, and the handshake it asks for will be      *)
(* acted on.                                                               *)
RestartStarts == [][Restart => ~button.selected /\ ~service.streaming]_vars
=============================================================================
