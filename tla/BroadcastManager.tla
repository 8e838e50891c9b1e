-------------------------- MODULE BroadcastManager --------------------------
(***************************************************************************)
(* LivuBroadcastManager (Livu/Classes/LivuBroadcastManager.m) together     *)
(* with the part of its only caller, LivuViewController, that starts and   *)
(* stops the encoders around it.                                           *)
(*                                                                         *)
(* Five kinds of thread share the manager's instance variables without a   *)
(* common lock:                                                            *)
(*   main       connect:, disconnectInternal: and, in the order in which   *)
(*              they were posted, the blocks of the main dispatch queue;   *)
(*   sender q   the serial sender_queue created by connect attempt q;      *)
(*   aud        the audio queue's callback (AACEncoder delegate method);   *)
(*   vid        the parser's reader queue (avcEncoderCallback);            *)
(*   watch g    the RTCP watchdog timer created by connect attempt g.      *)
(* An action is what a thread does between two points where another one    *)
(* can interfere.  RTSP requests (module RTSPClient) are one step here:    *)
(* they run on the main thread and only their outcome matters.             *)
(***************************************************************************)
EXTENDS Naturals, Sequences, FiniteSets

CONSTANTS
  BroadcastType,  \* profile.broadcastType
  UseTCP,         \* profile.useTCP
  AutoRestart,    \* profile.autoRestart
  FailStages,     \* the stages of the connection setup that may fail
  MaxConnects,    \* bound: how often connect: gets past its first guard
  MaxTime         \* bound: capture times are 1..MaxTime

Stages == {"request", "setupAAC", "initAAC", "setupAVC", "initAVC", "record"}

ASSUME ConfigAssumption ==
  /\ BroadcastType \in {"Audio", "Video", "AudioVideo"}
  /\ UseTCP \in BOOLEAN
  /\ AutoRestart \in BOOLEAN
  /\ FailStages \subseteq Stages
  /\ MaxConnects \in Nat \ {0}
  /\ MaxTime \in Nat

HasAudio  == BroadcastType # "Video"
HasVideo  == BroadcastType # "Audio"
AudioOnly == BroadcastType = "Audio"

VARIABLES
  broadcasting, \* the flag every thread polls
  conn,         \* attempt number: what sender_queue currently points to
  main,         \* where the main thread is
  reason,       \* the argument of the disconnectInternal: in progress
  mainQ,        \* blocks posted to the main queue, caller_queue included
  button,       \* broadcastButton: "start", "busy" (disabled) or "stop"
  encoders,     \* what runs: "avc" AVCEncoder, "cap" capture, "aac" AACEncoder
  aac, avc,     \* the RTP session pointers: 0 is NULL, n was made by attempt n
  live,         \* the RTP sessions that are allocated
  queue,        \* the blocks of each sender queue; the head is executing
  snd,          \* per sender queue: where its head block is, the packet in hand
  retained,     \* the sender queues the manager still holds a reference to
  sema,         \* queue_rw_sema
  avQueue,      \* audio packets waiting to be sent
  audioInc,     \* RTP time of the last audio packet; 0 is audioStart = 0
  aud, vid,     \* the encoder threads
  rotating,     \* another thread is in setAveragebps: of the AVC encoder
  timer, wd,    \* per attempt: the watchdog timer, its handler
  watch,        \* the attempt rtcp_watchdog_timer belongs to
  missed,       \* rtcp_rr_timeout_count
  clock,        \* capture time of the last sample of each medium
  sent,         \* history: what was handed to the RTP library
  told,         \* history: per attempt, the callbacks the caller has run
  faults,       \* history: uses of something freed or absent
  slips         \* history: "tangled" stops and "overtaken" starts, see StopStream

mainVars   == <<conn, main, reason, mainQ, button, encoders, told>>
rtpVars    == <<aac, avc, live>>
senderVars == <<queue, snd, retained>>
audioVars  == <<avQueue, audioInc, aud>>
videoVars  == <<vid, rotating, slips>>
watchVars  == <<timer, wd, watch, missed>>
vars == <<broadcasting, mainVars, rtpVars, senderVars, sema, audioVars, videoVars,
          watchVars, clock, sent, faults>>

Attempts == 1..MaxConnects
Times    == 1..MaxTime
NoPacket == [time |-> 0, inc |-> 0, sess |-> 0]
NoFrame  == [time |-> 0, sess |-> 0]

-----------------------------------------------------------------------------
(* Helpers. *)

\* check_database: the assertions behind every call of the RTP library.
Use(kind, n) == IF <<kind, n>> \in live THEN {} ELSE {"rtp"}

FrameBlock(f) == [kind |-> "video", time |-> f.time, sess |-> f.sess]
Stream    == [kind |-> "stream", time |-> 0, sess |-> conn]
Close     == [kind |-> "close", time |-> 0, sess |-> conn]
Notice(k) == [kind |-> k, sess |-> conn]

Block(q)   == Head(queue[q])
Pop(q)     == queue' = [queue EXCEPT ![q] = Tail(@)]
At(q, pc)  == queue[q] # <<>> /\ snd[q].pc = pc
Goto(q, pc) == snd' = [snd EXCEPT ![q].pc = pc]

Init ==
  /\ broadcasting = FALSE /\ conn = 0 /\ main = "idle" /\ reason = "Stopped"
  /\ mainQ = <<>> /\ button = "start" /\ encoders = {}
  /\ aac = 0 /\ avc = 0 /\ live = {}
  /\ queue = [q \in Attempts |-> <<>>]
  /\ snd = [q \in Attempts |-> [pc |-> "idle", pkt |-> NoPacket]]
  /\ retained = {} /\ sema = [live |-> FALSE, count |-> 0]
  /\ avQueue = <<>> /\ audioInc = 0
  /\ aud = [pc |-> "idle", pkt |-> NoPacket] /\ vid = NoFrame /\ rotating = FALSE
  /\ timer = [g \in Attempts |-> "none"] /\ wd = [g \in Attempts |-> [pc |-> "idle", on |-> 0]]
  /\ watch = 0 /\ missed = 0
  /\ clock = [audio |-> 0, video |-> 0]
  /\ sent = <<>> /\ told = [a \in Attempts |-> <<>>] /\ faults = {} /\ slips = {}

-----------------------------------------------------------------------------
(* Main thread: connect: *)

\* The head of connect: a fresh sender queue, the per-session counters reset.
EnterConnect ==
  /\ conn < MaxConnects
  /\ conn' = conn + 1
  /\ retained' = retained \cup {conn + 1}
  /\ audioInc' = 0
  /\ missed' = 0
  /\ main' = "setup"

ConnectWhileBroadcasting ==
  /\ broadcasting
  /\ UNCHANGED <<conn, main, retained, audioInc, missed>>

\* connect: returns an error when a broadcast is running.
Connect ==
  \/ ~broadcasting /\ EnterConnect
  \/ ConnectWhileBroadcasting

\* The handshake with the web service has completed: start the AVC encoder,
\* then connect the broadcaster.
StartStream ==
  /\ main = "idle" /\ button = "start"
  /\ Connect
  /\ button' = "busy"
  /\ encoders' = encoders \cup (IF HasVideo THEN {"avc"} ELSE {})
  /\ UNCHANGED <<broadcasting, reason, mainQ, told, rtpVars, queue, snd, sema,
                 avQueue, aud, videoVars, timer, wd, watch, clock, sent, faults>>

\* Which stages the profile reaches, and which of them the transport can fail.
Applicable(s) ==
  /\ s \in {"setupAAC", "initAAC"} => HasAudio
  /\ s \in {"setupAVC", "initAVC"} => HasVideo
  /\ s \in {"initAAC", "initAVC"} => ~UseTCP

\* The RTP session pointers a setup that fails at s leaves behind; "none" is
\* a setup without a failure, and a NULL video session is only logged.
AacAfter(s) == IF ~HasAudio \/ s \in {"request", "setupAAC"} THEN aac
               ELSE IF s = "initAAC" THEN 0 ELSE conn
AvcAfter(s) == IF ~HasVideo \/ s \in {"request", "setupAAC", "initAAC", "setupAVC"} THEN avc
               ELSE IF s = "initAVC" THEN 0 ELSE conn
Created(s) ==
  (IF HasAudio /\ s \notin {"request", "setupAAC", "initAAC"} THEN {<<"aac", conn>>} ELSE {})
  \cup
  (IF HasVideo /\ s \in {"none", "record"} THEN {<<"avc", conn>>} ELSE {})

\* Seeded fault: the error path of RECORD frees one session only.
DoneOnErrorKeepsVideo(s) ==
  IF s \in {"setupAVC", "record"} THEN {<<"aac", AacAfter(s)>>} ELSE {}

\* The sessions the error path of s passes to rtp_done, whatever the profile.
DoneOnError(s) ==
  CASE s = "setupAVC" -> {<<"aac", AacAfter(s)>>}
    [] s = "record"   -> {<<"aac", AacAfter(s)>>, <<"avc", AvcAfter(s)>>}
    [] OTHER          -> {}

SetupRtp(s) ==
  /\ aac' = AacAfter(s)
  /\ avc' = AvcAfter(s)
  /\ live' = (live \cup Created(s)) \ DoneOnError(s)
  /\ faults' = faults \cup (IF DoneOnError(s) \subseteq live \cup Created(s)
                            THEN {} ELSE {"rtp"})

\* Seeded fault: a refused password is not reported.
FailureNoticesDropBadPass(notice) ==
  IF notice = "Error" THEN <<Notice(notice)>> ELSE <<>>

\* What connect: posts for a failed setup, and the reconnect after an error.
\* (kStreamRestart, called at once before a reconnect, only sets a text.)
FailureNotices(notice) ==
  <<Notice(notice)>> \o
  (IF notice = "Error" /\ AutoRestart /\ conn < MaxConnects
   THEN <<Notice("Reconnect")>> ELSE <<>>)

\* setupRTP{UDP,TCP}Connection fails at stage s; connect: reports the error or
\* the refused password, and on an error posts a reconnect when the profile
\* asks for one.
SetupFails(s, notice) ==
  /\ main = "setup"
  /\ s \in FailStages \ {"initAVC"} /\ Applicable(s)
  /\ notice = "BadPass" => s # "initAAC"
  /\ SetupRtp(s)
  /\ main' = "idle"
  /\ mainQ' = mainQ \o FailureNotices(notice)
  /\ UNCHANGED <<broadcasting, conn, reason, button, encoders, told, senderVars,
                 sema, audioVars, videoVars, watchVars, clock, sent>>

\* Every request succeeded: the flag is raised inside setupRTP*Connection.
SetupSucceeds(s) ==
  /\ main = "setup"
  /\ s = "none" \/ (s \in FailStages \cap {"initAVC"} /\ Applicable(s))
  /\ SetupRtp(s)
  /\ broadcasting' = TRUE
  /\ main' = "connected"
  /\ UNCHANGED <<conn, reason, mainQ, button, encoders, told, senderVars, sema,
                 audioVars, videoVars, watchVars, clock, sent>>

\* The RTSP_OK case of connect: announce, start the watchdog (UDP), create the
\* semaphore, occupy the sender queue with streamAudio (audio only).
Connected ==
  /\ main = "connected"
  /\ main' = "idle"
  /\ mainQ' = Append(mainQ, Notice("Started"))
  /\ IF UseTCP THEN UNCHANGED <<timer, watch>>
     ELSE timer' = [timer EXCEPT ![conn] = "armed"] /\ watch' = conn
  /\ sema' = [live |-> TRUE, count |-> 0]
  /\ IF AudioOnly THEN queue' = [queue EXCEPT ![conn] = Append(@, Stream)]
     ELSE UNCHANGED queue
  /\ UNCHANGED <<broadcasting, conn, reason, button, encoders, told, rtpVars, snd,
                 retained, audioVars, videoVars, wd, missed, clock, sent, faults>>

-----------------------------------------------------------------------------
(* Main thread: disconnectInternal: *)

\* Seeded faults: no guard; a guard that waits for the encoders to be stopped.
MayDisconnectAlways == TRUE
MayDisconnectQuiet == broadcasting /\ encoders = {}

\* Only the first call of a session gets past the guard.
MayDisconnect == broadcasting

\* The head of disconnectInternal: up to the cleared flag.
EnterDisconnect(r) ==
  /\ broadcasting' = FALSE
  /\ reason' = r
  /\ timer' = IF UseTCP THEN timer ELSE [timer EXCEPT ![watch] = "off"]
  /\ main' = "flagged"

Disconnect(r) ==
  IF MayDisconnect THEN EnterDisconnect(r)
  ELSE main' = "idle" /\ UNCHANGED <<broadcasting, reason, timer>>

\* Wake streamAudio, give up the semaphore, and dispatch_sync the close block
\* to the sender queue: it runs after every block that is already there.
SubmitClose ==
  /\ main = "flagged"
  /\ main' = "sync"
  /\ sema' = IF AudioOnly THEN [live |-> FALSE, count |-> sema.count + 1] ELSE sema
  /\ queue' = [queue EXCEPT ![conn] = Append(@, Close)]
  /\ UNCHANGED <<broadcasting, conn, reason, mainQ, button, encoders, told, rtpVars,
                 snd, retained, audioVars, videoVars, watchVars, clock, sent, faults>>

\* Seeded fault: only errors are reported.
TerminalNoticeErrorsOnly == IF reason = "Error" THEN <<Notice(reason)>> ELSE <<>>

TerminalNotice == <<Notice(reason)>>

\* The close block has run: release the queue, post the terminal callback.
FinishDisconnect ==
  /\ main = "synced"
  /\ main' = "idle"
  /\ retained' = retained \ {conn}
  /\ mainQ' = mainQ \o TerminalNotice
  /\ UNCHANGED <<broadcasting, conn, reason, button, encoders, told, rtpVars, queue,
                 snd, sema, audioVars, videoVars, watchVars, clock, sent, faults>>

\* A stop that falls into a rotation finds isEncoding clear, or has its stop
\* undone by the rotation's start.
StopsInRotation == slips' = slips \cup (IF rotating THEN {"tangled"} ELSE {})

\* LivuViewController stopStream: the encoders first, the broadcaster last.
\* It is called for a press, a countdown or the give-up timer (StreamControl),
\* whatever the broadcaster is doing by then.
StopStream ==
  /\ main = "idle"
  /\ main' = "joinStop"
  /\ encoders' = {}
  /\ StopsInRotation
  /\ UNCHANGED <<broadcasting, conn, reason, mainQ, button, told, rtpVars, senderVars,
                 sema, audioVars, vid, rotating, watchVars, clock, sent, faults>>

\* Seeded fault: the stops do not wait for a callback in progress.
EncodersJoinedAtOnce == TRUE

\* AudioQueueStop is synchronous; -[AVCEncoder stop] waits for the parser's
\* reader queue, but returns at once when a rotation has cleared isEncoding.
EncodersJoined == aud.pc = "idle" /\ (vid = NoFrame \/ rotating)

\* The caller will hear of the broadcast's start after it has ended it.
StartUnheard == broadcasting /\ \E i \in DOMAIN mainQ : mainQ[i] = Notice("Started")

\* The stops have returned; stopStream goes on to disconnect.
EncodersStopped ==
  /\ EncodersJoined
  /\ \/ main = "joinStop" /\ Disconnect("Stopped")
     \/ main = "joinError" /\ main' = "idle" /\ UNCHANGED <<broadcasting, reason, timer>>
  /\ slips' = slips \cup (IF main = "joinStop" /\ StartUnheard THEN {"overtaken"} ELSE {})
  /\ UNCHANGED <<conn, mainQ, button, encoders, told, rtpVars, senderVars, sema,
                 audioVars, vid, rotating, wd, watch, missed, clock, sent, faults>>

-----------------------------------------------------------------------------
(* Main thread: the blocks of the main queue, in the order they were posted. *)

TakeBlock(k) ==
  /\ main = "idle" /\ mainQ # <<>> /\ Head(mainQ).kind = k
  /\ mainQ' = Tail(mainQ)

Tell == told' = [told EXCEPT ![Head(mainQ).sess] = Append(@, Head(mainQ).kind)]

OnStarted ==
  /\ TakeBlock("Started") /\ Tell
  /\ button' = "stop"
  /\ encoders' = encoders \cup {"cap"} \cup (IF HasAudio THEN {"aac"} ELSE {})
  /\ UNCHANGED <<broadcasting, conn, main, reason, rtpVars, senderVars, sema, audioVars,
                 videoVars, watchVars, clock, sent, faults>>

OnStopped ==
  /\ TakeBlock("Stopped") /\ Tell
  /\ button' = "start"
  /\ UNCHANGED <<broadcasting, conn, main, reason, encoders, rtpVars, senderVars, sema,
                 audioVars, videoVars, watchVars, clock, sent, faults>>

\* Seeded fault: the error callback forgets the AAC encoder.
StoppedOnFailureNotAac == {"cap", "avc"}

StoppedOnFailure == {"cap", "avc", "aac"}

\* kStreamError and kInvalidUserPass stop the encoders and free the button.
OnFailure ==
  /\ \E k \in {"Error", "BadPass"} : TakeBlock(k)
  /\ Tell
  /\ button' = "start"
  /\ encoders' = encoders \ StoppedOnFailure
  /\ main' = "joinError"
  /\ StopsInRotation
  /\ UNCHANGED <<broadcasting, conn, reason, rtpVars, senderVars, sema, audioVars, vid,
                 rotating, watchVars, clock, sent, faults>>

\* The reconnect connect: posts after an error, without the caller.
OnReconnect ==
  /\ TakeBlock("Reconnect")
  /\ Connect \/ (conn = MaxConnects /\ UNCHANGED <<conn, main, retained, audioInc, missed>>)
  /\ UNCHANGED <<broadcasting, reason, button, encoders, told, rtpVars, queue, snd, sema,
                 avQueue, aud, videoVars, timer, wd, watch, clock, sent, faults>>

\* The watchdog's request to end the broadcast.
OnTimeout ==
  /\ TakeBlock("Timeout")
  /\ Disconnect("Error")
  /\ UNCHANGED <<conn, button, encoders, told, rtpVars, senderVars, sema, audioVars, videoVars,
                 wd, watch, missed, clock, sent, faults>>

-----------------------------------------------------------------------------
(* Sender queue q. *)

\* sendAV: nothing to do once the broadcast has ended.
SendAVStart(q) ==
  /\ At(q, "idle") /\ Block(q).kind = "video"
  /\ IF broadcasting THEN Goto(q, "drain") /\ UNCHANGED queue
     ELSE Pop(q) /\ UNCHANGED snd
  /\ UNCHANGED <<broadcasting, mainVars, rtpVars, retained, sema, audioVars, videoVars,
                 watchVars, clock, sent, faults>>

\* Seeded fault: audio captured with the frame goes out ahead of it.
AudioFirstOrEqual(q) == avQueue # <<>> /\ Head(avQueue).time <= Block(q).time

\* Audio goes out ahead of the frame only when it was captured before it.
AudioFirst(q) == avQueue # <<>> /\ Head(avQueue).time < Block(q).time

SendAVDrain(q) ==
  /\ At(q, "drain")
  /\ snd' = IF AudioFirst(q)
            THEN [snd EXCEPT ![q] = [pc |-> "sendA", pkt |-> Head(avQueue)]]
            ELSE [snd EXCEPT ![q].pc = "sendV"]
  /\ UNCHANGED <<broadcasting, mainVars, rtpVars, queue, retained, sema, audioVars, videoVars,
                 watchVars, clock, sent, faults>>

\* send_aac_au on the session aac_session points to now.
SendAudio(q) ==
  /\ At(q, "sendA")
  /\ sent' = Append(sent, [kind |-> "audio", time |-> snd[q].pkt.time, inc |-> snd[q].pkt.inc,
                           sess |-> snd[q].pkt.sess, on |-> aac])
  /\ faults' = faults \cup Use("aac", aac)
  /\ Goto(q, "remove")
  /\ UNCHANGED <<broadcasting, mainVars, rtpVars, queue, retained, sema, audioVars, videoVars,
                 watchVars, clock>>

\* removeObjectAtIndex:0, under the lock the producer takes to append.
RemoveSent(q) ==
  /\ At(q, "remove")
  /\ IF avQueue = <<>> THEN faults' = faults \cup {"empty"} /\ UNCHANGED avQueue
     ELSE avQueue' = Tail(avQueue) /\ UNCHANGED faults
  /\ snd' = [snd EXCEPT ![q] = [pc |-> IF Block(q).kind = "video" THEN "drain" ELSE "loop",
                                pkt |-> NoPacket]]
  /\ UNCHANGED <<broadcasting, mainVars, rtpVars, queue, retained, sema, audioInc, aud, videoVars,
                 watchVars, clock, sent>>

\* send_nal, the end of sendAV.
SendVideo(q) ==
  /\ At(q, "sendV")
  /\ sent' = Append(sent, [kind |-> "video", time |-> Block(q).time, inc |-> Block(q).time,
                           sess |-> Block(q).sess, on |-> avc])
  /\ faults' = faults \cup Use("avc", avc)
  /\ Pop(q) /\ Goto(q, "idle")
  /\ UNCHANGED <<broadcasting, mainVars, rtpVars, retained, sema, audioVars, videoVars,
                 watchVars, clock>>

\* streamAudio: the loop that occupies the sender queue of an audio broadcast.
StreamLoop(q) ==
  /\ At(q, "idle") \/ At(q, "loop")
  /\ Block(q).kind = "stream"
  /\ IF ~broadcasting THEN Pop(q) /\ Goto(q, "idle")
     ELSE /\ snd' = [snd EXCEPT ![q] = IF avQueue = <<>> THEN [pc |-> "wait", pkt |-> NoPacket]
                                       ELSE [pc |-> "sendA", pkt |-> Head(avQueue)]]
          /\ UNCHANGED queue
  /\ UNCHANGED <<broadcasting, mainVars, rtpVars, retained, sema, audioVars, videoVars,
                 watchVars, clock, sent, faults>>

\* dispatch_semaphore_wait on a semaphore that has been released is undefined:
\* it returns, or it never does.
StreamWait(q) ==
  /\ At(q, "wait")
  /\ IF sema.live THEN Goto(q, "blocked") /\ UNCHANGED faults
     ELSE (\E pc \in {"loop", "hung"} : Goto(q, pc)) /\ faults' = faults \cup {"sema"}
  /\ UNCHANGED <<broadcasting, mainVars, rtpVars, queue, retained, sema, audioVars, videoVars,
                 watchVars, clock, sent>>

\* Seeded fault: the wait returns without a signal.
SignalledAlways == TRUE

Signalled == sema.count > 0

StreamWake(q) ==
  /\ At(q, "blocked") /\ Signalled
  /\ sema' = [sema EXCEPT !.count = @ - 1]
  /\ Goto(q, "loop")
  /\ UNCHANGED <<broadcasting, mainVars, rtpVars, queue, retained, audioVars, videoVars,
                 watchVars, clock, sent, faults>>

\* The close block: RTCP BYE and RTSP TEARDOWN unless the stream broke.
CloseBye(q) ==
  /\ At(q, "idle") /\ Block(q).kind = "close"
  /\ Goto(q, "bye")
  /\ faults' = faults \cup
       (IF reason = "Error" THEN {}
        ELSE (IF HasVideo THEN Use("avc", avc) ELSE {}) \cup
             (IF HasAudio THEN Use("aac", aac) ELSE {}))
  /\ UNCHANGED <<broadcasting, mainVars, rtpVars, queue, retained, sema, audioVars, videoVars,
                 watchVars, clock, sent>>

\* The sessions disconnectInternal: frees.
DoneOnClose == (IF HasAudio THEN {<<"aac", aac>>} ELSE {}) \cup
               (IF HasVideo THEN {<<"avc", avc>>} ELSE {})

\* Seeded fault: the queued audio is kept.
QueueAfterCloseKept == avQueue

\* removeAllObjects: nothing of this broadcast is left for the next one.
QueueAfterClose == <<>>

\* Free the RTP sessions, drop the queued audio, let the main thread go on.
CloseDone(q) ==
  /\ At(q, "bye")
  /\ live' = live \ DoneOnClose
  /\ faults' = faults \cup (IF DoneOnClose \subseteq live THEN {} ELSE {"rtp"})
  /\ avQueue' = QueueAfterClose
  /\ Pop(q) /\ Goto(q, "idle")
  /\ main' = "synced"
  /\ UNCHANGED <<broadcasting, conn, reason, mainQ, button, encoders, told, aac, avc, retained,
                 sema, audioInc, aud, videoVars, watchVars, clock, sent>>

-----------------------------------------------------------------------------
(* The encoder threads. *)

\* The audio queue delivers a packet; the delegate polls the flag.
AudioCaptured ==
  /\ "aac" \in encoders /\ aud.pc = "idle" /\ clock.audio < MaxTime
  /\ clock' = [clock EXCEPT !.audio = @ + 1]
  /\ aud' = IF broadcasting
            THEN [pc |-> "stamp", pkt |-> [time |-> clock.audio + 1, inc |-> 0, sess |-> conn]]
            ELSE aud
  /\ UNCHANGED <<broadcasting, mainVars, rtpVars, senderVars, sema, avQueue, audioInc, videoVars,
                 watchVars, sent, faults>>

\* The RTP time: the capture time of the first packet, one frame more for each
\* later one.
NextInc == IF audioInc = 0 THEN aud.pkt.time ELSE audioInc + 1

AudioStamped ==
  /\ aud.pc = "stamp"
  /\ audioInc' = NextInc
  /\ aud' = [pc |-> "enqueue", pkt |-> [aud.pkt EXCEPT !.inc = NextInc]]
  /\ UNCHANGED <<broadcasting, mainVars, rtpVars, senderVars, sema, avQueue, videoVars, watchVars,
                 clock, sent, faults>>

\* Seeded fault: a full queue drops its oldest packet.
EnqueuedDropOldest ==
  IF avQueue # <<>> THEN Append(Tail(avQueue), aud.pkt) ELSE Append(avQueue, aud.pkt)

\* addObject: under the lock; kQueueMaximumDepth is defined but never consulted.
Enqueued == Append(avQueue, aud.pkt)

\* Seeded fault: the sender is not told of the packet.
NeedsSignalNever == FALSE

NeedsSignal == AudioOnly

AudioEnqueued ==
  /\ aud.pc = "enqueue"
  /\ avQueue' = Enqueued
  /\ aud' = [pc |-> IF NeedsSignal THEN "signal" ELSE "idle", pkt |-> NoPacket]
  /\ UNCHANGED <<broadcasting, mainVars, rtpVars, senderVars, sema, audioInc, videoVars, watchVars,
                 clock, sent, faults>>

AudioSignalled ==
  /\ aud.pc = "signal"
  /\ aud' = [pc |-> "idle", pkt |-> NoPacket]
  /\ IF sema.live THEN sema' = [sema EXCEPT !.count = @ + 1] /\ UNCHANGED faults
     ELSE faults' = faults \cup {"sema"} /\ UNCHANGED sema
  /\ UNCHANGED <<broadcasting, mainVars, rtpVars, senderVars, avQueue, audioInc, videoVars, watchVars,
                 clock, sent>>

\* The parser delivers an encoded frame; presentation times increase.
VideoCaptured ==
  /\ {"avc", "cap"} \subseteq encoders /\ vid = NoFrame
  /\ \E t \in Times :
       /\ t > clock.video
       /\ clock' = [clock EXCEPT !.video = t]
       /\ vid' = IF broadcasting THEN [time |-> t, sess |-> conn] ELSE vid
  /\ UNCHANGED <<broadcasting, mainVars, rtpVars, senderVars, sema, audioVars, rotating,
                 slips, watchVars, sent, faults>>

\* dispatch_async to whatever sender_queue points to by now.  Pending blocks
\* keep a released queue alive; an empty released queue is gone.
VideoDispatched ==
  /\ vid # NoFrame
  /\ vid' = NoFrame
  /\ IF conn \in retained \/ queue[conn] # <<>>
     THEN queue' = [queue EXCEPT ![conn] = Append(@, FrameBlock(vid))] /\ UNCHANGED faults
     ELSE faults' = faults \cup {"queue"} /\ UNCHANGED queue
  /\ UNCHANGED <<broadcasting, mainVars, rtpVars, snd, retained, sema, audioVars, rotating,
                 slips, watchVars, clock, sent>>

-----------------------------------------------------------------------------
(* A rotation of the AVC encoder: setAveragebps: on the thread of the encoder's *)
(* timer or of the TCP buffer monitor (module AVCEncoder).                      *)

\* Past the check of isEncoding, which a stop under way may not have cleared.
RotationBegins ==
  /\ ~rotating
  /\ "avc" \in encoders \/ (HasVideo /\ main \in {"joinStop", "joinError"})
  /\ rotating' = TRUE
  /\ slips' = slips \cup (IF main \in {"joinStop", "joinError"} THEN {"tangled"} ELSE {})
  /\ UNCHANGED <<broadcasting, mainVars, rtpVars, senderVars, sema, audioVars, vid, watchVars,
                 clock, sent, faults>>

\* Its start runs the encoder again, whatever was stopped in the meantime.
RotationEnds ==
  /\ rotating /\ vid = NoFrame
  /\ rotating' = FALSE
  /\ encoders' = encoders \cup {"avc"}
  /\ UNCHANGED <<broadcasting, conn, main, reason, mainQ, button, told, rtpVars, senderVars,
                 sema, audioVars, vid, slips, watchVars, clock, sent, faults>>

-----------------------------------------------------------------------------
(* The RTCP watchdog created by attempt g (UDP only). *)

\* The handler fires, counts the round and enters rtp_recv on the first session.
WatchFires(g) ==
  /\ timer[g] = "armed" /\ wd[g].pc = "idle" /\ broadcasting
  /\ missed' = missed + 1
  /\ IF HasVideo
     THEN wd' = [wd EXCEPT ![g] = [pc |-> "avc", on |-> avc]] /\ faults' = faults \cup Use("avc", avc)
     ELSE wd' = [wd EXCEPT ![g] = [pc |-> "aac", on |-> aac]] /\ faults' = faults \cup Use("aac", aac)
  /\ UNCHANGED <<broadcasting, mainVars, rtpVars, senderVars, sema, audioVars, videoVars, timer, watch,
                 clock, sent>>

\* The video session's rtp_recv returns; its result is overwritten by the next.
WatchNext(g) ==
  /\ wd[g].pc = "avc" /\ HasAudio
  /\ wd' = [wd EXCEPT ![g] = [pc |-> "aac", on |-> aac]]
  /\ faults' = faults \cup Use("avc", wd[g].on) \cup Use("aac", aac)
  /\ UNCHANGED <<broadcasting, mainVars, rtpVars, senderVars, sema, audioVars, videoVars, timer, watch,
                 missed, clock, sent>>

MissLimit == 2

\* The last rtp_recv returns: a report resets the count, a second round without
\* one asks the main thread to disconnect and suspends the timer.
WatchDecides(g, got) ==
  /\ wd[g].pc = "aac" \/ (wd[g].pc = "avc" /\ ~HasAudio)
  /\ wd' = [wd EXCEPT ![g] = [pc |-> "idle", on |-> 0]]
  /\ faults' = faults \cup Use(wd[g].pc, wd[g].on)
  /\ missed' = IF got THEN 0 ELSE missed
  /\ IF ~got /\ missed >= MissLimit
     THEN /\ mainQ' = Append(mainQ, Notice("Timeout"))
          /\ timer' = [timer EXCEPT ![watch] = "off"]
     ELSE UNCHANGED <<mainQ, timer>>
  /\ UNCHANGED <<broadcasting, conn, main, reason, button, encoders, told, rtpVars, senderVars,
                 sema, audioVars, videoVars, watch, clock, sent>>

-----------------------------------------------------------------------------
MainStep ==
  \/ \E s \in Stages, n \in {"Error", "BadPass"} : SetupFails(s, n)
  \/ \E s \in {"none", "initAVC"} : SetupSucceeds(s)
  \/ Connected \/ SubmitClose \/ FinishDisconnect \/ EncodersStopped

MainBlock == OnStarted \/ OnStopped \/ OnFailure \/ OnReconnect \/ OnTimeout

User == StartStream \/ StopStream

SenderStep(q) ==
  \/ SendAVStart(q) \/ SendAVDrain(q) \/ SendAudio(q) \/ RemoveSent(q) \/ SendVideo(q)
  \/ StreamLoop(q) \/ StreamWait(q) \/ StreamWake(q)
  \/ CloseBye(q) \/ CloseDone(q)

AudioStep == AudioStamped \/ AudioEnqueued \/ AudioSignalled
RotationStep == RotationBegins \/ RotationEnds
WatchStep(g) == WatchFires(g) \/ WatchNext(g) \/ (\E got \in BOOLEAN : WatchDecides(g, got))

\* Every connect: of the bound is used up and nothing is left to do: the
\* application waits for a user who will not come.
AllQuiet ==
  /\ main = "idle" /\ mainQ = <<>> /\ EncodersJoined /\ ~broadcasting
  /\ \A q \in Attempts : queue[q] = <<>> /\ wd[q].pc = "idle"
Finished == conn = MaxConnects /\ AllQuiet /\ UNCHANGED vars

Next ==
  \/ User \/ MainStep \/ MainBlock
  \/ \E q \in Attempts : SenderStep(q)
  \/ AudioCaptured \/ AudioStep
  \/ VideoCaptured \/ VideoDispatched \/ RotationStep
  \/ \E g \in Attempts : WatchStep(g)
  \/ Finished

\* Every thread that can take a step eventually does: GCD schedules each queue
\* and timer, and every RTSP request, RTP call and select is bounded by a
\* timeout.  The run loop drains the main queue on every turn, so a posted block
\* is not put off for ever by user events (strong fairness).  The user and the
\* capture hardware owe nothing.
Fairness ==
  /\ WF_vars(MainStep)
  /\ SF_vars(MainBlock)
  /\ \A q \in Attempts : WF_vars(SenderStep(q))
  /\ WF_vars(AudioStep) /\ WF_vars(VideoDispatched) /\ WF_vars(RotationEnds)
  /\ \A g \in Attempts : WF_vars(WatchStep(g))

Spec     == Init /\ [][Next]_vars
FairSpec == Spec /\ Fairness

-----------------------------------------------------------------------------
(* Properties. *)

Kinds   == {"Started", "Stopped", "Error", "BadPass", "Reconnect", "Timeout"}
Notices == [kind : Kinds, sess : 0..MaxConnects]
Packets == [time : Nat, inc : Nat, sess : Nat]
Frames  == [time : Nat, sess : Nat]
Blocks  == [kind : {"video", "stream", "close"}, time : Nat, sess : Nat]
SentSet == [kind : {"audio", "video"}, time : Nat, inc : Nat, sess : Nat, on : Nat]
Handles == 0..MaxConnects
SenderPoints == {"idle", "drain", "sendA", "remove", "sendV", "loop", "wait", "blocked",
                 "hung", "bye"}
Senders == [pc : SenderPoints, pkt : Packets]
AudioAt == [pc : {"idle", "stamp", "enqueue", "signal"}, pkt : Packets]
WatchAt == [pc : {"idle", "avc", "aac"}, on : Handles]

MainTyped ==
  /\ broadcasting \in BOOLEAN /\ conn \in Handles
  /\ main \in {"idle", "setup", "connected", "flagged", "sync", "synced", "joinStop", "joinError"}
  /\ reason \in {"Stopped", "Error"}
  /\ mainQ \in Seq(Notices)
  /\ button \in {"start", "busy", "stop"} /\ encoders \subseteq {"avc", "cap", "aac"}
RtpTyped == aac \in Handles /\ avc \in Handles /\ live \subseteq {"aac", "avc"} \X Handles
SenderTyped ==
  /\ queue \in [Attempts -> Seq(Blocks)] /\ snd \in [Attempts -> Senders]
  /\ retained \subseteq Attempts /\ sema \in [live : BOOLEAN, count : Nat]
MediaTyped ==
  /\ avQueue \in Seq(Packets) /\ audioInc \in Nat
  /\ aud \in AudioAt /\ vid \in Frames /\ rotating \in BOOLEAN
  /\ clock \in [audio : Nat, video : Nat]
WatchTyped ==
  /\ timer \in [Attempts -> {"none", "armed", "off"}] /\ wd \in [Attempts -> WatchAt]
  /\ watch \in Handles /\ missed \in Nat
HistoryTyped ==
  /\ sent \in Seq(SentSet) /\ told \in [Attempts -> Seq(Kinds)]
  /\ faults \subseteq {"rtp", "sema", "queue", "empty"} /\ slips \subseteq {"tangled", "overtaken"}

\* Each instance variable keeps to the values its declaration allows: in
\* particular the semaphore's value is never negative.
TypeOK ==
  MainTyped /\ RtpTyped /\ SenderTyped /\ MediaTyped /\ WatchTyped /\ HistoryTyped

\* The caller hears of every attempt what the UI relies on: a start followed
\* by at most one end, or one failure, never both a failure and a start and
\* never two ends, however stop, watchdog and reconnect interleave.
CallbackProtocol ==
  \A a \in Attempts :
    told[a] \in {<<>>, <<"Error">>, <<"BadPass">>, <<"Started">>,
                 <<"Started", "Stopped">>, <<"Started", "Error">>}

\* No stop of the AVC encoder has met a rotation of it.
Untangled == "tangled" \notin slips

\* No RTP session, queue, semaphore or queue element is used after it was
\* freed, or before it exists, unless a stop fell into a rotation.
NoUseAfterFree == Untangled => faults = {}

\* The packet a sender block has in hand is still the head of avQueue when the
\* block removes it: nobody clears or consumes the queue behind its back, unless
\* a stop fell into a rotation.
HeadInHand == Untangled =>
  \A q \in Attempts : (At(q, "sendA") \/ At(q, "remove")) =>
    avQueue # <<>> /\ Head(avQueue) = snd[q].pkt

\* Whatever is sent goes out on a session of the broadcast it was captured in,
\* unless a stop fell into a rotation.
SentInOwnSession == Untangled => \A i \in DOMAIN sent : sent[i].sess = sent[i].on

\* The multiplexing order: audio in capture order and with growing RTP times,
\* frames in order, and no audio ahead of a frame captured earlier or with it,
\* unless a stop fell into a rotation.
MuxOrder == Untangled =>
  \A i, j \in DOMAIN sent : i < j =>
    /\ sent[i].kind = sent[j].kind => sent[i].time < sent[j].time
    /\ sent[i].kind = "audio" /\ sent[j].kind = "audio" /\ sent[i].on = sent[j].on
         => sent[i].inc < sent[j].inc
    /\ sent[i].kind = "audio" /\ sent[j].kind = "video" => sent[i].time < sent[j].time

\* Between two broadcasts no RTP session stays allocated, on any error path.
NoSessionLeak ==
  (main = "idle" /\ ~broadcasting) => live = {}

\* When everything that was posted has been handled, encoders run only for a
\* broadcast that is on, unless a stop fell into a rotation or came before the
\* caller had heard of the start.
EncodersNeedBroadcast ==
  (main = "idle" /\ mainQ = <<>> /\ encoders # {} /\ slips = {}) => broadcasting

\* streamAudio never sleeps on a packet: if it is blocked and a packet waits,
\* a signal is available or the producer is about to give it.
NoLostWakeup ==
  \A q \in Attempts :
    (At(q, "blocked") /\ avQueue # <<>>) => (sema.count > 0 \/ aud.pc = "signal")

\* "A block may be executing currently, but that is alright": when the handler
\* of the watchdog is executing while disconnectInternal: runs, the RTP session
\* it receives on stays allocated.
SessionOutlivesWatchdog ==
  \A g \in Attempts : wd[g].pc # "idle" => <<wd[g].pc, wd[g].on>> \in live

\* Every connect attempt is answered with a start or a failure.
ConnectAnswered == \A a \in Attempts : (conn = a) ~> (told[a] # <<>>)

\* A stop during a broadcast is answered with its end.
StopAnswered ==
  \A a \in Attempts :
    (main = "joinStop" /\ broadcasting /\ conn = a) ~> (Len(told[a]) = 2)

\* Once the watchdog has missed its two rounds the broadcast is ended.
TimeoutEnds ==
  (\E i \in DOMAIN mainQ : mainQ[i].kind = "Timeout") ~> ~broadcasting
=============================================================================
