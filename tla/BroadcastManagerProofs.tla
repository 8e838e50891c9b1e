----------------------- MODULE BroadcastManagerProofs -----------------------
(***************************************************************************)
(* Theorems about BroadcastManager, for every profile, every bound and     *)
(* every set of failing setup stages.                                      *)
(***************************************************************************)
EXTENDS BroadcastManager, TLAPS

(* Appending to one of a family of typed sequences keeps the family typed.  *)
LEMMA AppendTyped ==
  ASSUME NEW S, NEW T, NEW f \in [S -> Seq(T)], NEW k, NEW e \in T
  PROVE  [f EXCEPT ![k] = Append(@, e)] \in [S -> Seq(T)]
<1>1. SUFFICES ASSUME k \in S
               PROVE  [f EXCEPT ![k] = Append(@, e)] \in [S -> Seq(T)]
  OBVIOUS
<1>2. Append(f[k], e) \in Seq(T)
  BY <1>1
<1>3. QED
  BY <1>2

(* Finishing the block at the head of a sender queue keeps the queues typed. *)
LEMMA PopTyped ==
  ASSUME queue \in [Attempts -> Seq(Blocks)], NEW q \in Attempts,
         queue[q] # <<>>, Pop(q)
  PROVE  queue' \in [Attempts -> Seq(Blocks)]
<1>1. Tail(queue[q]) \in Seq(Blocks)
  OBVIOUS
<1>2. QED
  BY <1>1 DEF Pop

(* Moving a sender to another point keeps the packet it has in hand.        *)
LEMMA GotoTyped ==
  ASSUME snd \in [Attempts -> Senders], NEW q \in Attempts,
         NEW pc \in SenderPoints, Goto(q, pc)
  PROVE  snd' \in [Attempts -> Senders]
<1>1. [snd[q] EXCEPT !.pc = pc] \in Senders
  BY DEF Senders
<1>2. QED
  BY <1>1 DEF Goto

(* Telling the caller what the head notice says keeps the history typed.    *)
LEMMA TellTyped ==
  ASSUME mainQ \in Seq(Notices), mainQ # <<>>, told \in [Attempts -> Seq(Kinds)], Tell
  PROVE  told' \in [Attempts -> Seq(Kinds)]
<1>1. Head(mainQ) \in Notices
  OBVIOUS
<1>2. Head(mainQ).kind \in Kinds
  BY <1>1 DEF Notices
<1>3. [told EXCEPT ![Head(mainQ).sess] = Append(@, Head(mainQ).kind)]
        \in [Attempts -> Seq(Kinds)]
  BY <1>2, AppendTyped, Zenon
<1>4. QED
  BY <1>3 DEF Tell

(* The initial state satisfies the type invariant. *)
LEMMA InitTyped == Init => TypeOK
<1> SUFFICES ASSUME Init PROVE TypeOK
  OBVIOUS
<1> USE ConfigAssumption DEF ConfigAssumption, Init, Handles
<1>1. MainTyped
  <2>1. mainQ \in Seq(Notices)
    BY DEF Init
  <2>2. conn \in Handles
    OBVIOUS
  <2>3. broadcasting \in BOOLEAN
    OBVIOUS
  <2>4. QED
    BY <2>1, <2>2, <2>3 DEF MainTyped
<1>2. RtpTyped
  BY DEF RtpTyped
<1>3. SenderTyped
  BY DEF SenderTyped, Senders, SenderPoints, Packets, NoPacket
<1>4. MediaTyped
  <2>1. aud \in AudioAt /\ vid \in Frames
    BY DEF AudioAt, Packets, Frames, NoPacket, NoFrame
  <2>2. avQueue \in Seq(Packets) /\ audioInc \in Nat /\ clock \in [audio : Nat, video : Nat]
    BY DEF Packets
  <2>3. rotating \in BOOLEAN
    BY Zenon
  <2>4. QED
    BY <2>1, <2>2, <2>3, Zenon DEF MediaTyped
<1>5. WatchTyped
  BY DEF WatchTyped, WatchAt
<1>6. HistoryTyped
  BY DEF HistoryTyped
<1>7. QED
  BY <1>1, <1>2, <1>3, <1>4, <1>5, <1>6 DEF TypeOK

(* Every step preserves the type invariant: one step per action of Next,    *)
(* and under it one per part of the invariant the action can disturb.       *)
LEMMA NextTyped == ASSUME TypeOK, [Next]_vars PROVE TypeOK'
<1> USE DEF mainVars, rtpVars, senderVars, audioVars, videoVars, watchVars
<1>0. /\ MainTyped /\ RtpTyped /\ SenderTyped
      /\ MediaTyped /\ WatchTyped /\ HistoryTyped
  BY DEF TypeOK
<1>1. ASSUME StartStream PROVE TypeOK'
  <2>1. MainTyped'
    BY <1>0, <1>1, ConfigAssumption DEF StartStream, MainTyped, Connect,
      EnterConnect, ConnectWhileBroadcasting, HasVideo, Handles,
      ConfigAssumption
  <2>2. SenderTyped'
    <3>1. CASE EnterConnect
      BY <1>0, <1>1, <3>1, ConfigAssumption
      DEF StartStream, EnterConnect, SenderTyped, MainTyped, Attempts, Handles,
        ConfigAssumption
    <3>2. CASE ConnectWhileBroadcasting
      BY <1>0, <1>1, <3>2 DEF StartStream, ConnectWhileBroadcasting, SenderTyped
    <3>3. QED
      BY <1>1, <3>1, <3>2 DEF StartStream, Connect
  <2>3. MediaTyped'
    BY <1>0, <1>1 DEF StartStream, MediaTyped, Connect, EnterConnect,
      ConnectWhileBroadcasting, HasVideo
  <2>4. WatchTyped'
    BY <1>0, <1>1 DEF StartStream, WatchTyped, Connect, EnterConnect,
      ConnectWhileBroadcasting, HasVideo
  <2>5. RtpTyped' /\ HistoryTyped'
    BY <1>0, <1>1 DEF StartStream, RtpTyped, HistoryTyped, Connect,
      EnterConnect, ConnectWhileBroadcasting, HasVideo
  <2>6. QED
    BY <2>1, <2>2, <2>3, <2>4, <2>5 DEF TypeOK
<1>2. ASSUME StopStream PROVE TypeOK'
  <2>1. MainTyped'
    BY <1>0, <1>2 DEF StopStream, MainTyped
  <2>2. RtpTyped' /\ SenderTyped' /\ MediaTyped' /\ WatchTyped' /\ HistoryTyped'
    BY <1>0, <1>2 DEF StopStream, StopsInRotation, RtpTyped, SenderTyped, MediaTyped,
      WatchTyped, HistoryTyped
  <2>3. QED
    BY <2>1, <2>2 DEF TypeOK
<1>3. ASSUME Connected PROVE TypeOK'
  <2>1. MainTyped'
    BY <1>0, <1>3, ConfigAssumption DEF Connected, MainTyped, Notice, Stream,
      Notices, Kinds, Handles, ConfigAssumption
  <2>2. SenderTyped'
    <3>1. Stream \in Blocks
      BY <1>0 DEF Stream, Blocks, MainTyped, Handles
    <3>2. [queue EXCEPT ![conn] = Append(@, Stream)] \in [Attempts -> Seq(Blocks)]
      BY <1>0, <3>1, AppendTyped, Zenon DEF SenderTyped
    <3>3. QED
      BY <1>0, <1>3, <3>2 DEF Connected, SenderTyped
  <2>3. WatchTyped'
    BY <1>0, <1>3, ConfigAssumption DEF Connected, WatchTyped, Notice, Stream,
      MainTyped, Handles, ConfigAssumption
  <2>4. RtpTyped' /\ MediaTyped' /\ HistoryTyped'
    BY <1>0, <1>3 DEF Connected, RtpTyped, MediaTyped, HistoryTyped, Notice,
      Stream
  <2>5. QED
    BY <2>1, <2>2, <2>3, <2>4 DEF TypeOK
<1>4. ASSUME SubmitClose PROVE TypeOK'
  <2>1. MainTyped'
    BY <1>0, <1>4 DEF SubmitClose, MainTyped, Close
  <2>2. SenderTyped'
    <3>1. Close \in Blocks
      BY <1>0 DEF Close, Blocks, MainTyped, Handles
    <3>2. [queue EXCEPT ![conn] = Append(@, Close)] \in [Attempts -> Seq(Blocks)]
      BY <1>0, <3>1, AppendTyped, Zenon DEF SenderTyped
    <3>3. QED
      BY <1>0, <1>4, <3>2 DEF SubmitClose, SenderTyped
  <2>3. RtpTyped' /\ MediaTyped' /\ WatchTyped' /\ HistoryTyped'
    BY <1>0, <1>4 DEF SubmitClose, RtpTyped, MediaTyped, WatchTyped,
      HistoryTyped, Close
  <2>4. QED
    BY <2>1, <2>2, <2>3 DEF TypeOK
<1>5. ASSUME FinishDisconnect PROVE TypeOK'
  <2>1. MainTyped'
    BY <1>0, <1>5, ConfigAssumption DEF FinishDisconnect, MainTyped,
      TerminalNotice, Notice, Notices, Kinds, Handles, ConfigAssumption
  <2>2. SenderTyped'
    BY <1>0, <1>5 DEF FinishDisconnect, SenderTyped, TerminalNotice, Notice
  <2>3. RtpTyped' /\ MediaTyped' /\ WatchTyped' /\ HistoryTyped'
    BY <1>0, <1>5 DEF FinishDisconnect, RtpTyped, MediaTyped, WatchTyped,
      HistoryTyped, TerminalNotice, Notice
  <2>4. QED
    BY <2>1, <2>2, <2>3 DEF TypeOK
<1>6. ASSUME EncodersStopped PROVE TypeOK'
  <2>1. MainTyped'
    BY <1>0, <1>6 DEF EncodersStopped, MainTyped, Disconnect, EnterDisconnect
  <2>2. WatchTyped'
    BY <1>0, <1>6 DEF EncodersStopped, WatchTyped, Disconnect, EnterDisconnect
  <2>3. RtpTyped' /\ SenderTyped' /\ MediaTyped' /\ HistoryTyped'
    BY <1>0, <1>6 DEF EncodersStopped, RtpTyped, SenderTyped, MediaTyped,
      HistoryTyped, Disconnect, EnterDisconnect
  <2>4. QED
    BY <2>1, <2>2, <2>3 DEF TypeOK
<1>7. ASSUME OnStarted PROVE TypeOK'
  <2>1. MainTyped'
    BY <1>0, <1>7 DEF OnStarted, MainTyped, TakeBlock, Tell
  <2>2. HistoryTyped'
    <3>1. told' \in [Attempts -> Seq(Kinds)]
      BY <1>0, <1>7, TellTyped DEF OnStarted, TakeBlock, MainTyped, HistoryTyped
    <3>2. QED
      BY <1>0, <1>7, <3>1 DEF OnStarted, HistoryTyped
  <2>3. RtpTyped' /\ SenderTyped' /\ MediaTyped' /\ WatchTyped'
    BY <1>0, <1>7 DEF OnStarted, RtpTyped, SenderTyped, MediaTyped, WatchTyped,
      TakeBlock, Tell
  <2>4. QED
    BY <2>1, <2>2, <2>3 DEF TypeOK
<1>8. ASSUME OnStopped PROVE TypeOK'
  <2>1. MainTyped'
    BY <1>0, <1>8 DEF OnStopped, MainTyped, TakeBlock, Tell
  <2>2. HistoryTyped'
    <3>1. told' \in [Attempts -> Seq(Kinds)]
      BY <1>0, <1>8, TellTyped DEF OnStopped, TakeBlock, MainTyped, HistoryTyped
    <3>2. QED
      BY <1>0, <1>8, <3>1 DEF OnStopped, HistoryTyped
  <2>3. RtpTyped' /\ SenderTyped' /\ MediaTyped' /\ WatchTyped'
    BY <1>0, <1>8 DEF OnStopped, RtpTyped, SenderTyped, MediaTyped, WatchTyped,
      TakeBlock, Tell
  <2>4. QED
    BY <2>1, <2>2, <2>3 DEF TypeOK
<1>9. ASSUME OnFailure PROVE TypeOK'
  <2>1. MainTyped'
    BY <1>0, <1>9 DEF OnFailure, MainTyped, TakeBlock, Tell, StoppedOnFailure
  <2>2. HistoryTyped'
    <3>1. told' \in [Attempts -> Seq(Kinds)]
      BY <1>0, <1>9, TellTyped DEF OnFailure, TakeBlock, MainTyped, HistoryTyped
    <3>2. QED
      BY <1>0, <1>9, <3>1 DEF OnFailure, StopsInRotation, HistoryTyped
  <2>3. RtpTyped' /\ SenderTyped' /\ MediaTyped' /\ WatchTyped'
    BY <1>0, <1>9 DEF OnFailure, RtpTyped, SenderTyped, MediaTyped, WatchTyped,
      TakeBlock, Tell, StoppedOnFailure
  <2>4. QED
    BY <2>1, <2>2, <2>3 DEF TypeOK
<1>10. ASSUME OnReconnect PROVE TypeOK'
  <2>1. MainTyped'
    BY <1>0, <1>10, ConfigAssumption DEF OnReconnect, MainTyped, TakeBlock,
      Connect, EnterConnect, ConnectWhileBroadcasting, Handles, ConfigAssumption
  <2>2. SenderTyped'
    <3>1. CASE EnterConnect
      BY <1>0, <1>10, <3>1, ConfigAssumption
      DEF OnReconnect, EnterConnect, SenderTyped, MainTyped, Attempts, Handles,
        ConfigAssumption
    <3>2. CASE ConnectWhileBroadcasting
      BY <1>0, <1>10, <3>2 DEF OnReconnect, ConnectWhileBroadcasting, SenderTyped
    <3>3. CASE UNCHANGED retained
      BY <1>0, <1>10, <3>3 DEF OnReconnect, SenderTyped
    <3>4. QED
      BY <1>10, <3>1, <3>2, <3>3 DEF OnReconnect, Connect
  <2>3. MediaTyped'
    BY <1>0, <1>10 DEF OnReconnect, MediaTyped, TakeBlock, Connect,
      EnterConnect, ConnectWhileBroadcasting
  <2>4. WatchTyped'
    BY <1>0, <1>10 DEF OnReconnect, WatchTyped, TakeBlock, Connect,
      EnterConnect, ConnectWhileBroadcasting
  <2>5. RtpTyped' /\ HistoryTyped'
    BY <1>0, <1>10 DEF OnReconnect, RtpTyped, HistoryTyped, TakeBlock, Connect,
      EnterConnect, ConnectWhileBroadcasting
  <2>6. QED
    BY <2>1, <2>2, <2>3, <2>4, <2>5 DEF TypeOK
<1>11. ASSUME OnTimeout PROVE TypeOK'
  <2>1. MainTyped'
    <3>1. mainQ' \in Seq(Notices)
      BY <1>0, <1>11 DEF OnTimeout, TakeBlock, MainTyped
    <3>2. QED
      BY <1>0, <1>11, <3>1 DEF OnTimeout, Disconnect, EnterDisconnect, MainTyped
  <2>2. WatchTyped'
    BY <1>0, <1>11 DEF OnTimeout, WatchTyped, TakeBlock, Disconnect,
      EnterDisconnect
  <2>3. RtpTyped' /\ SenderTyped' /\ MediaTyped' /\ HistoryTyped'
    BY <1>0, <1>11 DEF OnTimeout, RtpTyped, SenderTyped, MediaTyped,
      HistoryTyped, TakeBlock, Disconnect, EnterDisconnect
  <2>4. QED
    BY <2>1, <2>2, <2>3 DEF TypeOK
<1>12. ASSUME AudioCaptured PROVE TypeOK'
  <2>1. MediaTyped'
    <3>0. aud \in AudioAt /\ clock \in [audio : Nat, video : Nat] /\ conn \in Nat
      BY <1>0, ConfigAssumption DEF MediaTyped, MainTyped, Handles, ConfigAssumption
    <3>1. aud' \in AudioAt /\ clock' \in [audio : Nat, video : Nat]
      BY <1>12, <3>0 DEF AudioCaptured, AudioAt, Packets
    <3>2. avQueue' = avQueue /\ audioInc' = audioInc /\ vid' = vid /\ rotating' = rotating
      BY <1>12 DEF AudioCaptured
    <3>3. QED
      BY <1>0, <3>1, <3>2, Zenon DEF MediaTyped
  <2>2. MainTyped' /\ RtpTyped' /\ SenderTyped' /\ WatchTyped' /\ HistoryTyped'
    BY <1>0, <1>12 DEF AudioCaptured, MainTyped, RtpTyped, SenderTyped,
      WatchTyped, HistoryTyped
  <2>3. QED
    BY <2>1, <2>2 DEF TypeOK
<1>13. ASSUME AudioStamped PROVE TypeOK'
  <2>1. MediaTyped'
    <3>1. NextInc \in Nat
      BY <1>0 DEF NextInc, MediaTyped, AudioAt, Packets
    <3>2. [aud.pkt EXCEPT !.inc = NextInc] \in Packets
      BY <1>0, <3>1 DEF MediaTyped, AudioAt, Packets
    <3>3. aud' \in AudioAt
      BY <1>13, <3>2 DEF AudioStamped, AudioAt
    <3>4. QED
      BY <1>0, <1>13, <3>1, <3>3 DEF AudioStamped, MediaTyped
  <2>2. MainTyped' /\ RtpTyped' /\ SenderTyped' /\ WatchTyped' /\ HistoryTyped'
    BY <1>0, <1>13 DEF AudioStamped, MainTyped, RtpTyped, SenderTyped,
      WatchTyped, HistoryTyped, NextInc
  <2>3. QED
    BY <2>1, <2>2 DEF TypeOK
<1>14. ASSUME AudioEnqueued PROVE TypeOK'
  <2>1. MediaTyped'
    BY <1>0, <1>14 DEF AudioEnqueued, MediaTyped, Enqueued, NoPacket,
      NeedsSignal, AudioAt, Packets
  <2>2. MainTyped' /\ RtpTyped' /\ SenderTyped' /\ WatchTyped' /\ HistoryTyped'
    BY <1>0, <1>14 DEF AudioEnqueued, MainTyped, RtpTyped, SenderTyped,
      WatchTyped, HistoryTyped, Enqueued, NoPacket, NeedsSignal
  <2>3. QED
    BY <2>1, <2>2 DEF TypeOK
<1>15. ASSUME AudioSignalled PROVE TypeOK'
  <2>1. SenderTyped'
    <3>1. sema' \in {sema, [sema EXCEPT !.count = @ + 1]}
      BY <1>15, Zenon DEF AudioSignalled
    <3>2. [sema EXCEPT !.count = @ + 1] \in [live : BOOLEAN, count : Nat]
      BY <1>0 DEF SenderTyped
    <3>3. QED
      BY <1>0, <1>15, <3>1, <3>2, Zenon DEF AudioSignalled, SenderTyped
  <2>2. MediaTyped'
    BY <1>0, <1>15 DEF AudioSignalled, MediaTyped, NoPacket, AudioAt, Packets
  <2>3. HistoryTyped'
    BY <1>0, <1>15 DEF AudioSignalled, HistoryTyped, NoPacket
  <2>4. MainTyped' /\ RtpTyped' /\ WatchTyped'
    BY <1>0, <1>15 DEF AudioSignalled, MainTyped, RtpTyped, WatchTyped, NoPacket
  <2>5. QED
    BY <2>1, <2>2, <2>3, <2>4 DEF TypeOK
<1>16. ASSUME VideoCaptured PROVE TypeOK'
  <2>1. MediaTyped'
    BY <1>0, <1>16, ConfigAssumption DEF VideoCaptured, MediaTyped, Times,
      NoFrame, Frames, MainTyped, Handles, ConfigAssumption
  <2>2. MainTyped' /\ RtpTyped' /\ SenderTyped' /\ WatchTyped' /\ HistoryTyped'
    BY <1>0, <1>16 DEF VideoCaptured, MainTyped, RtpTyped, SenderTyped,
      WatchTyped, HistoryTyped, Times, NoFrame
  <2>3. QED
    BY <2>1, <2>2 DEF TypeOK
<1>17. ASSUME VideoDispatched PROVE TypeOK'
  <2>1. SenderTyped'
    <3>1. FrameBlock(vid) \in Blocks
      BY <1>0 DEF FrameBlock, Blocks, MediaTyped, Frames
    <3>2. [queue EXCEPT ![conn] = Append(@, FrameBlock(vid))]
            \in [Attempts -> Seq(Blocks)]
      BY <1>0, <3>1, AppendTyped, Zenon DEF SenderTyped
    <3>3. QED
      BY <1>0, <1>17, <3>2 DEF VideoDispatched, SenderTyped
  <2>2. MediaTyped'
    BY <1>0, <1>17 DEF VideoDispatched, MediaTyped, NoFrame, FrameBlock, Frames
  <2>3. HistoryTyped'
    BY <1>0, <1>17 DEF VideoDispatched, HistoryTyped, NoFrame, FrameBlock
  <2>4. MainTyped' /\ RtpTyped' /\ WatchTyped'
    BY <1>0, <1>17 DEF VideoDispatched, MainTyped, RtpTyped, WatchTyped,
      NoFrame, FrameBlock
  <2>5. QED
    BY <2>1, <2>2, <2>3, <2>4 DEF TypeOK
<1>18. ASSUME NEW s \in Stages, NEW n \in {"Error", "BadPass"}, SetupFails(s, n) PROVE TypeOK'
  <2>1. MainTyped'
    <3>1. Notice(n) \in Notices /\ Notice("Reconnect") \in Notices
      BY <1>0 DEF Notice, Notices, Kinds, MainTyped, Handles
    <3>2. FailureNotices(n) \in Seq(Notices)
      BY <3>1 DEF FailureNotices
    <3>3. QED
      BY <1>0, <1>18, <3>2 DEF SetupFails, MainTyped
  <2>2. RtpTyped'
    BY <1>0, <1>18, ConfigAssumption DEF SetupFails, RtpTyped, SetupRtp,
      AacAfter, AvcAfter, Created, DoneOnError, FailureNotices, Notice,
      MainTyped, Handles, ConfigAssumption
  <2>3. HistoryTyped'
    BY <1>0, <1>18 DEF SetupFails, HistoryTyped, SetupRtp, AacAfter, AvcAfter,
      Created, DoneOnError, FailureNotices, Notice
  <2>4. SenderTyped' /\ MediaTyped' /\ WatchTyped'
    BY <1>0, <1>18 DEF SetupFails, SenderTyped, MediaTyped, WatchTyped,
      SetupRtp, AacAfter, AvcAfter, Created, DoneOnError, FailureNotices, Notice
  <2>5. QED
    BY <2>1, <2>2, <2>3, <2>4 DEF TypeOK
<1>19. ASSUME NEW s \in {"none", "initAVC"}, SetupSucceeds(s) PROVE TypeOK'
  <2>1. MainTyped'
    BY <1>0, <1>19 DEF SetupSucceeds, MainTyped, SetupRtp, AacAfter, AvcAfter,
      Created, DoneOnError
  <2>2. RtpTyped'
    BY <1>0, <1>19, ConfigAssumption DEF SetupSucceeds, RtpTyped, SetupRtp,
      AacAfter, AvcAfter, Created, DoneOnError, MainTyped, Handles,
      ConfigAssumption
  <2>3. HistoryTyped'
    BY <1>0, <1>19 DEF SetupSucceeds, HistoryTyped, SetupRtp, AacAfter,
      AvcAfter, Created, DoneOnError
  <2>4. SenderTyped' /\ MediaTyped' /\ WatchTyped'
    BY <1>0, <1>19 DEF SetupSucceeds, SenderTyped, MediaTyped, WatchTyped,
      SetupRtp, AacAfter, AvcAfter, Created, DoneOnError
  <2>5. QED
    BY <2>1, <2>2, <2>3, <2>4 DEF TypeOK
<1>20. ASSUME NEW q \in Attempts, SendAVStart(q) PROVE TypeOK'
  <2>1. SenderTyped'
    <3>1. queue' \in [Attempts -> Seq(Blocks)]
      BY <1>0, <1>20, PopTyped DEF SendAVStart, SenderTyped, At
    <3>2. snd' \in [Attempts -> Senders]
      BY <1>0, <1>20, GotoTyped DEF SendAVStart, SenderTyped, SenderPoints
    <3>3. QED
      BY <1>0, <1>20, <3>1, <3>2 DEF SendAVStart, SenderTyped
  <2>2. MainTyped' /\ RtpTyped' /\ MediaTyped' /\ WatchTyped' /\ HistoryTyped'
    BY <1>0, <1>20 DEF SendAVStart, MainTyped, RtpTyped, MediaTyped, WatchTyped,
      HistoryTyped, At, Block, Goto, Pop
  <2>3. QED
    BY <2>1, <2>2 DEF TypeOK
<1>21. ASSUME NEW q \in Attempts, SendAVDrain(q) PROVE TypeOK'
  <2>1. SenderTyped'
    <3>1. CASE AudioFirst(q)
      <4>1. Head(avQueue) \in Packets
        BY <1>0, <3>1 DEF MediaTyped, AudioFirst
      <4>2. QED
        BY <1>0, <1>21, <3>1, <4>1 DEF SendAVDrain, SenderTyped, Senders, SenderPoints
    <3>2. CASE ~AudioFirst(q)
      <4>1. Goto(q, "sendV")
        BY <1>21, <3>2 DEF SendAVDrain, Goto
      <4>2. QED
        BY <1>0, <1>21, <4>1, GotoTyped DEF SendAVDrain, SenderTyped, SenderPoints
    <3>3. QED
      BY <3>1, <3>2
  <2>2. MainTyped' /\ RtpTyped' /\ MediaTyped' /\ WatchTyped' /\ HistoryTyped'
    BY <1>0, <1>21 DEF SendAVDrain, MainTyped, RtpTyped, MediaTyped, WatchTyped,
      HistoryTyped, At
  <2>3. QED
    BY <2>1, <2>2 DEF TypeOK
<1>22. ASSUME NEW q \in Attempts, SendAudio(q) PROVE TypeOK'
  <2>1. SenderTyped'
    <3>1. snd' \in [Attempts -> Senders]
      BY <1>0, <1>22, GotoTyped DEF SendAudio, SenderTyped, SenderPoints
    <3>2. QED
      BY <1>0, <1>22, <3>1 DEF SendAudio, SenderTyped
  <2>2. HistoryTyped'
    BY <1>0, <1>22, ConfigAssumption DEF SendAudio, HistoryTyped, At, Goto, Use,
      SentSet, SenderTyped, RtpTyped, Senders, Packets, Handles,
      ConfigAssumption
  <2>3. MainTyped' /\ RtpTyped' /\ MediaTyped' /\ WatchTyped'
    BY <1>0, <1>22 DEF SendAudio, MainTyped, RtpTyped, MediaTyped, WatchTyped,
      At, Goto, Use
  <2>4. QED
    BY <2>1, <2>2, <2>3 DEF TypeOK
<1>23. ASSUME NEW q \in Attempts, RemoveSent(q) PROVE TypeOK'
  <2>1. SenderTyped'
    <3>1. [pc |-> IF Block(q).kind = "video" THEN "drain" ELSE "loop",
           pkt |-> NoPacket] \in Senders
      BY DEF Senders, SenderPoints, Packets, NoPacket
    <3>2. QED
      BY <1>0, <1>23, <3>1 DEF RemoveSent, SenderTyped
  <2>2. MediaTyped'
    <3>0. avQueue \in Seq(Packets)
      BY <1>0 DEF MediaTyped
    <3>1. avQueue' \in Seq(Packets)
      BY <1>23, <3>0 DEF RemoveSent
    <3>2. audioInc' = audioInc /\ aud' = aud /\ vid' = vid /\ rotating' = rotating /\ clock' = clock
      BY <1>23 DEF RemoveSent
    <3>3. QED
      BY <1>0, <3>1, <3>2, Zenon DEF MediaTyped
  <2>3. HistoryTyped'
    BY <1>0, <1>23 DEF RemoveSent, HistoryTyped, At, Block, NoPacket
  <2>4. MainTyped' /\ RtpTyped' /\ WatchTyped'
    BY <1>0, <1>23 DEF RemoveSent, MainTyped, RtpTyped, WatchTyped, At, Block,
      NoPacket
  <2>5. QED
    BY <2>1, <2>2, <2>3, <2>4 DEF TypeOK
<1>24. ASSUME NEW q \in Attempts, SendVideo(q) PROVE TypeOK'
  <2>1. SenderTyped'
    <3>1. queue' \in [Attempts -> Seq(Blocks)]
      BY <1>0, <1>24, PopTyped DEF SendVideo, SenderTyped, At
    <3>2. snd' \in [Attempts -> Senders]
      BY <1>0, <1>24, GotoTyped DEF SendVideo, SenderTyped, SenderPoints
    <3>3. QED
      BY <1>0, <1>24, <3>1, <3>2 DEF SendVideo, SenderTyped
  <2>2. HistoryTyped'
    <3>1. Block(q) \in Blocks
      BY <1>0, <1>24 DEF SendVideo, At, Block, SenderTyped
    <3>2. sent' \in Seq(SentSet)
      BY <1>0, <1>24, <3>1
      DEF SendVideo, HistoryTyped, SentSet, Blocks, RtpTyped, Handles
    <3>3. QED
      BY <1>0, <1>24, <3>2 DEF SendVideo, Use, HistoryTyped
  <2>3. MainTyped' /\ RtpTyped' /\ MediaTyped' /\ WatchTyped'
    BY <1>0, <1>24 DEF SendVideo, MainTyped, RtpTyped, MediaTyped, WatchTyped,
      At, Block, Goto, Pop, Use
  <2>4. QED
    BY <2>1, <2>2, <2>3 DEF TypeOK
<1>25. ASSUME NEW q \in Attempts, StreamLoop(q) PROVE TypeOK'
  <2>1. SenderTyped'
    <3>1. CASE broadcasting
      <4>1. [pc |-> "wait", pkt |-> NoPacket] \in Senders
        BY DEF Senders, SenderPoints, Packets, NoPacket
      <4>2. ASSUME avQueue # <<>>
            PROVE  [pc |-> "sendA", pkt |-> Head(avQueue)] \in Senders
        <5>1. Head(avQueue) \in Packets
          BY <1>0, <4>2 DEF MediaTyped
        <5>2. QED
          BY <5>1 DEF Senders, SenderPoints
      <4>3. QED
        BY <1>0, <1>25, <3>1, <4>1, <4>2 DEF StreamLoop, SenderTyped
    <3>2. CASE ~broadcasting
      <4>1. queue' \in [Attempts -> Seq(Blocks)]
        BY <1>0, <1>25, <3>2, PopTyped DEF StreamLoop, SenderTyped, At
      <4>2. snd' \in [Attempts -> Senders]
        BY <1>0, <1>25, <3>2, GotoTyped DEF StreamLoop, SenderTyped, SenderPoints
      <4>3. QED
        BY <1>0, <1>25, <4>1, <4>2 DEF StreamLoop, SenderTyped
    <3>3. QED
      BY <3>1, <3>2
  <2>2. MainTyped' /\ RtpTyped' /\ MediaTyped' /\ WatchTyped' /\ HistoryTyped'
    BY <1>0, <1>25 DEF StreamLoop, MainTyped, RtpTyped, MediaTyped, WatchTyped,
      HistoryTyped, At, Block, Goto, Pop, NoPacket
  <2>3. QED
    BY <2>1, <2>2 DEF TypeOK
<1>26. ASSUME NEW q \in Attempts, StreamWait(q) PROVE TypeOK'
  <2>1. SenderTyped'
    <3>1. snd' \in [Attempts -> Senders]
      BY <1>0, <1>26, GotoTyped DEF StreamWait, SenderTyped, SenderPoints
    <3>2. QED
      BY <1>0, <1>26, <3>1 DEF StreamWait, SenderTyped
  <2>2. HistoryTyped'
    BY <1>0, <1>26 DEF StreamWait, HistoryTyped, At, Goto
  <2>3. MainTyped' /\ RtpTyped' /\ MediaTyped' /\ WatchTyped'
    BY <1>0, <1>26 DEF StreamWait, MainTyped, RtpTyped, MediaTyped, WatchTyped,
      At, Goto
  <2>4. QED
    BY <2>1, <2>2, <2>3 DEF TypeOK
<1>27. ASSUME NEW q \in Attempts, StreamWake(q) PROVE TypeOK'
  <2>1. SenderTyped'
    <3>1. snd' \in [Attempts -> Senders]
      BY <1>0, <1>27, GotoTyped DEF StreamWake, SenderTyped, SenderPoints
    <3>2. QED
      BY <1>0, <1>27, <3>1 DEF StreamWake, SenderTyped, Signalled
  <2>2. MainTyped' /\ RtpTyped' /\ MediaTyped' /\ WatchTyped' /\ HistoryTyped'
    BY <1>0, <1>27 DEF StreamWake, MainTyped, RtpTyped, MediaTyped, WatchTyped,
      HistoryTyped, At, Goto, Signalled
  <2>3. QED
    BY <2>1, <2>2 DEF TypeOK
<1>28. ASSUME NEW q \in Attempts, CloseBye(q) PROVE TypeOK'
  <2>1. SenderTyped'
    <3>1. snd' \in [Attempts -> Senders]
      BY <1>0, <1>28, GotoTyped DEF CloseBye, SenderTyped, SenderPoints
    <3>2. QED
      BY <1>0, <1>28, <3>1 DEF CloseBye, SenderTyped
  <2>2. HistoryTyped'
    BY <1>0, <1>28 DEF CloseBye, HistoryTyped, At, Goto, Use
  <2>3. MainTyped' /\ RtpTyped' /\ MediaTyped' /\ WatchTyped'
    BY <1>0, <1>28 DEF CloseBye, MainTyped, RtpTyped, MediaTyped, WatchTyped,
      At, Goto, Use
  <2>4. QED
    BY <2>1, <2>2, <2>3 DEF TypeOK
<1>29. ASSUME NEW q \in Attempts, CloseDone(q) PROVE TypeOK'
  <2>1. MainTyped'
    BY <1>0, <1>29 DEF CloseDone, MainTyped, At, Goto, Pop, QueueAfterClose
  <2>2. RtpTyped'
    BY <1>0, <1>29 DEF CloseDone, RtpTyped, At, Goto, Pop, QueueAfterClose
  <2>3. SenderTyped'
    <3>1. queue' \in [Attempts -> Seq(Blocks)]
      BY <1>0, <1>29, PopTyped DEF CloseDone, SenderTyped, At
    <3>2. snd' \in [Attempts -> Senders]
      BY <1>0, <1>29, GotoTyped DEF CloseDone, SenderTyped, SenderPoints
    <3>3. QED
      BY <1>0, <1>29, <3>1, <3>2 DEF CloseDone, SenderTyped
  <2>4. MediaTyped'
    BY <1>0, <1>29 DEF CloseDone, MediaTyped, At, Goto, Pop, QueueAfterClose
  <2>5. HistoryTyped'
    BY <1>0, <1>29 DEF CloseDone, HistoryTyped, At, Goto, Pop, QueueAfterClose
  <2>6. WatchTyped'
    BY <1>0, <1>29 DEF CloseDone, WatchTyped, At, Goto, Pop, QueueAfterClose
  <2>7. QED
    BY <2>1, <2>2, <2>3, <2>4, <2>5, <2>6 DEF TypeOK
<1>30. ASSUME NEW g \in Attempts, WatchFires(g) PROVE TypeOK'
  <2>1. WatchTyped'
    BY <1>0, <1>30 DEF WatchFires, WatchTyped, Use, WatchAt, RtpTyped
  <2>2. HistoryTyped'
    BY <1>0, <1>30 DEF WatchFires, HistoryTyped, Use
  <2>3. MainTyped' /\ RtpTyped' /\ SenderTyped' /\ MediaTyped'
    BY <1>0, <1>30 DEF WatchFires, MainTyped, RtpTyped, SenderTyped, MediaTyped,
      Use
  <2>4. QED
    BY <2>1, <2>2, <2>3 DEF TypeOK
<1>31. ASSUME NEW g \in Attempts, WatchNext(g) PROVE TypeOK'
  <2>1. WatchTyped'
    BY <1>0, <1>31 DEF WatchNext, WatchTyped, Use, WatchAt, RtpTyped
  <2>2. HistoryTyped'
    BY <1>0, <1>31 DEF WatchNext, HistoryTyped, Use
  <2>3. MainTyped' /\ RtpTyped' /\ SenderTyped' /\ MediaTyped'
    BY <1>0, <1>31 DEF WatchNext, MainTyped, RtpTyped, SenderTyped, MediaTyped,
      Use
  <2>4. QED
    BY <2>1, <2>2, <2>3 DEF TypeOK
<1>32. ASSUME NEW g \in Attempts, NEW got \in BOOLEAN, WatchDecides(g, got) PROVE TypeOK'
  <2>1. MainTyped'
    <3>1. Notice("Timeout") \in Notices
      BY <1>0 DEF Notice, Notices, Kinds, MainTyped, Handles
    <3>2. QED
      BY <1>0, <1>32, <3>1 DEF WatchDecides, MainTyped
  <2>2. WatchTyped'
    <3>1. timer' \in [Attempts -> {"none", "armed", "off"}]
      BY <1>0, <1>32 DEF WatchDecides, WatchTyped
    <3>2. wd' \in [Attempts -> WatchAt]
      BY <1>0, <1>32, ConfigAssumption
      DEF WatchDecides, WatchTyped, WatchAt, Handles, ConfigAssumption
    <3>3. missed' \in Nat /\ UNCHANGED watch
      BY <1>0, <1>32 DEF WatchDecides, WatchTyped
    <3>4. QED
      BY <1>0, <3>1, <3>2, <3>3 DEF WatchTyped
  <2>3. HistoryTyped'
    BY <1>0, <1>32 DEF WatchDecides, HistoryTyped, Use, Notice
  <2>4. RtpTyped' /\ SenderTyped' /\ MediaTyped'
    BY <1>0, <1>32 DEF WatchDecides, RtpTyped, SenderTyped, MediaTyped, Use,
      Notice
  <2>5. QED
    BY <2>1, <2>2, <2>3, <2>4 DEF TypeOK
<1>33. ASSUME Finished PROVE TypeOK'
  BY <1>0, <1>33 DEF Finished, vars, TypeOK, MainTyped, RtpTyped, SenderTyped,
    MediaTyped, WatchTyped, HistoryTyped
<1>34. ASSUME UNCHANGED vars PROVE TypeOK'
  BY <1>0, <1>34 DEF vars, TypeOK, MainTyped, RtpTyped, SenderTyped, MediaTyped,
    WatchTyped, HistoryTyped
<1>35. ASSUME RotationBegins PROVE TypeOK'
  BY <1>0, <1>35 DEF RotationBegins, TypeOK, MainTyped, RtpTyped, SenderTyped, MediaTyped,
    WatchTyped, HistoryTyped
<1>36. ASSUME RotationEnds PROVE TypeOK'
  BY <1>0, <1>36 DEF RotationEnds, TypeOK, MainTyped, RtpTyped, SenderTyped, MediaTyped,
    WatchTyped, HistoryTyped
<1>37. QED
  BY <1>1, <1>2, <1>3, <1>4, <1>5, <1>6, <1>7, <1>8, <1>9, <1>10, <1>11, <1>12,
    <1>13, <1>14, <1>15, <1>16, <1>17, <1>18, <1>19, <1>20, <1>21, <1>22, <1>23,
    <1>24, <1>25, <1>26, <1>27, <1>28, <1>29, <1>30, <1>31, <1>32, <1>33,
    <1>34, <1>35, <1>36
  DEF Next, User, MainStep, MainBlock, SenderStep, AudioStep, RotationStep, WatchStep

(* Type correctness: no interleaving of the threads takes an instance       *)
(* variable out of its declared range (LivuBroadcastManager.h:41-63).       *)
THEOREM TypeCorrect == Spec => []TypeOK
<1>1. Init => TypeOK
  BY InitTyped
<1>2. TypeOK /\ [Next]_vars => TypeOK'
  BY NextTyped
<1>3. QED
  BY <1>1, <1>2, PTL DEF Spec

-----------------------------------------------------------------------------
(* No RTP session leaks.  NoSessionLeak alone is not inductive: a setup adds *)
(* sessions to whatever is allocated, and a disconnect frees the two the     *)
(* pointers name, so the proof needs that nothing is allocated when a setup  *)
(* begins and that the pointers name everything that is allocated.           *)

LeakInv ==
  /\ main = "setup" => ~broadcasting
  /\ (~broadcasting /\ main \notin {"flagged", "sync"}) => live = {}
  /\ live \subseteq DoneOnClose

(* What SetupRtp leaves allocated is what the new pointers name, and nothing *)
(* when the setup fails.                                                     *)
LEMMA SetupRtpFrees ==
  ASSUME NEW s \in Stages \cup {"none"}, Applicable(s), SetupRtp(s), live = {}
  PROVE  /\ live' \subseteq DoneOnClose'
         /\ s \notin {"none", "initAVC"} => live' = {}
<1>1. live' \subseteq DoneOnClose'
  BY DEF SetupRtp, Created, AacAfter, AvcAfter, DoneOnClose
<1>2. ASSUME s \in {"request", "setupAAC", "initAAC"} PROVE live' = {}
  BY <1>2 DEF SetupRtp, Created
<1>3. ASSUME s \in {"setupAVC", "record"} PROVE live' = {}
  <2>1. Created(s) \subseteq DoneOnError(s)
    BY <1>3 DEF Created, DoneOnError, AacAfter, AvcAfter
  <2>2. QED
    BY <2>1 DEF SetupRtp
<1>4. QED
  BY <1>1, <1>2, <1>3 DEF Stages

(* Every step preserves LeakInv. *)
LEMMA LeakStep == ASSUME LeakInv, [Next]_vars PROVE LeakInv'
<1> USE DEF mainVars, rtpVars, senderVars, audioVars, videoVars, watchVars
<1>1. ASSUME NEW s \in Stages, NEW n \in {"Error", "BadPass"}, SetupFails(s, n)
      PROVE  LeakInv'
  <2>1. live = {} /\ SetupRtp(s) /\ Applicable(s)
        /\ s \in Stages \cup {"none"} /\ s \notin {"none", "initAVC"}
    BY <1>1 DEF LeakInv, SetupFails, Stages
  <2>2. live' = {}
    BY <2>1, SetupRtpFrees
  <2>3. QED
    BY <1>1, <2>2 DEF LeakInv, SetupFails
<1>2. ASSUME NEW s \in {"none", "initAVC"}, SetupSucceeds(s) PROVE LeakInv'
  <2>1. live = {} /\ SetupRtp(s) /\ Applicable(s) /\ s \in Stages \cup {"none"}
    BY <1>2 DEF LeakInv, SetupSucceeds, Applicable, Stages
  <2>2. live' \subseteq DoneOnClose'
    BY <2>1, SetupRtpFrees
  <2>3. QED
    BY <1>2, <2>2 DEF LeakInv, SetupSucceeds
<1>3. ASSUME NEW q \in Attempts, CloseDone(q) PROVE LeakInv'
  <2>1. live' = {}
    BY <1>3 DEF LeakInv, CloseDone
  <2>2. QED
    BY <1>3, <2>1 DEF LeakInv, CloseDone
<1>4. ASSUME UNCHANGED <<aac, avc, live>>,
             main' = "setup" => ~broadcasting',
             (~broadcasting' /\ main' \notin {"flagged", "sync"})
               => (~broadcasting /\ main \notin {"flagged", "sync"})
      PROVE  LeakInv'
  BY <1>4 DEF LeakInv, DoneOnClose
<1>5. ASSUME StartStream \/ OnReconnect PROVE LeakInv'
  BY <1>4, <1>5
  DEF LeakInv, StartStream, OnReconnect, TakeBlock, Connect, EnterConnect,
    ConnectWhileBroadcasting
<1>6. ASSUME OnTimeout \/ EncodersStopped PROVE LeakInv'
  BY <1>4, <1>6
  DEF LeakInv, OnTimeout, EncodersStopped, TakeBlock, Disconnect, EnterDisconnect
<1>7. ASSUME Connected \/ SubmitClose \/ FinishDisconnect \/ StopStream
             \/ OnStarted \/ OnStopped \/ OnFailure
      PROVE  LeakInv'
  BY <1>4, <1>7
  DEF LeakInv, Connected, SubmitClose, FinishDisconnect, StopStream, OnStarted,
    OnStopped, OnFailure, TakeBlock
<1>8. ASSUME UNCHANGED <<broadcasting, main, aac, avc, live>> PROVE LeakInv'
  BY <1>4, <1>8 DEF LeakInv
<1>9. ASSUME NEW q \in Attempts, SenderStep(q), ~CloseDone(q) PROVE LeakInv'
  BY <1>8, <1>9
  DEF SenderStep, SendAVStart, SendAVDrain, SendAudio, RemoveSent, SendVideo,
    StreamLoop, StreamWait, StreamWake, CloseBye
<1>10. ASSUME AudioCaptured \/ AudioStep \/ VideoCaptured \/ VideoDispatched
             \/ RotationStep
      PROVE  LeakInv'
  BY <1>8, <1>10
  DEF AudioCaptured, AudioStep, AudioStamped, AudioEnqueued, AudioSignalled,
    VideoCaptured, VideoDispatched, RotationStep, RotationBegins, RotationEnds
<1>11. ASSUME NEW g \in Attempts, WatchStep(g) PROVE LeakInv'
  BY <1>8, <1>11 DEF WatchStep, WatchFires, WatchNext, WatchDecides
<1>12. ASSUME UNCHANGED vars PROVE LeakInv'
  BY <1>8, <1>12 DEF vars
<1>13. QED
  BY <1>1, <1>2, <1>3, <1>5, <1>6, <1>7, <1>9, <1>10, <1>11, <1>12
  DEF Next, User, MainStep, MainBlock, Finished

(* No error path of a setup and no disconnect leaves an RTP session          *)
(* allocated between two broadcasts: rtp_done in setupRTPUDPConnection,      *)
(* setupRTPTCPConnection and disconnectInternal: covers every profile,       *)
(* transport and failing stage.                                              *)
THEOREM NothingLeaks == Spec => []NoSessionLeak
<1>1. Init => LeakInv
  BY DEF Init, LeakInv
<1>2. LeakInv /\ [Next]_vars => LeakInv'
  BY LeakStep
<1>3. LeakInv => NoSessionLeak
  BY DEF LeakInv, NoSessionLeak
<1>4. QED
  BY <1>1, <1>2, <1>3, PTL DEF Spec
=============================================================================
