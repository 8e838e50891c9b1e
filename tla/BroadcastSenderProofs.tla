------------------------ MODULE BroadcastSenderProofs ------------------------
(***************************************************************************)
(* Theorems about the sender queues of BroadcastManager: what the blocks   *)
(* on them find when they run, and what they hand to the RTP library.      *)
(***************************************************************************)
EXTENDS BroadcastManagerProofs

-----------------------------------------------------------------------------
(* The invariant.  Its first three parts hold for every profile.            *)

(* Which blocks may be executing at each point of a sender queue.           *)
BlockKinds(pc) ==
  CASE pc \in {"drain", "sendV"} -> {"video"}
    [] pc \in {"sendA", "remove"} -> {"video", "stream"}
    [] pc \in {"loop", "wait", "blocked", "hung"} -> {"stream"}
    [] pc = "bye" -> {"close"}
    [] OTHER -> {"video", "stream", "close"}

KindInv ==
  \A q \in Attempts :
    /\ snd[q].pc # "idle" => queue[q] # <<>>
    /\ queue[q] # <<>> => queue[q][1].kind \in BlockKinds(snd[q].pc)

(* dispatch_sync: the main thread waits while its close block is queued.    *)
SyncInv ==
  \A q \in Attempts : \A i \in DOMAIN queue[q] :
    queue[q][i].kind = "close" =>
      /\ main = "sync" /\ q = conn
      /\ \A j \in DOMAIN queue[q] : queue[q][j].kind = "close" => i = j

(* The flag and the main thread.                                            *)
FlagInv ==
  /\ main = "connected" => broadcasting
  /\ main \in {"setup", "flagged", "sync", "synced"} => ~broadcasting
  /\ (broadcasting \/ main \in {"setup", "flagged", "sync", "synced"} \/ vid # NoFrame)
       => conn \in Attempts

ThreadInv == KindInv /\ SyncInv /\ FlagInv

-----------------------------------------------------------------------------
(* What happens to a sender queue. *)

(* The block at the head is finished.                                       *)
LEMMA PopFacts ==
  ASSUME queue \in [Attempts -> Seq(Blocks)], NEW q \in Attempts, queue[q] # <<>>, Pop(q)
  PROVE  /\ \A p \in Attempts : p # q => queue'[p] = queue[p]
         /\ Len(queue[q]) \in Nat /\ Len(queue'[q]) = Len(queue[q]) - 1
         /\ DOMAIN queue[q] = 1..Len(queue[q]) /\ DOMAIN queue'[q] = 1..(Len(queue[q]) - 1)
         /\ \A i \in DOMAIN queue'[q] :
              i \in Nat /\ i + 1 \in DOMAIN queue[q] /\ queue'[q][i] = queue[q][i + 1]
<1>1. PICK s \in Seq(Blocks) : s = queue[q] /\ s # <<>>
  OBVIOUS
<1>2. /\ queue'[q] = Tail(s)
      /\ \A p \in Attempts : p # q => queue'[p] = queue[p]
  BY <1>1 DEF Pop
<1>3. /\ Len(s) \in Nat /\ Len(s) > 0 /\ Len(Tail(s)) = Len(s) - 1
      /\ DOMAIN s = 1..Len(s) /\ DOMAIN Tail(s) = 1..(Len(s) - 1)
      /\ \A i \in DOMAIN Tail(s) : i \in Nat /\ i + 1 \in DOMAIN s /\ Tail(s)[i] = s[i + 1]
  BY <1>1
<1>4. QED
  BY <1>1, <1>2, <1>3

(* A block is put at the end.                                               *)
LEMMA PushFacts ==
  ASSUME queue \in [Attempts -> Seq(Blocks)], NEW k \in Attempts, NEW b \in Blocks,
         queue' = [queue EXCEPT ![k] = Append(@, b)]
  PROVE  /\ \A p \in Attempts : p # k => queue'[p] = queue[p]
         /\ Len(queue[k]) \in Nat /\ Len(queue'[k]) = Len(queue[k]) + 1
         /\ queue'[k] # <<>>
         /\ DOMAIN queue[k] = 1..Len(queue[k]) /\ DOMAIN queue'[k] = 1..(Len(queue[k]) + 1)
         /\ \A i \in DOMAIN queue[k] : queue'[k][i] = queue[k][i]
         /\ queue'[k][Len(queue[k]) + 1] = b
<1>1. PICK s \in Seq(Blocks) : s = queue[k]
  OBVIOUS
<1>2. /\ queue'[k] = Append(s, b)
      /\ \A p \in Attempts : p # k => queue'[p] = queue[p]
  BY <1>1
<1>3. /\ Len(s) \in Nat /\ Len(Append(s, b)) = Len(s) + 1 /\ Append(s, b) # <<>>
      /\ DOMAIN s = 1..Len(s) /\ DOMAIN Append(s, b) = 1..(Len(s) + 1)
      /\ \A i \in DOMAIN s : Append(s, b)[i] = s[i]
      /\ Append(s, b)[Len(s) + 1] = b
  BY <1>1
<1>4. QED
  BY <1>1, <1>2, <1>3

(* A block moves on to another point.                                       *)
LEMMA GotoFacts ==
  ASSUME snd \in [Attempts -> Senders], NEW q \in Attempts, NEW pc, Goto(q, pc)
  PROVE  /\ snd'[q].pc = pc /\ snd'[q].pkt = snd[q].pkt
         /\ \A p \in Attempts : p # q => snd'[p] = snd[p]
BY DEF Goto, Senders

(* What any step of a sender queue does: it touches no other queue, and     *)
(* moves its head block on or finishes it.                                  *)
Moved(q) ==
  /\ queue[q] # <<>>
  /\ \A p \in Attempts : p # q => snd'[p] = snd[p]
  /\ \/ queue' = queue /\ snd'[q].pc # "idle" /\ queue[q][1].kind \in BlockKinds(snd'[q].pc)
     \/ Pop(q) /\ snd'[q].pc = "idle"

(* Every step of a sender queue is such a move.                              *)
LEMMA SenderMoves ==
  ASSUME TypeOK, KindInv, NEW q \in Attempts, SenderStep(q)
  PROVE  /\ Moved(q)
         /\ UNCHANGED <<broadcasting, conn, vid>>
         /\ main' = main \/ (main' = "synced" /\ CloseDone(q))
<1>0. /\ queue \in [Attempts -> Seq(Blocks)] /\ snd \in [Attempts -> Senders]
      /\ queue[q] # <<>> => Block(q) = queue[q][1] /\ Block(q) \in Blocks
  BY DEF TypeOK, SenderTyped, Block
<1>a. queue[q] # <<>> => queue[q][1].kind \in BlockKinds(snd[q].pc)
  BY DEF KindInv
<1>1. CASE SendAVStart(q)
  <2>1. /\ queue[q] # <<>> /\ snd[q].pc = "idle" /\ queue[q][1].kind = "video"
        /\ \/ Goto(q, "drain") /\ UNCHANGED queue
           \/ Pop(q) /\ UNCHANGED snd
    BY <1>0, <1>1 DEF SendAVStart, At
  <2>2. Moved(q)
    BY <1>0, <2>1, GotoFacts DEF Moved, BlockKinds
  <2>3. QED
    BY <1>1, <2>2 DEF SendAVStart, mainVars, videoVars
<1>2. CASE SendAVDrain(q)
  <2>1. /\ queue[q] # <<>> /\ snd[q].pc = "drain" /\ UNCHANGED queue
        /\ \/ Goto(q, "sendV")
           \/ snd' = [snd EXCEPT ![q] = [pc |-> "sendA", pkt |-> Head(avQueue)]]
    BY <1>2 DEF SendAVDrain, At, Goto
  <2>2. queue[q][1].kind = "video"
    BY <1>a, <2>1 DEF BlockKinds
  <2>3. Moved(q)
    BY <1>0, <2>1, <2>2, GotoFacts DEF Moved, BlockKinds
  <2>4. QED
    BY <1>2, <2>3 DEF SendAVDrain, mainVars, videoVars
<1>3. CASE SendAudio(q)
  <2>1. queue[q] # <<>> /\ snd[q].pc = "sendA" /\ UNCHANGED queue /\ Goto(q, "remove")
    BY <1>3 DEF SendAudio, At
  <2>2. Moved(q)
    BY <1>0, <1>a, <2>1, GotoFacts DEF Moved, BlockKinds
  <2>3. QED
    BY <1>3, <2>2 DEF SendAudio, mainVars, videoVars
<1>4. CASE RemoveSent(q)
  <2>1. /\ queue[q] # <<>> /\ snd[q].pc = "remove" /\ UNCHANGED queue
        /\ snd' = [snd EXCEPT ![q] = [pc |-> IF queue[q][1].kind = "video" THEN "drain" ELSE "loop",
                                      pkt |-> NoPacket]]
    BY <1>0, <1>4 DEF RemoveSent, At
  <2>2. queue[q][1].kind \in {"video", "stream"}
    BY <1>a, <2>1 DEF BlockKinds
  <2>3. Moved(q)
    BY <1>0, <2>1, <2>2 DEF Moved, BlockKinds
  <2>4. QED
    BY <1>4, <2>3 DEF RemoveSent, mainVars, videoVars
<1>5. CASE SendVideo(q)
  <2>1. queue[q] # <<>> /\ Pop(q) /\ Goto(q, "idle")
    BY <1>5 DEF SendVideo, At
  <2>2. Moved(q)
    BY <1>0, <2>1, GotoFacts DEF Moved
  <2>3. QED
    BY <1>5, <2>2 DEF SendVideo, mainVars, videoVars
<1>6. CASE StreamLoop(q)
  <2>1. /\ queue[q] # <<>> /\ queue[q][1].kind = "stream"
        /\ \/ Pop(q) /\ Goto(q, "idle")
           \/ /\ UNCHANGED queue
              /\ \/ snd' = [snd EXCEPT ![q] = [pc |-> "wait", pkt |-> NoPacket]]
                 \/ snd' = [snd EXCEPT ![q] = [pc |-> "sendA", pkt |-> Head(avQueue)]]
    BY <1>0, <1>6 DEF StreamLoop, At
  <2>2. Moved(q)
    BY <1>0, <2>1, GotoFacts DEF Moved, BlockKinds
  <2>3. QED
    BY <1>6, <2>2 DEF StreamLoop, mainVars, videoVars
<1>7. CASE StreamWait(q)
  <2>1. /\ queue[q] # <<>> /\ snd[q].pc = "wait" /\ UNCHANGED queue
        /\ \E pc \in {"blocked", "loop", "hung"} : Goto(q, pc)
    BY <1>7 DEF StreamWait, At
  <2>2. queue[q][1].kind = "stream"
    BY <1>a, <2>1 DEF BlockKinds
  <2>3. Moved(q)
    BY <1>0, <2>1, <2>2, GotoFacts DEF Moved, BlockKinds
  <2>4. QED
    BY <1>7, <2>3 DEF StreamWait, mainVars, videoVars
<1>8. CASE StreamWake(q)
  <2>1. queue[q] # <<>> /\ snd[q].pc = "blocked" /\ UNCHANGED queue /\ Goto(q, "loop")
    BY <1>8 DEF StreamWake, At
  <2>2. Moved(q)
    BY <1>0, <1>a, <2>1, GotoFacts DEF Moved, BlockKinds
  <2>3. QED
    BY <1>8, <2>2 DEF StreamWake, mainVars, videoVars
<1>9. CASE CloseBye(q)
  <2>1. queue[q] # <<>> /\ queue[q][1].kind = "close" /\ UNCHANGED queue /\ Goto(q, "bye")
    BY <1>0, <1>9 DEF CloseBye, At
  <2>2. Moved(q)
    BY <1>0, <2>1, GotoFacts DEF Moved, BlockKinds
  <2>3. QED
    BY <1>9, <2>2 DEF CloseBye, mainVars, videoVars
<1>10. CASE CloseDone(q)
  <2>1. queue[q] # <<>> /\ Pop(q) /\ Goto(q, "idle")
    BY <1>10 DEF CloseDone, At
  <2>2. Moved(q)
    BY <1>0, <2>1, GotoFacts DEF Moved
  <2>3. QED
    BY <1>10, <2>2 DEF CloseDone, videoVars
<1>11. QED
  BY <1>1, <1>2, <1>3, <1>4, <1>5, <1>6, <1>7, <1>8, <1>9, <1>10 DEF SenderStep

(* Every other step leaves the sender queues alone or puts one block on the *)
(* current one.                                                             *)
Pushed(b) == queue' = [queue EXCEPT ![conn] = Append(@, b)] /\ UNCHANGED snd

(* Every other step: what it brings, and to which queue.                     *)
LEMMA OtherMoves ==
  ASSUME [Next]_vars, \A q \in Attempts : ~SenderStep(q)
  PROVE  \/ UNCHANGED <<queue, snd>>
         \/ Connected /\ AudioOnly /\ Pushed(Stream)
         \/ SubmitClose /\ Pushed(Close)
         \/ VideoDispatched /\ Pushed(FrameBlock(vid))
<1> USE DEF senderVars
<1>1. ASSUME Connected \/ SubmitClose \/ VideoDispatched
      PROVE  \/ UNCHANGED <<queue, snd>>
             \/ Connected /\ AudioOnly /\ Pushed(Stream)
             \/ SubmitClose /\ Pushed(Close)
             \/ VideoDispatched /\ Pushed(FrameBlock(vid))
  BY <1>1 DEF Connected, SubmitClose, VideoDispatched, Pushed
<1>2. ASSUME User \/ MainBlock PROVE UNCHANGED <<queue, snd>>
  BY <1>2 DEF User, MainBlock, StartStream, StopStream, OnStarted, OnStopped, OnFailure,
    OnReconnect, OnTimeout
<1>3. ASSUME MainStep, ~Connected, ~SubmitClose PROVE UNCHANGED <<queue, snd>>
  BY <1>3 DEF MainStep, SetupFails, SetupSucceeds, FinishDisconnect, EncodersStopped
<1>4. ASSUME AudioCaptured \/ AudioStep \/ RotationStep \/ VideoCaptured PROVE UNCHANGED <<queue, snd>>
  BY <1>4 DEF AudioCaptured, AudioStep, AudioStamped, AudioEnqueued, AudioSignalled,
    RotationStep, RotationBegins, RotationEnds, VideoCaptured
<1>5. ASSUME NEW g \in Attempts, WatchStep(g) PROVE UNCHANGED <<queue, snd>>
  BY <1>5 DEF WatchStep, WatchFires, WatchNext, WatchDecides
<1>6. ASSUME Finished \/ UNCHANGED vars PROVE UNCHANGED <<queue, snd>>
  BY <1>6 DEF Finished, vars
<1>7. QED
  BY <1>1, <1>2, <1>3, <1>4, <1>5, <1>6 DEF Next

(* How the main thread, the flag and the attempt change together.           *)
MainMoves ==
  \/ UNCHANGED <<main, broadcasting, conn>>
  \/ main = "idle" /\ ~broadcasting /\ EnterConnect /\ UNCHANGED broadcasting
  \/ main = "setup" /\ main' = "idle" /\ UNCHANGED <<broadcasting, conn>>
  \/ main = "setup" /\ main' = "connected" /\ broadcasting' = TRUE /\ UNCHANGED conn
  \/ main = "connected" /\ main' = "idle" /\ UNCHANGED <<broadcasting, conn>>
  \/ main = "flagged" /\ main' = "sync" /\ UNCHANGED <<broadcasting, conn>>
  \/ main = "synced" /\ main' = "idle" /\ UNCHANGED <<broadcasting, conn>>
  \/ /\ main \in {"idle", "joinStop"} /\ broadcasting
     /\ main' = "flagged" /\ broadcasting' = FALSE /\ UNCHANGED conn
  \/ /\ main \in {"idle", "joinStop", "joinError"} /\ main' \in {"idle", "joinStop", "joinError"}
     /\ UNCHANGED <<broadcasting, conn>>

(* Every step that is not of a sender queue moves the main thread so.        *)
LEMMA MainMovesSo ==
  ASSUME TypeOK, [Next]_vars, \A q \in Attempts : ~SenderStep(q)
  PROVE  MainMoves
<1> USE DEF mainVars
<1>1. ASSUME StartStream \/ OnReconnect PROVE MainMoves
  BY <1>1 DEF StartStream, OnReconnect, TakeBlock, Connect, ConnectWhileBroadcasting, MainMoves
<1>2. ASSUME StopStream \/ OnStarted \/ OnStopped \/ OnFailure PROVE MainMoves
  BY <1>2 DEF StopStream, OnStarted, OnStopped, OnFailure, TakeBlock, MainMoves
<1>3. ASSUME OnTimeout \/ EncodersStopped PROVE MainMoves
  BY <1>3 DEF OnTimeout, EncodersStopped, TakeBlock, Disconnect, MayDisconnect, EnterDisconnect, MainMoves
<1>4. ASSUME MainStep, ~EncodersStopped PROVE MainMoves
  BY <1>4 DEF MainStep, SetupFails, SetupSucceeds, Connected, SubmitClose, FinishDisconnect, MainMoves
<1>5. ASSUME AudioCaptured \/ AudioStep \/ RotationStep \/ VideoCaptured \/ VideoDispatched PROVE MainMoves
  BY <1>5 DEF AudioCaptured, AudioStep, AudioStamped, AudioEnqueued, AudioSignalled,
    RotationStep, RotationBegins, RotationEnds, VideoCaptured,
    VideoDispatched, MainMoves
<1>6. ASSUME NEW g \in Attempts, WatchStep(g) PROVE MainMoves
  BY <1>6 DEF WatchStep, WatchFires, WatchNext, WatchDecides, MainMoves
<1>7. ASSUME Finished \/ UNCHANGED vars PROVE MainMoves
  BY <1>7 DEF Finished, vars, MainMoves
<1>8. QED
  BY <1>1, <1>2, <1>3, <1>4, <1>5, <1>6, <1>7 DEF Next, User, MainBlock

(* A frame in hand was captured while broadcasting.                         *)
LEMMA FrameMoves ==
  ASSUME [Next]_vars
  PROVE  vid' = vid \/ vid' = NoFrame \/ (VideoCaptured /\ broadcasting)
<1> USE DEF mainVars, senderVars, audioVars, videoVars
<1>1. ASSUME VideoCaptured \/ VideoDispatched
      PROVE  vid' = vid \/ vid' = NoFrame \/ (VideoCaptured /\ broadcasting)
  BY <1>1 DEF VideoCaptured, VideoDispatched
<1>2. ASSUME User \/ MainBlock \/ MainStep PROVE vid' = vid
  BY <1>2 DEF User, MainBlock, MainStep, StartStream, StopStream, OnStarted, OnStopped, OnFailure,
    OnReconnect, OnTimeout, SetupFails, SetupSucceeds, Connected, SubmitClose, FinishDisconnect,
    EncodersStopped
<1>3. ASSUME NEW q \in Attempts, SenderStep(q) PROVE vid' = vid
  BY <1>3 DEF SenderStep, SendAVStart, SendAVDrain, SendAudio, RemoveSent, SendVideo,
    StreamLoop, StreamWait, StreamWake, CloseBye, CloseDone
<1>4. ASSUME AudioCaptured \/ AudioStep \/ RotationStep PROVE vid' = vid
  BY <1>4 DEF AudioCaptured, AudioStep, AudioStamped, AudioEnqueued, AudioSignalled,
    RotationStep, RotationBegins, RotationEnds
<1>5. ASSUME NEW g \in Attempts, WatchStep(g) PROVE vid' = vid
  BY <1>5 DEF WatchStep, WatchFires, WatchNext, WatchDecides
<1>6. ASSUME Finished \/ UNCHANGED vars PROVE vid' = vid
  BY <1>6 DEF Finished, vars
<1>7. QED
  BY <1>1, <1>2, <1>3, <1>4, <1>5, <1>6 DEF Next

-----------------------------------------------------------------------------
(* The three parts are preserved. *)

(* What runs at each point of a queue: every action.                        *)
LEMMA KindStep ==
  ASSUME TypeOK, KindInv, FlagInv, [Next]_vars
  PROVE  KindInv'
<1>0. queue \in [Attempts -> Seq(Blocks)] /\ snd \in [Attempts -> Senders] /\ vid \in Frames
      /\ conn \in Nat
  BY DEF TypeOK, SenderTyped, MediaTyped, MainTyped, Handles
<1>1. ASSUME NEW q \in Attempts, SenderStep(q) PROVE KindInv'
  <2>1. Moved(q)
    BY <1>1, SenderMoves
  <2>2. CASE queue' = queue
    BY <2>1, <2>2, <1>0, PopFacts DEF Moved, KindInv
  <2>3. CASE Pop(q) /\ snd'[q].pc = "idle"
    <3>1. /\ \A p \in Attempts : p # q => queue'[p] = queue[p] /\ snd'[p] = snd[p]
          /\ \A i \in DOMAIN queue'[q] : queue'[q][i] = queue[q][i + 1] /\ i + 1 \in DOMAIN queue[q]
      BY <1>0, <2>1, <2>3, PopFacts DEF Moved
    <3>2. queue'[q] \in Seq(Blocks)
      BY <1>0, <2>1, <2>3, PopTyped DEF Moved
    <3>3. queue'[q] # <<>> => queue'[q][1] \in Blocks
      BY <3>2
    <3>4. queue'[q] # <<>> => queue'[q][1].kind \in BlockKinds("idle")
      BY <3>3 DEF Blocks, BlockKinds
    <3>5. QED
      BY <2>3, <3>1, <3>4 DEF KindInv
  <2>4. QED
    BY <2>1, <2>2, <2>3 DEF Moved
<1>2. ASSUME NEW b \in Blocks, Pushed(b), conn \in Attempts PROVE KindInv'
  <2>1. /\ \A p \in Attempts : p # conn => queue'[p] = queue[p]
        /\ queue'[conn] # <<>>
        /\ \A i \in DOMAIN queue[conn] : queue'[conn][i] = queue[conn][i]
        /\ queue'[conn][Len(queue[conn]) + 1] = b
        /\ DOMAIN queue[conn] = 1..Len(queue[conn]) /\ Len(queue[conn]) \in Nat
    BY <1>0, <1>2, PushFacts DEF Pushed
  <2>2. snd' = snd
    BY <1>2 DEF Pushed
  <2>3. CASE queue[conn] = <<>>
    <3>1. snd[conn].pc = "idle" /\ queue'[conn][1] = b
      BY <1>2, <2>1, <2>3 DEF KindInv
    <3>2. queue'[conn][1].kind \in BlockKinds("idle")
      BY <3>1 DEF Blocks, BlockKinds
    <3>3. QED
      BY <2>1, <2>2, <3>1, <3>2 DEF KindInv
  <2>4. CASE queue[conn] # <<>>
    <3>1. queue'[conn][1] = queue[conn][1]
      BY <1>0, <1>2, <2>1, <2>4
    <3>2. QED
      BY <2>1, <2>2, <2>4, <3>1 DEF KindInv
  <2>5. QED
    BY <2>3, <2>4
<1>3. ASSUME UNCHANGED <<queue, snd>> PROVE KindInv'
  BY <1>3 DEF KindInv
<1>4. Stream \in Blocks /\ Close \in Blocks /\ FrameBlock(vid) \in Blocks
  BY <1>0 DEF Stream, Close, FrameBlock, Blocks, Frames
<1>5. Connected \/ SubmitClose \/ VideoDispatched => conn \in Attempts
  BY DEF FlagInv, Connected, SubmitClose, VideoDispatched
<1>6. QED
  BY <1>1, <1>2, <1>3, <1>4, <1>5, OtherMoves

(* Only the disconnect the main thread waits for is queued: every action.   *)
LEMMA SyncStep ==
  ASSUME TypeOK, ThreadInv, [Next]_vars
  PROVE  SyncInv'
<1>0. queue \in [Attempts -> Seq(Blocks)] /\ snd \in [Attempts -> Senders] /\ vid \in Frames
      /\ conn \in Nat
  BY DEF TypeOK, SenderTyped, MediaTyped, MainTyped, Handles
<1>1. ASSUME NEW q \in Attempts, SenderStep(q) PROVE SyncInv'
  <2>1. /\ Moved(q) /\ conn' = conn
        /\ main' = main \/ (main' = "synced" /\ CloseDone(q))
    BY <1>1, SenderMoves DEF ThreadInv
  <2>2. CASE queue' = queue
    <3>1. main' = main
      <4>1. ~CloseDone(q)
        <5>1. SUFFICES ASSUME CloseDone(q) PROVE FALSE
          OBVIOUS
        <5>2. queue'[q] = Tail(queue[q]) /\ queue[q] # <<>>
          BY <1>0, <5>1 DEF CloseDone, Pop, At
        <5>3. QED
          BY <1>0, <2>2, <5>2
      <4>2. QED
        BY <2>1, <4>1
    <3>2. QED
      BY <2>1, <2>2, <3>1 DEF ThreadInv, SyncInv
  <2>3. CASE Pop(q)
    <3>1. /\ queue[q] # <<>>
          /\ \A p \in Attempts : p # q => queue'[p] = queue[p]
          /\ DOMAIN queue[q] = 1..Len(queue[q]) /\ Len(queue[q]) \in Nat
          /\ \A i \in DOMAIN queue'[q] :
               i \in Nat /\ queue'[q][i] = queue[q][i + 1] /\ i + 1 \in DOMAIN queue[q]
          /\ DOMAIN queue'[q] = 1..(Len(queue[q]) - 1)
      <4>1. queue[q] # <<>>
        BY <2>1 DEF Moved
      <4>2. QED
        BY <1>0, <2>3, <4>1, PopFacts
    <3>2. CASE CloseDone(q)
      <4>0. queue[q][1].kind \in BlockKinds("bye")
        BY <3>1, <3>2 DEF ThreadInv, KindInv, CloseDone, At
      <4>1. queue[q][1].kind = "close" /\ 1 \in DOMAIN queue[q]
        BY <1>0, <3>1, <4>0 DEF BlockKinds
      <4>2. q = conn /\ \A j \in DOMAIN queue[q] : queue[q][j].kind = "close" => j = 1
        BY <4>1 DEF ThreadInv, SyncInv
      <4>3. \A i \in DOMAIN queue'[q] : queue'[q][i].kind # "close"
        BY <3>1, <4>2
      <4>4. \A p \in Attempts : p # q => \A i \in DOMAIN queue[p] : queue[p][i].kind # "close"
        BY <4>2 DEF ThreadInv, SyncInv
      <4>5. QED
        BY <3>1, <4>3, <4>4 DEF SyncInv
    <3>3. CASE ~CloseDone(q)
      <4>1. main' = main /\ conn' = conn
        BY <2>1, <3>3
      <4>2. \A i \in DOMAIN queue'[q] : queue'[q][i].kind = "close" =>
              main = "sync" /\ q = conn /\ \A j \in DOMAIN queue'[q] : queue'[q][j].kind = "close" => i = j
        <5>1. SUFFICES ASSUME NEW i \in DOMAIN queue'[q], queue'[q][i].kind = "close"
                       PROVE  /\ main = "sync" /\ q = conn
                              /\ \A j \in DOMAIN queue'[q] : queue'[q][j].kind = "close" => i = j
          OBVIOUS
        <5>2. queue[q][i + 1].kind = "close" /\ i + 1 \in DOMAIN queue[q] /\ i \in Nat
          BY <3>1, <5>1
        <5>3. main = "sync" /\ q = conn /\ \A j \in DOMAIN queue[q] : queue[q][j].kind = "close" => i + 1 = j
          BY <5>2 DEF ThreadInv, SyncInv
        <5>4. ASSUME NEW j \in DOMAIN queue'[q], queue'[q][j].kind = "close" PROVE i = j
          <6>1. j \in Nat /\ i + 1 = j + 1
            BY <3>1, <5>3, <5>4
          <6>2. QED
            BY <5>2, <6>1
        <5>5. QED
          BY <5>3, <5>4
      <4>3. \A p \in Attempts : p # q => \A i \in DOMAIN queue'[p] : queue'[p][i].kind = "close" =>
              main = "sync" /\ p = conn /\ \A j \in DOMAIN queue'[p] : queue'[p][j].kind = "close" => i = j
        BY <3>1 DEF ThreadInv, SyncInv
      <4>4. QED
        BY <4>1, <4>2, <4>3 DEF SyncInv
    <3>4. QED
      BY <3>2, <3>3
  <2>4. QED
    BY <2>1, <2>2, <2>3 DEF Moved
<1>2. ASSUME NEW b \in Blocks, Pushed(b), conn \in Attempts, b.kind # "close",
             UNCHANGED conn, main # "sync" \/ UNCHANGED main
      PROVE  SyncInv'
  <2>1. /\ \A p \in Attempts : p # conn => queue'[p] = queue[p]
        /\ \A i \in DOMAIN queue[conn] : queue'[conn][i] = queue[conn][i]
        /\ queue'[conn][Len(queue[conn]) + 1] = b
        /\ DOMAIN queue[conn] = 1..Len(queue[conn]) /\ Len(queue[conn]) \in Nat
        /\ DOMAIN queue'[conn] = 1..(Len(queue[conn]) + 1)
    BY <1>0, <1>2, PushFacts DEF Pushed
  <2>2. \A p \in Attempts : \A i \in DOMAIN queue'[p] :
          queue'[p][i].kind = "close" => i \in DOMAIN queue[p] /\ queue'[p][i] = queue[p][i]
    BY <1>2, <2>1
  <2>3. QED
    BY <1>2, <2>2 DEF ThreadInv, SyncInv
<1>3. ASSUME SubmitClose, Pushed(Close) PROVE SyncInv'
  <2>1. /\ main = "flagged" /\ main' = "sync" /\ conn' = conn /\ conn \in Attempts
    BY <1>3 DEF SubmitClose, ThreadInv, FlagInv
  <2>2. \A p \in Attempts : \A i \in DOMAIN queue[p] : queue[p][i].kind # "close"
    BY <2>1 DEF ThreadInv, SyncInv
  <2>3. Close \in Blocks
    BY <1>0 DEF Close, Blocks
  <2>4. /\ \A p \in Attempts : p # conn => queue'[p] = queue[p]
        /\ \A i \in DOMAIN queue[conn] : queue'[conn][i] = queue[conn][i]
        /\ DOMAIN queue[conn] = 1..Len(queue[conn]) /\ Len(queue[conn]) \in Nat
        /\ DOMAIN queue'[conn] = 1..(Len(queue[conn]) + 1)
    BY <1>0, <1>3, <2>1, <2>3, PushFacts DEF Pushed
  <2>5. \A p \in Attempts : \A i \in DOMAIN queue'[p] :
          queue'[p][i].kind = "close" => p = conn /\ i = Len(queue[conn]) + 1
    BY <2>2, <2>4
  <2>6. QED
    BY <2>1, <2>5 DEF SyncInv
<1>4. ASSUME UNCHANGED <<queue, snd>>, \A q \in Attempts : ~SenderStep(q) PROVE SyncInv'
  <2>1. MainMoves
    BY <1>4, MainMovesSo
  <2>2. main = "sync" => UNCHANGED <<main, conn>>
    BY <2>1 DEF MainMoves
  <2>3. QED
    BY <1>4, <2>2 DEF ThreadInv, SyncInv
<1>5. Stream \in Blocks /\ FrameBlock(vid) \in Blocks /\ Stream.kind # "close" /\ FrameBlock(vid).kind # "close"
  BY <1>0 DEF Stream, FrameBlock, Blocks, Frames
<1>6. ASSUME Connected, Pushed(Stream) PROVE SyncInv'
  BY <1>2, <1>5, <1>6 DEF Connected, ThreadInv, FlagInv
<1>7. ASSUME VideoDispatched, Pushed(FrameBlock(vid)) PROVE SyncInv'
  BY <1>2, <1>5, <1>7 DEF VideoDispatched, ThreadInv, FlagInv, mainVars
<1>8. QED
  BY <1>1, <1>3, <1>4, <1>6, <1>7, OtherMoves

(* The flag and the main thread: every action.                              *)
LEMMA FlagStep ==
  ASSUME TypeOK, ThreadInv, [Next]_vars
  PROVE  FlagInv'
<1>0. conn \in Handles /\ queue \in [Attempts -> Seq(Blocks)] /\ MaxConnects \in Nat
  BY ConfigAssumption DEF TypeOK, MainTyped, SenderTyped, ConfigAssumption
<1>1. ASSUME NEW q \in Attempts, SenderStep(q) PROVE FlagInv'
  <2>1. UNCHANGED <<broadcasting, conn, vid>> /\ (main' = main \/ (main' = "synced" /\ CloseDone(q)))
    BY <1>1, SenderMoves DEF ThreadInv
  <2>2. CloseDone(q) => main = "sync"
    BY <1>0 DEF ThreadInv, KindInv, SyncInv, CloseDone, At, BlockKinds
  <2>3. QED
    BY <2>1, <2>2 DEF ThreadInv, FlagInv
<1>2. ASSUME \A q \in Attempts : ~SenderStep(q) PROVE FlagInv'
  <2>1. MainMoves
    BY <1>2, MainMovesSo
  <2>2. vid' = vid \/ vid' = NoFrame \/ (VideoCaptured /\ broadcasting)
    BY FrameMoves
  <2>3. EnterConnect => conn' \in Attempts /\ main' = "setup"
    BY <1>0 DEF EnterConnect, Handles, Attempts
  <2>4. VideoCaptured => UNCHANGED <<broadcasting, main, conn>>
    BY DEF VideoCaptured, mainVars
  <2>5. QED
    BY <2>1, <2>2, <2>3, <2>4 DEF MainMoves, ThreadInv, FlagInv
<1>3. QED
  BY <1>1, <1>2

(* The first three parts hold in every reachable state.                     *)
LEMMA ThreadAlways == Spec => [](TypeOK /\ ThreadInv)
<1>1. Init => TypeOK /\ ThreadInv
  <2>1. SUFFICES ASSUME Init PROVE ThreadInv
    BY InitTyped
  <2>2. KindInv
    BY <2>1 DEF Init, KindInv
  <2>3. SyncInv
    BY <2>1 DEF Init, SyncInv
  <2>4. FlagInv
    BY <2>1 DEF Init, FlagInv
  <2>5. QED
    BY <2>2, <2>3, <2>4 DEF ThreadInv
<1>2. TypeOK /\ ThreadInv /\ [Next]_vars => (TypeOK /\ ThreadInv)'
  <2>1. SUFFICES ASSUME TypeOK, ThreadInv, [Next]_vars PROVE (TypeOK /\ ThreadInv)'
    OBVIOUS
  <2>2. TypeOK'
    BY <2>1, NextTyped
  <2>3. KindInv'
    BY <2>1, KindStep DEF ThreadInv
  <2>4. SyncInv'
    BY <2>1, SyncStep
  <2>5. FlagInv'
    BY <2>1, FlagStep
  <2>6. QED
    BY <2>2, <2>3, <2>4, <2>5 DEF ThreadInv
<1>3. QED
  BY <1>1, <1>2, PTL DEF Spec

-----------------------------------------------------------------------------
(* The contents of the sender queues, step by step. *)

(* The block at the head of q is finished; b is put on the current queue.   *)
Shifted(q) ==
  /\ queue[q] # <<>>
  /\ \A p \in Attempts : p # q => queue'[p] = queue[p]
  /\ Len(queue[q]) \in Nat /\ Len(queue'[q]) = Len(queue[q]) - 1
  /\ DOMAIN queue[q] = 1..Len(queue[q]) /\ DOMAIN queue'[q] = 1..(Len(queue[q]) - 1)
  /\ \A i \in DOMAIN queue'[q] :
       i \in Nat /\ i + 1 \in DOMAIN queue[q] /\ queue'[q][i] = queue[q][i + 1]

Extended(b) ==
  /\ conn \in Attempts /\ b \in Blocks
  /\ \A p \in Attempts : p # conn => queue'[p] = queue[p]
  /\ Len(queue[conn]) \in Nat /\ Len(queue'[conn]) = Len(queue[conn]) + 1
  /\ DOMAIN queue[conn] = 1..Len(queue[conn]) /\ DOMAIN queue'[conn] = 1..(Len(queue[conn]) + 1)
  /\ \A i \in DOMAIN queue[conn] : queue'[conn][i] = queue[conn][i]
  /\ queue'[conn][Len(queue[conn]) + 1] = b

(* Which step puts which block on the current queue.                        *)
Brought(b) ==
  \/ Connected /\ AudioOnly /\ b = Stream
  \/ SubmitClose /\ b = Close
  \/ VideoDispatched /\ b = FrameBlock(vid)

(* The three things that can happen to the sender queues.                   *)
LEMMA QueueMoves ==
  ASSUME TypeOK, ThreadInv, [Next]_vars
  PROVE  \/ queue' = queue
         \/ \E q \in Attempts : SenderStep(q) /\ Shifted(q)
         \/ \E b \in Blocks : Brought(b) /\ Extended(b)
<1>0. queue \in [Attempts -> Seq(Blocks)] /\ vid \in Frames /\ conn \in Nat
  BY DEF TypeOK, SenderTyped, MediaTyped, MainTyped, Handles
<1>1. ASSUME NEW q \in Attempts, SenderStep(q) PROVE queue' = queue \/ Shifted(q)
  <2>1. Moved(q)
    BY <1>1, SenderMoves DEF ThreadInv
  <2>2. ASSUME Pop(q), queue[q] # <<>> PROVE Shifted(q)
    BY <1>0, <2>2, PopFacts DEF Shifted
  <2>3. QED
    BY <2>1, <2>2 DEF Moved
<1>2. ASSUME NEW b \in Blocks, Brought(b), Pushed(b) PROVE Extended(b)
  <2>1. conn \in Attempts
    BY <1>2 DEF Brought, Connected, SubmitClose, VideoDispatched, ThreadInv, FlagInv
  <2>2. queue' = [queue EXCEPT ![conn] = Append(@, b)]
    BY <1>2 DEF Pushed
  <2>3. QED
    BY <1>0, <2>1, <2>2, PushFacts DEF Extended
<1>3. Stream \in Blocks /\ Close \in Blocks /\ FrameBlock(vid) \in Blocks
  BY <1>0 DEF Stream, Close, FrameBlock, Blocks, Frames
<1>4. CASE \E q \in Attempts : SenderStep(q)
  BY <1>1, <1>4
<1>5. CASE \A q \in Attempts : ~SenderStep(q)
  <2>1. \/ queue' = queue
        \/ \E b \in {Stream, Close, FrameBlock(vid)} : Brought(b) /\ Pushed(b)
    BY <1>5, OtherMoves DEF Brought
  <2>2. QED
    BY <2>1, <1>2, <1>3
<1>6. QED
  BY <1>4, <1>5

(* A block on a queue was there before or has just been brought.            *)
LEMMA BlocksFrom ==
  ASSUME TypeOK, ThreadInv, [Next]_vars, NEW q \in Attempts, NEW i \in DOMAIN queue'[q]
  PROVE  \/ \E j \in DOMAIN queue[q] : queue'[q][i] = queue[q][j]
         \/ q = conn /\ conn \in Attempts /\ Brought(queue'[q][i])
<1>1. CASE queue' = queue
  BY <1>1
<1>2. ASSUME NEW p \in Attempts, Shifted(p)
      PROVE  \E j \in DOMAIN queue[q] : queue'[q][i] = queue[q][j]
  <2>1. CASE p = q
    BY <1>2, <2>1 DEF Shifted
  <2>2. CASE p # q
    BY <1>2, <2>2 DEF Shifted
  <2>3. QED
    BY <2>1, <2>2
<1>3. ASSUME NEW b \in Blocks, Brought(b), Extended(b)
      PROVE  \/ \E j \in DOMAIN queue[q] : queue'[q][i] = queue[q][j]
             \/ q = conn /\ conn \in Attempts /\ Brought(queue'[q][i])
  <2>1. CASE q # conn
    BY <1>3, <2>1 DEF Extended
  <2>2. CASE q = conn
    <3>1. i \in DOMAIN queue[q] \/ i = Len(queue[q]) + 1
      BY <1>3, <2>2 DEF Extended
    <3>2. QED
      BY <1>3, <2>2, <3>1 DEF Extended
  <2>3. QED
    BY <2>1, <2>2
<1>4. QED
  BY <1>1, <1>2, <1>3, QueueMoves

-----------------------------------------------------------------------------
(* Who changes what: every variable but main, broadcasting, conn, queue and *)
(* snd, which have lemmas of their own above.                               *)
Owned ==
  /\ aud' = aud \/ AudioCaptured \/ AudioStep
  /\ avQueue' = avQueue \/ AudioEnqueued \/ \E q \in Attempts : RemoveSent(q) \/ CloseDone(q)
  /\ sema' = sema \/ Connected \/ SubmitClose \/ AudioSignalled \/ \E q \in Attempts : StreamWake(q)
  /\ sent' = sent \/ \E q \in Attempts : SendAudio(q) \/ SendVideo(q)
  /\ encoders' = encoders \/ StartStream \/ StopStream \/ OnStarted \/ OnFailure \/ RotationEnds
  /\ rotating' = rotating \/ RotationStep
  /\ slips' = slips \/ StopStream \/ OnFailure \/ EncodersStopped \/ RotationBegins
  /\ main' \in {"joinStop", "joinError"} => main' = main \/ StopStream \/ OnFailure
  /\ retained' = retained \/ EnterConnect \/ FinishDisconnect
  /\ audioInc' = audioInc \/ EnterConnect \/ AudioStamped
  /\ \/ UNCHANGED <<aac, avc>>
     \/ \E s \in Stages, n \in {"Error", "BadPass"} : SetupFails(s, n)
     \/ \E s \in {"none", "initAVC"} : SetupSucceeds(s)
  /\ \/ UNCHANGED live
     \/ \E s \in Stages, n \in {"Error", "BadPass"} : SetupFails(s, n)
     \/ \E s \in {"none", "initAVC"} : SetupSucceeds(s)
     \/ \E q \in Attempts : CloseDone(q)
  /\ clock' = clock \/ AudioCaptured \/ VideoCaptured
  /\ \/ UNCHANGED mainQ
     \/ MainBlock \/ Connected \/ FinishDisconnect
     \/ \E s \in Stages, n \in {"Error", "BadPass"} : SetupFails(s, n)
     \/ \E g \in Attempts, got \in BOOLEAN : WatchDecides(g, got)
  /\ wd' = wd \/ \E g \in Attempts : WatchStep(g)

(* Every step changes only what is its own.                                  *)
LEMMA Ownership ==
  ASSUME [Next]_vars
  PROVE  Owned
<1> USE DEF mainVars, rtpVars, senderVars, audioVars, videoVars, watchVars
<1>1. ASSUME StartStream \/ StopStream PROVE Owned
  BY <1>1 DEF StartStream, StopStream, Connect, EnterConnect, ConnectWhileBroadcasting, Owned
<1>2. ASSUME OnStarted \/ OnStopped \/ OnFailure \/ OnTimeout PROVE Owned
  BY <1>2 DEF MainBlock, OnStarted, OnStopped, OnFailure, OnTimeout, TakeBlock, Disconnect,
    EnterDisconnect, Owned
<1>3. ASSUME OnReconnect PROVE Owned
  BY <1>3 DEF MainBlock, OnReconnect, TakeBlock, Connect, EnterConnect, ConnectWhileBroadcasting,
    Owned
<1>4. ASSUME NEW s \in Stages, NEW n \in {"Error", "BadPass"}, SetupFails(s, n) PROVE Owned
  <2>1. UNCHANGED <<aud, avQueue, sema, sent, encoders, rotating, slips, retained, audioInc, clock, wd>>
        /\ main' = "idle"
    BY <1>4 DEF SetupFails
  <2>2. QED
    BY <1>4, <2>1 DEF Owned
<1>5. ASSUME NEW s \in {"none", "initAVC"}, SetupSucceeds(s) PROVE Owned
  <2>1. UNCHANGED <<aud, avQueue, sema, sent, encoders, rotating, slips, retained, audioInc, clock, wd,
                  mainQ>>
        /\ main' = "connected"
    BY <1>5 DEF SetupSucceeds
  <2>2. QED
    BY <1>5, <2>1 DEF Owned
<1>6. ASSUME Connected \/ SubmitClose \/ FinishDisconnect \/ EncodersStopped PROVE Owned
  BY <1>6 DEF Connected, SubmitClose, FinishDisconnect, EncodersStopped, Disconnect, EnterDisconnect,
    Owned
<1>7. ASSUME NEW q \in Attempts, SendAVStart(q) \/ SendAVDrain(q) \/ SendAudio(q) \/ RemoveSent(q) \/ SendVideo(q)
      PROVE  Owned
  BY <1>7 DEF SendAVStart, SendAVDrain, SendAudio, RemoveSent, SendVideo, Owned
<1>8. ASSUME NEW q \in Attempts, StreamLoop(q) \/ StreamWait(q) \/ StreamWake(q) \/ CloseBye(q) \/ CloseDone(q)
      PROVE  Owned
  BY <1>8 DEF StreamLoop, StreamWait, StreamWake, CloseBye, CloseDone, Owned
<1>9. ASSUME AudioCaptured \/ AudioStep \/ RotationStep \/ VideoCaptured \/ VideoDispatched PROVE Owned
  BY <1>9 DEF AudioCaptured, AudioStep, AudioStamped, AudioEnqueued, AudioSignalled,
    RotationStep, RotationBegins, RotationEnds, VideoCaptured,
    VideoDispatched, Owned
<1>10. ASSUME NEW g \in Attempts, WatchFires(g) \/ WatchNext(g) PROVE Owned
  <2>1. UNCHANGED <<aud, avQueue, sema, sent, encoders, rotating, slips, retained, audioInc, aac, avc, live,
                  clock, mainQ, main>>
    BY <1>10 DEF WatchFires, WatchNext
  <2>2. QED
    BY <1>10, <2>1 DEF Owned, WatchStep
<1>11. ASSUME NEW g \in Attempts, NEW got \in BOOLEAN, WatchDecides(g, got) PROVE Owned
  <2>1. UNCHANGED <<aud, avQueue, sema, sent, encoders, rotating, slips, retained, audioInc, aac, avc, live,
                  clock, main>>
    BY <1>11 DEF WatchDecides
  <2>2. QED
    BY <1>11, <2>1 DEF Owned, WatchStep
<1>12. ASSUME Finished \/ UNCHANGED vars PROVE Owned
  BY <1>12 DEF Finished, vars, Owned
<1>13. QED
  BY <1>1, <1>2, <1>3, <1>4, <1>5, <1>6, <1>7, <1>8, <1>9, <1>10, <1>11, <1>12
  DEF Next, User, MainStep, MainBlock, SenderStep, WatchStep

-----------------------------------------------------------------------------
(* Which media a profile uses: the encoders, threads and blocks of the      *)
(* other medium are never seen.                                             *)
MediaInv ==
  /\ \A q \in Attempts : \A i \in DOMAIN queue[q] :
       /\ queue[q][i].kind = "video" => HasVideo
       /\ queue[q][i].kind = "stream" => AudioOnly
  /\ "aac" \in encoders => HasAudio
  /\ "avc" \in encoders => HasVideo
  /\ vid # NoFrame => HasVideo
  /\ aud.pc # "idle" => HasAudio
  /\ aud.pc = "signal" => AudioOnly
  /\ avQueue # <<>> => HasAudio

(* A stop waits for the frame in hand unless it falls into a rotation.      *)
SlipInv ==
  /\ rotating \/ ~Untangled => HasVideo
  /\ main \in {"joinStop", "joinError"} /\ rotating => ~Untangled

(* The media a session has: every action.                                    *)
LEMMA MediaStep ==
  ASSUME TypeOK, ThreadInv, MediaInv, SlipInv, [Next]_vars
  PROVE  MediaInv'
<1>0. /\ queue \in [Attempts -> Seq(Blocks)] /\ vid \in Frames /\ avQueue \in Seq(Packets)
      /\ queue' \in [Attempts -> Seq(Blocks)]
  <2>1. TypeOK'
    BY NextTyped
  <2>2. QED
    BY <2>1 DEF TypeOK, SenderTyped, MediaTyped
<1>o. Owned
  BY Ownership
<1>1. ASSUME NEW q \in Attempts, NEW i \in DOMAIN queue'[q]
      PROVE  /\ queue'[q][i].kind = "video" => HasVideo
             /\ queue'[q][i].kind = "stream" => AudioOnly
  <2>1. CASE \E j \in DOMAIN queue[q] : queue'[q][i] = queue[q][j]
    BY <2>1 DEF MediaInv
  <2>2. CASE Brought(queue'[q][i])
    BY <2>2 DEF Brought, Stream, Close, FrameBlock, VideoDispatched, MediaInv
  <2>3. QED
    BY <2>1, <2>2, BlocksFrom
<1>2. ("aac" \in encoders' => HasAudio) /\ ("avc" \in encoders' => HasVideo)
  BY <1>o DEF Owned, MediaInv, SlipInv, StartStream, StopStream, OnStarted, OnFailure, RotationEnds
<1>3. vid' # NoFrame => HasVideo
  BY FrameMoves DEF MediaInv, VideoCaptured
<1>4. (aud'.pc # "idle" => HasAudio) /\ (aud'.pc = "signal" => AudioOnly)
  BY <1>o DEF Owned, MediaInv, AudioCaptured, AudioStep, AudioStamped, AudioEnqueued, AudioSignalled,
    RotationStep, RotationBegins, RotationEnds,
    NeedsSignal
<1>5. avQueue' # <<>> => HasAudio
  <2>1. CASE avQueue' = avQueue
    BY <2>1 DEF MediaInv
  <2>2. CASE AudioEnqueued
    BY <2>2 DEF MediaInv, AudioEnqueued
  <2>3. ASSUME NEW q \in Attempts, RemoveSent(q) PROVE avQueue' # <<>> => HasAudio
    BY <1>0, <2>3 DEF RemoveSent, MediaInv
  <2>4. ASSUME NEW q \in Attempts, CloseDone(q) PROVE avQueue' = <<>>
    BY <2>4 DEF CloseDone, QueueAfterClose
  <2>5. QED
    BY <1>o, <2>1, <2>2, <2>3, <2>4 DEF Owned
<1>6. QED
  BY <1>1, <1>2, <1>3, <1>4, <1>5 DEF MediaInv

-----------------------------------------------------------------------------
(* Which stops are tangled: every action.                                   *)
LEMMA SlipStep ==
  ASSUME MediaInv, SlipInv, [Next]_vars
  PROVE  SlipInv'
<1>o. Owned
  BY Ownership
<1>1. rotating' \/ ~Untangled' => HasVideo
  BY <1>o DEF Owned, SlipInv, MediaInv, Untangled, StopStream, OnFailure, StopsInRotation,
    EncodersStopped, RotationStep, RotationBegins, RotationEnds
<1>2. ASSUME main' \in {"joinStop", "joinError"}, rotating' PROVE ~Untangled'
  <2>1. CASE StopStream \/ OnFailure
    BY <1>2, <2>1 DEF StopStream, OnFailure, StopsInRotation, Untangled
  <2>2. CASE RotationBegins
    BY <1>2, <2>2 DEF RotationBegins, Untangled, mainVars
  <2>3. CASE ~(StopStream \/ OnFailure) /\ ~RotationBegins
    <3>1. main' = main /\ rotating
      BY <1>o, <1>2, <2>3 DEF Owned, RotationStep, RotationEnds
    <3>2. ~Untangled /\ slips \subseteq slips'
      BY <1>o, <1>2, <2>3, <3>1 DEF Owned, SlipInv, EncodersStopped
    <3>3. QED
      BY <3>2 DEF Untangled
  <2>4. QED
    BY <2>1, <2>2, <2>3
<1>3. QED
  BY <1>1, <1>2 DEF SlipInv

-----------------------------------------------------------------------------
(* A TCP broadcast has no watchdog, so only the user ends it, after the     *)
(* encoders were stopped.                                                   *)
TimeInv ==
  UseTCP =>
    /\ \A g \in Attempts : timer[g] # "armed" /\ wd[g].pc = "idle"
    /\ \A i \in DOMAIN mainQ : mainQ[i].kind # "Timeout"
    /\ ~broadcasting => aud.pc = "idle"

(* The broadcast ends where the user stops it or a timeout is reported.     *)
LEMMA FlagDown ==
  ASSUME TypeOK, [Next]_vars, broadcasting, ~broadcasting'
  PROVE  (EncodersStopped \/ OnTimeout) /\ UNCHANGED <<vid, aud, queue>> /\ main' = "flagged"
<1> USE DEF mainVars, rtpVars, senderVars, audioVars, videoVars, watchVars
<1>1. EncodersStopped \/ OnTimeout
  <2>1. ~(User \/ AudioCaptured \/ AudioStep \/ RotationStep \/ VideoCaptured \/ VideoDispatched \/ Finished \/ UNCHANGED vars)
    BY DEF User, StartStream, StopStream, AudioCaptured, AudioStep, AudioStamped, AudioEnqueued, AudioSignalled,
    RotationStep, RotationBegins, RotationEnds, VideoCaptured, VideoDispatched, Finished, vars
  <2>2. \A q \in Attempts : ~SenderStep(q)
    BY DEF SenderStep, SendAVStart, SendAVDrain, SendAudio, RemoveSent, SendVideo,
      StreamLoop, StreamWait, StreamWake, CloseBye, CloseDone
  <2>3. \A g \in Attempts : ~WatchStep(g)
    BY DEF WatchStep, WatchFires, WatchNext, WatchDecides
  <2>4. MainBlock => OnTimeout
    BY DEF MainBlock, OnStarted, OnStopped, OnFailure, OnReconnect
  <2>5. MainStep => EncodersStopped
    BY DEF MainStep, SetupFails, SetupSucceeds, Connected, SubmitClose, FinishDisconnect
  <2>6. QED
    BY <2>1, <2>2, <2>3, <2>4, <2>5 DEF Next
<1>2. QED
  BY <1>1 DEF EncodersStopped, OnTimeout, Disconnect, EnterDisconnect

(* Sequences of one and of two notices.                                     *)
LEMMA OneOrTwo ==
  ASSUME NEW S, NEW b \in S, NEW c \in S
  PROVE  /\ <<b>> \in Seq(S) /\ \A j \in DOMAIN <<b>> : <<b>>[j] = b
         /\ <<b>> \o <<>> = <<b>>
         /\ <<b>> \o <<c>> \in Seq(S) /\ \A j \in DOMAIN (<<b>> \o <<c>>) : (<<b>> \o <<c>>)[j] \in {b, c}
<1>1. <<b>> \in Seq(S) /\ <<c>> \in Seq(S)
  OBVIOUS
<1>2. \A j \in DOMAIN <<b>> : <<b>>[j] = b
  OBVIOUS
<1>3. <<b>> \o <<>> = <<b>>
  <2>1. \A s \in Seq(S) : s \o <<>> = s
    OBVIOUS
  <2>2. QED
    BY <1>1, <2>1
<1>4. \A s \in Seq(S), t \in Seq(S) :
        /\ s \o t \in Seq(S) /\ Len(s \o t) = Len(s) + Len(t)
        /\ Len(s) = 1 /\ Len(t) = 1 => (s \o t)[1] = s[1] /\ (s \o t)[2] = t[1]
  OBVIOUS
<1>5. PICK t \in Seq(S) : t = <<b>> \o <<c>>
  BY <1>1, <1>4
<1>6. Len(t) = 2 /\ t[1] = b /\ t[2] = c
  <2>1. Len(<<b>>) = 1 /\ Len(<<c>>) = 1 /\ <<b>>[1] = b /\ <<c>>[1] = c
    OBVIOUS
  <2>2. QED
    BY <1>1, <1>4, <1>5, <2>1
<1>7. \A j \in DOMAIN t : t[j] \in {b, c}
  BY <1>6
<1>8. QED
  BY <1>1, <1>2, <1>3, <1>5, <1>7

(* Which notices are new in the main queue.                                 *)
LEMMA NoticesFrom ==
  ASSUME TypeOK, [Next]_vars, NEW i \in DOMAIN mainQ'
  PROVE  \/ \E j \in DOMAIN mainQ : mainQ'[i] = mainQ[j]
         \/ mainQ'[i].kind \in {"Started", "Stopped", "Error", "BadPass", "Reconnect"}
         \/ \E g \in Attempts, got \in BOOLEAN : WatchDecides(g, got)
<1>0. mainQ \in Seq(Notices) /\ reason \in {"Stopped", "Error"} /\ conn \in Nat
  BY DEF TypeOK, MainTyped, Handles
<1>1. CASE mainQ' = mainQ
  BY <1>1
<1>2. ASSUME MainBlock PROVE \E j \in DOMAIN mainQ : mainQ'[i] = mainQ[j]
  <2>1. mainQ # <<>> /\ mainQ' = Tail(mainQ)
    BY <1>2 DEF MainBlock, OnStarted, OnStopped, OnFailure, OnReconnect, OnTimeout, TakeBlock
  <2>2. QED
    BY <1>0, <2>1
<1>3. ASSUME NEW s \in Seq(Notices), mainQ' = mainQ \o s
      PROVE  \/ \E j \in DOMAIN mainQ : mainQ'[i] = mainQ[j]
             \/ \E j \in DOMAIN s : mainQ'[i] = s[j]
  <2>1. /\ DOMAIN mainQ = 1..Len(mainQ) /\ DOMAIN s = 1..Len(s)
        /\ DOMAIN mainQ' = 1..(Len(mainQ) + Len(s)) /\ Len(mainQ) \in Nat /\ Len(s) \in Nat
        /\ \A j \in 1..Len(mainQ) : mainQ'[j] = mainQ[j]
        /\ \A j \in 1..Len(s) : mainQ'[Len(mainQ) + j] = s[j]
    BY <1>0, <1>3
  <2>2. CASE i \in 1..Len(mainQ)
    BY <2>1, <2>2
  <2>3. CASE i \notin 1..Len(mainQ)
    <3>1. i - Len(mainQ) \in 1..Len(s) /\ i = Len(mainQ) + (i - Len(mainQ))
      BY <2>1, <2>3
    <3>2. mainQ'[i] = s[i - Len(mainQ)]
      BY <2>1, <3>1
    <3>3. QED
      BY <2>1, <3>1, <3>2
  <2>4. QED
    BY <2>2, <2>3
<1>4. ASSUME Connected
      PROVE  (\E j \in DOMAIN mainQ : mainQ'[i] = mainQ[j]) \/ mainQ'[i].kind = "Started"
  <2>1. mainQ' = Append(mainQ, Notice("Started")) /\ Notice("Started") \in Notices
    BY <1>4, ConfigAssumption DEF Connected, Notice, Notices, Kinds, TypeOK, MainTyped, Handles
  <2>2. /\ DOMAIN mainQ = 1..Len(mainQ) /\ DOMAIN mainQ' = 1..(Len(mainQ) + 1) /\ Len(mainQ) \in Nat
        /\ \A j \in 1..Len(mainQ) : mainQ'[j] = mainQ[j]
        /\ mainQ'[Len(mainQ) + 1] = Notice("Started")
    BY <1>0, <2>1
  <2>3. QED
    BY <2>1, <2>2 DEF Notice
<1>5. ASSUME FinishDisconnect
      PROVE  (\E j \in DOMAIN mainQ : mainQ'[i] = mainQ[j]) \/ mainQ'[i].kind \in {"Stopped", "Error"}
  <2>1. Notice(reason) \in Notices /\ Notice(reason).kind \in {"Stopped", "Error"}
    BY <1>0 DEF Notice, Notices, Kinds, TypeOK, MainTyped, Handles
  <2>2. PICK s \in Seq(Notices) : s = <<Notice(reason)>> /\ \A j \in DOMAIN s : s[j] = Notice(reason)
    BY <2>1, OneOrTwo
  <2>3. mainQ' = mainQ \o s
    BY <1>5, <2>2 DEF FinishDisconnect, TerminalNotice
  <2>4. QED
    BY <1>3, <2>1, <2>2, <2>3
<1>6. ASSUME NEW s \in Stages, NEW n \in {"Error", "BadPass"}, SetupFails(s, n)
      PROVE  \/ \E j \in DOMAIN mainQ : mainQ'[i] = mainQ[j]
             \/ mainQ'[i].kind \in {"Error", "BadPass", "Reconnect"}
  <2>1. mainQ' = mainQ \o FailureNotices(n)
    BY <1>6 DEF SetupFails
  <2>2. /\ Notice(n) \in Notices /\ Notice(n).kind = n
        /\ Notice("Reconnect") \in Notices /\ Notice("Reconnect").kind = "Reconnect"
    BY DEF Notice, Notices, Kinds, TypeOK, MainTyped, Handles
  <2>3. PICK b \in Notices, c \in Notices : b = Notice(n) /\ c = Notice("Reconnect")
    BY <2>2
  <2>4. FailureNotices(n) = <<b>> \/ FailureNotices(n) = <<b>> \o <<c>>
    <3>1. <<b>> \o <<>> = <<b>>
      BY OneOrTwo
    <3>2. FailureNotices(n) = <<b>> \o <<c>> \/ FailureNotices(n) = <<b>> \o <<>>
      BY <2>3 DEF FailureNotices
    <3>3. QED
      BY <3>1, <3>2
  <2>5. PICK t \in Seq(Notices) : t = FailureNotices(n) /\ \A j \in DOMAIN t : t[j] \in {b, c}
    <3>1. <<b>> \in Seq(Notices) /\ \A j \in DOMAIN <<b>> : <<b>>[j] = b
      BY OneOrTwo
    <3>2. <<b>> \o <<c>> \in Seq(Notices) /\ \A j \in DOMAIN (<<b>> \o <<c>>) : (<<b>> \o <<c>>)[j] \in {b, c}
      BY OneOrTwo
    <3>3. QED
      BY <2>4, <3>1, <3>2
  <2>6. QED
    BY <1>3, <2>1, <2>2, <2>3, <2>5
<1>7. QED
  BY <1>1, <1>2, <1>4, <1>5, <1>6, Ownership DEF Owned

(* No timer runs under TCP: every action.                                    *)
LEMMA TimeStep ==
  ASSUME TypeOK, TimeInv, [Next]_vars
  PROVE  TimeInv'
<1>1. SUFFICES ASSUME UseTCP PROVE TimeInv'
  BY DEF TimeInv
<1>2. \A g \in Attempts : ~WatchStep(g)
  BY <1>1 DEF TimeInv, WatchStep, WatchFires, WatchNext, WatchDecides
<1>3. \A g \in Attempts : wd'[g].pc = "idle"
  BY <1>1, <1>2, Ownership DEF Owned, TimeInv
<1>4. \A g \in Attempts : timer'[g] # "armed"
  <2> USE DEF mainVars, rtpVars, senderVars, audioVars, videoVars, watchVars
  <2>1. UNCHANGED timer
    <3>1. ASSUME User \/ MainBlock PROVE UNCHANGED timer
      BY <1>1, <3>1 DEF User, MainBlock, StartStream, StopStream, OnStarted, OnStopped, OnFailure,
        OnReconnect, OnTimeout, Disconnect, EnterDisconnect
    <3>2. ASSUME MainStep PROVE UNCHANGED timer
      BY <1>1, <3>2 DEF MainStep, SetupFails, SetupSucceeds, Connected, SubmitClose, FinishDisconnect,
        EncodersStopped, Disconnect, EnterDisconnect
    <3>3. ASSUME NEW q \in Attempts, SenderStep(q) PROVE UNCHANGED timer
      BY <3>3 DEF SenderStep, SendAVStart, SendAVDrain, SendAudio, RemoveSent, SendVideo,
        StreamLoop, StreamWait, StreamWake, CloseBye, CloseDone
    <3>4. ASSUME AudioCaptured \/ AudioStep \/ RotationStep \/ VideoCaptured \/ VideoDispatched PROVE UNCHANGED timer
      BY <3>4 DEF AudioCaptured, AudioStep, AudioStamped, AudioEnqueued, AudioSignalled,
    RotationStep, RotationBegins, RotationEnds, VideoCaptured,
        VideoDispatched
    <3>5. ASSUME Finished \/ UNCHANGED vars PROVE UNCHANGED timer
      BY <3>5 DEF Finished, vars
    <3>6. QED
      BY <1>2, <3>1, <3>2, <3>3, <3>4, <3>5 DEF Next
  <2>2. QED
    BY <1>1, <2>1 DEF TimeInv
<1>5. \A i \in DOMAIN mainQ' : mainQ'[i].kind # "Timeout"
  BY <1>1, <1>2, NoticesFrom DEF TimeInv, WatchStep
<1>6. ~broadcasting' => aud'.pc = "idle"
  <2>1. CASE broadcasting /\ ~broadcasting'
    <3>1. ~OnTimeout
      <4>1. mainQ # <<>> => Head(mainQ) = mainQ[1] /\ 1 \in DOMAIN mainQ
        BY DEF TypeOK, MainTyped
      <4>2. QED
        BY <1>1, <4>1 DEF OnTimeout, TakeBlock, TimeInv
    <3>2. QED
      BY <2>1, <3>1, FlagDown DEF EncodersStopped, EncodersJoined
  <2>2. CASE ~broadcasting
    BY <1>1, <2>2, Ownership DEF Owned, AudioCaptured, AudioStep, AudioStamped, AudioEnqueued, AudioSignalled,
    RotationStep, RotationBegins, RotationEnds, TimeInv
  <2>3. QED
    BY <2>1, <2>2
<1>7. QED
  BY <1>3, <1>4, <1>5, <1>6 DEF TimeInv

-----------------------------------------------------------------------------
(* TCP or audio only: no frame is in flight when a broadcast ends, so the   *)
(* close block is the last on its queue and a queue never outlives its      *)
(* broadcast.  (A UDP broadcast with video has neither property: a frame    *)
(* polled before a timeout is queued behind the close block, and over TCP so *)
(* is one whose encoder was stopped in the middle of a rotation.)           *)
Ordered == (UseTCP \/ AudioOnly) /\ Untangled
Tidy    == UseTCP /\ Untangled
Active  == broadcasting \/ main \in {"flagged", "sync"}

RunInv ==
  Ordered =>
    /\ vid # NoFrame => broadcasting
    /\ \A q \in Attempts : queue[q] # <<>> => q = conn /\ Active
    /\ AudioOnly /\ main = "connected" => \A q \in Attempts : queue[q] = <<>>
    /\ \A q \in Attempts : \A i \in DOMAIN queue[q] :
         queue[q][i].kind = "close" => i = Len(queue[q])

(* What has been tangled stays so.                                          *)
LEMMA UntangledBefore ==
  ASSUME [Next]_vars
  PROVE  /\ Untangled' => Untangled
         /\ Ordered' => Ordered
         /\ Tidy' => Tidy /\ Ordered /\ UseTCP /\ Untangled
<1>1. Untangled' => Untangled
  BY Ownership DEF Owned, Untangled, StopStream, OnFailure, StopsInRotation, EncodersStopped,
    RotationBegins
<1>2. QED
  BY <1>1 DEF Ordered, Tidy

(* A TCP broadcast hears of no timeout.                                     *)
LEMMA NoTimeout ==
  ASSUME TypeOK, TimeInv, UseTCP
  PROVE  ~OnTimeout
<1>1. mainQ # <<>> => Head(mainQ) = mainQ[1] /\ 1 \in DOMAIN mainQ
  BY DEF TypeOK, MainTyped
<1>2. QED
  BY <1>1 DEF OnTimeout, TakeBlock, TimeInv

(* When the close block is done its queue is empty and the broadcast over.  *)
LEMMA CloseLast ==
  ASSUME TypeOK, ThreadInv, RunInv, Ordered, NEW q \in Attempts, CloseDone(q)
  PROVE  /\ q = conn /\ main = "sync" /\ main' = "synced" /\ ~broadcasting'
         /\ \A p \in Attempts : queue'[p] = <<>>
<1>1. queue[q] # <<>> /\ snd[q].pc = "bye" /\ Pop(q) /\ main' = "synced" /\ broadcasting' = broadcasting
  BY DEF CloseDone, At
<1>2. queue \in [Attempts -> Seq(Blocks)]
  BY DEF TypeOK, SenderTyped
<1>3. queue[q][1].kind \in BlockKinds("bye")
  BY <1>1 DEF ThreadInv, KindInv
<1>4. queue[q][1].kind = "close" /\ 1 \in DOMAIN queue[q]
  BY <1>1, <1>2, <1>3 DEF BlockKinds
<1>5. q = conn /\ main = "sync" /\ Len(queue[q]) = 1
  BY <1>4 DEF ThreadInv, SyncInv, RunInv
<1>6. ~broadcasting
  BY <1>5 DEF ThreadInv, FlagInv
<1>7. queue'[q] = <<>> /\ \A p \in Attempts : p # q => queue'[p] = queue[p]
  <2>1. PICK s \in Seq(Blocks) : s = queue[q] /\ Len(s) = 1
    BY <1>2, <1>5
  <2>2. s # <<>> /\ Len(Tail(s)) = 0
    BY <1>1, <2>1
  <2>3. Tail(s) = <<>>
    <3>0. Tail(s) \in Seq(Blocks)
      BY <2>2
    <3>1. PICK t \in Seq(Blocks) : t = Tail(s) /\ Len(t) = 0
      BY <2>2, <3>0
    <3>2. t = <<>>
      BY <3>1
    <3>3. QED
      BY <3>1, <3>2
  <2>4. QED
    BY <1>1, <1>2, <2>1, <2>3 DEF Pop
<1>8. \A p \in Attempts : p # q => queue[p] = <<>>
  BY <1>5 DEF RunInv
<1>9. QED
  BY <1>1, <1>5, <1>6, <1>7, <1>8

(* One queue at a time, the close block last: every action.                  *)
LEMMA RunStep ==
  ASSUME TypeOK, ThreadInv, MediaInv, SlipInv, TimeInv, RunInv, [Next]_vars
  PROVE  RunInv'
<1>z. SUFFICES ASSUME Ordered'
               PROVE  /\ vid' # NoFrame => broadcasting'
                      /\ \A q \in Attempts : queue'[q] # <<>> => q = conn' /\ Active'
                      /\ AudioOnly /\ main' = "connected" => \A q \in Attempts : queue'[q] = <<>>
                      /\ \A q \in Attempts : \A i \in DOMAIN queue'[q] :
                           queue'[q][i].kind = "close" => i = Len(queue'[q])
  BY DEF RunInv
<1>0. Ordered
  BY <1>z, UntangledBefore
<1>t. /\ queue \in [Attempts -> Seq(Blocks)] /\ queue' \in [Attempts -> Seq(Blocks)]
      /\ vid \in Frames /\ conn \in Nat
  <2>1. TypeOK'
    BY NextTyped
  <2>2. QED
    BY <2>1 DEF TypeOK, SenderTyped, MediaTyped, MainTyped, Handles
<1>a. AudioOnly => ~HasVideo
  BY DEF AudioOnly, HasVideo
<1>b. AudioOnly => vid = NoFrame
  BY <1>a DEF MediaInv
<1>1. vid' # NoFrame => broadcasting'
  <2>1. SUFFICES ASSUME vid' # NoFrame, ~broadcasting' PROVE FALSE
    OBVIOUS
  <2>2. broadcasting
    BY <1>0, <2>1, FrameMoves DEF RunInv, VideoCaptured, mainVars
  <2>3. (EncodersStopped \/ OnTimeout) /\ vid' = vid
    BY <2>1, <2>2, FlagDown
  <2>4. QED
    BY <1>0, <1>b, <2>1, <2>3, NoTimeout DEF EncodersStopped, EncodersJoined, Ordered, SlipInv
<1>2. ASSUME NEW q \in Attempts, queue'[q] # <<>> PROVE q = conn' /\ Active'
  <2>0. 1 \in DOMAIN queue'[q]
    BY <1>t, <1>2
  <2>1. q = conn /\ (Active \/ broadcasting' \/ main' = "sync")
    <3>1. CASE \E j \in DOMAIN queue[q] : queue'[q][1] = queue[q][j]
      <4>1. queue[q] # <<>>
        BY <3>1
      <4>2. QED
        BY <1>0, <4>1 DEF RunInv
    <3>2. CASE q = conn /\ Brought(queue'[q][1])
      BY <1>0, <3>2 DEF Brought, Connected, SubmitClose, VideoDispatched, RunInv, ThreadInv, FlagInv
    <3>3. QED
      BY <2>0, <3>1, <3>2, BlocksFrom
  <2>2. CASE \E p \in Attempts : SenderStep(p)
    <3>1. PICK p \in Attempts : SenderStep(p)
      BY <2>2
    <3>2. ~CloseDone(p)
      BY <1>0, <1>2, CloseLast
    <3>3. UNCHANGED <<broadcasting, conn, main>>
      BY <3>1, <3>2, SenderMoves DEF ThreadInv
    <3>4. QED
      BY <2>1, <3>3 DEF Active, ThreadInv, FlagInv
  <2>3. CASE \A p \in Attempts : ~SenderStep(p)
    BY <2>1, <2>3, MainMovesSo DEF MainMoves, EnterConnect, Active, ThreadInv, FlagInv
  <2>4. QED
    BY <2>2, <2>3
<1>3. ASSUME AudioOnly, main' = "connected", NEW q \in Attempts PROVE queue'[q] = <<>>
  <2>1. CASE \E p \in Attempts : SenderStep(p)
    <3>1. PICK p \in Attempts : SenderStep(p)
      BY <2>1
    <3>2. main' = main /\ queue[p] # <<>>
      BY <1>3, <3>1, SenderMoves DEF ThreadInv, Moved
    <3>3. QED
      BY <1>0, <1>3, <3>2 DEF RunInv
  <2>2. CASE \A p \in Attempts : ~SenderStep(p)
    <3>1. main \in {"setup", "connected"}
      BY <1>3, <2>2, MainMovesSo DEF MainMoves, EnterConnect
    <3>2. queue[q] = <<>>
      BY <1>0, <1>3, <3>1 DEF RunInv, Active, ThreadInv, FlagInv
    <3>3. ~Connected /\ ~SubmitClose /\ ~VideoDispatched
      BY <1>3, <1>b, <3>1 DEF Connected, SubmitClose, VideoDispatched
    <3>4. UNCHANGED queue
      BY <2>2, <3>3, OtherMoves
    <3>5. QED
      BY <3>2, <3>4
  <2>3. QED
    BY <2>1, <2>2
<1>4. ASSUME NEW q \in Attempts, NEW i \in DOMAIN queue'[q], queue'[q][i].kind = "close"
      PROVE  i = Len(queue'[q])
  <2>1. CASE queue' = queue
    BY <1>0, <1>4, <2>1 DEF RunInv
  <2>2. ASSUME NEW p \in Attempts, Shifted(p) PROVE i = Len(queue'[q])
    <3>1. CASE p = q
      <4>1. i + 1 = Len(queue[q]) /\ i \in Nat
        BY <1>0, <1>4, <2>2, <3>1 DEF RunInv, Shifted
      <4>2. QED
        BY <2>2, <3>1, <4>1 DEF Shifted
    <3>2. CASE p # q
      BY <1>0, <1>4, <2>2, <3>2 DEF RunInv, Shifted
    <3>3. QED
      BY <3>1, <3>2
  <2>3. ASSUME NEW b \in Blocks, Brought(b), Extended(b) PROVE i = Len(queue'[q])
    <3>1. main # "sync"
      BY <1>0, <2>3 DEF Brought, Connected, SubmitClose, VideoDispatched, RunInv, ThreadInv, FlagInv
    <3>2. \A p \in Attempts : \A j \in DOMAIN queue[p] : queue[p][j].kind # "close"
      BY <3>1 DEF ThreadInv, SyncInv
    <3>3. q = conn /\ i \notin DOMAIN queue[conn]
      BY <1>4, <2>3, <3>2 DEF Extended
    <3>4. QED
      BY <2>3, <3>3 DEF Extended
  <2>4. QED
    BY <2>1, <2>2, <2>3, QueueMoves
<1>5. QED
  BY <1>1, <1>2, <1>3, <1>4

-----------------------------------------------------------------------------
(* The packet in hand is the head of avQueue. *)

HandInv == Ordered => HeadInHand

(* A step of a queue leaves only its own block with a packet in hand, and   *)
(* that packet is the head of avQueue.                                      *)
LEMMA HandOfSender ==
  ASSUME TypeOK, ThreadInv, RunInv, HeadInHand, Ordered, NEW p \in Attempts, SenderStep(p),
         NEW q \in Attempts, (At(q, "sendA") \/ At(q, "remove"))'
  PROVE  avQueue' # <<>> /\ Head(avQueue') = snd'[q].pkt
<1>0. snd \in [Attempts -> Senders] /\ queue \in [Attempts -> Seq(Blocks)]
  BY DEF TypeOK, SenderTyped
<1>1. Moved(p) /\ queue'[q] # <<>> /\ snd'[q].pc \in {"sendA", "remove"}
  BY SenderMoves DEF ThreadInv, At
<1>2. q = p
  <2>1. SUFFICES ASSUME q # p PROVE FALSE
    OBVIOUS
  <2>2. snd'[q] = snd[q] /\ queue[p] # <<>>
    BY <1>1, <2>1 DEF Moved
  <2>3. queue[q] # <<>>
    BY <1>1, <2>2 DEF ThreadInv, KindInv
  <2>4. QED
    BY <2>1, <2>2, <2>3 DEF RunInv
<1>3. queue' = queue /\ queue[p] # <<>> /\ snd'[p].pc \in {"sendA", "remove"}
  BY <1>1, <1>2 DEF Moved
<1>4. SendAVDrain(p) \/ SendAudio(p) \/ StreamLoop(p)
  <2>1. CASE SendAVStart(p)
    BY <1>0, <1>3, <2>1, GotoFacts DEF SendAVStart, At
  <2>2. CASE RemoveSent(p)
    BY <1>0, <1>3, <2>2 DEF RemoveSent
  <2>3. CASE SendVideo(p) \/ CloseDone(p) \/ CloseBye(p)
    BY <1>0, <1>3, <2>3, GotoFacts DEF SendVideo, CloseDone, CloseBye
  <2>4. CASE StreamWait(p) \/ StreamWake(p)
    <3>1. \E pc \in {"blocked", "loop", "hung"} : Goto(p, pc)
      BY <2>4 DEF StreamWait, StreamWake
    <3>2. QED
      BY <1>0, <1>3, <3>1, GotoFacts
  <2>5. QED
    BY <2>1, <2>2, <2>3, <2>4 DEF SenderStep
<1>5. CASE SendAVDrain(p)
  BY <1>0, <1>2, <1>3, <1>5 DEF SendAVDrain, AudioFirst, audioVars
<1>6. CASE StreamLoop(p)
  <2>1. ~Goto(p, "idle")
    BY <1>0, <1>3, GotoFacts
  <2>2. /\ avQueue' = avQueue
        /\ snd' = [snd EXCEPT ![p] = IF avQueue = <<>> THEN [pc |-> "wait", pkt |-> NoPacket]
                                     ELSE [pc |-> "sendA", pkt |-> Head(avQueue)]]
    BY <1>6, <2>1 DEF StreamLoop, audioVars
  <2>3. QED
    BY <1>0, <1>2, <1>3, <2>2
<1>7. CASE SendAudio(p)
  <2>1. At(p, "sendA") /\ avQueue' = avQueue /\ Goto(p, "remove")
    BY <1>7 DEF SendAudio, audioVars
  <2>2. snd'[p].pkt = snd[p].pkt
    BY <1>0, <2>1, GotoFacts
  <2>3. QED
    BY <1>2, <2>1, <2>2 DEF HeadInHand, Ordered
<1>8. QED
  BY <1>4, <1>5, <1>6, <1>7

(* The packet in hand: every action.                                         *)
LEMMA HandStep ==
  ASSUME TypeOK, ThreadInv, RunInv, HandInv, [Next]_vars
  PROVE  HandInv'
<1>0. /\ snd \in [Attempts -> Senders] /\ avQueue \in Seq(Packets)
      /\ aud.pkt \in Packets
  BY DEF TypeOK, SenderTyped, MediaTyped, AudioAt
<1>z. SUFFICES ASSUME Ordered', NEW q \in Attempts, (At(q, "sendA") \/ At(q, "remove"))'
               PROVE  avQueue' # <<>> /\ Head(avQueue') = snd'[q].pkt
  BY DEF HandInv, HeadInHand
<1>1. Ordered /\ (At(q, "sendA") \/ At(q, "remove"))'
  BY <1>z, UntangledBefore
<1>2. HeadInHand /\ Untangled
  BY <1>1 DEF HandInv, Ordered
<1>3. CASE \E p \in Attempts : SenderStep(p)
  BY <1>1, <1>2, <1>3, HandOfSender
<1>4. CASE \A p \in Attempts : ~SenderStep(p)
  <2>1. snd' = snd
    BY <1>4, OtherMoves DEF Pushed
  <2>2. At(q, "sendA") \/ At(q, "remove")
    BY <1>1, <2>1 DEF At, ThreadInv, KindInv
  <2>3. avQueue # <<>> /\ Head(avQueue) = snd'[q].pkt
    BY <1>2, <2>1, <2>2 DEF HeadInHand
  <2>4. avQueue' = avQueue \/ avQueue' = Append(avQueue, aud.pkt)
    BY <1>4, Ownership DEF Owned, SenderStep, AudioEnqueued, Enqueued
  <2>5. \A p \in Packets : Append(avQueue, p) # <<>> /\ Head(Append(avQueue, p)) = Head(avQueue)
    BY <1>0, <2>3
  <2>6. QED
    BY <1>0, <2>3, <2>4, <2>5
<1>5. QED
  BY <1>3, <1>4

-----------------------------------------------------------------------------
(* streamAudio and its semaphore: an audio broadcast.  While it sleeps on   *)
(* packets, or when the semaphore has been released, it has been signalled. *)
WakeInv ==
  AudioOnly =>
    /\ broadcasting /\ main # "connected" => sema.live
    /\ \A q \in Attempts : (At(q, "wait") \/ At(q, "blocked")) =>
         /\ avQueue # <<>> => sema.count > 0 \/ aud.pc = "signal"
         /\ ~sema.live => sema.count > 0

(* The semaphore and the packets waiting for it: every action.               *)
LEMMA WakeStep ==
  ASSUME TypeOK, ThreadInv, MediaInv, SlipInv, RunInv, WakeInv, [Next]_vars
  PROVE  WakeInv'
<1>0. SUFFICES ASSUME AudioOnly PROVE WakeInv'
  BY DEF WakeInv, AudioOnly
<1>t. /\ snd \in [Attempts -> Senders] /\ queue \in [Attempts -> Seq(Blocks)]
      /\ sema \in [live : BOOLEAN, count : Nat] /\ avQueue \in Seq(Packets)
  BY DEF TypeOK, SenderTyped, MediaTyped
<1>r. Ordered
  BY <1>0 DEF Ordered, SlipInv, AudioOnly, HasVideo
<1>1. broadcasting' /\ main' # "connected" => sema'.live
  <2>1. SUFFICES ASSUME broadcasting', main' # "connected" PROVE sema'.live
    OBVIOUS
  <2>2. CASE Connected
    BY <2>2 DEF Connected
  <2>3. CASE ~Connected
    <3>1. broadcasting /\ main # "connected"
      <4>1. CASE \E p \in Attempts : SenderStep(p)
        BY <1>r, <2>1, <4>1, SenderMoves, CloseLast DEF ThreadInv, FlagInv
      <4>2. CASE \A p \in Attempts : ~SenderStep(p)
        <5>1. main = "connected" => main' # "idle"
          <6>1. SUFFICES ASSUME main = "connected", main' = "idle" PROVE Connected
            BY <2>3
          <6>2. ~(User \/ MainBlock)
            BY <6>1 DEF User, MainBlock, StartStream, StopStream, OnStarted, OnStopped, OnFailure,
              OnReconnect, OnTimeout, TakeBlock
          <6>3. MainStep => Connected
            BY <6>1 DEF MainStep, SetupFails, SetupSucceeds, SubmitClose, FinishDisconnect, EncodersStopped
          <6>4. ~(AudioCaptured \/ AudioStep \/ RotationStep \/ VideoCaptured \/ VideoDispatched \/ Finished \/ UNCHANGED vars)
            BY <6>1 DEF AudioCaptured, AudioStep, AudioStamped, AudioEnqueued, AudioSignalled,
    RotationStep, RotationBegins, RotationEnds,
              VideoCaptured, VideoDispatched, Finished, vars, mainVars
          <6>5. \A g \in Attempts : ~WatchStep(g)
            BY <6>1 DEF WatchStep, WatchFires, WatchNext, WatchDecides, mainVars
          <6>6. QED
            BY <4>2, <6>2, <6>3, <6>4, <6>5 DEF Next
        <5>2. QED
          BY <2>1, <4>2, <5>1, MainMovesSo DEF MainMoves, EnterConnect, ThreadInv, FlagInv
      <4>3. QED
        BY <4>1, <4>2
    <3>2. sema.live
      BY <1>0, <3>1 DEF WakeInv
    <3>3. ~SubmitClose
      BY <3>1 DEF SubmitClose, ThreadInv, FlagInv
    <3>4. QED
      BY <1>t, <2>3, <3>2, <3>3, Ownership DEF Owned, AudioSignalled, StreamWake
  <2>4. QED
    BY <2>2, <2>3
<1>2. ASSUME NEW q \in Attempts, (At(q, "wait") \/ At(q, "blocked"))'
      PROVE  /\ avQueue' # <<>> => sema'.count > 0 \/ aud'.pc = "signal"
             /\ ~sema'.live => sema'.count > 0
  <2>0. queue'[q] # <<>> /\ snd'[q].pc \in {"wait", "blocked"}
    BY <1>2 DEF At
  <2>1. ASSUME NEW p \in Attempts, SenderStep(p)
        PROVE  /\ avQueue' # <<>> => sema'.count > 0 \/ aud'.pc = "signal"
               /\ ~sema'.live => sema'.count > 0
    <3>1. Moved(p)
      BY <2>1, SenderMoves DEF ThreadInv
    <3>2. q = p
      <4>1. SUFFICES ASSUME q # p PROVE FALSE
        OBVIOUS
      <4>2. snd'[q] = snd[q] /\ queue[p] # <<>>
        BY <3>1, <4>1 DEF Moved
      <4>3. queue[q] # <<>>
        BY <2>0, <4>2 DEF ThreadInv, KindInv
      <4>4. QED
        BY <1>r, <4>1, <4>2, <4>3 DEF RunInv
    <3>3. snd'[p].pc \in {"wait", "blocked"}
      BY <2>0, <3>2
    <3>4. StreamLoop(p) \/ StreamWait(p)
      <4>1. CASE SendAVStart(p)
        BY <1>t, <3>3, <4>1, GotoFacts DEF SendAVStart, At
      <4>2. CASE SendAVDrain(p)
        <5>1. Goto(p, "sendV") \/ snd' = [snd EXCEPT ![p] = [pc |-> "sendA", pkt |-> Head(avQueue)]]
          BY <4>2 DEF SendAVDrain, Goto
        <5>2. QED
          BY <1>t, <3>3, <5>1, GotoFacts
      <4>3. CASE RemoveSent(p)
        BY <1>t, <3>3, <4>3 DEF RemoveSent
      <4>4. CASE SendAudio(p) \/ SendVideo(p) \/ CloseDone(p) \/ CloseBye(p) \/ StreamWake(p)
        BY <1>t, <3>3, <4>4, GotoFacts DEF SendAudio, SendVideo, CloseDone, CloseBye, StreamWake
      <4>5. QED
        BY <2>1, <4>1, <4>2, <4>3, <4>4 DEF SenderStep
    <3>5. CASE StreamWait(p)
      <4>1. At(p, "wait") /\ UNCHANGED <<sema, avQueue, aud>>
        BY <3>5 DEF StreamWait, audioVars
      <4>2. QED
        BY <1>0, <4>1 DEF WakeInv
    <3>6. CASE StreamLoop(p)
      <4>1. /\ UNCHANGED <<sema, avQueue, aud>>
            /\ broadcasting /\ avQueue = <<>> /\ queue[p] # <<>>
        <5>1. ~Goto(p, "idle")
          BY <1>t, <3>3, GotoFacts
        <5>2. avQueue = <<>>
          BY <1>t, <3>3, <3>6, <5>1 DEF StreamLoop
        <5>3. QED
          BY <3>6, <5>1, <5>2 DEF StreamLoop, At, audioVars
      <4>2. main # "connected"
        BY <1>0, <1>r, <4>1 DEF RunInv
      <4>3. QED
        BY <1>0, <4>1, <4>2 DEF WakeInv
    <3>7. QED
      BY <3>4, <3>5, <3>6
  <2>2. ASSUME \A p \in Attempts : ~SenderStep(p)
        PROVE  /\ avQueue' # <<>> => sema'.count > 0 \/ aud'.pc = "signal"
               /\ ~sema'.live => sema'.count > 0
    <3>1. snd' = snd
      BY <2>2, OtherMoves DEF Pushed
    <3>2. At(q, "wait") \/ At(q, "blocked")
      BY <2>0, <3>1 DEF At, ThreadInv, KindInv
    <3>3. /\ avQueue # <<>> => sema.count > 0 \/ aud.pc = "signal"
          /\ ~sema.live => sema.count > 0
      BY <1>0, <3>2 DEF WakeInv
    <3>4. ~Connected
      BY <1>0, <1>r, <3>2 DEF Connected, At, RunInv
    <3>5. CASE AudioSignalled
      BY <1>t, <3>3, <3>5 DEF AudioSignalled
    <3>6. CASE SubmitClose
      BY <1>0, <1>t, <3>6 DEF SubmitClose
    <3>7. CASE AudioEnqueued
      BY <1>0, <3>3, <3>7 DEF AudioEnqueued, NeedsSignal
    <3>8. CASE ~AudioSignalled /\ ~SubmitClose /\ ~AudioEnqueued
      <4>1. sema' = sema /\ avQueue' = avQueue
        BY <2>2, <3>4, <3>8, Ownership DEF Owned, SenderStep
      <4>2. aud.pc = "signal" => aud'.pc = "signal"
        BY <3>8, Ownership DEF Owned, AudioCaptured, AudioStep, AudioStamped
      <4>3. QED
        BY <3>3, <4>1, <4>2
    <3>9. QED
      BY <3>5, <3>6, <3>7, <3>8
  <2>3. QED
    BY <2>1, <2>2
<1>3. QED
  BY <1>1, <1>2 DEF WakeInv

-----------------------------------------------------------------------------
(* Together. *)

SenderInv == ThreadInv /\ MediaInv /\ SlipInv /\ TimeInv /\ RunInv /\ HandInv /\ WakeInv

(* The invariant of the sender queues holds in every reachable state.       *)
LEMMA SenderAlways == Spec => [](TypeOK /\ SenderInv)
<1>1. Init => SenderInv
  <2>1. SUFFICES ASSUME Init PROVE MediaInv /\ SlipInv /\ TimeInv /\ RunInv /\ HandInv /\ WakeInv /\ ThreadInv
    BY DEF SenderInv
  <2>2. \A q \in Attempts : queue[q] = <<>>
    BY <2>1 DEF Init
  <2>3. MediaInv /\ SlipInv
    BY <2>1, <2>2 DEF Init, MediaInv, SlipInv, Untangled
  <2>4. TimeInv
    BY <2>1 DEF Init, TimeInv
  <2>5. RunInv
    BY <2>1, <2>2 DEF Init, RunInv
  <2>6. HandInv /\ WakeInv
    BY <2>1, <2>2 DEF Init, HandInv, HeadInHand, WakeInv, At
  <2>7. KindInv /\ SyncInv /\ FlagInv
    BY <2>1, <2>2 DEF Init, KindInv, SyncInv, FlagInv
  <2>8. QED
    BY <2>3, <2>4, <2>5, <2>6, <2>7 DEF ThreadInv
<1>2. TypeOK /\ SenderInv /\ [Next]_vars => SenderInv'
  <2>1. SUFFICES ASSUME TypeOK, SenderInv, [Next]_vars PROVE SenderInv'
    OBVIOUS
  <2>2. ThreadInv /\ MediaInv /\ SlipInv /\ TimeInv /\ RunInv /\ HandInv /\ WakeInv /\ KindInv /\ SyncInv /\ FlagInv
    BY <2>1 DEF SenderInv, ThreadInv
  <2>3. KindInv' /\ SyncInv' /\ FlagInv'
    BY <2>1, <2>2, KindStep, SyncStep, FlagStep
  <2>4. MediaInv' /\ SlipInv' /\ TimeInv'
    BY <2>1, <2>2, MediaStep, SlipStep, TimeStep
  <2>5. RunInv'
    BY <2>1, <2>2, RunStep
  <2>6. HandInv' /\ WakeInv'
    BY <2>1, <2>2, HandStep, WakeStep
  <2>7. QED
    BY <2>3, <2>4, <2>5, <2>6 DEF SenderInv, ThreadInv
<1>3. QED
  BY <1>1, <1>2, InitTyped, NextTyped, PTL DEF Spec

(* A TCP or an audio-only broadcast: the packet a sender block has in hand  *)
(* is still the head of avQueue when removeObjectAtIndex:0 removes it       *)
(* (LivuBroadcastManager sendAV, streamAudio), unless a stop fell into a    *)
(* rotation of the AVC encoder.                                             *)
THEOREM PacketStaysInHand ==
  ASSUME UseTCP \/ AudioOnly
  PROVE  Spec => []HeadInHand
<1>1. SenderInv => HeadInHand
  BY DEF SenderInv, HandInv, Ordered, HeadInHand
<1>2. QED
  BY <1>1, SenderAlways, PTL

(* streamAudio does not sleep on a queued packet that no signal is on its   *)
(* way for, whatever the profile.                                           *)
THEOREM WakeupNeverLost == Spec => []NoLostWakeup
<1>1. TypeOK /\ SenderInv => NoLostWakeup
  <2>1. SUFFICES ASSUME TypeOK, SenderInv, NEW q \in Attempts, At(q, "blocked"), avQueue # <<>>
                 PROVE  sema.count > 0 \/ aud.pc = "signal"
    BY DEF NoLostWakeup
  <2>2. queue[q] # <<>> /\ queue[q][1].kind = "stream" /\ 1 \in DOMAIN queue[q]
    <3>1. queue[q] \in Seq(Blocks) /\ queue[q] # <<>> /\ snd[q].pc = "blocked"
      BY <2>1 DEF TypeOK, SenderTyped, At
    <3>2. queue[q][1].kind \in BlockKinds("blocked")
      BY <2>1, <3>1 DEF SenderInv, ThreadInv, KindInv
    <3>3. QED
      BY <3>1, <3>2 DEF BlockKinds
  <2>3. AudioOnly
    BY <2>1, <2>2 DEF SenderInv, MediaInv
  <2>4. QED
    BY <2>1, <2>3 DEF SenderInv, WakeInv
<1>2. QED
  BY <1>1, SenderAlways, PTL

-----------------------------------------------------------------------------
(* A TCP broadcast: everything in flight belongs to the current attempt,    *)
(* and the sessions it is sent on are those of that attempt.                *)
OwnInv ==
  Tidy =>
    /\ vid # NoFrame => vid.sess = conn
    /\ aud.pc \in {"stamp", "enqueue"} => aud.pkt.sess = conn
    /\ \A i \in DOMAIN avQueue : avQueue[i].sess = conn
    /\ \A q \in Attempts : \A i \in DOMAIN queue[q] : queue[q][i].sess = conn

(* What a TCP broadcast holds while it is on: its queue, its sessions.      *)
HoldInv ==
  Tidy =>
    /\ Active \/ main = "setup" => conn \in retained
    /\ ~Active => avQueue = <<>>
    /\ Active => /\ HasAudio => aac = conn
                 /\ HasVideo => avc = conn
                 /\ DoneOnClose \subseteq live

(* The attempt stays the same while a broadcast is on, and the broadcast    *)
(* ends with its close block.                                               *)
LEMMA ActiveMoves ==
  ASSUME TypeOK, SenderInv, [Next]_vars
  PROVE  /\ Active => conn' = conn
         /\ Active /\ ~Active' => \E q \in Attempts : CloseDone(q)
         /\ Active' \/ main' = "setup" => Active \/ main = "setup" \/ EnterConnect
         /\ ~Active /\ Active' => main = "setup" /\ broadcasting' /\ main' # main
<1>1. CASE \E q \in Attempts : SenderStep(q)
  <2>1. PICK q \in Attempts : SenderStep(q)
    BY <1>1
  <2>2. UNCHANGED <<broadcasting, conn>> /\ (main' = main \/ (main' = "synced" /\ CloseDone(q)))
    BY <2>1, SenderMoves DEF SenderInv, ThreadInv
  <2>3. Active /\ ~Active' => CloseDone(q)
    BY <2>2 DEF Active
  <2>4. /\ Active' => Active
        /\ main' = "setup" => main = "setup"
    BY <2>2 DEF Active
  <2>5. QED
    BY <2>2, <2>3, <2>4
<1>2. CASE \A q \in Attempts : ~SenderStep(q)
  <2>1. MainMoves
    BY <1>2, MainMovesSo
  <2>2. main = "setup" => ~broadcasting
    BY DEF SenderInv, ThreadInv, FlagInv
  <2>3. (Active => conn' = conn) /\ (Active => Active')
    BY <2>1, <2>2 DEF MainMoves, Active
  <2>4. Active' \/ main' = "setup" => Active \/ main = "setup" \/ EnterConnect
    BY <2>1 DEF MainMoves, Active
  <2>5. ~Active /\ Active' => main = "setup" /\ broadcasting' /\ main' # main
    BY <2>1 DEF MainMoves, EnterConnect, Active
  <2>6. QED
    BY <2>3, <2>4, <2>5
<1>3. QED
  BY <1>1, <1>2

(* What belongs to the current session: every action.                        *)
LEMMA OwnStep ==
  ASSUME TypeOK, SenderInv, OwnInv, HoldInv, [Next]_vars
  PROVE  OwnInv'
<1>z. SUFFICES ASSUME Tidy'
               PROVE  /\ vid' # NoFrame => vid'.sess = conn'
                      /\ aud'.pc \in {"stamp", "enqueue"} => aud'.pkt.sess = conn'
                      /\ \A i \in DOMAIN avQueue' : avQueue'[i].sess = conn'
                      /\ \A q \in Attempts : \A i \in DOMAIN queue'[q] : queue'[q][i].sess = conn'
  BY DEF OwnInv
<1>0. Tidy /\ UseTCP
  BY <1>z, UntangledBefore
<1>t. /\ queue \in [Attempts -> Seq(Blocks)] /\ avQueue \in Seq(Packets) /\ aud \in AudioAt
      /\ conn \in Nat
  BY DEF TypeOK, SenderTyped, MediaTyped, MainTyped, Handles
<1>r. Ordered /\ (broadcasting => Active) /\ (aud.pc # "idle" => broadcasting)
      /\ (vid # NoFrame => broadcasting) /\ (avQueue # <<>> => Active)
  BY <1>0 DEF Ordered, Tidy, Active, SenderInv, TimeInv, RunInv, HoldInv
<1>c. Active => conn' = conn
  BY ActiveMoves
<1>1. vid' # NoFrame => vid'.sess = conn'
  BY <1>0, <1>r, <1>c, FrameMoves DEF OwnInv, VideoCaptured
<1>2. aud'.pc \in {"stamp", "enqueue"} => aud'.pkt.sess = conn'
  <2>1. CASE aud' = aud
    BY <1>0, <1>r, <1>c, <2>1 DEF OwnInv
  <2>2. CASE AudioCaptured
    BY <1>0, <1>r, <1>c, <2>2 DEF OwnInv, AudioCaptured
  <2>3. CASE AudioStamped
    <3>1. aud'.pkt = [aud.pkt EXCEPT !.inc = NextInc] /\ aud.pc = "stamp"
      BY <2>3 DEF AudioStamped
    <3>2. aud'.pkt.sess = aud.pkt.sess
      BY <1>t, <3>1 DEF AudioAt, Packets
    <3>3. QED
      BY <1>0, <1>r, <1>c, <3>1, <3>2 DEF OwnInv
  <2>4. CASE AudioEnqueued \/ AudioSignalled
    BY <2>4 DEF AudioEnqueued, AudioSignalled
  <2>5. QED
    BY <2>1, <2>2, <2>3, <2>4, Ownership DEF Owned, AudioStep
<1>3. ASSUME NEW i \in DOMAIN avQueue' PROVE avQueue'[i].sess = conn'
  <2>1. CASE avQueue' = avQueue
    BY <1>0, <1>t, <1>r, <1>c, <1>3, <2>1 DEF OwnInv
  <2>2. CASE AudioEnqueued
    <3>1. aud.pkt.sess = conn /\ conn' = conn
      BY <1>0, <1>r, <1>c, <2>2 DEF AudioEnqueued, OwnInv
    <3>2. avQueue' = Append(avQueue, aud.pkt) /\ aud.pkt \in Packets
      BY <1>t, <2>2 DEF AudioEnqueued, Enqueued, AudioAt
    <3>3. (i \in DOMAIN avQueue /\ avQueue'[i] = avQueue[i]) \/ avQueue'[i] = aud.pkt
      BY <1>t, <3>2
    <3>4. QED
      BY <1>0, <3>1, <3>3 DEF OwnInv
  <2>3. ASSUME NEW q \in Attempts, RemoveSent(q) PROVE avQueue'[i].sess = conn'
    <3>1. Active
      BY <1>r, <2>3 DEF RemoveSent, At, SenderInv, RunInv
    <3>2. avQueue # <<>> /\ avQueue' = Tail(avQueue)
      BY <1>r, <2>3 DEF RemoveSent, SenderInv, HandInv, HeadInHand
    <3>3. i + 1 \in DOMAIN avQueue /\ avQueue'[i] = avQueue[i + 1]
      BY <1>t, <3>2
    <3>4. QED
      BY <1>0, <1>c, <3>1, <3>3 DEF OwnInv
  <2>4. ASSUME NEW q \in Attempts, CloseDone(q) PROVE FALSE
    BY <2>4 DEF CloseDone, QueueAfterClose
  <2>5. QED
    BY <2>1, <2>2, <2>3, <2>4, Ownership DEF Owned
<1>4. ASSUME NEW q \in Attempts, NEW i \in DOMAIN queue'[q] PROVE queue'[q][i].sess = conn'
  <2>1. CASE \E j \in DOMAIN queue[q] : queue'[q][i] = queue[q][j]
    <3>1. Active
      BY <1>r, <2>1 DEF SenderInv, RunInv
    <3>2. QED
      BY <1>0, <1>c, <2>1, <3>1 DEF OwnInv
  <2>2. CASE Brought(queue'[q][i])
    BY <1>0, <1>r, <1>c, <2>2 DEF Brought, Stream, Close, FrameBlock, Connected, SubmitClose,
      VideoDispatched, OwnInv, Active, SenderInv, ThreadInv, FlagInv
  <2>3. QED
    BY <2>1, <2>2, BlocksFrom DEF SenderInv
<1>5. QED
  BY <1>1, <1>2, <1>3, <1>4

(* What is held while a queue runs: every action.                            *)
LEMMA HoldStep ==
  ASSUME TypeOK, SenderInv, HoldInv, [Next]_vars
  PROVE  HoldInv'
<1>z. SUFFICES ASSUME Tidy'
               PROVE  /\ Active' \/ main' = "setup" => conn' \in retained'
                      /\ ~Active' => avQueue' = <<>>
                      /\ Active' => /\ HasAudio => aac' = conn'
                                    /\ HasVideo => avc' = conn'
                                    /\ DoneOnClose' \subseteq live'
  BY DEF HoldInv
<1>0. Tidy /\ UseTCP
  BY <1>z, UntangledBefore
<1>r. Ordered /\ (aud.pc # "idle" => Active) /\ (avQueue # <<>> => Active)
      /\ (main = "setup" => ~broadcasting /\ ~Active) /\ (broadcasting => Active)
  BY <1>0 DEF Ordered, Tidy, Active, SenderInv, TimeInv, HoldInv, ThreadInv, FlagInv
<1>m. /\ Active => conn' = conn
      /\ Active /\ ~Active' => \E q \in Attempts : CloseDone(q)
      /\ Active' \/ main' = "setup" => Active \/ main = "setup" \/ EnterConnect
      /\ ~Active /\ Active' => main = "setup" /\ broadcasting' /\ main' # main
  BY ActiveMoves
<1>1. ASSUME Active' \/ main' = "setup" PROVE conn' \in retained'
  <2>1. CASE EnterConnect
    BY <2>1 DEF EnterConnect
  <2>2. CASE ~EnterConnect
    <3>1. conn \in retained
      BY <1>0, <1>1, <1>m, <2>2 DEF HoldInv
    <3>2. ~FinishDisconnect
      BY <1>1, <1>m, <2>2 DEF FinishDisconnect, Active, SenderInv, ThreadInv, FlagInv
    <3>3. conn' = conn
      <4>1. CASE \E q \in Attempts : SenderStep(q)
        BY <4>1, SenderMoves DEF SenderInv, ThreadInv
      <4>2. CASE \A q \in Attempts : ~SenderStep(q)
        BY <2>2, <4>2, MainMovesSo DEF MainMoves
      <4>3. QED
        BY <4>1, <4>2
    <3>4. retained' = retained
      BY <2>2, <3>2, Ownership DEF Owned
    <3>5. QED
      BY <3>1, <3>3, <3>4
  <2>3. QED
    BY <2>1, <2>2
<1>2. ASSUME ~Active' PROVE avQueue' = <<>>
  <2>1. CASE \E q \in Attempts : CloseDone(q)
    BY <2>1 DEF CloseDone, QueueAfterClose
  <2>2. CASE \A q \in Attempts : ~CloseDone(q)
    <3>1. ~Active /\ avQueue = <<>>
      BY <1>2, <1>m, <1>r, <2>2
    <3>2. ~AudioEnqueued
      BY <1>r, <3>1 DEF AudioEnqueued
    <3>3. \A q \in Attempts : ~RemoveSent(q)
      BY <1>r, <3>1 DEF RemoveSent, At, SenderInv, RunInv
    <3>4. QED
      BY <2>2, <3>1, <3>2, <3>3, Ownership DEF Owned
  <2>3. QED
    BY <2>1, <2>2
<1>3. ASSUME Active' PROVE /\ HasAudio => aac' = conn'
                           /\ HasVideo => avc' = conn'
                           /\ DoneOnClose' \subseteq live'
  <2>1. ~\E s \in Stages, n \in {"Error", "BadPass"} : SetupFails(s, n)
    <3>1. SUFFICES ASSUME NEW s \in Stages, NEW n \in {"Error", "BadPass"}, SetupFails(s, n) PROVE FALSE
      OBVIOUS
    <3>2. main = "setup" /\ main' = "idle" /\ broadcasting' = broadcasting
      BY <3>1 DEF SetupFails
    <3>3. QED
      BY <1>3, <1>r, <3>2 DEF Active
  <2>2. ~\E q \in Attempts : CloseDone(q)
    <3>1. SUFFICES ASSUME NEW q \in Attempts, CloseDone(q) PROVE FALSE
      OBVIOUS
    <3>2. QED
      BY <1>3, <1>r, <3>1, CloseLast DEF Active, SenderInv
  <2>3. CASE \E s \in {"none", "initAVC"} : SetupSucceeds(s)
    <3>1. PICK s \in {"none", "initAVC"} : SetupSucceeds(s)
      BY <2>3
    <3>2. s = "none" /\ SetupRtp("none") /\ conn' = conn
      BY <1>0, <3>1 DEF SetupSucceeds, Applicable
    <3>3. /\ aac' = AacAfter("none") /\ avc' = AvcAfter("none")
          /\ live' = live \cup Created("none")
      BY <3>2 DEF SetupRtp, DoneOnError
    <3>4. (HasAudio => aac' = conn) /\ (HasVideo => avc' = conn)
      BY <3>3 DEF AacAfter, AvcAfter
    <3>5. QED
      BY <3>2, <3>3, <3>4 DEF Created, DoneOnClose
  <2>4. CASE ~\E s \in {"none", "initAVC"} : SetupSucceeds(s)
    <3>1. UNCHANGED <<aac, avc, live>>
      BY <2>1, <2>2, <2>4, Ownership DEF Owned
    <3>2. Active
      <4>1. SUFFICES ASSUME ~Active PROVE FALSE
        OBVIOUS
      <4>2. main = "setup" /\ broadcasting' /\ ~broadcasting
        BY <1>3, <1>m, <1>r, <4>1
      <4>3. \A q \in Attempts : ~SenderStep(q)
        BY <4>2, SenderMoves DEF SenderInv, ThreadInv
      <4>4. ~(User \/ MainBlock)
        BY <4>2 DEF User, MainBlock, StartStream, StopStream, OnStarted, OnStopped, OnFailure,
          OnReconnect, OnTimeout, TakeBlock
      <4>5. ~MainStep
        BY <2>1, <2>4, <4>2 DEF MainStep, Connected, SubmitClose, FinishDisconnect, EncodersStopped
      <4>6. ~(AudioCaptured \/ AudioStep \/ RotationStep \/ VideoCaptured \/ VideoDispatched \/ Finished \/ UNCHANGED vars)
        BY <4>2 DEF AudioCaptured, AudioStep, AudioStamped, AudioEnqueued, AudioSignalled,
    RotationStep, RotationBegins, RotationEnds,
          VideoCaptured, VideoDispatched, Finished, vars
      <4>7. \A g \in Attempts : ~WatchStep(g)
        BY <4>2 DEF WatchStep, WatchFires, WatchNext, WatchDecides
      <4>8. QED
        BY <4>3, <4>4, <4>5, <4>6, <4>7 DEF Next
    <3>3. QED
      BY <1>0, <1>m, <3>1, <3>2 DEF HoldInv, DoneOnClose
  <2>5. QED
    BY <2>3, <2>4
<1>4. QED
  BY <1>1, <1>2, <1>3

-----------------------------------------------------------------------------
(* What a TCP broadcast sends, and what it never does. *)

FaultInv ==
  Tidy /\ HasVideo /\ (HasAudio \/ FailStages \cap {"setupAVC", "record"} = {})
    => NoUseAfterFree

SentInv == Tidy => SentInOwnSession

(* What the block at the head of a queue may use.                           *)
LEMMA HeadUses ==
  ASSUME TypeOK, SenderInv, OwnInv, HoldInv, Tidy, NEW q \in Attempts, queue[q] # <<>>
  PROVE  /\ Active /\ q = conn /\ Block(q) = queue[q][1] /\ 1 \in DOMAIN queue[q]
         /\ HasAudio => aac = conn /\ <<"aac", aac>> \in live
         /\ HasVideo => avc = conn /\ <<"avc", avc>> \in live
         /\ Block(q).sess = conn
         /\ snd[q].pc \in {"sendA", "remove"} =>
              /\ avQueue # <<>> /\ snd[q].pkt = Head(avQueue) /\ HasAudio
              /\ snd[q].pkt.sess = conn
         /\ Block(q).kind = "video" => HasVideo
         /\ Block(q).kind = "stream" => AudioOnly
<1>0. queue \in [Attempts -> Seq(Blocks)] /\ avQueue \in Seq(Packets)
  BY DEF TypeOK, SenderTyped, MediaTyped
<1>1. Active /\ q = conn /\ Block(q) = queue[q][1] /\ 1 \in DOMAIN queue[q]
  BY <1>0 DEF SenderInv, RunInv, Ordered, Tidy, Block
<1>2. /\ HasAudio => aac = conn /\ <<"aac", aac>> \in live
      /\ HasVideo => avc = conn /\ <<"avc", avc>> \in live
  BY <1>1 DEF HoldInv, DoneOnClose
<1>3. /\ Block(q).sess = conn
      /\ Block(q).kind = "video" => HasVideo
      /\ Block(q).kind = "stream" => AudioOnly
  BY <1>1 DEF OwnInv, SenderInv, MediaInv
<1>4. snd[q].pc \in {"sendA", "remove"} =>
        avQueue # <<>> /\ snd[q].pkt = Head(avQueue) /\ HasAudio /\ snd[q].pkt.sess = conn
  <2>1. SUFFICES ASSUME snd[q].pc \in {"sendA", "remove"}
                 PROVE  avQueue # <<>> /\ snd[q].pkt = Head(avQueue) /\ HasAudio /\ snd[q].pkt.sess = conn
    OBVIOUS
  <2>2. avQueue # <<>> /\ snd[q].pkt = Head(avQueue)
    BY <2>1 DEF At, SenderInv, HandInv, Ordered, Tidy, HeadInHand
  <2>3. Head(avQueue) = avQueue[1] /\ 1 \in DOMAIN avQueue
    BY <1>0, <2>2
  <2>4. QED
    BY <2>2, <2>3 DEF OwnInv, SenderInv, MediaInv
<1>5. QED
  BY <1>1, <1>2, <1>3, <1>4

(* The error path of connect: frees the sessions it has created.            *)
LEMMA SetupUses ==
  ASSUME NEW s \in Stages \cup {"none"}, Applicable(s), SetupRtp(s), HasVideo,
         HasAudio \/ s \notin {"setupAVC", "record"}
  PROVE  faults' = faults
<1>1. DoneOnError(s) \subseteq live \cup Created(s)
  <2>1. CASE s = "setupAVC"
    BY <2>1 DEF DoneOnError, AacAfter, Created
  <2>2. CASE s = "record"
    BY <2>2 DEF DoneOnError, AacAfter, AvcAfter, Created
  <2>3. CASE s \notin {"setupAVC", "record"}
    BY <2>3 DEF DoneOnError
  <2>4. QED
    BY <2>1, <2>2, <2>3
<1>2. QED
  BY <1>1 DEF SetupRtp

(* Nothing freed is used: every action.                                      *)
LEMMA FaultStep ==
  ASSUME TypeOK, SenderInv, OwnInv, HoldInv, FaultInv, [Next]_vars
  PROVE  FaultInv'
<1>z. SUFFICES ASSUME Tidy', HasVideo, HasAudio \/ FailStages \cap {"setupAVC", "record"} = {}
               PROVE  faults' = faults
  BY UntangledBefore DEF FaultInv, NoUseAfterFree
<1>0. Tidy /\ UseTCP /\ HasVideo /\ (HasAudio \/ FailStages \cap {"setupAVC", "record"} = {})
  BY <1>z, UntangledBefore
<1>v. ~AudioOnly
  BY <1>0 DEF AudioOnly, HasVideo
<1>1. ASSUME User \/ MainBlock PROVE faults' = faults
  BY <1>1 DEF User, MainBlock, StartStream, StopStream, OnStarted, OnStopped, OnFailure,
    OnReconnect, OnTimeout
<1>2. ASSUME NEW s \in Stages, NEW n \in {"Error", "BadPass"}, SetupFails(s, n) PROVE faults' = faults
  <2>1. s \in FailStages /\ Applicable(s) /\ SetupRtp(s)
    BY <1>2 DEF SetupFails
  <2>2. HasAudio \/ s \notin {"setupAVC", "record"}
    BY <1>0, <2>1
  <2>3. QED
    BY <1>0, <2>1, <2>2, SetupUses
<1>3. ASSUME NEW s \in {"none", "initAVC"}, SetupSucceeds(s) PROVE faults' = faults
  <2>1. s = "none" /\ SetupRtp(s) /\ Applicable(s)
    BY <1>0, <1>3 DEF SetupSucceeds, Applicable
  <2>2. QED
    BY <1>0, <2>1, SetupUses
<1>4. ASSUME Connected \/ SubmitClose \/ FinishDisconnect \/ EncodersStopped PROVE faults' = faults
  BY <1>4 DEF Connected, SubmitClose, FinishDisconnect, EncodersStopped
<1>5. ASSUME NEW q \in Attempts, SenderStep(q) PROVE faults' = faults
  <2>1. queue[q] # <<>> /\ queue[q][1].kind \in BlockKinds(snd[q].pc)
    BY <1>5, SenderMoves DEF Moved, SenderInv, ThreadInv, KindInv
  <2>2. /\ <<"avc", avc>> \in live /\ (HasAudio => <<"aac", aac>> \in live)
        /\ snd[q].pc \in {"sendA", "remove"} => avQueue # <<>> /\ HasAudio
        /\ queue[q][1].kind # "stream" /\ DoneOnClose \subseteq live
    BY <1>0, <1>v, <2>1, HeadUses DEF DoneOnClose
  <2>3. CASE SendAVStart(q) \/ SendAVDrain(q) \/ StreamLoop(q) \/ StreamWake(q)
    BY <2>3 DEF SendAVStart, SendAVDrain, StreamLoop, StreamWake
  <2>4. CASE SendAudio(q) \/ RemoveSent(q) \/ SendVideo(q)
    BY <2>2, <2>4 DEF SendAudio, RemoveSent, SendVideo, At, Use
  <2>5. CASE StreamWait(q)
    BY <2>1, <2>2, <2>5 DEF StreamWait, At, BlockKinds
  <2>6. CASE CloseBye(q) \/ CloseDone(q)
    BY <2>2, <2>6 DEF CloseBye, CloseDone, Use
  <2>7. QED
    BY <1>5, <2>3, <2>4, <2>5, <2>6 DEF SenderStep
<1>6. ASSUME AudioCaptured \/ AudioStep \/ RotationStep \/ VideoCaptured PROVE faults' = faults
  BY <1>v, <1>6 DEF AudioCaptured, AudioStep, AudioStamped, AudioEnqueued, AudioSignalled,
    RotationStep, RotationBegins, RotationEnds, VideoCaptured,
    SenderInv, MediaInv
<1>7. ASSUME VideoDispatched PROVE faults' = faults
  <2>1. conn \in retained
    BY <1>0, <1>7 DEF VideoDispatched, SenderInv, RunInv, Ordered, Tidy, HoldInv, Active
  <2>2. QED
    BY <1>7, <2>1 DEF VideoDispatched
<1>8. ASSUME NEW g \in Attempts, WatchStep(g) PROVE faults' = faults
  BY <1>0, <1>8 DEF WatchStep, WatchFires, WatchNext, WatchDecides, SenderInv, TimeInv
<1>9. ASSUME Finished \/ UNCHANGED vars PROVE faults' = faults
  BY <1>9 DEF Finished, vars
<1>10. QED
  BY <1>1, <1>2, <1>3, <1>4, <1>5, <1>6, <1>7, <1>8, <1>9 DEF Next, MainStep

(* What was sent, and in which session: every action.                        *)
LEMMA SentStep ==
  ASSUME TypeOK, SenderInv, OwnInv, HoldInv, SentInv, [Next]_vars
  PROVE  SentInv'
<1>z. SUFFICES ASSUME Tidy', NEW i \in DOMAIN sent' PROVE sent'[i].sess = sent'[i].on
  BY DEF SentInv, SentInOwnSession
<1>0. Tidy /\ Untangled /\ i \in DOMAIN sent'
  BY <1>z, UntangledBefore
<1>t. sent \in Seq(SentSet)
  BY DEF TypeOK, HistoryTyped
<1>1. CASE sent' = sent
  BY <1>0, <1>1 DEF SentInv, SentInOwnSession
<1>2. ASSUME NEW r \in SentSet, sent' = Append(sent, r), r.sess = r.on PROVE sent'[i].sess = sent'[i].on
  <2>1. (i \in DOMAIN sent /\ sent'[i] = sent[i]) \/ sent'[i] = r
    BY <1>0, <1>t, <1>2
  <2>2. QED
    BY <1>0, <1>2, <2>1 DEF SentInv, SentInOwnSession
<1>3. ASSUME NEW q \in Attempts, SendAudio(q) PROVE sent'[i].sess = sent'[i].on
  <2>1. queue[q] # <<>> /\ snd[q].pc = "sendA" /\ snd[q].pkt \in Packets
    BY <1>3 DEF SendAudio, At, TypeOK, SenderTyped, Senders
  <2>2. PICK r : r = [kind |-> "audio", time |-> snd[q].pkt.time, inc |-> snd[q].pkt.inc,
                      sess |-> snd[q].pkt.sess, on |-> aac]
    OBVIOUS
  <2>3. sent' = Append(sent, r)
    BY <1>3, <2>2 DEF SendAudio
  <2>4. r.sess = snd[q].pkt.sess /\ r.on = aac /\ aac = conn /\ snd[q].pkt.sess = conn
    BY <1>0, <2>1, <2>2, HeadUses
  <2>5. r \in SentSet
    BY <2>1, <2>2 DEF SentSet, Packets, TypeOK, RtpTyped, Handles
  <2>6. QED
    BY <1>2, <2>3, <2>4, <2>5
<1>4. ASSUME NEW q \in Attempts, SendVideo(q) PROVE sent'[i].sess = sent'[i].on
  <2>1. queue[q] # <<>> /\ snd[q].pc = "sendV" /\ Block(q) \in Blocks
    BY <1>4 DEF SendVideo, At, TypeOK, SenderTyped, Block
  <2>2. Block(q).kind = "video"
    BY <1>0, <2>1, HeadUses DEF SenderInv, ThreadInv, KindInv, BlockKinds
  <2>3. PICK r : r = [kind |-> "video", time |-> Block(q).time, inc |-> Block(q).time,
                      sess |-> Block(q).sess, on |-> avc]
    OBVIOUS
  <2>4. sent' = Append(sent, r)
    BY <1>4, <2>3 DEF SendVideo
  <2>5. r.sess = Block(q).sess /\ r.on = avc /\ avc = conn /\ Block(q).sess = conn
    BY <1>0, <2>1, <2>2, <2>3, HeadUses
  <2>6. r \in SentSet
    BY <2>1, <2>3 DEF SentSet, Blocks, TypeOK, RtpTyped, Handles
  <2>7. QED
    BY <1>2, <2>4, <2>5, <2>6
<1>5. QED
  BY <1>1, <1>3, <1>4, Ownership DEF Owned

(* The TCP parts together. *)
TcpInv == OwnInv /\ HoldInv /\ FaultInv /\ SentInv

(* They hold in every reachable state.                                      *)
LEMMA TcpAlways == Spec => [](TypeOK /\ SenderInv /\ TcpInv)
<1>1. Init => TcpInv
  <2>1. SUFFICES ASSUME Init PROVE OwnInv /\ HoldInv /\ FaultInv /\ SentInv
    BY DEF TcpInv
  <2>2. OwnInv
    BY <2>1 DEF Init, OwnInv
  <2>3. HoldInv
    BY <2>1 DEF Init, HoldInv, Active
  <2>4. FaultInv /\ SentInv
    BY <2>1 DEF Init, FaultInv, NoUseAfterFree, SentInv, SentInOwnSession
  <2>5. QED
    BY <2>2, <2>3, <2>4
<1>2. TypeOK /\ SenderInv /\ TcpInv /\ [Next]_vars => TcpInv'
  <2>1. SUFFICES ASSUME TypeOK, SenderInv, TcpInv, [Next]_vars PROVE TcpInv'
    OBVIOUS
  <2>2. OwnInv /\ HoldInv /\ FaultInv /\ SentInv
    BY <2>1 DEF TcpInv
  <2>3. OwnInv' /\ HoldInv'
    BY <2>1, <2>2, OwnStep, HoldStep
  <2>4. FaultInv' /\ SentInv'
    BY <2>1, <2>2, FaultStep, SentStep
  <2>5. QED
    BY <2>3, <2>4 DEF TcpInv
<1>3. QED
  BY <1>1, <1>2, SenderAlways, PTL DEF Spec

(* A TCP broadcast sends everything on a session of the broadcast it was    *)
(* captured in (send_aac_au, send_nal), unless a stop fell into a rotation  *)
(* of the AVC encoder.                                                      *)
THEOREM OwnSessionOnly ==
  ASSUME UseTCP
  PROVE  Spec => []SentInOwnSession
<1>1. TcpInv => SentInOwnSession
  BY DEF TcpInv, SentInv, SentInOwnSession, Tidy
<1>2. QED
  BY <1>1, TcpAlways, PTL

(* A TCP broadcast with video uses no session, queue, semaphore or packet   *)
(* after it was freed or before it exists, unless a stop fell into a        *)
(* rotation of the AVC encoder - or the video stage of the setup may fail   *)
(* with no audio session to free, when the error path of                    *)
(* setupRTPTCPConnection passes NULL to rtp_done.                           *)
THEOREM NothingUsedFreed ==
  ASSUME UseTCP, HasVideo, HasAudio \/ FailStages \cap {"setupAVC", "record"} = {}
  PROVE  Spec => []NoUseAfterFree
<1>1. TcpInv => NoUseAfterFree
  BY DEF TcpInv, FaultInv, NoUseAfterFree, Tidy
<1>2. QED
  BY <1>1, TcpAlways, PTL

-----------------------------------------------------------------------------
(* The multiplexing order of a TCP broadcast. *)

Removing == \E q \in Attempts : At(q, "remove")

(* The packets of avQueue that have not been handed to send_aac_au yet.     *)
Waiting == {j \in DOMAIN avQueue : j > 1 \/ ~Removing}

Stamped == aud.pc \in {"stamp", "enqueue"}

(* Capture times: audio is captured, queued and sent in order.              *)
CaptureInv ==
  Tidy =>
    /\ \A i \in DOMAIN avQueue : avQueue[i].time <= clock.audio
    /\ \A i, j \in DOMAIN avQueue : i < j => avQueue[i].time < avQueue[j].time
    /\ Stamped => /\ 0 < aud.pkt.time /\ aud.pkt.time <= clock.audio
                  /\ \A i \in DOMAIN avQueue : avQueue[i].time < aud.pkt.time
    /\ \A k \in DOMAIN sent : sent[k].kind = "audio" =>
         /\ sent[k].time <= clock.audio
         /\ Stamped => sent[k].time < aud.pkt.time
         /\ \A j \in Waiting : sent[k].time < avQueue[j].time

(* RTP times: they grow within an attempt, whatever the capture times.      *)
IncInv ==
  Tidy =>
    /\ \A i \in DOMAIN avQueue : 0 < avQueue[i].inc /\ avQueue[i].inc <= audioInc
    /\ \A i, j \in DOMAIN avQueue : i < j => avQueue[i].inc < avQueue[j].inc
    /\ aud.pc = "enqueue" =>
         /\ aud.pkt.inc = audioInc /\ 0 < audioInc
         /\ \A i \in DOMAIN avQueue : avQueue[i].inc < audioInc
    /\ \A k \in DOMAIN sent : sent[k].on <= conn
    /\ \A k \in DOMAIN sent : sent[k].kind = "audio" /\ sent[k].on = conn =>
         /\ 0 < sent[k].inc /\ sent[k].inc <= audioInc
         /\ aud.pc = "enqueue" => sent[k].inc < audioInc
         /\ \A j \in Waiting : sent[k].inc < avQueue[j].inc

(* Only removing it ends the removal of a packet.                           *)
LEMMA RemovingKept ==
  ASSUME TypeOK, SenderInv, [Next]_vars, Tidy, Removing, \A q \in Attempts : ~RemoveSent(q)
  PROVE  Removing'
<1>1. PICK q \in Attempts : queue[q] # <<>> /\ snd[q].pc = "remove"
  BY DEF Removing, At
<1>2. queue \in [Attempts -> Seq(Blocks)] /\ snd \in [Attempts -> Senders] /\ queue' \in [Attempts -> Seq(Blocks)]
  <2>1. TypeOK'
    BY NextTyped
  <2>2. QED
    BY <2>1 DEF TypeOK, SenderTyped
<1>3. \A p \in Attempts : ~SenderStep(p)
  <2>1. SUFFICES ASSUME NEW p \in Attempts, SenderStep(p) PROVE FALSE
    OBVIOUS
  <2>2. queue[p] # <<>> /\ p = q
    BY <1>1, <2>1, SenderMoves DEF Moved, SenderInv, ThreadInv, RunInv, Ordered, Tidy
  <2>3. QED
    BY <1>1, <2>1, <2>2 DEF SenderStep, SendAVStart, SendAVDrain, SendAudio, SendVideo,
      StreamLoop, StreamWait, StreamWake, CloseBye, CloseDone, At
<1>4. snd' = snd
  BY <1>3, OtherMoves DEF Pushed
<1>5. queue'[q] # <<>>
  <2>1. CASE queue' = queue
    BY <1>1, <2>1
  <2>2. ASSUME NEW b \in Blocks, Extended(b) PROVE queue'[q] # <<>>
    BY <1>1, <1>2, <2>2 DEF Extended
  <2>3. QED
    BY <1>3, <2>1, <2>2, QueueMoves DEF SenderInv
<1>6. QED
  BY <1>1, <1>4, <1>5 DEF Removing, At

(* What changes the audio side.                                             *)
LEMMA AudioMoves ==
  ASSUME TypeOK, SenderInv, [Next]_vars, Tidy
  PROVE  \/ /\ UNCHANGED <<avQueue, aud, sent, audioInc, conn>> /\ clock'.audio = clock.audio
            /\ Waiting' \subseteq Waiting
         \/ AudioCaptured \/ AudioStep \/ EnterConnect
         \/ \E q \in Attempts : SendAudio(q) \/ RemoveSent(q) \/ SendVideo(q) \/ CloseDone(q)
<1>1. SUFFICES ASSUME ~(AudioCaptured \/ AudioStep \/ EnterConnect),
                      ~\E q \in Attempts : SendAudio(q) \/ RemoveSent(q) \/ SendVideo(q) \/ CloseDone(q)
               PROVE  /\ UNCHANGED <<avQueue, aud, sent, audioInc, conn>> /\ clock'.audio = clock.audio
                      /\ Waiting' \subseteq Waiting
  OBVIOUS
<1>2. UNCHANGED <<avQueue, aud, sent, audioInc>>
  BY <1>1, Ownership DEF Owned, AudioStep
<1>3. UNCHANGED conn
  <2>1. CASE \E q \in Attempts : SenderStep(q)
    BY <2>1, SenderMoves DEF SenderInv, ThreadInv
  <2>2. CASE \A q \in Attempts : ~SenderStep(q)
    BY <1>1, <2>2, MainMovesSo DEF MainMoves
  <2>3. QED
    BY <2>1, <2>2
<1>4. clock'.audio = clock.audio
  BY <1>1, Ownership DEF Owned, VideoCaptured, TypeOK, MediaTyped
<1>5. Waiting' \subseteq Waiting
  BY <1>1, <1>2, RemovingKept DEF Waiting
<1>6. QED
  BY <1>2, <1>3, <1>4, <1>5

(* A packet is put at the end of a queue of packets.                        *)
LEMMA AppendedAt ==
  ASSUME NEW T, NEW s \in Seq(T), NEW e \in T, NEW t, t = Append(s, e)
  PROVE  /\ Len(s) \in Nat /\ DOMAIN s = 1..Len(s) /\ DOMAIN t = 1..(Len(s) + 1)
         /\ \A i \in DOMAIN s : t[i] = s[i]
         /\ t[Len(s) + 1] = e
OBVIOUS

(* The packet at the head of avQueue is handed over.                        *)
LEMMA AudioHandedOver ==
  ASSUME TypeOK, SenderInv, TcpInv, Tidy, NEW q \in Attempts, SendAudio(q), [Next]_vars
  PROVE  /\ 1 \in DOMAIN avQueue /\ 1 \in Waiting /\ snd[q].pkt = avQueue[1]
         /\ \A j \in Waiting' : j \in Waiting /\ 1 < j
         /\ UNCHANGED <<avQueue, aud, audioInc, clock, conn>>
         /\ \A k \in DOMAIN sent' :
              \/ k \in DOMAIN sent /\ sent'[k] = sent[k] /\ k <= Len(sent)
              \/ /\ k = Len(sent) + 1
                 /\ sent'[k].kind = "audio" /\ sent'[k].time = avQueue[1].time
                 /\ sent'[k].inc = avQueue[1].inc /\ sent'[k].on = conn
<1>0. /\ avQueue \in Seq(Packets) /\ sent \in Seq(SentSet) /\ snd \in [Attempts -> Senders]
      /\ queue \in [Attempts -> Seq(Blocks)] /\ aac \in Nat
  BY DEF TypeOK, SenderTyped, MediaTyped, HistoryTyped, RtpTyped, Handles
<1>1. At(q, "sendA") /\ queue[q] # <<>> /\ snd[q].pc = "sendA" /\ Goto(q, "remove") /\ queue' = queue
      /\ UNCHANGED <<avQueue, aud, audioInc, clock, conn>>
  BY DEF SendAudio, At, mainVars, audioVars
<1>2. /\ avQueue # <<>> /\ snd[q].pkt = Head(avQueue) /\ snd[q].pkt.sess = conn
      /\ HasAudio /\ aac = conn /\ q = conn
  BY <1>1, HeadUses DEF TcpInv
<1>3. 1 \in DOMAIN avQueue /\ Head(avQueue) = avQueue[1]
  BY <1>0, <1>2
<1>4. ~Removing
  BY <1>1, <1>2 DEF Removing, At, SenderInv, RunInv, Ordered, Tidy
<1>5. Removing'
  BY <1>0, <1>1, GotoFacts DEF Removing, At
<1>6. PICK r : r = [kind |-> "audio", time |-> snd[q].pkt.time, inc |-> snd[q].pkt.inc,
                    sess |-> snd[q].pkt.sess, on |-> aac]
  OBVIOUS
<1>7. sent' = Append(sent, r)
  BY <1>6 DEF SendAudio
<1>8. r \in SentSet
  BY <1>0, <1>6 DEF SentSet, Senders, Packets
<1>9. /\ r.kind = "audio" /\ r.time = avQueue[1].time /\ r.inc = avQueue[1].inc /\ r.on = conn
  BY <1>2, <1>3, <1>6
<1>10. /\ Len(sent) \in Nat /\ DOMAIN sent = 1..Len(sent) /\ DOMAIN sent' = 1..(Len(sent) + 1)
       /\ \A i \in DOMAIN sent : sent'[i] = sent[i]
       /\ sent'[Len(sent) + 1] = r
  BY <1>0, <1>7, <1>8, AppendedAt
<1>11. \A k \in DOMAIN sent' : k \in DOMAIN sent \/ k = Len(sent) + 1
  BY <1>10
<1>12. \A j \in Waiting' : j \in Waiting /\ 1 < j
  BY <1>1, <1>4, <1>5 DEF Waiting
<1>13. 1 \in Waiting
  BY <1>3, <1>4 DEF Waiting
<1>14. QED
  BY <1>1, <1>2, <1>3, <1>9, <1>10, <1>11, <1>12, <1>13

(* The packet that was handed over is removed.                              *)
LEMMA AudioRemoved ==
  ASSUME TypeOK, SenderInv, TcpInv, Tidy, NEW q \in Attempts, RemoveSent(q)
  PROVE  /\ UNCHANGED <<sent, aud, audioInc, clock, conn>>
         /\ \A i \in DOMAIN avQueue' : i \in Nat /\ i + 1 \in Waiting /\ avQueue'[i] = avQueue[i + 1]
<1>0. avQueue \in Seq(Packets)
  BY DEF TypeOK, MediaTyped
<1>1. queue[q] # <<>> /\ snd[q].pc = "remove" /\ UNCHANGED <<sent, aud, audioInc, clock, conn>>
  BY DEF RemoveSent, At, mainVars
<1>2. avQueue # <<>>
  BY <1>1, HeadUses DEF TcpInv
<1>3. avQueue' = Tail(avQueue)
  BY <1>2 DEF RemoveSent
<1>4. \A i \in DOMAIN avQueue' : i \in Nat /\ i + 1 \in DOMAIN avQueue /\ i + 1 > 1 /\ avQueue'[i] = avQueue[i + 1]
  BY <1>0, <1>2, <1>3
<1>5. QED
  BY <1>1, <1>4 DEF Waiting

(* Types the audio invariants need.                                         *)
LEMMA AudioTypes ==
  ASSUME TypeOK
  PROVE  /\ avQueue \in Seq(Packets) /\ sent \in Seq(SentSet) /\ aud \in AudioAt
         /\ clock.audio \in Nat /\ clock.video \in Nat /\ audioInc \in Nat /\ conn \in Nat
         /\ \A i \in DOMAIN avQueue : avQueue[i].time \in Nat /\ avQueue[i].inc \in Nat
         /\ \A k \in DOMAIN sent : sent[k].time \in Nat /\ sent[k].inc \in Nat /\ sent[k].on \in Nat
         /\ aud.pkt.time \in Nat /\ aud.pkt.inc \in Nat /\ aud.pkt \in Packets
         /\ DOMAIN avQueue \subseteq Nat /\ DOMAIN sent \subseteq Nat /\ Waiting \subseteq DOMAIN avQueue
<1>1. /\ avQueue \in Seq(Packets) /\ sent \in Seq(SentSet) /\ aud \in AudioAt
      /\ clock \in [audio : Nat, video : Nat] /\ audioInc \in Nat /\ conn \in Nat
  BY DEF TypeOK, MediaTyped, HistoryTyped, MainTyped, Handles
<1>2. /\ \A i \in DOMAIN avQueue : avQueue[i] \in Packets
      /\ \A k \in DOMAIN sent : sent[k] \in SentSet
      /\ DOMAIN avQueue \subseteq Nat /\ DOMAIN sent \subseteq Nat
  BY <1>1
<1>3. \A i \in DOMAIN avQueue : avQueue[i].time \in Nat /\ avQueue[i].inc \in Nat
  BY <1>2 DEF Packets
<1>4. \A k \in DOMAIN sent : sent[k].time \in Nat /\ sent[k].inc \in Nat /\ sent[k].on \in Nat
  BY <1>2 DEF SentSet
<1>5. aud.pkt \in Packets /\ aud.pkt.time \in Nat /\ aud.pkt.inc \in Nat
  BY <1>1 DEF AudioAt, Packets
<1>6. QED
  BY <1>1, <1>2, <1>3, <1>4, <1>5 DEF Waiting

(* A packet that is not ready is put on avQueue.                            *)
LEMMA AudioQueued ==
  ASSUME TypeOK, SenderInv, AudioEnqueued, [Next]_vars, Tidy
  PROVE  /\ aud.pc = "enqueue" /\ ~Stamped' /\ aud'.pc # "enqueue"
         /\ UNCHANGED <<sent, audioInc, clock, conn>>
         /\ \A i \in DOMAIN avQueue' :
              \/ i \in DOMAIN avQueue /\ avQueue'[i] = avQueue[i] /\ (i \in Waiting' => i \in Waiting)
                 /\ i <= Len(avQueue)
              \/ i = Len(avQueue) + 1 /\ avQueue'[i] = aud.pkt
<1>1. avQueue \in Seq(Packets) /\ aud.pkt \in Packets
  BY AudioTypes
<1>2. avQueue' = Append(avQueue, aud.pkt) /\ aud.pc = "enqueue" /\ aud'.pc \in {"idle", "signal"}
      /\ UNCHANGED <<sent, audioInc, clock, conn>>
  BY DEF AudioEnqueued, Enqueued, mainVars
<1>3. \A q \in Attempts : ~RemoveSent(q)
  BY <1>2 DEF RemoveSent
<1>4. Removing => Removing'
  BY <1>3, RemovingKept
<1>5. \A i \in DOMAIN avQueue' :
        \/ i \in DOMAIN avQueue /\ avQueue'[i] = avQueue[i] /\ i <= Len(avQueue)
        \/ i = Len(avQueue) + 1 /\ avQueue'[i] = aud.pkt
  BY <1>1, <1>2, AppendedAt
<1>6. QED
  BY <1>2, <1>4, <1>5 DEF Stamped, Waiting

(* The steps that touch neither avQueue nor the packets sent.               *)
LEMMA AudioKept ==
  ASSUME TypeOK, SenderInv, [Next]_vars, Tidy,
         AudioCaptured \/ AudioStamped \/ AudioSignalled \/ EnterConnect
  PROVE  UNCHANGED <<avQueue, sent>> /\ Waiting' \subseteq Waiting
<1>1. \A q \in Attempts : ~(RemoveSent(q) \/ CloseDone(q) \/ SendAudio(q) \/ SendVideo(q))
  <2>1. CASE EnterConnect
    <3>1. main' = "setup" /\ conn' # conn
      BY <2>1 DEF EnterConnect, TypeOK, MainTyped, Handles
    <3>2. QED
      BY <3>1 DEF RemoveSent, CloseDone, SendAudio, SendVideo, mainVars
  <2>2. CASE AudioCaptured \/ AudioStamped \/ AudioSignalled
    <3>1. UNCHANGED <<snd, queue>>
      BY <2>2 DEF AudioCaptured, AudioStamped, AudioSignalled, senderVars
    <3>2. snd \in [Attempts -> Senders]
      BY DEF TypeOK, SenderTyped
    <3>3. SUFFICES ASSUME NEW q \in Attempts, RemoveSent(q) \/ CloseDone(q) \/ SendAudio(q) \/ SendVideo(q)
                   PROVE  FALSE
      OBVIOUS
    <3>4. CASE RemoveSent(q)
      BY <3>1, <3>2, <3>4 DEF RemoveSent, At
    <3>5. CASE SendAudio(q)
      BY <3>1, <3>2, <3>5, GotoFacts DEF SendAudio, At
    <3>6. CASE SendVideo(q)
      BY <3>1, <3>2, <3>6, GotoFacts DEF SendVideo, At
    <3>7. CASE CloseDone(q)
      BY <3>1, <3>2, <3>7, GotoFacts DEF CloseDone, At
    <3>8. QED
      BY <3>3, <3>4, <3>5, <3>6, <3>7
  <2>3. QED
    BY <2>1, <2>2
<1>2. avQueue' = avQueue /\ sent' = sent
  <2>1. ~AudioEnqueued
    <3>1. CASE EnterConnect
      BY <3>1 DEF EnterConnect, AudioEnqueued, mainVars, TypeOK, MainTyped, Handles
    <3>2. CASE AudioCaptured \/ AudioStamped \/ AudioSignalled
      BY <3>2 DEF AudioCaptured, AudioStamped, AudioSignalled, AudioEnqueued
    <3>3. QED
      BY <3>1, <3>2
  <2>2. QED
    BY <1>1, <2>1, Ownership DEF Owned
<1>3. Removing => Removing'
  BY <1>1, RemovingKept
<1>4. QED
  BY <1>2, <1>3 DEF Waiting

(* The frame at the head of a sender queue is handed over and done.         *)
LEMMA VideoHandedOver ==
  ASSUME TypeOK, SenderInv, TcpInv, Tidy, NEW q \in Attempts, SendVideo(q), [Next]_vars
  PROVE  /\ q = conn /\ HasVideo /\ 1 \in DOMAIN queue[q] /\ queue[q][1].kind = "video" /\ Shifted(q)
         /\ UNCHANGED <<avQueue, aud, audioInc, clock, conn, vid>> /\ Waiting' \subseteq Waiting
         /\ \A k \in DOMAIN sent' :
              \/ k \in DOMAIN sent /\ sent'[k] = sent[k] /\ k <= Len(sent)
              \/ /\ k = Len(sent) + 1
                 /\ sent'[k].kind = "video" /\ sent'[k].time = queue[q][1].time
                 /\ sent'[k].on = conn
<1>1. queue[q] # <<>> /\ snd[q].pc = "sendV" /\ Pop(q)
      /\ UNCHANGED <<avQueue, aud, audioInc, clock, conn, vid>>
  BY DEF SendVideo, At, mainVars, audioVars, videoVars
<1>2. queue[q][1].kind = "video" /\ queue \in [Attempts -> Seq(Blocks)]
  BY <1>1 DEF SenderInv, ThreadInv, KindInv, BlockKinds, TypeOK, SenderTyped
<1>3. /\ q = conn /\ Block(q) = queue[q][1] /\ 1 \in DOMAIN queue[q] /\ HasVideo /\ avc = conn
  BY <1>1, <1>2, HeadUses DEF TcpInv
<1>4. Shifted(q)
  BY <1>1, <1>2, PopFacts DEF Shifted
<1>5. PICK r : r = [kind |-> "video", time |-> Block(q).time, inc |-> Block(q).time,
                    sess |-> Block(q).sess, on |-> avc]
  OBVIOUS
<1>6. sent' = Append(sent, r)
  BY <1>5 DEF SendVideo
<1>7. r \in SentSet
  <2>1. Block(q) \in Blocks
    BY <1>2, <1>3
  <2>2. QED
    BY <1>5, <2>1 DEF SentSet, Blocks, TypeOK, RtpTyped, Handles
<1>8. \A k \in DOMAIN sent' : \/ k \in DOMAIN sent /\ sent'[k] = sent[k] /\ k <= Len(sent)
                              \/ k = Len(sent) + 1 /\ sent'[k] = r
  BY <1>6, <1>7, AudioTypes, AppendedAt
<1>9. r.kind = "video" /\ r.time = queue[q][1].time /\ r.on = conn
  BY <1>3, <1>5
<1>10. Waiting' \subseteq Waiting
  <2>1. \A p \in Attempts : ~RemoveSent(p)
    <3>1. sent' # sent
      BY <1>6, <1>7, AudioTypes
    <3>2. QED
      BY <3>1 DEF RemoveSent
  <2>2. QED
    BY <1>1, <2>1, RemovingKept DEF Waiting
<1>11. QED
  BY <1>1, <1>2, <1>3, <1>4, <1>8, <1>9, <1>10

(* The order of capture is kept: every action.                              *)
LEMMA CaptureStep ==
  ASSUME TypeOK, SenderInv, TcpInv, CaptureInv, [Next]_vars
  PROVE  CaptureInv'
<1>z. SUFFICES ASSUME Tidy' PROVE CaptureInv'
  BY DEF CaptureInv
<1>0. Tidy /\ UseTCP /\ Untangled
  BY <1>z, UntangledBefore
<1>i. /\ \A i \in DOMAIN avQueue : avQueue[i].time <= clock.audio
      /\ \A i, j \in DOMAIN avQueue : i < j => avQueue[i].time < avQueue[j].time
      /\ Stamped => /\ 0 < aud.pkt.time /\ aud.pkt.time <= clock.audio
                    /\ \A i \in DOMAIN avQueue : avQueue[i].time < aud.pkt.time
      /\ \A k \in DOMAIN sent : sent[k].kind = "audio" =>
           /\ sent[k].time <= clock.audio
           /\ Stamped => sent[k].time < aud.pkt.time
           /\ \A j \in Waiting : sent[k].time < avQueue[j].time
  BY <1>0 DEF CaptureInv
<1>t. /\ clock.audio \in Nat /\ aud.pkt.time \in Nat
      /\ \A i \in DOMAIN avQueue : avQueue[i].time \in Nat
      /\ \A k \in DOMAIN sent : sent[k].time \in Nat
      /\ DOMAIN avQueue \subseteq Nat /\ DOMAIN sent \subseteq Nat /\ Waiting \subseteq DOMAIN avQueue
      /\ DOMAIN avQueue = 1..Len(avQueue) /\ Len(avQueue) \in Nat
  BY AudioTypes
<1>1. CASE /\ UNCHANGED <<avQueue, aud, sent, audioInc, conn>> /\ clock'.audio = clock.audio
           /\ Waiting' \subseteq Waiting
  BY <1>i, <1>1 DEF CaptureInv, Stamped
<1>2. CASE AudioCaptured
  <2>1. UNCHANGED <<avQueue, sent>> /\ Waiting' \subseteq Waiting
    BY <1>0, <1>2, AudioKept
  <2>2. clock'.audio = clock.audio + 1
    BY <1>2 DEF AudioCaptured, TypeOK, MediaTyped
  <2>3. aud' = aud \/ aud'.pkt.time = clock.audio + 1
    BY <1>2 DEF AudioCaptured
  <2>4. Stamped' => aud'.pkt.time = clock.audio + 1
    BY <1>2, <2>3 DEF AudioCaptured, Stamped
  <2>5. QED
    BY <1>i, <1>t, <2>1, <2>2, <2>4 DEF CaptureInv
<1>3. CASE AudioStamped
  <2>1. UNCHANGED <<avQueue, sent>> /\ Waiting' \subseteq Waiting
    BY <1>0, <1>3, AudioKept
  <2>2. aud'.pkt.time = aud.pkt.time /\ Stamped
    <3>1. aud'.pkt = [aud.pkt EXCEPT !.inc = NextInc] /\ aud.pc = "stamp"
      BY <1>3 DEF AudioStamped
    <3>2. QED
      BY <3>1, AudioTypes DEF Packets, Stamped
  <2>3. clock'.audio = clock.audio
    BY <1>3 DEF AudioStamped
  <2>4. QED
    BY <1>i, <1>t, <2>1, <2>2, <2>3 DEF CaptureInv
<1>4. CASE AudioEnqueued
  <2>1. /\ Stamped /\ ~Stamped' /\ UNCHANGED <<sent, clock>>
        /\ \A i \in DOMAIN avQueue' :
              \/ i \in DOMAIN avQueue /\ avQueue'[i] = avQueue[i] /\ (i \in Waiting' => i \in Waiting)
                 /\ i <= Len(avQueue)
              \/ i = Len(avQueue) + 1 /\ avQueue'[i] = aud.pkt
    BY <1>0, <1>4, AudioQueued DEF Stamped
  <2>2. Waiting' \subseteq DOMAIN avQueue'
    BY DEF Waiting
  <2>3. \A i \in DOMAIN avQueue' : avQueue'[i].time <= clock'.audio
    BY <1>i, <2>1
  <2>4. \A i, j \in DOMAIN avQueue' : i < j => avQueue'[i].time < avQueue'[j].time
    BY <1>i, <1>t, <2>1
  <2>5. \A k \in DOMAIN sent' : sent'[k].kind = "audio" =>
           /\ sent'[k].time <= clock'.audio
           /\ \A j \in Waiting' : sent'[k].time < avQueue'[j].time
    BY <1>i, <2>1, <2>2
  <2>6. QED
    BY <2>1, <2>3, <2>4, <2>5 DEF CaptureInv
<1>5. CASE AudioSignalled
  <2>1. UNCHANGED <<avQueue, sent>> /\ Waiting' \subseteq Waiting
    BY <1>0, <1>5, AudioKept
  <2>2. ~Stamped' /\ clock' = clock
    BY <1>5 DEF AudioSignalled, Stamped
  <2>3. QED
    BY <1>i, <2>1, <2>2 DEF CaptureInv
<1>6. CASE EnterConnect
  <2>1. UNCHANGED <<avQueue, sent>> /\ Waiting' \subseteq Waiting
    BY <1>0, <1>6, AudioKept
  <2>2. UNCHANGED <<aud, clock>>
    <3>1. main' = "setup" /\ conn' # conn
      BY <1>6 DEF EnterConnect, TypeOK, MainTyped, Handles
    <3>2. QED
      BY <3>1, Ownership DEF Owned, AudioCaptured, AudioStep, AudioStamped, AudioEnqueued, AudioSignalled,
    RotationStep, RotationBegins, RotationEnds,
        VideoCaptured, mainVars
  <2>3. QED
    BY <1>i, <2>1, <2>2 DEF CaptureInv, Stamped
<1>7. ASSUME NEW q \in Attempts, SendAudio(q) PROVE CaptureInv'
  <2>1. /\ 1 \in DOMAIN avQueue /\ 1 \in Waiting
        /\ \A j \in Waiting' : j \in Waiting /\ 1 < j
        /\ UNCHANGED <<avQueue, aud, clock>>
        /\ \A k \in DOMAIN sent' :
              \/ k \in DOMAIN sent /\ sent'[k] = sent[k]
              \/ sent'[k].time = avQueue[1].time
    BY <1>0, <1>7, AudioHandedOver
  <2>2. \A k \in DOMAIN sent' : sent'[k].kind = "audio" =>
           /\ sent'[k].time <= clock.audio
           /\ Stamped => sent'[k].time < aud.pkt.time
           /\ \A j \in Waiting' : sent'[k].time < avQueue[j].time
    BY <1>i, <1>t, <2>1
  <2>3. QED
    BY <1>i, <2>1, <2>2 DEF CaptureInv, Stamped
<1>8. ASSUME NEW q \in Attempts, RemoveSent(q) PROVE CaptureInv'
  <2>1. /\ UNCHANGED <<sent, aud, clock>>
        /\ \A i \in DOMAIN avQueue' : i \in Nat /\ i + 1 \in Waiting /\ avQueue'[i] = avQueue[i + 1]
    BY <1>0, <1>8, AudioRemoved
  <2>2. Waiting' \subseteq DOMAIN avQueue'
    BY DEF Waiting
  <2>3. \A i \in DOMAIN avQueue' : i + 1 \in DOMAIN avQueue
    BY <2>1 DEF Waiting
  <2>4. \A i, j \in DOMAIN avQueue' : i < j => avQueue'[i].time < avQueue'[j].time
    <3>1. SUFFICES ASSUME NEW i \in DOMAIN avQueue', NEW j \in DOMAIN avQueue', i < j
                   PROVE  avQueue'[i].time < avQueue'[j].time
      OBVIOUS
    <3>2. i + 1 < j + 1
      BY <2>1, <3>1
    <3>3. QED
      BY <1>i, <2>1, <2>3, <3>1, <3>2
  <2>5. \A k \in DOMAIN sent : sent[k].kind = "audio" => \A j \in Waiting' : sent[k].time < avQueue'[j].time
    BY <1>i, <2>1, <2>2
  <2>6. QED
    BY <1>i, <2>1, <2>3, <2>4, <2>5 DEF CaptureInv, Stamped
<1>9. ASSUME NEW q \in Attempts, CloseDone(q) PROVE CaptureInv'
  <2>1. avQueue' = <<>> /\ UNCHANGED <<aud, clock, sent>>
    BY <1>9 DEF CloseDone, QueueAfterClose
  <2>2. DOMAIN avQueue' = {} /\ Waiting' = {}
    BY <2>1 DEF Waiting
  <2>3. QED
    BY <1>i, <2>1, <2>2 DEF CaptureInv, Stamped
<1>10. ASSUME NEW q \in Attempts, SendVideo(q) PROVE CaptureInv'
  <2>1. UNCHANGED <<avQueue, aud, clock>> /\ Waiting' \subseteq Waiting
    BY <1>0, <1>10, VideoHandedOver
  <2>2. \A k \in DOMAIN sent' : sent'[k].kind = "audio" => k \in DOMAIN sent /\ sent'[k] = sent[k]
    BY <1>0, <1>10, VideoHandedOver
  <2>3. QED
    BY <1>i, <2>1, <2>2 DEF CaptureInv, Stamped
<1>11. QED
  BY <1>0, <1>1, <1>2, <1>3, <1>4, <1>5, <1>6, <1>7, <1>8, <1>9, <1>10, AudioMoves DEF AudioStep

(* Increasing time stamps: every action.                                     *)
LEMMA IncStep ==
  ASSUME TypeOK, SenderInv, TcpInv, CaptureInv, IncInv, [Next]_vars
  PROVE  IncInv'
<1>z. SUFFICES ASSUME Tidy' PROVE IncInv'
  BY DEF IncInv
<1>0. Tidy /\ UseTCP /\ Untangled
  BY <1>z, UntangledBefore
<1>i. /\ \A i \in DOMAIN avQueue : 0 < avQueue[i].inc /\ avQueue[i].inc <= audioInc
      /\ \A i, j \in DOMAIN avQueue : i < j => avQueue[i].inc < avQueue[j].inc
      /\ aud.pc = "enqueue" =>
           /\ aud.pkt.inc = audioInc /\ 0 < audioInc
           /\ \A i \in DOMAIN avQueue : avQueue[i].inc < audioInc
      /\ \A k \in DOMAIN sent : sent[k].on <= conn
      /\ \A k \in DOMAIN sent : sent[k].kind = "audio" /\ sent[k].on = conn =>
           /\ 0 < sent[k].inc /\ sent[k].inc <= audioInc
           /\ aud.pc = "enqueue" => sent[k].inc < audioInc
           /\ \A j \in Waiting : sent[k].inc < avQueue[j].inc
  BY <1>0 DEF IncInv
<1>t. /\ audioInc \in Nat /\ aud.pkt.inc \in Nat /\ conn \in Nat /\ aud.pkt.time \in Nat
      /\ \A i \in DOMAIN avQueue : avQueue[i].inc \in Nat
      /\ \A k \in DOMAIN sent : sent[k].inc \in Nat /\ sent[k].on \in Nat
      /\ DOMAIN avQueue \subseteq Nat /\ DOMAIN sent \subseteq Nat /\ Waiting \subseteq DOMAIN avQueue
      /\ DOMAIN avQueue = 1..Len(avQueue) /\ Len(avQueue) \in Nat
  BY AudioTypes
<1>1. CASE /\ UNCHANGED <<avQueue, aud, sent, audioInc, conn>> /\ clock'.audio = clock.audio
           /\ Waiting' \subseteq Waiting
  BY <1>i, <1>1 DEF IncInv
<1>2. CASE AudioCaptured \/ AudioSignalled
  <2>1. UNCHANGED <<avQueue, sent>> /\ Waiting' \subseteq Waiting
    BY <1>0, <1>2, AudioKept
  <2>2. UNCHANGED <<audioInc, conn>> /\ (aud' = aud \/ aud'.pc # "enqueue")
    BY <1>2 DEF AudioCaptured, AudioSignalled, mainVars
  <2>3. QED
    BY <1>i, <2>1, <2>2 DEF IncInv
<1>3. CASE AudioStamped
  <2>1. UNCHANGED <<avQueue, sent>> /\ Waiting' \subseteq Waiting
    BY <1>0, <1>3, AudioKept
  <2>2. /\ audioInc' = NextInc /\ conn' = conn /\ aud.pc = "stamp" /\ aud'.pc = "enqueue"
        /\ aud'.pkt = [aud.pkt EXCEPT !.inc = NextInc]
    BY <1>3 DEF AudioStamped, mainVars
  <2>3. aud'.pkt.inc = NextInc
    BY <2>2, AudioTypes DEF Packets
  <2>4. 0 < aud.pkt.time
    BY <1>0, <2>2 DEF CaptureInv, Stamped
  <2>5. NextInc > audioInc
    BY <1>t, <2>4 DEF NextInc
  <2>6. NextInc \in Nat
    BY <1>t DEF NextInc
  <2>7. \A i \in DOMAIN avQueue : 0 < avQueue[i].inc /\ avQueue[i].inc < NextInc
    BY <1>i, <1>t, <2>5, <2>6
  <2>8. \A k \in DOMAIN sent : sent[k].kind = "audio" /\ sent[k].on = conn =>
           0 < sent[k].inc /\ sent[k].inc < NextInc
    BY <1>i, <1>t, <2>5, <2>6
  <2>9. /\ \A i \in DOMAIN avQueue' : 0 < avQueue'[i].inc /\ avQueue'[i].inc < audioInc'
        /\ 0 < audioInc' /\ aud'.pkt.inc = audioInc'
    BY <1>t, <2>1, <2>2, <2>3, <2>5, <2>6, <2>7
  <2>10. \A k \in DOMAIN sent' : sent'[k].kind = "audio" /\ sent'[k].on = conn' =>
           /\ 0 < sent'[k].inc /\ sent'[k].inc < audioInc'
           /\ \A j \in Waiting' : sent'[k].inc < avQueue'[j].inc
    BY <1>i, <2>1, <2>2, <2>8
  <2>11. /\ \A i \in DOMAIN avQueue' : avQueue'[i].inc <= audioInc'
         /\ \A k \in DOMAIN sent' : sent'[k].kind = "audio" /\ sent'[k].on = conn' => sent'[k].inc <= audioInc'
    BY <1>t, <2>1, <2>2, <2>6, <2>7, <2>8
  <2>12. QED
    BY <1>i, <2>1, <2>2, <2>9, <2>10, <2>11 DEF IncInv
<1>4. CASE AudioEnqueued
  <2>1. /\ aud.pc = "enqueue" /\ aud'.pc # "enqueue" /\ UNCHANGED <<sent, audioInc, conn>>
        /\ \A i \in DOMAIN avQueue' :
              \/ i \in DOMAIN avQueue /\ avQueue'[i] = avQueue[i] /\ (i \in Waiting' => i \in Waiting)
                 /\ i <= Len(avQueue)
              \/ i = Len(avQueue) + 1 /\ avQueue'[i] = aud.pkt
    BY <1>0, <1>4, AudioQueued
  <2>2. Waiting' \subseteq DOMAIN avQueue'
    BY DEF Waiting
  <2>3. \A i \in DOMAIN avQueue' : 0 < avQueue'[i].inc /\ avQueue'[i].inc <= audioInc'
    BY <1>i, <1>t, <2>1
  <2>4. \A i, j \in DOMAIN avQueue' : i < j => avQueue'[i].inc < avQueue'[j].inc
    BY <1>i, <1>t, <2>1
  <2>5. \A k \in DOMAIN sent' : sent'[k].kind = "audio" /\ sent'[k].on = conn' =>
           \A j \in Waiting' : sent'[k].inc < avQueue'[j].inc
    BY <1>i, <2>1, <2>2
  <2>6. QED
    BY <1>i, <2>1, <2>3, <2>4, <2>5 DEF IncInv
<1>5. CASE EnterConnect
  <2>1. UNCHANGED <<avQueue, sent>> /\ Waiting' \subseteq Waiting
    BY <1>0, <1>5, AudioKept
  <2>2. conn' = conn + 1 /\ ~Active
    BY <1>5, <1>t, ActiveMoves DEF EnterConnect
  <2>3. avQueue = <<>> /\ aud.pc = "idle"
    BY <1>0, <2>2 DEF TcpInv, HoldInv, SenderInv, TimeInv, Active
  <2>4. aud'.pc # "enqueue"
    BY <1>5, <1>t, <2>2, <2>3, Ownership DEF Owned, AudioCaptured, AudioStep, AudioStamped, AudioEnqueued,
      AudioSignalled, mainVars
  <2>5. DOMAIN avQueue' = {} /\ Waiting' = {}
    BY <2>1, <2>3 DEF Waiting
  <2>6. \A k \in DOMAIN sent' : sent'[k].on <= conn' /\ sent'[k].on # conn'
    BY <1>i, <1>t, <2>1, <2>2
  <2>7. QED
    BY <2>4, <2>5, <2>6 DEF IncInv
<1>6. ASSUME NEW q \in Attempts, SendAudio(q) PROVE IncInv'
  <2>1. /\ 1 \in DOMAIN avQueue /\ 1 \in Waiting
        /\ \A j \in Waiting' : j \in Waiting /\ 1 < j
        /\ UNCHANGED <<avQueue, aud, audioInc, conn>>
        /\ \A k \in DOMAIN sent' :
              \/ k \in DOMAIN sent /\ sent'[k] = sent[k]
              \/ sent'[k].inc = avQueue[1].inc /\ sent'[k].on = conn
    BY <1>0, <1>6, AudioHandedOver
  <2>2. \A k \in DOMAIN sent' : sent'[k].on <= conn
    BY <1>i, <1>t, <2>1
  <2>3. \A k \in DOMAIN sent' : sent'[k].kind = "audio" /\ sent'[k].on = conn =>
           /\ 0 < sent'[k].inc /\ sent'[k].inc <= audioInc
           /\ aud.pc = "enqueue" => sent'[k].inc < audioInc
           /\ \A j \in Waiting' : sent'[k].inc < avQueue[j].inc
    BY <1>i, <1>t, <2>1
  <2>4. QED
    BY <1>i, <2>1, <2>2, <2>3 DEF IncInv
<1>7. ASSUME NEW q \in Attempts, RemoveSent(q) PROVE IncInv'
  <2>1. /\ UNCHANGED <<sent, aud, audioInc, conn>>
        /\ \A i \in DOMAIN avQueue' : i \in Nat /\ i + 1 \in Waiting /\ avQueue'[i] = avQueue[i + 1]
    BY <1>0, <1>7, AudioRemoved
  <2>2. Waiting' \subseteq DOMAIN avQueue'
    BY DEF Waiting
  <2>3. \A i \in DOMAIN avQueue' : i + 1 \in DOMAIN avQueue
    BY <2>1 DEF Waiting
  <2>4. \A i, j \in DOMAIN avQueue' : i < j => avQueue'[i].inc < avQueue'[j].inc
    <3>1. SUFFICES ASSUME NEW i \in DOMAIN avQueue', NEW j \in DOMAIN avQueue', i < j
                   PROVE  avQueue'[i].inc < avQueue'[j].inc
      OBVIOUS
    <3>2. i + 1 < j + 1
      BY <2>1, <3>1
    <3>3. QED
      BY <1>i, <2>1, <2>3, <3>1, <3>2
  <2>5. \A k \in DOMAIN sent : sent[k].kind = "audio" /\ sent[k].on = conn =>
           \A j \in Waiting' : sent[k].inc < avQueue'[j].inc
    BY <1>i, <2>1, <2>2
  <2>6. QED
    BY <1>i, <2>1, <2>3, <2>4, <2>5 DEF IncInv
<1>8. ASSUME NEW q \in Attempts, CloseDone(q) PROVE IncInv'
  <2>1. avQueue' = <<>> /\ UNCHANGED <<aud, audioInc, sent, conn>>
    BY <1>8 DEF CloseDone, QueueAfterClose
  <2>2. DOMAIN avQueue' = {} /\ Waiting' = {}
    BY <2>1 DEF Waiting
  <2>3. QED
    BY <1>i, <2>1, <2>2 DEF IncInv
<1>9. ASSUME NEW q \in Attempts, SendVideo(q) PROVE IncInv'
  <2>1. UNCHANGED <<avQueue, aud, audioInc, conn>> /\ Waiting' \subseteq Waiting
    BY <1>0, <1>9, VideoHandedOver
  <2>2. \A k \in DOMAIN sent' :
          (k \in DOMAIN sent /\ sent'[k] = sent[k]) \/ (sent'[k].kind = "video" /\ sent'[k].on = conn)
    BY <1>0, <1>9, VideoHandedOver
  <2>3. QED
    BY <1>i, <1>t, <2>1, <2>2 DEF IncInv
<1>10. QED
  BY <1>0, <1>1, <1>2, <1>3, <1>4, <1>5, <1>6, <1>7, <1>8, <1>9, AudioMoves DEF AudioStep

(* Frames are captured, queued and sent in order, and the audio sent before *)
(* a frame was captured before it.                                          *)
FrameInv ==
  Tidy =>
    /\ \A q \in Attempts : \A i \in DOMAIN queue[q] : queue[q][i].kind = "video" =>
         /\ queue[q][i].time <= clock.video
         /\ vid # NoFrame => queue[q][i].time < vid.time
         /\ \A j \in DOMAIN queue[q] : i < j /\ queue[q][j].kind = "video" => queue[q][i].time < queue[q][j].time
         /\ \A k \in DOMAIN sent : sent[k].time < queue[q][i].time
    /\ vid # NoFrame => /\ vid.time <= clock.video
                        /\ \A k \in DOMAIN sent : sent[k].time < vid.time
    /\ HasVideo => \A k \in DOMAIN sent : sent[k].time <= clock.video

AheadInv ==
  Tidy => \A q \in Attempts : At(q, "sendA") /\ queue[q][1].kind = "video" =>
              snd[q].pkt.time < queue[q][1].time

OrderInv == Tidy => MuxOrder

(* A frame goes behind a packet only if it was captured later: every action. *)
LEMMA AheadStep ==
  ASSUME TypeOK, SenderInv, AheadInv, [Next]_vars
  PROVE  AheadInv'
<1>z. SUFFICES ASSUME Tidy', NEW q \in Attempts, queue'[q] # <<>>, snd'[q].pc = "sendA",
                      queue'[q][1].kind = "video"
               PROVE  snd'[q].pkt.time < queue'[q][1].time
  BY DEF AheadInv, At
<1>0. Tidy /\ queue'[q] # <<>> /\ snd'[q].pc = "sendA" /\ queue'[q][1].kind = "video"
  BY <1>z, UntangledBefore
<1>t. snd \in [Attempts -> Senders] /\ queue \in [Attempts -> Seq(Blocks)]
  BY DEF TypeOK, SenderTyped
<1>1. ASSUME NEW p \in Attempts, SenderStep(p) PROVE snd'[q].pkt.time < queue'[q][1].time
  <2>1. Moved(p)
    BY <1>1, SenderMoves DEF SenderInv, ThreadInv
  <2>2. q = p
    <3>1. SUFFICES ASSUME q # p PROVE FALSE
      OBVIOUS
    <3>2. snd'[q] = snd[q] /\ queue[p] # <<>>
      BY <2>1, <3>1 DEF Moved
    <3>3. queue[q] # <<>>
      BY <1>0, <3>2 DEF SenderInv, ThreadInv, KindInv
    <3>4. QED
      BY <1>0, <3>1, <3>2, <3>3 DEF SenderInv, RunInv, Ordered, Tidy
  <2>3. queue' = queue /\ queue[p] # <<>> /\ snd'[p].pc = "sendA" /\ queue[p][1].kind = "video" /\ Block(p) = queue[p][1]
    BY <1>0, <1>t, <2>1, <2>2 DEF Moved, Block
  <2>4. SendAVDrain(p)
    <3>1. CASE SendAVStart(p) \/ SendAudio(p) \/ SendVideo(p) \/ StreamWake(p) \/ CloseBye(p) \/ CloseDone(p)
      BY <1>t, <2>3, <3>1, GotoFacts DEF SendAVStart, SendAudio, SendVideo, StreamWake, CloseBye, CloseDone, At
    <3>2. CASE RemoveSent(p)
      BY <1>t, <2>3, <3>2 DEF RemoveSent
    <3>3. CASE StreamLoop(p)
      BY <2>3, <3>3 DEF StreamLoop
    <3>4. CASE StreamWait(p)
      <4>1. \E pc \in {"blocked", "loop", "hung"} : Goto(p, pc)
        BY <3>4 DEF StreamWait
      <4>2. QED
        BY <1>t, <2>3, <4>1, GotoFacts
    <3>5. QED
      BY <1>1, <3>1, <3>2, <3>3, <3>4 DEF SenderStep
  <2>5. QED
    BY <1>t, <2>2, <2>3, <2>4 DEF SendAVDrain, AudioFirst
<1>2. ASSUME \A p \in Attempts : ~SenderStep(p) PROVE snd'[q].pkt.time < queue'[q][1].time
  <2>1. snd' = snd
    BY <1>2, OtherMoves DEF Pushed
  <2>2. queue[q] # <<>> /\ 1 \in DOMAIN queue[q]
    BY <1>0, <1>t, <2>1 DEF SenderInv, ThreadInv, KindInv
  <2>3. queue'[q][1] = queue[q][1]
    BY <1>2, <2>2, QueueMoves DEF Extended, SenderInv
  <2>4. QED
    BY <1>0, <2>1, <2>2, <2>3 DEF AheadInv, At
<1>3. QED
  BY <1>1, <1>2

(* Types the frames need.                                                   *)
LEMMA FrameTypes ==
  ASSUME TypeOK
  PROVE  /\ clock.video \in Nat /\ vid.time \in Nat
         /\ \A q \in Attempts : /\ DOMAIN queue[q] = 1..Len(queue[q]) /\ Len(queue[q]) \in Nat
                                /\ \A i \in DOMAIN queue[q] : queue[q][i].time \in Nat
         /\ \A k \in DOMAIN sent : sent[k].time \in Nat
<1>1. /\ clock \in [audio : Nat, video : Nat] /\ vid \in Frames /\ queue \in [Attempts -> Seq(Blocks)]
  BY DEF TypeOK, MediaTyped, SenderTyped
<1>2. \A q \in Attempts : /\ DOMAIN queue[q] = 1..Len(queue[q]) /\ Len(queue[q]) \in Nat
                          /\ \A i \in DOMAIN queue[q] : queue[q][i] \in Blocks
  BY <1>1
<1>3. \A q \in Attempts : \A i \in DOMAIN queue[q] : queue[q][i].time \in Nat
  BY <1>2 DEF Blocks
<1>4. QED
  BY <1>1, <1>2, <1>3, AudioTypes DEF Frames

(* What the frames on the queues were before a step that sends nothing.     *)
LEMMA FramesFrom ==
  ASSUME TypeOK, SenderInv, [Next]_vars, ~VideoDispatched, NEW q \in Attempts
  PROVE  \E f \in [DOMAIN queue'[q] -> Nat] :
           \A i \in DOMAIN queue'[q] : queue'[q][i].kind = "video" =>
             /\ f[i] \in DOMAIN queue[q] /\ queue'[q][i] = queue[q][f[i]]
             /\ \A j \in DOMAIN queue'[q] : i < j => f[i] < f[j]
<1>0. DOMAIN queue'[q] \subseteq Nat
  <2>1. TypeOK'
    BY NextTyped
  <2>2. QED
    BY <2>1 DEF TypeOK, SenderTyped
<1>t. DOMAIN queue[q] \subseteq Nat
  BY FrameTypes
<1>1. CASE queue'[q] = queue[q]
  <2>1. PICK f \in [DOMAIN queue'[q] -> Nat] : \A i \in DOMAIN queue'[q] : f[i] = i
    <3>1. [i \in DOMAIN queue'[q] |-> i] \in [DOMAIN queue'[q] -> Nat]
      BY <1>0
    <3>2. QED
      BY <3>1
  <2>2. QED
    BY <1>1, <2>1
<1>2. CASE Shifted(q)
  <2>1. PICK f \in [DOMAIN queue'[q] -> Nat] : \A i \in DOMAIN queue'[q] : f[i] = i + 1
    <3>1. [i \in DOMAIN queue'[q] |-> i + 1] \in [DOMAIN queue'[q] -> Nat]
      BY <1>0
    <3>2. QED
      BY <3>1
  <2>2. \A i, j \in DOMAIN queue'[q] : i < j => f[i] < f[j]
    BY <1>0, <2>1
  <2>3. QED
    BY <1>2, <2>1, <2>2 DEF Shifted
<1>3. ASSUME NEW b \in Blocks, Brought(b), Extended(b), q = conn
      PROVE  \E f \in [DOMAIN queue'[q] -> Nat] :
               \A i \in DOMAIN queue'[q] : queue'[q][i].kind = "video" =>
                 /\ f[i] \in DOMAIN queue[q] /\ queue'[q][i] = queue[q][f[i]]
                 /\ \A j \in DOMAIN queue'[q] : i < j => f[i] < f[j]
  <2>1. PICK f \in [DOMAIN queue'[q] -> Nat] : \A i \in DOMAIN queue'[q] : f[i] = i
    <3>1. [i \in DOMAIN queue'[q] |-> i] \in [DOMAIN queue'[q] -> Nat]
      BY <1>0
    <3>2. QED
      BY <3>1
  <2>2. b.kind # "video"
    BY <1>3 DEF Brought, Stream, Close
  <2>3. \A i \in DOMAIN queue'[q] : queue'[q][i].kind = "video" => i \in DOMAIN queue[q] /\ queue'[q][i] = queue[q][i]
    BY <1>3, <2>2 DEF Extended
  <2>4. QED
    BY <2>1, <2>3
<1>4. QED
  <2>1. CASE queue' = queue
    BY <1>1, <2>1
  <2>2. ASSUME NEW p \in Attempts, Shifted(p)
        PROVE  queue'[q] = queue[q] \/ Shifted(q)
    BY <2>2 DEF Shifted
  <2>3. ASSUME NEW b \in Blocks, Brought(b), Extended(b)
        PROVE  queue'[q] = queue[q] \/ q = conn
    BY <2>3 DEF Extended
  <2>4. QED
    BY <1>1, <1>2, <1>3, <2>1, <2>2, <2>3, QueueMoves DEF SenderInv

(* The order of the frames is kept: every action.                           *)
LEMMA FrameStep ==
  ASSUME TypeOK, SenderInv, TcpInv, AheadInv, FrameInv, [Next]_vars
  PROVE  FrameInv'
<1>z. SUFFICES ASSUME Tidy' PROVE FrameInv'
  BY DEF FrameInv
<1>0. Tidy /\ UseTCP /\ Untangled
  BY <1>z, UntangledBefore
<1>i. /\ \A q \in Attempts : \A i \in DOMAIN queue[q] : queue[q][i].kind = "video" =>
           /\ queue[q][i].time <= clock.video
           /\ vid # NoFrame => queue[q][i].time < vid.time
           /\ \A j \in DOMAIN queue[q] : i < j /\ queue[q][j].kind = "video" => queue[q][i].time < queue[q][j].time
           /\ \A k \in DOMAIN sent : sent[k].time < queue[q][i].time
      /\ vid # NoFrame => /\ vid.time <= clock.video
                          /\ \A k \in DOMAIN sent : sent[k].time < vid.time
      /\ HasVideo => \A k \in DOMAIN sent : sent[k].time <= clock.video
  BY <1>0 DEF FrameInv
<1>t. /\ clock.video \in Nat /\ vid.time \in Nat
      /\ \A q \in Attempts : /\ DOMAIN queue[q] = 1..Len(queue[q]) /\ Len(queue[q]) \in Nat
                             /\ \A i \in DOMAIN queue[q] : queue[q][i].time \in Nat
      /\ \A k \in DOMAIN sent : sent[k].time \in Nat
  BY FrameTypes
<1>1. CASE VideoCaptured
  <2>1. PICK t \in Times : /\ t > clock.video /\ clock' = [clock EXCEPT !.video = t]
                           /\ vid' = IF broadcasting THEN [time |-> t, sess |-> conn] ELSE vid
    BY <1>1 DEF VideoCaptured
  <2>2. clock'.video = t /\ t \in Nat
    BY <2>1, ConfigAssumption DEF TypeOK, MediaTyped, Times, ConfigAssumption
  <2>3. vid = NoFrame /\ HasVideo /\ UNCHANGED <<queue, sent>>
    BY <1>1 DEF VideoCaptured, SenderInv, MediaInv, senderVars
  <2>4. vid' # NoFrame => vid'.time = t
    BY <2>1, <2>3
  <2>5. \A q \in Attempts : \A i \in DOMAIN queue'[q] : queue'[q][i].kind = "video" =>
           /\ queue'[q][i].time <= clock'.video
           /\ vid' # NoFrame => queue'[q][i].time < vid'.time
           /\ \A j \in DOMAIN queue'[q] : i < j /\ queue'[q][j].kind = "video" => queue'[q][i].time < queue'[q][j].time
           /\ \A k \in DOMAIN sent' : sent'[k].time < queue'[q][i].time
    <3>1. SUFFICES ASSUME NEW q \in Attempts, NEW i \in DOMAIN queue[q], queue[q][i].kind = "video"
                   PROVE  queue[q][i].time <= t /\ queue[q][i].time < t
      BY <1>i, <2>2, <2>3, <2>4
    <3>2. queue[q][i].time <= clock.video
      BY <1>i, <3>1
    <3>3. QED
      BY <1>t, <2>1, <2>2, <3>2
  <2>6. \A k \in DOMAIN sent : sent[k].time < t
    BY <1>i, <1>t, <2>1, <2>2, <2>3
  <2>7. \A k \in DOMAIN sent' : sent'[k].time <= clock'.video
    BY <1>t, <2>2, <2>3, <2>6
  <2>8. vid' # NoFrame => vid'.time <= clock'.video /\ \A k \in DOMAIN sent' : sent'[k].time < vid'.time
    BY <2>2, <2>3, <2>4, <2>6
  <2>9. QED
    BY <2>5, <2>7, <2>8 DEF FrameInv
<1>2. CASE VideoDispatched
  <2>1. vid # NoFrame /\ vid' = NoFrame /\ UNCHANGED <<clock, sent>>
    BY <1>2 DEF VideoDispatched
  <2>2. conn \in retained /\ conn \in Attempts
    BY <1>0, <2>1 DEF SenderInv, RunInv, Ordered, Tidy, TcpInv, HoldInv, Active, ThreadInv, FlagInv
  <2>3. Extended(FrameBlock(vid))
    <3>1. queue' = [queue EXCEPT ![conn] = Append(@, FrameBlock(vid))]
      BY <1>2, <2>2 DEF VideoDispatched
    <3>2. FrameBlock(vid) \in Blocks /\ queue \in [Attempts -> Seq(Blocks)]
      BY DEF FrameBlock, Blocks, Frames, TypeOK, MediaTyped, SenderTyped
    <3>3. QED
      BY <2>2, <3>1, <3>2, PushFacts DEF Extended
  <2>4. \A q \in Attempts : \A i \in DOMAIN queue'[q] :
          \/ i \in DOMAIN queue[q] /\ queue'[q][i] = queue[q][i]
          \/ queue'[q][i].time = vid.time /\ q = conn /\ i = Len(queue[q]) + 1
    BY <2>3 DEF Extended, FrameBlock
  <2>5. \A q \in Attempts : \A i \in DOMAIN queue'[q] : queue'[q][i].kind = "video" =>
           /\ queue'[q][i].time <= clock.video
           /\ \A k \in DOMAIN sent : sent[k].time < queue'[q][i].time
    BY <1>i, <2>1, <2>4
  <2>6. \A q \in Attempts : \A i, j \in DOMAIN queue'[q] :
           queue'[q][i].kind = "video" /\ i < j /\ queue'[q][j].kind = "video" => queue'[q][i].time < queue'[q][j].time
    <3>1. SUFFICES ASSUME NEW q \in Attempts, NEW i \in DOMAIN queue'[q], NEW j \in DOMAIN queue'[q],
                          queue'[q][i].kind = "video", i < j, queue'[q][j].kind = "video"
                   PROVE  queue'[q][i].time < queue'[q][j].time
      OBVIOUS
    <3>2. i \in DOMAIN queue[q] /\ queue'[q][i] = queue[q][i]
      BY <1>t, <2>4, <3>1
    <3>3. QED
      BY <1>i, <2>1, <2>4, <3>1, <3>2
  <2>7. QED
    BY <1>i, <2>1, <2>5, <2>6 DEF FrameInv
<1>3. ASSUME NEW q \in Attempts, SendAudio(q) PROVE FrameInv'
  <2>1. /\ 1 \in DOMAIN avQueue /\ snd[q].pkt = avQueue[1] /\ UNCHANGED clock
        /\ \A k \in DOMAIN sent' :
              \/ k \in DOMAIN sent /\ sent'[k] = sent[k]
              \/ sent'[k].time = avQueue[1].time
    BY <1>0, <1>3, AudioHandedOver
  <2>2. UNCHANGED <<queue, vid>> /\ At(q, "sendA") /\ queue[q] # <<>>
    BY <1>3 DEF SendAudio, At, videoVars
  <2>3. q = conn /\ 1 \in DOMAIN queue[q] /\ queue[q][1].kind \in {"video", "stream"}
        /\ (queue[q][1].kind = "stream" => ~HasVideo)
    <3>1. queue[q][1].kind \in BlockKinds("sendA")
      BY <2>2 DEF At, SenderInv, ThreadInv, KindInv
    <3>2. q = conn /\ 1 \in DOMAIN queue[q] /\ Block(q) = queue[q][1] /\ (Block(q).kind = "stream" => AudioOnly)
      BY <1>0, <2>2, HeadUses DEF TcpInv
    <3>3. QED
      BY <3>1, <3>2 DEF BlockKinds, AudioOnly, HasVideo
  <2>4. ASSUME HasVideo PROVE FrameInv'
    <3>1. queue[q][1].kind = "video" /\ avQueue[1].time < queue[q][1].time /\ avQueue[1].time \in Nat
      BY <1>0, <2>1, <2>2, <2>3, <2>4, AudioTypes DEF AheadInv
    <3>2. \A i \in DOMAIN queue[q] : queue[q][i].kind = "video" => avQueue[1].time < queue[q][i].time
      <4>1. SUFFICES ASSUME NEW i \in DOMAIN queue[q], queue[q][i].kind = "video", i # 1
                     PROVE  avQueue[1].time < queue[q][i].time
        BY <3>1
      <4>2. 1 < i
        BY <1>t, <4>1
      <4>3. queue[q][1].time < queue[q][i].time
        BY <1>i, <2>3, <3>1, <4>1, <4>2
      <4>4. QED
        BY <1>t, <2>3, <3>1, <4>3
    <3>3. \A p \in Attempts : \A i \in DOMAIN queue[p] : queue[p][i].kind = "video" => avQueue[1].time < queue[p][i].time
      BY <1>0, <2>3, <3>2 DEF SenderInv, RunInv, Ordered, Tidy
    <3>4. /\ vid # NoFrame => avQueue[1].time < vid.time
          /\ avQueue[1].time <= clock.video
      BY <1>i, <1>t, <2>3, <3>1
    <3>5. /\ \A p \in Attempts : \A i \in DOMAIN queue[p] : queue[p][i].kind = "video" =>
                \A k \in DOMAIN sent' : sent'[k].time < queue[p][i].time
          /\ vid # NoFrame => \A k \in DOMAIN sent' : sent'[k].time < vid.time
          /\ \A k \in DOMAIN sent' : sent'[k].time <= clock.video
      BY <1>i, <2>1, <2>4, <3>3, <3>4
    <3>6. QED
      BY <1>i, <2>1, <2>2, <3>5 DEF FrameInv
  <2>5. ASSUME ~HasVideo PROVE FrameInv'
    BY <2>2, <2>5 DEF FrameInv, SenderInv, MediaInv
  <2>6. QED
    BY <2>4, <2>5
<1>4. ASSUME NEW q \in Attempts, SendVideo(q) PROVE FrameInv'
  <2>1. /\ q = conn /\ HasVideo /\ 1 \in DOMAIN queue[q] /\ queue[q][1].kind = "video" /\ Shifted(q)
        /\ UNCHANGED <<clock, vid>>
        /\ \A k \in DOMAIN sent' :
              \/ k \in DOMAIN sent /\ sent'[k] = sent[k]
              \/ sent'[k].time = queue[q][1].time
    BY <1>0, <1>4, VideoHandedOver
  <2>2. \A p \in Attempts : p # q => DOMAIN queue'[p] = {}
    BY <1>0, <2>1 DEF Shifted, SenderInv, RunInv, Ordered, Tidy
  <2>3. \A i \in DOMAIN queue'[q] :
          i \in Nat /\ 1 < i + 1 /\ i + 1 \in DOMAIN queue[q] /\ queue'[q][i] = queue[q][i + 1]
    BY <2>1 DEF Shifted
  <2>4. \A i \in DOMAIN queue'[q] : queue'[q][i].kind = "video" =>
           /\ queue'[q][i].time <= clock.video
           /\ vid # NoFrame => queue'[q][i].time < vid.time
           /\ queue[q][1].time < queue'[q][i].time
           /\ \A k \in DOMAIN sent : sent[k].time < queue'[q][i].time
    BY <1>i, <2>1, <2>3
  <2>5. \A i, j \in DOMAIN queue'[q] :
           queue'[q][i].kind = "video" /\ i < j /\ queue'[q][j].kind = "video" => queue'[q][i].time < queue'[q][j].time
    <3>1. SUFFICES ASSUME NEW i \in DOMAIN queue'[q], NEW j \in DOMAIN queue'[q],
                          queue'[q][i].kind = "video", i < j, queue'[q][j].kind = "video"
                   PROVE  queue'[q][i].time < queue'[q][j].time
      OBVIOUS
    <3>2. i + 1 < j + 1
      BY <2>3, <3>1
    <3>3. QED
      BY <1>i, <2>3, <3>1, <3>2
  <2>6. /\ \A i \in DOMAIN queue'[q] : queue'[q][i].kind = "video" =>
              \A k \in DOMAIN sent' : sent'[k].time < queue'[q][i].time
        /\ vid # NoFrame => \A k \in DOMAIN sent' : sent'[k].time < vid.time
        /\ \A k \in DOMAIN sent' : sent'[k].time <= clock.video
    BY <1>i, <2>1, <2>4
  <2>7. QED
    BY <1>i, <2>1, <2>2, <2>4, <2>5, <2>6 DEF FrameInv
<1>5. CASE /\ ~VideoCaptured /\ ~VideoDispatched
           /\ \A q \in Attempts : ~SendAudio(q) /\ ~SendVideo(q)
  <2>1. sent' = sent
    BY <1>5, Ownership DEF Owned
  <2>2. vid' = vid \/ vid' = NoFrame
    BY <1>5, FrameMoves
  <2>3. clock'.video = clock.video
    BY <1>5, Ownership DEF Owned, AudioCaptured, TypeOK, MediaTyped
  <2>4. ASSUME NEW q \in Attempts, NEW i \in DOMAIN queue'[q], queue'[q][i].kind = "video"
        PROVE  /\ queue'[q][i].time <= clock.video
               /\ vid # NoFrame => queue'[q][i].time < vid.time
               /\ \A j \in DOMAIN queue'[q] : i < j /\ queue'[q][j].kind = "video" => queue'[q][i].time < queue'[q][j].time
               /\ \A k \in DOMAIN sent : sent[k].time < queue'[q][i].time
    <3>1. PICK f \in [DOMAIN queue'[q] -> Nat] :
           \A m \in DOMAIN queue'[q] : queue'[q][m].kind = "video" =>
             /\ f[m] \in DOMAIN queue[q] /\ queue'[q][m] = queue[q][f[m]]
             /\ \A j \in DOMAIN queue'[q] : m < j => f[m] < f[j]
      BY <1>5, FramesFrom
    <3>2. QED
      BY <1>i, <2>4, <3>1
  <2>5. QED
    BY <1>i, <2>1, <2>2, <2>3, <2>4 DEF FrameInv
<1>6. QED
  BY <1>1, <1>2, <1>3, <1>4, <1>5

(* What is handed over follows everything that was sent before.             *)
LEMMA OrderStep ==
  ASSUME TypeOK, SenderInv, TcpInv, CaptureInv, IncInv, FrameInv, OrderInv, [Next]_vars
  PROVE  OrderInv'
<1>z. SUFFICES ASSUME Tidy' PROVE MuxOrder'
  BY DEF OrderInv
<1>0. Tidy /\ UseTCP /\ Untangled
  BY <1>z, UntangledBefore
<1>i. MuxOrder
  BY <1>0 DEF OrderInv
<1>t. DOMAIN sent = 1..Len(sent) /\ Len(sent) \in Nat
  BY AudioTypes
<1>1. CASE sent' = sent
  BY <1>0, <1>i, <1>1 DEF MuxOrder
<1>2. ASSUME NEW q \in Attempts, SendAudio(q) PROVE MuxOrder'
  <2>1. /\ 1 \in DOMAIN avQueue /\ 1 \in Waiting
        /\ \A k \in DOMAIN sent' :
              \/ k \in DOMAIN sent /\ sent'[k] = sent[k] /\ k <= Len(sent)
              \/ /\ k = Len(sent) + 1
                 /\ sent'[k].kind = "audio" /\ sent'[k].time = avQueue[1].time
                 /\ sent'[k].inc = avQueue[1].inc /\ sent'[k].on = conn
    BY <1>0, <1>2, AudioHandedOver
  <2>2. \A k \in DOMAIN sent : sent[k].kind = "audio" =>
          /\ sent[k].time < avQueue[1].time
          /\ sent[k].on = conn => sent[k].inc < avQueue[1].inc
    BY <1>0, <2>1 DEF CaptureInv, IncInv
  <2>3. QED
    BY <1>0, <1>i, <1>t, <2>1, <2>2 DEF MuxOrder
<1>3. ASSUME NEW q \in Attempts, SendVideo(q) PROVE MuxOrder'
  <2>1. /\ 1 \in DOMAIN queue[q] /\ queue[q][1].kind = "video"
        /\ \A k \in DOMAIN sent' :
              \/ k \in DOMAIN sent /\ sent'[k] = sent[k] /\ k <= Len(sent)
              \/ /\ k = Len(sent) + 1
                 /\ sent'[k].kind = "video" /\ sent'[k].time = queue[q][1].time
    BY <1>0, <1>3, VideoHandedOver
  <2>2. \A k \in DOMAIN sent : sent[k].time < queue[q][1].time
    BY <1>0, <2>1 DEF FrameInv
  <2>3. QED
    BY <1>0, <1>i, <1>t, <2>1, <2>2 DEF MuxOrder
<1>4. QED
  BY <1>1, <1>2, <1>3, Ownership DEF Owned

(* The order in which a TCP broadcast interleaves its media.                *)
MuxInv == CaptureInv /\ IncInv /\ AheadInv /\ FrameInv /\ OrderInv

(* A TCP broadcast hands the RTP library audio in capture order with        *)
(* growing RTP times, frames in order, and no packet ahead of a frame that  *)
(* was captured before it or with it (sendAV, streamAudio), unless a stop   *)
(* fell into a rotation of the AVC encoder.                                 *)
THEOREM MediaInOrder ==
  ASSUME UseTCP
  PROVE  Spec => []MuxOrder
<1>1. Init => MuxInv
  <2>1. SUFFICES ASSUME Init PROVE CaptureInv /\ IncInv /\ AheadInv /\ FrameInv /\ OrderInv
    BY DEF MuxInv
  <2>2. CaptureInv /\ IncInv
    BY <2>1 DEF Init, CaptureInv, IncInv, Stamped
  <2>3. AheadInv /\ FrameInv /\ OrderInv
    BY <2>1 DEF Init, AheadInv, FrameInv, OrderInv, At, MuxOrder
  <2>4. QED
    BY <2>2, <2>3
<1>2. TypeOK /\ SenderInv /\ TcpInv /\ MuxInv /\ [Next]_vars => MuxInv'
  <2>1. SUFFICES ASSUME TypeOK, SenderInv, TcpInv, MuxInv, [Next]_vars PROVE MuxInv'
    OBVIOUS
  <2>2. CaptureInv /\ IncInv /\ AheadInv /\ FrameInv /\ OrderInv
    BY <2>1 DEF MuxInv
  <2>3. CaptureInv' /\ IncInv'
    BY <2>1, <2>2, CaptureStep, IncStep
  <2>4. AheadInv' /\ FrameInv' /\ OrderInv'
    BY <2>1, <2>2, AheadStep, FrameStep, OrderStep
  <2>5. QED
    BY <2>3, <2>4 DEF MuxInv
<1>3. MuxInv => MuxOrder
  BY DEF MuxInv, OrderInv, MuxOrder, Tidy
<1>4. QED
  BY <1>1, <1>2, <1>3, TcpAlways, PTL DEF Spec

=============================================================================
