# Verification of the broadcasting core of TapIn-iOS (Livu)

TapIn-iOS captures audio and video on an iPhone, encodes both, and publishes
them live to a streaming server with RTSP, RTP and RTCP. This directory models
that path in TLA+, checks it with TLC on small instances and proves theorems
about it with TLAPS.

## 1. Inventory

How the parts interact when a broadcast runs:

    LivuViewController --connect:/disconnect--> LivuBroadcastManager
        ^   |  start/stop                          |        ^
        |   v                                      | RTSP   | data callbacks
        |  LivuCaptureManager -> AVCEncoder -> qt_parser    |
        |   AACEncoder --------------------------- | -------+
        |                                          v
        +---- broadcastCallback (main queue) -- sRTSPClient, RTP library

| Component | State | Operations | Hard behaviour | What makes it correct |
|---|---|---|---|---|
| Broadcast manager (`LivuBroadcastManager.m`) | `broadcasting`, `sender_queue`, `avQueue`, `queue_rw_sema`, the two RTP sessions, the watchdog timer and its count | `connect:`, `disconnect`, audio and video callbacks, watchdog handler, blocks of the sender queue | five kinds of thread, one flag, no common lock; reconnects reuse every variable | nothing freed is used; packets leave in order and in their own broadcast; callbacks follow a protocol; stops return |
| Stream control (`LivuViewController.m`, `+MessageHandlers.h`) | button, `throttleCount`, `tryToStop`, `throttleTimer` | `toggleBroadcast:`, `throttleCountDown`, `stopStream`, `didCompleteHandshake:`, `broadcastCallback` | delayed `stopStream` against a late handshake; two restarts after one error | every press of the button is answered; a broadcast can be stopped |
| RTSP client (`sRTSPClient.m`) | `cSeq`, `channelCount`, `mediaCount`, `session`, `authentication`, the socket | `connectTo:`, `options`, `announce`, `setup:`, `record`, `play`, `teardown` | authentication retries by recursion; errors half way; short writes | requests in protocol order; channel numbers agree with the RTP sessions'; one retry per request |
| AVC encoder (`AVCEncoder.m`) | writer, `timeQueue`, `isEncoding`, rotation timer | `prepareEncoder`, `start`, `stop`, `encode:`, `setAveragebps:` | capture, writer, parser and timer queues; writer swap while frames are in flight | a frame gets its own presentation time; nothing is encoded after `stop` |
| QuickTime parser (`qt_parser.m`) | file descriptor, buffer, position, box state | `start_parser`, `stop_parser`, `parse_to_mdat`, `parse_avc`, `parse_sps_pps` | reads a file another process is writing; a NAL unit arrives in pieces | every NAL unit is delivered once, whole and in order |
| AAC encoder (`AACEncoder.m`) | `running`, converter, mute flag | `start`, `stop`, `mute:`, audio queue callback | `stop` waits for a callback in progress | no callback after `stop` returns |
| RTP library (`sRTP/rtp.c`) | session database, sources, sequence state | `rtp_init_*`, `rtp_recv`, `rtp_send_*`, `rtp_done` | not thread safe; sequence wrap-around, probation | a session is used only between init and done; sequence numbers are validated modulo 2^16 |
| RTP packetisation (`rtpenc_h264.m`, `rtpenc_aac.m`) | none | `send_nal`, `send_aac_au` | boundaries of the fragmentation | fragments reassemble to the NAL unit; the marker is on the last only |
| TCP buffer monitor (`TCPBufferMonitor.m`) | history of the send buffer, bit rate | `tcp_monitor_start`, `tcp_monitor_stop`, tick | unsigned arithmetic, statics that survive a stop | the bit rate stays inside its bounds |
| Capture manager (`LivuCaptureManager.m`) | capture session, encoding flag | `captureOutput:`, `startEncoding`, `stopEncoding` | check, then act, against `AVCEncoder stop` | no sample after the encoder's stop |
| Broadcast profiles (`LivuBroadcastConfig.m`) | list of profiles, the active one | `setActiveProfile:`, add, remove, save, load | identity against equality of profile ids | exactly one profile is active |

Left aside: vendored code (ASIHTTPRequest, ShareKit in three copies, SBJSON,
Mongoose, MobileAppTracker, h264bitstream), Apple's AVCam sample, OpenGL
drawing, file helpers and the view controllers that only present data.
`PROJECT.json` lists each with its reason.

## 2. Modules and plan

| Module | Models | Specification above it | Runs | Proofs |
|---|---|---|---|---|
| `BroadcastManager` | the threads of a broadcast (`LivuBroadcastManager.m`) | | `bm_tcp`, `bm_udp`, `bm_audio`, `bm_watchdog` | `BroadcastManagerProofs`, `BroadcastSenderProofs`, `BroadcastCallbackProofs` |
| `RTSPClient` | requests, retries and channels (`sRTSPClient.m`) with the manager's setup methods | `RTSPSession` | `rtsp_tcp`, `rtsp_udp` | `RTSPClientProofs` |
| `StreamControl` | record button, timers, handshake, restart (`LivuViewController.m`, `Utilities.m`) | | `stream_control`, `control_restart` | `StreamControlProofs` |
| `AVCEncoder` | encoder, parser and capture queue (`AVCEncoder.m`, `qt_parser.m`, `LivuCaptureManager.m`) | `FrameQueue` | `avc_rotate`, `avc_twice` | `AVCEncoderProofs` |
| `RTPSession` | database, RTCP timer and BYE (`rtp.c`) | | `rtp_session` | `RTPSessionProofs` |
| `RTPPackets` | packetisation and sequence validation (`rtpenc_h264.m`, `rtpenc_aac.m`, `rtp.c`) | | `rtp_packets` | `RTPPacketsProofs` |

They compose by interface: `BroadcastManager` sees an RTSP exchange as one step
with a chosen outcome, which `RTSPClient` takes apart; `StreamControl` sees the
broadcaster as on or idle with its messages in the order of the main queue,
which is what `CallbackProtocol` of `BroadcastManager` says of them; the frames
`AVCEncoder` delivers are what the video callback of `BroadcastManager` is
given, and `RTPPackets` is what becomes of one when it is sent.

Every safety property that a passing run checks is also a theorem (section 9
says under which assumptions). What is left, in this order: what the broadcast
still keeps after a stop that fell into a rotation of the AVC encoder (section 3); the UDP broadcast,
for which `HeadInHand`, `MuxOrder` and `SentInOwnSession` fail as they stand and
a weaker statement (between two reconnects) would have to be found; `MuxOrder` for
audio alone over UDP, which holds; lemmas that
`BroadcastManager`'s messages, taken by themselves, are a behaviour of the
broadcaster `StreamControl` assumes; and the parts section 10 lists as not
modelled.

## 3. BroadcastManager

An action is what one thread does between two points where another can
interfere; the RTSP requests of a setup run on the main thread and are one step
with a chosen outcome. `main` says where the main thread is; `mainQ` holds the
blocks posted to the main queue (the caller queue is the main queue,
`LivuViewController.m:358-364`). Every connect attempt has its own sender queue,
as `connect:` creates one each time (`LivuBroadcastManager.m:419`): `queue[q]`
is what is pending on it, its head is executing, `snd[q]` is where. `aud` and
`vid` are the encoder threads between their check of the flag and their last
use of the manager. `rotating` is the thread that sets the bit rate of the AVC
encoder, which stops the encoder and starts it again (`RotationBegins`,
`RotationEnds`; `AVCEncoder` takes it apart). A stop of the caller waits for the
callbacks in progress (`EncodersJoined`), except that `-[AVCEncoder stop]`
returns at once when a rotation has cleared `isEncoding` (`AVCEncoder.m:623`,
628-631). `StopStream` may run whenever the main thread is idle: the button, the
countdown and the give-up timer call it whatever the broadcaster is doing. `timer[g]`, `wd[g]` are the watchdog created by attempt g
and its handler, which can outlive the broadcast. RTP sessions are handles
numbered by the attempt that made them, `live` is what the RTP library still
holds. `sent`, `told`, `faults` and `slips` are histories: what went to the RTP library,
what the caller was told, whether something freed or absent was used, and
whether a stop met a rotation ("tangled") or ended a broadcast before the block
with its start had run ("overtaken").

| Run | Configuration | Question |
|---|---|---|
| `bm_tcp` | audio and video, TCP, 2 connects, some stages fail, capture times to 3, fair | `NoUseAfterFree`, `HeadInHand`, `SentInOwnSession`, `MuxOrder`, `ConnectAnswered`, `StopAnswered` |
| `bm_udp` | audio and video, UDP with the watchdog, 2 connects, all stages may fail, capture times to 1, fair | `CallbackProtocol`, `NoSessionLeak`, `EncodersNeedBroadcast`, `TimeoutEnds` |
| `bm_audio` | audio only, TCP, 2 connects, capture times to 3 | `TypeOK`, `NoLostWakeup` |
| `bm_watchdog` | audio and video, UDP, one connect | `SessionOutlivesWatchdog`, which fails |

Bounds: `MaxConnects` bounds the attempts (two are needed for anything left
over from one broadcast to meet the next), `MaxTime` bounds capture times (two
packets and a frame between them need three; the properties of `bm_udp` are
about callbacks, sessions and encoders, and one packet and one frame are enough
for a callback to be in progress). `bm_tcp` has 424,869 states, `bm_udp`
818,964. `bm_audio` does not check deadlock: a wait on a released semaphore
may never return, and the model has that outcome.

Fairness (`FairSpec`): a thread that can take a step takes it, as GCD schedules
every queue and each blocking call has a timeout; a block at the head of the
main queue is not put off for ever by user events (strong fairness on
`MainBlock`), and a rotation ends. The user, the capture hardware and the server owe nothing.

What does not hold, and why no pass run claims it. After a stop that fell into a
rotation, `NoUseAfterFree`, `HeadInHand`, `SentInOwnSession` and `MuxOrder` fail,
over TCP too: `stop` returns while the parser's reader is between
`LivuBroadcastManager.m:656` and 666, `disconnectInternal:` releases the sender
queue, and the frame is dispatched to a queue that is gone, or to that of the next
broadcast; and a rotation that starts the encoder again after the stop leaves it
running. The four are stated of behaviours without such a stop (`Untangled`).
A stop may also come between the handshake's end and the block with the start: a
late handshake leaves the button selected and enabled (`LivuViewController.m:1285`,
821-824), and the give-up timer survives an automatic reconnect. The start, handled
after the broadcast has ended, runs the encoders for nothing, so
`EncodersNeedBroadcast` is stated of behaviours with neither kind of stop
(`slips = {}`). `StopAnswered` is about stops while a broadcast is on.

Over UDP the watchdog
disconnects while the encoders still deliver. A frame whose flag was polled
before the timeout is then queued behind the block that closes the broadcast and
runs in the next one, beside the new sender queue's blocks, and an audio packet
captured in one broadcast can be sent in the next. With audio and video,
`HeadInHand`, `MuxOrder` and `SentInOwnSession` all fail over UDP; with video alone the
last two do, with audio alone only the last. They are stated for TCP, where only
the caller disconnects, and stops the encoders first. `NoUseAfterFree` fails over UDP, too,
and over TCP for audio alone, because the semaphore is released while it may
still be waited on, and for video alone when `setupAVC:` or `startRecord:` fails,
because the error path hands `rtp_done` a session that was never made.
`CallbackProtocol` and `NoLostWakeup` hold for every profile, transport and order
of stops.

Finding (`bm_watchdog`): a disconnect frees the session the watchdog is
receiving on. The model has four more disagreements of this kind that have no
run: an audio disconnect frees the semaphore `streamAudio` is about to wait on;
a failing video-only setup hands a session that was never created to `rtp_done`;
the watchdog's disconnect breaks the rule the header states for every
disconnect, that the encoders are stopped first; and a timeout detected in one
broadcast can end the next.

## 4. RTSPClient and RTSPSession

`RTSPSession` is what `connect:` and `disconnect` promise: the caller is told
that it is recording only after the server has accepted every request of the
handshake, in order, and is told that the password is wrong only when it may be.
`RTSPClient` is the client as the manager's two setup methods drive it, with the
server and the connection. An action is one call into the socket (`Send`,
`Read`, `ReadFails`) or what the manager does with a returned code (`SetupDone`,
`StepDone`, `GiveUp`, `Disconnect`, `TornDown`). `step` is the request in
progress (OPTIONS, ANNOUNCE, a SETUP per track, RECORD, TEARDOWN), `depth` the
argument `recurse_depth`, `auth` the instance variable `authentication`: with
Digest it also names the method the credentials were computed for, because that
is what makes a server reject them. `channels` is `channelCount`, `ports` and
`route` are the manager's local variable and the RTP sessions it creates.

The server is external and owes nothing: initially it picks which methods it
protects and whether the password is good; it may refuse any request, stay
silent or close, and, with `Splits`, an answer reaches `recv` in two pieces, cut
after the status line. It challenges a protected request that lacks the
credentials, expects each track on the channels or port it last agreed to, and
while streaming over TCP it sends receiver reports on the connection, which
`read` takes for answers.

| Run | Configuration | Question |
|---|---|---|
| `rtsp_tcp` | two tracks, interleaved TCP, Basic, any set of protected methods, one report | `RoutesAgree`, `SessionCarried`, `SocketClosedOnce` |
| `rtsp_udp` | two tracks, UDP, Digest, any set of protected methods, split answers, fair | `TypeOK`, `RoutesAgree`, `SessionSpec`, `ExchangesEnd` |

Bounds: two tracks are all the manager can set up; the set of protected methods
is any subset, so every mix of challenged and unchallenged requests occurs; one
report is enough to be mistaken for an answer. `NewAttempt` starts over, so the
state space has no artificial end.

Fairness (`FairSpec`): `WF_vars(ClientStep)`. The client runs on a thread that
is scheduled, and `SO_RCVTIMEO` and `SO_SNDTIMEO` make every call return
(`ReadFails` needs no help from the server). The server and the user are not
fair: nothing has to be answered, nobody has to disconnect.

The refinement maps `phase` to where the caller is (`Phase`), `accepted` to the
requests of the handshake the server has accepted, and `deniable` to whether a
failure may be the password's: the password is wrong, an answer may be split
(its challenge can be lost), or OPTIONS is protected, which `options` cannot
answer. `Rechallenged` names the requests for which the client has no
credentials that the server takes: the agreement of channels over TCP and the
single close of the socket hold except for these.

What the properties leave room for: (1) a retried SETUP takes two more channels, so a track accepted on
its second try is on 2-3 where the header and the manager count 0-1; (2) the
rest of a split answer is returned as the answer of the next request.

## 5. StreamControl

Everything here runs on the main thread, one handler at a time, so each handler
is one action: `Press`, `throttleCountDown`, `GivenUp` (the delayed
`stopStream`), `Restart` (the alert's delayed toggle), `requestFinished` with
`didCompleteHandshake`, `didUpdateToLocation`, and `Handle`, the broadcaster's
callback and the reconnect it posts. `countdown` holds `throttleTimer`,
`throttleCount` and `tryToStop`, and how many timers are still scheduled that
`throttleTimer` no longer points to; `service` is the `streaming` flag of
`Utilities.m` and the unanswered requests, of which a location update is one
too, answered by the same delegate method.

Time is counted in seconds. `Tick` makes timers due and does not pass until
each of them has fired; they fire in any order.

| Run | Configuration | Question |
|---|---|---|
| `stream_control` | delays of 2, one unanswered request of each kind, 2 timers, fair | `ShownAsLive`, `StopIsHeard`, `ButtonComesBack` |
| `control_restart` | the same | `RestartStarts`, which fails |

Bounds: the three delays are equal in the code (5 s) and equal here; 2 is enough
for one timer to fire before, with and after another. A second timer nobody
knows is the least that lets two counters run; `MaxInbox` keeps the user from
outrunning the main queue.

Fairness: the run loop of the main thread serves its timers and its queue
(`Handle`, `throttleCountDown`, `GivenUp`, `Restart`), and time passes. The user
and the web service owe nothing: a request may stay unanswered.

The properties assume `OneHand`: the profile does not ask for automatic
reconnects and no handshake has answered a start that was given up. Without it
they do not hold: the manager's reconnect starts a stream the button does not
know of, and a late handshake starts one after `stopStream`. They assume a
network, too: `toggleBroadcast:` disables the button when there is none
(`LivuViewController.m:784-795`), and nothing enables it again.

Finding (`control_restart`): the restart announced after an error may stop a
running stream, or ask for a handshake that is ignored.

## 6. AVCEncoder and FrameQueue

`FrameQueue` is what the encoder promises to its callback: accepted frames come
out in the order of capture, each once and with its own time; those pending may
be discarded together. In `AVCEncoder` a frame is its capture time. `pc[c]` says
where each thread that controls the encoder is: the main thread, and the
`Rotators` that set the bit rate, which stops the encoder and starts it on a new
file. The blocks of `writer_queue` (`EncodeBlock`) and of the parser's reader
queue (`parse_to_mdat`, `parse_avc`) are serial, so each is a step; `stop` and
`start` are taken apart at the points where another thread can come between
(`StopCheck`, `StopWriter`, `StopParser`, `prepareEncoder`, `StartQueue`,
`StartWriter`, `StartTimer`). The file `qt` is AVFoundation's: it decides when the
`mdat` header can be read and how much of a frame (`FileGrows`).

| Run | Configuration | Question |
|---|---|---|
| `avc_rotate` | main thread and the encoder's own timer, 4 samples, frames read in 3 pieces, writers may fail, fair | `TimeForEveryFrame`, `WholeFrames`, `StopIsComplete`, `FrameQueueSpec`, `FramesDelivered` |
| `avc_twice` | the buffer monitor and the slider both rotate | `OwnTimes`, which fails |

Bounds: four samples are enough for one delivered, one half read, one queued and
one captured while a rotation is under way. `StartAlone` keeps a stream from
being started while a rotation is in progress, which takes 60 s between
rotations to be so; `tangled` marks a stop that a rotation overlapped, whose
second half frees what the other freed (the same stops that `BroadcastManager`
marks, and whose consequences for the broadcast are described in section 3).

Fairness: each thread that has begun goes on, the reader queue is served, and
AVFoundation writes out what it was given. The camera and the user owe nothing.

Finding (`avc_twice`): two threads that set the bit rate at once give a frame
another frame's time.

## 7. RTPSession

One session of the library: the `struct rtp` is the record `ses`, and each C
function that changes it is an operator from a session to a session
(`create_source`, `delete_source`, `process_rtcp_bye`, `rtp_send_ctrl`, ...).
The sender thread sends a frame and runs `rtp_update` and `rtp_send_ctrl`; the
receiver, the watchdog of a UDP broadcast, runs `rtp_recv`. `rtp_send_bye` loops
until its BYE may leave (`LeaveRecv`, `LeaveCheck`), and `rtp_done` walks the
hash chains. Time is kept relative to now (`idle`, `sinceRtcp`, `untilRtcp`), so
that it passes without bound in a finite state space.

`rtp_update` first notes which sources to delete (`doomed`) and then deletes them
one by one, in an order the hash table decides (`UpdateDelete`); `rtp_send_bye` deletes
in the same way while it waits (`leaveDelete`), and what `rtp_done` leaves is
`Emptied`.

The packets of the peers are inputs: who sends SRs (`SrFrom`), whom the report
blocks name (`Blocks`), whom the BYEs name (`Byes`). A BYE may name any source,
as in `process_rtcp_bye` (`rtp.c:1793-1812`), ours included, and then
`rtp_update` deletes our own entry like any other (`rtp.c:3192`); `disowned`
remembers that. Until then the entry stays; afterwards it may be missing, or be
back in front of its chain, and the one place that meets a missing source is the
second deletion in `rtp_done` (`crashed`). The release build is modelled:
`check_database`, whose assertion would stop a debug build there, is empty in it.

`Overlap` says whether the two threads' calls may interleave inside the library.
It takes no lock: with TRUE, a source that a BYE is being processed for can be
deleted by the sender's housekeeping, and TLC reaches `crashed`. The run uses
FALSE: whether the calls can meet is a question for the threads of
`BroadcastManager`; what the library keeps when they do not is the one here. The
theorems need that only where they say so.

| Run | Configuration | Question |
|---|---|---|
| `rtp_session` | two other participants, two hash chains with ours and one of theirs in one of them, BYEs that name that one or us, `RTCP_MIN_TIME` of one tick, a large session from 2 members on, fair | `DatabaseConsistent`, `OwnEntryStays`, `ReportsAboutKnown`, `SendersCounted`, `SilentForgotten`, `ByeLeaves` |

Bounds: SSRC 3 and our own, 1, share a chain of the table of two, so the order
of a chain matters; with two peers one falls silent while the packets, the BYEs
and the departures of the other change the interval; a tick is the 5 s of
`RTCP_MIN_TIME`, so the 2 s a source outlives its BYE are none (`ByeDelay` = 0), and
three members, or three BYEs, make the interval longer (`MembersPerTick` = 3);
`SmallSession` = 2 makes a session with one peer a large one, so both ways to say
BYE occur. `bye_count` is kept while our BYE waits, the only time it is read, up
to `MaxByes`; `sender_count` stops at `MaxSenders`, an age just past the longest
timeout it is compared with. The run has 586,418 states. With one peer, any
report blocks and three ticks of `RTCP_MIN_TIME` the invariants hold as well, and
so does `ReportsPaced`, which says nothing when the least interval is shorter
than a tick; it is proved (section 9) and no run checks it.

Fairness: frames keep being sent, a thread inside the library goes on (`ByeMark`,
`LeaveCheck`), and time passes. `SenderStep` and `Tick` are strongly fair: the
library takes no lock, so nothing in the code keeps the sender out while the
receiver is in it; the exclusion is this model's (`Overlap` = FALSE), and a receiver
that comes and goes must not be able to use it to stop the sender.

`ByeLeaves` is about a bounded number of BYEs: once at most `MaxByes` have
arrived, our own leaves. Every BYE raises `bye_count` (`rtp.c:1812`), a duplicate
too, and with it the interval, so a steady flow of them puts ours off for ever;
RFC 3550 counts members, not packets, and the repository says nothing of it.

## 8. RTPPackets

From `send_nal` and `send_aac_au` through `rtp_send_data` and a network to a
receiver that validates sequence numbers with the library's `update_seq`. A
packet is the bytes from..to of the unit it carries. Sequence numbers live
modulo `SeqMod`; `n`, which the program does not have, is what they would be
without wrapping around, and only histories and the network read it. The
network (external) loses, doubles and reorders, but does not hold a packet back
until its number counts as a new one's (`InReach`): one that is `MaxMisorder` or
more behind, but not yet `SeqMod - MaxDropout`, does arrive, and `update_seq`
takes it for a jump (`rtp.c:792`): it notes `bad_seq` and does not count it as
received. `LossNotOverstated` counts such a packet as `missing`, as the receiver
does; without a packet that late it is the lost ones alone. The depacketizer (external) follows RFC 3984 and
looks only at packets newer than all before them (`Newer`); a late one ends the
`run` of packets in order.

| Run | Configuration | Question |
|---|---|---|
| `rtp_packets` | units of exactly the payload limit 5, of one byte more, of a last fragment that just fits (7) and of 8 bytes (three fragments), modulus 6 entered at 4, 7 packets, two in the network at once | `TypeOK`, `PacketsFit`, `Rebuilt`, `IntactIsRebuilt`, `ExtendedSpan`, `LossNotOverstated` |

Bounds: the start at 4 makes the number wrap inside the run, in every phase of a
source's life (probation, in order, gap, late, resynchronisation); the dropout
and misorder limits are in the proportion of the code to the modulus only as far
as `MaxDropout + MaxMisorder < SeqMod`, all that the proofs need, and leave room
between them (two numbers) for the packet that is too late. The run has 3,798,953
states.

## 9. Proofs

Each module of proofs EXTENDS the module it is about; the theorems hold for all
constants that satisfy its named assumption (`ConfigAssumption`,
`RTSPAssumption`, `ControlAssumption`, `EncoderAssumption`, `ConstantAssumption`,
`PacketsAssumption`) and whatever else a theorem assumes in its statement. Every
safety property of the passing runs is stated by one. None is inductive by
itself (but for some of the `TypeOK`); each invariant named below was checked by
TLC on small instances before it was proved, and each is proved action by
action.

### BroadcastManager

`BroadcastManagerProofs`:

- `TypeCorrect`: `Spec => []TypeOK`. `TypeOK` is inductive as it stands; the
  proof has one step per action and one part per group of variables.
- `NothingLeaks`: `Spec => []NoSessionLeak`. `LeakInv` adds that nothing is
  allocated when a setup begins and that the two pointers name everything that
  is allocated.

`BroadcastSenderProofs` is about the sender queues.

| Theorem | Property | Assumes |
|---|---|---|
| `PacketStaysInHand` | `HeadInHand` | TCP, or audio alone |
| `WakeupNeverLost` | `NoLostWakeup` | |
| `OwnSessionOnly` | `SentInOwnSession` | TCP |
| `NothingUsedFreed` | `NoUseAfterFree` | TCP with video; with audio, or no failure in `setupAVC:` or `startRecord:` |
| `MediaInOrder` | `MuxOrder` | TCP |

All but `NoLostWakeup` are about behaviours in which no stop fell into a
rotation, as the properties themselves say. Section 3 says what fails without
the assumptions. The first two follow from
`SenderInv`: which block is executing at each point of a sender queue, that a
close block is the one the main thread waits for, and where the flag is
(`ThreadInv`); which threads a profile has (`MediaInv`); that a TCP broadcast
has no watchdog, so that only the user ends it, after the encoders have stopped
(`TimeInv`), and that a stop with a rotation in progress is in the history
(`SlipInv`); that only the current attempt's queue holds blocks, with the close
block last (`RunInv`); that the packet in hand is the head of `avQueue`
(`HandInv`); and that a `streamAudio` that sleeps on packets has been signalled
(`WakeInv`). This is the argument that makes the missing lock harmless: between the
check of the count and the wait, the producer's signal is counted. `TcpInv` adds
that everything in flight over TCP belongs to the current attempt, whose
sessions and queue are held until its close block has run; `MuxInv`
that capture times and RTP times grow along the way from encoder to network, and
that a packet sent before a frame was captured before it. TLC has checked these on
audio and video, video, and audio, over TCP with two connects (66,427, 14,439 and
8,842 states), and `SenderInv` over UDP, too (399,279, 252,129 and 189,704).

`BroadcastCallbackProofs` is about the main queue, for every profile and
transport:

- `CallbacksKept`: `Spec => []CallbackProtocol`.
- `EncodersStop`: `Spec => []EncodersNeedBroadcast`.

  `CallInv` describes the blocks that wait on the main queue: attempt after
  attempt, and of one attempt in the order the manager posts them (`PostInv`);
  what was heard of an attempt decides what may still come (`ToldInv`, `HeardInv`);
  a running broadcast was announced and its end was not (`AnswerInv`); and a
  watchdog that counts does so for the broadcast that runs (`WatchInv`). As long
  as no stop was tangled or overtook a start (`slips`), what an earlier attempt
  leaves behind are timeouts nobody acts on, and they are gone before the button
  works again (`ButtonInv`); and encoders without a broadcast have a failure on
  its way that stops them (`EncoderInv`). TLC has checked `CallInv` on 399,279
  states over UDP and 66,427 over TCP.

### RTSPClient

`RTSPClientProofs`:

- `TypeCorrect`: `Spec => []TypeOK`. That `depth` stays in {0, 1} is the bound
  on the recursion.
- `Implements`: `Spec => SessionSpec`, the refinement. A step of the abstract
  session needs to know what the server has done, which the client's variables
  alone do not tell: `SessionInv` says that one request at most is unanswered or
  has its answer waiting (`OneOutstanding`), that a waiting or returned success
  is the answer of the request in progress (`OkIsAccepted`), and that with the
  right password only the first sending of a request is challenged
  (`RetryIsProper`). It is inductive relative to `TypeOK`; then each action is
  shown to be a step of `RTSPSession` or a stutter.
- `SocketOnce`, `SessionAlwaysCarried`, `RoutesAlwaysAgree`: `Spec` implies `[]`
  of `SocketClosedOnce`, `SessionCarried` and `RoutesAgree`, from `WireInv`, which
  adds that the server is never ahead of the request in progress (`PaceInv`); that
  Basic credentials `announce` was given satisfy every later challenge before it
  is made (`CloseInv`); that the client knows the session from the answer to the
  first SETUP on, unless answers are split (`CarryInv`); and that after each SETUP
  the header's channels, the manager's count, its `ports` and the server agree,
  or the rest of a split answer is still to be read (`RouteInv`). TLC has checked it
  for both transports, both schemes, one track and two, split answers or not.

### StreamControl

`StreamControlProofs`, for all delays and bounds:

- `TypeCorrect`, `RunningIsShown`, `StopAlwaysHeard`: `Spec` implies `[]` of
  `TypeOK`, `ShownAsLive` and `StopIsHeard`, from `ControlInv`: of one hand, an
  unselected button means that nothing runs or is on its way, except perhaps one
  start awaiting its handshake with the button disabled; a selected one that the
  start is still to be heard of, that the stream is live, or that its last message
  is out. TLC has checked it on 1,397,978 states.

### AVCEncoder

`AVCEncoderProofs`, under `OneRotator` (one thread rotates at most, and no stream
is started while it does; without it `avc_twice` shows the theorems false):

- `TypeCorrect`, `TimesFound`, `FramesWhole`, `StopCompletes`: `Spec` implies
  `[]` of `TypeOK`, `TimeForEveryFrame`, `WholeFrames` and `StopIsComplete`.
- `Implements`: `Spec => FrameQueueSpec`, the refinement.

  All follow from one inductive invariant, `IInv`. It adds to the properties
  `Good`: a rotation never meets a start, and what has passed the check of stop
  finds the encoder as it left it (`Sequential`); while anybody writes or reads,
  the times queued are those of the frames in the file, and of one more that a
  writer refused (`Buffers`, with `Synced`); and times only grow (`Ordered`). The
  refinement needs the second part to know that the frame read is the head of the
  queue.

### RTPSession

`RTPSessionProofs`:

- `DatabaseKept`, `ReportsKnown`, `SendersKept`, `Paced`: `Spec` implies `[]` of
  `DatabaseConsistent`, `ReportsAboutKnown`, `SendersCounted`, `ReportsPaced`,
  whether or not the calls of the two threads overlap.
- `OwnEntryKept`: `Spec => []OwnEntryStays` if they do not, and `OwnEntryLastKept`,
  without that assumption: until `rtp_done`, or a peer's BYE that names our SSRC,
  the session's own entry is known and the last of its chain.

  Lemmas say of each C function what it keeps of a session (`Keeps`): the chains
  of the table, the count, the reports, our own entry's place. `SesInv` puts them together:
  the session is sound and, until a peer's BYE names it, carries no BYE of its own
  while it lasts, so that the housekeeping does not delete its own entry
  (`DataInv`); what `rtp_update` has chosen to delete is still there and, with the
  same condition, is not ourselves (`DoomInv`); without overlap nobody deletes while
  a BYE is processed, and only `rtp_done` of a disowned session can miss a source
  (`CallInv`); and the timer's time since the last report is never more than the
  real one, although every departure moves it back to now (`PaceInv`). TLC has
  checked it, but for the types, on 586,418 states without overlap and 766,055
  with it.

### RTPPackets

`RTPPacketsProofs`:

- `TypeCorrect` and `PacketsAlwaysFit`: `Spec` implies `[]TypeOK` and
  `[]PacketsFit`, with `UnitInv`: the unit being sent is of a size its sender
  accepts, with no more to go than it has bytes.
- `ExtendedSpanCorrect`: `Spec => []ExtendedSpan`. `NumberInv` says that every
  packet's sequence number is its count shifted and taken modulo `SeqMod`, that
  `max_seq` stands for `top` in the same way, and `ExtendedSpan`; the lemmas on windows say that
  two counts less than a cycle apart that are equal modulo it are equal, which is
  where `InReach` and `MaxDropout + MaxMisorder < SeqMod` come in.
- `LossBounded`: `Spec => []LossNotOverstated`. `LossInv` says that what is
  expected and not received is at most what is missing between base and top.
- `NothingMixedUp`: `Spec => []Rebuilt`. The depacketizer sees sequence numbers
  only; `JoinInv` says that what it holds goes up to `top`, and that the packet
  numbered next, in the network or still to be cut, is the next piece of that
  unit (`FlightInv`, `AssemblyInv`).
- `NothingWithheld`: `Spec => []IntactIsRebuilt`, for `MinSequential = 2`, which
  `rtp.c:88-90` fixes. (With a
  probation of four or more a source can need more packets than the property
  allows before it is in step, since 0 does not follow 65535 on probation.)
  `DeliverInv` gives every packet its place in its unit (`PlaceInv`), the state of the source after one, two and three packets
  in a row (`SyncInv`), and what the depacketizer holds when the unit began after
  them (`HandedInv`). TLC has checked `NumberInv`, `LossInv`, `JoinInv` and
  `DeliverInv` on the 3,798,953 states of the run.

Only model-checked: liveness and whatever is about `ENABLED`, which is out of the
prover's reach: `ConnectAnswered`, `StopAnswered`, `TimeoutEnds`, `ExchangesEnd`,
`ButtonComesBack`, `FramesDelivered`, `SilentForgotten`, `ByeLeaves`. `MuxOrder`
for audio alone over UDP holds on every instance tried (up to three connects and
three packets) and is not proved.

## 10. Not modelled

Most lines of the repository are other people's: Mongoose, ASIHTTPRequest,
ShareKit in three copies, SBJSON, h264bitstream, Apple's AVCam sample and
`tcp_var.h`. Of the rest, view controllers, drawing and file helpers keep no
state that a property could be about.

In `BroadcastManager`: the layout of SDP, the payload bytes, and a RECORD that
fails after the video session could not be created over UDP (its error path is
the one of RECORD, with a NULL session). `kQueueMaximumDepth` is never consulted
(`LivuBroadcastManager.m:703`), so there is no bound on `avQueue` to state. A
setup that fails leaves its socket open (`:357`): only `disconnectInternal:`
tears down, and nothing in the model uses the socket of a failed attempt again.

In `RTSPClient`: `describe` and `play`, which the application never calls; a
send that is cut short (`sRTSPClient.m:887`, a hazard of its own in
`PROJECT.json`); the number `cSeq`, which no code compares; an answer split
inside its status line; and the failure to create an RTP session between two
requests, which is in `BroadcastManager`.

In `StreamControl`: torch, orientation and the texts of alerts. `requestFailed:`
asks its delegate for a misspelt selector (`Utilities.m:266`) that none has, so a
failure, like an answer without a handshake, does nothing here.

In `AVCEncoder`: the parameter sets and what `prepareEncoder` does when it cannot
extract them (`AVCEncoder.m:345`); a header of four bytes that is itself read in
two pieces (`qt_parser.m:510`); `free_parser`, which reads what it has freed
(`qt_parser.m:76`); and `setParameters:` while encoding, which is the sequence of
`setAveragebps:` once more. Of `TCPBufferMonitor.m` only its call of `setAveragebps:`
is modelled: its average (`:231-266`) is unsigned arithmetic over counters of the
kernel that the repository does not define. Reading it shows that the bounds
`minimum_bitrate` and `maximum_bitrate` are set and then overwritten by the plain
average in the next statement; nothing in the repository states that they hold.

In `RTPSession` and `RTPPackets`: SDES and APP packets, encryption, jitter and
round-trip times (values that no control depends on), the sockets of `net_udp.c`,
`sdp.c` and the allocator of `memory.c`. Over interleaved TCP the loop of
`rtp_send_bye` neither waits nor receives (`rtp.c:3361`, "not implemented"): it
spins until the BYE is due, which is `LeaveCheck` and `Tick` without `LeaveRecv`.

Broadcast profiles (`LivuBroadcastConfig.m`) are a list saved whole from one thread;
its one operation that relates two entries, `setActiveProfile:`, has no caller.
