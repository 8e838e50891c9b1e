----------------------------- MODULE AVCEncoder -----------------------------
(***************************************************************************)
(* The H.264 encoder of the AVCEncoder library: AVFoundation writes the    *)
(* compressed frames into a QuickTime file that is read back while it      *)
(* grows (AVCEncoder.m, qt_parser.m), with the capture queue that feeds it *)
(* (LivuCaptureManager.m).                                                 *)
(*                                                                         *)
(* Threads: Main starts and stops the encoder; each of Rotators changes    *)
(* the bit rate (the encoder's own 60 s timer, on a global queue), which   *)
(* is a stop and a start on a new file; the capture queue calls encode:;   *)
(* the parser's reader queue reads the file and calls the callback.  The   *)
(* blocks of writer_queue and reader_queue are serial, so each is a step;  *)
(* between the steps of start, stop and encode: anything may happen.       *)
(*                                                                         *)
(* A frame is its capture time.  In the file it is a header and BodyUnits  *)
(* pieces; AVFoundation decides how much of it can be read yet.            *)
(***************************************************************************)
EXTENDS Naturals, Sequences, Functions

CONSTANTS
  Main,           \* the main queue
  Rotators,       \* threads that set averagebps
  BodyUnits,      \* pieces a frame's body is read in, at most
  WriterMayFail,  \* AVAssetWriter may fail to be created
  StartAlone,     \* no rotation is in progress while a stream is started
  MaxSamples      \* bound: samples the camera captures

ASSUME EncoderAssumption ==
  /\ Main \notin Rotators
  /\ {BodyUnits, MaxSamples} \subseteq Nat \ {0} /\ {WriterMayFail, StartAlone} \subseteq BOOLEAN

Units == BodyUnits + 1
Controllers == Rotators \cup {Main}

VARIABLES
  isEncoding,
  writer,       \* writerObj's status; "nil" when there is no writerObj
  writer_queue, \* "none", "live" or "released"
  timer,        \* the rotation timer, likewise
  timeQueue,    \* presentation times of frames not yet delivered
  qt,           \* the file: mdat header readable, frames not read to the end,
                \* units read of the first of them, units readable from there
  parser,       \* AVCParserStruct: parsing, mdat found, units read of a frame
  encode,       \* the capture manager's flag
  capture,      \* "idle", or "encode:" when a sample has passed the check
  now,          \* time of the last sample captured
  pc,           \* where each controller is
  tangled,      \* a rotation overlapped the last stop
  out,          \* what the callback was given: [frame, pts]
  crashed       \* "no", or what was dereferenced, released twice, empty or torn

vars == <<isEncoding, writer, writer_queue, timer, timeQueue, qt, parser,
          encode, capture, now, pc, tangled, out, crashed>>
control == <<isEncoding, writer_queue, timer, pc, tangled>>

Running == crashed = "no"
Goes(c, p) == pc' = [pc EXCEPT ![c] = p]

NewFile == [mdat |-> FALSE, frames |-> <<>>, taken |-> 0, visible |-> 0]

(* init_parser.  Faulty variant: a partly read frame is not forgotten. *)
init_parser_keeps_count(p) == [p EXCEPT !.parsing = FALSE, !.found = FALSE]
init_parser(p) == [parsing |-> FALSE, found |-> FALSE, got |-> 0]

Init ==
  /\ isEncoding = FALSE /\ writer = "nil" /\ writer_queue = "none" /\ timer = "none"
  /\ timeQueue = <<>> /\ qt = NewFile
  /\ parser = [parsing |-> FALSE, found |-> FALSE, got |-> 0]
  /\ encode = FALSE /\ capture = "idle" /\ now = 0
  /\ pc = [c \in Controllers |-> IF c = Main THEN "off" ELSE "idle"]
  /\ tangled = FALSE /\ out = <<>> /\ crashed = "no"

-----------------------------------------------------------------------------
(* The capture queue *)

(* captureOutput: and the check of encode: *)
Encode ==
  /\ Running /\ capture = "idle" /\ encode /\ now < MaxSamples
  /\ now' = now + 1
  /\ capture' = IF isEncoding THEN "encode:" ELSE "idle"
  /\ UNCHANGED <<control, writer, timeQueue, qt, parser, encode, out, crashed>>

(* A ready writer input is given the sample, its time being queued first;  *)
(* an append that fails leaves the writer failed.  Faulty variant: the     *)
(* time is queued although the input is not ready.                         *)
AppendSample_unready ==
  /\ timeQueue' = Append(timeQueue, now)
  /\ \/ writer' = "Writing" /\ qt' = [qt EXCEPT !.frames = Append(@, now)]
     \/ writer' \in {"Writing", "Failed"} /\ UNCHANGED qt
AppendSample ==
  \/ writer' = "Writing" /\ UNCHANGED <<timeQueue, qt>>   \* not ready
  \/ /\ timeQueue' = Append(timeQueue, now)
     /\ \/ writer' = "Writing" /\ qt' = [qt EXCEPT !.frames = Append(@, now)]
        \/ writer' = "Failed" /\ UNCHANGED qt

(* The block of encode: on the writer queue *)
EncodeBlock ==
  /\ Running /\ capture = "encode:"
  /\ capture' = "idle"
  /\ \/ /\ writer_queue # "live" \/ writer = "nil"
        /\ crashed' = "writer" /\ UNCHANGED <<writer, timeQueue, qt, parser>>
     \/ /\ writer_queue = "live" /\ writer = "Unknown"
        /\ \/ parser' = [parser EXCEPT !.parsing = TRUE]
           \/ UNCHANGED parser              \* fopen failed
        /\ \/ writer' = "Failed" /\ UNCHANGED <<timeQueue, qt>>
           \/ AppendSample
        /\ UNCHANGED crashed
     \/ /\ writer_queue = "live" /\ writer = "Writing" /\ AppendSample
        /\ UNCHANGED <<parser, crashed>>
     \/ /\ writer_queue = "live" /\ writer = "Failed"
        /\ UNCHANGED <<writer, timeQueue, qt, parser, crashed>>
  /\ UNCHANGED <<control, encode, now, out>>

-----------------------------------------------------------------------------
(* The file and the reader queue *)

(* AVFoundation lets the reader see more of the file *)
FileGrows ==
  /\ Running /\ writer = "Writing"
  /\ IF qt.mdat
     THEN /\ qt.visible + qt.taken < Units * Len(qt.frames)
          /\ qt' = [qt EXCEPT !.visible = @ + 1]
     ELSE qt' = [qt EXCEPT !.mdat = TRUE]
  /\ UNCHANGED <<control, writer, timeQueue, parser, encode, capture, now, out, crashed>>

parse_to_mdat ==
  /\ Running /\ parser.parsing /\ ~parser.found /\ qt.mdat
  /\ parser' = [parser EXCEPT !.found = TRUE]
  /\ UNCHANGED <<control, writer, timeQueue, qt, encode, capture, now, out, crashed>>

(* The callback for a frame: the access unit delimiter (and a key frame's  *)
(* SPS and PPS) carry the time at the head of the queue, the frame takes   *)
(* it out.                                                                 *)
TimesAfter(q) == Tail(q)

(* What fread gives of the frame: as much as can be read.  Faulty variant: *)
(* clearerr is forgotten, nothing more is read after the end of the file.  *)
Readable_no_clearerr ==
  IF parser.got > 0 THEN 0 ELSE IF qt.visible < Units THEN qt.visible ELSE Units
Readable ==
  IF qt.visible < Units - parser.got THEN qt.visible ELSE Units - parser.got

parse_avc ==
  /\ Running /\ parser.parsing /\ parser.found /\ Readable > 0
  /\ IF parser.got + Readable < Units
     THEN /\ parser' = [parser EXCEPT !.got = @ + Readable]
          /\ qt' = [qt EXCEPT !.visible = @ - Readable, !.taken = @ + Readable]
          /\ UNCHANGED <<timeQueue, out, crashed>>
     ELSE /\ parser' = [parser EXCEPT !.got = 0]
          /\ qt' = [qt EXCEPT !.visible = @ - Readable, !.taken = 0, !.frames = Tail(@)]
          /\ IF timeQueue = <<>> \/ qt.taken # parser.got
             THEN /\ crashed' = IF timeQueue = <<>> THEN "times" ELSE "torn"
                  /\ UNCHANGED <<timeQueue, out>>
             ELSE /\ out' = Append(out, [frame |-> Head(qt.frames), pts |-> Head(timeQueue)])
                  /\ timeQueue' = TimesAfter(timeQueue)
                  /\ UNCHANGED crashed
  /\ UNCHANGED <<control, writer, encode, capture, now>>

-----------------------------------------------------------------------------
(* start and stop, by whoever runs them *)

Rotating == \E r \in Rotators : pc[r] # "idle"
Stopping == pc[Main] \in {"stop", "writer", "parser"}
Starting == pc[Main] \in {"prepare", "start", "setup", "timer"}

(* The view controller starts the stream: prepare, start, startEncoding    *)
StartStream ==
  /\ Running /\ pc[Main] = "off" /\ (StartAlone => ~Rotating)
  /\ Goes(Main, "prepare") /\ tangled' = FALSE
  /\ UNCHANGED <<isEncoding, writer_queue, timer>>
  /\ UNCHANGED <<writer, timeQueue, qt, parser, encode, capture, now, out, crashed>>

startEncoding ==
  /\ Running /\ pc[Main] = "capture"
  /\ encode' = TRUE /\ Goes(Main, "on")
  /\ UNCHANGED <<isEncoding, writer_queue, timer, tangled>>
  /\ UNCHANGED <<writer, timeQueue, qt, parser, capture, now, out, crashed>>

(* stopStream: stopEncoding waits for the capture queue, then stop *)
StopStream ==
  /\ Running /\ pc[Main] = "on" /\ capture = "idle"
  /\ encode' = FALSE /\ Goes(Main, "stop") /\ tangled' = Rotating
  /\ UNCHANGED <<isEncoding, writer_queue, timer>>
  /\ UNCHANGED <<writer, timeQueue, qt, parser, capture, now, out, crashed>>

(* setAveragebps: up to its call of stop *)
setAveragebps(r) ==
  /\ Running /\ pc[r] = "idle" /\ isEncoding /\ (StartAlone => ~Starting)
  /\ Goes(r, "stop") /\ tangled' = (tangled \/ Stopping)
  /\ UNCHANGED <<isEncoding, writer_queue, timer>>
  /\ UNCHANGED <<writer, timeQueue, qt, parser, encode, capture, now, out, crashed>>

Stopped(c) == IF c = Main THEN "off" ELSE "prepare"
Started(c) == IF c = Main THEN "capture" ELSE "idle"

StopCheck(c) ==
  /\ Running /\ pc[c] = "stop"
  /\ Goes(c, IF isEncoding THEN "writer" ELSE Stopped(c))
  /\ UNCHANGED <<isEncoding, writer_queue, timer, tangled>>
  /\ UNCHANGED <<writer, timeQueue, qt, parser, encode, capture, now, out, crashed>>

(* The timer is cancelled and released, the writer dropped on its queue *)
StopWriter(c) ==
  /\ Running /\ pc[c] = "writer"
  /\ IF timer = "live" /\ writer_queue = "live"
     THEN /\ isEncoding' = FALSE /\ writer' = "nil" /\ timer' = "released"
          /\ Goes(c, "parser") /\ UNCHANGED crashed
     ELSE crashed' = "released" /\ UNCHANGED <<isEncoding, writer, timer, pc>>
  /\ UNCHANGED <<writer_queue, tangled, timeQueue, qt, parser, encode, capture, now, out>>

(* stop_parser waits for the reader's step; then the times are dropped and *)
(* the queue released.  Faulty variants: the parser goes on reading; the   *)
(* times stay.                                                             *)
StoppedParser_reading(p) == p
StoppedParser(p) == [p EXCEPT !.parsing = FALSE]
TimesDropped_kept(q) == q
TimesDropped(q) == <<>>

StopParser(c) ==
  /\ Running /\ pc[c] = "parser"
  /\ parser' = StoppedParser(parser) /\ timeQueue' = TimesDropped(timeQueue)
  /\ IF writer_queue = "live"
     THEN writer_queue' = "released" /\ Goes(c, Stopped(c)) /\ UNCHANGED crashed
     ELSE crashed' = "released" /\ UNCHANGED <<writer_queue, pc>>
  /\ UNCHANGED <<isEncoding, timer, tangled, writer, qt, encode, capture, now, out>>

(* prepareEncoder: a new parser, unless somebody is encoding.  (The sps    *)
(* and pps it extracts, or fails to, are data.)                            *)
prepareEncoder(c) ==
  /\ Running /\ pc[c] = "prepare"
  /\ parser' = IF isEncoding THEN parser ELSE init_parser(parser)
  /\ Goes(c, "start")
  /\ UNCHANGED <<isEncoding, writer_queue, timer, tangled>>
  /\ UNCHANGED <<writer, timeQueue, qt, encode, capture, now, out, crashed>>

(* start: the check, the new queue and init_parser *)
StartQueue(c) ==
  /\ Running /\ pc[c] = "start"
  /\ IF isEncoding
     THEN Goes(c, Started(c)) /\ UNCHANGED <<writer_queue, parser>>
     ELSE Goes(c, "setup") /\ writer_queue' = "live" /\ parser' = init_parser(parser)
  /\ UNCHANGED <<isEncoding, timer, tangled>>
  /\ UNCHANGED <<writer, timeQueue, qt, encode, capture, now, out, crashed>>

(* start: setupWriterObj on the new queue *)
StartWriter(c) ==
  /\ Running /\ pc[c] = "setup"
  /\ writer' \in {"Unknown"} \cup (IF WriterMayFail THEN {"nil"} ELSE {})
  /\ qt' = NewFile /\ Goes(c, "timer")
  /\ UNCHANGED <<isEncoding, writer_queue, timer, tangled>>
  /\ UNCHANGED <<timeQueue, parser, encode, capture, now, out, crashed>>

(* start: the timer, and isEncoding at last *)
StartTimer(c) ==
  /\ Running /\ pc[c] = "timer"
  /\ timer' = "live" /\ isEncoding' = TRUE /\ Goes(c, Started(c))
  /\ UNCHANGED <<writer_queue, tangled>>
  /\ UNCHANGED <<writer, timeQueue, qt, parser, encode, capture, now, out, crashed>>

Controller(c) ==
  \/ StopCheck(c) \/ StopWriter(c) \/ StopParser(c)
  \/ prepareEncoder(c) \/ StartQueue(c) \/ StartWriter(c) \/ StartTimer(c)

Reader == parse_to_mdat \/ parse_avc

Next ==
  \/ Encode \/ EncodeBlock
  \/ FileGrows \/ Reader
  \/ StartStream \/ startEncoding \/ StopStream
  \/ \E r \in Rotators : setAveragebps(r)
  \/ \E c \in Controllers : Controller(c)

(* A controller that has begun goes on, the reader queue is served, and    *)
(* AVFoundation writes out what it was given.                              *)
Fairness ==
  /\ WF_vars(FileGrows) /\ WF_vars(Reader) /\ WF_vars(EncodeBlock)
  /\ \A c \in Controllers : WF_vars(Controller(c))

Spec == Init /\ [][Next]_vars /\ Fairness

-----------------------------------------------------------------------------
(* Properties *)

Times == 1 .. MaxSamples
Places == {"off", "prepare", "start", "setup", "timer", "capture", "on", "stop", "writer",
           "parser", "idle"}

Files == [mdat : BOOLEAN, frames : Seq(Times), taken : Nat, visible : Nat]
Parsers == [parsing : BOOLEAN, found : BOOLEAN, got : 0 .. BodyUnits]

TypeOK ==
  /\ {isEncoding, encode, tangled} \subseteq BOOLEAN
  /\ writer \in {"nil", "Unknown", "Writing", "Failed"}
  /\ writer_queue \in {"none", "live", "released"} /\ timer \in {"none", "live", "released"}
  /\ timeQueue \in Seq(Times)
  /\ qt \in Files /\ parser \in Parsers
  /\ now \in 0 .. MaxSamples
  /\ capture \in {"idle"} \cup (IF now = 0 THEN {} ELSE {"encode:"})
  /\ pc \in [Controllers -> Places]
  /\ out \in Seq([frame : Times, pts : Times])
  /\ crashed \in {"no", "writer", "times", "torn", "released"}

(* The encoder is a FrameQueue: whatever was dropped, failed, read in      *)
(* pieces or cut off by a change of the bit rate, each frame delivered     *)
(* carries its own time, in order and once.                                *)
Queue == INSTANCE FrameQueue WITH pending <- timeQueue, delivered <- out
FrameQueueSpec == Queue!Spec

(* A frame read from the file always finds its time: the time is queued    *)
(* before the frame is given to the writer, and dropped only when nothing  *)
(* reads any more.                                                         *)
TimeForEveryFrame == crashed # "times"

(* A NAL unit handed on is a whole frame: a file abandoned in the middle   *)
(* of a frame leaves nothing behind that the next file is read into.       *)
WholeFrames == crashed # "torn"

(* When stop has returned and no rotation overlapped it, the encoder is    *)
(* off: nobody reads the file, and no time is left for the next start.     *)
StopIsComplete ==
  pc[Main] = "off" /\ ~tangled /\ Running => ~isEncoding /\ ~parser.parsing /\ timeQueue = <<>>

(* A frame in the file of a writer that keeps working is delivered, unless *)
(* the writer is taken away first.                                         *)
FramesDelivered ==
  \A t \in Times :
    (t \in Range(qt.frames) /\ parser.parsing /\ writer = "Writing")
      ~> (t \notin Range(qt.frames) \/ writer # "Writing" \/ ~Running)

(* AVCEncoder.h:29: the callback's pts is "The time stamp of the captured  *)
(* image."                                                                 *)
OwnTimes == \A i \in DOMAIN out : out[i].pts = out[i].frame
=============================================================================
