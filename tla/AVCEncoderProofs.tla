--------------------------- MODULE AVCEncoderProofs ---------------------------
(***************************************************************************)
(* Theorems about AVCEncoder: for any number of samples and pieces of a    *)
(* frame, with at most one thread that changes the bit rate (the encoder's *)
(* own timer), that does not do so while a stream is being started.        *)
(***************************************************************************)
EXTENDS AVCEncoder, SequenceTheorems, TLAPS

OneRotator == StartAlone /\ \A r, s \in Rotators : r = s

(* The constants as the provers need them.                                 *)
LEMMA Constants ==
  /\ Main \notin Rotators /\ Main \in Controllers /\ Rotators \subseteq Controllers
  /\ BodyUnits \in Nat \ {0} /\ MaxSamples \in Nat \ {0} /\ Units \in Nat
  /\ Units = BodyUnits + 1 /\ Times \subseteq Nat
BY EncoderAssumption DEF EncoderAssumption, Units, Controllers, Times

-----------------------------------------------------------------------------
(* The invariant *)

(* Nobody is encoding, and nobody is about to be. *)
Quiet == ~isEncoding /\ \A c \in Controllers : pc[c] # "timer"

(* Who can be where together: a rotation never meets a start, what has     *)
(* passed the check of stop finds the encoder as it left it, and samples   *)
(* are encoded only between startEncoding and stopEncoding.                *)
Sequential ==
  /\ Starting => ~Rotating
  /\ \A c \in Controllers : pc[c] \in {"setup", "timer"} => ~isEncoding
  /\ \A r \in Rotators : pc[r] \in {"parser", "prepare", "start"} => ~isEncoding
  /\ encode \/ capture = "encode:" => pc[Main] = "on"
  /\ ~tangled /\ pc[Main] \in {"off", "stop", "writer", "parser"} => ~Rotating
  /\ ~tangled /\ pc[Main] \in {"off", "parser"} => ~isEncoding
  /\ pc[Main] # "idle" /\ \A r \in Rotators : pc[r] \notin {"off", "capture", "on"}

(* The queued times are those of the frames in the file, and of one that a *)
(* writer refused.                                                         *)
Synced ==
  /\ Len(timeQueue) \in {Len(qt.frames), Len(qt.frames) + 1}
  /\ writer = "Writing" => Len(timeQueue) = Len(qt.frames)
  /\ \A i \in 1 .. Len(qt.frames) : timeQueue[i] = qt.frames[i]

(* What the file, the parser and the queue of times have to do with it.    *)
Buffers ==
  /\ Quiet => writer = "nil"
  /\ Quiet /\ (timeQueue # <<>> \/ parser.parsing) => \E c \in Controllers : pc[c] = "parser"
  /\ (\E c \in Controllers : pc[c] = "setup") => ~parser.parsing /\ parser.got = 0
  /\ pc[Main] = "parser" => writer \in {"nil", "Unknown"}
  /\ writer = "Unknown" =>
       /\ qt.frames = <<>> /\ qt.taken = 0 /\ qt.visible = 0
       /\ ~parser.parsing /\ parser.got = 0
       /\ timeQueue = <<>> \/ pc[Main] = "parser"
  /\ writer = "Writing" \/ parser.parsing => Synced
  /\ parser.parsing => parser.got = qt.taken
  /\ qt.visible + qt.taken <= Units * Len(qt.frames)

(* Times only grow. *)
Ordered ==
  /\ \A i \in DOMAIN timeQueue :
       timeQueue[i] <= now /\ (capture = "encode:" => timeQueue[i] < now)
  /\ \A i \in DOMAIN out :
       out[i].frame <= now /\ (capture = "encode:" => out[i].frame < now)

Good == Running => Sequential /\ Buffers /\ Ordered

IInv == TypeOK /\ TimeForEveryFrame /\ WholeFrames /\ Good

-----------------------------------------------------------------------------
(* Types *)

(* Whole frames fill the file. *)
LEMMA Product ==
  /\ Units * 0 = 0
  /\ \A k \in Nat : Units * k \in Nat /\ Units * (k + 1) = Units * k + Units
BY Constants

(* The fields of the file and the parser.                                  *)
LEMMA Fields ==
  ASSUME TypeOK
  PROVE /\ qt.mdat \in BOOLEAN /\ qt.frames \in Seq(Times) /\ Len(qt.frames) \in Nat
        /\ qt.taken \in Nat /\ qt.visible \in Nat
        /\ parser.parsing \in BOOLEAN /\ parser.found \in BOOLEAN
        /\ parser.got \in 0 .. BodyUnits
        /\ timeQueue \in Seq(Times) /\ Len(timeQueue) \in Nat
        /\ now \in Nat
<1>1. qt.frames \in Seq(Times) /\ timeQueue \in Seq(Times)
  BY DEF TypeOK, Files, Parsers
<1>2. Len(qt.frames) \in Nat /\ Len(timeQueue) \in Nat
  BY <1>1, LenProperties
<1>3. now \in Nat
  BY Constants DEF TypeOK, Files, Parsers
<1> QED
  BY <1>1, <1>2, <1>3 DEF TypeOK, Files, Parsers

(* What fread gives is there, is not more than is missing, and belongs to  *)
(* a frame.                                                                *)
LEMMA Reading ==
  ASSUME TypeOK, Buffers, Readable > 0
  PROVE /\ Readable \in Nat /\ Readable <= qt.visible /\ parser.got + Readable <= Units
        /\ qt.frames # <<>> /\ Len(qt.frames) \in Nat \ {0}
        /\ parser.got \in Nat /\ qt.visible \in Nat /\ qt.taken \in Nat /\ Units \in Nat
<1>1. /\ parser.got \in 0 .. BodyUnits /\ qt.visible \in Nat /\ qt.taken \in Nat
      /\ Units = BodyUnits + 1 /\ BodyUnits \in Nat /\ qt.frames \in Seq(Times)
  BY Fields, Constants
<1>2. Readable \in Nat /\ Readable <= qt.visible /\ parser.got + Readable <= Units
  BY <1>1 DEF Readable
<1>3. Len(qt.frames) # 0
  <2>1. qt.visible + qt.taken <= Units * Len(qt.frames)
    BY DEF Buffers
  <2>2. SUFFICES ASSUME Len(qt.frames) = 0 PROVE FALSE
    OBVIOUS
  <2>3. qt.visible + qt.taken <= 0
    BY <2>1, <2>2, Product
  <2> QED
    BY <1>1, <1>2, <2>3
<1> QED
  BY <1>1, <1>2, <1>3, Constants, LenProperties, EmptySeq

(* A time that is appended is a time.                                      *)
LEMMA Appended ==
  ASSUME TypeOK, capture = "encode:", NEW q \in Seq(Times)
  PROVE /\ now \in Times /\ Append(q, now) \in Seq(Times)
        /\ Len(Append(q, now)) = Len(q) + 1 /\ Len(q) \in Nat
        /\ \A i \in 1 .. Len(q) : Append(q, now)[i] = q[i]
        /\ Append(q, now)[Len(q) + 1] = now
<1>1. now \in Times
  <2>1. now # 0 /\ now \in 0 .. MaxSamples
    BY DEF TypeOK, Files, Parsers
  <2> QED
    BY <2>1, Constants DEF Times
<1> QED
  BY <1>1, AppendProperties, LenProperties

(* What the callback is given.                                             *)
Delivered == [frame |-> Head(qt.frames), pts |-> Head(timeQueue)]

(* A file and a parser stay what they are when their counts change.        *)
LEMMA CountsUpdated ==
  ASSUME NEW q \in Files, NEW v \in Nat, NEW t \in Nat
  PROVE [q EXCEPT !.visible = v, !.taken = t] \in Files
BY DEF Files

(* ... and when it loses a frame.                                          *)
LEMMA FramesUpdated ==
  ASSUME NEW q \in Files, NEW v \in Nat, NEW t \in Nat, NEW f \in Seq(Times)
  PROVE [q EXCEPT !.visible = v, !.taken = t, !.frames = f] \in Files
BY DEF Files

(* The parser's count of what it has read changes alone.                   *)
LEMMA GotUpdated ==
  ASSUME NEW a \in Parsers, NEW g \in 0 .. BodyUnits PROVE [a EXCEPT !.got = g] \in Parsers
BY DEF Parsers

(* Every step keeps the types.                                             *)
LEMMA TypeStep == TypeOK /\ Good /\ [Next]_vars => TypeOK'
<1> SUFFICES ASSUME TypeOK, Good, [Next]_vars PROVE TypeOK'
  OBVIOUS
<1> USE Constants DEF TypeOK, control, Goes, Running
<1>1. CASE Encode
  <2>1. now' = now + 1 /\ now' \in 0 .. MaxSamples /\ now' # 0
    BY <1>1 DEF Encode
  <2> QED
    BY <1>1, <2>1 DEF Encode
<1>2. CASE EncodeBlock
  <2>1. capture = "encode:" /\ capture' = "idle"
    BY <1>2 DEF EncodeBlock
  <2>2. timeQueue' \in Seq(Times) /\ qt' \in Files
    <3>1. Append(timeQueue, now) \in Seq(Times) /\ Append(qt.frames, now) \in Seq(Times)
      BY <2>1, Appended, Fields
    <3>2. [qt EXCEPT !.frames = Append(qt.frames, now)]
             \in Files
      BY <3>1 DEF Files
    <3>3. /\ timeQueue' \in {timeQueue, Append(timeQueue, now)}
          /\ qt' \in {qt, [qt EXCEPT !.frames = Append(qt.frames, now)]}
      BY <1>2 DEF EncodeBlock, AppendSample
    <3> QED
      BY <3>1, <3>2, <3>3
  <2>3. writer' \in {"nil", "Unknown", "Writing", "Failed"}
    BY <1>2 DEF EncodeBlock, AppendSample
  <2>4. parser' \in Parsers
    BY <1>2 DEF EncodeBlock, Parsers
  <2>5. crashed' \in {"no", "writer", "times", "torn", "released"}
    BY <1>2 DEF EncodeBlock
  <2> QED
    BY <1>2, <2>1, <2>2, <2>3, <2>4, <2>5 DEF EncodeBlock
<1>3. CASE FileGrows
  <2>1. qt.visible + 1 \in Nat
    BY Fields
  <2>2. qt' \in Files
    BY <1>3, <2>1 DEF FileGrows, Files
  <2> QED
    BY <1>3, <2>2 DEF FileGrows
<1>4. CASE parse_to_mdat
  BY <1>4 DEF parse_to_mdat, Parsers
<1>5. CASE parse_avc
  <2>1. /\ Readable \in Nat /\ Readable <= qt.visible /\ parser.got + Readable <= Units
        /\ qt.frames # <<>> /\ parser.got \in Nat /\ qt.visible \in Nat /\ qt.taken \in Nat
    BY <1>5, Reading DEF parse_avc, Good
  <2>2. /\ qt.visible - Readable \in Nat /\ qt.taken + Readable \in Nat
        /\ parser.got + Readable < Units => parser.got + Readable \in 0 .. BodyUnits
    BY <2>1
  <2>3. Head(qt.frames) \in Times /\ Tail(qt.frames) \in Seq(Times)
    BY <2>1, Fields, HeadTailProperties
  <2>4. qt' \in Files
    <3>1. \/ qt' = [qt EXCEPT !.visible = qt.visible - Readable, !.taken = qt.taken + Readable]
          \/ qt' = [qt EXCEPT !.visible = qt.visible - Readable, !.taken = 0,
                              !.frames = Tail(qt.frames)]
      BY <1>5 DEF parse_avc
    <3>2. 0 \in Nat /\ 0 \in 0 .. BodyUnits
      OBVIOUS
    <3> QED
      <4>1. [qt EXCEPT !.visible = qt.visible - Readable, !.taken = qt.taken + Readable] \in Files
        BY <2>2, CountsUpdated
      <4>2. [qt EXCEPT !.visible = qt.visible - Readable, !.taken = 0, !.frames = Tail(qt.frames)]
              \in Files
        BY <2>2, <2>3, <3>2, FramesUpdated
      <4> QED
        BY <3>1, <4>1, <4>2
  <2>5. parser' \in Parsers
    <3>1. \/ parser' = [parser EXCEPT !.got = parser.got + Readable]
             /\ parser.got + Readable < Units
          \/ parser' = [parser EXCEPT !.got = 0]
      BY <1>5 DEF parse_avc
    <3>2. 0 \in 0 .. BodyUnits
      OBVIOUS
    <3> QED
      BY <2>2, <3>1, <3>2, GotUpdated
  <2>6. timeQueue' \in Seq(Times) /\ out' \in Seq([frame : Times, pts : Times])
    <3>1. \/ UNCHANGED <<timeQueue, out>>
          \/ timeQueue # <<>> /\ timeQueue' = Tail(timeQueue) /\ out' = Append(out, Delivered)
      BY <1>5 DEF parse_avc, TimesAfter, Delivered
    <3>2. timeQueue # <<>> => Head(timeQueue) \in Times /\ Tail(timeQueue) \in Seq(Times)
      BY HeadTailProperties
    <3>3. timeQueue # <<>> => Delivered \in [frame : Times, pts : Times]
      BY <2>3, <3>2 DEF Delivered
    <3>4. timeQueue # <<>> => Append(out, Delivered) \in Seq([frame : Times, pts : Times])
      BY <3>3, AppendProperties
    <3> QED
      BY <3>1, <3>2, <3>4
  <2>7. crashed' \in {"no", "writer", "times", "torn", "released"}
    BY <1>5 DEF parse_avc
  <2> QED
    BY <1>5, <2>4, <2>5, <2>6, <2>7 DEF parse_avc
<1>6. CASE StartStream \/ startEncoding \/ StopStream
  <2>1. pc' \in [Controllers -> Places] /\ {isEncoding', encode', tangled'} \subseteq BOOLEAN
    BY <1>6 DEF StartStream, startEncoding, StopStream, Places, Rotating
  <2> QED
    BY <1>6, <2>1 DEF StartStream, startEncoding, StopStream
<1>7. ASSUME NEW r \in Rotators, setAveragebps(r) PROVE TypeOK'
  <2>1. pc' \in [Controllers -> Places] /\ tangled' \in BOOLEAN
    BY <1>7 DEF setAveragebps, Places, Stopping
  <2> QED
    BY <1>7, <2>1 DEF setAveragebps
<1>8. ASSUME NEW c \in Controllers, Controller(c) PROVE TypeOK'
  <2>0. \A p \in Places : [pc EXCEPT ![c] = p] \in [Controllers -> Places]
    OBVIOUS
  <2>1. pc' \in [Controllers -> Places]
    <3>1. Stopped(c) \in Places /\ Started(c) \in Places
      BY DEF Stopped, Started, Places
    <3>2. {"writer", "parser", "start", "setup", "timer"} \subseteq Places
      BY DEF Places
    <3> QED
      BY <1>8, <2>0, <3>1, <3>2 DEF Controller, StopCheck, StopWriter, StopParser, prepareEncoder,
           StartQueue, StartWriter, StartTimer
  <2>2. init_parser(parser) \in Parsers
    BY DEF init_parser, Parsers
  <2>3. StoppedParser(parser) \in Parsers
    BY DEF StoppedParser, Parsers
  <2>4. NewFile \in Files
        /\ TimesDropped(timeQueue) \in Seq(Times)
    BY EmptySeq DEF NewFile, TimesDropped, Files
  <2>5. CASE StopCheck(c)
    BY <2>1, <2>5 DEF StopCheck
  <2>6. CASE StopWriter(c)
    BY <2>1, <2>6 DEF StopWriter
  <2>7. CASE StopParser(c)
    BY <2>1, <2>3, <2>4, <2>7 DEF StopParser
  <2>8. CASE prepareEncoder(c)
    BY <2>1, <2>2, <2>8 DEF prepareEncoder
  <2>9. CASE StartQueue(c)
    BY <2>1, <2>2, <2>9 DEF StartQueue
  <2>10. CASE StartWriter(c)
    BY <2>1, <2>4, <2>10 DEF StartWriter
  <2>11. CASE StartTimer(c)
    BY <2>1, <2>11 DEF StartTimer
  <2> QED
    BY <1>8, <2>5, <2>6, <2>7, <2>8, <2>9, <2>10, <2>11 DEF Controller
<1>9. CASE UNCHANGED vars
  BY <1>9 DEF vars
<1> QED
  BY <1>1, <1>2, <1>3, <1>4, <1>5, <1>6, <1>7, <1>8, <1>9 DEF Next, Reader

-----------------------------------------------------------------------------
(* Who can be where *)

(* A step of one controller leaves the others where they are.              *)
LEMMA Moves ==
  ASSUME TypeOK, NEW c \in Controllers, NEW p, Goes(c, p)
  PROVE /\ pc'[c] = p
        /\ \A d \in Controllers \ {c} : pc'[d] = pc[d]
BY DEF TypeOK, Goes

(* What the controllers' steps do to pc and isEncoding, and when.          *)
LEMMA ControllerSteps ==
  ASSUME TypeOK, NEW c \in Controllers, Controller(c), crashed' = "no"
  PROVE /\ UNCHANGED <<encode, capture, tangled, now, out>> /\ Running
        /\ \A d \in Controllers \ {c} : pc'[d] = pc[d]
        /\ \/ /\ pc[c] = "stop" /\ isEncoding' = isEncoding
              /\ pc'[c] = IF isEncoding THEN "writer" ELSE Stopped(c)
           \/ pc[c] = "writer" /\ pc'[c] = "parser" /\ ~isEncoding'
           \/ pc[c] = "parser" /\ pc'[c] = Stopped(c) /\ isEncoding' = isEncoding
           \/ pc[c] = "prepare" /\ pc'[c] = "start" /\ isEncoding' = isEncoding
           \/ /\ pc[c] = "start" /\ isEncoding' = isEncoding
              /\ pc'[c] = IF isEncoding THEN Started(c) ELSE "setup"
           \/ pc[c] = "setup" /\ pc'[c] = "timer" /\ isEncoding' = isEncoding
           \/ pc[c] = "timer" /\ pc'[c] = Started(c) /\ isEncoding'
<1>1. CASE StopCheck(c)
  BY <1>1, Moves DEF StopCheck
<1>2. CASE StopWriter(c)
  BY <1>2, Moves DEF StopWriter
<1>3. CASE StopParser(c)
  BY <1>3, Moves DEF StopParser
<1>4. CASE prepareEncoder(c)
  BY <1>4, Moves DEF prepareEncoder
<1>5. CASE StartQueue(c)
  BY <1>5, Moves DEF StartQueue
<1>6. CASE StartWriter(c)
  BY <1>6, Moves DEF StartWriter
<1>7. CASE StartTimer(c)
  BY <1>7, Moves DEF StartTimer
<1> QED
  BY <1>1, <1>2, <1>3, <1>4, <1>5, <1>6, <1>7 DEF Controller

(* The one rotator keeps Sequential.                                       *)
LEMMA RotatorStep ==
  ASSUME OneRotator, TypeOK, Sequential, NEW r \in Rotators, Controller(r), crashed' = "no"
  PROVE Sequential'
<1> USE Constants DEF Starting, Rotating
<1>1. /\ UNCHANGED <<encode, capture, tangled>> /\ pc'[Main] = pc[Main]
      /\ \A s \in Rotators : s = r
      /\ \A c \in Controllers : c = Main \/ c = r
  BY ControllerSteps DEF OneRotator, Controllers
<1>2. /\ pc[r] # "idle" /\ ~Starting
      /\ pc'[r] \in {"idle", "prepare", "start", "setup", "timer", "writer", "parser"}
  BY ControllerSteps DEF Sequential, Stopped, Started
<1>3. ~tangled => pc[Main] \notin {"off", "stop", "writer", "parser"}
  BY <1>2 DEF Sequential
<1>4. pc'[r] \in {"parser", "prepare", "start", "setup", "timer"} => ~isEncoding'
  BY ControllerSteps DEF Sequential, Stopped, Started
<1> QED
  BY <1>1, <1>2, <1>3, <1>4 DEF Sequential

(* The main thread keeps Sequential.                                       *)
LEMMA MainStep ==
  ASSUME OneRotator, TypeOK, Sequential, Controller(Main), crashed' = "no"
  PROVE Sequential'
<1> USE Constants DEF Starting, Rotating
<1>1. /\ UNCHANGED <<encode, capture, tangled>> /\ \A r \in Rotators : pc'[r] = pc[r]
  BY ControllerSteps
<1>2. \A c \in Controllers : c = Main \/ c \in Rotators
  BY DEF Controllers
<1>3. /\ encode \/ capture = "encode:" => FALSE
      /\ pc'[Main] \in {"off", "start", "setup", "timer", "capture", "writer", "parser"}
  BY ControllerSteps DEF Sequential, Stopped, Started
<1>4. Starting' => Starting
  BY ControllerSteps DEF Sequential, Stopped, Started
<1>5. pc'[Main] \in {"setup", "timer", "off", "parser"} => ~isEncoding' \/ tangled
  BY ControllerSteps DEF Sequential, Stopped, Started
<1>6. isEncoding' => isEncoding \/ ~Rotating
  BY ControllerSteps DEF Sequential
<1>7. pc'[Main] \in {"off", "writer", "parser"} => pc[Main] \in {"stop", "writer", "parser"}
  BY ControllerSteps DEF Stopped, Started
<1>8. pc'[Main] \in {"setup", "timer"} => ~isEncoding'
  BY ControllerSteps DEF Sequential, Stopped, Started
<1>9. \A r \in Rotators : pc[r] \in {"parser", "prepare", "start", "setup", "timer"} => ~isEncoding'
  BY <1>6 DEF Sequential
<1> QED
  BY <1>1, <1>2, <1>3, <1>4, <1>5, <1>7, <1>8, <1>9 DEF Sequential

(* Every step keeps Sequential.                                            *)
LEMMA SequentialStep ==
  ASSUME OneRotator, TypeOK, Good, [Next]_vars, crashed' = "no"
  PROVE Sequential'
<1> USE Constants
<1>1. CASE UNCHANGED vars
  BY <1>1 DEF vars, Good, Running, Sequential, Starting, Rotating
<1>2. CASE Running
  <2>0. Sequential
    BY <1>2 DEF Good
  <2>1. CASE UNCHANGED <<control, encode>> /\ (capture' = "encode:" => encode \/ capture = "encode:")
    BY <2>0, <2>1 DEF Sequential, Starting, Rotating, control
  <2>2. CASE StartStream
    <3>1. pc'[Main] = "prepare" /\ \A d \in Controllers \ {Main} : pc'[d] = pc[d]
      BY <2>2, Moves DEF StartStream
    <3>2. /\ UNCHANGED <<isEncoding, encode, capture>> /\ ~Rotating
          /\ ~(encode \/ capture = "encode:")
      BY <2>0, <2>2 DEF StartStream, OneRotator, Sequential
    <3> QED
      BY <2>0, <3>1, <3>2 DEF Sequential, Starting, Rotating, Controllers
  <2>3. CASE startEncoding
    <3>1. pc'[Main] = "on" /\ \A d \in Controllers \ {Main} : pc'[d] = pc[d]
      BY <2>3, Moves DEF startEncoding
    <3>2. UNCHANGED <<isEncoding, capture, tangled>>
      BY <2>3 DEF startEncoding
    <3> QED
      BY <2>0, <3>1, <3>2 DEF Sequential, Starting, Rotating, Controllers
  <2>4. CASE StopStream
    <3>1. pc'[Main] = "stop" /\ \A d \in Controllers \ {Main} : pc'[d] = pc[d]
      BY <2>4, Moves DEF StopStream
    <3>2. UNCHANGED <<isEncoding, capture>> /\ encode' = FALSE /\ capture = "idle"
          /\ tangled' = Rotating
      BY <2>4 DEF StopStream
    <3>3. Rotating' <=> Rotating
      BY <3>1 DEF Rotating
    <3> QED
      BY <2>0, <3>1, <3>2, <3>3 DEF Sequential, Starting, Controllers
  <2>5. ASSUME NEW r \in Rotators, setAveragebps(r) PROVE Sequential'
    <3>1. pc'[r] = "stop" /\ \A d \in Controllers \ {r} : pc'[d] = pc[d]
      BY <2>5, Moves DEF setAveragebps
    <3>2. UNCHANGED <<isEncoding, encode, capture>> /\ isEncoding /\ ~Starting
          /\ tangled' = (tangled \/ Stopping)
      BY <2>5 DEF setAveragebps, OneRotator
    <3>3. pc'[Main] = pc[Main] /\ ~Starting'
      BY <3>1, <3>2 DEF Starting
    <3> QED
      BY <2>0, <3>1, <3>2, <3>3 DEF Sequential, Starting, Rotating, Stopping, Controllers
  <2>6. ASSUME NEW c \in Controllers, Controller(c) PROVE Sequential'
    BY <2>0, <2>6, RotatorStep, MainStep DEF Controllers
  <2>7. Next => \/ UNCHANGED <<control, encode>>
                     /\ (capture' = "encode:" => encode \/ capture = "encode:")
                \/ StartStream \/ startEncoding \/ StopStream
                \/ \E r \in Rotators : setAveragebps(r)
                \/ \E c \in Controllers : Controller(c)
    BY DEF Next, Encode, EncodeBlock, FileGrows, Reader, parse_to_mdat, parse_avc
  <2> QED
    BY <1>1, <2>1, <2>2, <2>3, <2>4, <2>5, <2>6, <2>7
<1>3. Next => Running
  BY DEF Next, Encode, EncodeBlock, FileGrows, Reader, parse_to_mdat, parse_avc, StartStream,
         startEncoding, StopStream, setAveragebps, Controller, StopCheck, StopWriter, StopParser,
         prepareEncoder, StartQueue, StartWriter, StartTimer
<1> QED
  BY <1>1, <1>2, <1>3

-----------------------------------------------------------------------------
(* The buffers *)

Places3 == {"setup", "timer", "parser"}

(* What Buffers says of the controllers: only these three places matter.   *)
LEMMA Elsewhere ==
  ASSUME Buffers, UNCHANGED <<isEncoding, writer, timeQueue, qt, parser>>,
         \A c \in Controllers, p \in Places3 : pc'[c] = p <=> pc[c] = p
  PROVE Buffers'
<1>1. /\ \A c \in Controllers : pc'[c] = "timer" <=> pc[c] = "timer"
      /\ \A c \in Controllers : pc'[c] = "setup" <=> pc[c] = "setup"
      /\ \A c \in Controllers : pc'[c] = "parser" <=> pc[c] = "parser"
  BY DEF Places3
<1>2. pc'[Main] = "parser" <=> pc[Main] = "parser"
  BY <1>1, Constants
<1> QED
  BY <1>1, <1>2 DEF Buffers, Quiet, Synced

(* A writer that is there says that somebody is encoding or about to, and  *)
(* with the samples still coming nobody is about to start.                 *)
LEMMA Writing ==
  ASSUME OneRotator, TypeOK, Sequential, Buffers, writer # "nil", capture = "encode:"
  PROVE /\ ~Quiet /\ pc[Main] = "on"
        /\ \A c \in Controllers : pc[c] # "setup"
<1>1. ~Quiet /\ pc[Main] = "on"
  BY DEF Buffers, Sequential
<1>2. ASSUME NEW c \in Controllers, pc[c] = "setup" PROVE FALSE
  <2>1. c \in Rotators /\ ~isEncoding
    BY <1>1, <1>2 DEF Sequential, Controllers
  <2>2. \A d \in Controllers : pc[d] # "timer"
    BY <1>1, <1>2, <2>1 DEF OneRotator, Controllers
  <2> QED
    BY <1>1, <2>1, <2>2 DEF Quiet
<1> QED
  BY <1>1, <1>2

(* The block of encode: queues a frame's time with the frame.              *)
LEMMA BlockBuffers ==
  ASSUME OneRotator, TypeOK, Sequential, Buffers, EncodeBlock, crashed' = "no"
  PROVE Buffers'
<1> DEFINE times == Append(timeQueue, now)
           frames == Append(qt.frames, now)
           after == [qt EXCEPT !.frames = frames]
<1>1. /\ capture = "encode:" /\ writer # "nil" /\ UNCHANGED <<isEncoding, pc>>
      /\ writer \in {"Unknown", "Writing", "Failed"}
      /\ writer = "Failed" => UNCHANGED <<writer, timeQueue, qt, parser>>
      /\ writer = "Writing" => UNCHANGED parser
      /\ writer = "Unknown" => parser' = [parser EXCEPT !.parsing = TRUE] \/ parser' = parser
      /\ writer \in {"Unknown", "Writing"} =>
           \/ writer' = "Writing" /\ UNCHANGED <<timeQueue, qt>>
           \/ writer' = "Writing" /\ timeQueue' = times /\ qt' = after
           \/ writer' = "Failed" /\ timeQueue' = times /\ UNCHANGED qt
           \/ writer = "Unknown" /\ writer' = "Failed" /\ UNCHANGED <<timeQueue, qt>>
  BY DEF EncodeBlock, AppendSample, control, TypeOK, Running
<1>2. ~Quiet /\ pc[Main] = "on" /\ \A c \in Controllers : pc[c] # "setup"
  BY <1>1, Writing
<1>3. /\ Len(times) = Len(timeQueue) + 1 /\ Len(timeQueue) \in Nat
      /\ \A i \in 1 .. Len(timeQueue) : times[i] = timeQueue[i]
      /\ times[Len(timeQueue) + 1] = now
      /\ Len(frames) = Len(qt.frames) + 1 /\ Len(qt.frames) \in Nat
      /\ \A i \in 1 .. Len(qt.frames) : frames[i] = qt.frames[i]
      /\ frames[Len(qt.frames) + 1] = now
  BY <1>1, Appended, Fields
<1>4. /\ after.frames = frames /\ after.taken = qt.taken /\ after.visible = qt.visible
  BY DEF TypeOK, Files
<1> HIDE DEF times, frames, after
<1>5. CASE writer = "Failed"
  BY <1>1, <1>5, Elsewhere
<1>6. CASE writer \in {"Unknown", "Writing"}
  <2>1. Synced /\ Len(timeQueue) = Len(qt.frames)
    <3>1. CASE writer = "Writing"
      BY <1>3, <3>1 DEF Buffers, Synced
    <3>2. CASE writer = "Unknown"
      <4>1. qt.frames = <<>> /\ timeQueue = <<>>
        BY <1>2, <3>2 DEF Buffers
      <4>2. Len(qt.frames) = 0 /\ Len(timeQueue) = 0
        BY <4>1, EmptySeq
      <4> QED
        BY <4>2 DEF Synced
    <3> QED
      BY <1>6, <3>1, <3>2
  <2>2. Synced'
    <3>1. CASE writer' = "Writing" /\ UNCHANGED <<timeQueue, qt>>
      BY <1>3, <2>1, <3>1 DEF Synced
    <3>2. CASE writer' = "Writing" /\ timeQueue' = times /\ qt' = after
      <4>1. Len(times) = Len(frames) /\ Len(frames) \in Nat
        BY <1>3, <2>1
      <4>2. ASSUME NEW i \in 1 .. Len(frames) PROVE times[i] = frames[i]
        <5>1. CASE i \in 1 .. Len(qt.frames)
          BY <1>3, <2>1, <5>1 DEF Synced
        <5>2. CASE i = Len(qt.frames) + 1
          BY <1>3, <2>1, <5>2
        <5> QED
          BY <1>3, <4>2, <5>1, <5>2
      <4> QED
        BY <1>4, <3>2, <4>1, <4>2 DEF Synced
    <3>3. CASE writer' = "Failed" /\ timeQueue' = times /\ UNCHANGED qt
      BY <1>3, <2>1, <3>3 DEF Synced
    <3>4. CASE writer' = "Failed" /\ UNCHANGED <<timeQueue, qt>>
      BY <1>3, <2>1, <3>4 DEF Synced
    <3> QED
      BY <1>1, <1>6, <3>1, <3>2, <3>3, <3>4
  <2>3. qt'.visible + qt'.taken <= Units * Len(qt'.frames)
    <3>1. qt.visible + qt.taken <= Units * Len(qt.frames)
      BY DEF Buffers
    <3>2. CASE UNCHANGED qt
      BY <3>1, <3>2
    <3>3. CASE qt' = after
      <4>1. /\ Units * Len(frames) = Units * Len(qt.frames) + Units
            /\ Units * Len(qt.frames) \in Nat /\ Units \in Nat
        BY <1>3, Product, Constants
      <4>2. qt.visible \in Nat /\ qt.taken \in Nat
        BY Fields
      <4> QED
        BY <1>4, <3>1, <3>3, <4>1, <4>2
    <3> QED
      BY <1>1, <1>6, <3>2, <3>3
  <2>4. parser'.parsing => parser'.got = qt'.taken
    <3>1. parser'.got = parser.got /\ (parser' = parser \/ writer = "Unknown")
      BY <1>1, <1>6 DEF TypeOK, Parsers
    <3>2. qt'.taken = qt.taken
      BY <1>1, <1>4, <1>6
    <3>3. writer = "Unknown" => parser.got = 0 /\ qt.taken = 0
      BY DEF Buffers
    <3>4. parser.parsing => parser.got = qt.taken
      BY DEF Buffers
    <3> QED
      BY <3>1, <3>2, <3>3, <3>4
  <2>5. ~Quiet' /\ pc' = pc /\ writer' \in {"Writing", "Failed"}
    BY <1>1, <1>2, <1>6 DEF Quiet
  <2> QED
    BY <1>2, <2>2, <2>3, <2>4, <2>5 DEF Buffers
<1> QED
  BY <1>1, <1>5, <1>6

(* The file grows only as far as it has been written.                      *)
LEMMA FileBuffers ==
  ASSUME TypeOK, Buffers, FileGrows PROVE Buffers'
<1>1. /\ UNCHANGED <<isEncoding, pc, writer, timeQueue, parser>> /\ writer = "Writing"
      /\ qt'.frames = qt.frames /\ qt'.taken = qt.taken
      /\ qt'.visible + qt'.taken <= Units * Len(qt.frames)
  <2>1. CASE qt.mdat
    <3>1. /\ qt.visible + qt.taken < Units * Len(qt.frames)
          /\ qt' = [qt EXCEPT !.visible = qt.visible + 1]
      BY <2>1 DEF FileGrows
    <3>2. qt'.visible = qt.visible + 1 /\ qt'.frames = qt.frames /\ qt'.taken = qt.taken
      BY <3>1 DEF TypeOK, Files
    <3>3. Units * Len(qt.frames) \in Nat /\ qt.visible \in Nat /\ qt.taken \in Nat
      BY Fields, Product
    <3> QED
      BY <3>1, <3>2, <3>3 DEF FileGrows, control
  <2>2. CASE ~qt.mdat
    <3>1. qt' = [qt EXCEPT !.mdat = TRUE]
      BY <2>2 DEF FileGrows
    <3>2. qt'.visible = qt.visible /\ qt'.frames = qt.frames /\ qt'.taken = qt.taken
      BY <3>1 DEF TypeOK, Files
    <3> QED
      BY <3>2 DEF FileGrows, control, Buffers
  <2> QED
    BY <2>1, <2>2 DEF TypeOK, Files
<1> QED
  BY <1>1 DEF Buffers, Quiet, Synced

(* Reading takes the oldest frame and its time, or a part of the frame.    *)
LEMMA ReaderBuffers ==
  ASSUME TypeOK, Buffers, Reader PROVE crashed' = "no" /\ Buffers'
<1>1. CASE parse_to_mdat
  <2>1. /\ UNCHANGED <<isEncoding, pc, writer, timeQueue, qt>> /\ crashed' = "no"
        /\ parser'.parsing = parser.parsing /\ parser'.got = parser.got
    BY <1>1 DEF parse_to_mdat, control, TypeOK, Parsers, Running
  <2> QED
    BY <2>1 DEF Buffers, Quiet, Synced
<1>2. CASE parse_avc
  <2> DEFINE m == Readable
  <2>0. parser.parsing /\ m > 0 /\ UNCHANGED <<isEncoding, pc, writer>> /\ crashed = "no"
    BY <1>2 DEF parse_avc, control, Running
  <2>1. /\ m \in Nat /\ m <= qt.visible /\ parser.got + m <= Units
        /\ qt.frames # <<>> /\ Len(qt.frames) \in Nat \ {0}
        /\ parser.got \in Nat /\ qt.visible \in Nat /\ qt.taken \in Nat /\ Units \in Nat
    BY <2>0, Reading
  <2>2. /\ parser.got = qt.taken /\ Synced /\ writer # "Unknown"
        /\ \A c \in Controllers : pc[c] # "setup"
        /\ Quiet => writer = "nil" /\ \E c \in Controllers : pc[c] = "parser"
        /\ pc[Main] = "parser" => writer \in {"nil", "Unknown"}
        /\ qt.visible + qt.taken <= Units * Len(qt.frames)
    BY <2>0 DEF Buffers
  <2>3. timeQueue # <<>> /\ Len(timeQueue) \in Nat \ {0}
    <3>1. timeQueue \in Seq(Times) /\ Len(timeQueue) >= Len(qt.frames)
      BY <2>1, <2>2, Fields DEF Synced
    <3> QED
      BY <2>1, <3>1, Fields, EmptySeq
  <2>4. CASE parser.got + m < Units
    <3>1. /\ parser' = [parser EXCEPT !.got = parser.got + m]
          /\ qt' = [qt EXCEPT !.visible = qt.visible - m, !.taken = qt.taken + m]
          /\ UNCHANGED <<timeQueue, crashed>>
      BY <1>2, <2>4 DEF parse_avc
    <3> HIDE DEF m
    <3>2. /\ parser'.got = parser.got + m /\ parser'.parsing
          /\ qt'.visible = qt.visible - m /\ qt'.taken = qt.taken + m /\ qt'.frames = qt.frames
      BY <2>0, <3>1 DEF TypeOK, Parsers, Files
    <3>3. qt'.visible + qt'.taken <= Units * Len(qt'.frames)
      BY <2>1, <2>2, <3>2
    <3> QED
      BY <2>0, <2>2, <3>1, <3>2, <3>3 DEF Buffers, Quiet, Synced
  <2>5. CASE parser.got + m = Units
    <3>1. /\ parser' = [parser EXCEPT !.got = 0]
          /\ qt' = [qt EXCEPT !.visible = qt.visible - m, !.taken = 0,
                              !.frames = Tail(qt.frames)]
          /\ timeQueue' = Tail(timeQueue) /\ UNCHANGED crashed
      BY <1>2, <2>1, <2>2, <2>3, <2>5 DEF parse_avc, TimesAfter
    <3> HIDE DEF m
    <3>2. /\ parser'.got = 0 /\ parser'.parsing
          /\ qt'.visible = qt.visible - m /\ qt'.taken = 0 /\ qt'.frames = Tail(qt.frames)
      BY <2>0, <3>1 DEF TypeOK, Parsers, Files
    <3>3. /\ Len(qt'.frames) = Len(qt.frames) - 1 /\ Len(qt'.frames) \in Nat
          /\ \A i \in 1 .. Len(qt'.frames) : qt'.frames[i] = qt.frames[i + 1]
      BY <2>1, <3>2, Fields, HeadTailProperties
    <3>4. /\ Len(timeQueue') = Len(timeQueue) - 1 /\ Len(timeQueue') \in Nat
          /\ \A i \in 1 .. Len(timeQueue') : timeQueue'[i] = timeQueue[i + 1]
      BY <2>3, <3>1, Fields, HeadTailProperties
    <3>5. qt'.visible + qt'.taken <= Units * Len(qt'.frames)
      <4>1. /\ Units * Len(qt.frames) = Units * Len(qt'.frames) + Units
            /\ Units * Len(qt'.frames) \in Nat
        <5>1. Len(qt.frames) = Len(qt'.frames) + 1
          BY <2>1, <3>3
        <5> QED
          BY <3>3, <5>1, Product
      <4> QED
        BY <2>1, <2>2, <2>5, <3>2, <4>1
    <3>6. Synced'
      <4>1. /\ Len(timeQueue') \in {Len(qt'.frames), Len(qt'.frames) + 1}
            /\ writer = "Writing" => Len(timeQueue') = Len(qt'.frames)
        BY <2>1, <2>2, <2>3, <3>3, <3>4 DEF Synced
      <4>2. ASSUME NEW i \in 1 .. Len(qt'.frames) PROVE timeQueue'[i] = qt'.frames[i]
        <5>1. i \in 1 .. Len(timeQueue') /\ i + 1 \in 1 .. Len(qt.frames)
          BY <2>1, <3>3, <3>4, <4>1, <4>2
        <5> QED
          BY <2>2, <3>3, <3>4, <4>2, <5>1 DEF Synced
      <4> QED
        BY <2>0, <4>1, <4>2 DEF Synced
    <3> QED
      BY <2>0, <2>2, <3>1, <3>2, <3>5, <3>6 DEF Buffers, Quiet
  <2> QED
    BY <2>1, <2>4, <2>5
<1> QED
  BY <1>1, <1>2 DEF Reader

(* Where nobody else can be about to encode.                               *)
LEMMA Alone ==
  ASSUME OneRotator, Sequential, NEW c \in Controllers,
         pc[c] = "setup" \/ (pc[c] = "parser" /\ c \in Rotators)
  PROVE /\ Quiet
        /\ c = Main => ~Rotating
        /\ c \in Rotators => ~Starting /\ \A d \in Controllers : d = c \/ d = Main
<1> USE Constants DEF Starting, Rotating, Sequential, Controllers, OneRotator
<1>1. ~isEncoding
  OBVIOUS
<1>2. CASE c = Main
  BY <1>1, <1>2 DEF Quiet
<1>3. CASE c \in Rotators
  <2>1. ~Starting /\ \A d \in Controllers : d = c \/ d = Main
    BY <1>3
  <2> QED
    BY <1>1, <1>3, <2>1 DEF Quiet
<1> QED
  BY <1>2, <1>3

(* The steps of start and stop.                                            *)
LEMMA ControllerBuffers ==
  ASSUME OneRotator, TypeOK, Sequential, Buffers, NEW c \in Controllers, Controller(c),
         crashed' = "no"
  PROVE Buffers'
<1>0. Stopped(c) \in {"off", "prepare"} /\ Started(c) \in {"capture", "idle"}
  BY DEF Stopped, Started
<1>1. CASE StopCheck(c)
  <2>1. /\ UNCHANGED <<isEncoding, writer, timeQueue, qt, parser>>
        /\ pc[c] = "stop" /\ pc'[c] \in {"writer", "off", "prepare"}
        /\ \A d \in Controllers \ {c} : pc'[d] = pc[d]
    BY <1>0, <1>1, Moves DEF StopCheck
  <2>2. \A d \in Controllers, p \in Places3 : pc'[d] = p <=> pc[d] = p
    BY <2>1 DEF Places3
  <2> QED
    BY <2>1, <2>2, Elsewhere
<1>2. CASE StopWriter(c)
  <2>1. /\ UNCHANGED <<timeQueue, qt, parser>> /\ writer' = "nil"
        /\ pc[c] = "writer" /\ pc'[c] = "parser"
        /\ \A d \in Controllers \ {c} : pc'[d] = pc[d]
    BY <1>2, Moves DEF StopWriter
  <2>2. (\E d \in Controllers : pc'[d] = "setup") => \E d \in Controllers : pc[d] = "setup"
    BY <2>1
  <2>3. parser.parsing => Synced'
    <3>1. parser.parsing => Synced
      BY DEF Buffers
    <3> QED
      BY <2>1, <3>1 DEF Synced
  <2> QED
    BY <2>1, <2>2, <2>3 DEF Buffers
<1>3. CASE StopParser(c)
  <2>1. /\ UNCHANGED <<isEncoding, writer, qt>> /\ timeQueue' = <<>>
        /\ parser' = [parser EXCEPT !.parsing = FALSE]
        /\ pc[c] = "parser" /\ pc'[c] \in {"off", "prepare"}
        /\ \A d \in Controllers \ {c} : pc'[d] = pc[d]
    BY <1>0, <1>3, Moves DEF StopParser, StoppedParser, TimesDropped
  <2>2. ~parser'.parsing /\ parser'.got = parser.got
    BY <2>1 DEF TypeOK, Parsers
  <2>3. /\ (\E d \in Controllers : pc'[d] = "setup") => \E d \in Controllers : pc[d] = "setup"
        /\ Quiet' => Quiet
        /\ pc'[Main] = "parser" => pc[Main] = "parser"
    BY <2>1, Constants DEF Quiet
  <2>4. writer # "Writing"
    <3>1. CASE c = Main
      BY <2>1, <3>1 DEF Buffers
    <3>2. CASE c \in Rotators
      <4>1. Quiet
        BY <2>1, <3>2, Alone
      <4> QED
        BY <4>1 DEF Buffers
    <3> QED
      BY <3>1, <3>2 DEF Controllers
  <2> QED
    BY <2>1, <2>2, <2>3, <2>4 DEF Buffers
<1>4. CASE prepareEncoder(c)
  <2>1. /\ UNCHANGED <<isEncoding, writer, timeQueue, qt>>
        /\ parser' = IF isEncoding THEN parser ELSE init_parser(parser)
        /\ pc[c] = "prepare" /\ pc'[c] = "start"
        /\ \A d \in Controllers \ {c} : pc'[d] = pc[d]
    BY <1>4, Moves DEF prepareEncoder
  <2>2. /\ (\E d \in Controllers : pc'[d] = "setup") => \E d \in Controllers : pc[d] = "setup"
        /\ Quiet' => Quiet
        /\ (\E d \in Controllers : pc[d] = "parser") => \E d \in Controllers : pc'[d] = "parser"
    BY <2>1, Constants DEF Quiet
  <2>3. pc'[Main] = "parser" <=> pc[Main] = "parser"
    BY <2>1, Constants
  <2>4. parser' = parser \/ (~parser'.parsing /\ parser'.got = 0)
    BY <2>1 DEF init_parser
  <2> QED
    BY <2>1, <2>2, <2>3, <2>4 DEF Buffers, Synced
<1>5. CASE StartQueue(c)
  <2>1. /\ UNCHANGED <<isEncoding, writer, timeQueue, qt>> /\ pc[c] = "start"
        /\ \A d \in Controllers \ {c} : pc'[d] = pc[d]
        /\ \/ UNCHANGED parser /\ pc'[c] \in {"capture", "idle"}
           \/ pc'[c] = "setup" /\ ~parser'.parsing /\ parser'.got = 0
    BY <1>0, <1>5, Moves DEF StartQueue, init_parser
  <2>2. CASE UNCHANGED parser /\ pc'[c] \in {"capture", "idle"}
    <3>1. \A d \in Controllers, p \in Places3 : pc'[d] = p <=> pc[d] = p
      BY <2>1, <2>2 DEF Places3
    <3> QED
      BY <2>1, <2>2, <3>1, Elsewhere
  <2>3. CASE pc'[c] = "setup" /\ ~parser'.parsing /\ parser'.got = 0
    <3>1. /\ pc'[Main] = "parser" <=> pc[Main] = "parser"
          /\ Quiet' => Quiet
          /\ (\E d \in Controllers : pc[d] = "parser") => \E d \in Controllers : pc'[d] = "parser"
      BY <2>1, <2>3, Constants DEF Quiet
    <3> QED
      BY <2>1, <2>3, <3>1 DEF Buffers, Synced
  <2> QED
    BY <2>1, <2>2, <2>3
<1>6. CASE StartWriter(c)
  <2>1. /\ UNCHANGED <<isEncoding, timeQueue, parser>> /\ qt' = NewFile
        /\ writer' \in {"nil", "Unknown"} /\ pc[c] = "setup" /\ pc'[c] = "timer"
        /\ \A d \in Controllers \ {c} : pc'[d] = pc[d]
    BY <1>6, Moves DEF StartWriter
  <2>2. Quiet /\ ~parser.parsing /\ parser.got = 0
    BY <2>1, Alone DEF Buffers
  <2>3. timeQueue = <<>> \/ pc'[Main] = "parser"
    <3>1. CASE timeQueue # <<>>
      <4>1. PICK d \in Controllers : pc[d] = "parser"
        BY <2>2, <3>1 DEF Buffers
      <4>2. d = Main
        BY <2>1, <4>1, Alone, Constants DEF Controllers, Rotating
      <4> QED
        BY <2>1, <4>1, <4>2
    <3> QED
      BY <3>1
  <2>4. ~Quiet'
    BY <2>1 DEF Quiet
  <2>5. qt'.frames = <<>> /\ qt'.taken = 0 /\ qt'.visible = 0
    BY <2>1 DEF NewFile
  <2>6. qt'.visible + qt'.taken <= Units * Len(qt'.frames)
    <3>1. Len(qt'.frames) = 0
      BY <2>5, EmptySeq
    <3>2. Units * Len(qt'.frames) = 0
      BY <3>1, Product
    <3> QED
      BY <2>5, <3>2
  <2> QED
    BY <2>1, <2>2, <2>3, <2>4, <2>5, <2>6 DEF Buffers
<1>7. CASE StartTimer(c)
  <2>1. /\ UNCHANGED <<writer, timeQueue, qt, parser>> /\ isEncoding'
        /\ pc[c] = "timer" /\ pc'[c] \in {"capture", "idle"}
        /\ \A d \in Controllers \ {c} : pc'[d] = pc[d]
    BY <1>0, <1>7, Moves DEF StartTimer
  <2>2. ~Quiet'
    BY <2>1 DEF Quiet
  <2>3. /\ pc'[Main] = "parser" <=> pc[Main] = "parser"
        /\ (\E d \in Controllers : pc'[d] = "setup") => \E d \in Controllers : pc[d] = "setup"
    BY <2>1, Constants
  <2> QED
    BY <2>1, <2>2, <2>3 DEF Buffers, Synced
<1> QED
  BY <1>1, <1>2, <1>3, <1>4, <1>5, <1>6, <1>7 DEF Controller

(* Every step keeps Buffers.                                               *)
LEMMA BuffersStep ==
  ASSUME OneRotator, TypeOK, Good, Running, Next, crashed' = "no" PROVE Buffers'
<1>0. Sequential /\ Buffers
  BY DEF Good
<1>1. ASSUME UNCHANGED <<isEncoding, writer, timeQueue, qt, parser>>,
             NEW c \in Controllers, NEW p, p \notin Places3, pc[c] \notin Places3, Goes(c, p)
      PROVE Buffers'
  <2>1. pc'[c] = p /\ \A d \in Controllers \ {c} : pc'[d] = pc[d]
    BY <1>1, Moves
  <2>2. \A d \in Controllers, q \in Places3 : pc'[d] = q <=> pc[d] = q
    BY <1>1, <2>1
  <2> QED
    BY <1>0, <1>1, <2>2, Elsewhere
<1>2. {"off", "prepare", "capture", "on", "stop", "idle"} \cap Places3 = {}
  BY DEF Places3
<1>3. CASE Encode
  <2>1. UNCHANGED <<isEncoding, pc, writer, timeQueue, qt, parser>>
    BY <1>3 DEF Encode, control
  <2> QED
    BY <1>0, <2>1, Elsewhere
<1>4. CASE StartStream
  BY <1>1, <1>2, <1>4, Constants DEF StartStream
<1>5. CASE startEncoding
  BY <1>1, <1>2, <1>5, Constants DEF startEncoding
<1>6. CASE StopStream
  BY <1>1, <1>2, <1>6, Constants DEF StopStream
<1>7. ASSUME NEW r \in Rotators, setAveragebps(r) PROVE Buffers'
  BY <1>1, <1>2, <1>7, Constants DEF setAveragebps
<1>8. CASE EncodeBlock
  BY <1>0, <1>8, BlockBuffers
<1>9. CASE FileGrows
  BY <1>0, <1>9, FileBuffers
<1>10. CASE Reader
  BY <1>0, <1>10, ReaderBuffers
<1>11. ASSUME NEW c \in Controllers, Controller(c) PROVE Buffers'
  BY <1>0, <1>11, ControllerBuffers
<1> QED
  BY <1>3, <1>4, <1>5, <1>6, <1>7, <1>8, <1>9, <1>10, <1>11 DEF Next

-----------------------------------------------------------------------------
(* Times only grow *)

(* Every step keeps Ordered.                                               *)
LEMMA OrderedStep ==
  ASSUME TypeOK, Good, Running, Next PROVE Ordered'
<1>0. Ordered /\ now \in Nat /\ timeQueue \in Seq(Times) /\ out \in Seq([frame : Times, pts : Times])
  BY Constants DEF Good, TypeOK
<1>1. CASE Encode
  <2>1. now' = now + 1 /\ capture = "idle" /\ UNCHANGED <<timeQueue, out>>
    BY <1>1 DEF Encode
  <2>2. /\ \A i \in DOMAIN timeQueue : timeQueue[i] \in Nat /\ timeQueue[i] <= now
        /\ \A i \in DOMAIN out : out[i].frame \in Nat /\ out[i].frame <= now
    <3>1. ASSUME NEW i \in DOMAIN timeQueue PROVE timeQueue[i] \in Nat
      BY <1>0, <3>1, ElementOfSeq, LenProperties, Constants
    <3>2. ASSUME NEW i \in DOMAIN out PROVE out[i].frame \in Nat
      <4>1. out[i] \in [frame : Times, pts : Times]
        BY <1>0, <3>2, ElementOfSeq, LenProperties
      <4> QED
        BY <4>1, Constants
    <3> QED
      BY <1>0, <3>1, <3>2 DEF Ordered
  <2> QED
    BY <1>0, <2>1, <2>2 DEF Ordered
<1>2. CASE EncodeBlock
  <2> DEFINE times == Append(timeQueue, now)
  <2>1. /\ capture = "encode:" /\ capture' = "idle" /\ UNCHANGED <<now, out>>
        /\ timeQueue' \in {timeQueue, times}
    BY <1>2 DEF EncodeBlock, AppendSample
  <2>2. /\ times \in Seq(Times) /\ Len(times) = Len(timeQueue) + 1 /\ Len(timeQueue) \in Nat
        /\ \A i \in 1 .. Len(timeQueue) : times[i] = timeQueue[i]
        /\ times[Len(timeQueue) + 1] = now
    BY <1>0, <2>1, Appended
  <2> HIDE DEF times
  <2>3. DOMAIN times = 1 .. Len(times) /\ DOMAIN timeQueue = 1 .. Len(timeQueue)
    BY <1>0, <2>2, LenProperties
  <2>4. ASSUME NEW i \in DOMAIN times PROVE times[i] <= now
    <3>1. CASE i \in 1 .. Len(timeQueue)
      BY <1>0, <2>2, <2>3, <3>1 DEF Ordered
    <3>2. CASE i = Len(timeQueue) + 1
      BY <1>0, <2>2, <3>2
    <3> QED
      BY <2>2, <2>3, <2>4, <3>1, <3>2
  <2> QED
    BY <1>0, <2>1, <2>4 DEF Ordered
<1>3. CASE parse_avc
  <2>1. UNCHANGED <<now, capture>>
    BY <1>3 DEF parse_avc
  <2>2. CASE UNCHANGED <<timeQueue, out>>
    BY <1>0, <2>1, <2>2 DEF Ordered
  <2>3. CASE ~UNCHANGED <<timeQueue, out>>
    <3>1. /\ timeQueue # <<>> /\ timeQueue' = Tail(timeQueue) /\ out' = Append(out, Delivered)
          /\ parser.parsing /\ Readable > 0
      BY <1>3, <2>3 DEF parse_avc, TimesAfter, Delivered
    <3>2. /\ Head(qt.frames) = Head(timeQueue) /\ Len(timeQueue) \in Nat \ {0}
          /\ Head(timeQueue) = timeQueue[1]
          /\ Delivered \in [frame : Times, pts : Times] /\ Delivered.frame = timeQueue[1]
      <4>1. Synced /\ Buffers
        BY <3>1 DEF Good, Buffers
      <4>2. qt.frames # <<>> /\ Len(qt.frames) \in Nat \ {0}
        BY <3>1, <4>1, Reading
      <4>3. Head(qt.frames) = qt.frames[1] /\ Head(timeQueue) = timeQueue[1]
        BY <1>0, <3>1, <4>2, Fields
      <4>4. qt.frames[1] = timeQueue[1]
        BY <4>1, <4>2 DEF Synced
      <4>5. Head(timeQueue) \in Times /\ Len(timeQueue) \in Nat \ {0}
        BY <1>0, <3>1, HeadTailProperties, EmptySeq
      <4> QED
        BY <4>3, <4>4, <4>5 DEF Delivered
    <3>3. /\ Len(timeQueue') = Len(timeQueue) - 1 /\ DOMAIN timeQueue' = 1 .. Len(timeQueue')
          /\ \A i \in DOMAIN timeQueue' : timeQueue'[i] = timeQueue[i + 1]
      BY <1>0, <3>1, HeadTailProperties, LenProperties
    <3>4. DOMAIN timeQueue = 1 .. Len(timeQueue) /\ DOMAIN out = 1 .. Len(out) /\ Len(out) \in Nat
      BY <1>0, LenProperties
    <3>5. /\ Len(out') = Len(out) + 1 /\ DOMAIN out' = 1 .. Len(out')
          /\ \A i \in 1 .. Len(out) : out'[i] = out[i]
          /\ out'[Len(out) + 1] = Delivered
      BY <1>0, <3>1, <3>2, AppendProperties, LenProperties
    <3>6. ASSUME NEW i \in DOMAIN timeQueue'
          PROVE timeQueue'[i] <= now /\ (capture = "encode:" => timeQueue'[i] < now)
      <4>1. i + 1 \in DOMAIN timeQueue
        BY <3>2, <3>3, <3>4
      <4> QED
        BY <1>0, <3>3, <4>1 DEF Ordered
    <3>7. ASSUME NEW i \in DOMAIN out'
          PROVE out'[i].frame <= now /\ (capture = "encode:" => out'[i].frame < now)
      <4>1. CASE i \in 1 .. Len(out)
        BY <1>0, <3>4, <3>5, <4>1 DEF Ordered
      <4>2. CASE i = Len(out) + 1
        <5>1. 1 \in DOMAIN timeQueue
          BY <3>2, <3>4
        <5> QED
          BY <1>0, <3>2, <3>5, <4>2, <5>1 DEF Ordered
      <4> QED
        BY <3>4, <3>5, <4>1, <4>2
    <3> QED
      BY <2>1, <3>6, <3>7 DEF Ordered
  <2> QED
    BY <2>2, <2>3
<1>4. ASSUME NEW c \in Controllers, Controller(c) PROVE Ordered'
  <2>1. UNCHANGED <<now, capture, out>> /\ (timeQueue' = timeQueue \/ timeQueue' = <<>>)
    BY <1>4 DEF Controller, StopCheck, StopWriter, StopParser, prepareEncoder, StartQueue,
                StartWriter, StartTimer, TimesDropped
  <2>2. DOMAIN <<>> = {}
    OBVIOUS
  <2> QED
    BY <1>0, <2>1, <2>2 DEF Ordered
<1>5. CASE UNCHANGED <<timeQueue, out, now, capture>>
  BY <1>0, <1>5 DEF Ordered
<1>6. Next => \/ Encode \/ EncodeBlock \/ parse_avc
              \/ \E c \in Controllers : Controller(c)
              \/ UNCHANGED <<timeQueue, out, now, capture>>
  BY DEF Next, Reader, FileGrows, parse_to_mdat, StartStream, startEncoding, StopStream, setAveragebps
<1> QED
  BY <1>1, <1>2, <1>3, <1>4, <1>5, <1>6

-----------------------------------------------------------------------------
(* The theorems *)

(* Nothing happens after a crash.                                          *)
LEMMA StepsRun == Next => Running
BY DEF Next, Encode, EncodeBlock, FileGrows, Reader, parse_to_mdat, parse_avc, StartStream,
       startEncoding, StopStream, setAveragebps, Controller, StopCheck, StopWriter, StopParser,
       prepareEncoder, StartQueue, StartWriter, StartTimer

(* The invariant holds from the start.                                     *)
LEMMA IInvInit == Init => IInv
<1> SUFFICES ASSUME Init PROVE IInv
  OBVIOUS
<1> USE Constants DEF Init
<1>1. TypeOK
  <2>1. <<>> \in Seq(Times) /\ out \in Seq([frame : Times, pts : Times])
    BY EmptySeq
  <2>2. pc \in [Controllers -> Places]
    BY DEF Places
  <2>3. qt \in Files /\ parser \in Parsers
    BY <2>1 DEF NewFile, Files, Parsers
  <2>4. now \in 0 .. MaxSamples /\ capture \in {"idle"} \cup (IF now = 0 THEN {} ELSE {"encode:"})
    OBVIOUS
  <2>5. timeQueue \in Seq(Times)
    BY <2>1
  <2>6. {isEncoding, encode, tangled} \subseteq BOOLEAN
    OBVIOUS
  <2> HIDE DEF Init
  <2>7. /\ writer = "nil" /\ writer_queue = "none" /\ timer = "none" /\ crashed = "no"
    BY DEF Init
  <2> QED
    BY <2>1, <2>2, <2>3, <2>4, <2>5, <2>6, <2>7 DEF TypeOK
<1>2. pc[Main] = "off" /\ \A r \in Rotators : pc[r] = "idle"
  OBVIOUS
<1>3. Sequential
  BY <1>2 DEF Sequential, Starting, Rotating, Controllers
<1>4. Buffers
  <2>1. \A c \in Controllers : pc[c] \notin {"timer", "setup", "parser"}
    BY <1>2 DEF Controllers
  <2>2. qt.frames = <<>> /\ qt.taken = 0 /\ qt.visible = 0 /\ Len(qt.frames) = 0
    BY EmptySeq DEF NewFile
  <2>3. qt.visible + qt.taken <= Units * Len(qt.frames)
    BY <2>2, Product
  <2> QED
    BY <2>1, <2>2, <2>3 DEF Buffers
<1>5. Ordered
  <2>1. DOMAIN <<>> = {}
    OBVIOUS
  <2> QED
    BY <2>1 DEF Ordered
<1> QED
  BY <1>1, <1>3, <1>4, <1>5 DEF IInv, Good, TimeForEveryFrame, WholeFrames

(* Every step keeps the invariant; what the reader reads is a whole frame  *)
(* with a time.                                                            *)
LEMMA IInvStep == OneRotator /\ IInv /\ [Next]_vars => IInv'
<1> SUFFICES ASSUME OneRotator, IInv, [Next]_vars PROVE IInv'
  OBVIOUS
<1>0. TypeOK /\ Good /\ TimeForEveryFrame /\ WholeFrames
  BY DEF IInv
<1>1. TypeOK'
  BY <1>0, TypeStep
<1>2. CASE Next
  <2>1. Running /\ Buffers
    BY <1>0, <1>2, StepsRun DEF Good
  <2>2. crashed' \notin {"times", "torn"}
    <3>1. CASE Reader
      BY <1>0, <2>1, <3>1, ReaderBuffers
    <3>2. CASE ~Reader
      BY <1>2, <2>1, <3>2 DEF Running, Next, Encode, EncodeBlock, FileGrows, StartStream,
           startEncoding, StopStream, setAveragebps, Controller, StopCheck, StopWriter,
           StopParser, prepareEncoder, StartQueue, StartWriter, StartTimer
    <3> QED
      BY <3>1, <3>2
  <2>3. Good'
    BY <1>0, <1>2, <2>1, SequentialStep, BuffersStep, OrderedStep DEF Good, Running
  <2> QED
    BY <1>1, <2>2, <2>3 DEF IInv, TimeForEveryFrame, WholeFrames
<1>3. CASE UNCHANGED vars
  <2>1. Good'
    BY <1>0, <1>3 DEF vars, Good, Running, Sequential, Starting, Rotating, Buffers, Quiet, Synced,
                      Ordered
  <2> QED
    BY <1>0, <1>1, <1>3, <2>1 DEF vars, IInv, TimeForEveryFrame, WholeFrames
<1> QED
  BY <1>2, <1>3

(* With one rotator the invariant always holds.                            *)
LEMMA Invariant == OneRotator => (Spec => []IInv)
<1> SUFFICES ASSUME OneRotator PROVE Spec => []IInv
  OBVIOUS
<1>1. IInv /\ [Next]_vars => IInv'
  BY IInvStep
<1> QED
  BY <1>1, IInvInit, PTL DEF Spec

(* The state of the encoder is typed: no count runs below zero, no queue   *)
(* is read past its end.                                                   *)
THEOREM TypeCorrect == OneRotator => (Spec => []TypeOK)
<1>1. IInv => TypeOK
  BY DEF IInv
<1> QED
  BY <1>1, Invariant, PTL

(* Whatever is dropped, refused, read in pieces or cut off by a change of  *)
(* the bit rate: the callback never finds the queue of times empty.        *)
THEOREM TimesFound == OneRotator => (Spec => []TimeForEveryFrame)
<1>1. IInv => TimeForEveryFrame
  BY DEF IInv
<1> QED
  BY <1>1, Invariant, PTL

(* And it is never given a frame put together from two files.              *)
THEOREM FramesWhole == OneRotator => (Spec => []WholeFrames)
<1>1. IInv => WholeFrames
  BY DEF IInv
<1> QED
  BY <1>1, Invariant, PTL

(* A stop that no rotation overlapped leaves nothing running.              *)
THEOREM StopCompletes == OneRotator => (Spec => []StopIsComplete)
<1>1. IInv => StopIsComplete
  <2> SUFFICES ASSUME IInv, pc[Main] = "off", ~tangled, Running
               PROVE ~isEncoding /\ ~parser.parsing /\ timeQueue = <<>>
    BY DEF StopIsComplete
  <2>1. ~isEncoding /\ ~Rotating /\ Buffers
    BY DEF IInv, Good, Sequential
  <2>2. \A c \in Controllers : pc[c] \notin {"timer", "parser"}
    BY <2>1 DEF Rotating, Controllers
  <2> QED
    BY <2>1, <2>2 DEF Buffers, Quiet
<1> QED
  BY <1>1, Invariant, PTL

(* A step of the encoder is a step of the queue of frames, or none.        *)
LEMMA QueueStep == OneRotator /\ IInv /\ [Next]_vars => [Queue!Next]_<<timeQueue, out>>
<1> SUFFICES ASSUME OneRotator, IInv, [Next]_vars PROVE [Queue!Next]_<<timeQueue, out>>
  OBVIOUS
<1>1. CASE UNCHANGED <<timeQueue, out>>
  BY <1>1
<1>2. CASE EncodeBlock /\ ~UNCHANGED <<timeQueue, out>>
  <2>1. capture = "encode:" /\ UNCHANGED out /\ timeQueue' = Append(timeQueue, now)
    BY <1>2 DEF EncodeBlock, AppendSample
  <2>2. now \in Times
    BY <2>1, Appended, EmptySeq DEF IInv
  <2>3. Ordered
    BY <1>2 DEF EncodeBlock, IInv, Good
  <2> QED
    BY <2>1, <2>2, <2>3 DEF Queue!Next, Queue!Accept, Ordered
<1>3. CASE parse_avc /\ ~UNCHANGED <<timeQueue, out>>
  <2>1. /\ timeQueue # <<>> /\ timeQueue' = Tail(timeQueue) /\ parser.parsing /\ Readable > 0
        /\ out' = Append(out, [frame |-> Head(qt.frames), pts |-> Head(timeQueue)])
    BY <1>3 DEF parse_avc, TimesAfter
  <2>2. TypeOK /\ Buffers /\ Synced
    BY <1>3, <2>1 DEF parse_avc, IInv, Good, Buffers
  <2>3. qt.frames # <<>> /\ Len(qt.frames) \in Nat \ {0}
    BY <2>1, <2>2, Reading
  <2>4. Head(qt.frames) = qt.frames[1] /\ Head(timeQueue) = timeQueue[1]
    BY <2>1, <2>2, <2>3, Fields
  <2>5. Head(qt.frames) = Head(timeQueue)
    BY <2>2, <2>3, <2>4 DEF Synced
  <2> QED
    BY <2>1, <2>5 DEF Queue!Next, Queue!Deliver
<1>4. ASSUME NEW c \in Controllers, Controller(c), ~UNCHANGED <<timeQueue, out>>
      PROVE Queue!Next
  BY <1>4 DEF Controller, StopCheck, StopWriter, StopParser, prepareEncoder, StartQueue,
              StartWriter, StartTimer, TimesDropped, Queue!Next, Queue!Discard
<1>5. \/ EncodeBlock \/ parse_avc \/ \E c \in Controllers : Controller(c)
      \/ UNCHANGED <<timeQueue, out>>
  BY DEF Next, Encode, Reader, FileGrows, parse_to_mdat, StartStream, startEncoding, StopStream,
         setAveragebps, vars
<1> QED
  BY <1>1, <1>2, <1>3, <1>4, <1>5

(* The encoder implements the queue of frames: what it accepts comes out   *)
(* in order, once, each frame with the time it was captured at.            *)
THEOREM Implements == OneRotator => (Spec => FrameQueueSpec)
<1> SUFFICES ASSUME OneRotator PROVE Spec => FrameQueueSpec
  OBVIOUS
<1>1. Init => Queue!Init
  BY DEF Init, Queue!Init
<1>2. IInv /\ [Next]_vars => [Queue!Next]_<<timeQueue, out>>
  BY QueueStep
<1>3. Spec => []IInv
  BY Invariant
<1> QED
  BY <1>1, <1>2, <1>3, PTL DEF Spec, FrameQueueSpec, Queue!Spec

=============================================================================
