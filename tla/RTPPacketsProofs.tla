-------------------------- MODULE RTPPacketsProofs --------------------------
(***************************************************************************)
(* Theorems about RTPPackets, for all constants that satisfy               *)
(* PacketsAssumption.                                                      *)
(***************************************************************************)
EXTENDS RTPPackets, FiniteSetTheorems, TLAPS

Seqs == 0 .. SeqMod - 1

(* The constants as the provers need them. *)
LEMMA Constants ==
  /\ SeqMod \in Nat \ {0} /\ MinSequential \in Nat \ {0, 1} /\ MaxMisorder \in Nat \ {0}
  /\ {MaxPayload, MaxAu, MinAu, TcpBuffer, MaxDropout} \subseteq Nat
  /\ MaxDropout > 1 /\ MaxDropout + MaxMisorder < SeqMod
  /\ Sizes \subseteq Nat /\ FirstSeqs \subseteq Seqs
  /\ MaxPayload > 2 /\ MinAu > 0
  /\ MaxPayload + 16 <= TcpBuffer /\ MaxAu + 20 <= TcpBuffer
BY PacketsAssumption DEF PacketsAssumption, Seqs

(* A number modulo RTP_SEQ_MOD is a sequence number. *)
LEMMA ModIsSeq == ASSUME NEW a \in Int PROVE a % SeqMod \in Seqs
BY Constants DEF Seqs

(* The sequence number after q. *)
LEMMA ModNext ==
  ASSUME NEW q \in Seqs
  PROVE (q + 1) % SeqMod = IF q + 1 = SeqMod THEN 0 ELSE q + 1
BY Constants DEF Seqs

(* The distance from one sequence number up to another. *)
LEMMA ModDistance ==
  ASSUME NEW a \in Seqs, NEW b \in Seqs
  PROVE (a - b) % SeqMod = IF a >= b THEN a - b ELSE a - b + SeqMod
BY Constants DEF Seqs

-----------------------------------------------------------------------------
(* Types *)

(* The ranges of a source's fields, and the values update_seq gives them. *)
LEMMA SourceFields ==
  ASSUME NEW s \in Source
  PROVE /\ s.probation \in -1 .. MinSequential /\ s.max_seq \in Seqs /\ s.base_seq \in Seqs
        /\ s.bad_seq \in 0 .. SeqMod + 1 /\ s.cycles \in Nat /\ s.received \in Nat
BY DEF Source, Seqs

(* Where the values lie that update_seq gives those fields.                *)
LEMMA SourceValues ==
  /\ {0, MinSequential - 1, MinSequential} \subseteq -1 .. MinSequential
  /\ SeqMod + 1 \in 0 .. SeqMod + 1 /\ Seqs \subseteq 0 .. SeqMod + 1
BY Constants DEF Seqs

(* rtp_recv_data leaves a source that has begun its probation. *)
LEMMA StartedType ==
  ASSUME NEW s \in Source, NEW q \in Seqs
  PROVE Started(s, q) \in Source /\ Started(s, q).probation # -1
<1>1. (q - 1) % SeqMod \in Seqs
  BY ModIsSeq DEF Seqs
<1>2. MinSequential # -1
  BY Constants
<1> QED
  BY <1>1, <1>2, SourceValues DEF Started, Source, Seqs

(* init_seq resets every field but the probation. *)
LEMMA InitSeqType ==
  ASSUME NEW s \in Source, NEW q \in Seqs
  PROVE /\ init_seq(s, q) \in Source /\ init_seq(s, q).received = 0
        /\ init_seq(s, q).cycles = 0 /\ init_seq(s, q).probation = s.probation
        /\ init_seq(s, q).max_seq = q /\ init_seq(s, q).base_seq = q
BY SourceValues DEF init_seq, Source, Seqs

(* update_seq keeps a source's fields in their ranges. *)
LEMMA UpdateType ==
  ASSUME NEW s \in Source, s.probation # -1, NEW q \in Seqs
  PROVE update_seq(s, q) \in Source
<1>1. (q + 1) % SeqMod \in 0 .. SeqMod + 1
  <2>1. (q + 1) % SeqMod \in Seqs
    BY ModIsSeq DEF Seqs
  <2> QED
    BY <2>1, SourceValues
<1>2. Class(s, q) \in {"probe", "first", "restart", "next", "resync", "jump", "late"}
  BY DEF Class
<1>3. s.received + 1 \in Nat /\ s.cycles + SeqMod \in Nat
  BY SourceFields, Constants
<1>4. CASE Class(s, q) = "probe"
  <2>1. s.probation - 1 \in -1 .. MinSequential
    BY <1>4, SourceFields, Constants DEF Class
  <2> QED
    BY <1>4, <2>1 DEF update_seq, Source, Seqs
<1>5. CASE Class(s, q) = "first"
  <2> DEFINE t == init_seq(s, q)
  <2>1. update_seq(s, q) = [t EXCEPT !.probation = 0, !.received = @ + 1]
    BY <1>5 DEF update_seq
  <2>2. t \in Source /\ t.received + 1 \in Nat
    BY InitSeqType
  <2> HIDE DEF t
  <2> QED
    BY <2>1, <2>2, SourceValues DEF Source
<1>6. CASE Class(s, q) = "restart"
  BY <1>6, SourceValues DEF update_seq, Restart, Source, Seqs
<1>7. CASE Class(s, q) = "next"
  BY <1>3, <1>7 DEF update_seq, InOrder, Source, Seqs
<1>8. CASE Class(s, q) = "resync"
  <2> DEFINE t == init_seq(s, q)
  <2>1. update_seq(s, q) = [t EXCEPT !.received = @ + 1]
    BY <1>8 DEF update_seq
  <2>2. t \in Source /\ t.received + 1 \in Nat
    BY InitSeqType
  <2> HIDE DEF t
  <2> QED
    BY <2>1, <2>2 DEF Source
<1>9. CASE Class(s, q) = "jump"
  BY <1>1, <1>9 DEF update_seq, Source, Seqs
<1>10. CASE Class(s, q) = "late"
  BY <1>3, <1>10 DEF update_seq, Late, Source, Seqs
<1> QED
  BY <1>2, <1>4, <1>5, <1>6, <1>7, <1>8, <1>9, <1>10

(* What the unit being sent may be: of a size its sender accepts, with no  *)
(* more to go than it has bytes.                                           *)
UnitInv ==
  unit # NoUnit =>
    /\ unit.left \in 0 .. unit.size /\ unit.size >= 1
    /\ medium = "aac" => unit.size <= MaxAu

(* What a call of rtp_send_data is given fits. *)
LEMMA NextPacketFits ==
  ASSUME TypeOK, UnitInv, unit # NoUnit
  PROVE /\ NextPacket(unit) \in Packets
        /\ NextPacket(unit).to <= unit.size /\ NextPacket(unit).size = unit.size
        /\ NextPacket(unit).n = n /\ NextPacket(unit).seq = seq
        /\ Length(NextPacket(unit)) >= 1 /\ Length(NextPacket(unit)) + 16 <= TcpBuffer
        /\ medium = "avc" => Length(NextPacket(unit)) <= MaxPayload
<1> DEFINE from == unit.size - unit.left + 1
           to == IF MoreToCome(unit.left) THEN from + MaxPayload - 3 ELSE unit.size
<1>1. unit \in Units /\ unit.left \in 0 .. unit.size /\ unit.size >= 1 /\ n \in Nat /\ seq \in Seqs
  BY DEF TypeOK, UnitInv, Seqs
<1>2. CASE medium = "aac"
  <2>1. NextPacket(unit) = Packet(unit, 4, 1, unit.size, TRUE, TRUE)
    BY <1>2 DEF NextPacket
  <2> QED
    BY <1>1, <1>2, <2>1, Constants DEF Packet, Packets, Length, UnitInv, Units, Seqs
<1>3. CASE medium = "avc" /\ unit.size <= MaxPayload
  <2>1. NextPacket(unit) = Packet(unit, 0, 1, unit.size, TRUE, TRUE)
    BY <1>3 DEF NextPacket
  <2> QED
    BY <1>1, <1>3, <2>1, Constants DEF Packet, Packets, Length, Units, Seqs
<1>4. CASE medium = "avc" /\ unit.size > MaxPayload
  <2>0. medium # "aac" /\ ~(unit.size <= MaxPayload)
    BY <1>1, <1>4, Constants DEF Units
  <2>1. NextPacket(unit) = Packet(unit, 2, from, to, StartBit(unit), EndBit(unit))
    BY <2>0 DEF NextPacket
  <2>2. /\ from \in Nat /\ to \in Nat /\ to <= unit.size
        /\ 2 + to - from + 1 \in 1 .. MaxPayload
    BY <1>1, Constants DEF MoreToCome, Units
  <2>3. StartBit(unit) \in BOOLEAN /\ EndBit(unit) \in BOOLEAN
    BY DEF StartBit, EndBit, MoreToCome
  <2> HIDE DEF from, to
  <2> QED
    BY <1>1, <1>4, <2>1, <2>2, <2>3, Constants DEF Packet, Packets, Length, Units, Seqs
<1> QED
  BY <1>1, <1>2, <1>3, <1>4, Constants DEF TypeOK, Units

(* The depacketizer's unfinished NAL unit has the type it should. *)
LEMMA ExtendedType ==
  ASSUME TypeOK, NEW p \in Packets
  PROVE Extended(p) \in Assemblies \cup {NoAssembly}
<1>1. p.id \in Nat /\ p.to \in Nat /\ p.seq \in 0 .. SeqMod - 1
  BY DEF Packets
<1>2. CASE p.start
  BY <1>1, <1>2 DEF Extended, Assemblies
<1>3. CASE ~p.start /\ asm.id # Nobody /\ p.seq = (asm.seq + 1) % SeqMod
  <2>1. asm \in Assemblies
    BY <1>3 DEF TypeOK, NoAssembly
  <2>2. (asm.sound /\ p.id = asm.id /\ p.from = asm.to + 1) \in BOOLEAN
    OBVIOUS
  <2>3. Extended(p) = [asm EXCEPT !.to = p.to, !.seq = p.seq,
                         !.sound = asm.sound /\ p.id = asm.id /\ p.from = asm.to + 1]
    BY <1>3 DEF Extended
  <2> QED
    BY <1>1, <2>1, <2>2, <2>3 DEF Assemblies
<1> QED
  BY <1>2, <1>3 DEF Extended

(* Every step keeps the types. *)
LEMMA TypeStep == TypeOK /\ UnitInv /\ [Next]_vars => TypeOK' /\ UnitInv'
<1> SUFFICES ASSUME TypeOK, UnitInv, [Next]_vars PROVE TypeOK' /\ UnitInv'
  OBVIOUS
<1>1. ASSUME NEW size \in Sizes, Begin(size) PROVE TypeOK' /\ UnitInv'
  <2>1. size \in Nat /\ size >= 1 /\ (medium = "aac" => size <= MaxAu)
    BY <1>1, Constants DEF Begin, TypeOK
  <2>2. IF medium = "avc" /\ size > MaxPayload THEN size - 1 \in 0 .. size ELSE size \in 0 .. size
    BY <2>1
  <2>3. unit' \in Units /\ unit'.size = size /\ unit'.left \in 0 .. size /\ medium' = medium
    BY <1>1, <2>1, <2>2 DEF Begin, Units, TypeOK
  <2>4. TypeOK'
    BY <1>1, <2>3 DEF Begin, TypeOK, recvVars
  <2> QED
    BY <2>1, <2>3, <2>4 DEF UnitInv
<1>2. ASSUME NEW ok \in BOOLEAN, rtp_send_data(ok) PROVE TypeOK' /\ UnitInv'
  <2> DEFINE p == NextPacket(unit)
  <2>1. /\ unit # NoUnit /\ unit \in Units /\ n \in Nat
        /\ p \in Packets /\ p.to <= unit.size /\ p.size = unit.size
    BY <1>2, NextPacketFits DEF rtp_send_data, TypeOK
  <2>2. seq' \in 0 .. SeqMod - 1 /\ n' \in Nat
    BY <1>2, <2>1, ModIsSeq DEF rtp_send_data, SeqAfter, TypeOK, Seqs
  <2>3. unit' \in Units \cup {NoUnit} /\ UnitInv'
    <3>1. CASE p.to = p.size
      BY <1>2, <3>1 DEF rtp_send_data, UnitInv
    <3>2. CASE p.to # p.size
      <4>1. unit.size - p.to \in 0 .. unit.size
        BY <2>1 DEF Packets, Units
      <4>2. unit' = [unit EXCEPT !.left = unit.size - p.to] /\ medium' = medium
        BY <1>2, <3>2 DEF rtp_send_data
      <4> QED
        BY <2>1, <4>1, <4>2 DEF UnitInv, Units
    <3> QED
      BY <3>1, <3>2
  <2>4. flight' \subseteq Packets
    BY <1>2, <2>1 DEF rtp_send_data, TypeOK
  <2> QED
    BY <1>2, <2>2, <2>3, <2>4 DEF rtp_send_data, TypeOK, recvVars
<1>3. ASSUME NEW p \in flight, Lose(p) PROVE TypeOK' /\ UnitInv'
  BY <1>3 DEF Lose, TypeOK, UnitInv, sendVars, recvVars
<1>4. ASSUME NEW p \in flight, NEW again \in BOOLEAN, Arrive(p, again) PROVE TypeOK' /\ UnitInv'
  <2> DEFINE s == Started(src, p.seq)
             class == Class(s, p.seq)
  <2>1. p \in Packets /\ p.seq \in Seqs /\ p.n \in Nat /\ src \in Source
    BY DEF TypeOK, Packets, Seqs
  <2>2. src' \in Source
    <3>1. s \in Source /\ s.probation # -1
      BY <2>1, StartedType
    <3>2. update_seq(s, p.seq) \in Source
      BY <2>1, <3>1, UpdateType
    <3> QED
      BY <1>4, <3>2 DEF Arrive
  <2>3. flight' \subseteq Packets /\ got' \in Packets
    <3>1. [p EXCEPT !.again = TRUE] \in Packets /\ [p EXCEPT !.again = FALSE] \in Packets
      BY <2>1 DEF Packets
    <3> QED
      BY <1>4, <3>1 DEF Arrive, TypeOK
  <2>4. top' \in Nat \cup {Nobody} /\ base' \in Nat \cup {Nobody}
    BY <1>4, <2>1 DEF Arrive, TypeOK
  <2>5. missing' \subseteq Nat
    <3>1. top + 1 \in Nat
      BY DEF TypeOK, Nobody
    <3>2. top + 1 .. p.n - 1 \subseteq Nat
      BY <2>1, <3>1
    <3>3. missing' \in {{}, missing \cup (top + 1 .. p.n - 1), missing \ {p.n}, missing}
      BY <1>4 DEF Arrive
    <3> QED
      BY <3>2, <3>3 DEF TypeOK
  <2>6. run' \in Nat
    <3>1. run + 1 \in Nat /\ LongestRun \in Nat
      BY PacketsAssumption DEF PacketsAssumption, LongestRun, TypeOK
    <3> QED
      BY <1>4, <3>1 DEF Arrive, Smaller
  <2>7. asm' \in Assemblies \cup {NoAssembly} /\ rebuilt' \in Nat \cup {Nobody} /\ wrong' \in BOOLEAN
    <3>1. Extended(p) \in Assemblies \cup {NoAssembly} /\ p.id \in Nat
      BY <2>1, ExtendedType DEF Packets
    <3>2. CASE UNCHANGED <<asm, rebuilt, wrong>>
      BY <3>2 DEF TypeOK
    <3>3. CASE Depacketize(p)
      BY <3>1, <3>3 DEF Depacketize, TypeOK
    <3> QED
      BY <1>4, <3>2, <3>3 DEF Arrive
  <2> QED
    BY <1>4, <2>2, <2>3, <2>4, <2>5, <2>6, <2>7 DEF Arrive, TypeOK, UnitInv, sendVars
<1>5. CASE UNCHANGED vars
  BY <1>5 DEF vars, sendVars, recvVars, TypeOK, UnitInv
<1> QED
  BY <1>1, <1>2, <1>3, <1>4, <1>5 DEF Next

(* Every initial state is typed: a session starts with any sequence number *)
(* the library may draw.                                                   *)
LEMMA TypeInit == Init => TypeOK /\ UnitInv
<1> SUFFICES ASSUME Init PROVE TypeOK /\ UnitInv
  OBVIOUS
<1>1. NewSource \in Source
  BY Constants DEF NewSource, Source
<1>2. seq \in 0 .. SeqMod - 1
  BY Constants DEF Init, Seqs
<1> QED
  BY <1>1, <1>2 DEF Init, TypeOK, UnitInv

(* The sequence numbers of sender and receiver stay below RTP_SEQ_MOD and  *)
(* the bytes still to send never run below zero.                           *)
THEOREM TypeCorrect == Spec => []TypeOK
<1>1. Spec => [](TypeOK /\ UnitInv)
  BY TypeInit, TypeStep, PTL DEF Spec
<1> QED
  BY <1>1, PTL

-----------------------------------------------------------------------------
(* What leaves the sender fits every buffer on its way *)

(* Only a send adds packets; a repeated one is as long as the first.       *)
LEMMA FitStep ==
  TypeOK /\ UnitInv /\ PacketsFit /\ [Next]_vars => PacketsFit'
<1> SUFFICES ASSUME TypeOK, UnitInv, PacketsFit, [Next]_vars PROVE PacketsFit'
  OBVIOUS
<1>1. ASSUME NEW size \in Sizes, Begin(size) PROVE PacketsFit'
  BY <1>1 DEF Begin, PacketsFit, Length
<1>2. ASSUME NEW ok \in BOOLEAN, rtp_send_data(ok) PROVE PacketsFit'
  <2>1. /\ Length(NextPacket(unit)) >= 1 /\ Length(NextPacket(unit)) + 16 <= TcpBuffer
        /\ medium = "avc" => Length(NextPacket(unit)) <= MaxPayload
    BY <1>2, NextPacketFits DEF rtp_send_data
  <2>2. flight' \subseteq flight \cup {NextPacket(unit)} /\ medium' = medium
    BY <1>2 DEF rtp_send_data
  <2> QED
    BY <2>1, <2>2 DEF PacketsFit, Length
<1>3. ASSUME NEW p \in flight, Lose(p) PROVE PacketsFit'
  BY <1>3 DEF Lose, PacketsFit, Length, sendVars
<1>4. ASSUME NEW p \in flight, NEW again \in BOOLEAN, Arrive(p, again) PROVE PacketsFit'
  <2>1. [p EXCEPT !.again = TRUE].head = p.head /\ [p EXCEPT !.again = TRUE].to = p.to
        /\ [p EXCEPT !.again = TRUE].from = p.from
    BY DEF TypeOK, Packets
  <2>2. flight' \subseteq flight \cup {[p EXCEPT !.again = TRUE]} /\ medium' = medium
    BY <1>4 DEF Arrive, sendVars
  <2> QED
    BY <2>1, <2>2 DEF PacketsFit, Length
<1>5. CASE UNCHANGED vars
  BY <1>5 DEF vars, sendVars, PacketsFit, Length
<1> QED
  BY <1>1, <1>2, <1>3, <1>4, <1>5 DEF Next

(* However large the units: no packet of send_nal or send_aac_au is empty, *)
(* overruns rtp_nal or, with its headers, the buffer of tcp_send.          *)
THEOREM PacketsAlwaysFit == Spec => []PacketsFit
<1>1. Init => PacketsFit
  BY DEF Init, PacketsFit
<1> QED
  BY <1>1, TypeInit, TypeStep, FitStep, PTL DEF Spec

-----------------------------------------------------------------------------
(* Sequence numbers and the packets they stand for.  The number of a       *)
(* packet and its sequence number always differ by as much as n and seq,   *)
(* but for whole cycles.                                                   *)

Multiple(a) == \E k \in Int : a = k * SeqMod

(* Whole cycles add up. *)
LEMMA MultipleSum ==
  ASSUME NEW a \in Int, NEW b \in Int, Multiple(a), Multiple(b)
  PROVE Multiple(a + b) /\ Multiple(a - b)
<1>1. PICK k \in Int, l \in Int : a = k * SeqMod /\ b = l * SeqMod
  BY DEF Multiple
<1>2. a + b = (k + l) * SeqMod /\ a - b = (k - l) * SeqMod
  BY <1>1, Constants
<1>3. k + l \in Int /\ k - l \in Int
  OBVIOUS
<1> QED
  BY <1>2, <1>3 DEF Multiple

(* No cycle and one cycle. *)
LEMMA MultipleUnits == Multiple(0) /\ Multiple(SeqMod)
<1>1. 0 = 0 * SeqMod /\ SeqMod = 1 * SeqMod
  BY Constants
<1> QED
  BY <1>1 DEF Multiple

(* Less than a cycle is none. *)
LEMMA MultipleSmall ==
  ASSUME NEW a \in Int, Multiple(a), -SeqMod < a, a < SeqMod
  PROVE a = 0
<1>1. PICK k \in Int : a = k * SeqMod
  BY DEF Multiple
<1>2. SeqMod \in Nat /\ SeqMod > 0
  BY Constants
<1>3. CASE k >= 1
  <2>1. PICK j \in Nat : k = j + 1
    BY <1>3
  <2>2. k * SeqMod = j * SeqMod + SeqMod /\ j * SeqMod >= 0
    BY <1>2, <2>1
  <2> QED
    BY <1>1, <1>2, <2>2
<1>4. CASE k <= -1
  <2>1. PICK j \in Nat : k = -1 - j
    BY <1>4
  <2>2. k * SeqMod = -SeqMod - j * SeqMod /\ j * SeqMod >= 0
    BY <1>2, <2>1
  <2> QED
    BY <1>1, <1>2, <2>2
<1>5. CASE k = 0
  BY <1>1, <1>2, <1>5
<1> QED
  BY <1>3, <1>4, <1>5

(* A packet a of sequence number x, in reach of the newest packet b of     *)
(* sequence number y, is ahead of it by the distance of their sequence     *)
(* numbers when update_seq takes it for the next.                          *)
LEMMA Window ==
  ASSUME NEW x \in Seqs, NEW y \in Seqs, NEW a \in Int, NEW b \in Int,
         Multiple((a - x) - (b - y)),
         a \in b - (SeqMod - MaxDropout) .. b + SeqMod - MaxMisorder
  PROVE (x - y) % SeqMod < MaxDropout => a - b = (x - y) % SeqMod
<1> DEFINE d == (x - y) % SeqMod
           m == (a - b) - d
<1>1. /\ d \in Seqs /\ d \in Int /\ x \in Int /\ y \in Int
      /\ SeqMod \in Nat /\ MaxMisorder \in Nat /\ MaxMisorder > 0 /\ MaxDropout \in Nat
      /\ MaxDropout + MaxMisorder < SeqMod
  <2>1. d \in Seqs /\ x - y \in Int
    BY ModIsSeq DEF Seqs
  <2> HIDE DEF d
  <2> QED
    BY <2>1, Constants DEF Seqs
<1>2. m \in Int /\ d = IF x >= y THEN x - y ELSE x - y + SeqMod
  BY <1>1, ModDistance
<1>3. Multiple(m)
  <2> DEFINE w == (a - x) - (b - y)
  <2>1. w \in Int /\ Multiple(w) /\ Multiple(w - SeqMod)
    BY <1>1, MultipleSum, MultipleUnits
  <2>2. m = w \/ m = w - SeqMod
    BY <1>1, <1>2
  <2> QED
    BY <2>1, <2>2
<1>4. ASSUME d < MaxDropout PROVE a - b = d
  <2>1. -SeqMod < m /\ m < SeqMod
    BY <1>1, <1>4 DEF Seqs
  <2>2. m = 0
    BY <1>2, <1>3, <2>1, MultipleSmall
  <2> QED
    BY <1>1, <2>2
<1> QED
  BY <1>4

(* What update_seq does in each of its cases, field by field.              *)
LEMMA UpdateCases ==
  ASSUME NEW s \in Source, s.probation # -1, NEW q \in Seqs, NEW t, t = update_seq(s, q),
         NEW class, class = Class(s, q)
  PROVE /\ class \in {"probe", "first", "restart", "next", "resync", "jump", "late"}
        /\ class \in {"probe", "restart"} => t.probation >= 1 /\ t.max_seq = q
        /\ class \in {"first", "resync"} =>
             /\ t.probation = 0 /\ t.max_seq = q /\ t.base_seq = q
             /\ t.cycles = 0 /\ t.received = 1
        /\ class \in {"next", "late", "jump"} =>
             s.probation = 0 /\ t.probation = 0 /\ t.base_seq = s.base_seq
        /\ class = "next" => (q - s.max_seq) % SeqMod < MaxDropout
        /\ class \in {"resync", "jump"} =>
             s.probation = 0 /\ (q - s.max_seq) % SeqMod >= MaxDropout
        /\ class = "next" =>
             /\ t.max_seq = q /\ t.received = s.received + 1
             /\ t.cycles = IF q < s.max_seq THEN s.cycles + SeqMod ELSE s.cycles
        /\ class = "late" =>
             t.max_seq = s.max_seq /\ t.cycles = s.cycles /\ t.received = s.received + 1
        /\ class = "jump" =>
             t.max_seq = s.max_seq /\ t.cycles = s.cycles /\ t.received = s.received
<1>1. class \in {"probe", "first", "restart", "next", "resync", "jump", "late"}
  BY DEF Class
<1>2. /\ s.probation \in -1 .. MinSequential /\ MinSequential \in Nat /\ MinSequential > 1
      /\ (q - s.max_seq) % SeqMod \in Seqs /\ SeqMod \in Nat /\ MaxMisorder \in Nat
  <2>1. q - s.max_seq \in Int
    BY SourceFields DEF Seqs
  <2>2. (q - s.max_seq) % SeqMod \in Seqs
    BY <2>1, ModIsSeq
  <2> QED
    BY <2>2, SourceFields, Constants
<1>3. CASE class = "probe"
  <2>1. s.probation >= 2
    BY <1>2, <1>3 DEF Class
  <2>2. t = [s EXCEPT !.probation = s.probation - 1, !.max_seq = q]
    BY <1>3 DEF update_seq
  <2>3. t.probation = s.probation - 1 /\ t.max_seq = q
    BY <2>2 DEF Source
  <2> QED
    BY <1>2, <1>3, <2>1, <2>3
<1>4. CASE class = "first"
  <2> DEFINE u == init_seq(s, q)
  <2>1. /\ u \in Source /\ u.received = 0 /\ u.cycles = 0
        /\ u.max_seq = q /\ u.base_seq = q
    BY InitSeqType
  <2>2. t = [u EXCEPT !.probation = 0, !.received = u.received + 1]
    BY <1>4 DEF update_seq
  <2> HIDE DEF u
  <2>3. /\ t.probation = 0 /\ t.max_seq = q /\ t.base_seq = q
        /\ t.cycles = 0 /\ t.received = u.received + 1
    BY <2>1, <2>2 DEF Source
  <2> QED
    BY <1>4, <2>1, <2>3
<1>5. CASE class = "restart"
  <2>1. t.probation = MinSequential - 1 /\ t.max_seq = q
    BY <1>5 DEF update_seq, Restart, Source
  <2> QED
    BY <1>2, <1>5, <2>1
<1>6. CASE class = "next"
  <2>1. s.probation = 0 /\ (q - s.max_seq) % SeqMod < MaxDropout
    BY <1>6 DEF Class
  <2>2. /\ t.probation = s.probation /\ t.base_seq = s.base_seq /\ t.max_seq = q
        /\ t.received = s.received + 1
        /\ t.cycles = IF q < s.max_seq THEN s.cycles + SeqMod ELSE s.cycles
    BY <1>6 DEF update_seq, InOrder, Source
  <2> QED
    BY <1>6, <2>1, <2>2
<1>7. CASE class = "resync"
  <2> DEFINE u == init_seq(s, q)
  <2>1. /\ u \in Source /\ u.received = 0 /\ u.cycles = 0 /\ u.probation = s.probation
        /\ u.max_seq = q /\ u.base_seq = q
    BY InitSeqType
  <2>2. t = [u EXCEPT !.received = u.received + 1]
    BY <1>7 DEF update_seq
  <2>3. s.probation = 0 /\ (q - s.max_seq) % SeqMod \in MaxDropout .. SeqMod - MaxMisorder
    BY <1>7 DEF Class
  <2>5. (q - s.max_seq) % SeqMod >= MaxDropout
    BY <1>2, <2>3, Constants
  <2> HIDE DEF u
  <2>4. /\ t.probation = u.probation /\ t.max_seq = q /\ t.base_seq = q
        /\ t.cycles = 0 /\ t.received = u.received + 1
    BY <2>1, <2>2 DEF Source
  <2> QED
    BY <1>7, <2>1, <2>3, <2>4, <2>5
<1>8. CASE class = "jump"
  <2>1. s.probation = 0 /\ (q - s.max_seq) % SeqMod \in MaxDropout .. SeqMod - MaxMisorder
    BY <1>8 DEF Class
  <2>2. (q - s.max_seq) % SeqMod >= MaxDropout
    BY <1>2, <2>1, Constants
  <2>3. /\ t.probation = s.probation /\ t.base_seq = s.base_seq /\ t.max_seq = s.max_seq
        /\ t.cycles = s.cycles /\ t.received = s.received
    BY <1>8 DEF update_seq, Source
  <2> QED
    BY <1>8, <2>1, <2>2, <2>3
<1>9. CASE class = "late"
  <2>1. s.probation = 0
    BY <1>9 DEF Class
  <2>2. /\ t.probation = s.probation /\ t.base_seq = s.base_seq /\ t.max_seq = s.max_seq
        /\ t.cycles = s.cycles /\ t.received = s.received + 1
    BY <1>9 DEF update_seq, Late, Source
  <2> QED
    BY <1>9, <2>1, <2>2
<1> QED
  BY <1>1, <1>3, <1>4, <1>5, <1>6, <1>7, <1>8, <1>9

(* top and base are the packets of max_seq and base_seq.                   *)
NumberInv ==
  /\ \A p \in flight : Multiple((p.n - p.seq) - (n - seq))
  /\ src.probation # -1 => top \in Nat /\ Multiple((top - src.max_seq) - (n - seq))
  /\ src.probation = 0 => base \in Nat
  /\ ExtendedSpan

(* The facts every case of an arrival starts from: the source after        *)
(* rtp_recv_data's Started, and the packet against the newest one.         *)
LEMMA Arriving ==
  ASSUME TypeOK, NumberInv, NEW p \in flight, NEW again \in BOOLEAN, Arrive(p, again),
         NEW s, s = Started(src, p.seq), NEW class, class = Class(s, p.seq)
  PROVE /\ p.n \in Nat /\ p.seq \in Seqs /\ n \in Nat /\ seq \in Seqs
        /\ s \in Source /\ s.probation # -1 /\ src' = update_seq(s, p.seq)
        /\ s.probation = 0 => s = src /\ src.probation = 0
        /\ src.probation = 0 => top \in Nat /\ base \in Nat
        /\ (s.probation = 0 /\ (p.seq - s.max_seq) % SeqMod < MaxDropout)
             => p.n - top = (p.seq - s.max_seq) % SeqMod
        /\ class \in {"probe", "first", "restart", "next", "resync"} => top' = p.n
        /\ class \in {"jump", "late"} => top' = top
        /\ class \in {"first", "resync"} => base' = p.n
        /\ class \in {"next", "jump", "late"} => base' = base
<1>1. p \in Packets /\ p.seq \in Seqs /\ p.n \in Nat /\ src \in Source /\ n \in Nat /\ seq \in Seqs
  BY DEF TypeOK, Packets, Seqs
<1>2. s \in Source /\ s.probation # -1
  BY <1>1, StartedType
<1>3. s.probation = 0 => s = src /\ src.probation = 0
  <2>1. MinSequential # 0
    BY Constants
  <2> QED
    BY <1>1, <2>1 DEF Started, Source
<1>4. ASSUME s.probation = 0
      PROVE (p.seq - s.max_seq) % SeqMod < MaxDropout
              => p.n - top = (p.seq - s.max_seq) % SeqMod
  <2> DEFINE b == s.max_seq
             u == (p.n - p.seq) - (n - seq)
             v == (top - b) - (n - seq)
  <2>1. /\ s = src /\ src.probation = 0 /\ top \in Nat
        /\ Multiple(u) /\ Multiple(v)
    BY <1>3, <1>4 DEF NumberInv
  <2>2. b \in Seqs /\ u \in Int /\ v \in Int /\ top \in Int /\ p.n \in Int
    BY <1>1, <1>2, <2>1, SourceFields DEF Seqs
  <2>3. u - v = (p.n - p.seq) - (top - b)
    BY <1>1, <2>1, <2>2 DEF Seqs
  <2>4. Multiple(u - v)
    <3> HIDE DEF u, v
    <3> QED
      BY <2>1, <2>2, MultipleSum
  <2>5. p.n \in top - (SeqMod - MaxDropout) .. top + SeqMod - MaxMisorder
    BY <1>4, <2>1 DEF Arrive, InReach
  <2> HIDE DEF b, u, v
  <2>6. Multiple((p.n - p.seq) - (top - b))
    BY <2>3, <2>4
  <2>7. (p.seq - b) % SeqMod < MaxDropout => p.n - top = (p.seq - b) % SeqMod
    BY <1>1, <2>2, <2>5, <2>6, Window
  <2> QED
    BY <2>7 DEF b
<1>5. src.probation = 0 => top \in Nat /\ base \in Nat
  BY DEF NumberInv
<1>6. /\ src' = update_seq(s, p.seq)
      /\ class \in {"probe", "first", "restart", "next", "resync"} => top' = p.n
      /\ class \in {"jump", "late"} => top' = top
      /\ class \in {"first", "resync"} => base' = p.n
      /\ class \in {"next", "jump", "late"} => base' = base
  BY DEF Arrive
<1> QED
  BY <1>1, <1>2, <1>3, <1>4, <1>5, <1>6

(* An arrival keeps top, base and the extended sequence number together.   *)
LEMMA NumberArrive ==
  ASSUME TypeOK, NumberInv, NEW p \in flight, NEW again \in BOOLEAN, Arrive(p, again)
  PROVE NumberInv'
<1> DEFINE s == Started(src, p.seq)
           class == Class(s, p.seq)
           q == p.seq
<1> HIDE DEF s, class
<1>1. /\ p.n \in Nat /\ q \in Seqs /\ n \in Nat /\ seq \in Seqs
      /\ s \in Source /\ s.probation # -1 /\ src' = update_seq(s, q)
      /\ s.probation = 0 => s = src /\ src.probation = 0
      /\ src.probation = 0 => top \in Nat /\ base \in Nat
      /\ (s.probation = 0 /\ (q - s.max_seq) % SeqMod < MaxDropout)
           => p.n - top = (q - s.max_seq) % SeqMod
      /\ class \in {"probe", "first", "restart", "next", "resync"} => top' = p.n
      /\ class \in {"jump", "late"} => top' = top
      /\ class \in {"first", "resync"} => base' = p.n
      /\ class \in {"next", "jump", "late"} => base' = base
  BY Arriving DEF s, class
<1>2. n' = n /\ seq' = seq /\ Multiple((p.n - q) - (n - seq))
  BY DEF Arrive, sendVars, NumberInv
<1>3. \A r \in flight' : Multiple((r.n - r.seq) - (n' - seq'))
  <2>1. [p EXCEPT !.again = TRUE].n = p.n /\ [p EXCEPT !.again = TRUE].seq = p.seq
    BY DEF TypeOK, Packets
  <2>2. flight' \subseteq flight \cup {[p EXCEPT !.again = TRUE]}
    BY DEF Arrive
  <2> QED
    BY <1>2, <2>1, <2>2 DEF NumberInv
<1>4. /\ class \in {"probe", "first", "restart", "next", "resync", "jump", "late"}
      /\ class \in {"probe", "restart"} => src'.probation >= 1 /\ src'.max_seq = q
      /\ class \in {"first", "resync"} =>
           /\ src'.probation = 0 /\ src'.max_seq = q /\ src'.base_seq = q
           /\ src'.cycles = 0
      /\ class \in {"next", "late", "jump"} =>
           s.probation = 0 /\ src'.probation = 0 /\ src'.base_seq = s.base_seq
      /\ class = "next" =>
           /\ (q - s.max_seq) % SeqMod < MaxDropout /\ src'.max_seq = q
           /\ src'.cycles = IF q < s.max_seq THEN s.cycles + SeqMod ELSE s.cycles
      /\ class \in {"late", "jump"} => src'.max_seq = s.max_seq /\ src'.cycles = s.cycles
  BY <1>1, UpdateCases DEF class
<1>5. CASE class \in {"probe", "restart"}
  <2>1. src'.probation # 0
    BY <1>4, <1>5
  <2> QED
    BY <1>1, <1>2, <1>3, <1>4, <1>5, <2>1 DEF NumberInv, ExtendedSpan
<1>6. CASE class \in {"first", "resync"}
  <2>1. src'.cycles + src'.max_seq - src'.base_seq = top' - base'
    BY <1>1, <1>4, <1>6 DEF Seqs
  <2> QED
    BY <1>1, <1>2, <1>3, <1>4, <1>6, <2>1 DEF NumberInv, ExtendedSpan
<1>7. CASE class = "next"
  <2>1. /\ s = src /\ src.probation = 0 /\ top \in Nat /\ base \in Nat
        /\ src.max_seq \in Seqs /\ src.base_seq \in Seqs /\ src.cycles \in Nat
        /\ src.cycles + src.max_seq - src.base_seq = top - base
    BY <1>1, <1>4, <1>7, SourceFields DEF NumberInv, ExtendedSpan
  <2>2. p.n - top = IF q >= src.max_seq THEN q - src.max_seq ELSE q - src.max_seq + SeqMod
    BY <1>1, <1>4, <1>7, <2>1, ModDistance
  <2>3. src'.cycles = IF q < src.max_seq THEN src.cycles + SeqMod ELSE src.cycles
    BY <1>4, <1>7, <2>1
  <2>4. src'.max_seq = q /\ src'.base_seq = src.base_seq /\ top' = p.n /\ base' = base
        /\ src'.probation = 0
    BY <1>1, <1>4, <1>7, <2>1
  <2>5. src'.cycles + src'.max_seq - src'.base_seq = top' - base'
    <3>1. p.n \in Nat /\ q \in Nat /\ src.max_seq \in Nat /\ src.base_seq \in Nat /\ SeqMod \in Nat
      BY <1>1, <2>1, Constants DEF Seqs
    <3>2. src'.cycles + q - src.max_seq = src.cycles + (p.n - top)
      BY <2>1, <2>2, <2>3, <3>1
    <3> QED
      BY <2>1, <2>2, <2>3, <2>4, <3>1, <3>2
  <2> QED
    BY <1>1, <1>2, <1>3, <2>1, <2>4, <2>5 DEF NumberInv, ExtendedSpan
<1>8. CASE class \in {"jump", "late"}
  <2>1. /\ s = src /\ src.probation = 0 /\ src'.probation = 0 /\ top' = top /\ base' = base
        /\ src'.max_seq = src.max_seq /\ src'.base_seq = src.base_seq
        /\ src'.cycles = src.cycles
    BY <1>1, <1>4, <1>8
  <2> QED
    BY <1>1, <1>2, <1>3, <2>1 DEF NumberInv, ExtendedSpan
<1> QED
  BY <1>4, <1>5, <1>6, <1>7, <1>8

(* Every step keeps the packets and their sequence numbers in step.        *)
LEMMA NumberStep ==
  TypeOK /\ UnitInv /\ NumberInv /\ [Next]_vars => NumberInv'
<1> SUFFICES ASSUME TypeOK, UnitInv, NumberInv, [Next]_vars PROVE NumberInv'
  OBVIOUS
<1>1. ASSUME NEW size \in Sizes, Begin(size) PROVE NumberInv'
  BY <1>1 DEF Begin, recvVars, NumberInv, ExtendedSpan
<1>2. ASSUME NEW ok \in BOOLEAN, rtp_send_data(ok) PROVE NumberInv'
  <2> DEFINE p == NextPacket(unit)
  <2>1. /\ p.n = n /\ p.seq = seq /\ n \in Nat /\ seq \in Seqs /\ n' = n + 1
        /\ seq' = IF seq + 1 = SeqMod THEN 0 ELSE seq + 1
    BY <1>2, NextPacketFits, ModNext DEF rtp_send_data, SeqAfter, TypeOK, Seqs
  <2>2. flight' \subseteq flight \cup {p} /\ UNCHANGED recvVars
    BY <1>2 DEF rtp_send_data
  <2> HIDE DEF p
  <2>3. ASSUME NEW a \in Int, Multiple(a - (n - seq)) PROVE Multiple(a - (n' - seq'))
    <3> DEFINE u == a - (n - seq)
    <3>1. u \in Int /\ Multiple(u) /\ SeqMod \in Int
      BY <2>1, <2>3, Constants DEF Seqs
    <3>2. a - (n' - seq') = u \/ a - (n' - seq') = u - SeqMod
      BY <2>1, Constants DEF Seqs
    <3> HIDE DEF u
    <3>3. Multiple(u) /\ Multiple(u - SeqMod)
      BY <3>1, MultipleSum, MultipleUnits
    <3> QED
      BY <3>2, <3>3
  <2>4. \A r \in flight' : Multiple((r.n - r.seq) - (n' - seq'))
    <3>2. ASSUME NEW r \in flight PROVE Multiple((r.n - r.seq) - (n' - seq'))
      <4>1. r.n - r.seq \in Int
        BY <3>2 DEF TypeOK, Packets
      <4> QED
        BY <2>3, <4>1 DEF NumberInv
    <3>3. Multiple((p.n - p.seq) - (n' - seq'))
      <4>1. p.n - p.seq \in Int /\ (p.n - p.seq) - (n - seq) = 0
        BY <2>1 DEF Seqs
      <4> QED
        BY <2>3, <4>1, MultipleUnits
    <3> QED
      BY <2>2, <3>2, <3>3
  <2>5. src.probation # -1 => top \in Nat /\ Multiple((top - src.max_seq) - (n' - seq'))
    <3>1. SUFFICES ASSUME src.probation # -1
                   PROVE top \in Nat /\ Multiple((top - src.max_seq) - (n' - seq'))
      OBVIOUS
    <3>2. top \in Nat /\ top - src.max_seq \in Int
      BY <3>1, SourceFields DEF NumberInv, TypeOK, Seqs
    <3> QED
      BY <2>3, <3>1, <3>2 DEF NumberInv
  <2> QED
    BY <2>2, <2>4, <2>5 DEF recvVars, NumberInv, ExtendedSpan
<1>3. ASSUME NEW p \in flight, Lose(p) PROVE NumberInv'
  BY <1>3 DEF Lose, sendVars, recvVars, NumberInv, ExtendedSpan
<1>4. ASSUME NEW p \in flight, NEW again \in BOOLEAN, Arrive(p, again) PROVE NumberInv'
  BY <1>4, NumberArrive
<1>5. CASE UNCHANGED vars
  BY <1>5 DEF vars, sendVars, recvVars, NumberInv, ExtendedSpan
<1> QED
  BY <1>1, <1>2, <1>3, <1>4, <1>5 DEF Next

(* NumberInv holds from the start.                                         *)
LEMMA NumberInit == Init => NumberInv
BY DEF Init, NumberInv, ExtendedSpan, NewSource

(* For every modulus, dropout and misorder bound that leave a gap between  *)
(* them: update_seq's cycles count every wrap around exactly once, so the  *)
(* extended sequence number spans what was sent.                           *)
THEOREM ExtendedSpanCorrect == Spec => []ExtendedSpan
<1>1. NumberInv => ExtendedSpan
  BY DEF NumberInv
<1> QED
  BY <1>1, TypeInit, TypeStep, NumberInit, NumberStep, PTL DEF Spec

-----------------------------------------------------------------------------
(* The loss of a receiver report *)

(* What is missing lies between base and top, and what was expected but    *)
(* not received is never more than that.                                   *)
LossInv ==
  src.probation = 0 =>
    /\ base <= top /\ missing \subseteq base + 1 .. top - 1
    /\ top - base + 1 - src.received <= Cardinality(missing)

(* Packets missing between two numbers are finitely many.                  *)
LEMMA MissingFinite ==
  ASSUME NEW a \in Int, NEW b \in Int, NEW S, S \subseteq a .. b
  PROVE IsFiniteSet(S) /\ Cardinality(S) \in Nat
<1>1. IsFiniteSet(a .. b)
  BY FS_Interval
<1> QED
  BY <1>1, FS_Subset, FS_CardinalityType

(* What is added to a set of packets is counted once.                      *)
LEMMA UnionCounts ==
  ASSUME NEW S, IsFiniteSet(S), NEW T, IsFiniteSet(T), S \cap T = {}
  PROVE Cardinality(S \cup T) = Cardinality(S) + Cardinality(T)
<1>1. Cardinality(S \cap T) = 0
  BY FS_EmptySet
<1>2. Cardinality(S \cup T) = Cardinality(S) + Cardinality(T) - Cardinality(S \cap T)
  BY FS_Union
<1>3. Cardinality(S) \in Nat /\ Cardinality(T) \in Nat
  BY FS_CardinalityType
<1> QED
  BY <1>1, <1>2, <1>3

(* An arrival keeps the loss within what is missing.                       *)
LEMMA LossArrive ==
  ASSUME TypeOK, NumberInv, LossInv, NEW p \in flight, NEW again \in BOOLEAN,
         Arrive(p, again)
  PROVE LossInv'
<1> DEFINE s == Started(src, p.seq)
           class == Class(s, p.seq)
           q == p.seq
<1>0. /\ class \in {"first", "resync"} => missing' = {}
      /\ class = "next" => missing' = missing \cup (top + 1 .. p.n - 1)
      /\ class = "late" => missing' = missing \ {p.n}
      /\ class = "jump" => missing' = missing
  BY DEF Arrive
<1> HIDE DEF s, class
<1>1. /\ p.n \in Nat /\ q \in Seqs /\ s \in Source /\ s.probation # -1
      /\ src' = update_seq(s, q)
      /\ s.probation = 0 => s = src /\ src.probation = 0
      /\ src.probation = 0 => top \in Nat /\ base \in Nat
      /\ (s.probation = 0 /\ (q - s.max_seq) % SeqMod < MaxDropout)
           => p.n - top = (q - s.max_seq) % SeqMod
      /\ class \in {"probe", "first", "restart", "next", "resync"} => top' = p.n
      /\ class \in {"jump", "late"} => top' = top
      /\ class \in {"first", "resync"} => base' = p.n
      /\ class \in {"next", "jump", "late"} => base' = base
  BY Arriving DEF s, class
<1>2. /\ class \in {"probe", "first", "restart", "next", "resync", "jump", "late"}
      /\ class \in {"probe", "restart"} => src'.probation >= 1
      /\ class \in {"first", "resync"} => src'.received = 1
      /\ class \in {"next", "late", "jump"} => s.probation = 0
      /\ class = "next" => (q - s.max_seq) % SeqMod < MaxDropout
      /\ class = "next" => src'.received = s.received + 1
      /\ class = "late" => src'.received = s.received + 1
      /\ class = "jump" => src'.received = s.received
  BY <1>1, UpdateCases DEF class
<1>3. CASE class \in {"probe", "restart"}
  <2>1. src'.probation # 0
    BY <1>2, <1>3
  <2> QED
    BY <2>1 DEF LossInv
<1>4. CASE class \in {"first", "resync"}
  <2>1. top' = p.n /\ base' = p.n /\ missing' = {} /\ src'.received = 1
    BY <1>0, <1>1, <1>2, <1>4
  <2>2. Cardinality(missing') = 0
    BY <2>1, FS_EmptySet
  <2> QED
    BY <1>1, <2>1, <2>2 DEF LossInv
<1> DEFINE lack == Cardinality(missing)
<1>5. ASSUME class \in {"next", "jump", "late"}
      PROVE /\ s = src /\ src.probation = 0 /\ top \in Nat /\ base \in Nat
            /\ base <= top /\ missing \subseteq base + 1 .. top - 1
            /\ src.received \in Nat /\ lack \in Nat /\ IsFiniteSet(missing)
            /\ top - base + 1 - src.received <= lack /\ base' = base
  <2>1. /\ s = src /\ src.probation = 0 /\ top \in Nat /\ base \in Nat /\ base' = base
        /\ base <= top /\ missing \subseteq base + 1 .. top - 1
        /\ top - base + 1 - src.received <= lack
    BY <1>1, <1>2, <1>5 DEF LossInv
  <2>2. src.received \in Nat
    BY SourceFields DEF TypeOK
  <2>3. base + 1 \in Int /\ top - 1 \in Int
    BY <2>1
  <2>4. IsFiniteSet(missing) /\ lack \in Nat
    BY <2>1, <2>3, MissingFinite
  <2> QED
    BY <2>1, <2>2, <2>4
<1>6. CASE class = "next"
  <2>1. /\ s = src /\ src.probation = 0 /\ top \in Nat /\ base \in Nat
        /\ base <= top /\ missing \subseteq base + 1 .. top - 1
        /\ src.received \in Nat /\ lack \in Nat /\ top - base + 1 - src.received <= lack
        /\ base' = base /\ top' = p.n /\ src'.received = src.received + 1
        /\ missing' = missing \cup (top + 1 .. p.n - 1)
    BY <1>0, <1>1, <1>2, <1>5, <1>6
  <2>2. p.n >= top
    <3>1. (q - s.max_seq) % SeqMod \in Nat
      <4>1. q - s.max_seq \in Int
        BY <1>1, SourceFields DEF Seqs
      <4> QED
        BY <4>1, ModIsSeq DEF Seqs
    <3> QED
      BY <1>1, <1>2, <1>6, <2>1, <3>1
  <2> DEFINE newest == p.n
             gap == top + 1 .. newest - 1
  <2>3. newest \in Nat /\ newest >= top
    BY <1>1, <2>2
  <2> HIDE DEF newest
  <2>4. /\ top < newest => Cardinality(missing \cup gap) = Cardinality(missing) + (newest - top) - 1
        /\ top = newest => missing \cup gap = missing
    <3>1. missing \cap gap = {} /\ (top = newest => gap = {})
      BY <2>1, <2>3
    <3>2. IsFiniteSet(gap) /\ (top < newest => Cardinality(gap) = (newest - top) - 1)
      <4>1. top + 1 \in Int /\ newest - 1 \in Int
        BY <2>1, <2>3
      <4>2. /\ IsFiniteSet(gap)
            /\ Cardinality(gap) = IF top + 1 > newest - 1 THEN 0 ELSE newest - 1 - (top + 1) + 1
        BY <4>1, FS_Interval
      <4> HIDE DEF gap
      <4> QED
        BY <2>1, <2>3, <4>2
    <3>3. IsFiniteSet(missing)
      BY <1>5, <1>6
    <3>4. Cardinality(missing \cup gap) = Cardinality(missing) + Cardinality(gap)
      <4> HIDE DEF gap
      <4> QED
        BY <3>1, <3>2, <3>3, UnionCounts
    <3> QED
      BY <2>1, <2>3, <3>1, <3>2, <3>4
  <2>5. missing \cup gap \subseteq base + 1 .. newest - 1
    BY <2>1, <2>3
  <2> HIDE DEF gap
  <2>6. newest - base + 1 - (src.received + 1) <= Cardinality(missing \cup gap)
    <3>1. CASE top < newest
      BY <2>1, <2>3, <2>4, <3>1
    <3>2. CASE top = newest
      <4>1. Cardinality(missing \cup gap) = lack
        BY <2>4, <3>2
      <4> QED
        BY <2>1, <2>3, <3>2, <4>1
    <3> QED
      BY <2>1, <2>3, <3>1, <3>2
  <2>7. missing' = missing \cup gap /\ top' = newest /\ base' = base
    BY <2>1 DEF gap, newest
  <2>8. src'.received = src.received + 1 /\ base <= newest
    BY <2>1, <2>3
  <2>9. /\ base' <= top' /\ missing' \subseteq base' + 1 .. top' - 1
        /\ top' - base' + 1 - src'.received <= Cardinality(missing')
    BY <2>5, <2>6, <2>7, <2>8
  <2> QED
    BY <2>9 DEF LossInv
<1>7. CASE class = "late"
  <2>1. /\ top \in Nat /\ base \in Nat /\ base <= top /\ missing \subseteq base + 1 .. top - 1
        /\ src.received \in Nat /\ lack \in Nat /\ IsFiniteSet(missing)
        /\ top - base + 1 - src.received <= lack
        /\ base' = base /\ top' = top /\ src'.received = src.received + 1
        /\ missing' = missing \ {p.n}
    BY <1>0, <1>1, <1>2, <1>5, <1>7
  <2> DEFINE e == p.n
  <2> HIDE DEF e
  <2>2. Cardinality(missing \ {e}) = IF e \in missing THEN lack - 1 ELSE lack
    BY <2>1, FS_RemoveElement
  <2>3. top - base + 1 - (src.received + 1) <= Cardinality(missing \ {e})
    <3>1. Cardinality(missing \ {e}) \in Int /\ Cardinality(missing \ {e}) >= lack - 1
      BY <2>1, <2>2
    <3> HIDE DEF lack
    <3> QED
      BY <2>1, <3>1
  <2>4. missing' = missing \ {e}
    BY <2>1 DEF e
  <2> QED
    BY <2>1, <2>3, <2>4 DEF LossInv
<1>8. CASE class = "jump"
  <2>1. /\ top \in Nat /\ base \in Nat /\ base <= top /\ missing \subseteq base + 1 .. top - 1
        /\ top - base + 1 - src.received <= lack
        /\ base' = base /\ top' = top /\ src'.received = src.received
        /\ missing' = missing
    BY <1>0, <1>1, <1>2, <1>5, <1>8
  <2> QED
    BY <2>1 DEF LossInv
<1> QED
  BY <1>2, <1>3, <1>4, <1>6, <1>7, <1>8

(* No report claims more loss than there is: the packets between the first *)
(* the source counts and its newest that update_seq has not accepted,      *)
(* because they never arrived or were refused as a jump.  What arrives     *)
(* twice or late only lowers the number.                                   *)
THEOREM LossBounded == Spec => []LossNotOverstated
<1>1. Init => LossInv
  BY DEF Init, LossInv, NewSource
<1>2. ASSUME TypeOK, NumberInv, LossInv, [Next]_vars PROVE LossInv'
  <2>1. ASSUME NEW p \in flight, NEW again \in BOOLEAN, Arrive(p, again) PROVE LossInv'
    BY <1>2, <2>1, LossArrive
  <2>2. CASE UNCHANGED recvVars
    BY <1>2, <2>2 DEF recvVars, LossInv
  <2> QED
    BY <1>2, <2>1, <2>2 DEF Next, Begin, rtp_send_data, Lose, vars
<1>3. TypeOK /\ NumberInv /\ LossInv => LossNotOverstated
  <2> SUFFICES ASSUME TypeOK, NumberInv, LossInv, src.probation = 0
               PROVE lost(src) <= Cardinality(missing)
    BY DEF LossNotOverstated
  <2>1. /\ src.cycles + src.max_seq - src.base_seq = top - base
        /\ top \in Nat /\ base \in Nat
        /\ top - base + 1 - src.received <= Cardinality(missing)
    BY DEF NumberInv, ExtendedSpan, LossInv
  <2>2. lost(src) = top - base + 1 - src.received
    BY <2>1, SourceFields DEF lost, expected, TypeOK, Seqs
  <2> QED
    BY <2>1, <2>2
<1> QED
  BY <1>1, <1>2, <1>3, TypeInit, TypeStep, NumberInit, NumberStep, PTL DEF Spec

-----------------------------------------------------------------------------
(* What the depacketizer joins.  It has read up to the packet max_seq      *)
(* stands for, so the fragment it may append is the one sent next: still   *)
(* in the network, or still to be cut from the unit being sent.            *)

(* The packet goes on where byte `to` of unit `id` ends. *)
Follows(p, id, to) == p.id = id /\ p.from = to + 1

(* The unit being sent is that unit, sent up to byte `to`. *)
SentUpTo(id, to) ==
  /\ unit # NoUnit /\ medium = "avc" /\ unit.size > MaxPayload
  /\ unit.id = id /\ unit.size - unit.left = to

(* What comes after the packet of that number is the next piece. *)
GoesOn(number, id, to) ==
  /\ number + 1 = n => SentUpTo(id, to)
  /\ \A q \in flight : q.n = number + 1 => Follows(q, id, to)

FlightInv ==
  \A p \in flight :
    /\ p.n < n
    /\ p.end => p.to = p.size
    /\ ~p.end => GoesOn(p.n, p.id, p.to)

AssemblyInv ==
  asm # NoAssembly =>
    /\ asm.sound /\ src.probation = 0 /\ asm.seq = src.max_seq
    /\ top < n /\ GoesOn(top, asm.id, asm.to)

JoinInv == FlightInv /\ AssemblyInv /\ Rebuilt

(* The packet cut from the unit next: where it begins and ends, and that   *)
(* only the last fragment is marked as such.                               *)
LEMMA NextPacketJoins ==
  ASSUME TypeOK, UnitInv, unit # NoUnit, NEW p, p = NextPacket(unit)
  PROVE /\ p.id = unit.id
        /\ p.end <=> p.to = p.size
        /\ \A id, to : SentUpTo(id, to) => Follows(p, id, to)
        /\ ~p.end => medium = "avc" /\ unit.size > MaxPayload
<1> DEFINE from == unit.size - unit.left + 1
           to == IF MoreToCome(unit.left) THEN from + MaxPayload - 3 ELSE unit.size
<1>1. unit \in Units /\ unit.left \in 0 .. unit.size /\ unit.size >= 1
  BY DEF TypeOK, UnitInv
<1>2. CASE medium = "aac"
  <2>1. p = Packet(unit, 4, 1, unit.size, TRUE, TRUE) /\ medium # "avc"
    BY <1>2 DEF NextPacket
  <2> QED
    BY <2>1 DEF Packet, SentUpTo
<1>3. CASE medium = "avc" /\ unit.size <= MaxPayload
  <2>1. p = Packet(unit, 0, 1, unit.size, TRUE, TRUE) /\ ~(unit.size > MaxPayload)
    BY <1>1, <1>3, Constants DEF NextPacket, Units
  <2> QED
    BY <2>1 DEF Packet, SentUpTo
<1>4. CASE medium = "avc" /\ unit.size > MaxPayload
  <2>0. medium # "aac" /\ ~(unit.size <= MaxPayload)
    BY <1>1, <1>4, Constants DEF Units
  <2>1. p = Packet(unit, 2, from, to, StartBit(unit), EndBit(unit))
    BY <2>0 DEF NextPacket
  <2>2. p.id = unit.id /\ p.size = unit.size /\ p.from = from /\ p.to = to /\ p.end = EndBit(unit)
    BY <2>1 DEF Packet
  <2>3. EndBit(unit) <=> to = unit.size
    BY <1>1, Constants DEF EndBit, MoreToCome, Units
  <2>4. \A i, t : SentUpTo(i, t) => Follows(p, i, t)
    BY <2>2 DEF SentUpTo, Follows
  <2> QED
    BY <1>4, <2>2, <2>3, <2>4
<1> QED
  BY <1>1, <1>2, <1>3, <1>4, Constants DEF TypeOK, Units

(* A send cuts the piece that goes on.                                     *)
LEMMA JoinSend ==
  ASSUME TypeOK, UnitInv, JoinInv, NEW ok \in BOOLEAN, rtp_send_data(ok)
  PROVE JoinInv'
<1>0. PICK p : p = NextPacket(unit)
  OBVIOUS
<1>1. /\ unit # NoUnit /\ unit \in Units /\ n \in Nat /\ n' = n + 1 /\ medium' = medium
      /\ p \in Packets /\ p.n = n /\ p.size = unit.size /\ p.to <= unit.size
      /\ flight' \subseteq flight \cup {p} /\ UNCHANGED recvVars
      /\ unit' = IF p.to = p.size THEN NoUnit ELSE [unit EXCEPT !.left = unit.size - p.to]
  BY <1>0, NextPacketFits DEF rtp_send_data, TypeOK
<1>2. /\ p.id = unit.id
      /\ p.end <=> p.to = p.size
      /\ \A id, to : SentUpTo(id, to) => Follows(p, id, to)
      /\ ~p.end => medium = "avc" /\ unit.size > MaxPayload
  BY <1>0, <1>1, NextPacketJoins
<1>3. ASSUME ~p.end PROVE SentUpTo(p.id, p.to)'
  <2>1. unit' = [unit EXCEPT !.left = unit.size - p.to]
    BY <1>1, <1>2, <1>3
  <2>2. unit.size - p.to \in Nat /\ unit.size \in Nat /\ p.to \in Nat /\ unit.id \in Nat
    BY <1>1 DEF Units, Packets
  <2>3. unit'.id = unit.id /\ unit'.size = unit.size /\ unit'.left = unit.size - p.to
    BY <1>1, <2>1 DEF Units
  <2>4. unit' # NoUnit
    BY <2>2, <2>3 DEF NoUnit, Nobody
  <2>5. unit'.size - unit'.left = p.to
    BY <2>2, <2>3
  <2> QED
    BY <1>1, <1>2, <1>3, <2>3, <2>4, <2>5 DEF SentUpTo
<1>4. \A r \in flight : r.n \in Nat /\ r.n < n
  BY DEF TypeOK, Packets, JoinInv, FlightInv
<1>5. ASSUME NEW number \in Int, number < n, NEW id, NEW to, GoesOn(number, id, to)
      PROVE GoesOn(number, id, to)'
  <2>1. number + 1 # n'
    BY <1>1, <1>5
  <2>2. ASSUME NEW q \in flight', q.n = number + 1 PROVE Follows(q, id, to)
    <3>1. CASE q \in flight
      BY <1>5, <2>2, <3>1 DEF GoesOn
    <3>2. CASE q = p
      <4>1. SentUpTo(id, to)
        BY <1>1, <1>5, <2>2, <3>2 DEF GoesOn
      <4> QED
        BY <1>2, <3>2, <4>1
    <3> QED
      BY <1>1, <3>1, <3>2
  <2> QED
    BY <2>1, <2>2 DEF GoesOn, Follows
<1>6. ASSUME ~p.end PROVE GoesOn(p.n, p.id, p.to)'
  <2>1. \A q \in flight' : q.n # p.n + 1
    BY <1>1, <1>4
  <2> QED
    BY <1>3, <1>6, <2>1 DEF GoesOn
<1>7. FlightInv'
  <2>0. SUFFICES ASSUME NEW r \in flight'
               PROVE /\ r.n < n'
                     /\ r.end => r.to = r.size
                     /\ ~r.end => GoesOn(r.n, r.id, r.to)'
    BY DEF FlightInv, GoesOn, Follows
  <2>1. CASE r \in flight
    <3>1. /\ r.n \in Int /\ r.n < n
          /\ r.end => r.to = r.size
          /\ ~r.end => GoesOn(r.n, r.id, r.to)
      BY <1>4, <2>1 DEF JoinInv, FlightInv
    <3> QED
      BY <1>1, <1>5, <3>1
  <2>2. CASE r = p
    BY <1>1, <1>2, <1>6, <2>2
  <2> QED
    BY <1>1, <2>1, <2>2
<1>8. AssemblyInv'
  <2>0. PICK a, b : a = asm /\ b = top
    OBVIOUS
  <2>1. asm' = a /\ top' = b /\ src' = src
    BY <1>1, <2>0 DEF recvVars
  <2>2. SUFFICES ASSUME a # NoAssembly
                 PROVE /\ a.sound /\ src.probation = 0 /\ a.seq = src.max_seq
                       /\ b < n' /\ GoesOn(b, a.id, a.to)'
    BY <2>1 DEF AssemblyInv, GoesOn
  <2>3. /\ a.sound /\ src.probation = 0 /\ a.seq = src.max_seq
        /\ b < n /\ GoesOn(b, a.id, a.to)
    BY <2>0, <2>2 DEF JoinInv, AssemblyInv
  <2>4. b \in Int
    BY <2>0 DEF TypeOK, Nobody
  <2> QED
    BY <1>1, <1>5, <2>3, <2>4
<1> QED
  BY <1>1, <1>7, <1>8 DEF JoinInv, Rebuilt, recvVars

(* The number after a sequence number is at distance one from it.          *)
LEMMA NextDistance ==
  ASSUME NEW q \in Seqs PROVE (((q + 1) % SeqMod) - q) % SeqMod = 1
<1>1. (q + 1) % SeqMod = IF q + 1 = SeqMod THEN 0 ELSE q + 1
  BY ModNext
<1>2. SeqMod \in Nat /\ SeqMod > 1 /\ q \in Nat /\ q < SeqMod
  BY Constants DEF Seqs
<1>3. (q + 1) % SeqMod \in Seqs
  BY <1>1, <1>2 DEF Seqs
<1> DEFINE r == (q + 1) % SeqMod
<1>4. (r - q) % SeqMod = IF r >= q THEN r - q ELSE r - q + SeqMod
  BY <1>3, ModDistance
<1>5. r = IF q + 1 = SeqMod THEN 0 ELSE q + 1
  BY <1>1
<1> HIDE DEF r
<1>6. (r - q) % SeqMod = 1
  BY <1>2, <1>4, <1>5
<1> QED
  BY <1>6 DEF r

(* What an arrival leaves in the network says what went before.            *)
LEMMA JoinFlight ==
  ASSUME TypeOK, JoinInv, NEW p \in flight, NEW again \in BOOLEAN, Arrive(p, again)
  PROVE /\ FlightInv'
        /\ \A number, id, to : GoesOn(number, id, to) => GoesOn(number, id, to)'
<1> DEFINE copy == [p EXCEPT !.again = TRUE]
<1>1. /\ copy.n = p.n /\ copy.id = p.id /\ copy.from = p.from /\ copy.to = p.to
      /\ copy.size = p.size /\ copy.end = p.end
  BY DEF TypeOK, Packets
<1>2. flight' \subseteq flight \cup {copy} /\ n' = n /\ unit' = unit /\ medium' = medium
  BY DEF Arrive, sendVars
<1> HIDE DEF copy
<1>3. \A r \in flight' : \E o \in flight :
        /\ r.n = o.n /\ r.id = o.id /\ r.from = o.from /\ r.to = o.to
        /\ r.size = o.size /\ r.end = o.end
  BY <1>1, <1>2
<1>4. ASSUME NEW number, NEW id, NEW to, GoesOn(number, id, to) PROVE GoesOn(number, id, to)'
  BY <1>2, <1>3, <1>4 DEF GoesOn, SentUpTo, Follows
<1>5. ASSUME NEW r \in flight'
      PROVE /\ r.n < n
            /\ r.end => r.to = r.size
            /\ ~r.end => GoesOn(r.n, r.id, r.to)'
  <2>1. PICK o \in flight : /\ r.n = o.n /\ r.id = o.id /\ r.from = o.from /\ r.to = o.to
                            /\ r.size = o.size /\ r.end = o.end
    BY <1>3, <1>5
  <2>2. /\ o.n < n
        /\ o.end => o.to = o.size
        /\ ~o.end => GoesOn(o.n, o.id, o.to)
    BY DEF JoinInv, FlightInv
  <2> QED
    BY <1>4, <2>1, <2>2
<1>6. FlightInv'
  BY <1>2, <1>5 DEF FlightInv
<1> QED
  BY <1>4, <1>6

(* An arrival appends the fragment that goes on, or drops what is there.   *)
LEMMA JoinArrive ==
  ASSUME TypeOK, NumberInv, JoinInv, NEW p \in flight, NEW again \in BOOLEAN, Arrive(p, again)
  PROVE JoinInv'
<1> DEFINE q == p.seq
<1>0. PICK s, class : s = Started(src, q) /\ class = Class(s, q)
  OBVIOUS
<1>1. /\ p.n \in Nat /\ q \in Seqs /\ s \in Source /\ s.probation # -1
      /\ src' = update_seq(s, q)
      /\ s.probation = 0 => s = src /\ src.probation = 0
      /\ (s.probation = 0 /\ (q - s.max_seq) % SeqMod < MaxDropout)
           => p.n - top = (q - s.max_seq) % SeqMod
      /\ class \in {"probe", "first", "restart", "next", "resync"} => top' = p.n
      /\ class \in {"jump", "late"} => top' = top
  BY <1>0, Arriving
<1>2. /\ class \in {"probe", "first", "restart", "next", "resync", "jump", "late"}
      /\ class \in {"first", "resync"} => src'.probation = 0 /\ src'.max_seq = q
      /\ class \in {"next", "late", "jump"} => s.probation = 0 /\ src'.probation = 0
      /\ class = "next" => (q - s.max_seq) % SeqMod < MaxDropout
      /\ class = "resync" => s.probation = 0 /\ (q - s.max_seq) % SeqMod >= MaxDropout
      /\ class = "next" => src'.max_seq = q
      /\ class \in {"late", "jump"} => src'.max_seq = s.max_seq
  BY <1>0, <1>1, UpdateCases
<1>3. /\ src.probation = 0 => s.probation = 0
      /\ class \in {"probe", "first", "restart"} => s.probation # 0
  <2>1. src.probation = 0 => s = src
    BY <1>0 DEF Started
  <2>2. class \in {"probe", "first", "restart"} => s.probation # 0
    BY <1>0 DEF Class
  <2> QED
    BY <2>1, <2>2
<1>4. /\ FlightInv'
      /\ \A number, id, to : GoesOn(number, id, to) => GoesOn(number, id, to)'
  BY JoinFlight
<1>5. /\ p.n < n /\ n' = n
      /\ p.end => p.to = p.size
      /\ ~p.end => GoesOn(p.n, p.id, p.to)
  BY DEF JoinInv, FlightInv, Arrive, sendVars
<1>6. IF Newer(class, q) THEN Depacketize(p) ELSE UNCHANGED <<asm, rebuilt, wrong>>
  BY <1>0 DEF Arrive
<1>7. asm # NoAssembly =>
        /\ asm.sound /\ src.probation = 0 /\ asm.seq = src.max_seq
        /\ top < n /\ GoesOn(top, asm.id, asm.to)
  BY DEF JoinInv, AssemblyInv
<1>8. ASSUME Newer(class, q) PROVE src'.probation = 0 /\ src'.max_seq = q /\ top' = p.n
  BY <1>1, <1>2, <1>8 DEF Newer
<1>9. CASE ~Newer(class, q)
  <2>1. wrong' = wrong /\ asm' = asm
    BY <1>6, <1>9
  <2>2. ASSUME asm # NoAssembly
        PROVE top' = top /\ src'.probation = 0 /\ src'.max_seq = src.max_seq
    <3>1. s = src /\ s.probation = 0 /\ class \in {"next", "jump", "late"}
      BY <1>1, <1>2, <1>3, <1>7, <1>9, <2>2 DEF Newer
    <3>2. CASE class = "next"
      <4>1. q = src.max_seq
        BY <1>9, <3>2 DEF Newer
      <4>2. (q - q) % SeqMod = 0
        BY <1>1, ModDistance DEF Seqs
      <4>3. p.n - top = 0 /\ top \in Int
        BY <1>1, <1>2, <3>1, <3>2, <4>1, <4>2 DEF TypeOK, Nobody
      <4> QED
        BY <1>1, <1>2, <3>2, <4>1, <4>3
    <3> QED
      BY <1>1, <1>2, <3>1, <3>2
  <2>3. AssemblyInv'
    <3>0. PICK a, b : a = asm /\ b = top
      OBVIOUS
    <3>1. asm' = a
      BY <2>1, <3>0
    <3>2. SUFFICES ASSUME a # NoAssembly
                   PROVE /\ a.sound /\ src'.probation = 0 /\ a.seq = src'.max_seq
                         /\ top' < n' /\ GoesOn(top, a.id, a.to)'
      BY <3>1 DEF AssemblyInv
    <3>3. top' = b
      BY <2>2, <3>0, <3>2
    <3>4. GoesOn(b, a.id, a.to)'
      BY <1>4, <1>7, <3>0, <3>2
    <3> QED
      BY <1>5, <1>7, <2>2, <3>0, <3>2, <3>3, <3>4 DEF GoesOn
  <2> QED
    BY <1>4, <2>1, <2>3 DEF JoinInv, Rebuilt
<1>10. CASE Newer(class, q)
  <2>0. PICK a : a = Extended(p)
    OBVIOUS
  <2>1. IF p.end /\ a.id # Nobody
        THEN wrong' = (wrong \/ ~(a.sound /\ a.to = p.size)) /\ asm' = NoAssembly
        ELSE asm' = a /\ wrong' = wrong
    BY <1>6, <1>10, <2>0 DEF Depacketize
  <2>2. a # NoAssembly => a.sound /\ a.seq = q /\ a.id = p.id /\ a.to = p.to
    <3>1. CASE p.start
      BY <2>0, <3>1 DEF Extended
    <3>2. CASE ~p.start /\ asm.id # Nobody /\ q = (asm.seq + 1) % SeqMod
      <4>1. asm # NoAssembly /\ asm \in Assemblies
        BY <3>2 DEF NoAssembly, TypeOK
      <4>2. s = src /\ s.probation = 0 /\ class \in {"next", "resync"}
        BY <1>1, <1>2, <1>3, <1>7, <1>10, <4>1 DEF Newer
      <4>3. src.max_seq \in Seqs
        BY SourceFields DEF TypeOK
      <4>4. (q - s.max_seq) % SeqMod = 1
        BY <1>7, <3>2, <4>1, <4>2, <4>3, NextDistance
      <4>5. p.n = top + 1
        <5>0. class = "next"
          BY <1>2, <4>2, <4>4, Constants
        <5>1. p.n - top = 1 /\ top \in Int
          BY <1>1, <1>2, <4>2, <4>4, <5>0 DEF TypeOK, Nobody
        <5> QED
          BY <1>1, <5>1
      <4>6. Follows(p, asm.id, asm.to)
        BY <1>7, <4>1, <4>5 DEF GoesOn
      <4>7. a = [asm EXCEPT !.to = p.to, !.seq = p.seq,
                   !.sound = asm.sound /\ p.id = asm.id /\ p.from = asm.to + 1]
        BY <2>0, <3>2 DEF Extended
      <4> QED
        BY <1>7, <4>1, <4>6, <4>7 DEF Follows, Assemblies
    <3>3. CASE ~p.start /\ ~(asm.id # Nobody /\ q = (asm.seq + 1) % SeqMod)
      BY <2>0, <3>3 DEF Extended
    <3> QED
      BY <3>1, <3>2, <3>3
  <2>3. ~wrong'
    <3>1. a.id # Nobody => a # NoAssembly
      BY DEF NoAssembly
    <3>2. ~wrong
      BY DEF JoinInv, Rebuilt
    <3>3. CASE p.end /\ a.id # Nobody
      <4>1. wrong' = (wrong \/ ~(a.sound /\ a.to = p.size))
        BY <2>1, <3>3
      <4>2. a.sound /\ a.to = p.size
        BY <1>5, <2>2, <3>1, <3>3
      <4> QED
        BY <3>2, <4>1, <4>2
    <3>4. CASE ~(p.end /\ a.id # Nobody)
      <4>1. wrong' = wrong
        BY <2>1, <3>4
      <4> QED
        BY <3>2, <4>1
    <3> QED
      BY <3>3, <3>4
  <2>4. AssemblyInv'
    <3>0. SUFFICES ASSUME asm' # NoAssembly
                   PROVE /\ asm'.sound /\ src'.probation = 0 /\ asm'.seq = src'.max_seq
                         /\ top' < n' /\ GoesOn(top, asm.id, asm.to)'
      BY DEF AssemblyInv
    <3>1. asm' = a /\ a # NoAssembly
      BY <2>1, <3>0
    <3>2. ~p.end
      <4>1. p.id # Nobody
        BY DEF TypeOK, Packets, Nobody
      <4> QED
        BY <2>1, <2>2, <3>0, <3>1, <4>1
    <3>3. GoesOn(p.n, a.id, a.to)'
      BY <1>4, <1>5, <2>2, <3>1, <3>2
    <3> QED
      BY <1>5, <1>8, <1>10, <2>2, <3>1, <3>3 DEF GoesOn
  <2> QED
    BY <1>4, <2>3, <2>4 DEF JoinInv, Rebuilt
<1> QED
  BY <1>9, <1>10

(* Every step keeps the fragments of the network and of the depacketizer   *)
(* in line.                                                                *)
LEMMA JoinStep ==
  TypeOK /\ UnitInv /\ NumberInv /\ JoinInv /\ [Next]_vars => JoinInv'
<1> SUFFICES ASSUME TypeOK, UnitInv, NumberInv, JoinInv, [Next]_vars PROVE JoinInv'
  OBVIOUS
<1>1. ASSUME NEW size \in Sizes, Begin(size) PROVE JoinInv'
  <2>1. UNCHANGED <<medium, n, flight, src, top, asm, wrong>> /\ unit = NoUnit
    BY <1>1 DEF Begin, recvVars
  <2>2. ASSUME NEW number, NEW id, NEW to, GoesOn(number, id, to)
        PROVE GoesOn(number, id, to)'
    BY <2>1, <2>2 DEF GoesOn, SentUpTo, Follows
  <2>3. FlightInv'
    <3> SUFFICES ASSUME NEW r \in flight
                 PROVE /\ r.n < n
                       /\ r.end => r.to = r.size
                       /\ ~r.end => GoesOn(r.n, r.id, r.to)'
      BY <2>1 DEF FlightInv
    <3> QED
      BY <2>2 DEF JoinInv, FlightInv
  <2>4. AssemblyInv'
    <3>0. PICK a, b : a = asm /\ b = top
      OBVIOUS
    <3>1. SUFFICES ASSUME a # NoAssembly
                   PROVE /\ a.sound /\ src.probation = 0 /\ a.seq = src.max_seq
                         /\ b < n /\ GoesOn(b, a.id, a.to)'
      BY <2>1, <3>0 DEF AssemblyInv, GoesOn, SentUpTo, Follows
    <3> QED
      BY <2>2, <3>0, <3>1 DEF JoinInv, AssemblyInv
  <2> QED
    BY <2>1, <2>3, <2>4 DEF JoinInv, Rebuilt
<1>2. ASSUME NEW ok \in BOOLEAN, rtp_send_data(ok) PROVE JoinInv'
  BY <1>2, JoinSend
<1>3. ASSUME NEW p \in flight, Lose(p) PROVE JoinInv'
  <2>1. UNCHANGED <<medium, n, unit, src, top, asm, wrong>> /\ flight' \subseteq flight
    BY <1>3 DEF Lose, sendVars, recvVars
  <2> QED
    BY <2>1 DEF JoinInv, FlightInv, AssemblyInv, Rebuilt, GoesOn, SentUpTo, Follows
<1>4. ASSUME NEW p \in flight, NEW again \in BOOLEAN, Arrive(p, again) PROVE JoinInv'
  BY <1>4, JoinArrive
<1>5. CASE UNCHANGED vars
  BY <1>5 DEF vars, sendVars, recvVars, JoinInv, FlightInv, AssemblyInv, Rebuilt, GoesOn,
              SentUpTo, Follows
<1> QED
  BY <1>1, <1>2, <1>3, <1>4, <1>5 DEF Next

(* For every size of unit and of packet, whatever is lost, late, doubled   *)
(* or fails to be sent: no NAL unit is handed to the decoder that is not   *)
(* byte for byte one the sender cut up.                                    *)
THEOREM NothingMixedUp == Spec => []Rebuilt
<1>1. Init => JoinInv
  BY DEF Init, JoinInv, FlightInv, AssemblyInv, Rebuilt
<1>2. JoinInv => Rebuilt
  BY DEF JoinInv
<1> QED
  BY <1>1, <1>2, TypeInit, TypeStep, NumberInit, NumberStep, JoinStep, PTL DEF Spec

-----------------------------------------------------------------------------
(* Nothing is withheld.  A unit is named after its first packet, so the     *)
(* place of a packet in its unit is its number less the name of the unit.  *)

Seen == flight \cup ({got} \ {NoPacket})

(* The unit the packet after r belongs to. *)
UnitAfter(r) == IF r.end THEN r.n + 1 ELSE r.id

(* What the packet after r is, in the network or still to be cut.          *)
HasNext(r) ==
  /\ r.n + 1 = n => IF unit = NoUnit THEN r.end ELSE unit.id = UnitAfter(r)
  /\ \A q \in flight : q.n = r.n + 1 => q.id = UnitAfter(r)

(* A packet's place, its marks and its number.                             *)
Placed(r) ==
  /\ r.id <= r.n /\ r.n < n
  /\ r.start <=> r.n = r.id
  /\ r.end <=> r.to = r.size
  /\ r.end => r.n - r.id + 1 <= Pieces(r.size)
  /\ Multiple((r.n - r.seq) - (n - seq))

(* How far the unit being sent has got.                                    *)
ProgressInv ==
  unit # NoUnit =>
    /\ unit.id <= n
    /\ IF medium = "avc" /\ unit.size > MaxPayload
       THEN unit.left >= 1 /\ unit.size - unit.left = 1 + (n - unit.id) * (MaxPayload - 2)
       ELSE unit.id = n

PlaceInv == ProgressInv /\ \A r \in Seen : Placed(r) /\ HasNext(r)

(* What the source may be after a packet that is not late.                 *)
Synced == src.probation = 0 /\ src.max_seq = got.seq
Jumped == src.probation = 0 /\ src.bad_seq = (got.seq + 1) % SeqMod
Probing == src.probation = 1 /\ src.max_seq = got.seq

(* A source is in step after three packets in a row: two are a probation,  *)
(* and 0 does not follow 65535 for a source on probation.                  *)
SyncInv ==
  /\ run >= 1 => got # NoPacket /\ (Synced \/ Jumped \/ Probing)
  /\ run >= 2 => Synced \/ (Probing /\ got.seq = 0)
  /\ run >= 3 => Synced

(* In step since the unit began, the depacketizer has all of it so far.    *)
HandedInv ==
  (got # NoPacket /\ run >= 3 + (got.n - got.id)) =>
    IF got.end THEN rebuilt = got.id ELSE asm.id # Nobody /\ asm.seq = got.seq

DeliverInv == PlaceInv /\ SyncInv /\ HandedInv

(* One fragment more. *)
LEMMA OneMore ==
  ASSUME NEW k \in Nat \ {0}, NEW m \in Nat
  PROVE  m * k \in Nat /\ (m + 1) * k = m * k + k /\ (m * k = 0 <=> m = 0)
<1>1. m * k \in Nat /\ (m + 1) * k = m * k + k
  OBVIOUS
<1>2. CASE m = 0
  BY <1>1, <1>2
<1>3. CASE m # 0
  <2>1. PICK j \in Nat : m = j + 1
    BY <1>3
  <2>2. j * k \in Nat /\ m * k = j * k + k
    BY <2>1
  <2> QED
    BY <1>1, <2>2, <1>3
<1> QED
  BY <1>2, <1>3, <1>1

(* What does not fit m fragments takes more of them. *)
LEMMA TakesMore ==
  ASSUME NEW k \in Nat \ {0}, NEW m \in Nat, NEW a \in Nat, a > m * k
  PROVE  m + 1 <= (a + k - 1) \div k
<1> DEFINE b == a + k - 1
           d == b \div k
<1>1. b \in Nat /\ b >= (m + 1) * k
  BY OneMore
<1>2. d \in Int /\ b < (d + 1) * k
  <2>1. d \in Int /\ d * k <= b /\ b < d * k + k
    BY <1>1
  <2> QED
    BY <2>1
<1>3. ASSUME d <= m PROVE FALSE
  <2>1. PICK j \in Nat : m = d + j
    BY <1>2, <1>3
  <2>2. (m + 1) * k = (d + 1) * k + j * k /\ j * k >= 0
    BY <1>2, <2>1
  <2> HIDE DEF b, d
  <2> QED
    BY <1>1, <1>2, <2>2
<1> HIDE DEF d
<1> QED
  BY <1>2, <1>3 DEF d

(* One call of rtp_send_data more: the numbers are still in step.          *)
LEMMA NumberShift ==
  ASSUME n \in Nat, seq \in Seqs, n' = n + 1, seq' = (seq + 1) % SeqMod,
         NEW a \in Int, Multiple(a - (n - seq))
  PROVE Multiple(a - (n' - seq'))
<1> DEFINE u == a - (n - seq)
<1>1. u \in Int /\ Multiple(u) /\ SeqMod \in Int
  BY Constants DEF Seqs
<1>2. a - (n' - seq') = u \/ a - (n' - seq') = u - SeqMod
  BY ModNext, Constants DEF Seqs
<1> HIDE DEF u
<1>3. Multiple(u) /\ Multiple(u - SeqMod)
  BY <1>1, MultipleSum, MultipleUnits
<1> QED
  BY <1>2, <1>3

(* The packet cut next: its place in the unit, and what is left.           *)
LEMMA NextPacketPlace ==
  ASSUME TypeOK, UnitInv, ProgressInv, unit # NoUnit, NEW p, p = NextPacket(unit)
  PROVE /\ p.id <= n
        /\ p.start <=> n = p.id
        /\ p.end <=> p.to = p.size
        /\ p.end => n - p.id + 1 <= Pieces(p.size)
        /\ ~p.end =>
             /\ medium = "avc" /\ unit.size > MaxPayload
             /\ unit.size - p.to >= 1 /\ p.to = 1 + (n + 1 - unit.id) * (MaxPayload - 2)
<1> DEFINE from == unit.size - unit.left + 1
           to == IF MoreToCome(unit.left) THEN from + MaxPayload - 3 ELSE unit.size
<1>1. /\ unit \in Units /\ unit.left \in 0 .. unit.size /\ unit.size >= 1
      /\ unit.id \in Nat /\ unit.size \in Nat /\ unit.left \in Nat
      /\ n \in Nat /\ unit.id <= n
  BY DEF TypeOK, UnitInv, ProgressInv, Units
<1>a. PICK k \in Nat \ {0} : k = MaxPayload - 2
  BY Constants
<1>b. PICK m \in Nat : m = n - unit.id
  BY <1>1
<1>c. PICK mk \in Nat : mk = m * k /\ (m + 1) * k = mk + k /\ (mk = 0 <=> m = 0)
  BY OneMore
<1>2. CASE medium = "aac"
  <2>1. p = Packet(unit, 4, 1, unit.size, TRUE, TRUE) /\ unit.id = n
    BY <1>2 DEF NextPacket, ProgressInv
  <2>2. p.id = n /\ p.start /\ p.end /\ p.to = p.size /\ Pieces(p.size) = 1
    BY <1>2, <2>1 DEF Packet, Pieces
  <2> QED
    BY <1>1, <2>2
<1>3. CASE medium = "avc" /\ unit.size <= MaxPayload
  <2>1. ~(unit.size > MaxPayload)
    BY <1>1, <1>3, Constants
  <2>2. p = Packet(unit, 0, 1, unit.size, TRUE, TRUE) /\ unit.id = n
    BY <1>3, <2>1 DEF NextPacket, ProgressInv
  <2>3. p.id = n /\ p.start /\ p.end /\ p.to = p.size /\ Pieces(p.size) = 1
    BY <1>3, <2>2 DEF Packet, Pieces
  <2> QED
    BY <1>1, <2>3
<1>4. CASE medium = "avc" /\ unit.size > MaxPayload
  <2>0. medium # "aac" /\ ~(unit.size <= MaxPayload)
    BY <1>1, <1>4, Constants
  <2>1. p = Packet(unit, 2, from, to, StartBit(unit), EndBit(unit))
    BY <2>0 DEF NextPacket
  <2>2. /\ p.id = unit.id /\ p.size = unit.size /\ p.to = to
        /\ p.start = StartBit(unit) /\ p.end = EndBit(unit)
    BY <2>1 DEF Packet
  <2>3. unit.left >= 1 /\ unit.size - unit.left = 1 + mk
    BY <1>a, <1>b, <1>c, <1>4 DEF ProgressInv
  <2>5. MoreToCome(unit.left) <=> unit.left > k
    BY <1>1, <1>a, Constants DEF MoreToCome
  <2>6. p.start <=> n = p.id
    <3>1. StartBit(unit) <=> mk = 0
      BY <1>1, <2>3 DEF StartBit
    <3>2. n = unit.id <=> m = 0
      BY <1>1, <1>b
    <3> HIDE DEF from, to
    <3> QED
      BY <1>c, <2>2, <3>1, <3>2
  <2>7. p.end <=> to = unit.size
    <3>1. EndBit(unit) <=> to = unit.size
      BY <1>1, Constants DEF EndBit, MoreToCome
    <3> QED
      BY <2>2, <3>1
  <2>8. ASSUME p.end PROVE n - p.id + 1 <= Pieces(p.size)
    <3>1. Pieces(p.size) = (unit.size - 1 + MaxPayload - 3) \div (MaxPayload - 2)
      BY <2>0, <2>2 DEF Pieces
    <3>2. unit.size - 1 \in Nat /\ unit.size - 1 > m * k
      BY <1>1, <1>c, <2>3
    <3>3. m + 1 <= (unit.size - 1 + k - 1) \div k
      BY <3>2, TakesMore
    <3>4. unit.size - 1 + MaxPayload - 3 = unit.size - 1 + k - 1
      BY <1>1, <1>a, Constants
    <3>5. n - p.id + 1 = m + 1
      BY <1>1, <1>b, <2>2
    <3> QED
      BY <1>a, <3>1, <3>3, <3>4, <3>5
  <2>9. ASSUME ~p.end
        PROVE unit.size - p.to >= 1 /\ p.to = 1 + (n + 1 - unit.id) * (MaxPayload - 2)
    <3>1. MoreToCome(unit.left)
      BY <2>2, <2>9 DEF EndBit
    <3>2. to = from + MaxPayload - 3 /\ unit.left > k
      BY <2>5, <3>1
    <3>3. from = 2 + mk
      BY <1>1, <2>3
    <3>4. to = 1 + mk + k
      BY <1>a, <3>2, <3>3, Constants
    <3>5. (n + 1 - unit.id) * (MaxPayload - 2) = mk + k
      <4>1. n + 1 - unit.id = m + 1
        BY <1>1, <1>b
      <4> QED
        BY <1>a, <1>c, <4>1
    <3>6. unit.size - to >= 1
      BY <1>1, <2>3, <3>2, <3>4
    <3> QED
      BY <2>2, <3>4, <3>5, <3>6
  <2> QED
    BY <1>1, <1>4, <2>2, <2>6, <2>7, <2>8, <2>9
<1> QED
  BY <1>1, <1>2, <1>3, <1>4, Constants DEF TypeOK

(* The packets seen are packets.                                           *)
LEMMA SeenTyped ==
  ASSUME TypeOK, NEW r \in Seen
  PROVE /\ r \in Packets /\ r.n \in Nat /\ r.id \in Nat /\ r.seq \in Seqs
        /\ r.to \in Nat /\ r.size \in Nat /\ r.start \in BOOLEAN /\ r.end \in BOOLEAN
<1>1. r \in Packets
  BY DEF Seen, TypeOK
<1> QED
  BY <1>1 DEF Packets, Seqs

(* A unit begins behind the last packet of the one before.                 *)
LEMMA PlaceBegin ==
  ASSUME TypeOK, PlaceInv, NEW size \in Sizes, Begin(size)
  PROVE PlaceInv'
<1>1. /\ unit = NoUnit /\ UNCHANGED <<medium, seq, n, flight, got>> /\ Seen' = Seen
      /\ n \in Nat /\ size \in Nat /\ size >= 1
      /\ unit' = [id |-> n, size |-> size,
                  left |-> IF medium = "avc" /\ size > MaxPayload THEN size - 1 ELSE size]
  BY Constants DEF Begin, recvVars, Seen, TypeOK
<1>2. /\ unit'.id = n /\ unit'.size = size /\ unit' # NoUnit
      /\ unit'.left = IF medium = "avc" /\ size > MaxPayload THEN size - 1 ELSE size
  BY <1>1 DEF NoUnit, Nobody
<1>3. ProgressInv'
  <2>1. CASE medium = "avc" /\ size > MaxPayload
    <3>1. size - 1 >= 1 /\ size - (size - 1) = 1 + (n - n) * (MaxPayload - 2)
      BY <1>1, <2>1, Constants
    <3> QED
      BY <1>1, <1>2, <2>1, <3>1 DEF ProgressInv
  <2>2. CASE ~(medium = "avc" /\ size > MaxPayload)
    BY <1>1, <1>2, <2>2 DEF ProgressInv
  <2> QED
    BY <2>1, <2>2
<1>4. ASSUME NEW r \in Seen PROVE Placed(r)' /\ HasNext(r)'
  <2>1. Placed(r) /\ HasNext(r)
    BY DEF PlaceInv
  <2>2. Placed(r)'
    BY <1>1, <2>1 DEF Placed, Pieces
  <2>3. r.n + 1 = n => unit'.id = UnitAfter(r)
    BY <1>1, <1>2, <2>1 DEF HasNext, UnitAfter
  <2> QED
    BY <1>1, <1>2, <2>1, <2>2, <2>3 DEF HasNext, UnitAfter
<1> QED
  BY <1>1, <1>3, <1>4 DEF PlaceInv

(* A packet is cut behind the one before.                                  *)
LEMMA PlaceSend ==
  ASSUME TypeOK, UnitInv, PlaceInv, NEW ok \in BOOLEAN, rtp_send_data(ok)
  PROVE PlaceInv'
<1>0. PICK p : p = NextPacket(unit)
  OBVIOUS
<1>1. /\ unit # NoUnit /\ unit \in Units /\ n \in Nat /\ n' = n + 1 /\ medium' = medium
      /\ p \in Packets /\ p.n = n /\ p.size = unit.size /\ p.to <= unit.size
      /\ seq \in Seqs /\ p.seq = seq /\ seq' = (seq + 1) % SeqMod
      /\ flight' \subseteq flight \cup {p} /\ got' = got
      /\ unit' = IF p.to = p.size THEN NoUnit ELSE [unit EXCEPT !.left = unit.size - p.to]
  BY <1>0, NextPacketFits DEF rtp_send_data, recvVars, SeqAfter, TypeOK, Seqs
<1>2. p.id = unit.id /\ p.id \in Nat /\ p.to \in Nat /\ p.size \in Nat
  BY <1>0, <1>1, NextPacketJoins DEF Packets
<1>3. /\ p.id <= n
      /\ p.start <=> n = p.id
      /\ p.end <=> p.to = p.size
      /\ p.end => n - p.id + 1 <= Pieces(p.size)
      /\ ~p.end =>
           /\ medium = "avc" /\ unit.size > MaxPayload
           /\ unit.size - p.to >= 1 /\ p.to = 1 + (n + 1 - unit.id) * (MaxPayload - 2)
  BY <1>0, <1>1, NextPacketPlace DEF PlaceInv
<1>4. Seen' \subseteq Seen \cup {p}
  BY <1>1 DEF Seen
<1>5. IF p.end THEN unit' = NoUnit
      ELSE /\ unit' # NoUnit /\ unit'.id = p.id
           /\ unit'.size = unit.size /\ unit'.left = unit.size - p.to
  <2>1. CASE p.end
    BY <1>1, <1>3, <2>1
  <2>2. CASE ~p.end
    <3>1. unit' = [unit EXCEPT !.left = unit.size - p.to]
      BY <1>1, <1>3, <2>2
    <3>2. unit'.id = unit.id /\ unit'.size = unit.size /\ unit'.left = unit.size - p.to
      BY <1>1, <3>1 DEF Units
    <3>3. unit' # NoUnit
      BY <1>2, <3>2 DEF NoUnit, Nobody
    <3> QED
      BY <1>2, <2>2, <3>2, <3>3
  <2> QED
    BY <2>1, <2>2
<1>6. ProgressInv'
  <2>0. CASE p.end
    BY <1>5, <2>0 DEF ProgressInv
  <2>1. CASE ~p.end
    <3>1. unit.size - (unit.size - p.to) = p.to
      BY <1>1, <1>2 DEF Units
    <3>2. unit.id <= n + 1
      BY <1>1, <1>2, <1>3
    <3>3. /\ medium' = "avc" /\ unit'.size > MaxPayload /\ unit'.left >= 1
          /\ unit'.size - unit'.left = 1 + (n' - unit'.id) * (MaxPayload - 2)
      BY <1>1, <1>2, <1>3, <1>5, <2>1, <3>1
    <3> QED
      BY <1>1, <1>2, <1>5, <2>1, <3>2, <3>3 DEF ProgressInv
  <2> QED
    BY <2>0, <2>1
<1>7. \A r \in Seen : r.n \in Nat /\ r.n < n /\ r.seq \in Seqs
  BY SeenTyped DEF PlaceInv, Placed
<1>8. ASSUME NEW r \in Seen' PROVE Placed(r)'
  <2>1. CASE r \in Seen
    <3>1. Placed(r) /\ r.n - r.seq \in Int /\ r.n < n + 1
      BY <1>1, <1>7, <2>1 DEF PlaceInv, Seqs
    <3>2. Multiple((r.n - r.seq) - (n' - seq'))
      BY <1>1, <3>1, NumberShift DEF Placed
    <3> QED
      BY <1>1, <3>1, <3>2 DEF Placed, Pieces
  <2>2. CASE r = p
    <3>1. p.n - p.seq \in Int /\ (p.n - p.seq) - (n - seq) = 0
      BY <1>1 DEF Seqs
    <3>2. Multiple((p.n - p.seq) - (n' - seq'))
      BY <1>1, <3>1, NumberShift, MultipleUnits
    <3>3. p.n < n'
      BY <1>1
    <3> QED
      BY <1>1, <1>3, <2>2, <3>2, <3>3 DEF Placed, Pieces
  <2> QED
    BY <1>4, <2>1, <2>2
<1>9. ASSUME NEW r \in Seen' PROVE HasNext(r)'
  <2>1. CASE r \in Seen
    <3>1. HasNext(r) /\ r.n + 1 # n'
      BY <1>1, <1>7, <2>1 DEF PlaceInv
    <3>2. ASSUME NEW q \in flight', q.n = r.n + 1 PROVE q.id = UnitAfter(r)
      <4>1. CASE q \in flight
        BY <3>1, <3>2, <4>1 DEF HasNext
      <4>2. CASE q = p
        BY <1>1, <1>2, <3>1, <3>2, <4>2 DEF HasNext
      <4> QED
        BY <1>1, <4>1, <4>2
    <3> QED
      BY <3>1, <3>2 DEF HasNext, UnitAfter
  <2>2. CASE r = p
    <3>1. \A q \in flight' : q.n # p.n + 1
      BY <1>1, <1>7 DEF Seen
    <3>2. IF unit' = NoUnit THEN p.end ELSE unit'.id = UnitAfter(p)
      BY <1>5 DEF UnitAfter
    <3> QED
      BY <2>2, <3>1, <3>2 DEF HasNext, UnitAfter
  <2> QED
    BY <1>4, <2>1, <2>2
<1> QED
  BY <1>6, <1>8, <1>9 DEF PlaceInv

(* An arrival shows nothing that was not in the network.                   *)
LEMMA PlaceArrive ==
  ASSUME TypeOK, PlaceInv, NEW p \in flight, NEW again \in BOOLEAN, Arrive(p, again)
  PROVE PlaceInv'
<1> DEFINE Same(r, o) ==
      /\ r.n = o.n /\ r.seq = o.seq /\ r.id = o.id /\ r.to = o.to /\ r.size = o.size
      /\ r.start = o.start /\ r.end = o.end
<1>1. Same([p EXCEPT !.again = TRUE], p) /\ Same([p EXCEPT !.again = FALSE], p)
  BY DEF TypeOK, Packets
<1>2. /\ flight' \subseteq flight \cup {[p EXCEPT !.again = TRUE]}
      /\ got' = [p EXCEPT !.again = FALSE] /\ UNCHANGED <<medium, seq, n, unit>>
  BY DEF Arrive, sendVars
<1>3. \A r \in flight' : \E o \in flight : Same(r, o)
  BY <1>1, <1>2
<1>4. \A r \in Seen' : \E o \in Seen : Same(r, o)
  BY <1>1, <1>2, <1>3 DEF Seen
<1> HIDE DEF Same
<1>5. ASSUME NEW r \in Seen' PROVE Placed(r)' /\ HasNext(r)'
  <2>1. PICK o \in Seen : Same(r, o)
    BY <1>4
  <2>2. Placed(o) /\ HasNext(o)
    BY DEF PlaceInv
  <2>3. Placed(r)'
    BY <1>2, <2>1, <2>2 DEF Placed, Pieces, Same
  <2>4. ASSUME NEW q \in flight', q.n = r.n + 1 PROVE q.id = UnitAfter(r)
    <3>1. PICK x \in flight : Same(q, x)
      BY <1>3, <2>4
    <3> QED
      BY <2>1, <2>2, <2>4, <3>1 DEF HasNext, UnitAfter, Same
  <2>5. r.n + 1 = n => IF unit = NoUnit THEN r.end ELSE unit.id = UnitAfter(r)
    BY <2>1, <2>2 DEF HasNext, UnitAfter, Same
  <2>6. HasNext(r)'
    BY <1>2, <2>4, <2>5 DEF HasNext, UnitAfter
  <2> QED
    BY <2>3, <2>6
<1>6. ProgressInv'
  BY <1>2 DEF PlaceInv, ProgressInv
<1> QED
  BY <1>5, <1>6 DEF PlaceInv

(* Packets of consecutive numbers have consecutive sequence numbers.       *)
LEMMA NextNumber ==
  ASSUME TypeOK, PlaceInv, got # NoPacket, NEW p \in flight, p.n = got.n + 1
  PROVE p.seq = (got.seq + 1) % SeqMod
<1>1. got \in Seen /\ p \in Seen
  BY DEF Seen
<1>2. /\ got.n \in Nat /\ got.seq \in Seqs /\ p.n \in Nat /\ p.seq \in Seqs
      /\ n \in Nat /\ seq \in Seqs
  BY <1>1, SeenTyped DEF TypeOK, Seqs
<1>3. Multiple((got.n - got.seq) - (n - seq)) /\ Multiple((p.n - p.seq) - (n - seq))
  BY <1>1 DEF PlaceInv, Placed
<1>4. PICK a \in Int, b \in Int : a = (got.n - got.seq) - (n - seq) /\ b = (p.n - p.seq) - (n - seq)
  BY <1>2 DEF Seqs
<1>5. Multiple(a - b) /\ a - b = p.seq - got.seq - 1
  <2>1. Multiple(a) /\ Multiple(b)
    BY <1>3, <1>4
  <2>2. a - b = p.seq - got.seq - 1
    BY <1>2, <1>4 DEF Seqs
  <2> QED
    BY <2>1, <2>2, MultipleSum
<1>6. PICK x \in Seqs : x = (got.seq + 1) % SeqMod
  BY <1>2, ModIsSeq DEF Seqs
<1>7. x = IF got.seq + 1 = SeqMod THEN 0 ELSE got.seq + 1
  BY <1>2, <1>6, ModNext
<1>8. Multiple(p.seq - x)
  <2>1. a - b \in Int /\ SeqMod \in Int
    BY <1>4, Constants
  <2>2. Multiple(a - b + SeqMod)
    BY <1>5, <2>1, MultipleSum, MultipleUnits
  <2>3. p.seq - x = a - b \/ p.seq - x = a - b + SeqMod
    BY <1>2, <1>5, <1>7, Constants DEF Seqs
  <2> QED
    BY <1>5, <2>2, <2>3
<1>9. p.seq - x \in Int /\ -SeqMod < p.seq - x /\ p.seq - x < SeqMod
  BY <1>2, <1>6, Constants DEF Seqs
<1>10. p.seq - x = 0
  BY <1>8, <1>9, MultipleSmall
<1> QED
  BY <1>2, <1>6, <1>10 DEF Seqs

(* What is left of a probation of two packets, and what a jump waits for.  *)
LEMMA UpdateProbation ==
  ASSUME MinSequential = 2, NEW s \in Source, s.probation # -1, NEW q \in Seqs,
         NEW t, t = update_seq(s, q), NEW class, class = Class(s, q)
  PROVE /\ class \in {"probe", "restart"} => t.probation = 1
        /\ class = "jump" => t.bad_seq = (q + 1) % SeqMod
<1>1. CASE class = "probe"
  <2>1. s.probation = 2
    BY <1>1, SourceFields DEF Class
  <2>2. t = [s EXCEPT !.probation = s.probation - 1, !.max_seq = q]
    BY <1>1 DEF update_seq
  <2> QED
    BY <1>1, <2>1, <2>2 DEF Source
<1>2. CASE class = "restart"
  <2>1. t = [s EXCEPT !.probation = MinSequential - 1, !.max_seq = q]
    BY <1>2 DEF update_seq, Restart
  <2>2. t.probation = MinSequential - 1
    BY <2>1 DEF Source
  <2> QED
    BY <1>2, <2>2
<1>3. CASE class = "jump"
  BY <1>3 DEF update_seq, Source
<1> QED
  BY <1>1, <1>2, <1>3

(* What a packet does to a source in one of the three states.              *)
LEMMA ClassNext ==
  ASSUME MinSequential = 2, NEW s \in Source, NEW g \in Seqs,
         NEW q \in Seqs, q = (g + 1) % SeqMod, NEW class, class = Class(s, q)
  PROVE /\ s.probation = 0 /\ s.max_seq = g => class = "next" /\ q # g
        /\ s.probation = 0 /\ s.bad_seq = q => class \in {"next", "resync", "late"}
        /\ s.probation = 1 /\ s.max_seq = g =>
             \/ class = "first"
             \/ class = "restart" /\ q = 0 /\ g # 0
<1>1. /\ SeqMod \in Nat /\ SeqMod > 2 /\ g \in Nat /\ g < SeqMod
      /\ q = IF g + 1 = SeqMod THEN 0 ELSE g + 1
  BY ModNext, Constants DEF Seqs
<1>2. ASSUME s.probation = 0, s.max_seq = g PROVE class = "next" /\ q # g
  <2>1. (q - g) % SeqMod = 1
    BY NextDistance
  <2>2. class = "next"
    <3>0. PICK d \in Int : d = (q - s.max_seq) % SeqMod
      BY <1>2, <2>1
    <3>1. d < MaxDropout /\ d \notin MaxDropout .. SeqMod - MaxMisorder
      BY <1>2, <2>1, <3>0, Constants
    <3> QED
      BY <1>2, <3>0, <3>1 DEF Class
  <2> QED
    BY <1>1, <2>2
<1>3. ASSUME s.probation = 0, s.bad_seq = q PROVE class \in {"next", "resync", "late"}
  BY <1>3 DEF Class
<1>4. ASSUME s.probation = 1, s.max_seq = g
      PROVE class = "first" \/ (class = "restart" /\ q = 0 /\ g # 0)
  <2>1. CASE q = g + 1
    BY <1>4, <2>1 DEF Class
  <2>2. CASE q # g + 1
    BY <1>1, <1>4, <2>2 DEF Class
  <2> QED
    BY <2>1, <2>2
<1> QED
  BY <1>2, <1>3, <1>4

(* Two packets in a row end a probation, or a third where the number wraps *)
(* around; from then on each is next.                                      *)
LEMMA SyncArrive ==
  ASSUME MinSequential = 2, TypeOK, NumberInv, PlaceInv, SyncInv,
         NEW p \in flight, NEW again \in BOOLEAN, Arrive(p, again)
  PROVE /\ SyncInv' /\ got' # NoPacket
        /\ run' >= 3 => Newer(Class(Started(src, p.seq), p.seq), p.seq)
        /\ run' > 1 => got # NoPacket /\ p.n = got.n + 1 /\ run' <= run + 1
<1>0. PICK s, class : s = Started(src, p.seq) /\ class = Class(s, p.seq)
  OBVIOUS
<1>1. /\ p.n \in Nat /\ p.seq \in Seqs /\ s \in Source /\ s.probation # -1
      /\ src' = update_seq(s, p.seq)
  BY <1>0, Arriving
<1>2. /\ class \in {"probe", "first", "restart", "next", "resync", "jump", "late"}
      /\ class \in {"probe", "restart"} => src'.probation = 1 /\ src'.max_seq = p.seq
      /\ class \in {"first", "resync", "next"} => src'.probation = 0 /\ src'.max_seq = p.seq
      /\ class = "jump" => src'.probation = 0 /\ src'.bad_seq = (p.seq + 1) % SeqMod
  <2>1. /\ class \in {"probe", "first", "restart", "next", "resync", "jump", "late"}
        /\ class \in {"probe", "restart"} => src'.max_seq = p.seq
        /\ class \in {"first", "resync", "next"} => src'.probation = 0 /\ src'.max_seq = p.seq
        /\ class = "jump" => src'.probation = 0
    BY <1>0, <1>1, UpdateCases
  <2>2. /\ class \in {"probe", "restart"} => src'.probation = 1
        /\ class = "jump" => src'.bad_seq = (p.seq + 1) % SeqMod
    BY <1>0, <1>1, UpdateProbation
  <2> QED
    BY <2>1, <2>2
<1>3. /\ got' = [p EXCEPT !.again = FALSE]
      /\ run' = IF class = "late" THEN 0
                ELSE IF p.n = got.n + 1 THEN Smaller(run + 1, LongestRun) ELSE 1
  BY <1>0 DEF Arrive
<1>a. run \in Nat /\ LongestRun \in Nat /\ run' \in Nat
  <2>1. run \in Nat /\ LongestRun \in Nat
    BY PacketsAssumption DEF TypeOK, LongestRun, PacketsAssumption
  <2> QED
    BY <1>3, <2>1 DEF Smaller
<1>4. got'.n = p.n /\ got'.seq = p.seq
  BY <1>3 DEF TypeOK, Packets
<1>5. got' # NoPacket
  BY <1>1, <1>4 DEF NoPacket, Nobody
<1>6. ASSUME run' >= 1
      PROVE class # "late" /\ (Synced' \/ Jumped' \/ Probing')
            /\ (class \in {"first", "resync", "next"} => Synced')
            /\ (class = "restart" => Probing')
  BY <1>2, <1>3, <1>4, <1>6 DEF Synced, Jumped, Probing
<1>7. ASSUME run' > 1
      PROVE run >= 1 /\ p.n = got.n + 1 /\ run' <= run + 1
  <2>1. class # "late" /\ p.n = got.n + 1 /\ run' = Smaller(run + 1, LongestRun)
    BY <1>3, <1>7
  <2>2. run' <= run + 1
    BY <1>a, <2>1 DEF Smaller
  <2> QED
    BY <1>7, <1>a, <2>1, <2>2
<1>8. ASSUME run' > 1
      PROVE /\ got # NoPacket
            /\ Synced => class = "next" /\ p.seq # src.max_seq
            /\ Jumped => class \in {"next", "resync"}
            /\ Probing => class = "first" \/ (class = "restart" /\ p.seq = 0 /\ got.seq # 0)
            /\ Synced \/ Jumped \/ Probing
  <2>1. got # NoPacket /\ (Synced \/ Jumped \/ Probing)
    BY <1>7, <1>8 DEF SyncInv
  <2>2. p.seq = (got.seq + 1) % SeqMod /\ got.seq \in Seqs
    BY <1>7, <1>8, <2>1, NextNumber, SeenTyped DEF Seen
  <2>3. src.probation # -1 => s = src
    BY <1>0 DEF Started
  <2>4. Synced \/ Jumped \/ Probing => s = src
    BY <2>3 DEF Synced, Jumped, Probing
  <2>5. class # "late"
    BY <1>3, <1>8
  <2>6. /\ s.probation = 0 /\ s.max_seq = got.seq => class = "next" /\ p.seq # got.seq
        /\ s.probation = 0 /\ s.bad_seq = p.seq => class \in {"next", "resync", "late"}
        /\ s.probation = 1 /\ s.max_seq = got.seq =>
             \/ class = "first"
             \/ class = "restart" /\ p.seq = 0 /\ got.seq # 0
    BY <1>0, <1>1, <2>2, ClassNext
  <2> QED
    BY <2>1, <2>2, <2>4, <2>5, <2>6 DEF Synced, Jumped, Probing
<1>9. ASSUME run' >= 2 PROVE Synced' \/ (Probing' /\ got'.seq = 0)
  BY <1>a, <1>4, <1>6, <1>8, <1>9
<1>10. ASSUME run' >= 3
       PROVE Synced' /\ Newer(class, p.seq)
  <2>1. run >= 2 /\ run' > 1
    BY <1>a, <1>7, <1>10
  <2>2. Synced \/ (Probing /\ got.seq = 0)
    BY <2>1 DEF SyncInv
  <2>3. (class = "next" /\ p.seq # src.max_seq) \/ class = "first"
    BY <1>8, <2>1, <2>2
  <2> QED
    BY <1>a, <1>6, <1>10, <2>3 DEF Newer
<1>11. SyncInv'
  BY <1>5, <1>6, <1>9, <1>10 DEF SyncInv
<1> QED
  BY <1>0, <1>5, <1>7, <1>8, <1>10, <1>11

(* A unit all of whose packets found the source in step is complete.       *)
LEMMA HandedArrive ==
  ASSUME MinSequential = 2, TypeOK, NumberInv, DeliverInv,
         NEW p \in flight, NEW again \in BOOLEAN, Arrive(p, again)
  PROVE HandedInv'
<1>0. SUFFICES ASSUME got' # NoPacket, run' >= 3 + (got'.n - got'.id)
               PROVE IF got'.end THEN rebuilt' = got'.id
                     ELSE asm'.id # Nobody /\ asm'.seq = got'.seq
  BY DEF HandedInv
<1>1. p \in Seen /\ p \in Packets /\ p.n \in Nat /\ p.id \in Nat /\ p.id <= p.n
  BY SeenTyped DEF Seen, DeliverInv, PlaceInv, Placed
<1>2. got'.n = p.n /\ got'.id = p.id /\ got'.seq = p.seq /\ got'.end = p.end
  <2>1. got' = [p EXCEPT !.again = FALSE]
    BY DEF Arrive
  <2> QED
    BY <1>1, <2>1 DEF Packets
<1>3. run \in Nat /\ run' \in Nat /\ run' >= 3 + (p.n - p.id)
  <2>1. run \in Nat /\ LongestRun \in Nat
    BY PacketsAssumption DEF TypeOK, LongestRun, PacketsAssumption
  <2>2. run' \in Nat
    BY <2>1 DEF Arrive, Smaller
  <2> QED
    BY <1>0, <1>2, <2>1, <2>2
<1>4. /\ Newer(Class(Started(src, p.seq), p.seq), p.seq)
      /\ got # NoPacket /\ p.n = got.n + 1 /\ run' <= run + 1
  <2>1. run' >= 3 /\ run' > 1
    BY <1>1, <1>3
  <2> QED
    BY <2>1, SyncArrive DEF DeliverInv
<1>5. Depacketize(p)
  BY <1>4 DEF Arrive
<1>6. PICK a : a = Extended(p)
  OBVIOUS
<1>7. a.id # Nobody /\ a.seq = p.seq
  <2>1. CASE p.start
    BY <1>1, <1>6, <2>1 DEF Extended, Nobody
  <2>2. CASE ~p.start
    <3>1. p.n # p.id
      BY <1>1, <2>2 DEF DeliverInv, PlaceInv, Placed
    <3>2. got \in Seen /\ got.n \in Nat /\ got.id \in Nat
      BY <1>4, SeenTyped DEF Seen
    <3>3. p.id = UnitAfter(got)
      BY <1>4, <3>2 DEF DeliverInv, PlaceInv, HasNext
    <3>4. ~got.end /\ p.id = got.id
      BY <1>4, <3>1, <3>3 DEF UnitAfter
    <3>5. run >= 3 + (got.n - got.id)
      BY <1>1, <1>3, <1>4, <3>2, <3>4
    <3>6. asm.id # Nobody /\ asm.seq = got.seq
      BY <1>4, <3>4, <3>5 DEF DeliverInv, HandedInv
    <3>7. p.seq = (asm.seq + 1) % SeqMod
      BY <1>4, <3>6, NextNumber DEF DeliverInv
    <3>8. a = [asm EXCEPT !.to = p.to, !.seq = p.seq,
                 !.sound = asm.sound /\ p.id = asm.id /\ p.from = asm.to + 1]
      BY <1>6, <2>2, <3>6, <3>7 DEF Extended
    <3>9. asm \in Assemblies
      BY <3>6 DEF TypeOK, NoAssembly
    <3> QED
      BY <3>6, <3>8, <3>9 DEF Assemblies
  <2> QED
    BY <2>1, <2>2
<1>8. IF p.end THEN rebuilt' = p.id ELSE asm' = a
  BY <1>5, <1>6, <1>7 DEF Depacketize
<1> QED
  BY <1>2, <1>7, <1>8

(* Every step keeps what the delivery of a unit rests on.                  *)
LEMMA DeliverStep ==
  ASSUME MinSequential = 2,
         TypeOK, UnitInv, NumberInv, DeliverInv, [Next]_vars
  PROVE DeliverInv'
<1>1. ASSUME NEW size \in Sizes, Begin(size) PROVE DeliverInv'
  BY <1>1, PlaceBegin DEF Begin, recvVars, DeliverInv, SyncInv, Synced, Jumped, Probing, HandedInv
<1>2. ASSUME NEW ok \in BOOLEAN, rtp_send_data(ok) PROVE DeliverInv'
  <2>1. PlaceInv' /\ UNCHANGED recvVars
    BY <1>2, PlaceSend DEF DeliverInv, rtp_send_data
  <2> QED
    BY <2>1 DEF recvVars, DeliverInv, SyncInv, Synced, Jumped, Probing, HandedInv
<1>3. ASSUME NEW p \in flight, Lose(p) PROVE DeliverInv'
  <2>1. /\ flight' \subseteq flight /\ UNCHANGED recvVars /\ UNCHANGED sendVars
    BY <1>3 DEF Lose
  <2>2. Seen' \subseteq Seen
    BY <2>1 DEF Seen, recvVars
  <2>3. PlaceInv'
    BY <2>1, <2>2 DEF sendVars, DeliverInv, PlaceInv, ProgressInv, Placed, HasNext, UnitAfter, Pieces
  <2> QED
    BY <2>1, <2>3 DEF recvVars, DeliverInv, SyncInv, Synced, Jumped, Probing, HandedInv
<1>4. ASSUME NEW p \in flight, NEW again \in BOOLEAN, Arrive(p, again) PROVE DeliverInv'
  <2>1. PlaceInv'
    BY <1>4, PlaceArrive DEF DeliverInv
  <2>2. SyncInv'
    BY <1>4, SyncArrive DEF DeliverInv
  <2>3. HandedInv'
    BY <1>4, HandedArrive
  <2> QED
    BY <2>1, <2>2, <2>3 DEF DeliverInv
<1>5. CASE UNCHANGED vars
  BY <1>5 DEF vars, sendVars, recvVars, DeliverInv, PlaceInv, ProgressInv, Seen, Placed, HasNext,
              UnitAfter, Pieces, SyncInv, Synced, Jumped, Probing, HandedInv
<1> QED
  BY <1>1, <1>2, <1>3, <1>4, <1>5 DEF Next

(* The number of packets of a unit is a number.                            *)
LEMMA PiecesType ==
  ASSUME NEW size \in Nat PROVE Pieces(size) \in Int
<1>1. PICK k \in Nat \ {0}, a \in Int : k = MaxPayload - 2 /\ a = size - 1 + MaxPayload - 3
  BY Constants
<1>2. a \div k \in Int
  OBVIOUS
<1> QED
  BY <1>1, <1>2 DEF Pieces

(* For every size of unit and of packet, and every modulus, with the       *)
(* probation of two packets of rtp.c: a unit whose packets have arrived in *)
(* order, behind three that ended the source's probation wherever in the   *)
(* cycle it fell, has been handed to the decoder.                          *)
THEOREM NothingWithheld ==
  ASSUME MinSequential = 2
  PROVE  Spec => []IntactIsRebuilt
<1>1. Init => DeliverInv
  BY DEF Init, NoUnit, NoPacket, Nobody, DeliverInv, PlaceInv, ProgressInv, Seen, SyncInv, HandedInv
<1>2. ASSUME TypeOK, DeliverInv PROVE IntactIsRebuilt
  <2>0. SUFFICES ASSUME got.n # Nobody, got.to = got.size,
                        run > Pieces(got.size) + MinSequential
                 PROVE rebuilt = got.id
    BY DEF IntactIsRebuilt
  <2>1. got # NoPacket /\ got \in Seen
    BY <2>0 DEF NoPacket, Seen
  <2>2. got.n \in Nat /\ got.id \in Nat /\ got.size \in Nat /\ run \in Nat
    BY <2>1, SeenTyped, <1>2 DEF TypeOK
  <2>3. got.end /\ got.n - got.id + 1 <= Pieces(got.size)
    BY <1>2, <2>0, <2>1 DEF DeliverInv, PlaceInv, Placed
  <2>4. Pieces(got.size) \in Int
    BY <2>2, PiecesType
  <2>5. run >= 3 + (got.n - got.id)
    BY <2>0, <2>2, <2>3, <2>4
  <2> QED
    BY <1>2, <2>1, <2>3, <2>5 DEF DeliverInv, HandedInv
<1>3. TypeOK /\ UnitInv /\ NumberInv /\ DeliverInv /\ [Next]_vars => DeliverInv'
  BY DeliverStep
<1> QED
  BY <1>1, <1>2, <1>3, TypeInit, TypeStep, NumberInit, NumberStep, PTL DEF Spec

=============================================================================
