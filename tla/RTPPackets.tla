----------------------------- MODULE RTPPackets -----------------------------
(***************************************************************************)
(* RTP packets from send_nal and send_aac_au (Livu/Classes/rtpenc_h264.m,  *)
(* rtpenc_aac.m) through rtp_send_data to a receiver: the H.264            *)
(* fragmentation, the 16-bit sequence number that a failed send consumes   *)
(* too, a network that loses, reorders and duplicates, and at the other    *)
(* end the library's own validation of sequence numbers (update_seq,       *)
(* sRTP/sRTP/rtp.c) in front of a depacketizer.                            *)
(*                                                                         *)
(* A packet is described by the bytes from..to of the NAL unit or access   *)
(* unit it carries, never by the bytes themselves.  `n`, the number of     *)
(* calls of rtp_send_data so far, is what a sequence number without wrap   *)
(* around would be; only the history variables and the network read it.    *)
(***************************************************************************)
EXTENDS Integers, FiniteSets

CONSTANTS
  MaxPayload,    \* kMaxPayloadSize, 1200 in the code
  MaxAu,         \* kMaxAACFrameSize
  MinAu,         \* 7 in the code
  TcpBuffer,     \* char buf[1504] of tcp_send
  Sizes,         \* sizes of the units handed to send_nal and send_aac_au
  SeqMod,        \* RTP_SEQ_MOD
  MaxDropout, MaxMisorder, MinSequential,
  FirstSeqs,     \* first sequence numbers lrand48 may give
  MaxPackets,    \* bound: calls of rtp_send_data
  MaxFlight      \* bound: packets in the network at once

ASSUME PacketsAssumption ==
  /\ {MaxPayload, MaxAu, MinAu, TcpBuffer, MaxPackets, MaxFlight, MaxDropout} \subseteq Nat
  /\ MaxPayload > 2 /\ MinAu > 0
  /\ MaxPayload + 16 <= TcpBuffer /\ MaxAu + 20 <= TcpBuffer
  /\ Sizes \subseteq Nat /\ SeqMod \in Nat /\ FirstSeqs \subseteq 0 .. SeqMod - 1
  /\ MaxMisorder \in Nat \ {0} /\ MaxDropout > 1 /\ MaxDropout + MaxMisorder < SeqMod
  /\ MinSequential \in Nat \ {0, 1}

VARIABLES
  medium,   \* what the session carries: "avc" or "aac"
  seq,      \* rtp_seq
  n,        \* calls of rtp_send_data
  unit,     \* the unit being sent: its id, size and the bytes of it still to go
  flight,   \* the packets in the network
  src,      \* the receiver's source: probation and sequence state
  top,      \* history: the packet max_seq stands for
  base,     \* history: the packet base_seq stands for
  missing,  \* history: packets after base and before top, none of them accepted
  got,      \* history: the last packet that arrived
  run,      \* history: how many packets have arrived one after the other in order
  asm,      \* the depacketizer's unfinished NAL unit
  rebuilt,  \* history: the last NAL unit handed to the decoder
  wrong     \* history: one was handed over with bytes missing or mixed up

sendVars == <<medium, seq, n, unit>>
recvVars == <<src, top, base, missing, got, run, asm, rebuilt, wrong>>
vars == <<sendVars, flight, recvVars>>

Nobody == -1
NoUnit == [id |-> Nobody, size |-> 0, left |-> 0]
NoPacket == [n |-> Nobody, seq |-> 0, id |-> Nobody, size |-> 0, from |-> 0, to |-> 0,
             head |-> 0, start |-> FALSE, end |-> FALSE, again |-> FALSE]
NoAssembly == [id |-> Nobody, to |-> 0, seq |-> 0, sound |-> FALSE]

-----------------------------------------------------------------------------
(* The sender *)

(* while (size + 2 > kMaxPayloadSize): another fragment follows this one.  *)
(* Faulty variant: the two FU bytes are not counted in full.               *)
MoreToCome_off_by_one(left) == left + 1 > MaxPayload
MoreToCome(left) == left + 2 > MaxPayload

(* rtp_nal[1] &= ~(1 << 7) after the first fragment *)
StartBit(u) == u.left = u.size - 1

(* rtp_nal[1] |= 1 << 6 after the loop.  Faulty variant: it is not set. *)
EndBit_missing(u) == FALSE
EndBit(u) == ~MoreToCome(u.left)

Packet(u, head, from, to, start, end) ==
  [n |-> n, seq |-> seq, id |-> u.id, size |-> u.size, from |-> from, to |-> to,
   head |-> head, start |-> start, end |-> end, again |-> FALSE]

(* What the next call of rtp_send_data carries of u: an access unit behind *)
(* its header, a NAL unit that fits, or a fragment behind indicator and    *)
(* FU header, which carry the NAL unit's first byte.                       *)
NextPacket(u) ==
  LET from == u.size - u.left + 1 IN
  IF medium = "aac" THEN Packet(u, 4, 1, u.size, TRUE, TRUE)
  ELSE IF u.size <= MaxPayload THEN Packet(u, 0, 1, u.size, TRUE, TRUE)
  ELSE Packet(u, 2, from, IF MoreToCome(u.left) THEN from + MaxPayload - 3 ELSE u.size,
              StartBit(u), EndBit(u))

Length(p) == p.head + p.to - p.from + 1

(* packet->fields.seq = htons(session->rtp_seq++), whatever becomes of the *)
(* packet.  Faulty variants: only a packet that left takes a number; no    *)
(* wrap around.                                                            *)
SeqAfter_sent_only(ok) == IF ok THEN (seq + 1) % SeqMod ELSE seq
SeqAfter_unbounded(ok) == seq + 1
SeqAfter(ok) == (seq + 1) % SeqMod

(* send_nal and send_aac_au begin: smaller units are ignored, larger       *)
(* access units refused.                                                   *)
Begin(size) ==
  /\ unit = NoUnit
  /\ medium = "aac" => size \in MinAu .. MaxAu
  /\ medium = "avc" => size >= 1
  /\ unit' = [id |-> n, size |-> size,
              left |-> IF medium = "avc" /\ size > MaxPayload THEN size - 1 ELSE size]
  /\ UNCHANGED <<medium, seq, n, flight, recvVars>>

(* rtp_send_data: the packet leaves, or the send fails, or select times    *)
(* out; the loop of send_nal goes on in every case.                        *)
rtp_send_data(ok) ==
  LET p == NextPacket(unit) IN
  /\ unit # NoUnit /\ n < MaxPackets
  /\ ok => Cardinality(flight) < MaxFlight
  /\ flight' = IF ok THEN flight \cup {p} ELSE flight
  /\ seq' = SeqAfter(ok) /\ n' = n + 1
  /\ unit' = IF p.to = p.size THEN NoUnit ELSE [unit EXCEPT !.left = unit.size - p.to]
  /\ UNCHANGED <<medium, recvVars>>

-----------------------------------------------------------------------------
(* update_seq.  `probation` is -1 for a source that has sent no data yet.  *)

NewSource == [probation |-> -1, max_seq |-> 0, base_seq |-> 0, bad_seq |-> 0,
              cycles |-> 0, received |-> 0]

init_seq(s, q) ==
  [s EXCEPT !.base_seq = q, !.max_seq = q, !.bad_seq = SeqMod + 1, !.cycles = 0,
            !.received = 0]

(* rtp_recv_data: the first packet of a source begins its probation *)
Started(s, q) ==
  IF s.probation = -1
  THEN [s EXCEPT !.probation = MinSequential, !.max_seq = (q - 1) % SeqMod]
  ELSE s

(* What a packet is to a source.  The comparison of a source on probation  *)
(* is made on ints: 0 does not follow 65535.                               *)
Class(s, q) ==
  LET udelta == (q - s.max_seq) % SeqMod IN
  CASE s.probation # 0 /\ q = s.max_seq + 1 ->
         IF s.probation = 1 THEN "first" ELSE "probe"
    [] s.probation # 0 /\ q # s.max_seq + 1 -> "restart"
    [] s.probation = 0 /\ udelta < MaxDropout -> "next"
    [] s.probation = 0 /\ udelta \in MaxDropout .. SeqMod - MaxMisorder ->
         IF q = s.bad_seq THEN "resync" ELSE "jump"
    [] OTHER -> "late"

(* A packet out of order starts the probation again, itself the first of   *)
(* its sequence.                                                           *)
Restart(s, q) == [s EXCEPT !.probation = MinSequential - 1, !.max_seq = q]

(* In order with a permissible gap.  Faulty variant: the wrap around is    *)
(* not noticed.                                                            *)
InOrder_no_wrap(s, q) == [s EXCEPT !.max_seq = q, !.received = @ + 1]
InOrder(s, q) ==
  [s EXCEPT !.cycles = IF q < s.max_seq THEN @ + SeqMod ELSE @,
            !.max_seq = q, !.received = @ + 1]

(* Duplicate or reordered.  Faulty variant: dropped without being counted. *)
Late_dropped(s) == s
Late(s) == [s EXCEPT !.received = @ + 1]

update_seq(s, q) ==
  LET class == Class(s, q) IN
  CASE class = "probe"   -> [s EXCEPT !.probation = @ - 1, !.max_seq = q]
    [] class = "first"   -> [init_seq(s, q) EXCEPT !.probation = 0, !.received = @ + 1]
    [] class = "restart" -> Restart(s, q)
    [] class = "next"    -> InOrder(s, q)
    [] class = "resync"  -> [init_seq(s, q) EXCEPT !.received = @ + 1]
    [] class = "jump"    -> [s EXCEPT !.bad_seq = (q + 1) % SeqMod]
    [] OTHER             -> Late(s)

(* format_report_blocks *)
expected(s) == s.cycles + s.max_seq - s.base_seq + 1
lost(s) == expected(s) - s.received

-----------------------------------------------------------------------------
(* The depacketizer (external): RFC 3984, packets in sequence.  Only a      *)
(* packet newer than all before it is looked at, and a gap drops what is   *)
(* unfinished.                                                             *)

Newer(class, q) ==
  class \in {"first", "resync"} \/ (class = "next" /\ q # src.max_seq)

Extended(p) ==
  IF p.start THEN [id |-> p.id, to |-> p.to, seq |-> p.seq, sound |-> TRUE]
  ELSE IF asm.id # Nobody /\ p.seq = (asm.seq + 1) % SeqMod
  THEN [asm EXCEPT !.to = p.to, !.seq = p.seq,
                   !.sound = @ /\ p.id = asm.id /\ p.from = asm.to + 1]
  ELSE NoAssembly

Depacketize(p) ==
  LET a == Extended(p) IN
  IF p.end /\ a.id # Nobody
  THEN /\ rebuilt' = p.id
       /\ wrong' = (wrong \/ ~(a.sound /\ a.to = p.size))
       /\ asm' = NoAssembly
  ELSE asm' = a /\ UNCHANGED <<rebuilt, wrong>>

-----------------------------------------------------------------------------
(* The network (external) *)

Smaller(a, b) == IF a < b THEN a ELSE b
LongestRun == MaxPackets + 1

(* What a 16-bit number can tell apart.  A packet further ahead looks late, *)
(* one further behind looks like the next: both are almost a whole cycle   *)
(* from the newest packet, and count as lost here.                         *)
InReach(p) ==
  src.probation # -1 => p.n \in top - (SeqMod - MaxDropout) .. top + SeqMod - MaxMisorder

Lose(p) == flight' = flight \ {p} /\ UNCHANGED <<sendVars, recvVars>>

(* A packet arrives and may arrive once more; validate_rtp has passed it.  *)
Arrive(p, again) ==
  LET s == Started(src, p.seq)
      class == Class(s, p.seq)
  IN
  /\ InReach(p) /\ (again => ~p.again)
  /\ flight' = (flight \ {p}) \cup (IF again THEN {[p EXCEPT !.again = TRUE]} ELSE {})
  /\ src' = update_seq(s, p.seq)
  /\ top' = IF class \in {"probe", "first", "restart", "next", "resync"} THEN p.n ELSE top
  /\ base' = IF class \in {"first", "resync"} THEN p.n ELSE base
  /\ missing' = CASE class \in {"first", "resync"} -> {}
                  [] class = "next" -> missing \cup (top + 1 .. p.n - 1)
                  [] class = "late" -> missing \ {p.n}
                  [] OTHER -> missing
  /\ got' = [p EXCEPT !.again = FALSE]
  /\ run' = IF class = "late" THEN 0
            ELSE IF p.n = got.n + 1 THEN Smaller(run + 1, LongestRun) ELSE 1
  /\ IF Newer(class, p.seq) THEN Depacketize(p) ELSE UNCHANGED <<asm, rebuilt, wrong>>
  /\ UNCHANGED sendVars

-----------------------------------------------------------------------------
Init ==
  /\ medium \in {"avc", "aac"} /\ seq \in FirstSeqs /\ n = 0 /\ unit = NoUnit
  /\ flight = {} /\ src = NewSource /\ top = Nobody /\ base = Nobody /\ missing = {}
  /\ got = NoPacket /\ run = 0
  /\ asm = NoAssembly /\ rebuilt = Nobody /\ wrong = FALSE

Next ==
  \/ \E size \in Sizes : Begin(size)
  \/ \E ok \in BOOLEAN : rtp_send_data(ok)
  \/ \E p \in flight : Lose(p) \/ \E again \in BOOLEAN : Arrive(p, again)

Spec == Init /\ [][Next]_vars

-----------------------------------------------------------------------------
(* Properties *)

Packets == [n : Nat, seq : 0 .. SeqMod - 1, id : Nat, size : Nat, from : Nat, to : Nat,
            head : {0, 2, 4}, start : BOOLEAN, end : BOOLEAN, again : BOOLEAN]
Source == [probation : -1 .. MinSequential, max_seq : 0 .. SeqMod - 1,
           base_seq : 0 .. SeqMod - 1, bad_seq : 0 .. SeqMod + 1, cycles : Nat, received : Nat]
Units == [id : Nat, size : Nat, left : Nat]
Assemblies == [id : Nat, to : Nat, seq : 0 .. SeqMod - 1, sound : BOOLEAN]

(* Type invariant: sequence numbers stay below RTP_SEQ_MOD on either side. *)
TypeOK ==
  /\ medium \in {"avc", "aac"} /\ seq \in 0 .. SeqMod - 1 /\ n \in Nat
  /\ unit \in Units \cup {NoUnit}
  /\ flight \subseteq Packets /\ src \in Source
  /\ {top, base, rebuilt} \subseteq Nat \cup {Nobody} /\ missing \subseteq Nat
  /\ got \in Packets \cup {NoPacket} /\ run \in Nat
  /\ asm \in Assemblies \cup {NoAssembly} /\ wrong \in BOOLEAN

(* What send_nal and send_aac_au hand to rtp_send_data is never empty      *)
(* (assert(data_len > 0)), never longer than the rtp_nal array, and with   *)
(* the RTP and interleave headers never longer than the buffer of tcp_send.*)
PacketsFit ==
  \A p \in flight :
    /\ Length(p) >= 1 /\ Length(p) + 16 <= TcpBuffer
    /\ medium = "avc" => Length(p) <= MaxPayload

(* Whatever is lost, late, doubled or fails half way through a NAL unit:   *)
(* no receiver that follows the sequence numbers joins the fragments of    *)
(* different NAL units or a NAL unit with a hole in it.                    *)
Rebuilt == ~wrong

(* The number of packets a unit takes *)
Pieces(size) ==
  IF medium = "aac" \/ size <= MaxPayload THEN 1
  ELSE (size - 1 + MaxPayload - 3) \div (MaxPayload - 2)

(* And nothing is withheld: when every packet of a unit has arrived in     *)
(* order from a source past its probation, in as few packets as the size   *)
(* needs, the unit has been handed over.                                   *)
IntactIsRebuilt ==
  (got.n # Nobody /\ got.to = got.size /\ run > Pieces(got.size) + MinSequential)
    => rebuilt = got.id

(* The extended sequence number counts what was sent: across wrap arounds, *)
(* gaps, late packets and resynchronisations the span of a valid source is *)
(* that of the packets max_seq and base_seq stand for.                     *)
ExtendedSpan ==
  src.probation = 0 => src.cycles + src.max_seq - src.base_seq = top - base

(* The loss in a receiver report is never more than the packets missing    *)
(* since the source began or was resynchronised: those that never arrived, *)
(* and those so far out of order that update_seq refused them (a jump,     *)
(* rtp.c:792-801).  Duplicates and late packets only lower it.             *)
LossNotOverstated == src.probation = 0 => lost(src) <= Cardinality(missing)

=============================================================================
