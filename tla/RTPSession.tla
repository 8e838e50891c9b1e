----------------------------- MODULE RTPSession -----------------------------
(***************************************************************************)
(* One RTP session of the sRTP library (src/sRTP/sRTP/rtp.c) as Livu uses  *)
(* it: the database of sources and of reception reports, the RTCP timer,   *)
(* the housekeeping that forgets silent members, and the BYE that ends it. *)
(*                                                                         *)
(* The session is one record, and each C function that changes it is an    *)
(* operator from a session to a session.  Two threads call them.  The      *)
(* sender (sender_queue) sends a frame and then runs rtp_update and        *)
(* rtp_send_ctrl, as send_nal and send_aac_au do; the receiver (the RTCP   *)
(* watchdog of a UDP broadcast) runs rtp_recv.  Neither takes a lock:      *)
(* Overlap = TRUE lets the calls interleave where rtp_update has chosen a  *)
(* source to delete and where a BYE is handed to the application; FALSE is *)
(* a session whose calls do not overlap, what the library is written for.  *)
(*                                                                         *)
(* Time is counted in ticks and kept relative to now, so that the state    *)
(* space is finite without a last tick; every age stops growing just past  *)
(* the longest timeout it is compared with.                                *)
(***************************************************************************)
EXTENDS Integers, Sequences, FiniteSets, Functions

CONSTANTS
  Me,             \* my_ssrc
  Peers,          \* SSRCs of the other participants
  DbSize,         \* RTP_DB_SIZE, 11 in the code
  MinTime,        \* RTCP_MIN_TIME in ticks, 5 s in the code
  MembersPerTick, \* reports the RTCP bandwidth carries in one tick
  ByeDelay,       \* ticks a source outlives its BYE, 2 s in the code
  SmallSession,   \* members below which a BYE is immediate, 50 in the code
  MaxByes,        \* bound: BYEs that can arrive while ours waits
  SrFrom, Blocks, Byes,  \* inputs: the peers that send SRs, and the SSRCs that the report
                         \* blocks and the BYEs of the peers' packets may name
  Overlap         \* the two threads' calls may interleave

Members == Peers \cup {Me}
NoSource == -1

ASSUME ConstantAssumption ==
  /\ Members \subseteq Nat /\ IsFiniteSet(Peers) /\ Me \notin Peers
  /\ {DbSize, MembersPerTick, SmallSession, MaxByes} \subseteq Nat \ {0}
  /\ MinTime \in Nat \ {0} /\ ByeDelay \in Nat /\ SrFrom \cup Blocks \cup Byes \subseteq Members
  /\ Overlap \in BOOLEAN

VARIABLES
  ses,       \* the struct rtp
  at,        \* where the sender thread is
  doomed,    \* sources rtp_update has decided to delete and not yet deleted
  byeFrom,   \* the source named by the BYE the receiver thread is processing
  disowned,  \* history: a peer's BYE has named my_ssrc
  sentAgo,   \* ticks since an RTCP report really left
  soon,      \* a report left before the least interval since the last had passed
  crashed    \* a NULL source was dereferenced, or an assertion on one failed

vars == <<ses, at, doomed, byeFrom, disowned, sentAgo, soon, crashed>>

-----------------------------------------------------------------------------
(* The database *)

Larger(a, b) == IF a > b THEN a ELSE b
Smaller(a, b) == IF a < b THEN a ELSE b

ssrc_hash(ssrc) == ssrc % DbSize

MaxInterval ==
  Larger(MinTime, (4 * Larger(Cardinality(Members), MaxByes)) \div (3 * MembersPerTick))
MaxDraw == (124 * MaxInterval) \div 100
MaxIdle == Larger(5 * MaxInterval, ByeDelay) + 1
(* The age of our own entry is only compared with the delay of a BYE *)
Oldest(x) == IF x = Me THEN ByeDelay + 1 ELSE MaxIdle

(* The least interval rtcp_interval draws after the first report *)
LeastGap == (41 * MinTime) \div 100

(* Bound: sender_count stops here (members that leave and come back while  *)
(* no report is sent raise it without end)                                 *)
MaxSenders == Cardinality(Members) + 1

Known(S) == DOMAIN S.src
NewSource == [idle |-> 0, sender |-> FALSE, got_bye |-> FALSE]
Senders(S) == {x \in Known(S) : S.src[x].sender}

(* A new source goes to the head of its chain.  Faulty variant: to the end. *)
create_source_at_end(S, ssrc) ==
  IF ssrc \in Known(S)
  THEN [S EXCEPT !.src[ssrc].idle = 0]
  ELSE [S EXCEPT
         !.src = [x \in Known(S) \cup {ssrc} |->
                   IF x = ssrc THEN NewSource ELSE S.src[x]],
         !.db[ssrc_hash(ssrc)] = Append(@, ssrc),
         !.ssrc_count = @ + 1]

create_source(S, ssrc) ==
  IF ssrc \in Known(S)
  THEN [S EXCEPT !.src[ssrc].idle = 0]
  ELSE [S EXCEPT
         !.src = [x \in Known(S) \cup {ssrc} |->
                   IF x = ssrc THEN NewSource ELSE S.src[x]],
         !.db[ssrc_hash(ssrc)] = <<ssrc>> \o @,
         !.ssrc_count = @ + 1]

(* A chain whose entry for ssrc has been unlinked *)
Unlinked(chain, ssrc) ==
  LET i == CHOOSE k \in DOMAIN chain : chain[k] = ssrc
  IN [k \in 1 .. Len(chain) - 1 |-> IF k < i THEN chain[k] ELSE chain[k + 1]]

(* What delete_source takes out: the source, its entry in its chain and,   *)
(* by remove_rr, the reports by and about it.  Faulty variants: the        *)
(* reports stay; the count is not taken down.                              *)
Removed_keeps_reports(S, ssrc) ==
  [S EXCEPT !.src = Restrict(@, Known(S) \ {ssrc}),
            !.db[ssrc_hash(ssrc)] = Unlinked(@, ssrc),
            !.ssrc_count = @ - 1]
Removed_not_counted(S, ssrc) ==
  [S EXCEPT !.src = Restrict(@, Known(S) \ {ssrc}),
            !.db[ssrc_hash(ssrc)] = Unlinked(@, ssrc),
            !.rr = {e \in @ : ssrc \notin {e[1], e[2]}}]
Removed(S, ssrc) ==
  [S EXCEPT !.src = Restrict(@, Known(S) \ {ssrc}),
            !.db[ssrc_hash(ssrc)] = Unlinked(@, ssrc),
            !.rr = {e \in @ : ssrc \notin {e[1], e[2]}},
            !.ssrc_count = @ - 1]

(* Reverse reconsideration.  Its factor ssrc_count / ssrc_count_prev is an *)
(* integer division of a smaller number by a larger one, so both times     *)
(* become now.                                                             *)
Reconsidered(S) ==
  [S EXCEPT !.untilRtcp = -1, !.sinceRtcp = 0, !.ssrc_count_prev = S.ssrc_count]

delete_source(S, ssrc) ==
  LET T == Removed(S, ssrc)
  IN IF T.ssrc_count < T.ssrc_count_prev THEN Reconsidered(T) ELSE T

insert_rr(S, reporter, reportee) == [S EXCEPT !.rr = @ \cup {<<reporter, reportee>>}]

(* Reports older than three intervals go.  Their age is abstracted: which  *)
(* of them are old is left open.                                           *)
timeout_rr(S) == {[S EXCEPT !.rr = recent] : recent \in SUBSET S.rr}

-----------------------------------------------------------------------------
(* The RTCP interval: the members' reports over the bandwidth, at least    *)
(* rtcp_min_time; drand48 spreads the next report over 0.41 to 1.23 of it. *)

rtcp_interval(S) ==
  LET n == IF S.sending_bye THEN S.bye_count ELSE S.ssrc_count
      few == S.sender_count > 0 /\ 4 * S.sender_count < n
      load == IF ~S.avg_known THEN 0
              ELSE IF ~few THEN n
              ELSE IF S.we_sent THEN 4 * S.sender_count
              ELSE (4 * (n - S.sender_count)) \div 3
      least == IF S.initial_rtcp THEN MinTime \div 2 ELSE MinTime
  IN Larger(least, load \div MembersPerTick)

WithInterval(S) == [S EXCEPT !.rtcp_interval = rtcp_interval(S)]

Draws(S) == (41 * rtcp_interval(S)) \div 100 .. (124 * rtcp_interval(S)) \div 100

-----------------------------------------------------------------------------
(* Incoming RTCP: a compound packet is an SR or an RR with at most one     *)
(* report block (several are several packets in a row), an SDES of the     *)
(* same source, and possibly its BYE.                                      *)

process_rtcp_sr(S, ssrc) ==
  IF S.src[ssrc].sender THEN S
  ELSE [S EXCEPT !.src[ssrc].sender = TRUE, !.sender_count = Smaller(@ + 1, MaxSenders)]

process_report_blocks(S, from, report) ==
  IF report = NoSource THEN S
  ELSE insert_rr(create_source(S, report), from, report)

(* bye_count is kept only while it is read, from the moment rtp_send_bye   *)
(* sets it to 1; what was counted before that is overwritten there.        *)
process_rtcp_bye(S, ssrc) ==
  [S EXCEPT !.src[ssrc].got_bye = TRUE,
            !.bye_count = IF S.sending_bye THEN Smaller(@ + 1, MaxByes) ELSE @]

(* rtp_process_ctrl up to the callback of the BYE, if there is one *)
rtp_process_ctrl(S, from, sr, report) ==
  LET A == create_source(S, from)
      B == IF sr THEN process_rtcp_sr(A, from) ELSE A
  IN [process_report_blocks(B, from, report) EXCEPT !.avg_known = TRUE]

-----------------------------------------------------------------------------
(* Outgoing RTCP *)

(* format_report_blocks walks the chains in order.  The sender with which  *)
(* sender_count reaches zero ends the walk of its own chain, and the       *)
(* senders behind it there are left out.                                   *)
Before(S, x, y) ==
  \/ ssrc_hash(x) < ssrc_hash(y)
  \/ /\ ssrc_hash(x) = ssrc_hash(y)
     /\ LET chain == S.db[ssrc_hash(x)]
        IN \E i, j \in DOMAIN chain : i < j /\ chain[i] = x /\ chain[j] = y
Rank(S, x) == Cardinality({y \in Senders(S) : y = x \/ Before(S, y, x)})
Reported(S) ==
  {x \in Senders(S) :
    ~ \E y \in Senders(S) : /\ Rank(S, y) = S.sender_count
                            /\ ssrc_hash(y) = ssrc_hash(x) /\ Before(S, y, x)}

format_report_blocks(S) ==
  [S EXCEPT !.src = [x \in Known(S) |-> [S.src[x] EXCEPT !.sender = @ /\ x \notin Reported(S)]],
            !.sender_count = @ - Cardinality(Reported(S))]

(* A report F on the sources of R is looped back: the session hears        *)
(* itself, and everyone it reports on counts as active.                    *)
Heard(F, sr, R) ==
  LET A == rtp_process_ctrl(F, Me, sr, NoSource)
  IN [A EXCEPT !.src = [x \in Known(F) \cup {Me} |->
                         [A.src[x] EXCEPT !.idle = IF x \in R THEN 0 ELSE @]],
               !.rr = F.rr \cup ({Me} \X R)]

send_rtcp(S) == Heard(format_report_blocks(S), S.we_sent, Reported(S))

(* What rtp_send_ctrl does after send_rtcp: the next report is d ticks off *)
NewInterval(S, d) ==
  [WithInterval(S) EXCEPT
     !.untilRtcp = d, !.sender_count = 0, !.ssrc_count_prev = S.ssrc_count,
     !.src = [x \in Known(S) |-> [S.src[x] EXCEPT !.sender = FALSE]]]

(* The report or the BYE is due d ticks after the last one.  Faulty        *)
(* variant: after now.                                                     *)
PutOff_from_now(S, d) == [S EXCEPT !.untilRtcp = d, !.sinceRtcp = 0]
PutOff(S, d) == [S EXCEPT !.untilRtcp = d - S.sinceRtcp]

rtp_send_bye_now(S) ==
  process_rtcp_bye(Heard(format_report_blocks(S), FALSE, Reported(S)), Me)

-----------------------------------------------------------------------------
(* Housekeeping *)

ByeExpired(S) == {x \in Known(S) : S.src[x].got_bye /\ S.src[x].idle > ByeDelay}

(* Sources not heard of for n intervals, but never our own *)
Silent(S, n) == {x \in Known(S) \ {Me} : S.src[x].idle > n * S.rtcp_interval}

(* Sources to delete.  Faulty variant: only those that said BYE. *)
Expired_byes_only(S) == ByeExpired(S)
Expired(S) == ByeExpired(S) \cup Silent(S, 5)

(* Senders that are senders no more.  Faulty variant: counted down whether *)
(* they were senders or not.                                               *)
Quiet_unchecked(S) == Silent(S, 2) \ ByeExpired(S)
Quiet(S) == (Silent(S, 2) \ ByeExpired(S)) \cap Senders(S)

(* rtp_update up to the deletions: w is the randomised interval it draws *)
UpdateMarks(S, w) ==
  LET T == [WithInterval(S) EXCEPT !.sinceUpdate = 0,
                                   !.we_sent = @ /\ S.sinceRtp < 2 * w]
      quiet == Quiet(T)
  IN [T EXCEPT !.src = [x \in Known(T) |-> [T.src[x] EXCEPT !.sender = @ /\ x \notin quiet]],
               !.sender_count = @ - Cardinality(quiet)]

-----------------------------------------------------------------------------
(* The session and its two threads *)

NewSession ==
  create_source(
    [src |-> [x \in {} |-> {}], db |-> [h \in 0 .. DbSize - 1 |-> <<>>], rr |-> {},
     ssrc_count |-> 0, ssrc_count_prev |-> 0, sender_count |-> 0, bye_count |-> 0,
     we_sent |-> FALSE, initial_rtcp |-> TRUE, sending_bye |-> FALSE, avg_known |-> FALSE,
     rtcp_interval |-> MinTime \div 2,
     sinceUpdate |-> 0, sinceRtp |-> 2 * MaxDraw, sinceRtcp |-> 0, untilRtcp |-> 0], Me)

(* rtp_init_udp_if, with every first interval it may draw *)
Init ==
  /\ \E d \in Draws(NewSession) : ses = [NewSession EXCEPT !.untilRtcp = d]
  /\ at = "idle" /\ doomed = {} /\ byeFrom = NoSource /\ disowned = FALSE
  /\ sentAgo = LeastGap + 1 /\ soon = FALSE /\ crashed = FALSE

Open == at \in {"idle", "update", "delete", "ctrl"} /\ ~crashed

(* A thread may enter the library only when the other is out of it *)
SenderMay == ~crashed /\ (Overlap \/ byeFrom = NoSource)
ReceiverMay == ~crashed /\ (IF Overlap THEN Open ELSE at = "idle")

(* rtp_send_data: a frame leaves; rtp_update and rtp_send_ctrl follow *)
rtp_send_data ==
  /\ at = "idle" /\ SenderMay
  /\ ses' = [ses EXCEPT !.we_sent = TRUE, !.sinceRtp = 0]
  /\ at' = "update"
  /\ UNCHANGED <<doomed, byeFrom, disowned, sentAgo, soon, crashed>>

(* rtp_update within a second of the last one returns at once; otherwise   *)
(* it looks at every source and finds the ones to delete.                  *)
UpdateCheck ==
  /\ at = "update" /\ SenderMay
  /\ IF ses.sinceUpdate < 1
     THEN at' = "ctrl" /\ UNCHANGED <<ses, doomed>>
     ELSE /\ \E w \in Draws(ses) : ses' = UpdateMarks(ses, w)
          /\ doomed' = Expired(ses')
          /\ at' = "delete"
  /\ UNCHANGED <<byeFrom, disowned, sentAgo, soon, crashed>>

(* It deletes them one by one, then the old reports, and returns to the    *)
(* frame just sent or to the loop of rtp_send_bye.                         *)
UpdateDelete ==
  /\ at \in {"delete", "leaveDelete"} /\ SenderMay
  /\ \/ /\ \E ssrc \in doomed :
            ses' = delete_source(ses, ssrc) /\ doomed' = doomed \ {ssrc}
        /\ UNCHANGED at
     \/ /\ doomed = {} /\ ses' \in timeout_rr(ses)
        /\ at' = IF at = "delete" THEN "ctrl" ELSE "leaving"
        /\ UNCHANGED doomed
  /\ UNCHANGED <<byeFrom, disowned, sentAgo, soon, crashed>>

(* rtp_send_ctrl when no report is due *)
NotDue ==
  /\ at = "ctrl" /\ SenderMay /\ ses.untilRtcp >= 0
  /\ at' = "idle"
  /\ UNCHANGED <<ses, doomed, byeFrom, disowned, sentAgo, soon, crashed>>

(* rtp_send_ctrl when the timer has expired: the interval is drawn again   *)
(* and the report leaves, or is put off.  (A quantifier over one value     *)
(* names it; a LET would be evaluated again at each use.)                  *)
rtp_send_ctrl ==
  /\ at = "ctrl" /\ SenderMay /\ ses.untilRtcp < 0
  /\ \E S \in {WithInterval(ses)}, d \in Draws(ses) :
       \/ /\ S.sinceRtcp > d
          /\ \E T \in {[send_rtcp(S) EXCEPT !.initial_rtcp = FALSE, !.sinceRtcp = 0]} :
             \E e \in Draws(T) : ses' = NewInterval(T, e)
          /\ sentAgo' = 0 /\ soon' = (soon \/ sentAgo <= LeastGap)
       \/ /\ S.sinceRtcp <= d
          /\ ses' = [PutOff(S, d) EXCEPT !.ssrc_count_prev = S.ssrc_count]
          /\ UNCHANGED <<sentAgo, soon>>
  /\ at' = "idle"
  /\ UNCHANGED <<doomed, byeFrom, disowned, crashed>>

(* rtp_recv: a peer's RTCP packet, up to the callback of the BYE in it, of *)
(* whatever source, ours included                                          *)
rtp_recv(from, sr, report, bye) ==
  LET S == rtp_process_ctrl(ses, from, sr, report) IN
  /\ ReceiverMay /\ byeFrom = NoSource
  /\ ses' = IF bye = NoSource THEN S ELSE create_source(S, bye)
  /\ byeFrom' = bye
  /\ disowned' = (disowned \/ bye = Me)
  /\ UNCHANGED <<at, doomed, sentAgo, soon, crashed>>

(* process_rtcp_bye after the callback: get_source, and the mark on what   *)
(* it found.                                                               *)
ByeMark ==
  /\ byeFrom # NoSource /\ ~crashed
  /\ IF byeFrom \in Known(ses)
     THEN ses' = process_rtcp_bye(ses, byeFrom) /\ UNCHANGED crashed
     ELSE crashed' = TRUE /\ UNCHANGED ses
  /\ byeFrom' = NoSource
  /\ UNCHANGED <<at, doomed, disowned, sentAgo, soon>>

-----------------------------------------------------------------------------
(* The end of the session.  The receiver is out of it by then: who makes   *)
(* sure of that is a question for BroadcastManager.                        *)

NeverSent(S) == ~S.we_sent /\ S.initial_rtcp

(* rtp_send_bye: nothing to say, a small session, or a large one, which    *)
(* first starts the reconsideration.                                       *)
rtp_send_bye ==
  /\ at = "idle" /\ byeFrom = NoSource /\ ~crashed
  /\ IF NeverSent(ses) THEN at' = "left" /\ UNCHANGED ses
     ELSE IF ses.ssrc_count < SmallSession
     THEN at' = "left" /\ ses' = rtp_send_bye_now(ses)
     ELSE LET S == [ses EXCEPT !.sending_bye = TRUE, !.sinceRtcp = 0, !.bye_count = 1,
                               !.initial_rtcp = TRUE, !.we_sent = FALSE,
                               !.sender_count = 0, !.avg_known = TRUE]
          IN at' = "leaving" /\ \E d \in Draws(S) : ses' = [WithInterval(S) EXCEPT !.untilRtcp = d]
  /\ UNCHANGED <<doomed, byeFrom, disowned, sentAgo, soon, crashed>>

(* A packet that wakes the loop of rtp_send_bye; it is processed whole,    *)
(* BYE included, by the thread that is leaving.  Input restricted to       *)
(* packets without reports: the loop reads only the counts of members, and *)
(* of BYEs, which lengthen its interval and are MaxByes at most.           *)
LeaveRecv(from, bye) ==
  LET S == rtp_process_ctrl(ses, from, FALSE, NoSource) IN
  /\ at = "leaving" /\ (bye # NoSource => ses.bye_count < MaxByes)
  /\ ses' = IF bye = NoSource THEN S ELSE process_rtcp_bye(create_source(S, bye), bye)
  /\ disowned' = (disowned \/ bye = Me)
  /\ UNCHANGED <<at, doomed, byeFrom, sentAgo, soon, crashed>>

(* One turn of the loop: the BYE leaves, or is reconsidered and the        *)
(* housekeeping runs (within a second of the last one it does nothing).    *)
LeaveCheck ==
  /\ at = "leaving"
  /\ \E S \in {WithInterval(ses)}, d \in Draws(ses) :
       \/ S.sinceRtcp > d /\ ses' = rtp_send_bye_now(S) /\ at' = "left" /\ UNCHANGED doomed
       \/ /\ S.sinceRtcp <= d
          /\ \E T \in {PutOff(S, d)} :
               \/ T.sinceUpdate < 1 /\ ses' = T /\ UNCHANGED <<at, doomed>>
               \/ /\ T.sinceUpdate >= 1
                  /\ \E w \in Draws(T) : ses' = UpdateMarks(T, w)
                  /\ doomed' = Expired(ses') /\ at' = "leaveDelete"
  /\ UNCHANGED <<byeFrom, disowned, sentAgo, soon, crashed>>

(* rtp_done walks each chain and, for every entry but our own, deletes the *)
(* chain's head; then it deletes our own.  An own entry that is not last   *)
(* in its chain is deleted in the walk, and the second delete_source finds *)
(* nothing.                                                                *)
OwnEntryLast(S) ==
  LET chain == S.db[ssrc_hash(Me)] IN chain # <<>> /\ chain[Len(chain)] = Me

Emptied(S) ==
  [S EXCEPT !.src = [x \in {} |-> NewSource], !.db = [h \in DOMAIN S.db |-> <<>>],
            !.rr = {}, !.ssrc_count = @ - Cardinality(Known(S))]

rtp_done ==
  /\ at \in {"idle", "left"} /\ byeFrom = NoSource /\ ~crashed
  /\ crashed' = ~OwnEntryLast(ses)
  /\ ses' = Emptied(ses)
  /\ at' = "done"
  /\ UNCHANGED <<doomed, byeFrom, disowned, sentAgo, soon>>

-----------------------------------------------------------------------------
Older(age, most) == Smaller(age + 1, most)

Tick ==
  /\ at \in {"idle", "leaving"} /\ byeFrom = NoSource /\ ~crashed
  /\ ses' = [ses EXCEPT
       !.src = [x \in Known(ses) |-> [ses.src[x] EXCEPT !.idle = Older(@, Oldest(x))]],
       !.sinceUpdate = Older(@, 1), !.sinceRtp = Older(@, 2 * MaxDraw),
       !.sinceRtcp = Older(@, MaxDraw + 1),
       !.untilRtcp = Larger(@ - 1, -1)]
  /\ sentAgo' = Older(sentAgo, LeastGap + 1)
  /\ UNCHANGED <<at, doomed, byeFrom, disowned, soon, crashed>>

(* A packet of x; its report is on any source but x, its BYE names any *)
Receive(x) ==
  \E sr \in BOOLEAN, report \in (Blocks \cup {NoSource}) \ {x}, bye \in Byes \cup {NoSource} :
    (sr => x \in SrFrom) /\ rtp_recv(x, sr, report, bye)

SenderStep ==
  rtp_send_data \/ UpdateCheck \/ UpdateDelete \/ NotDue \/ rtp_send_ctrl

Next ==
  \/ SenderStep \/ ByeMark \/ Tick
  \/ \E x \in Peers : Receive(x)
  \/ rtp_send_bye \/ LeaveCheck \/ rtp_done
  \/ \E x \in Peers, bye \in Byes \cup {NoSource} : LeaveRecv(x, bye)

(* The broadcast keeps sending frames while it lasts, a thread inside the  *)
(* library goes on, and time passes.  The sender's fairness is strong: the *)
(* code shuts it out at no time, only this model keeps it out while the    *)
(* receiver is between a BYE and its mark.                                 *)
Fairness ==
  /\ SF_vars(SenderStep) /\ WF_vars(ByeMark) /\ SF_vars(Tick) /\ WF_vars(LeaveCheck)

Spec == Init /\ [][Next]_vars /\ Fairness

-----------------------------------------------------------------------------
(* Properties *)

Source == [idle : 0 .. MaxIdle, sender : BOOLEAN, got_bye : BOOLEAN]

(* Type invariant: every field of the session and of the two threads. *)
TypeOK ==
  /\ Known(ses) \subseteq Members /\ ses.src \in [Known(ses) -> Source]
  /\ ses.db \in [0 .. DbSize - 1 -> Seq(Members)]
  /\ ses.rr \subseteq Members \X Members
  /\ {ses.ssrc_count, ses.ssrc_count_prev} \subseteq 0 .. Cardinality(Members)
  /\ ses.sender_count \in Int /\ ses.bye_count \in 0 .. MaxByes
  /\ {ses.we_sent, ses.initial_rtcp, ses.sending_bye, ses.avg_known} \subseteq BOOLEAN
  /\ ses.rtcp_interval \in 0 .. MaxInterval /\ ses.sinceUpdate \in 0 .. 1
  /\ ses.sinceRtp \in 0 .. 2 * MaxDraw /\ ses.sinceRtcp \in 0 .. MaxDraw + 1
  /\ ses.untilRtcp \in -1 .. MaxDraw /\ sentAgo \in 0 .. LeastGap + 1
  /\ at \in {"idle", "update", "delete", "ctrl", "leaving", "leaveDelete", "left", "done"}
  /\ doomed \subseteq Members /\ byeFrom \in Members \cup {NoSource}
  /\ disowned \in BOOLEAN /\ soon \in BOOLEAN /\ crashed \in BOOLEAN

(* check_database: the chains of the hash table hold every known source    *)
(* once, in the chain its SSRC hashes to, and ssrc_count counts them.      *)
DatabaseConsistent ==
  /\ ses.ssrc_count = Cardinality(Known(ses))
  /\ \A h \in DOMAIN ses.db :
       /\ IsInjective(ses.db[h])
       /\ Range(ses.db[h]) = {x \in Known(ses) : ssrc_hash(x) = h}

(* What rtp_done relies on ("first added and last removed is us"): as long *)
(* as no peer's BYE names our own SSRC, members may come, go and come back *)
(* and the session's own entry stays last in its chain, so that the walk   *)
(* of rtp_done never deletes it.  A BYE that does name it has rtp_update   *)
(* delete our entry like any other (rtp.c:3192); even then the one place   *)
(* where a missing source is met is the second deletion in rtp_done.       *)
OwnEntryStays ==
  /\ ~disowned => ~crashed /\ (at # "done" => Me \in Known(ses) /\ OwnEntryLast(ses))
  /\ crashed => at = "done"

(* Every reception report held is by and about sources that are known:     *)
(* deleting a source leaves no report that mentions it.                    *)
ReportsAboutKnown == \A e \in ses.rr : {e[1], e[2]} \subseteq Known(ses)

(* sender_count never falls behind the senders: format_report_blocks stops *)
(* when it reaches zero, and would leave a sender out of the report.       *)
SendersCounted == Open => ses.sender_count >= Cardinality(Senders(ses))

(* Reports are paced: however the timer is rescheduled by members leaving, *)
(* two reports are never closer than the least interval rtcp_interval may  *)
(* draw.                                                                   *)
ReportsPaced == ~soon

(* A member that has been silent for five of the longest intervals is      *)
(* forgotten, or heard of again, while the broadcast lasts: the packets    *)
(* and the BYEs of the others, their departures and the interval that      *)
(* shrinks and grows with them never keep it.                              *)
SilentForgotten ==
  \A x \in Peers :
    (x \in Known(ses) /\ ses.src[x].idle > 5 * MaxInterval)
      ~> (~Open \/ x \notin Known(ses) \/ ses.src[x].idle = 0)

(* rtp_send_bye comes back: once BYEs have stopped arriving (at most       *)
(* MaxByes do), the reconsideration of a large session does not put ours   *)
(* off for ever, whatever other packets arrive meanwhile.  The condition   *)
(* is needed: every BYE, a duplicate too, raises bye_count (rtp.c:1812)    *)
(* and the interval with it, so that a steady flow of them has no end.     *)
ByeLeaves == (at = "leaving") ~> (at = "left")
=============================================================================
