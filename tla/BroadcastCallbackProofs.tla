----------------------- MODULE BroadcastCallbackProofs -----------------------
(***************************************************************************)
(* Theorems about the main queue of BroadcastManager: which callbacks the  *)
(* caller hears of an attempt, and for how long its encoders run.          *)
(***************************************************************************)
EXTENDS BroadcastSenderProofs, SequenceTheorems

-----------------------------------------------------------------------------
(* The invariant.                                                           *)

Ends == {"Stopped", "Error", "BadPass"}
Closing == main \in {"flagged", "sync", "synced"}
Running == broadcasting /\ main # "connected"

(* What may be posted for an attempt after k was.                           *)
After(k) ==
  CASE k \in {"Started", "Timeout"} -> {"Timeout", "Stopped", "Error"}
    [] k = "Stopped" -> {"Timeout"}
    [] k = "Error"   -> {"Timeout", "Reconnect"}
    [] OTHER         -> {}

(* What may still be posted for an attempt the caller has heard t of.       *)
Expected(t) ==
  CASE t = <<>> -> Kinds
    [] t = <<"Started">> -> {"Timeout", "Stopped", "Error"}
    [] t = <<"Error">>   -> {"Reconnect"}
    [] t = <<"BadPass">> -> {}
    [] OTHER -> {"Timeout"}

(* The blocks of the main queue: attempt after attempt, and of one attempt  *)
(* in the order the manager posts them.                                     *)
PostInv ==
  /\ \A i \in DOMAIN mainQ : mainQ[i].sess \in 1..conn
  /\ \A i, j \in DOMAIN mainQ : i < j =>
       /\ mainQ[i].sess <= mainQ[j].sess
       /\ mainQ[i].sess = mainQ[j].sess => mainQ[j].kind \in After(mainQ[i].kind)

(* Nothing comes before the start or the failure it is a consequence of.    *)
Cause(k) == IF k = "Reconnect" THEN "Error" ELSE "Started"

(* What was heard of an attempt, and what is still to come.                 *)
ToldInv ==
  /\ CallbackProtocol
  /\ \A i \in DOMAIN mainQ : mainQ[i].kind \in Expected(told[mainQ[i].sess])
  /\ \A i \in DOMAIN mainQ :
       told[mainQ[i].sess] = <<>> /\ mainQ[i].kind \in {"Stopped", "Timeout", "Reconnect"} =>
         \E j \in DOMAIN mainQ :
           j < i /\ mainQ[j].sess = mainQ[i].sess /\ mainQ[j].kind = Cause(mainQ[i].kind)

StartPosted == \E i \in DOMAIN mainQ : mainQ[i].kind = "Started" /\ mainQ[i].sess = conn

(* The start of the current attempt was announced.                          *)
HasStarted ==
  conn \in Attempts /\ (StartPosted \/ (told[conn] # <<>> /\ told[conn][1] = "Started"))

(* A running broadcast was announced, and its end was not.                  *)
AnswerInv ==
  /\ \A a \in Attempts : a > conn => told[a] = <<>>
  /\ main \in {"setup", "connected"} =>
       told[conn] = <<>> /\ \A i \in DOMAIN mainQ : mainQ[i].sess # conn
  /\ Running \/ Closing =>
       /\ HasStarted /\ told[conn] \in {<<>>, <<"Started">>}
       /\ \A i \in DOMAIN mainQ : mainQ[i].sess = conn => mainQ[i].kind \notin Ends

(* The watchdog counts for a broadcast that was announced.                  *)
WatchInv ==
  /\ missed > 0 => HasStarted
  /\ \A g \in Attempts : timer[g] = "armed" => g = watch /\ Running /\ ~UseTCP

OnlyTimeoutsOld == \A i \in DOMAIN mainQ : mainQ[i].sess < conn => mainQ[i].kind = "Timeout"

(* The blocks are run in order: with the first of an attempt run, no block  *)
(* of an earlier one is left.                                               *)
HeardInv ==
  conn \in Attempts /\ told[conn] # <<>> => \A i \in DOMAIN mainQ : mainQ[i].sess = conn

(* The button, and what an earlier attempt may have left in the queue, when *)
(* no stop came before the start was heard of.                              *)
ButtonInv ==
  /\ \A i \in DOMAIN mainQ : mainQ[i].sess < conn => mainQ[i].kind # "Started"
  /\ \A i \in DOMAIN mainQ : mainQ[i].sess < conn /\ mainQ[i].kind = "Timeout" =>
       button = "busy" /\ OnlyTimeoutsOld
  /\ StartPosted /\ ~broadcasting => button = "busy" /\ OnlyTimeoutsOld
  /\ button = "stop" <=> (conn \in Attempts /\ told[conn] = <<"Started">>)

FailurePosted == \E i \in DOMAIN mainQ : mainQ[i].kind \in {"Error", "BadPass"}
ClosingOnError == Closing /\ reason = "Error"

(* Encoders that run without a broadcast are about to be stopped, and so is *)
(* the encoder that rotates.                                                *)
EncoderInv ==
  /\ rotating => "avc" \in encoders
  /\ encoders # {} /\ ~broadcasting => main = "setup" \/ FailurePosted \/ ClosingOnError
  /\ \A i \in DOMAIN mainQ : mainQ[i].kind = "Started" /\ ~broadcasting =>
       ClosingOnError \/ \E j \in DOMAIN mainQ : i < j /\ mainQ[j].kind = "Error"
  /\ main = "joinStop" \/ (Closing /\ reason = "Stopped") => encoders = {}

MainQueueInv == PostInv /\ ToldInv /\ HeardInv /\ AnswerInv /\ WatchInv
CallInv  == MainQueueInv /\ (slips = {} => ButtonInv /\ EncoderInv)

-----------------------------------------------------------------------------
(* The values of the history and of the main queue. *)

(* What is expected after each thing the caller may have heard.             *)
LEMMA Expects ==
  /\ Expected(<<>>) = Kinds
  /\ Expected(<<"Started">>) = {"Timeout", "Stopped", "Error"}
  /\ Expected(<<"Error">>) = {"Reconnect"}
  /\ Expected(<<"BadPass">>) = {}
  /\ Expected(<<"Started", "Stopped">>) = {"Timeout"}
  /\ Expected(<<"Started", "Error">>) = {"Timeout"}
BY DEF Expected

(* What the caller has heard after one more callback.                       *)
LEMMA Hears ==
  /\ \A k \in Kinds : Append(<<>>, k) = <<k>> /\ Append(<<"Started">>, k) = <<"Started", k>>
  /\ \A k \in Kinds : <<k>> # <<>> /\ <<k>>[1] = k
  /\ \A k, l \in Kinds : <<k, l>> # <<>> /\ <<k, l>>[1] = k
  /\ \A k, l, m \in Kinds : <<k>> # <<l, m>>
  /\ \A k, l \in Kinds : <<k>> = <<l>> => k = l
<1>1. \A k \in Kinds : Append(<<>>, k) = <<k>>
  OBVIOUS
<1>2. ASSUME NEW k \in Kinds PROVE Append(<<"Started">>, k) = <<"Started", k>>
  <2>1. ASSUME NEW s \in Seq(Kinds), NEW t \in Seq(Kinds),
               Len(s) = 2, Len(t) = 2, s[1] = t[1], s[2] = t[2]
        PROVE  s = t
    BY <2>1, SeqEqual
  <2>2. ASSUME NEW s \in Seq(Kinds), Len(s) = 1
        PROVE  /\ Append(s, k) \in Seq(Kinds) /\ Len(Append(s, k)) = 2
               /\ Append(s, k)[1] = s[1] /\ Append(s, k)[2] = k
    <3>1. \A i \in 1..Len(s) : Append(s, k)[i] = s[i]
      BY AppendProperties
    <3>2. Append(s, k)[Len(s) + 1] = k /\ Append(s, k) \in Seq(Kinds) /\ Len(Append(s, k)) = Len(s) + 1
      BY AppendProperties
    <3>3. 1 \in 1..Len(s) /\ Len(s) + 1 = 2
      BY <2>2
    <3>4. QED
      BY <3>1, <3>2, <3>3, Zenon
  <2>0. "Started" \in Kinds
    BY DEF Kinds
  <2>3. <<"Started">> \in Seq(Kinds) /\ Len(<<"Started">>) = 1 /\ <<"Started">>[1] = "Started"
    BY <2>0
  <2>4. /\ <<"Started", k>> \in Seq(Kinds) /\ Len(<<"Started", k>>) = 2
        /\ <<"Started", k>>[1] = "Started" /\ <<"Started", k>>[2] = k
    BY <2>0
  <2>5. QED
    BY <2>1, <2>2, <2>3, <2>4
<1>3. QED
  BY <1>1, <1>2

(* The block at the head of the main queue is taken.                        *)
LEMMA TakeFacts ==
  ASSUME TypeOK, NEW k, TakeBlock(k)
  PROVE  /\ main = "idle" /\ 1 \in DOMAIN mainQ /\ Head(mainQ) = mainQ[1]
         /\ mainQ[1] \in Notices /\ mainQ[1].kind = k
         /\ \A i \in DOMAIN mainQ' :
              i \in Nat /\ i + 1 \in DOMAIN mainQ /\ i + 1 > 1 /\ mainQ'[i] = mainQ[i + 1]
         /\ \A i \in DOMAIN mainQ : i \in Nat /\ i >= 1
         /\ \A i \in DOMAIN mainQ : i # 1 => i - 1 \in DOMAIN mainQ' /\ mainQ'[i - 1] = mainQ[i]
<1>1. PICK s \in Seq(Notices) : s = mainQ /\ s # <<>>
  BY DEF TypeOK, MainTyped, TakeBlock
<1>2. mainQ' = Tail(s) /\ main = "idle" /\ Head(s).kind = k
  BY <1>1 DEF TakeBlock
<1>3. /\ Len(s) \in Nat /\ DOMAIN s = 1..Len(s) /\ DOMAIN Tail(s) = 1..(Len(s) - 1)
      /\ Len(s) > 0 /\ Head(s) = s[1]
      /\ \A i \in 1..(Len(s) - 1) : Tail(s)[i] = s[i + 1]
  BY <1>1
<1>4. s[1] \in Notices
  BY <1>1, <1>3
<1>5. \A i \in DOMAIN mainQ' :
        i \in Nat /\ i + 1 \in DOMAIN mainQ /\ i + 1 > 1 /\ mainQ'[i] = mainQ[i + 1]
  BY <1>1, <1>2, <1>3
<1>6. \A i \in DOMAIN mainQ : i # 1 => i - 1 \in DOMAIN mainQ' /\ mainQ'[i - 1] = mainQ[i]
  BY <1>1, <1>2, <1>3
<1>7. QED
  BY <1>1, <1>2, <1>3, <1>4, <1>5, <1>6

(* A block is put at the end of the main queue.                             *)
LEMMA PostFacts ==
  ASSUME TypeOK, NEW n \in Notices, mainQ' = Append(mainQ, n)
  PROVE  /\ \A i \in DOMAIN mainQ : i \in DOMAIN mainQ' /\ mainQ'[i] = mainQ[i]
         /\ \E l \in DOMAIN mainQ' :
              /\ mainQ'[l] = n /\ l \in Nat
              /\ \A i \in DOMAIN mainQ : i \in Nat /\ i < l
              /\ \A i \in DOMAIN mainQ' : i \in DOMAIN mainQ \/ i = l
<1>1. PICK s \in Seq(Notices) : s = mainQ
  BY DEF TypeOK, MainTyped
<1>2. /\ Len(s) \in Nat /\ DOMAIN s = 1..Len(s) /\ DOMAIN Append(s, n) = 1..(Len(s) + 1)
      /\ \A i \in 1..Len(s) : Append(s, n)[i] = s[i]
      /\ Append(s, n)[Len(s) + 1] = n
  BY <1>1
<1>3. \A i \in DOMAIN mainQ : i \in DOMAIN mainQ' /\ mainQ'[i] = mainQ[i]
  BY <1>1, <1>2
<1>4. /\ Len(s) + 1 \in DOMAIN mainQ' /\ mainQ'[Len(s) + 1] = n /\ Len(s) + 1 \in Nat
      /\ \A i \in DOMAIN mainQ : i \in Nat /\ i < Len(s) + 1
      /\ \A i \in DOMAIN mainQ' : i \in DOMAIN mainQ \/ i = Len(s) + 1
  BY <1>1, <1>2
<1>5. QED
  BY <1>3, <1>4

(* The facts about an attempt's number.                                     *)
LEMMA Numbers ==
  ASSUME TypeOK
  PROVE  /\ conn \in Nat /\ conn \in Handles /\ Attempts \subseteq Nat /\ MaxConnects \in Nat
         /\ \A a \in Attempts : a >= 1 /\ a <= MaxConnects
         /\ \A a : a \in 1..conn => a \in Attempts
         /\ \A i \in DOMAIN mainQ : mainQ[i] \in Notices /\ mainQ[i].kind \in Kinds /\ mainQ[i].sess \in Nat
         /\ told \in [Attempts -> Seq(Kinds)] /\ missed \in Nat /\ encoders \subseteq {"avc", "cap", "aac"}
<1>1. MaxConnects \in Nat
  BY ConfigAssumption DEF ConfigAssumption
<1>2. \A i \in DOMAIN mainQ : mainQ[i] \in Notices
  BY DEF TypeOK, MainTyped
<1>3. \A n \in Notices : n.kind \in Kinds /\ n.sess \in Nat
  BY <1>1 DEF Notices
<1>4. QED
  BY <1>1, <1>2, <1>3 DEF TypeOK, MainTyped, HistoryTyped, WatchTyped, Handles, Attempts

(* The block at the head: its attempt, what was heard of it, what follows.  *)
LEMMA HeadFacts ==
  ASSUME TypeOK, PostInv, ToldInv, HeardInv, NEW k, TakeBlock(k), NEW s, s = mainQ[1].sess
  PROVE  /\ s \in Attempts /\ s \in Nat /\ s <= conn /\ conn \in Attempts /\ k \in Kinds
         /\ s = conn => \A i \in DOMAIN mainQ : mainQ[i].sess = conn
         /\ s # conn => told[conn] = <<>>
         /\ \A i \in DOMAIN mainQ : i # 1 /\ mainQ[i].sess = s => mainQ[i].kind \in After(k)
         /\ k \in Expected(told[s])
         /\ told[s] = <<>> => k \in {"Started", "Error", "BadPass"}
<1>1. /\ 1 \in DOMAIN mainQ /\ mainQ[1].kind = k
      /\ \A i \in DOMAIN mainQ : i \in Nat /\ i >= 1
  BY TakeFacts
<1>2. s \in 1..conn /\ s \in Attempts /\ s \in Nat /\ s <= conn /\ conn \in Attempts /\ k \in Kinds
  BY <1>1, Numbers DEF PostInv, Handles, Attempts
<1>3. \A i \in DOMAIN mainQ : i # 1 =>
        /\ s <= mainQ[i].sess
        /\ mainQ[i].sess = s => mainQ[i].kind \in After(k)
  BY <1>1 DEF PostInv
<1>4. s = conn => \A i \in DOMAIN mainQ : mainQ[i].sess = conn
  <2>1. ASSUME s = conn, NEW i \in DOMAIN mainQ, i # 1 PROVE mainQ[i].sess = conn
    <3>1. mainQ[i].sess \in 1..conn /\ s <= mainQ[i].sess
      BY <1>3, <2>1 DEF PostInv
    <3>2. QED
      BY <1>2, <2>1, <3>1
  <2>2. QED
    BY <2>1
<1>5. s # conn => told[conn] = <<>>
  BY <1>1, <1>2 DEF HeardInv
<1>6. k \in Expected(told[s])
  BY <1>1 DEF ToldInv
<1>7. told[s] = <<>> => k \in {"Started", "Error", "BadPass"}
  <2>1. ~ \E j \in DOMAIN mainQ : j < 1
    BY <1>1
  <2>2. told[s] = <<>> => k \notin {"Stopped", "Timeout", "Reconnect"}
    BY <1>1, <2>1 DEF ToldInv
  <2>3. QED
    BY <1>2, <2>2 DEF Kinds
<1>8. QED
  BY <1>2, <1>3, <1>4, <1>5, <1>6, <1>7

(* What was heard of the attempt of the head block, kind by kind.           *)
LEMMA HeardOf ==
  ASSUME TypeOK, PostInv, ToldInv, HeardInv, NEW k, TakeBlock(k), NEW s, s = mainQ[1].sess
  PROVE  /\ k = "Started" => told[s] = <<>>
         /\ k = "Stopped" => told[s] = <<"Started">>
         /\ k = "Error" => told[s] \in {<<>>, <<"Started">>}
         /\ k = "BadPass" => told[s] = <<>>
         /\ k = "Reconnect" => told[s] = <<"Error">>
         /\ k = "Timeout" => told[s] \in {<<"Started">>, <<"Started", "Stopped">>, <<"Started", "Error">>}
<1>1. /\ s \in Attempts /\ s \in Nat /\ s <= conn /\ k \in Expected(told[s]) /\ k \in Kinds
      /\ told[s] = <<>> => k \in {"Started", "Error", "BadPass"}
  BY HeadFacts
<1>2. told[s] \in {<<>>, <<"Error">>, <<"BadPass">>, <<"Started">>,
                   <<"Started", "Stopped">>, <<"Started", "Error">>}
  BY <1>1 DEF ToldInv, CallbackProtocol
<1>3. /\ told[s] = <<"Started">> => k \in {"Timeout", "Stopped", "Error"}
      /\ told[s] = <<"Error">> => k \in {"Reconnect"}
      /\ told[s] = <<"BadPass">> => k \in {}
      /\ told[s] = <<"Started", "Stopped">> => k \in {"Timeout"}
      /\ told[s] = <<"Started", "Error">> => k \in {"Timeout"}
  BY <1>1, Expects
<1>4. QED
  BY <1>1, <1>2, <1>3

-----------------------------------------------------------------------------
(* A block is taken. *)

(* The order of the main queue survives, for this attempt and the next.     *)
LEMMA PostTaken ==
  ASSUME TypeOK, PostInv, NEW k, TakeBlock(k), conn' \in {conn, conn + 1}
  PROVE  PostInv'
<1>1. /\ \A i \in DOMAIN mainQ' :
           i \in Nat /\ i + 1 \in DOMAIN mainQ /\ mainQ'[i] = mainQ[i + 1]
  BY TakeFacts
<1>2. ASSUME NEW i \in DOMAIN mainQ' PROVE mainQ'[i].sess \in 1..conn'
  BY <1>1, <1>2, Numbers DEF PostInv
<1>3. ASSUME NEW i \in DOMAIN mainQ', NEW j \in DOMAIN mainQ', i < j
      PROVE  /\ mainQ'[i].sess <= mainQ'[j].sess
             /\ mainQ'[i].sess = mainQ'[j].sess => mainQ'[j].kind \in After(mainQ'[i].kind)
  <2>1. i + 1 < j + 1
    BY <1>1, <1>3
  <2>2. QED
    BY <1>1, <2>1 DEF PostInv
<1>4. QED
  BY <1>2, <1>3 DEF PostInv

(* A block that is no callback leaves the history as it is.                 *)
LEMMA ToldTaken ==
  ASSUME TypeOK, PostInv, ToldInv, NEW k \in {"Reconnect", "Timeout"}, TakeBlock(k), told' = told
  PROVE  ToldInv'
<1>1. /\ \A i \in DOMAIN mainQ' :
           i \in Nat /\ i + 1 \in DOMAIN mainQ /\ mainQ'[i] = mainQ[i + 1]
      /\ \A i \in DOMAIN mainQ : i \in Nat /\ i >= 1
      /\ \A i \in DOMAIN mainQ : i # 1 => i - 1 \in DOMAIN mainQ' /\ mainQ'[i - 1] = mainQ[i]
      /\ 1 \in DOMAIN mainQ /\ mainQ[1].kind = k
  BY TakeFacts
<1>2. CallbackProtocol'
  BY DEF ToldInv, CallbackProtocol
<1>3. \A i \in DOMAIN mainQ' : mainQ'[i].kind \in Expected(told'[mainQ'[i].sess])
  BY <1>1 DEF ToldInv
<1>4. ASSUME NEW i \in DOMAIN mainQ', told'[mainQ'[i].sess] = <<>>,
             mainQ'[i].kind \in {"Stopped", "Timeout", "Reconnect"}
      PROVE  \E j \in DOMAIN mainQ' :
               j < i /\ mainQ'[j].sess = mainQ'[i].sess /\ mainQ'[j].kind = Cause(mainQ'[i].kind)
  <2>1. PICK j \in DOMAIN mainQ :
          j < i + 1 /\ mainQ[j].sess = mainQ[i + 1].sess /\ mainQ[j].kind = Cause(mainQ[i + 1].kind)
    BY <1>1, <1>4 DEF ToldInv
  <2>2. j # 1
    BY <1>1, <2>1 DEF Cause
  <2>3. j - 1 \in DOMAIN mainQ' /\ mainQ'[j - 1] = mainQ[j] /\ j - 1 < i
    BY <1>1, <2>1, <2>2
  <2>4. QED
    BY <1>1, <2>1, <2>3
<1>5. QED
  BY <1>2, <1>3, <1>4 DEF ToldInv

(* What a callback adds to the history.                                     *)
LEMMA TellFacts ==
  ASSUME TypeOK, PostInv, ToldInv, HeardInv,
         NEW k \in {"Started", "Stopped", "Error", "BadPass"}, TakeBlock(k), Tell,
         NEW s, s = mainQ[1].sess
  PROVE  /\ \A a \in Attempts : a # s => told'[a] = told[a]
         /\ k = "Started" => told'[s] = <<"Started">>
         /\ k = "Stopped" => told'[s] = <<"Started", "Stopped">>
         /\ k = "Error" => \/ told[s] = <<>> /\ told'[s] = <<"Error">>
                           \/ told[s] = <<"Started">> /\ told'[s] = <<"Started", "Error">>
         /\ k = "BadPass" => told'[s] = <<"BadPass">>
         /\ told'[s] # <<>>
<1>1. s \in Attempts /\ told \in [Attempts -> Seq(Kinds)] /\ k \in Kinds
  BY HeadFacts, Numbers
<1>2. Head(mainQ) = mainQ[1] /\ mainQ[1].kind = k
  BY TakeFacts
<1>3. told' = [told EXCEPT ![s] = Append(@, k)]
  BY <1>2 DEF Tell
<1>4. told'[s] = Append(told[s], k) /\ \A a \in Attempts : a # s => told'[a] = told[a]
  BY <1>1, <1>3
<1>5. told[s] = <<>> => told'[s] = <<k>>
  BY <1>1, <1>4, Hears
<1>6. told[s] = <<"Started">> => told'[s] = <<"Started", k>>
  BY <1>1, <1>4, Hears
<1>7. told[s] \in {<<>>, <<"Started">>}
  BY HeardOf
<1>8. <<k>> # <<>> /\ <<"Started", k>> # <<>>
  BY <1>1, Hears DEF Kinds
<1>9. /\ k = "Started" => told[s] = <<>>
      /\ k = "Stopped" => told[s] = <<"Started">>
      /\ k = "BadPass" => told[s] = <<>>
  BY HeardOf
<1>10. QED
  BY <1>4, <1>5, <1>6, <1>7, <1>8, <1>9

(* A callback that was expected leads to one that the protocol allows.      *)
LEMMA ToldHeard ==
  ASSUME TypeOK, PostInv, ToldInv, HeardInv,
         NEW k \in {"Started", "Stopped", "Error", "BadPass"}, TakeBlock(k), Tell
  PROVE  ToldInv'
<1>0. PICK s : s = mainQ[1].sess
  OBVIOUS
<1>1. /\ \A i \in DOMAIN mainQ' :
           i \in Nat /\ i + 1 \in DOMAIN mainQ /\ i + 1 > 1 /\ mainQ'[i] = mainQ[i + 1]
      /\ \A i \in DOMAIN mainQ : i \in Nat /\ i >= 1
      /\ \A i \in DOMAIN mainQ : i # 1 => i - 1 \in DOMAIN mainQ' /\ mainQ'[i - 1] = mainQ[i]
      /\ 1 \in DOMAIN mainQ /\ mainQ[1].kind = k
  BY TakeFacts
<1>2. /\ s \in Attempts
      /\ \A i \in DOMAIN mainQ : i # 1 /\ mainQ[i].sess = s => mainQ[i].kind \in After(k)
  BY <1>0, HeadFacts
<1>3. /\ \A a \in Attempts : a # s => told'[a] = told[a]
      /\ k = "Started" => told'[s] = <<"Started">>
      /\ k = "Stopped" => told'[s] = <<"Started", "Stopped">>
      /\ k = "Error" => \/ told[s] = <<>> /\ told'[s] = <<"Error">>
                        \/ told[s] = <<"Started">> /\ told'[s] = <<"Started", "Error">>
      /\ k = "BadPass" => told'[s] = <<"BadPass">>
      /\ told'[s] # <<>>
  BY <1>0, TellFacts
<1>4. CallbackProtocol'
  BY <1>3 DEF ToldInv, CallbackProtocol
<1>5. ASSUME NEW i \in DOMAIN mainQ, i # 1, mainQ[i].sess = s
      PROVE  mainQ[i].kind \in Expected(told'[s])
  <2>1. mainQ[i].kind \in After(k)
    BY <1>2, <1>5
  <2>2. CASE k = "Started"
    BY <1>3, <2>1, <2>2, Expects DEF After
  <2>3. CASE k = "Stopped"
    BY <1>3, <2>1, <2>3, Expects DEF After
  <2>4. CASE k = "BadPass"
    BY <2>1, <2>4 DEF After
  <2>5. CASE k = "Error" /\ told[s] = <<>>
    <3>1. mainQ[i].kind \in {"Timeout", "Reconnect"} /\ told'[s] = <<"Error">>
      BY <1>3, <2>1, <2>5, Hears DEF After, Kinds
    <3>2. mainQ[i].kind # "Timeout"
      <4>1. SUFFICES ASSUME mainQ[i].kind = "Timeout" PROVE FALSE
        OBVIOUS
      <4>2. PICK j \in DOMAIN mainQ : mainQ[j].sess = s /\ mainQ[j].kind = "Started"
        BY <1>5, <2>5, <4>1 DEF ToldInv, Cause
      <4>3. j # 1
        BY <1>1, <2>5, <4>2
      <4>4. QED
        BY <1>2, <2>5, <4>2, <4>3 DEF After
    <3>3. QED
      BY <3>1, <3>2, Expects
  <2>6. CASE k = "Error" /\ told[s] = <<"Started">>
    <3>1. mainQ[i].kind \in Expected(<<"Started">>)
      BY <1>5, <2>6 DEF ToldInv
    <3>2. told'[s] = <<"Started", "Error">>
      BY <1>3, <2>6, Hears DEF Kinds
    <3>3. QED
      BY <2>1, <2>6, <3>1, <3>2, Expects DEF After
  <2>7. QED
    BY <1>3, <2>2, <2>3, <2>4, <2>5, <2>6
<1>6. ASSUME NEW i \in DOMAIN mainQ' PROVE mainQ'[i].kind \in Expected(told'[mainQ'[i].sess])
  <2>1. mainQ'[i] = mainQ[i + 1] /\ i + 1 \in DOMAIN mainQ /\ i + 1 # 1
    BY <1>1
  <2>2. CASE mainQ[i + 1].sess = s
    BY <1>5, <2>1, <2>2
  <2>3. CASE mainQ[i + 1].sess # s
    <3>1. mainQ[i + 1].sess \in Attempts /\ mainQ[i + 1].kind \in Expected(told[mainQ[i + 1].sess])
      BY <2>1, Numbers DEF PostInv, ToldInv
    <3>2. QED
      BY <1>3, <2>1, <2>3, <3>1
  <2>4. QED
    BY <2>2, <2>3
<1>7. ASSUME NEW i \in DOMAIN mainQ', told'[mainQ'[i].sess] = <<>>,
             mainQ'[i].kind \in {"Stopped", "Timeout", "Reconnect"}
      PROVE  \E j \in DOMAIN mainQ' :
               j < i /\ mainQ'[j].sess = mainQ'[i].sess /\ mainQ'[j].kind = Cause(mainQ'[i].kind)
  <2>1. mainQ'[i] = mainQ[i + 1] /\ i + 1 \in DOMAIN mainQ /\ i \in Nat
    BY <1>1
  <2>2. mainQ[i + 1].sess \in Attempts /\ mainQ[i + 1].sess # s
    BY <1>3, <1>7, <2>1, Numbers DEF PostInv
  <2>3. told[mainQ[i + 1].sess] = <<>>
    BY <1>3, <1>7, <2>1, <2>2
  <2>4. PICK j \in DOMAIN mainQ :
          j < i + 1 /\ mainQ[j].sess = mainQ[i + 1].sess /\ mainQ[j].kind = Cause(mainQ[i + 1].kind)
    BY <1>7, <2>1, <2>3 DEF ToldInv
  <2>5. j # 1
    BY <1>0, <2>2, <2>4
  <2>6. j - 1 \in DOMAIN mainQ' /\ mainQ'[j - 1] = mainQ[j] /\ j - 1 < i
    BY <1>1, <2>1, <2>4, <2>5
  <2>7. QED
    BY <2>1, <2>4, <2>6
<1>8. QED
  BY <1>4, <1>6, <1>7 DEF ToldInv

(* The next block is of this attempt, once one of it was run.               *)
LEMMA HeardTaken ==
  ASSUME TypeOK, PostInv, ToldInv, HeardInv, NEW k, TakeBlock(k), conn' = conn,
         \/ k \in {"Reconnect", "Timeout"} /\ told' = told
         \/ k \in {"Started", "Stopped", "Error", "BadPass"} /\ Tell
  PROVE  HeardInv'
<1>0. PICK s : s = mainQ[1].sess
  OBVIOUS
<1>1. \A i \in DOMAIN mainQ' : i + 1 \in DOMAIN mainQ /\ mainQ'[i] = mainQ[i + 1]
  BY TakeFacts
<1>2. /\ s = conn => \A i \in DOMAIN mainQ : mainQ[i].sess = conn
      /\ s # conn => told[conn] = <<>>
  BY <1>0, HeadFacts
<1>3. s # conn /\ conn \in Attempts => told'[conn] = <<>>
  <2>1. CASE told' = told
    BY <1>2, <2>1
  <2>2. CASE k \in {"Started", "Stopped", "Error", "BadPass"} /\ Tell
    <3>1. \A a \in Attempts : a # s => told'[a] = told[a]
      BY <1>0, <2>2, TellFacts
    <3>2. QED
      BY <1>2, <3>1
  <2>3. QED
    BY <2>1, <2>2
<1>4. QED
  BY <1>1, <1>2, <1>3 DEF HeardInv

(* A start that was announced stays announced.                              *)
LEMMA StartKept ==
  ASSUME TypeOK, PostInv, ToldInv, HeardInv, NEW k, TakeBlock(k), conn' = conn, HasStarted,
         \/ k \in {"Reconnect", "Timeout"} /\ told' = told
         \/ k \in {"Started", "Stopped", "Error", "BadPass"} /\ Tell
  PROVE  HasStarted'
<1>0. PICK s : s = mainQ[1].sess
  OBVIOUS
<1>1. /\ \A i \in DOMAIN mainQ : i # 1 => i - 1 \in DOMAIN mainQ' /\ mainQ'[i - 1] = mainQ[i]
      /\ mainQ[1].kind = k
  BY TakeFacts
<1>2. ASSUME NEW i \in DOMAIN mainQ, i # 1, mainQ[i].kind = "Started", mainQ[i].sess = conn
      PROVE  StartPosted'
  BY <1>1, <1>2 DEF StartPosted
<1>3. CASE k \in {"Reconnect", "Timeout"} /\ told' = told
  <2>1. StartPosted => StartPosted'
    BY <1>1, <1>2, <1>3 DEF StartPosted
  <2>2. QED
    BY <1>3, <2>1 DEF HasStarted
<1>4. CASE k \in {"Started", "Stopped", "Error", "BadPass"} /\ Tell
  <2>1. /\ \A a \in Attempts : a # s => told'[a] = told[a]
        /\ k = "Started" => told'[s] = <<"Started">>
        /\ k = "Stopped" => told'[s] = <<"Started", "Stopped">>
        /\ k = "Error" => \/ told[s] = <<>> /\ told'[s] = <<"Error">>
                          \/ told[s] = <<"Started">> /\ told'[s] = <<"Started", "Error">>
    BY <1>0, <1>4, TellFacts
  <2>2. (k = "Started" => told[s] = <<>>) /\ (k = "BadPass" => told[s] = <<>>)
    BY <1>0, <1>4, HeardOf
  <2>3. CASE StartPosted
    <3>1. PICK i \in DOMAIN mainQ : mainQ[i].kind = "Started" /\ mainQ[i].sess = conn
      BY <2>3 DEF StartPosted
    <3>2. CASE i = 1
      <4>1. told'[conn] = <<"Started">>
        BY <1>0, <1>1, <2>1, <3>1, <3>2
      <4>2. QED
        BY <4>1, Hears DEF HasStarted, Kinds
    <3>3. CASE i # 1
      BY <1>2, <3>1, <3>3 DEF HasStarted
    <3>4. QED
      BY <3>2, <3>3
  <2>4. CASE told[conn] # <<>> /\ told[conn][1] = "Started"
    <3>1. CASE s # conn
      BY <2>1, <2>4, <3>1 DEF HasStarted
    <3>2. CASE s = conn
      <4>1. told'[conn] \in {<<"Started", "Stopped">>, <<"Started", "Error">>}
        BY <1>4, <2>1, <2>2, <2>4, <3>2
      <4>2. told'[conn] # <<>> /\ told'[conn][1] = "Started"
        BY <4>1, Hears DEF Kinds
      <4>3. QED
        BY <4>2 DEF HasStarted
    <3>3. QED
      BY <3>1, <3>2
  <2>5. QED
    BY <2>3, <2>4 DEF HasStarted
<1>5. QED
  BY <1>3, <1>4

(* A callback is run: what was announced of the current attempt stays so.   *)
LEMMA AnswerHeard ==
  ASSUME TypeOK, PostInv, ToldInv, HeardInv, AnswerInv,
         NEW k \in {"Started", "Stopped", "Error", "BadPass"}, TakeBlock(k), Tell,
         UNCHANGED <<conn, broadcasting>>, main' \in {"idle", "joinError"}
  PROVE  AnswerInv'
<1>0. PICK s : s = mainQ[1].sess
  OBVIOUS
<1>1. /\ \A i \in DOMAIN mainQ' : i + 1 \in DOMAIN mainQ /\ mainQ'[i] = mainQ[i + 1]
      /\ 1 \in DOMAIN mainQ /\ mainQ[1].kind = k /\ main = "idle"
  BY TakeFacts
<1>2. s \in Attempts /\ s \in Nat /\ s <= conn /\ conn \in Attempts /\ conn \in Nat
  BY <1>0, HeadFacts, Numbers
<1>3. /\ \A a \in Attempts : a # s => told'[a] = told[a]
      /\ k = "Started" => told'[s] = <<"Started">>
  BY <1>0, TellFacts
<1>4. ASSUME NEW a \in Attempts, a > conn' PROVE told'[a] = <<>>
  BY <1>2, <1>3, <1>4, Numbers DEF AnswerInv
<1>5. ASSUME Running' \/ Closing'
      PROVE  /\ HasStarted' /\ told'[conn'] \in {<<>>, <<"Started">>}
             /\ \A i \in DOMAIN mainQ' : mainQ'[i].sess = conn' => mainQ'[i].kind \notin Ends
  <2>1. Running
    BY <1>1, <1>5 DEF Running, Closing
  <2>2. HasStarted'
    BY <2>1, StartKept DEF AnswerInv
  <2>3. k = "Started" \/ s # conn
    BY <1>0, <1>1, <2>1 DEF AnswerInv, Ends
  <2>4. told'[conn] \in {<<>>, <<"Started">>}
    BY <1>2, <1>3, <2>1, <2>3 DEF AnswerInv
  <2>5. ASSUME NEW i \in DOMAIN mainQ', mainQ'[i].sess = conn' PROVE mainQ'[i].kind \notin Ends
    BY <1>1, <2>1, <2>5 DEF AnswerInv
  <2>6. QED
    BY <2>2, <2>4, <2>5
<1>6. QED
  BY <1>4, <1>5 DEF AnswerInv

(* The watchdog does not see the callbacks.                                 *)
LEMMA WatchHeard ==
  ASSUME TypeOK, PostInv, ToldInv, HeardInv, WatchInv,
         NEW k \in {"Started", "Stopped", "Error", "BadPass"}, TakeBlock(k), Tell,
         UNCHANGED <<conn, broadcasting, watchVars>>, main' \in {"idle", "joinError"}
  PROVE  WatchInv'
<1>1. missed' > 0 => HasStarted'
  BY StartKept DEF WatchInv, watchVars
<1>2. QED
  BY <1>1 DEF WatchInv, Running, watchVars

(* The button shows what was heard last.                                    *)
LEMMA ButtonHeard ==
  ASSUME TypeOK, PostInv, ToldInv, HeardInv, ButtonInv,
         NEW k \in {"Started", "Stopped", "Error", "BadPass"}, TakeBlock(k), Tell,
         UNCHANGED <<conn, broadcasting>>, main' \in {"idle", "joinError"},
         button' = IF k = "Started" THEN "stop" ELSE "start"
  PROVE  ButtonInv'
<1>0. PICK s : s = mainQ[1].sess
  OBVIOUS
<1>1. /\ \A i \in DOMAIN mainQ' :
           i \in Nat /\ i + 1 \in DOMAIN mainQ /\ i + 1 > 1 /\ mainQ'[i] = mainQ[i + 1]
      /\ 1 \in DOMAIN mainQ /\ mainQ[1].kind = k /\ main = "idle"
  BY TakeFacts
<1>2. /\ s \in Attempts /\ s \in Nat /\ s <= conn /\ conn \in Attempts /\ conn \in Nat
      /\ s = conn => \A i \in DOMAIN mainQ : mainQ[i].sess = conn
      /\ s # conn => told[conn] = <<>>
      /\ \A i \in DOMAIN mainQ : i # 1 /\ mainQ[i].sess = s => mainQ[i].kind \in After(k)
  BY <1>0, HeadFacts, Numbers
<1>3. /\ \A a \in Attempts : a # s => told'[a] = told[a]
      /\ k = "Started" => told'[s] = <<"Started">>
      /\ k # "Started" => told'[s] \in {<<"Started", "Stopped">>, <<"Error">>, <<"Started", "Error">>, <<"BadPass">>}
  BY <1>0, TellFacts
<1>4. k = "Started" => s = conn
  BY <1>0, <1>1, <1>2 DEF ButtonInv
<1>5. ASSUME NEW i \in DOMAIN mainQ', mainQ'[i].sess < conn'
      PROVE  mainQ'[i].kind # "Started" /\ mainQ'[i].kind # "Timeout"
  <2>1. i + 1 \in DOMAIN mainQ /\ mainQ'[i] = mainQ[i + 1] /\ mainQ[i + 1].sess < conn
    BY <1>1, <1>5
  <2>2. s # conn
    BY <1>2, <2>1
  <2>3. ~OnlyTimeoutsOld
    BY <1>0, <1>1, <1>2, <2>2 DEF OnlyTimeoutsOld
  <2>4. QED
    BY <2>1, <2>3 DEF ButtonInv
<1>6. ~(StartPosted' /\ ~broadcasting')
  <2>1. SUFFICES ASSUME StartPosted', ~broadcasting PROVE FALSE
    OBVIOUS
  <2>2. PICK i \in DOMAIN mainQ' : mainQ'[i].kind = "Started" /\ mainQ'[i].sess = conn
    BY <2>1 DEF StartPosted
  <2>3. i + 1 \in DOMAIN mainQ /\ i + 1 # 1 /\ mainQ[i + 1].kind = "Started" /\ mainQ[i + 1].sess = conn
    BY <1>1, <2>2
  <2>4. OnlyTimeoutsOld
    BY <2>1, <2>3 DEF ButtonInv, StartPosted
  <2>5. s = conn
    BY <1>0, <1>1, <1>2, <2>4 DEF OnlyTimeoutsOld
  <2>6. QED
    BY <1>2, <2>3, <2>5 DEF After
<1>7. button' = "stop" <=> told'[conn] = <<"Started">>
  <2>1. CASE k = "Started"
    BY <1>3, <1>4, <2>1
  <2>2. CASE k # "Started"
    <3>1. s # conn => told'[conn] # <<"Started">>
      BY <1>2, <1>3, Hears DEF Kinds
    <3>2. s = conn => told'[conn] # <<"Started">>
      BY <1>3, <2>2, Hears DEF Kinds
    <3>3. QED
      BY <2>2, <3>1, <3>2
  <2>3. QED
    BY <2>1, <2>2
<1>8. QED
  BY <1>2, <1>5, <1>6, <1>7 DEF ButtonInv

-----------------------------------------------------------------------------
(* The callbacks. *)

(* The failure that will stop the encoders is still posted when the head is *)
(* another block.                                                           *)
LEMMA FailureKept ==
  ASSUME TypeOK, EncoderInv, NEW k \in {"Started", "Stopped", "Reconnect", "Timeout"}, TakeBlock(k)
  PROVE  /\ FailurePosted => FailurePosted'
         /\ \A i \in DOMAIN mainQ' : mainQ'[i].kind = "Started" /\ ~broadcasting =>
              ClosingOnError \/ \E j \in DOMAIN mainQ' : i < j /\ mainQ'[j].kind = "Error"
<1>1. /\ \A i \in DOMAIN mainQ' :
           i \in Nat /\ i + 1 \in DOMAIN mainQ /\ i + 1 > 1 /\ mainQ'[i] = mainQ[i + 1]
      /\ \A i \in DOMAIN mainQ : i \in Nat /\ i >= 1
      /\ \A i \in DOMAIN mainQ : i # 1 => i - 1 \in DOMAIN mainQ' /\ mainQ'[i - 1] = mainQ[i]
      /\ mainQ[1].kind = k
  BY TakeFacts
<1>2. ASSUME FailurePosted PROVE FailurePosted'
  <2>1. PICK j \in DOMAIN mainQ : mainQ[j].kind \in {"Error", "BadPass"}
    BY <1>2 DEF FailurePosted
  <2>2. j # 1
    BY <1>1, <2>1
  <2>3. QED
    BY <1>1, <2>1, <2>2 DEF FailurePosted
<1>3. ASSUME NEW i \in DOMAIN mainQ', mainQ'[i].kind = "Started", ~broadcasting, ~ClosingOnError
      PROVE  \E j \in DOMAIN mainQ' : i < j /\ mainQ'[j].kind = "Error"
  <2>1. PICK j \in DOMAIN mainQ : i + 1 < j /\ mainQ[j].kind = "Error"
    BY <1>1, <1>3 DEF EncoderInv
  <2>2. j # 1 /\ i < j - 1
    BY <1>1, <2>1
  <2>3. QED
    BY <1>1, <2>1, <2>2
<1>4. QED
  BY <1>2, <1>3

(* The start callback, which turns the button and starts the encoders.      *)
LEMMA StartedKeeps == ASSUME TypeOK, CallInv, OnStarted PROVE CallInv'
<1>0. MainQueueInv /\ PostInv /\ ToldInv /\ HeardInv /\ AnswerInv /\ WatchInv
  BY DEF CallInv, MainQueueInv
<1>1. /\ TakeBlock("Started") /\ Tell /\ main = "idle"
      /\ UNCHANGED <<broadcasting, conn, main, reason, watchVars, rotating, slips>>
  BY DEF OnStarted, TakeBlock, videoVars
<1>2. PostInv' /\ ToldInv' /\ HeardInv'
  BY <1>0, <1>1, PostTaken, ToldHeard, HeardTaken
<1>3. AnswerInv' /\ WatchInv'
  BY <1>0, <1>1, AnswerHeard, WatchHeard
<1>4. ASSUME slips' = {} PROVE ButtonInv' /\ EncoderInv'
  <2>0. ButtonInv /\ EncoderInv
    BY <1>1, <1>4 DEF CallInv
  <2>1. button' = "stop" /\ encoders \subseteq encoders'
    BY DEF OnStarted
  <2>2. ButtonInv'
    BY <1>0, <1>1, <2>0, <2>1, ButtonHeard
  <2>3. /\ FailurePosted => FailurePosted'
        /\ \A i \in DOMAIN mainQ' : mainQ'[i].kind = "Started" /\ ~broadcasting =>
             ClosingOnError \/ \E j \in DOMAIN mainQ' : i < j /\ mainQ'[j].kind = "Error"
    BY <1>1, <2>0, FailureKept
  <2>4. ~broadcasting => FailurePosted
    <3>1. 1 \in DOMAIN mainQ /\ mainQ[1].kind = "Started"
      BY <1>1, TakeFacts
    <3>2. ~ClosingOnError
      BY <1>1 DEF ClosingOnError, Closing
    <3>3. QED
      BY <2>0, <3>1, <3>2 DEF EncoderInv, FailurePosted
  <2>5. EncoderInv'
    BY <1>1, <2>0, <2>1, <2>3, <2>4 DEF EncoderInv, ClosingOnError, Closing
  <2>6. QED
    BY <2>2, <2>5
<1>5. QED
  BY <1>2, <1>3, <1>4 DEF CallInv, MainQueueInv

(* The end of a broadcast the user stopped.                                 *)
LEMMA StoppedKeeps == ASSUME TypeOK, CallInv, OnStopped PROVE CallInv'
<1>0. MainQueueInv /\ PostInv /\ ToldInv /\ HeardInv /\ AnswerInv /\ WatchInv
  BY DEF CallInv, MainQueueInv
<1>1. /\ TakeBlock("Stopped") /\ Tell /\ main = "idle"
      /\ UNCHANGED <<broadcasting, conn, main, reason, encoders, watchVars, rotating, slips>>
  BY DEF OnStopped, TakeBlock, videoVars
<1>2. PostInv' /\ ToldInv' /\ HeardInv'
  BY <1>0, <1>1, PostTaken, ToldHeard, HeardTaken
<1>3. AnswerInv' /\ WatchInv'
  BY <1>0, <1>1, AnswerHeard, WatchHeard
<1>4. ASSUME slips' = {} PROVE ButtonInv' /\ EncoderInv'
  <2>0. ButtonInv /\ EncoderInv
    BY <1>1, <1>4 DEF CallInv
  <2>1. button' = "start"
    BY DEF OnStopped
  <2>2. ButtonInv'
    BY <1>0, <1>1, <2>0, <2>1, ButtonHeard
  <2>3. /\ FailurePosted => FailurePosted'
        /\ \A i \in DOMAIN mainQ' : mainQ'[i].kind = "Started" /\ ~broadcasting =>
             ClosingOnError \/ \E j \in DOMAIN mainQ' : i < j /\ mainQ'[j].kind = "Error"
    BY <1>1, <2>0, FailureKept
  <2>4. EncoderInv'
    BY <1>1, <2>0, <2>3 DEF EncoderInv, ClosingOnError, Closing
  <2>5. QED
    BY <2>2, <2>4
<1>5. QED
  BY <1>2, <1>3, <1>4 DEF CallInv, MainQueueInv

(* The error and the refused password, which stop the encoders.             *)
LEMMA FailureKeeps == ASSUME TypeOK, CallInv, OnFailure PROVE CallInv'
<1>0. MainQueueInv /\ PostInv /\ ToldInv /\ HeardInv /\ AnswerInv /\ WatchInv
  BY DEF CallInv, MainQueueInv
<1>1. PICK k \in {"Error", "BadPass"} : TakeBlock(k)
  BY DEF OnFailure
<1>2. /\ Tell /\ main = "idle" /\ main' = "joinError" /\ encoders' = {}
      /\ UNCHANGED <<broadcasting, conn, reason, watchVars, rotating>> /\ StopsInRotation
  BY Numbers DEF OnFailure, TakeBlock, StoppedOnFailure
<1>3. PostInv' /\ ToldInv' /\ HeardInv'
  BY <1>0, <1>1, <1>2, PostTaken, ToldHeard, HeardTaken
<1>4. AnswerInv' /\ WatchInv'
  BY <1>0, <1>1, <1>2, AnswerHeard, WatchHeard
<1>5. ASSUME slips' = {} PROVE ButtonInv' /\ EncoderInv'
  <2>0. ButtonInv /\ EncoderInv /\ ~rotating'
    BY <1>2, <1>5 DEF CallInv, StopsInRotation
  <2>1. button' = "start"
    BY DEF OnFailure
  <2>2. ButtonInv'
    BY <1>0, <1>1, <1>2, <2>0, <2>1, ButtonHeard
  <2>3. ASSUME NEW i \in DOMAIN mainQ', mainQ'[i].kind = "Started", ~broadcasting
        PROVE  \E j \in DOMAIN mainQ' : i < j /\ mainQ'[j].kind = "Error"
    <3>1. /\ \A n \in DOMAIN mainQ' :
               n \in Nat /\ n + 1 \in DOMAIN mainQ /\ n + 1 > 1 /\ mainQ'[n] = mainQ[n + 1]
          /\ \A n \in DOMAIN mainQ : n \in Nat /\ n >= 1
          /\ \A n \in DOMAIN mainQ : n # 1 => n - 1 \in DOMAIN mainQ' /\ mainQ'[n - 1] = mainQ[n]
      BY <1>1, TakeFacts
    <3>2. ~ClosingOnError
      BY <1>2 DEF ClosingOnError, Closing
    <3>3. PICK j \in DOMAIN mainQ : i + 1 < j /\ mainQ[j].kind = "Error"
      BY <2>0, <2>3, <3>1, <3>2 DEF EncoderInv
    <3>4. j # 1 /\ i < j - 1
      BY <3>1, <3>3
    <3>5. QED
      BY <3>1, <3>3, <3>4
  <2>4. EncoderInv'
    BY <1>2, <2>0, <2>3 DEF EncoderInv
  <2>5. QED
    BY <2>2, <2>4
<1>6. QED
  BY <1>3, <1>4, <1>5 DEF CallInv, MainQueueInv

-----------------------------------------------------------------------------
(* A connect begins, and the watchdog's timeout ends a broadcast. *)

(* The next attempt begins with nothing posted or heard of it.              *)
LEMMA EnterKeeps ==
  ASSUME TypeOK, AnswerInv, WatchInv, PostInv,
         EnterConnect, UNCHANGED <<broadcasting, told, timer, watch>>, ~broadcasting,
         \A i \in DOMAIN mainQ' : \E j \in DOMAIN mainQ : mainQ'[i] = mainQ[j]
  PROVE  HeardInv' /\ AnswerInv' /\ WatchInv' /\ told'[conn'] = <<>> /\ conn' \in Attempts
<1>1. /\ conn \in Nat /\ conn' = conn + 1 /\ conn' \in Attempts /\ main' = "setup"
      /\ \A a \in Attempts : a \in Nat
  BY Numbers DEF EnterConnect, Attempts
<1>2. told'[conn'] = <<>>
  <2>1. conn + 1 > conn /\ conn + 1 \in Attempts
    BY <1>1
  <2>2. told[conn + 1] = <<>>
    BY <2>1 DEF AnswerInv
  <2>3. QED
    BY <1>1, <2>2
<1>3. \A i \in DOMAIN mainQ' : mainQ'[i].sess \in 1..conn
  BY DEF PostInv
<1>4. AnswerInv'
  <2>1. ASSUME NEW a \in Attempts, a > conn' PROVE told'[a] = <<>>
    <3>1. a > conn
      BY <1>1, <2>1
    <3>2. told[a] = <<>>
      BY <3>1 DEF AnswerInv
    <3>3. QED
      BY <3>2
  <2>2. \A i \in DOMAIN mainQ' : mainQ'[i].sess # conn'
    BY <1>1, <1>3
  <2>3. ~Running' /\ ~Closing'
    BY <1>1 DEF Running, Closing
  <2>4. QED
    BY <1>2, <2>1, <2>2, <2>3 DEF AnswerInv
<1>5. WatchInv'
  BY DEF EnterConnect, WatchInv, Running
<1>6. HeardInv'
  BY <1>2 DEF HeardInv
<1>7. QED
  BY <1>1, <1>2, <1>4, <1>5, <1>6

(* What it leaves of the button and of the encoders.                        *)
LEMMA EnterButton ==
  ASSUME EnterConnect, ~broadcasting', button' # "stop", conn' \in Attempts, told'[conn'] = <<>>,
         EncoderInv, encoders \subseteq encoders', rotating' = rotating,
         \A i \in DOMAIN mainQ' : mainQ'[i].kind # "Started",
         \/ \A i \in DOMAIN mainQ' : mainQ'[i].kind # "Timeout"
         \/ button' = "busy" /\ \A i \in DOMAIN mainQ' : mainQ'[i].kind = "Timeout"
  PROVE  ButtonInv' /\ EncoderInv'
<1>1. ButtonInv'
  <2>1. ~StartPosted'
    BY DEF StartPosted
  <2>2. \A i \in DOMAIN mainQ' : mainQ'[i].kind = "Timeout" => button' = "busy" /\ OnlyTimeoutsOld'
    BY DEF OnlyTimeoutsOld
  <2>3. told'[conn'] # <<"Started">>
    BY Hears DEF Kinds
  <2>4. QED
    BY <2>1, <2>2, <2>3 DEF ButtonInv
<1>2. EncoderInv'
  <2>1. main' = "setup"
    BY DEF EnterConnect
  <2>2. QED
    BY <2>1 DEF EncoderInv, Closing
<1>3. QED
  BY <1>1, <1>2

(* The user's start: with the button free nothing is under way.             *)
LEMMA StartKeeps == ASSUME TypeOK, CallInv, StartStream PROVE CallInv'
<1>0. MainQueueInv /\ PostInv /\ ToldInv /\ HeardInv /\ AnswerInv /\ WatchInv
  BY DEF CallInv, MainQueueInv
<1>1. /\ main = "idle" /\ button = "start" /\ button' = "busy" /\ encoders \subseteq encoders'
      /\ UNCHANGED <<broadcasting, mainQ, told, timer, watch, reason, rotating, slips>>
  BY DEF StartStream, videoVars
<1>2. CASE ~broadcasting
  <2>1. EnterConnect /\ conn \in Nat /\ conn' = conn + 1
    BY <1>2, Numbers DEF StartStream, Connect, ConnectWhileBroadcasting, EnterConnect
  <2>2. PostInv' /\ ToldInv'
    <3>1. \A i \in DOMAIN mainQ : mainQ[i].sess \in 1..conn'
      BY <1>0, <2>1 DEF PostInv
    <3>2. PostInv'
      BY <1>0, <1>1, <3>1 DEF PostInv
    <3>3. QED
      BY <1>0, <1>1, <3>2 DEF ToldInv, CallbackProtocol
  <2>3. HeardInv' /\ AnswerInv' /\ WatchInv' /\ told'[conn'] = <<>> /\ conn' \in Attempts
    BY <1>0, <1>1, <1>2, <2>1, EnterKeeps
  <2>4. ASSUME slips' = {} PROVE ButtonInv' /\ EncoderInv'
    <3>0. ButtonInv /\ EncoderInv
      BY <1>1, <2>4 DEF CallInv
    <3>1. \A i \in DOMAIN mainQ : mainQ[i].sess < conn \/ mainQ[i].sess = conn
      BY <1>0, <2>1 DEF PostInv
    <3>2. \A i \in DOMAIN mainQ : mainQ[i].kind # "Started"
      BY <1>1, <1>2, <3>0, <3>1 DEF ButtonInv, StartPosted
    <3>3. ASSUME NEW i \in DOMAIN mainQ, mainQ[i].kind = "Timeout"
          PROVE  \A j \in DOMAIN mainQ : mainQ[j].kind = "Timeout"
      <4>1. mainQ[i].sess = conn /\ conn \in Attempts
        BY <1>0, <1>1, <3>0, <3>1, <3>3, Numbers DEF ButtonInv, PostInv
      <4>2. told[conn] # <<>>
        BY <1>0, <3>2, <3>3, <4>1 DEF ToldInv, Cause
      <4>3. \A j \in DOMAIN mainQ : mainQ[j].sess = conn /\ mainQ[j].kind \in Expected(told[conn])
        BY <1>0, <4>1, <4>2 DEF HeardInv, ToldInv
      <4>4. told[conn] \in {<<"Error">>, <<"BadPass">>, <<"Started", "Stopped">>, <<"Started", "Error">>}
        BY <1>0, <1>1, <3>0, <4>1, <4>2 DEF ToldInv, CallbackProtocol, ButtonInv
      <4>5. told[conn] \in {<<"Started", "Stopped">>, <<"Started", "Error">>}
        BY <3>3, <4>3, <4>4, Expects
      <4>6. QED
        BY <4>3, <4>5, Expects
    <3>4. QED
      BY <1>1, <1>2, <2>1, <2>3, <3>0, <3>2, <3>3, EnterButton
  <2>5. QED
    BY <2>2, <2>3, <2>4 DEF CallInv, MainQueueInv
<1>3. CASE broadcasting
  <2>1. UNCHANGED <<conn, main, missed>>
    BY <1>3 DEF StartStream, Connect, ConnectWhileBroadcasting
  <2>2. PostInv' /\ ToldInv' /\ AnswerInv' /\ HeardInv'
    BY <1>0, <1>1, <2>1 DEF PostInv, ToldInv, CallbackProtocol, AnswerInv, HeardInv, HasStarted,
      StartPosted, Running, Closing
  <2>3. WatchInv'
    BY <1>0, <1>1, <2>1 DEF WatchInv, HasStarted, StartPosted, Running
  <2>4. ASSUME slips' = {} PROVE ButtonInv' /\ EncoderInv'
    <3>0. ButtonInv /\ EncoderInv
      BY <1>1, <2>4 DEF CallInv
    <3>1. ButtonInv'
      BY <1>1, <1>3, <2>1, <3>0 DEF ButtonInv, StartPosted, OnlyTimeoutsOld
    <3>2. EncoderInv'
      BY <1>1, <1>3, <2>1, <3>0 DEF EncoderInv, Closing
    <3>3. QED
      BY <3>1, <3>2
  <2>5. QED
    BY <2>2, <2>3, <2>4 DEF CallInv, MainQueueInv
<1>4. QED
  BY <1>2, <1>3

(* A block that is no callback leaves what was announced.                   *)
LEMMA AnswerTaken ==
  ASSUME TypeOK, PostInv, ToldInv, HeardInv, AnswerInv,
         NEW k \in {"Reconnect", "Timeout"}, TakeBlock(k), UNCHANGED <<told, conn>>,
         main' \notin {"setup", "connected"}, Running' \/ Closing' => Running
  PROVE  AnswerInv'
<1>1. \A i \in DOMAIN mainQ' : i + 1 \in DOMAIN mainQ /\ mainQ'[i] = mainQ[i + 1]
  BY TakeFacts
<1>2. ASSUME Running
      PROVE  /\ HasStarted' /\ told'[conn'] \in {<<>>, <<"Started">>}
             /\ \A i \in DOMAIN mainQ' : mainQ'[i].sess = conn' => mainQ'[i].kind \notin Ends
  BY <1>1, <1>2, StartKept DEF AnswerInv
<1>3. QED
  BY <1>2 DEF AnswerInv

(* Nor does it change what the button shows.                                *)
LEMMA ButtonTaken ==
  ASSUME TypeOK, PostInv, ToldInv, HeardInv, ButtonInv,
         NEW k \in {"Reconnect", "Timeout"}, TakeBlock(k), UNCHANGED <<told, conn, button>>,
         broadcasting' = broadcasting \/ k = "Timeout"
  PROVE  ButtonInv'
<1>0. PICK s : s = mainQ[1].sess
  OBVIOUS
<1>1. /\ \A i \in DOMAIN mainQ' :
           i \in Nat /\ i + 1 \in DOMAIN mainQ /\ i + 1 > 1 /\ mainQ'[i] = mainQ[i + 1]
      /\ 1 \in DOMAIN mainQ /\ mainQ[1].kind = k
  BY TakeFacts
<1>2. OnlyTimeoutsOld => OnlyTimeoutsOld'
  BY <1>1 DEF OnlyTimeoutsOld
<1>3. ASSUME StartPosted', ~broadcasting' PROVE button = "busy" /\ OnlyTimeoutsOld
  <2>1. PICK i \in DOMAIN mainQ' : mainQ'[i].kind = "Started" /\ mainQ'[i].sess = conn
    BY <1>3 DEF StartPosted
  <2>2. i + 1 \in DOMAIN mainQ /\ i + 1 # 1 /\ mainQ[i + 1].kind = "Started" /\ mainQ[i + 1].sess = conn
    BY <1>1, <2>1
  <2>3. CASE ~broadcasting
    BY <2>2, <2>3 DEF ButtonInv, StartPosted
  <2>4. CASE broadcasting
    <3>1. k = "Timeout"
      BY <1>3, <2>4
    <3>2. s # conn /\ s \in Nat /\ s <= conn
      BY <1>0, <2>2, <3>1, HeadFacts DEF After
    <3>3. QED
      BY <1>0, <1>1, <3>1, <3>2, Numbers DEF ButtonInv
  <2>5. QED
    BY <2>3, <2>4
<1>4. QED
  BY <1>1, <1>2, <1>3 DEF ButtonInv

(* The reconnect after an error: its attempt has failed and was heard of.   *)
LEMMA ReconnectKeeps == ASSUME TypeOK, CallInv, OnReconnect PROVE CallInv'
<1>0. MainQueueInv /\ PostInv /\ ToldInv /\ HeardInv /\ AnswerInv /\ WatchInv
  BY DEF CallInv, MainQueueInv
<1>1. /\ TakeBlock("Reconnect") /\ main = "idle"
      /\ UNCHANGED <<broadcasting, reason, button, encoders, told, timer, watch, rotating, slips>>
  BY DEF OnReconnect, TakeBlock, videoVars
<1>2. ToldInv'
  BY <1>0, <1>1, ToldTaken
<1>3. CASE ~broadcasting /\ EnterConnect
  <2>0. PICK s : s = mainQ[1].sess
    OBVIOUS
  <2>1. /\ \A i \in DOMAIN mainQ' :
             i \in Nat /\ i + 1 \in DOMAIN mainQ /\ i + 1 > 1 /\ mainQ'[i] = mainQ[i + 1]
        /\ 1 \in DOMAIN mainQ /\ mainQ[1].kind = "Reconnect"
    BY <1>1, TakeFacts
  <2>2. /\ s \in Nat /\ s <= conn /\ conn \in Attempts /\ conn \in Nat /\ s \in Attempts
        /\ s = conn => \A i \in DOMAIN mainQ : mainQ[i].sess = conn
        /\ s # conn => told[conn] = <<>>
        /\ told[s] = <<"Error">>
    BY <1>0, <1>1, <2>0, HeadFacts, HeardOf, Numbers
  <2>3. conn' = conn + 1 /\ PostInv'
    BY <1>0, <1>1, <1>3, PostTaken DEF EnterConnect
  <2>4. HeardInv' /\ AnswerInv' /\ WatchInv' /\ told'[conn'] = <<>> /\ conn' \in Attempts
    BY <1>0, <1>1, <1>3, <2>1, EnterKeeps
  <2>5. ASSUME slips' = {} PROVE ButtonInv' /\ EncoderInv'
    <3>0. ButtonInv /\ EncoderInv
      BY <1>1, <2>5 DEF CallInv
    <3>1. s # conn => ~OnlyTimeoutsOld
      BY <2>0, <2>1, <2>2 DEF OnlyTimeoutsOld
    <3>2. s = conn => \A i \in DOMAIN mainQ : mainQ[i].kind = "Reconnect"
      BY <1>0, <2>2, Expects DEF ToldInv
    <3>3. ASSUME s # conn, NEW i \in DOMAIN mainQ PROVE mainQ[i].kind \notin {"Started", "Timeout"}
      <4>1. ~StartPosted
        BY <1>3, <3>0, <3>1, <3>3 DEF ButtonInv
      <4>2. CASE mainQ[i].sess < conn
        BY <3>0, <3>1, <3>3, <4>2 DEF ButtonInv
      <4>3. CASE mainQ[i].sess = conn
        <5>1. mainQ[i].kind # "Started"
          BY <4>1, <4>3 DEF StartPosted
        <5>2. mainQ[i].kind # "Timeout"
          BY <1>0, <2>2, <3>3, <4>1, <4>3 DEF ToldInv, Cause, StartPosted
        <5>3. QED
          BY <5>1, <5>2
      <4>4. QED
        BY <1>0, <2>2, <4>2, <4>3 DEF PostInv
    <3>4. \A i \in DOMAIN mainQ' : mainQ'[i].kind \notin {"Started", "Timeout"}
      BY <2>1, <3>2, <3>3
    <3>5. button' # "stop"
      <4>1. told[conn] # <<"Started">>
        BY <2>2, Hears DEF Kinds
      <4>2. QED
        BY <1>1, <2>2, <3>0, <4>1 DEF ButtonInv
    <3>6. QED
      BY <1>1, <1>3, <2>4, <3>0, <3>4, <3>5, EnterButton
  <2>6. QED
    BY <1>2, <2>3, <2>4, <2>5 DEF CallInv, MainQueueInv
<1>4. CASE UNCHANGED <<conn, main, missed>>
  <2>1. PostInv' /\ HeardInv'
    BY <1>0, <1>1, <1>4, PostTaken, HeardTaken
  <2>2. AnswerInv'
    <3>1. main' \notin {"setup", "connected"} /\ (Running' \/ Closing' => Running)
      BY <1>1, <1>4 DEF Running, Closing
    <3>2. QED
      BY <1>0, <1>1, <1>4, <3>1, AnswerTaken
  <2>3. WatchInv'
    <3>1. missed' > 0 => HasStarted'
      BY <1>0, <1>1, <1>4, StartKept DEF WatchInv
    <3>2. QED
      BY <1>0, <1>1, <1>4, <3>1 DEF WatchInv, Running
  <2>4. ASSUME slips' = {} PROVE ButtonInv' /\ EncoderInv'
    <3>0. ButtonInv /\ EncoderInv
      BY <1>1, <2>4 DEF CallInv
    <3>1. ButtonInv'
      BY <1>0, <1>1, <1>4, <3>0, ButtonTaken
    <3>2. /\ FailurePosted => FailurePosted'
          /\ \A i \in DOMAIN mainQ' : mainQ'[i].kind = "Started" /\ ~broadcasting =>
               ClosingOnError \/ \E j \in DOMAIN mainQ' : i < j /\ mainQ'[j].kind = "Error"
      BY <1>1, <3>0, FailureKept
    <3>3. EncoderInv'
      BY <1>1, <1>4, <3>0, <3>2 DEF EncoderInv, ClosingOnError, Closing
    <3>4. QED
      BY <3>1, <3>3
  <2>5. QED
    BY <1>2, <2>1, <2>2, <2>3, <2>4 DEF CallInv, MainQueueInv
<1>5. QED
  BY <1>3, <1>4 DEF OnReconnect, Connect, ConnectWhileBroadcasting

(* The watchdog's timeout ends a broadcast that is still on, whichever.     *)
LEMMA TimeoutKeeps == ASSUME TypeOK, CallInv, OnTimeout PROVE CallInv'
<1>0. MainQueueInv /\ PostInv /\ ToldInv /\ HeardInv /\ AnswerInv /\ WatchInv
  BY DEF CallInv, MainQueueInv
<1>1. /\ TakeBlock("Timeout") /\ main = "idle"
      /\ UNCHANGED <<conn, button, encoders, told, watch, missed, rotating, slips>>
  BY DEF OnTimeout, TakeBlock, videoVars
<1>2. \/ broadcasting /\ EnterDisconnect("Error")
      \/ ~broadcasting /\ main' = "idle" /\ UNCHANGED <<broadcasting, reason, timer>>
  BY DEF OnTimeout, Disconnect, MayDisconnect
<1>3. PostInv' /\ ToldInv' /\ HeardInv'
  BY <1>0, <1>1, PostTaken, ToldTaken, HeardTaken
<1>4. main' \in {"idle", "flagged"} /\ (Running' \/ Closing' => Running)
  BY <1>1, <1>2 DEF EnterDisconnect, Running, Closing
<1>5. AnswerInv'
  BY <1>0, <1>1, <1>4, AnswerTaken
<1>6. WatchInv'
  <2>1. missed' > 0 => HasStarted'
    BY <1>0, <1>1, StartKept DEF WatchInv
  <2>2. \A g \in Attempts : timer'[g] # "armed"
    <3>1. timer \in [Attempts -> {"none", "armed", "off"}]
      BY DEF TypeOK, WatchTyped
    <3>2. QED
      BY <1>0, <1>2, <3>1 DEF WatchInv, EnterDisconnect, Running
  <2>3. QED
    BY <2>1, <2>2 DEF WatchInv
<1>7. ASSUME slips' = {} PROVE ButtonInv' /\ EncoderInv'
  <2>0. ButtonInv /\ EncoderInv
    BY <1>1, <1>7 DEF CallInv
  <2>1. ButtonInv'
    BY <1>0, <1>1, <2>0, ButtonTaken
  <2>2. /\ FailurePosted => FailurePosted'
        /\ \A i \in DOMAIN mainQ' : mainQ'[i].kind = "Started" /\ ~broadcasting =>
             ClosingOnError \/ \E j \in DOMAIN mainQ' : i < j /\ mainQ'[j].kind = "Error"
    BY <1>1, <2>0, FailureKept
  <2>3. CASE broadcasting /\ EnterDisconnect("Error")
    BY <1>1, <2>0, <2>1, <2>3 DEF EncoderInv, EnterDisconnect, ClosingOnError, Closing
  <2>4. CASE ~broadcasting /\ main' = "idle" /\ UNCHANGED <<broadcasting, reason, timer>>
    <3>1. EncoderInv'
      BY <1>1, <2>0, <2>2, <2>4 DEF EncoderInv, ClosingOnError, Closing
    <3>2. QED
      BY <2>1, <3>1
  <2>5. QED
    BY <1>2, <2>1, <2>3, <2>4
<1>8. QED
  BY <1>3, <1>5, <1>6, <1>7 DEF CallInv, MainQueueInv

-----------------------------------------------------------------------------
(* A block is posted. *)

(* A block of the current attempt.                                          *)
LEMMA NoticeFacts ==
  ASSUME TypeOK, NEW k \in Kinds
  PROVE  Notice(k) \in Notices /\ Notice(k).kind = k /\ Notice(k).sess = conn
BY DEF Notice, Notices, TypeOK, MainTyped, Handles

(* What an announced attempt has heard, and what is posted for it.          *)
LEMMA StartedSo ==
  ASSUME TypeOK, PostInv, ToldInv, HasStarted
  PROVE  /\ told[conn] \in {<<>>, <<"Started">>, <<"Started", "Stopped">>, <<"Started", "Error">>}
         /\ told[conn] = <<>> => StartPosted
         /\ \A i \in DOMAIN mainQ : mainQ[i].sess = conn => mainQ[i].kind \notin {"Reconnect", "BadPass"}
<1>1. conn \in Attempts
  BY DEF HasStarted
<1>2. told[conn] \in {<<>>, <<"Error">>, <<"BadPass">>, <<"Started">>,
                      <<"Started", "Stopped">>, <<"Started", "Error">>}
  BY <1>1 DEF ToldInv, CallbackProtocol
<1>3. told[conn] = <<>> => StartPosted
  BY DEF HasStarted
<1>4. StartPosted => "Started" \in Expected(told[conn])
  BY DEF StartPosted, ToldInv
<1>5. told[conn] \notin {<<"Error">>, <<"BadPass">>}
  <2>1. told[conn] = <<"Error">> => ~StartPosted /\ told[conn][1] # "Started"
    BY <1>4, Expects, Hears DEF Kinds
  <2>2. told[conn] = <<"BadPass">> => ~StartPosted /\ told[conn][1] # "Started"
    BY <1>4, Expects, Hears DEF Kinds
  <2>3. QED
    BY <2>1, <2>2 DEF HasStarted
<1>6. ASSUME NEW i \in DOMAIN mainQ, mainQ[i].sess = conn
      PROVE  mainQ[i].kind \notin {"Reconnect", "BadPass"}
  <2>1. mainQ[i].kind \in Expected(told[conn])
    BY <1>6 DEF ToldInv
  <2>2. CASE told[conn] # <<>>
    BY <1>2, <1>5, <2>1, <2>2, Expects
  <2>3. CASE told[conn] = <<>>
    <3>1. PICK j \in DOMAIN mainQ : mainQ[j].kind = "Started" /\ mainQ[j].sess = conn
      BY <1>3, <2>3 DEF StartPosted
    <3>2. i \in Nat /\ j \in Nat
      BY DEF TypeOK, MainTyped
    <3>3. i < j => "Started" \in After(mainQ[i].kind)
      BY <1>6, <3>1 DEF PostInv
    <3>4. j < i => mainQ[i].kind \in After("Started")
      BY <1>6, <3>1 DEF PostInv
    <3>5. QED
      BY <3>1, <3>2, <3>3, <3>4 DEF After
  <2>4. QED
    BY <2>2, <2>3
<1>7. QED
  BY <1>2, <1>3, <1>5, <1>6

(* One block more for the current attempt.                                  *)
LEMMA PostKeeps ==
  ASSUME TypeOK, PostInv, ToldInv, conn \in Attempts, NEW n \in Notices, n.sess = conn,
         mainQ' = Append(mainQ, n), UNCHANGED <<conn, told>>,
         \A i \in DOMAIN mainQ : mainQ[i].sess = conn => n.kind \in After(mainQ[i].kind),
         n.kind \in Expected(told[conn]),
         told[conn] = <<>> /\ n.kind \in {"Stopped", "Timeout"} => StartPosted,
         n.kind # "Reconnect"
  PROVE  PostInv' /\ ToldInv' /\ (HasStarted => HasStarted')
<1>1. \A i \in DOMAIN mainQ : i \in DOMAIN mainQ' /\ mainQ'[i] = mainQ[i]
  BY PostFacts
<1>2. PICK l \in DOMAIN mainQ' :
        /\ mainQ'[l] = n /\ l \in Nat
        /\ \A i \in DOMAIN mainQ : i \in Nat /\ i < l
        /\ \A i \in DOMAIN mainQ' : i \in DOMAIN mainQ \/ i = l
  BY PostFacts
<1>3. conn \in Nat /\ conn \in 1..conn
  BY Numbers
<1>4. PostInv'
  <2>1. ASSUME NEW i \in DOMAIN mainQ' PROVE mainQ'[i].sess \in 1..conn'
    BY <1>1, <1>2, <1>3 DEF PostInv
  <2>2. ASSUME NEW i \in DOMAIN mainQ', NEW j \in DOMAIN mainQ', i < j
        PROVE  /\ mainQ'[i].sess <= mainQ'[j].sess
               /\ mainQ'[i].sess = mainQ'[j].sess => mainQ'[j].kind \in After(mainQ'[i].kind)
    <3>1. i \in DOMAIN mainQ
      BY <1>2, <2>2
    <3>2. CASE j \in DOMAIN mainQ
      BY <1>1, <2>2, <3>1, <3>2 DEF PostInv
    <3>3. CASE j = l
      <4>1. mainQ[i].sess \in 1..conn
        BY <3>1 DEF PostInv
      <4>2. QED
        BY <1>1, <1>2, <1>3, <3>1, <3>3, <4>1
    <3>4. QED
      BY <1>2, <3>2, <3>3
  <2>3. QED
    BY <2>1, <2>2 DEF PostInv
<1>5. ToldInv'
  <2>1. CallbackProtocol'
    BY DEF ToldInv, CallbackProtocol
  <2>2. ASSUME NEW i \in DOMAIN mainQ' PROVE mainQ'[i].kind \in Expected(told'[mainQ'[i].sess])
    BY <1>1, <1>2 DEF ToldInv
  <2>3. ASSUME NEW i \in DOMAIN mainQ', told'[mainQ'[i].sess] = <<>>,
               mainQ'[i].kind \in {"Stopped", "Timeout", "Reconnect"}
        PROVE  \E j \in DOMAIN mainQ' :
                 j < i /\ mainQ'[j].sess = mainQ'[i].sess /\ mainQ'[j].kind = Cause(mainQ'[i].kind)
    <3>1. CASE i \in DOMAIN mainQ
      <4>1. PICK j \in DOMAIN mainQ :
              j < i /\ mainQ[j].sess = mainQ[i].sess /\ mainQ[j].kind = Cause(mainQ[i].kind)
        BY <1>1, <2>3, <3>1 DEF ToldInv
      <4>2. QED
        BY <1>1, <3>1, <4>1
    <3>2. CASE i = l
      <4>1. told[conn] = <<>> /\ n.kind \in {"Stopped", "Timeout"}
        BY <1>2, <2>3, <3>2
      <4>2. PICK j \in DOMAIN mainQ : mainQ[j].kind = "Started" /\ mainQ[j].sess = conn
        BY <4>1 DEF StartPosted
      <4>3. QED
        BY <1>1, <1>2, <3>2, <4>1, <4>2 DEF Cause
    <3>3. QED
      BY <1>2, <3>1, <3>2
  <2>4. QED
    BY <2>1, <2>2, <2>3 DEF ToldInv
<1>6. HasStarted => HasStarted'
  <2>1. StartPosted => StartPosted'
    BY <1>1 DEF StartPosted
  <2>2. QED
    BY <2>1 DEF HasStarted
<1>7. QED
  BY <1>4, <1>5, <1>6

(* It is of the attempt whose blocks are run.                               *)
LEMMA HeardPost ==
  ASSUME TypeOK, HeardInv, NEW n \in Notices, n.sess = conn, mainQ' = Append(mainQ, n),
         UNCHANGED <<conn, told>>
  PROVE  HeardInv'
<1>1. \A i \in DOMAIN mainQ' : (i \in DOMAIN mainQ /\ mainQ'[i] = mainQ[i]) \/ mainQ'[i] = n
  BY PostFacts
<1>2. QED
  BY <1>1 DEF HeardInv

(* The start is announced.                                                  *)
LEMMA ConnectedKeeps == ASSUME TypeOK, FlagInv, CallInv, Connected PROVE CallInv'
<1>0. MainQueueInv /\ PostInv /\ ToldInv /\ HeardInv /\ AnswerInv /\ WatchInv
  BY DEF CallInv, MainQueueInv
<1>1. /\ main = "connected" /\ main' = "idle" /\ broadcasting /\ conn \in Attempts /\ conn \in Nat
      /\ UNCHANGED <<broadcasting, conn, reason, button, encoders, told, missed, rotating, slips>>
  BY Numbers DEF Connected, FlagInv, videoVars
<1>2. PICK n \in Notices : n = Notice("Started") /\ n.kind = "Started" /\ n.sess = conn
  BY NoticeFacts DEF Kinds
<1>3. mainQ' = Append(mainQ, n)
  BY <1>2 DEF Connected
<1>4. told[conn] = <<>> /\ \A i \in DOMAIN mainQ : mainQ[i].sess # conn
  BY <1>0, <1>1 DEF AnswerInv
<1>5. PostInv' /\ ToldInv'
  <2>1. n.kind \in Expected(told[conn])
    BY <1>2, <1>4, Expects DEF Kinds
  <2>2. QED
    BY <1>0, <1>1, <1>2, <1>3, <1>4, <2>1, PostKeeps
<1>6. \A i \in DOMAIN mainQ : i \in DOMAIN mainQ' /\ mainQ'[i] = mainQ[i]
  BY <1>3, PostFacts
<1>7. PICK l \in DOMAIN mainQ' :
        /\ mainQ'[l] = n /\ l \in Nat
        /\ \A i \in DOMAIN mainQ' : i \in DOMAIN mainQ \/ i = l
  BY <1>3, PostFacts
<1>8. StartPosted' /\ HasStarted'
  BY <1>1, <1>2, <1>7 DEF StartPosted, HasStarted
<1>h. HeardInv'
  BY <1>1, <1>4 DEF HeardInv
<1>9. AnswerInv'
  <2>1. \A i \in DOMAIN mainQ' : mainQ'[i].sess = conn' => mainQ'[i].kind \notin Ends
    BY <1>1, <1>2, <1>4, <1>6, <1>7 DEF Ends
  <2>2. QED
    BY <1>0, <1>1, <1>4, <1>8, <2>1 DEF AnswerInv
<1>10. WatchInv'
  <2>1. \A g \in Attempts : timer[g] # "armed"
    BY <1>0, <1>1 DEF WatchInv, Running
  <2>2. timer \in [Attempts -> {"none", "armed", "off"}]
    BY DEF TypeOK, WatchTyped
  <2>3. \A g \in Attempts : timer'[g] = "armed" => g = watch' /\ ~UseTCP
    BY <1>1, <2>1, <2>2 DEF Connected
  <2>4. QED
    BY <1>1, <1>8, <2>3 DEF WatchInv, Running
<1>11. ASSUME slips' = {} PROVE ButtonInv' /\ EncoderInv'
  <2>0. ButtonInv /\ EncoderInv
    BY <1>1, <1>11 DEF CallInv
  <2>1. \A i \in DOMAIN mainQ' : mainQ'[i].sess < conn => i \in DOMAIN mainQ
    BY <1>1, <1>2, <1>7
  <2>2. OnlyTimeoutsOld => OnlyTimeoutsOld'
    BY <1>1, <1>6, <2>1 DEF OnlyTimeoutsOld
  <2>3. ButtonInv'
    BY <1>1, <1>4, <1>6, <2>0, <2>1, <2>2 DEF ButtonInv
  <2>4. EncoderInv'
    BY <1>1, <2>0 DEF EncoderInv, Closing
  <2>5. QED
    BY <2>3, <2>4
<1>12. QED
  BY <1>5, <1>h, <1>9, <1>10, <1>11 DEF CallInv, MainQueueInv

(* What a later block of the current attempt leaves of the button and of    *)
(* the encoders' end.                                                       *)
LEMMA LaterPost ==
  ASSUME TypeOK, ButtonInv, EncoderInv, NEW n \in Notices, n.sess = conn, n.kind # "Started",
         mainQ' = Append(mainQ, n), conn \in Attempts,
         UNCHANGED <<broadcasting, conn, button, told>>
  PROVE  /\ ButtonInv'
         /\ FailurePosted => FailurePosted'
         /\ n.kind = "Error" => FailurePosted'
         /\ \A i \in DOMAIN mainQ' : mainQ'[i].kind = "Started" /\ ~broadcasting =>
              (ClosingOnError /\ n.kind # "Error") \/ \E j \in DOMAIN mainQ' : i < j /\ mainQ'[j].kind = "Error"
<1>1. \A i \in DOMAIN mainQ : i \in DOMAIN mainQ' /\ mainQ'[i] = mainQ[i]
  BY PostFacts
<1>2. PICK l \in DOMAIN mainQ' :
        /\ mainQ'[l] = n /\ l \in Nat
        /\ \A i \in DOMAIN mainQ : i \in Nat /\ i < l
        /\ \A i \in DOMAIN mainQ' : i \in DOMAIN mainQ \/ i = l
  BY PostFacts
<1>3. conn \in Nat
  BY Numbers
<1>4. \A i \in DOMAIN mainQ' : mainQ'[i].sess < conn => i \in DOMAIN mainQ
  BY <1>2, <1>3
<1>5. OnlyTimeoutsOld => OnlyTimeoutsOld'
  BY <1>1, <1>4 DEF OnlyTimeoutsOld
<1>6. StartPosted' => StartPosted
  BY <1>1, <1>2 DEF StartPosted
<1>7. ButtonInv'
  BY <1>1, <1>2, <1>4, <1>5, <1>6 DEF ButtonInv
<1>8. (FailurePosted => FailurePosted') /\ (n.kind = "Error" => FailurePosted')
  BY <1>1, <1>2 DEF FailurePosted
<1>9. ASSUME NEW i \in DOMAIN mainQ', mainQ'[i].kind = "Started", ~broadcasting
      PROVE  (ClosingOnError /\ n.kind # "Error") \/ \E j \in DOMAIN mainQ' : i < j /\ mainQ'[j].kind = "Error"
  <2>1. i \in DOMAIN mainQ /\ mainQ[i].kind = "Started"
    BY <1>1, <1>2, <1>9
  <2>2. CASE n.kind = "Error"
    BY <1>2, <2>1, <2>2
  <2>3. CASE n.kind # "Error"
    <3>1. ClosingOnError \/ \E j \in DOMAIN mainQ : i < j /\ mainQ[j].kind = "Error"
      BY <1>9, <2>1 DEF EncoderInv
    <3>2. QED
      BY <1>1, <2>3, <3>1
  <2>4. QED
    BY <2>2, <2>3
<1>10. QED
  BY <1>7, <1>8, <1>9

(* The end of a broadcast is posted.                                        *)
LEMMA FinishKeeps == ASSUME TypeOK, FlagInv, CallInv, FinishDisconnect PROVE CallInv'
<1>0. MainQueueInv /\ PostInv /\ ToldInv /\ HeardInv /\ AnswerInv /\ WatchInv
  BY DEF CallInv, MainQueueInv
<1>1. /\ main = "synced" /\ main' = "idle" /\ ~broadcasting /\ conn \in Attempts /\ Closing
      /\ UNCHANGED <<broadcasting, conn, reason, button, encoders, told, watchVars, rotating, slips>>
  BY DEF FinishDisconnect, FlagInv, Closing, videoVars
<1>r. reason \in {"Stopped", "Error"}
  BY DEF TypeOK, MainTyped
<1>2. PICK n \in Notices : n = Notice(reason) /\ n.kind = reason /\ n.sess = conn
  BY <1>r, NoticeFacts DEF Kinds
<1>3. mainQ' = Append(mainQ, n)
  <2>1. mainQ \in Seq(Notices)
    BY DEF TypeOK, MainTyped
  <2>2. Append(mainQ, n) = mainQ \o <<n>>
    BY <2>1, AppendIsConcat
  <2>3. QED
    BY <1>2, <2>2 DEF FinishDisconnect, TerminalNotice
<1>4. /\ HasStarted /\ told[conn] \in {<<>>, <<"Started">>}
      /\ \A i \in DOMAIN mainQ : mainQ[i].sess = conn => mainQ[i].kind \notin Ends
  BY <1>0, <1>1 DEF AnswerInv
<1>5. PostInv' /\ ToldInv' /\ HeardInv' /\ HasStarted'
  <2>1. (told[conn] = <<>> => StartPosted)
        /\ \A i \in DOMAIN mainQ : mainQ[i].sess = conn => mainQ[i].kind \notin {"Reconnect", "BadPass"}
    BY <1>0, <1>4, StartedSo
  <2>2. \A i \in DOMAIN mainQ : mainQ[i].sess = conn => n.kind \in After(mainQ[i].kind)
    BY <1>2, <1>4, <1>r, <2>1, Numbers DEF After, Ends, Kinds
  <2>3. n.kind \in Expected(told[conn])
    BY <1>2, <1>4, <1>r, Expects DEF Kinds
  <2>4. PostInv' /\ ToldInv' /\ HasStarted'
    BY <1>0, <1>1, <1>2, <1>3, <1>4, <1>r, <2>1, <2>2, <2>3, PostKeeps
  <2>5. HeardInv'
    BY <1>0, <1>1, <1>2, <1>3, HeardPost
  <2>6. QED
    BY <2>4, <2>5
<1>6. AnswerInv'
  BY <1>0, <1>1 DEF AnswerInv, Running, Closing
<1>7. WatchInv'
  BY <1>0, <1>1, <1>5 DEF WatchInv, Running, watchVars
<1>8. ASSUME slips' = {} PROVE ButtonInv' /\ EncoderInv'
  <2>0. ButtonInv /\ EncoderInv
    BY <1>1, <1>8 DEF CallInv
  <2>1. /\ ButtonInv'
        /\ FailurePosted => FailurePosted'
        /\ n.kind = "Error" => FailurePosted'
        /\ \A i \in DOMAIN mainQ' : mainQ'[i].kind = "Started" /\ ~broadcasting =>
             (ClosingOnError /\ n.kind # "Error") \/ \E j \in DOMAIN mainQ' : i < j /\ mainQ'[j].kind = "Error"
    BY <1>1, <1>2, <1>3, <1>r, <2>0, LaterPost
  <2>2. reason = "Stopped" => encoders = {}
    BY <1>1, <2>0 DEF EncoderInv
  <2>3. ~(ClosingOnError /\ n.kind # "Error")
    BY <1>2 DEF ClosingOnError
  <2>4. encoders' # {} => FailurePosted'
    BY <1>1, <1>2, <1>r, <2>1, <2>2
  <2>5. ~Closing' /\ main' = "idle"
    BY <1>1 DEF Closing
  <2>6. EncoderInv'
    BY <1>1, <2>0, <2>1, <2>3, <2>4, <2>5 DEF EncoderInv
  <2>7. QED
    BY <2>1, <2>6
<1>9. QED
  BY <1>5, <1>6, <1>7, <1>8 DEF CallInv, MainQueueInv

(* A round of the watchdog ends, with a timeout posted or not.              *)
LEMMA DecidesKeeps ==
  ASSUME TypeOK, FlagInv, CallInv, NEW g \in Attempts, NEW got \in BOOLEAN, WatchDecides(g, got)
  PROVE  CallInv'
<1>0. MainQueueInv /\ PostInv /\ ToldInv /\ HeardInv /\ AnswerInv /\ WatchInv
  BY DEF CallInv, MainQueueInv
<1>1. /\ UNCHANGED <<broadcasting, conn, main, reason, button, encoders, told, watch, rotating, slips>>
      /\ missed' = 0 \/ missed' = missed
  BY DEF WatchDecides, videoVars
<1>2. CASE ~got /\ missed >= MissLimit
  <2>1. missed > 0 /\ HasStarted /\ conn \in Attempts
    BY <1>0, <1>2, Numbers DEF WatchInv, MissLimit, HasStarted
  <2>2. PICK n \in Notices : n = Notice("Timeout") /\ n.kind = "Timeout" /\ n.sess = conn
    BY NoticeFacts DEF Kinds
  <2>3. mainQ' = Append(mainQ, n) /\ timer' = [timer EXCEPT ![watch] = "off"]
    BY <1>2, <2>2 DEF WatchDecides
  <2>4. /\ told[conn] \in {<<>>, <<"Started">>, <<"Started", "Stopped">>, <<"Started", "Error">>}
        /\ told[conn] = <<>> => StartPosted
        /\ \A i \in DOMAIN mainQ : mainQ[i].sess = conn => mainQ[i].kind \notin {"Reconnect", "BadPass"}
    BY <1>0, <2>1, StartedSo
  <2>5. PostInv' /\ ToldInv' /\ HeardInv' /\ HasStarted'
    <3>1. \A i \in DOMAIN mainQ : mainQ[i].sess = conn => n.kind \in After(mainQ[i].kind)
      BY <2>2, <2>4, Numbers DEF After, Kinds
    <3>2. n.kind \in Expected(told[conn])
      BY <2>2, <2>4, Expects DEF Kinds
    <3>3. PostInv' /\ ToldInv' /\ HasStarted'
      BY <1>0, <1>1, <2>1, <2>2, <2>3, <2>4, <3>1, <3>2, PostKeeps
    <3>4. HeardInv'
      BY <1>0, <1>1, <2>2, <2>3, HeardPost
    <3>5. QED
      BY <3>3, <3>4
  <2>7. AnswerInv'
    <3>1. main \notin {"setup", "connected"}
      BY <1>0, <2>1, <2>4 DEF AnswerInv, StartPosted, HasStarted
    <3>2. ASSUME Running \/ Closing, NEW i \in DOMAIN mainQ', mainQ'[i].sess = conn
          PROVE  mainQ'[i].kind \notin Ends
      <4>1. mainQ'[i] = n \/ (i \in DOMAIN mainQ /\ mainQ'[i] = mainQ[i])
        BY <2>3, PostFacts
      <4>2. QED
        BY <1>0, <2>2, <3>2, <4>1 DEF AnswerInv, Ends
    <3>3. QED
      BY <1>0, <1>1, <2>5, <3>1, <3>2 DEF AnswerInv, Running, Closing
  <2>8. WatchInv'
    <3>1. timer \in [Attempts -> {"none", "armed", "off"}]
      BY DEF TypeOK, WatchTyped
    <3>2. \A p \in Attempts : timer'[p] # "armed"
      BY <1>0, <2>3, <3>1 DEF WatchInv
    <3>3. QED
      BY <2>5, <3>2 DEF WatchInv
  <2>9. ASSUME slips' = {} PROVE ButtonInv' /\ EncoderInv'
    <3>0. ButtonInv /\ EncoderInv
      BY <1>1, <2>9 DEF CallInv
    <3>1. /\ ButtonInv'
          /\ FailurePosted => FailurePosted'
          /\ \A i \in DOMAIN mainQ' : mainQ'[i].kind = "Started" /\ ~broadcasting =>
               ClosingOnError \/ \E j \in DOMAIN mainQ' : i < j /\ mainQ'[j].kind = "Error"
      BY <1>1, <2>1, <2>2, <2>3, <3>0, LaterPost
    <3>2. EncoderInv'
      BY <1>1, <3>0, <3>1 DEF EncoderInv, ClosingOnError, Closing
    <3>3. QED
      BY <3>1, <3>2
  <2>10. QED
    BY <2>5, <2>7, <2>8, <2>9 DEF CallInv, MainQueueInv
<1>3. CASE got \/ ~(missed >= MissLimit)
  <2>1. UNCHANGED <<mainQ, timer>>
    BY <1>3 DEF WatchDecides
  <2>2. PostInv' /\ ToldInv' /\ AnswerInv' /\ HeardInv'
    BY <1>0, <1>1, <2>1 DEF PostInv, ToldInv, CallbackProtocol, AnswerInv, HeardInv, HasStarted,
      StartPosted, Running, Closing
  <2>3. WatchInv'
    BY <1>0, <1>1, <2>1 DEF WatchInv, HasStarted, StartPosted, Running
  <2>4. ASSUME slips' = {} PROVE ButtonInv' /\ EncoderInv'
    <3>0. ButtonInv /\ EncoderInv
      BY <1>1, <2>4 DEF CallInv
    <3>1. QED
      BY <1>1, <2>1, <3>0 DEF ButtonInv, EncoderInv, StartPosted, OnlyTimeoutsOld, FailurePosted,
        ClosingOnError, Closing
  <2>5. QED
    BY <2>2, <2>3, <2>4 DEF CallInv, MainQueueInv
<1>4. QED
  BY <1>2, <1>3

(* What a failed setup posts: the failure, and perhaps a reconnect.         *)
LEMMA FailurePosts ==
  ASSUME TypeOK, NEW k \in {"Error", "BadPass"}, mainQ' = mainQ \o FailureNotices(k)
  PROVE  /\ \A i \in DOMAIN mainQ : i \in DOMAIN mainQ' /\ mainQ'[i] = mainQ[i]
         /\ \E l \in DOMAIN mainQ' :
              /\ mainQ'[l].kind = k /\ mainQ'[l].sess = conn /\ l \in Nat
              /\ \A i \in DOMAIN mainQ : i \in Nat /\ i < l
              /\ \A i \in DOMAIN mainQ' :
                   \/ i \in DOMAIN mainQ \/ i = l
                   \/ /\ i = l + 1 /\ k = "Error"
                      /\ mainQ'[i].kind = "Reconnect" /\ mainQ'[i].sess = conn
<1>1. PICK b \in Notices : b = Notice(k) /\ b.kind = k /\ b.sess = conn
  BY NoticeFacts DEF Kinds
<1>2. PICK c \in Notices : c = Notice("Reconnect") /\ c.kind = "Reconnect" /\ c.sess = conn
  BY NoticeFacts DEF Kinds
<1>3. PICK t \in Seq(Notices) :
        /\ mainQ' = mainQ \o t
        /\ \/ Len(t) = 1 /\ t[1] = b
           \/ Len(t) = 2 /\ t[1] = b /\ t[2] = c /\ k = "Error"
  <2>1. <<b>> \in Seq(Notices) /\ Len(<<b>>) = 1 /\ <<b>>[1] = b /\ <<b>> \o <<>> = <<b>>
    <3>1. <<b>> \o <<>> = <<b>>
      BY OneOrTwo
    <3>2. QED
      BY <3>1
  <2>2. <<b>> \o <<c>> \in Seq(Notices) /\ Len(<<b>> \o <<c>>) = 2
        /\ (<<b>> \o <<c>>)[1] = b /\ (<<b>> \o <<c>>)[2] = c
    <3>1. <<b>> \in Seq(Notices) /\ <<c>> \in Seq(Notices) /\ Len(<<b>>) = 1 /\ Len(<<c>>) = 1
          /\ <<b>>[1] = b /\ <<c>>[1] = c
      OBVIOUS
    <3>2. \A s \in Seq(Notices), u \in Seq(Notices) :
            /\ s \o u \in Seq(Notices) /\ Len(s \o u) = Len(s) + Len(u)
            /\ Len(s) = 1 /\ Len(u) = 1 => (s \o u)[1] = s[1] /\ (s \o u)[2] = u[1]
      OBVIOUS
    <3>3. QED
      BY <3>1, <3>2
  <2>3. mainQ' = mainQ \o (<<b>> \o <<>>) \/ (k = "Error" /\ mainQ' = mainQ \o (<<b>> \o <<c>>))
    BY <1>1, <1>2 DEF FailureNotices
  <2>4. QED
    BY <2>1, <2>2, <2>3
<1>4. PICK s \in Seq(Notices) : s = mainQ
  BY DEF TypeOK, MainTyped
<1>5. /\ Len(s) \in Nat /\ DOMAIN s = 1..Len(s) /\ DOMAIN (s \o t) = 1..(Len(s) + Len(t))
      /\ \A i \in 1..Len(s) : (s \o t)[i] = s[i]
      /\ \A i \in 1..Len(t) : (s \o t)[Len(s) + i] = t[i]
  BY <1>3, <1>4
<1>6. \A i \in DOMAIN mainQ : i \in DOMAIN mainQ' /\ mainQ'[i] = mainQ[i]
  BY <1>3, <1>4, <1>5
<1>7. DOMAIN mainQ' = 1..(Len(s) + Len(t)) /\ Len(s) + 1 \in DOMAIN mainQ' /\ mainQ'[Len(s) + 1] = b
  BY <1>3, <1>4, <1>5
<1>8. Len(t) = 2 => mainQ'[Len(s) + 2] = c /\ k = "Error"
  BY <1>3, <1>4, <1>5
<1>9. \A i \in DOMAIN mainQ' :
        \/ i \in DOMAIN mainQ \/ i = Len(s) + 1
        \/ i = (Len(s) + 1) + 1 /\ k = "Error" /\ mainQ'[i] = c
  BY <1>3, <1>4, <1>5, <1>7, <1>8
<1>10. Len(s) + 1 \in Nat /\ \A i \in DOMAIN mainQ : i \in Nat /\ i < Len(s) + 1
  BY <1>4, <1>5
<1>11. QED
  BY <1>1, <1>2, <1>6, <1>7, <1>9, <1>10

(* A setup fails: the attempt's failure is its first and only callback.     *)
LEMMA SetupFailsKeeps ==
  ASSUME TypeOK, FlagInv, CallInv, NEW st \in Stages, NEW k \in {"Error", "BadPass"}, SetupFails(st, k)
  PROVE  CallInv'
<1>0. MainQueueInv /\ PostInv /\ ToldInv /\ HeardInv /\ AnswerInv /\ WatchInv
  BY DEF CallInv, MainQueueInv
<1>1. /\ main = "setup" /\ main' = "idle" /\ ~broadcasting /\ conn \in Attempts /\ conn \in Nat
      /\ mainQ' = mainQ \o FailureNotices(k)
      /\ UNCHANGED <<broadcasting, conn, reason, button, encoders, told, watchVars, rotating, slips>>
  BY Numbers DEF SetupFails, FlagInv, videoVars
<1>2. told[conn] = <<>> /\ \A i \in DOMAIN mainQ : mainQ[i].sess # conn
  BY <1>0, <1>1 DEF AnswerInv
<1>3. \A i \in DOMAIN mainQ : i \in DOMAIN mainQ' /\ mainQ'[i] = mainQ[i]
  BY <1>1, FailurePosts
<1>4. PICK l \in DOMAIN mainQ' :
        /\ mainQ'[l].kind = k /\ mainQ'[l].sess = conn /\ l \in Nat
        /\ \A i \in DOMAIN mainQ : i \in Nat /\ i < l
        /\ \A i \in DOMAIN mainQ' :
             \/ i \in DOMAIN mainQ \/ i = l
             \/ /\ i = l + 1 /\ k = "Error"
                /\ mainQ'[i].kind = "Reconnect" /\ mainQ'[i].sess = conn
  BY <1>1, FailurePosts
<1>5. \A i \in DOMAIN mainQ' : i \notin DOMAIN mainQ =>
        i \in Nat /\ i >= l /\ mainQ'[i].sess = conn /\ mainQ'[i].kind \in {"Error", "BadPass", "Reconnect"}
  BY <1>4
<1>6. PostInv'
  <2>1. ASSUME NEW i \in DOMAIN mainQ' PROVE mainQ'[i].sess \in 1..conn'
    <3>1. conn \in 1..conn
      BY <1>1, Numbers
    <3>2. QED
      BY <1>0, <1>1, <1>3, <1>5, <3>1 DEF PostInv
  <2>2. ASSUME NEW i \in DOMAIN mainQ', NEW j \in DOMAIN mainQ', i < j
        PROVE  /\ mainQ'[i].sess <= mainQ'[j].sess
               /\ mainQ'[i].sess = mainQ'[j].sess => mainQ'[j].kind \in After(mainQ'[i].kind)
    <3>1. CASE j \in DOMAIN mainQ
      <4>1. i \in DOMAIN mainQ
        BY <1>4, <1>5, <2>2, <3>1
      <4>2. QED
        BY <1>0, <1>3, <2>2, <3>1, <4>1 DEF PostInv
    <3>2. CASE j \notin DOMAIN mainQ /\ i \in DOMAIN mainQ
      <4>1. mainQ'[i] = mainQ[i] /\ mainQ[i].sess \in 1..conn /\ mainQ[i].sess # conn
        BY <1>0, <1>2, <1>3, <3>2 DEF PostInv
      <4>2. mainQ'[j].sess = conn
        BY <1>5, <3>2
      <4>3. QED
        BY <1>1, <4>1, <4>2
    <3>3. CASE j \notin DOMAIN mainQ /\ i \notin DOMAIN mainQ
      <4>1. i = l /\ j = l + 1 /\ k = "Error" /\ mainQ'[j].kind = "Reconnect" /\ mainQ'[j].sess = conn
        BY <1>4, <2>2, <3>3
      <4>2. QED
        BY <1>1, <1>4, <4>1 DEF After
    <3>4. QED
      BY <3>1, <3>2, <3>3
  <2>3. QED
    BY <2>1, <2>2 DEF PostInv
<1>7. ToldInv'
  <2>1. CallbackProtocol'
    BY <1>0, <1>1 DEF ToldInv, CallbackProtocol
  <2>2. ASSUME NEW i \in DOMAIN mainQ' PROVE mainQ'[i].kind \in Expected(told'[mainQ'[i].sess])
    <3>1. CASE i \in DOMAIN mainQ
      BY <1>0, <1>1, <1>3, <3>1 DEF ToldInv
    <3>2. CASE i \notin DOMAIN mainQ
      BY <1>1, <1>2, <1>5, <3>2, Expects DEF Kinds
    <3>3. QED
      BY <3>1, <3>2
  <2>3. ASSUME NEW i \in DOMAIN mainQ', told'[mainQ'[i].sess] = <<>>,
               mainQ'[i].kind \in {"Stopped", "Timeout", "Reconnect"}
        PROVE  \E j \in DOMAIN mainQ' :
                 j < i /\ mainQ'[j].sess = mainQ'[i].sess /\ mainQ'[j].kind = Cause(mainQ'[i].kind)
    <3>1. CASE i \in DOMAIN mainQ
      <4>1. PICK j \in DOMAIN mainQ :
              j < i /\ mainQ[j].sess = mainQ[i].sess /\ mainQ[j].kind = Cause(mainQ[i].kind)
        BY <1>0, <1>1, <1>3, <2>3, <3>1 DEF ToldInv
      <4>2. QED
        BY <1>3, <3>1, <4>1
    <3>2. CASE i \notin DOMAIN mainQ
      <4>1. i = l + 1 /\ k = "Error" /\ mainQ'[i].kind = "Reconnect" /\ mainQ'[i].sess = conn
        BY <1>4, <2>3, <3>2
      <4>2. l < i /\ mainQ'[l].sess = mainQ'[i].sess /\ mainQ'[l].kind = Cause(mainQ'[i].kind)
        BY <1>4, <4>1 DEF Cause
      <4>3. QED
        BY <4>2
    <3>3. QED
      BY <3>1, <3>2
  <2>4. QED
    BY <2>1, <2>2, <2>3 DEF ToldInv
<1>h. HeardInv'
  BY <1>1, <1>2 DEF HeardInv
<1>8. AnswerInv'
  BY <1>0, <1>1 DEF AnswerInv, Running, Closing
<1>9. WatchInv'
  <2>1. HasStarted => HasStarted'
    BY <1>1, <1>3 DEF HasStarted, StartPosted
  <2>2. QED
    BY <1>0, <1>1, <2>1 DEF WatchInv, Running, watchVars
<1>10. ASSUME slips' = {} PROVE ButtonInv' /\ EncoderInv'
  <2>0. ButtonInv /\ EncoderInv
    BY <1>1, <1>10 DEF CallInv
  <2>1. \A i \in DOMAIN mainQ' : mainQ'[i].sess < conn => i \in DOMAIN mainQ
    BY <1>1, <1>5
  <2>2. OnlyTimeoutsOld => OnlyTimeoutsOld'
    BY <1>1, <1>3, <2>1 DEF OnlyTimeoutsOld
  <2>3. ~StartPosted'
    BY <1>1, <1>2, <1>3, <1>5 DEF StartPosted
  <2>4. ButtonInv'
    BY <1>1, <1>2, <1>3, <2>0, <2>1, <2>2, <2>3 DEF ButtonInv
  <2>5. FailurePosted'
    BY <1>4 DEF FailurePosted
  <2>6. ASSUME NEW i \in DOMAIN mainQ', mainQ'[i].kind = "Started"
        PROVE  \E j \in DOMAIN mainQ' : i < j /\ mainQ'[j].kind = "Error"
    <3>1. i \in DOMAIN mainQ /\ mainQ[i].kind = "Started"
      BY <1>3, <1>5, <2>6
    <3>2. ~ClosingOnError
      BY <1>1 DEF ClosingOnError, Closing
    <3>3. PICK j \in DOMAIN mainQ : i < j /\ mainQ[j].kind = "Error"
      BY <1>1, <2>0, <3>1, <3>2 DEF EncoderInv
    <3>4. QED
      BY <1>3, <3>3
  <2>7. EncoderInv'
    BY <1>1, <2>0, <2>5, <2>6 DEF EncoderInv, Closing
  <2>8. QED
    BY <2>4, <2>7
<1>11. QED
  BY <1>6, <1>7, <1>h, <1>8, <1>9, <1>10 DEF CallInv, MainQueueInv

-----------------------------------------------------------------------------
(* The main queue and the history stay as they are. *)

(* Nothing posted, nothing heard.                                           *)
LEMMA SamePosts ==
  ASSUME CallInv, UNCHANGED <<mainQ, told, conn>>
  PROVE  /\ PostInv' /\ ToldInv' /\ HeardInv'
         /\ (StartPosted' <=> StartPosted) /\ (HasStarted' <=> HasStarted)
         /\ OnlyTimeoutsOld' <=> OnlyTimeoutsOld
         /\ FailurePosted' <=> FailurePosted
BY DEF CallInv, MainQueueInv, PostInv, ToldInv, HeardInv, CallbackProtocol, StartPosted, HasStarted,
  OnlyTimeoutsOld, FailurePosted

(* The threads that feed and send, and a round of the watchdog.             *)
LEMMA QuietKeeps ==
  ASSUME CallInv,
         UNCHANGED <<mainQ, told, conn, main, broadcasting, reason, button, timer, watch>>,
         slips' = {} => slips = {} /\ encoders' = encoders /\ (rotating' => "avc" \in encoders),
         missed' = missed \/ HasStarted
  PROVE  CallInv'
<1>1. MainQueueInv /\ PostInv /\ ToldInv /\ HeardInv /\ AnswerInv /\ WatchInv
  BY DEF CallInv, MainQueueInv
<1>2. PostInv' /\ ToldInv' /\ HeardInv' /\ (StartPosted' <=> StartPosted) /\ (HasStarted' <=> HasStarted)
      /\ (OnlyTimeoutsOld' <=> OnlyTimeoutsOld) /\ (FailurePosted' <=> FailurePosted)
  BY SamePosts
<1>3. AnswerInv' /\ WatchInv'
  BY <1>1, <1>2 DEF AnswerInv, WatchInv, Running, Closing
<1>4. ASSUME slips' = {} PROVE ButtonInv' /\ EncoderInv'
  <2>0. ButtonInv /\ EncoderInv
    BY <1>4 DEF CallInv
  <2>1. QED
    BY <1>2, <1>4, <2>0 DEF ButtonInv, EncoderInv, ClosingOnError, Closing
<1>5. QED
  BY <1>2, <1>3, <1>4 DEF CallInv, MainQueueInv

(* The main thread goes on with a connect or a disconnect, or waits for the *)
(* encoders.                                                                *)
LEMMA MainKeeps ==
  ASSUME TypeOK, ThreadInv, CallInv,
         \/ StopStream \/ EncodersStopped \/ SubmitClose
         \/ \E st \in {"none", "initAVC"} : SetupSucceeds(st)
         \/ \E q \in Attempts : CloseDone(q)
  PROVE  CallInv'
<1> USE DEF watchVars, videoVars
<1>0. MainQueueInv /\ PostInv /\ ToldInv /\ HeardInv /\ AnswerInv /\ WatchInv
  BY DEF CallInv, MainQueueInv
<1>1. UNCHANGED <<mainQ, told, conn, button, watch, missed, rotating>> /\ slips \subseteq slips'
  BY DEF StopStream, StopsInRotation, EncodersStopped, SubmitClose, SetupSucceeds, CloseDone
<1>2. PostInv' /\ ToldInv' /\ HeardInv' /\ (StartPosted' <=> StartPosted) /\ (HasStarted' <=> HasStarted)
      /\ (OnlyTimeoutsOld' <=> OnlyTimeoutsOld) /\ (FailurePosted' <=> FailurePosted)
  BY <1>1, SamePosts
<1>g. slips' = {} => slips = {} /\ ButtonInv /\ EncoderInv
  BY <1>1 DEF CallInv
<1>3. CASE StopStream
  <2>1. /\ main = "idle" /\ main' = "joinStop" /\ encoders' = {}
        /\ UNCHANGED <<broadcasting, reason, timer>>
        /\ slips' = {} => ~rotating
    BY <1>3 DEF StopStream, StopsInRotation
  <2>2. AnswerInv' /\ WatchInv'
    BY <1>0, <1>1, <1>2, <2>1 DEF AnswerInv, WatchInv, Running, Closing
  <2>3. slips' = {} => ButtonInv' /\ EncoderInv'
    BY <1>1, <1>2, <1>g, <2>1 DEF ButtonInv, EncoderInv, ClosingOnError, Closing
  <2>4. QED
    BY <1>2, <2>2, <2>3 DEF CallInv, MainQueueInv
<1>4. CASE \E st \in {"none", "initAVC"} : SetupSucceeds(st)
  <2>1. /\ main = "setup" /\ main' = "connected" /\ ~broadcasting /\ broadcasting'
        /\ UNCHANGED <<timer, encoders>>
    BY <1>4 DEF SetupSucceeds, ThreadInv, FlagInv
  <2>2. AnswerInv' /\ WatchInv'
    BY <1>0, <1>1, <1>2, <2>1 DEF AnswerInv, WatchInv, Running, Closing
  <2>3. slips' = {} => ButtonInv' /\ EncoderInv'
    BY <1>1, <1>2, <1>g, <2>1 DEF ButtonInv, EncoderInv, ClosingOnError, Closing
  <2>4. QED
    BY <1>2, <2>2, <2>3 DEF CallInv, MainQueueInv
<1>5. CASE SubmitClose \/ \E q \in Attempts : CloseDone(q)
  <2>1. \A q \in Attempts : CloseDone(q) => main = "sync"
    <3>1. SUFFICES ASSUME NEW q \in Attempts, CloseDone(q) PROVE main = "sync"
      OBVIOUS
    <3>2. queue[q] # <<>> /\ snd[q].pc = "bye"
      BY <3>1 DEF CloseDone, At
    <3>3. queue[q][1].kind = "close"
      BY <3>2 DEF ThreadInv, KindInv, BlockKinds
    <3>4. 1 \in DOMAIN queue[q]
      BY <3>2 DEF TypeOK, SenderTyped
    <3>5. QED
      BY <3>3, <3>4 DEF ThreadInv, SyncInv
  <2>2. /\ main \in {"flagged", "sync"} /\ main' \in {"sync", "synced"}
        /\ UNCHANGED <<broadcasting, reason, timer, encoders>>
    BY <1>5, <2>1 DEF SubmitClose, CloseDone
  <2>3. AnswerInv' /\ WatchInv'
    BY <1>0, <1>1, <1>2, <2>2 DEF AnswerInv, WatchInv, Running, Closing
  <2>4. slips' = {} => ButtonInv' /\ EncoderInv'
    BY <1>1, <1>2, <1>g, <2>2 DEF ButtonInv, EncoderInv, ClosingOnError, Closing
  <2>5. QED
    BY <1>2, <2>3, <2>4 DEF CallInv, MainQueueInv
<1>6. CASE EncodersStopped
  <2>1. \/ main = "joinStop" /\ broadcasting /\ EnterDisconnect("Stopped")
        \/ main \in {"joinStop", "joinError"} /\ main' = "idle" /\ UNCHANGED <<broadcasting, reason, timer>>
    BY <1>6 DEF EncodersStopped, Disconnect, MayDisconnect
  <2>2. encoders' = encoders
    BY <1>6 DEF EncodersStopped
  <2>3. CASE main = "joinStop" /\ broadcasting /\ EnterDisconnect("Stopped")
    <3>1. main' = "flagged" /\ ~broadcasting' /\ reason' = "Stopped"
      BY <2>3 DEF EnterDisconnect
    <3>2. AnswerInv'
      BY <1>0, <1>1, <1>2, <2>3, <3>1 DEF AnswerInv, Running, Closing
    <3>3. WatchInv'
      <4>1. timer \in [Attempts -> {"none", "armed", "off"}]
        BY DEF TypeOK, WatchTyped
      <4>2. \A g \in Attempts : timer'[g] # "armed"
        BY <1>0, <2>3, <4>1 DEF WatchInv, EnterDisconnect
      <4>3. QED
        BY <1>0, <1>1, <1>2, <4>2 DEF WatchInv
    <3>4. ASSUME slips' = {} PROVE ButtonInv' /\ EncoderInv'
      <4>1. ~StartUnheard
        BY <1>6, <2>3, <3>4 DEF EncodersStopped
      <4>2. ASSUME NEW i \in DOMAIN mainQ, mainQ[i].kind = "Started" PROVE FALSE
        <5>1. mainQ[i].sess \in 1..conn /\ conn \in Nat /\ mainQ[i] \in Notices
          BY <1>0, Numbers DEF PostInv
        <5>2. ~(mainQ[i].sess < conn)
          BY <1>g, <3>4, <4>2 DEF ButtonInv
        <5>3. mainQ[i].sess = conn
          BY <5>1, <5>2
        <5>4. mainQ[i] = Notice("Started")
          BY <4>2, <5>1, <5>3 DEF Notice, Notices
        <5>5. QED
          BY <2>3, <4>1, <5>4 DEF StartUnheard
      <4>3. ButtonInv'
        BY <1>1, <1>2, <1>g, <3>1, <3>4, <4>2 DEF ButtonInv, StartPosted
      <4>4. EncoderInv'
        BY <1>1, <1>2, <1>g, <2>2, <2>3, <3>1, <3>4, <4>2 DEF EncoderInv
      <4>5. QED
        BY <4>3, <4>4
    <3>5. QED
      BY <1>2, <3>2, <3>3, <3>4 DEF CallInv, MainQueueInv
  <2>4. CASE main \in {"joinStop", "joinError"} /\ main' = "idle" /\ UNCHANGED <<broadcasting, reason, timer>>
    <3>1. AnswerInv' /\ WatchInv'
      BY <1>0, <1>1, <1>2, <2>4 DEF AnswerInv, WatchInv, Running, Closing
    <3>2. slips' = {} => ButtonInv' /\ EncoderInv'
      BY <1>1, <1>2, <1>g, <2>2, <2>4 DEF ButtonInv, EncoderInv, ClosingOnError, Closing
    <3>3. QED
      BY <1>2, <3>1, <3>2 DEF CallInv, MainQueueInv
  <2>5. QED
    BY <2>1, <2>3, <2>4
<1>7. QED
  BY <1>3, <1>4, <1>5, <1>6

-----------------------------------------------------------------------------
(* Together. *)

(* The invariant of the main queue: every action.                           *)
LEMMA CallStep ==
  ASSUME TypeOK, ThreadInv, CallInv, [Next]_vars
  PROVE  CallInv'
<1> USE DEF mainVars, watchVars, audioVars, videoVars
<1>0. FlagInv
  BY DEF ThreadInv
<1>e. slips = {} /\ rotating => "avc" \in encoders
  BY DEF CallInv, EncoderInv
<1>1. ASSUME NEW q \in Attempts, SenderStep(q), ~CloseDone(q) PROVE CallInv'
  <2>1. UNCHANGED <<mainQ, told, conn, main, broadcasting, reason, button, encoders, timer, watch,
                    missed, rotating, slips>>
    BY <1>1 DEF SenderStep, SendAVStart, SendAVDrain, SendAudio, RemoveSent, SendVideo,
      StreamLoop, StreamWait, StreamWake, CloseBye
  <2>2. QED
    BY <1>e, <2>1, QuietKeeps
<1>2. ASSUME AudioCaptured \/ AudioStep \/ VideoCaptured \/ VideoDispatched \/ Finished \/ UNCHANGED vars
      PROVE  CallInv'
  <2>1. UNCHANGED <<mainQ, told, conn, main, broadcasting, reason, button, encoders, timer, watch, missed, rotating, slips>>
    BY <1>2 DEF AudioCaptured, AudioStep, AudioStamped, AudioEnqueued, AudioSignalled, VideoCaptured,
      VideoDispatched, Finished, vars
  <2>2. QED
    BY <1>e, <2>1, QuietKeeps
<1>3. ASSUME NEW g \in Attempts, WatchFires(g) PROVE CallInv'
  <2>1. HasStarted
    BY <1>3 DEF WatchFires, CallInv, MainQueueInv, WatchInv, AnswerInv
  <2>2. UNCHANGED <<mainQ, told, conn, main, broadcasting, reason, button, encoders, timer, watch, rotating, slips>>
    BY <1>3 DEF WatchFires
  <2>3. QED
    BY <1>e, <2>1, <2>2, QuietKeeps
<1>4. ASSUME NEW g \in Attempts, WatchNext(g) PROVE CallInv'
  <2>1. UNCHANGED <<mainQ, told, conn, main, broadcasting, reason, button, encoders, timer, watch, missed, rotating, slips>>
    BY <1>4 DEF WatchNext
  <2>2. QED
    BY <1>e, <2>1, QuietKeeps
<1>5. ASSUME NEW g \in Attempts, NEW got \in BOOLEAN, WatchDecides(g, got) PROVE CallInv'
  BY <1>0, <1>5, DecidesKeeps
<1>6. ASSUME User \/ MainBlock PROVE CallInv'
  BY <1>6, StartKeeps, MainKeeps, StartedKeeps, StoppedKeeps, FailureKeeps, ReconnectKeeps, TimeoutKeeps
  DEF User, MainBlock
<1>7. ASSUME MainStep PROVE CallInv'
  BY <1>0, <1>7, SetupFailsKeeps, MainKeeps, ConnectedKeeps, FinishKeeps DEF MainStep
<1>8. ASSUME NEW q \in Attempts, CloseDone(q) PROVE CallInv'
  BY <1>8, MainKeeps
<1>9. ASSUME RotationBegins PROVE CallInv'
  <2>1. UNCHANGED <<mainQ, told, conn, main, broadcasting, reason, button, encoders, timer, watch, missed>>
    BY <1>9 DEF RotationBegins
  <2>2. slips' = {} => slips = {} /\ "avc" \in encoders
    BY <1>9 DEF RotationBegins
  <2>3. QED
    BY <2>1, <2>2, QuietKeeps
<1>10. ASSUME RotationEnds PROVE CallInv'
  <2>1. UNCHANGED <<mainQ, told, conn, main, broadcasting, reason, button, timer, watch, missed, slips>>
    BY <1>10 DEF RotationEnds
  <2>2. slips = {} => encoders' = encoders /\ ~rotating'
    BY <1>e, <1>10 DEF RotationEnds
  <2>3. QED
    BY <2>1, <2>2, QuietKeeps
<1>11. QED
  BY <1>1, <1>2, <1>3, <1>4, <1>5, <1>6, <1>7, <1>8, <1>9, <1>10 DEF Next, WatchStep, RotationStep

(* The invariant of the main queue holds in every reachable state.          *)
LEMMA CallAlways == Spec => [](TypeOK /\ CallInv)
<1>1. Init => CallInv
  <2>1. SUFFICES ASSUME Init PROVE CallInv
    OBVIOUS
  <2>2. /\ mainQ = <<>> /\ conn = 0 /\ conn \notin Attempts /\ main = "idle" /\ broadcasting = FALSE
        /\ missed = 0 /\ button = "start" /\ encoders = {} /\ rotating = FALSE
        /\ \A a \in Attempts : told[a] = <<>> /\ timer[a] = "none"
    BY <2>1 DEF Init, Attempts
  <2>3. PostInv /\ ToldInv /\ HeardInv
    BY <2>2 DEF PostInv, ToldInv, HeardInv, CallbackProtocol
  <2>4. AnswerInv /\ WatchInv
    BY <2>2 DEF AnswerInv, WatchInv, Running, Closing
  <2>5. ButtonInv /\ EncoderInv
    BY <2>2 DEF ButtonInv, EncoderInv, StartPosted, Closing
  <2>6. QED
    BY <2>3, <2>4, <2>5 DEF CallInv, MainQueueInv
<1>2. TypeOK /\ ThreadInv /\ CallInv /\ [Next]_vars => CallInv'
  BY CallStep
<1>3. QED
  BY <1>1, <1>2, ThreadAlways, PTL DEF Spec

(* Of every attempt the caller hears a start followed by at most one end,   *)
(* or one failure, or nothing: never two ends, and never a start and a      *)
(* failure, however stop, watchdog and reconnect interleave (connect:,      *)
(* disconnectInternal: and the blocks they post).                           *)
THEOREM CallbacksKept == Spec => []CallbackProtocol
<1>1. CallInv => CallbackProtocol
  BY DEF CallInv, MainQueueInv, ToldInv
<1>2. QED
  BY <1>1, CallAlways, PTL

(* When everything posted has been handled, encoders run only for a         *)
(* broadcast that is on: no failed setup and no timeout leaves them feeding *)
(* a manager that has disconnected, and no stop does that the caller orders *)
(* after it has heard of the start (LivuViewController stopStream) and that *)
(* does not fall into a rotation of the AVC encoder.                        *)
THEOREM EncodersStop == Spec => []EncodersNeedBroadcast
<1>1. CallInv => EncodersNeedBroadcast
  BY DEF CallInv, EncoderInv, EncodersNeedBroadcast, FailurePosted, ClosingOnError, Closing
<1>2. QED
  BY <1>1, CallAlways, PTL


=============================================================================
