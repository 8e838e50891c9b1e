--------------------------- MODULE RTPSessionProofs ---------------------------
(***************************************************************************)
(* Theorems about RTPSession, for all constants that satisfy               *)
(* ConstantAssumption: any number of members and of hash chains, any       *)
(* timeouts and bandwidth.                                                 *)
(***************************************************************************)
EXTENDS RTPSession, FiniteSetTheorems, TLAPS

Chains == 0 .. DbSize - 1

(* The constants as the provers need them. *)
LEMMA Constants ==
  /\ Members \subseteq Nat /\ IsFiniteSet(Members) /\ Cardinality(Members) \in Nat
  /\ Me \in Members /\ Peers \subseteq Members /\ Me \notin Peers
  /\ DbSize \in Nat \ {0} /\ MembersPerTick \in Nat \ {0} /\ SmallSession \in Nat \ {0}
  /\ MaxByes \in Nat \ {0} /\ MinTime \in Nat \ {0} /\ ByeDelay \in Nat
  /\ NoSource \notin Members
<1>1. Members \subseteq Nat /\ IsFiniteSet(Peers) /\ Me \notin Peers
  BY ConstantAssumption DEF ConstantAssumption
<1>2. IsFiniteSet(Members)
  BY <1>1, FS_AddElement DEF Members
<1>3. Cardinality(Members) \in Nat
  BY <1>2, FS_CardinalityType
<1>4. NoSource \notin Members
  BY <1>1 DEF NoSource
<1>5. /\ DbSize \in Nat \ {0} /\ MembersPerTick \in Nat \ {0} /\ SmallSession \in Nat \ {0}
      /\ MaxByes \in Nat \ {0} /\ MinTime \in Nat \ {0} /\ ByeDelay \in Nat
  BY ConstantAssumption DEF ConstantAssumption
<1> QED
  BY <1>1, <1>2, <1>3, <1>4, <1>5 DEF Members

(* Every SSRC hashes to a chain. *)
LEMMA HashIsChain == ASSUME NEW x \in Members PROVE ssrc_hash(x) \in Chains
<1>1. x \in Nat /\ DbSize \in Nat \ {0}
  BY Constants
<1> QED
  BY <1>1 DEF ssrc_hash, Chains

-----------------------------------------------------------------------------
(* Chains *)

(* The entry that create_source puts at the head of a chain. *)
LEMMA HeadAdded ==
  ASSUME NEW c \in Seq(Members), NEW x \in Members, NEW d, d = <<x>> \o c
  PROVE /\ d \in Seq(Members) /\ Range(d) = Range(c) \cup {x}
        /\ IsInjective(c) /\ x \notin Range(c) => IsInjective(d)
        /\ d # <<>> /\ (c # <<>> => d[Len(d)] = c[Len(c)])
        /\ c = <<>> => d[Len(d)] = x
<1>1. /\ d \in Seq(Members) /\ Len(d) = Len(c) + 1 /\ d[1] = x
      /\ \A i \in 1 .. Len(c) : d[i + 1] = c[i]
  OBVIOUS
<1>2. Len(c) \in Nat /\ DOMAIN c = 1 .. Len(c) /\ DOMAIN d = 1 .. Len(c) + 1
  BY <1>1
<1>3. \A j \in DOMAIN d : j = 1 \/ (j - 1 \in DOMAIN c /\ d[j] = c[j - 1])
  <2> TAKE j \in DOMAIN d
  <2>1. CASE j # 1
    <3>1. j - 1 \in 1 .. Len(c) /\ (j - 1) + 1 = j
      BY <1>2, <2>1
    <3> QED
      BY <1>1, <1>2, <3>1
  <2> QED
    BY <2>1
<1>4. \A i \in DOMAIN c : i + 1 \in DOMAIN d /\ d[i + 1] = c[i]
  BY <1>1, <1>2
<1>5. 1 \in DOMAIN d
  BY <1>2
<1>6. Range(d) = Range(c) \cup {x}
  <2>1. Range(d) \subseteq Range(c) \cup {x}
    BY <1>1, <1>3 DEF Range
  <2>2. Range(c) \subseteq Range(d)
    BY <1>4 DEF Range
  <2>3. x \in Range(d)
    BY <1>1, <1>5 DEF Range
  <2> QED
    BY <2>1, <2>2, <2>3
<1>7. ASSUME IsInjective(c), x \notin Range(c) PROVE IsInjective(d)
  <2> SUFFICES ASSUME NEW a \in DOMAIN d, NEW b \in DOMAIN d, d[a] = d[b] PROVE a = b
    BY DEF IsInjective
  <2>1. CASE a = 1 \/ b = 1
    BY <1>1, <1>3, <1>7, <2>1 DEF Range
  <2>2. CASE a # 1 /\ b # 1
    <3>1. a - 1 \in DOMAIN c /\ b - 1 \in DOMAIN c /\ c[a - 1] = c[b - 1]
      BY <1>3, <2>2
    <3>2. a - 1 = b - 1
      BY <1>7, <3>1 DEF IsInjective
    <3> QED
      BY <1>2, <3>2
  <2> QED
    BY <2>1, <2>2
<1>8. d # <<>> /\ (c # <<>> => d[Len(d)] = c[Len(c)]) /\ (c = <<>> => d[Len(d)] = x)
  <2>1. c # <<>> => Len(c) \in DOMAIN c
    BY <1>2
  <2>2. c = <<>> => Len(d) = 1
    BY <1>1
  <2>3. d # <<>>
    BY <1>1, <1>2
  <2> QED
    BY <1>1, <1>4, <2>1, <2>2, <2>3
<1> QED
  BY <1>1, <1>6, <1>7, <1>8

(* What is left of a chain without one of its entries: the others, in      *)
(* their order.                                                            *)
LEMMA EntryUnlinked ==
  ASSUME NEW c \in Seq(Members), IsInjective(c), NEW x \in Range(c), NEW u, u = Unlinked(c, x)
  PROVE /\ u \in Seq(Members) /\ IsInjective(u) /\ Range(u) = Range(c) \ {x}
        /\ c[Len(c)] # x => u # <<>> /\ u[Len(u)] = c[Len(c)]
<1> DEFINE i == CHOOSE k \in DOMAIN c : c[k] = x
           m == Len(c) - 1
<1>1. i \in DOMAIN c /\ c[i] = x
  BY DEF Range
<1>2. u = [k \in 1 .. m |-> IF k < i THEN c[k] ELSE c[k + 1]]
  BY DEF Unlinked
<1> HIDE DEF i
<1>3. i \in 1 .. Len(c) /\ Len(c) \in Nat /\ m \in Nat /\ Len(c) = m + 1 /\ DOMAIN c = 1 .. m + 1
  BY <1>1
<1> HIDE DEF m
<1>4. /\ DOMAIN u = 1 .. m
      /\ \A k \in 1 .. m : k < i => u[k] = c[k]
      /\ \A k \in 1 .. m : ~(k < i) => u[k] = c[k + 1]
  BY <1>2
<1>5. \A k \in 1 .. m : k \in DOMAIN c /\ k + 1 \in DOMAIN c
  BY <1>3
<1>6. u \in [1 .. m -> Members]
  <2>1. \A k \in DOMAIN c : c[k] \in Members
    OBVIOUS
  <2> QED
    BY <1>2, <1>5, <2>1
<1>7. u \in Seq(Members) /\ Len(u) = m
  BY <1>3, <1>6
<1>8. \A k \in 1 .. m : u[k] # x /\ u[k] \in Range(c)
  <2> TAKE k \in 1 .. m
  <2>1. CASE k < i
    <3>1. c[k] # x
      BY <1>1, <1>3, <1>5, <2>1 DEF IsInjective
    <3> QED
      BY <1>4, <1>5, <2>1, <3>1 DEF Range
  <2>2. CASE ~(k < i)
    <3>1. k + 1 # i
      BY <1>3, <2>2
    <3>2. c[k + 1] # x
      BY <1>1, <1>5, <3>1 DEF IsInjective
    <3> QED
      BY <1>4, <1>5, <2>2, <3>2 DEF Range
  <2> QED
    BY <2>1, <2>2
<1>9. \A k \in DOMAIN c : k # i => \E l \in 1 .. m : u[l] = c[k]
  <2> TAKE k \in DOMAIN c
  <2>1. CASE k < i
    <3>1. k \in 1 .. m
      BY <1>3, <2>1
    <3> QED
      BY <1>4, <2>1, <3>1
  <2>2. CASE k > i
    <3>1. k - 1 \in 1 .. m /\ ~(k - 1 < i) /\ (k - 1) + 1 = k
      BY <1>3, <2>2
    <3> QED
      BY <1>4, <3>1
  <2>3. k # i => k < i \/ k > i
    BY <1>3
  <2> QED
    BY <2>1, <2>2, <2>3
<1>10. Range(u) = Range(c) \ {x}
  <2>1. Range(u) \subseteq Range(c) \ {x}
    BY <1>4, <1>8 DEF Range
  <2>2. Range(c) \ {x} \subseteq Range(u)
    BY <1>1, <1>4, <1>9 DEF Range
  <2> QED
    BY <2>1, <2>2
<1>11. IsInjective(u)
  <2> SUFFICES ASSUME NEW a \in 1 .. m, NEW b \in 1 .. m, u[a] = u[b] PROVE a = b
    BY <1>4 DEF IsInjective
  <2> DEFINE place(k) == IF k < i THEN k ELSE k + 1
  <2>1. \A k \in 1 .. m : place(k) \in DOMAIN c /\ u[k] = c[place(k)]
    BY <1>4, <1>5
  <2>2. place(a) = place(b)
    BY <2>1 DEF IsInjective
  <2> QED
    BY <1>3, <2>2
<1>12. ASSUME c[Len(c)] # x PROVE u # <<>> /\ u[Len(u)] = c[Len(c)]
  <2>1. m \in 1 .. m /\ ~(m < i) /\ m + 1 = Len(c)
    <3>1. i # Len(c)
      BY <1>1, <1>12
    <3> QED
      BY <1>3, <3>1
  <2> QED
    BY <1>4, <1>7, <2>1
<1> QED
  BY <1>7, <1>10, <1>11, <1>12

-----------------------------------------------------------------------------
(* Sessions.  The ages are taken for any integers: what is proved here     *)
(* does not depend on how far they are counted.                            *)

Entries == [idle : Int, sender : BOOLEAN, got_bye : BOOLEAN]
Sources == UNION {[K -> Entries] : K \in SUBSET Members}
Sessions ==
  [src : Sources, db : [Chains -> Seq(Members)], rr : SUBSET (Members \X Members),
   ssrc_count : Int, ssrc_count_prev : Int, sender_count : Int, bye_count : Int,
   we_sent : BOOLEAN, initial_rtcp : BOOLEAN, sending_bye : BOOLEAN, avg_known : BOOLEAN,
   rtcp_interval : Int, sinceUpdate : Int, sinceRtp : Int, sinceRtcp : Int, untilRtcp : Int]

(* The parts of the invariant that speak of the session alone. *)
DbOk(S) ==
  /\ S.ssrc_count = Cardinality(Known(S))
  /\ \A h \in Chains : /\ IsInjective(S.db[h])
                       /\ Range(S.db[h]) = {x \in Known(S) : ssrc_hash(x) = h}
OwnLast(S) == Me \in Known(S) /\ OwnEntryLast(S)
RrOk(S) == \A e \in S.rr : e[1] \in Known(S) /\ e[2] \in Known(S)
Counted(S) == S.sender_count >= Cardinality(Senders(S))

(* T is S with all of that intact, no source lost and the report timer as  *)
(* it was.                                                                 *)
Keeps(S, T) ==
  /\ T \in Sessions /\ Known(S) \subseteq Known(T)
  /\ DbOk(S) => DbOk(T)
  /\ OwnLast(S) => OwnLast(T)
  /\ RrOk(S) => RrOk(T)
  /\ Counted(S) => Counted(T)
  /\ T.sinceRtcp = S.sinceRtcp /\ T.initial_rtcp = S.initial_rtcp

(* Our own entry has not said BYE since. *)
SameBye(S, T) == Me \in Known(S) => T.src[Me].got_bye = S.src[Me].got_bye

(* What two calls in a row keep, each keeps in turn.                       *)
LEMMA KeepsChain ==
  ASSUME NEW S, NEW T, NEW U, Keeps(S, T), Keeps(T, U)
  PROVE Keeps(S, U) /\ (SameBye(S, T) /\ SameBye(T, U) => SameBye(S, U))
BY DEF Keeps, SameBye

(* A function on sources, by its domain and values. *)
LEMMA SourcesByDomain ==
  ASSUME NEW f
  PROVE f \in Sources <=> DOMAIN f \subseteq Members /\ f \in [DOMAIN f -> Entries]
BY DEF Sources

(* What is known of the fields of a session. *)
LEMMA SessionFields ==
  ASSUME NEW S \in Sessions
  PROVE /\ Known(S) \subseteq Members /\ S.src \in [Known(S) -> Entries]
        /\ S.db \in [Chains -> Seq(Members)] /\ S.rr \in SUBSET (Members \X Members)
        /\ S.ssrc_count \in Int /\ S.ssrc_count_prev \in Int /\ S.sender_count \in Int
        /\ S.bye_count \in Int /\ S.sinceRtcp \in Int /\ S.initial_rtcp \in BOOLEAN
        /\ IsFiniteSet(Known(S)) /\ Cardinality(Known(S)) \in Nat
        /\ Senders(S) \subseteq Known(S) /\ IsFiniteSet(Senders(S))
        /\ Cardinality(Senders(S)) \in Nat /\ Cardinality(Senders(S)) <= Cardinality(Members)
<1>1. Known(S) \subseteq Members /\ S.src \in [Known(S) -> Entries]
  BY SourcesByDomain DEF Sessions, Known
<1>2. IsFiniteSet(Known(S)) /\ Cardinality(Known(S)) \in Nat
  BY <1>1, Constants, FS_Subset, FS_CardinalityType
<1>3. Senders(S) \subseteq Known(S)
  BY DEF Senders
<1>4. /\ IsFiniteSet(Senders(S)) /\ Cardinality(Senders(S)) \in Nat
      /\ Cardinality(Senders(S)) <= Cardinality(Members)
  BY <1>1, <1>3, Constants, FS_Subset, FS_CardinalityType
<1> QED
  BY <1>1, <1>2, <1>3, <1>4 DEF Sessions

(* Marks on the sources and counts kept with them leave the rest alone.    *)
LEMMA MarksOnly ==
  ASSUME NEW S \in Sessions, NEW T \in Sessions,
         Known(T) = Known(S), T.db = S.db, T.rr = S.rr, T.ssrc_count = S.ssrc_count,
         T.sinceRtcp = S.sinceRtcp, T.initial_rtcp = S.initial_rtcp,
         Counted(S) => Counted(T)
  PROVE Keeps(S, T)
BY DEF Keeps, DbOk, OwnLast, OwnEntryLast, RrOk

(* create_source *)
LEMMA CreateKeeps ==
  ASSUME NEW S \in Sessions, NEW x \in Members, NEW T, T = create_source(S, x)
  PROVE /\ Keeps(S, T) /\ SameBye(S, T) /\ Known(T) = Known(S) \cup {x}
        /\ T.sender_count = S.sender_count
<1>1. CASE x \in Known(S)
  <2>1. T = [S EXCEPT !.src = [S.src EXCEPT ![x] = [S.src[x] EXCEPT !.idle = 0]]]
    BY <1>1 DEF create_source
  <2> DEFINE f == [S.src EXCEPT ![x] = [S.src[x] EXCEPT !.idle = 0]]
  <2>2. S.src \in [Known(S) -> Entries] /\ Known(S) \subseteq Members
    BY SessionFields
  <2>3. f \in [Known(S) -> Entries] /\ DOMAIN f = Known(S)
    BY <1>1, <2>2 DEF Entries
  <2>4. f \in Sources
    BY <2>2, <2>3, SourcesByDomain
  <2>5. \A y \in Known(S) : f[y].sender = S.src[y].sender /\ f[y].got_bye = S.src[y].got_bye
    BY <1>1, <2>2 DEF Entries
  <2> HIDE DEF f
  <2>6. /\ T \in Sessions /\ T.src = f /\ T.db = S.db /\ T.rr = S.rr
        /\ T.ssrc_count = S.ssrc_count /\ T.sinceRtcp = S.sinceRtcp
        /\ T.initial_rtcp = S.initial_rtcp /\ T.sender_count = S.sender_count
    BY <2>1, <2>4 DEF Sessions, f
  <2>7. Known(T) = Known(S)
    BY <2>3, <2>6 DEF Known
  <2>8. Senders(T) = Senders(S)
    BY <2>5, <2>6, <2>7 DEF Senders
  <2>9. Counted(S) => Counted(T)
    BY <2>6, <2>8 DEF Counted
  <2>10. Keeps(S, T)
    BY <2>6, <2>7, <2>9, MarksOnly
  <2> QED
    BY <1>1, <2>5, <2>6, <2>7, <2>10 DEF SameBye
<1>2. CASE x \notin Known(S)
  <2> DEFINE f == [y \in Known(S) \cup {x} |-> IF y = x THEN NewSource ELSE S.src[y]]
             h == ssrc_hash(x)
             c == S.db[h]
             g == [S.db EXCEPT ![h] = <<x>> \o c]
  <2>1. T = [S EXCEPT !.src = f, !.db = g, !.ssrc_count = S.ssrc_count + 1]
    BY <1>2 DEF create_source
  <2>2. /\ S.src \in [Known(S) -> Entries] /\ Known(S) \subseteq Members
        /\ S.db \in [Chains -> Seq(Members)] /\ S.ssrc_count \in Int
        /\ IsFiniteSet(Known(S)) /\ Cardinality(Known(S)) \in Nat
    BY SessionFields
  <2>3. h \in Chains
    BY HashIsChain
  <2>4. NewSource \in Entries /\ ~NewSource.sender
    BY DEF NewSource, Entries
  <2>5. f \in [Known(S) \cup {x} -> Entries] /\ DOMAIN f = Known(S) \cup {x}
    BY <2>2, <2>4
  <2>6. f \in Sources
    BY <2>2, <2>5, SourcesByDomain
  <2>7. c \in Seq(Members)
    BY <2>2, <2>3
  <2> HIDE DEF c, h
  <2>8. PICK d : d = <<x>> \o c
    OBVIOUS
  <2>9. /\ d \in Seq(Members) /\ Range(d) = Range(c) \cup {x}
        /\ IsInjective(c) /\ x \notin Range(c) => IsInjective(d)
        /\ d # <<>> /\ (c # <<>> => d[Len(d)] = c[Len(c)])
    BY <2>7, <2>8, HeadAdded
  <2>10. g \in [Chains -> Seq(Members)] /\ g = [S.db EXCEPT ![h] = d]
    BY <2>2, <2>8, <2>9
  <2>11. \A y \in Known(S) : f[y] = S.src[y]
    BY <1>2
  <2>12. f[x] = NewSource
    OBVIOUS
  <2> HIDE DEF f, g
  <2>13. /\ T \in Sessions /\ T.src = f /\ T.db = g /\ T.rr = S.rr
         /\ T.ssrc_count = S.ssrc_count + 1 /\ T.sinceRtcp = S.sinceRtcp
         /\ T.initial_rtcp = S.initial_rtcp /\ T.sender_count = S.sender_count
    <3> DEFINE more == S.ssrc_count + 1
    <3>1. more \in Int /\ T = [S EXCEPT !.src = f, !.db = g, !.ssrc_count = more]
      BY <2>1, <2>2
    <3> HIDE DEF more
    <3>2. /\ T \in Sessions /\ T.src = f /\ T.db = g /\ T.rr = S.rr
          /\ T.ssrc_count = more /\ T.sinceRtcp = S.sinceRtcp
          /\ T.initial_rtcp = S.initial_rtcp /\ T.sender_count = S.sender_count
      BY <2>6, <2>10, <3>1 DEF Sessions
    <3> QED
      BY <3>2 DEF more
  <2>14. Known(T) = Known(S) \cup {x}
    BY <2>5, <2>13 DEF Known
  <2>15. Senders(T) = Senders(S)
    BY <1>2, <2>4, <2>11, <2>12, <2>13, <2>14 DEF Senders
  <2>16. ASSUME DbOk(S) PROVE DbOk(T)
    <3>1. Cardinality(Known(T)) = Cardinality(Known(S)) + 1
      BY <1>2, <2>2, <2>14, FS_AddElement
    <3>2. \A k \in Chains : IsInjective(S.db[k]) /\ Range(S.db[k]) = {y \in Known(S) : ssrc_hash(y) = k}
      BY <2>16 DEF DbOk
    <3>3. x \notin Range(c) /\ IsInjective(c)
      BY <1>2, <2>3, <3>2 DEF c
    <3>4. \A k \in Chains : IsInjective(g[k]) /\ Range(g[k]) = {y \in Known(T) : ssrc_hash(y) = k}
      <4> TAKE k \in Chains
      <4>1. CASE k = h
        <5>1. g[k] = d
          BY <2>2, <2>10, <4>1
        <5>2. Range(d) = {y \in Known(T) : ssrc_hash(y) = k}
          BY <2>3, <2>9, <2>14, <3>2, <4>1 DEF c, h
        <5> QED
          BY <2>9, <3>3, <5>1, <5>2
      <4>2. CASE k # h
        <5>1. g[k] = S.db[k]
          BY <2>2, <2>10, <4>2
        <5>2. {y \in Known(T) : ssrc_hash(y) = k} = {y \in Known(S) : ssrc_hash(y) = k}
          BY <2>14, <4>2 DEF h
        <5> QED
          BY <3>2, <5>1, <5>2
      <4> QED
        BY <4>1, <4>2
    <3> QED
      BY <2>13, <2>16, <3>1, <3>4 DEF DbOk
  <2>17. ASSUME OwnLast(S) PROVE OwnLast(T)
    <3> DEFINE k == ssrc_hash(Me)
    <3>1. k \in Chains
      BY HashIsChain, Constants
    <3>2. Me \in Known(S) /\ S.db[k] # <<>> /\ S.db[k][Len(S.db[k])] = Me
      BY <2>17 DEF OwnLast, OwnEntryLast
    <3> HIDE DEF k
    <3>3. T.db[k] # <<>> /\ T.db[k][Len(T.db[k])] = Me
      <4>1. CASE k = h
        <5>1. T.db[k] = d /\ c # <<>> /\ c[Len(c)] = Me
          BY <2>2, <2>10, <2>13, <3>1, <3>2, <4>1 DEF c
        <5> QED
          BY <2>9, <5>1
      <4>2. CASE k # h
        <5>1. T.db[k] = S.db[k]
          BY <2>2, <2>10, <2>13, <3>1, <4>2
        <5> QED
          BY <3>2, <5>1
      <4> QED
        BY <4>1, <4>2
    <3> QED
      BY <2>14, <3>2, <3>3 DEF OwnLast, OwnEntryLast, k
  <2>18. RrOk(S) => RrOk(T)
    BY <2>13, <2>14 DEF RrOk
  <2>19. Counted(S) => Counted(T)
    BY <2>13, <2>15 DEF Counted
  <2> QED
    BY <2>11, <2>13, <2>14, <2>16, <2>17, <2>18, <2>19 DEF Keeps, SameBye
<1> QED
  BY <1>1, <1>2

(* delete_source leaves a database of the other sources, with ours still   *)
(* last in its chain unless it was the one deleted.                        *)
LEMMA DeleteKeeps ==
  ASSUME NEW S \in Sessions, DbOk(S), NEW x \in Known(S), NEW D, D = delete_source(S, x)
  PROVE /\ D \in Sessions /\ Known(D) = Known(S) \ {x} /\ DbOk(D)
        /\ x # Me /\ OwnLast(S) => OwnLast(D) /\ D.src[Me].got_bye = S.src[Me].got_bye
        /\ RrOk(S) => RrOk(D)
        /\ Counted(S) => Counted(D)
        /\ D.initial_rtcp = S.initial_rtcp /\ D.sinceRtcp \in {S.sinceRtcp, 0}
<1> DEFINE f == [y \in Known(S) \ {x} |-> S.src[y]]
           h == ssrc_hash(x)
           c == S.db[h]
           g == [S.db EXCEPT ![h] = Unlinked(c, x)]
           R == {e \in S.rr : x \notin {e[1], e[2]}}
           T == [S EXCEPT !.src = f, !.db = g, !.rr = R, !.ssrc_count = S.ssrc_count - 1]
<1>1. T = Removed(S, x)
  BY DEF Removed, Restrict
<1>2. /\ S.src \in [Known(S) -> Entries] /\ Known(S) \subseteq Members
      /\ S.db \in [Chains -> Seq(Members)] /\ S.ssrc_count \in Int /\ S.sender_count \in Int
      /\ IsFiniteSet(Known(S)) /\ Cardinality(Known(S)) \in Nat
      /\ S.rr \in SUBSET (Members \X Members)
      /\ IsFiniteSet(Senders(S)) /\ Cardinality(Senders(S)) \in Nat
  BY SessionFields
<1>3. h \in Chains /\ c \in Seq(Members)
  BY <1>2, HashIsChain
<1>4. \A k \in Chains : IsInjective(S.db[k]) /\ Range(S.db[k]) = {y \in Known(S) : ssrc_hash(y) = k}
  BY DEF DbOk
<1>5. IsInjective(c) /\ x \in Range(c)
  BY <1>3, <1>4
<1>6. f \in Sources /\ DOMAIN f = Known(S) \ {x} /\ \A y \in Known(S) \ {x} : f[y] = S.src[y]
  BY <1>2, SourcesByDomain
<1> HIDE DEF c, h
<1>7. PICK u : u = Unlinked(c, x)
  OBVIOUS
<1>8. /\ u \in Seq(Members) /\ IsInjective(u) /\ Range(u) = Range(c) \ {x}
      /\ c[Len(c)] # x => u # <<>> /\ u[Len(u)] = c[Len(c)]
  BY <1>3, <1>5, <1>7, EntryUnlinked
<1>9. g = [S.db EXCEPT ![h] = u] /\ g \in [Chains -> Seq(Members)]
  BY <1>2, <1>3, <1>7, <1>8
<1>10. g[h] = u /\ \A k \in Chains : k # h => g[k] = S.db[k]
  BY <1>2, <1>3, <1>9
<1>11. R \in SUBSET (Members \X Members) /\ R \subseteq S.rr /\ \A e \in R : e[1] # x /\ e[2] # x
  BY <1>2
<1> HIDE DEF f, g, R
<1>12. /\ T \in Sessions /\ T.src = f /\ T.db = g /\ T.rr = R
       /\ T.ssrc_count = S.ssrc_count - 1 /\ T.sender_count = S.sender_count
       /\ T.sinceRtcp = S.sinceRtcp /\ T.initial_rtcp = S.initial_rtcp
  <2> DEFINE less == S.ssrc_count - 1
  <2>1. less \in Int
    BY <1>2
  <2> HIDE DEF less
  <2>2. /\ [S EXCEPT !.src = f, !.db = g, !.rr = R, !.ssrc_count = less] \in Sessions
        /\ [S EXCEPT !.src = f, !.db = g, !.rr = R, !.ssrc_count = less].src = f
        /\ [S EXCEPT !.src = f, !.db = g, !.rr = R, !.ssrc_count = less].db = g
        /\ [S EXCEPT !.src = f, !.db = g, !.rr = R, !.ssrc_count = less].rr = R
        /\ [S EXCEPT !.src = f, !.db = g, !.rr = R, !.ssrc_count = less].ssrc_count = less
        /\ [S EXCEPT !.src = f, !.db = g, !.rr = R, !.ssrc_count = less].sender_count
             = S.sender_count
        /\ [S EXCEPT !.src = f, !.db = g, !.rr = R, !.ssrc_count = less].sinceRtcp = S.sinceRtcp
        /\ [S EXCEPT !.src = f, !.db = g, !.rr = R, !.ssrc_count = less].initial_rtcp
             = S.initial_rtcp
    BY <1>6, <1>9, <1>11, <2>1 DEF Sessions
  <2> QED
    BY <2>2 DEF less
<1> HIDE DEF T
<1>13. D = T \/ D = Reconsidered(T)
  BY <1>1 DEF delete_source
<1>14. /\ D \in Sessions /\ D.src = f /\ D.db = g /\ D.rr = R
       /\ D.ssrc_count = S.ssrc_count - 1 /\ D.sender_count = S.sender_count
       /\ D.initial_rtcp = S.initial_rtcp /\ D.sinceRtcp \in {S.sinceRtcp, 0}
  <2>1. CASE D = T
    BY <1>12, <2>1
  <2>2. CASE D = Reconsidered(T)
    <3>1. T.ssrc_count \in Int /\ -1 \in Int /\ 0 \in Int
      BY <1>12, <1>2
    <3>2. /\ Reconsidered(T) \in Sessions /\ Reconsidered(T).src = T.src
          /\ Reconsidered(T).db = T.db /\ Reconsidered(T).rr = T.rr
          /\ Reconsidered(T).ssrc_count = T.ssrc_count
          /\ Reconsidered(T).sender_count = T.sender_count
          /\ Reconsidered(T).initial_rtcp = T.initial_rtcp /\ Reconsidered(T).sinceRtcp = 0
      BY <1>12, <3>1 DEF Reconsidered, Sessions
    <3> QED
      BY <1>12, <2>2, <3>2
  <2> QED
    BY <1>13, <2>1, <2>2
<1>15. Known(D) = Known(S) \ {x}
  BY <1>6, <1>14 DEF Known
<1>16. DbOk(D)
  <2>1. Cardinality(Known(D)) = Cardinality(Known(S)) - 1
    BY <1>2, <1>15, FS_RemoveElement
  <2>2. \A k \in Chains : IsInjective(g[k]) /\ Range(g[k]) = {y \in Known(D) : ssrc_hash(y) = k}
    <3> TAKE k \in Chains
    <3>1. CASE k = h
      <4>1. Range(u) = {y \in Known(D) : ssrc_hash(y) = k}
        BY <1>3, <1>4, <1>8, <1>15, <3>1 DEF c
      <4> QED
        BY <1>8, <1>10, <3>1, <4>1
    <3>2. CASE k # h
      <4>1. {y \in Known(D) : ssrc_hash(y) = k} = {y \in Known(S) : ssrc_hash(y) = k}
        BY <1>15, <3>2 DEF h
      <4> QED
        BY <1>4, <1>10, <3>2, <4>1
    <3> QED
      BY <3>1, <3>2
  <2>3. S.ssrc_count = Cardinality(Known(S))
    BY DEF DbOk
  <2> QED
    BY <1>14, <2>1, <2>2, <2>3 DEF DbOk
<1>17. ASSUME x # Me, OwnLast(S) PROVE OwnLast(D) /\ D.src[Me].got_bye = S.src[Me].got_bye
  <2> DEFINE k == ssrc_hash(Me)
  <2>1. k \in Chains
    BY HashIsChain, Constants
  <2>2. Me \in Known(S) /\ S.db[k] # <<>> /\ S.db[k][Len(S.db[k])] = Me
    BY <1>17 DEF OwnLast, OwnEntryLast
  <2> HIDE DEF k
  <2>3. g[k] # <<>> /\ g[k][Len(g[k])] = Me
    <3>1. CASE k = h
      <4>1. c[Len(c)] = Me
        BY <2>2, <3>1 DEF c
      <4> QED
        BY <1>8, <1>10, <1>17, <3>1, <4>1
    <3>2. CASE k # h
      BY <1>10, <2>1, <2>2, <3>2
    <3> QED
      BY <3>1, <3>2
  <2>4. D.src[Me] = S.src[Me]
    BY <1>6, <1>14, <1>17, <2>2
  <2> QED
    BY <1>14, <1>15, <1>17, <2>2, <2>3, <2>4 DEF OwnLast, OwnEntryLast, k
<1>18. RrOk(S) => RrOk(D)
  BY <1>11, <1>14, <1>15 DEF RrOk
<1>19. Counted(S) => Counted(D)
  <2>1. Senders(D) \subseteq Senders(S)
    BY <1>6, <1>14, <1>15 DEF Senders
  <2>2. Cardinality(Senders(D)) \in Nat /\ Cardinality(Senders(D)) <= Cardinality(Senders(S))
    BY <1>2, <2>1, FS_Subset, FS_CardinalityType
  <2> QED
    BY <1>2, <1>14, <2>2 DEF Counted
<1> QED
  BY <1>14, <1>15, <1>16, <1>17, <1>18, <1>19

(* Senders that are senders no more, counted down by as many: quiet ones   *)
(* in rtp_update, reported ones in format_report_blocks.                   *)
LEMMA SendersMarked ==
  ASSUME NEW S \in Sessions, NEW Q, Q \subseteq Senders(S), NEW T \in Sessions,
         T.src = [x \in Known(S) |-> [S.src[x] EXCEPT !.sender = @ /\ x \notin Q]],
         T.sender_count = S.sender_count - Cardinality(Q),
         T.db = S.db, T.rr = S.rr, T.ssrc_count = S.ssrc_count,
         T.sinceRtcp = S.sinceRtcp, T.initial_rtcp = S.initial_rtcp
  PROVE Keeps(S, T) /\ SameBye(S, T) /\ Known(T) = Known(S)
<1>1. Known(T) = Known(S)
  BY DEF Known
<1>2. \A x \in Known(S) : S.src[x] \in Entries
  BY SessionFields
<1>3. \A x \in Known(S) : /\ T.src[x].got_bye = S.src[x].got_bye
                          /\ T.src[x].sender = (S.src[x].sender /\ x \notin Q)
  BY <1>2 DEF Entries
<1>4. Senders(T) = Senders(S) \ Q
  BY <1>1, <1>3 DEF Senders
<1>5. Counted(S) => Counted(T)
  <2>1. /\ IsFiniteSet(Senders(S)) /\ Cardinality(Senders(S)) \in Nat /\ S.sender_count \in Int
    BY SessionFields
  <2>2. IsFiniteSet(Q) /\ Cardinality(Q) \in Nat
    BY <2>1, FS_Subset, FS_CardinalityType
  <2>3. Cardinality(Senders(S) \ Q) = Cardinality(Senders(S)) - Cardinality(Senders(S) \cap Q)
    BY <2>1, FS_Difference
  <2>4. Senders(S) \cap Q = Q
    OBVIOUS
  <2> QED
    <3> DEFINE old == Cardinality(Senders(S))
               gone == Cardinality(Q)
    <3>1. Cardinality(Senders(T)) = old - gone
      BY <1>4, <2>3, <2>4
    <3>2. old \in Nat /\ gone \in Nat /\ S.sender_count \in Int
      BY <2>1, <2>2
    <3>3. T.sender_count = S.sender_count - gone
      OBVIOUS
    <3> HIDE DEF old, gone
    <3>4. S.sender_count >= old => T.sender_count >= Cardinality(Senders(T))
      BY <3>1, <3>2, <3>3
    <3> QED
      BY <3>4 DEF Counted, old
<1>6. SameBye(S, T)
  BY <1>3 DEF SameBye
<1> QED
  BY <1>1, <1>5, <1>6, MarksOnly

(* process_rtcp_sr counts each sender once.                                *)
LEMMA SrKeeps ==
  ASSUME NEW S \in Sessions, NEW x \in Known(S), NEW T, T = process_rtcp_sr(S, x)
  PROVE Keeps(S, T) /\ SameBye(S, T) /\ Known(T) = Known(S)
<1>1. CASE S.src[x].sender
  <2>1. T = S
    BY <1>1 DEF process_rtcp_sr
  <2> QED
    BY <2>1 DEF Keeps, SameBye
<1>2. CASE ~S.src[x].sender
  <2> DEFINE f == [S.src EXCEPT ![x] = [S.src[x] EXCEPT !.sender = TRUE]]
             m == Smaller(S.sender_count + 1, MaxSenders)
  <2>1. T = [S EXCEPT !.src = f, !.sender_count = m]
    BY <1>2 DEF process_rtcp_sr
  <2>2. /\ S.src \in [Known(S) -> Entries] /\ Known(S) \subseteq Members /\ S.sender_count \in Int
        /\ IsFiniteSet(Senders(S)) /\ Cardinality(Senders(S)) \in Nat
    BY SessionFields
  <2>3. f \in [Known(S) -> Entries] /\ DOMAIN f = Known(S)
    BY <2>2 DEF Entries
  <2>4. f \in Sources
    BY <2>2, <2>3, SourcesByDomain
  <2>5. \A y \in Known(S) : /\ f[y].got_bye = S.src[y].got_bye
                            /\ f[y].sender = (S.src[y].sender \/ y = x)
    BY <2>2 DEF Entries
  <2>6. MaxSenders \in Int /\ MaxSenders >= Cardinality(Members) /\ Cardinality(Members) \in Nat
    BY Constants DEF MaxSenders
  <2>7. m \in Int /\ (m = S.sender_count + 1 \/ m = MaxSenders)
    BY <2>2, <2>6 DEF Smaller
  <2> HIDE DEF f, m
  <2>8. /\ T \in Sessions /\ T.src = f /\ T.sender_count = m /\ T.db = S.db /\ T.rr = S.rr
        /\ T.ssrc_count = S.ssrc_count /\ T.sinceRtcp = S.sinceRtcp
        /\ T.initial_rtcp = S.initial_rtcp
    BY <2>1, <2>4, <2>7 DEF Sessions
  <2>9. Known(T) = Known(S)
    BY <2>3, <2>8 DEF Known
  <2>10. Senders(T) = Senders(S) \cup {x}
    BY <2>5, <2>8, <2>9 DEF Senders
  <2>11. ASSUME Counted(S) PROVE Counted(T)
    <3>1. x \notin Senders(S)
      BY <1>2 DEF Senders
    <3>2. Cardinality(Senders(T)) = Cardinality(Senders(S)) + 1
      BY <2>2, <2>10, <3>1, FS_AddElement
    <3>3. Cardinality(Senders(T)) <= Cardinality(Members) /\ Cardinality(Senders(T)) \in Nat
      BY <2>8, SessionFields
    <3>4. S.sender_count >= Cardinality(Senders(S))
      BY <2>11 DEF Counted
    <3>5. m >= Cardinality(Senders(T))
      BY <2>2, <2>6, <2>7, <3>2, <3>3, <3>4
    <3> QED
      BY <2>8, <3>5 DEF Counted
  <2>12. Keeps(S, T)
    BY <2>8, <2>9, <2>11, MarksOnly
  <2> QED
    BY <2>5, <2>8, <2>9, <2>12 DEF SameBye
<1> QED
  BY <1>1, <1>2

(* A report block is held only with both of its sources known.             *)
LEMMA ReportKeeps ==
  ASSUME NEW S \in Sessions, NEW x \in Known(S), NEW r \in Members \cup {NoSource},
         NEW T, T = process_report_blocks(S, x, r)
  PROVE Keeps(S, T) /\ SameBye(S, T)
<1>1. CASE r = NoSource
  <2>1. T = S
    BY <1>1 DEF process_report_blocks
  <2> QED
    BY <2>1 DEF Keeps, SameBye
<1>2. CASE r # NoSource
  <2>1. PICK A : A = create_source(S, r)
    OBVIOUS
  <2>2. /\ Keeps(S, A) /\ SameBye(S, A) /\ Known(A) = Known(S) \cup {r} /\ A \in Sessions
        /\ r \in Members
    BY <1>2, <2>1, CreateKeeps DEF Keeps
  <2> DEFINE R == A.rr \cup {<<x, r>>}
  <2>3. T = [A EXCEPT !.rr = R]
    BY <1>2, <2>1 DEF process_report_blocks, insert_rr
  <2>4. R \in SUBSET (Members \X Members)
    BY <2>2, SessionFields
  <2>5. /\ T \in Sessions /\ T.rr = R /\ T.src = A.src /\ T.db = A.db
        /\ T.ssrc_count = A.ssrc_count /\ T.sender_count = A.sender_count
        /\ T.sinceRtcp = A.sinceRtcp /\ T.initial_rtcp = A.initial_rtcp
    <3> HIDE DEF R
    <3> QED
      BY <2>2, <2>3, <2>4 DEF Sessions
  <2>6. Known(T) = Known(A) /\ Senders(T) = Senders(A)
    BY <2>5 DEF Known, Senders
  <2>7. RrOk(A) => RrOk(T)
    BY <2>2, <2>5, <2>6 DEF RrOk
  <2>8. Keeps(A, T) /\ SameBye(A, T)
    BY <2>5, <2>6, <2>7 DEF Keeps, SameBye, DbOk, OwnLast, OwnEntryLast, Counted
  <2> QED
    BY <2>2, <2>8, KeepsChain
<1> QED
  BY <1>1, <1>2

(* A record with only avg_known changed *)
LEMMA AvgKeeps ==
  ASSUME NEW S \in Sessions, NEW T, T = [S EXCEPT !.avg_known = TRUE]
  PROVE Keeps(S, T) /\ SameBye(S, T) /\ Known(T) = Known(S) /\ T.src = S.src
<1>1. /\ T \in Sessions /\ T.rr = S.rr /\ T.src = S.src /\ T.db = S.db
      /\ T.ssrc_count = S.ssrc_count /\ T.sender_count = S.sender_count
      /\ T.sinceRtcp = S.sinceRtcp /\ T.initial_rtcp = S.initial_rtcp
  BY DEF Sessions
<1>2. Known(T) = Known(S) /\ Senders(T) = Senders(S)
  BY <1>1 DEF Known, Senders
<1> QED
  BY <1>1, <1>2, MarksOnly DEF Counted, SameBye

(* rtp_process_ctrl, whoever the packet is from and whatever it reports.   *)
LEMMA CtrlKeeps ==
  ASSUME NEW S \in Sessions, NEW x \in Members, NEW sr \in BOOLEAN,
         NEW r \in Members \cup {NoSource}, NEW T, T = rtp_process_ctrl(S, x, sr, r)
  PROVE /\ Keeps(S, T) /\ SameBye(S, T) /\ x \in Known(T) /\ T \in Sessions
        /\ r = NoSource => Known(T) = Known(S) \cup {x}
<1>1. PICK A : A = create_source(S, x)
  OBVIOUS
<1>2. PICK B : B = IF sr THEN process_rtcp_sr(A, x) ELSE A
  OBVIOUS
<1>3. PICK C : C = process_report_blocks(B, x, r)
  OBVIOUS
<1>4. T = [C EXCEPT !.avg_known = TRUE]
  <2>1. T = [process_report_blocks(B, x, r) EXCEPT !.avg_known = TRUE]
    BY <1>1, <1>2 DEF rtp_process_ctrl
  <2> QED
    BY <1>3, <2>1
<1>5. Keeps(S, A) /\ SameBye(S, A) /\ Known(A) = Known(S) \cup {x} /\ A \in Sessions
  BY <1>1, CreateKeeps DEF Keeps
<1>6. Keeps(A, B) /\ SameBye(A, B) /\ Known(B) = Known(A) /\ B \in Sessions
  BY <1>2, <1>5, SrKeeps DEF Keeps, SameBye
<1>7. Keeps(B, C) /\ SameBye(B, C) /\ C \in Sessions
  <2>1. x \in Known(B) /\ B \in Sessions
    BY <1>5, <1>6
  <2>2. Keeps(B, C) /\ SameBye(B, C)
    BY <1>3, <2>1, ReportKeeps
  <2> QED
    BY <2>2 DEF Keeps
<1>8. r = NoSource => C = B
  BY <1>3 DEF process_report_blocks
<1>9. Keeps(C, T) /\ SameBye(C, T) /\ Known(T) = Known(C)
  BY <1>4, <1>7, AvgKeeps
<1>10. Keeps(S, T) /\ SameBye(S, T)
  BY <1>5, <1>6, <1>7, <1>9, KeepsChain
<1> QED
  BY <1>5, <1>6, <1>7, <1>8, <1>9, <1>10 DEF Keeps

(* process_rtcp_bye marks its source only.                                 *)
LEMMA ByeKeeps ==
  ASSUME NEW S \in Sessions, NEW x \in Known(S), NEW T, T = process_rtcp_bye(S, x)
  PROVE Keeps(S, T) /\ (x # Me => SameBye(S, T))
<1> DEFINE f == [S.src EXCEPT ![x] = [S.src[x] EXCEPT !.got_bye = TRUE]]
           m == IF S.sending_bye THEN Smaller(S.bye_count + 1, MaxByes) ELSE S.bye_count
<1>1. T = [S EXCEPT !.src = f, !.bye_count = m]
  BY DEF process_rtcp_bye
<1>2. S.src \in [Known(S) -> Entries] /\ Known(S) \subseteq Members /\ S.bye_count \in Int
  BY SessionFields
<1>3. f \in [Known(S) -> Entries] /\ DOMAIN f = Known(S)
  BY <1>2 DEF Entries
<1>4. f \in Sources
  BY <1>2, <1>3, SourcesByDomain
<1>5. \A y \in Known(S) : f[y].sender = S.src[y].sender /\ (y # x => f[y] = S.src[y])
  BY <1>2 DEF Entries
<1>6. m \in Int
  BY <1>2, Constants DEF Smaller
<1> HIDE DEF f, m
<1>7. /\ T \in Sessions /\ T.src = f /\ T.sender_count = S.sender_count /\ T.db = S.db
      /\ T.rr = S.rr /\ T.ssrc_count = S.ssrc_count /\ T.sinceRtcp = S.sinceRtcp
      /\ T.initial_rtcp = S.initial_rtcp
  BY <1>1, <1>4, <1>6 DEF Sessions
<1>8. Known(T) = Known(S)
  BY <1>3, <1>7 DEF Known
<1>9. Senders(T) = Senders(S)
  BY <1>5, <1>7, <1>8 DEF Senders
<1> QED
  BY <1>5, <1>7, <1>8, <1>9, MarksOnly DEF Counted, SameBye

-----------------------------------------------------------------------------
(* Reports and housekeeping *)

(* The report of a session leaves with some of its senders taken out.      *)
LEMMA FormatKeeps ==
  ASSUME NEW S \in Sessions, NEW T, T = format_report_blocks(S)
  PROVE Keeps(S, T) /\ SameBye(S, T) /\ Known(T) = Known(S) /\ Reported(S) \subseteq Known(S)
<1> DEFINE Q == Reported(S)
           f == [x \in Known(S) |-> [S.src[x] EXCEPT !.sender = @ /\ x \notin Q]]
           m == S.sender_count - Cardinality(Q)
<1>1. T = [S EXCEPT !.src = f, !.sender_count = m]
  BY DEF format_report_blocks
<1>2. Q \subseteq Senders(S) /\ Senders(S) \subseteq Known(S)
  BY SessionFields DEF Reported
<1> HIDE DEF Q
<1>3. /\ S.src \in [Known(S) -> Entries] /\ Known(S) \subseteq Members /\ S.sender_count \in Int
      /\ IsFiniteSet(Senders(S))
  BY SessionFields
<1>4. Cardinality(Q) \in Nat
  BY <1>2, <1>3, FS_Subset, FS_CardinalityType
<1>5. f \in [Known(S) -> Entries] /\ DOMAIN f = Known(S)
  BY <1>3 DEF Entries
<1>6. f \in Sources /\ m \in Int
  <2>1. m \in Int
    BY <1>3, <1>4
  <2> HIDE DEF f
  <2>2. f \in Sources
    BY <1>3, <1>5, SourcesByDomain
  <2> QED
    BY <2>1, <2>2
<1> HIDE DEF f, m
<1>7. /\ T \in Sessions /\ T.src = f /\ T.sender_count = m /\ T.db = S.db /\ T.rr = S.rr
      /\ T.ssrc_count = S.ssrc_count /\ T.sinceRtcp = S.sinceRtcp
      /\ T.initial_rtcp = S.initial_rtcp
  BY <1>1, <1>6 DEF Sessions
<1>8. Keeps(S, T) /\ SameBye(S, T) /\ Known(T) = Known(S)
  BY <1>2, <1>7, SendersMarked DEF f, m
<1> QED
  BY <1>2, <1>8 DEF Q

(* A session hears its own report on sources it knows.                     *)
LEMMA HeardKeeps ==
  ASSUME NEW F \in Sessions, NEW sr \in BOOLEAN, NEW R, R \subseteq Known(F),
         NEW T, T = Heard(F, sr, R)
  PROVE Keeps(F, T) /\ SameBye(F, T) /\ Me \in Known(T)
<1>1. PICK A : A = rtp_process_ctrl(F, Me, sr, NoSource)
  OBVIOUS
<1>2. Keeps(F, A) /\ SameBye(F, A) /\ A \in Sessions /\ Known(A) = Known(F) \cup {Me}
  BY <1>1, CtrlKeeps, Constants
<1> DEFINE K == Known(F) \cup {Me}
           f == [x \in K |-> [A.src[x] EXCEPT !.idle = IF x \in R THEN 0 ELSE @]]
           r == F.rr \cup ({Me} \X R)
<1>3. T = [A EXCEPT !.src = f, !.rr = r]
  BY <1>1 DEF Heard
<1>4. /\ A.src \in [K -> Entries] /\ K \subseteq Members /\ Known(F) \subseteq Members
      /\ F.rr \in SUBSET (Members \X Members) /\ Me \in Members
  BY <1>2, SessionFields, Constants
<1>5. \A x \in K : /\ f[x] \in Entries /\ f[x].sender = A.src[x].sender
                   /\ f[x].got_bye = A.src[x].got_bye
  <2> TAKE x \in K
  <2>1. A.src[x] \in Entries
    BY <1>4
  <2> DEFINE idle == IF x \in R THEN 0 ELSE A.src[x].idle
  <2>2. f[x] = [A.src[x] EXCEPT !.idle = idle]
    OBVIOUS
  <2>3. idle \in Int
    BY <2>1 DEF Entries
  <2> HIDE DEF f, idle
  <2> QED
    BY <2>1, <2>2, <2>3 DEF Entries
<1>6. f \in [K -> Entries] /\ DOMAIN f = K
  BY <1>5
<1>7. f \in Sources
  BY <1>4, <1>6, SourcesByDomain
<1>8. r \in SUBSET (Members \X Members)
  BY <1>4
<1>9. \A e \in r : e \in F.rr \/ (e[1] = Me /\ e[2] \in Known(F))
  OBVIOUS
<1> HIDE DEF f, r
<1>10. /\ T \in Sessions /\ T.src = f /\ T.rr = r /\ T.sender_count = A.sender_count
       /\ T.db = A.db /\ T.ssrc_count = A.ssrc_count /\ T.sinceRtcp = A.sinceRtcp
       /\ T.initial_rtcp = A.initial_rtcp
  BY <1>2, <1>3, <1>7, <1>8 DEF Sessions
<1>11. Known(T) = K
  BY <1>6, <1>10 DEF Known
<1>12. Senders(T) = Senders(A)
  BY <1>2, <1>5, <1>10, <1>11 DEF Senders
<1>13. RrOk(F) => RrOk(T)
  BY <1>9, <1>10, <1>11 DEF RrOk
<1>14. /\ DbOk(A) => DbOk(T)
       /\ OwnLast(A) => OwnLast(T)
       /\ Counted(A) => Counted(T)
  BY <1>2, <1>10, <1>11, <1>12 DEF DbOk, OwnLast, OwnEntryLast, Counted
<1>15. Keeps(F, T)
  BY <1>2, <1>10, <1>11, <1>13, <1>14 DEF Keeps
<1>16. SameBye(F, T)
  BY <1>2, <1>5, <1>10 DEF SameBye
<1> QED
  BY <1>11, <1>15, <1>16

(* The interval is an integer, and a later one at least RTCP_MIN_TIME.     *)
LEMMA IntervalBounds ==
  ASSUME NEW S \in Sessions
  PROVE /\ rtcp_interval(S) \in Int
        /\ ~S.initial_rtcp => rtcp_interval(S) >= MinTime
        /\ \A d \in Draws(S) : d \in Int /\ (~S.initial_rtcp => d >= LeastGap)
<1> DEFINE members == IF S.sending_bye THEN S.bye_count ELSE S.ssrc_count
           few == S.sender_count > 0 /\ 4 * S.sender_count < members
           load == IF ~S.avg_known THEN 0
                   ELSE IF ~few THEN members
                   ELSE IF S.we_sent THEN 4 * S.sender_count
                   ELSE (4 * (members - S.sender_count)) \div 3
           least == IF S.initial_rtcp THEN MinTime \div 2 ELSE MinTime
           share == load \div MembersPerTick
<1>1. S.bye_count \in Int /\ S.ssrc_count \in Int /\ S.sender_count \in Int
  BY SessionFields
<1>2. members \in Int /\ MinTime \in Int /\ MembersPerTick \in Nat /\ MembersPerTick > 0
  BY <1>1, Constants
<1> HIDE DEF members
<1>3. (4 * (members - S.sender_count)) \div 3 \in Int /\ 4 * S.sender_count \in Int
  BY <1>1, <1>2
<1>4. load \in Int
  <2> HIDE DEF few
  <2> QED
    BY <1>2, <1>3
<1> HIDE DEF load
<1>5. share \in Int /\ least \in Int
  BY <1>2, <1>4
<1>6. rtcp_interval(S) = Larger(least, share)
  BY DEF rtcp_interval, members, load
<1> HIDE DEF share
<1>7. rtcp_interval(S) \in Int /\ rtcp_interval(S) >= least
  <2> HIDE DEF least
  <2> QED
    BY <1>5, <1>6 DEF Larger
<1>8. ~S.initial_rtcp => rtcp_interval(S) >= MinTime
  BY <1>7
<1>9. ASSUME NEW d \in Draws(S) PROVE d \in Int /\ (~S.initial_rtcp => d >= LeastGap)
  <2> DEFINE i == rtcp_interval(S)
  <2>1. i \in Int /\ (~S.initial_rtcp => i >= MinTime)
    BY <1>7, <1>8
  <2>2. d \in (41 * i) \div 100 .. (124 * i) \div 100
    BY <1>9 DEF Draws
  <2> HIDE DEF i
  <2>3. (41 * i) \div 100 \in Int /\ (124 * i) \div 100 \in Int
    BY <2>1
  <2>4. i >= MinTime => (41 * i) \div 100 >= (41 * MinTime) \div 100
    BY <1>2, <2>1
  <2>5. (41 * MinTime) \div 100 \in Int
    BY <1>2
  <2> QED
    BY <2>1, <2>2, <2>3, <2>4, <2>5 DEF LeastGap
<1> QED
  BY <1>7, <1>8, <1>9

(* A session with other timers and flags.                                  *)
SameData(S, T) ==
  /\ T \in Sessions /\ T.src = S.src /\ T.db = S.db /\ T.rr = S.rr
  /\ T.ssrc_count = S.ssrc_count

(* Timers and flags are no part of the database.                           *)
LEMMA SameDataKeeps ==
  ASSUME NEW S \in Sessions, NEW T, SameData(S, T)
  PROVE /\ Known(T) = Known(S) /\ SameBye(S, T) /\ Senders(T) = Senders(S)
        /\ DbOk(S) => DbOk(T)
        /\ OwnLast(S) => OwnLast(T)
        /\ RrOk(S) => RrOk(T)
        /\ (/\ T.sender_count = S.sender_count /\ T.sinceRtcp = S.sinceRtcp
            /\ T.initial_rtcp = S.initial_rtcp)
             => Keeps(S, T)
BY DEF SameData, Known, SameBye, Senders, DbOk, OwnLast, OwnEntryLast, RrOk, Keeps, Counted

(* The interval drawn again, and the report put off.                       *)
LEMMA TimersKeep ==
  ASSUME NEW S \in Sessions, NEW d \in Int
  PROVE /\ WithInterval(S) \in Sessions /\ SameData(S, WithInterval(S))
        /\ Keeps(S, WithInterval(S))
        /\ PutOff(S, d) \in Sessions /\ SameData(S, PutOff(S, d)) /\ Keeps(S, PutOff(S, d))
<1>1. PICK i : i = rtcp_interval(S)
  OBVIOUS
<1>2. i \in Int /\ S.sinceRtcp \in Int
  BY <1>1, IntervalBounds, SessionFields
<1>3. PICK T : T = WithInterval(S)
  OBVIOUS
<1>4. T = [S EXCEPT !.rtcp_interval = i]
  BY <1>1, <1>3 DEF WithInterval
<1>5. /\ T \in Sessions /\ SameData(S, T) /\ T.sender_count = S.sender_count
      /\ T.sinceRtcp = S.sinceRtcp /\ T.initial_rtcp = S.initial_rtcp
  BY <1>2, <1>4 DEF Sessions, SameData
<1>6. PICK j : j = d - S.sinceRtcp
  OBVIOUS
<1>7. j \in Int
  BY <1>2, <1>6
<1>8. PICK U : U = PutOff(S, d)
  OBVIOUS
<1>9. U = [S EXCEPT !.untilRtcp = j]
  BY <1>6, <1>8 DEF PutOff
<1>10. /\ U \in Sessions /\ SameData(S, U) /\ U.sender_count = S.sender_count
       /\ U.sinceRtcp = S.sinceRtcp /\ U.initial_rtcp = S.initial_rtcp
  BY <1>7, <1>9 DEF Sessions, SameData
<1> QED
  BY <1>3, <1>5, <1>8, <1>10, SameDataKeeps

(* The housekeeping's marks, and what it decides to delete: sources that   *)
(* are known, and ours only after its BYE.                                 *)
LEMMA UpdateKeeps ==
  ASSUME NEW S \in Sessions, NEW w \in Int, NEW T, T = UpdateMarks(S, w)
  PROVE /\ Keeps(S, T) /\ SameBye(S, T) /\ Known(T) = Known(S)
        /\ Expired(T) \subseteq Known(T)
        /\ Me \in Expired(T) => T.src[Me].got_bye
<1>1. PICK V : V = WithInterval(S)
  OBVIOUS
<1>2. V \in Sessions /\ Keeps(S, V) /\ SameBye(S, V) /\ Known(V) = Known(S)
  <2>1. V \in Sessions /\ Keeps(S, V) /\ SameData(S, V)
    BY <1>1, TimersKeep
  <2> QED
    BY <2>1, SameDataKeeps
<1>3. PICK b \in BOOLEAN : b = (V.we_sent /\ S.sinceRtp < 2 * w)
  OBVIOUS
<1>4. PICK U : U = [V EXCEPT !.sinceUpdate = 0, !.we_sent = b]
  OBVIOUS
<1>5. /\ U \in Sessions /\ SameData(V, U) /\ U.sender_count = V.sender_count
      /\ U.sinceRtcp = V.sinceRtcp /\ U.initial_rtcp = V.initial_rtcp
  <2>1. V \in Sessions /\ 0 \in Int /\ b \in BOOLEAN
    BY <1>2
  <2>2. U \in Sessions
    BY <1>4, <2>1 DEF Sessions
  <2>3. /\ U.src = V.src /\ U.db = V.db /\ U.rr = V.rr /\ U.ssrc_count = V.ssrc_count
        /\ U.sender_count = V.sender_count /\ U.sinceRtcp = V.sinceRtcp
        /\ U.initial_rtcp = V.initial_rtcp
    BY <1>4, <2>1 DEF Sessions
  <2> QED
    BY <2>2, <2>3 DEF SameData
<1>6. Keeps(V, U) /\ SameBye(V, U) /\ Known(U) = Known(V)
  BY <1>2, <1>5, SameDataKeeps
<1>7. PICK Q : Q = Quiet(U)
  OBVIOUS
<1>8. Q \subseteq Senders(U)
  BY <1>7 DEF Quiet
<1> DEFINE f == [x \in Known(U) |-> [U.src[x] EXCEPT !.sender = @ /\ x \notin Q]]
           m == U.sender_count - Cardinality(Q)
<1>9. T = [U EXCEPT !.src = f, !.sender_count = m]
  <2>1. U = [WithInterval(S) EXCEPT !.sinceUpdate = 0, !.we_sent = @ /\ S.sinceRtp < 2 * w]
    BY <1>1, <1>3, <1>4
  <2> QED
    BY <1>7, <2>1 DEF UpdateMarks
<1>10. /\ U.src \in [Known(U) -> Entries] /\ Known(U) \subseteq Members /\ U.sender_count \in Int
       /\ IsFiniteSet(Senders(U)) /\ Senders(U) \subseteq Known(U)
  BY <1>5, SessionFields
<1>11. Cardinality(Q) \in Nat
  BY <1>8, <1>10, FS_Subset, FS_CardinalityType
<1>12. f \in [Known(U) -> Entries] /\ DOMAIN f = Known(U)
  BY <1>10 DEF Entries
<1>13. f \in Sources /\ m \in Int
  <2>1. m \in Int
    BY <1>10, <1>11
  <2> HIDE DEF f
  <2>2. f \in Sources
    BY <1>10, <1>12, SourcesByDomain
  <2> QED
    BY <2>1, <2>2
<1> HIDE DEF f, m
<1>14. /\ T \in Sessions /\ T.src = f /\ T.sender_count = m /\ T.db = U.db /\ T.rr = U.rr
       /\ T.ssrc_count = U.ssrc_count /\ T.sinceRtcp = U.sinceRtcp
       /\ T.initial_rtcp = U.initial_rtcp
  BY <1>5, <1>9, <1>13 DEF Sessions
<1>15. Keeps(U, T) /\ SameBye(U, T) /\ Known(T) = Known(U)
  BY <1>5, <1>8, <1>14, SendersMarked DEF f, m
<1>16. Expired(T) \subseteq Known(T) /\ (Me \in Expired(T) => T.src[Me].got_bye)
  BY DEF Expired, ByeExpired, Silent
<1> QED
  BY <1>2, <1>6, <1>15, <1>16, KeepsChain

(* What rtp_send_ctrl does with a report: T is the session after it.       *)
LEMMA ReportSent ==
  ASSUME NEW S \in Sessions, DbOk(S), RrOk(S),
         NEW T, T = [send_rtcp(S) EXCEPT !.initial_rtcp = FALSE, !.sinceRtcp = 0],
         NEW e \in Draws(T), NEW U, U = NewInterval(T, e)
  PROVE /\ U \in Sessions /\ DbOk(U) /\ RrOk(U) /\ Counted(U)
        /\ OwnLast(S) => OwnLast(U)
        /\ SameBye(S, U) /\ Known(S) \subseteq Known(U) /\ U.sinceRtcp = 0 /\ ~U.initial_rtcp
<1>1. PICK F : F = format_report_blocks(S)
  OBVIOUS
<1>2. /\ Keeps(S, F) /\ SameBye(S, F) /\ Known(F) = Known(S) /\ Reported(S) \subseteq Known(F)
      /\ F \in Sessions
  <2>1. Keeps(S, F) /\ SameBye(S, F) /\ Known(F) = Known(S) /\ Reported(S) \subseteq Known(S)
    BY <1>1, FormatKeeps
  <2> QED
    BY <2>1 DEF Keeps
<1>3. PICK H : H = Heard(F, S.we_sent, Reported(S))
  OBVIOUS
<1>4. Keeps(F, H) /\ SameBye(F, H) /\ H \in Sessions
  <2>1. S.we_sent \in BOOLEAN
    BY DEF Sessions
  <2>2. Keeps(F, H) /\ SameBye(F, H)
    BY <1>2, <1>3, <2>1, HeardKeeps
  <2> QED
    BY <2>2 DEF Keeps
<1>5. Keeps(S, H) /\ SameBye(S, H)
  BY <1>2, <1>4, KeepsChain
<1>6. T = [H EXCEPT !.initial_rtcp = FALSE, !.sinceRtcp = 0]
  BY <1>1, <1>3 DEF send_rtcp
<1>7. T \in Sessions /\ SameData(H, T) /\ T.sinceRtcp = 0 /\ T.initial_rtcp = FALSE
  <2>1. H \in Sessions /\ 0 \in Int /\ FALSE \in BOOLEAN
    BY <1>4
  <2>2. T \in Sessions
    BY <1>6, <2>1 DEF Sessions
  <2>3. /\ T.src = H.src /\ T.db = H.db /\ T.rr = H.rr /\ T.ssrc_count = H.ssrc_count
        /\ T.sinceRtcp = 0 /\ T.initial_rtcp = FALSE
    BY <1>6, <2>1 DEF Sessions
  <2> QED
    BY <2>2, <2>3 DEF SameData
<1>8. /\ DbOk(T) /\ RrOk(T) /\ SameBye(S, T) /\ Known(S) \subseteq Known(T)
      /\ OwnLast(S) => OwnLast(T)
  <2>1. DbOk(H) /\ RrOk(H) /\ Known(S) \subseteq Known(H) /\ (OwnLast(S) => OwnLast(H))
    BY <1>5 DEF Keeps
  <2>2. /\ DbOk(T) /\ RrOk(T) /\ SameBye(H, T) /\ Known(T) = Known(H)
        /\ OwnLast(H) => OwnLast(T)
    BY <1>4, <1>7, <2>1, SameDataKeeps
  <2> QED
    BY <1>5, <2>1, <2>2 DEF SameBye
<1>9. PICK V : V = WithInterval(T)
  OBVIOUS
<1>10. V \in Sessions /\ SameData(T, V) /\ Keeps(T, V)
  BY <1>7, <1>9, TimersKeep
<1> DEFINE f == [x \in Known(T) |-> [T.src[x] EXCEPT !.sender = FALSE]]
<1>11. U = [V EXCEPT !.untilRtcp = e, !.sender_count = 0, !.ssrc_count_prev = T.ssrc_count,
                     !.src = f]
  BY <1>9 DEF NewInterval
<1>12. /\ T.src \in [Known(T) -> Entries] /\ Known(T) \subseteq Members /\ T.ssrc_count \in Int
       /\ e \in Int
  BY <1>7, SessionFields, IntervalBounds
<1>13. /\ f \in [Known(T) -> Entries] /\ DOMAIN f = Known(T)
       /\ \A x \in Known(T) : f[x].sender = FALSE /\ f[x].got_bye = T.src[x].got_bye
  BY <1>12 DEF Entries
<1> HIDE DEF f
<1>14. f \in Sources
  BY <1>12, <1>13, SourcesByDomain
<1>15. /\ U \in Sessions /\ U.src = f /\ U.sender_count = 0 /\ U.db = V.db /\ U.rr = V.rr
       /\ U.ssrc_count = V.ssrc_count /\ U.sinceRtcp = V.sinceRtcp
       /\ U.initial_rtcp = V.initial_rtcp
  <2>1. V \in Sessions /\ e \in Int /\ 0 \in Int /\ T.ssrc_count \in Int
    BY <1>10, <1>12
  <2>2. U \in Sessions
    BY <1>11, <1>14, <2>1 DEF Sessions
  <2>3. /\ U.src = f /\ U.sender_count = 0 /\ U.db = V.db /\ U.rr = V.rr
        /\ U.ssrc_count = V.ssrc_count /\ U.sinceRtcp = V.sinceRtcp
        /\ U.initial_rtcp = V.initial_rtcp
    BY <1>11, <2>1 DEF Sessions
  <2> QED
    BY <2>2, <2>3
<1>16. Known(U) = Known(T)
  BY <1>13, <1>15 DEF Known
<1>17. U.db = T.db /\ U.rr = T.rr /\ U.ssrc_count = T.ssrc_count
  BY <1>10, <1>15 DEF SameData
<1>18. DbOk(U) /\ RrOk(U) /\ (OwnLast(S) => OwnLast(U))
  BY <1>8, <1>16, <1>17 DEF DbOk, RrOk, OwnLast, OwnEntryLast
<1>19. Counted(U)
  <2>1. Senders(U) = {}
    BY <1>13, <1>15, <1>16 DEF Senders
  <2>2. Cardinality(Senders(U)) = 0
    BY <2>1, FS_EmptySet
  <2> QED
    BY <1>15, <2>2 DEF Counted
<1>20. SameBye(S, U)
  <2>1. SameBye(T, U)
    BY <1>13, <1>15, <1>16 DEF SameBye
  <2> QED
    BY <1>8, <2>1 DEF SameBye
<1>21. U.sinceRtcp = 0 /\ ~U.initial_rtcp
  <2>1. V.sinceRtcp = T.sinceRtcp /\ V.initial_rtcp = T.initial_rtcp
    BY <1>10 DEF Keeps
  <2> QED
    BY <1>7, <1>15, <2>1
<1> QED
  BY <1>8, <1>15, <1>16, <1>18, <1>19, <1>20, <1>21

(* The BYE is heard by the session itself.                                 *)
LEMMA ByeNowKeeps ==
  ASSUME NEW S \in Sessions, NEW T, T = rtp_send_bye_now(S)
  PROVE Keeps(S, T)
<1>1. PICK F : F = format_report_blocks(S)
  OBVIOUS
<1>2. Keeps(S, F) /\ Reported(S) \subseteq Known(F) /\ F \in Sessions
  <2>1. Keeps(S, F) /\ Known(F) = Known(S) /\ Reported(S) \subseteq Known(S)
    BY <1>1, FormatKeeps
  <2> QED
    BY <2>1 DEF Keeps
<1>3. PICK H : H = Heard(F, FALSE, Reported(S))
  OBVIOUS
<1>4. Keeps(F, H) /\ Me \in Known(H)
  BY <1>2, <1>3, HeardKeeps
<1>5. H \in Sessions
  BY <1>4 DEF Keeps
<1>6. T = process_rtcp_bye(H, Me)
  BY <1>1, <1>3 DEF rtp_send_bye_now
<1>7. Keeps(H, T)
  BY <1>4, <1>5, <1>6, ByeKeeps
<1> QED
  BY <1>2, <1>4, <1>7, KeepsChain

-----------------------------------------------------------------------------
(* The invariant *)

(* The session itself: sound and, until a peer's BYE names it, its own     *)
(* entry last and without a BYE while the session lasts (so that the       *)
(* housekeeping never deletes it).                                         *)
DataInv ==
  /\ ses \in Sessions /\ DbOk(ses) /\ RrOk(ses)
  /\ Open => Counted(ses)
  /\ ~disowned => /\ at # "done" => OwnLast(ses)
                  /\ at \notin {"left", "done"} => ~ses.src[Me].got_bye

(* What rtp_update has decided to delete is still there to be deleted.     *)
DoomInv ==
  /\ doomed \subseteq Known(ses) /\ (~disowned => Me \notin doomed)
  /\ at \notin {"delete", "leaveDelete"} => doomed = {}

(* Calls that do not overlap: nobody deletes while a BYE is processed, and *)
(* only rtp_done can miss a source, the session's own once disowned.       *)
CallInv ==
  /\ byeFrom \in Members \cup {NoSource} /\ (~disowned => byeFrom # Me)
  /\ ~Overlap => /\ crashed => at = "done" /\ disowned
                 /\ byeFrom # NoSource => at = "idle" /\ byeFrom \in Known(ses)

(* The timer's time since the last report is never more than the real one. *)
PaceInv ==
  /\ ~soon /\ sentAgo \in 0 .. LeastGap + 1
  /\ at \in {"idle", "update", "delete", "ctrl"} =>
       /\ ses.initial_rtcp => sentAgo = LeastGap + 1
       /\ ses.sinceRtcp <= sentAgo \/ sentAgo = LeastGap + 1

SesInv == DataInv /\ DoomInv /\ CallInv /\ PaceInv

(* A step that keeps the session as Keeps says.                            *)
LEMMA DataStep ==
  ASSUME DataInv, at \notin {"left", "done"}, Keeps(ses, ses'), Open' => Open, at' # "done",
         SameBye(ses, ses') \/ at' = "left" \/ disowned', disowned => disowned'
  PROVE DataInv'
<1>1. ses' \in Sessions /\ DbOk(ses') /\ RrOk(ses')
  BY DEF DataInv, Keeps
<1>2. Open' => Counted(ses')
  BY DEF DataInv, Keeps
<1>3. ~disowned' => OwnLast(ses) /\ OwnLast(ses') /\ ~ses.src[Me].got_bye
  BY DEF DataInv, Keeps
<1>4. ~disowned' /\ at' # "left" => ~ses'.src[Me].got_bye
  BY <1>3 DEF SameBye, OwnLast
<1> QED
  BY <1>1, <1>2, <1>3, <1>4 DEF DataInv

(* The bounds of the clocks are integers. *)
LEMMA BoundsInt == MaxDraw \in Int /\ MaxIdle \in Int /\ LeastGap \in Nat
<1> DEFINE a == 4 * Larger(Cardinality(Members), MaxByes)
           b == 3 * MembersPerTick
           share == a \div b
<1>1. a \in Int /\ b \in Int /\ b > 0
  BY Constants DEF Larger
<1> HIDE DEF a, b
<1>2. share \in Int
  BY <1>1
<1>3. MaxInterval = Larger(MinTime, share)
  BY DEF MaxInterval, a, b
<1> HIDE DEF share
<1>4. MaxInterval \in Int
  BY <1>2, <1>3, Constants DEF Larger
<1>5. MaxDraw \in Int
  BY <1>4 DEF MaxDraw
<1>6. MaxIdle \in Int
  BY <1>4, Constants DEF MaxIdle, Larger
<1>7. LeastGap \in Nat
  BY Constants DEF LeastGap
<1> QED
  BY <1>5, <1>6, <1>7

(* The sender's calls find no BYE under way unless calls overlap.          *)
LEMMA SenderCalls ==
  ASSUME CallInv, SenderMay, UNCHANGED <<byeFrom, crashed, disowned>> PROVE CallInv'
BY DEF CallInv, SenderMay

(* rtp_send_data *)
LEMMA SendDataStep == ASSUME SesInv, rtp_send_data PROVE SesInv'
<1>1. /\ at = "idle" /\ at' = "update" /\ SenderMay
      /\ ses' = [ses EXCEPT !.we_sent = TRUE, !.sinceRtp = 0]
      /\ UNCHANGED <<doomed, byeFrom, disowned, sentAgo, soon, crashed>>
  BY DEF rtp_send_data
<1>2. ses \in Sessions /\ TRUE \in BOOLEAN /\ 0 \in Int
  BY DEF SesInv, DataInv
<1>3. ses' \in Sessions
  BY <1>1, <1>2 DEF Sessions
<1>4. /\ ses'.src = ses.src /\ ses'.db = ses.db /\ ses'.rr = ses.rr
      /\ ses'.ssrc_count = ses.ssrc_count /\ ses'.sender_count = ses.sender_count
      /\ ses'.sinceRtcp = ses.sinceRtcp /\ ses'.initial_rtcp = ses.initial_rtcp
  BY <1>1, <1>2 DEF Sessions
<1>5. Keeps(ses, ses') /\ SameBye(ses, ses') /\ Known(ses') = Known(ses)
  BY <1>2, <1>3, <1>4, SameDataKeeps DEF SameData
<1>6. DataInv'
  BY <1>1, <1>5, DataStep DEF SesInv, Open
<1>7. DoomInv'
  BY <1>1, <1>5 DEF SesInv, DoomInv
<1>8. CallInv'
  BY <1>1, SenderCalls DEF SesInv
<1>9. PaceInv'
  BY <1>1, <1>4 DEF SesInv, PaceInv
<1> QED
  BY <1>6, <1>7, <1>8, <1>9 DEF SesInv

(* The housekeeping decides *)
LEMMA UpdateCheckStep == ASSUME SesInv, UpdateCheck PROVE SesInv'
<1>1. at = "update" /\ SenderMay /\ UNCHANGED <<byeFrom, disowned, sentAgo, soon, crashed>>
  BY DEF UpdateCheck
<1>2. CallInv'
  BY <1>1, SenderCalls DEF SesInv
<1>3. CASE ses.sinceUpdate < 1
  <2>1. at' = "ctrl" /\ UNCHANGED <<ses, doomed>>
    BY <1>3 DEF UpdateCheck
  <2> QED
    BY <1>1, <1>2, <2>1 DEF SesInv, DataInv, DoomInv, PaceInv, Open
<1>4. CASE ~(ses.sinceUpdate < 1)
  <2>1. PICK w \in Draws(ses) : ses' = UpdateMarks(ses, w)
    BY <1>4 DEF UpdateCheck
  <2>2. doomed' = Expired(ses') /\ at' = "delete"
    BY <1>4 DEF UpdateCheck
  <2>3. ses \in Sessions /\ w \in Int
    BY <2>1, IntervalBounds DEF SesInv, DataInv
  <2>4. /\ Keeps(ses, ses') /\ SameBye(ses, ses') /\ Known(ses') = Known(ses)
        /\ Expired(ses') \subseteq Known(ses')
        /\ Me \in Expired(ses') => ses'.src[Me].got_bye
    BY <2>1, <2>3, UpdateKeeps
  <2>5. DataInv'
    BY <1>1, <2>2, <2>4, DataStep DEF SesInv, Open
  <2>6. DoomInv'
    BY <2>2, <2>4, <2>5 DEF DoomInv, DataInv
  <2>7. PaceInv'
    BY <1>1, <2>2, <2>4 DEF SesInv, PaceInv, Keeps
  <2> QED
    BY <1>2, <2>5, <2>6, <2>7 DEF SesInv
<1> QED
  BY <1>3, <1>4

(* The housekeeping deletes *)
LEMMA UpdateDeleteStep == ASSUME SesInv, UpdateDelete PROVE SesInv'
<1>1. /\ at \in {"delete", "leaveDelete"} /\ SenderMay
      /\ UNCHANGED <<byeFrom, disowned, sentAgo, soon, crashed>>
  BY DEF UpdateDelete
<1>2. CallInv'
  BY <1>1, SenderCalls DEF SesInv
<1>3. /\ ses \in Sessions /\ DbOk(ses) /\ RrOk(ses) /\ (Open => Counted(ses))
      /\ ~disowned => OwnLast(ses) /\ ~ses.src[Me].got_bye /\ Me \notin doomed
      /\ doomed \subseteq Known(ses)
      /\ sentAgo \in 0 .. LeastGap + 1
  BY <1>1 DEF SesInv, DataInv, DoomInv, PaceInv
<1>4. ASSUME NEW ssrc \in doomed, ses' = delete_source(ses, ssrc), doomed' = doomed \ {ssrc},
             UNCHANGED at
      PROVE SesInv'
  <2>1. /\ ses' \in Sessions /\ Known(ses') = Known(ses) \ {ssrc} /\ DbOk(ses')
        /\ ~disowned => OwnLast(ses') /\ ses'.src[Me].got_bye = ses.src[Me].got_bye
        /\ RrOk(ses')
        /\ Counted(ses) => Counted(ses')
        /\ ses'.initial_rtcp = ses.initial_rtcp /\ ses'.sinceRtcp \in {ses.sinceRtcp, 0}
    <3>1. ssrc \in Known(ses) /\ (~disowned => ssrc # Me)
      BY <1>3, <1>4
    <3> QED
      BY <1>3, <1>4, <3>1, DeleteKeeps
  <2>2. DataInv'
    BY <1>1, <1>3, <1>4, <2>1 DEF DataInv, Open
  <2>3. DoomInv'
    BY <1>1, <1>3, <1>4, <2>1 DEF DoomInv
  <2>4. PaceInv'
    BY <1>1, <1>3, <1>4, <2>1 DEF SesInv, PaceInv
  <2> QED
    BY <1>2, <2>2, <2>3, <2>4 DEF SesInv
<1>5. ASSUME doomed = {}, ses' \in timeout_rr(ses), UNCHANGED doomed,
             at' = IF at = "delete" THEN "ctrl" ELSE "leaving"
      PROVE SesInv'
  <2>1. PICK recent \in SUBSET ses.rr : ses' = [ses EXCEPT !.rr = recent]
    BY <1>5 DEF timeout_rr
  <2>2. recent \in SUBSET (Members \X Members)
    BY <1>3, SessionFields
  <2>3. ses' \in Sessions
    BY <1>3, <2>1, <2>2 DEF Sessions
  <2>4. /\ ses'.src = ses.src /\ ses'.db = ses.db /\ ses'.rr = recent
        /\ ses'.ssrc_count = ses.ssrc_count /\ ses'.sender_count = ses.sender_count
        /\ ses'.sinceRtcp = ses.sinceRtcp /\ ses'.initial_rtcp = ses.initial_rtcp
    BY <1>3, <2>1 DEF Sessions
  <2>5. Known(ses') = Known(ses) /\ Senders(ses') = Senders(ses)
    BY <2>4 DEF Known, Senders
  <2>6. /\ DbOk(ses') /\ RrOk(ses')
        /\ OwnLast(ses) => OwnLast(ses')
        /\ Counted(ses) => Counted(ses')
    BY <1>3, <2>4, <2>5 DEF DbOk, OwnLast, OwnEntryLast, RrOk, Counted
  <2>7. DataInv'
    BY <1>1, <1>3, <1>5, <2>3, <2>4, <2>6 DEF DataInv, Open
  <2>8. DoomInv'
    BY <1>5 DEF DoomInv
  <2>9. PaceInv'
    BY <1>1, <1>5, <2>4 DEF SesInv, PaceInv
  <2> QED
    BY <1>2, <2>7, <2>8, <2>9 DEF SesInv
<1> QED
  BY <1>4, <1>5 DEF UpdateDelete

(* A report that is not due, sent or put off *)
LEMMA SendCtrlStep == ASSUME SesInv, rtp_send_ctrl PROVE SesInv'
<1>1. at = "ctrl" /\ at' = "idle" /\ SenderMay /\ UNCHANGED <<doomed, byeFrom, disowned, crashed>>
  BY DEF rtp_send_ctrl
<1>2. CallInv'
  BY <1>1, SenderCalls DEF SesInv
<1>3. /\ ses \in Sessions /\ DbOk(ses) /\ RrOk(ses) /\ doomed = {}
      /\ ~disowned => OwnLast(ses) /\ ~ses.src[Me].got_bye
  BY <1>1 DEF SesInv, DataInv, DoomInv
<1>4. PICK S \in {WithInterval(ses)}, d \in Draws(ses) :
           \/ /\ S.sinceRtcp > d
              /\ \E T \in {[send_rtcp(S) EXCEPT !.initial_rtcp = FALSE, !.sinceRtcp = 0]} :
                 \E e \in Draws(T) : ses' = NewInterval(T, e)
              /\ sentAgo' = 0 /\ soon' = (soon \/ sentAgo <= LeastGap)
           \/ /\ S.sinceRtcp <= d
              /\ ses' = [PutOff(S, d) EXCEPT !.ssrc_count_prev = S.ssrc_count]
              /\ UNCHANGED <<sentAgo, soon>>
  BY DEF rtp_send_ctrl
<1>5. /\ S \in Sessions /\ Keeps(ses, S) /\ SameBye(ses, S) /\ d \in Int
      /\ ~ses.initial_rtcp => d >= LeastGap
      /\ DbOk(S) /\ RrOk(S) /\ (OwnLast(ses) => OwnLast(S)) /\ Known(S) = Known(ses)
  <2>1. S \in Sessions /\ SameData(ses, S) /\ Keeps(ses, S)
    BY <1>3, <1>4, TimersKeep
  <2> QED
    BY <1>3, <1>4, <2>1, IntervalBounds, SameDataKeeps DEF Keeps
<1>6. S.sinceRtcp = ses.sinceRtcp /\ S.initial_rtcp = ses.initial_rtcp /\ ses.sinceRtcp \in Int
  BY <1>3, <1>5, SessionFields DEF Keeps
<1>7. ~soon /\ sentAgo \in 0 .. LeastGap + 1 /\ LeastGap \in Nat
      /\ (ses.initial_rtcp => sentAgo = LeastGap + 1)
      /\ (ses.sinceRtcp <= sentAgo \/ sentAgo = LeastGap + 1)
  BY <1>1, BoundsInt DEF SesInv, PaceInv
<1>8. ASSUME S.sinceRtcp > d, sentAgo' = 0, soon' = (soon \/ sentAgo <= LeastGap),
             NEW T, T = [send_rtcp(S) EXCEPT !.initial_rtcp = FALSE, !.sinceRtcp = 0],
             NEW e \in Draws(T), ses' = NewInterval(T, e)
      PROVE SesInv'
  <2>1. /\ ses' \in Sessions /\ DbOk(ses') /\ RrOk(ses') /\ Counted(ses')
        /\ OwnLast(S) => OwnLast(ses')
        /\ SameBye(S, ses') /\ Known(S) \subseteq Known(ses')
        /\ ses'.sinceRtcp = 0 /\ ~ses'.initial_rtcp
    BY <1>5, <1>8, ReportSent
  <2>2. ~disowned => OwnLast(ses') /\ ~ses'.src[Me].got_bye
    BY <1>3, <1>5, <2>1 DEF SameBye, OwnLast
  <2>3. ~(sentAgo <= LeastGap)
    BY <1>5, <1>6, <1>7, <1>8
  <2>4. DataInv'
    BY <1>1, <2>1, <2>2 DEF DataInv
  <2>5. DoomInv'
    BY <1>1, <1>3 DEF DoomInv
  <2>6. PaceInv'
    <3>1. ~soon' /\ sentAgo' = 0
      BY <1>7, <1>8, <2>3
    <3>2. sentAgo' \in 0 .. LeastGap + 1
      BY <1>7, <3>1
    <3>3. ses'.sinceRtcp <= sentAgo' /\ ~ses'.initial_rtcp
      BY <2>1, <3>1
    <3> QED
      BY <3>1, <3>2, <3>3 DEF PaceInv
  <2> QED
    BY <1>2, <2>4, <2>5, <2>6 DEF SesInv
<1>9. ASSUME ses' = [PutOff(S, d) EXCEPT !.ssrc_count_prev = S.ssrc_count],
             UNCHANGED <<sentAgo, soon>>
      PROVE SesInv'
  <2>1. PICK P : P = PutOff(S, d)
    OBVIOUS
  <2>2. P \in Sessions /\ Keeps(S, P) /\ SameBye(S, P)
    BY <1>5, <2>1, TimersKeep, SameDataKeeps
  <2>3. S.ssrc_count \in Int
    BY <1>5, SessionFields
  <2>4. ses' = [P EXCEPT !.ssrc_count_prev = S.ssrc_count]
    BY <1>9, <2>1
  <2>5. ses' \in Sessions
    BY <2>2, <2>3, <2>4 DEF Sessions
  <2>6. /\ ses'.src = P.src /\ ses'.db = P.db /\ ses'.rr = P.rr
        /\ ses'.ssrc_count = P.ssrc_count /\ ses'.sender_count = P.sender_count
        /\ ses'.sinceRtcp = P.sinceRtcp /\ ses'.initial_rtcp = P.initial_rtcp
    BY <2>2, <2>4 DEF Sessions
  <2>7. Keeps(P, ses') /\ SameBye(P, ses')
    BY <2>2, <2>5, <2>6, SameDataKeeps DEF SameData
  <2>8. Keeps(ses, ses') /\ SameBye(ses, ses')
    BY <1>5, <2>2, <2>7, KeepsChain
  <2>9. DataInv'
    BY <1>1, <2>8, DataStep DEF SesInv, Open
  <2>10. DoomInv'
    BY <1>1, <1>3 DEF DoomInv
  <2>11. PaceInv'
    BY <1>7, <1>9, <2>8 DEF PaceInv, Keeps
  <2> QED
    BY <1>2, <2>9, <2>10, <2>11 DEF SesInv
<1> QED
  BY <1>4, <1>8, <1>9

(* No report is due. *)
LEMMA NotDueStep == ASSUME SesInv, NotDue PROVE SesInv'
<1>1. /\ at = "ctrl" /\ at' = "idle" /\ SenderMay
      /\ UNCHANGED <<ses, doomed, byeFrom, disowned, sentAgo, soon, crashed>>
  BY DEF NotDue
<1>2. CallInv'
  BY <1>1, SenderCalls DEF SesInv
<1> QED
  BY <1>1, <1>2 DEF SesInv, DataInv, DoomInv, PaceInv, Open

(* The receiver's packet, whatever is in it *)
LEMMA ReceiveStep == ASSUME SesInv, NEW x \in Peers, Receive(x) PROVE SesInv'
<1>1. PICK sr \in BOOLEAN, report \in Members \cup {NoSource}, bye \in Members \cup {NoSource} :
        rtp_recv(x, sr, report, bye)
  <2>1. Blocks \subseteq Members /\ Byes \subseteq Members
    BY ConstantAssumption DEF ConstantAssumption
  <2> QED
    BY <2>1 DEF Receive
<1>2. PICK S : S = rtp_process_ctrl(ses, x, sr, report)
  OBVIOUS
<1>3. /\ ReceiverMay /\ ses' = IF bye = NoSource THEN S ELSE create_source(S, bye)
      /\ byeFrom' = bye /\ disowned' = (disowned \/ bye = Me)
      /\ UNCHANGED <<at, doomed, sentAgo, soon, crashed>>
  BY <1>1, <1>2 DEF rtp_recv
<1>4. at \in {"idle", "update", "delete", "ctrl"} /\ ~crashed /\ (~Overlap => at = "idle")
  <2>1. ConstantAssumption
    BY ConstantAssumption
  <2> QED
    BY <1>3, <2>1 DEF ReceiverMay, Open, ConstantAssumption
<1>5. ses \in Sessions /\ x \in Members
  BY Constants DEF SesInv, DataInv
<1>6. Keeps(ses, S) /\ SameBye(ses, S) /\ S \in Sessions
  BY <1>2, <1>5, CtrlKeeps
<1>7. Keeps(S, ses') /\ SameBye(S, ses') /\ (bye # NoSource => bye \in Known(ses'))
  <2>1. CASE bye = NoSource
    BY <1>3, <1>6, <2>1 DEF Keeps, SameBye
  <2>2. CASE bye # NoSource
    <3>1. bye \in Members /\ ses' = create_source(S, bye)
      BY <1>3, <2>2
    <3> QED
      BY <1>6, <3>1, CreateKeeps
  <2> QED
    BY <2>1, <2>2
<1>8. Keeps(ses, ses') /\ SameBye(ses, ses')
  BY <1>6, <1>7, KeepsChain
<1>9. DataInv'
  BY <1>3, <1>4, <1>8, DataStep DEF SesInv, Open
<1>10. DoomInv'
  BY <1>3, <1>8 DEF SesInv, DoomInv, Keeps
<1>11. CallInv'
  BY <1>3, <1>4, <1>7 DEF SesInv, CallInv
<1>12. PaceInv'
  BY <1>3, <1>8 DEF SesInv, PaceInv, Keeps
<1> QED
  BY <1>9, <1>10, <1>11, <1>12 DEF SesInv

(* The mark of a BYE on the source it names *)
LEMMA ByeMarkStep == ASSUME SesInv, ByeMark PROVE SesInv'
<1>1. /\ byeFrom # NoSource /\ ~crashed /\ byeFrom' = NoSource
      /\ UNCHANGED <<at, doomed, disowned, sentAgo, soon>>
  BY DEF ByeMark
<1>2. byeFrom \in Members /\ (~disowned => byeFrom # Me) /\ NoSource # Me
  BY <1>1, Constants DEF SesInv, CallInv
<1>3. CASE byeFrom \in Known(ses)
  <2>1. ses' = process_rtcp_bye(ses, byeFrom) /\ UNCHANGED crashed
    BY <1>3 DEF ByeMark
  <2>2. ses \in Sessions
    BY DEF SesInv, DataInv
  <2>3. Keeps(ses, ses') /\ (~disowned => SameBye(ses, ses'))
    BY <1>2, <1>3, <2>1, <2>2, ByeKeeps
  <2>4. DataInv'
    <3>1. /\ ses' \in Sessions /\ DbOk(ses') /\ RrOk(ses')
          /\ Open' => Counted(ses')
          /\ ~disowned' /\ at' # "done" => OwnLast(ses')
      BY <1>1, <2>1, <2>3 DEF SesInv, DataInv, Keeps, Open
    <3>2. ~disowned' /\ at' \notin {"left", "done"} => ~ses'.src[Me].got_bye
      BY <1>1, <2>3 DEF SesInv, DataInv, SameBye, OwnLast
    <3> QED
      BY <3>1, <3>2 DEF DataInv
  <2>5. DoomInv'
    BY <1>1, <2>3 DEF SesInv, DoomInv, Keeps
  <2>6. CallInv'
    BY <1>1, <1>2, <2>1 DEF SesInv, CallInv
  <2>7. PaceInv'
    BY <1>1, <2>3 DEF SesInv, PaceInv, Keeps
  <2> QED
    BY <2>4, <2>5, <2>6, <2>7 DEF SesInv
<1>4. CASE byeFrom \notin Known(ses)
  <2>1. crashed' = TRUE /\ UNCHANGED ses
    BY <1>4 DEF ByeMark
  <2>2. Overlap
    BY <1>1, <1>4 DEF SesInv, CallInv
  <2> QED
    BY <1>1, <1>2, <2>1, <2>2 DEF SesInv, DataInv, DoomInv, CallInv, PaceInv, Open
<1> QED
  BY <1>3, <1>4

(* Time passes: every age grows, none past its bound. *)
LEMMA TickStep == ASSUME SesInv, Tick PROVE SesInv'
<1>1. /\ at \in {"idle", "leaving"} /\ byeFrom = NoSource /\ ~crashed
      /\ sentAgo' = Older(sentAgo, LeastGap + 1)
      /\ UNCHANGED <<at, doomed, byeFrom, disowned, soon, crashed>>
  BY DEF Tick
<1>2. /\ ses \in Sessions /\ ses.src \in [Known(ses) -> Entries] /\ Known(ses) \subseteq Members
      /\ ses.sinceUpdate \in Int /\ ses.sinceRtp \in Int /\ ses.sinceRtcp \in Int
      /\ ses.untilRtcp \in Int
  <2>1. ses \in Sessions
    BY DEF SesInv, DataInv
  <2>2. /\ ses.sinceUpdate \in Int /\ ses.sinceRtp \in Int /\ ses.sinceRtcp \in Int
        /\ ses.untilRtcp \in Int
    BY <2>1 DEF Sessions
  <2> QED
    BY <2>1, <2>2, SessionFields
<1> DEFINE f == [x \in Known(ses) |-> [ses.src[x] EXCEPT !.idle = Older(@, Oldest(x))]]
<1>3. PICK u, r, c, n : /\ u = Older(ses.sinceUpdate, 1) /\ r = Older(ses.sinceRtp, 2 * MaxDraw)
                        /\ c = Older(ses.sinceRtcp, MaxDraw + 1)
                        /\ n = Larger(ses.untilRtcp - 1, -1)
  OBVIOUS
<1>4. ses' = [ses EXCEPT !.src = f, !.sinceUpdate = u, !.sinceRtp = r, !.sinceRtcp = c,
                         !.untilRtcp = n]
  BY <1>3 DEF Tick
<1>5. u \in Int /\ r \in Int /\ c \in Int /\ n \in Int /\ c <= ses.sinceRtcp + 1
  BY <1>2, <1>3, BoundsInt DEF Older, Smaller, Larger
<1>6. /\ f \in [Known(ses) -> Entries] /\ DOMAIN f = Known(ses)
      /\ \A x \in Known(ses) : /\ f[x].sender = ses.src[x].sender
                               /\ f[x].got_bye = ses.src[x].got_bye
  <2>1. \A x \in Known(ses) : Older(ses.src[x].idle, Oldest(x)) \in Int /\ ses.src[x] \in Entries
    BY <1>2, BoundsInt, Constants DEF Entries, Older, Oldest, Smaller
  <2> QED
    BY <2>1 DEF Entries
<1> HIDE DEF f
<1>7. f \in Sources
  BY <1>2, <1>6, SourcesByDomain
<1>8. ses' \in Sessions
  BY <1>2, <1>4, <1>5, <1>7 DEF Sessions
<1>9. /\ ses'.src = f /\ ses'.db = ses.db /\ ses'.rr = ses.rr /\ ses'.sinceRtcp = c
      /\ ses'.ssrc_count = ses.ssrc_count /\ ses'.sender_count = ses.sender_count
      /\ ses'.initial_rtcp = ses.initial_rtcp
  BY <1>2, <1>4 DEF Sessions
<1>10. Known(ses') = Known(ses) /\ Senders(ses') = Senders(ses)
  <2>1. Known(ses') = Known(ses)
    BY <1>6, <1>9 DEF Known
  <2> QED
    BY <1>6, <1>9, <2>1 DEF Senders
<1>11. DataInv'
  <2>1. /\ DbOk(ses') /\ RrOk(ses')
        /\ OwnLast(ses) => OwnLast(ses')
        /\ Counted(ses) => Counted(ses')
    BY <1>9, <1>10 DEF SesInv, DataInv, DbOk, RrOk, OwnLast, OwnEntryLast, Counted
  <2>2. ~disowned => OwnLast(ses) /\ ~ses.src[Me].got_bye
    BY <1>1 DEF SesInv, DataInv
  <2>3. ~disowned => ~ses'.src[Me].got_bye
    BY <1>6, <1>9, <2>2 DEF OwnLast
  <2> QED
    BY <1>1, <1>8, <2>1, <2>2, <2>3 DEF SesInv, DataInv, Open
<1>12. DoomInv'
  BY <1>1, <1>10 DEF SesInv, DoomInv
<1>13. CallInv'
  BY <1>1 DEF SesInv, CallInv
<1>14. PaceInv'
  <2>1. LeastGap \in Nat /\ sentAgo \in 0 .. LeastGap + 1
    BY BoundsInt DEF SesInv, PaceInv
  <2>2. /\ sentAgo' \in 0 .. LeastGap + 1
        /\ sentAgo = LeastGap + 1 => sentAgo' = LeastGap + 1
        /\ sentAgo' = sentAgo + 1 \/ sentAgo' = LeastGap + 1
    BY <1>1, <2>1 DEF Older, Smaller
  <2>3. ~soon'
    BY <1>1 DEF SesInv, PaceInv
  <2>4. ASSUME at' = "idle"
        PROVE /\ ses'.initial_rtcp => sentAgo' = LeastGap + 1
              /\ ses'.sinceRtcp <= sentAgo' \/ sentAgo' = LeastGap + 1
    <3>1. /\ ses.initial_rtcp => sentAgo = LeastGap + 1
          /\ ses.sinceRtcp <= sentAgo \/ sentAgo = LeastGap + 1
      BY <1>1, <2>4 DEF SesInv, PaceInv
    <3> QED
      BY <1>2, <1>5, <1>9, <2>1, <2>2, <3>1
  <2> QED
    BY <1>1, <2>2, <2>3, <2>4 DEF PaceInv
<1> QED
  BY <1>11, <1>12, <1>13, <1>14 DEF SesInv

-----------------------------------------------------------------------------
(* The end of the session *)

(* A step of the thread that ends the session: nothing is paced any more.  *)
LEMMA LeavingStep ==
  ASSUME SesInv, at' \in {"leaving", "leaveDelete", "left", "done"},
         byeFrom # NoSource \/ crashed => Overlap,
         UNCHANGED <<byeFrom, disowned, sentAgo, soon, crashed>>
  PROVE CallInv' /\ PaceInv'
BY DEF SesInv, CallInv, PaceInv

(* rtp_send_bye: nothing, the BYE at once, or its reconsideration *)
LEMMA SendByeStep == ASSUME SesInv, rtp_send_bye PROVE SesInv'
<1>1. /\ at = "idle" /\ byeFrom = NoSource /\ ~crashed
      /\ UNCHANGED <<doomed, byeFrom, disowned, sentAgo, soon, crashed>>
  BY DEF rtp_send_bye
<1>2. ses \in Sessions /\ doomed = {}
  BY <1>1 DEF SesInv, DataInv, DoomInv
<1>3. ASSUME at' = "left", Keeps(ses, ses') PROVE SesInv'
  <2>1. DataInv'
    BY <1>1, <1>3, DataStep DEF SesInv, Open
  <2>2. DoomInv'
    BY <1>1, <1>2 DEF DoomInv
  <2>3. CallInv' /\ PaceInv'
    BY <1>1, <1>3, LeavingStep
  <2> QED
    BY <2>1, <2>2, <2>3 DEF SesInv
<1>4. CASE NeverSent(ses)
  <2>1. at' = "left" /\ ses' = ses
    BY <1>4 DEF rtp_send_bye
  <2>2. Keeps(ses, ses')
    BY <1>2, <2>1 DEF Keeps
  <2> QED
    BY <1>3, <2>1, <2>2
<1>5. CASE ~NeverSent(ses) /\ ses.ssrc_count < SmallSession
  <2>1. at' = "left" /\ ses' = rtp_send_bye_now(ses)
    BY <1>5 DEF rtp_send_bye
  <2>2. Keeps(ses, ses')
    BY <1>2, <2>1, ByeNowKeeps
  <2> QED
    BY <1>3, <2>1, <2>2
<1>6. CASE ~NeverSent(ses) /\ ~(ses.ssrc_count < SmallSession)
  <2>1. PICK S : S = [ses EXCEPT !.sending_bye = TRUE, !.sinceRtcp = 0, !.bye_count = 1,
                                 !.initial_rtcp = TRUE, !.we_sent = FALSE,
                                 !.sender_count = 0, !.avg_known = TRUE]
    OBVIOUS
  <2>2. at' = "leaving" /\ \E d \in Draws(S) : ses' = [WithInterval(S) EXCEPT !.untilRtcp = d]
    BY <1>6, <2>1 DEF rtp_send_bye
  <2>3. S \in Sessions /\ SameData(ses, S)
    <3>1. ses \in Sessions /\ 0 \in Int /\ 1 \in Int /\ TRUE \in BOOLEAN /\ FALSE \in BOOLEAN
      BY <1>2
    <3>2. S \in Sessions
      BY <2>1, <3>1 DEF Sessions
    <3>3. S.src = ses.src /\ S.db = ses.db /\ S.rr = ses.rr /\ S.ssrc_count = ses.ssrc_count
      BY <2>1, <3>1 DEF Sessions
    <3> QED
      BY <3>2, <3>3 DEF SameData
  <2>4. PICK V : V = WithInterval(S)
    OBVIOUS
  <2>5. V \in Sessions /\ SameData(S, V)
    BY <2>3, <2>4, TimersKeep
  <2>6. PICK d \in Draws(S) : ses' = [V EXCEPT !.untilRtcp = d]
    BY <2>2, <2>4
  <2>7. d \in Int
    BY <2>3, IntervalBounds
  <2>8. ses' \in Sessions
    BY <2>5, <2>6, <2>7 DEF Sessions
  <2>9. ses'.src = V.src /\ ses'.db = V.db /\ ses'.rr = V.rr /\ ses'.ssrc_count = V.ssrc_count
    BY <2>5, <2>6 DEF Sessions
  <2>10. SameData(ses, ses')
    BY <2>3, <2>5, <2>8, <2>9 DEF SameData
  <2>11. /\ DbOk(ses') /\ RrOk(ses') /\ SameBye(ses, ses')
         /\ ~disowned => OwnLast(ses')
    BY <1>1, <1>2, <2>10, SameDataKeeps DEF SesInv, DataInv
  <2>12. ~disowned => ~ses'.src[Me].got_bye
    BY <1>1, <2>11 DEF SesInv, DataInv, SameBye, OwnLast
  <2>13. DataInv'
    BY <1>1, <2>2, <2>8, <2>11, <2>12 DEF DataInv, Open
  <2>14. DoomInv'
    BY <1>1, <1>2 DEF DoomInv
  <2>15. CallInv' /\ PaceInv'
    BY <1>1, <2>2, LeavingStep
  <2> QED
    BY <2>13, <2>14, <2>15 DEF SesInv
<1> QED
  BY <1>4, <1>5, <1>6

(* A packet that wakes the loop of rtp_send_bye *)
LEMMA LeaveRecvStep ==
  ASSUME SesInv, NEW x \in Peers, NEW bye \in Members \cup {NoSource}, LeaveRecv(x, bye)
  PROVE SesInv'
<1>1. PICK S : S = rtp_process_ctrl(ses, x, FALSE, NoSource)
  OBVIOUS
<1>2. PICK C : C = create_source(S, bye)
  OBVIOUS
<1>3. /\ at = "leaving" /\ ses' = IF bye = NoSource THEN S ELSE process_rtcp_bye(C, bye)
      /\ disowned' = (disowned \/ bye = Me)
      /\ UNCHANGED <<at, doomed, byeFrom, sentAgo, soon, crashed>>
  BY <1>1, <1>2 DEF LeaveRecv
<1>4. ses \in Sessions /\ x \in Members
  BY Constants DEF SesInv, DataInv
<1>5. Keeps(ses, S) /\ SameBye(ses, S) /\ S \in Sessions
  <2>1. FALSE \in BOOLEAN /\ NoSource \in Members \cup {NoSource}
    OBVIOUS
  <2> QED
    BY <1>1, <1>4, <2>1, CtrlKeeps
<1>6. Keeps(S, ses') /\ (bye # Me => SameBye(S, ses'))
  <2>1. CASE bye = NoSource
    BY <1>3, <1>5, <2>1 DEF Keeps, SameBye
  <2>2. CASE bye # NoSource
    <3>1. bye \in Members
      BY <2>2
    <3>2. Keeps(S, C) /\ SameBye(S, C) /\ bye \in Known(C)
      BY <1>2, <1>5, <3>1, CreateKeeps
    <3>3. C \in Sessions /\ ses' = process_rtcp_bye(C, bye)
      BY <1>3, <2>2, <3>2 DEF Keeps
    <3>4. Keeps(C, ses') /\ (bye # Me => SameBye(C, ses'))
      BY <3>2, <3>3, ByeKeeps
    <3> QED
      BY <3>2, <3>4, KeepsChain
  <2> QED
    BY <2>1, <2>2
<1>7. Keeps(ses, ses') /\ (SameBye(ses, ses') \/ disowned')
  BY <1>3, <1>5, <1>6, KeepsChain
<1>8. DataInv'
  BY <1>3, <1>7, DataStep DEF SesInv, Open
<1>9. DoomInv'
  BY <1>3, <1>7 DEF SesInv, DoomInv, Keeps
<1>10. CallInv' /\ PaceInv'
  BY <1>3 DEF SesInv, CallInv, PaceInv
<1> QED
  BY <1>8, <1>9, <1>10 DEF SesInv

(* A turn of the loop of rtp_send_bye *)
LEMMA LeaveCheckStep == ASSUME SesInv, LeaveCheck PROVE SesInv'
<1>1. at = "leaving" /\ UNCHANGED <<byeFrom, disowned, sentAgo, soon, crashed>>
  BY DEF LeaveCheck
<1>2. PICK S \in {WithInterval(ses)}, d \in Draws(ses) :
        \/ S.sinceRtcp > d /\ ses' = rtp_send_bye_now(S) /\ at' = "left" /\ UNCHANGED doomed
        \/ \E T \in {PutOff(S, d)} :
             \/ ses' = T /\ UNCHANGED <<at, doomed>>
             \/ /\ \E w \in Draws(T) : ses' = UpdateMarks(T, w)
                /\ doomed' = Expired(ses') /\ at' = "leaveDelete"
  BY DEF LeaveCheck
<1>3. ses \in Sessions /\ doomed = {}
  BY <1>1 DEF SesInv, DataInv, DoomInv
<1>4. d \in Int
  BY <1>3, IntervalBounds
<1>5. S \in Sessions /\ Keeps(ses, S) /\ SameBye(ses, S)
  <2>1. S \in Sessions /\ Keeps(ses, S) /\ SameData(ses, S)
    BY <1>2, <1>3, TimersKeep
  <2> QED
    BY <1>3, <2>1, SameDataKeeps
<1>6. ASSUME at' \in {"leaving", "leaveDelete", "left"} PROVE CallInv' /\ PaceInv'
  <2>1. byeFrom # NoSource \/ crashed => Overlap
    BY <1>1 DEF SesInv, CallInv
  <2> QED
    BY <1>1, <1>6, <2>1, LeavingStep
<1>7. ASSUME ses' = rtp_send_bye_now(S), at' = "left", UNCHANGED doomed PROVE SesInv'
  <2>1. Keeps(S, ses')
    BY <1>5, <1>7, ByeNowKeeps
  <2>2. Keeps(ses, ses')
    BY <1>5, <2>1, KeepsChain
  <2>3. DataInv'
    BY <1>1, <1>7, <2>2, DataStep DEF SesInv, Open
  <2>4. DoomInv'
    BY <1>3, <1>7 DEF DoomInv
  <2> QED
    BY <1>6, <1>7, <2>3, <2>4 DEF SesInv
<1>8. ASSUME NEW T, T = PutOff(S, d) PROVE T \in Sessions /\ Keeps(ses, T) /\ SameBye(ses, T)
  <2>1. T \in Sessions /\ Keeps(S, T) /\ SameData(S, T)
    BY <1>4, <1>5, <1>8, TimersKeep
  <2>2. SameBye(S, T)
    BY <1>5, <2>1, SameDataKeeps
  <2> QED
    BY <1>5, <2>1, <2>2, KeepsChain
<1>9. ASSUME ses' = PutOff(S, d), UNCHANGED <<at, doomed>> PROVE SesInv'
  <2>1. Keeps(ses, ses') /\ SameBye(ses, ses')
    BY <1>8, <1>9
  <2>2. DataInv'
    BY <1>1, <1>9, <2>1, DataStep DEF SesInv, Open
  <2>3. DoomInv'
    BY <1>3, <1>9 DEF DoomInv
  <2> QED
    BY <1>1, <1>6, <1>9, <2>2, <2>3 DEF SesInv
<1>10. ASSUME NEW T, T = PutOff(S, d), NEW w \in Draws(T), ses' = UpdateMarks(T, w),
              doomed' = Expired(ses'), at' = "leaveDelete"
       PROVE SesInv'
  <2>1. T \in Sessions /\ Keeps(ses, T) /\ SameBye(ses, T)
    BY <1>8, <1>10
  <2>2. w \in Int
    BY <1>10, <2>1, IntervalBounds
  <2>3. /\ Keeps(T, ses') /\ SameBye(T, ses') /\ Expired(ses') \subseteq Known(ses')
        /\ Me \in Expired(ses') => ses'.src[Me].got_bye
    BY <1>10, <2>1, <2>2, UpdateKeeps
  <2>4. Keeps(ses, ses') /\ SameBye(ses, ses')
    BY <2>1, <2>3, KeepsChain
  <2>5. DataInv'
    BY <1>1, <1>10, <2>4, DataStep DEF SesInv, Open
  <2>6. DoomInv'
    BY <1>10, <2>3, <2>5 DEF DoomInv, DataInv
  <2> QED
    BY <1>6, <1>10, <2>5, <2>6 DEF SesInv
<1> QED
  BY <1>2, <1>7, <1>9, <1>10

(* The empty chain *)
LEMMA EmptyChain == <<>> \in Seq(Members) /\ IsInjective(<<>>) /\ Range(<<>>) = {}
<1>1. <<>> \in Seq(Members) /\ DOMAIN <<>> = {}
  OBVIOUS
<1> QED
  BY <1>1 DEF IsInjective, Range

(* rtp_done takes everything out, and finds its own entry last. *)
LEMMA DoneStep == ASSUME SesInv, rtp_done PROVE SesInv'
<1>1. /\ at \in {"idle", "left"} /\ byeFrom = NoSource /\ ~crashed /\ at' = "done"
      /\ crashed' = ~OwnEntryLast(ses) /\ ses' = Emptied(ses)
      /\ UNCHANGED <<doomed, byeFrom, disowned, sentAgo, soon>>
  BY DEF rtp_done
<1>2. ses \in Sessions /\ DbOk(ses) /\ doomed = {} /\ (~disowned => OwnLast(ses))
  BY <1>1 DEF SesInv, DataInv, DoomInv
<1>3. crashed' => disowned
  BY <1>1, <1>2 DEF OwnLast
<1> DEFINE f == [x \in {} |-> NewSource]
           g == [h \in DOMAIN ses.db |-> <<>>]
           n == ses.ssrc_count - Cardinality(Known(ses))
<1>4. ses' = [ses EXCEPT !.src = f, !.db = g, !.rr = {}, !.ssrc_count = n]
  BY <1>1 DEF Emptied
<1>5. ses.db \in [Chains -> Seq(Members)] /\ Cardinality(Known(ses)) \in Nat
  BY <1>2, SessionFields
<1>6. f \in Sources /\ DOMAIN f = {}
  <2>1. f \in [{} -> Entries] /\ DOMAIN f = {}
    OBVIOUS
  <2> QED
    BY <2>1, SourcesByDomain
<1>7. g \in [Chains -> Seq(Members)] /\ \A h \in Chains : g[h] = <<>>
  BY <1>5, EmptyChain
<1>8. n = 0
  BY <1>2, <1>5 DEF DbOk
<1> HIDE DEF f, g, n
<1>9. ses' \in Sessions
  <2>1. {} \in SUBSET (Members \X Members) /\ n \in Int
    BY <1>8
  <2> QED
    BY <1>2, <1>4, <1>6, <1>7, <2>1 DEF Sessions
<1>10. ses'.src = f /\ ses'.db = g /\ ses'.rr = {} /\ ses'.ssrc_count = 0
  BY <1>2, <1>4, <1>8 DEF Sessions
<1>11. Known(ses') = {}
  BY <1>6, <1>10 DEF Known
<1>12. DbOk(ses') /\ RrOk(ses')
  <2>1. Cardinality(Known(ses')) = 0
    BY <1>11, FS_EmptySet
  <2> QED
    BY <1>7, <1>10, <1>11, <2>1, EmptyChain DEF DbOk, RrOk
<1>13. DataInv'
  BY <1>1, <1>9, <1>12 DEF DataInv, Open
<1>14. DoomInv'
  BY <1>1, <1>2 DEF DoomInv
<1>15. CallInv' /\ PaceInv'
  BY <1>1, <1>3 DEF SesInv, CallInv, PaceInv
<1> QED
  BY <1>13, <1>14, <1>15 DEF SesInv

-----------------------------------------------------------------------------
(* The theorems *)

(* The first source of a session, its own, is alone in its chain. *)
LEMMA InitInv == Init => SesInv
<1> SUFFICES ASSUME Init PROVE SesInv
  OBVIOUS
<1> DEFINE f == [x \in {} |-> {}]
           g == [h \in 0 .. DbSize - 1 |-> <<>>]
<1>1. PICK a, b : a = MinTime \div 2 /\ b = 2 * MaxDraw
  OBVIOUS
<1>2. a \in Int /\ b \in Int /\ 0 \in Int /\ TRUE \in BOOLEAN /\ FALSE \in BOOLEAN
  BY <1>1, Constants, BoundsInt
<1>3. f \in Sources /\ DOMAIN f = {}
  <2>1. f \in [{} -> Entries] /\ DOMAIN f = {}
    OBVIOUS
  <2> QED
    BY <2>1, SourcesByDomain
<1>4. g \in [Chains -> Seq(Members)] /\ \A h \in Chains : g[h] = <<>>
  BY EmptyChain DEF Chains
<1> HIDE DEF f, g
<1>5. PICK B :
        B = [src |-> f, db |-> g, rr |-> {},
             ssrc_count |-> 0, ssrc_count_prev |-> 0, sender_count |-> 0, bye_count |-> 0,
             we_sent |-> FALSE, initial_rtcp |-> TRUE, sending_bye |-> FALSE, avg_known |-> FALSE,
             rtcp_interval |-> a,
             sinceUpdate |-> 0, sinceRtp |-> b, sinceRtcp |-> 0, untilRtcp |-> 0]
  OBVIOUS
<1>6. NewSession = create_source(B, Me)
  BY <1>1, <1>5 DEF NewSession, f, g
<1>7. B \in Sessions
  <2>1. {} \in SUBSET (Members \X Members)
    OBVIOUS
  <2> QED
    BY <1>2, <1>3, <1>4, <1>5, <2>1 DEF Sessions
<1>8. /\ B.src = f /\ B.db = g /\ B.rr = {} /\ B.ssrc_count = 0 /\ B.sender_count = 0
      /\ B.sinceRtcp = 0
  BY <1>5
<1>9. Known(B) = {} /\ Senders(B) = {}
  BY <1>3, <1>8 DEF Known, Senders
<1>10. DbOk(B) /\ RrOk(B) /\ Counted(B)
  <2>1. Cardinality({}) = 0
    BY FS_EmptySet
  <2> QED
    BY <1>4, <1>8, <1>9, <2>1, EmptyChain DEF DbOk, RrOk, Counted
<1>11. PICK N : N = NewSession
  OBVIOUS
<1>12. /\ Keeps(B, N) /\ Known(N) = {Me}
  BY <1>6, <1>7, <1>9, <1>11, Constants, CreateKeeps
<1>13. /\ N \in Sessions /\ DbOk(N) /\ RrOk(N) /\ Counted(N) /\ N.sinceRtcp = 0
  BY <1>8, <1>10, <1>12 DEF Keeps
<1>14. /\ N.src[Me] = NewSource /\ N.db[ssrc_hash(Me)] = <<Me>> \o <<>>
  <2>1. N = [B EXCEPT !.src = [x \in {Me} |-> IF x = Me THEN NewSource ELSE B.src[x]],
                      !.db[ssrc_hash(Me)] = <<Me>> \o @, !.ssrc_count = @ + 1]
    BY <1>6, <1>9, <1>11 DEF create_source
  <2>2. ssrc_hash(Me) \in Chains
    BY Constants, HashIsChain
  <2>3. B \in Sessions /\ B.db[ssrc_hash(Me)] = <<>> /\ ssrc_hash(Me) \in DOMAIN B.db
    BY <1>4, <1>7, <1>8, <2>2
  <2>4. N.src = [x \in {Me} |-> IF x = Me THEN NewSource ELSE B.src[x]]
    BY <2>1, <2>3 DEF Sessions
  <2>5. N.db = [B.db EXCEPT ![ssrc_hash(Me)] = <<Me>> \o @]
    BY <2>1, <2>3 DEF Sessions
  <2> QED
    BY <2>3, <2>4, <2>5
<1>15. OwnLast(N)
  <2>1. PICK chain : chain = <<Me>> \o <<>>
    OBVIOUS
  <2>2. chain # <<>> /\ chain[Len(chain)] = Me
    BY <2>1, EmptyChain, Constants, HeadAdded
  <2> QED
    BY <1>12, <1>14, <2>1, <2>2 DEF OwnLast, OwnEntryLast
<1>16. ~N.src[Me].got_bye
  BY <1>14 DEF NewSource
<1>17. PICK d \in Draws(N) : ses = [N EXCEPT !.untilRtcp = d]
  BY <1>11 DEF Init
<1>18. d \in Int
  BY <1>13, IntervalBounds
<1>19. ses \in Sessions
  BY <1>13, <1>17, <1>18 DEF Sessions
<1>20. /\ ses.src = N.src /\ ses.db = N.db /\ ses.rr = N.rr /\ ses.ssrc_count = N.ssrc_count
       /\ ses.sender_count = N.sender_count /\ ses.sinceRtcp = N.sinceRtcp
       /\ ses.initial_rtcp = N.initial_rtcp
  BY <1>13, <1>17 DEF Sessions
<1>21. Keeps(N, ses) /\ SameBye(N, ses)
  BY <1>13, <1>19, <1>20, SameDataKeeps DEF SameData
<1>22. DataInv
  BY <1>12, <1>13, <1>15, <1>16, <1>21 DEF DataInv, Keeps, SameBye
<1>23. /\ at = "idle" /\ doomed = {} /\ byeFrom = NoSource /\ NoSource # Me
       /\ sentAgo = LeastGap + 1 /\ soon = FALSE /\ crashed = FALSE
  BY Constants DEF Init
<1>24. DoomInv /\ CallInv
  BY <1>23 DEF DoomInv, CallInv
<1>25. PaceInv
  BY <1>23, BoundsInt DEF PaceInv
<1> QED
  BY <1>22, <1>24, <1>25 DEF SesInv

(* Every step keeps the invariant. *)
LEMMA NextInv == SesInv /\ [Next]_vars => SesInv'
<1> SUFFICES ASSUME SesInv, [Next]_vars PROVE SesInv'
  OBVIOUS
<1>1. CASE SenderStep
  BY <1>1, SendDataStep, UpdateCheckStep, UpdateDeleteStep, NotDueStep, SendCtrlStep
     DEF SenderStep
<1>2. CASE ByeMark
  BY <1>2, ByeMarkStep
<1>3. CASE Tick
  BY <1>3, TickStep
<1>4. CASE \E x \in Peers : Receive(x)
  BY <1>4, ReceiveStep
<1>5. CASE rtp_send_bye
  BY <1>5, SendByeStep
<1>6. CASE LeaveCheck
  BY <1>6, LeaveCheckStep
<1>7. CASE rtp_done
  BY <1>7, DoneStep
<1>8. CASE \E x \in Peers, bye \in Byes \cup {NoSource} : LeaveRecv(x, bye)
  <2>1. Byes \subseteq Members
    BY ConstantAssumption DEF ConstantAssumption
  <2> QED
    BY <1>8, <2>1, LeaveRecvStep
<1>9. CASE UNCHANGED vars
  <2>1. UNCHANGED <<ses, at, doomed, byeFrom, disowned, sentAgo, soon, crashed>>
    BY <1>9 DEF vars
  <2> QED
    BY <2>1 DEF SesInv, DataInv, DoomInv, CallInv, PaceInv, Open
<1> QED
  BY <1>1, <1>2, <1>3, <1>4, <1>5, <1>6, <1>7, <1>8, <1>9 DEF Next

(* The invariant holds in every reachable state. *)
LEMMA Invariant == Spec => []SesInv
<1>1. Spec => Init /\ [][Next]_vars
  BY DEF Spec
<1> QED
  BY <1>1, InitInv, NextInv, PTL

(* For any members, chains and timeouts, and whether or not the calls of   *)
(* the two threads overlap: create_source and delete_source keep the hash  *)
(* table a database of the known sources, each once and in its chain, and  *)
(* ssrc_count their number.                                                *)
THEOREM DatabaseKept == Spec => []DatabaseConsistent
<1>1. SesInv => DatabaseConsistent
  <2> SUFFICES ASSUME SesInv PROVE DatabaseConsistent
    OBVIOUS
  <2>1. ses \in Sessions /\ DbOk(ses)
    BY DEF SesInv, DataInv
  <2>2. DOMAIN ses.db = Chains
    BY <2>1, SessionFields
  <2> QED
    BY <2>1, <2>2 DEF DatabaseConsistent, DbOk
<1> QED
  BY <1>1, Invariant, PTL

(* delete_source, which takes a source out with the reports by and about   *)
(* it, and the calls that insert reports leave none that mentions a source *)
(* no longer known.                                                        *)
THEOREM ReportsKnown == Spec => []ReportsAboutKnown
<1>1. SesInv => ReportsAboutKnown
  BY DEF SesInv, DataInv, RrOk, ReportsAboutKnown
<1> QED
  BY <1>1, Invariant, PTL

(* Whatever packets arrive, sources fall silent and reports leave,         *)
(* sender_count is never less than the senders while the session is open,  *)
(* so that format_report_blocks never leaves one out for want of count.    *)
THEOREM SendersKept == Spec => []SendersCounted
<1>1. SesInv => SendersCounted
  BY DEF SesInv, DataInv, Counted, SendersCounted
<1> QED
  BY <1>1, Invariant, PTL

(* Two RTCP reports are never closer than the least interval that          *)
(* rtcp_interval draws after the first: the timer's own clock, though put  *)
(* back to now by every departure, never runs ahead of the real one.       *)
THEOREM Paced == Spec => []ReportsPaced
<1>1. SesInv => ReportsPaced
  BY DEF SesInv, PaceInv, ReportsPaced
<1> QED
  BY <1>1, Invariant, PTL

(* When the calls of the two threads do not overlap, for which the library *)
(* is written: until a peer's BYE names the session's own SSRC no source   *)
(* is missed, and the own entry is known and last in its chain, where      *)
(* rtp_done relies on finding it; after such a BYE rtp_done is the only    *)
(* place that can miss one.                                                *)
THEOREM OwnEntryKept == ASSUME ~Overlap PROVE Spec => []OwnEntryStays
<1>1. SesInv => OwnEntryStays
  BY DEF SesInv, DataInv, CallInv, OwnLast, OwnEntryStays
<1> QED
  BY <1>1, Invariant, PTL

(* The part about the own entry without the assumption: whatever the other *)
(* thread does meanwhile, it is known and last in its chain until rtp_done *)
(* or until a peer's BYE names it.                                         *)
THEOREM OwnEntryLastKept ==
  Spec => []((at # "done" /\ ~disowned) => (Me \in Known(ses) /\ OwnEntryLast(ses)))
<1>1. SesInv => ((at # "done" /\ ~disowned) => (Me \in Known(ses) /\ OwnEntryLast(ses)))
  BY DEF SesInv, DataInv, OwnLast
<1> QED
  BY <1>1, Invariant, PTL

=============================================================================
