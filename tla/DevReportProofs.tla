---------------------------- MODULE DevReportProofs ----------------------------
(***************************************************************************)
(* Theorems about the reports of DevReport, for every number of inputs,    *)
(* versions, packets under way and timeouts: a raised flag is true.        *)
(***************************************************************************)
EXTENDS DevReport, SequenceTheorems, TLAPS

USE ReportsAssumption, TimeoutAssumption, BoundAssumption

--------------------------------------------------------------------------------
(* Packets under way: a step adds one behind or takes some away.             *)

\* Sequence s comes from t by leaving out elements.
From(s, t, S) ==
  /\ s \in Seq(S) /\ Len(s) <= Len(t)
  /\ \A i \in 1..Len(s) : \E h \in 1..Len(t) : s[i] = t[h]
  /\ \A i, j \in 1..Len(s) : i < j => \E h, k \in 1..Len(t) : h < k /\ s[i] = t[h] /\ s[j] = t[k]

LEMMA AppendIs ==
  ASSUME NEW S, NEW t \in Seq(S), NEW p \in S
  PROVE  /\ Len(Append(t, p)) = Len(t) + 1 /\ Len(t) \in Nat
         /\ \A i \in 1..Len(t) + 1 : Append(t, p)[i] = IF i <= Len(t) THEN t[i] ELSE p
<1>1. Len(t) \in Nat /\ Len(Append(t, p)) = Len(t) + 1
  BY AppendProperties
<1>2. ASSUME NEW i \in 1..Len(t) + 1
      PROVE  Append(t, p)[i] = IF i <= Len(t) THEN t[i] ELSE p
  <2>1. CASE i = Len(t) + 1
    BY <1>1, <2>1, AppendProperties
  <2>2. CASE i # Len(t) + 1
    BY <1>1, <2>2, AppendProperties
  <2>. QED  BY <2>1, <2>2
<1>. QED  BY <1>1, <1>2

LEMMA FromMap ==
  ASSUME NEW S, NEW s \in Seq(S), NEW t \in Seq(S), Len(s) <= Len(t),
         NEW f \in [1..Len(s) -> 1..Len(t)],
         \A i \in 1..Len(s) : s[i] = t[f[i]],
         \A i, j \in 1..Len(s) : i < j => f[i] < f[j]
  PROVE  From(s, t, S)
<1>1. \A i \in 1..Len(s) : f[i] \in 1..Len(t)
  OBVIOUS
<1>2. \A i \in 1..Len(s) : \E h \in 1..Len(t) : s[i] = t[h]
  BY <1>1
<1>3. \A i, j \in 1..Len(s) :
        i < j => \E h, k \in 1..Len(t) : h < k /\ s[i] = t[h] /\ s[j] = t[k]
  BY <1>1
<1>. QED  BY <1>2, <1>3 DEF From

LEMMA TailFrom ==
  ASSUME NEW S, NEW s \in Seq(S), s # <<>>
  PROVE  /\ Head(s) = s[1] /\ 1 \in 1..Len(s)
         /\ From(Tail(s), s, S) /\ Len(Tail(s)) = Len(s) - 1
<1>. DEFINE f == [i \in 1..Len(s) - 1 |-> i + 1]
<1>1. /\ Tail(s) \in Seq(S) /\ Len(Tail(s)) = Len(s) - 1 /\ Head(s) = s[1]
      /\ \A i \in 1..Len(Tail(s)) : Tail(s)[i] = s[i + 1]
  OBVIOUS
<1>2. Len(s) \in Nat \ {0}
  OBVIOUS
<1>3. From(Tail(s), s, S)
  <2>1. f \in [1..Len(Tail(s)) -> 1..Len(s)]
    BY <1>1, <1>2
  <2>2. \A i \in 1..Len(Tail(s)) : Tail(s)[i] = s[f[i]]
    BY <1>1
  <2>3. \A i, j \in 1..Len(Tail(s)) : i < j => f[i] < f[j]
    BY <1>1, <1>2
  <2>. HIDE DEF f
  <2>4. Tail(s) \in Seq(S) /\ Len(Tail(s)) <= Len(s)
    BY <1>1, <1>2
  <2>. QED  BY <2>1, <2>2, <2>3, <2>4, FromMap
<1>. QED  BY <1>1, <1>2, <1>3

LEMMA RemoveAtFrom ==
  ASSUME NEW S, NEW s \in Seq(S), NEW i \in 1..Len(s)
  PROVE  From(RemoveAt(s, i), s, S)
<1>. DEFINE a == SubSeq(s, 1, i - 1)
            b == SubSeq(s, i + 1, Len(s))
            f == [j \in 1..Len(s) - 1 |-> IF j < i THEN j ELSE j + 1]
<1>1. Len(s) \in Nat /\ i \in Int /\ \A j \in 1..Len(s) : s[j] \in S
  OBVIOUS
<1>2. /\ a \in Seq(S) /\ Len(a) = i - 1 /\ \A j \in 1..i - 1 : a[j] = s[j]
  <2>1. \A j \in 1..i - 1 : s[j] \in S
    BY <1>1
  <2>. QED  BY <1>1, <2>1, SubSeqProperties
<1>3. /\ b \in Seq(S) /\ Len(b) = Len(s) - i
      /\ \A j \in 1..Len(s) - i : b[j] = s[i + j]
  <2>1. \A j \in i + 1..Len(s) : s[j] \in S
    BY <1>1
  <2>2. /\ b \in Seq(S) /\ Len(b) = IF i + 1 <= Len(s) THEN Len(s) - (i + 1) + 1 ELSE 0
        /\ \A j \in 1..Len(s) - (i + 1) + 1 : b[j] = s[i + 1 + j - 1]
    BY <1>1, <2>1, SubSeqProperties
  <2>. QED  BY <1>1, <2>2
<1>. HIDE DEF a, b
<1>4. /\ a \o b \in Seq(S) /\ Len(a \o b) = Len(s) - 1
      /\ \A j \in 1..Len(s) - 1 : (a \o b)[j] = IF j < i THEN a[j] ELSE b[j - (i - 1)]
  <2>1. /\ a \o b \in Seq(S) /\ Len(a \o b) = Len(a) + Len(b)
        /\ \A j \in 1..Len(a) + Len(b) :
             (a \o b)[j] = IF j <= Len(a) THEN a[j] ELSE b[j - Len(a)]
    <3>1. a \in Seq(S) /\ b \in Seq(S)
      BY <1>2, <1>3
    <3>. QED  BY <3>1, ConcatProperties
  <2>2. Len(a) + Len(b) = Len(s) - 1
    BY <1>1, <1>2, <1>3
  <2>3. \A j \in 1..Len(s) - 1 : j <= Len(a) <=> j < i
    BY <1>1, <1>2
  <2>. QED  BY <1>2, <2>1, <2>2, <2>3
<1>5. \A j \in 1..Len(s) - 1 : (a \o b)[j] = s[f[j]]
  BY <1>1, <1>2, <1>3, <1>4
<1>6. f \in [1..Len(a \o b) -> 1..Len(s)]
  BY <1>1, <1>4
<1>7. \A j, k \in 1..Len(a \o b) : j < k => f[j] < f[k]
  BY <1>1, <1>4
<1>8. From(a \o b, s, S)
  <2>. HIDE DEF f
  <2>1. Len(a \o b) <= Len(s) /\ \A j \in 1..Len(a \o b) : (a \o b)[j] = s[f[j]]
    BY <1>1, <1>4, <1>5
  <2>2. a \o b \in Seq(S)
    BY <1>4
  <2>. QED  BY <2>1, <2>2, <1>6, <1>7, FromMap
<1>. QED  BY <1>8 DEF RemoveAt, a, b

\* A packet put on the link is the last; those before it were there.
LEMMA PutLast ==
  ASSUME NEW S, NEW s \in Seq(S), NEW p \in S, Len(s) <= WireMax
  PROVE  \E t : /\ From(t, s, S) /\ Put(s, p) = Append(t, p) /\ Len(t) < WireMax
<1>1. CASE Len(s) < WireMax
  <2>1. From(s, s, S)
    BY DEF From
  <2>2. Put(s, p) = Append(s, p)
    BY <1>1 DEF Put
  <2>. QED  BY <1>1, <2>1, <2>2
<1>2. CASE ~(Len(s) < WireMax)
  <2>1. s # <<>> /\ Len(s) \in Nat
    BY <1>2
  <2>2. From(Tail(s), s, S) /\ Len(Tail(s)) = Len(s) - 1
    BY <2>1, TailFrom
  <2>3. Put(s, p) = Append(Tail(s), p)
    BY <1>2 DEF Put
  <2>4. Len(Tail(s)) < WireMax
    BY <2>1, <2>2
  <2>. QED  BY <2>2, <2>3, <2>4
<1>. QED  BY <1>1, <1>2

--------------------------------------------------------------------------------
(* Types.                                                                    *)

\* The inputs have no more versions than events have happened.
Types == TypeOK /\ ver + left <= MaxEvents

LEMMA TypesInit == Init => Types
  BY DEF Init, Types, TypeOK, Version, Kind, WbStep, SpStep, GwStep, RegStart, Packet, Ack

LEMMA NoVersion == 0 \in Version
  BY DEF Version

LEMMA PostTypes ==
  ASSUME TypeOK, NEW k \in Kind, NEW v \in Version, NEW wants \in BOOLEAN, Post(k, v, wants)
  PROVE  wire' \in Seq(Packet) /\ Len(wire') <= WireMax
<1>. DEFINE p == [kind |-> k, ver |-> IF k \in Tracked THEN v ELSE 0, wants |-> wants]
<1>1. p \in Packet
  BY DEF Packet, Version
<1>. HIDE DEF p
<1>2. CASE k \in Reports
  <2>1. wire \in Seq(Packet) /\ Len(wire) <= WireMax
    BY DEF TypeOK
  <2>2. PICK t : From(t, wire, Packet) /\ Put(wire, p) = Append(t, p) /\ Len(t) < WireMax
    BY <1>1, <2>1, PutLast
  <2>3. wire' = Append(t, p)
    BY <1>2, <2>2 DEF Post, p
  <2>4. t \in Seq(Packet)
    BY <2>2 DEF From
  <2>. QED  BY <1>1, <2>2, <2>3, <2>4
<1>3. CASE k \notin Reports
  BY <1>3 DEF Post, TypeOK
<1>. QED  BY <1>2, <1>3

LEMMA LowerTypes ==
  ASSUME TypeOK, NEW k \in Kind, NEW v, NEW others, Lower(k, v, others)
  PROVE  flag' \in [Kind -> BOOLEAN] /\ crossed' \in SUBSET Tracked
  BY DEF Lower, TypeOK, Tracked

LEMMA TypesWatchBoard == Types /\ WatchBoard => Types'
<1>. SUFFICES ASSUME Types, WatchBoard PROVE Types'
  OBVIOUS
<1>. USE DEF sendVars, inVars, gwVars, wbVars, spVars, linkVars, Types, TypeOK, WbStep
<1>1. CASE WbRead
  <2>1. ver \in 0..MaxEvents /\ left \in 0..MaxEvents
    BY DEF Version
  <2>2. ASSUME NEW new \in SUBSET Inputs, was' = [was EXCEPT ![ver + 1] = new],
               left > 0, ver' = ver + 1, left' = left - 1
        PROVE  Types'
    <3>1. was' \in [Version -> SUBSET Inputs]
      BY <2>2
    <3>2. ver + 1 \in 0..MaxEvents /\ left - 1 \in 0..MaxEvents
      BY <2>1, <2>2
    <3>3. ver' \in Version /\ left' \in 0..MaxEvents /\ ver' + left' <= MaxEvents
      BY <2>1, <2>2, <3>2 DEF Version
    <3>. QED  BY <1>1, <3>1, <3>3 DEF WbRead
  <2>3. CASE UNCHANGED <<was, ver, left>>
    BY <1>1, <2>3 DEF WbRead
  <2>. QED  BY <1>1, <2>2, <2>3 DEF WbRead
<1>2. CASE WbState
  BY <1>2 DEF WbState
<1>3. CASE WbStateSame
  BY <1>3 DEF WbStateSame
<1>4. CASE WbStateFlag
  <2>1. flag' \in [Kind -> BOOLEAN] /\ crossed' \in SUBSET Tracked
    BY <1>4, LowerTypes DEF WbStateFlag, Kind
  <2>. QED  BY <1>4, <2>1 DEF WbStateFlag, Lower
<1>5. CASE WbStatePost
  <2>1. wire' \in Seq(Packet) /\ Len(wire') <= WireMax
    BY <1>5, PostTypes DEF WbStatePost, Kind
  <2>. QED  BY <1>5, <2>1 DEF WbStatePost, Post
<1>6. CASE WbTrigin
  <2>1. flag' \in [Kind -> BOOLEAN] /\ crossed' \in SUBSET Tracked
    BY <1>6, LowerTypes DEF WbTrigin, Kind
  <2>. QED  BY <1>6, <2>1 DEF WbTrigin, Lower
<1>7. CASE WbTriginPost
  <2>1. wire' \in Seq(Packet) /\ Len(wire') <= WireMax
    BY <1>7, PostTypes DEF WbTriginPost, Kind
  <2>. QED  BY <1>7, <2>1, NoVersion DEF WbTriginPost, Post
<1>8. CASE WbTrig
  BY <1>8 DEF WbTrig
<1>9. CASE WbAlarm
  BY <1>9 DEF WbAlarm
<1>10. CASE WbAlarmFlag
  <2>1. flag' \in [Kind -> BOOLEAN] /\ crossed' \in SUBSET Tracked
    BY <1>10, LowerTypes DEF WbAlarmFlag, Kind
  <2>. QED  BY <1>10, <2>1 DEF WbAlarmFlag, Lower
<1>11. CASE WbAlarmPost
  <2>1. wire' \in Seq(Packet) /\ Len(wire') <= WireMax
    BY <1>11, PostTypes DEF WbAlarmPost, Kind
  <2>. QED  BY <1>11, <2>1, NoVersion DEF WbAlarmPost, Post
<1>. QED  BY <1>1, <1>2, <1>3, <1>4, <1>5, <1>6, <1>7, <1>8, <1>9, <1>10, <1>11 DEF WatchBoard

\* A timer starts again within its time.
LEMMA ResetTypes ==
  ASSUME TypeOK, NEW k \in Kind, NEW n \in Nat, n <= Timeout[k],
         timer' = timer \/ timer' = [timer EXCEPT ![k] = n]
  PROVE  timer' \in [Kind -> Nat] /\ \A h \in Kind : timer'[h] <= Timeout[h]
<1>1. timer \in [Kind -> Nat] /\ \A h \in Kind : timer[h] <= Timeout[h]
  BY DEF TypeOK
<1>2. CASE timer' = timer
  BY <1>1, <1>2
<1>3. CASE timer' = [timer EXCEPT ![k] = n]
  <2>1. ASSUME NEW h \in Kind PROVE timer'[h] <= Timeout[h]
    BY <1>1, <1>3
  <2>. QED  BY <1>1, <1>3, <2>1
<1>. QED  BY <1>2, <1>3

LEMMA TickTypes ==
  ASSUME TypeOK, NEW k \in Kind, NEW isUp, NEW step, NEW skip, Tick(k, isUp, step, skip)
  PROVE  /\ timer' \in [Kind -> Nat] /\ \A h \in Kind : timer'[h] <= Timeout[h]
         /\ sp' \in {step, skip}
<1>. USE DEF TypeOK
<1>1. CASE isUp \/ (~isUp /\ Due(k))
  <2>1. timer' = timer \/ timer' = [timer EXCEPT ![k] = 0]
    BY <1>1 DEF Tick
  <2>2. sp' \in {step, skip}
    BY <1>1 DEF Tick
  <2>3. 0 \in Nat /\ 0 <= Timeout[k]
    OBVIOUS
  <2>. QED  BY <2>1, <2>2, <2>3, ResetTypes
<1>2. CASE ~isUp /\ ~Due(k)
  <2>1. timer' = [timer EXCEPT ![k] = @ + 1] /\ timer[k] \in Nat /\ Timeout[k] \in Nat
    BY <1>2 DEF Tick
  <2>2. timer[k] + 1 <= Timeout[k]
    BY <1>2, <2>1 DEF Due
  <2>. QED  BY <2>1, <2>2 DEF Tick
<1>. QED  BY <1>1, <1>2

LEMMA TypesWatchProcess == Types /\ WatchProcess => Types'
<1>. SUFFICES ASSUME Types, WatchProcess PROVE Types'
  OBVIOUS
<1>. USE DEF sendVars, inVars, gwVars, wbVars, spVars, linkVars, Types, TypeOK, SpStep
<1>1. CASE SpCheck
  <2>1. CASE Registered
    BY <1>1, <2>1 DEF SpCheck
  <2>2. CASE ~Registered
    <3>1. Tick("regist", FALSE, "registPost", "check")
      BY <1>1, <2>2 DEF SpCheck
    <3>2. /\ timer' \in [Kind -> Nat] /\ \A h \in Kind : timer'[h] <= Timeout[h]
          /\ sp' \in {"registPost", "check"}
      BY <3>1, TickTypes DEF Kind
    <3>. QED  BY <1>1, <3>2 DEF SpCheck
  <2>. QED  BY <2>1, <2>2
<1>2. CASE SpRegistPost
  <2>1. wire' \in Seq(Packet) /\ Len(wire') <= WireMax
    BY <1>2, PostTypes, NoVersion DEF SpRegistPost, Kind
  <2>. QED  BY <1>2, <2>1 DEF SpRegistPost, Post
<1>3. CASE SpState
  <2>1. /\ timer' \in [Kind -> Nat] /\ \A h \in Kind : timer'[h] <= Timeout[h]
        /\ sp' \in {"stateFlag", "alarm"}
    BY <1>3, TickTypes DEF SpState, Kind
  <2>. QED  BY <1>3, <2>1, NoVersion DEF SpState
<1>4. CASE SpStateFlag
  <2>1. flag' \in [Kind -> BOOLEAN] /\ crossed' \in SUBSET Tracked
    BY <1>4, LowerTypes DEF SpStateFlag, Kind
  <2>. QED  BY <1>4, <2>1 DEF SpStateFlag, Lower
<1>5. CASE SpStatePost
  <2>1. wire' \in Seq(Packet) /\ Len(wire') <= WireMax
    BY <1>5, PostTypes DEF SpStatePost, Kind
  <2>. QED  BY <1>5, <2>1, NoVersion DEF SpStatePost, Post
<1>6. CASE SpAlarm
  <2>1. /\ timer' \in [Kind -> Nat] /\ \A h \in Kind : timer'[h] <= Timeout[h]
        /\ sp' \in {"alarmFlag", "trigin"}
    BY <1>6, TickTypes DEF SpAlarm, Kind
  <2>. QED  BY <1>6, <2>1, NoVersion DEF SpAlarm
<1>7. CASE SpAlarmFlag
  <2>1. flag' \in [Kind -> BOOLEAN] /\ crossed' \in SUBSET Tracked
    BY <1>7, LowerTypes DEF SpAlarmFlag, Kind
  <2>. QED  BY <1>7, <2>1 DEF SpAlarmFlag, Lower
<1>8. CASE SpAlarmPost
  <2>1. wire' \in Seq(Packet) /\ Len(wire') <= WireMax
    BY <1>8, PostTypes DEF SpAlarmPost, Kind
  <2>. QED  BY <1>8, <2>1, NoVersion DEF SpAlarmPost, Post
<1>9. CASE SpTrigin
  <2>1. /\ timer' \in [Kind -> Nat] /\ \A h \in Kind : timer'[h] <= Timeout[h]
        /\ sp' \in {"triginFlag", "check"}
    BY <1>9, TickTypes DEF SpTrigin, Kind
  <2>. QED  BY <1>9, <2>1, NoVersion DEF SpTrigin
<1>10. CASE SpTriginFlag
  <2>1. flag' \in [Kind -> BOOLEAN] /\ crossed' \in SUBSET Tracked
    BY <1>10, LowerTypes DEF SpTriginFlag, Kind
  <2>. QED  BY <1>10, <2>1 DEF SpTriginFlag, Lower
<1>11. CASE SpTriginPost
  <2>1. wire' \in Seq(Packet) /\ Len(wire') <= WireMax
    BY <1>11, PostTypes DEF SpTriginPost, Kind
  <2>. QED  BY <1>11, <2>1, NoVersion DEF SpTriginPost, Post
<1>. QED  BY <1>1, <1>2, <1>3, <1>4, <1>5, <1>6, <1>7, <1>8, <1>9, <1>10, <1>11 DEF WatchProcess

\* Whatever the other steps leave out of the link is still of its type.
LEMMA TypesLink == Types /\ (Lose \/ UsrAckCmd \/ \E ok \in BOOLEAN : Deliver(ok)) => Types'
<1>. SUFFICES ASSUME Types, Lose \/ UsrAckCmd \/ \E ok \in BOOLEAN : Deliver(ok) PROVE Types'
  OBVIOUS
<1>. USE DEF sendVars, inVars, gwVars, wbVars, spVars, Types, TypeOK
<1>0. /\ wire \in Seq(Packet) /\ Len(wire) <= WireMax
      /\ acks \in Seq(Ack) /\ Len(acks) <= WireMax
  OBVIOUS
<1>1. CASE Lose
  <2>1. ASSUME NEW i \in 1..Len(wire), wire' = RemoveAt(wire, i), acks' = acks PROVE Types'
    <3>1. wire' \in Seq(Packet) /\ Len(wire') <= Len(wire)
      BY <1>0, <2>1, RemoveAtFrom DEF From
    <3>2. Len(wire') <= WireMax
      BY <1>0, <3>1
    <3>. QED  BY <1>1, <2>1, <3>1, <3>2 DEF Lose
  <2>2. ASSUME NEW i \in 1..Len(acks), acks' = RemoveAt(acks, i), wire' = wire PROVE Types'
    <3>1. acks' \in Seq(Ack) /\ Len(acks') <= Len(acks)
      BY <1>0, <2>2, RemoveAtFrom DEF From
    <3>2. Len(acks') <= WireMax
      BY <1>0, <3>1
    <3>. QED  BY <1>1, <2>2, <3>1, <3>2 DEF Lose
  <2>. QED  BY <1>1, <2>1, <2>2 DEF Lose
<1>2. CASE UsrAckCmd
  <2>1. acks # <<>> /\ acks' = Tail(acks)
    BY <1>2 DEF UsrAckCmd
  <2>2. acks' \in Seq(Ack) /\ Len(acks') <= WireMax /\ Head(acks) \in Ack
    BY <1>0, <2>1
  <2>3. RegStart \in Nat /\ RegStart <= Timeout["regist"] /\ "regist" \in Kind
    BY DEF RegStart, Kind
  <2>4. /\ flag' \in [Kind -> BOOLEAN] /\ timer' \in [Kind -> Nat]
        /\ \A k \in Kind : timer'[k] <= Timeout[k]
    <3>1. CASE UNCHANGED <<flag, timer>>
      BY <3>1
    <3>2. CASE /\ flag' = [flag EXCEPT ![Head(acks).kind] = TRUE]
               /\ \/ timer' = [timer EXCEPT !["regist"] = RegStart]
                  \/ timer' = [timer EXCEPT !["trigin"] = 0]
                  \/ timer' = timer
      <4>1. flag' \in [Kind -> BOOLEAN]
        BY <3>2
      <4>2. 0 \in Nat /\ 0 <= Timeout["trigin"] /\ "trigin" \in Kind
        BY DEF Kind
      <4>. QED  BY <3>2, <4>1, <4>2, <2>3, ResetTypes
    <3>. QED  BY <1>2, <3>1, <3>2 DEF UsrAckCmd
  <2>. QED  BY <1>2, <2>2, <2>4 DEF UsrAckCmd
<1>3. ASSUME NEW ok \in BOOLEAN, Deliver(ok) PROVE Types'
  <2>1. wire # <<>> /\ wire' = Tail(wire) /\ Hear(Head(wire))
    BY <1>3 DEF Deliver
  <2>2. wire' \in Seq(Packet) /\ Len(wire') <= WireMax /\ Head(wire) \in Packet
    BY <1>0, <2>1
  <2>3. acks' \in Seq(Ack) /\ Len(acks') <= WireMax
    <3>1. CASE acks' = acks
      BY <3>1
    <3>. DEFINE a == [kind |-> Head(wire).kind, ver |-> Head(wire).ver, ok |-> ok]
    <3>2. CASE acks' = Put(acks, a)
      <4>1. a \in Ack
        BY <2>2 DEF Packet, Ack
      <4>. HIDE DEF a
      <4>2. PICK t : From(t, acks, Ack) /\ Put(acks, a) = Append(t, a) /\ Len(t) < WireMax
        BY <1>0, <4>1, PutLast
      <4>3. t \in Seq(Ack)
        BY <4>2 DEF From
      <4>. QED  BY <3>2, <4>1, <4>2, <4>3
    <3>. QED  BY <1>3, <3>1, <3>2 DEF Deliver
  <2>4. heard' \in SUBSET Version /\ shown' \in Version
    BY <2>1, <2>2 DEF Hear, Packet
  <2>. QED  BY <1>3, <2>2, <2>3, <2>4 DEF Deliver
<1>. QED  BY <1>1, <1>2, <1>3

LEMMA TypesNext == Types /\ [Next]_vars => Types'
<1>. SUFFICES ASSUME Types, [Next]_vars PROVE Types'
  OBVIOUS
<1>1. CASE QueryState
  <2>1. Post("state", ver, FALSE) /\ TypeOK
    BY <1>1 DEF QueryState, Types
  <2>2. wire' \in Seq(Packet) /\ Len(wire') <= WireMax
    BY <2>1, PostTypes DEF Kind, TypeOK
  <2>3. left' \in 0..MaxEvents /\ ver + left' <= MaxEvents
    <3>1. left \in 0..MaxEvents /\ ver \in Nat /\ ver + left <= MaxEvents
      BY DEF Types, TypeOK, Version
    <3>2. left > 0 /\ left' = left - 1
      BY <1>1 DEF QueryState
    <3>. QED  BY <3>1, <3>2
  <2>4. /\ UNCHANGED <<acks, heard, shown, crossed>> /\ stateOld' \in Version
        /\ UNCHANGED <<flag, timer, lastAlarm, was, ver, trigVer, wb, wbVer, sp, spVer, gw, gwVer>>
    BY <1>1, <2>1 DEF QueryState, Post, TypeOK, inVars, gwVars, wbVars, spVars
  <2>5. TypeOK'
    BY <2>1, <2>2, <2>3, <2>4 DEF TypeOK, Version
  <2>. QED  BY <2>3, <2>4, <2>5 DEF Types
<1>2. CASE Unregister
  <2>1. left' \in 0..MaxEvents /\ ver + left' <= MaxEvents
    <3>1. left \in 0..MaxEvents /\ ver \in Nat /\ ver + left <= MaxEvents
      BY DEF Types, TypeOK, Version
    <3>2. left > 0 /\ left' = left - 1
      BY <1>2 DEF Unregister
    <3>. QED  BY <3>1, <3>2
  <2>2. RegStart \in Nat /\ RegStart <= Timeout["regist"] /\ "regist" \in Kind
    BY DEF RegStart, Kind
  <2>3. /\ flag' \in [Kind -> BOOLEAN] /\ timer' \in [Kind -> Nat]
        /\ \A k \in Kind : timer'[k] <= Timeout[k]
    BY <1>2, <2>2 DEF Unregister, Types, TypeOK
  <2>. QED  BY <1>2, <2>1, <2>3 DEF Unregister, Types, TypeOK, inVars, gwVars, wbVars, spVars, linkVars
<1>3. CASE UNCHANGED vars
  BY <1>3 DEF vars, sendVars, inVars, gwVars, wbVars, spVars, linkVars, Types, TypeOK
<1>4. CASE GwState
  <2>1. left' \in 0..MaxEvents /\ ver + left' <= MaxEvents
    <3>1. left \in 0..MaxEvents /\ ver \in Nat /\ ver + left <= MaxEvents
      BY DEF Types, TypeOK, Version
    <3>2. left > 0 /\ left' = left - 1
      BY <1>4 DEF GwState
    <3>. QED  BY <3>1, <3>2
  <2>. QED  BY <1>4, <2>1 DEF GwState, GwStep, Types, TypeOK, sendVars, inVars, wbVars, spVars, linkVars
<1>5. CASE GwStateFlag
  <2>1. flag' \in [Kind -> BOOLEAN] /\ crossed' \in SUBSET Tracked
    BY <1>5, LowerTypes DEF GwStateFlag, Kind, Types
  <2>. QED  BY <1>5, <2>1 DEF GwStateFlag, GwStep, Lower, Types, TypeOK, inVars, wbVars, spVars
<1>6. CASE GwStatePost
  <2>1. wire' \in Seq(Packet) /\ Len(wire') <= WireMax
    BY <1>6, PostTypes DEF GwStatePost, Kind, Types, TypeOK
  <2>. QED  BY <1>6, <2>1, NoVersion DEF GwStatePost, GwStep, Post, Types, TypeOK, inVars, wbVars, spVars
<1>. QED  BY <1>1, <1>2, <1>3, <1>4, <1>5, <1>6, TypesWatchBoard, TypesWatchProcess, TypesLink DEF Next

\* Every variable keeps its type: above all no timer passes its end, no more
\* packets are under way than the link holds, and the versions do not run out.
THEOREM TypeCorrect == Spec => []TypeOK
<1>1. Types => TypeOK
  BY DEF Types
<1>. QED  BY <1>1, TypesInit, TypesNext, PTL DEF Spec

--------------------------------------------------------------------------------
(* What is under way, by kind.                                               *)

\* The packets of kind k in s have contents out of V.
Within(s, k, V) == \A i \in 1..Len(s) : s[i].kind = k => s[i].ver \in V

LEMMA WithinFrom ==
  ASSUME NEW S, NEW s \in Seq(S), NEW t, From(t, s, S), NEW k, NEW V, Within(s, k, V)
  PROVE  Within(t, k, V)
<1>1. \A i \in 1..Len(t) : \E h \in 1..Len(s) : t[i] = s[h]
  BY DEF From
<1>. QED  BY <1>1 DEF Within

LEMMA WithinTail ==
  ASSUME NEW S, NEW s \in Seq(S), s # <<>>, NEW k, NEW V, Within(s, k, V)
  PROVE  Within(Tail(s), k, V) /\ (Head(s).kind = k => Head(s).ver \in V)
<1>1. From(Tail(s), s, S) /\ Head(s) = s[1] /\ 1 \in 1..Len(s)
  BY TailFrom
<1>2. Within(Tail(s), k, V)
  BY <1>1, WithinFrom
<1>. QED  BY <1>1, <1>2 DEF Within

LEMMA WithinPut ==
  ASSUME NEW S, NEW s \in Seq(S), NEW p \in S, Len(s) <= WireMax, NEW k, NEW V,
         Within(s, k, V), p.kind = k => p.ver \in V
  PROVE  Within(Put(s, p), k, V)
<1>1. PICK t : From(t, s, S) /\ Put(s, p) = Append(t, p)
  BY PutLast
<1>2. Within(t, k, V) /\ t \in Seq(S)
  BY <1>1, WithinFrom DEF From
<1>3. Within(Append(t, p), k, V)
  <2>1. /\ Len(Append(t, p)) = Len(t) + 1 /\ Len(t) \in Nat
        /\ \A i \in 1..Len(t) + 1 : Append(t, p)[i] = IF i <= Len(t) THEN t[i] ELSE p
    BY <1>2, AppendIs
  <2>2. ASSUME NEW i \in 1..Len(t) + 1, Append(t, p)[i].kind = k
        PROVE  Append(t, p)[i].ver \in V
    <3>1. CASE i <= Len(t)
      BY <1>2, <2>1, <2>2, <3>1 DEF Within
    <3>2. CASE ~(i <= Len(t))
      BY <2>1, <2>2, <3>2
    <3>. QED  BY <3>1, <3>2
  <2>. QED  BY <2>1, <2>2 DEF Within
<1>. QED  BY <1>1, <1>3

LEMMA PostWithin ==
  ASSUME TypeOK, NEW j \in Kind, NEW v \in Version, NEW wants \in BOOLEAN, Post(j, v, wants),
         NEW k \in Tracked, NEW V, Within(wire, k, V), j = k => v \in V
  PROVE  Within(wire', k, V)
<1>. DEFINE p == [kind |-> j, ver |-> IF j \in Tracked THEN v ELSE 0, wants |-> wants]
<1>1. p \in Packet /\ (p.kind = k => p.ver \in V)
  BY DEF Packet, Version
<1>2. wire \in Seq(Packet) /\ Len(wire) <= WireMax
  BY DEF TypeOK
<1>3. wire' = wire \/ wire' = Put(wire, p)
  BY DEF Post
<1>. HIDE DEF p
<1>. QED  BY <1>1, <1>2, <1>3, WithinPut

\* Leaving out keeps what is within; so does Lose.
LEMMA LoseFrom == TypeOK /\ Lose => /\ From(wire', wire, Packet) /\ From(acks', acks, Ack)
<1>. SUFFICES ASSUME TypeOK, Lose PROVE From(wire', wire, Packet) /\ From(acks', acks, Ack)
  OBVIOUS
<1>1. wire \in Seq(Packet) /\ acks \in Seq(Ack)
  BY DEF TypeOK
<1>2. From(wire, wire, Packet) /\ From(acks, acks, Ack)
  BY <1>1 DEF From
<1>3. CASE \E i \in 1..Len(wire) : wire' = RemoveAt(wire, i) /\ acks' = acks
  BY <1>1, <1>2, <1>3, RemoveAtFrom
<1>4. CASE \E i \in 1..Len(acks) : acks' = RemoveAt(acks, i) /\ wire' = wire
  BY <1>1, <1>2, <1>4, RemoveAtFrom
<1>. QED  BY <1>3, <1>4 DEF Lose

--------------------------------------------------------------------------------
(* Alarms.                                                                   *)

\* From the sending of the last alarm, unless two crossed, nothing but it is
\* under way, and what is acknowledged has been heard.
AlarmInv ==
  /\ Within(acks, "alarm", heard)
  /\ wb \in {"alarmFlag", "alarmPost"} => wbVer = lastAlarm
  /\ "alarm" \notin crossed /\ wb # "alarmFlag" =>
       /\ Within(wire, "alarm", {lastAlarm}) /\ Within(acks, "alarm", {lastAlarm})
       /\ sp \in {"alarmFlag", "alarmPost"} => spVer = lastAlarm
       /\ flag["alarm"] /\ lastAlarm > 0 => lastAlarm \in heard

LEMMA AlarmInit == Init => AlarmInv
  BY DEF Init, AlarmInv, Within

\* A step that leaves the last alarm, the acknowledgements and the gateway alone,
\* and sends no other alarm.
LEMMA AlarmKept ==
  ASSUME AlarmInv, UNCHANGED <<acks, heard, lastAlarm>>,
         "alarm" \in crossed => "alarm" \in crossed', flag'["alarm"] => flag["alarm"],
         \/ wb' = wb /\ wbVer' = wbVer
         \/ wb # "alarmFlag" /\ wb' \notin {"alarmFlag", "alarmPost"},
         sp' \in {"alarmFlag", "alarmPost"} =>
            spVer' = lastAlarm \/ (sp \in {"alarmFlag", "alarmPost"} /\ spVer' = spVer),
         "alarm" \notin crossed /\ wb # "alarmFlag" => Within(wire', "alarm", {lastAlarm})
  PROVE  AlarmInv'
  BY DEF AlarmInv, Within

\* Lower and Post of another kind are of no interest to the alarms.
LEMMA LowerOther ==
  ASSUME NEW j, NEW k, NEW v, NEW others, j # k, Lower(j, v, others)
  PROVE  /\ UNCHANGED <<wire, acks, heard, shown>>
         /\ (k \in crossed' <=> k \in crossed) /\ flag'[k] = flag[k]
  BY DEF Lower

LEMMA AlarmWatchBoard == "alarm" \in Reports /\ Types /\ AlarmInv /\ WatchBoard => AlarmInv'
<1>. SUFFICES ASSUME "alarm" \in Reports, Types, AlarmInv, WatchBoard PROVE AlarmInv'
  OBVIOUS
<1>0. TypeOK /\ "alarm" \in Tracked /\ {"state", "trigin", "alarm"} \subseteq Kind /\ wbVer \in Version
  BY DEF Types, TypeOK, Tracked, Kind
<1>. USE DEF sendVars, inVars, gwVars, wbVars, spVars, linkVars
<1>1. CASE WbRead \/ WbState \/ WbStateSame \/ WbTrig
  <2>1. /\ UNCHANGED <<wire, acks, heard, lastAlarm, crossed, flag, sp, spVer>>
        /\ wb # "alarmFlag" /\ wb' \notin {"alarmFlag", "alarmPost"}
    BY <1>1 DEF WbRead, WbState, WbStateSame, WbTrig
  <2>. QED  BY <2>1, AlarmKept DEF AlarmInv
<1>2. CASE WbStateFlag \/ WbTrigin
  <2>1. /\ UNCHANGED <<wire, acks, heard, lastAlarm, sp, spVer>>
        /\ "alarm" \in crossed' <=> "alarm" \in crossed
        /\ flag'["alarm"] = flag["alarm"]
        /\ wb # "alarmFlag" /\ wb' \notin {"alarmFlag", "alarmPost"}
    BY <1>2, LowerOther DEF WbStateFlag, WbTrigin
  <2>. QED  BY <2>1, AlarmKept DEF AlarmInv
<1>3. CASE WbStatePost \/ WbTriginPost \/ WbAlarmPost
  <2>1. /\ UNCHANGED <<acks, heard, lastAlarm, crossed, flag, sp, spVer>>
        /\ wb # "alarmFlag" /\ wb' \notin {"alarmFlag", "alarmPost"}
    BY <1>3 DEF WbStatePost, WbTriginPost, WbAlarmPost, Post
  <2>2. ASSUME "alarm" \notin crossed PROVE Within(wire', "alarm", {lastAlarm})
    <3>1. Within(wire, "alarm", {lastAlarm}) /\ (wb = "alarmPost" => wbVer = lastAlarm)
      BY <2>1, <2>2 DEF AlarmInv
    <3>. QED  BY <1>0, <1>3, <3>1, PostWithin DEF WbStatePost, WbTriginPost, WbAlarmPost
  <2>. QED  BY <2>1, <2>2, AlarmKept
<1>4. CASE WbAlarm
  BY <1>4 DEF WbAlarm, AlarmInv, Within
<1>5. CASE WbAlarmFlag
  <2>1. /\ wb' = "alarmPost" /\ wbVer' = lastAlarm /\ lastAlarm' = lastAlarm
        /\ UNCHANGED <<wire, acks, heard, sp, spVer>>
    BY <1>5 DEF WbAlarmFlag, AlarmInv, Lower
  <2>2. ~flag'["alarm"]
    BY <1>0, <1>5 DEF WbAlarmFlag, Lower, TypeOK
  <2>3. ASSUME "alarm" \notin crossed'
        PROVE  /\ Within(wire, "alarm", {lastAlarm}) /\ Within(acks, "alarm", {lastAlarm})
               /\ sp \notin {"alarmFlag", "alarmPost"}
    <3>1. ~Under("alarm", lastAlarm) /\ ~SpSends("alarm")
      BY <1>0, <1>5, <2>3 DEF WbAlarmFlag, Lower, AlarmInv
    <3>. QED  BY <3>1 DEF Under, SpSends, Within
  <2>. QED  BY <2>1, <2>2, <2>3 DEF AlarmInv, Within
<1>. QED  BY <1>1, <1>2, <1>3, <1>4, <1>5 DEF WatchBoard

LEMMA AlarmWatchProcess ==
  "alarm" \in Reports /\ Types /\ AlarmInv /\ WatchProcess => AlarmInv'
<1>. SUFFICES ASSUME "alarm" \in Reports, Types, AlarmInv, WatchProcess PROVE AlarmInv'
  OBVIOUS
<1>0. /\ TypeOK /\ "alarm" \in Tracked /\ Kind = {"regist", "state", "alarm", "trigin"}
      /\ spVer \in Version /\ 0 \in Version
  BY NoVersion DEF Types, TypeOK, Tracked, Kind
<1>. USE DEF sendVars, inVars, gwVars, wbVars, spVars, linkVars
<1>1. CASE SpCheck \/ SpState \/ SpTrigin \/ SpAlarm
  <2>1. /\ UNCHANGED <<wire, acks, heard, lastAlarm, crossed, flag, wb, wbVer>>
        /\ sp' \in {"alarmFlag", "alarmPost"} => spVer' = lastAlarm
    BY <1>1 DEF SpCheck, SpState, SpTrigin, SpAlarm, Tick
  <2>. QED  BY <2>1, AlarmKept DEF AlarmInv
<1>2. CASE SpStateFlag \/ SpTriginFlag
  <2>1. /\ UNCHANGED <<wire, acks, heard, lastAlarm, wb, wbVer>>
        /\ "alarm" \in crossed' <=> "alarm" \in crossed
        /\ flag'["alarm"] = flag["alarm"]
        /\ sp' \notin {"alarmFlag", "alarmPost"}
    BY <1>2, LowerOther DEF SpStateFlag, SpTriginFlag
  <2>. QED  BY <2>1, AlarmKept DEF AlarmInv
<1>3. CASE SpAlarmFlag
  <2>1. /\ UNCHANGED <<wire, acks, heard, lastAlarm, wb, wbVer, spVer>>
        /\ "alarm" \in crossed => "alarm" \in crossed'
        /\ ~flag'["alarm"] /\ sp = "alarmFlag"
    BY <1>0, <1>3 DEF SpAlarmFlag, Lower, TypeOK
  <2>. QED  BY <2>1, AlarmKept DEF AlarmInv
<1>4. CASE SpRegistPost \/ SpStatePost \/ SpTriginPost \/ SpAlarmPost
  <2>1. /\ UNCHANGED <<acks, heard, lastAlarm, crossed, flag, wb, wbVer>>
        /\ sp' \notin {"alarmFlag", "alarmPost"}
    BY <1>4 DEF SpRegistPost, SpStatePost, SpTriginPost, SpAlarmPost, Post
  <2>2. ASSUME "alarm" \notin crossed, wb # "alarmFlag" PROVE Within(wire', "alarm", {lastAlarm})
    <3>1. Within(wire, "alarm", {lastAlarm}) /\ (sp = "alarmPost" => spVer = lastAlarm)
      BY <2>2 DEF AlarmInv
    <3>. QED  BY <1>0, <1>4, <3>1, PostWithin
                DEF SpRegistPost, SpStatePost, SpTriginPost, SpAlarmPost
  <2>. QED  BY <2>1, <2>2, AlarmKept
<1>. QED  BY <1>1, <1>2, <1>3, <1>4 DEF WatchProcess

LEMMA AlarmLink ==
  "alarm" \in Reports /\ Types /\ AlarmInv
     /\ (Lose \/ UsrAckCmd \/ \E ok \in BOOLEAN : Deliver(ok)) => AlarmInv'
<1>. SUFFICES ASSUME "alarm" \in Reports, Types, AlarmInv,
                     Lose \/ UsrAckCmd \/ \E ok \in BOOLEAN : Deliver(ok)
              PROVE  AlarmInv'
  OBVIOUS
<1>0. /\ TypeOK /\ wire \in Seq(Packet) /\ acks \in Seq(Ack)
      /\ Len(acks) <= WireMax /\ flag \in [Kind -> BOOLEAN]
  BY DEF Types, TypeOK
<1>. USE DEF sendVars, inVars, gwVars, wbVars, spVars
<1>1. CASE Lose
  <2>1. From(wire', wire, Packet) /\ From(acks', acks, Ack)
    BY <1>0, <1>1, LoseFrom
  <2>2. \A V : /\ Within(wire, "alarm", V) => Within(wire', "alarm", V)
               /\ Within(acks, "alarm", V) => Within(acks', "alarm", V)
    BY <1>0, <2>1, WithinFrom
  <2>. QED  BY <1>1, <2>2 DEF Lose, AlarmInv, Within
<1>2. CASE UsrAckCmd
  <2>1. acks # <<>> /\ acks' = Tail(acks) /\ Head(acks) \in Ack
    BY <1>0, <1>2 DEF UsrAckCmd
  <2>2. \A V : Within(acks, "alarm", V) =>
                 Within(acks', "alarm", V) /\ (Head(acks).kind = "alarm" => Head(acks).ver \in V)
    BY <1>0, <2>1, WithinTail
  <2>3. flag'["alarm"] => flag["alarm"] \/ Head(acks).kind = "alarm"
    BY <1>0, <1>2, <2>1 DEF UsrAckCmd, Ack
  <2>4. UNCHANGED <<wire, heard, crossed, lastAlarm, wb, wbVer, sp, spVer>>
    BY <1>2 DEF UsrAckCmd
  <2>5. Within(acks', "alarm", heard)
    BY <2>2 DEF AlarmInv
  <2>6. ASSUME "alarm" \notin crossed, wb # "alarmFlag"
        PROVE  /\ Within(acks', "alarm", {lastAlarm})
               /\ flag'["alarm"] /\ lastAlarm > 0 => lastAlarm \in heard
    <3>1. Within(acks, "alarm", {lastAlarm}) /\ Within(acks, "alarm", heard)
      BY <2>6 DEF AlarmInv
    <3>2. /\ Within(acks', "alarm", {lastAlarm})
          /\ Head(acks).kind = "alarm" => Head(acks).ver = lastAlarm /\ Head(acks).ver \in heard
      BY <2>2, <3>1
    <3>. QED  BY <2>3, <2>6, <3>2 DEF AlarmInv
  <2>. QED  BY <2>4, <2>5, <2>6 DEF AlarmInv
<1>3. ASSUME NEW ok \in BOOLEAN, Deliver(ok) PROVE AlarmInv'
  <2>1. wire # <<>> /\ wire' = Tail(wire) /\ Hear(Head(wire)) /\ Head(wire) \in Packet
    BY <1>0, <1>3 DEF Deliver
  <2>2. \A V : Within(wire, "alarm", V) =>
                 Within(wire', "alarm", V) /\ (Head(wire).kind = "alarm" => Head(wire).ver \in V)
    BY <1>0, <2>1, WithinTail
  <2>. DEFINE a == [kind |-> Head(wire).kind, ver |-> Head(wire).ver, ok |-> ok]
  <2>3. a \in Ack /\ (acks' = acks \/ acks' = Put(acks, a))
    BY <1>3, <2>1 DEF Deliver, Packet, Ack
  <2>4. a.kind = Head(wire).kind /\ a.ver = Head(wire).ver
    OBVIOUS
  <2>. HIDE DEF a
  <2>5. ASSUME NEW V, Within(acks, "alarm", V), Head(wire).kind = "alarm" => Head(wire).ver \in V
        PROVE  Within(acks', "alarm", V)
    BY <1>0, <2>3, <2>4, <2>5, WithinPut
  <2>6. heard \subseteq heard' /\ (Head(wire).kind = "alarm" => Head(wire).ver \in heard')
    BY <2>1 DEF Hear
  <2>7. Within(acks', "alarm", heard')
    <3>1. Within(acks, "alarm", heard')
      BY <2>6 DEF AlarmInv, Within
    <3>. QED  BY <2>5, <2>6, <3>1
  <2>8. UNCHANGED <<crossed, flag, lastAlarm, wb, wbVer, sp, spVer>>
    BY <1>3 DEF Deliver
  <2>9. ASSUME "alarm" \notin crossed, wb # "alarmFlag"
        PROVE  Within(wire', "alarm", {lastAlarm}) /\ Within(acks', "alarm", {lastAlarm})
    BY <2>2, <2>5, <2>9 DEF AlarmInv
  <2>. QED  BY <2>6, <2>7, <2>8, <2>9 DEF AlarmInv
<1>. QED  BY <1>1, <1>2, <1>3

LEMMA AlarmNext == "alarm" \in Reports /\ Types /\ AlarmInv /\ [Next]_vars => AlarmInv'
<1>. SUFFICES ASSUME "alarm" \in Reports, Types, AlarmInv, [Next]_vars PROVE AlarmInv'
  OBVIOUS
<1>0. /\ TypeOK /\ "alarm" \in Tracked /\ "state" \in Kind /\ ver \in Version
      /\ flag \in [Kind -> BOOLEAN]
      /\ gwVer \in Version
  BY DEF Types, TypeOK, Tracked, Kind
<1>1. CASE QueryState
  <2>1. UNCHANGED <<acks, heard, crossed, flag, lastAlarm, wb, wbVer, sp, spVer>>
    BY <1>1 DEF QueryState, Post, wbVars, spVars
  <2>2. Within(wire, "alarm", {lastAlarm}) => Within(wire', "alarm", {lastAlarm})
    BY <1>0, <1>1, PostWithin DEF QueryState
  <2>. QED  BY <2>1, <2>2, AlarmKept DEF AlarmInv
<1>2. CASE Unregister \/ UNCHANGED vars
  <2>1. /\ UNCHANGED <<wire, acks, heard, crossed, lastAlarm, wb, wbVer, sp, spVer>>
        /\ flag'["alarm"] = flag["alarm"]
    BY <1>0, <1>2 DEF Unregister, vars, sendVars, wbVars, spVars, linkVars
  <2>. QED  BY <2>1, AlarmKept DEF AlarmInv
<1>3. CASE GwState \/ GwStateFlag
  <2>1. /\ UNCHANGED <<wire, acks, heard, crossed, lastAlarm, wb, wbVer, sp, spVer>>
        /\ flag'["alarm"] = flag["alarm"]
    BY <1>0, <1>3 DEF GwState, GwStateFlag, Lower, Tracked, sendVars, wbVars, spVars, linkVars
  <2>. QED  BY <2>1, AlarmKept DEF AlarmInv
<1>4. CASE GwStatePost
  <2>1. UNCHANGED <<acks, heard, crossed, flag, lastAlarm, wb, wbVer, sp, spVer>>
    BY <1>4 DEF GwStatePost, Post, wbVars, spVars
  <2>2. Within(wire, "alarm", {lastAlarm}) => Within(wire', "alarm", {lastAlarm})
    BY <1>0, <1>4, PostWithin DEF GwStatePost
  <2>. QED  BY <2>1, <2>2, AlarmKept DEF AlarmInv
<1>. QED  BY <1>1, <1>2, <1>3, <1>4, AlarmWatchBoard, AlarmWatchProcess, AlarmLink DEF Next

\* A raised alarm flag is true: the gateway has heard the last alarm, unless two
\* alarms were under way together, for any number of inputs and any loss.
THEOREM AlarmsHonest == "alarm" \in Reports => (Spec => []AlarmFlagHonest)
<1>. SUFFICES ASSUME "alarm" \in Reports PROVE Spec => []AlarmFlagHonest
  OBVIOUS
<1>1. Init => Types /\ AlarmInv
  BY TypesInit, AlarmInit
<1>2. Types /\ AlarmInv /\ [Next]_vars => (Types /\ AlarmInv)'
  BY TypesNext, AlarmNext
<1>3. AlarmInv => AlarmFlagHonest
  BY DEF AlarmInv, AlarmFlagHonest
<1>. QED  BY <1>1, <1>2, <1>3, PTL DEF Spec

--------------------------------------------------------------------------------
(* Input reports.                                                            *)

\* The contents of the packets of kind k in s do not go back.
Rising(s, k) ==
  \A i, j \in 1..Len(s) : i < j /\ s[i].kind = k /\ s[j].kind = k => s[i].ver <= s[j].ver

LEMMA RisingFrom ==
  ASSUME NEW S, NEW s \in Seq(S), NEW t, From(t, s, S), NEW k, Rising(s, k)
  PROVE  Rising(t, k)
<1>. SUFFICES ASSUME NEW i \in 1..Len(t), NEW j \in 1..Len(t), i < j,
                     t[i].kind = k, t[j].kind = k
              PROVE  t[i].ver <= t[j].ver
  BY DEF Rising
<1>1. PICK h, l \in 1..Len(s) : h < l /\ t[i] = s[h] /\ t[j] = s[l]
  BY DEF From
<1>. QED  BY <1>1 DEF Rising

LEMMA RisingPut ==
  ASSUME NEW S, NEW s \in Seq(S), NEW p \in S, Len(s) <= WireMax, NEW k, Rising(s, k),
         p.kind = k => Within(s, k, 0..p.ver)
  PROVE  Rising(Put(s, p), k)
<1>1. PICK t : From(t, s, S) /\ Put(s, p) = Append(t, p)
  BY PutLast
<1>2. Rising(t, k) /\ t \in Seq(S) /\ (p.kind = k => Within(t, k, 0..p.ver))
  BY <1>1, RisingFrom, WithinFrom DEF From
<1>3. Rising(Append(t, p), k)
  <2>1. /\ Len(Append(t, p)) = Len(t) + 1 /\ Len(t) \in Nat
        /\ \A i \in 1..Len(t) + 1 : Append(t, p)[i] = IF i <= Len(t) THEN t[i] ELSE p
    BY <1>2, AppendIs
  <2>2. ASSUME NEW i \in 1..Len(t) + 1, NEW j \in 1..Len(t) + 1, i < j,
               Append(t, p)[i].kind = k, Append(t, p)[j].kind = k
        PROVE  Append(t, p)[i].ver <= Append(t, p)[j].ver
    <3>1. i \in 1..Len(t) /\ Append(t, p)[i] = t[i]
      BY <2>1, <2>2
    <3>2. CASE j <= Len(t)
      BY <1>2, <2>1, <2>2, <3>1, <3>2 DEF Rising
    <3>3. CASE ~(j <= Len(t))
      <4>1. Append(t, p)[j] = p
        BY <2>1, <3>3
      <4>2. p.kind = k /\ t[i].kind = k
        BY <2>2, <3>1, <4>1
      <4>3. t[i].ver \in 0..p.ver
        BY <1>2, <3>1, <4>2 DEF Within
      <4>. QED  BY <3>1, <4>1, <4>3
    <3>. QED  BY <3>2, <3>3
  <2>. QED  BY <2>1, <2>2 DEF Rising
<1>. QED  BY <1>1, <1>3

LEMMA RisingTail ==
  ASSUME NEW S, NEW s \in Seq(S), s # <<>>, NEW k, Rising(s, k), Head(s).kind = k,
         NEW V, Within(s, k, V)
  PROVE  Within(Tail(s), k, {v \in V : Head(s).ver <= v})
<1>1. /\ Head(s) = s[1] /\ 1 \in 1..Len(s) /\ Len(s) \in Nat /\ Len(Tail(s)) = Len(s) - 1
      /\ \A i \in 1..Len(Tail(s)) : Tail(s)[i] = s[i + 1]
  OBVIOUS
<1>2. \A i \in 1..Len(Tail(s)) : i + 1 \in 1..Len(s) /\ 1 < i + 1
  BY <1>1
<1>. QED  BY <1>1, <1>2 DEF Rising, Within

LEMMA PostRising ==
  ASSUME TypeOK, NEW j \in Kind, NEW v \in Version, NEW wants \in BOOLEAN, Post(j, v, wants),
         NEW k \in Tracked, Rising(wire, k), j = k => Within(wire, k, 0..v)
  PROVE  Rising(wire', k)
<1>. DEFINE p == [kind |-> j, ver |-> IF j \in Tracked THEN v ELSE 0, wants |-> wants]
<1>1. p \in Packet /\ (p.kind = k => Within(wire, k, 0..p.ver))
  BY DEF Packet, Version
<1>2. wire \in Seq(Packet) /\ Len(wire) <= WireMax
  BY DEF TypeOK
<1>3. wire' = wire \/ wire' = Put(wire, p)
  BY DEF Post
<1>. HIDE DEF p
<1>. QED  BY <1>1, <1>2, <1>3, RisingPut

\* From the reading of changed inputs to the sending of the report, and from
\* there to the packet.
Unsent  == {"state", "stateSame", "stateFlag", "statePost", "trigin"}
Sending == {"triginFlag", "triginPost"}

\* The gateway hears the versions in order, and acknowledges what it heard; once
\* the watch-board thread has sent the last, unless it crossed another, nothing
\* else is under way.
TriginInv ==
  /\ wb \in (Unsent \ {"state"}) \cup {"triginPost"} => wbVer = ver
  /\ "trigin" \notin crossed =>
       /\ shown <= ver /\ Rising(wire, "trigin")
       /\ Within(wire, "trigin", shown..ver) /\ Within(acks, "trigin", 0..shown)
       /\ sp \in Sending => spVer \in shown..ver /\ Within(wire, "trigin", 0..spVer)
  /\ "trigin" \notin crossed /\ wb \notin Unsent =>
       /\ Within(wire, "trigin", {ver}) /\ Within(acks, "trigin", {ver})
       /\ sp \in Sending => spVer = ver
       /\ flag["trigin"] => shown = ver

LEMMA TriginInit == Init => TriginInv
  BY DEF Init, TriginInv, Within, Rising, Unsent, Sending

\* A step that leaves the inputs, the acknowledgements and the gateway alone,
\* and sends no other report than of the inputs as they are.
LEMMA TriginKept ==
  ASSUME Types, TriginInv, UNCHANGED <<acks, shown, ver>>,
         "trigin" \in crossed => "trigin" \in crossed', flag'["trigin"] => flag["trigin"],
         wb' \in (Unsent \ {"state"}) \cup {"triginPost"} => wbVer' = ver,
         wb \in Unsent => wb' \in Unsent,
         sp' \in Sending => spVer' = ver \/ (sp \in Sending /\ spVer' = spVer),
         "trigin" \notin crossed =>
            /\ Rising(wire', "trigin") /\ Within(wire', "trigin", shown..ver)
            /\ sp' \in Sending /\ spVer' = spVer => Within(wire', "trigin", 0..spVer)
            /\ wb \notin Unsent => Within(wire', "trigin", {ver})
  PROVE  TriginInv'
<1>1. shown \in Nat /\ ver \in Nat
  BY DEF Types, TypeOK, Version
<1>2. ASSUME "trigin" \notin crossed' 
      PROVE  /\ shown <= ver /\ Rising(wire', "trigin")
             /\ Within(wire', "trigin", shown..ver) /\ Within(acks, "trigin", 0..shown)
             /\ sp' \in Sending => spVer' \in shown..ver /\ Within(wire', "trigin", 0..spVer')
  <2>1. /\ shown <= ver /\ Within(acks, "trigin", 0..shown)
        /\ sp \in Sending => spVer \in shown..ver
    BY <1>2 DEF TriginInv
  <2>2. Within(wire', "trigin", 0..ver)
    BY <1>1, <1>2 DEF Within
  <2>. QED  BY <1>1, <1>2, <2>1, <2>2
<1>3. ASSUME "trigin" \notin crossed', wb' \notin Unsent
      PROVE  /\ Within(wire', "trigin", {ver}) /\ Within(acks, "trigin", {ver})
             /\ sp' \in Sending => spVer' = ver
             /\ flag'["trigin"] => shown = ver
  BY <1>3 DEF TriginInv
<1>. QED  BY <1>2, <1>3 DEF TriginInv

\* The same of a step that does not touch the link.
LEMMA TriginSame ==
  ASSUME Types, TriginInv, UNCHANGED <<wire, acks, shown, ver>>,
         "trigin" \in crossed => "trigin" \in crossed', flag'["trigin"] => flag["trigin"],
         wb' \in (Unsent \ {"state"}) \cup {"triginPost"} => wbVer' = ver,
         wb \in Unsent => wb' \in Unsent,
         sp' \in Sending => spVer' = ver \/ (sp \in Sending /\ spVer' = spVer)
  PROVE  TriginInv'
<1>1. shown \in Nat /\ ver \in Nat
  BY DEF Types, TypeOK, Version
<1>2. ASSUME "trigin" \notin crossed
      PROVE  /\ Rising(wire', "trigin") /\ Within(wire', "trigin", shown..ver)
             /\ sp' \in Sending /\ spVer' = spVer => Within(wire', "trigin", 0..spVer)
             /\ wb \notin Unsent => Within(wire', "trigin", {ver})
  <2>1. wire' = wire /\ Within(wire, "trigin", shown..ver) /\ Rising(wire, "trigin")
    BY <1>2 DEF TriginInv
  <2>2. Within(wire, "trigin", 0..ver)
    BY <1>1, <2>1 DEF Within
  <2>. QED  BY <1>2, <2>1, <2>2 DEF TriginInv
<1>. QED  BY <1>2, TriginKept

\* A packet of another kind.
LEMMA OtherPosted ==
  ASSUME Types, TriginInv, NEW j \in Kind \ {"trigin"}, NEW v \in Version,
         NEW wants \in BOOLEAN, Post(j, v, wants), flag' = flag, ver' = ver,
         wb' \in (Unsent \ {"state"}) \cup {"triginPost"} => wbVer' = ver,
         wb \in Unsent => wb' \in Unsent,
         sp' \in Sending => sp \in Sending /\ spVer' = spVer
  PROVE  TriginInv'
<1>1. TypeOK /\ "trigin" \in Tracked /\ j \in Kind
  BY DEF Types, Tracked
<1>2. /\ \A V : Within(wire, "trigin", V) => Within(wire', "trigin", V)
      /\ Rising(wire, "trigin") => Rising(wire', "trigin")
  BY <1>1, PostWithin, PostRising
<1>3. UNCHANGED <<acks, shown, crossed>>
  BY DEF Post
<1>4. ASSUME "trigin" \notin crossed
      PROVE  /\ Rising(wire', "trigin") /\ Within(wire', "trigin", shown..ver)
             /\ sp' \in Sending /\ spVer' = spVer => Within(wire', "trigin", 0..spVer)
             /\ wb \notin Unsent => Within(wire', "trigin", {ver})
  BY <1>2, <1>4 DEF TriginInv
<1>. QED  BY <1>3, <1>4, TriginKept

LEMMA VersionTypes ==
  ASSUME Types
  PROVE  /\ ver \in Version /\ wbVer \in Version /\ spVer \in Version /\ 0 \in Version
         /\ ver \in Nat /\ shown \in Nat /\ flag \in [Kind -> BOOLEAN]
<1>1. ver \in Version /\ wbVer \in Version /\ spVer \in Version /\ shown \in Version
  BY DEF Types, TypeOK
<1>2. flag \in [Kind -> BOOLEAN]
  BY DEF Types, TypeOK
<1>. QED  BY <1>1, <1>2, NoVersion DEF Version

LEMMA TriginWatchBoard == "trigin" \in Reports /\ Types /\ TriginInv /\ WatchBoard => TriginInv'
<1>. SUFFICES ASSUME "trigin" \in Reports, Types, TriginInv, WatchBoard PROVE TriginInv'
  OBVIOUS
<1>0. /\ TypeOK /\ "trigin" \in Tracked /\ "trigin" \in Kind /\ {"state", "alarm"} \subseteq Kind \ {"trigin"}
      /\ wbVer \in Version /\ ver \in Nat /\ shown \in Nat /\ flag \in [Kind -> BOOLEAN]
  BY VersionTypes DEF Types, Tracked, Kind
<1>. USE DEF sendVars, inVars, gwVars, wbVars, spVars, linkVars
<1>1. CASE WbRead
  <2>1. /\ UNCHANGED <<wire, acks, shown, crossed, flag, sp, spVer, wbVer>>
        /\ wb = "read" /\ \/ wb' = "state" /\ ver' = ver + 1
                          \/ wb' = "trig" /\ ver' = ver
    BY <1>1 DEF WbRead
  <2>2. CASE ver' = ver
    BY <2>1, <2>2, TriginSame DEF Unsent
  <2>3. CASE wb' = "state" /\ ver' = ver + 1
    <3>1. "trigin" \notin crossed => Within(wire, "trigin", shown..ver + 1)
      BY <1>0 DEF TriginInv, Within
    <3>2. "trigin" \notin crossed /\ sp \in Sending => spVer \in shown..ver + 1
      BY <1>0 DEF TriginInv
    <3>3. "trigin" \notin crossed => shown <= ver + 1
      BY <1>0 DEF TriginInv
    <3>. QED  BY <2>1, <2>3, <3>1, <3>2, <3>3 DEF TriginInv, Unsent
  <2>. QED  BY <2>1, <2>2, <2>3
<1>2. CASE WbState
  <2>1. /\ UNCHANGED <<wire, acks, shown, ver, crossed, flag, sp, spVer>>
        /\ wbVer' = ver /\ wb' \in Unsent
    BY <1>2 DEF WbState, Unsent
  <2>. QED  BY <2>1, TriginSame
<1>3. CASE WbStateSame \/ WbTrig \/ WbAlarm
  <2>1. /\ UNCHANGED <<wire, acks, shown, ver, crossed, flag, sp, spVer>>
        /\ wb' \in (Unsent \ {"state"}) \cup {"triginPost"} => wbVer' = ver
        /\ wb \in Unsent => wb' \in Unsent
    BY <1>3 DEF WbStateSame, WbTrig, WbAlarm, TriginInv, Unsent
  <2>. QED  BY <2>1, TriginSame
<1>4. CASE WbStateFlag \/ WbAlarmFlag
  <2>1. /\ UNCHANGED <<wire, acks, shown, ver, sp, spVer>>
        /\ "trigin" \in crossed' <=> "trigin" \in crossed
        /\ flag'["trigin"] = flag["trigin"]
        /\ wb' \in (Unsent \ {"state"}) \cup {"triginPost"} => wbVer' = ver
        /\ wb \in Unsent => wb' \in Unsent
    BY <1>4, LowerOther DEF WbStateFlag, WbAlarmFlag, TriginInv, Unsent
  <2>. QED  BY <2>1, TriginSame
<1>5. CASE WbStatePost \/ WbAlarmPost
  <2>1. \E j \in Kind \ {"trigin"} : Post(j, wbVer, TRUE)
    BY <1>0, <1>5 DEF WbStatePost, WbAlarmPost
  <2>2. /\ flag' = flag /\ ver' = ver /\ sp' = sp /\ spVer' = spVer
        /\ wb' \in (Unsent \ {"state"}) \cup {"triginPost"} => wbVer' = ver
        /\ wb \in Unsent => wb' \in Unsent
    BY <1>5 DEF WbStatePost, WbAlarmPost, TriginInv, Unsent
  <2>. QED  BY <1>0, <2>1, <2>2, OtherPosted
<1>6. CASE WbTrigin
  <2>1. /\ wb' = "triginPost" /\ wbVer' = ver /\ wbVer = ver
        /\ UNCHANGED <<wire, acks, shown, ver, sp, spVer>>
        /\ "trigin" \in crossed => "trigin" \in crossed'
    BY <1>6 DEF WbTrigin, TriginInv, Lower, Unsent
  <2>2. ~flag'["trigin"]
    BY <1>0, <1>6 DEF WbTrigin, Lower
  <2>3. ASSUME "trigin" \notin crossed'
        PROVE  /\ Within(wire, "trigin", {ver}) /\ Within(acks, "trigin", {ver})
               /\ sp \notin Sending
    <3>1. ~Under("trigin", ver) /\ ~SpSends("trigin")
      BY <1>0, <1>6, <2>1, <2>3 DEF WbTrigin, Lower
    <3>. QED  BY <3>1 DEF Under, SpSends, Within, Sending
  <2>4. ASSUME "trigin" \notin crossed'
        PROVE  /\ shown <= ver /\ Rising(wire, "trigin")
               /\ Within(wire, "trigin", shown..ver) /\ Within(acks, "trigin", 0..shown)
    BY <2>1, <2>4 DEF TriginInv
  <2>. QED  BY <2>1, <2>2, <2>3, <2>4 DEF TriginInv
<1>7. CASE WbTriginPost
  <2>1. /\ wb = "triginPost" /\ wb' = "trig" /\ Post("trigin", ver, TRUE) /\ ver \in Version
        /\ UNCHANGED <<acks, shown, ver, crossed, flag, sp, spVer>>
    BY <1>0, <1>7 DEF WbTriginPost, TriginInv, Post
  <2>2. ASSUME "trigin" \notin crossed
        PROVE  /\ Rising(wire', "trigin") /\ Within(wire', "trigin", shown..ver)
               /\ sp' \in Sending /\ spVer' = spVer => Within(wire', "trigin", 0..spVer)
               /\ Within(wire', "trigin", {ver})
    <3>1. /\ Rising(wire, "trigin") /\ Within(wire, "trigin", {ver}) /\ shown <= ver
          /\ sp \in Sending => spVer = ver
      BY <2>1, <2>2 DEF TriginInv, Unsent
    <3>2. Within(wire, "trigin", 0..ver)
      BY <1>0, <3>1 DEF Within
    <3>3. Rising(wire', "trigin") /\ Within(wire', "trigin", {ver})
      BY <1>0, <2>1, <3>1, <3>2, PostRising, PostWithin
    <3>4. Within(wire', "trigin", shown..ver) /\ Within(wire', "trigin", 0..ver)
      BY <1>0, <3>1, <3>3 DEF Within
    <3>. QED  BY <2>1, <3>1, <3>3, <3>4
  <2>3. wb \notin Unsent /\ wb' \notin (Unsent \ {"state"}) \cup {"triginPost"}
    BY <2>1 DEF Unsent
  <2>. QED  BY <2>1, <2>2, <2>3, TriginKept
<1>. QED  BY <1>1, <1>2, <1>3, <1>4, <1>5, <1>6, <1>7 DEF WatchBoard

LEMMA TriginWatchProcess ==
  "trigin" \in Reports /\ Types /\ TriginInv /\ WatchProcess => TriginInv'
<1>. SUFFICES ASSUME "trigin" \in Reports, Types, TriginInv, WatchProcess PROVE TriginInv'
  OBVIOUS
<1>0. /\ TypeOK /\ "trigin" \in Tracked /\ "trigin" \in Kind
      /\ {"regist", "state", "alarm"} \subseteq Kind \ {"trigin"}
      /\ spVer \in Version /\ 0 \in Version /\ ver \in Nat /\ shown \in Nat
      /\ flag \in [Kind -> BOOLEAN]
  BY VersionTypes DEF Types, Tracked, Kind
<1>00. wb \in (Unsent \ {"state"}) \cup {"triginPost"} => wbVer = ver
  BY DEF TriginInv
<1>. USE DEF sendVars, inVars, gwVars, wbVars, spVars, linkVars
<1>1. CASE SpCheck \/ SpState \/ SpAlarm \/ SpTrigin
  <2>1. /\ UNCHANGED <<wire, acks, shown, ver, crossed, flag, wb, wbVer>>
        /\ sp' \in Sending => spVer' = ver
    BY <1>1 DEF SpCheck, SpState, SpTrigin, SpAlarm, Tick, Sending
  <2>. QED  BY <1>00, <2>1, TriginSame
<1>2. CASE SpStateFlag \/ SpAlarmFlag
  <2>1. /\ UNCHANGED <<wire, acks, shown, ver, wb, wbVer>> /\ sp' \notin Sending
        /\ "trigin" \in crossed' <=> "trigin" \in crossed
        /\ flag'["trigin"] = flag["trigin"]
    BY <1>2, LowerOther DEF SpStateFlag, SpAlarmFlag, Sending
  <2>. QED  BY <1>00, <2>1, TriginSame
<1>3. CASE SpTriginFlag
  <2>1. /\ UNCHANGED <<wire, acks, shown, ver, wb, wbVer, spVer>> /\ sp \in Sending
        /\ "trigin" \in crossed => "trigin" \in crossed'
        /\ ~flag'["trigin"]
    BY <1>0, <1>3 DEF SpTriginFlag, Lower, Sending
  <2>. QED  BY <1>00, <2>1, TriginSame
<1>4. CASE SpRegistPost \/ SpStatePost \/ SpAlarmPost
  <2>1. \E j \in Kind \ {"trigin"}, v \in Version : Post(j, v, TRUE)
    BY <1>0, <1>4 DEF SpRegistPost, SpStatePost, SpAlarmPost
  <2>2. UNCHANGED <<flag, ver, wb, wbVer>> /\ sp' \notin Sending
    BY <1>4 DEF SpRegistPost, SpStatePost, SpAlarmPost, Sending
  <2>. QED  BY <1>0, <1>00, <2>1, <2>2, OtherPosted
<1>5. CASE SpTriginPost
  <2>1. /\ sp \in Sending /\ sp' \notin Sending /\ Post("trigin", spVer, TRUE)
        /\ UNCHANGED <<acks, shown, ver, crossed, flag, wb, wbVer>>
    BY <1>5 DEF SpTriginPost, Post, Sending
  <2>2. ASSUME "trigin" \notin crossed
        PROVE  /\ Rising(wire', "trigin") /\ Within(wire', "trigin", shown..ver)
               /\ wb \notin Unsent => Within(wire', "trigin", {ver})
    <3>1. /\ Rising(wire, "trigin") /\ Within(wire, "trigin", shown..ver)
          /\ spVer \in shown..ver /\ Within(wire, "trigin", 0..spVer)
          /\ wb \notin Unsent => Within(wire, "trigin", {ver}) /\ spVer = ver
      BY <2>1, <2>2 DEF TriginInv
    <3>. QED  BY <1>0, <2>1, <3>1, PostRising, PostWithin
  <2>. QED  BY <1>00, <2>1, <2>2, TriginKept
<1>. QED  BY <1>1, <1>2, <1>3, <1>4, <1>5 DEF WatchProcess

LEMMA TriginLink ==
  "trigin" \in Reports /\ Types /\ TriginInv
     /\ (Lose \/ UsrAckCmd \/ \E ok \in BOOLEAN : Deliver(ok)) => TriginInv'
<1>. SUFFICES ASSUME "trigin" \in Reports, Types, TriginInv,
                     Lose \/ UsrAckCmd \/ \E ok \in BOOLEAN : Deliver(ok)
              PROVE  TriginInv'
  OBVIOUS
<1>0. /\ TypeOK /\ wire \in Seq(Packet) /\ acks \in Seq(Ack)
      /\ Len(acks) <= WireMax /\ flag \in [Kind -> BOOLEAN] /\ ver \in Nat /\ shown \in Nat
  <2>1. ver \in Version /\ shown \in Version /\ TypeOK
    BY DEF Types, TypeOK
  <2>2. ver \in Nat /\ shown \in Nat
    BY <2>1 DEF Version
  <2>. QED  BY <2>1, <2>2 DEF TypeOK
<1>. USE DEF sendVars, inVars, gwVars, wbVars, spVars
<1>1. CASE Lose
  <2>1. From(wire', wire, Packet) /\ From(acks', acks, Ack)
    BY <1>0, <1>1, LoseFrom
  <2>2. /\ \A V : Within(wire, "trigin", V) => Within(wire', "trigin", V)
        /\ \A V : Within(acks, "trigin", V) => Within(acks', "trigin", V)
        /\ Rising(wire, "trigin") => Rising(wire', "trigin")
    BY <1>0, <2>1, WithinFrom, RisingFrom
  <2>3. UNCHANGED <<shown, crossed, flag, ver, wb, wbVer, sp, spVer>>
    BY <1>1 DEF Lose
  <2>. QED  BY <2>2, <2>3 DEF TriginInv
<1>2. CASE UsrAckCmd
  <2>1. acks # <<>> /\ acks' = Tail(acks) /\ Head(acks) \in Ack
    BY <1>0, <1>2 DEF UsrAckCmd
  <2>2. \A V : Within(acks, "trigin", V) =>
                 Within(acks', "trigin", V) /\ (Head(acks).kind = "trigin" => Head(acks).ver \in V)
    BY <1>0, <2>1, WithinTail
  <2>3. flag'["trigin"] => flag["trigin"] \/ Head(acks).kind = "trigin"
    BY <1>0, <1>2, <2>1 DEF UsrAckCmd, Ack
  <2>4. UNCHANGED <<wire, shown, crossed, ver, wb, wbVer, sp, spVer>>
    BY <1>2 DEF UsrAckCmd
  <2>5. ASSUME "trigin" \notin crossed, wb \notin Unsent, Head(acks).kind = "trigin"
        PROVE  shown = ver
    <3>1. Head(acks).ver \in {ver} /\ Head(acks).ver \in 0..shown /\ shown <= ver
      BY <2>2, <2>5 DEF TriginInv
    <3>. QED  BY <1>0, <3>1
  <2>. QED  BY <2>2, <2>3, <2>4, <2>5 DEF TriginInv
<1>3. ASSUME NEW ok \in BOOLEAN, Deliver(ok) PROVE TriginInv'
  <2>1. wire # <<>> /\ wire' = Tail(wire) /\ Hear(Head(wire)) /\ Head(wire) \in Packet
    BY <1>0, <1>3 DEF Deliver
  <2>2. \A V : Within(wire, "trigin", V) =>
                 Within(wire', "trigin", V) /\ (Head(wire).kind = "trigin" => Head(wire).ver \in V)
    BY <1>0, <2>1, WithinTail
  <2>3. Rising(wire, "trigin") => Rising(wire', "trigin")
    BY <1>0, <2>1, TailFrom, RisingFrom
  <2>. DEFINE a == [kind |-> Head(wire).kind, ver |-> Head(wire).ver, ok |-> ok]
  <2>4. a \in Ack /\ (acks' = acks \/ acks' = Put(acks, a))
    BY <1>3, <2>1 DEF Deliver, Packet, Ack
  <2>5. a.kind = Head(wire).kind /\ a.ver = Head(wire).ver
    OBVIOUS
  <2>. HIDE DEF a
  <2>6. ASSUME NEW V, Within(acks, "trigin", V), Head(wire).kind = "trigin" => Head(wire).ver \in V
        PROVE  Within(acks', "trigin", V)
    BY <1>0, <2>4, <2>5, <2>6, WithinPut
  <2>7. UNCHANGED <<crossed, flag, ver, wb, wbVer, sp, spVer>>
    BY <1>3 DEF Deliver
  <2>8. CASE Head(wire).kind # "trigin"
    <3>1. shown' = shown
      BY <2>1, <2>8 DEF Hear
    <3>. QED  BY <2>2, <2>3, <2>6, <2>7, <2>8, <3>1 DEF TriginInv
  <2>9. CASE Head(wire).kind = "trigin"
    <3>1. shown' = Head(wire).ver /\ shown' \in Nat
      BY <2>1, <2>9 DEF Hear, Packet, Version
    <3>2. ASSUME "trigin" \notin crossed
          PROVE  /\ shown' <= ver /\ Rising(wire', "trigin")
                 /\ Within(wire', "trigin", shown'..ver) /\ Within(acks', "trigin", 0..shown')
                 /\ sp \in Sending => spVer \in shown'..ver /\ Within(wire', "trigin", 0..spVer)
      <4>1. /\ Rising(wire, "trigin") /\ Within(wire, "trigin", shown..ver)
            /\ Within(acks, "trigin", 0..shown)
            /\ sp \in Sending => spVer \in shown..ver /\ Within(wire, "trigin", 0..spVer)
        BY <3>2 DEF TriginInv
      <4>2. shown' \in shown..ver /\ (sp \in Sending => shown' \in 0..spVer)
        BY <2>2, <2>9, <3>1, <4>1
      <4>3. Within(wire', "trigin", {v \in shown..ver : Head(wire).ver <= v})
        BY <1>0, <2>1, <2>9, <4>1, RisingTail
      <4>4. Within(wire', "trigin", shown'..ver)
        BY <1>0, <3>1, <4>3 DEF Within
      <4>5. Within(acks, "trigin", 0..shown') /\ shown' \in 0..shown'
        BY <1>0, <3>1, <4>1, <4>2 DEF Within
      <4>6. Within(acks', "trigin", 0..shown')
        BY <2>6, <3>1, <4>5
      <4>. QED  BY <1>0, <2>2, <2>3, <3>1, <4>1, <4>2, <4>4, <4>6
    <3>3. ASSUME "trigin" \notin crossed, wb \notin Unsent
          PROVE  /\ Within(wire', "trigin", {ver}) /\ Within(acks', "trigin", {ver})
                 /\ sp \in Sending => spVer = ver
                 /\ shown' = ver
      <4>1. /\ Within(wire, "trigin", {ver}) /\ Within(acks, "trigin", {ver})
            /\ sp \in Sending => spVer = ver
        BY <3>3 DEF TriginInv
      <4>. QED  BY <2>2, <2>6, <2>9, <3>1, <4>1
    <3>. QED  BY <2>7, <3>2, <3>3 DEF TriginInv
  <2>. QED  BY <2>8, <2>9
<1>. QED  BY <1>1, <1>2, <1>3

LEMMA TriginNext == "trigin" \in Reports /\ Types /\ TriginInv /\ [Next]_vars => TriginInv'
<1>. SUFFICES ASSUME "trigin" \in Reports, Types, TriginInv, [Next]_vars PROVE TriginInv'
  OBVIOUS
<1>0. /\ "state" \in Kind \ {"trigin"} /\ ver \in Version /\ flag \in [Kind -> BOOLEAN]
      /\ gwVer \in Version
      /\ wb \in (Unsent \ {"state"}) \cup {"triginPost"} => wbVer = ver
  BY DEF Types, TypeOK, Kind, TriginInv
<1>1. CASE QueryState
  BY <1>0, <1>1, OtherPosted DEF QueryState, inVars, gwVars, wbVars, spVars
<1>2. CASE Unregister \/ UNCHANGED vars
  <2>1. /\ UNCHANGED <<wire, acks, shown, crossed, ver, wb, wbVer, sp, spVer>>
        /\ flag'["trigin"] = flag["trigin"]
    BY <1>0, <1>2 DEF Unregister, vars, sendVars, inVars, gwVars, wbVars, spVars, linkVars
  <2>. QED  BY <1>0, <2>1, TriginSame
<1>3. CASE GwState \/ GwStateFlag
  <2>1. /\ UNCHANGED <<wire, acks, shown, crossed, ver, wb, wbVer, sp, spVer>>
        /\ flag'["trigin"] = flag["trigin"]
    BY <1>0, <1>3 DEF GwState, GwStateFlag, Lower, Tracked, sendVars, inVars, wbVars, spVars, linkVars
  <2>. QED  BY <1>0, <2>1, TriginSame
<1>4. CASE GwStatePost
  BY <1>0, <1>4, OtherPosted DEF GwStatePost, inVars, wbVars, spVars
<1>. QED  BY <1>1, <1>2, <1>3, <1>4, TriginWatchBoard, TriginWatchProcess, TriginLink DEF Next

\* A raised input report flag is true: the last report the gateway heard is the
\* inputs as they are, once the watch-board thread has dealt with them and unless
\* two reports were under way together.
THEOREM InputsHonest == "trigin" \in Reports => (Spec => []TriginFlagHonest)
<1>. SUFFICES ASSUME "trigin" \in Reports PROVE Spec => []TriginFlagHonest
  OBVIOUS
<1>1. Init => Types /\ TriginInv
  BY TypesInit, TriginInit
<1>2. Types /\ TriginInv /\ [Next]_vars => (Types /\ TriginInv)'
  BY TypesNext, TriginNext
<1>3. TriginInv => TriginFlagHonest
  BY DEF TriginInv, TriginFlagHonest, Unsent
<1>. QED  BY <1>1, <1>2, <1>3, PTL DEF Spec
================================================================================
