------------------------------ MODULE PktLinkProofs ------------------------------
(***************************************************************************)
(* What a receiver takes from one connection (PktLink), for every number   *)
(* of writers, messages and packets, and any room between the two.         *)
(***************************************************************************)
EXTENDS PktLink, TLAPS

\* The place of a cell in its packet.
Place(d) == CASE d.part = "sync" -> 1
              [] d.part = "head" -> 1 + d.half
              [] d.part = "msg"  -> 3 + d.half
              [] d.part = "crc"  -> 6
              [] OTHER           -> 6 + d.half

Of(w)  == todo[w][1].no
At(i)  == Place(stream[i].data)
Takens == {taken[i].no : i \in DOMAIN taken}

\* A cell under way is one of its packet, ...
CellOf(x) == /\ x.no \in 1..Len(begun)
             /\ \E k \in 1..8 : x.data = Packet(begun[x.no].msg)[k]

\* ... what a writer has left to write is the end of its packet, ...
LeftTo(w) ==
  todo[w] # <<>> =>
    /\ Len(todo[w]) \in 1..8 /\ Of(w) \in 1..Len(begun)
    /\ \A i \in 1..Len(todo[w]) :
         todo[w][i] = [data |-> Packet(begun[Of(w)].msg)[8 - Len(todo[w]) + i], no |-> Of(w)]

Made ==
  /\ \A i \in DOMAIN stream : CellOf(stream[i])
  /\ \A w \in Writer : LeftTo(w)
  /\ \A v, w \in Writer : todo[v] # <<>> /\ todo[w] # <<>> /\ Of(v) = Of(w) => v = w

\* ... a packet's cells are under way in their order, ...
Sorted ==
  /\ \A i, j \in DOMAIN stream : i < j /\ stream[i].no = stream[j].no => At(i) < At(j)
  /\ \A w \in Writer, i \in DOMAIN stream :
        todo[w] # <<>> /\ stream[i].no = Of(w) => At(i) < 9 - Len(todo[w])

\* ... and none of a packet that was whole when another was begun after one of that.
Fifo ==
  /\ \A w \in Writer : todo[w] # <<>> => Of(w) \notin whole
  /\ \A p \in 1..Len(begun) : begun[p].before \subseteq whole /\ begun[p].before \subseteq 1..(p - 1)
  /\ \A i, j \in DOMAIN stream : i < j => stream[j].no \notin begun[stream[i].no].before

\* What the call has is tested, and its message is that of the packet it is from.
Tested ==
  /\ \A j \in 1..3 : j <= Len(call) /\ (j = 1 \/ Len(call) >= 3) => Place(call[j]) = j
  /\ Len(call) >= 4 => /\ number \in 1..Len(begun)
                       /\ \E k \in 1..8 : call[4] = Packet(begun[number].msg)[k]

\* A packet is taken once: what was taken, or may yet be, is not under way.
Had == IF Len(call) >= 4 /\ Place(call[4]) = 4 THEN {number} ELSE {}
Past(p) ==
  /\ \A i \in DOMAIN stream : stream[i].no = p => At(i) # 4
  /\ \A w \in Writer : todo[w] # <<>> /\ Of(w) = p => Len(todo[w]) < 5
Once ==
  /\ \A i, j \in DOMAIN taken : taken[i].no = taken[j].no => i = j
  /\ \A i \in DOMAIN taken : /\ taken[i].no \in 1..Len(begun)
                             /\ taken[i].msg = MsgOf(begun[taken[i].no].msg)
  /\ \A p \in Takens \cup Had : Past(p)
  /\ \A p \in Had : p \notin Takens

\* Of packet p the receiver has read n cells: the next ones come in order.
Got(p, n) ==
  /\ \A i \in DOMAIN stream : stream[i].no = p =>
        /\ At(i) > n
        /\ At(i) > n + 1 => \E j \in 1..(i - 1) : stream[j].no = p /\ At(j) = At(i) - 1
  /\ \A w \in Writer : todo[w] # <<>> /\ Of(w) = p =>
        /\ 9 - Len(todo[w]) > n
        /\ 9 - Len(todo[w]) > n + 1 =>
             \E j \in DOMAIN stream : stream[j].no = p /\ At(j) = 8 - Len(todo[w])
  /\ p \in whole /\ n < 8 => \E j \in DOMAIN stream : stream[j].no = p /\ At(j) = 8
  /\ n > 0 => \A i \in DOMAIN stream : stream[i].no \notin begun[p].before

\* A call that may still succeed
Good(c) == \A j \in DOMAIN c : Place(c[j]) = j
GotBy(len) == IF len = 5 THEN {4, 5} ELSE IF len = 7 THEN 6..8 ELSE {len}

Counts(p, cur) == IF p \in Takens THEN 6..8
                  ELSE IF p = cur /\ call # <<>> THEN GotBy(Len(call)) ELSE {0}

Stands(cur) ==
  /\ call # <<>> => cur \in (1..Len(begun)) \ Takens
  /\ Len(call) >= 4 => number = cur
  /\ \A p \in 1..Len(begun) : \E g \in Counts(p, cur) : Got(p, g)

InStep ==
  "paused" \notin trouble /\ state # "closed" /\ Good(call) =>
     \E cur \in 0..Len(begun) : Stands(cur)

\* Without crossing packets the cells come one after the other.
After(d) == IF d = 8 THEN 1 ELSE d + 1
Due(e) == IF stream = <<>> THEN e ELSE After(At(Len(stream)))
Flow(e) ==
  /\ stream # <<>> => At(1) = e
  /\ \A i \in 1..(Len(stream) - 1) : At(i + 1) = After(At(i))
  /\ state = "open" =>
        /\ \A w \in Writer : Len(todo[w]) \in {0, 8, 9 - Due(e)}
        /\ Due(e) # 1 => \E w \in Writer : Len(todo[w]) = 9 - Due(e)
        /\ \A v, w \in Writer : Len(todo[v]) \in 1..7 /\ Len(todo[w]) \in 1..7 => v = w

\* A receiver that paused inside a packet does not find the start of one again.
Pace(e) ==
  /\ "paused" \in trouble => e # 1 /\ call = <<>>
  /\ call # <<>> => e = Len(call) + 1 \/ (e = Len(call) /\ e >= 5)

InTurn ==
  "crossed" \notin trouble /\ state # "closed" => \E e \in 1..8 : Flow(e) /\ Pace(e)

InOrder ==
  trouble # {"crossed", "paused"} =>
    \A i \in DOMAIN taken :
       begun[taken[i].no].before \subseteq {taken[j].no : j \in 1..(i - 1)}

Idle == state = "closed" => call = <<>> /\ ~calling

PInv == Made /\ Sorted /\ Fifo /\ Tested /\ Once /\ InStep /\ InTurn /\ InOrder /\ Idle

--------------------------------------------------------------------------------
(* Packets.                                                                  *)

\* The concatenation of two sequences of things.
Joined(s, t, u) ==
  /\ Len(u) = Len(s) + Len(t)
  /\ \A i \in 1..(Len(s) + Len(t)) : u[i] = IF i <= Len(s) THEN s[i] ELSE t[i - Len(s)]

LEMMA Concat ==
  ASSUME NEW S, NEW s \in Seq(S), NEW t \in Seq(S)
  PROVE  s \o t \in Seq(S) /\ Joined(s, t, s \o t)
BY DEF Joined

Size(m) == IF m \in Long THEN "long" ELSE "short"

LEMMA PartsAre ==
  ASSUME NEW m, NEW len
  PROVE  LET S == {SyncHead[1]} \cup {HeadOf(len)[i] : i \in 1..2} \cup {MsgOf(m)[i] : i \in 1..2}
                    \cup {CrcOf(m)[1]} \cup {PktTail[i] : i \in 1..2}
         IN  /\ SyncHead \in Seq(S) /\ HeadOf(len) \in Seq(S) /\ MsgOf(m) \in Seq(S)
             /\ CrcOf(m) \in Seq(S) /\ PktTail \in Seq(S)
             /\ Len(SyncHead) = 1 /\ Len(HeadOf(len)) = 2 /\ Len(MsgOf(m)) = 2
             /\ Len(CrcOf(m)) = 1 /\ Len(PktTail) = 2
BY DEF SyncHead, HeadOf, MsgOf, CrcOf, PktTail

LEMMA PacketIs ==
  ASSUME NEW m
  PROVE  /\ Packet(m) = [k \in 1..8 |-> Packet(m)[k]] /\ Len(Packet(m)) = 8
         /\ Packet(m)[1] = SyncHead[1]
         /\ Packet(m)[2] = HeadOf(Size(m))[1] /\ Packet(m)[3] = HeadOf(Size(m))[2]
         /\ Packet(m)[4] = MsgOf(m)[1] /\ Packet(m)[5] = MsgOf(m)[2]
         /\ Packet(m)[6] = CrcOf(m)[1]
         /\ Packet(m)[7] = PktTail[1] /\ Packet(m)[8] = PktTail[2]
<1>. DEFINE S == {SyncHead[1]} \cup {HeadOf(Size(m))[i] : i \in 1..2} \cup {MsgOf(m)[i] : i \in 1..2}
                    \cup {CrcOf(m)[1]} \cup {PktTail[i] : i \in 1..2}
            a == SyncHead \o HeadOf(Size(m))
            b == a \o MsgOf(m)
            c == b \o CrcOf(m)
<1>1. /\ SyncHead \in Seq(S) /\ HeadOf(Size(m)) \in Seq(S) /\ MsgOf(m) \in Seq(S)
      /\ CrcOf(m) \in Seq(S) /\ PktTail \in Seq(S)
      /\ Len(SyncHead) = 1 /\ Len(HeadOf(Size(m))) = 2 /\ Len(MsgOf(m)) = 2
      /\ Len(CrcOf(m)) = 1 /\ Len(PktTail) = 2
  BY PartsAre
<1>. HIDE DEF S
<1>2. a \in Seq(S) /\ Joined(SyncHead, HeadOf(Size(m)), a)
  BY <1>1, Concat, Zenon
<1>. HIDE DEF a
<1>3. b \in Seq(S) /\ Joined(a, MsgOf(m), b)
  BY <1>1, <1>2, Concat, Zenon
<1>. HIDE DEF b
<1>4. c \in Seq(S) /\ Joined(b, CrcOf(m), c)
  BY <1>1, <1>3, Concat, Zenon
<1>. HIDE DEF c
<1>5. c \o PktTail \in Seq(S) /\ Joined(c, PktTail, c \o PktTail)
  BY <1>1, <1>4, Concat, Zenon
<1>6. Packet(m) = c \o PktTail
  BY DEF Packet, Size, a, b, c
<1>7. Packet(m) \in Seq(S) /\ Joined(c, PktTail, Packet(m))
  BY <1>5, <1>6
<1>8. /\ Len(a) = 3 /\ a[1] = SyncHead[1]
      /\ a[2] = HeadOf(Size(m))[1] /\ a[3] = HeadOf(Size(m))[2]
  BY <1>1, <1>2 DEF Joined
<1>9. /\ Len(b) = 5 /\ b[1] = a[1] /\ b[2] = a[2] /\ b[3] = a[3]
      /\ b[4] = MsgOf(m)[1] /\ b[5] = MsgOf(m)[2]
  BY <1>1, <1>3, <1>8 DEF Joined
<1>10. Len(c) = 6 /\ (\A i \in 1..5 : c[i] = b[i]) /\ c[6] = CrcOf(m)[1]
  BY <1>1, <1>4, <1>9 DEF Joined
<1>11. /\ Len(Packet(m)) = 8 /\ \A i \in 1..6 : Packet(m)[i] = c[i]
       /\ Packet(m)[7] = PktTail[1] /\ Packet(m)[8] = PktTail[2]
  BY <1>1, <1>7, <1>10 DEF Joined
<1>12. Packet(m) = [k \in 1..8 |-> Packet(m)[k]]
  BY <1>7, <1>11
<1>. QED  BY <1>8, <1>9, <1>10, <1>11, <1>12

LEMMA PacketPlaces ==
  ASSUME NEW m, NEW k \in 1..8
  PROVE  Place(Packet(m)[k]) = k
<1>1. Place(SyncHead[1]) = 1 /\ Place(CrcOf(m)[1]) = 6
  BY DEF Place, Cell, SyncHead, CrcOf
<1>2. \A len : Place(HeadOf(len)[1]) = 2 /\ Place(HeadOf(len)[2]) = 3
  BY DEF Place, Cell, HeadOf
<1>3. Place(MsgOf(m)[1]) = 4 /\ Place(MsgOf(m)[2]) = 5
  BY DEF Place, Cell, MsgOf
<1>4. Place(PktTail[1]) = 7 /\ Place(PktTail[2]) = 8
  BY DEF Place, Cell, PktTail
<1>5. k = 1 \/ k = 2 \/ k = 3 \/ k = 4 \/ k = 5 \/ k = 6 \/ k = 7 \/ k = 8
  OBVIOUS
<1>. QED  BY <1>1, <1>2, <1>3, <1>4, <1>5, PacketIs

LEMMA CellsAre ==
  /\ \A m \in Message, k \in 1..8 : Packet(m)[k] \in Cells
  /\ \A c \in Cells : Place(c) \in 1..8
<1>1. \A m \in Message, k \in 1..8 : Packet(m)[k] \in Cells
  BY DEF Cells
<1>2. ASSUME NEW c \in Cells PROVE Place(c) \in 1..8
  <2>1. PICK m \in Message, k \in 1..8 : c = Packet(m)[k]
    BY DEF Cells
  <2>. QED  BY <2>1, PacketPlaces
<1>. QED  BY <1>1, <1>2

\* What a call that succeeds had.
LEMMA PassesIs ==
  ASSUME NEW c \in Seq(Cells), Passes(c)
  PROVE  /\ Len(c) = 1 => Place(c[1]) = 1
         /\ Len(c) = 3 => Place(c[2]) = 2 /\ Place(c[3]) = 3
         /\ Len(c) = 8 => /\ \A k \in 4..8 : Place(c[k]) = k
                          /\ \E m \in Message : c[4] = MsgOf(m)[1] /\ SubSeq(c, 4, 5) = MsgOf(m)
<1>1. ASSUME Len(c) = 1 PROVE Place(c[1]) = 1
  BY <1>1 DEF Passes, SyncHead, Place, Cell
<1>2. ASSUME Len(c) = 3 PROVE Place(c[2]) = 2 /\ Place(c[3]) = 3
  <2>1. SubSeq(c, 2, 3) = HeadOf("short")
    BY <1>2 DEF Passes
  <2>2. SubSeq(c, 2, 3)[1] = c[2] /\ SubSeq(c, 2, 3)[2] = c[3]
    BY <1>2
  <2>3. c[2] = HeadOf("short")[1] /\ c[3] = HeadOf("short")[2]
    BY <2>1, <2>2
  <2>. QED  BY <2>3 DEF Place, Cell, HeadOf
<1>3. ASSUME Len(c) = 8
      PROVE  /\ \A k \in 4..8 : Place(c[k]) = k
             /\ \E m \in Message : c[4] = MsgOf(m)[1] /\ SubSeq(c, 4, 5) = MsgOf(m)
  <2>1. SubSeq(c, 7, 8) = PktTail /\ \E m \in Message : SubSeq(c, 4, 6) = MsgOf(m) \o CrcOf(m)
    <3>1. Len(c) # 1 /\ Len(c) # 3
      BY <1>3
    <3>. QED  BY <1>3, <3>1, Zenon DEF Passes
  <2>2. PICK m \in Message : SubSeq(c, 4, 6) = MsgOf(m) \o CrcOf(m)
    BY <2>1
  <2>3. /\ (MsgOf(m) \o CrcOf(m))[1] = MsgOf(m)[1] /\ (MsgOf(m) \o CrcOf(m))[2] = MsgOf(m)[2]
        /\ (MsgOf(m) \o CrcOf(m))[3] = CrcOf(m)[1]
    <3>. DEFINE S == {MsgOf(m)[i] : i \in 1..2} \cup {CrcOf(m)[1]}
    <3>1. /\ MsgOf(m) \in Seq(S) /\ CrcOf(m) \in Seq(S) /\ Len(MsgOf(m)) = 2 /\ Len(CrcOf(m)) = 1
      BY DEF MsgOf, CrcOf
    <3>. HIDE DEF S
    <3>2. Joined(MsgOf(m), CrcOf(m), MsgOf(m) \o CrcOf(m))
      BY <3>1, Concat, Zenon
    <3>. QED  BY <3>1, <3>2 DEF Joined
  <2>4. /\ SubSeq(c, 7, 8)[1] = c[7] /\ SubSeq(c, 7, 8)[2] = c[8]
        /\ SubSeq(c, 4, 6)[1] = c[4] /\ SubSeq(c, 4, 6)[2] = c[5] /\ SubSeq(c, 4, 6)[3] = c[6]
    BY <1>3
  <2>5. /\ c[4] = MsgOf(m)[1] /\ c[5] = MsgOf(m)[2] /\ c[6] = CrcOf(m)[1]
        /\ c[7] = PktTail[1] /\ c[8] = PktTail[2]
    BY <2>1, <2>2, <2>3, <2>4
  <2>6. /\ SubSeq(c, 4, 5) = [i \in 1..2 |-> SubSeq(c, 4, 5)[i]]
        /\ SubSeq(c, 4, 5)[1] = c[4] /\ SubSeq(c, 4, 5)[2] = c[5]
    BY <1>3
  <2>7. SubSeq(c, 4, 5) = MsgOf(m)
    <3>1. MsgOf(m) = [i \in 1..2 |-> MsgOf(m)[i]]
      BY DEF MsgOf
    <3>. QED  BY <2>5, <2>6, <3>1
  <2>8. \A k \in 4..8 : Place(c[k]) = k
    BY <2>5 DEF Place, Cell, MsgOf, CrcOf, PktTail
  <2>. QED  BY <2>5, <2>7, <2>8
<1>. QED  BY <1>1, <1>2, <1>3

--------------------------------------------------------------------------------
(* Sequences.                                                                *)

LEMMA FirstOf ==
  ASSUME NEW S, NEW s \in Seq(S), s # <<>>
  PROVE  /\ Len(s) \in Nat \ {0} /\ s[1] \in S /\ Head(s) = s[1]
         /\ Tail(s) \in Seq(S) /\ Len(Tail(s)) = Len(s) - 1
         /\ \A i \in 1..(Len(s) - 1) : Tail(s)[i] = s[i + 1]
OBVIOUS

LEMMA Added ==
  ASSUME NEW S, NEW s \in Seq(S), NEW x \in S
  PROVE  /\ Len(s) \in Nat /\ Append(s, x) \in Seq(S) /\ Len(Append(s, x)) = Len(s) + 1
         /\ \A i \in 1..Len(s) : Append(s, x)[i] = s[i]
         /\ Append(s, x)[Len(s) + 1] = x
OBVIOUS

LEMMA LenUpTo ==
  ASSUME NEW S, NEW s \in Seq(S), Len(s) < 8
  PROVE  Len(s) \in {0, 1, 2, 3, 4, 5, 6, 7}
<1>. DEFINE n == Len(s)
<1>1. n \in Nat /\ n < 8
  OBVIOUS
<1>. HIDE DEF n
<1>2. n \in {0, 1, 2, 3, 4, 5, 6, 7}
  BY <1>1
<1>. QED  BY <1>2 DEF n

--------------------------------------------------------------------------------
(* Types.                                                                    *)

Sane == MaxSent \in Nat /\ Room \in Nat
Item == [data : Cells, no : 1..MaxSent]
Note == [msg : Message, before : SUBSET (1..MaxSent)]
Pack == [no : 1..MaxSent, msg : Seq(Cells)]

LEMMA TypesAre ==
  TypeOK => /\ stream \in Seq(Item) /\ todo \in [Writer -> Seq(Item)] /\ call \in Seq(Cells)
            /\ begun \in Seq(Note) /\ taken \in Seq(Pack)
BY DEF TypeOK, Item, Note, Pack

LEMMA InitTypes == Sane /\ Init => TypeOK
<1>. SUFFICES ASSUME Sane, Init PROVE TypeOK
  OBVIOUS
<1>1. \A S : <<>> \in Seq(S)
  OBVIOUS
<1>2. Len(stream) <= Room /\ Len(call) < 8
  BY DEF Init, Sane
<1>3. todo \in [Writer -> Seq(Item)]
  BY <1>1 DEF Init
<1>4. stream \in Seq(Item) /\ call \in Seq(Cells) /\ begun \in Seq(Note) /\ taken \in Seq(Pack)
  BY <1>1 DEF Init
<1>5. number \in 0..MaxSent
  BY DEF Init, Sane
<1>. QED  BY <1>2, <1>3, <1>4, <1>5 DEF Init, TypeOK, Item, Note, Pack

\* What a read leaves: the call goes on, fails, or has a packet.
Goes(c) == /\ call' = c /\ Len(c) < 8 /\ (Len(c) \in Full => Passes(c))
           /\ UNCHANGED <<state, calling, taken>>
Has(c) == Len(c) = 8 /\ Passes(c) /\ Take(c)
Outcome(c) == Goes(c) \/ Fail \/ Has(c)

LEMMA PartReadIs ==
  ASSUME NEW c, Len(c) \in 1..8, PartRead(c)
  PROVE  Outcome(c)
<1>. DEFINE n == Len(c)
<1>1. n \in 1..8
  OBVIOUS
<1>2. CASE ~Passes(c)
  BY <1>2 DEF PartRead, Outcome
<1>3. CASE Passes(c) /\ n = 8
  BY <1>3 DEF PartRead, Outcome, Has
<1>4. CASE Passes(c) /\ n # 8
  <2>1. call' = c /\ UNCHANGED <<state, calling, taken>>
    BY <1>4 DEF PartRead
  <2>. HIDE DEF n
  <2>2. n < 8
    BY <1>1, <1>4
  <2>. QED  BY <1>4, <2>1, <2>2 DEF Outcome, Goes, n
<1>. QED  BY <1>2, <1>3, <1>4

\* A step that reads cell x, so that the call has c.
ReadStep(c, x) ==
  /\ c = Append(call, x) /\ x \in Cells /\ c \in Seq(Cells) /\ Len(c) = Len(call) + 1
  /\ \A i \in 1..Len(call) : c[i] = call[i]
  /\ c[Len(c)] = x
  /\ calling /\ Outcome(c)
  /\ UNCHANGED <<todo, begun, whole, trouble>>

LEMMA AppendIs ==
  ASSUME TypeOK, NEW x \in Cells
  PROVE  LET c == Append(call, x)
         IN  /\ c \in Seq(Cells) /\ Len(c) = Len(call) + 1 /\ Len(c) \in 1..8
             /\ \A i \in 1..Len(call) : c[i] = call[i]
             /\ c[Len(c)] = x
<1>. DEFINE c == Append(call, x)
            n == Len(call)
<1>1. n \in Nat /\ n < 8
  BY TypesAre DEF TypeOK
<1>2. /\ c \in Seq(Cells) /\ Len(c) = n + 1
      /\ \A i \in 1..Len(call) : c[i] = call[i]
      /\ c[n + 1] = x
  BY TypesAre, Added
<1>. HIDE DEF n
<1>3. n + 1 \in 1..8
  BY <1>1
<1>. QED  BY <1>2, <1>3 DEF n

LEMMA ReadIs ==
  ASSUME TypeOK, Read
  PROVE  /\ stream # <<>> /\ stream' = Tail(stream)
         /\ ReadStep(Append(call, stream[1].data), stream[1].data)
         /\ number' = IF Len(call) = 3 THEN stream[1].no ELSE number
<1>. DEFINE c == Append(call, stream[1].data)
<1>1. stream # <<>> /\ stream' = Tail(stream) /\ calling
  BY DEF Read
<1>2. Head(stream) = stream[1] /\ stream[1] \in Item
  BY <1>1, TypesAre, FirstOf
<1>3. stream[1].data \in Cells
  BY <1>2 DEF Item
<1>4. /\ c \in Seq(Cells) /\ Len(c) = Len(call) + 1 /\ Len(c) \in 1..8
      /\ \A i \in 1..Len(call) : c[i] = call[i]
      /\ c[Len(c)] = stream[1].data
  BY <1>3, AppendIs
<1>5. IF Len(c) \in Full THEN PartRead(c)
      ELSE call' = c /\ UNCHANGED <<state, calling, taken>>
  BY <1>2 DEF Read
<1>6. Outcome(c)
  <2>1. CASE Len(c) \in Full
    BY <1>4, <1>5, <2>1, PartReadIs
  <2>2. CASE Len(c) \notin Full
    <3>. DEFINE n == Len(c)
    <3>1. n \in 1..8 /\ n # 8
      BY <1>4, <2>2 DEF Full
    <3>. HIDE DEF n
    <3>2. n < 8
      BY <3>1
    <3>. QED  BY <1>5, <2>2, <3>2 DEF Outcome, Goes, n
  <2>. QED  BY <2>1, <2>2
<1>. QED  BY <1>1, <1>2, <1>3, <1>4, <1>6 DEF Read, ReadStep

LEMMA ReadsShortIs ==
  ASSUME TypeOK, ReadsShort
  PROVE  /\ UNCHANGED <<stream, todo, number, begun, whole, trouble>>
         /\ stream = <<>> /\ state = "open" /\ calling
         /\ Fail \/ (Len(call) \in {4, 7} /\ \E x \in Cells : ReadStep(Append(call, x), x))
<1>1. Len(call) \in {2, 4, 7}
  BY TypesAre, LenUpTo DEF ReadsShort, TypeOK, Full
<1>2. CASE Len(call) = 2
  BY <1>1, <1>2 DEF ReadsShort
<1>3. CASE Len(call) # 2
  <2>1. PICK x \in Cells : PartRead(Append(call, x))
    BY <1>3 DEF ReadsShort
  <2>2. Outcome(Append(call, x))
    BY <2>1, AppendIs, PartReadIs
  <2>3. ReadStep(Append(call, x), x)
    BY <2>2, AppendIs DEF ReadsShort, ReadStep
  <2>. QED  BY <1>1, <1>3, <2>3 DEF ReadsShort
<1>. QED  BY <1>2, <1>3

\* A call's result has its type.
LEMMA OutcomeTypes ==
  ASSUME TypeOK, NEW c, NEW x, ReadStep(c, x), Len(call) >= 4 => number \in 1..MaxSent
  PROVE  /\ state' \in {"open", "hung", "closed"} /\ calling' \in BOOLEAN
         /\ call' \in Seq(Cells) /\ Len(call') < 8 /\ (~calling' => call' = <<>>)
         /\ taken' \in Seq(Pack)
<1>1. CASE Goes(c)
  BY <1>1, TypesAre DEF ReadStep, Goes, TypeOK
<1>2. CASE Fail
  <2>1. Len(<<>>) < 8 /\ <<>> \in Seq(Cells)
    OBVIOUS
  <2>. QED  BY <1>2, <2>1, TypesAre DEF Fail
<1>3. CASE Has(c)
  <2>1. number \in 1..MaxSent
    <3>. DEFINE n == Len(call)
    <3>1. n \in Nat /\ n + 1 = 8
      BY <1>3, TypesAre DEF Has, ReadStep
    <3>. HIDE DEF n
    <3>2. n >= 4
      BY <3>1
    <3>. QED  BY <3>2 DEF n
  <2>2. SubSeq(c, 4, 5) \in Seq(Cells)
    BY <1>3 DEF Has, ReadStep
  <2>3. [no |-> number, msg |-> SubSeq(c, 4, 5)] \in Pack
    BY <2>1, <2>2 DEF Pack
  <2>4. taken' \in Seq(Pack)
    BY <1>3, <2>3, TypesAre, Added DEF Has, Take
  <2>5. Len(<<>>) < 8 /\ <<>> \in Seq(Cells)
    OBVIOUS
  <2>. QED  BY <1>3, <2>4, <2>5 DEF Has, Take, TypeOK
<1>. QED  BY <1>1, <1>2, <1>3 DEF Outcome, ReadStep

LEMMA BeginTypes ==
  ASSUME Sane, TypeOK, NEW w \in Writer, Begin(w)
  PROVE  TypeOK'
<1>1. PICK m \in Message :
        /\ todo' = [todo EXCEPT ![w] =
                      [i \in 1..8 |-> [data |-> Packet(m)[i], no |-> Len(begun) + 1]]]
        /\ begun' = Append(begun, [msg |-> m, before |-> whole])
  BY DEF Begin
<1>2. Len(begun) \in Nat /\ Len(begun) + 1 \in 1..MaxSent
  BY TypesAre DEF Begin, Sane
<1>3. [i \in 1..8 |-> [data |-> Packet(m)[i], no |-> Len(begun) + 1]] \in Seq(Item)
  <2>1. \A i \in 1..8 : [data |-> Packet(m)[i], no |-> Len(begun) + 1] \in Item
    BY <1>2, CellsAre DEF Item
  <2>. QED  BY <2>1
<1>4. todo' \in [Writer -> Seq(Item)]
  BY <1>1, <1>3, TypesAre
<1>5. whole \subseteq 1..Len(begun) /\ whole \in SUBSET (1..MaxSent)
  <2>. DEFINE n == Len(begun)
  <2>1. n \in Nat /\ n + 1 \in 1..MaxSent /\ MaxSent \in Nat /\ whole \subseteq 1..n
    BY <1>2 DEF Sane, TypeOK
  <2>. HIDE DEF n
  <2>2. \A p \in 1..n : p \in 1..MaxSent
    BY <2>1
  <2>. QED  BY <2>1, <2>2 DEF n
<1>6. [msg |-> m, before |-> whole] \in Note
  BY <1>5 DEF Note
<1>7. begun' \in Seq(Note) /\ Len(begun') = Len(begun) + 1
  BY <1>1, <1>6, TypesAre, Added
<1>8. whole \subseteq 1..Len(begun')
  BY <1>2, <1>5, <1>7
<1>. QED  BY <1>4, <1>7, <1>8 DEF Begin, TypeOK, Item, Note

LEMMA WriteTypes ==
  ASSUME Sane, TypeOK, NEW w \in Writer, Write(w), LeftTo(w)
  PROVE  TypeOK'
<1>1. todo[w] \in Seq(Item) /\ todo[w] # <<>>
  BY TypesAre DEF Write
<1>2. Head(todo[w]) \in Item /\ Head(todo[w]) = todo[w][1] /\ Tail(todo[w]) \in Seq(Item)
  BY <1>1, FirstOf
<1>3. stream' \in Seq(Item) /\ Len(stream') = Len(stream) + 1 /\ Len(stream) \in Nat
  BY <1>2, TypesAre, Added DEF Write
<1>4. Len(stream') <= Room
  BY <1>3 DEF Write, Sane
<1>5. todo' \in [Writer -> Seq(Item)]
  BY <1>2, TypesAre DEF Write
<1>6. whole' \subseteq 1..Len(begun)
  BY <1>1, <1>2 DEF Write, TypeOK, LeftTo, Of
<1>. QED  BY <1>3, <1>4, <1>5, <1>6 DEF Write, TypeOK, Item

--------------------------------------------------------------------------------
(* What is under way.                                                        *)

LEMMA PlaceOf ==
  ASSUME TypeOK, Made
  PROVE  /\ \A i \in DOMAIN stream : At(i) \in 1..8
         /\ \A w \in Writer : todo[w] # <<>> => Place(todo[w][1].data) = 9 - Len(todo[w])
<1>1. ASSUME NEW i \in DOMAIN stream PROVE At(i) \in 1..8
  BY <1>1, PacketPlaces DEF Made, CellOf, At
<1>2. ASSUME NEW w \in Writer, todo[w] # <<>> PROVE Place(todo[w][1].data) = 9 - Len(todo[w])
  <2>. DEFINE k == Len(todo[w])
  <2>1. k \in 1..8 /\ \A i \in 1..k :
          todo[w][i] = [data |-> Packet(begun[Of(w)].msg)[8 - k + i], no |-> Of(w)]
    BY <1>2 DEF Made, LeftTo
  <2>. HIDE DEF k
  <2>2. todo[w][1] = [data |-> Packet(begun[Of(w)].msg)[9 - k], no |-> Of(w)] /\ 9 - k \in 1..8
    BY <2>1
  <2>. QED  BY <2>2, PacketPlaces DEF k
<1>. QED  BY <1>1, <1>2

\* Writer w, with k cells left, writes the next one after n others.
Adds(w, n, k) ==
  /\ n \in Nat /\ k \in 1..8 /\ Len(todo[w]) = k /\ todo[w] # <<>>
  /\ Len(stream) = n /\ DOMAIN stream = 1..n /\ Len(stream') = n + 1 /\ DOMAIN stream' = 1..(n + 1)
  /\ \A i \in 1..n : stream'[i] = stream[i]
  /\ stream'[n + 1] = todo[w][1] /\ stream'[n + 1].no = Of(w)
  /\ Place(stream'[n + 1].data) = 9 - k /\ CellOf(stream'[n + 1])
  /\ \A v \in Writer \ {w} : todo'[v] = todo[v]
  /\ k = 1 => todo'[w] = <<>> /\ whole' = whole \cup {Of(w)}
  /\ k > 1 => /\ todo'[w] # <<>> /\ Len(todo'[w]) = k - 1 /\ Of(w)' = Of(w) /\ whole' = whole
              /\ \A i \in 1..(k - 1) : todo'[w][i] = todo[w][i + 1]
  /\ state = "open" /\ UNCHANGED <<state, calling, call, number, begun, taken>>

LEMMA WriteIs ==
  ASSUME TypeOK, Made, NEW w \in Writer, Write(w)
  PROVE  \E n, k : Adds(w, n, k)
<1>. DEFINE n == Len(stream)
            k == Len(todo[w])
<1>1. /\ todo[w] \in Seq(Item) /\ todo[w] # <<>> /\ stream \in Seq(Item)
      /\ todo \in [Writer -> Seq(Item)]
  BY TypesAre DEF Write
<1>2. /\ todo[w][1] \in Item /\ Head(todo[w]) = todo[w][1] /\ k \in 1..8
      /\ \A i \in 1..k :
           todo[w][i] = [data |-> Packet(begun[Of(w)].msg)[8 - k + i], no |-> Of(w)]
      /\ Of(w) \in 1..Len(begun)
  BY <1>1, FirstOf DEF Made, LeftTo
<1>3. /\ n \in Nat /\ DOMAIN stream = 1..n
      /\ stream' \in Seq(Item) /\ Len(stream') = n + 1
      /\ \A i \in 1..n : stream'[i] = stream[i]
      /\ stream'[n + 1] = todo[w][1]
  <2>1. stream' = Append(stream, todo[w][1])
    BY <1>2 DEF Write
  <2>. QED  BY <1>1, <1>2, <2>1, Added
<1>4. DOMAIN stream' = 1..(n + 1)
  BY <1>3
<1>5. /\ Tail(todo[w]) \in Seq(Item) /\ Len(Tail(todo[w])) = k - 1
      /\ \A i \in 1..(k - 1) : Tail(todo[w])[i] = todo[w][i + 1]
      /\ todo' = [todo EXCEPT ![w] = Tail(todo[w])]
  BY <1>1, FirstOf DEF Write
<1>6. todo'[w] = Tail(todo[w]) /\ \A v \in Writer \ {w} : todo'[v] = todo[v]
  BY <1>1, <1>5
<1>7. whole' = IF k = 1 THEN whole \cup {Of(w)} ELSE whole
  BY <1>2 DEF Write, Of
<1>8. state = "open" /\ UNCHANGED <<state, calling, call, number, begun, taken>>
  BY DEF Write
<1>9. Tail(todo[w]) \in Seq(Item) /\ todo'[w] = Tail(todo[w]) /\ Len(todo'[w]) = k - 1
  BY <1>5, <1>6
<1>. HIDE DEF n, k
<1>10. todo[w][1] = [data |-> Packet(begun[Of(w)].msg)[9 - k], no |-> Of(w)] /\ 9 - k \in 1..8
  BY <1>2
<1>11. Place(stream'[n + 1].data) = 9 - k
  <2>1. Place(Packet(begun[Of(w)].msg)[9 - k]) = 9 - k
    BY <1>10, PacketPlaces
  <2>. QED  BY <1>3, <1>10, <2>1
<1>12. CellOf(stream'[n + 1])
  BY <1>2, <1>3, <1>10 DEF CellOf
<1>13. k = 1 => todo'[w] = <<>>
  <2>1. \A s \in Seq(Item) : Len(s) = 0 => s = <<>>
    OBVIOUS
  <2>2. k = 1 => Len(todo'[w]) = 0
    BY <1>9
  <2>3. todo'[w] \in Seq(Item)
    BY <1>9
  <2>. QED  BY <2>1, <2>2, <2>3
<1>14. k > 1 => todo'[w] # <<>> /\ Of(w)' = Of(w)
  <2>1. k > 1 => todo[w][2] = [data |-> Packet(begun[Of(w)].msg)[8 - k + 2], no |-> Of(w)]
    BY <1>2
  <2>2. k > 1 => todo'[w][1] = todo[w][2]
    <3>1. k > 1 => 1 \in 1..(k - 1) /\ 1 + 1 = 2
      BY <1>2
    <3>. QED  BY <1>5, <1>6, <3>1
  <2>3. k > 1 => Len(todo'[w]) # 0
    <3>1. k > 1 => k - 1 # 0
      BY <1>2
    <3>. QED  BY <1>9, <3>1
  <2>4. Len(<<>>) = 0
    OBVIOUS
  <2>. QED  BY <2>1, <2>2, <2>3, <2>4 DEF Of
<1>15. /\ n \in Nat /\ k \in 1..8 /\ Len(todo[w]) = k /\ todo[w] # <<>>
       /\ Len(stream) = n /\ DOMAIN stream = 1..n /\ Len(stream') = n + 1 /\ DOMAIN stream' = 1..(n + 1)
  BY <1>1, <1>2, <1>3, <1>4 DEF n, k
<1>16. /\ \A i \in 1..n : stream'[i] = stream[i]
       /\ stream'[n + 1] = todo[w][1] /\ stream'[n + 1].no = Of(w)
  BY <1>3 DEF Of
<1>17. k > 1 => /\ todo'[w] # <<>> /\ Len(todo'[w]) = k - 1 /\ Of(w)' = Of(w) /\ whole' = whole
                /\ \A i \in 1..(k - 1) : todo'[w][i] = todo[w][i + 1]
  <2>1. k > 1 => whole' = whole
    BY <1>2, <1>7
  <2>. QED  BY <1>5, <1>6, <1>9, <1>14, <2>1
<1>18. k = 1 => todo'[w] = <<>> /\ whole' = whole \cup {Of(w)}
  BY <1>7, <1>13
<1>19. Adds(w, n, k)
  BY <1>6, <1>8, <1>11, <1>12, <1>15, <1>16, <1>17, <1>18 DEF Adds
<1>. QED  BY <1>19

\* The receiver's read of the first of n cells.
Shifts(n) ==
  /\ n \in Nat \ {0} /\ Len(stream) = n /\ DOMAIN stream = 1..n
  /\ Len(stream') = n - 1 /\ DOMAIN stream' = 1..(n - 1)
  /\ \A i \in 1..(n - 1) : stream'[i] = stream[i + 1]
  /\ \A i \in 2..n : stream[i] = stream'[i - 1]
  /\ stream' = <<>> <=> n = 1
  /\ UNCHANGED <<todo, begun, whole, trouble>>

LEMMA ShiftIs ==
  ASSUME TypeOK, Read
  PROVE  \E n : Shifts(n)
<1>. DEFINE n == Len(stream)
<1>1. stream # <<>> /\ stream' = Tail(stream) /\ stream \in Seq(Item)
      /\ UNCHANGED <<todo, begun, whole, trouble>>
  BY TypesAre DEF Read
<1>2. /\ n \in Nat \ {0} /\ DOMAIN stream = 1..n
      /\ stream' \in Seq(Item) /\ Len(stream') = n - 1
      /\ \A i \in 1..(n - 1) : stream'[i] = stream[i + 1]
  BY <1>1, FirstOf
<1>3. DOMAIN stream' = 1..(n - 1)
  BY <1>2
<1>4. stream' = <<>> <=> Len(stream') = 0
  BY <1>2
<1>. HIDE DEF n
<1>5. stream' = <<>> <=> n = 1
  BY <1>4, <1>2
<1>6. \A i \in 2..n : stream[i] = stream'[i - 1]
  <2>1. ASSUME NEW i \in 2..n PROVE stream[i] = stream'[i - 1]
    <3>1. i - 1 \in 1..(n - 1) /\ (i - 1) + 1 = i
      BY <1>2, <2>1
    <3>. QED  BY <1>2, <3>1
  <2>. QED  BY <2>1
<1>7. Shifts(n)
  BY <1>5, <1>1, <1>2, <1>3, <1>6 DEF Shifts, n
<1>. QED  BY <1>7

\* Writer w begins a packet with message m as number b + 1.
Starts(w, m, b) ==
  /\ m \in Message /\ b \in Nat /\ Len(begun) = b /\ DOMAIN begun = 1..b
  /\ Len(begun') = b + 1 /\ DOMAIN begun' = 1..(b + 1)
  /\ \A p \in 1..b : begun'[p] = begun[p]
  /\ begun'[b + 1].msg = m /\ begun'[b + 1].before = whole
  /\ whole \subseteq 1..b
  /\ todo[w] = <<>> /\ todo'[w] # <<>> /\ Len(todo'[w]) = 8 /\ Of(w)' = b + 1
  /\ \A i \in 1..8 : todo'[w][i] = [data |-> Packet(m)[i], no |-> b + 1]
  /\ \A v \in Writer \ {w} : todo'[v] = todo[v]
  /\ state # "hung"
  /\ UNCHANGED <<state, stream, calling, call, number, whole, trouble, taken>>

LEMMA BeginIs ==
  ASSUME TypeOK, NEW w \in Writer, Begin(w)
  PROVE  \E m, b : Starts(w, m, b)
<1>1. PICK m \in Message :
        /\ todo' = [todo EXCEPT ![w] =
                      [i \in 1..8 |-> [data |-> Packet(m)[i], no |-> Len(begun) + 1]]]
        /\ begun' = Append(begun, [msg |-> m, before |-> whole])
  BY DEF Begin
<1>. DEFINE b == Len(begun)
            s == [i \in 1..8 |-> [data |-> Packet(m)[i], no |-> b + 1]]
<1>2. begun \in Seq(Note) /\ todo \in [Writer -> Seq(Item)]
  BY TypesAre
<1>3. b \in Nat /\ DOMAIN begun = 1..b
  BY <1>2
<1>4. /\ Len(begun') = b + 1 /\ DOMAIN begun' = 1..(b + 1)
      /\ \A p \in 1..b : begun'[p] = begun[p]
      /\ begun'[b + 1] = [msg |-> m, before |-> whole]
  <2>. DEFINE x == [msg |-> m, before |-> whole]
  <2>1. begun' = Append(begun, x)
    BY <1>1
  <2>. HIDE DEF x
  <2>2. Len(begun') = b + 1 /\ DOMAIN begun' = 1..(b + 1)
    BY <1>2, <2>1
  <2>3. /\ \A p \in 1..b : begun'[p] = begun[p]
        /\ begun'[b + 1] = x
    BY <1>2, <2>1
  <2>. QED  BY <2>2, <2>3 DEF x
<1>5. todo'[w] = s /\ \A v \in Writer \ {w} : todo'[v] = todo[v]
  BY <1>1, <1>2
<1>6. Len(s) = 8 /\ s # <<>> /\ \A i \in 1..8 : s[i] = [data |-> Packet(m)[i], no |-> b + 1]
  OBVIOUS
<1>7. Of(w)' = b + 1
  BY <1>5, <1>6 DEF Of
<1>8. whole \subseteq 1..b
  BY DEF TypeOK
<1>9. /\ todo[w] = <<>> /\ state # "hung"
      /\ UNCHANGED <<state, stream, calling, call, number, whole, trouble, taken>>
  BY DEF Begin
<1>10. todo'[w] # <<>> /\ Len(todo'[w]) = 8
       /\ \A i \in 1..8 : todo'[w][i] = [data |-> Packet(m)[i], no |-> b + 1]
  BY <1>5, <1>6
<1>. HIDE DEF b, s
<1>11. Starts(w, m, b)
  BY <1>3, <1>4, <1>5, <1>7, <1>8, <1>9, <1>10 DEF Starts, b
<1>. QED  BY <1>11

\* Some writers give up what they have left.
Sheds ==
  /\ \A w \in Writer : todo'[w] = <<>> \/ todo'[w] = todo[w]
  /\ UNCHANGED <<stream, begun, whole, calling, call, number, trouble, taken>>

LEMMA ShedIs ==
  ASSUME TypeOK
  PROVE  /\ HangUp => Sheds /\ state = "open" /\ state' = "hung"
         /\ \A w \in Writer : WriteFails(w) => Sheds /\ state = "closed" /\ state' = "closed"
<1>. todo \in [Writer -> Seq(Item)]
  BY TypesAre
<1>. QED  BY DEF HangUp, WriteFails, Sheds

--------------------------------------------------------------------------------
(* Made.                                                                     *)

LEMMA MadeStarts ==
  ASSUME TypeOK, Made, NEW w \in Writer, NEW m, NEW b, Starts(w, m, b)
  PROVE  Made'
<1>1. ASSUME NEW i \in DOMAIN stream' PROVE CellOf(stream[i])'
  <2>1. stream'[i] = stream[i] /\ CellOf(stream[i])
    BY <1>1 DEF Starts, Made
  <2>2. \A p \in 1..Len(begun) : p \in 1..Len(begun') /\ begun'[p] = begun[p]
    BY DEF Starts
  <2>. QED  BY <2>1, <2>2 DEF CellOf
<1>2. LeftTo(w)'
  <2>1. begun'[b + 1].msg = m
    BY DEF Starts
  <2>2. ASSUME NEW i \in 1..Len(todo'[w])
        PROVE todo'[w][i] = [data |-> Packet(begun'[b + 1].msg)[8 - Len(todo'[w]) + i], no |-> b + 1]
    <3>1. Len(todo'[w]) = 8 /\ i \in 1..8 /\ 8 - Len(todo'[w]) + i = i
      BY DEF Starts
    <3>. QED  BY <2>1, <3>1 DEF Starts
  <2>. QED  BY <2>2 DEF Starts, LeftTo, Of
<1>3. ASSUME NEW v \in Writer \ {w} PROVE LeftTo(v)'
  <2>1. todo'[v] = todo[v] /\ LeftTo(v)
    BY DEF Starts, Made
  <2>2. \A p \in 1..Len(begun) : p \in 1..Len(begun') /\ begun'[p] = begun[p]
    BY DEF Starts
  <2>. QED  BY <2>1, <2>2 DEF LeftTo, Of
<1>4. ASSUME NEW u \in Writer, NEW v \in Writer, todo'[u] # <<>>, todo'[v] # <<>>,
             Of(u)' = Of(v)', u # v
      PROVE  FALSE
  <2>1. ASSUME NEW x \in Writer \ {w}, todo'[x] # <<>>
        PROVE  Of(x)' \in 1..b /\ Of(x)' = Of(x) /\ todo[x] # <<>>
    <3>1. todo'[x] = todo[x] /\ Len(begun) = b
      BY DEF Starts
    <3>2. LeftTo(x)
      BY DEF Made
    <3>. QED  BY <2>1, <3>1, <3>2 DEF LeftTo, Of
  <2>2. Of(w)' = b + 1
    BY DEF Starts
  <2>3. b + 1 \notin 1..b
    BY DEF Starts
  <2>4. u # w /\ v # w
    BY <1>4, <2>1, <2>2, <2>3
  <2>5. todo[u] # <<>> /\ todo[v] # <<>> /\ Of(u) = Of(v)
    BY <1>4, <2>1, <2>4
  <2>. QED  BY <1>4, <2>5 DEF Made
<1>. QED  BY <1>1, <1>2, <1>3, <1>4 DEF Made, Of

LEMMA MadeAdds ==
  ASSUME TypeOK, Made, NEW w \in Writer, NEW n, NEW k, Adds(w, n, k)
  PROVE  Made'
<1>1. ASSUME NEW i \in DOMAIN stream' PROVE CellOf(stream[i])'
  <2>1. CellOf(stream'[i]) /\ begun' = begun
    <3>1. CASE i = n + 1
      BY <3>1 DEF Adds
    <3>2. CASE i # n + 1
      <4>1. i \in DOMAIN stream /\ stream'[i] = stream[i]
        BY <1>1, <3>2 DEF Adds
      <4>. QED  BY <4>1 DEF Made, Adds
    <3>. QED  BY <3>1, <3>2
  <2>. QED  BY <2>1 DEF CellOf
<1>2. LeftTo(w)'
  <2>1. CASE k = 1
    BY <2>1 DEF Adds, LeftTo
  <2>2. CASE k > 1
    <3>1. /\ Len(todo'[w]) = k - 1 /\ k - 1 \in 1..8 /\ Of(w)' = Of(w) /\ begun' = begun
          /\ Len(todo[w]) = k /\ todo[w] # <<>> /\ k \in 1..8
          /\ \A i \in 1..(k - 1) : todo'[w][i] = todo[w][i + 1]
      BY <2>2 DEF Adds
    <3>2. /\ Of(w) \in 1..Len(begun)
          /\ \A i \in 1..k : todo[w][i] = [data |-> Packet(begun[Of(w)].msg)[8 - k + i], no |-> Of(w)]
      BY <3>1 DEF Made, LeftTo
    <3>3. ASSUME NEW i \in 1..(k - 1)
          PROVE  todo'[w][i] = [data |-> Packet(begun[Of(w)].msg)[8 - (k - 1) + i], no |-> Of(w)]
      <4>1. i + 1 \in 1..k /\ 8 - k + (i + 1) = 8 - (k - 1) + i
        BY <3>1
      <4>2. todo[w][i + 1] = [data |-> Packet(begun[Of(w)].msg)[8 - k + (i + 1)], no |-> Of(w)]
        BY <3>2, <4>1
      <4>. QED  BY <3>1, <4>1, <4>2
    <3>. QED  BY <3>1, <3>2, <3>3 DEF LeftTo
  <2>. QED  BY <2>1, <2>2 DEF Adds
<1>3. ASSUME NEW v \in Writer \ {w} PROVE LeftTo(v)'
  <2>1. todo'[v] = todo[v] /\ begun' = begun
    BY DEF Adds
  <2>2. LeftTo(v)
    BY DEF Made
  <2>. QED  BY <2>1, <2>2 DEF LeftTo, Of
<1>4. \A v \in Writer : todo'[v] # <<>> => todo[v] # <<>> /\ Of(v)' = Of(v)
  BY DEF Adds, Of
<1>5. ASSUME NEW u \in Writer, NEW v \in Writer, todo'[u] # <<>>, todo'[v] # <<>>, Of(u)' = Of(v)'
      PROVE  u = v
  BY <1>4, <1>5 DEF Made
<1>. QED  BY <1>1, <1>2, <1>3, <1>5 DEF Made

LEMMA MadeShifts ==
  ASSUME TypeOK, Made, NEW n, Shifts(n)
  PROVE  Made'
<1>1. ASSUME NEW i \in DOMAIN stream' PROVE CellOf(stream[i])'
  <2>1. i + 1 \in DOMAIN stream /\ stream'[i] = stream[i + 1]
    BY DEF Shifts
  <2>2. CellOf(stream[i + 1]) /\ begun' = begun
    BY <2>1 DEF Made, Shifts
  <2>. QED  BY <2>1, <2>2 DEF CellOf
<1>2. todo' = todo /\ begun' = begun
  BY DEF Shifts
<1>3. \A w \in Writer : LeftTo(w)'
  BY <1>2 DEF Made, LeftTo, Of
<1>. QED  BY <1>1, <1>2, <1>3 DEF Made, Of

LEMMA MadeSheds == TypeOK /\ Made /\ Sheds => Made'
<1>. SUFFICES ASSUME TypeOK, Made, Sheds PROVE Made'
  OBVIOUS
<1>1. ASSUME NEW v \in Writer PROVE LeftTo(v)'
  <2>1. (todo'[v] = <<>> \/ todo'[v] = todo[v]) /\ begun' = begun
    BY DEF Sheds
  <2>2. LeftTo(v)
    BY DEF Made
  <2>. QED  BY <2>1, <2>2 DEF LeftTo, Of
<1>2. \A v \in Writer : todo'[v] # <<>> => todo'[v] = todo[v]
  BY DEF Sheds
<1>. QED  BY <1>1, <1>2 DEF Sheds, Made, CellOf, Of

\* What stays of the stream when one is added, and when the first is read.
LEMMA AddsAt ==
  ASSUME TypeOK, Made, NEW w \in Writer, NEW n, NEW k, Adds(w, n, k)
  PROVE  /\ \A i \in DOMAIN stream' : i \in 1..(n + 1)
         /\ \A i \in DOMAIN stream' : i # n + 1 => i \in DOMAIN stream /\ stream'[i] = stream[i]
         /\ \A i \in DOMAIN stream : i \in DOMAIN stream' /\ stream'[i] = stream[i] /\ i < n + 1
         /\ stream'[n + 1].no = Of(w) /\ Place(stream'[n + 1].data) = 9 - k
         /\ n + 1 \in DOMAIN stream'
BY DEF Adds

LEMMA AddsTodo ==
  ASSUME TypeOK, Made, NEW w \in Writer, NEW n, NEW k, Adds(w, n, k)
  PROVE  \A v \in Writer : todo'[v] # <<>> =>
           /\ todo[v] # <<>> /\ Of(v)' = Of(v)
           /\ v # w => todo'[v] = todo[v] /\ Of(v) # Of(w)
           /\ v = w => k > 1 /\ Len(todo[v]) = k /\ Len(todo'[v]) = k - 1
<1>. SUFFICES ASSUME NEW v \in Writer, todo'[v] # <<>>
              PROVE  /\ todo[v] # <<>> /\ Of(v)' = Of(v)
                     /\ v # w => todo'[v] = todo[v] /\ Of(v) # Of(w)
                     /\ v = w => k > 1 /\ Len(todo[v]) = k /\ Len(todo'[v]) = k - 1
  OBVIOUS
<1>1. CASE v = w
  <2>1. k \in 1..8 /\ k # 1
    BY <1>1 DEF Adds
  <2>2. k > 1
    BY <2>1
  <2>. QED  BY <1>1, <2>2 DEF Adds
<1>2. CASE v # w
  <2>1. todo'[v] = todo[v] /\ todo[w] # <<>>
    BY <1>2 DEF Adds
  <2>. QED  BY <1>2, <2>1 DEF Made, Of
<1>. QED  BY <1>1, <1>2

LEMMA ShiftsAt ==
  ASSUME TypeOK, NEW n, Shifts(n)
  PROVE  /\ \A i \in DOMAIN stream' : i \in 1..(n - 1) /\ i + 1 \in DOMAIN stream /\ stream'[i] = stream[i + 1]
         /\ \A i \in DOMAIN stream : i # 1 => i - 1 \in DOMAIN stream' /\ stream[i] = stream'[i - 1]
         /\ 1 \in DOMAIN stream /\ \A i \in DOMAIN stream : i \in 1..n
<1>1. /\ n \in Nat \ {0} /\ DOMAIN stream = 1..n /\ DOMAIN stream' = 1..(n - 1)
      /\ \A i \in 1..(n - 1) : stream'[i] = stream[i + 1]
      /\ \A i \in 2..n : stream[i] = stream'[i - 1]
  BY DEF Shifts
<1>. QED  BY <1>1

--------------------------------------------------------------------------------
(* Sorted.                                                                   *)

LEMMA SortedStarts ==
  ASSUME TypeOK, Made, Sorted, NEW w \in Writer, NEW m, NEW b, Starts(w, m, b)
  PROVE  Sorted'
<1>1. ASSUME NEW v \in Writer, NEW i \in DOMAIN stream', todo'[v] # <<>>, stream'[i].no = Of(v)'
      PROVE  At(i)' < 9 - Len(todo'[v])
  <2>1. stream' = stream /\ stream[i].no \in 1..b
    BY <1>1 DEF Starts, Made, CellOf
  <2>2. v # w
    BY <1>1, <2>1 DEF Starts
  <2>3. todo'[v] = todo[v]
    BY <2>2 DEF Starts
  <2>. QED  BY <1>1, <2>1, <2>3 DEF Sorted, At, Of
<1>. QED  BY <1>1 DEF Starts, Sorted, At

LEMMA SortedAdds ==
  ASSUME TypeOK, Made, Sorted, NEW w \in Writer, NEW n, NEW k, Adds(w, n, k)
  PROVE  Sorted'
<1>. USE AddsAt
<1>1. n \in Nat /\ k \in 1..8 /\ Len(todo[w]) = k /\ todo[w] # <<>>
  BY DEF Adds
<1>2. ASSUME NEW i \in DOMAIN stream', NEW j \in DOMAIN stream', i < j, stream'[i].no = stream'[j].no
      PROVE  At(i)' < At(j)'
  <2>1. CASE j = n + 1
    <3>1. i \in DOMAIN stream /\ stream'[i] = stream[i]
      BY <1>2, <2>1, <1>1
    <3>2. At(i) < 9 - k
      BY <1>1, <1>2, <2>1, <3>1 DEF Sorted
    <3>. QED  BY <2>1, <3>1, <3>2 DEF At
  <2>2. CASE j # n + 1
    <3>1. i # n + 1 /\ j \in 1..(n + 1) /\ i \in 1..(n + 1)
      BY <1>1, <1>2, <2>2
    <3>. QED  BY <1>2, <2>2, <3>1 DEF Sorted, At
  <2>. QED  BY <2>1, <2>2
<1>3. ASSUME NEW v \in Writer, NEW i \in DOMAIN stream', todo'[v] # <<>>, stream'[i].no = Of(v)'
      PROVE  At(i)' < 9 - Len(todo'[v])
  <2>1. todo[v] # <<>> /\ Of(v)' = Of(v)
    BY <1>3, AddsTodo
  <2>2. CASE v # w
    <3>1. todo'[v] = todo[v] /\ Of(v) # Of(w)
      BY <1>3, <2>2, AddsTodo
    <3>2. i # n + 1
      BY <1>3, <2>1, <3>1
    <3>. QED  BY <1>3, <2>1, <3>1, <3>2 DEF Sorted, At
  <2>3. CASE v = w
    <3>1. Len(todo'[v]) = k - 1 /\ Len(todo[v]) = k
      BY <1>3, <2>3, AddsTodo
    <3>2. CASE i = n + 1
      <4>1. Place(stream'[i].data) = 9 - k
        BY <3>2
      <4>. QED  BY <1>1, <3>1, <4>1 DEF At
    <3>3. CASE i # n + 1
      <4>1. i \in DOMAIN stream /\ stream'[i] = stream[i]
        BY <1>3, <3>3
      <4>2. At(i) < 9 - k /\ At(i) \in 1..8
        BY <1>3, <2>1, <3>1, <4>1, PlaceOf DEF Sorted
      <4>3. At(i)' = At(i)
        BY <4>1 DEF At
      <4>. QED  BY <1>1, <3>1, <4>2, <4>3
    <3>. QED  BY <3>2, <3>3
  <2>. QED  BY <2>2, <2>3
<1>. QED  BY <1>2, <1>3 DEF Sorted

LEMMA SortedShifts ==
  ASSUME TypeOK, Sorted, NEW n, Shifts(n)
  PROVE  Sorted'
<1>1. ASSUME NEW i \in DOMAIN stream', NEW j \in DOMAIN stream', i < j, stream'[i].no = stream'[j].no
      PROVE  At(i)' < At(j)'
  <2>1. i + 1 < j + 1
    BY <1>1, ShiftsAt
  <2>2. At(i + 1) < At(j + 1)
    BY <1>1, <2>1, ShiftsAt DEF Sorted
  <2>. QED  BY <2>2, ShiftsAt DEF At
<1>2. ASSUME NEW v \in Writer, NEW i \in DOMAIN stream', todo'[v] # <<>>, stream'[i].no = Of(v)'
      PROVE  At(i)' < 9 - Len(todo'[v])
  <2>1. todo' = todo
    BY DEF Shifts
  <2>2. At(i + 1) < 9 - Len(todo[v])
    BY <1>2, <2>1, ShiftsAt DEF Sorted, Of
  <2>. QED  BY <2>1, <2>2, ShiftsAt DEF At
<1>. QED  BY <1>1, <1>2 DEF Sorted

LEMMA SortedSheds == TypeOK /\ Sorted /\ Sheds => Sorted'
<1>. SUFFICES ASSUME TypeOK, Sorted, Sheds PROVE Sorted'
  OBVIOUS
<1>1. \A v \in Writer : todo'[v] # <<>> => todo'[v] = todo[v]
  BY DEF Sheds
<1>. QED  BY <1>1 DEF Sheds, Sorted, At, Of

--------------------------------------------------------------------------------
(* Fifo.                                                                     *)

LEMMA FifoStarts ==
  ASSUME TypeOK, Made, Fifo, NEW w \in Writer, NEW m, NEW b, Starts(w, m, b)
  PROVE  Fifo'
<1>1. b \in Nat /\ whole' = whole /\ stream' = stream /\ whole \subseteq 1..b
  BY DEF Starts
<1>2. ASSUME NEW v \in Writer, todo'[v] # <<>> PROVE Of(v)' \notin whole'
  <2>1. CASE v = w
    BY <1>1, <2>1 DEF Starts
  <2>2. CASE v # w
    <3>1. todo'[v] = todo[v]
      BY <2>2 DEF Starts
    <3>. QED  BY <1>1, <1>2, <3>1 DEF Fifo, Of
  <2>. QED  BY <2>1, <2>2
<1>3. ASSUME NEW p \in 1..Len(begun')
      PROVE  begun'[p].before \subseteq whole' /\ begun'[p].before \subseteq 1..(p - 1)
  <2>1. CASE p = b + 1
    <3>1. begun'[p].before = whole
      BY <2>1 DEF Starts
    <3>2. p - 1 = b
      BY <1>1, <2>1
    <3>. QED  BY <1>1, <3>1, <3>2
  <2>2. CASE p # b + 1
    <3>1. p \in 1..Len(begun) /\ begun'[p] = begun[p]
      BY <1>1, <2>2 DEF Starts
    <3>. QED  BY <1>1, <3>1 DEF Fifo
  <2>. QED  BY <2>1, <2>2
<1>4. ASSUME NEW i \in DOMAIN stream', NEW j \in DOMAIN stream', i < j
      PROVE  stream'[j].no \notin begun'[stream'[i].no].before
  <2>1. stream[i].no \in 1..b
    BY <1>1 DEF Starts, Made, CellOf
  <2>2. begun'[stream[i].no] = begun[stream[i].no]
    BY <2>1 DEF Starts
  <2>. QED  BY <1>1, <1>4, <2>2 DEF Fifo
<1>. QED  BY <1>2, <1>3, <1>4 DEF Fifo

LEMMA FifoAdds ==
  ASSUME TypeOK, Made, Fifo, NEW w \in Writer, NEW n, NEW k, Adds(w, n, k)
  PROVE  Fifo'
<1>1. /\ n \in Nat /\ k \in 1..8 /\ todo[w] # <<>> /\ begun' = begun
      /\ whole' = whole \/ whole' = whole \cup {Of(w)}
      /\ k > 1 => whole' = whole
  <2>1. k = 1 \/ k > 1
    BY DEF Adds
  <2>. QED  BY <2>1 DEF Adds
<1>2. ASSUME NEW v \in Writer, todo'[v] # <<>> PROVE Of(v)' \notin whole'
  <2>1. todo[v] # <<>> /\ Of(v)' = Of(v) /\ (v = w => k > 1) /\ (v # w => Of(v) # Of(w))
    BY <1>2, AddsTodo
  <2>2. Of(v) \notin whole
    BY <2>1 DEF Fifo
  <2>. QED  BY <1>1, <2>1, <2>2
<1>3. ASSUME NEW p \in 1..Len(begun')
      PROVE  begun'[p].before \subseteq whole' /\ begun'[p].before \subseteq 1..(p - 1)
  BY <1>1 DEF Fifo
<1>4. ASSUME NEW i \in DOMAIN stream', NEW j \in DOMAIN stream', i < j
      PROVE  stream'[j].no \notin begun'[stream'[i].no].before
  <2>0. i # n + 1 /\ i \in DOMAIN stream /\ stream'[i] = stream[i]
    BY <1>1, <1>4, AddsAt
  <2>1. CASE j = n + 1
    <3>1. stream'[j].no = Of(w) /\ Of(w) \notin whole
      BY <1>1, <2>1, AddsAt DEF Fifo
    <3>2. stream[i].no \in 1..Len(begun)
      BY <2>0 DEF Made, CellOf
    <3>. QED  BY <1>1, <2>0, <3>1, <3>2 DEF Fifo
  <2>2. CASE j # n + 1
    BY <1>1, <1>4, <2>0, <2>2, AddsAt DEF Fifo
  <2>. QED  BY <2>1, <2>2
<1>. QED  BY <1>2, <1>3, <1>4 DEF Fifo

LEMMA FifoShifts ==
  ASSUME TypeOK, Fifo, NEW n, Shifts(n)
  PROVE  Fifo'
<1>1. todo' = todo /\ begun' = begun /\ whole' = whole
  BY DEF Shifts
<1>2. ASSUME NEW i \in DOMAIN stream', NEW j \in DOMAIN stream', i < j
      PROVE  stream'[j].no \notin begun'[stream'[i].no].before
  <2>1. i + 1 < j + 1
    BY <1>2, ShiftsAt
  <2>. QED  BY <1>1, <2>1, ShiftsAt DEF Fifo
<1>. QED  BY <1>1, <1>2 DEF Fifo, Of

LEMMA FifoSheds == TypeOK /\ Fifo /\ Sheds => Fifo'
<1>. SUFFICES ASSUME TypeOK, Fifo, Sheds PROVE Fifo'
  OBVIOUS
<1>1. \A v \in Writer : todo'[v] # <<>> => todo'[v] = todo[v]
  BY DEF Sheds
<1>. QED  BY <1>1 DEF Sheds, Fifo, Of

--------------------------------------------------------------------------------
(* The call.                                                                 *)

\* A call with n cells gets one more, x, and has c.
Moves(n, c, x) ==
  /\ n \in 0..7 /\ Len(call) = n /\ DOMAIN call = 1..n /\ calling
  /\ c \in Seq(Cells) /\ Len(c) = n + 1 /\ DOMAIN c = 1..(n + 1)
  /\ \A i \in 1..n : c[i] = call[i]
  /\ x \in Cells /\ c[n + 1] = x
  /\ call = <<>> <=> n = 0
  /\ number' = IF n = 3 THEN stream[1].no ELSE number
  /\ \/ n \in {4, 7} /\ stream' = stream
     \/ stream # <<>> /\ x = stream[1].data /\ \E s : Shifts(s)
  /\ UNCHANGED <<todo, begun, whole, trouble>>

\* It goes on, ...
GoesOn(n, c) ==
  /\ n < 7 /\ (n + 1 \in {1, 3} => Passes(c))
  /\ call' = c /\ UNCHANGED <<state, calling, taken>>

\* ... or it has a packet, ...
Delivers(n, c) ==
  /\ n = 7 /\ Passes(c)
  /\ call' = <<>> /\ calling' = FALSE /\ state' = state
  /\ taken' = Append(taken, [no |-> number, msg |-> SubSeq(c, 4, 5)])

\* ... or ends without one, as all other ends do.
Quits ==
  /\ call' = <<>> /\ calling' = FALSE /\ taken' = taken
  /\ stream' = stream \/ \E s : Shifts(s)
  /\ UNCHANGED <<todo, begun, whole>>

LEMMA ReadMoves ==
  ASSUME TypeOK, NEW c, NEW x, ReadStep(c, x),
         number' = IF Len(call) = 3 THEN stream[1].no ELSE number,
         \/ Len(call) \in {4, 7} /\ stream' = stream
         \/ stream # <<>> /\ x = stream[1].data /\ \E s : Shifts(s)
  PROVE  \E n : Moves(n, c, x) /\ (GoesOn(n, c) \/ Delivers(n, c) \/ (Quits /\ Fail))
<1>. DEFINE n == Len(call)
<1>1. /\ n \in 0..7 /\ DOMAIN call = 1..n /\ n \in Nat
  <2>1. call \in Seq(Cells) /\ Len(call) < 8
    BY TypesAre DEF TypeOK
  <2>2. n \in {0, 1, 2, 3, 4, 5, 6, 7}
    BY <2>1, LenUpTo
  <2>3. DOMAIN call = 1..n
    BY <2>1
  <2>. HIDE DEF n
  <2>. QED  BY <2>2, <2>3
<1>2. /\ c \in Seq(Cells) /\ Len(c) = n + 1
      /\ \A i \in 1..n : c[i] = call[i]
      /\ x \in Cells /\ c[n + 1] = x
      /\ calling /\ UNCHANGED <<todo, begun, whole, trouble>>
  BY DEF ReadStep
<1>3. DOMAIN c = 1..(n + 1)
  BY <1>2
<1>4. Outcome(c)
  BY DEF ReadStep
<1>5. /\ number' = IF n = 3 THEN stream[1].no ELSE number
      /\ \/ n \in {4, 7} /\ stream' = stream
         \/ stream # <<>> /\ x = stream[1].data /\ \E s : Shifts(s)
      /\ call = <<>> <=> n = 0
  <2>1. call = <<>> <=> Len(call) = 0
    BY TypesAre
  <2>. QED  BY <2>1
<1>6. Len(call) = n
  OBVIOUS
<1>. HIDE DEF n
<1>7. Moves(n, c, x)
  BY <1>1, <1>2, <1>3, <1>5, <1>6 DEF Moves
<1>8. CASE Goes(c)
  <2>1. n + 1 < 8 /\ (n + 1 \in Full => Passes(c))
    BY <1>2, <1>8 DEF Goes
  <2>2. n < 7 /\ (n + 1 \in {1, 3} => Passes(c))
    BY <1>1, <2>1 DEF Full
  <2>. QED  BY <1>7, <1>8, <2>2 DEF Goes, GoesOn
<1>9. CASE Has(c)
  <2>1. n + 1 = 8
    BY <1>2, <1>9 DEF Has
  <2>2. n = 7
    BY <1>1, <2>1
  <2>. QED  BY <1>7, <1>9, <2>2 DEF Has, Take, Delivers
<1>10. CASE Fail
  BY <1>2, <1>7, <1>10 DEF Fail, Quits
<1>. QED  BY <1>4, <1>8, <1>9, <1>10 DEF Outcome

\* Every step of a call.
LEMMA CallSteps ==
  ASSUME TypeOK, Read \/ ReadsShort \/ ReadsNothing \/ ReadsEnd
  PROVE  \/ \E n, c, x : Moves(n, c, x) /\ (GoesOn(n, c) \/ Delivers(n, c))
         \/ Quits /\ (state' = "closed" \/ ReadsNothing)
<1>1. CASE Read
  <2>1. /\ ReadStep(Append(call, stream[1].data), stream[1].data) /\ stream # <<>>
        /\ number' = IF Len(call) = 3 THEN stream[1].no ELSE number
    BY <1>1, ReadIs
  <2>2. \E s : Shifts(s)
    BY <1>1, ShiftIs
  <2>. QED  BY <2>1, <2>2, ReadMoves DEF Fail
<1>2. CASE ReadsShort
  <2>1. /\ UNCHANGED <<stream, todo, number, begun, whole, trouble>>
        /\ Fail \/ (Len(call) \in {4, 7} /\ \E x \in Cells : ReadStep(Append(call, x), x))
    BY <1>2, ReadsShortIs
  <2>2. CASE Fail
    BY <2>1, <2>2 DEF Fail, Quits
  <2>3. CASE Len(call) \in {4, 7} /\ \E x \in Cells : ReadStep(Append(call, x), x)
    <3>1. PICK x \in Cells : ReadStep(Append(call, x), x)
      BY <2>3
    <3>2. Len(call) # 3
      <4>. DEFINE n == Len(call)
      <4>1. n \in {4, 7}
        BY <2>3
      <4>. HIDE DEF n
      <4>2. n # 3
        BY <4>1
      <4>. QED  BY <4>2 DEF n
    <3>3. number' = IF Len(call) = 3 THEN stream[1].no ELSE number
      BY <2>1, <3>2
    <3>. QED  BY <2>1, <2>3, <3>1, <3>3, ReadMoves DEF Fail
  <2>. QED  BY <2>1, <2>2, <2>3
<1>3. CASE ReadsNothing
  BY <1>3 DEF ReadsNothing, Again, Quits
<1>4. CASE ReadsEnd
  BY <1>4 DEF ReadsEnd, Fail, Quits
<1>. QED  BY <1>1, <1>2, <1>3, <1>4

--------------------------------------------------------------------------------
(* Tested.                                                                   *)

LEMMA TestedStarts ==
  ASSUME TypeOK, Tested, NEW w \in Writer, NEW m, NEW b, Starts(w, m, b)
  PROVE  Tested'
<1>1. /\ call' = call /\ number' = number
      /\ \A p \in 1..Len(begun) : p \in 1..Len(begun') /\ begun'[p] = begun[p]
  BY DEF Starts
<1>. QED  BY <1>1 DEF Tested

LEMMA TestedQuits ==
  ASSUME call' = <<>>
  PROVE  Tested'
<1>1. Len(<<>>) = 0
  OBVIOUS
<1>. QED  BY <1>1 DEF Tested

LEMMA TestedGoes ==
  ASSUME TypeOK, Made, Tested, NEW n, NEW c, NEW x, Moves(n, c, x), GoesOn(n, c)
  PROVE  Tested'
<1>1. n \in 0..7 /\ Len(call) = n /\ Len(c) = n + 1 /\ (\A i \in 1..n : c[i] = call[i])
      /\ call' = c /\ c \in Seq(Cells) /\ Len(call') = n + 1 /\ begun' = begun
  BY DEF Moves, GoesOn
<1>2. ASSUME NEW j \in 1..3, j <= n + 1, j = 1 \/ n + 1 >= 3 PROVE Place(c[j]) = j
  <2>1. CASE n = 0
    <3>1. j = 1 /\ Passes(c) /\ Len(c) = 1
      BY <1>1, <1>2, <2>1 DEF GoesOn
    <3>. QED  BY <1>1, <3>1, PassesIs
  <2>2. CASE n = 2
    <3>1. Passes(c) /\ Len(c) = 3
      BY <1>1, <2>2 DEF GoesOn
    <3>2. Place(c[2]) = 2 /\ Place(c[3]) = 3
      BY <1>1, <3>1, PassesIs
    <3>3. Place(c[1]) = 1
      BY <1>1, <2>2 DEF Tested
    <3>4. j = 1 \/ j = 2 \/ j = 3
      OBVIOUS
    <3>. QED  BY <3>2, <3>3, <3>4
  <2>3. CASE n = 1 \/ n >= 3
    <3>1. j \in 1..n /\ j <= n /\ (j = 1 \/ n >= 3)
      BY <1>1, <1>2, <2>3
    <3>2. Place(call[j]) = j
      BY <1>1, <3>1 DEF Tested
    <3>. QED  BY <1>1, <3>1, <3>2
  <2>. QED  BY <1>1, <2>1, <2>2, <2>3
<1>3. ASSUME n + 1 >= 4
      PROVE  number' \in 1..Len(begun) /\ \E k \in 1..8 : c[4] = Packet(begun[number'].msg)[k]
  <2>1. CASE n = 3
    <3>1. stream # <<>> /\ x = stream[1].data /\ number' = stream[1].no /\ c[4] = x
      BY <2>1 DEF Moves
    <3>2. 1 \in DOMAIN stream
      BY <3>1, TypesAre
    <3>. QED  BY <3>1, <3>2 DEF Made, CellOf
  <2>2. CASE n # 3
    <3>1. n >= 4 /\ 4 \in 1..n /\ number' = number
      BY <1>1, <1>3, <2>2 DEF Moves
    <3>2. c[4] = call[4]
      BY <1>1, <3>1
    <3>. QED  BY <1>1, <3>1, <3>2 DEF Tested
  <2>. QED  BY <2>1, <2>2
<1>. QED  BY <1>1, <1>2, <1>3 DEF Tested

--------------------------------------------------------------------------------
(* Once.                                                                     *)

LEMMA PastShifts ==
  ASSUME TypeOK, NEW p, Past(p), NEW n, Shifts(n)
  PROVE  Past(p)'
<1>1. ASSUME NEW i \in DOMAIN stream', stream'[i].no = p PROVE At(i)' # 4
  BY <1>1, ShiftsAt DEF Past, At
<1>. QED  BY <1>1 DEF Past, Shifts, Of

LEMMA PastAdds ==
  ASSUME TypeOK, Made, NEW p, Past(p), NEW w \in Writer, NEW n, NEW k, Adds(w, n, k)
  PROVE  Past(p)'
<1>1. ASSUME NEW i \in DOMAIN stream', stream'[i].no = p PROVE At(i)' # 4
  <2>1. CASE i = n + 1
    <3>1. Of(w) = p /\ todo[w] # <<>> /\ Len(todo[w]) = k /\ k \in 1..8
      BY <1>1, <2>1, AddsAt DEF Adds
    <3>2. k < 5
      BY <3>1 DEF Past
    <3>3. Place(stream'[i].data) = 9 - k
      BY <2>1, AddsAt
    <3>. QED  BY <3>1, <3>2, <3>3 DEF At
  <2>2. CASE i # n + 1
    BY <1>1, <2>2, AddsAt DEF Past, At
  <2>. QED  BY <2>1, <2>2
<1>2. ASSUME NEW v \in Writer, todo'[v] # <<>>, Of(v)' = p PROVE Len(todo'[v]) < 5
  <2>1. todo[v] # <<>> /\ Of(v) = p /\ Len(todo[v]) < 5
    BY <1>2, AddsTodo DEF Past
  <2>2. CASE v = w
    <3>1. k \in 1..8 /\ Len(todo[v]) = k /\ Len(todo'[v]) = k - 1
      BY <1>2, <2>2, AddsTodo DEF Adds
    <3>. QED  BY <2>1, <3>1
  <2>3. CASE v # w
    BY <1>2, <2>1, <2>3, AddsTodo
  <2>. QED  BY <2>2, <2>3
<1>. QED  BY <1>1, <1>2 DEF Past

LEMMA OnceStarts ==
  ASSUME TypeOK, Made, Tested, Once, NEW w \in Writer, NEW m, NEW b, Starts(w, m, b)
  PROVE  Once'
<1>1. /\ call' = call /\ number' = number /\ taken' = taken /\ stream' = stream
      /\ Len(begun) = b /\ b \in Nat
      /\ \A p \in 1..b : p \in 1..Len(begun') /\ begun'[p] = begun[p]
  BY DEF Starts
<1>2. Had' = Had /\ Takens' = Takens
  BY <1>1 DEF Had, Takens
<1>3. \A p \in Takens \cup Had : p \in 1..b
  BY <1>1 DEF Takens, Had, Once, Tested
<1>4. ASSUME NEW p \in Takens \cup Had PROVE Past(p)'
  <2>1. Past(p) /\ p # b + 1
    BY <1>1, <1>3 DEF Once
  <2>2. ASSUME NEW v \in Writer, todo'[v] # <<>>, Of(v)' = p PROVE Len(todo'[v]) < 5
    <3>1. todo'[v] = todo[v]
      BY <2>1, <2>2 DEF Starts
    <3>. QED  BY <2>1, <2>2, <3>1 DEF Past, Of
  <2>. QED  BY <1>1, <2>1, <2>2 DEF Past, At
<1>. QED  BY <1>1, <1>2, <1>4 DEF Once

LEMMA OnceAdds ==
  ASSUME TypeOK, Made, Once, NEW w \in Writer, NEW n, NEW k, Adds(w, n, k)
  PROVE  Once'
<1>1. call' = call /\ number' = number /\ taken' = taken /\ begun' = begun
  BY DEF Adds
<1>2. Had' = Had /\ Takens' = Takens
  BY <1>1 DEF Had, Takens
<1>3. \A p \in Takens \cup Had : Past(p)'
  BY PastAdds DEF Once
<1>. QED  BY <1>1, <1>2, <1>3 DEF Once

LEMMA OnceSheds ==
  ASSUME TypeOK, Once, Sheds
  PROVE  Once'
<1>1. call' = call /\ number' = number /\ taken' = taken /\ begun' = begun /\ stream' = stream
  BY DEF Sheds
<1>2. Had' = Had /\ Takens' = Takens
  BY <1>1 DEF Had, Takens
<1>3. \A v \in Writer : todo'[v] # <<>> => todo'[v] = todo[v]
  BY DEF Sheds
<1>4. \A p : Past(p) => Past(p)'
  BY <1>1, <1>3 DEF Past, At, Of
<1>. QED  BY <1>1, <1>2, <1>4 DEF Once

LEMMA PastGoes ==
  ASSUME TypeOK, NEW p, Past(p), UNCHANGED todo, stream' = stream \/ \E s : Shifts(s)
  PROVE  Past(p)'
<1>1. CASE stream' = stream
  BY <1>1 DEF Past, At, Of
<1>2. CASE \E s : Shifts(s)
  BY <1>2, PastShifts
<1>. QED  BY <1>1, <1>2

LEMMA OnceQuits ==
  ASSUME TypeOK, Once, Quits
  PROVE  Once'
<1>1. taken' = taken /\ begun' = begun /\ Takens' = Takens
  BY DEF Quits, Takens
<1>2. Had' = {}
  <2>1. Len(<<>>) = 0
    OBVIOUS
  <2>. QED  BY <2>1 DEF Quits, Had
<1>3. \A p \in Takens : Past(p)'
  BY PastGoes DEF Once, Quits
<1>. QED  BY <1>1, <1>2, <1>3 DEF Once

\* The call takes the cell that carries a packet's message.
LEMMA NewHad ==
  ASSUME TypeOK, Made, Sorted, Once, stream # <<>>, At(1) = 4, UNCHANGED todo, \E s : Shifts(s)
  PROVE  \A q : q = stream[1].no => q \notin Takens /\ Past(q)'
<1>. SUFFICES ASSUME NEW q, q = stream[1].no PROVE q \notin Takens /\ Past(q)'
  OBVIOUS
<1>. PICK n : Shifts(n)
  OBVIOUS
<1>1. 1 \in DOMAIN stream
  BY ShiftsAt
<1>2. q \notin Takens
  BY <1>1 DEF Once, Past
<1>3. ASSUME NEW i \in DOMAIN stream', stream'[i].no = q PROVE At(i)' # 4
  <2>1. i + 1 \in DOMAIN stream /\ stream'[i] = stream[i + 1] /\ 1 < i + 1
    BY <1>3, ShiftsAt
  <2>2. At(1) < At(i + 1)
    BY <1>1, <1>3, <2>1 DEF Sorted
  <2>. QED  BY <1>1, <2>1, <2>2, PlaceOf DEF At
<1>4. ASSUME NEW v \in Writer, todo'[v] # <<>>, Of(v)' = q PROVE Len(todo'[v]) < 5
  <2>1. todo[v] # <<>> /\ Of(v) = q /\ todo'[v] = todo[v]
    BY <1>4 DEF Of
  <2>2. 4 < 9 - Len(todo[v])
    BY <1>1, <2>1 DEF Sorted
  <2>3. Len(todo[v]) \in 1..8
    BY <2>1 DEF Made, LeftTo
  <2>. QED  BY <2>1, <2>2, <2>3
<1>. QED  BY <1>2, <1>3, <1>4 DEF Past

LEMMA OnceGoes ==
  ASSUME TypeOK, Made, Sorted, Once, NEW n, NEW c, NEW x, Moves(n, c, x), GoesOn(n, c)
  PROVE  Once'
<1>1. taken' = taken /\ begun' = begun /\ todo' = todo /\ Takens' = Takens /\ call' = c
      /\ n \in 0..7 /\ Len(call) = n /\ Len(c) = n + 1 /\ (stream' = stream \/ \E s : Shifts(s))
  BY DEF Moves, GoesOn, Takens
<1>2. \A p \in Takens \cup Had : Past(p)'
  BY <1>1, PastGoes DEF Once
<1>3. CASE n < 3
  <2>1. Had' = {}
    <3>1. ~(n + 1 >= 4) /\ Len(call') = n + 1
      BY <1>1, <1>3
    <3>. QED  BY <3>1 DEF Had
  <2>. QED  BY <1>1, <1>2, <2>1 DEF Once
<1>4. CASE n = 3
  <2>1. /\ stream # <<>> /\ x = stream[1].data /\ number' = stream[1].no /\ c[4] = x
        /\ \E s : Shifts(s)
    BY <1>4 DEF Moves
  <2>2. Had' = IF Place(x) = 4 THEN {number'} ELSE {}
    BY <1>1, <1>4, <2>1 DEF Had
  <2>3. CASE Place(x) = 4
    <3>1. At(1) = 4
      BY <2>1, <2>3 DEF At
    <3>2. \A q : q = stream[1].no => q \notin Takens /\ Past(q)'
      BY <1>1, <2>1, <3>1, NewHad
    <3>3. \A q \in Had' : q = stream[1].no
      BY <2>1, <2>2
    <3>. QED  BY <1>1, <1>2, <3>2, <3>3 DEF Once
  <2>4. CASE Place(x) # 4
    BY <1>1, <1>2, <2>2, <2>4 DEF Once
  <2>. QED  BY <2>3, <2>4
<1>5. CASE n > 3
  <2>1. Had' = Had
    <3>1. n >= 4 /\ n + 1 >= 4 /\ 4 \in 1..n /\ n # 3
      BY <1>1, <1>5
    <3>2. c[4] = call[4] /\ number' = number
      BY <3>1 DEF Moves
    <3>. QED  BY <1>1, <3>1, <3>2 DEF Had
  <2>. QED  BY <1>1, <1>2, <2>1 DEF Once
<1>. QED  BY <1>1, <1>3, <1>4, <1>5

\* The caller's record of one more packet.
LEMMA TakenIs ==
  ASSUME TypeOK, NEW c \in Seq(Cells), Len(c) = 8, NEW p \in 1..Len(begun), number = p,
         taken' = Append(taken, [no |-> number, msg |-> SubSeq(c, 4, 5)])
  PROVE  /\ Len(taken) \in Nat /\ DOMAIN taken = 1..Len(taken) /\ DOMAIN taken' = 1..(Len(taken) + 1)
         /\ \A i \in 1..Len(taken) : taken'[i] = taken[i]
         /\ taken'[Len(taken) + 1].no = number
         /\ taken'[Len(taken) + 1].msg = SubSeq(c, 4, 5)
<1>. DEFINE y == [no |-> number, msg |-> SubSeq(c, 4, 5)]
<1>1. number \in 1..MaxSent
  <2>1. number \in 0..MaxSent /\ number # 0
    BY DEF TypeOK
  <2>. QED  BY <2>1
<1>2. SubSeq(c, 4, 5) \in Seq(Cells)
  <2>1. c[4] \in Cells /\ c[5] \in Cells
    OBVIOUS
  <2>2. SubSeq(c, 4, 5) = [i \in 1..2 |-> c[3 + i]]
    OBVIOUS
  <2>3. [i \in 1..2 |-> c[3 + i]] \in Seq(Cells)
    BY <2>1
  <2>. QED  BY <2>2, <2>3
<1>3. y \in Pack /\ y.no = number /\ y.msg = SubSeq(c, 4, 5)
  BY <1>1, <1>2 DEF Pack
<1>4. taken' = Append(taken, y) /\ taken \in Seq(Pack)
  BY TypesAre
<1>. HIDE DEF y
<1>5. /\ Len(taken) \in Nat /\ DOMAIN taken = 1..Len(taken) /\ DOMAIN taken' = 1..(Len(taken) + 1)
      /\ \A i \in 1..Len(taken) : taken'[i] = taken[i]
      /\ taken'[Len(taken) + 1] = y
  BY <1>3, <1>4, Added
<1>. QED  BY <1>3, <1>5

\* The packet is delivered under its number.
LEMMA Delivered ==
  ASSUME TypeOK, Made, Tested, Once, NEW n, NEW c, NEW x, Moves(n, c, x), Delivers(n, c)
  PROVE  /\ \A k \in 4..8 : Place(c[k]) = k
         /\ number \in 1..Len(begun) /\ number \in Had /\ number' = number
         /\ SubSeq(c, 4, 5) = MsgOf(begun[number].msg)
         /\ taken' = Append(taken, [no |-> number, msg |-> SubSeq(c, 4, 5)])
         /\ Takens' = Takens \cup {number}
<1>1. /\ n = 7 /\ Len(call) = n /\ Len(c) = 8 /\ Passes(c) /\ c \in Seq(Cells) /\ c[4] = call[4] 
      /\ number' = number
      /\ taken' = Append(taken, [no |-> number, msg |-> SubSeq(c, 4, 5)])
  BY DEF Moves, Delivers
<1>2. /\ \A k \in 4..8 : Place(c[k]) = k
      /\ \E m \in Message : c[4] = MsgOf(m)[1] /\ SubSeq(c, 4, 5) = MsgOf(m)
  BY <1>1, PassesIs
<1>3. number \in 1..Len(begun) /\ \E k \in 1..8 : c[4] = Packet(begun[number].msg)[k]
  <2>1. Len(call) >= 4
    BY <1>1
  <2>. QED  BY <1>1, <2>1 DEF Tested
<1>4. number \in Had
  <2>1. Len(call) >= 4 /\ Place(call[4]) = 4
    BY <1>1, <1>2
  <2>. QED  BY <2>1 DEF Had
<1>5. SubSeq(c, 4, 5) = MsgOf(begun[number].msg)
  <2>1. PICK m \in Message : c[4] = MsgOf(m)[1] /\ SubSeq(c, 4, 5) = MsgOf(m)
    BY <1>2
  <2>2. PICK k \in 1..8 : c[4] = Packet(begun[number].msg)[k]
    BY <1>3
  <2>3. k = 4
    BY <1>2, <2>2, PacketPlaces
  <2>4. MsgOf(m)[1] = MsgOf(begun[number].msg)[1]
    BY <2>1, <2>2, <2>3, PacketIs
  <2>5. m = begun[number].msg
    BY <2>4 DEF MsgOf, Cell
  <2>. QED  BY <2>1, <2>5
<1>6. Takens' = Takens \cup {number}
  <2>. DEFINE l == Len(taken)
  <2>1. /\ l \in Nat /\ DOMAIN taken = 1..l /\ DOMAIN taken' = 1..(l + 1)
        /\ \A i \in 1..l : taken'[i] = taken[i]
        /\ taken'[l + 1].no = number
    BY <1>1, <1>3, TakenIs
  <2>. HIDE DEF l
  <2>. QED  BY <2>1 DEF Takens
<1>. QED  BY <1>1, <1>2, <1>3, <1>4, <1>5, <1>6

LEMMA OnceDelivers ==
  ASSUME TypeOK, Made, Tested, Once, NEW n, NEW c, NEW x, Moves(n, c, x), Delivers(n, c)
  PROVE  Once'
<1>. DEFINE l == Len(taken)
<1>1. number \in 1..Len(begun) /\ number \notin Takens
  BY Delivered DEF Once
<1>2. /\ l \in Nat /\ DOMAIN taken = 1..l /\ DOMAIN taken' = 1..(l + 1)
      /\ \A i \in 1..l : taken'[i] = taken[i]
      /\ taken'[l + 1].no = number /\ taken'[l + 1].msg = MsgOf(begun[number].msg)
  <2>1. c \in Seq(Cells) /\ Len(c) = 8
    BY DEF Moves, Delivers
  <2>2. /\ taken' = Append(taken, [no |-> number, msg |-> SubSeq(c, 4, 5)])
        /\ SubSeq(c, 4, 5) = MsgOf(begun[number].msg)
    BY Delivered
  <2>. QED  BY <1>1, <2>1, <2>2, TakenIs
<1>3. begun' = begun /\ UNCHANGED todo /\ (stream' = stream \/ \E s : Shifts(s)) /\ call' = <<>>
  BY DEF Moves, Delivers
<1>4. Had' = {}
  <2>1. Len(<<>>) = 0
    OBVIOUS
  <2>. QED  BY <1>3, <2>1 DEF Had
<1>5. \A p \in Takens' : Past(p)'
  <2>1. \A p \in Takens \cup Had : Past(p)'
    BY <1>3, PastGoes DEF Once
  <2>2. Takens' = Takens \cup {number} /\ number \in Had
    BY Delivered
  <2>. QED  BY <2>1, <2>2
<1>. HIDE DEF l
<1>6. ASSUME NEW i \in DOMAIN taken', NEW j \in DOMAIN taken', taken'[i].no = taken'[j].no PROVE i = j
  <2>1. \A e \in 1..l : taken'[e].no \in Takens /\ taken'[e].no # number
    BY <1>1, <1>2 DEF Takens
  <2>2. CASE i = l + 1 \/ j = l + 1
    BY <1>1, <1>2, <1>6, <2>1, <2>2
  <2>3. CASE i # l + 1 /\ j # l + 1
    <3>1. i \in 1..l /\ j \in 1..l
      BY <1>2, <1>6, <2>3
    <3>. QED  BY <1>2, <1>6, <3>1 DEF Once
  <2>. QED  BY <2>2, <2>3
<1>7. ASSUME NEW i \in DOMAIN taken'
      PROVE  taken'[i].no \in 1..Len(begun) /\ taken'[i].msg = MsgOf(begun[taken'[i].no].msg)
  <2>1. CASE i = l + 1
    BY <1>1, <1>2, <2>1
  <2>2. CASE i # l + 1
    BY <1>2, <1>7, <2>2 DEF Once
  <2>. QED  BY <2>1, <2>2
<1>. QED  BY <1>3, <1>4, <1>5, <1>6, <1>7 DEF Once

--------------------------------------------------------------------------------
(* What has been got of a packet.                                            *)

LEMMA GotStarts ==
  ASSUME TypeOK, Made, NEW w \in Writer, NEW m, NEW b, Starts(w, m, b),
         NEW p \in 1..b, NEW g \in 0..8, Got(p, g)
  PROVE  Got(p, g)'
<1>1. /\ stream' = stream /\ whole' = whole /\ begun'[p] = begun[p] /\ Of(w)' = b + 1 /\ p # b + 1
      /\ \A v \in Writer \ {w} : todo'[v] = todo[v]
  BY DEF Starts
<1>2. ASSUME NEW v \in Writer, todo'[v] # <<>>, Of(v)' = p
      PROVE  v # w /\ todo'[v] = todo[v] /\ Of(v) = p
  <2>1. v # w
    BY <1>1, <1>2
  <2>2. todo'[v] = todo[v]
    BY <1>1, <2>1
  <2>. QED  BY <1>2, <2>1, <2>2 DEF Of
<1>3. ASSUME NEW v \in Writer, todo'[v] # <<>>, Of(v)' = p
      PROVE  /\ 9 - Len(todo'[v]) > g
             /\ 9 - Len(todo'[v]) > g + 1 =>
                  \E j \in DOMAIN stream' : stream'[j].no = p /\ At(j)' = 8 - Len(todo'[v])
  <2>1. todo'[v] = todo[v] /\ Of(v) = p /\ todo[v] # <<>>
    BY <1>2, <1>3
  <2>2. \A j : At(j)' = At(j)
    BY <1>1 DEF At
  <2>. QED  BY <1>1, <2>1, <2>2 DEF Got
<1>4. \A i : At(i)' = At(i)
  BY <1>1 DEF At
<1>. QED  BY <1>1, <1>3, <1>4 DEF Got

LEMMA GotNew ==
  ASSUME TypeOK, Made, NEW w \in Writer, NEW m, NEW b, Starts(w, m, b)
  PROVE  \A p : p = b + 1 => Got(p, 0)'
<1>. SUFFICES ASSUME NEW p, p = b + 1 PROVE Got(p, 0)'
  OBVIOUS
<1>1. stream' = stream /\ whole' = whole /\ b \in Nat /\ whole \subseteq 1..b /\ Len(begun) = b
      /\ Len(todo'[w]) = 8
  BY DEF Starts
<1>2. \A i \in DOMAIN stream : stream[i].no # p
  BY <1>1 DEF Made, CellOf
<1>3. ASSUME NEW v \in Writer, todo'[v] # <<>>, Of(v)' = p PROVE v = w
  <2>1. ASSUME v # w PROVE FALSE
    <3>1. todo'[v] = todo[v]
      BY <2>1 DEF Starts
    <3>2. Of(v) \in 1..b
      BY <1>1, <1>3, <3>1 DEF Made, LeftTo
    <3>. QED  BY <1>1, <1>3, <3>1, <3>2 DEF Of
  <2>. QED  BY <2>1
<1>4. p \notin whole'
  BY <1>1
<1>5. \A v \in Writer : todo'[v] # <<>> /\ Of(v)' = p => Len(todo'[v]) = 8
  BY <1>1, <1>3
<1>6. ASSUME NEW v \in Writer, todo'[v] # <<>>, Of(v)' = p
      PROVE  9 - Len(todo'[v]) > 0 /\ ~(9 - Len(todo'[v]) > 0 + 1)
  <2>1. Len(todo'[v]) = 8
    BY <1>5, <1>6
  <2>2. 9 - 8 > 0 /\ ~(9 - 8 > 0 + 1)
    OBVIOUS
  <2>. QED  BY <2>1, <2>2
<1>7. ASSUME NEW i \in DOMAIN stream', stream'[i].no = p PROVE FALSE
  BY <1>1, <1>2, <1>7
<1>. QED  BY <1>4, <1>6, <1>7 DEF Got

LEMMA GotSheds ==
  ASSUME TypeOK, Sheds, NEW p, NEW g \in 0..8, Got(p, g)
  PROVE  Got(p, g)'
<1>1. stream' = stream /\ whole' = whole /\ begun' = begun
      /\ \A v \in Writer : todo'[v] # <<>> => todo'[v] = todo[v]
  BY DEF Sheds
<1>2. \A i : At(i)' = At(i)
  BY <1>1 DEF At
<1>. QED  BY <1>1, <1>2 DEF Got, Of

LEMMA GotAdds ==
  ASSUME TypeOK, Made, Fifo, NEW w \in Writer, NEW n, NEW k, Adds(w, n, k),
         NEW p \in 1..Len(begun), NEW g \in 0..8, Got(p, g)
  PROVE  Got(p, g)'
<1>1. /\ n \in Nat /\ k \in 1..8 /\ Len(todo[w]) = k /\ todo[w] # <<>> /\ begun' = begun
      /\ whole' = whole \/ (whole' = whole \cup {Of(w)} /\ k = 1)
  <2>1. k = 1 \/ k > 1
    BY DEF Adds
  <2>. QED  BY <2>1 DEF Adds
<1>2. \A i \in DOMAIN stream : i \in DOMAIN stream' /\ stream'[i] = stream[i] /\ At(i)' = At(i) /\ i < n + 1
  BY AddsAt DEF At
<1>3. n + 1 \in DOMAIN stream' /\ stream'[n + 1].no = Of(w) /\ Place(stream'[n + 1].data) = 9 - k
  BY AddsAt
<1>4. ASSUME NEW i \in DOMAIN stream', stream'[i].no = p
      PROVE  /\ At(i)' > g
             /\ At(i)' > g + 1 => \E j \in 1..(i - 1) : stream'[j].no = p /\ At(j)' = At(i)' - 1
  <2>1. CASE i = n + 1
    <3>1. At(i)' = 9 - k /\ Of(w) = p
      BY <1>3, <1>4, <2>1 DEF At
    <3>2. 9 - k > g /\ (9 - k > g + 1 => \E j \in DOMAIN stream : stream[j].no = p /\ At(j) = 8 - k)
      BY <1>1, <3>1 DEF Got
    <3>3. \A j \in DOMAIN stream : j \in 1..(i - 1)
      BY <1>1, <2>1 DEF Adds
    <3>4. 8 - k = At(i)' - 1
      BY <1>1, <3>1
    <3>. QED  BY <1>2, <3>1, <3>2, <3>3, <3>4
  <2>2. CASE i # n + 1
    <3>1. i \in DOMAIN stream /\ stream'[i] = stream[i] /\ At(i)' = At(i)
      BY <1>2, <1>4, <2>2, AddsAt
    <3>2. \A j \in 1..(i - 1) : j \in DOMAIN stream
      BY <1>1, <3>1 DEF Adds
    <3>3. /\ At(i) > g
          /\ At(i) > g + 1 => \E j \in 1..(i - 1) : stream[j].no = p /\ At(j) = At(i) - 1
      BY <1>4, <3>1 DEF Got
    <3>. QED  BY <1>2, <3>1, <3>2, <3>3
  <2>. QED  BY <2>1, <2>2
<1>5. ASSUME NEW v \in Writer, todo'[v] # <<>>, Of(v)' = p
      PROVE  /\ 9 - Len(todo'[v]) > g
             /\ 9 - Len(todo'[v]) > g + 1 =>
                  \E j \in DOMAIN stream' : stream'[j].no = p /\ At(j)' = 8 - Len(todo'[v])
  <2>1. todo[v] # <<>> /\ Of(v) = p
    BY <1>5, AddsTodo
  <2>2. /\ 9 - Len(todo[v]) > g
        /\ 9 - Len(todo[v]) > g + 1 =>
             \E j \in DOMAIN stream : stream[j].no = p /\ At(j) = 8 - Len(todo[v])
    BY <2>1 DEF Got
  <2>3. CASE v = w
    <3>1. Len(todo'[v]) = k - 1 /\ k > 1 /\ Len(todo[v]) = k
      BY <1>5, <2>3, AddsTodo
    <3>2. 9 - (k - 1) > g /\ 8 - (k - 1) = 9 - k
      BY <1>1, <2>2, <3>1
    <3>3. \E j \in DOMAIN stream' : stream'[j].no = p /\ At(j)' = 9 - k
      BY <1>3, <2>1, <2>3 DEF At
    <3>. QED  BY <3>1, <3>2, <3>3
  <2>4. CASE v # w
    <3>1. todo'[v] = todo[v]
      BY <1>5, <2>4, AddsTodo
    <3>. QED  BY <1>2, <2>2, <3>1
  <2>. QED  BY <2>3, <2>4
<1>6. ASSUME p \in whole', g < 8 PROVE \E j \in DOMAIN stream' : stream'[j].no = p /\ At(j)' = 8
  <2>1. CASE p \in whole
    <3>1. \E j \in DOMAIN stream : stream[j].no = p /\ At(j) = 8
      BY <1>6, <2>1 DEF Got
    <3>. QED  BY <1>2, <3>1
  <2>2. CASE p \notin whole
    <3>1. p = Of(w) /\ 9 - k = 8
      BY <1>1, <1>6, <2>2
    <3>. QED  BY <1>3, <3>1 DEF At
  <2>. QED  BY <2>1, <2>2
<1>7. ASSUME g > 0, NEW i \in DOMAIN stream' PROVE stream'[i].no \notin begun'[p].before
  <2>1. CASE i = n + 1
    <3>1. Of(w) \notin whole /\ begun[p].before \subseteq whole
      BY <1>1 DEF Fifo
    <3>. QED  BY <1>1, <1>3, <2>1, <3>1
  <2>2. CASE i # n + 1
    BY <1>1, <1>7, <2>2, AddsAt DEF Got
  <2>. QED  BY <2>1, <2>2
<1>. QED  BY <1>4, <1>5, <1>6, <1>7 DEF Got

\* Another packet's cell is read.
LEMMA GotOther ==
  ASSUME TypeOK, NEW n, Shifts(n), NEW p, NEW g \in 0..8, Got(p, g), stream[1].no # p
  PROVE  Got(p, g)'
<1>1. todo' = todo /\ begun' = begun /\ whole' = whole /\ n \in Nat
  BY DEF Shifts
<1>2. \A j \in DOMAIN stream : stream[j].no = p =>
         /\ j # 1 /\ j - 1 \in DOMAIN stream' /\ stream'[j - 1] = stream[j]
  BY ShiftsAt
<1>3. ASSUME NEW i \in DOMAIN stream', stream'[i].no = p
      PROVE  /\ At(i)' > g
             /\ At(i)' > g + 1 => \E j \in 1..(i - 1) : stream'[j].no = p /\ At(j)' = At(i)' - 1
  <2>1. i \in 1..(n - 1) /\ i + 1 \in DOMAIN stream /\ stream'[i] = stream[i + 1]
    BY <1>3, ShiftsAt
  <2>2. At(i)' = At(i + 1)
    BY <2>1 DEF At
  <2>3. /\ At(i + 1) > g
        /\ At(i + 1) > g + 1 => \E j \in 1..((i + 1) - 1) : stream[j].no = p /\ At(j) = At(i + 1) - 1
    BY <1>3, <2>1 DEF Got
  <2>4. ASSUME At(i)' > g + 1 PROVE \E j \in 1..(i - 1) : stream'[j].no = p /\ At(j)' = At(i)' - 1
    <3>1. PICK j \in 1..((i + 1) - 1) : stream[j].no = p /\ At(j) = At(i + 1) - 1
      BY <2>2, <2>3, <2>4
    <3>2. j \in DOMAIN stream /\ j \in 1..i
      BY <1>1, <2>1, <3>1 DEF Shifts
    <3>3. j # 1 /\ j - 1 \in 1..(i - 1) /\ stream'[j - 1] = stream[j]
      BY <1>2, <2>1, <3>1, <3>2
    <3>4. Place(stream'[j - 1].data) = At(i)' - 1 /\ stream'[j - 1].no = p
      BY <2>2, <3>1, <3>3 DEF At
    <3>. QED  BY <3>3, <3>4 DEF At
  <2>. QED  BY <2>2, <2>3, <2>4
<1>4. ASSUME NEW a, \E j \in DOMAIN stream : stream[j].no = p /\ At(j) = a
      PROVE  \E j \in DOMAIN stream' : stream'[j].no = p /\ At(j)' = a
  <2>1. PICK j \in DOMAIN stream : stream[j].no = p /\ At(j) = a
    BY <1>4
  <2>2. j - 1 \in DOMAIN stream' /\ stream'[j - 1].no = p /\ Place(stream'[j - 1].data) = a
    BY <1>2, <2>1 DEF At
  <2>. QED  BY <2>2 DEF At
<1>5. ASSUME NEW v \in Writer, todo'[v] # <<>>, Of(v)' = p
      PROVE  /\ 9 - Len(todo'[v]) > g
             /\ 9 - Len(todo'[v]) > g + 1 =>
                  \E j \in DOMAIN stream' : stream'[j].no = p /\ At(j)' = 8 - Len(todo'[v])
  <2>1. todo'[v] = todo[v] /\ Of(v) = p /\ todo[v] # <<>>
    BY <1>1, <1>5 DEF Of
  <2>. QED  BY <1>4, <2>1 DEF Got
<1>6. p \in whole' /\ g < 8 => \E j \in DOMAIN stream' : stream'[j].no = p /\ At(j)' = 8
  BY <1>1, <1>4 DEF Got
<1>7. g > 0 => \A i \in DOMAIN stream' : stream'[i].no \notin begun'[p].before
  BY <1>1, ShiftsAt DEF Got
<1>. QED  BY <1>3, <1>5, <1>6, <1>7 DEF Got

\* The next cell of the packet is read.
LEMMA GotNext ==
  ASSUME TypeOK, Made, Sorted, Fifo, NEW n, Shifts(n), NEW p, NEW g \in 0..8, Got(p, g), stream[1].no = p
  PROVE  At(1) = g + 1 /\ g + 1 \in 1..8 /\ \A h : h = g + 1 => Got(p, h)'
<1>1. 1 \in DOMAIN stream
  BY ShiftsAt
<1>2. At(1) = g + 1 /\ g + 1 \in 1..8
  <2>1. At(1) > g /\ (At(1) > g + 1 => \E j \in 1..(1 - 1) : stream[j].no = p /\ At(j) = At(1) - 1)
    BY <1>1 DEF Got
  <2>2. At(1) \in 1..8
    BY <1>1, PlaceOf
  <2>. QED  BY <2>1, <2>2
<1>. SUFFICES ASSUME NEW h, h = g + 1 PROVE Got(p, h)'
  BY <1>2
<1>3. todo' = todo /\ begun' = begun /\ whole' = whole /\ n \in Nat
  BY DEF Shifts
<1>4. \A j \in DOMAIN stream : j # 1 =>
         /\ j - 1 \in DOMAIN stream' /\ stream'[j - 1] = stream[j]
  BY ShiftsAt
<1>5. ASSUME NEW a, a # h, \E j \in DOMAIN stream : stream[j].no = p /\ At(j) = a
      PROVE  \E j \in DOMAIN stream' : stream'[j].no = p /\ At(j)' = a
  <2>1. PICK j \in DOMAIN stream : stream[j].no = p /\ At(j) = a
    BY <1>5
  <2>2. j - 1 \in DOMAIN stream' /\ stream'[j - 1].no = p /\ Place(stream'[j - 1].data) = a
    BY <1>2, <1>4, <1>5, <2>1 DEF At
  <2>. QED  BY <2>2 DEF At
<1>6. ASSUME NEW i \in DOMAIN stream', stream'[i].no = p
      PROVE  /\ At(i)' > h
             /\ At(i)' > h + 1 => \E j \in 1..(i - 1) : stream'[j].no = p /\ At(j)' = At(i)' - 1
  <2>1. i \in 1..(n - 1) /\ i + 1 \in DOMAIN stream /\ stream'[i] = stream[i + 1] /\ 1 < i + 1
    BY <1>3, <1>6, ShiftsAt
  <2>2. At(i)' = At(i + 1) /\ At(i + 1) \in 1..8
    BY <2>1, PlaceOf DEF At
  <2>3. At(1) < At(i + 1)
    BY <1>1, <1>6, <2>1 DEF Sorted
  <2>4. At(i + 1) > g + 1 => \E j \in 1..((i + 1) - 1) : stream[j].no = p /\ At(j) = At(i + 1) - 1
    BY <1>6, <2>1 DEF Got
  <2>5. ASSUME At(i)' > h + 1 PROVE \E j \in 1..(i - 1) : stream'[j].no = p /\ At(j)' = At(i)' - 1
    <3>1. At(i + 1) > g + 1
      BY <1>2, <2>2, <2>5
    <3>2. PICK j \in 1..((i + 1) - 1) : stream[j].no = p /\ At(j) = At(i + 1) - 1
      BY <2>4, <3>1
    <3>3. j \in DOMAIN stream /\ j \in 1..i
      BY <1>3, <2>1, <3>2 DEF Shifts
    <3>4. j # 1
      BY <1>2, <2>2, <2>5, <3>2
    <3>5. j - 1 \in 1..(i - 1) /\ stream'[j - 1] = stream[j]
      BY <1>4, <2>1, <3>3, <3>4
    <3>6. Place(stream'[j - 1].data) = At(i)' - 1 /\ stream'[j - 1].no = p
      BY <2>2, <3>2, <3>5 DEF At
    <3>. QED  BY <3>5, <3>6 DEF At
  <2>. QED  BY <1>2, <2>2, <2>3, <2>5
<1>7. ASSUME NEW v \in Writer, todo'[v] # <<>>, Of(v)' = p
      PROVE  /\ 9 - Len(todo'[v]) > h
             /\ 9 - Len(todo'[v]) > h + 1 =>
                  \E j \in DOMAIN stream' : stream'[j].no = p /\ At(j)' = 8 - Len(todo'[v])
  <2>1. todo'[v] = todo[v] /\ Of(v) = p /\ todo[v] # <<>>
    BY <1>3, <1>7 DEF Of
  <2>2. Len(todo[v]) \in 1..8
    BY <2>1 DEF Made, LeftTo
  <2>3. At(1) < 9 - Len(todo[v])
    BY <1>1, <2>1 DEF Sorted
  <2>4. 9 - Len(todo[v]) > g + 1 => \E j \in DOMAIN stream : stream[j].no = p /\ At(j) = 8 - Len(todo[v])
    BY <2>1 DEF Got
  <2>5. ASSUME 9 - Len(todo[v]) > h + 1
        PROVE \E j \in DOMAIN stream' : stream'[j].no = p /\ At(j)' = 8 - Len(todo[v])
    <3>1. 8 - Len(todo[v]) # h /\ 9 - Len(todo[v]) > g + 1
      BY <1>2, <2>2, <2>5
    <3>. QED  BY <1>5, <2>4, <3>1
  <2>. QED  BY <1>2, <2>1, <2>3, <2>5
<1>8. ASSUME p \in whole', h < 8 PROVE \E j \in DOMAIN stream' : stream'[j].no = p /\ At(j)' = 8
  <2>1. \E j \in DOMAIN stream : stream[j].no = p /\ At(j) = 8
    BY <1>2, <1>3, <1>8 DEF Got
  <2>2. 8 # h
    BY <1>2, <1>8
  <2>. QED  BY <1>5, <2>1, <2>2
<1>9. ASSUME NEW i \in DOMAIN stream' PROVE stream'[i].no \notin begun'[p].before
  <2>1. i + 1 \in DOMAIN stream /\ stream'[i] = stream[i + 1] /\ 1 < i + 1
    BY <1>3, <1>9, ShiftsAt
  <2>. QED  BY <1>1, <1>3, <2>1 DEF Fifo
<1>. QED  BY <1>6, <1>7, <1>8, <1>9 DEF Got

--------------------------------------------------------------------------------
(* InStep.                                                                   *)

LEMMA CountsAre ==
  ASSUME TypeOK, NEW p, NEW cur
  PROVE  Counts(p, cur) \subseteq 0..8
<1>1. Len(call) \in {0, 1, 2, 3, 4, 5, 6, 7}
  BY TypesAre, LenUpTo DEF TypeOK
<1>2. \A l \in {0, 1, 2, 3, 4, 5, 6, 7} : GotBy(l) \subseteq 0..8
  BY DEF GotBy
<1>3. GotBy(Len(call)) \subseteq 0..8
  BY <1>1, <1>2, Zenon
<1>4. 6..8 \subseteq 0..8 /\ {0} \subseteq 0..8
  OBVIOUS
<1>. QED  BY <1>3, <1>4 DEF Counts

\* A step that leaves the call alone
LEMMA StandsKeeps ==
  ASSUME TypeOK, NEW cur, Stands(cur),
         UNCHANGED <<call, number, taken>>, Len(begun') = Len(begun),
         \A p \in 1..Len(begun), g \in 0..8 : Got(p, g) => Got(p, g)'
  PROVE  Stands(cur)'
<1>1. Takens' = Takens
  BY DEF Takens
<1>2. \A p : Counts(p, cur)' = Counts(p, cur)
  BY <1>1 DEF Counts
<1>3. ASSUME NEW p \in 1..Len(begun') PROVE \E g \in Counts(p, cur)' : Got(p, g)'
  <2>1. p \in 1..Len(begun)
    OBVIOUS
  <2>2. PICK g \in Counts(p, cur) : Got(p, g)
    BY <2>1 DEF Stands
  <2>3. g \in 0..8
    BY CountsAre
  <2>. QED  BY <1>2, <2>1, <2>2, <2>3
<1>. QED  BY <1>1, <1>3 DEF Stands

LEMMA InStepAdds ==
  ASSUME TypeOK, Made, Fifo, InStep, NEW w \in Writer, NEW n, NEW k, Adds(w, n, k), Write(w)
  PROVE  InStep'
<1>. SUFFICES ASSUME "paused" \notin trouble', state' # "closed", Good(call)'
              PROVE  \E cur \in 0..Len(begun') : Stands(cur)'
  BY DEF InStep
<1>1. call' = call /\ state' = state /\ begun' = begun /\ UNCHANGED <<call, number, taken>>
  BY DEF Adds
<1>2. "paused" \notin trouble
  BY DEF Write
<1>3. PICK cur \in 0..Len(begun) : Stands(cur)
  BY <1>1, <1>2 DEF InStep, Good
<1>4. Stands(cur)'
  BY <1>1, <1>3, GotAdds, StandsKeeps
<1>. QED  BY <1>1, <1>4

LEMMA InStepSheds ==
  ASSUME TypeOK, InStep, Sheds, state' # "closed" => state # "closed"
  PROVE  InStep'
<1>. SUFFICES ASSUME "paused" \notin trouble', state' # "closed", Good(call)'
              PROVE  \E cur \in 0..Len(begun') : Stands(cur)'
  BY DEF InStep
<1>1. call' = call /\ begun' = begun /\ trouble' = trouble /\ UNCHANGED <<call, number, taken>>
  BY DEF Sheds
<1>2. PICK cur \in 0..Len(begun) : Stands(cur)
  BY <1>1 DEF InStep, Good
<1>3. Stands(cur)'
  BY <1>1, <1>2, GotSheds, StandsKeeps
<1>. QED  BY <1>1, <1>3

LEMMA InStepStarts ==
  ASSUME TypeOK, Made, Tested, Once, InStep, NEW w \in Writer, NEW m, NEW b, Starts(w, m, b)
  PROVE  InStep'
<1>. SUFFICES ASSUME "paused" \notin trouble', state' # "closed", Good(call)'
              PROVE  \E cur \in 0..Len(begun') : Stands(cur)'
  BY DEF InStep
<1>1. /\ call' = call /\ number' = number /\ taken' = taken /\ state' = state /\ trouble' = trouble
      /\ b \in Nat /\ Len(begun) = b /\ Len(begun') = b + 1
  BY DEF Starts
<1>2. PICK cur \in 0..b : Stands(cur)
  BY <1>1 DEF InStep, Good
<1>3. Takens' = Takens /\ \A p \in Takens : p \in 1..b
  BY <1>1 DEF Takens, Once
<1>4. \A p : Counts(p, cur)' = Counts(p, cur)
  BY <1>1, <1>3 DEF Counts
<1>5. ASSUME NEW p \in 1..(b + 1) PROVE \E g \in Counts(p, cur)' : Got(p, g)'
  <2>1. CASE p = b + 1
    <3>1. Got(p, 0)'
      BY <2>1, GotNew
    <3>2. p \notin Takens /\ p # cur
      BY <1>1, <1>2, <1>3, <2>1
    <3>3. 0 \in Counts(p, cur)
      BY <3>2 DEF Counts
    <3>. QED  BY <1>4, <3>1, <3>3
  <2>2. CASE p # b + 1
    <3>1. p \in 1..b
      BY <1>1, <2>2
    <3>2. PICK g \in Counts(p, cur) : Got(p, g)
      BY <1>1, <1>2, <3>1 DEF Stands
    <3>3. g \in 0..8
      BY CountsAre
    <3>. QED  BY <1>4, <3>1, <3>2, <3>3, GotStarts
  <2>. QED  BY <2>1, <2>2
<1>6. call # <<>> => cur \in (1..(b + 1)) \ Takens'
  BY <1>1, <1>2, <1>3 DEF Stands
<1>7. Stands(cur)'
  BY <1>1, <1>2, <1>5, <1>6 DEF Stands
<1>. QED  BY <1>1, <1>2, <1>7

\* A call that goes on with the next place
LEMMA GoodGoes ==
  ASSUME NEW n, NEW c, NEW x, Moves(n, c, x), Good(c)
  PROVE  Good(call) /\ Place(x) = n + 1
<1>1. n + 1 \in DOMAIN c /\ \A i \in DOMAIN call : i \in DOMAIN c /\ c[i] = call[i]
  BY DEF Moves
<1>. QED  BY <1>1 DEF Good, Moves

\* What the first cell says of its packet
LEMMA FirstCell ==
  ASSUME TypeOK, Made, Sorted, Fifo, NEW cur, Stands(cur), NEW s, Shifts(s),
         NEW n \in 0..7, At(1) = n + 1
  PROVE  \A q : q = stream[1].no =>
           /\ q \in 1..Len(begun) /\ n \in Counts(q, cur)
           /\ \A h : h = n + 1 => Got(q, h)'
           /\ \A p \in 1..Len(begun), g \in 0..8 : p # q /\ Got(p, g) => Got(p, g)'
<1>. SUFFICES ASSUME NEW q, q = stream[1].no
              PROVE  /\ q \in 1..Len(begun) /\ n \in Counts(q, cur)
                     /\ \A h : h = n + 1 => Got(q, h)'
                     /\ \A p \in 1..Len(begun), g \in 0..8 : p # q /\ Got(p, g) => Got(p, g)'
  OBVIOUS
<1>1. q \in 1..Len(begun)
  BY ShiftsAt DEF Made, CellOf
<1>2. PICK g \in Counts(q, cur) : Got(q, g)
  BY <1>1 DEF Stands
<1>3. g \in 0..8
  BY CountsAre
<1>4. At(1) = g + 1 /\ \A h : h = g + 1 => Got(q, h)'
  BY <1>2, <1>3, GotNext
<1>5. g = n
  BY <1>3, <1>4
<1>. QED  BY <1>1, <1>2, <1>4, <1>5, GotOther

LEMMA StandsGoes ==
  ASSUME TypeOK, Made, Sorted, Fifo, NEW n, NEW c, NEW x, Moves(n, c, x), GoesOn(n, c), Good(c),
         NEW cur \in 0..Len(begun), Stands(cur)
  PROVE  \E e \in 0..Len(begun) : Stands(e)'
<1>1. /\ n \in 0..6 /\ Len(call) = n /\ call' = c /\ Len(call') = n + 1 /\ call' # <<>>
      /\ begun' = begun /\ taken' = taken /\ Takens' = Takens /\ (call = <<>> <=> n = 0)
      /\ number' = IF n = 3 THEN stream[1].no ELSE number
  <2>1. /\ n \in 0..7 /\ n < 7 /\ Len(call) = n /\ call' = c /\ Len(c) = n + 1 /\ DOMAIN c = 1..(n + 1)
        /\ begun' = begun /\ taken' = taken /\ (call = <<>> <=> n = 0)
        /\ number' = IF n = 3 THEN stream[1].no ELSE number
    BY DEF Moves, GoesOn
  <2>2. c # <<>>
    <3>1. Len(<<>>) = 0 /\ n + 1 # 0
      BY <2>1
    <3>. QED  BY <2>1, <3>1
  <2>. QED  BY <2>1, <2>2 DEF Takens
<1>2. \A p, e : Counts(p, e)' = IF p \in Takens THEN 6..8 ELSE IF p = e THEN GotBy(n + 1) ELSE {0}
  BY <1>1 DEF Counts
<1>3. \A p : Counts(p, cur) = IF p \in Takens THEN 6..8 ELSE IF p = cur /\ n # 0 THEN GotBy(n) ELSE {0}
  BY <1>1 DEF Counts
<1>4. ASSUME NEW p \in 1..Len(begun) PROVE \E g \in 0..8 : g \in Counts(p, cur) /\ Got(p, g)
  BY CountsAre DEF Stands
<1>5. CASE n = 4 /\ stream' = stream
  <2>1. \A p, g : Got(p, g) => Got(p, g)'
    BY <1>5 DEF Moves, Got, At, Of
  <2>2. \A p : Counts(p, cur) \subseteq Counts(p, cur)'
    BY <1>2, <1>3, <1>5 DEF GotBy
  <2>3. Stands(cur)'
    BY <1>1, <1>5, <2>1, <2>2 DEF Stands
  <2>. QED  BY <2>3
<1>6. CASE stream # <<>> /\ x = stream[1].data /\ \E s : Shifts(s)
  <2>. PICK s : Shifts(s)
    BY <1>6
  <2>. PICK q : q = stream[1].no
    OBVIOUS
  <2>1. At(1) = n + 1
    BY <1>6, GoodGoes DEF At
  <2>2. /\ q \in 1..Len(begun) /\ n \in Counts(q, cur)
        /\ \A h : h = n + 1 => Got(q, h)'
        /\ \A p \in 1..Len(begun), g \in 0..8 : p # q /\ Got(p, g) => Got(p, g)'
    <3>1. n \in 0..7
      BY <1>1
    <3>. QED  BY <2>1, <3>1, FirstCell
  <2>3. CASE n = 0
    <3>1. q \notin Takens
      BY <1>3, <2>2, <2>3
    <3>2. ASSUME NEW p \in 1..Len(begun) PROVE \E g \in Counts(p, q)' : Got(p, g)'
      <4>1. CASE p = q
        BY <1>2, <2>2, <2>3, <3>1, <4>1 DEF GotBy
      <4>2. CASE p # q
        <5>1. Counts(p, q)' = Counts(p, cur)
          BY <1>2, <1>3, <2>3, <4>2
        <5>. QED  BY <1>4, <2>2, <4>2, <5>1
      <4>. QED  BY <4>1, <4>2
    <3>3. ~(Len(call') >= 4)
      BY <1>1, <2>3
    <3>4. Stands(q)'
      BY <1>1, <2>2, <3>1, <3>2, <3>3 DEF Stands
    <3>. QED  BY <2>2, <3>4
  <2>4. CASE n # 0
    <3>1. cur \in (1..Len(begun)) \ Takens
      BY <1>1, <2>4 DEF Stands
    <3>2. q = cur \/ (n = 6 /\ q \in Takens)
      <4>1. n # 0 /\ n \notin 7..8
        BY <1>1, <2>4
      <4>. QED  BY <1>1, <1>3, <2>2, <2>4, <4>1
    <3>3. n \in 1..6
      BY <1>1, <2>4
    <3>4. n + 1 \in GotBy(n + 1)
      BY <3>3 DEF GotBy
    <3>5. ASSUME NEW p \in 1..Len(begun) PROVE \E g \in Counts(p, cur)' : Got(p, g)'
      <4>1. CASE p = q
        <5>1. n + 1 \in Counts(q, cur)'
          <6>1. n = 6 => n + 1 \in 6..8
            BY <3>3
          <6>. QED  BY <1>2, <3>1, <3>2, <3>4, <6>1
        <5>. QED  BY <2>2, <4>1, <5>1
      <4>2. CASE p # q
        <5>1. PICK g \in 0..8 : g \in Counts(p, cur) /\ Got(p, g)
          BY <1>4
        <5>2. g \in Counts(p, cur)'
          <6>1. CASE p \in Takens
            BY <1>2, <1>3, <5>1, <6>1
          <6>2. CASE p \notin Takens /\ p = cur
            <7>1. n = 6
              BY <3>2, <4>2, <6>2
            <7>2. g \in GotBy(6)
              BY <1>3, <2>4, <5>1, <6>2, <7>1
            <7>. QED  BY <1>2, <6>2, <7>1, <7>2 DEF GotBy
          <6>3. CASE p \notin Takens /\ p # cur
            BY <1>2, <1>3, <5>1, <6>3
          <6>. QED  BY <6>1, <6>2, <6>3
        <5>. QED  BY <2>2, <4>2, <5>1, <5>2
      <4>. QED  BY <4>1, <4>2
    <3>6. Len(call') >= 4 => number' = cur
      <4>1. CASE n = 3
        BY <1>1, <3>2, <4>1
      <4>2. CASE n # 3
        <5>1. n + 1 >= 4 => n >= 4
          BY <3>3, <4>2
        <5>. QED  BY <1>1, <4>2, <5>1 DEF Stands
      <4>. QED  BY <4>1, <4>2
    <3>7. Stands(cur)'
      BY <1>1, <3>1, <3>5, <3>6 DEF Stands
    <3>. QED  BY <3>7
  <2>. QED  BY <2>3, <2>4
<1>7. (n = 4 /\ stream' = stream) \/ (stream # <<>> /\ x = stream[1].data /\ \E s : Shifts(s))
  <2>1. n # 7
    BY <1>1
  <2>. QED  BY <2>1 DEF Moves
<1>. QED  BY <1>5, <1>6, <1>7

LEMMA InStepGoes ==
  ASSUME TypeOK, Made, Sorted, Fifo, InStep, NEW n, NEW c, NEW x, Moves(n, c, x), GoesOn(n, c)
  PROVE  InStep'
<1>. SUFFICES ASSUME "paused" \notin trouble', state' # "closed", Good(call)'
              PROVE  \E cur \in 0..Len(begun') : Stands(cur)'
  BY DEF InStep
<1>1. call' = c /\ state' = state /\ begun' = begun /\ trouble' = trouble
  BY DEF Moves, GoesOn
<1>2. Good(c)
  BY <1>1 DEF Good
<1>3. PICK cur \in 0..Len(begun) : Stands(cur)
  BY <1>1, <1>2, GoodGoes DEF InStep
<1>. QED  BY <1>1, <1>2, <1>3, StandsGoes

LEMMA InStepDelivers ==
  ASSUME TypeOK, Made, Sorted, Fifo, Tested, Once, InStep,
         NEW n, NEW c, NEW x, Moves(n, c, x), Delivers(n, c)
  PROVE  InStep'
<1>. SUFFICES ASSUME "paused" \notin trouble', state' # "closed", Good(call)'
              PROVE  \E cur \in 0..Len(begun') : Stands(cur)'
  BY DEF InStep
<1>1. /\ n = 7 /\ Len(call) = 7 /\ call # <<>> /\ call' = <<>> /\ Len(call') = 0
      /\ state' = state /\ begun' = begun /\ trouble' = trouble
      /\ DOMAIN call = 1..7 /\ \A i \in 1..7 : c[i] = call[i]
  <2>1. Len(<<>>) = 0
    OBVIOUS
  <2>. QED  BY <2>1 DEF Moves, Delivers
<1>2. /\ \A k \in 4..8 : Place(c[k]) = k
      /\ number \in 1..Len(begun) /\ Takens' = Takens \cup {number}
  BY Delivered
<1>3. Good(call)
  <2>1. ASSUME NEW i \in 1..7 PROVE Place(call[i]) = i
    <3>1. CASE i \in 1..3
      <4>1. Len(call) >= 3 /\ i <= Len(call)
        BY <1>1, <3>1
      <4>. QED  BY <3>1, <4>1 DEF Tested
    <3>2. CASE i \notin 1..3
      BY <1>1, <1>2, <3>2
    <3>. QED  BY <3>1, <3>2
  <2>. QED  BY <1>1, <2>1 DEF Good
<1>4. PICK cur \in 0..Len(begun) : Stands(cur)
  BY <1>1, <1>3 DEF InStep
<1>5. cur = number
  <2>1. Len(call) >= 4
    BY <1>1
  <2>. QED  BY <1>4, <2>1 DEF Stands
<1>6. \A p : Counts(p, cur) = IF p \in Takens' THEN 6..8 ELSE {0}
  BY <1>1, <1>2, <1>5 DEF Counts, GotBy
<1>7. \A p : Counts(p, 0)' = IF p \in Takens' THEN 6..8 ELSE {0}
  BY <1>1 DEF Counts
<1>8. ASSUME NEW p \in 1..Len(begun) PROVE \E g \in Counts(p, 0)' : Got(p, g)'
  <2>1. PICK g \in Counts(p, cur) : Got(p, g)
    BY <1>4 DEF Stands
  <2>2. g \in 0..8
    BY CountsAre
  <2>3. CASE stream' = stream
    <3>1. Got(p, g)'
      BY <2>1, <2>3 DEF Moves, Got, At, Of
    <3>. QED  BY <1>6, <1>7, <2>1, <3>1
  <2>4. CASE stream # <<>> /\ x = stream[1].data /\ \E s : Shifts(s)
    <3>. PICK s : Shifts(s)
      BY <2>4
    <3>. PICK q : q = stream[1].no
      OBVIOUS
    <3>1. At(1) = 7 + 1
      <4>1. Place(c[8]) = 8 /\ c[8] = x
        BY <1>1, <1>2 DEF Moves
      <4>. QED  BY <2>4, <4>1 DEF At
    <3>2. /\ 7 \in Counts(q, cur) /\ \A h : h = 7 + 1 => Got(q, h)'
          /\ \A e \in 1..Len(begun), f \in 0..8 : e # q /\ Got(e, f) => Got(e, f)'
      BY <1>4, <3>1, FirstCell
    <3>3. CASE p = q
      <4>1. p \in Takens'
        BY <1>6, <3>2, <3>3
      <4>2. 8 \in Counts(p, 0)' /\ Got(p, 8)'
        BY <1>7, <3>2, <3>3, <4>1
      <4>. QED  BY <4>2
    <3>4. CASE p # q
      BY <1>6, <1>7, <2>1, <2>2, <3>2, <3>4
    <3>. QED  BY <3>3, <3>4
  <2>. QED  BY <2>3, <2>4 DEF Moves
<1>9. Stands(0)'
  BY <1>1, <1>8 DEF Stands
<1>10. 0 \in 0..Len(begun)
  BY <1>4
<1>. QED  BY <1>1, <1>9, <1>10

LEMMA InStepReadsNothing ==
  ASSUME TypeOK, InStep, ReadsNothing
  PROVE  InStep'
<1>. SUFFICES ASSUME "paused" \notin trouble', state' # "closed", Good(call)'
              PROVE  \E cur \in 0..Len(begun') : Stands(cur)'
  BY DEF InStep
<1>1. call = <<>> /\ UNCHANGED <<state, stream, todo, call, number, begun, whole, trouble, taken>>
  BY DEF ReadsNothing, Again
<1>2. PICK cur \in 0..Len(begun) : Stands(cur)
  BY <1>1 DEF InStep, Good
<1>3. Stands(cur)'
  BY <1>1, <1>2 DEF Stands, Counts, Takens, Got, At, Of
<1>. QED  BY <1>1, <1>3

--------------------------------------------------------------------------------
(* InOrder.                                                                  *)

LEMMA InOrderKeeps ==
  ASSUME TypeOK, Once, InOrder, taken' = taken,
         \A p \in 1..Len(begun) : begun'[p] = begun[p],
         \/ trouble' = trouble
         \/ trouble' = trouble \cup {"crossed"}
         \/ trouble' = trouble \cup {"paused"}
  PROVE  InOrder'
<1>1. trouble' # {"crossed", "paused"} => trouble # {"crossed", "paused"}
  OBVIOUS
<1>2. \A i \in DOMAIN taken : begun'[taken[i].no] = begun[taken[i].no]
  BY DEF Once
<1>. QED  BY <1>1, <1>2 DEF InOrder

LEMMA InOrderDelivers ==
  ASSUME TypeOK, Made, Sorted, Fifo, Tested, Once, InStep, InTurn, InOrder, Idle,
         NEW n, NEW c, NEW x, Moves(n, c, x), Delivers(n, c)
  PROVE  InOrder'
<1>. SUFFICES ASSUME trouble' # {"crossed", "paused"}
              PROVE  \A i \in DOMAIN taken' :
                        begun'[taken'[i].no].before \subseteq {taken'[j].no : j \in 1..(i - 1)}
  BY DEF InOrder
<1>. DEFINE l == Len(taken)
<1>1. /\ n = 7 /\ Len(call) = 7 /\ call # <<>> /\ begun' = begun /\ trouble' = trouble
      /\ DOMAIN call = 1..7 /\ (\A i \in 1..7 : c[i] = call[i]) /\ state # "closed"
  BY DEF Moves, Delivers, Idle
<1>2. /\ \A k \in 4..8 : Place(c[k]) = k
      /\ number \in 1..Len(begun) /\ number \notin Takens
  BY Delivered DEF Once
<1>3. /\ l \in Nat /\ DOMAIN taken = 1..l /\ DOMAIN taken' = 1..(l + 1)
      /\ \A i \in 1..l : taken'[i] = taken[i]
      /\ taken'[l + 1].no = number
  <2>1. c \in Seq(Cells) /\ Len(c) = 8
    BY DEF Moves, Delivers
  <2>2. taken' = Append(taken, [no |-> number, msg |-> SubSeq(c, 4, 5)])
    BY Delivered
  <2>. QED  BY <1>2, <2>1, <2>2, TakenIs
<1>4. begun[number].before \subseteq Takens
  <2>1. "paused" \notin trouble
    <3>1. ASSUME "paused" \in trouble PROVE FALSE
      <4>1. "crossed" \notin trouble
        BY <1>1, <3>1 DEF TypeOK
      <4>2. PICK e \in 1..8 : Pace(e)
        BY <1>1, <4>1 DEF InTurn
      <4>. QED  BY <1>1, <3>1, <4>2 DEF Pace
    <3>. QED  BY <3>1
  <2>2. Good(call)
    <3>1. ASSUME NEW i \in 1..7 PROVE Place(call[i]) = i
      <4>1. CASE i \in 1..3
        <5>1. Len(call) >= 3 /\ i <= Len(call)
          BY <1>1, <4>1
        <5>. QED  BY <4>1, <5>1 DEF Tested
      <4>2. CASE i \notin 1..3
        BY <1>1, <1>2, <4>2
      <4>. QED  BY <4>1, <4>2
    <3>. QED  BY <1>1, <3>1 DEF Good
  <2>3. PICK cur \in 0..Len(begun) : Stands(cur)
    BY <1>1, <2>1, <2>2 DEF InStep
  <2>4. cur = number
    <3>1. Len(call) >= 4
      BY <1>1
    <3>. QED  BY <2>3, <3>1 DEF Stands
  <2>5. PICK g \in 6..8 : Got(number, g)
    BY <1>1, <1>2, <2>3, <2>4 DEF Stands, Counts, GotBy
  <2>6. \A i \in DOMAIN stream : stream[i].no \notin begun[number].before
    BY <2>5 DEF Got
  <2>7. ASSUME NEW q \in begun[number].before, q \notin Takens PROVE FALSE
    <3>1. q \in whole /\ q # number /\ q \in 1..Len(begun)
      BY <1>2 DEF Fifo, TypeOK
    <3>2. Counts(q, cur) = {0}
      BY <2>4, <2>7, <3>1 DEF Counts
    <3>3. Got(q, 0)
      BY <2>3, <3>1, <3>2 DEF Stands
    <3>4. \E j \in DOMAIN stream : stream[j].no = q
      BY <3>1, <3>3 DEF Got
    <3>. QED  BY <2>6, <3>4
  <2>. QED  BY <2>7
<1>. HIDE DEF l
<1>5. ASSUME NEW i \in DOMAIN taken'
      PROVE  begun'[taken'[i].no].before \subseteq {taken'[j].no : j \in 1..(i - 1)}
  <2>1. CASE i = l + 1
    <3>1. taken'[i].no = number /\ i - 1 = l
      BY <1>3, <2>1
    <3>2. Takens = {taken'[j].no : j \in 1..l}
      BY <1>3 DEF Takens
    <3>. QED  BY <1>1, <1>4, <3>1, <3>2
  <2>2. CASE i # l + 1
    <3>1. i \in 1..l /\ taken'[i] = taken[i]
      BY <1>3, <1>5, <2>2
    <3>2. \A j \in 1..(i - 1) : taken'[j] = taken[j]
      BY <1>3, <3>1
    <3>3. begun[taken[i].no].before \subseteq {taken[j].no : j \in 1..(i - 1)}
      BY <1>1, <1>3, <3>1 DEF InOrder
    <3>. QED  BY <1>1, <3>1, <3>2, <3>3
  <2>. QED  BY <2>1, <2>2
<1>. QED  BY <1>5

--------------------------------------------------------------------------------
(* InTurn.                                                                   *)

LEMMA AfterIs == \A d \in 1..8 : After(d) \in 1..8 /\ (d # 8 => After(d) = d + 1)
BY DEF After

LEMMA DueIs ==
  ASSUME TypeOK, Made, NEW e \in 1..8
  PROVE  Due(e) \in 1..8
<1>1. CASE stream = <<>>
  BY <1>1 DEF Due
<1>2. CASE stream # <<>>
  <2>1. Len(stream) \in DOMAIN stream
    BY <1>2, TypesAre
  <2>. QED  BY <1>2, <2>1, PlaceOf, AfterIs DEF Due
<1>. QED  BY <1>1, <1>2

LEMMA FlowStarts ==
  ASSUME TypeOK, NEW e \in 1..8, Flow(e), NEW w \in Writer, NEW m, NEW b, Starts(w, m, b), Made
  PROVE  Flow(e)'
<1>1. /\ stream' = stream /\ state' = state /\ todo[w] = <<>> /\ Len(todo'[w]) = 8
      /\ \A v \in Writer \ {w} : todo'[v] = todo[v]
  BY DEF Starts
<1>2. Due(e)' = Due(e) /\ Due(e) \in 1..8
  BY <1>1, DueIs DEF Due, At
<1>3. Len(todo[w]) = 0
  BY <1>1
<1>4. \A v \in Writer : v # w => Len(todo'[v]) = Len(todo[v])
  BY <1>1
<1>5. ASSUME state = "open"
      PROVE  /\ \A v \in Writer : Len(todo'[v]) \in {0, 8, 9 - Due(e)}
             /\ Due(e) # 1 => \E v \in Writer : Len(todo'[v]) = 9 - Due(e)
             /\ \A u, v \in Writer : Len(todo'[u]) \in 1..7 /\ Len(todo'[v]) \in 1..7 => u = v
  <2>1. /\ \A v \in Writer : Len(todo[v]) \in {0, 8, 9 - Due(e)}
        /\ Due(e) # 1 => \E v \in Writer : Len(todo[v]) = 9 - Due(e)
        /\ \A u, v \in Writer : Len(todo[u]) \in 1..7 /\ Len(todo[v]) \in 1..7 => u = v
    BY <1>5 DEF Flow
  <2>2. \A v \in Writer : Len(todo'[v]) \in {0, 8, 9 - Due(e)}
    BY <1>1, <1>4, <2>1
  <2>3. ASSUME Due(e) # 1 PROVE \E v \in Writer : Len(todo'[v]) = 9 - Due(e)
    <3>1. PICK v \in Writer : Len(todo[v]) = 9 - Due(e)
      BY <2>1, <2>3
    <3>2. 9 - Due(e) # 0
      BY <1>2
    <3>3. v # w
      BY <1>3, <3>1, <3>2
    <3>. QED  BY <1>4, <3>1, <3>3
  <2>4. ASSUME NEW u \in Writer, Len(todo'[u]) \in 1..7 PROVE Len(todo[u]) \in 1..7
    <3>1. 8 \notin 1..7
      OBVIOUS
    <3>2. u # w
      BY <1>1, <2>4, <3>1
    <3>. QED  BY <1>4, <2>4, <3>2
  <2>. QED  BY <2>1, <2>2, <2>3, <2>4
<1>6. Len(stream') = Len(stream) /\ \A i : At(i)' = At(i)
  BY <1>1 DEF At
<1>7. \A i : At(i + 1)' = At(i + 1)
  BY <1>1 DEF At
<1>. QED  BY <1>1, <1>2, <1>5, <1>6, <1>7 DEF Flow

\* The next cell is that of the packet that is being written, or a first one.
LEMMA Whose ==
  ASSUME TypeOK, Made, NEW e \in 1..8, Flow(e), state = "open", NEW w \in Writer, Len(todo[w]) \in 1..8,
         ~ \E v \in Writer \ {w} : Len(todo[v]) \in 1..7
  PROVE  Len(todo[w]) = 9 - Due(e)
<1>1. /\ Len(todo[w]) \in {0, 8, 9 - Due(e)}
      /\ Due(e) # 1 => \E v \in Writer : Len(todo[v]) = 9 - Due(e)
  BY DEF Flow
<1>2. Due(e) \in 1..8
  BY DueIs
<1>3. ASSUME Len(todo[w]) = 8, Due(e) # 1 PROVE FALSE
  <2>1. PICK v \in Writer : Len(todo[v]) = 9 - Due(e)
    BY <1>1, <1>3
  <2>2. 9 - Due(e) \in 1..7
    BY <1>2, <1>3
  <2>3. v # w
    <3>1. 8 \notin 1..7
      OBVIOUS
    <3>. QED  BY <1>3, <2>1, <2>2, <3>1
  <2>. QED  BY <2>1, <2>2, <2>3
<1>4. CASE Len(todo[w]) = 8
  <2>1. Due(e) = 1
    BY <1>3, <1>4
  <2>2. 9 - 1 = 8
    OBVIOUS
  <2>. QED  BY <1>4, <2>1, <2>2
<1>5. CASE Len(todo[w]) # 8
  <2>1. 0 \notin 1..8
    OBVIOUS
  <2>2. Len(todo[w]) # 0
    BY <2>1
  <2>. QED  BY <1>1, <1>5, <2>2
<1>. QED  BY <1>4, <1>5

LEMMA FlowAdds ==
  ASSUME TypeOK, Made, NEW e \in 1..8, Flow(e), NEW w \in Writer, NEW n, NEW k, Adds(w, n, k),
         ~ \E v \in Writer \ {w} : Len(todo[v]) \in 1..7
  PROVE  Flow(e)'
<1>. DEFINE d == Due(e)
<1>1. /\ n \in Nat /\ k \in 1..8 /\ Len(todo[w]) = k /\ state = "open"
      /\ Len(stream) = n /\ Len(stream') = n + 1 /\ \A i \in 1..n : stream'[i] = stream[i]
      /\ Place(stream'[n + 1].data) = 9 - k
      /\ \A v \in Writer \ {w} : todo'[v] = todo[v]
  BY DEF Adds
<1>2. k = 9 - d /\ d \in 1..8
  BY <1>1, Whose, DueIs
<1>3. stream # <<>> => n # 0 /\ d = After(At(n))
  BY <1>1, TypesAre DEF Due
<1>4. stream = <<>> => n = 0 /\ d = e
  BY <1>1 DEF Due
<1>5. stream' # <<>>
  <2>1. Len(<<>>) = 0 /\ n + 1 # 0
    BY <1>1
  <2>. QED  BY <1>1, <2>1
<1>6. Due(e)' = After(9 - k)
  BY <1>1, <1>5 DEF Due, At
<1>7. Len(todo'[w]) = k - 1
  <2>1. CASE k = 1
    <3>1. Len(<<>>) = 0 /\ 1 - 1 = 0
      OBVIOUS
    <3>. QED  BY <2>1, <3>1 DEF Adds
  <2>2. CASE k # 1
    <3>1. k > 1
      BY <1>1, <2>2
    <3>. QED  BY <3>1 DEF Adds
  <2>. QED  BY <2>1, <2>2
<1>8. \A v \in Writer : v # w => Len(todo'[v]) = Len(todo[v]) /\ Len(todo[v]) \in {0, 8}
  <2>1. ASSUME NEW v \in Writer, v # w PROVE Len(todo[v]) \in {0, 8}
    <3>1. Len(todo[v]) \in {0, 8, 9 - d} /\ Len(todo[v]) \notin 1..7
      BY <1>1, <2>1 DEF Flow
    <3>. HIDE DEF d
    <3>2. 9 - d \in 1..7 \/ 9 - d = 8
      BY <1>2
    <3>. QED  BY <3>1, <3>2
  <2>. QED  BY <1>1, <2>1
<1>. HIDE DEF d
<1>9. d = 9 - k
  BY <1>1, <1>2
<1>10. (k # 1 => k - 1 = 9 - After(d)) /\ (k = 1 => After(d) = 1) /\ After(d) \in 1..8
  <2>1. k # 1 => d # 8 /\ k - 1 = 9 - (d + 1)
    BY <1>1, <1>9
  <2>2. k = 1 => d = 8
    BY <1>9
  <2>. QED  BY <1>2, <2>1, <2>2, AfterIs DEF After
<1>11. \A v \in Writer : Len(todo'[v]) \in {0, 8, 9 - After(d)}
  <2>1. k = 1 => k - 1 = 0
    OBVIOUS
  <2>. QED  BY <1>7, <1>8, <1>10, <2>1
<1>12. After(d) # 1 => \E v \in Writer : Len(todo'[v]) = 9 - After(d)
  BY <1>7, <1>10
<1>13. \A u, v \in Writer : Len(todo'[u]) \in 1..7 /\ Len(todo'[v]) \in 1..7 => u = v
  <2>1. 0 \notin 1..7 /\ 8 \notin 1..7
    OBVIOUS
  <2>2. \A v \in Writer : Len(todo'[v]) \in 1..7 => v = w
    BY <1>8, <2>1
  <2>. QED  BY <2>2
<1>14. Place(stream'[1].data) = e
  <2>1. CASE stream = <<>>
    <3>1. n + 1 = 1
      BY <1>4, <2>1
    <3>. QED  BY <1>1, <1>4, <1>9, <2>1, <3>1
  <2>2. CASE stream # <<>>
    <3>1. 1 \in 1..n
      BY <1>1, <1>3, <2>2
    <3>. QED  BY <1>1, <2>2, <3>1 DEF Flow, At
  <2>. QED  BY <2>1, <2>2
<1>15. ASSUME NEW i \in 1..n PROVE Place(stream'[i + 1].data) = After(Place(stream'[i].data))
  <2>1. stream'[i] = stream[i] /\ stream # <<>>
    <3>1. n # 0
      BY <1>1
    <3>. QED  BY <1>1, <1>4, <3>1
  <2>2. CASE i = n
    BY <1>1, <1>3, <1>9, <2>1, <2>2 DEF At
  <2>3. CASE i # n
    <3>1. i + 1 \in 1..n /\ i \in 1..(n - 1)
      BY <1>1, <2>3
    <3>2. At(i + 1) = After(At(i))
      BY <1>1, <3>1 DEF Flow
    <3>. QED  BY <1>1, <2>1, <3>1, <3>2 DEF At
  <2>. QED  BY <2>2, <2>3
<1>16. Len(stream') - 1 = n
  BY <1>1
<1>17. Due(e)' = After(d)
  BY <1>6, <1>9
<1>. QED  BY <1>5, <1>11, <1>12, <1>13, <1>14, <1>15, <1>16, <1>17 DEF Flow, At

LEMMA FlowShifts ==
  ASSUME TypeOK, Made, NEW e \in 1..8, Flow(e), NEW n, Shifts(n), stream # <<>>,
         state' = state \/ state' # "open"
  PROVE  \A f : f = After(e) => Flow(f)'
<1>. SUFFICES ASSUME NEW f, f = After(e) PROVE Flow(f)'
  OBVIOUS
<1>1. /\ n \in Nat \ {0} /\ Len(stream) = n /\ Len(stream') = n - 1 /\ todo' = todo
      /\ \A i \in 1..(n - 1) : stream'[i] = stream[i + 1]
  BY DEF Shifts
<1>2. At(1) = e /\ \A i \in 1..(n - 1) : At(i + 1) = After(At(i))
  BY <1>1 DEF Flow
<1>3. stream' = <<>> <=> n = 1
  BY DEF Shifts
<1>4. Due(f)' = Due(e)
  <2>1. CASE n = 1
    <3>1. Due(f)' = f
      BY <1>3, <2>1 DEF Due
    <3>2. Due(e) = After(At(1))
      BY <1>1, <2>1 DEF Due
    <3>. QED  BY <1>2, <3>1, <3>2
  <2>2. CASE n # 1
    <3>1. Due(f)' = After(Place(stream'[n - 1].data))
      BY <1>1, <1>3, <2>2 DEF Due, At
    <3>2. n - 1 \in 1..(n - 1) /\ (n - 1) + 1 = n
      BY <1>1, <2>2
    <3>3. Due(e) = After(Place(stream[n].data))
      BY <1>1 DEF Due, At
    <3>4. stream'[n - 1] = stream[n]
      BY <1>1, <3>2
    <3>. QED  BY <3>1, <3>3, <3>4
  <2>. QED  BY <2>1, <2>2
<1>5. stream' # <<>> => Place(stream'[1].data) = f
  <2>1. n # 1 => 1 \in 1..(n - 1) /\ 1 + 1 = 2
    BY <1>1
  <2>2. n # 1 => stream'[1] = stream[2] /\ At(2) = After(At(1))
    BY <1>1, <1>2, <2>1
  <2>. QED  BY <1>2, <1>3, <2>2 DEF At
<1>6. ASSUME NEW i \in 1..((n - 1) - 1) PROVE Place(stream'[i + 1].data) = After(Place(stream'[i].data))
  <2>1. i \in 1..(n - 1) /\ i + 1 \in 1..(n - 1)
    BY <1>1
  <2>2. At(i + 1) = After(At(i)) /\ At((i + 1) + 1) = After(At(i + 1))
    BY <1>2, <2>1
  <2>. QED  BY <1>1, <2>1, <2>2 DEF At
<1>7. state' = "open" => state = "open"
  OBVIOUS
<1>. QED  BY <1>1, <1>4, <1>5, <1>6, <1>7 DEF Flow, At

LEMMA InTurnStarts ==
  ASSUME TypeOK, Made, InTurn, NEW w \in Writer, NEW m, NEW b, Starts(w, m, b)
  PROVE  InTurn'
<1>. SUFFICES ASSUME "crossed" \notin trouble', state' # "closed"
              PROVE  \E e \in 1..8 : Flow(e)' /\ Pace(e)'
  BY DEF InTurn
<1>1. state' = state /\ trouble' = trouble /\ call' = call
  BY DEF Starts
<1>2. PICK e \in 1..8 : Flow(e) /\ Pace(e)
  BY <1>1 DEF InTurn
<1>3. Pace(e)'
  BY <1>1, <1>2 DEF Pace
<1>. QED  BY <1>2, <1>3, FlowStarts

LEMMA InTurnAdds ==
  ASSUME TypeOK, Made, InTurn, NEW w \in Writer, NEW n, NEW k, Adds(w, n, k), Write(w)
  PROVE  InTurn'
<1>. SUFFICES ASSUME "crossed" \notin trouble', state' # "closed"
              PROVE  \E e \in 1..8 : Flow(e)' /\ Pace(e)'
  BY DEF InTurn
<1>1. /\ state' = state /\ trouble' = trouble /\ call' = call
      /\ ~ \E v \in Writer \ {w} : Len(todo[v]) \in 1..7
  BY DEF Write
<1>2. PICK e \in 1..8 : Flow(e) /\ Pace(e)
  BY <1>1 DEF InTurn
<1>3. Pace(e)'
  BY <1>1, <1>2 DEF Pace
<1>. QED  BY <1>1, <1>2, <1>3, FlowAdds

LEMMA InTurnSheds ==
  ASSUME TypeOK, InTurn, Sheds, state' # "open", state' # "closed" => state # "closed"
  PROVE  InTurn'
<1>. SUFFICES ASSUME "crossed" \notin trouble', state' # "closed"
              PROVE  \E e \in 1..8 : Flow(e)' /\ Pace(e)'
  BY DEF InTurn
<1>1. stream' = stream /\ trouble' = trouble /\ call' = call
  BY DEF Sheds
<1>2. PICK e \in 1..8 : Flow(e) /\ Pace(e)
  BY <1>1 DEF InTurn
<1>3. Pace(e)'
  BY <1>1, <1>2 DEF Pace
<1>4. Flow(e)'
  BY <1>1, <1>2 DEF Flow, At
<1>. QED  BY <1>3, <1>4

LEMMA InTurnReadsNothing ==
  ASSUME TypeOK, InTurn, ReadsNothing
  PROVE  InTurn'
<1>. SUFFICES ASSUME "crossed" \notin trouble', state' # "closed"
              PROVE  \E e \in 1..8 : Flow(e)' /\ Pace(e)'
  BY DEF InTurn
<1>1. /\ UNCHANGED <<state, stream, todo>> /\ call' = <<>>
      /\ trouble' = IF call = <<>> THEN trouble ELSE trouble \cup {"paused"}
  BY DEF ReadsNothing, Again
<1>2. PICK e \in 1..8 : Flow(e) /\ Pace(e)
  BY <1>1 DEF InTurn
<1>3. call # <<>> => e # 1
  <2>1. call # <<>> => Len(call) \in Nat \ {0}
    BY TypesAre
  <2>2. call # <<>> => e = Len(call) + 1 \/ e >= 5
    BY <1>2 DEF Pace
  <2>. QED  BY <2>1, <2>2
<1>4. Pace(e)'
  BY <1>1, <1>2, <1>3 DEF Pace
<1>5. Flow(e)'
  BY <1>1, <1>2 DEF Flow, Due, At
<1>. QED  BY <1>4, <1>5

\* The call keeps pace with the stream.
LEMMA PaceGoes ==
  ASSUME TypeOK, NEW n, NEW c, NEW x, Moves(n, c, x), GoesOn(n, c), NEW e \in 1..8, Pace(e)
  PROVE  /\ n = 0 /\ Place(x) = e => e = 1 /\ "paused" \notin trouble
         /\ n # 0 => "paused" \notin trouble /\ (e = n + 1 \/ (e = n /\ e >= 5))
         /\ n \in 0..6 /\ Len(call') = n + 1 /\ call' # <<>> /\ trouble' = trouble
<1>1. /\ n \in 0..7 /\ n < 7 /\ Len(call) = n /\ Len(c) = n + 1 /\ call' = c /\ c[n + 1] = x
      /\ c \in Seq(Cells) /\ (call = <<>> <=> n = 0) /\ trouble' = trouble
      /\ n + 1 \in {1, 3} => Passes(c)
  BY DEF Moves, GoesOn
<1>2. Len(call') = n + 1 /\ call' # <<>>
  <2>1. Len(<<>>) = 0 /\ n + 1 # 0
    BY <1>1
  <2>. QED  BY <1>1, <2>1
<1>3. ASSUME n = 0, Place(x) = e PROVE e = 1 /\ "paused" \notin trouble
  <2>1. Passes(c) /\ Len(c) = 1 /\ c[1] = x
    BY <1>1, <1>3
  <2>2. Place(x) = 1
    BY <1>1, <2>1, PassesIs
  <2>. QED  BY <1>3, <2>2 DEF Pace
<1>4. ASSUME n # 0 PROVE "paused" \notin trouble /\ (e = n + 1 \/ (e = n /\ e >= 5))
  BY <1>1, <1>4 DEF Pace
<1>. QED  BY <1>1, <1>2, <1>3, <1>4

LEMMA InTurnGoes ==
  ASSUME TypeOK, Made, InTurn, NEW n, NEW c, NEW x, Moves(n, c, x), GoesOn(n, c)
  PROVE  InTurn'
<1>. SUFFICES ASSUME "crossed" \notin trouble', state' # "closed"
              PROVE  \E e \in 1..8 : Flow(e)' /\ Pace(e)'
  BY DEF InTurn
<1>1. state' = state /\ trouble' = trouble /\ todo' = todo /\ n \in 0..7 /\ n < 7
  BY DEF Moves, GoesOn
<1>2. PICK e \in 1..8 : Flow(e) /\ Pace(e)
  BY <1>1 DEF InTurn
<1>3. /\ n = 0 /\ Place(x) = e => e = 1 /\ "paused" \notin trouble
      /\ n # 0 => "paused" \notin trouble /\ (e = n + 1 \/ (e = n /\ e >= 5))
      /\ n \in 0..6 /\ Len(call') = n + 1 /\ call' # <<>>
  BY <1>2, PaceGoes
<1>4. CASE n = 4 /\ stream' = stream
  <2>1. e = 5 /\ Len(call') = 5 /\ "paused" \notin trouble
    BY <1>3, <1>4
  <2>2. Pace(e)'
    BY <1>1, <2>1 DEF Pace
  <2>3. Flow(e)'
    BY <1>1, <1>2, <1>4 DEF Flow, Due, At
  <2>. QED  BY <2>2, <2>3
<1>5. CASE stream # <<>> /\ x = stream[1].data /\ \E s : Shifts(s)
  <2>1. Place(x) = e
    BY <1>2, <1>5 DEF Flow, At
  <2>2. "paused" \notin trouble /\ (e = n + 1 \/ (e = n /\ e >= 5))
    BY <1>3, <2>1
  <2>3. After(e) \in 1..8 /\ After(e) = e + 1
    BY <1>3, <2>2, AfterIs
  <2>4. Flow(After(e))'
    <3>1. \A f : f = After(e) => Flow(f)'
      BY <1>1, <1>2, <1>5, FlowShifts
    <3>. QED  BY <3>1 DEF After
  <2>5. Pace(After(e))'
    <3>1. After(e) = Len(call') + 1 \/ (After(e) = Len(call') /\ After(e) >= 5)
      BY <1>3, <2>2, <2>3
    <3>. QED  BY <1>1, <2>2, <3>1 DEF Pace, After
  <2>. QED  BY <2>3, <2>4, <2>5
<1>6. (n = 4 /\ stream' = stream) \/ (stream # <<>> /\ x = stream[1].data /\ \E s : Shifts(s))
  <2>1. n # 7
    BY <1>3
  <2>. QED  BY <2>1 DEF Moves
<1>. QED  BY <1>4, <1>5, <1>6

LEMMA InTurnDelivers ==
  ASSUME TypeOK, Made, InTurn, NEW n, NEW c, NEW x, Moves(n, c, x), Delivers(n, c)
  PROVE  InTurn'
<1>. SUFFICES ASSUME "crossed" \notin trouble', state' # "closed"
              PROVE  \E e \in 1..8 : Flow(e)' /\ Pace(e)'
  BY DEF InTurn
<1>1. state' = state /\ trouble' = trouble /\ todo' = todo /\ call' = <<>> /\ call # <<>>
  BY DEF Moves, Delivers
<1>2. PICK e \in 1..8 : Flow(e) /\ Pace(e)
  BY <1>1 DEF InTurn
<1>3. \A f \in 1..8 : Pace(f)'
  BY <1>1, <1>2 DEF Pace
<1>4. CASE stream' = stream
  <2>1. Flow(e)'
    BY <1>1, <1>2, <1>4 DEF Flow, Due, At
  <2>. QED  BY <1>3, <2>1
<1>5. CASE stream # <<>> /\ \E s : Shifts(s)
  <2>1. PICK f \in 1..8 : f = After(e)
    BY AfterIs
  <2>2. Flow(f)'
    BY <1>1, <1>2, <1>5, <2>1, FlowShifts
  <2>. QED  BY <1>3, <2>2
<1>. QED  BY <1>4, <1>5 DEF Moves

--------------------------------------------------------------------------------
(* The steps together.                                                       *)

\* A connection on which nothing has happened
Fresh ==
  /\ state = "open" /\ stream = <<>> /\ call = <<>> /\ \A w \in Writer : todo[w] = <<>>
  /\ begun = <<>> /\ whole = {} /\ trouble = {} /\ taken = <<>>

LEMMA FreshInv == Fresh => PInv
<1>. SUFFICES ASSUME Fresh PROVE PInv
  OBVIOUS
<1>1. Len(<<>>) = 0 /\ DOMAIN <<>> = {} /\ 1..0 = {}
  OBVIOUS
<1>2. Len(call) = 0 /\ DOMAIN stream = {} /\ DOMAIN taken = {} /\ Len(begun) = 0 /\ Len(stream) = 0
      /\ Takens = {} /\ Had = {}
  BY <1>1 DEF Fresh, Takens, Had
<1>3. Made /\ Sorted /\ Fifo /\ Tested
  <2>1. Made /\ Sorted
    BY <1>2 DEF Fresh, Made, Sorted, LeftTo
  <2>2. Fifo
    BY <1>1, <1>2 DEF Fresh, Fifo
  <2>3. Tested
    <3>1. ~(0 >= 4) /\ \A j \in 1..3 : ~(j <= 0)
      OBVIOUS
    <3>. QED  BY <1>2, <3>1 DEF Tested
  <2>. QED  BY <2>1, <2>2, <2>3
<1>4. Once /\ InOrder /\ Idle
  BY <1>2 DEF Fresh, Once, InOrder, Idle
<1>5. InStep
  <2>1. Stands(0)
    BY <1>1, <1>2 DEF Stands, Fresh
  <2>. QED  BY <1>2, <2>1 DEF InStep
<1>6. InTurn
  <2>1. Due(1) = 1
    BY DEF Fresh, Due
  <2>2. \A w \in Writer : Len(todo[w]) = 0
    BY <1>1 DEF Fresh
  <2>3. Flow(1)
    <3>1. \A i \in 1..(Len(stream) - 1) : FALSE
      BY <1>2
    <3>2. 0 \notin 1..7
      OBVIOUS
    <3>. QED  BY <2>1, <2>2, <3>1, <3>2 DEF Fresh, Flow
  <2>4. Pace(1)
    BY DEF Fresh, Pace
  <2>. QED  BY <2>3, <2>4 DEF InTurn
<1>. QED  BY <1>3, <1>4, <1>5, <1>6 DEF PInv

LEMMA FreshStarts ==
  ASSUME TypeOK, Idle
  PROVE  Connect => Fresh'
BY DEF Connect, Idle, Fresh

LEMMA FreshInit == Init => Fresh
BY DEF Init, Fresh

\* A step that changes neither packets nor the call
LEMMA Quiet ==
  ASSUME PInv, UNCHANGED <<state, stream, todo, call, number, begun, whole, trouble, taken>>,
         state = "closed" => ~calling'
  PROVE  PInv'
<1>1. Made' /\ Sorted' /\ Fifo' /\ Tested'
  BY DEF PInv, Made, CellOf, LeftTo, Of, Sorted, At, Fifo, Tested
<1>2. Takens' = Takens /\ Had' = Had /\ \A p : Past(p) => Past(p)'
  BY DEF Takens, Had, Past, At, Of
<1>3. Once' /\ InOrder' /\ Idle'
  BY <1>2 DEF PInv, Once, InOrder, Idle
<1>4. InStep'
  <2>1. \A p, g : Got(p, g) => Got(p, g)'
    BY DEF Got, At, Of
  <2>2. \A e : Stands(e) => Stands(e)'
    BY <1>2, <2>1 DEF Stands, Counts
  <2>. QED  BY <2>2 DEF PInv, InStep, Good
<1>5. InTurn'
  <2>1. \A e : Flow(e) => Flow(e)'
    BY DEF Flow, Due, At
  <2>2. \A e : Pace(e) => Pace(e)'
    BY DEF Pace
  <2>. QED  BY <2>1, <2>2 DEF PInv, InTurn
<1>. QED  BY <1>1, <1>3, <1>4, <1>5 DEF PInv

LEMMA InvBegin ==
  ASSUME TypeOK, PInv, NEW w \in Writer, Begin(w)
  PROVE  PInv'
<1>. PICK m, b : Starts(w, m, b)
  BY BeginIs
<1>1. Made /\ Sorted /\ Fifo /\ Tested /\ Once /\ InStep /\ InTurn /\ InOrder /\ Idle
  BY DEF PInv
<1>2. Made' /\ Sorted' /\ Fifo' /\ Tested' /\ Once'
  BY <1>1, MadeStarts, SortedStarts, FifoStarts, TestedStarts, OnceStarts
<1>3. InStep' /\ InTurn'
  BY <1>1, InStepStarts, InTurnStarts
<1>4. InOrder' /\ Idle'
  <2>1. \A p \in 1..Len(begun) : begun'[p] = begun[p]
    BY DEF Starts
  <2>2. UNCHANGED <<taken, trouble, call, calling, state>>
    BY DEF Starts
  <2>. QED  BY <1>1, <2>1, <2>2, InOrderKeeps DEF Idle
<1>. QED  BY <1>2, <1>3, <1>4 DEF PInv

LEMMA InvWrite ==
  ASSUME TypeOK, PInv, NEW w \in Writer, Write(w)
  PROVE  PInv'
<1>1. Made /\ Sorted /\ Fifo /\ Tested /\ Once /\ InStep /\ InTurn /\ InOrder /\ Idle
  BY DEF PInv
<1>. PICK n, k : Adds(w, n, k)
  BY <1>1, WriteIs
<1>2. Made' /\ Sorted' /\ Fifo' /\ Once'
  BY <1>1, MadeAdds, SortedAdds, FifoAdds, OnceAdds
<1>3. InStep' /\ InTurn'
  BY <1>1, InStepAdds, InTurnAdds
<1>4. UNCHANGED <<call, number, begun, taken, state, calling>>
  BY DEF Write
<1>5. Tested' /\ Idle'
  BY <1>1, <1>4 DEF Tested, Idle
<1>6. InOrder'
  BY <1>1, <1>4, InOrderKeeps DEF Write
<1>. QED  BY <1>2, <1>3, <1>5, <1>6 DEF PInv

LEMMA InvSheds ==
  ASSUME TypeOK, PInv, HangUp \/ \E w \in Writer : WriteFails(w)
  PROVE  PInv'
<1>1. Made /\ Sorted /\ Fifo /\ Tested /\ Once /\ InStep /\ InTurn /\ InOrder /\ Idle
  BY DEF PInv
<1>2. Sheds /\ state' # "open" /\ (state' # "closed" => state # "closed")
      /\ (state' = "closed" => state = "closed")
  BY ShedIs
<1>3. Made' /\ Sorted' /\ Fifo' /\ Once'
  BY <1>1, <1>2, MadeSheds, SortedSheds, FifoSheds, OnceSheds
<1>4. InStep' /\ InTurn'
  BY <1>1, <1>2, InStepSheds, InTurnSheds
<1>5. UNCHANGED <<call, number, begun, taken, calling, trouble>>
  BY <1>2 DEF Sheds
<1>6. Tested' /\ Idle'
  BY <1>1, <1>2, <1>5 DEF Tested, Idle
<1>7. InOrder'
  BY <1>1, <1>5, InOrderKeeps
<1>. QED  BY <1>3, <1>4, <1>6, <1>7 DEF PInv

\* What a read takes from the stream leaves the packets in their order.
LEMMA InvReads ==
  ASSUME TypeOK, Made, Sorted, Fifo, stream' = stream \/ \E s : Shifts(s), UNCHANGED <<todo, begun, whole>>
  PROVE  Made' /\ Sorted' /\ Fifo'
<1>1. CASE stream' = stream
  BY <1>1 DEF Made, CellOf, LeftTo, Of, Sorted, At, Fifo
<1>2. CASE \E s : Shifts(s)
  BY <1>2, MadeShifts, SortedShifts, FifoShifts
<1>. QED  BY <1>1, <1>2

LEMMA InvCall ==
  ASSUME TypeOK, PInv, Read \/ ReadsShort \/ ReadsNothing \/ ReadsEnd
  PROVE  PInv'
<1>1. Made /\ Sorted /\ Fifo /\ Tested /\ Once /\ InStep /\ InTurn /\ InOrder /\ Idle
  BY DEF PInv
<1>2. ASSUME NEW n, NEW c, NEW x, Moves(n, c, x), GoesOn(n, c) PROVE PInv'
  <2>1. /\ stream' = stream \/ \E s : Shifts(s)
        /\ UNCHANGED <<todo, begun, whole, trouble, state, calling, taken>> /\ calling
    BY <1>2 DEF Moves, GoesOn
  <2>2. Made' /\ Sorted' /\ Fifo'
    BY <1>1, <2>1, InvReads
  <2>3. Tested' /\ Once' /\ InStep' /\ InTurn'
    BY <1>1, <1>2, TestedGoes, OnceGoes, InStepGoes, InTurnGoes
  <2>4. InOrder' /\ Idle'
    BY <1>1, <2>1, InOrderKeeps DEF Idle
  <2>. QED  BY <2>2, <2>3, <2>4 DEF PInv
<1>3. ASSUME NEW n, NEW c, NEW x, Moves(n, c, x), Delivers(n, c) PROVE PInv'
  <2>1. /\ stream' = stream \/ \E s : Shifts(s)
        /\ UNCHANGED <<todo, begun, whole, trouble, state>> /\ call' = <<>> /\ calling' = FALSE
    BY <1>3 DEF Moves, Delivers
  <2>2. Made' /\ Sorted' /\ Fifo' /\ Tested'
    BY <1>1, <2>1, InvReads, TestedQuits
  <2>3. Once' /\ InStep' /\ InTurn' /\ InOrder'
    BY <1>1, <1>3, OnceDelivers, InStepDelivers, InTurnDelivers, InOrderDelivers
  <2>4. Idle'
    BY <2>1 DEF Idle
  <2>. QED  BY <2>2, <2>3, <2>4 DEF PInv
<1>4. ASSUME Quits, state' = "closed" \/ ReadsNothing PROVE PInv'
  <2>1. /\ stream' = stream \/ \E s : Shifts(s)
        /\ UNCHANGED <<todo, begun, whole, taken>> /\ call' = <<>> /\ calling' = FALSE
    BY <1>4 DEF Quits
  <2>2. Made' /\ Sorted' /\ Fifo' /\ Tested' /\ Once' /\ Idle'
    BY <1>1, <1>4, <2>1, InvReads, TestedQuits, OnceQuits DEF Idle
  <2>3. InStep' /\ InTurn'
    <3>1. CASE state' = "closed"
      BY <3>1 DEF InStep, InTurn
    <3>2. CASE ReadsNothing
      BY <1>1, <3>2, InStepReadsNothing, InTurnReadsNothing
    <3>. QED  BY <1>4, <3>1, <3>2
  <2>4. \/ trouble' = trouble
        \/ trouble' = trouble \cup {"paused"}
    BY DEF Read, ReadsShort, ReadsNothing, ReadsEnd
  <2>5. InOrder'
    BY <1>1, <2>1, <2>4, InOrderKeeps
  <2>. QED  BY <2>2, <2>3, <2>5 DEF PInv
<1>. QED  BY <1>2, <1>3, <1>4, CallSteps

\* The types, for the steps that are not the senders'.
LEMMA NumberIs ==
  ASSUME TypeOK, Tested
  PROVE  Len(call) >= 4 => number \in 1..MaxSent
<1>1. Len(call) >= 4 => number \in 1..Len(begun)
  BY DEF Tested
<1>2. number \in 0..MaxSent
  BY DEF TypeOK
<1>. QED  BY <1>1, <1>2

LEMMA QuitTypes ==
  ASSUME TypeOK, UNCHANGED <<stream, todo, begun, whole, number, taken>>, calling' = FALSE, call' = <<>>,
         state' \in {"open", "hung", "closed"}, trouble' \subseteq {"crossed", "paused"}
  PROVE  TypeOK'
<1>1. Len(<<>>) < 8 /\ <<>> \in Seq(Cells)
  OBVIOUS
<1>. QED  BY <1>1 DEF TypeOK

LEMMA ReadTypes ==
  ASSUME Sane, TypeOK, Tested, Read
  PROVE  TypeOK'
<1>1. /\ stream # <<>> /\ stream' = Tail(stream)
      /\ ReadStep(Append(call, stream[1].data), stream[1].data)
      /\ number' = IF Len(call) = 3 THEN stream[1].no ELSE number
  BY ReadIs
<1>2. stream' \in Seq(Item) /\ stream[1] \in Item /\ Len(stream') = Len(stream) - 1 /\ Len(stream) \in Nat
  BY <1>1, TypesAre, FirstOf
<1>3. Len(stream') <= Room
  BY <1>2 DEF TypeOK, Sane
<1>4. number' \in 0..MaxSent
  <2>1. stream[1].no \in 1..MaxSent
    BY <1>2 DEF Item
  <2>2. stream[1].no \in 0..MaxSent
    BY <2>1
  <2>. QED  BY <1>1, <2>2 DEF TypeOK
<1>5. /\ state' \in {"open", "hung", "closed"} /\ calling' \in BOOLEAN
      /\ call' \in Seq(Cells) /\ Len(call') < 8 /\ (~calling' => call' = <<>>)
      /\ taken' \in Seq(Pack)
  BY <1>1, NumberIs, OutcomeTypes
<1>6. UNCHANGED <<todo, begun, whole, trouble>>
  BY DEF Read
<1>. QED  BY <1>2, <1>3, <1>4, <1>5, <1>6 DEF TypeOK, Item, Pack

LEMMA ReadsShortTypes ==
  ASSUME TypeOK, Tested, ReadsShort
  PROVE  TypeOK'
<1>1. /\ UNCHANGED <<stream, todo, number, begun, whole, trouble>>
      /\ Fail \/ \E x \in Cells : ReadStep(Append(call, x), x)
  BY ReadsShortIs
<1>2. CASE Fail
  BY <1>1, <1>2, QuitTypes DEF Fail, TypeOK
<1>3. CASE \E x \in Cells : ReadStep(Append(call, x), x)
  <2>1. /\ state' \in {"open", "hung", "closed"} /\ calling' \in BOOLEAN
        /\ call' \in Seq(Cells) /\ Len(call') < 8 /\ (~calling' => call' = <<>>)
        /\ taken' \in Seq(Pack)
    BY <1>3, NumberIs, OutcomeTypes
  <2>. QED  BY <1>1, <2>1 DEF TypeOK, Pack
<1>. QED  BY <1>1, <1>2, <1>3

LEMMA OtherTypes ==
  ASSUME Sane, TypeOK,
         \/ HangUp \/ Connect \/ Call \/ ReadsNothing \/ ReadsEnd \/ \E w \in Writer : WriteFails(w)
  PROVE  TypeOK'
<1>1. Len(<<>>) = 0 /\ \A S : <<>> \in Seq(S)
  OBVIOUS
<1>2. CASE HangUp
  <2>1. todo' \in [Writer -> Seq(Item)]
    BY <1>1, <1>2 DEF HangUp
  <2>. QED  BY <1>2, <2>1 DEF HangUp, TypeOK, Item
<1>3. CASE Connect
  <2>1. /\ stream' = <<>> /\ number' = 0 /\ begun' = <<>> /\ whole' = {} /\ trouble' = {}
        /\ taken' = <<>> /\ state' = "open" /\ UNCHANGED <<todo, calling, call>>
    BY <1>3 DEF Connect
  <2>2. stream' \in Seq(Item) /\ begun' \in Seq(Note) /\ taken' \in Seq(Pack)
    BY <1>1, <2>1
  <2>3. 0 <= Room /\ 0 \in 0..MaxSent
    BY DEF Sane
  <2>4. Len(stream') <= Room /\ number' \in 0..MaxSent
    BY <1>1, <2>1, <2>3
  <2>. QED  BY <2>1, <2>2, <2>4 DEF TypeOK, Item, Note, Pack
<1>4. CASE Call
  BY <1>4 DEF Call, TypeOK
<1>5. CASE ReadsNothing
  BY <1>5, QuitTypes DEF ReadsNothing, Again, TypeOK
<1>6. CASE ReadsEnd
  BY <1>6, QuitTypes DEF ReadsEnd, Fail, TypeOK
<1>7. CASE \E w \in Writer : WriteFails(w)
  <2>. PICK w \in Writer : WriteFails(w)
    BY <1>7
  <2>1. todo' \in [Writer -> Seq(Item)]
    BY <1>1, TypesAre DEF WriteFails
  <2>. QED  BY <2>1 DEF WriteFails, TypeOK, Item
<1>. QED  BY <1>2, <1>3, <1>4, <1>5, <1>6, <1>7

LEMMA StepInv ==
  ASSUME Sane, TypeOK, PInv, [Next]_vars
  PROVE  TypeOK' /\ (Connect \/ PInv')
<1>1. Tested /\ Idle /\ \A w \in Writer : LeftTo(w)
  BY DEF PInv, Made
<1>2. ASSUME NEW w \in Writer, Begin(w) PROVE TypeOK' /\ PInv'
  BY <1>2, BeginTypes, InvBegin
<1>3. ASSUME NEW w \in Writer, Write(w) PROVE TypeOK' /\ PInv'
  BY <1>1, <1>3, WriteTypes, InvWrite
<1>4. CASE HangUp \/ \E w \in Writer : WriteFails(w)
  BY <1>4, OtherTypes, InvSheds
<1>5. CASE Connect
  BY <1>5, OtherTypes
<1>6. CASE Call
  <2>1. UNCHANGED <<state, stream, todo, call, number, begun, whole, trouble, taken>> /\ state # "closed"
    BY <1>6 DEF Call
  <2>. QED  BY <1>6, <2>1, OtherTypes, Quiet
<1>7. CASE Read \/ ReadsShort \/ ReadsNothing \/ ReadsEnd
  BY <1>1, <1>7, ReadTypes, ReadsShortTypes, OtherTypes, InvCall
<1>8. CASE UNCHANGED vars
  <2>1. UNCHANGED <<state, stream, todo, call, number, begun, whole, trouble, taken>> /\ calling' = calling
    BY <1>8 DEF vars
  <2>2. PInv'
    BY <1>1, <2>1, Quiet DEF Idle
  <2>. QED  BY <2>1, <2>2 DEF TypeOK
<1>. QED  BY <1>2, <1>3, <1>4, <1>5, <1>6, <1>7, <1>8 DEF Next

LEMMA NothingSkippedFrom == TypeOK /\ PInv => NothingSkipped
<1>. SUFFICES ASSUME TypeOK, PInv PROVE NothingSkipped
  OBVIOUS
<1>1. Once /\ InOrder
  BY DEF PInv
<1>2. ASSUME NEW i \in DOMAIN taken PROVE taken[i].no \notin {taken[j].no : j \in 1..(i - 1)}
  <2>1. i \in Nat /\ \A j \in 1..(i - 1) : j \in DOMAIN taken /\ j # i
    <3>1. Len(taken) \in Nat /\ DOMAIN taken = 1..Len(taken)
      BY TypesAre
    <3>. QED  BY <1>2, <3>1
  <2>. QED  BY <1>1, <1>2, <2>1 DEF Once
<1>. QED  BY <1>1, <1>2 DEF Once, InOrder, NothingSkipped

\* Whatever pauses, short reads and other threads' packets do, every variable of
\* the connection keeps its type: gt_cmd_pkt_send and gt_cmd_pkt_recv_env.
THEOREM TypeCorrect == Sane => (Spec => []TypeOK)
<1>. SUFFICES ASSUME Sane PROVE Spec => []TypeOK
  OBVIOUS
<1>1. Init => TypeOK /\ PInv
  BY InitTypes, FreshInit, FreshInv
<1>2. TypeOK /\ PInv /\ [Next]_vars => TypeOK' /\ (Fresh' \/ PInv')
  BY StepInv, FreshStarts DEF PInv
<1>3. Fresh => PInv
  BY FreshInv
<1>. QED  BY <1>1, <1>2, <1>3, PTL DEF Spec

\* No packet is repeated, altered or left out, whichever threads write on the
\* connection and however the receiver's reads are cut and time out, with the one
\* exception NothingSkipped names: gt_cmd_pkt_recv_env, gt_com_api.c:370-484.
THEOREM PacketsInOrder == Sane => (Spec => []NothingSkipped)
<1>. SUFFICES ASSUME Sane PROVE Spec => []NothingSkipped
  OBVIOUS
<1>1. Init => TypeOK /\ PInv
  BY InitTypes, FreshInit, FreshInv
<1>2. TypeOK /\ PInv /\ [Next]_vars => TypeOK' /\ (Fresh' \/ PInv')
  BY StepInv, FreshStarts DEF PInv
<1>3. Fresh => PInv
  BY FreshInv
<1>4. TypeOK /\ PInv => NothingSkipped
  BY NothingSkippedFrom
<1>. QED  BY <1>1, <1>2, <1>3, <1>4, PTL DEF Spec
==================================================================================
