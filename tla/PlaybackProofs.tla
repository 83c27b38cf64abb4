----------------------------- MODULE PlaybackProofs -----------------------------
(***************************************************************************)
(* Theorems about the playback sessions of Playback, for every number of   *)
(* slots, watched connections, descriptors, clients and peers: the tables  *)
(* keep their types, and a player that reads has its file.                 *)
(***************************************************************************)
EXTENDS Playback, TLAPS

\* What the code makes sure of: there is a slot, and the sizes are numbers.
Sane == NSlots \in Nat \ {0} /\ NEntries \in Nat /\ NFds \in Nat

LEMMA Names ==
  ASSUME Sane
  PROVE  /\ 0 \in Slot /\ NoFd \notin Fd
         /\ Listener \in Opener /\ Module \in Opener /\ Listener # Module
         /\ Opener \cap Slot = {} /\ NoOrder.slot \notin Slot
BY DEF Sane, Slot, Fd, NoFd, Opener, Listener, Module, NoOrder

--------------------------------------------------------------------------------
(* Types.                                                                    *)

\* While a command is carried out the listening thread is at an entry.
AtEntry ==
  /\ lpc \in {"open", "stop"} => lj < NEntries
  /\ opc[Listener] # "none" => lpc = "open"

TInv == TypeOK /\ AtEntry

LEMMA InitTypes == Sane /\ Init => TInv
BY Names DEF Sane, Init, TInv, TypeOK, AtEntry, Stat, Oper, Order, NoOrder

\* What closing a descriptor does to the types.
LEMMA CloseTypes ==
  ASSUME TypeOK, NEW f \in Fd \cup {NoFd}, CloseFd(f)
  PROVE  /\ peerOf' \in [Fd -> Party \cup {None}]
         /\ at' \in [Party -> {"away", "new", "asked", "served", "gone"}]
<1>1. CASE f # NoFd /\ peerOf[f] # None
  <2>1. f \in Fd /\ peerOf[f] \in Party
    BY <1>1 DEF TypeOK
  <2>. QED  BY <1>1, <2>1 DEF CloseFd, TypeOK
<1>2. CASE ~(f # NoFd /\ peerOf[f] # None)
  BY <1>2 DEF CloseFd, net, TypeOK
<1>. QED  BY <1>1, <1>2

LEMMA DropTypes ==
  ASSUME Sane, TypeOK, NEW j \in Entry, Drop(j)
  PROVE  /\ peerOf' \in [Fd -> Party \cup {None}]
         /\ at' \in [Party -> {"away", "new", "asked", "served", "gone"}]
         /\ entry' \in [Entry -> Fd \cup {NoFd}] /\ mixed' = mixed
<1>1. entry[j] \in Fd \cup {NoFd}
  BY DEF TypeOK
<1>. QED  BY <1>1, CloseTypes DEF Drop, TypeOK

\* playbackClose by q of slot s.
LEMMA CloseKeepsTypes ==
  ASSUME Sane, TypeOK, NEW q \in Opener \cup Slot, NEW s \in Slot, Close(q, s)
  PROVE  /\ peerOf' \in [Fd -> Party \cup {None}]
         /\ at' \in [Party -> {"away", "new", "asked", "served", "gone"}]
         /\ entry' \in [Entry -> Fd \cup {NoFd}]
         /\ closing' \in [Opener \cup Slot -> BOOLEAN] /\ film' \in [Slot -> BOOLEAN]
         /\ sock' \in [Slot -> Fd \cup {NoFd}] /\ state' = state /\ oper' = oper
<1>1. CASE state[s] = "idle"
  BY <1>1 DEF Close, slots, net, TypeOK
<1>2. CASE state[s] # "idle"
  <2>1. sock[s] \in Fd \cup {NoFd}
    BY DEF TypeOK
  <2>2. CloseFd(sock[s])
    BY <1>2 DEF Close
  <2>. QED  BY <1>2, <2>1, <2>2, CloseTypes DEF Close, TypeOK
<1>. QED  BY <1>1, <1>2

LEMMA PartyTypes ==
  ASSUME Sane, TInv,
         \/ \E c \in Client : Ask(c)
         \/ \E c \in Party : HangUp(c)
         \/ \E j \in Entry : Expire(j)
  PROVE  TInv'
<1>1. ASSUME NEW c \in Party, Ask(c) \/ HangUp(c) PROVE TInv'
  BY <1>1 DEF Ask, HangUp, Alone, slots, listen, open, play, TInv, TypeOK, AtEntry
<1>2. ASSUME NEW j \in Entry, Expire(j) PROVE TInv'
  <2>1. Drop(j) /\ UNCHANGED <<slots, listen, open, mcmd, play>>
    BY <1>2 DEF Expire
  <2>. QED  BY <2>1, DropTypes DEF slots, listen, open, play, TInv, TypeOK, AtEntry
<1>. QED  BY <1>1, <1>2 DEF Party

LEMMA ListenTypes == Sane /\ TInv /\ ListenThread => TInv'
<1>. SUFFICES ASSUME Sane, TInv, ListenThread PROVE TInv'
  OBVIOUS
<1>. USE DEF TInv, AtEntry
<1>1. NEntries \in Nat /\ lj \in 0..NEntries /\ Entry = 0..NEntries - 1
  BY DEF Sane, TypeOK, Entry
<1>2. CASE Select
  <2>1. Watched \subseteq Fd /\ Ready \subseteq Fd
    BY DEF Watched, Ready, TypeOK
  <2>. QED  BY <1>1, <1>2, <2>1 DEF Select, slots, net, open, play, TypeOK
<1>3. CASE Scan
  <2>1. \/ /\ lj' \in Entry /\ UNCHANGED <<lpc, bits>>
        \/ lpc' = "top" /\ bits' = {} /\ lj' = 0
    BY <1>3 DEF Scan
  <2>2. lpc = "scan" /\ UNCHANGED <<slots, entry, net, hit, open, mcmd, play, mixed>>
    BY <1>3 DEF Scan
  <2>3. lj' \in 0..NEntries /\ bits' \subseteq Fd /\ lpc' \in {"scan", "top"}
    BY <1>1, <2>1, <2>2 DEF TypeOK
  <2>. QED  BY <2>2, <2>3 DEF slots, net, open, play, TypeOK
<1>4. CASE RecvCommand
  <2>1. lj < NEntries /\ lpc' = "open" /\ lj' = lj
    BY <1>4 DEF RecvCommand, Here
  <2>2. at' \in [Party -> {"away", "new", "asked", "served", "gone"}]
    BY <1>4 DEF RecvCommand, Moves, TypeOK
  <2>3. opc' \in [Opener -> {"none", "find", "mark", "file", "close", "join", "failed"}]
    BY <1>4 DEF RecvCommand, TypeOK
  <2>. QED  BY <1>4, <2>1, <2>2, <2>3 DEF RecvCommand, slots, play, TypeOK
<1>5. CASE RecvShort
  <2>1. lj \in Entry /\ lpc = "scan" /\ lj' \in 0..NEntries /\ Drop(lj)
        /\ UNCHANGED <<slots, lpc, bits, hit, open, mcmd, play>>
    BY <1>1, <1>5 DEF RecvShort, Here
  <2>. QED  BY <2>1, DropTypes DEF slots, open, play, TypeOK
<1>6. CASE RecvEnd
  <2>1. lj < NEntries /\ lpc = "scan" /\ lpc' = "stop" /\ hit' \subseteq Slot
        /\ UNCHANGED <<slots, entry, net, lj, bits, open, mcmd, play, mixed>>
    BY <1>6 DEF RecvEnd, Here
  <2>. QED  BY <2>1 DEF slots, net, open, play, TypeOK
<1>7. CASE StopConnect
  <2>1. lj' \in 0..NEntries /\ lpc = "stop" /\ lpc' = "scan"
    BY <1>1, <1>7 DEF StopConnect
  <2>2. oper' \in [Slot -> Oper]
    BY <1>7 DEF StopConnect, TypeOK, Oper
  <2>3. entry' \in [Entry -> Fd \cup {NoFd}]
    BY <1>7 DEF StopConnect, TypeOK
  <2>. QED  BY <1>7, <2>1, <2>2, <2>3 DEF StopConnect, net, open, play, TypeOK
<1>8. CASE ~closing[Listener] /\ Refuse
  <2>1. lpc = "open" /\ lj \in Entry /\ lj' \in 0..NEntries /\ lpc' = "scan" /\ Drop(lj)
        /\ opc' = [opc EXCEPT ![Listener] = "none"]
        /\ UNCHANGED <<slots, bits, hit, target, mcmd, play>>
    BY <1>1, <1>8 DEF Refuse
  <2>. QED  BY <2>1, Names, DropTypes DEF slots, play, TypeOK
<1>9. CASE ConnectOK
  <2>1. lpc = "open" /\ lj \in Entry /\ lj' \in 0..NEntries /\ lpc' = "scan"
        /\ opc' = [opc EXCEPT ![Listener] = "none"]
        /\ UNCHANGED <<oper, film, entry, net, bits, hit, target, mcmd, play, mixed>>
    BY <1>1, <1>9 DEF ConnectOK
  <2>2. sock' \in [Slot -> Fd \cup {NoFd}] /\ state' \in [Slot -> Stat]
    BY <1>9, <2>1 DEF ConnectOK, TypeOK, Stat
  <2>. QED  BY <2>1, <2>2, Names DEF net, play, TypeOK
<1>10. ASSUME NEW c \in Client, Accept(c) PROVE TInv'
  <2>1. PICK f \in FreeFd :
          /\ peerOf' = [peerOf EXCEPT ![f] = c] /\ at' = [at EXCEPT ![c] = "new"]
          /\ entry' = [j \in Entry |-> IF FirstFree(j) THEN f ELSE entry[j]]
    BY <1>10 DEF Accept
  <2>2. c \in Party /\ f \in Fd
    BY DEF Party, FreeFd
  <2>3. entry' \in [Entry -> Fd \cup {NoFd}]
    BY <2>1, <2>2 DEF TypeOK
  <2>. QED  BY <1>10, <2>1, <2>2, <2>3 DEF Accept, slots, open, play, TypeOK
<1>. QED  BY <1>2, <1>3, <1>4, <1>5, <1>6, <1>7, <1>8, <1>9, <1>10 DEF ListenThread

LEMMA WipeTypes ==
  ASSUME Sane, TInv, NEW q \in Opener \cup Slot, NEW s \in Slot, Wipe(q, s)
  PROVE  TInv'
<1>1. mixed' \subseteq Slot
  BY DEF Wipe, TInv, TypeOK
<1>. QED  BY <1>1 DEF Wipe, net, listen, open, TInv, AtEntry, TypeOK, Stat, Oper

LEMMA OpenTypes ==
  ASSUME Sane, TInv, NEW p \in Opener, OpenSteps(p)
  PROVE  TInv'
<1>. USE DEF TInv, AtEntry
<1>1. target[p] \in Slot /\ p \in Opener \cup Slot
  BY DEF TypeOK
<1>2. ASSUME NEW from \in {"find", "mark", "file", "close"},
             NEW to \in {"mark", "file", "close", "join", "failed"},
             Opens(p, from, to), lpc' = lpc, lj' = lj
      PROVE  /\ opc' \in [Opener -> {"none", "find", "mark", "file", "close", "join", "failed"}]
             /\ AtEntry'
  BY <1>2 DEF Opens, TypeOK
<1>3. CASE Find(p)
  <2>1. target' \in [Opener -> Slot]
    BY <1>3 DEF Find, TypeOK
  <2>. QED  BY <1>2, <1>3, <2>1 DEF Find, slots, net, listen, play, TypeOK
<1>4. CASE Mark(p)
  <2>1. mixed' \subseteq Slot /\ state' \in [Slot -> Stat]
    BY <1>1, <1>4 DEF Mark, TypeOK, Stat
  <2>. QED  BY <1>2, <1>4, <2>1 DEF Mark, net, listen, play, TypeOK
<1>5. CASE File(p)
  <2>1. film' \in [Slot -> BOOLEAN]
    BY <1>5 DEF File, TypeOK
  <2>. QED  BY <1>2, <1>5, <2>1 DEF File, net, listen, play, TypeOK
<1>6. CASE OpenFailed(p)
  <2>1. Opens(p, "close", "failed") /\ Close(p, target[p])
        /\ UNCHANGED <<listen, target, mcmd, seeking, mixed>>
    BY <1>6 DEF OpenFailed
  <2>. QED  BY <1>1, <1>2, <2>1, CloseKeepsTypes DEF listen, TypeOK
<1>7. CASE Wipe(p, target[p])
  BY <1>1, <1>7, WipeTypes
<1>. QED  BY <1>3, <1>4, <1>5, <1>6, <1>7 DEF OpenSteps

LEMMA ModuleTypes ==
  ASSUME Sane, TInv,
         ModuleThread \/ StartCommand \/ \E s \in Slot, op \in Oper : OrderCommand(s, op)
  PROVE  TInv'
<1>. USE Names DEF TInv, AtEntry
<1>1. CASE StartCommand
  BY <1>1 DEF StartCommand, slots, net, listen, play, TypeOK
<1>2. CASE StartAnswered
  BY <1>2 DEF StartAnswered, Opens, slots, net, listen, play, TypeOK
<1>3. CASE GiveOrder
  <2>1. mcmd \in Order
    BY <1>3 DEF GiveOrder, TypeOK
  <2>2. oper' \in [Slot -> Oper]
    BY <1>3, <2>1 DEF GiveOrder, Order, TypeOK
  <2>. QED  BY <1>3, <2>2 DEF GiveOrder, net, listen, open, play, TypeOK
<1>4. ASSUME NEW s \in Slot, NEW op \in Oper, OrderCommand(s, op) PROVE TInv'
  BY <1>4 DEF OrderCommand, Order, slots, net, listen, open, play, TypeOK
<1>5. CASE ConnectPeer
  <2>1. /\ opc' \in [Opener -> {"none", "find", "mark", "file", "close", "join", "failed"}]
        /\ opc'[Listener] = opc[Listener]
        /\ UNCHANGED <<oper, film, entry, listen, target, mcmd, play, mixed>>
    BY <1>5 DEF ConnectPeer, Opens, TypeOK
  <2>2. /\ peerOf' \in [Fd -> Party \cup {None}]
        /\ at' \in [Party -> {"away", "new", "asked", "served", "gone"}]
    BY <1>5 DEF ConnectPeer, FreeFd, Party, net, TypeOK
  <2>3. sock' \in [Slot -> Fd \cup {NoFd}] /\ state' \in [Slot -> Stat]
    BY <1>5 DEF ConnectPeer, FreeFd, TypeOK, Stat
  <2>. QED  BY <2>1, <2>2, <2>3 DEF listen, play, TypeOK
<1>. QED  BY <1>1, <1>2, <1>3, <1>4, <1>5 DEF ModuleThread

LEMMA PlayerTypes ==
  ASSUME Sane, TInv, NEW i \in Slot, Player(i) \/ PlayEnds(i)
  PROVE  TInv'
<1>. USE DEF TInv, AtEntry
<1>1. CASE PlayClose(i) \/ PlayEnds(i)
  <2>1. Close(i, i) /\ UNCHANGED <<listen, open, mcmd, seeking, mixed>>
    BY <1>1 DEF PlayClose, PlayEnds
  <2>. QED  BY <2>1, CloseKeepsTypes DEF listen, open, TypeOK
<1>2. CASE PlaySeekFails(i)
  <2>1. Close(i, i) /\ UNCHANGED <<listen, open, mcmd, mixed>>
        /\ seeking' = [seeking EXCEPT ![i] = "failed"]
    BY <1>2 DEF PlaySeekFails
  <2>. QED  BY <2>1, CloseKeepsTypes DEF listen, open, TypeOK
<1>3. CASE PlaySeek(i)
  BY <1>3 DEF PlaySeek, net, listen, open, TypeOK
<1>4. CASE PlaySought(i) \/ PlaySeekOver(i)
  <2>1. oper' \in [Slot -> Oper] /\ seeking' \in [Slot -> {"no", "yes", "failed"}]
    BY <1>4 DEF PlaySought, PlaySeekOver, TypeOK, Oper
  <2>2. film' \in [Slot -> BOOLEAN]
    BY <1>4 DEF PlaySought, PlaySeekOver, TypeOK
  <2>. QED  BY <1>4, <2>1, <2>2 DEF PlaySought, PlaySeekOver, net, listen, open, TypeOK
<1>5. CASE Wipe(i, i)
  BY <1>5, WipeTypes
<1>. QED  BY <1>1, <1>2, <1>3, <1>4, <1>5 DEF Player

LEMMA NextTypes == Sane /\ TInv /\ [Next]_vars => TInv'
<1>. SUFFICES ASSUME Sane, TInv, [Next]_vars PROVE TInv'
  OBVIOUS
<1>1. CASE UNCHANGED vars
  BY <1>1 DEF vars, slots, net, listen, open, play, TInv, TypeOK, AtEntry
<1>. QED  BY <1>1, PartyTypes, ListenTypes, OpenTypes, ModuleTypes, PlayerTypes DEF Next

\* Every variable of the playback process keeps its type; the numbers by which
\* the listening thread and the commands name entries and slots stay in their
\* tables (playback_listen_thread, playbackfileOpen).
THEOREM TypeCorrect == Sane => (Spec => []TypeOK)
<1>. SUFFICES ASSUME Sane PROVE Spec => []TypeOK
  OBVIOUS
<1>1. TInv => TypeOK
  BY DEF TInv
<1>. QED  BY <1>1, InitTypes, NextTypes, PTL DEF Spec

--------------------------------------------------------------------------------
(* Files.                                                                    *)

\* Opener p has taken slot s and is not done with it.
Holds(p, s) == target[p] = s /\ opc[p] \in {"file", "join", "close"}

\* A slot that nobody took from somebody else has one opener at most, for whom
\* it stays used; ...
One(s)  == \A p, q \in Opener : Holds(p, s) /\ Holds(q, s) => p = q
Used(s) == \A p \in Opener : Holds(p, s) => state[s] = "used"

\* ... and from the opening of its file until it is cleared the file is open, or
\* its player is closing the session or seeking.
Joining(s) == \E p \in Opener : Holds(p, s) /\ opc[p] = "join"
Filmed(s)  == state[s] = "ok" \/ Joining(s) => film[s] \/ closing[s] \/ seeking[s] = "yes"

\* An opener that closes a session has failed, and does nothing else meanwhile.
Undone == \A p \in Opener : closing[p] => opc[p] = "failed"

FInv == Undone /\ \A s \in Slot : s \notin mixed => One(s) /\ Used(s) /\ Filmed(s)

LEMMA InitFilms == Sane /\ Init => FInv
BY Names DEF Init, FInv, Undone, One, Used, Filmed, Joining, Holds

\* A step that leaves the sessions, their files and those who hold them alone.
Outside ==
  /\ UNCHANGED <<state, film, closing, seeking, mixed>>
  /\ \A p \in Opener, s \in Slot :
        /\ Holds(p, s)' <=> Holds(p, s)
        /\ Holds(p, s) => opc'[p] = opc[p]
  /\ \A p \in Opener : closing[p] => opc'[p] = "failed"

LEMMA OutsideKeeps == FInv /\ Outside => FInv'
<1>. SUFFICES ASSUME FInv, Outside PROVE FInv'
  OBVIOUS
<1>1. Undone'
  BY DEF FInv, Outside, Undone
<1>2. ASSUME NEW s \in Slot, s \notin mixed PROVE One(s)' /\ Used(s)' /\ Filmed(s)'
  <2>1. One(s) /\ Used(s) /\ Filmed(s)
    BY <1>2 DEF FInv
  <2>2. Joining(s)' => Joining(s)
    BY DEF Outside, Joining
  <2>. QED  BY <2>1, <2>2 DEF Outside, One, Used, Filmed
<1>. QED  BY <1>1, <1>2 DEF FInv, Outside

LEMMA AsideOutside ==
  ASSUME UNCHANGED <<state, film, closing, seeking, mixed, opc, target>>, Undone
  PROVE  Outside
BY DEF Outside, Holds, Undone

\* An opener that holds no slot before the step and none after it.
LEMMA FreeOutside ==
  ASSUME TInv, Undone, UNCHANGED <<state, film, closing, seeking, mixed>>,
         NEW p \in Opener, NEW to \in {"none", "find", "mark", "failed"},
         opc[p] \in {"none", "find", "failed"}, opc' = [opc EXCEPT ![p] = to],
         \A q \in Opener \ {p} : target'[q] = target[q],
         opc[p] = "failed" => ~closing[p]
  PROVE  Outside
<1>1. opc'[p] = to /\ \A q \in Opener \ {p} : opc'[q] = opc[q]
  BY DEF TInv, TypeOK
<1>. QED  BY <1>1 DEF Outside, Holds, Undone

LEMMA ListenFilms ==
  ASSUME Sane, TInv, FInv,
         \/ \E c \in Client : Ask(c)
         \/ \E c \in Party : HangUp(c)
         \/ \E j \in Entry : Expire(j)
         \/ Select \/ Scan \/ RecvCommand \/ RecvShort \/ RecvEnd \/ StopConnect
         \/ ~closing[Listener] /\ Refuse
         \/ \E c \in Client : Accept(c)
  PROVE  FInv'
<1>1. Undone /\ Listener \in Opener
  BY Names DEF FInv
<1>2. CASE \/ \E c \in Client : Ask(c) \/ Accept(c)
           \/ \E c \in Party : HangUp(c)
           \/ \E j \in Entry : Expire(j)
           \/ Select \/ Scan \/ RecvShort \/ RecvEnd \/ StopConnect
  <2>1. UNCHANGED <<state, film, closing, seeking, mixed, opc, target>>
    BY <1>2 DEF Ask, HangUp, Alone, Accept, Expire, Drop, Select, Scan, RecvShort, RecvEnd,
                StopConnect, slots, open, play
  <2>. QED  BY <1>1, <2>1, AsideOutside, OutsideKeeps
<1>3. CASE RecvCommand
  <2>1. /\ UNCHANGED <<state, film, closing, seeking, mixed, target>> /\ opc[Listener] = "none"
        /\ opc' = [opc EXCEPT ![Listener] = "find"]
    BY <1>3 DEF RecvCommand, Here, slots, play, TInv, AtEntry
  <2>. QED  BY <1>1, <2>1, FreeOutside, OutsideKeeps
<1>4. CASE ~closing[Listener] /\ Refuse
  <2>1. /\ UNCHANGED <<state, film, closing, seeking, mixed, target>> /\ opc[Listener] = "failed"
        /\ opc' = [opc EXCEPT ![Listener] = "none"] /\ ~closing[Listener]
    BY <1>4 DEF Refuse, Drop, slots, play
  <2>. QED  BY <1>1, <2>1, FreeOutside, OutsideKeeps
<1>. QED  BY <1>2, <1>3, <1>4

LEMMA ModuleFilms ==
  ASSUME Sane, TInv, FInv,
         \/ StartCommand \/ StartAnswered \/ GiveOrder
         \/ \E s \in Slot, op \in Oper : OrderCommand(s, op)
  PROVE  FInv'
<1>1. Undone /\ Module \in Opener
  BY Names DEF FInv
<1>2. CASE GiveOrder \/ \E s \in Slot, op \in Oper : OrderCommand(s, op)
  <2>1. UNCHANGED <<state, film, closing, seeking, mixed, opc, target>>
    BY <1>2 DEF GiveOrder, OrderCommand, slots, open, play
  <2>. QED  BY <1>1, <2>1, AsideOutside, OutsideKeeps
<1>3. CASE StartCommand
  <2>1. /\ UNCHANGED <<state, film, closing, seeking, mixed, target>> /\ opc[Module] = "none"
        /\ opc' = [opc EXCEPT ![Module] = "find"]
    BY <1>3 DEF StartCommand, ModuleFree, slots, play
  <2>. QED  BY <1>1, <2>1, FreeOutside, OutsideKeeps
<1>4. CASE StartAnswered
  <2>1. /\ UNCHANGED <<state, film, closing, seeking, mixed, target>> /\ opc[Module] = "failed"
        /\ opc' = [opc EXCEPT ![Module] = "none"] /\ ~closing[Module]
    BY <1>4 DEF StartAnswered, Opens, slots, play
  <2>. QED  BY <1>1, <2>1, FreeOutside, OutsideKeeps
<1>. QED  BY <1>2, <1>3, <1>4

\* What a step of opener p does to the other openers' slots: nothing.
LEMMA OthersHold ==
  ASSUME TInv, NEW p \in Opener, NEW to, opc' = [opc EXCEPT ![p] = to], target' = target
  PROVE  /\ opc'[p] = to /\ target'[p] = target[p] /\ target[p] \in Slot
         /\ \A q \in Opener \ {p}, s \in Slot :
               (Holds(q, s)' <=> Holds(q, s)) /\ opc'[q] = opc[q]
BY DEF Holds, TInv, TypeOK

\* Somebody else takes no slot out of mixed, nor puts this one's opener out.
LEMMA MarkFilms ==
  ASSUME Sane, TInv, FInv, NEW p \in Opener, Mark(p)
  PROVE  FInv'
<1>1. /\ opc[p] = "mark" /\ opc' = [opc EXCEPT ![p] = "file"] /\ target' = target
      /\ state' = [state EXCEPT ![target[p]] = "used"]
      /\ UNCHANGED <<film, closing, seeking>>
      /\ mixed' = IF Opening(p, target[p]) THEN mixed \cup {target[p]} ELSE mixed \ {target[p]}
  BY DEF Mark, Opens, play
<1>2. /\ opc'[p] = "file" /\ target'[p] = target[p] /\ target[p] \in Slot
      /\ \A q \in Opener \ {p}, s \in Slot : (Holds(q, s)' <=> Holds(q, s)) /\ opc'[q] = opc[q]
  BY <1>1, OthersHold
<1>3. Undone'
  BY <1>1, <1>2 DEF FInv, Undone
<1>4. ASSUME NEW s \in Slot, s \notin mixed' PROVE One(s)' /\ Used(s)' /\ Filmed(s)'
  <2>1. CASE s = target[p]
    <3>1. \A q \in Opener \ {p} : ~Holds(q, s)'
      BY <1>1, <1>2, <1>4, <2>1 DEF Opening, Holds
    <3>2. state'[s] = "used"
      BY <1>1, <2>1 DEF TInv, TypeOK
    <3>3. ~Joining(s)'
      BY <1>2, <3>1 DEF Joining
    <3>. QED  BY <3>1, <3>2, <3>3 DEF One, Used, Filmed
  <2>2. CASE s # target[p]
    <3>1. One(s) /\ Used(s) /\ Filmed(s)
      BY <1>1, <1>4, <2>2 DEF FInv
    <3>2. ~Holds(p, s) /\ ~Holds(p, s)' /\ state'[s] = state[s]
      BY <1>1, <1>2, <2>2 DEF Holds, TInv, TypeOK
    <3>3. Joining(s)' => Joining(s)
      BY <1>2, <3>2 DEF Joining
    <3>. QED  BY <1>1, <1>2, <3>1, <3>2, <3>3 DEF One, Used, Filmed
  <2>. QED  BY <2>1, <2>2
<1>. QED  BY <1>3, <1>4 DEF FInv

\* A step of opener p with the slot it holds, after which it may hold it still.
Handles(p, to) ==
  /\ Holds(p, target[p]) /\ opc' = [opc EXCEPT ![p] = to] /\ target' = target
  /\ UNCHANGED <<seeking, mixed>>
  /\ \A s \in Slot \ {target[p]} : state'[s] = state[s] /\ film'[s] = film[s]
  /\ \A s \in Slot : closing'[s] = closing[s]
  /\ \A q \in Opener : closing'[q] => closing[q] \/ (q = p /\ to = "failed")

LEMMA HandlesKeeps ==
  ASSUME Sane, TInv, FInv, NEW p \in Opener, NEW to \in {"none", "join", "close", "failed"},
         Handles(p, to),
         target[p] \notin mixed /\ Used(target[p]) /\ Filmed(target[p]) =>
           /\ to \in {"join", "close"} => state'[target[p]] = "used"
           /\ to = "join" \/ state'[target[p]] = "ok" =>
                film'[target[p]] \/ closing[target[p]] \/ seeking[target[p]] = "yes"
  PROVE  FInv'
<1>1. /\ opc'[p] = to /\ target'[p] = target[p] /\ target[p] \in Slot
      /\ \A q \in Opener \ {p}, s \in Slot : (Holds(q, s)' <=> Holds(q, s)) /\ opc'[q] = opc[q]
  BY OthersHold DEF Handles
<1>2. Undone'
  BY <1>1 DEF FInv, Undone, Handles, Holds
<1>3. ASSUME NEW s \in Slot, s \notin mixed' PROVE One(s)' /\ Used(s)' /\ Filmed(s)'
  <2>1. One(s) /\ Used(s) /\ Filmed(s)
    BY <1>3 DEF FInv, Handles
  <2>2. CASE s = target[p]
    <3>1. \A q \in Opener \ {p} : ~Holds(q, s)'
      BY <1>1, <2>1, <2>2 DEF One, Handles
    <3>2. /\ Holds(p, s)' <=> to \in {"join", "close"}
          /\ Joining(s)' => to = "join"
      BY <1>1, <2>2, <3>1 DEF Holds, Joining
    <3>. QED  BY <1>3, <2>1, <2>2, <3>1, <3>2 DEF One, Used, Filmed, Handles
  <2>3. CASE s # target[p]
    <3>1. ~Holds(p, s) /\ ~Holds(p, s)'
      BY <1>1, <2>3 DEF Holds
    <3>2. Joining(s)' => Joining(s)
      BY <1>1, <3>1 DEF Joining
    <3>. QED  BY <1>1, <2>1, <2>3, <3>1, <3>2 DEF One, Used, Filmed, Handles
  <2>. QED  BY <2>2, <2>3
<1>. QED  BY <1>2, <1>3 DEF FInv

LEMMA OpenFilms ==
  ASSUME Sane, TInv, FInv, NEW p \in Opener, Find(p) \/ File(p) \/ OpenFailed(p)
  PROVE  FInv'
<1>1. CASE Find(p)
  <2>1. /\ UNCHANGED <<state, film, closing, seeking, mixed>> /\ opc[p] = "find"
        /\ \E to \in {"mark", "failed"} : opc' = [opc EXCEPT ![p] = to]
        /\ \A q \in Opener \ {p} : target'[q] = target[q]
    BY <1>1 DEF Find, Opens, slots, play, TInv, TypeOK
  <2>. QED  BY <2>1, FreeOutside, OutsideKeeps DEF FInv
<1>2. CASE File(p)
  <2>1. PICK to \in {"join", "close"} : /\ Opens(p, "file", to)
                                        /\ to = "join" => film' = [film EXCEPT ![target[p]] = TRUE]
                                        /\ to = "close" => film' = film
    BY <1>2 DEF File
  <2>2. UNCHANGED <<state, target, closing, seeking, mixed>> /\ target[p] \in Slot
    BY <1>2 DEF File, play, TInv, TypeOK
  <2>3. Handles(p, to)
    BY <2>1, <2>2 DEF Handles, Holds, Opens, TInv, TypeOK
  <2>4. Used(target[p]) => state'[target[p]] = "used"
    BY <2>2, <2>3 DEF Used, Handles
  <2>5. to = "join" => film'[target[p]]
    BY <2>1, <2>2 DEF TInv, TypeOK
  <2>. QED  BY <2>3, <2>4, <2>5, HandlesKeeps
<1>3. CASE OpenFailed(p)
  <2>1. Opens(p, "close", "failed") /\ Close(p, target[p]) /\ target[p] \in Slot
        /\ UNCHANGED <<target, seeking, mixed>>
    BY <1>3 DEF OpenFailed, TInv, TypeOK
  <2>2. state' = state /\ \A s \in Slot \ {target[p]} : film'[s] = film[s]
    BY <2>1 DEF Close, slots, TInv, TypeOK
  <2>3. \A q \in Opener \cup Slot : q # p => closing'[q] = closing[q]
    BY <2>1 DEF Close, TInv, TypeOK
  <2>4. Handles(p, "failed")
    BY <2>1, <2>2, <2>3, Names DEF Handles, Holds, Opens
  <2>5. Used(target[p]) => state'[target[p]] # "ok"
    BY <2>2, <2>4 DEF Used, Handles
  <2>. QED  BY <2>4, <2>5, HandlesKeeps
<1>. QED  BY <1>1, <1>2, <1>3

\* The last step of an opening: what was used is ready, with its file.
LEMMA JoinFilms ==
  ASSUME Sane, TInv, FInv, ConnectOK \/ ConnectPeer
  PROVE  FInv'
<1>. USE Names
<1>1. ASSUME NEW p \in Opener, NEW to \in {"none", "close"},
             Opens(p, "join", to), UNCHANGED <<film, target, play, mixed>>,
             \A s \in Slot \ {target[p]} : state'[s] = state[s],
             to = "close" => state' = state
      PROVE  FInv'
  <2>1. Handles(p, to) /\ target[p] \in Slot
    BY <1>1 DEF Handles, Holds, Opens, play, TInv, TypeOK
  <2>2. Joining(target[p])
    BY <1>1, <2>1 DEF Joining, Opens, Handles
  <2>3. to = "close" /\ Used(target[p]) => state'[target[p]] = "used"
    BY <1>1, <2>1 DEF Used, Handles
  <2>. QED  BY <1>1, <2>1, <2>2, <2>3, HandlesKeeps DEF Filmed
<1>2. CASE ConnectOK
  <2>1. /\ Opens(Listener, "join", "none") /\ UNCHANGED <<film, target, play, mixed>>
        /\ state' = state \/ state' = [state EXCEPT ![target[Listener]] = "ok"]
    BY <1>2 DEF ConnectOK, Opens
  <2>2. \A s \in Slot \ {target[Listener]} : state'[s] = state[s]
    BY <2>1 DEF TInv, TypeOK
  <2>. QED  BY <1>1, <2>1, <2>2
<1>3. CASE ConnectPeer
  <2>1. /\ UNCHANGED <<film, target, play, mixed>>
        /\ \/ Opens(Module, "join", "none") /\ state' = [state EXCEPT ![target[Module]] = "ok"]
           \/ Opens(Module, "join", "close") /\ state' = state
    BY <1>3 DEF ConnectPeer
  <2>2. \A s \in Slot \ {target[Module]} : state'[s] = state[s]
    BY <2>1 DEF TInv, TypeOK
  <2>. QED  BY <1>1, <2>1, <2>2
<1>. QED  BY <1>2, <1>3

\* A step of player i, which opens its file, closes the session or seeks.
Tends(i) ==
  /\ UNCHANGED <<state, opc, target, mixed>>
  /\ \A s \in Slot \ {i} :
        film'[s] = film[s] /\ closing'[s] = closing[s] /\ seeking'[s] = seeking[s]
  /\ \A p \in Opener : closing'[p] = closing[p]
  /\ state[i] # "idle" /\ (film[i] \/ closing[i] \/ seeking[i] = "yes")
       => film'[i] \/ closing'[i] \/ seeking'[i] = "yes"

LEMMA TendsKeeps ==
  ASSUME FInv, NEW i \in Slot, Tends(i)
  PROVE  FInv'
<1>1. Undone'
  BY DEF FInv, Undone, Tends
<1>2. ASSUME NEW s \in Slot, s \notin mixed PROVE One(s)' /\ Used(s)' /\ Filmed(s)'
  <2>1. One(s) /\ Used(s) /\ Filmed(s)
    BY <1>2 DEF FInv
  <2>2. /\ \A p \in Opener : Holds(p, s)' <=> Holds(p, s)
        /\ Joining(s)' <=> Joining(s)
    BY DEF Holds, Joining, Tends
  <2>3. One(s)' /\ Used(s)'
    BY <2>1, <2>2 DEF One, Used, Tends
  <2>4. Joining(s) => state[s] = "used"
    BY <2>1 DEF Joining, Used
  <2>5. Filmed(s)'
    <3>1. CASE s = i
      BY <2>1, <2>2, <2>4, <3>1 DEF Filmed, Tends
    <3>2. CASE s # i
      BY <2>1, <2>2, <3>2 DEF Filmed, Tends
    <3>. QED  BY <3>1, <3>2
  <2>. QED  BY <2>3, <2>5
<1>. QED  BY <1>1, <1>2 DEF FInv, Tends

LEMMA PlayFilms ==
  ASSUME Sane, TInv, FInv, NEW i \in Slot,
         \/ PlayClose(i) \/ PlaySeek(i) \/ PlaySought(i) \/ PlaySeekFails(i)
         \/ PlaySeekOver(i) \/ PlayEnds(i)
  PROVE  FInv'
<1>. USE Names
<1>1. ASSUME Close(i, i), UNCHANGED <<open, mixed>>,
             \A s \in Slot \ {i} : seeking'[s] = seeking[s]
      PROVE  Tends(i)
  <2>1. CASE state[i] = "idle"
    BY <1>1, <2>1 DEF Close, slots, open, Tends
  <2>2. CASE state[i] # "idle"
    <3>1. closing'[i] /\ state' = state
      BY <1>1, <2>2 DEF Close, TInv, TypeOK
    <3>2. \A q \in Opener \cup Slot : q # i => closing'[q] = closing[q]
      BY <1>1, <2>2 DEF Close, TInv, TypeOK
    <3>3. \A s \in Slot \ {i} : film'[s] = film[s]
      BY <1>1, <2>2 DEF Close, TInv, TypeOK
    <3>. QED  BY <1>1, <3>1, <3>2, <3>3 DEF open, Tends
  <2>. QED  BY <2>1, <2>2
<1>2. CASE PlayClose(i) \/ PlayEnds(i)
  BY <1>1, <1>2, TendsKeeps DEF PlayClose, PlayEnds
<1>3. CASE PlaySeekFails(i)
  <2>1. \A s \in Slot \ {i} : seeking'[s] = seeking[s]
    BY <1>3 DEF PlaySeekFails, TInv, TypeOK
  <2>. QED  BY <1>1, <1>3, <2>1, TendsKeeps DEF PlaySeekFails
<1>4. CASE PlaySeek(i) \/ PlaySought(i)
  <2>1. /\ UNCHANGED <<state, opc, target, closing, mixed>>
        /\ film'[i] \/ seeking'[i] = "yes"
        /\ \A s \in Slot \ {i} : film'[s] = film[s] /\ seeking'[s] = seeking[s]
    BY <1>4 DEF PlaySeek, PlaySought, open, TInv, TypeOK
  <2>. QED  BY <2>1, TendsKeeps DEF Tends
<1>5. CASE PlaySeekOver(i)
  <2>1. /\ UNCHANGED <<state, film, opc, target, closing, mixed>> /\ seeking[i] = "failed"
        /\ \A s \in Slot \ {i} : seeking'[s] = seeking[s]
    BY <1>5 DEF PlaySeekOver, open, TInv, TypeOK
  <2>. QED  BY <2>1, TendsKeeps DEF Tends
<1>. QED  BY <1>2, <1>3, <1>4, <1>5

\* A slot that is cleared while somebody opens it is noted; else it is idle.
LEMMA WipeFilms ==
  ASSUME Sane, TInv, FInv, NEW s \in Slot, NEW q \in Opener \cup {s}, Wipe(q, s)
  PROVE  FInv'
<1>1. /\ closing[q] /\ UNCHANGED <<opc, target, seeking>>
      /\ closing' = [closing EXCEPT ![q] = FALSE]
      /\ state' = [state EXCEPT ![s] = "idle"] /\ film' = [film EXCEPT ![s] = FALSE]
      /\ mixed' = IF Opening(q, s) THEN mixed \cup {s} ELSE mixed
  BY DEF Wipe, open
<1>2. /\ state'[s] = "idle"
      /\ \A r \in Slot \ {s} : state'[r] = state[r] /\ film'[r] = film[r]
      /\ \A r \in Opener \cup Slot : r # q => closing'[r] = closing[r]
      /\ ~closing'[q]
  BY <1>1 DEF TInv, TypeOK
<1>3. Undone'
  BY <1>1, <1>2 DEF FInv, Undone
<1>4. ASSUME NEW r \in Slot, r \notin mixed' PROVE One(r)' /\ Used(r)' /\ Filmed(r)'
  <2>1. One(r) /\ Used(r) /\ Filmed(r) /\ \A p \in Opener : Holds(p, r)' <=> Holds(p, r)
    BY <1>1, <1>4 DEF FInv, Holds
  <2>2. CASE r = s
    <3>1. \A p \in Opener : ~Holds(p, s)
      <4>1. q \in Opener => ~Holds(q, s)
        BY <1>1 DEF FInv, Undone, Holds
      <4>2. \A p \in Opener \ {q} : ~Holds(p, s)
        BY <1>1, <1>4, <2>2 DEF Opening, Holds
      <4>. QED  BY <4>1, <4>2
    <3>. QED  BY <1>2, <2>1, <2>2, <3>1 DEF One, Used, Filmed, Joining
  <2>3. CASE r # s
    <3>1. One(r)' /\ Used(r)' /\ (Joining(r)' <=> Joining(r))
      BY <1>1, <1>2, <2>1, <2>3 DEF One, Used, Joining
    <3>2. closing'[r] = closing[r]
      BY <1>2, <2>3, Names
    <3>. QED  BY <1>1, <1>2, <2>1, <2>3, <3>1, <3>2 DEF Filmed
  <2>. QED  BY <2>2, <2>3
<1>. QED  BY <1>3, <1>4 DEF FInv

LEMMA NextFilms == Sane /\ TInv /\ FInv /\ [Next]_vars => FInv'
<1>. SUFFICES ASSUME Sane, TInv, FInv, [Next]_vars PROVE FInv'
  OBVIOUS
<1>1. ASSUME NEW p \in Opener, OpenSteps(p) PROVE FInv'
  <2>1. target[p] \in Slot
    BY DEF TInv, TypeOK
  <2>. QED  BY <1>1, <2>1, OpenFilms, MarkFilms, WipeFilms DEF OpenSteps
<1>2. ASSUME NEW i \in Slot, Player(i) \/ PlayEnds(i) PROVE FInv'
  BY <1>2, PlayFilms, WipeFilms DEF Player
<1>3. CASE ListenThread
  BY <1>3, ListenFilms, JoinFilms DEF ListenThread
<1>4. CASE ModuleThread
  BY <1>4, ModuleFilms, JoinFilms DEF ModuleThread
<1>5. CASE UNCHANGED vars
  <2>1. UNCHANGED <<state, film, closing, seeking, mixed, opc, target>>
    BY <1>5 DEF vars, slots, open, play
  <2>. QED  BY <2>1, AsideOutside, OutsideKeeps DEF FInv
<1>. QED  BY <1>1, <1>2, <1>3, <1>4, <1>5, ListenFilms, ModuleFilms DEF Next

\* A player that reads has its file open, through every interleaving of the
\* listening thread, the module thread, the players and the twelve hours, in
\* every slot that two openers did not have at once (playback_process).
THEOREM PlayersHaveFilms == Sane => (Spec => []FilmUnderPlayer)
<1>. SUFFICES ASSUME Sane PROVE Spec => []FilmUnderPlayer
  OBVIOUS
<1>1. Init => TInv /\ FInv
  BY InitTypes, InitFilms
<1>2. TInv /\ FInv /\ [Next]_vars => (TInv /\ FInv)'
  BY NextTypes, NextFilms
<1>3. FInv => FilmUnderPlayer
  BY DEF FInv, Filmed, FilmUnderPlayer, Plays, AtTop
<1>. QED  BY <1>1, <1>2, <1>3, PTL DEF Spec
================================================================================
