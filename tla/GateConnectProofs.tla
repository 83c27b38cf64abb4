--------------------------- MODULE GateConnectProofs ---------------------------
(***************************************************************************)
(* Theorems about the gateway link of GateConnect, for every number of     *)
(* slots, every set of descriptors and every queue length.                 *)
(***************************************************************************)
EXTENDS GateConnect, TLAPS

USE GatesAssumption, FDsAssumption, QueueAssumption

\* A target is a small code or a descriptor, and the two are told apart by size.
LEMMA TargetKinds ==
  \A t \in Target : t \in Nat /\ (t <= 2 \/ t \in FDs)
BY DEF Target, AnyGate, AlarmGate

\* A packet joins the queue only while there is room for it.
LEMMA PostType ==
  ASSUME NEW t \in Target, queue \in Seq(Target), Len(queue) <= QueueMax, Post(t)
  PROVE  queue' \in Seq(Target) /\ Len(queue') <= QueueMax
<1>1. CASE Len(queue) < QueueMax
  <2>1. queue' = Append(queue, t)
    BY <1>1 DEF Post
  <2>2. Append(queue, t) \in Seq(Target) /\ Len(Append(queue, t)) = Len(queue) + 1
    OBVIOUS
  <2>. QED  BY <1>1, <2>1, <2>2
<1>2. CASE ~(Len(queue) < QueueMax)
  BY <1>2 DEF Post
<1>. QED  BY <1>1, <1>2

\* Closing a number leaves every number in a state a socket can be in.
LEMMA ClosedType ==
  ASSUME sock \in [FDs -> SockState], NEW fd
  PROVE  Closed(fd) \in [FDs -> SockState]
BY DEF Closed, SockState

\* Every variable keeps its type: slots hold descriptors, the queue stays
\* within its limit, both threads stay in their steps.
LEMMA TypeStep == TypeOK /\ [Next]_vars => TypeOK'
<1>. SUFFICES ASSUME TypeOK, [Next]_vars PROVE TypeOK'
  OBVIOUS
<1>. USE DEF TypeOK, Gate, Emergency, NoFd, AnyGate, AlarmGate, GtStep, AckStep
<1>1. CASE SendGatePkt
  <2>1. PICK t \in Target : Post(t)
    BY <1>1 DEF SendGatePkt, Target
  <2>. QED  BY <1>1, <2>1, PostType DEF SendGatePkt, gateVars, gtVars, ackVars, flagVars
<1>2. ASSUME NEW g \in Gate, SetGateIp(g) PROVE TypeOK'
  BY <1>2, ClosedType DEF SetGateIp, gtVars, ackVars, flagVars
<1>3. ASSUME NEW fd \in FDs, OtherOpen(fd) \/ OtherClose(fd) \/ PeerClose(fd)
      PROVE  TypeOK'
  <2>1. sock' \in [FDs -> SockState]
    BY <1>3, ClosedType DEF OtherOpen, OtherClose, PeerClose, SockState
  <2>2. UNCHANGED <<gfd, queue, gtVars, ackVars, flagVars, deposed>>
    BY <1>3 DEF OtherOpen, OtherClose, PeerClose
  <2>. QED  BY <2>1, <2>2 DEF gtVars, ackVars, flagVars
<1>4. CASE NetChange
  BY <1>4 DEF NetChange, gateVars, gtVars, ackVars
<1>5. CASE GateRecv
  <2>1. Head(queue) \in Target /\ Tail(queue) \in Seq(Target)
        /\ Len(Tail(queue)) = Len(queue) - 1 /\ Len(queue) \in Nat
    BY <1>5 DEF GateRecv
  <2>2. Head(queue) <= 2 \/ Head(queue) \in FDs
    BY <2>1, TargetKinds
  <2>. QED  BY <1>5, <2>1, <2>2 DEF GateRecv, gateVars, ackVars, flagVars
<1>6. CASE GateFind
  BY <1>6 DEF GateFind, LastScanned, FirstTry, gateVars, ackVars, flagVars
<1>8. ASSUME NEW fd \in FDs, GateConnectOk(fd) PROVE TypeOK'
  <2>1. sock' \in [FDs -> SockState]
    BY <1>8 DEF GateConnectOk, SockState
  <2>. QED  BY <1>8, <2>1 DEF GateConnectOk, CreateAckThread, ackVars, flagVars
<1>9. CASE GateConnectFail
  BY <1>9 DEF GateConnectFail, NextTry, gateVars, ackVars, flagVars
<1>10. CASE GateFlag
  <2>1. connFlag' \in BOOLEAN
    BY <1>10 DEF GateFlag
  <2>2. UNCHANGED <<gfd, sock, queue, ackPc, ackGate, ackFd, regFlag, deposed>>
    BY <1>10 DEF GateFlag, gateVars, ackVars
  <2>3. CASE gtFd # NoFd
    <3>1. gtPc' = "send" /\ UNCHANGED <<gtAt, gtTarget, gtFd, tried>>
      BY <1>10, <2>3 DEF GateFlag
    <3>. QED  BY <2>1, <2>2, <3>1
  <2>4. CASE gtFd = NoFd
    <3>1. GateIdle
      BY <1>10, <2>4 DEF GateFlag
    <3>. QED  BY <2>1, <2>2, <3>1 DEF GateIdle, Target
  <2>. QED  BY <2>3, <2>4
<1>11. CASE GateSend
  BY <1>11 DEF GateSend, GateIdle, Target, gateVars, ackVars, flagVars
<1>12. CASE AckStart \/ AckDeposed \/ AckSelectError \/ AckRecvError
  BY <1>12 DEF AckStart, AckDeposed, AckSelectError, AckRecvError,
               gateVars, gtVars, flagVars
<1>13. CASE AckSelectClear \/ AckSelectClose \/ AckRetire
  <2>1. sock' \in [FDs -> SockState]
    BY <1>13, ClosedType DEF AckSelectClear, AckSelectClose, AckRetire
  <2>. QED
    BY <1>13, <2>1 DEF AckSelectClear, AckSelectClose, AckRetire, RetiredSlots, gtVars, flagVars
<1>14. CASE AckRecv
  <2>1. CASE Post(ackFd) /\ UNCHANGED regFlag
    <3>1. ackFd \in Target
      BY <1>14 DEF AckRecv, Target
    <3>2. queue' \in Seq(Target) /\ Len(queue') <= QueueMax
      BY <2>1, <3>1, PostType
    <3>. QED  BY <1>14, <2>1, <3>2 DEF AckRecv, gateVars, gtVars, ackVars
  <2>2. CASE regFlag' = TRUE /\ UNCHANGED queue
    BY <1>14, <2>2 DEF AckRecv, gateVars, gtVars, ackVars
  <2>. QED  BY <1>14, <2>1, <2>2 DEF AckRecv
<1>15. CASE AckUnregister \/ AckClear
  <2>1. regFlag' \in BOOLEAN
    BY <1>15 DEF AckUnregister, AckClear, flagVars
  <2>2. UNCHANGED <<gfd, sock, queue, gtPc, gtAt, gtTarget, gtFd, tried, connFlag, deposed>>
    BY <1>15 DEF AckUnregister, AckClear, gateVars, gtVars, flagVars
  <2>3. /\ ackPc' \in {"clear", "none"}
        /\ ackGate' \in Gate /\ ackFd' \in FDs \cup {NoFd}
    BY <1>15 DEF AckUnregister, AckClear
  <2>. QED  BY <2>1, <2>2, <2>3
<1>16. CASE UNCHANGED vars
  BY <1>16 DEF vars, gateVars, gtVars, ackVars, flagVars
<1>. QED
  BY <1>1, <1>2, <1>3, <1>4, <1>5, <1>6, <1>8, <1>9, <1>10, <1>11, <1>12,
     <1>13, <1>14, <1>15, <1>16 DEF Next, GateThread, AckThread, Environment

\* THEOREM of the type invariant: no step of any thread, in any order, leaves
\* the types of the slots, the queue and the two threads.
THEOREM TypeCorrect == Spec => []TypeOK
<1>1. Init => TypeOK
  <2>1. SUFFICES ASSUME Init PROVE TypeOK
    OBVIOUS
  <2>2. 1 \in Gate /\ AnyGate \in Target
    BY DEF Gate, Target
  <2>3. queue \in Seq(Target) /\ Len(queue) <= QueueMax
    BY <2>1 DEF Init
  <2>4. gfd \in [Gate -> FDs \cup {NoFd}] /\ sock \in [FDs -> SockState]
    BY <2>1 DEF Init, SockState
  <2>5. connFlag \in BOOLEAN /\ regFlag \in BOOLEAN /\ deposed \in BOOLEAN
    BY <2>1 DEF Init
  <2>. QED
    BY <2>1, <2>2, <2>3, <2>4, <2>5 DEF Init, TypeOK, GtStep, AckStep
<1>. QED  BY <1>1, TypeStep, PTL DEF Spec

--------------------------------------------------------------------------------
(* At most one gateway is connected.                                         *)

\* What the gate thread has established about the slots: those it has passed
\* in find_active_gate are unconnected, and all are when it starts to connect.
\* No other thread connects a slot, so this survives their steps.
ScanInv ==
  /\ gtPc = "find" => \A g \in Gate : g < gtAt => ~Connected(g)
  /\ gtPc = "connect" => \A g \in Gate : ~Connected(g)

LinkInv == AtMostOneGate /\ ScanInv

\* Outside GateConnectOk a slot only loses its descriptor.
LEMMA OnlyGateThreadConnects ==
  ASSUME TypeOK, [Next]_vars, NEW g \in Gate, ~Connected(g), Connected(g)'
  PROVE  \E fd \in FDs : GateConnectOk(fd) /\ g = gtAt
<1>. USE DEF TypeOK, Connected
<1>1. ASSUME UNCHANGED gfd PROVE FALSE
  BY <1>1
<1>2. ASSUME NEW h \in Gate, gfd' = [gfd EXCEPT ![h] = NoFd] PROVE FALSE
  BY <1>2
<1>3. ASSUME NEW fd \in FDs, GateConnectOk(fd) PROVE g = gtAt
  BY <1>3 DEF GateConnectOk
<1>4. CASE GateThread
  BY <1>1, <1>3, <1>4 DEF GateThread, GateRecv, GateFind, GateConnectFail,
     GateFlag, GateSend, gateVars
<1>5. CASE AckThread
  BY <1>1, <1>2, <1>5 DEF AckThread, AckStart, AckDeposed, AckSelectError,
     AckSelectClear, AckSelectClose, AckRecv, AckRecvError, AckRetire, RetiredSlots, AckUnregister,
     AckClear, gateVars
<1>6. CASE Environment
  BY <1>1, <1>2, <1>6 DEF Environment, SendGatePkt, NetChange, SetGateIp, OtherOpen,
     OtherClose, PeerClose, gateVars
<1>. QED  BY <1>1, <1>4, <1>5, <1>6 DEF Next, vars, gateVars

\* The invariant is kept: only a connect fills a slot, and a connect happens
\* when ScanInv says that every slot is unconnected.
LEMMA LinkStep == TypeOK /\ LinkInv /\ [Next]_vars => LinkInv'
<1>. SUFFICES ASSUME TypeOK, LinkInv, [Next]_vars PROVE LinkInv'
  OBVIOUS
<1>1. AtMostOneGate'
  <2>1. SUFFICES ASSUME NEW g \in Gate, NEW h \in Gate, Connected(g)', Connected(h)'
                 PROVE  g = h
    BY DEF AtMostOneGate
  <2>2. CASE Connected(g) /\ Connected(h)
    BY <2>2 DEF LinkInv, AtMostOneGate
  <2>3. CASE ~Connected(g)
    <3>1. PICK fd \in FDs : GateConnectOk(fd) /\ g = gtAt
      BY <2>1, <2>3, OnlyGateThreadConnects
    <3>2. ~Connected(h)
      BY <3>1 DEF LinkInv, ScanInv, GateConnectOk
    <3>. QED  BY <2>1, <3>1, <3>2, OnlyGateThreadConnects
  <2>4. CASE ~Connected(h)
    <3>1. PICK fd \in FDs : GateConnectOk(fd) /\ h = gtAt
      BY <2>1, <2>4, OnlyGateThreadConnects
    <3>2. ~Connected(g)
      BY <3>1 DEF LinkInv, ScanInv, GateConnectOk
    <3>. QED  BY <2>1, <3>1, <3>2, OnlyGateThreadConnects
  <2>. QED  BY <2>2, <2>3, <2>4
<1>2. ScanInv'
  <2>1. CASE \E fd \in FDs : GateConnectOk(fd)
    BY <2>1 DEF GateConnectOk, ScanInv
  <2>2. CASE ~\E fd \in FDs : GateConnectOk(fd)
    <3>1. \A g \in Gate : ~Connected(g) => ~Connected(g)'
      BY <2>2, OnlyGateThreadConnects
    <3>2. CASE UNCHANGED <<gtPc, gtAt>>
      BY <3>1, <3>2 DEF ScanInv, LinkInv
    <3>3. CASE GateFind
      BY <3>1, <3>3 DEF GateFind, LastScanned, ScanInv, LinkInv, TypeOK, Connected, Gate
    <3>4. CASE GateRecv
      BY <3>4 DEF GateRecv, ScanInv, Gate
    <3>5. CASE GateConnectFail
      BY <3>1, <3>5 DEF GateConnectFail, ScanInv, LinkInv
    <3>6. CASE GateFlag \/ GateSend
      BY <3>6 DEF GateFlag, GateSend, GateIdle, ScanInv
    <3>. QED
      BY <2>2, <3>2, <3>3, <3>4, <3>5, <3>6
      DEF Next, GateThread, AckThread, AckStart, AckDeposed, AckSelectError,
          AckSelectClear, AckSelectClose, AckRecv, AckRecvError, AckRetire, AckUnregister, AckClear,
          Environment, SendGatePkt, NetChange, SetGateIp, OtherOpen, OtherClose,
          PeerClose, gtVars, vars
  <2>. QED  BY <2>1, <2>2
<1>. QED  BY <1>1, <1>2 DEF LinkInv

\* At most one slot is connected at any time, for any number of slots and
\* whatever set_gate_ip, the ack thread and the network do meanwhile.
THEOREM OneGate == Spec => []AtMostOneGate
<1>1. Init => LinkInv
  BY DEF Init, LinkInv, AtMostOneGate, ScanInv, Connected
<1>2. LinkInv => AtMostOneGate
  BY DEF LinkInv
<1>. QED  BY <1>1, <1>2, LinkStep, TypeCorrect, PTL DEF Spec

--------------------------------------------------------------------------------
(* The emergency server is for alarms.                                       *)

\* A packet that is no alarm starts at slot 1 and stops before the last one.
EmergencyInv == gtPc = "connect" /\ gtAt = Emergency => gtTarget = AlarmGate

LEMMA EmergencyStep == TypeOK /\ EmergencyInv /\ [Next]_vars => EmergencyInv'
<1>. SUFFICES ASSUME TypeOK, EmergencyInv, [Next]_vars PROVE EmergencyInv'
  OBVIOUS
<1>. USE DEF EmergencyInv, Emergency
<1>1. CASE UNCHANGED <<gtPc, gtAt, gtTarget>>
  BY <1>1
<1>2. CASE GateFind
  BY <1>2 DEF GateFind, FirstTry
<1>3. CASE GateConnectFail
  BY <1>3 DEF GateConnectFail, NextTry, TypeOK, Gate
<1>4. CASE GateRecv \/ GateFlag \/ GateSend
           \/ \E fd \in FDs : GateConnectOk(fd)
  BY <1>4 DEF GateRecv, GateFlag, GateSend, GateIdle, GateConnectOk
<1>. QED
  BY <1>1, <1>2, <1>3, <1>4
  DEF Next, GateThread, AckThread, AckStart, AckDeposed, AckSelectError,
      AckSelectClear, AckSelectClose, AckRecv, AckRecvError, AckRetire, AckUnregister, AckClear,
      Environment, SendGatePkt, NetChange, SetGateIp, OtherOpen, OtherClose,
      PeerClose, gtVars, vars

\* Every connection to the emergency server is made for an alarm packet.
THEOREM EmergencyForAlarms == Spec => EmergencyOnlyForAlarms
<1>1. Init => EmergencyInv
  BY DEF Init, EmergencyInv
<1>2. TypeOK /\ EmergencyInv /\ [Next]_vars
        => [~Connected(Emergency) /\ Connected(Emergency)' => gtTarget = AlarmGate]_vars
  <2>1. SUFFICES ASSUME TypeOK, EmergencyInv, [Next]_vars,
                        ~Connected(Emergency), Connected(Emergency)'
                 PROVE  gtTarget = AlarmGate
    OBVIOUS
  <2>2. Emergency \in Gate
    BY DEF Emergency, Gate
  <2>3. PICK fd \in FDs : GateConnectOk(fd) /\ Emergency = gtAt
    BY <2>1, <2>2, OnlyGateThreadConnects
  <2>. QED  BY <2>1, <2>3 DEF GateConnectOk, EmergencyInv
<1>. QED  BY <1>1, <1>2, EmergencyStep, TypeCorrect, PTL DEF Spec, EmergencyOnlyForAlarms

--------------------------------------------------------------------------------
(* Whose descriptor it is, as long as set_gate_ip drops no live connection.  *)

\* The ack thread's connection is the connected slot's from its start to the
\* end of its sleep.  So nothing else can be closed when it retires.
OwnInv ==
  ~deposed =>
    /\ \A g \in Gate : Connected(g) => sock[gfd[g]] \in {"live", "dead"}
    /\ ackPc = "start" => Connected(ackGate)
    /\ ackPc \in {"loop", "linger"} => Connected(ackGate) /\ gfd[ackGate] = ackFd
    /\ ackPc \notin {"selerr", "selclose"}

\* A connect finds every slot unconnected, so no ack thread before its exit.
LEMMA OwnConnect ==
  ASSUME TypeOK, LinkInv, OwnInv, NEW fd \in FDs, GateConnectOk(fd)
  PROVE  OwnInv' /\ (~deposed => ackPc \notin {"start", "loop", "linger"})
<1>. SUFFICES ASSUME ~deposed
              PROVE  OwnInv' /\ ackPc \notin {"start", "loop", "linger"}
  BY DEF OwnInv, GateConnectOk
<1>1. \A g \in Gate : ~Connected(g)
  BY DEF GateConnectOk, LinkInv, ScanInv
<1>2. ackPc \notin {"start", "loop", "linger", "selerr", "selclose"}
  BY <1>1 DEF OwnInv, TypeOK
<1>3. \A g \in Gate : Connected(g)' => g = gtAt /\ gfd'[g] = fd /\ sock'[fd] = "live"
  BY <1>1 DEF GateConnectOk, TypeOK, Connected
<1>4. gtAt \in Gate /\ gfd'[gtAt] = fd /\ fd # NoFd
  BY DEF GateConnectOk, TypeOK, NoFd
<1>5. \/ ackPc' = "start" /\ ackGate' = gtAt
      \/ ackPc' = ackPc
  BY DEF GateConnectOk, CreateAckThread, ackVars
<1>. QED  BY <1>2, <1>3, <1>4, <1>5 DEF OwnInv, Connected

\* A thread that has its slot's connection sees no select error, and retires
\* that slot with that descriptor.
LEMMA OwnAck ==
  ASSUME TypeOK, LinkInv, OwnInv, AckThread
  PROVE  OwnInv'
<1>. SUFFICES ASSUME ~deposed PROVE OwnInv'
  BY DEF OwnInv, AckThread, AckStart, AckDeposed, AckSelectError, AckSelectClear,
     AckSelectClose, AckRecv, AckRecvError, AckRetire, AckUnregister, AckClear
<1>1. ackGate \in Gate
  BY DEF TypeOK
<1>2. CASE AckStart
  BY <1>1, <1>2 DEF AckStart, OwnInv, gateVars, Connected
<1>3. CASE AckDeposed \/ AckSelectError \/ AckSelectClear \/ AckSelectClose
  BY <1>1, <1>3 DEF AckDeposed, AckSelectError, AckSelectClear, AckSelectClose, OwnInv, Connected
<1>4. CASE AckRecv \/ AckRecvError
  BY <1>4 DEF AckRecv, AckRecvError, OwnInv, gateVars, ackVars, Connected
<1>5. CASE AckRetire
  <2>1. \A g \in Gate : ~Connected(g)'
    BY <1>1, <1>5 DEF AckRetire, RetiredSlots, OwnInv, LinkInv, AtMostOneGate, Connected, TypeOK
  <2>2. ackPc' = "unreg"
    BY <1>5 DEF AckRetire
  <2>. QED  BY <2>1, <2>2 DEF OwnInv
<1>6. CASE AckUnregister \/ AckClear
  BY <1>6 DEF AckUnregister, AckClear, OwnInv, gateVars, Connected
<1>. QED  BY <1>2, <1>3, <1>4, <1>5, <1>6 DEF AckThread

\* The rest of the process closes only what is its own, and set_gate_ip a slot
\* that is not connected, or it sets the history variable.
LEMMA OwnEnvironment ==
  ASSUME TypeOK, OwnInv, Environment
  PROVE  OwnInv'
<1>1. CASE SendGatePkt \/ NetChange
  BY <1>1 DEF SendGatePkt, NetChange, OwnInv, gateVars, ackVars, Connected
<1>2. ASSUME NEW g \in Gate, SetGateIp(g) PROVE OwnInv'
  <2>1. SUFFICES ASSUME ~Connected(g), ~deposed PROVE OwnInv'
    BY <1>2 DEF SetGateIp, OwnInv, Connected
  <2>2. UNCHANGED <<gfd, sock, ackPc, ackGate, ackFd>>
    BY <1>2, <2>1 DEF SetGateIp, ackVars, Connected, TypeOK
  <2>. QED  BY <2>1, <2>2 DEF OwnInv, Connected
<1>3. ASSUME NEW fd \in FDs, OtherOpen(fd) \/ OtherClose(fd) \/ PeerClose(fd)
      PROVE  OwnInv'
  <2>1. UNCHANGED <<gfd, ackPc, ackGate, ackFd, deposed>>
    BY <1>3 DEF OtherOpen, OtherClose, PeerClose, ackVars
  <2>2. \A f \in FDs : sock[f] \in {"live", "dead"} => sock'[f] \in {"live", "dead"}
    BY <1>3 DEF OtherOpen, OtherClose, PeerClose, Closed, TypeOK
  <2>3. \A g \in Gate : Connected(g) => gfd[g] \in FDs
    BY DEF TypeOK, Connected
  <2>. QED  BY <2>1, <2>2, <2>3 DEF OwnInv, Connected
<1>. QED  BY <1>1, <1>2, <1>3 DEF Environment

LEMMA OwnStep == TypeOK /\ LinkInv /\ OwnInv /\ [Next]_vars => OwnInv'
<1>. SUFFICES ASSUME TypeOK, LinkInv, OwnInv, [Next]_vars PROVE OwnInv'
  OBVIOUS
<1>1. ASSUME NEW fd \in FDs, GateConnectOk(fd) PROVE OwnInv'
  BY <1>1, OwnConnect
<1>2. CASE GateRecv \/ GateFind \/ GateConnectFail \/ GateFlag \/ GateSend
           \/ UNCHANGED vars
  <2>1. UNCHANGED <<gfd, sock, ackPc, ackGate, ackFd, deposed>>
    BY <1>2 DEF GateRecv, GateFind, GateConnectFail, GateFlag, GateSend, gateVars,
       ackVars, vars
  <2>. QED  BY <2>1 DEF OwnInv, Connected
<1>. QED
  BY <1>1, <1>2, OwnAck, OwnEnvironment DEF Next, GateThread

LEMMA Ownership == Spec => [](TypeOK /\ LinkInv /\ OwnInv)
<1>1. Init => LinkInv /\ OwnInv
  BY DEF Init, LinkInv, AtMostOneGate, ScanInv, OwnInv, Connected
<1>. QED  BY <1>1, LinkStep, OwnStep, TypeCorrect, PTL DEF Spec

\* No sender is handed a closed or a reused descriptor number.
THEOREM SlotsOpen == Spec => []SlotIsOpen
<1>1. OwnInv => SlotIsOpen
  BY DEF OwnInv, SlotIsOpen
<1>. QED  BY <1>1, Ownership, PTL

\* The ack thread reads its own connection only.
THEOREM OwnSocketRead == Spec => []ReadsOwnSocket
<1>1. TypeOK /\ OwnInv => ReadsOwnSocket
  BY DEF OwnInv, ReadsOwnSocket, TypeOK
<1>. QED  BY <1>1, Ownership, PTL

\* The gateway is left alone while the ack thread of the last connection
\* sleeps.
THEOREM Backoff == Spec => ReconnectBackoff
<1>1. TypeOK /\ LinkInv /\ OwnInv /\ [Next]_vars
        => [\A g \in Gate :
              ~deposed /\ ~Connected(g) /\ Connected(g)' => ackPc # "linger"]_vars
  BY OnlyGateThreadConnects, OwnConnect
<1>. QED  BY <1>1, Ownership, PTL DEF Spec, ReconnectBackoff

\* Only OtherClose takes a descriptor from its owner: the link's own closes hit
\* the connected slot's.
LEMMA ForeignClosed ==
  ASSUME TypeOK, LinkInv, OwnInv, [Next]_vars, NEW fd \in FDs,
         ~deposed, sock[fd] = "other", sock'[fd] # "other"
  PROVE  OtherClose(fd)
<1>1. ASSUME UNCHANGED sock PROVE FALSE
  BY <1>1
<1>2. ASSUME NEW f \in FDs, sock[f] # "other", sock' = Closed(f) PROVE FALSE
  BY <1>2 DEF Closed
<1>3. ASSUME NEW f \in FDs, NEW x, sock[f] # "other", sock' = [sock EXCEPT ![f] = x]
      PROVE  FALSE
  BY <1>3 DEF TypeOK
<1>4. CASE GateThread
  BY <1>1, <1>3, <1>4 DEF GateThread, GateRecv, GateFind, GateConnectOk,
     GateConnectFail, GateFlag, GateSend, gateVars
<1>5. CASE AckThread
  <2>1. CASE AckRetire
    <3>1. ackGate \in Gate /\ ackFd \in FDs /\ sock[ackFd] # "other"
      BY <2>1 DEF AckRetire, OwnInv, TypeOK, Connected
    <3>. QED  BY <1>2, <2>1, <3>1 DEF AckRetire
  <2>2. CASE AckSelectClose
    BY <2>2 DEF AckSelectClose, OwnInv
  <2>. QED
    BY <1>1, <1>5, <2>1, <2>2 DEF AckThread, AckStart, AckDeposed, AckSelectError,
       AckSelectClear, AckRecv, AckRecvError, AckUnregister, AckClear, gateVars
<1>6. ASSUME NEW g \in Gate, SetGateIp(g) PROVE FALSE
  <2>1. CASE Connected(g)
    <3>1. gfd[g] \in FDs /\ sock[gfd[g]] # "other" /\ sock' = Closed(gfd[g])
      BY <1>6, <2>1 DEF SetGateIp, OwnInv, TypeOK, Connected
    <3>. QED  BY <1>2, <3>1
  <2>. QED  BY <1>1, <1>6, <2>1 DEF SetGateIp, Connected
<1>7. ASSUME NEW f \in FDs, OtherClose(f) PROVE f = fd
  BY <1>7 DEF OtherClose, Closed
<1>8. ASSUME NEW f \in FDs, OtherOpen(f) \/ PeerClose(f) PROVE FALSE
  BY <1>3, <1>8 DEF OtherOpen, PeerClose
<1>9. CASE SendGatePkt \/ NetChange
  BY <1>1, <1>9 DEF SendGatePkt, NetChange, gateVars
<1>. QED
  BY <1>1, <1>4, <1>5, <1>6, <1>7, <1>8, <1>9 DEF Next, Environment, vars, gateVars

\* The link closes no descriptor of another part of the process.
THEOREM ForeignKept == Spec => NoForeignClose
<1>1. TypeOK /\ LinkInv /\ OwnInv /\ [Next]_vars
        => [\A fd \in FDs :
              ~deposed /\ sock[fd] = "other" /\ sock'[fd] # "other" => OtherClose(fd)]_vars
  BY ForeignClosed
<1>. QED  BY <1>1, Ownership, PTL DEF Spec, NoForeignClose
================================================================================
