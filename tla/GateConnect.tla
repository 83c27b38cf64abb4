------------------------------ MODULE GateConnect ------------------------------
(***************************************************************************)
(* The link from the device to its remote gateways (gate_connect.c).       *)
(*                                                                         *)
(* One gate thread takes packets from a message queue and sends each to a  *)
(* connected gateway, connecting one first if there is none.  The first    *)
(* connection starts the (only) ack thread, which reads that connection    *)
(* until it fails, sleeps twenty seconds and then retires the gate slot.   *)
(* Command threads may readdress a gate slot at any moment (set_gate_ip),  *)
(* and the rest of the process opens and closes descriptors of its own.    *)
(*                                                                         *)
(* A gate mutex is held over each access to its slot, including the whole  *)
(* of a connect, so one action models one critical section.                *)
(***************************************************************************)
EXTENDS Integers, Sequences

CONSTANTS
  NGates,    (* MAX_GATE_LIST: slots 1..NGates-1 are ordinary gateways and   *)
             (* slot NGates is the emergency alarm server                    *)
  FDs,       (* descriptor numbers the process can be given                  *)
  QueueMax   (* messages the SysV queue holds; a send to a full one is lost  *)

ASSUME GatesAssumption == NGates \in Nat /\ NGates >= 2
ASSUME FDsAssumption   == FDs \subseteq Nat /\ \A fd \in FDs : fd > 2
ASSUME QueueAssumption == QueueMax \in Nat \ {0}

Gate      == 1..NGates
Emergency == NGates
NoFd      == -1

\* Message targets below the descriptors: connect any gateway, or try the
\* emergency server too (an alarm).  send_gate_pkt makes them from -1 and -2.
AnyGate   == 1
AlarmGate == 2
Target    == {AnyGate, AlarmGate} \cup FDs

VARIABLES
  gfd,        \* gate_list[g].fd
  sock,       \* what the kernel holds under each descriptor number
  queue,      \* the gate thread's message queue
  gtPc, gtAt, gtTarget, gtFd,    \* gate thread: step, slot, target, rmt_fd
  ackPc, ackGate, ackFd,         \* ack thread: step, gate, netfd
  connFlag,   \* gate_connect_flag of devstat.c
  regFlag,    \* regist_flag of devstat.c
  tried,      \* history: slots whose connect failed for the current message
  deposed     \* history: set_gate_ip has closed a connection in use

gateVars == <<gfd, sock>>
gtVars   == <<gtPc, gtAt, gtTarget, gtFd, tried>>
ackVars  == <<ackPc, ackGate, ackFd>>
flagVars == <<connFlag, regFlag>>
vars     == <<gateVars, queue, gtVars, ackVars, flagVars, deposed>>

\* "live": a connection whose gateway is still there; "dead": the gateway
\* closed or reset it; "other": a descriptor of another part of the process.
SockState == {"free", "other", "live", "dead"}

GtStep  == {"recv", "find", "connect", "flag", "send"}
AckStep == {"none", "start", "loop", "selerr", "selclose", "linger", "unreg", "clear"}

TypeOK ==
  /\ gfd \in [Gate -> FDs \cup {NoFd}]
  /\ sock \in [FDs -> SockState]
  /\ queue \in Seq(Target) /\ Len(queue) <= QueueMax
  /\ gtPc \in GtStep /\ gtAt \in Gate /\ gtTarget \in Target
  /\ gtFd \in FDs \cup {NoFd} /\ tried \in SUBSET Gate
  /\ ackPc \in AckStep /\ ackGate \in Gate /\ ackFd \in FDs \cup {NoFd}
  /\ ackPc \in {"loop", "selerr", "selclose"} => ackFd # NoFd
  /\ connFlag \in BOOLEAN /\ regFlag \in BOOLEAN /\ deposed \in BOOLEAN

Init ==
  /\ gfd = [g \in Gate |-> NoFd]
  /\ sock = [fd \in FDs |-> "free"]
  /\ queue = <<>>
  /\ gtPc = "recv" /\ gtAt = 1 /\ gtTarget = AnyGate /\ gtFd = NoFd
  /\ tried = {}
  /\ ackPc = "none" /\ ackGate = 1 /\ ackFd = NoFd
  /\ connFlag = FALSE /\ regFlag = FALSE /\ deposed = FALSE

\* close(2): any owner's socket goes, a number that is not open is an error.
Closed(fd) == [f \in FDs |-> IF f = fd THEN "free" ELSE sock[f]]

PostAlways(target) == queue' = Append(queue, target)

\* mod_com_send: msgsnd with IPC_NOWAIT, a full queue refuses the message.
Post(target) ==
  queue' = IF Len(queue) < QueueMax THEN Append(queue, target) ELSE queue

--------------------------------------------------------------------------------
(* The rest of the process and the network.                                  *)

\* Any thread hands the gate thread a packet: registration, state, alarm, or
\* the answer to a command that came in on an open connection.
SendGatePkt ==
  /\ \/ \E t \in {AnyGate, AlarmGate} : Post(t)
     \/ \E fd \in FDs : sock[fd] # "free" /\ Post(fd)
  /\ UNCHANGED <<gateVars, gtVars, ackVars, flagVars, deposed>>

\* A command thread gives slot g a new address, dropping its connection.  The
\* address is not kept: having none is one reason for GateConnectFail.
SetGateIp(g) ==
  /\ gfd' = [gfd EXCEPT ![g] = NoFd]
  /\ sock' = IF gfd[g] # NoFd THEN Closed(gfd[g]) ELSE sock
  /\ deposed' = (deposed \/ gfd[g] # NoFd)
  /\ UNCHANGED <<queue, gtVars, ackVars, flagVars>>

\* An accepted user connection, a file, ...
OtherOpen(fd) ==
  /\ sock[fd] = "free"
  /\ sock' = [sock EXCEPT ![fd] = "other"]
  /\ UNCHANGED <<gfd, queue, gtVars, ackVars, flagVars, deposed>>

OtherClose(fd) ==
  /\ sock[fd] = "other"
  /\ sock' = Closed(fd)
  /\ UNCHANGED <<gfd, queue, gtVars, ackVars, flagVars, deposed>>

PeerClose(fd) ==
  /\ sock[fd] = "live"
  /\ sock' = [sock EXCEPT ![fd] = "dead"]
  /\ UNCHANGED <<gfd, queue, gtVars, ackVars, flagVars, deposed>>

\* refresh_netinfo sees a new ppp0 address and asks for a new registration.
NetChange ==
  /\ regFlag' = FALSE
  /\ UNCHANGED <<gateVars, queue, gtVars, ackVars, connFlag, deposed>>

--------------------------------------------------------------------------------
(* The gate thread: gate_connect_thread, gate_connect_cmd_proc.              *)

\* The locals of a message mean nothing once it is dealt with.
GateIdle ==
  /\ gtPc' = "recv" /\ gtAt' = 1 /\ gtTarget' = AnyGate /\ gtFd' = NoFd
  /\ tried' = {}

GateRecv ==
  /\ gtPc = "recv" /\ queue # <<>>
  /\ queue' = Tail(queue)
  /\ gtTarget' = Head(queue)
  /\ gtAt' = 1 /\ tried' = {}
  /\ IF Head(queue) <= 2
     THEN gtPc' = "find" /\ gtFd' = NoFd
     ELSE gtPc' = "send" /\ gtFd' = Head(queue)
  /\ UNCHANGED <<gateVars, ackVars, flagVars, deposed>>

\* get_active_gate's order: an alarm tries the emergency server first.
FirstTryAlways == Emergency
FirstTry == IF gtTarget = AlarmGate THEN Emergency ELSE 1
NextTry  == IF gtAt = Emergency THEN 1 ELSE gtAt + 1

\* find_active_gate looks at every slot, the emergency server's included.
ScanOrdinaryOnly == NGates - 1
LastScanned == NGates

\* find_active_gate: one slot looked at under its mutex.
GateFind ==
  /\ gtPc = "find"
  /\ \/ /\ gfd[gtAt] # NoFd
        /\ gtFd' = gfd[gtAt] /\ gtPc' = "flag" /\ gtAt' = gtAt
     \/ /\ gfd[gtAt] = NoFd
        /\ IF gtAt < LastScanned
           THEN gtAt' = gtAt + 1 /\ gtPc' = gtPc
           ELSE gtAt' = FirstTry /\ gtPc' = "connect"
        /\ gtFd' = gtFd
  /\ UNCHANGED <<gateVars, queue, gtTarget, tried, ackVars, flagVars, deposed>>

\* create_recv_gate_ack_thread: refused while the last ack thread's id is set.
CreateAckThread(g) ==
  IF ackPc = "none"
  THEN ackPc' = "start" /\ ackGate' = g /\ ackFd' = NoFd
  ELSE UNCHANGED ackVars

\* connect_to_gate.  Its return of the descriptor of a slot already connected
\* never happens: every slot was seen unconnected and no other thread fills one
\* (ScanInv in GateConnectProofs).
GateConnectOk(fd) ==
  /\ gtPc = "connect" /\ gfd[gtAt] = NoFd
  /\ sock[fd] = "free"
  /\ sock' = [sock EXCEPT ![fd] = "live"]
  /\ gfd' = [gfd EXCEPT ![gtAt] = fd]
  /\ CreateAckThread(gtAt)
  /\ gtFd' = fd /\ gtPc' = "flag"
  /\ UNCHANGED <<queue, gtAt, gtTarget, tried, flagVars, deposed>>

\* No address, no descriptor, refused or timed out: the next slot.
GateConnectFail ==
  /\ gtPc = "connect" /\ gfd[gtAt] = NoFd
  /\ tried' = tried \cup {gtAt}
  /\ IF NextTry = Emergency
     THEN gtPc' = "flag" /\ gtAt' = gtAt
     ELSE gtPc' = gtPc /\ gtAt' = NextTry
  /\ UNCHANGED <<gateVars, queue, gtTarget, gtFd, ackVars, flagVars, deposed>>

GateFlag ==
  /\ gtPc = "flag"
  /\ connFlag' = (gtFd # NoFd)
  /\ IF gtFd # NoFd
     THEN gtPc' = "send" /\ UNCHANGED <<gtAt, gtTarget, gtFd, tried>>
     ELSE GateIdle
  /\ UNCHANGED <<gateVars, queue, ackVars, regFlag, deposed>>

\* send_pkt_to_gate: whatever gt_cmd_pkt_send returns is only printed.
GateSend ==
  /\ gtPc = "send"
  /\ GateIdle
  /\ UNCHANGED <<gateVars, queue, ackVars, flagVars, deposed>>

GateThread ==
  \/ GateRecv \/ GateFind \/ GateConnectFail
  \/ \E fd \in FDs : GateConnectOk(fd)
  \/ GateFlag \/ GateSend

--------------------------------------------------------------------------------
(* The ack thread: recv_gate_ack_thread.                                     *)

AckStart ==
  /\ ackPc = "start"
  /\ ackFd' = gfd[ackGate]
  /\ ackPc' = IF gfd[ackGate] = NoFd THEN "linger" ELSE "loop"
  /\ UNCHANGED <<gateVars, queue, gtVars, ackGate, flagVars, deposed>>

\* select times out and the slot has lost its descriptor.
AckDeposed ==
  /\ ackPc = "loop" /\ sock[ackFd] # "dead" /\ gfd[ackGate] = NoFd
  /\ ackPc' = "linger"
  /\ UNCHANGED <<gateVars, queue, gtVars, ackGate, ackFd, flagVars, deposed>>

\* select fails: somebody closed the descriptor.
AckSelectError ==
  /\ ackPc = "loop" /\ sock[ackFd] = "free"
  /\ ackPc' = "selerr"
  /\ UNCHANGED <<gateVars, queue, gtVars, ackGate, ackFd, flagVars, deposed>>

\* It clears its slot, and closes the number once the mutex is unlocked.
AckSelectClear ==
  /\ ackPc = "selerr"
  /\ gfd' = [gfd EXCEPT ![ackGate] = NoFd]
  /\ ackPc' = "selclose"
  /\ UNCHANGED <<sock, queue, gtVars, ackGate, ackFd, flagVars, deposed>>

AckSelectClose ==
  /\ ackPc = "selclose"
  /\ sock' = Closed(ackFd)
  /\ ackPc' = "linger"
  /\ UNCHANGED <<gfd, queue, gtVars, ackGate, ackFd, flagVars, deposed>>

\* A command arrived: process_netcmd may accept a registration and may answer.
AckRecv ==
  /\ ackPc = "loop" /\ sock[ackFd] \in {"live", "other"}
  /\ \/ regFlag' = TRUE /\ UNCHANGED queue
     \/ Post(ackFd) /\ UNCHANGED regFlag
  /\ UNCHANGED <<gateVars, gtVars, ackVars, connFlag, deposed>>

AckRecvErrorCloses ==
  /\ ackPc = "loop" /\ sock[ackFd] # "free"
  /\ connFlag' = FALSE
  /\ gfd' = [gfd EXCEPT ![ackGate] = NoFd]
  /\ sock' = Closed(ackFd)
  /\ ackPc' = "linger"
  /\ UNCHANGED <<queue, gtVars, ackGate, ackFd, regFlag, deposed>>

AckRecvErrorNoBreak ==
  /\ ackPc = "loop" /\ sock[ackFd] # "free"
  /\ connFlag' = FALSE
  /\ gfd' = [gfd EXCEPT ![ackGate] = NoFd]
  /\ sock' = Closed(ackFd)
  /\ UNCHANGED <<queue, gtVars, ackVars, regFlag, deposed>>

AckRecvError ==
  /\ ackPc = "loop" /\ sock[ackFd] # "free"
  /\ connFlag' = FALSE
  /\ ackPc' = "linger"
  /\ UNCHANGED <<gateVars, queue, gtVars, ackGate, ackFd, regFlag, deposed>>

\* The twenty seconds are over: the slot is cleared whatever it now holds.
RetiredSlotsKept == gfd
RetiredSlots == [gfd EXCEPT ![ackGate] = NoFd]

AckRetire ==
  /\ ackPc = "linger"
  /\ gfd' = RetiredSlots
  /\ sock' = Closed(ackFd)
  /\ ackPc' = "unreg"
  /\ UNCHANGED <<queue, gtVars, ackGate, ackFd, flagVars, deposed>>

AckUnregister ==
  /\ ackPc = "unreg"
  /\ regFlag' = FALSE
  /\ ackPc' = "clear"
  /\ UNCHANGED <<gateVars, queue, gtVars, ackGate, ackFd, connFlag, deposed>>

AckClear ==
  /\ ackPc = "clear"
  /\ ackPc' = "none" /\ ackGate' = 1 /\ ackFd' = NoFd
  /\ UNCHANGED <<gateVars, queue, gtVars, flagVars, deposed>>

AckThread ==
  \/ AckStart \/ AckDeposed \/ AckSelectError \/ AckSelectClear
  \/ AckSelectClose \/ AckRecv \/ AckRecvError \/ AckRetire \/ AckUnregister \/ AckClear

--------------------------------------------------------------------------------
Environment ==
  \/ SendGatePkt \/ NetChange
  \/ \E g \in Gate : SetGateIp(g)
  \/ \E fd \in FDs : OtherOpen(fd) \/ OtherClose(fd) \/ PeerClose(fd)

Next == GateThread \/ AckThread \/ Environment

\* The threads keep running: the gate thread finishes the message in hand, the
\* ack thread notices a lost connection and its sleep ends.  Nothing is assumed
\* of the gateways, the users or the other threads.
Fairness ==
  /\ WF_vars(GateThread)
  /\ WF_vars(AckStart \/ AckSelectError \/ AckSelectClear \/ AckSelectClose)
  /\ WF_vars(AckDeposed)
  /\ WF_vars(ackPc = "loop" /\ sock[ackFd] = "dead" /\ AckRecvError)
  /\ WF_vars(AckRetire \/ AckUnregister \/ AckClear)

Spec == Init /\ [][Next]_vars

FairSpec == Spec /\ Fairness

--------------------------------------------------------------------------------
(* Properties.                                                               *)

Connected(g) == gfd[g] # NoFd

\* The device talks to one gateway at a time: get_active_gate connects only
\* when it saw every slot unconnected, while slots may be dropped and
\* readdressed under it.
AtMostOneGate ==
  \A g, h \in Gate : Connected(g) /\ Connected(h) => g = h

\* Until set_gate_ip drops a connection in use, a slot's descriptor is an open
\* gateway socket: whatever the interleaving of the ack thread's retirement
\* with reconnects, no sender is handed a closed or a reused number.
SlotIsOpen ==
  ~deposed => \A g \in Gate : Connected(g) => sock[gfd[g]] \in {"live", "dead"}

\* Under the same condition the ack thread reads from its own connection only.
ReadsOwnSocket ==
  ~deposed => (ackPc = "loop" => sock[ackFd] \in {"live", "dead"})

\* Under the same condition the link code closes no descriptor of another part
\* of the process (no number is closed twice).
NoForeignClose ==
  [][\A fd \in FDs :
       ~deposed /\ sock[fd] = "other" /\ sock'[fd] # "other" => OtherClose(fd)]_vars

\* "The gateway needs some time before reconnecting" (gate_connect.c:900): no
\* connection is made while the ack thread of the last one sleeps.
ReconnectBackoff ==
  [][\A g \in Gate :
       ~deposed /\ ~Connected(g) /\ Connected(g)' => ackPc # "linger"]_vars

\* Only an alarm opens a connection to the emergency server: the other
\* packets pass MAX_GATE_LIST-1 (gate_connect.c:497).
EmergencyOnlyForAlarms ==
  [][~Connected(Emergency) /\ Connected(Emergency)' => gtTarget = AlarmGate]_vars

\* A connection its reader finds broken leaves its slot, so that the next
\* packet can open another one.
DeadLinkLeavesSlot ==
  (ackPc = "loop" /\ sock[ackFd] = "dead") ~> gfd[ackGate] = NoFd

--------------------------------------------------------------------------------
(* What comments of the code promise and the code does not keep.             *)

\* gate_connect.h:34-35: target -2 "connects the emergency alarm server if no
\* gateway server can be connected".
EmergencyLast ==
  [][~Connected(Emergency) /\ Connected(Emergency)'
       => Gate \ {Emergency} \subseteq tried]_vars

\* gate_connect.c:625: the ack thread "receives and processes the descriptor
\* of the connection the device made to the gateway".
ConnectionServed ==
  \A g \in Gate : \A fd \in FDs :
    gfd[g] = fd ~> (gfd[g] # fd \/ (ackPc = "loop" /\ ackGate = g /\ ackFd = fd))
================================================================================
