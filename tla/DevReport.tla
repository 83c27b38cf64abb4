------------------------------- MODULE DevReport -------------------------------
(***************************************************************************)
(* How the device registers with its gateway and reports its state, its    *)
(* alarms and its input terminals (devstat.c, netcmdproc.c,                *)
(* watch_board.c, alarm_process.c).                                        *)
(*                                                                         *)
(* Each of the four reports has a flag, down from a send until the gateway *)
(* acknowledges it, and a timer that sends it again.  The watch-board      *)
(* thread sends on a change of the inputs, the watch-process thread sends  *)
(* again what is not acknowledged, and the thread that reads the gateway's *)
(* connection raises the flags, and sends the state when it begins.  A     *)
(* flag is set under the state's mutex, and the sequence of a send is not. *)
(* The link keeps the order of packets and loses any of them.              *)
(***************************************************************************)
EXTENDS Integers, Sequences, FiniteSets, SequencesExt

CONSTANTS
  Reports,    (* the reports in sight; the others count as acknowledged at once *)
  Inputs,     (* alarm input terminals (tin_mask)                              *)
  Timeout,    (* REGIST_, REPORTSTATE_, ALARM_ and TRIGIN_TIMEOUT, in ticks     *)
  RegLead,    (* set_regist_flag starts the timer this far before its end (5)  *)
  WireMax,    (* packets, and acknowledgements, under way; more are lost       *)
  MaxEvents   (* bound: input changes, queries and network changes             *)

Kind == {"regist", "state", "alarm", "trigin"}

ASSUME ReportsAssumption == Reports \subseteq Kind /\ "regist" \in Reports
ASSUME InputsAssumption  == IsFiniteSet(Inputs)
ASSUME TimeoutAssumption == /\ Timeout \in [Kind -> Nat \ {0}]
                            /\ RegLead \in 0..Timeout["regist"]
ASSUME BoundAssumption   == WireMax \in Nat \ {0} /\ MaxEvents \in Nat

Version == 0..MaxEvents   \* of the inputs; 0 is before any change

VARIABLES
  flag, timer,       \* the flags and timers of ip1004_state, by kind
  was, ver,          \* history: the inputs by version; was[ver]: alarmin_state
  trigVer,           \* was[trigVer]: reg_trig_state
  stateOld,          \* was[stateOld]: alarmin_state_old, last sent as state
  lastAlarm,         \* last_dev_trig: the version of the last alarm
  wb, wbVer,         \* watch-board thread: step, content of its packet
  sp, spVer,         \* watch-process thread: step, content of its packet
  gw, gwVer,         \* the connection's thread: step, content of its packet
  wire, acks,        \* packets to the gateway, acknowledgements from it
  heard,             \* history: the alarms the gateway has received
  shown,             \* history: the last input report the gateway received
  crossed,           \* history: reports sent while another of the kind was out
  left               \* bound: events left

sendVars == <<flag, timer, stateOld, lastAlarm>>
inVars   == <<was, ver, trigVer>>
wbVars   == <<wb, wbVer>>
spVars   == <<sp, spVer>>
gwVars   == <<gw, gwVer>>
linkVars == <<wire, acks, heard, shown, crossed>>
vars     == <<sendVars, inVars, wbVars, spVars, gwVars, linkVars, left>>

alarmin == was[ver]
trig    == was[trigVer]

\* "wants": en_ack is set.  The version is the content, kept where a property
\* asks for it; an acknowledgement names only the kind, its version is history.
Tracked == {"alarm", "trigin"}
Packet == [kind : Kind, ver : Version, wants : BOOLEAN]
Ack    == [kind : Kind, ver : Version, ok : BOOLEAN]

WbStep == {"read", "state", "stateSame", "stateFlag", "statePost", "trigin", "triginPost",
           "trig", "alarm", "alarmFlag", "alarmPost"}
SpStep == {"check", "registPost", "state", "stateFlag", "statePost",
           "alarm", "alarmFlag", "alarmPost", "trigin", "triginFlag", "triginPost"}
GwStep == {"read", "stateFlag", "statePost"}

TypeOK ==
  /\ flag \in [Kind -> BOOLEAN]
  /\ timer \in [Kind -> Nat] /\ \A k \in Kind : timer[k] <= Timeout[k]
  /\ was \in [Version -> SUBSET Inputs]
  /\ {ver, trigVer, stateOld, lastAlarm, wbVer, spVer, gwVer} \subseteq Version
  /\ wb \in WbStep /\ sp \in SpStep /\ gw \in GwStep
  /\ wire \in Seq(Packet) /\ Len(wire) <= WireMax
  /\ acks \in Seq(Ack) /\ Len(acks) <= WireMax
  /\ heard \in SUBSET Version /\ shown \in Version
  /\ crossed \in SUBSET Tracked /\ left \in 0..MaxEvents

\* init_devstat and init_netcmd_var: there is no alarm or input report to send.
RegStart == Timeout["regist"] - RegLead
Init ==
  /\ flag = [k \in Kind |-> k \in {"alarm", "trigin"} \/ k \notin Reports]
  /\ timer = [k \in Kind |-> IF k = "regist" THEN RegStart ELSE 0]
  /\ was = [v \in Version |-> {}] /\ ver = 0 /\ trigVer = 0
  /\ stateOld = 0 /\ lastAlarm = 0
  /\ wb = "read" /\ wbVer = 0 /\ sp = "check" /\ spVer = 0
  /\ gw = "read" /\ gwVer = 0
  /\ wire = <<>> /\ acks = <<>>
  /\ heard = {} /\ shown = 0
  /\ crossed = {} /\ left = MaxEvents

--------------------------------------------------------------------------------
(* Sending.                                                                  *)

Registered == flag["regist"]

\* Packets and acknowledgements of a kind under way with another content.
Under(k, v) ==
  \/ \E i \in 1..Len(wire) : wire[i].kind = k /\ wire[i].ver # v
  \/ \E i \in 1..Len(acks) : acks[i].kind = k /\ acks[i].ver # v

\* The link holds WireMax packets and as many acknowledgements; one more costs
\* the oldest of them (Lose may take any of them at any time).
Put(s, p) == Append(IF Len(s) < WireMax THEN s ELSE Tail(s), p)

\* send_gate_pkt queues the packet for the gateway's connection.
Post(k, v, wants) ==
  /\ wire' = IF k \in Reports
             THEN Put(wire, [kind |-> k, ver |-> IF k \in Tracked THEN v ELSE 0,
                             wants |-> wants])
             ELSE wire
  /\ UNCHANGED <<acks, heard, shown, crossed>>

\* The other thread is between reading the content of a k packet and sending it.
WbSends(k) == wb \in (CASE k = "state"  -> {"stateFlag", "statePost"}
                        [] k = "trigin" -> {"trigin", "triginPost"}
                        [] k = "alarm"  -> {"alarmFlag", "alarmPost"}
                        [] OTHER -> {})
SpSends(k) == sp \in (CASE k = "state"  -> {"stateFlag", "statePost"}
                        [] k = "trigin" -> {"triginFlag", "triginPost"}
                        [] k = "alarm"  -> {"alarmFlag", "alarmPost"}
                        [] OTHER -> {})

\* The flag goes down before the packet with content v is sent.
LowerKept(k, v, otherSends) == UNCHANGED <<flag, crossed, wire, acks, heard, shown>>
Lower(k, v, otherSends) ==
  /\ flag' = [flag EXCEPT ![k] = k \notin Reports]
  /\ crossed' = IF k \in Tracked \cap Reports /\ (Under(k, v) \/ otherSends) THEN crossed \cup {k} ELSE crossed
  /\ UNCHANGED <<wire, acks, heard, shown>>

--------------------------------------------------------------------------------
(* watch_board_thread: once a second, the inputs.                            *)

WbRead ==
  /\ wb = "read"
  /\ \/ /\ left > 0
        /\ \E new \in SUBSET Inputs \ {alarmin} : was' = [was EXCEPT ![ver + 1] = new]
        /\ ver' = ver + 1 /\ left' = left - 1
        /\ wb' = "state"
     \/ wb' = "trig" /\ UNCHANGED <<was, ver, left>>
  /\ UNCHANGED <<sendVars, trigVer, gwVars, wbVer, spVars, linkVars>>

\* send_dev_state(-1, 1, 0): nothing while unregistered.  A state other than the
\* one last sent is sent; so may be the same one, since the comparison includes
\* per_state, which points into the packet where nothing was written.
WbState ==
  /\ wb = "state"
  /\ wbVer' = ver
  /\ \/ Registered /\ wb' = "stateFlag"
     \/ Registered /\ was[stateOld] = alarmin /\ wb' = "stateSame"
     \/ ~Registered /\ wb' = "trigin"
  /\ UNCHANGED <<sendVars, inVars, gwVars, spVars, linkVars, left>>

WbStateSame ==
  /\ wb = "stateSame" /\ wb' = "trigin"
  /\ stateOld' = wbVer
  /\ UNCHANGED <<flag, timer, lastAlarm, inVars, gwVars, wbVer, spVars, linkVars, left>>

WbStateFlag ==
  /\ wb = "stateFlag" /\ wb' = "statePost"
  /\ Lower("state", wbVer, SpSends("state"))
  /\ UNCHANGED <<timer, stateOld, lastAlarm, inVars, gwVars, wbVer, spVars, left>>

WbStatePost ==
  /\ wb = "statePost" /\ wb' = "trigin"
  /\ Post("state", wbVer, TRUE)
  /\ stateOld' = wbVer
  /\ UNCHANGED <<flag, timer, lastAlarm, inVars, gwVars, wbVer, spVars, left>>

\* send_alarmin_state_change
WbTrigin ==
  /\ wb = "trigin" /\ wb' = "triginPost"
  /\ Lower("trigin", wbVer, SpSends("trigin")) /\ timer' = [timer EXCEPT !["trigin"] = 0]
  /\ UNCHANGED <<stateOld, lastAlarm, inVars, gwVars, wbVer, spVars, left>>

WbTriginPost ==
  /\ wb = "triginPost" /\ wb' = "trig"
  /\ Post("trigin", wbVer, TRUE) /\ wbVer' = 0
  /\ UNCHANGED <<sendVars, inVars, gwVars, spVars, left>>

\* process_trigin_event: an alarm when the triggered inputs have changed and
\* some input is triggered.
RaisesAlarm == alarmin # trig /\ alarmin # {}

WbTrig ==
  /\ wb = "trig"
  /\ trigVer' = IF alarmin # trig THEN ver ELSE trigVer
  /\ wb' = IF RaisesAlarm THEN "alarm" ELSE "read"
  /\ UNCHANGED <<sendVars, was, ver, gwVars, wbVer, spVars, linkVars, left>>

\* get_dev_trig and send_dev_trig_state(-2): kept for sending again, flag down,
\* sent, whether registered or not.
WbAlarm ==
  /\ wb = "alarm" /\ wb' = "alarmFlag"
  /\ wbVer' = trigVer /\ lastAlarm' = trigVer
  /\ UNCHANGED <<flag, timer, stateOld, inVars, gwVars, spVars, linkVars, left>>

WbAlarmFlag ==
  /\ wb = "alarmFlag" /\ wb' = "alarmPost"
  /\ Lower("alarm", wbVer, SpSends("alarm"))
  /\ UNCHANGED <<timer, stateOld, lastAlarm, inVars, gwVars, wbVer, spVars, left>>

WbAlarmPost ==
  /\ wb = "alarmPost" /\ wb' = "read"
  /\ Post("alarm", wbVer, TRUE) /\ wbVer' = 0
  /\ UNCHANGED <<sendVars, inVars, gwVars, spVars, left>>

WatchBoard ==
  \/ WbRead \/ WbState \/ WbStateSame \/ WbStateFlag \/ WbStatePost \/ WbTrigin
  \/ WbTriginPost \/ WbTrig \/ WbAlarm \/ WbAlarmFlag \/ WbAlarmPost

--------------------------------------------------------------------------------
(* netcmd_second_proc: once a second, what is not acknowledged.              *)

DueLate(k) == timer[k] > Timeout[k]
Due(k) == timer[k] + 1 > Timeout[k]
\* One more second, unless the flag is up; at the timeout, over and send.
Tick(k, isUp, step, skip) ==
  IF isUp THEN timer' = timer /\ sp' = skip
  ELSE IF Due(k) THEN timer' = [timer EXCEPT ![k] = 0] /\ sp' = step
       ELSE timer' = [timer EXCEPT ![k] = @ + 1] /\ sp' = skip

SpCheck ==
  /\ sp = "check"
  /\ IF Registered THEN sp' = "state" /\ timer' = timer
     ELSE Tick("regist", FALSE, "registPost", "check")
  /\ UNCHANGED <<flag, stateOld, lastAlarm, inVars, gwVars, wbVars, spVer, linkVars, left>>

SpRegistPostUnasked ==
  /\ sp = "registPost" /\ sp' = "check"
  /\ Post("regist", 0, FALSE)
  /\ UNCHANGED <<sendVars, inVars, gwVars, wbVars, spVer, left>>

\* system_regist(-1, 1): the flag is not touched.
SpRegistPost ==
  /\ sp = "registPost" /\ sp' = "check"
  /\ Post("regist", 0, TRUE)
  /\ UNCHANGED <<sendVars, inVars, gwVars, wbVars, spVer, left>>

\* send_dev_state(-1, 1, 1) tests the registration again.
SpState ==
  /\ sp = "state"
  /\ Tick("state", flag["state"], IF Registered THEN "stateFlag" ELSE "alarm", "alarm")
  /\ spVer' = IF sp' = "stateFlag" THEN ver ELSE 0
  /\ UNCHANGED <<flag, stateOld, lastAlarm, inVars, gwVars, wbVars, linkVars, left>>

SpStateFlag ==
  /\ sp = "stateFlag" /\ sp' = "statePost"
  /\ Lower("state", spVer, WbSends("state"))
  /\ UNCHANGED <<timer, stateOld, lastAlarm, inVars, gwVars, wbVars, spVer, left>>

SpStatePostUnasked ==
  /\ sp = "statePost" /\ sp' = "alarm"
  /\ Post("state", spVer, FALSE)
  /\ stateOld' = spVer /\ spVer' = 0
  /\ UNCHANGED <<flag, timer, lastAlarm, inVars, gwVars, wbVars, left>>

SpStatePost ==
  /\ sp = "statePost" /\ sp' = "alarm"
  /\ Post("state", spVer, TRUE)
  /\ stateOld' = spVer /\ spVer' = 0
  /\ UNCHANGED <<flag, timer, lastAlarm, inVars, gwVars, wbVars, left>>

\* The alarm kept in last_dev_trig.
SpAlarm ==
  /\ sp = "alarm"
  /\ Tick("alarm", flag["alarm"], "alarmFlag", "trigin")
  /\ spVer' = IF sp' = "alarmFlag" THEN lastAlarm ELSE 0
  /\ UNCHANGED <<flag, stateOld, lastAlarm, inVars, gwVars, wbVars, linkVars, left>>

SpAlarmFlag ==
  /\ sp = "alarmFlag" /\ sp' = "alarmPost"
  /\ Lower("alarm", spVer, WbSends("alarm"))
  /\ UNCHANGED <<timer, stateOld, lastAlarm, inVars, gwVars, wbVars, spVer, left>>

SpAlarmPostUnasked ==
  /\ sp = "alarmPost" /\ sp' = "trigin"
  /\ Post("alarm", spVer, FALSE) /\ spVer' = 0
  /\ UNCHANGED <<sendVars, inVars, gwVars, wbVars, left>>

SpAlarmPost ==
  /\ sp = "alarmPost" /\ sp' = "trigin"
  /\ Post("alarm", spVer, TRUE) /\ spVer' = 0
  /\ UNCHANGED <<sendVars, inVars, gwVars, wbVars, left>>

SpTrigin ==
  /\ sp = "trigin"
  /\ Tick("trigin", flag["trigin"], "triginFlag", "check")
  /\ spVer' = IF sp' = "triginFlag" THEN ver ELSE 0
  /\ UNCHANGED <<flag, stateOld, lastAlarm, inVars, gwVars, wbVars, linkVars, left>>

SpTriginFlag ==
  /\ sp = "triginFlag" /\ sp' = "triginPost"
  /\ Lower("trigin", spVer, WbSends("trigin")) /\ timer' = [timer EXCEPT !["trigin"] = 0]
  /\ UNCHANGED <<stateOld, lastAlarm, inVars, gwVars, wbVars, spVer, left>>

SpTriginPost ==
  /\ sp = "triginPost" /\ sp' = "check"
  /\ Post("trigin", spVer, TRUE) /\ spVer' = 0
  /\ UNCHANGED <<sendVars, inVars, gwVars, wbVars, left>>

WatchProcess ==
  \/ SpCheck \/ SpRegistPost \/ SpState \/ SpStateFlag \/ SpStatePost
  \/ SpAlarm \/ SpAlarmFlag \/ SpAlarmPost
  \/ SpTrigin \/ SpTriginFlag \/ SpTriginPost

--------------------------------------------------------------------------------
(* The gateway, the link, and the thread that reads it.                      *)

Hear(p) ==
  /\ heard' = IF p.kind = "alarm" THEN heard \cup {p.ver} ELSE heard
  /\ shown' = IF p.kind = "trigin" THEN p.ver ELSE shown

\* The gateway takes a packet and acknowledges it if asked to.
Deliver(ok) ==
  /\ wire # <<>> /\ wire' = Tail(wire)
  /\ Hear(Head(wire))
  /\ acks' = IF Head(wire).wants
             THEN Put(acks, [kind |-> Head(wire).kind, ver |-> Head(wire).ver, ok |-> ok])
             ELSE acks
  /\ UNCHANGED <<crossed, sendVars, inVars, gwVars, wbVars, spVars, left>>

Lose ==
  /\ \/ \E i \in 1..Len(wire) : wire' = RemoveAt(wire, i) /\ acks' = acks
     \/ \E i \in 1..Len(acks) : acks' = RemoveAt(acks, i) /\ wire' = wire
  /\ UNCHANGED <<heard, shown, crossed, sendVars, inVars, gwVars, wbVars, spVars, left>>

\* usr_ack_cmd: a failure is only printed, except that an input report counts
\* as received whatever the result.
Accepted(a) == a.ok \/ a.kind = "trigin"

UsrAckCmd ==
  /\ gw = "read" /\ acks # <<>> /\ acks' = Tail(acks)
  /\ LET a == Head(acks) IN
     IF Accepted(a)
     THEN /\ flag' = [flag EXCEPT ![a.kind] = TRUE]
          /\ timer' = CASE a.kind = "regist" -> [timer EXCEPT ![a.kind] = RegStart]
                        [] a.kind = "trigin" -> [timer EXCEPT ![a.kind] = 0]
                        [] OTHER -> timer
     ELSE UNCHANGED <<flag, timer>>
  /\ UNCHANGED <<wire, heard, shown, crossed, stateOld, lastAlarm, inVars, gwVars, wbVars, spVars, left>>

\* usr_query_state_cmd: the state without asking for an acknowledgement; it
\* counts as the state last sent.
QueryState ==
  /\ left > 0 /\ left' = left - 1
  /\ Post("state", ver, FALSE)
  /\ stateOld' = ver
  /\ UNCHANGED <<flag, timer, lastAlarm, inVars, gwVars, wbVars, spVars>>

\* ProcessGateConnect, before the first read: send_dev_state(fd, 1, 1), which with
\* a descriptor needs no registration, if the parameter file has changed.  (With
\* the state out of sight it would change nothing.)
GwState ==
  /\ gw = "read" /\ gw' = "stateFlag" /\ "state" \in Reports
  /\ left > 0 /\ left' = left - 1
  /\ gwVer' = ver
  /\ UNCHANGED <<sendVars, inVars, wbVars, spVars, linkVars>>

GwStateFlag ==
  /\ gw = "stateFlag" /\ gw' = "statePost"
  /\ Lower("state", gwVer, FALSE)
  /\ UNCHANGED <<timer, stateOld, lastAlarm, inVars, wbVars, spVars, gwVer, left>>

GwStatePost ==
  /\ gw = "statePost" /\ gw' = "read"
  /\ Post("state", gwVer, TRUE)
  /\ stateOld' = gwVer /\ gwVer' = 0
  /\ UNCHANGED <<flag, timer, lastAlarm, inVars, wbVars, spVars, left>>

\* set_regist_flag(0) of refresh_netinfo and of the end of a gateway connection.
Unregister ==
  /\ left > 0 /\ left' = left - 1
  /\ flag' = [flag EXCEPT !["regist"] = FALSE]
  /\ timer' = [timer EXCEPT !["regist"] = RegStart]
  /\ UNCHANGED <<stateOld, lastAlarm, inVars, gwVars, wbVars, spVars, linkVars>>

Next ==
  \/ WatchBoard \/ WatchProcess
  \/ \E ok \in BOOLEAN : Deliver(ok)
  \/ Lose \/ QueryState \/ Unregister
  \/ UsrAckCmd \/ GwState \/ GwStateFlag \/ GwStatePost

\* What the thread of the connection goes on with.
Receiver == UsrAckCmd \/ GwStateFlag \/ GwStatePost

\* The threads run.  A packet, or an acknowledgement, of a kind that is sent
\* again and again gets through at last; the packets under way move on.
PacketThrough(k) == wire # <<>> /\ Head(wire).kind = k /\ Head(wire).wants /\ Deliver(TRUE)
AckThrough(k)    == acks # <<>> /\ Head(acks).kind = k /\ Head(acks).ok /\ UsrAckCmd
GetsThrough(k)   == SF_vars(PacketThrough(k)) /\ SF_vars(AckThrough(k))

Fairness ==
  /\ WF_vars(WatchBoard) /\ WF_vars(WatchProcess)
  /\ WF_vars(\E ok \in BOOLEAN : Deliver(ok)) /\ WF_vars(Receiver)
  /\ \A k \in Reports : GetsThrough(k)

Spec == Init /\ [][Next]_vars
FairSpec == Spec /\ Fairness

--------------------------------------------------------------------------------
(* Properties.                                                               *)

\* A raised flag is true, for the reports that were never under way together
\* with another of their kind: the gateway has the last alarm ...
AlarmFlagHonest ==
  "alarm" \notin crossed /\ flag["alarm"] /\ lastAlarm > 0 /\ wb # "alarmFlag"
    => lastAlarm \in heard

\* ... and the last input report it heard is the inputs as they are, once the
\* watch-board thread has dealt with them.
TriginFlagHonest ==
  "trigin" \notin crossed /\ flag["trigin"] /\ wb \notin {"state", "stateSame", "stateFlag", "statePost", "trigin"}
    => shown = ver

\* Registration is tried until it succeeds, through lost packets and refusals.
Registers == ~Registered ~> Registered

\* An alarm whose flag is down is sent until the gateway acknowledges one.
AlarmGetsThrough == ~flag["alarm"] ~> flag["alarm"]

\* A state report is sent until acknowledged, or until the registration goes.
StateGetsThrough == ~flag["state"] /\ Registered ~> flag["state"] \/ ~Registered

\* The gateway comes to know the inputs, whatever was lost and however often
\* the registration went, unless two input reports crossed.
InputsGetThrough ==
  \A v \in Version :
    ver = v ~> (ver # v \/ shown = v \/ "trigin" \in crossed)

--------------------------------------------------------------------------------
(* What a comment of the code promises and the code does not keep.           *)

\* alarm_process.c:301: "at least one newly triggered input needs an alarm", so
\* an alarm goes out only for an input that was not triggered before.
AlarmsForNewTriggers ==
  [][wb = "trig" /\ wb' = "alarm" => alarmin \ trig # {}]_vars
================================================================================
