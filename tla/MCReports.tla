------------------------------- MODULE MCReports -------------------------------
(* Two devices with DevReport, each with the reports that its properties are *)
(* about: the one of the cfg has inputs that change, the other, Alarms, a    *)
(* state and alarms.  which names the one that is explored, and the other    *)
(* stays as it starts.                                                       *)
EXTENDS MCDevReport

VARIABLES
  which,
  aFlag, aTimer, aWas, aVer, aTrigVer, aStateOld, aLastAlarm, aWb, aWbVer, aSp, aSpVer,
  aGw, aGwVer, aWire, aAcks, aHeard, aShown, aCrossed, aLeft

Alarms == INSTANCE DevReport WITH
            Reports <- {"regist", "state", "alarm"}, MaxEvents <- 1,
            flag <- aFlag, timer <- aTimer, was <- aWas, ver <- aVer, trigVer <- aTrigVer,
            stateOld <- aStateOld, lastAlarm <- aLastAlarm, wb <- aWb, wbVer <- aWbVer,
            sp <- aSp, spVer <- aSpVer, gw <- aGw, gwVer <- aGwVer, wire <- aWire,
            acks <- aAcks, heard <- aHeard, shown <- aShown, crossed <- aCrossed, left <- aLeft

alarmVars == <<aFlag, aTimer, aWas, aVer, aTrigVer, aStateOld, aLastAlarm, aWb, aWbVer, aSp,
               aSpVer, aGw, aGwVer, aWire, aAcks, aHeard, aShown, aCrossed, aLeft>>
mcVars == <<which, vars, alarmVars>>

MCInit == which \in {"inputs", "alarms"} /\ Init /\ Alarms!Init

\* An action of the device that is explored.
OfOne(ofInputs, ofAlarms) ==
  \/ which = "inputs" /\ ofInputs /\ UNCHANGED <<which, alarmVars>>
  \/ which = "alarms" /\ ofAlarms /\ UNCHANGED <<which, vars>>

MCNext == OfOne(Next, Alarms!Next)

\* The fairness of both devices: DevReport's, its reports taken in pairs.
Through(k, l) ==
  /\ SF_mcVars(OfOne(PacketThrough(k), Alarms!PacketThrough(l)))
  /\ SF_mcVars(OfOne(AckThrough(k), Alarms!AckThrough(l)))
MCFairness ==
  /\ WF_mcVars(OfOne(WatchBoard, Alarms!WatchBoard))
  /\ WF_mcVars(OfOne(WatchProcess, Alarms!WatchProcess))
  /\ WF_mcVars(OfOne(\E ok \in BOOLEAN : Deliver(ok), \E ok \in BOOLEAN : Alarms!Deliver(ok)))
  /\ WF_mcVars(OfOne(Receiver, Alarms!Receiver))
  /\ Through("regist", "regist") /\ Through("trigin", "state") /\ Through("trigin", "alarm")
MCSpec == MCInit /\ [][MCNext]_mcVars /\ MCFairness

\* The second device registers at last, however often it has to try: DevReport's
\* Registers.
RegistersAtLast == which = "alarms" => Alarms!Registers

\* Its state reports are sent until acknowledged: DevReport's StateGetsThrough.
StateAtLast == which = "alarms" => Alarms!StateGetsThrough

\* Its alarms are sent until the gateway has one: DevReport's AlarmGetsThrough.
AlarmAtLast == which = "alarms" => Alarms!AlarmGetsThrough
================================================================================
