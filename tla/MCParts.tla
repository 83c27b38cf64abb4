---------------------------------- MODULE MCParts ----------------------------------
(* The parameter file, the playback sessions, the packets on a connection    *)
(* and the alarm reports.  Each is explored on its own: which names the one  *)
(* that runs, and the others stay as they start.  The last three are the     *)
(* instances of their modules with theorems, so that PartsProofs can use     *)
(* those.                                                                    *)
EXTENDS Para, TLC

CONSTANTS
  in1, in2, t1, t2,                \* inputs, command threads
  RegLead, WireMax, MaxEvents,
  Client, Peer, NSlots, NEntries, NFds, Expires, AsksAgain,
  w1, w2, short, big               \* sending threads, messages

VARIABLES
  which,
  raised, timer, was, ver, trigVer, stateOld, lastAlarm, wb, wbVer, sp, spVer,
  gw, gwVer, wire, acks, heard, shown, crossed, events,
  state, oper, sock, film, entry, peerOf, at, lpc, lj, bits, hit, opc, target, mcmd,
  closing, seeking, mixed,
  conn, stream, todo, calling, call, number, begun, whole, trouble, taken

MCCmd == {t1, t2}

MCTimeout == [k \in {"regist", "state", "alarm", "trigin"} |-> 1]
Alarm    == INSTANCE DevReportProofs WITH
              Reports <- {"regist", "alarm"}, Inputs <- {in1, in2}, Timeout <- MCTimeout,
              flag <- raised, left <- events
Sessions == INSTANCE PlaybackProofs
Packets  == INSTANCE PktLinkProofs WITH
              state <- conn, Writer <- {w1, w2}, Message <- {short, big}, Long <- {big},
              MaxSent <- 3, Room <- 1

reportVars  == <<raised, timer, was, ver, trigVer, stateOld, lastAlarm, wb, wbVer, sp, spVer,
                 gw, gwVer, wire, acks, heard, shown, crossed, events>>
sessionVars == <<state, oper, sock, film, entry, peerOf, at, lpc, lj, bits, hit, opc, target,
                 mcmd, closing, seeking, mixed>>
packetVars  == <<conn, stream, todo, calling, call, number, begun, whole, trouble, taken>>

MCInit ==
  /\ which \in {"para", "playback", "alarm", "packets"}
  /\ Init /\ Sessions!Init /\ Packets!Init /\ Alarm!Init
  /\ which # "para" => bak = file

ParaStep   == /\ which = "para" /\ Next
              /\ UNCHANGED <<which, reportVars, sessionVars, packetVars>>
PlayStep   == /\ which = "playback" /\ Sessions!Next
              /\ UNCHANGED <<which, vars, reportVars, packetVars>>
AlarmStep  == /\ which = "alarm" /\ Alarm!Next
              /\ UNCHANGED <<which, vars, sessionVars, packetVars>>
PacketStep == /\ which = "packets" /\ Packets!Next
              /\ UNCHANGED <<which, vars, reportVars, sessionVars>>
MCNext == ParaStep \/ PlayStep \/ AlarmStep \/ PacketStep
partVars == <<which, vars, reportVars, sessionVars, packetVars>>
MCSpec == MCInit /\ [][MCNext]_partVars

\* Nothing tells the command threads apart.
MCSymmetry == Permutations({t1, t2})

\* The types of the variables of the component that runs.
AllTypeOK ==
  CASE which = "para" -> TypeOK
    [] which = "playback" -> Sessions!TypeOK
    [] which = "alarm" -> Alarm!TypeOK
    [] which = "packets" -> Packets!TypeOK

\* A player that reads has its file: Playback's FilmUnderPlayer.
FilmUnderPlayer == which = "playback" => Sessions!FilmUnderPlayer

\* A raised alarm flag is true: DevReport's AlarmFlagHonest.
AlarmFlagHonest == which = "alarm" => Alarm!AlarmFlagHonest

\* A connection's packets arrive whole and in order or the connection ends:
\* PktLink's NothingSkipped.
NothingSkipped == which = "packets" => Packets!NothingSkipped
====================================================================================
