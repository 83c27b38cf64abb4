-------------------------------- MODULE MCServers --------------------------------
(* The command server and the audio playback server.  They run in one       *)
(* process and share nothing but it, so each is explored on its own: which   *)
(* names the one whose clients come.                                         *)
EXTENDS CmdServer

CONSTANTS AplayGuest, MaxUsrs

VARIABLES which, aPlace, sends, lmx, usrs, aPc, aConn, serv, fmt, first, flow, torn

Aplay == INSTANCE AplayServer WITH
           Guest <- AplayGuest, place <- aPlace, pc <- aPc, conn <- aConn

aplayVars == <<aPlace, sends, lmx, usrs, aPc, aConn, serv, fmt, first, flow, torn>>

MCInit == which \in {"cmd", "aplay"} /\ Init /\ Aplay!Init

CmdStep   == which = "cmd" /\ Next /\ UNCHANGED <<which, aplayVars>>
AplayStep == which = "aplay" /\ Aplay!Next /\ UNCHANGED <<which, vars>>
MCNext == CmdStep \/ AplayStep

CmdFairness   == which = "cmd" => Fairness
AplayFairness == which = "aplay" => Aplay!Fairness
MCSpec == MCInit /\ [][MCNext]_<<which, vars, aplayVars>> /\ CmdFairness /\ AplayFairness

\* The audio server hands whole frames to the decoder: AplayServer's WholeFrames.
WholeFrames == Aplay!WholeFrames

\* Its clients are all let in or told busy: AplayServer's EveryGuestAnswered.
EveryAplayGuestAnswered == Aplay!EveryGuestAnswered

\* It implements Admission: AplayServer's AdmitsAsPromised.
AdmitsAsPromised == Aplay!AdmitsAsPromised
================================================================================
