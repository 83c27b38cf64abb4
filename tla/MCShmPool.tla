------------------------------- MODULE MCShmPool -------------------------------
(* Instances of ShmPool for TLC.  The first has one reader that uses both    *)
(* read calls; the second, Users, is a pool of its own whose only user number *)
(* is given to two readers, after one of them was struck off.  which names    *)
(* the one that is explored, and the other stays as it starts.               *)
EXTENDS ShmPool

CONSTANTS r1, r2

MCCalls   == {"GetResource", "GetPacket"}
MCNeeds   == {1, 3}

VARIABLES
  which,
  uEles, uHead, uTail, uCount, uData, uFblocks, uFbstart, uNum,
  uValid, uCurele, uSem, uUpid, uLastUser, uUno, uPc, uCur, uGot, uSteady, uUsed,
  uCounted

Users == INSTANCE ShmPool WITH
           Readers <- {r1, r2}, Calls <- {"GetResource"}, NUsers <- 1,
           MaxEle <- 5, TBlocks <- 4, Needs <- {1},
           MaxSem <- 1, SemMax <- 2, NearStart <- 2, MaxNum <- 6,
           eles <- uEles, head <- uHead, tail <- uTail, count <- uCount, data <- uData,
           fblocks <- uFblocks, fbstart <- uFbstart, num <- uNum, valid <- uValid,
           curele <- uCurele, sem <- uSem, upid <- uUpid, lastUser <- uLastUser,
           uno <- uUno, pc <- uPc, cur <- uCur, got <- uGot, steady <- uSteady, used <- uUsed,
           counted <- uCounted

userPool == <<uEles, uHead, uTail, uCount, uData, uFblocks, uFbstart, uNum, uValid, uCurele,
              uSem, uUpid, uLastUser, uUno, uPc, uCur, uGot, uSteady, uUsed, uCounted>>

MCInit == which \in {"calls", "users"} /\ Init /\ Users!Init

CallsStep == which = "calls" /\ Next /\ UNCHANGED <<which, userPool>>
UsersStep == which = "users" /\ Users!Next /\ UNCHANGED <<which, vars>>
MCNext == CallsStep \/ UsersStep
MCSpec == MCInit /\ [][MCNext]_<<which, vars, userPool>>

\* ShmPool's NumberCountsFrames, of two readers that share their number.
UsersNumberCounts == Users!NumberCountsFrames
================================================================================
