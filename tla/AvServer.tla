-------------------------------- MODULE AvServer --------------------------------
(***************************************************************************)
(* The live audio and video server: a pool of command threads, one for     *)
(* each entry of the user list (net_avstream.c), and the one sender thread *)
(* that writes every frame to every subscribed user (avserver.c).          *)
(*                                                                         *)
(* A command thread takes the listening mutex, accepts a client, counts it *)
(* under the server's mutex, and serves its commands; the sender walks the *)
(* user list and locks an entry only while it writes to it.  A failed      *)
(* write raises one flag for all users, and the first command thread to    *)
(* see it drops its own client.                                            *)
(***************************************************************************)
EXTENDS Integers, FiniteSets

CONSTANTS
  Lan, Wan,         (* clients on the device's own net, and the others        *)
  MaxLan, MaxWan,   (* max_lan_usrs, max_wan_usrs                             *)
  None,             (* no client, no descriptor                               *)
  MaxErr,           (* bound: failures of accept                              *)
  SleepCovers       (* the second a thread sleeps before it listens outlasts
                       the sender's way from its test of an entry to the lock *)

Guest == Lan \cup Wan
ASSUME GuestAssumption == IsFiniteSet(Guest) /\ Lan \cap Wan = {}
                          /\ None \notin Guest
ASSUME LimitAssumption == /\ MaxLan \in Nat /\ MaxWan \in Nat /\ MaxErr \in Nat
                          /\ SleepCovers \in BOOLEAN

\* One thread and one entry for each user, and one more to answer busy.
NUsrNoSpare == MaxLan + MaxWan
NUsr == MaxLan + MaxWan + 1
Usr  == 0..NUsr - 1
Free == -1         \* a mutex no thread holds

VARIABLES
  place,      \* per client: where its connection is
  lmx, smx,   \* l_mutex, s_mutex: the thread that holds it
  lanUsrs, wanUsrs,
  writeErr,   \* write_err_flag
  pc, conn,   \* per thread: step, accept_fd (the client it is connected to)
  used, addr, fd, serv,  \* per entry: used, addr, fd, serv_stat
  umx,        \* per entry: u_mutex is held by the sender
  spc, si,    \* the sender: step, entry of the list it is at
  errs,       \* failures of accept so far
  asked,      \* history: clients whose subscription with audio was accepted
  failed      \* history: clients a write to whom has failed

netVars    == <<place>>
poolVars   == <<lmx, smx, lanUsrs, wanUsrs, errs>>
entryVars  == <<used, addr, fd, serv>>
senderVars == <<umx, spc, si>>
hist       == <<asked, failed>>
vars == <<netVars, poolVars, writeErr, pc, conn, entryVars, senderVars, hist>>

Step == {"idle", "accept", "busy", "setup", "top", "cut", "select", "del", "delUsr", "close"}

TypeOK ==
  /\ place \in [Guest -> {"away", "waiting", "here", "gone"}]
  /\ lmx \in Usr \cup {Free} /\ smx \in Usr \cup {Free}
  /\ lanUsrs \in 0..MaxLan /\ wanUsrs \in 0..MaxWan
  /\ writeErr \in BOOLEAN /\ errs \in 0..MaxErr
  /\ pc \in [Usr -> Step] /\ conn \in [Usr -> Guest \cup {None}]
  /\ used \in [Usr -> BOOLEAN] /\ addr \in [Usr -> Guest \cup {None}]
  /\ fd \in [Usr -> Guest \cup {None}]
  /\ serv \in [Usr -> {-2, 0, 1, 3}]
  /\ umx \in [Usr -> BOOLEAN]
  /\ spc \in {"test", "send", "write", "blocked"} /\ si \in Usr
  /\ asked \subseteq Guest /\ failed \subseteq Guest

Init ==
  /\ place = [g \in Guest |-> "away"]
  /\ lmx = Free /\ smx = Free /\ lanUsrs = 0 /\ wanUsrs = 0
  /\ writeErr = FALSE /\ errs = 0
  /\ pc = [u \in Usr |-> "idle"] /\ conn = [u \in Usr |-> None]
  /\ used = [u \in Usr |-> FALSE] /\ addr = [u \in Usr |-> None]
  /\ fd = [u \in Usr |-> None] /\ serv = [u \in Usr |-> 0]
  /\ umx = [u \in Usr |-> FALSE] /\ spc = "test" /\ si = 0
  /\ asked = {} /\ failed = {}

Go(u, from, to) == pc[u] = from /\ pc' = [pc EXCEPT ![u] = to]

--------------------------------------------------------------------------------
(* The clients.  "gone" is a client that has hung up or lost its line while  *)
(* its connection is still open here.                                        *)

Connect(g) ==
  /\ place[g] = "away" /\ place' = [place EXCEPT ![g] = "waiting"]
  /\ UNCHANGED <<poolVars, writeErr, pc, conn, entryVars, senderVars, hist>>

HangUp(g) ==
  /\ place[g] = "here" /\ place' = [place EXCEPT ![g] = "gone"]
  /\ UNCHANGED <<poolVars, writeErr, pc, conn, entryVars, senderVars, hist>>

--------------------------------------------------------------------------------
(* A command thread: rtnet_av_cmd_thread.                                    *)

\* An entry the sender has tested and not yet left; while it is idle there is
\* no descriptor to write to, and the sender leaves it without waiting.
Tested(u) == spc # "test" /\ si = u

ListenAtOnce(u) ==
  /\ ~used[u]
  /\ lmx = Free /\ lmx' = u /\ Go(u, "idle", "accept")
  /\ used' = [used EXCEPT ![u] = TRUE]
  /\ UNCHANGED <<netVars, smx, lanUsrs, wanUsrs, errs, writeErr, conn, addr, fd,
                 serv, senderVars, hist>>

\* A thread that is not marked used tries the listening mutex each second.
Listen(u) ==
  /\ ~used[u] /\ (SleepCovers => ~Tested(u))
  /\ lmx = Free /\ lmx' = u /\ Go(u, "idle", "accept")
  /\ used' = [used EXCEPT ![u] = TRUE]
  /\ UNCHANGED <<netVars, smx, lanUsrs, wanUsrs, errs, writeErr, conn, addr, fd,
                 serv, senderVars, hist>>

\* accept fails or is interrupted: the entry stays marked used.
AcceptFails(u) ==
  /\ errs < MaxErr /\ errs' = errs + 1 /\ lmx' = Free /\ Go(u, "accept", "idle")
  /\ UNCHANGED <<netVars, smx, lanUsrs, wanUsrs, writeErr, conn, entryVars,
                 senderVars, hist>>

\* add_av_usr_list: counted, or counted back when its class is full.
FullNever(g) == FALSE
FullEarly(g) == IF g \in Lan THEN lanUsrs + 1 >= MaxLan ELSE wanUsrs + 1 >= MaxWan
Full(g) == IF g \in Lan THEN lanUsrs >= MaxLan ELSE wanUsrs >= MaxWan
CountUpOnly(g, d) ==
  /\ lanUsrs' = IF g \in Lan /\ d > 0 THEN lanUsrs + d ELSE lanUsrs
  /\ wanUsrs' = IF g \in Wan /\ d > 0 THEN wanUsrs + d ELSE wanUsrs
Count(g, d) == /\ lanUsrs' = IF g \in Lan THEN lanUsrs + d ELSE lanUsrs
               /\ wanUsrs' = IF g \in Wan THEN wanUsrs + d ELSE wanUsrs

\* accept, init_av_usr_info, which also makes the entry's mutex anew, and
\* add_av_usr_list under s_mutex.
Accept(u, g) ==
  /\ place[g] = "waiting" /\ smx = Free
  /\ place' = [place EXCEPT ![g] = "here"]
  /\ conn' = [conn EXCEPT ![u] = g] /\ lmx' = Free
  /\ umx' = [umx EXCEPT ![u] = FALSE]
  /\ fd' = [fd EXCEPT ![u] = None] /\ serv' = [serv EXCEPT ![u] = 0]
  /\ used' = [used EXCEPT ![u] = FALSE]
  /\ \/ /\ Full(g) /\ Go(u, "accept", "busy")
        /\ addr' = [addr EXCEPT ![u] = None] /\ UNCHANGED <<lanUsrs, wanUsrs>>
     \/ /\ ~Full(g) /\ Go(u, "accept", "setup")
        /\ addr' = [addr EXCEPT ![u] = g] /\ Count(g, 1)
  /\ UNCHANGED <<smx, errs, writeErr, spc, si, hist>>

CloseConn(u) ==
  /\ place' = [place EXCEPT ![conn[u]] = "away"]
  /\ conn' = [conn EXCEPT ![u] = None] /\ asked' = asked \ {conn[u]}
  /\ failed' = failed \ {conn[u]}

\* The busy answer, a second of sleep, close.
Busy(u) ==
  /\ Go(u, "busy", "idle") /\ CloseConn(u)
  /\ UNCHANGED <<poolVars, writeErr, entryVars, senderVars>>

SetUp(u) ==
  /\ Go(u, "setup", "top") /\ fd' = [fd EXCEPT ![u] = conn[u]]
  /\ UNCHANGED <<netVars, poolVars, writeErr, conn, used, addr, serv,
                 senderVars, hist>>

\* The top of the loop: the error flag, whoever it was raised for, which is
\* tested and put down without a lock, ...
Cut(u) ==
  /\ writeErr /\ Go(u, "top", "cut")
  /\ UNCHANGED <<netVars, poolVars, writeErr, conn, entryVars, senderVars, hist>>

PutDown(u) ==
  /\ Go(u, "cut", "del") /\ writeErr' = FALSE
  /\ UNCHANGED <<netVars, poolVars, conn, entryVars, senderVars, hist>>

\* ... then an entry that has unsubscribed, then select.
Select(u) ==
  /\ ~writeErr
  /\ IF serv[u] < 0 THEN Go(u, "top", "del") ELSE Go(u, "top", "select")
  /\ UNCHANGED <<netVars, poolVars, writeErr, conn, entryVars, senderVars, hist>>

\* Nothing for a second from a client that has subscribed, a command that is
\* not known or not complete: back to the top.
Idle(u) ==
  /\ Go(u, "select", "top")
  /\ UNCHANGED <<netVars, poolVars, writeErr, conn, entryVars, senderVars, hist>>

\* A client that never subscribes, hangs up or names another device.
Drop(u) ==
  /\ Go(u, "select", "del")
  /\ UNCHANGED <<netVars, poolVars, writeErr, conn, entryVars, senderVars, hist>>

\* proc_video_subscrib_cmd: with audio (3) or without (1), under the entry's mutex.
Subscribe(u, s) ==
  /\ ~umx[u] /\ Go(u, "select", "top") /\ place[conn[u]] = "here"
  /\ serv' = [serv EXCEPT ![u] = s]
  /\ asked' = IF s = 3 THEN asked \cup {conn[u]} ELSE asked
  /\ UNCHANGED <<netVars, poolVars, writeErr, conn, used, addr, fd, senderVars, failed>>

\* VIEWER_UNSUBSCRIBE_VIDEO leaves the result unset: the thread may break off
\* at once or come to the top again.
Unsubscribe(u) ==
  /\ \E to \in {"top", "del"} : Go(u, "select", to)
  /\ place[conn[u]] = "here"
  /\ serv' = [serv EXCEPT ![u] = -2]
  /\ UNCHANGED <<netVars, poolVars, writeErr, conn, used, addr, fd,
                 senderVars, hist>>

\* del_av_usr_list: s_mutex, the counters, then the entry under its mutex.
Delete(u) ==
  /\ smx = Free /\ smx' = u /\ Go(u, "del", "delUsr") /\ Count(addr[u], -1)
  /\ UNCHANGED <<netVars, lmx, errs, writeErr, conn, entryVars, senderVars, hist>>

DeleteUsr(u) ==
  /\ ~umx[u] /\ smx' = Free /\ Go(u, "delUsr", "close")
  /\ serv' = [serv EXCEPT ![u] = 0] /\ fd' = [fd EXCEPT ![u] = None]
  /\ used' = [used EXCEPT ![u] = FALSE] /\ addr' = [addr EXCEPT ![u] = None]
  /\ UNCHANGED <<netVars, lmx, lanUsrs, wanUsrs, errs, writeErr, conn,
                 senderVars, hist>>

Close(u) ==
  /\ Go(u, "close", "idle") /\ CloseConn(u)
  /\ UNCHANGED <<poolVars, writeErr, entryVars, senderVars>>

--------------------------------------------------------------------------------
(* The sender: send_media_frames for one frame after the other.              *)

Onward == si' = (si + 1) % NUsr

\* serv_stat is read without the entry's mutex.
Test ==
  /\ spc = "test"
  /\ IF serv[si] = 3 THEN spc' = "send" /\ UNCHANGED si
                     ELSE UNCHANGED spc /\ Onward
  /\ UNCHANGED <<netVars, poolVars, writeErr, pc, conn, entryVars, umx, hist>>

Lock ==
  /\ spc = "send" /\ spc' = "write" /\ umx' = [umx EXCEPT ![si] = TRUE]
  /\ UNCHANGED <<netVars, poolVars, writeErr, pc, conn, entryVars, si, hist>>

Reading == {g \in Guest : place[g] = "here"}

Unlock == spc' = "test" /\ umx' = [umx EXCEPT ![si] = FALSE] /\ Onward

\* The first write to a client is the answer with the stream's head.
Written ==
  /\ spc \in {"write", "blocked"} /\ fd[si] # None
  /\ (spc = "blocked" => fd[si] \in Reading)
  /\ Unlock
  /\ UNCHANGED <<netVars, poolVars, writeErr, pc, conn, entryVars, hist>>

\* No descriptor, a client that is gone, or a full socket buffer.
WriteFails ==
  /\ spc \in {"write", "blocked"} /\ Unlock
  /\ (spc = "blocked" => fd[si] \notin Reading)
  /\ writeErr' = TRUE
  /\ failed' = IF fd[si] = None THEN failed ELSE failed \cup {fd[si]}
  /\ UNCHANGED <<netVars, poolVars, pc, conn, entryVars, asked>>

\* The thread makes its socket blocking while it reads a command: a full
\* buffer then stops the sender until the client reads or goes.
Blocks ==
  /\ spc = "write" /\ fd[si] # None /\ pc[si] = "select" /\ spc' = "blocked"
  /\ UNCHANGED <<netVars, poolVars, writeErr, pc, conn, entryVars, umx, si, hist>>

--------------------------------------------------------------------------------
Serve(u) ==
  \/ Listen(u) \/ Busy(u) \/ SetUp(u) \/ Cut(u) \/ PutDown(u) \/ Select(u)
  \/ Delete(u) \/ DeleteUsr(u) \/ Close(u)
Answer(u) == \E g \in Guest : Accept(u, g)
Receive(u) ==
  \/ Idle(u) \/ Drop(u) \/ Unsubscribe(u) \/ \E s \in {1, 3} : Subscribe(u, s)
Send == Test \/ Lock \/ Written \/ WriteFails

Next ==
  \/ \E g \in Guest : Connect(g) \/ HangUp(g)
  \/ \E u \in Usr : Serve(u) \/ Answer(u) \/ Receive(u) \/ AcceptFails(u)
  \/ Send \/ Blocks

\* Threads that can go on do: nothing here waits for a client but accept and
\* select, and a second of silence ends the wait in select.  The order in
\* which waiting clients are accepted is the network's, first come first served.
\* The sender sleeps between two frames with no mutex held (read_audio_frame),
\* so a thread that waits for the mutex of its entry gets it.
Fairness ==
  /\ \A u \in Usr : WF_vars(Serve(u)) /\ WF_vars(Answer(u)) /\ WF_vars(Receive(u))
  /\ \A u \in Usr : SF_vars(DeleteUsr(u))
  /\ \A g \in Guest : SF_vars(\E u \in Usr : Accept(u, g))
  /\ WF_vars(Send)

Spec == Init /\ [][Next]_vars /\ Fairness

--------------------------------------------------------------------------------
(* Properties.                                                               *)

Counted(c) == {u \in Usr : addr[u] \in c /\ pc[u] # "delUsr"}

\* The counters of add_av_usr_list and del_av_usr_list are the users the list
\* holds: neither a busy answer nor a dropped client leaves one behind.
CountsHonest == lanUsrs = Cardinality(Counted(Lan)) /\ wanUsrs = Cardinality(Counted(Wan))

\* The sender writes only to an open connection, and only to a client that has
\* subscribed with audio: the entry's mutex keeps it from one that has left,
\* and the second of sleep from the one that comes after it.
StreamsToItsSubscriber ==
  spc \in {"write", "blocked"} /\ fd[si] # None =>
     conn[si] = fd[si] /\ place[fd[si]] \in {"here", "gone"} /\ fd[si] \in asked

\* A thread whose accept failed listens no more.
Lost == {u \in Usr : pc[u] = "idle" /\ used[u]}

\* Every client is let in or told that the device is busy, for one thread more
\* than there are users is always there to tell it.  Only a thread lost to a
\* failed accept, or a sender stopped by a client that does not read, can
\* prevent it.
EveryGuestAnswered ==
  \A g \in Guest :
    place[g] = "waiting" ~> place[g] # "waiting" \/ Lost # {} \/ spc = "blocked"

\* "write data error! disconnect peer": the client a command thread drops for
\* a failed write is one a write has failed to.
OnlyTheFailedIsCut == [][\A u \in Usr : Cut(u) => conn[u] \in failed]_vars

\* The server implements the abstract admission of clients, by class.
Where(g) ==
  IF place[g] = "waiting" THEN "waiting"
  ELSE IF \E u \in Usr : conn[u] = g /\ pc[u] = "busy" THEN "turned"
  ELSE IF \E u \in Usr : conn[u] = g /\ pc[u] \notin {"delUsr", "close"} THEN "inside"
  ELSE "away"
Door == INSTANCE Admission WITH
          Guest   <- Guest,
          ClassOf <- [g \in Guest |-> IF g \in Lan THEN "lan" ELSE "wan"],
          Limit   <- [lan |-> MaxLan, wan |-> MaxWan],
          at      <- [g \in Guest |-> Where(g)]
AdmitsAsPromised == Door!Spec
================================================================================
