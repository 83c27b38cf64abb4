-------------------------------- MODULE CmdServer --------------------------------
(***************************************************************************)
(* The command connection server (mainnetproc.c): a pool of threads that   *)
(* take turns at accept under a mutex, count themselves busy, and serve    *)
(* the commands of one connection each.  The thread that finds itself the  *)
(* last one free answers BUSY, so that there is always one to answer.      *)
(***************************************************************************)
EXTENDS Integers, FiniteSets

CONSTANTS
  Guest,       (* clients: gateways and viewers                              *)
  NThreads,    (* MAXTHREADS                                                 *)
  Patience,    (* seconds without a first command until a client is dropped  *)
  None         (* no client                                                  *)

ASSUME CmdAssumption == /\ IsFiniteSet(Guest) /\ None \notin Guest
                        /\ NThreads \in Nat \ {0} /\ Patience \in Nat \ {0}

Thread == 1..NThreads

VARIABLES
  place,       \* per client: where its connection is
  mlock,       \* the thread that holds the mutex of accept, or None
  busy,        \* threadbusy
  pc, conn,    \* per thread: step, connfd (the client it is connected to)
  quiet,       \* per thread: recv_cmd_timout, 0 after the first command
  down         \* the process has exited

vars == <<place, mlock, busy, pc, conn, quiet, down>>

Step == {"lock", "accept", "count", "test", "refuse", "serve", "close", "uncount"}

TypeOK ==
  /\ place \in [Guest -> {"away", "waiting", "here", "mute", "gone"}]
  /\ mlock \in Thread \cup {None} /\ busy \in 0..NThreads
  /\ pc \in [Thread -> Step] /\ conn \in [Thread -> Guest \cup {None}]
  /\ quiet \in [Thread -> 0..Patience] /\ down \in BOOLEAN

Init ==
  /\ place = [g \in Guest |-> "away"]
  /\ mlock = None /\ busy = 0 /\ down = FALSE
  /\ pc = [t \in Thread |-> "lock"] /\ conn = [t \in Thread |-> None]
  /\ quiet = [t \in Thread |-> 0]

Go(t, from, to) == ~down /\ pc[t] = from /\ pc' = [pc EXCEPT ![t] = to]
Moves(g, from, to) == place[g] = from /\ place' = [place EXCEPT ![g] = to]

--------------------------------------------------------------------------------
(* The clients.                                                              *)

Connect(g) == Moves(g, "away", "waiting") /\ UNCHANGED <<mlock, busy, pc, conn, quiet, down>>

\* A client that is connected sends nothing any more, or closes: what it sent
\* before has been read.  One whose host has vanished is mute, not gone.
FallSilent(g) == Moves(g, "here", "mute") /\ UNCHANGED <<mlock, busy, pc, conn, quiet, down>>
HangUp(g) ==
  /\ Moves(g, "here", "gone") \/ Moves(g, "mute", "gone")
  /\ UNCHANGED <<mlock, busy, pc, conn, quiet, down>>

--------------------------------------------------------------------------------
(* A thread: thread_main.                                                    *)

Lock(t) ==
  /\ mlock = None /\ mlock' = t /\ Go(t, "lock", "accept")
  /\ UNCHANGED <<place, busy, conn, quiet, down>>

Accept(t, g) ==
  /\ Moves(g, "waiting", "here") /\ Go(t, "accept", "count")
  /\ mlock' = None /\ conn' = [conn EXCEPT ![t] = g]
  /\ UNCHANGED <<busy, quiet, down>>

\* EINTR: try again.
AcceptInterrupted(t) ==
  /\ mlock' = None /\ Go(t, "accept", "lock")
  /\ UNCHANGED <<place, busy, conn, quiet, down>>

\* Any other failure of accept ends the whole process.
AcceptFails(t) ==
  /\ mlock' = None /\ Go(t, "accept", "lock") /\ down' = TRUE
  /\ UNCHANGED <<place, busy, conn, quiet>>

\* add_threadbusy, under a mutex of its own.
CountBusy(t) ==
  /\ busy' = busy + 1 /\ Go(t, "count", "test")
  /\ UNCHANGED <<place, mlock, conn, quiet, down>>

\* The count is read again here, without the mutex.
TooManyBeyond == busy > NThreads
TooMany == busy >= NThreads

\* The silence of a client is counted from 1 until its first command.
Test(t) ==
  /\ \/ TooMany /\ Go(t, "test", "refuse") /\ UNCHANGED quiet
     \/ ~TooMany /\ Go(t, "test", "serve") /\ quiet' = [quiet EXCEPT ![t] = 1]
  /\ UNCHANGED <<place, mlock, busy, conn, down>>

\* select for a second: nothing came.  A packet in the wrong envelope, or an
\* incomplete one, changes nothing, and a client that keeps sending them puts
\* the end of the second off: only one that is mute is sure to be counted out.
SilenceForgiven(t) ==
  /\ pc[t] = "serve" /\ quiet[t] \in 1..Patience /\ place[conn[t]] # "gone"
  /\ UNCHANGED <<place, mlock, busy, conn, pc, quiet, down>>
Silence(t) ==
  /\ pc[t] = "serve" /\ quiet[t] # 0 /\ place[conn[t]] # "gone"
  /\ \/ quiet[t] < Patience /\ Go(t, "serve", "serve")
        /\ quiet' = [quiet EXCEPT ![t] = @ + 1]
     \/ quiet[t] = Patience /\ Go(t, "serve", "close") /\ UNCHANGED quiet
  /\ UNCHANGED <<place, mlock, busy, conn, down>>

\* process_netcmd; from now on the client may be silent for ever.
Command(t) ==
  /\ Go(t, "serve", "serve") /\ place[conn[t]] = "here"
  /\ quiet' = [quiet EXCEPT ![t] = 0]
  /\ UNCHANGED <<place, mlock, busy, conn, down>>

\* A broken packet, or the client has closed.
Broken(t) ==
  /\ Go(t, "serve", "close")
  /\ UNCHANGED <<place, mlock, busy, conn, quiet, down>>

\* close(connfd), after the busy answer and half a second or after service.
Close(t) ==
  /\ \/ Go(t, "refuse", "uncount")
     \/ Go(t, "close", "uncount")
  /\ place' = [place EXCEPT ![conn[t]] = "away"] /\ conn' = [conn EXCEPT ![t] = None]
  /\ UNCHANGED <<mlock, busy, quiet, down>>

UncountNever(t) ==
  /\ Go(t, "uncount", "lock")
  /\ UNCHANGED <<place, mlock, busy, conn, quiet, down>>
Uncount(t) ==
  /\ busy' = busy - 1 /\ Go(t, "uncount", "lock")
  /\ UNCHANGED <<place, mlock, conn, quiet, down>>

--------------------------------------------------------------------------------
Work(t) == Lock(t) \/ CountBusy(t) \/ Test(t) \/ Close(t) \/ Uncount(t)
Hear(t) == Command(t) \/ Broken(t) \/ Silence(t)
Answer(t) == \E g \in Guest : Accept(t, g)

\* exit(1): nothing runs any more.
Exited == down /\ UNCHANGED vars

Next ==
  \/ Exited
  \/ \E g \in Guest : Connect(g) \/ FallSilent(g) \/ HangUp(g)
  \/ \E t \in Thread :
       Work(t) \/ Hear(t) \/ Answer(t) \/ AcceptInterrupted(t) \/ AcceptFails(t)

\* Threads that can go on do: a read finds the end of a connection that was
\* closed, and the seconds of a client that sends nothing are counted.  Clients
\* are accepted in the order in which they came: an interrupted accept is taken
\* up again.
Fairness ==
  /\ \A t \in Thread : WF_vars(Work(t))
  /\ \A t \in Thread : WF_vars(Broken(t) /\ place[conn[t]] = "gone")
  /\ \A t \in Thread : WF_vars(Silence(t) /\ place[conn[t]] = "mute")
  /\ \A g \in Guest : SF_vars(\E t \in Thread : Accept(t, g))

Spec == Init /\ [][Next]_vars /\ Fairness

--------------------------------------------------------------------------------
(* Properties.                                                               *)

Serving == {t \in Thread : pc[t] \in {"serve", "close"}}

\* threadbusy is the threads that have a connection and have counted it, the
\* refused ones among them: no path around a connection leaves it counted.
BusyHonest == busy = Cardinality({t \in Thread : pc[t] \notin {"lock", "accept", "count"}})

\* However the threads' counts and tests fall, one thread is left that serves
\* nobody: the test is made after the thread has counted itself.
OneThreadSpare == Serving # Thread

\* So every client is let in or told BUSY, unless the process has exited.
EveryGuestAnswered ==
  \A g \in Guest : place[g] = "waiting" ~> place[g] # "waiting" \/ down

\* A client that hangs up, whatever it sent before, gives its thread back, and so
\* does one that falls silent before its first command: thread_main's patience is
\* for those alone.
LostFor(t) ==
  \/ place[conn[t]] = "gone"
  \/ place[conn[t]] = "mute" /\ quiet[t] # 0
LostGuestsLeave ==
  \A t \in Thread : t \in Serving /\ LostFor(t) ~> t \notin Serving \/ down
================================================================================
