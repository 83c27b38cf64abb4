------------------------------- MODULE AplayServer -------------------------------
(***************************************************************************)
(* The audio playback server (net_aplay.c): threads that take turns at     *)
(* accept, let in as many clients as there may be, and hand the AAC frames *)
(* a client sends to the decoder.  A frame is a head, a length and data.   *)
(* Clients of the older protocol put a START command before the first.     *)
(***************************************************************************)
EXTENDS Integers

CONSTANTS
  Guest,      (* clients                                                     *)
  MaxUsrs,    (* max_aplay_usrs, a natural number                            *)
  None        (* no client                                                   *)

\* One thread for each user, and one more to answer busy.
NUsrNoSpare == MaxUsrs
NUsr == MaxUsrs + 1
Usr  == 1..NUsr

VARIABLES
  place,      \* per client: where its connection is
  sends,      \* per client: what of its stream is to be read next
  lmx,        \* l_mutex: the thread that holds it, or None
  usrs,       \* usrs, the users counted
  pc, conn,   \* per thread: step, accept_fd (the client it is connected to)
  serv, fmt,  \* per entry: serv_stat, a_fmt
  first,      \* per thread: first_audio_flag
  flow,       \* history, per client: how its frames have come
  torn        \* history: clients a part of a frame of whom went to the decoder

vars == <<place, sends, lmx, usrs, pc, conn, serv, fmt, first, flow, torn>>
stream == <<serv, fmt, first>>
hist   == <<flow, torn>>

Step   == {"lock", "accept", "busy", "serve", "del", "close"}
Format == {"unset", "aac", "other"}
Flow   == {"none", "start", "bare", "broken"}  \* after START, without, or not steadily
Part   == {"command", "start", "frame", "rest"}   \* "rest": what a late read left

TypeOK ==
  /\ place \in [Guest -> {"away", "waiting", "here", "gone"}]
  /\ sends \in [Guest -> Part] /\ lmx \in Usr \cup {None} /\ usrs \in 0..MaxUsrs
  /\ pc \in [Usr -> Step] /\ conn \in [Usr -> Guest \cup {None}]
  /\ serv \in [Usr -> {-1, 0, 1}] /\ fmt \in [Usr -> Format]
  /\ first \in [Usr -> BOOLEAN]
  /\ flow \in [Guest -> Flow] /\ torn \subseteq Guest

Init ==
  /\ place = [g \in Guest |-> "away"] /\ sends = [g \in Guest |-> "command"]
  /\ lmx = None /\ usrs = 0
  /\ pc = [u \in Usr |-> "lock"] /\ conn = [u \in Usr |-> None]
  /\ serv = [u \in Usr |-> 0] /\ fmt = [u \in Usr |-> "unset"]
  /\ first = [u \in Usr |-> TRUE]
  /\ flow = [g \in Guest |-> "none"] /\ torn = {}

Go(u, from, to) == pc[u] = from /\ pc' = [pc EXCEPT ![u] = to]
Moves(g, from, to) == place[g] = from /\ place' = [place EXCEPT ![g] = to]

--------------------------------------------------------------------------------
(* The clients.                                                              *)

Connect(g) ==
  /\ Moves(g, "away", "waiting") /\ sends' = [sends EXCEPT ![g] = "command"]
  /\ UNCHANGED <<lmx, usrs, pc, conn, stream, hist>>

HangUp(g) ==
  /\ Moves(g, "here", "gone") /\ flow' = [flow EXCEPT ![g] = "broken"]
  /\ UNCHANGED <<sends, lmx, usrs, pc, conn, stream, torn>>

--------------------------------------------------------------------------------
(* Connections: rtnet_aplay_thread.                                          *)

Lock(u) ==
  /\ lmx = None /\ lmx' = u /\ Go(u, "lock", "accept")
  /\ UNCHANGED <<place, sends, usrs, conn, stream, hist>>

AcceptFails(u) ==
  /\ lmx' = None /\ Go(u, "accept", "lock")
  /\ UNCHANGED <<place, sends, usrs, conn, stream, hist>>

\* add_aplay_usr_list: counted, or counted back when there are too many.
FullLate == usrs > MaxUsrs
Full == usrs >= MaxUsrs

\* init_aplay_usr_info clears the entry but for the format of its last client.
Accept(u, g) ==
  /\ Moves(g, "waiting", "here") /\ lmx' = None
  /\ conn' = [conn EXCEPT ![u] = g] /\ serv' = [serv EXCEPT ![u] = 0]
  /\ \/ Full /\ Go(u, "accept", "busy") /\ UNCHANGED usrs
     \/ ~Full /\ Go(u, "accept", "serve") /\ usrs' = usrs + 1
  /\ UNCHANGED <<sends, fmt, first, hist>>

CloseConn(u) ==
  /\ place' = [place EXCEPT ![conn[u]] = "away"]
  /\ conn' = [conn EXCEPT ![u] = None]
  /\ sends' = [sends EXCEPT ![conn[u]] = "command"]
  /\ flow' = [flow EXCEPT ![conn[u]] = "none"] /\ torn' = torn \ {conn[u]}

Busy(u) == Go(u, "busy", "lock") /\ CloseConn(u) /\ UNCHANGED <<lmx, usrs, stream>>

\* del_aplay_usr_list under s_mutex.
Delete(u) ==
  /\ Go(u, "del", "close") /\ usrs' = usrs - 1 /\ serv' = [serv EXCEPT ![u] = -1]
  /\ UNCHANGED <<place, sends, lmx, conn, fmt, first, hist>>

Close(u) == Go(u, "close", "lock") /\ CloseConn(u) /\ UNCHANGED <<lmx, usrs, stream>>

\* Five seconds of silence, a broken packet, an error, a length no frame has.
Drop(u) ==
  /\ Go(u, "serve", "del")
  /\ UNCHANGED <<place, sends, lmx, usrs, conn, stream, hist>>

--------------------------------------------------------------------------------
(* The stream of a client.                                                   *)

\* What client g of thread u has sent is read; it sends p next.
Reads(u, g, what, p) ==
  /\ pc[u] = "serve" /\ g = conn[u] /\ sends[g] = what
  /\ sends' = [sends EXCEPT ![g] = p]
  /\ UNCHANGED <<place, lmx, usrs, conn>>

\* proc_audio_subscrib_cmd: whatever its format the client is told success, but
\* only one of AAC stays.  A command that is not known leaves the format of the
\* entry's last client, and that decides.
Subscribe(u, g, f) ==
  /\ serv[u] <= 0 /\ \E p \in {"start", "frame"} : Reads(u, g, "command", p)
  /\ serv' = [serv EXCEPT ![u] = 1] /\ fmt' = [fmt EXCEPT ![u] = f]
  /\ first' = [first EXCEPT ![u] = @ \/ f = "aac"]
  /\ IF f = "aac" THEN UNCHANGED pc ELSE Go(u, "serve", "del")
  /\ UNCHANGED hist
UnknownCommand(u, g) ==
  /\ serv[u] <= 0 /\ Reads(u, g, "command", "command")
  /\ first' = [first EXCEPT ![u] = @ \/ fmt[u] = "aac"]
  /\ IF fmt[u] = "aac" THEN UNCHANGED pc ELSE Go(u, "serve", "del")
  /\ UNCHANGED <<serv, fmt, hist>>

\* The START command, thrown away whole.
StartAgain(u, g) ==
  /\ serv[u] = 1 /\ first[u] /\ Reads(u, g, "start", "frame")
  /\ flow' = [flow EXCEPT ![g] = IF @ = "none" THEN "start" ELSE @]
  /\ UNCHANGED <<first, pc, serv, fmt, torn>>
Start(u, g) ==
  /\ serv[u] = 1 /\ first[u] /\ Reads(u, g, "start", "frame")
  /\ first' = [first EXCEPT ![u] = FALSE]
  /\ flow' = [flow EXCEPT ![g] = IF @ = "none" THEN "start" ELSE @]
  /\ UNCHANGED <<pc, serv, fmt, torn>>

\* Without it only the first four bytes are read, and with them goes to the
\* decoder whatever the length, which nobody has set, says; or it is negative
\* and taken for the end of the connection.
Headless(u, g) ==
  /\ serv[u] = 1 /\ first[u] /\ \E p \in {"frame", "rest"} : Reads(u, g, p, "rest")
  /\ first' = [first EXCEPT ![u] = FALSE]
  /\ \/ torn' = torn \cup {g} /\ UNCHANGED pc
     \/ Go(u, "serve", "del") /\ UNCHANGED torn
  /\ flow' = [flow EXCEPT ![g] = IF @ = "none" THEN "bare" ELSE @]
  /\ UNCHANGED <<serv, fmt>>

\* Head, length and data of a frame, written to the decoder.
Frame(u, g) ==
  /\ serv[u] = 1 /\ ~first[u] /\ Reads(u, g, "frame", "frame")
  /\ UNCHANGED <<pc, serv, fmt, first, hist>>

\* A client that pauses within a part for longer than the socket waits: what
\* has come is lost, and the rest is read as if it were a new part.
Late(u, g) ==
  /\ serv[u] = 1 /\ Reads(u, g, sends[g], "rest")
  /\ first' \in {first} \cup IF sends[g] = "start" THEN {[first EXCEPT ![u] = FALSE]} ELSE {}
  /\ flow' = [flow EXCEPT ![g] = "broken"]
  /\ UNCHANGED <<pc, serv, fmt, torn>>

\* The rest of a part has no head.
NoHead(u, g) ==
  /\ serv[u] = 1 /\ ~first[u] /\ Reads(u, g, "rest", "rest") /\ Go(u, "serve", "del")
  /\ UNCHANGED <<serv, fmt, first, hist>>

\* A client that leaves within a frame: the end of the connection is taken for
\* no data, and the frame goes to the decoder as it is.
CutShort(u, g) ==
  /\ serv[u] = 1 /\ ~first[u] /\ place[g] = "gone" /\ Reads(u, g, "frame", "frame")
  /\ torn' = torn \cup {g} /\ UNCHANGED <<pc, serv, fmt, first, flow>>

--------------------------------------------------------------------------------
Work(u) == Lock(u) \/ Busy(u) \/ Delete(u) \/ Close(u) \/ Drop(u)
Hear(u, g) ==
  \/ \E f \in {"aac", "other"} : Subscribe(u, g, f)
  \/ UnknownCommand(u, g) \/ Start(u, g) \/ Headless(u, g) \/ Frame(u, g)
  \/ Late(u, g) \/ NoHead(u, g) \/ CutShort(u, g)

Next ==
  \/ \E g \in Guest : Connect(g) \/ HangUp(g)
  \/ \E u \in Usr : Work(u) \/ AcceptFails(u) \/ \E g \in Guest : Accept(u, g) \/ Hear(u, g)

\* Threads that are not waiting for a client go on; waiting clients are accepted
\* in the order in which they came, for a failed accept is tried again.
Fairness ==
  /\ \A u \in Usr : WF_vars(Lock(u) \/ Busy(u) \/ Delete(u) \/ Close(u))
  /\ \A g \in Guest : SF_vars(\E u \in Usr : Accept(u, g))

Spec == Init /\ [][Next]_vars /\ Fairness

--------------------------------------------------------------------------------
(* Properties.                                                               *)

\* A client that begins with START and neither pauses nor leaves has whole
\* frames handed to the decoder, and nothing else.
WholeFrames == \A g \in torn : flow[g] # "start"

\* Every client is let in or told busy: failed accepts cost no thread, and one
\* thread more than there may be users is always there.
EveryGuestAnswered == \A g \in Guest : place[g] = "waiting" ~> place[g] # "waiting"

\* The server implements the abstract admission, with one class of clients.
Where(g) ==
  IF place[g] = "waiting" THEN "waiting"
  ELSE IF \E u \in Usr : conn[u] = g /\ pc[u] = "busy" THEN "turned"
  ELSE IF \E u \in Usr : conn[u] = g /\ pc[u] # "close" THEN "inside"
  ELSE "away"
Door == INSTANCE Admission WITH
          Guest   <- Guest,
          ClassOf <- [g \in Guest |-> "any"],
          Limit   <- [any |-> MaxUsrs],
          at      <- [g \in Guest |-> Where(g)]
AdmitsAsPromised == Door!Spec
================================================================================
