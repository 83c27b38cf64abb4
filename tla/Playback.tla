-------------------------------- MODULE Playback --------------------------------
(***************************************************************************)
(* The sessions of the recorded file playback process (playback_main.c,    *)
(* playback_modcmd.c, playback_file.c).  A slot of the session table is    *)
(* opened by the listening thread, for a client that connects and asks, or *)
(* by the module thread, which connects to a peer itself; a thread of its  *)
(* own plays it.  Nothing is locked: openers, players and commands meet in *)
(* the slot's fields.                                                      *)
(***************************************************************************)
EXTENDS Integers

CONSTANTS
  Client,     (* clients that connect to the playback port                   *)
  Peer,       (* peers the module thread is told to connect to               *)
  None,       (* nobody                                                      *)
  NSlots,     (* PLAYBACK_NUM                                                *)
  NEntries,   (* MAX_PLAYBACK_NUM: connections the listening thread watches  *)
  NFds,       (* bound: descriptors                                          *)
  Expires,    (* connections are closed after twelve hours                   *)
  AsksAgain   (* a client may ask again over one connection                  *)

Party  == Client \cup Peer
Slot   == 0..NSlots - 1
Entry  == 0..NEntries - 1
Fd     == 1..NFds
NoFd   == 0
Listener == -1    \* who may open a slot, besides the players 0..NSlots - 1
Module   == -2
Opener == {Listener, Module}

VARIABLES
  state, oper, sock, film,  \* per slot: state, oper, socket, aviinfo
  entry,       \* socketable: per entry its descriptor, NoFd if unused
  peerOf,      \* per descriptor: the party it is connected to, None if closed
  at,          \* per party: how far it is
  lpc, lj, bits, hit,  \* listening thread: step, entry, readfds, sessions to stop
  opc, target, \* per opener: step, slot it opens
  mcmd,        \* module thread: the command it is about to carry out
  closing,     \* per opener and player: how far its playbackClose is
  seeking,     \* per player: it opens the file anew
  mixed        \* history: slots taken or cleared while somebody else opened them

slots  == <<state, oper, sock, film>>
net    == <<peerOf, at>>
listen == <<lpc, lj, bits, hit>>
open   == <<opc, target>>
play   == <<closing, seeking>>
vars == <<slots, entry, net, listen, open, mcmd, play, mixed>>

Stat  == {"idle", "used", "ok"}
Oper  == {"idle", "close", "pause", "seek"}
Order == [slot : Slot, op : Oper]
NoOrder == [slot |-> -1, op |-> "idle"]

TypeOK ==
  /\ state \in [Slot -> Stat] /\ oper \in [Slot -> Oper]
  /\ sock \in [Slot -> Fd \cup {NoFd}] /\ film \in [Slot -> BOOLEAN]
  /\ entry \in [Entry -> Fd \cup {NoFd}] /\ peerOf \in [Fd -> Party \cup {None}]
  /\ at \in [Party -> {"away", "new", "asked", "served", "gone"}]
  /\ lpc \in {"top", "accept", "scan", "open", "stop"} /\ lj \in 0..NEntries
  /\ bits \subseteq Fd /\ hit \subseteq Slot
  /\ opc \in [Opener -> {"none", "find", "mark", "file", "close", "join", "failed"}]
  /\ target \in [Opener -> Slot] /\ mcmd \in Order \cup {NoOrder}
  /\ closing \in [Opener \cup Slot -> BOOLEAN]
  /\ seeking \in [Slot -> {"no", "yes", "failed"}]
  /\ mixed \subseteq Slot

Init ==
  /\ state = [s \in Slot |-> "idle"] /\ oper = [s \in Slot |-> "idle"]
  /\ sock = [s \in Slot |-> NoFd] /\ film = [s \in Slot |-> FALSE]
  /\ entry = [j \in Entry |-> NoFd] /\ peerOf = [f \in Fd |-> None]
  /\ at = [c \in Party |-> "away"]
  /\ lpc = "top" /\ lj = 0 /\ bits = {} /\ hit = {}
  /\ opc = [p \in Opener |-> "none"] /\ target = [p \in Opener |-> 0]
  /\ mcmd = NoOrder
  /\ closing = [q \in Opener \cup Slot |-> FALSE]
  /\ seeking = [s \in Slot |-> "no"]
  /\ mixed = {}

--------------------------------------------------------------------------------
(* Descriptors.  close(2) frees the number; the party sees the end.          *)

FreeFd == {f \in Fd : peerOf[f] = None}
CloseFd(f) ==
  IF f # NoFd /\ peerOf[f] # None
  THEN peerOf' = [peerOf EXCEPT ![f] = None] /\ at' = [at EXCEPT ![peerOf[f]] = "away"]
  ELSE UNCHANGED net

\* The listening thread closes what it watches at entry j, a player's or not.
Drop(j) ==
  /\ CloseFd(entry[j]) /\ entry' = [entry EXCEPT ![j] = NoFd]
  /\ UNCHANGED mixed

\* Somebody but q is opening slot s.
Opening(q, s) ==
  \E p \in Opener \ {q} : target[p] = s /\ opc[p] \in {"file", "join", "close"}

Watched == {entry[j] : j \in Entry} \ {NoFd}

--------------------------------------------------------------------------------
(* The parties.                                                              *)

Moves(c, from, to) == at[c] = from /\ at' = [at EXCEPT ![c] = to]
Alone == UNCHANGED <<slots, entry, peerOf, listen, open, mcmd, play, mixed>>

Mute == IF AsksAgain THEN {"new", "served"} ELSE {"new"}
Ask(c)     == at[c] \in Mute /\ at' = [at EXCEPT ![c] = "asked"] /\ Alone
HangUp(c)  == at[c] \in {"new", "served"} /\ at' = [at EXCEPT ![c] = "gone"] /\ Alone

--------------------------------------------------------------------------------
(* playbackClose, by a player or by an opener whose opening failed: the file *)
(* and the connection, and the watched entry of the slot's own number, ...   *)

Close(q, s) ==
  IF state[s] = "idle" THEN UNCHANGED <<slots, entry, net, closing>>
  ELSE /\ closing' = [closing EXCEPT ![q] = TRUE]
       /\ film' = [film EXCEPT ![s] = FALSE]
       /\ sock' = [sock EXCEPT ![s] = NoFd] /\ CloseFd(sock[s])
       /\ entry' = [j \in Entry |-> IF j = s THEN NoFd ELSE entry[j]]
       /\ UNCHANGED <<state, oper>>

\* ... and then the slot is cleared, which makes it free.
Wipe(q, s) ==
  /\ closing[q] /\ closing' = [closing EXCEPT ![q] = FALSE]
  /\ state' = [state EXCEPT ![s] = "idle"] /\ oper' = [oper EXCEPT ![s] = "idle"]
  /\ sock' = [sock EXCEPT ![s] = NoFd] /\ film' = [film EXCEPT ![s] = FALSE]
  /\ mixed' = IF Opening(q, s) THEN mixed \cup {s} ELSE mixed
  /\ UNCHANGED <<entry, net, listen, open, mcmd, seeking>>

--------------------------------------------------------------------------------
(* The listening thread: playback_listen_thread.                             *)

Expire(j) ==
  /\ Expires /\ lpc = "top" /\ entry[j] # NoFd
  /\ Drop(j) /\ UNCHANGED <<slots, listen, open, mcmd, play>>

\* A watched descriptor that is closed makes select fail.  The failure is not
\* looked at, the set of descriptors is as it was handed in, and accept blocks.
Ready == {f \in Watched : peerOf[f] # None /\ at[peerOf[f]] \in {"asked", "gone"}}
Fails == \E f \in Watched : peerOf[f] = None
Select ==
  /\ lpc = "top" /\ lj' = 0
  /\ \/ Fails /\ bits' = Watched /\ lpc' = "accept"
     \/ ~Fails /\ (\E c \in Client : at[c] = "away") /\ bits' = Ready /\ lpc' = "accept"
     \/ ~Fails /\ Ready # {} /\ bits' = Ready /\ lpc' = "scan"
  /\ UNCHANGED <<slots, entry, net, hit, open, mcmd, play, mixed>>

\* The first unused entry, or none: the connection is then left open.
FirstFree(j) == entry[j] = NoFd /\ \A k \in Entry : k < j => entry[k] # NoFd
Accept(c) ==
  /\ lpc = "accept" /\ at[c] = "away" /\ lpc' = "scan"
  /\ \E f \in FreeFd :
       /\ peerOf' = [peerOf EXCEPT ![f] = c] /\ at' = [at EXCEPT ![c] = "new"]
       /\ entry' = [j \in Entry |-> IF FirstFree(j) THEN f ELSE entry[j]]
  /\ UNCHANGED <<slots, lj, bits, hit, open, mcmd, play, mixed>>

Flagged(j) == entry[j] # NoFd /\ entry[j] \in bits
Here == lpc = "scan" /\ lj < NEntries /\ Flagged(lj)
Scan ==
  /\ lpc = "scan" /\ ~Here
  /\ \/ /\ \E j \in Entry : /\ j > lj /\ Flagged(j) /\ lj' = j
                           /\ \A k \in Entry : lj < k /\ k < j => ~Flagged(k)
        /\ UNCHANGED <<lpc, bits>>
     \/ /\ \A j \in Entry : j >= lj => ~Flagged(j)
        /\ lpc' = "top" /\ bits' = {} /\ lj' = 0
  /\ UNCHANGED <<slots, entry, net, hit, open, mcmd, play, mixed>>

\* recv finds a command, ...
RecvCommand ==
  /\ Here /\ peerOf[entry[lj]] # None
  /\ Moves(peerOf[entry[lj]], "asked", "served")
  /\ lpc' = "open" /\ opc' = [opc EXCEPT ![Listener] = "find"]
  /\ UNCHANGED <<slots, entry, peerOf, lj, bits, hit, target, mcmd, play, mixed>>

\* ... one too short, ...
RecvShort ==
  /\ Here /\ peerOf[entry[lj]] # None
  /\ at[peerOf[entry[lj]]] = "asked" /\ lj' = lj + 1
  /\ Drop(lj) /\ UNCHANGED <<slots, lpc, bits, hit, open, mcmd, play>>

\* ... or the end: playback_stopconnect looks for the sessions of this
\* descriptor and orders their players to close; else recv waits.
RecvEnd ==
  /\ Here
  /\ IF peerOf[entry[lj]] = None THEN TRUE ELSE at[peerOf[entry[lj]]] = "gone"
  /\ hit' = {s \in Slot : state[s] = "ok" /\ sock[s] = entry[lj]} /\ lpc' = "stop"
  /\ UNCHANGED <<slots, entry, net, lj, bits, open, mcmd, play, mixed>>
StopConnect ==
  /\ lpc = "stop" /\ lpc' = "scan" /\ lj' = lj + 1 /\ hit' = {}
  /\ oper' = [s \in Slot |-> IF s \in hit THEN "close" ELSE oper[s]]
  /\ entry' = [entry EXCEPT ![lj] = NoFd]
  /\ UNCHANGED <<state, sock, film, net, bits, open, mcmd, play, mixed>>

\* The answer to a client that was not let in, whose connection is closed, ...
Refuse ==
  /\ opc[Listener] = "failed" /\ opc' = [opc EXCEPT ![Listener] = "none"]
  /\ lpc' = "scan" /\ lj' = lj + 1
  /\ Drop(lj) /\ UNCHANGED <<slots, bits, hit, target, mcmd, play>>

\* ... or was: playbackConnectOK, if the slot is still being opened.
ConnectOK ==
  LET s == target[Listener] IN
  /\ opc[Listener] = "join" /\ opc' = [opc EXCEPT ![Listener] = "none"]
  /\ lpc' = "scan" /\ lj' = lj + 1
  /\ IF state[s] = "used"
     THEN /\ sock' = [sock EXCEPT ![s] = entry[lj]] /\ state' = [state EXCEPT ![s] = "ok"]
     ELSE UNCHANGED <<sock, state>>
  /\ UNCHANGED <<oper, film, entry, net, bits, hit, target, mcmd, play, mixed>>

--------------------------------------------------------------------------------
(* Opening a session: playbackfileOpen and playbackOpen.                     *)

Opens(p, from, to) == opc[p] = from /\ opc' = [opc EXCEPT ![p] = to]

\* The first idle slot is looked for, and taken: another opener may be as far.
FindNoLimit(p) ==
  /\ \E s \in 0..NSlots :
       /\ s \in Slot => state[s] = "idle"
       /\ \A r \in Slot : r < s => state[r] # "idle"
       /\ Opens(p, "find", "mark") /\ target' = [target EXCEPT ![p] = s]
  /\ UNCHANGED <<slots, entry, net, listen, mcmd, play, mixed>>
Find(p) ==
  /\ \/ /\ \A s \in Slot : state[s] # "idle"
        /\ Opens(p, "find", "failed") /\ UNCHANGED target
     \/ \E s \in Slot :
          /\ state[s] = "idle" /\ \A r \in Slot : r < s => state[r] # "idle"
          /\ Opens(p, "find", "mark") /\ target' = [target EXCEPT ![p] = s]
  /\ UNCHANGED <<slots, entry, net, listen, mcmd, play, mixed>>
Mark(p) ==
  /\ Opens(p, "mark", "file")
  /\ state' = [state EXCEPT ![target[p]] = "used"]
  /\ mixed' = (IF Opening(p, target[p]) THEN mixed \cup {target[p]} ELSE mixed \ {target[p]})
  /\ UNCHANGED <<oper, sock, film, entry, net, listen, target, mcmd, play>>

\* playback_openfile: the index, the first file, the place in it.
File(p) ==
  /\ \/ Opens(p, "file", "join") /\ film' = [film EXCEPT ![target[p]] = TRUE]
     \/ Opens(p, "file", "close") /\ UNCHANGED film
  /\ UNCHANGED <<state, oper, sock, entry, net, listen, target, mcmd, play, mixed>>

OpenFailed(p) ==
  /\ Opens(p, "close", "failed") /\ Close(p, target[p])
  /\ UNCHANGED <<listen, target, mcmd, seeking, mixed>>

--------------------------------------------------------------------------------
(* The module thread: process_hdplayback_start, _stop and _ctrl.             *)

ModuleFree == opc[Module] = "none" /\ mcmd = NoOrder /\ ~closing[Module]

StartCommand ==
  /\ ModuleFree /\ Peer # {} /\ opc' = [opc EXCEPT ![Module] = "find"]
  /\ UNCHANGED <<slots, entry, net, listen, target, mcmd, play, mixed>>

\* The peer answers, and the slot is ready, whatever has become of it; or the
\* peer does not; or the stream's id cannot be sent, and the socket stays open.
ConnectPeer ==
  LET s == target[Module] IN
  /\ \/ \E f \in FreeFd, c \in Peer :
          /\ at[c] = "away" /\ at' = [at EXCEPT ![c] = "served"]
          /\ peerOf' = [peerOf EXCEPT ![f] = c]
          /\ \/ /\ Opens(Module, "join", "none")
                /\ sock' = [sock EXCEPT ![s] = f] /\ state' = [state EXCEPT ![s] = "ok"]
             \/ Opens(Module, "join", "close") /\ UNCHANGED <<sock, state>>
     \/ Opens(Module, "join", "close") /\ UNCHANGED <<net, sock, state, mixed>>
  /\ UNCHANGED <<oper, film, entry, listen, target, mcmd, play, mixed>>

StartAnswered ==
  /\ ~closing[Module] /\ Opens(Module, "failed", "none")
  /\ UNCHANGED <<slots, entry, net, listen, target, mcmd, play, mixed>>

\* A command names a slot by number: it is tested, and then given its order.
OrderCommand(s, op) ==
  /\ ModuleFree /\ state[s] # "idle" /\ mcmd' = [slot |-> s, op |-> op]
  /\ UNCHANGED <<slots, entry, net, listen, open, play, mixed>>
GiveOrder ==
  /\ mcmd # NoOrder /\ mcmd' = NoOrder
  /\ oper' = [oper EXCEPT ![mcmd.slot] = mcmd.op]
  /\ UNCHANGED <<state, sock, film, entry, net, listen, open, play, mixed>>

--------------------------------------------------------------------------------
(* A player: playback_process.                                               *)

AtTop(i) == ~closing[i] /\ seeking[i] = "no"

PlayClose(i) ==
  /\ AtTop(i) /\ oper[i] = "close" /\ Close(i, i)
  /\ UNCHANGED <<listen, open, mcmd, seeking, mixed>>

\* The file is closed and opened anew, which takes seconds; if that fails the
\* session is closed; then the order is done with, whatever it is by then.
PlaySeek(i) ==
  /\ AtTop(i) /\ oper[i] = "seek" /\ film' = [film EXCEPT ![i] = FALSE]
  /\ seeking' = [seeking EXCEPT ![i] = "yes"]
  /\ UNCHANGED <<state, oper, sock, entry, net, listen, open, mcmd, closing, mixed>>
PlaySought(i) ==
  /\ seeking[i] = "yes" /\ film' = [film EXCEPT ![i] = TRUE]
  /\ oper' = [oper EXCEPT ![i] = "idle"] /\ seeking' = [seeking EXCEPT ![i] = "no"]
  /\ UNCHANGED <<state, sock, entry, net, listen, open, mcmd, closing, mixed>>
PlaySeekFailsIgnored(i) ==
  /\ seeking[i] = "yes" /\ seeking' = [seeking EXCEPT ![i] = "failed"]
  /\ UNCHANGED <<slots, entry, net, closing, listen, open, mcmd, mixed>>
PlaySeekFails(i) ==
  /\ seeking[i] = "yes" /\ seeking' = [seeking EXCEPT ![i] = "failed"] /\ Close(i, i)
  /\ UNCHANGED <<listen, open, mcmd, mixed>>
PlaySeekOver(i) ==
  /\ seeking[i] = "failed" /\ ~closing[i] /\ seeking' = [seeking EXCEPT ![i] = "no"]
  /\ oper' = [oper EXCEPT ![i] = "idle"]
  /\ UNCHANGED <<state, sock, film, entry, net, listen, open, mcmd, closing, mixed>>

\* The end of the last file, an error, or a write that fails; a frame read and
\* written changes nothing here.
Plays(i) == AtTop(i) /\ state[i] = "ok" /\ oper[i] = "idle"
PlayEnds(i) ==
  /\ Plays(i) /\ Close(i, i)
  /\ UNCHANGED <<listen, open, mcmd, seeking, mixed>>

--------------------------------------------------------------------------------
ListenThread ==
  \/ Select \/ Scan \/ RecvCommand \/ RecvShort \/ RecvEnd \/ StopConnect
  \/ (~closing[Listener] /\ Refuse) \/ ConnectOK \/ \E c \in Client : Accept(c)
OpenSteps(p) ==
  \/ Find(p) \/ Mark(p) \/ File(p) \/ OpenFailed(p)
  \/ Wipe(p, target[p])
ModuleThread == ConnectPeer \/ StartAnswered \/ GiveOrder
Player(i) ==
  \/ PlayClose(i) \/ PlaySeek(i) \/ PlaySought(i) \/ PlaySeekFails(i) \/ PlaySeekOver(i)
  \/ Wipe(i, i)

Next ==
  \/ \E c \in Client : Ask(c)
  \/ \E c \in Party : HangUp(c)
  \/ \E j \in Entry : Expire(j)
  \/ ListenThread \/ ModuleThread \/ StartCommand
  \/ \E p \in Opener : OpenSteps(p)
  \/ \E s \in Slot, op \in Oper : OrderCommand(s, op)
  \/ \E i \in Slot : Player(i) \/ PlayEnds(i)

Spec == Init /\ [][Next]_vars

--------------------------------------------------------------------------------
(* Properties.                                                               *)

\* A player that reads has its file open, whatever clients, the module thread
\* and the twelve hours do to its session meanwhile: a seek that fails, an end
\* and a close never leave it playing without.  Except in a slot that two
\* openers had at once, which nothing prevents (mixed).
FilmUnderPlayer ==
  \A s \in Slot : Plays(s) /\ s \notin mixed => film[s]
================================================================================
