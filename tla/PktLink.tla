---------------------------------- MODULE PktLink ----------------------------------
(* One connection and the packets on it, as gt_com_api.c sends and receives   *)
(* them over net_write_buf and net_read_buf of gtsocket.c.  A connection is   *)
(* written by more than one thread (the gate thread sends reports on the      *)
(* descriptor on which the ack thread answers commands) and nothing keeps     *)
(* their packets apart.  The receiver has a timeout of three seconds on every *)
(* read: a read that gets nothing in that time gives the call up and the      *)
(* caller starts on a new packet, one that gets a part of what it asked for   *)
(* is taken for complete, the rest being what the buffer held before.         *)
(*                                                                            *)
(* A packet is cut where the receiver reads it: the sync head, the head, the  *)
(* message, its checksum, the tail.  Head, message and tail have two cells,   *)
(* so that a read can end between them.                                       *)
EXTENDS Naturals, Sequences

CONSTANTS
  Writer,       \* threads that send on the connection
  Message,      \* what packets carry
  Long,         \* those of them that exceed the receiver's buffer
  MaxSent,      \* bound: packets begun on one connection
  Room          \* bound: cells under way

VARIABLES
  state,        \* "open", "hung": the sender closed it, "closed": the receiver did
  stream,       \* cells written and not yet read
  todo,         \* of each writer, the cells of its packet that it still has to write
  calling,      \* the receiver is in gt_cmd_pkt_recv_env
  call,         \* what the call has in its buffer
  number,       \* history: the packet whose message was read last
  begun,        \* history: the packets' messages, and which were written whole before
  whole,        \* history: packets written whole
  trouble,      \* history: "crossed": two writers' packets, "paused": -EAGAIN inside one
  taken         \* history: packets delivered to the caller, and as what

vars == <<state, stream, todo, calling, call, number, begun, whole, trouble, taken>>

\* The cells of a packet with message m.  Sync head and tail are constants; the
\* head, with a checksum of its own, says the message's length and no more.
Cell(p, h, of) == [part |-> p, half |-> h, of |-> of]
HeadOf(len) == <<Cell("head", 1, len), Cell("head", 2, len)>>
MsgOf(m)    == <<Cell("msg", 1, m), Cell("msg", 2, m)>>
CrcOf(m)    == <<Cell("crc", 1, m)>>
SyncHead    == <<Cell("sync", 1, "any")>>
PktTail     == <<Cell("tail", 1, "any"), Cell("tail", 2, "any")>>
Packet(m)   == SyncHead \o HeadOf(IF m \in Long THEN "long" ELSE "short")
                 \o MsgOf(m) \o CrcOf(m) \o PktTail
Cells == UNION {{Packet(m)[i] : i \in 1..8} : m \in Message}

\* The cells that the reads for the parts of a packet have got when they are full.
Full == {1, 3, 5, 6, 8}

Init ==
  /\ state = "open" /\ stream = <<>>
  /\ todo = [w \in Writer |-> <<>>]
  /\ calling = FALSE /\ call = <<>> /\ number = 0
  /\ begun = <<>> /\ whole = {} /\ trouble = {} /\ taken = <<>>

------------------------------------------------------------------------------
(* The senders *)

\* gt_cmd_pkt_send.
Begin(w) ==
  /\ state # "hung" /\ todo[w] = <<>> /\ Len(begun) < MaxSent
  /\ \E m \in Message :
       /\ todo' = [todo EXCEPT ![w] =
                     [i \in 1..8 |-> [data |-> Packet(m)[i], no |-> Len(begun) + 1]]]
       /\ begun' = Append(begun, [msg |-> m, before |-> whole])
  /\ UNCHANGED <<state, stream, calling, call, number, whole, trouble, taken>>

\* net_write_buf: write takes what there is room for, and the loop goes on.
Write(w) ==
  /\ state = "open" /\ todo[w] # <<>> /\ Len(stream) < Room
  /\ stream' = Append(stream, Head(todo[w]))
  /\ todo' = [todo EXCEPT ![w] = Tail(@)]
  /\ whole' = IF Len(todo[w]) = 1 THEN whole \union {Head(todo[w]).no} ELSE whole
  /\ trouble' = IF \E v \in Writer \ {w} : Len(todo[v]) \in 1..7
                THEN trouble \union {"crossed"} ELSE trouble
  /\ UNCHANGED <<state, calling, call, number, begun, taken>>

\* The receiver is gone: an error, and the rest of the packet is not written.
WriteFails(w) ==
  /\ state = "closed" /\ todo[w] # <<>>
  /\ todo' = [todo EXCEPT ![w] = <<>>]
  /\ UNCHANGED <<state, stream, calling, call, number, begun, whole, trouble, taken>>

\* The sending side closes the connection, in the middle of a packet perhaps.
HangUp ==
  /\ state = "open" /\ state' = "hung"
  /\ todo' = [w \in Writer |-> <<>>]
  /\ UNCHANGED <<stream, calling, call, number, begun, whole, trouble, taken>>

\* The next connection.
Connect ==
  /\ state = "closed" /\ \A w \in Writer : todo[w] = <<>>
  /\ state' = "open" /\ stream' = <<>> /\ number' = 0
  /\ begun' = <<>> /\ whole' = {} /\ trouble' = {} /\ taken' = <<>>
  /\ UNCHANGED <<todo, calling, call>>

------------------------------------------------------------------------------
(* The receiver *)

\* select found the descriptor readable.
Call ==
  /\ state # "closed" /\ ~calling /\ (stream # <<>> \/ state = "hung")
  /\ calling' = TRUE
  /\ UNCHANGED <<state, stream, todo, call, number, begun, whole, trouble, taken>>

\* What is tested when the buffer has c and the read for a part has ended.
Passes(c) ==
  CASE Len(c) = 1 -> c = SyncHead
    [] Len(c) = 3 -> SubSeq(c, 2, 3) = HeadOf("short")
    [] Len(c) = 8 -> /\ SubSeq(c, 7, 8) = PktTail
                          /\ \E m \in Message : SubSeq(c, 4, 6) = MsgOf(m) \o CrcOf(m)
    [] OTHER      -> TRUE

\* The call ends with an error, on which the caller closes the connection,
\* with -EAGAIN, on which it goes on, or with a packet.
FailResyncs == calling' = FALSE /\ call' = <<>> /\ UNCHANGED <<state, taken>>  \* mutant
Fail    == calling' = FALSE /\ call' = <<>> /\ state' = "closed" /\ UNCHANGED taken
Again   == calling' = FALSE /\ call' = <<>> /\ UNCHANGED <<state, taken>>
Take(c) == calling' = FALSE /\ call' = <<>> /\ UNCHANGED state
           /\ taken' = Append(taken, [no |-> number, msg |-> SubSeq(c, 4, 5)])

PartRead(c) ==
  IF ~Passes(c) THEN Fail
  ELSE IF Len(c) = 8 THEN Take(c)
  ELSE call' = c /\ UNCHANGED <<state, calling, taken>>

\* net_read_buf: one more cell.
Read ==
  /\ calling /\ stream # <<>> /\ stream' = Tail(stream)
  /\ LET c == Append(call, Head(stream).data)
     IN  IF Len(c) \in Full THEN PartRead(c)
         ELSE call' = c /\ UNCHANGED <<state, calling, taken>>
  /\ number' = IF Len(call) = 3 THEN Head(stream).no ELSE number
  /\ UNCHANGED <<todo, begun, whole, trouble>>

\* Three seconds without a byte.  A read that got nothing makes the call
\* return -EAGAIN: what the call had is gone and the caller goes on.
ReadsNothing ==
  /\ calling /\ stream = <<>> /\ state = "open" /\ Len(call) \in Full \union {0}
  /\ Again
  /\ trouble' = IF call = <<>> THEN trouble ELSE trouble \union {"paused"}
  /\ UNCHANGED <<stream, todo, number, begun, whole>>

\* A read that got a part returns that.  The head's reader tests for it; for
\* the others the rest is what an earlier packet left in the buffer.
ReadsShort ==
  /\ calling /\ stream = <<>> /\ state = "open" /\ Len(call) \notin Full \union {0}
  /\ IF Len(call) = 2 THEN Fail
     ELSE \E left \in Cells : PartRead(Append(call, left))
  /\ UNCHANGED <<stream, todo, number, begun, whole, trouble>>

\* read returns 0: the connection is closed, whatever the call had.
ReadsEnd ==
  /\ calling /\ stream = <<>> /\ state = "hung"
  /\ Fail
  /\ UNCHANGED <<stream, todo, number, begun, whole, trouble>>

Next ==
  \/ \E w \in Writer : Begin(w) \/ Write(w) \/ WriteFails(w)
  \/ HangUp \/ Connect
  \/ Call \/ Read \/ ReadsNothing \/ ReadsShort \/ ReadsEnd

Spec == Init /\ [][Next]_vars

------------------------------------------------------------------------------
TypeOK ==
  /\ state \in {"open", "hung", "closed"} /\ calling \in BOOLEAN
  /\ stream \in Seq([data : Cells, no : 1..MaxSent]) /\ Len(stream) <= Room
  /\ todo \in [Writer -> Seq([data : Cells, no : 1..MaxSent])]
  /\ call \in Seq(Cells) /\ Len(call) < 8 /\ (~calling => call = <<>>)
  /\ number \in 0..MaxSent /\ whole \subseteq 1..Len(begun)
  /\ trouble \subseteq {"crossed", "paused"}
  /\ begun \in Seq([msg : Message, before : SUBSET (1..MaxSent)])
  /\ taken \in Seq([no : 1..MaxSent, msg : Seq(Cells)])

\* No packet is repeated or altered, and none is left out or put after a later
\* one: a packet that was written whole before another was begun reaches the
\* receiver's caller first, if the other one does.  A pause, a part of a packet or
\* another thread's bytes in the middle cost the connection, never a packet out
\* of the middle; only where two threads' packets cross and the receiver gives up
\* inside them can the heads of the lost ones use up what was left of them, and
\* the connection go on.  gt_cmd_pkt_recv_env, gt_com_api.c:370-484.
NothingSkipped ==
  LET Before(i) == {taken[j].no : j \in 1..(i - 1)}
  IN  \A i \in DOMAIN taken :
        /\ taken[i].msg = MsgOf(begun[taken[i].no].msg)
        /\ taken[i].no \notin Before(i)
        /\ trouble # {"crossed", "paused"} => begun[taken[i].no].before \subseteq Before(i)
==================================================================================
