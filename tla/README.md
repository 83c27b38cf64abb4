# Specifications of the IAG1000 device program

TLA+ models of the core of the IAG1000 network video device (`src/`), the TLC
configurations that check them, and TLAPS proofs about them.

## 1. The system

`ipmain.c` starts one process with many threads; the encoder processes
reach it through shared memory. The parts, their state and how they interact:

| part | files | state | operations | interacts with |
|---|---|---|---|---|
| gateway link | `gate_connect.c` | gate slots (`gate_list[].fd`, a mutex each), the ack thread's id, a SysV queue | send a packet, connect a gateway, read its answers, readdress a slot | every thread queues packets; commands read by the ack thread go to `process_netcmd` |
| frame pool | `gtipcs/mshmpool.c`, `mshm.c` | shared memory: element ring, block ring, user table; a semaphore per user | create, add a frame, register, read (two ways), move, delete, reactivate | encoder process writes, the server's threads read |
| registration and reports | `devstat.c`, `netcmdproc.c`, `watch_board.c`, `watch_process.c`, `alarm_process.c` | four flags and timers under a mutex, inputs and last alarm without one | watch the inputs, send, send again, acknowledge, answer a query | sends through the gateway link, is acknowledged by its ack thread |
| remote commands | `netcmdproc.c` | parameters, clock, gate addresses | one handler per command | called by the threads of the command server and the ack thread |
| command server | `mainnetproc.c` | accept mutex, busy count | eight threads accept, answer BUSY, dispatch | remote commands |
| live av server | `net_avstream.c`, `avserver.c` | user list, two counters, one write error flag | accept, subscribe, send, drop | frame pool, commands |
| audio to the device | `net_aplay.c` | user count, an entry per thread | accept, subscribe, hand frames to the decoder | audio driver |
| playback | `playback_*.c` | table of sessions, table of watched connections | open, seek, play, close | files |
| files and parameters | `remote_file.c`, `ipmain_para.c`, `iniparser.c`'s saving | parameter file, its backup, its lock, a temporary directory | save a setting, send to the gateway, read, write, restart | commands, gateway link |
| packet format | `gtcomapi_ssl/`, `gtsocket.c` | the receiver's buffer | send, receive, check | both ends of every connection |
| module messages | `modcom/`, `modsocket/` | SysV queues, a multicast socket | send, receive | gateway link, playback |

What is hard, and the property that makes each part correct:

* **gateway link**: three kinds of threads share slots and descriptor numbers;
  a slot is checked, released and used again. One gateway at a time; a slot never
  names a closed or reused descriptor; a dead connection leaves its slot.
* **frame pool**: a producer that overwrites, readers that lag, die or sleep, and a
  producer that restarts under them. Blocks accounted for; no frame read in
  pieces of two; no lost wake-up; no frame twice.
* **reports**: acknowledgements that name no report, lost packets, two senders, a
  registration that comes and goes. A raised flag is true; each report gets
  through.
* **live av server**: a thread per user, counters and entries under two mutexes, and
  a sender that walks the entries while they change hands. Counts are honest; a
  frame goes only to the subscriber it was tested for; every client is let in or
  told busy.
* **command server, audio to the device**: busy counts read outside their mutex;
  silent clients; clients whose stream does not begin as expected. One
  thread is left to answer; whole frames reach the decoder.
* **playback**: three kinds of threads in the fields of a session with no lock. A
  player that reads has its file.
* **parameters**: a file that many threads rewrite and one compares, copies and sends
  without the lock; restarts. No setting is lost; what will not be sent is known.
* **packets**: several writers on one descriptor, receive timeouts inside a packet.
  Nothing out of the middle is left out silently.

`PROJECT.json` lists every component with its status and every hazard with the
line it bites at.

## 2. Modules

| module | models | composed with |
|---|---|---|
| `GateConnect` | the gateway link | queue of `mod_com.c`, registration flag of `devstat.c` |
| `GateConnectProofs` | theorems about it | extends `GateConnect` |
| `FrameStream` | what the pool promises the readers it follows: abstract specification | implemented by `ShmPool` |
| `ShmPool` | the frame pool | `Stream == INSTANCE FrameStream` |
| `ShmPoolProofs` | theorems about it | extends `ShmPool` |
| `DevReport` | registration and reports | a link that abstracts the gateway link: ordered, lossy |
| `DevReportProofs` | theorems about it | extends `DevReport` |
| `Admission` | what a server promises the clients that connect: abstract specification | implemented by `AvServer` and `AplayServer` |
| `AvServer` | the live stream server: command threads, user list, sender | `Door == INSTANCE Admission` |
| `AvServerProofs` | theorems about it | extends `AvServer` |
| `AplayServer` | the audio playback server and a client's stream of frames | `Door == INSTANCE Admission` |
| `CmdServer` | the command connection server | |
| `ServersProofs` | theorems about `CmdServer` and `AplayServer` | extends `MCServers` |
| `Playback` | the sessions of the playback process | |
| `PlaybackProofs` | theorems about it | extends `Playback` |
| `Para` | the parameter file | |
| `PartsProofs` | theorems about it, and about the parts side by side | extends `MCParts` |
| `PktLink` | packets on one connection | |
| `PktLinkProofs` | theorems about it | extends `PktLink` |
| `MCGateConnect`, `MCShmPool`, `MCShmPlace`, `MCDevReport`, `MCAvServer` | instances for TLC | |
| `MCServers` | instance of `CmdServer` and `AplayServer`, one at a time | |
| `MCReports` | two instances of `DevReport`, one at a time | extends `MCDevReport` |
| `MCParts` | instance of `Playback`, `Para`, `PktLink` and `DevReport`, one at a time | instantiates the modules with their theorems |

`MCShmPool`, `MCReports`, `MCServers` and `MCParts` hold several instances and a variable `which`
that names the one that is explored and never changes; the others, each with variables of
their own, stay as they start. What they put side by side shares no state in the code. The alarm and
the input reports do share the gateway's link, which in the model may lose any packet,
so that what one can do to the other happens to each anyway.

### GateConnect

`gfd[g]` is `gate_list[g].fd`; `sock[fd]` says what the kernel has under a
number. The gate thread (`gtPc`) takes a message (`GateRecv`), looks at the
slots one by one (`GateFind`, each look one critical section), connects
(`GateConnectOk`, `GateConnectFail`: the slot's mutex is held over the connect;
`connect_to_gate`'s test for a connected slot never holds, as the proofs show), sets the flag (`GateFlag`) and sends (`GateSend`). The ack thread
(`ackPc`) runs `AckStart`, `AckRecv`..., and on any failure lingers for the
twenty seconds, then `AckRetire` (slot and descriptor), `AckUnregister`,
`AckClear` (its id), in the code's order; when its select fails, the slot is
cleared (`AckSelectClear`) before the descriptor is closed (`AckSelectClose`). The environment sends packets, closes
connections, opens and closes other descriptors, and readdresses slots
(`SetGateIp`).

The slots are unprotected against `set_gate_ip` dropping a connection somebody
has copied: the properties about descriptors hold until it has happened
(`deposed`). AtMostOneGate, EmergencyOnlyForAlarms and DeadLinkLeavesSlot hold
regardless.

### ShmPool

Each section under the pool's lock is one action; semaphore calls and the
unlocked reads of `MShmPoolGetPacket`'s test for a new pool (`PacketPeek`: head, then
tail, then the place) and of its loop (`PacketLoop`) are steps of their own. A frame is the
number of blocks it needs; `data[b]` remembers which frame a block holds, so
that reading a torn frame can be seen. `Create` is the restarted producer,
`Crash` a reader that dies outside the lock. `steady[r]` is true while nothing
but its own successful reads moved the reader's user (no strike, deletion, move,
restart).

A user that was struck off keeps its number in the reader that had it, which reads on
under it when somebody else has been given the number. Such a reader is not `steady`,
and what one of the two reads the other misses. What the code still keeps for them is
said of the number: `counted[u]` is true from the registration while the user misses no
frame, and `NumberCountsFrames` says that then the place, the semaphore and the
semaphores its readers have in hand add up to the tail, so that each frame goes to one
of them. It holds because `MShmPoolReq` sets the place and the semaphore together
(the mutant leaves the semaphore as the struck reader left it); it is not claimed when
that reader has a semaphore in hand at the moment of the registration.

`FrameStream` knows nothing of rings, blocks, users and semaphores: frames are
numbered, and a reader that is followed stands at the frame it is due. `Stand(r)`
reads that off the pool: a reader is followed while it is `steady` and has used one
call only, and what it is due comes from the distance (`Lag`) of its place from the tail.
`FramesInTurn` says that the pool implements it: every frame is given once and in its
turn, with the three exceptions the code has. A reader of GetResource is given the
newest instead of the next when the pool has gone around and looks as if it were
new (`Skip`). A reader of GetPacket may be sent to the newest (`Turn`), and it may be
lapped (`Lapped`). A reader may be lost (struck off, or moved by somebody else), and
is promised nothing until it joins again.

### DevReport

Four kinds of report: registration, state, alarm, inputs. `flag` and `timer` are
those of `devstat.c`. Packets carry the version of the inputs they were made
from; the code's acknowledgements name no version, so in the model it is history
that `UsrAckCmd` never reads. The watch-board thread and the watch-process thread go
through read, lower the flag, send, as separate steps, and so does the thread of a
gateway's connection, which sends the state before its first read when the parameter
file has changed (`GwState`, `GwStateFlag`, `GwStatePost`): it takes no
acknowledgement meanwhile. The comparison of
`send_dev_state` includes a word nothing wrote, so an unchanged state may or may
not be sent.

`Reports` says which of the kinds are in sight in a run; the others are
acknowledged when sent. The kinds share only the registration and the order of
the link.

### Admission, AvServer, AplayServer

`Admission` says only where each client is: away, waiting, inside or turned away
with a busy answer; it is admitted when its class has room and turned away only when
it has none. Both servers implement it (`AdmitsAsPromised`) under the mapping
`Where`, which reads a client's place off the thread that has its connection.
`CmdServer` does not implement it: two threads that accept at the same moment
count themselves before either tests, and both may refuse although one place is free.

In `AvServer` a thread (`pc`) takes the listening mutex, accepts
(`Accept` holds `init_av_usr_info` and `add_av_usr_list`, which run under the server's
mutex), serves and leaves (`Delete`, `DeleteUsr`, `Close`). Entries keep the
fields of `av_usr_t` that the sender looks at. The write error flag is tested (`Cut`) and put down (`PutDown`) without a
lock, by any thread. The sender is `Test` (serv_stat
without the mutex), `Lock`, `Written` or `WriteFails`. `Blocks` is the window in
which a command thread has made the socket blocking. A failed accept leaves the
entry marked used (`AcceptFails`), and the thread is lost.
Whether the sender can still be between its test and the mutex when the entry's
next client has subscribed depends on time: a thread sleeps a second before it
listens again. `SleepCovers` says it cannot; the mutant `ListenAtOnce`
drops that and breaks `StreamsToItsSubscriber`.

In `AplayServer` `sends[g]` is what of a client's stream is to be read next. A
frame without a START before it is read with a length nobody set (`Headless`); a
read that comes late loses its part and takes the rest for a new one (`Late`); a
client that leaves in the middle of a frame has the part handed on (`CutShort`).
`WholeFrames` therefore speaks of clients that begin with START and neither pause
nor leave.

### CmdServer

One action per step of `thread_main` between the points where other threads can
come in: the mutex, accept, the count under its own mutex, the test of the
count without it, the busy answer or the service, close, the count down. `quiet` is
`recv_cmd_timout`: the seconds of silence, counted only until the first
command, and not at all in a second in which something came, be it a packet in a wrong
envelope or an incomplete one. So the count is sure to run out for a client that
has fallen silent (`mute`) only, and `LostGuestsLeave` promises a thread back
from such a client before its first command, and from one that closed at any time. A
client that has sent a command and vanishes without closing keeps its thread for good. A failure of accept other than EINTR calls `exit(1)`: `down`, and
`Exited` is what is left.

### Playback

A slot's `state`, `oper`, `sock` and `film` are the session's fields
state, oper, socket, aviinfo. The listening thread (`lpc`) watches the
connections in `entry`; it and the module thread open slots (`opc`: `Find`, `Mark`,
`File`, then `ConnectOK` or `ConnectPeer`); a player per slot reads, seeks and
closes. Closing is two steps (`Close`, `Wipe`), seeking is three. Nothing is
locked, so all of them interleave freely. `Close` clears the watched entry with
the slot's number, as the code does, whether it is this session's or not; a
descriptor closed while it is watched makes select fail and accept block
(`Fails`, `Select`). A slot two openers found at once is `mixed`, and
`FilmUnderPlayer` speaks of the others. `playbackClose` of a slot beyond the
five entries writes outside the table; the model leaves that write out.

### Para

`file` and `bak` are the parameter file and the gateway's backup. A save is
`Load` (the lock, the dictionary), `Open` (fopen "w" empties the file) and `Dump`
(written out, unlocked). The gate thread compares (`Diff`), raises
the version, stamps, copies, packs and sends (`Version`, `Clear`, `Cp`, `Gzip`, `Post`,
`Tidy`) and copies the file to the backup (`Bak`), all but its saves without the
lock. Uploads are unpacked in the same temporary directory and set with the
program iniset (`Put`, `Gunzip`, `Iniset`). `Restart` may come anywhere.
Times are told only from the one in the backup; rm and mkdir are one step, and
so are dump and fsync. That the directory is removed before and after each use is so
where EMBEDED is 1 (remote_file.c:85-89, 157-161, 427, 472), which is what `ipmain.h:38`
sets for the device and what is modelled.

Files and programs fail: a file that cannot be loaded or opened (`SaveFails`), no room
for the dump (`Dump`), the comparison, the version, the copy to the backup, iniset
(`Diff`, `Version`, `Bak`, `Iniset`), each because of the state it finds or as
one of `MaxFaults` failures (`FailsFor`); a sending may fail at any time (`Post`). Hardly
anybody looks at these results, and `GoesOn` says how a caller of a save goes on. Of an
upload only what stores and unpacks it is tested (`Put`, `Gunzip`); `Answer` gives
its success whatever `Iniset` did, which `write_answered` shows.

### PktLink

A packet is eight cells: sync head, two of the head, two of the message,
checksum, two of the tail, so that a read can end inside each part that has more
than one byte to tell apart. Writers put cells on the stream in any
interleaving (`Write`); the receiver collects them in `call` and tests at the
points `gt_cmd_pkt_recv_env` tests. `ReadsNothing` is a timeout at the start of a part
(-EAGAIN, and the caller goes on with a new packet), `ReadsShort` one inside
a part (what was in the buffer before stands for the rest). The checksums
tell a message from any other.

## 3. Runs

| run | shows | bounds |
|---|---|---|
| `gate_link` | all of GateConnect's invariants, action properties and liveness | 2 gateways and the emergency server, 2 descriptors, queue of 1 |
| `gate_served` | violation: a connection without a reader | same |
| `gate_emergency` | violation: emergency server first | same |
| `shm_pool` | accounting, intact frames, semaphores, wake-ups; frames in turn: `FrameStream` implemented; a number that two readers have | 5 slots, 4 blocks, 6 frames; calls: 1 reader, both calls, frames of 1 and 3 blocks; users: 2 readers for 1 number, GetResource, frames of 1 block |
| `shm_place` | violation: slot -1 | 1 reader |
| `reports` | the inputs get through, and their flag is honest; registration, state and alarm get through | inputs: 1 input, 2 events; alarms: 1 input, 1 event |
| `alarm_new` | violation: alarm for a release | 2 inputs |
| `av_server` | honest counts, frames to their subscriber, every client answered, `Admission` implemented | 2 lan clients for one place and 1 wan client for none, 1 failed accept, 2 threads |
| `av_cut` | violation: the wrong client is dropped | 2 lan clients, 2 places |
| `servers` | command server: busy count, spare thread, clients that close or fall silent leave, every client answered; audio server: whole frames, every client answered, `Admission` implemented | 3 clients, 2 threads, patience 2; 2 clients, 1 place |
| `parts` | playback: a file under every player; parameters: saves, sending; packets: nothing skipped; reports: the alarm flag is honest | playback: 1 slot, 2 entries, 2 descriptors, a client and a peer; parameters: 2 command threads, 2 requests, 1 key, versions to 2, 1 failure; packets: 2 writers, 3 packets, 1 cell under way; alarms: 2 inputs, 2 events |
| `write_answered` | violation: an upload answered with success that is not set | same |

Why the bounds are enough: three slots give a search that passes unconnected
slots, a retry and the emergency server; two descriptors give reuse, which
happens with the first one released; a second queued message would only wait. In the
pool the element ring wraps within six frames and the block ring within two; a frame of
three blocks fails unless the ring is empty, and empties it, as a failed add does; `MaxSem` 1 lets a user
lag and be struck off, and a number is enough for it to be given to a second reader at once. In the reports a timer of one tick fires on the second;
two events give an alarm overtaken by another. A full link costs the oldest
packet, a loss that may happen anyway; without it the bound itself could block a
report for ever.

In the servers the second client finds the place taken and the third (or the other
class) finds none at all; threads outnumber places by one as in the code. One
slot is enough for playback, because every slot can be opened by both openers and each
has a player of its own; two entries and descriptors give one of the session and
one of another connection, with reuse. Two requests suffice to disturb any step of
the gate thread or of the first request; a third would disturb the second in the
same way. One failure can meet any step of any of them, and none of them is
undone by a second. With three packets one can be lost between two that arrive; a stream of
one cell lets the receiver run dry between any two cells.

Fairness. GateConnect: both threads run on; `AckRecvError` is assumed only for a
connection that is dead, since `recv` then returns; nothing is assumed of
gateways, users and other threads. DevReport: both loops run on (they sleep a
second and do not block: sends are `IPC_NOWAIT`), and so does the connection's thread; a packet of a kind that is
sent again and again is delivered at last, and so is an acknowledgement, which
is what resending means to rely on. There is no fairness on events.
AvServer, CmdServer, AplayServer: threads that wait for nothing go on, and clients are
accepted in the order in which they came (strong fairness of accept per client: the
backlog is a queue, and a failed or interrupted accept is taken up
again). The sender holds the mutex of an entry only while it writes and then reads the
next frame, so a thread that waits for that mutex gets it (strong fairness of
`DeleteUsr`). In CmdServer a read finds the end of a connection that was closed, and
the seconds of a client that is `mute` are counted; nothing is assumed of the seconds of one
that may still send. Nothing is assumed of clients: they may be silent or stop reading
for ever, and the properties name what then is excused (`Lost`, `blocked`, `down`).
Playback, Para and PktLink have safety properties only.

Beside some definitions stands a faulty variant (`PostAlways` before `Post`,
`LowerKept` before `Lower`, ...), which no action uses: put in the definition's
place it must make the property that `PROJECT.json` lists with it fail, which shows that
the property watches that piece of code.

### Disagreements between the code and its comments

* The ack thread frees its slot before its id; a connection made in between has
  no reader (`ConnectionServed`, gate_connect.c:902-913).
* Target -2 tries the emergency server first, not last (`EmergencyLast`).
* `tail-1` of an empty pool is slot -1 (`PlaceInRing`).
* An alarm is sent when one of two triggered inputs is released
  (`AlarmsForNewTriggers`).
* "write data error! disconnect peer" drops a client whose connection is well
  (`OnlyTheFailedIsCut`, net_avstream.c:757-764).
* "Written successfully" is where success is answered to an upload, whether the settings
  were set or not: nobody looks at the result of the program iniset
  (`WritesTakeEffect`, remote_file.c:130-133 and 198-199).

Conditions that TLC showed to be needed, each a behaviour of the code that a reader
should know of. `NothingSkipped` excuses a connection on which two writers'
packets crossed and the receiver also timed out inside them: then a packet can
disappear while the connection goes on. `UnsentIsKnown` excuses a sending that
failed (the gate thread does not look at the result) or was not stamped, that a save
came between, or whose directory another request removed, and a file lost in a save
since. `StreamsToItsSubscriber` rests on the second of sleep.
`FramesInTurn` allows that a reader of GetPacket is lapped by the producer. That
call throws its semaphores away, so that the pool never sees the reader lag; a failed
add then empties the ring under it, it wakes with its place behind and nothing to take, and
the producer goes around. A reader of GetResource is never lapped.
`AlarmFlagHonest` needs its condition `crossed`: when an alarm follows another
that is not yet acknowledged, the late acknowledgement of the first raises the
flag while the second is still under way or lost.

## 4. Proofs

`GateConnectProofs` proves for every number of slots, descriptors and messages:

* `TypeCorrect`: `Spec => []TypeOK`.
* `OneGate`: `Spec => []AtMostOneGate`. AtMostOneGate alone is not
  inductive: the gate thread connects a slot long after it looked at the others.
  The strengthening says that while the thread searches, the slots it has passed
  are unconnected, and while it connects all are: nobody but the gate thread fills
  a slot, so slots seen empty stay empty.
* `EmergencyForAlarms`: only an alarm opens the emergency server. The
  invariant relates the slot being tried to the target: an ordinary message's
  attempts stay below the emergency slot.

* `SlotsOpen`, `OwnSocketRead`, `Backoff`, `ForeignKept`: the descriptor
  properties. They share one invariant, `OwnInv`: until `deposed`, the ack
  thread's descriptor is the connected slot's from its start to the end of its
  sleep. With `OneGate` no other slot is connected, so what it closes at the end is
  its own; and a connect, which finds every slot unconnected, never meets a
  sleeping ack thread.

They rest on the assumptions about the constants in `GateConnect` only.

`ServersProofs` proves of `CmdServer`, for every number of threads, clients and seconds:

* `BusyCountHonest`: `Spec => []BusyHonest`; the count changes in the same step as
  the set of threads it counts, by one element of a finite set.
* `AThreadIsSpare`: `Spec => []OneThreadSpare`. The invariant orders the threads in
  service by the count each one saw: were all threads to serve, the last to count
  itself would have found all of them counted. It is stated as: whenever all threads
  are counted, one of them has not passed its test or was refused.
* `TypeCorrect`: `Spec => []TypeOK`, which needs `BusyHonest` to bound the count.

`ShmPoolProofs` proves for every number of readers, users, slots and blocks:

* `NumbersCount`: `Spec => []NumberCountsFrames`, also for a number that a struck reader
  and the next one have at the same time, any number of times over. The
  invariant (`UserCounts`) adds that the user is in use and that no more than `MaxSem`
  frames wait for it, which is why it is not struck off and the tail does not come around
  to its place.
* `SemaphoreCounts`, `WakeupsKept`, `ReadsForward`: `SemCountsFrames`, `NoLostWakeup` and
  `NeverBackwards` (no run lists the last: a repeated frame breaks `FramesInTurn` too).
  The invariant says of the user of a steady reader that it is in use, that no
  more than `MaxSem` frames wait for it, and that no other reader has its number
  (`AllMine`). A slot's distance behind the tail gives its element's number
  (`Numbered`), and a producer that wraps or drops keeps it so. For a
  reader that uses one call, its place is then known (`Counted`: the pending
  frames reach from the place to the tail; `Ahead`: what it took last is no newer than
  what is at its place), and whenever it waits below the tail its semaphore is up
  (`Wakes`).

* `BlocksKept`, `FramesIntact`, `TypesKept`: `BlocksAccounted`, `ElementsIntact` and
  `TypeOK`. Neither of the first two is inductive: that the numbers of blocks add up
  does not say where the blocks are. The invariant (`Laid`) does: going around from
  `fbstart`, the ring of blocks has the free ones first and then those of the elements
  from the oldest to the newest, and one block is always free. `Add` drops as many of
  the oldest as it needs (`Drops`), which lengthens the free part at its end, and writes
  at its beginning, so that what it overwrites is free. Sums of blocks (`Held`,
  `Total`) are recursive functions, of which lemmas say what adding and dropping an
  element does.

* `PoolStreams`: `Spec => FramesInTurn`, the refinement. The invariant (`AllStand`)
  says that the tail is where the number of frames puts it, that a reader in the midst of
  taking takes from its place, and that no lag is longer than the frames there have been. A
  step changes a reader's lag by one or by the length of the ring. With GetResource the lag is
  the number of pending frames (`Counted`), which `Mine` keeps below the ring's
  length: so only a reader of GetPacket is lapped. A place that is `NearStart` in a
  ring that has gone around is the remainder of the number of frames, which is how
  `Skip` is known to happen nowhere else.

They rest on the assumptions in `ShmPool`, of which `MaxEle > 2 * (MaxSem + 1)` matters
most: a user is struck off long before the producer could wrap around to its place.

`DevReportProofs` proves for every number of inputs, events, packets under way and ticks:

* `TypeCorrect`: `Spec => []TypeOK`; the strengthening says that there are no more
  versions of the inputs than events that have happened.
* `InputsHonest`: `"trigin" \in Reports => (Spec => []TriginFlagHonest)`. The
  invariant says that, until two reports cross, the versions under way do not go
  back, the gateway has heard none newer and acknowledged none newer than it heard; once
  the watch-board thread has lowered the flag for the last version, nothing else is
  under way. So an acknowledgement that raises the flag was given for the last.
* `AlarmsHonest`: the same of `AlarmFlagHonest`, where the last alarm is
  `lastAlarm` and the gateway remembers all alarms it heard, so that no order is
  needed. `parts` checks it for two inputs.

They hold for whatever the link loses: a lemma says what is left of a sequence from
which elements are taken (`From`), and every loss is of that kind.

`AvServerProofs` proves for every number of users of both classes and every set of
clients:

* `CountersHonest`: `Spec => []CountsHonest`. The strengthening (`Seated`) says who
  sits where: a thread has a client from accept to close, no two threads the same
  one, and the entry names it from its counting to its clearing.
* `ImplementsAdmission`: `Spec => AdmitsAsPromised`, the refinement. The clients
  inside, by class, and the threads counted for them correspond one to one, so a
  class has room exactly when its counter is below its limit; each step of the
  server is then one move of one client, or none.
* `StreamsRight`: `SleepCovers => (Spec => []StreamsToItsSubscriber)`. A
  subscription belongs to the client of its thread, and the entry the sender has tested gets no
  other client before the sender has left it; the assumption is used in `Listen` only.
* `TypeCorrect`: `Spec => []TypeOK`. The bounds of the two counters come from
  `CountsHonest`, and that a thread has an entry from `Seated`.

`ServersProofs` proves of `AplayServer` under `Sane`, which says of the constants what the code
makes sure of (the number of users is a number, `None` names nobody):

* `ImplementsAdmission`: `Sane => (Spec => AdmitsAsPromised)`, the same refinement
  with one class of clients and without a user list: the threads in `serve` and `del`
  are the clients inside, one to one.
* `FramesWhole`: `Sane => (Spec => []WholeFrames)`. The invariant says that a client's
  history begins at its connection, that one that left is no longer steady, and that the
  thread of a steady client whose START is gone does not wait for a START again:
  that is what `first_audio_flag` must have kept, from one client to the next.
* `AplayTypesCorrect`: `Sane => (Spec => []TypeOK)`.

`PlaybackProofs` proves for every number of slots, entries, descriptors, clients and
peers, under `Sane` (there is a slot, and the sizes are numbers):

* `TypeCorrect`: `Sane => (Spec => []TypeOK)`; a thread that carries out a command is at one
  of the entries.
* `PlayersHaveFilms`: `Sane => (Spec => []FilmUnderPlayer)`. Three kinds of threads write
  to the fields of a session without a lock, so that the invariant must say who can still
  do what to a slot that is not `mixed`: at most one opener has it (`One`), a slot that
  somebody holds is in use (`Used`), and from the opening of its file until the slot
  is cleared the film is there or the slot's player is closing or seeking (`Filmed`).

`PartsProofs` proves of `Para`, for every number of threads, keys, versions and requests:

* `SavesAreSerial`: `Spec => SettingsKept`, from the mutual exclusion of the threads
  in a save (a thread between load and dump holds the lock) and from: the
  dictionary of a thread before its open is the file with its settings on top. A save
  that fails before its open changes nothing; one that fails in its dump leaves an
  empty file, which the property allows.
* `TypeCorrect`: `Spec => []TypeOK`.
* `WhatIsNotSentIsKnown`: `Spec => []UnsentIsKnown`. The invariant (`KInv`) says who
  does what (`Roles`); that a file on its way to the gateway bears a stamp that the
  backup has not (`Stamped`); that what is copied, packed and posted is the file, or
  `missed` or `shared` records that it is not (`Sends`); and that between sendings the
  gateway either has what the backup has, or the file differs from the backup and
  every write on its way will leave it so (`Knows`, `Ahead`): a setting bears no stamp,
  and the stamp of the backup is never given again.

They rest on `ParaAssumption`: the gate thread is none of the command threads, and
`None` is neither a thread nor a content, and the bounds are numbers.

`PartsProofs` also proves what the run `parts` checks, from the theorems of the modules
that `MCParts` instantiates: its specification implies each part's own, since a step of
one leaves the others as they are (`PartsRun`). `PartsTypesCorrect`, `PartsFilms`,
`PartsAlarms` and `PartsPackets` are `AllTypeOK`, `FilmUnderPlayer`, `AlarmFlagHonest`
and `NothingSkipped` under `PartsSane`, which holds the sizes to numbers. The theorems of
`ServersProofs` use the names of `MCServers` and speak of each server's own specification.

`PktLinkProofs` proves for every number of writers, messages and packets and any room
between the two ends, under `Sane` (the two bounds are numbers):

* `TypeCorrect`: `Sane => (Spec => []TypeOK)`.
* `PacketsInOrder`: `Sane => (Spec => []NothingSkipped)`. The invariant (`PInv`) first
  says what is under way: cells of packets that were begun, those of one packet in their order,
  and none behind a cell of a packet begun later if the first was whole by then (`Made`,
  `Sorted`, `Fifo`); that a call holds what its tests let through (`Tested`); and
  that a packet taken, or about to be, has no message left on the stream (`Once`), so that none
  is taken twice. What is left is that none is left out, and there each of the
  two troubles is harmless alone, for a reason of its own. Without a pause
  (`InStep`) a call that may still succeed has read from one packet only, every other
  packet is either untouched or taken, and a call that fails closes the connection: there is nothing to
  lose. Without crossing (`InTurn`) the cells come one after the other, so that
  a receiver which paused inside a packet never finds the beginning of the next where it
  expects one, and ends the connection. Only with both can a call begin
  with one packet and end with another.

All of them rest on the named assumptions about the constants, and on nothing else but
the hypotheses quoted above (`Sane`, `PartsSane`, `SleepCovers`, which reports there are).

Model-checked only are the liveness properties (they and ENABLED are out of the
prover's reach) and the six violations. The names of the runs' properties that are
not in the modules are those of the instances: `UsersNumberCounts` is `MCShmPool`'s for the
`NumberCountsFrames` of its second pool, which `NumbersCount` proves of every pool
that meets the assumptions, as that one does, and `RegistersAtLast`, `StateAtLast` and
`AlarmAtLast` are `MCReports`'s for `Registers`, `StateGetsThrough` and
`AlarmGetsThrough` of its second device.

## 5. Not modelled

* Contents and wording: packets' fields, logging, DNS, the XML of input reports, the
  cryptographic envelope (a call into a library), AVI files and indexes, frame rates.
* The lock of `mshm.c`, taken to work; a process dying inside it.
* Software update by command (`netcmdproc.c`): commented out. The recorder
  manager (`nvr_manager.c`): its start is commented out. `process_realplay_start`
  and the pool as a source of playback: does not compile. The map of frames in
  `avserver.c`: written, and read by nothing.
* The remaining command handlers (PTZ, serial ports, clock, outputs, pictures): each
  writes one setting, which `Para` covers as a save, or drives one device.
* Alarm inputs are a set; the word they are bits of is not, nor what becomes of an input
  whose number does not fit in it (alarm_process.c:270).
* Command effects on a connection other than the sender's: `process_netcmd` answers on
  the descriptor it was given; `PktLink` covers what two threads do to one.
* `devinfo`, `netinfo`, `gtlog`, `gtthread`, most of `commonlib.c` and `gtsocket.c`:
  look-ups, text, and socket options, with no state that several actors
  share. Drivers and vendor libraries, the vendored XML and ini parsers and the
  headers of vendor kits, which are more than half of the repository's lines.

## 6. Plan

The command server and the parameter file in one composition, with the eight
threads as `Para`'s command threads.
