-------------------------------- MODULE ShmPool --------------------------------
(***************************************************************************)
(* The shared-memory frame pool between an encoder process and its readers *)
(* (gtipcs/mshmpool.c): a ring of elements over a ring of data blocks.     *)
(*                                                                         *)
(* The producer adds frames, dropping the oldest ones to make room, and    *)
(* posts one semaphore per registered user.  A reader takes frames either  *)
(* with GetResource, which waits on its semaphore for every frame, or with *)
(* GetPacket, which waits only when it has caught up. A user that lets    *)
(* its semaphore grow beyond maxsem is taken for dead.  A restarted        *)
(* producer creates the pool anew under the readers.                       *)
(*                                                                         *)
(* Sections under the pool's lock are one action each; semaphore calls and *)
(* accesses made without the lock are actions of their own.                *)
(***************************************************************************)
EXTENDS Integers, FiniteSets, FiniteSetsExt

CONSTANTS
  Readers,   (* processes that hold a handle of the pool                      *)
  Calls,     (* of GetResource and GetPacket, those the readers make          *)
  NUsers,    (* SHPOOL_MAX_USERS                                              *)
  MaxEle,    (* SHPOOL_MAX_ELE: slots of the element ring                     *)
  TBlocks,   (* tblocks: blocks of the data ring                              *)
  Needs,     (* numbers of blocks frames need                                 *)
  MaxSem,    (* maxsem: frames a user may leave waiting                       *)
  SemMax,    (* SEMVMX: the largest value of a semaphore                      *)
  NearStart, (* a tail below this is taken for a new pool (5 in the code)     *)
  MaxNum     (* bound: frames added to one creation of the pool               *)

ASSUME UsersAssumption  == /\ NUsers \in Nat \ {0} /\ IsFiniteSet(Readers)
                           /\ Calls \subseteq {"GetResource", "GetPacket"}
ASSUME BlocksAssumption == /\ TBlocks \in Nat \ {0}
                           /\ Needs \subseteq 1..TBlocks
\* The ring is far longer than the lag a user is allowed.
ASSUME RingAssumption   == /\ MaxEle \in Nat /\ MaxSem \in Nat
                           /\ MaxEle > 2 * (MaxSem + 1)
                           /\ SemMax \in Nat /\ SemMax > MaxSem
                           /\ NearStart \in Nat /\ MaxNum \in Nat

Slot  == 0..MaxEle - 1
Block == 0..TBlocks - 1
User  == 0..NUsers - 1
NoUser   == -1
BeforeRing == -1   \* the slot number that tail - 1 gives for tail = 0

VARIABLES
  eles, head, tail, count,      \* element ring
  data, fblocks, fbstart,       \* block ring: which frame each block holds
  num,                          \* number of the newest frame
  valid, curele, sem, upid,     \* per user: flags, place, semaphore, process
  lastUser,                     \* last_usr_no
  uno, pc, cur,                 \* per reader: user number, step, local cur
  got,                          \* history: number of the last frame it took
  steady,                       \* history: only successful reads moved its user
  used,                         \* history: which of the two calls it has used
  counted                       \* history, per user: its semaphore has missed no frame

ringVars   == <<eles, head, tail, count, data, fblocks, fbstart, num>>
userVars   == <<valid, curele, sem, upid, lastUser>>
readerVars == <<uno, pc, cur, got, steady, used>>
vars       == <<ringVars, userVars, readerVars, counted>>

Element == [num : 0..MaxNum, blocks : 0..TBlocks, bblock : Block]
NoElement == [num |-> 0, blocks |-> 0, bblock |-> 0]

\* GetResource: "locked" once its semaphore is taken.  GetPacket: "wait" in
\* SemReq, "zero" after it, "peek", "near" and "behind" at the three unlocked
\* tests for a new pool, "rewind" and "drop" when all of them hold, "loop" at the
\* loop's own test, "take" with cur chosen.
Step == {"out", "idle", "locked", "wait", "zero", "peek", "near", "behind",
         "rewind", "drop", "loop", "take"}

TypeOK ==
  /\ eles \in [Slot -> Element]
  /\ head \in Slot /\ tail \in Slot /\ count \in 0..MaxEle - 1
  /\ data \in [Block -> 0..MaxNum]
  /\ fblocks \in 0..TBlocks /\ fbstart \in Block /\ num \in 0..MaxNum
  /\ valid \in [User -> BOOLEAN]
  /\ curele \in [User -> Slot \cup {BeforeRing}]
  /\ sem \in [User -> 0..SemMax]
  /\ upid \in [User -> Readers \cup {NoUser}]
  /\ lastUser \in User \cup {NoUser}
  /\ uno \in [Readers -> User \cup {NoUser}]
  /\ pc \in [Readers -> Step]
  /\ cur \in [Readers -> Slot \cup {BeforeRing}]
  /\ got \in [Readers -> 0..MaxNum]
  /\ steady \in [Readers -> BOOLEAN] /\ used \in [Readers -> SUBSET Calls]
  /\ counted \in [User -> BOOLEAN]
  /\ \A r \in Readers : pc[r] # "out" <=> uno[r] # NoUser

\* The pool as MShmPoolCreate leaves it on fresh shared memory.
Init ==
  /\ eles = [s \in Slot |-> NoElement] /\ head = 0 /\ tail = 0 /\ count = 0
  /\ data = [b \in Block |-> 0] /\ fblocks = TBlocks /\ fbstart = 0 /\ num = 0
  /\ valid = [u \in User |-> FALSE] /\ curele = [u \in User |-> 0]
  /\ sem = [u \in User |-> 0] /\ upid = [u \in User |-> NoUser]
  /\ lastUser = NoUser
  /\ uno = [r \in Readers |-> NoUser] /\ pc = [r \in Readers |-> "out"]
  /\ cur = [r \in Readers |-> 0] /\ got = [r \in Readers |-> 0]
  /\ steady = [r \in Readers |-> FALSE] /\ used = [r \in Readers |-> {}]
  /\ counted = [u \in User |-> FALSE]

--------------------------------------------------------------------------------
(* Rings.                                                                    *)

NewerEleNoWrap(s) == s + 1
NewerEle(s) == (s + 1) % MaxEle
OlderEle(s) == (s + MaxEle - 1) % MaxEle

\* The i-th oldest element; the blocks the k oldest ones hold.
Nth(i) == (head + i) % MaxEle
Total(sizes, k) ==
  LET sum[i \in 0..MaxEle] == IF i = 0 THEN 0 ELSE sum[i - 1] + sizes[i - 1]
  IN  sum[k]
Sizes   == [i \in 0..MaxEle - 1 |-> eles[Nth(i)].blocks]
Held(k) == Total(Sizes, k)
Live    == {Nth(i) : i \in 0..count - 1}

WithoutKeepsData(k) == eles
\* Elements without their k oldest: those keep their number but no data.
Without(k) ==
  [s \in Slot |-> IF \E i \in 0..k - 1 : s = Nth(i)
                  THEN [eles[s] EXCEPT !.blocks = 0] ELSE eles[s]]

\* MShmPoolReqBlocks: with no more than `need` blocks free, the oldest
\* elements go until twice the need is free, or until none is left.
EnoughFor(need, k) == fblocks + Held(k) >= need * 2
DropsNoneLeft(need) ==
  IF fblocks >= need THEN 0
  ELSE Min({k \in 0..count : EnoughFor(need, k)} \cup {count})
Drops(need) ==
  IF fblocks > need THEN 0
  ELSE Min({k \in 0..count : EnoughFor(need, k)} \cup {count})
Fits(need) == fblocks > need \/ EnoughFor(need, count)

--------------------------------------------------------------------------------
(* The producer.                                                             *)

\* SemAddAll: each user in use gets one more; too many, and it is struck off.
\* (A semaphore at its largest value refuses, and is beyond MaxSem.)
Posted(u) == IF valid[u] /\ sem[u] < SemMax THEN sem[u] + 1 ELSE sem[u]
StrikeNever(u) == FALSE
Strike(u) == valid[u] /\ Posted(u) > MaxSem
SemAddAll ==
  /\ sem' = [u \in User |-> Posted(u)]
  /\ valid' = [u \in User |-> valid[u] /\ ~Strike(u)]
  /\ steady' = [r \in Readers |->
                  steady[r] /\ uno[r] # NoUser /\ ~Strike(uno[r])]
  /\ counted' = [u \in User |-> counted[u] /\ ~Strike(u)]

\* Not enough blocks even with every element gone: they are gone all the same.
AddFails(need) ==
  /\ ~Fits(need)
  /\ eles' = Without(count) /\ head' = Nth(count) /\ count' = 0
  /\ fblocks' = fblocks + Held(count)
  /\ UNCHANGED <<tail, data, fbstart, num, userVars, readerVars, counted>>

AddFits(need) ==
  LET d    == Drops(need)
      full == NewerEle(tail) = Nth(d)   \* the ring has no empty slot: one more goes
      k    == IF full THEN d + 1 ELSE d
  IN
  /\ Fits(need)
  /\ num' = num + 1
  /\ eles' = [Without(k) EXCEPT ![tail] =
                [num |-> num + 1, blocks |-> need, bblock |-> fbstart]]
  /\ data' = [b \in Block |->
                IF (b + TBlocks - fbstart) % TBlocks < need THEN num + 1 ELSE data[b]]
  /\ fbstart' = (fbstart + need) % TBlocks
  /\ fblocks' = fblocks + Held(k) - need
  /\ head' = Nth(k) /\ tail' = NewerEle(tail) /\ count' = count + 1 - k
  /\ SemAddAll
  /\ UNCHANGED <<curele, upid, lastUser, uno, pc, cur, got, used>>

AddResource(need) == num < MaxNum /\ (AddFails(need) \/ AddFits(need))

\* MShmPoolCreate by a restarted producer: everything but the users is new.
\* The loop over the users' semaphores always names semaphore 0.
Create ==
  /\ eles' = [s \in Slot |-> NoElement] /\ head' = 0 /\ tail' = 0 /\ count' = 0
  /\ data' = [b \in Block |-> 0] /\ fblocks' = TBlocks /\ fbstart' = 0 /\ num' = 0
  /\ sem' = [sem EXCEPT ![0] = 0]
  /\ lastUser' = NoUser
  /\ steady' = [r \in Readers |-> FALSE] /\ counted' = [u \in User |-> FALSE]
  /\ UNCHANGED <<valid, curele, upid, uno, pc, cur, got, used>>

--------------------------------------------------------------------------------
(* Users.                                                                    *)

\* GetAFreeUsrNo: round robin after the last number given out.
FreeUsers == {u \in User : ~valid[u]}
After(u) == (u - (IF lastUser = NoUser THEN 0 ELSE lastUser) - 1 + NUsers) % NUsers
NextUser(u) == u \in FreeUsers /\ \A v \in FreeUsers : After(u) <= After(v)

ReqKeepsSem(r, u) ==
  /\ pc[r] = "out" /\ NextUser(u)
  /\ lastUser' = u
  /\ valid' = [valid EXCEPT ![u] = TRUE]
  /\ curele' = [curele EXCEPT ![u] = tail]
  /\ upid' = [upid EXCEPT ![u] = r]
  /\ uno' = [uno EXCEPT ![r] = u] /\ pc' = [pc EXCEPT ![r] = "idle"]
  /\ cur' = [cur EXCEPT ![r] = 0] /\ got' = [got EXCEPT ![r] = 0]
  /\ steady' = [steady EXCEPT ![r] = \A q \in Readers : uno[q] # u]
  /\ used' = [used EXCEPT ![r] = {}]
  /\ counted' = [counted EXCEPT ![u] = \A q \in Readers : uno[q] = u => pc[q] = "idle"]
  /\ UNCHANGED <<sem, ringVars>>
\* MShmPoolReq.  A number whose user was struck off is given out again, also
\* while the reader that had it still reads.  Its semaphore counts from here on,
\* unless that reader has one in hand already.
Req(r, u) ==
  /\ pc[r] = "out" /\ NextUser(u)
  /\ lastUser' = u
  /\ valid' = [valid EXCEPT ![u] = TRUE]
  /\ curele' = [curele EXCEPT ![u] = tail]
  /\ sem' = [sem EXCEPT ![u] = 0]
  /\ upid' = [upid EXCEPT ![u] = r]
  /\ uno' = [uno EXCEPT ![r] = u] /\ pc' = [pc EXCEPT ![r] = "idle"]
  /\ cur' = [cur EXCEPT ![r] = 0] /\ got' = [got EXCEPT ![r] = 0]
  /\ steady' = [steady EXCEPT ![r] = \A q \in Readers : uno[q] # u]
  /\ used' = [used EXCEPT ![r] = {}]
  /\ counted' = [counted EXCEPT ![u] = \A q \in Readers : uno[q] = u => pc[q] = "idle"]
  /\ UNCHANGED ringVars

Leave(r) ==
  /\ uno' = [uno EXCEPT ![r] = NoUser] /\ pc' = [pc EXCEPT ![r] = "out"]
  /\ cur' = [cur EXCEPT ![r] = 0] /\ got' = [got EXCEPT ![r] = 0]
  /\ used' = [used EXCEPT ![r] = {}]
  /\ UNCHANGED <<curele, sem, upid, lastUser, ringVars>>

\* A reader's user is no longer its own affair; a user misses frames.
Disturb(u)  == steady' = [q \in Readers |-> steady[q] /\ uno[q] # u]
Miscount(u) == counted' = [counted EXCEPT ![u] = FALSE]

\* MShmPoolReqFree
ReqFree(r) ==
  /\ pc[r] = "idle"
  /\ valid' = [valid EXCEPT ![uno[r]] = FALSE]
  /\ Leave(r)
  /\ Disturb(uno[r]) /\ Miscount(uno[r])

\* A reader process dies outside the lock; its user stays in use.
Crash(r) ==
  /\ pc[r] # "out"
  /\ Leave(r) /\ UNCHANGED valid
  /\ Disturb(uno[r])
  /\ counted' = [counted EXCEPT ![uno[r]] = @ /\ pc[r] = "idle"]

\* MShmPoolDelUsrByPid: the first entry of that process, in use or not.
DelUsrByPid(r) ==
  \E u \in User :
    /\ upid[u] = r /\ \A v \in User : v < u => upid[v] # r
    /\ valid' = [valid EXCEPT ![u] = FALSE]
    /\ Disturb(u) /\ Miscount(u)
    /\ UNCHANGED <<ringVars, curele, sem, upid, lastUser, uno, pc, cur, got, used>>

\* MShmPoolReActiveUsr: in use again, from the place it had.
ReActiveUsr(r) ==
  /\ pc[r] = "idle" /\ ~valid[uno[r]]
  /\ valid' = [valid EXCEPT ![uno[r]] = TRUE]
  /\ UNCHANGED <<ringVars, curele, sem, upid, lastUser, readerVars, counted>>

\* MShmPoolMvUsrPlace and MShmPoolMvNewPlace by one element: the test for the
\* end of the ring comes after the step.
MvUsrPlace(r) ==
  /\ pc[r] = "idle" /\ curele[uno[r]] \in Slot
  /\ \E s \in {OlderEle(curele[uno[r]]), NewerEle(curele[uno[r]])} :
       curele' = [curele EXCEPT ![uno[r]] = s]
  /\ Disturb(uno[r]) /\ Miscount(uno[r])
  /\ UNCHANGED <<ringVars, valid, sem, upid, lastUser, uno, pc, cur, got, used>>

--------------------------------------------------------------------------------
(* Readers.                                                                  *)

\* Both calls take a small head and tail, with the user's place beyond the
\* tail, for a pool created anew; under the lock in GetResource.
LooksNew(u) == head = 0 /\ tail < NearStart /\ curele[u] >= tail

\* SaveEle2Buf of slot s and the step to the next one.  An element without data
\* is "read" as a frame of no bytes; for one with data the caller's buffer may be
\* too small (-ENOMEM), and the place is then the one given.  The memory before the
\* ring reads as anything, a length the buffer is too small for included.
Take(r, s, place) ==
  /\ \/ /\ s \in Slot
        /\ curele' = [curele EXCEPT ![uno[r]] = NewerEle(s)]
        /\ got' = [got EXCEPT ![r] = eles[s].num]
        /\ steady' = steady
     \/ /\ s \in Slot /\ eles[s].blocks > 0
        /\ curele' = [curele EXCEPT ![uno[r]] = place] /\ got' = got
        /\ steady' = [steady EXCEPT ![r] = FALSE]
     \/ /\ s = BeforeRing
        /\ steady' = [steady EXCEPT ![r] = FALSE]
        /\ \E t \in {place, 0} : curele' = [curele EXCEPT ![uno[r]] = t]
        /\ got' = got
  /\ pc' = [pc EXCEPT ![r] = "idle"] /\ cur' = [cur EXCEPT ![r] = 0]

\* MShmPoolGetResource: the semaphore, then the frame under the lock.
ResourceSem(r) ==
  /\ "GetResource" \in Calls /\ pc[r] = "idle" /\ sem[uno[r]] > 0
  /\ sem' = [sem EXCEPT ![uno[r]] = @ - 1]
  /\ pc' = [pc EXCEPT ![r] = "locked"]
  /\ used' = [used EXCEPT ![r] = @ \cup {"GetResource"}]
  /\ UNCHANGED <<ringVars, valid, curele, upid, lastUser, uno, cur, got, steady, counted>>

Rewound == tail - 1
Finds(u) == IF LooksNew(u) THEN Rewound ELSE curele[u]

\* Whether the user still misses none: the frame was read, and semaphores that
\* were thrown away were nobody's in hand.
StillCounted(r) ==
  LET u == uno[r] IN
  counted' = [counted EXCEPT ![u] =
    /\ @ /\ curele'[u] = NewerEle(Finds(u))
    /\ LooksNew(u) => \A q \in Readers \ {r} : uno[q] = u => pc[q] # "locked"]

ResourceTakeKeepsSem(r) ==
  /\ pc[r] = "locked"
  /\ Take(r, Finds(uno[r]), Finds(uno[r])) /\ StillCounted(r)
  /\ UNCHANGED <<ringVars, valid, sem, upid, lastUser, uno, used>>

ResourceTake(r) ==
  /\ pc[r] = "locked"
  /\ sem' = IF LooksNew(uno[r]) THEN [sem EXCEPT ![uno[r]] = 0] ELSE sem
  /\ Take(r, Finds(uno[r]), Finds(uno[r])) /\ StillCounted(r)
  /\ UNCHANGED <<ringVars, valid, upid, lastUser, uno, used>>

\* MShmPoolGetPacket's loop test, on the place it has read.  (Its two reads of
\* tail differ in effect only when the pool was created anew in between.)
PacketTest(r) ==
  LET c == curele[uno[r]] IN
  IF tail = head \/ c = tail
  THEN pc' = [pc EXCEPT ![r] = "wait"] /\ cur' = cur
  ELSE pc' = [pc EXCEPT ![r] = "take"] /\ cur' = [cur EXCEPT ![r] = c]

PacketCall(r) ==
  /\ "GetPacket" \in Calls /\ pc[r] = "idle" /\ PacketTest(r)
  /\ used' = [used EXCEPT ![r] = @ \cup {"GetPacket"}]
  /\ UNCHANGED <<ringVars, userVars, uno, got, steady>>

\* The call goes on from one of its points to another.
Goes(r, from, to) == pc[r] = from /\ pc' = [pc EXCEPT ![r] = to]

PacketSem(r) ==
  /\ Goes(r, "wait", "zero") /\ sem[uno[r]] > 0
  /\ sem' = [sem EXCEPT ![uno[r]] = @ - 1]
  /\ UNCHANGED <<ringVars, valid, curele, upid, lastUser, uno, cur, got, steady, used>>

PacketZeroNoTest(r) ==
  /\ Goes(r, "zero", "wait")
  /\ sem' = [sem EXCEPT ![uno[r]] = 0]
  /\ UNCHANGED <<ringVars, valid, curele, upid, lastUser, uno, cur, got, steady, used>>

PacketZero(r) ==
  /\ Goes(r, "zero", "peek")
  /\ sem' = [sem EXCEPT ![uno[r]] = 0]
  /\ UNCHANGED <<ringVars, valid, curele, upid, lastUser, uno, cur, got, steady, used>>

\* MShmDistanceEle from head to tail.
DistanceEle == IF tail >= head THEN tail - head ELSE MaxEle - tail + head

\* The test for a new pool reads head, tail and the place without the lock, one
\* after the other.
PacketPeek(r) ==
  /\ \/ Goes(r, "peek", IF head = 0 THEN "near" ELSE "loop")
     \/ Goes(r, "near", IF DistanceEle < NearStart THEN "behind" ELSE "loop")
     \/ Goes(r, "behind", IF curele[uno[r]] >= tail THEN "rewind" ELSE "loop")
  /\ UNCHANGED <<ringVars, userVars, uno, cur, got, steady, used>>

PacketRewind(r) ==
  /\ Goes(r, "rewind", "drop")
  /\ curele' = [curele EXCEPT ![uno[r]] = Rewound]
  /\ UNCHANGED <<ringVars, valid, sem, upid, lastUser, uno, cur, got, steady, used>>

PacketDrop(r) ==
  /\ Goes(r, "drop", "loop")
  /\ sem' = [sem EXCEPT ![uno[r]] = 0]
  /\ UNCHANGED <<ringVars, valid, curele, upid, lastUser, uno, cur, got, steady, used>>

PacketLoop(r) ==
  /\ pc[r] = "loop" /\ PacketTest(r)
  /\ UNCHANGED <<ringVars, userVars, uno, got, steady, used>>

PacketTake(r) ==
  /\ pc[r] = "take"
  /\ Take(r, cur[r], curele[uno[r]])
  /\ UNCHANGED <<ringVars, valid, sem, upid, lastUser, uno, used>>

\* GetPacket throws semaphores away: its user's no longer count.
Packet(r) ==
  /\ \/ PacketCall(r) \/ PacketSem(r) \/ PacketZero(r) \/ PacketPeek(r)
     \/ PacketRewind(r) \/ PacketDrop(r) \/ PacketLoop(r) \/ PacketTake(r)
  /\ Miscount(uno[r])

Read(r) == ResourceSem(r) \/ ResourceTake(r) \/ Packet(r)

Next ==
  \/ \E need \in Needs : AddResource(need)
  \/ Create
  \/ \E r \in Readers : \/ \E u \in User : Req(r, u)
                        \/ ReqFree(r) \/ Crash(r) \/ DelUsrByPid(r)
                        \/ ReActiveUsr(r) \/ MvUsrPlace(r) \/ Read(r)

Spec == Init /\ [][Next]_vars

--------------------------------------------------------------------------------
(* Properties.                                                               *)

\* No block is lost or counted twice, through drops, failed adds, wraps of
\* either ring and a new creation; a block is always left free, so that a full
\* ring never looks like an empty one.
BlocksAccounted ==
  /\ fblocks + Held(count) = TBlocks /\ fblocks >= 1
  /\ count = (tail + MaxEle - head) % MaxEle

\* Whatever element a reader is led to, wherever it stands and however late it
\* is, the data is all of one frame: an element that lost a block to a newer
\* frame has lost its length too (FreeBlocks, FreeHeadEle).
ElementsIntact ==
  \A s \in Slot : \A i \in 0..eles[s].blocks - 1 :
    data[(eles[s].bblock + i) % TBlocks] = eles[s].num

\* The semaphore of a user that only GetResource moves counts exactly the
\* frames between its place and the tail.
Only(r, call) == used[r] \subseteq {call}
InHand(r) == IF pc[r] = "locked" THEN 1 ELSE 0
SemCountsFrames ==
  \A r \in Readers : steady[r] /\ Only(r, "GetResource") =>
    (curele[uno[r]] + sem[uno[r]] + InHand(r)) % MaxEle = tail

\* GetPacket never sleeps on a frame: a reader in SemReq has no frame to read,
\* or a semaphore to wake it, although it throws its semaphores away.
NoLostWakeup ==
  \A r \in Readers :
    steady[r] /\ pc[r] = "wait" /\ curele[uno[r]] # tail /\ head # tail
      => sem[uno[r]] > 0

\* A reader that nobody disturbs is never led back to a frame older than the
\* last it took, and with GetResource never to the same one, however far it
\* falls behind before it is struck off.
NoStepBack ==
  \A r \in Readers :
    steady[r] /\ steady'[r] /\ pc[r] \in {"locked", "take"} /\ pc'[r] = "idle"
      => \/ Only(r, "GetPacket") /\ got'[r] >= got[r]
         \/ Only(r, "GetResource") /\ got'[r] > got[r]
         \/ Cardinality(used[r]) = 2
NeverBackwards == [][NoStepBack]_vars

\* A user number that was struck off and given out again, while the reader that
\* had it reads on, counts for both: its semaphore and those the readers have in
\* hand are the frames between its place and the tail, so each frame goes to one
\* of them, none to both and none to nobody.
Locked(u) == {q \in Readers : uno[q] = u /\ pc[q] = "locked"}
NumberCountsFrames ==
  \A u \in User : counted[u] => (curele[u] + sem[u] + Cardinality(Locked(u))) % MaxEle = tail

--------------------------------------------------------------------------------
(* The pool as a stream of frames: what a reader is promised that nobody     *)
(* disturbs and that uses one of the two calls.                              *)

\* How far a slot is behind the tail, and how many frames this leaves a reader
\* to take: one in the midst of taking is not at the end of them.
Back(s) == IF s < tail THEN tail - s ELSE tail + MaxEle - s
Lag(r)  == IF curele[uno[r]] = tail /\ pc[r] # "take" THEN 0 ELSE Back(curele[uno[r]])

OneCall(r)  == Only(r, "GetResource") \/ Only(r, "GetPacket")
Followed(r) == steady[r] /\ OneCall(r) /\ curele[uno[r]] # BeforeRing
Hand(r)     == IF pc[r] \in {"locked", "take"} THEN 1 ELSE 0
Stand(r) ==
  IF Followed(r)
  THEN [took |-> got[r], due |-> num + 1 - Lag(r), calls |-> used[r], hand |-> Hand(r)]
  ELSE [took |-> 0, due |-> 0, calls |-> {}, hand |-> 0]
Stream == INSTANCE FrameStream WITH
            Ring <- MaxEle, Near <- NearStart,
            added <- num, stand <- [r \in Readers |-> Stand(r)]

\* The pool implements FrameStream: a reader gets each frame in its turn, except
\* where the pool looks new (LooksNew) or has lapped a reader of GetPacket.
FramesInTurn == Stream!Spec

--------------------------------------------------------------------------------
(* What comments of the code promise and the code does not keep.             *)

\* mshmpool.h:61: curele is "the number of the element that can be accessed".
PlaceInRing == \A u \in User : curele[u] \in Slot
================================================================================
