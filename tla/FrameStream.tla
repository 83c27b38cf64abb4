------------------------------- MODULE FrameStream -------------------------------
(* What a pool of frames promises the readers it follows: the frames in the   *)
(* order of their numbers, each once, from the one after the reader joined.   *)
(* There are three exceptions.  A reader of GetResource may be given the      *)
(* newest frame instead of the next, where the pool has gone around and looks *)
(* as if it were new.  A reader of GetPacket may be sent to the newest frame, *)
(* which leaves out those before it or repeats the last, and it may be        *)
(* lapped.  And any reader may be lost: nothing is promised to it until it    *)
(* joins again.                                                               *)
EXTENDS Naturals

CONSTANTS
  Readers,
  Ring,    \* frames the pool can tell apart
  Near     \* of them, those near the beginning

VARIABLES
  added,   \* frames so far; they are numbered from 1
  stand    \* of each reader, the frame it took last, the one it is due, the call
           \* it uses, and how many frames, of one, this call has found

vars == <<added, stand>>

\* Where a reader stands; a reader that is not followed.
At(t, d, c, h) == [took |-> t, due |-> d, calls |-> c, hand |-> h]
Off            == At(0, 0, {}, 0)

Init == added = 0 /\ stand = [r \in Readers |-> Off]

\* The reader, if it is followed, is due frame n next.
Due(r, n) == At(stand[r].took, n, stand[r].calls, stand[r].hand)

\* A frame that a reader is in the midst of taking may be the oldest of all, and
\* one that it has not found must be newer.
Lapped(r) == "GetPacket" \in stand[r].calls /\ stand[r].due + Ring = added + 2 - stand[r].hand
Add ==
  /\ added' = added + 1
  /\ \E Lost \in SUBSET Readers, Laps \in SUBSET {r \in Readers : Lapped(r)} :
       stand' = [r \in Readers |-> IF r \in Lost THEN Off
                                   ELSE IF r \in Laps THEN Due(r, stand[r].due + Ring)
                                   ELSE stand[r]]

Lose ==
  /\ added' = added
  /\ \E Lost \in SUBSET Readers :
       stand' = [r \in Readers |-> IF r \in Lost THEN Off ELSE stand[r]]

Restart == added' = 0 /\ stand' = [r \in Readers |-> Off]

Join(r) ==
  /\ stand[r] = Off
  /\ stand' = [stand EXCEPT ![r] = Due(r, added + 1)]
  /\ added' = added

\* A reader calls, and finds the frame it is due or does not.
Call(r, c) ==
  /\ stand[r] # Off /\ stand[r].hand = 0 /\ stand[r].calls \subseteq {c}
  /\ \E h \in {0, 1} :
       /\ h = 1 => stand[r].due \in 1..added
       /\ stand' = [stand EXCEPT ![r] = At(stand[r].took, stand[r].due, {c}, h)]
  /\ added' = added

Took(r, n) == At(n, n + 1, stand[r].calls, 0)

Deliver(r) ==
  /\ stand[r].hand = 1
  /\ stand' = [stand EXCEPT ![r] = Took(r, stand[r].due)]
  /\ added' = added

\* The frames before the newest one are left out, soon after the numbers of the
\* pool began anew.
Skip(r) ==
  /\ stand[r].hand = 1 /\ stand[r].calls = {"GetResource"}
  /\ added >= Ring /\ added % Ring < Near
  /\ stand' = [stand EXCEPT ![r] = Took(r, added)]
  /\ added' = added

\* The reader is sent to the newest frame.
Turn(r) ==
  /\ stand[r].hand = 0 /\ stand[r].calls = {"GetPacket"} /\ added > 0
  /\ stand' = [stand EXCEPT ![r] = Due(r, added)]
  /\ added' = added

Next ==
  \/ Add \/ Lose \/ Restart
  \/ \E r \in Readers : \/ Join(r) \/ Deliver(r) \/ Skip(r) \/ Turn(r)
                        \/ \E c \in {"GetResource", "GetPacket"} : Call(r, c)

Spec == Init /\ [][Next]_vars
==================================================================================
