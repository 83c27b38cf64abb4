----------------------------- MODULE AvServerProofs -----------------------------
(***************************************************************************)
(* Theorems about the live stream server of AvServer, for every number of  *)
(* users of both classes and every set of clients: its counters are        *)
(* honest, and it implements the admission of Admission.                   *)
(***************************************************************************)
EXTENDS AvServer, FiniteSetTheorems, TLAPS

USE GuestAssumption, LimitAssumption

\* The steps of a thread whose client has been let in and is still counted.
Served == {"setup", "top", "cut", "select", "del"}

\* Who sits where: a thread has a client from accept to close, no two threads
\* the same one, and the entry names it from its counting to its clearing.
Seated ==
  /\ place \in [Guest -> {"away", "waiting", "here", "gone"}]
  /\ pc \in [Usr -> Step] /\ conn \in [Usr -> Guest \cup {None}]
  /\ addr \in [Usr -> Guest \cup {None}]
  /\ \A u \in Usr : conn[u] = None <=> pc[u] \in {"idle", "accept"}
  /\ \A u, v \in Usr : conn[u] = conn[v] /\ conn[u] # None => u = v
  /\ \A u \in Usr : conn[u] # None => place[conn[u]] \in {"here", "gone"}
  /\ \A u \in Usr : pc[u] \in Served \cup {"delUsr"} => addr[u] = conn[u]
  /\ \A u \in Usr : pc[u] \notin Served \cup {"delUsr"} => addr[u] = None

LEMMA SeatedInit == Init => Seated
  BY DEF Init, Seated, Step, Served

\* A step of one thread that keeps its client and stays among steps of the same
\* kind changes no seat.
LEMMA SeatedMove ==
  ASSUME Seated, NEW u \in Usr, NEW from \in Step, NEW to \in Step, Go(u, from, to),
         from \in {"idle", "accept"} <=> to \in {"idle", "accept"},
         from \in Served \cup {"delUsr"} <=> to \in Served \cup {"delUsr"},
         UNCHANGED <<place, conn, addr>>
  PROVE  Seated'
  BY DEF Seated, Go

LEMMA SeatedAccept ==
  ASSUME Seated, NEW u \in Usr, NEW g \in Guest, Accept(u, g)
  PROVE  Seated'
<1>1. \A v \in Usr : conn[v] # g
  BY DEF Seated, Accept
<1>2. conn[u] = None
  BY DEF Seated, Accept, Go
<1>. QED  BY <1>1, <1>2 DEF Seated, Accept, Go, Step, Served

LEMMA SeatedClose ==
  ASSUME Seated, NEW u \in Usr, Busy(u) \/ Close(u)
  PROVE  Seated'
<1>1. /\ conn[u] \in Guest /\ pc[u] \in {"busy", "close"} /\ pc' = [pc EXCEPT ![u] = "idle"]
      /\ place' = [place EXCEPT ![conn[u]] = "away"] /\ conn' = [conn EXCEPT ![u] = None]
      /\ addr' = addr
  BY DEF Seated, Busy, Close, Go, CloseConn, entryVars
<1>2. \A v \in Usr : conn[v] = conn[u] => v = u
  BY <1>1 DEF Seated
<1>. QED  BY <1>1, <1>2 DEF Seated, Step, Served

LEMMA SeatedNext == Seated /\ [Next]_vars => Seated'
<1>. SUFFICES ASSUME Seated, [Next]_vars PROVE Seated'
  OBVIOUS
<1>. USE DEF entryVars, netVars
<1>1. ASSUME NEW g \in Guest, Connect(g) \/ HangUp(g) PROVE Seated'
  BY <1>1 DEF Connect, HangUp, Seated
<1>2. ASSUME NEW u \in Usr, Listen(u) PROVE Seated'
  BY <1>2, SeatedMove DEF Listen, Step, Served
<1>3. ASSUME NEW u \in Usr, AcceptFails(u) PROVE Seated'
  BY <1>3, SeatedMove DEF AcceptFails, Step, Served
<1>4. ASSUME NEW u \in Usr, SetUp(u) PROVE Seated'
  BY <1>4, SeatedMove DEF SetUp, Step, Served
<1>5. ASSUME NEW u \in Usr, Cut(u) \/ PutDown(u) PROVE Seated'
  <2>1. CASE Cut(u)
    BY <2>1, SeatedMove DEF Cut, Step, Served
  <2>2. CASE PutDown(u)
    BY <2>2, SeatedMove DEF PutDown, Step, Served
  <2>. QED  BY <1>5, <2>1, <2>2
<1>6. ASSUME NEW u \in Usr, Select(u) PROVE Seated'
  <2>1. CASE Go(u, "top", "del")
    BY <1>6, <2>1, SeatedMove DEF Select, Step, Served
  <2>2. CASE Go(u, "top", "select")
    BY <1>6, <2>2, SeatedMove DEF Select, Step, Served
  <2>. QED  BY <1>6, <2>1, <2>2 DEF Select
<1>7. ASSUME NEW u \in Usr, Idle(u) PROVE Seated'
  BY <1>7, SeatedMove DEF Idle, Step, Served
<1>8. ASSUME NEW u \in Usr, Drop(u) PROVE Seated'
  BY <1>8, SeatedMove DEF Drop, Step, Served
<1>9. ASSUME NEW u \in Usr, NEW s \in {1, 3}, Subscribe(u, s) PROVE Seated'
  BY <1>9, SeatedMove DEF Subscribe, Step, Served
<1>10. ASSUME NEW u \in Usr, Unsubscribe(u) PROVE Seated'
  <2>1. CASE Go(u, "select", "del")
    BY <1>10, <2>1, SeatedMove DEF Unsubscribe, Step, Served
  <2>2. CASE Go(u, "select", "top")
    BY <1>10, <2>2, SeatedMove DEF Unsubscribe, Step, Served
  <2>. QED  BY <1>10, <2>1, <2>2 DEF Unsubscribe
<1>11. ASSUME NEW u \in Usr, Delete(u) PROVE Seated'
  BY <1>11, SeatedMove DEF Delete, Step, Served
<1>12. ASSUME NEW u \in Usr, DeleteUsr(u) PROVE Seated'
  BY <1>12 DEF DeleteUsr, Go, Seated, Step, Served
<1>13. ASSUME NEW u \in Usr, Busy(u) \/ Close(u) PROVE Seated'
  BY <1>13, SeatedClose
<1>14. ASSUME NEW u \in Usr, NEW g \in Guest, Accept(u, g) PROVE Seated'
  BY <1>14, SeatedAccept
<1>15. CASE Send \/ Blocks
  BY <1>15 DEF Send, Test, Lock, Written, WriteFails, Blocks, Seated
<1>16. CASE UNCHANGED vars
  BY <1>16 DEF vars, Seated
<1>. QED
  BY <1>1, <1>2, <1>3, <1>4, <1>5, <1>6, <1>7, <1>8, <1>9, <1>10, <1>11, <1>12, <1>13,
     <1>14, <1>15, <1>16 DEF Next, Serve, Answer, Receive

--------------------------------------------------------------------------------
(* The counters.                                                             *)

LEMMA UsrSets ==
  \A S \in SUBSET Usr : IsFiniteSet(S) /\ Cardinality(S) \in Nat
<1>1. IsFiniteSet(Usr)
  <2>1. NUsr - 1 \in Int
    BY DEF NUsr
  <2>. QED  BY <2>1, FS_Interval DEF Usr
<1>. QED  BY <1>1, FS_Subset, FS_CardinalityType

LEMMA CountedAccept ==
  ASSUME Seated, NEW u \in Usr, NEW g \in Guest, Accept(u, g), NEW c, c \subseteq Guest
  PROVE  /\ u \notin Counted(c)
         /\ Full(g) => Counted(c)' = Counted(c)
         /\ ~Full(g) /\ g \in c => Counted(c)' = Counted(c) \cup {u}
         /\ ~Full(g) /\ g \notin c => Counted(c)' = Counted(c)
<1>1. addr[u] = None /\ pc[u] = "accept"
  BY DEF Seated, Accept, Go, Served
<1>2. CASE Full(g)
  <2>1. addr' = [addr EXCEPT ![u] = None] /\ pc' = [pc EXCEPT ![u] = "busy"]
    BY <1>2 DEF Accept, Go
  <2>. QED  BY <1>1, <1>2, <2>1 DEF Counted, Seated
<1>3. CASE ~Full(g)
  <2>1. addr' = [addr EXCEPT ![u] = g] /\ pc' = [pc EXCEPT ![u] = "setup"]
    BY <1>3 DEF Accept, Go
  <2>. QED  BY <1>1, <1>3, <2>1 DEF Counted, Seated
<1>. QED  BY <1>2, <1>3

LEMMA CountedDelete ==
  ASSUME Seated, NEW u \in Usr, Delete(u), NEW c
  PROVE  /\ Counted(c)' = Counted(c) \ {u}
         /\ u \in Counted(c) <=> addr[u] \in c
  BY DEF Seated, Delete, Go, Counted, entryVars

\* No other step counts a thread or ceases to.
Recounts ==
  \E u \in Usr : Delete(u) \/ \E g \in Guest : Accept(u, g)

LEMMA CountedSame ==
  ASSUME Seated, [Next]_vars, ~Recounts, NEW c, c \subseteq Guest
  PROVE  /\ Counted(c)' = Counted(c)
         /\ UNCHANGED <<lanUsrs, wanUsrs>>
<1>. USE DEF entryVars, poolVars
<1>1. ASSUME NEW g \in Guest, Connect(g) \/ HangUp(g)
      PROVE  Counted(c)' = Counted(c) /\ UNCHANGED <<lanUsrs, wanUsrs>>
  BY <1>1 DEF Connect, HangUp, Counted
<1>2. ASSUME NEW u \in Usr, Listen(u) \/ AcceptFails(u) \/ SetUp(u) \/ Cut(u)
                            \/ PutDown(u) \/ Idle(u) \/ Drop(u)
      PROVE  Counted(c)' = Counted(c) /\ UNCHANGED <<lanUsrs, wanUsrs>>
  BY <1>2 DEF Listen, AcceptFails, SetUp, Cut, PutDown, Idle, Drop, Go, Counted, Seated
<1>3. ASSUME NEW u \in Usr, Select(u) \/ Unsubscribe(u) \/ \E s \in {1, 3} : Subscribe(u, s)
      PROVE  Counted(c)' = Counted(c) /\ UNCHANGED <<lanUsrs, wanUsrs>>
  BY <1>3 DEF Select, Unsubscribe, Subscribe, Go, Counted, Seated
<1>4. ASSUME NEW u \in Usr, DeleteUsr(u)
      PROVE  Counted(c)' = Counted(c) /\ UNCHANGED <<lanUsrs, wanUsrs>>
  BY <1>4 DEF DeleteUsr, Go, Counted, Seated
<1>5. ASSUME NEW u \in Usr, Busy(u) \/ Close(u)
      PROVE  Counted(c)' = Counted(c) /\ UNCHANGED <<lanUsrs, wanUsrs>>
  <2>1. addr[u] = None
    BY <1>5 DEF Seated, Busy, Close, Go, Served
  <2>. QED  BY <1>5, <2>1 DEF Busy, Close, Go, Counted, Seated
<1>6. CASE Send \/ Blocks
  BY <1>6 DEF Send, Test, Lock, Written, WriteFails, Blocks, Counted
<1>7. CASE UNCHANGED vars
  BY <1>7 DEF vars, Counted
<1>. QED
  BY <1>1, <1>2, <1>3, <1>4, <1>5, <1>6, <1>7 DEF Next, Serve, Answer, Receive, Recounts

LEMMA CountsInit == Init => CountsHonest
<1>. SUFFICES ASSUME Init PROVE CountsHonest
  OBVIOUS
<1>1. Counted(Lan) = {} /\ Counted(Wan) = {}
  BY DEF Init, Counted, Guest
<1>. QED  BY <1>1, FS_EmptySet DEF Init, CountsHonest

LEMMA CountsNext == Seated /\ CountsHonest /\ [Next]_vars => CountsHonest'
<1>. SUFFICES ASSUME Seated, CountsHonest, [Next]_vars PROVE CountsHonest'
  OBVIOUS
<1>1. \A c : Counted(c) \in SUBSET Usr
  BY DEF Counted
<1>2. /\ IsFiniteSet(Counted(Lan)) /\ Cardinality(Counted(Lan)) \in Nat
      /\ IsFiniteSet(Counted(Wan)) /\ Cardinality(Counted(Wan)) \in Nat
  BY <1>1, UsrSets
<1>3. ASSUME NEW u \in Usr, NEW g \in Guest, Accept(u, g) PROVE CountsHonest'
  <2>1. /\ u \notin Counted(Lan)
        /\ Full(g) => Counted(Lan)' = Counted(Lan)
        /\ ~Full(g) /\ g \in Lan => Counted(Lan)' = Counted(Lan) \cup {u}
        /\ ~Full(g) /\ g \notin Lan => Counted(Lan)' = Counted(Lan)
    BY <1>3, CountedAccept DEF Guest
  <2>2. /\ u \notin Counted(Wan)
        /\ Full(g) => Counted(Wan)' = Counted(Wan)
        /\ ~Full(g) /\ g \in Wan => Counted(Wan)' = Counted(Wan) \cup {u}
        /\ ~Full(g) /\ g \notin Wan => Counted(Wan)' = Counted(Wan)
    BY <1>3, CountedAccept DEF Guest
  <2>3. /\ Cardinality(Counted(Lan) \cup {u}) = Cardinality(Counted(Lan)) + 1
        /\ Cardinality(Counted(Wan) \cup {u}) = Cardinality(Counted(Wan)) + 1
    BY <1>2, <2>1, <2>2, FS_AddElement
  <2>4. CASE Full(g)
    <3>1. UNCHANGED <<lanUsrs, wanUsrs>>
      BY <1>3, <2>4 DEF Accept
    <3>. QED  BY <2>1, <2>2, <2>4, <3>1 DEF CountsHonest
  <2>5. CASE ~Full(g)
    <3>1. Count(g, 1)
      BY <1>3, <2>5 DEF Accept
    <3>2. g \in Lan <=> g \notin Wan
      BY DEF Guest
    <3>. QED  BY <2>1, <2>2, <2>3, <2>5, <3>1, <3>2 DEF CountsHonest, Count
  <2>. QED  BY <2>4, <2>5
<1>4. ASSUME NEW u \in Usr, Delete(u) PROVE CountsHonest'
  <2>1. /\ Counted(Lan)' = Counted(Lan) \ {u} /\ (u \in Counted(Lan) <=> addr[u] \in Lan)
        /\ Counted(Wan)' = Counted(Wan) \ {u} /\ (u \in Counted(Wan) <=> addr[u] \in Wan)
    BY <1>4, CountedDelete
  <2>2. addr[u] \in Guest /\ Count(addr[u], -1)
    BY <1>4 DEF Delete, Go, Seated, Served
  <2>3. addr[u] \in Lan <=> addr[u] \notin Wan
    BY <2>2 DEF Guest
  <2>4. /\ Cardinality(Counted(Lan) \ {u})
             = IF u \in Counted(Lan) THEN Cardinality(Counted(Lan)) - 1 ELSE Cardinality(Counted(Lan))
        /\ Cardinality(Counted(Wan) \ {u})
             = IF u \in Counted(Wan) THEN Cardinality(Counted(Wan)) - 1 ELSE Cardinality(Counted(Wan))
    BY <1>2, FS_RemoveElement
  <2>. QED  BY <1>2, <2>1, <2>2, <2>3, <2>4 DEF CountsHonest, Count
<1>5. CASE ~Recounts
  <2>1. /\ Counted(Lan)' = Counted(Lan) /\ Counted(Wan)' = Counted(Wan)
        /\ UNCHANGED <<lanUsrs, wanUsrs>>
    BY <1>5, CountedSame DEF Guest
  <2>. QED  BY <2>1 DEF CountsHonest
<1>. QED  BY <1>3, <1>4, <1>5 DEF Recounts

\* The counters of each class are the clients of it that have been let in and not
\* yet counted out, through busy answers, drops, write errors and lost threads:
\* add_av_usr_list and del_av_usr_list, for any number of users.
THEOREM CountersHonest == Spec => []CountsHonest
<1>1. Init => Seated /\ CountsHonest
  BY SeatedInit, CountsInit
<1>2. Seated /\ CountsHonest /\ [Next]_vars => (Seated /\ CountsHonest)'
  BY SeatedNext, CountsNext
<1>. QED  BY <1>1, <1>2, PTL DEF Spec

--------------------------------------------------------------------------------
(* The server implements Admission.                                          *)

\* Where a client is, told by the thread that has it.
PlaceOf(u) == IF pc[u] = "busy" THEN "turned" ELSE IF pc[u] \in Served THEN "inside" ELSE "away"
Outside(g) == IF place[g] = "waiting" THEN "waiting" ELSE "away"

WhereFacts ==
  \A g \in Guest :
    /\ \A u \in Usr : conn[u] = g => Where(g) = PlaceOf(u)
    /\ (\A u \in Usr : conn[u] # g) => Where(g) = Outside(g)

LEMMA WhereIs == Seated => WhereFacts
<1>. SUFFICES ASSUME Seated, NEW g \in Guest
              PROVE  /\ \A u \in Usr : conn[u] = g => Where(g) = PlaceOf(u)
                     /\ (\A u \in Usr : conn[u] # g) => Where(g) = Outside(g)
  BY DEF WhereFacts
<1>1. ASSUME NEW u \in Usr, conn[u] = g PROVE Where(g) = PlaceOf(u)
  <2>1. place[g] # "waiting" /\ pc[u] \notin {"idle", "accept"}
    BY <1>1 DEF Seated
  <2>2. \A v \in Usr : conn[v] = g => v = u
    BY <1>1 DEF Seated
  <2>3. pc[u] \in Step
    BY DEF Seated
  <2>. QED  BY <1>1, <2>1, <2>2, <2>3 DEF Where, PlaceOf, Served, Step
<1>2. ASSUME \A u \in Usr : conn[u] # g PROVE Where(g) = Outside(g)
  BY <1>2 DEF Where, Outside
<1>. QED  BY <1>1, <1>2

LEMMA WhereIsNext == Seated' => WhereFacts'
  BY WhereIs, PTL

\* The clients inside, by class, are as many as the threads counted for them.
InsideOf(c) == {g \in c : Where(g) = "inside"}

LEMMA InsideIsCounted ==
  ASSUME Seated, NEW c, c \subseteq Guest
  PROVE  Cardinality(InsideOf(c)) = Cardinality(Counted(c))
<1>. DEFINE seat == [u \in Counted(c) |-> conn[u]]
<1>1. \A u \in Counted(c) : u \in Usr /\ pc[u] \in Served /\ conn[u] = addr[u] /\ conn[u] \in c
  BY DEF Counted, Seated
<1>2. \A u \in Counted(c) : seat[u] \in InsideOf(c)
  <2>. SUFFICES ASSUME NEW u \in Counted(c) PROVE seat[u] \in InsideOf(c)
    OBVIOUS
  <2>1. Where(conn[u]) = "inside"
    BY <1>1, WhereIs DEF WhereFacts, PlaceOf, Served
  <2>. QED  BY <1>1, <2>1 DEF InsideOf
<1>3. \A u, v \in Counted(c) : seat[u] = seat[v] => u = v
  BY <1>1 DEF Seated
<1>4. ASSUME NEW g \in InsideOf(c) PROVE \E u \in Counted(c) : seat[u] = g
  <2>1. g \in Guest /\ g \in c /\ Where(g) = "inside"
    BY DEF InsideOf
  <2>2. PICK u \in Usr : conn[u] = g /\ pc[u] \in Served
    <3>1. \E u \in Usr : conn[u] = g
      BY <2>1, WhereIs DEF WhereFacts, Outside
    <3>. QED  BY <2>1, <3>1, WhereIs DEF WhereFacts, PlaceOf
  <2>3. u \in Counted(c)
    BY <2>1, <2>2 DEF Counted, Seated, Served
  <2>. QED  BY <2>2, <2>3
<1>5. seat \in Bijection(Counted(c), InsideOf(c))
  <2>1. seat \in [Counted(c) -> InsideOf(c)]
    BY <1>2
  <2>2. seat \in Injection(Counted(c), InsideOf(c))
    BY <1>3, <2>1 DEF Injection, IsInjective
  <2>3. seat \in Surjection(Counted(c), InsideOf(c))
    BY <1>4, <2>1 DEF Surjection
  <2>. QED  BY <2>2, <2>3 DEF Bijection
<1>6. IsFiniteSet(Counted(c))
  BY UsrSets DEF Counted
<1>. QED  BY <1>5, <1>6, FS_Bijection DEF ExistsBijection

\* The instance has the operators of FiniteSets under its own name.
LEMMA DoorCardinality == \A S : Door!Cardinality(S) = Cardinality(S)
  BY DEF Door!Cardinality, Cardinality

LEMMA RoomIsNotFull ==
  ASSUME Seated, CountsHonest, NEW g \in Guest
  PROVE  Door!Room(g) <=> ~Full(g)
<1>1. ASSUME g \in Lan PROVE Door!Inside("lan") = InsideOf(Lan)
  BY DEF Door!Inside, InsideOf, Guest
<1>2. ASSUME g \in Wan PROVE Door!Inside("wan") = InsideOf(Wan)
  BY DEF Door!Inside, InsideOf, Guest
<1>3. /\ Cardinality(InsideOf(Lan)) = lanUsrs /\ lanUsrs \in Nat
      /\ Cardinality(InsideOf(Wan)) = wanUsrs /\ wanUsrs \in Nat
  <2>1. /\ Cardinality(InsideOf(Lan)) = Cardinality(Counted(Lan))
        /\ Cardinality(InsideOf(Wan)) = Cardinality(Counted(Wan))
    BY InsideIsCounted DEF Guest
  <2>2. Cardinality(Counted(Lan)) \in Nat /\ Cardinality(Counted(Wan)) \in Nat
    BY UsrSets DEF Counted
  <2>. QED  BY <2>1, <2>2 DEF CountsHonest
<1>4. CASE g \in Lan
  BY <1>1, <1>3, <1>4, DoorCardinality DEF Door!Room, Full
<1>5. CASE g \in Wan
  <2>1. g \notin Lan
    BY <1>5
  <2>. QED  BY <1>2, <1>3, <1>5, <2>1, DoorCardinality DEF Door!Room, Full
<1>. QED  BY <1>4, <1>5 DEF Guest

\* The state of Admission.
at == [g \in Guest |-> Where(g)]

\* A step of one client, or of none.
LEMMA AtMoves ==
  ASSUME NEW g \in Guest, \A h \in Guest \ {g} : Where(h)' = Where(h)
  PROVE  /\ Where(g) = "away" /\ Where(g)' = "waiting" => Door!Arrive(g)
         /\ Where(g) = "waiting" /\ Where(g)' = "inside" /\ Door!Room(g) => Door!Admit(g)
         /\ Where(g) = "waiting" /\ Where(g)' = "turned" /\ ~Door!Room(g) => Door!Turn(g)
         /\ Where(g) \in {"inside", "turned"} /\ Where(g)' = "away" => Door!Leave(g)
         /\ Where(g)' = Where(g) => at' = at
<1>1. at' = [at EXCEPT ![g] = Where(g)'] /\ at[g] = Where(g)
  BY DEF at
<1>. QED  BY <1>1 DEF Door!Arrive, Door!Admit, Door!Turn, Door!Leave, Door!Move, at

\* A step that leaves connections and waiting clients alone, and takes a thread's
\* client from where it was to the same place, moves nobody.
LEMMA NobodyMoves ==
  ASSUME Seated, Seated', conn' = conn,
         \A g \in Guest : place'[g] = "waiting" <=> place[g] = "waiting",
         \A u \in Usr : conn[u] # None => PlaceOf(u)' = PlaceOf(u)
  PROVE  at' = at
<1>1. ASSUME NEW g \in Guest PROVE Where(g)' = Where(g)
  <2>1. CASE \E u \in Usr : conn[u] = g
    <3>1. PICK u \in Usr : conn[u] = g
      BY <2>1
    <3>2. Where(g) = PlaceOf(u) /\ Where(g)' = PlaceOf(u)'
      BY <3>1, WhereIs, WhereIsNext DEF WhereFacts
    <3>. QED  BY <3>1, <3>2
  <2>2. CASE \A u \in Usr : conn[u] # g
    BY <2>2, WhereIs, WhereIsNext DEF WhereFacts, Outside
  <2>. QED  BY <2>1, <2>2
<1>. QED  BY <1>1 DEF at

\* A step of one thread, between steps that mean the same place.
LEMMA ThreadMoves ==
  ASSUME Seated, Seated', NEW u \in Usr, NEW from \in Step, NEW to \in Step,
         Go(u, from, to), UNCHANGED <<place, conn>>,
         \/ from \in {"idle", "accept"}
         \/ from \in Served /\ to \in Served
         \/ from \notin Served \cup {"busy"} /\ to \notin Served \cup {"busy"}
  PROVE  at' = at
<1>1. \A v \in Usr : conn[v] # None => PlaceOf(v)' = PlaceOf(v)
  BY DEF Go, Seated, PlaceOf, Served
<1>. QED  BY <1>1, NobodyMoves

LEMMA AtAccept ==
  ASSUME Seated, Seated', CountsHonest, NEW u \in Usr, NEW g \in Guest, Accept(u, g)
  PROVE  Door!Admit(g) \/ Door!Turn(g)
<1>1. /\ place[g] = "waiting" /\ place' = [place EXCEPT ![g] = "here"]
      /\ conn' = [conn EXCEPT ![u] = g] /\ pc[u] = "accept" /\ conn[u] = None
      /\ \A v \in Usr : conn[v] # g
  BY DEF Accept, Go, Seated
<1>2. Where(g) = "waiting" /\ Where(g)' = PlaceOf(u)'
  BY <1>1, WhereIs, WhereIsNext DEF WhereFacts, Outside, Seated
<1>3. /\ Full(g) => pc' = [pc EXCEPT ![u] = "busy"]
      /\ ~Full(g) => pc' = [pc EXCEPT ![u] = "setup"]
  BY DEF Accept, Go
<1>4. IF Full(g) THEN Where(g)' = "turned" ELSE Where(g)' = "inside"
  BY <1>2, <1>3 DEF PlaceOf, Served, Seated
<1>5. ASSUME NEW h \in Guest \ {g} PROVE Where(h)' = Where(h)
  <2>1. CASE \E v \in Usr : conn[v] = h
    <3>1. PICK v \in Usr : conn[v] = h
      BY <2>1
    <3>2. v # u /\ conn'[v] = h /\ pc'[v] = pc[v]
      BY <1>1, <1>3, <3>1 DEF Seated
    <3>. QED  BY <3>1, <3>2, WhereIs, WhereIsNext DEF WhereFacts, PlaceOf
  <2>2. CASE \A v \in Usr : conn[v] # h
    <3>1. \A v \in Usr : conn'[v] # h
      BY <1>1, <2>2 DEF Seated
    <3>. QED  BY <1>1, <2>2, <3>1, WhereIs, WhereIsNext DEF WhereFacts, Outside, Seated
  <2>. QED  BY <2>1, <2>2
<1>6. Door!Room(g) <=> ~Full(g)
  BY RoomIsNotFull
<1>. QED  BY <1>2, <1>4, <1>5, <1>6, AtMoves

\* A step of one thread and of its client leaves the other clients where they are.
LEMMA OthersStay ==
  ASSUME Seated, Seated', NEW u \in Usr, NEW g \in Guest, conn[u] = g,
         conn'[u] \in {g, None}, place'[g] # "waiting",
         \A v \in Usr \ {u} : conn'[v] = conn[v] /\ pc'[v] = pc[v],
         \A h \in Guest \ {g} : place'[h] = place[h]
  PROVE  \A h \in Guest \ {g} : Where(h)' = Where(h)
<1>. SUFFICES ASSUME NEW h \in Guest \ {g} PROVE Where(h)' = Where(h)
  OBVIOUS
<1>1. CASE \E v \in Usr : conn[v] = h
  <2>1. PICK v \in Usr : conn[v] = h
    BY <1>1
  <2>2. v # u /\ conn'[v] = h /\ pc'[v] = pc[v]
    BY <2>1
  <2>. QED  BY <2>1, <2>2, WhereIs, WhereIsNext DEF WhereFacts, PlaceOf
<1>2. CASE \A v \in Usr : conn[v] # h
  <2>1. \A v \in Usr : conn'[v] # h
    BY <1>2, GuestAssumption
  <2>. QED  BY <1>2, <2>1, WhereIs, WhereIsNext DEF WhereFacts, Outside
<1>. QED  BY <1>1, <1>2

\* The end of a connection: a client that was turned away leaves, one that was
\* counted out has left already.
LEMMA AtCloseConn ==
  ASSUME Seated, Seated', NEW u \in Usr, NEW from \in {"busy", "close"},
         Go(u, from, "idle"), CloseConn(u), NEW g \in Guest, conn[u] = g
  PROVE  IF from = "busy" THEN Door!Leave(g) ELSE at' = at
<1>1. /\ pc[u] = from /\ pc' = [pc EXCEPT ![u] = "idle"]
      /\ place' = [place EXCEPT ![g] = "away"] /\ conn' = [conn EXCEPT ![u] = None]
      /\ \A v \in Usr : conn[v] = g => v = u
  BY DEF Seated, Go, CloseConn
<1>2. Where(g) = IF from = "busy" THEN "turned" ELSE "away"
  BY <1>1, WhereIs DEF WhereFacts, PlaceOf, Served
<1>3. Where(g)' = "away"
  <2>1. \A v \in Usr : conn'[v] # g
    BY <1>1 DEF Seated
  <2>2. place'[g] = "away"
    BY <1>1 DEF Seated
  <2>. QED  BY <2>1, <2>2, WhereIsNext DEF WhereFacts, Outside
<1>4. \A h \in Guest \ {g} : Where(h)' = Where(h)
  <2>1. conn'[u] = None /\ place'[g] = "away"
    BY <1>1 DEF Seated
  <2>2. \A v \in Usr \ {u} : conn'[v] = conn[v] /\ pc'[v] = pc[v]
    BY <1>1 DEF Seated
  <2>3. \A h \in Guest \ {g} : place'[h] = place[h]
    BY <1>1 DEF Seated
  <2>. QED  BY <2>1, <2>2, <2>3, OthersStay
<1>. QED  BY <1>2, <1>3, <1>4, AtMoves

\* del_av_usr_list: the client is out as soon as it is counted out.
LEMMA AtDelete ==
  ASSUME Seated, Seated', NEW u \in Usr, Delete(u), NEW g \in Guest, conn[u] = g
  PROVE  Door!Leave(g)
<1>1. /\ pc[u] = "del" /\ pc' = [pc EXCEPT ![u] = "delUsr"]
      /\ place' = place /\ conn' = conn
  BY DEF Delete, Go, netVars
<1>2. Where(g) = "inside"
  BY <1>1, WhereIs DEF WhereFacts, PlaceOf, Served
<1>3. Where(g)' = "away"
  <2>1. conn'[u] = g /\ pc'[u] = "delUsr"
    BY <1>1 DEF Seated
  <2>. QED  BY <2>1, WhereIsNext DEF WhereFacts, PlaceOf, Served
<1>4. \A h \in Guest \ {g} : Where(h)' = Where(h)
  <2>1. conn'[u] = g /\ place'[g] # "waiting"
    BY <1>1 DEF Seated
  <2>2. \A v \in Usr \ {u} : conn'[v] = conn[v] /\ pc'[v] = pc[v]
    BY <1>1 DEF Seated
  <2>. QED  BY <1>1, <2>1, <2>2, OthersStay
<1>. QED  BY <1>2, <1>3, <1>4, AtMoves

\* A client that connects arrives.
LEMMA AtConnect ==
  ASSUME Seated, Seated', NEW g \in Guest, Connect(g)
  PROVE  Door!Arrive(g)
<1>1. /\ place[g] = "away" /\ place' = [place EXCEPT ![g] = "waiting"]
      /\ conn' = conn /\ pc' = pc
  BY DEF Connect
<1>2. \A v \in Usr : conn[v] # g
  BY <1>1 DEF Seated
<1>3. Where(g) = "away" /\ Where(g)' = "waiting"
  <2>1. place'[g] = "waiting" /\ \A v \in Usr : conn'[v] # g
    BY <1>1, <1>2 DEF Seated
  <2>. QED  BY <1>1, <1>2, <2>1, WhereIs, WhereIsNext DEF WhereFacts, Outside
<1>4. ASSUME NEW h \in Guest \ {g} PROVE Where(h)' = Where(h)
  <2>1. place'[h] = place[h]
    BY <1>1 DEF Seated
  <2>. QED  BY <1>1, <2>1 DEF Where
<1>. QED  BY <1>3, <1>4, AtMoves

LEMMA AtNext == Seated /\ Seated' /\ CountsHonest /\ [Next]_vars => [Door!Next]_at
<1>. SUFFICES ASSUME Seated, Seated', CountsHonest, [Next]_vars
              PROVE  Door!Next \/ at' = at
  OBVIOUS
<1>1. ASSUME NEW g \in Guest, Connect(g) PROVE Door!Next
  BY <1>1, AtConnect DEF Door!Next
<1>2. ASSUME NEW g \in Guest, HangUp(g) PROVE at' = at
  BY <1>2, NobodyMoves DEF HangUp, Seated, PlaceOf
<1>3. ASSUME NEW u \in Usr, Serve(u) PROVE Door!Next \/ at' = at
  <2>1. CASE Listen(u)
    BY <2>1, ThreadMoves DEF Listen, Step, netVars
  <2>2. CASE Busy(u)
    <3>1. Go(u, "busy", "idle") /\ CloseConn(u)
      BY <2>2 DEF Busy
    <3>2. conn[u] \in Guest
      BY <3>1 DEF Go, Seated
    <3>. QED  BY <3>1, <3>2, AtCloseConn DEF Door!Next
  <2>3. CASE SetUp(u)
    BY <2>3, ThreadMoves DEF SetUp, Step, Served, netVars
  <2>4. CASE Cut(u)
    BY <2>4, ThreadMoves DEF Cut, Step, Served, netVars
  <2>9. CASE PutDown(u)
    BY <2>9, ThreadMoves DEF PutDown, Step, Served, netVars
  <2>5. CASE Select(u)
    BY <2>5, ThreadMoves DEF Select, Step, Served, netVars
  <2>6. CASE Delete(u)
    <3>1. conn[u] \in Guest
      BY <2>6 DEF Delete, Go, Seated
    <3>. QED  BY <2>6, <3>1, AtDelete DEF Door!Next
  <2>7. CASE DeleteUsr(u)
    BY <2>7, ThreadMoves DEF DeleteUsr, Step, Served, netVars
  <2>8. CASE Close(u)
    <3>1. Go(u, "close", "idle") /\ CloseConn(u)
      BY <2>8 DEF Close
    <3>2. conn[u] \in Guest
      BY <3>1 DEF Go, Seated
    <3>. QED  BY <3>1, <3>2, AtCloseConn
  <2>. QED  BY <1>3, <2>1, <2>2, <2>3, <2>4, <2>5, <2>6, <2>7, <2>8, <2>9 DEF Serve
<1>4. ASSUME NEW u \in Usr, Answer(u) PROVE Door!Next
  BY <1>4, AtAccept DEF Answer, Door!Next
<1>5. ASSUME NEW u \in Usr, Receive(u) PROVE at' = at
  <2>1. CASE Idle(u)
    BY <2>1, ThreadMoves DEF Idle, Step, Served, netVars
  <2>2. CASE Drop(u)
    BY <2>2, ThreadMoves DEF Drop, Step, Served, netVars
  <2>3. CASE Unsubscribe(u)
    BY <2>3, ThreadMoves DEF Unsubscribe, Step, Served, netVars
  <2>4. CASE \E s \in {1, 3} : Subscribe(u, s)
    BY <2>4, ThreadMoves DEF Subscribe, Step, Served, netVars
  <2>. QED  BY <1>5, <2>1, <2>2, <2>3, <2>4 DEF Receive
<1>6. ASSUME NEW u \in Usr, AcceptFails(u) PROVE at' = at
  BY <1>6, ThreadMoves DEF AcceptFails, Step, netVars
<1>7. ASSUME Send \/ Blocks \/ UNCHANGED vars PROVE at' = at
  <2>1. UNCHANGED <<place, pc, conn>>
    BY <1>7 DEF Send, Test, Lock, Written, WriteFails, Blocks, vars, netVars
  <2>. QED  BY <2>1 DEF at, Where
<1>. QED  BY <1>1, <1>2, <1>3, <1>4, <1>5, <1>6, <1>7 DEF Next

LEMMA AtInit == Init => Door!Init
  BY DEF Init, Door!Init, Where

\* The live stream server admits clients as Admission promises: a step of the
\* server lets in, turns away or lets go one client as there is room in its
\* class, or is none of the client's business.
THEOREM ImplementsAdmission == Spec => AdmitsAsPromised
<1>1. Init => Seated /\ CountsHonest
  BY SeatedInit, CountsInit
<1>2. Seated /\ CountsHonest /\ [Next]_vars => (Seated /\ CountsHonest)'
  BY SeatedNext, CountsNext
<1>3. Seated /\ Seated' /\ CountsHonest /\ [Next]_vars
        => [Door!Next]_[g \in Guest |-> Where(g)]
  BY AtNext DEF at
<1>. QED  BY <1>1, <1>2, <1>3, AtInit, PTL DEF Spec, AdmitsAsPromised, Door!Spec

--------------------------------------------------------------------------------
(* The sender writes to its subscriber.                                      *)

\* The steps of a thread whose entry may be written to.
Opened == {"top", "cut", "select", "del", "delUsr"}

\* A descriptor and a subscription are those of the client the thread has, and
\* the entry the sender has tested is not given to another client before it has
\* left it.
Streams ==
  /\ si \in Usr /\ fd \in [Usr -> Guest \cup {None}] /\ serv \in [Usr -> {-2, 0, 1, 3}]
  /\ \A u \in Usr : fd[u] # None => fd[u] = conn[u] /\ pc[u] \in Opened
  /\ \A u \in Usr : serv[u] = 3 => conn[u] \in asked /\ pc[u] \in Opened
  /\ spc # "test" => /\ pc[si] \in Opened \cup {"close", "idle"}
                     /\ conn[si] # None => conn[si] \in asked

LEMMA StreamsInit == Init => Streams
  BY LimitAssumption DEF Init, Streams, Usr, NUsr

\* The end of a connection takes the subscription of its client away and no other.
LEMMA StreamsClose ==
  ASSUME Seated, Streams, NEW u \in Usr, NEW from \in {"busy", "close"},
         Go(u, from, "idle"), CloseConn(u), UNCHANGED <<fd, serv, spc, si>>
  PROVE  Streams'
<1>1. /\ pc[u] = from /\ pc' = [pc EXCEPT ![u] = "idle"]
      /\ conn' = [conn EXCEPT ![u] = None] /\ asked' = asked \ {conn[u]}
      /\ conn[u] # None /\ \A v \in Usr : conn[v] = conn[u] => v = u
  BY DEF Go, CloseConn, Seated
<1>2. \A v \in Usr \ {u} : /\ conn'[v] = conn[v] /\ pc'[v] = pc[v]
                           /\ conn[v] \in asked => conn'[v] \in asked'
  BY <1>1 DEF Seated
<1>3. fd[u] = None /\ serv[u] # 3 /\ conn'[u] = None /\ pc'[u] = "idle"
  BY <1>1 DEF Streams, Opened, Seated
<1>. QED  BY <1>2, <1>3 DEF Streams, Opened

\* A step of a thread between steps at which its entry may be written to.
LEMMA StreamsMove ==
  ASSUME Seated, Streams, NEW u \in Usr, NEW from \in Opened, NEW to \in Opened,
         Go(u, from, to), UNCHANGED <<conn, fd, serv, spc, si, asked>>
  PROVE  Streams'
  BY DEF Streams, Seated, Go, Opened

LEMMA StreamsServe ==
  ASSUME SleepCovers, Seated, Streams, NEW u \in Usr, Serve(u)
  PROVE  Streams'
<1>1. CASE Listen(u)
  <2>1. spc = "test" \/ si # u
    BY <1>1 DEF Listen, Tested
  <2>2. /\ pc[u] = "idle" /\ pc' = [pc EXCEPT ![u] = "accept"]
        /\ UNCHANGED <<conn, fd, serv, spc, si, asked>>
    BY <1>1 DEF Listen, Go, hist, senderVars
  <2>. QED  BY <2>1, <2>2 DEF Streams, Seated, Opened
<1>2. CASE Busy(u)
  BY <1>2, StreamsClose DEF Busy, entryVars, senderVars
<1>3. CASE SetUp(u)
  <2>1. /\ pc[u] = "setup" /\ pc' = [pc EXCEPT ![u] = "top"]
        /\ fd' = [fd EXCEPT ![u] = conn[u]]
        /\ UNCHANGED <<conn, serv, spc, si, asked>>
    BY <1>3 DEF SetUp, Go, hist, senderVars
  <2>. QED  BY <2>1 DEF Streams, Seated, Opened
<1>4. CASE Cut(u) \/ PutDown(u)
  <2>1. CASE Cut(u)
    BY <2>1, StreamsMove DEF Cut, Opened, entryVars, senderVars, hist
  <2>2. CASE PutDown(u)
    BY <2>2, StreamsMove DEF PutDown, Opened, entryVars, senderVars, hist
  <2>. QED  BY <1>4, <2>1, <2>2
<1>5. CASE Select(u)
  BY <1>5, StreamsMove DEF Select, Opened, entryVars, senderVars, hist
<1>6. CASE Delete(u)
  BY <1>6, StreamsMove DEF Delete, Opened, entryVars, senderVars, hist
<1>7. CASE DeleteUsr(u)
  <2>1. /\ pc[u] = "delUsr" /\ pc' = [pc EXCEPT ![u] = "close"]
        /\ fd' = [fd EXCEPT ![u] = None] /\ serv' = [serv EXCEPT ![u] = 0]
        /\ UNCHANGED <<conn, spc, si, asked>>
    BY <1>7 DEF DeleteUsr, Go, hist, senderVars
  <2>. QED  BY <2>1 DEF Streams, Seated, Opened
<1>8. CASE Close(u)
  BY <1>8, StreamsClose DEF Close, entryVars, senderVars
<1>. QED  BY <1>1, <1>2, <1>3, <1>4, <1>5, <1>6, <1>7, <1>8 DEF Serve

LEMMA StreamsNext == SleepCovers /\ Seated /\ Streams /\ [Next]_vars => Streams'
<1>. SUFFICES ASSUME SleepCovers, Seated, Streams, [Next]_vars PROVE Streams'
  OBVIOUS
<1>1. ASSUME NEW u \in Usr, NEW g \in Guest, Accept(u, g) PROVE Streams'
  <2>1. /\ pc[u] = "accept"
        /\ \E to \in {"busy", "setup"} : pc' = [pc EXCEPT ![u] = to]
        /\ conn' = [conn EXCEPT ![u] = g]
        /\ fd' = [fd EXCEPT ![u] = None] /\ serv' = [serv EXCEPT ![u] = 0]
        /\ UNCHANGED <<spc, si, asked>>
    BY <1>1 DEF Accept, Go, hist
  <2>. QED  BY <2>1 DEF Streams, Seated, Opened
<1>2. ASSUME NEW u \in Usr, AcceptFails(u) PROVE Streams'
  <2>1. /\ pc[u] = "accept" /\ pc' = [pc EXCEPT ![u] = "idle"]
        /\ UNCHANGED <<conn, fd, serv, spc, si, asked>>
    BY <1>2 DEF AcceptFails, Go, hist, senderVars, entryVars
  <2>. QED  BY <2>1 DEF Streams, Seated, Opened
<1>3. ASSUME NEW u \in Usr, Receive(u) PROVE Streams'
  <2>1. CASE Idle(u) \/ Drop(u)
    BY <2>1, StreamsMove DEF Idle, Drop, Opened, entryVars, senderVars, hist
  <2>2. CASE Unsubscribe(u)
    <3>1. /\ pc[u] = "select" /\ \E to \in {"top", "del"} : pc' = [pc EXCEPT ![u] = to]
          /\ serv' = [serv EXCEPT ![u] = -2]
          /\ UNCHANGED <<conn, fd, spc, si, asked>>
      BY <2>2 DEF Unsubscribe, Go, hist, senderVars
    <3>. QED  BY <3>1 DEF Streams, Seated, Opened
  <2>3. ASSUME NEW s \in {1, 3}, Subscribe(u, s) PROVE Streams'
    <3>1. /\ pc[u] = "select" /\ pc' = [pc EXCEPT ![u] = "top"]
          /\ serv' = [serv EXCEPT ![u] = s]
          /\ asked' = IF s = 3 THEN asked \cup {conn[u]} ELSE asked
          /\ UNCHANGED <<conn, fd, spc, si>>
      BY <2>3 DEF Subscribe, Go, senderVars
    <3>. QED  BY <3>1 DEF Streams, Seated, Opened
  <2>. QED  BY <1>3, <2>1, <2>2, <2>3 DEF Receive
<1>4. CASE Send \/ Blocks
  <2>1. /\ UNCHANGED <<pc, conn, fd, serv, asked>>
        /\ \/ spc' = "test" /\ Onward
           \/ spc' # "test" /\ si' = si /\ (spc = "test" => serv[si] = 3)
    BY <1>4 DEF Send, Test, Lock, Written, WriteFails, Unlock, Blocks, entryVars, hist
  <2>2. ASSUME Onward PROVE si' \in Usr
    BY <2>2, LimitAssumption DEF Onward, Streams, Usr, NUsr
  <2>. QED  BY <2>1, <2>2 DEF Streams, Opened
<1>5. CASE (\E g \in Guest : Connect(g) \/ HangUp(g)) \/ UNCHANGED vars
  BY <1>5 DEF Connect, HangUp, vars, entryVars, senderVars, hist, Streams, Opened
<1>. QED  BY <1>1, <1>2, <1>3, <1>4, <1>5, StreamsServe DEF Next, Answer

\* While the second of sleep outlasts the sender's way to an entry's mutex, the
\* sender writes only to the open connection of a client that has asked for it.
THEOREM StreamsRight == SleepCovers => (Spec => []StreamsToItsSubscriber)
<1>. SUFFICES ASSUME SleepCovers PROVE Spec => []StreamsToItsSubscriber
  OBVIOUS
<1>1. Init => Seated /\ Streams
  BY SeatedInit, StreamsInit
<1>2. Seated /\ Streams /\ [Next]_vars => (Seated /\ Streams)'
  BY SeatedNext, StreamsNext
<1>3. Seated /\ Streams => StreamsToItsSubscriber
  BY DEF Seated, Streams, StreamsToItsSubscriber
<1>. QED  BY <1>1, <1>2, <1>3, PTL DEF Spec

--------------------------------------------------------------------------------
(* Types.                                                                    *)

\* The variables that Seated says nothing of.
Rest ==
  /\ lmx \in Usr \cup {Free} /\ smx \in Usr \cup {Free}
  /\ writeErr \in BOOLEAN /\ errs \in 0..MaxErr
  /\ used \in [Usr -> BOOLEAN] /\ fd \in [Usr -> Guest \cup {None}]
  /\ serv \in [Usr -> {-2, 0, 1, 3}] /\ umx \in [Usr -> BOOLEAN]
  /\ spc \in {"test", "send", "write", "blocked"} /\ si \in Usr
  /\ asked \subseteq Guest /\ failed \subseteq Guest
Limits == lanUsrs <= MaxLan /\ wanUsrs <= MaxWan

LEMMA RestInit == Init => Rest /\ Limits
<1>. SUFFICES ASSUME Init PROVE Rest /\ Limits
  OBVIOUS
<1>1. 0 \in Usr /\ 0 \in 0..MaxErr
  BY DEF Usr, NUsr
<1>2. Limits
  BY DEF Init, Limits
<1>3. /\ used \in [Usr -> BOOLEAN] /\ fd \in [Usr -> Guest \cup {None}]
      /\ serv \in [Usr -> {-2, 0, 1, 3}] /\ umx \in [Usr -> BOOLEAN]
  BY DEF Init
<1>. QED  BY <1>1, <1>2, <1>3 DEF Init, Rest

LEMMA RestThread ==
  ASSUME Seated, Rest, NEW u \in Usr, Serve(u) \/ Answer(u) \/ Receive(u) \/ AcceptFails(u)
  PROVE  Rest'
<1>. USE DEF entryVars, poolVars, senderVars, hist, netVars
<1>1. CASE Listen(u)
  BY <1>1 DEF Listen, Rest
<1>2. CASE AcceptFails(u)
  <2>1. errs' \in 0..MaxErr
    BY <1>2 DEF AcceptFails, Rest
  <2>. QED  BY <1>2, <2>1 DEF AcceptFails, Rest
<1>3. CASE Busy(u) \/ Close(u)
  BY <1>3 DEF Busy, Close, CloseConn, Rest
<1>4. CASE SetUp(u)
  <2>1. conn[u] \in Guest \cup {None}
    BY DEF Seated
  <2>. QED  BY <1>4, <2>1 DEF SetUp, Rest
<1>5. CASE Cut(u) \/ PutDown(u) \/ Select(u) \/ Idle(u) \/ Drop(u)
  BY <1>5 DEF Cut, PutDown, Select, Idle, Drop, Rest
<1>6. CASE Delete(u) \/ DeleteUsr(u)
  BY <1>6 DEF Delete, DeleteUsr, Rest
<1>7. ASSUME NEW g \in Guest, Accept(u, g) PROVE Rest'
  BY <1>7 DEF Accept, Rest
<1>8. CASE Unsubscribe(u)
  BY <1>8 DEF Unsubscribe, Rest
<1>9. ASSUME NEW s \in {1, 3}, Subscribe(u, s) PROVE Rest'
  <2>1. conn[u] \in Guest
    BY <1>9 DEF Subscribe, Go, Seated
  <2>. QED  BY <1>9, <2>1 DEF Subscribe, Rest
<1>. QED  BY <1>1, <1>3, <1>5, <1>6, <1>7, <1>8, <1>9, <1>2, <1>4 DEF Serve, Answer, Receive

LEMMA RestNext == Seated /\ Rest /\ [Next]_vars => Rest'
<1>. SUFFICES ASSUME Seated, Rest, [Next]_vars PROVE Rest'
  OBVIOUS
<1>. USE DEF entryVars, poolVars, senderVars, hist, netVars
<1>1. CASE Send \/ Blocks
  <2>1. (si + 1) % NUsr \in Usr
    BY DEF Usr, NUsr, Rest
  <2>. QED  BY <1>1, <2>1 DEF Send, Test, Lock, Written, WriteFails, Blocks, Unlock, Onward, Rest
<1>2. ASSUME NEW g \in Guest, Connect(g) \/ HangUp(g) PROVE Rest'
  BY <1>2 DEF Connect, HangUp, Rest
<1>3. CASE UNCHANGED vars
  BY <1>3 DEF vars, Rest
<1>. QED  BY <1>1, <1>2, <1>3, RestThread DEF Next

\* A client is counted up only where its class has room.
LEMMA LimitsNext == Seated /\ CountsHonest /\ Limits /\ [Next]_vars => Limits'
<1>. SUFFICES ASSUME Seated, CountsHonest, Limits, [Next]_vars PROVE Limits'
  OBVIOUS
<1>1. lanUsrs \in Nat /\ wanUsrs \in Nat
  BY UsrSets DEF CountsHonest, Counted
<1>2. ASSUME NEW u \in Usr, NEW g \in Guest, Accept(u, g) PROVE Limits'
  <2>1. CASE Full(g)
    BY <1>2, <2>1 DEF Accept, Limits
  <2>2. CASE ~Full(g)
    <3>1. Count(g, 1)
      BY <1>2, <2>2 DEF Accept
    <3>2. g \in Lan <=> g \notin Wan
      BY DEF Guest
    <3>. QED  BY <1>1, <2>2, <3>1, <3>2 DEF Count, Full, Limits
  <2>. QED  BY <2>1, <2>2
<1>3. ASSUME NEW u \in Usr, Delete(u) PROVE Limits'
  BY <1>1, <1>3 DEF Delete, Count, Limits
<1>4. CASE ~Recounts
  BY <1>4, CountedSame DEF Limits
<1>. QED  BY <1>2, <1>3, <1>4 DEF Recounts

\* The variables keep their types: an entry names a client or none, the counters
\* never pass their limits nor fall below zero, the sender's place is in the list.
THEOREM TypeCorrect == Spec => []TypeOK
<1>1. Init => Seated /\ CountsHonest /\ Rest /\ Limits
  BY SeatedInit, CountsInit, RestInit
<1>2. Seated /\ CountsHonest /\ Rest /\ Limits /\ [Next]_vars
        => (Seated /\ CountsHonest /\ Rest /\ Limits)'
  BY SeatedNext, CountsNext, RestNext, LimitsNext
<1>3. Seated /\ CountsHonest /\ Rest /\ Limits => TypeOK
  <2>. SUFFICES ASSUME Seated, CountsHonest, Rest, Limits PROVE TypeOK
    OBVIOUS
  <2>1. lanUsrs \in Nat /\ wanUsrs \in Nat
    BY UsrSets DEF CountsHonest, Counted
  <2>2. lanUsrs \in 0..MaxLan /\ wanUsrs \in 0..MaxWan
    BY <2>1 DEF Limits
  <2>. QED  BY <2>2 DEF Seated, Rest, TypeOK
<1>. QED  BY <1>1, <1>2, <1>3, PTL DEF Spec
================================================================================
