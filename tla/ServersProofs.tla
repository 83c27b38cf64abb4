------------------------------ MODULE ServersProofs ------------------------------
(***************************************************************************)
(* Theorems about the two servers MCServers puts side by side: the command *)
(* connection server (CmdServer), for every number of threads and every    *)
(* set of clients, and the audio playback server (AplayServer, here the    *)
(* instance Aplay), for every number of users and every set of clients: it *)
(* implements Admission, and a client that keeps to the protocol has whole *)
(* frames decoded.                                                         *)
(***************************************************************************)
EXTENDS MCServers, FiniteSetTheorems, TLAPS

--------------------------------------------------------------------------------
(* The audio playback server.                                                *)

\* What the audio server's constants are: a number of users, and a name of no
\* client and no thread.
Sane == MaxUsrs \in Nat /\ None \notin AplayGuest /\ None \notin Aplay!Usr

\* The steps of a thread whose client is counted.
Served == {"serve", "del"}

\* A thread has a client from accept to close, and no two threads the same one.
Seated ==
  /\ aPlace \in [AplayGuest -> {"away", "waiting", "here", "gone"}]
  /\ aPc \in [Aplay!Usr -> Aplay!Step] /\ aConn \in [Aplay!Usr -> AplayGuest \cup {None}]
  /\ \A u \in Aplay!Usr : aConn[u] = None <=> aPc[u] \in {"lock", "accept"}
  /\ \A u, v \in Aplay!Usr : aConn[u] = aConn[v] /\ aConn[u] # None => u = v
  /\ \A u \in Aplay!Usr : aConn[u] # None => aPlace[aConn[u]] \in {"here", "gone"}

LEMMA SeatedInit == Sane /\ Aplay!Init => Seated
  BY DEF Sane, Aplay!Init, Seated, Aplay!Step

\* What a thread does for its client while it serves it.
Serves(u) ==
  /\ aPc[u] = "serve" /\ UNCHANGED <<aPlace, lmx, usrs, aConn>>
  /\ aPc' = aPc \/ aPc' = [aPc EXCEPT ![u] = "del"]

LEMMA HearServes ==
  ASSUME NEW u \in Aplay!Usr, NEW g \in AplayGuest, Aplay!Hear(u, g)
  PROVE  Serves(u) /\ g = aConn[u]
  BY DEF Aplay!Hear, Aplay!Subscribe, Aplay!UnknownCommand, Aplay!Start, Aplay!Headless,
         Aplay!Frame, Aplay!Late, Aplay!NoHead, Aplay!CutShort, Aplay!Reads, Aplay!Go,
         Serves

LEMMA DropServes ==
  ASSUME NEW u \in Aplay!Usr, Aplay!Drop(u) PROVE Serves(u)
  BY DEF Aplay!Drop, Aplay!Go, Serves

\* A step of the seats: every step of Next is one of these.
Seating(u) ==
  \/ Serves(u) \/ Aplay!Lock(u) \/ Aplay!AcceptFails(u)
  \/ \E g \in AplayGuest : Aplay!Accept(u, g)
  \/ Aplay!Busy(u) \/ Aplay!Delete(u) \/ Aplay!Close(u)

LEMMA NextSeats ==
  ASSUME Aplay!Next
  PROVE  \/ \E g \in AplayGuest : Aplay!Connect(g) \/ Aplay!HangUp(g)
         \/ \E u \in Aplay!Usr : Seating(u)
<1>1. ASSUME NEW u \in Aplay!Usr, Aplay!Work(u) PROVE Seating(u)
  BY <1>1, DropServes DEF Aplay!Work, Seating
<1>2. ASSUME NEW u \in Aplay!Usr, NEW g \in AplayGuest, Aplay!Hear(u, g) PROVE Seating(u)
  BY <1>2, HearServes DEF Seating
<1>. QED  BY <1>1, <1>2 DEF Aplay!Next, Seating

LEMMA SeatedClose ==
  ASSUME Sane, Seated, NEW u \in Aplay!Usr, NEW from \in {"busy", "close"},
         Aplay!Go(u, from, "lock"), Aplay!CloseConn(u)
  PROVE  Seated'
<1>1. /\ aPc[u] = from /\ aPc' = [aPc EXCEPT ![u] = "lock"] /\ aConn[u] \in AplayGuest
      /\ aPlace' = [aPlace EXCEPT ![aConn[u]] = "away"] /\ aConn' = [aConn EXCEPT ![u] = None]
      /\ \A v \in Aplay!Usr \ {u} : aConn[v] # aConn[u]
  BY DEF Aplay!Go, Aplay!CloseConn, Seated
<1>. QED  BY <1>1 DEF Seated, Aplay!Step, Sane

LEMMA SeatedNext == Sane /\ Seated /\ [Aplay!Next]_(Aplay!vars) => Seated'
<1>. SUFFICES ASSUME Sane, Seated, [Aplay!Next]_(Aplay!vars) PROVE Seated'
  OBVIOUS
<1>1. ASSUME NEW g \in AplayGuest, Aplay!Connect(g) \/ Aplay!HangUp(g) PROVE Seated'
  BY <1>1 DEF Aplay!Connect, Aplay!HangUp, Aplay!Moves, Seated
<1>2. ASSUME NEW u \in Aplay!Usr, Seating(u) PROVE Seated'
  <2>1. CASE Serves(u)
    BY <2>1 DEF Serves, Seated, Aplay!Step
  <2>2. CASE Aplay!Lock(u) \/ Aplay!AcceptFails(u)
    BY <2>2 DEF Aplay!Lock, Aplay!AcceptFails, Aplay!Go, Seated, Aplay!Step
  <2>3. ASSUME NEW g \in AplayGuest, Aplay!Accept(u, g) PROVE Seated'
    <3>1. /\ aPlace[g] = "waiting" /\ aPlace' = [aPlace EXCEPT ![g] = "here"]
          /\ aConn' = [aConn EXCEPT ![u] = g] /\ aPc[u] = "accept"
          /\ \E to \in {"busy", "serve"} : aPc' = [aPc EXCEPT ![u] = to]
      BY <2>3 DEF Aplay!Accept, Aplay!Moves, Aplay!Go
    <3>2. \A v \in Aplay!Usr : aConn[v] # g
      BY <3>1 DEF Seated, Sane
    <3>. QED  BY <3>1, <3>2 DEF Seated, Aplay!Step, Sane
  <2>4. CASE Aplay!Busy(u) \/ Aplay!Close(u)
    BY <2>4, SeatedClose DEF Aplay!Busy, Aplay!Close
  <2>5. CASE Aplay!Delete(u)
    BY <2>5 DEF Aplay!Delete, Aplay!Go, Seated, Aplay!Step
  <2>. QED  BY <1>2, <2>1, <2>2, <2>3, <2>4, <2>5 DEF Seating
<1>3. CASE UNCHANGED Aplay!vars
  BY <1>3 DEF Aplay!vars, Seated
<1>. QED  BY <1>1, <1>2, <1>3, NextSeats

--------------------------------------------------------------------------------
(* The count.                                                                *)

AplayCounted == {u \in Aplay!Usr : aPc[u] \in Served}
CountHonest == usrs = Cardinality(AplayCounted) /\ IsFiniteSet(AplayCounted)

LEMMA CountInit == Sane /\ Aplay!Init => CountHonest
<1>. SUFFICES ASSUME Sane, Aplay!Init PROVE CountHonest
  OBVIOUS
<1>1. AplayCounted = {} /\ usrs = 0
  BY DEF Aplay!Init, AplayCounted, Served
<1>. QED  BY <1>1, FS_EmptySet DEF CountHonest

LEMMA CountNext == Sane /\ Seated /\ CountHonest /\ [Aplay!Next]_(Aplay!vars) => CountHonest'
<1>. SUFFICES ASSUME Sane, Seated, CountHonest, [Aplay!Next]_(Aplay!vars) PROVE CountHonest'
  OBVIOUS
<1>1. CASE AplayCounted' = AplayCounted /\ usrs' = usrs
  BY <1>1 DEF CountHonest
<1>2. ASSUME NEW g \in AplayGuest, Aplay!Connect(g) \/ Aplay!HangUp(g)
      PROVE AplayCounted' = AplayCounted /\ usrs' = usrs
  BY <1>2 DEF Aplay!Connect, Aplay!HangUp, AplayCounted
<1>3. ASSUME NEW u \in Aplay!Usr,
             Serves(u) \/ Aplay!Lock(u) \/ Aplay!AcceptFails(u) \/ Aplay!Busy(u) \/ Aplay!Close(u)
      PROVE AplayCounted' = AplayCounted /\ usrs' = usrs
  BY <1>3 DEF Serves, Aplay!Lock, Aplay!AcceptFails, Aplay!Busy, Aplay!Close, Aplay!Go,
              AplayCounted, Served, Seated
<1>4. ASSUME NEW u \in Aplay!Usr, NEW g \in AplayGuest, Aplay!Accept(u, g) PROVE CountHonest'
  <2>1. CASE usrs' = usrs /\ Aplay!Go(u, "accept", "busy")
    <3>1. AplayCounted' = AplayCounted
      BY <2>1 DEF Aplay!Go, AplayCounted, Served, Seated
    <3>. QED  BY <2>1, <3>1 DEF CountHonest
  <2>2. CASE usrs' = usrs + 1 /\ Aplay!Go(u, "accept", "serve")
    <3>1. u \notin AplayCounted /\ AplayCounted' = AplayCounted \cup {u}
      BY <2>2 DEF Aplay!Go, AplayCounted, Served, Seated
    <3>2. /\ IsFiniteSet(AplayCounted \cup {u})
          /\ Cardinality(AplayCounted \cup {u}) = Cardinality(AplayCounted) + 1
      BY <3>1, FS_AddElement DEF CountHonest
    <3>. QED  BY <2>2, <3>1, <3>2 DEF CountHonest
  <2>. QED  BY <1>4, <2>1, <2>2 DEF Aplay!Accept
<1>5. ASSUME NEW u \in Aplay!Usr, Aplay!Delete(u) PROVE CountHonest'
  <2>1. u \in AplayCounted /\ AplayCounted' = AplayCounted \ {u} /\ usrs' = usrs - 1
    BY <1>5 DEF Aplay!Delete, Aplay!Go, AplayCounted, Served, Seated
  <2>2. /\ IsFiniteSet(AplayCounted \ {u})
        /\ Cardinality(AplayCounted \ {u}) = Cardinality(AplayCounted) - 1
    BY <2>1, FS_RemoveElement DEF CountHonest
  <2>. QED  BY <2>1, <2>2 DEF CountHonest
<1>6. CASE UNCHANGED Aplay!vars
  BY <1>1, <1>6 DEF Aplay!vars, AplayCounted
<1>. QED  BY <1>1, <1>2, <1>3, <1>4, <1>5, <1>6, NextSeats DEF Seating

--------------------------------------------------------------------------------
(* The server implements Admission.                                          *)

\* Where a client is, told by the thread that has it.
PlaceOf(u) == IF aPc[u] = "busy" THEN "turned" ELSE IF aPc[u] \in Served THEN "inside" ELSE "away"
Outside(g) == IF aPlace[g] = "waiting" THEN "waiting" ELSE "away"

WhereFacts ==
  \A g \in AplayGuest :
    /\ \A u \in Aplay!Usr : aConn[u] = g => Aplay!Where(g) = PlaceOf(u)
    /\ (\A u \in Aplay!Usr : aConn[u] # g) => Aplay!Where(g) = Outside(g)

LEMMA WhereIs == Sane /\ Seated => WhereFacts
<1>. SUFFICES ASSUME Sane, Seated, NEW g \in AplayGuest
              PROVE  /\ \A u \in Aplay!Usr : aConn[u] = g => Aplay!Where(g) = PlaceOf(u)
                     /\ (\A u \in Aplay!Usr : aConn[u] # g) => Aplay!Where(g) = Outside(g)
  BY DEF WhereFacts
<1>1. ASSUME NEW u \in Aplay!Usr, aConn[u] = g PROVE Aplay!Where(g) = PlaceOf(u)
  <2>1. aPlace[g] # "waiting" /\ aPc[u] \in {"busy", "serve", "del", "close"}
    BY <1>1 DEF Seated, Sane, Aplay!Step
  <2>2. \A v \in Aplay!Usr : aConn[v] = g => v = u
    BY <1>1 DEF Seated, Sane
  <2>. QED  BY <1>1, <2>1, <2>2 DEF Aplay!Where, PlaceOf, Served
<1>2. ASSUME \A u \in Aplay!Usr : aConn[u] # g PROVE Aplay!Where(g) = Outside(g)
  BY <1>2 DEF Aplay!Where, Outside
<1>. QED  BY <1>1, <1>2

LEMMA WhereIsNext == Sane /\ Seated' => WhereFacts'
<1>1. Sane' /\ Seated' => WhereFacts'
  BY WhereIs, PTL
<1>2. Sane => Sane'
  BY DEF Sane, Aplay!Usr, Aplay!NUsr
<1>. QED  BY <1>1, <1>2

\* The clients inside are as many as the threads counted for them.
InsideNow == {g \in AplayGuest : Aplay!Where(g) = "inside"}

LEMMA InsideIsCounted ==
  ASSUME Sane, Seated, CountHonest
  PROVE  Cardinality(InsideNow) = usrs
<1>. DEFINE seat == [u \in AplayCounted |-> aConn[u]]
<1>1. \A u \in AplayCounted : u \in Aplay!Usr /\ aPc[u] \in Served /\ aConn[u] \in AplayGuest
  BY DEF AplayCounted, Served, Seated
<1>2. ASSUME NEW u \in AplayCounted PROVE seat[u] \in InsideNow
  <2>1. Aplay!Where(aConn[u]) = "inside"
    BY <1>1, WhereIs DEF WhereFacts, PlaceOf, Served
  <2>. QED  BY <1>1, <2>1 DEF InsideNow
<1>3. \A u, v \in AplayCounted : seat[u] = seat[v] => u = v
  BY <1>1 DEF Seated, Sane
<1>4. ASSUME NEW g \in InsideNow PROVE \E u \in AplayCounted : seat[u] = g
  <2>1. g \in AplayGuest /\ Aplay!Where(g) = "inside"
    BY DEF InsideNow
  <2>2. PICK u \in Aplay!Usr : aConn[u] = g
    BY <2>1, WhereIs DEF WhereFacts, Outside
  <2>3. aPc[u] \in Served
    BY <2>1, <2>2, WhereIs DEF WhereFacts, PlaceOf
  <2>. QED  BY <2>2, <2>3 DEF AplayCounted
<1>5. seat \in Bijection(AplayCounted, InsideNow)
  <2>1. seat \in [AplayCounted -> InsideNow]
    BY <1>2
  <2>2. seat \in Injection(AplayCounted, InsideNow)
    BY <1>3, <2>1 DEF Injection, IsInjective
  <2>3. seat \in Surjection(AplayCounted, InsideNow)
    BY <1>4, <2>1 DEF Surjection
  <2>. QED  BY <2>2, <2>3 DEF Bijection
<1>. QED  BY <1>5, FS_Bijection DEF ExistsBijection, CountHonest

\* The instance has the operators of FiniteSets under its own name.
LEMMA DoorCardinality == \A S : Aplay!Door!Cardinality(S) = Cardinality(S)
  BY DEF Aplay!Door!Cardinality, Cardinality

LEMMA RoomIsNotFull ==
  ASSUME Sane, Seated, CountHonest, NEW g \in AplayGuest
  PROVE  Aplay!Door!Room(g) <=> ~Aplay!Full
<1>1. Aplay!Door!Inside("any") = InsideNow
  BY DEF Aplay!Door!Inside, InsideNow
<1>2. Cardinality(InsideNow) = usrs /\ usrs \in Nat
  BY InsideIsCounted, FS_CardinalityType DEF CountHonest
<1>. QED  BY <1>1, <1>2, DoorCardinality DEF Aplay!Door!Room, Aplay!Full, Sane

\* The state of Admission.
at == [g \in AplayGuest |-> Aplay!Where(g)]

\* A step of one client, or of none.
LEMMA AtMoves ==
  ASSUME NEW g \in AplayGuest, \A h \in AplayGuest \ {g} : Aplay!Where(h)' = Aplay!Where(h)
  PROVE  /\ Aplay!Where(g) = "away" /\ Aplay!Where(g)' = "waiting" => Aplay!Door!Arrive(g)
         /\ Aplay!Where(g) = "waiting" /\ Aplay!Where(g)' = "inside" /\ Aplay!Door!Room(g)
               => Aplay!Door!Admit(g)
         /\ Aplay!Where(g) = "waiting" /\ Aplay!Where(g)' = "turned" /\ ~Aplay!Door!Room(g)
               => Aplay!Door!Turn(g)
         /\ Aplay!Where(g) \in {"inside", "turned"} /\ Aplay!Where(g)' = "away"
               => Aplay!Door!Leave(g)
         /\ Aplay!Where(g)' = Aplay!Where(g) => at' = at
<1>1. at' = [at EXCEPT ![g] = Aplay!Where(g)'] /\ at[g] = Aplay!Where(g)
  BY DEF at
<1>. QED  BY <1>1 DEF Aplay!Door!Arrive, Aplay!Door!Admit, Aplay!Door!Turn,
                      Aplay!Door!Leave, Aplay!Door!Move, at

\* A client whose thread, or whose lack of one, stays the same is where it was.
LEMMA Stays ==
  ASSUME Sane, Seated, Seated', NEW h \in AplayGuest,
         aPlace'[h] = "waiting" <=> aPlace[h] = "waiting",
         \A u \in Aplay!Usr : aConn[u] = h <=> aConn'[u] = h,
         \A u \in Aplay!Usr : aConn[u] = h => PlaceOf(u)' = PlaceOf(u)
  PROVE  Aplay!Where(h)' = Aplay!Where(h)
<1>1. CASE \E u \in Aplay!Usr : aConn[u] = h
  <2>1. PICK u \in Aplay!Usr : aConn[u] = h
    BY <1>1
  <2>2. Aplay!Where(h) = PlaceOf(u) /\ Aplay!Where(h)' = PlaceOf(u)'
    BY <2>1, WhereIs, WhereIsNext DEF WhereFacts
  <2>. QED  BY <2>1, <2>2
<1>2. CASE \A u \in Aplay!Usr : aConn[u] # h
  BY <1>2, WhereIs, WhereIsNext DEF WhereFacts, Outside
<1>. QED  BY <1>1, <1>2

LEMMA AtConnect ==
  ASSUME Sane, Seated, Seated', NEW g \in AplayGuest, Aplay!Connect(g)
  PROVE  Aplay!Door!Arrive(g)
<1>1. /\ aPlace[g] = "away" /\ aPlace' = [aPlace EXCEPT ![g] = "waiting"]
      /\ aConn' = aConn /\ aPc' = aPc
  BY DEF Aplay!Connect, Aplay!Moves
<1>2. \A v \in Aplay!Usr : aConn[v] # g
  BY <1>1 DEF Seated, Sane
<1>3. Aplay!Where(g) = "away" /\ Aplay!Where(g)' = "waiting"
  <2>1. aPlace'[g] = "waiting" /\ \A v \in Aplay!Usr : aConn'[v] # g
    BY <1>1, <1>2 DEF Seated
  <2>. QED  BY <1>1, <1>2, <2>1, WhereIs, WhereIsNext DEF WhereFacts, Outside
<1>4. \A h \in AplayGuest \ {g} : Aplay!Where(h)' = Aplay!Where(h)
  BY <1>1, Stays DEF Seated, PlaceOf
<1>. QED  BY <1>3, <1>4, AtMoves

LEMMA AtAccept ==
  ASSUME Sane, Seated, Seated', CountHonest,
         NEW u \in Aplay!Usr, NEW g \in AplayGuest, Aplay!Accept(u, g)
  PROVE  Aplay!Door!Admit(g) \/ Aplay!Door!Turn(g)
<1>1. /\ aPlace[g] = "waiting" /\ aPlace' = [aPlace EXCEPT ![g] = "here"]
      /\ aConn' = [aConn EXCEPT ![u] = g] /\ aPc[u] = "accept"
  BY DEF Aplay!Accept, Aplay!Moves, Aplay!Go
<1>2. aConn[u] = None /\ \A v \in Aplay!Usr : aConn[v] # g
  BY <1>1 DEF Seated, Sane
<1>3. /\ Aplay!Full => aPc' = [aPc EXCEPT ![u] = "busy"]
      /\ ~Aplay!Full => aPc' = [aPc EXCEPT ![u] = "serve"]
  BY DEF Aplay!Accept, Aplay!Go
<1>4. Aplay!Where(g) = "waiting" /\ Aplay!Where(g)' = IF Aplay!Full THEN "turned" ELSE "inside"
  <2>1. aConn'[u] = g /\ aPc'[u] = IF Aplay!Full THEN "busy" ELSE "serve"
    BY <1>1, <1>3 DEF Seated
  <2>. QED  BY <1>1, <1>2, <2>1, WhereIs, WhereIsNext
              DEF WhereFacts, Outside, PlaceOf, Served
<1>5. ASSUME NEW h \in AplayGuest \ {g} PROVE Aplay!Where(h)' = Aplay!Where(h)
  <2>1. aPlace'[h] = aPlace[h]
    BY <1>1 DEF Seated
  <2>2. \A v \in Aplay!Usr : aConn[v] = h <=> aConn'[v] = h
    BY <1>1, <1>2 DEF Seated, Sane
  <2>3. \A v \in Aplay!Usr : aConn[v] = h => aPc'[v] = aPc[v]
    BY <1>2, <1>3 DEF Seated, Sane
  <2>. QED  BY <2>1, <2>2, <2>3, Stays DEF PlaceOf
<1>6. Aplay!Door!Room(g) <=> ~Aplay!Full
  BY RoomIsNotFull
<1>. QED  BY <1>4, <1>5, <1>6, AtMoves

\* The end of a connection: a client that was turned away leaves, one that was
\* counted out has left already.
LEMMA AtCloseConn ==
  ASSUME Sane, Seated, Seated', NEW u \in Aplay!Usr, NEW from \in {"busy", "close"},
         Aplay!Go(u, from, "lock"), Aplay!CloseConn(u), NEW g \in AplayGuest, aConn[u] = g
  PROVE  IF from = "busy" THEN Aplay!Door!Leave(g) ELSE at' = at
<1>1. /\ aPc[u] = from /\ aPc' = [aPc EXCEPT ![u] = "lock"]
      /\ aPlace' = [aPlace EXCEPT ![g] = "away"] /\ aConn' = [aConn EXCEPT ![u] = None]
  BY DEF Aplay!Go, Aplay!CloseConn
<1>2. \A v \in Aplay!Usr : aConn[v] = g => v = u
  BY DEF Seated, Sane
<1>3. Aplay!Where(g) = IF from = "busy" THEN "turned" ELSE "away"
  BY <1>1, WhereIs DEF WhereFacts, PlaceOf, Served
<1>4. Aplay!Where(g)' = "away"
  <2>1. aPlace'[g] = "away" /\ \A v \in Aplay!Usr : aConn'[v] # g
    BY <1>1, <1>2 DEF Seated, Sane
  <2>. QED  BY <2>1, WhereIsNext DEF WhereFacts, Outside
<1>5. ASSUME NEW h \in AplayGuest \ {g} PROVE Aplay!Where(h)' = Aplay!Where(h)
  <2>1. aPlace'[h] = aPlace[h]
    BY <1>1 DEF Seated
  <2>2. \A v \in Aplay!Usr : aConn[v] = h <=> aConn'[v] = h
    BY <1>1 DEF Seated, Sane
  <2>3. \A v \in Aplay!Usr : aConn[v] = h => aPc'[v] = aPc[v]
    BY <1>1 DEF Seated
  <2>. QED  BY <2>1, <2>2, <2>3, Stays DEF PlaceOf
<1>. QED  BY <1>3, <1>4, <1>5, AtMoves

\* del_aplay_usr_list: the client is out as soon as it is counted out.
LEMMA AtDelete ==
  ASSUME Sane, Seated, Seated',
         NEW u \in Aplay!Usr, Aplay!Delete(u), NEW g \in AplayGuest, aConn[u] = g
  PROVE  Aplay!Door!Leave(g)
<1>1. /\ aPc[u] = "del" /\ aPc' = [aPc EXCEPT ![u] = "close"]
      /\ aPlace' = aPlace /\ aConn' = aConn
  BY DEF Aplay!Delete, Aplay!Go
<1>2. Aplay!Where(g) = "inside"
  BY <1>1, WhereIs DEF WhereFacts, PlaceOf, Served
<1>3. Aplay!Where(g)' = "away"
  <2>1. aConn'[u] = g /\ aPc'[u] = "close"
    BY <1>1 DEF Seated
  <2>. QED  BY <2>1, WhereIsNext DEF WhereFacts, PlaceOf, Served
<1>4. ASSUME NEW h \in AplayGuest \ {g} PROVE Aplay!Where(h)' = Aplay!Where(h)
  <2>1. \A v \in Aplay!Usr : aConn[v] = h => aPc'[v] = aPc[v]
    BY <1>1 DEF Seated
  <2>. QED  BY <1>1, <2>1, Stays DEF PlaceOf
<1>. QED  BY <1>2, <1>3, <1>4, AtMoves

LEMMA AtNext ==
  Sane /\ Seated /\ Seated' /\ CountHonest /\ [Aplay!Next]_(Aplay!vars) => [Aplay!Door!Next]_at
<1>. SUFFICES ASSUME Sane, Seated, Seated', CountHonest, [Aplay!Next]_(Aplay!vars)
              PROVE  Aplay!Door!Next \/ at' = at
  OBVIOUS
<1>1. ASSUME NEW g \in AplayGuest, Aplay!Connect(g) PROVE Aplay!Door!Next
  BY <1>1, AtConnect DEF Aplay!Door!Next
<1>2. ASSUME NEW g \in AplayGuest, Aplay!HangUp(g) PROVE at' = at
  <2>1. \A h \in AplayGuest : Aplay!Where(h)' = Aplay!Where(h)
    BY <1>2, Stays DEF Aplay!HangUp, Aplay!Moves, Seated, PlaceOf
  <2>. QED  BY <2>1 DEF at
<1>3. ASSUME NEW u \in Aplay!Usr, Serves(u) \/ Aplay!Lock(u) \/ Aplay!AcceptFails(u) PROVE at' = at
  <2>1. UNCHANGED <<aPlace, aConn>>
    BY <1>3 DEF Serves, Aplay!Lock, Aplay!AcceptFails
  <2>2. \A v \in Aplay!Usr : aConn[v] # None => PlaceOf(v)' = PlaceOf(v)
    BY <1>3 DEF Serves, Aplay!Lock, Aplay!AcceptFails, Aplay!Go, Seated, PlaceOf, Served
  <2>3. \A h \in AplayGuest : Aplay!Where(h)' = Aplay!Where(h)
    BY <2>1, <2>2, Stays DEF Sane
  <2>. QED  BY <2>3 DEF at
<1>4. ASSUME NEW u \in Aplay!Usr, NEW g \in AplayGuest, Aplay!Accept(u, g) PROVE Aplay!Door!Next
  BY <1>4, AtAccept DEF Aplay!Door!Next
<1>5. ASSUME NEW u \in Aplay!Usr, Aplay!Busy(u) \/ Aplay!Close(u) PROVE Aplay!Door!Next \/ at' = at
  <2>1. PICK from \in {"busy", "close"} : Aplay!Go(u, from, "lock") /\ Aplay!CloseConn(u)
    BY <1>5 DEF Aplay!Busy, Aplay!Close
  <2>2. aConn[u] \in AplayGuest
    BY <2>1 DEF Aplay!Go, Seated
  <2>. QED  BY <2>1, <2>2, AtCloseConn DEF Aplay!Door!Next
<1>6. ASSUME NEW u \in Aplay!Usr, Aplay!Delete(u) PROVE Aplay!Door!Next
  <2>1. aConn[u] \in AplayGuest
    BY <1>6 DEF Aplay!Delete, Aplay!Go, Seated
  <2>. QED  BY <1>6, <2>1, AtDelete DEF Aplay!Door!Next
<1>7. CASE UNCHANGED Aplay!vars
  BY <1>7 DEF Aplay!vars, at, Aplay!Where
<1>. QED  BY <1>1, <1>2, <1>3, <1>4, <1>5, <1>6, <1>7, NextSeats DEF Seating

LEMMA AtInit == Sane /\ Aplay!Init => Aplay!Door!Init
  BY DEF Sane, Aplay!Init, Aplay!Door!Init, Aplay!Where

\* The audio playback server admits clients as Admission promises: each of its
\* steps lets in, turns away or lets go one client as there is room, or is none
\* of the clients' business.
THEOREM ImplementsAdmission == Sane => (Aplay!Spec => AdmitsAsPromised)
<1>. SUFFICES ASSUME Sane PROVE Aplay!Spec => AdmitsAsPromised
  OBVIOUS
<1>1. Aplay!Init => Seated /\ CountHonest
  BY SeatedInit, CountInit
<1>2. Seated /\ CountHonest /\ [Aplay!Next]_(Aplay!vars) => (Seated /\ CountHonest)'
  BY SeatedNext, CountNext
<1>3. Seated /\ Seated' /\ CountHonest /\ [Aplay!Next]_(Aplay!vars)
        => [Aplay!Door!Next]_[g \in AplayGuest |-> Aplay!Where(g)]
  BY AtNext DEF at
<1>. QED  BY <1>1, <1>2, <1>3, AtInit, PTL DEF Aplay!Spec, AdmitsAsPromised,
                                               Aplay!AdmitsAsPromised, Aplay!Door!Spec
--------------------------------------------------------------------------------
(* Whole frames.                                                             *)

\* A client has a stream only while it is connected, one that has left is no
\* longer steady, and a thread that has thrown away its client's START no longer
\* waits for it.
Steady(g) ==
  /\ aPlace[g] \in {"away", "waiting"} => flow[g] = "none" /\ g \notin torn
  /\ aPlace[g] = "gone" => flow[g] = "broken"
  /\ g \in torn => flow[g] \in {"bare", "broken"}
Past(u) == aPc[u] = "serve" /\ flow[aConn[u]] = "start" => ~first[u] /\ serv[u] = 1
StreamsInv ==
  /\ serv \in [Aplay!Usr -> {-1, 0, 1}] /\ first \in [Aplay!Usr -> BOOLEAN]
  /\ flow \in [AplayGuest -> Aplay!Flow]
  /\ \A g \in AplayGuest : Steady(g)
  /\ \A u \in Aplay!Usr : Past(u)
  /\ torn \subseteq AplayGuest

LEMMA StreamsInit == Sane /\ Aplay!Init => StreamsInv
  BY DEF Sane, Aplay!Init, StreamsInv, Steady, Past, Aplay!Flow

\* A step of the stream of client g of thread u.
LEMMA StreamsHear ==
  ASSUME Sane, Seated, StreamsInv, NEW u \in Aplay!Usr, NEW g \in AplayGuest, Aplay!Hear(u, g)
  PROVE  StreamsInv'
<1>1. /\ aPc[u] = "serve" /\ g = aConn[u] /\ aPlace' = aPlace /\ aConn' = aConn
      /\ aPc' = aPc \/ aPc' = [aPc EXCEPT ![u] = "del"]
      /\ \A v \in Aplay!Usr \ {u} : aConn[v] # g
  BY HearServes DEF Serves, Seated, Sane
<1>2. aPlace[g] \in {"here", "gone"}
  BY <1>1 DEF Seated, Sane
<1>. SUFFICES /\ serv' \in [Aplay!Usr -> {-1, 0, 1}] /\ first' \in [Aplay!Usr -> BOOLEAN]
              /\ flow' \in [AplayGuest -> Aplay!Flow] /\ torn' \subseteq AplayGuest
              /\ \A h \in AplayGuest \ {g} : flow'[h] = flow[h] /\ (h \in torn' <=> h \in torn)
              /\ \A v \in Aplay!Usr \ {u} : first'[v] = first[v] /\ serv'[v] = serv[v]
              /\ Steady(g)' /\ Past(u)'
  <2>1. ASSUME NEW h \in AplayGuest PROVE Steady(h)'
    BY <1>1, <2>1 DEF StreamsInv, Steady
  <2>2. ASSUME NEW v \in Aplay!Usr PROVE Past(v)'
    <3>1. CASE v # u /\ aPc[v] = "serve"
      <4>1. aConn[v] \in AplayGuest \ {g} /\ aPc'[v] = aPc[v] /\ aConn'[v] = aConn[v]
        BY <1>1, <3>1 DEF Seated
      <4>. QED  BY <3>1, <4>1 DEF StreamsInv, Past
    <3>2. CASE v # u /\ aPc[v] # "serve"
      BY <1>1, <3>2 DEF Past, Seated
    <3>. QED  BY <3>1, <3>2
  <2>. QED  BY <2>1, <2>2 DEF StreamsInv
<1>3. CASE \E f \in {"aac", "other"} : Aplay!Subscribe(u, g, f)
  <2>1. flow[g] # "start"
    BY <1>1, <1>3 DEF Aplay!Subscribe, StreamsInv, Past
  <2>. QED  BY <1>1, <1>2, <1>3, <2>1 DEF Aplay!Subscribe, Aplay!Reads, StreamsInv, Steady,
                                          Past, Aplay!hist
<1>4. CASE Aplay!UnknownCommand(u, g)
  <2>1. flow[g] # "start"
    BY <1>1, <1>4 DEF Aplay!UnknownCommand, StreamsInv, Past
  <2>. QED  BY <1>1, <1>2, <1>4, <2>1 DEF Aplay!UnknownCommand, Aplay!Reads, StreamsInv,
                                          Steady, Past, Aplay!hist
<1>5. CASE Aplay!Start(u, g)
  BY <1>1, <1>2, <1>5 DEF Aplay!Start, Aplay!Reads, StreamsInv, Steady, Past, Aplay!Flow
<1>6. CASE Aplay!Headless(u, g)
  <2>1. flow[g] # "start"
    BY <1>1, <1>6 DEF Aplay!Headless, StreamsInv, Past
  <2>. QED  BY <1>1, <1>2, <1>6, <2>1 DEF Aplay!Headless, Aplay!Reads, StreamsInv, Steady,
                                          Past, Aplay!Flow
<1>7. CASE Aplay!Frame(u, g) \/ Aplay!NoHead(u, g)
  BY <1>1, <1>2, <1>7 DEF Aplay!Frame, Aplay!NoHead, Aplay!Reads, Aplay!Go, StreamsInv,
                          Steady, Past, Aplay!hist
<1>8. CASE Aplay!Late(u, g)
  <2>1. first' = first \/ first' = [first EXCEPT ![u] = FALSE]
    BY <1>8 DEF Aplay!Late
  <2>2. /\ flow' = [flow EXCEPT ![g] = "broken"] /\ UNCHANGED <<aPc, serv, torn>>
        /\ serv[u] = 1
    BY <1>8 DEF Aplay!Late
  <2>3. Steady(g)'
    BY <1>1, <1>2, <2>2 DEF StreamsInv, Steady
  <2>4. Past(u)'
    BY <1>1, <2>2 DEF StreamsInv, Past
  <2>. QED  BY <2>1, <2>2, <2>3, <2>4 DEF StreamsInv, Aplay!Flow
<1>9. CASE Aplay!CutShort(u, g)
  BY <1>1, <1>2, <1>9 DEF Aplay!CutShort, Aplay!Reads, StreamsInv, Steady, Past
<1>. QED  BY <1>3, <1>4, <1>5, <1>6, <1>7, <1>8, <1>9 DEF Aplay!Hear

LEMMA StreamsClose ==
  ASSUME Sane, Seated, StreamsInv, NEW u \in Aplay!Usr, NEW from \in {"busy", "close"},
         Aplay!Go(u, from, "lock"), Aplay!CloseConn(u), UNCHANGED Aplay!stream
  PROVE  StreamsInv'
<1>1. /\ aConn[u] \in AplayGuest /\ aPc' = [aPc EXCEPT ![u] = "lock"]
      /\ aConn' = [aConn EXCEPT ![u] = None]
      /\ aPlace' = [aPlace EXCEPT ![aConn[u]] = "away"]
      /\ flow' = [flow EXCEPT ![aConn[u]] = "none"] /\ torn' = torn \ {aConn[u]}
  BY DEF Aplay!Go, Aplay!CloseConn, Seated
<1>2. ASSUME NEW g \in AplayGuest PROVE Steady(g)'
  BY <1>1 DEF Seated, StreamsInv, Steady
<1>3. ASSUME NEW v \in Aplay!Usr PROVE Past(v)'
  <2>1. CASE v = u \/ aPc[v] # "serve"
    BY <1>1, <2>1 DEF Past, Seated
  <2>2. CASE v # u /\ aPc[v] = "serve"
    <3>1. aConn[v] \in AplayGuest \ {aConn[u]} /\ aPc'[v] = aPc[v] /\ aConn'[v] = aConn[v]
      BY <1>1, <2>2 DEF Seated, Sane
    <3>. QED  BY <1>1, <2>2, <3>1 DEF StreamsInv, Past, Aplay!stream
  <2>. QED  BY <2>1, <2>2
<1>. QED  BY <1>1, <1>2, <1>3 DEF StreamsInv, Aplay!stream, Aplay!Flow

\* Whose step touches no client's stream, and lets no thread begin to serve.
Quiet ==
  /\ UNCHANGED <<aPlace, aConn, first, flow, torn>> /\ aPc \in [Aplay!Usr -> Aplay!Step]
  /\ \A v \in Aplay!Usr : aPc'[v] = "serve" => aPc[v] = "serve" /\ serv'[v] = serv[v]
  /\ serv' \in [Aplay!Usr -> {-1, 0, 1}]

LEMMA StreamsQuiet == StreamsInv /\ Quiet => StreamsInv'
  BY DEF StreamsInv, Quiet, Steady, Past

LEMMA StreamsNext == Sane /\ Seated /\ StreamsInv /\ [Aplay!Next]_(Aplay!vars) => StreamsInv'
<1>. SUFFICES ASSUME Sane, Seated, StreamsInv, [Aplay!Next]_(Aplay!vars) PROVE StreamsInv'
  OBVIOUS
<1>1. ASSUME NEW g \in AplayGuest, Aplay!Connect(g) PROVE StreamsInv'
  <2>1. \A h \in AplayGuest : Steady(h)'
    BY <1>1 DEF Aplay!Connect, Aplay!Moves, Seated, StreamsInv, Steady, Aplay!hist
  <2>2. \A v \in Aplay!Usr : Past(v)'
    BY <1>1 DEF Aplay!Connect, StreamsInv, Past, Aplay!hist, Aplay!stream
  <2>. QED  BY <1>1, <2>1, <2>2 DEF Aplay!Connect, StreamsInv, Aplay!hist, Aplay!stream
<1>2. ASSUME NEW g \in AplayGuest, Aplay!HangUp(g) PROVE StreamsInv'
  <2>1. \A h \in AplayGuest : Steady(h)'
    BY <1>2 DEF Aplay!HangUp, Aplay!Moves, Seated, StreamsInv, Steady
  <2>2. /\ flow' \in [AplayGuest -> Aplay!Flow]
        /\ \A h \in AplayGuest : flow'[h] = "start" => flow[h] = "start"
    BY <1>2 DEF Aplay!HangUp, StreamsInv, Aplay!Flow
  <2>3. ASSUME NEW v \in Aplay!Usr PROVE Past(v)'
    <3>1. aPc[v] = "serve" => aConn[v] \in AplayGuest
      BY DEF Seated
    <3>. QED  BY <1>2, <2>2, <3>1 DEF Aplay!HangUp, StreamsInv, Past, Aplay!stream
  <2>. QED  BY <1>2, <2>1, <2>2, <2>3 DEF Aplay!HangUp, StreamsInv, Aplay!stream
<1>3. ASSUME NEW u \in Aplay!Usr, NEW g \in AplayGuest, Aplay!Accept(u, g) PROVE StreamsInv'
  <2>1. /\ aPlace[g] = "waiting" /\ aPlace' = [aPlace EXCEPT ![g] = "here"]
        /\ aConn' = [aConn EXCEPT ![u] = g] /\ serv' = [serv EXCEPT ![u] = 0]
        /\ UNCHANGED <<first, flow, torn>>
        /\ \E to \in {"busy", "serve"} : aPc' = [aPc EXCEPT ![u] = to]
    BY <1>3 DEF Aplay!Accept, Aplay!Moves, Aplay!Go, Aplay!hist
  <2>2. \A h \in AplayGuest : Steady(h)'
    BY <2>1 DEF Seated, StreamsInv, Steady
  <2>3. \A v \in Aplay!Usr : Past(v)'
    BY <2>1 DEF Seated, StreamsInv, Steady, Past
  <2>. QED  BY <2>1, <2>2, <2>3 DEF StreamsInv
<1>4. ASSUME NEW u \in Aplay!Usr,
             Aplay!Lock(u) \/ Aplay!AcceptFails(u) \/ Aplay!Delete(u) \/ Aplay!Drop(u)
      PROVE StreamsInv'
  <2>1. Quiet
    BY <1>4 DEF Aplay!Lock, Aplay!AcceptFails, Aplay!Delete, Aplay!Drop, Aplay!Go, Quiet,
                Seated, StreamsInv, Aplay!stream, Aplay!hist
  <2>. QED  BY <2>1, StreamsQuiet
<1>5. ASSUME NEW u \in Aplay!Usr, Aplay!Busy(u) \/ Aplay!Close(u) PROVE StreamsInv'
  BY <1>5, StreamsClose DEF Aplay!Busy, Aplay!Close
<1>6. ASSUME NEW u \in Aplay!Usr, NEW g \in AplayGuest, Aplay!Hear(u, g) PROVE StreamsInv'
  BY <1>6, StreamsHear
<1>7. CASE UNCHANGED Aplay!vars
  BY <1>7 DEF Aplay!vars, StreamsInv, Steady, Past
<1>. QED  BY <1>1, <1>2, <1>3, <1>4, <1>5, <1>6, <1>7 DEF Aplay!Next, Aplay!Work

\* A client that begins with START and neither pauses nor leaves has whole
\* frames handed to the decoder, and nothing else: only one that did not, or
\* whose stream was broken, has a part of a frame handed on.
THEOREM FramesWhole == Sane => (Aplay!Spec => []WholeFrames)
<1>. SUFFICES ASSUME Sane PROVE Aplay!Spec => []WholeFrames
  OBVIOUS
<1>1. Aplay!Init => Seated /\ StreamsInv
  BY SeatedInit, StreamsInit
<1>2. Seated /\ StreamsInv /\ [Aplay!Next]_(Aplay!vars) => (Seated /\ StreamsInv)'
  BY SeatedNext, StreamsNext
<1>3. StreamsInv => WholeFrames
  BY DEF StreamsInv, Steady, WholeFrames, Aplay!WholeFrames
<1>. QED  BY <1>1, <1>2, <1>3, PTL DEF Aplay!Spec

--------------------------------------------------------------------------------
(* Types.                                                                    *)

\* The variables that Seated and StreamsInv say nothing of.
Rest ==
  /\ sends \in [AplayGuest -> Aplay!Part] /\ lmx \in Aplay!Usr \cup {None}
  /\ fmt \in [Aplay!Usr -> Aplay!Format]
  /\ usrs <= MaxUsrs

LEMMA RestNext == Sane /\ Seated /\ CountHonest /\ Rest /\ [Aplay!Next]_(Aplay!vars) => Rest'
<1>. SUFFICES ASSUME Sane, Seated, CountHonest, Rest, [Aplay!Next]_(Aplay!vars) PROVE Rest'
  OBVIOUS
<1>1. usrs \in Nat
  BY FS_CardinalityType DEF CountHonest
<1>2. ASSUME NEW g \in AplayGuest, Aplay!Connect(g) \/ Aplay!HangUp(g) PROVE Rest'
  BY <1>2 DEF Aplay!Connect, Aplay!HangUp, Rest, Aplay!Part, Aplay!stream
<1>3. ASSUME NEW u \in Aplay!Usr, Aplay!Work(u) \/ Aplay!AcceptFails(u) PROVE Rest'
  <2>1. CASE Aplay!Busy(u) \/ Aplay!Close(u)
    <3>1. sends' \in [AplayGuest -> Aplay!Part]
      BY <2>1 DEF Aplay!Busy, Aplay!Close, Aplay!CloseConn, Rest, Aplay!Part
    <3>. QED  BY <2>1, <3>1 DEF Aplay!Busy, Aplay!Close, Rest, Aplay!stream
  <2>2. CASE Aplay!Delete(u)
    BY <1>1, <2>2 DEF Sane, Aplay!Delete, Rest
  <2>3. CASE Aplay!Lock(u) \/ Aplay!AcceptFails(u) \/ Aplay!Drop(u)
    BY <2>3 DEF Aplay!Lock, Aplay!AcceptFails, Aplay!Drop, Rest, Aplay!stream
  <2>. QED  BY <1>3, <2>1, <2>2, <2>3 DEF Aplay!Work
<1>4. ASSUME NEW u \in Aplay!Usr, NEW g \in AplayGuest, Aplay!Accept(u, g) PROVE Rest'
  <2>1. usrs' <= MaxUsrs
    BY <1>1, <1>4 DEF Sane, Aplay!Accept, Aplay!Full, Rest
  <2>. QED  BY <1>4, <2>1 DEF Aplay!Accept, Rest
<1>5. ASSUME NEW u \in Aplay!Usr, NEW g \in AplayGuest, Aplay!Hear(u, g) PROVE Rest'
  <2>1. UNCHANGED <<lmx, usrs>>
    BY <1>5, HearServes DEF Serves
  <2>2. sends' \in [AplayGuest -> Aplay!Part]
    <3>1. \E what \in Aplay!Part, p \in Aplay!Part : Aplay!Reads(u, g, what, p)
      BY <1>5 DEF Aplay!Hear, Aplay!Subscribe, Aplay!UnknownCommand, Aplay!Start,
                  Aplay!Headless, Aplay!Frame, Aplay!Late, Aplay!NoHead, Aplay!CutShort,
                  Rest, Aplay!Part
    <3>. QED  BY <3>1 DEF Aplay!Reads, Rest
  <2>3. fmt' \in [Aplay!Usr -> Aplay!Format]
    BY <1>5 DEF Aplay!Hear, Aplay!Subscribe, Aplay!UnknownCommand, Aplay!Start,
                Aplay!Headless, Aplay!Frame, Aplay!Late, Aplay!NoHead, Aplay!CutShort, Rest,
                Aplay!Format
  <2>. QED  BY <2>1, <2>2, <2>3 DEF Rest
<1>6. CASE UNCHANGED Aplay!vars
  BY <1>6 DEF Aplay!vars, Aplay!stream, Rest
<1>. QED  BY <1>2, <1>3, <1>4, <1>5, <1>6 DEF Aplay!Next

\* The variables keep their types; the users counted never pass their limit nor
\* fall below zero.
THEOREM AplayTypesCorrect == Sane => (Aplay!Spec => []Aplay!TypeOK)
<1>. SUFFICES ASSUME Sane PROVE Aplay!Spec => []Aplay!TypeOK
  OBVIOUS
<1>1. Aplay!Init => Seated /\ CountHonest /\ StreamsInv /\ Rest
  <2>1. Aplay!Init => Rest
    BY DEF Sane, Aplay!Init, Rest, Aplay!Part, Aplay!Format
  <2>. QED  BY <2>1, SeatedInit, CountInit, StreamsInit
<1>2. Seated /\ CountHonest /\ StreamsInv /\ Rest /\ [Aplay!Next]_(Aplay!vars)
        => (Seated /\ CountHonest /\ StreamsInv /\ Rest)'
  BY SeatedNext, CountNext, StreamsNext, RestNext
<1>3. Seated /\ CountHonest /\ StreamsInv /\ Rest => Aplay!TypeOK
  <2>. SUFFICES ASSUME Seated, CountHonest, StreamsInv, Rest PROVE Aplay!TypeOK
    OBVIOUS
  <2>1. usrs \in 0..MaxUsrs
    BY FS_CardinalityType DEF CountHonest, Rest, Sane
  <2>. QED  BY <2>1 DEF Seated, StreamsInv, Rest, Aplay!TypeOK
<1>. QED  BY <1>1, <1>2, <1>3, PTL DEF Aplay!Spec

--------------------------------------------------------------------------------
(* The command connection server.                                            *)

USE CmdAssumption

\* The threads that have counted themselves busy and not yet back.
Counted == {t \in Thread : pc[t] \notin {"lock", "accept", "count"}}

\* There are as many threads as NThreads says, and no set of them is larger.
LEMMA ThreadCount ==
  /\ IsFiniteSet(Thread) /\ Cardinality(Thread) = NThreads
  /\ \A S \in SUBSET Thread :
       /\ IsFiniteSet(S) /\ Cardinality(S) \in Nat /\ Cardinality(S) <= NThreads
       /\ Cardinality(S) = NThreads => S = Thread
<1>1. IsFiniteSet(Thread) /\ Cardinality(Thread) = NThreads
  BY FS_Interval DEF Thread
<1>2. ASSUME NEW S \in SUBSET Thread
      PROVE  /\ IsFiniteSet(S) /\ Cardinality(S) \in Nat /\ Cardinality(S) <= NThreads
             /\ Cardinality(S) = NThreads => S = Thread
  BY <1>1, FS_Subset, FS_CardinalityType
<1>. QED  BY <1>1, <1>2

\* The type of every variable but the count, which its meaning bounds.
OtherTypes ==
  /\ place \in [Guest -> {"away", "waiting", "here", "mute", "gone"}]
  /\ mlock \in Thread \cup {None}
  /\ pc \in [Thread -> Step] /\ conn \in [Thread -> Guest \cup {None}]
  /\ quiet \in [Thread -> 0..Patience] /\ down \in BOOLEAN

LEMMA OtherTypesStep == OtherTypes /\ [Next]_vars => OtherTypes'
<1>. SUFFICES ASSUME OtherTypes, [Next]_vars PROVE OtherTypes'
  OBVIOUS
<1>. USE DEF OtherTypes, Step
<1>1. ASSUME NEW g \in Guest, Connect(g) \/ FallSilent(g) \/ HangUp(g) PROVE OtherTypes'
  BY <1>1 DEF Connect, FallSilent, HangUp, Moves
<1>2. ASSUME NEW t \in Thread, Lock(t) \/ CountBusy(t) \/ Uncount(t) PROVE OtherTypes'
  BY <1>2 DEF Lock, CountBusy, Uncount, Go
<1>3. ASSUME NEW t \in Thread, Test(t) PROVE OtherTypes'
  BY <1>3 DEF Test, Go
<1>4. ASSUME NEW t \in Thread, Silence(t) PROVE OtherTypes'
  <2>1. CASE quiet[t] < Patience /\ Go(t, "serve", "serve") /\ quiet' = [quiet EXCEPT ![t] = @ + 1]
    BY <1>4, <2>1 DEF Silence, Go
  <2>2. CASE Go(t, "serve", "close") /\ quiet' = quiet
    BY <1>4, <2>2 DEF Silence, Go
  <2>. QED  BY <1>4, <2>1, <2>2 DEF Silence
<1>5. ASSUME NEW t \in Thread, Close(t) PROVE OtherTypes'
  BY <1>5 DEF Close, Go
<1>6. ASSUME NEW t \in Thread, Hear(t) PROVE OtherTypes'
  BY <1>4, <1>6 DEF Hear, Command, Broken, Go
<1>7. ASSUME NEW t \in Thread, NEW g \in Guest, Accept(t, g) PROVE OtherTypes'
  BY <1>7 DEF Accept, Go, Moves
<1>8. ASSUME NEW t \in Thread, AcceptInterrupted(t) \/ AcceptFails(t) PROVE OtherTypes'
  BY <1>8 DEF AcceptInterrupted, AcceptFails, Go
<1>9. CASE Exited \/ UNCHANGED vars
  BY <1>9 DEF Exited, vars
<1>. QED  BY <1>1, <1>2, <1>3, <1>4, <1>5, <1>6, <1>7, <1>8, <1>9 DEF Next, Work, Answer

\* Only counting moves a thread into Counted, and only counting back out of it.
LEMMA CountedStep ==
  ASSUME OtherTypes, [Next]_vars
  PROVE  \/ busy' = busy /\ Counted' = Counted
         \/ \E t \in Thread \ Counted : busy' = busy + 1 /\ Counted' = Counted \cup {t}
         \/ \E t \in Counted : busy' = busy - 1 /\ Counted' = Counted \ {t}
<1>. USE DEF OtherTypes, Counted
<1>1. ASSUME NEW t \in Thread, CountBusy(t)
      PROVE  t \notin Counted /\ busy' = busy + 1 /\ Counted' = Counted \cup {t}
  BY <1>1 DEF CountBusy, Go
<1>2. ASSUME NEW t \in Thread, Uncount(t)
      PROVE  t \in Counted /\ busy' = busy - 1 /\ Counted' = Counted \ {t}
  BY <1>2 DEF Uncount, Go
<1>3. ASSUME NEW t \in Thread,
             \/ Lock(t) \/ Test(t) \/ Close(t) \/ Hear(t) \/ Answer(t)
             \/ AcceptInterrupted(t) \/ AcceptFails(t)
      PROVE  busy' = busy /\ Counted' = Counted
  BY <1>3 DEF Lock, Test, Close, Hear, Silence, Command, Broken, Answer, Accept,
              AcceptInterrupted, AcceptFails, Go
<1>4. ASSUME \/ \E g \in Guest : Connect(g) \/ FallSilent(g) \/ HangUp(g)
             \/ Exited \/ UNCHANGED vars
      PROVE  busy' = busy /\ Counted' = Counted
  BY <1>4 DEF Connect, FallSilent, HangUp, Exited, vars
<1>. QED  BY <1>1, <1>2, <1>3, <1>4 DEF Next, Work

LEMMA BusyStep ==
  ASSUME OtherTypes, BusyHonest, [Next]_vars
  PROVE  BusyHonest'
<1>1. Counted \in SUBSET Thread /\ busy = Cardinality(Counted)
  BY DEF BusyHonest, Counted
<1>2. IsFiniteSet(Counted) /\ Cardinality(Counted) \in Nat
  BY <1>1, ThreadCount
<1>3. SUFFICES busy' = Cardinality(Counted')
  BY DEF BusyHonest, Counted
<1>4. CASE busy' = busy /\ Counted' = Counted
  BY <1>1, <1>4
<1>5. ASSUME NEW t \in Thread \ Counted, busy' = busy + 1, Counted' = Counted \cup {t}
      PROVE  busy' = Cardinality(Counted')
  <2>1. Cardinality(Counted \cup {t}) = Cardinality(Counted) + 1
    BY <1>2, FS_AddElement
  <2>. QED  BY <1>1, <1>5, <2>1
<1>6. ASSUME NEW t \in Counted, busy' = busy - 1, Counted' = Counted \ {t}
      PROVE  busy' = Cardinality(Counted')
  <2>1. Cardinality(Counted \ {t}) = Cardinality(Counted) - 1
    BY <1>2, FS_RemoveElement
  <2>. QED  BY <1>1, <1>6, <2>1
<1>. QED  BY CountedStep, <1>4, <1>5, <1>6

\* A thread goes to serve only from the test, with a thread uncounted.
LEMMA SpareStep ==
  ASSUME OtherTypes, BusyHonest, OneThreadSpare, [Next]_vars
  PROVE  OneThreadSpare'
<1>. USE DEF OtherTypes, Serving, OneThreadSpare
<1>1. ASSUME NEW t \in Thread, Test(t) PROVE Serving' # Thread
  <2>1. CASE TooMany
    BY <1>1, <2>1 DEF Test, Go
  <2>2. CASE ~TooMany
    <3>1. Counted # Thread
      <4>1. busy = Cardinality(Counted) /\ Counted \in SUBSET Thread
        BY DEF BusyHonest, Counted
      <4>2. busy # NThreads
        BY <2>2, <4>1, ThreadCount DEF TooMany
      <4>. QED  BY <4>1, <4>2, ThreadCount
    <3>2. PICK u \in Thread : u \notin Counted
      BY <3>1 DEF Counted
    <3>3. pc[u] \in {"lock", "accept", "count"} /\ u # t
      BY <1>1, <3>2 DEF Counted, Test, Go
    <3>4. pc'[u] = pc[u]
      BY <1>1, <3>3 DEF Test, Go
    <3>. QED  BY <3>3, <3>4
  <2>. QED  BY <2>1, <2>2
<1>2. ASSUME NEW t \in Thread,
             \/ Lock(t) \/ CountBusy(t) \/ Close(t) \/ Uncount(t) \/ Hear(t)
             \/ Answer(t) \/ AcceptInterrupted(t) \/ AcceptFails(t)
      PROVE  Serving' \subseteq Serving
  BY <1>2 DEF Lock, CountBusy, Close, Uncount, Hear, Silence, Command, Broken, Answer,
              Accept, AcceptInterrupted, AcceptFails, Go
<1>3. ASSUME \/ \E g \in Guest : Connect(g) \/ FallSilent(g) \/ HangUp(g)
             \/ Exited \/ UNCHANGED vars
      PROVE  Serving' = Serving
  BY <1>3 DEF Connect, FallSilent, HangUp, Exited, vars
<1>. QED  BY <1>1, <1>2, <1>3 DEF Next, Work

--------------------------------------------------------------------------------
(* The inductive invariant: the count is what it says, and a thread is spare. *)

IInv == OtherTypes /\ BusyHonest /\ OneThreadSpare

LEMMA InitIInv == Init => IInv
<1>. SUFFICES ASSUME Init PROVE IInv
  OBVIOUS
<1>1. OtherTypes
  <2>1. quiet \in [Thread -> 0..Patience]
    BY DEF Init
  <2>2. pc \in [Thread -> Step] /\ conn \in [Thread -> Guest \cup {None}]
    BY DEF Init, Step
  <2>. QED  BY <2>1, <2>2 DEF Init, OtherTypes
<1>2. {t \in Thread : pc[t] \notin {"lock", "accept", "count"}} = {}
  BY DEF Init
<1>3. BusyHonest
  BY <1>2, FS_EmptySet DEF Init, BusyHonest
<1>4. OneThreadSpare
  BY DEF Init, OneThreadSpare, Serving, Thread
<1>. QED  BY <1>1, <1>3, <1>4 DEF IInv

LEMMA IInvHolds == Spec => []IInv
<1>1. IInv /\ [Next]_vars => IInv'
  BY OtherTypesStep, BusyStep, SpareStep DEF IInv
<1>. QED  BY InitIInv, <1>1, PTL DEF Spec

\* threadbusy is the number of threads that have a connection and have counted
\* it, however many threads there are (add_threadbusy).
THEOREM BusyCountHonest == Spec => []BusyHonest
BY IInvHolds, PTL DEF IInv

\* One thread never serves: it is there to answer the next client, if only that
\* the device is busy (thread_main).
THEOREM AThreadIsSpare == Spec => []OneThreadSpare
BY IInvHolds, PTL DEF IInv

\* The variables keep their types, the count its bounds among them.
THEOREM TypeCorrect == Spec => []TypeOK
<1>1. IInv => TypeOK
  <2>. SUFFICES ASSUME IInv PROVE TypeOK
    OBVIOUS
  <2>1. busy \in 0..NThreads
    <3>1. Counted \in SUBSET Thread /\ busy = Cardinality(Counted)
      BY DEF IInv, BusyHonest, Counted
    <3>. QED  BY <3>1, ThreadCount
  <2>. QED  BY <2>1 DEF IInv, OtherTypes, TypeOK
<1>. QED  BY IInvHolds, <1>1, PTL
==================================================================================
