-------------------------------- MODULE Admission --------------------------------
(***************************************************************************)
(* What a server of the device promises the clients that connect to it: a  *)
(* client waits, and is let in while its class has room or is turned away  *)
(* with a busy answer while it has none; then it leaves.  The live stream  *)
(* server (AvServer) and the audio playback server (AplayServer) are shown *)
(* to implement it.                                                        *)
(***************************************************************************)
EXTENDS Naturals, FiniteSets

CONSTANTS
  Guest,    (* clients                                                       *)
  ClassOf,  (* [Guest -> class]: lan or wan for the live stream server       *)
  Limit     (* [class -> Nat]: clients of a class served at a time           *)

VARIABLE at  \* where each client is

Place == {"away", "waiting", "inside", "turned"}

Init == at = [g \in Guest |-> "away"]

Inside(c) == {g \in Guest : at[g] = "inside" /\ ClassOf[g] = c}
Room(g)   == Cardinality(Inside(ClassOf[g])) < Limit[ClassOf[g]]

Move(g, from, to) == at[g] = from /\ at' = [at EXCEPT ![g] = to]

Arrive(g) == Move(g, "away", "waiting")
Admit(g)  == Room(g) /\ Move(g, "waiting", "inside")
Turn(g)   == ~Room(g) /\ Move(g, "waiting", "turned")
Leave(g)  == \E from \in {"inside", "turned"} : Move(g, from, "away")

Next == \E g \in Guest : Arrive(g) \/ Admit(g) \/ Turn(g) \/ Leave(g)

Spec == Init /\ [][Next]_at
================================================================================
