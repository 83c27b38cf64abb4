------------------------------- MODULE PartsProofs -------------------------------
(***************************************************************************)
(* Theorems about the parts MCParts puts side by side.  The parameter file *)
(* (Para) keeps what is saved, and what is not sent to the gateway again   *)
(* it has, for every number of command threads, settings, versions and     *)
(* failures.  The other parts have their theorems in                       *)
(* PlaybackProofs, DevReportProofs and PktLinkProofs; at the end they are  *)
(* carried over to the specification that explores each part on its own.   *)
(***************************************************************************)
EXTENDS MCParts, FiniteSetTheorems, TLAPS

Jobs == {"start", "set", "version", "send", "resend", "read", "iniset"}

\* The steps and jobs are what they are called, ...
Shape ==
  /\ pc \in [Thread -> Step] /\ job \in [Thread -> Job]
  /\ arg = [t \in Thread |-> arg[t]]
  /\ \A t \in Thread : pc[t] = "version" => job[t] = "send"
  /\ \A t \in Thread : pc[t] = "clear" => job[t] \in {"send", "resend", "read", "write"}
  /\ \A t \in Thread : pc[t] \in Saving => job[t] \in Jobs

\* ... who empties or writes the file holds its lock, ...
Locked == \A t \in Thread : pc[t] \in {"open", "dump"} => lock = t

\* ... and has on it the file as it was then, with the keys set.
Loaded ==
  \A t \in Thread : /\ pc[t] = "open" => copy = Overlay(file, arg[t])
                    /\ pc[t] = "dump" => file = Empty

IInv == Shape /\ Locked /\ Loaded

LEMMA InitIInv == Init => IInv
<1>. SUFFICES ASSUME Init PROVE IInv
  OBVIOUS
<1>1. /\ pc \in [Thread -> Step] /\ job \in [Thread -> Job]
      /\ arg = [t \in Thread |-> arg[t]]
  BY DEF Init, Step, Saving, Job
<1>2. \A t \in Thread : /\ pc[t] \in {"idle", "lock"}
                        /\ pc[t] = "lock" => job[t] \in Jobs
  BY DEF Init, Jobs
<1>. QED  BY <1>1, <1>2 DEF IInv, Shape, Locked, Loaded, Saving

\* A step that neither opens nor closes the file nor takes its lock.
Aside ==
  /\ file' = file /\ copy' = copy /\ lock' = lock
  /\ \A t \in Thread : /\ pc'[t] = "open" <=> pc[t] = "open"
                       /\ pc'[t] = "dump" <=> pc[t] = "dump"
                       /\ pc[t] = "open" => arg'[t] = arg[t]

\* After a save the thread is not in the midst of another.
LEMMA AfterSave ==
  \A j \in Jobs : /\ After[j] \in Step \ Saving
                  /\ After[j] # "version"
                  /\ After[j] = "clear" => j = "version"
BY DEF Jobs, After, Step, Saving

LEMMA GateAside ==
  ASSUME Shape, Diff \/ Version \/ Bak
  PROVE  Shape' /\ Aside
<1>. USE DEF Shape, Aside, Go, Does, SameWork, store, Step, Saving, Job, Jobs, Thread
<1>1. CASE Diff
  BY <1>1 DEF Diff
<1>2. CASE Version
  <2>1. CASE Go(Gate, "version", "clear") /\ SameWork
    BY <1>2, <2>1 DEF Version
  <2>2. CASE Go(Gate, "version", "lock")
             /\ Does(Gate, "version", [Empty EXCEPT !.ver = (file.ver % MaxVer) + 1])
    <3>1. /\ file' = file /\ copy' = copy /\ lock' = lock
          /\ pc[Gate] = "version" /\ pc' = [pc EXCEPT ![Gate] = "lock"]
          /\ job' = [job EXCEPT ![Gate] = "version"]
      BY <1>2, <2>2 DEF Version
    <3>2. \E a : arg' = [arg EXCEPT ![Gate] = a]
      BY <2>2 DEF Does
    <3>3. Aside
      BY <3>1, <3>2
    <3>4. pc' \in [Thread -> Step] /\ job' \in [Thread -> Job]
      BY <3>1
    <3>5. \A t \in Thread : /\ pc'[t] = IF t = Gate THEN "lock" ELSE pc[t]
                            /\ job'[t] = IF t = Gate THEN "version" ELSE job[t]
      BY <3>1
    <3>6. arg' = [t \in Thread |-> arg'[t]]
      BY <3>2
    <3>. QED  BY <3>3, <3>4, <3>5, <3>6
  <2>. QED  BY <1>2, <2>1, <2>2 DEF Version
<1>3. CASE Bak
  BY <1>3 DEF Bak
<1>. QED  BY <1>1, <1>2, <1>3

LEMMA SendingAside ==
  ASSUME Shape, NEW t \in Thread, Sending(t)
  PROVE  Shape' /\ Aside
<1>. USE DEF Shape, Aside, Go, Does, SameWork, store, Step, Saving, Job, Jobs
<1>1. CASE Clear(t)
  BY <1>1 DEF Clear
<1>2. CASE Cp(t) \/ Gzip(t) \/ Post(t)
  BY <1>2 DEF Cp, Gzip, Post
<1>3. CASE Tidy(t)
  BY <1>3 DEF Tidy
<1>. QED  BY <1>1, <1>2, <1>3 DEF Sending

LEMMA WritingAside ==
  ASSUME Shape, NEW t \in Thread, Writing(t)
  PROVE  Shape' /\ Aside
<1>. USE DEF Shape, Aside, Go, Does, SameWork, Fails, store, Step, Saving, Job, Jobs
<1>1. CASE Put(t)
  BY <1>1 DEF Put
<1>2. CASE Gunzip(t)
  BY <1>2 DEF Gunzip
<1>3. CASE Iniset(t)
  BY <1>3 DEF Iniset
<1>4. CASE Answer(t)
  BY <1>4 DEF Answer
<1>. QED  BY <1>1, <1>2, <1>3, <1>4 DEF Writing

LEMMA RequestAside ==
  ASSUME Shape, NEW t \in Cmd, SetIp(t) \/ ReadPara(t) \/ WritePara(t)
  PROVE  Shape' /\ Aside
<1>1. ASSUME NEW a, Takes(t, "lock", "set", a) PROVE Shape' /\ Aside
  BY <1>1 DEF Takes, Asked, Does, Shape, Aside, store, Step, Saving, Job, Jobs, Thread
<1>2. ASSUME NEW a, NEW j \in {"read", "write"}, Takes(t, "clear", j, a)
      PROVE  Shape' /\ Aside
  BY <1>2 DEF Takes, Asked, Does, Shape, Aside, store, Step, Saving, Job, Jobs, Thread
<1>. QED  BY <1>1, <1>2 DEF SetIp, ReadPara, WritePara

\* What is aside of the file leaves the rest of the invariant and the settings.
LEMMA AsideKeeps ==
  ASSUME IInv, Shape', Aside
  PROVE  IInv' /\ Stored' = Stored /\ Writer' = Writer
<1>1. Locked' /\ Loaded'
  BY DEF IInv, Locked, Loaded, Aside
<1>2. Writer' = Writer
  BY DEF Writer, Aside
<1>. QED  BY <1>1, <1>2 DEF IInv, Stored, Aside

--------------------------------------------------------------------------------
(* The steps of a save.                                                      *)

OneSave == \E t \in Thread :
             pc[t] = "open" /\ pc'[t] = "dump" /\ Stored' = Overlay(Stored, arg[t])

LEMMA LoadStep ==
  ASSUME IInv, NEW t \in Thread, Load(t)
  PROVE  IInv' /\ Stored' = Stored /\ Writer' = Writer
<1>. USE DEF IInv
<1>1. Shape'
  BY DEF Shape, Load, Go, SameWork, Step, Saving
<1>2. \A u \in Thread : pc[u] \notin {"open", "dump"}
  BY ParaAssumption DEF Locked, Load
<1>3. Locked' /\ Loaded'
  BY <1>2 DEF Locked, Loaded, Load, Go, Shape, SameWork
<1>4. Writer = {} /\ Writer' = {}
  BY <1>2 DEF Writer, Load, Go, Shape
<1>. QED  BY <1>1, <1>3, <1>4 DEF Stored, Load

LEMMA OpenStep ==
  ASSUME IInv, NEW t \in Thread, Open(t)
  PROVE  /\ IInv' /\ OneSave
         /\ Writer = {} /\ Writer' # {} /\ Stored' = Overlay(Stored, arg[t])
<1>. USE DEF IInv
<1>1. Shape'
  BY DEF Shape, Open, Go, SameWork, Step, Saving
<1>2. \A u \in Thread \ {t} : pc[u] \notin {"open", "dump"}
  BY DEF Locked, Open, Go
<1>3. pc[t] = "open" /\ pc'[t] = "dump" /\ \A u \in Thread \ {t} : pc'[u] = pc[u]
  BY DEF Open, Go, Shape
<1>4. Locked' /\ Loaded'
  BY <1>2, <1>3 DEF Locked, Loaded, Open
<1>5. Writer = {} /\ t \in Writer'
  BY <1>2, <1>3 DEF Writer
<1>6. Stored = file /\ Stored' = copy'
  BY <1>5 DEF Stored
<1>7. copy' = copy /\ copy = Overlay(file, arg[t])
  BY <1>3 DEF Open, Loaded
<1>8. Stored' = Overlay(Stored, arg[t])
  BY <1>6, <1>7
<1>. QED  BY <1>1, <1>3, <1>4, <1>5, <1>8 DEF OneSave

\* A file that could not be written out is lost.
Lost == file' = Empty /\ Writer # {} /\ Writer' = {}

LEMMA DumpStep ==
  ASSUME IInv, NEW t \in Thread, Dump(t)
  PROVE  IInv' /\ (Stored' = Stored \/ (Lost /\ missed'))
<1>. USE DEF IInv
<1>1. pc[t] = "dump" /\ job[t] \in Jobs /\ pc' = [pc EXCEPT ![t] = After[job[t]]]
  BY DEF Dump, Go, Shape, Saving
<1>2. pc'[t] \in Step \ Saving /\ \A u \in Thread \ {t} : pc'[u] = pc[u]
  BY <1>1, AfterSave DEF Shape
<1>3. \A u \in Thread \ {t} : pc[u] \notin {"open", "dump"}
  BY <1>1 DEF Locked
<1>4. Shape'
  <2>1. pc' \in [Thread -> Step]
    BY <1>1, AfterSave DEF Shape
  <2>2. job' \in [Thread -> Job] /\ \A u \in Thread \ {t} : job'[u] = job[u]
    BY DEF Dump, GoesOn, Shape, Job
  <2>3. arg' = [u \in Thread |-> arg'[u]]
    BY DEF Dump, GoesOn, Shape
  <2>4. pc'[t] = "clear" => job'[t] = "send"
    BY <1>1, AfterSave DEF Dump, GoesOn, Shape
  <2>5. pc'[t] # "version"
    BY <1>1, AfterSave
  <2>. QED  BY <1>2, <2>1, <2>2, <2>3, <2>4, <2>5 DEF Shape
<1>5. \A u \in Thread : pc'[u] \notin {"open", "dump"}
  BY <1>2, <1>3 DEF Saving
<1>6. Locked' /\ Loaded'
  BY <1>5 DEF Locked, Loaded
<1>7. t \in Writer /\ Writer' = {}
  BY <1>1, <1>5 DEF Writer
<1>. QED  BY <1>4, <1>6, <1>7 DEF Stored, Lost, Dump

LEMMA SaveFailsStep ==
  ASSUME IInv, NEW t \in Thread, SaveFails(t)
  PROVE  IInv' /\ Stored' = Stored /\ Writer' = Writer
<1>. USE DEF IInv
<1>1. /\ pc[t] \in {"lock", "open"} /\ job[t] \in Jobs /\ pc' = [pc EXCEPT ![t] = After[job[t]]]
      /\ file' = file
  BY DEF SaveFails, Go, Shape, Saving
<1>2. pc'[t] \in Step \ Saving /\ \A u \in Thread \ {t} : pc'[u] = pc[u]
  BY <1>1, AfterSave DEF Shape
<1>3. Shape'
  <2>1. pc' \in [Thread -> Step]
    BY <1>1, AfterSave DEF Shape
  <2>2. job' \in [Thread -> Job] /\ \A u \in Thread \ {t} : job'[u] = job[u]
    BY DEF SaveFails, GoesOn, Shape, Job
  <2>3. arg' = [u \in Thread |-> arg'[u]] /\ \A u \in Thread \ {t} : arg'[u] = arg[u]
    BY DEF SaveFails, GoesOn, Shape
  <2>4. pc'[t] = "clear" => job'[t] = "send"
    BY <1>1, AfterSave DEF SaveFails, GoesOn, Shape
  <2>5. pc'[t] # "version"
    BY <1>1, AfterSave
  <2>. QED  BY <1>2, <2>1, <2>2, <2>3, <2>4, <2>5 DEF Shape
<1>4. \A u \in Thread \ {t} : arg'[u] = arg[u]
  BY DEF SaveFails, GoesOn, Shape
<1>5. Writer' = Writer
  BY <1>1, <1>2 DEF Writer, Saving
<1>6. CASE lock' = lock /\ copy' = copy
  BY <1>1, <1>2, <1>3, <1>4, <1>5, <1>6 DEF Locked, Loaded, Saving, Stored
<1>7. CASE pc[t] = "open"
  <2>1. \A u \in Thread : pc'[u] \notin {"open", "dump"}
    BY <1>2, <1>7 DEF Locked, Saving
  <2>2. Writer' = {}
    BY <2>1 DEF Writer
  <2>. QED  BY <1>1, <1>3, <1>5, <2>1, <2>2 DEF Locked, Loaded, Stored
<1>. QED  BY <1>6, <1>7 DEF SaveFails, Go

LEMMA RestartStep ==
  ASSUME IInv, Restart
  PROVE  IInv' /\ (Stored' = Stored \/ Lost)
<1>. USE DEF IInv, Lost
<1>1. \A t \in Thread : pc'[t] \notin {"open", "dump"}
  BY DEF Restart, Starts
<1>2. Shape'
  BY DEF Restart, Starts, Shape, Step, Saving, Job, Jobs
<1>3. Locked' /\ Loaded' /\ Writer' = {}
  BY <1>1 DEF Locked, Loaded, Writer
<1>4. CASE Writer = {}
  <2>1. file' = file
    BY <1>4 DEF Restart, Writer
  <2>. QED  BY <1>2, <1>3, <1>4, <2>1 DEF Stored
<1>5. CASE Writer # {}
  <2>1. file = Empty
    BY <1>5 DEF Writer, Loaded
  <2>2. file' = Empty
    BY <2>1 DEF Restart
  <2>. QED  BY <1>2, <1>3, <1>5, <2>2
<1>. QED  BY <1>4, <1>5

LEMMA NextStep ==
  ASSUME IInv, [Next]_vars
  PROVE  /\ IInv'
         /\ Stored' = Stored \/ OneSave \/ Lost
<1>1. CASE UNCHANGED vars
  BY <1>1 DEF vars, store, work, IInv, Shape, Locked, Loaded, Stored, Writer
<1>2. CASE Diff \/ Version \/ Bak
  BY <1>2, GateAside, AsideKeeps DEF IInv
<1>3. ASSUME NEW t \in Thread, Sending(t) \/ Writing(t)
      PROVE  IInv' /\ Stored' = Stored
  BY <1>3, SendingAside, WritingAside, AsideKeeps DEF IInv
<1>4. ASSUME NEW t \in Cmd, SetIp(t) \/ ReadPara(t) \/ WritePara(t)
      PROVE  IInv' /\ Stored' = Stored
  BY <1>4, RequestAside, AsideKeeps DEF IInv
<1>5. ASSUME NEW t \in Thread, Save(t)
      PROVE  IInv' /\ (Stored' = Stored \/ OneSave \/ Lost)
  BY <1>5, LoadStep, OpenStep, DumpStep, SaveFailsStep DEF Save
<1>6. CASE Restart
  BY <1>6, RestartStep DEF Lost
<1>. QED  BY <1>1, <1>2, <1>3, <1>4, <1>5, <1>6 DEF Next

--------------------------------------------------------------------------------
\* No save is lost: whatever threads save, stamp, count the version up, write an
\* upload or restart the device, the parameters change by one whole save at a
\* time, each on top of the last, or are lost together when the device stops, or
\* finds no room, while the file is written (save2para_file, save_inidict_file).
THEOREM SavesAreSerial == Spec => SettingsKept
<1>1. IInv /\ [Next]_vars => IInv'
  BY NextStep
<1>2. IInv /\ [Next]_vars =>
        [Stored' # Stored =>
           \/ \E t \in Thread : pc[t] = "open" /\ pc'[t] = "dump" /\ Stored' = Overlay(Stored, arg[t])
           \/ file' = Empty /\ Writer # {} /\ Writer' = {}]_vars
  BY NextStep DEF OneSave, Lost
<1>. QED  BY InitIInv, <1>1, <1>2, PTL DEF Spec, SettingsKept

--------------------------------------------------------------------------------
(* The directory.                                                            *)

\* A sending to the gateway that has met nobody in the directory is alone there.
Alone == ~shared /\ InDir(Gate) => Others(Gate) = {}

\* What a thread that writes an upload is about.
CarriesAt(t) ==
  /\ pc[t] \in {"clear", "put"} /\ job[t] = "write" => arg[t] = Upload
  /\ pc[t] \in {"put", "gunzip", "iniset"} => job[t] = "write"
  /\ pc[t] = "done" => job[t] = "iniset"

WInv == Shape /\ Alone /\ \A t \in Thread : CarriesAt(t)

LEMMA InitWInv == Init => WInv
<1>. SUFFICES ASSUME Init PROVE WInv
  OBVIOUS
<1>1. Shape
  BY InitIInv DEF IInv
<1>2. \A t \in Thread : pc[t] \in {"idle", "lock"} /\ job[t] \in {"none", "start"}
  BY DEF Init
<1>3. Gate \in Thread
  BY DEF Thread
<1>. QED  BY <1>1, <1>2, <1>3 DEF WInv, Alone, CarriesAt, InDir, Saving

\* A step of thread u alone, which does not enter the directory.
Acts(u) ==
  /\ \A t \in Thread \ {u} : pc'[t] = pc[t] /\ job'[t] = job[t] /\ arg'[t] = arg[t]
  /\ shared' = shared
  /\ InDir(u)' => InDir(u)
  /\ CarriesAt(u)'

LEMMA ActsKeeps ==
  ASSUME WInv, Shape', NEW u \in Thread, Acts(u)
  PROVE  WInv'
<1>1. \A t \in Thread : InDir(t)' => InDir(t)
  BY DEF Acts, InDir
<1>2. Alone'
  BY <1>1 DEF WInv, Alone, Others, Acts, Thread
<1>3. ASSUME NEW t \in Thread \ {u} PROVE CarriesAt(t)'
  BY <1>3 DEF WInv, Acts, CarriesAt
<1>. QED  BY <1>2, <1>3 DEF WInv, Acts

LEMMA ClearKeeps ==
  ASSUME WInv, Shape', NEW u \in Thread, Clear(u)
  PROVE  WInv'
<1>. USE DEF WInv
<1>1. /\ \A t \in Thread \ {u} : pc'[t] = pc[t] /\ job'[t] = job[t] /\ arg'[t] = arg[t]
      /\ pc[u] = "clear" /\ pc'[u] \in {"put", "lock"} /\ job'[u] = job[u]
      /\ pc'[u] = "put" => job[u] = "write" /\ arg'[u] = arg[u]
      /\ job[u] \in {"send", "resend", "read", "write"}
  BY DEF Clear, Go, Does, SameWork, Shape
<1>2. \A t \in Thread \ {u} : (InDir(t)' <=> InDir(t))
  BY <1>1 DEF InDir
<1>3. Alone'
  <2>1. CASE u = Gate
    <3>1. Others(Gate)' = Others(Gate)
      BY <1>2, <2>1 DEF Others
    <3>. QED  BY <2>1, <3>1 DEF Clear, Alone
  <2>2. CASE u # Gate
    <3>1. ~shared' => ~InDir(Gate)'
      BY <1>2, <2>2 DEF Clear, Thread
    <3>. QED  BY <3>1 DEF Alone
  <2>. QED  BY <2>1, <2>2
<1>4. \A t \in Thread : CarriesAt(t)'
  BY <1>1 DEF CarriesAt
<1>. QED  BY <1>3, <1>4

LEMMA GateActs ==
  ASSUME WInv, Diff \/ Version \/ Bak
  PROVE  Acts(Gate)
<1>. USE DEF WInv, Shape, Acts, InDir, CarriesAt, Go, Does, SameWork, tmp, past,
             Saving, Thread
<1>1. CASE Diff
  BY <1>1 DEF Diff
<1>2. CASE Version
  BY <1>2 DEF Version
<1>3. CASE Bak
  BY <1>3 DEF Bak
<1>. QED  BY <1>1, <1>2, <1>3

LEMMA SaveActs ==
  ASSUME WInv, NEW u \in Thread, Save(u)
  PROVE  Acts(u)
<1>. USE DEF WInv, Shape, Acts, InDir, CarriesAt, Go, SameWork, tmp, past, Saving
<1>1. CASE Load(u)
  BY <1>1 DEF Load
<1>2. CASE Open(u)
  BY <1>2 DEF Open
<1>3. CASE Dump(u) \/ SaveFails(u)
  <2>1. /\ pc[u] \in Saving /\ job[u] \in Jobs /\ pc'[u] = After[job[u]]
        /\ job'[u] = (IF job[u] \in {"start", "set"} THEN "none"
                      ELSE IF job[u] = "version" THEN "send" ELSE job[u])
        /\ \A t \in Thread \ {u} : pc'[t] = pc[t] /\ job'[t] = job[t] /\ arg'[t] = arg[t]
        /\ shared' = shared
    BY <1>3 DEF Dump, SaveFails, GoesOn
  <2>. QED  BY <2>1 DEF After, Jobs
<1>. QED  BY <1>1, <1>2, <1>3 DEF Save

LEMMA SendingActs ==
  ASSUME WInv, NEW u \in Thread, Cp(u) \/ Gzip(u) \/ Post(u) \/ Tidy(u)
  PROVE  Acts(u)
<1>. USE DEF WInv, Shape, Acts, InDir, CarriesAt, Go, Does, SameWork, past, Saving
<1>1. CASE Cp(u)
  BY <1>1 DEF Cp
<1>2. CASE Gzip(u)
  BY <1>2 DEF Gzip
<1>3. CASE Post(u)
  BY <1>3 DEF Post, tmp
<1>4. CASE Tidy(u)
  BY <1>4 DEF Tidy
<1>. QED  BY <1>1, <1>2, <1>3, <1>4

LEMMA WritingActs ==
  ASSUME WInv, NEW u \in Thread, Writing(u)
  PROVE  Acts(u)
<1>. USE DEF WInv, Shape, Acts, InDir, CarriesAt, Go, Does, SameWork, Fails, past,
             tmp, Saving
<1>1. CASE Put(u)
  BY <1>1 DEF Put
<1>2. CASE Gunzip(u)
  BY <1>2, ParaAssumption DEF Gunzip
<1>3. CASE Iniset(u)
  BY <1>3 DEF Iniset
<1>4. CASE Answer(u)
  BY <1>4 DEF Answer
<1>. QED  BY <1>1, <1>2, <1>3, <1>4 DEF Writing

LEMMA RequestActs ==
  ASSUME WInv, NEW u \in Cmd, SetIp(u) \/ ReadPara(u) \/ WritePara(u)
  PROVE  Acts(u)
<1>. USE DEF WInv, Shape, Acts, InDir, CarriesAt, Takes, Asked, Does, tmp, past,
             Saving, Thread
<1>1. ASSUME NEW a, Takes(u, "lock", "set", a) PROVE Acts(u)
  BY <1>1
<1>2. CASE ReadPara(u)
  BY <1>2 DEF ReadPara
<1>3. CASE WritePara(u)
  BY <1>3 DEF WritePara
<1>. QED  BY <1>1, <1>2, <1>3 DEF SetIp

LEMMA WInvStep ==
  ASSUME WInv, Shape', [Next]_vars
  PROVE  WInv'
<1>1. CASE UNCHANGED vars
  BY <1>1 DEF vars, work, tmp, past, WInv, Alone, CarriesAt, InDir, Others
<1>2. CASE Diff \/ Version \/ Bak
  BY <1>2, GateActs, ActsKeeps DEF Thread
<1>3. ASSUME NEW u \in Thread, Save(u) \/ Sending(u) \/ Writing(u) PROVE WInv'
  BY <1>3, SaveActs, SendingActs, WritingActs, ActsKeeps, ClearKeeps DEF Sending
<1>4. ASSUME NEW u \in Cmd, SetIp(u) \/ ReadPara(u) \/ WritePara(u) PROVE WInv'
  BY <1>4, RequestActs, ActsKeeps DEF Thread
<1>5. CASE Restart
  BY <1>5 DEF Restart, Starts, WInv, Alone, CarriesAt, InDir, Others, Saving
<1>. QED  BY <1>1, <1>2, <1>3, <1>4, <1>5 DEF Next

--------------------------------------------------------------------------------
(* Types.                                                                    *)

LEMMA Contents ==
  /\ Empty \in Content /\ First \in Content /\ Upload \in Content
  /\ \A k \in Key, v \in 1..2 : [Empty EXCEPT !.val[k] = v] \in Content
  /\ \A s \in 0..2 : [Empty EXCEPT !.stamp = s] \in Content
  /\ \A c \in Content : [Empty EXCEPT !.ver = (c.ver % MaxVer) + 1] \in Content
<1>. USE DEF Content, Empty, First, Upload
<1>1. Empty \in Content /\ First \in Content /\ Upload \in Content
  BY ParaAssumption
<1>2. ASSUME NEW k \in Key, NEW v \in 1..2 PROVE [Empty EXCEPT !.val[k] = v] \in Content
  <2>1. [Empty.val EXCEPT ![k] = v] \in [Key -> 0..3]
    OBVIOUS
  <2>. QED  BY <2>1, <1>1
<1>3. \A s \in 0..2 : [Empty EXCEPT !.stamp = s] \in Content
  BY <1>1
<1>4. ASSUME NEW c \in Content
      PROVE  [Empty EXCEPT !.ver = (c.ver % MaxVer) + 1] \in Content
  <2>1. MaxVer \in Nat \ {0} /\ c.ver \in Nat
    BY ParaAssumption
  <2>2. c.ver % MaxVer \in 0..(MaxVer - 1)
    BY <2>1
  <2>3. (c.ver % MaxVer) + 1 \in 0..MaxVer
    BY <2>1, <2>2
  <2>. QED  BY <2>3
<1>. QED  BY <1>1, <1>2, <1>3, <1>4

LEMMA OverlayType ==
  ASSUME NEW c \in Content, NEW a \in Content
  PROVE  Overlay(c, a) \in Content
<1>1. [k \in Key |-> IF a.val[k] # 0 THEN a.val[k] ELSE c.val[k]] \in [Key -> 0..3]
  BY DEF Content
<1>. QED  BY <1>1 DEF Overlay, Content

LEMMA UnstampedType ==
  ASSUME NEW c \in Content
  PROVE  [c EXCEPT !.stamp = 0] \in Content
BY DEF Content

LEMMA StartsTypes ==
  /\ [t \in Thread |-> IF t = Gate THEN "lock" ELSE "idle"] \in [Thread -> Step]
  /\ [t \in Thread |-> IF t = Gate THEN "start" ELSE "none"] \in [Thread -> Job]
  /\ [t \in Thread |-> Empty] \in [Thread -> Content]
BY Contents DEF Step, Saving, Job

LEMMA InitTypes == Init => TypeOK
<1>. SUFFICES ASSUME Init PROVE TypeOK
  OBVIOUS
<1>1. file \in Content /\ bak \in Content /\ copy \in Content
  BY Contents DEF Init
<1>2. told \in Content
  BY <1>1, UnstampedType DEF Init
<1>3. pc \in [Thread -> Step] /\ job \in [Thread -> Job] /\ arg \in [Thread -> Content]
  BY StartsTypes DEF Init
<1>4. left \in 0..MaxRequests /\ faults \in 0..MaxFaults
  BY ParaAssumption DEF Init
<1>. QED  BY <1>1, <1>2, <1>3, <1>4 DEF Init, TypeOK

LEMMA SaveTypes ==
  ASSUME TypeOK, Shape, NEW t \in Thread, Save(t)
  PROVE  TypeOK'
<1>. USE DEF TypeOK, Go, SameWork, FailsFor, tmp, past, bound
<1>1. CASE Load(t)
  <2>1. copy' \in Content
    BY <1>1, OverlayType DEF Load
  <2>2. pc' \in [Thread -> Step]
    BY <1>1 DEF Load, Step, Saving
  <2>. QED  BY <1>1, <2>1, <2>2 DEF Load
<1>2. CASE Open(t)
  <2>1. pc' \in [Thread -> Step] /\ file' \in Content
    BY <1>2, Contents DEF Open, Step, Saving
  <2>. QED  BY <1>2, <2>1 DEF Open
<1>3. CASE Dump(t) \/ SaveFails(t)
  <2>1. pc' \in [Thread -> Step]
    BY <1>3, AfterSave DEF Dump, SaveFails, Shape, Saving
  <2>2. job' \in [Thread -> Job]
    BY <1>3 DEF Dump, SaveFails, GoesOn, Job
  <2>3. arg' \in [Thread -> Content]
    BY <1>3, Contents DEF Dump, SaveFails, GoesOn
  <2>4. left' \in 0..MaxRequests /\ faults' \in 0..MaxFaults
    <3>1. (left' = left /\ faults' = faults) \/ FailsFor(FALSE)
      BY <1>3 DEF Dump, SaveFails
    <3>. QED  BY <3>1, ParaAssumption
  <2>5. missed' \in BOOLEAN
    BY <1>3 DEF Dump, SaveFails
  <2>. QED  BY <1>3, <2>1, <2>2, <2>3, <2>4, <2>5, Contents DEF Dump, SaveFails
<1>. QED  BY <1>1, <1>2, <1>3 DEF Save

LEMMA GateTypes ==
  ASSUME TypeOK, Diff \/ Version \/ Bak
  PROVE  TypeOK'
<1>. USE DEF TypeOK, Go, Does, SameWork, FailsFor, store, tmp, past, bound
<1>1. Gate \in Thread
  BY DEF Thread
<1>2. CASE Diff
  <2>1. pc' \in [Thread -> Step] /\ job' \in [Thread -> Job]
    BY <1>2 DEF Diff, Step, Job
  <2>2. arg' \in [Thread -> Content]
    BY <1>2, Contents DEF Diff
  <2>3. left' \in 0..MaxRequests /\ faults' \in 0..MaxFaults /\ missed' \in BOOLEAN
    BY <1>2, ParaAssumption DEF Diff
  <2>. QED  BY <1>2, <2>1, <2>2, <2>3 DEF Diff
<1>3. CASE Version
  <2>1. pc' \in [Thread -> Step] /\ job' \in [Thread -> Job]
    BY <1>3 DEF Version, Step, Saving, Job
  <2>2. arg' \in [Thread -> Content]
    BY <1>3, Contents DEF Version
  <2>3. left' \in 0..MaxRequests /\ faults' \in 0..MaxFaults
    BY <1>3, ParaAssumption DEF Version
  <2>. QED  BY <1>3, <2>1, <2>2, <2>3 DEF Version
<1>4. CASE Bak
  <2>1. pc' \in [Thread -> Step] /\ job' \in [Thread -> Job] /\ arg' \in [Thread -> Content]
    BY <1>4, Contents DEF Bak, Step, Job
  <2>2. left' \in 0..MaxRequests /\ faults' \in 0..MaxFaults
    BY <1>4, ParaAssumption DEF Bak
  <2>. QED  BY <1>4, <2>1, <2>2 DEF Bak
<1>. QED  BY <1>2, <1>3, <1>4

LEMMA SendingTypes ==
  ASSUME TypeOK, NEW t \in Thread, Sending(t)
  PROVE  TypeOK'
<1>. USE DEF TypeOK, Go, Does, SameWork, store, bound
<1>1. CASE Clear(t)
  <2>1. pc' \in [Thread -> Step] /\ job' \in [Thread -> Job]
    BY <1>1 DEF Clear, Step, Saving
  <2>2. arg' \in [Thread -> Content]
    BY <1>1, Contents DEF Clear
  <2>3. shared' \in BOOLEAN
    BY <1>1 DEF Clear, InDir
  <2>. QED  BY <1>1, <2>1, <2>2, <2>3 DEF Clear
<1>2. CASE Cp(t)
  BY <1>2 DEF Cp, Step
<1>3. CASE Gzip(t)
  <2>1. pc' \in [Thread -> Step]
    BY <1>3 DEF Gzip, Step
  <2>2. raw' \in Content \cup {None} /\ gz' \in Content \cup {None}
    BY <1>3 DEF Gzip
  <2>3. UNCHANGED <<store, dir, flag, past, bound, job, arg>>
    BY <1>3 DEF Gzip
  <2>. QED  BY <2>1, <2>2, <2>3 DEF past
<1>4. CASE Post(t)
  <2>1. pc' \in [Thread -> Step] /\ missed' \in BOOLEAN
    BY <1>4 DEF Post, Step
  <2>2. told' \in Content
    <3>1. told' = told \/ (gz \in Content /\ told' = [gz EXCEPT !.stamp = 0])
      BY <1>4 DEF Post
    <3>. QED  BY <3>1, UnstampedType
  <2>3. UNCHANGED <<store, tmp, flag, shared, bound, job, arg>>
    BY <1>4 DEF Post
  <2>. QED  BY <2>1, <2>2, <2>3 DEF tmp
<1>5. CASE Tidy(t)
  <2>1. pc' \in [Thread -> Step] /\ job' \in [Thread -> Job]
    BY <1>5 DEF Tidy, Step, Job
  <2>2. arg' \in [Thread -> Content]
    BY <1>5, Contents DEF Tidy
  <2>. QED  BY <1>5, <2>1, <2>2 DEF Tidy, past
<1>. QED  BY <1>1, <1>2, <1>3, <1>4, <1>5 DEF Sending

LEMMA WritingTypes ==
  ASSUME TypeOK, NEW t \in Thread, Writing(t)
  PROVE  TypeOK'
<1>. USE DEF TypeOK, Go, Does, SameWork, Fails, FailsFor, store, past, bound
<1>1. CASE Put(t)
  BY <1>1, Contents, ParaAssumption DEF Put, Step, Job
<1>2. CASE Gunzip(t)
  BY <1>2, Contents, ParaAssumption DEF Gunzip, Step, Job
<1>3. CASE Iniset(t)
  BY <1>3, Contents, ParaAssumption DEF Iniset, Step, Saving, Job, tmp
<1>4. CASE Answer(t)
  BY <1>4, Contents DEF Answer, Step, Job, tmp
<1>. QED  BY <1>1, <1>2, <1>3, <1>4 DEF Writing

LEMMA RequestTypes ==
  ASSUME TypeOK, NEW t \in Cmd, SetIp(t) \/ ReadPara(t) \/ WritePara(t)
  PROVE  TypeOK'
<1>1. ASSUME NEW s \in {"lock", "clear"}, NEW j \in Job, NEW a \in Content, Takes(t, s, j, a)
      PROVE  TypeOK'
  BY <1>1, ParaAssumption
  DEF TypeOK, Takes, Asked, Does, Step, Saving, Thread, store, tmp, past
<1>2. CASE SetIp(t)
  BY <1>2, <1>1, Contents DEF SetIp, Job
<1>3. CASE ReadPara(t)
  BY <1>3, <1>1, Contents DEF ReadPara, Job
<1>4. CASE WritePara(t)
  BY <1>4, <1>1, Contents DEF WritePara, Job
<1>. QED  BY <1>2, <1>3, <1>4

LEMMA TypesStep ==
  ASSUME TypeOK, Shape, [Next]_vars
  PROVE  TypeOK'
<1>1. CASE UNCHANGED vars
  BY <1>1 DEF vars, store, work, tmp, past, bound, TypeOK
<1>2. ASSUME NEW t \in Thread, Save(t) \/ Sending(t) \/ Writing(t) PROVE TypeOK'
  BY <1>2, SaveTypes, SendingTypes, WritingTypes
<1>3. CASE Restart
  <2>1. file' \in Content
    BY <1>3, Contents DEF Restart, TypeOK
  <2>2. left' \in 0..MaxRequests
    BY <1>3, ParaAssumption DEF Restart, TypeOK
  <2>. QED  BY <1>3, <2>1, <2>2, Contents, StartsTypes DEF Restart, Starts, TypeOK
<1>. QED  BY <1>1, <1>2, <1>3, GateTypes, RequestTypes DEF Next

\* Every variable keeps its type: what is written to the parameter file, to its
\* backup and to the gateway is always a parameter file, and only a thread or
\* nobody holds its lock.
THEOREM TypeCorrect == Spec => []TypeOK
<1>1. IInv /\ TypeOK /\ [Next]_vars => IInv' /\ TypeOK'
  BY NextStep, TypesStep, ParaAssumption DEF IInv
<1>. QED  BY InitIInv, InitTypes, <1>1, PTL DEF Spec

--------------------------------------------------------------------------------
(* What the gateway has been sent.                                           *)

\* A save leaves a file that is there, and its own stamp, if it has one.
LEMMA OverlayKeeps ==
  ASSUME NEW c \in Content, NEW a \in Content
  PROVE  /\ Overlay(c, a) = Empty => c = Empty
         /\ Overlay(c, a).stamp = IF a.stamp # 0 THEN a.stamp ELSE c.stamp
<1>1. Overlay(c, a).stamp = IF a.stamp # 0 THEN a.stamp ELSE c.stamp
  BY DEF Overlay
<1>2. ASSUME Overlay(c, a) = Empty PROVE c = Empty
  <2>1. c.ver = 0 /\ c.stamp = 0
    <3>1. Overlay(c, a).ver = 0 /\ Overlay(c, a).stamp = 0
      BY <1>2 DEF Empty
    <3>. QED  BY <3>1 DEF Overlay
  <2>2. c.val = [k \in Key |-> 0]
    <3>1. ASSUME NEW k \in Key PROVE c.val[k] = 0
      <4>1. Overlay(c, a).val[k] = 0
        BY <1>2 DEF Empty
      <4>. QED  BY <4>1 DEF Overlay
    <3>2. c.val \in [Key -> 0..3]
      BY DEF Content
    <3>. QED  BY <3>1, <3>2
  <2>. QED  BY <2>1, <2>2 DEF Content, Empty
<1>. QED  BY <1>1, <1>2

CmdJob == {"none", "set", "read", "write", "iniset"}

\* The gateway's thread saves and sends, the others save, read and write; the
\* first save after a start comes before any sending.
Roles ==
  /\ job[Gate] \in {"none", "start", "version", "send", "resend"}
  /\ \A t \in Cmd : job[t] \in CmdJob
  /\ pc[Gate] \in {"clear", "cp", "gzip", "post", "tidy"} => job[Gate] \in {"send", "resend"}
  /\ job[Gate] = "start" => flag

\* Settings and versions bear no stamp, a file that is sent another one than the
\* backup has, by which it differs from the backup.
Stamped ==
  /\ \A t \in Thread : pc[t] \in {"lock", "open"} /\ job[t] \in {"start", "set", "version"}
                         => arg[t].stamp = 0
  /\ pc[Gate] \in {"lock", "open"} /\ job[Gate] \in {"send", "resend"}
       => arg[Gate].stamp \notin {0, bak.stamp}
  /\ pc[Gate] \in {"dump", "cp", "gzip", "post", "tidy"} /\ job[Gate] \in {"send", "resend"}
       => missed \/ shared \/ Stored.stamp # bak.stamp

\* The copy that is under way is the file, unless one is being written.
Current(c) == Same(c, Stored) \/ (Writer # {} /\ Stored # Empty)

Sends ==
  ~shared =>
    /\ pc[Gate] \in Saving /\ job[Gate] \in {"send", "resend"} => raw = None /\ gz = None
    /\ pc[Gate] = "cp" => raw = None /\ gz = None
    /\ pc[Gate] = "gzip" => gz = None /\ (~missed /\ raw # None => Current(raw))
    /\ pc[Gate] = "post" => (~missed /\ gz \in Content => Current(gz))
    /\ pc[Gate] \in {"tidy", "bak"} => (~missed => Current(told))

\* Nothing brings the stamp of the backup back.
Fresh(c) == c.stamp = 0 \/ c.stamp # bak.stamp
Ahead ==
  /\ Stored.stamp # bak.stamp
  /\ \A t \in Cmd : pc[t] \in {"lock", "open"} => Fresh(arg[t])
  /\ raw # None => Fresh(raw)
  /\ gz \in Content => Fresh(gz)

\* Once a sending is over the gateway has what the backup has, or the file is
\* another one than the backup and stays so, as it is before the copy.
Knows ==
  ~missed /\ ~shared =>
    /\ pc[Gate] = "bak" => Ahead
    /\ pc[Gate] = "idle" /\ ~flag =>
         \/ Same(told, bak)
         \/ bak = Empty /\ Stored # Empty
         \/ Ahead

KInv == Roles /\ Stamped /\ Sends /\ Knows

LEMMA InitKInv == Init => KInv
<1>. SUFFICES ASSUME Init PROVE KInv
  OBVIOUS
<1>1. /\ pc[Gate] = "lock" /\ job[Gate] = "start" /\ flag
      /\ \A t \in Cmd : job[t] = "none"
      /\ \A t \in Thread : arg[t].stamp = 0
  BY ParaAssumption DEF Init, Empty, Thread
<1>. QED  BY <1>1 DEF KInv, Roles, CmdJob, Stamped, Sends, Knows

\* It is inductive together with the types and the invariants of the other theorems.
Inv == IInv /\ WInv /\ TypeOK

LEMMA StoredType == TypeOK => Stored \in Content
BY DEF TypeOK, Stored

\* A step of a command thread u: nothing of the gateway's thread changes, ...
Apart(u) ==
  /\ pc'[Gate] = pc[Gate] /\ job'[Gate] = job[Gate] /\ arg'[Gate] = arg[Gate]
  /\ bak' = bak /\ flag' = flag /\ told' = told
  /\ \A t \in Cmd \ {u} : pc'[t] = pc[t] /\ job'[t] = job[t] /\ arg'[t] = arg[t]
  /\ job'[u] \in CmdJob
  /\ pc'[u] \in {"lock", "open"} /\ job'[u] = "set" => arg'[u].stamp = 0

\* ... the directory changes under the gateway's thread only as is noted, ...
Noted(u) ==
  /\ missed => missed'
  /\ shared => shared'
  /\ InDir(Gate) /\ ~shared' => raw' = raw /\ gz' = gz /\ ~InDir(u)

\* ... nothing bears the backup's stamp that did not, ...
Brings(u) ==
  Ahead => /\ pc'[u] \in {"lock", "open"} => Fresh(arg'[u])
           /\ raw' # None => Fresh(raw')
           /\ gz' \in Content => Fresh(gz')

\* ... and the file is saved as a whole, or lost, which is noted too.
Stores(u) ==
  \/ missed'
  \/ Stored' = Stored /\ Writer' = Writer
  \/ Stored' = Stored /\ (pc[Gate] \in {"gzip", "post", "tidy", "bak"} => missed')
  \/ /\ pc[u] = "open" /\ Writer = {} /\ Writer' # {}
     /\ Stored' = Overlay(Stored, arg[u])

LEMMA ElsewhereKeeps ==
  ASSUME Inv, KInv, NEW u \in Cmd, Apart(u), Noted(u), Brings(u), Stores(u)
  PROVE  KInv'
<1>. USE DEF KInv
<1>1. Roles'
  BY DEF Roles, Apart
<1>2. Stored \in Content /\ arg[u] \in Content /\ u \in Thread /\ u # Gate /\ Gate \in Thread
  BY StoredType, ParaAssumption DEF Inv, TypeOK, Thread
<1>3. InDir(Gate)' = InDir(Gate)
  BY DEF InDir, Apart
<1>4. ASSUME pc[u] = "open", ~InDir(u) PROVE arg[u].stamp = 0
  <2>1. job[u] \in Jobs /\ job[u] \notin {"send", "resend", "read", "iniset"}
    BY <1>2, <1>4 DEF Inv, IInv, Shape, InDir, Saving
  <2>. QED  BY <1>2, <1>4, <2>1 DEF Stamped, Jobs
<1>5. Stamped'
  <2>1. ASSUME NEW t \in Thread, pc'[t] \in {"lock", "open"}, job'[t] \in {"start", "set", "version"}
        PROVE  arg'[t].stamp = 0
    <3>1. CASE t = Gate
      BY <2>1, <3>1 DEF Stamped, Apart
    <3>2. CASE t = u
      BY <2>1, <3>2 DEF Apart, CmdJob
    <3>3. CASE t \in Cmd \ {u}
      BY <2>1, <3>3 DEF Stamped, Apart
    <3>. QED  BY <3>1, <3>2, <3>3 DEF Thread
  <2>2. pc'[Gate] \in {"lock", "open"} /\ job'[Gate] \in {"send", "resend"}
          => arg'[Gate].stamp \notin {0, bak'.stamp}
    BY DEF Stamped, Apart
  <2>3. ASSUME pc[Gate] \in {"dump", "cp", "gzip", "post", "tidy"},
               job[Gate] \in {"send", "resend"}, ~missed', ~shared'
        PROVE  Stored'.stamp # bak.stamp
    <3>1. Stored.stamp # bak.stamp
      BY <2>3 DEF Stamped, Noted
    <3>2. ~InDir(u)
      BY <2>3 DEF InDir, Saving, Noted
    <3>3. CASE pc[u] = "open" /\ Stored' = Overlay(Stored, arg[u])
      BY <1>2, <1>4, <3>1, <3>2, <3>3, OverlayKeeps
    <3>. QED  BY <2>3, <3>1, <3>3 DEF Stores
  <2>. QED  BY <2>1, <2>2, <2>3 DEF Stamped, Apart
<1>6. ASSUME NEW c \in Content, Current(c), pc[Gate] \in {"gzip", "post", "tidy", "bak"}, ~missed'
      PROVE  Same(c, Stored') \/ (Writer' # {} /\ Stored' # Empty)
  <2>1. CASE Stored' = Stored /\ Writer' = Writer
    BY <1>6, <2>1 DEF Current
  <2>2. CASE Writer = {} /\ Writer' # {} /\ Stored' = Overlay(Stored, arg[u])
    <3>1. Same(c, Stored)
      BY <1>6, <2>2 DEF Current
    <3>2. Stored' = Empty => Stored = Empty
      BY <1>2, <2>2, OverlayKeeps
    <3>. QED  BY <2>2, <3>1, <3>2
  <2>. QED  BY <1>6, <2>1, <2>2 DEF Stores
<1>7. Sends'
  <2>1. SUFFICES ASSUME ~shared' PROVE
          /\ pc[Gate] \in Saving /\ job[Gate] \in {"send", "resend"} => raw' = None /\ gz' = None
          /\ pc[Gate] = "cp" => raw' = None /\ gz' = None
          /\ pc[Gate] = "gzip" => gz' = None /\ (~missed' /\ raw' # None => Current(raw)')
          /\ pc[Gate] = "post" => (~missed' /\ gz' \in Content => Current(gz)')
          /\ pc[Gate] \in {"tidy", "bak"} => (~missed' => Current(told)')
    BY DEF Sends, Apart
  <2>2. ~shared /\ (missed => missed')
    BY <2>1 DEF Noted
  <2>3. InDir(Gate) => raw' = raw /\ gz' = gz
    BY <2>1 DEF Noted
  <2>4. pc[Gate] \in Saving /\ job[Gate] \in {"send", "resend"} => raw' = None /\ gz' = None
    BY <2>2, <2>3 DEF Sends, InDir
  <2>5. pc[Gate] = "cp" => raw' = None /\ gz' = None
    BY <2>2, <2>3 DEF Sends, InDir
  <2>6. ASSUME pc[Gate] = "gzip"
        PROVE  gz' = None /\ (~missed' /\ raw' # None => Current(raw)')
    <3>1. raw' = raw /\ gz' = gz
      BY <2>3, <2>6 DEF InDir
    <3>2. raw # None => raw \in Content
      BY DEF Inv, TypeOK
    <3>. QED  BY <1>6, <2>2, <2>6, <3>1, <3>2 DEF Sends, Current
  <2>7. ASSUME pc[Gate] = "post" PROVE ~missed' /\ gz' \in Content => Current(gz)'
    <3>1. gz' = gz
      BY <2>3, <2>7 DEF InDir
    <3>. QED  BY <1>6, <2>2, <2>7, <3>1 DEF Sends, Current
  <2>8. ASSUME pc[Gate] \in {"tidy", "bak"} PROVE ~missed' => Current(told)'
    <3>1. told' = told /\ told \in Content
      BY DEF Apart, Inv, TypeOK
    <3>. QED  BY <1>6, <2>2, <2>8, <3>1 DEF Sends, Current
  <2>. QED  BY <2>4, <2>5, <2>6, <2>7, <2>8
<1>8. ASSUME ~missed' PROVE Stored' # Stored => pc[u] = "open" /\ Stored' = Overlay(Stored, arg[u])
  BY <1>8 DEF Stores
<1>9. ASSUME Ahead, ~missed' PROVE Ahead'
  <2>1. Stored'.stamp # bak'.stamp
    BY <1>2, <1>8, <1>9, OverlayKeeps DEF Ahead, Fresh, Apart
  <2>2. ASSUME NEW t \in Cmd, pc'[t] \in {"lock", "open"} PROVE Fresh(arg[t])'
    <3>1. CASE t = u
      BY <1>9, <2>2, <3>1 DEF Brings, Fresh, Apart
    <3>2. CASE t # u
      BY <1>9, <2>2, <3>2 DEF Ahead, Fresh, Apart
    <3>. QED  BY <3>1, <3>2
  <2>3. (raw' # None => Fresh(raw)') /\ (gz' \in Content => Fresh(gz)')
    BY <1>9 DEF Brings, Fresh, Apart
  <2>. QED  BY <2>1, <2>2, <2>3 DEF Ahead
<1>10. Knows'
  <2>1. SUFFICES ASSUME ~missed', ~shared'
                 PROVE  /\ pc[Gate] = "bak" => Ahead'
                        /\ pc[Gate] = "idle" /\ ~flag
                             => Same(told, bak) \/ (bak = Empty /\ Stored' # Empty) \/ Ahead'
    BY DEF Knows, Apart
  <2>2. ~missed /\ ~shared
    BY <2>1 DEF Noted
  <2>3. pc[Gate] = "bak" => Ahead'
    BY <1>9, <2>1, <2>2 DEF Knows
  <2>4. CASE bak = Empty /\ Stored # Empty
    BY <1>2, <1>8, <2>1, <2>3, <2>4, OverlayKeeps
  <2>5. CASE Same(told, bak) \/ Ahead
    BY <1>9, <2>1, <2>3, <2>5
  <2>. QED  BY <2>2, <2>3, <2>4, <2>5 DEF Knows
<1>. QED  BY <1>1, <1>5, <1>7, <1>10

\* What is aside of the file stores nothing.
LEMMA AsideStores ==
  ASSUME Inv, Shape', Aside, NEW u \in Cmd
  PROVE  Stores(u)
BY AsideKeeps DEF Inv, Stores

LEMMA CmdSave ==
  ASSUME Inv, KInv, NEW u \in Cmd, Save(u)
  PROVE  Apart(u) /\ Noted(u) /\ Brings(u) /\ Stores(u)
<1>. USE DEF Inv
<1>1. u \in Thread /\ u # Gate /\ Gate \in Thread
  BY ParaAssumption DEF Thread
<1>2. raw' = raw /\ gz' = gz /\ shared' = shared /\ (missed => missed') /\ bak' = bak
  <2>1. CASE Load(u) \/ Open(u)
    BY <2>1 DEF Load, Open, tmp, past
  <2>2. CASE Dump(u) \/ SaveFails(u)
    BY <2>2 DEF Dump, SaveFails, tmp
  <2>. QED  BY <2>1, <2>2 DEF Save
<1>3. Apart(u) /\ Brings(u)
  <2>. USE DEF KInv, Apart, Brings, Go, SameWork, Shape, IInv
  <2>1. CASE Load(u)
    BY <1>1, <1>2, <2>1 DEF Load, past, Roles, Stamped, Ahead
  <2>2. CASE Open(u)
    BY <1>1, <1>2, <2>2 DEF Open, past, Roles, Stamped, Ahead
  <2>3. CASE Dump(u) \/ SaveFails(u)
    <3>1. pc'[u] \notin {"lock", "open"}
      BY <1>1, <2>3, AfterSave DEF Dump, SaveFails, Saving
    <3>2. job'[u] \in CmdJob
      BY <1>1, <2>3 DEF Dump, SaveFails, GoesOn, Roles, CmdJob
    <3>3. \A t \in Thread \ {u} : pc'[t] = pc[t] /\ job'[t] = job[t] /\ arg'[t] = arg[t]
      BY <2>3 DEF Dump, SaveFails, GoesOn
    <3>4. flag' = flag /\ told' = told
      BY <2>3 DEF Dump, SaveFails
    <3>5. Apart(u)
      <4>1. pc'[Gate] = pc[Gate] /\ job'[Gate] = job[Gate] /\ arg'[Gate] = arg[Gate]
        BY <1>1, <3>3
      <4>2. \A t \in Cmd \ {u} : pc'[t] = pc[t] /\ job'[t] = job[t] /\ arg'[t] = arg[t]
        BY <3>3 DEF Thread
      <4>. QED  BY <1>2, <3>1, <3>2, <3>4, <4>1, <4>2
    <3>6. Brings(u)
      BY <1>2, <3>1 DEF Ahead, Fresh
    <3>. QED  BY <3>5, <3>6
  <2>. QED  BY <2>1, <2>2, <2>3 DEF Save
<1>4. InDir(Gate) /\ ~shared => ~InDir(u)
  BY <1>1 DEF WInv, Alone, Others
<1>5. Stores(u)
  <2>1. CASE Load(u)
    BY <1>1, <2>1, LoadStep DEF Stores
  <2>2. CASE Open(u)
    BY <1>1, <2>2, OpenStep DEF Stores, Open, Go
  <2>3. CASE Dump(u)
    <3>1. Stored' = Stored => missed' \/ pc[Gate] \notin {"gzip", "post", "tidy", "bak"}
      BY <2>3 DEF Dump
    <3>. QED  BY <1>1, <2>3, <3>1, DumpStep DEF Stores
  <2>4. CASE SaveFails(u)
    BY <1>1, <2>4, SaveFailsStep DEF Stores
  <2>. QED  BY <2>1, <2>2, <2>3, <2>4 DEF Save
<1>. QED  BY <1>2, <1>3, <1>4, <1>5 DEF Noted

LEMMA CmdSending ==
  ASSUME Inv, KInv, NEW u \in Cmd, Sending(u)
  PROVE  Apart(u) /\ Noted(u) /\ Brings(u)
<1>. USE DEF Inv, Go, Does, SameWork, store, tmp, past
<1>1. /\ u \in Thread /\ u # Gate /\ Gate \in Thread /\ Cmd \subseteq Thread
      /\ job[u] \in CmdJob
      /\ pc \in [Thread -> Step] /\ job \in [Thread -> Job] /\ arg \in [Thread -> Content]
  BY ParaAssumption DEF Thread, KInv, Roles, TypeOK
<1>2. Apart(u)
  <2>1. CASE Clear(u)
    <3>1. job[u] # "set" /\ job' = job
      BY <1>1, <2>1 DEF Clear, TypeOK, IInv, Shape
    <3>2. bak' = bak /\ flag' = flag /\ told' = told
      BY <2>1 DEF Clear
    <3>3. pc' = [pc EXCEPT ![u] = pc'[u]] /\ arg' = [arg EXCEPT ![u] = arg'[u]]
      BY <1>1, <2>1 DEF Clear, TypeOK
    <3>. QED  BY <1>1, <3>1, <3>2, <3>3 DEF Apart, TypeOK
  <2>2. CASE Cp(u)
    BY <1>1, <2>2 DEF Cp, Apart
  <2>3. CASE Gzip(u)
    BY <1>1, <2>3 DEF Gzip, Apart
  <2>4. CASE Post(u)
    <3>1. told' = told
      BY <1>1, <2>4 DEF Post
    <3>. QED  BY <1>1, <2>4, <3>1 DEF Post, Apart
  <2>5. CASE Tidy(u)
    <3>1. flag' = flag
      BY <1>1, <2>5 DEF Tidy, CmdJob, TypeOK
    <3>. QED  BY <1>1, <2>5, <3>1 DEF Tidy, Apart, CmdJob
  <2>. QED  BY <2>1, <2>2, <2>3, <2>4, <2>5 DEF Sending
<1>3. Noted(u)
  <2>1. CASE Clear(u)
    <3>1. InDir(Gate) => shared'
      BY <1>1, <2>1 DEF Clear
    <3>2. shared => shared'
      BY <1>1, <2>1 DEF Clear
    <3>. QED  BY <2>1, <3>1, <3>2 DEF Noted, Clear
  <2>2. CASE Cp(u) \/ Gzip(u) \/ Post(u) \/ Tidy(u)
    <3>1. pc[u] \in {"cp", "gzip", "post", "tidy"} /\ shared' = shared /\ (missed => missed')
      <4>1. CASE Cp(u)
        BY <4>1 DEF Cp
      <4>2. CASE Gzip(u)
        BY <4>2 DEF Gzip, past
      <4>3. CASE Post(u)
        <5>1. (missed' = missed) \/ (missed' = (missed \/ u = Gate))
          BY <4>3 DEF Post
        <5>2. missed => missed'
          BY <5>1
        <5>. QED  BY <4>3, <5>2 DEF Post
      <4>4. CASE Tidy(u)
        BY <4>4 DEF Tidy
      <4>. QED  BY <2>2, <4>1, <4>2, <4>3, <4>4
    <3>2. InDir(u)
      BY <3>1 DEF InDir
    <3>3. InDir(Gate) => shared
      BY <1>1, <3>2 DEF WInv, Alone, Others
    <3>. QED  BY <3>1, <3>3 DEF Noted
  <2>. QED  BY <2>1, <2>2 DEF Sending
<1>4. Brings(u)
  <2>. USE DEF Brings
  <2>. SUFFICES ASSUME Ahead
                PROVE  /\ pc'[u] \in {"lock", "open"} => Fresh(arg'[u])
                       /\ raw' # None => Fresh(raw')
                       /\ gz' \in Content => Fresh(gz')
    OBVIOUS
  <2>1. CASE Clear(u)
    <3>1. raw' = None /\ gz' = None
      BY <2>1 DEF Clear
    <3>2. pc'[u] = "lock" => arg'[u].stamp = (IF bak.stamp = 1 THEN 2 ELSE 1)
      BY <1>1, <2>1 DEF Clear, TypeOK, Empty
    <3>3. pc'[u] # "open"
      BY <1>1, <2>1 DEF Clear, TypeOK
    <3>. QED  BY <3>1, <3>2, <3>3, ParaAssumption DEF Fresh
  <2>2. CASE Cp(u)
    <3>1. Fresh(file)
      <4>1. CASE Writer = {}
        BY <4>1 DEF Stored, Ahead, Fresh
      <4>2. CASE Writer # {}
        BY <4>2 DEF Writer, IInv, Loaded, Empty, Fresh
      <4>. QED  BY <4>1, <4>2
    <3>. QED  BY <1>1, <2>2, <3>1 DEF Cp, Ahead, TypeOK
  <2>3. CASE Gzip(u)
    <3>1. pc'[u] = "post"
      BY <1>1, <2>3 DEF Gzip, TypeOK
    <3>. QED  BY <2>3, <3>1 DEF Gzip, Ahead
  <2>4. CASE Post(u)
    BY <1>1, <2>4 DEF Post, Ahead, TypeOK
  <2>5. CASE Tidy(u)
    BY <1>1, <2>5, ParaAssumption DEF Tidy, TypeOK
  <2>. QED  BY <2>1, <2>2, <2>3, <2>4, <2>5 DEF Sending
<1>. QED  BY <1>2, <1>3, <1>4

LEMMA CmdWriting ==
  ASSUME Inv, KInv, NEW u \in Cmd, Writing(u)
  PROVE  Apart(u) /\ Noted(u) /\ Brings(u)
<1>. USE DEF Inv, Go, Does, SameWork, Fails, store, tmp, past
<1>1. /\ u \in Thread /\ u # Gate /\ Gate \in Thread /\ Cmd \subseteq Thread
      /\ job[u] \in CmdJob
      /\ pc \in [Thread -> Step] /\ job \in [Thread -> Job] /\ arg \in [Thread -> Content]
  BY ParaAssumption DEF Thread, KInv, Roles, TypeOK
<1>2. Apart(u)
  <2>1. CASE Put(u)
    BY <1>1, <2>1 DEF Put, Apart, CmdJob
  <2>2. CASE Gunzip(u)
    BY <1>1, <2>2 DEF Gunzip, Apart, CmdJob
  <2>3. CASE Iniset(u)
    BY <1>1, <2>3 DEF Iniset, Apart, CmdJob
  <2>4. CASE Answer(u)
    BY <1>1, <2>4 DEF Answer, Apart, CmdJob
  <2>. QED  BY <2>1, <2>2, <2>3, <2>4 DEF Writing
<1>3. Noted(u)
  <2>1. shared' = shared /\ missed' = missed
    BY DEF Writing, Put, Gunzip, Iniset, Answer
  <2>2. InDir(u) \/ Answer(u)
    BY DEF Writing, Put, Gunzip, Iniset, InDir
  <2>3. InDir(u) /\ InDir(Gate) => shared
    BY <1>1 DEF WInv, Alone, Others
  <2>4. Answer(u) => raw' = raw /\ gz' = gz /\ ~InDir(u)
    BY DEF Answer, InDir, Saving
  <2>. QED  BY <2>1, <2>2, <2>3, <2>4 DEF Noted
<1>4. Brings(u)
  <2>. USE DEF Brings
  <2>. SUFFICES ASSUME Ahead
                PROVE  /\ pc'[u] \in {"lock", "open"} => Fresh(arg'[u])
                       /\ raw' # None => Fresh(raw')
                       /\ gz' \in Content => Fresh(gz')
    OBVIOUS
  <2>1. CASE Put(u)
    <3>1. pc[u] = "put" /\ pc'[u] \in {"idle", "gunzip"}
      BY <1>1, <2>1 DEF Put, TypeOK
    <3>2. arg[u].stamp = 0
      BY <1>1, <3>1 DEF WInv, CarriesAt, Upload, Empty
    <3>. QED  BY <2>1, <3>1, <3>2, ParaAssumption DEF Put, Ahead, Fresh
  <2>2. CASE Gunzip(u)
    BY <1>1, <2>2, ParaAssumption DEF Gunzip, Ahead, TypeOK
  <2>3. CASE Iniset(u)
    BY <1>1, <2>3 DEF Iniset, Ahead, TypeOK
  <2>4. CASE Answer(u)
    BY <1>1, <2>4 DEF Answer, Ahead, TypeOK
  <2>. QED  BY <2>1, <2>2, <2>3, <2>4 DEF Writing
<1>. QED  BY <1>2, <1>3, <1>4

LEMMA CmdRequest ==
  ASSUME Inv, KInv, NEW u \in Cmd, SetIp(u) \/ ReadPara(u) \/ WritePara(u)
  PROVE  Apart(u) /\ Noted(u) /\ Brings(u)
<1>. USE DEF Inv
<1>1. u \in Thread /\ u # Gate /\ Gate \in Thread
  BY ParaAssumption DEF Thread
<1>2. \E s \in {"lock", "clear"}, j \in {"set", "read", "write"}, a \in {x \in Content : x.stamp = 0} :
        Takes(u, s, j, a)
  BY Contents DEF SetIp, ReadPara, WritePara, Empty, Upload
<1>3. PICK s \in {"lock", "clear"}, j \in {"set", "read", "write"}, a \in {x \in Content : x.stamp = 0} :
        Takes(u, s, j, a)
  BY <1>2
<1>4. Apart(u)
  BY <1>1, <1>3 DEF Takes, Asked, Does, Apart, TypeOK, CmdJob, store, past
<1>5. Noted(u)
  <2>1. ~InDir(u)
    BY <1>3 DEF Takes, Asked, InDir, Saving
  <2>. QED  BY <1>3, <2>1 DEF Takes, Noted, past, tmp
<1>6. Brings(u)
  BY <1>1, <1>3 DEF Takes, Does, Brings, Ahead, Fresh, TypeOK, tmp
<1>. QED  BY <1>4, <1>5, <1>6

\* The steps of the gateway's thread.  What the others have is left to them.
Alike ==
  \A t \in Cmd : pc'[t] = pc[t] /\ job'[t] = job[t] /\ arg'[t] = arg[t]

LEMMA GateFacts ==
  /\ Gate \in Thread /\ Gate \notin Cmd /\ Thread = Cmd \cup {Gate}
  /\ TypeOK => /\ pc \in [Thread -> Step] /\ job \in [Thread -> Job] /\ arg \in [Thread -> Content]
               /\ missed \in BOOLEAN /\ flag \in BOOLEAN
BY ParaAssumption DEF Thread, TypeOK

LEMMA GateDiff ==
  ASSUME Inv, KInv, Diff, Stored' = Stored, Writer' = Writer
  PROVE  KInv'
<1>. USE GateFacts DEF Inv, KInv, Go, Does, SameWork, store, tmp
<1>1. CASE pc'[Gate] = "idle"
  <2>1. pc' = pc /\ job' = job /\ arg' = arg /\ bak' = bak /\ flag' = flag /\ shared' = shared
        /\ told' = told /\ raw' = raw /\ gz' = gz /\ pc[Gate] = "idle" /\ (missed => missed' \/ flag)
    BY <1>1 DEF Diff
  <2>. QED
    BY <2>1 DEF Roles, Stamped, Sends, Knows, Ahead, Fresh
<1>2. CASE pc'[Gate] # "idle"
  <2>1. pc'[Gate] \in {"version", "clear"} /\ job'[Gate] \in {"send", "resend"} /\ Alike
    BY <1>2 DEF Diff, Alike
  <2>. QED  BY <2>1 DEF Alike, Roles, Stamped, Sends, Knows, Saving
<1>. QED  BY <1>1, <1>2

LEMMA GateVersion ==
  ASSUME Inv, KInv, Version, Stored' = Stored, Writer' = Writer
  PROVE  KInv'
<1>. USE GateFacts DEF Inv, KInv, Go, Does, SameWork, store, tmp, past
<1>1. Alike
  BY DEF Version, Alike
<1>2. CASE pc'[Gate] = "clear"
  <2>1. job' = job /\ pc[Gate] = "version" /\ job[Gate] = "send" /\ flag' = flag
    BY <1>2 DEF Version, IInv, Shape
  <2>. QED  BY <1>1, <1>2, <2>1 DEF Alike, Roles, Stamped, Sends, Knows, Saving
<1>3. CASE pc'[Gate] # "clear"
  <2>1. pc'[Gate] = "lock" /\ job'[Gate] = "version" /\ arg'[Gate].stamp = 0 /\ flag' = flag
    BY <1>3 DEF Version, Empty
  <2>. QED  BY <1>1, <2>1 DEF Alike, Roles, Stamped, Sends, Knows, Saving
<1>. QED  BY <1>2, <1>3

LEMMA GateBak ==
  ASSUME Inv, KInv, Bak, Stored' = Stored, Writer' = Writer
  PROVE  KInv'
<1>. USE GateFacts DEF Inv, KInv, Go, Does, tmp, past
<1>1. /\ Alike /\ pc[Gate] = "bak" /\ pc'[Gate] = "idle" /\ job'[Gate] = "none"
      /\ bak' \in {file, bak} /\ told' = told /\ missed' = missed /\ shared' = shared
      /\ raw' = raw /\ gz' = gz
  BY DEF Bak, Alike
<1>2. Roles' /\ Stamped' /\ Sends'
  BY <1>1 DEF Alike, Roles, Stamped, Sends, Saving
<1>3. Knows'
  <2>1. CASE bak' = bak
    BY <1>1, <2>1 DEF Knows, Ahead, Fresh, Alike
  <2>2. CASE bak' = file
    <3>1. SUFFICES ASSUME ~missed, ~shared
                   PROVE  Same(told, file) \/ (file = Empty /\ Stored # Empty)
      BY <1>1, <2>2 DEF Knows
    <3>2. Same(told, Stored) \/ (Writer # {} /\ Stored # Empty)
      BY <1>1, <3>1 DEF Sends, Current
    <3>3. CASE Writer = {}
      BY <3>2, <3>3 DEF Stored
    <3>4. CASE Writer # {}
      <4>1. file = Empty
        BY <3>4 DEF Writer, IInv, Loaded
      <4>. QED  BY <3>2, <4>1
    <3>. QED  BY <3>3, <3>4
  <2>. QED  BY <1>1, <2>1, <2>2
<1>. QED  BY <1>2, <1>3

LEMMA GateSave ==
  ASSUME Inv, KInv, Save(Gate)
  PROVE  KInv'
<1>. USE GateFacts DEF Inv, KInv, Go, SameWork, tmp, past
<1>1. Alike /\ raw' = raw /\ gz' = gz /\ shared' = shared /\ bak' = bak /\ flag' = flag
  <2>1. CASE Load(Gate) \/ Open(Gate)
    BY <2>1 DEF Load, Open, Alike
  <2>2. CASE Dump(Gate) \/ SaveFails(Gate)
    BY <2>2 DEF Dump, SaveFails, GoesOn, Alike
  <2>. QED  BY <2>1, <2>2 DEF Save
<1>2. CASE Load(Gate)
  <2>1. pc[Gate] = "lock" /\ pc'[Gate] = "open" /\ job' = job /\ arg' = arg
    BY <1>2 DEF Load
  <2>. QED  BY <1>1, <2>1 DEF Alike, Roles, Stamped, Sends, Knows, Saving
<1>3. CASE Open(Gate)
  <2>1. pc[Gate] = "open" /\ pc'[Gate] = "dump" /\ job' = job /\ arg' = arg
    BY <1>3 DEF Open
  <2>2. job[Gate] \in {"send", "resend"} => Stored'.stamp # bak.stamp
    <3>1. Stored' = Overlay(Stored, arg[Gate])
      BY <1>3, OpenStep
    <3>2. job[Gate] \in {"send", "resend"} => arg[Gate].stamp \notin {0, bak.stamp}
      BY <2>1 DEF Stamped
    <3>. QED  BY <3>1, <3>2, StoredType, OverlayKeeps
  <2>. QED  BY <1>1, <2>1, <2>2 DEF Alike, Roles, Stamped, Sends, Knows, Saving
<1>4. CASE Dump(Gate) \/ SaveFails(Gate)
  <2>1. /\ pc[Gate] \in Saving /\ pc'[Gate] = After[job[Gate]]
        /\ job'[Gate] = (IF job[Gate] \in {"start", "set"} THEN "none"
                         ELSE IF job[Gate] = "version" THEN "send" ELSE job[Gate])
    BY <1>4 DEF Dump, SaveFails, GoesOn, Saving
  <2>2. job[Gate] \in {"start", "version", "send", "resend"}
    BY <2>1 DEF IInv, Shape, Saving, Jobs, Roles
  <2>3. job[Gate] \in {"send", "resend"} => missed' \/ (pc[Gate] = "dump" /\ Stored' = Stored)
    BY <1>4, DumpStep DEF Dump, SaveFails
  <2>7. missed => missed'
    BY <1>4 DEF Dump, SaveFails
  <2>4. CASE job[Gate] = "start"
    <3>1. pc'[Gate] = "idle" /\ job'[Gate] = "none" /\ flag'
      BY <1>1, <2>1, <2>4 DEF After, Roles
    <3>. QED  BY <1>1, <3>1 DEF Alike, Roles, Stamped, Sends, Knows, Saving
  <2>5. CASE job[Gate] = "version"
    <3>1. pc'[Gate] = "clear" /\ job'[Gate] = "send"
      BY <2>1, <2>5 DEF After
    <3>. QED  BY <1>1, <3>1 DEF Alike, Roles, Stamped, Sends, Knows, Saving
  <2>6. CASE job[Gate] \in {"send", "resend"}
    <3>1. pc'[Gate] = "cp" /\ job'[Gate] = job[Gate]
      BY <2>1, <2>6 DEF After
    <3>. QED  BY <1>1, <2>1, <2>3, <2>6, <2>7, <3>1 DEF Alike, Roles, Stamped, Sends, Knows, Saving
  <2>. QED  BY <2>2, <2>4, <2>5, <2>6
<1>. QED  BY <1>2, <1>3, <1>4 DEF Save

LEMMA GateSending ==
  ASSUME Inv, KInv, Sending(Gate), Stored' = Stored, Writer' = Writer
  PROVE  KInv'
<1>. USE GateFacts DEF Inv, KInv, Go, Does, SameWork, store, tmp, past
<1>1. Alike
  <2>1. CASE Clear(Gate)
    BY <2>1 DEF Clear, Alike
  <2>2. CASE Cp(Gate) \/ Gzip(Gate)
    BY <2>2 DEF Cp, Gzip, Alike
  <2>3. CASE Post(Gate) \/ Tidy(Gate)
    BY <2>3 DEF Post, Tidy, Alike
  <2>. QED  BY <2>1, <2>2, <2>3 DEF Sending
<1>2. job[Gate] \in {"send", "resend"}
  BY DEF Sending, Clear, Cp, Gzip, Post, Tidy, Roles
<1>3. CASE Clear(Gate)
  <2>1. /\ pc'[Gate] = "lock" /\ job'[Gate] = job[Gate] /\ bak' = bak /\ flag' = flag
        /\ raw' = None /\ gz' = None
        /\ arg'[Gate].stamp = IF bak.stamp = 1 THEN 2 ELSE 1
    BY <1>2, <1>3 DEF Clear, Empty
  <2>. QED  BY <1>1, <1>2, <2>1 DEF Alike, Roles, Stamped, Sends, Knows
<1>4. CASE Cp(Gate)
  <2>1. /\ pc[Gate] = "cp" /\ pc'[Gate] = "gzip" /\ job' = job /\ bak' = bak /\ flag' = flag
        /\ gz' = gz /\ shared' = shared /\ raw' \in {None, file}
        /\ Writer # {} => missed'
        /\ missed => missed'
    BY <1>4 DEF Cp, Writer
  <2>2. ~missed' /\ raw' # None => Same(raw', Stored)
    BY <2>1 DEF Stored, Same
  <2>. QED
    BY <1>1, <1>2, <2>1, <2>2 DEF Alike, Roles, Stamped, Sends, Knows, Current, Saving
<1>5. CASE Gzip(Gate)
  <2>1. /\ pc[Gate] = "gzip" /\ pc'[Gate] = "post" /\ job' = job /\ bak' = bak /\ flag' = flag
        /\ shared' = shared /\ missed' = missed
        /\ gz = None => gz' = raw
    BY <1>5 DEF Gzip
  <2>. QED
    BY <1>1, <1>2, <2>1, ParaAssumption
    DEF Alike, Roles, Stamped, Sends, Knows, Current, Saving
<1>6. CASE Post(Gate)
  <2>1. /\ pc[Gate] = "post" /\ pc'[Gate] = "tidy" /\ job' = job /\ bak' = bak /\ flag' = flag
        /\ shared' = shared
        /\ \/ gz \in Content /\ Same(told', gz) /\ missed' = missed
           \/ missed'
    BY <1>6 DEF Post, Content, Same
  <2>. QED
    BY <1>1, <1>2, <2>1 DEF Alike, Roles, Stamped, Sends, Knows, Current, Same, Saving
<1>7. CASE Tidy(Gate)
  <2>1. /\ pc[Gate] = "tidy" /\ bak' = bak /\ shared' = shared /\ told' = told /\ missed' = missed
        /\ raw' = None /\ gz' = None
    BY <1>7 DEF Tidy
  <2>2. ASSUME ~missed, ~shared PROVE Ahead'
    <3>1. Stored.stamp # bak.stamp
      BY <1>2, <2>1, <2>2 DEF Stamped
    <3>2. ASSUME NEW t \in Cmd, pc[t] \in {"lock", "open"} PROVE arg[t].stamp = 0
      <4>1. ~InDir(t)
        BY <2>1, <2>2, <3>2 DEF WInv, Alone, Others, InDir
      <4>2. job[t] \in {"start", "set", "version"}
        BY <3>2, <4>1 DEF InDir, IInv, Shape, Jobs, Saving
      <4>. QED  BY <3>2, <4>2 DEF Stamped
    <3>. QED  BY <1>1, <2>1, <3>1, <3>2, ParaAssumption DEF Ahead, Fresh, Alike
  <2>3. CASE job[Gate] = "send"
    <3>1. pc'[Gate] = "bak" /\ job' = job /\ flag' = flag
      BY <1>7, <2>3 DEF Tidy
    <3>. QED
      BY <1>1, <2>1, <2>2, <2>3, <3>1 DEF Alike, Roles, Stamped, Sends, Knows, Current, Saving
  <2>4. CASE job[Gate] = "resend"
    <3>1. pc'[Gate] = "idle" /\ job'[Gate] = "none"
      BY <1>7, <2>4 DEF Tidy
    <3>. QED  BY <1>1, <2>1, <2>2, <3>1 DEF Alike, Roles, Stamped, Sends, Knows, Saving
  <2>. QED  BY <1>2, <2>3, <2>4
<1>. QED  BY <1>3, <1>4, <1>5, <1>6, <1>7 DEF Sending

\* The gateway's thread writes no upload.
LEMMA GateWritesNot ==
  ASSUME Inv, KInv, Writing(Gate)
  PROVE  FALSE
<1>1. pc[Gate] \in {"put", "gunzip", "iniset", "done"}
  BY DEF Writing, Put, Gunzip, Iniset, Answer, Go, Fails
<1>2. job[Gate] \in {"write", "iniset"}
  BY <1>1, GateFacts DEF Inv, WInv, CarriesAt
<1>. QED  BY <1>2 DEF KInv, Roles

LEMMA KInvRestart ==
  ASSUME Restart
  PROVE  KInv'
<1>1. /\ pc'[Gate] = "lock" /\ job'[Gate] = "start" /\ flag'
      /\ \A t \in Cmd : job'[t] = "none"
      /\ \A t \in Thread : arg'[t].stamp = 0
  BY GateFacts DEF Restart, Starts, Empty
<1>. QED  BY <1>1 DEF KInv, Roles, CmdJob, Stamped, Sends, Knows

LEMMA KInvStep ==
  ASSUME Inv, Shape', KInv, [Next]_vars
  PROVE  KInv'
<1>1. CASE UNCHANGED vars
  BY <1>1 DEF vars, store, work, tmp, past, KInv, Roles, Stamped, Sends, Knows, Current, Ahead,
              Fresh, Stored, Writer
<1>2. CASE Diff \/ Version \/ Bak
  BY <1>2, GateAside, AsideKeeps, GateDiff, GateVersion, GateBak DEF Inv, IInv
<1>3. ASSUME NEW u \in Cmd, Save(u) \/ Sending(u) \/ Writing(u) PROVE KInv'
  <2>1. u \in Thread
    BY GateFacts
  <2>2. Sending(u) \/ Writing(u) => Stores(u)
    BY <1>3, <2>1, SendingAside, WritingAside, AsideStores DEF Inv, IInv
  <2>. QED  BY <1>3, <2>2, CmdSave, CmdSending, CmdWriting, ElsewhereKeeps
<1>4. CASE Save(Gate) \/ Sending(Gate) \/ Writing(Gate)
  BY <1>4, GateFacts, SendingAside, AsideKeeps, GateSave, GateSending, GateWritesNot
  DEF Inv, IInv
<1>5. ASSUME NEW u \in Cmd, SetIp(u) \/ ReadPara(u) \/ WritePara(u) PROVE KInv'
  BY <1>5, RequestAside, AsideStores, CmdRequest, ElsewhereKeeps DEF Inv, IInv
<1>6. CASE Restart
  BY <1>6, KInvRestart
<1>. QED  BY <1>1, <1>2, <1>3, <1>4, <1>5, <1>6, GateFacts DEF Next

\* What is not sent again is known: a file that is as its backup, with nothing
\* left to send after the start, is what the gateway has, whatever was saved,
\* read and written meanwhile, whatever failed and whenever the device restarted -
\* except after a sending that failed or was not stamped, that a save came between
\* or that another request in the same directory disturbed, and after the file was
\* lost (CheckParaFileChange, send_para_to_rmt, CopyPara2Bak).
THEOREM WhatIsNotSentIsKnown == Spec => []UnsentIsKnown
<1>1. Init => Inv
  BY InitIInv, InitWInv, InitTypes DEF Inv
<1>2. Inv /\ KInv /\ [Next]_vars => Inv' /\ KInv'
  BY NextStep, WInvStep, TypesStep, KInvStep DEF Inv, IInv
<1>3. Inv /\ KInv => UnsentIsKnown
  <2>. SUFFICES ASSUME Knows, pc[Gate] = "idle", Writer = {}, file = bak, ~flag, ~missed,
                       ~shared
                PROVE  Same(told, file)
    BY DEF KInv, UnsentIsKnown
  <2>1. Stored = bak
    BY DEF Stored
  <2>. QED  BY <2>1 DEF Knows, Ahead
<1>. QED  BY InitKInv, <1>1, <1>2, <1>3, PTL DEF Spec

--------------------------------------------------------------------------------
(* The parts side by side.                                                   *)

\* What the constants of the other parts are.
PartsSane == /\ Sessions!Sane
             /\ RegLead \in 0..1 /\ WireMax \in Nat \ {0} /\ MaxEvents \in Nat

\* A step of one part leaves the others as they are: each keeps to its own
\* specification, and the part that runs is always the same.
LEMMA PartsRun ==
  MCSpec => /\ Spec /\ Sessions!Spec /\ Alarm!Spec /\ Packets!Spec
            /\ [](which \in {"para", "playback", "alarm", "packets"})
<1>. USE DEF partVars
<1>1. MCInit => /\ Init /\ Sessions!Init /\ Alarm!Init /\ Packets!Init
                /\ which \in {"para", "playback", "alarm", "packets"}
  BY DEF MCInit
<1>2. [MCNext]_partVars => [Next]_vars
  BY DEF MCNext, ParaStep, PlayStep, AlarmStep, PacketStep
<1>3. [MCNext]_partVars => [Sessions!Next]_(Sessions!vars)
  BY DEF MCNext, ParaStep, PlayStep, AlarmStep, PacketStep, sessionVars, Sessions!vars,
         Sessions!slots, Sessions!net, Sessions!listen, Sessions!open, Sessions!play
<1>4. [MCNext]_partVars => [Alarm!Next]_(Alarm!vars)
  BY DEF MCNext, ParaStep, PlayStep, AlarmStep, PacketStep, reportVars, Alarm!vars,
         Alarm!sendVars, Alarm!inVars, Alarm!gwVars, Alarm!wbVars, Alarm!spVars, Alarm!linkVars
<1>5. [MCNext]_partVars => [Packets!Next]_(Packets!vars)
  BY DEF MCNext, ParaStep, PlayStep, AlarmStep, PacketStep, packetVars, Packets!vars
<1>6. which \in {"para", "playback", "alarm", "packets"} /\ [MCNext]_partVars
      => (which \in {"para", "playback", "alarm", "packets"})'
  BY DEF MCNext, ParaStep, PlayStep, AlarmStep, PacketStep
<1>. QED  BY <1>1, <1>2, <1>3, <1>4, <1>5, <1>6, PTL
          DEF MCSpec, Spec, Sessions!Spec, Alarm!Spec, Packets!Spec

\* The parts' constants are what their theorems assume.
LEMMA PartsConstants ==
  ASSUME PartsSane
  PROVE  /\ {"regist", "alarm"} \subseteq Alarm!Kind
         /\ Alarm!IsFiniteSet({in1, in2})
         /\ MCTimeout \in [Alarm!Kind -> Nat \ {0}] /\ RegLead \in 0..MCTimeout["regist"]
         /\ Sessions!Sane /\ Packets!Sane
<1>1. IsFiniteSet({in1, in2})
  <2>1. IsFiniteSet({in1}) /\ IsFiniteSet({in2}) /\ {in1, in2} = {in1} \cup {in2}
    BY FS_Singleton
  <2>. QED  BY <2>1, FS_Union
<1>2. Alarm!IsFiniteSet({in1, in2})
  BY <1>1 DEF IsFiniteSet, Alarm!IsFiniteSet
<1>. QED  BY <1>2 DEF PartsSane, Alarm!Kind, MCTimeout, Packets!Sane

\* The part that runs keeps its types (TypeOK of Para, Playback, DevReport and
\* PktLink).
THEOREM PartsTypesCorrect == PartsSane => (MCSpec => []AllTypeOK)
<1>. SUFFICES ASSUME PartsSane PROVE MCSpec => []AllTypeOK
  OBVIOUS
<1>1. Alarm!Spec => []Alarm!TypeOK
  BY PartsConstants, Alarm!TypeCorrect DEF PartsSane
<1>2. /\ Sessions!Spec => []Sessions!TypeOK
      /\ Packets!Spec => []Packets!TypeOK
  BY PartsConstants, Sessions!TypeCorrect, Packets!TypeCorrect
<1>3. /\ which \in {"para", "playback", "alarm", "packets"}
      /\ TypeOK /\ Sessions!TypeOK /\ Alarm!TypeOK /\ Packets!TypeOK
      => AllTypeOK
  BY DEF AllTypeOK
<1>. QED  BY <1>1, <1>2, <1>3, PartsRun, TypeCorrect, PTL

\* A player that reads has its file (playback_process), in every slot that two
\* openers did not have at once.
THEOREM PartsFilms == PartsSane => (MCSpec => []FilmUnderPlayer)
<1>. SUFFICES ASSUME PartsSane PROVE MCSpec => []FilmUnderPlayer
  OBVIOUS
<1>1. Sessions!Spec => []Sessions!FilmUnderPlayer
  BY PartsConstants, Sessions!PlayersHaveFilms
<1>2. Sessions!FilmUnderPlayer => FilmUnderPlayer
  BY DEF FilmUnderPlayer
<1>. QED  BY <1>1, <1>2, PartsRun, PTL

\* A raised alarm flag is true: the gateway has the last alarm, unless two were
\* under way together (dev_alarm_send and the ack thread's dev_recv_ack).
THEOREM PartsAlarms == PartsSane => (MCSpec => []AlarmFlagHonest)
<1>. SUFFICES ASSUME PartsSane PROVE MCSpec => []AlarmFlagHonest
  OBVIOUS
<1>1. Alarm!Spec => []Alarm!AlarmFlagHonest
  BY PartsConstants, Alarm!AlarmsHonest DEF PartsSane
<1>2. Alarm!AlarmFlagHonest => AlarmFlagHonest
  BY DEF AlarmFlagHonest
<1>. QED  BY <1>1, <1>2, PartsRun, PTL

\* The packets of a connection are taken whole, in order and unaltered, unless
\* two writers' packets crossed and the receiver paused inside one
\* (gt_cmd_pkt_send, gt_cmd_pkt_recv_env).
THEOREM PartsPackets == PartsSane => (MCSpec => []NothingSkipped)
<1>. SUFFICES ASSUME PartsSane PROVE MCSpec => []NothingSkipped
  OBVIOUS
<1>1. Packets!Spec => []Packets!NothingSkipped
  BY PartsConstants, Packets!PacketsInOrder
<1>2. Packets!NothingSkipped => NothingSkipped
  BY DEF NothingSkipped
<1>. QED  BY <1>1, <1>2, PartsRun, PTL
==================================================================================
