----------------------------------- MODULE Para -----------------------------------
(***************************************************************************)
(* The parameter file ip1004.ini (ipmain_para.c, remote_file.c, the saving *)
(* functions of iniparser.c).  Command threads save settings, read the     *)
(* file for a remote computer and write an uploaded one; the thread of the *)
(* gateway's connection raises the file's version and sends it if it has   *)
(* changed since the last time, when it is copied to a backup.  A save     *)
(* holds the file's lock (flock) from its load to its end; comparing,      *)
(* copying and sending do not, and all threads send and receive through    *)
(* the same temporary directory (which is removed after each use, as it is *)
(* where EMBEDED is 1, in the device's build).  Files and programs may     *)
(* fail, and nearly nobody looks at their results.                         *)
(***************************************************************************)
EXTENDS Integers

CONSTANTS
  Cmd,          (* command threads                                           *)
  Key,          (* settings in the file                                      *)
  None,         (* no thread, no file                                        *)
  MaxVer,       (* bound: versions, counted round                            *)
  MaxRequests,  (* bound: requests of the command threads, and restarts      *)
  MaxFaults     (* bound: failures of files and programs, but for sendings   *)

Gate   == "gate"
Thread == Cmd \cup {Gate}

\* Of the file: the settings, alarmversion:version and devinfo:cur_time; 0 is a
\* key that is not there.  A setting is 1 or 2 by command and 3 by upload; a time
\* is only told from that in the backup.
Content == [val : [Key -> 0..3], ver : 0..MaxVer, stamp : 0..2]
Empty   == [val |-> [k \in Key |-> 0], ver |-> 0, stamp |-> 0]
First   == [val |-> [k \in Key |-> 1], ver |-> 1, stamp |-> 1]
Upload  == [Empty EXCEPT !.val = [k \in Key |-> 3]]

ASSUME ParaAssumption ==
  /\ Gate \notin Cmd /\ None \notin Thread
  /\ None \notin Content
  /\ MaxVer \in Nat \ {0} /\ MaxRequests \in Nat /\ MaxFaults \in Nat

VARIABLES
  file, bak,    \* IPMAIN_PARA_FILE, IPMAIN_PARA_GATE_BAK
  lock, copy,   \* the thread that holds the file's lock, its dictionary
  pc, job, arg, \* per thread: step, what it is doing, the keys it is to set
  dir, raw, gz, \* the temporary directory: is there, the file, the packed file
  flag,         \* sendgateini_flag
  told,         \* history: settings and version the gateway received last
  missed,       \* history: the last sending to the gateway was disturbed, or a
                \* file was lost since
  shared,       \* history: another thread used the directory during that sending
  left, faults  \* bounds: requests and failures left

store == <<file, bak, lock, copy>>
work  == <<pc, job, arg>>
tmp   == <<dir, raw, gz>>
past  == <<told, missed, shared>>
bound == <<left, faults>>
vars  == <<store, work, tmp, flag, past, bound>>

Saving == {"lock", "open", "dump"}
Step == Saving \cup {"idle", "version", "clear", "cp", "gzip", "post", "tidy",
                     "bak", "put", "gunzip", "iniset", "done"}
Job  == {"none", "start", "set", "version", "send", "resend", "read", "write", "iniset"}

TypeOK ==
  /\ file \in Content /\ bak \in Content /\ copy \in Content /\ told \in Content
  /\ lock \in Thread \cup {None}
  /\ pc \in [Thread -> Step] /\ job \in [Thread -> Job] /\ arg \in [Thread -> Content]
  /\ dir \in BOOLEAN /\ raw \in Content \cup {None} /\ gz \in Content \cup {None}
  /\ flag \in BOOLEAN /\ missed \in BOOLEAN /\ shared \in BOOLEAN
  /\ left \in 0..MaxRequests /\ faults \in 0..MaxFaults

\* The process starts with readmain_para_file, which loads the file and saves it.
Starts ==
  /\ pc' = [t \in Thread |-> IF t = Gate THEN "lock" ELSE "idle"]
  /\ job' = [t \in Thread |-> IF t = Gate THEN "start" ELSE "none"]
  /\ arg' = [t \in Thread |-> Empty]
  /\ lock' = None /\ copy' = Empty /\ dir' = FALSE /\ raw' = None /\ gz' = None
  /\ flag' = TRUE

Init ==
  /\ file = First /\ bak \in {First, Empty} /\ told = [bak EXCEPT !.stamp = 0]
  /\ lock = None /\ copy = Empty
  /\ pc = [t \in Thread |-> IF t = Gate THEN "lock" ELSE "idle"]
  /\ job = [t \in Thread |-> IF t = Gate THEN "start" ELSE "none"]
  /\ arg = [t \in Thread |-> Empty]
  /\ dir = FALSE /\ raw = None /\ gz = None /\ flag = TRUE
  /\ missed = FALSE /\ shared = FALSE /\ left = MaxRequests /\ faults = MaxFaults

Go(t, from, to) == pc[t] = from /\ pc' = [pc EXCEPT ![t] = to]
Does(t, j, a) == job' = [job EXCEPT ![t] = j] /\ arg' = [arg EXCEPT ![t] = a]
SameWork == UNCHANGED <<job, arg>>

\* Something fails because of c, or for a reason of its own.
FailsFor(c) ==
  /\ \/ c /\ UNCHANGED faults
     \/ faults > 0 /\ faults' = faults - 1
  /\ UNCHANGED left

--------------------------------------------------------------------------------
(* A save: iniparser_load_lockfile, some keys set, save_inidict_file.        *)

Overlay(c, a) ==
  [val   |-> [k \in Key |-> IF a.val[k] # 0 THEN a.val[k] ELSE c.val[k]],
   ver   |-> IF a.ver # 0 THEN a.ver ELSE c.ver,
   stamp |-> IF a.stamp # 0 THEN a.stamp ELSE c.stamp]

LoadUnlocked(t) ==
  /\ Go(t, "lock", "open") /\ lock' = t /\ copy' = Overlay(file, arg[t])
  /\ SameWork /\ UNCHANGED <<file, bak, tmp, flag, past, bound>>
Load(t) ==
  /\ lock = None /\ lock' = t /\ Go(t, "lock", "open")
  /\ copy' = Overlay(file, arg[t])
  /\ SameWork /\ UNCHANGED <<file, bak, tmp, flag, past, bound>>

\* fopen "w" empties the file before the dictionary is dumped to it.
Open(t) ==
  /\ Go(t, "open", "dump") /\ file' = Empty
  /\ SameWork /\ UNCHANGED <<bak, lock, copy, tmp, flag, past, bound>>

AfterNoSend == [start |-> "idle", set |-> "idle", version |-> "bak", send |-> "cp",
                resend |-> "cp", read |-> "cp", iniset |-> "tidy"]
After == [start |-> "idle", set |-> "idle", version |-> "clear", send |-> "cp",
          resend |-> "cp", read |-> "cp", iniset |-> "tidy"]

\* No caller looks at whether a save was made (done): each goes on.  iniset's
\* thread keeps what was set.
GoesOn(t, done) ==
  /\ job' = [job EXCEPT ![t] = IF @ \in {"start", "set"} THEN "none"
                               ELSE IF @ = "version" THEN "send" ELSE @]
  /\ arg' = [arg EXCEPT ![t] = IF done /\ job[t] = "iniset" THEN @ ELSE Empty]

\* The file cannot be loaded, or cannot be opened to be written: it stays.
SaveFails(t) ==
  /\ \/ Go(t, "lock", After[job[t]]) /\ UNCHANGED <<lock, copy>>
     \/ Go(t, "open", After[job[t]]) /\ lock' = None /\ copy' = Empty
  /\ FailsFor(FALSE) /\ GoesOn(t, FALSE)
  /\ missed' = (missed \/ (t = Gate /\ job[t] \in {"send", "resend"}))
  /\ UNCHANGED <<file, bak, tmp, flag, told, shared>>

\* The file is written out, or not if there is no room for it, and unlocked.
\* What is saved while the gateway is being sent a copy made before goes into the
\* backup only.
Dump(t) ==
  /\ Go(t, "dump", After[job[t]]) /\ lock' = None /\ copy' = Empty
  /\ \/ file' = copy /\ GoesOn(t, TRUE) /\ UNCHANGED bound
        /\ missed' = (missed \/ pc[Gate] \in {"gzip", "post", "tidy", "bak"})
     \/ file' = Empty /\ GoesOn(t, FALSE) /\ FailsFor(FALSE) /\ missed' = TRUE
  /\ UNCHANGED <<bak, tmp, flag, told, shared>>

--------------------------------------------------------------------------------
(* A gateway has connected: ProcessGateConnect.                              *)

\* CheckParaFileChange, which takes a file it cannot read, as it may be, for a
\* changed one.  An unchanged one is sent once after a start.
Diff ==
  /\ \/ Go(Gate, "idle", "version") /\ Does(Gate, "send", Empty) /\ FailsFor(bak # file)
     \/ bak = file /\ flag /\ Go(Gate, "idle", "clear") /\ Does(Gate, "resend", Empty)
        /\ UNCHANGED bound
     \/ bak = file /\ ~flag /\ Go(Gate, "idle", "idle") /\ SameWork /\ UNCHANGED bound
  /\ missed' = (missed /\ pc'[Gate] = "idle")
  /\ UNCHANGED <<store, tmp, flag, told, shared>>

\* AddParaFileVersion reads the version without the lock; a file that has none,
\* is being written or cannot be read keeps it.
Version ==
  /\ \/ Go(Gate, "version", "clear") /\ SameWork /\ FailsFor(file.ver = 0)
     \/ file.ver # 0 /\ Go(Gate, "version", "lock") /\ UNCHANGED bound
        /\ Does(Gate, "version", [Empty EXCEPT !.ver = (file.ver % MaxVer) + 1])
  /\ UNCHANGED <<store, tmp, flag, past>>

\* CopyPara2Bak, without the lock; the copy may fail.
Bak ==
  /\ Go(Gate, "bak", "idle") /\ flag' = FALSE /\ Does(Gate, "none", Empty)
  /\ \/ bak' = file /\ UNCHANGED bound
     \/ bak' = bak /\ FailsFor(FALSE)
  /\ UNCHANGED <<file, lock, copy, tmp, past>>

--------------------------------------------------------------------------------
(* The temporary directory: send_para_to_rmt and process_remote_write.       *)

InDir(t) ==
  \/ pc[t] \in {"cp", "gzip", "post", "tidy", "put", "gunzip", "iniset"}
  \/ pc[t] \in Saving /\ job[t] \in {"send", "resend", "read", "iniset"}
Others(t) == {u \in Thread \ {t} : InDir(u)}

\* It is removed and made anew, whoever uses it; a sender then stamps the file.
Clear(t) ==
  /\ Go(t, "clear", IF job[t] = "write" THEN "put" ELSE "lock")
  /\ IF job[t] = "write" THEN SameWork
     ELSE Does(t, job[t], [Empty EXCEPT !.stamp = IF bak.stamp = 1 THEN 2 ELSE 1])
  /\ dir' = TRUE /\ raw' = None /\ gz' = None
  /\ shared' = IF t = Gate THEN Others(Gate) # {} ELSE shared \/ InDir(Gate)
  /\ UNCHANGED <<store, flag, told, missed, bound>>

Cp(t) ==
  /\ Go(t, "cp", "gzip") /\ raw' = IF dir THEN file ELSE None
  /\ missed' = (missed \/ (t = Gate /\ \E u \in Thread : pc[u] = "dump"))
  /\ SameWork /\ UNCHANGED <<store, dir, gz, flag, told, shared, bound>>

\* gzip and gunzip replace one file by the other, and do not overwrite.
Gzip(t) ==
  /\ Go(t, "gzip", "post")
  /\ IF raw # None /\ gz = None THEN gz' = raw /\ raw' = None ELSE UNCHANGED <<raw, gz>>
  /\ SameWork /\ UNCHANGED <<store, dir, flag, past, bound>>

\* SendAFile2Rmt; the gateway's thread does not look at its result.  A cp or gzip
\* that fails leaves nothing to send.
Post(t) ==
  /\ Go(t, "post", "tidy")
  /\ \/ gz \in Content /\ UNCHANGED missed
        /\ told' = IF t = Gate THEN [gz EXCEPT !.stamp = 0] ELSE told
     \/ missed' = (missed \/ t = Gate) /\ UNCHANGED told
  /\ SameWork /\ UNCHANGED <<store, tmp, flag, shared, bound>>

Tidy(t) ==
  /\ Go(t, "tidy", IF job[t] = "send" THEN "bak" ELSE IF job[t] = "iniset" THEN "done" ELSE "idle")
  /\ IF job[t] \in {"send", "iniset"} THEN SameWork ELSE Does(t, "none", Empty)
  /\ dir' = FALSE /\ raw' = None /\ gz' = None
  /\ flag' = (flag /\ job[t] # "resend")
  /\ UNCHANGED <<store, past, bound>>

\* A write whose file cannot be stored, or unpacked, whatever is wrong with it, is
\* answered with an error.
Fails(t, from) == Go(t, from, "idle") /\ Does(t, "none", Empty)

Put(t) ==
  /\ \/ Fails(t, "put") /\ FailsFor(~dir) /\ UNCHANGED gz
     \/ dir /\ Go(t, "put", "gunzip") /\ SameWork /\ gz' = arg[t] /\ UNCHANGED bound
  /\ UNCHANGED <<store, dir, raw, flag, past>>

Gunzip(t) ==
  /\ \/ gz \in Content /\ raw = None /\ Go(t, "gunzip", "iniset") /\ SameWork
        /\ raw' = gz /\ gz' = None /\ UNCHANGED bound
     \/ Fails(t, "gunzip") /\ FailsFor(gz \notin Content \/ raw # None) /\ UNCHANGED <<raw, gz>>
  /\ UNCHANGED <<store, dir, flag, past>>

\* The program iniset (ini_set_file) sets in the file what the unpacked one has,
\* a save like any other; its result, and whether it ran, is not looked at.
Iniset(t) ==
  /\ \/ Go(t, "iniset", "tidy") /\ Does(t, "iniset", Empty) /\ FailsFor(raw = None)
     \/ raw # None /\ Go(t, "iniset", "lock") /\ Does(t, "iniset", raw) /\ UNCHANGED bound
  /\ UNCHANGED <<store, tmp, flag, past>>

\* The success is answered; the device restarts in a few seconds.
Answer(t) ==
  /\ Go(t, "done", "idle") /\ Does(t, "none", Empty)
  /\ UNCHANGED <<store, tmp, flag, past, bound>>

--------------------------------------------------------------------------------
(* Requests.                                                                 *)

Asked(t) == t \in Cmd /\ pc[t] = "idle" /\ left > 0 /\ left' = left - 1 /\ UNCHANGED faults
Takes(t, to, j, a) ==
  /\ Asked(t) /\ pc' = [pc EXCEPT ![t] = to] /\ Does(t, j, a)
  /\ UNCHANGED <<store, tmp, flag, past>>

\* usr_set_gate_ip with save_flag.
SetIp(t) == \E k \in Key, v \in 1..2 : Takes(t, "lock", "set", [Empty EXCEPT !.val[k] = v])
\* usr_rw_para_file
ReadPara(t)  == Takes(t, "clear", "read", Empty)
WritePara(t) == Takes(t, "clear", "write", Upload)

\* The device restarts, by command or not; a file that is being written is lost.
Restart ==
  /\ left > 0 /\ left' = left - 1 /\ Starts /\ UNCHANGED faults
  /\ file' \in {file} \cup (IF \E t \in Thread : pc[t] = "dump" THEN {Empty} ELSE {})
  /\ missed' = (missed \/ \E t \in Thread : pc[t] = "dump") /\ shared' = FALSE
  /\ UNCHANGED <<bak, told>>

--------------------------------------------------------------------------------
Save(t)    == Load(t) \/ Open(t) \/ Dump(t) \/ SaveFails(t)
Sending(t) == Clear(t) \/ Cp(t) \/ Gzip(t) \/ Post(t) \/ Tidy(t)
Writing(t) == Put(t) \/ Gunzip(t) \/ Iniset(t) \/ Answer(t)
Next ==
  \/ Diff \/ Version \/ Bak
  \/ \E t \in Thread : Save(t) \/ Sending(t) \/ Writing(t)
  \/ \E t \in Cmd : SetIp(t) \/ ReadPara(t) \/ WritePara(t)
  \/ Restart

Spec == Init /\ [][Next]_vars

--------------------------------------------------------------------------------
(* Properties.                                                               *)

Writer == {t \in Thread : pc[t] = "dump"}
Stored == IF Writer = {} THEN file ELSE copy

\* Whatever threads save, stamp, raise the version and write an upload at the
\* same time, the settings change by one whole save at a time, each on top of
\* the last: none is lost, unless the device stops, or finds no room, while the
\* file is written.
SettingsKept ==
  [][Stored' # Stored =>
       \/ \E t \in Thread : pc[t] = "open" /\ pc'[t] = "dump" /\ Stored' = Overlay(Stored, arg[t])
       \/ file' = Empty /\ Writer # {} /\ Writer' = {}]_vars

Same(c, d) == c.val = d.val /\ c.ver = d.ver

\* A file that will not be sent at the next connection, because it is as the
\* backup and the start's sending is over, is what the gateway has.  Except
\* after a sending that failed or was not stamped, that a save came between, or
\* that another request in the same directory disturbed, and after the file was
\* lost in a save.
UnsentIsKnown ==
  pc[Gate] = "idle" /\ Writer = {} /\ file = bak /\ ~flag /\ ~missed /\ ~shared
    => Same(told, file)

\* What process_remote_write promises: a write that is answered with success
\* has been set in the file.  It has not been if iniset fails, or finds what
\* another thread has put in the directory.
WritesTakeEffect == \A t \in Cmd : pc[t] = "done" => arg[t] = Upload
================================================================================
