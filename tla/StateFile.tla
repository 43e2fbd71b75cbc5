------------------------------ MODULE StateFile ------------------------------
(***************************************************************************)
(* privacyguard/state.py as it runs: threads of one or more processes,     *)
(* each process with its own threading.Lock, save through one temporary    *)
(* file that every process names alike, os.replace over the state file.    *)
(* Files are inodes, because a rename keeps the inode another process may  *)
(* still hold open for writing.                                            *)
(***************************************************************************)
EXTENDS StateCalls

CONSTANTS Procs, ProcOf,      \* the process each thread belongs to
          Inodes, NoFile,     \* inodes of the home directory; no such file
          Free,               \* a lock nobody holds
          InitialTexts,       \* what an existing state file may hold at first
          Junk                \* text json.loads rejects: empty, cut short, mixed

ASSUME ProcAssumption  == ProcOf \in [Threads -> Procs]
ASSUME FreeAssumption  == Free \notin Threads
ASSUME NoFileAssumption == NoFile \notin Inodes
ASSUME JunkAssumption  == Junk \notin Docs
ASSUME TextAssumption  == InitialTexts \subseteq Docs \cup {Junk}

VARIABLES
    call,   \* the call each thread last made
    ret,    \* what it returned: a dict, Raised, or Pending
    lock,   \* lock[p]: _LOCK of process p
    pc,     \* where each thread is in load / update / save
    mem,    \* the dict each thread works on
    fd,     \* the inode each thread has open for writing
    disk,   \* the text in each inode
    path,   \* the inodes the names STATE_FILE and STATE_FILE.tmp refer to
    blind   \* history: the threads whose latest call failed to read the file

vars == <<call, ret, lock, pc, mem, fd, disk, path, blind>>

(* _load_unlocked: a missing or unparsable file reads as the defaults, and *)
(* fields a file lacks are filled in from them.                            *)
Loaded == IF path.state # NoFile /\ disk[path.state] # Junk
          THEN Merge(Default, disk[path.state])
          ELSE Default

PCs == {"idle", "acquire", "read", "open", "write", "replace", "release"}
Critical == PCs \ {"idle", "acquire"}

TypeOK ==
    /\ call \in [Threads -> Calls]
    /\ ret \in [Threads -> States \cup {Pending, Raised}]
    /\ lock \in [Procs -> Threads \cup {Free}]
    /\ pc \in [Threads -> PCs]
    /\ mem \in [Threads -> States]
    /\ fd \in [Threads -> Inodes \cup {NoFile}]
    /\ disk \in [Inodes -> Docs \cup {Junk}]
    /\ path \in [{"state", "tmp"} -> Inodes \cup {NoFile}]
    /\ blind \subseteq Threads

Init ==
    /\ call = [t \in Threads |-> [op |-> "load", arg |-> Default]]
    /\ ret = [t \in Threads |-> Raised]
    /\ lock = [p \in Procs |-> Free]
    /\ pc = [t \in Threads |-> "idle"]
    /\ mem = [t \in Threads |-> Default]
    /\ fd = [t \in Threads |-> NoFile]
    /\ blind = {}
    /\ \/ /\ path = [f \in {"state", "tmp"} |-> NoFile]
          /\ disk = [i \in Inodes |-> Junk]
       \/ \E i \in Inodes, text \in InitialTexts :
             /\ path = [f \in {"state", "tmp"} |-> IF f = "state" THEN i ELSE NoFile]
             /\ disk = [[j \in Inodes |-> Junk] EXCEPT ![i] = text]

Goto(t, l) == pc' = [pc EXCEPT ![t] = l]

Call(t, c) ==
    /\ pc[t] = "idle"
    /\ call' = [call EXCEPT ![t] = c]
    /\ ret' = [ret EXCEPT ![t] = Pending]
    /\ blind' = blind \ {t}
    /\ Goto(t, "acquire")
    /\ UNCHANGED <<lock, mem, fd, disk, path>>

AcquireTwice(t) ==   \* mutant: the lock is taken whoever holds it
    /\ pc[t] = "acquire"
    /\ lock' = [lock EXCEPT ![ProcOf[t]] = t]
    /\ Goto(t, IF call[t].op = "save" THEN "open" ELSE "read")
    /\ mem' = IF call[t].op = "save" THEN [mem EXCEPT ![t] = call[t].arg] ELSE mem
    /\ UNCHANGED <<call, ret, fd, disk, path, blind>>

(* "with _LOCK": blocks while another thread of the same process is inside. *)
Acquire(t) ==
    /\ pc[t] = "acquire"
    /\ lock[ProcOf[t]] = Free
    /\ lock' = [lock EXCEPT ![ProcOf[t]] = t]
    /\ Goto(t, IF call[t].op = "save" THEN "open" ELSE "read")
    /\ mem' = IF call[t].op = "save" THEN [mem EXCEPT ![t] = call[t].arg] ELSE mem
    /\ UNCHANGED <<call, ret, fd, disk, path, blind>>

(* What _load_unlocked returns: Loaded or, since it passes over every      *)
(* exception of read_text, the defaults although there is a file.          *)
Read(t) ==
    /\ blind' \in IF path.state = NoFile THEN {blind} ELSE {blind, blind \cup {t}}
    /\ mem' = [mem EXCEPT ![t] = LET seen == IF t \in blind' THEN Default ELSE Loaded
                                 IN  IF call[t].op = "update" THEN Merge(seen, call[t].arg) ELSE seen]

ReadForLoad(t) ==
    /\ pc[t] = "read" /\ call[t].op = "load"
    /\ Read(t)
    /\ ret' = [ret EXCEPT ![t] = mem'[t]]
    /\ Goto(t, "release")
    /\ UNCHANGED <<call, lock, fd, disk, path>>

UpdateDefaults(t) ==   \* mutant: the record of before is not merged in
    /\ pc[t] = "read" /\ call[t].op = "update"
    /\ mem' = [mem EXCEPT ![t] = Merge(Default, call[t].arg)]
    /\ Goto(t, "open")
    /\ UNCHANGED <<call, ret, lock, fd, disk, path, blind>>
ReadForUpdate(t) ==
    /\ pc[t] = "read" /\ call[t].op = "update"
    /\ Read(t)
    /\ Goto(t, "open")
    /\ UNCHANGED <<call, ret, lock, fd, disk, path>>

OpenInPlace(t) ==   \* mutant: STATE_FILE.write_text, without a temporary file
    /\ pc[t] = "open" /\ path.state # NoFile
    /\ disk' = [disk EXCEPT ![path.state] = Junk]
    /\ fd' = [fd EXCEPT ![t] = path.state]
    /\ Goto(t, "write")
    /\ UNCHANGED <<call, ret, lock, mem, path, blind>>

(* write_text opens the temporary name with O_CREAT | O_TRUNC ... *)
OpenTmp(t) ==
    /\ pc[t] = "open"
    /\ \E i \in Inodes :
          /\ IF path.tmp # NoFile THEN i = path.tmp
             ELSE i # path.state /\ \A u \in Threads : fd[u] # i
          /\ path' = [path EXCEPT !.tmp = i]
          /\ disk' = [disk EXCEPT ![i] = Junk]
          /\ fd' = [fd EXCEPT ![t] = i]
    /\ Goto(t, "write")
    /\ UNCHANGED <<call, ret, lock, mem, blind>>

(* ... and writes from offset 0: over the text of another process that had *)
(* the file open too, the longer text's tail may remain.                   *)
WriteTmp(t) ==
    /\ pc[t] = "write"
    /\ \E text \in {mem[t]} \cup (IF disk[fd[t]] = Junk THEN {} ELSE {Junk}) :
          disk' = [disk EXCEPT ![fd[t]] = text]
    /\ fd' = [fd EXCEPT ![t] = NoFile]
    /\ Goto(t, "replace")
    /\ UNCHANGED <<call, ret, lock, mem, path, blind>>

(* os.replace(tmp_path, STATE_FILE): the call is performed here, and the   *)
(* inode that loses its name loses its text.                               *)
Replace(t) ==
    /\ pc[t] = "replace" /\ path.tmp # NoFile
    /\ path' = [state |-> path.tmp, tmp |-> NoFile]
    /\ ret' = [ret EXCEPT ![t] = mem[t]]
    /\ disk' = [i \in Inodes |-> IF i = path.state THEN Junk ELSE disk[i]]
    /\ Goto(t, "release")
    /\ UNCHANGED <<call, lock, mem, fd, blind>>

RaiseLocked(t) ==   \* mutant: acquire and release without a with-block
    /\ pc[t] \in {"open", "write", "replace"}
    /\ ret' = [ret EXCEPT ![t] = Raised]
    /\ fd' = [fd EXCEPT ![t] = NoFile]
    /\ Goto(t, "idle")
    /\ UNCHANGED <<call, lock, mem, disk, path, blind>>

(* An OSError (a directory that cannot be searched, disk full, the         *)
(* temporary file renamed away by another process) leaves the with-block   *)
(* and reaches the caller.                                                 *)
RaiseError(t) ==
    /\ pc[t] \in {"read", "open", "write", "replace"}
    /\ ret' = [ret EXCEPT ![t] = Raised]
    /\ fd' = [fd EXCEPT ![t] = NoFile]
    /\ Goto(t, "release")
    /\ UNCHANGED <<call, lock, mem, disk, path, blind>>

(* The with-block is left, the local dict with it. *)
Release(t) ==
    /\ pc[t] = "release"
    /\ lock' = [lock EXCEPT ![ProcOf[t]] = Free]
    /\ Goto(t, "idle")
    /\ mem' = [mem EXCEPT ![t] = Default]
    /\ UNCHANGED <<call, ret, fd, disk, path, blind>>

(* Process p dies with all its threads, and may be started again: the GUI  *)
(* window is closed, the machine loses power.  The files stay as they are. *)
Crash(p) ==
    LET dead == {t \in Threads : ProcOf[t] = p} IN
    /\ lock' = [lock EXCEPT ![p] = Free]
    /\ pc' = [t \in Threads |-> IF t \in dead THEN "idle" ELSE pc[t]]
    /\ fd' = [t \in Threads |-> IF t \in dead THEN NoFile ELSE fd[t]]
    /\ ret' = [t \in Threads |-> IF t \in dead /\ ret[t] = Pending THEN Raised ELSE ret[t]]
    /\ mem' = [t \in Threads |-> IF t \in dead THEN Default ELSE mem[t]]
    /\ UNCHANGED <<call, disk, path, blind>>

Step(t) == \/ Acquire(t) \/ ReadForLoad(t) \/ ReadForUpdate(t) \/ OpenTmp(t)
           \/ WriteTmp(t) \/ Replace(t) \/ RaiseError(t) \/ Release(t)

Next == \/ \E t \in Threads : Step(t) \/ \E c \in Calls : Call(t, c)
         \/ \E p \in Procs : Crash(p)

Spec == Init /\ [][Next]_vars
FairSpec == Spec /\ \A t \in Threads : WF_vars(Step(t))
-----------------------------------------------------------------------------
(* Within a process the lock admits one thread at a time to the file:      *)
(* whoever is inside its with-block is recorded as the lock's holder.      *)
LockHolder == \A t \in Threads : pc[t] \in Critical => lock[ProcOf[t]] = t

(* What the thread inside relies on between two of its steps, as long as   *)
(* one process uses the file: the temporary file is its own, and the dict  *)
(* it is about to save still is what the call makes of the current record. *)
Saving(t) == pc[t] \in {"open", "write", "replace"}
OnTrack(t) ==
    /\ fd[t] # NoFile => pc[t] = "write"
    /\ pc[t] = "write" => path.tmp # NoFile /\ fd[t] = path.tmp /\ disk[path.tmp] = Junk
    /\ pc[t] = "replace" => path.tmp # NoFile /\ disk[path.tmp] = mem[t]
    /\ pc[t] = "read" => call[t].op # "save"
    /\ Saving(t) => /\ call[t].op # "load"
                    /\ mem[t] = IF call[t].op = "update"
                                THEN Merge(IF t \in blind THEN Default ELSE Loaded, call[t].arg)
                                ELSE call[t].arg
    /\ pc[t] \in {"acquire", "read"} => t \notin blind
    /\ ret[t] = Pending <=> pc[t] \in {"acquire", "read"} \/ Saving(t)
InFlight ==
    /\ path.state # NoFile => path.state # path.tmp
    /\ \A t \in Threads : OnTrack(t)

(* What a reader finds under STATE_FILE is a complete document.            *)
Whole == path.state # NoFile /\ disk[path.state] # Junk

(* A concurrent reader always sees either the old complete file or the new *)
(* one (state.py:26-29 and 77-80): a readable file never stops being one,  *)
(* whoever is killed, or fails, at whatever point of a save.               *)
NeverHalfWritten == [][Whole => Whole']_vars

(* Calls of different threads look as if each had happened at once, some-  *)
(* where between call and return: none is half done, one that raised or    *)
(* was killed changed nothing, and no update is lost to another, with one  *)
(* exception, which the store names: an update whose own read of the file  *)
(* failed starts from the defaults and writes those over what was there.   *)
Store == INSTANCE StateStore WITH store <- Loaded
Atomic == Store!Spec

(* An exception, or the death of its process, never leaves the lock taken. *)
LockIsReleased == \A p \in Procs : lock[p] # Free ~> lock[p] = Free
=============================================================================
