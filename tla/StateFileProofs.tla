--------------------------- MODULE StateFileProofs ---------------------------
(***************************************************************************)
(* What holds of state.py for any fields, values, threads and processes:   *)
(* type correctness and what the lock protects.  And what holds when one   *)
(* process uses the file: no half-written document and atomic calls.       *)
(***************************************************************************)
EXTENDS StateFile, TLAPS

(* Replacing fields of a complete dict gives a complete dict. *)
LEMMA MergeType == ASSUME NEW s \in States, NEW d \in Docs PROVE Merge(s, d) \in States
  BY DEF States, Docs, Merge

(* Replacing every field gives the new dict. *)
LEMMA MergeAll == ASSUME NEW s \in States, NEW d \in States PROVE Merge(s, d) = d
  BY DEF States, Merge

(* A complete dict is a document. *)
LEMMA StatesAreDocs == States \subseteq Docs
  BY DEF States, Docs

(* load() always returns a complete dict. *)
LEMMA LoadedType == TypeOK => Loaded \in States
  <1> SUFFICES ASSUME TypeOK PROVE Loaded \in States OBVIOUS
  <1>1. CASE path.state # NoFile /\ disk[path.state] # Junk
    <2>1. path.state \in Inodes BY <1>1 DEF TypeOK
    <2>2. disk[path.state] \in Docs BY <1>1, <2>1 DEF TypeOK
    <2> QED BY <1>1, <2>2, MergeType, DefaultAssumption DEF Loaded
  <1>2. CASE ~(path.state # NoFile /\ disk[path.state] # Junk)
    BY <1>2, DefaultAssumption DEF Loaded
  <1> QED BY <1>1, <1>2

(* Whatever it sees, a call works on a complete dict. *)
LEMMA ReadType ==
    ASSUME TypeOK, NEW t \in Threads, Read(t), call[t].op \in {"load", "update"}
    PROVE  mem' \in [Threads -> States] /\ blind' \subseteq Threads
  <1> DEFINE seen == IF t \in blind' THEN Default ELSE Loaded
  <1>1. seen \in States BY LoadedType, DefaultAssumption
  <1>2. call[t].op = "update" => call[t].arg \in Docs
    BY CallAssumption DEF TypeOK, Calls
  <1>3. call[t].op = "update" => Merge(seen, call[t].arg) \in States
    BY <1>1, <1>2, MergeType
  <1>4. mem' = [mem EXCEPT ![t] = IF call[t].op = "update" THEN Merge(seen, call[t].arg) ELSE seen]
    BY DEF Read
  <1> HIDE DEF seen
  <1>5. blind' \subseteq Threads BY DEF Read, TypeOK
  <1> QED BY <1>1, <1>3, <1>4, <1>5 DEF TypeOK

-----------------------------------------------------------------------------
(* Every reachable state has the types state.py gives its variables. *)
THEOREM TypeCorrect == Spec => []TypeOK
  <1>1. Init => TypeOK
    <2> SUFFICES ASSUME Init PROVE TypeOK OBVIOUS
    <2>1. [op |-> "load", arg |-> Default] \in Calls BY DEF Calls
    <2>2. /\ call \in [Threads -> Calls] /\ ret \in [Threads -> States \cup {Pending, Raised}]
          /\ lock \in [Procs -> Threads \cup {Free}] /\ pc \in [Threads -> PCs]
          /\ mem \in [Threads -> States] /\ fd \in [Threads -> Inodes \cup {NoFile}]
      BY <2>1, DefaultAssumption DEF Init, PCs
    <2>3. disk \in [Inodes -> Docs \cup {Junk}] BY TextAssumption DEF Init
    <2>4. path \in [{"state", "tmp"} -> Inodes \cup {NoFile}] BY DEF Init
    <2>5. blind \subseteq Threads BY DEF Init
    <2> QED BY <2>2, <2>3, <2>4, <2>5 DEF TypeOK
  <1>2. TypeOK /\ [Next]_vars => TypeOK'
    <2> SUFFICES ASSUME TypeOK, [Next]_vars PROVE TypeOK' OBVIOUS
    <2> USE DEF TypeOK, PCs, Goto
    <2>1. ASSUME NEW t \in Threads, NEW c \in Calls, Call(t, c) PROVE TypeOK'
      BY <2>1 DEF Call
    <2>2. ASSUME NEW t \in Threads, Acquire(t) PROVE TypeOK'
      <3>1. call[t].op = "save" => call[t].arg \in States BY CallAssumption DEF Calls
      <3> QED BY <2>2, <3>1, ProcAssumption DEF Acquire
    <2>3. ASSUME NEW t \in Threads, ReadForLoad(t) PROVE TypeOK'
      <3>1. mem' \in [Threads -> States] /\ blind' \subseteq Threads
        BY <2>3, ReadType DEF ReadForLoad
      <3> QED BY <2>3, <3>1 DEF ReadForLoad
    <2>4. ASSUME NEW t \in Threads, ReadForUpdate(t) PROVE TypeOK'
      <3>1. mem' \in [Threads -> States] /\ blind' \subseteq Threads
        BY <2>4, ReadType DEF ReadForUpdate
      <3> QED BY <2>4, <3>1 DEF ReadForUpdate
    <2>5. ASSUME NEW t \in Threads, OpenTmp(t) PROVE TypeOK'
      BY <2>5 DEF OpenTmp
    <2>6. ASSUME NEW t \in Threads, WriteTmp(t) PROVE TypeOK'
      BY <2>6, StatesAreDocs DEF WriteTmp
    <2>7. ASSUME NEW t \in Threads, Replace(t) PROVE TypeOK'
      <3>1. path' \in [{"state", "tmp"} -> Inodes \cup {NoFile}]
        BY <2>7 DEF Replace
      <3> QED BY <2>7, <3>1 DEF Replace
    <2>8. ASSUME NEW t \in Threads, RaiseError(t) PROVE TypeOK'
      BY <2>8 DEF RaiseError
    <2>9. ASSUME NEW t \in Threads, Release(t) PROVE TypeOK'
      BY <2>9, DefaultAssumption DEF Release
    <2>10. ASSUME NEW p \in Procs, Crash(p) PROVE TypeOK'
      BY <2>10, DefaultAssumption DEF Crash
    <2>11. CASE UNCHANGED vars BY <2>11 DEF vars
    <2> QED BY <2>1, <2>2, <2>3, <2>4, <2>5, <2>6, <2>7, <2>8, <2>9, <2>10, <2>11
            DEF Next, Step
  <1> QED BY <1>1, <1>2, PTL DEF Spec
-----------------------------------------------------------------------------
(* The with-blocks of state.py:86-105 exclude each other: a thread inside  *)
(* one is its process's lock holder, so there are never two.               *)
THEOREM LockExcludes == Spec => []LockHolder
  <1>1. Init => LockHolder BY DEF Init, LockHolder, Critical
  <1>2. TypeOK /\ LockHolder /\ [Next]_vars => LockHolder'
    <2> SUFFICES ASSUME TypeOK, LockHolder, [Next]_vars PROVE LockHolder' OBVIOUS
    <2> USE ProcAssumption, FreeAssumption DEF LockHolder, Critical, PCs, Goto
    <2>1. ASSUME NEW t \in Threads, NEW c \in Calls, Call(t, c) PROVE LockHolder'
      BY <2>1 DEF Call, TypeOK
    <2>2. ASSUME NEW t \in Threads, Acquire(t) PROVE LockHolder'
      <3>1. lock[ProcOf[t]] = Free /\ lock' = [lock EXCEPT ![ProcOf[t]] = t]
        BY <2>2 DEF Acquire
      <3>2. ASSUME NEW u \in Threads, pc'[u] \in Critical PROVE lock'[ProcOf[u]] = u
        <4>1. CASE u = t BY <4>1, <3>1 DEF TypeOK
        <4>2. CASE u # t
          <5>1. pc[u] \in Critical BY <4>2, <3>2, <2>2 DEF Acquire, TypeOK
          <5>2. lock[ProcOf[u]] = u BY <5>1
          <5>3. ProcOf[u] # ProcOf[t] BY <5>2, <3>1
          <5> QED BY <5>2, <5>3, <3>1 DEF TypeOK
        <4> QED BY <4>1, <4>2
      <3> QED BY <3>2
    <2>3. ASSUME NEW t \in Threads,
                 \/ ReadForLoad(t) \/ ReadForUpdate(t) \/ OpenTmp(t)
                 \/ WriteTmp(t) \/ Replace(t) \/ RaiseError(t)
          PROVE LockHolder'
      BY <2>3 DEF ReadForLoad, ReadForUpdate, OpenTmp, WriteTmp, Replace, RaiseError, TypeOK
    <2>4. ASSUME NEW t \in Threads, Release(t) PROVE LockHolder'
      <3>1. ASSUME NEW u \in Threads, pc'[u] \in Critical PROVE lock'[ProcOf[u]] = u
        <4>1. u # t /\ pc[u] \in Critical BY <3>1, <2>4 DEF Release, TypeOK
        <4>2. lock[ProcOf[u]] = u /\ lock[ProcOf[t]] = t BY <4>1, <2>4 DEF Release
        <4> QED BY <4>1, <4>2, <2>4 DEF Release, TypeOK
      <3> QED BY <3>1
    <2>5. ASSUME NEW p \in Procs, Crash(p) PROVE LockHolder'
      BY <2>5 DEF Crash, TypeOK
    <2>6. CASE UNCHANGED vars BY <2>6 DEF vars
    <2> QED BY <2>1, <2>2, <2>3, <2>4, <2>5, <2>6 DEF Next, Step
  <1> QED BY <1>1, <1>2, TypeCorrect, PTL DEF Spec
-----------------------------------------------------------------------------
(* One process uses the file: the CLI or the GUI, not both.                *)
OneWriter == \A t, u \in Threads : ProcOf[t] = ProcOf[u]

(* With one process, only one thread at all can be inside.                 *)
LEMMA OnlyOneInside ==
    ASSUME OneWriter, LockHolder, NEW t \in Threads, NEW u \in Threads,
           pc[t] \in Critical, pc[u] \in Critical
    PROVE  t = u
  BY DEF OneWriter, LockHolder

(* A step that leaves the state file alone, and a thread's own variables   *)
(* too, leaves that thread on track.                                       *)
LEMMA OnTrackKept ==
    ASSUME TypeOK, NEW u \in Threads, OnTrack(u), Loaded' = Loaded,
           pc'[u] = pc[u], call'[u] = call[u], ret'[u] = ret[u],
           mem'[u] = mem[u], fd'[u] = fd[u], u \in blind' <=> u \in blind,
           pc[u] \in {"write", "replace"} => UNCHANGED <<path, disk>>
    PROVE  OnTrack(u)'
  BY DEF OnTrack, Saving

(* A thread that is not inside its with-block relies on no file. *)
LEMMA OnTrackOutside ==
    ASSUME NEW u \in Threads, OnTrack(u), pc[u] \in {"idle", "acquire"},
           pc'[u] = pc[u], call'[u] = call[u], ret'[u] = ret[u], fd'[u] = fd[u],
           u \in blind' <=> u \in blind
    PROVE  OnTrack(u)'
  BY DEF OnTrack, Saving

(* Each step of the program, and each death of its process, keeps what the *)
(* thread inside relies on.                                                *)
LEMMA InFlightStep ==
    ASSUME OneWriter, TypeOK, LockHolder, InFlight, [Next]_vars
    PROVE  InFlight'
  <1> USE DEF InFlight, Goto
  <1>1. ASSUME NEW t \in Threads, NEW c \in Calls, Call(t, c) PROVE InFlight'
    <2>1. Loaded' = Loaded BY <1>1 DEF Call, Loaded
    <2>2. OnTrack(t)' BY <1>1 DEF Call, OnTrack, Saving, TypeOK
    <2>3. ASSUME NEW u \in Threads, u # t PROVE OnTrack(u)'
      BY <1>1, <2>1, <2>3, OnTrackKept DEF Call, TypeOK
    <2> QED BY <1>1, <2>2, <2>3 DEF Call
  <1>2. ASSUME NEW t \in Threads, Acquire(t) PROVE InFlight'
    <2>1. Loaded' = Loaded BY <1>2 DEF Acquire, Loaded
    <2>2. OnTrack(t)'
      BY <1>2 DEF Acquire, OnTrack, Saving, TypeOK, Calls
    <2>3. ASSUME NEW u \in Threads, u # t PROVE OnTrack(u)'
      BY <1>2, <2>1, <2>3, OnTrackKept DEF Acquire, TypeOK
    <2> QED BY <1>2, <2>2, <2>3 DEF Acquire
  <1>3. ASSUME NEW t \in Threads, ReadForLoad(t) PROVE InFlight'
    <2>1. Loaded' = Loaded BY <1>3 DEF ReadForLoad, Loaded
    <2>2. mem'[t] # Pending
      BY <1>3, ReadType, ReturnAssumption DEF ReadForLoad
    <2>3. OnTrack(t)' BY <1>3, <2>2 DEF ReadForLoad, OnTrack, Saving, TypeOK
    <2>4. ASSUME NEW u \in Threads, u # t PROVE OnTrack(u)'
      BY <1>3, <2>1, <2>4, OnTrackKept DEF ReadForLoad, Read, TypeOK
    <2> QED BY <1>3, <2>3, <2>4 DEF ReadForLoad
  <1>4. ASSUME NEW t \in Threads, ReadForUpdate(t) PROVE InFlight'
    <2>1. Loaded' = Loaded BY <1>4 DEF ReadForUpdate, Loaded
    <2>2. mem'[t] = Merge(IF t \in blind' THEN Default ELSE Loaded, call[t].arg)
      BY <1>4 DEF ReadForUpdate, Read, TypeOK
    <2>4. OnTrack(t)' BY <1>4, <2>1, <2>2 DEF ReadForUpdate, OnTrack, Saving, TypeOK
    <2>3. ASSUME NEW u \in Threads, u # t PROVE OnTrack(u)'
      BY <1>4, <2>1, <2>3, OnTrackKept DEF ReadForUpdate, Read, TypeOK
    <2> QED BY <1>4, <2>3, <2>4 DEF ReadForUpdate
  <1>5. ASSUME NEW t \in Threads, OpenTmp(t) PROVE InFlight'
    <2>1. PICK i \in Inodes :
             /\ IF path.tmp # NoFile THEN i = path.tmp
                ELSE i # path.state /\ \A u \in Threads : fd[u] # i
             /\ path' = [path EXCEPT !["tmp"] = i]
             /\ disk' = [disk EXCEPT ![i] = Junk]
             /\ fd' = [fd EXCEPT ![t] = i]
      BY <1>5 DEF OpenTmp
    <2>2. path'.state = path.state /\ path'.tmp = i /\ i # NoFile
      BY <2>1, NoFileAssumption DEF TypeOK
    <2>3. path.state # NoFile => path.state # i BY <2>1
    <2>4. Loaded' = Loaded BY <2>1, <2>2, <2>3 DEF Loaded, TypeOK
    <2>5. OnTrack(t)'
      BY <1>5, <2>1, <2>2, <2>4 DEF OpenTmp, OnTrack, Saving, TypeOK
    <2>6. ASSUME NEW u \in Threads, u # t PROVE OnTrack(u)'
      <3>1. pc[t] \in Critical BY <1>5 DEF OpenTmp, Critical, PCs
      <3>2. pc[u] \in {"idle", "acquire"}
        BY <3>1, <2>6, OnlyOneInside DEF Critical, TypeOK
      <3> QED BY <1>5, <2>1, <2>6, <3>2, OnTrackOutside DEF OpenTmp, TypeOK
    <2> QED BY <2>2, <2>3, <2>5, <2>6
  <1>6. ASSUME NEW t \in Threads, WriteTmp(t) PROVE InFlight'
    <2>1. /\ pc[t] = "write" /\ path.tmp # NoFile
          /\ fd[t] = path.tmp /\ disk[path.tmp] = Junk
      BY <1>6 DEF WriteTmp, OnTrack
    <2>2. disk' = [disk EXCEPT ![path.tmp] = mem[t]] /\ path' = path
      BY <1>6, <2>1 DEF WriteTmp
    <2>3. path.tmp \in Inodes /\ path.tmp # path.state BY <2>1 DEF TypeOK
    <2>4. Loaded' = Loaded BY <2>2, <2>3 DEF Loaded, TypeOK
    <2>5. OnTrack(t)'
      BY <1>6, <2>1, <2>2, <2>3, <2>4 DEF WriteTmp, OnTrack, Saving, TypeOK
    <2>6. ASSUME NEW u \in Threads, u # t PROVE OnTrack(u)'
      <3>1. pc[t] \in Critical BY <2>1 DEF Critical, PCs
      <3>2. pc[u] \in {"idle", "acquire"}
        BY <3>1, <2>6, OnlyOneInside DEF Critical, TypeOK
      <3> QED BY <1>6, <2>6, <3>2, OnTrackOutside DEF WriteTmp, TypeOK
    <2> QED BY <2>2, <2>5, <2>6
  <1>7. ASSUME NEW t \in Threads, Replace(t) PROVE InFlight'
    <2>1. path'.tmp = NoFile /\ path'.state # NoFile BY <1>7 DEF Replace
    <2>2. mem[t] # Pending BY ReturnAssumption DEF TypeOK
    <2>3. OnTrack(t)' BY <1>7, <2>2 DEF Replace, OnTrack, Saving, TypeOK
    <2>4. ASSUME NEW u \in Threads, u # t PROVE OnTrack(u)'
      <3>1. pc[t] \in Critical BY <1>7 DEF Replace, Critical, PCs
      <3>2. pc[u] \in {"idle", "acquire"}
        BY <3>1, <2>4, OnlyOneInside DEF Critical, TypeOK
      <3> QED BY <1>7, <2>4, <3>2, OnTrackOutside DEF Replace, TypeOK
    <2> QED BY <2>1, <2>3, <2>4
  <1>8. ASSUME NEW t \in Threads, RaiseError(t) PROVE InFlight'
    <2>1. Loaded' = Loaded BY <1>8 DEF RaiseError, Loaded
    <2>2. OnTrack(t)' BY <1>8, ReturnAssumption DEF RaiseError, OnTrack, Saving, TypeOK
    <2>3. ASSUME NEW u \in Threads, u # t PROVE OnTrack(u)'
      BY <1>8, <2>1, <2>3, OnTrackKept DEF RaiseError, TypeOK
    <2> QED BY <1>8, <2>2, <2>3 DEF RaiseError
  <1>9. ASSUME NEW t \in Threads, Release(t) PROVE InFlight'
    <2>1. Loaded' = Loaded BY <1>9 DEF Release, Loaded
    <2>2. OnTrack(t)' BY <1>9 DEF Release, OnTrack, Saving, TypeOK
    <2>3. ASSUME NEW u \in Threads, u # t PROVE OnTrack(u)'
      BY <1>9, <2>1, <2>3, OnTrackKept DEF Release, TypeOK
    <2> QED BY <1>9, <2>2, <2>3 DEF Release
  <1>10. ASSUME NEW p \in Procs, Crash(p) PROVE InFlight'
    <2>1. ASSUME NEW u \in Threads PROVE OnTrack(u)'
      <3>1. CASE ProcOf[u] = p
        BY <1>10, <3>1, ReturnAssumption DEF Crash, OnTrack, Saving, TypeOK
      <3>2. CASE ProcOf[u] # p
        BY <1>10, <3>2 DEF Crash, OnTrack, Saving, TypeOK, Loaded
      <3> QED BY <3>1, <3>2
    <2> QED BY <1>10, <2>1 DEF Crash
  <1>11. CASE UNCHANGED vars
    BY <1>11 DEF vars, OnTrack, Saving, Loaded
  <1> QED BY <1>1, <1>2, <1>3, <1>4, <1>5, <1>6, <1>7, <1>8, <1>9, <1>10, <1>11
          DEF Next, Step
(* The invariant behind everything that follows. *)
THEOREM InFlightInvariant == OneWriter => (Spec => []InFlight)
  <1> SUFFICES ASSUME OneWriter PROVE Spec => []InFlight OBVIOUS
  <1>1. Init => InFlight BY ReturnAssumption DEF Init, InFlight, OnTrack, Saving
  <1>2. TypeOK /\ LockHolder /\ InFlight /\ [Next]_vars => InFlight'
    BY InFlightStep
  <1> QED BY <1>1, <1>2, TypeCorrect, LockExcludes, PTL DEF Spec

(* One process, any number of threads: a complete state file stays one,    *)
(* whichever thread fails or is killed at whatever point of a save.        *)
THEOREM NeverHalf == OneWriter => (Spec => NeverHalfWritten)
  <1> SUFFICES ASSUME OneWriter PROVE Spec => NeverHalfWritten OBVIOUS
  <1>1. TypeOK /\ InFlight /\ [Next]_vars => [Whole => Whole']_vars
    <2> SUFFICES ASSUME TypeOK, InFlight, [Next]_vars, Whole PROVE Whole' OBVIOUS
    <2> USE DEF Whole, InFlight, TypeOK
    <2>1. ASSUME NEW t \in Threads, OpenTmp(t) PROVE Whole'
      BY <2>1, NoFileAssumption DEF OpenTmp
    <2>2. ASSUME NEW t \in Threads, WriteTmp(t) PROVE Whole'
      <3>1. fd[t] = path.tmp BY <2>2 DEF WriteTmp, OnTrack
      <3> QED BY <2>2, <3>1 DEF WriteTmp
    <2>3. ASSUME NEW t \in Threads, Replace(t) PROVE Whole'
      <3>1. disk[path.tmp] = mem[t] /\ mem[t] \in Docs
        BY <2>3, StatesAreDocs DEF Replace, OnTrack
      <3>2. path.tmp # path.state /\ path.tmp \in Inodes BY <2>3 DEF Replace
      <3>3. path'.state = path.tmp /\ disk'[path.tmp] = disk[path.tmp]
        BY <2>3, <3>2 DEF Replace
      <3> QED BY <3>1, <3>2, <3>3, JunkAssumption, NoFileAssumption
    <2>4. CASE \/ \E t \in Threads :
                    \/ Acquire(t) \/ ReadForLoad(t) \/ ReadForUpdate(t)
                    \/ RaiseError(t) \/ Release(t) \/ \E c \in Calls : Call(t, c)
               \/ \E p \in Procs : Crash(p)
               \/ UNCHANGED vars
      BY <2>4 DEF Acquire, ReadForLoad, ReadForUpdate, RaiseError, Release, Call, Crash, vars
    <2> QED BY <2>1, <2>2, <2>3, <2>4 DEF Next, Step
  <1> QED BY <1>1, TypeCorrect, InFlightInvariant, PTL DEF Spec, NeverHalfWritten
-----------------------------------------------------------------------------
(* Refinement: one process's threads see the atomic store of StateStore,   *)
(* where the record is what _load_unlocked makes of the file.              *)
LEMMA InitRefines == TypeOK /\ Init => Store!Init
  <1> SUFFICES ASSUME TypeOK, Init PROVE Store!Init OBVIOUS
  <1>1. Loaded \in States BY LoadedType
  <1> QED BY <1>1 DEF Init, Store!Init, Store!States, States

LEMMA StepRefines ==
    ASSUME OneWriter, TypeOK, LockHolder, InFlight, InFlight', [Next]_vars
    PROVE  [Store!Next]_Store!vars
  <1> USE DEF Store!vars
  <1>1. ASSUME NEW t \in Threads, NEW c \in Calls, Call(t, c) PROVE Store!Next
    <2>1. Loaded' = Loaded BY <1>1 DEF Call, Loaded
    <2>2. ret[t] # Pending BY <1>1 DEF Call, InFlight, OnTrack, Saving
    <2>3. Store!Request(t, c) BY <1>1, <2>1, <2>2 DEF Call, Store!Request
    <2> QED BY <2>3 DEF Store!Next, Store!Calls, Calls, Store!States, States
  <1>2. ASSUME NEW t \in Threads, ReadForLoad(t) PROVE Store!Next
    <2>1. Loaded' = Loaded BY <1>2 DEF ReadForLoad, Loaded
    <2>2. ret[t] = Pending BY <1>2 DEF ReadForLoad, InFlight, OnTrack
    <2>3. call[t].op = "load" /\ mem'[t] = IF t \in blind' THEN Default ELSE Loaded
      BY <1>2 DEF ReadForLoad, Read, TypeOK
    <2>4. ret' = [ret EXCEPT ![t] = Store!Outcome(t, IF t \in blind' THEN Default ELSE Loaded)]
      BY <1>2, <2>3 DEF ReadForLoad, Store!Outcome
    <2>5. Store!Perform(t)
      BY <1>2, <2>1, <2>2, <2>3, <2>4 DEF ReadForLoad, Read, Store!Perform
    <2> QED BY <2>5 DEF Store!Next
  <1>3. ASSUME NEW t \in Threads, Replace(t) PROVE Store!Next
    <2>1. /\ path.tmp # NoFile /\ disk[path.tmp] = mem[t] /\ ret[t] = Pending
          /\ call[t].op # "load"
          /\ mem[t] = IF call[t].op = "update" THEN Merge(IF t \in blind THEN Default ELSE Loaded, call[t].arg)
                      ELSE call[t].arg
      BY <1>3 DEF Replace, InFlight, OnTrack, Saving
    <2>2. path.tmp # path.state /\ path.tmp \in Inodes
      BY <2>1 DEF InFlight, TypeOK
    <2>3. mem[t] \in States /\ mem[t] # Junk
      BY StatesAreDocs, JunkAssumption DEF TypeOK
    <2>4. Loaded' = Merge(Default, mem[t])
      <3>1. path'.state = path.tmp /\ disk'[path.tmp] = mem[t]
        BY <1>3, <2>1, <2>2 DEF Replace
      <3> QED BY <3>1, <2>1, <2>3 DEF Loaded
    <2>5. Loaded' = mem[t] BY <2>3, <2>4, MergeAll, DefaultAssumption
    <2>6. call[t].op \in {"update", "save"} BY <2>1 DEF TypeOK, Calls
    <2>7. mem[t] = Store!Outcome(t, IF t \in blind THEN Default ELSE Loaded)
      BY <2>1, <2>6 DEF Store!Outcome, Store!Merge, Merge
    <2>8. blind' = blind /\ ret' = [ret EXCEPT ![t] = mem[t]] /\ ret'[t] = mem[t] /\ call' = call
      BY <1>3 DEF Replace, TypeOK
    <2>9. Store!Perform(t) BY <2>1, <2>5, <2>7, <2>8 DEF Store!Perform
    <2> QED BY <2>9 DEF Store!Next
  <1>4. ASSUME NEW t \in Threads, RaiseError(t) PROVE Store!Next
    <2>1. Loaded' = Loaded BY <1>4 DEF RaiseError, Loaded
    <2>2. ret[t] = Pending BY <1>4 DEF RaiseError, InFlight, OnTrack, Saving, TypeOK
    <2>3. Store!Abort({t}) BY <1>4, <2>1, <2>2 DEF RaiseError, Store!Abort, TypeOK
    <2> QED BY <2>3 DEF Store!Next
  <1>5. ASSUME NEW p \in Procs, Crash(p) PROVE Store!Next
    <2>1. Loaded' = Loaded BY <1>5 DEF Crash, Loaded
    <2>2. Store!Abort({t \in Threads : ProcOf[t] = p})
      BY <1>5, <2>1 DEF Crash, Store!Abort
    <2> QED BY <2>2 DEF Store!Next
  <1>6. ASSUME NEW t \in Threads, OpenTmp(t) PROVE UNCHANGED Store!vars
    <2>1. path'.state = path.state BY <1>6 DEF OpenTmp, TypeOK
    <2>2. path.state # NoFile => disk'[path.state] = disk[path.state]
      BY <1>6 DEF OpenTmp, InFlight, TypeOK
    <2>3. Loaded' = Loaded BY <2>1, <2>2 DEF Loaded
    <2> QED BY <1>6, <2>3 DEF OpenTmp
  <1>7. ASSUME NEW t \in Threads, WriteTmp(t) PROVE UNCHANGED Store!vars
    <2>1. fd[t] = path.tmp BY <1>7 DEF WriteTmp, InFlight, OnTrack
    <2>2. path.state # NoFile => disk'[path.state] = disk[path.state]
      BY <1>7, <2>1 DEF WriteTmp, InFlight, TypeOK
    <2>3. Loaded' = Loaded BY <1>7, <2>2 DEF Loaded, WriteTmp
    <2> QED BY <1>7, <2>3 DEF WriteTmp
  <1>8. ASSUME NEW t \in Threads, Acquire(t) \/ Release(t) PROVE UNCHANGED Store!vars
    BY <1>8 DEF Acquire, Release, Loaded
  <1>10. ASSUME NEW t \in Threads, ReadForUpdate(t) PROVE [Store!Next]_Store!vars
    <2>1. Loaded' = Loaded BY <1>10 DEF ReadForUpdate, Loaded
    <2>2. ret[t] = Pending BY <1>10 DEF ReadForUpdate, InFlight, OnTrack
    <2>3. blind' = blind \/ blind' = blind \cup {t} BY <1>10 DEF ReadForUpdate, Read
    <2>4. UNCHANGED Store!vars \/ Store!Misread(t)
      BY <1>10, <2>1, <2>2, <2>3 DEF ReadForUpdate, Store!Misread
    <2> QED BY <2>4 DEF Store!Next
  <1>9. CASE UNCHANGED vars BY <1>9 DEF vars, Loaded
  <1> QED BY <1>1, <1>2, <1>3, <1>4, <1>5, <1>6, <1>7, <1>8, <1>9, <1>10
          DEF Next, Step

(* state.py implements the atomic store for the threads of one process: no *)
(* update is lost, whatever their number and however they are scheduled,   *)
(* unless a later one could not read the file.                             *)
THEOREM FileIsAtomicStore == OneWriter => (Spec => Atomic)
  <1> SUFFICES ASSUME OneWriter PROVE Spec => Atomic OBVIOUS
  <1>1. TypeOK /\ Init => Store!Init BY InitRefines
  <1>2. TypeOK /\ LockHolder /\ InFlight /\ InFlight' /\ [Next]_vars
          => [Store!Next]_Store!vars
    BY StepRefines
  <1> QED BY <1>1, <1>2, TypeCorrect, LockExcludes, InFlightInvariant, PTL
          DEF Spec, Atomic, Store!Spec
=============================================================================
