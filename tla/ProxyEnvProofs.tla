---------------------------- MODULE ProxyEnvProofs ----------------------------
(***************************************************************************)
(* Proofs about ProxyEnv for any number of threads, names, contents and    *)
(* failing calls.                                                          *)
(*                                                                         *)
(* WorldUntouched: files are changed in four places.  OpenWritable asks    *)
(* the firewall, an open file stays the one the firewall allowed,          *)
(* RemoveFile and a copy for writing touch proxy files.  RenameFile opens  *)
(* its target past the firewall, after it has released the lock: that the  *)
(* target still has its proxy file then is what IInv is about.             *)
(*                                                                         *)
(* PlainSpec: LevelDB sees a plain directory.  FsInv says what each        *)
(* operation has made of the files it holds, and that two names never      *)
(* share a file; ViewRead connects the view of PlainFs with it.            *)
(***************************************************************************)
EXTENDS ProxyEnv, TLAPS

\* The operations on the way through RenameFile.
Renames(t) == op[t].kind = "rename"

RenamesKnown ==
    /\ op = [t \in Threads |-> op[t]]
    /\ \A t \in Threads : Renames(t) =>
          /\ {"kind", "phase", "names", "from", "to"} \subseteq DOMAIN op[t]
          /\ op[t].names = {op[t].from, op[t].to}
          /\ op[t].from # op[t].to
          /\ op[t].to \in Protected

RenamesApart ==
    \A s, t \in Threads : s # t /\ Renames(s) /\ Renames(t) =>
        op[s].names \cap op[t].names = {}

\* From the second step on the target has a proxy file.
TargetsPrepared ==
    \A t \in Threads : Renames(t) /\ op[t].phase # "target" =>
        op[t].to \in DOMAIN files /\ files[op[t].to] # 0

OpenFilesAllowed == \A n \in DOMAIN writers : Allowed(writers[n])

IInv ==
    /\ nextId \in Nat \ {0}
    /\ RenamesKnown
    /\ RenamesApart
    /\ TargetsPrepared
    /\ OpenFilesAllowed
    /\ WorldUntouched

-----------------------------------------------------------------------------
(* What is done to a proxy file is not done to the world.                  *)

LEMMA WorkIsElsewhere ==
    ASSUME NEW path, Allowed(path), NEW n
    PROVE  path # <<"world", n>> /\ path # <<"outside", n>>
BY DEF Allowed

LEMMA WriteKeeps ==
    ASSUME WorldUntouched, NEW path, Allowed(path), NEW c,
           disk' = Written(disk, path, c)
    PROVE  WorldUntouched'
<1>1. \A n : path # <<"world", n>> /\ path # <<"outside", n>>
  BY WorkIsElsewhere
<1>2. \A p \in DOMAIN disk' : p[1] = "world" => p[2] \in DOMAIN Original
  BY DEF WorldUntouched, Written, Allowed
<1>3. QED
  BY <1>1, <1>2 DEF WorldUntouched, Written

LEMMA RemoveKeeps ==
    ASSUME WorldUntouched, NEW path, Allowed(path), disk' = Removed(disk, path)
    PROVE  WorldUntouched'
<1>1. \A n : path # <<"world", n>> /\ path # <<"outside", n>>
  BY WorkIsElsewhere
<1>2. QED
  BY <1>1 DEF WorldUntouched, Removed, Restrict

LEMMA SameKeeps ==
    ASSUME WorldUntouched, UNCHANGED disk PROVE WorldUntouched'
BY DEF WorldUntouched

LEMMA ProxyFileAllowed ==
    ASSUME NEW n \in Protected, files[n] # 0
    PROVE  Allowed(RealPath(n))
BY ProxyConstants DEF RealPath, Allowed

\* unsafePrepareForWrite writes proxy files only, keeps those that there
\* are, and leaves a name of the database with one.
LEMMA PrepareWorks ==
    ASSUME IInv, NEW n, Prepared(n)
    PROVE  /\ WorldUntouched'
           /\ nextId' \in Nat \ {0}
           /\ \A m \in DOMAIN files : m \in DOMAIN files' /\ (files[m] # 0 => files'[m] # 0)
           /\ n \in Protected => n \in DOMAIN files' /\ files'[n] # 0
<1>1. CASE n \in Outside \/ (n \in DOMAIN files /\ files[n] # 0)
  BY <1>1, SameKeeps, ProxyConstants DEF Prepared, IInv
<1>2. CASE ~(n \in Outside \/ (n \in DOMAIN files /\ files[n] # 0))
  <2>1. /\ nextId' = nextId + 1
        /\ files' = [m \in DOMAIN files \cup {n} |-> IF m = n THEN nextId ELSE files[m]]
    BY <1>2 DEF Prepared, Entered
  <2>2. WorldUntouched'
    BY <1>2, WriteKeeps, SameKeeps DEF Prepared, Allowed, IInv
  <2>3. nextId' \in Nat \ {0} /\ nextId # 0
    BY <2>1 DEF IInv
  <2>4. \A m \in DOMAIN files : m \in DOMAIN files' /\ (files[m] # 0 => files'[m] # 0)
    BY <2>1, <2>3
  <2>5. n \in DOMAIN files' /\ files'[n] # 0
    BY <2>1, <2>3
  <2>6. QED
    BY <2>2, <2>3, <2>4, <2>5
<1>3. QED
  BY <1>1, <1>2

-----------------------------------------------------------------------------
(* What a step does to the renames.                                        *)

\* A file that has a proxy file keeps one.
ProxiesKept == \A m \in DOMAIN files : m \in DOMAIN files' /\ (files[m] # 0 => files'[m] # 0)

\* No other thread begins a rename, and those that go on are as they were.
LEMMA NotRenaming ==
    ASSUME IInv, NEW t \in Threads, NEW o, o.kind # "rename",
           op' = [op EXCEPT ![t] = o]
    PROVE  /\ RenamesKnown' /\ RenamesApart'
           /\ \A s \in Threads : Renames(s)' => Renames(s) /\ op'[s] = op[s] /\ s # t
<1>1. \A s \in Threads : op'[s] = IF s = t THEN o ELSE op[s]
  BY DEF IInv, RenamesKnown
<1>2. op' = [s \in Threads |-> op'[s]]
  BY DEF IInv, RenamesKnown
<1>3. \A s \in Threads : Renames(s)' => Renames(s) /\ op'[s] = op[s] /\ s # t
  BY <1>1 DEF Renames
<1>4. QED
  BY <1>2, <1>3 DEF IInv, RenamesKnown, RenamesApart

LEMMA FinishKeeps ==
    ASSUME IInv, NEW t \in Threads, Finish(t)
    PROVE  /\ RenamesKnown' /\ RenamesApart'
           /\ \A s \in Threads : Renames(s)' => Renames(s) /\ op'[s] = op[s] /\ s # t
<1>1. Idle.kind # "rename"
  BY DEF Idle
<1>2. QED
  BY <1>1, NotRenaming DEF Finish

LEMMA SameOps ==
    ASSUME IInv, UNCHANGED op
    PROVE  /\ RenamesKnown' /\ RenamesApart'
           /\ \A s \in Threads : Renames(s)' => Renames(s) /\ op'[s] = op[s]
BY DEF IInv, RenamesKnown, RenamesApart, Renames

LEMMA TargetsStay ==
    ASSUME IInv, ProxiesKept,
           \A s \in Threads : Renames(s)' => Renames(s) /\ op'[s] = op[s]
    PROVE  TargetsPrepared'
BY DEF IInv, TargetsPrepared, ProxiesKept

LEMMA SameFiles ==
    ASSUME UNCHANGED files PROVE ProxiesKept
BY DEF ProxiesKept

\* A rename takes its next step.
LEMMA NextPhase ==
    ASSUME IInv, NEW t \in Threads, Renames(t), NEW phase,
           op' = [op EXCEPT ![t].phase = phase]
    PROVE  /\ RenamesKnown' /\ RenamesApart'
           /\ \A s \in Threads : Renames(s)' =>
                 Renames(s) /\ op'[s].to = op[s].to /\ (s # t => op'[s] = op[s])
<1>1. /\ DOMAIN op'[t] = DOMAIN op[t]
      /\ \A f \in {"kind", "names", "from", "to"} : op'[t][f] = op[t][f]
  BY DEF IInv, RenamesKnown
<1>2. \A s \in Threads : s # t => op'[s] = op[s]
  BY DEF IInv, RenamesKnown
<1>3. op' = [s \in Threads |-> op'[s]]
  BY DEF IInv, RenamesKnown
<1>4. /\ op'[t].kind = op[t].kind /\ op'[t].names = op[t].names
      /\ op'[t].from = op[t].from /\ op'[t].to = op[t].to
  BY <1>1
<1>5. \A s \in Threads :
        Renames(s)' =>
          /\ Renames(s) /\ op'[s].to = op[s].to /\ op'[s].from = op[s].from
          /\ op'[s].names = op[s].names /\ DOMAIN op'[s] = DOMAIN op[s]
          /\ (s # t => op'[s] = op[s])
  BY <1>1, <1>2, <1>4 DEF Renames
<1>6. RenamesKnown'
  BY <1>3, <1>5 DEF IInv, RenamesKnown
<1>7. RenamesApart'
  BY <1>5 DEF IInv, RenamesApart
<1>8. QED
  BY <1>5, <1>6, <1>7

-----------------------------------------------------------------------------
\* A world that no program has opened yet is as it was.
THEOREM InitInvariant == Init => IInv
<1> SUFFICES ASSUME Init PROVE IInv
  OBVIOUS
<1>1. \A t \in Threads : ~Renames(t)
  BY DEF Init, Renames, Idle
<1>2. op = [t \in Threads |-> op[t]]
  BY DEF Init
<1>3. OpenFilesAllowed
  BY DEF Init, OpenFilesAllowed
<1>4. WorldUntouched
  <2>1. \A p \in DOMAIN disk : p[1] = "world" => p[2] \in DOMAIN Original
    BY DEF Init
  <2>2. \A n \in DOMAIN Original :
          <<"world", n>> \in DOMAIN disk /\ disk[<<"world", n>>] = Original[n]
    BY DEF Init
  <2>3. \A n \in Outside : <<"outside", n>> \in DOMAIN disk /\ disk[<<"outside", n>>] = <<>>
    BY DEF Init
  <2>4. QED
    BY <2>1, <2>2, <2>3 DEF WorldUntouched
<1>5. QED
  BY <1>1, <1>2, <1>3, <1>4 DEF Init, IInv, RenamesKnown, RenamesApart, TargetsPrepared

-----------------------------------------------------------------------------
(* One lemma per action.                                                   *)

LEMMA BeginWriteStep ==
    ASSUME IInv, NEW t \in Threads, NEW n \in Names, NEW truncate \in BOOLEAN,
           BeginWrite(t, n, truncate)
    PROVE  IInv'
<1>1. OpenFilesAllowed'
  BY DEF BeginWrite, IInv, OpenFilesAllowed, Allowed
<1>2. CASE /\ Prepared(n)
           /\ op' = [op EXCEPT ![t] = [kind |-> "write", names |-> {n}, name |-> n,
                                       truncate |-> truncate, before |-> Before({n})]]
  <2> DEFINE o == [kind |-> "write", names |-> {n}, name |-> n,
                   truncate |-> truncate, before |-> Before({n})]
  <2>1. o.kind # "rename" /\ op' = [op EXCEPT ![t] = o]
    BY <1>2
  <2> HIDE DEF o
  <2>2. RenamesKnown' /\ RenamesApart' /\
        \A s \in Threads : Renames(s)' => Renames(s) /\ op'[s] = op[s]
    BY <2>1, NotRenaming
  <2>3. WorldUntouched' /\ nextId' \in Nat \ {0} /\ ProxiesKept
    BY <1>2, PrepareWorks DEF ProxiesKept
  <2>4. QED
    BY <1>1, <2>2, <2>3, TargetsStay DEF IInv
<1>3. CASE CannotPrepare(n) /\ UNCHANGED op
  BY <1>1, <1>3, SameOps, SameFiles, SameKeeps, TargetsStay DEF CannotPrepare, IInv
<1>4. QED
  BY <1>2, <1>3 DEF BeginWrite

LEMMA OpenWritableStep ==
    ASSUME IInv, NEW t \in Threads, OpenWritable(t) PROVE IInv'
<1> DEFINE path == RealPath(op[t].name)
<1>1. RenamesKnown' /\ RenamesApart' /\ TargetsPrepared' /\ nextId' \in Nat \ {0}
  BY FinishKeeps, SameFiles, TargetsStay DEF OpenWritable, IInv
<1>2. \/ /\ Allowed(path) /\ disk' = Written(disk, path, <<>>)
      \/ UNCHANGED disk
  BY DEF OpenWritable
<1>3. WorldUntouched'
  BY <1>2, WriteKeeps, SameKeeps DEF IInv
<1>4. \/ UNCHANGED writers
      \/ /\ Allowed(path)
         /\ writers' = [m \in DOMAIN writers \cup {op[t].name} |->
                          IF m = op[t].name THEN path ELSE writers[m]]
  BY DEF OpenWritable
<1>5. OpenFilesAllowed'
  <2> HIDE DEF path
  <2> QED
    BY <1>4 DEF IInv, OpenFilesAllowed, Allowed
<1>6. QED
  BY <1>1, <1>3, <1>5 DEF IInv

LEMMA AppendStep ==
    ASSUME IInv, NEW n, NEW v, AppendPiece(n, v) PROVE IInv'
<1>1. Allowed(writers[n])
  BY DEF AppendPiece, IInv, OpenFilesAllowed
<1>2. WorldUntouched'
  <2>1. \A m : writers[n] # <<"world", m>> /\ writers[n] # <<"outside", m>>
    BY <1>1, WorkIsElsewhere
  <2>2. QED
    BY <2>1 DEF AppendPiece, WorldUntouched, IInv
<1>3. OpenFilesAllowed'
  BY DEF AppendPiece, IInv, OpenFilesAllowed, Allowed
<1>4. QED
  BY <1>2, <1>3, SameOps, SameFiles, TargetsStay DEF AppendPiece, IInv

LEMMA CloseStep ==
    ASSUME IInv, NEW n, CloseWritable(n) PROVE IInv'
<1>1. OpenFilesAllowed'
  BY DEF CloseWritable, Restrict, IInv, OpenFilesAllowed, Allowed
<1>2. QED
  BY <1>1, SameKeeps, SameOps, SameFiles, TargetsStay DEF CloseWritable, IInv

\* The file that is removed is in no operation, so it is nobody's target.
LEMMA RemoveStep ==
    ASSUME IInv, NEW t \in Threads, NEW n \in Protected, RemoveFile(t, n) PROVE IInv'
<1>1. OpenFilesAllowed'
  BY DEF RemoveFile, IInv, OpenFilesAllowed, Allowed
<1>2. WorldUntouched'
  <2>1. files[n] # 0 => Allowed(RealPath(n))
    BY ProxyFileAllowed
  <2>2. \/ files[n] # 0 /\ disk' = Removed(disk, RealPath(n))
        \/ UNCHANGED disk
    BY DEF RemoveFile
  <2>3. QED
    BY <2>1, <2>2, RemoveKeeps, SameKeeps DEF IInv
<1>3. \A s \in Threads : Renames(s) => op[s].to # n
  BY DEF RemoveFile, Free, Holds, IInv, RenamesKnown, Renames
<1>4. TargetsPrepared'
  <2>1. UNCHANGED files \/ files' = [m \in DOMAIN files \ {n} |-> files[m]]
    BY DEF RemoveFile, Restrict
  <2>2. QED
    BY <1>3, <2>1 DEF RemoveFile, IInv, TargetsPrepared, Renames
<1>5. QED
  BY <1>1, <1>2, <1>4, SameOps DEF RemoveFile, IInv

\* The names of a rename that begins are free: it is apart from the others.
LEMMA BeginRenameStep ==
    ASSUME IInv, NEW t \in Threads, NEW from \in Protected, NEW to \in Protected,
           BeginRename(t, from, to)
    PROVE  IInv'
<1> DEFINE o == [kind |-> "rename", phase |-> "target", names |-> {from, to},
                 from |-> from, to |-> to, source |-> RealPath(from),
                 before |-> Before({from, to})]
<1>1. op' = [op EXCEPT ![t] = o]
  BY DEF BeginRename
<1>2. /\ {"kind", "phase", "names", "from", "to"} \subseteq DOMAIN o
      /\ o.names = {from, to} /\ o.from = from /\ o.to = to /\ o.phase = "target"
      /\ o.kind = "rename"
  OBVIOUS
<1> HIDE DEF o
<1>3. \A s \in Threads : op'[s] = IF s = t THEN o ELSE op[s]
  BY <1>1 DEF IInv, RenamesKnown
<1>4. op' = [s \in Threads |-> op'[s]]
  BY <1>1 DEF IInv, RenamesKnown
<1>5. \A s \in Threads : Renames(s) => op[s].names \cap {from, to} = {}
  BY DEF BeginRename, Free, Holds, Renames
<1>6. from # to
  BY DEF BeginRename
<1>7. RenamesKnown'
  BY <1>2, <1>3, <1>4, <1>6 DEF IInv, RenamesKnown, Renames
<1>8. RenamesApart'
  BY <1>2, <1>3, <1>5 DEF IInv, RenamesApart, Renames
<1>9. TargetsPrepared'
  BY <1>2, <1>3 DEF BeginRename, IInv, TargetsPrepared, Renames
<1>10. OpenFilesAllowed'
  BY DEF BeginRename, IInv, OpenFilesAllowed, Allowed
<1>11. QED
  BY <1>7, <1>8, <1>9, <1>10, SameKeeps DEF BeginRename, IInv

LEMMA PrepareTargetStep ==
    ASSUME IInv, NEW t \in Threads, PrepareTarget(t) PROVE IInv'
<1>1. OpenFilesAllowed'
  BY DEF PrepareTarget, IInv, OpenFilesAllowed, Allowed
<1>2. CASE Prepared(op[t].to) /\ op' = [op EXCEPT ![t].phase = "open"]
  <2>1. Renames(t) /\ op[t].to \in Protected
    BY DEF PrepareTarget, Renaming, Renames, IInv, RenamesKnown
  <2>2. /\ RenamesKnown' /\ RenamesApart'
        /\ \A s \in Threads : Renames(s)' =>
              Renames(s) /\ op'[s].to = op[s].to /\ (s # t => op'[s] = op[s])
    BY <1>2, <2>1, NextPhase
  <2>3. /\ WorldUntouched' /\ nextId' \in Nat \ {0}
        /\ \A m \in DOMAIN files : m \in DOMAIN files' /\ (files[m] # 0 => files'[m] # 0)
        /\ op[t].to \in DOMAIN files' /\ files'[op[t].to] # 0
    BY <1>2, <2>1, PrepareWorks
  <2>4. TargetsPrepared'
    BY <2>2, <2>3 DEF IInv, TargetsPrepared
  <2>5. QED
    BY <1>1, <2>2, <2>3, <2>4 DEF IInv
<1>3. CASE CannotPrepare(op[t].to) /\ Finish(t)
  BY <1>1, <1>3, FinishKeeps, SameFiles, SameKeeps, TargetsStay DEF CannotPrepare, IInv
<1>4. QED
  BY <1>2, <1>3 DEF PrepareTarget

\* What a rename writes to, once it has prepared its target.
LEMMA TargetAllowed ==
    ASSUME IInv, NEW t \in Threads, Renames(t), op[t].phase # "target"
    PROVE  Allowed(RealPath(op[t].to))
<1>1. op[t].to \in Protected /\ files[op[t].to] # 0
  BY DEF IInv, RenamesKnown, TargetsPrepared
<1>2. QED
  BY <1>1, ProxyFileAllowed

LEMMA TargetsStayInPhase ==
    ASSUME IInv, NEW t \in Threads, Renames(t), op[t].phase # "target", NEW phase,
           op' = [op EXCEPT ![t].phase = phase], UNCHANGED files
    PROVE  RenamesKnown' /\ RenamesApart' /\ TargetsPrepared'
<1>1. /\ RenamesKnown' /\ RenamesApart'
      /\ \A s \in Threads : Renames(s)' =>
            Renames(s) /\ op'[s].to = op[s].to /\ (s # t => op'[s] = op[s])
  BY NextPhase
<1>2. QED
  BY <1>1 DEF IInv, TargetsPrepared

LEMMA OpenTargetStep ==
    ASSUME IInv, NEW t \in Threads, OpenTarget(t) PROVE IInv'
<1>1. Renames(t) /\ op[t].phase # "target"
  BY DEF OpenTarget, Renaming, Renames
<1>2. OpenFilesAllowed' /\ nextId' \in Nat \ {0}
  BY DEF OpenTarget, IInv, OpenFilesAllowed, Allowed
<1>3. CASE /\ disk' = Written(disk, RealPath(op[t].to), <<>>)
           /\ op' = [op EXCEPT ![t].phase = "copy"]
  <2>1. WorldUntouched'
    BY <1>1, <1>3, TargetAllowed, WriteKeeps DEF IInv
  <2>2. RenamesKnown' /\ RenamesApart' /\ TargetsPrepared'
    BY <1>1, <1>3, TargetsStayInPhase DEF OpenTarget
  <2>3. QED
    BY <1>2, <2>1, <2>2 DEF IInv
<1>4. CASE Finish(t) /\ UNCHANGED disk
  BY <1>2, <1>4, FinishKeeps, SameFiles, SameKeeps, TargetsStay DEF OpenTarget, IInv
<1>5. QED
  BY <1>3, <1>4 DEF OpenTarget

LEMMA CopyStep ==
    ASSUME IInv, NEW t \in Threads, Copy(t) PROVE IInv'
<1>1. Renames(t) /\ op[t].phase # "target"
  BY DEF Copy, Renaming, Renames
<1>2. OpenFilesAllowed' /\ nextId' \in Nat \ {0}
  BY DEF Copy, IInv, OpenFilesAllowed, Allowed
<1>3. CASE /\ disk' = Written(disk, RealPath(op[t].to), disk[op[t].source])
           /\ op' = [op EXCEPT ![t].phase = "forget"]
  <2>1. WorldUntouched'
    BY <1>1, <1>3, TargetAllowed, WriteKeeps DEF IInv
  <2>2. RenamesKnown' /\ RenamesApart' /\ TargetsPrepared'
    BY <1>1, <1>3, TargetsStayInPhase DEF Copy
  <2>3. QED
    BY <1>2, <2>1, <2>2 DEF IInv
<1>4. CASE Finish(t) /\ disk' = Removed(disk, RealPath(op[t].to))
  <2>1. WorldUntouched'
    BY <1>1, <1>4, TargetAllowed, RemoveKeeps DEF IInv
  <2>2. QED
    BY <1>2, <1>4, <2>1, FinishKeeps, SameFiles, TargetsStay DEF Copy, IInv
<1>5. QED
  BY <1>3, <1>4 DEF Copy

\* The name that is forgotten is nobody else's target.
LEMMA ForgetStep ==
    ASSUME IInv, NEW t \in Threads, Forget(t) PROVE IInv'
<1>1. Renames(t)
  BY DEF Forget, Renaming, Renames
<1>2. /\ RenamesKnown' /\ RenamesApart'
      /\ \A s \in Threads : Renames(s)' => Renames(s) /\ op'[s] = op[s] /\ s # t
  BY FinishKeeps DEF Forget
<1>3. \A s \in Threads : Renames(s) /\ s # t => op[s].to # op[t].from
  BY <1>1 DEF IInv, RenamesKnown, RenamesApart
<1>4. files' = [m \in DOMAIN files \ {op[t].from} |-> files[m]]
  BY DEF Forget, Restrict
<1>5. TargetsPrepared'
  BY <1>2, <1>3, <1>4 DEF IInv, TargetsPrepared
<1>6. OpenFilesAllowed'
  BY DEF Forget, IInv, OpenFilesAllowed, Allowed
<1>7. QED
  BY <1>2, <1>5, <1>6, SameKeeps DEF Forget, IInv

-----------------------------------------------------------------------------
\* One step of any thread, or of the holder of an open file.
THEOREM NextInvariant == IInv /\ [Next]_vars => IInv'
<1> SUFFICES ASSUME IInv, [Next]_vars PROVE IInv'
  OBVIOUS
<1>1. ASSUME NEW t \in Threads, NEW n \in Names, NEW truncate \in BOOLEAN,
             BeginWrite(t, n, truncate)
      PROVE  IInv'
  BY <1>1, BeginWriteStep
<1>2. ASSUME NEW t \in Threads, NEW n \in Protected, RemoveFile(t, n) PROVE IInv'
  BY <1>2, RemoveStep
<1>3. ASSUME NEW t \in Threads, NEW m \in Protected, NEW n \in Protected,
             BeginRename(t, m, n)
      PROVE  IInv'
  BY <1>3, BeginRenameStep
<1>4. ASSUME NEW t \in Threads,
             OpenWritable(t) \/ PrepareTarget(t) \/ OpenTarget(t) \/ Copy(t) \/ Forget(t)
      PROVE  IInv'
  BY <1>4, OpenWritableStep, PrepareTargetStep, OpenTargetStep, CopyStep, ForgetStep
<1>5. ASSUME NEW n \in Protected, CloseWritable(n) \/ \E v \in Pieces : AppendPiece(n, v)
      PROVE  IInv'
  BY <1>5, CloseStep, AppendStep
<1>6. CASE UNCHANGED vars
  <2>1. UNCHANGED <<disk, files, nextId, op, writers>>
    BY <1>6 DEF vars
  <2>2. OpenFilesAllowed'
    BY <2>1 DEF IInv, OpenFilesAllowed, Allowed
  <2>3. QED
    BY <2>1, <2>2, SameOps, SameFiles, SameKeeps, TargetsStay DEF IInv
<1>7. QED
  BY <1>1, <1>2, <1>3, <1>4, <1>5, <1>6 DEF Next

\* The files of the world, and all outside of the working directory, stay as
\* they were.
THEOREM WorldUntouchedCorrect == Spec => []WorldUntouched
<1>1. IInv => WorldUntouched
  BY DEF IInv
<1>2. QED
  BY InitInvariant, NextInvariant, <1>1, PTL DEF Spec

-----------------------------------------------------------------------------
(* PlainSpec: what LevelDB reads and does is what it would read and do in  *)
(* a plain directory.                                                      *)
(*                                                                         *)
(* The invariant says of each operation what it has made of the files it   *)
(* holds, compared with what it found there when it began.  That the rest  *)
(* leaves these files alone follows from two facts: an operation holds its *)
(* names alone, and two names never share a proxy file.                    *)

Busy(t) == op[t].kind # "idle"

OpKnown(o) ==
    /\ o.kind \in {"idle", "write", "rename"}
    /\ o.kind = "write" =>
          o.name \in Names /\ o.names = {o.name} /\ o.truncate \in BOOLEAN
    /\ o.kind = "rename" =>
          /\ o.from \in Protected /\ o.to \in Protected /\ o.from # o.to
          /\ o.names = {o.from, o.to}
          /\ {"kind", "phase", "names", "from", "to", "source", "before"} \subseteq DOMAIN o

OpsKnown == \A t \in Threads : OpKnown(op[t])

OpsApart ==
    \A s, t \in Threads : s # t /\ Busy(s) /\ Busy(t) => op[s].names \cap op[t].names = {}

\* Two names never share a proxy file, and a number is never used again.
FilesKnown ==
    /\ DOMAIN files \subseteq Protected
    /\ \A n \in DOMAIN files : /\ files[n] \in Nat /\ files[n] < nextId
                               /\ files[n] = 0 => n \in DOMAIN Original
    /\ \A m, n \in DOMAIN files : files[m] = files[n] /\ files[m] # 0 => m = n

DiskKnown ==
    \A p \in DOMAIN disk : /\ disk[p] \in Contents
                           /\ p[1] = "work" => p[2] \in Nat /\ p[2] < nextId

\* An open file is the file a reader of the name finds.
WriterKnown(n) ==
    /\ n \in DOMAIN files /\ writers[n] = RealPath(n)
    /\ writers[n] \in DOMAIN disk /\ Free(n)

WritersKnown == \A n \in DOMAIN writers : WriterKnown(n)

\* What the operation found under the name when it began.
Found(o, n) == IF n \in DOMAIN o.before THEN o.before[n] ELSE Broken

WriteFine(o) ==
    o.name \in Protected =>
        /\ o.name \in DOMAIN files /\ files[o.name] # 0
        /\ DOMAIN o.before \subseteq o.names
        /\ Content(o.name) = Found(o, o.name)

RenameFine(o) ==
    /\ o.from \in DOMAIN files /\ o.source = RealPath(o.from) /\ o.source \in DOMAIN disk
    /\ o.from \in DOMAIN o.before /\ o.before[o.from] = disk[o.source]
    /\ DOMAIN o.before \subseteq o.names
    /\ o.phase \in {"target", "open", "copy", "forget"}
    /\ o.phase = "target" => /\ o.to \in DOMAIN files <=> o.to \in DOMAIN o.before
                             /\ o.to \in DOMAIN files => o.before[o.to] = Content(o.to)
    /\ o.phase # "target" => o.to \in DOMAIN files /\ files[o.to] # 0
    /\ o.phase = "open" => Content(o.to) = Found(o, o.to)
    /\ o.phase \in {"copy", "forget"} => RealPath(o.to) \in DOMAIN disk
    /\ o.phase = "forget" => disk[RealPath(o.to)] = o.before[o.from]

OpFine(o) == (o.kind = "write" => WriteFine(o)) /\ (o.kind = "rename" => RenameFine(o))

OpDone(t) == OpFine(op[t])

OpsFine == \A t \in Threads : OpDone(t)

FsInv == OpsKnown /\ OpsApart /\ FilesKnown /\ DiskKnown /\ WritersKnown /\ OpsFine

-----------------------------------------------------------------------------
(* What a step leaves of a file.                                           *)

\* The file is read as before.
Kept(n) ==
    /\ n \in DOMAIN files' /\ files'[n] = files[n]
    /\ RealPath(n) \in DOMAIN disk' <=> RealPath(n) \in DOMAIN disk
    /\ RealPath(n) \in DOMAIN disk => disk'[RealPath(n)] = disk[RealPath(n)]

Untouched(n) == IF n \in DOMAIN files THEN Kept(n) ELSE n \notin DOMAIN files'

LEMMA KeptReads ==
    ASSUME NEW n, Kept(n)
    PROVE  RealPath(n)' = RealPath(n) /\ Content(n)' = Content(n)
BY DEF Kept, RealPath, Content

LEMMA ContentsKnown ==
    /\ <<>> \in Contents
    /\ \A c \in Contents, v \in Pieces : Append(c, v) \in Contents
    /\ \A c \in Contents : c # Broken
BY ProxyContents DEF Contents

\* Different names lead to different files.
LEMMA PathsApart ==
    ASSUME FilesKnown, NEW n \in DOMAIN files, files[n] # 0, NEW m \in DOMAIN files, m # n
    PROVE  RealPath(m) # RealPath(n)
BY ProxyConstants DEF FilesKnown, RealPath

LEMMA ProxyPath ==
    ASSUME FilesKnown, NEW n \in DOMAIN files, files[n] # 0
    PROVE  RealPath(n) = <<"work", files[n]>>
BY ProxyConstants DEF FilesKnown, RealPath

\* The proxy file of a name is written.
LEMMA FileWritten ==
    ASSUME IInv, FilesKnown, DiskKnown, NEW n \in DOMAIN files, files[n] # 0, NEW c \in Contents,
           disk' = Written(disk, RealPath(n), c), UNCHANGED <<files, nextId>>
    PROVE  /\ FilesKnown' /\ DiskKnown'
           /\ \A m : m # n => Untouched(m)
           /\ n \in DOMAIN files' /\ RealPath(n)' = RealPath(n) /\ RealPath(n) \in DOMAIN disk'
           /\ disk'[RealPath(n)] = c /\ Content(n)' = c
           /\ \A p \in DOMAIN disk : p \in DOMAIN disk'
<1>1. FilesKnown' /\ RealPath(n)' = RealPath(n)
  BY DEF FilesKnown, RealPath
<1>2. /\ DOMAIN disk' = DOMAIN disk \cup {RealPath(n)} /\ disk'[RealPath(n)] = c
      /\ \A p \in DOMAIN disk : p # RealPath(n) => disk'[p] = disk[p]
  BY DEF Written
<1>3. DiskKnown'
  <2>1. RealPath(n) = <<"work", files[n]>> /\ files[n] \in Nat /\ files[n] < nextId
    BY ProxyPath DEF FilesKnown
  <2>2. QED
    BY <1>2, <2>1 DEF DiskKnown
<1>4. \A m : m # n => Untouched(m)
  BY <1>2, PathsApart DEF Untouched, Kept
<1>5. Content(n)' = c
  BY <1>1, <1>2 DEF Content
<1>6. QED
  BY <1>1, <1>2, <1>3, <1>4, <1>5

\* The proxy file of a name is removed.
LEMMA FileRemoved ==
    ASSUME IInv, FilesKnown, DiskKnown, NEW n \in DOMAIN files, files[n] # 0,
           disk' = Removed(disk, RealPath(n)), UNCHANGED nextId,
           \A m : m # n => (m \in DOMAIN files <=> m \in DOMAIN files') /\ (m \in DOMAIN files => files'[m] = files[m])
    PROVE  /\ DiskKnown'
           /\ \A m : m # n => Untouched(m)
           /\ RealPath(n) \notin DOMAIN disk'
<1>1. /\ DOMAIN disk' = DOMAIN disk \ {RealPath(n)}
      /\ \A p \in DOMAIN disk' : disk'[p] = disk[p]
  BY DEF Removed, Restrict
<1>2. \A m : m # n => Untouched(m)
  BY <1>1, PathsApart DEF Untouched, Kept
<1>3. QED
  BY <1>1, <1>2 DEF DiskKnown

LEMMA FilesSame ==
    ASSUME IInv, FilesKnown, DiskKnown, UNCHANGED <<disk, files>>, nextId' \in {nextId, nextId + 1}
    PROVE  /\ FilesKnown' /\ DiskKnown'
           /\ \A m : Untouched(m) /\ (Content(m)' = Content(m))
<1>1. nextId \in Nat /\ nextId' \in Nat /\ nextId <= nextId'
  BY DEF IInv
<1>2. \A m : Untouched(m) /\ (Content(m)' = Content(m))
  BY DEF Untouched, Kept, Content, RealPath
<1>3. FilesKnown'
  BY <1>1 DEF FilesKnown
<1>4. DiskKnown'
  BY <1>1 DEF DiskKnown
<1>5. QED
  BY <1>2, <1>3, <1>4

\* unsafePrepareForWrite gives the name a proxy file of its own; what is read
\* under it stays.
LEMMA FilePrepared ==
    ASSUME IInv, FilesKnown, DiskKnown, NEW n \in Protected, Prepared(n)
    PROVE  /\ FilesKnown' /\ DiskKnown'
           /\ \A m : m # n => Untouched(m)
           /\ n \in DOMAIN files' /\ files'[n] # 0
           /\ Content(n)' = IF n \in DOMAIN files THEN Content(n) ELSE Broken
           /\ \A p \in DOMAIN disk : p \in DOMAIN disk' /\ disk'[p] = disk[p]
<1>1. n \notin Outside
  BY ProxyConstants
<1>2. CASE n \in DOMAIN files /\ files[n] # 0
  <2>1. UNCHANGED <<disk, files, nextId>>
    BY <1>2 DEF Prepared
  <2>2. QED
    BY <1>2, <2>1, FilesSame
<1>3. CASE ~(n \in DOMAIN files /\ files[n] # 0)
  <2> DEFINE new == <<"work", nextId>>
  <2>1. /\ nextId' = nextId + 1
        /\ DOMAIN files' = DOMAIN files \cup {n} /\ files'[n] = nextId
        /\ \A m \in DOMAIN files : m # n => files'[m] = files[m]
    BY <1>1, <1>3 DEF Prepared, Entered
  <2>2. disk' = IF n \in DOMAIN files THEN Written(disk, new, disk[<<"world", n>>]) ELSE disk
    BY <1>1, <1>3 DEF Prepared
  <2>3. nextId \in Nat \ {0}
    BY DEF IInv
  <2>4. FilesKnown'
    BY <2>1, <2>3 DEF FilesKnown
  <2>5. new \notin DOMAIN disk
    BY <2>3 DEF DiskKnown
  <2>6. n \in DOMAIN files => /\ files[n] = 0 /\ n \in DOMAIN Original /\ RealPath(n) = <<"world", n>>
                              /\ <<"world", n>> \in DOMAIN disk
    BY <1>1, <1>3 DEF FilesKnown, RealPath, IInv, WorldUntouched
  <2>7. /\ \A p \in DOMAIN disk : p \in DOMAIN disk' /\ disk'[p] = disk[p]
        /\ DOMAIN disk' = IF n \in DOMAIN files THEN DOMAIN disk \cup {new} ELSE DOMAIN disk
        /\ n \in DOMAIN files => disk'[new] = disk[<<"world", n>>]
    <3> HIDE DEF new
    <3> QED
      BY <2>2, <2>5 DEF Written
  <2>8. DiskKnown'
    <3>1. \A p \in DOMAIN disk : disk'[p] \in Contents /\ (p[1] = "work" => p[2] \in Nat /\ p[2] < nextId')
      BY <2>1, <2>3, <2>7 DEF DiskKnown
    <3>2. n \in DOMAIN files => disk'[new] \in Contents
      BY <2>6, <2>7 DEF DiskKnown
    <3>3. new[2] = nextId /\ nextId < nextId'
      BY <2>1, <2>3
    <3>4. QED
      BY <2>3, <2>7, <3>1, <3>2, <3>3 DEF DiskKnown
  <2>9. \A m : m # n => Untouched(m)
    <3> SUFFICES ASSUME NEW m, m # n PROVE Untouched(m)
      OBVIOUS
    <3>1. CASE m \notin DOMAIN files
      BY <2>1, <3>1 DEF Untouched
    <3>2. CASE m \in DOMAIN files
      <4>1. RealPath(m) # new
        BY <2>3, <3>2, ProxyConstants DEF RealPath, FilesKnown
      <4>2. QED
        BY <2>1, <2>7, <3>2, <4>1 DEF Untouched, Kept
    <3>3. QED
      BY <3>1, <3>2
  <2>10. RealPath(n)' = new
    BY <1>1, <2>1, <2>3 DEF RealPath
  <2>11. Content(n)' = IF n \in DOMAIN files THEN Content(n) ELSE Broken
    <3> HIDE DEF new
    <3>1. Content(n)' = IF new \in DOMAIN disk' THEN disk'[new] ELSE Broken
      BY <2>10 DEF Content
    <3>2. n \in DOMAIN files => Content(n) = disk[<<"world", n>>]
      BY <2>6 DEF Content
    <3>3. QED
      BY <2>5, <2>7, <3>1, <3>2
  <2>12. QED
    BY <2>1, <2>3, <2>4, <2>7, <2>8, <2>9, <2>11
<1>4. QED
  BY <1>2, <1>3

-----------------------------------------------------------------------------
(* What a step leaves of the operations and of the open files.             *)

\* An operation whose files are left alone is as far as it was.
LEMMA OpStays ==
    ASSUME NEW o, OpKnown(o), OpFine(o), \A m \in o.names \cap Protected : Untouched(m)
    PROVE  OpFine(o)'
<1>1. CASE o.kind = "write"
  <2> SUFFICES ASSUME o.name \in Protected PROVE WriteFine(o)'
    BY <1>1 DEF OpFine, WriteFine
  <2>1. WriteFine(o) /\ o.name \in o.names
    BY <1>1 DEF OpFine, OpKnown
  <2>2. Kept(o.name)
    BY <2>1 DEF Untouched, WriteFine
  <2>3. QED
    BY <2>1, <2>2, KeptReads DEF WriteFine, Found, Kept
<1>2. CASE o.kind = "rename"
  <2>1. /\ RenameFine(o) /\ o.from \in Protected /\ o.to \in Protected
        /\ Untouched(o.from) /\ Untouched(o.to)
    BY <1>2 DEF OpFine, OpKnown
  <2>2. Kept(o.from) /\ RealPath(o.from)' = RealPath(o.from)
    BY <2>1, KeptReads DEF Untouched, RenameFine
  <2>3. o.to \in DOMAIN files => /\ Kept(o.to) /\ RealPath(o.to)' = RealPath(o.to)
                                 /\ Content(o.to)' = Content(o.to)
    BY <2>1, KeptReads DEF Untouched
  <2>4. /\ (o.from \in DOMAIN files)' /\ (o.source = RealPath(o.from))' /\ (o.source \in DOMAIN disk)'
        /\ (o.before[o.from] = disk[o.source])'
    BY <2>1, <2>2 DEF RenameFine, Kept
  <2>5. o.to \in DOMAIN files' <=> o.to \in DOMAIN files
    BY <2>1 DEF Untouched, Kept
  <2>6. o.phase # "target" => /\ o.to \in DOMAIN files' /\ files'[o.to] # 0
                              /\ Content(o.to)' = Content(o.to)
                              /\ RealPath(o.to)' = RealPath(o.to)
                              /\ RealPath(o.to) \in DOMAIN disk' <=> RealPath(o.to) \in DOMAIN disk
                              /\ RealPath(o.to) \in DOMAIN disk => disk'[RealPath(o.to)] = disk[RealPath(o.to)]
    BY <2>1, <2>3 DEF RenameFine, Kept
  <2>7. RenameFine(o)'
    BY <2>1, <2>3, <2>4, <2>5, <2>6 DEF RenameFine, Found
  <2>8. QED
    BY <1>2, <2>7 DEF OpFine
<1>3. CASE o.kind = "idle"
  BY <1>3 DEF OpFine
<1>4. QED
  BY <1>1, <1>2, <1>3 DEF OpKnown

\* Thread t goes from one operation to another.
LEMMA OpChanges ==
    ASSUME IInv, FsInv, NEW t \in Threads, NEW o, op' = [op EXCEPT ![t] = o], OpKnown(o),
           o.kind # "idle" => \A s \in Threads \ {t} : Busy(s) => op[s].names \cap o.names = {}
    PROVE  /\ op'[t] = o /\ \A s \in Threads \ {t} : op'[s] = op[s]
           /\ OpsKnown' /\ OpsApart'
<1>1. op'[t] = o /\ \A s \in Threads \ {t} : op'[s] = op[s]
  BY DEF IInv, RenamesKnown
<1>2. OpsKnown'
  <2>1. \A s \in Threads : OpKnown(op'[s])
    BY <1>1 DEF FsInv, OpsKnown
  <2>2. QED
    BY <2>1 DEF OpsKnown, OpKnown
<1>3. OpsApart'
  BY <1>1 DEF FsInv, OpsApart, Busy
<1>4. QED
  BY <1>1, <1>2, <1>3

LEMMA IdleKnown == OpKnown(Idle) /\ OpFine(Idle) /\ Idle.kind = "idle"
BY DEF Idle, OpKnown, OpFine

LEMMA OpFinishes ==
    ASSUME IInv, FsInv, NEW t \in Threads, Finish(t)
    PROVE  /\ op'[t] = Idle /\ \A s \in Threads \ {t} : op'[s] = op[s]
           /\ OpsKnown' /\ OpsApart'
BY IdleKnown, OpChanges DEF Finish

\* A rename that goes on.
LEMMA OpAdvances ==
    ASSUME IInv, FsInv, NEW t \in Threads, op[t].kind = "rename", NEW phase,
           op' = [op EXCEPT ![t].phase = phase]
    PROVE  /\ op'[t] = [op[t] EXCEPT !.phase = phase]
           /\ \A s \in Threads \ {t} : op'[s] = op[s]
           /\ op'[t].kind = "rename" /\ op'[t].phase = phase /\ op'[t].names = op[t].names
           /\ op'[t].from = op[t].from /\ op'[t].to = op[t].to
           /\ op'[t].source = op[t].source /\ op'[t].before = op[t].before
           /\ OpsKnown' /\ OpsApart'
<1> DEFINE o == [op[t] EXCEPT !.phase = phase]
<1>1. op' = [op EXCEPT ![t] = o]
  OBVIOUS
<1>2. OpKnown(op[t])
  BY DEF FsInv, OpsKnown
<1>3. {"kind", "phase", "names", "from", "to", "source", "before"} \subseteq DOMAIN op[t]
  BY <1>2 DEF OpKnown
<1>4. /\ o.kind = "rename" /\ o.phase = phase /\ o.names = op[t].names
      /\ o.from = op[t].from /\ o.to = op[t].to /\ o.source = op[t].source
      /\ o.before = op[t].before /\ DOMAIN o = DOMAIN op[t]
  BY <1>3
<1>5. OpKnown(o)
  <2> HIDE DEF o
  <2> QED
    BY <1>2, <1>4 DEF OpKnown
<1>6. \A s \in Threads \ {t} : Busy(s) => op[s].names \cap o.names = {}
  BY <1>4 DEF FsInv, OpsApart, Busy
<1>7. op'[t] = o /\ (\A s \in Threads \ {t} : op'[s] = op[s]) /\ OpsKnown' /\ OpsApart'
  <2> HIDE DEF o
  <2> QED
    BY <1>1, <1>5, <1>6, OpChanges
<1>8. QED
  BY <1>4, <1>7

\* An operation that a step does not advance, when the step writes none of
\* its files.
LEMMA OthersStay ==
    ASSUME FsInv, NEW t \in Threads, op'[t] = op[t],
           Busy(t) => \A m \in op[t].names \cap Protected : Untouched(m)
    PROVE  OpDone(t)'
<1>1. OpKnown(op[t]) /\ OpFine(op[t])
  BY DEF FsInv, OpsKnown, OpsFine, OpDone
<1>2. CASE Busy(t)
  <2>1. ASSUME NEW o, o = op[t] PROVE OpFine(o)'
    BY <1>1, <1>2, <2>1, OpStays
  <2>2. QED
    BY <2>1 DEF OpDone, OpFine, WriteFine, RenameFine, Found
<1>3. CASE ~Busy(t)
  BY <1>3 DEF Busy, OpFine, OpDone
<1>4. QED
  BY <1>2, <1>3

\* A file that stays open, when the step writes other files.
LEMMA WriterStays ==
    ASSUME FsInv, NEW n \in DOMAIN writers, Untouched(n), writers'[n] = writers[n],
           \A s \in Threads : op'[s].kind # "idle" => op'[s] = op[s] \/ n \notin op'[s].names
    PROVE  WriterKnown(n)'
<1>1. /\ n \in DOMAIN files /\ writers'[n] = RealPath(n) /\ RealPath(n) \in DOMAIN disk
      /\ n \in Protected /\ Free(n)
  BY DEF FsInv, WritersKnown, WriterKnown, FilesKnown
<1>2. Kept(n) /\ RealPath(n)' = RealPath(n)
  BY <1>1, KeptReads DEF Untouched
<1>3. Free(n)'
  BY <1>1 DEF Free, Holds
<1>4. QED
  BY <1>1, <1>2, <1>3 DEF WriterKnown, Kept

-----------------------------------------------------------------------------
(* The invariant, action by action.                                        *)

LEMMA FsInit == Init => FsInv
<1> SUFFICES ASSUME Init PROVE FsInv
  OBVIOUS
<1>1. \A t \in Threads : op[t] = Idle
  BY DEF Init
<1>2. OpsKnown /\ OpsApart /\ OpsFine
  BY <1>1, IdleKnown DEF OpsKnown, OpsApart, OpsFine, OpDone, Busy
<1>3. FilesKnown
  BY ProxyConstants DEF Init, FilesKnown
<1>4. DiskKnown
  <2>1. ASSUME NEW p \in DOMAIN disk
        PROVE  \/ \E n \in DOMAIN Original : p = <<"world", n>> /\ disk[p] = Original[n]
               \/ \E n \in Outside : p = <<"outside", n>> /\ disk[p] = <<>>
    BY DEF Init
  <2>2. QED
    BY <2>1, ContentsKnown, ProxyContents DEF DiskKnown
<1>5. WritersKnown
  BY DEF Init, WritersKnown
<1>6. QED
  BY <1>2, <1>3, <1>4, <1>5 DEF FsInv

LEMMA BeginWriteFs ==
    ASSUME IInv, FsInv, NEW t \in Threads, NEW n \in Names, NEW truncate \in BOOLEAN,
           BeginWrite(t, n, truncate)
    PROVE  FsInv'
<1>1. FilesKnown /\ DiskKnown /\ Free(n) /\ n \notin DOMAIN writers /\ UNCHANGED writers
      /\ op[t].kind = "idle"
  BY DEF FsInv, BeginWrite
<1>2. CASE /\ Prepared(n)
           /\ op' = [op EXCEPT ![t] = [kind |-> "write", names |-> {n}, name |-> n,
                                       truncate |-> truncate, before |-> Before({n})]]
  <2> DEFINE o == [kind |-> "write", names |-> {n}, name |-> n,
                   truncate |-> truncate, before |-> Before({n})]
  <2>1. /\ o.kind = "write" /\ o.name = n /\ o.names = {n} /\ o.truncate = truncate
        /\ o.before = Before({n}) /\ op' = [op EXCEPT ![t] = o]
    BY <1>2
  <2> HIDE DEF o
  <2>2. OpKnown(o) /\ \A s \in Threads \ {t} : Busy(s) => op[s].names \cap o.names = {}
    BY <1>1, <2>1 DEF OpKnown, Free, Holds, Busy
  <2>3. /\ op'[t] = o /\ \A s \in Threads \ {t} : op'[s] = op[s]
        /\ OpsKnown' /\ OpsApart'
    BY <2>1, <2>2, OpChanges
  <2>4. /\ FilesKnown' /\ DiskKnown' /\ \A m : m # n => Untouched(m)
    <3>1. CASE n \in Protected
      BY <1>1, <1>2, <3>1, FilePrepared
    <3>2. CASE n \notin Protected
      <4>1. UNCHANGED <<disk, files, nextId>>
        BY <1>2, <3>2 DEF Prepared, Names
      <4>2. QED
        BY <1>1, <4>1, FilesSame
    <3>3. QED
      BY <3>1, <3>2
  <2>5. WritersKnown'
    <3> SUFFICES ASSUME NEW m \in DOMAIN writers' PROVE WriterKnown(m)'
      BY DEF WritersKnown
    <3>1. m \in DOMAIN writers /\ m # n /\ writers'[m] = writers[m]
      BY <1>1
    <3>2. QED
      BY <2>1, <2>3, <2>4, <3>1, WriterStays
  <2>6. OpDone(t)'
    <3>1. n \in Protected => /\ n \in DOMAIN files' /\ files'[n] # 0
                             /\ Content(n)' = IF n \in DOMAIN files THEN Content(n) ELSE Broken
      BY <1>1, <1>2, FilePrepared
    <3>2. o.before = [m \in {n} \cap DOMAIN files |-> Content(m)]
      BY <2>1 DEF Before
    <3>3. QED
      BY <2>1, <2>3, <3>1, <3>2 DEF OpDone, OpFine, WriteFine, Found
  <2>7. \A s \in Threads \ {t} : OpDone(s)'
    <3>1. \A s \in Threads : Busy(s) => n \notin op[s].names
      BY <1>1 DEF Free, Holds, Busy
    <3>2. QED
      BY <2>3, <2>4, <3>1, OthersStay
  <2>8. QED
    BY <2>3, <2>4, <2>5, <2>6, <2>7 DEF FsInv, OpsFine
<1>3. CASE CannotPrepare(n) /\ UNCHANGED op
  <2>1. FilesKnown' /\ DiskKnown' /\ \A m : Untouched(m)
    BY <1>1, <1>3, FilesSame DEF CannotPrepare
  <2>2. OpsKnown' /\ OpsApart'
    BY <1>3 DEF FsInv, OpsKnown, OpKnown, OpsApart, Busy
  <2>3. WritersKnown'
    <3>1. \A m \in DOMAIN writers : WriterKnown(m)'
      BY <1>1, <1>3, <2>1, WriterStays
    <3>2. QED
      BY <1>1, <3>1 DEF WritersKnown
  <2>4. OpsFine'
    BY <1>3, <2>1, OthersStay DEF OpsFine
  <2>5. QED
    BY <2>1, <2>2, <2>3, <2>4 DEF FsInv
<1>4. QED
  BY <1>2, <1>3 DEF BeginWrite

\* What the firewall lets a write open is the proxy file of its name.
LEMMA AllowedWrite ==
    ASSUME FsInv, NEW t \in Threads, op[t].kind = "write"
    PROVE  /\ op[t].name \in Names
           /\ Allowed(RealPath(op[t].name)) <=> op[t].name \in Protected
           /\ op[t].name \in Protected =>
                 /\ op[t].name \in DOMAIN files /\ files[op[t].name] # 0
                 /\ DOMAIN op[t].before \subseteq {op[t].name}
                 /\ Content(op[t].name) = Found(op[t], op[t].name)
<1>1. op[t].name \in Names /\ op[t].names = {op[t].name}
  BY DEF FsInv, OpsKnown, OpKnown
<1>2. op[t].name \in Protected => WriteFine(op[t])
  BY DEF FsInv, OpsFine, OpDone, OpFine
<1>3. op[t].name \in Protected => Allowed(RealPath(op[t].name))
  BY <1>2, ProxyFileAllowed DEF WriteFine
<1>4. op[t].name \notin Protected => ~Allowed(RealPath(op[t].name))
  BY <1>1 DEF Names, RealPath, Allowed
<1>5. QED
  BY <1>1, <1>2, <1>3, <1>4 DEF WriteFine

LEMMA OpenWritableFs ==
    ASSUME IInv, FsInv, NEW t \in Threads, OpenWritable(t) PROVE FsInv'
<1>0. PICK n : n = op[t].name
  OBVIOUS
<1> DEFINE path == RealPath(n)
<1>1. op[t].kind = "write" /\ Finish(t) /\ UNCHANGED <<files, nextId>>
  BY DEF OpenWritable
<1>2. /\ op'[t] = Idle /\ \A s \in Threads \ {t} : op'[s] = op[s]
      /\ OpsKnown' /\ OpsApart'
  BY <1>1, OpFinishes
<1>3. /\ Allowed(path) <=> n \in Protected
      /\ n \in Protected => n \in DOMAIN files /\ files[n] # 0
  BY <1>0, <1>1, AllowedWrite
<1>4. op[t].names = {n} /\ \A s \in Threads \ {t} : Busy(s) => n \notin op[s].names
  BY <1>0, <1>1 DEF FsInv, OpsKnown, OpKnown, OpsApart, Busy
<1>5. \/ n \in Protected /\ disk' = Written(disk, path, <<>>)
      \/ UNCHANGED disk
  BY <1>0, <1>3 DEF OpenWritable
<1>6. /\ FilesKnown' /\ DiskKnown' /\ \A m : m # n => Untouched(m)
      /\ n \in Protected /\ disk' = Written(disk, path, <<>>) =>
            RealPath(n)' = path /\ path \in DOMAIN disk'
  <2>1. FilesKnown /\ DiskKnown
    BY DEF FsInv
  <2>2. CASE n \in Protected /\ disk' = Written(disk, path, <<>>)
    BY <1>1, <1>3, <2>1, <2>2, FileWritten, ContentsKnown
  <2>3. CASE UNCHANGED disk
    <3>1. FilesKnown' /\ DiskKnown' /\ \A m : Untouched(m)
      BY <1>1, <2>1, <2>3, FilesSame
    <3>2. n \in Protected /\ disk' = Written(disk, path, <<>>) =>
            RealPath(n)' = path /\ path \in DOMAIN disk'
      BY <1>1, <1>3, <2>1, FileWritten, ContentsKnown
    <3>3. QED
      BY <3>1, <3>2
  <2>4. QED
    BY <1>5, <2>2, <2>3
<1>7. WritersKnown'
  <2>1. ASSUME NEW m \in DOMAIN writers, m \in DOMAIN writers', writers'[m] = writers[m], m # n
        PROVE  WriterKnown(m)'
    BY <1>2, <1>6, <2>1, WriterStays, IdleKnown
  <2>2. CASE UNCHANGED writers
    <3>1. \A m \in DOMAIN writers : m # n
      BY <1>1, <1>4 DEF FsInv, WritersKnown, WriterKnown, Free, Holds
    <3>2. QED
      BY <2>1, <2>2, <3>1 DEF WritersKnown
  <2>3. CASE ~UNCHANGED writers
    <3>1. /\ n \in Protected
          /\ disk' = Written(disk, path, <<>>) \/ (UNCHANGED disk /\ path \in DOMAIN disk)
          /\ writers' = [m \in DOMAIN writers \cup {n} |-> IF m = n THEN path ELSE writers[m]]
      BY <1>0, <1>3, <2>3 DEF OpenWritable
    <3>2. WriterKnown(n)'
      <4>1. n \in DOMAIN files' /\ writers'[n] = path
        BY <1>1, <1>3, <3>1
      <4>2. RealPath(n)' = path /\ path \in DOMAIN disk'
        BY <1>1, <1>6, <3>1 DEF RealPath
      <4>3. Free(n)'
        BY <1>2, <1>4, IdleKnown DEF Free, Holds, Busy
      <4>4. QED
        BY <4>1, <4>2, <4>3 DEF WriterKnown
    <3>3. QED
      BY <2>1, <3>1, <3>2 DEF WritersKnown
  <2>4. QED
    BY <2>2, <2>3
<1>8. \A s \in Threads \ {t} : OpDone(s)'
  BY <1>2, <1>4, <1>6, OthersStay
<1>9. OpDone(t)'
  BY <1>2 DEF OpDone, OpFine, Idle
<1>10. QED
  BY <1>2, <1>6, <1>7, <1>8, <1>9 DEF FsInv, OpsFine

\* A piece is written to the proxy file of the name, which no operation holds.
LEMMA AppendFs ==
    ASSUME IInv, FsInv, NEW n, NEW v \in Pieces, AppendPiece(n, v)
    PROVE  /\ FsInv'
           /\ Free(n) /\ n \in DOMAIN files /\ n \in Protected
           /\ Content(n) \in Contents /\ Content(n)' = Append(Content(n), v)
           /\ \A m : m # n => Untouched(m)
<1> DEFINE path == RealPath(n)
           c == Append(disk[path], v)
<1>1. /\ n \in DOMAIN writers /\ writers[n] = path /\ n \in DOMAIN files /\ path \in DOMAIN disk
      /\ Free(n) /\ n \in Protected /\ FilesKnown /\ DiskKnown
  BY DEF AppendPiece, FsInv, WritersKnown, WriterKnown, FilesKnown
<1>2. files[n] # 0
  BY <1>1, ProxyConstants DEF IInv, OpenFilesAllowed, RealPath, Allowed
<1>3. disk[path] \in Contents /\ c \in Contents /\ Content(n) = disk[path]
  BY <1>1, ContentsKnown DEF DiskKnown, Content
<1>4. UNCHANGED <<files, nextId, op, writers>> /\ disk' = Written(disk, path, c)
  <2>1. disk' = [disk EXCEPT ![path] = Append(@, v)]
    BY <1>1 DEF AppendPiece
  <2> HIDE DEF path
  <2>2. disk' = Written(disk, path, c)
    BY <1>1, <2>1 DEF Written
  <2>3. QED
    BY <2>2 DEF AppendPiece
<1> HIDE DEF c
<1>5. /\ FilesKnown' /\ DiskKnown' /\ \A m : m # n => Untouched(m)
      /\ n \in DOMAIN files' /\ RealPath(n)' = RealPath(n) /\ RealPath(n) \in DOMAIN disk'
      /\ Content(n)' = c
  BY <1>1, <1>2, <1>3, <1>4, FileWritten
<1>6. OpsKnown' /\ OpsApart'
  BY <1>4 DEF FsInv, OpsKnown, OpKnown, OpsApart, Busy
<1>7. WritersKnown'
  <2>1. \A m \in DOMAIN writers : m # n => WriterKnown(m)'
    BY <1>4, <1>5, WriterStays
  <2>2. WriterKnown(n)'
    BY <1>1, <1>4, <1>5 DEF WriterKnown, Free, Holds
  <2>3. QED
    BY <1>4, <2>1, <2>2 DEF WritersKnown
<1>8. OpsFine'
  <2>1. \A s \in Threads : Busy(s) => n \notin op[s].names
    BY <1>1 DEF Free, Holds, Busy
  <2>2. \A s \in Threads : OpDone(s)'
    BY <1>4, <1>5, <2>1, OthersStay
  <2>3. QED
    BY <2>2 DEF OpsFine
<1>9. QED
  BY <1>1, <1>3, <1>5, <1>6, <1>7, <1>8 DEF FsInv, c

LEMMA CloseFs ==
    ASSUME IInv, FsInv, NEW n, CloseWritable(n) PROVE FsInv'
<1>1. UNCHANGED <<disk, files, nextId, op>>
  BY DEF CloseWritable
<1>2. /\ DOMAIN writers' \subseteq DOMAIN writers
      /\ \A m \in DOMAIN writers' : writers'[m] = writers[m]
  BY DEF CloseWritable, Restrict
<1>3. FilesKnown' /\ DiskKnown' /\ \A m : Untouched(m)
  BY <1>1, FilesSame DEF FsInv
<1>4. OpsKnown' /\ OpsApart'
  BY <1>1 DEF FsInv, OpsKnown, OpKnown, OpsApart, Busy
<1>5. WritersKnown'
  <2>1. \A m \in DOMAIN writers : m \in DOMAIN writers' => WriterKnown(m)'
    BY <1>1, <1>2, <1>3, WriterStays
  <2>2. QED
    BY <1>2, <2>1 DEF WritersKnown
<1>6. \A s \in Threads : OpDone(s)'
  BY <1>1, <1>3, OthersStay
<1>7. QED
  BY <1>3, <1>4, <1>5, <1>6 DEF FsInv, OpsFine

LEMMA RemoveFs ==
    ASSUME IInv, FsInv, NEW t \in Threads, NEW n \in Protected, RemoveFile(t, n)
    PROVE  /\ FsInv' /\ \A m : m # n => Untouched(m)
           /\ UNCHANGED <<disk, files>> \/ n \notin DOMAIN files'
<1>1. /\ Free(n) /\ n \notin DOMAIN writers /\ n \in DOMAIN files /\ FilesKnown /\ DiskKnown
      /\ UNCHANGED <<nextId, op, writers>>
  BY DEF RemoveFile, FsInv
<1>2. /\ FilesKnown' /\ DiskKnown' /\ \A m : m # n => Untouched(m)
      /\ UNCHANGED <<disk, files>> \/ n \notin DOMAIN files'
  <2>1. CASE UNCHANGED <<disk, files>>
    BY <1>1, <2>1, FilesSame
  <2>2. CASE /\ disk' = IF files[n] # 0 THEN Removed(disk, RealPath(n)) ELSE disk
             /\ files' = Restrict(files, DOMAIN files \ {n})
    <3>1. DOMAIN files' = DOMAIN files \ {n} /\ \A m \in DOMAIN files' : files'[m] = files[m]
      BY <2>2 DEF Restrict
    <3>2. FilesKnown'
      BY <1>1, <3>1 DEF FilesKnown
    <3>3. DiskKnown' /\ \A m : m # n => Untouched(m)
      <4>1. CASE files[n] # 0
        BY <1>1, <2>2, <3>1, <4>1, FileRemoved
      <4>2. CASE files[n] = 0
        BY <1>1, <2>2, <3>1, <4>2 DEF DiskKnown, Untouched, Kept
      <4>3. QED
        BY <4>1, <4>2
    <3>4. QED
      BY <3>1, <3>2, <3>3
  <2>3. QED
    BY <2>1, <2>2 DEF RemoveFile
<1>3. OpsKnown' /\ OpsApart'
  BY <1>1 DEF FsInv, OpsKnown, OpKnown, OpsApart, Busy
<1>4. WritersKnown'
  <2>1. \A m \in DOMAIN writers : WriterKnown(m)'
    BY <1>1, <1>2, WriterStays
  <2>2. QED
    BY <1>1, <2>1 DEF WritersKnown
<1>5. \A s \in Threads : OpDone(s)'
  <2>1. \A s \in Threads : Busy(s) => n \notin op[s].names
    BY <1>1 DEF Free, Holds, Busy
  <2>2. QED
    BY <1>1, <1>2, <2>1, OthersStay
<1>6. QED
  BY <1>2, <1>3, <1>4, <1>5 DEF FsInv, OpsFine

LEMMA BeginRenameFs ==
    ASSUME IInv, FsInv, NEW t \in Threads, NEW from \in Protected, NEW to \in Protected,
           BeginRename(t, from, to)
    PROVE  FsInv'
<1> DEFINE o == [kind |-> "rename", phase |-> "target", names |-> {from, to},
                 from |-> from, to |-> to, source |-> RealPath(from),
                 before |-> Before({from, to})]
<1>1. op' = [op EXCEPT ![t] = o]
  BY DEF BeginRename
<1>2. /\ {"kind", "phase", "names", "from", "to", "source", "before"} \subseteq DOMAIN o
      /\ o.names = {from, to} /\ o.from = from /\ o.to = to /\ o.phase = "target"
      /\ o.kind = "rename" /\ o.source = RealPath(from) /\ o.before = Before({from, to})
  OBVIOUS
<1> HIDE DEF o
<1>3. /\ Free(from) /\ Free(to) /\ from # to /\ {from, to} \cap DOMAIN writers = {}
      /\ from \in DOMAIN files /\ RealPath(from) \in DOMAIN disk
      /\ UNCHANGED <<disk, files, nextId, writers>>
  BY DEF BeginRename
<1>4. OpKnown(o) /\ \A s \in Threads \ {t} : Busy(s) => op[s].names \cap o.names = {}
  BY <1>2, <1>3 DEF OpKnown, Free, Holds, Busy
<1>5. /\ op'[t] = o /\ \A s \in Threads \ {t} : op'[s] = op[s]
      /\ OpsKnown' /\ OpsApart'
  BY <1>1, <1>4, OpChanges
<1>6. FilesKnown' /\ DiskKnown' /\ \A m : Untouched(m)
  BY <1>3, FilesSame DEF FsInv
<1>7. WritersKnown'
  <2>1. \A m \in DOMAIN writers : WriterKnown(m)'
    BY <1>2, <1>3, <1>5, <1>6, WriterStays
  <2>2. QED
    BY <1>3, <2>1 DEF WritersKnown
<1>8. \A s \in Threads \ {t} : OpDone(s)'
  BY <1>5, <1>6, OthersStay
<1>9. OpDone(t)'
  <2>1. o.before = [m \in {from, to} \cap DOMAIN files |-> Content(m)]
    BY <1>2 DEF Before
  <2>2. RenameFine(o)
    BY <1>2, <1>3, <2>1 DEF RenameFine, Content
  <2>3. ASSUME NEW p, p = o PROVE OpFine(p)'
    BY <1>2, <1>3, <2>2, <2>3 DEF OpFine, RenameFine, RealPath, Content, Found
  <2>4. QED
    BY <1>5, <2>3 DEF OpDone, OpFine, WriteFine, RenameFine, Found
<1>10. QED
  BY <1>5, <1>6, <1>7, <1>8, <1>9 DEF FsInv, OpsFine

\* A step of a rename writes at most the target.
LEMMA RenameFs ==
    ASSUME IInv, FsInv, NEW t \in Threads, NEW n, n = op[t].to, op[t].kind = "rename",
           UNCHANGED writers, FilesKnown', DiskKnown', \A m : m # n => Untouched(m),
           OpsKnown', OpsApart', \A s \in Threads \ {t} : op'[s] = op[s],
           op'[t].kind = "idle" \/ op'[t].names = op[t].names,
           OpDone(t)'
    PROVE  FsInv'
<1>1. /\ n \in op[t].names /\ Busy(t)
      /\ \A s \in Threads \ {t} : Busy(s) => n \notin op[s].names
  BY DEF FsInv, OpsKnown, OpKnown, OpsApart, Busy
<1>2. WritersKnown'
  <2>1. \A m \in DOMAIN writers : m # n /\ m \notin op[t].names
    BY <1>1 DEF FsInv, WritersKnown, WriterKnown, Free, Holds, Busy
  <2>2. \A m \in DOMAIN writers : WriterKnown(m)'
    BY <2>1, WriterStays
  <2>3. QED
    BY <2>2 DEF WritersKnown
<1>3. \A s \in Threads \ {t} : OpDone(s)'
  BY <1>1, OthersStay
<1>4. QED
  BY <1>2, <1>3 DEF FsInv, OpsFine

\* What the invariant says of a rename.
LEMMA RenameKnown ==
    ASSUME FsInv, NEW t \in Threads, op[t].kind = "rename"
    PROVE  /\ op[t].from \in Protected /\ op[t].to \in Protected /\ op[t].from # op[t].to
           /\ op[t].names = {op[t].from, op[t].to} /\ RenameFine(op[t])
           /\ FilesKnown /\ DiskKnown
BY DEF FsInv, OpsKnown, OpKnown, OpsFine, OpDone, OpFine

LEMMA IdleDone == ASSUME NEW t \in Threads, op'[t] = Idle PROVE OpDone(t)'
BY DEF OpDone, OpFine, Idle

\* The source of a rename, which no step of it writes.
LEMMA SourceStays ==
    ASSUME NEW o, RenameFine(o), o.from # o.to, \A m : m # o.to => Untouched(m)
    PROVE  /\ (o.from \in DOMAIN files)' /\ (o.source = RealPath(o.from))' /\ (o.source \in DOMAIN disk)'
           /\ (o.before[o.from] = disk[o.source])'
<1>1. Kept(o.from)
  BY DEF RenameFine, Untouched
<1>2. QED
  BY <1>1, KeptReads DEF RenameFine, Kept

\* The next state of a rename, from the files it leaves.
LEMMA NextRename ==
    ASSUME IInv, FsInv, NEW t \in Threads, NEW o, o = op[t], o.kind = "rename", NEW phase,
           op' = [op EXCEPT ![t].phase = phase], UNCHANGED writers,
           phase \in {"open", "copy", "forget"},
           FilesKnown', DiskKnown', \A m : m # o.to => Untouched(m),
           (o.to \in DOMAIN files /\ files[o.to] # 0)',
           phase = "open" => (Content(o.to) = Found(o, o.to))',
           phase # "open" => (RealPath(o.to) \in DOMAIN disk)',
           phase = "forget" => (disk[RealPath(o.to)] = o.before[o.from])'
    PROVE  FsInv'
<1>1. /\ op'[t] = [op[t] EXCEPT !.phase = phase]
      /\ \A s \in Threads \ {t} : op'[s] = op[s]
      /\ op'[t].kind = "rename" /\ op'[t].phase = phase /\ op'[t].names = o.names
      /\ op'[t].from = o.from /\ op'[t].to = o.to
      /\ op'[t].source = o.source /\ op'[t].before = o.before
      /\ OpsKnown' /\ OpsApart'
  BY OpAdvances
<1>2. /\ RenameFine(o) /\ o.from # o.to
      /\ (o.from \in DOMAIN files)' /\ (o.source = RealPath(o.from))' /\ (o.source \in DOMAIN disk)'
      /\ (o.before[o.from] = disk[o.source])'
  BY RenameKnown, SourceStays
<1>3. OpDone(t)'
  <2>1. o.from \in DOMAIN o.before /\ DOMAIN o.before \subseteq o.names
    BY <1>2 DEF RenameFine
  <2>2. ASSUME NEW p, p = op'[t] PROVE OpFine(p)'
    <3>1. /\ p.kind = "rename" /\ p.phase = phase /\ p.names = o.names
          /\ p.from = o.from /\ p.to = o.to /\ p.source = o.source /\ p.before = o.before
      BY <1>1, <2>2
    <3>2. RenameFine(p)'
      BY <1>2, <2>1, <3>1 DEF RenameFine, Found
    <3>3. QED
      BY <3>1, <3>2 DEF OpFine
  <2>3. QED
    BY <2>2 DEF OpDone, OpFine, WriteFine, RenameFine, Found
<1>4. QED
  BY <1>1, <1>3, RenameFs

LEMMA PrepareTargetFs ==
    ASSUME IInv, FsInv, NEW t \in Threads, PrepareTarget(t) PROVE FsInv'
<1>1. PICK o : o = op[t]
  OBVIOUS
<1>2. /\ o.kind = "rename" /\ o.phase = "target" /\ o.to \in Protected
      /\ RenameFine(o) /\ FilesKnown /\ DiskKnown /\ UNCHANGED writers
  BY <1>1, RenameKnown DEF PrepareTarget, Renaming
<1>3. CASE Prepared(o.to) /\ op' = [op EXCEPT ![t].phase = "open"]
  <2>1. /\ FilesKnown' /\ DiskKnown' /\ \A m : m # o.to => Untouched(m)
        /\ (o.to \in DOMAIN files /\ files[o.to] # 0)'
        /\ Content(o.to)' = IF o.to \in DOMAIN files THEN Content(o.to) ELSE Broken
    BY <1>2, <1>3, FilePrepared
  <2>2. (Content(o.to) = Found(o, o.to))'
    BY <1>2, <2>1 DEF RenameFine, Found
  <2>3. QED
    BY <1>1, <1>2, <1>3, <2>1, <2>2, NextRename
<1>4. CASE CannotPrepare(o.to) /\ Finish(t)
  <2>1. FilesKnown' /\ DiskKnown' /\ \A m : Untouched(m)
    BY <1>2, <1>4, FilesSame DEF CannotPrepare
  <2>2. op'[t] = Idle /\ (\A s \in Threads \ {t} : op'[s] = op[s]) /\ OpsKnown' /\ OpsApart'
    BY <1>4, OpFinishes
  <2>3. QED
    BY <1>1, <1>2, <2>1, <2>2, IdleDone, IdleKnown, RenameFs
<1>5. QED
  BY <1>1, <1>3, <1>4 DEF PrepareTarget

LEMMA OpenTargetFs ==
    ASSUME IInv, FsInv, NEW t \in Threads, OpenTarget(t) PROVE FsInv'
<1>1. PICK o : o = op[t]
  OBVIOUS
<1>2. /\ o.kind = "rename" /\ o.phase = "open" /\ o.to \in DOMAIN files /\ files[o.to] # 0
      /\ RenameFine(o) /\ FilesKnown /\ DiskKnown /\ UNCHANGED <<files, nextId, writers>>
  BY <1>1, RenameKnown DEF OpenTarget, Renaming, RenameFine
<1>3. CASE disk' = Written(disk, RealPath(o.to), <<>>) /\ op' = [op EXCEPT ![t].phase = "copy"]
  <2>1. /\ FilesKnown' /\ DiskKnown' /\ \A m : m # o.to => Untouched(m)
        /\ o.to \in DOMAIN files' /\ RealPath(o.to)' = RealPath(o.to)
        /\ RealPath(o.to) \in DOMAIN disk'
    BY <1>2, <1>3, FileWritten, ContentsKnown
  <2>2. QED
    BY <1>1, <1>2, <1>3, <2>1, NextRename
<1>4. CASE Finish(t) /\ UNCHANGED disk
  <2>1. FilesKnown' /\ DiskKnown' /\ \A m : Untouched(m)
    BY <1>2, <1>4, FilesSame
  <2>2. op'[t] = Idle /\ (\A s \in Threads \ {t} : op'[s] = op[s]) /\ OpsKnown' /\ OpsApart'
    BY <1>4, OpFinishes
  <2>3. QED
    BY <1>1, <1>2, <2>1, <2>2, IdleDone, IdleKnown, RenameFs
<1>5. QED
  BY <1>1, <1>3, <1>4 DEF OpenTarget

LEMMA CopyFs ==
    ASSUME IInv, FsInv, NEW t \in Threads, Copy(t) PROVE FsInv'
<1>1. PICK o : o = op[t]
  OBVIOUS
<1>2. /\ o.kind = "rename" /\ o.phase = "copy" /\ o.to \in DOMAIN files /\ files[o.to] # 0
      /\ RenameFine(o) /\ FilesKnown /\ DiskKnown /\ UNCHANGED <<files, nextId, writers>>
  BY <1>1, RenameKnown DEF Copy, Renaming, RenameFine
<1>3. CASE /\ disk' = Written(disk, RealPath(o.to), disk[o.source])
           /\ op' = [op EXCEPT ![t].phase = "forget"]
  <2>1. disk[o.source] \in Contents /\ disk[o.source] = o.before[o.from]
    BY <1>2 DEF RenameFine, DiskKnown
  <2>2. /\ FilesKnown' /\ DiskKnown' /\ \A m : m # o.to => Untouched(m)
        /\ o.to \in DOMAIN files' /\ RealPath(o.to)' = RealPath(o.to)
        /\ RealPath(o.to) \in DOMAIN disk' /\ disk'[RealPath(o.to)] = disk[o.source]
    BY <1>2, <1>3, <2>1, FileWritten
  <2>3. QED
    BY <1>1, <1>2, <1>3, <2>1, <2>2, NextRename
<1>4. CASE Finish(t) /\ disk' = Removed(disk, RealPath(o.to))
  <2>1. DiskKnown' /\ \A m : m # o.to => Untouched(m)
    BY <1>2, <1>4, FileRemoved
  <2>2. FilesKnown'
    BY <1>2 DEF FilesKnown
  <2>3. op'[t] = Idle /\ (\A s \in Threads \ {t} : op'[s] = op[s]) /\ OpsKnown' /\ OpsApart'
    BY <1>4, OpFinishes
  <2>4. QED
    BY <1>1, <1>2, <2>1, <2>2, <2>3, IdleDone, IdleKnown, RenameFs
<1>5. QED
  BY <1>1, <1>3, <1>4 DEF Copy

\* The old name goes: its own file is the one that is touched.
LEMMA ForgetFs ==
    ASSUME IInv, FsInv, NEW t \in Threads, Forget(t) PROVE FsInv'
<1>1. PICK o : o = op[t]
  OBVIOUS
<1>2. /\ o.kind = "rename" /\ FilesKnown /\ DiskKnown /\ UNCHANGED <<disk, nextId, writers>>
      /\ Finish(t) /\ o.names = {o.from, o.to}
      /\ files' = Restrict(files, DOMAIN files \ {o.from})
  BY <1>1, RenameKnown DEF Forget, Renaming
<1>3. DOMAIN files' = DOMAIN files \ {o.from} /\ \A m \in DOMAIN files' : files'[m] = files[m]
  BY <1>2 DEF Restrict
<1>4. FilesKnown' /\ DiskKnown' /\ \A m : m # o.from => Untouched(m)
  BY <1>2, <1>3 DEF FilesKnown, DiskKnown, Untouched, Kept
<1>5. op'[t] = Idle /\ (\A s \in Threads \ {t} : op'[s] = op[s]) /\ OpsKnown' /\ OpsApart'
  BY <1>2, OpFinishes
<1>6. \A s \in Threads \ {t} : Busy(s) => o.from \notin op[s].names
  BY <1>1, <1>2 DEF FsInv, OpsApart, Busy
<1>7. WritersKnown'
  <2>1. \A m \in DOMAIN writers : m # o.from
    BY <1>1, <1>2 DEF FsInv, WritersKnown, WriterKnown, Free, Holds
  <2>2. \A m \in DOMAIN writers : WriterKnown(m)'
    BY <1>2, <1>4, <1>5, <2>1, IdleKnown, WriterStays
  <2>3. QED
    BY <1>2, <2>2 DEF WritersKnown
<1>8. \A s \in Threads \ {t} : OpDone(s)'
  BY <1>4, <1>5, <1>6, OthersStay
<1>9. QED
  BY <1>4, <1>5, <1>7, <1>8, IdleDone DEF FsInv, OpsFine

LEMMA FsStep == IInv /\ FsInv /\ [Next]_vars => FsInv'
<1> SUFFICES ASSUME IInv, FsInv, [Next]_vars PROVE FsInv'
  OBVIOUS
<1>1. ASSUME NEW t \in Threads, NEW n \in Names, NEW truncate \in BOOLEAN,
             BeginWrite(t, n, truncate)
      PROVE  FsInv'
  BY <1>1, BeginWriteFs
<1>2. ASSUME NEW t \in Threads, NEW n \in Protected, RemoveFile(t, n) PROVE FsInv'
  BY <1>2, RemoveFs
<1>3. ASSUME NEW t \in Threads, NEW m \in Protected, NEW n \in Protected,
             BeginRename(t, m, n)
      PROVE  FsInv'
  BY <1>3, BeginRenameFs
<1>4. ASSUME NEW t \in Threads,
             OpenWritable(t) \/ PrepareTarget(t) \/ OpenTarget(t) \/ Copy(t) \/ Forget(t)
      PROVE  FsInv'
  BY <1>4, OpenWritableFs, PrepareTargetFs, OpenTargetFs, CopyFs, ForgetFs
<1>5. ASSUME NEW n \in Protected, CloseWritable(n) \/ \E v \in Pieces : AppendPiece(n, v)
      PROVE  FsInv'
  BY <1>5, CloseFs, AppendFs
<1>6. CASE UNCHANGED vars
  <2>1. UNCHANGED <<disk, files, nextId, op, writers>>
    BY <1>6 DEF vars
  <2>2. FilesKnown' /\ DiskKnown' /\ \A m : Untouched(m)
    BY <2>1, FilesSame DEF FsInv
  <2>3. OpsKnown' /\ OpsApart'
    BY <2>1 DEF FsInv, OpsKnown, OpKnown, OpsApart, Busy
  <2>4. \A m \in DOMAIN writers : WriterKnown(m)'
    BY <2>1, <2>2, WriterStays
  <2>5. \A s \in Threads : OpDone(s)'
    BY <2>1, <2>2, OthersStay
  <2>6. QED
    BY <2>1, <2>2, <2>3, <2>4, <2>5 DEF FsInv, WritersKnown, OpsFine
<1>7. QED
  BY <1>1, <1>2, <1>3, <1>4, <1>5, <1>6 DEF Next

-----------------------------------------------------------------------------
(* The view that PlainFs is given.                                         *)

\* A free name is read from its file; a held one as the operation found it.
ViewRead ==
    /\ DOMAIN View \subseteq Protected /\ View = [n \in DOMAIN View |-> View[n]]
    /\ \A n \in Protected : Free(n) =>
          /\ n \in DOMAIN View <=> n \in DOMAIN files
          /\ n \in DOMAIN View => View[n] = Content(n)
    /\ \A n \in Protected, t \in Threads : Holds(t, n) =>
          /\ n \in DOMAIN View <=> n \in DOMAIN op[t].before
          /\ n \in DOMAIN View => View[n] = op[t].before[n]

LEMMA ViewHolds == FsInv => ViewRead
<1> SUFFICES ASSUME FsInv PROVE ViewRead
  OBVIOUS
<1> DEFINE D == {m \in Protected : IF Free(m) THEN m \in Listed ELSE m \in DOMAIN op[Holder(m)].before}
<1>1. View = [n \in D |-> IF Free(n) THEN Content(n) ELSE op[Holder(n)].before[n]]
  BY DEF View
<1>2. ASSUME NEW n, NEW t \in Threads, Holds(t, n) PROVE Holder(n) = t /\ ~Free(n)
  <2>1. \A s \in Threads : Holds(s, n) => s = t
    BY <1>2 DEF FsInv, OpsApart, Busy, Holds
  <2>2. Holder(n) \in Threads /\ Holds(Holder(n), n)
    BY <1>2 DEF Holder
  <2>3. QED
    BY <1>2, <2>1, <2>2 DEF Free
<1>3. DOMAIN View = D /\ D \subseteq Protected /\ \A n \in D : View[n] = IF Free(n) THEN Content(n) ELSE op[Holder(n)].before[n]
  BY <1>1
<1>4. View = [n \in DOMAIN View |-> View[n]]
  BY <1>1
<1>5. QED
  BY <1>2, <1>3, <1>4 DEF ViewRead, Listed

Known == IInv /\ FsInv /\ ViewRead

ViewSame(n) ==
    /\ n \in DOMAIN View' <=> n \in DOMAIN View
    /\ n \in DOMAIN View => View'[n] = View[n]

\* A name is seen as before if the step writes no file of it, and no
\* operation takes or leaves it.
LEMMA SeenAsBefore ==
    ASSUME Known, Known', NEW n \in Protected, Untouched(n),
           \A t \in Threads :
               \/ op'[t] = op[t]
               \/ /\ op[t].kind # "idle" => n \notin op[t].names
                  /\ op'[t].kind # "idle" => n \notin op'[t].names
    PROVE  ViewSame(n)
<1>1. CASE Free(n)
  <2>1. Free(n)'
    BY <1>1 DEF Free, Holds
  <2>2. /\ n \in DOMAIN files' <=> n \in DOMAIN files
        /\ n \in DOMAIN files => Content(n)' = Content(n)
    BY KeptReads DEF Untouched, Kept
  <2>3. QED
    BY <1>1, <2>1, <2>2 DEF Known, ViewRead, ViewSame
<1>2. CASE ~Free(n)
  <2>1. PICK t \in Threads : Holds(t, n)
    BY <1>2 DEF Free
  <2>2. op'[t] = op[t] /\ Holds(t, n)'
    BY <2>1 DEF Holds
  <2>3. QED
    BY <2>1, <2>2 DEF Known, ViewRead, ViewSame
<1>3. QED
  BY <1>1, <1>2

LEMMA ViewUnchanged ==
    ASSUME Known, Known', \A n \in Protected : ViewSame(n) PROVE View' = View
<1>1. DOMAIN View' = DOMAIN View
  BY DEF Known, ViewRead, ViewSame
<1>2. QED
  BY <1>1 DEF Known, ViewRead, ViewSame

LEMMA ViewWith ==
    ASSUME Known, Known', NEW n \in Protected, NEW c,
           \A m \in Protected \ {n} : ViewSame(m), n \in DOMAIN View', View'[n] = c
    PROVE  View' = Plain!With(n, c)
<1>1. DOMAIN View' = DOMAIN View \cup {n}
  BY DEF Known, ViewRead, ViewSame
<1>2. \A m \in DOMAIN View' : View'[m] = IF m = n THEN c ELSE View[m]
  BY <1>1 DEF Known, ViewRead, ViewSame
<1>3. View' = [m \in DOMAIN View' |-> View'[m]]
  BY DEF Known, ViewRead
<1>4. QED
  BY <1>1, <1>2, <1>3 DEF Plain!With

-----------------------------------------------------------------------------
(* The requests, and the steps of PlainFs.                                 *)

Asked(t) == Request(op[t])

Pending == [t \in Threads |-> Asked(t)]

LEMMA AskedAsBefore ==
    ASSUME NEW t \in Threads, op'[t] = op[t] PROVE Asked(t)' = Asked(t)
BY DEF Asked, Request

LEMMA RequestKnown ==
    /\ Request(Idle) = None
    /\ \A o : OpKnown(o) /\ o.kind = "write" /\ o.name \notin Protected => Request(o) = None
    /\ \A o : OpKnown(o) /\ o.kind = "write" /\ o.name \in Protected =>
          /\ Request(o) = Plain!Write(o.name, o.truncate)
          /\ Request(o) # None /\ Request(o) \in Plain!Requests
    /\ \A o : OpKnown(o) /\ o.kind = "rename" =>
          /\ Request(o) = Plain!Rename(o.from, o.to)
          /\ Request(o) # None /\ Request(o) \in Plain!Requests
<1>1. Request(Idle) = None
  BY DEF Request, Idle
<1>2. ASSUME NEW o, OpKnown(o), o.kind = "write", o.name \notin Protected PROVE Request(o) = None
  BY <1>2 DEF OpKnown, Request, Names
<1>3. ASSUME NEW o, OpKnown(o), o.kind = "write", o.name \in Protected
      PROVE  /\ Request(o) = Plain!Write(o.name, o.truncate)
             /\ Request(o) # None /\ Request(o) \in Plain!Requests
  <2>1. ~(o.names \subseteq Outside) /\ o.truncate \in BOOLEAN
    BY <1>3, ProxyConstants DEF OpKnown
  <2>2. Request(o) = Plain!Write(o.name, o.truncate)
    BY <1>3, <2>1 DEF Request, Plain!Write
  <2>3. Request(o) \in [kind : {"write"}, to : Protected, truncate : BOOLEAN]
    BY <1>3, <2>1, <2>2 DEF Plain!Write
  <2>4. QED
    BY <1>3, <2>1, <2>2, <2>3, ProxyContents DEF Plain!Requests
<1>4. ASSUME NEW o, OpKnown(o), o.kind = "rename"
      PROVE  /\ Request(o) = Plain!Rename(o.from, o.to)
             /\ Request(o) # None /\ Request(o) \in Plain!Requests
  <2>1. ~(o.names \subseteq Outside) /\ o.from \in Protected /\ o.to \in Protected
    BY <1>4, ProxyConstants DEF OpKnown
  <2>2. Request(o) = Plain!Rename(o.from, o.to)
    BY <1>4, <2>1 DEF Request, Plain!Rename
  <2>3. Request(o) \in [kind : {"rename"}, from : Protected, to : Protected]
    BY <2>1, <2>2 DEF Plain!Rename
  <2>4. QED
    BY <2>1, <2>2, <2>3, ProxyContents DEF Plain!Requests
<1>5. QED
  BY <1>1, <1>2, <1>3, <1>4

LEMMA PendingSame ==
    ASSUME \A t \in Threads : op'[t] = op[t] \/ Asked(t)' = Asked(t)
    PROVE  Pending' = Pending
<1>1. \A t \in Threads : Asked(t)' = Asked(t)
  BY AskedAsBefore
<1>2. QED
  BY <1>1 DEF Pending

LEMMA PendingChanges ==
    ASSUME NEW t \in Threads, \A s \in Threads \ {t} : op'[s] = op[s], NEW r, Asked(t)' = r
    PROVE  Pending' = [Pending EXCEPT ![t] = r]
<1>1. \A s \in Threads \ {t} : Asked(s)' = Asked(s)
  BY AskedAsBefore
<1>2. QED
  BY <1>1 DEF Pending

LEMMA PlainRefuses ==
    ASSUME View' = View, Pending' = Pending, faults' = faults + 1 PROVE Plain!Next
BY DEF Plain!Next, Plain!Refuse, Pending, Asked

LEMMA PlainBegins ==
    ASSUME NEW t \in Threads, NEW r \in Plain!Requests, Asked(t) = None,
           Pending' = [Pending EXCEPT ![t] = r], View' = View, faults' = faults
    PROVE  Plain!Next
<1>1. Plain!Begin(t, r)
  BY DEF Plain!Begin, Pending, Asked
<1>2. QED
  BY <1>1 DEF Plain!Next

LEMMA PlainReturns ==
    ASSUME NEW t \in Threads, NEW r, Asked(t) = r, r # None,
           Pending' = [Pending EXCEPT ![t] = None], View' = Plain!Effect(r), faults' = faults
    PROVE  Plain!Next
<1>1. Pending[t] = r
  BY DEF Pending
<1>2. Plain!Return(t)
  BY <1>1 DEF Plain!Return, Pending, Asked
<1>3. QED
  BY <1>2 DEF Plain!Next

LEMMA PlainFails ==
    ASSUME NEW t \in Threads, NEW r, Asked(t) = r, r # None,
           Pending' = [Pending EXCEPT ![t] = None], View' \in Plain!Spoiled(r), faults' = faults + 1
    PROVE  Plain!Next
<1>1. Pending[t] = r
  BY DEF Pending
<1>2. Plain!Fail(t)
  BY <1>1 DEF Plain!Fail, Pending, Asked
<1>3. QED
  BY <1>2 DEF Plain!Next

-----------------------------------------------------------------------------
(* Each step is a step of PlainFs, or none.                                *)

PlainStep == Plain!Next \/ UNCHANGED <<View, Pending, faults>>

LEMMA NothingHappens ==
    ASSUME Known, Known', \A n : Untouched(n), \A t \in Threads : op'[t] = op[t]
    PROVE  View' = View /\ Pending' = Pending
BY SeenAsBefore, ViewUnchanged, PendingSame

LEMMA IdleAsks == ASSUME NEW t \in Threads, op[t].kind = "idle" PROVE Asked(t) = None
BY DEF Asked, Request

LEMMA FinishAsks == ASSUME NEW t \in Threads, op'[t] = Idle PROVE Asked(t)' = None
BY DEF Asked, Request, Idle

LEMMA BeginWritePlain ==
    ASSUME Known, Known', NEW t \in Threads, NEW n \in Names, NEW truncate \in BOOLEAN,
           BeginWrite(t, n, truncate)
    PROVE  PlainStep
<1>1. Free(n) /\ op[t].kind = "idle" /\ FilesKnown /\ DiskKnown /\ IInv /\ FsInv
  BY DEF BeginWrite, Known, FsInv
<1>2. CASE /\ Prepared(n) /\ UNCHANGED faults
           /\ op' = [op EXCEPT ![t] = [kind |-> "write", names |-> {n}, name |-> n,
                                       truncate |-> truncate, before |-> Before({n})]]
  <2> DEFINE o == [kind |-> "write", names |-> {n}, name |-> n,
                   truncate |-> truncate, before |-> Before({n})]
  <2>1. /\ o.kind = "write" /\ o.name = n /\ o.names = {n} /\ o.truncate = truncate
        /\ o.before = [m \in {n} \cap DOMAIN files |-> Content(m)] /\ op' = [op EXCEPT ![t] = o]
    BY <1>2 DEF Before
  <2> HIDE DEF o
  <2>2. OpKnown(o) /\ \A s \in Threads \ {t} : Busy(s) => op[s].names \cap o.names = {}
    BY <1>1, <2>1 DEF OpKnown, Free, Holds, Busy
  <2>3. op'[t] = o /\ \A s \in Threads \ {t} : op'[s] = op[s]
    BY <1>1, <2>1, <2>2, OpChanges
  <2>4. Asked(t) = None
    BY <1>1, IdleAsks
  <2>5. \A m \in Protected \ {n} : Untouched(m) => ViewSame(m)
    BY <1>1, <2>1, <2>3, SeenAsBefore
  <2>6. CASE n \in Protected
    <3>1. \A m : m # n => Untouched(m)
      BY <1>1, <1>2, <2>6, FilePrepared
    <3>2. ViewSame(n)
      <4>1. Holds(t, n)'
        BY <2>1, <2>3 DEF Holds
      <4>2. DOMAIN o.before = {n} \cap DOMAIN files /\ (n \in DOMAIN files => o.before[n] = Content(n))
        BY <2>1
      <4>3. /\ n \in DOMAIN View' <=> n \in DOMAIN o.before
            /\ n \in DOMAIN View' => View'[n] = o.before[n]
        BY <2>3, <2>6, <4>1 DEF Known, ViewRead
      <4>4. /\ n \in DOMAIN View <=> n \in DOMAIN files
            /\ n \in DOMAIN View => View[n] = Content(n)
        BY <1>1, <2>6 DEF Known, ViewRead
      <4>5. QED
        BY <4>2, <4>3, <4>4 DEF ViewSame
    <3>3. View' = View
      BY <2>5, <3>1, <3>2, ViewUnchanged
    <3>4. PICK r : r = Request(o)
      OBVIOUS
    <3>5. r \in Plain!Requests /\ Asked(t)' = r
      BY <2>1, <2>2, <2>3, <2>6, <3>4, RequestKnown DEF Asked, Request
    <3>6. Pending' = [Pending EXCEPT ![t] = r]
      BY <2>3, <3>5, PendingChanges
    <3>7. QED
      BY <1>2, <2>4, <3>3, <3>5, <3>6, PlainBegins DEF PlainStep
  <2>7. CASE n \notin Protected
    <3>1. UNCHANGED <<disk, files, nextId>>
      BY <1>2, <2>7 DEF Prepared, Names
    <3>2. \A m : Untouched(m)
      BY <1>1, <3>1, FilesSame
    <3>3. View' = View
      BY <2>5, <2>7, <3>2, ViewUnchanged
    <3>4. Asked(t)' = None
      BY <2>1, <2>2, <2>3, <2>7, RequestKnown DEF Asked, Request
    <3>5. Pending' = Pending
      BY <2>3, <2>4, <3>4, PendingSame
    <3>6. QED
      BY <1>2, <3>3, <3>5 DEF PlainStep
  <2>8. QED
    BY <2>6, <2>7
<1>3. CASE CannotPrepare(n) /\ UNCHANGED op
  <2>1. \A m : Untouched(m)
    BY <1>1, <1>3, FilesSame DEF CannotPrepare
  <2>2. View' = View /\ Pending' = Pending
    BY <1>3, <2>1, NothingHappens
  <2>3. faults' = faults + 1
    BY <1>3 DEF CannotPrepare, Fault
  <2>4. QED
    BY <2>2, <2>3, PlainRefuses DEF PlainStep
<1>4. QED
  BY <1>2, <1>3 DEF BeginWrite

\* What is under a name when its write ends.
LEMMA WriteSeen ==
    ASSUME Known, Known', NEW n \in Protected, \A m \in Protected \ {n} : ViewSame(m),
           n \in DOMAIN files, UNCHANGED files, Free(n)'
    PROVE  View' = Plain!With(n, Content(n)')
<1>1. n \in DOMAIN View' /\ View'[n] = Content(n)'
  BY DEF Known, ViewRead
<1>2. PICK c : c = Content(n)'
  OBVIOUS
<1>3. QED
  BY <1>1, <1>2, ViewWith

\* Opening either empties the file or keeps it, and creates it if it was not
\* there.
LEMMA OpenWritablePlain ==
    ASSUME Known, Known', NEW t \in Threads, OpenWritable(t) PROVE PlainStep
<1>1. PICK o : o = op[t]
  OBVIOUS
<1>2. PICK n : n = o.name
  OBVIOUS
<1>3. /\ o.kind = "write" /\ OpKnown(o) /\ o.names = {n} /\ Finish(t) /\ UNCHANGED <<files, nextId>>
      /\ IInv /\ FsInv /\ FilesKnown /\ DiskKnown
  BY <1>1, <1>2 DEF OpenWritable, Known, FsInv, OpsKnown, OpKnown
<1>4. op'[t] = Idle /\ \A s \in Threads \ {t} : op'[s] = op[s]
  BY <1>3, OpFinishes
<1>5. /\ n \in Names
      /\ Allowed(RealPath(n)) <=> n \in Protected
      /\ n \in Protected => /\ n \in DOMAIN files /\ files[n] # 0
                            /\ DOMAIN o.before \subseteq {n} /\ Content(n) = Found(o, n)
  BY <1>1, <1>2, <1>3, AllowedWrite
<1>6. /\ Asked(t)' = None /\ Asked(t) = Request(o)
      /\ Pending' = [Pending EXCEPT ![t] = None]
  BY <1>1, <1>4, FinishAsks, PendingChanges DEF Asked
<1>7. \A m \in Protected \ {n} : Untouched(m) => ViewSame(m)
  <2>1. \A m \in Protected \ {n} : m \notin op[t].names
    BY <1>1, <1>3
  <2>2. QED
    BY <1>4, <2>1, IdleKnown, SeenAsBefore
<1>8. CASE n \notin Protected
  <2>1. UNCHANGED <<disk, files, nextId, faults>>
    BY <1>1, <1>2, <1>3, <1>5, <1>8 DEF OpenWritable
  <2>2. \A m : Untouched(m)
    BY <1>3, <2>1, FilesSame
  <2>3. View' = View
    BY <1>7, <1>8, <2>2, ViewUnchanged
  <2>4. Asked(t) = None
    BY <1>2, <1>3, <1>6, <1>8, RequestKnown
  <2>5. Pending' = Pending
    BY <1>4, <1>6, <2>4, PendingSame
  <2>6. QED
    BY <2>1, <2>3, <2>5 DEF PlainStep
<1>9. CASE n \in Protected
  <2> DEFINE path == RealPath(n)
             r == Plain!Write(n, o.truncate)
  <2>1. Request(o) = r /\ r # None
    BY <1>2, <1>3, <1>9, RequestKnown
  <2>2. /\ n \in DOMAIN View <=> n \in DOMAIN o.before
        /\ n \in DOMAIN View => View[n] = o.before[n]
    <3>1. Holds(t, n)
      BY <1>1, <1>3 DEF Holds
    <3>2. QED
      BY <1>1, <1>9, <3>1 DEF Known, ViewRead
  <2>3. /\ Free(n)' /\ n \in DOMAIN files
    <3>1. \A s \in Threads \ {t} : Busy(s) => n \notin op[s].names
      BY <1>1, <1>3 DEF FsInv, OpsApart, Busy
    <3>2. QED
      BY <1>4, <1>5, <1>9, <3>1, IdleKnown DEF Free, Holds, Busy
  <2>4. disk' = Written(disk, path, <<>>) => View' = Plain!With(n, <<>>)
    <3> SUFFICES ASSUME disk' = Written(disk, path, <<>>) PROVE View' = Plain!With(n, <<>>)
      OBVIOUS
    <3>1. /\ \A m : m # n => Untouched(m)
          /\ Content(n)' = <<>>
      BY <1>3, <1>5, <1>9, FileWritten, ContentsKnown
    <3>2. QED
      BY <1>3, <1>7, <1>9, <2>3, <3>1, WriteSeen
  <2>5. UNCHANGED disk => /\ \A m : Untouched(m)
                          /\ n \in DOMAIN View' /\ View'[n] = Found(o, n)
    <3> SUFFICES ASSUME UNCHANGED disk
                 PROVE  (\A m : Untouched(m)) /\ n \in DOMAIN View' /\ View'[n] = Found(o, n)
      OBVIOUS
    <3>1. (\A m : Untouched(m)) /\ Content(n)' = Found(o, n)
      BY <1>3, <1>5, <1>9, FilesSame
    <3>2. n \in DOMAIN View' /\ View'[n] = Content(n)'
      BY <1>3, <1>9, <2>3 DEF Known, ViewRead
    <3>3. QED
      BY <3>1, <3>2
  <2>6. CASE faults' = faults /\ (o.truncate \/ path \notin DOMAIN disk)
             /\ disk' = Written(disk, path, <<>>)
    <3>1. o.truncate \/ n \notin DOMAIN View \/ View[n] = Broken
      BY <1>5, <1>9, <2>2, <2>6 DEF Content, Found
    <3>2. View' = Plain!Effect(r)
      BY <2>4, <2>6, <3>1 DEF Plain!Effect, Plain!Write
    <3>3. QED
      BY <1>6, <2>1, <2>6, <3>2, PlainReturns DEF PlainStep
  <2>7. CASE faults' = faults + 1 /\ o.truncate /\ disk' = Written(disk, path, <<>>)
    <3>1. View' \in Plain!Spoiled(r)
      BY <2>4, <2>7 DEF Plain!Spoiled, Plain!Write
    <3>2. QED
      BY <1>6, <2>1, <2>7, <3>1, PlainFails DEF PlainStep
  <2>8. CASE faults' = faults /\ ~o.truncate /\ path \in DOMAIN disk /\ UNCHANGED disk
    <3>1. Found(o, n) \in Contents
      BY <1>3, <1>5, <1>9, <2>8 DEF Content, DiskKnown
    <3>2. n \in DOMAIN o.before /\ n \in DOMAIN View /\ View[n] = Found(o, n) /\ View[n] # Broken
      BY <2>2, <3>1, ContentsKnown DEF Found
    <3>3. View' = View
      BY <1>7, <2>5, <2>8, <3>2, ViewUnchanged DEF ViewSame
    <3>4. View' = Plain!Effect(r)
      BY <2>8, <3>2, <3>3 DEF Plain!Effect, Plain!Write
    <3>5. QED
      BY <1>6, <2>1, <2>8, <3>4, PlainReturns DEF PlainStep
  <2>9. CASE faults' = faults + 1 /\ UNCHANGED disk
    <3>1. CASE n \in DOMAIN o.before
      <4>1. View' = View
        BY <1>7, <2>2, <2>5, <2>9, <3>1, ViewUnchanged DEF ViewSame, Found
      <4>2. View' \in Plain!Spoiled(r)
        BY <4>1 DEF Plain!Spoiled
      <4>3. QED
        BY <1>6, <2>1, <2>9, <4>2, PlainFails DEF PlainStep
    <3>2. CASE n \notin DOMAIN o.before
      <4>1. View' = Plain!With(n, Broken)
        BY <1>7, <1>9, <2>5, <2>9, <3>2, ViewWith DEF Found
      <4>2. View' \in Plain!Spoiled(r)
        BY <2>2, <3>2, <4>1 DEF Plain!Spoiled, Plain!Write
      <4>3. QED
        BY <1>6, <2>1, <2>9, <4>2, PlainFails DEF PlainStep
    <3>3. QED
      BY <3>1, <3>2
  <2>10. QED
    BY <1>1, <1>2, <1>5, <1>9, <2>6, <2>7, <2>8, <2>9 DEF OpenWritable, Fault
<1>10. QED
  BY <1>8, <1>9

LEMMA AppendPlain ==
    ASSUME Known, Known', NEW n \in Protected, NEW v \in Pieces, AppendPiece(n, v)
    PROVE  PlainStep
<1>1. /\ Free(n) /\ n \in DOMAIN files /\ Content(n) \in Contents
      /\ Content(n)' = Append(Content(n), v) /\ \A m : m # n => Untouched(m)
      /\ UNCHANGED <<files, op, faults>>
  BY AppendFs DEF Known, AppendPiece
<1>2. \A m \in Protected \ {n} : ViewSame(m)
  BY <1>1, SeenAsBefore
<1>3. n \in DOMAIN View /\ View[n] = Content(n) /\ View[n] # Broken
  BY <1>1, ContentsKnown DEF Known, ViewRead
<1>4. Free(n)'
  BY <1>1 DEF Free, Holds
<1>5. View' = Plain!With(n, Append(View[n], v))
  BY <1>1, <1>2, <1>3, <1>4, WriteSeen
<1>6. Pending' = Pending
  BY <1>1, PendingSame
<1>7. Plain!Extend(n, v)
  BY <1>1, <1>3, <1>5, <1>6 DEF Plain!Extend, Pending, Asked
<1>8. QED
  BY <1>7 DEF PlainStep, Plain!Next

LEMMA ClosePlain ==
    ASSUME Known, Known', NEW n, CloseWritable(n) PROVE PlainStep
<1>1. UNCHANGED <<disk, files, nextId, op, faults>> /\ IInv /\ FilesKnown /\ DiskKnown
  BY DEF CloseWritable, Known, FsInv
<1>2. \A m : Untouched(m)
  BY <1>1, FilesSame
<1>3. QED
  BY <1>1, <1>2, NothingHappens DEF PlainStep

LEMMA RemovePlain ==
    ASSUME Known, Known', NEW t \in Threads, NEW n \in Protected, RemoveFile(t, n)
    PROVE  PlainStep
<1>1. /\ Free(n) /\ n \in DOMAIN files /\ UNCHANGED <<nextId, op>> /\ IInv /\ FilesKnown /\ DiskKnown
      /\ \A m : m # n => Untouched(m)
  BY RemoveFs DEF Known, RemoveFile, FsInv
<1>2. \A m \in Protected \ {n} : ViewSame(m)
  BY <1>1, SeenAsBefore
<1>3. Pending' = Pending
  BY <1>1, PendingSame
<1>4. CASE UNCHANGED faults /\ files' = Restrict(files, DOMAIN files \ {n})
  <2>1. n \notin DOMAIN files' /\ Free(n)'
    BY <1>1, <1>4 DEF Restrict, Free, Holds
  <2>2. n \in DOMAIN View /\ n \notin DOMAIN View'
    BY <1>1, <2>1 DEF Known, ViewRead
  <2>3. View' = Restrict(View, DOMAIN View \ {n})
    <3>1. DOMAIN View \subseteq Protected /\ DOMAIN View' \subseteq Protected
      BY DEF Known, ViewRead
    <3>2. DOMAIN View' = DOMAIN View \ {n}
      BY <1>2, <2>2, <3>1 DEF ViewSame
    <3>3. \A m \in DOMAIN View' : View'[m] = View[m]
      BY <1>2, <3>1, <3>2 DEF ViewSame
    <3>4. View' = [m \in DOMAIN View' |-> View'[m]]
      BY DEF Known, ViewRead
    <3>5. QED
      BY <3>2, <3>3, <3>4 DEF Restrict
  <2>4. Plain!Remove(n)
    BY <1>3, <1>4, <2>2, <2>3 DEF Plain!Remove, Pending, Asked, Restrict, Plain!Restrict
  <2>5. QED
    BY <2>4 DEF PlainStep, Plain!Next
<1>5. CASE faults' = faults + 1 /\ UNCHANGED <<disk, files>>
  <2>1. \A m : Untouched(m)
    BY <1>1, <1>5, FilesSame
  <2>2. View' = View
    BY <1>1, <2>1, NothingHappens
  <2>3. QED
    BY <1>3, <1>5, <2>2, PlainRefuses DEF PlainStep
<1>6. QED
  BY <1>4, <1>5 DEF RemoveFile, Fault

LEMMA BeginRenamePlain ==
    ASSUME Known, Known', NEW t \in Threads, NEW from \in Protected, NEW to \in Protected,
           BeginRename(t, from, to)
    PROVE  PlainStep
<1> DEFINE o == [kind |-> "rename", phase |-> "target", names |-> {from, to},
                 from |-> from, to |-> to, source |-> RealPath(from),
                 before |-> Before({from, to})]
<1>1. op' = [op EXCEPT ![t] = o]
  BY DEF BeginRename
<1>2. /\ {"kind", "phase", "names", "from", "to", "source", "before"} \subseteq DOMAIN o
      /\ o.names = {from, to} /\ o.from = from /\ o.to = to /\ o.kind = "rename"
      /\ o.before = [m \in {from, to} \cap DOMAIN files |-> Content(m)]
  BY DEF Before
<1> HIDE DEF o
<1>3. /\ Free(from) /\ Free(to) /\ from # to /\ op[t].kind = "idle"
      /\ UNCHANGED <<disk, files, nextId, faults>> /\ IInv /\ FsInv /\ FilesKnown /\ DiskKnown
  BY DEF BeginRename, Known, FsInv
<1>4. OpKnown(o) /\ \A s \in Threads \ {t} : Busy(s) => op[s].names \cap o.names = {}
  BY <1>2, <1>3 DEF OpKnown, Free, Holds, Busy
<1>5. op'[t] = o /\ \A s \in Threads \ {t} : op'[s] = op[s]
  BY <1>1, <1>3, <1>4, OpChanges
<1>6. \A m : Untouched(m)
  BY <1>3, FilesSame
<1>7. \A m \in Protected \ {from, to} : ViewSame(m)
  BY <1>2, <1>3, <1>5, <1>6, SeenAsBefore
<1>8. ASSUME NEW m \in {from, to} PROVE ViewSame(m)
  <2>1. Holds(t, m)' /\ Free(m)
    BY <1>2, <1>3, <1>5 DEF Holds
  <2>2. /\ m \in DOMAIN View' <=> m \in DOMAIN o.before
        /\ m \in DOMAIN View' => View'[m] = o.before[m]
    BY <1>5, <2>1 DEF Known, ViewRead
  <2>3. /\ m \in DOMAIN View <=> m \in DOMAIN files
        /\ m \in DOMAIN View => View[m] = Content(m)
    BY <2>1 DEF Known, ViewRead
  <2>4. QED
    BY <1>2, <2>2, <2>3 DEF ViewSame
<1>9. View' = View
  BY <1>7, <1>8, ViewUnchanged
<1>10. PICK r : r = Request(o)
  OBVIOUS
<1>11. r \in Plain!Requests /\ Asked(t)' = r
  BY <1>2, <1>4, <1>5, <1>10, RequestKnown DEF Asked, Request
<1>12. Pending' = [Pending EXCEPT ![t] = r]
  BY <1>5, <1>11, PendingChanges
<1>13. QED
  BY <1>3, <1>9, <1>11, <1>12, IdleAsks, PlainBegins DEF PlainStep

\* What the view shows of the names of a rename, while it runs.
LEMMA RenameSeen ==
    ASSUME Known, NEW t \in Threads, NEW o, o = op[t], o.kind = "rename"
    PROVE  /\ OpKnown(o) /\ Asked(t) = Plain!Rename(o.from, o.to) /\ Asked(t) # None
           /\ o.from \in Protected /\ o.to \in Protected /\ o.from # o.to
           /\ o.names = {o.from, o.to} /\ RenameFine(o)
           /\ \A n \in o.names : /\ n \in DOMAIN View <=> n \in DOMAIN o.before
                                 /\ n \in DOMAIN View => View[n] = o.before[n]
           /\ \A n \in o.names, s \in Threads \ {t} : Busy(s) => n \notin op[s].names
           /\ IInv /\ FsInv /\ FilesKnown /\ DiskKnown
<1>1. /\ OpKnown(o) /\ o.from \in Protected /\ o.to \in Protected /\ o.from # o.to
      /\ o.names = {o.from, o.to} /\ RenameFine(o)
      /\ IInv /\ FsInv /\ FilesKnown /\ DiskKnown
  BY RenameKnown DEF Known, FsInv, OpsKnown
<1>2. Asked(t) = Plain!Rename(o.from, o.to) /\ Asked(t) # None
  BY <1>1, RequestKnown DEF Asked
<1>3. \A n \in o.names : Holds(t, n)
  BY DEF Holds
<1>4. \A n \in o.names : /\ n \in DOMAIN View <=> n \in DOMAIN o.before
                         /\ n \in DOMAIN View => View[n] = o.before[n]
  BY <1>1, <1>3 DEF Known, ViewRead
<1>5. \A n \in o.names, s \in Threads \ {t} : Busy(s) => n \notin op[s].names
  BY <1>1 DEF FsInv, OpsApart, Busy
<1>6. QED
  BY <1>1, <1>2, <1>4, <1>5

\* A rename that goes on changes nothing that is seen.
LEMMA RenameUnseen ==
    ASSUME Known, Known', NEW t \in Threads, NEW o, o = op[t], o.kind = "rename", NEW phase,
           op' = [op EXCEPT ![t].phase = phase], \A m : m # o.to => Untouched(m), faults' = faults
    PROVE  PlainStep
<1>1. /\ \A s \in Threads \ {t} : op'[s] = op[s]
      /\ op'[t].kind = "rename" /\ op'[t].names = o.names
      /\ op'[t].from = o.from /\ op'[t].to = o.to /\ op'[t].before = o.before
  BY OpAdvances DEF Known
<1>2. /\ o.names = {o.from, o.to} /\ o.names \subseteq Protected
      /\ \A n \in o.names : /\ n \in DOMAIN View <=> n \in DOMAIN o.before
                            /\ n \in DOMAIN View => View[n] = o.before[n]
  BY RenameSeen
<1>3. \A n \in Protected \ o.names : ViewSame(n)
  <2>1. \A n \in Protected \ o.names : Untouched(n)
    BY <1>2
  <2>2. QED
    BY <1>1, <2>1, SeenAsBefore
<1>4. \A n \in o.names : ViewSame(n)
  <2>1. \A n \in o.names : Holds(t, n)'
    BY <1>1 DEF Holds
  <2>2. \A n \in o.names : /\ n \in DOMAIN View' <=> n \in DOMAIN o.before
                           /\ n \in DOMAIN View' => View'[n] = o.before[n]
    BY <1>1, <1>2, <2>1 DEF Known, ViewRead
  <2>3. QED
    BY <1>2, <2>2 DEF ViewSame
<1>5. View' = View
  BY <1>3, <1>4, ViewUnchanged
<1>6. Pending' = Pending
  <2>1. Asked(t)' = Asked(t)
    BY <1>1 DEF Asked, Request
  <2>2. QED
    BY <1>1, <2>1, PendingSame
<1>7. QED
  BY <1>5, <1>6 DEF PlainStep

\* A rename that fails leaves the source, and of the target what is now under
\* its name.
LEMMA RenameFailed ==
    ASSUME Known, Known', NEW t \in Threads, NEW o, o = op[t], o.kind = "rename",
           Finish(t), \A m : m # o.to => Untouched(m), UNCHANGED files, faults' = faults + 1,
           o.to \in DOMAIN o.before => o.to \in DOMAIN files,
           o.to \in DOMAIN files => Content(o.to)' \in {Broken, Found(o, o.to)}
    PROVE  PlainStep
<1>1. /\ Asked(t) = Plain!Rename(o.from, o.to) /\ Asked(t) # None
      /\ o.from \in Protected /\ o.to \in Protected /\ o.from # o.to
      /\ o.names = {o.from, o.to} /\ RenameFine(o) /\ FilesKnown
      /\ \A n \in o.names : /\ n \in DOMAIN View <=> n \in DOMAIN o.before
                            /\ n \in DOMAIN View => View[n] = o.before[n]
      /\ \A n \in o.names, s \in Threads \ {t} : Busy(s) => n \notin op[s].names
  BY RenameSeen
<1>2. op'[t] = Idle /\ \A s \in Threads \ {t} : op'[s] = op[s]
  BY OpFinishes DEF Known
<1>3. Pending' = [Pending EXCEPT ![t] = None]
  BY <1>2, FinishAsks, PendingChanges
<1>4. \A n \in o.names : Free(n)'
  BY <1>1, <1>2, IdleKnown DEF Free, Holds, Busy
<1>5. \A n \in Protected \ o.names : ViewSame(n)
  <2>1. \A n \in Protected \ o.names : Untouched(n)
    BY <1>1
  <2>2. QED
    BY <1>2, <2>1, IdleKnown, SeenAsBefore
<1>6. ViewSame(o.from)
  <2>1. Kept(o.from) /\ Content(o.from) = o.before[o.from]
    BY <1>1 DEF RenameFine, Untouched, Content
  <2>2. o.from \in DOMAIN files' /\ Content(o.from)' = o.before[o.from]
    BY <2>1, KeptReads DEF Kept
  <2>3. o.from \in DOMAIN View' /\ View'[o.from] = o.before[o.from]
    BY <1>1, <1>4, <2>2 DEF Known, ViewRead
  <2>4. QED
    BY <1>1, <2>3 DEF ViewSame, RenameFine
<1>7. /\ o.to \in DOMAIN View' <=> o.to \in DOMAIN files
      /\ o.to \in DOMAIN View' => View'[o.to] = Content(o.to)'
  BY <1>1, <1>4 DEF Known, ViewRead
<1>8. View' \in Plain!Spoiled(Plain!Rename(o.from, o.to))
  <2>1. CASE ViewSame(o.to)
    <3>1. View' = View
      BY <1>1, <1>5, <1>6, <2>1, ViewUnchanged
    <3>2. QED
      BY <3>1 DEF Plain!Spoiled
  <2>2. CASE o.to \in DOMAIN View' /\ View'[o.to] = Broken
    <3>1. View' = Plain!With(o.to, Broken)
      BY <1>1, <1>5, <1>6, <2>2, ViewWith
    <3>2. QED
      BY <3>1 DEF Plain!Spoiled, Plain!Rename
  <2>3. QED
    BY <1>1, <1>7, <2>1, <2>2 DEF ViewSame, Found
<1>9. PICK r : r = Plain!Rename(o.from, o.to)
  OBVIOUS
<1>10. QED
  BY <1>1, <1>3, <1>8, <1>9, PlainFails DEF PlainStep

LEMMA PrepareTargetPlain ==
    ASSUME Known, Known', NEW t \in Threads, PrepareTarget(t) PROVE PlainStep
<1>1. PICK o : o = op[t]
  OBVIOUS
<1>2. o.kind = "rename" /\ o.phase = "target"
  BY <1>1 DEF PrepareTarget, Renaming
<1>3. o.to \in Protected /\ RenameFine(o) /\ IInv /\ FilesKnown /\ DiskKnown
  BY <1>1, <1>2, RenameSeen
<1>4. CASE Prepared(o.to) /\ op' = [op EXCEPT ![t].phase = "open"] /\ UNCHANGED faults
  <2>1. \A m : m # o.to => Untouched(m)
    BY <1>3, <1>4, FilePrepared
  <2>2. QED
    BY <1>1, <1>2, <1>4, <2>1, RenameUnseen
<1>5. CASE CannotPrepare(o.to) /\ Finish(t)
  <2>1. UNCHANGED <<disk, files>> /\ nextId' = nextId + 1 /\ faults' = faults + 1
    BY <1>5 DEF CannotPrepare, Fault
  <2>2. \A m : Untouched(m) /\ Content(m)' = Content(m)
    BY <1>3, <2>1, FilesSame
  <2>3. /\ o.to \in DOMAIN o.before => o.to \in DOMAIN files
        /\ o.to \in DOMAIN files => Content(o.to) = Found(o, o.to)
    BY <1>2, <1>3 DEF RenameFine, Found
  <2>4. QED
    BY <1>1, <1>2, <1>5, <2>1, <2>2, <2>3, RenameFailed
<1>6. QED
  BY <1>1, <1>4, <1>5 DEF PrepareTarget

LEMMA OpenTargetPlain ==
    ASSUME Known, Known', NEW t \in Threads, OpenTarget(t) PROVE PlainStep
<1>1. PICK o : o = op[t]
  OBVIOUS
<1>2. o.kind = "rename" /\ o.phase = "open" /\ UNCHANGED <<files, nextId>>
  BY <1>1 DEF OpenTarget, Renaming
<1>3. RenameFine(o) /\ IInv /\ FilesKnown /\ DiskKnown
  BY <1>1, <1>2, RenameSeen
<1>4. o.to \in DOMAIN files /\ files[o.to] # 0 /\ Content(o.to) = Found(o, o.to)
  BY <1>2, <1>3 DEF RenameFine
<1>5. CASE /\ disk' = Written(disk, RealPath(o.to), <<>>) /\ UNCHANGED faults
           /\ op' = [op EXCEPT ![t].phase = "copy"]
  <2>1. \A m : m # o.to => Untouched(m)
    BY <1>2, <1>3, <1>4, <1>5, FileWritten, ContentsKnown
  <2>2. QED
    BY <1>1, <1>2, <1>5, <2>1, RenameUnseen
<1>6. CASE faults' = faults + 1 /\ Finish(t) /\ UNCHANGED disk
  <2>1. \A m : Untouched(m) /\ Content(m)' = Content(m)
    BY <1>2, <1>3, <1>6, FilesSame
  <2>2. QED
    BY <1>1, <1>2, <1>4, <1>6, <2>1, RenameFailed
<1>7. QED
  BY <1>1, <1>5, <1>6 DEF OpenTarget, Fault

LEMMA CopyPlain ==
    ASSUME Known, Known', NEW t \in Threads, Copy(t) PROVE PlainStep
<1>1. PICK o : o = op[t]
  OBVIOUS
<1>2. o.kind = "rename" /\ o.phase = "copy" /\ UNCHANGED <<files, nextId>>
  BY <1>1 DEF Copy, Renaming
<1>3. RenameFine(o) /\ IInv /\ FilesKnown /\ DiskKnown
  BY <1>1, <1>2, RenameSeen
<1>4. o.to \in DOMAIN files /\ files[o.to] # 0 /\ disk[o.source] \in Contents
  BY <1>2, <1>3 DEF RenameFine, DiskKnown
<1>5. CASE /\ disk' = Written(disk, RealPath(o.to), disk[o.source]) /\ UNCHANGED faults
           /\ op' = [op EXCEPT ![t].phase = "forget"]
  <2>1. \A m : m # o.to => Untouched(m)
    BY <1>2, <1>3, <1>4, <1>5, FileWritten
  <2>2. QED
    BY <1>1, <1>2, <1>5, <2>1, RenameUnseen
<1>6. CASE faults' = faults + 1 /\ Finish(t) /\ disk' = Removed(disk, RealPath(o.to))
  <2>1. (\A m : m # o.to => Untouched(m)) /\ RealPath(o.to) \notin DOMAIN disk'
    BY <1>2, <1>3, <1>4, <1>6, FileRemoved
  <2>2. Content(o.to)' = Broken
    BY <1>2, <2>1 DEF Content, RealPath
  <2>3. QED
    BY <1>1, <1>2, <1>4, <1>6, <2>1, <2>2, RenameFailed
<1>7. QED
  BY <1>1, <1>5, <1>6 DEF Copy, Fault

\* The moment at which a rename takes effect.
LEMMA ForgetPlain ==
    ASSUME Known, Known', NEW t \in Threads, Forget(t) PROVE PlainStep
<1>1. PICK o : o = op[t]
  OBVIOUS
<1>2. /\ o.kind = "rename" /\ o.phase = "forget" /\ Finish(t) /\ UNCHANGED <<disk, nextId, faults>>
      /\ files' = Restrict(files, DOMAIN files \ {o.from})
  BY <1>1 DEF Forget, Renaming
<1>3. /\ Asked(t) = Plain!Rename(o.from, o.to) /\ Asked(t) # None
      /\ o.from \in Protected /\ o.to \in Protected /\ o.from # o.to
      /\ o.names = {o.from, o.to} /\ RenameFine(o)
      /\ \A n \in o.names : /\ n \in DOMAIN View <=> n \in DOMAIN o.before
                            /\ n \in DOMAIN View => View[n] = o.before[n]
      /\ \A n \in o.names, s \in Threads \ {t} : Busy(s) => n \notin op[s].names
  BY <1>1, <1>2, RenameSeen
<1>4. DOMAIN files' = DOMAIN files \ {o.from} /\ \A m \in DOMAIN files' : files'[m] = files[m]
  BY <1>2 DEF Restrict
<1>5. op'[t] = Idle /\ \A s \in Threads \ {t} : op'[s] = op[s]
  BY <1>2, OpFinishes DEF Known
<1>6. Pending' = [Pending EXCEPT ![t] = None]
  BY <1>5, FinishAsks, PendingChanges
<1>7. \A n \in o.names : Free(n)'
  BY <1>1, <1>3, <1>5, IdleKnown DEF Free, Holds, Busy
<1>8. \A m : m # o.from => Untouched(m)
  BY <1>2, <1>4 DEF Untouched, Kept
<1>9. \A n \in Protected \ o.names : ViewSame(n)
  <2>1. \A n \in Protected \ o.names : Untouched(n)
    BY <1>3, <1>8
  <2>2. QED
    BY <1>1, <1>5, <2>1, IdleKnown, SeenAsBefore
<1>10. o.from \in DOMAIN View /\ o.from \notin DOMAIN View'
  BY <1>3, <1>4, <1>7 DEF Known, ViewRead, RenameFine
<1>11. o.to \in DOMAIN View' /\ View'[o.to] = View[o.from]
  <2>1. /\ o.to \in DOMAIN files /\ RealPath(o.to) \in DOMAIN disk
        /\ disk[RealPath(o.to)] = o.before[o.from]
    BY <1>2, <1>3 DEF RenameFine
  <2>2. o.to \in DOMAIN files' /\ Content(o.to)' = Content(o.to)
    BY <1>3, <1>4, <1>8, <2>1, KeptReads DEF Untouched
  <2>3. o.to \in DOMAIN View' /\ View'[o.to] = Content(o.to)
    BY <1>3, <1>7, <2>2 DEF Known, ViewRead
  <2>4. QED
    BY <1>3, <1>10, <2>1, <2>3 DEF Content
<1>12. View' = [m \in (DOMAIN View \ {o.from}) \cup {o.to} |-> View[IF m = o.to THEN o.from ELSE m]]
  <2>1. DOMAIN View \subseteq Protected /\ DOMAIN View' \subseteq Protected
    BY DEF Known, ViewRead
  <2>2. DOMAIN View' = (DOMAIN View \ {o.from}) \cup {o.to}
    BY <1>3, <1>9, <1>10, <1>11, <2>1 DEF ViewSame
  <2>3. \A m \in DOMAIN View' : View'[m] = View[IF m = o.to THEN o.from ELSE m]
    BY <1>3, <1>9, <1>10, <1>11, <2>1, <2>2 DEF ViewSame
  <2>4. View' = [m \in DOMAIN View' |-> View'[m]]
    BY DEF Known, ViewRead
  <2>5. QED
    BY <2>2, <2>3, <2>4
<1>13. PICK r : r = Plain!Rename(o.from, o.to)
  OBVIOUS
<1>14. View' = Plain!Effect(r)
  BY <1>12, <1>13 DEF Plain!Effect, Plain!Rename
<1>15. QED
  BY <1>2, <1>3, <1>6, <1>13, <1>14, PlainReturns DEF PlainStep

LEMMA PlainInit == Init /\ ViewRead => Plain!Init(Original)
<1> SUFFICES ASSUME Init, ViewRead PROVE Plain!Init(Original)
  OBVIOUS
<1>1. \A n \in Protected : Free(n)
  BY DEF Init, Free, Holds, Idle
<1>2. \A n \in DOMAIN Original : Content(n) = Original[n]
  BY ProxyConstants DEF Init, Content, RealPath
<1>3. DOMAIN View = DOMAIN Original /\ \A n \in DOMAIN Original : View[n] = Original[n]
  BY <1>1, <1>2, ProxyConstants DEF ViewRead, Init
<1>4. View = Original
  BY <1>3, ProxyContents DEF ViewRead
<1>5. \A t \in Threads : Asked(t) = None
  BY RequestKnown DEF Init, Asked
<1>6. QED
  BY <1>4, <1>5 DEF Plain!Init, Init, Asked

LEMMA PlainNext ==
    ASSUME Known, Known', [Next]_vars PROVE PlainStep
<1>1. ASSUME NEW t \in Threads, NEW n \in Names, NEW truncate \in BOOLEAN,
             BeginWrite(t, n, truncate)
      PROVE  PlainStep
  BY <1>1, BeginWritePlain
<1>2. ASSUME NEW t \in Threads, NEW n \in Protected, RemoveFile(t, n) PROVE PlainStep
  BY <1>2, RemovePlain
<1>3. ASSUME NEW t \in Threads, NEW m \in Protected, NEW n \in Protected,
             BeginRename(t, m, n)
      PROVE  PlainStep
  BY <1>3, BeginRenamePlain
<1>4. ASSUME NEW t \in Threads,
             OpenWritable(t) \/ PrepareTarget(t) \/ OpenTarget(t) \/ Copy(t) \/ Forget(t)
      PROVE  PlainStep
  BY <1>4, OpenWritablePlain, PrepareTargetPlain, OpenTargetPlain, CopyPlain, ForgetPlain
<1>5. ASSUME NEW n \in Protected, CloseWritable(n) \/ \E v \in Pieces : AppendPiece(n, v)
      PROVE  PlainStep
  BY <1>5, ClosePlain, AppendPlain
<1>6. CASE UNCHANGED vars
  <2>1. UNCHANGED <<disk, files, nextId, op, faults>> /\ IInv /\ FilesKnown /\ DiskKnown
    BY <1>6 DEF vars, Known, FsInv
  <2>2. \A m : Untouched(m)
    BY <2>1, FilesSame
  <2>3. QED
    BY <2>1, <2>2, NothingHappens DEF PlainStep
<1>7. QED
  BY <1>1, <1>2, <1>3, <1>4, <1>5, <1>6 DEF Next

\* LevelDB sees a plain directory: for any number of threads, any files and
\* contents and whatever fails, each operation takes effect at one moment or
\* fails and spoils at most the file it was about to write.
THEOREM PlainSpecCorrect == Spec => PlainSpec
<1>1. FsInv => ViewRead
  BY ViewHolds
<1>2. IInv /\ FsInv /\ ViewRead => Known
  BY DEF Known
<1>3. (IInv /\ FsInv /\ ViewRead => Known)'
  BY <1>2, PTL
<1>4. Known /\ Known' /\ [Next]_vars => [Plain!Next]_(Plain!vars)
  BY PlainNext DEF PlainStep, Pending, Asked, Plain!vars
<1>5. QED
  BY InitInvariant, NextInvariant, FsInit, FsStep, <1>1, <1>2, <1>3, <1>4, PlainInit, PTL
     DEF Spec, PlainSpec

=============================================================================
