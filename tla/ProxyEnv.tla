------------------------------ MODULE ProxyEnv ------------------------------
(***************************************************************************)
(* je2be::ProxyEnv over je2be::FirewallEnv: the environment in which       *)
(* ReadonlyDb opens the user's LevelDB database.  LevelDB writes when it   *)
(* opens and compacts; ProxyEnv copies a file to the working directory     *)
(* before the first write and redirects every later access, FirewallEnv    *)
(* refuses to write outside of the working directory.                      *)
(*                                                                         *)
(* Threads (LevelDB's caller and its background thread) run one operation  *)
(* each.  A step is a section under fMut, or a call of the underlying      *)
(* environment.  LevelDB never runs two operations on one name at a time,  *)
(* and renames within its directory only.                                  *)
(***************************************************************************)
EXTENDS Naturals, Sequences, FiniteSets, Functions

CONSTANTS Threads,
          Protected,    \* names below protectDir
          Outside,      \* names elsewhere
          Pieces,       \* what may be written
          Original,     \* the files of the database: a partial function
          Broken, None,
          MaxFaults, MaxFiles, MaxLength \* bounds: failing calls, proxy files, pieces in a file

ASSUME ProxyConstants ==
    /\ Protected \cap Outside = {}
    /\ DOMAIN Original \subseteq Protected

\* What a file can hold.
Contents == Seq(Pieces \cup UNION {Range(Original[n]) : n \in DOMAIN Original})

ASSUME ProxyContents ==
    /\ Original \in [DOMAIN Original -> Contents]
    /\ Broken \notin Contents
    /\ None \notin [kind : {"write"}, to : Protected, truncate : BOOLEAN]
    /\ None \notin [kind : {"rename"}, from : Protected, to : Protected]

VARIABLES
    disk,    \* the real files: <<"world", name>>, <<"work", id>>, <<"outside", name>>
    files,   \* fFiles: name -> id of its proxy file, or 0 while it has none
    nextId,  \* fNextFileId
    op,      \* the operation each thread is in
    writers, \* the open WritableFiles: name -> real path
    faults   \* calls of the system that have failed

vars == <<disk, files, nextId, op, writers, faults>>

Idle == [kind |-> "idle"]
Names == Protected \cup Outside

-----------------------------------------------------------------------------
(* Where a name leads.                                                     *)

\* unsafePrepareForRead
RealPath(n) == IF n \in Outside THEN <<"outside", n>>
               ELSE IF files[n] = 0 THEN <<"world", n>> ELSE <<"work", files[n]>>

\* FirewallEnv::isAllowed
Allowed(path) == path[1] = "work"

Written(d, path, c) == [p \in DOMAIN d \cup {path} |-> IF p = path THEN c ELSE d[p]]
Removed(d, path) == Restrict(d, DOMAIN d \ {path})

Entered(n, id) == [m \in DOMAIN files \cup {n} |-> IF m = n THEN id ELSE files[m]]

\* FileExists and GetChildren know the names of fFiles only.
Listed == DOMAIN files

Content(n) == IF RealPath(n) \in DOMAIN disk THEN disk[RealPath(n)] ELSE Broken

Holds(t, n) == op[t].kind # "idle" /\ n \in op[t].names
Holder(n) == CHOOSE t \in Threads : Holds(t, n)

\* No operation runs on the name.
Free(n) == \A t \in Threads : ~Holds(t, n)

\* History: what there was when the operation began.
Before(ns) == [n \in ns \cap DOMAIN files |-> Content(n)]

\* MaxFiles proxy files suffice for the operations that have begun.
Room == nextId + Cardinality({t \in Threads : op[t].kind = "rename" /\ op[t].phase = "target"}) <= MaxFiles

-----------------------------------------------------------------------------
Init ==
    /\ disk = [p \in {<<"world", n>> : n \in DOMAIN Original} \cup {<<"outside", n>> : n \in Outside} |->
                  IF p[1] = "world" THEN Original[p[2]] ELSE <<>>]
    /\ files = [n \in DOMAIN Original |-> 0]
    /\ nextId = 1
    /\ op = [t \in Threads |-> Idle]
    /\ writers = <<>>
    /\ faults = 0

Fault == faults < MaxFaults /\ faults' = faults + 1

Finish(t) == op' = [op EXCEPT ![t] = Idle]

\* Mutant: an existing file is written where it is.
PreparedInPlace(n) ==
    IF n \in Outside \/ n \in DOMAIN files
    THEN UNCHANGED <<disk, files, nextId>>
    ELSE nextId' = nextId + 1 /\ files' = Entered(n, nextId) /\ UNCHANGED disk

\* Mutant: the proxy file starts empty.
PreparedEmpty(n) ==
    IF n \in Outside \/ (n \in DOMAIN files /\ files[n] # 0)
    THEN UNCHANGED <<disk, files, nextId>>
    ELSE nextId' = nextId + 1 /\ files' = Entered(n, nextId) /\ UNCHANGED disk

\* unsafePrepareForWrite, one section under fMut: a new name gets a proxy
\* path, an untouched file is copied to one first.
Prepared(n) ==
    IF n \in Outside \/ (n \in DOMAIN files /\ files[n] # 0)
    THEN UNCHANGED <<disk, files, nextId>>
    ELSE /\ nextId' = nextId + 1
         /\ files' = Entered(n, nextId)
         /\ disk' = IF n \in DOMAIN files
                    THEN Written(disk, <<"work", nextId>>, disk[<<"world", n>>])
                    ELSE disk

\* The copy fails; what had been copied is removed.
CannotPrepare(n) ==
    /\ n \in DOMAIN files /\ files[n] = 0
    /\ Fault
    /\ nextId' = nextId + 1
    /\ UNCHANGED <<disk, files>>

-----------------------------------------------------------------------------
(* NewWritableFile and NewLogger truncate; NewAppendableFile and LockFile  *)
(* do not.                                                                 *)

BeginWrite(t, n, truncate) ==
    /\ op[t].kind = "idle" /\ Free(n) /\ n \notin DOMAIN writers /\ Room
    /\ UNCHANGED writers
    /\ \/ /\ Prepared(n)
          /\ op' = [op EXCEPT ![t] = [kind |-> "write", names |-> {n}, name |-> n,
                                      truncate |-> truncate, before |-> Before({n})]]
          /\ UNCHANGED faults
       \/ CannotPrepare(n) /\ UNCHANGED op

OpenWritable(t) ==
    /\ op[t].kind = "write"
    /\ LET n == op[t].name  path == RealPath(n)
       IN  \/ /\ Allowed(path)
              /\ disk' = IF op[t].truncate \/ path \notin DOMAIN disk
                         THEN Written(disk, path, <<>>) ELSE disk
              /\ writers' = [m \in DOMAIN writers \cup {n} |-> IF m = n THEN path ELSE writers[m]]
              /\ UNCHANGED faults
           \/ /\ Allowed(path) /\ Fault
              /\ disk' = disk \/ (op[t].truncate /\ path \in DOMAIN disk /\ disk' = Written(disk, path, <<>>))
              /\ UNCHANGED writers
           \/ ~Allowed(path) /\ UNCHANGED <<disk, writers, faults>>
    /\ Finish(t)
    /\ UNCHANGED <<files, nextId>>

\* Writing through the open file; it does not go through the environment.
AppendPiece(n, v) ==
    /\ n \in DOMAIN writers
    /\ Len(disk[writers[n]]) < MaxLength
    /\ disk' = [disk EXCEPT ![writers[n]] = Append(@, v)]
    /\ UNCHANGED <<files, nextId, op, writers, faults>>

CloseWritable(n) ==
    /\ n \in DOMAIN writers
    /\ writers' = Restrict(writers, DOMAIN writers \ {n})
    /\ UNCHANGED <<disk, files, nextId, op, faults>>

-----------------------------------------------------------------------------
\* RemoveFile: one section; a file without a copy is only forgotten.
RemoveFile(t, n) ==
    /\ op[t].kind = "idle" /\ Free(n) /\ n \notin DOMAIN writers
    /\ \/ /\ n \in DOMAIN files
          /\ files[n] # 0 => RealPath(n) \in DOMAIN disk
          /\ disk' = IF files[n] # 0 THEN Removed(disk, RealPath(n)) ELSE disk
          /\ files' = Restrict(files, DOMAIN files \ {n})
          /\ UNCHANGED faults
       \/ /\ n \in DOMAIN files /\ files[n] # 0     \* the call below fails
          /\ Fault /\ UNCHANGED <<disk, files>>
    /\ UNCHANGED <<nextId, op, writers>>

-----------------------------------------------------------------------------
(* RenameFile copies the contents and forgets the old name.                *)

Renaming(t, phase) == op[t].kind = "rename" /\ op[t].phase = phase

BeginRename(t, from, to) ==
    /\ op[t].kind = "idle" /\ Free(from) /\ Free(to) /\ from # to /\ Room
    /\ {from, to} \cap DOMAIN writers = {}
    /\ from \in DOMAIN files /\ RealPath(from) \in DOMAIN disk
    /\ op' = [op EXCEPT ![t] = [kind |-> "rename", phase |-> "target", names |-> {from, to},
                                from |-> from, to |-> to, source |-> RealPath(from),
                                before |-> Before({from, to})]]
    /\ UNCHANGED <<disk, files, nextId, writers, faults>>

PrepareTarget(t) ==
    /\ Renaming(t, "target")
    /\ \/ /\ Prepared(op[t].to)
          /\ op' = [op EXCEPT ![t].phase = "open"]
          /\ UNCHANGED faults
       \/ CannotPrepare(op[t].to) /\ Finish(t)
    /\ UNCHANGED writers

\* The source is opened, then the target, which truncates it.
OpenTarget(t) ==
    /\ Renaming(t, "open")
    /\ \/ /\ op[t].source \in DOMAIN disk
          /\ disk' = Written(disk, RealPath(op[t].to), <<>>)
          /\ op' = [op EXCEPT ![t].phase = "copy"]
          /\ UNCHANGED faults
       \/ Fault /\ Finish(t) /\ UNCHANGED disk
    /\ UNCHANGED <<files, nextId, writers>>

Copy(t) ==
    /\ Renaming(t, "copy")
    /\ \/ /\ disk' = Written(disk, RealPath(op[t].to), disk[op[t].source])
          /\ op' = [op EXCEPT ![t].phase = "forget"]
          /\ UNCHANGED faults
       \/ /\ Fault
          /\ disk' = Removed(disk, RealPath(op[t].to))
          /\ Finish(t)
    /\ UNCHANGED <<files, nextId, writers>>

Forget(t) ==
    /\ Renaming(t, "forget")
    /\ files' = Restrict(files, DOMAIN files \ {op[t].from})
    /\ Finish(t)
    /\ UNCHANGED <<disk, nextId, writers, faults>>

-----------------------------------------------------------------------------
Next ==
    \/ \E t \in Threads :
          \/ \E n \in Names, truncate \in BOOLEAN : BeginWrite(t, n, truncate)
          \/ \E n \in Protected : RemoveFile(t, n)
          \/ \E m, n \in Protected : BeginRename(t, m, n)
          \/ OpenWritable(t) \/ PrepareTarget(t) \/ OpenTarget(t) \/ Copy(t) \/ Forget(t)
    \/ \E n \in Protected : CloseWritable(n) \/ \E v \in Pieces : AppendPiece(n, v)

Spec == Init /\ [][Next]_vars

-----------------------------------------------------------------------------
(* Properties.                                                             *)

TypeOK ==
    /\ DOMAIN files \subseteq Protected
    /\ \A n \in DOMAIN files : files[n] \in 0 .. nextId - 1
    /\ nextId \in 1 .. MaxFiles + 1
    /\ DOMAIN writers \subseteq Protected
    /\ \A n \in DOMAIN writers : writers[n] \in DOMAIN disk /\ Allowed(writers[n])

\* Whatever LevelDB does, in both of its threads and with any call failing,
\* the files of the world and everything else outside of the working
\* directory stay as they were.
WorldUntouched ==
    /\ \A n \in DOMAIN Original :
          <<"world", n>> \in DOMAIN disk /\ disk[<<"world", n>>] = Original[n]
    /\ \A p \in DOMAIN disk : p[1] = "world" => p[2] \in DOMAIN Original
    /\ \A n \in Outside :
          <<"outside", n>> \in DOMAIN disk /\ disk[<<"outside", n>>] = <<>>

\* What a reader finds under the name; fFiles may list a file that could not
\* be created.
View == [n \in {m \in Protected : IF Free(m) THEN m \in Listed
                                  ELSE m \in DOMAIN op[Holder(m)].before} |->
            IF Free(n) THEN Content(n) ELSE op[Holder(n)].before[n]]

Request(o) == IF o.kind = "idle" \/ o.names \subseteq Outside THEN None
              ELSE IF o.kind = "write"
                   THEN [kind |-> "write", to |-> o.name, truncate |-> o.truncate]
                   ELSE [kind |-> "rename", from |-> o.from, to |-> o.to]

Plain == INSTANCE PlainFs WITH Names <- Protected, content <- View,
                               pending <- [t \in Threads |-> Request(op[t])], failures <- faults

\* LevelDB sees a plain directory: every operation takes effect at one
\* moment, a copy made behind its back changes nothing, and a failing call
\* spoils at most the file it was about to write.
PlainSpec == Plain!Init(Original) /\ [][Plain!Next]_(Plain!vars)
=============================================================================
