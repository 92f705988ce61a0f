------------------------------ MODULE ConcurrentDb ------------------------------
(***************************************************************************)
(* ConcurrentDb collects the records of a Bedrock database without a lock: *)
(* each thread that puts has a Writer of its own, with a key file and a    *)
(* value file; a shared counter numbers the records.  close sorts what the *)
(* writers hold into level 1 tables, one prefix byte per work of a         *)
(* Parallel::Reduce, then writes MANIFEST and CURRENT.                     *)
(*                                                                         *)
(* A step touches one shared thing: the sequence counter, the file number, *)
(* a table file, MANIFEST or CURRENT.  No thread puts while another closes *)
(* (the converter joins its threads first), so close begins in one step.   *)
(***************************************************************************)
EXTENDS KeyOrder, FiniteSets, SequencesExt

CONSTANTS
  Threads,      \* the threads that put
  Keys,         \* the keys they put
  Size,         \* the compressed size of the value of each key
  MaxFileSize,  \* a table is closed when its values reach this size
  Depth,        \* how finely a prefix is cut in ranges: a matter of memory
  Concurrency,  \* how many prefixes are worked on at once
  MaxPuts,      \* bound: how many records are numbered
  MaxTorn,      \* bound: how many tables come short unnoticed
  MayRepeat     \* whether a key may be put more than once

ASSUME DbAssumption ==
  /\ Keys \subseteq Seq(Byte) \ {<<>>}
  /\ Size \in [Keys -> Nat]
  /\ MaxFileSize \in Nat /\ Depth \in [Byte -> Nat]
  /\ Concurrency \in Nat \ {0}
  /\ MaxPuts \in Nat /\ MaxTorn \in Nat /\ MayRepeat \in BOOLEAN

NoManifest == [files |-> {}, nextFile |-> 0, lastSequence |-> 0]

Records == [key : Keys, sequence : 0..MaxPuts-1, writer : Threads]

VARIABLES
  sequence,    \* fSequence
  writer,      \* each thread's Writer: "none", "open", "broken"
  held,        \* the records in the writer's files
  dirs,        \* the writers' directories that exist
  accepted,    \* history: the records put and not lost with their writer
  lost,        \* history: a put has failed
  phase,       \* where the owner is
  build,       \* the work of each prefix: "idle", "writing", "done", "error"
  todo,        \* the tables each prefix has yet to write
  builder,     \* its table builder: "none", "open", "closed"
  file,        \* the file number it has drawn
  number,      \* fileNumber, the next one
  tables,      \* the tables written: file number -> records in file order
  torn,        \* those of them whose file came short
  manifest,    \* what MANIFEST says, or NoManifest
  current,     \* the CURRENT file: "none", "torn", "whole"
  result       \* what close or abandon came to: "none", "ok", "error"

putting == <<sequence, writer, held, accepted, lost>>
building == <<build, todo, builder, file, number, tables, torn>>
publishing == <<manifest, current>>
vars == <<putting, dirs, phase, building, publishing, result>>

Numbers == DOMAIN tables

Init ==
  /\ sequence = 0
  /\ writer = [t \in Threads |-> "none"]
  /\ held = [t \in Threads |-> {}]
  /\ dirs = {}
  /\ accepted = {} /\ lost = FALSE
  /\ phase = "open"
  /\ build = [p \in Byte |-> "idle"]
  /\ todo = [p \in Byte |-> <<>>]
  /\ builder = [p \in Byte |-> "none"]
  /\ file = [p \in Byte |-> 0]
  /\ number = 1
  /\ tables = <<>> /\ torn = {}
  /\ manifest = NoManifest /\ current = "none"
  /\ result = "none"

-------------------------------------------------------------------------------
(* Faulty variants of the definitions below, each a bug that a property    *)
(* must catch.                                                             *)
AllDone == \A p \in Byte : build[p] = "done"

HighestNumber == CHOOSE i \in Numbers : \A j \in Numbers : j <= i

ForgetsRest(end) == end.done

-------------------------------------------------------------------------------
(* put: Gate::get and Writer::put.                                         *)

MayPut(k) ==
  /\ phase = "open"
  /\ sequence < MaxPuts
  /\ MayRepeat \/ \A r \in accepted : r.key # k

(* The writer is created by its thread's first put.                        *)
Put(t, k) ==
  LET r == [key |-> k, sequence |-> sequence, writer |-> t]
  IN /\ MayPut(k) /\ writer[t] # "broken"
     /\ writer' = [writer EXCEPT ![t] = "open"]
     /\ dirs' = dirs \cup {t}
     /\ sequence' = sequence + 1
     /\ held' = [held EXCEPT ![t] = @ \cup {r}]
     /\ accepted' = accepted \cup {r}
     /\ UNCHANGED <<lost, phase, building, publishing, result>>

Break(t) ==
  /\ writer' = [writer EXCEPT ![t] = "broken"]
  /\ held' = [held EXCEPT ![t] = {}]
  /\ accepted' = accepted \ held[t]
  /\ lost' = TRUE
  /\ UNCHANGED <<phase, building, publishing, result>>

(* The constructor cannot create the directory, or a file in it.           *)
PutCannotOpen(t, k) ==
  /\ MayPut(k) /\ writer[t] = "none"
  /\ Break(t)
  /\ dirs' \in {dirs, dirs \cup {t}}
  /\ UNCHANGED sequence

(* A write comes short: the writer's files go, with all they held.         *)
PutFails(t, k) ==
  /\ MayPut(k) /\ writer[t] # "broken"
  /\ Break(t)
  /\ dirs' = dirs \ {t}
  /\ sequence' = sequence + 1

-------------------------------------------------------------------------------
(* close, until the prefixes are worked on.                                *)

Writers == {t \in Threads : writer[t] # "none"}

Broken == {t \in Writers : writer[t] = "broken"}

Ends(answer) == phase' = "returned" /\ result' = answer

(* Drained writers end with close, and take their directories with them.   *)
DropDirs == dirs' = {}

(* progress({0, 257}) asks to cancel before the writers are drained.       *)
CancelClose ==
  /\ phase = "open"
  /\ Ends("error")
  /\ UNCHANGED <<putting, dirs, building, publishing>>

(* Nothing was put: done, with or without a last objection.                *)
CloseEmpty(answer) ==
  /\ phase = "open" /\ Writers = {}
  /\ Ends(answer)
  /\ UNCHANGED <<putting, dirs, building, publishing>>

CloseWriters ==
  /\ phase = "open" /\ Writers # {}
  /\ IF Broken # {}
     THEN Ends("error") /\ DropDirs
     ELSE phase' = "building" /\ UNCHANGED <<dirs, result>>
  /\ UNCHANGED <<putting, building, publishing>>

Abandon ==
  /\ phase = "open"
  /\ Ends("error")
  /\ DropDirs
  /\ UNCHANGED <<putting, building, publishing>>

-------------------------------------------------------------------------------
(* BuildTable: one prefix.                                                 *)

Stored == UNION {held[t] : t \in Threads}

(* sort compares nothing but the keys: equal ones may come in any order.   *)
SortedByKey(records) ==
  {s \in SetToSeqs(records) :
     \A i, j \in DOMAIN s : i < j => ~Less(s[j].key, s[i].key)}

(* if (!bin.empty()): what is left after the loop is a table too.          *)
WithRest(end) == IF end.bin = <<>> THEN end.done ELSE Append(end.done, end.bin)

(* One round of the loop that closes a table as soon as its values are     *)
(* large enough.                                                           *)
Added(acc, r) ==
  LET bin == Append(acc.bin, r)
      size == acc.size + Size[r.key]
  IN IF size >= MaxFileSize
     THEN [done |-> Append(acc.done, bin), bin |-> <<>>, size |-> 0]
     ELSE [done |-> acc.done, bin |-> bin, size |-> size]

NoTables == [done |-> <<>>, bin |-> <<>>, size |-> 0]

Cut(s) ==
  LET loop[n \in 0..Len(s)] == IF n = 0 THEN NoTables ELSE Added(loop[n - 1], s[n])
  IN WithRest(loop[Len(s)])

(* The records of range n of prefix p: the key files are read anew for it. *)
LastRange(p) == NMax(Depth[p]) - 1

RangeOf(p, n) ==
  {r \in Stored : r.key[1] = p /\ InRange(r.key, n, Lowers(p, Depth[p])[n], LastRange(p))}

(* One way to sort each range.                                             *)
Sortings(p) ==
  LET range == [n \in 0..LastRange(p) |-> RangeOf(p, n)]
  IN {s \in [DOMAIN range -> UNION {SortedByKey(range[n]) : n \in DOMAIN range}] :
        \A n \in DOMAIN range : s[n] \in SortedByKey(range[n])}

TablesOf(p, sorting) ==
  FlattenSeq([i \in 1..LastRange(p) + 1 |-> Cut(sorting[i - 1])])

Errors == {p \in Byte : build[p] = "error"}
InFlight == {p \in Byte : build[p] = "writing"}
Idle == {p \in Byte : build[p] = "idle"}

(* Parallel::Reduce's loop hands out the prefixes in order.  After an error*)
(* JoinPrefixes need not wait for the rest, but a thread that had looked   *)
(* for an error before still takes its next prefix.                        *)
Claims(p) ==
  /\ phase = "building"
  /\ Cardinality(InFlight) < Concurrency
  /\ p \in Idle /\ \A q \in Idle : p <= q

StartPrefix(p) ==
  /\ Claims(p)
  /\ build' = [build EXCEPT ![p] = "writing"]
  /\ \E s \in Sortings(p) : todo' = [todo EXCEPT ![p] = TablesOf(p, s)]
  /\ UNCHANGED <<putting, dirs, phase, builder, file, number, tables, torn, publishing, result>>

Fails(p) == build' = [build EXCEPT ![p] = "error"]

(* A key file cannot be read, for the first range or for a later one.      *)
CannotReadKeys(p) ==
  /\ build[p] = "writing" /\ todo[p] # <<>> /\ file[p] = 0
  /\ Fails(p)
  /\ UNCHANGED <<putting, dirs, phase, todo, builder, file, number, tables, torn, publishing, result>>

Advanced == number + 1

DrawNumber(p) ==
  /\ build[p] = "writing" /\ todo[p] # <<>> /\ file[p] = 0
  /\ file' = [file EXCEPT ![p] = number]
  /\ number' = Advanced
  /\ UNCHANGED <<putting, dirs, phase, build, todo, builder, tables, torn, publishing, result>>

(* OpenWritable, and a ZlibRawTableBuilder upon it.                        *)
OpenTable(p) ==
  /\ build[p] = "writing" /\ file[p] # 0 /\ builder[p] # "open"
  /\ \/ builder' = [builder EXCEPT ![p] = "open"] /\ UNCHANGED build
     \/ Fails(p) /\ UNCHANGED builder
  /\ UNCHANGED <<putting, dirs, phase, todo, file, number, tables, torn, publishing, result>>

(* Every value is copied and the builder finished.  What the last appends, *)
(* Finish and the file's Close answer is dropped: the file may come short, *)
(* as on a full disk, and its table is listed all the same.                *)
FinishTable(p) ==
  /\ build[p] = "writing" /\ builder[p] = "open"
  /\ builder' = [builder EXCEPT ![p] = "closed"]
  /\ tables' = [i \in Numbers \cup {file[p]} |-> IF i = file[p] THEN Head(todo[p]) ELSE tables[i]]
  /\ torn' \in {torn, torn \cup {file[p]}} /\ Cardinality(torn') <= MaxTorn
  /\ file' = [file EXCEPT ![p] = 0]
  /\ todo' = [todo EXCEPT ![p] = Tail(@)]
  /\ UNCHANGED <<putting, dirs, phase, build, number, publishing, result>>

(* A value file cannot be opened or read: Write leaves, its builder with it.*)
CannotReadValues(p) ==
  /\ build[p] = "writing" /\ builder[p] = "open"
  /\ Fails(p)
  /\ UNCHANGED <<putting, dirs, phase, todo, builder, file, number, tables, torn, publishing, result>>

(* done.fetch_add and progress, which may ask to cancel.                   *)
EndPrefix(p) ==
  /\ build[p] = "writing" /\ todo[p] = <<>>
  /\ \/ build' = [build EXCEPT ![p] = "done"]
     \/ Fails(p)
  /\ UNCHANGED <<putting, dirs, phase, todo, builder, file, number, tables, torn, publishing, result>>

-------------------------------------------------------------------------------
(* close, from the end of the Reduce on.                                   *)

Joinable == InFlight = {} /\ (Idle = {} \/ Errors # {})

JoinPrefixes ==
  /\ phase = "building" /\ Joinable
  /\ IF Errors # {}
     THEN Ends("error") /\ DropDirs
     ELSE phase' = "manifest" /\ UNCHANGED <<dirs, result>>
  /\ UNCHANGED <<putting, building, publishing>>

Largest(set) == CHOOSE x \in set : \A y \in set : y <= x

NextFile == IF Numbers = {} THEN 1 ELSE Largest(Numbers) + 1

WriteManifest(answer) ==
  /\ phase = "manifest"
  /\ IF answer = "ok"
     THEN /\ manifest' = [files |-> Numbers, nextFile |-> NextFile, lastSequence |-> sequence]
          /\ phase' = "current"
          /\ UNCHANGED <<dirs, result>>
     ELSE Ends("error") /\ DropDirs /\ UNCHANGED manifest
  /\ UNCHANGED <<putting, building, current>>

(* An error may come before, within or after the write.                    *)
WriteCurrent(answer) ==
  /\ phase = "current"
  /\ current' \in IF answer = "ok" THEN {"whole"} ELSE {"none", "torn", "whole"}
  /\ Ends(answer)
  /\ DropDirs
  /\ UNCHANGED <<putting, building, manifest>>

(* ~ConcurrentDb abandons the writers that nobody drained.                 *)
Destroy ==
  /\ phase = "returned"
  /\ phase' = "gone"
  /\ DropDirs
  /\ UNCHANGED <<putting, building, publishing, result>>

Answers == {"ok", "error"}

Putting == \E t \in Threads, k \in Keys : Put(t, k) \/ PutCannotOpen(t, k) \/ PutFails(t, k)

Closing == CancelClose \/ CloseWriters \/ Abandon \/ \E a \in Answers : CloseEmpty(a)

Prefix(p) ==
  \/ StartPrefix(p) \/ CannotReadKeys(p) \/ DrawNumber(p) \/ OpenTable(p)
  \/ FinishTable(p) \/ CannotReadValues(p) \/ EndPrefix(p)

Publishing == JoinPrefixes \/ \E a \in Answers : WriteManifest(a) \/ WriteCurrent(a)

Next == Putting \/ Closing \/ (\E p \in Byte : Prefix(p)) \/ Publishing \/ Destroy

Spec == Init /\ [][Next]_vars

(* The threads of the Reduce and the owner, once it closes, keep running.  *)
FairSpec ==
  /\ Spec
  /\ \A p \in Byte : WF_vars(Prefix(p))
  /\ WF_vars(Publishing) /\ WF_vars(Destroy)

-------------------------------------------------------------------------------
(* Writers, tables and the owner's phase; a file number in use is below    *)
(* the next one to draw.                                                   *)
TypeOK ==
  /\ sequence \in 0..MaxPuts
  /\ writer \in [Threads -> {"none", "open", "broken"}]
  /\ held \in [Threads -> SUBSET Records]
  /\ dirs \subseteq Threads
  /\ accepted \subseteq Records /\ lost \in BOOLEAN
  /\ phase \in {"open", "building", "manifest", "current", "returned", "gone"}
  /\ build \in [Byte -> {"idle", "writing", "done", "error"}]
  /\ builder \in [Byte -> {"none", "open", "closed"}]
  /\ file \in [Byte -> 0..number-1]
  /\ number \in Nat \ {0}
  /\ torn \subseteq Numbers
  /\ current \in {"none", "torn", "whole"}
  /\ result \in {"none", "ok", "error"}

Inside(r, i) == r \in ToSet(tables[i])

(* The keys of a table ascend, and a newer record of the same key comes    *)
(* first: AddAlreadyCompressedAndFlush requires "key is after any          *)
(* previously added key according to comparator".                          *)
TablesSorted ==
  \A i \in Numbers : \A j \in 2..Len(tables[i]) :
    LET a == tables[i][j - 1]  b == tables[i][j]
    IN \/ Less(a.key, b.key)
       \/ a.key = b.key /\ a.sequence > b.sequence

(* A reader takes the tables of level 1 to be sorted and disjoint: of two  *)
(* of them all keys of one are below all keys of the other.  No record is  *)
(* in two of them, then.                                                   *)
LevelSorted ==
  /\ TablesSorted
  /\ \A i, j \in Numbers :
       i # j => \/ Less(Last(tables[i]).key, Head(tables[j]).key)
                \/ Less(Last(tables[j]).key, Head(tables[i]).key)

(* Whenever the database can be opened, at any moment of close, MANIFEST   *)
(* is complete, its tables are on disk, no record has a sequence beyond    *)
(* LastSequence and no table a number the reader would use again.          *)
CurrentLast ==
  current = "whole" =>
    /\ manifest # NoManifest
    /\ manifest.files \subseteq Numbers
    /\ \A i \in manifest.files :
         /\ i < manifest.nextFile
         /\ \A r \in ToSet(tables[i]) : r.sequence <= manifest.lastSequence

(* A table's index and footer are written last: nothing in a file that came *)
(* short can be read.                                                      *)
Visible ==
  IF current = "whole" THEN UNION {ToSet(tables[i]) : i \in manifest.files \ torn} ELSE {}

Store == INSTANCE BulkStore WITH
  pending <- accepted, broken <- lost, spoiled <- torn # {},
  published <- Visible, answer <- result

(* A reader sees all that was collected, or nothing, unless a file came    *)
(* short unnoticed; and nothing at all if a put was lost.                  *)
StoreSpec == Store!Spec

(* close comes to an end, also when a prefix fails or is cancelled.        *)
CloseReturns == phase = "building" ~> phase = "gone"

===============================================================================
