---------------------------- MODULE UuidReplacer ----------------------------
(***************************************************************************)
(* je2be::java::UuidReplacer::Run, the repair tool behind j2j-uuid: it     *)
(* reads a table of player UUIDs, replaces every reference in the files of *)
(* a Java world and renames the players' files.  Each rename of the file   *)
(* system is a step: any may fail, and the program may be killed between   *)
(* two of them and started again with the same table.                      *)
(*                                                                         *)
(* The world is a partial function from paths to contents.  A path is      *)
(* <<name, kind, number>>, where the kind is "file" or tells the siblings   *)
(* of a file that the program makes.  A content is whose data it is (of)   *)
(* and the player it refers to (ref).                                      *)
(***************************************************************************)
EXTENDS Naturals, Sequences, SequencesExt

CONSTANTS Uuids,        \* the UUIDs, positive numbers
          Names,        \* the names a player's file may have, in sort order
          UuidOf,       \* the UUID a name spells
          Canonical,    \* the name Uuid::toString gives a UUID
          Host,         \* the player level.dat refers to
          Csvs,         \* the tables: sequences of pairs, Bad for no UUID
          Worlds,       \* the sets of player files a world may start with
          MaxRuns, MaxFaults \* bounds: runs on one world, failing calls

Bad == 0
Level == 0              \* level.dat; sorted before the player files
Torn == Bad             \* the reference in a file that was only partly written

ASSUME UuidConstants ==
    /\ Uuids \subseteq Nat \ {Bad}
    /\ Names \subseteq Nat \ {Level} /\ IsFiniteSet(Names)
    /\ UuidOf \in [Names -> Uuids]
    /\ Canonical \in [Uuids -> Names]
    /\ \A u \in Uuids : UuidOf[Canonical[u]] = u
    /\ Host \in Uuids
    /\ Worlds \subseteq SUBSET Names
    /\ Csvs \subseteq Seq((Uuids \cup {Bad}) \X (Uuids \cup {Bad}))
    /\ MaxRuns \in Nat \ {0} /\ MaxFaults \in Nat

VARIABLES
    fs,        \* the files of the world
    original,  \* the files before the first run (history)
    rows, dry, \* the table and the option fDryRun
    pc, ok,    \* where Run is, and what it returned when pc = "done"
    todo,      \* the files still to be processed
    ops, k,    \* the renames, and the one whose turn it is
    count,     \* result.fChangedFiles and result.fRenamedFiles
    runs, faults, past, \* history: runs so far, failed calls, what happened
    short      \* whose data a writer cut short without noticing (history)

vars == <<fs, original, rows, dry, pc, ok, todo, ops, k, count, runs, faults, past, short>>

\* What a run is given, and whose data it has cut short.
given == <<original, rows, dry, short>>

-----------------------------------------------------------------------------
(* The table.                                                              *)

\* ReadMapping refuses an empty table, an invalid UUID, a source that
\* appears twice and a destination that appears twice.
TableRefused(table) ==
    \/ table = <<>>
    \/ \E i \in DOMAIN table : Bad \in ToSet(table[i])
    \/ \E i, j \in DOMAIN table : i < j /\ table[i][1] = table[j][1]
    \/ \E i, j \in DOMAIN table : i < j /\ table[i][2] = table[j][2]

\* What is left of the table: rows that map a UUID to itself are dropped.
Mapping(table) ==
    LET kept == {r \in ToSet(table) : r[1] # r[2]}
    IN  [u \in {r[1] : r \in kept} |-> (CHOOSE r \in kept : r[1] = u)[2]]

FindMapped(u) == LET map == Mapping(rows)
                 IN  IF u \in DOMAIN map THEN map[u] ELSE u

Refers(content) == content.ref \in DOMAIN Mapping(rows)

\* Mutant: the rows are applied one after the other.
ReplacedInTurn(content) == [content EXCEPT !.ref = FindMapped(FindMapped(@))]

\* ReplaceTag and ReplaceText: every reference is replaced by its image in
\* the table, once.
Replaced(content) == [content EXCEPT !.ref = FindMapped(@)]

-----------------------------------------------------------------------------
(* The file system.                                                        *)

Without(f, p) == Restrict(f, DOMAIN f \ {p})

\* fs::rename replaces the file at the destination.
Moved(f, from, to) ==
    [p \in (DOMAIN f \ {from}) \cup {to} |-> f[IF p = to THEN from ELSE p]]

\* The renames that restore something do nothing when their source is gone.
MovedBack(f, from, to) == IF from \in DOMAIN f THEN Moved(f, from, to) ELSE f

At(name) == <<name, "file", 0>>

\* std::sort.
InOrder(names) ==
    CHOOSE s \in [1 .. Cardinality(names) -> names] : \A i, j \in DOMAIN s : i < j => s[i] < s[j]

Present(name) == At(name) \in DOMAIN fs

\* UniqueSibling: the first free number.
Sibling(name, kind) ==
    LET Free(i) == <<name, kind, i>> \notin DOMAIN fs
    IN  <<name, kind, CHOOSE i \in 0 .. MaxRuns : Free(i) /\ \A j \in 0 .. i - 1 : ~Free(j)>>

-----------------------------------------------------------------------------
(* The renames.                                                            *)

\* The player's files whose name spells a UUID of the table.
Renamed == {n \in Names : Present(n) /\ FindMapped(UuidOf[n]) # UuidOf[n]}

Target(n) == Canonical[FindMapped(UuidOf[n])]

\* Mutant: an existing file that is not renamed itself does not matter.
TargetTakenNever(n) == FALSE

TargetTaken(n) == Present(Target(n)) /\ Target(n) \notin Renamed

\* PlanRenames returns an error.
PlanRefused ==
               \/ \E m, n \in Renamed : m # n /\ Target(m) = Target(n)
               \/ \E n \in Renamed : TargetTaken(n)

Planned == [i \in 1 .. Cardinality(Renamed) |->
               LET n == InOrder(Renamed)[i]
               IN  [from |-> At(n), to |-> At(Target(n)), tmp |-> At(n)]]

\* The undo loop renames the last installed file first, back onto its old
\* name.  Installed earlier, another player's file may already be there.
Overtaken == \E i, j \in 1 .. k - 1 : i < j /\ ops[i].to = ops[j].from

-----------------------------------------------------------------------------
Init ==
    /\ \E w \in Worlds :
          original = [n \in w \cup {Level} |->
              [of |-> n, ref |-> IF n = Level THEN Host ELSE UuidOf[n]]]
    /\ fs = [p \in {At(n) : n \in DOMAIN original} |-> original[p[1]]]
    /\ rows \in Csvs /\ dry \in BOOLEAN
    /\ pc = "start" /\ ok = TRUE
    /\ todo = <<>> /\ ops = <<>> /\ k = 1
    /\ count = [changed |-> 0, renamed |-> 0]
    /\ runs = 1 /\ faults = 0 /\ past = {} /\ short = {}

\* A call that fails. Every failure is one of MaxFaults.
Fault == faults < MaxFaults /\ faults' = faults + 1

Fail == pc' = "done" /\ ok' = FALSE

File == At(Head(todo))

\* Run checks the world, reads the table, lists the files and plans.
Start ==
    /\ pc = "start"
    /\ Present(Level) /\ ~TableRefused(rows) /\ ~PlanRefused
    /\ todo' = InOrder({n \in Names \cup {Level} : Present(n)})
    /\ ops' = Planned
    /\ k' = 1 /\ pc' = "visit"
    /\ count' = [changed |-> 0, renamed |-> 0]
    /\ UNCHANGED <<fs, given, ok, runs, faults, past>>

Refuse ==
    /\ pc = "start"
    /\ \/ /\ Present(Level) /\ ~TableRefused(rows) => PlanRefused
          /\ UNCHANGED faults
       \/ Fault
    /\ Fail
    /\ UNCHANGED <<fs, given, todo, ops, k, count, runs, past>>

\* ProcessNbt, ProcessJson and ProcessMca of the next file, up to the
\* decision to write it.
Visit ==
    /\ pc = "visit" /\ todo # <<>> /\ fs[File].ref # Torn
    /\ count' = [count EXCEPT !.changed = IF Refers(fs[File]) THEN @ + 1 ELSE @]
    /\ IF Refers(fs[File]) /\ ~dry THEN pc' = "write" /\ UNCHANGED todo
                                   ELSE todo' = Tail(todo) /\ UNCHANGED pc
    /\ UNCHANGED <<fs, given, ok, ops, k, runs, faults, past>>

\* The file cannot be read, or it is in pieces and cannot be parsed.
CannotRead ==
    /\ pc = "visit" /\ todo # <<>> /\ Fail
    /\ Fault \/ (fs[File].ref = Torn /\ UNCHANGED faults)
    /\ UNCHANGED <<fs, given, todo, ops, k, count, runs, past>>

-----------------------------------------------------------------------------
(* WriteAtomically.                                                        *)

Temporary == Sibling(Head(todo), "write")
Written == <<Head(todo), "write", Temporary[3] - 1>>     \* the last one made
Backup == Sibling(Head(todo), "backup")
SetAside == <<Head(todo), "backup", Backup[3] - 1>>

WriteTemporary ==
    /\ pc = "write"
    /\ fs' = [p \in DOMAIN fs \cup {Temporary} |->
                 IF p = Temporary THEN Replaced(fs[File]) ELSE fs[p]]
    /\ pc' = "aside"
    /\ UNCHANGED <<given, ok, todo, ops, k, count, runs, faults, past>>

Cut(content) == [content EXCEPT !.ref = Torn]

\* What a failed or interrupted writer may leave beside the file.
TornTemporary == [p \in DOMAIN fs \cup {Temporary} |->
                     IF p = Temporary THEN Cut(fs[File]) ELSE fs[p]]

\* The writers answer before their stream is flushed and closed, and nobody
\* asks the stream again: the temporary file is cut short, but Run goes on.
WriteShort ==
    /\ pc = "write" /\ Fault
    /\ fs' = TornTemporary /\ short' = short \cup {fs[File].of}
    /\ pc' = "aside"
    /\ UNCHANGED <<original, rows, dry, ok, todo, ops, k, count, runs, past>>

\* The writer fails; the remains are removed, or stay when that fails too.
CannotWrite ==
    /\ pc = "write" /\ Fault /\ Fail
    /\ fs' \in {fs, TornTemporary}
    /\ UNCHANGED <<given, todo, ops, k, count, runs, past>>

PutAside ==
    /\ pc = "aside"
    /\ fs' = Moved(fs, File, Backup)
    /\ pc' = "install"
    /\ UNCHANGED <<given, ok, todo, ops, k, count, runs, faults, past>>

CannotPutAside ==
    /\ pc = "aside" /\ Fault /\ Fail
    /\ fs' \in {fs, Without(fs, Written)}
    /\ UNCHANGED <<given, todo, ops, k, count, runs, past>>

Install ==
    /\ pc = "install"
    /\ fs' = Moved(fs, Written, File)
    /\ pc' = "cleanup"
    /\ UNCHANGED <<given, ok, todo, ops, k, count, runs, faults, past>>

CannotInstall ==
    /\ pc = "install" /\ Fault
    /\ pc' = "restore"
    /\ UNCHANGED <<fs, given, ok, todo, ops, k, count, runs, past>>

\* Back to the original file; both calls ignore their errors.
Restore ==
    /\ pc = "restore"
    /\ \/ /\ fs' \in {Moved(fs, SetAside, File), Without(Moved(fs, SetAside, File), Written)}
          /\ UNCHANGED <<faults, past>>
       \/ Fault /\ fs' = Without(fs, Written) /\ past' = past \cup {"undo_failed"}
    /\ Fail
    /\ UNCHANGED <<given, todo, ops, k, count, runs>>

RemoveBackup ==
    /\ pc = "cleanup"
    /\ \/ /\ fs' = Without(fs, SetAside)
          /\ todo' = Tail(todo) /\ pc' = "visit"
          /\ UNCHANGED <<ok, faults>>
       \/ Fault /\ Fail /\ UNCHANGED <<fs, todo>>
    /\ UNCHANGED <<given, ops, k, count, runs, past>>

-----------------------------------------------------------------------------
(* ApplyRenames: all files to temporary names, then all to their targets.  *)

BeginRenames ==
    /\ pc = "visit" /\ todo = <<>>
    /\ count' = [count EXCEPT !.renamed = Len(ops)]
    /\ IF dry THEN pc' = "done" /\ ok' = TRUE ELSE pc' = "stage" /\ UNCHANGED ok
    /\ UNCHANGED <<fs, given, todo, ops, k, runs, faults, past>>

Stage ==
    /\ pc = "stage" /\ k <= Len(ops)
    /\ LET temporary == Sibling(ops[k].from[1], "rename")
       IN  /\ fs' = Moved(fs, ops[k].from, temporary)
           /\ ops' = [ops EXCEPT ![k].tmp = temporary]
    /\ k' = k + 1
    /\ UNCHANGED <<given, pc, ok, todo, count, runs, faults, past>>

\* Mutant: the last file that was staged is forgotten.
CannotStageForgets ==
    /\ pc = "stage" /\ k <= Len(ops) /\ Fault
    /\ pc' = "unstage" /\ k' = IF k > 1 THEN k - 2 ELSE 0
    /\ UNCHANGED <<fs, given, ok, todo, ops, count, runs, past>>

CannotStage ==
    /\ pc = "stage" /\ k <= Len(ops) /\ Fault
    /\ pc' = "unstage" /\ k' = k - 1
    /\ UNCHANGED <<fs, given, ok, todo, ops, count, runs, past>>

Staged ==
    /\ pc = "stage" /\ k > Len(ops)
    /\ pc' = "name" /\ k' = 1
    /\ UNCHANGED <<fs, given, ok, todo, ops, count, runs, faults, past>>

InstallName ==
    /\ pc = "name" /\ k <= Len(ops)
    /\ fs' = Moved(fs, ops[k].tmp, ops[k].to)
    /\ k' = k + 1
    /\ UNCHANGED <<given, pc, ok, todo, ops, count, runs, faults, past>>

CannotInstallName ==
    /\ pc = "name" /\ k <= Len(ops) /\ Fault
    /\ pc' = "unname" /\ k' = k - 1
    /\ past' = IF Overtaken THEN past \cup {"overtaken"} ELSE past
    /\ UNCHANGED <<fs, given, ok, todo, ops, count, runs>>

Succeed ==
    /\ pc = "name" /\ k > Len(ops)
    /\ pc' = "done" /\ ok' = TRUE
    /\ UNCHANGED <<fs, given, todo, ops, k, count, runs, faults, past>>

\* One rename of an undo loop, from the last file to the first; its error is
\* ignored.
Undo(from, to) ==
    /\ \/ fs' = MovedBack(fs, from, to) /\ UNCHANGED <<faults, past>>
       \/ Fault /\ past' = past \cup {"undo_failed"} /\ UNCHANGED fs
    /\ UNCHANGED <<given, todo, ops, count, runs>>

Unstage ==
    /\ pc = "unstage" /\ k >= 1
    /\ Undo(ops[k].tmp, ops[k].from)
    /\ k' = k - 1 /\ UNCHANGED <<pc, ok>>

\* Installed files first, in reverse; the others, still at their temporary
\* names, after them.
Uninstall ==
    /\ pc = "unname" /\ k >= 1
    /\ Undo(ops[k].to, ops[k].from)
    /\ k' = k - 1 /\ UNCHANGED <<pc, ok>>

\* Whether a file is still at its temporary name, so not installed.
Waiting(i) == ops[i].tmp \in DOMAIN fs

RestoreOthers ==
    /\ pc = "unname" /\ k = 0
    /\ pc' = "unstage_rest" /\ k' = 1 + Len(ops) - Cardinality({i \in DOMAIN ops : Waiting(i)})
    /\ UNCHANGED <<fs, given, ok, todo, ops, count, runs, faults, past>>

RestoreNext ==
    /\ pc = "unstage_rest" /\ k <= Len(ops)
    /\ Undo(ops[k].tmp, ops[k].from)
    /\ k' = k + 1 /\ UNCHANGED <<pc, ok>>

Undone ==
    /\ \/ pc = "unstage" /\ k = 0
       \/ pc = "unstage_rest" /\ k > Len(ops)
    /\ Fail
    /\ UNCHANGED <<fs, given, todo, ops, k, count, runs, faults, past>>

-----------------------------------------------------------------------------
(* The process is killed; the user starts the tool again.                  *)

Crash ==
    /\ pc \notin {"start", "done", "killed"}
    /\ "crash" \notin past
    /\ pc' = "killed" /\ past' = past \cup {"crash"}
    /\ fs' \in IF pc = "write" THEN {fs, TornTemporary} ELSE {fs}
    /\ UNCHANGED <<given, ok, todo, ops, k, count, runs, faults>>

RunAgain ==
    /\ \/ pc = "killed"
       \/ pc = "done" /\ (~ok \/ dry)
    /\ runs < MaxRuns
    /\ runs' = runs + 1 /\ pc' = "start" /\ dry' \in BOOLEAN
    /\ past' = IF dry THEN past ELSE past \cup {"incomplete_run"}
    /\ ok' = TRUE /\ todo' = <<>> /\ ops' = <<>> /\ k' = 1
    /\ count' = [changed |-> 0, renamed |-> 0]
    /\ UNCHANGED <<fs, original, rows, faults, short>>

\* Nothing is left to do.
Over ==
    /\ pc \in {"done", "killed"} /\ UNCHANGED vars

Next ==
    \/ Start \/ Refuse \/ Visit \/ CannotRead
    \/ WriteTemporary \/ WriteShort \/ CannotWrite \/ PutAside \/ CannotPutAside
    \/ Install \/ CannotInstall \/ Restore \/ RemoveBackup
    \/ BeginRenames \/ Stage \/ CannotStage \/ Staged
    \/ InstallName \/ CannotInstallName \/ Succeed
    \/ Unstage \/ Uninstall \/ RestoreOthers \/ RestoreNext \/ Undone
    \/ Crash \/ RunAgain \/ Over

Spec == Init /\ [][Next]_vars

-----------------------------------------------------------------------------
(* Properties.                                                             *)

Kinds == {"file", "write", "backup", "rename"}
Paths == (Names \cup {Level}) \X Kinds \X (0 .. MaxRuns)

TypeOK ==
    /\ DOMAIN fs \subseteq Paths
    /\ \A p \in DOMAIN fs : fs[p] \in [of : DOMAIN original, ref : Uuids \cup {Torn}]
    /\ ToSet(todo) \subseteq Names \cup {Level}
    /\ k \in 0 .. Len(ops) + 1
    /\ count \in [changed : Nat, renamed : Nat]
    /\ short \subseteq DOMAIN original

\* A table in which a UUID is both a source and a destination.
Chained == LET map == Mapping(rows) IN DOMAIN map \cap Range(map) # {}

\* What is where the game looks for it.
Visible == [n \in {m \in Names \cup {Level} : Present(m)} |-> fs[At(n)]]

Rewritten(content) == [of |-> content.of, ref |-> FindMapped(content.ref)]

\* The world with every reference replaced and every player's file under the
\* new name.
Repaired ==
    LET NewName(n) == IF n # Level /\ FindMapped(UuidOf[n]) # UuidOf[n] THEN Target(n) ELSE n
        OldOf(p) == CHOOSE n \in DOMAIN original : NewName(n) = p
    IN  [p \in {NewName(n) : n \in DOMAIN original} |-> Rewritten(original[OldOf(p)])]

\* Run answers Ok only if the world is exactly the repaired one: swaps and
\* cycles of UUIDs are replaced simultaneously, in the files and in their
\* names.  A file that a writer cut short without noticing is the exception:
\* it has its new name, but is in pieces.  A run that was started again after
\* an error gets there too, unless the table is chained, because what the
\* first run replaced is replaced again; nothing is promised after a kill or
\* after an undo that failed, whose files wait under names the tool never
\* looks at.
RealRunRepairs ==
    /\ pc = "done" /\ ok /\ ~dry
    /\ past \cap {"crash", "undo_failed"} = {}
    /\ "incomplete_run" \in past => ~Chained
    => /\ DOMAIN Visible = DOMAIN Repaired
       /\ \A p \in DOMAIN Visible :
              \/ Visible[p] = Repaired[p]
              \/ Repaired[p].of \in short /\ Visible[p] = Cut(Repaired[p])

\* A run that fails leaves every player's file under the name it had, with
\* its references as they were or replaced, and level.dat in its place,
\* whatever renames had been done; only a file that a writer cut short without
\* noticing is in pieces.  Not promised when the undo itself failed, nor when
\* it went over a file (see Overtaken).
ErrorUndone ==
    /\ pc = "done" /\ ~ok /\ runs = 1
    /\ past = {}
    => /\ DOMAIN Visible = DOMAIN original
       /\ \A n \in DOMAIN original :
              \/ Visible[n] \in {original[n], Rewritten(original[n])}
              \/ n \in short /\ Visible[n] = Cut(original[n])

\* At every moment, kills and second runs included, each file's data is
\* somewhere on the disk in one piece, but that of a file which a writer cut
\* short without noticing: its backup is removed.  The other exception is a
\* chained table: the undo of installed renames then overwrites a player's
\* file, when the program was stopped by an error at the third rename or
\* later, or when a rename of the undo failed.
NothingLost ==
    \/ \A n \in DOMAIN original \ short : \E p \in DOMAIN fs : fs[p].of = n /\ fs[p].ref # Torn
    \/ Chained /\ past \cap {"overtaken", "undo_failed"} # {}

\* A dry run leaves the files as they are and counts exactly the files and
\* the renames a run would change.
DryRunExact ==
    /\ pc = "done" /\ ok /\ dry /\ runs = 1
    => /\ Visible = original
       /\ count.changed = Cardinality({n \in DOMAIN original : Refers(original[n])})
       /\ count.renamed = Cardinality(
              {n \in DOMAIN original : n \notin DOMAIN Repaired \/ Repaired[n].of # n})

\* Both kinds of run keep their promise.
OkMeansRepaired == RealRunRepairs /\ DryRunExact
=============================================================================
