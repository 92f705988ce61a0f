------------------------------ MODULE JavaPipeline ------------------------------
(***************************************************************************)
(* java::Converter::Run: the regions of all dimensions are converted by a  *)
(* Parallel::Reduce whose threads put the records of their chunks into one *)
(* ConcurrentDb and the lists of their entities into an EntityStore per    *)
(* dimension; a chunk may list an entity (a leash knot) under a            *)
(* neighbouring chunk, of another region even.  Then the digests of the    *)
(* chunks are gathered from these lists, and what all chunks have in       *)
(* common is written.  The Reduce appears as its contract, at most one     *)
(* region per thread; the database as BulkStore.                           *)
(*                                                                         *)
(* A failure the code answers with an error is a fault; one it drops is a  *)
(* silent fault.  A table that comes short while the database is closed is *)
(* one of these.                                                           *)
(***************************************************************************)
EXTENDS Integers, Sequences, FiniteSets, SequencesExt

CONSTANTS
  Regions,       \* the works, in their order
  ChunksOf,      \* the chunks of each region, in the order of its loops
  Full,          \* the chunks with finished terrain that the filter lets pass
  Entities,
  Attached,      \* those that come from the player's data, not from a chunk
  From,          \* the chunk an entity is converted with
  Home,          \* the chunk whose digest it belongs to
  Concurrency,
  MaxFaults,     \* bound: how many calls fail
  MaxMissing     \* bound: how many records a table that comes short takes away

(* A chunk is <<dimension, x, z>>. *)
Near(c, d) == c[1] = d[1] /\ c[2] - d[2] \in -1..1 /\ c[3] - d[3] \in -1..1

Chunks == UNION {ToSet(ChunksOf[r]) : r \in ToSet(Regions)}

Positions == Int \X Int \X Int

ASSUME JavaAssumption ==
  /\ \A r \in ToSet(Regions) : ChunksOf[r] \in Seq(Positions)
  /\ Full \subseteq Chunks /\ Attached \subseteq Entities
  /\ \A e \in Entities : From[e] \in Chunks /\ Home[e] \in Positions /\ Near(From[e], Home[e])
  /\ Concurrency \in Nat /\ MaxFaults \in Nat /\ MaxMissing \in Nat

WorkerCount == IF Concurrency = 0 THEN 1 ELSE Concurrency

VARIABLES
  phase,        \* where Run is; finally "ok" or "error", what it returned
  imported,     \* the flag "ok", so far: the data packs were imported
  at,           \* where Region::Convert is for each region
  next,         \* the chunk it is at
  bare,         \* the regions whose entity file could not be opened
  left,         \* the entities of the chunk that are not in the database yet
  home,         \* the chunk of the list being made, {} if none
  ids,          \* the list
  sum,          \* the chunks whose WorldData the region has drained
  abortSignal,
  stored,       \* the EntityStores' records: [chunk, from, ids]
  fChunks,      \* the chunks registered in them
  dims, merged, \* the Reduce's total: its dimensions, its chunks' WorldData
  gathered,     \* the dimensions whose digests are done
  digests,      \* the chunks whose digest is left, in the current dimension
  levelData,    \* the chunks drained into LevelData
  cancelled,    \* the user wants to stop: from now on progress answers false
  refused,      \* history: progress has answered false
  faults,       \* history: how many calls have failed
  silent,       \* history: the kinds of those whose failure was dropped
  pending, broken, spoiled, published, answer   \* the database

region == <<at, next, bare, left, home, ids, sum, abortSignal>>
store == <<stored, fChunks>>
total == <<dims, merged>>
tail == <<gathered, digests, levelData>>
db == <<pending, broken, spoiled, published, answer>>
vars == <<phase, imported, region, store, total, tail, cancelled, refused, faults, silent, db>>

Db == INSTANCE BulkStore WITH Records <- {}

Player == <<"player">>
ChunkRecord(c) == <<"chunk", c>>
EntityRecord(e) == <<"entity", e>>
Digest(c, list) == <<"digest", c, list>>
LevelRecord(data) == <<"level", data>>

Init ==
  /\ phase = "preparing"
  /\ imported = TRUE
  /\ at = [r \in ToSet(Regions) |-> "waiting"]
  /\ next = [r \in ToSet(Regions) |-> 1]
  /\ bare = {}
  /\ left = [r \in ToSet(Regions) |-> {}]
  /\ home = [r \in ToSet(Regions) |-> {}]
  /\ ids = [r \in ToSet(Regions) |-> {}]
  /\ sum = [r \in ToSet(Regions) |-> {}]
  /\ abortSignal = FALSE
  /\ stored = {} /\ fChunks = {}
  /\ dims = {} /\ merged = {}
  /\ gathered = {} /\ digests = {} /\ levelData = {}
  /\ cancelled = FALSE /\ refused = FALSE
  /\ faults = 0 /\ silent = {}
  /\ Db!Init

NoFault == UNCHANGED <<faults, silent>>
Fault == faults < MaxFaults /\ faults' = faults + 1 /\ UNCHANGED silent
SilentFault(kind) ==
  /\ faults < MaxFaults
  /\ faults' = faults + 1
  /\ silent' = silent \cup {kind}

(* A record goes to the database, or it is lost and the database broken.   *)
Put(record) == Db!Put(record) /\ NoFault
PutFails == broken' = TRUE /\ UNCHANGED <<pending, spoiled, published, answer>> /\ Fault

(* The user decides to stop.  What asks progress from then on is told so.  *)
Cancel ==
  /\ ~cancelled
  /\ cancelled' = TRUE
  /\ UNCHANGED <<phase, imported, region, store, total, tail, refused, faults, silent, db>>

-------------------------------------------------------------------------------
(* Faulty variants of the definitions below, each a bug that a property    *)
(* must catch.                                                             *)
OwnListOnly(c, from) == from = c

CarriesOn(r) == UNCHANGED <<abortSignal, at, sum>>

CloseGoesOn == FALSE

SlotNotReturned == {r \in ToSet(Regions) : at[r] # "waiting"}

-------------------------------------------------------------------------------
(* Before the Reduce.                                                      *)

(* The lock, the directories, level.dat, the data packs, the database and  *)
(* the entity stores.  Only a failed import of data packs is noticed late. *)
Prepare ==
  /\ phase = "preparing"
  /\ \/ phase' = "player" /\ UNCHANGED imported /\ NoFault
     \/ phase' = "player" /\ imported' = FALSE /\ Fault
     \/ phase' = "failed" /\ UNCHANGED imported /\ Fault
  /\ UNCHANGED <<region, store, total, tail, cancelled, refused, db>>

PutPlayer ==
  /\ phase = "player"
  /\ \/ Put(Player) /\ phase' = "reducing"
     \/ PutFails /\ phase' = "failed"
  /\ UNCHANGED <<imported, region, store, total, tail, cancelled, refused>>

-------------------------------------------------------------------------------
(* Region::Convert and Chunk::Convert.                                     *)

Here(r) == ChunksOf[r][next[r]]

Goes(r, place) == at' = [at EXCEPT ![r] = place]

Running == {r \in ToSet(Regions) : at[r] \notin {"waiting", "left"}}

(* A thread of the Reduce takes the next region. *)
Claim(i) ==
  LET r == Regions[i]
  IN /\ phase = "reducing"
     /\ at[r] = "waiting" /\ \A j \in 1..i-1 : at[Regions[j]] # "waiting"
     /\ Cardinality(Running) < WorkerCount
     /\ Goes(r, "open")
     /\ UNCHANGED <<phase, imported, next, bare, left, home, ids, sum, abortSignal, store,
                    total, tail, cancelled, refused, faults, silent, db>>

(* McaEditor::Open of the terrain and of the entities.  Without terrain    *)
(* the region's result is an empty WorldData.                              *)
Open(r) ==
  /\ at[r] = "open"
  /\ \/ Goes(r, "check") /\ UNCHANGED bare /\ NoFault
     \/ Goes(r, "check") /\ bare' = bare \cup {r} /\ SilentFault("noEntities")
     \/ Goes(r, "join") /\ UNCHANGED bare /\ SilentFault("noTerrain")
  /\ UNCHANGED <<phase, imported, next, left, home, ids, sum, abortSignal, store, total, tail,
                 cancelled, refused, db>>

(* return {}: what the region has collected so far is dropped. *)
Drop(r) == Goes(r, "left") /\ sum' = [sum EXCEPT ![r] = {}]

Check(r) ==
  /\ at[r] = "check"
  /\ IF next[r] > Len(ChunksOf[r])
     THEN Goes(r, "join") /\ UNCHANGED sum
     ELSE IF abortSignal THEN Drop(r)
     ELSE Goes(r, "convert") /\ UNCHANGED sum
  /\ UNCHANGED <<phase, imported, next, bare, left, home, ids, abortSignal, store, total, tail,
                 cancelled, refused, faults, silent, db>>

(* A failing chunk: its error goes into WorldData that nobody reads. *)
Abort(r) == abortSignal' = TRUE /\ Drop(r)

Held(r, c) == {e \in Entities : From[e] = c /\ (r \notin bare \/ e \in Attached)}

(* Everything up to the first put.  A chunk that cannot be serialized is   *)
(* skipped like one that is not there.                                     *)
ConvertChunk(r) ==
  /\ at[r] = "convert"
  /\ \/ /\ Here(r) \in Full
        /\ Goes(r, "putChunk")
        /\ left' = [left EXCEPT ![r] = Held(r, Here(r))]
        /\ UNCHANGED <<sum, abortSignal>> /\ NoFault
     \/ Here(r) \notin Full /\ Goes(r, "report") /\ UNCHANGED <<left, sum, abortSignal>> /\ NoFault
     \/ /\ Here(r) \in Full
        /\ Goes(r, "report")
        /\ UNCHANGED <<left, sum, abortSignal>>
        /\ SilentFault("notSerialized")
     \/ Here(r) \in Full /\ Abort(r) /\ UNCHANGED left /\ SilentFault("chunkFailed")
  /\ UNCHANGED <<phase, imported, next, bare, home, ids, store, total, tail, cancelled, refused, db>>

(* ChunkData::put *)
PutChunk(r) ==
  /\ at[r] = "putChunk"
  /\ \/ Put(ChunkRecord(Here(r))) /\ Goes(r, "entities") /\ UNCHANGED <<sum, abortSignal>>
     \/ PutFails /\ Abort(r)
  /\ UNCHANGED <<phase, imported, next, bare, left, home, ids, store, total, tail, cancelled, refused>>

(* The entities of one chunk after the other, in the order of a hash map;  *)
(* after the last, the chunk's WorldData is drained into the region's.     *)
NextList(r) ==
  /\ at[r] = "entities" /\ home[r] = {}
  /\ IF left[r] = {}
     THEN /\ Goes(r, "report")
          /\ sum' = [sum EXCEPT ![r] = @ \cup {Here(r)}]
          /\ UNCHANGED <<home, ids>>
     ELSE /\ \E h \in {Home[e] : e \in left[r]} : home' = [home EXCEPT ![r] = {h}]
          /\ ids' = [ids EXCEPT ![r] = {}]
          /\ UNCHANGED <<at, sum>>
  /\ UNCHANGED <<phase, imported, next, bare, left, abortSignal, store, total, tail,
                 cancelled, refused, faults, silent, db>>

Unlisted(r) == {e \in left[r] : Home[e] \in home[r]}

(* The actor is listed; its record may fail to be encoded, or to be put.   *)
PutEntity(r) ==
  /\ at[r] = "entities" /\ Unlisted(r) # {}
  /\ LET e == CHOOSE e \in Unlisted(r) : TRUE
     IN /\ left' = [left EXCEPT ![r] = @ \ {e}]
        /\ ids' = [ids EXCEPT ![r] = @ \cup {e}]
        /\ \/ Put(EntityRecord(e)) /\ UNCHANGED <<at, sum, abortSignal>>
           \/ Abort(r) /\ SilentFault("chunkFailed") /\ UNCHANGED db
           \/ Abort(r) /\ PutFails
  /\ UNCHANGED <<phase, imported, next, bare, home, store, total, tail, cancelled, refused>>

(* EntityStore::add: the record, whose failure the caller does not look    *)
(* at, and then, under the lock, the chunk.                                *)
StoreList(r) ==
  /\ at[r] = "entities" /\ home[r] # {} /\ Unlisted(r) = {}
  /\ \/ /\ stored' = stored \cup {[chunk |-> h, from |-> Here(r), ids |-> ids[r]] : h \in home[r]}
        /\ Goes(r, "register")
        /\ UNCHANGED home /\ NoFault
     \/ /\ home' = [home EXCEPT ![r] = {}]
        /\ UNCHANGED <<stored, at>>
        /\ SilentFault("listNotStored")
  /\ UNCHANGED <<phase, imported, next, bare, left, ids, sum, abortSignal, fChunks, total, tail,
                 cancelled, refused, db>>

Register(r) ==
  /\ at[r] = "register"
  /\ fChunks' = fChunks \cup home[r]
  /\ home' = [home EXCEPT ![r] = {}]
  /\ Goes(r, "entities")
  /\ UNCHANGED <<phase, imported, next, bare, left, ids, sum, abortSignal, stored, total, tail,
                 cancelled, refused, faults, silent, db>>

(* progress->reportConvert *)
Report(r) ==
  /\ at[r] = "report"
  /\ refused' = (refused \/ cancelled)
  /\ abortSignal' = (abortSignal \/ cancelled)
  /\ next' = [next EXCEPT ![r] = @ + 1]
  /\ Goes(r, "check")
  /\ UNCHANGED <<phase, imported, bare, left, home, ids, sum, store, total, tail, cancelled, faults,
                 silent, db>>

(* Result::mergeInto *)
Join(r) ==
  /\ at[r] = "join"
  /\ Goes(r, "left")
  /\ dims' = dims \cup {c[1] : c \in ToSet(ChunksOf[r])}
  /\ merged' = merged \cup sum[r]
  /\ UNCHANGED <<phase, imported, next, bare, left, home, ids, sum, abortSignal, store, tail,
                 cancelled, refused, faults, silent, db>>

Reduced ==
  /\ phase = "reducing"
  /\ \A r \in ToSet(Regions) : at[r] = "left"
  /\ phase' = "entities"
  /\ UNCHANGED <<imported, region, store, total, tail, cancelled, refused, faults, silent, db>>

-------------------------------------------------------------------------------
(* After the Reduce.                                                       *)

(* The loop over the total's dimensions: drain, and PutWorldEntities of    *)
(* what the dimension's entity store has registered.                       *)
NextDimension ==
  /\ phase = "entities" /\ digests = {}
  /\ IF gathered = dims
     THEN phase' = "lastReport" /\ UNCHANGED tail
     ELSE \E d \in dims \ gathered :
             /\ \A e \in dims \ gathered : d <= e
             /\ gathered' = gathered \cup {d}
             /\ levelData' = levelData \cup {c \in merged : c[1] = d}
             /\ digests' = {c \in fChunks : c[1] = d}
             /\ UNCHANGED phase
  /\ UNCHANGED <<imported, region, store, total, cancelled, refused, faults, silent, db>>

(* EntityStore::entityUuids: the lists from the 3x3 chunks around c. *)
Around(c, from) == Near(c, from)

Lists(c) == {s \in stored : s.chunk = c /\ Around(c, s.from)}

Ids(lists) == UNION {s.ids : s \in lists}

(* PutChunkEntities.  A list that cannot be read counts as absent. *)
PutDigest(c) ==
  /\ phase = "entities" /\ c \in digests
  /\ digests' = digests \ {c}
  /\ \/ /\ \/ Ids(Lists(c)) # {} /\ Put(Digest(c, Ids(Lists(c))))
           \/ Ids(Lists(c)) = {} /\ UNCHANGED db /\ NoFault
           \/ \E s \in Lists(c) :
                /\ LET rest == Ids(Lists(c) \ {s})
                   IN IF rest = {} THEN UNCHANGED db ELSE Db!Put(Digest(c, rest))
                /\ SilentFault("listNotRead")
        /\ refused' = (refused \/ cancelled)
        /\ phase' = IF cancelled THEN "failed" ELSE phase
     \/ PutFails /\ phase' = "failed" /\ UNCHANGED refused
  /\ UNCHANGED <<imported, region, store, total, gathered, levelData, cancelled>>

(* The last reportEntityPostProcess, asked whatever happened before. *)
LastReport ==
  /\ phase = "lastReport"
  /\ refused' = (refused \/ cancelled)
  /\ phase' = IF ~cancelled /\ imported THEN "level" ELSE "failed"
  /\ UNCHANGED <<imported, region, store, total, tail, cancelled, faults, silent, db>>

(* WorldDataOverrideEngine and level.dat, then LevelData::put. *)
WriteLevel ==
  /\ phase = "level"
  /\ \/ Put(LevelRecord(levelData)) /\ phase' = "closing"
     \/ PutFails /\ phase' = "failed"
     \/ Fault /\ phase' = "failed" /\ UNCHANGED db
  /\ UNCHANGED <<imported, region, store, total, tail, cancelled, refused>>

(* ConcurrentDb::close, which asks progress first. *)
CloseStops == cancelled

(* One of its tables comes short, and it does not look. *)
CutTable ==
  /\ phase = "closing" /\ ~CloseStops /\ ~broken
  /\ Db!Spoil /\ SilentFault("tableCut")
  /\ UNCHANGED <<phase, imported, region, store, total, tail, cancelled, refused>>

(* What a reader may see once CURRENT is written. *)
Readable ==
  {pending \ lost : lost \in UNION {kSubset(k, pending) : k \in 0..IF spoiled THEN MaxMissing ELSE 0}}

Close ==
  /\ phase = "closing"
  /\ published' \in {{}} \cup Readable
  /\ refused' = (refused \/ cancelled)
  /\ \/ ~CloseStops /\ Db!Publish /\ phase' = "ok" /\ NoFault
     \/ CloseStops /\ Db!Refuse /\ published' = {} /\ phase' = "error" /\ NoFault
     \/ ~CloseStops /\ broken /\ Db!Refuse /\ phase' = "error" /\ NoFault
     \/ ~CloseStops /\ ~broken /\ Db!Refuse /\ phase' = "error" /\ Fault
  /\ UNCHANGED <<imported, region, store, total, tail, cancelled>>

(* Any return before that, and abandon: the records are deleted. *)
Abandon ==
  /\ phase = "failed"
  /\ Db!Refuse /\ published' = {}
  /\ phase' = "error"
  /\ UNCHANGED <<imported, region, store, total, tail, cancelled, refused, faults, silent>>

Returned == phase \in {"ok", "error"}

Finished == Returned /\ UNCHANGED vars

-------------------------------------------------------------------------------
RegionStep(r) ==
  \/ Open(r) \/ Check(r) \/ ConvertChunk(r) \/ PutChunk(r) \/ NextList(r)
  \/ PutEntity(r) \/ StoreList(r) \/ Register(r) \/ Report(r) \/ Join(r)

RunStep ==
  \/ Prepare \/ PutPlayer
  \/ \E i \in DOMAIN Regions : Claim(i)
  \/ Reduced \/ NextDimension
  \/ \E c \in digests : PutDigest(c)
  \/ LastReport \/ WriteLevel \/ CutTable \/ Close \/ Abandon

Next ==
  \/ Cancel
  \/ \E r \in ToSet(Regions) : RegionStep(r)
  \/ RunStep
  \/ Finished

Spec == Init /\ [][Next]_vars

(* Threads that can run do, and calls return.  The user need not cancel.   *)
FairSpec ==
  /\ Spec
  /\ \A r \in ToSet(Regions) : WF_vars(RegionStep(r))
  /\ WF_vars(RunStep)

-------------------------------------------------------------------------------
(* The database of a complete conversion: a record per chunk and entity,   *)
(* the digests, and what all chunks have in common.                        *)
Present == {e \in Entities : From[e] \in Full}

Whole ==
  {Player, LevelRecord(Full)} \cup {ChunkRecord(c) : c \in Full} \cup
  {EntityRecord(e) : e \in Present} \cup
  {Digest(h, {e \in Present : Home[e] = h}) : h \in {Home[e] : e \in Present}}

(* When Run answers Ok and no failure was dropped on the way, the database *)
(* is complete and exact, however the regions were interleaved: every      *)
(* digest has the entities that other chunks and regions listed for it.    *)
OkMeansWhole == phase = "ok" /\ silent = {} => published = Whole

(* Whatever failed, and whether or not somebody noticed: a published       *)
(* digest names only actors that are in the database too, and the common   *)
(* data stem from chunks that are, unless they were put and went with a    *)
(* table that came short.                                                  *)
NothingDangles ==
  LET kept == IF spoiled THEN pending ELSE published
  IN  \A p \in published :
        /\ p[1] = "digest" => \A e \in p[3] : EntityRecord(e) \in kept /\ Home[e] = p[2]
        /\ p[1] = "level" => \A c \in p[2] : ChunkRecord(c) \in kept

(* Run never answers Ok, nor leaves a database behind, once progress has   *)
(* asked it to stop, although the threads forget why they stopped.         *)
CancelAnswered == refused /\ Returned => phase = "error" /\ published = {}

(* Run returns, whatever fails and whenever it is cancelled. *)
RunReturns == <>Returned

===============================================================================
