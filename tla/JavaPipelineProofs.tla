-------------------------- MODULE JavaPipelineProofs --------------------------
(***************************************************************************)
(* Proofs of three safety properties of java::Converter::Run, for all       *)
(* worlds, any number of threads and failing calls: a cancellation is never*)
(* answered with Ok, although the conversion threads forget why they       *)
(* stopped, and a database that is published is closed under its own       *)
(* references, although failures are dropped on many ways out.             *)
(***************************************************************************)
EXTENDS JavaPipeline, TLAPS

Works == ToSet(Regions)

-------------------------------------------------------------------------------
(* A cancellation is answered.                                             *)

(* progress answers false only once the user has cancelled, the threads    *)
(* work only inside the Reduce, and nobody sees records before the end.    *)
CancelInv ==
  /\ refused => cancelled
  /\ cancelled \in BOOLEAN /\ refused \in BOOLEAN
  /\ DOMAIN at = Works
  /\ \A r \in Works : at[r] \in {"waiting", "left"} \/ phase = "reducing"
  /\ ~Returned => published = {}
  /\ CancelAnswered

LEMMA CancelInit == Init => CancelInv
BY DEF Init, CancelInv, Works, Returned, CancelAnswered, Db!Init

(* A thread at work leaves what Run decides alone. *)
LEMMA CancelRegion ==
  ASSUME CancelInv, NEW r \in Works, RegionStep(r)
  PROVE  CancelInv'
<1>1. phase = "reducing" /\ UNCHANGED <<phase, cancelled, published>>
  BY DEF CancelInv, RegionStep, Open, Check, ConvertChunk, PutChunk, NextList, PutEntity,
         StoreList, Register, Report, Join, Goes, Drop, Abort, Put, PutFails, Db!Put, db, total,
         tail, store
<1>2. DOMAIN at' = Works
  BY DEF CancelInv, RegionStep, Open, Check, ConvertChunk, PutChunk, NextList, PutEntity,
         StoreList, Register, Report, Join, Goes, Drop, Abort, region
<1>3. refused' \in BOOLEAN /\ (refused' => cancelled')
  BY DEF CancelInv, RegionStep, Open, Check, ConvertChunk, PutChunk, NextList, PutEntity,
         StoreList, Register, Report, Join
<1>4. QED
  BY <1>1, <1>2, <1>3 DEF CancelInv, Returned, CancelAnswered

LEMMA CancelRun ==
  ASSUME CancelInv, RunStep
  PROVE  CancelInv'
<1> USE DEF CancelInv, Works, Returned, CancelAnswered
<1>1. CASE Prepare \/ PutPlayer
  BY <1>1 DEF Prepare, PutPlayer, Put, PutFails, Db!Put, db, region
<1>2. ASSUME NEW i \in DOMAIN Regions, Claim(i) PROVE CancelInv'
  BY <1>2 DEF Claim, Goes, db
<1>3. CASE Reduced \/ NextDimension
  BY <1>3 DEF Reduced, NextDimension, region, tail, db
<1>4. ASSUME NEW c \in digests, PutDigest(c) PROVE CancelInv'
  <2>1. published' = published /\ phase' \in {"entities", "failed"} /\ phase = "entities"
    BY <1>4 DEF PutDigest, Put, PutFails, Db!Put, db
  <2>2. UNCHANGED <<at, cancelled>> /\ refused' \in BOOLEAN /\ (refused' => cancelled)
    BY <1>4 DEF PutDigest, region
  <2>3. QED
    BY <2>1, <2>2
<1>5. CASE LastReport
  BY <1>5 DEF LastReport, region, db
<1>6. CASE WriteLevel
  BY <1>6 DEF WriteLevel, Put, PutFails, Db!Put, region, db
<1>7. CASE Close
  BY <1>7 DEF Close, CloseStops, region
<1>8. CASE Abandon
  BY <1>8 DEF Abandon, region
<1>9. CASE CutTable
  BY <1>9 DEF CutTable, Db!Spoil, region
<1>10. QED
  BY <1>1, <1>2, <1>3, <1>4, <1>5, <1>6, <1>7, <1>8, <1>9 DEF RunStep

LEMMA CancelStep == CancelInv /\ [Next]_vars => CancelInv'
<1> SUFFICES ASSUME CancelInv, [Next]_vars PROVE CancelInv'
  OBVIOUS
<1>1. CASE Cancel
  BY <1>1 DEF Cancel, CancelInv, Works, Returned, CancelAnswered, region, db
<1>2. CASE UNCHANGED vars
  BY <1>2 DEF vars, CancelInv, Works, Returned, CancelAnswered, region, db
<1>3. CASE Finished
  BY <1>2, <1>3 DEF Finished
<1>4. QED
  BY <1>1, <1>2, <1>3, CancelRegion, CancelRun DEF Next, Works

(* Converter::Run never answers Ok, nor leaves a database behind, once     *)
(* progress has asked it to stop: each later report asks again.            *)
THEOREM CancelAnsweredCorrect == Spec => []CancelAnswered
<1>1. CancelInv => CancelAnswered
  BY DEF CancelInv
<1>2. QED
  BY <1>1, CancelInit, CancelStep, PTL DEF Spec

-------------------------------------------------------------------------------
(* What is published is closed under its references.                       *)

Encoded(list) == \A e \in list : EntityRecord(e) \in pending

Serialized(chunks) == \A c \in chunks : ChunkRecord(c) \in pending

Closed(records) ==
  \A p \in records :
    /\ p[1] = "digest" => \A e \in p[3] : EntityRecord(e) \in records /\ Home[e] = p[2]
    /\ p[1] = "level" => \A c \in p[2] : ChunkRecord(c) \in records

(* A thread that makes a list has put every entity of it, all of one chunk,*)
(* and before them the chunk it is at.                                     *)
ListMade(r) ==
  /\ at[r] \in {"entities", "register"} =>
       /\ ChunkRecord(Here(r)) \in pending
       /\ home[r] # {} => Encoded(ids[r])
       /\ \E h : home[r] \subseteq {h} /\ \A e \in ids[r] : h \in home[r] => Home[e] = h
  /\ at[r] \notin {"entities", "register", "left"} => home[r] = {}

ListsMade == \A r \in Works : ListMade(r)

ListsStored == \A s \in stored : Encoded(s.ids) /\ \A e \in s.ids : Home[e] = s.chunk

(* Collected on the way to the record of what all chunks have in common.   *)
CollectedPut ==
  /\ \A r \in Works : Serialized(sum[r])
  /\ Serialized(merged) /\ Serialized(levelData)

Domains ==
  /\ DOMAIN at = Works /\ DOMAIN home = Works /\ DOMAIN ids = Works
  /\ DOMAIN sum = Works /\ DOMAIN next = Works /\ DOMAIN left = Works

(* A reader sees nothing before the end, and nothing that was not put.      *)
Seen ==
  published = {} \/
    (answer # "none" /\ published \subseteq pending /\ (spoiled \/ published = pending))

DangleInv ==
  /\ Domains
  /\ ListsMade /\ ListsStored /\ CollectedPut
  /\ Closed(pending)
  /\ Seen

LEMMA DangleSuffices == DangleInv => NothingDangles
BY DEF DangleInv, Seen, Closed, NothingDangles

LEMMA DangleInit == Init => DangleInv
BY DEF Init, DangleInv, Domains, ListMade, ListsMade, ListsStored, CollectedPut, Closed, Encoded, Serialized, Works,
       Seen, Db!Init

-------------------------------------------------------------------------------
(* The steps of a thread.                                                  *)

LEMMA RegionFrame ==
  ASSUME DangleInv, NEW r \in Works, RegionStep(r)
  PROVE  /\ Domains'
         /\ \A v \in Works \ {r} :
              UNCHANGED <<at[v], home[v], ids[v], sum[v], next[v]>>
         /\ pending \subseteq pending' /\ UNCHANGED <<levelData, spoiled, published, answer>>
         /\ pending' # pending => answer = "none"
<1> USE DEF DangleInv, Domains, Works, Goes, Drop, Abort
<1>1. CASE Open(r) \/ Check(r) \/ NextList(r) \/ StoreList(r) \/ Register(r) \/ Report(r) \/ Join(r)
  BY <1>1 DEF Open, Check, NextList, StoreList, Register, Report, Join, db, tail
<1>2. CASE ConvertChunk(r)
  BY <1>2 DEF ConvertChunk, db, tail
<1>3. CASE PutChunk(r)
  BY <1>3 DEF PutChunk, Put, PutFails, Db!Put, tail
<1>4. CASE PutEntity(r)
  BY <1>4 DEF PutEntity, Put, PutFails, Db!Put, db, tail
<1>5. QED
  BY <1>1, <1>2, <1>3, <1>4 DEF RegionStep

(* Whatever step a thread takes, the others lose nothing they rely on.     *)
LEMMA OthersKeep ==
  ASSUME DangleInv, NEW r \in Works, NEW v \in Works \ {r},
         UNCHANGED <<at[v], home[v], ids[v], sum[v], next[v]>>, pending \subseteq pending'
  PROVE  ListMade(v)' /\ Serialized(sum[v])'
<1>1. ListMade(v) /\ Serialized(sum[v])
  BY DEF DangleInv, ListsMade, CollectedPut
<1>2. Here(v)' = Here(v)
  BY DEF Here
<1>3. QED
  BY <1>1, <1>2 DEF ListMade, Encoded, Serialized

(* A chunk or an entity refers to nothing. *)
LEMMA PlainRecord ==
  ASSUME Closed(pending), NEW x, x[1] \notin {"digest", "level"}
  PROVE  Closed(pending \cup {x})
BY DEF Closed

LEMMA ClosedStep ==
  ASSUME DangleInv, NEW r \in Works, RegionStep(r)
  PROVE  Closed(pending)'
<1>1. Closed(pending)
  BY DEF DangleInv
<1>2. \/ pending' = pending
      \/ \E c : pending' = pending \cup {ChunkRecord(c)}
      \/ \E e : pending' = pending \cup {EntityRecord(e)}
  BY DEF RegionStep, Open, Check, ConvertChunk, NextList, StoreList, Register, Report, Join,
         PutChunk, PutEntity, Put, PutFails, Db!Put, db
<1>3. QED
  BY <1>1, <1>2, PlainRecord DEF Closed, ChunkRecord, EntityRecord

(* What the steps of a thread do to its list. *)
LEMMA ListStep ==
  ASSUME DangleInv, NEW r \in Works, RegionStep(r)
  PROVE  ListMade(r)'
<1>1. ListMade(r) /\ pending \subseteq pending'
  BY RegionFrame DEF DangleInv, ListsMade
<1> USE DEF DangleInv, Domains, Works, Goes, Drop, Abort, ListMade, Encoded, Here
<1>2. CASE Open(r) \/ Check(r) \/ ConvertChunk(r) \/ Report(r) \/ Join(r)
  BY <1>1, <1>2 DEF Open, Check, ConvertChunk, Report, Join
<1>3. CASE PutChunk(r)
  <2>1. UNCHANGED <<home, ids, next>> /\ home[r] = {}
    BY <1>3, <1>1 DEF PutChunk
  <2>2. \/ at'[r] = "entities" /\ ChunkRecord(Here(r)) \in pending'
        \/ at'[r] = "left"
    <3>1. CASE Put(ChunkRecord(Here(r))) /\ at' = [at EXCEPT ![r] = "entities"]
      BY <3>1 DEF Put, Db!Put
    <3>2. CASE at' = [at EXCEPT ![r] = "left"]
      BY <3>2
    <3>3. QED
      BY <1>3, <3>1, <3>2 DEF PutChunk
  <2>3. QED
    BY <2>1, <2>2
<1>4. CASE NextList(r)
  BY <1>4, <1>1 DEF NextList
<1>5. CASE PutEntity(r)
  BY <1>5, <1>1 DEF PutEntity, Put, Db!Put, Unlisted
<1>6. CASE StoreList(r)
  BY <1>6, <1>1 DEF StoreList
<1>7. CASE Register(r)
  BY <1>7, <1>1 DEF Register
<1>8. QED
  BY <1>2, <1>3, <1>4, <1>5, <1>6, <1>7 DEF RegionStep

LEMMA StoredStep ==
  ASSUME DangleInv, NEW r \in Works, RegionStep(r)
  PROVE  ListsStored'
<1>1. ListMade(r) /\ ListsStored /\ pending \subseteq pending'
  BY RegionFrame DEF DangleInv, ListsMade
<1>2. \/ stored' = stored
      \/ /\ at[r] = "entities" /\ home[r] # {}
         /\ stored' = stored \cup
                        {[chunk |-> h, from |-> Here(r), ids |-> ids[r]] : h \in home[r]}
  BY DEF RegionStep, Open, Check, ConvertChunk, NextList, StoreList, Register, Report, Join,
         PutChunk, PutEntity, store
<1>3. QED
  BY <1>1, <1>2 DEF ListsStored, ListMade, Encoded

LEMMA CollectedStep ==
  ASSUME DangleInv, NEW r \in Works, RegionStep(r)
  PROVE  Serialized(sum[r])' /\ Serialized(merged)' /\ Serialized(levelData)'
<1>1. /\ ListMade(r) /\ Serialized(sum[r]) /\ Serialized(merged) /\ Serialized(levelData)
      /\ pending \subseteq pending' /\ UNCHANGED levelData
  BY RegionFrame DEF DangleInv, ListsMade, CollectedPut
<1>2. \/ sum'[r] = sum[r]
      \/ sum'[r] = {}
      \/ at[r] = "entities" /\ sum'[r] = sum[r] \cup {Here(r)}
  BY DEF RegionStep, Open, Check, ConvertChunk, NextList, StoreList, Register, Report, Join,
         PutChunk, PutEntity, Drop, Abort, DangleInv, Domains
<1>3. merged' = merged \/ merged' = merged \cup sum[r]
  BY DEF RegionStep, Open, Check, ConvertChunk, NextList, StoreList, Register, Report, Join,
         PutChunk, PutEntity, total
<1>4. QED
  BY <1>1, <1>2, <1>3 DEF Serialized, ListMade

LEMMA DangleRegion ==
  ASSUME DangleInv, NEW r \in Works, RegionStep(r)
  PROVE  DangleInv'
<1>1. Domains'
  BY RegionFrame
<1>2. ASSUME NEW v \in Works PROVE ListMade(v)' /\ Serialized(sum[v])'
  BY RegionFrame, OthersKeep, ListStep, CollectedStep
<1>3. ListsMade' /\ CollectedPut'
  BY <1>2, CollectedStep DEF ListsMade, CollectedPut, Works
<1>4. Seen'
  BY RegionFrame DEF DangleInv, Seen
<1>5. QED
  BY <1>1, <1>3, <1>4, ClosedStep, StoredStep DEF DangleInv

-------------------------------------------------------------------------------
(* The steps of Run.                                                       *)

LEMMA DigestRecord ==
  ASSUME Closed(pending), NEW c, NEW list, Encoded(list), \A e \in list : Home[e] = c
  PROVE  Closed(pending \cup {Digest(c, list)})
BY DEF Closed, Digest, Encoded

LEMMA LevelDataRecord ==
  ASSUME Closed(pending), NEW data, Serialized(data)
  PROVE  Closed(pending \cup {LevelRecord(data)})
BY DEF Closed, LevelRecord, Serialized

(* The lists of a chunk hold its own entities, all of them put.            *)
LEMMA ListsOfChunk ==
  ASSUME ListsStored, NEW c, NEW lists \in SUBSET Lists(c)
  PROVE  Encoded(Ids(lists)) /\ \A e \in Ids(lists) : Home[e] = c
BY DEF ListsStored, Lists, Ids, Encoded

(* Outside of the threads, a step changes only what it adds to the records *)
(* and to levelData.                                                       *)
LEMMA RecordsGrow ==
  ASSUME DangleInv, UNCHANGED <<at, home, ids, sum, next, left, stored, merged>>,
         pending \subseteq pending', Serialized(levelData)', Closed(pending)',
         Seen'
  PROVE  DangleInv'
<1>1. ListsMade' /\ ListsStored'
  BY DEF DangleInv, ListsMade, ListMade, ListsStored, Encoded, Here, Works
<1>2. CollectedPut'
  BY DEF DangleInv, CollectedPut, Serialized, Works
<1>3. Domains'
  BY DEF DangleInv, Domains, Works
<1>4. QED
  BY <1>1, <1>2, <1>3 DEF DangleInv

LEMMA DangleDigest ==
  ASSUME DangleInv, NEW c \in digests, PutDigest(c)
  PROVE  DangleInv'
<1>1. UNCHANGED <<at, home, ids, sum, next, left, stored, merged, levelData>>
  BY DEF PutDigest, region, store, total
<1>2. /\ UNCHANGED <<spoiled, published>> /\ answer' = answer /\ pending \subseteq pending'
      /\ pending' = pending \/ answer = "none"
  BY DEF PutDigest, Put, PutFails, Db!Put, db
<1>3. \/ pending' = pending
      \/ \E lists \in SUBSET Lists(c) : pending' = pending \cup {Digest(c, Ids(lists))}
  BY DEF PutDigest, Put, PutFails, Db!Put, db
<1>4. Closed(pending)'
  BY <1>3, ListsOfChunk, DigestRecord DEF DangleInv, Closed
<1>5. QED
  BY <1>1, <1>2, <1>4, RecordsGrow DEF DangleInv, Seen, CollectedPut, Serialized

LEMMA DangleRun ==
  ASSUME DangleInv, RunStep
  PROVE  DangleInv'
<1>0. Closed(pending) /\ Serialized(merged) /\ Serialized(levelData)
  BY DEF DangleInv, CollectedPut
<1>1. CASE Prepare \/ Reduced \/ LastReport
  BY <1>1, <1>0, RecordsGrow DEF Prepare, Reduced, LastReport, region, store, total, tail, db,
     DangleInv, Seen, Serialized, Closed
<1>2. CASE PutPlayer
  <2>1. /\ UNCHANGED <<at, home, ids, sum, next, left, stored, merged, levelData, spoiled, published, answer>>
        /\ pending' = pending \/ (answer = "none" /\ pending' = pending \cup {Player})
    BY <1>2 DEF PutPlayer, Put, PutFails, Db!Put, region, store, total, tail
  <2>2. Closed(pending)'
    BY <2>1, <1>0, PlainRecord DEF Player, Closed
  <2>3. QED
    BY <2>1, <2>2, <1>0, RecordsGrow DEF DangleInv, Seen, Serialized
<1>3. ASSUME NEW i \in DOMAIN Regions, Claim(i) PROVE DangleInv'
  <2>1. /\ UNCHANGED <<home, ids, sum, next, left, stored, merged, levelData, db>>
        /\ at[Regions[i]] = "waiting" /\ at' = [at EXCEPT ![Regions[i]] = "open"]
    BY <1>3 DEF Claim, Goes, store, total, tail
  <2>2. ListsMade'
    BY <2>1 DEF DangleInv, Domains, ListsMade, ListMade, Encoded, Here, Works, db
  <2>3. ListsStored' /\ CollectedPut' /\ Domains'
    BY <2>1 DEF DangleInv, Domains, ListsStored, CollectedPut, Encoded, Serialized, Works, db
  <2>4. QED
    BY <2>1, <2>2, <2>3, <1>0 DEF DangleInv, Seen, Closed, db
<1>4. CASE NextDimension
  <2>1. /\ UNCHANGED <<region, stored, merged, db>>
        /\ \A c \in levelData' : c \in levelData \/ c \in merged
    BY <1>4 DEF NextDimension, store, total, tail
  <2>2. QED
    BY <2>1, <1>0, RecordsGrow DEF DangleInv, Seen, Serialized, region, db, Closed
<1>5. ASSUME NEW c \in digests, PutDigest(c) PROVE DangleInv'
  BY <1>5, DangleDigest
<1>6. CASE WriteLevel
  <2>1. /\ UNCHANGED <<at, home, ids, sum, next, left, stored, merged, levelData, spoiled, published, answer>>
        /\ \/ pending' = pending
           \/ answer = "none" /\ pending' = pending \cup {LevelRecord(levelData)}
    BY <1>6 DEF WriteLevel, Put, PutFails, Db!Put, region, store, total, tail, db
  <2>2. Closed(pending)'
    BY <2>1, <1>0, LevelDataRecord DEF Closed
  <2>3. QED
    BY <2>1, <2>2, <1>0, RecordsGrow DEF DangleInv, Seen, Serialized
<1>7. CASE Close \/ Abandon
  <2>1. /\ UNCHANGED <<at, home, ids, sum, next, left, stored, merged, levelData, pending>>
        /\ answer' # "none" /\ spoiled' = spoiled /\ published' \in {{}} \cup Db!Readable
    BY <1>7 DEF Close, Abandon, Db!Publish, Db!Refuse, region, store, total, tail
  <2>2. Seen'
    BY <2>1 DEF Seen, Db!Readable
  <2>3. QED
    BY <2>1, <2>2, <1>0, RecordsGrow DEF Serialized, Closed
<1>8. CASE CutTable
  <2>1. /\ UNCHANGED <<at, home, ids, sum, next, left, stored, merged, levelData, pending>>
        /\ UNCHANGED <<published, answer>> /\ answer = "none"
    BY <1>8 DEF CutTable, Db!Spoil, region, store, total, tail
  <2>2. Seen'
    BY <2>1 DEF Seen, DangleInv
  <2>3. QED
    BY <2>1, <2>2, <1>0, RecordsGrow DEF Serialized, Closed
<1>9. QED
  BY <1>1, <1>2, <1>3, <1>4, <1>5, <1>6, <1>7, <1>8 DEF RunStep

LEMMA DangleStep == DangleInv /\ [Next]_vars => DangleInv'
<1> SUFFICES ASSUME DangleInv, [Next]_vars PROVE DangleInv'
  OBVIOUS
<1>0. Serialized(levelData) /\ Closed(pending)
  BY DEF DangleInv, CollectedPut
<1>1. CASE Cancel \/ Finished \/ UNCHANGED vars
  <2>1. UNCHANGED <<region, store, total, tail, db>>
    BY <1>1 DEF Cancel, Finished, vars
  <2>2. QED
    BY <2>1, <1>0, RecordsGrow DEF region, store, total, tail, db, DangleInv, Seen, Serialized, Closed
<1>2. QED
  BY <1>1, DangleRegion, DangleRun DEF Next, Works

(* Whatever failed, noticed or not, and however threads were interleaved,  *)
(* the digests and the common data of a published database refer only to   *)
(* records that are in it, or went with a table that came short: threads   *)
(* list an entity after putting it.                                        *)
THEOREM NothingDanglesCorrect == Spec => []NothingDangles
BY DangleInit, DangleStep, DangleSuffices, PTL DEF Spec

-------------------------------------------------------------------------------
(***************************************************************************)
(* A conversion java::Converter::Run answers with Ok, none of whose        *)
(* failures was dropped, leaves exactly the database of the world: for     *)
(* every world, any number of threads and however they are interleaved.    *)
(* The proof is an account of what each chunk has contributed so far, as   *)
(* long as nothing went wrong.                                             *)
(***************************************************************************)

(* Nothing has gone wrong so far. *)
Good == silent = {} /\ ~broken /\ ~cancelled

Of(c) == {e \in Entities : From[e] = c}

Homes == {Home[e] : e \in Present}

ExactDigest(h) == Digest(h, {e \in Present : Home[e] = h})

(* An entity that the digest of its chunk will name, and its own record.   *)
Listed(e) == \E s \in stored : s.chunk = Home[e] /\ s.from = From[e] /\ e \in s.ids

Filed(e) == EntityRecord(e) \in pending /\ Listed(e) /\ Home[e] \in fChunks

(* A chunk that has contributed all it has to.                             *)
Handled(c) == ChunkRecord(c) \in pending /\ \A e \in Of(c) : Filed(e)

-------------------------------------------------------------------------------
(* The account.                                                            *)

(* Where a thread can be, and with which chunk.                            *)
InPlace(r) ==
  /\ next[r] \in 1..Len(ChunksOf[r]) + 1
  /\ at[r] \in {"waiting", "open", "check", "convert", "putChunk", "entities", "register",
                "report", "join", "left"}
  /\ at[r] \in {"convert", "putChunk", "entities", "register", "report"} =>
       next[r] \in 1..Len(ChunksOf[r])
  /\ at[r] \in {"putChunk", "entities", "register"} => Here(r) \in Full
  /\ at[r] \in {"join", "left"} => next[r] = Len(ChunksOf[r]) + 1

(* What it has left behind is handled.                                     *)
PastHandled(r) ==
  \A i \in 1..next[r] - 1 :
    ChunksOf[r][i] \in Full => Handled(ChunksOf[r][i]) /\ ChunksOf[r][i] \in sum[r]

(* An entity of the current chunk that was put is filed, or on the list    *)
(* that is being made or stored.                                           *)
OnItsWay(r, e) ==
  /\ EntityRecord(e) \in pending
  /\ \/ Filed(e)
     \/ /\ Home[e] \in home[r]
        /\ at[r] = "entities" => e \in ids[r]
        /\ at[r] = "register" => Listed(e)

(* The chunk a thread is at: what is left of it, and what is under way.    *)
HereHandled(r) ==
  /\ at[r] = "putChunk" => left[r] = Of(Here(r))
  /\ at[r] \in {"entities", "register"} =>
       /\ ChunkRecord(Here(r)) \in pending
       /\ left[r] \subseteq Of(Here(r))
       /\ home[r] # {} => ids[r] \subseteq Of(Here(r))
       /\ home[r] \subseteq {Home[e] : e \in Of(Here(r))}
       /\ \A e \in Of(Here(r)) \ left[r] : OnItsWay(r, e)
  /\ at[r] = "report" /\ Here(r) \in Full => Handled(Here(r)) /\ Here(r) \in sum[r]

(* What a finished region has joined to the total.                         *)
Delivered(r) ==
  /\ sum[r] \subseteq Full
  /\ at[r] = "left" => sum[r] \subseteq merged /\ {c[1] : c \in ToSet(ChunksOf[r])} \subseteq dims

Thread(r) == InPlace(r) /\ PastHandled(r) /\ HereHandled(r) /\ Delivered(r)

(* Nothing is there that does not belong there. *)
Sound ==
  /\ abortSignal = FALSE /\ bare = {}
  /\ \A s \in stored : s.ids \subseteq Present
  /\ fChunks \subseteq Homes
  /\ merged \subseteq Full
  /\ pending \subseteq Whole

AllHandled == \A c \in Full : Handled(c) /\ c \in merged /\ c[1] \in dims

(* The three stages of Run: threads at work, digests being gathered, and   *)
(* all of them there.                                                      *)
Early == phase \in {"preparing", "player", "reducing"}

Working ==
  /\ \A r \in Works : Thread(r)
  /\ gathered = {} /\ digests = {} /\ levelData = {}
  /\ phase = "reducing" => Player \in pending

Gathering ==
  /\ AllHandled /\ Player \in pending
  /\ levelData = {c \in Full : c[1] \in gathered}
  /\ \A h \in Homes : h[1] \in gathered => h \in digests \/ ExactDigest(h) \in pending

Gathered ==
  /\ AllHandled /\ Player \in pending
  /\ levelData = Full
  /\ \A h \in Homes : ExactDigest(h) \in pending
  /\ phase = "closing" => LevelRecord(Full) \in pending

Exact ==
  /\ Sound
  /\ Early => Working
  /\ phase = "entities" => Gathering
  /\ phase \in {"lastReport", "level", "closing"} => Gathered

(* A table that came short is a failure that was dropped.                  *)
Dropped == spoiled => silent # {}

(* The invariant: as long as nothing went wrong, the account is exact.     *)
WholeInv == CancelInv /\ DangleInv /\ OkMeansWhole /\ Dropped /\ (Good => Exact)

-------------------------------------------------------------------------------
(* The steps of a thread.                                                  *)

(* What has gone wrong stays so. *)
LEMMA GoodBefore ==
  ASSUME Good', Next \/ UNCHANGED vars
  PROVE  Good
<1>1. CASE \E r \in Works : RegionStep(r)
  BY <1>1 DEF Good, RegionStep, Open, Check, ConvertChunk, PutChunk, NextList, PutEntity,
     StoreList, Register, Report, Join, NoFault, Fault, SilentFault, Put, PutFails, Db!Put, db
<1>2. CASE RunStep
  <2>0. ASSUME NEW c \in digests, PutDigest(c) PROVE silent = {}
    BY <2>0 DEF Good, PutDigest, NoFault, Fault, SilentFault, Put, PutFails
  <2>1. silent = {} /\ ~cancelled
    <3>1. silent = {}
      BY <1>2, <2>0 DEF Good, RunStep, Prepare, PutPlayer, Claim, Reduced, NextDimension,
         LastReport, WriteLevel, CutTable, Close, Abandon, NoFault, Fault, SilentFault, Put,
         PutFails
    <3>2. ~cancelled
      BY <1>2 DEF Good, RunStep, Prepare, PutPlayer, Claim, Reduced, NextDimension, PutDigest,
         LastReport, WriteLevel, CutTable, Close, Abandon
    <3>3. QED
      BY <3>1, <3>2
  <2>2. ~broken
    BY <1>2 DEF Good, RunStep, Prepare, PutPlayer, Claim, Reduced, NextDimension, PutDigest,
       LastReport, WriteLevel, CutTable, Close, Abandon, Put, PutFails, Db!Put, Db!Spoil, Db!Publish,
       Db!Refuse, db
  <2>3. QED
    BY <2>1, <2>2 DEF Good
<1>3. CASE Cancel \/ Finished \/ UNCHANGED vars
  BY <1>3 DEF Good, Cancel, Finished, vars, db
<1>4. QED
  BY <1>1, <1>2, <1>3 DEF Next, Works

(* While nothing goes wrong, a thread takes one of the ways that do not    *)
(* fail; what is in the database and in the stores stays there.            *)
LEMMA GoodRegion ==
  ASSUME CancelInv, DangleInv, Good', Sound, NEW r \in Works, RegionStep(r)
  PROVE  /\ phase = "reducing" /\ UNCHANGED <<phase, tail, abortSignal, bare>>
         /\ Good
         /\ pending \subseteq pending' /\ stored \subseteq stored' /\ fChunks \subseteq fChunks'
         /\ merged \subseteq merged' /\ dims \subseteq dims'
         /\ \A v \in Works \ {r} :
              UNCHANGED <<at[v], home[v], ids[v], sum[v], next[v], left[v]>>
<1>1. phase = "reducing" /\ UNCHANGED <<phase, tail>>
  BY DEF CancelInv, RegionStep, Open, Check, ConvertChunk, PutChunk, NextList, PutEntity,
         StoreList, Register, Report, Join, tail
<1>2. Good
  BY GoodBefore DEF Next, Works
<1>3. UNCHANGED <<abortSignal, bare>>
  <2>1. CASE Open(r) \/ ConvertChunk(r)
    BY <2>1 DEF Good, Open, ConvertChunk, SilentFault
  <2>2. CASE Report(r)
    BY <2>2, <1>2 DEF Good, Report, Sound
  <2>3. CASE PutChunk(r)
    BY <2>3 DEF Good, PutChunk, PutFails
  <2>4. CASE PutEntity(r)
    BY <2>4 DEF Good, PutEntity, PutFails, SilentFault
  <2>5. QED
    BY <2>1, <2>2, <2>3, <2>4 DEF RegionStep, Check, NextList, StoreList, Register, Join
<1>4. pending \subseteq pending' /\ stored \subseteq stored' /\ fChunks \subseteq fChunks'
  BY RegionFrame DEF RegionStep, Open, Check, ConvertChunk, PutChunk, NextList, PutEntity,
         StoreList, Register, Report, Join, store
<1>5. merged \subseteq merged' /\ dims \subseteq dims'
  BY DEF RegionStep, Open, Check, ConvertChunk, PutChunk, NextList, PutEntity,
         StoreList, Register, Report, Join, total
<1>6. ASSUME NEW v \in Works \ {r} PROVE left'[v] = left[v]
  BY DEF RegionStep, Open, Check, ConvertChunk, PutChunk, NextList, PutEntity,
         StoreList, Register, Report, Join, DangleInv, Domains
<1>7. QED
  BY <1>1, <1>2, <1>3, <1>4, <1>5, <1>6, RegionFrame

(* Only closing cuts a table short, and what was dropped is not forgotten. *)
LEMMA DroppedStep ==
  ASSUME Dropped, Next \/ UNCHANGED vars
  PROVE  Dropped'
<1>1. CASE \E r \in Works : RegionStep(r)
  BY <1>1 DEF Dropped, RegionStep, Open, Check, ConvertChunk, PutChunk, NextList, PutEntity,
     StoreList, Register, Report, Join, NoFault, Fault, SilentFault, Put, PutFails, Db!Put, db
<1>2. CASE RunStep
  <2>1. ASSUME NEW c \in digests, PutDigest(c) PROVE Dropped'
    BY <2>1 DEF Dropped, PutDigest, NoFault, Fault, SilentFault, Put, PutFails, Db!Put, db
  <2>2. CASE CutTable
    BY <2>2 DEF Dropped, CutTable, SilentFault
  <2>3. CASE Close
    BY <2>3 DEF Dropped, Close, NoFault, Fault, Db!Publish, Db!Refuse
  <2>4. QED
    BY <1>2, <2>1, <2>2, <2>3 DEF Dropped, RunStep, Prepare, PutPlayer, Claim, Reduced,
       NextDimension, LastReport, WriteLevel, Abandon, NoFault, Fault, Put, PutFails, Db!Put,
       Db!Refuse, db
<1>3. CASE Cancel \/ Finished \/ UNCHANGED vars
  BY <1>3 DEF Dropped, Cancel, Finished, vars, db
<1>4. QED
  BY <1>1, <1>2, <1>3 DEF Next, Works

(* What is filed stays filed. *)
LEMMA Grow ==
  ASSUME pending \subseteq pending', stored \subseteq stored', fChunks \subseteq fChunks'
  PROVE  /\ \A e : Listed(e) => Listed(e)'
         /\ \A e : Filed(e) => Filed(e)'
         /\ \A c : Handled(c) => Handled(c)'
BY DEF Listed, Filed, Handled

LEMMA OtherThreads ==
  ASSUME NEW v \in Works, Thread(v),
         pending \subseteq pending', stored \subseteq stored', fChunks \subseteq fChunks',
         merged \subseteq merged', dims \subseteq dims',
         UNCHANGED <<at[v], home[v], ids[v], sum[v], next[v], left[v]>>
  PROVE  Thread(v)'
<1>1. Here(v)' = Here(v)
  BY DEF Here
<1>2. InPlace(v)' /\ Delivered(v)'
  BY <1>1 DEF Thread, InPlace, Delivered
<1>3. PastHandled(v)'
  BY Grow DEF Thread, PastHandled
<1>4. ASSUME NEW e, OnItsWay(v, e) PROVE OnItsWay(v, e)'
  BY <1>4, Grow DEF OnItsWay
<1>5. HereHandled(v)'
  BY <1>1, <1>4, Grow DEF Thread, HereHandled
<1>6. QED
  BY <1>2, <1>3, <1>5 DEF Thread

(* The own account of a thread, action by action.                          *)

LEMMA ThreadMoves ==
  ASSUME DangleInv, Sound, Good', NEW r \in Works, Thread(r),
         Open(r) \/ Check(r) \/ ConvertChunk(r) \/ Report(r) \/ Join(r)
  PROVE  Thread(r)'
<1> USE DEF DangleInv, Domains, Goes, Thread
<1>0. Len(ChunksOf[r]) \in Nat
  BY JavaAssumption DEF Works
<1>1. CASE Open(r)
  <2>1. at' = [at EXCEPT ![r] = "check"] /\ UNCHANGED <<home, ids, sum, next, left, store, total, db>>
    BY <1>1 DEF Open, Good, SilentFault
  <2>2. Here(r)' = Here(r) /\ at'[r] = "check"
    BY <2>1 DEF Here
  <2>3. PastHandled(r)'
    BY <2>1, Grow DEF PastHandled, store, db
  <2>4. QED
    BY <1>1, <2>1, <2>2, <2>3 DEF Open, InPlace, HereHandled, Delivered, total
<1>2. CASE Check(r)
  <2>1. /\ UNCHANGED <<home, ids, sum, next, left, store, total, db>>
        /\ \/ next[r] > Len(ChunksOf[r]) /\ at'[r] = "join"
           \/ ~(next[r] > Len(ChunksOf[r])) /\ at'[r] = "convert"
    BY <1>2 DEF Check, Sound
  <2>2. PastHandled(r)'
    BY <2>1, Grow DEF PastHandled, store, db
  <2>3. InPlace(r)'
    BY <2>1, <1>0 DEF InPlace, Here
  <2>4. QED
    BY <2>1, <2>2, <2>3 DEF HereHandled, Delivered, total
<1>3. CASE ConvertChunk(r)
  <2>1. /\ UNCHANGED <<home, ids, sum, next, store, total, db>>
        /\ at[r] = "convert"
        /\ \/ Here(r) \in Full /\ at'[r] = "putChunk" /\ left'[r] = Of(Here(r))
           \/ Here(r) \notin Full /\ at'[r] = "report"
    BY <1>3 DEF ConvertChunk, Sound, Good, SilentFault, Held, Of
  <2>2. PastHandled(r)'
    BY <2>1, Grow DEF PastHandled, store, db
  <2>3. Here(r)' = Here(r)
    BY <2>1 DEF Here
  <2>4. InPlace(r)'
    BY <2>1, <2>3 DEF InPlace
  <2>5. QED
    BY <2>1, <2>2, <2>3, <2>4 DEF HereHandled, Delivered, total, Of
<1>4. CASE Report(r)
  <2>1. /\ UNCHANGED <<home, ids, sum, left, store, total, db>>
        /\ at[r] = "report" /\ at'[r] = "check" /\ next'[r] = next[r] + 1
    BY <1>4 DEF Report
  <2>2. PastHandled(r)'
    <3> SUFFICES ASSUME NEW i \in 1..next'[r] - 1, ChunksOf[r][i] \in Full
                 PROVE  Handled(ChunksOf[r][i])' /\ ChunksOf[r][i] \in sum'[r]
      BY DEF PastHandled
    <3>1. i \in 1..next[r] - 1 \/ i = next[r]
      BY <2>1, <1>0 DEF InPlace
    <3>2. Handled(ChunksOf[r][i]) /\ ChunksOf[r][i] \in sum[r]
      BY <3>1, <2>1 DEF PastHandled, HereHandled, Here
    <3>3. QED
      BY <3>2, <2>1, Grow DEF store, db
  <2>3. InPlace(r)'
    BY <2>1, <1>0 DEF InPlace
  <2>4. QED
    BY <2>1, <2>2, <2>3 DEF HereHandled, Delivered, total
<1>5. CASE Join(r)
  <2>1. /\ UNCHANGED <<home, ids, sum, next, left, store, db>>
        /\ at[r] = "join" /\ at'[r] = "left"
        /\ sum[r] \subseteq merged' /\ {c[1] : c \in ToSet(ChunksOf[r])} \subseteq dims'
    BY <1>5 DEF Join
  <2>2. PastHandled(r)'
    BY <2>1, Grow DEF PastHandled, store, db
  <2>3. QED
    BY <2>1, <2>2 DEF InPlace, HereHandled, Delivered
<1>6. QED
  BY <1>1, <1>2, <1>3, <1>4, <1>5

LEMMA ThreadPutsChunk ==
  ASSUME DangleInv, Good', NEW r \in Works, Thread(r), PutChunk(r)
  PROVE  Thread(r)'
<1>1. /\ UNCHANGED <<home, ids, sum, next, left, store, total>>
      /\ at[r] = "putChunk" /\ at'[r] = "entities" /\ home[r] = {}
      /\ pending' = pending \cup {ChunkRecord(Here(r))}
  BY DEF PutChunk, Good, Put, PutFails, Db!Put, Goes, DangleInv, Domains, ListsMade, ListMade
<1>2. Here(r)' = Here(r)
  BY <1>1 DEF Here
<1>3. PastHandled(r)'
  BY <1>1, Grow DEF Thread, PastHandled, store
<1>4. HereHandled(r)'
  BY <1>1, <1>2 DEF Thread, HereHandled, Of
<1>5. QED
  BY <1>1, <1>2, <1>3, <1>4 DEF Thread, InPlace, Delivered, total

LEMMA ThreadTakesList ==
  ASSUME DangleInv, NEW r \in Works, Thread(r), NextList(r)
  PROVE  Thread(r)'
<1> USE DEF DangleInv, Domains, Thread
<1>1. UNCHANGED <<next, left, store, total, db>> /\ at[r] = "entities" /\ home[r] = {}
  BY DEF NextList
<1>2. Here(r)' = Here(r) /\ (\A c : Handled(c)' <=> Handled(c)) /\ (\A e : Filed(e)' <=> Filed(e))
  BY <1>1 DEF Here, Handled, Filed, Listed, Of, store, db
<1>3. \A e \in Of(Here(r)) \ left[r] : EntityRecord(e) \in pending /\ Filed(e)
  BY <1>1 DEF HereHandled, OnItsWay
<1>4. CASE left[r] = {}
  <2>1. at'[r] = "report" /\ sum'[r] = sum[r] \cup {Here(r)} /\ Here(r) \in Full
    BY <1>4 DEF NextList, Goes, InPlace
  <2>2. Handled(Here(r))
    BY <1>1, <1>3, <1>4 DEF HereHandled, Handled
  <2>3. PastHandled(r)'
    BY <1>1, <1>2, <2>1 DEF PastHandled
  <2>4. HereHandled(r)'
    BY <1>2, <2>1, <2>2 DEF HereHandled
  <2>5. QED
    BY <1>1, <1>2, <2>1, <2>3, <2>4 DEF InPlace, Delivered, total
<1>5. CASE left[r] # {}
  <2>1. /\ UNCHANGED <<at, sum>> /\ ids'[r] = {}
        /\ \E h \in {Home[e] : e \in left[r]} : home'[r] = {h}
    BY <1>5 DEF NextList
  <2>2. PastHandled(r)'
    BY <1>1, <1>2, <2>1 DEF PastHandled
  <2>3. \A e \in Of(Here(r)) \ left[r] : OnItsWay(r, e)'
    BY <1>1, <1>2, <1>3 DEF OnItsWay, db
  <2>4. HereHandled(r)'
    BY <1>1, <1>2, <2>1, <2>3 DEF HereHandled, Of, db
  <2>5. QED
    BY <1>1, <1>2, <2>1, <2>2, <2>4 DEF InPlace, Delivered, total
<1>6. QED
  BY <1>4, <1>5

LEMMA ThreadPutsEntity ==
  ASSUME DangleInv, Good', NEW r \in Works, Thread(r), PutEntity(r)
  PROVE  Thread(r)'
<1> USE DEF DangleInv, Domains, Thread
<1>1. PICK x \in Unlisted(r) : /\ left'[r] = left[r] \ {x}
                               /\ ids'[r] = ids[r] \cup {x}
                               /\ pending' = pending \cup {EntityRecord(x)}
                               /\ UNCHANGED <<at, sum>>
  BY DEF PutEntity, Good, Put, PutFails, SilentFault, Db!Put
<1>2. UNCHANGED <<next, home, store, total>> /\ at[r] = "entities"
  BY DEF PutEntity
<1>3. x \in left[r] /\ Home[x] \in home[r] /\ x \in Of(Here(r))
  BY <1>2 DEF Unlisted, HereHandled
<1>4. Here(r)' = Here(r) /\ pending \subseteq pending' /\ stored' = stored /\ fChunks' = fChunks
  BY <1>1, <1>2 DEF Here, store
<1>5. PastHandled(r)'
  BY <1>1, <1>2, <1>4, Grow DEF PastHandled
<1>6. ASSUME NEW e \in Of(Here(r)) \ left'[r] PROVE OnItsWay(r, e)'
  <2>1. CASE e = x
    BY <2>1, <1>1, <1>2, <1>3 DEF OnItsWay
  <2>2. CASE e # x
    <3>1. OnItsWay(r, e)
      BY <1>1, <1>2, <2>2, <1>6 DEF HereHandled
    <3>2. QED
      BY <3>1, <1>1, <1>2, <1>4, Grow DEF OnItsWay
  <2>3. QED
    BY <2>1, <2>2
<1>7. HereHandled(r)'
  BY <1>1, <1>2, <1>3, <1>4, <1>6 DEF HereHandled, Of
<1>8. QED
  BY <1>1, <1>2, <1>4, <1>5, <1>7 DEF InPlace, Delivered, total

LEMMA ThreadStoresList ==
  ASSUME DangleInv, Good', NEW r \in Works, Thread(r), StoreList(r)
  PROVE  Thread(r)'
<1> USE DEF DangleInv, Domains, Thread
<1>1. /\ UNCHANGED <<next, home, left, ids, sum, total, fChunks, db>>
      /\ at[r] = "entities" /\ at'[r] = "register" /\ home[r] # {}
      /\ stored' = stored \cup {[chunk |-> h, from |-> Here(r), ids |-> ids[r]] : h \in home[r]}
  BY DEF StoreList, Good, SilentFault, Goes
<1>2. Here(r)' = Here(r) /\ pending' = pending
  BY <1>1 DEF Here, db
<1>3. PastHandled(r)'
  BY <1>1, <1>2, Grow DEF PastHandled
<1>4. ASSUME NEW e \in Of(Here(r)) \ left[r] PROVE OnItsWay(r, e)'
  <2>1. OnItsWay(r, e)
    BY <1>1 DEF HereHandled
  <2>2. CASE Filed(e)
    BY <2>1, <2>2, <1>1, <1>2, Grow DEF OnItsWay
  <2>3. CASE ~Filed(e)
    <3>1. Home[e] \in home[r] /\ e \in ids[r] /\ From[e] = Here(r)
      BY <1>1, <2>1, <2>3 DEF OnItsWay, Of
    <3>2. [chunk |-> Home[e], from |-> Here(r), ids |-> ids[r]] \in stored'
      BY <1>1, <3>1
    <3>3. Listed(e)'
      BY <3>1, <3>2 DEF Listed
    <3>4. QED
      BY <2>1, <3>1, <3>3, <1>1, <1>2 DEF OnItsWay
  <2>4. QED
    BY <2>2, <2>3
<1>5. HereHandled(r)'
  BY <1>1, <1>2, <1>4 DEF HereHandled, Of
<1>6. QED
  BY <1>1, <1>2, <1>3, <1>5 DEF InPlace, Delivered, total

LEMMA ThreadRegisters ==
  ASSUME DangleInv, NEW r \in Works, Thread(r), Register(r)
  PROVE  Thread(r)'
<1> USE DEF DangleInv, Domains, Thread
<1>1. /\ UNCHANGED <<next, left, ids, sum, total, stored, db>>
      /\ at[r] = "register" /\ at'[r] = "entities" /\ home'[r] = {}
      /\ fChunks' = fChunks \cup home[r]
  BY DEF Register, Goes
<1>2. Here(r)' = Here(r) /\ pending' = pending
  BY <1>1 DEF Here, db
<1>3. PastHandled(r)'
  BY <1>1, <1>2, Grow DEF PastHandled
<1>4. ASSUME NEW e \in Of(Here(r)) \ left[r] PROVE OnItsWay(r, e)'
  <2>1. OnItsWay(r, e)
    BY <1>1 DEF HereHandled
  <2>2. Listed(e) /\ EntityRecord(e) \in pending /\ Home[e] \in fChunks'
    BY <2>1, <1>1 DEF OnItsWay, Filed
  <2>3. QED
    BY <2>2, <1>1, <1>2 DEF OnItsWay, Filed, Listed
<1>5. HereHandled(r)'
  BY <1>1, <1>2, <1>4 DEF HereHandled, Of
<1>6. QED
  BY <1>1, <1>2, <1>3, <1>5 DEF InPlace, Delivered, total

(* A chunk with finished terrain contributes what belongs there. *)
LEMMA ContributionSound ==
  ASSUME NEW c \in Full
  PROVE  Of(c) \subseteq Present /\ {Home[e] : e \in Of(c)} \subseteq Homes
BY DEF Of, Present, Homes

LEMMA SoundRegion ==
  ASSUME DangleInv, CancelInv, Good', Sound, NEW r \in Works, Thread(r), RegionStep(r)
  PROVE  Sound'
<1>0. UNCHANGED <<abortSignal, bare>>
  BY GoodRegion
<1>1. at[r] \in {"putChunk", "entities", "register"} => Here(r) \in Full
  BY DEF Thread, InPlace
<1>2. CASE Open(r) \/ Check(r) \/ ConvertChunk(r) \/ Report(r) \/ NextList(r)
  BY <1>0, <1>2 DEF Sound, Open, Check, ConvertChunk, Report, NextList, store, total, db
<1>3. CASE PutChunk(r)
  <2>1. /\ UNCHANGED <<store, total>> /\ Here(r) \in Full
        /\ pending' = pending \cup {ChunkRecord(Here(r))}
    BY <1>1, <1>3 DEF PutChunk, Good, Put, PutFails, Db!Put
  <2>2. ChunkRecord(Here(r)) \in Whole
    BY <2>1 DEF Whole
  <2>3. QED
    BY <1>0, <2>1, <2>2 DEF Sound, store, total, Whole
<1>4. CASE PutEntity(r)
  <2>1. PICK x \in Unlisted(r) : pending' = pending \cup {EntityRecord(x)}
    BY <1>4 DEF PutEntity, Good, Put, PutFails, SilentFault, Db!Put
  <2>2. x \in Present /\ UNCHANGED <<store, total>>
    BY <1>1, <1>4, ContributionSound DEF PutEntity, Unlisted, Thread, HereHandled
  <2>3. EntityRecord(x) \in Whole
    BY <2>2 DEF Whole
  <2>4. QED
    BY <1>0, <2>1, <2>2, <2>3 DEF Sound, store, total, Whole
<1>5. CASE StoreList(r)
  <2>1. /\ UNCHANGED <<fChunks, total, db>> /\ at[r] = "entities" /\ home[r] # {}
        /\ stored' = stored \cup {[chunk |-> h, from |-> Here(r), ids |-> ids[r]] : h \in home[r]}
    BY <1>5 DEF StoreList, Good, SilentFault
  <2>2. ids[r] \subseteq Present
    BY <1>1, <2>1, ContributionSound DEF Thread, HereHandled
  <2>3. QED
    BY <1>0, <2>1, <2>2 DEF Sound, total, db
<1>6. CASE Register(r)
  <2>1. /\ UNCHANGED <<stored, total, db>> /\ at[r] = "register"
        /\ fChunks' = fChunks \cup home[r]
    BY <1>6 DEF Register
  <2>2. home[r] \subseteq Homes
    BY <1>1, <2>1, ContributionSound DEF Thread, HereHandled
  <2>3. QED
    BY <1>0, <2>1, <2>2 DEF Sound, total, db
<1>7. CASE Join(r)
  BY <1>0, <1>7 DEF Join, Sound, Thread, Delivered, store, db
<1>8. QED
  BY <1>2, <1>3, <1>4, <1>5, <1>6, <1>7 DEF RegionStep

LEMMA ExactRegion ==
  ASSUME DangleInv, CancelInv, Good', Good => Exact, NEW r \in Works, RegionStep(r)
  PROVE  Exact'
<1>1. phase = "reducing" /\ phase' = "reducing" /\ UNCHANGED <<gathered, digests, levelData>> /\ Exact
  <2>1. Good
    BY GoodBefore DEF Next, Works
  <2>2. QED
    BY <2>1, GoodRegion DEF Exact, tail
<1>2. Sound /\ Working
  BY <1>1 DEF Exact, Early
<1>3. Thread(r)'
  BY <1>2, ThreadMoves, ThreadPutsChunk, ThreadTakesList, ThreadPutsEntity, ThreadStoresList,
     ThreadRegisters DEF Working, RegionStep
<1>4. ASSUME NEW v \in Works \ {r} PROVE Thread(v)'
  BY <1>2, GoodRegion, OtherThreads DEF Working
<1>5. Working'
  BY <1>1, <1>2, <1>3, <1>4, GoodRegion DEF Working, Works
<1>6. Sound'
  BY <1>2, SoundRegion DEF Working
<1>7. QED
  BY <1>1, <1>5, <1>6 DEF Exact

-------------------------------------------------------------------------------
(* The steps of Run.                                                       *)

(* When all threads are done, all chunks have contributed. *)
LEMMA AllDone ==
  ASSUME Working, \A r \in Works : at[r] = "left"
  PROVE  AllHandled
<1> SUFFICES ASSUME NEW c \in Full PROVE Handled(c) /\ c \in merged /\ c[1] \in dims
  BY DEF AllHandled
<1>1. PICK r \in Works : c \in ToSet(ChunksOf[r])
  BY JavaAssumption DEF Chunks, Works
<1>2. PICK i \in 1..Len(ChunksOf[r]) : c = ChunksOf[r][i]
  BY <1>1, JavaAssumption DEF ToSet, Works
<1>3. Thread(r) /\ at[r] = "left" /\ Len(ChunksOf[r]) \in Nat
  BY JavaAssumption DEF Working, Works
<1>4. i \in 1..next[r] - 1
  BY <1>3 DEF Thread, InPlace
<1>5. Handled(c) /\ c \in sum[r]
  BY <1>2, <1>3, <1>4 DEF Thread, PastHandled
<1>6. QED
  BY <1>1, <1>3, <1>5 DEF Thread, Delivered

LEMMA NearSymmetric ==
  ASSUME NEW c \in Positions, NEW d \in Positions, Near(c, d)
  PROVE  Near(d, c)
BY DEF Positions, Near

(* The lists stored for a chunk name exactly its entities.                 *)
LEMMA ListsComplete ==
  ASSUME AllHandled, Sound, ListsStored, NEW h
  PROVE  Ids(Lists(h)) = {e \in Present : Home[e] = h}
<1>1. ASSUME NEW e \in Ids(Lists(h)) PROVE e \in Present /\ Home[e] = h
  BY <1>1 DEF Ids, Lists, Sound, ListsStored
<1>2. ASSUME NEW e \in Present, Home[e] = h PROVE e \in Ids(Lists(h))
  <2>1. Listed(e)
    BY <1>2 DEF AllHandled, Handled, Filed, Present, Of
  <2>2. Near(h, From[e])
    <3>1. From[e] \in Positions
      BY JavaAssumption DEF Present, Chunks, ToSet
    <3>2. Home[e] \in Positions /\ Near(From[e], Home[e])
      BY JavaAssumption DEF Present
    <3>3. QED
      BY <3>1, <3>2, <1>2, NearSymmetric
  <2>3. QED
    BY <2>1, <2>2, <1>2 DEF Listed, Ids, Lists, Around
<1>3. QED
  BY <1>1, <1>2

(* No chunk that waits for a digest is forgotten by the loop over the      *)
(* dimensions: its dimension is one of the total's.                        *)
LEMMA HomesInDims ==
  ASSUME AllHandled, NEW h \in Homes
  PROVE  h[1] \in dims /\ h \in fChunks
<1>1. PICK e \in Present : h = Home[e]
  BY DEF Homes
<1>2. From[e] \in Full /\ e \in Of(From[e]) /\ Near(From[e], h)
  BY <1>1, JavaAssumption DEF Present, Of
<1>3. From[e][1] \in dims /\ Filed(e)
  BY <1>2 DEF AllHandled, Handled
<1>4. QED
  BY <1>1, <1>2, <1>3 DEF Near, Filed

(* What Run does after the threads takes nothing away from the account.    *)
LEMMA RunFrame ==
  ASSUME Sound, UNCHANGED <<region, store, total>>, pending \subseteq pending', pending' \subseteq Whole
  PROVE  Sound' /\ (AllHandled => AllHandled')
<1>1. \A c : Handled(c) => Handled(c)'
  BY Grow DEF store
<1>2. Sound'
  BY DEF Sound, region, store, total, Whole, Homes, Present
<1>3. QED
  BY <1>1, <1>2 DEF AllHandled, total

LEMMA WorkingKept ==
  ASSUME Working, UNCHANGED <<region, store, total, tail>>, pending \subseteq pending',
         Player \in pending'
  PROVE  Working'
<1>1. ASSUME NEW r \in Works PROVE Thread(r)'
  BY OtherThreads DEF Working, region, store, total
<1>2. QED
  BY <1>1 DEF Working, tail, Works

LEMMA ExactKept ==
  ASSUME Exact, UNCHANGED <<phase, region, store, total, tail, db>>
  PROVE  Exact'
<1>1. Sound' /\ (AllHandled => AllHandled')
  BY RunFrame DEF Exact, Sound, db
<1>2. ASSUME Early PROVE Working'
  <2>1. ASSUME NEW r \in Works PROVE Thread(r)'
    BY <1>2, OtherThreads DEF Exact, Working, region, store, total, db
  <2>2. QED
    BY <1>2, <2>1 DEF Exact, Working, tail, db, Works
<1>3. /\ phase = "entities" => Gathering'
      /\ phase \in {"lastReport", "level", "closing"} => Gathered'
  BY <1>1 DEF Exact, Gathering, Gathered, tail, db, Homes, Present, ExactDigest
<1>4. QED
  BY <1>1, <1>2, <1>3 DEF Exact, Early

LEMMA ExactBefore ==
  ASSUME Good', Exact, DangleInv, Prepare \/ PutPlayer
  PROVE  Exact'
<1>1. Sound /\ Working
  BY DEF Exact, Early, Prepare, PutPlayer
<1>2. CASE Prepare
  <2>1. /\ UNCHANGED <<region, store, total, tail, db>>
        /\ phase' \in {"player", "failed"}
    BY <1>2 DEF Prepare
  <2>2. ASSUME NEW r \in Works PROVE Thread(r)'
    BY <1>1, <2>1, OtherThreads DEF Working, region, store, total, db
  <2>3. Working'
    BY <1>1, <2>1, <2>2 DEF Working, tail, Works
  <2>4. Sound'
    BY <1>1, <2>1, RunFrame DEF Sound, db
  <2>5. QED
    BY <2>1, <2>3, <2>4 DEF Exact
<1>3. CASE PutPlayer
  <2>1. /\ UNCHANGED <<region, store, total, tail>>
        /\ pending' = pending \cup {Player} /\ phase' = "reducing"
    BY <1>3 DEF PutPlayer, Good, Put, PutFails, Db!Put
  <2>2. Sound'
    BY <1>1, <2>1, RunFrame DEF Sound, Whole
  <2>3. Working'
    BY <1>1, <2>1, WorkingKept
  <2>4. QED
    BY <2>1, <2>2, <2>3 DEF Exact
<1>4. QED
  BY <1>2, <1>3

LEMMA ExactClaim ==
  ASSUME Good', Exact, DangleInv, NEW i \in DOMAIN Regions, Claim(i)
  PROVE  Exact'
<1> DEFINE r == Regions[i]
<1>1. /\ UNCHANGED <<next, bare, left, home, ids, sum, abortSignal, store, total, tail, db>>
      /\ at[r] = "waiting" /\ at' = [at EXCEPT ![r] = "open"]
      /\ phase = "reducing" /\ phase' = "reducing" /\ r \in Works
  BY DEF Claim, Goes, Works, ToSet
<1>2. Sound /\ Working /\ at'[r] = "open"
  BY <1>1 DEF Exact, Early, DangleInv, Domains
<1>3. Thread(r)'
  <2>1. PastHandled(r)'
    BY <1>1, <1>2, Grow DEF Working, Thread, PastHandled, store, db
  <2>2. QED
    BY <1>1, <1>2, <2>1 DEF Working, Thread, InPlace, HereHandled, Delivered
<1>4. ASSUME NEW v \in Works \ {r} PROVE Thread(v)'
  BY <1>1, <1>2, OtherThreads DEF Working, store, total, db, DangleInv, Domains
<1>5. Working'
  BY <1>1, <1>2, <1>3, <1>4 DEF Working, tail, db, Works
<1>6. Sound'
  BY <1>1, <1>2 DEF Sound, store, total, db, Whole
<1>7. QED
  BY <1>1, <1>5, <1>6 DEF Exact

LEMMA ExactGathering ==
  ASSUME Good', Exact, DangleInv, Reduced \/ NextDimension
  PROVE  Exact'
<1>0. Sound /\ Sound' /\ (AllHandled => AllHandled')
  BY RunFrame DEF Exact, Sound, Reduced, NextDimension, db
<1>1. CASE Reduced
  <2>1. AllHandled /\ Player \in pending /\ gathered = {} /\ levelData = {}
    BY <1>1, AllDone DEF Reduced, Exact, Early, Working, Works
  <2>2. UNCHANGED <<tail, db>> /\ phase' = "entities"
    BY <1>1 DEF Reduced
  <2>3. Gathering'
    BY <1>0, <2>1, <2>2 DEF Gathering, tail, db
  <2>4. QED
    BY <1>0, <2>2, <2>3 DEF Exact, Early
<1>2. CASE NextDimension
  <2>1. Gathering /\ phase = "entities" /\ digests = {} /\ UNCHANGED <<store, total, db>>
    BY <1>2 DEF NextDimension, Exact
  <2>2. merged = Full
    BY <1>0, <2>1 DEF Gathering, AllHandled, Sound
  <2>3. CASE gathered = dims /\ phase' = "lastReport" /\ UNCHANGED tail
    <3>1. levelData = Full
      BY <2>1, <2>3 DEF Gathering, AllHandled
    <3>2. \A h \in Homes : ExactDigest(h) \in pending
      BY <2>1, <2>3, HomesInDims DEF Gathering
    <3>3. Gathered'
      BY <1>0, <2>1, <2>3, <3>1, <3>2 DEF Gathering, Gathered, tail, db, ExactDigest
    <3>4. QED
      BY <1>0, <2>3, <3>3 DEF Exact, Early
  <2>4. ASSUME NEW d \in dims, gathered' = gathered \cup {d},
               levelData' = levelData \cup {c \in merged : c[1] = d},
               digests' = {c \in fChunks : c[1] = d}, phase' = phase
        PROVE  Exact'
    <3>1. levelData' = {c \in Full : c[1] \in gathered'}
      BY <2>1, <2>2, <2>4 DEF Gathering
    <3>2. ASSUME NEW h \in Homes, h[1] \in gathered'
          PROVE  h \in digests' \/ ExactDigest(h) \in pending'
      BY <2>1, <2>4, <3>2, HomesInDims DEF Gathering, db
    <3>3. Gathering'
      BY <1>0, <2>1, <3>1, <3>2 DEF Gathering, db, Homes, Present, ExactDigest
    <3>4. QED
      BY <1>0, <2>1, <2>4, <3>3 DEF Exact, Early
  <2>5. QED
    BY <1>2, <2>3, <2>4 DEF NextDimension
<1>3. QED
  BY <1>1, <1>2

LEMMA ExactPutDigest ==
  ASSUME Good', Exact, DangleInv, NEW c \in digests, PutDigest(c)
  PROVE  Exact'
<1>1. Gathering /\ Sound /\ phase = "entities" /\ Ids(Lists(c)) = {e \in Present : Home[e] = c}
  BY ListsComplete DEF PutDigest, Exact, Gathering, DangleInv
<1>2. /\ UNCHANGED <<region, store, total, gathered, levelData>> /\ digests' = digests \ {c}
      /\ phase' = phase
      /\ \/ Ids(Lists(c)) # {} /\ pending' = pending \cup {Digest(c, Ids(Lists(c)))}
         \/ Ids(Lists(c)) = {} /\ pending' = pending
  BY DEF PutDigest, Good, Put, PutFails, SilentFault, Db!Put, db
<1>3. pending \subseteq pending' /\ pending' \subseteq Whole
  BY <1>1, <1>2 DEF Sound, Whole
<1>4. Sound' /\ AllHandled'
  BY <1>1, <1>2, <1>3, RunFrame DEF Gathering
<1>5. ASSUME NEW h \in Homes, h[1] \in gathered
      PROVE  h \in digests' \/ ExactDigest(h) \in pending'
  <2>1. CASE h = c
    BY <1>1, <1>2, <2>1 DEF ExactDigest, Homes
  <2>2. CASE h # c
    BY <1>1, <1>2, <1>5, <2>2 DEF Gathering
  <2>3. QED
    BY <2>1, <2>2
<1>6. Gathering'
  BY <1>1, <1>2, <1>3, <1>4, <1>5 DEF Gathering, Homes, Present, ExactDigest
<1>7. QED
  BY <1>1, <1>2, <1>4, <1>6 DEF Exact, Early

LEMMA ExactAfter ==
  ASSUME Good', Exact, DangleInv, LastReport \/ WriteLevel \/ CutTable \/ Close \/ Abandon
  PROVE  Exact'
<1>1. UNCHANGED <<region, store, total, tail>>
  BY DEF LastReport, WriteLevel, CutTable, Close, Abandon
<1>2. Sound
  BY DEF Exact
<1>3. CASE LastReport
  <2>1. Gathered /\ UNCHANGED db /\ phase' \in {"level", "failed"}
    BY <1>3 DEF LastReport, Exact
  <2>2. Sound' /\ AllHandled'
    BY <1>1, <1>2, <2>1, RunFrame DEF Sound, Gathered, db
  <2>3. Gathered'
    BY <1>1, <2>1, <2>2 DEF Gathered, tail, db, ExactDigest
  <2>4. QED
    BY <2>1, <2>2, <2>3 DEF Exact, Early
<1>4. CASE WriteLevel
  <2>1. /\ Gathered
        /\ \/ pending' = pending \cup {LevelRecord(Full)} /\ phase' = "closing"
           \/ pending' = pending /\ phase' = "failed"
    BY <1>4 DEF WriteLevel, Exact, Gathered, Good, Put, PutFails, Db!Put, db
  <2>2. Sound' /\ AllHandled'
    BY <1>1, <1>2, <2>1, RunFrame DEF Sound, Gathered, Whole
  <2>3. phase' = "closing" => Gathered'
    BY <1>1, <2>1, <2>2 DEF Gathered, tail, ExactDigest
  <2>4. QED
    BY <2>1, <2>2, <2>3 DEF Exact, Early
<1>5. CASE Close \/ Abandon
  <2>1. pending' = pending /\ phase' \in {"ok", "error"}
    BY <1>5 DEF Close, Abandon, Db!Publish, Db!Refuse
  <2>2. Sound'
    BY <1>1, <1>2, <2>1, RunFrame DEF Sound
  <2>3. QED
    BY <2>1, <2>2 DEF Exact, Early
<1>6. CASE CutTable
  BY <1>6 DEF CutTable, SilentFault, Good
<1>7. QED
  BY <1>3, <1>4, <1>5, <1>6

(* Everything that belongs there is there. *)
LEMMA GatheredWhole ==
  ASSUME Sound, Gathered, phase = "closing"
  PROVE  pending = Whole
<1>1. \A c \in Full : ChunkRecord(c) \in pending
  BY DEF Gathered, AllHandled, Handled
<1>2. \A e \in Present : EntityRecord(e) \in pending
  BY DEF Gathered, AllHandled, Handled, Filed, Present, Of
<1>3. QED
  BY <1>1, <1>2 DEF Sound, Gathered, Whole, Homes, ExactDigest

-------------------------------------------------------------------------------
(* Only closing answers Ok, and afterwards nothing changes any more.       *)
LEMMA OkStep ==
  ASSUME WholeInv, [Next]_vars
  PROVE  OkMeansWhole'
<1> SUFFICES ASSUME phase' = "ok", silent' = {} PROVE published' = Whole
  BY DEF OkMeansWhole, Whole, Present
<1>1. CASE Close
  <2>1. Good /\ phase = "closing" /\ published' \in Db!Readable
    BY <1>1 DEF Close, CloseStops, Good, NoFault, Db!Publish
  <2>2. published' = pending
    BY <2>1 DEF Good, WholeInv, Dropped, Db!Readable
  <2>3. QED
    BY <2>1, <2>2, GatheredWhole DEF WholeInv, Exact
<1>2. CASE Cancel \/ Finished \/ UNCHANGED vars
  BY <1>2 DEF WholeInv, OkMeansWhole, Cancel, Finished, vars, db
<1>3. CASE \E r \in Works : RegionStep(r)
  BY <1>3 DEF WholeInv, CancelInv, RegionStep, Open, Check, ConvertChunk, PutChunk, NextList,
     PutEntity, StoreList, Register, Report, Join
<1>4. CASE RunStep /\ ~Close
  BY <1>4 DEF RunStep, Prepare, PutPlayer, Claim, Reduced, NextDimension, PutDigest, LastReport,
     WriteLevel, CutTable, Abandon
<1>5. QED
  BY <1>1, <1>2, <1>3, <1>4 DEF Next, Works

LEMMA WholeInit == Init => WholeInv
<1> SUFFICES ASSUME Init PROVE WholeInv
  OBVIOUS
<1>1. ASSUME NEW r \in Works PROVE Thread(r)
  <2>1. Len(ChunksOf[r]) \in Nat
    BY JavaAssumption DEF Works
  <2>2. QED
    BY <2>1 DEF Init, Works, Thread, InPlace, PastHandled, HereHandled, Delivered
<1>2. Sound /\ phase = "preparing"
  BY DEF Init, Sound, Db!Init
<1>3. Exact
  BY <1>1, <1>2 DEF Init, Exact, Working
<1>4. Dropped
  BY DEF Init, Dropped, Db!Init
<1>5. QED
  BY <1>2, <1>3, <1>4, CancelInit, DangleInit DEF WholeInv, OkMeansWhole

LEMMA WholeStep == WholeInv /\ [Next]_vars => WholeInv'
<1> SUFFICES ASSUME WholeInv, [Next]_vars PROVE WholeInv'
  OBVIOUS
<1>1. CancelInv /\ DangleInv /\ (Good => Exact)
  BY DEF WholeInv
<1>2. ASSUME Good' PROVE Exact'
  <2>1. Good /\ Exact
    BY <1>1, <1>2, GoodBefore
  <2>2. CASE \E r \in Works : RegionStep(r)
    BY <1>1, <1>2, <2>2, ExactRegion
  <2>3. CASE RunStep
    BY <1>1, <1>2, <2>1, <2>3, ExactBefore, ExactClaim, ExactGathering, ExactPutDigest, ExactAfter
       DEF RunStep
  <2>4. CASE Cancel
    BY <1>2, <2>4 DEF Cancel, Good
  <2>5. CASE Finished \/ UNCHANGED vars
    BY <2>1, <2>5, ExactKept DEF Finished, vars
  <2>6. QED
    BY <2>2, <2>3, <2>4, <2>5 DEF Next, Works
<1>3. QED
  BY <1>1, <1>2, CancelStep, DangleStep, DroppedStep, OkStep DEF WholeInv

(* When Run answers Ok and no failure was dropped on the way, the database *)
(* holds exactly the records of the world.  Entities that other regions    *)
(* list for a chunk are in its digest, whenever they were listed.          *)
THEOREM OkMeansWholeCorrect == Spec => []OkMeansWhole
<1>1. WholeInv => OkMeansWhole
  BY DEF WholeInv
<1>2. QED
  BY <1>1, WholeInit, WholeStep, PTL DEF Spec

===============================================================================
