# A verification project for je2be-core

je2be converts Minecraft worlds between the Bedrock and Java editions and from the
legacy console editions (Xbox 360, PS3, ...).  A world is large: its regions are
converted by many threads, which share a few small, delicate pieces of machinery: a
fork-join helper, a scheduler, a worker pool, a queue with locks, a database that is
filled without locks.  Around them lies code that must not damage what it is given: an
environment that keeps LevelDB from writing to the user's world, a tool that renames a
world's players in place.  Most of the repository is tables and stateless translations
of NBT data; what is hard to test is the rest, and it is what this project models,
checks and proves.

Paths below are relative to the repository's root.

## 1. The system

| part | state it keeps | operations | who calls it |
| --- | --- | --- | --- |
| fork and join, `src/_parallel.hpp` | `nextIndex`, `cancel`, `status`, `total`, a latch; a sum per worker | `Process`, `Map`, `Reduce` | everything below |
| Terraform region scheduler, `src/bedrock/_terraform-region-scheduler.hpp` | per region two counters and three flags; the number completed; a mutex | `markConverted`, `markCompleted`, `allCompleted` | conversion threads, terraform threads, `Run` |
| Terraform dispatcher, `src/bedrock/_terraform-dispatcher.hpp` | priority queue, `fActive`, `fStatus`, two flags, mutex and condition variable, threads | `enqueue`, `finish`, `run`, destructor | conversion threads, `Run` |
| Bedrock to Java, `src/bedrock-converter.cpp`, `-world.cpp`, `-region.cpp`, `-chunk.cpp` | temporary and final region files, chunk counters, the cancel flag, a `Context` per worker | `Run`, `World::Convert`, `Region::Convert`, `TerraformRegion` | the application |
| Bedrock context, `src/bedrock-context.cpp`, `-chunk.cpp`, `-world.cpp` | leashed animals and knots, vehicles and passengers, players' roots and shoulders, by region; the chunks that hold unresolved entities | `Init` (parallel scan of the database), `AttachPassengers`, `AttachLeash`, `mergeInto`, the second visit of the files | conversion threads, `World::Convert`, `Run` |
| read side of the database, `src/db/_proxy-env.hpp`, `_firewall-env.hpp`, `_readonly-db.hpp`, `_async-iterator.hpp` | a map from file names to copies in a working directory, a mutex; LevelDB's open files | `NewWritableFile`, `NewAppendableFile`, `RenameFile`, `RemoveFile`, reads | LevelDB's caller and its background thread |
| concurrent database, `src/db/_concurrent-db.hpp` | per thread a writer with two files; sequence, writer and file numbers | `put`, `close`, `abandon`, destructor | Java to Bedrock |
| Java to Bedrock, `src/java-converter.cpp`, `-region.cpp`, `-chunk.cpp`, `-world.cpp` | `abortSignal`, `done`, `WorldData`, `LevelData` | `Run`, `Region::Convert`, `PutWorldEntities` | the application |
| entity store, `src/java/_entity-store.hpp` | a small database of lists, the chunks that have one, a mutex | `add`, `entityUuids` | Java to Bedrock |
| registrars, `src/java/_uuid-registrar.hpp`, `_lodestone-registrar.hpp` | maps shared by all conversion threads | `toId`, `get` | Java to Bedrock |
| legacy console editions, `src/lce-world.cpp`, `-terraform.cpp`, `src/_queue2d.hpp`, `src/xbox360-*.cpp`, `src/ps3-*.cpp` | chunk files, region files, a grid of tasks with boolean locks | `World::Convert`, `Terraform::Do`, `Queue2d::next`, `unlockAround` | the application |
| Java player UUID replacement, `src/java-uuid-replacer.cpp` | a table of pairs; players' files and their temporary siblings | `Run`: read the table, rewrite every file, rename the players' files, undo | the command line tool |
| lighting and terraform passes, `src/terraform*` | a chunk and its neighbours | pure functions of block data | terraform threads |
| tables, items, entities, blocks, commands | none | pure functions | chunk conversion |

How they interact, in Bedrock to Java: `Run` starts, for each dimension, the pool of
terraform threads and calls `World::Convert`, whose conversion threads (a
`Parallel::Reduce`) write one temporary file per region.  After each file they call
back into the scheduler and hand the regions it returns to the dispatcher.  A terraform
thread reads the temporary files of the 3x3 neighbourhood, writes the final region, and
calls the scheduler again, which says which temporary files nobody will read any more;
these are deleted.  `Run` then waits for the pool, checks counters and completeness, and
destroys the pool and the temporary directory.  The world itself is read through a
LevelDB that believes it may write.

In Java to Bedrock the threads of a `Parallel::Reduce` convert regions, put records into
the concurrent database, each into files of its own, and lists of entities into an
entity store; afterwards one thread turns the lists into digests and closes the
database, which sorts all records into tables with another `Parallel::Reduce`.

From a console world, chunks become one file each in a temporary directory; the threads
of `Terraform::Do` take them from a `Queue2d`, rewrite each in place after reading its
neighbours, and are kept apart only by the queue's locks; then the files are joined to
regions, lit and moved to their place.

What is hard, part by part, is the list `hazards` of `PROJECT.json`: counters
decremented on the way to an early return; a wakeup taken by the wrong thread; an error
racing another error; work claimed after a cancellation; a file deleted while it is
read, read while it is written, or missing without anybody noticing; a thread's records
lost by a failing write; key ranges that meet at 0xff bytes; an index file published
before its tables; a failure or a cancellation that a thread forgets; a rename that is
undone over another player's file; a lock that one thread clears and another relies on;
an entity that is dropped, or written twice, because a map was gone through in another
order.

What makes each modelled part correct:

* fork and join: every work at most once, every result once, an error if and only if
  a work failed, and the call returns;
* scheduler: a region is handed out once, when its last neighbour is converted, and
  released once, when its last reader is done, whatever the order of the calls;
* dispatcher: nothing accepted is lost, the first error stops the pool, `finish` and the
  destructor return and tell the truth;
* Bedrock to Java: only whole files are read, only unread files are deleted, and `Run`
  answers an error exactly when something went wrong;
* reattachment: every entity that was read ends up in exactly one place;
* read side: the world stays as it was, and LevelDB cannot tell;
* database: a reader sees all records once, or no database, but for a table that a full
  disk cuts short unnoticed;
* Java to Bedrock: Ok means a complete database unless a failure was dropped, whatever
  is published is closed under its own references, a cancellation is never answered Ok;
* console worlds: no thread reads a file in the middle of being written, and Ok means
  that every chunk is there, terraformed and lit;
* UUID replacement: Ok means that references and names are replaced simultaneously, an
  error leaves the names as they were, and no player's data is lost in between, but for a
  file that a full disk cuts short unnoticed.

## 2. The modules

| module | models | correspondence |
| --- | --- | --- |
| `RegionGrid` | the plane of regions | `Hood` is the double loop over dx, dz restricted to existing regions; `Before` its order |
| `RegionFrontier` | abstract specification of the scheduler | no counters: a region is ready when its neighbourhood is converted |
| `TerraformRegionScheduler` | the scheduler | a step is a call, under the mutex; `Reached` and `...Stops` are the loop up to a return in its middle |
| `TerraformDispatcher` | the worker pool | a step is a critical section, or the return of `fProcess`/`fComplete`; `waiting` is the condition variable |
| `ParallelContract` | abstract specification of a fork-join call | runs any works, returns one answer |
| `Parallel` | `Reduce` and `Map` | a step is one atomic operation or critical section of the loop |
| `BedrockPipeline` | one dimension of `Converter::Run` | composes `RegionFrontier` and `TerraformDispatcher` with conversion threads and files |
| `EntityAttachment` | passengers, leashes, players' vehicles and shoulders | a step converts a chunk, merges a region's context, or opens a chunk the second time; nesting is the relation `riding` |
| `PlainFs` | abstract specification of the environment: a plain directory | an operation takes effect when it returns; a failing one spoils at most the file it was to write |
| `ProxyEnv` | `ProxyEnv` over `FirewallEnv` | a step is a section under `fMut` or a call of the real environment; names lead to files of the world or of the working directory |
| `KeyOrder` | byte strings, `strings::Increment`, range tests | pure operators |
| `KeyRanges` | the outer loop of `BuildTable` | extends `ConcurrentDb` by the keys each range takes, and what the ranges promise |
| `BulkStore` | abstract specification of the database | records are collected, then all are published or none; `Spoil` is the exception, a table cut short unnoticed |
| `ConcurrentDb` | the concurrent database | `put` is one step (it touches files of its own and one counter); `close` is one step per shared effect |
| `JavaPipeline` | `java::Converter::Run` with its `EntityStore` | composes regions under conversion with `BulkStore`; a step is a `put`, a registration, a look at `abortSignal` or a callback |
| `Queue2d` | the queue with locks, in the form `lce-terraform.cpp` uses | a step is a call, under the caller's mutex |
| `LegacyTerraform` | `lce::Terraform::Do` | composes `Queue2d` with threads that read and write chunk files |
| `LegacyWorld` | `lce::World::Convert` for one dimension | the phases around `LegacyTerraform`, each a `Parallel::Process` seen through its contract |
| `UuidReplacer` | `java::UuidReplacer::Run` | a step is a file, or one rename of the file system; a run may be killed between two and started again |
| `...Proofs` | the theorems about the module of that name | |
| `ContractProofs` | the theorems about `TerraformRegionScheduler` and `Parallel`, which other modules see through their abstract specifications only | |
| `MC...` | a small instance for TLC | |

How they are composed.  The scheduler appears in `BedrockPipeline` as `RegionFrontier`:
that is sound because `TerraformRegionScheduler` implements it, which is proved for
every set of regions.  The dispatcher appears step by step, because its waiting and its
errors interact with everything else; `DispatcherSpec` says that the composition keeps
to the dispatcher's own specification and is proved, so what is proved of the dispatcher
holds in it.  Spurious wakeups are steps of the dispatcher's own runs and are left out of
the pipeline, where they would multiply its states and allow nothing new: a woken thread
evaluates its predicate again.  `JavaPipeline` sees the database as `BulkStore`, which
`ConcurrentDb` is proved to implement, and the fork-join calls of `JavaPipeline` and
`LegacyWorld` as what `ParallelContract` promises: at most one region per thread, the
first error ends the phase.

Some decisions that a reader may want to question:

* In `BedrockPipeline` a region has a `Weight`, its number of chunks.  A loop over chunks
  is a step that succeeds, fails or is cancelled part of the way, and counts some chunks
  in each case.
* File operations and callbacks answer "ok", "error" or "cancel" at will.  History
  variables remember what went wrong (`trouble`; `faults` and `silent` or `dropped`;
  `past`); no action reads them, but for the bounds.
* A failure that the code answers is a fault; one that it drops (a status nobody looks
  at, a file taken for absent because it could not be opened) is a silent one.  The
  properties of `JavaPipeline` and `LegacyWorld` name the difference.
* The files exist before they are complete (`temp` goes from "none" over "partial" to
  "whole", a chunk file from "raw" over "writing"), because they are opened first.
* `ConcurrentDb` keeps the records of a writer as a set: the order within its files does
  not matter, since they are sorted.  `sort` compares user keys only and is unstable, so
  `SortedByKey` is the set of all orders it may produce.
* A prefix may be started after another one has failed, because a thread looks for an
  error before it claims its next work.
* Some writes fail where the code does not look, on a full disk for instance, and the
  models let them.  `ConcurrentDb::Write` drops the statuses of the last appends, of
  `builder->Finish()` and of `file->Close()` (`_concurrent-db.hpp:838-841`): `FinishTable`
  may leave a table that came short (`torn`), which is listed like the others.  Its index
  and footer would have been last, so nothing in it can be read.  `BulkStore` has it as
  `Spoil`, and so has `JavaPipeline` (`CutTable`).  The writers of `UuidReplacer` answer
  before their streams are flushed and closed (`java-uuid-replacer.cpp:438-444`,
  `:472-476`): `WriteShort` leaves a file in pieces (`Torn`) and goes on; a later run
  cannot parse it.  `short` and `spoiled` remember whose data, or that some data, was cut.
* The temporary directory of a console world is deleted when `World::Convert` is left, by
  a call whose result is ignored (`lce-world.cpp:61`): `Leave` deletes it or does not.
* `ProxyEnv` maps a name to the number of its copy, and lists a name as copied although
  the copy could not be made, as the code does.  LevelDB is assumed not to run two
  operations on one name at a time, and to rename within its directory only.
* In `EntityAttachment` the order of a hash map is any order.
* In `UuidReplacer` a file is the player it belongs to and the player it refers to; names
  are more than UUIDs because a UUID has several spellings.  A kill may come between any
  two steps, and the tool is then started again with the same table.
* `Queue2d` finds its next task by a search of the grid when its lock radius is not zero,
  and by a heap otherwise; only tests use the heap, which is not modelled.

## 3. The runs

| run | instance | what it checks |
| --- | --- | --- |
| `scheduler` | eight regions of a 3x3 block and an isolated one, and a position that is no region; any call at any time | `CountersExact`, `RefusalChangesNothing`, `FrontierSpec` |
| `dispatcher` | three regions (two of equal weight), three workers, spurious wakeups, failures | `ActiveExact`, `NothingLost`, `FinishVerdict`, `NoWorkAfterError`, `FinishReturns`, `DestructorReturns` |
| `parallel` | four works, three workers, both forms | `EachWorkOnce`, `ResultsAccounted`, `ContractSpec`, `CallReturns` |
| `pipeline` | three regions in a row, the middle one heavier; an argument of 4: two conversion and two terraform threads | `SourcesWhole`, `ReleasesValid`, `FilesComplete`, `ResultExact`, `DirOutlivesThreads`, `DispatcherSpec`, `RunReturns` |
| `entity_attachment` | a camel, a boat, a cow, a knot and two players in three chunks of two regions and outside of them | `EntitiesOnce` |
| `leash_knots` | the same, all in one chunk | refutes `LeashesTied` |
| `proxy_env` | two threads, two files of the world and a name elsewhere, a failing call | `WorldUntouched`, `PlainSpec` |
| `database` | two threads, four keys in two prefixes, one prefix in two ranges, tables of size 2; the ranges for two byte values, keys of up to six bytes, depths 0 to 4 | `RangesPartition`, `LevelSorted`, `CurrentLast`, `StoreSpec`, `CloseReturns` |
| `repeated_key` | the same, keys may be put twice | refutes `TablesSorted` |
| `java_pipeline` | three regions of two dimensions, five entities, two threads, two failing calls | `OkMeansWhole`, `NothingDangles`, `CancelAnswered`, `RunReturns` |
| `legacy_world` | a row of four chunks in two regions, one outer region, two threads, two failing calls | `NeighboursWhole`, `WorldExact`, `ConvertReturns` |
| `uuid_replacer` | four UUIDs, five names, twelve tables, two runs on one world, two failing calls, kills | `OkMeansRepaired`, `ErrorUndone`, `NothingLost` |

The type invariants (`TypeOK`, `SchedulerTypeOK`, `TypeInv`) are not checked by these runs; those of
the modules with theorems are part of the inductive invariants of section 4.

Why the bounds are enough.

* In the scheduler's instance one region has all neighbours but one, others lie at edges
  and at a corner of a hole, one has none: every value a counter can start with up to
  eight, and every kind of early return's condition, occur.
* The dispatcher's three workers allow one to fail, one to be busy and one to sleep while
  the owner waits.  `Parallel` needs two errors and a third worker between its look at
  the flag and its claim.
* Three regions in a row are the smallest instance in which two regions share a reader
  but not each other's neighbourhood, so that a file waits for a reader that is not its
  own, two terraform threads complete the last reader of a file in either order, and the
  middle region is converted first although it is second in space.
* In the database's instance a key is shorter than a range's end, one equals it, and one
  value fills a table alone.  `MaxPuts` bounds the numbered records, `MaxTorn` = 1 the
  tables that come short: with two or three tables written, some records are then missing
  and others are there.
* `EntityAttachment`'s worlds have vehicles that are passengers, two players in one
  vehicle, vehicles whose passengers are in another chunk, another region or not
  converted, leashed passengers, and shoulders.
* `ProxyEnv`'s threads are as many as LevelDB has.  `MaxFaults` (failing calls),
  `MaxFiles` (copies) and `MaxLength` (pieces in a file) bound its guards: one failure
  can hit any call, a file can be copied, removed and made anew, and a content that was
  written twice differs from one that was written once.
* `JavaPipeline`'s entities include a knot that belongs to a chunk of another region than
  its animal, a horse that comes with the player's data, and a second dimension, whose
  store is another.  Two failures (`MaxFaults`) are one that is dropped and one that is
  noticed, in either order.  `MaxMissing` = 2 bounds the records that a table which came
  short takes away, enough for a digest to lose the entities it names.
* In a row of four chunks the two at the ends can be terraformed at the same time and
  those in the middle cannot; a thread that fails in one place leaves locks that stop
  another.  `MaxFaults` is as above.
* Four UUIDs allow a swap, a chain, a cycle of three and a bystander, and a second
  spelling of one name.  `MaxRuns` and `MaxFaults` allow a rename to fail, one of the
  undo to fail as well, and the tool to be started again; or a file to be cut short
  unnoticed and a later call to fail.

Deadlock is checked in every run but `proxy_env`, which stops when the bounds are used
up, and those of `ConcurrentDb`, which stops when the database object is gone.  The
others have an explicit step for the finished system.

Fairness.  Each thread is weakly fair in its own steps: the code spawns real threads,
joins them, and holds no lock while it waits, so a thread that can run will; a thread of
`LegacyTerraform` that sleeps because all tasks are locked wakes up.  Callbacks and file
operations are assumed to return.  Nothing is assumed about which answer they give,
whether and when the user cancels, about who calls `enqueue`, `finish` or the destructor
of a dispatcher that stands alone, about `put` and the start of `close`, or about
spurious wakeups.  `scheduler`, `proxy_env`, `entity_attachment`, `uuid_replacer` and the
two refuting runs are about safety only and assume no fairness.

What the properties except, by name.

* `OkMeansWhole` speaks of conversions in which no failure was dropped (`silent` is
  empty), `WorldExact` likewise of completeness (`dropped` is zero).  The code does drop
  such failures: `java-region.cpp:66` lets a chunk that failed end its thread with Ok,
  `java-chunk.cpp:273` ignores the status of `EntityStore::add`, `lce-terraform.cpp:150`
  passes over a chunk file it cannot open.  What still holds then is `NothingDangles`.
  A table of the database that came short is one of these failures too.
* `StoreSpec` promises all or nothing of a database none of whose tables came short
  unnoticed; otherwise a reader may see any part of what was put.  `NothingDangles` says
  of such a database that what its digests name was put.  The tables themselves, their
  numbers and MANIFEST are as `CurrentLast` says in this case too.
* `OkMeansRepaired`, `ErrorUndone` and `NothingLost` speak of a table in which no UUID is
  both source and destination, or of an undo that got through.  In a chain of renames the
  undo of one writes over the file another has installed ("overtaken"); a run started
  again after an error on such a table would replace twice.  A file that a writer cut
  short without noticing (`short`) may be in pieces, its backup removed and the answer Ok:
  the three properties except that file, and promise every other one.
* `EntitiesOnce` allows a copy per player when several players sit in one party of
  vehicles, and promises nothing of a party with a player that is not all in one chunk:
  `bedrock-chunk.cpp:243` takes a player's vehicle out of the file whether or not it
  reached the player.

### What the two refuting runs show

* `repeated_key`: the comments of `ZlibRawTableBuilder` require keys in ascending order;
  the internal order puts the newer of two records with one user key first.  `BuildTable`
  sorts by user key alone, so the order of the two is left to `std::sort`.  A Java world
  with two entities of one UUID produces such records.
* `leash_knots`: a comment at `src/bedrock-entity.cpp:186` says that the leash of an
  animal becomes the position of the knot.  `Chunk::Convert` nests passengers in their
  vehicles before it looks leashed animals up, at the top level only: an animal that
  rides keeps the id of its knot, in the second visit as well.

## 4. The theorems

The proofs hold for every value of the constants: any finite set of regions, any number
of workers and works, any world, any pattern of failures and cancellations.  The bounds
of section 3 are constants of the modules and are arbitrary in the proofs.

`ContractProofs`, the scheduler (its names begin with `Scheduler`, so that the two
components fit in one module).  The invariant is `SchedulerTypeOK`, `CountersExact` and
`AllCompletedExact`.  The step that needs it is the decrement: from "the counter is the
number of unconverted neighbours" follows that it is positive whenever a neighbour is
being converted, so no loop stops in its middle, so a refusal changes nothing
(`RefusalCorrect`), and a counter reaches zero exactly when the neighbourhood is
complete, which is what `RegionFrontier` says (`SchedulerRefinesFrontier`).  Assumption:
the set of regions is finite and its members are pairs of integers.

`ContractProofs`, fork and join.  The inductive invariant is `TypeOK`, `EachWorkOnce` and
`ResultsAccounted`; the last two were written to be inductive and say together where the
result of each work is at each moment.  From them `ParallelImplementsContract` maps
every step to a step of `ParallelContract` or a stutter.

`TerraformDispatcherProofs`.  The inductive invariant joins the named invariants with
the facts that link a worker's position to its region, and `fActive` to the set of busy
workers; cardinality facts come from `FiniteSetTheorems`.  `DeadBranch` shows that one
branch of `run()`, the one for a queue that is not empty after an error, is never taken.

`BedrockPipelineProofs`, in three layers.  `DispatcherSpecCorrect` needs the facts that
make the pipeline a legal user of the dispatcher: a region is in one conversion thread
at a time (`RegionsApart`), is offered only by the thread that converts the last of its
neighbourhood, hence once (`OfferedOnce`), and `Run` calls `finish` after the conversion
threads have ended (`Phases`).  They are proved together with the dispatcher's own
invariant, which is taken over by instantiating its proofs.  On top of that come the
files: a region is completed once, by the worker that has written it; the file of a
converted region is whole until its whole neighbourhood is completed
(`ConvertedWhole`); and a worker about to delete a file is the only one
(`ReleasedOnce`).  `SourcesWholeCorrect` follows because a region being terraformed is
not completed, so no file of its neighbourhood is removed; `ReleasesValidCorrect` and
`DirOutlivesThreadsCorrect` likewise.  What a kept dimension looks like
(`FilesCompleteCorrect`) needs that a file whose readers are all completed is gone,
about to go, or the reason of a failure (`ReadFilesGo`), and that the pool is at rest
from the verdict on (`VerdictFinal`), which is the dispatcher's `FinishVerdict`.  Last
come the failures: whatever goes wrong leaves a trace in the `Reduce`, in what
`World::Convert` returned, in `fStatus`, in a worker about to report or in the result
(`Traced`), and an Ok verdict has looked at all of these (`Answered`): no failure is
swallowed.  The other half of `ResultExactCorrect` is that nothing but a failure or a
cancellation makes `Run` answer an error: its checks of completeness and of the number
of chunks converted never fire on their own.  For that, as
long as nothing has gone wrong, no region is forgotten on its way (`NoneForgotten`,
`AllAccepted`), and the counter is the number of chunks of the regions terraformed so far
(`CountExact`).
Assumptions: those of the regions, and that each has at least one chunk.

`ProxyEnvProofs`.  The firewall alone would prove `WorldUntouchedCorrect`, if
`RenameFile` did not open its target with a plain `ofstream`.  The invariant says that
the target has had its copy since the lock was first released (`TargetsPrepared`), and
that no other operation can take it away, because operations that run at the same time
are about different names (`RenamesApart`).  This last fact is the assumption on LevelDB
named in section 2.

`PlainSpecCorrect` says that `ProxyEnv` implements `PlainFs`.  An operation of
`ProxyEnv` takes several steps, between which its files are not what LevelDB would see in
a plain directory; the refinement mapping shows, for a name an operation holds, what the
operation recorded when it began.  `FsInv` says what each operation has made, so far, of
the files it holds compared with that record (`OpsFine`), that a name is held by one
operation (`OpsApart`), that two names never lead to one proxy file (`FilesKnown`,
`DiskKnown`: numbers are given out once), and that an open file is where its name leads
(`WritersKnown`).  From these follow what a read returns (`ViewRead`) and that one step
of each operation is its effect and all others stutter.  Assumption: `ProxyContents`,
that what the world's files hold is contents, and that the marks for a spoiled file and
for no request are neither contents nor requests.

`JavaPipelineProofs`.  `CancelAnsweredCorrect` rests on the order of the callbacks:
progress is asked again after the threads have ended, before anything is published.
Assumption: once the user has cancelled, progress keeps answering false.
`NothingDanglesCorrect` needs `DangleInv`: a thread puts an entity before it lists it, a
list is about one chunk, what is stored or collected has its records among those put, and
publication is all or nothing.  Dropped failures only take away; a table that came short
takes records from what was put, so that then the records named are among those put
(`Seen`). `OkMeansWholeCorrect` needs more, namely what is there and not only what is not:
as long as nothing has gone wrong (`Good`), `Exact` keeps an account of what each thread
has put, listed and registered of each chunk, so that a chunk a thread has left is
`Handled`, and when all threads are done every chunk is (`AllDone`).  From then on the
lists of a chunk name exactly its entities (`ListsComplete`), which uses that being near
is symmetric, and no dimension with a waiting digest is missing in the total
(`HomesInDims`).  Assumption: coordinates of chunks are integers and an entity's home is
near the chunk it is converted with.

`ConcurrentDbProofs`.  The inductive invariant `DbInv` follows the records through the
steps of `close`: what was accepted is what the writers hold, and a lost record has broken
its writer (`Collected`); how far `close` is tells what each prefix has done (`Owning`);
MANIFEST names the tables that there are, once it can be read (`Listed`); file numbers are
drawn once (`Numbering`); and the tables written, with those a prefix still has to write,
hold the records of every prefix begun (`Covered`).  `CurrentLastCorrect` and
`StoreSpecCorrect` follow: CURRENT is renamed last, so the database is visible with all
its records or not at all, whatever fails before; if a table came short, with a part of
them (`Seen`).  That is the abstract specification's own exception, and nothing in the
code could remove it.  `LevelSortedCorrect` needs `Sorted` in addition: tables written and
to write are sorted, of one prefix each and disjoint.  It assumes that no key is put
twice; with repeated keys it is false, as `repeated_key` shows. `RangesPartitionCorrect`
is about the loop that makes the ranges, for every depth and length of keys: the lower
ends ascend (`Ascend`), `Increment` gives the least key above all those with a prefix, and
so each key is in exactly one range.  The loops of `Increment`, of the depths and of the
cutting are functions on the naturals; what they compute is proved with `Ind`, induction
on a set of natural numbers.

`LegacyWorldProofs`.  The queue's locks are booleans that a thread clears for a whole
neighbourhood, so that one thread could unlock what another one has locked.
`NeighboursWholeCorrect` shows that it does not: the neighbourhoods of threads at work
are disjoint (`HoodsApart`), and that of a torn file stays locked and apart from theirs
(`TornLocked`, `TornApart`) since a failed thread never unlocks.  `WorldExactCorrect`
needs an account, phase by phase, of where the file of each chunk is (`Account`).  A
fault that is noticed has ended its phase or makes `ok` false (`FaultsAnswered`); without
one a thread leaves a phase only when all its tasks are taken (`AllTaken`), and no two
threads hold the same chunk (`OwnCell`, from `HoodsApart`), so that what one has finished
no other undoes.  Assumption: the sizes of the grid are natural numbers.

`UuidReplacerProofs`.  Two invariants, one on top of the other.  `IInv` is about where a
run is in its work and holds whatever fails and whenever the program is killed.  Its part
`Disk` says which paths and contents a disk can have: only what a writer has just made may
be torn, the backups and temporaries of a file are numbered without a gap, and no run
makes more than one of a kind, so `UniqueSibling` finds a number and `SetAside` and
`Written` are the files they stand for.  `Rewrites` says which of the three files holds
the data while one is rewritten, and what a writer that answers true may have made of it
(`WrittenFrom`: the replaced content, or one cut short, whose owner `short` names);
`Staging` to `Restoring` say, for each rename at each position of the two loops and the
three undo loops, which of its three names are in use, so that no rename goes over a file.
The one loop for which that fails is the undo of installed names: `Safe` says when it
cannot happen, which is that no UUID of the table is both a source and a destination, or
that no undo failed and none was overtaken (`NothingLostCorrect`).

`AInv` is the account of contents.  `Fine` is the case that nothing was killed, no undo
went wrong and no chained table is applied a second time; then `Account` says at every
step whose data is at every path the game looks at, as it was, or `Renewed`: replaced
once, or cut short by a writer that did not notice (`Found`, `Left`, `Laid`), and for a
dry run what has been counted (`Counts`).  `History` ties the variables that remember the
past to the position of the run: it shows that the conditions of `ErrorUndone` and
`OkMeansRepaired` imply `Fine`, because an undo that was overtaken ends in an error, and a
run after an error has a table that is not chained.  A second run finds files of which
some have been replaced; that it replaces nothing twice is `ReplacedFound`, and that two
players never get one name is what `PlanRenames` has checked (`NamesApart`).  That
`std::sort` yields each name once (`Ordered`), as the order in which files are visited and
renames are made needs, is proved with induction on a set of natural numbers.  Both
invariants were checked by TLC on the instance of `uuid_replacer` before they were proved.
Assumptions: `UuidConstants`, namely that names are finitely many positive numbers, that
level.dat is none of them, that each spells a UUID and that `Uuid::toString` gives a UUID
a name that spells it.

Only model-checked:

* all liveness (`FinishReturns`, `DestructorReturns`, `CallReturns`, `RunReturns`,
  `CloseReturns`, `ConvertReturns`): the prover has no rule for fairness, which is about
  what is enabled;
* `EntitiesOnce`: who is nested in whom, and who belongs to one party, are recursive
  operators, for which the prover has no backend, and what a pass over the vehicles
  computes in any order needs induction over data.

Every other invariant and action property of a passing run is a theorem.

## 5. Not modelled, and why

* The contents of chunks, tables, items, entities, structures and commands: stateless
  translations whose correctness is agreement with the formats of the games.  They are
  by far the most of the repository's lines, which is why the models cover a small share
  of them: a table of names has no behaviour to check.
* Binary containers (STFS, LZX, zip, save.bin) and LevelDB's file formats: sequential
  readers and writers of bytes.
* Lighting and the terraform passes: pure functions of block data; see the plan.
* What `bedrock::Converter::Run` does before and after the loop over dimensions, and the
  loop itself: dimensions run one after the other and share two counters.  `Context::Init`
  adds up what a parallel scan finds, which is the contract of `Parallel::Reduce`.
* The locks that `ReadonlyDb` takes on the world: two calls that fail or hold, taken after
  the directory was listed.
* Two conversions in one process.  `ConcurrentDb::Gate` and `UuidRegistrar` have
  process-wide state for which that matters.
* The abandonment of a table builder: `ConcurrentDb::Write` leaves in two places
  (`_concurrent-db.hpp:824`, `:831`) without `Finish` or `Abandon`, which an assertion of
  the destructor forbids.  A release build returns the error as intended.
* A copy that `ProxyEnv` makes of a file of the world is whole in the model, or its making
  fails.  The code does not look at what `fclose` returns, nor at `ferror`
  (`_proxy-env.hpp:434-454`, `:472-481`), so a copy can come short unnoticed; the world's
  own files are safe then too, but LevelDB reads less than is there.
* Players and `level.dat` of console worlds, maps and the local player of Java worlds.

## 6. The plan

Next, the most valuable first.

1. `UuidRegistrar` and `LodestoneRegistrar`: an injective table filled by many threads,
   as one abstract specification with two implementations, for two conversions in one
   process, together with `ConcurrentDb::Gate`.
2. Pure algorithms against reference definitions: distance of leaves, propagation of
   light, volumes.
3. The bound on resident temporary files for a row-major order, as
   `test/performance-structures.test.hpp` states it.
4. What surrounds the loop over dimensions in `bedrock::Converter::Run`.

What is left to prove is `EntitiesOnce`.  It would take a specification of the
passengers without recursion, in which a pass over the vehicles is a set of nestings that
are closed under a rule; and a statement for piles of any height, which TLC has checked
for piles of three only.
