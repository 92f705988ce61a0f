---------------------------- MODULE BedrockPipeline ----------------------------
(***************************************************************************)
(* One dimension of bedrock::Converter::Run: conversion threads write one  *)
(* temporary file per region; the scheduler says which regions have all    *)
(* their neighbours' files; terraform threads, fed by the dispatcher, read *)
(* these files and write the final region; the scheduler then says which   *)
(* temporary files no one needs any more.  The scheduler appears as its    *)
(* abstract specification RegionFrontier, which TerraformRegionScheduler   *)
(* implements; the dispatcher as TerraformDispatcher, step by step.  A     *)
(* step is a critical section, a file operation, or a loop over chunks     *)
(* that touches nothing shared but atomic counters.                        *)
(***************************************************************************)
EXTENDS RegionGrid

CONSTANTS
  Concurrency,   \* the argument of Run
  Weight         \* the number of chunks of each region

ASSUME PipelineAssumption ==
  /\ Concurrency \in Nat
  /\ Weight \in [Regions -> Nat \ {0}]
  /\ Regions # {}

Larger(a, b) == IF a < b THEN b ELSE a
Smaller(a, b) == IF a < b THEN a ELSE b

EffectiveConcurrency == Larger(1, Concurrency)
TerraformConcurrency == Larger(1, EffectiveConcurrency \div 2)
ConversionConcurrency == Larger(1, EffectiveConcurrency - TerraformConcurrency)

Owner == 0   \* the thread inside Run
Workers == 1..TerraformConcurrency
Converters == 1..Smaller(ConversionConcurrency, Cardinality(Regions))

(* The order of World::Convert's works: most chunks first.                 *)
WorkBefore(a, b) ==
  \/ Weight[a] > Weight[b]
  \/ Weight[a] = Weight[b] /\ Before(a, b)

VARIABLES
  queue, active, status, finished, stopping, waiting, pc, work, failed, owner,
  accepted, refused, done,      \* the dispatcher
  converted, completed,         \* the scheduler
  claimed,      \* the works the conversion threads have claimed
  at,           \* where each conversion thread is
  region,       \* the region it converts
  ready,        \* what markConverted returned to it
  conversion,   \* the Reduce's status: {} is Ok, {r} the error of region r
  world,        \* where World::Convert is, or what it returned
  stage,        \* where each terraform thread is inside fProcess or fComplete
  release,      \* the sources it has yet to delete
  temp,         \* the temporary file of each region
  dir,          \* the temporary directory exists
  entities,     \* the regions whose entity file is written
  out,          \* the regions whose final file is written
  terraformed,  \* numTerraformedChunks
  trouble,      \* history: what went wrong outside: an "error", a "cancel"
  verdict,      \* what the body of Run's loop decided
  result        \* what Run returns

dispatcher == <<queue, active, status, finished, stopping, waiting, pc, work, failed,
                owner, accepted, refused, done>>
scheduler == <<converted, completed>>
converter == <<claimed, at, region, ready, conversion>>
terraformer == <<stage, release>>
files == <<temp, dir, entities, out>>
run == <<verdict, result>>
vars == <<dispatcher, scheduler, converter, terraformer, files, run, world,
          terraformed, trouble>>

Dispatcher == INSTANCE TerraformDispatcher

Frontier == INSTANCE RegionFrontier WITH Strangers <- {}, reply <- <<>>

Init ==
  /\ Dispatcher!Init
  /\ converted = {} /\ completed = {}
  /\ claimed = {}
  /\ at = [c \in Converters |-> "claim"]
  /\ region = [c \in Converters |-> {}]
  /\ ready = [c \in Converters |-> {}]
  /\ conversion = {}
  /\ world = "preparing"
  /\ stage = [w \in Workers |-> "open"]
  /\ release = [w \in Workers |-> {}]
  /\ temp = [r \in Regions |-> "none"]
  /\ dir = TRUE
  /\ entities = {} /\ out = {}
  /\ terraformed = 0
  /\ trouble = {}
  /\ verdict = "none" /\ result = "none"

The(set) == CHOOSE x \in set : TRUE

(* A callback or a file operation answers "ok", "error" or, if it is a     *)
(* progress callback, "cancel".                                            *)
Blames(answer) == trouble' = IF answer = "ok" THEN trouble ELSE trouble \cup {answer}

-------------------------------------------------------------------------------
(* Faulty variants of the definitions below, each a bug that a property    *)
(* must catch.                                                             *)
ConversionOnly == IF world = "error" THEN "error" ELSE "ok"

DeleteAtOnce == TRUE

-------------------------------------------------------------------------------
(* Conversion: World::Convert, its Reduce, and Region::Convert.            *)

(* create_directories of the two output directories *)
PrepareWorld(answer) ==
  /\ world = "preparing"
  /\ world' = IF answer = "ok" THEN "reducing" ELSE "error"
  /\ Blames(answer)
  /\ UNCHANGED <<dispatcher, scheduler, converter, terraformer, files, run, terraformed>>

Moves(c, from, to) ==
  /\ at[c] = from
  /\ at' = [at EXCEPT ![c] = to]

(* An error of this thread's region ends its loop; the first one is kept.  *)
Fails(c) ==
  /\ at' = [at EXCEPT ![c] = "ended"]
  /\ conversion' = IF conversion = {} THEN region[c] ELSE conversion

(* while (!cancel), fetch_add, bounds check *)
NextWork == {r \in Regions \ claimed : \A s \in Regions \ claimed : s = r \/ WorkBefore(r, s)}

Claim(c) ==
  /\ world = "reducing"
  /\ IF conversion = {} /\ claimed # Regions
     THEN \E r \in NextWork :
            /\ Moves(c, "claim", "convert")
            /\ claimed' = claimed \cup {r}
            /\ region' = [region EXCEPT ![c] = {r}]
     ELSE Moves(c, "claim", "ended") /\ UNCHANGED <<claimed, region>>
  /\ UNCHANGED <<dispatcher, scheduler, ready, conversion, world, terraformer, files, run,
                 terraformed, trouble>>

(* The loop over chunks; progress() may ask to cancel.                     *)
ConvertChunks(c, answer) ==
  /\ at[c] = "convert"
  /\ IF answer = "ok"
     THEN Moves(c, "convert", "writeTerrain") /\ UNCHANGED conversion
     ELSE Fails(c)
  /\ Blames(answer)
  /\ UNCHANGED <<dispatcher, scheduler, claimed, region, ready, world, terraformer, files, run,
                 terraformed>>

(* terrain->write(terrainMcaPath): the file exists before it is complete.  *)
CreateTerrain(c) ==
  /\ Moves(c, "writeTerrain", "fillTerrain")
  /\ temp' = [temp EXCEPT ![The(region[c])] = "partial"]
  /\ UNCHANGED <<dispatcher, scheduler, claimed, region, ready, conversion, world, terraformer,
                 dir, entities, out, run, terraformed, trouble>>

FillTerrain(c, answer) ==
  /\ at[c] = "fillTerrain"
  /\ IF answer = "ok"
     THEN /\ Moves(c, "fillTerrain", "writeEntities")
          /\ temp' = [temp EXCEPT ![The(region[c])] = "whole"]
          /\ UNCHANGED conversion
     ELSE Fails(c) /\ UNCHANGED temp
  /\ Blames(answer)
  /\ UNCHANGED <<dispatcher, scheduler, claimed, region, ready, world, terraformer,
                 dir, entities, out, run, terraformed>>

WriteEntities(c, answer) ==
  /\ at[c] = "writeEntities"
  /\ IF answer = "ok"
     THEN /\ Moves(c, "writeEntities", "markConverted")
          /\ entities' = entities \cup region[c]
          /\ UNCHANGED conversion
     ELSE Fails(c) /\ UNCHANGED entities
  /\ Blames(answer)
  /\ UNCHANGED <<dispatcher, scheduler, claimed, region, ready, world, terraformer,
                 temp, dir, out, run, terraformed>>

(* regionConverted: scheduler.markConverted, under the scheduler's mutex.  *)
MarkConverted(c) ==
  LET r == The(region[c])
  IN /\ at[c] = "markConverted"
     /\ IF r \notin converted
        THEN /\ Moves(c, "markConverted", "enqueue")
             /\ converted' = converted \cup {r}
             /\ ready' = [ready EXCEPT ![c] = Frontier!Ready(r)]
             /\ UNCHANGED conversion
        ELSE Fails(c) /\ UNCHANGED <<converted, ready>>
     /\ UNCHANGED <<dispatcher, completed, claimed, region, world, terraformer, files, run,
                    terraformed, trouble>>

(* regionConverted: dispatcher.enqueue, under the dispatcher's mutex; it   *)
(* returns the dispatcher's error if there is one.                         *)
Enqueue(c) ==
  /\ at[c] = "enqueue"
  /\ Dispatcher!Enqueue(ready[c])
  /\ IF status = {}
     THEN Moves(c, "enqueue", "claim") /\ UNCHANGED conversion
     ELSE Fails(c)
  /\ ready' = [ready EXCEPT ![c] = {}]
  /\ UNCHANGED <<scheduler, claimed, region, world, terraformer, files, run, terraformed,
                 trouble>>

(* Reduce has joined its threads; leashes and passengers are attached.     *)
ReturnWorld(answer) ==
  /\ world = "reducing"
  /\ \A c \in Converters : at[c] = "ended"
  /\ IF conversion = {}
     THEN world' = (IF answer = "ok" THEN "ok" ELSE "error") /\ Blames(answer)
     ELSE world' = "error" /\ UNCHANGED trouble
  /\ UNCHANGED <<dispatcher, scheduler, converter, terraformer, files, run, terraformed>>

-------------------------------------------------------------------------------
(* Terraforming: the dispatcher's threads, terraformRegion and             *)
(* completeTerraformRegion.                                                *)

Within(w, place, now) == pc[w] = place /\ stage[w] = now

Enters(w, now) == stage' = [stage EXCEPT ![w] = now]

(* The lock-protected part of run() and its waits. *)
Pool(w) ==
  /\ Dispatcher!Wait(w) \/ Dispatcher!Exit(w) \/ Dispatcher!Take(w) \/ Dispatcher!Report(w)
  /\ UNCHANGED <<scheduler, converter, world, terraformer, files, run, terraformed, trouble>>

(* TerraformRegion wants the region's own temporary file.                  *)
OpenRegion(w, answer) ==
  /\ Within(w, "process", "open")
  /\ IF answer = "ok" /\ temp[The(work[w])] \in {"partial", "whole"}
     THEN Enters(w, "chunks") /\ UNCHANGED dispatcher
     ELSE Dispatcher!Process(w, FALSE) /\ UNCHANGED stage
  /\ Blames(answer)
  /\ UNCHANGED <<scheduler, converter, world, release, files, run, terraformed>>

(* done.fetch_add(1) for each of n chunks *)
Counted(n) == terraformed + n

(* The loop over chunks, which reads the neighbours' files, counts, and    *)
(* asks progress; after an error some of the chunks have been counted.     *)
TerraformChunks(w, answer) ==
  LET total == Weight[The(work[w])]
  IN /\ Within(w, "process", "chunks")
     /\ IF answer = "ok"
        THEN /\ Enters(w, "write")
             /\ terraformed' = Counted(total)
             /\ UNCHANGED dispatcher
        ELSE /\ Enters(w, "open")
             /\ \E n \in 0..total : terraformed' = Counted(n)
             /\ Dispatcher!Process(w, FALSE)
     /\ Blames(answer)
     /\ UNCHANGED <<scheduler, converter, world, release, files, run>>

WriteRegion(w, answer) ==
  /\ Within(w, "process", "write")
  /\ Dispatcher!Process(w, answer = "ok")
  /\ Enters(w, "open")
  /\ out' = IF answer = "ok" THEN out \cup work[w] ELSE out
  /\ Blames(answer)
  /\ UNCHANGED <<scheduler, converter, world, release, temp, dir, entities, run,
                 terraformed>>

(* scheduler.markCompleted, under the scheduler's mutex.                   *)
MarkCompleted(w) ==
  LET r == The(work[w])
  IN /\ Within(w, "complete", "open")
     /\ IF r \notin completed /\ Hood(r) \subseteq converted
        THEN /\ Enters(w, "release")
             /\ completed' = completed \cup {r}
             /\ release' = [release EXCEPT ![w] = Frontier!Releasable(r)]
             /\ UNCHANGED dispatcher
        ELSE Dispatcher!Complete(w, FALSE) /\ UNCHANGED <<completed, stage, release>>
     /\ UNCHANGED <<converted, converter, world, files, run, terraformed, trouble>>

(* fs::remove of the next releasable source: an error if it fails or if    *)
(* there is no such file.                                                  *)
First(set) == {s \in set : \A t \in set : s = t \/ Before(s, t)}

ReleaseNext(w, answer) ==
  /\ Within(w, "complete", "release")
  /\ \E s \in First(release[w]) :
       IF answer = "ok" /\ temp[s] \in {"partial", "whole"}
       THEN /\ temp' = [temp EXCEPT ![s] = "removed"]
            /\ release' = [release EXCEPT ![w] = @ \ {s}]
            /\ UNCHANGED <<dispatcher, stage>>
       ELSE /\ Dispatcher!Complete(w, FALSE)
            /\ Enters(w, "open")
            /\ release' = [release EXCEPT ![w] = {}]
            /\ UNCHANGED temp
  /\ Blames(answer)
  /\ UNCHANGED <<scheduler, converter, world, dir, entities, out, run, terraformed>>

Released(w) ==
  /\ Within(w, "complete", "release")
  /\ release[w] = {}
  /\ Dispatcher!Complete(w, TRUE)
  /\ Enters(w, "open")
  /\ UNCHANGED <<scheduler, converter, world, release, files, run, terraformed, trouble>>

-------------------------------------------------------------------------------
(* Run: dispatcher.finish() after World::Convert, whatever it returned.    *)
Finish ==
  /\ world \in {"ok", "error"}
  /\ Dispatcher!BeginFinish \/ Dispatcher!RetryFinish
  /\ UNCHANGED <<scheduler, converter, world, terraformer, files, run, terraformed, trouble>>

AllCompleted == completed = Regions

(* The checks after finish(), in order. *)
Judgement ==
  IF world = "error" \/ status # {} \/ ~AllCompleted THEN "error" ELSE "ok"

Judge ==
  /\ owner = "returned" /\ verdict = "none"
  /\ verdict' = Judgement
  /\ UNCHANGED <<dispatcher, scheduler, converter, world, terraformer, files, result,
                 terraformed, trouble>>

(* The destructors, in the reverse order of the declarations: the          *)
(* dispatcher joins its threads before the temporary directory goes.       *)
DestroyDispatcher ==
  /\ verdict # "none"
  /\ Dispatcher!Stop \/ Dispatcher!NotifyStop \/ Dispatcher!Join
  /\ UNCHANGED <<scheduler, converter, world, terraformer, files, run, terraformed, trouble>>

MayDeleteDir == owner = "gone"

DeleteTempDir ==
  /\ verdict # "none" /\ MayDeleteDir
  /\ dir
  /\ dir' = FALSE
  /\ temp' = [r \in Regions |-> IF temp[r] = "none" THEN "none" ELSE "removed"]
  /\ UNCHANGED <<dispatcher, scheduler, converter, world, terraformer, entities, out, run,
                 terraformed, trouble>>

(* The chunks of a set of regions, numbered in each, and numTotalChunks.   *)
ChunksOf(regions) == UNION {{r} \X (1..Weight[r]) : r \in regions}

Total == Cardinality(ChunksOf(Regions))

(* After the loop over dimensions: the counter against the total, and a    *)
(* last progress report that may ask to cancel.                            *)
Return(answer) ==
  /\ ~dir /\ result = "none"
  /\ IF verdict = "ok" /\ terraformed = Total
     THEN result' = (IF answer = "ok" THEN "ok" ELSE "error") /\ Blames(answer)
     ELSE result' = "error" /\ UNCHANGED trouble
  /\ UNCHANGED <<dispatcher, scheduler, converter, world, terraformer, files, verdict, terraformed>>

Returned == result # "none" /\ UNCHANGED vars

-------------------------------------------------------------------------------
FileAnswers == {"ok", "error"}
Answers == FileAnswers \cup {"cancel"}

ConverterStep(c) ==
  \/ Claim(c)
  \/ \E answer \in Answers : ConvertChunks(c, answer)
  \/ CreateTerrain(c)
  \/ \E answer \in FileAnswers : FillTerrain(c, answer) \/ WriteEntities(c, answer)
  \/ MarkConverted(c)
  \/ Enqueue(c)

TerraformerStep(w) ==
  \/ Pool(w)
  \/ \E answer \in FileAnswers :
       OpenRegion(w, answer) \/ WriteRegion(w, answer) \/ ReleaseNext(w, answer)
  \/ \E answer \in Answers : TerraformChunks(w, answer)
  \/ MarkCompleted(w)
  \/ Released(w)

RunStep ==
  \/ \E answer \in FileAnswers : PrepareWorld(answer) \/ ReturnWorld(answer)
  \/ Finish
  \/ Judge
  \/ DestroyDispatcher
  \/ DeleteTempDir
  \/ \E answer \in {"ok", "cancel"} : Return(answer)

Next ==
  \/ \E c \in Converters : ConverterStep(c)
  \/ \E w \in Workers : TerraformerStep(w)
  \/ RunStep
  \/ Returned

Spec == Init /\ [][Next]_vars

(* Every thread that can run does, and callbacks and file operations       *)
(* return.                                                                 *)
FairSpec ==
  /\ Spec
  /\ \A c \in Converters : WF_vars(ConverterStep(c))
  /\ \A w \in Workers : WF_vars(TerraformerStep(w))
  /\ WF_vars(RunStep)

-------------------------------------------------------------------------------
(* The counters, files and thread positions; a region is completed only    *)
(* after its conversion, written only if accepted, and no chunk is counted *)
(* beyond the total.                                                       *)
TypeOK ==
  /\ Dispatcher!TypeOK
  /\ converted \subseteq Regions /\ completed \subseteq converted
  /\ claimed \subseteq Regions
  /\ at \in [Converters -> {"claim", "convert", "writeTerrain", "fillTerrain", "writeEntities",
                            "markConverted", "enqueue", "ended"}]
  /\ region \in [Converters -> SUBSET claimed]
  /\ ready \in [Converters -> SUBSET Regions]
  /\ conversion \subseteq claimed
  /\ world \in {"preparing", "reducing", "ok", "error"}
  /\ stage \in [Workers -> {"open", "chunks", "write", "release"}]
  /\ release \in [Workers -> SUBSET Regions]
  /\ temp \in [Regions -> {"none", "partial", "whole", "removed"}]
  /\ dir \in BOOLEAN
  /\ entities \subseteq claimed /\ out \subseteq accepted
  /\ terraformed \in 0..Total
  /\ trouble \subseteq Answers
  /\ verdict \in {"none", "ok", "error"} /\ result \in {"none", "ok", "error"}

(* A region is terraformed only while the temporary file of every region   *)
(* of its neighbourhood is there, and complete: BlockAccessorJavaDirectory *)
(* takes a missing file for unloaded chunks and would not complain.        *)
SourcesWhole ==
  \A w \in Workers : \A r \in work[w] :
    pc[w] = "process" => \A s \in Hood(r) : temp[s] = "whole"

(* What completeTerraformRegion deletes exists, and no other thread is     *)
(* about to delete it or still has to read it: fs::remove fails only for   *)
(* reasons outside the program.                                            *)
ReleasesValid ==
  /\ \A w \in Workers : \A s \in release[w] : temp[s] = "whole"
  /\ \A v, w \in Workers : v # w => release[v] \cap release[w] = {}
  /\ \A w \in Workers : \A s \in release[w] : Hood(s) \subseteq out \cap completed

(* Run keeps a dimension only if it is complete: every final region and    *)
(* every entity file is written, and the last reader of every temporary    *)
(* file has deleted it.                                                    *)
FilesComplete ==
  verdict = "ok" =>
    /\ out = Regions /\ entities = Regions
    /\ \A r \in Regions : temp[r] = "removed"

(* Run reports an error exactly when something failed or was cancelled,    *)
(* in whichever thread and whatever the other threads were doing: no       *)
(* failure is swallowed, and none of the checks for an "invalid state", a  *)
(* missing file, an incomplete dimension or a number of chunks ever fires  *)
(* on its own.                                                             *)
ResultExact ==
  result # "none" => (result = "ok" <=> trouble = {})

(* The temporary directory outlives every thread that uses it.             *)
DirOutlivesThreads ==
  ~dir => /\ \A w \in Workers : pc[w] = "exited"
          /\ \A c \in Converters : at[c] = "ended" \/ (at[c] = "claim" /\ world = "error")

(* The conversion threads and Run use the dispatcher as it requires: they  *)
(* offer a region once, and only before finish().                          *)
DispatcherSpec == Dispatcher!Spec

(* Run returns, whatever fails and whenever it is cancelled. *)
RunReturns == <>(result # "none")

===============================================================================
