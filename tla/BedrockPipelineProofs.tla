------------------------- MODULE BedrockPipelineProofs -------------------------
(***************************************************************************)
(* Proofs about one dimension of bedrock::Converter::Run, for every finite *)
(* set of regions and every concurrency.                                   *)
(*                                                                         *)
(* First, the threads use the dispatcher as it requires, so that its own   *)
(* invariant, proved in TerraformDispatcherProofs, holds in the pipeline.  *)
(* Then the files: a terraform thread reads only whole files and a file is *)
(* deleted once, after its last reader, which rests on the scheduler's     *)
(* promise and on a region being in one place at a time.  Last, failures:  *)
(* what went wrong in any thread is on record somewhere until Run returns. *)
(***************************************************************************)
EXTENDS BedrockPipeline, FiniteSetTheorems, TLAPS

(* The dispatcher together with the theorems about it.                     *)
DP == INSTANCE TerraformDispatcherProofs

LEMMA PoolAssumption == DP!DispatcherAssumption /\ DP!RegionsAssumption
<1>1. EffectiveConcurrency \in Nat /\ EffectiveConcurrency >= 1
  BY PipelineAssumption DEF EffectiveConcurrency, Larger
<1>2. TerraformConcurrency \in Nat /\ TerraformConcurrency >= 1
  BY <1>1 DEF TerraformConcurrency, Larger
<1>3. IsFiniteSet(Workers) /\ Workers # {} /\ Owner \notin Workers
  <2>1. IsFiniteSet(1..TerraformConcurrency)
    BY <1>2, FS_Interval
  <2>2. 1 \in 1..TerraformConcurrency /\ 0 \notin 1..TerraformConcurrency
    BY <1>2
  <2>3. QED
    BY <2>1, <2>2 DEF Workers, Owner
<1>4. Weight \in [Regions -> Nat]
  BY PipelineAssumption
<1>5. QED
  BY <1>3, <1>4, RegionsAssumption
  DEF DP!DispatcherAssumption, DP!RegionsAssumption, DP!IsFiniteSet, IsFiniteSet

(* The two instances of the dispatcher are one. *)
LEMMA SameInit == Dispatcher!Init => DP!Init
BY DEF DP!Init, Dispatcher!Init

LEMMA SameEnqueue == \A regions : Dispatcher!Enqueue(regions) => DP!Enqueue(regions)
BY DEF DP!Enqueue, Dispatcher!Enqueue, DP!NotifyAll, Dispatcher!NotifyAll, DP!locals,
       Dispatcher!locals

LEMMA SameTake == \A w : Dispatcher!Take(w) => DP!Take(w)
BY DEF DP!Take, Dispatcher!Take, DP!Top, Dispatcher!Top, DP!WorkLess, Dispatcher!WorkLess,
       DP!Before, Dispatcher!Before, DP!Popped, Dispatcher!Popped, DP!Started, Dispatcher!Started,
       DP!MustWake, Dispatcher!MustWake, DP!MayExit, Dispatcher!MayExit, DP!NotifyAll,
       Dispatcher!NotifyAll, DP!history, Dispatcher!history

LEMMA SameWorker == \A w : Dispatcher!WorkerStep(w) => DP!WorkerStep(w)
<1> SUFFICES ASSUME NEW w, Dispatcher!WorkerStep(w) PROVE DP!WorkerStep(w)
  OBVIOUS
<1>1. CASE Dispatcher!Wait(w) \/ Dispatcher!Exit(w)
  BY <1>1 DEF DP!WorkerStep, DP!Wait, Dispatcher!Wait, DP!Exit, Dispatcher!Exit, DP!MustWake,
     Dispatcher!MustWake, DP!MayExit, Dispatcher!MayExit, DP!history, Dispatcher!history,
     DP!locals, Dispatcher!locals
<1>2. CASE Dispatcher!Take(w)
  BY <1>2, SameTake DEF DP!WorkerStep
<1>3. CASE \E ok \in BOOLEAN : Dispatcher!Process(w, ok) \/ Dispatcher!Complete(w, ok)
  BY <1>3 DEF DP!WorkerStep, DP!Process, Dispatcher!Process, DP!Complete, Dispatcher!Complete,
     DP!history, Dispatcher!history
<1>4. CASE Dispatcher!Report(w)
  BY <1>4 DEF DP!WorkerStep, DP!Report, Dispatcher!Report, DP!FirstError, Dispatcher!FirstError,
     DP!QueueAfter, Dispatcher!QueueAfter, DP!NotifyAll, Dispatcher!NotifyAll, DP!history,
     Dispatcher!history
<1>5. QED
  BY <1>1, <1>2, <1>3, <1>4 DEF Dispatcher!WorkerStep

LEMMA SameOwner ==
  /\ Dispatcher!BeginFinish => DP!BeginFinish
  /\ Dispatcher!Stop => DP!Stop
  /\ Dispatcher!OwnerStep => DP!OwnerStep
BY DEF DP!BeginFinish, Dispatcher!BeginFinish, DP!Stop, Dispatcher!Stop, DP!OwnerStep,
   Dispatcher!OwnerStep, DP!RetryFinish, Dispatcher!RetryFinish, DP!NotifyStop,
   Dispatcher!NotifyStop, DP!Join, Dispatcher!Join, DP!NotifyAll, Dispatcher!NotifyAll, DP!Quiet,
   Dispatcher!Quiet, DP!history, Dispatcher!history, DP!locals, Dispatcher!locals

LEMMA SameNext == [Dispatcher!Next]_(Dispatcher!vars) => [DP!Next]_(DP!vars)
<1> SUFFICES ASSUME [Dispatcher!Next]_(Dispatcher!vars) PROVE [DP!Next]_(DP!vars)
  OBVIOUS
<1>1. CASE Dispatcher!ClientEnqueue
  BY <1>1, SameEnqueue DEF DP!Next, DP!ClientEnqueue, Dispatcher!ClientEnqueue
<1>2. CASE Dispatcher!BeginFinish \/ Dispatcher!Stop \/ Dispatcher!OwnerStep
  BY <1>2, SameOwner DEF DP!Next
<1>3. CASE \E w \in Workers : Dispatcher!WorkerStep(w)
  BY <1>3, SameWorker DEF DP!Next
<1>4. CASE Dispatcher!SpuriousWakeup
  BY <1>4 DEF DP!Next, DP!SpuriousWakeup, Dispatcher!SpuriousWakeup, DP!history,
     Dispatcher!history, DP!locals, Dispatcher!locals
<1>5. CASE Dispatcher!Gone \/ UNCHANGED Dispatcher!vars
  BY <1>5 DEF Dispatcher!Gone, DP!vars, Dispatcher!vars
<1>6. QED
  BY <1>1, <1>2, <1>3, <1>4, <1>5 DEF Dispatcher!Next

(* The dispatcher's invariant, carried along by its steps. *)
LEMMA PoolInit == Dispatcher!Init => DP!IInv
BY SameInit, DP!InitIInv, PoolAssumption

LEMMA PoolStep == DP!IInv /\ [Dispatcher!Next]_(Dispatcher!vars) => DP!IInv'
BY SameNext, DP!StepIInv, PoolAssumption

-------------------------------------------------------------------------------
(* The pipeline's use of the dispatcher.                                   *)

Positions == {"claim", "convert", "writeTerrain", "fillTerrain", "writeEntities",
              "markConverted", "enqueue", "ended"}

Converting(c) == at[c] \notin {"claim", "ended"}

TypeInv ==
  /\ at \in [Converters -> Positions]
  /\ region \in [Converters -> SUBSET claimed]
  /\ ready \in [Converters -> SUBSET Regions]
  /\ claimed \subseteq Regions /\ converted \subseteq claimed
  /\ \A c \in Converters : Converting(c) => \E r \in Regions : region[c] = {r}

(* Run waits for the conversion threads before it calls finish().          *)
Phases ==
  /\ world \in {"preparing", "reducing", "ok", "error"}
  /\ \A c \in Converters : Converting(c) => world = "reducing"
  /\ \A c \in Converters : at[c] = "claim" => world # "ok"
  /\ world \in {"preparing", "reducing"} => owner = "open" /\ verdict = "none"
  /\ owner \notin {"open", "finishing", "returned"} => verdict # "none"
  /\ owner = "gone" => \A w \in Workers : pc[w] = "exited"
  /\ ~dir => owner = "gone"

(* A region belongs to one thread until it is converted.                   *)
RegionsApart ==
  /\ \A c, d \in Converters :
       c # d /\ Converting(c) /\ Converting(d) => region[c] \cap region[d] = {}
  /\ \A c \in Converters :
       Converting(c) /\ at[c] # "enqueue" => region[c] \cap converted = {}

(* A region is offered by the thread that converts the last of its         *)
(* neighbours, so never twice.                                             *)
Offered == accepted \cup refused \cup UNION {ready[c] : c \in Converters}

OfferedOnce ==
  /\ \A r \in Offered : Hood(r) \subseteq converted
  /\ \A c \in Converters : at[c] # "enqueue" => ready[c] = {}
  /\ \A c \in Converters : ready[c] \cap (accepted \cup refused) = {}
  /\ \A c, d \in Converters : c # d => ready[c] \cap ready[d] = {}

UseInv == DP!IInv /\ TypeInv /\ Phases /\ RegionsApart /\ OfferedOnce

LEMMA OnlyOne == ASSUME NEW x PROVE The({x}) = x
BY DEF The

LEMMA HoodOfItself == ASSUME NEW r \in Regions PROVE r \in Hood(r) /\ Hood(r) \subseteq Regions
BY RegionsAssumption DEF Hood, Adjacent

LEMMA HoodSymmetric ==
  ASSUME NEW r \in Regions, NEW s \in Hood(r)
  PROVE  s \in Regions /\ r \in Hood(s)
BY RegionsAssumption DEF Hood, Adjacent

LEMMA ReadyRegions ==
  \A r : Frontier!Ready(r) = {t \in Hood(r) : Hood(t) \subseteq converted \cup {r}}
BY DEF Frontier!Ready, Frontier!Hood, Frontier!Adjacent, Hood, Adjacent

LEMMA ReleasableRegions ==
  \A r : Frontier!Releasable(r) = {t \in Hood(r) : Hood(t) \subseteq completed \cup {r}}
BY DEF Frontier!Releasable, Frontier!Hood, Frontier!Adjacent, Hood, Adjacent

LEMMA UseInit == Init => UseInv
<1> SUFFICES ASSUME Init PROVE UseInv
  OBVIOUS
<1>1. DP!IInv
  BY PoolInit DEF Init
<1>2. TypeInv /\ Phases /\ RegionsApart
  BY DEF Init, Dispatcher!Init, TypeInv, Positions, Converting, Phases, RegionsApart
<1>3. OfferedOnce
  BY DEF Init, Dispatcher!Init, OfferedOnce, Offered
<1>4. QED
  BY <1>1, <1>2, <1>3 DEF UseInv

(* Every step is one of the dispatcher's or leaves it alone.               *)
LEMMA ConverterUses ==
  ASSUME UseInv, NEW c \in Converters, ConverterStep(c)
  PROVE  [Dispatcher!Next]_(Dispatcher!vars)
<1>1. CASE Enqueue(c)
  <2>1. owner = "open" /\ ready[c] \in SUBSET (Regions \ (accepted \cup refused))
    BY <1>1 DEF Enqueue, UseInv, TypeInv, Phases, Converting, OfferedOnce
  <2>2. QED
    BY <1>1, <2>1 DEF Enqueue, Dispatcher!Next, Dispatcher!ClientEnqueue
<1>2. CASE ~Enqueue(c)
  BY <1>2 DEF ConverterStep, Claim, ConvertChunks, CreateTerrain, FillTerrain, WriteEntities,
     MarkConverted, dispatcher, Dispatcher!vars
<1>3. QED
  BY <1>1, <1>2

LEMMA TerraformerUses ==
  ASSUME NEW w \in Workers, TerraformerStep(w)
  PROVE  Dispatcher!WorkerStep(w) \/ UNCHANGED dispatcher
<1>1. CASE Pool(w)
  BY <1>1 DEF Pool, Dispatcher!WorkerStep
<1>2. ASSUME NEW answer \in Answers,
             OpenRegion(w, answer) \/ WriteRegion(w, answer) \/ ReleaseNext(w, answer)
               \/ TerraformChunks(w, answer)
      PROVE  \/ \E ok \in BOOLEAN : Dispatcher!Process(w, ok) \/ Dispatcher!Complete(w, ok)
             \/ UNCHANGED dispatcher
  BY <1>2 DEF OpenRegion, WriteRegion, ReleaseNext, TerraformChunks
<1>3. CASE MarkCompleted(w) \/ Released(w)
  BY <1>3 DEF MarkCompleted, Released, Dispatcher!WorkerStep
<1>4. QED
  BY <1>1, <1>2, <1>3 DEF TerraformerStep, Answers, Dispatcher!WorkerStep

LEMMA RunUses ==
  ASSUME RunStep
  PROVE  \/ Dispatcher!BeginFinish \/ Dispatcher!Stop \/ Dispatcher!OwnerStep
         \/ UNCHANGED dispatcher
BY DEF RunStep, PrepareWorld, ReturnWorld, Finish, Judge, DestroyDispatcher, DeleteTempDir, Return,
       Dispatcher!OwnerStep

LEMMA Uses ==
  ASSUME UseInv, [Next]_vars
  PROVE  [Dispatcher!Next]_(Dispatcher!vars)
<1>1. UNCHANGED dispatcher => UNCHANGED Dispatcher!vars
  BY DEF dispatcher, Dispatcher!vars
<1>2. CASE Returned \/ UNCHANGED vars
  BY <1>1, <1>2 DEF Returned, vars
<1>3. QED
  BY <1>1, <1>2, ConverterUses, TerraformerUses, RunUses DEF Next, Dispatcher!Next

LEMMA TerraformerFrame ==
  ASSUME UseInv, NEW w \in Workers, TerraformerStep(w)
  PROVE  /\ UNCHANGED <<converter, converted, world, owner, accepted, refused, verdict, dir>>
         /\ pc[w] # "exited"
         /\ \A v \in Workers \ {w} : pc'[v] = pc[v]
<1>1. UNCHANGED <<converter, converted, world, verdict, dir>>
  BY DEF TerraformerStep, Pool, OpenRegion, WriteRegion, ReleaseNext, TerraformChunks,
     MarkCompleted, Released, scheduler, files, run
<1>2. CASE UNCHANGED dispatcher
  <2>1. pc[w] # "exited"
    BY <1>2 DEF TerraformerStep, Pool, OpenRegion, WriteRegion, ReleaseNext, TerraformChunks,
       MarkCompleted, Released, Within, Dispatcher!Wait, Dispatcher!Exit, Dispatcher!Take,
       Dispatcher!Report
  <2>2. QED
    BY <1>1, <1>2, <2>1 DEF dispatcher
<1>3. CASE Dispatcher!WorkerStep(w)
  <2>1. UNCHANGED <<owner, accepted, refused>>
    BY <1>3 DEF Dispatcher!WorkerStep, Dispatcher!Wait, Dispatcher!Exit, Dispatcher!Take,
       Dispatcher!Process, Dispatcher!Complete, Dispatcher!Report, Dispatcher!history
  <2>2. pc[w] # "exited" /\ \A v \in Workers \ {w} : pc'[v] = pc[v]
    BY <1>3 DEF UseInv, DP!IInv, DP!TypeOK, Dispatcher!WorkerStep, Dispatcher!Wait, Dispatcher!Exit, Dispatcher!Take,
       Dispatcher!Process, Dispatcher!Complete, Dispatcher!Report, Dispatcher!locals
  <2>3. QED
    BY <1>1, <2>1, <2>2
<1>4. QED
  BY <1>2, <1>3, TerraformerUses

LEMMA UseTerraformer ==
  ASSUME UseInv, NEW w \in Workers, TerraformerStep(w)
  PROVE  TypeInv' /\ Phases' /\ RegionsApart' /\ OfferedOnce'
<1>1. TypeInv'
  BY TerraformerFrame DEF UseInv, TypeInv, Converting, converter
<1>2. Phases'
  BY TerraformerFrame DEF UseInv, Phases, Converting, converter
<1>3. RegionsApart' /\ OfferedOnce'
  BY TerraformerFrame DEF UseInv, RegionsApart, OfferedOnce, Offered, Converting, converter
<1>4. QED
  BY <1>1, <1>2, <1>3

LEMMA UseRun ==
  ASSUME UseInv, RunStep
  PROVE  TypeInv' /\ Phases' /\ RegionsApart' /\ OfferedOnce'
<1>1. UNCHANGED <<converter, converted, accepted, refused, pc>>
  BY DEF RunStep, PrepareWorld, ReturnWorld, Finish, Judge, DestroyDispatcher, DeleteTempDir,
     Return, Dispatcher!BeginFinish, Dispatcher!RetryFinish, Dispatcher!Stop,
     Dispatcher!NotifyStop, Dispatcher!Join, Dispatcher!locals, Dispatcher!history, dispatcher,
     scheduler
<1>2. TypeInv' /\ RegionsApart' /\ OfferedOnce'
  BY <1>1 DEF UseInv, TypeInv, RegionsApart, OfferedOnce, Offered, Converting, converter
<1>3. Phases'
  <2> USE <1>1 DEF UseInv, Phases, Converting, converter
  <2>1. CASE \E answer \in FileAnswers : PrepareWorld(answer) \/ ReturnWorld(answer)
    BY <2>1 DEF PrepareWorld, ReturnWorld, dispatcher, files, run, TypeInv
  <2>2. CASE Finish
    BY <2>2 DEF Finish, Dispatcher!BeginFinish, Dispatcher!RetryFinish, files, run
  <2>3. CASE Judge \/ DeleteTempDir \/ \E answer \in {"ok", "cancel"} : Return(answer)
    BY <2>3 DEF Judge, Judgement, DeleteTempDir, MayDeleteDir, Return, dispatcher, files, run
  <2>4. CASE DestroyDispatcher
    BY <2>4 DEF DestroyDispatcher, Dispatcher!Stop, Dispatcher!NotifyStop, Dispatcher!Join, files,
       run
  <2>5. QED
    BY <2>1, <2>2, <2>3, <2>4 DEF RunStep
<1>4. QED
  BY <1>2, <1>3

(* A conversion thread goes on with its region, or gives up.               *)
LEMMA UseAdvance ==
  ASSUME UseInv, NEW c \in Converters, Converting(c), at[c] # "enqueue",
         NEW to \in Positions \ {"claim", "enqueue"}, at' = [at EXCEPT ![c] = to],
         UNCHANGED <<region, ready, claimed, converted, world, owner, verdict, pc, dir, accepted,
                     refused>>
  PROVE  TypeInv' /\ Phases' /\ RegionsApart' /\ OfferedOnce'
<1>1. TypeInv'
  BY DEF UseInv, TypeInv, Converting
<1>2. Phases'
  BY DEF UseInv, TypeInv, Phases, Converting
<1>3. RegionsApart'
  BY DEF UseInv, TypeInv, RegionsApart, Converting
<1>4. OfferedOnce'
  BY DEF UseInv, TypeInv, OfferedOnce, Offered
<1>5. QED
  BY <1>1, <1>2, <1>3, <1>4

LEMMA UseClaim ==
  ASSUME UseInv, NEW c \in Converters, Claim(c)
  PROVE  TypeInv' /\ Phases' /\ RegionsApart' /\ OfferedOnce'
<1>1. /\ at[c] = "claim" /\ world = "reducing" /\ at' = [at EXCEPT ![c] = at'[c]]
      /\ UNCHANGED <<ready, converted, world, owner, verdict, pc, dir, accepted, refused>>
  BY DEF Claim, Moves, UseInv, TypeInv, dispatcher, scheduler, files, run
<1>2. \/ at'[c] = "ended" /\ UNCHANGED <<claimed, region>>
      \/ \E r \in Regions \ claimed :
           /\ at'[c] = "convert" /\ claimed' = claimed \cup {r}
           /\ region' = [region EXCEPT ![c] = {r}]
  BY DEF Claim, Moves, NextWork, UseInv, TypeInv
<1>3. TypeInv'
  BY <1>1, <1>2 DEF UseInv, TypeInv, Positions, Converting
<1>4. Phases'
  BY <1>1, <1>2 DEF UseInv, TypeInv, Phases, Converting
<1>5. RegionsApart'
  BY <1>1, <1>2 DEF UseInv, TypeInv, RegionsApart, Converting
<1>6. OfferedOnce'
  BY <1>1, <1>2 DEF UseInv, TypeInv, OfferedOnce, Offered
<1>7. QED
  BY <1>3, <1>4, <1>5, <1>6

LEMMA UseMarkConverted ==
  ASSUME UseInv, NEW c \in Converters, MarkConverted(c)
  PROVE  TypeInv' /\ Phases' /\ RegionsApart' /\ OfferedOnce'
<1>1. PICK r \in Regions : region[c] = {r} /\ r \notin converted /\ r \in claimed
  BY DEF MarkConverted, UseInv, TypeInv, RegionsApart, Converting
<1>2. /\ at[c] = "markConverted" /\ at' = [at EXCEPT ![c] = "enqueue"]
      /\ converted' = converted \cup {r}
      /\ ready' = [ready EXCEPT ![c] = {t \in Hood(r) : Hood(t) \subseteq converted \cup {r}}]
      /\ UNCHANGED <<region, claimed, world, owner, verdict, pc, dir, accepted, refused>>
  <2>1. The(region[c]) = r
    BY <1>1, OnlyOne
  <2>2. Frontier!Ready(r) = {t \in Hood(r) : Hood(t) \subseteq converted \cup {r}}
    BY ReadyRegions
  <2>3. QED
    BY <1>1, <2>1, <2>2 DEF MarkConverted, Moves, dispatcher, files, run
<1>3. TypeInv'
  BY <1>1, <1>2, HoodOfItself DEF UseInv, TypeInv, Positions, Converting
<1>4. Phases'
  BY <1>2 DEF UseInv, TypeInv, Phases, Converting
<1>5. RegionsApart'
  BY <1>1, <1>2 DEF UseInv, TypeInv, RegionsApart, Converting
<1>6. OfferedOnce'
  <2> DEFINE new == {t \in Hood(r) : Hood(t) \subseteq converted \cup {r}}
  <2>1. ready[c] = {}
    BY <1>2 DEF UseInv, OfferedOnce
  <2>2. \A t \in new : t \notin Offered /\ Hood(t) \subseteq converted'
    BY <1>1, <1>2, HoodSymmetric DEF UseInv, OfferedOnce
  <2>3. ready' \in [Converters -> SUBSET Regions] /\ ready'[c] = new
        /\ \A d \in Converters \ {c} : ready'[d] = ready[d]
    BY <1>2, <1>3 DEF TypeInv, UseInv
  <2> HIDE DEF new
  <2>4. \A t \in Offered' : t \in Offered \/ t \in new
    BY <1>2, <2>3 DEF Offered
  <2>5. \A d \in Converters : at'[d] # "enqueue" => ready'[d] = {}
    BY <1>2, <2>3 DEF UseInv, OfferedOnce, TypeInv
  <2>6. \A d \in Converters : ready'[d] \cap (accepted' \cup refused') = {}
    BY <1>2, <2>2, <2>3 DEF UseInv, OfferedOnce, Offered
  <2>7. \A d, e \in Converters : d # e => ready'[d] \cap ready'[e] = {}
    BY <2>2, <2>3 DEF UseInv, OfferedOnce, Offered
  <2>8. \A t \in Offered' : Hood(t) \subseteq converted'
    BY <1>2, <2>2, <2>4 DEF UseInv, OfferedOnce
  <2>9. QED
    BY <2>5, <2>6, <2>7, <2>8 DEF OfferedOnce
<1>7. QED
  BY <1>3, <1>4, <1>5, <1>6

LEMMA UseEnqueue ==
  ASSUME UseInv, NEW c \in Converters, Enqueue(c)
  PROVE  TypeInv' /\ Phases' /\ RegionsApart' /\ OfferedOnce'
<1>1. /\ at[c] = "enqueue" /\ at' = [at EXCEPT ![c] = at'[c]] /\ at'[c] \in {"claim", "ended"}
      /\ ready' = [ready EXCEPT ![c] = {}]
      /\ UNCHANGED <<region, claimed, converted, world, owner, verdict, pc, dir>>
  BY DEF Enqueue, Moves, Fails, Dispatcher!Enqueue, Dispatcher!locals, UseInv, TypeInv, scheduler,
     files, run
<1>2. accepted' \cup refused' = accepted \cup refused \cup ready[c]
  BY DEF Enqueue, Dispatcher!Enqueue
<1>3. TypeInv'
  BY <1>1 DEF UseInv, TypeInv, Positions, Converting
<1>4. Phases'
  BY <1>1 DEF UseInv, TypeInv, Phases, Converting
<1>5. RegionsApart'
  BY <1>1 DEF UseInv, TypeInv, RegionsApart, Converting
<1>6. OfferedOnce'
  <2>1. ready'[c] = {} /\ \A d \in Converters \ {c} : ready'[d] = ready[d]
    BY <1>1 DEF UseInv, TypeInv
  <2>2. \A t \in Offered' : t \in Offered
    BY <1>2, <2>1 DEF Offered
  <2>3. \A d \in Converters : ready'[d] \cap (accepted' \cup refused') = {}
    BY <1>2, <2>1 DEF UseInv, OfferedOnce
  <2>4. QED
    BY <1>1, <2>1, <2>2, <2>3 DEF UseInv, OfferedOnce, TypeInv
<1>7. QED
  BY <1>3, <1>4, <1>5, <1>6

LEMMA UseConverter ==
  ASSUME UseInv, NEW c \in Converters, ConverterStep(c)
  PROVE  TypeInv' /\ Phases' /\ RegionsApart' /\ OfferedOnce'
<1>1. CASE \/ \E answer \in Answers : ConvertChunks(c, answer)
           \/ CreateTerrain(c)
           \/ \E answer \in FileAnswers : FillTerrain(c, answer) \/ WriteEntities(c, answer)
  <2>1. PICK to \in Positions \ {"claim", "enqueue"} : at' = [at EXCEPT ![c] = to]
    BY <1>1 DEF ConvertChunks, CreateTerrain, FillTerrain, WriteEntities, Moves, Fails, Positions
  <2>2. /\ Converting(c) /\ at[c] # "enqueue"
        /\ UNCHANGED <<region, ready, claimed, converted, world, owner, verdict, pc, dir, accepted,
                       refused>>
    BY <1>1 DEF ConvertChunks, CreateTerrain, FillTerrain, WriteEntities, Moves, Converting,
       dispatcher, scheduler, files, run
  <2>3. QED
    BY <2>1, <2>2, UseAdvance
<1>2. QED
  BY <1>1, UseClaim, UseMarkConverted, UseEnqueue DEF ConverterStep

LEMMA UseStep == UseInv /\ [Next]_vars => UseInv'
<1> SUFFICES ASSUME UseInv, [Next]_vars PROVE UseInv'
  OBVIOUS
<1>1. DP!IInv'
  BY Uses, PoolStep DEF UseInv
<1>2. TypeInv' /\ Phases' /\ RegionsApart' /\ OfferedOnce'
  <2>1. CASE Returned \/ UNCHANGED vars
    BY <2>1 DEF Returned, vars, UseInv, TypeInv, Phases, RegionsApart, OfferedOnce, Offered,
       Converting, dispatcher, scheduler, converter, files, run
  <2>2. QED
    BY <2>1, UseConverter, UseTerraformer, UseRun DEF Next
<1>3. QED
  BY <1>1, <1>2 DEF UseInv

LEMMA UseInvariant == Spec => []UseInv
BY UseInit, UseStep, PTL DEF Spec

(* The conversion threads, the terraform threads and Run keep to the       *)
(* dispatcher's own specification, so that what is proved of the dispatcher*)
(* holds in the pipeline: regions are offered once, and none after         *)
(* finish(), although scheduler and dispatcher have a lock each.           *)
THEOREM DispatcherSpecCorrect == Spec => DispatcherSpec
<1>1. Init => Dispatcher!Init
  BY DEF Init
<1>2. UseInv /\ [Next]_vars => [Dispatcher!Next]_(Dispatcher!vars)
  BY Uses
<1>3. QED
  BY <1>1, <1>2, UseInvariant, PTL DEF Spec, DispatcherSpec, Dispatcher!Spec

(* The temporary directory is deleted only when all threads have ended.    *)
THEOREM DirOutlivesThreadsCorrect == Spec => []DirOutlivesThreads
<1>1. UseInv => DirOutlivesThreads
  BY DEF UseInv, TypeInv, Phases, Converting, Positions, DirOutlivesThreads
<1>2. QED
  BY <1>1, UseInvariant, PTL

-------------------------------------------------------------------------------
(* The temporary files.                                                    *)

FileTypes ==
  /\ stage \in [Workers -> {"open", "chunks", "write", "release"}]
  /\ release \in [Workers -> SUBSET Regions]
  /\ temp \in [Regions -> {"none", "partial", "whole", "removed"}]

(* A region is completed once, by the worker that has written it.          *)
CompletedOnce ==
  /\ completed \subseteq accepted /\ completed \subseteq out
  /\ queue \cap completed = {}
  /\ \A w \in Workers : pc[w] = "process" => work[w] \cap completed = {}
  /\ \A w \in Workers : pc[w] = "complete" => work[w] \subseteq out

(* The file of a converted region is whole until all its readers are done. *)
ConvertedWhole ==
  dir => \A r \in converted :
           temp[r] = "whole" \/ (temp[r] = "removed" /\ Hood(r) \subseteq completed)

WrittenWhole ==
  \A c \in Converters : at[c] \in {"writeEntities", "markConverted"} =>
    \A r \in region[c] : temp[r] = "whole"

(* A worker about to delete a file is the only one, and nobody reads it.   *)
ReleasedOnce ==
  /\ \A w \in Workers : release[w] # {} => pc[w] = "complete" /\ stage[w] = "release"
  /\ \A w \in Workers : \A s \in release[w] : temp[s] = "whole" /\ Hood(s) \subseteq completed
  /\ \A v, w \in Workers : v # w => release[v] \cap release[w] = {}

FileInv == FileTypes /\ CompletedOnce /\ ConvertedWhole /\ WrittenWhole /\ ReleasedOnce

(* What the dispatcher's invariant says of the workers' regions.           *)
LEMMA WorkFacts ==
  ASSUME UseInv
  PROVE  /\ queue \subseteq accepted /\ accepted \subseteq Regions
         /\ pc \in [Workers -> {"process", "complete", "report", "idle", "exited"}]
         /\ work \in [Workers -> SUBSET accepted]
         /\ \A w \in Workers : pc[w] \in {"process", "complete"} => \E r \in accepted : work[w] = {r}
         /\ \A v, w \in Workers : v # w => work[v] \cap work[w] = {}
         /\ \A w \in Workers : work[w] \cap queue = {}
BY DEF UseInv, DP!IInv, DP!TypeOK, DP!ActiveExact, DP!BusyWorkers, DP!Busy

LEMMA AcceptedConverted ==
  ASSUME UseInv, NEW r \in accepted
  PROVE  r \in Regions /\ Hood(r) \subseteq converted /\ r \in converted
BY WorkFacts, HoodOfItself DEF UseInv, OfferedOnce, Offered

LEMMA FileInit == Init => FileInv
BY DEF Init, Dispatcher!Init, FileInv, FileTypes, CompletedOnce, ConvertedWhole, WrittenWhole,
       ReleasedOnce

(* Steps that touch neither files nor what the workers do with them.       *)
LEMMA FilesQuiet ==
  ASSUME UseInv, FileInv,
         UNCHANGED <<stage, release, temp, completed, converted, out, pc, work, at, region, dir>>,
         accepted \subseteq accepted', queue' \cap completed = {}
  PROVE  FileInv'
<1>1. FileTypes' /\ ConvertedWhole' /\ WrittenWhole' /\ ReleasedOnce'
  BY DEF FileInv, FileTypes, ConvertedWhole, WrittenWhole, ReleasedOnce
<1>2. CompletedOnce'
  BY DEF FileInv, CompletedOnce
<1>3. QED
  BY <1>1, <1>2 DEF FileInv

(* A conversion thread writes only the file of a region not yet converted. *)
LEMMA FilesWritten ==
  ASSUME UseInv, FileInv, NEW c \in Converters, Converting(c), at[c] # "enqueue",
         NEW r \in Regions, region[c] = {r},
         NEW to \in Positions, at' = [at EXCEPT ![c] = to],
         NEW state \in {"none", "partial", "whole", "removed"},
         temp' = [temp EXCEPT ![r] = state],
         to \in {"writeEntities", "markConverted"} => state = "whole",
         UNCHANGED <<stage, release, completed, converted, out, pc, work, region, dir, accepted,
                     queue>>
  PROVE  FileInv'
<1>1. r \notin converted /\ \A d \in Converters \ {c} : Converting(d) => r \notin region[d]
  BY DEF UseInv, RegionsApart
<1>2. \A s \in converted : s \in Regions /\ temp'[s] = temp[s]
  BY <1>1 DEF UseInv, TypeInv, FileInv, FileTypes
<1>3. FileTypes' /\ CompletedOnce'
  BY DEF FileInv, FileTypes, CompletedOnce
<1>4. ConvertedWhole'
  BY <1>2 DEF FileInv, ConvertedWhole
<1>5. WrittenWhole'
  BY <1>1 DEF FileInv, FileTypes, WrittenWhole, UseInv, TypeInv, Converting
<1>6. ReleasedOnce'
  <2>1. \A w \in Workers : \A s \in release[w] : s \in converted
    BY AcceptedConverted, HoodOfItself DEF FileInv, FileTypes, ReleasedOnce, CompletedOnce
  <2>2. QED
    BY <1>2, <2>1 DEF FileInv, ReleasedOnce
<1>7. QED
  BY <1>3, <1>4, <1>5, <1>6 DEF FileInv

LEMMA FilesConverter ==
  ASSUME UseInv, FileInv, NEW c \in Converters, ConverterStep(c)
  PROVE  FileInv'
<1>1. CASE Claim(c)
  <2>1. /\ UNCHANGED <<stage, release, temp, completed, converted, out, pc, work, dir, accepted,
                       queue>>
        /\ at[c] = "claim" /\ at' = [at EXCEPT ![c] = at'[c]] /\ at'[c] \in {"convert", "ended"}
        /\ \A d \in Converters \ {c} : region'[d] = region[d]
    BY <1>1 DEF Claim, Moves, UseInv, TypeInv, dispatcher, scheduler, terraformer, files
  <2>2. WrittenWhole'
    BY <2>1 DEF FileInv, WrittenWhole, UseInv, TypeInv
  <2>3. QED
    BY <2>1, <2>2 DEF FileInv, FileTypes, CompletedOnce, ConvertedWhole, ReleasedOnce
<1>2. ASSUME Converting(c), at[c] # "enqueue",
             \E to \in Positions : /\ at' = [at EXCEPT ![c] = to]
                                   /\ to \notin {"writeEntities"}
                                   /\ to = "markConverted" => at[c] = "writeEntities",
             UNCHANGED <<temp, stage, release, completed, converted, out, pc, work, region, dir,
                         accepted, queue>>
      PROVE  FileInv'
  <2>1. PICK r \in Regions : region[c] = {r}
    BY <1>2 DEF UseInv, TypeInv
  <2>2. temp' = [temp EXCEPT ![r] = temp[r]] /\ temp[r] \in {"none", "partial", "whole", "removed"}
    BY <1>2 DEF FileInv, FileTypes
  <2>3. at[c] = "writeEntities" => temp[r] = "whole"
    BY <2>1 DEF FileInv, WrittenWhole
  <2>4. PICK to \in Positions : /\ at' = [at EXCEPT ![c] = to]
                                /\ to \notin {"writeEntities"}
                                /\ to = "markConverted" => at[c] = "writeEntities"
    BY <1>2
  <2>5. to \in {"writeEntities", "markConverted"} => temp[r] = "whole"
    BY <2>3, <2>4
  <2>6. UNCHANGED <<stage, release, completed, converted, out, pc, work, region, dir, accepted, queue>>
    BY <1>2
  <2>7. at' = [at EXCEPT ![c] = to] /\ Converting(c) /\ at[c] # "enqueue"
    BY <1>2, <2>4
  <2>8. QED
    BY <2>1, <2>2, <2>5, <2>6, <2>7, FilesWritten
<1>3. CASE \E answer \in Answers : ConvertChunks(c, answer)
  BY <1>2, <1>3 DEF ConvertChunks, Moves, Fails, Converting, Positions, dispatcher, scheduler,
     terraformer, files
<1>4. CASE \E answer \in FileAnswers : WriteEntities(c, answer)
  BY <1>2, <1>4 DEF WriteEntities, Moves, Fails, Converting, Positions, dispatcher, scheduler,
     terraformer
<1>5. CASE CreateTerrain(c)
  <2>1. Converting(c) /\ at[c] # "enqueue"
    BY <1>5 DEF CreateTerrain, Moves, Converting
  <2>2. PICK r \in Regions : region[c] = {r}
    BY <2>1 DEF UseInv, TypeInv
  <2>3. The(region[c]) = r
    BY <2>2, OnlyOne
  <2>4. /\ at' = [at EXCEPT ![c] = "fillTerrain"] /\ temp' = [temp EXCEPT ![r] = "partial"]
        /\ UNCHANGED <<stage, release, completed, converted, out, pc, work, region, dir, accepted,
                       queue>>
    BY <1>5, <2>3 DEF CreateTerrain, Moves, dispatcher, scheduler, terraformer
  <2>5. QED
    BY <2>1, <2>2, <2>4, FilesWritten DEF Positions
<1>6. ASSUME NEW answer \in FileAnswers, FillTerrain(c, answer) PROVE FileInv'
  <2>1. Converting(c) /\ at[c] = "fillTerrain"
    BY <1>6 DEF FillTerrain, Converting
  <2>2. PICK r \in Regions : region[c] = {r}
    BY <2>1 DEF UseInv, TypeInv
  <2>3. The(region[c]) = r
    BY <2>2, OnlyOne
  <2>4. UNCHANGED <<stage, release, completed, converted, out, pc, work, region, dir, accepted, queue>>
    BY <1>6 DEF FillTerrain, dispatcher, scheduler, terraformer
  <2>5. CASE answer = "ok"
    <3>1. at' = [at EXCEPT ![c] = "writeEntities"] /\ temp' = [temp EXCEPT ![r] = "whole"]
      BY <1>6, <2>3, <2>5 DEF FillTerrain, Moves
    <3>2. QED
      BY <2>1, <2>2, <2>4, <3>1, FilesWritten DEF Positions
  <2>6. CASE answer # "ok"
    <3>1. at' = [at EXCEPT ![c] = "ended"] /\ UNCHANGED temp
      BY <1>6, <2>6 DEF FillTerrain, Fails
    <3>2. QED
      BY <1>2, <2>1, <2>4, <3>1 DEF Positions
  <2>7. QED
    BY <2>5, <2>6
<1>7. CASE MarkConverted(c)
  <2>1. PICK r \in Regions : region[c] = {r} /\ r \notin converted
    BY <1>7 DEF MarkConverted, UseInv, TypeInv, RegionsApart, Converting
  <2>2. The(region[c]) = r
    BY <2>1, OnlyOne
  <2>3. /\ at[c] = "markConverted" /\ at' = [at EXCEPT ![c] = "enqueue"]
        /\ converted' = converted \cup {r}
        /\ UNCHANGED <<stage, release, temp, completed, out, pc, work, region, dir, accepted, queue>>
    BY <1>7, <2>1, <2>2 DEF MarkConverted, Moves, dispatcher, terraformer, files
  <2>4. ConvertedWhole'
    BY <2>1, <2>3 DEF FileInv, ConvertedWhole, WrittenWhole
  <2>5. WrittenWhole'
    BY <2>3 DEF FileInv, WrittenWhole, UseInv, TypeInv
  <2>6. QED
    BY <2>3, <2>4, <2>5 DEF FileInv, FileTypes, CompletedOnce, ReleasedOnce
<1>8. CASE Enqueue(c)
  <2>1. /\ UNCHANGED <<stage, release, temp, completed, converted, out, pc, work, region, dir>>
        /\ at[c] = "enqueue" /\ at' = [at EXCEPT ![c] = at'[c]] /\ at'[c] \in {"claim", "ended"}
        /\ accepted \subseteq accepted'
        /\ queue' \subseteq queue \cup ready[c]
    BY <1>8 DEF Enqueue, Moves, Fails, Dispatcher!Enqueue, Dispatcher!locals, UseInv, TypeInv,
       scheduler, terraformer, files
  <2>2. queue' \cap completed = {}
    BY <2>1 DEF FileInv, CompletedOnce, UseInv, OfferedOnce
  <2>3. WrittenWhole'
    BY <2>1 DEF FileInv, WrittenWhole, UseInv, TypeInv
  <2>4. QED
    BY <2>1, <2>2, <2>3 DEF FileInv, FileTypes, CompletedOnce, ConvertedWhole, ReleasedOnce
<1>9. QED
  BY <1>1, <1>3, <1>4, <1>5, <1>6, <1>7, <1>8 DEF ConverterStep

-------------------------------------------------------------------------------
(* The steps of a terraform thread.                                        *)

(* The files stay while a worker goes on, gives up, or waits.              *)
LEMMA FilesPool ==
  ASSUME UseInv, FileInv, NEW w \in Workers,
         UNCHANGED <<release, temp, completed, converted, at, region, dir, accepted>>,
         stage' \in [Workers -> {"open", "chunks", "write", "release"}],
         \A v \in Workers \ {w} : pc'[v] = pc[v] /\ work'[v] = work[v] /\ stage'[v] = stage[v],
         release[w] = {},
         out \subseteq out',
         queue' \cap completed = {},
         pc'[w] = "process" => work'[w] \cap completed = {},
         pc'[w] = "complete" => work'[w] \subseteq out'
  PROVE  FileInv'
<1>1. FileTypes' /\ ConvertedWhole' /\ WrittenWhole'
  BY DEF FileInv, FileTypes, ConvertedWhole, WrittenWhole
<1>2. CompletedOnce'
  BY DEF FileInv, CompletedOnce
<1>3. ReleasedOnce'
  BY DEF FileInv, ReleasedOnce
<1>4. QED
  BY <1>1, <1>2, <1>3 DEF FileInv

LEMMA FilesTakePool ==
  ASSUME UseInv, FileInv, NEW w \in Workers, Pool(w)
  PROVE  FileInv'
<1>1. UNCHANGED <<stage, release, temp, completed, converted, at, region, dir, out>>
  BY DEF Pool, scheduler, converter, terraformer, files
<1>2. pc[w] # "complete" /\ release[w] = {}
  BY DEF Pool, Dispatcher!Wait, Dispatcher!Exit, Dispatcher!Take, Dispatcher!Report, FileInv,
     ReleasedOnce
<1>3. stage' \in [Workers -> {"open", "chunks", "write", "release"}]
  BY <1>1 DEF FileInv, FileTypes
<1>4. /\ UNCHANGED accepted
      /\ \A v \in Workers \ {w} : pc'[v] = pc[v] /\ work'[v] = work[v]
      /\ queue' \subseteq queue
      /\ pc'[w] # "complete"
      /\ pc'[w] = "process" => work'[w] \subseteq queue
  <2>1. CASE Dispatcher!Wait(w) \/ Dispatcher!Exit(w)
    BY <2>1, WorkFacts DEF Dispatcher!Wait, Dispatcher!Exit, Dispatcher!history, Dispatcher!locals
  <2>2. CASE Dispatcher!Take(w)
    BY <2>2, WorkFacts DEF Dispatcher!Take, Dispatcher!Top, Dispatcher!Popped, Dispatcher!history
  <2>3. CASE Dispatcher!Report(w)
    BY <2>3, WorkFacts DEF Dispatcher!Report, Dispatcher!QueueAfter, Dispatcher!history
  <2>4. QED
    BY <2>1, <2>2, <2>3 DEF Pool
<1>5. queue \cap completed = {}
  BY DEF FileInv, CompletedOnce
<1>6. QED
  BY <1>1, <1>2, <1>3, <1>4, <1>5, FilesPool

(* fProcess goes on, fails, or succeeds with the region written.           *)
LEMMA FilesProcess ==
  ASSUME UseInv, FileInv, NEW w \in Workers, NEW answer \in Answers,
         OpenRegion(w, answer) \/ TerraformChunks(w, answer) \/ WriteRegion(w, answer)
  PROVE  FileInv'
<1>1. /\ UNCHANGED <<release, temp, completed, converted, at, region, dir, accepted, work, queue>>
      /\ pc[w] = "process"
  <2>1. pc[w] = "process" /\ UNCHANGED <<release, temp, completed, converted, at, region, dir>>
    BY DEF OpenRegion, TerraformChunks, WriteRegion, Within, scheduler, converter, files
  <2>2. UNCHANGED <<accepted, work, queue>>
    BY DEF OpenRegion, TerraformChunks, WriteRegion, Dispatcher!Process, Dispatcher!history,
       dispatcher
  <2>3. QED
    BY <2>1, <2>2
<1>2. release[w] = {}
  BY <1>1 DEF FileInv, ReleasedOnce
<1>3. \/ UNCHANGED pc
      \/ \E place \in {"complete", "report"} : pc' = [pc EXCEPT ![w] = place]
  BY DEF OpenRegion, TerraformChunks, WriteRegion, Dispatcher!Process, dispatcher
<1>4. \/ UNCHANGED stage
      \/ \E now \in {"open", "chunks", "write"} : stage' = [stage EXCEPT ![w] = now]
  BY DEF OpenRegion, TerraformChunks, WriteRegion, Enters
<1>5. out \subseteq out' /\ (pc'[w] = "complete" => work[w] \subseteq out')
  BY <1>1, WorkFacts DEF OpenRegion, TerraformChunks, WriteRegion, Dispatcher!Process, dispatcher, files
<1>6. /\ \A v \in Workers \ {w} : pc'[v] = pc[v] /\ work'[v] = work[v] /\ stage'[v] = stage[v]
      /\ stage' \in [Workers -> {"open", "chunks", "write", "release"}]
  BY <1>1, <1>3, <1>4, WorkFacts DEF FileInv, FileTypes
<1>7. queue' \cap completed = {} /\ work'[w] \cap completed = {}
  BY <1>1 DEF FileInv, CompletedOnce
<1>8. QED
  BY <1>1, <1>2, <1>5, <1>6, <1>7, FilesPool

(* The last reader of a file's region makes it releasable, and only then.  *)
LEMMA FilesMarkCompleted ==
  ASSUME UseInv, FileInv, NEW w \in Workers, MarkCompleted(w)
  PROVE  FileInv'
<1>1. PICK r \in accepted : work[w] = {r}
  BY WorkFacts DEF MarkCompleted, Within
<1>2. The(work[w]) = r
  BY <1>1, OnlyOne
<1>3. /\ pc[w] = "complete" /\ stage[w] = "open" /\ release[w] = {}
      /\ UNCHANGED <<temp, converted, at, region, dir, out>>
  BY DEF MarkCompleted, Within, converter, files, FileInv, ReleasedOnce
<1>4. CASE r \notin completed /\ Hood(r) \subseteq converted
  <2> DEFINE new == {t \in Hood(r) : Hood(t) \subseteq completed \cup {r}}
  <2>1. /\ stage' = [stage EXCEPT ![w] = "release"] /\ release' = [release EXCEPT ![w] = new]
        /\ completed' = completed \cup {r}
        /\ UNCHANGED <<pc, work, queue, accepted>>
    BY <1>2, <1>4, ReleasableRegions DEF MarkCompleted, Enters, dispatcher
  <2>2. r \in Regions /\ r \in converted /\ dir
    BY <1>3, AcceptedConverted, WorkFacts DEF UseInv, Phases
  <2>3. \A t \in new : t \in Regions /\ r \in Hood(t) /\ t \in converted
    BY <1>4, <2>2, HoodSymmetric
  <2>4. \A t \in new : temp[t] = "whole" /\ Hood(t) \subseteq completed'
    BY <1>4, <2>1, <2>2, <2>3 DEF FileInv, ConvertedWhole
  <2>5. \A v \in Workers : release[v] \cap new = {}
    BY <1>4, <2>3 DEF FileInv, ReleasedOnce
  <2>6. new \subseteq Regions
    BY <2>3
  <2> HIDE DEF new
  <2>7. FileTypes'
    BY <1>3, <2>1, <2>6 DEF FileInv, FileTypes
  <2>8. \A v \in Workers : release'[v] = IF v = w THEN new ELSE release[v]
    BY <2>1 DEF FileInv, FileTypes
  <2>9. \A v \in Workers : stage'[v] = IF v = w THEN "release" ELSE stage[v]
    BY <2>1 DEF FileInv, FileTypes
  <2>10. ReleasedOnce'
    <3>1. \A v \in Workers : release'[v] # {} => pc'[v] = "complete" /\ stage'[v] = "release"
      BY <1>3, <2>1, <2>8, <2>9 DEF FileInv, ReleasedOnce
    <3>2. \A v \in Workers : \A s \in release'[v] :
            temp'[s] = "whole" /\ Hood(s) \subseteq completed'
      BY <1>3, <2>1, <2>4, <2>8 DEF FileInv, ReleasedOnce
    <3>3. \A u, v \in Workers : u # v => release'[u] \cap release'[v] = {}
      BY <2>5, <2>8 DEF FileInv, ReleasedOnce
    <3>4. QED
      BY <3>1, <3>2, <3>3 DEF ReleasedOnce
  <2>11. CompletedOnce'
    BY <1>1, <1>3, <2>1, WorkFacts DEF FileInv, CompletedOnce
  <2>12. ConvertedWhole' /\ WrittenWhole'
    BY <1>3, <2>1 DEF FileInv, ConvertedWhole, WrittenWhole
  <2>13. QED
    BY <2>7, <2>10, <2>11, <2>12 DEF FileInv
<1>5. CASE ~(r \notin completed /\ Hood(r) \subseteq converted)
  <2>1. Dispatcher!Complete(w, FALSE) /\ UNCHANGED <<completed, stage, release>>
    BY <1>2, <1>5 DEF MarkCompleted
  <2>2. /\ UNCHANGED <<accepted, work, queue>> /\ pc'[w] = "report"
        /\ \A v \in Workers \ {w} : pc'[v] = pc[v]
    BY <2>1, WorkFacts DEF Dispatcher!Complete
  <2>3. stage' \in [Workers -> {"open", "chunks", "write", "release"}] /\ queue' \cap completed = {}
    BY <2>1, <2>2 DEF FileInv, FileTypes, CompletedOnce
  <2>4. QED
    BY <1>3, <2>1, <2>2, <2>3, FilesPool
<1>6. QED
  BY <1>4, <1>5

(* After the completion the worker reports, with nothing left to delete.   *)
LEMMA FilesCompleted ==
  ASSUME UseInv, FileInv, NEW w \in Workers, NEW ok \in BOOLEAN, Dispatcher!Complete(w, ok),
         stage' = [stage EXCEPT ![w] = "open"], release' = [release EXCEPT ![w] = {}],
         UNCHANGED <<temp, completed, converted, at, region, dir, out>>
  PROVE  FileInv'
<1>1. /\ UNCHANGED <<accepted, work, queue>> /\ pc'[w] = "report"
      /\ \A v \in Workers \ {w} : pc'[v] = pc[v]
  BY WorkFacts DEF Dispatcher!Complete
<1>2. \A v \in Workers : /\ release'[v] = IF v = w THEN {} ELSE release[v]
                         /\ stage'[v] = IF v = w THEN "open" ELSE stage[v]
  BY DEF FileInv, FileTypes
<1>3. FileTypes' /\ ConvertedWhole' /\ WrittenWhole'
  BY DEF FileInv, FileTypes, ConvertedWhole, WrittenWhole
<1>4. CompletedOnce'
  BY <1>1 DEF FileInv, CompletedOnce
<1>5. ReleasedOnce'
  BY <1>1, <1>2 DEF FileInv, ReleasedOnce
<1>6. QED
  BY <1>3, <1>4, <1>5 DEF FileInv

(* A file is removed: no other worker is about to, and its region is       *)
(* converted, so that no conversion thread is writing it.                  *)
LEMMA FilesRemoved ==
  ASSUME UseInv, FileInv, NEW w \in Workers, NEW s \in release[w],
         temp' = [temp EXCEPT ![s] = "removed"],
         release' = [release EXCEPT ![w] = @ \ {s}],
         UNCHANGED <<stage, completed, converted, at, region, dir, out, pc, work, queue, accepted>>
  PROVE  FileInv'
<1>1. s \in Regions /\ Hood(s) \subseteq completed
  BY DEF FileInv, FileTypes, ReleasedOnce
<1>2. s \in converted
  BY <1>1, AcceptedConverted, HoodOfItself DEF FileInv, CompletedOnce
<1>3. FileTypes' /\ CompletedOnce'
  BY <1>1 DEF FileInv, FileTypes, CompletedOnce
<1>4. ConvertedWhole'
  BY <1>1 DEF FileInv, FileTypes, ConvertedWhole, UseInv, TypeInv
<1>5. WrittenWhole'
  BY <1>2 DEF FileInv, FileTypes, WrittenWhole, UseInv, TypeInv, RegionsApart, Converting
<1>6. ReleasedOnce'
  <2>1. \A v \in Workers : release'[v] = IF v = w THEN release[w] \ {s} ELSE release[v]
    BY DEF FileInv, FileTypes
  <2>2. \A v \in Workers : s \notin release'[v] /\ release'[v] \subseteq release[v]
    BY <2>1 DEF FileInv, ReleasedOnce
  <2>3. \A v \in Workers : \A t \in release'[v] : temp'[t] = temp[t]
    BY <2>2 DEF FileInv, FileTypes
  <2>4. QED
    BY <2>2, <2>3 DEF FileInv, ReleasedOnce
<1>7. QED
  BY <1>3, <1>4, <1>5, <1>6 DEF FileInv

LEMMA FilesTerraformer ==
  ASSUME UseInv, FileInv, NEW w \in Workers, TerraformerStep(w)
  PROVE  FileInv'
<1>1. ASSUME NEW answer \in FileAnswers, ReleaseNext(w, answer) PROVE FileInv'
  <2>1. UNCHANGED <<completed, converted, at, region, dir, out>>
    BY <1>1 DEF ReleaseNext, scheduler, converter
  <2>2. PICK s \in release[w] :
          \/ /\ temp' = [temp EXCEPT ![s] = "removed"]
             /\ release' = [release EXCEPT ![w] = @ \ {s}]
             /\ UNCHANGED <<dispatcher, stage>>
          \/ /\ Dispatcher!Complete(w, FALSE)
             /\ Enters(w, "open")
             /\ release' = [release EXCEPT ![w] = {}]
             /\ UNCHANGED temp
    BY <1>1 DEF ReleaseNext, First
  <2>3. CASE UNCHANGED dispatcher /\ temp' = [temp EXCEPT ![s] = "removed"]
             /\ release' = [release EXCEPT ![w] = @ \ {s}] /\ UNCHANGED stage
    BY <2>1, <2>3, FilesRemoved DEF dispatcher
  <2>4. CASE Dispatcher!Complete(w, FALSE) /\ Enters(w, "open")
             /\ release' = [release EXCEPT ![w] = {}] /\ UNCHANGED temp
    BY <2>1, <2>4, FilesCompleted DEF Enters
  <2>5. QED
    BY <2>2, <2>3, <2>4
<1>2. CASE Released(w)
  <2>1. release[w] = {} /\ Dispatcher!Complete(w, TRUE) /\ stage' = [stage EXCEPT ![w] = "open"]
        /\ UNCHANGED <<release, temp, completed, converted, at, region, dir, out>>
    BY <1>2 DEF Released, Enters, scheduler, converter, files
  <2>2. release' = [release EXCEPT ![w] = {}]
    BY <2>1 DEF FileInv, FileTypes
  <2>3. QED
    BY <2>1, <2>2, FilesCompleted
<1>3. QED
  BY <1>1, <1>2, FilesTakePool, FilesProcess, FilesMarkCompleted DEF TerraformerStep, Answers

LEMMA FilesRun ==
  ASSUME UseInv, FileInv, RunStep
  PROVE  FileInv'
<1>1. CASE DeleteTempDir
  <2>1. /\ UNCHANGED <<stage, release, completed, converted, out, pc, work, at, region, accepted, queue>>
        /\ ~dir' /\ owner = "gone" /\ verdict # "none"
        /\ temp' = [r \in Regions |-> IF temp[r] = "none" THEN "none" ELSE "removed"]
    BY <1>1 DEF DeleteTempDir, MayDeleteDir, dispatcher, scheduler, converter, terraformer
  <2>2. /\ \A c \in Converters : ~Converting(c)
        /\ \A w \in Workers : release[w] = {}
    BY <2>1 DEF UseInv, Phases, FileInv, ReleasedOnce
  <2>3. QED
    BY <2>1, <2>2 DEF FileInv, FileTypes, CompletedOnce, ConvertedWhole, WrittenWhole, ReleasedOnce,
       Converting
<1>2. CASE ~DeleteTempDir
  <2>1. UNCHANGED <<stage, release, temp, completed, converted, out, at, region, dir>>
    BY <1>2 DEF RunStep, PrepareWorld, ReturnWorld, Finish, Judge, DestroyDispatcher, Return,
       scheduler, converter, terraformer, files
  <2>2. UNCHANGED <<accepted, pc, work>> /\ queue' \subseteq queue
    BY RunUses DEF dispatcher, Dispatcher!BeginFinish, Dispatcher!Stop, Dispatcher!OwnerStep,
       Dispatcher!RetryFinish, Dispatcher!NotifyStop, Dispatcher!Join, Dispatcher!locals,
       Dispatcher!history
  <2>3. queue' \cap completed = {}
    BY <2>2 DEF FileInv, CompletedOnce
  <2>4. QED
    BY <2>1, <2>2, <2>3, FilesQuiet
<1>3. QED
  BY <1>1, <1>2

LEMMA FileStep == UseInv /\ FileInv /\ [Next]_vars => FileInv'
<1> SUFFICES ASSUME UseInv, FileInv, [Next]_vars PROVE FileInv'
  OBVIOUS
<1>1. CASE Returned \/ UNCHANGED vars
  <2>1. UNCHANGED <<dispatcher, scheduler, converter, terraformer, files>>
    BY <1>1 DEF Returned, vars
  <2>2. queue \cap completed = {}
    BY DEF FileInv, CompletedOnce
  <2>3. QED
    BY <2>1, <2>2, FilesQuiet DEF dispatcher, scheduler, converter, terraformer, files
<1>2. QED
  BY <1>1, FilesConverter, FilesTerraformer, FilesRun DEF Next

LEMMA FileInvariant == Spec => [](UseInv /\ FileInv)
BY UseInit, UseStep, FileInit, FileStep, PTL DEF Spec

(* TerraformRegion reads only whole files, in its whole neighbourhood:     *)
(* a file goes only when each of its readers is completed, and a region    *)
(* that is being terraformed is one of the readers.                        *)
THEOREM SourcesWholeCorrect == Spec => []SourcesWhole
<1>1. UseInv /\ FileInv => SourcesWhole
  <2> SUFFICES ASSUME UseInv, FileInv, NEW w \in Workers, NEW r \in work[w],
                      pc[w] = "process", NEW s \in Hood(r)
               PROVE  temp[s] = "whole"
    BY DEF SourcesWhole
  <2>1. r \in Regions /\ s \in converted /\ r \in Hood(s)
    BY WorkFacts, AcceptedConverted, HoodSymmetric
  <2>2. dir /\ r \notin completed
    BY DEF UseInv, Phases, FileInv, CompletedOnce
  <2>3. QED
    BY <2>1, <2>2 DEF FileInv, ConvertedWhole
<1>2. QED
  BY <1>1, FileInvariant, PTL

(* completeTerraformRegion deletes each file once and after its last       *)
(* reader has written its region.                                          *)
THEOREM ReleasesValidCorrect == Spec => []ReleasesValid
<1>1. UseInv /\ FileInv => ReleasesValid
  BY DEF FileInv, ReleasedOnce, CompletedOnce, ReleasesValid
<1>2. QED
  BY <1>1, FileInvariant, PTL

-------------------------------------------------------------------------------
(* A dimension that Run keeps.                                             *)

EntitiesWritten ==
  /\ converted \subseteq entities /\ entities \subseteq Regions
  /\ \A c \in Converters : at[c] = "markConverted" => region[c] \subseteq entities

OutAccepted == out \subseteq accepted

(* A worker that cannot delete a file reports a failure.                   *)
ReadFilesGo ==
  \A t \in Regions : Hood(t) \subseteq completed =>
    \/ temp[t] = "removed"
    \/ status # {}
    \/ \E w \in Workers : t \in release[w] \/ failed[w]

(* After the verdict the pool is at rest, and nobody writes a file.        *)
VerdictFinal ==
  verdict # "none" =>
    /\ owner \notin {"open", "finishing"}
    /\ queue = {} /\ \A w \in Workers : pc[w] \in {"idle", "exited"}
    /\ verdict = "ok" => status = {} /\ completed = Regions

KeepInv == EntitiesWritten /\ OutAccepted /\ ReadFilesGo /\ VerdictFinal

LEMMA KeepInit == Init => KeepInv
<1> SUFFICES ASSUME Init PROVE KeepInv
  OBVIOUS
<1>1. EntitiesWritten /\ OutAccepted /\ VerdictFinal
  BY DEF Init, EntitiesWritten, OutAccepted, VerdictFinal
<1>2. ReadFilesGo
  BY HoodOfItself DEF Init, ReadFilesGo
<1>3. QED
  BY <1>1, <1>2 DEF KeepInv

(* The files of completed neighbourhoods belong to converted regions.      *)
LEMMA CompletedHood ==
  ASSUME UseInv, FileInv, NEW t \in Regions, Hood(t) \subseteq completed
  PROVE  t \in converted
BY HoodOfItself, AcceptedConverted DEF FileInv, CompletedOnce

LEMMA KeepConverter ==
  ASSUME UseInv, FileInv, KeepInv, NEW c \in Converters, ConverterStep(c)
  PROVE  KeepInv'
<1>1. UNCHANGED <<release, completed, failed, status, out, pc, verdict, owner>>
  BY DEF ConverterStep, Claim, ConvertChunks, CreateTerrain, FillTerrain, WriteEntities,
     MarkConverted, Enqueue, Dispatcher!Enqueue, Dispatcher!locals, dispatcher, scheduler,
     terraformer, files, run
<1>2. accepted \subseteq accepted' /\ (queue' = queue \/ at[c] = "enqueue")
  BY DEF ConverterStep, Claim, ConvertChunks, CreateTerrain, FillTerrain, WriteEntities,
     MarkConverted, Enqueue, Dispatcher!Enqueue, dispatcher
<1>3. OutAccepted'
  BY <1>1, <1>2 DEF KeepInv, OutAccepted
<1>4. VerdictFinal'
  BY <1>1, <1>2 DEF KeepInv, VerdictFinal, UseInv, Phases, Converting
<1>5. ReadFilesGo'
  <2>1. temp' = temp \/ \E r \in region[c] :
          r \in Regions \ converted /\ \A t \in Regions \ {r} : temp'[t] = temp[t]
    <3>1. CASE CreateTerrain(c) \/ \E answer \in FileAnswers : FillTerrain(c, answer)
      <4>1. at[c] \in {"writeTerrain", "fillTerrain"}
        BY <3>1 DEF CreateTerrain, FillTerrain, Moves
      <4>2. PICK r \in Regions : region[c] = {r} /\ r \notin converted
        BY <4>1 DEF UseInv, TypeInv, RegionsApart, Converting
      <4>3. The(region[c]) = r
        BY <4>2, OnlyOne
      <4>4. temp' = temp \/ \E now : temp' = [temp EXCEPT ![r] = now]
        BY <3>1, <4>3 DEF CreateTerrain, FillTerrain
      <4>5. QED
        BY <4>2, <4>4 DEF FileInv, FileTypes
    <3>2. CASE ~(CreateTerrain(c) \/ \E answer \in FileAnswers : FillTerrain(c, answer))
      BY <3>2 DEF ConverterStep, Claim, ConvertChunks, WriteEntities, MarkConverted, Enqueue, files
    <3>3. QED
      BY <3>1, <3>2
  <2>2. QED
    BY <1>1, <2>1, CompletedHood DEF KeepInv, ReadFilesGo
<1>6. EntitiesWritten'
  <2>1. CASE Claim(c)
    <3>1. /\ UNCHANGED <<converted, entities>> /\ at' = [at EXCEPT ![c] = at'[c]]
          /\ at'[c] \in {"convert", "ended"}
          /\ \A d \in Converters \ {c} : region'[d] = region[d]
      BY <2>1 DEF Claim, Moves, UseInv, TypeInv, scheduler, files
    <3>2. QED
      BY <3>1 DEF KeepInv, EntitiesWritten, UseInv, TypeInv
  <2>2. CASE \/ \E answer \in Answers : ConvertChunks(c, answer)
             \/ CreateTerrain(c)
             \/ \E answer \in FileAnswers : FillTerrain(c, answer)
             \/ Enqueue(c)
    <3>1. /\ UNCHANGED <<converted, entities, region>>
          /\ \E to \in Positions \ {"markConverted"} : at' = [at EXCEPT ![c] = to]
      BY <2>2 DEF ConvertChunks, CreateTerrain, FillTerrain, Enqueue, Moves, Fails, Positions,
         scheduler, files
    <3>2. QED
      BY <3>1 DEF KeepInv, EntitiesWritten, UseInv, TypeInv
  <2>3. CASE \E answer \in FileAnswers : WriteEntities(c, answer)
    <3>1. /\ UNCHANGED <<converted, region>> /\ entities \subseteq entities'
          /\ entities' \subseteq entities \cup region[c]
          /\ \/ at' = [at EXCEPT ![c] = "ended"]
             \/ at' = [at EXCEPT ![c] = "markConverted"] /\ region[c] \subseteq entities'
      BY <2>3 DEF WriteEntities, Moves, Fails, scheduler
    <3>2. QED
      BY <3>1 DEF KeepInv, EntitiesWritten, UseInv, TypeInv
  <2>4. CASE MarkConverted(c)
    <3>1. PICK r \in Regions : region[c] = {r}
      BY <2>4 DEF MarkConverted, UseInv, TypeInv, Converting
    <3>2. The(region[c]) = r
      BY <3>1, OnlyOne
    <3>3. /\ UNCHANGED <<entities, region>> /\ converted' \subseteq converted \cup {r}
          /\ at[c] = "markConverted" /\ \E to \in {"enqueue", "ended"} : at' = [at EXCEPT ![c] = to]
      BY <2>4, <3>2 DEF MarkConverted, Moves, Fails, files
    <3>4. QED
      BY <3>1, <3>3 DEF KeepInv, EntitiesWritten, UseInv, TypeInv
  <2>5. QED
    BY <2>1, <2>2, <2>3, <2>4 DEF ConverterStep
<1>7. QED
  BY <1>3, <1>4, <1>5, <1>6 DEF KeepInv

(* After the verdict no worker takes, processes or completes a region.     *)
LEMMA RestingWorker ==
  ASSUME UseInv, KeepInv, NEW w \in Workers, TerraformerStep(w), verdict # "none"
  PROVE  Dispatcher!Wait(w) \/ Dispatcher!Exit(w)
<1>1. pc[w] \in {"idle", "exited"} /\ queue = {}
  BY DEF KeepInv, VerdictFinal
<1>2. ~Dispatcher!Take(w)
  BY <1>1 DEF Dispatcher!Take, Dispatcher!MustWake, Dispatcher!MayExit
<1>3. QED
  BY <1>1, <1>2 DEF TerraformerStep, Pool, OpenRegion, WriteRegion, ReleaseNext, TerraformChunks,
     MarkCompleted, Released, Within, Dispatcher!Report

LEMMA KeepVerdict ==
  ASSUME UseInv, KeepInv, NEW w \in Workers, TerraformerStep(w)
  PROVE  VerdictFinal'
<1>1. UNCHANGED <<verdict, owner>>
  BY TerraformerFrame
<1>2. CASE verdict # "none"
  <2>1. CASE Dispatcher!Wait(w) \/ Dispatcher!Exit(w)
    <3>1. UNCHANGED <<queue, status>> /\ (UNCHANGED pc \/ pc' = [pc EXCEPT ![w] = "exited"])
      BY <2>1 DEF Dispatcher!Wait, Dispatcher!Exit, Dispatcher!locals
    <3>2. UNCHANGED completed
      BY <2>1, <1>2 DEF TerraformerStep, Pool, OpenRegion, WriteRegion, ReleaseNext,
         TerraformChunks, MarkCompleted, Released, Within, Dispatcher!Wait, Dispatcher!Exit,
         scheduler
    <3>3. QED
      BY <1>1, <3>1, <3>2, WorkFacts DEF KeepInv, VerdictFinal
  <2>2. QED
    BY <1>2, <2>1, RestingWorker
<1>3. QED
  BY <1>1, <1>2 DEF VerdictFinal

(* A worker that takes, waits or reports leaves the files alone; a failure *)
(* it forgets is in fStatus.                                               *)
LEMMA KeepPool ==
  ASSUME UseInv, FileInv, KeepInv, NEW w \in Workers, Pool(w)
  PROVE  ReadFilesGo'
<1>1. UNCHANGED <<temp, release, completed>>
  BY DEF Pool, terraformer, scheduler, files
<1>2. CASE Dispatcher!Report(w)
  <2>1. \A v \in Workers : failed[v] /\ v # w => failed'[v]
    BY <1>2 DEF Dispatcher!Report, UseInv, DP!IInv, DP!TypeOK
  <2>2. status # {} \/ failed[w] => status' # {}
    BY <1>2, WorkFacts DEF Dispatcher!Report, Dispatcher!FirstError, UseInv, DP!IInv,
       DP!ActiveExact, DP!BusyWorkers, DP!Busy
  <2>3. QED
    BY <1>1, <2>1, <2>2 DEF KeepInv, ReadFilesGo
<1>3. CASE Dispatcher!Wait(w) \/ Dispatcher!Exit(w) \/ Dispatcher!Take(w)
  <2>1. UNCHANGED <<status, failed>>
    BY <1>3 DEF Dispatcher!Wait, Dispatcher!Exit, Dispatcher!Take, Dispatcher!locals
  <2>2. QED
    BY <1>1, <2>1 DEF KeepInv, ReadFilesGo
<1>4. QED
  BY <1>2, <1>3 DEF Pool

LEMMA KeepWorkers ==
  ASSUME UseInv, FileInv, KeepInv, NEW w \in Workers, TerraformerStep(w)
  PROVE  ReadFilesGo'
<1>0. failed \in [Workers -> BOOLEAN] /\ (pc[w] # "report" => ~failed[w])
  BY DEF UseInv, DP!IInv, DP!TypeOK, DP!NothingLost
<1>1. ASSUME NEW answer \in Answers,
             OpenRegion(w, answer) \/ TerraformChunks(w, answer) \/ WriteRegion(w, answer)
      PROVE  ReadFilesGo'
  <2>1. UNCHANGED <<temp, release, completed, status>> /\ pc[w] = "process"
    BY <1>1 DEF OpenRegion, TerraformChunks, WriteRegion, Within, Dispatcher!Process, dispatcher,
       scheduler, files
  <2>2. \A v \in Workers : failed[v] => failed'[v]
    BY <1>0, <1>1, <2>1 DEF OpenRegion, TerraformChunks, WriteRegion, Dispatcher!Process, dispatcher
  <2>3. QED
    BY <2>1, <2>2 DEF KeepInv, ReadFilesGo
<1>2. ASSUME Dispatcher!Complete(w, FALSE), UNCHANGED <<temp, completed>> PROVE ReadFilesGo'
  <2>1. failed'[w] /\ \A t \in Regions : temp'[t] = temp[t]
    BY <1>0, <1>2 DEF Dispatcher!Complete
  <2>2. QED
    BY <2>1 DEF ReadFilesGo
<1>3. CASE MarkCompleted(w)
  <2>1. PICK r \in accepted : work[w] = {r}
    BY <1>3, WorkFacts DEF MarkCompleted, Within
  <2>2. The(work[w]) = r
    BY <2>1, OnlyOne
  <2>3. UNCHANGED temp /\ release[w] = {}
    BY <1>3 DEF MarkCompleted, Within, files, FileInv, ReleasedOnce
  <2>4. CASE r \notin completed /\ Hood(r) \subseteq converted
    <3>1. /\ release' = [release EXCEPT ![w] =
                           {t \in Hood(r) : Hood(t) \subseteq completed \cup {r}}]
          /\ completed' = completed \cup {r}
          /\ UNCHANGED <<failed, status>>
      BY <1>3, <2>2, <2>4, ReleasableRegions DEF MarkCompleted, dispatcher
    <3>2. \A v \in Workers : release[v] \subseteq release'[v]
      BY <2>3, <3>1 DEF FileInv, FileTypes
    <3>3. \A t \in Regions : Hood(t) \subseteq completed' /\ ~(Hood(t) \subseteq completed)
            => t \in release'[w]
      BY <3>1, HoodSymmetric DEF FileInv, FileTypes
    <3>4. QED
      BY <2>3, <3>1, <3>2, <3>3 DEF KeepInv, ReadFilesGo
  <2>5. CASE ~(r \notin completed /\ Hood(r) \subseteq converted)
    BY <1>2, <1>3, <2>2, <2>3, <2>5 DEF MarkCompleted
  <2>6. QED
    BY <2>4, <2>5
<1>4. ASSUME NEW answer \in FileAnswers, ReleaseNext(w, answer) PROVE ReadFilesGo'
  <2>1. UNCHANGED completed
    BY <1>4 DEF ReleaseNext, scheduler
  <2>2. PICK s \in release[w] :
          \/ /\ temp' = [temp EXCEPT ![s] = "removed"]
             /\ release' = [release EXCEPT ![w] = @ \ {s}]
             /\ UNCHANGED dispatcher
          \/ Dispatcher!Complete(w, FALSE) /\ UNCHANGED temp
    BY <1>4 DEF ReleaseNext, First
  <2>3. CASE /\ temp' = [temp EXCEPT ![s] = "removed"]
             /\ release' = [release EXCEPT ![w] = @ \ {s}]
             /\ UNCHANGED dispatcher
    <3>1. /\ \A t \in Regions \ {s} : temp'[t] = temp[t]
          /\ s \in Regions /\ temp'[s] = "removed"
          /\ \A v \in Workers : release[v] \subseteq release'[v] \cup {s}
          /\ UNCHANGED <<failed, status>>
      BY <2>3 DEF FileInv, FileTypes, dispatcher
    <3>2. QED
      BY <2>1, <3>1 DEF KeepInv, ReadFilesGo
  <2>4. QED
    BY <1>2, <2>1, <2>2, <2>3
<1>5. CASE Released(w)
  <2>1. /\ UNCHANGED <<temp, release, completed, status>>
        /\ pc[w] = "complete" /\ \A v \in Workers : failed[v] => failed'[v]
    BY <1>0, <1>5 DEF Released, Within, Dispatcher!Complete, scheduler, files
  <2>2. QED
    BY <2>1 DEF KeepInv, ReadFilesGo
<1>6. QED
  BY <1>1, <1>3, <1>4, <1>5, KeepPool DEF TerraformerStep, Answers

LEMMA KeepTerraformer ==
  ASSUME UseInv, FileInv, KeepInv, NEW w \in Workers, TerraformerStep(w)
  PROVE  KeepInv'
<1>1. UNCHANGED <<converted, at, region, accepted, entities>>
  BY TerraformerFrame DEF converter, TerraformerStep, Pool, OpenRegion, WriteRegion, ReleaseNext,
     TerraformChunks, MarkCompleted, Released, files
<1>2. EntitiesWritten'
  BY <1>1 DEF KeepInv, EntitiesWritten
<1>3. OutAccepted'
  <2>1. out' \subseteq out \cup work[w]
    BY DEF TerraformerStep, Pool, OpenRegion, WriteRegion, ReleaseNext, TerraformChunks,
       MarkCompleted, Released, files
  <2>2. QED
    BY <1>1, <2>1, WorkFacts DEF KeepInv, OutAccepted
<1>4. QED
  BY <1>2, <1>3, KeepVerdict, KeepWorkers DEF KeepInv

LEMMA KeepRun ==
  ASSUME UseInv, FileInv, KeepInv, RunStep
  PROVE  KeepInv'
<1>1. UNCHANGED <<converted, at, region, accepted, entities, out, completed, release, status, failed,
                  pc>>
  BY DEF RunStep, PrepareWorld, ReturnWorld, Finish, Judge, DestroyDispatcher, DeleteTempDir,
     Return, Dispatcher!BeginFinish, Dispatcher!RetryFinish, Dispatcher!Stop,
     Dispatcher!NotifyStop, Dispatcher!Join, Dispatcher!locals, Dispatcher!history, dispatcher,
     scheduler, converter, terraformer, files
<1>2. EntitiesWritten' /\ OutAccepted'
  BY <1>1 DEF KeepInv, EntitiesWritten, OutAccepted
<1>3. ReadFilesGo'
  <2>1. CASE DeleteTempDir
    <3>1. temp' = [r \in Regions |-> IF temp[r] = "none" THEN "none" ELSE "removed"] /\ dir
      BY <2>1 DEF DeleteTempDir
    <3>2. \A t \in Regions : Hood(t) \subseteq completed => temp[t] # "none"
      BY <3>1, CompletedHood DEF FileInv, ConvertedWhole
    <3>3. QED
      BY <1>1, <3>1, <3>2 DEF ReadFilesGo
  <2>2. CASE ~DeleteTempDir
    <3>1. UNCHANGED temp
      BY <2>2 DEF RunStep, PrepareWorld, ReturnWorld, Finish, Judge, DestroyDispatcher, Return,
         files
    <3>2. QED
      BY <1>1, <3>1 DEF KeepInv, ReadFilesGo
  <2>3. QED
    BY <2>1, <2>2
<1>4. VerdictFinal'
  <2>1. CASE Judge
    <3>1. owner = "returned" /\ UNCHANGED <<owner, queue>> /\ verdict' = Judgement
      BY <2>1 DEF Judge, dispatcher
    <3>2. queue = {} /\ DP!Cardinality(DP!BusyWorkers) = 0
      BY <3>1 DEF UseInv, DP!IInv, DP!FinishVerdict, DP!Quiet, DP!ActiveExact
    <3>3. DP!BusyWorkers = {}
      BY <3>2, PoolAssumption, DP!WorkerCount DEF DP!BusyWorkers
    <3>4. \A w \in Workers : pc[w] \in {"idle", "exited"}
      BY <3>3, WorkFacts DEF DP!BusyWorkers, DP!Busy
    <3>5. QED
      BY <1>1, <3>1, <3>2, <3>4 DEF VerdictFinal, Judgement, AllCompleted
  <2>2. CASE Finish
    BY <1>1, <2>2 DEF Finish, Dispatcher!BeginFinish, Dispatcher!RetryFinish, KeepInv, VerdictFinal,
       run
  <2>3. CASE DestroyDispatcher
    BY <1>1, <2>3 DEF DestroyDispatcher, Dispatcher!Stop, Dispatcher!NotifyStop, Dispatcher!Join,
       KeepInv, VerdictFinal, run
  <2>4. CASE \/ \E answer \in FileAnswers : PrepareWorld(answer) \/ ReturnWorld(answer)
             \/ DeleteTempDir
             \/ \E answer \in {"ok", "cancel"} : Return(answer)
    <3>1. UNCHANGED <<verdict, owner, queue>>
      BY <2>4 DEF PrepareWorld, ReturnWorld, DeleteTempDir, Return, dispatcher, run
    <3>2. QED
      BY <1>1, <3>1 DEF KeepInv, VerdictFinal
  <2>5. QED
    BY <2>1, <2>2, <2>3, <2>4 DEF RunStep
<1>5. QED
  BY <1>2, <1>3, <1>4 DEF KeepInv

LEMMA KeepStep == UseInv /\ FileInv /\ KeepInv /\ [Next]_vars => KeepInv'
<1> SUFFICES ASSUME UseInv, FileInv, KeepInv, [Next]_vars PROVE KeepInv'
  OBVIOUS
<1>1. CASE Returned \/ UNCHANGED vars
  BY <1>1 DEF Returned, vars, dispatcher, scheduler, converter, terraformer, files, run, KeepInv,
     EntitiesWritten, OutAccepted, ReadFilesGo, VerdictFinal
<1>2. QED
  BY <1>1, KeepConverter, KeepTerraformer, KeepRun DEF Next

(* When Run keeps a dimension, every region and every entity file of it is *)
(* written and every temporary file is gone.                               *)
THEOREM FilesCompleteCorrect == Spec => []FilesComplete
<1>1. UseInv /\ FileInv /\ KeepInv => FilesComplete
  <2> SUFFICES ASSUME UseInv, FileInv, KeepInv, verdict = "ok"
               PROVE  /\ out = Regions /\ entities = Regions
                      /\ \A r \in Regions : temp[r] = "removed"
    BY DEF FilesComplete
  <2>1. completed = Regions /\ status = {} /\ \A w \in Workers : pc[w] \in {"idle", "exited"}
    BY DEF KeepInv, VerdictFinal
  <2>2. out = Regions
    BY <2>1, WorkFacts DEF FileInv, CompletedOnce, KeepInv, OutAccepted
  <2>3. entities = Regions
    BY <2>1, AcceptedConverted DEF FileInv, CompletedOnce, KeepInv, EntitiesWritten
  <2>4. \A w \in Workers : release[w] = {} /\ ~failed[w]
    BY <2>1 DEF FileInv, ReleasedOnce, UseInv, DP!IInv, DP!NothingLost
  <2>5. \A r \in Regions : temp[r] = "removed"
    BY <2>1, <2>4, HoodOfItself DEF KeepInv, ReadFilesGo
  <2>6. QED
    BY <2>2, <2>3, <2>5
<1>2. QED
  BY <1>1, FileInvariant, KeepInit, KeepStep, PTL DEF Spec

-------------------------------------------------------------------------------
(* Failures.                                                               *)

(* An error or a cancellation leaves a trace: in the Reduce, in what       *)
(* World::Convert returned, in fStatus, in a worker about to report it, or *)
(* in Run's own result.                                                    *)
Traced ==
  trouble # {} =>
    \/ conversion # {} \/ world = "error"
    \/ status # {} \/ \E w \in Workers : failed[w]
    \/ result = "error"

(* World::Convert and the loop of Run answer for what they waited for.     *)
Answered ==
  /\ world = "ok" => conversion = {}
  /\ verdict = "ok" => world = "ok"
  /\ result = "ok" => verdict = "ok"
  /\ result # "none" => ~dir

FailureInv == Traced /\ Answered

LEMMA FailureInit == Init => FailureInv
BY DEF Init, FailureInv, Traced, Answered

LEMMA FailureConverter ==
  ASSUME UseInv, FailureInv, NEW c \in Converters, ConverterStep(c)
  PROVE  FailureInv'
<1>1. UNCHANGED <<world, failed, status, dir, verdict, result>>
  BY DEF ConverterStep, Claim, ConvertChunks, CreateTerrain, FillTerrain, WriteEntities,
     MarkConverted, Enqueue, Dispatcher!Enqueue, Dispatcher!locals, dispatcher, files, run
<1>2. Converting(c) => region[c] # {} /\ world = "reducing"
  BY DEF UseInv, TypeInv, Phases
<1>3. \/ UNCHANGED <<conversion, trouble>>
      \/ Converting(c) /\ conversion' # {}
  <2>1. CASE Claim(c) \/ CreateTerrain(c) \/ MarkConverted(c) \/ Enqueue(c)
    BY <1>2, <2>1 DEF Claim, CreateTerrain, MarkConverted, Enqueue, Fails, Moves, Converting
  <2>2. ASSUME NEW answer \in Answers,
               ConvertChunks(c, answer) \/ FillTerrain(c, answer) \/ WriteEntities(c, answer)
        PROVE  \/ UNCHANGED <<conversion, trouble>>
               \/ Converting(c) /\ conversion' # {}
    BY <1>2, <2>2 DEF ConvertChunks, FillTerrain, WriteEntities, Fails, Blames, Converting
  <2>3. QED
    BY <2>1, <2>2 DEF ConverterStep, Answers
<1>4. QED
  BY <1>1, <1>2, <1>3 DEF FailureInv, Traced, Answered

LEMMA FailureTerraformer ==
  ASSUME UseInv, FailureInv, NEW w \in Workers, TerraformerStep(w)
  PROVE  FailureInv'
<1>1. UNCHANGED <<world, conversion, dir, verdict, result>>
  BY TerraformerFrame DEF converter, TerraformerStep, Pool, OpenRegion, WriteRegion, ReleaseNext,
     TerraformChunks, MarkCompleted, Released, run
<1>2. failed \in [Workers -> BOOLEAN] /\ (pc[w] # "report" => ~failed[w])
  BY DEF UseInv, DP!IInv, DP!TypeOK, DP!NothingLost
<1>3. Traced'
  <2>1. CASE Pool(w)
    <3>1. UNCHANGED trouble
      BY <2>1 DEF Pool
    <3>2. CASE Dispatcher!Report(w)
      <4>1. \A v \in Workers : failed[v] /\ v # w => failed'[v]
        BY <1>2, <3>2 DEF Dispatcher!Report
      <4>2. status # {} \/ failed[w] => status' # {}
        BY <3>2, WorkFacts DEF Dispatcher!Report, Dispatcher!FirstError, UseInv, DP!IInv,
           DP!ActiveExact, DP!BusyWorkers, DP!Busy
      <4>3. QED
        BY <1>1, <3>1, <4>1, <4>2 DEF FailureInv, Traced
    <3>3. CASE Dispatcher!Wait(w) \/ Dispatcher!Exit(w) \/ Dispatcher!Take(w)
      <4>1. UNCHANGED <<status, failed>>
        BY <3>3 DEF Dispatcher!Wait, Dispatcher!Exit, Dispatcher!Take, Dispatcher!locals
      <4>2. QED
        BY <1>1, <3>1, <4>1 DEF FailureInv, Traced
    <3>4. QED
      BY <2>1, <3>2, <3>3 DEF Pool
  <2>2. CASE MarkCompleted(w) \/ Released(w)
    <3>1. UNCHANGED <<trouble, status>> /\ \A v \in Workers : failed[v] => failed'[v]
      BY <1>2, <2>2 DEF MarkCompleted, Released, Within, Dispatcher!Complete, dispatcher
    <3>2. QED
      BY <1>1, <3>1 DEF FailureInv, Traced
  <2>3. ASSUME NEW answer \in Answers,
               \/ OpenRegion(w, answer) \/ TerraformChunks(w, answer)
               \/ WriteRegion(w, answer) \/ ReleaseNext(w, answer)
        PROVE  Traced'
    <3>1. UNCHANGED status /\ \A v \in Workers : failed[v] => failed'[v]
      BY <1>2, <2>3 DEF OpenRegion, TerraformChunks, WriteRegion, ReleaseNext, Within,
         Dispatcher!Process, Dispatcher!Complete, dispatcher
    <3>2. trouble' = trouble \/ failed'[w]
      BY <1>2, <2>3 DEF OpenRegion, TerraformChunks, WriteRegion, ReleaseNext, Blames,
         Dispatcher!Process, Dispatcher!Complete
    <3>3. QED
      BY <1>1, <3>1, <3>2 DEF FailureInv, Traced
  <2>4. QED
    BY <2>1, <2>2, <2>3 DEF TerraformerStep, Answers
<1>4. QED
  BY <1>1, <1>3 DEF FailureInv, Answered

LEMMA FailureRun ==
  ASSUME UseInv, FailureInv, RunStep
  PROVE  FailureInv'
<1>1. UNCHANGED <<conversion, status, failed>>
  BY DEF RunStep, PrepareWorld, ReturnWorld, Finish, Judge, DestroyDispatcher, DeleteTempDir,
     Return, Dispatcher!BeginFinish, Dispatcher!RetryFinish, Dispatcher!Stop,
     Dispatcher!NotifyStop, Dispatcher!Join, Dispatcher!locals, dispatcher, converter
<1> USE <1>1 DEF FailureInv, Traced, Answered
<1>2. CASE \E answer \in FileAnswers : PrepareWorld(answer) \/ ReturnWorld(answer)
  BY <1>2 DEF PrepareWorld, ReturnWorld, Blames, files, run, UseInv, Phases
<1>3. CASE Finish \/ DestroyDispatcher
  BY <1>3 DEF Finish, DestroyDispatcher, files, run
<1>4. CASE Judge
  <2>1. verdict' = "ok" => world = "ok"
    BY <1>4 DEF Judge, Judgement, UseInv, Phases
  <2>2. QED
    BY <1>4, <2>1 DEF Judge, files
<1>5. CASE DeleteTempDir
  BY <1>5 DEF DeleteTempDir, run
<1>6. CASE \E answer \in {"ok", "cancel"} : Return(answer)
  BY <1>6 DEF Return, Blames, files
<1>7. QED
  BY <1>2, <1>3, <1>4, <1>5, <1>6 DEF RunStep

LEMMA FailureStep == UseInv /\ FailureInv /\ [Next]_vars => FailureInv'
<1> SUFFICES ASSUME UseInv, FailureInv, [Next]_vars PROVE FailureInv'
  OBVIOUS
<1>1. CASE Returned \/ UNCHANGED vars
  BY <1>1 DEF Returned, vars, dispatcher, converter, files, run, FailureInv, Traced, Answered
<1>2. QED
  BY <1>1, FailureConverter, FailureTerraformer, FailureRun DEF Next

(* An Ok result means that nothing was recorded anywhere, so nothing failed. *)
LEMMA NoFailureSwallowed ==
  ASSUME UseInv, KeepInv, FailureInv, result = "ok"
  PROVE  trouble = {}
<1>1. verdict = "ok" /\ world = "ok" /\ conversion = {}
  BY DEF FailureInv, Answered
<1>2. status = {} /\ \A w \in Workers : ~failed[w]
  BY <1>1 DEF KeepInv, VerdictFinal, UseInv, DP!IInv, DP!NothingLost
<1>3. QED
  BY <1>1, <1>2 DEF FailureInv, Traced

-------------------------------------------------------------------------------
(* Without a failure.                                                      *)

(* Inside fProcess and fComplete the stage and the worker's region agree   *)
(* with what is written and completed; elsewhere the stage is at rest.     *)
StagesInTurn ==
  /\ \A w \in Workers :
       /\ pc[w] \notin {"process", "complete"} => stage[w] = "open"
       /\ pc[w] = "process" => stage[w] \in {"open", "chunks", "write"}
       /\ pc[w] = "complete" => stage[w] \in {"open", "release"}
       /\ pc[w] = "complete" /\ stage[w] = "open" => work[w] \cap completed = {}
       /\ stage[w] = "release" => work[w] \subseteq completed
  /\ done \subseteq completed

(* A region is written once, and its chunks are counted before that.       *)
WrittenOnce ==
  /\ queue \cap out = {}
  /\ \A w \in Workers : pc[w] = "process" => work[w] \cap out = {}

Counting(w) == pc[w] = "process" /\ stage[w] = "write"

CountedRegions == out \cup UNION {work[w] : w \in {v \in Workers : Counting(v)}}

(* As long as nothing outside the program went wrong: no error is recorded,*)
(* a claimed region is on its way or converted, a region whose             *)
(* neighbourhood is converted is offered or accepted, and the counter is   *)
(* the number of chunks of the regions terraformed so far.                 *)
NoError ==
  /\ conversion = {} /\ world # "error"
  /\ status = {} /\ \A w \in Workers : ~failed[w]
  /\ verdict # "error" /\ result # "error"

Underway(r) == \E c \in Converters : Converting(c) /\ at[c] # "enqueue" /\ r \in region[c]

NoneForgotten ==
  /\ \A c \in Converters : at[c] = "ended" => claimed = Regions
  /\ \A r \in claimed : r \in converted \/ Underway(r)
  /\ \A t \in Regions :
       Hood(t) \subseteq converted => t \in accepted \/ \E c \in Converters : t \in ready[c]

CountExact == terraformed = Cardinality(ChunksOf(CountedRegions))

AllAccepted == world = "ok" => accepted = Regions

Unharmed == trouble = {} => NoError /\ NoneForgotten /\ CountExact /\ AllAccepted

Verdicts == verdict \in {"none", "ok", "error"} /\ result \in {"none", "ok", "error"}

ExactInv == StagesInTurn /\ WrittenOnce /\ Verdicts /\ Unharmed

LEMMA OneRegion ==
  ASSUME NEW r \in Regions
  PROVE  /\ IsFiniteSet({r} \X (1..Weight[r]))
         /\ Cardinality({r} \X (1..Weight[r])) = Weight[r]
<1>1. Weight[r] \in Nat /\ Weight[r] > 0
  BY PipelineAssumption
<1> DEFINE numbers == 1..Weight[r]
<1>2. IsFiniteSet(numbers) /\ Cardinality(numbers) = Weight[r]
  <2>1. ~ 1 > Weight[r] /\ Weight[r] - 1 + 1 = Weight[r] /\ Weight[r] \in Int
    BY <1>1
  <2>2. QED
    BY ONLY <2>1, FS_Interval
<1>3. IsFiniteSet({r}) /\ Cardinality({r}) = 1
  BY FS_Singleton
<1> HIDE DEF numbers
<1>4. IsFiniteSet({r} \X numbers) /\ Cardinality({r} \X numbers) = 1 * Weight[r]
  <2>1. /\ IsFiniteSet({r} \X numbers)
        /\ Cardinality({r} \X numbers) = Cardinality({r}) * Cardinality(numbers)
    BY ONLY <1>2, <1>3, FS_Product
  <2>2. QED
    BY ONLY <1>2, <1>3, <2>1
<1>5. QED
  BY ONLY <1>1, <1>4 DEF numbers

LEMMA ChunksOfOneMore ==
  ASSUME NEW S \in SUBSET Regions
  PROVE  /\ IsFiniteSet(ChunksOf(S)) /\ Cardinality(ChunksOf(S)) \in Nat
         /\ \A r \in Regions \ S :
              Cardinality(ChunksOf(S \cup {r})) = Cardinality(ChunksOf(S)) + Weight[r]
<1>1. \A r \in Regions : /\ IsFiniteSet({r} \X (1..Weight[r]))
                         /\ Cardinality({r} \X (1..Weight[r])) = Weight[r]
  BY OneRegion
<1>2. \A T \in SUBSET Regions : IsFiniteSet(ChunksOf(T)) /\ Cardinality(ChunksOf(T)) \in Nat
  <2> SUFFICES ASSUME NEW T \in SUBSET Regions
               PROVE  IsFiniteSet(ChunksOf(T)) /\ Cardinality(ChunksOf(T)) \in Nat
    OBVIOUS
  <2> DEFINE parts == {{r} \X (1..Weight[r]) : r \in T}
  <2>1. IsFiniteSet(T)
    BY RegionsAssumption, FS_Subset
  <2>2. IsFiniteSet(parts)
    <3> DEFINE part == [r \in T |-> {r} \X (1..Weight[r])]
    <3>1. part \in Surjection(T, parts)
      BY DEF Surjection
    <3>2. QED
      BY <2>1, <3>1, FS_Surjection
  <2>3. IsFiniteSet(UNION parts)
    BY <1>1, <2>2, FS_UNION
  <2>4. QED
    BY <2>3, FS_CardinalityType DEF ChunksOf
<1>3. \A r \in Regions \ S :
        Cardinality(ChunksOf(S \cup {r})) = Cardinality(ChunksOf(S)) + Weight[r]
  <2> SUFFICES ASSUME NEW r \in Regions \ S
               PROVE  Cardinality(ChunksOf(S \cup {r})) = Cardinality(ChunksOf(S)) + Weight[r]
    OBVIOUS
  <2>1. ChunksOf(S \cup {r}) = ChunksOf(S) \cup ({r} \X (1..Weight[r]))
    BY DEF ChunksOf
  <2>2. ChunksOf(S) \cap ({r} \X (1..Weight[r])) = {}
    BY DEF ChunksOf
  <2>3. Weight[r] \in Nat
    BY PipelineAssumption
  <2> DEFINE old == ChunksOf(S)  added == {r} \X (1..Weight[r])
  <2>4. /\ IsFiniteSet(old) /\ Cardinality(old) \in Nat
        /\ IsFiniteSet(added) /\ Cardinality(added) = Weight[r]
        /\ old \cap added = {}
    BY <1>1, <1>2, <2>2
  <2> HIDE DEF old, added
  <2>5. Cardinality(old \cup added) = Cardinality(old) + Cardinality(added) - Cardinality({})
    BY <2>4, FS_Union
  <2>6. Cardinality({}) = 0
    BY FS_EmptySet
  <2>7. Cardinality(old \cup added) = Cardinality(old) + Weight[r]
    BY ONLY <2>3, <2>4, <2>5, <2>6
  <2>8. QED
    BY <2>1, <2>7 DEF old, added
<1>4. QED
  BY <1>2, <1>3

LEMMA ExactInit == Init => ExactInv
<1> SUFFICES ASSUME Init PROVE ExactInv
  OBVIOUS
<1>1. StagesInTurn /\ WrittenOnce /\ Verdicts
  BY DEF Init, Dispatcher!Init, StagesInTurn, WrittenOnce, Verdicts
<1>2. NoError /\ AllAccepted
  BY DEF Init, Dispatcher!Init, NoError, AllAccepted
<1>3. NoneForgotten
  BY HoodOfItself DEF Init, NoneForgotten
<1>4. CountExact
  <2>1. CountedRegions = {} /\ ChunksOf({}) = {}
    BY DEF Init, Dispatcher!Init, CountedRegions, Counting, ChunksOf
  <2>2. Cardinality({}) = 0
    BY FS_EmptySet
  <2>3. QED
    BY <2>1, <2>2 DEF Init, CountExact
<1>5. QED
  BY <1>1, <1>2, <1>3, <1>4 DEF ExactInv, Unharmed

-------------------------------------------------------------------------------
(* A step of a terraform thread: the others' places and regions stay, and  *)
(* only its own region is written or completed.                            *)
LEMMA StagesOthers ==
  ASSUME UseInv, FileInv, StagesInTurn, WrittenOnce, NEW w \in Workers,
         \A v \in Workers \ {w} : pc'[v] = pc[v] /\ stage'[v] = stage[v] /\ work'[v] = work[v],
         completed \subseteq completed', completed' \subseteq completed \cup work[w],
         out' \subseteq out \cup work[w], queue' \subseteq queue, done' \subseteq completed',
         pc'[w] \notin {"process", "complete"} => stage'[w] = "open",
         pc'[w] = "process" => stage'[w] \in {"open", "chunks", "write"},
         pc'[w] = "complete" => stage'[w] \in {"open", "release"},
         pc'[w] = "complete" /\ stage'[w] = "open" => work'[w] \cap completed' = {},
         stage'[w] = "release" => work'[w] \subseteq completed',
         pc'[w] = "process" => work'[w] \cap out' = {}
  PROVE  StagesInTurn' /\ WrittenOnce'
<1>1. \A v \in Workers \ {w} : work[v] \cap work[w] = {}
  BY WorkFacts
<1>2. StagesInTurn'
  BY <1>1 DEF StagesInTurn
<1>3. WrittenOnce'
  <2>1. queue' \cap out' = {}
    BY WorkFacts DEF WrittenOnce
  <2>2. QED
    BY <1>1, <2>1 DEF WrittenOnce
<1>4. QED
  BY <1>2, <1>3

LEMMA StagesPool ==
  ASSUME UseInv, FileInv, StagesInTurn, WrittenOnce, NEW w \in Workers, Pool(w)
  PROVE  StagesInTurn' /\ WrittenOnce'
<1>1. UNCHANGED <<stage, completed, out>>
  BY DEF Pool, terraformer, scheduler, files
<1>2. /\ UNCHANGED done /\ queue' \subseteq queue
      /\ \A v \in Workers \ {w} : pc'[v] = pc[v] /\ work'[v] = work[v]
      /\ pc[w] \notin {"process", "complete"} /\ pc'[w] # "complete"
      /\ pc'[w] = "process" => work'[w] \subseteq queue
  <2>1. CASE Dispatcher!Wait(w) \/ Dispatcher!Exit(w)
    BY <2>1, WorkFacts DEF Dispatcher!Wait, Dispatcher!Exit, Dispatcher!history, Dispatcher!locals
  <2>2. CASE Dispatcher!Take(w)
    BY <2>2, WorkFacts DEF Dispatcher!Take, Dispatcher!Top, Dispatcher!Popped, Dispatcher!history
  <2>3. CASE Dispatcher!Report(w)
    BY <2>3, WorkFacts DEF Dispatcher!Report, Dispatcher!QueueAfter, Dispatcher!history
  <2>4. QED
    BY <2>1, <2>2, <2>3 DEF Pool
<1>3. stage[w] = "open"
  BY <1>2 DEF StagesInTurn
<1>4. pc'[w] = "process" => work'[w] \cap out' = {}
  BY <1>1, <1>2 DEF WrittenOnce
<1>5. done' \subseteq completed'
  BY <1>1, <1>2 DEF StagesInTurn
<1>6. QED
  BY <1>1, <1>2, <1>3, <1>4, <1>5, StagesOthers

LEMMA StagesProcess ==
  ASSUME UseInv, FileInv, StagesInTurn, WrittenOnce, NEW w \in Workers, NEW answer \in Answers,
         OpenRegion(w, answer) \/ TerraformChunks(w, answer) \/ WriteRegion(w, answer)
  PROVE  StagesInTurn' /\ WrittenOnce'
<1>1. UNCHANGED <<completed, work, queue, done>> /\ pc[w] = "process"
  BY DEF OpenRegion, TerraformChunks, WriteRegion, Within, Dispatcher!Process, Dispatcher!history,
     dispatcher, scheduler
<1>2. work[w] \cap completed = {} /\ work[w] \cap out = {}
  BY <1>1 DEF FileInv, CompletedOnce, WrittenOnce
<1>3. \/ UNCHANGED <<pc, out>> /\ \E now \in {"chunks", "write"} : stage' = [stage EXCEPT ![w] = now]
      \/ /\ \E place \in {"complete", "report"} : pc' = [pc EXCEPT ![w] = place]
         /\ stage' = stage \/ stage' = [stage EXCEPT ![w] = "open"]
         /\ stage[w] = "open" \/ stage'[w] = "open"
         /\ out' \subseteq out \cup work[w]
  <2>1. CASE OpenRegion(w, answer)
    BY <2>1 DEF OpenRegion, Within, Enters, Dispatcher!Process, dispatcher, files
  <2>2. CASE TerraformChunks(w, answer)
    BY <2>2, WorkFacts DEF TerraformChunks, Enters, Dispatcher!Process, dispatcher, files, FileInv,
       FileTypes
  <2>3. CASE WriteRegion(w, answer)
    BY <2>3 DEF WriteRegion, Enters, Dispatcher!Process, FileInv, FileTypes
  <2>4. QED
    BY <2>1, <2>2, <2>3
<1>4. stage \in [Workers -> {"open", "chunks", "write", "release"}] /\ stage[w] # "release"
  BY <1>1 DEF FileInv, FileTypes, StagesInTurn
<1>5. \A v \in Workers \ {w} : pc'[v] = pc[v] /\ stage'[v] = stage[v]
  BY <1>3, <1>4, WorkFacts
<1>6. done' \subseteq completed'
  BY <1>1 DEF StagesInTurn
<1>7. CASE UNCHANGED <<pc, out>> /\ \E now \in {"chunks", "write"} : stage' = [stage EXCEPT ![w] = now]
  <2>1. pc'[w] = "process" /\ stage'[w] \in {"chunks", "write"}
    BY <1>1, <1>4, <1>7
  <2>2. QED
    BY <1>1, <1>2, <1>5, <1>6, <1>7, <2>1, StagesOthers
<1>8. CASE /\ \E place \in {"complete", "report"} : pc' = [pc EXCEPT ![w] = place]
           /\ stage' = stage \/ stage' = [stage EXCEPT ![w] = "open"]
           /\ stage[w] = "open" \/ stage'[w] = "open"
           /\ out' \subseteq out \cup work[w]
  <2>1. pc'[w] \in {"complete", "report"} /\ stage'[w] = "open"
    BY <1>4, <1>8, WorkFacts
  <2>2. QED
    BY <1>1, <1>2, <1>5, <1>6, <1>8, <2>1, StagesOthers
<1>9. QED
  BY <1>3, <1>7, <1>8

LEMMA StagesComplete ==
  ASSUME UseInv, FileInv, StagesInTurn, WrittenOnce, NEW w \in Workers,
         \/ MarkCompleted(w) \/ Released(w)
         \/ \E answer \in FileAnswers : ReleaseNext(w, answer)
  PROVE  StagesInTurn' /\ WrittenOnce'
<1>1. pc[w] = "complete" /\ UNCHANGED out
  BY DEF MarkCompleted, Released, ReleaseNext, Within, files
<1>2. PICK r \in accepted : work[w] = {r}
  BY <1>1, WorkFacts
<1>3. The(work[w]) = r
  BY <1>2, OnlyOne
<1>4. stage \in [Workers -> {"open", "chunks", "write", "release"}]
  BY DEF FileInv, FileTypes
<1>5. UNCHANGED <<work, queue>>
  BY DEF MarkCompleted, Released, ReleaseNext, Dispatcher!Complete, dispatcher
<1>6. CASE MarkCompleted(w)
  <2>1. CASE r \notin completed /\ Hood(r) \subseteq converted
    <3>1. /\ UNCHANGED <<pc, done>> /\ completed' = completed \cup {r}
          /\ stage' = [stage EXCEPT ![w] = "release"]
      BY <1>3, <1>6, <2>1 DEF MarkCompleted, Enters, dispatcher
    <3>2. stage'[w] = "release" /\ \A v \in Workers \ {w} : stage'[v] = stage[v]
      BY <1>4, <3>1
    <3>3. done' \subseteq completed'
      BY <3>1 DEF StagesInTurn
    <3>4. QED
      BY <1>1, <1>2, <1>5, <3>1, <3>2, <3>3, StagesOthers
  <2>2. CASE ~(r \notin completed /\ Hood(r) \subseteq converted)
    <3>1. /\ Dispatcher!Complete(w, FALSE) /\ UNCHANGED <<completed, stage>> /\ stage[w] = "open"
      BY <1>3, <1>6, <2>2 DEF MarkCompleted, Within
    <3>2. UNCHANGED done /\ pc'[w] = "report" /\ \A v \in Workers \ {w} : pc'[v] = pc[v]
      BY <3>1, WorkFacts DEF Dispatcher!Complete
    <3>3. done' \subseteq completed'
      BY <3>1, <3>2 DEF StagesInTurn
    <3>4. QED
      BY <1>1, <1>5, <3>1, <3>2, <3>3, StagesOthers
  <2>3. QED
    BY <2>1, <2>2
<1>7. ASSUME NEW ok \in BOOLEAN, Dispatcher!Complete(w, ok), Enters(w, "open"), stage[w] = "release",
             UNCHANGED completed
      PROVE  StagesInTurn' /\ WrittenOnce'
  <2>1. pc'[w] = "report" /\ \A v \in Workers \ {w} : pc'[v] = pc[v]
    BY <1>7, WorkFacts DEF Dispatcher!Complete
  <2>2. stage'[w] = "open" /\ \A v \in Workers \ {w} : stage'[v] = stage[v]
    BY <1>4, <1>7 DEF Enters
  <2>3. done' \subseteq completed'
    BY <1>7 DEF StagesInTurn, Dispatcher!Complete
  <2>4. QED
    BY <1>1, <1>5, <1>7, <2>1, <2>2, <2>3, StagesOthers
<1>8. CASE Released(w)
  BY <1>7, <1>8 DEF Released, Within, scheduler
<1>9. ASSUME NEW answer \in FileAnswers, ReleaseNext(w, answer)
      PROVE  StagesInTurn' /\ WrittenOnce'
  <2>1. UNCHANGED completed /\ stage[w] = "release"
    BY <1>9 DEF ReleaseNext, Within, scheduler
  <2>2. CASE UNCHANGED <<dispatcher, stage>>
    <3>1. UNCHANGED <<pc, done, stage>>
      BY <2>2 DEF dispatcher
    <3>2. QED
      BY <1>1, <1>5, <2>1, <3>1 DEF StagesInTurn, WrittenOnce
  <2>3. QED
    BY <1>7, <1>9, <2>1, <2>2 DEF ReleaseNext
<1>10. QED
  BY <1>6, <1>8, <1>9

(* A worker that nothing outside fails does not fail: its region's file is *)
(* there, its region is completed once, and so is each file deleted.       *)
LEMMA UnharmedWorker ==
  ASSUME UseInv, FileInv, KeepInv, ExactInv, trouble = {}, trouble' = {},
         NEW w \in Workers, TerraformerStep(w)
  PROVE  NoError'
<1>1. UNCHANGED <<conversion, world, verdict, result>>
  BY TerraformerFrame DEF converter, TerraformerStep, Pool, OpenRegion, WriteRegion, ReleaseNext,
     TerraformChunks, MarkCompleted, Released, run
<1>2. NoError /\ failed \in [Workers -> BOOLEAN]
  BY DEF ExactInv, Unharmed, UseInv, DP!IInv, DP!TypeOK
<1>3. ASSUME UNCHANGED <<status, failed>> PROVE NoError'
  BY <1>1, <1>2, <1>3 DEF NoError
<1>4. ASSUME Dispatcher!Process(w, TRUE) \/ Dispatcher!Complete(w, TRUE) PROVE NoError'
  <2>1. UNCHANGED status /\ failed' = [failed EXCEPT ![w] = FALSE]
    BY <1>4 DEF Dispatcher!Process, Dispatcher!Complete
  <2>2. QED
    BY <1>1, <1>2, <2>1 DEF NoError
<1>5. CASE Pool(w)
  <2>1. CASE Dispatcher!Report(w)
    <3>1. status' = {} /\ failed' = [failed EXCEPT ![w] = FALSE]
      BY <1>2, <2>1 DEF Dispatcher!Report, Dispatcher!FirstError, NoError
    <3>2. QED
      BY <1>1, <1>2, <3>1 DEF NoError
  <2>2. CASE Dispatcher!Wait(w) \/ Dispatcher!Exit(w) \/ Dispatcher!Take(w)
    BY <1>3, <2>2 DEF Dispatcher!Wait, Dispatcher!Exit, Dispatcher!Take, Dispatcher!locals
  <2>3. QED
    BY <1>5, <2>1, <2>2 DEF Pool
<1>6. ASSUME NEW answer \in Answers, Blames(answer) PROVE answer = "ok"
  BY <1>6 DEF Blames
<1>7. ASSUME pc[w] \in {"process", "complete"}
      PROVE  \E r \in accepted : /\ work[w] = {r} /\ The(work[w]) = r
                                 /\ r \in converted /\ Hood(r) \subseteq converted
  BY <1>7, WorkFacts, OnlyOne, AcceptedConverted
<1>8. ASSUME NEW answer \in FileAnswers, OpenRegion(w, answer) PROVE NoError'
  <2>1. answer = "ok" /\ pc[w] = "process" /\ dir
    BY <1>6, <1>8 DEF OpenRegion, Within, Answers, UseInv, Phases
  <2>2. PICK r \in accepted : work[w] = {r} /\ The(work[w]) = r /\ r \in converted
    BY <1>7, <2>1
  <2>3. temp[The(work[w])] = "whole"
    BY <2>1, <2>2, HoodOfItself, AcceptedConverted DEF FileInv, CompletedOnce, ConvertedWhole
  <2>4. QED
    BY <1>3, <1>8, <2>1, <2>3 DEF OpenRegion, dispatcher
<1>9. ASSUME NEW answer \in Answers, TerraformChunks(w, answer) PROVE NoError'
  BY <1>3, <1>6, <1>9 DEF TerraformChunks, dispatcher
<1>10. ASSUME NEW answer \in FileAnswers, WriteRegion(w, answer) PROVE NoError'
  BY <1>4, <1>6, <1>10 DEF WriteRegion, Answers
<1>11. CASE MarkCompleted(w)
  <2>1. pc[w] = "complete" /\ stage[w] = "open"
    BY <1>11 DEF MarkCompleted, Within
  <2>2. PICK r \in accepted : /\ work[w] = {r} /\ The(work[w]) = r
                              /\ Hood(r) \subseteq converted
    BY <1>7, <2>1
  <2>3. r \notin completed
    BY <2>1, <2>2 DEF ExactInv, StagesInTurn
  <2>4. QED
    BY <1>3, <1>11, <2>2, <2>3 DEF MarkCompleted, dispatcher
<1>12. ASSUME NEW answer \in FileAnswers, ReleaseNext(w, answer) PROVE NoError'
  <2>1. answer = "ok" /\ \A s \in release[w] : temp[s] = "whole"
    BY <1>6, <1>12 DEF ReleaseNext, Answers, FileInv, ReleasedOnce
  <2>2. UNCHANGED dispatcher
    BY <1>12, <2>1 DEF ReleaseNext, First
  <2>3. QED
    BY <1>3, <2>2 DEF dispatcher
<1>13. CASE Released(w)
  BY <1>4, <1>13 DEF Released
<1>14. QED
  BY <1>5, <1>8, <1>9, <1>10, <1>11, <1>12, <1>13 DEF TerraformerStep

(* The counter and the counted regions change together.                    *)
LEMMA CountedTogether ==
  ASSUME UseInv, FileInv, KeepInv, ExactInv, trouble = {}, trouble' = {},
         NEW w \in Workers, TerraformerStep(w)
  PROVE  CountExact'
<1>1. CountExact /\ CountedRegions \subseteq Regions
  BY WorkFacts DEF ExactInv, Unharmed, CountedRegions, KeepInv, OutAccepted
<1>2. ASSUME UNCHANGED terraformed, CountedRegions' = CountedRegions PROVE CountExact'
  BY <1>1, <1>2 DEF CountExact
<1>3. ASSUME UNCHANGED out, work'[w] = work[w] \/ (~Counting(w) /\ ~Counting(w)'),
             Counting(w)' <=> Counting(w),
             \A v \in Workers \ {w} : pc'[v] = pc[v] /\ stage'[v] = stage[v] /\ work'[v] = work[v]
      PROVE  CountedRegions' = CountedRegions
  BY <1>3 DEF CountedRegions, Counting
<1>4. stage \in [Workers -> {"open", "chunks", "write", "release"}]
  BY DEF FileInv, FileTypes
<1>5. \A v \in Workers \ {w} : pc'[v] = pc[v] /\ work'[v] = work[v] /\ stage'[v] = stage[v]
  <2>1. \A v \in Workers \ {w} : stage'[v] = stage[v]
    BY <1>4 DEF TerraformerStep, Pool, OpenRegion, WriteRegion, ReleaseNext, TerraformChunks,
       MarkCompleted, Released, terraformer, Enters
  <2>2. \A v \in Workers \ {w} : work'[v] = work[v]
    <3>1. UNCHANGED dispatcher => UNCHANGED work
      BY DEF dispatcher
    <3>2. Dispatcher!WorkerStep(w) => \A v \in Workers \ {w} : work'[v] = work[v]
      BY WorkFacts DEF Dispatcher!WorkerStep, Dispatcher!Wait, Dispatcher!Exit, Dispatcher!Take,
         Dispatcher!Process, Dispatcher!Complete, Dispatcher!Report, Dispatcher!locals
    <3>3. QED
      BY <3>1, <3>2, TerraformerUses
  <2>3. QED
    BY <2>1, <2>2, TerraformerFrame
<1>6. ASSUME NEW answer \in Answers, Blames(answer) PROVE answer = "ok"
  BY <1>6 DEF Blames
<1>7. CASE Pool(w)
  <2>1. UNCHANGED <<terraformed, out, stage>>
    BY <1>7 DEF Pool, terraformer, files
  <2>2. pc[w] \notin {"process", "complete"}
    BY <1>7 DEF Pool, Dispatcher!Wait, Dispatcher!Exit, Dispatcher!Take, Dispatcher!Report
  <2>3. stage[w] = "open"
    BY <2>2 DEF ExactInv, StagesInTurn
  <2>4. QED
    BY <1>2, <1>3, <1>5, <2>1, <2>3 DEF Counting
<1>8. ASSUME NEW answer \in FileAnswers, OpenRegion(w, answer) PROVE CountExact'
  <2>1. UNCHANGED <<terraformed, out, work>> /\ stage[w] = "open"
    BY <1>8 DEF OpenRegion, Within, files, dispatcher, Dispatcher!Process
  <2>2. stage'[w] # "write"
    BY <1>4, <1>8, <2>1 DEF OpenRegion, Enters
  <2>3. QED
    BY <1>2, <1>3, <1>5, <2>1, <2>2 DEF Counting
<1>9. ASSUME NEW answer \in Answers, TerraformChunks(w, answer) PROVE CountExact'
  <2>1. answer = "ok" /\ pc[w] = "process" /\ stage[w] = "chunks"
    BY <1>6, <1>9 DEF TerraformChunks, Within
  <2>2. PICK r \in accepted : work[w] = {r} /\ The(work[w]) = r
    BY <2>1, WorkFacts, OnlyOne
  <2>3. /\ UNCHANGED <<out, pc, work>> /\ stage' = [stage EXCEPT ![w] = "write"]
        /\ terraformed' = terraformed + Weight[r]
    BY <1>9, <2>1, <2>2 DEF TerraformChunks, Enters, Counted, dispatcher, files
  <2>4. ~Counting(w) /\ Counting(w)'
    BY <1>4, <2>1, <2>3 DEF Counting
  <2>5. CountedRegions' = CountedRegions \cup {r}
    BY <1>5, <2>2, <2>3, <2>4 DEF CountedRegions, Counting
  <2>6. r \notin CountedRegions
    <3>1. r \notin out
      BY <2>1, <2>2 DEF ExactInv, WrittenOnce
    <3>2. \A v \in Workers : Counting(v) => v # w
      BY <2>4
    <3>3. QED
      BY <2>2, <3>1, <3>2, WorkFacts DEF CountedRegions
  <2>7. r \in Regions
    BY WorkFacts
  <2>8. QED
    BY <1>1, <2>3, <2>5, <2>6, <2>7, ChunksOfOneMore DEF CountExact
<1>10. ASSUME NEW answer \in FileAnswers, WriteRegion(w, answer) PROVE CountExact'
  <2>1. answer = "ok" /\ pc[w] = "process" /\ stage[w] = "write"
    BY <1>6, <1>10 DEF WriteRegion, Within, Answers
  <2>2. out' = out \cup work[w] /\ UNCHANGED <<terraformed, work>> /\ pc' = [pc EXCEPT ![w] = "complete"]
    BY <1>10, <2>1 DEF WriteRegion, Dispatcher!Process
  <2>3. Counting(w) /\ ~Counting(w)'
    BY <2>1, <2>2, WorkFacts DEF Counting
  <2>4. CountedRegions' = CountedRegions
    BY <1>5, <2>2, <2>3 DEF CountedRegions, Counting
  <2>5. QED
    BY <1>2, <2>2, <2>4
<1>11. ASSUME MarkCompleted(w) \/ Released(w) \/ \E answer \in FileAnswers : ReleaseNext(w, answer)
       PROVE CountExact'
  <2>1. UNCHANGED <<terraformed, out, work>> /\ pc[w] = "complete"
    BY <1>11 DEF MarkCompleted, Released, ReleaseNext, Within, files, dispatcher,
       Dispatcher!Complete
  <2>2. pc'[w] # "process"
    BY <1>11, <2>1, WorkFacts DEF MarkCompleted, Released, ReleaseNext, dispatcher,
       Dispatcher!Complete
  <2>3. QED
    BY <1>2, <1>3, <1>5, <2>1, <2>2 DEF Counting
<1>12. QED
  BY <1>7, <1>8, <1>9, <1>10, <1>11 DEF TerraformerStep

LEMMA ExactTerraformer ==
  ASSUME UseInv, FileInv, KeepInv, ExactInv, NEW w \in Workers, TerraformerStep(w)
  PROVE  ExactInv'
<1>1. StagesInTurn' /\ WrittenOnce'
  BY StagesPool, StagesProcess, StagesComplete DEF ExactInv, TerraformerStep, Answers
<1>2. trouble \subseteq trouble'
  BY DEF TerraformerStep, Pool, OpenRegion, WriteRegion, ReleaseNext, TerraformChunks,
     MarkCompleted, Released, Blames
<1>3. ASSUME trouble' = {} PROVE NoneForgotten' /\ AllAccepted'
  <2>1. NoneForgotten /\ AllAccepted
    BY <1>2, <1>3 DEF ExactInv, Unharmed
  <2>2. QED
    BY <2>1, TerraformerFrame DEF NoneForgotten, AllAccepted, Underway, Converting, converter
<1>4. Verdicts'
  BY DEF ExactInv, Verdicts, TerraformerStep, Pool, OpenRegion, WriteRegion, ReleaseNext,
     TerraformChunks, MarkCompleted, Released, run
<1>5. QED
  BY <1>1, <1>2, <1>3, <1>4, UnharmedWorker, CountedTogether DEF ExactInv, Unharmed

-------------------------------------------------------------------------------
(* A step of a conversion thread, which nothing outside fails: it goes on  *)
(* with its region, and leaves only when no work is left.                  *)
LEMMA ConverterOthers ==
  ASSUME UseInv, NEW c \in Converters, ConverterStep(c)
  PROVE  /\ UNCHANGED <<world, failed, status, verdict, result, completed, out, stage, pc, work,
                        done, terraformed, release>>
         /\ queue' \subseteq queue \cup ready[c]
         /\ trouble \subseteq trouble'
<1>1. UNCHANGED <<world, failed, status, verdict, result, completed, out, stage, pc, work, done,
                  terraformed, release>>
  BY DEF ConverterStep, Claim, ConvertChunks, CreateTerrain, FillTerrain, WriteEntities,
     MarkConverted, Enqueue, Dispatcher!Enqueue, Dispatcher!locals, dispatcher, scheduler,
     terraformer, files, run
<1>2. queue' \subseteq queue \cup ready[c]
  BY DEF ConverterStep, Claim, ConvertChunks, CreateTerrain, FillTerrain, WriteEntities,
     MarkConverted, Enqueue, Dispatcher!Enqueue, dispatcher
<1>3. trouble \subseteq trouble'
  BY DEF ConverterStep, Claim, ConvertChunks, CreateTerrain, FillTerrain, WriteEntities,
     MarkConverted, Enqueue, Blames
<1>4. QED
  BY <1>1, <1>2, <1>3

(* Where a step of an unharmed conversion thread leads.                    *)
LEMMA ConverterGoesOn ==
  ASSUME UseInv, FileInv, KeepInv, ExactInv, trouble = {}, trouble' = {},
         NEW c \in Converters, ConverterStep(c)
  PROVE  conversion' = {} /\ NoneForgotten'
<1>1. NoError /\ NoneForgotten
  BY DEF ExactInv, Unharmed
<1>2. /\ at \in [Converters -> Positions] /\ region \in [Converters -> SUBSET claimed]
      /\ ready \in [Converters -> SUBSET Regions]
  BY DEF UseInv, TypeInv
<1>3. ASSUME UNCHANGED <<claimed, converted, region, ready, accepted>>,
             NEW to \in {"writeTerrain", "fillTerrain", "writeEntities", "markConverted"},
             at[c] \notin {"claim", "enqueue", "ended"}, at' = [at EXCEPT ![c] = to]
      PROVE  NoneForgotten'
  <2>1. \A r : Underway(r) => Underway(r)'
    BY <1>2, <1>3 DEF Underway, Converting
  <2>2. \A d \in Converters : at'[d] = "ended" => at[d] = "ended"
    BY <1>2, <1>3
  <2>3. QED
    BY <1>1, <1>3, <2>1, <2>2 DEF NoneForgotten
<1>4. ASSUME NEW answer \in Answers, Blames(answer) PROVE answer = "ok"
  BY <1>4 DEF Blames
<1>5. ASSUME NEW answer \in Answers,
             ConvertChunks(c, answer) \/ FillTerrain(c, answer) \/ WriteEntities(c, answer)
      PROVE  conversion' = {} /\ NoneForgotten'
  <2>1. answer = "ok"
    BY <1>4, <1>5 DEF ConvertChunks, FillTerrain, WriteEntities
  <2>2. /\ UNCHANGED <<claimed, converted, region, ready, accepted, conversion>>
        /\ at[c] \notin {"claim", "enqueue", "ended"}
        /\ \E to \in {"writeTerrain", "fillTerrain", "writeEntities", "markConverted"} :
             at' = [at EXCEPT ![c] = to]
    BY <1>5, <2>1 DEF ConvertChunks, FillTerrain, WriteEntities, Moves, dispatcher, scheduler
  <2>3. QED
    BY <1>1, <1>3, <2>2 DEF NoError
<1>6. CASE CreateTerrain(c)
  <2>1. /\ UNCHANGED <<claimed, converted, region, ready, accepted, conversion>>
        /\ at[c] = "writeTerrain" /\ at' = [at EXCEPT ![c] = "fillTerrain"]
    BY <1>6 DEF CreateTerrain, Moves, dispatcher, scheduler
  <2>2. QED
    BY <1>1, <1>3, <2>1 DEF NoError
<1>7. CASE Claim(c)
  <2>1. UNCHANGED <<converted, ready, accepted, conversion>> /\ at[c] = "claim"
    BY <1>7 DEF Claim, Moves, dispatcher, scheduler
  <2>2. CASE claimed # Regions
    <3>1. PICK r \in Regions : /\ claimed' = claimed \cup {r}
                               /\ region' = [region EXCEPT ![c] = {r}]
                               /\ at' = [at EXCEPT ![c] = "convert"]
      BY <1>1, <1>7, <2>2 DEF Claim, Moves, NextWork, NoError
    <3>2. Underway(r)'
      BY <1>2, <3>1 DEF Underway, Converting
    <3>3. \A s : Underway(s) => Underway(s)'
      BY <1>2, <2>1, <3>1 DEF Underway, Converting
    <3>4. \A d \in Converters : at'[d] = "ended" => claimed' = Regions
      BY <1>1, <1>2, <2>2, <3>1 DEF NoneForgotten
    <3>5. QED
      BY <1>1, <2>1, <3>1, <3>2, <3>3, <3>4 DEF NoneForgotten, NoError
  <2>3. CASE claimed = Regions
    <3>1. UNCHANGED <<claimed, region>> /\ at' = [at EXCEPT ![c] = "ended"]
      BY <1>7, <2>3 DEF Claim, Moves
    <3>2. \A s : Underway(s) => Underway(s)'
      BY <1>2, <2>1, <3>1 DEF Underway, Converting
    <3>3. QED
      BY <1>1, <2>1, <2>3, <3>1, <3>2 DEF NoneForgotten, NoError
  <2>4. QED
    BY <2>2, <2>3
<1>8. CASE MarkConverted(c)
  <2>1. at[c] = "markConverted" /\ ready[c] = {}
    BY <1>8 DEF MarkConverted, Moves, Fails, UseInv, OfferedOnce
  <2>2. PICK r \in Regions : region[c] = {r} /\ r \notin converted
    BY <2>1 DEF UseInv, TypeInv, RegionsApart, Converting
  <2>3. The(region[c]) = r
    BY <2>2, OnlyOne
  <2>4. /\ UNCHANGED <<claimed, region, accepted, conversion>>
        /\ converted' = converted \cup {r} /\ at' = [at EXCEPT ![c] = "enqueue"]
        /\ ready' = [ready EXCEPT ![c] = {t \in Hood(r) : Hood(t) \subseteq converted \cup {r}}]
    BY <1>8, <2>2, <2>3, ReadyRegions DEF MarkConverted, Moves, dispatcher
  <2>5. \A s : Underway(s) => Underway(s)' \/ s = r
    BY <1>2, <2>2, <2>4 DEF Underway, Converting
  <2>6. \A d \in Converters : at'[d] = "ended" => at[d] = "ended"
    BY <1>2, <2>4
  <2>7. \A d \in Converters : ready[d] \subseteq ready'[d]
    BY <1>2, <2>1, <2>4
  <2>8. \A t \in Regions : Hood(t) \subseteq converted' /\ ~(Hood(t) \subseteq converted)
          => t \in ready'[c]
    BY <1>2, <2>4, HoodSymmetric
  <2>9. QED
    BY <1>1, <2>4, <2>5, <2>6, <2>7, <2>8 DEF NoneForgotten, NoError
<1>9. CASE Enqueue(c)
  <2>1. status = {}
    BY <1>1 DEF NoError
  <2>2. /\ UNCHANGED <<claimed, region, converted, conversion>>
        /\ at[c] = "enqueue" /\ at' = [at EXCEPT ![c] = "claim"]
        /\ ready' = [ready EXCEPT ![c] = {}]
        /\ accepted' = accepted \cup ready[c]
    BY <1>9, <2>1 DEF Enqueue, Moves, Dispatcher!Enqueue, scheduler
  <2>3. \A s : Underway(s) => Underway(s)'
    BY <1>2, <2>2 DEF Underway, Converting
  <2>4. \A d \in Converters : ready[d] \subseteq ready'[d] \cup accepted'
    BY <1>2, <2>2
  <2>5. \A d \in Converters : at'[d] = "ended" => at[d] = "ended"
    BY <1>2, <2>2
  <2>6. QED
    BY <1>1, <2>2, <2>3, <2>4, <2>5 DEF NoneForgotten, NoError
<1>10. QED
  BY <1>5, <1>6, <1>7, <1>8, <1>9 DEF ConverterStep, Answers, FileAnswers

LEMMA ExactConverter ==
  ASSUME UseInv, FileInv, KeepInv, ExactInv, NEW c \in Converters, ConverterStep(c)
  PROVE  ExactInv'
<1>1. StagesInTurn'
  BY ConverterOthers DEF ExactInv, StagesInTurn
<1>2. WrittenOnce'
  <2>1. ready[c] \cap out = {}
    BY DEF UseInv, OfferedOnce, KeepInv, OutAccepted
  <2>2. QED
    BY <2>1, ConverterOthers DEF ExactInv, WrittenOnce
<1>3. ASSUME trouble' = {} PROVE (NoError /\ NoneForgotten /\ CountExact /\ AllAccepted)'
  <2>1. trouble = {}
    BY <1>3, ConverterOthers
  <2>2. NoError /\ CountExact /\ AllAccepted
    BY <2>1 DEF ExactInv, Unharmed
  <2>3. conversion' = {} /\ NoneForgotten'
    BY <1>3, <2>1, ConverterGoesOn
  <2>4. NoError'
    BY <2>2, <2>3, ConverterOthers DEF NoError
  <2>5. CountExact'
    BY <2>2, ConverterOthers DEF CountExact, CountedRegions, Counting
  <2>6. AllAccepted'
    <3>1. accepted \subseteq accepted'
      BY DEF ConverterStep, Claim, ConvertChunks, CreateTerrain, FillTerrain, WriteEntities,
         MarkConverted, Enqueue, Dispatcher!Enqueue, dispatcher
    <3>2. world # "ok"
      BY DEF ConverterStep, Claim, ConvertChunks, CreateTerrain, FillTerrain, WriteEntities,
         MarkConverted, Enqueue, Moves, Fails, UseInv, Phases, Converting
    <3>3. QED
      BY <3>2, ConverterOthers DEF AllAccepted
  <2>7. QED
    BY <2>3, <2>4, <2>5, <2>6
<1>4. Verdicts'
  BY ConverterOthers DEF ExactInv, Verdicts
<1>5. QED
  BY <1>1, <1>2, <1>3, <1>4 DEF ExactInv, Unharmed

LEMMA SomeConverter == Converters # {}
<1>1. Cardinality(Regions) \in Nat \ {0}
  BY RegionsAssumption, PipelineAssumption, FS_CardinalityType, FS_EmptySet
<1>2. ConversionConcurrency \in Nat \ {0}
  <2>1. EffectiveConcurrency \in Nat
    BY PipelineAssumption DEF EffectiveConcurrency, Larger
  <2>2. TerraformConcurrency \in Nat
    BY <2>1 DEF TerraformConcurrency, Larger
  <2>3. QED
    BY <2>1, <2>2 DEF ConversionConcurrency, Larger
<1>3. 1 \in Converters
  BY <1>1, <1>2 DEF Converters, Smaller
<1>4. QED
  BY <1>3

(* When all conversion threads have left, unharmed, every region was       *)
(* converted and hence offered.                                            *)
LEMMA LeftNothing ==
  ASSUME UseInv, NoneForgotten, \A c \in Converters : at[c] = "ended"
  PROVE  Regions \subseteq accepted
<1>1. claimed = Regions
  BY SomeConverter DEF NoneForgotten
<1>2. \A r \in Regions : r \in converted
  BY <1>1 DEF NoneForgotten, Underway, Converting
<1>3. \A c \in Converters : ready[c] = {}
  BY DEF UseInv, OfferedOnce
<1>4. QED
  BY <1>2, <1>3, HoodOfItself DEF NoneForgotten

LEMMA ExactRun ==
  ASSUME UseInv, FileInv, KeepInv, ExactInv, RunStep
  PROVE  ExactInv'
<1>1. /\ UNCHANGED <<converter, converted, completed, accepted, out, stage, pc, work, done,
                     terraformed, release, status, failed>>
      /\ queue' \subseteq queue /\ trouble \subseteq trouble'
  BY DEF RunStep, PrepareWorld, ReturnWorld, Finish, Judge, DestroyDispatcher, DeleteTempDir,
     Return, Blames, Dispatcher!BeginFinish, Dispatcher!RetryFinish, Dispatcher!Stop,
     Dispatcher!NotifyStop, Dispatcher!Join, Dispatcher!locals, Dispatcher!history, dispatcher,
     scheduler, terraformer, files
<1>2. StagesInTurn' /\ WrittenOnce'
  BY <1>1 DEF ExactInv, StagesInTurn, WrittenOnce
<1>3. ASSUME trouble' = {} PROVE (NoError /\ NoneForgotten /\ CountExact /\ AllAccepted)'
  <2>1. NoError /\ NoneForgotten /\ CountExact /\ AllAccepted
    BY <1>1, <1>3 DEF ExactInv, Unharmed
  <2>2. NoneForgotten' /\ CountExact'
    BY <1>1, <2>1 DEF NoneForgotten, CountExact, CountedRegions, Counting, Underway, Converting,
       converter
  <2>3. ASSUME NEW answer \in Answers, Blames(answer) PROVE answer = "ok"
    BY <1>3, <2>3 DEF Blames
  <2>4. CASE \E answer \in FileAnswers : PrepareWorld(answer)
    <3>1. world' = "reducing" /\ UNCHANGED run
      BY <2>3, <2>4 DEF PrepareWorld, Answers
    <3>2. QED
      BY <1>1, <2>1, <2>2, <3>1 DEF NoError, AllAccepted, converter, run
  <2>5. CASE \E answer \in FileAnswers : ReturnWorld(answer)
    <3>1. world' = "ok" /\ UNCHANGED run /\ \A c \in Converters : at[c] = "ended"
      BY <2>1, <2>3, <2>5 DEF ReturnWorld, Answers, NoError
    <3>2. Regions \subseteq accepted /\ accepted \subseteq Regions
      BY <2>1, <3>1, LeftNothing, WorkFacts
    <3>3. QED
      BY <1>1, <2>1, <2>2, <3>1, <3>2 DEF NoError, AllAccepted, converter, run
  <2>6. CASE Finish \/ DestroyDispatcher \/ DeleteTempDir
    <3>1. UNCHANGED <<world, run>>
      BY <2>6 DEF Finish, DestroyDispatcher, DeleteTempDir, run
    <3>2. QED
      BY <1>1, <2>1, <2>2, <3>1 DEF NoError, AllAccepted, converter, run
  <2>7. CASE Judge
    <3>1. owner = "returned" /\ UNCHANGED <<world, result>> /\ verdict' = Judgement
      BY <2>7 DEF Judge
    <3>2. world = "ok"
      BY <2>1, <3>1 DEF UseInv, Phases, NoError
    <3>3. done = Regions
      BY <2>1, <3>1, <3>2 DEF UseInv, DP!IInv, DP!FinishVerdict, NoError, AllAccepted
    <3>4. completed = Regions
      BY <3>3, WorkFacts DEF ExactInv, StagesInTurn, FileInv, CompletedOnce
    <3>5. verdict' = "ok"
      BY <2>1, <3>1, <3>2, <3>4 DEF Judgement, AllCompleted, NoError
    <3>6. QED
      BY <1>1, <2>1, <2>2, <3>1, <3>5 DEF NoError, AllAccepted, converter
  <2>8. CASE \E answer \in {"ok", "cancel"} : Return(answer)
    <3>1. ~dir /\ UNCHANGED <<world, verdict>>
      BY <2>8 DEF Return
    <3>2. verdict = "ok"
      BY <2>1, <3>1 DEF UseInv, Phases, NoError, ExactInv, Verdicts
    <3>3. out = Regions
      BY <3>2, WorkFacts DEF KeepInv, VerdictFinal, OutAccepted, FileInv, CompletedOnce
    <3>4. CountedRegions = Regions
      BY <3>3, WorkFacts DEF CountedRegions
    <3>5. terraformed = Total
      BY <2>1, <3>4 DEF CountExact, Total
    <3>6. result' = "ok"
      BY <2>3, <2>8, <3>2, <3>5 DEF Return, Answers
    <3>7. QED
      BY <1>1, <2>1, <2>2, <3>1, <3>6 DEF NoError, AllAccepted, converter
  <2>9. QED
    BY <2>4, <2>5, <2>6, <2>7, <2>8 DEF RunStep
<1>4. Verdicts'
  BY DEF ExactInv, Verdicts, RunStep, PrepareWorld, ReturnWorld, Finish, Judge, Judgement,
     DestroyDispatcher, DeleteTempDir, Return, run
<1>5. QED
  BY <1>1, <1>2, <1>3, <1>4 DEF ExactInv, Unharmed

LEMMA ExactStep == UseInv /\ FileInv /\ KeepInv /\ ExactInv /\ [Next]_vars => ExactInv'
<1> SUFFICES ASSUME UseInv, FileInv, KeepInv, ExactInv, [Next]_vars PROVE ExactInv'
  OBVIOUS
<1>1. CASE Returned \/ UNCHANGED vars
  <2>1. UNCHANGED <<dispatcher, scheduler, converter, terraformer, files, run, world,
                    terraformed, trouble>>
    BY <1>1 DEF Returned, vars
  <2>2. StagesInTurn' /\ WrittenOnce' /\ Verdicts'
    <3>1. UNCHANGED <<queue, pc, work, done, completed, stage, out, verdict, result>>
      BY <2>1 DEF dispatcher, scheduler, terraformer, files, run
    <3>2. QED
      BY <3>1 DEF ExactInv, StagesInTurn, WrittenOnce, Verdicts
  <2>3. NoError' = NoError /\ AllAccepted' = AllAccepted
    <3>1. UNCHANGED <<accepted, status, failed, conversion, world, verdict, result>>
      BY <2>1 DEF dispatcher, converter, run
    <3>2. QED
      BY <3>1 DEF NoError, AllAccepted
  <2>4. NoneForgotten' = NoneForgotten
    BY <2>1 DEF NoneForgotten, Underway, Converting, dispatcher, scheduler, converter
  <2>5. CountExact' = CountExact
    <3>1. UNCHANGED <<pc, work, stage, out, terraformed>>
      BY <2>1 DEF dispatcher, terraformer, files
    <3>2. QED
      BY <3>1 DEF CountExact, CountedRegions, Counting
  <2>6. QED
    BY <2>1, <2>2, <2>3, <2>4, <2>5 DEF ExactInv, Unharmed
<1>2. QED
  BY <1>1, ExactConverter, ExactTerraformer, ExactRun DEF Next

(* Run's result is an error exactly when something outside the program     *)
(* failed or was cancelled: no failure is swallowed, and no check of the   *)
(* program fires on its own, that of the number of chunks included.        *)
THEOREM ResultExactCorrect == Spec => []ResultExact
<1>1. UseInv /\ KeepInv /\ FailureInv /\ ExactInv => ResultExact
  <2> SUFFICES ASSUME UseInv, KeepInv, FailureInv, ExactInv, result # "none"
               PROVE  result = "ok" <=> trouble = {}
    BY DEF ResultExact
  <2>1. ASSUME trouble = {} PROVE result = "ok"
    BY <2>1 DEF ExactInv, Unharmed, NoError, Verdicts
  <2>2. ASSUME result = "ok" PROVE trouble = {}
    BY <2>2, NoFailureSwallowed
  <2>3. QED
    BY <2>1, <2>2
<1>2. QED
  BY <1>1, FileInvariant, KeepInit, KeepStep, FailureInit, FailureStep, ExactInit, ExactStep,
     PTL DEF Spec

===============================================================================
