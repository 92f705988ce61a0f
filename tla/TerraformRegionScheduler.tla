----------------------- MODULE TerraformRegionScheduler -----------------------
(***************************************************************************)
(* bedrock::TerraformRegionScheduler, the dependency counters that decide  *)
(* when a converted region may be terraformed and when its temporary file  *)
(* may be deleted.  Both operations hold fMutex from their first line to   *)
(* their last, so each of them is one step.  Callers are arbitrary: any    *)
(* thread may call either operation with any position, known or not, again *)
(* or too early.                                                           *)
(***************************************************************************)
EXTENDS RegionGrid

CONSTANT Strangers   \* positions that are not in fStates and that a caller may name

ASSUME StrangersAssumption == Strangers \cap Regions = {}

VARIABLES
  dependencies,     \* State::fDependencies
  consumers,        \* State::fConsumers
  converted,        \* State::fConverted
  scheduled,        \* State::fScheduled
  completed,        \* State::fCompleted
  completedCount,   \* TerraformRegionScheduler::fCompleted
  reply             \* the last call and the optional<vector<Pos2i>> it returned

state == <<dependencies, consumers, converted, scheduled, completed, completedCount>>

schedulerVars == <<dependencies, consumers, converted, scheduled, completed, completedCount, reply>>

Callable == Regions \cup Strangers

Answer(call, r, regions) ==
  [call |-> call, region |-> r, ok |-> TRUE, regions |-> regions]

NullOpt(call, r) ==
  [call |-> call, region |-> r, ok |-> FALSE, regions |-> {}]

(* The constructor: every existing neighbour is a source of its targets. *)
SchedulerInit ==
  /\ dependencies = [r \in Regions |-> Cardinality(Hood(r))]
  /\ consumers = [r \in Regions |-> Cardinality({t \in Regions : r \in Hood(t)})]
  /\ converted = [r \in Regions |-> FALSE]
  /\ scheduled = [r \in Regions |-> FALSE]
  /\ completed = [r \in Regions |-> FALSE]
  /\ completedCount = 0
  /\ reply \in [call : {"none"}, region : Callable, ok : {TRUE}, regions : {{}}]

-------------------------------------------------------------------------------
(* Faulty variants of the definitions below, each a bug that a property    *)
(* must catch: fConverted not checked, fCompleted not checked, fScheduled  *)
(* not checked, the inner loop running dx from -1 to 0 only, a source      *)
(* released when one reader is left.                                       *)
MayConvertAgain(r) == r \in Regions

ReachedShortLoop(r, stops) ==
  {t \in Hood(r) : t.fX <= r.fX /\ \A s \in stops : Before(t, s)}

OneConsumerLeft(ts) == {t \in ts : consumers[t] \in 1..2}

(* The conditions of the early returns.                                    *)
MayConvert(r) == r \in Regions /\ ~converted[r]

MayComplete(r) == r \in Regions /\ scheduled[r] /\ ~completed[r]

(* A loop over the neighbourhood returns nullopt at the first position in  *)
(* "stops", after it has handled the positions before that one.            *)
Reached(r, stops) == {t \in Hood(r) : \A s \in stops : Before(t, s)}

FirstOf(stops) == {s \in stops : \A t \in stops : s = t \/ Before(s, t)}

(* dependencies == 0 stops markConverted before the decrement, a region    *)
(* that is already scheduled stops it after the decrement.                 *)
ConversionStops(r) ==
  {t \in Hood(r) : dependencies[t] = 0 \/ (dependencies[t] = 1 /\ scheduled[t])}

CompletionStops(r) == {t \in Hood(r) : consumers[t] = 0}

(* The positions whose counter the loop brings to zero.                    *)
LastDependency(ts) == {t \in ts : dependencies[t] = 1}

LastConsumer(ts) == {t \in ts : consumers[t] = 1}

CountDown(counter, ts) ==
  [t \in Regions |-> IF t \in ts THEN counter[t] - 1 ELSE counter[t]]

MarkConverted(r) ==
  LET stops   == ConversionStops(r)
      reached == Reached(r, stops)
      ready   == LastDependency(reached)
  IN /\ MayConvert(r)
     /\ converted' = [converted EXCEPT ![r] = TRUE]
     /\ dependencies' = CountDown(dependencies, reached \cup LastDependency(FirstOf(stops)))
     /\ scheduled' = [t \in Regions |-> scheduled[t] \/ t \in ready]
     /\ reply' = IF stops = {} THEN Answer("markConverted", r, ready)
                               ELSE NullOpt("markConverted", r)
     /\ UNCHANGED <<consumers, completed, completedCount>>

MarkCompleted(r) ==
  LET stops   == CompletionStops(r)
      reached == Reached(r, stops)
  IN /\ MayComplete(r)
     /\ completed' = [completed EXCEPT ![r] = TRUE]
     /\ completedCount' = completedCount + 1
     /\ consumers' = CountDown(consumers, reached)
     /\ reply' = IF stops = {} THEN Answer("markCompleted", r, LastConsumer(reached))
                               ELSE NullOpt("markCompleted", r)
     /\ UNCHANGED <<dependencies, converted, scheduled>>

RejectConverted(r) ==
  /\ ~MayConvert(r)
  /\ reply' = NullOpt("markConverted", r)
  /\ UNCHANGED state

RejectCompleted(r) ==
  /\ ~MayComplete(r)
  /\ reply' = NullOpt("markCompleted", r)
  /\ UNCHANGED state

(* allCompleted(): a size_t counter against fStates.size().                *)
AllCompleted == completedCount = Cardinality(Regions)

SchedulerNext ==
  \E r \in Callable :
    \/ MarkConverted(r)
    \/ MarkCompleted(r)
    \/ RejectConverted(r)
    \/ RejectCompleted(r)

SchedulerSpec == SchedulerInit /\ [][SchedulerNext]_schedulerVars

-------------------------------------------------------------------------------
(* Every counter stays within the nine positions of a neighbourhood: no    *)
(* decrement passes zero and uint8_t is wide enough for every dimension.   *)
SchedulerTypeOK ==
  /\ dependencies \in [Regions -> 0..9]
  /\ consumers \in [Regions -> 0..9]
  /\ converted \in [Regions -> BOOLEAN]
  /\ scheduled \in [Regions -> BOOLEAN]
  /\ completed \in [Regions -> BOOLEAN]
  /\ completedCount \in 0..Cardinality(Regions)
  /\ reply \in [call : {"none", "markConverted", "markCompleted"}, region : Callable,
                ok : BOOLEAN, regions : SUBSET Regions]

(* fDependencies and fConsumers are decremented from two different calls   *)
(* in any order: they always equal the number of neighbours that are not   *)
(* converted, or not completed, and a region is scheduled exactly when the *)
(* last of its neighbours is converted.                                    *)
CountersExact ==
  \A r \in Regions :
    /\ dependencies[r] = Cardinality({s \in Hood(r) : ~converted[s]})
    /\ consumers[r] = Cardinality({s \in Hood(r) : ~completed[s]})
    /\ scheduled[r] <=> \A s \in Hood(r) : converted[s]

(* allCompleted(), which Run trusts before it keeps a dimension, says yes  *)
(* exactly when every region was completed, and then no region is left     *)
(* unconverted or holds a temporary file that nobody will release.         *)
AllCompletedExact ==
  /\ completedCount = Cardinality({r \in Regions : completed[r]})
  /\ \A r \in Regions : completed[r] => scheduled[r]
  /\ AllCompleted <=> \A r \in Regions : completed[r]
  /\ AllCompleted => \A r \in Regions : dependencies[r] = 0 /\ consumers[r] = 0

(* The nullopt returns in the middle of the loops would leave half of the  *)
(* neighbourhood decremented; a call that returns nullopt changes nothing, *)
(* so these returns never happen.                                          *)
RefusalChangesNothing ==
  [][~reply'.ok => UNCHANGED state]_schedulerVars

(* The scheduler implements the counter-free frontier: a region becomes    *)
(* ready once, at the conversion of the last region it reads, and is       *)
(* releasable once, at the completion of the last region that reads it.    *)
Frontier ==
  INSTANCE RegionFrontier WITH
    converted <- {r \in Regions : converted[r]},
    completed <- {r \in Regions : completed[r]}

FrontierSpec == Frontier!Spec

===============================================================================
