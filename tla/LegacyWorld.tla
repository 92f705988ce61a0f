------------------------------ MODULE LegacyWorld ------------------------------
(***************************************************************************)
(* lce::World::Convert for one dimension of a console world: one file per  *)
(* chunk in a temporary directory, terraforming in place, the chunks of a  *)
(* region joined to one file in "region_", light computed from there into  *)
(* "region", and empty regions around the world.  Each phase but the       *)
(* terraforming is a Parallel::Process over chunks or regions, seen        *)
(* through its contract: its works take effect in any order, and the first *)
(* error ends the phase.                                                   *)
(***************************************************************************)
EXTENDS LegacyTerraform, FiniteSets

CONSTANTS
  Inner,       \* the inner regions
  RegionOf,    \* of each chunk of the grid
  Outer,       \* the regions around them
  MaxFaults    \* bound: how many calls fail, or answer "cancel"

VARIABLES
  phase,       \* where Convert is; finally "ok" or "error"
  present,     \* the inner regions whose .mcr file exists
  worked,      \* the works of the phase that are over
  made,        \* history: the chunks Chunk::Convert has found
  temp,        \* the temporary directory exists
  joined,      \* the chunks of each file in "region_": <<chunk, state>>
  joinedDir,   \* the directory "region_" exists
  out,         \* the same for "region"
  outer,       \* the outer regions written
  faults,      \* history: the calls that failed or cancelled
  dropped      \* history: the failures nobody noticed

world == <<phase, worked, made, temp, joined, joinedDir, out, outer>>
worldVars == <<vars, world, present, faults, dropped>>

Grid == Queue!Cells

Init ==
  /\ InitThreads
  /\ file = [p \in Grid |-> "absent"]
  /\ phase = "convert"
  /\ present \in SUBSET Inner
  /\ worked = {}
  /\ made = {}
  /\ temp = TRUE
  /\ joined = [r \in Inner |-> {}]
  /\ joinedDir = FALSE
  /\ out = [r \in Inner |-> {}]
  /\ outer = {}
  /\ faults = 0 /\ dropped = 0

Chunks(r) == {p \in Grid : RegionOf[p] = r}

InnerChunks == UNION {Chunks(r) : r \in present}

NoFault == UNCHANGED <<faults, dropped>>
Fault == faults + dropped < MaxFaults /\ faults' = faults + 1 /\ UNCHANGED dropped
Dropped == faults + dropped < MaxFaults /\ dropped' = dropped + 1 /\ UNCHANGED faults

(* A work of the phase ends well, or ends the phase. *)
Works(work) == worked' = worked \cup {work} /\ UNCHANGED phase /\ NoFault
Fails == phase' = "failed" /\ Fault /\ UNCHANGED worked

(* The phase is over: a report may still cancel, a directory not appear.   *)
Passes(from, to) ==
  /\ phase = from
  /\ worked' = {}
  /\ \/ phase' = to /\ NoFault
     \/ phase' = "failed" /\ Fault

-------------------------------------------------------------------------------
(* ProcessChunk; a file that cannot be written is deleted. *)
ConvertChunk(p) ==
  /\ phase = "convert" /\ p \in InnerChunks \ worked
  /\ \/ /\ Works(p)
        /\ \/ made' = made \cup {p} /\ file' = [file EXCEPT ![p] = "raw"]
           \/ UNCHANGED <<made, file>>
     \/ Fails /\ UNCHANGED <<made, file>>
  /\ UNCHANGED <<queue, ok, at, cell, poi, present, temp, joined, joinedDir, out, outer>>

Converted ==
  /\ worked = InnerChunks
  /\ phase = "convert" /\ phase' = "terraform" /\ worked' = {}
  /\ UNCHANGED <<vars, present, made, temp, joined, joinedDir, out, outer, faults, dropped>>

(* Terraform::MultiThread *)
Absent(w) == at[w] = "read" /\ file[cell[w]] = "absent"

Terraform(w) ==
  /\ phase = "terraform"
  /\ \/ /\ \/ Check(w) \/ Next(w) \/ Read(w) \/ BeginWrite(w) \/ EndWrite(w, TRUE)
           \/ Merge(w) \/ Fail(w) \/ Unlock(w) \/ Report(w, TRUE)
           \/ Absent(w) /\ PassOver(w)
        /\ NoFault
     \/ (Malformed(w) \/ EndWrite(w, FALSE) \/ Report(w, FALSE)) /\ Fault
     \/ ~Absent(w) /\ PassOver(w) /\ Dropped
  /\ UNCHANGED <<world, present>>

(* poi.write, and the directory "region_". *)
Terraformed ==
  /\ Returned
  /\ \/ ok /\ Passes("terraform", "concat")
     \/ ~ok /\ phase = "terraform" /\ phase' = "failed" /\ worked' = {} /\ NoFault
  /\ joinedDir' = (phase' = "concat")
  /\ UNCHANGED <<vars, present, made, temp, joined, out, outer>>

(* ConcatCompressedNbt with fDeleteInput *)
Concat(r) ==
  /\ phase = "concat" /\ r \in present \ worked
  /\ \/ /\ Works(r)
        /\ joined' = [joined EXCEPT ![r] = {<<p, file[p]>> : p \in {q \in Chunks(r) : file[q] # "absent"}}]
        /\ file' = [p \in Grid |-> IF p \in Chunks(r) THEN "absent" ELSE file[p]]
     \/ Fails /\ UNCHANGED <<joined, file>>
  /\ UNCHANGED <<queue, ok, at, cell, poi, present, made, temp, joinedDir, out, outer>>

Concatenated ==
  /\ worked = present
  /\ Passes("concat", "lighting")
  /\ UNCHANGED <<vars, present, made, temp, joined, joinedDir, out, outer>>

(* Lighting: an empty file is passed over, one that cannot be opened too.  *)
Light(r) ==
  /\ phase = "lighting" /\ r \in present \ worked
  /\ \/ Works(r) /\ out' = [out EXCEPT ![r] = joined[r]]
     \/ worked' = worked \cup {r} /\ UNCHANGED <<phase, out>> /\ joined[r] # {} /\ Dropped
     \/ Fails /\ UNCHANGED out
  /\ UNCHANGED <<vars, present, made, temp, joined, joinedDir, outer>>

(* Fs::DeleteAll of "region_", whose result is not looked at. *)
Lit ==
  /\ phase = "lighting" /\ worked = present
  /\ phase' = "outer" /\ worked' = {}
  /\ \/ joinedDir' = FALSE /\ NoFault
     \/ UNCHANGED joinedDir /\ Dropped
  /\ UNCHANGED <<vars, present, made, temp, joined, out, outer>>

CreateOuterRegion(r) ==
  /\ phase = "outer" /\ r \in Outer \ worked
  /\ \/ Works(r) /\ outer' = outer \cup {r}
     \/ Fails /\ UNCHANGED outer
  /\ UNCHANGED <<vars, present, made, temp, joined, joinedDir, out>>

LastReport ==
  /\ worked = Outer
  /\ Passes("outer", "leaving")
  /\ UNCHANGED <<vars, present, made, temp, joined, joinedDir, out, outer>>

(* The deferred deletion, on every way out; its result is not looked at.   *)
Leave ==
  /\ phase \in {"leaving", "failed"}
  /\ \/ temp' = FALSE /\ file' = [p \in Grid |-> "absent"] /\ NoFault
     \/ \E rest \in SUBSET Grid :
          /\ UNCHANGED temp /\ Dropped
          /\ file' = [p \in Grid |-> IF p \in rest THEN file[p] ELSE "absent"]
  /\ phase' = IF phase = "failed" THEN "error" ELSE "ok"
  /\ UNCHANGED <<queue, ok, at, cell, poi, present, worked, made, joined, joinedDir, out, outer>>

Over == phase \in {"ok", "error"}

-------------------------------------------------------------------------------
MainStep ==
  \/ \E p \in Grid : ConvertChunk(p)
  \/ Converted \/ Terraformed
  \/ \E r \in Inner : Concat(r) \/ Light(r)
  \/ Concatenated \/ Lit
  \/ \E r \in Outer : CreateOuterRegion(r)
  \/ LastReport \/ Leave

WorldNext ==
  \/ MainStep
  \/ \E w \in Workers : Terraform(w)
  \/ Over /\ UNCHANGED worldVars

Spec == Init /\ [][WorldNext]_worldVars

(* Threads that can run do; a sleeping one wakes up. *)
FairSpec ==
  /\ Spec
  /\ WF_worldVars(MainStep)
  /\ \A w \in Workers : WF_worldVars(Terraform(w))

-------------------------------------------------------------------------------
(* Convert answers Ok exactly when nothing it looks at has failed and      *)
(* nobody has cancelled.  Then, unless a failure was dropped, every chunk  *)
(* of the world is in its region, terraformed, with its points of          *)
(* interest, and the outer regions are there.  What is temporary is gone   *)
(* on every way out, unless a failure was dropped.                         *)
WorldExact ==
  Over =>
    /\ phase = "ok" <=> faults = 0
    /\ phase = "ok" /\ dropped = 0 =>
         /\ \A r \in Inner : out[r] = {<<p, "done">> : p \in made \cap Chunks(r)}
         /\ poi = made
         /\ outer = Outer
         /\ ~joinedDir
    /\ dropped = 0 => ~temp

(* Convert returns, whatever fails and whenever it is cancelled: threads   *)
(* that find all tasks locked do not wait for each other forever.          *)
ConvertReturns == <>Over

===============================================================================
