--------------------------- MODULE EntityAttachment ---------------------------
(***************************************************************************)
(* Entities of one dimension on their way from Bedrock to Java.  Bedrock   *)
(* links a vehicle to its passengers and a leashed animal to its knot by   *)
(* ids; Java nests a passenger in its vehicle, the vehicle of a player in  *)
(* the player, and writes the knot's position.  What Chunk::Convert cannot *)
(* resolve in the chunk it keeps in the Context; World::Convert merges the *)
(* contexts of all regions and tries again on the files written.           *)
(* An entity is an id; what is nested in what is the relation "riding".    *)
(***************************************************************************)
EXTENDS Integers, Sequences, FiniteSets, SequencesExt

CONSTANTS
  Entities, Knots,   \* Knots: those that are leash knots
  Players,
  Regions,
  ChunksOf,          \* of each region: its chunks, in the order of conversion
  Outside,           \* a chunk that is not converted
  None,
  Worlds             \* the worlds to convert

Chunks == UNION {ToSet(ChunksOf[r]) : r \in Regions}

(* A world says of each entity in which chunk it is, of each vehicle whom  *)
(* it carries at which index, of each animal who holds its leash, of each  *)
(* player who sits on the shoulder.  Nobody is in two vehicles.            *)
ASSUME WorldAssumption ==
  \A w \in Worlds :
    /\ w.at \in [Entities -> Chunks \cup {Outside}]
    /\ \A e \in Entities : ToSet(w.links[e]) \subseteq Entities \cup Players
    /\ \A e, f \in Entities :
         e # f => ToSet(w.links[e]) \cap ToSet(w.links[f]) = {}
    /\ w.leasher \in [Entities -> Knots \cup Players \cup {None}]
    /\ w.shoulder \in [Players -> Entities \cup {None}]

VARIABLES
  world,
  todo,      \* of each region: its chunks still to convert
  context,   \* of each region
  list,      \* of each chunk: its entities in the region's file
  riding,    \* <<passenger, vehicle>>: nested in it
  tied,      \* entities whose "leash" is the position of a knot
  merged,    \* the regions whose contexts are in "total"
  total,
  visit,     \* the chunks still to open a second time
  phase

vars == <<world, todo, context, list, riding, tied, merged, total, visit, phase>>

(* fVehicleEntities: of each vehicle the indices not yet resolved. *)
EmptyContext ==
  [leashed |-> {}, knots |-> {}, vehicles |-> <<>>, entities |-> {},
   roots |-> <<>>, shoulder |-> <<>>]

Init ==
  /\ world \in Worlds
  /\ todo = ChunksOf
  /\ context = [r \in Regions |-> EmptyContext]
  /\ list = [c \in Chunks |-> {}]
  /\ riding = {} /\ tied = {}
  /\ merged = {} /\ total = EmptyContext
  /\ visit = {}
  /\ phase = "convert"

-------------------------------------------------------------------------------
(* Context.  roots[p] is the vehicle p sits in, the lowest vehicle of the  *)
(* pile that is known, and the entity to be saved with the player.         *)
IsRootVehicle(roots, v) == \E p \in DOMAIN roots : roots[p].root = v

SetRootVehicleEntity(roots, v) ==
  [p \in DOMAIN roots |->
     IF roots[p].root = v THEN [roots[p] EXCEPT !.vehicle = v] ELSE roots[p]]

Carriers(vehicles, v) ==
  {w \in DOMAIN vehicles : \E i \in vehicles[w] : world.links[w][i] = v}

RECURSIVE Bottom(_, _, _)
Bottom(vehicles, v, visited) ==
  IF v \in visited \/ Carriers(vehicles, v) = {} THEN v
  ELSE Bottom(vehicles, CHOOSE w \in Carriers(vehicles, v) : TRUE, visited \cup {v})

PromoteRootVehicles(roots, vehicles) ==
  [p \in DOMAIN roots |-> [roots[p] EXCEPT !.root = Bottom(vehicles, @, {})]]

-------------------------------------------------------------------------------
(* A faulty variant: a passenger is nested and listed.                     *)
AllStay(top, riders) == top

(* Chunk::Convert.  What Entity::From makes of the entities of a chunk.    *)
OnShoulder(c) == {e \in Entities : world.at[e] = c /\ \E p \in Players : world.shoulder[p] = e}

Converted(c) == {e \in Entities \ Knots : world.at[e] = c} \ OnShoulder(c)

Passengers(c, players) ==
  {v \in Converted(c) : \E p \in players : p \in ToSet(world.links[v])}

Collected(ctx, c) ==
  LET riders == {p \in Players : Passengers(c, {p}) # {}}
      sat == {p \in Players : world.shoulder[p] \in OnShoulder(c)}
  IN  [leashed |-> ctx.leashed \cup {e \in Converted(c) : world.leasher[e] \in Knots},
       knots |-> ctx.knots \cup {k \in Knots : world.at[k] = c},
       vehicles |-> [v \in {w \in Converted(c) : world.links[w] # <<>>} |-> DOMAIN world.links[v]]
                    @@ ctx.vehicles,
       entities |-> ctx.entities \cup Converted(c),
       roots |-> [p \in riders |-> LET v == CHOOSE w \in Passengers(c, {p}) : TRUE
                                   IN  [attach |-> v, root |-> v, vehicle |-> None]] @@ ctx.roots,
       shoulder |-> [p \in sat |-> world.shoulder[p]] @@ ctx.shoulder]

(* A passenger leaves the list when it is nested. *)
Remaining(top, riders) == top \ riders

(* AttachPassengers for one vehicle: s.top is the local map "entities". *)
Board(s, v) ==
  LET link(i) == world.links[v][i]
      aboard == {i \in s.vehicles[v] : link(i) \in s.top}
      rest == {i \in s.vehicles[v] \ aboard : link(i) \notin Players}
      riders == {link(i) : i \in aboard}
      complete == rest = {}
  IN  IF v \notin s.top THEN s
      ELSE [top |-> Remaining(s.top, riders)
                    \ (IF complete /\ IsRootVehicle(s.roots, v) THEN {v} ELSE {}),
            riding |-> s.riding \cup (riders \X {v}),
            vehicles |-> IF complete THEN [w \in DOMAIN s.vehicles \ {v} |-> s.vehicles[w]]
                         ELSE [s.vehicles EXCEPT ![v] = rest],
            roots |-> IF complete THEN SetRootVehicleEntity(s.roots, v) ELSE s.roots]

(* The vehicles are gone through in the order of an unordered_map. *)
Boarded(ctx, c, order) ==
  FoldLeft(Board,
    [top |-> Converted(c), riding |-> riding, vehicles |-> ctx.vehicles,
     roots |-> PromoteRootVehicles(ctx.roots, ctx.vehicles)], order)

(* AttachLeash: the knots known so far, the entities still at the top. *)
Tied(ctx, top) == {e \in ctx.leashed \cap top : world.leasher[e] \in ctx.knots}

ConvertChunk(r) ==
  /\ phase = "convert" /\ todo[r] # <<>>
  /\ LET c == Head(todo[r])
         ctx == Collected(context[r], c)
     IN \E order \in SetToSeqs(DOMAIN ctx.vehicles) :
          LET s == Boarded(ctx, c, order)
              now == Tied(ctx, s.top)
          IN /\ list' = [list EXCEPT ![c] = {e \in s.top : ~IsRootVehicle(s.roots, e)}]
             /\ riding' = s.riding
             /\ tied' = tied \cup now
             /\ context' = [context EXCEPT ![r] =
                  [ctx EXCEPT !.leashed = @ \ now, !.vehicles = s.vehicles, !.roots = s.roots]]
  /\ todo' = [todo EXCEPT ![r] = Tail(@)]
  /\ UNCHANGED <<world, merged, total, visit, phase>>

-------------------------------------------------------------------------------
(* Context::mergeInto: a root vehicle that is there stays, unless only the *)
(* new one has its entity.                                                 *)
MergeInto(from, to) ==
  LET replaced == {p \in DOMAIN from.roots :
        p \in DOMAIN to.roots =>
          to.roots[p].vehicle = None /\ from.roots[p].vehicle # None}
  IN  [leashed |-> to.leashed \cup from.leashed,
       knots |-> to.knots \cup from.knots,
       vehicles |-> to.vehicles @@ from.vehicles,
       entities |-> to.entities \cup from.entities,
       roots |-> [p \in replaced |-> from.roots[p]] @@ to.roots,
       shoulder |-> to.shoulder @@ from.shoulder]

(* The region is written, and its context merged by the Reduce. *)
Merge(r) ==
  /\ phase = "convert" /\ todo[r] = <<>> /\ r \notin merged
  /\ merged' = merged \cup {r}
  /\ total' = MergeInto(context[r], total)
  /\ UNCHANGED <<world, todo, context, list, riding, tied, visit, phase>>

(* World::Convert after the Reduce: which chunks have something left. *)
Reopen ==
  /\ phase = "convert" /\ merged = Regions
  /\ total' = [total EXCEPT !.roots = PromoteRootVehicles(@, total.vehicles)]
  /\ visit' = {world.at[e] : e \in total.leashed \cup DOMAIN total.vehicles}
  /\ phase' = "attach"
  /\ UNCHANGED <<world, todo, context, list, riding, tied, merged>>

(* AttachLeashAndPassengers: a vehicle at the top of its chunk gets those  *)
(* passengers that are at the top of the same chunk.  One in another chunk *)
(* is looked for in a file of that chunk's own, which nobody writes.  The  *)
(* changed list goes back into the editor of the region's file and ends    *)
(* with it, because the editor's write() is not called: what stays is what *)
(* the Context has taken, the vehicles of players.                         *)
Attach(c) ==
  /\ phase = "attach" /\ c \in visit
  /\ LET found == {v \in DOMAIN total.vehicles : v \in list[c]}
         taken == {v \in found : IsRootVehicle(total.roots, v)}
         riders(v) == {world.links[v][i] : i \in total.vehicles[v]} \cap list[c]
     IN /\ total' = [total EXCEPT !.roots =
             [p \in DOMAIN total.roots |->
                LET root == total.roots[p]
                IN  IF root.root \in taken THEN [root EXCEPT !.vehicle = root.root] ELSE root]]
        /\ riding' = riding \cup UNION {riders(v) \X {v} : v \in taken}
        /\ tied' = tied \cup Tied(total, taken)
  /\ visit' = visit \ {c}
  /\ UNCHANGED <<world, todo, context, list, merged, phase>>

(* AttachPlayerState *)
Finish ==
  /\ phase = "attach" /\ visit = {}
  /\ phase' = "ok"
  /\ UNCHANGED <<world, todo, context, list, riding, tied, merged, total, visit>>

(* A file that cannot be opened, read or written, or a cancellation. *)
Fail ==
  /\ phase \in {"convert", "attach"}
  /\ phase' = "error"
  /\ UNCHANGED <<world, todo, context, list, riding, tied, merged, total, visit>>

Over == phase \in {"ok", "error"} /\ UNCHANGED vars

Next ==
  \/ \E r \in Regions : ConvertChunk(r) \/ Merge(r)
  \/ Reopen
  \/ \E c \in Chunks : Attach(c)
  \/ Finish \/ Fail \/ Over

Spec == Init /\ [][Next]_vars

-------------------------------------------------------------------------------
(* Those who are linked to each other, directly or not. *)
Crew(v) == {v} \cup ToSet(world.links[v])

RECURSIVE Reach(_)
Reach(party) ==
  LET more == party \cup UNION {Crew(v) : v \in {w \in Entities : Crew(w) \cap party # {}}}
  IN  IF more = party THEN party ELSE Reach(more)

Party(e) == Reach({e})

Together(party) ==
  \A e, f \in party \cap Entities : world.at[e] = world.at[f]

RECURSIVE Aboard(_)
Aboard(v) == {v} \cup UNION {Aboard(ride[1]) : ride \in {x \in riding : x[2] = v}}

(* Where an entity ends up: in the file, alone or nested, with a player as *)
(* part of the vehicle, or on a shoulder.                                  *)
Places(e) ==
  {<<c, v>> \in Chunks \X Entities : v \in list[c] /\ e \in Aboard(v)}
  \cup {p \in DOMAIN total.roots : total.roots[p].vehicle # None /\ e \in Aboard(total.roots[p].vehicle)}
  \cup {<<p>> : p \in {q \in DOMAIN total.shoulder : total.shoulder[q] = e}}

Read == {e \in Entities \ Knots : world.at[e] # Outside}

(* After a conversion that answers Ok every entity that was read is in     *)
(* exactly one place, in whatever order the maps are gone through and the  *)
(* contexts are merged.  Players that sit in one party get a copy each of  *)
(* all of it, or of all but what stays in the file because its vehicle was *)
(* nested before it could board; and nothing is promised of a party with a *)
(* player that is not all in one chunk.                                    *)
EntitiesOnce ==
  phase = "ok" =>
    \A e \in Read :
      LET riders == Party(e) \cap Players
      IN  \/ Cardinality(Places(e)) = 1
          \/ riders # {} /\ Cardinality(Places(e)) = Cardinality(riders)
          \/ riders # {} /\ ~Together(Party(e))

(* bedrock-entity.cpp:186 says of an animal's Leash: "This "leash"         *)
(* property will be replaced to int array tag like [x, y, z] when the      *)
(* leasher is a leash_knot."  Not so of an animal that rides a vehicle.    *)
LeashesTied ==
  phase = "ok" =>
    \A e \in Read :
      world.leasher[e] \in Knots /\ world.at[world.leasher[e]] # Outside => e \in tied

===============================================================================
