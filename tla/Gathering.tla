----------------------------- MODULE Gathering -----------------------------
(***************************************************************************)
(* The gather verb of one body (minecraft-service, gather, runGather-      *)
(* Session, harvestOneBlock, relocateToward).  A command runs a trip of up *)
(* to TripBlocks blocks.  The watchdog abandons a trip without ending it:  *)
(* the busy seam is the only thing the trip asks afterwards, and the next  *)
(* command sets the seam again.                                            *)
(*                                                                         *)
(* Blocks lie in clusters (what the radius of a region mark takes in), the *)
(* body stands on spots.  A block that a walk cannot reach has no spot.    *)
(***************************************************************************)
EXTENDS Naturals, FiniteSets

CONSTANTS
  Trip,        \* gather commands that may be in flight together
  Block,       \* blocks of the one resource family
  ClusterOf,   \* [Block -> cluster]
  Spot,        \* where the body may stand
  Below,       \* [Block -> Spot or NoSpot]: where the walk to it ends
  NoSpot,
  InReach,     \* [Spot -> SUBSET Block]: what a scan of maxDistance finds
  Rank,       \* [Block -> Nat]: the order of distances, from any spot
  TripBlocks,  \* count
  ScanCap,     \* how many candidates a scan returns
  MarkLife,    \* GATHER_TARGET_BLACKLIST_MS
  NoBlock,     \* no target
  NoTrip,
  OtherVerb    \* stands for any command but gather

Clusters == {ClusterOf[b] : b \in Block}

ASSUME GatheringAssumption ==
  /\ IsFiniteSet(Trip) /\ IsFiniteSet(Block) /\ NoTrip \notin Trip /\ NoBlock \notin Block
  /\ NoSpot \notin Spot /\ Below \in [Block -> Spot \cup {NoSpot}]
  /\ InReach \in [Spot -> SUBSET Block] /\ Rank \in [Block -> Nat]
  /\ TripBlocks \in Nat \ {0} /\ ScanCap \in Nat \ {0} /\ MarkLife \in Nat \ {0}
  /\ OtherVerb \notin Trip \cup {NoTrip}

VARIABLES
  standing,   \* blocks the world still has
  drops,      \* blocks whose item lies on the ground
  spot,       \* position
  marks,      \* gatherBlacklist, the blocks: [Block -> time left]
  regions,    \* gatherBlacklist, the regions: [cluster -> time left]
  lastTry,    \* lastGatherAttempt: target and origin
  trips,      \* the promises: [Trip -> stage, blocks left, target, origin and
              \* whether the yield carried has grown since the block was begun]
  holder,     \* the trip whose command has busy = 'action'
  path,       \* the trip whose goto the pathfinder follows
  overlapped, \* history: two trips were in flight together
  stuckOn     \* history: [cluster -> time left] tried in vain since the body came to spot

groundVars  == <<standing, drops, spot>>
memoryVars == <<marks, regions, lastTry>>
gatherVars == <<groundVars, memoryVars, trips, holder, path, overlapped, stuckOn>>

NoTry  == [target |-> NoBlock, origin |-> NoSpot]
NoSession == [stage |-> "none", left |-> 0, target |-> NoBlock, gained |-> FALSE, origin |-> NoSpot]

InFlight == {t \in Trip : trips[t].stage # "none"}
Tick0(f) == [x \in DOMAIN f |-> IF f[x] = 0 THEN 0 ELSE f[x] - 1]
Forgotten == [c \in Clusters |-> 0]

\* A goto that another goto or setGoal(null) replaced rejects, and a session
\* goes from block to block, before anything else gets its turn.
Rejected(t) == trips[t].stage \in {"walking", "relocating"} /\ path # t
Runs(t)     == trips[t].stage = "ready" \/ Rejected(t)

MovesTo(s) == spot' = s /\ stuckOn' = IF s = spot THEN stuckOn ELSE Forgotten

\* The promise settles.  If it is still the command's, the executor releases
\* the body with it.
TripEnds(t) == /\ trips' = [trips EXCEPT ![t] = NoSession]
           /\ holder' = IF holder = t THEN NoTrip ELSE holder

\* A try that came to nothing, told apart for the property only.
InVain(t, s, tried) == IF s = trips[t].origin
                       THEN [tried EXCEPT ![ClusterOf[trips[t].target]] = MarkLife] ELSE tried

-----------------------------------------------------------------------------
\* A gather command claims the body and begins its session.
StartTrip(t) ==
  /\ holder = NoTrip /\ trips[t].stage = "none"
  /\ holder' = t
  /\ \E n \in 1..TripBlocks : trips' = [trips EXCEPT ![t] = [NoSession EXCEPT !.stage = "ready", !.left = n]]
  /\ overlapped' = (overlapped \/ InFlight # {})
  /\ UNCHANGED <<groundVars, memoryVars, path, stuckOn>>

\* bodyStillOurs: whoever's command it is, some command has the body.
BodyStillOurs == holder # NoTrip

\* The session is over, in full or because the seam was found free.
Finish(t) ==
  /\ trips[t].stage = "ready" /\ (trips[t].left = 0 \/ ~BodyStillOurs)
  /\ TripEnds(t)
  /\ UNCHANGED <<groundVars, memoryVars, path, overlapped, stuckOn>>

\* Mutant: the last try is forgotten without a look at where the body stands.
RegionsNow_NeverStuck == regions

\* The body stands where the last try set off: its whole cluster is marked.
RegionsNow == IF lastTry.target # NoBlock /\ lastTry.origin = spot
              THEN [regions EXCEPT ![ClusterOf[lastTry.target]] = MarkLife] ELSE regions

\* What findBlocks returns: the nearest ScanCap of what stands in reach.
InSight == LET near == InReach[spot] \cap standing
        IN  {b \in near : Cardinality({c \in near : Rank[c] < Rank[b]}) < ScanCap}

\* Mutant: the regions of the list are passed over.
Workable_BlocksOnly(regionMarks) == {b \in InSight : marks[b] = 0}

Workable(regionMarks) == {b \in InSight : marks[b] = 0 /\ regionMarks[ClusterOf[b]] = 0}

\* pickGatherTarget
Nearest(blocks) == CHOOSE b \in blocks : \A c \in blocks : Rank[b] <= Rank[c]

\* Mutant: where the try sets off is not noted.
Try_NoOrigin(t, b) ==
  /\ trips' = [trips EXCEPT ![t].stage = "walking", ![t].target = b, ![t].gained = FALSE, ![t].origin = spot]
  /\ marks' = [marks EXCEPT ![b] = MarkLife]
  /\ lastTry' = NoTry
  /\ path' = t
  /\ UNCHANGED holder

\* Mark, note where the body sets off, and walk.
Try(t, b) ==
  /\ trips' = [trips EXCEPT ![t].stage = "walking", ![t].target = b, ![t].gained = FALSE, ![t].origin = spot]
  /\ marks' = [marks EXCEPT ![b] = MarkLife]
  /\ lastTry' = [target |-> b, origin |-> spot]
  /\ path' = t
  /\ UNCHANGED holder

\* The next block, up to the first await.  Tools that do not do fail the
\* trip before it has tried anything.
NextBlock(t) ==
  /\ trips[t].stage = "ready" /\ trips[t].left > 0 /\ BodyStillOurs
  /\ regions' = RegionsNow
  /\ IF Workable(RegionsNow) # {}
     THEN \/ Try(t, Nearest(Workable(RegionsNow)))
          \/ lastTry' = NoTry /\ TripEnds(t) /\ UNCHANGED <<marks, path>>
     ELSE /\ lastTry' = NoTry /\ UNCHANGED marks
          /\ IF standing = {} THEN TripEnds(t) /\ UNCHANGED path
             ELSE /\ trips' = [trips EXCEPT ![t].stage = "relocating", ![t].origin = spot]
                  /\ path' = t /\ UNCHANGED holder
  /\ UNCHANGED <<groundVars, overlapped, stuckOn>>

\* relocateToward is over, arrived or not: ground gained makes the regions
\* stale.  The trip fails either way.
Relocated(t) ==
  /\ trips[t].stage = "relocating"
  /\ \E s \in Spot : /\ MovesTo(s)
                     /\ regions' = IF s = trips[t].origin THEN regions ELSE Forgotten
  /\ TripEnds(t)
  /\ UNCHANGED <<standing, drops, marks, lastTry, path, overlapped>>

Arrive(t) ==
  /\ trips[t].stage = "walking" /\ path = t /\ Below[trips[t].target] # NoSpot
  /\ MovesTo(Below[trips[t].target])
  /\ trips' = [trips EXCEPT ![t].stage = "digging"]
  /\ UNCHANGED <<standing, drops, memoryVars, holder, path, overlapped>>

\* The goto rejects, wherever the body got to.
WalkFails(t) ==
  /\ trips[t].stage = "walking"
  /\ \E s \in Spot : /\ spot' = s
                     /\ stuckOn' = InVain(t, s, IF s = spot THEN stuckOn ELSE Forgotten)
  /\ TripEnds(t)
  /\ UNCHANGED <<standing, drops, memoryVars, path, overlapped>>

\* The client thinks it dug.  The server may have refused.  The step onto the
\* site takes the pathfinder from whoever had it.
Dig(t) ==
  /\ trips[t].stage = "digging"
  /\ \/ /\ trips[t].target \in standing
        /\ standing' = standing \ {trips[t].target} /\ drops' = drops \cup {trips[t].target}
     \/ UNCHANGED <<standing, drops>>
  /\ trips' = [trips EXCEPT ![t].stage = "settling"]
  /\ path' = t
  /\ UNCHANGED <<spot, memoryVars, holder, overlapped, stuckOn>>

\* The dig or the step onto the site throws: no fact is told of the block.
BlockFails(t) ==
  /\ \/ trips[t].stage = "digging"
     \/ trips[t].stage = "settling"
  /\ stuckOn' = InVain(t, spot, stuckOn)
  /\ TripEnds(t)
  /\ UNCHANGED <<groundVars, memoryVars, path, overlapped>>

\* Nothing came to the pack and something lies about: walk to it.
Chase(t) ==
  /\ trips[t].stage = "settling" /\ path = t /\ ~trips[t].gained /\ drops # {}
  /\ trips' = [trips EXCEPT ![t].stage = "chasing"] /\ path' = t
  /\ UNCHANGED <<groundVars, memoryVars, holder, overlapped, stuckOn>>

\* Only a haul clears the mark and the note of the try.
Credit(t) ==
  IF trips[t].gained
  THEN /\ marks' = [marks EXCEPT ![trips[t].target] = 0] /\ lastTry' = NoTry
       /\ UNCHANGED stuckOn
  ELSE /\ UNCHANGED <<marks, lastTry>>
       /\ stuckOn' = InVain(t, spot, stuckOn)

\* What the pack gained since the block was begun is the block's, and told.
Collected(t) ==
  /\ \/ trips[t].stage = "settling" /\ path = t
     \/ trips[t].stage = "chasing"
  /\ Credit(t)
  /\ trips' = [trips EXCEPT ![t] = [NoSession EXCEPT !.stage = "ready", !.left = trips[t].left - 1]]
  /\ UNCHANGED <<groundVars, regions, holder, path, overlapped>>

\* The watchdog: stopMoving and the seam, no more.
TripTimesOut ==
  /\ holder \in Trip
  /\ holder' = NoTrip /\ path' = NoTrip
  /\ UNCHANGED <<groundVars, memoryVars, trips, overlapped, stuckOn>>

\* Any other command of this body walks it somewhere.
OtherVerbStarts ==
  /\ holder = NoTrip
  /\ holder' = OtherVerb /\ path' = OtherVerb
  /\ UNCHANGED <<groundVars, memoryVars, trips, overlapped, stuckOn>>

OtherVerbEnds ==
  /\ holder = OtherVerb /\ holder' = NoTrip
  /\ \E s \in Spot : MovesTo(s)
  /\ UNCHANGED <<standing, drops, memoryVars, trips, path, overlapped>>

\* The item of a block comes to a body that stands by: every trip that has
\* begun a block counts it, whoever dug.
PickUp(b) ==
  /\ b \in drops /\ Below[b] = spot
  /\ drops' = drops \ {b}
  /\ trips' = [t \in Trip |-> IF trips[t].stage \in {"walking", "digging", "settling", "chasing"}
                             THEN [trips[t] EXCEPT !.gained = TRUE] ELSE trips[t]]
  /\ UNCHANGED <<standing, spot, memoryVars, holder, path, overlapped, stuckOn>>

MarksFade ==
  /\ marks' = Tick0(marks) /\ regions' = Tick0(regions) /\ stuckOn' = Tick0(stuckOn)
  /\ UNCHANGED <<groundVars, lastTry, trips, holder, path, overlapped>>

GatherInit ==
  /\ standing = Block /\ drops = {} /\ spot \in Spot
  /\ marks = [b \in Block |-> 0] /\ regions = Forgotten /\ lastTry = NoTry
  /\ trips = [t \in Trip |-> NoSession] /\ holder = NoTrip /\ path = NoTrip
  /\ overlapped = FALSE /\ stuckOn = Forgotten

\* What runs, runs first.
GatherNext ==
  \/ \E t \in Trip : Runs(t) /\ (Finish(t) \/ NextBlock(t) \/ WalkFails(t) \/ Relocated(t))
  \/ /\ \A t \in Trip : ~Runs(t)
     /\ \/ \E t \in Trip : \/ StartTrip(t) \/ Relocated(t) \/ Arrive(t) \/ WalkFails(t)
                           \/ Dig(t) \/ BlockFails(t) \/ Chase(t) \/ Collected(t)
        \/ \E b \in Block : PickUp(b)
        \/ TripTimesOut \/ OtherVerbStarts \/ OtherVerbEnds \/ MarksFade

-----------------------------------------------------------------------------
(* Properties. *)

GatherTypeOK ==
  /\ standing \subseteq Block /\ drops \subseteq Block \ standing /\ spot \in Spot
  /\ marks \in [Block -> 0..MarkLife] /\ regions \in [Clusters -> 0..MarkLife]
  /\ stuckOn \in [Clusters -> 0..MarkLife]
  /\ lastTry \in [target : Block \cup {NoBlock}, origin : Spot \cup {NoSpot}]
  /\ trips \in [Trip -> [stage : {"none", "ready", "walking", "relocating", "digging", "settling", "chasing"},
                         left : 0..TripBlocks, target : Block \cup {NoBlock}, gained : BOOLEAN,
                         origin : Spot \cup {NoSpot}]]
  /\ holder \in Trip \cup {NoTrip, OtherVerb} /\ path \in Trip \cup {NoTrip, OtherVerb}
  /\ overlapped \in BOOLEAN

\* A cluster that a try from this very spot did not get the better of, be it
\* that the watchdog ended it, is not tried again from there while the mark
\* lives.  Trips that were in flight together may clear each other's notes.
ClusterLeftAlone ==
  ~overlapped => \A t \in Trip : trips[t].stage = "walking" /\ spot = trips[t].origin
                                   => stuckOn[ClusterOf[trips[t].target]] = 0

\* A trip that the watchdog abandoned begins no further block: gatherSession
\* says that zombie work is bounded by the block in flight.
AbandonedTripStops ==
  [][\A t \in Trip : holder # t /\ trips[t].stage = "ready"
                       => trips'[t].stage \in {"none", "ready"}]_gatherVars
=============================================================================
