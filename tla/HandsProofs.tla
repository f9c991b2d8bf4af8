---------------------------- MODULE HandsProofs ----------------------------
(* For any blocks, spots, game, sessions and number of commands: what a trip *)
(* or a chase did not get the better of is left alone; and a despawn is for  *)
(* good, with a roster that knows who is in, as far as DespawnWins promises  *)
(* them.                                                                     *)
EXTENDS Gathering, Hunting, Sessions, Workshop, Stores, SkillLibrary,
        NumberLemmas, FiniteSetTheorems, TLAPS

(* The trips. *)

TripRecord == [stage : {"none", "ready", "walking", "relocating", "digging", "settling", "chasing"},
               left : 0..TripBlocks, target : Block \cup {NoBlock}, gained : BOOLEAN,
               origin : Spot \cup {NoSpot}]

AtBlock(t) == trips[t].stage \in {"walking", "digging", "settling", "chasing"}

(* The part of the types that the marks depend on.                           *)
GatherShape ==
  /\ spot \in Spot
  /\ marks \in [Block -> 0..MarkLife] /\ regions \in [Clusters -> 0..MarkLife]
  /\ stuckOn \in [Clusters -> 0..MarkLife]
  /\ trips \in [Trip -> TripRecord] /\ overlapped \in BOOLEAN
  /\ \A t \in Trip : AtBlock(t) => trips[t].target \in Block /\ trips[t].left > 0

(* A cluster tried in vain is marked, or the note of the try will mark it.   *)
IsMarked(c) == stuckOn[c] <= regions[c]
IsNoted(c)  == lastTry.target # NoBlock /\ lastTry.origin = spot /\ ClusterOf[lastTry.target] = c

(* While trips do not overlap.  Nothing but the last try is only noted: the  *)
(* next choice of a block turns the note into a mark before it is             *)
(* overwritten, and a trip that has a block keeps its note until it is done. *)
NotesHold ==
  ~overlapped =>
    /\ \A t, u \in InFlight : t = u
    /\ \A c \in Clusters : IsMarked(c) \/ IsNoted(c)
    /\ \A t \in Trip : AtBlock(t) => lastTry = [target |-> trips[t].target, origin |-> trips[t].origin]
    /\ \A t \in Trip : AtBlock(t) \/ trips[t].stage = "relocating" => \A c \in Clusters : IsMarked(c)
    /\ \A t \in Trip : /\ trips[t].stage = "walking" /\ spot = trips[t].origin
                       => stuckOn[ClusterOf[trips[t].target]] = 0
    /\ \A t \in Trip : trips[t].stage = "relocating" => spot = trips[t].origin \/ stuckOn = Forgotten

GatherInv == GatherShape /\ NotesHold

(* pickGatherTarget finds one of the blocks it is offered.                   *)
LEMMA NearestIsOffered ==
  ASSUME NEW blocks \in SUBSET Block, blocks # {}
  PROVE  Nearest(blocks) \in blocks
<1> DEFINE ranks == {Rank[b] : b \in blocks}
<1>1. ranks \in SUBSET Nat /\ ranks # {}
  BY GatheringAssumption
<1>2. \E m \in ranks : \A n \in ranks : m <= n
  BY <1>1, LeastNumber
<1>3. \E b \in blocks : \A c \in blocks : Rank[b] <= Rank[c]
  BY <1>2
<1> QED
  BY <1>3 DEF Nearest

LEMMA ClusterFacts ==
  /\ \A b \in Block : ClusterOf[b] \in Clusters
  /\ Forgotten \in [Clusters -> 0..MarkLife] /\ \A c \in Clusters : Forgotten[c] = 0
  /\ NoSession \in TripRecord /\ NoSession.stage = "none"
  /\ 0 \in 0..MarkLife /\ MarkLife \in 0..MarkLife
<1>1. 0 \in 0..MarkLife /\ MarkLife \in 0..MarkLife /\ 0 \in 0..TripBlocks
  BY GatheringAssumption
<1>2. NoSession \in TripRecord /\ NoSession.stage = "none"
  BY <1>1 DEF NoSession, TripRecord
<1>3. \A b \in Block : ClusterOf[b] \in Clusters
  BY DEF Clusters
<1> QED
  BY <1>1, <1>2, <1>3 DEF Forgotten

(* What one trip becomes while the others stay.                              *)
LEMMA OtherTripsStay ==
  ASSUME GatherShape, NEW t \in Trip, NEW r \in TripRecord, trips' = [trips EXCEPT ![t] = r]
  PROVE /\ trips'[t] = r /\ trips' \in [Trip -> TripRecord]
        /\ \A u \in Trip \ {t} : trips'[u] = trips[u]
  BY DEF GatherShape

LEMMA OnlyTrip ==
  ASSUME NotesHold, ~overlapped, NEW t \in InFlight
  PROVE  \A u \in Trip \ {t} : trips[u].stage = "none"
  BY DEF NotesHold, InFlight

LEMMA GatherBegins == GatherInit => GatherInv
<1> SUFFICES ASSUME GatherInit PROVE GatherInv
  OBVIOUS
<1>1. \A t \in Trip : trips[t] = NoSession
  BY DEF GatherInit
<1>2. GatherShape
  <2>1. /\ marks \in [Block -> 0..MarkLife] /\ trips \in [Trip -> TripRecord]
        /\ regions \in [Clusters -> 0..MarkLife] /\ stuckOn \in [Clusters -> 0..MarkLife]
    BY ClusterFacts DEF GatherInit
  <2> QED
    BY <1>1, <2>1, ClusterFacts DEF GatherInit, GatherShape, AtBlock
<1>3. NotesHold
  <2>1. InFlight = {}
    BY <1>1, ClusterFacts DEF InFlight
  <2>2. \A c \in Clusters : IsMarked(c)
    BY ClusterFacts DEF GatherInit, IsMarked
  <2>3. \A t \in Trip : ~AtBlock(t) /\ trips[t].stage = "none"
    BY <1>1, ClusterFacts DEF AtBlock
  <2> QED
    BY <2>1, <2>2, <2>3 DEF NotesHold
<1> QED
  BY <1>2, <1>3 DEF GatherInv

(* The look back at the last try leaves nothing that is only noted.          *)
LEMMA NoteBecomesMark ==
  ASSUME GatherInv
  PROVE  /\ RegionsNow \in [Clusters -> 0..MarkLife]
         /\ ~overlapped => \A c \in Clusters : stuckOn[c] <= RegionsNow[c]
<1>1. RegionsNow \in [Clusters -> 0..MarkLife]
  BY ClusterFacts DEF GatherInv, GatherShape, RegionsNow
<1>2. ASSUME ~overlapped, NEW c \in Clusters PROVE stuckOn[c] <= RegionsNow[c]
  <2>1. IsMarked(c) \/ IsNoted(c)
    BY <1>2 DEF GatherInv, NotesHold
  <2>2. /\ stuckOn[c] \in 0..MarkLife /\ regions[c] \in 0..MarkLife /\ MarkLife \in Nat
        /\ regions \in [Clusters -> 0..MarkLife]
    BY GatheringAssumption DEF GatherInv, GatherShape
  <2>3. CASE IsNoted(c)
    BY <2>2, <2>3 DEF IsNoted, RegionsNow
  <2>4. CASE IsMarked(c)
    BY <2>2, <2>4 DEF IsMarked, RegionsNow
  <2> QED
    BY <2>1, <2>3, <2>4
<1> QED
  BY <1>1, <1>2

(* A trip that has its block, or that relocates, comes to an end: what it    *)
(* was at is noted where it was tried in vain.                               *)
LEMMA TripEndsNoted ==
  ASSUME GatherInv, NEW t \in Trip, AtBlock(t), TripEnds(t), UNCHANGED <<marks, regions, lastTry, overlapped>>,
         spot' \in Spot,
         stuckOn' = InVain(t, spot', IF spot' = spot THEN stuckOn ELSE Forgotten)
  PROVE  GatherInv'
<1> USE GatheringAssumption
<1>0. GatherShape /\ NotesHold /\ trips' = [trips EXCEPT ![t] = NoSession]
  BY DEF GatherInv, TripEnds
<1>1. /\ trips'[t] = NoSession /\ trips' \in [Trip -> TripRecord]
      /\ \A u \in Trip \ {t} : trips'[u] = trips[u]
  BY <1>0, ClusterFacts, OtherTripsStay
<1> DEFINE tried == IF spot' = spot THEN stuckOn ELSE Forgotten
           place == ClusterOf[trips[t].target]
<1>2. trips[t].target \in Block /\ place \in Clusters
  BY <1>0, ClusterFacts DEF GatherShape
<1>3. tried \in [Clusters -> 0..MarkLife] /\ \A c \in Clusters : tried[c] = 0 \/ tried[c] = stuckOn[c]
  BY <1>0, ClusterFacts DEF GatherShape
<1>4. stuckOn' = IF spot' = trips[t].origin THEN [tried EXCEPT ![place] = MarkLife] ELSE tried
  BY DEF InVain
<1> HIDE DEF tried
<1>5. stuckOn' \in [Clusters -> 0..MarkLife]
  BY <1>3, <1>4, ClusterFacts
<1>6. GatherShape'
  BY <1>0, <1>1, <1>5, ClusterFacts DEF GatherShape, AtBlock
<1>7. NotesHold'
  <2> SUFFICES ASSUME ~overlapped PROVE NotesHold'
    BY DEF NotesHold
  <2>1. \A u \in Trip : trips'[u].stage = "none"
    BY <1>0, <1>1, ClusterFacts, OnlyTrip DEF AtBlock, InFlight
  <2>2. /\ \A c \in Clusters : stuckOn[c] <= regions[c] /\ 0 <= regions[c]
        /\ lastTry = [target |-> trips[t].target, origin |-> trips[t].origin]
    BY <1>0 DEF NotesHold, IsMarked, GatherShape
  <2>3. ASSUME NEW c \in Clusters PROVE IsMarked(c)' \/ IsNoted(c)'
    <3>1. CASE spot' = trips[t].origin /\ c = place
      BY <1>2, <2>2, <3>1 DEF IsNoted
    <3>2. CASE ~(spot' = trips[t].origin /\ c = place)
      <4>1. stuckOn'[c] = tried[c]
        BY <1>2, <1>3, <1>4, <3>2
      <4> QED
        BY <1>3, <2>2, <4>1 DEF IsMarked
    <3> QED
      BY <3>1, <3>2
  <2> QED
    BY <2>1, <2>3 DEF NotesHold, AtBlock, InFlight
<1> QED
  BY <1>6, <1>7 DEF GatherInv

(* A trip that ends, or is between blocks, leaves nothing to be shown but    *)
(* that every cluster is marked or noted.                                    *)
LEMMA TripIsFree ==
  ASSUME GatherShape, NEW t \in Trip, NEW r \in TripRecord, r.stage \in {"none", "ready"},
         trips' = [trips EXCEPT ![t] = r], spot' \in Spot, marks' \in [Block -> 0..MarkLife],
         regions' \in [Clusters -> 0..MarkLife], stuckOn' \in [Clusters -> 0..MarkLife],
         overlapped' \in BOOLEAN,
         ~overlapped' => /\ \A u \in Trip \ {t} : trips[u].stage = "none"
                         /\ \A c \in Clusters : IsMarked(c)' \/ IsNoted(c)'
  PROVE  GatherInv'
<1>1. /\ trips'[t] = r /\ trips' \in [Trip -> TripRecord]
      /\ \A u \in Trip \ {t} : trips'[u] = trips[u]
  BY OtherTripsStay
<1>2. GatherShape'
  BY <1>1 DEF GatherShape, AtBlock
<1>3. NotesHold'
  <2> SUFFICES ASSUME ~overlapped' PROVE NotesHold'
    BY DEF NotesHold
  <2>1. \A u \in Trip : u # t => trips'[u].stage = "none"
    BY <1>1
  <2>2. \A u \in Trip : ~AtBlock(u)' /\ trips'[u].stage \notin {"walking", "relocating"}
    BY <1>1, <2>1 DEF AtBlock
  <2>3. \A u, v \in InFlight' : u = v
    BY <2>1 DEF InFlight
  <2> QED
    BY <2>2, <2>3 DEF NotesHold
<1> QED
  BY <1>2, <1>3 DEF GatherInv

(* A trip that goes on with its block keeps the note, wherever it walks.     *)
LEMMA BlockGoesOn ==
  ASSUME GatherInv, NEW t \in Trip, AtBlock(t), NEW r \in TripRecord,
         r.stage \in {"digging", "settling", "chasing"},
         r.target = trips[t].target, r.origin = trips[t].origin, r.left = trips[t].left,
         trips' = [trips EXCEPT ![t] = r], spot' \in Spot,
         stuckOn' = IF spot' = spot THEN stuckOn ELSE Forgotten,
         UNCHANGED <<marks, regions, lastTry, overlapped>>
  PROVE  GatherInv'
<1>0. GatherShape /\ NotesHold
  BY DEF GatherInv
<1>1. /\ trips'[t] = r /\ trips' \in [Trip -> TripRecord]
      /\ \A u \in Trip \ {t} : trips'[u] = trips[u]
  BY <1>0, OtherTripsStay
<1>2. GatherShape'
  BY <1>0, <1>1, ClusterFacts DEF GatherShape, AtBlock
<1>3. NotesHold'
  <2> SUFFICES ASSUME ~overlapped PROVE NotesHold'
    BY DEF NotesHold
  <2>1. \A u \in Trip \ {t} : trips'[u].stage = "none"
    BY <1>0, <1>1, OnlyTrip DEF AtBlock, InFlight
  <2>2. \A c \in Clusters : IsMarked(c)'
    <3>1. \A c \in Clusters : stuckOn[c] <= regions[c] /\ 0 <= regions[c]
      BY <1>0 DEF NotesHold, IsMarked, GatherShape
    <3> QED
      BY <3>1, ClusterFacts DEF IsMarked
  <2>3. AtBlock(t)' /\ lastTry = [target |-> r.target, origin |-> r.origin]
    BY <1>0, <1>1 DEF NotesHold, AtBlock
  <2> QED
    BY <1>1, <2>1, <2>2, <2>3 DEF NotesHold, AtBlock, InFlight
<1> QED
  BY <1>2, <1>3 DEF GatherInv

(* Nothing that the marks depend on changes.                                 *)
LEMMA TripsAlike ==
  ASSUME GatherInv, trips' \in [Trip -> TripRecord],
         \A t \in Trip : /\ trips'[t].stage = trips[t].stage /\ trips'[t].left = trips[t].left
                         /\ trips'[t].target = trips[t].target /\ trips'[t].origin = trips[t].origin,
         UNCHANGED <<marks, regions, lastTry, spot, stuckOn, overlapped>>
  PROVE  GatherInv'
<1>1. GatherShape'
  BY DEF GatherInv, GatherShape, AtBlock
<1>2. InFlight' = InFlight /\ \A t \in Trip : AtBlock(t)' <=> AtBlock(t)
  BY DEF InFlight, AtBlock
<1>3. NotesHold'
  BY <1>2 DEF GatherInv, NotesHold, IsMarked, IsNoted
<1> QED
  BY <1>1, <1>3 DEF GatherInv

(* The next block is of a cluster that was not tried in vain from here.      *)
LEMMA NextBlockHolds ==
  ASSUME GatherInv, NEW t \in Trip, NextBlock(t)
  PROVE  GatherInv'
<1> USE GatheringAssumption
<1>0. GatherShape /\ NotesHold
  BY DEF GatherInv
<1>1. /\ trips[t].stage = "ready" /\ trips[t].left > 0 /\ regions' = RegionsNow
      /\ UNCHANGED <<spot, overlapped, stuckOn>>
  BY DEF NextBlock, groundVars
<1>2. /\ regions' \in [Clusters -> 0..MarkLife]
      /\ ~overlapped => \A c \in Clusters : IsMarked(c)'
  BY <1>1, NoteBecomesMark DEF IsMarked
<1>3. ~overlapped => \A u \in Trip \ {t} : trips[u].stage = "none"
  BY <1>0, <1>1, OnlyTrip DEF InFlight
<1>4. trips[t] \in TripRecord
  BY <1>0 DEF GatherShape
<1>5. ASSUME TripEnds(t), UNCHANGED marks PROVE GatherInv'
  <2>1. trips' = [trips EXCEPT ![t] = NoSession]
    BY <1>5 DEF TripEnds
  <2> QED
    BY <1>0, <1>1, <1>2, <1>3, <1>5, <2>1, ClusterFacts, TripIsFree DEF GatherShape
<1>6. ASSUME Workable(RegionsNow) # {}, Try(t, Nearest(Workable(RegionsNow))) PROVE GatherInv'
  <2> DEFINE b == Nearest(Workable(RegionsNow))
             r == [trips[t] EXCEPT !.stage = "walking", !.target = b, !.gained = FALSE, !.origin = spot]
  <2>1. Workable(RegionsNow) \in SUBSET Block
    BY <1>0 DEF Workable, InSight, GatherShape
  <2>2. b \in Workable(RegionsNow)
    BY <1>6, <2>1, NearestIsOffered
  <2> HIDE DEF b
  <2>3. b \in Block /\ regions'[ClusterOf[b]] = 0
    BY <1>1, <2>1, <2>2 DEF Workable
  <2>4. /\ trips' = [trips EXCEPT ![t] = r] /\ marks' = [marks EXCEPT ![b] = MarkLife]
        /\ lastTry' = [target |-> b, origin |-> spot]
    BY <1>6 DEF Try, b
  <2>5. /\ r \in TripRecord /\ r.stage = "walking" /\ r.target = b /\ r.origin = spot
        /\ r.left = trips[t].left
    BY <1>0, <1>4, <2>3 DEF TripRecord, GatherShape
  <2> HIDE DEF r
  <2>6. /\ trips'[t] = r /\ trips' \in [Trip -> TripRecord]
        /\ \A u \in Trip \ {t} : trips'[u] = trips[u]
    BY <1>0, <2>4, <2>5, OtherTripsStay
  <2>7. marks' \in [Block -> 0..MarkLife]
    BY <1>0, <2>4, ClusterFacts DEF GatherShape
  <2>8. GatherShape'
    BY <1>0, <1>1, <1>2, <2>3, <2>5, <2>6, <2>7 DEF GatherShape, AtBlock
  <2>9. NotesHold'
    <3> SUFFICES ASSUME ~overlapped PROVE NotesHold'
      BY <1>1 DEF NotesHold
    <3>1. \A u \in Trip \ {t} : trips'[u].stage = "none"
      BY <1>3, <2>6
    <3>2. stuckOn'[ClusterOf[b]] = 0
      BY <1>0, <1>1, <1>2, <2>3, ClusterFacts DEF IsMarked, GatherShape
    <3> QED
      BY <1>1, <1>2, <2>4, <2>5, <2>6, <3>1, <3>2 DEF NotesHold, AtBlock, InFlight
  <2> QED
    BY <2>8, <2>9 DEF GatherInv
<1>7. ASSUME trips' = [trips EXCEPT ![t].stage = "relocating", ![t].origin = spot], UNCHANGED marks
      PROVE GatherInv'
  <2> DEFINE r == [trips[t] EXCEPT !.stage = "relocating", !.origin = spot]
  <2>1. r \in TripRecord /\ r.stage = "relocating" /\ r.origin = spot
    BY <1>0, <1>4 DEF TripRecord, GatherShape
  <2>2. trips' = [trips EXCEPT ![t] = r]
    BY <1>7
  <2> HIDE DEF r
  <2>3. /\ trips'[t] = r /\ trips' \in [Trip -> TripRecord]
        /\ \A u \in Trip \ {t} : trips'[u] = trips[u]
    BY <1>0, <2>1, <2>2, OtherTripsStay
  <2>4. GatherShape'
    BY <1>0, <1>1, <1>2, <1>7, <2>1, <2>3 DEF GatherShape, AtBlock
  <2>5. NotesHold'
    <3> SUFFICES ASSUME ~overlapped PROVE NotesHold'
      BY <1>1 DEF NotesHold
    <3>1. \A u \in Trip \ {t} : trips'[u].stage = "none"
      BY <1>3, <2>3
    <3> QED
      BY <1>1, <1>2, <2>1, <2>3, <3>1 DEF NotesHold, AtBlock, InFlight
  <2> QED
    BY <2>4, <2>5 DEF GatherInv
<1> QED
  BY <1>5, <1>6, <1>7 DEF NextBlock

LEMMA GatherSteps ==
  ASSUME GatherInv, [GatherNext]_gatherVars
  PROVE  GatherInv'
<1> USE GatheringAssumption
<1>0. GatherShape /\ NotesHold
  BY DEF GatherInv
<1>1. ASSUME NEW t \in Trip, StartTrip(t) PROVE GatherInv'
  <2>1. PICK n \in 1..TripBlocks :
          trips' = [trips EXCEPT ![t] = [NoSession EXCEPT !.stage = "ready", !.left = n]]
    BY <1>1 DEF StartTrip
  <2> DEFINE r == [NoSession EXCEPT !.stage = "ready", !.left = n]
  <2>2. r \in TripRecord /\ r.stage = "ready"
    <3>1. n \in 0..TripBlocks
      OBVIOUS
    <3> QED
      BY <3>1, ClusterFacts DEF TripRecord
  <2> HIDE DEF r
  <2>3. /\ overlapped' = (overlapped \/ InFlight # {})
        /\ UNCHANGED <<marks, regions, lastTry, spot, stuckOn>>
    BY <1>1 DEF StartTrip, groundVars, memoryVars
  <2>4. ~overlapped' => /\ \A u \in Trip \ {t} : trips[u].stage = "none"
                        /\ \A c \in Clusters : IsMarked(c)' \/ IsNoted(c)'
    BY <1>0, <2>3 DEF InFlight, NotesHold, IsMarked, IsNoted
  <2> QED
    BY <1>0, <2>1, <2>2, <2>3, <2>4, TripIsFree DEF GatherShape, r
<1>2. ASSUME NEW t \in Trip, Finish(t) PROVE GatherInv'
  <2>1. /\ trips[t].stage = "ready" /\ trips' = [trips EXCEPT ![t] = NoSession]
        /\ UNCHANGED <<marks, regions, lastTry, spot, stuckOn, overlapped>>
    BY <1>2 DEF Finish, TripEnds, groundVars, memoryVars
  <2>2. ~overlapped => /\ \A u \in Trip \ {t} : trips[u].stage = "none"
                       /\ \A c \in Clusters : IsMarked(c)' \/ IsNoted(c)'
    BY <1>0, <2>1, OnlyTrip DEF InFlight, NotesHold, IsMarked, IsNoted
  <2> QED
    BY <1>0, <2>1, <2>2, ClusterFacts, TripIsFree DEF GatherShape
<1>3. ASSUME NEW t \in Trip, Relocated(t) PROVE GatherInv'
  <2>1. PICK s \in Spot : MovesTo(s) /\ regions' = IF s = trips[t].origin THEN regions ELSE Forgotten
    BY <1>3 DEF Relocated
  <2>2. /\ trips[t].stage = "relocating" /\ trips' = [trips EXCEPT ![t] = NoSession]
        /\ UNCHANGED <<marks, lastTry, overlapped>>
    BY <1>3 DEF Relocated, TripEnds
  <2>3. spot' = s /\ stuckOn' = IF s = spot THEN stuckOn ELSE Forgotten
    BY <2>1 DEF MovesTo
  <2>4. regions' \in [Clusters -> 0..MarkLife] /\ stuckOn' \in [Clusters -> 0..MarkLife]
    BY <1>0, <2>1, <2>3, ClusterFacts DEF GatherShape
  <2>5. ASSUME ~overlapped, NEW c \in Clusters PROVE IsMarked(c)'
    <3>1. stuckOn[c] <= regions[c] /\ (spot = trips[t].origin \/ stuckOn = Forgotten)
      BY <1>0, <2>2, <2>5 DEF NotesHold, IsMarked
    <3>2. regions'[c] \in Nat /\ regions[c] \in Nat
      BY <1>0, <2>4 DEF GatherShape
    <3>3. CASE s = spot /\ s = trips[t].origin
      BY <2>1, <2>3, <3>1, <3>3 DEF IsMarked
    <3>4. CASE ~(s = spot /\ s = trips[t].origin)
      <4>1. stuckOn' = Forgotten
        BY <2>3, <3>1, <3>4
      <4> QED
        BY <3>2, <4>1, ClusterFacts DEF IsMarked
    <3> QED
      BY <3>3, <3>4
  <2>6. ~overlapped => \A u \in Trip \ {t} : trips[u].stage = "none"
    BY <1>0, <2>2, OnlyTrip DEF InFlight
  <2> QED
    BY <1>0, <2>2, <2>3, <2>4, <2>5, <2>6, ClusterFacts, TripIsFree DEF GatherShape
<1>4. ASSUME NEW t \in Trip, Arrive(t) PROVE GatherInv'
  <2> DEFINE r == [trips[t] EXCEPT !.stage = "digging"]
  <2>1. /\ trips[t].stage = "walking" /\ Below[trips[t].target] # NoSpot
        /\ MovesTo(Below[trips[t].target]) /\ trips' = [trips EXCEPT ![t] = r]
        /\ UNCHANGED <<marks, regions, lastTry, overlapped>>
    BY <1>4 DEF Arrive, memoryVars
  <2>2. AtBlock(t) /\ trips[t].target \in Block /\ trips[t] \in TripRecord
    BY <1>0, <2>1 DEF AtBlock, GatherShape
  <2>3. /\ r \in TripRecord /\ r.stage = "digging" /\ r.target = trips[t].target
        /\ r.origin = trips[t].origin /\ r.left = trips[t].left
    BY <2>2 DEF TripRecord
  <2> HIDE DEF r
  <2>4. spot' \in Spot /\ stuckOn' = IF spot' = spot THEN stuckOn ELSE Forgotten
    BY <2>1, <2>2 DEF MovesTo
  <2> QED
    BY <2>1, <2>2, <2>3, <2>4, BlockGoesOn
<1>5. ASSUME NEW t \in Trip, WalkFails(t) PROVE GatherInv'
  <2>1. /\ AtBlock(t) /\ TripEnds(t) /\ spot' \in Spot
        /\ stuckOn' = InVain(t, spot', IF spot' = spot THEN stuckOn ELSE Forgotten)
        /\ UNCHANGED <<marks, regions, lastTry, overlapped>>
    BY <1>5 DEF WalkFails, AtBlock, memoryVars
  <2> QED
    BY <2>1, TripEndsNoted
<1>6. ASSUME NEW t \in Trip, Dig(t) \/ Chase(t) PROVE GatherInv'
  <2>1. PICK stage \in {"settling", "chasing"} : trips' = [trips EXCEPT ![t].stage = stage]
    BY <1>6 DEF Dig, Chase
  <2> DEFINE r == [trips[t] EXCEPT !.stage = stage]
  <2>2. AtBlock(t) /\ UNCHANGED <<marks, regions, lastTry, spot, stuckOn, overlapped>>
    BY <1>6 DEF Dig, Chase, AtBlock, groundVars, memoryVars
  <2>3. trips[t] \in TripRecord /\ spot \in Spot
    BY <1>0 DEF GatherShape
  <2>4. /\ r \in TripRecord /\ r.stage \in {"settling", "chasing"} /\ r.target = trips[t].target
        /\ r.origin = trips[t].origin /\ r.left = trips[t].left
    BY <2>3 DEF TripRecord
  <2>5. trips' = [trips EXCEPT ![t] = r]
    BY <2>1
  <2> HIDE DEF r
  <2> QED
    BY <2>2, <2>3, <2>4, <2>5, BlockGoesOn
<1>7. ASSUME NEW t \in Trip, BlockFails(t) PROVE GatherInv'
  <2>1. /\ AtBlock(t) /\ TripEnds(t) /\ stuckOn' = InVain(t, spot, stuckOn)
        /\ UNCHANGED <<marks, regions, lastTry, spot, overlapped>>
    BY <1>7 DEF BlockFails, AtBlock, groundVars, memoryVars
  <2> QED
    BY <1>0, <2>1, TripEndsNoted DEF GatherShape
<1>8. ASSUME NEW t \in Trip, Collected(t) PROVE GatherInv'
  <2> DEFINE r == [NoSession EXCEPT !.stage = "ready", !.left = trips[t].left - 1]
  <2>1. /\ AtBlock(t) /\ Credit(t) /\ trips' = [trips EXCEPT ![t] = r]
        /\ UNCHANGED <<regions, spot, overlapped>>
    BY <1>8 DEF Collected, AtBlock, groundVars
  <2>2. trips[t] \in TripRecord /\ trips[t].target \in Block /\ trips[t].left > 0
    BY <1>0, <2>1 DEF GatherShape
  <2>3. trips[t].left - 1 \in 0..TripBlocks
    BY <2>2 DEF TripRecord
  <2>4. r \in TripRecord /\ r.stage = "ready"
    BY <2>3, ClusterFacts DEF TripRecord
  <2> HIDE DEF r
  <2>5. /\ marks' \in [Block -> 0..MarkLife]
        /\ \/ stuckOn' = stuckOn
           \/ stuckOn' = InVain(t, spot, stuckOn) /\ lastTry' = lastTry
    BY <1>0, <2>1, ClusterFacts DEF Credit, GatherShape
  <2> DEFINE place == ClusterOf[trips[t].target]
  <2>6. place \in Clusters
    BY <2>2, ClusterFacts
  <2>7. \/ stuckOn' = stuckOn
        \/ /\ spot = trips[t].origin /\ stuckOn' = [stuckOn EXCEPT ![place] = MarkLife]
           /\ lastTry' = lastTry
    BY <2>5 DEF InVain
  <2>8. stuckOn' \in [Clusters -> 0..MarkLife]
    BY <1>0, <2>6, <2>7, ClusterFacts DEF GatherShape
  <2>9. ASSUME ~overlapped, NEW c \in Clusters PROVE IsMarked(c)' \/ IsNoted(c)'
    <3>1. /\ stuckOn[c] <= regions[c]
          /\ lastTry = [target |-> trips[t].target, origin |-> trips[t].origin]
      BY <1>0, <2>1, <2>9 DEF NotesHold, IsMarked
    <3>2. CASE stuckOn'[c] = stuckOn[c]
      BY <2>1, <3>1, <3>2 DEF IsMarked
    <3>3. CASE stuckOn'[c] # stuckOn[c]
      <4>1. spot = trips[t].origin /\ lastTry' = lastTry /\ c = place
        BY <1>0, <2>6, <2>7, <3>3 DEF GatherShape
      <4> QED
        BY <2>1, <2>2, <3>1, <4>1 DEF IsNoted
    <3> QED
      BY <3>2, <3>3
  <2>10. ~overlapped => \A u \in Trip \ {t} : trips[u].stage = "none"
    BY <1>0, <2>1, OnlyTrip DEF InFlight, AtBlock
  <2> QED
    BY <1>0, <2>1, <2>4, <2>5, <2>8, <2>9, <2>10, TripIsFree DEF GatherShape
<1>9. CASE TripTimesOut \/ OtherVerbStarts \/ UNCHANGED gatherVars
  <2>1. UNCHANGED <<trips, marks, regions, lastTry, spot, stuckOn, overlapped>>
    BY <1>9 DEF TripTimesOut, OtherVerbStarts, groundVars, memoryVars, gatherVars
  <2> QED
    BY <1>0, <2>1, TripsAlike DEF GatherShape
<1>10. CASE OtherVerbEnds
  <2>1. PICK s \in Spot : MovesTo(s)
    BY <1>10 DEF OtherVerbEnds
  <2>2. /\ spot' = s /\ stuckOn' = IF s = spot THEN stuckOn ELSE Forgotten
        /\ UNCHANGED <<trips, marks, regions, lastTry, overlapped>>
    BY <1>10, <2>1 DEF OtherVerbEnds, MovesTo, memoryVars
  <2>3. CASE s = spot
    BY <1>0, <2>2, <2>3, TripsAlike DEF GatherShape
  <2>4. CASE s # spot
    <3>1. stuckOn' = Forgotten
      BY <2>2, <2>4
    <3>2. GatherShape'
      BY <1>0, <2>2, <3>1, ClusterFacts DEF GatherShape, AtBlock
    <3>3. \A c \in Clusters : IsMarked(c)'
      BY <1>0, <2>2, <3>1, ClusterFacts DEF GatherShape, IsMarked
    <3>4. \A t \in Trip : AtBlock(t) => trips[t].target \in Block
      BY <1>0 DEF GatherShape
    <3>5. NotesHold'
      <4>1. InFlight' = InFlight /\ \A t \in Trip : AtBlock(t)' <=> AtBlock(t)
        BY <2>2 DEF InFlight, AtBlock
      <4>2. \A t \in Trip : trips[t].stage = "walking" => stuckOn'[ClusterOf[trips[t].target]] = 0
        BY <3>1, <3>4, ClusterFacts DEF AtBlock
      <4> QED
        BY <1>0, <2>2, <3>1, <3>3, <4>1, <4>2 DEF NotesHold
    <3> QED
      BY <3>2, <3>5 DEF GatherInv
  <2> QED
    BY <2>3, <2>4
<1>11. ASSUME NEW b \in Block, PickUp(b) PROVE GatherInv'
  <2>1. /\ trips' = [t \in Trip |-> IF trips[t].stage \in {"walking", "digging", "settling", "chasing"}
                                    THEN [trips[t] EXCEPT !.gained = TRUE] ELSE trips[t]]
        /\ UNCHANGED <<marks, regions, lastTry, spot, stuckOn, overlapped>>
    BY <1>11 DEF PickUp, memoryVars
  <2>2. \A t \in Trip : trips[t] \in TripRecord
    BY <1>0 DEF GatherShape
  <2>3. \A t \in Trip : /\ trips'[t] \in TripRecord
                        /\ trips'[t].stage = trips[t].stage /\ trips'[t].left = trips[t].left
                        /\ trips'[t].target = trips[t].target /\ trips'[t].origin = trips[t].origin
    BY <2>1, <2>2 DEF TripRecord
  <2>4. trips' \in [Trip -> TripRecord]
    BY <2>1, <2>3
  <2> QED
    BY <2>1, <2>3, <2>4, TripsAlike
<1>12. CASE MarksFade
  <2>1. /\ marks' = [b \in Block |-> IF marks[b] = 0 THEN 0 ELSE marks[b] - 1]
        /\ regions' = [c \in Clusters |-> IF regions[c] = 0 THEN 0 ELSE regions[c] - 1]
        /\ stuckOn' = [c \in Clusters |-> IF stuckOn[c] = 0 THEN 0 ELSE stuckOn[c] - 1]
        /\ UNCHANGED <<spot, lastTry, trips, overlapped>>
    BY <1>0, <1>12 DEF MarksFade, Tick0, GatherShape, groundVars
  <2>2. /\ marks' \in [Block -> 0..MarkLife] /\ regions' \in [Clusters -> 0..MarkLife]
        /\ stuckOn' \in [Clusters -> 0..MarkLife]
    BY <1>0, <2>1 DEF GatherShape
  <2>3. GatherShape'
    BY <1>0, <2>1, <2>2 DEF GatherShape, AtBlock
  <2>4. \A c \in Clusters : (IsMarked(c) => IsMarked(c)') /\ (IsNoted(c) => IsNoted(c)')
    BY <1>0, <2>1 DEF GatherShape, IsMarked, IsNoted
  <2>5. \A c \in Clusters : stuckOn[c] = 0 => stuckOn'[c] = 0
    BY <2>1
  <2>6. stuckOn = Forgotten => stuckOn' = Forgotten
    BY <2>1, <2>5, ClusterFacts DEF Forgotten
  <2>7. NotesHold'
    <3>1. InFlight' = InFlight /\ \A t \in Trip : AtBlock(t)' <=> AtBlock(t)
      BY <2>1 DEF InFlight, AtBlock
    <3>2. \A t \in Trip : trips[t].stage = "walking" => ClusterOf[trips[t].target] \in Clusters
      BY <1>0, ClusterFacts DEF GatherShape, AtBlock
    <3> QED
      BY <1>0, <2>1, <2>4, <2>5, <2>6, <3>1, <3>2 DEF NotesHold
  <2> QED
    BY <2>3, <2>7 DEF GatherInv
<1> QED
  BY <1>1, <1>2, <1>3, <1>4, <1>5, <1>6, <1>7, <1>8, <1>9, <1>10, <1>11, <1>12, NextBlockHolds DEF GatherNext

LEMMA MarkedIsLeft == GatherInv => ClusterLeftAlone
  BY DEF GatherInv, NotesHold, ClusterLeftAlone

(* Through failures, relocations, watchdogs and other verbs: what a try from *)
(* this very spot did not get the better of is not tried again from there    *)
(* while its mark lives (gatherBlacklist), unless trips overlapped.          *)
THEOREM ClusterAlwaysLeftAlone == GatherInit /\ [][GatherNext]_gatherVars => []ClusterLeftAlone
  BY GatherBegins, GatherSteps, MarkedIsLeft, PTL

(* What the marks do not depend on.                                          *)
GroundTyped ==
  /\ standing \subseteq Block /\ drops \subseteq Block \ standing
  /\ lastTry \in [target : Block \cup {NoBlock}, origin : Spot \cup {NoSpot}]
  /\ holder \in Trip \cup {NoTrip, OtherVerb} /\ path \in Trip \cup {NoTrip, OtherVerb}

LEMMA NextBlockTyped ==
  ASSUME GatherShape, GroundTyped, NEW t \in Trip, NextBlock(t)
  PROVE  GroundTyped'
<1>1. NoTry \in [target : Block \cup {NoBlock}, origin : Spot \cup {NoSpot}]
  BY DEF NoTry
<1>2. standing' = standing /\ drops' = drops
  BY DEF NextBlock, groundVars
<1>3. ASSUME Workable(RegionsNow) # {}, Try(t, Nearest(Workable(RegionsNow))) PROVE GroundTyped'
  <2>1. Workable(RegionsNow) \in SUBSET Block
    BY GatheringAssumption DEF Workable, InSight, GatherShape
  <2>2. PICK b \in Block : b = Nearest(Workable(RegionsNow))
    BY <1>3, <2>1, NearestIsOffered
  <2>3. lastTry' = [target |-> b, origin |-> spot] /\ path' = t /\ holder' = holder
    BY <1>3, <2>2 DEF Try
  <2> QED
    BY <1>2, <2>3 DEF GroundTyped, GatherShape
<1>4. ASSUME lastTry' = NoTry, TripEnds(t), path' = path PROVE GroundTyped'
  BY <1>1, <1>2, <1>4 DEF GroundTyped, TripEnds
<1>5. ASSUME lastTry' = NoTry, path' = t, UNCHANGED holder PROVE GroundTyped'
  BY <1>1, <1>2, <1>5 DEF GroundTyped
<1> QED
  BY <1>3, <1>4, <1>5 DEF NextBlock

LEMMA GroundStays ==
  ASSUME GatherShape, GroundTyped, [GatherNext]_gatherVars
  PROVE  GroundTyped'
<1>1. NoTry \in [target : Block \cup {NoBlock}, origin : Spot \cup {NoSpot}]
  BY DEF NoTry
<1>2. ASSUME NEW t \in Trip, Finish(t) \/ Relocated(t) \/ WalkFails(t) \/ BlockFails(t) PROVE GroundTyped'
  BY <1>2 DEF Finish, Relocated, WalkFails, BlockFails, TripEnds, GroundTyped, groundVars, memoryVars
<1>3. ASSUME NEW t \in Trip, NextBlock(t) PROVE GroundTyped'
  BY <1>3, NextBlockTyped
<1>4. ASSUME NEW t \in Trip, StartTrip(t) \/ Arrive(t) \/ Chase(t) PROVE GroundTyped'
  BY <1>4 DEF StartTrip, Arrive, Chase, GroundTyped, groundVars, memoryVars
<1>5. ASSUME NEW t \in Trip, Dig(t) PROVE GroundTyped'
  BY <1>5 DEF Dig, GroundTyped, memoryVars
<1>6. ASSUME NEW t \in Trip, Collected(t) PROVE GroundTyped'
  BY <1>1, <1>6 DEF Collected, Credit, GroundTyped, groundVars
<1>7. ASSUME NEW b \in Block, PickUp(b) PROVE GroundTyped'
  BY <1>7 DEF PickUp, GroundTyped, memoryVars
<1>8. CASE TripTimesOut \/ OtherVerbStarts \/ OtherVerbEnds \/ MarksFade
  BY <1>8 DEF TripTimesOut, OtherVerbStarts, OtherVerbEnds, MarksFade, GroundTyped, groundVars, memoryVars
<1>9. CASE UNCHANGED gatherVars
  BY <1>9 DEF gatherVars, groundVars, memoryVars, GroundTyped
<1> QED
  BY <1>2, <1>3, <1>4, <1>5, <1>6, <1>7, <1>8, <1>9 DEF GatherNext

(* The types of the trips, for VillagerSystem's invariant.                   *)
THEOREM TripsKeepTheirTypes == GatherInit /\ [][GatherNext]_gatherVars => []GatherTypeOK
<1>1. GatherInit => GatherInv /\ GroundTyped
  <2> SUFFICES ASSUME GatherInit PROVE GatherInv /\ GroundTyped
    OBVIOUS
  <2>1. NoTry \in [target : Block \cup {NoBlock}, origin : Spot \cup {NoSpot}]
    BY DEF NoTry
  <2> QED
    BY <2>1, GatherBegins DEF GatherInit, GroundTyped
<1>2. GatherInv /\ GroundTyped /\ [GatherNext]_gatherVars => (GatherInv /\ GroundTyped)'
  <2> SUFFICES ASSUME GatherInv, GroundTyped, [GatherNext]_gatherVars PROVE (GatherInv /\ GroundTyped)'
    OBVIOUS
  <2>1. GatherInv'
    BY GatherSteps
  <2>2. GroundTyped'
    BY GroundStays DEF GatherInv
  <2> QED
    BY <2>1, <2>2
<1>3. GatherInv /\ GroundTyped => GatherTypeOK
  BY DEF GatherInv, GatherShape, GroundTyped, GatherTypeOK, TripRecord
<1> QED
  BY <1>1, <1>2, <1>3, PTL

-----------------------------------------------------------------------------
(* The hunts. *)

ChaseRecord == [stage : {"none", "chasing", "collecting"}, prey : Prey \cup {NoPrey},
                close : BOOLEAN, swung : BOOLEAN, before : Nat,
                abandoned : BOOLEAN, reborn : BOOLEAN, clock : 0..AvoidLife]

(* The part of the types that the marks depend on.                           *)
HuntShape ==
  /\ avoid \in [Prey -> 0..AvoidLife] /\ fled \in [Prey -> 0..AvoidLife]
  /\ hunts \in [Hunt -> ChaseRecord] /\ meat \in Nat /\ carried \in Nat
  /\ overlapping \in BOOLEAN
  /\ \A h \in Hunt : hunts[h].stage # "none" => hunts[h].prey \in Prey

InHunt(h) == hunts[h].stage # "none"

(* While hunts do not overlap: a mark outlives the memory of the escape and  *)
(* the hunt it was set for, and the game that is hunted now has not fled, or *)
(* it would have been passed over.                                           *)
MarksHold ==
  ~overlapping =>
    /\ \A g, h \in Hunt : InHunt(g) /\ InHunt(h) => g = h
    /\ \A p \in Prey : fled[p] <= avoid[p]
    /\ \A h \in Hunt : InHunt(h) => /\ fled[hunts[h].prey] = 0
                                    /\ hunts[h].clock <= avoid[hunts[h].prey]

HuntInv == HuntShape /\ MarksHold

LEMMA HuntBegins == HuntInit => HuntInv
<1> SUFFICES ASSUME HuntInit PROVE HuntInv
  OBVIOUS
<1>1. NoChase \in ChaseRecord /\ NoChase.stage = "none"
  BY HuntingAssumption DEF NoChase, ChaseRecord
<1>2. \A h \in Hunt : hunts[h] = NoChase
  BY DEF HuntInit
<1>3. HuntShape
  <2>1. 0 \in 0..AvoidLife /\ 0..1 \subseteq Nat
    BY HuntingAssumption
  <2>2. /\ avoid \in [Prey -> 0..AvoidLife] /\ fled \in [Prey -> 0..AvoidLife]
        /\ meat \in Nat /\ carried \in Nat /\ overlapping \in BOOLEAN
    BY <2>1 DEF HuntInit
  <2>3. hunts \in [Hunt -> ChaseRecord]
    BY <1>1 DEF HuntInit
  <2> QED
    BY <1>1, <1>2, <2>2, <2>3 DEF HuntShape
<1>4. MarksHold
  BY <1>1, <1>2, HuntingAssumption DEF HuntInit, MarksHold, InHunt
<1> QED
  BY <1>3, <1>4 DEF HuntInv

(* A hunt that ends leaves no more of a memory than of a mark.               *)
LEMMA HuntSettles ==
  ASSUME HuntInv, NEW h \in Hunt, InHunt(h), Settles(h, FALSE),
         UNCHANGED <<avoid, meat, carried, overlapping>>
  PROVE HuntInv'
<1> USE HuntingAssumption DEF HuntInv
<1>1. NoChase \in ChaseRecord /\ NoChase.stage = "none"
  BY DEF NoChase, ChaseRecord
<1>2. hunts' = [hunts EXCEPT ![h] = NoChase]
  BY DEF Settles
<1>3. /\ hunts'[h] = NoChase /\ hunts' \in [Hunt -> ChaseRecord]
      /\ \A g \in Hunt \ {h} : hunts'[g] = hunts[g]
  BY <1>1, <1>2 DEF HuntShape
<1>4. hunts[h] \in ChaseRecord /\ hunts[h].prey \in Prey
  BY DEF HuntShape, InHunt
<1>5. fled' = IF overlapping THEN fled ELSE [fled EXCEPT ![hunts[h].prey] = hunts[h].clock]
  BY DEF Settles
<1>6. HuntShape'
  BY <1>1, <1>3, <1>4, <1>5 DEF HuntShape, ChaseRecord
<1>7. MarksHold'
  <2>1. ASSUME ~overlapping PROVE \A p \in Prey : fled'[p] <= avoid[p]
    BY <1>4, <1>5, <2>1 DEF MarksHold, HuntShape, ChaseRecord
  <2>2. ASSUME ~overlapping PROVE \A g \in Hunt : ~InHunt(g)'
    BY <1>1, <1>3, <2>2 DEF MarksHold, InHunt
  <2> QED
    BY <2>1, <2>2 DEF MarksHold
<1> QED
  BY <1>6, <1>7

(* What goes on within a hunt, as long as its game and its clock stay.       *)
LEMMA HuntGoesOn ==
  ASSUME HuntInv, hunts' \in [Hunt -> ChaseRecord], meat' \in Nat, carried' \in Nat,
         \A h \in Hunt : /\ InHunt(h)' <=> InHunt(h)
                         /\ hunts'[h].prey = hunts[h].prey /\ hunts'[h].clock = hunts[h].clock,
         UNCHANGED <<avoid, fled, overlapping>>
  PROVE HuntInv'
  BY DEF HuntInv, HuntShape, MarksHold, InHunt

LEMMA HuntSteps ==
  ASSUME HuntInv, [HuntNext]_huntVars
  PROVE HuntInv'
<1> USE HuntingAssumption
<1>0. HuntShape /\ MarksHold
  BY DEF HuntInv
<1>1. ASSUME NEW h \in Hunt, StartHunt(h)
      PROVE HuntInv'
  <2>1. PICK p \in Targets :
          /\ avoid' = Marked(p)
          /\ hunts' = [hunts EXCEPT ![h] = [NoChase EXCEPT !.stage = "chasing", !.prey = p,
                                                           !.before = carried, !.clock = AvoidLife]]
    BY <1>1 DEF StartHunt
  <2> DEFINE r == [NoChase EXCEPT !.stage = "chasing", !.prey = p, !.before = carried, !.clock = AvoidLife]
  <2>2. p \in Prey /\ avoid[p] = 0
    BY DEF Targets
  <2>3. r \in ChaseRecord /\ r.stage = "chasing" /\ r.prey = p /\ r.clock = AvoidLife
    <3>1. carried \in Nat /\ AvoidLife \in 0..AvoidLife
      BY <1>0 DEF HuntShape
    <3>2. NoChase \in ChaseRecord
      BY DEF NoChase, ChaseRecord
    <3> QED
      BY <2>2, <3>1, <3>2 DEF ChaseRecord
  <2>4. hunts' = [hunts EXCEPT ![h] = r]
    BY <2>1
  <2> HIDE DEF r
  <2>5. /\ hunts'[h] = r /\ hunts' \in [Hunt -> ChaseRecord]
        /\ \A g \in Hunt \ {h} : hunts'[g] = hunts[g]
    BY <1>0, <2>3, <2>4 DEF HuntShape
  <2>6. /\ avoid' \in [Prey -> 0..AvoidLife] /\ avoid'[p] = AvoidLife
        /\ \A q \in Prey \ {p} : avoid'[q] = avoid[q]
    BY <1>0, <2>1, <2>2 DEF Marked, HuntShape
  <2>7. /\ overlapping' = (overlapping \/ \E g \in Hunt : InHunt(g))
        /\ fled' = IF overlapping' THEN [q \in Prey |-> 0] ELSE fled
        /\ UNCHANGED <<meat, carried>>
    BY <1>1 DEF StartHunt, InHunt
  <2>8. HuntShape'
    BY <1>0, <2>2, <2>3, <2>5, <2>6, <2>7 DEF HuntShape
  <2>9. MarksHold'
    <3> SUFFICES ASSUME ~overlapping' PROVE MarksHold'
      BY DEF MarksHold
    <3>1. ~overlapping /\ fled' = fled /\ \A g \in Hunt : ~InHunt(g)
      BY <2>7
    <3>2. fled[p] = 0 /\ \A q \in Prey : fled[q] <= avoid[q]
      BY <1>0, <2>2, <3>1 DEF MarksHold, HuntShape
    <3>3. \A g \in Hunt : InHunt(g)' => g = h
      BY <2>5, <3>1 DEF InHunt
    <3>4. \A q \in Prey : fled'[q] <= avoid'[q]
      BY <1>0, <2>2, <2>6, <3>1, <3>2 DEF HuntShape
    <3> QED
      BY <2>3, <2>5, <2>6, <3>1, <3>2, <3>3, <3>4 DEF MarksHold
  <2> QED
    BY <2>8, <2>9 DEF HuntInv
<1>2. ASSUME NEW h \in Hunt, ChaseEnds(h)
      PROVE HuntInv'
  <2>1. /\ InHunt(h) /\ UNCHANGED <<meat, carried, avoid, overlapping>>
    BY <1>2 DEF ChaseEnds, InHunt
  <2>2. CASE Settles(h, FALSE)
    BY <2>1, <2>2, HuntSettles
  <2>3. CASE ~Settles(h, FALSE)
    <3> DEFINE r == [hunts[h] EXCEPT !.stage = "collecting", !.close = FALSE, !.swung = FALSE]
    <3>1. hunts' = [hunts EXCEPT ![h] = r] /\ UNCHANGED fled
      BY <1>2, <2>3 DEF ChaseEnds
    <3>2. r \in ChaseRecord /\ r.stage = "collecting" /\ r.prey = hunts[h].prey /\ r.clock = hunts[h].clock
      BY <1>0 DEF HuntShape, ChaseRecord
    <3> HIDE DEF r
    <3>3. /\ hunts'[h] = r /\ hunts' \in [Hunt -> ChaseRecord]
          /\ \A g \in Hunt \ {h} : hunts'[g] = hunts[g]
      BY <1>0, <3>1, <3>2 DEF HuntShape
    <3>4. \A g \in Hunt : /\ InHunt(g)' <=> InHunt(g)
                          /\ hunts'[g].prey = hunts[g].prey /\ hunts'[g].clock = hunts[g].clock
      BY <2>1, <3>2, <3>3 DEF InHunt
    <3> QED
      BY <1>0, <2>1, <3>1, <3>3, <3>4, HuntGoesOn DEF HuntShape
  <2> QED
    BY <2>2, <2>3
<1>3. ASSUME NEW h \in Hunt, Swing(h)
      PROVE HuntInv'
  <2>1. PICK close, swung \in BOOLEAN :
          hunts' = [hunts EXCEPT ![h] = [hunts[h] EXCEPT !.close = close, !.swung = swung]]
    BY <1>0, <1>3 DEF Swing, HuntShape, ChaseRecord
  <2>2. meat' \in Nat /\ carried' \in Nat /\ UNCHANGED <<avoid, fled, overlapping>>
    BY <1>0, <1>3 DEF Swing, HuntShape
  <2> DEFINE r == [hunts[h] EXCEPT !.close = close, !.swung = swung]
  <2>3. r \in ChaseRecord /\ r.stage = hunts[h].stage /\ r.prey = hunts[h].prey /\ r.clock = hunts[h].clock
    BY <1>0 DEF HuntShape, ChaseRecord
  <2>4. hunts' = [hunts EXCEPT ![h] = r]
    BY <2>1
  <2> HIDE DEF r
  <2>5. /\ hunts' \in [Hunt -> ChaseRecord]
        /\ \A g \in Hunt : /\ hunts'[g].stage = hunts[g].stage
                           /\ hunts'[g].prey = hunts[g].prey /\ hunts'[g].clock = hunts[g].clock
    BY <1>0, <2>3, <2>4 DEF HuntShape
  <2> QED
    BY <2>2, <2>5, HuntGoesOn DEF InHunt
<1>4. ASSUME NEW h \in Hunt, Collect(h)
      PROVE HuntInv'
  <2>1. InHunt(h) /\ UNCHANGED <<meat, carried, overlapping>>
    BY <1>4 DEF Collect, InHunt
  <2>2. CASE ~Hauled(h)
    <3>1. Settles(h, FALSE) /\ UNCHANGED avoid
      BY <1>4, <2>2 DEF Collect, Hauled, Settles
    <3> QED
      BY <2>1, <3>1, HuntSettles
  <2>3. CASE Hauled(h)
    <3>1. /\ hunts' = [hunts EXCEPT ![h] = NoChase] /\ avoid' = [avoid EXCEPT ![hunts[h].prey] = 0]
          /\ UNCHANGED fled
      BY <1>4, <2>3 DEF Collect, Hauled, Settles
    <3>2. NoChase \in ChaseRecord /\ NoChase.stage = "none"
      BY DEF NoChase, ChaseRecord
    <3>3. /\ hunts'[h] = NoChase /\ hunts' \in [Hunt -> ChaseRecord]
          /\ \A g \in Hunt \ {h} : hunts'[g] = hunts[g]
      BY <1>0, <3>1, <3>2 DEF HuntShape
    <3>4. HuntShape'
      <4>1. avoid' \in [Prey -> 0..AvoidLife] /\ fled' \in [Prey -> 0..AvoidLife]
        <5>1. 0 \in 0..AvoidLife
          OBVIOUS
        <5> QED
          BY <1>0, <3>1, <5>1 DEF HuntShape
      <4>2. \A g \in Hunt : hunts'[g].stage # "none" => hunts'[g].prey \in Prey
        BY <1>0, <3>2, <3>3 DEF HuntShape
      <4> QED
        BY <1>0, <2>1, <3>3, <4>1, <4>2 DEF HuntShape
    <3>5. MarksHold'
      <4> SUFFICES ASSUME ~overlapping PROVE MarksHold'
        BY <2>1 DEF MarksHold
      <4>1. \A g \in Hunt : ~InHunt(g)'
        BY <1>0, <2>1, <3>2, <3>3 DEF MarksHold, InHunt
      <4>2. \A p \in Prey : fled[p] <= avoid'[p]
        BY <1>0, <2>1, <3>1 DEF MarksHold, HuntShape
      <4> QED
        BY <3>1, <4>1, <4>2 DEF MarksHold
    <3> QED
      BY <3>4, <3>5 DEF HuntInv
  <2> QED
    BY <2>2, <2>3
<1>5. CASE HuntTimesOut
  <2>1. UNCHANGED <<meat, carried, avoid, fled, overlapping>>
    BY <1>5 DEF HuntTimesOut
  <2>2. hunts' = [g \in Hunt |-> IF handle # NoHunt /\ g = handle
                                 THEN [hunts[g] EXCEPT !.abandoned = TRUE] ELSE hunts[g]]
    BY <1>0, <1>5 DEF HuntTimesOut, HuntShape
  <2>3. \A g \in Hunt : /\ hunts'[g] \in ChaseRecord /\ hunts'[g].stage = hunts[g].stage
                        /\ hunts'[g].prey = hunts[g].prey /\ hunts'[g].clock = hunts[g].clock
    <3>1. \A g \in Hunt : hunts[g] \in ChaseRecord
      BY <1>0 DEF HuntShape
    <3> QED
      BY <2>2, <3>1 DEF ChaseRecord
  <2>4. hunts' \in [Hunt -> ChaseRecord]
    BY <2>2, <2>3
  <2> QED
    BY <1>0, <2>1, <2>3, <2>4, HuntGoesOn DEF InHunt, HuntShape
<1>6. CASE BodyDies
  <2>1. UNCHANGED <<meat, carried, avoid, fled, overlapping>>
    BY <1>6 DEF BodyDies
  <2>2. hunts' = [g \in Hunt |-> IF hunts[g].stage = "chasing"
                                 THEN [hunts[g] EXCEPT !.reborn = TRUE] ELSE hunts[g]]
    BY <1>6 DEF BodyDies
  <2>3. \A g \in Hunt : /\ hunts'[g] \in ChaseRecord /\ hunts'[g].stage = hunts[g].stage
                        /\ hunts'[g].prey = hunts[g].prey /\ hunts'[g].clock = hunts[g].clock
    <3>1. \A g \in Hunt : hunts[g] \in ChaseRecord
      BY <1>0 DEF HuntShape
    <3> QED
      BY <2>2, <3>1 DEF ChaseRecord
  <2>4. hunts' \in [Hunt -> ChaseRecord]
    BY <2>2, <2>3
  <2> QED
    BY <1>0, <2>1, <2>3, <2>4, HuntGoesOn DEF InHunt, HuntShape
<1>7. ASSUME NEW p \in Prey, PreyMoves(p)
      PROVE HuntInv'
  BY <1>0, <1>7 DEF PreyMoves, HuntInv, HuntShape, MarksHold, InHunt
<1>8. CASE PicksUp
  BY <1>0, <1>8 DEF PicksUp, HuntInv, HuntShape, MarksHold, InHunt
<1>9. CASE AvoidanceFades
  <2>1. /\ avoid' = [p \in Prey |-> IF avoid[p] = 0 THEN 0 ELSE avoid[p] - 1]
        /\ fled' = [p \in Prey |-> IF fled[p] = 0 THEN 0 ELSE fled[p] - 1]
        /\ UNCHANGED <<meat, carried, overlapping>>
    BY <1>0, <1>9 DEF AvoidanceFades, Younger, HuntShape
  <2>2. /\ hunts' \in [Hunt -> ChaseRecord]
        /\ \A g \in Hunt : /\ hunts'[g].stage = hunts[g].stage /\ hunts'[g].prey = hunts[g].prey
                           /\ hunts'[g].clock = IF hunts[g].clock = 0 THEN 0 ELSE hunts[g].clock - 1
    BY <1>0, <1>9 DEF AvoidanceFades, HuntShape, ChaseRecord
  <2>3. avoid' \in [Prey -> 0..AvoidLife] /\ fled' \in [Prey -> 0..AvoidLife]
    BY <1>0, <2>1 DEF HuntShape
  <2>4. HuntShape'
    BY <1>0, <2>1, <2>2, <2>3 DEF HuntShape
  <2>5. MarksHold'
    <3> SUFFICES ASSUME ~overlapping PROVE MarksHold'
      BY <2>1 DEF MarksHold
    <3>1. \A p \in Prey : fled'[p] <= avoid'[p]
      BY <1>0, <2>1 DEF MarksHold, HuntShape
    <3>2. ASSUME NEW h \in Hunt, InHunt(h)
          PROVE fled'[hunts'[h].prey] = 0 /\ hunts'[h].clock <= avoid'[hunts'[h].prey]
      <4>1. /\ hunts[h].prey \in Prey /\ hunts[h].clock \in 0..AvoidLife
            /\ fled[hunts[h].prey] = 0 /\ hunts[h].clock <= avoid[hunts[h].prey]
        BY <1>0, <3>2 DEF HuntShape, ChaseRecord, InHunt, MarksHold
      <4> QED
        BY <1>0, <2>1, <2>2, <4>1 DEF HuntShape
    <3>3. \A g, h \in Hunt : InHunt(g)' /\ InHunt(h)' => g = h
      BY <1>0, <2>2 DEF MarksHold, InHunt
    <3> QED
      BY <2>2, <3>1, <3>2, <3>3 DEF MarksHold, InHunt
  <2> QED
    BY <2>4, <2>5 DEF HuntInv
<1>10. CASE UNCHANGED huntVars
  BY <1>0, <1>10 DEF huntVars, HuntInv, HuntShape, MarksHold, InHunt
<1> QED
  BY <1>1, <1>2, <1>3, <1>4, <1>5, <1>6, <1>7, <1>8, <1>9, <1>10 DEF HuntNext

LEMMA HuntersLeaveIt == HuntInv => EscapeeLeftAlone
  BY DEF HuntInv, MarksHold, InHunt, EscapeeLeftAlone

(* Whatever ended the chase, be it the watchdog or a death of the body, the  *)
(* game stays off the menu for the life of its mark (huntBlacklist), unless  *)
(* two hunts were in flight together.                                        *)
THEOREM EscapeeAlwaysLeftAlone == HuntInit /\ [][HuntNext]_huntVars => []EscapeeLeftAlone
  BY HuntBegins, HuntSteps, HuntersLeaveIt, PTL

(* What there is of the yield, and what the hunters have.                    *)
YieldTyped ==
  /\ HuntTypeOK /\ meat + carried <= MaxMeat

ChaseTyped == [stage : {"none", "chasing", "collecting"}, prey : Prey \cup {NoPrey},
               close : BOOLEAN, swung : BOOLEAN, before : 0..MaxMeat,
               abandoned : BOOLEAN, reborn : BOOLEAN, clock : 0..AvoidLife]

LEMMA YieldBegins == HuntInit => YieldTyped
<1> SUFFICES ASSUME HuntInit PROVE YieldTyped
  OBVIOUS
<1>1. NoChase \in ChaseTyped
  BY HuntingAssumption DEF NoChase, ChaseTyped
<1>2. at \in [Prey -> Distance]
  BY DEF HuntInit, Distance
<1>3. meat \in 0..MaxMeat /\ carried \in 0..MaxMeat /\ meat + carried <= MaxMeat
  BY HuntingAssumption DEF HuntInit
<1>4. hunts \in [Hunt -> ChaseTyped]
  BY <1>1 DEF HuntInit
<1>5. avoid \in [Prey -> 0..AvoidLife] /\ fled \in [Prey -> 0..AvoidLife]
  BY HuntingAssumption DEF HuntInit
<1> QED
  BY <1>2, <1>3, <1>4, <1>5 DEF HuntInit, YieldTyped, HuntTypeOK, ChaseTyped

LEMMA YieldStays ==
  ASSUME HuntInv, HuntInv', YieldTyped, [HuntNext]_huntVars
  PROVE  YieldTyped'
<1> USE HuntingAssumption
<1>0. /\ at \in [Prey -> Distance] /\ meat \in 0..MaxMeat /\ carried \in 0..MaxMeat
      /\ hunts \in [Hunt -> ChaseTyped] /\ handle \in Hunt \cup {NoHunt} /\ hunter \in Hunt \cup {NoHunt}
      /\ meat + carried <= MaxMeat
  BY DEF YieldTyped, HuntTypeOK, ChaseTyped
<1>1. /\ avoid' \in [Prey -> 0..AvoidLife] /\ fled' \in [Prey -> 0..AvoidLife] /\ overlapping' \in BOOLEAN
  BY DEF HuntInv, HuntShape
<1>2. NoChase \in ChaseTyped
  BY DEF NoChase, ChaseTyped
<1>3. ASSUME at' \in [Prey -> Distance], meat' \in 0..MaxMeat, carried' \in 0..MaxMeat,
             hunts' \in [Hunt -> ChaseTyped], handle' \in Hunt \cup {NoHunt}, hunter' \in Hunt \cup {NoHunt},
             meat' + carried' <= MaxMeat
      PROVE  YieldTyped'
  BY <1>1, <1>3 DEF YieldTyped, HuntTypeOK, ChaseTyped
<1>4. ASSUME NEW h \in Hunt, StartHunt(h) PROVE YieldTyped'
  <2>1. PICK p \in Targets :
          hunts' = [hunts EXCEPT ![h] = [NoChase EXCEPT !.stage = "chasing", !.prey = p,
                                                        !.before = carried, !.clock = AvoidLife]]
    BY <1>4 DEF StartHunt
  <2>2. PICK r : r = [NoChase EXCEPT !.stage = "chasing", !.prey = p, !.before = carried, !.clock = AvoidLife]
    OBVIOUS
  <2>3. p \in Prey /\ AvoidLife \in 0..AvoidLife
    BY DEF Targets
  <2>4. r \in ChaseTyped
    BY <1>0, <1>2, <2>2, <2>3 DEF ChaseTyped
  <2>5. hunts' \in [Hunt -> ChaseTyped]
    BY <1>0, <2>1, <2>2, <2>4
  <2> QED
    BY <1>0, <1>3, <1>4, <2>5 DEF StartHunt
<1>5. ASSUME NEW h \in Hunt, NEW hauled \in BOOLEAN, Settles(h, hauled), UNCHANGED <<at, meat, carried>>,
             handle' \in Hunt \cup {NoHunt}
      PROVE  YieldTyped'
  <2>1. hunts' \in [Hunt -> ChaseTyped] /\ hunter' \in Hunt \cup {NoHunt}
    BY <1>0, <1>2, <1>5 DEF Settles
  <2> QED
    BY <1>0, <1>3, <1>5, <2>1
<1>6. ASSUME NEW h \in Hunt, ChaseEnds(h) PROVE YieldTyped'
  <2>1. UNCHANGED <<at, meat, carried>> /\ handle' = NoHunt
    BY <1>6 DEF ChaseEnds, LeavesLoop
  <2>2. CASE Settles(h, FALSE)
    BY <1>5, <2>1, <2>2
  <2>3. CASE ~Settles(h, FALSE)
    <3>1. PICK r : r = [hunts[h] EXCEPT !.stage = "collecting", !.close = FALSE, !.swung = FALSE]
      OBVIOUS
    <3>2. hunts' = [hunts EXCEPT ![h] = r] /\ UNCHANGED hunter
      BY <1>6, <2>3, <3>1 DEF ChaseEnds
    <3>3. hunts[h] \in ChaseTyped
      BY <1>0
    <3>4. r \in ChaseTyped
      BY <3>1, <3>3 DEF ChaseTyped
    <3>5. hunts' \in [Hunt -> ChaseTyped]
      BY <1>0, <3>2, <3>4
    <3> QED
      BY <1>0, <1>3, <2>1, <3>2, <3>5
  <2> QED
    BY <2>2, <2>3
<1>7. ASSUME NEW h \in Hunt, Swing(h) PROVE YieldTyped'
  <2>1. PICK close, swung \in BOOLEAN :
          hunts' = [hunts EXCEPT ![h] = [hunts[h] EXCEPT !.close = close, !.swung = swung]]
    BY <1>0, <1>7 DEF Swing, ChaseTyped
  <2>2. PICK r : r = [hunts[h] EXCEPT !.close = close, !.swung = swung]
    OBVIOUS
  <2>3. r \in ChaseTyped
    BY <1>0, <2>2 DEF ChaseTyped
  <2>4. hunts' \in [Hunt -> ChaseTyped]
    BY <1>0, <2>1, <2>2, <2>3
  <2>5. UNCHANGED <<carried, handle, hunter>>
    BY <1>7 DEF Swing
  <2>6. at' \in [Prey -> Distance]
    BY <1>0, <1>7 DEF Swing, Distance
  <2>7. meat' \in 0..MaxMeat /\ meat' + carried <= MaxMeat
    <3>1. CASE UNCHANGED meat
      BY <1>0, <3>1
    <3>2. ASSUME NEW n \in 0..1, meat + carried + n <= MaxMeat, meat' = meat + n
          PROVE  meat' \in 0..MaxMeat /\ meat' + carried <= MaxMeat
      BY <1>0, <3>2
    <3> QED
      BY <1>7, <3>1, <3>2 DEF Swing
  <2> QED
    BY <1>0, <1>3, <2>4, <2>5, <2>6, <2>7
<1>8. ASSUME NEW h \in Hunt, Collect(h) PROVE YieldTyped'
  <2>1. Settles(h, carried > hunts[h].before) /\ UNCHANGED <<at, meat, carried, handle>>
    BY <1>8 DEF Collect
  <2>2. (carried > hunts[h].before) \in BOOLEAN
    OBVIOUS
  <2> QED
    BY <1>0, <1>5, <2>1, <2>2
<1>9. CASE HuntTimesOut
  <2>1. hunts' = [g \in Hunt |-> IF handle # NoHunt /\ g = handle
                                 THEN [hunts[g] EXCEPT !.abandoned = TRUE] ELSE hunts[g]]
    BY <1>0, <1>9 DEF HuntTimesOut
  <2>2. hunts' \in [Hunt -> ChaseTyped]
    <3>1. ASSUME NEW g \in Hunt
          PROVE  [hunts[g] EXCEPT !.abandoned = TRUE] \in ChaseTyped /\ hunts[g] \in ChaseTyped
      <4>1. hunts[g] \in ChaseTyped
        BY <1>0
      <4> QED
        BY <4>1 DEF ChaseTyped
    <3> QED
      BY <2>1, <3>1
  <2>3. UNCHANGED <<at, meat, carried, handle>> /\ hunter' = NoHunt
    BY <1>9 DEF HuntTimesOut
  <2> QED
    BY <1>0, <1>3, <2>2, <2>3
<1>10. CASE BodyDies
  <2>1. hunts' \in [Hunt -> ChaseTyped]
    <3>1. ASSUME NEW g \in Hunt
          PROVE  [hunts[g] EXCEPT !.reborn = TRUE] \in ChaseTyped /\ hunts[g] \in ChaseTyped
      <4>1. hunts[g] \in ChaseTyped
        BY <1>0
      <4> QED
        BY <4>1 DEF ChaseTyped
    <3>2. hunts' = [g \in Hunt |-> IF hunts[g].stage = "chasing" THEN [hunts[g] EXCEPT !.reborn = TRUE] ELSE hunts[g]]
      BY <1>10 DEF BodyDies
    <3> QED
      BY <3>1, <3>2
  <2>2. UNCHANGED <<at, meat, carried, handle, hunter>>
    BY <1>10 DEF BodyDies
  <2> QED
    BY <1>0, <1>3, <2>1, <2>2
<1>11. ASSUME NEW p \in Prey, PreyMoves(p) PROVE YieldTyped'
  <2>1. PICK d \in Beside[at[p]] : at' = [at EXCEPT ![p] = d]
    BY <1>11 DEF PreyMoves
  <2>2. at[p] \in {"hand", "near", "far", "gone"}
    BY <1>0, <1>11 DEF PreyMoves, Distance
  <2>3. d \in Distance
    BY <2>2 DEF Beside, Distance
  <2>4. at' \in [Prey -> Distance]
    BY <1>0, <2>1, <2>3
  <2>5. UNCHANGED <<meat, carried, hunts, handle, hunter>>
    BY <1>11 DEF PreyMoves
  <2> QED
    BY <1>0, <1>3, <2>4, <2>5
<1>12. CASE PicksUp
  <2>1. meat' \in 0..MaxMeat /\ carried' \in 0..MaxMeat /\ meat' + carried' <= MaxMeat
    BY <1>0, <1>12 DEF PicksUp
  <2>2. UNCHANGED <<at, hunts, handle, hunter>>
    BY <1>12 DEF PicksUp
  <2> QED
    BY <1>0, <1>3, <2>1, <2>2
<1>13. CASE AvoidanceFades
  <2>1. hunts' = [h \in Hunt |-> [hunts[h] EXCEPT !.clock = IF hunts[h].clock = 0 THEN 0 ELSE hunts[h].clock - 1]]
    BY <1>0, <1>13 DEF AvoidanceFades, ChaseTyped
  <2>2. ASSUME NEW h \in Hunt
        PROVE  [hunts[h] EXCEPT !.clock = IF hunts[h].clock = 0 THEN 0 ELSE hunts[h].clock - 1] \in ChaseTyped
    <3>1. hunts[h] \in ChaseTyped
      BY <1>0
    <3>2. (IF hunts[h].clock = 0 THEN 0 ELSE hunts[h].clock - 1) \in 0..AvoidLife
      BY <3>1 DEF ChaseTyped
    <3> QED
      BY <3>1, <3>2 DEF ChaseTyped
  <2>3. hunts' \in [Hunt -> ChaseTyped]
    BY <2>1, <2>2
  <2>4. UNCHANGED <<at, meat, carried, handle, hunter>>
    BY <1>13 DEF AvoidanceFades
  <2> QED
    BY <1>0, <1>3, <2>3, <2>4
<1>14. CASE UNCHANGED huntVars
  BY <1>0, <1>3, <1>14 DEF huntVars
<1> QED
  BY <1>4, <1>6, <1>7, <1>8, <1>9, <1>10, <1>11, <1>12, <1>13, <1>14 DEF HuntNext

(* The types of the hunts, for VillagerSystem's invariant.                   *)
THEOREM HuntsKeepTheirTypes == HuntInit /\ [][HuntNext]_huntVars => []HuntTypeOK
<1>1. HuntInv /\ YieldTyped /\ [HuntNext]_huntVars => (HuntInv /\ YieldTyped)'
  <2> SUFFICES ASSUME HuntInv, YieldTyped, [HuntNext]_huntVars PROVE (HuntInv /\ YieldTyped)'
    OBVIOUS
  <2>1. HuntInv'
    BY HuntSteps
  <2>2. YieldTyped'
    BY <2>1, YieldStays
  <2> QED
    BY <2>1, <2>2
<1>2. HuntInv /\ YieldTyped => HuntTypeOK
  BY DEF YieldTyped
<1> QED
  BY HuntBegins, YieldBegins, <1>1, <1>2, PTL

-----------------------------------------------------------------------------
(* The sessions. *)

SessionRecord == [conn : {"none", "dialing", "in", "out"}, entity : BOOLEAN, timer : BOOLEAN,
                  despawned : BOOLEAN, awaited : BOOLEAN, leaving : BOOLEAN]

(* A session that is not listed has never begun, never begins again or was   *)
(* replaced; and one that never begins again has no timer.                   *)
AlonePart ==
  \A s \in Session : /\ s # listed => session[s] = Unborn \/ session[s].despawned \/ s \in replaced
                     /\ session[s].despawned => ~session[s].timer

(* DespawnWins alone forgets how the roster comes to know: the first login of  *)
(* a listed session tells it, and a departure that is still to strike the    *)
(* name holds the lane, so that nobody can have been listed since.           *)
RosterPart ==
  /\ \A s \in Session : session[s].leaving => session[s].despawned
  /\ ~slipped => /\ \A s \in Session : session[s].leaving => command = Despawn(s) /\ listed = NoOne
                 /\ listed # NoOne => session[listed].awaited \/ roster

SessionsInv == SessionsTypeOK /\ AlonePart /\ RosterPart

(* What one session becomes while the others stay.                           *)
LEMMA OthersStay ==
  ASSUME SessionsTypeOK, NEW s \in Session, NEW r \in SessionRecord, session' = [session EXCEPT ![s] = r]
  PROVE /\ session'[s] = r
        /\ \A t \in Session \ {s} : session'[t] = session[t]
        /\ session' \in [Session -> SessionRecord]
  BY DEF SessionsTypeOK, SessionRecord, FreeLane

LEMMA SessionIsRecord ==
  ASSUME SessionsTypeOK, NEW s \in Session
  PROVE session[s] \in SessionRecord
  BY DEF SessionsTypeOK, SessionRecord, FreeLane

LEMMA SessionsStep ==
  ASSUME SessionsInv, [SessionsNext]_sessionVars
  PROVE SessionsInv'
<1> USE SessionsAssumption DEF SessionsInv
<1>1. ASSUME NEW s \in Session, SpawnCommand(s)
      PROVE SessionsInv'
  <2> DEFINE r == [Unborn EXCEPT !.conn = "dialing", !.awaited = TRUE]
  <2>1. /\ r \in SessionRecord /\ r.awaited /\ ~r.leaving /\ ~r.despawned
        /\ session' = [session EXCEPT ![s] = r]
    BY <1>1 DEF SpawnCommand, Unborn, SessionRecord
  <2> HIDE DEF r
  <2>2. /\ session'[s] = r
        /\ \A t \in Session \ {s} : session'[t] = session[t]
        /\ session' \in [Session -> SessionRecord]
    BY <2>1, OthersStay
  <2>3. /\ command = FreeLane /\ command' = Spawn(s) /\ listed' = s
        /\ replaced' = replaced \cup ({listed} \ {NoOne}) /\ UNCHANGED <<roster, slipped>>
    BY <1>1 DEF SpawnCommand
  <2>4. SessionsTypeOK'
    BY <2>2, <2>3 DEF SessionsTypeOK, SessionRecord, FreeLane, Spawn
  <2>5. AlonePart'
    BY <2>1, <2>2, <2>3 DEF AlonePart
  <2>6. RosterPart'
    <3>1. ~slipped => \A t \in Session : ~session[t].leaving
      BY <2>3 DEF RosterPart, FreeLane, Despawn
    <3> QED
      BY <2>1, <2>2, <2>3, <3>1 DEF RosterPart
  <2> QED
    BY <2>4, <2>5, <2>6
<1>2. ASSUME NEW s \in Session, LogsIn(s)
      PROVE SessionsInv'
  <2> DEFINE r == [session[s] EXCEPT !.conn = "in", !.entity = TRUE, !.awaited = FALSE]
  <2>1. /\ session[s].conn = "dialing" /\ session' = [session EXCEPT ![s] = r]
        /\ UNCHANGED <<listed, replaced, slipped>>
        /\ session[s].awaited => roster' /\ roster' = TRUE /\ Released(Spawn(s))
        /\ ~session[s].awaited => UNCHANGED <<roster, command>>
    BY <1>2 DEF LogsIn
  <2>2. /\ r \in SessionRecord /\ ~r.awaited /\ r.timer = session[s].timer
        /\ r.despawned = session[s].despawned /\ r.leaving = session[s].leaving
    BY SessionIsRecord DEF SessionRecord
  <2> HIDE DEF r
  <2>3. /\ session'[s] = r
        /\ \A t \in Session \ {s} : session'[t] = session[t]
        /\ session' \in [Session -> SessionRecord]
    BY <2>1, <2>2, OthersStay
  <2>4. SessionsTypeOK'
    BY <2>1, <2>3 DEF SessionsTypeOK, SessionRecord, FreeLane, Released
  <2>5. AlonePart'
    <3>1. session[s] # Unborn
      BY <2>1 DEF Unborn
    <3> QED
      BY <2>1, <2>2, <2>3, <3>1 DEF AlonePart
  <2>6. RosterPart'
    <3>1. \A t \in Session : /\ session'[t].leaving = session[t].leaving
                             /\ session'[t].despawned = session[t].despawned
      BY <2>2, <2>3
    <3>2. \A t \in Session : command = Despawn(t) => command' = command
      BY <2>1 DEF Released, Spawn, Despawn
    <3>3. listed # NoOne /\ ~slipped => session'[listed].awaited \/ roster'
      BY <2>1, <2>2, <2>3 DEF RosterPart, SessionsTypeOK
    <3> QED
      BY <2>1, <3>1, <3>2, <3>3 DEF RosterPart
  <2> QED
    BY <2>4, <2>5, <2>6
<1>3. ASSUME NEW s \in Session, SpawnTimesOut(s)
      PROVE SessionsInv'
  <2> DEFINE r == [session[s] EXCEPT !.awaited = FALSE]
  <2>1. /\ session[s].awaited /\ session' = [session EXCEPT ![s] = r] /\ slipped'
        /\ slipped' = TRUE /\ Released(Spawn(s)) /\ UNCHANGED <<listed, roster, replaced>>
    BY <1>3 DEF SpawnTimesOut
  <2>2. /\ r \in SessionRecord /\ r.timer = session[s].timer
        /\ r.despawned = session[s].despawned /\ r.leaving = session[s].leaving
    BY SessionIsRecord DEF SessionRecord
  <2> HIDE DEF r
  <2>3. /\ session'[s] = r
        /\ \A t \in Session \ {s} : session'[t] = session[t]
        /\ session' \in [Session -> SessionRecord]
    BY <2>1, <2>2, OthersStay
  <2>4. SessionsTypeOK'
    BY <2>1, <2>3 DEF SessionsTypeOK, SessionRecord, FreeLane, Released
  <2>5. session[s] # Unborn
    BY <2>1 DEF Unborn
  <2>6. AlonePart' /\ RosterPart'
    BY <2>1, <2>2, <2>3, <2>5 DEF AlonePart, RosterPart
  <2> QED
    BY <2>4, <2>6
<1>4. ASSUME NEW s \in Session, ConnectionEnds(s) \/ Reconnects(s)
      PROVE SessionsInv'
  <2>1. PICK r \in SessionRecord :
          /\ session' = [session EXCEPT ![s] = r]
          /\ r.despawned = session[s].despawned /\ r.leaving = session[s].leaving
          /\ r.awaited = session[s].awaited /\ (r.despawned => ~r.timer)
    <3>1. CASE ConnectionEnds(s)
      <4> DEFINE r == [session[s] EXCEPT !.conn = "out", !.timer = ~session[s].despawned]
      <4>1. session' = [session EXCEPT ![s] = r]
        BY <3>1 DEF ConnectionEnds
      <4>2. /\ r \in SessionRecord
            /\ r.despawned = session[s].despawned /\ r.leaving = session[s].leaving
            /\ r.awaited = session[s].awaited /\ (r.despawned => ~r.timer)
        BY SessionIsRecord DEF SessionRecord
      <4> QED
        BY <4>1, <4>2
    <3>2. CASE Reconnects(s)
      <4> DEFINE r == [session[s] EXCEPT !.timer = FALSE,
                                         !.conn = IF session[s].despawned THEN session[s].conn ELSE "dialing",
                                         !.entity = IF session[s].despawned THEN session[s].entity ELSE FALSE]
      <4>1. session' = [session EXCEPT ![s] = r]
        BY <3>2, SessionIsRecord DEF Reconnects, SessionsTypeOK, SessionRecord
      <4>2. /\ r \in SessionRecord
            /\ r.despawned = session[s].despawned /\ r.leaving = session[s].leaving
            /\ r.awaited = session[s].awaited /\ (r.despawned => ~r.timer)
        BY SessionIsRecord DEF SessionRecord
      <4> QED
        BY <4>1, <4>2
    <3> QED
      BY <1>4, <3>1, <3>2
  <2>2. session[s] # Unborn /\ UNCHANGED <<listed, roster, command, replaced, slipped>>
    <3>1. Unborn.conn = "none" /\ ~Unborn.timer
      BY DEF Unborn
    <3>2. session[s].conn \in {"dialing", "in"} \/ session[s].timer
      BY <1>4 DEF ConnectionEnds, Reconnects
    <3>3. session[s] # Unborn
      BY <3>1, <3>2
    <3>4. UNCHANGED <<listed, roster, command, replaced, slipped>>
      BY <1>4 DEF ConnectionEnds, Reconnects
    <3> QED
      BY <3>3, <3>4
  <2>3. /\ session'[s] = r
        /\ \A t \in Session \ {s} : session'[t] = session[t]
        /\ session' \in [Session -> SessionRecord]
    BY <2>1, OthersStay
  <2>4. SessionsTypeOK'
    BY <2>2, <2>3 DEF SessionsTypeOK, SessionRecord, FreeLane
  <2>5. AlonePart'
    BY <2>1, <2>2, <2>3 DEF AlonePart
  <2>6. RosterPart'
    <3>1. \A t \in Session : /\ session'[t].leaving = session[t].leaving
                             /\ session'[t].despawned = session[t].despawned
                             /\ session'[t].awaited = session[t].awaited
      BY <2>1, <2>3
    <3>2. listed' # NoOne => listed \in Session
      BY <2>2 DEF SessionsTypeOK
    <3> QED
      BY <2>2, <3>1, <3>2 DEF RosterPart
  <2> QED
    BY <2>4, <2>5, <2>6
<1>5. CASE DespawnCommand
  <2> DEFINE r == TornDown(listed)
  <2>1. /\ command = FreeLane /\ listed \in Session /\ listed' = NoOne /\ command' = Despawn(listed)
        /\ session' = [session EXCEPT ![listed] = r] /\ UNCHANGED <<roster, replaced, slipped>>
    BY <1>5 DEF DespawnCommand, SessionsTypeOK
  <2>2. r \in SessionRecord /\ r.despawned /\ ~r.timer
    BY <2>1, SessionIsRecord DEF SessionRecord, TornDown
  <2> HIDE DEF r
  <2>3. /\ session'[listed] = r
        /\ \A t \in Session \ {listed} : session'[t] = session[t]
        /\ session' \in [Session -> SessionRecord]
    BY <2>1, <2>2, OthersStay
  <2>4. SessionsTypeOK'
    BY <2>1, <2>3 DEF SessionsTypeOK, SessionRecord, FreeLane, Despawn
  <2>5. AlonePart'
    BY <2>1, <2>2, <2>3 DEF AlonePart
  <2>6. RosterPart'
    <3>1. ~slipped => \A t \in Session : ~session[t].leaving
      BY <2>1 DEF RosterPart, FreeLane, Despawn
    <3> QED
      BY <2>1, <2>2, <2>3, <3>1 DEF RosterPart
  <2> QED
    BY <2>4, <2>5, <2>6
<1>6. ASSUME NEW s \in Session, LeavesRoster(s)
      PROVE SessionsInv'
  <2> DEFINE r == [session[s] EXCEPT !.leaving = FALSE]
  <2>1. /\ session[s].leaving /\ session' = [session EXCEPT ![s] = r] /\ roster' = FALSE
        /\ Released(Despawn(s)) /\ UNCHANGED <<listed, replaced, slipped>>
    BY <1>6 DEF LeavesRoster
  <2>2. r \in SessionRecord /\ r.despawned = session[s].despawned /\ ~r.leaving /\ r.timer = session[s].timer
    BY SessionIsRecord DEF SessionRecord
  <2> HIDE DEF r
  <2>3. /\ session'[s] = r
        /\ \A t \in Session \ {s} : session'[t] = session[t]
        /\ session' \in [Session -> SessionRecord]
    BY <2>1, <2>2, OthersStay
  <2>4. SessionsTypeOK'
    BY <2>1, <2>3 DEF SessionsTypeOK, SessionRecord, FreeLane, Released
  <2>5. session[s] # Unborn
    BY <2>1 DEF Unborn
  <2>6. AlonePart'
    BY <2>1, <2>2, <2>3, <2>5 DEF AlonePart
  <2>7. RosterPart'
    <3>1. ~slipped => listed = NoOne /\ \A t \in Session \ {s} : ~session[t].leaving
      BY <2>1 DEF RosterPart, Despawn
    <3> QED
      BY <2>1, <2>2, <2>3, <3>1 DEF RosterPart
  <2> QED
    BY <2>4, <2>6, <2>7
<1>7. CASE SpawnWatchdog
  <2>1. SessionsTypeOK' /\ AlonePart'
    BY <1>7 DEF SpawnWatchdog, SessionsTypeOK, AlonePart, FreeLane
  <2>2. RosterPart'
    <3>1. ~slipped' => ~slipped /\ command.verb # "despawn"
      BY <1>7 DEF SpawnWatchdog
    <3>2. ~slipped => \A t \in Session : session[t].leaving => command.verb = "despawn"
      BY DEF RosterPart, Despawn
    <3> QED
      BY <1>7, <3>1, <3>2 DEF SpawnWatchdog, RosterPart
  <2> QED
    BY <2>1, <2>2
<1>8. CASE UNCHANGED sessionVars
  BY <1>8 DEF sessionVars, SessionsTypeOK, AlonePart, RosterPart, Unborn
<1> QED
  BY <1>1, <1>2, <1>3, <1>4, <1>5, <1>6, <1>7, <1>8 DEF SessionsNext

LEMMA SessionsBegin ==
  ASSUME SessionsInit
  PROVE SessionsInv
<1>1. Unborn \in SessionRecord /\ ~Unborn.leaving /\ ~Unborn.despawned
  BY DEF Unborn, SessionRecord
<1>2. \A s \in Session : session[s] = Unborn
  BY DEF SessionsInit
<1>3. SessionsTypeOK
  BY <1>1 DEF SessionsInit, SessionsTypeOK, SessionRecord
<1>4. AlonePart /\ RosterPart
  BY <1>1, <1>2 DEF SessionsInit, AlonePart, RosterPart
<1> QED
  BY <1>3, <1>4 DEF SessionsInv

LEMMA DespawnWinsFollows == SessionsInv => DespawnWins
  BY SessionsAssumption DEF SessionsInv, SessionsTypeOK, AlonePart, RosterPart, DespawnWins, Claims, Unborn

(* Through disconnects, reconnects, despawns and spawns, of however many     *)
(* sessions: what the registry has despawned never claims the name again,    *)
(* and the roster has whoever is in (BotRegistry, BotSession).               *)
THEOREM DespawnAlwaysWins == SessionsInit /\ [][SessionsNext]_sessionVars => []DespawnWins
  BY SessionsBegin, SessionsStep, DespawnWinsFollows, PTL

-----------------------------------------------------------------------------
(* The craft verb. *)

Errands == {"furnace", "put fuel", "put input", "waiting", "take input", "take fuel"}

FurnaceRecord == [input : Nat, output : Nat, fuel : Fuels \cup {"none"}, items : Nat, fire : Nat,
                  alien : {"none", "input", "output"}]

CraftRecord == [stage : Errands \cup {"none", "table", "craft"}, ask : {"none", "sword", "stick", "planks"},
                step : [count : 0..2, fuel : Fuels \cup {"none"}], took : Nat, ingots : Nat,
                cleared : BOOLEAN, late : Nat]

WorkshopShape ==
  /\ pack \in [Item -> Nat] /\ built \subseteq {"furnace", "table"}
  /\ furnace \in FurnaceRecord /\ (furnace.items = 0) = (furnace.fuel = "none")
  /\ craft \in CraftRecord
  /\ seam \in {"free", "craft", "other"} /\ unruly \in BOOLEAN

(* What a flow is at, at each of its stages; the sticks are there, and what  *)
(* the pack lacks of the ingots is what the errand has not brought yet.      *)
FlowStands ==
  /\ craft # NoCraft => craft.stage # "none" /\ craft.ask # "none" /\ ~verdict.brought /\ ~verdict.cleared
  /\ craft.stage \in Errands =>
       /\ craft.ask = "sword" /\ craft.step.count > 0 /\ craft.step.fuel # "none" /\ ~craft.cleared
       /\ pack["stick"] >= 1 /\ pack["ingot"] + craft.step.count >= 2 + craft.ingots
  /\ craft.stage \in {"furnace", "put fuel", "put input", "waiting"} => craft.ingots = 0
  /\ ~(verdict.how = "missing" /\ verdict.brought)

Emptied(late) == furnace.input = 0 /\ furnace.fuel = "none" /\ furnace.output <= late
Empties(late) == furnace'.input = 0 /\ furnace'.fuel = "none" /\ furnace'.output <= late

(* Nobody else at the furnace: what the takes leave there.                   *)
SlotsStand ==
  /\ craft.stage = "take input" => furnace.output <= craft.late
  /\ craft.stage = "take fuel" => furnace.input = 0 /\ furnace.output <= craft.late
  /\ craft.cleared => Emptied(craft.late)
  /\ verdict.cleared => Emptied(verdict.late)

WorkshopInv == WorkshopShape /\ FlowStands /\ (unruly \/ SlotsStand)

(* What a flow settles with.                                                 *)
LEMMA SettledFacts ==
  ASSUME NEW how, NEW c \in CraftRecord, Concludes(how, c)
  PROVE  /\ craft' = NoCraft /\ verdict'.how = how /\ (verdict'.cleared <=> c.cleared) /\ verdict'.late = c.late
         /\ verdict'.brought <=> c.step.count > 0 /\ c.ingots >= c.step.count
         /\ seam' = IF seam = "craft" THEN "free" ELSE seam
<1>1. verdict' = [how |-> how, brought |-> c.step.count > 0 /\ c.ingots >= c.step.count,
                  cleared |-> c.cleared, late |-> c.late]
  BY DEF Concludes, Verdict
<1>2. verdict'.how = how /\ verdict'.late = c.late
  BY <1>1
<1>3. verdict'.cleared <=> c.cleared
  <2>1. verdict'.cleared = c.cleared
    BY <1>1
  <2> QED
    BY <2>1
<1>4. verdict'.brought <=> c.step.count > 0 /\ c.ingots >= c.step.count
  <2>1. verdict'.brought = (c.step.count > 0 /\ c.ingots >= c.step.count)
    BY <1>1
  <2> QED
    BY <2>1
<1> QED
  BY <1>2, <1>3, <1>4 DEF Concludes

LEMMA NoCraftFacts ==
  /\ NoCraft \in CraftRecord /\ NoCraft.stage = "none" /\ NoCraft.ingots = 0 /\ NoCraft.took = 0
  /\ ~NoCraft.cleared /\ NoCraft.late = 0 /\ NoCraft.step.count = 0
BY DEF NoCraft, CraftRecord, NoStep

LEMMA BlankVerdict ==
  ASSUME NEW how, verdict' = Verdict(how, NoCraft)
  PROVE  ~verdict'.brought /\ ~verdict'.cleared
<1>1. verdict' = [how |-> how, brought |-> NoCraft.step.count > 0 /\ NoCraft.ingots >= NoCraft.step.count,
                  cleared |-> NoCraft.cleared, late |-> NoCraft.late]
  BY DEF Verdict
<1>2. ~(NoCraft.step.count > 0)
  BY NoCraftFacts
<1>3. verdict'.brought = (NoCraft.step.count > 0 /\ NoCraft.ingots >= NoCraft.step.count)
  BY <1>1
<1>4. verdict'.cleared = NoCraft.cleared
  BY <1>1
<1> QED
  BY <1>2, <1>3, <1>4, NoCraftFacts, Zenon

LEMMA EmptyFacts == EmptyFurnace \in FurnaceRecord /\ EmptyFurnace.items = 0 /\ EmptyFurnace.fuel = "none"
BY DEF EmptyFurnace, FurnaceRecord

LEMMA WorkshopBegins == WorkshopInit => WorkshopInv
<1> SUFFICES ASSUME WorkshopInit PROVE WorkshopInv
  OBVIOUS
<1>1. pack \in [Item -> Nat]
  BY WorkshopAssumption DEF WorkshopInit
<1>2. ~verdict.brought /\ ~verdict.cleared
  <2>1. verdict = [how |-> "none", brought |-> NoCraft.step.count > 0 /\ NoCraft.ingots >= NoCraft.step.count,
                   cleared |-> NoCraft.cleared, late |-> NoCraft.late]
    BY DEF WorkshopInit, Verdict
  <2>2. ~(NoCraft.step.count > 0)
    BY NoCraftFacts
  <2> QED
    BY <2>1, <2>2, NoCraftFacts
<1>3. WorkshopShape
  BY <1>1, <1>2, NoCraftFacts, EmptyFacts DEF WorkshopInit, WorkshopShape
<1> QED
  BY <1>2, <1>3, NoCraftFacts DEF WorkshopInit, WorkshopInv, FlowStands, SlotsStand, Errands

(* The sword's recipe and its fuel.                                          *)
LEMMA SwordFacts ==
  ASSUME WorkshopShape, NEW ask \in {"sword", "stick", "planks"}
  PROVE  /\ Errand(ask) => ask = "sword" /\ pack["ingot"] < 2 /\ pack["stick"] >= 1
         /\ Craftable("sword") <=> pack["ingot"] >= 2 /\ pack["stick"] >= 1
<1>1. pack["ingot"] \in Nat /\ pack["stick"] \in Nat
  BY DEF WorkshopShape, Item
<1>2. Recipe("sword") = [ingot |-> 2, stick |-> 1] /\ Recipe("stick") = [planks |-> 2] /\ Recipe("planks") = [log |-> 1]
  BY DEF Recipe
<1>3. /\ DOMAIN Recipe("sword") = {"ingot", "stick"} /\ Recipe("sword")["ingot"] = 2 /\ Recipe("sword")["stick"] = 1
      /\ DOMAIN Recipe("stick") = {"planks"} /\ DOMAIN Recipe("planks") = {"log"}
  BY <1>2
<1>4. "ingot" \in Unmet("sword") <=> pack["ingot"] < 2
  BY <1>3 DEF Unmet
<1>5. "stick" \in Unmet("sword") <=> pack["stick"] < 1
  BY <1>3 DEF Unmet
<1>6. Unmet("sword") \subseteq {"ingot", "stick"} /\ "ingot" \notin Unmet("stick") /\ "ingot" \notin Unmet("planks")
  BY <1>3 DEF Unmet
<1>7. Errand(ask) => ask = "sword"
  BY <1>6 DEF Errand
<1>8. Errand("sword") => pack["ingot"] < 2 /\ "stick" \notin Unmet("sword")
  BY <1>4 DEF Errand
<1>9. Craftable("sword") <=> "ingot" \notin Unmet("sword") /\ "stick" \notin Unmet("sword")
  BY <1>6 DEF Craftable
<1> QED
  BY <1>1, <1>4, <1>5, <1>7, <1>8, <1>9

LEMMA FuelFacts ==
  ASSUME NEW n \in 1..2
  PROVE  /\ FuelFor(n) \in Fuels \cup {"none"}
         /\ \A f \in Fuels : ItemsFor(f, n) \in Nat /\ ItemsFor(f, n) > 0
         /\ \A f \in Fuels : HalfSmelts(f) \in Nat /\ HalfSmelts(f) >= 2
<1>1. FuelFor(n) \in Fuels \cup {"none"}
  BY DEF FuelFor, Fuels
<1>2. HalfSmelts("coal") = 16 /\ \A f \in {"planks", "log"} : HalfSmelts(f) = 3
  BY DEF HalfSmelts
<1>3. (2 * n + 16 - 1) \div 16 = 1 /\ (2 * n + 3 - 1) \div 3 \in {1, 2}
  OBVIOUS
<1>4. \A f \in Fuels : ItemsFor(f, n) \in {1, 2}
  BY <1>2, <1>3 DEF ItemsFor, Fuels
<1> QED
  BY <1>1, <1>2, <1>4 DEF Fuels

(* A flow that settles, with its errand paid or excused.                     *)
LEMMA SettlesWell ==
  ASSUME WorkshopInv, NEW how, NEW c \in CraftRecord, Concludes(how, c), unruly' = unruly,
         pack' \in [Item -> Nat], built' \subseteq {"furnace", "table"},
         furnace' \in FurnaceRecord, (furnace'.items = 0) = (furnace'.fuel = "none"),
         how = "missing" => ~(c.step.count > 0 /\ c.ingots >= c.step.count),
         unruly \/ (c.cleared => Empties(c.late))
  PROVE  WorkshopInv'
<1>1. seam \in {"free", "craft", "other"} /\ unruly \in BOOLEAN
  BY DEF WorkshopInv, WorkshopShape
<1>2. WorkshopShape'
  BY <1>1, SettledFacts, NoCraftFacts DEF WorkshopShape
<1>3. FlowStands'
  BY SettledFacts, NoCraftFacts DEF FlowStands, Errands
<1>4. (verdict'.cleared <=> c.cleared) /\ verdict'.late = c.late /\ craft'.stage = "none" /\ ~craft'.cleared
  BY SettledFacts, NoCraftFacts
<1>5. unruly' \/ SlotsStand'
  BY <1>4 DEF SlotsStand, Emptied, Empties
<1> QED
  BY <1>2, <1>3, <1>5 DEF WorkshopInv

(* A flow that goes to its next stage.                                       *)
LEMMA FlowGoesOn ==
  ASSUME WorkshopInv, NEW stage \in Errands \cup {"table", "craft"}, To(stage), craft # NoCraft
  PROVE  /\ craft' \in CraftRecord /\ craft' # NoCraft
         /\ craft'.stage = stage /\ craft'.ask = craft.ask /\ craft'.step = craft.step /\ craft'.took = craft.took
         /\ craft'.ingots = craft.ingots /\ craft'.cleared = craft.cleared /\ craft'.late = craft.late
<1>1. craft \in CraftRecord
  BY DEF WorkshopInv, WorkshopShape
<1>2. /\ craft'.stage = stage /\ craft'.ask = craft.ask /\ craft'.step = craft.step /\ craft'.took = craft.took
      /\ craft'.ingots = craft.ingots /\ craft'.cleared = craft.cleared /\ craft'.late = craft.late
  BY <1>1 DEF To, CraftRecord
<1>3. craft' \in CraftRecord
  BY <1>1 DEF To, CraftRecord
<1>4. stage # "none"
  BY DEF Errands
<1> QED
  BY <1>2, <1>3, <1>4, NoCraftFacts

LEMMA CraftStarts ==
  ASSUME WorkshopInv, NEW ask \in {"sword", "stick", "planks"}, StartCraft(ask)
  PROVE  WorkshopInv'
<1>0. /\ WorkshopShape /\ seam = "free" /\ craft = NoCraft /\ UNCHANGED <<pack, furnace, built>>
      /\ unruly' = FALSE
  BY DEF WorkshopInv, StartCraft
<1>1. PICK want : want = [count |-> 2 - pack["ingot"], fuel |-> FuelFor(2 - pack["ingot"])]
  OBVIOUS
<1>2. \/ /\ Craftable(ask) /\ craft' = [NoCraft EXCEPT !.stage = "table", !.ask = ask, !.step = NoStep]
         /\ seam' = "craft" /\ verdict' = Verdict("none", NoCraft)
      \/ /\ ~Craftable(ask) /\ ~Errand(ask) /\ verdict' = Verdict("missing", NoCraft) /\ UNCHANGED <<craft, seam>>
      \/ /\ Errand(ask) /\ verdict' = Verdict("no fuel", NoCraft) /\ UNCHANGED <<craft, seam>>
      \/ /\ Errand(ask) /\ verdict' = Verdict("no furnace", NoCraft) /\ UNCHANGED <<craft, seam>>
      \/ /\ Errand(ask) /\ want.fuel # "none"
         /\ craft' = [NoCraft EXCEPT !.stage = "furnace", !.ask = ask, !.step = want]
         /\ seam' = "craft" /\ verdict' = Verdict("none", NoCraft)
  BY <1>1 DEF StartCraft
<1>3. ~verdict'.brought /\ ~verdict'.cleared /\ seam' \in {"free", "craft"}
  <2>1. \E how : verdict' = Verdict(how, NoCraft)
    BY <1>2
  <2>2. seam' = "craft" \/ seam' = seam
    BY <1>2
  <2> QED
    BY <1>0, <2>1, <2>2, BlankVerdict
<1>4. ASSUME craft' \in CraftRecord PROVE WorkshopShape'
  BY <1>0, <1>3, <1>4 DEF WorkshopShape
<1>5. CASE craft' = craft
  <2>1. WorkshopShape'
    BY <1>0, <1>4, <1>5, NoCraftFacts
  <2>2. FlowStands' /\ SlotsStand'
    BY <1>0, <1>3, <1>5, NoCraftFacts DEF FlowStands, SlotsStand, Errands
  <2> QED
    BY <2>1, <2>2 DEF WorkshopInv
<1>6. CASE craft' = [NoCraft EXCEPT !.stage = "table", !.ask = ask, !.step = NoStep]
  <2>1. craft' \in CraftRecord /\ craft'.stage = "table" /\ craft'.ask = ask /\ ~craft'.cleared
    <3>1. craft' = [stage |-> "table", ask |-> ask, step |-> NoStep, took |-> 0, ingots |-> 0,
                    cleared |-> FALSE, late |-> 0]
      BY <1>6 DEF NoCraft
    <3>2. craft' \in CraftRecord
      BY <3>1 DEF CraftRecord, NoStep
    <3> QED
      BY <3>1, <3>2
  <2>2. WorkshopShape'
    BY <1>4, <2>1
  <2>3. FlowStands' /\ SlotsStand'
    BY <1>3, <2>1 DEF FlowStands, SlotsStand, Errands
  <2> QED
    BY <2>2, <2>3 DEF WorkshopInv
<1>7. CASE /\ Errand(ask) /\ want.fuel # "none"
           /\ craft' = [NoCraft EXCEPT !.stage = "furnace", !.ask = ask, !.step = want]
  <2>1. ask = "sword" /\ pack["ingot"] < 2 /\ pack["stick"] >= 1
    BY <1>0, <1>7, SwordFacts
  <2>2. pack["ingot"] \in Nat /\ pack["stick"] \in Nat
    BY <1>0 DEF WorkshopShape, Item
  <2>3. 2 - pack["ingot"] \in 1..2
    BY <2>1, <2>2
  <2>4. FuelFor(2 - pack["ingot"]) \in Fuels \cup {"none"}
    BY <2>3, FuelFacts
  <2>5. want \in [count : 0..2, fuel : Fuels \cup {"none"}] /\ want.count = 2 - pack["ingot"]
    BY <1>1, <2>3, <2>4
  <2>6. /\ craft' \in CraftRecord /\ craft'.stage = "furnace" /\ craft'.ask = "sword" /\ craft'.ingots = 0
        /\ craft'.step = want /\ ~craft'.cleared
    BY <1>7, <2>1, <2>5 DEF CraftRecord, Errands, NoCraft
  <2>7. WorkshopShape'
    BY <1>4, <2>6
  <2>8. pack'["stick"] >= 1 /\ pack'["ingot"] + want.count >= 2 + 0 /\ want.count > 0
    BY <1>0, <2>1, <2>2, <2>3, <2>5
  <2>9. FlowStands' /\ SlotsStand'
    BY <1>3, <1>7, <2>6, <2>8 DEF FlowStands, SlotsStand, Errands
  <2> QED
    BY <2>7, <2>9 DEF WorkshopInv
<1> QED
  BY <1>2, <1>5, <1>6, <1>7

(* A walk or a placement takes no iron and no sticks.                        *)
LEMMA AcquireFacts ==
  ASSUME WorkshopShape, NEW thing \in {"furnace", "table"}, Acquire(thing)
  PROVE  /\ craft.stage = thing /\ pack' \in [Item -> Nat] /\ built' \subseteq {"furnace", "table"}
         /\ pack'["ingot"] = pack["ingot"] /\ pack'["stick"] = pack["stick"]
<1>1. pack \in [Item -> Nat] /\ built \subseteq {"furnace", "table"} /\ thing \in Item
  BY DEF WorkshopShape, Item
<1>2. CASE UNCHANGED <<built, pack>>
  BY <1>1, <1>2 DEF Acquire
<1>3. CASE pack[thing] > 0 /\ built' = built \cup {thing} /\ pack' = Minus(pack, thing, 1)
  <2>1. pack[thing] - 1 \in Nat
    BY <1>1, <1>3
  <2>2. pack' = [pack EXCEPT ![thing] = pack[thing] - 1]
    BY <1>3 DEF Minus
  <2>3. pack' \in [Item -> Nat]
    BY <1>1, <2>1, <2>2
  <2>4. pack'["ingot"] = pack["ingot"] /\ pack'["stick"] = pack["stick"]
    BY <1>1, <2>2
  <2> QED
    BY <1>1, <1>3, <2>3, <2>4 DEF Acquire
<1> QED
  BY <1>2, <1>3 DEF Acquire

(* A step that takes the flow on, and what it must leave as it was.          *)
LEMMA FlowMoves ==
  ASSUME WorkshopInv, NEW stage \in Errands \cup {"table", "craft"}, To(stage), craft # NoCraft,
         UNCHANGED <<verdict, seam, unruly>>,
         pack' \in [Item -> Nat], built' \subseteq {"furnace", "table"},
         furnace' \in FurnaceRecord, (furnace'.items = 0) = (furnace'.fuel = "none"),
         stage \in Errands => /\ craft.stage \in Errands /\ pack'["stick"] = pack["stick"]
                              /\ pack'["ingot"] = pack["ingot"],
         stage \in {"furnace", "put fuel", "put input", "waiting"} =>
           craft.stage \in {"furnace", "put fuel", "put input", "waiting"},
         unruly \/ (/\ stage = "take input" => furnace'.output <= craft.late
                    /\ stage = "take fuel" => furnace'.input = 0 /\ furnace'.output <= craft.late
                    /\ craft.cleared => Empties(craft.late))
  PROVE  WorkshopInv'
<1>1. /\ craft' \in CraftRecord /\ craft' # NoCraft /\ craft'.stage = stage /\ craft'.ask = craft.ask
      /\ craft'.step = craft.step /\ craft'.ingots = craft.ingots
      /\ craft'.cleared = craft.cleared /\ craft'.late = craft.late
  BY FlowGoesOn
<1>2. WorkshopShape /\ FlowStands /\ stage # "none"
  BY DEF WorkshopInv, Errands
<1>3. WorkshopShape'
  BY <1>1, <1>2 DEF WorkshopShape
<1>4. FlowStands'
  <2>1. craft'.stage # "none" /\ craft'.ask # "none" /\ ~verdict'.brought /\ ~verdict'.cleared
    BY <1>1, <1>2 DEF FlowStands
  <2>2. ASSUME stage \in Errands
        PROVE  /\ craft'.ask = "sword" /\ craft'.step.count > 0 /\ craft'.step.fuel # "none" /\ ~craft'.cleared
               /\ pack'["stick"] >= 1 /\ pack'["ingot"] + craft'.step.count >= 2 + craft'.ingots
    BY <1>1, <1>2, <2>2 DEF FlowStands
  <2>3. stage \in {"furnace", "put fuel", "put input", "waiting"} => craft'.ingots = 0
    BY <1>1, <1>2 DEF FlowStands
  <2> QED
    BY <1>1, <2>1, <2>2, <2>3 DEF FlowStands
<1>5. unruly' \/ SlotsStand'
  <2>1. ~verdict'.cleared
    BY <1>1, <1>4 DEF FlowStands
  <2> QED
    BY <1>1, <2>1 DEF SlotsStand, Emptied, Empties
<1> QED
  BY <1>3, <1>4, <1>5 DEF WorkshopInv

LEMMA CraftWalks ==
  ASSUME WorkshopInv, AtFurnace \/ NoTable \/ AtTable
  PROVE  WorkshopInv'
<1>0. WorkshopShape /\ FlowStands /\ (unruly \/ SlotsStand) /\ craft \in CraftRecord
  BY DEF WorkshopInv, WorkshopShape
<1>1. (furnace.items = 0) = (furnace.fuel = "none") /\ furnace \in FurnaceRecord /\ pack \in [Item -> Nat]
      /\ built \subseteq {"furnace", "table"}
  BY <1>0 DEF WorkshopShape
<1>2. ASSUME UNCHANGED furnace PROVE unruly \/ (craft.cleared => Empties(craft.late))
  BY <1>0, <1>2 DEF SlotsStand, Emptied, Empties
<1>3. CASE AtFurnace
  <2>1. /\ craft.stage = "furnace" /\ pack' \in [Item -> Nat] /\ built' \subseteq {"furnace", "table"}
        /\ pack'["ingot"] = pack["ingot"] /\ pack'["stick"] = pack["stick"]
    BY <1>0, <1>3, AcquireFacts DEF AtFurnace
  <2>2. UNCHANGED <<furnace, unruly>> /\ craft # NoCraft
    BY <1>3, <2>1, NoCraftFacts DEF AtFurnace
  <2>3. CASE Concludes("abandoned", craft)
    BY <1>0, <1>1, <1>2, <2>1, <2>2, <2>3, SettlesWell
  <2>4. CASE To("put fuel") /\ UNCHANGED <<verdict, seam>>
    BY <1>1, <1>2, <2>1, <2>2, <2>4, FlowMoves DEF Errands
  <2> QED
    BY <1>3, <2>3, <2>4 DEF AtFurnace, EndsAs
<1>4. CASE NoTable
  <2>1. Concludes("no table", craft) /\ UNCHANGED <<pack, furnace, built, unruly>>
    BY <1>4 DEF NoTable, EndsAs
  <2> QED
    BY <1>0, <1>1, <1>2, <2>1, SettlesWell
<1>5. CASE AtTable
  <2>1. /\ craft.stage = "table" /\ pack' \in [Item -> Nat] /\ built' \subseteq {"furnace", "table"}
    BY <1>0, <1>1, <1>5, AcquireFacts DEF AtTable
  <2>2. UNCHANGED <<furnace, unruly>> /\ craft # NoCraft
    BY <1>5, <2>1, NoCraftFacts DEF AtTable
  <2>3. CASE Concludes("abandoned", craft)
    BY <1>0, <1>1, <1>2, <2>1, <2>2, <2>3, SettlesWell
  <2>4. CASE To("craft") /\ UNCHANGED <<verdict, seam>>
    BY <1>1, <1>2, <2>1, <2>2, <2>4, FlowMoves DEF Errands
  <2> QED
    BY <1>5, <2>3, <2>4 DEF AtTable, EndsAs
<1> QED
  BY <1>3, <1>4, <1>5

LEMMA FurnaceIsFilled ==
  ASSUME WorkshopInv, PutFuel \/ PutInput
  PROVE  WorkshopInv'
<1>0. /\ WorkshopShape /\ FlowStands /\ craft \in CraftRecord
      /\ pack \in [Item -> Nat] /\ furnace \in FurnaceRecord /\ craft # NoCraft
      /\ (furnace.items = 0) = (furnace.fuel = "none") /\ built \subseteq {"furnace", "table"}
  BY NoCraftFacts DEF WorkshopInv, WorkshopShape, PutFuel, PutInput
<1>1. /\ craft.step.count \in 1..2 /\ craft.step.fuel \in Fuels /\ ~craft.cleared
      /\ craft.stage \in {"put fuel", "put input"} /\ craft.stage \in Errands
  <2>1. craft.stage \in {"put fuel", "put input"}
    BY DEF PutFuel, PutInput
  <2>2. craft.stage \in Errands
    BY <2>1 DEF Errands
  <2>3. craft.step.count > 0 /\ craft.step.fuel # "none" /\ ~craft.cleared
    BY <1>0, <2>2 DEF FlowStands
  <2>4. craft.step.count \in 0..2 /\ craft.step.fuel \in Fuels \cup {"none"}
    BY <1>0 DEF CraftRecord
  <2>5. craft.step.count \in 1..2
    BY <2>3, <2>4
  <2> QED
    BY <2>1, <2>2, <2>3, <2>4, <2>5
<1>2. CASE PutFuel
  <2>1. PICK fuel, n : fuel = craft.step.fuel /\ n = ItemsFor(craft.step.fuel, craft.step.count)
    OBVIOUS
  <2>2. n \in Nat /\ n > 0 /\ fuel \in Fuels
    BY <1>1, <2>1, FuelFacts
  <2>3. /\ pack[fuel] >= n /\ pack' = Minus(pack, fuel, n)
        /\ furnace' = [furnace EXCEPT !.fuel = fuel, !.items = @ + n]
        /\ To("put input") /\ UNCHANGED <<built, verdict, seam, unruly>>
    BY <1>2, <2>1 DEF PutFuel
  <2>4. pack' \in [Item -> Nat] /\ pack'["ingot"] = pack["ingot"] /\ pack'["stick"] = pack["stick"]
    <3>1. fuel \in Item /\ fuel # "ingot" /\ fuel # "stick"
      BY <2>2 DEF Fuels, Item
    <3>2. pack[fuel] - n \in Nat
      <4>1. pack[fuel] \in Nat /\ pack[fuel] >= n
        BY <1>0, <2>3, <3>1
      <4> QED
        BY <2>2, <4>1
    <3>3. pack' = [pack EXCEPT ![fuel] = pack[fuel] - n]
      BY <2>3 DEF Minus
    <3> QED
      BY <1>0, <3>1, <3>2, <3>3 DEF Item
  <2>5. furnace.items + n \in Nat /\ furnace.items + n # 0
    <3>1. furnace.items \in Nat
      BY <1>0 DEF FurnaceRecord
    <3> QED
      BY <2>2, <3>1
  <2>6. furnace' \in FurnaceRecord /\ furnace'.items # 0 /\ furnace'.fuel # "none"
    BY <1>0, <2>2, <2>3, <2>5 DEF FurnaceRecord, Fuels
  <2> QED
    BY <1>0, <1>1, <2>3, <2>4, <2>6, FlowMoves DEF Errands
<1>3. CASE PutInput
  <2>1. PICK n : n = craft.step.count
    OBVIOUS
  <2>2. n \in Nat /\ pack["raw"] \in Nat /\ furnace.input + n \in Nat /\ "raw" \in Item
    <3>1. n \in Nat /\ furnace.input \in Nat
      <4>1. n \in 1..2
        BY <1>1, <2>1, Zenon
      <4>2. furnace.input \in Nat
        BY <1>0 DEF FurnaceRecord
      <4> QED
        BY <4>1, <4>2
    <3>2. pack["raw"] \in Nat /\ "raw" \in Item
      BY <1>0 DEF Item
    <3> QED
      BY <3>1, <3>2
  <2>3. /\ pack["raw"] >= n /\ pack' = [pack EXCEPT !["raw"] = pack["raw"] - n]
        /\ furnace' = [furnace EXCEPT !.input = furnace.input + n]
        /\ To("waiting") /\ UNCHANGED <<built, verdict, seam, unruly>>
    BY <1>3, <2>1 DEF PutInput, Minus
  <2>4. pack' \in [Item -> Nat] /\ pack'["ingot"] = pack["ingot"] /\ pack'["stick"] = pack["stick"]
    <3>1. pack["raw"] - n \in Nat
      <4>1. pack["raw"] >= n
        BY <2>3
      <4> QED
        BY <2>2, <4>1
    <3> QED
      BY <1>0, <2>2, <2>3, <3>1 DEF Item
  <2>5. furnace' \in FurnaceRecord /\ (furnace'.items = 0) = (furnace'.fuel = "none")
    BY <1>0, <2>2, <2>3 DEF FurnaceRecord
  <2> QED
    BY <1>0, <1>1, <2>3, <2>4, <2>5, FlowMoves DEF Errands
<1> QED
  BY <1>2, <1>3

(* Fire: what comes out between the two takes is counted as it comes.        *)
LEMMA FurnaceBurns ==
  ASSUME WorkshopInv, Smelts \/ FireDies
  PROVE  WorkshopInv'
<1>0. /\ WorkshopShape /\ FlowStands /\ (unruly \/ SlotsStand) /\ craft \in CraftRecord
      /\ furnace \in FurnaceRecord /\ (furnace.items = 0) = (furnace.fuel = "none")
      /\ UNCHANGED <<pack, built, verdict, seam, unruly>>
  BY DEF WorkshopInv, WorkshopShape, Smelts, FireDies
<1>1. furnace.input \in Nat /\ furnace.output \in Nat /\ furnace.items \in Nat /\ furnace.fire \in Nat /\ furnace.fuel \in Fuels \cup {"none"}
  BY <1>0 DEF FurnaceRecord
<1>2. CASE FireDies
  <2>1. furnace' = [furnace EXCEPT !.fire = 0]
    BY <1>2 DEF FireDies
  <2>2. /\ furnace' \in FurnaceRecord /\ furnace'.items = furnace.items /\ furnace'.fuel = furnace.fuel
        /\ furnace'.input = furnace.input /\ furnace'.output = furnace.output /\ furnace'.alien = furnace.alien
    BY <1>0, <2>1 DEF FurnaceRecord
  <2>3. WorkshopShape'
    BY <1>0, <1>2, <2>2 DEF WorkshopShape, FireDies
  <2>4. FlowStands' /\ (unruly' \/ SlotsStand')
    <3>1. UNCHANGED craft
      BY <1>2 DEF FireDies
    <3> QED
      BY <1>0, <2>2, <3>1 DEF FlowStands, SlotsStand, Emptied
  <2> QED
    BY <2>3, <2>4 DEF WorkshopInv
<1>3. CASE Smelts
  <2>1. PICK half, lit : /\ half = HalfSmelts(furnace.fuel)
                         /\ lit = IF furnace.fire >= 2 THEN 0 ELSE IF furnace.fire + half >= 2 THEN 1 ELSE 2
    OBVIOUS
  <2>2. /\ furnace.input > 0 /\ furnace.alien = "none" /\ Burnable >= 2
        /\ furnace' = [furnace EXCEPT !.input = @ - 1, !.output = @ + 1, !.items = @ - lit,
                         !.fuel = IF furnace.items = lit THEN "none" ELSE @,
                         !.fire = @ + (IF lit = 0 THEN 0 ELSE lit * half) - 2]
    BY <1>3, <2>1 DEF Smelts
  <2>3. furnace.fire < 2 => furnace.items > 0 /\ furnace.fuel \in Fuels
    BY <1>0, <1>1, <2>2 DEF Burnable
  <2>4. furnace.fuel \in Fuels => half \in Nat /\ half >= 2
    BY <2>1, FuelFacts, 1 \in 1..2
  <2>5. lit \in {0, 1} /\ (lit = 0 => furnace.fire >= 2) /\ (lit = 1 => furnace.items > 0 /\ furnace.fuel \in Fuels)
    <3>1. CASE furnace.fire >= 2
      BY <2>1, <3>1
    <3>2. CASE ~(furnace.fire >= 2)
      <4>1. furnace.fire < 2
        BY <1>1, <3>2
      <4>2. half \in Nat /\ half >= 2 /\ furnace.items > 0 /\ furnace.fuel \in Fuels
        BY <2>3, <2>4, <4>1
      <4>3. furnace.fire + half >= 2
        BY <1>1, <4>2
      <4> QED
        BY <2>1, <3>2, <4>2, <4>3
    <3> QED
      BY <3>1, <3>2
  <2>6. PICK burnt : burnt = furnace.fire + (IF lit = 0 THEN 0 ELSE lit * half) - 2
    OBVIOUS
  <2>7. burnt \in Nat
    <3>1. CASE lit = 0
      BY <1>1, <2>5, <2>6, <3>1
    <3>2. CASE lit = 1
      <4>1. half \in Nat /\ half >= 2
        BY <2>4, <2>5, <3>2
      <4>2. lit * half = half
        BY <3>2, <4>1
      <4> QED
        BY <1>1, <2>6, <3>2, <4>1, <4>2
    <3> QED
      BY <2>5, <3>1, <3>2
  <2>8. /\ furnace.input - 1 \in Nat /\ furnace.output + 1 \in Nat /\ furnace.items - lit \in Nat
        /\ (furnace.items - lit = 0) = (furnace.items = lit)
    BY <1>1, <2>2, <2>5
  <2>9. PICK left, in, out, fuel : /\ left = furnace.items - lit /\ in = furnace.input - 1 /\ out = furnace.output + 1
                                   /\ fuel = IF furnace.items = lit THEN "none" ELSE furnace.fuel
    OBVIOUS
  <2>10. furnace' = [furnace EXCEPT !.input = in, !.output = out, !.items = left, !.fuel = fuel, !.fire = burnt]
    BY <2>2, <2>6, <2>9
  <2>11. left \in Nat /\ in \in Nat /\ out \in Nat /\ fuel \in Fuels \cup {"none"}
    BY <1>1, <2>8, <2>9
  <2>12. /\ furnace' \in FurnaceRecord /\ furnace'.items = left /\ furnace'.fuel = fuel
         /\ furnace'.input = in /\ furnace'.output = out /\ furnace'.alien = furnace.alien
    BY <1>0, <2>7, <2>10, <2>11 DEF FurnaceRecord
  <2>13. (left = 0) = (fuel = "none")
    <3>1. "none" \notin Fuels
      BY DEF Fuels
    <3>2. CASE furnace.items = lit
      BY <2>8, <2>9, <3>2
    <3>3. CASE furnace.items # lit
      <4>1. furnace.items # 0
        BY <1>1, <2>5, <3>3
      <4>2. left # 0 /\ fuel = furnace.fuel
        BY <2>8, <2>9, <3>3
      <4>3. fuel # "none"
        BY <1>0, <4>1, <4>2
      <4> QED
        BY <4>2, <4>3
    <3> QED
      BY <3>2, <3>3
  <2>14. (furnace.input # 0) /\ furnace.output \in Nat /\ craft.late \in Nat /\ in \in Nat
    BY <1>0, <1>1, <2>2, <2>11 DEF CraftRecord
  <2>15. /\ craft' \in CraftRecord /\ craft'.stage = craft.stage /\ craft'.ask = craft.ask /\ craft'.step = craft.step
         /\ craft'.ingots = craft.ingots /\ craft'.cleared = craft.cleared
         /\ craft # NoCraft \/ craft' = NoCraft
         /\ craft.stage = "take input" => craft'.late = craft.late + 1
    <3>1. CASE craft.stage = "take input"
      <4>1. craft' = [craft EXCEPT !.late = @ + 1]
        BY <1>3, <3>1 DEF Smelts
      <4>2. craft' = [craft EXCEPT !.late = craft.late + 1] /\ craft.late + 1 \in Nat
        BY <2>14, <4>1
      <4> QED
        BY <1>0, <3>1, <4>2, NoCraftFacts DEF CraftRecord
    <3>2. CASE craft.stage # "take input"
      <4>1. craft' = craft
        BY <1>3, <3>2 DEF Smelts
      <4> QED
        BY <1>0, <3>2, <4>1
    <3> QED
      BY <3>1, <3>2
  <2>16. WorkshopShape'
    BY <1>0, <2>12, <2>13, <2>15 DEF WorkshopShape
  <2>17. FlowStands'
    BY <1>0, <2>15 DEF FlowStands
  <2>18. ASSUME SlotsStand PROVE SlotsStand'
    <3>1. craft.stage # "take fuel" /\ ~craft.cleared /\ ~verdict.cleared
      BY <2>14, <2>18 DEF SlotsStand, Emptied, Empties
    <3>2. craft.stage = "take input" => out <= craft.late + 1
      <4>1. craft.stage = "take input" => furnace.output <= craft.late
        BY <2>18 DEF SlotsStand
      <4>2. furnace.output <= craft.late => out <= craft.late + 1
        BY <2>9, <2>14
      <4> QED
        BY <4>1, <4>2, Zenon
    <3> QED
      BY <1>0, <2>12, <2>15, <3>1, <3>2 DEF SlotsStand
  <2> QED
    BY <1>0, <2>16, <2>17, <2>18 DEF WorkshopInv
<1> QED
  BY <1>2, <1>3

LEMMA FurnaceIsEmptied ==
  ASSUME WorkshopInv, TakeOutput \/ TakeInput
  PROVE  WorkshopInv'
<1>0. /\ WorkshopShape /\ FlowStands /\ (unruly \/ SlotsStand) /\ craft \in CraftRecord
      /\ pack \in [Item -> Nat] /\ furnace \in FurnaceRecord /\ (furnace.items = 0) = (furnace.fuel = "none")
      /\ craft # NoCraft /\ built \subseteq {"furnace", "table"}
  BY NoCraftFacts DEF WorkshopInv, WorkshopShape, TakeOutput, TakeInput
<1>1. /\ furnace.input \in Nat /\ furnace.output \in Nat /\ craft.step.count \in Nat /\ craft.late \in Nat
      /\ pack["ingot"] \in Nat /\ pack["raw"] \in Nat /\ pack["stick"] \in Nat
      /\ furnace.alien \in {"none", "input", "output"}
  BY <1>0 DEF FurnaceRecord, CraftRecord, Item
<1>2. craft.stage \in Errands /\ ~craft.cleared /\ ~verdict.cleared /\ ~verdict.brought
  <2>1. craft.stage \in Errands
    BY DEF TakeOutput, TakeInput, Errands
  <2> QED
    BY <1>0, <2>1 DEF FlowStands
<1>3. CASE TakeOutput
  <2>1. PICK ingots, count, alien : /\ ingots = IF furnace.alien = "output" THEN 0 ELSE furnace.output
                                    /\ count = furnace.output
                                    /\ alien = IF furnace.alien = "output" THEN "none" ELSE furnace.alien
    OBVIOUS
  <2>2. /\ craft.stage = "waiting"
        /\ craft' = [craft EXCEPT !.stage = "take input", !.took = count, !.ingots = ingots]
        /\ pack' = Plus(pack, "ingot", ingots)
        /\ furnace' = [furnace EXCEPT !.output = 0, !.alien = alien]
        /\ UNCHANGED <<built, verdict, seam, unruly>>
    BY <1>3, <2>1 DEF TakeOutput
  <2>3. ingots \in Nat /\ count \in Nat /\ alien \in {"none", "input", "output"} /\ pack["ingot"] + ingots \in Nat
    BY <1>1, <2>1
  <2>4. /\ craft' \in CraftRecord /\ craft'.stage = "take input" /\ craft'.ask = craft.ask
        /\ craft'.step = craft.step /\ craft'.ingots = ingots /\ craft'.cleared = craft.cleared
        /\ craft'.late = craft.late
    BY <1>0, <2>2, <2>3 DEF CraftRecord, Errands
  <2>5. /\ furnace' \in FurnaceRecord /\ furnace'.items = furnace.items /\ furnace'.fuel = furnace.fuel
        /\ furnace'.output = 0
    BY <1>0, <2>2, <2>3 DEF FurnaceRecord
  <2>6. pack' \in [Item -> Nat] /\ pack'["stick"] = pack["stick"] /\ pack'["ingot"] = pack["ingot"] + ingots
    <3>1. pack' = [pack EXCEPT !["ingot"] = pack["ingot"] + ingots]
      BY <2>2 DEF Plus
    <3> QED
      BY <1>0, <2>3, <3>1 DEF Item
  <2>7. WorkshopShape'
    BY <1>0, <2>2, <2>4, <2>5, <2>6 DEF WorkshopShape
  <2>8. FlowStands'
    <3>1. craft.ingots = 0 /\ pack["stick"] >= 1 /\ pack["ingot"] + craft.step.count >= 2 + craft.ingots
      BY <1>0, <1>2, <2>2 DEF FlowStands
    <3>2. (pack["ingot"] + ingots) + craft.step.count >= 2 + ingots
      BY <1>1, <2>3, <3>1
    <3> QED
      BY <1>0, <1>2, <2>2, <2>4, <2>6, <3>1, <3>2 DEF FlowStands, Errands
  <2>9. SlotsStand'
    <3>1. 0 <= craft.late
      BY <1>1
    <3> QED
      BY <1>2, <2>2, <2>4, <2>5, <3>1 DEF SlotsStand
  <2> QED
    BY <2>7, <2>8, <2>9 DEF WorkshopInv
<1>4. CASE TakeInput
  <2>1. PICK in, alien : in = furnace.input /\ alien = IF furnace.alien = "input" THEN "none" ELSE furnace.alien
    OBVIOUS
  <2>2. /\ craft.stage = "take input" /\ To("take fuel")
        /\ pack' = IF furnace.alien = "input" THEN pack ELSE Plus(pack, "raw", furnace.input)
        /\ furnace' = [furnace EXCEPT !.input = 0, !.alien = alien]
        /\ UNCHANGED <<built, verdict, seam, unruly>>
    BY <1>4, <2>1 DEF TakeInput
  <2>3. in \in Nat /\ alien \in {"none", "input", "output"} /\ pack["raw"] + in \in Nat
    BY <1>1, <2>1
  <2>4. /\ furnace' \in FurnaceRecord /\ furnace'.items = furnace.items /\ furnace'.fuel = furnace.fuel
        /\ furnace'.input = 0 /\ furnace'.output = furnace.output
    BY <1>0, <2>2, <2>3 DEF FurnaceRecord
  <2>5. pack' \in [Item -> Nat] /\ pack'["stick"] = pack["stick"] /\ pack'["ingot"] = pack["ingot"]
    <3>1. CASE furnace.alien = "input"
      BY <1>0, <2>2, <3>1
    <3>2. CASE furnace.alien # "input"
      <4>1. pack' = [pack EXCEPT !["raw"] = pack["raw"] + in]
        BY <2>1, <2>2, <3>2 DEF Plus
      <4> QED
        BY <1>0, <2>3, <4>1 DEF Item
    <3> QED
      BY <3>1, <3>2
  <2>6. unruly \/ furnace'.output <= craft.late
    BY <1>0, <2>2, <2>4 DEF SlotsStand
  <2> QED
    BY <1>0, <1>2, <2>2, <2>4, <2>5, <2>6, FlowMoves DEF Errands
<1> QED
  BY <1>3, <1>4

(* The errand is judged by what was taken.                                   *)
LEMMA ErrandIsJudged ==
  ASSUME WorkshopInv, TakeFuel
  PROVE  WorkshopInv'
<1>0. /\ WorkshopShape /\ FlowStands /\ (unruly \/ SlotsStand) /\ craft \in CraftRecord
      /\ pack \in [Item -> Nat] /\ furnace \in FurnaceRecord /\ (furnace.items = 0) = (furnace.fuel = "none")
      /\ craft # NoCraft /\ craft.stage = "take fuel"
  BY NoCraftFacts DEF WorkshopInv, WorkshopShape, TakeFuel
<1>1. /\ craft.step.count \in Nat /\ craft.ingots \in Nat
      /\ pack["ingot"] \in Nat /\ furnace.items \in Nat /\ furnace.fuel \in Fuels \cup {"none"}
  <2>1. craft.step.count \in 0..2 /\ craft.ingots \in Nat
    BY <1>0 DEF CraftRecord
  <2>2. pack["ingot"] \in Nat
    BY <1>0 DEF Item
  <2>3. furnace.items \in Nat /\ furnace.fuel \in Fuels \cup {"none"}
    BY <1>0 DEF FurnaceRecord
  <2>4. \A n \in 0..2 : n \in Nat
    OBVIOUS
  <2> QED
    BY <2>1, <2>2, <2>3, <2>4
<1>2. PICK emptied : emptied = [craft EXCEPT !.cleared = TRUE]
  OBVIOUS
<1>3. /\ UNCHANGED <<built, unruly>>
      /\ pack' = IF furnace.items = 0 THEN pack ELSE Plus(pack, furnace.fuel, furnace.items)
      /\ furnace' = [furnace EXCEPT !.fuel = "none", !.items = 0]
      /\ \/ Concludes("short", emptied)
         \/ Craftable(craft.ask) /\ craft' = [emptied EXCEPT !.stage = "table"] /\ UNCHANGED <<verdict, seam>>
         \/ ~Craftable(craft.ask) /\ Concludes("missing", emptied)
  BY <1>2 DEF TakeFuel
<1>4. /\ emptied \in CraftRecord /\ emptied.cleared = TRUE /\ emptied.late = craft.late /\ emptied.ask = craft.ask
      /\ emptied.ingots = craft.ingots /\ emptied.step = craft.step
  BY <1>0, <1>2 DEF CraftRecord
<1>5. /\ craft.ask = "sword" /\ pack["stick"] >= 1 /\ pack["ingot"] + craft.step.count >= 2 + craft.ingots
      /\ ~verdict.cleared /\ ~verdict.brought
  BY <1>0 DEF FlowStands, Errands
<1>6. /\ furnace' \in FurnaceRecord /\ furnace'.items = 0 /\ furnace'.fuel = "none"
      /\ furnace'.input = furnace.input /\ furnace'.output = furnace.output
  BY <1>0, <1>3 DEF FurnaceRecord
<1>7. pack' \in [Item -> Nat]
  <2>1. CASE furnace.items = 0
    BY <1>0, <1>3, <2>1
  <2>2. CASE furnace.items # 0
    <3>1. furnace.fuel \in Item
      BY <1>0, <1>1, <2>2 DEF Fuels, Item
    <3>2. pack[furnace.fuel] + furnace.items \in Nat
      <4>1. pack \in [Item -> Nat]
        BY <1>0, Zenon
      <4>2. pack[furnace.fuel] \in Nat
        BY <3>1, <4>1
      <4> QED
        BY <1>1, <4>2
    <3>3. pack' = [pack EXCEPT ![furnace.fuel] = pack[furnace.fuel] + furnace.items]
      BY <1>3, <2>2 DEF Plus
    <3> QED
      BY <1>0, <3>1, <3>2, <3>3
  <2> QED
    BY <2>1, <2>2
<1>8. unruly \/ Empties(craft.late)
  BY <1>0, <1>6 DEF SlotsStand, Empties
<1>9. CASE Concludes("short", emptied)
  BY <1>0, <1>3, <1>4, <1>6, <1>7, <1>8, <1>9, SettlesWell DEF WorkshopShape
<1>10. CASE ~Craftable(craft.ask) /\ Concludes("missing", emptied)
  <2>1. ~(craft.ingots >= craft.step.count)
    <3>1. craft.ingots >= craft.step.count => pack["ingot"] >= 2
      BY <1>1, <1>5
    <3>2. WorkshopShape /\ pack["stick"] >= 1 /\ ~Craftable("sword")
      BY <1>0, <1>5, <1>10, Zenon
    <3>3. ~(pack["ingot"] >= 2)
      BY <3>2, SwordFacts
    <3> QED
      BY <3>1, <3>3, Zenon
  <2> QED
    BY <1>0, <1>3, <1>4, <1>6, <1>7, <1>8, <1>10, <2>1, SettlesWell DEF WorkshopShape
<1>11. CASE craft' = [emptied EXCEPT !.stage = "table"] /\ UNCHANGED <<verdict, seam>>
  <2>1. /\ craft' \in CraftRecord /\ craft'.stage = "table" /\ craft'.ask = craft.ask
        /\ craft'.cleared = TRUE /\ craft'.late = craft.late
    BY <1>4, <1>11 DEF CraftRecord
  <2>2. WorkshopShape'
    BY <1>0, <1>3, <1>6, <1>7, <1>11, <2>1 DEF WorkshopShape
  <2>3. FlowStands'
    BY <1>5, <1>11, <2>1 DEF FlowStands, Errands
  <2>4. unruly' \/ SlotsStand'
    BY <1>3, <1>5, <1>8, <1>11, <2>1 DEF SlotsStand, Emptied, Empties
  <2> QED
    BY <2>2, <2>3, <2>4 DEF WorkshopInv
<1> QED
  BY <1>3, <1>9, <1>10, <1>11

LEMMA ItemIsCrafted ==
  ASSUME WorkshopInv, Crafts
  PROVE  WorkshopInv'
<1>0. /\ WorkshopShape /\ FlowStands /\ (unruly \/ SlotsStand) /\ craft \in CraftRecord
      /\ pack \in [Item -> Nat] /\ furnace \in FurnaceRecord /\ (furnace.items = 0) = (furnace.fuel = "none")
      /\ craft # NoCraft
  BY NoCraftFacts DEF WorkshopInv, WorkshopShape, Crafts, CraftRecord
<1>1. PICK r, ask : r = Recipe(craft.ask) /\ ask = craft.ask
  OBVIOUS
<1>2. /\ craft.stage = "craft" /\ Craftable(ask)
      /\ pack' = [i \in Item |-> pack[i] - (IF i \in DOMAIN r THEN r[i] ELSE 0) + (IF i = ask THEN Makes(i) ELSE 0)]
      /\ Concludes("crafted", craft) /\ UNCHANGED <<furnace, built, unruly>>
  BY <1>1 DEF Crafts, EndsAs
<1>3. ask \in {"sword", "stick", "planks"}
  BY <1>0, <1>1 DEF FlowStands, CraftRecord
<1>4. \A i \in DOMAIN r : r[i] \in Nat /\ i \in Item
  <2>1. r \in {[ingot |-> 2, stick |-> 1], [planks |-> 2], [log |-> 1]}
    BY <1>1, <1>3 DEF Recipe
  <2> QED
    BY <2>1 DEF Item
<1>5. \A i \in DOMAIN r : r[i] <= pack[i]
  BY <1>0, <1>1, <1>2, <1>4 DEF Craftable, Unmet
<1>6. ASSUME NEW i \in Item
      PROVE  pack[i] - (IF i \in DOMAIN r THEN r[i] ELSE 0) + (IF i = ask THEN Makes(i) ELSE 0) \in Nat
  <2>1. PICK less, more : less = (IF i \in DOMAIN r THEN r[i] ELSE 0) /\ more = (IF i = ask THEN Makes(i) ELSE 0)
    OBVIOUS
  <2>2. pack[i] \in Nat /\ less \in Nat /\ less <= pack[i]
    BY <1>0, <1>4, <1>5, <2>1
  <2>3. more \in Nat
    BY <2>1 DEF Makes
  <2> QED
    BY <2>1, <2>2, <2>3
<1>7. pack' \in [Item -> Nat]
  BY <1>2, <1>6
<1>8. unruly \/ (craft.cleared => Empties(craft.late))
  BY <1>0, <1>2 DEF SlotsStand, Emptied, Empties
<1> QED
  BY <1>0, <1>2, <1>7, <1>8, SettlesWell DEF WorkshopShape

(* A throw, the watchdog, another verb and the neighbours.                   *)
LEMMA CraftIsDisturbed ==
  ASSUME WorkshopInv, CraftFails \/ CraftTimesOut \/ AnotherVerb \/ NeighbourMeddles
  PROVE  WorkshopInv'
<1>0. /\ WorkshopShape /\ FlowStands /\ (unruly \/ SlotsStand) /\ craft \in CraftRecord
      /\ furnace \in FurnaceRecord /\ (furnace.items = 0) = (furnace.fuel = "none")
  BY DEF WorkshopInv, WorkshopShape
<1>1. CASE CraftFails
  <2>1. Concludes("failed", craft) /\ UNCHANGED <<pack, furnace, built, unruly>>
    BY <1>1 DEF CraftFails, EndsAs
  <2>2. unruly \/ (craft.cleared => Empties(craft.late))
    BY <1>0, <2>1 DEF SlotsStand, Emptied, Empties
  <2> QED
    BY <1>0, <2>1, <2>2, SettlesWell DEF WorkshopShape
<1>2. CASE CraftTimesOut \/ AnotherVerb
  <2>1. seam' \in {"free", "other"} /\ UNCHANGED <<pack, furnace, built, craft, verdict, unruly>>
    BY <1>2 DEF CraftTimesOut, AnotherVerb
  <2>2. WorkshopShape'
    BY <1>0, <2>1 DEF WorkshopShape
  <2>3. FlowStands' /\ (unruly' \/ SlotsStand')
    BY <1>0, <2>1 DEF FlowStands, SlotsStand, Emptied
  <2> QED
    BY <2>2, <2>3 DEF WorkshopInv
<1>3. CASE NeighbourMeddles
  <2>1. PICK n \in 0..MaxIron, a \in {"none", "input", "output"} :
          furnace' = [furnace EXCEPT !.alien = a, !.input = IF a = "output" THEN 0 ELSE n,
                                     !.output = IF a = "input" THEN 0 ELSE n]
    BY <1>3 DEF NeighbourMeddles
  <2>2. PICK in, out : in = (IF a = "output" THEN 0 ELSE n) /\ out = IF a = "input" THEN 0 ELSE n
    OBVIOUS
  <2>3. in \in Nat /\ out \in Nat
    BY <2>2
  <2>4. furnace' = [furnace EXCEPT !.alien = a, !.input = in, !.output = out]
    BY <2>1, <2>2
  <2>5. furnace' \in FurnaceRecord /\ furnace'.items = furnace.items /\ furnace'.fuel = furnace.fuel
    BY <1>0, <2>3, <2>4 DEF FurnaceRecord
  <2>6. unruly' = TRUE /\ UNCHANGED <<pack, built, craft, verdict, seam>>
    BY <1>3 DEF NeighbourMeddles
  <2>7. WorkshopShape'
    BY <1>0, <2>5, <2>6 DEF WorkshopShape
  <2>8. FlowStands'
    BY <1>0, <2>6 DEF FlowStands
  <2> QED
    BY <2>6, <2>7, <2>8 DEF WorkshopInv
<1> QED
  BY <1>1, <1>2, <1>3

LEMMA WorkshopSteps ==
  ASSUME WorkshopInv, [WorkshopNext]_workshopVars
  PROVE  WorkshopInv'
<1>1. CASE UNCHANGED workshopVars
  <2>1. UNCHANGED <<pack, furnace, built, craft, verdict, seam, unruly>>
    BY <1>1 DEF workshopVars
  <2>2. WorkshopShape' /\ FlowStands'
    BY <2>1 DEF WorkshopInv, WorkshopShape, FlowStands
  <2>3. unruly' \/ SlotsStand'
    BY <2>1 DEF WorkshopInv, SlotsStand, Emptied
  <2> QED
    BY <2>2, <2>3 DEF WorkshopInv
<1>2. CASE WorkshopNext
  BY <1>2, CraftStarts, CraftWalks, FurnaceIsFilled, FurnaceBurns, FurnaceIsEmptied, ErrandIsJudged,
     ItemIsCrafted, CraftIsDisturbed DEF WorkshopNext
<1> QED
  BY <1>1, <1>2

LEMMA ErrandHasPaid == WorkshopInv => WorkshopTypeOK /\ ErrandPays
<1> SUFFICES ASSUME WorkshopInv PROVE WorkshopTypeOK /\ ErrandPays
  OBVIOUS
<1>1. WorkshopShape /\ FlowStands /\ (unruly \/ SlotsStand)
  BY DEF WorkshopInv
<1>2. WorkshopTypeOK
  BY <1>1 DEF WorkshopShape, WorkshopTypeOK, FurnaceRecord, CraftRecord, Errands
<1>3. ErrandPays
  BY <1>1 DEF FlowStands, SlotsStand, Emptied, ErrandPays
<1> QED
  BY <1>2, <1>3

(* The smelt errand inside a craft: one that brought the ingots it was run   *)
(* for closes the recipe, whoever else was at the furnace and whatever       *)
(* throws, dies down or times out between any two of its clicks; with the    *)
(* furnace to itself it strands nothing there but what came out between its  *)
(* two takes (runCraftFlow).                                                 *)
THEOREM ErrandAlwaysPays == WorkshopInit /\ [][WorkshopNext]_workshopVars => [](WorkshopTypeOK /\ ErrandPays)
<1>1. WorkshopInv /\ [WorkshopNext]_workshopVars => WorkshopInv'
  BY WorkshopSteps
<1> QED
  BY WorkshopBegins, <1>1, ErrandHasPaid, PTL

-----------------------------------------------------------------------------
(* The chest. *)

LEMMA UnitFacts ==
  ASSUME NEW f, NEW S, NEW u
  PROVE  u \in Units(f, S) <=> \E x \in S : \E i \in 1..f[x] : u = <<x, i>>
BY DEF Units

(* The units of one of the goods, and of all of them.                        *)
LEMMA UnitsOfOne ==
  ASSUME NEW x, NEW k \in Nat
  PROVE  IsFiniteSet({x} \X (1..k)) /\ Cardinality({x} \X (1..k)) = k
<1>1. IsFiniteSet({x}) /\ Cardinality({x}) = 1
  BY FS_Singleton
<1>2. IsFiniteSet(1..k) /\ Cardinality(1..k) = k
  <2>1. 1 \in Int /\ k \in Int
    OBVIOUS
  <2>2. IsFiniteSet(1..k) /\ Cardinality(1..k) = IF 1 > k THEN 0 ELSE k - 1 + 1
    BY <2>1, FS_Interval
  <2> QED
    BY <2>2
<1>3. IsFiniteSet({x} \X (1..k)) /\ Cardinality({x} \X (1..k)) = Cardinality({x}) * Cardinality(1..k)
  BY <1>1, <1>2, FS_Product
<1>4. 1 * k = k
  OBVIOUS
<1> QED
  BY <1>1, <1>2, <1>3, <1>4

LEMMA UnitsAreFinite ==
  ASSUME NEW S, IsFiniteSet(S), NEW f, \A x \in S : f[x] \in Nat
  PROVE  IsFiniteSet(Units(f, S)) /\ TotalOver(f, S) \in Nat
<1>1. PICK parts : parts = {{x} \X (1..f[x]) : x \in S}
  OBVIOUS
<1>2. PICK part : part = [x \in S |-> {x} \X (1..f[x])]
  OBVIOUS
<1>3. part \in Surjection(S, parts)
  BY <1>1, <1>2 DEF Surjection
<1>4. IsFiniteSet(parts)
  BY <1>3, FS_Surjection
<1>5. ASSUME NEW T \in parts PROVE IsFiniteSet(T)
  <2>1. PICK x \in S : T = {x} \X (1..f[x])
    BY <1>1
  <2>2. f[x] \in Nat
    OBVIOUS
  <2> QED
    BY <2>1, <2>2, UnitsOfOne
<1>6. IsFiniteSet(UNION parts)
  BY <1>4, <1>5, FS_UNION
<1>7. UNION parts = Units(f, S)
  BY <1>1 DEF Units
<1> QED
  BY <1>6, <1>7, FS_CardinalityType DEF TotalOver

LEMMA TotalOfMore ==
  ASSUME NEW S, IsFiniteSet(S), NEW T \in SUBSET S, NEW f, \A x \in S : f[x] \in Nat
  PROVE  TotalOver(f, T) <= TotalOver(f, S) /\ TotalOver(f, T) \in Nat /\ TotalOver(f, S) \in Nat
<1>1. IsFiniteSet(T)
  BY FS_Subset
<1>2. Units(f, T) \in SUBSET Units(f, S)
  BY DEF Units
<1>3. IsFiniteSet(Units(f, S)) /\ TotalOver(f, S) \in Nat /\ TotalOver(f, T) \in Nat
  BY <1>1, UnitsAreFinite
<1> QED
  BY <1>2, <1>3, FS_Subset DEF TotalOver

(* One of the goods and the others.                                          *)
LEMMA TotalWithout ==
  ASSUME NEW S, IsFiniteSet(S), NEW g \in S, NEW f, \A x \in S : f[x] \in Nat
  PROVE  /\ TotalOver(f, S) = TotalOver(f, S \ {g}) + f[g]
         /\ TotalOver(f, S) \in Nat /\ TotalOver(f, S \ {g}) \in Nat
<1>1. PICK one, rest : one = {g} \X (1..f[g]) /\ rest = Units(f, S \ {g})
  OBVIOUS
<1>2. IsFiniteSet(S \ {g})
  BY FS_RemoveElement
<1>3. IsFiniteSet(rest) /\ Cardinality(rest) \in Nat /\ Cardinality(rest) = TotalOver(f, S \ {g})
  BY <1>1, <1>2, UnitsAreFinite DEF TotalOver
<1>4. IsFiniteSet(one) /\ Cardinality(one) = f[g] /\ f[g] \in Nat
  BY <1>1, UnitsOfOne
<1>5. Units(f, S) = rest \cup one
  BY <1>1 DEF Units
<1>6. rest \cap one = {}
  BY <1>1 DEF Units
<1>7. Cardinality(rest \cup one) = Cardinality(rest) + Cardinality(one) - Cardinality(rest \cap one)
  BY <1>3, <1>4, FS_Union
<1>8. Cardinality({}) = 0
  BY FS_EmptySet
<1>9. Cardinality(rest \cup one) = Cardinality(rest) + f[g]
  <2>1. Cardinality(rest \cap one) = 0
    BY <1>6, <1>8
  <2>2. Cardinality(rest \cup one) = Cardinality(rest) + f[g] - 0
    BY <1>4, <1>7, <2>1
  <2> QED
    BY <1>3, <1>4, <2>2
<1> QED
  BY <1>3, <1>4, <1>5, <1>9 DEF TotalOver

LEMMA LesserFacts ==
  ASSUME NEW m \in Nat, NEW n \in Nat
  PROVE  /\ Lesser(m, n) \in Nat /\ Lesser(m, n) <= m /\ Lesser(m, n) <= n
         /\ Over(m, n) \in Nat /\ (Over(m, n) > 0 => n + Over(m, n) = m)
BY DEF Lesser, Over

(* planItemCounts never plans for more than the count: the units it plans    *)
(* for are numbered 1..n by what is ahead of them.                           *)
LEMMA PlanFits ==
  ASSUME NEW have \in [Goods -> Nat], NEW n \in Nat, NEW r \in Rankings(have)
  PROVE  /\ Planned(have, n, r) \in [Goods -> Nat]
         /\ TotalOver(Planned(have, n, r), {g \in Goods : Planned(have, n, r)[g] > 0}) <= n
<1> USE StoresAssumption
<1>1. PICK plan, ahead : /\ plan = Planned(have, n, r)
                         /\ ahead = [g \in Goods |-> TotalOver(have, {h \in Goods : r[h] < r[g]})]
  OBVIOUS
<1>2. ASSUME NEW g \in Goods
      PROVE  /\ ahead[g] \in Nat /\ plan[g] \in Nat /\ plan[g] <= have[g]
             /\ plan[g] > 0 => ahead[g] + plan[g] <= n
  <2>1. {h \in Goods : r[h] < r[g]} \in SUBSET Goods
    OBVIOUS
  <2>2. ahead[g] \in Nat
    BY <1>1, <2>1, TotalOfMore
  <2>3. plan[g] = Lesser(have[g], Over(n, ahead[g]))
    BY <1>1 DEF Planned
  <2>4. Over(n, ahead[g]) \in Nat /\ (Over(n, ahead[g]) > 0 => ahead[g] + Over(n, ahead[g]) = n)
    BY <2>2, LesserFacts
  <2>5. plan[g] \in Nat /\ plan[g] <= have[g] /\ plan[g] <= Over(n, ahead[g])
    BY <2>3, <2>4, LesserFacts
  <2> QED
    BY <2>2, <2>4, <2>5
<1>3. plan \in [Goods -> Nat]
  <2>1. plan = [g \in Goods |-> plan[g]]
    BY <1>1 DEF Planned
  <2> QED
    BY <1>2, <2>1
<1>4. r \in [Goods -> Nat] /\ \A g, h \in Goods : g # h => r[g] < r[h] \/ r[h] < r[g]
  <2>1. r \in [Goods -> 1..Cardinality(Goods)] /\ \A g, h \in Goods : g # h => r[g] # r[h]
    BY DEF Rankings
  <2>2. \A g \in Goods : r[g] \in Nat
    BY <2>1
  <2> QED
    BY <2>1, <2>2
<1>5. ASSUME NEW g \in Goods, NEW h \in Goods, r[g] < r[h]
      PROVE  ahead[g] + have[g] <= ahead[h]
  <2>1. PICK before : before = {k \in Goods : r[k] < r[h]}
    OBVIOUS
  <2>2. IsFiniteSet(before) /\ g \in before /\ \A k \in before : have[k] \in Nat
    BY <1>5, <2>1, FS_Subset
  <2>3. /\ TotalOver(have, before) = TotalOver(have, before \ {g}) + have[g]
        /\ TotalOver(have, before \ {g}) \in Nat
    BY <2>2, TotalWithout
  <2>4. IsFiniteSet(before \ {g}) /\ \A k \in before \ {g} : have[k] \in Nat
    BY <2>2, FS_RemoveElement
  <2>5. {k \in Goods : r[k] < r[g]} \in SUBSET (before \ {g})
    BY <1>4, <1>5, <2>1
  <2>6. ahead[g] <= TotalOver(have, before \ {g})
    BY <1>1, <2>4, <2>5, TotalOfMore
  <2>7. ahead[h] = TotalOver(have, before)
    BY <1>1, <2>1
  <2> QED
    BY <1>2, <2>2, <2>3, <2>6, <2>7
<1>6. PICK some, number : /\ some = {g \in Goods : plan[g] > 0}
                          /\ number = [u \in Units(plan, some) |-> ahead[u[1]] + u[2]]
  OBVIOUS
<1>7. ASSUME NEW u \in Units(plan, some)
      PROVE  \E g \in Goods : \E i \in 1..plan[g] : u = <<g, i>> /\ number[u] = ahead[g] + i /\ plan[g] > 0
  <2>1. PICK g \in some : \E i \in 1..plan[g] : u = <<g, i>>
    BY UnitFacts
  <2>2. PICK i \in 1..plan[g] : u = <<g, i>>
    BY <2>1
  <2>3. number[u] = ahead[g] + i
    BY <1>6, <2>2
  <2> QED
    BY <1>6, <2>1, <2>2, <2>3
<1>8. ASSUME NEW u \in Units(plan, some) PROVE number[u] \in 1..n
  <2>1. PICK g \in Goods : \E k \in 1..plan[g] : u = <<g, k>> /\ number[u] = ahead[g] + k /\ plan[g] > 0
    BY <1>7
  <2>2. PICK i \in 1..plan[g] : u = <<g, i>> /\ number[u] = ahead[g] + i
    BY <2>1
  <2>3. ahead[g] \in Nat /\ plan[g] \in Nat /\ ahead[g] + plan[g] <= n
    BY <1>2, <2>1
  <2>4. i \in Nat /\ i >= 1 /\ i <= plan[g]
    BY <2>3
  <2>5. ahead[g] + i \in 1..n
    BY <2>3, <2>4
  <2> QED
    BY <2>2, <2>5
<1>9. ASSUME NEW u \in Units(plan, some), NEW v \in Units(plan, some), number[u] = number[v]
      PROVE  u = v
  <2>1. PICK g \in Goods : \E k \in 1..plan[g] : u = <<g, k>> /\ number[u] = ahead[g] + k /\ plan[g] > 0
    BY <1>7
  <2>2. PICK h \in Goods : \E k \in 1..plan[h] : v = <<h, k>> /\ number[v] = ahead[h] + k /\ plan[h] > 0
    BY <1>7
  <2>3. /\ ahead[g] \in Nat /\ plan[g] \in Nat /\ plan[g] <= have[g] /\ have[g] \in Nat
        /\ ahead[h] \in Nat /\ plan[h] \in Nat /\ plan[h] <= have[h] /\ have[h] \in Nat
    BY <1>2
  <2>4. PICK i \in 1..plan[g] : u = <<g, i>> /\ number[u] = ahead[g] + i
    BY <2>1
  <2>5. PICK j \in 1..plan[h] : v = <<h, j>> /\ number[v] = ahead[h] + j
    BY <2>2
  <2>6. i \in Nat /\ i >= 1 /\ i <= plan[g] /\ j \in Nat /\ j >= 1 /\ j <= plan[h]
    BY <2>3
  <2>7. ahead[g] + i = ahead[h] + j
    BY <1>9, <2>4, <2>5
  <2>8. CASE g = h
    <3>1. i = j
      BY <2>3, <2>6, <2>7, <2>8
    <3> QED
      BY <2>8, <2>4, <2>5, <3>1
  <2>9. CASE r[g] < r[h]
    <3>1. ahead[g] + have[g] <= ahead[h]
      BY <1>5, <2>9
    <3> QED
      BY <2>3, <2>6, <2>7, <3>1
  <2>10. CASE r[h] < r[g]
    <3>1. ahead[h] + have[h] <= ahead[g]
      BY <1>5, <2>10
    <3> QED
      BY <2>3, <2>6, <2>7, <3>1
  <2> QED
    BY <1>4, <2>8, <2>9, <2>10
<1>10. number \in Injection(Units(plan, some), 1..n)
  <2>1. number \in [Units(plan, some) -> 1..n]
    BY <1>6, <1>8
  <2> QED
    BY <1>9, <2>1 DEF Injection, IsInjective
<1>11. IsFiniteSet(1..n) /\ Cardinality(1..n) = n
  <2>1. 1 \in Int /\ n \in Int
    OBVIOUS
  <2>2. IsFiniteSet(1..n) /\ Cardinality(1..n) = IF 1 > n THEN 0 ELSE n - 1 + 1
    BY <2>1, FS_Interval
  <2> QED
    BY <2>2
<1>12. TotalOver(plan, some) <= n
  BY <1>10, <1>11, FS_Injection DEF TotalOver
<1> QED
  BY <1>1, <1>3, <1>6, <1>12

VerbRecord == [stage : {"none", "look", "move"}, kind : {"none", "retrieve", "store"}, count : Nat,
               plan : [Goods -> Nat], todo : SUBSET Goods, moved : Nat, got : Nat]

OutcomeRecord == [how : {"none", "ok", "TARGET_NOT_FOUND", "MISSING_MATERIALS", "PATH_NOT_FOUND",
                         "CONTAINER_NOT_FOUND", "INVENTORY_FULL", "INTERNAL"},
                  count : Nat, total : Nat, got : Nat]

(* What was taken and what is still to be taken fit into the count.          *)
VerbFits(v) ==
  /\ v.moved = v.got /\ (v.stage = "look" => v.got = 0)
  /\ v.got + TotalOver(v.plan, v.todo) <= v.count

ToldWell(o) ==
  o.how # "none" =>
    /\ o.got <= o.count
    /\ o.how = "ok" => o.total = o.got
    /\ o.how \in {"TARGET_NOT_FOUND", "MISSING_MATERIALS", "PATH_NOT_FOUND", "CONTAINER_NOT_FOUND"} => o.got = 0

StoreInv ==
  /\ chest \in [Goods -> Nat] /\ packs \in [Body -> [Goods -> Nat]]
  /\ verb \in [Body -> VerbRecord] /\ outcome \in [Body -> OutcomeRecord]
  /\ \A b \in Body : VerbFits(verb[b]) /\ ToldWell(outcome[b])

LEMMA NoVerbFacts ==
  /\ NoVerb \in VerbRecord /\ VerbFits(NoVerb) /\ NoVerb.stage = "none"
  /\ Untold \in OutcomeRecord /\ Untold.how = "none" /\ TotalOver(NoneOf, {}) = 0 /\ NoneOf \in [Goods -> Nat]
<1>1. NoneOf \in [Goods -> Nat]
  BY DEF NoneOf
<1>2. Units(NoneOf, {}) = {}
  BY DEF Units
<1>3. TotalOver(NoneOf, {}) = 0
  BY <1>2, FS_EmptySet DEF TotalOver
<1>4. /\ NoVerb \in VerbRecord /\ NoVerb.stage = "none" /\ NoVerb.got = 0 /\ NoVerb.moved = 0 /\ NoVerb.count = 0
      /\ NoVerb.plan = NoneOf /\ NoVerb.todo = {}
  BY <1>1 DEF NoVerb, VerbRecord
<1>5. 0 + 0 <= 0
  OBVIOUS
<1>6. VerbFits(NoVerb)
  BY <1>3, <1>4, <1>5 DEF VerbFits
<1>7. Untold \in OutcomeRecord /\ Untold.how = "none"
  BY DEF Untold, OutcomeRecord
<1> QED
  BY <1>1, <1>3, <1>4, <1>6, <1>7

(* The verb of one villager goes on or ends.                                 *)
LEMMA VerbGoes ==
  ASSUME StoreInv, NEW b \in Body, NEW v \in VerbRecord, VerbFits(v), verb' = [verb EXCEPT ![b] = v],
         NEW o \in OutcomeRecord, ToldWell(o), outcome' = [outcome EXCEPT ![b] = o],
         chest' \in [Goods -> Nat], packs' \in [Body -> [Goods -> Nat]]
  PROVE  StoreInv'
<1>1. verb' \in [Body -> VerbRecord] /\ outcome' \in [Body -> OutcomeRecord]
  BY DEF StoreInv
<1>2. ASSUME NEW c \in Body PROVE VerbFits(verb'[c]) /\ ToldWell(outcome'[c])
  <2>1. verb'[c] = (IF c = b THEN v ELSE verb[c]) /\ outcome'[c] = (IF c = b THEN o ELSE outcome[c])
    BY DEF StoreInv
  <2>2. CASE c = b
    BY <2>1, <2>2
  <2>3. CASE c # b
    BY <2>1, <2>3 DEF StoreInv
  <2> QED
    BY <2>2, <2>3
<1> QED
  BY <1>1, <1>2 DEF StoreInv

LEMMA VerbFacts ==
  ASSUME StoreInv, NEW b \in Body
  PROVE  /\ verb[b] \in VerbRecord /\ VerbFits(verb[b]) /\ outcome[b] \in OutcomeRecord /\ ToldWell(outcome[b])
         /\ verb[b].got \in Nat /\ verb[b].moved \in Nat /\ verb[b].count \in Nat /\ verb[b].plan \in [Goods -> Nat]
         /\ verb[b].todo \in SUBSET Goods /\ IsFiniteSet(verb[b].todo) /\ TotalOver(verb[b].plan, verb[b].todo) \in Nat
         /\ verb[b].got <= verb[b].count /\ verb[b].got = verb[b].moved
<1>1. /\ verb[b] \in VerbRecord /\ VerbFits(verb[b]) /\ outcome[b] \in OutcomeRecord /\ ToldWell(outcome[b])
      /\ verb[b].got \in Nat /\ verb[b].moved \in Nat /\ verb[b].count \in Nat /\ verb[b].plan \in [Goods -> Nat]
      /\ verb[b].todo \in SUBSET Goods
  BY DEF StoreInv, VerbRecord
<1>2. IsFiniteSet(verb[b].todo)
  BY <1>1, StoresAssumption, FS_Subset
<1>3. TotalOver(verb[b].plan, verb[b].todo) \in Nat
  BY <1>1, <1>2, UnitsAreFinite
<1>4. verb[b].got + TotalOver(verb[b].plan, verb[b].todo) <= verb[b].count /\ verb[b].got = verb[b].moved
  BY <1>1 DEF VerbFits
<1> QED
  BY <1>1, <1>2, <1>3, <1>4

(* What a verb says when it ends.                                            *)
LEMMA TellsWell ==
  ASSUME StoreInv, NEW b \in Body, NEW how, Tells(b, how),
         how \in {"ok", "INVENTORY_FULL"} \/
           (how \in {"TARGET_NOT_FOUND", "MISSING_MATERIALS", "PATH_NOT_FOUND", "CONTAINER_NOT_FOUND"} /\ verb[b].got = 0),
         UNCHANGED <<chest, packs>>
  PROVE  StoreInv'
<1>1. PICK o : o = [how |-> how, count |-> verb[b].count, total |-> verb[b].moved, got |-> verb[b].got]
  OBVIOUS
<1>2. /\ verb[b].got \in Nat /\ verb[b].moved \in Nat /\ verb[b].count \in Nat
      /\ verb[b].got <= verb[b].count /\ verb[b].got = verb[b].moved
  BY VerbFacts
<1>3. o \in OutcomeRecord /\ o.how = how /\ o.count = verb[b].count /\ o.total = verb[b].moved /\ o.got = verb[b].got
  BY <1>1, <1>2 DEF OutcomeRecord
<1>4. ToldWell(o)
  BY <1>2, <1>3 DEF ToldWell
<1>5. verb' = [verb EXCEPT ![b] = NoVerb] /\ outcome' = [outcome EXCEPT ![b] = o]
  BY <1>1 DEF Tells
<1>6. chest' \in [Goods -> Nat] /\ packs' \in [Body -> [Goods -> Nat]]
  BY DEF StoreInv
<1> QED
  BY <1>3, <1>4, <1>5, <1>6, NoVerbFacts, VerbGoes

LEMMA StoreBegins == StoreInit => StoreInv
<1> SUFFICES ASSUME StoreInit PROVE StoreInv
  OBVIOUS
<1>1. 0..Stock \in SUBSET Nat
  BY StoresAssumption
<1>2. chest \in [Goods -> 0..Stock] /\ packs \in [Body -> [Goods -> 0..Stock]]
  BY DEF StoreInit
<1>3. chest \in [Goods -> Nat] /\ packs \in [Body -> [Goods -> Nat]]
  BY <1>1, <1>2
<1>4. \A b \in Body : verb[b] = NoVerb /\ outcome[b] = Untold
  BY DEF StoreInit
<1>5. verb \in [Body -> VerbRecord] /\ outcome \in [Body -> OutcomeRecord]
  BY NoVerbFacts DEF StoreInit
<1> QED
  BY <1>3, <1>4, <1>5, NoVerbFacts DEF StoreInv, ToldWell

(* What changes sides was there.                                             *)
LEMMA TransferFits ==
  ASSUME StoreInv, NEW b \in Body, NEW g \in Goods, NEW m \in Nat, m <= Given(b, g), Transfer(b, g, m)
  PROVE  chest' \in [Goods -> Nat] /\ packs' \in [Body -> [Goods -> Nat]]
<1>1. /\ chest \in [Goods -> Nat] /\ packs \in [Body -> [Goods -> Nat]]
      /\ chest[g] \in Nat /\ packs[b] \in [Goods -> Nat] /\ packs[b][g] \in Nat
  BY DEF StoreInv
<1>2. verb[b].plan[g] \in Nat
  BY VerbFacts
<1>3. CASE verb[b].kind = "retrieve"
  <2>1. m <= chest[g]
    <3>1. Given(b, g) = Lesser(verb[b].plan[g], chest[g])
      BY <1>3 DEF Given
    <3>2. Given(b, g) <= chest[g] /\ Given(b, g) \in Nat
      BY <1>1, <1>2, <3>1, LesserFacts
    <3> QED
      BY <1>1, <3>2
  <2>2. chest' = [chest EXCEPT ![g] = chest[g] - m] /\ packs' = [packs EXCEPT ![b][g] = packs[b][g] + m]
    BY <1>3 DEF Transfer
  <2>3. chest[g] - m \in Nat /\ packs[b][g] + m \in Nat
    BY <1>1, <2>1
  <2>4. [packs[b] EXCEPT ![g] = packs[b][g] + m] \in [Goods -> Nat]
    BY <1>1, <2>3
  <2> QED
    BY <1>1, <2>2, <2>3, <2>4
<1>4. CASE verb[b].kind # "retrieve"
  <2>1. m <= packs[b][g]
    <3>1. Given(b, g) = Lesser(verb[b].plan[g], packs[b][g])
      BY <1>4 DEF Given
    <3>2. Given(b, g) <= packs[b][g] /\ Given(b, g) \in Nat
      BY <1>1, <1>2, <3>1, LesserFacts
    <3> QED
      BY <1>1, <3>2
  <2>2. chest' = [chest EXCEPT ![g] = chest[g] + m] /\ packs' = [packs EXCEPT ![b][g] = packs[b][g] - m]
    BY <1>4 DEF Transfer
  <2>3. chest[g] + m \in Nat /\ packs[b][g] - m \in Nat
    BY <1>1, <2>1
  <2>4. [packs[b] EXCEPT ![g] = packs[b][g] - m] \in [Goods -> Nat]
    BY <1>1, <2>3
  <2> QED
    BY <1>1, <2>2, <2>3, <2>4
<1> QED
  BY <1>3, <1>4

(* One of the goods still to be taken, and what it leaves of the count.      *)
LEMMA NextFits ==
  ASSUME StoreInv, NEW b \in Body, NEW g \in Goods, g \in verb[b].todo
  PROVE  /\ Given(b, g) \in Nat /\ verb[b].got + Given(b, g) \in Nat
         /\ TotalOver(verb[b].plan, verb[b].todo \ {g}) \in Nat
         /\ verb[b].got + Given(b, g) + TotalOver(verb[b].plan, verb[b].todo \ {g}) <= verb[b].count
         /\ verb[b].got + Given(b, g) <= verb[b].count
<1>1. /\ verb[b].got \in Nat /\ verb[b].count \in Nat /\ verb[b].plan \in [Goods -> Nat]
      /\ verb[b].todo \in SUBSET Goods /\ IsFiniteSet(verb[b].todo) /\ VerbFits(verb[b])
  BY VerbFacts
<1>2. verb[b].plan[g] \in Nat /\ chest[g] \in Nat /\ packs[b][g] \in Nat
  BY <1>1 DEF StoreInv
<1>3. Given(b, g) \in Nat /\ Given(b, g) <= verb[b].plan[g]
  BY <1>2, LesserFacts DEF Given
<1>4. PICK todo, plan : todo = verb[b].todo /\ plan = verb[b].plan
  OBVIOUS
<1>5. IsFiniteSet(todo) /\ g \in todo /\ \A x \in todo : plan[x] \in Nat
  BY <1>1, <1>4
<1>6. /\ TotalOver(plan, todo) = TotalOver(plan, todo \ {g}) + plan[g]
      /\ TotalOver(plan, todo) \in Nat /\ TotalOver(plan, todo \ {g}) \in Nat
  BY <1>5, TotalWithout
<1>7. verb[b].got + TotalOver(plan, todo) <= verb[b].count
  BY <1>1, <1>4 DEF VerbFits
<1>8. /\ verb[b].got + Given(b, g) \in Nat
      /\ verb[b].got + Given(b, g) + TotalOver(plan, todo \ {g}) <= verb[b].count
      /\ verb[b].got + Given(b, g) <= verb[b].count
  BY <1>1, <1>2, <1>3, <1>4, <1>6, <1>7
<1> QED
  BY <1>3, <1>4, <1>6, <1>8

LEMMA RetrieveKeeps == ASSUME StoreInv, NEW b \in Body, Retrieve(b) PROVE StoreInv'
<1>1. PICK n \in 1..MaxAsk : verb' = [verb EXCEPT ![b] = [NoVerb EXCEPT !.stage = "look", !.kind = "retrieve", !.count = n]]
  BY DEF Retrieve
<1>2. n \in Nat
  BY StoresAssumption
<1>3. PICK v : v = [NoVerb EXCEPT !.stage = "look", !.kind = "retrieve", !.count = n]
  OBVIOUS
<1>4. v \in VerbRecord
  BY <1>2, <1>3, NoVerbFacts DEF VerbRecord
<1>5. v.got = 0 /\ v.moved = 0 /\ v.plan = NoneOf /\ v.todo = {} /\ v.count = n
  BY <1>3 DEF NoVerb
<1>6. 0 + 0 <= n
  BY <1>2
<1>7. VerbFits(v)
  BY <1>5, <1>6, NoVerbFacts DEF VerbFits
<1>8. ToldWell(Untold) /\ outcome' = [outcome EXCEPT ![b] = Untold]
  BY NoVerbFacts DEF ToldWell, Retrieve
<1>9. chest' \in [Goods -> Nat] /\ packs' \in [Body -> [Goods -> Nat]]
  BY DEF StoreInv, Retrieve
<1> QED
  BY <1>1, <1>3, <1>4, <1>7, <1>8, <1>9, NoVerbFacts, VerbGoes

LEMMA LooksKeeps == ASSUME StoreInv, NEW b \in Body, Looks(b) PROVE StoreInv'
<1>1. verb[b].stage = "look" /\ UNCHANGED <<chest, packs>>
  BY DEF Looks
<1>2. /\ verb[b] \in VerbRecord /\ verb[b].got = 0 /\ verb[b].moved = 0 /\ verb[b].count \in Nat
      /\ outcome[b] \in OutcomeRecord /\ ToldWell(outcome[b])
  BY <1>1, VerbFacts DEF VerbFits
<1>3. CASE Tells(b, "TARGET_NOT_FOUND")
  BY <1>1, <1>2, <1>3, TellsWell
<1>4. CASE Tells(b, "INVENTORY_FULL")
  BY <1>1, <1>2, <1>4, TellsWell
<1>5. CASE /\ \E r \in Rankings(chest) :
                LET p == Planned(chest, verb[b].count, r)
                IN  verb' = [verb EXCEPT ![b].stage = "move", ![b].plan = p, ![b].todo = {g \in Goods : p[g] > 0}]
           /\ UNCHANGED outcome
  <2>1. PICK r \in Rankings(chest) :
          verb' = [verb EXCEPT ![b].stage = "move", ![b].plan = Planned(chest, verb[b].count, r),
                               ![b].todo = {g \in Goods : Planned(chest, verb[b].count, r)[g] > 0}]
    BY <1>5
  <2>2. PICK p, some : p = Planned(chest, verb[b].count, r) /\ some = {g \in Goods : p[g] > 0}
    OBVIOUS
  <2>3. p \in [Goods -> Nat] /\ TotalOver(p, some) <= verb[b].count
    <3>1. chest \in [Goods -> Nat]
      BY DEF StoreInv
    <3> QED
      BY <1>2, <2>2, <3>1, PlanFits
  <2>4. some \in SUBSET Goods
    BY <2>2
  <2>5. PICK v : v = [verb[b] EXCEPT !.stage = "move", !.plan = p, !.todo = some]
    OBVIOUS
  <2>6. /\ v \in VerbRecord /\ v.stage = "move" /\ v.plan = p /\ v.todo = some
        /\ v.got = 0 /\ v.moved = 0 /\ v.count = verb[b].count
    BY <1>2, <2>3, <2>4, <2>5 DEF VerbRecord
  <2>7. TotalOver(p, some) \in Nat
    BY <2>3, <2>4, StoresAssumption, FS_Subset, UnitsAreFinite
  <2>8. 0 + TotalOver(p, some) <= verb[b].count
    BY <2>3, <2>7
  <2>9. VerbFits(v)
    BY <2>6, <2>8 DEF VerbFits
  <2>10. verb' = [verb EXCEPT ![b] = v] /\ outcome' = [outcome EXCEPT ![b] = outcome[b]]
    BY <1>5, <2>1, <2>2, <2>5 DEF StoreInv
  <2>11. chest' \in [Goods -> Nat] /\ packs' \in [Body -> [Goods -> Nat]]
    BY <1>1 DEF StoreInv
  <2> QED
    BY <1>2, <2>6, <2>9, <2>10, <2>11, VerbGoes
<1> QED
  BY <1>3, <1>4, <1>5 DEF Looks

LEMMA StoreKeeps == ASSUME StoreInv, NEW b \in Body, Store(b) PROVE StoreInv'
<1>1. chest' \in [Goods -> Nat] /\ packs' \in [Body -> [Goods -> Nat]]
  BY DEF StoreInv, Store
<1>2. CASE outcome' = [outcome EXCEPT ![b] = [Untold EXCEPT !.how = "MISSING_MATERIALS"]] /\ UNCHANGED verb
  <2>1. PICK o : o = [Untold EXCEPT !.how = "MISSING_MATERIALS"]
    OBVIOUS
  <2>2. o \in OutcomeRecord /\ o.how = "MISSING_MATERIALS" /\ o.got = 0 /\ o.count = 0
    BY <2>1 DEF Untold, OutcomeRecord
  <2>3. ToldWell(o)
    BY <2>2 DEF ToldWell
  <2>4. verb[b] \in VerbRecord /\ VerbFits(verb[b]) /\ verb' = [verb EXCEPT ![b] = verb[b]]
    BY <1>2, VerbFacts DEF StoreInv
  <2> QED
    BY <1>1, <1>2, <2>1, <2>2, <2>3, <2>4, VerbGoes
<1>3. CASE /\ \E n \in 1..MaxAsk, r \in Rankings(packs[b]) :
                LET p == Planned(packs[b], n, r)
                IN  verb' = [verb EXCEPT ![b] = [NoVerb EXCEPT !.stage = "move", !.kind = "store", !.count = n,
                                                   !.plan = p, !.todo = {g \in Goods : p[g] > 0}]]
           /\ outcome' = [outcome EXCEPT ![b] = Untold]
  <2>1. PICK n \in 1..MaxAsk, r \in Rankings(packs[b]) :
          verb' = [verb EXCEPT ![b] = [NoVerb EXCEPT !.stage = "move", !.kind = "store", !.count = n,
                                         !.plan = Planned(packs[b], n, r),
                                         !.todo = {g \in Goods : Planned(packs[b], n, r)[g] > 0}]]
    BY <1>3
  <2>2. PICK p, some : p = Planned(packs[b], n, r) /\ some = {g \in Goods : p[g] > 0}
    OBVIOUS
  <2>3. n \in Nat
    BY StoresAssumption
  <2>4. p \in [Goods -> Nat] /\ TotalOver(p, some) <= n
    <3>1. packs[b] \in [Goods -> Nat]
      BY DEF StoreInv
    <3> QED
      BY <2>2, <2>3, <3>1, PlanFits
  <2>5. some \in SUBSET Goods
    BY <2>2
  <2>6. PICK v : v = [NoVerb EXCEPT !.stage = "move", !.kind = "store", !.count = n, !.plan = p, !.todo = some]
    OBVIOUS
  <2>7. v \in VerbRecord
    BY <2>3, <2>4, <2>5, <2>6, NoVerbFacts DEF VerbRecord
  <2>8. v.stage = "move" /\ v.plan = p /\ v.todo = some /\ v.got = 0 /\ v.moved = 0 /\ v.count = n
    BY <2>6 DEF NoVerb
  <2>9. TotalOver(p, some) \in Nat
    BY <2>4, <2>5, StoresAssumption, FS_Subset, UnitsAreFinite
  <2>10. 0 + TotalOver(p, some) <= n
    BY <2>3, <2>4, <2>9
  <2>11. VerbFits(v)
    BY <2>8, <2>10 DEF VerbFits
  <2>12. verb' = [verb EXCEPT ![b] = v] /\ outcome' = [outcome EXCEPT ![b] = Untold] /\ ToldWell(Untold)
    BY <1>3, <2>1, <2>2, <2>6, NoVerbFacts DEF ToldWell
  <2> QED
    BY <1>1, <2>7, <2>11, <2>12, NoVerbFacts, VerbGoes
<1> QED
  BY <1>2, <1>3 DEF Store

LEMMA MovesKeeps == ASSUME StoreInv, NEW b \in Body, Moves(b) PROVE StoreInv'
<1>1. PICK g \in Goods :
        /\ DeepestNext(b, g)
        /\ Transfer(b, g, Given(b, g))
        /\ verb' = [verb EXCEPT ![b].todo = @ \ {g}, ![b].moved = @ + Credited(b, g), ![b].got = @ + Given(b, g)]
  BY DEF Moves
<1>2. g \in verb[b].todo
  BY <1>1 DEF DeepestNext
<1>3. /\ Given(b, g) \in Nat /\ verb[b].got + Given(b, g) \in Nat
      /\ verb[b].got + Given(b, g) + TotalOver(verb[b].plan, verb[b].todo \ {g}) <= verb[b].count
  BY <1>2, NextFits
<1>4. Given(b, g) <= Given(b, g)
  BY <1>3
<1>5. chest' \in [Goods -> Nat] /\ packs' \in [Body -> [Goods -> Nat]]
  BY <1>1, <1>3, <1>4, TransferFits
<1>6. PICK got : got = verb[b].got + Given(b, g)
  OBVIOUS
<1>7. PICK v : v = [verb[b] EXCEPT !.todo = verb[b].todo \ {g}, !.moved = got, !.got = got]
  OBVIOUS
<1>8. /\ verb[b] \in VerbRecord /\ verb[b].got = verb[b].moved /\ VerbFits(verb[b])
      /\ outcome[b] \in OutcomeRecord /\ ToldWell(outcome[b])
  BY VerbFacts
<1>9. /\ v \in VerbRecord /\ v.stage = verb[b].stage /\ v.plan = verb[b].plan /\ v.todo = verb[b].todo \ {g}
      /\ v.moved = got /\ v.got = got /\ v.count = verb[b].count
  BY <1>3, <1>6, <1>7, <1>8 DEF VerbRecord
<1>10. v.stage # "look"
  BY <1>9 DEF Moves
<1>11. VerbFits(v)
  BY <1>3, <1>6, <1>9, <1>10 DEF VerbFits
<1>12. verb' = [verb EXCEPT ![b] = v]
  BY <1>1, <1>6, <1>7, <1>8 DEF Credited
<1>13. outcome' = [outcome EXCEPT ![b] = outcome[b]]
  BY DEF Moves, StoreInv
<1> QED
  BY <1>5, <1>8, <1>9, <1>11, <1>12, <1>13, VerbGoes

LEMMA ThrowsKeeps == ASSUME StoreInv, NEW b \in Body, Throws(b) PROVE StoreInv'
<1>1. PICK g \in Goods, m \in 0..MaxAsk :
        /\ DeepestNext(b, g) /\ m < Given(b, g)
        /\ Transfer(b, g, m)
        /\ verb' = [verb EXCEPT ![b] = NoVerb]
        /\ outcome' = [outcome EXCEPT ![b] = [how |-> "INTERNAL", count |-> verb[b].count,
                                        total |-> 0, got |-> verb[b].got + m]]
  BY DEF Throws
<1>2. g \in verb[b].todo
  BY <1>1 DEF DeepestNext
<1>3. Given(b, g) \in Nat /\ verb[b].got + Given(b, g) <= verb[b].count
  BY <1>2, NextFits
<1>4. m \in Nat /\ m <= Given(b, g)
  BY <1>1, <1>3, StoresAssumption
<1>5. chest' \in [Goods -> Nat] /\ packs' \in [Body -> [Goods -> Nat]]
  BY <1>1, <1>4, TransferFits
<1>6. verb[b].got \in Nat /\ verb[b].count \in Nat
  BY VerbFacts
<1>7. verb[b].got + m \in Nat /\ verb[b].got + m <= verb[b].count
  BY <1>3, <1>4, <1>6
<1>8. PICK o : o = [how |-> "INTERNAL", count |-> verb[b].count, total |-> 0, got |-> verb[b].got + m]
  OBVIOUS
<1>9. o \in OutcomeRecord /\ o.how = "INTERNAL" /\ o.count = verb[b].count /\ o.got = verb[b].got + m
  BY <1>6, <1>7, <1>8 DEF OutcomeRecord
<1>10. ToldWell(o)
  BY <1>7, <1>9 DEF ToldWell
<1> QED
  BY <1>1, <1>5, <1>8, <1>9, <1>10, NoVerbFacts, VerbGoes

LEMMA StoreSteps == StoreInv /\ [StoreNext]_storeVars => StoreInv'
<1> SUFFICES ASSUME StoreInv, [StoreNext]_storeVars PROVE StoreInv'
  OBVIOUS
<1>1. ASSUME NEW b \in Body, Retrieve(b) PROVE StoreInv'
  BY <1>1, RetrieveKeeps
<1>2. ASSUME NEW b \in Body, Looks(b) PROVE StoreInv'
  BY <1>2, LooksKeeps
<1>3. ASSUME NEW b \in Body, Store(b) PROVE StoreInv'
  BY <1>3, StoreKeeps
<1>4. ASSUME NEW b \in Body, ApproachFails(b) PROVE StoreInv'
  <2>1. PICK how \in {"PATH_NOT_FOUND", "CONTAINER_NOT_FOUND"} : Tells(b, how)
    BY <1>4 DEF ApproachFails
  <2>2. verb[b].got = 0 /\ UNCHANGED <<chest, packs>>
    BY <1>4 DEF ApproachFails
  <2> QED
    BY <2>1, <2>2, TellsWell
<1>5. ASSUME NEW b \in Body, Moves(b) PROVE StoreInv'
  BY <1>5, MovesKeeps
<1>6. ASSUME NEW b \in Body, Throws(b) PROVE StoreInv'
  BY <1>6, ThrowsKeeps
<1>7. ASSUME NEW b \in Body, FillsUp(b) PROVE StoreInv'
  <2>1. Tells(b, "INVENTORY_FULL") /\ UNCHANGED <<chest, packs>>
    BY <1>7 DEF FillsUp
  <2> QED
    BY <2>1, TellsWell
<1>8. ASSUME NEW b \in Body, VerbEnds(b) PROVE StoreInv'
  <2>1. PICK how : /\ how = (IF verb[b].moved > 0 THEN "ok"
                             ELSE IF verb[b].kind = "retrieve" THEN "TARGET_NOT_FOUND" ELSE "MISSING_MATERIALS")
                   /\ Tells(b, how)
    BY <1>8 DEF VerbEnds
  <2>2. verb[b].got \in Nat /\ verb[b].got = verb[b].moved
    BY VerbFacts
  <2>3. how = "ok" \/ (how \in {"TARGET_NOT_FOUND", "MISSING_MATERIALS"} /\ ~(verb[b].moved > 0))
    BY <2>1
  <2>4. ~(verb[b].moved > 0) => verb[b].got = 0
    BY <2>2
  <2>5. UNCHANGED <<chest, packs>>
    BY <1>8 DEF VerbEnds
  <2> QED
    BY <2>1, <2>3, <2>4, <2>5, TellsWell
<1>9. CASE UNCHANGED storeVars
  BY <1>9 DEF storeVars, StoreInv, VerbFits, ToldWell
<1> QED
  BY <1>1, <1>2, <1>3, <1>4, <1>5, <1>6, <1>7, <1>8, <1>9 DEF StoreNext

LEMMA StoreMeans == StoreInv => StoreTypeOK /\ MovesWhatItTells
<1> SUFFICES ASSUME StoreInv PROVE StoreTypeOK /\ MovesWhatItTells
  OBVIOUS
<1>1. chest \in [Goods -> Nat] /\ packs \in [Body -> [Goods -> Nat]]
  BY DEF StoreInv
<1>2. ASSUME NEW b \in Body
      PROVE  /\ verb[b].stage \in {"none", "look", "move"} /\ verb[b].plan \in [Goods -> Nat]
             /\ verb[b].todo \subseteq Goods
             /\ ToldWell(outcome[b])
  <2>1. verb[b] \in VerbRecord /\ ToldWell(outcome[b])
    BY DEF StoreInv
  <2> QED
    BY <2>1 DEF VerbRecord
<1> QED
  BY <1>1, <1>2 DEF StoreTypeOK, MovesWhatItTells, ToldWell

(* However many villagers share the chest, and however their transfers       *)
(* interleave, fill up or throw: none of them moves more than it was asked   *)
(* to, one that ends well says what it moved, and one refused for want of    *)
(* the goods, the chest or the way has moved nothing (withContainer and the  *)
(* store and retrieve verbs).                                                *)
THEOREM StoresAlwaysTell == StoreInit /\ [][StoreNext]_storeVars => [](StoreTypeOK /\ MovesWhatItTells)
<1>1. StoreInv /\ [StoreNext]_storeVars => StoreInv'
  BY StoreSteps
<1> QED
  BY StoreBegins, <1>1, StoreMeans, PTL

-----------------------------------------------------------------------------
(* The skills.  A plan that waits for another is answered by it alone, since *)
(* whoever is called ranks below its caller: no skill is ever entered twice, *)
(* and an answer that its plan has no step for goes up with a code that each *)
(* of the plans on its way names.                                            *)

\* The skills that others call, and those that call one.
Called  == {"craftPlanks", "craftSticks", "craftCraftingTable"}
Callers == {"craftSticks", "craftCraftingTable", "craftWoodenPickaxe"}
SkillRank(s) == IF s = "craftPlanks" THEN 0 ELSE IF s \in Called THEN 1 ELSE 2

PlainCalls == {"mine", "craft", "bench", "recipe", "place", "smelt", "kill", "explore", "recover",
               "equip", "count", "find"}

\* What can come back of a call that does not succeed.
TripFails == {"RESOURCE_NOT_FOUND", "PATH_NOT_FOUND", "TOOL_REQUIRED", "TIMEOUT", "MISSING_MATERIALS", "INTERNAL"}
Surface(c) ==
  IF c = "mine" THEN {"RESOURCE_NOT_FOUND", "PATH_NOT_FOUND", "TOOL_REQUIRED", "TIMEOUT"}
  ELSE IF c = "smelt" THEN {"MISSING_MATERIALS", "RESOURCE_NOT_FOUND", "PATH_NOT_FOUND", "TIMEOUT"}
  ELSE IF c = "kill" THEN {"TARGET_NOT_FOUND", "TIMEOUT", "INTERNAL"}
  ELSE IF c = "explore" THEN {"PATH_NOT_FOUND", "TIMEOUT", "INTERNAL"}
  ELSE IF c = "recover" THEN {"PATH_NOT_FOUND", "TARGET_NOT_FOUND", "INTERNAL"}
  ELSE IF c = "craft" THEN {"MISSING_MATERIALS", "INTERNAL"}
  ELSE IF c = "bench" THEN {"MISSING_MATERIALS", "INTERNAL", "RESOURCE_NOT_FOUND", "PATH_NOT_FOUND"}
  ELSE IF c = "recipe"
       THEN {"MISSING_MATERIALS", "INTERNAL", "RESOURCE_NOT_FOUND", "PATH_NOT_FOUND", "RECIPE_UNAVAILABLE"}
  ELSE IF c = "place" THEN {"MISSING_MATERIALS", "PATH_NOT_FOUND", "PLACE_FAILED", "INTERNAL"}
  ELSE IF c = "equip" THEN {"RESOURCE_NOT_FOUND", "TOOL_REQUIRED"}
  ELSE IF c = "count" THEN {"short"}
  ELSE IF c = "find" THEN {"TARGET_NOT_FOUND"}
  ELSE TripFails

Promised(s) == Library[s].codes \cup Undeclared(s)
Labels(s)   == DOMAIN Library[s].steps \cup {Done}

\* A step goes where there is one; what it does not spare is promised; a miner
\* comes to its end by mining.
StepFits(s, p) ==
  /\ p.call \in PlainCalls \cup Called
  /\ p.next \in Labels(s) /\ p.detour \in Labels(s) /\ (\A c \in DOMAIN p.mends : p.mends[c] \in Labels(s))
  /\ \A c \in Surface(p.call) : c = p.spares \/ c \in Promised(s)
  /\ s \in Called => (\A c \in Surface(p.call) : c = p.spares \/ c \in TripFails)
  /\ p.call \in Called => s \in Callers /\ SkillRank(p.call) < SkillRank(s)
  /\ s \in Miners => p.call \in {"mine", "equip"} /\ DOMAIN p.mends = {}
  /\ s \in Miners \ Ores => (p.next = Done => p.call = "mine") /\ (p.detour = Done => p.spares = "none")
  /\ s \in Tellers \ Ores => (p.next # Done => p.call = "equip")
RefusesAsPromised(s) == Library[s].refuses # "none" => Library[s].refuses \in Promised(s) \cap Codes
SkillFits(s) ==
  /\ 1 \in DOMAIN Library[s].steps /\ DOMAIN Library[s].steps \subseteq Nat \ {0}
  /\ \A i \in DOMAIN Library[s].steps : StepFits(s, Library[s].steps[i])
  /\ RefusesAsPromised(s)

Says  == {"none", "ok", "short"} \cup Codes
Kinds == {"none", "seek", "sweep", "smelt", "fight", "loot", "explore", "recover"}
InFlights == [what : Kinds, goal : Int, got : Nat, left : Nat, away : BOOLEAN]
Activations ==
  [on : BOOLEAN, caller : Callers \cup {"registry"}, at : Nat, mended : SUBSET Says, want : Nat, haul : Nat]

SkillsTyped ==
  /\ running \in SkillName \cup {"nobody"}
  /\ frames \in [SkillName -> Activations]
  /\ primitive \in InFlights
  /\ reply \in [how : Says, got : Nat]
  /\ booked \in [skill : SkillName \cup {"none"}, how : Says, told : Nat, entered : Nat]
  /\ held \in Nat /\ fallen \in Nat /\ baseline \in Nat /\ entered \in Nat
  /\ mined \in BOOLEAN /\ engaged \in BOOLEAN
  /\ hearth \in [out : Nat, cooking : Nat, found : Nat]

CallAt(s) == Library[s].steps[frames[s].at].call

\* An activation stands at a step or at the end of its plan, wants more until
\* it is there, and has told what it has.
FrameFits(s) ==
  frames[s].on =>
    /\ frames[s].at \in Labels(s)
    /\ frames[s].at # Done => frames[s].haul < frames[s].want
    /\ s \notin Tellers => frames[s].haul = 0
    /\ (s \in Miners \ Ores /\ frames[s].at = Done) => frames[s].haul > 0
\* Whoever was called by a plan is what that plan waits for.
Linked(s) ==
  (frames[s].on /\ frames[s].caller # "registry") =>
    /\ s \in Called /\ frames[s].caller \in Callers /\ frames[frames[s].caller].on
    /\ frames[frames[s].caller].at # Done /\ CallAt(frames[s].caller) = s
\* Whoever is not innermost has called somebody.
Waits(t) == (frames[t].on /\ t # running) => \E s \in SkillName : frames[s].on /\ frames[s].caller = t
StackFits ==
  /\ \A s \in SkillName : FrameFits(s) /\ Linked(s) /\ Waits(s)
  /\ running = "nobody" => (\A s \in SkillName : ~frames[s].on)
  /\ running # "nobody" => frames[running].on

Asked(w) == IF w \in {"seek", "sweep"} THEN "mine" ELSE IF w = "smelt" THEN "smelt"
            ELSE IF w \in {"fight", "loot"} THEN "kill" ELSE IF w = "explore" THEN "explore"
            ELSE "recover"
PrimitiveFits ==
  primitive # Untouched =>
    /\ primitive.what \in {"seek", "sweep", "smelt", "fight", "loot", "explore", "recover"}
    /\ running # "nobody" /\ frames[running].at # Done /\ CallAt(running) = Asked(primitive.what)
    /\ primitive.what \in {"seek", "sweep"} => primitive.goal >= 1
ReplyFits ==
  reply # NoReply =>
    /\ running # "nobody" /\ frames[running].at # Done /\ primitive = Untouched
    /\ reply.how \in {"ok"} \cup Surface(CallAt(running))
    /\ reply.got > 0 => CallAt(running) \in {"mine", "kill", "recover"}
    /\ (CallAt(running) = "mine" /\ reply.how = "ok") => reply.got > 0
\* What the sweep of the block just dug would add is no more than came in since.
CountFits ==
  running \in Miners =>
    frames[running].haul + primitive.got + reply.got + (IF primitive.what = "sweep" THEN Gain ELSE 0) <= entered
HearthFits ==
  primitive.what = "smelt" => primitive.got + hearth.out + hearth.cooking <= primitive.left + hearth.found

\* The stack, what is in flight or answered on top of it, and the two sums:
\* what a miner tells or will tell came in with this invocation, and what went
\* into the furnace is in it still, or was taken.
SkillInv == /\ SkillsTyped /\ StackFits /\ PrimitiveFits /\ ReplyFits /\ CountFits /\ HearthFits
            /\ Disengages /\ FailsAsPromised /\ CountsWhatItTook

LEMMA SkillNames == SkillName =
  {"mineWoodLog", "craftPlanks", "craftSticks", "craftCraftingTable", "craftWoodenPickaxe", "craftWoodenSword",
   "collectCobblestone", "craftStonePickaxe", "craftStoneAxe", "craftStoneSword", "mineIronOre", "mineCoalOre",
   "craftFurnace", "craftIronPickaxe", "smeltIronOre", "cookMeat", "killOnePig", "mineBlock", "craftItem",
   "placeItem", "smeltItem", "killMob", "exploreUntil", "givePlacedItemBack"}
  BY DEF SkillName, Library

LEMMA SpeciesAreSome == Species \in Nat /\ Species >= 1
  BY SkillAssumption

LEMMA SticksAndTableFit == \A s \in {"craftSticks", "craftCraftingTable"} : SkillFits(s)
<1> SUFFICES ASSUME NEW s \in {"craftSticks", "craftCraftingTable"} PROVE SkillFits(s)
  OBVIOUS
<1>1. /\ Library[s].steps =
           <<Sparing("craft", Done, "MISSING_MATERIALS", 2), Step("craftPlanks", 3), Step("craft", Done)>>
      /\ Library[s].codes = TripCodes \cup {"RECIPE_UNAVAILABLE", "MISSING_MATERIALS"}
      /\ Library[s].refuses = "none"
  BY DEF Library, Plan, CraftSticks, CraftCraftingTable
<1>2. DOMAIN Library[s].steps = 1..3 /\ Labels(s) = 0..3
  BY <1>1 DEF Labels, Done
<1>3. StepFits(s, Sparing("craft", Done, "MISSING_MATERIALS", 2))
  BY <1>1, <1>2 DEF StepFits, Step, Sparing, Mending, Surface, Promised, Undeclared, TripCodes, TripFails,
     Codes, Called, Callers, SkillRank, PlainCalls, Miners, Ores, Tellers, Done
<1>4. StepFits(s, Step("craftPlanks", 3))
  BY <1>1, <1>2 DEF StepFits, Step, Sparing, Mending, Surface, Promised, Undeclared, TripCodes, TripFails,
     Codes, Called, Callers, SkillRank, PlainCalls, Miners, Ores, Tellers, Done
<1>5. StepFits(s, Step("craft", Done))
  BY <1>1, <1>2 DEF StepFits, Step, Sparing, Mending, Surface, Promised, Undeclared, TripCodes, TripFails,
     Codes, Called, Callers, SkillRank, PlainCalls, Miners, Ores, Tellers, Done
<1>6. RefusesAsPromised(s)
  BY <1>1 DEF RefusesAsPromised, Promised, TripCodes, Codes
<1>7. ASSUME NEW i \in DOMAIN Library[s].steps
      PROVE  StepFits(s, Library[s].steps[i])
  <2>1. i = 1 \/ i = 2 \/ i = 3
    BY <1>2
  <2> QED
    BY <2>1, <1>1, <1>3, <1>4, <1>5
<1> QED
  BY <1>2, <1>6, <1>7 DEF SkillFits

LEMMA CraftWoodenPickaxeFits == SkillFits("craftWoodenPickaxe")
<1>1. /\ Library["craftWoodenPickaxe"].steps =
           <<Step("craftPlanks", 2), Step("craftSticks", 3), Step("craftCraftingTable", 4), Step("place", 5),
             Step("bench", Done)>>
      /\ Library["craftWoodenPickaxe"].codes =
           TripCodes \cup {"RECIPE_UNAVAILABLE", "MISSING_MATERIALS", "PLACE_FAILED"}
      /\ Library["craftWoodenPickaxe"].refuses = "none"
  BY DEF Library, Plan, CraftWoodenPickaxe
<1>2. DOMAIN Library["craftWoodenPickaxe"].steps = 1..5 /\ Labels("craftWoodenPickaxe") = 0..5
  BY <1>1 DEF Labels, Done
<1>3. StepFits("craftWoodenPickaxe", Step("craftPlanks", 2))
  BY <1>1, <1>2 DEF StepFits, Step, Sparing, Mending, Surface, Promised, Undeclared, TripCodes, TripFails,
     Codes, Called, Callers, SkillRank, PlainCalls, Miners, Ores, Tellers, Done
<1>4. StepFits("craftWoodenPickaxe", Step("craftSticks", 3))
  BY <1>1, <1>2 DEF StepFits, Step, Sparing, Mending, Surface, Promised, Undeclared, TripCodes, TripFails,
     Codes, Called, Callers, SkillRank, PlainCalls, Miners, Ores, Tellers, Done
<1>5. StepFits("craftWoodenPickaxe", Step("craftCraftingTable", 4))
  BY <1>1, <1>2 DEF StepFits, Step, Sparing, Mending, Surface, Promised, Undeclared, TripCodes, TripFails,
     Codes, Called, Callers, SkillRank, PlainCalls, Miners, Ores, Tellers, Done
<1>6. StepFits("craftWoodenPickaxe", Step("place", 5))
  BY <1>1, <1>2 DEF StepFits, Step, Sparing, Mending, Surface, Promised, Undeclared, TripCodes, TripFails,
     Codes, Called, Callers, SkillRank, PlainCalls, Miners, Ores, Tellers, Done
<1>7. StepFits("craftWoodenPickaxe", Step("bench", Done))
  BY <1>1, <1>2 DEF StepFits, Step, Sparing, Mending, Surface, Promised, Undeclared, TripCodes, TripFails,
     Codes, Called, Callers, SkillRank, PlainCalls, Miners, Ores, Tellers, Done
<1>8. RefusesAsPromised("craftWoodenPickaxe")
  BY <1>1 DEF RefusesAsPromised, Promised, TripCodes, Codes
<1>9. ASSUME NEW i \in DOMAIN Library["craftWoodenPickaxe"].steps
      PROVE  StepFits("craftWoodenPickaxe", Library["craftWoodenPickaxe"].steps[i])
  <2>1. i = 1 \/ i = 2 \/ i = 3 \/ i = 4 \/ i = 5
    BY <1>2
  <2> QED
    BY <2>1, <1>1, <1>3, <1>4, <1>5, <1>6, <1>7
<1> QED
  BY <1>2, <1>8, <1>9 DEF SkillFits

LEMMA CraftWoodenSwordFits == SkillFits("craftWoodenSword")
<1>1. /\ Library["craftWoodenSword"].steps =
           <<Step("craft", 2), Step("craft", 3), Step("craft", 4), Step("bench", Done)>>
      /\ Library["craftWoodenSword"].codes =
           {"MISSING_MATERIALS", "RECIPE_UNAVAILABLE", "PLACE_FAILED", "TIMEOUT", "ABORTED", "INTERNAL"}
      /\ Library["craftWoodenSword"].refuses = "none"
  BY DEF Library, Plan, CraftWoodenSword
<1>2. DOMAIN Library["craftWoodenSword"].steps = 1..4 /\ Labels("craftWoodenSword") = 0..4
  BY <1>1 DEF Labels, Done
<1>3. StepFits("craftWoodenSword", Step("craft", 2))
  BY <1>1, <1>2 DEF StepFits, Step, Sparing, Mending, Surface, Promised, Undeclared, TripCodes, TripFails,
     Codes, Called, Callers, SkillRank, PlainCalls, Miners, Ores, Tellers, Done
<1>4. StepFits("craftWoodenSword", Step("craft", 3))
  BY <1>1, <1>2 DEF StepFits, Step, Sparing, Mending, Surface, Promised, Undeclared, TripCodes, TripFails,
     Codes, Called, Callers, SkillRank, PlainCalls, Miners, Ores, Tellers, Done
<1>5. StepFits("craftWoodenSword", Step("craft", 4))
  BY <1>1, <1>2 DEF StepFits, Step, Sparing, Mending, Surface, Promised, Undeclared, TripCodes, TripFails,
     Codes, Called, Callers, SkillRank, PlainCalls, Miners, Ores, Tellers, Done
<1>6. StepFits("craftWoodenSword", Step("bench", Done))
  BY <1>1, <1>2 DEF StepFits, Step, Sparing, Mending, Surface, Promised, Undeclared, TripCodes, TripFails,
     Codes, Called, Callers, SkillRank, PlainCalls, Miners, Ores, Tellers, Done
<1>7. RefusesAsPromised("craftWoodenSword")
  BY <1>1 DEF RefusesAsPromised, Promised, TripCodes, Codes
<1>8. ASSUME NEW i \in DOMAIN Library["craftWoodenSword"].steps
      PROVE  StepFits("craftWoodenSword", Library["craftWoodenSword"].steps[i])
  <2>1. i = 1 \/ i = 2 \/ i = 3 \/ i = 4
    BY <1>2
  <2> QED
    BY <2>1, <1>1, <1>3, <1>4, <1>5, <1>6
<1> QED
  BY <1>2, <1>7, <1>8 DEF SkillFits

LEMMA CollectCobblestoneFits == SkillFits("collectCobblestone")
<1>1. /\ Library["collectCobblestone"].steps = <<Step("equip", 2), Step("mine", Done)>>
      /\ Library["collectCobblestone"].codes = TripCodes \cup {"UNSUPPORTED_NAME"}
      /\ Library["collectCobblestone"].refuses = "none"
  BY DEF Library, Plan, CollectCobblestone
<1>2. DOMAIN Library["collectCobblestone"].steps = 1..2 /\ Labels("collectCobblestone") = 0..2
  BY <1>1 DEF Labels, Done
<1>3. StepFits("collectCobblestone", Step("equip", 2))
  BY <1>1, <1>2 DEF StepFits, Step, Sparing, Mending, Surface, Promised, Undeclared, TripCodes, TripFails,
     Codes, Called, Callers, SkillRank, PlainCalls, Miners, Ores, Tellers, Done
<1>4. StepFits("collectCobblestone", Step("mine", Done))
  BY <1>1, <1>2 DEF StepFits, Step, Sparing, Mending, Surface, Promised, Undeclared, TripCodes, TripFails,
     Codes, Called, Callers, SkillRank, PlainCalls, Miners, Ores, Tellers, Done
<1>5. RefusesAsPromised("collectCobblestone")
  BY <1>1 DEF RefusesAsPromised, Promised, TripCodes, Codes
<1>6. ASSUME NEW i \in DOMAIN Library["collectCobblestone"].steps
      PROVE  StepFits("collectCobblestone", Library["collectCobblestone"].steps[i])
  <2>1. i = 1 \/ i = 2
    BY <1>2
  <2> QED
    BY <2>1, <1>1, <1>3, <1>4
<1> QED
  BY <1>2, <1>5, <1>6 DEF SkillFits

LEMMA StoneToolsFit == \A s \in {"craftStonePickaxe", "craftStoneAxe", "craftStoneSword"} : SkillFits(s)
<1> SUFFICES ASSUME NEW s \in {"craftStonePickaxe", "craftStoneAxe", "craftStoneSword"} PROVE SkillFits(s)
  OBVIOUS
<1>1. /\ Library[s].steps =
           <<Sparing("count", 3, "short", 2), Step("mine", 3), Sparing("count", 5, "short", 4),
             Step("craft", 5), Sparing("find", 7, "TARGET_NOT_FOUND", 6), Step("place", 7),
             Step("bench", Done)>>
      /\ Library[s].codes =
           TripCodes \cup {"UNSUPPORTED_NAME", "RECIPE_UNAVAILABLE", "MISSING_MATERIALS", "PLACE_FAILED"}
      /\ Library[s].refuses = "none"
  BY DEF Library, Plan, CraftStonePickaxe, CraftStoneAxe, CraftStoneSword, StoneTool
<1>2. DOMAIN Library[s].steps = 1..7 /\ Labels(s) = 0..7
  BY <1>1 DEF Labels, Done
<1>3. StepFits(s, Sparing("count", 3, "short", 2))
  BY <1>1, <1>2 DEF StepFits, Step, Sparing, Mending, Surface, Promised, Undeclared, TripCodes, TripFails,
     Codes, Called, Callers, SkillRank, PlainCalls, Miners, Ores, Tellers, Done
<1>4. StepFits(s, Step("mine", 3))
  BY <1>1, <1>2 DEF StepFits, Step, Sparing, Mending, Surface, Promised, Undeclared, TripCodes, TripFails,
     Codes, Called, Callers, SkillRank, PlainCalls, Miners, Ores, Tellers, Done
<1>5. StepFits(s, Sparing("count", 5, "short", 4))
  BY <1>1, <1>2 DEF StepFits, Step, Sparing, Mending, Surface, Promised, Undeclared, TripCodes, TripFails,
     Codes, Called, Callers, SkillRank, PlainCalls, Miners, Ores, Tellers, Done
<1>6. StepFits(s, Step("craft", 5))
  BY <1>1, <1>2 DEF StepFits, Step, Sparing, Mending, Surface, Promised, Undeclared, TripCodes, TripFails,
     Codes, Called, Callers, SkillRank, PlainCalls, Miners, Ores, Tellers, Done
<1>7. StepFits(s, Sparing("find", 7, "TARGET_NOT_FOUND", 6))
  BY <1>1, <1>2 DEF StepFits, Step, Sparing, Mending, Surface, Promised, Undeclared, TripCodes, TripFails,
     Codes, Called, Callers, SkillRank, PlainCalls, Miners, Ores, Tellers, Done
<1>8. StepFits(s, Step("place", 7))
  BY <1>1, <1>2 DEF StepFits, Step, Sparing, Mending, Surface, Promised, Undeclared, TripCodes, TripFails,
     Codes, Called, Callers, SkillRank, PlainCalls, Miners, Ores, Tellers, Done
<1>9. StepFits(s, Step("bench", Done))
  BY <1>1, <1>2 DEF StepFits, Step, Sparing, Mending, Surface, Promised, Undeclared, TripCodes, TripFails,
     Codes, Called, Callers, SkillRank, PlainCalls, Miners, Ores, Tellers, Done
<1>10. RefusesAsPromised(s)
  BY <1>1 DEF RefusesAsPromised, Promised, TripCodes, Codes
<1>11. ASSUME NEW i \in DOMAIN Library[s].steps
      PROVE  StepFits(s, Library[s].steps[i])
  <2>1. i = 1 \/ i = 2 \/ i = 3 \/ i = 4 \/ i = 5 \/ i = 6 \/ i = 7
    BY <1>2
  <2> QED
    BY <2>1, <1>1, <1>3, <1>4, <1>5, <1>6, <1>7, <1>8, <1>9
<1> QED
  BY <1>2, <1>10, <1>11 DEF SkillFits

LEMMA MineIronOreFits == SkillFits("mineIronOre")
<1>1. /\ Library["mineIronOre"].steps =
           <<Sparing("mine", 2, "RESOURCE_NOT_FOUND", 2), Sparing("mine", Done, "RESOURCE_NOT_FOUND", Done)>>
      /\ Library["mineIronOre"].codes = TripCodes
      /\ Library["mineIronOre"].refuses = "INTERNAL"
  BY DEF Library, Plan, MineIronOre, BothVariants
<1>2. DOMAIN Library["mineIronOre"].steps = 1..2 /\ Labels("mineIronOre") = 0..2
  BY <1>1 DEF Labels, Done
<1>3. StepFits("mineIronOre", Sparing("mine", 2, "RESOURCE_NOT_FOUND", 2))
  BY <1>1, <1>2 DEF StepFits, Step, Sparing, Mending, Surface, Promised, Undeclared, TripCodes, TripFails,
     Codes, Called, Callers, SkillRank, PlainCalls, Miners, Ores, Tellers, Done
<1>4. StepFits("mineIronOre", Sparing("mine", Done, "RESOURCE_NOT_FOUND", Done))
  BY <1>1, <1>2 DEF StepFits, Step, Sparing, Mending, Surface, Promised, Undeclared, TripCodes, TripFails,
     Codes, Called, Callers, SkillRank, PlainCalls, Miners, Ores, Tellers, Done
<1>5. RefusesAsPromised("mineIronOre")
  BY <1>1 DEF RefusesAsPromised, Promised, TripCodes, Codes
<1>6. ASSUME NEW i \in DOMAIN Library["mineIronOre"].steps
      PROVE  StepFits("mineIronOre", Library["mineIronOre"].steps[i])
  <2>1. i = 1 \/ i = 2
    BY <1>2
  <2> QED
    BY <2>1, <1>1, <1>3, <1>4
<1> QED
  BY <1>2, <1>5, <1>6 DEF SkillFits

LEMMA MineCoalOreFits == SkillFits("mineCoalOre")
<1>1. /\ Library["mineCoalOre"].steps =
           <<Sparing("mine", 2, "RESOURCE_NOT_FOUND", 2), Sparing("mine", Done, "RESOURCE_NOT_FOUND", Done)>>
      /\ Library["mineCoalOre"].codes = TripCodes \ {"TOOL_TIER_REQUIRED"}
      /\ Library["mineCoalOre"].refuses = "INTERNAL"
  BY DEF Library, Plan, MineCoalOre, BothVariants
<1>2. DOMAIN Library["mineCoalOre"].steps = 1..2 /\ Labels("mineCoalOre") = 0..2
  BY <1>1 DEF Labels, Done
<1>3. StepFits("mineCoalOre", Sparing("mine", 2, "RESOURCE_NOT_FOUND", 2))
  BY <1>1, <1>2 DEF StepFits, Step, Sparing, Mending, Surface, Promised, Undeclared, TripCodes, TripFails,
     Codes, Called, Callers, SkillRank, PlainCalls, Miners, Ores, Tellers, Done
<1>4. StepFits("mineCoalOre", Sparing("mine", Done, "RESOURCE_NOT_FOUND", Done))
  BY <1>1, <1>2 DEF StepFits, Step, Sparing, Mending, Surface, Promised, Undeclared, TripCodes, TripFails,
     Codes, Called, Callers, SkillRank, PlainCalls, Miners, Ores, Tellers, Done
<1>5. RefusesAsPromised("mineCoalOre")
  BY <1>1 DEF RefusesAsPromised, Promised, TripCodes, Codes
<1>6. ASSUME NEW i \in DOMAIN Library["mineCoalOre"].steps
      PROVE  StepFits("mineCoalOre", Library["mineCoalOre"].steps[i])
  <2>1. i = 1 \/ i = 2
    BY <1>2
  <2> QED
    BY <2>1, <1>1, <1>3, <1>4
<1> QED
  BY <1>2, <1>5, <1>6 DEF SkillFits

LEMMA CraftFurnaceFits == SkillFits("craftFurnace")
<1>1. /\ Library["craftFurnace"].steps =
           <<Mending("bench", Done, [c \in {"RECIPE_UNAVAILABLE", "MISSING_MATERIALS"} |-> IF c = "RECIPE_UNAVAILABLE" THEN 2 ELSE 3]),
             Step("place", 1), Step("mine", 1)>>
      /\ Library["craftFurnace"].codes =
           (TripCodes \ {"TOOL_TIER_REQUIRED"}) \cup {"RECIPE_UNAVAILABLE", "MISSING_MATERIALS", "PLACE_FAILED"}
      /\ Library["craftFurnace"].refuses = "INTERNAL"
  BY DEF Library, Plan, CraftFurnace
<1>2. DOMAIN Library["craftFurnace"].steps = 1..3 /\ Labels("craftFurnace") = 0..3
  BY <1>1 DEF Labels, Done
<1>3. StepFits("craftFurnace", Mending("bench", Done, [c \in {"RECIPE_UNAVAILABLE", "MISSING_MATERIALS"} |-> IF c = "RECIPE_UNAVAILABLE" THEN 2 ELSE 3]))
  BY <1>1, <1>2 DEF StepFits, Step, Sparing, Mending, Surface, Promised, Undeclared, TripCodes, TripFails,
     Codes, Called, Callers, SkillRank, PlainCalls, Miners, Ores, Tellers, Done
<1>4. StepFits("craftFurnace", Step("place", 1))
  BY <1>1, <1>2 DEF StepFits, Step, Sparing, Mending, Surface, Promised, Undeclared, TripCodes, TripFails,
     Codes, Called, Callers, SkillRank, PlainCalls, Miners, Ores, Tellers, Done
<1>5. StepFits("craftFurnace", Step("mine", 1))
  BY <1>1, <1>2 DEF StepFits, Step, Sparing, Mending, Surface, Promised, Undeclared, TripCodes, TripFails,
     Codes, Called, Callers, SkillRank, PlainCalls, Miners, Ores, Tellers, Done
<1>6. RefusesAsPromised("craftFurnace")
  BY <1>1 DEF RefusesAsPromised, Promised, TripCodes, Codes
<1>7. ASSUME NEW i \in DOMAIN Library["craftFurnace"].steps
      PROVE  StepFits("craftFurnace", Library["craftFurnace"].steps[i])
  <2>1. i = 1 \/ i = 2 \/ i = 3
    BY <1>2
  <2> QED
    BY <2>1, <1>1, <1>3, <1>4, <1>5
<1> QED
  BY <1>2, <1>6, <1>7 DEF SkillFits

LEMMA CraftIronPickaxeFits == SkillFits("craftIronPickaxe")
<1>1. /\ Library["craftIronPickaxe"].steps =
           <<Mending("bench", Done, [c \in {"RECIPE_UNAVAILABLE"} |-> 2]), Step("place", 1)>>
      /\ Library["craftIronPickaxe"].codes =
           {"MISSING_MATERIALS", "RECIPE_UNAVAILABLE", "PLACE_FAILED", "TIMEOUT", "ABORTED", "INTERNAL"}
      /\ Library["craftIronPickaxe"].refuses = "none"
  BY DEF Library, Plan, CraftIronPickaxe
<1>2. DOMAIN Library["craftIronPickaxe"].steps = 1..2 /\ Labels("craftIronPickaxe") = 0..2
  BY <1>1 DEF Labels, Done
<1>3. StepFits("craftIronPickaxe", Mending("bench", Done, [c \in {"RECIPE_UNAVAILABLE"} |-> 2]))
  BY <1>1, <1>2 DEF StepFits, Step, Sparing, Mending, Surface, Promised, Undeclared, TripCodes, TripFails,
     Codes, Called, Callers, SkillRank, PlainCalls, Miners, Ores, Tellers, Done
<1>4. StepFits("craftIronPickaxe", Step("place", 1))
  BY <1>1, <1>2 DEF StepFits, Step, Sparing, Mending, Surface, Promised, Undeclared, TripCodes, TripFails,
     Codes, Called, Callers, SkillRank, PlainCalls, Miners, Ores, Tellers, Done
<1>5. RefusesAsPromised("craftIronPickaxe")
  BY <1>1 DEF RefusesAsPromised, Promised, TripCodes, Codes
<1>6. ASSUME NEW i \in DOMAIN Library["craftIronPickaxe"].steps
      PROVE  StepFits("craftIronPickaxe", Library["craftIronPickaxe"].steps[i])
  <2>1. i = 1 \/ i = 2
    BY <1>2
  <2> QED
    BY <2>1, <1>1, <1>3, <1>4
<1> QED
  BY <1>2, <1>5, <1>6 DEF SkillFits

LEMMA SmeltIronOreFits == SkillFits("smeltIronOre")
<1>1. /\ Library["smeltIronOre"].steps =
           <<Mending("smelt", Done, [c \in {"CONTAINER_NOT_FOUND"} |-> 2]), Step("place", 1)>>
      /\ Library["smeltIronOre"].codes =
           {"CONTAINER_NOT_FOUND", "MISSING_MATERIALS", "PLACE_FAILED", "TIMEOUT", "ABORTED", "INTERNAL"}
      /\ Library["smeltIronOre"].refuses = "INTERNAL"
  BY DEF Library, Plan, SmeltIronOre
<1>2. DOMAIN Library["smeltIronOre"].steps = 1..2 /\ Labels("smeltIronOre") = 0..2
  BY <1>1 DEF Labels, Done
<1>3. StepFits("smeltIronOre", Mending("smelt", Done, [c \in {"CONTAINER_NOT_FOUND"} |-> 2]))
  BY <1>1, <1>2 DEF StepFits, Step, Sparing, Mending, Surface, Promised, Undeclared, TripCodes, TripFails,
     Codes, Called, Callers, SkillRank, PlainCalls, Miners, Ores, Tellers, Done
<1>4. StepFits("smeltIronOre", Step("place", 1))
  BY <1>1, <1>2 DEF StepFits, Step, Sparing, Mending, Surface, Promised, Undeclared, TripCodes, TripFails,
     Codes, Called, Callers, SkillRank, PlainCalls, Miners, Ores, Tellers, Done
<1>5. RefusesAsPromised("smeltIronOre")
  BY <1>1 DEF RefusesAsPromised, Promised, TripCodes, Codes
<1>6. ASSUME NEW i \in DOMAIN Library["smeltIronOre"].steps
      PROVE  StepFits("smeltIronOre", Library["smeltIronOre"].steps[i])
  <2>1. i = 1 \/ i = 2
    BY <1>2
  <2> QED
    BY <2>1, <1>1, <1>3, <1>4
<1> QED
  BY <1>2, <1>5, <1>6 DEF SkillFits

LEMMA CookMeatFits == SkillFits("cookMeat")
<1>1. /\ Library["cookMeat"].steps = <<Step("smelt", Done)>>
      /\ Library["cookMeat"].codes =
           {"MISSING_MATERIALS", "CONTAINER_NOT_FOUND", "PLACE_FAILED", "TIMEOUT", "ABORTED", "INTERNAL"}
      /\ Library["cookMeat"].refuses = "none"
  BY DEF Library, Plan, CookMeat
<1>2. DOMAIN Library["cookMeat"].steps = 1..1 /\ Labels("cookMeat") = 0..1
  BY <1>1 DEF Labels, Done
<1>3. StepFits("cookMeat", Step("smelt", Done))
  BY <1>1, <1>2 DEF StepFits, Step, Sparing, Mending, Surface, Promised, Undeclared, TripCodes, TripFails,
     Codes, Called, Callers, SkillRank, PlainCalls, Miners, Ores, Tellers, Done
<1>4. RefusesAsPromised("cookMeat")
  BY <1>1 DEF RefusesAsPromised, Promised, TripCodes, Codes
<1>5. ASSUME NEW i \in DOMAIN Library["cookMeat"].steps PROVE StepFits("cookMeat", Library["cookMeat"].steps[i])
  <2>1. i = 1
    BY <1>2
  <2> QED
    BY <2>1, <1>1, <1>3
<1> QED
  BY <1>2, <1>4, <1>5 DEF SkillFits

LEMMA KillOnePigFits == SkillFits("killOnePig")
<1>1. /\ Library["killOnePig"].steps = <<Step("kill", Done)>>
      /\ Library["killOnePig"].codes =
           {"TARGET_NOT_FOUND", "PATH_NOT_FOUND", "TOOL_REQUIRED", "TIMEOUT", "ABORTED", "INTERNAL"}
      /\ Library["killOnePig"].refuses = "none"
  BY DEF Library, Plan, KillOnePig
<1>2. DOMAIN Library["killOnePig"].steps = 1..1 /\ Labels("killOnePig") = 0..1
  BY <1>1 DEF Labels, Done
<1>3. StepFits("killOnePig", Step("kill", Done))
  BY <1>1, <1>2 DEF StepFits, Step, Sparing, Mending, Surface, Promised, Undeclared, TripCodes, TripFails,
     Codes, Called, Callers, SkillRank, PlainCalls, Miners, Ores, Tellers, Done
<1>4. RefusesAsPromised("killOnePig")
  BY <1>1 DEF RefusesAsPromised, Promised, TripCodes, Codes
<1>5. ASSUME NEW i \in DOMAIN Library["killOnePig"].steps
      PROVE  StepFits("killOnePig", Library["killOnePig"].steps[i])
  <2>1. i = 1
    BY <1>2
  <2> QED
    BY <2>1, <1>1, <1>3
<1> QED
  BY <1>2, <1>4, <1>5 DEF SkillFits

LEMMA MineBlockFits == SkillFits("mineBlock")
<1>1. /\ Library["mineBlock"].steps = <<Step("mine", Done)>>
      /\ Library["mineBlock"].codes = Codes
      /\ Library["mineBlock"].refuses = "UNSUPPORTED_NAME"
  BY DEF Library, Plan, ByItself
<1>2. DOMAIN Library["mineBlock"].steps = 1..1 /\ Labels("mineBlock") = 0..1
  BY <1>1 DEF Labels, Done
<1>3. StepFits("mineBlock", Step("mine", Done))
  BY <1>1, <1>2 DEF StepFits, Step, Sparing, Mending, Surface, Promised, Undeclared, TripCodes, TripFails,
     Codes, Called, Callers, SkillRank, PlainCalls, Miners, Ores, Tellers, Done
<1>4. RefusesAsPromised("mineBlock")
  BY <1>1 DEF RefusesAsPromised, Promised, TripCodes, Codes
<1>5. ASSUME NEW i \in DOMAIN Library["mineBlock"].steps
      PROVE  StepFits("mineBlock", Library["mineBlock"].steps[i])
  <2>1. i = 1
    BY <1>2
  <2> QED
    BY <2>1, <1>1, <1>3
<1> QED
  BY <1>2, <1>4, <1>5 DEF SkillFits

LEMMA CraftItemFits == SkillFits("craftItem")
<1>1. /\ Library["craftItem"].steps = <<Step("recipe", Done)>>
      /\ Library["craftItem"].codes = Codes
      /\ Library["craftItem"].refuses = "UNSUPPORTED_NAME"
  BY DEF Library, Plan, ByItself
<1>2. DOMAIN Library["craftItem"].steps = 1..1 /\ Labels("craftItem") = 0..1
  BY <1>1 DEF Labels, Done
<1>3. StepFits("craftItem", Step("recipe", Done))
  BY <1>1, <1>2 DEF StepFits, Step, Sparing, Mending, Surface, Promised, Undeclared, TripCodes, TripFails,
     Codes, Called, Callers, SkillRank, PlainCalls, Miners, Ores, Tellers, Done
<1>4. RefusesAsPromised("craftItem")
  BY <1>1 DEF RefusesAsPromised, Promised, TripCodes, Codes
<1>5. ASSUME NEW i \in DOMAIN Library["craftItem"].steps
      PROVE  StepFits("craftItem", Library["craftItem"].steps[i])
  <2>1. i = 1
    BY <1>2
  <2> QED
    BY <2>1, <1>1, <1>3
<1> QED
  BY <1>2, <1>4, <1>5 DEF SkillFits

LEMMA PlaceItemFits == SkillFits("placeItem")
<1>1. /\ Library["placeItem"].steps = <<Step("place", Done)>>
      /\ Library["placeItem"].codes = Codes
      /\ Library["placeItem"].refuses = "UNSUPPORTED_NAME"
  BY DEF Library, Plan, ByItself
<1>2. DOMAIN Library["placeItem"].steps = 1..1 /\ Labels("placeItem") = 0..1
  BY <1>1 DEF Labels, Done
<1>3. StepFits("placeItem", Step("place", Done))
  BY <1>1, <1>2 DEF StepFits, Step, Sparing, Mending, Surface, Promised, Undeclared, TripCodes, TripFails,
     Codes, Called, Callers, SkillRank, PlainCalls, Miners, Ores, Tellers, Done
<1>4. RefusesAsPromised("placeItem")
  BY <1>1 DEF RefusesAsPromised, Promised, TripCodes, Codes
<1>5. ASSUME NEW i \in DOMAIN Library["placeItem"].steps
      PROVE  StepFits("placeItem", Library["placeItem"].steps[i])
  <2>1. i = 1
    BY <1>2
  <2> QED
    BY <2>1, <1>1, <1>3
<1> QED
  BY <1>2, <1>4, <1>5 DEF SkillFits

LEMMA SmeltItemFits == SkillFits("smeltItem")
<1>1. /\ Library["smeltItem"].steps = <<Step("smelt", Done)>>
      /\ Library["smeltItem"].codes = Codes
      /\ Library["smeltItem"].refuses = "UNSUPPORTED_NAME"
  BY DEF Library, Plan, ByItself
<1>2. DOMAIN Library["smeltItem"].steps = 1..1 /\ Labels("smeltItem") = 0..1
  BY <1>1 DEF Labels, Done
<1>3. StepFits("smeltItem", Step("smelt", Done))
  BY <1>1, <1>2 DEF StepFits, Step, Sparing, Mending, Surface, Promised, Undeclared, TripCodes, TripFails,
     Codes, Called, Callers, SkillRank, PlainCalls, Miners, Ores, Tellers, Done
<1>4. RefusesAsPromised("smeltItem")
  BY <1>1 DEF RefusesAsPromised, Promised, TripCodes, Codes
<1>5. ASSUME NEW i \in DOMAIN Library["smeltItem"].steps
      PROVE  StepFits("smeltItem", Library["smeltItem"].steps[i])
  <2>1. i = 1
    BY <1>2
  <2> QED
    BY <2>1, <1>1, <1>3
<1> QED
  BY <1>2, <1>4, <1>5 DEF SkillFits

LEMMA KillMobFits == SkillFits("killMob")
<1>1. /\ Library["killMob"].steps = <<Step("kill", Done)>>
      /\ Library["killMob"].codes = Codes
      /\ Library["killMob"].refuses = "none"
  BY DEF Library, Plan, ByItself
<1>2. DOMAIN Library["killMob"].steps = 1..1 /\ Labels("killMob") = 0..1
  BY <1>1 DEF Labels, Done
<1>3. StepFits("killMob", Step("kill", Done))
  BY <1>1, <1>2 DEF StepFits, Step, Sparing, Mending, Surface, Promised, Undeclared, TripCodes, TripFails,
     Codes, Called, Callers, SkillRank, PlainCalls, Miners, Ores, Tellers, Done
<1>4. RefusesAsPromised("killMob")
  BY <1>1 DEF RefusesAsPromised, Promised, TripCodes, Codes
<1>5. ASSUME NEW i \in DOMAIN Library["killMob"].steps PROVE StepFits("killMob", Library["killMob"].steps[i])
  <2>1. i = 1
    BY <1>2
  <2> QED
    BY <2>1, <1>1, <1>3
<1> QED
  BY <1>2, <1>4, <1>5 DEF SkillFits

LEMMA ExploreUntilFits == SkillFits("exploreUntil")
<1>1. /\ Library["exploreUntil"].steps = <<Step("explore", Done)>>
      /\ Library["exploreUntil"].codes = Codes
      /\ Library["exploreUntil"].refuses = "INTERNAL"
  BY DEF Library, Plan, ByItself
<1>2. DOMAIN Library["exploreUntil"].steps = 1..1 /\ Labels("exploreUntil") = 0..1
  BY <1>1 DEF Labels, Done
<1>3. StepFits("exploreUntil", Step("explore", Done))
  BY <1>1, <1>2 DEF StepFits, Step, Sparing, Mending, Surface, Promised, Undeclared, TripCodes, TripFails,
     Codes, Called, Callers, SkillRank, PlainCalls, Miners, Ores, Tellers, Done
<1>4. RefusesAsPromised("exploreUntil")
  BY <1>1 DEF RefusesAsPromised, Promised, TripCodes, Codes
<1>5. ASSUME NEW i \in DOMAIN Library["exploreUntil"].steps
      PROVE  StepFits("exploreUntil", Library["exploreUntil"].steps[i])
  <2>1. i = 1
    BY <1>2
  <2> QED
    BY <2>1, <1>1, <1>3
<1> QED
  BY <1>2, <1>4, <1>5 DEF SkillFits

LEMMA GivePlacedItemBackFits == SkillFits("givePlacedItemBack")
<1>1. /\ Library["givePlacedItemBack"].steps = <<Step("recover", Done)>>
      /\ Library["givePlacedItemBack"].codes = Codes
      /\ Library["givePlacedItemBack"].refuses = "UNSUPPORTED_NAME"
  BY DEF Library, Plan, ByItself
<1>2. DOMAIN Library["givePlacedItemBack"].steps = 1..1 /\ Labels("givePlacedItemBack") = 0..1
  BY <1>1 DEF Labels, Done
<1>3. StepFits("givePlacedItemBack", Step("recover", Done))
  BY <1>1, <1>2 DEF StepFits, Step, Sparing, Mending, Surface, Promised, Undeclared, TripCodes, TripFails,
     Codes, Called, Callers, SkillRank, PlainCalls, Miners, Ores, Tellers, Done
<1>4. RefusesAsPromised("givePlacedItemBack")
  BY <1>1 DEF RefusesAsPromised, Promised, TripCodes, Codes
<1>5. ASSUME NEW i \in DOMAIN Library["givePlacedItemBack"].steps
      PROVE  StepFits("givePlacedItemBack", Library["givePlacedItemBack"].steps[i])
  <2>1. i = 1
    BY <1>2
  <2> QED
    BY <2>1, <1>1, <1>3
<1> QED
  BY <1>2, <1>4, <1>5 DEF SkillFits
LEMMA MineWoodLogFits == SkillFits("mineWoodLog")
<1>1. Library["mineWoodLog"].codes = TripCodes /\ Library["mineWoodLog"].refuses = "none"
  BY DEF Library, MineWoodLog, Plan
<1>2. Library["mineWoodLog"].steps
        = [i \in 1..Species |-> IF i < Species THEN Sparing("mine", Done, "RESOURCE_NOT_FOUND", i + 1)
                                ELSE Step("mine", Done)]
  BY DEF Library, MineWoodLog, Plan
<1>3. /\ DOMAIN Library["mineWoodLog"].steps = 1..Species
      /\ Labels("mineWoodLog") = 0..Species
  BY <1>2, SpeciesAreSome DEF Labels, Done
<1>4. ASSUME NEW i \in 1..Species, i < Species
      PROVE  StepFits("mineWoodLog", Sparing("mine", Done, "RESOURCE_NOT_FOUND", i + 1))
  <2>1. i + 1 \in Labels("mineWoodLog") /\ Done \in Labels("mineWoodLog") /\ i + 1 # Done
    BY <1>3, <1>4, SpeciesAreSome DEF Done
  <2> QED
    BY <2>1, <1>1 DEF StepFits, Step, Sparing, Mending, Surface, Promised, Undeclared, TripCodes, TripFails,
       Codes, Called, Callers, SkillRank, PlainCalls, Miners, Ores, Tellers, Done
<1>5. StepFits("mineWoodLog", Step("mine", Done))
  BY <1>1, <1>3, SpeciesAreSome DEF StepFits, Step, Sparing, Mending, Surface, Promised, Undeclared,
     TripCodes, TripFails, Codes, Called, Callers, SkillRank, PlainCalls, Miners, Ores, Tellers, Done
<1>6. ASSUME NEW i \in DOMAIN Library["mineWoodLog"].steps
      PROVE  StepFits("mineWoodLog", Library["mineWoodLog"].steps[i])
  BY <1>2, <1>3, <1>4, <1>5
<1> QED
  BY <1>1, <1>3, <1>6, SpeciesAreSome DEF SkillFits, RefusesAsPromised

LEMMA CraftPlanksFits == SkillFits("craftPlanks")
<1>1. /\ Library["craftPlanks"].codes =
           TripCodes \cup {"UNSUPPORTED_NAME", "RECIPE_UNAVAILABLE", "MISSING_MATERIALS"}
      /\ Library["craftPlanks"].refuses = "UNSUPPORTED_NAME"
  BY DEF Library, CraftPlanks, Plan
<1>2. Library["craftPlanks"].steps
        = [i \in 1..(3 * Species) |->
             IF i <= Species THEN Sparing("craft", Done, "MISSING_MATERIALS", i + 1)
             ELSE IF (i - Species) % 2 = 0 THEN Step("craft", Done)
             ELSE IF i + 1 < 3 * Species THEN Sparing("mine", i + 1, "RESOURCE_NOT_FOUND", i + 2)
             ELSE Step("mine", i + 1)]
  BY DEF Library, CraftPlanks, Plan
<1>3. /\ DOMAIN Library["craftPlanks"].steps = 1..(3 * Species)
      /\ Labels("craftPlanks") = 0..(3 * Species)
  BY <1>2, SpeciesAreSome DEF Labels, Done
<1>4. ASSUME NEW i \in 1..(3 * Species), i <= Species
      PROVE  StepFits("craftPlanks", Sparing("craft", Done, "MISSING_MATERIALS", i + 1))
  <2>1. i + 1 \in Labels("craftPlanks") /\ Done \in Labels("craftPlanks")
    BY <1>3, <1>4, SpeciesAreSome DEF Done
  <2> QED
    BY <2>1, <1>1 DEF StepFits, Step, Sparing, Mending, Surface, Promised, Undeclared, TripCodes, TripFails,
       Codes, Called, Callers, SkillRank, PlainCalls, Miners, Ores, Tellers, Done
<1>5. StepFits("craftPlanks", Step("craft", Done))
  BY <1>1, <1>3, SpeciesAreSome DEF StepFits, Step, Sparing, Mending, Surface, Promised, Undeclared,
     TripCodes, TripFails, Codes, Called, Callers, SkillRank, PlainCalls, Miners, Ores, Tellers, Done
<1>6. ASSUME NEW i \in 1..(3 * Species), i + 1 < 3 * Species
      PROVE  StepFits("craftPlanks", Sparing("mine", i + 1, "RESOURCE_NOT_FOUND", i + 2))
  <2>1. i + 1 \in Labels("craftPlanks") /\ i + 2 \in Labels("craftPlanks")
    BY <1>3, <1>6, SpeciesAreSome
  <2> QED
    BY <2>1, <1>1 DEF StepFits, Step, Sparing, Mending, Surface, Promised, Undeclared, TripCodes, TripFails,
       Codes, Called, Callers, SkillRank, PlainCalls, Miners, Ores, Tellers, Done
\* The last log is followed by its craft: an odd step of the second pass is not the last one.
<1>7. ASSUME NEW i \in 1..(3 * Species), i > Species, (i - Species) % 2 # 0, ~(i + 1 < 3 * Species)
      PROVE  StepFits("craftPlanks", Step("mine", i + 1))
  <2>1. i + 1 \in Labels("craftPlanks") /\ Done \in Labels("craftPlanks")
    <3>1. i # 3 * Species
      BY <1>7, SpeciesAreSome
    <3> QED
      BY <3>1, <1>3, <1>7, SpeciesAreSome DEF Done
  <2> QED
    BY <2>1, <1>1 DEF StepFits, Step, Sparing, Mending, Surface, Promised, Undeclared, TripCodes, TripFails,
       Codes, Called, Callers, SkillRank, PlainCalls, Miners, Ores, Tellers, Done
<1>8. ASSUME NEW i \in DOMAIN Library["craftPlanks"].steps
      PROVE  StepFits("craftPlanks", Library["craftPlanks"].steps[i])
  <2>0. i \in 1..(3 * Species) /\ i \in Nat /\ Species \in Nat
    BY <1>3, SpeciesAreSome
  <2>1. CASE i <= Species
    BY <2>0, <2>1, <1>2, <1>4
  <2>2. CASE i > Species /\ (i - Species) % 2 = 0
    BY <2>0, <2>2, <1>2, <1>5
  <2>3. CASE i > Species /\ (i - Species) % 2 # 0 /\ i + 1 < 3 * Species
    BY <2>0, <2>3, <1>2, <1>6
  <2>4. CASE i > Species /\ (i - Species) % 2 # 0 /\ ~(i + 1 < 3 * Species)
    BY <2>0, <2>4, <1>2, <1>7
  <2> QED
    BY <2>0, <2>1, <2>2, <2>3, <2>4
<1>9. RefusesAsPromised("craftPlanks")
  BY <1>1 DEF RefusesAsPromised, Promised, TripCodes, Codes
<1> QED
  BY <1>1, <1>3, <1>8, <1>9, SpeciesAreSome DEF SkillFits

LEMMA SkillsFit == \A s \in SkillName : SkillFits(s)
  BY SkillNames, MineWoodLogFits, CraftPlanksFits, SticksAndTableFit,
     CraftWoodenPickaxeFits, CraftWoodenSwordFits, CollectCobblestoneFits, StoneToolsFit, MineIronOreFits, MineCoalOreFits, CraftFurnaceFits,
     CraftIronPickaxeFits, SmeltIronOreFits, CookMeatFits, KillOnePigFits, MineBlockFits, CraftItemFits,
     PlaceItemFits, SmeltItemFits, KillMobFits, ExploreUntilFits, GivePlacedItemBackFits

LEMMA SkillWords ==
  /\ "nobody" \notin SkillName /\ "registry" \notin SkillName /\ "none" \notin SkillName
  /\ Called \subseteq SkillName /\ Callers \subseteq SkillName /\ Miners \subseteq SkillName
  /\ PlainCalls \cap SkillName = {}
  /\ Called \cap Tellers = {} /\ Callers \cap Tellers = {} /\ Miners \subseteq Tellers /\ Ores \subseteq Miners
  BY SkillNames DEF Called, Callers, Miners, Ores, Tellers, PlainCalls

\* An activation that is not at its end stands at a step that fits its plan.
LEMMA AtAStep ==
  ASSUME SkillInv, NEW s \in SkillName, frames[s].on, frames[s].at # Done
  PROVE  /\ frames[s].at \in DOMAIN Library[s].steps
         /\ StepFits(s, Library[s].steps[frames[s].at])
  BY SkillsFit DEF SkillInv, StackFits, FrameFits, Labels, SkillFits

LEMMA LabelsAreNat == \A s \in SkillName : Labels(s) \subseteq Nat /\ 1 \in Labels(s) /\ Done \in Labels(s)
  BY SkillsFit DEF SkillFits, Labels, Done

\* Whoever was called by a plan ranks below it.
LEMMA RanksBelow ==
  ASSUME SkillInv, NEW s \in SkillName, frames[s].on, frames[s].caller # "registry"
  PROVE  /\ s \in Called /\ frames[s].caller \in Callers /\ frames[s].caller \in SkillName
         /\ frames[frames[s].caller].on /\ frames[frames[s].caller].at # Done
         /\ CallAt(frames[s].caller) = s
         /\ SkillRank(s) < SkillRank(frames[s].caller)
<1>1. /\ s \in Called /\ frames[s].caller \in Callers /\ frames[frames[s].caller].on
      /\ frames[frames[s].caller].at # Done /\ CallAt(frames[s].caller) = s
  BY DEF SkillInv, StackFits, Linked
<1>2. frames[s].caller \in SkillName
  BY <1>1, SkillWords
<1> QED
  BY <1>1, <1>2, AtAStep DEF StepFits, CallAt

\* Nobody ranks below the innermost.
LEMMA Innermost ==
  ASSUME SkillInv, NEW t \in SkillName, frames[t].on
  PROVE  SkillRank(running) <= SkillRank(t)
<1>1. \A s \in SkillName : SkillRank(s) \in 0..2 /\ (s \in Called => SkillRank(s) \in 0..1)
  BY DEF SkillRank
<1>2. \A u \in SkillName : frames[u].on /\ u # running =>
        \E s \in SkillName : frames[s].on /\ frames[s].caller = u /\ s \in Called /\ SkillRank(s) < SkillRank(u)
  BY RanksBelow, SkillWords DEF SkillInv, StackFits, Waits
<1>3. CASE t = running
  BY <1>1, <1>3
<1>4. CASE t # running
  <2>1. PICK s \in SkillName : frames[s].on /\ s \in Called /\ SkillRank(s) < SkillRank(t)
    BY <1>2, <1>4
  <2>2. CASE s = running
    BY <1>1, <2>1, <2>2
  <2>3. CASE s # running
    <3>1. PICK u \in SkillName : frames[u].on /\ u \in Called /\ SkillRank(u) < SkillRank(s)
      BY <1>2, <2>1, <2>3
    <3>2. CASE u = running
      BY <1>1, <2>1, <3>1, <3>2
    <3>3. CASE u # running
      <4>1. PICK v \in SkillName : SkillRank(v) < SkillRank(u)
        BY <1>2, <3>1, <3>3
      <4> QED
        BY <1>1, <2>1, <3>1, <4>1
    <3> QED
      BY <3>2, <3>3
  <2> QED
    BY <2>2, <2>3
<1> QED
  BY <1>3, <1>4

\* Nobody waits for the innermost to be answered by somebody else.
LEMMA NobodyUnder ==
  ASSUME SkillInv, running # "nobody", NEW s \in SkillName, frames[s].on
  PROVE  frames[s].caller # running
<1>1. running \in SkillName
  BY DEF SkillInv, SkillsTyped
<1>2. SUFFICES ASSUME frames[s].caller = running PROVE FALSE
  OBVIOUS
<1>3. SkillRank(s) < SkillRank(running) /\ SkillRank(running) <= SkillRank(s)
  BY <1>1, <1>2, RanksBelow, Innermost, SkillWords
<1>4. SkillRank(s) \in 0..2 /\ SkillRank(running) \in 0..2
  BY DEF SkillRank
<1> QED
  BY <1>3, <1>4

\* If the registry called the innermost, there is nobody else.
LEMMA Alone ==
  ASSUME SkillInv, running # "nobody", frames[running].caller = "registry",
         NEW t \in SkillName, frames[t].on
  PROVE  t = running
<1>1. \A s \in SkillName : SkillRank(s) \in 0..2 /\ (s \in Called => SkillRank(s) \in 0..1)
  BY DEF SkillRank
<1>2. \A u \in SkillName : frames[u].on /\ u # running =>
        \E s \in SkillName : frames[s].on /\ s # running /\ s \in Called /\ SkillRank(s) < SkillRank(u)
  BY RanksBelow, SkillWords DEF SkillInv, StackFits, Waits
<1>3. SUFFICES ASSUME t # running PROVE FALSE
  OBVIOUS
<1>4. PICK s \in SkillName : frames[s].on /\ s # running /\ s \in Called /\ SkillRank(s) < SkillRank(t)
  BY <1>2, <1>3
<1>5. PICK u \in SkillName : frames[u].on /\ u # running /\ u \in Called /\ SkillRank(u) < SkillRank(s)
  BY <1>2, <1>4
<1>6. PICK v \in SkillName : SkillRank(v) < SkillRank(u)
  BY <1>2, <1>5
<1> QED
  BY <1>1, <1>4, <1>5, <1>6

\* What is in flight was called by the innermost.
LEMMA InFlightOf ==
  ASSUME SkillInv, primitive.what # "none"
  PROVE  /\ reply = NoReply /\ running # "nobody" /\ running \in SkillName
         /\ frames[running].on /\ frames[running].at # Done
         /\ primitive.what \in {"seek", "sweep", "smelt", "fight", "loot", "explore", "recover"}
         /\ CallAt(running) = Asked(primitive.what)
         /\ primitive.what \in {"seek", "sweep"} => primitive.goal >= 1
<1>1. primitive # Untouched
  BY DEF Untouched
<1> QED
  BY <1>1 DEF SkillInv, PrimitiveFits, ReplyFits, SkillsTyped, StackFits

LEMMA CallOf ==
  ASSUME SkillInv, NEW c, Calling(c)
  PROVE  /\ primitive = Untouched /\ reply = NoReply /\ running # "nobody" /\ running \in SkillName
         /\ frames[running].on /\ frames[running].at # Done /\ CallAt(running) = c
         /\ frames[running].haul < frames[running].want
BY DEF SkillInv, StackFits, SkillsTyped, Calling, Thinking, Here, Top, CallAt, FrameFits

LEMMA MinersMine ==
  ASSUME SkillInv, running \in Miners, frames[running].on, frames[running].at # Done
  PROVE  CallAt(running) \in {"mine", "equip"}
BY AtAStep, SkillWords DEF StepFits, CallAt

\* While nobody is called and nothing is booked, the stack is what it was.
LEMMA StackStays ==
  ASSUME SkillInv, UNCHANGED <<running, frames, booked>>
  PROVE  StackFits' /\ FailsAsPromised' /\ CountsWhatItTook'
<1>1. StackFits'
  BY DEF SkillInv, StackFits, FrameFits, Linked, Waits, CallAt
<1> QED
  BY <1>1 DEF SkillInv, FailsAsPromised, CountsWhatItTook

LEMMA Clean == Untouched \in InFlights
BY DEF Untouched, InFlights, Kinds

\* A primitive answers the innermost.
LEMMA InnermostAnswered ==
  ASSUME SkillInv, NEW how \in Says, NEW got \in Nat, Replies(how, got), UNCHANGED <<running, frames, booked, entered>>,
         running # "nobody", frames[running].at # Done,
         how \in {"ok"} \cup Surface(CallAt(running)),
         got > 0 => CallAt(running) \in {"mine", "kill", "recover"},
         CallAt(running) = "mine" /\ how = "ok" => got > 0,
         running \in Miners => frames[running].haul + got <= entered
  PROVE  /\ PrimitiveFits' /\ ReplyFits' /\ CountFits' /\ HearthFits'
         /\ primitive' \in InFlights
         /\ reply' \in [how : Says, got : Nat]
<1>0. primitive' = Untouched /\ reply' = [how |-> how, got |-> got]
  BY DEF Replies
<1>1. PrimitiveFits' /\ HearthFits'
  BY <1>0 DEF PrimitiveFits, HearthFits, Untouched
<1>2. CallAt(running)' = CallAt(running)
  BY DEF CallAt
<1>3. ReplyFits'
  BY <1>0, <1>2 DEF ReplyFits
<1>4. CountFits'
  <2>1. running \in Miners => frames[running].haul \in Nat
    BY SkillWords DEF SkillInv, SkillsTyped, Activations
  <2> QED
    BY <1>0, <2>1 DEF CountFits, Untouched
<1>6. [how |-> how, got |-> got] \in [how : Says, got : Nat]
  OBVIOUS
<1> QED
  BY <1>0, <1>1, <1>3, <1>4, <1>6, Clean

LEMMA RepliesPlain ==
  ASSUME SkillInv, NEW how \in Says, Replies(how, 0),
         UNCHANGED <<running, frames, booked, held, fallen, mined, baseline, entered>>,
         engaged' = FALSE \/ (engaged' = engaged /\ primitive.what # "fight"),
         hearth' \in [out : Nat, cooking : Nat, found : Nat],
         running # "nobody", frames[running].at # Done,
         how \in {"ok"} \cup Surface(CallAt(running)), ~(CallAt(running) = "mine" /\ how = "ok")
  PROVE  SkillInv'
<1>1. /\ PrimitiveFits' /\ ReplyFits' /\ CountFits' /\ HearthFits'
      /\ primitive' \in InFlights
      /\ reply' \in [how : Says, got : Nat]
  <2>1. running \in Miners => frames[running].haul + 0 <= entered
    <3>1. running \in Miners => /\ frames[running].haul \in Nat /\ primitive.got \in Nat /\ reply.got \in Nat /\ entered \in Nat
                                /\ held \in Nat /\ baseline \in Nat
      BY SkillWords DEF SkillInv, SkillsTyped, Activations, InFlights
    <3> QED
      BY <3>1 DEF SkillInv, CountFits, Gain
  <2> QED
    BY <2>1, InnermostAnswered, 0 \in Nat
<1>2. SkillsTyped'
  BY <1>1 DEF SkillInv, SkillsTyped
<1>3. Disengages'
  BY DEF SkillInv, Disengages
<1> QED
  BY <1>1, <1>2, <1>3, StackStays DEF SkillInv

LEMMA SaysAre ==
  /\ TripFails \subseteq Says /\ "ok" \in Says /\ "RESOURCE_NOT_FOUND" \in Says
  /\ \A c \in PlainCalls \cup Called : Surface(c) \subseteq Says /\ "none" \notin Surface(c) /\ "ok" \notin Surface(c)
BY DEF TripFails, Says, Codes, TripCodes, Surface, PlainCalls, Called

LEMMA NumbersOf ==
  ASSUME SkillInv
  PROVE  /\ primitive.got \in Nat /\ primitive.left \in Nat /\ primitive.goal \in Int /\ reply.got \in Nat
         /\ held \in Nat /\ baseline \in Nat /\ entered \in Nat /\ fallen \in Nat /\ Gain \in Nat
         /\ hearth.out \in Nat /\ hearth.cooking \in Nat /\ hearth.found \in Nat
         /\ primitive.away \in BOOLEAN /\ primitive.what \in Kinds
         /\ \A s \in SkillName : frames[s].haul \in Nat /\ frames[s].want \in Nat /\ frames[s].at \in Nat
BY DEF SkillInv, SkillsTyped, Activations, InFlights, Gain

LEMMA AsksKeeps == SkillInv /\ Asks => SkillInv'
<1> SUFFICES ASSUME SkillInv, Asks PROVE SkillInv'
  OBVIOUS
<1>1. PICK how \in AnswersOf(Here.call) : Replies(how, 0)
  BY DEF Asks
<1>2. /\ primitive = Untouched /\ running # "nobody" /\ running \in SkillName /\ frames[running].on
      /\ frames[running].at # Done /\ CallAt(running) = Here.call
  BY DEF SkillInv, StackFits, SkillsTyped, Asks, Thinking, Here, Top, CallAt
<1>3. \A c, h : h \in AnswersOf(c) => h \in Says /\ h \in {"ok"} \cup Surface(c) /\ ~(c = "mine" /\ h = "ok")
  BY DEF AnswersOf, CraftAnswers, PlaceAnswers, EquipAnswers, CountAnswers, FindAnswers, Says, Codes, TripCodes, Surface
<1>4. primitive.what # "fight"
  BY <1>2 DEF Untouched
<1>5. UNCHANGED <<running, frames, booked, worldOfSkills>>
  BY DEF Asks
<1>6. hearth' \in [out : Nat, cooking : Nat, found : Nat]
  BY <1>5 DEF worldOfSkills, SkillInv, SkillsTyped
<1> QED
  BY <1>1, <1>2, <1>3, <1>4, <1>5, <1>6, RepliesPlain DEF worldOfSkills

\* What is in flight goes on.
LEMMA StaysInFlight ==
  ASSUME SkillInv, UNCHANGED <<running, frames, reply, booked>>, reply = NoReply,
         running # "nobody", running \in SkillName, frames[running].at # Done,
         primitive' \in InFlights,
         primitive'.what \in {"seek", "sweep", "smelt", "fight", "loot", "explore", "recover"},
         CallAt(running) = Asked(primitive'.what),
         primitive'.what \in {"seek", "sweep"} => primitive'.goal >= 1
  PROVE  PrimitiveFits' /\ ReplyFits'
<1>1. CallAt(running)' = CallAt(running)
  BY DEF CallAt
<1>2. Asked(primitive.what)' = Asked(primitive'.what)
  BY DEF Asked
<1> QED
  BY <1>1, <1>2 DEF PrimitiveFits, ReplyFits

LEMMA SearchesKeeps == SkillInv /\ SearchesBlocks => SkillInv'
<1> SUFFICES ASSUME SkillInv, SearchesBlocks PROVE SkillInv'
  OBVIOUS
<1>1. /\ primitive = Untouched /\ reply = NoReply /\ running # "nobody" /\ running \in SkillName
      /\ frames[running].on /\ frames[running].at # Done /\ CallAt(running) = "mine"
      /\ frames[running].haul < frames[running].want
  BY CallOf DEF SearchesBlocks
<1>2. UNCHANGED <<running, frames, booked, worldOfSkills>>
  BY DEF SearchesBlocks
<1>3. hearth' \in [out : Nat, cooking : Nat, found : Nat] /\ engaged' = engaged /\ primitive.what # "fight"
  BY <1>1, <1>2 DEF worldOfSkills, SkillInv, SkillsTyped, Untouched
<1>4. CASE Replies("RESOURCE_NOT_FOUND", 0)
  <2>1. "RESOURCE_NOT_FOUND" \in Surface("mine") /\ "RESOURCE_NOT_FOUND" # "ok"
    BY DEF Surface
  <2> QED
    BY <1>1, <1>2, <1>3, <1>4, <2>1, SaysAre, RepliesPlain DEF worldOfSkills
<1>5. CASE /\ \E found \in 1..PoolMax :
                primitive' = [Untouched EXCEPT !.what = "seek", !.goal = Top.want - Top.haul, !.left = found]
           /\ UNCHANGED reply
  <2>1. PICK found \in 1..PoolMax :
          primitive' = [Untouched EXCEPT !.what = "seek", !.goal = Top.want - Top.haul, !.left = found]
    BY <1>5
  <2>2. /\ primitive'.what = "seek" /\ primitive'.goal = frames[running].want - frames[running].haul
        /\ primitive'.got = 0 /\ primitive'.left = found /\ primitive'.away = FALSE /\ primitive' \in InFlights
    <3>1. frames[running].want - frames[running].haul \in Int /\ found \in Nat
      BY <1>1, NumbersOf
    <3> QED
      BY <2>1, <3>1 DEF Untouched, Top, InFlights, Kinds
  <2>3. primitive'.goal >= 1
    BY <1>1, <2>2, NumbersOf
  <2>4. PrimitiveFits' /\ ReplyFits'
    BY <1>1, <1>2, <1>5, <2>2, <2>3, StaysInFlight DEF Asked
  <2>5. CountFits' /\ HearthFits' /\ Disengages'
    <3>1. CountFits'
      BY <1>1, <1>2, <1>5, <2>2 DEF SkillInv, CountFits, worldOfSkills, Untouched
    <3> QED
      BY <1>1, <1>2, <2>2, <3>1 DEF SkillInv, HearthFits, Disengages, worldOfSkills, Untouched
  <2>6. SkillsTyped'
    BY <1>2, <1>5, <2>2 DEF SkillInv, SkillsTyped, worldOfSkills
  <2> QED
    BY <1>2, <2>4, <2>5, <2>6, StackStays DEF SkillInv
<1> QED
  BY <1>4, <1>5 DEF SearchesBlocks

LEMMA TimesOutKeeps == SkillInv /\ MineTimesOut => SkillInv'
<1> SUFFICES ASSUME SkillInv, MineTimesOut PROVE SkillInv'
  OBVIOUS
<1>1. primitive.what = "seek" /\ Replies(IF primitive.got > 0 THEN "ok" ELSE "TIMEOUT", primitive.got)
      /\ UNCHANGED <<running, frames, booked, worldOfSkills>>
  BY DEF MineTimesOut, Seeking
<1>2. /\ reply = NoReply /\ running # "nobody" /\ running \in SkillName /\ frames[running].on
      /\ frames[running].at # Done /\ CallAt(running) = "mine"
  BY <1>1, InFlightOf DEF Asked
<1>3. PICK how : how = (IF primitive.got > 0 THEN "ok" ELSE "TIMEOUT")
  OBVIOUS
<1>4. how \in Says /\ how \in {"ok"} \cup Surface(CallAt(running)) /\ (how = "ok" => primitive.got > 0)
  BY <1>2, <1>3 DEF Says, Codes, TripCodes, Surface
<1>5. running \in Miners => frames[running].haul + primitive.got <= entered
  BY <1>1, <1>2, NumbersOf DEF SkillInv, CountFits, NoReply
<1>6. /\ PrimitiveFits' /\ ReplyFits' /\ CountFits' /\ HearthFits'
      /\ primitive' \in InFlights /\ reply' \in [how : Says, got : Nat]
  BY <1>1, <1>2, <1>3, <1>4, <1>5, NumbersOf, InnermostAnswered DEF worldOfSkills
<1>7. SkillsTyped' /\ Disengages'
  BY <1>1, <1>6 DEF SkillInv, SkillsTyped, Disengages, worldOfSkills
<1> QED
  BY <1>1, <1>6, <1>7, StackStays DEF SkillInv

LEMMA LacksKeeps == SkillInv /\ LacksTool => SkillInv'
<1> SUFFICES ASSUME SkillInv, LacksTool PROVE SkillInv'
  OBVIOUS
<1>1. primitive.what = "seek" /\ Replies("TOOL_REQUIRED", 0) /\ UNCHANGED <<running, frames, booked, worldOfSkills>>
  BY DEF LacksTool, Seeking
<1>2. running # "nobody" /\ frames[running].at # Done /\ CallAt(running) = "mine"
  BY <1>1, InFlightOf DEF Asked
<1>3. "TOOL_REQUIRED" \in Says /\ "TOOL_REQUIRED" \in Surface("mine") /\ "TOOL_REQUIRED" # "ok"
  BY DEF Says, Codes, TripCodes, Surface
<1>4. hearth' \in [out : Nat, cooking : Nat, found : Nat] /\ engaged' = engaged /\ primitive.what # "fight"
  BY <1>1 DEF worldOfSkills, SkillInv, SkillsTyped
<1> QED
  BY <1>1, <1>2, <1>3, <1>4, RepliesPlain DEF worldOfSkills

LEMMA RunsOutKeeps == SkillInv /\ RunsOut => SkillInv'
<1> SUFFICES ASSUME SkillInv, RunsOut PROVE SkillInv'
  OBVIOUS
<1>1. primitive.what = "seek" /\ Replies(IF primitive.away THEN "PATH_NOT_FOUND" ELSE "RESOURCE_NOT_FOUND", 0)
      /\ UNCHANGED <<running, frames, booked, worldOfSkills>>
  BY DEF RunsOut
<1>2. running # "nobody" /\ frames[running].at # Done /\ CallAt(running) = "mine"
  BY <1>1, InFlightOf DEF Asked
<1>3. PICK how : how = (IF primitive.away THEN "PATH_NOT_FOUND" ELSE "RESOURCE_NOT_FOUND")
  OBVIOUS
<1>4. how \in Says /\ how \in Surface("mine") /\ how # "ok"
  BY <1>3 DEF Says, Codes, TripCodes, Surface
<1>5. hearth' \in [out : Nat, cooking : Nat, found : Nat] /\ engaged' = engaged /\ primitive.what # "fight"
  BY <1>1 DEF worldOfSkills, SkillInv, SkillsTyped
<1> QED
  BY <1>1, <1>2, <1>3, <1>4, <1>5, RepliesPlain DEF worldOfSkills

\* One change or two of what is in flight.
LEMMA ChangesKind ==
  ASSUME NEW p \in InFlights, NEW w \in Kinds
  PROVE  [p EXCEPT !.what = w] \in InFlights
BY DEF InFlights, Kinds

LEMMA ChangesLeft ==
  ASSUME NEW p \in InFlights, NEW n \in Nat
  PROVE  [p EXCEPT !.left = n] \in InFlights
BY DEF InFlights

LEMMA ChangesGot ==
  ASSUME NEW p \in InFlights, NEW n \in Nat
  PROVE  [p EXCEPT !.got = n] \in InFlights
BY DEF InFlights

LEMMA ChangesAway ==
  ASSUME NEW p \in InFlights, NEW n \in Nat, NEW b \in BOOLEAN
  PROVE  [p EXCEPT !.left = n, !.away = b] \in InFlights
BY DEF InFlights

LEMMA ChangesDug ==
  ASSUME NEW p \in InFlights, NEW w \in Kinds, NEW n \in Nat
  PROVE  /\ [p EXCEPT !.what = w, !.left = n] \in InFlights
         /\ [p EXCEPT !.what = w, !.got = n] \in InFlights
BY DEF InFlights, Kinds

LEMMA ChangesFire ==
  ASSUME NEW h \in [out : Nat, cooking : Nat, found : Nat], NEW n \in Nat
  PROVE  [h EXCEPT !.cooking = n] = [out |-> h.out, cooking |-> n, found |-> h.found]
OBVIOUS

LEMMA ChangesHearth ==
  ASSUME NEW h \in [out : Nat, cooking : Nat, found : Nat], NEW m \in Nat, NEW n \in Nat
  PROVE  [h EXCEPT !.out = m, !.cooking = n] = [out |-> m, cooking |-> n, found |-> h.found]
<1>1. [h EXCEPT !.out = m, !.cooking = n] \in [out : {m}, cooking : {n}, found : {h.found}]
  OBVIOUS
<1>2. ASSUME NEW g \in [out : {m}, cooking : {n}, found : {h.found}]
      PROVE  g = [out |-> m, cooking |-> n, found |-> h.found]
  OBVIOUS
<1> QED
  BY <1>1, <1>2

LEMMA ChangesBoth ==
  ASSUME NEW h \in [out : Nat, cooking : Nat, found : Nat], NEW m \in Nat, NEW n \in Nat
  PROVE  [h EXCEPT !.cooking = n, !.out = m] = [out |-> m, cooking |-> n, found |-> h.found]
<1>1. [h EXCEPT !.cooking = n, !.out = m] \in [out : {m}, cooking : {n}, found : {h.found}]
  OBVIOUS
<1>2. ASSUME NEW g \in [out : {m}, cooking : {n}, found : {h.found}]
      PROVE  g = [out |-> m, cooking |-> n, found |-> h.found]
  OBVIOUS
<1> QED
  BY <1>1, <1>2

LEMMA PassesKeeps == SkillInv /\ PassesOver => SkillInv'
<1> SUFFICES ASSUME SkillInv, PassesOver PROVE SkillInv'
  OBVIOUS
<1>1. PICK far \in BOOLEAN : primitive' = [primitive EXCEPT !.left = @ - 1, !.away = @ \/ far]
  BY DEF PassesOver
<1>2. /\ primitive.what = "seek" /\ primitive.left > 0 /\ primitive \in InFlights
      /\ UNCHANGED <<running, frames, reply, booked, worldOfSkills>>
  BY DEF PassesOver, Seeking, SkillInv, SkillsTyped
<1>3. /\ primitive'.what = "seek" /\ primitive'.goal = primitive.goal /\ primitive'.got = primitive.got
      /\ primitive' \in InFlights
  <2>1. primitive.left - 1 \in Nat
    BY <1>2, NumbersOf
  <2>2. primitive' \in InFlights
    <3>1. PICK b \in BOOLEAN : b = (primitive.away \/ far)
      OBVIOUS
    <3>2. primitive' = [primitive EXCEPT !.left = primitive.left - 1, !.away = b]
      BY <1>1, <3>1
    <3> QED
      BY <1>2, <2>1, <3>1, <3>2, ChangesAway
  <2> QED
    BY <1>1, <1>2, <2>2 DEF InFlights
<1>4. PrimitiveFits' /\ ReplyFits'
  BY <1>2, <1>3, InFlightOf, StaysInFlight
<1>5. CountFits' /\ HearthFits' /\ Disengages'
  BY <1>2, <1>3 DEF SkillInv, CountFits, HearthFits, Disengages, worldOfSkills
<1>6. SkillsTyped'
  BY <1>2, <1>3 DEF SkillInv, SkillsTyped, worldOfSkills
<1> QED
  BY <1>2, <1>4, <1>5, <1>6, StackStays DEF SkillInv

LEMMA DigsKeeps == SkillInv /\ Digs => SkillInv'
<1> SUFFICES ASSUME SkillInv, Digs PROVE SkillInv'
  OBVIOUS
<1>1. PICK refused \in BOOLEAN, drop \in 0..1 :
        /\ fallen' = fallen + drop
        /\ primitive' = [primitive EXCEPT !.what = IF refused THEN "seek" ELSE "sweep", !.left = @ - 1]
  BY DEF Digs
<1>2. /\ primitive.what = "seek" /\ primitive.left > 0 /\ primitive \in InFlights
      /\ mined' = TRUE /\ baseline' = held
      /\ UNCHANGED <<running, frames, reply, booked, held, entered, engaged, hearth>>
  BY DEF Digs, Seeking, SkillInv, SkillsTyped, Baseline
<1>3. /\ primitive'.what \in {"seek", "sweep"} /\ primitive'.goal = primitive.goal /\ primitive'.got = primitive.got
      /\ primitive' \in InFlights
  <2>1. PICK w : w = (IF refused THEN "seek" ELSE "sweep")
    OBVIOUS
  <2>2. primitive.left - 1 \in Nat /\ w \in {"seek", "sweep"} /\ w \in Kinds
    BY <1>2, <2>1, NumbersOf DEF Kinds
  <2>3. primitive' = [primitive EXCEPT !.what = w, !.left = primitive.left - 1]
    BY <1>1, <2>1
  <2>4. primitive' \in InFlights
    BY <1>2, <2>2, <2>3, ChangesDug
  <2> QED
    BY <1>2, <2>2, <2>3, <2>4 DEF InFlights
<1>4. PrimitiveFits' /\ ReplyFits'
  BY <1>2, <1>3, InFlightOf, StaysInFlight DEF Asked
<1>5. Gain' = 0
  BY <1>2, NumbersOf DEF Gain
<1>6. CountFits'
  <2>1. running \in Miners => frames[running].haul + primitive.got + reply.got + 0 <= entered
    BY <1>2 DEF SkillInv, CountFits
  <2>2. frames[running]' = frames[running] /\ running' = running /\ reply' = reply /\ entered' = entered
    BY <1>2
  <2> QED
    BY <1>3, <1>5, <2>1, <2>2 DEF CountFits
<1>7. HearthFits' /\ Disengages'
  BY <1>2, <1>3 DEF SkillInv, HearthFits, Disengages
<1>8. SkillsTyped'
  BY <1>1, <1>2, <1>3, NumbersOf DEF SkillInv, SkillsTyped
<1> QED
  BY <1>2, <1>4, <1>6, <1>7, <1>8, StackStays DEF SkillInv

LEMMA SweepsKeeps == SkillInv /\ Sweeps => SkillInv'
<1> SUFFICES ASSUME SkillInv, Sweeps PROVE SkillInv'
  OBVIOUS
<1>1. primitive.what = "sweep" /\ primitive \in InFlights /\ UNCHANGED <<running, frames, booked, worldOfSkills>>
  BY DEF Sweeps, SkillInv, SkillsTyped
<1>2. /\ reply = NoReply /\ running # "nobody" /\ running \in SkillName /\ frames[running].on
      /\ frames[running].at # Done /\ CallAt(running) = "mine" /\ primitive.goal >= 1
  BY <1>1, InFlightOf DEF Asked
<1>3. running \in Miners => frames[running].haul + (primitive.got + Gain) <= entered
  <2>1. running \in Miners => frames[running].haul + primitive.got + reply.got + Gain <= entered
    BY <1>1 DEF SkillInv, CountFits
  <2>2. reply.got = 0
    BY <1>2 DEF NoReply
  <2> QED
    BY <1>2, <2>1, <2>2, NumbersOf
<1>4. CASE primitive.got + Gain >= primitive.goal /\ Replies("ok", primitive.got + Gain)
  <2>1. PICK got \in Nat : got = primitive.got + Gain
    BY NumbersOf
  <2>2. /\ PrimitiveFits' /\ ReplyFits' /\ CountFits' /\ HearthFits'
        /\ primitive' \in InFlights /\ reply' \in [how : Says, got : Nat]
    <3>1. got > 0 /\ Replies("ok", got) /\ (running \in Miners => frames[running].haul + got <= entered)
      BY <1>2, <1>3, <1>4, <2>1, NumbersOf
    <3> QED
      BY <1>1, <1>2, <3>1, SaysAre, InnermostAnswered DEF worldOfSkills
  <2>3. SkillsTyped' /\ Disengages'
    BY <1>1, <2>2 DEF SkillInv, SkillsTyped, Disengages, worldOfSkills
  <2> QED
    BY <1>1, <2>2, <2>3, StackStays DEF SkillInv
<1>5. CASE primitive' = [primitive EXCEPT !.what = "seek", !.got = @ + Gain] /\ UNCHANGED reply
  <2>1. /\ primitive'.what = "seek" /\ primitive'.goal = primitive.goal /\ primitive'.got = primitive.got + Gain
        /\ primitive' \in InFlights
    <3>1. primitive.got + Gain \in Nat /\ "seek" \in Kinds
      BY NumbersOf DEF Kinds
    <3>2. primitive' \in InFlights
      BY <1>1, <1>5, <3>1, ChangesDug
    <3> QED
      BY <1>1, <1>5, <3>2 DEF InFlights
  <2>2. PrimitiveFits' /\ ReplyFits'
    BY <1>1, <1>2, <1>5, <2>1, StaysInFlight DEF Asked
  <2>3. CountFits'
    <3>1. frames[running]' = frames[running] /\ running' = running /\ reply'.got = 0 /\ entered' = entered
      BY <1>1, <1>2, <1>5 DEF worldOfSkills, NoReply
    <3> QED
      BY <1>2, <1>3, <2>1, <3>1, NumbersOf DEF CountFits
  <2>4. HearthFits' /\ Disengages'
    BY <1>1, <2>1 DEF SkillInv, HearthFits, Disengages, worldOfSkills
  <2>5. SkillsTyped'
    BY <1>1, <1>5, <2>1 DEF SkillInv, SkillsTyped, worldOfSkills
  <2> QED
    BY <1>1, <2>2, <2>3, <2>4, <2>5, StackStays DEF SkillInv
<1> QED
  BY <1>4, <1>5 DEF Sweeps

\* Nothing but the furnace and what came out of it changes.
LEMMA HearthKeeps ==
  ASSUME SkillInv, primitive.what = "smelt",
         UNCHANGED <<running, frames, reply, booked, held, fallen, mined, baseline, entered, engaged>>,
         primitive' \in InFlights, primitive'.what = "smelt", hearth' \in [out : Nat, cooking : Nat, found : Nat],
         running \notin Miners,
         primitive'.got + hearth'.out + hearth'.cooking <= primitive'.left + hearth'.found
  PROVE  SkillInv'
<1>1. PrimitiveFits' /\ ReplyFits'
  BY InFlightOf, StaysInFlight DEF Asked
<1>2. CountFits' /\ HearthFits' /\ Disengages'
  BY DEF SkillInv, CountFits, HearthFits, Disengages
<1>3. SkillsTyped'
  BY DEF SkillInv, SkillsTyped
<1> QED
  BY <1>1, <1>2, <1>3, StackStays DEF SkillInv

LEMMA AtTheFurnace ==
  ASSUME SkillInv, primitive.what = "smelt"
  PROVE  /\ reply = NoReply /\ running # "nobody" /\ running \notin Miners
         /\ frames[running].at # Done /\ CallAt(running) = "smelt"
         /\ primitive.got + hearth.out + hearth.cooking <= primitive.left + hearth.found
         /\ primitive \in InFlights /\ hearth \in [out : Nat, cooking : Nat, found : Nat]
<1>1. /\ reply = NoReply /\ running # "nobody" /\ running \in SkillName /\ frames[running].on
      /\ frames[running].at # Done /\ CallAt(running) = "smelt"
  BY InFlightOf DEF Asked
<1> QED
  BY <1>1, MinersMine DEF SkillInv, SkillsTyped, HearthFits

LEMMA FurnaceOpensKeeps == SkillInv /\ OpensFurnace => SkillInv'
<1> SUFFICES ASSUME SkillInv, OpensFurnace PROVE SkillInv'
  OBVIOUS
<1>1. /\ primitive = Untouched /\ reply = NoReply /\ running # "nobody" /\ running \in SkillName
      /\ frames[running].on /\ frames[running].at # Done /\ CallAt(running) = "smelt"
      /\ frames[running].haul < frames[running].want
  BY CallOf DEF OpensFurnace
<1>2. UNCHANGED <<running, frames, booked, held, fallen, mined, baseline, entered, engaged>>
  BY DEF OpensFurnace
<1>3. CASE \E how \in {"MISSING_MATERIALS", "RESOURCE_NOT_FOUND", "PATH_NOT_FOUND"} : Replies(how, 0) /\ UNCHANGED hearth
  <2>1. PICK how \in {"MISSING_MATERIALS", "RESOURCE_NOT_FOUND", "PATH_NOT_FOUND"} : Replies(how, 0) /\ UNCHANGED hearth
    BY <1>3
  <2>2. how \in Says /\ how \in Surface("smelt") /\ "smelt" # "mine"
    BY <2>1 DEF Says, Codes, TripCodes, Surface
  <2>3. hearth' \in [out : Nat, cooking : Nat, found : Nat] /\ engaged' = engaged /\ primitive.what # "fight"
    BY <1>1, <1>2, <2>1 DEF SkillInv, SkillsTyped, Untouched
  <2> QED
    BY <1>1, <1>2, <2>1, <2>2, <2>3, RepliesPlain
<1>4. CASE /\ primitive' = [Untouched EXCEPT !.what = "smelt", !.goal = Top.want]
           /\ \E out, cooking \in 0..1 : hearth' = [out |-> out, cooking |-> cooking, found |-> out + cooking]
           /\ UNCHANGED reply
  <2>1. PICK out \in 0..1, cooking \in 0..1 : hearth' = [out |-> out, cooking |-> cooking, found |-> out + cooking]
    BY <1>4
  <2>2. primitive'.what = "smelt" /\ primitive'.got = 0 /\ primitive'.left = 0 /\ primitive' \in InFlights
    <3>1. frames[running].want \in Int
      BY <1>1, NumbersOf
    <3> QED
      BY <1>4, <3>1 DEF Untouched, Top, InFlights, Kinds
  <2>3. running \notin Miners
    BY <1>1, MinersMine
  <2>4. PrimitiveFits' /\ ReplyFits'
    BY <1>1, <1>2, <1>4, <2>2, StaysInFlight DEF Asked
  <2>5. CountFits' /\ HearthFits' /\ Disengages'
    BY <1>1, <1>2, <2>1, <2>2, <2>3 DEF SkillInv, CountFits, HearthFits, Disengages, Untouched
  <2>6. SkillsTyped'
    BY <1>2, <1>4, <2>1, <2>2 DEF SkillInv, SkillsTyped
  <2> QED
    BY <1>2, <2>4, <2>5, <2>6, StackStays DEF SkillInv
<1> QED
  BY <1>3, <1>4 DEF OpensFurnace

LEMMA TakesKeeps == SkillInv /\ TakesSmelted => SkillInv'
<1> SUFFICES ASSUME SkillInv, TakesSmelted PROVE SkillInv'
  OBVIOUS
<1>1. /\ primitive.what = "smelt" /\ primitive' = [primitive EXCEPT !.got = primitive.got + hearth.out]
      /\ UNCHANGED <<running, frames, reply, booked, held, fallen, mined, baseline, entered, engaged>>
  BY DEF TakesSmelted, Smelting
<1>2. PICK late \in 0..hearth.cooking : hearth' = [hearth EXCEPT !.out = 0, !.cooking = hearth.cooking - late]
  BY DEF TakesSmelted
<1>3. primitive' \in InFlights
  <2>1. primitive \in InFlights /\ primitive.got + hearth.out \in Nat
    BY <1>1, NumbersOf, AtTheFurnace
  <2> QED
    BY <1>1, <2>1, ChangesGot
<1>4. primitive'.what = "smelt" /\ primitive'.got = primitive.got + hearth.out /\ primitive'.left = primitive.left
  BY <1>1, AtTheFurnace DEF InFlights
<1>5. /\ hearth'.out = 0 /\ hearth'.cooking = hearth.cooking - late /\ hearth'.found = hearth.found
      /\ hearth' \in [out : Nat, cooking : Nat, found : Nat]
  <2>1. hearth \in [out : Nat, cooking : Nat, found : Nat] /\ hearth.cooking - late \in Nat /\ hearth.found \in Nat
    BY <1>1, <1>2, NumbersOf, AtTheFurnace
  <2>2. hearth' = [out |-> 0, cooking |-> hearth.cooking - late, found |-> hearth.found]
    BY <1>2, <2>1, ChangesHearth
  <2> QED
    BY <2>1, <2>2
<1>6. primitive'.got + hearth'.out + hearth'.cooking <= primitive'.left + hearth'.found
  BY <1>1, <1>2, <1>4, <1>5, NumbersOf, AtTheFurnace
<1> QED
  BY <1>1, <1>3, <1>4, <1>5, <1>6, AtTheFurnace, HearthKeeps

LEMMA LoadsKeeps == SkillInv /\ LoadsOne => SkillInv'
<1> SUFFICES ASSUME SkillInv, LoadsOne PROVE SkillInv'
  OBVIOUS
<1>1. /\ primitive.what = "smelt" /\ primitive' = [primitive EXCEPT !.left = primitive.left + 1]
      /\ hearth' = [hearth EXCEPT !.cooking = hearth.cooking + 1]
      /\ UNCHANGED <<running, frames, reply, booked, held, fallen, mined, baseline, entered, engaged>>
  BY DEF LoadsOne, Smelting
<1>2. primitive' \in InFlights
  <2>1. primitive \in InFlights /\ primitive.left + 1 \in Nat
    BY <1>1, NumbersOf, AtTheFurnace
  <2> QED
    BY <1>1, <2>1, ChangesLeft
<1>3. primitive'.what = "smelt" /\ primitive'.got = primitive.got /\ primitive'.left = primitive.left + 1
  BY <1>1, AtTheFurnace DEF InFlights
<1>4. /\ hearth'.out = hearth.out /\ hearth'.cooking = hearth.cooking + 1 /\ hearth'.found = hearth.found
      /\ hearth' \in [out : Nat, cooking : Nat, found : Nat]
  <2>1. hearth \in [out : Nat, cooking : Nat, found : Nat] /\ hearth.cooking + 1 \in Nat
        /\ hearth.found \in Nat /\ hearth.out \in Nat
    BY <1>1, NumbersOf, AtTheFurnace
  <2>2. hearth' = [out |-> hearth.out, cooking |-> hearth.cooking + 1, found |-> hearth.found]
    BY <1>1, <2>1, ChangesFire
  <2> QED
    BY <2>1, <2>2
<1>5. primitive'.got + hearth'.out + hearth'.cooking <= primitive'.left + hearth'.found
  BY <1>1, <1>3, <1>4, NumbersOf, AtTheFurnace
<1> QED
  BY <1>1, <1>2, <1>3, <1>4, <1>5, AtTheFurnace, HearthKeeps

LEMMA CooksKeeps == SkillInv /\ FurnaceCooks => SkillInv'
<1> SUFFICES ASSUME SkillInv, FurnaceCooks PROVE SkillInv'
  OBVIOUS
<1>1. /\ primitive.what = "smelt" /\ hearth.cooking > 0 /\ primitive' = primitive
      /\ hearth' = [hearth EXCEPT !.cooking = hearth.cooking - 1, !.out = hearth.out + 1]
      /\ UNCHANGED <<running, frames, reply, booked, held, fallen, mined, baseline, entered, engaged>>
  BY DEF FurnaceCooks
<1>2. /\ hearth'.out = hearth.out + 1 /\ hearth'.cooking = hearth.cooking - 1 /\ hearth'.found = hearth.found
      /\ hearth' \in [out : Nat, cooking : Nat, found : Nat]
  <2>1. hearth \in [out : Nat, cooking : Nat, found : Nat] /\ hearth.cooking - 1 \in Nat
        /\ hearth.found \in Nat /\ hearth.out + 1 \in Nat
    BY <1>1, NumbersOf, AtTheFurnace
  <2>2. hearth' = [out |-> hearth.out + 1, cooking |-> hearth.cooking - 1, found |-> hearth.found]
    BY <1>1, <2>1, ChangesBoth
  <2> QED
    BY <2>1, <2>2
<1>3. primitive'.got + hearth'.out + hearth'.cooking <= primitive'.left + hearth'.found
  BY <1>1, <1>2, NumbersOf, AtTheFurnace
<1> QED
  BY <1>1, <1>2, <1>3, AtTheFurnace, HearthKeeps

LEMMA ShutsKeeps == SkillInv /\ ShutsFurnace => SkillInv'
<1> SUFFICES ASSUME SkillInv, ShutsFurnace PROVE SkillInv'
  OBVIOUS
<1>1. PICK how : /\ how = (IF primitive.got > 0 THEN "ok" ELSE IF primitive.left = 0 THEN "MISSING_MATERIALS" ELSE "TIMEOUT")
                 /\ Replies(how, 0)
  BY DEF ShutsFurnace
<1>2. /\ primitive.what = "smelt" /\ hearth' = ShutHearth
      /\ UNCHANGED <<running, frames, booked, held, fallen, mined, baseline, entered, engaged>>
  BY DEF ShutsFurnace
<1>3. how \in Says /\ how \in {"ok"} \cup Surface("smelt") /\ "smelt" # "mine"
  BY <1>1 DEF Says, Codes, TripCodes, Surface
<1>4. hearth' \in [out : Nat, cooking : Nat, found : Nat] /\ engaged' = engaged /\ primitive.what # "fight"
  BY <1>2 DEF ShutHearth
<1> QED
  BY <1>1, <1>2, <1>3, <1>4, AtTheFurnace, RepliesPlain

\* What a primitive begins as.
LEMMA FlightBegins ==
  /\ \A w \in Kinds : /\ [Untouched EXCEPT !.what = w] \in InFlights
                      /\ [Untouched EXCEPT !.what = w].what = w
  /\ [Untouched EXCEPT !.what = "recover", !.left = 1] \in InFlights
  /\ [Untouched EXCEPT !.what = "recover", !.left = 1].what = "recover"
  /\ {"fight", "explore"} \subseteq Kinds
<1>1. {"fight", "explore", "recover"} \subseteq Kinds /\ 1 \in Nat
  BY DEF Kinds
<1>2. \A w \in Kinds : [Untouched EXCEPT !.what = w] \in InFlights
  BY Clean, ChangesKind
<1>3. \A w \in Kinds : [Untouched EXCEPT !.what = w].what = w
  BY Clean DEF InFlights
<1>4. [Untouched EXCEPT !.what = "recover", !.left = 1] \in InFlights
  BY <1>1, Clean, ChangesDug
<1>5. [Untouched EXCEPT !.what = "recover", !.left = 1].what = "recover"
  BY Clean DEF InFlights
<1> QED
  BY <1>1, <1>2, <1>3, <1>4, <1>5

\* What is no mining and no smelting goes on.
LEMMA FlightKeeps ==
  ASSUME SkillInv, UNCHANGED <<running, frames, reply, booked, held, fallen, mined, baseline, hearth>>,
         reply = NoReply, running # "nobody", running \in SkillName, running \notin Miners, frames[running].at # Done,
         primitive' \in InFlights, primitive'.what \in {"fight", "loot", "explore", "recover"},
         CallAt(running) = Asked(primitive'.what),
         entered' \in Nat, engaged' \in BOOLEAN, engaged' => primitive'.what = "fight"
  PROVE  SkillInv'
<1>1. PrimitiveFits' /\ ReplyFits'
  BY StaysInFlight
<1>2. CountFits' /\ HearthFits' /\ Disengages'
  BY DEF CountFits, HearthFits, Disengages
<1>3. SkillsTyped'
  BY DEF SkillInv, SkillsTyped
<1> QED
  BY <1>1, <1>2, <1>3, StackStays DEF SkillInv

\* What is no mining answers, with a count of its own.
LEMMA RepliesCount ==
  ASSUME SkillInv, NEW got \in Nat, Replies("ok", got), UNCHANGED <<running, frames, booked, worldOfSkills>>,
         running # "nobody", running \in SkillName, running \notin Miners, frames[running].at # Done,
         CallAt(running) \in {"kill", "recover"}, primitive.what # "fight"
  PROVE  SkillInv'
<1>1. /\ PrimitiveFits' /\ ReplyFits' /\ CountFits' /\ HearthFits'
      /\ primitive' \in InFlights /\ reply' \in [how : Says, got : Nat]
  BY SaysAre, InnermostAnswered DEF worldOfSkills
<1>2. SkillsTyped' /\ Disengages'
  BY <1>1 DEF SkillInv, SkillsTyped, Disengages, worldOfSkills
<1> QED
  BY <1>1, <1>2, StackStays DEF SkillInv

LEMMA SeeksKeeps == SkillInv /\ SeeksMob => SkillInv'
<1> SUFFICES ASSUME SkillInv, SeeksMob PROVE SkillInv'
  OBVIOUS
<1>1. /\ primitive = Untouched /\ reply = NoReply /\ running # "nobody" /\ running \in SkillName
      /\ frames[running].on /\ frames[running].at # Done /\ CallAt(running) = "kill"
  BY CallOf DEF SeeksMob
<1>2. UNCHANGED <<running, frames, booked, held, fallen, mined, baseline, entered, hearth>>
  BY DEF SeeksMob
<1>3. running \notin Miners
  BY <1>1, MinersMine
<1>4. CASE \E how \in {"TARGET_NOT_FOUND", "INTERNAL"} : Replies(how, 0) /\ engaged' = FALSE
  <2>1. PICK how \in {"TARGET_NOT_FOUND", "INTERNAL"} : Replies(how, 0) /\ engaged' = FALSE
    BY <1>4
  <2>2. how \in Says /\ how \in Surface("kill") /\ "kill" # "mine"
    BY <2>1 DEF Says, Codes, TripCodes, Surface
  <2>3. hearth' \in [out : Nat, cooking : Nat, found : Nat]
    BY <1>2 DEF SkillInv, SkillsTyped
  <2> QED
    BY <1>1, <1>2, <2>1, <2>2, <2>3, RepliesPlain
<1>5. CASE primitive' = [Untouched EXCEPT !.what = "fight"] /\ engaged' = TRUE /\ UNCHANGED reply
  <2>1. primitive' \in InFlights /\ primitive'.what = "fight"
    BY <1>5, FlightBegins
  <2>2. entered' \in Nat
    BY <1>2, NumbersOf
  <2> QED
    BY <1>1, <1>2, <1>3, <1>5, <2>1, <2>2, FlightKeeps DEF Asked
<1> QED
  BY <1>4, <1>5 DEF SeeksMob

LEMMA FightsKeeps == SkillInv /\ Fights => SkillInv'
<1> SUFFICES ASSUME SkillInv, Fights PROVE SkillInv'
  OBVIOUS
<1>1. /\ primitive.what = "fight" /\ primitive \in InFlights
      /\ UNCHANGED <<running, frames, booked, held, fallen, mined, baseline, entered, hearth>>
  BY DEF Fights, SkillInv, SkillsTyped
<1>2. /\ reply = NoReply /\ running # "nobody" /\ running \in SkillName /\ frames[running].on
      /\ frames[running].at # Done /\ CallAt(running) = "kill"
  BY <1>1, InFlightOf DEF Asked
<1>3. running \notin Miners
  BY <1>2, MinersMine
<1>4. CASE primitive' = [primitive EXCEPT !.what = "loot"] /\ engaged' = FALSE /\ UNCHANGED reply
  <2>1. primitive' \in InFlights
    BY <1>1, <1>4, ChangesKind, "loot" \in Kinds DEF Kinds
  <2>2. primitive'.what = "loot"
    BY <1>1, <1>4 DEF InFlights
  <2>3. entered' \in Nat
    BY <1>1, NumbersOf
  <2> QED
    BY <1>1, <1>2, <1>3, <1>4, <2>1, <2>2, <2>3, FlightKeeps DEF Asked
<1>5. CASE FightEnds
  <2>1. PICK how \in {"TIMEOUT", "INTERNAL"} : Replies(how, 0) /\ engaged' = FALSE
    BY <1>5 DEF FightEnds
  <2>2. how \in Says /\ how \in Surface("kill") /\ "kill" # "mine"
    BY <2>1 DEF Says, Codes, TripCodes, Surface
  <2>3. hearth' \in [out : Nat, cooking : Nat, found : Nat]
    BY <1>1 DEF SkillInv, SkillsTyped
  <2> QED
    BY <1>1, <1>2, <2>1, <2>2, <2>3, RepliesPlain
<1> QED
  BY <1>4, <1>5 DEF Fights

LEMMA LootsKeeps == SkillInv /\ Loots => SkillInv'
<1> SUFFICES ASSUME SkillInv, Loots PROVE SkillInv'
  OBVIOUS
<1>1. PICK n \in Swept(0) : Replies("ok", n)
  BY DEF Loots
<1>2. n \in Nat
  BY <1>1, NumbersOf DEF Swept
<1>3. /\ reply = NoReply /\ running # "nobody" /\ running \in SkillName /\ frames[running].on
      /\ frames[running].at # Done /\ CallAt(running) = "kill"
  BY InFlightOf DEF Asked, Loots
<1> QED
  BY <1>1, <1>2, <1>3, MinersMine, RepliesCount DEF Loots

LEMMA ExploresKeeps == SkillInv /\ Explores => SkillInv'
<1> SUFFICES ASSUME SkillInv, Explores PROVE SkillInv'
  OBVIOUS
<1>1. UNCHANGED <<running, frames, booked, worldOfSkills>>
  BY DEF Explores
<1>2. entered' \in Nat /\ engaged' \in BOOLEAN /\ hearth' \in [out : Nat, cooking : Nat, found : Nat]
  BY <1>1 DEF SkillInv, SkillsTyped, worldOfSkills
<1>3. primitive.what # "fight" => ~engaged'
  BY <1>1 DEF SkillInv, Disengages, worldOfSkills
<1>4. CASE Calling("explore") /\ primitive' = [Untouched EXCEPT !.what = "explore"] /\ UNCHANGED reply
  <2>1. /\ primitive = Untouched /\ reply = NoReply /\ running # "nobody" /\ running \in SkillName
        /\ frames[running].on /\ frames[running].at # Done /\ CallAt(running) = "explore"
    BY <1>4, CallOf
  <2>2. primitive' \in InFlights /\ primitive'.what = "explore" /\ primitive.what # "fight"
    BY <1>4, <2>1, FlightBegins DEF Untouched
  <2> QED
    BY <1>1, <1>2, <1>3, <1>4, <2>1, <2>2, MinersMine, FlightKeeps DEF Asked, worldOfSkills
<1>5. CASE /\ primitive.what = "explore" /\ primitive.left < BlockedLegs
           /\ \E moved \in BOOLEAN : primitive' = [primitive EXCEPT !.left = IF moved THEN 0 ELSE @ + 1]
           /\ UNCHANGED reply
  <2>1. /\ reply = NoReply /\ running # "nobody" /\ running \in SkillName /\ frames[running].on
        /\ frames[running].at # Done /\ CallAt(running) = "explore"
    BY <1>5, InFlightOf DEF Asked
  <2>2. PICK n : primitive' = [primitive EXCEPT !.left = n] /\ (n = 0 \/ n = primitive.left + 1)
    <3>1. PICK moved \in BOOLEAN : primitive' = [primitive EXCEPT !.left = IF moved THEN 0 ELSE @ + 1]
      BY <1>5
    <3> QED
      BY <3>1
  <2>3. primitive \in InFlights /\ n \in Nat
    BY <2>2, NumbersOf DEF SkillInv, SkillsTyped
  <2>4. primitive' \in InFlights
    BY <2>2, <2>3, ChangesLeft
  <2>5. primitive'.what = "explore"
    BY <1>5, <2>2, <2>3 DEF InFlights
  <2> QED
    BY <1>1, <1>2, <1>3, <1>5, <2>1, <2>4, <2>5, MinersMine, FlightKeeps DEF Asked, worldOfSkills
<1>6. CASE /\ primitive.what = "explore"
           /\ \E how \in {"ok", "INTERNAL", IF primitive.left = BlockedLegs THEN "PATH_NOT_FOUND" ELSE "TIMEOUT"} : Replies(how, 0)
  <2>1. PICK how : Replies(how, 0) /\ how \in {"ok", "INTERNAL", "PATH_NOT_FOUND", "TIMEOUT"}
    <3>1. PICK how \in {"ok", "INTERNAL", IF primitive.left = BlockedLegs THEN "PATH_NOT_FOUND" ELSE "TIMEOUT"} : Replies(how, 0)
      BY <1>6
    <3> QED
      BY <3>1
  <2>2. how \in Says /\ how \in {"ok"} \cup Surface("explore") /\ "explore" # "mine"
    BY <2>1 DEF Says, Codes, TripCodes, Surface
  <2>3. running # "nobody" /\ frames[running].at # Done /\ CallAt(running) = "explore"
    BY <1>6, InFlightOf DEF Asked
  <2> QED
    BY <1>1, <1>2, <1>6, <2>1, <2>2, <2>3, RepliesPlain DEF worldOfSkills
<1> QED
  BY <1>4, <1>5, <1>6 DEF Explores

LEMMA DigsUpKeeps == SkillInv /\ DigsUp => SkillInv'
<1> SUFFICES ASSUME SkillInv, DigsUp PROVE SkillInv'
  OBVIOUS
<1>1. /\ primitive = Untouched /\ reply = NoReply /\ running # "nobody" /\ running \in SkillName
      /\ frames[running].on /\ frames[running].at # Done /\ CallAt(running) = "recover"
  BY CallOf DEF DigsUp
<1>2. UNCHANGED <<running, frames, booked, worldOfSkills>>
  BY DEF DigsUp
<1>3. primitive.what # "fight" /\ ~engaged'
  BY <1>1, <1>2 DEF SkillInv, Disengages, worldOfSkills, Untouched
<1>4. entered' \in Nat /\ engaged' \in BOOLEAN /\ hearth' \in [out : Nat, cooking : Nat, found : Nat]
  BY <1>2 DEF SkillInv, SkillsTyped, worldOfSkills
<1>5. CASE \E how \in {"PATH_NOT_FOUND", "TARGET_NOT_FOUND", "INTERNAL"} : Replies(how, 0)
  <2>1. PICK how \in {"PATH_NOT_FOUND", "TARGET_NOT_FOUND", "INTERNAL"} : Replies(how, 0)
    BY <1>5
  <2>2. how \in Says /\ how \in Surface("recover") /\ "recover" # "mine"
    BY <2>1 DEF Says, Codes, TripCodes, Surface
  <2> QED
    BY <1>1, <1>2, <1>3, <1>4, <2>1, <2>2, RepliesPlain DEF worldOfSkills
<1>6. CASE primitive' = [Untouched EXCEPT !.what = "recover", !.left = 1] /\ UNCHANGED reply
  <2>1. primitive' \in InFlights /\ primitive'.what = "recover"
    BY <1>6, FlightBegins
  <2> QED
    BY <1>1, <1>2, <1>3, <1>4, <1>6, <2>1, MinersMine, FlightKeeps DEF Asked, worldOfSkills
<1> QED
  BY <1>5, <1>6 DEF DigsUp

LEMMA RecoversDropKeeps == SkillInv /\ RecoversDrop => SkillInv'
<1> SUFFICES ASSUME SkillInv, RecoversDrop PROVE SkillInv'
  OBVIOUS
<1>1. /\ primitive.what = "recover" /\ primitive \in InFlights
      /\ primitive' = [primitive EXCEPT !.left = 0, !.got = 1] /\ entered' = entered + 1
      /\ UNCHANGED <<running, frames, reply, booked, held, fallen, mined, baseline, engaged, hearth>>
  BY DEF RecoversDrop, SkillInv, SkillsTyped
<1>2. /\ reply = NoReply /\ running # "nobody" /\ running \in SkillName /\ frames[running].on
      /\ frames[running].at # Done /\ CallAt(running) = "recover"
  BY <1>1, InFlightOf DEF Asked
<1>3. primitive' \in InFlights /\ primitive'.what = "recover"
  BY <1>1 DEF InFlights, Kinds
<1>4. entered' \in Nat /\ engaged' \in BOOLEAN /\ ~engaged'
  BY <1>1, NumbersOf DEF SkillInv, SkillsTyped, Disengages
<1> QED
  BY <1>1, <1>2, <1>3, <1>4, MinersMine, FlightKeeps DEF Asked

LEMMA RecoversKeeps == SkillInv /\ Recovers => SkillInv'
<1> SUFFICES ASSUME SkillInv, Recovers PROVE SkillInv'
  OBVIOUS
<1>1. PICK n \in Swept(primitive.got) : Replies("ok", IF n > 0 THEN 1 ELSE 0)
  BY DEF Recovers
<1>2. PICK got \in Nat : got = (IF n > 0 THEN 1 ELSE 0)
  OBVIOUS
<1>3. /\ reply = NoReply /\ running # "nobody" /\ running \in SkillName /\ frames[running].on
      /\ frames[running].at # Done /\ CallAt(running) = "recover"
  BY InFlightOf DEF Asked, Recovers
<1> QED
  BY <1>1, <1>2, <1>3, MinersMine, RepliesCount DEF Recovers

\* The pack changes under a skill: what is gained by a pickup entered with it.
LEMMA PackKeeps ==
  ASSUME SkillInv, UNCHANGED <<running, frames, primitive, reply, booked, mined, baseline, engaged, hearth>>,
         held' \in Nat, fallen' \in Nat, entered' \in Nat, Gain' - Gain <= entered' - entered, entered' >= entered
  PROVE  SkillInv'
<1>1. PrimitiveFits' /\ ReplyFits'
  BY DEF SkillInv, PrimitiveFits, ReplyFits, CallAt
<1>2. CountFits'
  <2>1. CASE running \in Miners
    <3>1. running \in SkillName
      BY <2>1, SkillWords
    <3>2. Gain' \in Nat
      BY NumbersOf DEF Gain
    <3>3. CASE primitive.what = "sweep"
      <4>1. frames[running].haul + primitive.got + reply.got + Gain <= entered
        BY <2>1, <3>3 DEF SkillInv, CountFits
      <4>2. frames[running].haul + primitive.got + reply.got + Gain' <= entered'
        BY <3>1, <3>2, <4>1, NumbersOf
      <4> QED
        BY <3>3, <4>2 DEF CountFits
    <3>4. CASE primitive.what # "sweep"
      <4>1. frames[running].haul + primitive.got + reply.got + 0 <= entered
        BY <2>1, <3>4 DEF SkillInv, CountFits
      <4>2. frames[running].haul + primitive.got + reply.got + 0 <= entered'
        BY <3>1, <4>1, NumbersOf
      <4> QED
        BY <3>4, <4>2 DEF CountFits
    <3> QED
      BY <3>3, <3>4
  <2> QED
    BY <2>1 DEF CountFits
<1>3. HearthFits' /\ Disengages'
  BY DEF SkillInv, HearthFits, Disengages
<1>4. SkillsTyped'
  BY DEF SkillInv, SkillsTyped
<1> QED
  BY <1>1, <1>2, <1>3, <1>4, StackStays DEF SkillInv

LEMMA PicksUpKeeps == SkillInv /\ BodyPicksUp => SkillInv'
<1> SUFFICES ASSUME SkillInv, BodyPicksUp PROVE SkillInv'
  OBVIOUS
<1>1. /\ fallen > 0 /\ fallen' = fallen - 1 /\ held' = held + 1 /\ entered' = entered + 1
      /\ UNCHANGED <<running, frames, primitive, reply, booked, mined, baseline, engaged, hearth>>
  BY DEF BodyPicksUp
<1>2. Gain' - Gain <= entered' - entered
  BY <1>1, NumbersOf DEF Gain
<1> QED
  BY <1>1, <1>2, NumbersOf, PackKeeps

LEMMA LosesKeeps == SkillInv /\ BodyLoses => SkillInv'
<1> SUFFICES ASSUME SkillInv, BodyLoses PROVE SkillInv'
  OBVIOUS
<1>1. /\ held > 0 /\ held' = held - 1
      /\ UNCHANGED <<running, frames, primitive, reply, booked, fallen, mined, baseline, entered, engaged, hearth>>
  BY DEF BodyLoses
<1>2. Gain' - Gain <= entered' - entered
  BY <1>1, NumbersOf DEF Gain
<1> QED
  BY <1>1, <1>2, NumbersOf, PackKeeps

LEMMA RestingIs == Resting \in Activations /\ ~Resting.on /\ Resting.caller = "registry"
BY DEF Resting, Activations, Says, Done

LEMMA BegunIs ==
  ASSUME NEW c \in Callers \cup {"registry"}, NEW want \in Nat
  PROVE  /\ Begun(c, want) \in Activations /\ Begun(c, want).on /\ Begun(c, want).caller = c
         /\ Begun(c, want).at = 1 /\ Begun(c, want).want = want /\ Begun(c, want).haul = 0
<1>1. 1 \in Nat /\ 0 \in Nat /\ TRUE \in BOOLEAN /\ {} \in SUBSET Says
  OBVIOUS
<1>2. Begun(c, want) \in Activations
  BY <1>1 DEF Begun, Resting, Activations, Done
<1> QED
  BY <1>2 DEF Begun, Resting, Activations, Done

\* What has not begun to answer has nothing in flight.
LEMMA NobodyAtWork ==
  ASSUME SkillInv, running = "nobody"
  PROVE  primitive = Untouched /\ reply = NoReply /\ (\A s \in SkillName : ~frames[s].on)
BY DEF SkillInv, PrimitiveFits, ReplyFits, StackFits

LEMMA StillNothing ==
  ASSUME SkillInv, UNCHANGED <<held, fallen, mined, baseline, engaged>>, entered' \in Nat,
         hearth' \in [out : Nat, cooking : Nat, found : Nat],
         primitive' = Untouched, reply' = NoReply, ~engaged',
         running' \in SkillName \cup {"nobody"}, frames' \in [SkillName -> Activations],
         booked' \in [skill : SkillName \cup {"none"}, how : Says, told : Nat, entered : Nat],
         running' \in Miners => frames'[running'].haul <= entered'
  PROVE  SkillsTyped' /\ PrimitiveFits' /\ ReplyFits' /\ CountFits' /\ HearthFits' /\ Disengages'
<1>1. PrimitiveFits' /\ ReplyFits' /\ HearthFits' /\ Disengages'
  BY DEF PrimitiveFits, ReplyFits, HearthFits, Disengages, Untouched
<1>2. CountFits'
  <2>1. running' \in Miners => frames'[running'].haul \in Nat
    BY SkillWords DEF Activations
  <2> QED
    BY <2>1 DEF CountFits, Untouched, NoReply
<1>3. SkillsTyped'
  <2>1. NoReply \in [how : Says, got : Nat]
    BY DEF NoReply, Says
  <2> QED
    BY <2>1, Clean DEF SkillInv, SkillsTyped
<1> QED
  BY <1>1, <1>2, <1>3

LEMMA InvokesKeeps == SkillInv /\ (\E s \in SkillName : Invokes(s)) => SkillInv'
<1> SUFFICES ASSUME SkillInv, NEW s \in SkillName, Invokes(s) PROVE SkillInv'
  OBVIOUS
<1>1. PICK want \in 1..MaxWant : frames' = [frames EXCEPT ![s] = Begun("registry", want)]
  BY DEF Invokes
<1>2. /\ running = "nobody" /\ running' = s /\ booked' = Unbooked /\ entered' = 0
      /\ UNCHANGED <<primitive, reply, held, fallen, mined, baseline, engaged, hearth>>
  BY DEF Invokes
<1>3. primitive = Untouched /\ reply = NoReply /\ (\A t \in SkillName : ~frames[t].on)
  BY <1>2, NobodyAtWork
<1>4. want \in Nat /\ want > 0
  BY <1>1, SkillAssumption
<1>5. PICK b : b = Begun("registry", want)
  OBVIOUS
<1>6. b \in Activations /\ b.on /\ b.caller = "registry" /\ b.at = 1 /\ b.want = want /\ b.haul = 0
  BY <1>4, <1>5, BegunIs
<1>7. /\ frames' \in [SkillName -> Activations] /\ frames'[s] = b
      /\ \A t \in SkillName \ {s} : frames'[t] = frames[t]
  BY <1>1, <1>5, <1>6 DEF SkillInv, SkillsTyped
<1>8. StackFits'
  <2>1. FrameFits(s)'
    BY <1>4, <1>6, <1>7, LabelsAreNat DEF FrameFits, Done
  <2>2. Linked(s)' /\ Waits(s)'
    BY <1>2, <1>6, <1>7 DEF Linked, Waits
  <2>3. ASSUME NEW t \in SkillName, t # s PROVE FrameFits(t)' /\ Linked(t)' /\ Waits(t)'
    BY <1>3, <1>7, <2>3 DEF FrameFits, Linked, Waits
  <2> QED
    BY <1>2, <1>6, <1>7, <2>1, <2>2, <2>3, SkillWords DEF StackFits
<1>9. ~engaged'
  BY <1>2, <1>3 DEF SkillInv, SkillsTyped, Disengages, Untouched
<1>10. /\ booked' \in [skill : SkillName \cup {"none"}, how : Says, told : Nat, entered : Nat]
       /\ booked'.skill = "none"
  BY <1>2 DEF Unbooked, Says
<1>11. SkillsTyped' /\ PrimitiveFits' /\ ReplyFits' /\ CountFits' /\ HearthFits' /\ Disengages'
  BY <1>2, <1>3, <1>6, <1>7, <1>9, <1>10, StillNothing DEF SkillInv, SkillsTyped
<1>12. FailsAsPromised' /\ CountsWhatItTook'
  BY <1>10, SkillWords DEF FailsAsPromised, CountsWhatItTook
<1> QED
  BY <1>8, <1>11, <1>12 DEF SkillInv

LEMMA RefusesKeeps == SkillInv /\ (\E s \in SkillName : Refuses(s)) => SkillInv'
<1> SUFFICES ASSUME SkillInv, NEW s \in SkillName, Refuses(s) PROVE SkillInv'
  OBVIOUS
<1>1. /\ running = "nobody" /\ Library[s].refuses # "none" /\ entered' = 0
      /\ booked' = [Record(s, Library[s].refuses, 0) EXCEPT !.entered = 0]
      /\ UNCHANGED <<running, frames, primitive, reply, held, fallen, mined, baseline, engaged, hearth>>
  BY DEF Refuses
<1>2. primitive = Untouched /\ reply = NoReply
  BY <1>1, NobodyAtWork
<1>3. StackFits'
  BY <1>1 DEF SkillInv, StackFits, FrameFits, Linked, Waits, CallAt
<1>4. ~engaged'
  BY <1>1, <1>2 DEF SkillInv, SkillsTyped, Disengages, Untouched
<1>5. Library[s].refuses \in Promised(s) /\ Library[s].refuses \in Says /\ Library[s].refuses # "ok"
  <2>1. Library[s].refuses \in Promised(s) \cap Codes
    BY <1>1, SkillsFit DEF SkillFits, RefusesAsPromised
  <2> QED
    BY <2>1 DEF Says, Codes, TripCodes
<1>6. booked' = [skill |-> s, how |-> Library[s].refuses, told |-> 0, entered |-> 0]
  BY <1>1 DEF Record
<1>7. booked' \in [skill : SkillName \cup {"none"}, how : Says, told : Nat, entered : Nat]
  BY <1>5, <1>6
<1>8. SkillsTyped' /\ PrimitiveFits' /\ ReplyFits' /\ CountFits' /\ HearthFits' /\ Disengages'
  BY <1>1, <1>2, <1>4, <1>7, SkillWords, StillNothing DEF SkillInv, SkillsTyped
<1>9. FailsAsPromised' /\ CountsWhatItTook'
  BY <1>5, <1>6 DEF FailsAsPromised, CountsWhatItTook, Promised
<1> QED
  BY <1>3, <1>8, <1>9 DEF SkillInv

LEMMA CallsKeeps == SkillInv /\ (\E s \in SkillName : CallsSkill(s)) => SkillInv'
<1> SUFFICES ASSUME SkillInv, NEW s \in SkillName, CallsSkill(s) PROVE SkillInv'
  OBVIOUS
<1>1. PICK want \in 1..MaxWant : frames' = [frames EXCEPT ![s] = Begun(running, want)]
  BY DEF CallsSkill
<1>2. running' = s /\ UNCHANGED <<primitive, reply, booked, worldOfSkills>>
  BY DEF CallsSkill
<1>3. /\ primitive = Untouched /\ reply = NoReply /\ running # "nobody" /\ running \in SkillName
      /\ frames[running].on /\ frames[running].at # Done /\ CallAt(running) = s
  BY CallOf DEF CallsSkill
<1>4. s \in Called /\ running \in Callers /\ SkillRank(s) < SkillRank(running)
  BY <1>3, AtAStep, SkillWords DEF StepFits, CallAt
<1>5. ~frames[s].on
  <2>1. frames[s].on => SkillRank(running) <= SkillRank(s)
    BY Innermost
  <2>2. SkillRank(s) \in 0..2 /\ SkillRank(running) \in 0..2
    BY DEF SkillRank
  <2> QED
    BY <1>4, <2>1, <2>2
<1>6. want \in Nat /\ want > 0
  BY <1>1, SkillAssumption
<1>7. PICK b : b = Begun(running, want)
  OBVIOUS
<1>8. b \in Activations /\ b.on /\ b.caller = running /\ b.at = 1 /\ b.want = want /\ b.haul = 0
  BY <1>4, <1>6, <1>7, BegunIs
<1>9. /\ frames' \in [SkillName -> Activations] /\ frames'[s] = b
      /\ \A t \in SkillName \ {s} : frames'[t] = frames[t]
  BY <1>1, <1>7, <1>8 DEF SkillInv, SkillsTyped
<1>10. running # s
  BY <1>3, <1>5
<1>11. StackFits'
  <2>1. FrameFits(s)'
    BY <1>6, <1>8, <1>9, LabelsAreNat DEF FrameFits, Done
  <2>2. Linked(s)'
    BY <1>3, <1>4, <1>8, <1>9, <1>10 DEF Linked, CallAt
  <2>3. Waits(s)'
    BY <1>2 DEF Waits
  <2>4. ASSUME NEW t \in SkillName, t # s PROVE FrameFits(t)'
    BY <1>9, <2>4 DEF SkillInv, StackFits, FrameFits
  <2>5. ASSUME NEW t \in SkillName, t # s PROVE Linked(t)'
    <3>1. SUFFICES ASSUME frames[t].on, frames[t].caller # "registry" PROVE Linked(t)'
      BY <1>9, <2>5 DEF Linked
    <3>2. /\ t \in Called /\ frames[t].caller \in Callers /\ frames[t].caller \in SkillName /\ frames[frames[t].caller].on
          /\ frames[frames[t].caller].at # Done /\ CallAt(frames[t].caller) = t
      BY <3>1, RanksBelow
    <3>3. frames[t].caller # s
      BY <1>5, <3>2
    <3> QED
      BY <1>9, <2>5, <3>2, <3>3 DEF Linked, CallAt
  <2>6. ASSUME NEW t \in SkillName, t # s PROVE Waits(t)'
    <3>1. SUFFICES ASSUME frames[t].on PROVE \E u \in SkillName : frames'[u].on /\ frames'[u].caller = t
      BY <1>9, <2>6 DEF Waits
    <3>2. CASE t = running
      BY <1>8, <1>9, <3>2
    <3>3. CASE t # running
      <4>1. PICK u \in SkillName : frames[u].on /\ frames[u].caller = t
        BY <3>1, <3>3 DEF SkillInv, StackFits, Waits
      <4> QED
        BY <1>5, <1>9, <4>1
    <3> QED
      BY <3>2, <3>3
  <2> QED
    BY <1>2, <1>8, <1>9, <2>1, <2>2, <2>3, <2>4, <2>5, <2>6, SkillWords DEF StackFits
<1>12. ~engaged'
  BY <1>2, <1>3 DEF SkillInv, SkillsTyped, Disengages, Untouched, worldOfSkills
<1>13. SkillsTyped' /\ PrimitiveFits' /\ ReplyFits' /\ CountFits' /\ HearthFits' /\ Disengages'
  <2>1. running' \notin Miners
    BY <1>2, <1>4, SkillWords
  <2> QED
    BY <1>2, <1>3, <1>9, <1>12, <2>1, StillNothing DEF SkillInv, SkillsTyped, worldOfSkills
<1>14. FailsAsPromised' /\ CountsWhatItTook'
  BY <1>2 DEF SkillInv, FailsAsPromised, CountsWhatItTook
<1> QED
  BY <1>11, <1>13, <1>14 DEF SkillInv

LEMMA ActivationMoves ==
  ASSUME NEW f \in Activations, NEW label \in Nat, NEW haul \in Nat, NEW mended \in SUBSET Says
  PROVE  [f EXCEPT !.at = label, !.haul = haul, !.mended = mended] \in Activations
BY DEF Activations

\* The innermost goes on to a label of its plan.
LEMMA GoesKeeps ==
  ASSUME SkillInv, running # "nobody", frames[running].on,
         NEW label \in Labels(running), NEW haul \in Nat, NEW mended \in SUBSET Says,
         GoesTo(label, haul, mended), primitive = Untouched,
         label # Done => haul < frames[running].want,
         running \notin Tellers => haul = 0,
         running \in Miners \ Ores /\ label = Done => haul > 0,
         running \in Miners => haul <= entered
  PROVE  SkillInv'
<1>1. running \in SkillName
  BY DEF SkillInv, SkillsTyped
<1>2. /\ frames' = [frames EXCEPT ![running] = [frames[running] EXCEPT !.at = label, !.haul = haul, !.mended = mended]]
      /\ reply' = NoReply /\ UNCHANGED <<running, primitive, booked, worldOfSkills>>
  BY DEF GoesTo, Top
<1>3. PICK b : b = [frames[running] EXCEPT !.at = label, !.haul = haul, !.mended = mended]
  OBVIOUS
<1>4. /\ b \in Activations /\ b.on = frames[running].on /\ b.caller = frames[running].caller /\ b.want = frames[running].want
      /\ b.at = label /\ b.haul = haul
  <2>1. frames[running] \in Activations
    BY <1>1 DEF SkillInv, SkillsTyped
  <2>2. label \in Nat
    BY <1>1, LabelsAreNat
  <2>3. b \in Activations
    BY <1>3, <2>1, <2>2, ActivationMoves
  <2> QED
    BY <1>3, <2>1, <2>3 DEF Activations
<1>5. /\ frames' \in [SkillName -> Activations] /\ frames'[running] = b
      /\ \A t \in SkillName \ {running} : frames'[t] = frames[t]
  BY <1>1, <1>2, <1>3, <1>4 DEF SkillInv, SkillsTyped
<1>6. \A t \in SkillName : frames'[t].on = frames[t].on /\ frames'[t].caller = frames[t].caller
  BY <1>4, <1>5
<1>7. StackFits'
  <2>1. ASSUME NEW t \in SkillName PROVE FrameFits(t)'
    <3>1. CASE t = running
      BY <1>4, <1>5, <3>1 DEF FrameFits
    <3>2. CASE t # running
      BY <1>5, <3>2 DEF SkillInv, StackFits, FrameFits
    <3> QED
      BY <3>1, <3>2
  <2>2. ASSUME NEW t \in SkillName PROVE Linked(t)'
    <3>1. SUFFICES ASSUME frames[t].on, frames[t].caller # "registry" PROVE Linked(t)'
      BY <1>6 DEF Linked
    <3>2. /\ t \in Called /\ frames[t].caller \in Callers /\ frames[t].caller \in SkillName /\ frames[frames[t].caller].on
          /\ frames[frames[t].caller].at # Done /\ CallAt(frames[t].caller) = t
      BY <3>1, RanksBelow
    <3>3. frames[t].caller # running
      BY <3>1, NobodyUnder
    <3>4. frames'[frames[t].caller] = frames[frames[t].caller]
      BY <1>5, <3>2, <3>3
    <3>5. Linked(t)' = (frames'[t].on /\ frames'[t].caller # "registry" =>
            /\ t \in Called /\ frames'[t].caller \in Callers /\ frames'[frames'[t].caller].on
            /\ frames'[frames'[t].caller].at # Done /\ Library[frames'[t].caller].steps[frames'[frames'[t].caller].at].call = t)
      BY DEF Linked, CallAt
    <3> QED
      BY <1>6, <3>2, <3>4, <3>5 DEF CallAt
  <2>3. ASSUME NEW t \in SkillName PROVE Waits(t)'
    BY <1>2, <1>6 DEF SkillInv, StackFits, Waits
  <2> QED
    BY <1>1, <1>2, <1>6, <2>1, <2>2, <2>3 DEF StackFits
<1>8. ~engaged'
  BY <1>2 DEF SkillInv, SkillsTyped, Disengages, Untouched, worldOfSkills
<1>9. SkillsTyped' /\ PrimitiveFits' /\ ReplyFits' /\ CountFits' /\ HearthFits' /\ Disengages'
  <2>1. running' \in Miners => frames'[running'].haul <= entered'
    BY <1>2, <1>4, <1>5 DEF worldOfSkills
  <2> QED
    BY <1>2, <1>5, <1>8, <2>1, StillNothing DEF SkillInv, SkillsTyped, worldOfSkills
<1>10. FailsAsPromised' /\ CountsWhatItTook'
  BY <1>2 DEF SkillInv, FailsAsPromised, CountsWhatItTook
<1> QED
  BY <1>7, <1>9, <1>10 DEF SkillInv

\* The innermost ends, and whoever called it has its answer.
LEMMA SkillEndsKeeps ==
  ASSUME SkillInv, running # "nobody", primitive = Untouched, NEW how \in Says, NEW told \in Nat,
         EndsWith(how, told), UNCHANGED <<primitive, worldOfSkills>>,
         how \in {"ok"} \cup Promised(running),
         running \in Called => how \in {"ok"} \cup TripFails,
         running \in Miners /\ how = "ok" => 0 < told /\ told <= entered
  PROVE  SkillInv'
<1>1. running \in SkillName /\ frames[running].on
  BY DEF SkillInv, SkillsTyped, StackFits
<1>2. frames' = [frames EXCEPT ![running] = Resting]
  BY DEF EndsWith
<1>3. /\ frames' \in [SkillName -> Activations] /\ ~frames'[running].on
      /\ \A t \in SkillName \ {running} : frames'[t] = frames[t]
  BY <1>1, <1>2, RestingIs DEF SkillInv, SkillsTyped
<1>4. ~engaged'
  BY DEF SkillInv, SkillsTyped, Disengages, Untouched, worldOfSkills
<1>5. CASE frames[running].caller = "registry"
  <2>1. running' = "nobody" /\ reply' = NoReply /\ booked' = [skill |-> running, how |-> how, told |-> told, entered |-> entered]
    BY <1>5 DEF EndsWith, Top, Record
  <2>2. \A t \in SkillName : ~frames'[t].on
    BY <1>3, <1>5, Alone
  <2>3. StackFits'
    BY <2>1, <2>2, SkillWords DEF StackFits, FrameFits, Linked, Waits
  <2>4. booked' \in [skill : SkillName \cup {"none"}, how : Says, told : Nat, entered : Nat]
    BY <1>1, <2>1, NumbersOf
  <2>5. SkillsTyped' /\ PrimitiveFits' /\ ReplyFits' /\ CountFits' /\ HearthFits' /\ Disengages'
    BY <1>3, <1>4, <2>1, <2>4, SkillWords, StillNothing DEF SkillInv, SkillsTyped, worldOfSkills
  <2>6. FailsAsPromised' /\ CountsWhatItTook'
    BY <2>1 DEF FailsAsPromised, CountsWhatItTook, Promised
  <2> QED
    BY <2>3, <2>5, <2>6 DEF SkillInv
<1>6. CASE frames[running].caller # "registry"
  <2>1. PICK c : c = frames[running].caller
    OBVIOUS
  <2>2. /\ running \in Called /\ c \in Callers /\ c \in SkillName /\ frames[c].on /\ frames[c].at # Done
        /\ CallAt(c) = running
    BY <1>1, <1>6, <2>1, RanksBelow
  <2>3. c # running
    BY <1>1, <2>1, NobodyUnder
  <2>4. running' = c /\ reply' = [how |-> how, got |-> 0] /\ booked' = booked
    BY <1>6, <2>1 DEF EndsWith, Top
  <2>5. frames'[c] = frames[c] /\ CallAt(c)' = running
    BY <1>3, <2>2, <2>3 DEF CallAt
  <2>6. StackFits'
    <3>1. ASSUME NEW t \in SkillName, frames'[t].on PROVE FrameFits(t)' /\ Linked(t)' /\ Waits(t)'
      <4>1. t # running /\ frames'[t] = frames[t] /\ frames[t].on
        BY <1>3, <3>1
      <4>2. FrameFits(t)'
        BY <4>1 DEF SkillInv, StackFits, FrameFits
      <4>3. Linked(t)'
        <5>1. SUFFICES ASSUME frames[t].caller # "registry" PROVE Linked(t)'
          BY <4>1 DEF Linked
        <5>2. /\ t \in Called /\ frames[t].caller \in Callers /\ frames[t].caller \in SkillName
              /\ frames[frames[t].caller].on
              /\ frames[frames[t].caller].at # Done /\ CallAt(frames[t].caller) = t
          BY <4>1, <5>1, RanksBelow
        <5>3. frames'[frames[t].caller] = frames[frames[t].caller]
          BY <1>3, <4>1, <5>2, NobodyUnder
        <5> QED
          BY <4>1, <5>2, <5>3 DEF Linked, CallAt
      <4>4. Waits(t)'
        <5>1. SUFFICES ASSUME t # c PROVE \E u \in SkillName : frames'[u].on /\ frames'[u].caller = t
          BY <2>4 DEF Waits
        <5>2. PICK u \in SkillName : frames[u].on /\ frames[u].caller = t
          BY <4>1 DEF SkillInv, StackFits, Waits
        <5>3. u # running
          BY <2>1, <5>1, <5>2
        <5> QED
          BY <1>3, <5>2, <5>3
      <4> QED
        BY <4>2, <4>3, <4>4
    <3>2. ASSUME NEW t \in SkillName, ~frames'[t].on PROVE FrameFits(t)' /\ Linked(t)' /\ Waits(t)'
      BY <3>2 DEF FrameFits, Linked, Waits
    <3> QED
      BY <2>2, <2>4, <2>5, <3>1, <3>2, SkillWords DEF StackFits
  <2>7. running' # "nobody" /\ running' \notin Miners /\ running' \in SkillName
    BY <2>2, <2>4, SkillWords
  <2>8. ReplyFits'
    <3>1. Surface(running) = TripFails /\ running \notin {"mine", "kill", "recover"}
      BY <2>2 DEF Called, Surface
    <3>2. CallAt(running)' = CallAt(c)'
      BY <2>4 DEF CallAt
    <3>3. CallAt(running)' = running
      BY <2>5, <3>2
    <3>4. frames'[running'].at # Done /\ reply'.how = how /\ reply'.got = 0
      BY <2>2, <2>4, <2>5
    <3>5. reply'.how \in {"ok"} \cup Surface(CallAt(running)')
      BY <2>2, <3>1, <3>3, <3>4
    <3> QED
      BY <2>7, <3>1, <3>3, <3>4, <3>5 DEF ReplyFits
  <2>9. PrimitiveFits' /\ CountFits' /\ HearthFits' /\ Disengages'
    BY <1>4, <2>7 DEF PrimitiveFits, CountFits, HearthFits, Disengages, Untouched
  <2>10. SkillsTyped'
    <3>1. reply' \in [how : Says, got : Nat]
      BY <2>4
    <3> QED
      BY <1>3, <2>4, <2>7, <3>1 DEF SkillInv, SkillsTyped, worldOfSkills
  <2>11. FailsAsPromised' /\ CountsWhatItTook'
    BY <2>4 DEF SkillInv, FailsAsPromised, CountsWhatItTook
  <2> QED
    BY <2>6, <2>8, <2>9, <2>10, <2>11 DEF SkillInv
<1> QED
  BY <1>5, <1>6

\* What the innermost may do with an answer.
LEMMA AnswerOf ==
  ASSUME SkillInv, Thinking, reply # NoReply
  PROVE  /\ primitive = Untouched /\ running # "nobody" /\ running \in SkillName /\ frames[running].on
         /\ frames[running].at # Done /\ frames[running].haul < frames[running].want
         /\ Top = frames[running] /\ Here = Library[running].steps[frames[running].at] /\ Here.call = CallAt(running)
         /\ StepFits(running, Here) /\ reply.how \in {"ok"} \cup Surface(Here.call)
         /\ reply.got > 0 => CallAt(running) \in {"mine", "kill", "recover"}
         /\ (CallAt(running) = "mine" /\ reply.how = "ok") => reply.got > 0
         /\ running \notin Tellers => frames[running].haul = 0
         /\ frames[running].mended \in SUBSET Says /\ reply.how \in Says
         /\ running \in Miners => frames[running].haul + reply.got <= entered
<1>1. /\ primitive = Untouched /\ running # "nobody" /\ running \in SkillName /\ frames[running].on
      /\ frames[running].at # Done
      /\ frames[running].mended \in SUBSET Says /\ reply.how \in Says
  BY DEF Thinking, SkillInv, SkillsTyped, StackFits, ReplyFits, Activations
<1>2. frames[running].haul < frames[running].want /\ (running \notin Tellers => frames[running].haul = 0)
  BY <1>1 DEF SkillInv, StackFits, FrameFits
<1>3. /\ Top = frames[running] /\ Here = Library[running].steps[frames[running].at] /\ Here.call = CallAt(running)
  BY DEF Top, Here, CallAt
<1>4. StepFits(running, Here)
  BY <1>1, <1>3, AtAStep
<1>5. /\ reply.how \in {"ok"} \cup Surface(Here.call)
      /\ reply.got > 0 => CallAt(running) \in {"mine", "kill", "recover"}
      /\ (CallAt(running) = "mine" /\ reply.how = "ok") => reply.got > 0
  BY <1>3 DEF SkillInv, ReplyFits
<1>6. running \in Miners => frames[running].haul + reply.got <= entered
  <2>1. running \in Miners => frames[running].haul + 0 + reply.got + 0 <= entered
    BY <1>1 DEF SkillInv, CountFits, Untouched
  <2> QED
    BY <1>1, <2>1, NumbersOf
<1> QED
  BY <1>1, <1>2, <1>3, <1>4, <1>5, <1>6

LEMMA GoesOnKeeps == SkillInv /\ GoesOn => SkillInv'
<1> SUFFICES ASSUME SkillInv, GoesOn PROVE SkillInv'
  OBVIOUS
<1>1. Thinking /\ reply.how = "ok" /\ reply # NoReply
  BY DEF GoesOn, NoReply
<1>2. PICK label : /\ label = (IF running \in Ores /\ Haul >= Top.want THEN Done ELSE Here.next)
                   /\ GoesTo(label, Haul, Top.mended)
  BY DEF GoesOn
<1>3. label \in Labels(running)
  BY <1>1, <1>2, AnswerOf, LabelsAreNat DEF StepFits
<1>4. Haul = frames[running].haul + (IF running \in Tellers THEN reply.got ELSE 0) /\ Haul \in Nat
  BY <1>1, AnswerOf, NumbersOf DEF Haul
<1>5. running \notin Tellers => Haul = 0
  BY <1>1, <1>4, AnswerOf
<1>6. label # Done => Haul < frames[running].want
  <2>1. CASE running \in Ores
    BY <1>1, <1>2, <1>4, <2>1, AnswerOf, NumbersOf
  <2>2. CASE running \in Tellers \ Ores /\ label # Done
    <3>1. Here.call = "equip"
      BY <1>1, <1>2, <2>2, AnswerOf DEF StepFits
    <3>2. ~(reply.got > 0)
      BY <1>1, <3>1, AnswerOf
    <3> QED
      BY <1>1, <1>4, <3>2, AnswerOf, NumbersOf
  <2>3. CASE running \notin Tellers
    BY <1>1, <1>5, <2>3, AnswerOf
  <2> QED
    BY <2>1, <2>2, <2>3
<1>7. running \in Miners \ Ores /\ label = Done => Haul > 0
  <2> SUFFICES ASSUME running \in Miners \ Ores, label = Done PROVE Haul > 0
    OBVIOUS
  <2>1. CallAt(running) = "mine"
    BY <1>1, <1>2, AnswerOf DEF StepFits
  <2>2. reply.got > 0
    BY <1>1, <2>1, AnswerOf
  <2> QED
    BY <1>1, <1>4, <2>2, AnswerOf, NumbersOf, SkillWords
<1>8. running \in Miners => Haul <= entered
  BY <1>1, <1>4, AnswerOf, SkillWords
<1> QED
  BY <1>1, <1>2, <1>3, <1>4, <1>5, <1>6, <1>7, <1>8, AnswerOf, GoesKeeps

\* What does not add to the haul goes on to another label.
LEMMA TurnsKeep ==
  ASSUME SkillInv, Thinking, reply # NoReply, NEW label \in Labels(running), NEW mended \in SUBSET Says,
         GoesTo(label, Top.haul, mended),
         running \in Miners \ Ores => label # Done \/ Top.haul > 0
  PROVE  SkillInv'
<1>1. Top.haul \in Nat /\ Top.haul = frames[running].haul
  BY AnswerOf, NumbersOf
<1>2. running \in Miners => Top.haul <= entered
  BY <1>1, AnswerOf, NumbersOf
<1> QED
  BY <1>1, <1>2, AnswerOf, GoesKeeps

LEMMA DetoursKeeps == SkillInv /\ Detours => SkillInv'
<1> SUFFICES ASSUME SkillInv, Detours PROVE SkillInv'
  OBVIOUS
<1>1. Thinking /\ reply.how \notin {"none", "ok"} /\ reply # NoReply /\ reply.how = Here.spares
  BY DEF Detours, Failing, NoReply
<1>2. Here.detour \in Labels(running) /\ Top.mended \in SUBSET Says
  BY <1>1, AnswerOf DEF StepFits
<1>3. running \in Miners \ Ores => Here.detour # Done
  BY <1>1, AnswerOf DEF StepFits
<1> QED
  BY <1>1, <1>2, <1>3, TurnsKeep DEF Detours

LEMMA MendsKeeps == SkillInv /\ Mends => SkillInv'
<1> SUFFICES ASSUME SkillInv, Mends PROVE SkillInv'
  OBVIOUS
<1>1. /\ Thinking /\ reply # NoReply /\ reply.how \in DOMAIN Here.mends
      /\ GoesTo(Here.mends[reply.how], Top.haul, Top.mended \cup {reply.how})
  BY DEF Mends, Failing, NoReply
<1>2. Here.mends[reply.how] \in Labels(running) /\ running \notin Miners
  BY <1>1, AnswerOf DEF StepFits
<1>3. Top.mended \cup {reply.how} \in SUBSET Says
  BY <1>1, AnswerOf
<1> QED
  BY <1>1, <1>2, <1>3, TurnsKeep

LEMMA FailsKeeps == SkillInv /\ Fails => SkillInv'
<1> SUFFICES ASSUME SkillInv, Fails PROVE SkillInv'
  OBVIOUS
<1>1. Thinking /\ reply.how \notin {"none", "ok"} /\ reply # NoReply /\ reply.how # Here.spares
  BY DEF Fails, Failing, NoReply
<1>2. CASE running \in Ores /\ GoesTo(Done, Top.haul, Top.mended)
  BY <1>1, <1>2, AnswerOf, LabelsAreNat, TurnsKeep
<1>3. CASE EndsWith(reply.how, 0) /\ UNCHANGED <<primitive, worldOfSkills>>
  <2>1. reply.how \in Promised(running) /\ (running \in Called => reply.how \in TripFails)
    BY <1>1, AnswerOf DEF StepFits
  <2> QED
    BY <1>1, <1>3, <2>1, AnswerOf, SkillEndsKeeps
<1> QED
  BY <1>2, <1>3 DEF Fails

LEMMA OresMayFindNone == \A s \in Ores : "RESOURCE_NOT_FOUND" \in Promised(s)
BY DEF Ores, Promised, Library, Plan, MineIronOre, MineCoalOre, TripCodes

LEMMA ReturnsKeeps == SkillInv /\ Returns => SkillInv'
<1> SUFFICES ASSUME SkillInv, Returns PROVE SkillInv'
  OBVIOUS
<1>1. /\ primitive = Untouched /\ running # "nobody" /\ running \in SkillName /\ frames[running].on
      /\ frames[running].at = Done /\ Top = frames[running] /\ reply = NoReply
      /\ UNCHANGED <<primitive, worldOfSkills>>
  BY DEF Returns, Thinking, Top, SkillInv, SkillsTyped, StackFits
<1>2. frames[running].haul \in Nat
  BY <1>1, NumbersOf
<1>3. running \in Miners => frames[running].haul <= entered
  <2>1. running \in Miners => frames[running].haul + 0 + 0 + 0 <= entered
    BY <1>1 DEF SkillInv, CountFits, Untouched, NoReply
  <2> QED
    BY <1>2, <2>1, NumbersOf
<1>4. CASE running \in Ores /\ Top.haul = 0 /\ EndsWith("RESOURCE_NOT_FOUND", 0)
  <2>1. running \notin Called /\ "RESOURCE_NOT_FOUND" \in Promised(running) /\ "RESOURCE_NOT_FOUND" # "ok"
    BY <1>4, OresMayFindNone, SkillWords
  <2> QED
    BY <1>1, <1>4, <2>1, SaysAre, SkillEndsKeeps
<1>5. CASE ~(running \in Ores /\ Top.haul = 0) /\ EndsWith("ok", Top.haul)
  <2>1. running \in Miners => frames[running].haul > 0
    <3>1. CASE running \in Ores
      BY <1>1, <1>2, <1>5, <3>1
    <3>2. CASE running \notin Ores
      BY <1>1, <3>2 DEF SkillInv, StackFits, FrameFits
    <3> QED
      BY <3>1, <3>2
  <2> QED
    BY <1>1, <1>2, <1>3, <1>5, <2>1, SaysAre, SkillEndsKeeps
<1> QED
  BY <1>4, <1>5 DEF Returns

LEMMA WindowKeeps == SkillInv /\ WindowThrows => SkillInv'
<1> SUFFICES ASSUME SkillInv, WindowThrows PROVE SkillInv'
  OBVIOUS
<1>1. /\ primitive.what = "smelt" /\ running' = "nobody" /\ frames' = [s \in SkillName |-> Resting]
      /\ primitive' = Untouched /\ reply' = NoReply /\ booked' = Unbooked /\ hearth' = ShutHearth
      /\ UNCHANGED <<held, fallen, mined, baseline, entered, engaged>>
  BY DEF WindowThrows
<1>2. frames' \in [SkillName -> Activations] /\ (\A t \in SkillName : ~frames'[t].on)
  BY <1>1, RestingIs
<1>3. StackFits'
  BY <1>1, <1>2, SkillWords DEF StackFits, FrameFits, Linked, Waits
<1>4. ~engaged' /\ hearth' \in [out : Nat, cooking : Nat, found : Nat] /\ entered' \in Nat
  BY <1>1, NumbersOf DEF SkillInv, SkillsTyped, Disengages, ShutHearth
<1>5. /\ booked' \in [skill : SkillName \cup {"none"}, how : Says, told : Nat, entered : Nat]
      /\ booked'.skill = "none"
  BY <1>1 DEF Unbooked, Says
<1>6. SkillsTyped' /\ PrimitiveFits' /\ ReplyFits' /\ CountFits' /\ HearthFits' /\ Disengages'
  BY <1>1, <1>2, <1>4, <1>5, SkillWords, StillNothing
<1>7. FailsAsPromised' /\ CountsWhatItTook'
  BY <1>5, SkillWords DEF FailsAsPromised, CountsWhatItTook
<1> QED
  BY <1>3, <1>6, <1>7 DEF SkillInv

LEMMA SkillsBegin == SkillsInit => SkillInv
<1> SUFFICES ASSUME SkillsInit PROVE SkillInv
  OBVIOUS
<1>1. frames \in [SkillName -> Activations] /\ (\A t \in SkillName : ~frames[t].on)
  BY RestingIs DEF SkillsInit
<1>2. StackFits
  BY <1>1, SkillWords DEF SkillsInit, StackFits, FrameFits, Linked, Waits
<1>3. PrimitiveFits /\ ReplyFits /\ CountFits /\ HearthFits /\ Disengages
  BY SkillWords DEF SkillsInit, PrimitiveFits, ReplyFits, CountFits, HearthFits, Disengages, Untouched
<1>4. FailsAsPromised /\ CountsWhatItTook
  BY SkillWords DEF SkillsInit, FailsAsPromised, CountsWhatItTook, Unbooked
<1>5. SkillsTyped
  <2>1. booked \in [skill : SkillName \cup {"none"}, how : Says, told : Nat, entered : Nat]
    BY DEF SkillsInit, Unbooked, Says
  <2>2. reply \in [how : Says, got : Nat] /\ hearth \in [out : Nat, cooking : Nat, found : Nat]
    BY DEF SkillsInit, NoReply, ShutHearth, Says
  <2> QED
    BY <1>1, <2>1, <2>2, Clean DEF SkillsInit, SkillsTyped
<1> QED
  BY <1>2, <1>3, <1>4, <1>5 DEF SkillInv

LEMMA SkillsStep == SkillInv /\ [SkillsNext]_skillVars => SkillInv'
<1> SUFFICES ASSUME SkillInv, [SkillsNext]_skillVars PROVE SkillInv'
  OBVIOUS
<1>1. CASE UNCHANGED skillVars
  BY <1>1, StackStays DEF skillVars, worldOfSkills, SkillInv, SkillsTyped, PrimitiveFits, ReplyFits, CountFits,
     HearthFits, Disengages, CallAt, Gain
<1>2. CASE \E s \in SkillName : Invokes(s) \/ Refuses(s) \/ CallsSkill(s)
  BY <1>2, InvokesKeeps, RefusesKeeps, CallsKeeps
<1>3. CASE GoesOn \/ Detours \/ Mends \/ Fails \/ Returns \/ Asks
  BY <1>3, GoesOnKeeps, DetoursKeeps, MendsKeeps, FailsKeeps, ReturnsKeeps, AsksKeeps
<1>4. CASE SearchesBlocks \/ MineTimesOut \/ LacksTool \/ PassesOver \/ Digs \/ Sweeps \/ RunsOut
  BY <1>4, SearchesKeeps, TimesOutKeeps, LacksKeeps, PassesKeeps, DigsKeeps, SweepsKeeps, RunsOutKeeps
<1>5. CASE OpensFurnace \/ TakesSmelted \/ LoadsOne \/ ShutsFurnace \/ WindowThrows \/ FurnaceCooks
  BY <1>5, FurnaceOpensKeeps, TakesKeeps, LoadsKeeps, ShutsKeeps, WindowKeeps, CooksKeeps
<1>6. CASE SeeksMob \/ Fights \/ Loots \/ Explores \/ DigsUp \/ RecoversDrop \/ Recovers
  BY <1>6, SeeksKeeps, FightsKeeps, LootsKeeps, ExploresKeeps, DigsUpKeeps, RecoversDropKeeps, RecoversKeeps
<1>7. CASE BodyPicksUp \/ BodyLoses
  BY <1>7, PicksUpKeeps, LosesKeeps
<1> QED
  BY <1>1, <1>2, <1>3, <1>4, <1>5, <1>6, <1>7 DEF SkillsNext

LEMMA SkillsMean == SkillInv => SkillsTypeOK /\ SkillsKeepTheirWord
<1> SUFFICES ASSUME SkillInv PROVE SkillsTypeOK /\ SkillsKeepTheirWord
  OBVIOUS
<1>1. LeavesNothingCooking
  <2> SUFFICES ASSUME Smelting, hearth.out = 0, primitive.left = primitive.got PROVE hearth.cooking <= hearth.found
    BY DEF LeavesNothingCooking
  <2>1. primitive.got + hearth.out + hearth.cooking <= primitive.left + hearth.found
    BY DEF SkillInv, HearthFits, Smelting
  <2> QED
    BY <2>1, NumbersOf
<1>2. SkillsTypeOK
  BY SkillWords, NumbersOf DEF SkillInv, SkillsTyped, SkillsTypeOK, Activations
<1> QED
  BY <1>1, <1>2 DEF SkillInv, SkillsKeepTheirWord

\* However the plans call each other, and whatever falls, is lost or is picked
\* up on the way: a skill fails as its schema says, a miner tells of something
\* that came in, a fight is over with killMob, and a furnace that gave what it
\* was given holds nothing of it (registry.ts, mineBlock.ts, killMob.ts,
\* smeltItem.ts).
THEOREM SkillsAlwaysKeepTheirWord ==
  SkillsInit /\ [][SkillsNext]_skillVars => [](SkillsTypeOK /\ SkillsKeepTheirWord)
BY SkillsBegin, SkillsStep, SkillsMean, PTL
=============================================================================
