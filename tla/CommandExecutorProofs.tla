----------------------- MODULE CommandExecutorProofs -----------------------
(***************************************************************************)
(* Proofs about CommandExecutor, for every set of villagers and commands,   *)
(* every topic and every number of faults.                                  *)
(***************************************************************************)
EXTENDS CommandExecutor, TLAPS

(* A head that has taken its turn exists, and a lane holds only commands of *)
(* its own villager.                                                        *)
LaneShape ==
  \A v \in Villager :
    /\ step[v] # "idle" => lane[v] # <<>>
    /\ \A i \in 1..Len(lane[v]) : Owner[lane[v][i].cmd] = v

TypeInv == TypeOK /\ LaneShape

-----------------------------------------------------------------------------
(* What the operators on a lane preserve.                                   *)

(* dispatch appends the arrival and leaves who is in the lane alone.        *)
LEMMA ArriveLane ==
  ASSUME NEW entries \in Seq(Entry), NEW c \in Command
  PROVE  /\ Arrive(entries, c) \in Seq(Entry)
         /\ Len(Arrive(entries, c)) = Len(entries) + 1
         /\ Arrive(entries, c) # <<>>
         /\ \A i \in 1..Len(entries) : Arrive(entries, c)[i].cmd = entries[i].cmd
         /\ Arrive(entries, c)[Len(entries) + 1].cmd = c
<1> DEFINE registers == entries # <<>> /\ c \notin Lifecycle
           Marked(e) == [cmd |-> e.cmd, superseded |-> e.superseded \/ e.waiting,
                         waiting |-> e.waiting /\ ~registers]
           older == [i \in DOMAIN entries |-> Marked(entries[i])]
           newer == [cmd |-> c, superseded |-> FALSE, waiting |-> registers]
<1>1. Arrive(entries, c) = Append(older, newer)
  BY DEF Arrive
<1>2. registers \in BOOLEAN
  OBVIOUS
<1>3. ASSUME NEW e \in Entry PROVE Marked(e) \in Entry /\ Marked(e).cmd = e.cmd
  BY <1>2 DEF Entry
<1>4. newer \in Entry /\ newer.cmd = c
  BY <1>2 DEF Entry
<1> HIDE DEF registers, newer
<1>5. \A i \in DOMAIN entries : entries[i] \in Entry
  OBVIOUS
<1>6. older \in Seq(Entry) /\ Len(older) = Len(entries)
         /\ \A i \in 1..Len(entries) : older[i].cmd = entries[i].cmd
  <2> HIDE DEF Marked
  <2> QED BY <1>3, <1>5
<1> HIDE DEF older
<1>7. QED BY <1>1, <1>4, <1>6

(* The lane after its head took its turn: the same commands in the same     *)
(* places.                                                                  *)
LEMMA TurnLane ==
  ASSUME NEW entries \in Seq(Entry), entries # <<>>
  PROVE  LET after == <<[Head(entries) EXCEPT !.waiting = FALSE]>> \o Tail(entries)
         IN  /\ after \in Seq(Entry)
             /\ Len(after) = Len(entries)
             /\ after # <<>>
             /\ \A i \in 1..Len(entries) : after[i].cmd = entries[i].cmd
<1> DEFINE head == [Head(entries) EXCEPT !.waiting = FALSE]
           after == <<head>> \o Tail(entries)
<1>1. Head(entries) \in Entry /\ Head(entries) = entries[1]
  OBVIOUS
<1>2. head \in Entry /\ head.cmd = entries[1].cmd
  BY <1>1 DEF Entry
<1>3. Tail(entries) \in Seq(Entry) /\ Len(Tail(entries)) = Len(entries) - 1
        /\ \A i \in 1..(Len(entries) - 1) : Tail(entries)[i] = entries[i + 1]
  OBVIOUS
<1> HIDE DEF head
<1>4. after \in Seq(Entry) /\ Len(after) = Len(entries) /\ after # <<>>
  BY <1>2, <1>3
<1>5. ASSUME NEW i \in 1..Len(entries) PROVE after[i].cmd = entries[i].cmd
  <2>1. CASE i = 1
    BY <2>1, <1>2
  <2>2. CASE i # 1
    <3>1. after[i] = Tail(entries)[i - 1]
      BY <2>2, <1>2, <1>3
    <3>2. i - 1 \in 1..(Len(entries) - 1) /\ (i - 1) + 1 = i
      BY <2>2, <1>2
    <3> QED BY <3>1, <3>2, <1>3
  <2> QED BY <2>1, <2>2
<1>6. QED BY <1>4, <1>5 DEF head

(* The lane after its head left it.                                         *)
LEMMA TailLane ==
  ASSUME NEW entries \in Seq(Entry), entries # <<>>
  PROVE  /\ Tail(entries) \in Seq(Entry)
         /\ \A i \in 1..Len(Tail(entries)) : i + 1 \in 1..Len(entries)
                                               /\ Tail(entries)[i] = entries[i + 1]
OBVIOUS

-----------------------------------------------------------------------------
(* Types.                                                                   *)

LEMMA TopicLength ==
  ASSUME NEW v \in Villager
  PROVE  Len(Topic[v]) \in Nat
BY CommandAssumption DEF CommandAssumption

LEMMA TopicItem ==
  ASSUME NEW v \in Villager, NEW i \in 1..Len(Topic[v])
  PROVE  Topic[v][i] \in Command /\ Owner[Topic[v][i]] = v
BY CommandAssumption DEF CommandAssumption

LEMMA HeadItem ==
  ASSUME TypeInv, NEW v \in Villager, lane[v] # <<>>
  PROVE  Current(v) \in Command /\ Owner[Current(v)] = v
<1>1. lane[v] \in Seq(Entry) /\ lane[v][1] \in Entry /\ Head(lane[v]) = lane[v][1] /\ 1 \in 1..Len(lane[v])
  BY DEF TypeInv, TypeOK
<1>2. Owner[lane[v][1].cmd] = v
  BY <1>1 DEF TypeInv, LaneShape
<1> QED BY <1>1, <1>2 DEF Current, Entry

(* The part of the type that a lane moving on can disturb.                  *)
LaneOK ==
  /\ lane \in [Villager -> Seq(Entry)]
  /\ step \in [Villager -> Steps]
  /\ busy \in [Villager -> Owners]
  /\ claim \in [Villager -> BOOLEAN]
  /\ LaneShape

LEMMA AdvanceType ==
  ASSUME LaneOK, NEW v \in Villager, lane[v] # <<>>, LaneAdvances(v)
  PROVE  LaneOK'
<1>1. lane' \in [Villager -> Seq(Entry)]
  BY TailLane DEF LaneOK, LaneAdvances
<1>2. step' \in [Villager -> Steps] /\ busy' \in [Villager -> Owners] /\ claim' \in [Villager -> BOOLEAN]
  BY DEF LaneOK, LaneAdvances, Steps, Owners
<1>3. ASSUME NEW w \in Villager, step'[w] # "idle" PROVE lane'[w] # <<>>
  BY <1>3 DEF LaneOK, LaneAdvances, LaneShape
<1>4. ASSUME NEW w \in Villager, NEW i \in 1..Len(lane'[w]) PROVE Owner[lane'[w][i].cmd] = w
  <2>1. CASE w = v
    <3>1. lane'[w] = Tail(lane[w]) /\ lane[w] \in Seq(Entry) /\ lane[w] # <<>>
      BY <2>1 DEF LaneOK, LaneAdvances
    <3>2. i + 1 \in 1..Len(lane[w]) /\ lane'[w][i] = lane[w][i + 1]
      BY <3>1, TailLane
    <3> QED BY <3>2 DEF LaneOK, LaneShape
  <2>2. CASE w # v
    BY <2>2 DEF LaneOK, LaneAdvances, LaneShape
  <2> QED BY <2>1, <2>2
<1> QED BY <1>1, <1>2, <1>3, <1>4 DEF LaneOK, LaneShape

LEMMA SendType ==
  ASSUME TypeInv, NEW c \in Command, NEW kind \in RaceKinds \union GateKinds, Publish(c, kind)
  PROVE  inflight' \subseteq Outcome
BY DEF TypeInv, TypeOK, Publish, Outcome

LEMMA LandedType ==
  ASSUME TypeInv, NEW kinds, NEW sent
  PROVE  /\ Landed(answers, kinds, sent) \in [Command -> Nat]
         /\ Landed(dropped, kinds, sent) \in [Command -> Nat]
BY DEF TypeInv, TypeOK, Landed

LEMMA ContinueType ==
  ASSUME TypeInv, NEW o \in Outcome, Continue(o)
  PROVE  LaneOK'
<1>1. LaneOK
  BY DEF TypeInv, TypeOK, LaneOK
<1>2. CASE Awaited(o)
  <2>1. Owner[o.cmd] \in Villager
    BY CommandAssumption DEF CommandAssumption, Outcome
  <2> QED BY <1>1, <1>2, <2>1, AdvanceType DEF Continue, Awaited
<1>3. CASE ~Awaited(o)
  BY <1>1, <1>3 DEF Continue, laneVars, LaneOK, LaneShape
<1> QED BY <1>2, <1>3

(* What a settling run() does to its villager's lane: nothing, or, when the *)
(* watchdog has just beaten it, the lane moves on.                          *)
LEMMA SettlesLane ==
  ASSUME NEW c \in Command, RunSettles(c)
  PROVE  \/ UNCHANGED <<lane, step, busy, claim>>
         \/ /\ c \in latch /\ UNCHANGED <<latch, inflight>>
            /\ \E v \in Villager : lane[v] # <<>> /\ step[v] = "timedout" /\ LaneAdvances(v)
<1>1. CASE c \in latch /\ TimedOut(c) /\ LaneAdvances(Owner[c]) /\ UNCHANGED <<latch, inflight>>
  <2>1. Owner[c] \in Villager
    BY CommandAssumption DEF CommandAssumption
  <2> QED BY <1>1, <2>1 DEF TimedOut
<1>2. CASE UNCHANGED <<laneVars, busy, claim>>
  BY <1>2 DEF laneVars
<1> QED BY <1>1, <1>2 DEF RunSettles

(* A step of dispatch keeps the types, one action at a time.                *)
LEMMA NextType ==
  ASSUME TypeInv, [Next]_vars
  PROVE  TypeInv'
<1> USE DEF TypeInv
<1>0. LaneOK
  BY DEF TypeOK, LaneOK
<1>a. ASSUME LaneOK', UNCHANGED <<topicVars, marked, session, runVars, inflight, ledgerVars, historyVars>>
      PROVE  TypeInv'
  BY <1>a DEF TypeOK, LaneOK, topicVars, runVars, ledgerVars, historyVars
<1>h. ASSUME NEW v \in Villager, step[v] # "idle"
      PROVE  lane[v] # <<>> /\ Current(v) \in Command
  BY <1>h, HeadItem DEF LaneShape
<1>1. ASSUME NEW v \in Villager, Deliver(v) PROVE TypeInv'
  <2> DEFINE c == Topic[v][fetched[v] + 1]
  <2>1. c \in Command /\ Owner[c] = v
    <3>1. fetched[v] + 1 \in 1..Len(Topic[v])
      <4>1. fetched[v] \in Nat /\ Len(Topic[v]) \in Nat /\ fetched[v] < Len(Topic[v])
        BY <1>1, TopicLength DEF TypeOK, Deliver
      <4> QED BY <4>1
    <3> QED BY <3>1, TopicItem
  <2>2. /\ Arrive(lane[v], c) \in Seq(Entry)
        /\ Len(Arrive(lane[v], c)) = Len(lane[v]) + 1
        /\ Arrive(lane[v], c) # <<>>
        /\ \A i \in 1..Len(lane[v]) : Arrive(lane[v], c)[i].cmd = lane[v][i].cmd
        /\ Arrive(lane[v], c)[Len(lane[v]) + 1].cmd = c
    BY <2>1, ArriveLane DEF TypeOK
  <2> HIDE DEF c
  <2>3. lane' = [lane EXCEPT ![v] = Arrive(lane[v], c)] /\ UNCHANGED step
    BY <1>1 DEF Deliver, c
  <2>4. TypeOK'
    <3>1. lane' \in [Villager -> Seq(Entry)]
      BY <2>2, <2>3 DEF TypeOK
    <3>2. /\ fetched' \in [Villager -> Nat]
          /\ \A w \in Villager : committed[w] <= fetched'[w] /\ fetched'[w] <= Len(Topic[w])
      <4>1. fetched' = [fetched EXCEPT ![v] = fetched[v] + 1] /\ fetched[v] < Len(Topic[v])
        BY <1>1 DEF Deliver
      <4>2. \A w \in Villager : fetched[w] \in Nat /\ committed[w] \in Nat /\ Len(Topic[w]) \in Nat
        BY TopicLength DEF TypeOK
      <4> QED BY <4>1, <4>2 DEF TypeOK
    <3> QED BY <1>1, <3>1, <3>2 DEF TypeOK, Deliver, bodyVars, runVars, ledgerVars, historyVars
  <2>5. ASSUME NEW w \in Villager, NEW i \in 1..Len(lane'[w]) PROVE Owner[lane'[w][i].cmd] = w
    <3>1. CASE w = v
      <4>1. Len(lane'[w]) = Len(lane[v]) + 1 /\ lane'[w] = Arrive(lane[v], c) /\ Len(lane[v]) \in Nat
        BY <2>2, <2>3, <3>1 DEF TypeOK
      <4>2. i \in 1..Len(lane[v]) \/ i = Len(lane[v]) + 1
        BY <4>1
      <4> QED BY <2>1, <2>2, <3>1, <4>1, <4>2 DEF LaneShape
    <3>2. CASE w # v
      BY <2>3, <3>2 DEF LaneShape, TypeOK
    <3> QED BY <3>1, <3>2
  <2>6. ASSUME NEW w \in Villager, step'[w] # "idle" PROVE lane'[w] # <<>>
    BY <2>2, <2>3, <2>6 DEF LaneShape, TypeOK
  <2> QED BY <2>4, <2>5, <2>6 DEF LaneShape
<1>2. ASSUME NEW v \in Villager, Commit(v) PROVE TypeInv'
  <2>1. /\ committed' \in [Villager -> Nat]
        /\ \A w \in Villager : committed'[w] <= fetched[w] /\ fetched[w] <= Len(Topic[w])
    BY <1>2 DEF Commit, TypeOK
  <2>2. TypeOK'
    BY <1>2, <2>1 DEF Commit, TypeOK, laneVars, bodyVars, runVars, ledgerVars, historyVars
  <2>3. LaneShape'
    BY <1>2 DEF Commit, LaneShape, laneVars
  <2> QED BY <2>2, <2>3
<1>3. ASSUME NEW v \in Villager, Rebalance(v) PROVE TypeInv'
  <2>1. /\ fetched' \in [Villager -> Nat]
        /\ \A w \in Villager : committed[w] <= fetched'[w] /\ fetched'[w] <= Len(Topic[w])
    BY <1>3 DEF Rebalance, TypeOK
  <2>2. faults' \in 0..MaxFaults
    BY <1>3, CommandAssumption DEF Rebalance, CommandAssumption, TypeOK
  <2>3. TypeOK'
    BY <1>3, <2>1, <2>2 DEF Rebalance, TypeOK, laneVars, bodyVars, runVars, ledgerVars
  <2>4. LaneShape'
    BY <1>3 DEF Rebalance, LaneShape, laneVars
  <2> QED BY <2>3, <2>4
<1>4. ASSUME NEW v \in Villager, TakeTurn(v) PROVE TypeInv'
  <2> DEFINE after == <<[Head(lane[v]) EXCEPT !.waiting = FALSE]>> \o Tail(lane[v])
  <2>1. lane[v] \in Seq(Entry) /\ lane[v] # <<>>
    BY <1>4 DEF TypeOK, TakeTurn
  <2>2. /\ after \in Seq(Entry) /\ Len(after) = Len(lane[v]) /\ after # <<>>
        /\ \A i \in 1..Len(lane[v]) : after[i].cmd = lane[v][i].cmd
    BY <2>1, TurnLane
  <2>3. lane' = [lane EXCEPT ![v] = after]
    BY <1>4 DEF TakeTurn
  <2> HIDE DEF after
  <2>4. LaneOK'
    <3>1. step' \in [Villager -> Steps] /\ UNCHANGED <<busy, claim>>
      BY <1>4 DEF TakeTurn, TypeOK, Steps, bodyVars
    <3>2. \A w \in Villager : step'[w] # "idle" => lane'[w] # <<>>
      BY <1>4, <2>2, <2>3 DEF TakeTurn, TypeOK, LaneShape
    <3>3. \A w \in Villager : \A i \in 1..Len(lane'[w]) : Owner[lane'[w][i].cmd] = w
      BY <2>2, <2>3 DEF TypeOK, LaneShape
    <3> QED BY <2>2, <2>3, <3>1, <3>2, <3>3 DEF LaneOK, LaneShape, TypeOK
  <2>5. inflight' \subseteq Outcome
    <3>1. Current(v) \in Command
      BY <2>1, HeadItem
    <3> QED BY <1>4, <3>1, SendType DEF TakeTurn, GateKinds, TypeOK
  <2> QED BY <1>4, <2>4, <2>5
          DEF TakeTurn, TypeOK, LaneOK, topicVars, bodyVars, runVars, ledgerVars, historyVars
<1>5. ASSUME NEW v \in Villager, MarkFresh(v) PROVE TypeInv'
  <2>1. lane[v] # <<>> /\ Current(v) \in Command
    BY <1>5, <1>h DEF MarkFresh
  <2> QED BY <1>5, <2>1
          DEF MarkFresh, TypeOK, LaneShape, Steps, topicVars, bodyVars, runVars, ledgerVars, historyVars
<1>6. ASSUME NEW v \in Villager, SkipDuplicate(v) PROVE TypeInv'
  <2>1. LaneOK'
    BY <1>0, <1>6, <1>h, AdvanceType DEF SkipDuplicate
  <2> QED BY <1>6, <2>1
          DEF SkipDuplicate, TypeOK, LaneOK, topicVars, runVars, ledgerVars, historyVars
<1>7. ASSUME NEW v \in Villager, DedupeFails(v) PROVE TypeInv'
  <2>1. LaneOK' /\ Current(v) \in Command
    BY <1>0, <1>7, <1>h, AdvanceType DEF DedupeFails
  <2>2. marked' \subseteq Command
    BY <1>7, <2>1 DEF DedupeFails, TypeOK
  <2>3. faults' \in 0..MaxFaults
    BY <1>7, CommandAssumption DEF DedupeFails, TypeOK, CommandAssumption
  <2> QED BY <1>7, <2>1, <2>2, <2>3
          DEF DedupeFails, TypeOK, LaneOK, topicVars, runVars, ledgerVars
<1>8. ASSUME NEW v \in Villager, RejectStale(v) \/ Bounce(v) PROVE TypeInv'
  <2>1. step[v] # "idle" /\ \E kind \in {"stale", "bounced"} : GateCloses(v, kind)
    BY <1>8 DEF RejectStale, Bounce
  <2>2. inflight' \subseteq Outcome
    BY <1>h, <2>1, SendType DEF GateCloses, GateKinds
  <2> QED BY <1>h, <2>1, <2>2
          DEF GateCloses, TypeOK, LaneShape, Steps, topicVars, bodyVars, runVars, ledgerVars, historyVars
<1>9. ASSUME NEW v \in Villager, Start(v) PROVE TypeInv'
  <2>1. lane[v] # <<>> /\ Current(v) \in Command
    BY <1>9, <1>h DEF Start
  <2>2. session' \subseteq Villager /\ busy' \in [Villager -> Owners] /\ claim' \in [Villager -> BOOLEAN]
    <3>1. Embody(v, Current(v))
      BY <1>9 DEF Start
    <3>2. session' \subseteq Villager
      BY <3>1 DEF Embody, TypeOK
    <3>3. busy' \in [Villager -> Owners]
      <4>1. \E o \in Owners : busy' = [busy EXCEPT ![v] = o]
        BY <3>1 DEF Embody, TypeOK, Owners
      <4> QED BY <4>1 DEF TypeOK
    <3>4. claim' \in [Villager -> BOOLEAN]
      <4>1. (v \in session) \in BOOLEAN
        OBVIOUS
      <4>2. \E b \in BOOLEAN : claim' = [claim EXCEPT ![v] = b]
        BY <3>1, <4>1, Zenon DEF Embody
      <4> QED BY <4>2 DEF TypeOK
    <3> QED BY <3>2, <3>3, <3>4
  <2>3. started' \in [Command -> Nat]
    BY <1>9, <2>1 DEF Start, TypeOK
  <2>4. step' \in [Villager -> Steps] /\ UNCHANGED lane
    BY <1>9 DEF Start, TypeOK, Steps
  <2>5. acting' \subseteq Command /\ latch' \subseteq Command
    BY <1>9, <2>1 DEF Start, TypeOK
  <2>6. LaneShape'
    BY <1>9, <2>1, <2>4 DEF Start, LaneShape, TypeOK
  <2> QED BY <1>9, <2>2, <2>3, <2>4, <2>5, <2>6
          DEF Start, TypeOK, topicVars, ledgerVars
<1>10. ASSUME NEW v \in Villager, WatchdogFires(v) PROVE TypeInv'
  <2>1. lane[v] # <<>> /\ Current(v) \in Command
    BY <1>10, <1>h DEF WatchdogFires
  <2>2. LaneOK'
    <3>1. CASE LaneAdvances(v)
      BY <1>0, <2>1, <3>1, AdvanceType
    <3>2. CASE ~LaneAdvances(v)
      BY <1>0, <1>10, <2>1, <3>2 DEF WatchdogFires, LaneOK, LaneShape, Steps
    <3> QED BY <3>1, <3>2
  <2>3. inflight' \subseteq Outcome
    BY <1>10, <2>1, SendType DEF WatchdogFires, RaceKinds, TypeOK
  <2> QED BY <1>10, <2>1, <2>2, <2>3
          DEF WatchdogFires, TypeOK, LaneOK, topicVars, ledgerVars, historyVars
<1>11. ASSUME NEW v \in Villager, ReflexClaims(v) \/ ReflexReleases(v) \/ GrowOld(v) PROVE TypeInv'
  <2>1. step[v] = "admit" => Current(v) \in Command
    BY <1>h
  <2> QED BY <1>11, <2>1
     DEF ReflexClaims, ReflexReleases, GrowOld, TypeOK, LaneShape, Owners,
         topicVars, laneVars, bodyVars, runVars, ledgerVars, historyVars
<1>12. ASSUME NEW c \in Command, RunSettles(c) PROVE TypeInv'
  <2>1. inflight' \subseteq Outcome
    BY <1>12, SendType DEF RunSettles, RaceKinds, TypeOK
  <2>2. LaneOK'
    BY <1>0, <1>12, SettlesLane, AdvanceType DEF LaneOK, LaneShape
  <2> QED BY <1>12, <2>1, <2>2
     DEF RunSettles, TypeOK, LaneOK, topicVars, ledgerVars, historyVars
<1>13. ASSUME NEW o \in inflight, Acknowledge(o) PROVE TypeInv'
  <2>1. LaneOK' /\ answers' \in [Command -> Nat] /\ dropped' \in [Command -> Nat]
    BY <1>13, ContinueType, LandedType DEF Acknowledge, TypeOK
  <2> QED BY <1>13, <2>1
     DEF Acknowledge, TypeOK, LaneOK, topicVars, runVars, historyVars
<1>14. ASSUME NEW o \in inflight, SendFails(o) PROVE TypeInv'
  <2>1. LaneOK'
    BY <1>14, ContinueType DEF SendFails, TypeOK
  <2>2. faults' \in 0..MaxFaults
    BY <1>14, CommandAssumption DEF SendFails, CommandAssumption, TypeOK
  <2> QED BY <1>14, <2>1, <2>2
     DEF SendFails, TypeOK, LaneOK, topicVars, runVars, ledgerVars
<1>15. ASSUME Crash PROVE TypeInv'
  <2>1. answers' \in [Command -> Nat] /\ dropped' \in [Command -> Nat]
    BY <1>15, LandedType DEF Crash
  <2>2. faults' \in 0..MaxFaults
    BY <1>15, CommandAssumption DEF Crash, CommandAssumption, TypeOK
  <2>3. LaneShape'
    BY <1>15 DEF Crash, LaneShape
  <2>4. lane' \in [Villager -> Seq(Entry)] /\ step' \in [Villager -> Steps]
    BY <1>15 DEF Crash, Steps
  <2> QED BY <1>15, <2>1, <2>2, <2>3, <2>4 DEF Crash, TypeOK, Owners
<1>16. CASE UNCHANGED vars
  BY <1>16 DEF vars, TypeOK, LaneShape, topicVars, laneVars, bodyVars, runVars, ledgerVars, historyVars
<1> QED
  BY <1>1, <1>2, <1>3, <1>4, <1>5, <1>6, <1>7, <1>8, <1>9, <1>10, <1>11, <1>12, <1>13, <1>14, <1>15, <1>16
     DEF Next, Loop

(* Type correctness: offsets are committed only for dispatched commands,    *)
(* and every variable keeps its type (CommandExecutor.TypeOK).              *)
THEOREM TypeCorrect == Spec => []TypeOK
<1>1. Init => TypeInv
  BY CommandAssumption DEF Init, CommandAssumption, TypeInv, TypeOK, LaneShape, Steps, Owners
<1>2. TypeInv /\ [Next]_vars => TypeInv'
  BY NextType
<1>3. TypeInv => TypeOK
  BY DEF TypeInv
<1> QED BY <1>1, <1>2, <1>3, PTL DEF Spec

-----------------------------------------------------------------------------
(* A command is executed once and answered once.                            *)

(* The head of c's lane is c, waiting for what s names.                     *)
Held(c, s) ==
  /\ lane[Owner[c]] # <<>>
  /\ Current(Owner[c]) = c
  /\ step[Owner[c]] = s

(* An outcome of c's execution is on its way to the broker.                 *)
Sent(c) == \E o \in inflight : o.cmd = c /\ o.kind \in ExecKinds

(* Who may still answer for c: the admission, the race whose latch is open, *)
(* the one outcome in flight, or the ledger, and never two of them at once. *)
(* Each implies that c was marked in Redis, and marking is what a second    *)
(* delivery of c fails at.                                                  *)
Admitted(c) == Held(c, "admit")
Racing(c)   == Held(c, "running") /\ c \notin latch

Once(c) ==
  /\ c \notin marked => /\ ~Held(c, "admit") /\ ~Held(c, "running") /\ ~Sent(c)
                        /\ answers[c] = 0 /\ started[c] = 0
  /\ Admitted(c) => ~Sent(c) /\ answers[c] = 0 /\ started[c] = 0
  /\ Racing(c) => ~Sent(c) /\ answers[c] = 0
  /\ Sent(c) => answers[c] = 0
  /\ \A o, p \in inflight :
       o.cmd = c /\ p.cmd = c /\ o.kind \in ExecKinds /\ p.kind \in ExecKinds => o = p
  /\ answers[c] <= 1 /\ started[c] <= 1
  /\ c \in acting => c \in latch \/ Racing(c)

OnceInv == \A c \in Command : Once(c)

(* A step that opens nothing for c, and neither answers nor starts it,      *)
(* keeps Once(c).                                                           *)
LEMMA Frame ==
  ASSUME NEW c \in Command, Once(c),
         c \in marked => c \in marked',
         Held(c, "admit")' => Held(c, "admit"),
         Held(c, "running")' => Held(c, "running"),
         Racing(c)' => Racing(c),
         \A o \in inflight' : o.cmd = c /\ o.kind \in ExecKinds => o \in inflight,
         answers'[c] = answers[c], started'[c] = started[c],
         c \in acting' => c \in latch' \/ Racing(c)'
  PROVE  Once(c)'
<1>1. Sent(c)' => Sent(c)
  BY DEF Sent
<1>2. Admitted(c)' => Admitted(c)
  BY DEF Admitted
<1>3. \A o, p \in inflight' :
        o.cmd = c /\ p.cmd = c /\ o.kind \in ExecKinds /\ p.kind \in ExecKinds => o = p
  BY DEF Once
<1> QED BY <1>1, <1>2, <1>3 DEF Once

(* The head of every other lane is untouched by an advance, and the next    *)
(* head of this one has not had its turn.                                   *)
LEMMA AdvanceHeld ==
  ASSUME TypeInv, NEW v \in Villager, LaneAdvances(v),
         NEW c \in Command, NEW s, s # "idle"
  PROVE  Held(c, s)' <=> Held(c, s) /\ Owner[c] # v
<1>1. Owner[c] \in Villager
  BY CommandAssumption DEF CommandAssumption
<1> QED BY <1>1 DEF Held, Current, LaneAdvances, TypeInv, TypeOK

LEMMA ContinueHeld ==
  ASSUME TypeInv, NEW o \in Outcome, Continue(o),
         NEW c \in Command, NEW s, s # "idle"
  PROVE  /\ Held(c, s)' => Held(c, s)
         /\ Held(c, s) /\ ~Held(c, s)' =>
              c = o.cmd /\ (s = "running" => o.kind \in RaceKinds)
<1>1. Owner[o.cmd] \in Villager
  BY CommandAssumption DEF CommandAssumption, Outcome
<1>2. CASE Awaited(o)
  <2>1. Held(c, s)' <=> Held(c, s) /\ Owner[c] # Owner[o.cmd]
    BY <1>1, <1>2, AdvanceHeld DEF Continue
  <2> QED BY <1>2, <2>1 DEF Awaited, Held
<1>3. CASE ~Awaited(o)
  BY <1>3 DEF Continue, laneVars, Held, Current
<1> QED BY <1>2, <1>3

(* What a send adds to the outcomes in flight.                              *)
LEMMA PublishSent ==
  ASSUME NEW d, NEW kind, Publish(d, kind)
  PROVE  /\ \A o \in inflight' : o \in inflight \/ (o.cmd = d /\ o.kind = kind)
         /\ \A o \in inflight' : o \in inflight \/ o = [cmd |-> d, kind |-> kind]
         /\ \A o \in inflight : o \in inflight'
BY DEF Publish

(* The first outcome of a command: it was marked, admitted or racing, with  *)
(* nothing sent or answered yet.                                            *)
LEMMA FirstOutcome ==
  ASSUME NEW c \in Command, NEW kind \in ExecKinds, Once(c), Publish(c, kind),
         c \in marked, ~Sent(c), answers[c] = 0, started[c] <= 1,
         UNCHANGED <<marked, answers, started>>,
         ~Admitted(c)', ~Racing(c)', c \in acting' => c \in latch'
  PROVE  Once(c)'
<1>1. \A o \in inflight' : o.cmd = c /\ o.kind \in ExecKinds => o = [cmd |-> c, kind |-> kind]
  BY PublishSent DEF Sent
<1>2. ~Held(c, "admit")'
  BY DEF Admitted
<1> QED BY <1>1, <1>2 DEF Once

(* Every step keeps Once of every command.                                  *)
LEMMA NextOnce ==
  ASSUME TypeInv, OnceInv, [Next]_vars, NEW c \in Command
  PROVE  Once(c)'
<1> USE DEF OnceInv
<1>0. Once(c) /\ Owner[c] \in Villager
  BY CommandAssumption DEF CommandAssumption
<1>h. ASSUME NEW v \in Villager, step[v] # "idle"
      PROVE  /\ lane[v] # <<>> /\ Current(v) \in Command /\ Owner[Current(v)] = v
             /\ Held(Current(v), step[v])
             /\ \A s : s # step[v] => ~Held(Current(v), s)
  <2>1. lane[v] # <<>>
    BY <1>h DEF TypeInv, LaneShape
  <2> QED BY <2>1, HeadItem DEF Held
<1>1. ASSUME UNCHANGED <<lane, step, marked, acting, latch, inflight, answers, started>> PROVE Once(c)'
  <2>1. \A s : Held(c, s)' <=> Held(c, s)
    BY <1>1 DEF Held, Current
  <2> QED BY <1>0, <1>1, <2>1, Frame DEF Racing, Once
<1>2. ASSUME NEW v \in Villager, Deliver(v) PROVE Once(c)'
  <2> DEFINE d == Topic[v][fetched[v] + 1]
  <2>1. d \in Command
    <3>1. fetched[v] \in Nat /\ Len(Topic[v]) \in Nat /\ fetched[v] < Len(Topic[v])
      BY <1>2, TopicLength DEF Deliver, TypeInv, TypeOK
    <3> QED BY <3>1, TopicItem
  <2>2. lane' = [lane EXCEPT ![v] = Arrive(lane[v], d)]
    BY <1>2 DEF Deliver
  <2> HIDE DEF d
  <2>3. ASSUME NEW s, s # "idle" PROVE Held(c, s)' <=> Held(c, s)
    <3>1. CASE lane[Owner[c]] = <<>>
      BY <1>0, <1>2, <3>1, <2>3 DEF Deliver, Held, TypeInv, LaneShape
    <3>2. CASE lane[Owner[c]] # <<>> /\ Owner[c] = v
      <4>0. lane[v] \in Seq(Entry)
        BY DEF TypeInv, TypeOK
      <4>1. lane[v] \in Seq(Entry) /\ 1 \in 1..Len(lane[v])
        BY <3>2, <4>0
      <4>a. v \in DOMAIN lane
        BY DEF TypeInv, TypeOK
      <4>b. lane'[v] = Arrive(lane[v], d)
        BY <2>2, <4>a
      <4>2. lane'[v] = Arrive(lane[v], d) /\ lane'[v] # <<>> /\ lane'[v][1].cmd = lane[v][1].cmd
        BY <2>1, <4>1, <4>b, ArriveLane
      <4>3. Current(v)' = Current(v)
        BY <4>1, <4>2, ArriveLane, <2>1 DEF Current
      <4> QED BY <1>2, <3>2, <4>2, <4>3 DEF Held, Deliver
    <3>3. CASE Owner[c] # v
      BY <1>0, <1>2, <2>2, <3>3 DEF Held, Current, Deliver, TypeInv, TypeOK
    <3> QED BY <3>1, <3>2, <3>3
  <2> QED BY <1>0, <1>2, <2>3, Frame DEF Deliver, Racing, Once, runVars, ledgerVars, historyVars
<1>3. ASSUME NEW v \in Villager, TakeTurn(v) PROVE Once(c)'
  <2>1. lane[v] \in Seq(Entry) /\ lane[v] # <<>> /\ Current(v) \in Command /\ Owner[Current(v)] = v
    BY <1>3, HeadItem DEF TakeTurn, TypeInv, TypeOK
  <2>2. ASSUME NEW s \in {"admit", "running"} PROVE Held(c, s)' <=> Held(c, s)
    <3>1. CASE Owner[c] = v
      BY <1>3, <3>1 DEF TakeTurn, Held, TypeInv, TypeOK
    <3>2. CASE Owner[c] # v
      BY <1>0, <1>3, <3>2 DEF TakeTurn, Held, Current, TypeInv, TypeOK
    <3> QED BY <3>1, <3>2
  <2>3. \A o \in inflight' : o.kind \in ExecKinds => o \in inflight
    BY <1>3, PublishSent DEF TakeTurn, ExecKinds, RaceKinds
  <2> QED BY <1>0, <1>3, <2>2, <2>3, Frame DEF TakeTurn, Racing, Once, runVars, ledgerVars, historyVars
<1>4. ASSUME NEW v \in Villager, MarkFresh(v) PROVE Once(c)'
  <2>1. UNCHANGED <<lane, acting, latch, inflight, answers, started>> /\ step' = [step EXCEPT ![v] = "admit"]
    BY <1>4 DEF MarkFresh, runVars, ledgerVars, historyVars
  <2>2. Held(c, "running")' <=> Held(c, "running")
    BY <1>0, <1>4, <2>1 DEF Held, Current, MarkFresh, TypeInv, TypeOK
  <2>3. CASE c = Current(v)
    <3>1. c \notin marked /\ c \in marked'
      BY <1>4, <2>3 DEF MarkFresh
    <3> QED BY <1>0, <2>1, <2>2, <3>1 DEF Once, Racing, Sent
  <2>4. CASE c # Current(v)
    <3>1. Held(c, "admit")' <=> Held(c, "admit")
      BY <1>0, <1>4, <2>1, <2>4 DEF Held, Current, MarkFresh, TypeInv, TypeOK
    <3> QED BY <1>0, <1>4, <2>1, <2>2, <3>1, Frame DEF MarkFresh, Racing, Once
  <2> QED BY <2>3, <2>4
<1>5. ASSUME NEW v \in Villager, SkipDuplicate(v) \/ DedupeFails(v) PROVE Once(c)'
  <2>1. LaneAdvances(v) /\ step[v] = "dedupe" /\ UNCHANGED <<acting, latch, inflight, answers, started>>
        /\ (c \in marked => c \in marked')
    BY <1>5 DEF SkipDuplicate, DedupeFails, runVars, ledgerVars, historyVars
  <2>2. ASSUME NEW s \in {"admit", "running"} PROVE Held(c, s)' <=> Held(c, s)
    BY <2>1, AdvanceHeld DEF Held
  <2> QED BY <1>0, <2>1, <2>2, Frame DEF Racing, Once
<1>6. ASSUME NEW v \in Villager, RejectStale(v) \/ Bounce(v) PROVE Once(c)'
  <2>1. PICK kind \in {"stale", "bounced"} : GateCloses(v, kind)
    BY <1>6 DEF RejectStale, Bounce
  <2>2. /\ step[v] = "admit" /\ step' = [step EXCEPT ![v] = "dropping"] /\ Publish(Current(v), kind)
        /\ UNCHANGED <<lane, marked, acting, latch, answers, started>>
    BY <1>6, <2>1 DEF RejectStale, Bounce, GateCloses, runVars, ledgerVars, historyVars
  <2>3. CASE c = Current(v)
    <3>1. Admitted(c) /\ ~Racing(c)
      BY <1>h, <2>2, <2>3 DEF Admitted, Racing
    <3>2. ~Admitted(c)' /\ ~Racing(c)'
      BY <1>h, <1>0, <2>2, <2>3 DEF Admitted, Racing, Held, TypeInv, TypeOK
    <3> QED BY <1>0, <2>2, <2>3, <3>1, <3>2, FirstOutcome DEF Once, ExecKinds, Admitted
  <2>4. CASE c # Current(v)
    <3>1. ASSUME NEW s \in {"admit", "running"} PROVE Held(c, s)' <=> Held(c, s)
      BY <1>0, <2>2, <2>4 DEF Held, Current, TypeInv, TypeOK
    <3>2. \A o \in inflight' : o.cmd = c => o \in inflight
      BY <2>2, <2>4, PublishSent
    <3> QED BY <1>0, <2>2, <3>1, <3>2, Frame DEF Racing, Once
  <2> QED BY <2>3, <2>4
<1>7. ASSUME NEW v \in Villager, Start(v) PROVE Once(c)'
  <2>1. /\ step[v] = "admit" /\ step' = [step EXCEPT ![v] = "running"]
        /\ acting' = acting \union {Current(v)} /\ latch' = latch \ {Current(v)}
        /\ started' = [started EXCEPT ![Current(v)] = started[Current(v)] + 1]
        /\ UNCHANGED <<lane, marked, inflight, answers>>
    BY <1>7 DEF Start, ledgerVars
  <2>2. CASE c = Current(v)
    <3>1. Admitted(c) /\ c \in marked /\ Owner[c] = v
      BY <1>0, <1>h, <2>1, <2>2 DEF Admitted, Once
    <3>2. ~Admitted(c)' /\ Racing(c)'
      <4>1. step'[v] = "running"
        BY <2>1 DEF TypeInv, TypeOK
      <4>2. lane[v] # <<>>
        BY <1>h, <2>1
      <4> QED BY <2>1, <2>2, <3>1, <4>1, <4>2 DEF Admitted, Racing, Held, Current
    <3>3. started'[c] = 1
      <4>1. started[c] = 0
        BY <1>0, <3>1 DEF Once
      <4>2. c \in DOMAIN started
        BY DEF TypeInv, TypeOK
      <4> QED BY <2>1, <2>2, <4>1, <4>2
    <3> QED BY <1>0, <2>1, <3>1, <3>2, <3>3 DEF Once, Sent
  <2>3. CASE c # Current(v)
    <3>1. ASSUME NEW s \in {"admit", "running"} PROVE Held(c, s)' <=> Held(c, s)
      BY <1>0, <2>1, <2>3 DEF Held, Current, TypeInv, TypeOK
    <3>2. started'[c] = started[c]
      BY <2>1, <2>3 DEF TypeInv, TypeOK
    <3> QED BY <1>0, <2>1, <2>3, <3>1, <3>2, Frame DEF Racing, Once
  <2> QED BY <2>2, <2>3
<1>8. ASSUME NEW v \in Villager, WatchdogFires(v) PROVE Once(c)'
  <2>1. step[v] = "running" /\ UNCHANGED <<marked, acting, answers, started>>
    BY <1>8 DEF WatchdogFires, ledgerVars, historyVars
  <2>2. CASE /\ Current(v) \notin latch /\ latch' = latch \union {Current(v)}
             /\ step' = [step EXCEPT ![v] = "timedout"] /\ Publish(Current(v), "timeout")
             /\ UNCHANGED <<lane, busy, claim>>
    <3>1. CASE c = Current(v)
      <4>1. Racing(c) /\ ~Admitted(c)
        BY <1>h, <2>1, <2>2, <3>1 DEF Racing, Admitted
      <4>2. ~Admitted(c)' /\ ~Racing(c)' /\ c \in latch'
        <5>1. Owner[c] = v /\ step'[v] = "timedout"
          BY <1>h, <2>1, <2>2, <3>1 DEF TypeInv, TypeOK
        <5>2. \A s \in {"admit", "running"} : ~Held(c, s)'
          BY <5>1 DEF Held
        <5> QED BY <2>2, <3>1, <5>2 DEF Racing, Admitted
      <4>3. c \in marked /\ ~Sent(c) /\ answers[c] = 0 /\ started[c] <= 1
        BY <1>0, <4>1 DEF Once, Racing
      <4> QED BY <1>0, <2>1, <2>2, <3>1, <4>2, <4>3, FirstOutcome DEF ExecKinds, RaceKinds
    <3>2. CASE c # Current(v)
      <4>1. ASSUME NEW s \in {"admit", "running"} PROVE Held(c, s)' <=> Held(c, s)
        BY <1>0, <2>1, <2>2, <3>2 DEF Held, Current, TypeInv, TypeOK
      <4>2. \A o \in inflight' : o.cmd = c => o \in inflight
        BY <2>2, <3>2, PublishSent
      <4> QED BY <1>0, <2>1, <2>2, <3>2, <4>1, <4>2, Frame DEF Racing, Once
    <3> QED BY <3>1, <3>2
  <2>3. CASE Current(v) \in latch /\ LaneAdvances(v) /\ UNCHANGED <<latch, inflight>>
    <3>1. ASSUME NEW s \in {"admit", "running"} PROVE Held(c, s)' <=> Held(c, s) /\ Owner[c] # v
      BY <2>3, AdvanceHeld
    <3>2. Racing(c) => Owner[c] # v
      BY <2>1, <2>3 DEF Racing, Held
    <3> QED BY <1>0, <2>1, <2>3, <3>1, <3>2, Frame DEF Racing, Once
  <2> QED BY <1>8, <2>2, <2>3 DEF WatchdogFires
<1>9. ASSUME NEW d \in Command, RunSettles(d) PROVE Once(c)'
  <2>1. d \in acting /\ acting' = acting \ {d} /\ UNCHANGED <<marked, answers, started>>
    BY <1>9 DEF RunSettles, ledgerVars, historyVars
  <2>2. ASSUME UNCHANGED <<lane, step>>, NEW s PROVE Held(c, s)' <=> Held(c, s)
    BY <2>2 DEF Held, Current
  <2>3. CASE d \in latch /\ UNCHANGED <<lane, step, latch, inflight>>
    BY <1>0, <2>1, <2>2, <2>3, Frame DEF Racing, Once
  <2>5. CASE /\ d \in latch /\ UNCHANGED <<latch, inflight>>
             /\ \E v \in Villager : lane[v] # <<>> /\ step[v] = "timedout" /\ LaneAdvances(v)
    <3>0. PICK v \in Villager : lane[v] # <<>> /\ step[v] = "timedout" /\ LaneAdvances(v)
      BY <2>5
    <3>1. ASSUME NEW s \in {"admit", "running"} PROVE Held(c, s)' <=> Held(c, s) /\ Owner[c] # v
      BY <3>0, AdvanceHeld
    <3>2. Admitted(c) \/ Racing(c) => Owner[c] # v
      BY <3>0 DEF Admitted, Racing, Held
    <3>3. \A s \in {"admit", "running"} : Held(c, s) => Owner[c] # v
      BY <3>0 DEF Held
    <3> QED BY <1>0, <2>1, <2>5, <3>1, <3>2, <3>3, Frame DEF Racing, Once
  <2>4. ASSUME UNCHANGED <<lane, step>>, d \notin latch, latch' = latch \union {d},
               NEW kind \in {"completed", "failed"}, Publish(d, kind)
        PROVE  Once(c)'
    <3>1. CASE c = d
      <4>1. Racing(c)
        BY <1>0, <2>1, <2>4, <3>1 DEF Once
      <4>2. c \in marked /\ ~Sent(c) /\ answers[c] = 0 /\ started[c] <= 1 /\ ~Admitted(c)
        BY <1>0, <4>1 DEF Once, Racing, Admitted, Held
      <4>3. ~Admitted(c)' /\ ~Racing(c)' /\ c \in latch'
        BY <2>2, <2>4, <3>1, <4>2 DEF Admitted, Racing
      <4> QED BY <1>0, <2>1, <2>4, <3>1, <4>2, <4>3, FirstOutcome DEF ExecKinds, RaceKinds
    <3>2. CASE c # d
      <4>1. \A o \in inflight' : o.cmd = c => o \in inflight
        BY <2>4, <3>2, PublishSent
      <4> QED BY <1>0, <2>1, <2>2, <2>4, <3>2, <4>1, Frame DEF Racing, Once
    <3> QED BY <3>1, <3>2
  <2> QED BY <1>9, <2>3, <2>4, <2>5, SettlesLane DEF RunSettles, laneVars
<1>10. ASSUME NEW o \in inflight, inflight' = inflight \ {o}, Continue(o),
              UNCHANGED <<marked, acting, latch, started>>,
              \/ answers'[c] = answers[c]
              \/ c = o.cmd /\ o.kind \in ExecKinds /\ answers'[c] = answers[c] + 1
       PROVE  Once(c)'
  <2>1. o \in Outcome
    BY <1>10 DEF TypeInv, TypeOK
  <2>2. ASSUME NEW s \in {"admit", "running"} PROVE Held(c, s)' => Held(c, s)
    BY <1>10, <2>1, ContinueHeld
  <2>3. Racing(c) => Racing(c)'
    <3> SUFFICES ASSUME Racing(c) PROVE Held(c, "running")'
      BY <1>10 DEF Racing
    <3>1. ~Sent(c) /\ Held(c, "running")
      BY <1>0 DEF Once, Racing
    <3>2. ~(c = o.cmd /\ o.kind \in RaceKinds)
      BY <1>10, <3>1 DEF Sent, ExecKinds
    <3> QED BY <1>10, <2>1, <3>1, <3>2, ContinueHeld
  <2>4. Racing(c)' => Racing(c)
    BY <1>10, <2>2 DEF Racing
  <2>5. CASE answers'[c] = answers[c]
    BY <1>0, <1>10, <2>2, <2>3, <2>4, <2>5, Frame DEF Once
  <2>6. CASE c = o.cmd /\ o.kind \in ExecKinds /\ answers'[c] = answers[c] + 1
    <3>1. Sent(c)
      BY <1>10, <2>6 DEF Sent
    <3>2. answers'[c] = 1 /\ ~Admitted(c) /\ ~Racing(c) /\ c \in marked
      BY <1>0, <2>6, <3>1 DEF Once
    <3>3. ~Sent(c)'
      BY <1>0, <1>10, <2>6 DEF Once, Sent
    <3>4. ~Admitted(c)' /\ ~Racing(c)'
      BY <2>2, <2>4, <3>2 DEF Admitted
    <3> QED BY <1>0, <1>10, <3>2, <3>3, <3>4 DEF Once
  <2> QED BY <1>10, <2>5, <2>6
<1>11. ASSUME NEW o \in inflight, Acknowledge(o) PROVE Once(c)'
  <2>1. \/ answers'[c] = answers[c]
        \/ c = o.cmd /\ o.kind \in ExecKinds /\ answers'[c] = answers[c] + 1
    BY <1>11 DEF Acknowledge, Landed
  <2> QED BY <1>10, <1>11, <2>1 DEF Acknowledge, runVars, historyVars
<1>12. ASSUME NEW o \in inflight, SendFails(o) PROVE Once(c)'
  BY <1>10, <1>12 DEF SendFails, runVars, ledgerVars
<1>13. ASSUME Crash PROVE Once(c)'
  <2>1. PICK sent \in SUBSET inflight : answers' = Landed(answers, ExecKinds, sent)
    BY <1>13 DEF Crash
  <2>2. /\ \A s : ~Held(c, s)'
        /\ ~Sent(c)' /\ acting' = {} /\ inflight' = {} /\ UNCHANGED <<marked, started>>
    BY <1>0, <1>13 DEF Crash, Held, Sent
  <2>3. answers'[c] = answers[c] \/ (Sent(c) /\ answers'[c] = answers[c] + 1)
    BY <2>1 DEF Landed, Sent
  <2>4. answers'[c] <= 1 /\ (c \notin marked => answers'[c] = 0)
    BY <1>0, <2>3 DEF Once
  <2> QED BY <1>0, <2>2, <2>4 DEF Once, Admitted, Racing
<1>14. ASSUME NEW v \in Villager,
              Commit(v) \/ Rebalance(v) \/ ReflexClaims(v) \/ ReflexReleases(v) \/ GrowOld(v)
       PROVE  Once(c)'
  BY <1>1, <1>14
     DEF Commit, Rebalance, ReflexClaims, ReflexReleases, GrowOld, laneVars, runVars, ledgerVars, historyVars
<1>15. CASE UNCHANGED vars
  BY <1>1, <1>15 DEF vars, laneVars, runVars, ledgerVars, historyVars
<1> QED
  BY <1>2, <1>3, <1>4, <1>5, <1>6, <1>7, <1>8, <1>9, <1>11, <1>12, <1>13, <1>14, <1>15 DEF Next, Loop

(* Every execution and every answer happens at most once: whatever is       *)
(* redelivered, rejected or restarted, a step of the executor is a step of  *)
(* the contract.                                                            *)
LEMMA NextContract ==
  ASSUME TypeInv, OnceInv, [Next]_vars
  PROVE  [Contract!Next]_(Contract!vars)
<1> USE DEF OnceInv, Contract!vars, Contract!Next
<1>1. ASSUME NEW v \in Villager, MarkFresh(v) PROVE Contract!Take(Current(v)) /\ Current(v) \in Command
  BY <1>1, HeadItem DEF MarkFresh, Contract!Take, ledgerVars, historyVars, TypeInv, LaneShape
<1>2. ASSUME NEW v \in Villager, DedupeFails(v)
      PROVE  UNCHANGED Contract!vars \/ (Contract!Take(Current(v)) /\ Current(v) \in Command)
  BY <1>2, HeadItem DEF DedupeFails, Contract!Take, ledgerVars, TypeInv, LaneShape
<1>3. ASSUME NEW v \in Villager, Start(v) PROVE Contract!Run(Current(v)) /\ Current(v) \in Command
  <2>1. Current(v) \in Command /\ Owner[Current(v)] = v /\ Admitted(Current(v))
    BY <1>3, HeadItem DEF Start, Admitted, Held, TypeInv, LaneShape
  <2>2. Current(v) \in marked /\ answers[Current(v)] = 0 /\ started[Current(v)] = 0
    BY <2>1 DEF Once, Admitted
  <2> QED BY <1>3, <2>1, <2>2 DEF Start, Contract!Run, ledgerVars, TypeInv, TypeOK
<1>4. ASSUME NEW sent \in SUBSET inflight, answers' = Landed(answers, ExecKinds, sent),
             UNCHANGED <<marked, started>>
      PROVE  \E S \in SUBSET Command : Contract!Reply(S)
  <2> DEFINE S == {c \in Command : \E o \in sent : o.cmd = c /\ o.kind \in ExecKinds}
  <2>1. \A c \in S : c \in marked /\ answers[c] = 0
    BY DEF Once, Sent
  <2>2. answers' = [c \in Command |-> IF c \in S THEN 1 ELSE answers[c]]
    BY <1>4, <2>1 DEF Landed
  <2> HIDE DEF S
  <2>3. Contract!Reply(S)
    BY <1>4, <2>1, <2>2 DEF Contract!Reply
  <2> QED BY <2>3 DEF S
<1>5. ASSUME NEW o \in inflight, Acknowledge(o) PROVE \E S \in SUBSET Command : Contract!Reply(S)
  BY <1>4, <1>5 DEF Acknowledge, historyVars
<1>6. ASSUME Crash PROVE \E S \in SUBSET Command : Contract!Reply(S)
  BY <1>4, <1>6 DEF Crash
<1>7. ASSUME NEW v \in Villager,
             \/ Deliver(v) \/ Commit(v) \/ TakeTurn(v) \/ SkipDuplicate(v) \/ RejectStale(v)
             \/ Bounce(v) \/ WatchdogFires(v) \/ Rebalance(v) \/ ReflexClaims(v)
             \/ ReflexReleases(v) \/ GrowOld(v)
      PROVE  UNCHANGED Contract!vars
  BY <1>7 DEF Deliver, Commit, TakeTurn, SkipDuplicate, RejectStale, Bounce, GateCloses, WatchdogFires,
              Rebalance, ReflexClaims, ReflexReleases, GrowOld, ledgerVars, historyVars
<1>8. ASSUME NEW c \in Command, RunSettles(c) PROVE UNCHANGED Contract!vars
  BY <1>8 DEF RunSettles, ledgerVars, historyVars
<1>9. ASSUME NEW o \in inflight, SendFails(o) PROVE UNCHANGED Contract!vars
  BY <1>9 DEF SendFails, ledgerVars
<1>10. CASE UNCHANGED vars
  BY <1>10 DEF vars, ledgerVars, historyVars
<1> QED
  BY <1>1, <1>2, <1>3, <1>5, <1>6, <1>7, <1>8, <1>9, <1>10 DEF Next, Loop

(* The executor implements the contract of CommandContract: a commandId is  *)
(* taken once, run at most once and answered at most once, under            *)
(* rebalances, crashes and failed calls (dedupe.ts, executor.ts).           *)
THEOREM ExecutorImplementsContract == Spec => ImplementsContract
<1>1. Init => TypeInv /\ OnceInv /\ Contract!Init
  <2>1. Init => TypeInv
    BY CommandAssumption DEF Init, CommandAssumption, TypeInv, TypeOK, LaneShape, Steps, Owners
  <2>2. Init => OnceInv
    BY CommandAssumption DEF Init, CommandAssumption, OnceInv, Once, Held, Sent, Admitted, Racing
  <2>3. Init => Contract!Init
    BY DEF Init, Contract!Init
  <2> QED BY <2>1, <2>2, <2>3
<1>2. TypeInv /\ OnceInv /\ [Next]_vars => TypeInv' /\ OnceInv'
  <2>1. ASSUME TypeInv, OnceInv, [Next]_vars PROVE OnceInv'
    BY <2>1, NextOnce DEF OnceInv
  <2> QED BY <2>1, NextType
<1>3. TypeInv /\ OnceInv /\ [Next]_vars => [Contract!Next]_(Contract!vars)
  BY NextContract
<1> QED BY <1>1, <1>2, <1>3, PTL DEF Spec, ImplementsContract, Contract!Spec

-----------------------------------------------------------------------------
(* The body's seam.                                                         *)

LEMMA AdvanceSeam ==
  ASSUME TypeInv, SeamHonest, NEW v \in Villager, LaneAdvances(v), UNCHANGED session
  PROVE  SeamHonest'
BY DEF TypeInv, TypeOK, SeamHonest, LaneAdvances

LEMMA ContinueSeam ==
  ASSUME TypeInv, SeamHonest, NEW o \in inflight, Continue(o), UNCHANGED session
  PROVE  SeamHonest'
<1>1. Owner[o.cmd] \in Villager
  BY CommandAssumption DEF CommandAssumption, Outcome, TypeInv, TypeOK
<1>2. CASE Awaited(o)
  BY <1>1, <1>2, AdvanceSeam DEF Continue
<1>3. CASE ~Awaited(o)
  BY <1>3 DEF Continue, SeamHonest, laneVars
<1> QED BY <1>2, <1>3

LEMMA NextSeam ==
  ASSUME TypeInv, SeamHonest, [Next]_vars
  PROVE  SeamHonest'
<1>1. ASSUME UNCHANGED <<step, session, busy, claim>> PROVE SeamHonest'
  BY <1>1 DEF SeamHonest
<1>2. ASSUME NEW v \in Villager, NEW s \in Steps, step[v] \notin {"running", "timedout"} \/ s = "timedout",
             step' = [step EXCEPT ![v] = s], UNCHANGED <<session, busy, claim>>
      PROVE  SeamHonest'
  BY <1>2 DEF SeamHonest, TypeInv, TypeOK
<1>3. ASSUME NEW v \in Villager, Start(v) PROVE SeamHonest'
  <2>1. step' = [step EXCEPT ![v] = "running"] /\ ~claim[v] /\ busy[v] # "action"
    BY <1>3 DEF Start, SeamHonest, TypeInv, TypeOK
  <2>2. \/ claim' = [claim EXCEPT ![v] = FALSE] /\ busy' = [busy EXCEPT ![v] = "free"]
           /\ \A w \in Villager \ {v} : w \in session' <=> w \in session
        \/ claim' = [claim EXCEPT ![v] = TRUE] /\ busy' = [busy EXCEPT ![v] = "action"]
           /\ v \in session /\ session' = session
        \/ claim' = [claim EXCEPT ![v] = FALSE] /\ busy' = busy /\ session' = session
    <3>2. busy = [busy EXCEPT ![v] = busy[v]]
      BY DEF TypeInv, TypeOK
    <3>3. Embody(v, Current(v))
      BY <1>3 DEF Start
    <3>4. CASE /\ session' = session \union {v} \/ session' = session \ {v}
               /\ busy' = [busy EXCEPT ![v] = "free"] /\ claim' = [claim EXCEPT ![v] = FALSE]
      BY <3>4
    <3>5. CASE /\ busy' = [busy EXCEPT ![v] = IF v \in session THEN "action" ELSE busy[v]]
               /\ claim' = [claim EXCEPT ![v] = v \in session] /\ UNCHANGED session
      <4>1. CASE v \in session
        <5>1. (v \in session) = TRUE
          BY <4>1
        <5> QED BY <3>5, <4>1, <5>1
      <4>2. CASE v \notin session
        <5>1. (v \in session) = FALSE
          BY <4>2
        <5> QED BY <3>2, <3>5, <4>2, <5>1
      <4> QED BY <4>1, <4>2
    <3> QED BY <3>3, <3>4, <3>5 DEF Embody
  <2> QED BY <2>1, <2>2 DEF SeamHonest, TypeInv, TypeOK
<1>4. ASSUME NEW v \in Villager, NEW o \in Reflex \union {"free"}, busy[v] # "action",
             busy' = [busy EXCEPT ![v] = o], UNCHANGED <<step, session, claim>>
      PROVE  SeamHonest'
  <2>1. o # "action"
    BY CommandAssumption DEF CommandAssumption
  <2> QED BY <1>4, <2>1 DEF SeamHonest, TypeInv, TypeOK
<1>5. ASSUME NEW v \in Villager, Deliver(v) \/ Commit(v) \/ Rebalance(v) \/ GrowOld(v) PROVE SeamHonest'
  BY <1>1, <1>5 DEF Deliver, Commit, Rebalance, GrowOld, laneVars, bodyVars
<1>6. ASSUME NEW v \in Villager, TakeTurn(v) \/ MarkFresh(v) \/ RejectStale(v) \/ Bounce(v) PROVE SeamHonest'
  BY <1>2, <1>6 DEF TakeTurn, MarkFresh, RejectStale, Bounce, GateCloses, Steps, bodyVars
<1>7. ASSUME NEW v \in Villager, SkipDuplicate(v) \/ DedupeFails(v) PROVE SeamHonest'
  BY <1>7, AdvanceSeam DEF SkipDuplicate, DedupeFails
<1>8. ASSUME NEW v \in Villager, WatchdogFires(v) PROVE SeamHonest'
  BY <1>2, <1>8, AdvanceSeam DEF WatchdogFires, Steps
<1>9. ASSUME NEW v \in Villager, ReflexClaims(v) \/ ReflexReleases(v) PROVE SeamHonest'
  <2>1. "action" \notin Reflex
    BY CommandAssumption DEF CommandAssumption
  <2> QED BY <1>4, <1>9, <2>1 DEF ReflexClaims, ReflexReleases, laneVars
<1>10. ASSUME NEW c \in Command, RunSettles(c) PROVE SeamHonest'
  BY <1>1, <1>10, SettlesLane, AdvanceSeam DEF RunSettles
<1>11. ASSUME NEW o \in inflight, Acknowledge(o) \/ SendFails(o) PROVE SeamHonest'
  BY <1>11, ContinueSeam DEF Acknowledge, SendFails
<1>12. ASSUME Crash PROVE SeamHonest'
  BY <1>12 DEF Crash, SeamHonest
<1>13. CASE UNCHANGED vars
  BY <1>1, <1>13 DEF vars, laneVars, bodyVars
<1> QED
  BY <1>3, <1>5, <1>6, <1>7, <1>8, <1>9, <1>10, <1>11, <1>12, <1>13 DEF Next, Loop

(* The seam is honest: a body reads 'action' exactly while the execution    *)
(* at the head of its lane holds it, so no reflex and no command ever takes *)
(* a body another one is using (executor.ts, the claim and the finally).    *)
THEOREM SeamAlwaysHonest == Spec => []SeamHonest
<1>1. Init => TypeInv /\ SeamHonest
  BY CommandAssumption
     DEF Init, CommandAssumption, TypeInv, TypeOK, LaneShape, Steps, Owners, SeamHonest
<1>2. TypeInv /\ SeamHonest /\ [Next]_vars => TypeInv' /\ SeamHonest'
  BY NextType, NextSeam
<1> QED BY <1>1, <1>2, PTL DEF Spec

-----------------------------------------------------------------------------
(* The latest intent.                                                       *)

(* What a lane says of who was superseded, and what the waiting map adds:   *)
(* an entry in it is no lifecycle command and is the newest or superseded,  *)
(* and the newest intent behind the head is in it.                          *)
Ordered(entries) ==
  \A i \in 1..Len(entries) :
    LET e == entries[i]  newest == i = Len(entries)
    IN  /\ e.superseded => ~newest /\ e.cmd \notin Lifecycle
        /\ (i > 1 /\ ~newest /\ e.cmd \notin Lifecycle) => e.superseded
        /\ e.waiting => e.cmd \notin Lifecycle /\ (newest \/ e.superseded)
        /\ (i > 1 /\ newest /\ e.cmd \notin Lifecycle) => e.waiting

LanesOrdered == \A v \in Villager : Ordered(lane[v])

LEMMA ArriveOrdered ==
  ASSUME NEW entries \in Seq(Entry), NEW c \in Command, Ordered(entries)
  PROVE  Ordered(Arrive(entries, c))
<1> DEFINE registers == entries # <<>> /\ c \notin Lifecycle
           Marked(e) == [cmd |-> e.cmd, superseded |-> e.superseded \/ e.waiting,
                         waiting |-> e.waiting /\ ~registers]
           older == [i \in DOMAIN entries |-> Marked(entries[i])]
           newer == [cmd |-> c, superseded |-> FALSE, waiting |-> registers]
           n == Len(entries)
<1>1. Arrive(entries, c) = Append(older, newer)
  BY DEF Arrive
<1>2. n \in Nat /\ DOMAIN entries = 1..n /\ registers \in BOOLEAN
  OBVIOUS
<1>3. ASSUME NEW e \in Entry
      PROVE  /\ Marked(e) \in Entry /\ Marked(e).cmd = e.cmd
             /\ Marked(e).superseded <=> e.superseded \/ e.waiting
             /\ Marked(e).waiting => e.waiting
  BY <1>2 DEF Entry
<1>4. newer \in Entry /\ newer.cmd = c /\ ~newer.superseded /\ (newer.waiting <=> registers)
  BY <1>2 DEF Entry
<1>5. \A i \in 1..n : entries[i] \in Entry
  OBVIOUS
<1>6. registers <=> n # 0 /\ c \notin Lifecycle
  BY <1>2
<1> HIDE DEF registers, newer
<1>7. /\ older \in Seq(Entry) /\ Len(older) = n
      /\ \A i \in 1..n : /\ older[i].cmd = entries[i].cmd
                         /\ older[i].superseded <=> entries[i].superseded \/ entries[i].waiting
                         /\ older[i].waiting => entries[i].waiting
  <2> HIDE DEF Marked
  <2> QED BY <1>3, <1>5
<1> HIDE DEF older
<1>8. /\ Len(Arrive(entries, c)) = n + 1 /\ Arrive(entries, c)[n + 1] = newer
      /\ \A i \in 1..n : Arrive(entries, c)[i] = older[i]
  BY <1>1, <1>2, <1>4, <1>7
<1>9. ASSUME NEW i \in 1..n
      PROVE  LET e == older[i]
             IN  /\ e.superseded => e.cmd \notin Lifecycle
                 /\ (i > 1 /\ e.cmd \notin Lifecycle) => e.superseded
                 /\ e.waiting => e.cmd \notin Lifecycle /\ e.superseded
  BY <1>2, <1>7 DEF Ordered
<1> HIDE DEF n
<1> SUFFICES ASSUME NEW i \in 1..(n + 1)
             PROVE  LET e == Arrive(entries, c)[i]  newest == i = n + 1
                    IN  /\ e.superseded => ~newest /\ e.cmd \notin Lifecycle
                        /\ (i > 1 /\ ~newest /\ e.cmd \notin Lifecycle) => e.superseded
                        /\ e.waiting => e.cmd \notin Lifecycle /\ (newest \/ e.superseded)
                        /\ (i > 1 /\ newest /\ e.cmd \notin Lifecycle) => e.waiting
  BY <1>8 DEF Ordered
<1>10. CASE i = n + 1
  BY <1>2, <1>4, <1>6, <1>8, <1>10
<1>11. CASE i \in 1..n
  <2>1. i # n + 1 /\ Arrive(entries, c)[i] = older[i]
    BY <1>2, <1>8, <1>11
  <2> QED BY <1>9, <1>11, <2>1
<1> QED BY <1>2, <1>10, <1>11

LEMMA TurnOrdered ==
  ASSUME NEW entries \in Seq(Entry), entries # <<>>, Ordered(entries)
  PROVE  Ordered(<<[Head(entries) EXCEPT !.waiting = FALSE]>> \o Tail(entries))
<1> DEFINE head == [Head(entries) EXCEPT !.waiting = FALSE]
           after == <<head>> \o Tail(entries)
<1>1. entries[1] \in Entry /\ Head(entries) = entries[1] /\ Len(entries) \in Nat \ {0}
  OBVIOUS
<1>2. head \in Entry /\ head.cmd = entries[1].cmd /\ head.superseded = entries[1].superseded /\ ~head.waiting
  BY <1>1 DEF Entry
<1>3. Tail(entries) \in Seq(Entry) /\ Len(Tail(entries)) = Len(entries) - 1
        /\ \A i \in 1..(Len(entries) - 1) : Tail(entries)[i] = entries[i + 1]
  OBVIOUS
<1> HIDE DEF head
<1>4. Len(after) = Len(entries) /\ after[1] = head
  BY <1>2, <1>3
<1>5. ASSUME NEW i \in 1..Len(entries), i # 1 PROVE after[i] = entries[i]
  <2>1. after[i] = Tail(entries)[i - 1]
    BY <1>2, <1>3, <1>5
  <2>2. i - 1 \in 1..(Len(entries) - 1) /\ (i - 1) + 1 = i
    BY <1>1, <1>5
  <2> QED BY <1>3, <2>1, <2>2
<1> HIDE DEF after
<1>6. Ordered(after)
  BY <1>1, <1>2, <1>4, <1>5 DEF Ordered
<1> QED BY <1>6 DEF after, head

LEMMA TailOrdered ==
  ASSUME NEW entries \in Seq(Entry), entries # <<>>, Ordered(entries)
  PROVE  Ordered(Tail(entries))
<1>1. Len(Tail(entries)) = Len(entries) - 1 /\ Len(entries) \in Nat
  OBVIOUS
<1>2. ASSUME NEW i \in 1..Len(Tail(entries))
      PROVE  /\ i + 1 \in 1..Len(entries) /\ Tail(entries)[i] = entries[i + 1] /\ i + 1 > 1
             /\ i = Len(Tail(entries)) <=> i + 1 = Len(entries)
  BY <1>1, TailLane
<1> QED BY <1>2 DEF Ordered

LEMMA NextOrdered ==
  ASSUME TypeInv, LanesOrdered, [Next]_vars
  PROVE  LanesOrdered'
<1>1. lane \in [Villager -> Seq(Entry)]
  BY DEF TypeInv, TypeOK
<1>2. ASSUME NEW v \in Villager, NEW entries, Ordered(entries), lane' = [lane EXCEPT ![v] = entries]
      PROVE  LanesOrdered'
  BY <1>1, <1>2 DEF LanesOrdered
<1>3. ASSUME UNCHANGED lane PROVE LanesOrdered'
  BY <1>3 DEF LanesOrdered
<1>4. ASSUME NEW v \in Villager, lane[v] # <<>>, LaneAdvances(v) PROVE LanesOrdered'
  BY <1>1, <1>2, <1>4, TailOrdered DEF LaneAdvances, LanesOrdered
<1>5. \A v \in Villager : step[v] # "idle" => lane[v] # <<>>
  BY DEF TypeInv, LaneShape
<1>6. ASSUME NEW v \in Villager, Deliver(v) PROVE LanesOrdered'
  <2> DEFINE c == Topic[v][fetched[v] + 1]
  <2>1. fetched[v] \in Nat /\ Len(Topic[v]) \in Nat /\ fetched[v] < Len(Topic[v])
    BY <1>6, TopicLength DEF Deliver, TypeInv, TypeOK
  <2>2. c \in Command
    BY <2>1, TopicItem
  <2>3. lane' = [lane EXCEPT ![v] = Arrive(lane[v], c)]
    BY <1>6 DEF Deliver
  <2> HIDE DEF c
  <2>4. Ordered(Arrive(lane[v], c))
    BY <1>1, <2>2, ArriveOrdered DEF LanesOrdered
  <2> QED BY <1>2, <2>3, <2>4
<1>7. ASSUME NEW v \in Villager, TakeTurn(v) PROVE LanesOrdered'
  <2>1. /\ lane[v] \in Seq(Entry) /\ lane[v] # <<>> /\ Ordered(lane[v])
        /\ lane' = [lane EXCEPT ![v] = <<[Head(lane[v]) EXCEPT !.waiting = FALSE]>> \o Tail(lane[v])]
    BY <1>1, <1>7 DEF TakeTurn, LanesOrdered
  <2> QED BY <1>2, <2>1, TurnOrdered
<1>8. ASSUME NEW v \in Villager, Commit(v) \/ Rebalance(v) \/ MarkFresh(v) \/ RejectStale(v) \/ Bounce(v)
                                 \/ Start(v) \/ ReflexClaims(v) \/ ReflexReleases(v) \/ GrowOld(v)
      PROVE  LanesOrdered'
  BY <1>3, <1>8 DEF Commit, Rebalance, MarkFresh, RejectStale, Bounce, GateCloses, Start, ReflexClaims,
                    ReflexReleases, GrowOld, laneVars
<1>9. ASSUME NEW v \in Villager, SkipDuplicate(v) \/ DedupeFails(v) PROVE LanesOrdered'
  BY <1>4, <1>5, <1>9 DEF SkipDuplicate, DedupeFails
<1>10. ASSUME NEW v \in Villager, WatchdogFires(v) PROVE LanesOrdered'
  BY <1>3, <1>4, <1>5, <1>10 DEF WatchdogFires
<1>11. ASSUME NEW c \in Command, RunSettles(c) PROVE LanesOrdered'
  BY <1>3, <1>4, <1>11, SettlesLane
<1>12. ASSUME NEW o \in inflight, Acknowledge(o) \/ SendFails(o) PROVE LanesOrdered'
  <2>1. Continue(o) /\ Owner[o.cmd] \in Villager
    BY <1>12, CommandAssumption DEF Acknowledge, SendFails, CommandAssumption, Outcome, TypeInv, TypeOK
  <2>2. CASE Awaited(o)
    BY <1>4, <2>1, <2>2 DEF Continue, Awaited
  <2>3. CASE ~Awaited(o)
    BY <1>3, <2>1, <2>3 DEF Continue, laneVars
  <2> QED BY <2>2, <2>3
<1>13. ASSUME Crash PROVE LanesOrdered'
  <2>1. \A v \in Villager : lane'[v] = <<>>
    BY <1>13 DEF Crash
  <2> QED BY <2>1 DEF LanesOrdered, Ordered
<1>14. CASE UNCHANGED vars
  BY <1>3, <1>14 DEF vars, laneVars
<1> QED
  BY <1>6, <1>7, <1>8, <1>9, <1>10, <1>11, <1>12, <1>13, <1>14 DEF Next, Loop

(* Latest intent wins: whatever arrives, is redelivered, times out or       *)
(* fails, only the newest intent behind the head of a lane is not           *)
(* superseded, and a spawn or a despawn never is (executor.ts, dispatch).   *)
THEOREM LatestIntentAlwaysWins == Spec => []LatestIntentWins
<1>1. Init => TypeInv /\ LanesOrdered
  BY CommandAssumption
     DEF Init, CommandAssumption, TypeInv, TypeOK, LaneShape, Steps, Owners, LanesOrdered, Ordered
<1>2. TypeInv /\ LanesOrdered /\ [Next]_vars => TypeInv' /\ LanesOrdered'
  BY NextType, NextOrdered
<1>3. TypeInv /\ LanesOrdered => LatestIntentWins
  <2> SUFFICES ASSUME TypeInv, LanesOrdered, NEW v \in Villager, NEW i \in DOMAIN lane[v]
               PROVE  LET e == lane[v][i]  newest == i = Len(lane[v])
                      IN  /\ e.superseded => ~newest /\ e.cmd \notin Lifecycle
                          /\ (i > 1 /\ ~newest /\ e.cmd \notin Lifecycle) => e.superseded
    BY DEF LatestIntentWins
  <2>1. Ordered(lane[v]) /\ i \in 1..Len(lane[v])
    BY DEF TypeInv, TypeOK, LanesOrdered
  <2> QED BY <2>1 DEF Ordered
<1> QED BY <1>1, <1>2, <1>3, PTL DEF Spec

-----------------------------------------------------------------------------
(* One outcome per command.                                                 *)

(* A commandId is a fresh uuid: it is published once.                       *)
PublishedOnce ==
  \A v \in Villager : \A i, j \in 1..Len(Topic[v]) : Topic[v][i] = Topic[v][j] => i = j

(* No partition is rewound: neither a rebalance nor a crash makes the       *)
(* consumer read a command again.                                           *)
NeverRewound == \A v \in Villager : fetched[v] <= fetched'[v]

Undispatched(c) == \A i \in 1..fetched[Owner[c]] : Topic[Owner[c]][i] # c

Listed(c) == \E i \in 1..Len(lane[Owner[c]]) : lane[Owner[c]][i].cmd = c

(* Whether c is dropped or marked is still to be decided.                   *)
Pending(c) ==
  \/ Undispatched(c)
  \/ \E i \in 1..Len(lane[Owner[c]]) :
       lane[Owner[c]][i].cmd = c /\ (i > 1 \/ step[Owner[c]] \in {"idle", "dedupe"})

(* A SUPERSEDED outcome of c is on its way to the broker.                   *)
DropSent(c) == \E o \in inflight : o.cmd = c /\ o.kind = "superseded"

(* A command is dropped or marked, never both, and each once: nothing is    *)
(* known of it while that is pending.                                       *)
Single(c) ==
  /\ Undispatched(c) => ~Listed(c)
  /\ Pending(c) => c \notin marked /\ dropped[c] = 0 /\ ~DropSent(c)
  /\ c \in marked => dropped[c] = 0 /\ ~DropSent(c)
  /\ DropSent(c) => dropped[c] = 0
  /\ dropped[c] <= 1

Distinct ==
  \A v \in Villager : \A i, j \in 1..Len(lane[v]) : lane[v][i].cmd = lane[v][j].cmd => i = j

SingleInv == Distinct /\ \A c \in Command : Single(c)

(* What leaves the lane, or waits for its turn in it, only ever shrinks.    *)
Shrinks ==
  /\ Distinct'
  /\ \A c \in Command :
       /\ Undispatched(c)' <=> Undispatched(c)
       /\ Listed(c)' => Listed(c)
       /\ Pending(c)' => Pending(c)

LEMMA AdvanceShrinks ==
  ASSUME TypeInv, Distinct, NEW v \in Villager, lane[v] # <<>>, LaneAdvances(v), UNCHANGED fetched
  PROVE  Shrinks
<1>1. /\ lane \in [Villager -> Seq(Entry)] /\ step \in [Villager -> Steps]
      /\ lane' = [lane EXCEPT ![v] = Tail(lane[v])] /\ step' = [step EXCEPT ![v] = "idle"]
  BY DEF TypeInv, TypeOK, LaneAdvances
<1>2. \A i \in 1..Len(lane'[v]) : i + 1 \in 1..Len(lane[v]) /\ lane'[v][i] = lane[v][i + 1]
  BY <1>1, TailLane
<1>3. \A w \in Villager \ {v} : lane'[w] = lane[w] /\ step'[w] = step[w]
  BY <1>1
<1>4. Distinct'
  <2> SUFFICES ASSUME NEW w \in Villager, NEW i \in 1..Len(lane'[w]), NEW j \in 1..Len(lane'[w]),
                      lane'[w][i].cmd = lane'[w][j].cmd
               PROVE  i = j
    BY DEF Distinct
  <2>1. CASE w = v
    <3>1. /\ i + 1 \in 1..Len(lane[v]) /\ lane'[v][i] = lane[v][i + 1]
          /\ j + 1 \in 1..Len(lane[v]) /\ lane'[v][j] = lane[v][j + 1]
      BY <1>2, <2>1
    <3>2. i + 1 = j + 1
      BY <2>1, <3>1 DEF Distinct
    <3> QED BY <3>2
  <2>2. CASE w # v
    BY <1>3, <2>2 DEF Distinct
  <2> QED BY <2>1, <2>2
<1>5. ASSUME NEW c \in Command
      PROVE  /\ Undispatched(c)' <=> Undispatched(c)
             /\ Listed(c)' => Listed(c)
             /\ Pending(c)' => Pending(c)
  <2>1. Owner[c] \in Villager
    BY CommandAssumption DEF CommandAssumption
  <2>2. Undispatched(c)' <=> Undispatched(c)
    BY DEF Undispatched
  <2>3. CASE Owner[c] = v
    <3>1. ASSUME NEW i \in 1..Len(lane'[v]), lane'[v][i].cmd = c
          PROVE  i + 1 \in 1..Len(lane[v]) /\ lane[v][i + 1].cmd = c /\ i + 1 > 1
      BY <1>2, <3>1
    <3> QED BY <2>2, <2>3, <3>1 DEF Listed, Pending
  <2>4. CASE Owner[c] # v
    BY <1>3, <2>1, <2>2, <2>4 DEF Listed, Pending
  <2> QED BY <2>3, <2>4
<1> QED BY <1>4, <1>5 DEF Shrinks

LEMMA ContinueShrinks ==
  ASSUME TypeInv, Distinct, NEW o \in inflight, Continue(o), UNCHANGED fetched
  PROVE  Shrinks
<1>1. Owner[o.cmd] \in Villager
  BY CommandAssumption DEF CommandAssumption, Outcome, TypeInv, TypeOK
<1>2. CASE Awaited(o)
  BY <1>1, <1>2, AdvanceShrinks DEF Continue, Awaited
<1>3. CASE ~Awaited(o)
  BY <1>3 DEF Continue, Shrinks, Distinct, Undispatched, Listed, Pending, laneVars
<1> QED BY <1>2, <1>3

(* A step that drops nothing, marks nothing and lists nothing keeps         *)
(* SingleInv.                                                               *)
LEMMA SingleFrame ==
  ASSUME SingleInv, Shrinks, NEW c \in Command,
         c \in marked' => c \in marked, dropped'[c] = dropped[c], DropSent(c)' => DropSent(c)
  PROVE  Single(c)'
<1>1. Single(c)
  BY DEF SingleInv
<1>2. (Undispatched(c)' <=> Undispatched(c)) /\ (Listed(c)' => Listed(c)) /\ (Pending(c)' => Pending(c))
  BY Zenon DEF Shrinks
<1> QED BY <1>1, <1>2 DEF Single

(* The head, whose turn is being decided, is the only entry of its command: *)
(* once it is decided nothing about the command is pending.                 *)
LEMMA HeadDecided ==
  ASSUME TypeInv, SingleInv, NEW v \in Villager, lane[v] # <<>>, NEW c \in Command, c = Current(v),
         step[v] \in {"idle", "dedupe"}, NEW s, s \notin {"idle", "dedupe"},
         step' = [step EXCEPT ![v] = s], UNCHANGED fetched,
         lane'[v] \in Seq(Entry), Len(lane'[v]) = Len(lane[v]),
         \A i \in 1..Len(lane[v]) : lane'[v][i].cmd = lane[v][i].cmd,
         \A w \in Villager \ {v} : lane'[w] = lane[w]
  PROVE  /\ Shrinks
         /\ Pending(c) /\ ~Pending(c)'
<1>1. /\ lane[v] \in Seq(Entry) /\ 1 \in 1..Len(lane[v]) /\ c = lane[v][1].cmd
      /\ step \in [Villager -> Steps]
  BY DEF TypeInv, TypeOK, Current
<1>2. Owner[c] = v
  BY HeadItem
<1>3. step'[v] = s /\ \A w \in Villager \ {v} : step'[w] = step[w]
  BY <1>1
<1>4. Distinct /\ Distinct'
  <2>1. \A w \in Villager : Len(lane'[w]) = Len(lane[w])
                            /\ \A i \in 1..Len(lane[w]) : lane'[w][i].cmd = lane[w][i].cmd
    OBVIOUS
  <2> QED BY <2>1 DEF SingleInv, Distinct
<1>5. ASSUME NEW d \in Command
      PROVE  /\ Undispatched(d)' <=> Undispatched(d)
             /\ Listed(d)' <=> Listed(d)
             /\ Pending(d)' => Pending(d)
  <2>1. Owner[d] \in Villager
    BY CommandAssumption DEF CommandAssumption
  <2>2. Undispatched(d)' <=> Undispatched(d)
    BY DEF Undispatched
  <2>3. CASE Owner[d] = v
    BY <1>3, <2>2, <2>3 DEF Listed, Pending
  <2>4. CASE Owner[d] # v
    BY <1>3, <2>1, <2>2, <2>4 DEF Listed, Pending
  <2> QED BY <2>3, <2>4
<1>6. Listed(c) /\ Pending(c)
  BY <1>1, <1>2 DEF Listed, Pending
<1>7. ~Undispatched(c)'
  BY <1>5, <1>6 DEF SingleInv, Single
<1>8. ASSUME Pending(c)' PROVE FALSE
  <2>1. PICK i \in 1..Len(lane'[v]) : lane'[v][i].cmd = c /\ (i > 1 \/ step'[v] \in {"idle", "dedupe"})
    BY <1>2, <1>7, <1>8 DEF Pending
  <2>2. i = 1
    BY <1>1, <1>4, <2>1 DEF Distinct
  <2> QED BY <1>3, <2>1, <2>2
<1> QED BY <1>4, <1>5, <1>6, <1>8 DEF Shrinks

(* dispatch lists the next command of the topic, of which nothing is known: *)
(* it was published once.                                                   *)
LEMMA DeliverSingle ==
  ASSUME TypeInv, SingleInv, PublishedOnce, NEW v \in Villager, Deliver(v)
  PROVE  SingleInv'
<1>0. fetched[v] \in Nat /\ fetched[v] + 1 \in 1..Len(Topic[v])
  BY TopicLength DEF Deliver, TypeInv, TypeOK
<1> PICK n \in Nat : n = fetched[v] + 1
  BY <1>0
<1> PICK d \in Command : d = Topic[v][n]
  BY <1>0, TopicItem
<1>1. fetched[v] \in Nat /\ n \in 1..Len(Topic[v]) /\ Owner[d] = v
  BY <1>0, TopicItem
<1>2. /\ lane \in [Villager -> Seq(Entry)] /\ fetched \in [Villager -> Nat]
      /\ fetched' = [fetched EXCEPT ![v] = n] /\ lane' = [lane EXCEPT ![v] = Arrive(lane[v], d)]
      /\ UNCHANGED <<step, marked, dropped, inflight>>
  BY DEF Deliver, TypeInv, TypeOK, ledgerVars
<1>3. /\ Len(lane'[v]) = Len(lane[v]) + 1 /\ Len(lane[v]) \in Nat
      /\ \A i \in 1..Len(lane[v]) : lane'[v][i].cmd = lane[v][i].cmd
      /\ lane'[v][Len(lane[v]) + 1].cmd = d
  <2>1. lane[v] \in Seq(Entry) /\ lane'[v] = Arrive(lane[v], d)
    BY <1>2
  <2>2. Len(lane[v]) \in Nat
    BY <2>1
  <2>3. /\ Len(Arrive(lane[v], d)) = Len(lane[v]) + 1
        /\ \A i \in 1..Len(lane[v]) : Arrive(lane[v], d)[i].cmd = lane[v][i].cmd
        /\ Arrive(lane[v], d)[Len(lane[v]) + 1].cmd = d
    BY <2>1, ArriveLane
  <2> QED BY <2>1, <2>2, <2>3
<1>4. \A w \in Villager \ {v} : lane'[w] = lane[w] /\ fetched'[w] = fetched[w]
  BY <1>2
<1>5. fetched'[v] = n
  BY <1>2
<1>6. \A i \in 1..fetched[v] : Topic[v][i] # d
  <2> SUFFICES ASSUME NEW i \in 1..fetched[v], Topic[v][i] = d PROVE FALSE
    OBVIOUS
  <2>1. i \in 1..Len(Topic[v]) /\ i # n /\ Topic[v][i] = Topic[v][n] /\ Len(Topic[v]) \in Nat
    BY <1>1, TopicLength
  <2> QED BY <1>1, <2>1 DEF PublishedOnce
<1>7. Undispatched(d) /\ ~Undispatched(d)'
  <2>1. n \in 1..fetched'[v] /\ Topic[v][n] = d
    BY <1>1, <1>5
  <2> QED BY <1>1, <1>6, <2>1 DEF Undispatched
<1>8. Single(d) /\ ~Listed(d) /\ d \notin marked /\ dropped[d] = 0 /\ ~DropSent(d)
  BY <1>1, <1>7 DEF SingleInv, Single, Pending
<1>9. Distinct'
  <2> SUFFICES ASSUME NEW w \in Villager, NEW i \in 1..Len(lane'[w]), NEW j \in 1..Len(lane'[w]),
                      lane'[w][i].cmd = lane'[w][j].cmd
               PROVE  i = j
    BY DEF Distinct
  <2>1. CASE w = v
    <3>1. \A k \in 1..Len(lane[v]) : lane[v][k].cmd # d
      BY <1>1, <1>8 DEF Listed
    <3>2. \A k \in 1..Len(lane'[v]) : k \in 1..Len(lane[v]) \/ k = Len(lane[v]) + 1
      BY <1>3
    <3> QED BY <1>3, <2>1, <3>1, <3>2 DEF SingleInv, Distinct
  <2>2. CASE w # v
    BY <1>4, <2>2 DEF SingleInv, Distinct
  <2> QED BY <2>1, <2>2
<1>10. ASSUME NEW c \in Command PROVE Single(c)'
  <2>0. Owner[c] \in Villager /\ Single(c) /\ (DropSent(c)' <=> DropSent(c))
    BY <1>2, CommandAssumption DEF CommandAssumption, SingleInv, DropSent
  <2>1. CASE c = d
    BY <1>2, <1>7, <1>8, <2>0, <2>1 DEF Single
  <2>2. CASE c # d /\ Owner[c] = v
    <3>1. Undispatched(c)' => Undispatched(c)
      BY <1>1, <1>5, <2>2 DEF Undispatched
    <3>2. ASSUME NEW i \in 1..Len(lane'[v]), lane'[v][i].cmd = c
          PROVE  i \in 1..Len(lane[v]) /\ lane[v][i].cmd = c
      BY <1>3, <2>2, <3>2
    <3>3. (Listed(c)' => Listed(c)) /\ (Pending(c)' => Pending(c))
      BY <1>2, <2>2, <3>1, <3>2 DEF Listed, Pending
    <3> QED BY <1>2, <2>0, <3>1, <3>3 DEF Single
  <2>3. CASE Owner[c] # v
    <3>1. /\ Undispatched(c)' <=> Undispatched(c)
          /\ Listed(c)' <=> Listed(c)
          /\ Pending(c)' <=> Pending(c)
      BY <1>2, <1>4, <2>0, <2>3 DEF Undispatched, Listed, Pending
    <3> QED BY <1>2, <2>0, <3>1 DEF Single
  <2> QED BY <2>1, <2>2, <2>3
<1> QED BY <1>9, <1>10 DEF SingleInv

LEMMA NextSingle ==
  ASSUME TypeInv, SingleInv, PublishedOnce, [Next]_vars, NeverRewound
  PROVE  SingleInv'
<1>0. \A c \in Command : Single(c)
  BY DEF SingleInv
<1>1. ASSUME Shrinks,
             \A c \in Command :
               (c \in marked' => c \in marked) /\ dropped'[c] = dropped[c] /\ (DropSent(c)' => DropSent(c))
      PROVE  SingleInv'
  BY <1>1, SingleFrame DEF SingleInv, Shrinks
<1>2. ASSUME UNCHANGED <<fetched, lane, step>> PROVE Shrinks
  BY <1>2 DEF Shrinks, SingleInv, Distinct, Undispatched, Listed, Pending
<1>3. ASSUME UNCHANGED <<fetched, lane, step, marked, inflight, dropped>> PROVE SingleInv'
  BY <1>1, <1>2, <1>3 DEF DropSent
<1>4. \A v \in Villager : step[v] # "idle" => lane[v] # <<>>
  BY DEF TypeInv, LaneShape
<1>5. ASSUME NEW d \in Command, NEW kind, Publish(d, kind), NEW c \in Command,
             c # d \/ kind # "superseded"
      PROVE  DropSent(c)' => DropSent(c)
  BY <1>5, PublishSent DEF DropSent
<1>6. ASSUME NEW v \in Villager, TakeTurn(v) PROVE SingleInv'
  <2>1. /\ lane[v] \in Seq(Entry) /\ lane[v] # <<>> /\ step[v] = "idle" /\ lane \in [Villager -> Seq(Entry)]
        /\ lane' = [lane EXCEPT ![v] = <<[Head(lane[v]) EXCEPT !.waiting = FALSE]>> \o Tail(lane[v])]
        /\ UNCHANGED <<fetched, marked, dropped>>
    BY <1>6 DEF TakeTurn, TypeInv, TypeOK, topicVars, ledgerVars
  <2>2. /\ lane'[v] \in Seq(Entry) /\ Len(lane'[v]) = Len(lane[v])
        /\ \A i \in 1..Len(lane[v]) : lane'[v][i].cmd = lane[v][i].cmd
    BY <2>1, TurnLane
  <2>3. \A w \in Villager \ {v} : lane'[w] = lane[w]
    BY <2>1
  <2>4. Current(v) \in Command
    BY <2>1, HeadItem
  <2>5. CASE step' = [step EXCEPT ![v] = "dropping"] /\ Publish(Current(v), "superseded")
    <3>1. PICK d \in Command : d = Current(v)
      BY <2>4
    <3>2. Shrinks /\ Pending(d) /\ ~Pending(d)'
      BY <2>1, <2>2, <2>3, <2>5, <3>1, HeadDecided
    <3>3. d \notin marked /\ dropped[d] = 0 /\ Single(d)
      BY <1>0, <3>2 DEF Single
    <3>4. ASSUME NEW c \in Command PROVE Single(c)'
      <4>1. CASE c = d
        <5>1. Single(c) /\ (Undispatched(c)' => ~Listed(c)')
          BY <1>0, <3>2 DEF Shrinks, Single
        <5> QED BY <2>1, <3>2, <3>3, <4>1, <5>1 DEF Single
      <4>2. CASE c # d
        BY <1>5, <2>1, <2>5, <3>1, <3>2, <4>2, SingleFrame
      <4> QED BY <4>1, <4>2
    <3> QED BY <3>2, <3>4 DEF SingleInv, Shrinks
  <2>6. CASE step' = [step EXCEPT ![v] = "dedupe"] /\ UNCHANGED inflight
    <3>0. step \in [Villager -> Steps]
      BY DEF TypeInv, TypeOK
    <3>1. Distinct'
      BY <2>2, <2>3 DEF SingleInv, Distinct
    <3>2. ASSUME NEW c \in Command
          PROVE  /\ Undispatched(c)' <=> Undispatched(c)
                 /\ Listed(c)' <=> Listed(c)
                 /\ Pending(c)' <=> Pending(c)
      <4>1. Owner[c] \in Villager
        BY CommandAssumption DEF CommandAssumption
      <4>2. Undispatched(c)' <=> Undispatched(c)
        BY <2>1 DEF Undispatched
      <4>3. CASE Owner[c] = v
        BY <2>1, <2>2, <2>6, <3>0, <4>2, <4>3 DEF Listed, Pending
      <4>4. CASE Owner[c] # v
        BY <2>3, <2>6, <3>0, <4>1, <4>2, <4>4 DEF Listed, Pending
      <4> QED BY <4>3, <4>4
    <3>3. Shrinks
      BY <3>1, <3>2 DEF Shrinks
    <3> QED BY <1>1, <2>1, <2>6, <3>3 DEF DropSent
  <2> QED BY <1>6, <2>5, <2>6 DEF TakeTurn
<1>7. ASSUME NEW v \in Villager, MarkFresh(v) PROVE SingleInv'
  <2>1. /\ lane[v] # <<>> /\ step[v] = "dedupe" /\ step' = [step EXCEPT ![v] = "admit"]
        /\ marked' = marked \union {Current(v)} /\ UNCHANGED <<lane, fetched, inflight, dropped>>
        /\ lane[v] \in Seq(Entry)
    BY <1>4, <1>7 DEF MarkFresh, topicVars, ledgerVars, TypeInv, TypeOK
  <2>2. PICK d \in Command : d = Current(v)
    BY <2>1, HeadItem
  <2>3. Shrinks /\ Pending(d) /\ ~Pending(d)'
    BY <2>1, <2>2, HeadDecided
  <2>4. ASSUME NEW c \in Command PROVE Single(c)'
    <3>1. DropSent(c)' <=> DropSent(c)
      BY <2>1 DEF DropSent
    <3>2. CASE c = d
      <4>1. Single(c) /\ (Undispatched(c)' => ~Listed(c)')
        BY <1>0, <2>3 DEF Shrinks, Single
      <4> QED BY <2>1, <2>3, <3>1, <3>2, <4>1 DEF Single
    <3>3. CASE c # d
      BY <2>1, <2>2, <2>3, <3>1, <3>3, SingleFrame
    <3> QED BY <3>2, <3>3
  <2> QED BY <2>3, <2>4 DEF SingleInv, Shrinks
<1>8. ASSUME NEW v \in Villager, SkipDuplicate(v) \/ DedupeFails(v) PROVE SingleInv'
  <2>1. /\ lane[v] # <<>> /\ step[v] = "dedupe" /\ LaneAdvances(v)
        /\ marked' \in {marked, marked \union {Current(v)}} /\ UNCHANGED <<fetched, inflight, dropped>>
    BY <1>4, <1>8 DEF SkipDuplicate, DedupeFails, topicVars, ledgerVars
  <2>2. PICK d \in Command : d = Current(v)
    BY <2>1, HeadItem
  <2>3. Shrinks
    BY <2>1, AdvanceShrinks DEF SingleInv
  <2>4. Pending(d) /\ ~Pending(d)'
    <3>1. Owner[d] = v /\ lane \in [Villager -> Seq(Entry)]
      BY <2>1, <2>2, HeadItem DEF TypeInv, TypeOK
    <3>2. 1 \in 1..Len(lane[v]) /\ lane[v][1].cmd = d
      BY <2>1, <2>2, <3>1 DEF Current
    <3>3. Pending(d) /\ Listed(d)
      BY <2>1, <3>1, <3>2 DEF Pending, Listed
    <3>4. ~Undispatched(d)'
      BY <1>0, <2>3, <3>3 DEF Shrinks, Single
    <3>5. ASSUME NEW i \in 1..Len(lane'[v]), lane'[v][i].cmd = d PROVE FALSE
      <4>1. lane'[v] = Tail(lane[v])
        BY <2>1, <3>1 DEF LaneAdvances
      <4>2. i + 1 \in 1..Len(lane[v]) /\ lane[v][i + 1].cmd = d /\ i + 1 # 1
        BY <2>1, <3>1, <3>5, <4>1, TailLane
      <4> QED BY <3>2, <4>2 DEF SingleInv, Distinct
    <3> QED BY <3>1, <3>3, <3>4, <3>5 DEF Pending
  <2>5. ASSUME NEW c \in Command PROVE Single(c)'
    <3>1. DropSent(c)' <=> DropSent(c)
      BY <2>1 DEF DropSent
    <3>2. CASE c = d
      <4>1. Single(c) /\ (Undispatched(c)' => ~Listed(c)')
        BY <1>0, <2>3 DEF Shrinks, Single
      <4> QED BY <2>1, <2>4, <3>1, <3>2, <4>1 DEF Single
    <3>3. CASE c # d
      BY <2>1, <2>2, <2>3, <3>1, <3>3, SingleFrame
    <3> QED BY <3>2, <3>3
  <2> QED BY <2>3, <2>5 DEF SingleInv, Shrinks
<1>9. ASSUME NEW v \in Villager, NEW s, step[v] \notin {"idle", "dedupe"}, s \notin {"idle", "dedupe"},
             step' = [step EXCEPT ![v] = s], UNCHANGED <<lane, fetched>>
      PROVE  Shrinks
  BY <1>9 DEF Shrinks, SingleInv, Distinct, Undispatched, Listed, Pending, TypeInv, TypeOK
<1>10. ASSUME NEW v \in Villager, RejectStale(v) \/ Bounce(v) PROVE SingleInv'
  <2>1. PICK kind \in {"stale", "bounced"} : GateCloses(v, kind)
    BY <1>10 DEF RejectStale, Bounce
  <2>2. /\ step[v] = "admit" /\ step' = [step EXCEPT ![v] = "dropping"] /\ Publish(Current(v), kind)
        /\ UNCHANGED <<lane, fetched, marked, dropped>>
    BY <1>10, <2>1 DEF RejectStale, Bounce, GateCloses, topicVars, ledgerVars
  <2>3. Current(v) \in Command
    BY <1>4, <2>2, HeadItem
  <2> QED BY <1>1, <1>5, <1>9, <2>2, <2>3
<1>11. ASSUME NEW v \in Villager, Start(v) PROVE SingleInv'
  BY <1>1, <1>9, <1>11 DEF Start, topicVars, ledgerVars, DropSent
<1>12. ASSUME NEW v \in Villager, WatchdogFires(v) PROVE SingleInv'
  <2>1. step[v] = "running" /\ lane[v] # <<>> /\ Current(v) \in Command /\ UNCHANGED <<fetched, marked, dropped>>
    BY <1>4, <1>12, HeadItem DEF WatchdogFires, topicVars, ledgerVars
  <2>2. CASE step' = [step EXCEPT ![v] = "timedout"] /\ Publish(Current(v), "timeout") /\ UNCHANGED lane
    <3>1. Shrinks
      BY <1>9, <2>1, <2>2
    <3>2. \A c \in Command : DropSent(c)' => DropSent(c)
      BY <1>5, <2>1, <2>2
    <3> QED BY <1>1, <2>1, <3>1, <3>2
  <2>3. CASE LaneAdvances(v) /\ UNCHANGED inflight
    BY <1>1, <2>1, <2>3, AdvanceShrinks DEF SingleInv, DropSent
  <2> QED BY <1>12, <2>2, <2>3 DEF WatchdogFires
<1>13. ASSUME NEW d \in Command, RunSettles(d) PROVE SingleInv'
  <2>1. UNCHANGED <<fetched, marked, dropped>>
    BY <1>13 DEF RunSettles, topicVars, ledgerVars
  <2>2. ASSUME NEW c \in Command PROVE DropSent(c)' => DropSent(c)
    BY <1>5, <1>13 DEF RunSettles, DropSent
  <2>3. CASE UNCHANGED <<lane, step>>
    BY <1>1, <1>2, <2>1, <2>2, <2>3
  <2>4. ASSUME NEW v \in Villager, lane[v] # <<>>, step[v] = "timedout", LaneAdvances(v)
        PROVE  SingleInv'
    <3>1. Shrinks
      BY <2>1, <2>4, AdvanceShrinks DEF SingleInv
    <3> QED BY <1>1, <2>1, <2>2, <3>1
  <2> QED BY <1>13, <2>3, <2>4, SettlesLane
<1>14. ASSUME NEW o \in inflight, Acknowledge(o) PROVE SingleInv'
  <2>1. /\ inflight' = inflight \ {o} /\ Continue(o) /\ UNCHANGED <<fetched, marked>> /\ o \in Outcome
        /\ dropped' = Landed(dropped, {"superseded"}, {o}) /\ inflight \subseteq Outcome
    BY <1>14 DEF Acknowledge, topicVars, TypeInv, TypeOK
  <2>2. Shrinks
    BY <2>1, ContinueShrinks DEF SingleInv
  <2>3. ASSUME NEW c \in Command PROVE Single(c)'
    <3>0. DropSent(c)' => DropSent(c)
      BY <2>1 DEF DropSent
    <3>1. CASE o.cmd = c /\ o.kind = "superseded"
      <4>1. DropSent(c) /\ dropped'[c] = dropped[c] + 1
        BY <2>1, <3>1 DEF DropSent, Landed
      <4>2. ~DropSent(c)'
        <5>1. ASSUME NEW p \in inflight', p.cmd = c, p.kind = "superseded" PROVE FALSE
          <6>1. p = o
            BY <2>1, <3>1, <5>1 DEF Outcome
          <6> QED BY <2>1, <6>1
        <5> QED BY <5>1 DEF DropSent
      <4>3. Single(c) /\ (Undispatched(c)' => ~Listed(c)') /\ (Pending(c)' => Pending(c))
        BY <1>0, <2>2 DEF Shrinks, Single
      <4>4. dropped[c] = 0 /\ c \notin marked /\ ~Pending(c)
        BY <4>1, <4>3 DEF Single
      <4> QED BY <2>1, <4>1, <4>2, <4>3, <4>4 DEF Single
    <3>2. CASE ~(o.cmd = c /\ o.kind = "superseded")
      <4>1. dropped'[c] = dropped[c]
        BY <2>1, <3>2 DEF Landed
      <4> QED BY <2>1, <2>2, <3>0, <4>1, SingleFrame
    <3> QED BY <3>1, <3>2
  <2> QED BY <2>2, <2>3 DEF SingleInv, Shrinks
<1>15. ASSUME NEW o \in inflight, SendFails(o) PROVE SingleInv'
  <2>1. inflight' = inflight \ {o} /\ Continue(o) /\ UNCHANGED <<fetched, marked, dropped>>
    BY <1>15 DEF SendFails, topicVars, ledgerVars
  <2>2. Shrinks
    BY <2>1, ContinueShrinks DEF SingleInv
  <2> QED BY <1>1, <2>1, <2>2 DEF DropSent
<1>16. ASSUME NEW v \in Villager, Rebalance(v) PROVE FALSE
  BY <1>16 DEF Rebalance, NeverRewound, TypeInv, TypeOK
<1>17. ASSUME Crash PROVE SingleInv'
  <2>1. /\ UNCHANGED marked /\ inflight' = {} /\ \A v \in Villager : lane'[v] = <<>>
        /\ \E sent \in SUBSET inflight : dropped' = Landed(dropped, {"superseded"}, sent)
    BY <1>17 DEF Crash
  <2>2. \A v \in Villager : fetched'[v] = fetched[v]
    BY <1>17 DEF Crash, NeverRewound, TypeInv, TypeOK
  <2>3. ASSUME NEW c \in Command PROVE Single(c)'
    <3>1. Owner[c] \in Villager /\ Single(c)
      BY <1>0, CommandAssumption DEF CommandAssumption
    <3>2. ~Listed(c)' /\ ~DropSent(c)' /\ (Undispatched(c)' <=> Undispatched(c)) /\ (Pending(c)' => Undispatched(c))
      BY <2>1, <2>2, <3>1 DEF Listed, DropSent, Undispatched, Pending
    <3>3. dropped'[c] = dropped[c] \/ (DropSent(c) /\ dropped'[c] = dropped[c] + 1)
      BY <2>1 DEF Landed, DropSent
    <3>4. Undispatched(c) => Pending(c)
      BY DEF Pending
    <3> QED BY <2>1, <3>1, <3>2, <3>3, <3>4 DEF Single
  <2>4. Distinct'
    BY <2>1 DEF Distinct
  <2> QED BY <2>3, <2>4 DEF SingleInv
<1>18. ASSUME NEW v \in Villager, Commit(v) \/ ReflexClaims(v) \/ ReflexReleases(v) \/ GrowOld(v) PROVE SingleInv'
  BY <1>3, <1>18 DEF Commit, ReflexClaims, ReflexReleases, GrowOld, topicVars, laneVars, ledgerVars
<1>19. CASE UNCHANGED vars
  BY <1>3, <1>19 DEF vars, topicVars, laneVars, ledgerVars
<1>20. ASSUME NEW v \in Villager, Deliver(v) PROVE SingleInv'
  BY <1>20, DeliverSingle
<1> QED
  BY <1>6, <1>7, <1>8, <1>10, <1>11, <1>12, <1>13, <1>14, <1>15, <1>16, <1>17, <1>18, <1>19, <1>20 DEF Next, Loop

(* A step that leaves the count of faults at zero rewinds no partition.     *)
LEMMA FaultlessStep ==
  ASSUME TypeOK, Next, faults' = 0
  PROVE  faults = 0 /\ NeverRewound
<1>1. faults \in Nat
  BY CommandAssumption DEF TypeOK, CommandAssumption
<1>2. ASSUME UNCHANGED <<fetched, faults>> PROVE faults = 0 /\ NeverRewound
  BY <1>2 DEF NeverRewound, TypeOK
<1>3. ASSUME NEW v \in Villager, Deliver(v) PROVE faults = 0 /\ NeverRewound
  BY <1>3 DEF Deliver, NeverRewound, historyVars, TypeOK
<1>4. ASSUME NEW v \in Villager, Loop(v), ~Deliver(v) PROVE UNCHANGED <<fetched, faults>>
  BY <1>4 DEF Loop, Commit, TakeTurn, MarkFresh, SkipDuplicate, RejectStale, Bounce, GateCloses, Start,
              WatchdogFires, topicVars, historyVars
<1>5. ASSUME NEW v \in Villager, ReflexClaims(v) \/ ReflexReleases(v) \/ GrowOld(v)
      PROVE  UNCHANGED <<fetched, faults>>
  BY <1>5 DEF ReflexClaims, ReflexReleases, GrowOld, topicVars, historyVars
<1>6. ASSUME NEW c \in Command, RunSettles(c) PROVE UNCHANGED <<fetched, faults>>
  BY <1>6 DEF RunSettles, topicVars, historyVars
<1>7. ASSUME NEW o \in inflight, Acknowledge(o) PROVE UNCHANGED <<fetched, faults>>
  BY <1>7 DEF Acknowledge, topicVars, historyVars
<1>8. ~Crash /\ \A v \in Villager : ~Rebalance(v) /\ ~DedupeFails(v)
  BY <1>1 DEF Crash, Rebalance, DedupeFails
<1>9. \A o \in inflight : ~SendFails(o)
  BY <1>1 DEF SendFails
<1> QED BY <1>2, <1>3, <1>4, <1>5, <1>6, <1>7, <1>8, <1>9 DEF Next

LEMMA SingleMeansOne ==
  ASSUME TypeInv, OnceInv, SingleInv
  PROVE  AtMostOneOutcome
<1> SUFFICES ASSUME NEW c \in Command PROVE answers[c] + dropped[c] <= 1
  BY DEF AtMostOneOutcome, Outcomes
<1>1. Once(c) /\ Single(c) /\ answers[c] \in Nat /\ dropped[c] \in Nat
  BY DEF OnceInv, SingleInv, TypeInv, TypeOK
<1> QED BY <1>1 DEF Once, Single

(* As long as no partition is rewound, a command has at most one outcome,   *)
(* SUPERSEDED included: whatever sends or Redis calls fail, whenever the    *)
(* watchdog fires, and over every restart that loses no offset              *)
(* (executor.ts, "EXACTLY one").  executor_redelivery shows the condition   *)
(* is needed.                                                               *)
THEOREM OneOutcomeUnlessRewound ==
  ASSUME PublishedOnce
  PROVE  Spec /\ [][NeverRewound]_vars => []AtMostOneOutcome
<1>1. Init => TypeInv /\ OnceInv /\ SingleInv
  <2>1. Init => TypeInv
    BY CommandAssumption DEF Init, CommandAssumption, TypeInv, TypeOK, LaneShape, Steps, Owners
  <2>2. Init => OnceInv
    BY CommandAssumption DEF Init, CommandAssumption, OnceInv, Once, Held, Sent, Admitted, Racing
  <2>3. Init => SingleInv
    BY CommandAssumption DEF Init, CommandAssumption, SingleInv, Distinct, Single, Undispatched, Listed, Pending, DropSent
  <2> QED BY <2>1, <2>2, <2>3
<1>2. TypeInv /\ OnceInv /\ SingleInv /\ [Next]_vars /\ [NeverRewound]_vars => TypeInv' /\ OnceInv' /\ SingleInv'
  <2> SUFFICES ASSUME TypeInv, OnceInv, SingleInv, [Next]_vars, [NeverRewound]_vars
               PROVE  TypeInv' /\ OnceInv' /\ SingleInv'
    OBVIOUS
  <2>1. NeverRewound
    BY DEF NeverRewound, vars, topicVars, TypeInv, TypeOK
  <2>2. OnceInv'
    BY NextOnce DEF OnceInv
  <2> QED BY <2>1, <2>2, NextType, NextSingle
<1>3. TypeInv /\ OnceInv /\ SingleInv => AtMostOneOutcome
  BY SingleMeansOne
<1> QED BY <1>1, <1>2, <1>3, PTL DEF Spec

(* In particular as long as nothing has failed.                             *)
THEOREM OneOutcomeUntilAFault ==
  ASSUME PublishedOnce
  PROVE  Spec => []OneOutcomeWithoutFaults
<1> DEFINE SingleSoFar == faults = 0 => SingleInv
<1>1. Init => TypeInv /\ OnceInv /\ SingleSoFar
  <2>1. Init => TypeInv
    BY CommandAssumption DEF Init, CommandAssumption, TypeInv, TypeOK, LaneShape, Steps, Owners
  <2>2. Init => OnceInv
    BY CommandAssumption DEF Init, CommandAssumption, OnceInv, Once, Held, Sent, Admitted, Racing
  <2>3. Init => SingleInv
    BY CommandAssumption DEF Init, CommandAssumption, SingleInv, Distinct, Single, Undispatched, Listed, Pending, DropSent
  <2> QED BY <2>1, <2>2, <2>3
<1>2. TypeInv /\ OnceInv /\ SingleSoFar /\ [Next]_vars => TypeInv' /\ OnceInv' /\ SingleSoFar'
  <2> SUFFICES ASSUME TypeInv, OnceInv, SingleSoFar, [Next]_vars, faults' = 0 PROVE SingleInv'
    BY NextType, NextOnce DEF OnceInv
  <2>1. CASE UNCHANGED vars
    <3>1. NeverRewound /\ faults = 0
      BY <2>1 DEF NeverRewound, vars, topicVars, historyVars, TypeInv, TypeOK
    <3> QED BY <3>1, NextSingle
  <2>2. CASE Next
    <3>1. faults = 0 /\ NeverRewound
      BY <2>2, FaultlessStep DEF TypeInv
    <3> QED BY <3>1, NextSingle
  <2> QED BY <2>1, <2>2
<1>3. TypeInv /\ OnceInv /\ SingleSoFar => OneOutcomeWithoutFaults
  BY SingleMeansOne DEF OneOutcomeWithoutFaults
<1> QED BY <1>1, <1>2, <1>3, PTL DEF Spec
=============================================================================
