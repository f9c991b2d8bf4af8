-------------------------- MODULE CommandExecutor --------------------------
(***************************************************************************)
(* The command plane of minecraft-service: one Kafka partition of          *)
(* ActionRequested commands per villager, the consumer that hands them to  *)
(* the executor without waiting, the per-villager lane in which they take  *)
(* turns, commandId deduplication in Redis, the staleness and reflex       *)
(* gates, the run itself raced against a watchdog, and the publication of  *)
(* the outcome.  JavaScript runs one callback at a time, so an action is   *)
(* the code between two awaits.                                            *)
(*                                                                         *)
(* Faults: a rebalance rewinds the partition to the committed offset, the  *)
(* process crashes, Redis or the producer rejects a call.  MaxFaults       *)
(* bounds how many of them happen.                                         *)
(***************************************************************************)
EXTENDS Naturals, Sequences

CONSTANTS
  Villager,   \* the villagers, each the key of a partition
  Command,    \* commandIds
  Owner,      \* [Command -> Villager]: payload.villagerId
  Topic,      \* [Villager -> Seq(Command)]: what the minds publish, in order
  Spawns,     \* the commands whose action is 'spawn'
  Despawns,   \* the commands whose action is 'despawn'
  Reflex,     \* the reflexes that can own a body: escape, combat, eat
  MaxFaults   \* bound on rebalances, crashes and failed calls

ASSUME CommandAssumption ==
  /\ Owner \in [Command -> Villager]
  /\ Topic \in [Villager -> Seq(Command)]
  /\ \A v \in Villager : \A i \in 1..Len(Topic[v]) : Owner[Topic[v][i]] = v
  /\ Spawns \subseteq Command /\ Despawns \subseteq Command
  /\ Reflex \intersect {"free", "action"} = {}
  /\ MaxFaults \in Nat

VARIABLES
  fetched,    \* next offset of the villager's partition, less one
  committed,  \* the committed offset
  lane,       \* the villager's serial chain; its head has, or takes, the turn
  step,       \* what the head of the lane is waiting for
  marked,     \* commandIds SET NX in Redis
  aged,       \* commands older than COMMAND_MAX_AGE_SECONDS
  session,    \* villagers that have a BotSession in the registry
  busy,       \* session.busy: who owns the body
  claim,      \* the head's execution holds the busy seam of the live session
  acting,     \* commands whose run() has not settled, zombies included
  latch,      \* commands whose `settled` flag is set in this process
  inflight,   \* outcomes handed to the producer, not yet acknowledged
  answers,    \* outcomes of executed commands on world.events
  dropped,    \* SUPERSEDED outcomes on world.events
  started,    \* how often run() was entered, over all incarnations
  faults      \* faults so far

topicVars   == <<fetched, committed>>
laneVars    == <<lane, step>>
bodyVars    == <<session, busy, claim>>
runVars     == <<acting, latch>>
ledgerVars  == <<answers, dropped>>
historyVars == <<aged, started, faults>>
vars == <<topicVars, laneVars, marked, bodyVars, runVars, inflight, ledgerVars, historyVars>>

-----------------------------------------------------------------------------

(* LIFECYCLE_ACTIONS: state transitions of the body, never superseded.     *)
Lifecycle == Spawns \union Despawns

Owners == {"free", "action"} \union Reflex

(* How a command can end.  The first is published without an execution;    *)
(* the next two come from the gates; the last three race each other.       *)
RaceKinds == {"completed", "failed", "timeout"}
GateKinds == {"superseded", "stale", "bounced"}
ExecKinds == RaceKinds \union {"stale", "bounced"}
Outcome   == [cmd : Command, kind : RaceKinds \union GateKinds]

Entry == [cmd : Command, superseded : BOOLEAN, waiting : BOOLEAN]

(* idle: the head, if any, has not had its turn; dropping: a gate's outcome *)
(* is being published; dedupe and admit: before and after Redis answered;   *)
(* running: run() races the watchdog; timedout: the watchdog publishes.     *)
Steps == {"idle", "dropping", "dedupe", "admit", "running", "timedout"}

Current(v) == Head(lane[v]).cmd

Init ==
  /\ fetched = [v \in Villager |-> 0]
  /\ committed = [v \in Villager |-> 0]
  /\ lane = [v \in Villager |-> <<>>]
  /\ step = [v \in Villager |-> "idle"]
  /\ marked = {} /\ aged = {}
  /\ session = {}
  /\ busy = [v \in Villager |-> "free"]
  /\ claim = [v \in Villager |-> FALSE]
  /\ acting = {} /\ latch = {}
  /\ inflight = {}
  /\ answers = [c \in Command |-> 0]
  /\ dropped = [c \in Command |-> 0]
  /\ started = [c \in Command |-> 0]
  /\ faults = 0

-----------------------------------------------------------------------------
(* A definition named X_Bug is X with a plausible bug: the runs replace X   *)
(* by it to show that a property notices.                                   *)

(* Mutant: a spawn waiting its turn is supersedable like any intent.        *)
Arrive_LifecycleToo(entries, c) ==
  LET registers == entries # <<>>
      Marked(e) == [cmd |-> e.cmd,
                    superseded |-> e.superseded \/ e.waiting,
                    waiting |-> e.waiting /\ ~registers]
  IN  Append([i \in DOMAIN entries |-> Marked(entries[i])],
             [cmd |-> c, superseded |-> FALSE, waiting |-> registers])

(* dispatch: what a new arrival does to the command still waiting its turn, *)
(* and whether it becomes the waiting one itself.                           *)

Arrive(entries, c) ==
  LET registers == entries # <<>> /\ c \notin Lifecycle
      Marked(e) == [cmd |-> e.cmd,
                    superseded |-> e.superseded \/ e.waiting,
                    waiting |-> e.waiting /\ ~registers]
  IN  Append([i \in DOMAIN entries |-> Marked(entries[i])],
             [cmd |-> c, superseded |-> FALSE, waiting |-> registers])

(* The consumer reads the next command and dispatches it, never waiting.   *)
Deliver(v) ==
  /\ fetched[v] < Len(Topic[v])
  /\ fetched' = [fetched EXCEPT ![v] = @ + 1]
  /\ lane' = [lane EXCEPT ![v] = Arrive(@, Topic[v][fetched[v] + 1])]
  /\ UNCHANGED <<committed, step, marked, bodyVars, runVars, inflight, ledgerVars, historyVars>>

(* Mutant: the commit runs one past what was dispatched.                    *)
Commit_OneTooFar(v) ==
  /\ committed[v] < fetched[v]
  /\ committed' = [committed EXCEPT ![v] = fetched[v] + 1]
  /\ UNCHANGED <<fetched, laneVars, marked, bodyVars, runVars, inflight, ledgerVars, historyVars>>

(* kafkajs commits the offset of what eachMessage has returned for.        *)
Commit(v) ==
  /\ committed[v] < fetched[v]
  /\ committed' = [committed EXCEPT ![v] = fetched[v]]
  /\ UNCHANGED <<fetched, laneVars, marked, bodyVars, runVars, inflight, ledgerVars, historyVars>>

(* A rebalance: the partition resumes at the committed offset while the    *)
(* process, its lanes and its bodies live on.                              *)
Rebalance(v) ==
  /\ faults < MaxFaults
  /\ committed[v] < fetched[v]
  /\ fetched' = [fetched EXCEPT ![v] = committed[v]]
  /\ faults' = faults + 1
  /\ UNCHANGED <<committed, laneVars, marked, bodyVars, runVars, inflight, ledgerVars, aged, started>>

-----------------------------------------------------------------------------
(* The lane: one promise chain per villager.                               *)

(* The head is done: the seam it claimed is released and the next command  *)
(* becomes the head.                                                       *)
LaneAdvances(v) ==
  /\ lane' = [lane EXCEPT ![v] = Tail(@)]
  /\ step' = [step EXCEPT ![v] = "idle"]
  /\ busy' = [busy EXCEPT ![v] = IF claim[v] THEN "free" ELSE @]
  /\ claim' = [claim EXCEPT ![v] = FALSE]

Publish(c, kind) == inflight' = inflight \union {[cmd |-> c, kind |-> kind]}

(* The head takes its turn: it stops being supersedable, and is dropped if  *)
(* a newer command superseded it while it waited.                           *)
TakeTurn(v) ==
  /\ lane[v] # <<>> /\ step[v] = "idle"
  /\ lane' = [lane EXCEPT ![v] = <<[Head(@) EXCEPT !.waiting = FALSE]>> \o Tail(@)]
  /\ \/ /\ Head(lane[v]).superseded
        /\ step' = [step EXCEPT ![v] = "dropping"]
        /\ Publish(Current(v), "superseded")
     \/ /\ ~Head(lane[v]).superseded
        /\ step' = [step EXCEPT ![v] = "dedupe"]
        /\ UNCHANGED inflight
  /\ UNCHANGED <<topicVars, marked, bodyVars, runVars, ledgerVars, historyVars>>

(* CommandDedupe.isFresh: SET NX marks before anything is executed.        *)
MarkFresh(v) ==
  /\ step[v] = "dedupe"
  /\ Current(v) \notin marked
  /\ marked' = marked \union {Current(v)}
  /\ step' = [step EXCEPT ![v] = "admit"]
  /\ UNCHANGED <<topicVars, lane, bodyVars, runVars, inflight, ledgerVars, historyVars>>

SkipDuplicate(v) ==
  /\ step[v] = "dedupe"
  /\ Current(v) \in marked
  /\ LaneAdvances(v)
  /\ UNCHANGED <<topicVars, marked, session, runVars, inflight, ledgerVars, historyVars>>

(* Redis rejects, before or after it applied the SET: the rejection ends in *)
(* the lane's catch and the command has no outcome.                         *)
DedupeFails(v) ==
  /\ faults < MaxFaults
  /\ step[v] = "dedupe"
  /\ marked' \in {marked, marked \union {Current(v)}}
  /\ faults' = faults + 1
  /\ LaneAdvances(v)
  /\ UNCHANGED <<topicVars, session, runVars, inflight, ledgerVars, aged, started>>

-----------------------------------------------------------------------------
(* execute, from the answer of Redis to the start of the race.             *)

GateCloses(v, kind) ==
  /\ step' = [step EXCEPT ![v] = "dropping"]
  /\ Publish(Current(v), kind)
  /\ UNCHANGED <<topicVars, lane, marked, bodyVars, runVars, ledgerVars, historyVars>>

(* Mutant: a stale command is dropped without an outcome.                   *)
RejectStale_Silent(v) ==
  /\ step[v] = "admit"
  /\ Current(v) \in aged
  /\ LaneAdvances(v)
  /\ UNCHANGED <<topicVars, marked, session, runVars, inflight, ledgerVars, historyVars>>

(* An intent for NOW that waited too long is dropped.                      *)
RejectStale(v) ==
  /\ step[v] = "admit"
  /\ Current(v) \in aged
  /\ GateCloses(v, "stale")

(* BUSY_BOUNCE: a reflex owns the body, the command fails at once.         *)
Bounce(v) ==
  /\ step[v] = "admit"
  /\ Current(v) \notin aged
  /\ v \in session /\ busy[v] \in Reflex
  /\ GateCloses(v, "bounced")

(* Mutant: the release re-reads the registry, so a spawn's execution also   *)
(* holds the seam of the session it has just created.                       *)
Embody_ClaimsNewSession(v, c) ==
  /\ session' = IF c \in Despawns THEN session \ {v}
                ELSE IF c \in Spawns THEN session \union {v} ELSE session
  /\ busy' = [busy EXCEPT ![v] = IF v \in session /\ c \notin Lifecycle
                                 THEN "action" ELSE "free"]
  /\ claim' = [claim EXCEPT ![v] = v \in session']

(* Three ways the registry can take a command's first synchronous steps: a  *)
(* spawn puts a new BotSession, its seam free, in the place of an inactive  *)
(* or missing one; a despawn removes the session; any other command, and a  *)
(* spawn that finds its villager active, holds the session it claimed.      *)
Embody(v, c) ==
  \/ /\ c \in Spawns
     /\ session' = session \union {v}
     /\ busy' = [busy EXCEPT ![v] = "free"]
     /\ claim' = [claim EXCEPT ![v] = FALSE]
  \/ /\ c \in Despawns
     /\ session' = session \ {v}
     /\ busy' = [busy EXCEPT ![v] = "free"]
     /\ claim' = [claim EXCEPT ![v] = FALSE]
  \/ /\ c \notin Despawns
     /\ c \in Spawns => v \in session
     /\ busy' = [busy EXCEPT ![v] = IF v \in session THEN "action" ELSE @]
     /\ claim' = [claim EXCEPT ![v] = v \in session]
     /\ UNCHANGED session

(* The seam is claimed, the watchdog armed and run() entered, in one block. *)
Start(v) ==
  /\ step[v] = "admit"
  /\ Current(v) \notin aged
  /\ ~(v \in session /\ busy[v] \in Reflex)
  /\ step' = [step EXCEPT ![v] = "running"]
  /\ Embody(v, Current(v))
  /\ acting' = acting \union {Current(v)}
  /\ latch' = latch \ {Current(v)}
  /\ started' = [started EXCEPT ![Current(v)] = @ + 1]
  /\ UNCHANGED <<topicVars, lane, marked, inflight, ledgerVars, aged, faults>>

-----------------------------------------------------------------------------
(* The race of run() against the watchdog.                                 *)

(* The head has timed out, and the outcome of the watchdog is on its way.   *)
TimedOut(c) ==
  LET v == Owner[c]
  IN  lane[v] # <<>> /\ Current(v) = c /\ step[v] = "timedout"

(* Mutant: no `settled` latch.                                              *)
RunSettles_NoLatch(c) ==
  /\ c \in acting
  /\ acting' = acting \ {c}
  /\ latch' = latch \union {c}
  /\ \E kind \in {"completed", "failed"} : Publish(c, kind)
  /\ IF TimedOut(c) THEN LaneAdvances(Owner[c]) ELSE UNCHANGED <<laneVars, busy, claim>>
  /\ UNCHANGED <<topicVars, marked, session, ledgerVars, historyVars>>

(* run() settles, for the running command or for a zombie the watchdog gave *)
(* up on: the latch lets only the first of the two outcomes through.  A run *)
(* the watchdog has just beaten wins the race after all: the lane moves on  *)
(* without the answer to the watchdog's send.                               *)
RunSettles(c) ==
  /\ c \in acting
  /\ acting' = acting \ {c}
  /\ \/ /\ c \in latch
        /\ IF TimedOut(c) THEN LaneAdvances(Owner[c]) ELSE UNCHANGED <<laneVars, busy, claim>>
        /\ UNCHANGED <<latch, inflight>>
     \/ /\ c \notin latch
        /\ latch' = latch \union {c}
        /\ \E kind \in {"completed", "failed"} : Publish(c, kind)
        /\ UNCHANGED <<laneVars, busy, claim>>
  /\ UNCHANGED <<topicVars, marked, session, ledgerVars, historyVars>>

(* Mutant: the lane awaits run() itself instead of racing it.               *)
WatchdogFires_AfterRun(v) ==
  /\ step[v] = "running" /\ Current(v) \notin acting
  /\ LaneAdvances(v)
  /\ UNCHANGED <<topicVars, marked, session, runVars, inflight, ledgerVars, historyVars>>

(* The deadline: the watchdog claims the outcome, or finds it settled and   *)
(* lets the lane move on without waiting for that publication.              *)
WatchdogFires(v) ==
  /\ step[v] = "running"
  /\ \/ /\ Current(v) \notin latch
        /\ latch' = latch \union {Current(v)}
        /\ step' = [step EXCEPT ![v] = "timedout"]
        /\ Publish(Current(v), "timeout")
        /\ UNCHANGED <<lane, busy, claim>>
     \/ /\ Current(v) \in latch
        /\ LaneAdvances(v)
        /\ UNCHANGED <<latch, inflight>>
  /\ UNCHANGED <<topicVars, marked, session, acting, ledgerVars, historyVars>>

-----------------------------------------------------------------------------
(* The producer.                                                           *)

(* The head of the lane is waiting for the publication of this outcome.    *)
Awaited(o) ==
  LET v == Owner[o.cmd]
  IN  /\ lane[v] # <<>> /\ Current(v) = o.cmd
      /\ \/ step[v] = "dropping" /\ o.kind \in GateKinds
         \/ step[v] \in {"running", "timedout"} /\ o.kind \in RaceKinds

Continue(o) ==
  IF Awaited(o) THEN LaneAdvances(Owner[o.cmd])
                ELSE UNCHANGED <<laneVars, busy, claim>>

(* What the ledger gains when some of the sends in flight reach the broker. *)
Landed(count, kinds, sent) ==
  [c \in Command |-> IF \E o \in sent : o.cmd = c /\ o.kind \in kinds
                     THEN count[c] + 1 ELSE count[c]]

Acknowledge(o) ==
  /\ o \in inflight
  /\ inflight' = inflight \ {o}
  /\ answers' = Landed(answers, ExecKinds, {o})
  /\ dropped' = Landed(dropped, {"superseded"}, {o})
  /\ Continue(o)
  /\ UNCHANGED <<topicVars, marked, session, runVars, historyVars>>

(* The send is rejected.  A gate's or the run's outcome is swallowed by a   *)
(* catch; the watchdog's promise has none, so Node ends the process.        *)
SendFails(o) ==
  /\ faults < MaxFaults
  /\ o \in inflight /\ o.kind # "timeout"
  /\ inflight' = inflight \ {o}
  /\ faults' = faults + 1
  /\ Continue(o)
  /\ UNCHANGED <<topicVars, marked, session, runVars, ledgerVars, aged, started>>

(* The process dies and is restarted: all its memory is gone; Redis, the   *)
(* ledger and the committed offsets remain.  A send in flight may or may   *)
(* not have reached the broker.  Also what a failed watchdog send does.    *)
Crash ==
  /\ faults < MaxFaults
  /\ faults' = faults + 1
  /\ \E sent \in SUBSET inflight :
       /\ answers' = Landed(answers, ExecKinds, sent)
       /\ dropped' = Landed(dropped, {"superseded"}, sent)
  /\ fetched' = committed
  /\ lane' = [v \in Villager |-> <<>>]
  /\ step' = [v \in Villager |-> "idle"]
  /\ session' = {}
  /\ busy' = [v \in Villager |-> "free"]
  /\ claim' = [v \in Villager |-> FALSE]
  /\ acting' = {} /\ latch' = {} /\ inflight' = {}
  /\ UNCHANGED <<committed, marked, aged, started>>

-----------------------------------------------------------------------------
(* The environment: reflexes take and release a free body, time passes.    *)

ReflexClaims(v) ==
  /\ v \in session /\ busy[v] = "free"
  /\ \E r \in Reflex : busy' = [busy EXCEPT ![v] = r]
  /\ UNCHANGED <<topicVars, laneVars, marked, session, claim, runVars, inflight, ledgerVars, historyVars>>

ReflexReleases(v) ==
  /\ busy[v] \in Reflex
  /\ busy' = [busy EXCEPT ![v] = "free"]
  /\ UNCHANGED <<topicVars, laneVars, marked, session, claim, runVars, inflight, ledgerVars, historyVars>>

(* Once old, a command stays old; only its admission looks, so its age is   *)
(* drawn there.                                                            *)
GrowOld(v) ==
  /\ step[v] = "admit" /\ Current(v) \notin aged
  /\ aged' = aged \union {Current(v)}
  /\ UNCHANGED <<topicVars, laneVars, marked, bodyVars, runVars, inflight, ledgerVars, started, faults>>

-----------------------------------------------------------------------------

(* What the event loop itself is bound to do, callback after callback.     *)
Loop(v) ==
  \/ Deliver(v) \/ Commit(v) \/ TakeTurn(v)
  \/ MarkFresh(v) \/ SkipDuplicate(v)
  \/ RejectStale(v) \/ Bounce(v) \/ Start(v)
  \/ WatchdogFires(v)

Next ==
  \/ \E v \in Villager :
       Loop(v) \/ Rebalance(v) \/ DedupeFails(v) \/ ReflexClaims(v) \/ ReflexReleases(v)
       \/ GrowOld(v)
  \/ \E c \in Command : RunSettles(c)
  \/ \E o \in inflight : Acknowledge(o) \/ SendFails(o)
  \/ Crash

(* Timers fire and the broker answers: the loop's own steps and the         *)
(* acknowledgement of every send are fair.  run() is not: a mineflayer      *)
(* promise may never settle.                                                *)
Fairness ==
  /\ \A v \in Villager : WF_vars(Loop(v))
  /\ \A o \in Outcome : WF_vars(Acknowledge(o))

Spec     == Init /\ [][Next]_vars
FairSpec == Spec /\ Fairness

-----------------------------------------------------------------------------
(* Properties.                                                             *)

(* Every variable keeps its type, and no offset is committed before the    *)
(* command under it was dispatched.                                        *)
TypeOK ==
  /\ fetched \in [Villager -> Nat] /\ committed \in [Villager -> Nat]
  /\ \A v \in Villager : committed[v] <= fetched[v] /\ fetched[v] <= Len(Topic[v])
  /\ lane \in [Villager -> Seq(Entry)]
  /\ step \in [Villager -> Steps]
  /\ marked \subseteq Command /\ aged \subseteq Command
  /\ session \subseteq Villager
  /\ busy \in [Villager -> Owners]
  /\ claim \in [Villager -> BOOLEAN]
  /\ acting \subseteq Command /\ latch \subseteq Command
  /\ inflight \subseteq Outcome
  /\ answers \in [Command -> Nat] /\ dropped \in [Command -> Nat]
  /\ started \in [Command -> Nat]
  /\ faults \in 0..MaxFaults

Contract == INSTANCE CommandContract
              WITH taken <- marked, runs <- started, replies <- answers

(* Under rebalances, crashes and failed calls a command is executed at most *)
(* once, and its execution is answered at most once on the ledger: the      *)
(* executor implements the contract (dedupe.ts, the `settled` latch).       *)
ImplementsContract == Contract!Spec

(* The seam reads 'action' exactly while the head of the lane holds it on   *)
(* the live session: no reflex overwrites a command's claim, no command     *)
(* claims a reflex's body, and no claim outlives its execution.             *)
SeamHonest ==
  \A v \in Villager :
    /\ claim[v] <=> busy[v] = "action"
    /\ claim[v] => v \in session /\ step[v] \in {"running", "timedout"}

(* Latest intent wins: behind the head, every intent but the newest arrival *)
(* is superseded; nothing is superseded unless something newer is queued    *)
(* behind it; a spawn or a despawn never is.                                *)
LatestIntentWins ==
  \A v \in Villager : \A i \in DOMAIN lane[v] :
    LET e == lane[v][i]  newest == i = Len(lane[v])
    IN  /\ e.superseded => ~newest /\ e.cmd \notin Lifecycle
        /\ (i > 1 /\ ~newest /\ e.cmd \notin Lifecycle) => e.superseded

Outcomes(c) == answers[c] + dropped[c]

(* At most one ActionCompleted or ActionFailed per command, SUPERSEDED      *)
(* included (executor.ts: "EXACTLY one").                                   *)
AtMostOneOutcome == \A c \in Command : Outcomes(c) <= 1

(* At most one of them as long as nothing has failed: the watchdog and a    *)
(* run() that settles late never both answer (the `settled` latch).         *)
OneOutcomeWithoutFaults == faults = 0 => AtMostOneOutcome

Dispatched(c) == \E i \in 1..fetched[Owner[c]] : Topic[Owner[c]][i] = c

(* No lane is ever wedged: whatever fails, and even if run() never settles, *)
(* every lane drains.  And as long as nothing has failed, it does not drain *)
(* by forgetting: every dispatched command gets its outcome.                *)
LaneDrains ==
  \A v \in Villager :
    lane[v] # <<>> ~> /\ lane[v] = <<>>
                      /\ faults = 0 => \A c \in Command : Dispatched(c) => Outcomes(c) = 1
=============================================================================
