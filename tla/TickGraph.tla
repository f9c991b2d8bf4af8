----------------------------- MODULE TickGraph -----------------------------
(***************************************************************************)
(* One tick of one villager (agent-service, brain/graph.py), node by node, *)
(* with the percept queue it drains (kafka/percepts.py fills it), what it  *)
(* remembers of its own asking (brain/awareness.py) and the world that     *)
(* answers its commands.  When a tick begins is TickScheduler's matter:    *)
(* here one may begin whenever none runs.  Any node but the first may      *)
(* raise, and that ends the tick.                                          *)
(*                                                                         *)
(* The world answers as minecraft-service does: a command that waits       *)
(* behind a running one is superseded by the next.  Its outcomes are read  *)
(* at least once: what was read since the last committed offset is read    *)
(* again after a restart or a rebalance.                                   *)
(***************************************************************************)
EXTENDS Naturals, SequencesExt, FiniteSetsExt

CONSTANTS
  Intent,         \* what a decision can ask for; the salient target included
  ActionOf,       \* [Intent -> the action's name, which is all an outcome tells]
  Idle,           \* the intent of a malformed answer
  QueueCap,       \* _QUEUE_CAP
  PerceptsMax,    \* percepts_max_per_tick
  AbandonAfter,   \* failures that make a streak hot
  StreakTTL,      \* _STREAK_TTL_TICKS
  MaxRefusals,    \* bound on the refusals heard, of all actions together
  MaxUncommitted  \* bound on the outcomes read since the committed offset

ASSUME TickGraphAssumption ==
  /\ Idle \in Intent
  /\ QueueCap \in Nat \ {0} /\ PerceptsMax \in Nat \ {0}
  /\ AbandonAfter \in Nat \ {0} /\ StreakTTL \in Nat \ {0}
  /\ MaxRefusals \in Nat /\ MaxUncommitted \in Nat

VARIABLES
  node,      \* the node that runs next; "perceive" when no tick runs
  queue,     \* percepts:{villagerId}
  percepts,  \* what the tick has drained
  last,      \* ActionAwareness._last
  streaks,   \* ActionAwareness._streaks: [Intent -> count and idle ticks]
  decision,  \* what this tick has published and not yet remembered
  doing,     \* actions the world has not answered for: the running one first
  recent,    \* outcomes read since the committed offset
  refusals   \* [action -> substantive refusals put in the queue] (of the property)

tickVars == <<node, percepts, decision>>
mindOwn  == <<last, streaks>>
graphVars == <<tickVars, queue, mindOwn, doing, recent, refusals>>

Action == {ActionOf[i] : i \in Intent}

NoStreak == [count |-> 0, idle |-> 0]

-----------------------------------------------------------------------------
(* The queue. *)

\* Mutant: the queue is not trimmed.
Pushed_Untrimmed(q, percept) == Append(q, percept)

\* _push: append, and keep the newest.
Pushed(q, percept) ==
  LET longer == Append(q, percept)
  IN  SubSeq(longer, Max({1, Len(longer) - QueueCap + 1}), Len(longer))

\* Mutant: the percepts are read and stay in the queue.
Drained_Peeked == [taken |-> SubSeq(queue, 1, Min({PerceptsMax, Len(queue)})), left |-> queue]

\* drain_percepts takes the oldest.
Drained ==
  LET n == Min({PerceptsMax, Len(queue)})
  IN  [taken |-> SubSeq(queue, 1, n), left |-> SubSeq(queue, n + 1, Len(queue))]

-----------------------------------------------------------------------------
(* The streaks. *)

\* The percepts that are about the action last asked for, and say something
\* about the intent: plumbing failures are passed over.  The first one counts.
Telling ==
  {k \in DOMAIN percepts :
     last # "none" /\ percepts[k].action = ActionOf[last] /\ percepts[k].type # "plumbing"}

Missed(s) ==
  IF s.count = 0 \/ s.idle + 1 >= StreakTTL THEN NoStreak ELSE [s EXCEPT !.idle = @ + 1]

\* note_outcomes
NotedOutcomes ==
  [i \in Intent |->
     IF Telling = {} \/ i # last THEN Missed(streaks[i])
     ELSE IF percepts[Min(Telling)].type = "completed" THEN NoStreak
     ELSE [count |-> streaks[i].count + 1, idle |-> 0]]

\* What the prompt says to give up.
Hot == {i \in Intent : streaks[i].count >= AbandonAfter}

-----------------------------------------------------------------------------
(* The nodes. *)

\* perceive, and retrieve: until the model is asked nothing but the drained
\* percepts changes hands.
Perceive ==
  /\ node = "perceive" /\ node' = "deliberate"
  /\ percepts' = Drained.taken /\ queue' = Drained.left
  /\ UNCHANGED <<decision, mindOwn, doing, recent, refusals>>

\* deliberate up to the model's call: the streaks are folded first, so that a
\* call that raises has counted them.  What was drained matters to
\* relationships alone from here on.
Deliberate ==
  /\ node = "deliberate" /\ node' = "act"
  /\ streaks' = NotedOutcomes /\ percepts' = <<>>
  /\ UNCHANGED <<decision, queue, last, doing, recent, refusals>>

\* The consumer hears of an outcome.  What is stale by then is not pushed; and
\* nothing asks whether it was pushed before.
Pushes(percept) ==
  /\ percept.type = "refused" => MapThenSumSet(LAMBDA a : refusals[a], Action) < MaxRefusals
  /\ queue' = Pushed(queue, percept)
  /\ refusals' = IF percept.type = "refused" THEN [refusals EXCEPT ![percept.action] = @ + 1] ELSE refusals

\* What awareness makes of an outcome: a plumbing failure is passed over, of
\* whatever action it tells.
PerceptOf(type, action) == [type |-> type, action |-> IF type = "plumbing" THEN "any" ELSE action]

Told(type, action) ==
  LET percept == PerceptOf(type, action)
  IN  /\ recent' = recent \union {percept} /\ Cardinality(recent') <= MaxUncommitted
      /\ Pushes(percept) \/ UNCHANGED <<queue, refusals>>

\* decide_safely and act up to the command: a malformed answer is an idle
\* decision.  A command that waits is superseded.
Act ==
  /\ node = "act" /\ node' = "relate"
  /\ decision' \in Intent
  /\ \/ /\ Len(doing) < 2
        /\ doing' = Append(doing, ActionOf[decision'])
        /\ UNCHANGED <<queue, recent, refusals>>
     \/ /\ Len(doing) = 2
        /\ doing' = <<doing[1], ActionOf[decision']>>
        /\ Told("plumbing", doing[2])
  /\ UNCHANGED <<percepts, mindOwn>>

\* The rest of act: speech, relationships (a rejected batch is swallowed), and
\* what was asked for is remembered.
Relate ==
  /\ node = "relate" /\ node' = "reflect"
  /\ last' = decision /\ decision' = "none"
  /\ UNCHANGED <<percepts, queue, streaks, doing, recent, refusals>>

EndOfTick ==
  /\ node' = "perceive" /\ percepts' = <<>> /\ decision' = "none"

\* memory.store, MemoryFormed, flush
Reflect ==
  /\ node = "reflect" /\ EndOfTick
  /\ UNCHANGED <<queue, mindOwn, doing, recent, refusals>>

\* A node raises: what it had drained is gone, and what it had published or
\* remembered stays.  After its command and before the end of act, what it
\* asked for is not remembered.
TickFails ==
  /\ node # "perceive" /\ EndOfTick
  /\ UNCHANGED <<queue, mindOwn, doing, recent, refusals>>

-----------------------------------------------------------------------------
(* The world and the perception of it. *)

Answers(type) ==
  /\ doing # <<>> /\ doing' = Tail(doing)
  /\ Told(type, Head(doing))
  /\ UNCHANGED <<tickVars, mindOwn>>

\* enable_auto_commit: what was read is behind the offset now and then ...
CommitsOffset ==
  /\ recent # {} /\ recent' = {}
  /\ UNCHANGED <<tickVars, queue, mindOwn, doing, refusals>>

\* ... and what was read since is read again after a restart or a rebalance.
HearsAgain(percept) ==
  /\ Pushes(percept)
  /\ UNCHANGED <<tickVars, mindOwn, doing, recent>>

\* A queue nobody has pushed to for _QUEUE_TTL_SECONDS is gone.
QueueExpires ==
  /\ queue # <<>> /\ queue' = <<>>
  /\ UNCHANGED <<tickVars, mindOwn, doing, recent, refusals>>

\* A new process has the queue, which is in Redis, and nothing else: awareness
\* forgets.
MindRestarts ==
  /\ EndOfTick
  /\ last' = "none" /\ streaks' = [i \in Intent |-> NoStreak]
  /\ UNCHANGED <<queue, doing, recent, refusals>>

GraphInit ==
  /\ node = "perceive" /\ percepts = <<>> /\ decision = "none"
  /\ queue = <<>>
  /\ last = "none" /\ streaks = [i \in Intent |-> NoStreak]
  /\ doing = <<>> /\ recent = {}
  /\ refusals = [a \in Action |-> 0]

GraphNext ==
  \/ Perceive \/ Deliberate \/ Act \/ Relate \/ Reflect
  \/ TickFails \/ MindRestarts \/ CommitsOffset \/ QueueExpires
  \/ \E type \in {"completed", "refused", "plumbing"} : Answers(type)
  \/ \E percept \in recent : HearsAgain(percept)

-----------------------------------------------------------------------------
(* Properties. *)

GraphTypeOK ==
  /\ node \in {"perceive", "deliberate", "act", "relate", "reflect"}
  /\ Len(queue) <= QueueCap /\ Len(percepts) <= PerceptsMax
  /\ last \in Intent \union {"none"} /\ decision \in Intent \union {"none"}
  /\ \A i \in Intent : streaks[i].idle < StreakTTL
  /\ Len(doing) <= 2 /\ Cardinality(recent) <= MaxUncommitted

\* The failures that the streaks count for an action.
Counted(a) == UNION {{i} \X (1..streaks[i].count) : i \in {i \in Intent : ActionOf[i] = a}}

\* A villager is told to give up only on what it heard the world refuse: the
\* failures its streaks count for an action, whichever of its intents they are
\* credited to, are at most the deliveries of refusals of that action, and no
\* plumbing failure among them.  A delivery is counted once, though ticks that
\* drained it raise; a refusal that is delivered twice may be counted twice.
AdviceIsEarned == \A a \in Action : Cardinality(Counted(a)) <= refusals[a]
=============================================================================
