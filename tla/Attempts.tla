------------------------------ MODULE Attempts ------------------------------
(***************************************************************************)
(* The race attempts of minecraft-service: AttemptTracker, which holds the *)
(* live attempt in memory and derives its milestones from acknowledged     *)
(* outcomes; OrphanSweeper, which closes the attempts an earlier life of   *)
(* the process left open in the ledger, at boot and before every start;    *)
(* the HTTP routes; and race-rb2.mjs, the harness that drives them.        *)
(*                                                                         *)
(* JavaScript runs one callback at a time, so an action is the code        *)
(* between two awaits.  tracker.publish is not awaited, and the producer   *)
(* retries what fails without being idempotent: a send is in flight until  *)
(* the broker answers, in order until one fails; that one is sent again    *)
(* while others overtake it, whether it had arrived or not.  A refusal     *)
(* nobody catches ends the process.  The sweep awaits its sends.           *)
(***************************************************************************)
EXTENDS Ledger

CONSTANTS
  PartitionOf,   \* [Attempt -> Partition]: the hash of the key
  Team,          \* the teams of every attempt
  TeamOf,        \* function from the racers to their teams
  Outcome,       \* world outcomes the executor can publish
  Harness,       \* runs of the race script; each starts one attempt at most
  MaxMilestones, \* bound on milestones, over all attempts
  MaxPages       \* pages a sweep reads before it refuses to judge

\* An attempt is its number, in the order of starting.  An earlier life of the
\* process, of which nothing else is left, may have started the first.
Attempt == 1..Cardinality(Harness) + 1

ASSUME AttemptAssumption ==
  /\ IsFiniteSet(Harness) /\ MaxMilestones \in Nat /\ MaxPages \in Nat
  /\ PartitionOf \in [Attempt -> Partition]
  /\ \A r \in DOMAIN TeamOf : TeamOf[r] \in Team
  /\ "boot" \notin Harness

VARIABLES
  built,     \* Seq of every event built, over all lives; n is its index
  active,    \* the live attempt, or NoAttempt
  closed,    \* attempts whose end this process published
  chain,     \* sweeps waiting for their turn: "boot" or the harness to guard
  sweep,     \* the sweep that has the turn
  bootDue,   \* a failed boot sweep waits for its timer
  flight,    \* sends the broker has not answered
  retried,   \* those of them that have failed once and are sent again
  life,      \* how often the process has started
  harness,   \* [Harness -> what the script does next, and the outcome it saw]
  refused    \* ends whose awaited send was answered with an error

trackerVars == <<active, closed>>
sweepVars   == <<chain, sweep, bootDue>>
attemptVars == <<built, active, closed, chain, sweep, bootDue, flight, retried, life, harness, refused>>

NoAttempt == [attempt |-> 0, fired |-> {}, win |-> FALSE]

Idle == [who |-> "nobody", stage |-> "idle", cursor |-> 0, pages |-> 0,
         open |-> {}, ended |-> {}, known |-> {}]

-----------------------------------------------------------------------------
(* deriveMilestones: which rungs one outcome crosses, in ladder order. *)

Ladder == <<"first_coal", "first_iron_ore", "furnace_placed", "first_ingot", "iron_pickaxe">>

Rung == Range(Ladder)

Coal == {"coal_ore", "deepslate_coal_ore"}
Iron == {"iron_ore", "deepslate_iron_ore"}

CraftCrosses(o, rung) ==
  \/ /\ rung = "furnace_placed"
     /\ o.furnacePlaced \/ o.furnaceUsed \/ (o.item = "furnace" /\ o.crafted > 0)
  \/ rung = "first_ingot" /\ o.smelted > 0
  \/ rung = "iron_pickaxe" /\ o.item = "iron_pickaxe" /\ o.crafted > 0

Crosses(o, rung) ==
  IF o.type = "ResourceGathered"
  THEN /\ o.quantity > 0
       /\ \/ rung = "first_coal" /\ o.resource \in Coal
          \/ rung = "first_iron_ore" /\ o.resource \in Iron
  ELSE o.action = "craft" /\ CraftCrosses(o, rung)

\* The places of those rungs on the ladder.
Milestones(o) == {k \in DOMAIN Ladder : Crosses(o, Ladder[k])}

\* Some places, lowest first.
Climb(places) ==
  {f \in [1..Cardinality(places) -> places] : \A i, j \in DOMAIN f : i < j => f[i] < f[j]}

-----------------------------------------------------------------------------
(* Building and sending. *)

Send(events) ==
  /\ built' = built \o events
  /\ flight' = flight \union Range(events)

NextPlace == Len(built) + 1

StartOf(a, known) == [n |-> NextPlace, type |-> "AttemptStarted", attempt |-> a, known |-> known]

EndOf(a, outcome) ==
  [n |-> NextPlace, type |-> "AttemptEnded", attempt |-> a, outcome |-> outcome, by |-> life]

MilestoneOf(a, team, rung, k) ==
  [n |-> NextPlace + k - 1, type |-> "ProgressionMilestone", attempt |-> a, team |-> team, rung |-> rung]

\* An event goes to the partition of its attempt, which is its key.
Arrives(e) == Published(PartitionOf[e.attempt], e)

\* The sweep waits for the answer to this send.
Awaited(e) == sweep.stage = "sending" /\ built[sweep.cursor] = e

\* The sends of a partition go out in order, but for those sent again.
Goes(e) ==
  /\ e \in flight
  /\ \/ e \in retried
     \/ \A d \in flight \ retried : PartitionOf[d.attempt] = PartitionOf[e.attempt] => e.n <= d.n

\* The broker has the last word on a send: it is taken or given up.
Settled(e) == flight' = flight \ {e} /\ retried' = retried \ {e}

\* The broker takes a send.  The awaited one of the sweep resumes it: only now is
\* the attempt noted as closed.
Delivered(e) ==
  /\ Goes(e) /\ Arrives(e) /\ Settled(e)
  /\ IF Awaited(e)
     THEN /\ closed' = closed \union {e.attempt}
          /\ sweep' = [sweep EXCEPT !.stage = "closing"]
     ELSE UNCHANGED <<closed, sweep>>
  /\ UNCHANGED <<ingestVars, feedVars, faults, built, active, chain, bootDue, life, harness, refused>>

\* A send fails, or its answer is lost: it is sent again, sooner or later.
Fails(e) ==
  /\ Goes(e) /\ Fault
  /\ Arrives(e) \/ UNCHANGED topic
  /\ retried' = retried \union {e}
  /\ UNCHANGED <<ingestVars, feedVars, built, trackerVars, sweepVars, flight, life, harness, refused>>

-----------------------------------------------------------------------------
(* The tracker. *)

OfType(events, type) == {e \in events : e.type = type}

AttemptsIn(events, type) == {e.attempt : e \in OfType(events, type)}

\* tracker.observe, called when the broker has taken an outcome.  The rungs go
\* out in ladder order, each once for a team.
Observe(o) ==
  LET team  == TeamOf[o.villager]
      fresh == {k \in Milestones(o) : <<team, Ladder[k]>> \notin active.fired}
      rungs == {Ladder[k] : k \in fresh}
  IN  /\ active # NoAttempt /\ o.villager \in DOMAIN TeamOf /\ fresh # {}
      /\ Cardinality(OfType(Range(built), "ProgressionMilestone")) + Cardinality(fresh) <= MaxMilestones
      /\ active' = [active EXCEPT !.fired = @ \union {<<team, rung>> : rung \in rungs},
                                  !.win = @ \/ "iron_pickaxe" \in rungs]
      /\ \E climb \in Climb(fresh) :
           Send([k \in DOMAIN climb |-> MilestoneOf(active.attempt, team, Ladder[climb[k]], k)])
      /\ UNCHANGED <<ledgerVars, closed, sweepVars, retried, life, harness, refused>>

\* tracker.start after its guard: the attempt is stamped unless another start
\* won the guard's gap.
Started(known) ==
  LET a == Cardinality(OfType(Range(built), "AttemptStarted")) + 1
  IN  /\ active' = [NoAttempt EXCEPT !.attempt = a]
      /\ Send(<<StartOf(a, known)>>)

\* Mutant: the claim of a win is believed.
MayEnd_Believed(outcome) == active # NoAttempt

\* tracker.end: won needs the recorded win.
MayEnd(outcome) == active # NoAttempt /\ (outcome = "won" => active.win)

Ended(outcome) ==
  /\ active' = NoAttempt
  /\ closed' = closed \union {active.attempt}
  /\ Send(<<EndOf(active.attempt, outcome)>>)

-----------------------------------------------------------------------------
(* The sweep: one at a time, in the order they were asked for. *)

Lifecycle == {"AttemptStarted", "AttemptEnded"}

SweepBegins ==
  /\ sweep = Idle /\ chain # <<>>
  /\ sweep' = [Idle EXCEPT !.who = Head(chain), !.stage = "reading",
                           !.ended = AttemptsIn(stored, "AttemptEnded"),
                           !.known = AttemptsIn(stored, "AttemptStarted")]
  /\ chain' = Tail(chain)
  /\ UNCHANGED <<ledgerVars, built, trackerVars, bootDue, flight, retried, life, harness, refused>>

\* Mutant: what the last permitted page leaves unread is not read.
SweepReads_PartialView ==
  LET page == Page(Lifecycle, sweep.cursor)
  IN  /\ sweep.stage = "reading" /\ sweep.pages < MaxPages
      /\ sweep' = [sweep EXCEPT
           !.open = (@ \union AttemptsIn(page, "AttemptStarted")) \ AttemptsIn(page, "AttemptEnded"),
           !.pages = @ + 1,
           !.cursor = CursorOf(page, @),
           !.stage = IF HasNextPage(Lifecycle, sweep.cursor) /\ sweep.pages + 1 < MaxPages
                     THEN "reading" ELSE "closing"]
      /\ UNCHANGED <<ledgerVars, built, trackerVars, chain, bootDue, flight, retried, life, harness, refused>>

\* One page, paired by attempt.  The last page decides what is open.
SweepReads ==
  LET page == Page(Lifecycle, sweep.cursor)
  IN  /\ sweep.stage = "reading" /\ sweep.pages < MaxPages
      /\ sweep' = [sweep EXCEPT
           !.open = (@ \union AttemptsIn(page, "AttemptStarted")) \ AttemptsIn(page, "AttemptEnded"),
           !.pages = @ + 1,
           !.cursor = CursorOf(page, @),
           !.stage = IF HasNextPage(Lifecycle, sweep.cursor) THEN "reading" ELSE "closing"]
      /\ UNCHANGED <<ledgerVars, built, trackerVars, chain, bootDue, flight, retried, life, harness, refused>>

\* Mutant: only the running attempt is known.
IsKnownLocally_RunningOnly(a) == a = active.attempt

\* isCurrentOrClosed: what this process knows better than a lagging page.
IsKnownLocally(a) == a = active.attempt \/ a \in closed

ToClose == {a \in sweep.open : ~IsKnownLocally(a)}

\* Mutant: the attempt is noted as closed before the broker has answered.
SweepCloses_NotedEarly ==
  /\ sweep.stage = "closing" /\ ToClose # {}
  /\ Send(<<EndOf(Min(ToClose), "aborted")>>)
  /\ closed' = closed \union {Min(ToClose)}
  /\ sweep' = [sweep EXCEPT !.open = @ \ (0..Min(ToClose)), !.stage = "sending", !.cursor = NextPlace]
  /\ UNCHANGED <<ledgerVars, active, chain, bootDue, retried, life, harness, refused>>

\* Abort the oldest orphan and wait for the broker.
SweepCloses ==
  /\ sweep.stage = "closing" /\ ToClose # {}
  /\ Send(<<EndOf(Min(ToClose), "aborted")>>)
  /\ sweep' = [sweep EXCEPT !.open = @ \ (0..Min(ToClose)), !.stage = "sending", !.cursor = NextPlace]
  /\ UNCHANGED <<ledgerVars, trackerVars, chain, bootDue, retried, life, harness, refused>>

\* What the script goes on with.
Says(h, next) == harness' = [harness EXCEPT ![h].next = next]

\* The sweep is complete.  A boot sweep has nobody waiting; a guarded start
\* goes on at once, in the same turn of the event loop.
SweepCompletes ==
  /\ sweep.stage = "closing" /\ ToClose = {}
  /\ sweep' = Idle
  /\ IF sweep.who = "boot"
     THEN UNCHANGED <<built, active, flight, harness>>
     ELSE IF active # NoAttempt
          THEN /\ Says(sweep.who, "over")  \* 409
               /\ UNCHANGED <<built, active, flight>>
          ELSE /\ Started(sweep.known)
               /\ Says(sweep.who, "watch")
  /\ UNCHANGED <<ledgerVars, closed, chain, bootDue, retried, life, refused>>

\* OrphanSweepError: the boot sweep is tried again after a minute, a guarded
\* start is refused with 503 and its script exits.
SweepFails ==
  /\ sweep' = Idle
  /\ bootDue' = (bootDue \/ sweep.who = "boot")
  /\ IF sweep.who = "boot" THEN UNCHANGED harness ELSE Says(sweep.who, "over")

ReadFails ==
  /\ sweep.stage = "reading" /\ Fault /\ SweepFails
  /\ UNCHANGED <<topic, ingestVars, feedVars, built, trackerVars, chain, flight, retried, life, refused>>

Truncated ==
  /\ sweep.stage = "reading" /\ sweep.pages = MaxPages /\ SweepFails
  /\ UNCHANGED <<ledgerVars, built, trackerVars, chain, flight, retried, life, refused>>

\* The awaited send failed and the producer gives it up.
GivesUp(e) ==
  /\ e \in retried /\ Awaited(e) /\ SweepFails /\ Settled(e)
  /\ refused' = refused \union {e}
  /\ UNCHANGED <<ledgerVars, built, trackerVars, chain, life>>

BootSweepAgain ==
  /\ bootDue /\ bootDue' = FALSE
  /\ chain' = Append(chain, "boot")
  /\ UNCHANGED <<ledgerVars, built, trackerVars, sweep, flight, retried, life, harness, refused>>

-----------------------------------------------------------------------------
(* The harness, over the routes. *)

\* GET /internal/attempt: an attempt somebody left running is aborted first.
Look(h) ==
  /\ harness[h].next = "look"
  /\ Says(h, IF active = NoAttempt THEN "start" ELSE "clear")
  /\ UNCHANGED <<ledgerVars, built, trackerVars, sweepVars, flight, retried, life, refused>>

\* POST /internal/attempt/end ends whatever is running by now; its answer is
\* not read.
Clear(h) ==
  /\ harness[h].next = "clear" /\ Says(h, "start")
  /\ IF MayEnd("aborted") THEN Ended("aborted") ELSE UNCHANGED <<built, trackerVars, flight>>
  /\ UNCHANGED <<ledgerVars, sweepVars, retried, life, refused>>

\* POST /internal/attempt/start: 409 over a running attempt, else the guard.
StartAttempt(h) ==
  /\ harness[h].next = "start"
  /\ IF active # NoAttempt
     THEN Says(h, "over") /\ UNCHANGED chain
     ELSE Says(h, "guard") /\ chain' = Append(chain, h)
  /\ UNCHANGED <<ledgerVars, built, trackerVars, sweep, bootDue, flight, retried, life, refused>>

\* The watch loop leaves on a recorded win, or when its stall timer runs out;
\* it asks for the win of whatever attempt is running.
Watch(h) ==
  /\ harness[h].next = "watch"
  /\ harness' = [harness EXCEPT ![h] = [next |-> "end", saw |-> IF active.win THEN "won" ELSE "stalled"]]
  /\ UNCHANGED <<ledgerVars, built, trackerVars, sweepVars, flight, retried, life, refused>>

\* POST /internal/attempt/end, repeated when its answer is lost.
EndAttempt(h) ==
  /\ harness[h].next = "end"
  /\ IF MayEnd(harness[h].saw) THEN Ended(harness[h].saw) ELSE UNCHANGED <<built, trackerVars, flight>>
  /\ \/ Says(h, "over") /\ UNCHANGED faults
     \/ Fault /\ UNCHANGED harness
  /\ UNCHANGED <<topic, ingestVars, feedVars, sweepVars, retried, life, refused>>

-----------------------------------------------------------------------------
Guarded == {h \in Harness : harness[h].next = "guard"}

\* The process dies (a refused send nobody awaited is one way): the tracker,
\* the sends in flight and the waiting sweeps are forgotten, a guarded script
\* loses its connection, and the next life begins with a boot sweep.
Crash ==
  /\ Fault
  /\ active' = NoAttempt /\ closed' = {}
  /\ chain' = <<"boot">> /\ sweep' = Idle /\ bootDue' = FALSE
  /\ flight' = {} /\ retried' = {}
  /\ life' = life + 1
  /\ harness' = [h \in Harness |-> IF h \in Guarded THEN [harness[h] EXCEPT !.next = "over"] ELSE harness[h]]
  /\ UNCHANGED <<topic, ingestVars, feedVars, built, refused>>

AttemptInit ==
  /\ active = NoAttempt /\ closed = {}
  /\ chain = <<"boot">> /\ sweep = Idle /\ bootDue = FALSE
  /\ flight = {} /\ retried = {}
  /\ life = 1
  /\ harness = [h \in Harness |-> [next |-> "look", saw |-> "nothing"]]
  /\ refused = {}

SweepNext == SweepBegins \/ SweepReads \/ SweepCloses \/ SweepCompletes \/ Truncated \/ BootSweepAgain

HarnessNext(h) == Look(h) \/ Clear(h) \/ StartAttempt(h) \/ Watch(h) \/ EndAttempt(h)

AttemptNext ==
  \/ SweepNext \/ ReadFails \/ Crash
  \/ \E e \in flight : Delivered(e) \/ Fails(e) \/ GivesUp(e)
  \/ \E o \in Outcome : Observe(o)
  \/ \E h \in Harness : HarnessNext(h)

-----------------------------------------------------------------------------
(* Properties. *)

\* The types, and that a live attempt is never one this process has closed.
AttemptTypeOK ==
  /\ active.attempt \in {0} \union Attempt /\ active.attempt \notin closed
  /\ active.fired \subseteq Team \X Rung
  /\ closed \subseteq Attempt
  /\ Range(chain) \subseteq Harness \union {"boot"}
  /\ sweep.stage \in {"idle", "reading", "closing", "sending"}
  /\ \A h \in Harness : harness[h].next \in {"look", "clear", "start", "guard", "watch", "end", "over"}
  /\ \A i \in DOMAIN built : built[i].n = i

\* "An attempt this process saw end, or already aborted in an earlier sweep, is
\* never aborted again, whatever a lagging page says" (orphanSweep.ts:29-32):
\* two ends of an attempt by the same life of the process need the first to be
\* an abort whose send was answered with an error.
EndedOncePerProcess ==
  \A i, j \in DOMAIN built :
    (/\ i < j /\ built[i].type = "AttemptEnded" /\ built[j].type = "AttemptEnded"
     /\ built[i].attempt = built[j].attempt /\ built[i].by = built[j].by)
      => built[i] \in refused

\* "No new AttemptStarted is published over a dangling one" (orphanSweep.ts:
\* 23-25), as far as the ledger shows them: of the attempts it showed when the
\* guard's sweep began, each has an end that was not lost when the new one is
\* stamped.
StartsOverNothingKnown ==
  \A j \in DOMAIN built : built[j].type = "AttemptStarted" =>
    \A a \in built[j].known :
      \E i \in 1..j : /\ built[i].type = "AttemptEnded" /\ built[i].attempt = a
                       /\ (built[i] \in refused => built[i] \in OnTopic)

\* A sweep never takes for an orphan what the ledger already showed as ended
\* when the sweep began, however many pages lie between a start and its end.
AbortsOnlyTheOpen == sweep.stage = "closing" => sweep.open \intersect sweep.ended = {}

\* d is built before e: may the ledger show both of one attempt in this order?
MayPrecede(d, e) ==
  /\ e.type # "AttemptStarted"
  /\ e.type = "ProgressionMilestone" =>
       /\ d.type # "AttemptEnded"
       /\ d.type = "ProgressionMilestone" => <<d.team, d.rung>> # <<e.team, e.rung>>

\* Whatever order its facts arrive in and however often, the rows of an attempt
\* tell one story (attemptTracker.ts:257-261): nothing before the start, a rung
\* once for a team, nothing crossed after an end, and no won end without the
\* winning rung built before it, on the topic or still being sent while the
\* process that won lives.  No crash, refused send, sweep or second script tears
\* it.
SliceIsCoherent ==
  LET rows == stored \intersect Range(built)
  IN  \A e \in rows :
        /\ \A d \in rows : d.attempt = e.attempt /\ d.n < e.n => MayPrecede(d, e)
        /\ (e.type = "AttemptEnded" /\ e.outcome = "won") => \E d \in Range(built) :
             /\ d.n < e.n /\ d.attempt = e.attempt
             /\ d.type = "ProgressionMilestone" /\ d.rung = "iron_pickaxe"
             /\ (e.by = life => d \in OnTopic \union flight)
=============================================================================
