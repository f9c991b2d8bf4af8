--------------------------- MODULE TickScheduler ---------------------------
(***************************************************************************)
(* The tick loop of one villager (agent-service, brain/scheduler.py).      *)
(* Everything in TickScheduler is keyed by villager and villagers meet     *)
(* nowhere in it, so one is enough.  The loop ticks once an interval; a    *)
(* percept may ask for an earlier tick.  What a tick does is TickGraph's   *)
(* matter: here it begins, takes any time, and ends well or badly.         *)
(*                                                                         *)
(* The clock is kept as differences to now, none of them larger than the   *)
(* code can tell apart.  A woken loop may run as late as it likes.         *)
(***************************************************************************)
EXTENDS Naturals, Sequences, FiniteSets

CONSTANTS
  Interval,     \* tick_interval_seconds
  Cooldown,     \* reactive_cooldown_s
  Imminent,     \* imminent_s
  Window,       \* the five minutes of the cap
  MaxReactive   \* max_reactive_per_5min

ASSUME TickSchedulerAssumption ==
  /\ Interval \in Nat /\ Cooldown \in 1..Interval /\ Imminent \in 1..Interval
  /\ Window \in Nat /\ MaxReactive \in Nat \ {0}

VARIABLES
  loop,       \* "none", "delayed" (not ticked yet), "ticking" or "waiting"
  stopped,    \* _stopped
  alarm,      \* time left of the loop's sleep or wait_for
  sinceTick,  \* now - _last_tick_at, at most Cooldown
  untilNext,  \* _next_scheduled_at - now, at least 0
  granted,    \* _reactive_times, as ages: the oldest first
  cause,      \* a cause is pending
  wakeup,     \* the event is set
  reactive    \* history: ages of the reactive ticks begun within a window

clockVars     == <<alarm, sinceTick, untilNext, granted, reactive>>
schedulerVars == <<loop, stopped, clockVars, cause, wakeup>>

\* The oldest come first: those that leave the window are dropped from there.
Older(ages) == LET gone == Cardinality({i \in DOMAIN ages : ages[i] = Window})
               IN  [i \in 1..(Len(ages) - gone) |-> ages[gone + i] + 1]

Less(n) == IF n = 0 THEN 0 ELSE n - 1

TimePasses ==
  /\ alarm' = Less(alarm) /\ untilNext' = Less(untilNext)
  /\ sinceTick' = IF sinceTick = Cooldown THEN Cooldown ELSE sinceTick + 1
  /\ granted' = Older(granted) /\ reactive' = Older(reactive)
  /\ UNCHANGED <<loop, stopped, cause, wakeup>>

-----------------------------------------------------------------------------
\* Mutant: the cap lets one more through.
Grants_OneTooMany ==
  /\ ~stopped /\ loop # "none"
  /\ sinceTick >= Cooldown
  /\ untilNext >= Imminent
  /\ Len(granted) <= MaxReactive

\* What the loop must look like for a request to be granted.
Grants ==
  /\ ~stopped /\ loop # "none"
  /\ sinceTick >= Cooldown
  /\ untilNext >= Imminent
  /\ Len(granted) < MaxReactive

\* request_reactive.  A request that is declined changes nothing.  A grant
\* while another is pending replaces its cause.
RequestReactive ==
  /\ Grants
  /\ granted' = Append(granted, 0)
  /\ cause' = TRUE /\ wakeup' = TRUE
  /\ UNCHANGED <<loop, stopped, alarm, sinceTick, untilNext, reactive>>

\* ensure: villagers are staggered over the first interval.  A loop that
\* lives is left alone.
Ensure ==
  /\ loop = "none" /\ ~stopped
  /\ loop' = "delayed" /\ wakeup' = FALSE
  /\ \E delay \in 0..Interval : alarm' = delay /\ untilNext' = delay
  /\ UNCHANGED <<stopped, sinceTick, granted, cause, reactive>>

\* The first sleep hears no event, the later ones do.
Wakes == \/ loop = "delayed" /\ alarm = 0
         \/ loop = "waiting" /\ (alarm = 0 \/ wakeup)

\* Mutant: the event that woke the loop stays set.
Begins_StillSet(isReactive) ==
  /\ cause' = FALSE /\ wakeup' = wakeup
  /\ sinceTick' = 0
  /\ reactive' = IF isReactive THEN Append(reactive, 0) ELSE reactive

\* The top of the loop: the cause is taken and the event cleared before the
\* tick, so that what arrives during it wakes the loop again.
Begins(isReactive) ==
  /\ cause' = FALSE /\ wakeup' = FALSE
  /\ sinceTick' = 0
  /\ reactive' = IF isReactive THEN Append(reactive, 0) ELSE reactive

BeginTick ==
  /\ Wakes
  /\ loop' = "ticking"
  /\ Begins(cause)
  /\ UNCHANGED <<stopped, alarm, untilNext, granted>>

\* A tick that failed is a tick: the loop goes on either way.
EndTick ==
  /\ loop = "ticking" /\ loop' = "waiting"
  /\ alarm' = Interval /\ untilNext' = Interval
  /\ UNCHANGED <<stopped, sinceTick, granted, cause, wakeup, reactive>>

\* stop cancels the loop, in its sleep or in its tick.
Stop ==
  /\ ~stopped /\ stopped' = TRUE
  /\ loop' = "none"
  /\ UNCHANGED <<clockVars, cause, wakeup>>

\* A new process knows nothing of the old one's ticks.
SchedulerFresh ==
  /\ loop = "none" /\ stopped = FALSE
  /\ alarm = 0 /\ untilNext = 0 /\ sinceTick = Cooldown
  /\ granted = <<>> /\ cause = FALSE /\ wakeup = FALSE
  /\ reactive = <<>>

SchedulerRestarts ==
  /\ loop' = "none" /\ stopped' = FALSE
  /\ alarm' = 0 /\ untilNext' = 0 /\ sinceTick' = Cooldown
  /\ granted' = <<>> /\ cause' = FALSE /\ wakeup' = FALSE
  /\ reactive' = <<>>

SchedulerNext ==
  TimePasses \/ RequestReactive \/ Ensure \/ BeginTick \/ EndTick \/ Stop \/ SchedulerRestarts

-----------------------------------------------------------------------------
(* Properties. *)

SchedulerTypeOK ==
  /\ loop \in {"none", "delayed", "ticking", "waiting"} /\ stopped \in BOOLEAN
  /\ alarm \in 0..Interval /\ untilNext \in 0..Interval /\ sinceTick \in 0..Cooldown
  /\ granted \in Seq(0..Window) /\ reactive \in Seq(0..Window)
  /\ cause \in BOOLEAN /\ wakeup \in BOOLEAN

\* A tick that is due, one that was asked for during a long tick and follows
\* it at once included, is due a cooldown after the last one began.
StartsSpaced == Wakes => sinceTick >= Cooldown

\* Ticks begin at least a cooldown apart; and however requests, long ticks and
\* late wakings fall together, at most one reactive tick more than the cap
\* begins within a window: a grant that had to wait for a tick to end is the
\* one that may come on top.  The cap itself counts grants, not ticks.
ReactivePace == StartsSpaced /\ Len(reactive) <= MaxReactive + 1
=============================================================================
