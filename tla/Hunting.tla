------------------------------ MODULE Hunting ------------------------------
(***************************************************************************)
(* The hunt verb of one body (minecraft-service, BotSession.hunt and       *)
(* runKillLoop).  The game is marked before the chase and the mark goes    *)
(* only with a haul.  The watchdog's lever reaches the chase through one   *)
(* handle, which the latest hunt to start sets and the first to leave its  *)
(* kill loop clears, whoever's it is.                                      *)
(*                                                                         *)
(* Where the body walks is left out: the game's distance changes at will.  *)
(***************************************************************************)
EXTENDS Naturals

CONSTANTS
  Hunt,       \* hunt commands that may be in flight together
  Prey,       \* entity ids
  AvoidLife,  \* HUNT_BLACKLIST_MS
  MaxMeat,    \* what there is to pick up, at most
  NoHunt, NoPrey

ASSUME HuntingAssumption ==
  /\ AvoidLife \in Nat \ {0} /\ MaxMeat \in Nat \ {0} /\ NoHunt \notin Hunt /\ NoPrey \notin Prey

VARIABLES
  at,         \* how far the game is: [Prey -> Distance]
  meat, carried, \* yield that lies about, and what the pack has of it
  avoid,      \* huntBlacklist: [Prey -> time left]
  hunts,      \* the promises
  handle,     \* huntAbandon
  hunter,     \* the hunt whose command has busy = 'action'
  overlapping,    \* history: two hunts were in flight together
  fled        \* history: [Prey -> time left since the start of a hunt that brought nothing]

huntVars == <<at, meat, carried, avoid, hunts, handle, hunter, overlapping, fled>>

\* Within reach of a swing, within KILL_PRESUMPTION_RANGE, within sight, or
\* not tracked, as the dead are not.
Distance == {"hand", "near", "far", "gone", "dead"}
Tracked     == {"hand", "near", "far"}

NoChase == [stage |-> "none", prey |-> NoPrey, close |-> FALSE, swung |-> FALSE,
            before |-> 0, abandoned |-> FALSE, reborn |-> FALSE, clock |-> 0]

Younger(f) == [x \in DOMAIN f |-> IF f[x] = 0 THEN 0 ELSE f[x] - 1]

Nearer(p, q) == \/ at[p] = at[q] \/ at[p] = "hand" \/ at[q] = "far"

\* pickHuntTarget: none but the nearest that is not on the list.
Targets == LET menu == {p \in Prey : at[p] \in Tracked /\ avoid[p] = 0}
           IN  {p \in menu : \A q \in menu : Nearer(p, q)}

\* The promise settles: the body is released if the command is still its own.
Settles(h, hauled) ==
  /\ hunts' = [hunts EXCEPT ![h] = NoChase]
  /\ hunter' = IF hunter = h THEN NoHunt ELSE hunter
  /\ fled' = IF hauled \/ overlapping THEN fled ELSE [fled EXCEPT ![hunts[h].prey] = hunts[h].clock]

-----------------------------------------------------------------------------
\* Mutant: the mark waits for the chase to have been lost.
Marked_Late(p) == avoid

Marked(p) == [avoid EXCEPT ![p] = AvoidLife]

StartHunt(h) ==
  /\ hunter = NoHunt /\ hunts[h].stage = "none"
  /\ \E p \in Targets :
       /\ avoid' = Marked(p)
       /\ hunts' = [hunts EXCEPT ![h] = [NoChase EXCEPT !.stage = "chasing", !.prey = p,
                                                        !.before = carried, !.clock = AvoidLife]]
  /\ handle' = h /\ hunter' = h
  /\ overlapping' = (overlapping \/ \E g \in Hunt : hunts[g].stage # "none")
  /\ fled' = IF overlapping' THEN [p \in Prey |-> 0] ELSE fled
  /\ UNCHANGED <<at, meat, carried>>

\* The finally of the chase.
LeavesLoop(h) == handle' = NoHunt

\* A poll that ends the chase.  Gone at close range after a swing is taken
\* for dead.
ChaseEnds(h) ==
  LET c == hunts[h] IN
  /\ c.stage = "chasing"
  /\ \/ (c.abandoned \/ c.reborn) /\ Settles(h, FALSE)
     \/ /\ ~c.abandoned /\ ~c.reborn /\ at[c.prey] \notin Tracked
        /\ IF c.close /\ c.swung
           THEN /\ hunts' = [hunts EXCEPT ![h] = [c EXCEPT !.stage = "collecting", !.close = FALSE, !.swung = FALSE]]
                /\ UNCHANGED <<hunter, fled>>
           ELSE Settles(h, FALSE)
     \/ Settles(h, FALSE)                       \* the leash, or the deadline
  /\ LeavesLoop(h)
  /\ UNCHANGED <<at, meat, carried, avoid, overlapping>>

\* A poll that goes on, with a swing when the weapon is charged.
Swing(h) ==
  LET c == hunts[h] IN
  /\ c.stage = "chasing" /\ ~c.abandoned /\ ~c.reborn /\ at[c.prey] \in Tracked
  /\ \E swings \in {FALSE, at[c.prey] = "hand"} :
       /\ hunts' = [hunts EXCEPT ![h].close = at[c.prey] # "far", ![h].swung = @ \/ swings]
       /\ \/ UNCHANGED <<at, meat>>
          \/ /\ swings /\ at' = [at EXCEPT ![c.prey] = "dead"]
             /\ \E n \in 0..1 : meat + carried + n <= MaxMeat /\ meat' = meat + n
  /\ UNCHANGED <<carried, avoid, handle, hunter, overlapping, fled>>

\* Mutant: a presumed kill takes the game off the list.
Hauled_Presumed(h) == TRUE

\* More of the yield is carried than when the hunt began.
Hauled(h) == carried > hunts[h].before

\* The collection is over, by whatever way.  Nobody asks about the watchdog.
Collect(h) ==
  /\ hunts[h].stage = "collecting"
  /\ avoid' = IF Hauled(h) THEN [avoid EXCEPT ![hunts[h].prey] = 0] ELSE avoid
  /\ Settles(h, carried > hunts[h].before)
  /\ UNCHANGED <<at, meat, carried, handle, overlapping>>

\* The watchdog: the chase that has the handle is told to go silent.
HuntTimesOut ==
  /\ hunter # NoHunt
  /\ hunter' = NoHunt
  /\ hunts' = IF handle = NoHunt THEN hunts ELSE [hunts EXCEPT ![handle].abandoned = TRUE]
  /\ UNCHANGED <<at, meat, carried, avoid, handle, overlapping, fled>>

\* The body dies, and is another when it stands again.
BodyDies ==
  /\ \E h \in Hunt : hunts[h].stage = "chasing" /\ ~hunts[h].reborn
  /\ hunts' = [h \in Hunt |-> IF hunts[h].stage = "chasing" THEN [hunts[h] EXCEPT !.reborn = TRUE] ELSE hunts[h]]
  /\ UNCHANGED <<at, meat, carried, avoid, handle, hunter, overlapping, fled>>

Beside == [hand |-> {"near"}, near |-> {"hand", "far"}, far |-> {"near", "gone"}, gone |-> {"far"}]

PreyMoves(p) ==
  /\ at[p] # "dead"
  /\ \E d \in Beside[at[p]] : at' = [at EXCEPT ![p] = d]
  /\ UNCHANGED <<meat, carried, avoid, hunts, handle, hunter, overlapping, fled>>

PicksUp ==
  /\ meat > 0 /\ meat' = meat - 1 /\ carried' = carried + 1
  /\ UNCHANGED <<at, avoid, hunts, handle, hunter, overlapping, fled>>

AvoidanceFades ==
  /\ avoid' = Younger(avoid) /\ fled' = Younger(fled)
  /\ hunts' = [h \in Hunt |-> [hunts[h] EXCEPT !.clock = IF @ = 0 THEN 0 ELSE @ - 1]]
  /\ UNCHANGED <<at, meat, carried, handle, hunter, overlapping>>

HuntInit ==
  /\ at \in [Prey -> {"near", "far"}] /\ meat \in 0..1 /\ carried = 0
  /\ avoid = [p \in Prey |-> 0] /\ fled = [p \in Prey |-> 0]
  /\ hunts = [h \in Hunt |-> NoChase] /\ handle = NoHunt /\ hunter = NoHunt
  /\ overlapping = FALSE

HuntNext ==
  \/ \E h \in Hunt : StartHunt(h) \/ ChaseEnds(h) \/ Swing(h) \/ Collect(h)
  \/ \E p \in Prey : PreyMoves(p)
  \/ HuntTimesOut \/ BodyDies \/ PicksUp \/ AvoidanceFades

-----------------------------------------------------------------------------
(* Properties. *)

HuntTypeOK ==
  /\ at \in [Prey -> Distance] /\ meat \in 0..MaxMeat /\ carried \in 0..MaxMeat
  /\ avoid \in [Prey -> 0..AvoidLife] /\ fled \in [Prey -> 0..AvoidLife]
  /\ hunts \in [Hunt -> [stage : {"none", "chasing", "collecting"}, prey : Prey \cup {NoPrey},
                         close : BOOLEAN, swung : BOOLEAN, before : 0..MaxMeat,
                         abandoned : BOOLEAN, reborn : BOOLEAN, clock : 0..AvoidLife]]
  /\ handle \in Hunt \cup {NoHunt} /\ hunter \in Hunt \cup {NoHunt} /\ overlapping \in BOOLEAN

\* Game that a hunt set out after and brought nothing of, be it that the
\* watchdog or a death ended the chase, stays off the menu for the life of the
\* mark.  A hunt may only clear another's mark while both are in flight.
EscapeeLeftAlone ==
  ~overlapping => \A h \in Hunt : hunts[h].stage = "chasing" => fled[hunts[h].prey] = 0
=============================================================================
