------------------------------ MODULE BodySeam ------------------------------
(***************************************************************************)
(* One villager's body in minecraft-service: a BotSession, the executor's   *)
(* claim on it, and its three reflex watchers (powder snow, threat, hunger).*)
(* All of them arbitrate through one field, session.busy, which a claimant  *)
(* reads and sets in one synchronous block and clears when its promise      *)
(* settles.  A watcher is polled by an interval; the attempt it starts runs *)
(* on by itself, outlives the death of the body (a new spawn generation)    *)
(* and even the watcher (a reconnect installs new ones).                    *)
(*                                                                         *)
(* Backoff between attempts is time: a pass that falls into it is a stutter.*)
(* PLUGIN_AUTO_EAT = 0, the setting in which the EatWatcher runs.           *)
(***************************************************************************)
EXTENDS Naturals, FiniteSets

CONSTANTS
  HitsToOpen,        \* HITS_TO_OPEN, of both watchers that debounce
  ClearPasses,       \* CLEAR_PASSES_TO_CLOSE
  HelplessAfter,     \* HELPLESS_AFTER_FAILURES
  MaxDeaths,         \* bound: deaths on one connection
  MaxDrops,          \* bound: lost connections
  MaxCommands,       \* bound: commands dispatched to the body
  HandEquipSettles   \* whether bot.equip settles on a dead connection

ASSUME BodyAssumption ==
  /\ {HitsToOpen, ClearPasses, HelplessAfter} \subseteq Nat \ {0}
  /\ {MaxDeaths, MaxDrops, MaxCommands} \subseteq Nat
  /\ HandEquipSettles \in BOOLEAN

Reflex == {"escape", "combat", "eat"}
Starving == 0   \* food <= EAT_CRITICAL_FOOD
Peckish  == 1   \* EAT_RECOVER_FOOD <= food <= EAT_FOOD_THRESHOLD
Fed      == 2

VARIABLES
  busy,      \* session.busy
  command,   \* whether the lane of this body is running a command
  flights,   \* the attempts and maneuvers whose promise has not settled
  hazard,    \* the HazardWatcher: its debounce, episode and single-flight flag
  threat,    \* the ThreatWatcher: the same, and its clear passes
  eating,    \* the EatWatcher: its crisis, failures and single-flight flag
  body,      \* the world around the body: connected, dead, in snow, foe near, food
  story,     \* history: what world.events has been told of this body
  left       \* how many more deaths, drops and commands there may be

vars == <<busy, command, flights, hazard, threat, eating, body, story, left>>

(* own: started by the watcher installed now.  current: no spawn since.     *)
Flight == [reflex : Reflex, phase : {"equip", "run"}, own : BOOLEAN, current : BOOLEAN]

NewHazard == [hits |-> 0, open |-> FALSE, inFlight |-> FALSE]
NewThreat == [hits |-> 0, episode |-> "none", clear |-> 0, inFlight |-> FALSE]
NewEating == [crisis |-> "none", failures |-> 0, inFlight |-> FALSE]

Init ==
  /\ busy = "none" /\ command = FALSE /\ flights = {}
  /\ hazard = NewHazard /\ threat = NewThreat /\ eating = NewEating
  /\ body = [up |-> TRUE, dead |-> FALSE, snow |-> FALSE, foe |-> FALSE, food |-> Fed]
  /\ story = [t \in {"powder_snow", "threat", "starvation"} |-> "quiet"]
  /\ left = [deaths |-> MaxDeaths, drops |-> MaxDrops, commands |-> MaxCommands]

-----------------------------------------------------------------------------
(* Claims and events.                                                       *)

Claim(reflex, phase) ==
  /\ busy' = reflex
  /\ flights' = flights \union {[reflex |-> reflex, phase |-> phase, own |-> TRUE, current |-> TRUE]}

NoClaim == UNCHANGED <<busy, flights>>

Release(f) ==
  /\ busy' = "none"
  /\ flights' = flights \ {f}

(* emit of the opening phase of an episode, and of its good end.  One told of *)
(* a body that lies dead is late; one this body was in no trouble for, a lie. *)
Opens(type) == story' = [story EXCEPT ![type] = IF @ = "lie" THEN @ ELSE "told"]
Recovers(type) ==
  story' = [story EXCEPT ![type] = IF @ # "told" THEN "lie" ELSE IF body.dead THEN "late" ELSE "quiet"]

-----------------------------------------------------------------------------
(* The executor: bounced by a reflex, else it claims; the race with the      *)
(* watchdog always ends and its finally clears the seam.                    *)

CommandStarts ==
  /\ ~command /\ left.commands > 0
  /\ left' = [left EXCEPT !.commands = @ - 1]
  /\ IF busy \in Reflex
     THEN UNCHANGED <<busy, command>>
     ELSE busy' = "action" /\ command' = TRUE
  /\ UNCHANGED <<flights, hazard, threat, eating, body, story>>

CommandEnds ==
  /\ command
  /\ command' = FALSE /\ busy' = "none"
  /\ UNCHANGED <<flights, hazard, threat, eating, body, story, left>>

-----------------------------------------------------------------------------
(* HazardWatcher.                                                           *)

(* Two positive passes open an episode.                                     *)
HazardDebounces ==
  /\ body.up /\ ~hazard.inFlight /\ ~hazard.open
  /\ IF ~body.snow THEN hazard' = [hazard EXCEPT !.hits = 0] /\ UNCHANGED story
     ELSE IF hazard.hits + 1 < HitsToOpen
     THEN hazard' = [hazard EXCEPT !.hits = @ + 1] /\ UNCHANGED story
     ELSE hazard' = [hazard EXCEPT !.hits = 0, !.open = TRUE] /\ busy # "none" /\ Opens("powder_snow")
  /\ NoClaim
  /\ UNCHANGED <<command, threat, eating, body, left>>

(* An attempt, at once when the episode opens and after the backoff later;   *)
(* out of the snow but over no solid floor the body is still trapped.       *)
EscapeBegins ==
  /\ body.up /\ ~hazard.inFlight /\ busy = "none"
  /\ \/ hazard.open /\ UNCHANGED story
     \/ ~hazard.open /\ body.snow /\ hazard.hits + 1 >= HitsToOpen /\ Opens("powder_snow")
  /\ hazard' = [hits |-> 0, open |-> TRUE, inFlight |-> TRUE]
  /\ Claim("escape", "run")
  /\ UNCHANGED <<command, threat, eating, body, left>>

(* closeEscaped from a pass: by the world's mercy.                          *)
HazardCloses ==
  /\ body.up /\ ~hazard.inFlight /\ hazard.open /\ ~body.snow
  /\ hazard' = [hazard EXCEPT !.open = FALSE]
  /\ Recovers("powder_snow")
  /\ NoClaim
  /\ UNCHANGED <<command, threat, eating, body, left>>

(* The race with the deadline settles.  Freed, the watcher closes whatever   *)
(* episode it has; else the episode stays open for the next attempt.  The    *)
(* attempt of a replaced watcher digs on a dead connection: it only fails.  *)
EscapeEnds(f) ==
  /\ f.reflex = "escape"
  /\ Release(f)
  /\ \/ /\ hazard' = IF f.own THEN [hazard EXCEPT !.inFlight = FALSE] ELSE hazard
        /\ UNCHANGED <<body, story>>
     \/ /\ f.own
        /\ hazard' = NewHazard
        /\ body' = [body EXCEPT !.snow = FALSE]
        /\ Recovers("powder_snow")
  /\ UNCHANGED <<command, threat, eating, left>>

-----------------------------------------------------------------------------
(* ThreatWatcher.                                                           *)

(* What a pass starts from: the episode of a dead generation is dropped,     *)
(* without a word and with its single-flight flag.                          *)
Honest == IF threat.episode = "stale" THEN [threat EXCEPT !.episode = "none", !.inFlight = FALSE]
          ELSE threat

(* Opened at the second hit, or at once: inside the danger radius, or by     *)
(* damage, which needs no foe in the alert band.                            *)
ThreatDebounces ==
  /\ body.up /\ Honest.episode = "none"
  /\ \/ ~body.foe /\ threat' = [Honest EXCEPT !.hits = 0] /\ UNCHANGED story
     \/ /\ body.foe /\ Honest.hits + 1 < HitsToOpen
        /\ threat' = [Honest EXCEPT !.hits = @ + 1] /\ UNCHANGED story
     \/ /\ threat' = [Honest EXCEPT !.hits = 0, !.clear = 0, !.episode = "current"]
        /\ Opens("threat")
  /\ NoClaim
  /\ UNCHANGED <<command, hazard, eating, body, left>>

(* Mutant: one clear pass too many before the episode closes.               *)
ThreatClears_OneTooMany ==
  /\ body.up /\ threat.episode = "current" /\ ~body.foe
  /\ IF threat.clear < ClearPasses
     THEN threat' = [threat EXCEPT !.clear = @ + 1] /\ UNCHANGED story
     ELSE threat' = [threat EXCEPT !.clear = 0, !.episode = "none"] /\ Recovers("threat")
  /\ NoClaim
  /\ UNCHANGED <<command, hazard, eating, body, left>>

(* Out of sight for enough passes: killed or escaped.                       *)
ThreatClears ==
  /\ body.up /\ threat.episode = "current" /\ ~body.foe
  /\ IF threat.clear + 1 < ClearPasses
     THEN threat' = [threat EXCEPT !.clear = @ + 1] /\ UNCHANGED story
     ELSE threat' = [threat EXCEPT !.clear = 0, !.episode = "none"] /\ Recovers("threat")
  /\ NoClaim
  /\ UNCHANGED <<command, hazard, eating, body, left>>

(* The pass of an open episode with the foe in sight.                       *)
ThreatWaits ==
  /\ body.up /\ threat.episode = "current" /\ body.foe
  /\ threat' = [threat EXCEPT !.clear = 0]
  /\ NoClaim
  /\ UNCHANGED <<command, hazard, eating, body, story, left>>

(* Fight or flee.  A fight draws a weapon first, unless none is carried; a   *)
(* fight for which the fleet has no slot left is a flight.                  *)
ManeuverBegins ==
  /\ body.up /\ threat.episode = "current" /\ body.foe
  /\ ~threat.inFlight /\ busy = "none" /\ ~hazard.open
  /\ threat' = [threat EXCEPT !.clear = 0, !.inFlight = TRUE]
  /\ \E phase \in {"equip", "run"} : Claim("combat", phase)
  /\ UNCHANGED <<command, hazard, eating, body, story, left>>

(* await bot.equipWeapon, before the deadline of the fight exists.          *)
Draws(f) ==
  /\ f.phase = "equip"
  /\ flights' = (flights \ {f}) \union {[f EXCEPT !.phase = "run"]}
  /\ UNCHANGED <<busy, command, hazard, threat, eating, body, story, left>>

(* Mutant: a maneuver whose body died returns before its finally.           *)
ManeuverEnds_DiedMidway(f) ==
  /\ f.reflex = "combat" /\ f.phase = "run"
  /\ flights' = flights \ {f}
  /\ busy' = IF f.current THEN "none" ELSE busy
  /\ threat' = IF f.own THEN [threat EXCEPT !.inFlight = FALSE] ELSE threat
  /\ UNCHANGED <<command, hazard, eating, body, story, left>>

(* The interior's deadline passes at the latest; the finally clears the flag *)
(* of the watcher that started it and the seam.                             *)
ManeuverEnds(f) ==
  /\ f.reflex = "combat" /\ f.phase = "run"
  /\ Release(f)
  /\ threat' = IF f.own THEN [threat EXCEPT !.inFlight = FALSE] ELSE threat
  /\ UNCHANGED <<command, hazard, eating, body, story, left>>

-----------------------------------------------------------------------------
(* EatWatcher.                                                              *)

(* What a pass starts from: a dead generation's crisis is dropped.          *)
Awake == IF eating.crisis = "stale" THEN [eating EXCEPT !.crisis = "none", !.failures = 0] ELSE eating

(* maybeOpenCrisis, in a watcher state e.                                   *)
Helpless(e) ==
  IF e.crisis = "none" /\ body.food = Starving
  THEN eating' = [e EXCEPT !.crisis = "current"] /\ Opens("starvation")
  ELSE eating' = e /\ UNCHANGED story

(* closeCrisisRecovered, in a watcher state e.                              *)
AteBack(e) == eating' = [e EXCEPT !.crisis = "none", !.failures = 0] /\ Recovers("starvation")

(* A pass that starts no meal: nothing to eat it, or nothing to eat, or     *)
(* someone outranks it.                                                     *)
EatPasses ==
  /\ body.up
  /\ \/ body.food # Starving /\ Awake.crisis = "current" /\ AteBack(Awake)
     \/ (body.food = Starving \/ Awake.crisis = "none") /\ eating' = Awake /\ UNCHANGED story
     \/ body.food = Starving /\ Helpless(Awake)
  /\ NoClaim
  /\ UNCHANGED <<command, hazard, threat, body, left>>

(* Mutant: a meal between two attempts to escape.                           *)
MealBegins_InTheTrap ==
  /\ body.up /\ body.food # Fed
  /\ ~eating.inFlight /\ busy = "none" /\ threat.episode = "none"
  /\ IF body.food # Starving /\ Awake.crisis = "current"
     THEN Recovers("starvation") /\ eating' = [NewEating EXCEPT !.inFlight = TRUE]
     ELSE UNCHANGED story /\ eating' = [Awake EXCEPT !.inFlight = TRUE]
  /\ Claim("eat", "run")
  /\ UNCHANGED <<command, hazard, threat, body, left>>

MealBegins ==
  /\ body.up /\ body.food # Fed
  /\ ~eating.inFlight /\ busy = "none" /\ ~hazard.open /\ threat.episode = "none"
  /\ IF body.food # Starving /\ Awake.crisis = "current"
     THEN Recovers("starvation") /\ eating' = [NewEating EXCEPT !.inFlight = TRUE]
     ELSE UNCHANGED story /\ eating' = [Awake EXCEPT !.inFlight = TRUE]
  /\ Claim("eat", "run")
  /\ UNCHANGED <<command, hazard, threat, body, left>>

(* One consume, raced against its deadline.  A meal of an earlier generation *)
(* counts for nothing.                                                      *)
Ate(f) ==
  LET idle == [eating EXCEPT !.inFlight = FALSE]
  IN \/ f.own /\ ~f.current /\ eating' = idle /\ UNCHANGED <<body, story>>
     \/ ~f.own /\ UNCHANGED <<eating, body, story>>
     \/ /\ f.current /\ ~body.dead
        /\ body' = [body EXCEPT !.food = IF @ = Fed THEN Fed ELSE @ + 1]
        /\ IF eating.crisis = "current" THEN AteBack(idle)
           ELSE eating' = [idle EXCEPT !.failures = 0] /\ UNCHANGED story
     \/ /\ f.current /\ UNCHANGED body
        /\ IF eating.failures + 1 < HelplessAfter
           THEN eating' = [idle EXCEPT !.failures = @ + 1] /\ UNCHANGED story
           ELSE Helpless([idle EXCEPT !.failures = HelplessAfter])

MealEnds(f) ==
  /\ f.reflex = "eat"
  /\ Release(f)
  /\ Ate(f)
  /\ UNCHANGED <<command, hazard, threat, left>>

-----------------------------------------------------------------------------
(* The world, deaths and reconnects.                                        *)

WorldTurns ==
  /\ body.up
  /\ \/ \E snow, foe \in BOOLEAN : body' = [body EXCEPT !.snow = snow, !.foe = foe]
     \/ ~body.dead /\ body.food # Starving /\ body' = [body EXCEPT !.food = @ - 1]
  /\ UNCHANGED <<busy, command, flights, hazard, threat, eating, story, left>>

(* Mutant: the watcher does not compare generations.                        *)
Aged_Never(episode) == episode

(* What a new spawn generation makes of what was begun before it.           *)
Aged(episode) == IF episode = "current" THEN "stale" ELSE episode

(* on('death') only notes why the next spawn comes: mineflayer's bot keeps    *)
(* its entity, so the passes go on, over what they last saw and in the old   *)
(* generation.                                                              *)
Dies ==
  /\ body.up /\ ~body.dead /\ left.deaths > 0
  /\ left' = [left EXCEPT !.deaths = @ - 1]
  /\ body' = [body EXCEPT !.dead = TRUE]
  /\ UNCHANGED <<busy, command, flights, hazard, threat, eating, story>>

NewStory == [t \in DOMAIN story |-> IF story[t] = "lie" THEN "lie" ELSE "quiet"]

(* on('spawn') of the same connection: a new generation, fed and elsewhere.  *)
Respawns ==
  /\ body.up /\ body.dead
  /\ threat' = [threat EXCEPT !.episode = Aged(@)]
  /\ eating' = [eating EXCEPT !.crisis = Aged(@)]
  /\ flights' = {[f EXCEPT !.current = FALSE] : f \in flights}
  /\ \E foe \in BOOLEAN : body' = [up |-> TRUE, dead |-> FALSE, snow |-> FALSE, foe |-> foe, food |-> Fed]
  /\ story' = NewStory
  /\ UNCHANGED <<busy, command, hazard, left>>

(* onEnd: the intervals are cleared, in-flight attempts are left alone.     *)
Drops ==
  /\ body.up /\ left.drops > 0
  /\ left' = [left EXCEPT !.drops = @ - 1]
  /\ body' = [body EXCEPT !.up = FALSE]
  /\ UNCHANGED <<busy, command, flights, hazard, threat, eating, story>>

(* Mutant: the new connection starts with a free seam.                      *)
Reconnects_FreesSeam ==
  /\ ~body.up
  /\ \E snow, foe \in BOOLEAN : body' = [body EXCEPT !.up = TRUE, !.dead = FALSE, !.snow = snow, !.foe = foe]
  /\ hazard' = NewHazard /\ threat' = NewThreat /\ eating' = NewEating
  /\ flights' = {[f EXCEPT !.own = FALSE, !.current = FALSE] : f \in flights}
  /\ story' = NewStory
  /\ busy' = "none"
  /\ UNCHANGED <<command, left>>

(* connect and onSpawn: new watchers and a new generation, the same seam.   *)
Reconnects ==
  /\ ~body.up
  /\ \E snow, foe \in BOOLEAN : body' = [body EXCEPT !.up = TRUE, !.dead = FALSE, !.snow = snow, !.foe = foe]
  /\ hazard' = NewHazard /\ threat' = NewThreat /\ eating' = NewEating
  /\ flights' = {[f EXCEPT !.own = FALSE, !.current = FALSE] : f \in flights}
  /\ story' = NewStory
  /\ UNCHANGED <<busy, command, left>>

Next ==
  \/ CommandStarts \/ CommandEnds
  \/ HazardDebounces \/ EscapeBegins \/ HazardCloses
  \/ ThreatDebounces \/ ThreatClears \/ ThreatWaits \/ ManeuverBegins
  \/ EatPasses \/ MealBegins
  \/ \E f \in flights : EscapeEnds(f) \/ Draws(f) \/ ManeuverEnds(f) \/ MealEnds(f)
  \/ WorldTurns \/ Dies \/ Respawns \/ Drops \/ Reconnects

Spec == Init /\ [][Next]_vars

(* Intervals fire and backoffs pass; deadlines settle every race; an equip   *)
(* on a live connection settles, on a dead one only if HandEquipSettles.    *)
Fairness ==
  /\ WF_vars(CommandEnds)
  /\ WF_vars(HazardDebounces) /\ WF_vars(EscapeBegins)
  /\ WF_vars(\E f \in flights : EscapeEnds(f)) /\ WF_vars(\E f \in flights : ManeuverEnds(f))
  /\ WF_vars(\E f \in flights : MealEnds(f))
  /\ WF_vars(\E f \in flights : (HandEquipSettles \/ (body.up /\ f.own)) /\ Draws(f))
  /\ WF_vars(Reconnects)

FairSpec == Spec /\ Fairness

-----------------------------------------------------------------------------
(* Properties.                                                              *)

(* The shape of every variable.                                             *)
TypeOK ==
  /\ busy \in Reflex \union {"none", "action"} /\ command \in BOOLEAN
  /\ flights \subseteq Flight
  /\ hazard \in [hits : 0..(HitsToOpen - 1), open : BOOLEAN, inFlight : BOOLEAN]
  /\ threat \in [hits : 0..(HitsToOpen - 1), episode : {"none", "current", "stale"},
                 clear : 0..(ClearPasses - 1), inFlight : BOOLEAN]
  /\ eating \in [crisis : {"none", "current", "stale"}, failures : 0..HelplessAfter, inFlight : BOOLEAN]
  /\ body \in [up : BOOLEAN, dead : BOOLEAN, snow : BOOLEAN, foe : BOOLEAN, food : {Starving, Peckish, Fed}]
  /\ story \in [{"powder_snow", "threat", "starvation"} -> {"quiet", "told", "late", "lie"}]
  /\ left \in [deaths : 0..MaxDeaths, drops : 0..MaxDrops, commands : 0..MaxCommands]

(* The body never has two drivers, whatever died or reconnected meanwhile:   *)
(* the seam names the one attempt or execution whose race is unsettled, so   *)
(* no finally ever clears the claim of somebody else.                       *)
OneDriver ==
  \/ busy = "none" /\ ~command /\ flights = {}
  \/ busy = "action" /\ command /\ flights = {}
  \/ ~command /\ \E f \in flights : flights = {f} /\ busy = f.reflex

(* No body closes the episode of one that died before it: the ledger is told *)
(* that a villager outlived a foe or a famine only if no spawn lies between  *)
(* that and what told of the trouble (the generation checks of threat.ts and *)
(* eat.ts).  What is told between a death and its respawn is EscapesAreReal. *)
RecoveriesAreReal == story["threat"] # "lie" /\ story["starvation"] # "lie"

(* A good end is told only of a living body that was itself told to be in    *)
(* trouble, as threat.ts has it: a lying "escaped" would poison the ledger.  *)
EscapesAreReal == \A t \in DOMAIN story : story[t] \notin {"late", "lie"}

(* A body that stays in the snow gets an attempt to dig it out, provided that *)
(* the equip a fight starts with settles on a dead connection too            *)
(* (HandEquipSettles; body_wedge shows what is lost without): then no        *)
(* sequence of meals, maneuvers, deaths and reconnects keeps the seam from    *)
(* the reflex at the top of the ladder.                                     *)
TrapIsFought ==
  (hazard.open /\ body.snow) ~> (busy = "escape" \/ ~hazard.open \/ ~body.snow \/ ~body.up)

(* A maneuver always gives the body back.                                   *)
ManeuverReleases == (busy = "combat") ~> (busy # "combat")
=============================================================================
