------------------------------ MODULE Sessions ------------------------------
(***************************************************************************)
(* The sessions of one villager (minecraft-service, BotRegistry and the    *)
(* connection of a BotSession) and its entry in the roster.  A session     *)
(* reconnects for as long as it lives; the registry knows one session of   *)
(* a villager, and despawns none that it replaces.                         *)
(***************************************************************************)
EXTENDS Naturals, FiniteSets

CONSTANTS
  Session,    \* the BotSession objects there will be
  NoOne       \* no session

ASSUME SessionsAssumption == IsFiniteSet(Session) /\ NoOne \notin Session

VARIABLES
  listed,     \* BotRegistry.sessions.get(villagerId)
  session,    \* [Session -> connection, entity, reconnect timer, what waits on it]
  roster,     \* whether the villager's name is in the roster
  command,    \* the spawn or despawn in the lane, and its session
  replaced,   \* history: the sessions whose place a spawn took
  slipped     \* history: a spawn gave up its wait, or the watchdog a despawn

sessionVars == <<listed, session, roster, command, replaced, slipped>>

\* entity outlives the connection: only the next createBot takes it away.
Unborn == [conn |-> "none", entity |-> FALSE, timer |-> FALSE, despawned |-> FALSE,
           awaited |-> FALSE, leaving |-> FALSE]

Fresh == {s \in Session : session[s] = Unborn}

IsActive(s) == session[s].entity /\ ~session[s].despawned

FreeLane   == [verb |-> "none", who |-> NoOne]
Spawn(s)   == [verb |-> "spawn", who |-> s]
Despawn(s) == [verb |-> "despawn", who |-> s]

\* A run that ends frees the lane, unless the watchdog has given it up before.
Released(c) == command' = IF command = c THEN FreeLane ELSE command

-----------------------------------------------------------------------------
\* A spawn command, of a villager that has no active session: the one it had
\* is forgotten and not despawned.
SpawnCommand(s) ==
  /\ command = FreeLane /\ s \in Fresh
  /\ listed # NoOne => ~IsActive(listed)
  /\ session' = [session EXCEPT ![s] = [Unborn EXCEPT !.conn = "dialing", !.awaited = TRUE]]
  /\ listed' = s /\ command' = Spawn(s) /\ replaced' = replaced \cup ({listed} \ {NoOne})
  /\ UNCHANGED <<roster, slipped>>

\* The first 'spawn' of a connection resolves awaitSpawn, and only a spawn
\* that got that far enters the roster.  Nobody asks whether a despawn came
\* between.
LogsIn(s) ==
  /\ session[s].conn = "dialing"
  /\ session' = [session EXCEPT ![s].conn = "in", ![s].entity = TRUE, ![s].awaited = FALSE]
  /\ IF session[s].awaited THEN roster' = TRUE /\ Released(Spawn(s)) ELSE UNCHANGED <<roster, command>>
  /\ UNCHANGED <<listed, replaced, slipped>>

\* SPAWN_TIMEOUT_MS: the command fails, the session goes on connecting.
SpawnTimesOut(s) ==
  /\ session[s].awaited
  /\ session' = [session EXCEPT ![s].awaited = FALSE]
  /\ Released(Spawn(s)) /\ slipped' = TRUE
  /\ UNCHANGED <<listed, roster, replaced>>

\* onEnd
ConnectionEnds(s) ==
  /\ session[s].conn \in {"dialing", "in"}
  /\ session' = [session EXCEPT ![s].conn = "out", ![s].timer = ~session[s].despawned]
  /\ UNCHANGED <<listed, roster, command, replaced, slipped>>

\* The reconnect timer: connect.
Reconnects(s) ==
  /\ session[s].timer
  /\ session' = [session EXCEPT ![s].timer = FALSE,
                                ![s].conn = IF session[s].despawned THEN @ ELSE "dialing",
                                ![s].entity = IF session[s].despawned THEN @ ELSE FALSE]
  /\ UNCHANGED <<listed, roster, command, replaced, slipped>>

\* Mutant: the connection is closed and the timer cleared, no more.
TornDown_StillWanted(s) == [session[s] EXCEPT !.timer = FALSE, !.leaving = TRUE]

TornDown(s) == [session[s] EXCEPT !.despawned = TRUE, !.timer = FALSE, !.leaving = TRUE]

\* A despawn command, up to the deletion of the snapshot.
DespawnCommand ==
  /\ command = FreeLane /\ listed # NoOne
  /\ listed' = NoOne /\ session' = [session EXCEPT ![listed] = TornDown(listed)] /\ command' = Despawn(listed)
  /\ UNCHANGED <<roster, replaced, slipped>>

\* ... and the rest of it.
LeavesRoster(s) ==
  /\ session[s].leaving
  /\ session' = [session EXCEPT ![s].leaving = FALSE]
  /\ roster' = FALSE /\ Released(Despawn(s))
  /\ UNCHANGED <<listed, replaced, slipped>>

\* The executor's watchdog frees the lane; what was begun goes on.
SpawnWatchdog ==
  /\ command # FreeLane
  /\ command' = FreeLane /\ slipped' = (slipped \/ command.verb = "despawn")
  /\ UNCHANGED <<listed, session, roster, replaced>>

\* The roster of an earlier life is loaded at boot.
SessionsInit ==
  /\ listed = NoOne /\ session = [s \in Session |-> Unborn] /\ roster \in BOOLEAN
  /\ command = FreeLane /\ replaced = {} /\ slipped = FALSE

SessionsNext ==
  \/ \E s \in Session : \/ SpawnCommand(s) \/ LogsIn(s) \/ SpawnTimesOut(s) \/ ConnectionEnds(s)
                        \/ Reconnects(s) \/ LeavesRoster(s)
  \/ DespawnCommand \/ SpawnWatchdog

-----------------------------------------------------------------------------
(* Properties. *)

SessionsTypeOK ==
  /\ listed \in Session \cup {NoOne}
  /\ command \in [verb : {"spawn", "despawn"}, who : Session] \cup {FreeLane}
  /\ session \in [Session -> [conn : {"none", "dialing", "in", "out"}, entity : BOOLEAN, timer : BOOLEAN,
                              despawned : BOOLEAN, awaited : BOOLEAN, leaving : BOOLEAN]]
  /\ roster \in BOOLEAN /\ replaced \subseteq Session /\ slipped \in BOOLEAN

\* A session that has or will have a client of the villager's name, and is not
\* on its way out.
Claims(s) ==
  \/ session[s].timer
  \/ session[s].conn \in {"dialing", "in"} /\ ~session[s].despawned

\* "Intentional teardown - wins over auto-reconnect" (BotSession.ts:1895): no
\* session claims the villager's name that the registry has despawned, through
\* every order of logins, disconnects, reconnects, despawns and spawns; and
\* the villager the registry lists as active is known by name, unless a wait
\* or a despawn was given up.
DespawnWins ==
  /\ \A s \in Session : Claims(s) => s \in {listed} \cup replaced
  /\ ~slipped /\ listed # NoOne => (IsActive(listed) /\ ~session[listed].awaited => roster)

\* "Exactly one BotSession per villagerId" (BotRegistry.ts:15), as the server
\* sees it: one client at most claims the villager's name.
OneClient == \A s, t \in Session : Claims(s) /\ Claims(t) => s = t
=============================================================================
