----------------------------- MODULE Curriculum -----------------------------
(***************************************************************************)
(* The mastery gate of the skill library and the choice behind it          *)
(* (minecraft-service, policy.ts over the table of stats.ts).  The running *)
(* service records invocations and calls none of this yet: the loop of     *)
(* proposing and practising is the one its comments describe.  History     *)
(* seeded from the ledger stands under names of its own (ledger:<action>), *)
(* so a skill of the library begins without records.                       *)
(***************************************************************************)
EXTENDS Naturals, Sequences, FiniteSets

CONSTANTS
  Skill,         \* the library
  GoalPath,      \* the skills on the way to the goal
  WindowSize, MaxRecords,
  GateRate       \* masteryThreshold, in percent

ASSUME CurriculumAssumption ==
  /\ IsFiniteSet(Skill) /\ {"nothing yet", "threw"} \cap Skill = {}
  /\ GoalPath \subseteq Skill
  /\ WindowSize \in Nat \ {0} /\ MaxRecords \in Nat
  /\ GateRate \in 0..100

VARIABLES
  records,   \* [Skill -> what came of its invocations, in order]
  offered,   \* the skill chosen last, or what came of choosing
  streak     \* [Skill -> successes since its last failure] (of the properties)

curriculumVars == <<records, offered, streak>>

\* foldStats: the attempts of a skill, and the rate of the last of them.
Attempts(s)  == Len(records[s])
Trailing(s)  == SubSeq(records[s], 1 + (IF Attempts(s) > WindowSize THEN Attempts(s) - WindowSize ELSE 0), Attempts(s))
AtLeast(r, percent) == 100 * Cardinality({i \in DOMAIN r : r[i] = "ok"}) >= percent * Len(r)

\* Mutant: the gate asks for the rate of all time, not of the window.
Unmastered_Lifetime == {s \in GoalPath : Attempts(s) > 0 /\ ~AtLeast(records[s], GateRate)}

Unmastered == {s \in GoalPath : Attempts(s) > 0 /\ ~AtLeast(Trailing(s), GateRate)}

\* masteryGate, a filter on the list of the proposer.
Allowed(candidates) == IF Unmastered = {} THEN candidates ELSE {s \in candidates : Attempts(s) > 0}

\* selectSkill: novelty takes one of the least tried; UCB1 takes an untried
\* one while there is one, and may else take any.
Chosen(eligible) ==
  LET untried == {s \in eligible : Attempts(s) = 0}
      fewest  == {s \in eligible : \A t \in eligible : Attempts(s) <= Attempts(t)}
  IN  fewest \cup (IF untried = {} THEN eligible ELSE untried)

-----------------------------------------------------------------------------
\* A proposal through the gate.  What it leaves may be nothing, and then the
\* choice throws.
Propose ==
  /\ offered \notin Skill
  /\ \E candidates \in SUBSET Skill :
       LET allowed == Allowed(candidates)
       IN  IF allowed = {} THEN offered' = "threw" ELSE offered' \in Chosen(allowed)
  /\ UNCHANGED <<records, streak>>

\* SkillRegistry.invoke: the skill runs, and what came of it is recorded.
Practise ==
  /\ offered \in Skill /\ Attempts(offered) < MaxRecords
  /\ \E outcome \in {"ok", "failed"} :
       /\ records' = [records EXCEPT ![offered] = Append(@, outcome)]
       /\ streak' = [streak EXCEPT ![offered] = IF outcome = "ok" THEN @ + 1 ELSE 0]
  /\ offered' = "nothing yet"

\* A proposal that the colony did not get to.
Passes == offered \in Skill /\ offered' = "nothing yet" /\ UNCHANGED <<records, streak>>

CurriculumInit ==
  /\ records = [s \in Skill |-> <<>>] /\ streak = [s \in Skill |-> 0]
  /\ offered = "nothing yet"

CurriculumNext == Propose \/ Practise \/ Passes

-----------------------------------------------------------------------------
(* Properties. *)

CurriculumTypeOK ==
  /\ \A s \in Skill : records[s] \in Seq({"ok", "failed"})
  /\ streak \in [Skill -> Nat]
  /\ offered \in Skill \cup {"nothing yet", "threw"}

\* Depth over breadth, and no dead end: a skill that nobody has tried is only
\* up for practice while no tried skill of the goal path is failing, by either
\* way of choosing; and a skill that has succeeded as often in a row as the
\* window is long does not hold the gate shut, however badly it began.
DepthOverBreadth ==
  /\ offered \in Skill /\ Attempts(offered) = 0 => Unmastered = {}
  /\ \A s \in Skill : streak[s] >= WindowSize => s \notin Unmastered
=============================================================================
