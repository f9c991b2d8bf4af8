----------------------------- MODULE Reflection -----------------------------
(***************************************************************************)
(* The memory stream of one villager (memory-service): memories are stored *)
(* by the ticks, and distilled into insights by the background job and by  *)
(* the REST lever, which know nothing of each other.  A store reads the    *)
(* clock first, waits for the embedding, and commits then, so rows appear  *)
(* out of the order of their created_at.  The newest insight is the        *)
(* watermark of the next pass.  A memory is named by its created_at.       *)
(***************************************************************************)
EXTENDS Naturals, SequencesExt, FiniteSetsExt

CONSTANTS
  Pass,           \* who can reflect: the job and the REST lever
  Job,            \* the one of them that asks for the pressure first
  Threshold,      \* memories that make the villager due, of equal importance
  RecentLimit,    \* reflection_recent_limit
  HourlyCap,      \* reflections_per_hour_cap
  MaxInsights,    \* insights of one answer
  MaxMemories     \* bound on the stream

ASSUME ReflectionAssumption ==
  /\ Job \in Pass
  /\ Threshold \in Nat /\ RecentLimit \in Nat \ {0} /\ HourlyCap \in Nat
  /\ MaxInsights \in Nat \ {0} /\ MaxMemories \in Nat

VARIABLES
  kinds,    \* created_at, counted: the kind of every memory begun
  rows,     \* the committed ones
  pending,  \* stores of the ticks that wait for their embedding
  pass,     \* [Pass -> stage, watermark, batch, insights to go, row begun]
  runs,     \* HourlyCap._count
  read,     \* history: memories that a pass with an insight was shown
  shadow,   \* history: memories stored while a pass was under way
  crowded   \* history: memories a pass had no room for

streamVars == <<kinds, rows, pending, pass, runs, read, shadow, crowded>>

NoPass == [stage |-> "none", mark |-> 0, batch |-> {}, left |-> 0, row |-> 0]

Active == {r \in Pass : pass[r].stage \notin {"none", "due"}}

OfKind(kind) == {m \in rows : kinds[m] = kind}

\* Mutant: the newest row of any kind is the watermark.
Watermark_AnyKind == Max({0} \union rows)

Watermark == Max({0} \union OfKind("reflection"))

Since(mark) == {m \in OfKind("action") : m > mark}

Newest(events) == {m \in events : Cardinality({d \in events : d > m}) < RecentLimit}

-----------------------------------------------------------------------------
(* The ticks' stores. *)

BeginStore ==
  /\ Len(kinds) < MaxMemories
  /\ kinds' = Append(kinds, "action")
  /\ pending' = pending \union {Len(kinds')}
  /\ shadow' = IF Active = {} THEN shadow ELSE shadow \union {Len(kinds')}
  /\ UNCHANGED <<rows, pass, runs, read, crowded>>

CommitStore(m) ==
  /\ m \in pending /\ pending' = pending \ {m}
  /\ rows' = rows \union {m}
  /\ UNCHANGED <<kinds, pass, runs, read, shadow, crowded>>

\* The embedding or the database refuses.
StoreFails(m) ==
  /\ m \in pending /\ pending' = pending \ {m}
  /\ UNCHANGED <<kinds, rows, pass, runs, read, shadow, crowded>>

-----------------------------------------------------------------------------
(* A pass. *)

Goes(r, to) == pass' = [pass EXCEPT ![r] = to]

\* villagers_due_for_reflection: computed once for all the villagers of a
\* round, and possibly stale when this one's turn comes.
Due(r) ==
  /\ pass[r] = NoPass
  /\ r = Job => Cardinality(Since(Watermark)) > Threshold
  /\ Goes(r, [NoPass EXCEPT !.stage = "due"])
  /\ UNCHANGED <<kinds, rows, pending, runs, read, shadow, crowded>>

\* reflect, its first query.
Marks(r) ==
  /\ pass[r].stage = "due"
  /\ Goes(r, [NoPass EXCEPT !.stage = "marked", !.mark = Watermark])
  /\ shadow' = shadow \union pending
  /\ UNCHANGED <<kinds, rows, pending, runs, read, crowded>>

\* Its second query, and the cap, which is asked only when there is something
\* to reflect on.  The budget breaker may refuse after the cap has counted.
Reads(r) ==
  LET fresh == Since(pass[r].mark)
      batch == Newest(fresh)
  IN  /\ pass[r].stage = "marked"
      /\ IF batch = {} \/ runs >= HourlyCap
         THEN Goes(r, NoPass) /\ UNCHANGED <<runs, crowded>>
         ELSE /\ runs' = runs + 1
              /\ crowded' = crowded \union (fresh \ batch)
              /\ Goes(r, [pass[r] EXCEPT !.stage = "asking", !.batch = batch])
      /\ UNCHANGED <<kinds, rows, pending, read, shadow>>

\* parse_insights: some insights are usable.
Distils(r) ==
  /\ pass[r].stage = "asking"
  /\ \E n \in 1..MaxInsights : Goes(r, [pass[r] EXCEPT !.stage = "storing", !.left = n])
  /\ UNCHANGED <<kinds, rows, pending, runs, read, shadow, crowded>>

BeginInsight(r) ==
  /\ pass[r].stage = "storing" /\ Len(kinds) < MaxMemories
  /\ kinds' = Append(kinds, "reflection")
  /\ Goes(r, [pass[r] EXCEPT !.stage = "embedding", !.row = Len(kinds')])
  /\ UNCHANGED <<rows, pending, runs, read, shadow, crowded>>

CommitInsight(r) ==
  /\ pass[r].stage = "embedding"
  /\ rows' = rows \union {pass[r].row}
  /\ read' = read \union pass[r].batch
  /\ Goes(r, IF pass[r].left = 1 THEN NoPass
             ELSE [pass[r] EXCEPT !.stage = "storing", !.left = @ - 1, !.row = 0])
  /\ UNCHANGED <<kinds, pending, runs, shadow, crowded>>

\* No usable answer, an open breaker, or a call or a store that raises: the
\* insights still to come are lost, those stored stay.
PassFails(r) ==
  /\ r \in Active /\ pass[r].stage # "marked"
  /\ Goes(r, NoPass)
  /\ UNCHANGED <<kinds, rows, pending, runs, read, shadow, crowded>>

HourPasses ==
  /\ runs > 0 /\ runs' = 0
  /\ UNCHANGED <<kinds, rows, pending, pass, read, shadow, crowded>>

StreamInit ==
  /\ kinds = <<>> /\ rows = {} /\ pending = {}
  /\ pass = [r \in Pass |-> NoPass] /\ runs = 0
  /\ read = {} /\ shadow = {} /\ crowded = {}

StreamNext ==
  \/ BeginStore \/ HourPasses
  \/ \E m \in pending : CommitStore(m) \/ StoreFails(m)
  \/ \E r \in Pass : \/ Due(r) \/ Marks(r) \/ Reads(r) \/ Distils(r)
                     \/ BeginInsight(r) \/ CommitInsight(r) \/ PassFails(r)

-----------------------------------------------------------------------------
(* Properties. *)

StreamTypeOK ==
  /\ kinds \in Seq({"action", "reflection"}) /\ Len(kinds) <= MaxMemories
  /\ rows \subseteq DOMAIN kinds /\ pending \subseteq DOMAIN kinds
  /\ \A r \in Pass : pass[r].stage \in {"none", "due", "marked", "asking", "storing", "embedding"}
  /\ runs \in 0..HourlyCap

\* A memory that the watermark has passed was shown to a pass that came to an
\* insight.  The exceptions are the ones the code cannot help: it was being
\* stored while a pass was under way, or it was older than the newest few of
\* the backlog.  No pass that failed, and no insight lost half way, adds to them.
NothingSkipped ==
  \A m \in OfKind("action") : m < Watermark => m \in read \union shadow \union crowded
=============================================================================
