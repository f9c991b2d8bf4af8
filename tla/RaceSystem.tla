----------------------------- MODULE RaceSystem -----------------------------
(***************************************************************************)
(* The race end to end, in three scenes that share the ledger and nothing  *)
(* else: the harness and minecraft-service write attempts while nobody     *)
(* reads; the minds read; the board reads.  The writers know nothing of    *)
(* their readers, and a reader sees of the writers only what reaches the   *)
(* topic, so in its scene the writers are a script.  What a script leaves  *)
(* out is a send retried out of turn: its slices arrive partition by       *)
(* partition, each event once and in the order of building.                *)
(***************************************************************************)
EXTENDS Attempts, RaceReaders

CONSTANT Script  \* the slices a reader's scene may be about: [Partition -> Seq(event)]

\* The slice of an attempt as the writers send it: it opens with the start, a
\* rung is crossed once for a team, nothing is crossed after an end, and a won
\* end follows the winning rung.
Coherent(part, a) ==
  LET slice == {i \in DOMAIN part : part[i].attempt = a}
  IN  \A j \in slice :
        LET earlier == {i \in slice : i < j}
        IN  /\ (part[j].type = "AttemptStarted") <=> (earlier = {})
            /\ \A i \in earlier : MayPrecede(part[i], part[j])
            /\ (part[j].type = "AttemptEnded" /\ part[j].outcome = "won") => \E i \in earlier :
                 part[i].type = "ProgressionMilestone" /\ part[i].rung = "iron_pickaxe"

\* A script has what the writers put on the topic: the events of an attempt on
\* one partition, in the order of building, each with a place of its own.
ASSUME ScriptAssumption ==
  \A slices \in Script : \A p \in Partition :
    /\ slices[p] \in Seq(Range(slices[p]))
    /\ \A e \in Range(slices[p]) :
         /\ e.n \in Nat \ {0} /\ e.type \in RaceTypes /\ e.attempt \in Attempt
         /\ \A q \in Partition \ {p} : \A d \in Range(slices[q]) : d.n # e.n /\ d.attempt # e.attempt
    /\ \A i, j \in 1..Len(slices[p]) : i < j => slices[p][i].n < slices[p][j].n
    /\ \A a \in Attempt : Coherent(slices[p], a)

VARIABLES
  scene,   \* "writers", "minds" or "board"
  script   \* the slices of this behaviour

vars == <<ledgerVars, attemptVars, readerVars, scene, script>>

\* The next event of a partition arrives.
ScriptGoesOn(p) ==
  LET next == Len(topic[p]) - (IF p \in Poisoned THEN 0 ELSE -1)
  IN  /\ next <= Len(script[p])
      /\ Published(p, script[p][next])
      /\ UNCHANGED <<ingestVars, feedVars, faults>>

\* The writers find the orphan of an earlier life on the topic; the readers'
\* partitions may begin with a poison record.
Init ==
  /\ LedgerInit /\ AttemptInit /\ ReaderInit
  /\ \/ /\ scene = "writers" /\ script = [p \in Partition |-> <<>>]
        /\ built = <<[n |-> 1, type |-> "AttemptStarted", attempt |-> 1, known |-> {}]>>
        /\ topic = [p \in Partition |-> IF p = PartitionOf[1] THEN built ELSE <<>>]
     \/ /\ scene \in {"minds", "board"} /\ script \in Script
        /\ built = <<>>
        /\ topic = [p \in Partition |-> IF p \in Poisoned THEN <<Poison>> ELSE <<>>]

\* The sweep reads rows only: when a batch is acknowledged, and whether the
\* ledger restarts, is all the same to it.
Catches(p) ==
  /\ acked[p] < Len(topic[p])
  /\ stored' = stored \union Batch(p)
  /\ acked' = [acked EXCEPT ![p] = Len(topic[p])] /\ written' = acked'
  /\ UNCHANGED <<topic, feedVars, faults>>

WriterScene ==
  \/ AttemptNext
  \/ (\E p \in Partition : Catches(p)) /\ UNCHANGED attemptVars

ReaderScene ==
  \/ (LedgerNext /\ UNCHANGED readerVars)
  \/ (\E p \in Partition : ScriptGoesOn(p)) /\ UNCHANGED readerVars
  \/ scene = "minds" /\ MindNext
  \/ scene = "board" /\ BoardNext

Next ==
  /\ \/ scene = "writers" /\ WriterScene /\ UNCHANGED readerVars
     \/ scene # "writers" /\ ReaderScene /\ UNCHANGED attemptVars
  /\ UNCHANGED <<scene, script>>

Spec == Init /\ [][Next]_vars

-----------------------------------------------------------------------------
\* The types of the three components.
TypeOK == LedgerTypeOK /\ AttemptTypeOK /\ ReaderTypeOK
=============================================================================
