-------------------------- MODULE RaceSystemProofs --------------------------
(* For any partitions, attempts, readers and faults: the ledger loses no     *)
(* fact that it has acknowledged, and the attempts on it are coherent, ended *)
(* once and started over nothing known.                                      *)
EXTENDS RaceSystem, NumberLemmas, FiniteSetTheorems, SequenceTheorems, TLAPS

(* Everything below the end of the batch last written is a row or was no     *)
(* envelope; the committed offset never passes that end, so a restart only   *)
(* goes back to what is written.                                             *)
AllWritten ==
  /\ written \in [Partition -> Nat] /\ acked \in [Partition -> Nat]
  /\ \A p \in Partition : /\ acked[p] <= written[p] /\ written[p] <= Len(topic[p])
                          /\ \A i \in 1..written[p] : topic[p][i] # Poison => topic[p][i] \in stored

LedgerInv == (\E S : topic \in [Partition -> Seq(S)]) /\ AllWritten

(* Whatever the rest of the race does, this is all that the ledger sees.     *)
TopicGrows == (\E p, e : Published(p, e)) /\ UNCHANGED ingestVars

LedgerStep ==
  \/ TopicGrows
  \/ \E p \in Partition : Record(p) \/ Acknowledge(p) \/ Catches(p)
  \/ LedgerRestarts
  \/ UNCHANGED <<topic, ingestVars>>

LEMMA WriterStep ==
  ASSUME AttemptNext
  PROVE  LedgerStep
<1>1. CASE SweepNext
  <2>1. UNCHANGED ledgerVars
    BY <1>1 DEF SweepNext, SweepBegins, SweepReads, SweepCloses, SweepCompletes, Truncated, BootSweepAgain
  <2> QED
    BY <2>1 DEF ledgerVars, ingestVars, LedgerStep
<1>2. CASE ReadFails \/ Crash
  BY <1>2 DEF ReadFails, Crash, LedgerStep
<1>3. ASSUME NEW e \in flight, Delivered(e) \/ Fails(e) \/ GivesUp(e)
      PROVE  LedgerStep
  <2>1. CASE Delivered(e)
    BY <2>1 DEF Delivered, Arrives, TopicGrows, LedgerStep
  <2>2. CASE Fails(e)
    BY <2>2 DEF Fails, Arrives, TopicGrows, LedgerStep, ingestVars
  <2>3. CASE GivesUp(e)
    BY <2>3 DEF GivesUp, ledgerVars, ingestVars, LedgerStep
  <2> QED
    BY <1>3, <2>1, <2>2, <2>3
<1>4. ASSUME NEW o \in Outcome, Observe(o)
      PROVE  LedgerStep
  BY <1>4 DEF Observe, ledgerVars, ingestVars, LedgerStep
<1>5. ASSUME NEW h \in Harness, HarnessNext(h)
      PROVE  LedgerStep
  BY <1>5 DEF HarnessNext, Look, Clear, StartAttempt, Watch, EndAttempt, ledgerVars, ingestVars, LedgerStep
<1> QED
  BY <1>1, <1>2, <1>3, <1>4, <1>5 DEF AttemptNext

LEMMA ReaderStep ==
  ASSUME ReaderScene
  PROVE  LedgerStep
<1>1. CASE LedgerNext
  BY <1>1 DEF LedgerNext, Ingests, LedgerStep
<1>2. ASSUME NEW p \in Partition, ScriptGoesOn(p)
      PROVE  LedgerStep
  BY <1>2 DEF ScriptGoesOn, TopicGrows, LedgerStep
<1>3. CASE MindNext
  <2>1. UNCHANGED <<topic, ingestVars>>
    BY <1>3 DEF MindNext, Rehydrates, RehydrateFails, MindRestarts, Hears, ledgerVars, ingestVars
  <2> QED
    BY <2>1 DEF LedgerStep
<1>4. CASE BoardNext
  <2>1. UNCHANGED <<topic, ingestVars>>
    BY <1>4 DEF BoardNext, BoardSeeksNewest, BoardReadsSlice, BoardConnects, Broadcast, ClientDropped,
                ledgerVars, ingestVars
  <2> QED
    BY <2>1 DEF LedgerStep
<1> QED
  BY <1>1, <1>2, <1>3, <1>4 DEF ReaderScene

LEMMA RaceStep ==
  ASSUME [Next]_vars
  PROVE  LedgerStep
<1>1. CASE scene = "writers" /\ WriterScene
  BY <1>1, WriterStep DEF WriterScene, LedgerStep
<1>2. CASE ReaderScene
  BY <1>2, ReaderStep
<1>3. CASE UNCHANGED vars
  BY <1>3 DEF vars, ledgerVars, ingestVars, LedgerStep
<1> QED
  BY <1>1, <1>2, <1>3 DEF Next

LEMMA AllWrittenAtFirst == Init => LedgerInv
<1> SUFFICES ASSUME Init PROVE LedgerInv
  OBVIOUS
<1>1. /\ acked = [p \in Partition |-> 0] /\ written = [p \in Partition |-> 0]
  BY DEF Init, LedgerInit
<1>2. \E s : topic \in [Partition -> Seq({s})]
  <2>1. CASE scene = "writers"
    <3> DEFINE s == [n |-> 1, type |-> "AttemptStarted", attempt |-> 1, known |-> {}]
    <3>1. topic = [p \in Partition |-> IF p = PartitionOf[1] THEN <<s>> ELSE <<>>]
      BY <2>1 DEF Init
    <3> HIDE DEF s
    <3>2. <<s>> \in Seq({s}) /\ <<>> \in Seq({s})
      OBVIOUS
    <3>3. topic \in [Partition -> Seq({s})]
      BY <3>1, <3>2
    <3> QED
      BY <3>3
  <2>2. CASE scene # "writers"
    <3>1. topic = [p \in Partition |-> IF p \in Poisoned THEN <<Poison>> ELSE <<>>]
      BY <2>2 DEF Init
    <3>2. <<Poison>> \in Seq({Poison}) /\ <<>> \in Seq({Poison})
      OBVIOUS
    <3>3. topic \in [Partition -> Seq({Poison})]
      BY <3>1, <3>2
    <3> QED
      BY <3>3
  <2> QED
    BY <2>1, <2>2
<1>3. \A p \in Partition : Len(topic[p]) \in Nat
  BY <1>2
<1> QED
  BY <1>1, <1>2, <1>3 DEF LedgerInv, AllWritten

(* A batch takes everything from the committed offset on.                    *)
LEMMA BatchIsAll ==
  ASSUME LedgerInv, NEW p \in Partition, NEW i \in 1..Len(topic[p]), i > acked[p], topic[p][i] # Poison
  PROVE  topic[p][i] \in Batch(p)
<1>1. PICK S : topic \in [Partition -> Seq(S)]
  BY DEF LedgerInv
<1> DEFINE rest == SubSeq(topic[p], acked[p] + 1, Len(topic[p]))
           j    == i - acked[p]
<1>2. topic[p] \in Seq(S) /\ Len(topic[p]) \in Nat /\ acked[p] \in Nat
  BY <1>1 DEF LedgerInv, AllWritten
<1>3. /\ rest \in Seq(S)
      /\ Len(rest) = IF acked[p] + 1 <= Len(topic[p]) THEN Len(topic[p]) - (acked[p] + 1) + 1 ELSE 0
      /\ \A k \in 1..(Len(topic[p]) - (acked[p] + 1) + 1) : rest[k] = topic[p][acked[p] + 1 + k - 1]
  <2>1. acked[p] + 1 \in Int /\ Len(topic[p]) \in Int
    BY <1>2
  <2>2. \A k \in acked[p] + 1..Len(topic[p]) : topic[p][k] \in S
    BY <1>2
  <2> QED
    BY <2>1, <2>2, SubSeqProperties
<1> HIDE DEF rest
<1>4. j \in 1..Len(rest) /\ rest[j] = topic[p][i]
  <2>1. /\ j \in 1..(Len(topic[p]) - (acked[p] + 1) + 1) /\ acked[p] + 1 + j - 1 = i
        /\ acked[p] + 1 <= Len(topic[p])
    <3>1. i \in Nat /\ acked[p] \in Nat /\ Len(topic[p]) \in Nat /\ acked[p] < i /\ i <= Len(topic[p])
      BY <1>2
    <3>2. ASSUME NEW a \in Nat, NEW m \in Nat, NEW l \in Nat, a < m, m <= l
          PROVE  m - a \in 1..(l - (a + 1) + 1) /\ a + 1 + (m - a) - 1 = m /\ a + 1 <= l
      BY <3>2
    <3> QED
      BY <3>1, <3>2
  <2>2. Len(rest) = Len(topic[p]) - (acked[p] + 1) + 1
    BY <1>3, <2>1
  <2> HIDE DEF j
  <2> QED
    BY <1>3, <2>1, <2>2
<1>5. DOMAIN rest = 1..Len(rest)
  BY <1>3
<1> QED
  BY <1>4, <1>5 DEF Batch, Range, rest

LEMMA AllWrittenStays ==
  ASSUME LedgerInv, LedgerStep
  PROVE  LedgerInv'
<1> USE DEF LedgerInv
<1>1. PICK S : topic \in [Partition -> Seq(S)]
  OBVIOUS
<1>2. \A p \in Partition : topic[p] \in Seq(S) /\ Len(topic[p]) \in Nat
  BY <1>1
<1>3. CASE TopicGrows
  <2>1. PICK p, e : topic' = [topic EXCEPT ![p] = Append(@, e)]
    BY <1>3 DEF TopicGrows, Published
  <2>3. UNCHANGED <<acked, written, stored>>
    BY <1>3 DEF TopicGrows, ingestVars
  <2>4. p \in Partition => Append(topic[p], e) \in Seq(S \cup {e})
    BY <1>2
  <2>5. \A q \in Partition : topic[q] \in Seq(S \cup {e})
    BY <1>2
  <2>6. topic' \in [Partition -> Seq(S \cup {e})]
    BY <1>1, <2>1, <2>4, <2>5
  <2>7. \A q \in Partition : /\ Len(topic[q]) <= Len(topic'[q])
                             /\ \A i \in 1..Len(topic[q]) : topic'[q][i] = topic[q][i]
    BY <1>1, <1>2, <2>1
  <2>8. ASSUME NEW q \in Partition
        PROVE  /\ acked[q] <= written[q] /\ written[q] <= Len(topic'[q])
               /\ \A i \in 1..written[q] : topic'[q][i] # Poison => topic'[q][i] \in stored
    <3>1. Len(topic'[q]) \in Nat /\ Len(topic[q]) \in Nat /\ written[q] \in Nat /\ acked[q] \in Nat
      BY <1>2, <2>6 DEF AllWritten
    <3>2. /\ acked[q] <= written[q] /\ written[q] <= Len(topic[q])
          /\ \A i \in 1..written[q] : topic[q][i] # Poison => topic[q][i] \in stored
      BY DEF AllWritten
    <3>3. \A i \in 1..written[q] : i \in 1..Len(topic[q]) /\ topic'[q][i] = topic[q][i]
      BY <2>7, <3>1, <3>2
    <3>4. written[q] <= Len(topic'[q])
      BY <2>7, <3>1, <3>2
    <3> QED
      BY <3>2, <3>3, <3>4
  <2> QED
    BY <2>3, <2>6, <2>8 DEF AllWritten
<1>4. ASSUME NEW p \in Partition, Record(p)
      PROVE  LedgerInv'
  <2>1. /\ stored' = stored \union Batch(p) /\ written' = [written EXCEPT ![p] = Len(topic[p])]
        /\ written[p] = acked[p] /\ UNCHANGED <<topic, acked>>
    BY <1>4 DEF Record
  <2>2. \A i \in 1..Len(topic[p]) : topic[p][i] # Poison => topic[p][i] \in stored'
    <3>1. ASSUME NEW i \in 1..Len(topic[p]), topic[p][i] # Poison
          PROVE  topic[p][i] \in stored \union Batch(p)
      <4>1. CASE i > acked[p]
        BY <3>1, <4>1, BatchIsAll
      <4>2. CASE ~(i > acked[p])
        <5>1. i \in 1..written[p]
          BY <1>2, <4>2 DEF AllWritten
        <5> QED
          BY <3>1, <5>1 DEF AllWritten
      <4> QED
        BY <4>1, <4>2
    <3> QED
      BY <2>1, <3>1
  <2> QED
    BY <1>1, <1>2, <2>1, <2>2 DEF AllWritten
<1>5. ASSUME NEW p \in Partition, Acknowledge(p)
      PROVE  LedgerInv'
  BY <1>1, <1>2, <1>5 DEF Acknowledge, AllWritten
<1>6. ASSUME NEW p \in Partition, Catches(p)
      PROVE  LedgerInv'
  <2>1. /\ stored' = stored \union Batch(p) /\ acked' = [acked EXCEPT ![p] = Len(topic[p])]
        /\ written' = acked' /\ UNCHANGED topic
    BY <1>6 DEF Catches
  <2>2. \A i \in 1..Len(topic[p]) : topic[p][i] # Poison => topic[p][i] \in stored'
    <3>1. ASSUME NEW i \in 1..Len(topic[p]), topic[p][i] # Poison
          PROVE  topic[p][i] \in stored \union Batch(p)
      <4>1. CASE i > acked[p]
        BY <3>1, <4>1, BatchIsAll
      <4>2. CASE ~(i > acked[p])
        <5>1. i \in 1..written[p]
          BY <1>2, <4>2 DEF AllWritten
        <5> QED
          BY <3>1, <5>1 DEF AllWritten
      <4> QED
        BY <4>1, <4>2
    <3> QED
      BY <2>1, <3>1
  <2> QED
    BY <1>1, <1>2, <2>1, <2>2 DEF AllWritten
<1>7. CASE LedgerRestarts
  BY <1>1, <1>2, <1>7 DEF LedgerRestarts, AllWritten
<1>8. CASE UNCHANGED <<topic, ingestVars>>
  BY <1>8 DEF ingestVars, AllWritten
<1> QED
  BY <1>3, <1>4, <1>5, <1>6, <1>7, <1>8 DEF LedgerStep

LEMMA AckedIsWritten ==
  ASSUME LedgerInv
  PROVE  NoFactSkipped
<1>1. \A p \in Partition : 1..acked[p] \subseteq 1..written[p]
  BY DEF LedgerInv, AllWritten
<1> QED
  BY <1>1 DEF LedgerInv, AllWritten, NoFactSkipped

(* "Backpressure over data loss" (EventEnvelopeConsumer): whatever restarts  *)
(* fall between the write and the commit, and whoever writes or reads        *)
(* meanwhile, no acknowledged envelope is missing from the table.            *)
THEOREM NoFactEverSkipped == Spec => []NoFactSkipped
<1>1. LedgerInv /\ [Next]_vars => LedgerInv'
  BY RaceStep, AllWrittenStays
<1> QED
  BY AllWrittenAtFirst, <1>1, AckedIsWritten, PTL DEF Spec

-----------------------------------------------------------------------------
(* The writers' scene.  Events are told apart by n; every one on the topic,   *)
(* however often, and every one in flight has been built.                    *)

StartEvent     == [n : Nat, type : {"AttemptStarted"}, attempt : Nat, known : SUBSET Nat]
EndEvent       == [n : Nat, type : {"AttemptEnded"}, attempt : Nat,
                   outcome : {"won", "stalled", "aborted"}, by : Nat]
MilestoneEvent == [n : Nat, type : {"ProgressionMilestone"}, attempt : Nat, team : Team, rung : Rung]

Event == StartEvent \union EndEvent \union MilestoneEvent

IsStart(e)     == e.type = "AttemptStarted"
IsEnd(e)       == e.type = "AttemptEnded"
IsMilestone(e) == e.type = "ProgressionMilestone"

LEMMA EventKinds ==
  ASSUME NEW e \in Event
  PROVE  /\ e.n \in Nat /\ e.attempt \in Nat /\ e # Poison
         /\ IsStart(e) <=> e \in StartEvent
         /\ IsEnd(e) <=> e \in EndEvent
         /\ IsMilestone(e) <=> e \in MilestoneEvent
         /\ IsStart(e) => e.known \subseteq Nat /\ ~IsEnd(e) /\ ~IsMilestone(e)
         /\ IsEnd(e) => e.by \in Nat /\ ~IsMilestone(e)
         /\ IsMilestone(e) => e.team \in Team /\ e.rung \in Rung
BY DEF Event, StartEvent, EndEvent, MilestoneEvent, IsStart, IsEnd, IsMilestone, Poison

Built     == Range(built)
TopicOf(p) == Range(topic[p])
Starts    == OfType(Built, "AttemptStarted")

Numbered ==
  /\ built \in Seq(Event)
  /\ \A i \in 1..Len(built) : built[i].n = i

Lines ==
  /\ topic \in [Partition -> Seq(Event)]
  /\ flight \subseteq Built /\ retried \subseteq flight
  /\ \A p \in Partition : \A e \in TopicOf(p) : e \in Built /\ PartitionOf[e.attempt] = p

LEMMA InRange ==
  ASSUME NEW S, NEW s \in Seq(S), NEW x
  PROVE  /\ x \in Range(s) <=> \E i \in 1..Len(s) : s[i] = x
         /\ x \in Range(s) => x \in S
BY DEF Range

LEMMA BuiltByNumber ==
  ASSUME Numbered
  PROVE  /\ \A e \in Built : e \in Event /\ e.n \in 1..Len(built) /\ built[e.n] = e
         /\ \A i \in 1..Len(built) : built[i] \in Built /\ built[i].n = i
         /\ \A d, e \in Built : d.n = e.n => d = e
         /\ Len(built) \in Nat
         /\ DOMAIN built = 1..Len(built)
<1>1. built \in Seq(Event)
  BY DEF Numbered
<1>2. \A e : e \in Built <=> \E i \in 1..Len(built) : built[i] = e
  BY <1>1, InRange DEF Built
<1>3. \A i \in 1..Len(built) : built[i] \in Event
  BY <1>1
<1> QED
  BY <1>1, <1>2, <1>3 DEF Numbered

(* What a send builds comes after everything built, and is in flight.        *)
LEMMA SendLines ==
  ASSUME Numbered, Lines, NEW news \in Seq(Event),
         \A k \in 1..Len(news) : news[k].n = Len(built) + k,
         Send(news), UNCHANGED <<topic, retried>>
  PROVE  /\ Numbered' /\ Lines'
         /\ Built' = Built \union Range(news) /\ flight' = flight \union Range(news)
         /\ Len(built') = Len(built) + Len(news)
         /\ \A i \in 1..Len(built) : built'[i] = built[i]
         /\ \A e \in Range(news) : e \in Event /\ e.n > Len(built)
         /\ \A p \in Partition : TopicOf(p)' = TopicOf(p)
<1>1. /\ built \in Seq(Event) /\ built' = built \o news /\ flight' = flight \union Range(news)
      /\ Len(built) \in Nat /\ Len(news) \in Nat /\ topic' = topic /\ retried' = retried
  BY DEF Numbered, Send
<1>2. /\ built' \in Seq(Event) /\ Len(built') = Len(built) + Len(news)
      /\ \A i \in 1..(Len(built) + Len(news)) :
           built'[i] = IF i <= Len(built) THEN built[i] ELSE news[i - Len(built)]
      /\ Built' = Built \union Range(news)
  BY <1>1, ConcatProperties, RangeConcatenation DEF Built
<1>3. \A i \in 1..Len(built) : built'[i] = built[i]
  BY <1>1, <1>2
<1>4. Numbered'
  <2> SUFFICES ASSUME NEW i \in 1..(Len(built) + Len(news)) PROVE built'[i].n = i
    BY <1>2 DEF Numbered
  <2>1. CASE i <= Len(built)
    <3>1. i \in 1..Len(built)
      BY <1>1, <2>1
    <3> QED
      BY <1>3, <3>1 DEF Numbered
  <2>2. CASE i > Len(built)
    <3>1. i - Len(built) \in 1..Len(news) /\ built'[i] = news[i - Len(built)]
      BY <1>1, <1>2, <2>2
    <3>2. news[i - Len(built)].n = Len(built) + (i - Len(built))
      BY <3>1
    <3> QED
      BY <1>1, <3>1, <3>2
  <2> QED
    BY <1>1, <2>1, <2>2
<1>5. ASSUME NEW e \in Range(news) PROVE e \in Event /\ e.n > Len(built)
  <2>1. PICK k \in 1..Len(news) : news[k] = e
    BY InRange
  <2> QED
    BY <1>1, <2>1
<1>6. \A p \in Partition : TopicOf(p)' = TopicOf(p)
  BY <1>1 DEF TopicOf
<1>7. Lines'
  BY <1>1, <1>2, <1>6 DEF Lines
<1> QED
  BY <1>1, <1>2, <1>3, <1>4, <1>5, <1>6, <1>7

(* A record more on a partition.                                             *)
LEMMA ArrivalLines ==
  ASSUME topic \in [Partition -> Seq(Event)], NEW e \in Event, PartitionOf[e.attempt] \in Partition, Arrives(e)
  PROVE  /\ topic' \in [Partition -> Seq(Event)]
         /\ \A q \in Partition :
              TopicOf(q)' = IF q = PartitionOf[e.attempt] THEN TopicOf(q) \union {e} ELSE TopicOf(q)
<1>1. PICK p \in Partition : p = PartitionOf[e.attempt]
  OBVIOUS
<1>2. topic' = [topic EXCEPT ![p] = Append(@, e)] /\ topic[p] \in Seq(Event)
  BY <1>1 DEF Arrives, Published
<1>3. Append(topic[p], e) \in Seq(Event) /\ Append(topic[p], e) = topic[p] \o <<e>>
  BY <1>2, AppendIsConcat
<1>4. Range(Append(topic[p], e)) = TopicOf(p) \union {e}
  <2>1. PICK one : one = <<e>>
    OBVIOUS
  <2>2. one \in Seq(Event) /\ Range(one) = {e}
    BY <2>1 DEF Range
  <2>3. Range(topic[p] \o one) = Range(topic[p]) \union {e}
    BY <1>2, <2>2, RangeConcatenation
  <2> QED
    BY <1>3, <2>1, <2>3 DEF TopicOf
<1>5. \A q \in Partition : topic'[q] = IF q = p THEN Append(topic[p], e) ELSE topic[q]
  BY <1>2
<1> QED
  BY <1>1, <1>2, <1>3, <1>4, <1>5 DEF TopicOf

-----------------------------------------------------------------------------
(* Types, and who is waiting for whom.                                       *)

Steps == {"look", "clear", "start", "guard", "watch", "end", "over"}

Outcomes == {"won", "stalled", "aborted"}

SweepType ==
  [who : Harness \union {"boot", "nobody"}, stage : {"idle", "reading", "closing", "sending"},
   cursor : Nat, pages : Nat, open : SUBSET Nat, ended : SUBSET Nat, known : SUBSET Nat]

Typed ==
  /\ active \in [attempt : Nat, fired : SUBSET (Team \X Rung), win : BOOLEAN]
  /\ active.attempt = 0 => active = NoAttempt
  /\ closed \subseteq Nat /\ life \in Nat
  /\ sweep \in SweepType
  /\ sweep.stage = "idle" => sweep = Idle
  /\ sweep.stage # "idle" => sweep.who \in Harness \union {"boot"}
  /\ harness \in [Harness -> [next : Steps, saw : {"nothing", "won", "stalled"}]]
  /\ \A h \in Harness : harness[h].next = "end" => harness[h].saw # "nothing"
  /\ chain \in Seq(Harness \union {"boot"})

Rows == \A e \in stored : e \in TopicOf(PartitionOf[e.attempt]) /\ PartitionOf[e.attempt] \in Partition

(* A step that ends the live attempt.                                        *)
Ends(outcome) ==
  /\ MayEnd(outcome) /\ Ended(outcome)
  /\ UNCHANGED <<topic, ingestVars, feedVars, sweepVars, retried, life, refused>>

(* A step that touches neither the events nor what the process knows of the  *)
(* attempts.                                                                 *)
Quiet == UNCHANGED <<topic, stored, built, trackerVars, sweep, flight, retried, life, refused>>

LEMMA RouteSteps ==
  ASSUME Typed, NEW h \in Harness, HarnessNext(h)
  PROVE  /\ Quiet \/ \E outcome \in Outcomes : Ends(outcome)
         /\ harness' \in [Harness -> [next : Steps, saw : {"nothing", "won", "stalled"}]]
         /\ harness'[h].next = "end" => harness'[h].saw # "nothing"
         /\ \A g \in Harness : g # h => harness'[g] = harness[g]
         /\ harness[h].next # "guard" /\ harness[h].next # "over"
         /\ chain' = chain \/ (chain' = Append(chain, h) /\ harness'[h].next = "guard")
         /\ harness'[h].next \in {"look", "clear", "start", "guard"} => harness[h].next \in {"look", "clear", "start"}
<1> USE DEF Typed, Steps, Outcomes
<1>1. harness \in [Harness -> [next : Steps, saw : {"nothing", "won", "stalled"}]]
  OBVIOUS
<1>2. ASSUME NEW next \in Steps, Says(h, next)
      PROVE  /\ harness' \in [Harness -> [next : Steps, saw : {"nothing", "won", "stalled"}]]
             /\ harness'[h].next = next
             /\ \A g \in Harness : g # h => harness'[g] = harness[g]
  BY <1>1, <1>2 DEF Says
<1>3. CASE Look(h)
  <2>1. Says(h, "start") \/ Says(h, "clear")
    BY <1>3 DEF Look
  <2> QED
    BY <1>2, <1>3, <2>1 DEF Look, Quiet, ledgerVars, ingestVars, sweepVars
<1>4. CASE Clear(h)
  <2>1. Says(h, "start") /\ harness[h].next = "clear" /\ UNCHANGED chain
    BY <1>4 DEF Clear, sweepVars
  <2>2. Quiet \/ Ends("aborted")
    BY <1>4 DEF Clear, Quiet, Ends, ledgerVars, ingestVars, feedVars, sweepVars
  <2> QED
    BY <1>2, <2>1, <2>2
<1>5. CASE StartAttempt(h)
  <2>1. \/ Says(h, "over") /\ chain' = chain
        \/ Says(h, "guard") /\ chain' = Append(chain, h)
    <3>1. CASE active # NoAttempt
      BY <1>5, <3>1 DEF StartAttempt
    <3>2. CASE active = NoAttempt
      BY <1>5, <3>2 DEF StartAttempt
    <3> QED
      BY <3>1, <3>2
  <2>2. Quiet /\ harness[h].next = "start"
    BY <1>5 DEF StartAttempt, Quiet, ledgerVars, ingestVars
  <2> QED
    BY <1>2, <2>1, <2>2
<1>6. CASE Watch(h)
  <2>1. \E saw \in {"won", "stalled"} : harness' = [harness EXCEPT ![h] = [next |-> "end", saw |-> saw]]
    BY <1>6 DEF Watch
  <2>2. Quiet /\ harness[h].next = "watch" /\ UNCHANGED chain
    BY <1>6 DEF Watch, Quiet, ledgerVars, ingestVars, sweepVars
  <2> QED
    BY <1>1, <2>1, <2>2
<1>7. CASE EndAttempt(h)
  <2>1. (Says(h, "over") \/ UNCHANGED harness) /\ harness[h].next = "end" /\ UNCHANGED chain
    BY <1>7 DEF EndAttempt, sweepVars
  <2>2. UNCHANGED <<topic, ingestVars, feedVars, sweepVars, retried, life, refused>>
    BY <1>7 DEF EndAttempt
  <2>3. \/ MayEnd(harness[h].saw) /\ Ended(harness[h].saw)
        \/ UNCHANGED <<built, trackerVars, flight>>
    BY <1>7 DEF EndAttempt
  <2>4. CASE UNCHANGED <<built, trackerVars, flight>>
    <3>1. Quiet
      BY <2>2, <2>4 DEF Quiet, ingestVars, sweepVars
    <3> QED
      BY <1>1, <1>2, <2>1, <3>1
  <2>5. CASE MayEnd(harness[h].saw) /\ Ended(harness[h].saw)
    <3>1. Ends(harness[h].saw)
      BY <2>2, <2>5 DEF Ends
    <3>2. PICK saw \in {"won", "stalled"} : saw = harness[h].saw
      BY <1>1, <2>1
    <3>3. Ends(saw)
      BY <3>1, <3>2
    <3>4. \E outcome \in Outcomes : Ends(outcome)
      BY <3>3
    <3> QED
      BY <1>1, <1>2, <2>1, <3>4
  <2> QED
    BY <2>3, <2>4, <2>5
<1> QED
  BY <1>3, <1>4, <1>5, <1>6, <1>7 DEF HarnessNext

LEMMA FiniteBuilt ==
  ASSUME Numbered
  PROVE  IsFiniteSet(Built) /\ IsFiniteSet(Starts) /\ Cardinality(Starts) \in Nat
<1>1. built \in [1..Len(built) -> Event] /\ Len(built) \in Nat
  BY DEF Numbered
<1>2. built \in Surjection(1..Len(built), Built)
  BY <1>1, BuiltByNumber DEF Surjection, Built, Range
<1>3. IsFiniteSet(1..Len(built))
  BY <1>1, FS_Interval
<1>4. IsFiniteSet(Built)
  BY <1>2, <1>3, FS_Surjection
<1>5. Starts \subseteq Built
  BY DEF Starts, OfType
<1> QED
  BY <1>4, <1>5, FS_Subset, FS_CardinalityType

(* Everything that happens in the writers' scene, by what it changes.        *)
Rests ==
  /\ sweep.stage \in {"reading", "closing"} /\ sweep' = Idle
  /\ UNCHANGED <<topic, stored, built, trackerVars, flight, retried, life, refused>>

StartsNew ==
  /\ sweep.stage = "closing" /\ ToClose = {} /\ active = NoAttempt /\ sweep' = Idle
  /\ sweep.who \in Harness
  /\ Started(sweep.known)
  /\ UNCHANGED <<topic, stored, closed, retried, life, refused>>

LEMMA WriterMoves ==
  ASSUME Typed, WriterScene
  PROVE  \/ (\E e \in flight : Delivered(e) \/ Fails(e)) /\ UNCHANGED harness
         \/ (\E e \in flight : GivesUp(e))
         \/ (\E o \in Outcome : Observe(o))
         \/ SweepBegins
         \/ SweepReads
         \/ SweepCloses
         \/ Rests
         \/ StartsNew
         \/ Quiet
         \/ (\E outcome \in Outcomes : Ends(outcome))
         \/ Crash
         \/ (\E p \in Partition : Catches(p)) /\ UNCHANGED attemptVars
<1>1. CASE SweepNext
  <2>1. CASE SweepCompletes
    <3>1. CASE sweep.who = "boot"
      BY <2>1, <3>1 DEF SweepCompletes, Rests, ledgerVars, trackerVars
    <3>2. CASE sweep.who # "boot" /\ active # NoAttempt
      BY <2>1, <3>2 DEF SweepCompletes, Rests, ledgerVars, trackerVars
    <3>3. CASE sweep.who # "boot" /\ active = NoAttempt
      BY <2>1, <3>3 DEF SweepCompletes, StartsNew, ledgerVars, trackerVars, Typed
    <3> QED
      BY <3>1, <3>2, <3>3
  <2>2. CASE Truncated
    BY <2>2 DEF Truncated, SweepFails, Rests, ledgerVars
  <2>3. CASE BootSweepAgain
    BY <2>3 DEF BootSweepAgain, Quiet, ledgerVars
  <2> QED
    BY <1>1, <2>1, <2>2, <2>3 DEF SweepNext
<1>2. CASE ReadFails
  BY <1>2 DEF ReadFails, SweepFails, Rests, ingestVars
<1>3. ASSUME NEW h \in Harness, HarnessNext(h)
      PROVE  Quiet \/ (\E outcome \in Outcomes : Ends(outcome))
  BY <1>3, RouteSteps
<1>4. ASSUME NEW e \in flight, Delivered(e) \/ Fails(e)
      PROVE  UNCHANGED harness
  BY <1>4 DEF Delivered, Fails
<1> QED
  BY <1>1, <1>2, <1>3, <1>4 DEF WriterScene, AttemptNext

(* A script waits for one sweep at a time, and no script is asked for twice. *)
Queued ==
  /\ \A i \in 1..Len(chain) : chain[i] \in Harness =>
       /\ harness[chain[i]].next = "guard"
       /\ sweep.stage # "idle" => sweep.who # chain[i]
  /\ \A i, j \in 1..Len(chain) : chain[i] \in Harness /\ chain[i] = chain[j] => i = j
  /\ sweep.stage # "idle" /\ sweep.who \in Harness => harness[sweep.who].next = "guard"

(* The scripts that have yet to start their attempt.                         *)
Due == {h \in Harness : harness[h].next \in {"look", "clear", "start", "guard"}}

HarnessType ==
  /\ harness \in [Harness -> [next : Steps, saw : {"nothing", "won", "stalled"}]]
  /\ \A h \in Harness : harness[h].next = "end" => harness[h].saw # "nothing"

LEMMA QueueSteps ==
  ASSUME Typed, Queued, WriterScene
  PROVE  /\ Queued' /\ HarnessType' /\ chain' \in Seq(Harness \union {"boot"})
         /\ Due' \subseteq Due
         /\ StartsNew => sweep.who \in Due /\ sweep.who \notin Due'
<1> USE DEF HarnessType, Steps
<1>1. /\ HarnessType /\ chain \in Seq(Harness \union {"boot"}) /\ Len(chain) \in Nat
      /\ sweep \in SweepType /\ "boot" \notin Harness
      /\ sweep.stage = "idle" => sweep = Idle
  BY AttemptAssumption DEF Typed
<1>2. ASSUME NEW h \in Harness, HarnessNext(h)
      PROVE  Queued' /\ HarnessType' /\ chain' \in Seq(Harness \union {"boot"}) /\ Due' \subseteq Due /\ sweep' = sweep
  <2>1. /\ harness' \in [Harness -> [next : Steps, saw : {"nothing", "won", "stalled"}]]
        /\ harness'[h].next = "end" => harness'[h].saw # "nothing"
        /\ \A g \in Harness : g # h => harness'[g] = harness[g]
        /\ harness[h].next # "guard" /\ harness[h].next # "over"
        /\ chain' = chain \/ (chain' = Append(chain, h) /\ harness'[h].next = "guard")
        /\ harness'[h].next \in {"look", "clear", "start", "guard"} => harness[h].next \in {"look", "clear", "start"}
    BY <1>2, RouteSteps
  <2>2. sweep' = sweep
    BY <1>2 DEF HarnessNext, Look, Clear, StartAttempt, Watch, EndAttempt, sweepVars
  <2>3. HarnessType' /\ Due' \subseteq Due
    BY <1>1, <2>1 DEF Due
  <2>4. /\ \A i \in 1..Len(chain) : chain[i] # h
        /\ sweep.stage # "idle" => sweep.who # h
    BY <2>1 DEF Queued
  <2>5. CASE chain' = chain
    BY <1>1, <2>1, <2>2, <2>3, <2>4, <2>5 DEF Queued
  <2>6. CASE chain' = Append(chain, h) /\ harness'[h].next = "guard"
    <3>1. /\ chain' \in Seq(Harness \union {"boot"}) /\ Len(chain') = Len(chain) + 1
          /\ \A i \in 1..Len(chain) : chain'[i] = chain[i]
          /\ chain'[Len(chain) + 1] = h
      BY <1>1, <2>6
    <3>2. \A i \in 1..Len(chain') : i \in 1..Len(chain) \/ i = Len(chain) + 1
      BY <1>1, <3>1
    <3>3. Queued'
      BY <2>1, <2>2, <2>4, <2>6, <3>1, <3>2 DEF Queued
    <3> QED
      BY <2>2, <2>3, <3>1, <3>3
  <2> QED
    BY <2>1, <2>5, <2>6
<1>3. CASE SweepBegins
  <2>1. /\ sweep = Idle /\ chain # <<>> /\ sweep'.who = Head(chain) /\ sweep'.stage = "reading"
        /\ chain' = Tail(chain) /\ harness' = harness
    BY <1>3 DEF SweepBegins, Idle
  <2>2. /\ chain' \in Seq(Harness \union {"boot"}) /\ Len(chain') = Len(chain) - 1
        /\ \A i \in 1..Len(chain') : i + 1 \in 1..Len(chain) /\ chain'[i] = chain[i + 1]
        /\ Head(chain) = chain[1] /\ 1 \in 1..Len(chain)
    BY <1>1, <2>1
  <2>3. \A i, j \in 1..Len(chain') : i + 1 = j + 1 => i = j
    BY <2>2
  <2>4. \A i \in 1..Len(chain') : i + 1 # 1
    BY <2>2
  <2>5. Queued'
    BY <2>1, <2>2, <2>3, <2>4 DEF Queued
  <2> QED
    BY <1>1, <2>1, <2>2, <2>5 DEF Due, StartsNew, Idle
<1>4. CASE SweepReads \/ SweepCloses \/ (\E e \in flight : Delivered(e))
  <2>1. /\ UNCHANGED <<chain, harness>> /\ sweep'.who = sweep.who
        /\ sweep.stage = "idle" => sweep'.stage = "idle"
    BY <1>1, <1>4 DEF SweepReads, SweepCloses, Delivered, Awaited, SweepType
  <2>2. Queued'
    BY <2>1 DEF Queued
  <2>3. StartsNew => FALSE
    <3>1. StartsNew => sweep' = Idle /\ ToClose = {} /\ sweep.stage = "closing"
      BY DEF StartsNew
    <3>2. SweepReads \/ SweepCloses => ~(ToClose = {} /\ sweep.stage = "closing")
      BY DEF SweepReads, SweepCloses
    <3>3. ASSUME NEW e \in flight, Delivered(e) PROVE ~(sweep.stage = "closing" /\ sweep' = Idle)
      BY <1>1, <3>3 DEF Delivered, Awaited, Idle
    <3> QED
      BY <1>4, <3>1, <3>2, <3>3
  <2> QED
    BY <1>1, <2>1, <2>2, <2>3 DEF Due
<1>5. CASE SweepCompletes
  <2>1. sweep.stage = "closing" /\ sweep' = Idle /\ chain' = chain
    BY <1>5 DEF SweepCompletes
  <2>2. CASE sweep.who = "boot"
    <3>1. harness' = harness
      BY <1>5, <2>2 DEF SweepCompletes
    <3> QED
      BY <1>1, <2>1, <2>2, <3>1 DEF Queued, Due, StartsNew, Idle
  <2>3. CASE sweep.who # "boot"
    <3>1. sweep.who \in Harness /\ harness[sweep.who].next = "guard"
      BY <2>1, <2>3 DEF Queued, Typed
    <3>2. \E next \in {"over", "watch"} : harness' = [harness EXCEPT ![sweep.who].next = next]
      BY <1>5, <2>3 DEF SweepCompletes, Says
    <3>3. /\ HarnessType' /\ \A g \in Harness : g # sweep.who => harness'[g] = harness[g]
          /\ harness'[sweep.who].next \in {"over", "watch"}
      BY <1>1, <3>1, <3>2
    <3>4. Queued'
      BY <2>1, <3>3 DEF Queued, Idle
    <3> QED
      BY <1>1, <2>1, <3>1, <3>3, <3>4 DEF Due
  <2> QED
    BY <2>2, <2>3
<1>6. CASE SweepFails /\ sweep.stage # "idle" /\ chain' = chain
  <2>1. sweep' = Idle
    BY <1>6 DEF SweepFails
  <2>2. CASE sweep.who = "boot"
    <3>1. harness' = harness
      BY <1>6, <2>2 DEF SweepFails
    <3> QED
      BY <1>1, <1>6, <2>1, <2>2, <3>1 DEF Queued, Due, StartsNew, Idle
  <2>3. CASE sweep.who # "boot"
    <3>1. sweep.who \in Harness /\ harness[sweep.who].next = "guard"
      BY <1>6, <2>3 DEF Queued, Typed
    <3>2. harness' = [harness EXCEPT ![sweep.who].next = "over"]
      BY <1>6, <2>3 DEF SweepFails, Says
    <3>3. /\ HarnessType' /\ \A g \in Harness : g # sweep.who => harness'[g] = harness[g]
          /\ harness'[sweep.who].next = "over"
      BY <1>1, <3>1, <3>2
    <3>4. Queued'
      BY <1>6, <2>1, <3>3 DEF Queued, Idle
    <3> QED
      BY <1>1, <1>6, <3>1, <3>3, <3>4 DEF Due
  <2> QED
    BY <2>2, <2>3
<1>7. CASE BootSweepAgain
  <2>1. chain' = Append(chain, "boot") /\ sweep' = sweep /\ harness' = harness
    BY <1>7 DEF BootSweepAgain
  <2>2. /\ chain' \in Seq(Harness \union {"boot"}) /\ Len(chain') = Len(chain) + 1
        /\ \A i \in 1..Len(chain) : chain'[i] = chain[i]
        /\ chain'[Len(chain) + 1] = "boot"
    BY <1>1, <2>1
  <2>3. \A i \in 1..Len(chain') : i \in 1..Len(chain) \/ i = Len(chain) + 1
    BY <1>1, <2>2
  <2>4. Queued'
    BY <1>1, <2>1, <2>2, <2>3 DEF Queued
  <2> QED
    BY <1>1, <2>1, <2>2, <2>4 DEF Due, StartsNew, Idle
<1>8. CASE Crash
  <2>1. /\ chain' = <<"boot">> /\ sweep' = Idle
        /\ harness' = [h \in Harness |-> IF h \in Guarded THEN [harness[h] EXCEPT !.next = "over"] ELSE harness[h]]
    BY <1>8 DEF Crash
  <2>2. chain' \in Seq(Harness \union {"boot"}) /\ Len(chain') = 1 /\ chain'[1] = "boot"
    BY <2>1
  <2>3. Queued'
    BY <1>1, <2>1, <2>2 DEF Queued, Idle
  <2>4. HarnessType' /\ Due' \subseteq Due
    BY <1>1, <2>1 DEF Due
  <2>5. ~StartsNew
    BY <1>8 DEF Crash, StartsNew, Typed
  <2> QED
    BY <2>2, <2>3, <2>4, <2>5
<1>9. CASE UNCHANGED <<chain, harness, sweep>>
  BY <1>1, <1>9 DEF Queued, Due, StartsNew, Idle
<1>10. CASE ReadFails \/ Truncated \/ \E e \in flight : GivesUp(e)
  BY <1>6, <1>10 DEF ReadFails, Truncated, GivesUp, Awaited
<1>11. CASE (\E o \in Outcome : Observe(o)) \/ (\E e \in flight : Fails(e))
  <2>1. UNCHANGED <<chain, harness, sweep>>
    BY <1>11 DEF Observe, Fails, sweepVars
  <2> QED
    BY <1>9, <2>1
<1>12. ~ \E h \in Harness : HarnessNext(h) /\ StartsNew
  <2> SUFFICES ASSUME NEW h \in Harness, HarnessNext(h), StartsNew PROVE FALSE
    OBVIOUS
  <2> QED
    BY <1>2 DEF StartsNew, Idle
<1>13. CASE WriterScene /\ ~AttemptNext
  BY <1>9, <1>13 DEF WriterScene, attemptVars
<1> QED
  BY <1>2, <1>3, <1>4, <1>5, <1>7, <1>8, <1>9, <1>10, <1>11, <1>12, <1>13 DEF AttemptNext, SweepNext

-----------------------------------------------------------------------------
(* What is sent, and that everything is about an attempt that was started.   *)

Begun == Cardinality(Starts)

Known ==
  /\ \A e \in Built : e.attempt \in 1..Begun
  /\ active.attempt \in 0..Begun
  /\ closed \subseteq 1..Begun
  /\ sweep.open \subseteq 1..Begun

(* Every script that has yet to start an attempt still finds a number.       *)
Counted == Begun + Cardinality(Due) <= Cardinality(Harness) + 1

Base == Numbered /\ Lines /\ Typed /\ Rows /\ Queued /\ Known /\ Counted

LEMMA BegunAreAttempts ==
  ASSUME Base
  PROVE  /\ IsFiniteSet(Starts) /\ Begun \in Nat /\ IsFiniteSet(Due) /\ Cardinality(Due) \in Nat
         /\ Cardinality(Harness) \in Nat
         /\ 1..Begun \subseteq Attempt
         /\ Due # {} => Begun + 1 \in Attempt
         /\ \A a \in Attempt : PartitionOf[a] \in Partition
<1>1. IsFiniteSet(Starts) /\ Begun \in Nat
  BY FiniteBuilt DEF Base, Begun
<1>2. IsFiniteSet(Due) /\ Cardinality(Due) \in Nat /\ Cardinality(Harness) \in Nat
  BY FS_Subset, FS_CardinalityType, AttemptAssumption DEF Due
<1>3. Due # {} => Cardinality(Due) # 0
  BY <1>2, FS_EmptySet
<1>4. Begun + Cardinality(Due) <= Cardinality(Harness) + 1
  BY DEF Base, Counted
<1>5. \A a \in Attempt : PartitionOf[a] \in Partition
  BY AttemptAssumption
<1> QED
  BY <1>1, <1>2, <1>3, <1>4, <1>5 DEF Attempt

LEMMA OneSend ==
  ASSUME Numbered, Lines, NEW e \in Event, e.n = Len(built) + 1, Send(<<e>>), UNCHANGED <<topic, retried>>
  PROVE  /\ Numbered' /\ Lines'
         /\ Built' = Built \union {e} /\ e \notin Built /\ flight' = flight \union {e}
         /\ Len(built') = Len(built) + 1
         /\ \A i \in 1..Len(built) : built'[i] = built[i]
         /\ \A p \in Partition : TopicOf(p)' = TopicOf(p)
<1>1. /\ <<e>> \in Seq(Event) /\ Len(<<e>>) = 1 /\ <<e>>[1] = e
      /\ \A k \in 1..Len(<<e>>) : <<e>>[k].n = Len(built) + k
  OBVIOUS
<1>2. Range(<<e>>) = {e}
  BY DEF Range
<1>3. PICK news : news = <<e>>
  OBVIOUS
<1>4. e \notin Built
  BY BuiltByNumber
<1>5. news \in Seq(Event) /\ Send(news) /\ \A k \in 1..Len(news) : news[k].n = Len(built) + k
  BY <1>1, <1>3
<1>6. /\ Numbered' /\ Lines'
      /\ Built' = Built \union Range(news) /\ flight' = flight \union Range(news)
      /\ Len(built') = Len(built) + Len(news)
      /\ \A i \in 1..Len(built) : built'[i] = built[i]
      /\ \A p \in Partition : TopicOf(p)' = TopicOf(p)
  BY <1>5, SendLines
<1> QED
  BY <1>1, <1>2, <1>3, <1>4, <1>6

(* The milestones of one outcome.                                            *)
LEMMA ObserveSends ==
  ASSUME Base, NEW o \in Outcome, Observe(o)
  PROVE  \E news \in Seq(MilestoneEvent) :
           /\ active.attempt \in 1..Begun
           /\ Send(news)
           /\ \A k \in 1..Len(news) : /\ news[k].n = Len(built) + k /\ news[k].attempt = active.attempt
                                      /\ <<news[k].team, news[k].rung>> \in active'.fired \ active.fired
           /\ \A k, l \in 1..Len(news) : news[k].rung = news[l].rung => k = l
           /\ active'.win => active.win \/ \E k \in 1..Len(news) : news[k].rung = "iron_pickaxe"
           /\ active'.attempt = active.attempt /\ active.fired \subseteq active'.fired
           /\ active' \in [attempt : Nat, fired : SUBSET (Team \X Rung), win : BOOLEAN]
<1> DEFINE team  == TeamOf[o.villager]
           fresh == {k \in Milestones(o) : <<team, Ladder[k]>> \notin active.fired}
           rungs == {Ladder[k] : k \in fresh}
<1>1. /\ active # NoAttempt /\ team \in Team
      /\ active' = [active EXCEPT !.fired = @ \union {<<team, rung>> : rung \in rungs},
                                  !.win = @ \/ "iron_pickaxe" \in rungs]
  BY AttemptAssumption DEF Observe
<1>2. PICK climb \in Climb(fresh) :
        Send([k \in DOMAIN climb |-> MilestoneOf(active.attempt, team, Ladder[climb[k]], k)])
  BY DEF Observe
<1>3. /\ active \in [attempt : Nat, fired : SUBSET (Team \X Rung), win : BOOLEAN]
      /\ active.attempt \in 1..Begun
  <2>1. Begun \in Nat /\ active.attempt \in 0..Begun
    BY BegunAreAttempts DEF Base, Known
  <2> QED
    BY <1>1, <2>1 DEF Base, Typed
<1>4. /\ fresh \subseteq 1..5 /\ IsFiniteSet(fresh) /\ Cardinality(fresh) \in Nat
      /\ \A k \in 1..5 : Ladder[k] \in Rung
      /\ \A k, l \in 1..5 : Ladder[k] = Ladder[l] => k = l
  <2>1. fresh \subseteq 1..5
    BY DEF Milestones, Ladder
  <2>2. IsFiniteSet(1..5)
    <3>1. 1 \in Int /\ 5 \in Int
      OBVIOUS
    <3> QED
      BY <3>1, FS_Interval
  <2>3. \A k \in 1..5 : Ladder[k] \in Rung
    BY DEF Rung, Ladder, Range
  <2>4. \A k, l \in 1..5 : Ladder[k] = Ladder[l] => k = l
    BY DEF Ladder
  <2> HIDE DEF fresh
  <2> QED
    BY <2>1, <2>2, <2>3, <2>4, FS_Subset, FS_CardinalityType
<1> HIDE DEF fresh
<1> DEFINE size == Cardinality(fresh)
<1>5. /\ climb \in [1..size -> fresh] /\ DOMAIN climb = 1..size /\ size \in Nat
      /\ \A i, j \in 1..size : i < j => climb[i] < climb[j]
  BY <1>2, <1>4 DEF Climb
<1> HIDE DEF size
<1>6. climb \in Injection(1..size, fresh)
  <2>1. \A i, j \in 1..size : climb[i] = climb[j] => i = j
    <3> SUFFICES ASSUME NEW i \in 1..size, NEW j \in 1..size, climb[i] = climb[j], i # j PROVE FALSE
      OBVIOUS
    <3>1. climb[i] \in Nat /\ climb[j] \in Nat
      <4>1. climb[i] \in fresh /\ climb[j] \in fresh
        BY <1>5
      <4>2. fresh \subseteq Nat
        BY <1>4
      <4> QED
        BY <4>1, <4>2
    <3>2. i < j \/ j < i
      BY <1>5
    <3> QED
      BY <1>5, <3>1, <3>2
  <2> QED
    BY <1>5, <2>1 DEF Injection, IsInjective
<1>7. \A k \in fresh : \E i \in 1..size : climb[i] = k
  <2>1. Cardinality(1..size) = size
    BY <1>5, FS_Interval
  <2>2. climb \in Surjection(1..size, fresh)
    BY <1>4, <1>6, <2>1, FS_Injection DEF size
  <2> QED
    BY <2>2 DEF Surjection
<1> DEFINE news == [k \in 1..size |-> MilestoneOf(active.attempt, team, Ladder[climb[k]], k)]
<1>8. \A k \in 1..size : /\ climb[k] \in fresh /\ climb[k] \in 1..5 /\ Ladder[climb[k]] \in Rung
                         /\ Ladder[climb[k]] \in rungs
                         /\ <<team, Ladder[climb[k]]>> \notin active.fired
  BY <1>4, <1>5 DEF fresh
<1>9. Len(built) \in Nat
  BY BuiltByNumber DEF Base
<1>10. ASSUME NEW k \in 1..size
       PROVE  /\ MilestoneOf(active.attempt, team, Ladder[climb[k]], k) \in MilestoneEvent
              /\ MilestoneOf(active.attempt, team, Ladder[climb[k]], k).n = Len(built) + k
  <2>1. Len(built) + 1 + k - 1 = Len(built) + k /\ Len(built) + k \in Nat
    BY <1>5, <1>9
  <2> QED
    BY <1>1, <1>3, <1>8, <2>1 DEF MilestoneOf, NextPlace, MilestoneEvent
<1>11. /\ news \in Seq(MilestoneEvent) /\ Len(news) = size
       /\ \A k \in 1..size : /\ news[k].n = Len(built) + k /\ news[k].attempt = active.attempt
                             /\ news[k].team = team /\ news[k].rung = Ladder[climb[k]]
  BY <1>5, <1>10 DEF MilestoneOf
<1>12. Send(news)
  BY <1>2, <1>5
<1> HIDE DEF news
<1>13. ASSUME NEW k \in 1..size, NEW l \in 1..size, news[k].rung = news[l].rung
       PROVE  k = l
  <2>1. climb[k] = climb[l]
    <3>1. climb[k] \in 1..5 /\ climb[l] \in 1..5
      BY <1>8
    <3>2. Ladder[climb[k]] = Ladder[climb[l]]
      BY <1>11, <1>13
    <3> HIDE DEF Ladder
    <3> QED
      BY <1>4, <3>1, <3>2
  <2>2. \A i, j \in 1..size : climb[i] = climb[j] => i = j
    BY <1>5, <1>6 DEF Injection, IsInjective
  <2> QED
    BY <2>1, <2>2
<1>14. /\ active' \in [attempt : Nat, fired : SUBSET (Team \X Rung), win : BOOLEAN]
       /\ active'.attempt = active.attempt /\ active.fired \subseteq active'.fired
       /\ \A rung \in rungs : <<team, rung>> \in active'.fired
       /\ active'.win <=> (active.win \/ "iron_pickaxe" \in rungs)
  <2>1. rungs \subseteq Rung
    BY <1>4
  <2> HIDE DEF rungs, team
  <2>2. {<<team, rung>> : rung \in rungs} \subseteq Team \X Rung
    BY <1>1, <2>1
  <2> QED
    BY <1>1, <1>3, <2>2
<1>15. "iron_pickaxe" \in rungs => \E k \in 1..size : news[k].rung = "iron_pickaxe"
  BY <1>7, <1>11
<1> QED
  BY <1>3, <1>8, <1>11, <1>12, <1>13, <1>14, <1>15

(* One event more, in flight.                                                *)
Added(e) ==
  /\ Numbered' /\ Lines'
  /\ e \in Event /\ e.n = Len(built) + 1 /\ PartitionOf[e.attempt] \in Partition
  /\ Built' = Built \union {e} /\ e \notin Built /\ flight' = flight \union {e}
  /\ Len(built') = Len(built) + 1
  /\ \A i \in 1..Len(built) : built'[i] = built[i]
  /\ \A p \in Partition : TopicOf(p)' = TopicOf(p)
  /\ UNCHANGED topic

LEMMA LeastToClose ==
  ASSUME Base, ToClose # {}
  PROVE  Min(ToClose) \in ToClose /\ \A a \in ToClose : Min(ToClose) <= a
<1>1. ToClose \subseteq Nat
  BY DEF Base, Typed, SweepType, ToClose
<1>2. \E m \in ToClose : \A a \in ToClose : m <= a
  BY <1>1, LeastNumber
<1> QED
  BY <1>2 DEF Min

LEMMA CloseSends ==
  ASSUME Base, SweepCloses
  PROVE  \E e \in EndEvent :
           /\ Added(e) /\ e.attempt \in ToClose /\ e.outcome = "aborted" /\ e.by = life
           /\ \A a \in ToClose : e.attempt <= a
           /\ sweep' = [sweep EXCEPT !.open = @ \ (0..e.attempt), !.stage = "sending", !.cursor = Len(built) + 1]
<1> DEFINE e == EndOf(Min(ToClose), "aborted")
<1>1. /\ sweep.stage = "closing" /\ ToClose # {}
      /\ Send(<<e>>)
      /\ sweep' = [sweep EXCEPT !.open = @ \ (0..Min(ToClose)), !.stage = "sending", !.cursor = Len(built) + 1]
      /\ topic' = topic /\ retried' = retried
  BY DEF SweepCloses, NextPlace, ledgerVars
<1>2. Min(ToClose) \in ToClose /\ \A a \in ToClose : Min(ToClose) <= a
  BY <1>1, LeastToClose
<1>3. Min(ToClose) \in 1..Begun /\ Begun \in Nat /\ PartitionOf[Min(ToClose)] \in Partition
  BY <1>2, BegunAreAttempts DEF Base, Known, ToClose
<1>4. /\ e \in EndEvent /\ e.n = Len(built) + 1 /\ e.attempt = Min(ToClose)
      /\ e.outcome = "aborted" /\ e.by = life
  BY <1>3, BuiltByNumber DEF Base, Typed, EndOf, EndEvent, NextPlace
<1> HIDE DEF e
<1>5. PICK x \in EndEvent : x = e
  BY <1>4
<1>6. Added(x)
  <2>1. x \in Event /\ x.n = Len(built) + 1 /\ PartitionOf[x.attempt] \in Partition /\ Send(<<x>>)
    BY <1>1, <1>3, <1>4, <1>5 DEF Event
  <2> QED
    BY <1>1, <2>1, OneSend DEF Base, Added
<1> QED
  BY <1>1, <1>2, <1>4, <1>5, <1>6

LEMMA EndSends ==
  ASSUME Base, NEW outcome \in Outcomes, Ends(outcome)
  PROVE  \E e \in EndEvent :
           /\ Added(e) /\ e.attempt = active.attempt /\ e.outcome = outcome /\ e.by = life
           /\ active.attempt \in 1..Begun
           /\ outcome = "won" => active.win
           /\ active' = NoAttempt /\ closed' = closed \union {active.attempt}
<1> DEFINE e == EndOf(active.attempt, outcome)
<1>1. /\ active # NoAttempt /\ (outcome = "won" => active.win)
      /\ active' = NoAttempt /\ closed' = closed \union {active.attempt}
      /\ Send(<<e>>) /\ topic' = topic /\ retried' = retried
  BY DEF Ends, MayEnd, Ended
<1>2. active.attempt \in 1..Begun /\ Begun \in Nat /\ PartitionOf[active.attempt] \in Partition
  <2>1. active.attempt # 0 /\ active.attempt \in 0..Begun /\ Begun \in Nat
    BY <1>1, BegunAreAttempts DEF Base, Typed, Known
  <2>2. active.attempt \in 1..Begun
    BY <2>1
  <2> QED
    BY <2>1, <2>2, BegunAreAttempts
<1>3. /\ e \in EndEvent /\ e.n = Len(built) + 1 /\ e.attempt = active.attempt
      /\ e.outcome = outcome /\ e.by = life
  BY <1>2, BuiltByNumber DEF Base, Typed, EndOf, EndEvent, NextPlace, Outcomes
<1> HIDE DEF e
<1>4. PICK x \in EndEvent : x = e
  BY <1>3
<1>5. Added(x)
  <2>1. x \in Event /\ x.n = Len(built) + 1 /\ PartitionOf[x.attempt] \in Partition /\ Send(<<x>>)
    BY <1>1, <1>2, <1>3, <1>4 DEF Event
  <2> QED
    BY <1>1, <2>1, OneSend DEF Base, Added
<1> QED
  BY <1>1, <1>2, <1>3, <1>4, <1>5

LEMMA StartSends ==
  ASSUME Base, StartsNew
  PROVE  \E e \in StartEvent :
           /\ Added(e) /\ e.attempt = Begun + 1 /\ e.known = sweep.known
           /\ Begun + 1 \in Attempt
           /\ active' = [attempt |-> Begun + 1, fired |-> {}, win |-> FALSE]
<1> DEFINE e == StartOf(Begun + 1, sweep.known)
<1>1. /\ active' = [NoAttempt EXCEPT !.attempt = Begun + 1] /\ Send(<<e>>)
      /\ topic' = topic /\ retried' = retried
  BY DEF StartsNew, Started, Begun, Starts, Built
<1>2. sweep.who \in Due
  BY DEF StartsNew, Base, Queued, Due
<1>3. Begun + 1 \in Attempt /\ Begun \in Nat /\ PartitionOf[Begun + 1] \in Partition
  BY <1>2, BegunAreAttempts
<1>4. /\ e \in StartEvent /\ e.n = Len(built) + 1 /\ e.attempt = Begun + 1 /\ e.known = sweep.known
  BY <1>3, BuiltByNumber DEF Base, Typed, SweepType, StartOf, StartEvent, NextPlace
<1> HIDE DEF e
<1>5. PICK x \in StartEvent : x = e
  BY <1>4
<1>6. Added(x)
  <2>1. x \in Event /\ x.n = Len(built) + 1 /\ PartitionOf[x.attempt] \in Partition /\ Send(<<x>>)
    BY <1>1, <1>3, <1>4, <1>5 DEF Event
  <2> QED
    BY <1>1, <2>1, OneSend DEF Base, Added
<1> QED
  BY <1>1, <1>3, <1>4, <1>5, <1>6 DEF NoAttempt

LEMMA Frame ==
  ASSUME Numbered, Lines, UNCHANGED <<topic, flight, retried, built>>
  PROVE  /\ Numbered' /\ Lines' /\ Built' = Built
         /\ \A p \in Partition : TopicOf(p)' = TopicOf(p)
<1>1. Numbered' /\ Built' = Built
  BY DEF Numbered, Built
<1>2. \A p \in Partition : TopicOf(p)' = TopicOf(p)
  BY DEF TopicOf
<1>3. Lines'
  BY <1>1, <1>2 DEF Lines
<1> QED
  BY <1>1, <1>2, <1>3

(* Every send in flight is about an attempt that was started.                *)
LEMMA InFlight ==
  ASSUME Base, NEW e \in flight
  PROVE  /\ e \in Built /\ e \in Event /\ e # Poison
         /\ e.attempt \in 1..Begun /\ PartitionOf[e.attempt] \in Partition
<1>1. e \in Built
  BY DEF Base, Lines
<1>2. e \in Event /\ e # Poison
  BY <1>1, BuiltByNumber, EventKinds DEF Base
<1>3. e.attempt \in 1..Begun
  BY <1>1 DEF Base, Known
<1> QED
  BY <1>1, <1>2, <1>3, BegunAreAttempts

LEMMA TakenIsOnTopic ==
  ASSUME Base, NEW e \in flight, e \in TopicOf(PartitionOf[e.attempt])'
  PROVE  e \in OnTopic'
<1>1. PICK p \in Partition : p = PartitionOf[e.attempt]
  BY InFlight
<1> QED
  BY <1>1, InFlight DEF OnTopic, TopicOf

(* A send arrives, or not.                                                   *)
LEMMA AnswerLines ==
  ASSUME Base, NEW e \in flight, Arrives(e) \/ UNCHANGED topic, UNCHANGED built,
         flight' \subseteq flight, retried' \subseteq flight'
  PROVE  /\ Numbered' /\ Lines' /\ Built' = Built
         /\ \A q \in Partition : TopicOf(q) \subseteq TopicOf(q)' /\ TopicOf(q)' \subseteq TopicOf(q) \union {e}
         /\ Arrives(e) => e \in TopicOf(PartitionOf[e.attempt])'
<1>1. Numbered' /\ Built' = Built
  BY DEF Base, Numbered, Built
<1>2. /\ e \in Built /\ e \in Event /\ PartitionOf[e.attempt] \in Partition
      /\ topic \in [Partition -> Seq(Event)]
  BY InFlight DEF Base, Lines
<1>3. /\ topic' \in [Partition -> Seq(Event)]
      /\ \A q \in Partition : \/ TopicOf(q)' = TopicOf(q)
                              \/ q = PartitionOf[e.attempt] /\ TopicOf(q)' = TopicOf(q) \union {e}
      /\ Arrives(e) => e \in TopicOf(PartitionOf[e.attempt])'
  <2>1. CASE Arrives(e)
    <3>1. /\ topic' \in [Partition -> Seq(Event)]
          /\ \A q \in Partition :
               TopicOf(q)' = IF q = PartitionOf[e.attempt] THEN TopicOf(q) \union {e} ELSE TopicOf(q)
      BY <1>2, <2>1, ArrivalLines
    <3>2. PICK p \in Partition : p = PartitionOf[e.attempt]
      BY <1>2
    <3>3. TopicOf(p)' = TopicOf(p) \union {e}
      BY <3>1, <3>2
    <3> QED
      BY <3>1, <3>2, <3>3 DEF TopicOf
  <2>2. CASE UNCHANGED topic /\ ~Arrives(e)
    BY <1>2, <2>2 DEF TopicOf
  <2> QED
    BY <2>1, <2>2
<1>4. Lines'
  BY <1>1, <1>2, <1>3 DEF Base, Lines
<1> QED
  BY <1>1, <1>3, <1>4

(* What becomes of the process when the broker takes a send, when a send     *)
(* fails, and when the awaited one is given up.                              *)
LEMMA DeliverMoves ==
  ASSUME Base, NEW e \in flight, Delivered(e)
  PROVE  /\ Numbered' /\ Lines' /\ Built' = Built
         /\ \A q \in Partition : TopicOf(q) \subseteq TopicOf(q)' /\ TopicOf(q)' \subseteq TopicOf(q) \union {e}
         /\ e \in TopicOf(PartitionOf[e.attempt])'
         /\ \/ /\ Awaited(e)
               /\ closed' = closed \union {e.attempt}
               /\ sweep' = [sweep EXCEPT !.stage = "closing"]
            \/ UNCHANGED <<closed, sweep>>
         /\ flight' = flight \ {e}
         /\ UNCHANGED <<stored, built, active, life, refused>>
<1>1. /\ Arrives(e) /\ flight' = flight \ {e} /\ retried' = retried \ {e}
      /\ UNCHANGED <<stored, built, active, life, refused>>
  BY DEF Delivered, Settled, ingestVars
<1>2. \/ /\ Awaited(e)
         /\ closed' = closed \union {e.attempt}
         /\ sweep' = [sweep EXCEPT !.stage = "closing"]
      \/ UNCHANGED <<closed, sweep>>
  BY DEF Delivered
<1>3. flight' \subseteq flight /\ retried' \subseteq flight'
  BY <1>1 DEF Base, Lines
<1> QED
  BY <1>1, <1>2, <1>3, AnswerLines

LEMMA FailsMoves ==
  ASSUME Base, NEW e \in flight, Fails(e)
  PROVE  /\ Numbered' /\ Lines' /\ Built' = Built
         /\ \A q \in Partition : TopicOf(q) \subseteq TopicOf(q)' /\ TopicOf(q)' \subseteq TopicOf(q) \union {e}
         /\ UNCHANGED <<stored, built, active, closed, sweep, flight, life, refused>>
<1>1. /\ Arrives(e) \/ UNCHANGED topic
      /\ retried' = retried \union {e}
      /\ UNCHANGED <<stored, built, active, closed, sweep, flight, life, refused>>
  BY DEF Fails, ingestVars, trackerVars, sweepVars
<1>2. flight' \subseteq flight /\ retried' \subseteq flight'
  BY <1>1 DEF Base, Lines
<1> QED
  BY <1>1, <1>2, AnswerLines

LEMMA GivesUpMoves ==
  ASSUME Base, NEW e \in flight, GivesUp(e)
  PROVE  /\ Numbered' /\ Lines' /\ Built' = Built
         /\ sweep.stage = "sending" /\ e = built[sweep.cursor] /\ sweep' = Idle
         /\ \A q \in Partition : TopicOf(q)' = TopicOf(q)
         /\ flight' = flight \ {e} /\ refused' = refused \union {e}
         /\ UNCHANGED <<topic, stored, built, active, closed, life>>
<1>1. /\ flight' = flight \ {e} /\ retried' = retried \ {e}
      /\ sweep.stage = "sending" /\ e = built[sweep.cursor]
      /\ sweep' = Idle /\ refused' = refused \union {e}
      /\ UNCHANGED <<topic, stored, built, active, closed, life>>
  BY DEF GivesUp, Settled, Awaited, SweepFails, ledgerVars, trackerVars
<1>2. flight' \subseteq flight /\ retried' \subseteq flight'
  BY <1>1 DEF Base, Lines
<1>3. \A q \in Partition : TopicOf(q)' = TopicOf(q)
  BY <1>1 DEF TopicOf
<1> QED
  BY <1>1, <1>2, <1>3, AnswerLines

(* A page is the head of what matches: nothing between two of its rows is    *)
(* left out, and the last page leaves nothing.                               *)
(* Some numbered rows: one is the last, and a page of them, the first ones.  *)
LEMMA LastRow ==
  ASSUME NEW M, IsFiniteSet(M), M # {}, \A e \in M : e.n \in Nat
  PROVE  \E e \in M : \A d \in M : d.n <= e.n
<1> DEFINE Below(e) == {d \in M : d.n < e.n}
           S == {Cardinality(Below(e)) : e \in M}
<1>1. Cardinality(M) \in Nat
  BY FS_CardinalityType
<1>2. ASSUME NEW e \in M
      PROVE  IsFiniteSet(Below(e)) /\ Cardinality(Below(e)) \in Nat /\ Cardinality(Below(e)) <= Cardinality(M)
  <2>1. Below(e) \in SUBSET M
    OBVIOUS
  <2> HIDE DEF Below
  <2> QED
    BY <2>1, FS_Subset, FS_CardinalityType
<1>3. PICK k \in S : \A i \in S : i <= k
  <2>1. S \in SUBSET Nat /\ S # {} /\ \A i \in S : i <= Cardinality(M)
    BY <1>2
  <2> HIDE DEF S
  <2> QED
    BY <1>1, <2>1, GreatestNumber
<1>4. PICK e \in M : k = Cardinality(Below(e))
  OBVIOUS
<1>5. ASSUME NEW d \in M PROVE d.n <= e.n
  <2> SUFFICES ASSUME e.n < d.n PROVE FALSE
    OBVIOUS
  <2>1. Below(e) \union {e} \in SUBSET Below(d)
    OBVIOUS
  <2>2. e \notin Below(e)
    OBVIOUS
  <2>3. Cardinality(Below(d)) \in S
    OBVIOUS
  <2> HIDE DEF Below, S
  <2>4. IsFiniteSet(Below(e) \union {e}) /\ Cardinality(Below(e) \union {e}) = Cardinality(Below(e)) + 1
    BY <1>2, <2>2, FS_AddElement
  <2>5. Cardinality(Below(e)) + 1 <= Cardinality(Below(d))
    BY <1>2, <2>1, <2>4, FS_Subset
  <2>6. Cardinality(Below(d)) <= Cardinality(Below(e))
    BY <1>3, <1>4, <2>3
  <2> QED
    BY <1>2, <2>5, <2>6
<1> QED
  BY <1>5

LEMMA CursorFacts ==
  ASSUME NEW P, IsFiniteSet(P), \A e \in P : e.n \in Nat, NEW cursor \in Nat
  PROVE  /\ CursorOf(P, cursor) \in Nat /\ cursor <= CursorOf(P, cursor)
         /\ \A e \in P : e.n <= CursorOf(P, cursor)
         /\ CursorOf(P, cursor) = cursor \/ \E e \in P : e.n = CursorOf(P, cursor)
<1>1. PICK c : c = CursorOf(P, cursor)
  OBVIOUS
<1>2. c \in {cursor} \union {e.n : e \in P} /\ \A n \in {cursor} \union {e.n : e \in P} : n <= c
  <2> DEFINE S == {cursor} \union {e.n : e \in P}
  <2>1. S \subseteq Nat
    OBVIOUS
  <2>2. PICK b \in Nat : cursor <= b /\ \A e \in P : e.n <= b
    <3>1. CASE P = {}
      BY <3>1
    <3>2. CASE P # {}
      <4>1. PICK e \in P : \A d \in P : d.n <= e.n
        BY <3>2, LastRow
      <4>2. PICK m \in Nat : m = e.n
        OBVIOUS
      <4>3. \A d \in P : d.n \in Nat /\ d.n <= m
        BY <4>1, <4>2
      <4>4. cursor <= cursor + m /\ \A d \in P : d.n <= cursor + m
        BY <4>3
      <4> QED
        BY <4>4
    <3> QED
      BY <3>1, <3>2
  <2>3. \A n \in S : n <= b
    BY <2>2
  <2>4. \E m \in S : \A n \in S : n <= m
    <3>1. S # {}
      OBVIOUS
    <3> HIDE DEF S
    <3> QED
      BY <2>1, <2>2, <2>3, <3>1, GreatestNumber
  <2>5. c = Max(S)
    BY <1>1 DEF CursorOf
  <2> HIDE DEF S
  <2>6. \E m \in S : \A n \in S : m >= n
    BY <2>1, <2>4
  <2>7. c \in S /\ \A n \in S : c >= n
    BY <2>5, <2>6 DEF Max
  <2>8. \A n \in S : n <= c
    BY <2>1, <2>7
  <2> QED
    BY <2>7, <2>8 DEF S
<1> QED
  BY <1>1, <1>2

LEMMA FirstRows ==
  ASSUME NEW M, IsFiniteSet(M), \A e \in M : e.n \in Nat, NEW cursor \in Nat,
         NEW P, P = {e \in M : Cardinality({d \in M : d.n < e.n}) < PageLimit}
  PROVE  /\ P \subseteq M /\ IsFiniteSet(P)
         /\ \A d \in M, e \in P : d.n <= e.n => d \in P
         /\ ~(Cardinality(M) > PageLimit) => P = M
         /\ CursorOf(P, cursor) \in Nat
         /\ cursor <= CursorOf(P, cursor)
         /\ \A e \in P : e.n <= CursorOf(P, cursor)
         /\ CursorOf(P, cursor) = cursor \/ \E e \in P : e.n = CursorOf(P, cursor)
<1> DEFINE Below(e) == {d \in M : d.n < e.n}
<1>1. Cardinality(M) \in Nat /\ PageLimit \in Nat
  BY FS_CardinalityType, LedgerAssumption
<1>2. P = {e \in M : Cardinality(Below(e)) < PageLimit}
  OBVIOUS
<1>3. P \subseteq M /\ IsFiniteSet(P)
  BY <1>2, FS_Subset
<1>4. ASSUME NEW e \in M
      PROVE  /\ IsFiniteSet(Below(e)) /\ Cardinality(Below(e)) \in Nat
             /\ Cardinality(Below(e)) < Cardinality(M)
  <2>1. Below(e) \subseteq M \ {e}
    OBVIOUS
  <2>2. IsFiniteSet(M \ {e}) /\ Cardinality(M \ {e}) = Cardinality(M) - 1
    BY <1>1, FS_RemoveElement
  <2>3. IsFiniteSet(Below(e)) /\ Cardinality(Below(e)) <= Cardinality(M \ {e})
    BY <2>1, <2>2, FS_Subset
  <2>4. Cardinality(Below(e)) \in Nat
    BY <2>3, FS_CardinalityType
  <2> QED
    BY <1>1, <2>2, <2>3, <2>4
<1>5. ASSUME NEW d \in M, NEW e \in P, d.n <= e.n
      PROVE  d \in P
  <2>1. e \in M /\ Cardinality(Below(e)) < PageLimit
    BY <1>2
  <2>2. Below(d) \subseteq Below(e)
    BY <1>5, <2>1
  <2>3. Cardinality(Below(d)) <= Cardinality(Below(e))
    BY <1>4, <2>1, <2>2, FS_Subset
  <2>4. Cardinality(Below(d)) \in Nat /\ Cardinality(Below(e)) \in Nat
    BY <1>4, <2>1
  <2>5. Cardinality(Below(d)) < PageLimit
    BY <1>1, <2>1, <2>3, <2>4
  <2> QED
    BY <1>2, <2>5
<1>6. ~(Cardinality(M) > PageLimit) => P = M
  <2> SUFFICES ASSUME ~(Cardinality(M) > PageLimit), NEW e \in M PROVE e \in P
    BY <1>3
  <2>1. Cardinality(Below(e)) < Cardinality(M) /\ Cardinality(Below(e)) \in Nat
    BY <1>4
  <2>2. Cardinality(Below(e)) < PageLimit
    BY <1>1, <2>1
  <2> QED
    BY <1>2, <2>2
<1>7. /\ CursorOf(P, cursor) \in Nat /\ cursor <= CursorOf(P, cursor)
      /\ \A e \in P : e.n <= CursorOf(P, cursor)
      /\ CursorOf(P, cursor) = cursor \/ \E e \in P : e.n = CursorOf(P, cursor)
  BY <1>3, CursorFacts
<1> QED
  BY <1>3, <1>5, <1>6, <1>7

LEMMA PageFacts ==
  ASSUME Base, NEW types, NEW cursor \in Nat
  PROVE  /\ Page(types, cursor) \subseteq Matching(types, cursor)
         /\ \A d \in Matching(types, cursor), e \in Page(types, cursor) :
              d.n <= e.n => d \in Page(types, cursor)
         /\ ~HasNextPage(types, cursor) => Page(types, cursor) = Matching(types, cursor)
         /\ CursorOf(Page(types, cursor), cursor) \in Nat
         /\ cursor <= CursorOf(Page(types, cursor), cursor)
         /\ \A e \in Page(types, cursor) : e.n <= CursorOf(Page(types, cursor), cursor)
         /\ \/ CursorOf(Page(types, cursor), cursor) = cursor
            \/ \E e \in Page(types, cursor) : e.n = CursorOf(Page(types, cursor), cursor)
<1>1. PICK M, P : M = Matching(types, cursor) /\ P = Page(types, cursor)
  OBVIOUS
<1>2. IsFiniteSet(M) /\ \A e \in M : e.n \in Nat
  <2>1. M \subseteq Built
    BY <1>1 DEF Base, Rows, Lines, Matching
  <2> QED
    BY <2>1, FiniteBuilt, BuiltByNumber, FS_Subset DEF Base
<1>3. P = {e \in M : Cardinality({d \in M : d.n < e.n}) < PageLimit}
  BY <1>1 DEF Page
<1>4. HasNextPage(types, cursor) <=> Cardinality(M) > PageLimit
  BY <1>1 DEF HasNextPage
<1>5. /\ P \subseteq M
      /\ \A d \in M, e \in P : d.n <= e.n => d \in P
      /\ ~(Cardinality(M) > PageLimit) => P = M
      /\ CursorOf(P, cursor) \in Nat /\ cursor <= CursorOf(P, cursor)
      /\ \A e \in P : e.n <= CursorOf(P, cursor)
      /\ CursorOf(P, cursor) = cursor \/ \E e \in P : e.n = CursorOf(P, cursor)
  BY <1>2, <1>3, FirstRows
<1> QED
  BY <1>1, <1>4, <1>5

-----------------------------------------------------------------------------
(* The base is kept: no event gets lost between building and sending, and    *)
(* every attempt anybody speaks of was started.                              *)

SweepTyped ==
  /\ sweep \in SweepType
  /\ sweep.stage = "idle" => sweep = Idle
  /\ sweep.stage # "idle" => sweep.who \in Harness \union {"boot"}

ActiveTyped ==
  /\ active \in [attempt : Nat, fired : SUBSET (Team \X Rung), win : BOOLEAN]
  /\ active.attempt = 0 => active = NoAttempt

LEMMA RestTyped ==
  /\ Idle \in SweepType /\ Idle.stage = "idle" /\ Idle.open = {}
  /\ NoAttempt \in [attempt : Nat, fired : SUBSET (Team \X Rung), win : BOOLEAN] /\ NoAttempt.attempt = 0
BY DEF Idle, SweepType, NoAttempt

(* What the rows say, read by attempt.                                       *)
LEMMA RowsAreKnown ==
  ASSUME Base, NEW events \in SUBSET stored, NEW type
  PROVE  AttemptsIn(events, type) \subseteq 1..Begun
<1>1. \A e \in stored : e \in Built
  BY DEF Base, Rows, Lines
<1> QED
  BY <1>1 DEF Base, Known, AttemptsIn, OfType

(* Starts, and with them the attempts anybody may speak of, only grow.       *)
Kept ==
  /\ Numbered' /\ Lines' /\ Rows' /\ Known' /\ ActiveTyped' /\ SweepTyped'
  /\ closed' \subseteq Nat /\ life' \in Nat
  /\ Begun' \in Nat
  /\ Begun' <= Begun \/ (StartsNew /\ Begun' = Begun + 1)

LEMMA SameStarts ==
  ASSUME Base, NEW news, Built' = Built \union news, \A e \in news : ~IsStart(e)
  PROVE  Starts' = Starts /\ Begun' = Begun
<1>1. Starts' = Starts
  BY DEF Starts, OfType, IsStart
<1> QED
  BY <1>1 DEF Begun

LEMMA RowsStay ==
  ASSUME Base, stored' = stored, \A p \in Partition : TopicOf(p) \subseteq TopicOf(p)'
  PROVE  Rows'
BY DEF Base, Rows

LEMMA KeptBySends ==
  ASSUME Base,
         \/ \E o \in Outcome : Observe(o)
         \/ SweepCloses
         \/ StartsNew
         \/ \E outcome \in Outcomes : Ends(outcome)
  PROVE  Kept
<1>1. ASSUME NEW o \in Outcome, Observe(o)
      PROVE  Kept
  <2>1. PICK news \in Seq(MilestoneEvent) :
           /\ active.attempt \in 1..Begun
           /\ Send(news)
           /\ \A k \in 1..Len(news) : news[k].n = Len(built) + k /\ news[k].attempt = active.attempt
           /\ active'.attempt = active.attempt
           /\ active' \in [attempt : Nat, fired : SUBSET (Team \X Rung), win : BOOLEAN]
    BY <1>1, ObserveSends
  <2>2. UNCHANGED <<topic, retried, stored, closed, sweep, life>>
    BY <1>1 DEF Observe, ledgerVars, sweepVars
  <2>3. news \in Seq(Event) /\ \A e \in Range(news) : e \in MilestoneEvent
    <3>1. MilestoneEvent \subseteq Event
      BY DEF Event
    <3> HIDE DEF MilestoneEvent
    <3> QED
      BY <3>1, InRange
  <2>4. \A e \in Range(news) : e.attempt = active.attempt
    BY <2>1, InRange
  <2>6. /\ Numbered' /\ Lines' /\ Built' = Built \union Range(news)
        /\ \A e \in Range(news) : e \in Event /\ e.n > Len(built)
        /\ \A p \in Partition : TopicOf(p)' = TopicOf(p)
    BY <2>1, <2>2, <2>3, SendLines DEF Base
  <2>7. Begun' = Begun /\ Begun \in Nat
    <3>1. \A e \in Range(news) : ~IsStart(e)
      BY <2>3, <2>6, EventKinds DEF MilestoneEvent, IsStart
    <3> QED
      BY <2>6, <3>1, SameStarts, BegunAreAttempts
  <2>8. Known'
    BY <2>1, <2>2, <2>4, <2>6, <2>7 DEF Base, Known
  <2>9. ActiveTyped'
    BY <2>1 DEF ActiveTyped
  <2>10. SweepTyped' /\ closed' \subseteq Nat /\ life' \in Nat
    BY <2>2 DEF Base, Typed, SweepTyped
  <2>11. Rows'
    BY <2>2, <2>6, RowsStay
  <2> QED
    BY <2>6, <2>7, <2>8, <2>9, <2>10, <2>11 DEF Kept
<1>2. CASE SweepCloses
  <2>1. PICK e \in EndEvent :
           /\ Added(e) /\ e.attempt \in ToClose
           /\ sweep' = [sweep EXCEPT !.open = @ \ (0..e.attempt), !.stage = "sending", !.cursor = Len(built) + 1]
    BY <1>2, CloseSends
  <2>2. UNCHANGED <<stored, active, closed, life>> /\ sweep.stage = "closing"
    BY <1>2 DEF SweepCloses, ledgerVars, trackerVars
  <2>3. Begun' = Begun /\ Begun \in Nat
    <3>1. PICK news : news = {e}
      OBVIOUS
    <3>2. Built' = Built \union news /\ \A x \in news : ~IsStart(x)
      BY <2>1, <3>1 DEF EndEvent, IsStart, Added
    <3> QED
      BY <3>2, SameStarts, BegunAreAttempts
  <2>4. Known'
    BY <2>1, <2>2, <2>3 DEF Base, Known, Added, ToClose, Typed, SweepType
  <2>5. SweepTyped'
    <3>1. sweep \in SweepType /\ sweep.who \in Harness \union {"boot"} /\ Len(built) + 1 \in Nat
      BY <2>2, BuiltByNumber DEF Base, Typed
    <3>2. sweep' \in SweepType /\ sweep'.stage = "sending" /\ sweep'.who = sweep.who
      BY <2>1, <3>1 DEF SweepType
    <3> QED
      BY <3>1, <3>2 DEF SweepTyped
  <2>6. Rows'
    BY <2>1, <2>2, RowsStay DEF Added
  <2> QED
    BY <2>1, <2>2, <2>3, <2>4, <2>5, <2>6 DEF Kept, Added, Base, Typed, ActiveTyped
<1>3. CASE StartsNew
  <2>1. PICK e \in StartEvent :
           /\ Added(e) /\ e.attempt = Begun + 1
           /\ active' = [attempt |-> Begun + 1, fired |-> {}, win |-> FALSE]
    BY <1>3, StartSends
  <2>2. UNCHANGED <<stored, closed, life>> /\ sweep' = Idle
    BY <1>3 DEF StartsNew
  <2>3. Begun' = Begun + 1 /\ Begun \in Nat
    <3>1. Starts' = Starts \union {e} /\ e \notin Starts
      BY <2>1 DEF Added, Starts, OfType, StartEvent
    <3>2. Cardinality(Starts \union {e}) = Cardinality(Starts) + 1
      BY <3>1, BegunAreAttempts, FS_AddElement
    <3> QED
      BY <3>1, <3>2, BegunAreAttempts DEF Begun
  <2>4. Known'
    <3>1. 1..Begun \subseteq 1..Begun' /\ Begun + 1 \in 1..Begun' /\ Begun + 1 \in 0..Begun'
      BY <2>3
    <3> QED
      BY <2>1, <2>2, <3>1, RestTyped DEF Base, Known, Added
  <2>5. ActiveTyped' /\ SweepTyped'
    BY <2>1, <2>2, <2>3, RestTyped DEF ActiveTyped, SweepTyped
  <2>6. Rows'
    BY <2>1, <2>2, RowsStay DEF Added
  <2> QED
    BY <1>3, <2>1, <2>2, <2>3, <2>4, <2>5, <2>6 DEF Kept, Added, Base, Typed
<1>4. ASSUME NEW outcome \in Outcomes, Ends(outcome)
      PROVE  Kept
  <2>1. PICK e \in EndEvent :
           /\ Added(e) /\ e.attempt = active.attempt /\ active.attempt \in 1..Begun
           /\ active' = NoAttempt /\ closed' = closed \union {active.attempt}
    BY <1>4, EndSends
  <2>2. UNCHANGED <<stored, sweep, life>>
    BY <1>4 DEF Ends, ingestVars, sweepVars
  <2>3. Begun' = Begun /\ Begun \in Nat
    <3>1. PICK news : news = {e}
      OBVIOUS
    <3>2. Built' = Built \union news /\ \A x \in news : ~IsStart(x)
      BY <2>1, <3>1 DEF EndEvent, IsStart, Added
    <3> QED
      BY <3>2, SameStarts, BegunAreAttempts
  <2>4. Known'
    <3>1. active'.attempt \in 0..Begun'
      BY <2>1, <2>3, RestTyped
    <3>3. closed' \subseteq 1..Begun' /\ sweep'.open \subseteq 1..Begun'
      BY <2>1, <2>2, <2>3 DEF Base, Known
    <3>2. \A x \in Built' : x.attempt \in 1..Begun'
      BY <2>1, <2>3 DEF Base, Known, Added
    <3> QED
      BY <3>1, <3>2, <3>3 DEF Known
  <2>5. ActiveTyped' /\ SweepTyped' /\ closed' \subseteq Nat /\ life' \in Nat
    BY <2>1, <2>2, <2>3, RestTyped DEF Base, Typed, ActiveTyped, SweepTyped
  <2>6. Rows'
    BY <2>1, <2>2, RowsStay DEF Added
  <2> QED
    BY <2>1, <2>3, <2>4, <2>5, <2>6 DEF Kept, Added
<1> QED
  BY <1>1, <1>2, <1>3, <1>4

LEMMA KeptBySweeps ==
  ASSUME Base, SweepBegins \/ SweepReads \/ Rests \/ Quiet
  PROVE  Kept
<1>1. UNCHANGED <<topic, flight, retried, built, stored, active, closed, life>>
  BY DEF SweepBegins, SweepReads, Rests, Quiet, ledgerVars, trackerVars
<1>2. /\ Numbered' /\ Lines' /\ Built' = Built
      /\ \A p \in Partition : TopicOf(p)' = TopicOf(p)
  BY <1>1, Frame DEF Base
<1>3. Begun' = Begun /\ Begun \in Nat
  BY <1>2, BegunAreAttempts DEF Begun, Starts
<1>4. Rows'
  BY <1>1, <1>2, RowsStay
<1>5. ActiveTyped' /\ closed' \subseteq Nat /\ life' \in Nat
  BY <1>1 DEF Base, Typed, ActiveTyped
<1>6. SweepTyped' /\ sweep'.open \subseteq 1..Begun
  <2>1. CASE SweepBegins
    <3>1. /\ sweep = Idle /\ chain # <<>>
          /\ sweep' = [Idle EXCEPT !.who = Head(chain), !.stage = "reading",
                                   !.ended = AttemptsIn(stored, "AttemptEnded"),
                                   !.known = AttemptsIn(stored, "AttemptStarted")]
      BY <2>1 DEF SweepBegins
    <3>2. Head(chain) \in Harness \union {"boot"}
      BY <3>1 DEF Base, Typed
    <3>3. AttemptsIn(stored, "AttemptEnded") \subseteq Nat /\ AttemptsIn(stored, "AttemptStarted") \subseteq Nat
      <4>1. 1..Begun \subseteq Nat
        BY <1>3
      <4> QED
        BY <4>1, RowsAreKnown
    <3>4. /\ sweep' \in SweepType /\ sweep'.stage = "reading" /\ sweep'.who = Head(chain)
          /\ sweep'.open = {}
      BY <3>1, <3>2, <3>3 DEF Idle, SweepType
    <3> QED
      BY <3>2, <3>4 DEF SweepTyped
  <2>2. CASE SweepReads
    <3> DEFINE page == Page(Lifecycle, sweep.cursor)
               open == (sweep.open \union AttemptsIn(page, "AttemptStarted")) \ AttemptsIn(page, "AttemptEnded")
    <3>0. /\ sweep.stage = "reading" /\ sweep \in SweepType /\ sweep.who \in Harness \union {"boot"}
          /\ \E stage \in {"reading", "closing"} :
               sweep' = [sweep EXCEPT !.open = open, !.pages = @ + 1, !.cursor = CursorOf(page, @), !.stage = stage]
      BY <2>2 DEF SweepReads, Base, Typed
    <3>1. PICK stage \in {"reading", "closing"} :
            sweep' = [sweep EXCEPT !.open = open, !.pages = @ + 1, !.cursor = CursorOf(page, @), !.stage = stage]
      BY <3>0
    <3>2. page \subseteq stored /\ CursorOf(page, sweep.cursor) \in Nat
      <4>1. sweep.cursor \in Nat
        BY <3>0 DEF SweepType
      <4> QED
        BY <4>1, PageFacts DEF Matching
    <3>3. AttemptsIn(page, "AttemptStarted") \subseteq 1..Begun
      BY <3>2, RowsAreKnown
    <3>4. open \subseteq 1..Begun
      BY <3>3 DEF Base, Known
    <3>5. open \subseteq Nat
      BY <1>3, <3>4
    <3> HIDE DEF page, open
    <3>6. sweep'.stage # "idle" /\ sweep'.who = sweep.who /\ sweep'.open = open
      BY <3>0, <3>1 DEF SweepType
    <3>7. PICK c \in Nat : c = CursorOf(page, sweep.cursor)
      BY <3>2
    <3>8. sweep' \in SweepType
      <4>1. sweep' = [sweep EXCEPT !.open = open, !.pages = @ + 1, !.cursor = c, !.stage = stage]
        BY <3>0, <3>1, <3>7 DEF SweepType
      <4>2. PICK read \in Nat : read = sweep.pages + 1
        BY <3>0 DEF SweepType
      <4>3. sweep' = [sweep EXCEPT !.open = open, !.pages = read, !.cursor = c, !.stage = stage]
        BY <3>0, <4>1, <4>2 DEF SweepType
      <4>4. c \in Nat /\ stage \in {"reading", "closing"} /\ open \in SUBSET Nat
        BY <3>1, <3>5, <3>7
      <4> QED
        BY <3>0, <4>2, <4>3, <4>4 DEF SweepType
    <3> QED
      BY <3>0, <3>4, <3>6, <3>8 DEF SweepTyped
  <2>3. CASE Rests
    BY <2>3, RestTyped DEF Rests, SweepTyped
  <2>4. CASE Quiet
    BY <2>4 DEF Quiet, Base, Typed, SweepTyped, Known
  <2> QED
    BY <2>1, <2>2, <2>3, <2>4
<1>7. Known'
  BY <1>1, <1>2, <1>3, <1>6 DEF Base, Known
<1> QED
  BY <1>2, <1>3, <1>4, <1>5, <1>6, <1>7 DEF Kept

LEMMA KeptByAnswers ==
  ASSUME Base, LedgerInv,
         \/ \E e \in flight : Delivered(e) \/ Fails(e) \/ GivesUp(e)
         \/ Crash
         \/ (\E p \in Partition : Catches(p)) /\ UNCHANGED attemptVars
  PROVE  Kept
<1>1. ASSUME NEW e \in flight, Delivered(e)
      PROVE  Kept
  <2>1. /\ Numbered' /\ Lines' /\ Built' = Built
        /\ \A q \in Partition : TopicOf(q) \subseteq TopicOf(q)'
        /\ \/ /\ Awaited(e)
              /\ closed' = closed \union {e.attempt}
              /\ sweep' = [sweep EXCEPT !.stage = "closing"]
           \/ UNCHANGED <<closed, sweep>>
        /\ UNCHANGED <<stored, built, active, life>>
    BY <1>1, DeliverMoves
  <2>2. Begun' = Begun /\ Begun \in Nat
    BY <2>1, BegunAreAttempts DEF Begun, Starts
  <2>3. Rows'
    BY <2>1, RowsStay
  <2>4. e.attempt \in 1..Begun
    BY InFlight
  <2>5. SweepTyped' /\ sweep'.open = sweep.open
    <3>1. CASE UNCHANGED sweep
      BY <3>1 DEF Base, Typed, SweepTyped
    <3>2. CASE Awaited(e) /\ sweep' = [sweep EXCEPT !.stage = "closing"]
      <4>1. sweep \in SweepType /\ sweep.who \in Harness \union {"boot"}
        BY <3>2 DEF Base, Typed, Awaited
      <4>2. sweep' \in SweepType /\ sweep'.stage = "closing" /\ sweep'.who = sweep.who /\ sweep'.open = sweep.open
        BY <3>2, <4>1 DEF SweepType
      <4> QED
        BY <4>1, <4>2 DEF SweepTyped
    <3> QED
      BY <2>1, <3>1, <3>2
  <2>6. closed' \subseteq 1..Begun
    BY <2>1, <2>4 DEF Base, Known
  <2>7. Known'
    BY <2>1, <2>2, <2>5, <2>6 DEF Base, Known
  <2>8. ActiveTyped' /\ closed' \subseteq Nat /\ life' \in Nat
    <3>1. 1..Begun \subseteq Nat
      BY <2>2
    <3> QED
      BY <2>1, <2>6, <3>1 DEF Base, Typed, ActiveTyped
  <2> QED
    BY <2>1, <2>2, <2>3, <2>5, <2>7, <2>8 DEF Kept
<1>2. ASSUME NEW e \in flight, GivesUp(e)
      PROVE  Kept
  <2>1. /\ Numbered' /\ Lines' /\ Built' = Built
        /\ \A q \in Partition : TopicOf(q) \subseteq TopicOf(q)'
        /\ sweep' = Idle
        /\ UNCHANGED <<stored, built, active, closed, life>>
    BY <1>2, GivesUpMoves
  <2>2. Begun' = Begun /\ Begun \in Nat
    BY <2>1, BegunAreAttempts DEF Begun, Starts
  <2>3. Rows'
    BY <2>1, RowsStay
  <2>4. Known'
    BY <2>1, <2>2, RestTyped DEF Base, Known
  <2> QED
    BY <2>1, <2>2, <2>3, <2>4, RestTyped DEF Kept, Base, Typed, ActiveTyped, SweepTyped
<1>3. CASE Crash
  <2>1. /\ active' = NoAttempt /\ closed' = {} /\ sweep' = Idle /\ life' = life + 1
        /\ flight' = {} /\ retried' = {} /\ UNCHANGED <<topic, stored, built>>
    BY <1>3 DEF Crash, ingestVars
  <2>3. Numbered' /\ Built' = Built /\ \A q \in Partition : TopicOf(q)' = TopicOf(q)
    BY <2>1 DEF Base, Numbered, Built, TopicOf
  <2>2. Lines'
    BY <2>1, <2>3 DEF Base, Lines
  <2>4. Begun' = Begun /\ Begun \in Nat
    BY <2>3, BegunAreAttempts DEF Begun, Starts
  <2>5. Rows'
    BY <2>1, <2>3, RowsStay
  <2>6. Known'
    BY <2>1, <2>3, <2>4, RestTyped DEF Base, Known
  <2> QED
    BY <2>1, <2>2, <2>3, <2>4, <2>5, <2>6, RestTyped DEF Kept, Base, Typed, ActiveTyped, SweepTyped
<1>4. ASSUME NEW p \in Partition, Catches(p), UNCHANGED attemptVars
      PROVE  Kept
  <2>1. /\ stored' = stored \union Batch(p) /\ acked[p] < Len(topic[p])
        /\ UNCHANGED <<topic, flight, retried, built, active, closed, sweep, life>>
    BY <1>4 DEF Catches, attemptVars
  <2>2. /\ Numbered' /\ Lines' /\ Built' = Built
        /\ \A q \in Partition : TopicOf(q)' = TopicOf(q)
    BY <2>1, Frame DEF Base
  <2>3. Begun' = Begun /\ Begun \in Nat
    BY <2>2, BegunAreAttempts DEF Begun, Starts
  <2>4. Known' /\ ActiveTyped' /\ SweepTyped' /\ closed' \subseteq Nat /\ life' \in Nat
    BY <2>1, <2>2, <2>3 DEF Base, Known, Typed, ActiveTyped, SweepTyped
  <2>5. ASSUME NEW e \in Batch(p)
        PROVE  e \in TopicOf(p) /\ PartitionOf[e.attempt] = p
    <3>1. acked[p] \in Nat /\ topic[p] \in Seq(Event) /\ Len(topic[p]) \in Nat
      BY DEF LedgerInv, AllWritten, Base, Lines
    <3>2. PICK first \in Nat : first = acked[p] + 1 /\ first >= 1
      BY <3>1
    <3>3. PICK rest : rest = SubSeq(topic[p], first, Len(topic[p]))
      OBVIOUS
    <3>4. PICK l \in Nat : l = Len(topic[p])
      BY <3>1
    <3>5. /\ rest \in Seq(Event)
          /\ Len(rest) = IF first <= l THEN l - first + 1 ELSE 0
          /\ \A k \in 1..(l - first + 1) : rest[k] = topic[p][first + k - 1]
      <4>1. \A k \in first..Len(topic[p]) : topic[p][k] \in Event
        BY <3>1, <3>2
      <4>2. first \in Int /\ Len(topic[p]) \in Int
        BY <3>1, <3>2
      <4> QED
        BY <3>3, <3>4, <4>1, <4>2, SubSeqProperties
    <3>6. e \in Range(rest)
      BY <2>5, <3>2, <3>3 DEF Batch
    <3>7. PICK k \in 1..Len(rest) : rest[k] = e
      BY <3>5, <3>6, InRange
    <3>8. first + k - 1 \in 1..l /\ e = topic[p][first + k - 1]
      <4>1. first <= l /\ k \in 1..(l - first + 1)
        BY <3>2, <3>4, <3>5, <3>7
      <4>2. first + k - 1 \in 1..l
        BY <3>2, <3>4, <4>1
      <4> QED
        BY <3>5, <3>7, <4>1, <4>2
    <3>9. e \in TopicOf(p)
      BY <3>1, <3>4, <3>8, InRange DEF TopicOf
    <3> QED
      BY <3>9 DEF Base, Lines
  <2>6. Rows'
    BY <2>1, <2>2, <2>5 DEF Base, Rows
  <2> QED
    BY <2>2, <2>3, <2>4, <2>6 DEF Kept
<1>5. ASSUME NEW e \in flight, Fails(e)
      PROVE  Kept
  <2>1. /\ Numbered' /\ Lines' /\ Built' = Built
        /\ \A q \in Partition : TopicOf(q) \subseteq TopicOf(q)'
        /\ UNCHANGED <<stored, built, active, closed, sweep, life>>
    BY <1>5, FailsMoves
  <2>2. Begun' = Begun /\ Begun \in Nat
    BY <2>1, BegunAreAttempts DEF Begun, Starts
  <2>3. Rows'
    BY <2>1, RowsStay
  <2>4. Known' /\ ActiveTyped' /\ SweepTyped' /\ closed' \subseteq Nat /\ life' \in Nat
    BY <2>1, <2>2 DEF Base, Known, Typed, ActiveTyped, SweepTyped
  <2> QED
    BY <2>1, <2>2, <2>3, <2>4 DEF Kept
<1> QED
  BY <1>1, <1>2, <1>3, <1>4, <1>5

LEMMA BaseStays ==
  ASSUME Base, LedgerInv, WriterScene
  PROVE  Base'
<1>1. Kept
  BY WriterMoves, KeptBySends, KeptBySweeps, KeptByAnswers DEF Base
<1>2. /\ Queued' /\ HarnessType' /\ chain' \in Seq(Harness \union {"boot"})
      /\ Due' \subseteq Due
      /\ StartsNew => sweep.who \in Due /\ sweep.who \notin Due'
  BY QueueSteps DEF Base
<1>3. Typed'
  BY <1>1, <1>2 DEF Kept, Typed, ActiveTyped, SweepTyped, HarnessType
<1>4. Counted'
  <2>1. /\ IsFiniteSet(Due) /\ Cardinality(Due) \in Nat /\ Begun \in Nat /\ Begun' \in Nat
        /\ Cardinality(Harness) \in Nat /\ Begun + Cardinality(Due) <= Cardinality(Harness) + 1
    BY <1>1, BegunAreAttempts DEF Base, Counted, Kept
  <2>2. PICK due : due = Due'
    OBVIOUS
  <2>3. due \subseteq Due /\ IsFiniteSet(due) /\ Cardinality(due) \in Nat
    BY <1>2, <2>1, <2>2, FS_Subset, FS_CardinalityType
  <2>4. Begun' + Cardinality(due) <= Cardinality(Harness) + 1
    <3>1. CASE Begun' <= Begun
      <4>1. Cardinality(due) <= Cardinality(Due)
        BY <2>1, <2>3, FS_Subset
      <4> QED
        BY <2>1, <2>3, <3>1, <4>1
    <3>2. CASE StartsNew /\ Begun' = Begun + 1
      <4>1. due # Due /\ due \in SUBSET Due
        BY <1>2, <2>2, <2>3, <3>2
      <4>2. Cardinality(due) <= Cardinality(Due) /\ Cardinality(due) # Cardinality(Due)
        BY <2>1, <4>1, FS_Subset
      <4> QED
        BY <2>1, <2>3, <3>2, <4>2
    <3> QED
      BY <1>1, <3>1, <3>2 DEF Kept
  <2> QED
    BY <2>2, <2>4 DEF Counted
<1> QED
  BY <1>1, <1>2, <1>3, <1>4 DEF Base, Kept

-----------------------------------------------------------------------------
(* What is built of an attempt: one start, then its milestones, each rung    *)
(* once for a team, then its ends.  The live attempt has no end, and what it *)
(* has fired is known.                                                       *)

Story ==
  /\ \A a \in 1..Begun : \E s \in Starts : s.attempt = a
  /\ \A s, t \in Starts : s.attempt = t.attempt => s = t
  /\ \A e \in Built, s \in Starts : e.attempt = s.attempt => s.n <= e.n
  /\ \A m, e \in Built : IsMilestone(m) /\ IsEnd(e) /\ m.attempt = e.attempt => m.n < e.n
  /\ \A m, l \in Built :
       IsMilestone(m) /\ IsMilestone(l) /\ m.attempt = l.attempt /\ m.team = l.team /\ m.rung = l.rung => m = l
  /\ \A e \in Built : e.attempt = active.attempt =>
       ~IsEnd(e) /\ (IsMilestone(e) => <<e.team, e.rung>> \in active.fired)

LEMMA StartsAreBuilt ==
  ASSUME Numbered
  PROVE  /\ \A s : s \in Starts <=> s \in Built /\ IsStart(s)
         /\ \A e \in Built : e \in Event /\ e.n \in Nat /\ e.n <= Len(built) /\ e.attempt \in Nat
         /\ Len(built) \in Nat
<1>1. \A s : s \in Starts <=> s \in Built /\ IsStart(s)
  BY DEF Starts, OfType, IsStart
<1> QED
  BY <1>1, BuiltByNumber, EventKinds

(* The story goes on with an event that is no start.                         *)
LEMMA StoryWithEnd ==
  ASSUME Base, Story, NEW e \in EndEvent, Added(e), e.attempt \in 1..Begun, e.attempt # active'.attempt,
         active' = active \/ active' = NoAttempt
  PROVE  Story'
<1>1. /\ Built' = Built \union {e} /\ e.n = Len(built) + 1 /\ Numbered' /\ Numbered
      /\ IsEnd(e) /\ ~IsStart(e) /\ ~IsMilestone(e)
  BY DEF Added, Base, EndEvent, IsEnd, IsStart, IsMilestone
<1>2. Starts' = Starts /\ Begun' = Begun
  <2>1. PICK news : news = {e}
    OBVIOUS
  <2>2. Built' = Built \union news /\ \A x \in news : ~IsStart(x)
    BY <1>1, <2>1
  <2> QED
    BY <2>2, SameStarts
<1>3. \A x \in Built : x.n \in Nat /\ x.n <= Len(built) /\ x.n < e.n
  BY <1>1, StartsAreBuilt
<1>4. \A s \in Starts : s \in Built
  BY <1>1, StartsAreBuilt
<1>5. \A x \in Built', s \in Starts : x.attempt = s.attempt => s.n <= x.n
  BY <1>1, <1>3, <1>4 DEF Story
<1>6. \A m, x \in Built' : IsMilestone(m) /\ IsEnd(x) /\ m.attempt = x.attempt => m.n < x.n
  BY <1>1, <1>3 DEF Story
<1>7. \A m, l \in Built' :
        IsMilestone(m) /\ IsMilestone(l) /\ m.attempt = l.attempt /\ m.team = l.team /\ m.rung = l.rung => m = l
  BY <1>1 DEF Story
<1>8. \A x \in Built' : x.attempt = active'.attempt =>
        ~IsEnd(x) /\ (IsMilestone(x) => <<x.team, x.rung>> \in active'.fired)
  <2>1. CASE active' = active
    BY <1>1, <2>1 DEF Story
  <2>2. CASE active' = NoAttempt
    <3>1. \A x \in Built : x.attempt # 0
      <4>1. \A x \in Built : x.attempt \in 1..Begun /\ Begun \in Nat
        BY BegunAreAttempts DEF Base, Known
      <4> QED
        BY <4>1
    <3> QED
      BY <1>1, <2>2, <3>1, RestTyped
  <2> QED
    BY <2>1, <2>2
<1> QED
  BY <1>2, <1>5, <1>6, <1>7, <1>8 DEF Story, IsMilestone, IsEnd

LEMMA StoryWithStart ==
  ASSUME Base, Story, NEW e \in StartEvent, Added(e), e.attempt = Begun + 1,
         active' = [attempt |-> Begun + 1, fired |-> {}, win |-> FALSE], Begun' = Begun + 1
  PROVE  Story'
<1>1. /\ Built' = Built \union {e} /\ e.n = Len(built) + 1 /\ Numbered' /\ Numbered
      /\ ~IsEnd(e) /\ IsStart(e) /\ ~IsMilestone(e)
  BY DEF Added, Base, StartEvent, IsEnd, IsStart, IsMilestone
<1>2. Starts' = Starts \union {e}
  BY <1>1 DEF Starts, OfType, IsStart
<1>3. \A x \in Built : x.n \in Nat /\ x.n <= Len(built) /\ x.n < e.n /\ x.attempt # e.attempt
  <2>1. \A x \in Built : x.attempt \in 1..Begun /\ Begun \in Nat
    BY BegunAreAttempts DEF Base, Known
  <2> QED
    BY <1>1, <2>1, StartsAreBuilt
<1>4. \A s \in Starts : s \in Built
  BY <1>1, StartsAreBuilt
<1>5. \A a \in 1..Begun' : \E s \in Starts' : s.attempt = a
  <2>1. \A a \in 1..(Begun + 1) : a \in 1..Begun \/ a = Begun + 1
    BY BegunAreAttempts
  <2> QED
    BY <1>2, <2>1 DEF Story
<1>6. \A s, t \in Starts' : s.attempt = t.attempt => s = t
  BY <1>2, <1>3, <1>4 DEF Story
<1>7. \A x \in Built', s \in Starts' : x.attempt = s.attempt => s.n <= x.n
  BY <1>1, <1>2, <1>3, <1>4 DEF Story, Added
<1>8. \A m, x \in Built' : IsMilestone(m) /\ IsEnd(x) /\ m.attempt = x.attempt => m.n < x.n
  BY <1>1, <1>3 DEF Story
<1>9. \A m, l \in Built' :
        IsMilestone(m) /\ IsMilestone(l) /\ m.attempt = l.attempt /\ m.team = l.team /\ m.rung = l.rung => m = l
  BY <1>1 DEF Story
<1>10. \A x \in Built' : x.attempt = active'.attempt =>
         ~IsEnd(x) /\ (IsMilestone(x) => <<x.team, x.rung>> \in active'.fired)
  BY <1>1, <1>3
<1> QED
  BY <1>5, <1>6, <1>7, <1>8, <1>9, <1>10 DEF Story, IsMilestone, IsEnd

LEMMA StoryWithMilestones ==
  ASSUME Base, Story, NEW o \in Outcome, Observe(o)
  PROVE  Story'
<1>1. PICK news \in Seq(MilestoneEvent) :
         /\ active.attempt \in 1..Begun
         /\ Send(news)
         /\ \A k \in 1..Len(news) : /\ news[k].n = Len(built) + k /\ news[k].attempt = active.attempt
                                    /\ <<news[k].team, news[k].rung>> \in active'.fired \ active.fired
         /\ \A k, l \in 1..Len(news) : news[k].rung = news[l].rung => k = l
         /\ active'.attempt = active.attempt /\ active.fired \subseteq active'.fired
  BY ObserveSends
<1>2. news \in Seq(Event) /\ Len(news) \in Nat
  <2>1. MilestoneEvent \subseteq Event
    BY DEF Event
  <2> HIDE DEF MilestoneEvent
  <2> QED
    BY <2>1
<1>5. Built' = Built \union Range(news)
  <2>1. topic' = topic /\ retried' = retried
    BY DEF Observe, ledgerVars
  <2> QED
    BY <1>1, <1>2, <2>1, SendLines DEF Base
<1>6. \A m \in Range(news) :
        /\ IsMilestone(m) /\ ~IsEnd(m) /\ ~IsStart(m) /\ m.attempt = active.attempt
        /\ m.n > Len(built) /\ m.n \in Nat
        /\ <<m.team, m.rung>> \in active'.fired /\ <<m.team, m.rung>> \notin active.fired
        /\ \A l \in Range(news) : m.rung = l.rung => m = l
  <2> SUFFICES ASSUME NEW m \in Range(news)
               PROVE  /\ IsMilestone(m) /\ ~IsEnd(m) /\ ~IsStart(m) /\ m.attempt = active.attempt
                      /\ m.n > Len(built) /\ m.n \in Nat
                      /\ <<m.team, m.rung>> \in active'.fired /\ <<m.team, m.rung>> \notin active.fired
                      /\ \A l \in Range(news) : m.rung = l.rung => m = l
    OBVIOUS
  <2>1. PICK k \in 1..Len(news) : news[k] = m
    BY InRange
  <2>2. m \in MilestoneEvent
    BY InRange
  <2>3. m.n \in Nat /\ IsMilestone(m) /\ ~IsEnd(m) /\ ~IsStart(m)
    BY <2>2 DEF MilestoneEvent, IsMilestone, IsEnd, IsStart
  <2>4. \A l \in Range(news) : \E j \in 1..Len(news) : news[j] = l
    BY InRange
  <2>5. m.n > Len(built)
    <3>1. m.n = Len(built) + k /\ Len(built) \in Nat
      BY <1>1, <2>1, BuiltByNumber DEF Base
    <3> QED
      BY <3>1
  <2> QED
    BY <1>1, <2>1, <2>3, <2>4, <2>5
<1>7. \A x \in Built : x.n \in Nat /\ x.n <= Len(built) /\ Len(built) \in Nat
  BY StartsAreBuilt DEF Base
<1>8. Starts' = Starts /\ Begun' = Begun
  <2>1. PICK S : S = Range(news)
    OBVIOUS
  <2> QED
    BY <1>5, <1>6, <2>1, SameStarts
<1>9. \A s \in Starts : s \in Built
  BY StartsAreBuilt DEF Base
<1>10. ASSUME NEW x \in Built', NEW s \in Starts, x.attempt = s.attempt
       PROVE  s.n <= x.n
  <2>1. CASE x \in Built
    BY <1>10, <2>1 DEF Story
  <2>2. CASE x \in Range(news)
    <3>1. s.n \in Nat /\ s.n <= Len(built) /\ Len(built) \in Nat
      BY <1>7, <1>9
    <3>2. x.n \in Nat /\ x.n > Len(built)
      BY <1>6, <2>2
    <3> QED
      BY <3>1, <3>2
  <2> QED
    BY <1>5, <1>10, <2>1, <2>2
<1>11. \A m, x \in Built' : IsMilestone(m) /\ IsEnd(x) /\ m.attempt = x.attempt => m.n < x.n
  BY <1>5, <1>6 DEF Story
<1>12. ASSUME NEW m \in Built', NEW l \in Built', IsMilestone(m), IsMilestone(l),
              m.attempt = l.attempt, m.team = l.team, m.rung = l.rung
       PROVE  m = l
  <2>1. \A x \in Built, y \in Range(news) :
          IsMilestone(x) /\ x.attempt = y.attempt => <<x.team, x.rung>> # <<y.team, y.rung>>
    BY <1>6 DEF Story
  <2>2. CASE m \in Built /\ l \in Built
    BY <1>12, <2>2 DEF Story
  <2>3. CASE m \in Range(news) /\ l \in Range(news)
    BY <1>6, <1>12, <2>3
  <2>4. CASE m \in Built /\ l \in Range(news)
    BY <1>12, <2>1, <2>4
  <2>5. CASE m \in Range(news) /\ l \in Built
    BY <1>12, <2>1, <2>5
  <2> QED
    BY <1>5, <1>12, <2>2, <2>3, <2>4, <2>5
<1>13. \A x \in Built' : x.attempt = active'.attempt =>
         ~IsEnd(x) /\ (IsMilestone(x) => <<x.team, x.rung>> \in active'.fired)
  BY <1>1, <1>5, <1>6 DEF Story
<1> QED
  BY <1>8, <1>10, <1>11, <1>12, <1>13 DEF Story, IsMilestone, IsEnd

LEMMA StoryStays ==
  ASSUME Base, Base', Story, WriterScene
  PROVE  Story'
<1>1. CASE SweepCloses
  <2>1. PICK e \in EndEvent : Added(e) /\ e.attempt \in ToClose
    BY <1>1, CloseSends
  <2>2. active' = active
    BY <1>1 DEF SweepCloses, trackerVars
  <2>3. e.attempt \in 1..Begun /\ e.attempt # active'.attempt
    BY <2>1, <2>2 DEF Base, Known, ToClose, IsKnownLocally
  <2> QED
    BY <2>1, <2>2, <2>3, StoryWithEnd
<1>2. ASSUME NEW outcome \in Outcomes, Ends(outcome)
      PROVE  Story'
  <2>1. PICK e \in EndEvent : /\ Added(e) /\ e.attempt = active.attempt
                              /\ active.attempt \in 1..Begun /\ active' = NoAttempt
    BY <1>2, EndSends
  <2>2. e.attempt # active'.attempt
    BY <2>1, RestTyped, BegunAreAttempts
  <2> QED
    BY <2>1, <2>2, StoryWithEnd
<1>3. CASE StartsNew
  <2>1. PICK e \in StartEvent : /\ Added(e) /\ e.attempt = Begun + 1
                                /\ active' = [attempt |-> Begun + 1, fired |-> {}, win |-> FALSE]
    BY <1>3, StartSends
  <2>2. Begun' = Begun + 1
    <3>1. Starts' = Starts \union {e} /\ e \notin Starts
      BY <2>1 DEF Added, Starts, OfType, StartEvent
    <3>2. Cardinality(Starts \union {e}) = Cardinality(Starts) + 1
      BY <3>1, BegunAreAttempts, FS_AddElement
    <3> QED
      BY <3>1, <3>2 DEF Begun
  <2> QED
    BY <2>1, <2>2, StoryWithStart
<1>4. CASE UNCHANGED built /\ (active' = active \/ active' = NoAttempt)
  <2>1. Built' = Built /\ Starts' = Starts /\ Begun' = Begun
    BY <1>4 DEF Built, Starts, Begun
  <2>2. \A x \in Built : x.attempt # 0
    <3>1. \A x \in Built : x.attempt \in 1..Begun /\ Begun \in Nat
      BY BegunAreAttempts DEF Base, Known
    <3> QED
      BY <3>1
  <2> QED
    BY <1>4, <2>1, <2>2, RestTyped DEF Story, IsMilestone, IsEnd
<1>5. (UNCHANGED built /\ (active' = active \/ active' = NoAttempt))
  \/ (\E o \in Outcome : Observe(o)) \/ SweepCloses \/ StartsNew \/ (\E outcome \in Outcomes : Ends(outcome))
  BY WriterMoves DEF Base, Delivered, Fails, GivesUp, SweepBegins, SweepReads, Rests, Quiet, Crash, trackerVars,
                     attemptVars
<1> QED
  BY <1>1, <1>2, <1>3, <1>4, <1>5, StoryWithMilestones

-----------------------------------------------------------------------------
(* Behind a won end is the winning rung.  Only the aborts of the sweep can   *)
(* get lost while the process lives, so that rung is on the topic or on its  *)
(* way.                                                                      *)

Underway == OnTopic \union flight

StartIn(events, a) == \E s \in events : IsStart(s) /\ s.attempt = a

WinIn(events, a) ==
  \E m \in events : IsMilestone(m) /\ m.attempt = a /\ m.rung = "iron_pickaxe"

WonOnline ==
  /\ active.win => WinIn(Underway, active.attempt)
  /\ \A e \in Built : IsEnd(e) =>
       /\ e.by <= life
       /\ e.outcome = "won" => WinIn(Built, e.attempt) /\ (e.by = life => WinIn(Underway, e.attempt))

(* What the sweep takes for open has a start among the rows, and what it     *)
(* awaits is an abort.                                                       *)
SweepOnline ==
  /\ \A a \in sweep.open : StartIn(stored, a)
  /\ sweep.stage = "sending" =>
       /\ sweep.cursor \in 1..Len(built)
       /\ IsEnd(built[sweep.cursor]) /\ built[sweep.cursor].outcome = "aborted"

Online == WonOnline /\ SweepOnline

LEMMA SweepOnlineStays ==
  ASSUME Base, Base', SweepOnline, WriterScene
  PROVE  SweepOnline'
<1> USE DEF Base
<1>1. CASE SweepCloses
  <2>1. PICK e \in EndEvent :
           /\ Added(e) /\ e.outcome = "aborted"
           /\ sweep' = [sweep EXCEPT !.open = @ \ (0..e.attempt), !.stage = "sending", !.cursor = Len(built) + 1]
    BY <1>1, CloseSends
  <2>2. stored' = stored /\ sweep \in SweepType
    BY <1>1 DEF SweepCloses, ledgerVars, Typed
  <2>3. Len(built) + 1 \in 1..Len(built') /\ built'[Len(built) + 1] = e
    <3>1. e \in Built' /\ e.n = Len(built) + 1 /\ Numbered'
      BY <2>1 DEF Added
    <3>2. e.n \in 1..Len(built') /\ built'[e.n] = e
      <4>1. built' \in Seq(Event) /\ e \in Range(built')
        BY <3>1 DEF Numbered, Built
      <4>2. PICK i \in 1..Len(built') : built'[i] = e
        BY <4>1, InRange
      <4> QED
        BY <3>1, <4>2 DEF Numbered
    <3> QED
      BY <3>1, <3>2
  <2>4. sweep'.open \subseteq sweep.open /\ sweep'.cursor = Len(built) + 1
    BY <2>1, <2>2 DEF SweepType
  <2>5. IsEnd(e)
    BY DEF EndEvent, IsEnd
  <2> QED
    BY <2>1, <2>2, <2>3, <2>4, <2>5 DEF SweepOnline, StartIn, IsStart, IsEnd
<1>2. CASE SweepReads
  <2>1. /\ sweep.stage = "reading" /\ sweep'.stage # "sending" /\ stored' = stored
        /\ sweep'.open \subseteq sweep.open \union AttemptsIn(Page(Lifecycle, sweep.cursor), "AttemptStarted")
    BY <1>2 DEF SweepReads, ledgerVars, Typed, SweepType
  <2>2. Page(Lifecycle, sweep.cursor) \subseteq stored
    BY DEF Page, Matching
  <2>3. \A a \in AttemptsIn(Page(Lifecycle, sweep.cursor), "AttemptStarted") : StartIn(stored, a)
    BY <2>2 DEF AttemptsIn, OfType, StartIn, IsStart
  <2> QED
    BY <2>1, <2>3 DEF SweepOnline, StartIn, IsStart
<1>3. CASE SweepBegins
  BY <1>3 DEF SweepBegins, SweepOnline, Idle
<1>4. CASE sweep' = Idle
  BY <1>4, RestTyped DEF SweepOnline
<1>5. CASE /\ stored \subseteq stored' /\ sweep'.open \subseteq sweep.open
           /\ sweep'.stage = "sending" => sweep.stage = "sending" /\ sweep'.cursor = sweep.cursor
           /\ Len(built) \in Nat /\ Len(built') \in Nat /\ Len(built) <= Len(built')
           /\ \A i \in 1..Len(built) : built'[i] = built[i]
  <2>1. sweep'.stage = "sending" => /\ sweep'.cursor \in 1..Len(built')
                                    /\ IsEnd(built'[sweep'.cursor]) /\ built'[sweep'.cursor].outcome = "aborted"
    BY <1>5 DEF SweepOnline, IsEnd
  <2> QED
    BY <1>5, <2>1 DEF SweepOnline, StartIn, IsStart, IsEnd
<1>6. Len(built) \in Nat
  BY BuiltByNumber
<1>7. ASSUME NEW e \in flight, Delivered(e) \/ Fails(e)
      PROVE  SweepOnline'
  <2>1. /\ UNCHANGED <<stored, built>>
        /\ sweep' = [sweep EXCEPT !.stage = "closing"] \/ sweep' = sweep
    BY <1>7, DeliverMoves, FailsMoves
  <2>2. /\ sweep'.open \subseteq sweep.open
        /\ sweep'.stage = "sending" => sweep.stage = "sending" /\ sweep'.cursor = sweep.cursor
    BY <2>1 DEF Typed, SweepType
  <2> QED
    BY <1>5, <1>6, <2>1, <2>2
<1>8. ASSUME NEW p \in Partition, Catches(p), UNCHANGED attemptVars
      PROVE  SweepOnline'
  BY <1>5, <1>6, <1>8 DEF Catches, attemptVars
<1>9. ASSUME NEW o \in Outcome, Observe(o)
      PROVE  SweepOnline'
  <2>1. PICK news \in Seq(MilestoneEvent) : Send(news)
    BY <1>9, ObserveSends
  <2>2. UNCHANGED <<stored, sweep>>
    BY <1>9 DEF Observe, ledgerVars, sweepVars
  <2>3. /\ Len(built') \in Nat /\ Len(built) <= Len(built')
        /\ \A i \in 1..Len(built) : built'[i] = built[i]
    <3>1. built' = built \o news /\ built \in Seq(Event) /\ news \in Seq(Event) /\ Len(news) \in Nat
      <4>1. MilestoneEvent \subseteq Event
        BY DEF Event
      <4> HIDE DEF MilestoneEvent
      <4> QED
        BY <2>1, <4>1 DEF Send, Numbered
    <3>2. /\ Len(built') = Len(built) + Len(news)
          /\ \A i \in 1..(Len(built) + Len(news)) :
               built'[i] = IF i <= Len(built) THEN built[i] ELSE news[i - Len(built)]
      BY <3>1, ConcatProperties
    <3> QED
      BY <1>6, <3>1, <3>2
  <2> QED
    BY <1>5, <1>6, <2>2, <2>3
<1>10. ASSUME NEW outcome \in Outcomes, Ends(outcome)
       PROVE  SweepOnline'
  <2>1. PICK e \in EndEvent : Added(e)
    BY <1>10, EndSends
  <2>2. UNCHANGED <<stored, sweep>>
    BY <1>10 DEF Ends, ingestVars, sweepVars
  <2> QED
    BY <1>5, <1>6, <2>1, <2>2 DEF Added
<1>11. CASE Quiet
  BY <1>5, <1>6, <1>11 DEF Quiet
<1>12. \A e \in flight : GivesUp(e) => sweep' = Idle
  BY GivesUpMoves
<1> QED
  BY <1>1, <1>2, <1>3, <1>4, <1>7, <1>8, <1>9, <1>10, <1>11, <1>12, WriterMoves DEF Rests, StartsNew, Crash

(* A step that leaves the winning rungs where they are, whatever it builds.  *)
LEMMA WonGoesOn ==
  ASSUME Base, Base', WonOnline, NEW news, Built' = Built \union news, life' = life,
         \A m \in Underway : IsMilestone(m) => m \in Underway',
         active'.win => WinIn(Underway, active'.attempt) \/ WinIn(Underway', active'.attempt),
         \A e \in news : IsEnd(e) => e.by = life /\ (e.outcome = "won" => WinIn(Underway, e.attempt))
  PROVE  WonOnline'
<1>1. \A a : WinIn(Underway, a) => WinIn(Underway', a)
  BY DEF WinIn
<1>2. Underway \subseteq Built
  BY DEF Base, Lines, Underway, OnTopic, TopicOf
<1>3. \A a : /\ WinIn(Underway, a) => WinIn(Built, a)
             /\ WinIn(Built, a) => WinIn(Built', a)
  BY <1>2 DEF WinIn
<1>4. life \in Nat
  BY DEF Base, Typed
<1>5. ASSUME NEW e \in Built', IsEnd(e)
      PROVE  /\ e.by <= life'
             /\ e.outcome = "won" => WinIn(Built', e.attempt) /\ (e.by = life' => WinIn(Underway', e.attempt))
  <2>1. CASE e \in Built
    BY <1>1, <1>3, <1>5, <2>1 DEF WonOnline
  <2>2. CASE e \in news
    <3>1. e.by = life /\ (e.outcome = "won" => WinIn(Underway, e.attempt))
      BY <1>5, <2>2
    <3>2. e.by <= life'
      BY <1>4, <3>1
    <3> QED
      BY <1>1, <1>3, <3>1, <3>2
  <2> QED
    BY <2>1, <2>2
<1>6. active'.win => WinIn(Underway', active'.attempt)
  BY <1>1
<1> QED
  BY <1>5, <1>6 DEF WonOnline, IsEnd, WinIn, IsMilestone

LEMMA WonOnlineStays ==
  ASSUME Base, Base', Online, WriterScene
  PROVE  WonOnline'
<1>1. topic' = topic /\ flight \subseteq flight' => Underway \subseteq Underway'
  BY DEF Underway, OnTopic
<1>2. WonOnline
  BY DEF Online
<1>3. ASSUME NEW e, Added(e), life' = life,
             IsEnd(e) => e.by = life /\ (e.outcome = "won" => WinIn(Underway, e.attempt)),
             active'.win => WinIn(Underway, active'.attempt)
      PROVE  WonOnline'
  <2>1. PICK news : news = {e}
    OBVIOUS
  <2>2. Built' = Built \union news /\ Underway \subseteq Underway'
    BY <1>1, <1>3, <2>1 DEF Added
  <2>3. \A x \in news : IsEnd(x) => x.by = life /\ (x.outcome = "won" => WinIn(Underway, x.attempt))
    BY <1>3, <2>1
  <2> QED
    BY <1>2, <1>3, <2>2, <2>3, WonGoesOn
<1>4. ASSUME Built' = Built, life' = life, active' = active,
             \A m \in Underway : IsMilestone(m) => m \in Underway'
      PROVE  WonOnline'
  <2>1. PICK news : news = {}
    OBVIOUS
  <2>2. Built' = Built \union news /\ \A x \in news : FALSE
    BY <1>4, <2>1
  <2>3. active'.win => WinIn(Underway, active'.attempt)
    BY <1>2, <1>4 DEF WonOnline
  <2> QED
    BY <1>2, <1>4, <2>2, <2>3, WonGoesOn
<1>5. CASE SweepCloses
  <2>1. PICK e \in EndEvent : Added(e) /\ e.outcome = "aborted" /\ e.by = life
    BY <1>5, CloseSends
  <2>2. active' = active /\ life' = life
    BY <1>5 DEF SweepCloses, trackerVars
  <2>3. active'.win => WinIn(Underway, active'.attempt)
    BY <1>2, <2>2 DEF WonOnline
  <2> QED
    BY <1>3, <2>1, <2>2, <2>3
<1>6. ASSUME NEW outcome \in Outcomes, Ends(outcome)
      PROVE  WonOnline'
  <2>1. PICK e \in EndEvent : /\ Added(e) /\ e.attempt = active.attempt /\ e.outcome = outcome
                              /\ e.by = life /\ (outcome = "won" => active.win) /\ active' = NoAttempt
    BY <1>6, EndSends
  <2>2. life' = life /\ ~active'.win
    BY <1>6, <2>1 DEF Ends, NoAttempt
  <2>3. e.outcome = "won" => WinIn(Underway, e.attempt)
    BY <1>2, <2>1 DEF WonOnline
  <2> QED
    BY <1>3, <2>1, <2>2, <2>3
<1>7. CASE StartsNew
  <2>1. PICK e \in StartEvent : Added(e) /\ active' = [attempt |-> Begun + 1, fired |-> {}, win |-> FALSE]
    BY <1>7, StartSends
  <2>2. life' = life /\ ~active'.win /\ ~IsEnd(e)
    BY <1>7, <2>1 DEF StartsNew, StartEvent, IsEnd
  <2> QED
    BY <1>3, <2>1, <2>2
<1>8. ASSUME NEW o \in Outcome, Observe(o)
      PROVE  WonOnline'
  <2>1. PICK news \in Seq(MilestoneEvent) :
           /\ Send(news)
           /\ \A k \in 1..Len(news) : news[k].n = Len(built) + k /\ news[k].attempt = active.attempt
           /\ active'.win => active.win \/ \E k \in 1..Len(news) : news[k].rung = "iron_pickaxe"
           /\ active'.attempt = active.attempt
    BY <1>8, ObserveSends
  <2>2. UNCHANGED <<topic, retried, life>>
    BY <1>8 DEF Observe, ledgerVars
  <2>3. /\ news \in Seq(Event) /\ \A m : m \in Range(news) <=> \E k \in 1..Len(news) : news[k] = m
        /\ \A k \in 1..Len(news) : news[k] \in MilestoneEvent
    <3>1. MilestoneEvent \subseteq Event
      BY DEF Event
    <3> HIDE DEF MilestoneEvent
    <3> QED
      BY <3>1, InRange
  <2>4. Built' = Built \union Range(news) /\ flight' = flight \union Range(news)
    BY <2>1, <2>2, <2>3, SendLines DEF Base
  <2>5. \A m \in Range(news) : IsMilestone(m) /\ ~IsEnd(m)
    BY <2>3 DEF MilestoneEvent, IsEnd, IsMilestone
  <2>6. Underway \subseteq Underway' /\ Range(news) \subseteq Underway'
    BY <1>1, <2>2, <2>4 DEF Underway
  <2>7. active'.win => WinIn(Underway, active'.attempt) \/ WinIn(Underway', active'.attempt)
    <3>1. CASE active.win
      BY <1>2, <2>1, <3>1 DEF WonOnline
    <3>2. ASSUME NEW k \in 1..Len(news), news[k].rung = "iron_pickaxe"
          PROVE  WinIn(Underway', active'.attempt)
      BY <2>1, <2>3, <2>5, <2>6, <3>2 DEF WinIn
    <3> QED
      BY <2>1, <3>1, <3>2
  <2>8. PICK S : S = Range(news)
    OBVIOUS
  <2> QED
    BY <1>2, <2>2, <2>4, <2>5, <2>6, <2>7, <2>8, WonGoesOn
<1>9. ASSUME NEW e \in flight, Delivered(e) \/ Fails(e)
      PROVE  WonOnline'
  <2>1. /\ Built' = Built /\ life' = life /\ active' = active
        /\ \A q \in Partition : TopicOf(q) \subseteq TopicOf(q)'
        /\ flight' = flight \/ (flight' = flight \ {e} /\ e \in TopicOf(PartitionOf[e.attempt])')
    BY <1>9, DeliverMoves, FailsMoves
  <2>2. OnTopic \subseteq OnTopic'
    BY <2>1 DEF OnTopic, TopicOf
  <2>3. flight' = flight \ {e} /\ e \in TopicOf(PartitionOf[e.attempt])' => e \in OnTopic'
    <3>1. PICK p \in Partition : p = PartitionOf[e.attempt]
      BY InFlight
    <3> QED
      BY <3>1, InFlight DEF OnTopic, TopicOf
  <2>4. Underway \subseteq Underway'
    BY <2>1, <2>2, <2>3 DEF Underway
  <2> QED
    BY <1>4, <2>1, <2>4
<1>10. ASSUME NEW e \in flight, GivesUp(e)
       PROVE  WonOnline'
  <2>1. /\ Built' = Built /\ life' = life /\ active' = active /\ topic' = topic
        /\ flight' = flight \ {e} /\ sweep.stage = "sending" /\ e = built[sweep.cursor]
    BY <1>10, GivesUpMoves
  <2>2. ~IsMilestone(e)
    BY <2>1 DEF Online, SweepOnline, IsEnd, IsMilestone
  <2>3. \A m \in Underway : IsMilestone(m) => m \in Underway'
    BY <2>1, <2>2 DEF Underway, OnTopic
  <2> QED
    BY <1>4, <2>1, <2>3
<1>11. CASE Crash
  <2>1. active' = NoAttempt /\ life' = life + 1 /\ Built' = Built
    BY <1>11 DEF Crash, Built
  <2>2. life \in Nat /\ ~active'.win /\ \A e \in Built : IsEnd(e) => e.by \in Nat
    BY <2>1, BuiltByNumber, EventKinds DEF Base, Typed, NoAttempt
  <2>3. ASSUME NEW e \in Built, IsEnd(e)
        PROVE  e.by <= life + 1 /\ e.by # life + 1 /\ (e.outcome = "won" => WinIn(Built, e.attempt))
    <3>1. e.by <= life /\ (e.outcome = "won" => WinIn(Built, e.attempt))
      BY <1>2, <2>3 DEF WonOnline
    <3> QED
      BY <2>2, <2>3, <3>1
  <2> QED
    BY <2>1, <2>2, <2>3 DEF WonOnline, IsEnd, WinIn, IsMilestone
<1>12. CASE UNCHANGED <<topic, flight, built, active, life>>
  <2>1. Built' = Built /\ Underway' = Underway
    BY <1>12 DEF Built, Underway, OnTopic
  <2> QED
    BY <1>4, <1>12, <2>1
<1>13. SweepBegins \/ SweepReads \/ Rests \/ Quiet \/ (\E p \in Partition : Catches(p) /\ UNCHANGED attemptVars)
         => UNCHANGED <<topic, flight, built, active, life>>
  BY DEF SweepBegins, SweepReads, Rests, Quiet, Catches, attemptVars, ledgerVars, trackerVars
<1> QED
  BY <1>5, <1>6, <1>7, <1>8, <1>9, <1>10, <1>11, <1>12, <1>13, WriterMoves DEF Base

LEMMA OnlineStays ==
  ASSUME Base, Base', Online, WriterScene
  PROVE  Online'
BY SweepOnlineStays, WonOnlineStays DEF Online

-----------------------------------------------------------------------------
(* The slices of the ledger.                                                 *)

LEMMA WrittenSlices ==
  ASSUME Base, Story, Online
  PROVE  SliceIsCoherent
<1>1. ASSUME NEW d \in Built, NEW e \in Built, d.attempt = e.attempt, d.n < e.n
      PROVE  MayPrecede(d, e)
  <2>1. d.n \in Nat /\ e.n \in Nat
    BY StartsAreBuilt DEF Base
  <2>2. ~IsStart(e)
    <3> SUFFICES ASSUME IsStart(e) PROVE FALSE
      OBVIOUS
    <3>1. e \in Starts
      BY StartsAreBuilt DEF Base
    <3>2. e.n <= d.n
      BY <1>1, <3>1 DEF Story
    <3> QED
      BY <1>1, <2>1, <3>2
  <2>3. IsMilestone(e) => ~IsEnd(d)
    <3>1. IsMilestone(e) /\ IsEnd(d) => e.n < d.n
      BY <1>1 DEF Story
    <3> QED
      BY <1>1, <2>1, <3>1
  <2>4. IsMilestone(e) /\ IsMilestone(d) => <<d.team, d.rung>> # <<e.team, e.rung>>
    <3>1. IsMilestone(e) /\ IsMilestone(d) /\ d.team = e.team /\ d.rung = e.rung => d = e
      BY <1>1 DEF Story
    <3>2. d # e
      BY <1>1, <2>1
    <3> QED
      BY <3>1, <3>2
  <2> QED
    BY <2>2, <2>3, <2>4 DEF MayPrecede, IsStart, IsEnd, IsMilestone
<1>2. ASSUME NEW e \in Built, IsEnd(e), e.outcome = "won"
      PROVE  \E d \in Built : /\ d.n < e.n /\ d.attempt = e.attempt
                              /\ d.type = "ProgressionMilestone" /\ d.rung = "iron_pickaxe"
                              /\ (e.by = life => d \in OnTopic \union flight)
  <2>1. Underway \subseteq Built
    BY DEF Base, Lines, Underway, OnTopic, TopicOf
  <2>2. PICK d \in Built : /\ IsMilestone(d) /\ d.attempt = e.attempt /\ d.rung = "iron_pickaxe"
                           /\ (e.by = life => d \in Underway)
    <3>1. CASE e.by = life
      BY <1>2, <2>1, <3>1 DEF Online, WonOnline, WinIn
    <3>2. CASE e.by # life
      BY <1>2, <3>2 DEF Online, WonOnline, WinIn
    <3> QED
      BY <3>1, <3>2
  <2>3. d.n < e.n
    BY <1>2, <2>2 DEF Story
  <2> QED
    BY <2>2, <2>3 DEF IsMilestone, Underway
<1> QED
  BY <1>1, <1>2 DEF SliceIsCoherent, Built, IsEnd

(* A reader's partition is its poison, if it has one, and then the slices of *)
(* the script as far as they have arrived.                                   *)
Lead(p) == IF p \in Poisoned THEN 1 ELSE 0

Arrived ==
  /\ script \in Script
  /\ \E S : topic \in [Partition -> Seq(S)]
  /\ \A p \in Partition :
       /\ Len(topic[p]) \in Lead(p)..(Lead(p) + Len(script[p]))
       /\ \A i \in 1..Len(topic[p]) :
            topic[p][i] = IF i <= Lead(p) THEN Poison ELSE script[p][i - Lead(p)]

LEMMA ScriptFacts ==
  ASSUME script \in Script, NEW p \in Partition
  PROVE  /\ script[p] \in Seq(Range(script[p])) /\ Len(script[p]) \in Nat
         /\ DOMAIN script[p] = 1..Len(script[p])
         /\ \A i \in 1..Len(script[p]) : script[p][i] \in Range(script[p])
         /\ \A e \in Range(script[p]) : e # Poison
<1>1. script[p] \in Seq(Range(script[p]))
  BY ScriptAssumption
<1>2. \A e \in Range(script[p]) : e.type \in RaceTypes
  BY ScriptAssumption
<1>3. \A e \in Range(script[p]) : e # Poison
  BY <1>2 DEF RaceTypes, Poison
<1> QED
  BY <1>1, <1>3

LEMMA SmallSequences ==
  /\ <<>> \in Seq(Event) /\ Range(<<>>) = {}
  /\ \A e \in Event : <<e>> \in Seq(Event) /\ Len(<<e>>) = 1 /\ <<e>>[1] = e /\ Range(<<e>>) = {e}
BY DEF Range

(* The writers begin with the start of an earlier life on the topic.         *)
LEMMA WritersBegin ==
  ASSUME Init, scene = "writers"
  PROVE  Base /\ Story /\ Online
<1> DEFINE s == [n |-> 1, type |-> "AttemptStarted", attempt |-> 1, known |-> {}]
<1>1. /\ built = <<s>> /\ stored = {}
      /\ topic = [p \in Partition |-> IF p = PartitionOf[1] THEN <<s>> ELSE <<>>]
      /\ flight = {} /\ retried = {}
      /\ active = NoAttempt /\ closed = {} /\ chain = <<"boot">> /\ sweep = Idle /\ life = 1
      /\ harness = [h \in Harness |-> [next |-> "look", saw |-> "nothing"]]
  BY DEF Init, AttemptInit, LedgerInit
<1>2. s \in Event /\ s \in StartEvent /\ s.n = 1 /\ s.attempt = 1 /\ IsStart(s) /\ ~IsEnd(s) /\ ~IsMilestone(s)
  BY DEF Event, StartEvent, IsStart, IsEnd, IsMilestone
<1> HIDE DEF s
<1>3. PICK e \in Event : e = s
  BY <1>2
<1>4. /\ built \in Seq(Event) /\ Len(built) = 1 /\ built[1] = e /\ Built = {e} /\ Starts = {e}
  BY <1>1, <1>2, <1>3, SmallSequences DEF Built, Starts, OfType, IsStart
<1>5. Begun = 1
  BY <1>4, FS_Singleton DEF Begun
<1>6. \A p \in Partition : /\ topic[p] = IF p = PartitionOf[1] THEN <<e>> ELSE <<>>
                           /\ TopicOf(p) = IF p = PartitionOf[1] THEN {e} ELSE {}
  BY <1>1, <1>3, SmallSequences DEF TopicOf
<1>7. Numbered
  BY <1>2, <1>3, <1>4 DEF Numbered
<1>8. Lines
  <2>1. topic \in [Partition -> Seq(Event)]
    <3>1. <<e>> \in Seq(Event) /\ <<>> \in Seq(Event)
      BY SmallSequences
    <3> QED
      BY <1>1, <1>3, <3>1
  <2> QED
    BY <1>1, <1>2, <1>3, <1>4, <1>6, <2>1 DEF Lines
<1>9. Typed
  BY <1>1, RestTyped DEF Typed, Steps
<1>10. Rows
  BY <1>1 DEF Rows
<1>11. Queued
  <2>1. Len(chain) = 1 /\ chain[1] = "boot" /\ "boot" \notin Harness
    BY <1>1, AttemptAssumption
  <2> QED
    BY <1>1, <2>1, RestTyped DEF Queued
<1>12. Known
  BY <1>1, <1>2, <1>3, <1>4, <1>5, RestTyped DEF Known
<1>13. Counted
  <2>1. Due = Harness /\ Cardinality(Harness) \in Nat
    BY <1>1, FS_CardinalityType, AttemptAssumption DEF Due
  <2> QED
    BY <1>5, <2>1 DEF Counted
<1>14. Story
  BY <1>1, <1>2, <1>3, <1>4, <1>5, RestTyped DEF Story
<1>15. Online
  <2>1. ~active.win
    BY <1>1 DEF NoAttempt
  <2> QED
    BY <1>1, <1>2, <1>3, <1>4, <2>1, RestTyped DEF Online, WonOnline, SweepOnline
<1> QED
  BY <1>7, <1>8, <1>9, <1>10, <1>11, <1>12, <1>13, <1>14, <1>15 DEF Base

LEMMA ReadersBegin ==
  ASSUME Init, scene # "writers"
  PROVE  Arrived
<1>1. script \in Script /\ topic = [p \in Partition |-> IF p \in Poisoned THEN <<Poison>> ELSE <<>>]
  BY DEF Init
<1>2. <<Poison>> \in Seq({Poison}) /\ <<>> \in Seq({Poison})
  OBVIOUS
<1>3. topic \in [Partition -> Seq({Poison})]
  BY <1>1, <1>2
<1>4. ASSUME NEW p \in Partition
      PROVE  /\ Len(topic[p]) = Lead(p) /\ Lead(p) \in Nat
             /\ \A i \in 1..Len(topic[p]) : i <= Lead(p) /\ topic[p][i] = Poison
             /\ Len(script[p]) \in Nat
  <2>1. CASE p \in Poisoned
    <3>1. topic[p] = <<Poison>> /\ Len(<<Poison>>) = 1 /\ <<Poison>>[1] = Poison
      BY <1>1, <2>1
    <3>2. Len(script[p]) \in Nat
      BY <1>1, ScriptFacts
    <3> QED
      BY <2>1, <3>1, <3>2 DEF Lead
  <2>2. CASE p \notin Poisoned
    <3>1. topic[p] = <<>> /\ Len(<<>>) = 0
      BY <1>1, <2>2
    <3>2. Len(script[p]) \in Nat
      BY <1>1, ScriptFacts
    <3> QED
      BY <2>2, <3>1, <3>2 DEF Lead
  <2> QED
    BY <2>1, <2>2
<1>5. \A p \in Partition : Len(topic[p]) \in Lead(p)..(Lead(p) + Len(script[p]))
  BY <1>4
<1> QED
  BY <1>1, <1>3, <1>4, <1>5 DEF Arrived

LEMMA ArrivedStays ==
  ASSUME Arrived, ReaderScene, UNCHANGED script
  PROVE  Arrived'
<1>1. PICK S : topic \in [Partition -> Seq(S)]
  BY DEF Arrived
<1>2. ASSUME NEW p \in Partition, ScriptGoesOn(p)
      PROVE  Arrived'
  <2>1. PICK lead \in {0, 1} : lead = Lead(p)
    BY DEF Lead
  <2>2. PICK old : old = topic[p]
    OBVIOUS
  <2>3. old \in Seq(S) /\ Len(old) \in Nat /\ lead <= Len(old) /\ Len(script[p]) \in Nat
    <3>1. Len(script[p]) \in Nat
      BY ScriptFacts DEF Arrived
    <3> QED
      BY <1>1, <2>1, <2>2, <3>1 DEF Arrived
  <2>4. PICK next \in Nat : next = Len(old) + 1 - lead
    BY <2>1, <2>3
  <2>5. next = Len(topic[p]) - (IF p \in Poisoned THEN 0 ELSE -1)
    <3>1. CASE p \in Poisoned
      BY <2>1, <2>2, <2>3, <2>4, <3>1 DEF Lead
    <3>2. CASE p \notin Poisoned
      BY <2>1, <2>2, <2>3, <2>4, <3>2 DEF Lead
    <3> QED
      BY <3>1, <3>2
  <2>6. next <= Len(script[p]) /\ topic' = [topic EXCEPT ![p] = Append(@, script[p][next])]
    BY <1>2, <2>5 DEF ScriptGoesOn, Published
  <2>7. PICK e : e = script[p][next]
    OBVIOUS
  <2>8. /\ Append(old, e) \in Seq(S \union {e}) /\ Len(Append(old, e)) = Len(old) + 1
        /\ \A i \in 1..Len(old) : Append(old, e)[i] = old[i]
        /\ Append(old, e)[Len(old) + 1] = e
    <3>1. old \in Seq(S \union {e})
      BY <2>3
    <3> QED
      BY <3>1
  <2>9. \A q \in Partition : topic'[q] = IF q = p THEN Append(old, e) ELSE topic[q]
    BY <1>1, <2>2, <2>6, <2>7
  <2>10. topic' \in [Partition -> Seq(S \union {e})]
    <3>1. \A q \in Partition : topic[q] \in Seq(S \union {e})
      BY <1>1
    <3> QED
      BY <1>1, <2>6, <2>8, <2>9, <3>1
  <2>11. ASSUME NEW q \in Partition
         PROVE  /\ Len(topic'[q]) \in Lead(q)..(Lead(q) + Len(script[q]))
                /\ \A i \in 1..Len(topic'[q]) :
                     topic'[q][i] = IF i <= Lead(q) THEN Poison ELSE script[q][i - Lead(q)]
    <3>1. CASE q # p
      BY <2>9, <3>1 DEF Arrived
    <3>2. CASE q = p
      <4>1. topic'[q] = Append(old, e) /\ lead = Lead(q)
        BY <2>1, <2>9, <3>2
      <4>2. Len(old) + 1 \in lead..(lead + Len(script[p]))
        BY <2>1, <2>3, <2>4, <2>6
      <4>3. ASSUME NEW i \in 1..(Len(old) + 1)
            PROVE  Append(old, e)[i] = IF i <= lead THEN Poison ELSE script[p][i - lead]
        <5>1. CASE i <= Len(old)
          <6>1. i \in 1..Len(old)
            BY <2>3, <5>1
          <6>2. old[i] = IF i <= lead THEN Poison ELSE script[p][i - lead]
            BY <2>1, <2>2, <6>1 DEF Arrived
          <6> QED
            BY <2>8, <6>1, <6>2
        <5>2. CASE i = Len(old) + 1
          <6>1. i - lead = next /\ ~(i <= lead)
            BY <2>1, <2>3, <2>4, <5>2
          <6> QED
            BY <2>7, <2>8, <5>2, <6>1
        <5> QED
          BY <2>3, <5>1, <5>2
      <4> QED
        BY <2>8, <3>2, <4>1, <4>2, <4>3
    <3> QED
      BY <3>1, <3>2
  <2> QED
    BY <2>10, <2>11 DEF Arrived, Lead
<1>3. CASE UNCHANGED topic
  BY <1>3 DEF Arrived, Lead
<1>4. UNCHANGED topic \/ \E p \in Partition : ScriptGoesOn(p)
  <2>1. LedgerNext => UNCHANGED topic
    BY DEF LedgerNext, Ingests, Record, Acknowledge, LedgerRestarts
  <2>2. MindNext => UNCHANGED topic
    BY DEF MindNext, Rehydrates, RehydrateFails, MindRestarts, Hears, ledgerVars
  <2>3. BoardNext => UNCHANGED topic
    BY DEF BoardNext, BoardSeeksNewest, BoardReadsSlice, BoardConnects, Broadcast, ClientDropped, ledgerVars
  <2> QED
    BY <2>1, <2>2, <2>3 DEF ReaderScene
<1> QED
  BY <1>2, <1>3, <1>4

(* The parts of a state of the race that the slices rest on.                 *)
SliceInv ==
  /\ LedgerInv
  /\ scene = "writers" => Base /\ Story /\ Online
  /\ scene # "writers" => Arrived /\ built = <<>>

LEMMA SliceInvAtFirst == Init => SliceInv
<1>1. Init /\ scene # "writers" => built = <<>>
  BY DEF Init
<1> QED
  BY <1>1, AllWrittenAtFirst, WritersBegin, ReadersBegin DEF SliceInv

LEMMA SameRace ==
  ASSUME SliceInv, UNCHANGED vars
  PROVE  SliceInv'
<1>1. LedgerInv'
  BY RaceStep, AllWrittenStays DEF SliceInv
<1>2. /\ Built' = Built /\ Starts' = Starts /\ Begun' = Begun /\ Due' = Due
      /\ Underway' = Underway /\ \A p : TopicOf(p)' = TopicOf(p)
  BY DEF vars, attemptVars, ledgerVars, Built, Starts, Begun, Due, TopicOf, Underway, OnTopic
<1>3. scene = "writers" => Base' /\ Story' /\ Online'
  <2>1. Base => Base'
    BY <1>2 DEF vars, attemptVars, ledgerVars, Base, Numbered, Lines, Typed, Rows, Queued, Known, Counted
  <2>2. Story => Story'
    BY <1>2 DEF vars, attemptVars, Story, IsMilestone, IsEnd
  <2>3. Online => Online'
    BY <1>2 DEF vars, attemptVars, ledgerVars, Online, WonOnline, SweepOnline, StartIn, WinIn, IsStart, IsMilestone,
                IsEnd
  <2> QED
    BY <2>1, <2>2, <2>3 DEF SliceInv
<1>4. scene # "writers" => Arrived' /\ built' = <<>>
  BY DEF SliceInv, vars, ledgerVars, attemptVars, Arrived, Lead
<1> QED
  BY <1>1, <1>3, <1>4 DEF SliceInv, vars

LEMMA SliceInvStays ==
  ASSUME SliceInv, [Next]_vars
  PROVE  SliceInv'
<1>1. LedgerInv'
  BY RaceStep, AllWrittenStays DEF SliceInv
<1>2. CASE scene = "writers" /\ WriterScene /\ UNCHANGED <<scene, script>>
  <2>1. Base'
    BY <1>2, BaseStays DEF SliceInv
  <2>2. Story' /\ Online'
    BY <1>2, <2>1, StoryStays, OnlineStays DEF SliceInv
  <2> QED
    BY <1>1, <1>2, <2>1, <2>2 DEF SliceInv
<1>3. CASE scene # "writers" /\ ReaderScene /\ UNCHANGED <<scene, script, attemptVars>>
  <2>1. Arrived' /\ built' = built
    BY <1>3, ArrivedStays DEF SliceInv, attemptVars
  <2> QED
    BY <1>1, <1>3, <2>1 DEF SliceInv
<1>4. CASE UNCHANGED vars
  BY <1>4, SameRace
<1> QED
  BY <1>2, <1>3, <1>4 DEF Next

(* The rows of an attempt tell one story (attemptTracker.ts:257-261), for any *)
(* number of scripts, crashes and sends that fail, arrive twice or overtake   *)
(* each other: nothing comes before the start, a rung once for a team and     *)
(* nothing after an end, and a won end follows its winning rung, which stays  *)
(* on the topic or on its way while the process that won lives.               *)
THEOREM SlicesStayCoherent == Spec => []SliceIsCoherent
<1>1. SliceInv /\ [Next]_vars => SliceInv'
  BY SliceInvStays
<1>2. SliceInv => SliceIsCoherent
  <2>1. built = <<>> => Range(built) = {}
    BY DEF Range
  <2> QED
    BY <2>1, WrittenSlices DEF SliceInv, SliceIsCoherent
<1> QED
  BY SliceInvAtFirst, <1>1, <1>2, PTL DEF Spec

-----------------------------------------------------------------------------
(* Ends.  An end of this life is known to the process, is being awaited, or  *)
(* was answered with an error.                                               *)

EndsOnce ==
  /\ \A e \in Built : IsEnd(e) => e.by <= life
  /\ \A e \in Built : IsEnd(e) /\ e.by = life => e \in refused \/ e.attempt \in closed \/ Awaited(e)
  /\ \A d, e \in Built :
       IsEnd(d) /\ IsEnd(e) /\ d.attempt = e.attempt /\ d.by = e.by /\ d.n < e.n => d \in refused
  /\ refused \subseteq Built

(* The actions that build no end, by what becomes of those already built.    *)
LEMMA EndsOnceFrame ==
  ASSUME Base, EndsOnce, life' = life,
         \A e \in Built' : IsEnd(e) => e \in Built, Built \subseteq Built',
         refused \subseteq refused', refused' \subseteq Built, closed \subseteq closed',
         \A e \in Built : Awaited(e) => e \in refused' \/ e.attempt \in closed' \/ Awaited(e)'
  PROVE  EndsOnce'
<1>1. \A e \in Built' : IsEnd(e) => e.by <= life'
  BY DEF EndsOnce
<1>2. \A e \in Built' : IsEnd(e) /\ e.by = life' => e \in refused' \/ e.attempt \in closed' \/ Awaited(e)'
  BY DEF EndsOnce
<1>3. \A d, e \in Built' :
        IsEnd(d) /\ IsEnd(e) /\ d.attempt = e.attempt /\ d.by = e.by /\ d.n < e.n => d \in refused'
  BY DEF EndsOnce
<1> QED
  BY <1>1, <1>2, <1>3 DEF EndsOnce, IsEnd

LEMMA EndsOnceStays ==
  ASSUME Base, Story, Online, EndsOnce, WriterScene
  PROVE  EndsOnce'
<1> USE DEF Base
<1>1. \A e \in Built : /\ e.n \in Nat /\ e.n <= Len(built) /\ e.n \in 1..Len(built) /\ built[e.n] = e
                       /\ IsEnd(e) => e.by \in Nat
  BY BuiltByNumber, StartsAreBuilt, EventKinds
<1>2. life \in Nat /\ Len(built) \in Nat
  BY StartsAreBuilt DEF Typed
<1>3. CASE SweepCloses
  <2>1. PICK e \in EndEvent :
           /\ Added(e) /\ e.attempt \in ToClose /\ e.by = life
           /\ sweep' = [sweep EXCEPT !.open = @ \ (0..e.attempt), !.stage = "sending", !.cursor = Len(built) + 1]
    BY <1>3, CloseSends
  <2>2. sweep.stage = "closing" /\ UNCHANGED <<closed, life, refused>>
    BY <1>3 DEF SweepCloses, trackerVars
  <2>3. /\ Built' = Built \union {e} /\ e.n = Len(built) + 1 /\ IsEnd(e) /\ e.attempt \notin closed
        /\ e \in Built'
    BY <2>1 DEF Added, EndEvent, IsEnd, ToClose, IsKnownLocally
  <2>4. Awaited(e)'
    <3>1. sweep'.stage = "sending" /\ sweep'.cursor = Len(built) + 1
      BY <2>1 DEF Typed, SweepType
    <3>2. built' \in Seq(Event) /\ \A i \in 1..Len(built') : built'[i].n = i
      BY <2>1 DEF Added, Numbered
    <3>3. PICK i \in 1..Len(built') : built'[i] = e
      <4>1. e \in Range(built')
        BY <2>3 DEF Built
      <4> QED
        BY <3>2, <4>1, InRange
    <3>4. i = Len(built) + 1
      BY <2>3, <3>2, <3>3
    <3> QED
      BY <3>1, <3>3, <3>4 DEF Awaited
  <2>5. \A d \in Built : ~Awaited(d)
    BY <2>2 DEF Awaited
  <2>6. \A d \in Built' : IsEnd(d) => d.by <= life'
    BY <1>2, <2>1, <2>2, <2>3 DEF EndsOnce
  <2>7. \A d \in Built' : IsEnd(d) /\ d.by = life' => d \in refused' \/ d.attempt \in closed' \/ Awaited(d)'
    BY <2>2, <2>3, <2>4, <2>5 DEF EndsOnce
  <2>8. ASSUME NEW d \in Built', NEW x \in Built', IsEnd(d), IsEnd(x), d.attempt = x.attempt, d.by = x.by, d.n < x.n
        PROVE  d \in refused'
    <3>1. d \in Built
      BY <1>1, <1>2, <2>3, <2>8
    <3>2. CASE x \in Built
      BY <2>2, <2>8, <3>1, <3>2 DEF EndsOnce
    <3>3. CASE x = e
      BY <2>1, <2>2, <2>3, <2>5, <2>8, <3>1, <3>3 DEF EndsOnce
    <3> QED
      BY <2>3, <3>2, <3>3
  <2>9. refused' \subseteq Built'
    BY <2>2, <2>3 DEF EndsOnce
  <2> QED
    BY <2>6, <2>7, <2>8, <2>9 DEF EndsOnce, IsEnd
<1>4. ASSUME NEW outcome \in Outcomes, Ends(outcome)
      PROVE  EndsOnce'
  <2>1. PICK e \in EndEvent : /\ Added(e) /\ e.attempt = active.attempt /\ e.by = life
                              /\ closed' = closed \union {active.attempt}
    BY <1>4, EndSends
  <2>2. UNCHANGED <<sweep, life, refused>>
    BY <1>4 DEF Ends, sweepVars
  <2>3. Built' = Built \union {e} /\ e.n = Len(built) + 1 /\ IsEnd(e) /\ e.attempt \in closed'
    BY <2>1 DEF Added, EndEvent, IsEnd
  <2>4. \A d \in Built : Awaited(d) => Awaited(d)'
    BY <2>1, <2>2 DEF Awaited, Added, Online, SweepOnline
  <2>5. \A d \in Built' : IsEnd(d) => d.by <= life'
    BY <1>2, <2>1, <2>2, <2>3 DEF EndsOnce
  <2>6. \A d \in Built' : IsEnd(d) /\ d.by = life' => d \in refused' \/ d.attempt \in closed' \/ Awaited(d)'
    BY <2>1, <2>2, <2>3, <2>4 DEF EndsOnce
  <2>7. ASSUME NEW d \in Built', NEW x \in Built', IsEnd(d), IsEnd(x), d.attempt = x.attempt, d.by = x.by, d.n < x.n
        PROVE  d \in refused'
    <3>1. d \in Built
      BY <1>1, <1>2, <2>3, <2>7
    <3>2. CASE x \in Built
      BY <2>2, <2>7, <3>1, <3>2 DEF EndsOnce
    <3>3. CASE x = e
      BY <2>1, <2>7, <3>1, <3>3 DEF Story
    <3> QED
      BY <2>3, <3>2, <3>3
  <2>8. refused' \subseteq Built'
    BY <2>2, <2>3 DEF EndsOnce
  <2> QED
    BY <2>5, <2>6, <2>7, <2>8 DEF EndsOnce, IsEnd
<1>5. CASE StartsNew
  <2>1. PICK e \in StartEvent : Added(e)
    BY <1>5, StartSends
  <2>2. /\ Built' = Built \union {e} /\ ~IsEnd(e) /\ UNCHANGED <<closed, life, refused>>
        /\ \A d \in Built : ~Awaited(d)
    BY <1>5, <2>1 DEF StartsNew, Added, StartEvent, IsEnd, Awaited
  <2> QED
    BY <2>2, EndsOnceFrame DEF EndsOnce
<1>6. ASSUME NEW o \in Outcome, Observe(o)
      PROVE  EndsOnce'
  <2>1. PICK news \in Seq(MilestoneEvent) : Send(news)
    BY <1>6, ObserveSends
  <2>2. UNCHANGED <<closed, sweep, life, refused>>
    BY <1>6 DEF Observe, sweepVars
  <2>3. news \in Seq(Event) /\ \A m \in Range(news) : m \in MilestoneEvent
    <3>1. MilestoneEvent \subseteq Event
      BY DEF Event
    <3> HIDE DEF MilestoneEvent
    <3> QED
      BY <3>1, InRange
  <2>4. built' = built \o news /\ built \in Seq(Event)
    BY <2>1 DEF Send, Numbered
  <2>5. Built' = Built \union Range(news) /\ \A i \in 1..Len(built) : built'[i] = built[i]
    BY <1>2, <2>3, <2>4, RangeConcatenation, ConcatProperties DEF Built
  <2>6. \A m \in Range(news) : ~IsEnd(m)
    BY <2>3 DEF MilestoneEvent, IsEnd
  <2>7. \A e \in Built : Awaited(e) => Awaited(e)'
    BY <2>2, <2>5 DEF Awaited, Online, SweepOnline
  <2> QED
    BY <2>2, <2>5, <2>6, <2>7, EndsOnceFrame DEF EndsOnce
<1>7. ASSUME NEW x \in flight, Delivered(x)
      PROVE  EndsOnce'
  <2>1. /\ Built' = Built
        /\ \/ Awaited(x) /\ closed' = closed \union {x.attempt}
           \/ UNCHANGED <<closed, sweep>>
        /\ UNCHANGED <<built, life, refused>>
    BY <1>7, DeliverMoves
  <2>2. \A e \in Built : Awaited(e) => e.attempt \in closed' \/ Awaited(e)'
    BY <2>1 DEF Awaited
  <2> QED
    BY <2>1, <2>2, EndsOnceFrame DEF EndsOnce
<1>8. ASSUME NEW x \in flight, GivesUp(x)
      PROVE  EndsOnce'
  <2>1. /\ Built' = Built /\ x \in Built /\ x = built[sweep.cursor]
        /\ refused' = refused \union {x} /\ UNCHANGED <<closed, life>>
    BY <1>8, GivesUpMoves, InFlight
  <2>2. \A e \in Built : Awaited(e) => e \in refused'
    BY <2>1 DEF Awaited
  <2> QED
    BY <2>1, <2>2, EndsOnceFrame DEF EndsOnce
<1>9. CASE Crash
  <2>1. life' = life + 1 /\ UNCHANGED <<built, refused>> /\ Built' = Built
    BY <1>9 DEF Crash, Built
  <2>2. \A e \in Built : IsEnd(e) => e.by <= life' /\ e.by # life'
    BY <1>1, <1>2, <2>1 DEF EndsOnce
  <2> QED
    BY <2>1, <2>2 DEF EndsOnce, IsEnd
<1>10. CASE SweepBegins \/ SweepReads \/ Rests
  <2>1. UNCHANGED <<built, closed, life, refused>> /\ sweep.stage # "sending"
    BY <1>10 DEF SweepBegins, SweepReads, Rests, trackerVars, Idle
  <2>2. Built' = Built /\ \A e \in Built : ~Awaited(e)
    BY <2>1 DEF Built, Awaited
  <2> QED
    BY <2>1, <2>2, EndsOnceFrame DEF EndsOnce
<1>11. CASE UNCHANGED <<built, closed, sweep, life, refused>>
  <2>1. Built' = Built /\ \A e \in Built : Awaited(e) => Awaited(e)'
    BY <1>11 DEF Built, Awaited
  <2> QED
    BY <1>11, <2>1, EndsOnceFrame DEF EndsOnce
<1>12. \A x \in flight : Fails(x) => UNCHANGED <<built, closed, sweep, life, refused>>
  BY FailsMoves
<1> QED
  BY <1>3, <1>4, <1>5, <1>6, <1>7, <1>8, <1>9, <1>10, <1>11, <1>12, WriterMoves DEF Quiet, attemptVars, trackerVars

LEMMA EndsOnceMeansOnce ==
  ASSUME Numbered, EndsOnce
  PROVE  EndedOncePerProcess
BY BuiltByNumber DEF EndsOnce, EndedOncePerProcess, IsEnd

-----------------------------------------------------------------------------
(* What the guard's sweep saw open has an end that is not lost.              *)

Safe(e) == e \in OnTopic \/ (e \notin refused /\ ~Awaited(e))

KeptEnd(a) == \E e \in Built : IsEnd(e) /\ e.attempt = a /\ Safe(e)

Unread(a) == sweep.stage = "reading" /\ \E s \in stored : IsStart(s) /\ s.attempt = a /\ s.n > sweep.cursor

Closing(a) == sweep.stage = "sending" /\ built[sweep.cursor].attempt = a

Guard ==
  /\ \A a \in closed : KeptEnd(a)
  /\ \A s \in Starts : \A a \in s.known : \E e \in Built : IsEnd(e) /\ e.attempt = a /\ e.n <= s.n /\ Safe(e)
  /\ \A a \in sweep.known :
       /\ a # 0
       /\ KeptEnd(a) \/ a \in sweep.open \/ a = active.attempt \/ Closing(a) \/ Unread(a)

(* An end that is safe stays safe.                                           *)
LEMMA SafeStays ==
  ASSUME Base, Base', Online, EndsOnce, WriterScene, NEW e \in Built, Safe(e)
  PROVE  Safe(e)'
<1>1. OnTopic \subseteq OnTopic'
  <2>1. \A p \in Partition : TopicOf(p) \subseteq TopicOf(p)'
    <3>1. UNCHANGED topic => \A p \in Partition : TopicOf(p)' = TopicOf(p)
      BY DEF TopicOf
    <3>2. \A x \in flight : Delivered(x) \/ Fails(x) => \A p \in Partition : TopicOf(p) \subseteq TopicOf(p)'
      BY DeliverMoves, FailsMoves
    <3>4. \A x \in flight : GivesUp(x) => UNCHANGED topic
      BY GivesUpMoves
    <3>3. UNCHANGED topic \/ \E x \in flight : Delivered(x) \/ Fails(x)
      BY <3>4, WriterMoves DEF Base, Observe, SweepBegins, SweepReads, SweepCloses, Rests, StartsNew, Quiet, Ends, Crash,
                         Catches, ledgerVars
    <3> QED
      BY <3>1, <3>2, <3>3
  <2>2. ASSUME NEW d \in OnTopic
        PROVE  d \in OnTopic'
    <3>1. PICK p \in Partition : d \in TopicOf(p)
      BY DEF OnTopic, TopicOf
    <3>2. d \in Range(topic'[p])
      BY <2>1, <3>1 DEF TopicOf
    <3>3. d # Poison
      BY DEF OnTopic
    <3> QED
      BY <3>2, <3>3 DEF OnTopic
  <2> QED
    BY <2>2
<1>2. ASSUME e \notin refused, ~Awaited(e)
      PROVE  Safe(e)'
  <2>1. e.n <= Len(built) /\ e.n \in Nat /\ Len(built) \in Nat
    BY StartsAreBuilt DEF Base
  <2>2. CASE SweepCloses
    <3>1. PICK x \in EndEvent :
             /\ Added(x)
             /\ sweep' = [sweep EXCEPT !.open = @ \ (0..x.attempt), !.stage = "sending", !.cursor = Len(built) + 1]
      BY <2>2, CloseSends
    <3>2. refused' = refused
      BY <2>2 DEF SweepCloses
    <3>3. built'[sweep'.cursor] # e
      <4>1. sweep'.cursor = Len(built) + 1 /\ Len(built') = Len(built) + 1
        BY <3>1 DEF Base, Typed, SweepType, Added
      <4>2. built'[Len(built) + 1].n = Len(built) + 1
        BY <2>1, <3>1, <4>1 DEF Added, Numbered
      <4> QED
        BY <2>1, <4>1, <4>2
    <3> QED
      BY <1>2, <3>2, <3>3 DEF Safe, Awaited
  <2>3. ASSUME NEW x \in flight, GivesUp(x)
        PROVE  Safe(e)'
    <3>1. /\ sweep.stage = "sending" /\ x = built[sweep.cursor] /\ sweep' = Idle
          /\ refused' = refused \union {x}
      BY <2>3, GivesUpMoves
    <3> QED
      BY <1>2, <3>1, RestTyped DEF Safe, Awaited
  <2>4. CASE /\ refused' = refused
             /\ sweep'.stage = "sending" =>
                  sweep.stage = "sending" /\ sweep'.cursor = sweep.cursor /\ built'[sweep.cursor] = built[sweep.cursor]
    BY <1>2, <2>4 DEF Safe, Awaited
  <2>5. ASSUME NEW x \in flight, Delivered(x) \/ Fails(x)
        PROVE  Safe(e)'
    <3>1. /\ sweep' = [sweep EXCEPT !.stage = "closing"] \/ sweep' = sweep
          /\ UNCHANGED <<built, refused>>
      BY <2>5, DeliverMoves, FailsMoves
    <3>2. sweep'.stage = "sending" => sweep.stage = "sending" /\ sweep'.cursor = sweep.cursor
      BY <3>1 DEF Base, Typed, SweepType
    <3> QED
      BY <2>4, <3>1, <3>2
  <2>6. CASE sweep'.stage # "sending" /\ refused' = refused
    BY <2>4, <2>6
  <2>7. SweepBegins \/ SweepReads \/ Rests \/ StartsNew \/ Crash => sweep'.stage # "sending" /\ refused' = refused
    BY RestTyped DEF SweepBegins, SweepReads, Rests, StartsNew, Crash, Base, Typed, SweepType, Idle
  <2>8. CASE /\ UNCHANGED <<sweep, refused>> /\ \A i \in 1..Len(built) : built'[i] = built[i]
    BY <2>4, <2>8 DEF Online, SweepOnline
  <2>9. ASSUME NEW o \in Outcome, Observe(o)
        PROVE  UNCHANGED <<sweep, refused>> /\ \A i \in 1..Len(built) : built'[i] = built[i]
    <3>1. PICK news \in Seq(MilestoneEvent) : Send(news)
      BY <2>9, ObserveSends
    <3>2. news \in Seq(Event) /\ built' = built \o news /\ built \in Seq(Event)
      <4>1. MilestoneEvent \subseteq Event
        BY DEF Event
      <4> HIDE DEF MilestoneEvent
      <4> QED
        BY <3>1, <4>1 DEF Send, Base, Numbered
    <3> QED
      BY <2>9, <3>2, ConcatProperties DEF Observe, sweepVars
  <2>10. ASSUME NEW outcome \in Outcomes, Ends(outcome)
         PROVE  UNCHANGED <<sweep, refused>> /\ \A i \in 1..Len(built) : built'[i] = built[i]
    BY <2>10, EndSends DEF Ends, sweepVars, Added
  <2>11. CASE UNCHANGED <<sweep, refused, built>>
    BY <2>8, <2>11
  <2> QED
    BY <2>2, <2>3, <2>5, <2>6, <2>7, <2>8, <2>9, <2>10, <2>11, WriterMoves DEF Base, Quiet, attemptVars
<1>3. CASE e \in OnTopic
  BY <1>1, <1>3 DEF Safe
<1> QED
  BY <1>2, <1>3 DEF Safe

LEMMA BuiltGrows ==
  ASSUME Base, Base', WriterScene
  PROVE  Built \subseteq Built'
<1>1. ASSUME NEW o \in Outcome, Observe(o)
      PROVE  Built \subseteq Built'
  <2>1. PICK news \in Seq(MilestoneEvent) : Send(news)
    BY <1>1, ObserveSends
  <2>2. news \in Seq(Event) /\ built' = built \o news /\ built \in Seq(Event)
    <3>1. MilestoneEvent \subseteq Event
      BY DEF Event
    <3> HIDE DEF MilestoneEvent
    <3> QED
      BY <2>1, <3>1 DEF Send, Base, Numbered
  <2> QED
    BY <2>2, RangeConcatenation DEF Built
<1>2. SweepCloses \/ StartsNew \/ (\E outcome \in Outcomes : Ends(outcome)) => Built \subseteq Built'
  BY CloseSends, StartSends, EndSends DEF Added
<1>3. UNCHANGED built => Built \subseteq Built'
  BY DEF Built
<1> QED
  BY <1>1, <1>2, <1>3, WriterMoves DEF Base, Delivered, Fails, GivesUp, SweepBegins, SweepReads, Rests, Quiet, Crash,
                                       attemptVars

(* What the guard knows of stays accounted for while the sweep goes on.      *)
LEMMA GuardKnows ==
  ASSUME Base, Base', Story, Online, EndsOnce, Guard, WriterScene,
         \A a : KeptEnd(a) => KeptEnd(a)', NEW a \in sweep'.known
  PROVE  /\ a # 0
         /\ KeptEnd(a)' \/ a \in sweep'.open \/ a = active'.attempt \/ Closing(a)' \/ Unread(a)'
<1> USE DEF Base
<1> DEFINE Before == a # 0 /\ (KeptEnd(a) \/ a \in sweep.open \/ a = active.attempt \/ Closing(a) \/ Unread(a))
<1>1. a \in sweep.known => Before
  BY DEF Guard
<1>2. CASE SweepBegins
  <2>1. /\ sweep'.stage = "reading" /\ sweep'.cursor = 0 /\ sweep'.known = AttemptsIn(stored, "AttemptStarted")
        /\ stored' = stored
    BY <1>2 DEF SweepBegins, Idle, ledgerVars
  <2>2. PICK s \in stored : IsStart(s) /\ s.attempt = a
    BY <2>1 DEF AttemptsIn, OfType, IsStart
  <2>3. s \in Built
    BY DEF Rows, Lines
  <2>4. a # 0 /\ s.n > 0
    <3>1. s.attempt \in 1..Begun /\ Begun \in Nat /\ s.n \in 1..Len(built) /\ Len(built) \in Nat
      BY <2>3, BegunAreAttempts, BuiltByNumber DEF Known
    <3> QED
      BY <2>2, <3>1
  <2> QED
    BY <2>1, <2>2, <2>4 DEF Unread, IsStart
<1>3. CASE SweepReads
  <2> DEFINE page == Page(Lifecycle, sweep.cursor)
  <2>1. /\ sweep.stage = "reading" /\ sweep.cursor \in Nat
        /\ sweep'.known = sweep.known /\ sweep'.cursor = CursorOf(page, sweep.cursor)
        /\ sweep'.open = (sweep.open \union AttemptsIn(page, "AttemptStarted")) \ AttemptsIn(page, "AttemptEnded")
        /\ sweep'.stage = IF HasNextPage(Lifecycle, sweep.cursor) THEN "reading" ELSE "closing"
        /\ UNCHANGED <<stored, active, topic>>
    BY <1>3 DEF SweepReads, Typed, SweepType, ledgerVars, trackerVars
  <2>2. page \subseteq stored
    BY DEF Page, Matching
  <2>3. ASSUME a \in AttemptsIn(page, "AttemptEnded")
        PROVE  KeptEnd(a)
    <3>1. PICK e \in page : IsEnd(e) /\ e.attempt = a
      BY <2>3 DEF AttemptsIn, OfType, IsEnd
    <3>2. PICK p \in Partition : e \in TopicOf(p)
      BY <2>2, <3>1 DEF Rows
    <3>3. e \in Built /\ e \in Event /\ e # Poison
      BY <3>2, BuiltByNumber, EventKinds DEF Lines
    <3>4. e \in OnTopic
      BY <3>2, <3>3 DEF OnTopic, TopicOf
    <3> QED
      BY <3>1, <3>3, <3>4 DEF KeptEnd, Safe
  <2>4. CASE KeptEnd(a) \/ a = active.attempt \/ a \in sweep.open
    BY <1>1, <2>1, <2>3, <2>4
  <2>5. CASE Closing(a)
    BY <2>1, <2>5 DEF Closing
  <2>6. CASE Unread(a)
    <3>1. PICK s \in stored : IsStart(s) /\ s.attempt = a /\ s.n > sweep.cursor
      BY <2>6 DEF Unread
    <3>2. s \in Matching(Lifecycle, sweep.cursor) /\ s.n \in Nat
      <4>1. s \in Built
        BY DEF Rows, Lines
      <4> QED
        BY <3>1, <4>1, StartsAreBuilt DEF Matching, Lifecycle, IsStart
    <3>3. CASE s \in page
      <4>1. a \in AttemptsIn(page, "AttemptStarted")
        BY <3>1, <3>3 DEF AttemptsIn, OfType, IsStart
      <4> QED
        BY <1>1, <2>1, <2>3, <4>1
    <3>4. CASE s \notin page
      <4>1. sweep'.stage = "reading"
        BY <2>1, <3>2, <3>4, PageFacts
      <4>2. s.n > sweep'.cursor
        <5>1. \A e \in page : e.n \in Nat /\ ~(s.n <= e.n)
          <6>1. \A e \in stored : e \in Built
            BY DEF Rows, Lines
          <6> QED
            BY <2>1, <2>2, <3>2, <3>4, <6>1, PageFacts, StartsAreBuilt
        <5>2. sweep'.cursor = sweep.cursor \/ \E e \in page : e.n = sweep'.cursor
          BY <2>1, PageFacts
        <5> QED
          BY <2>1, <3>1, <3>2, <5>1, <5>2
      <4> QED
        BY <1>1, <2>1, <3>1, <4>1, <4>2 DEF Unread, IsStart
    <3> QED
      BY <3>3, <3>4
  <2> QED
    BY <1>1, <2>1, <2>4, <2>5, <2>6
<1>4. CASE SweepCloses
  <2>1. PICK e \in EndEvent :
           /\ Added(e) /\ e.attempt \in ToClose
           /\ \A b \in ToClose : e.attempt <= b
           /\ sweep' = [sweep EXCEPT !.open = @ \ (0..e.attempt), !.stage = "sending", !.cursor = Len(built) + 1]
    BY <1>4, CloseSends
  <2>2. sweep.stage = "closing" /\ UNCHANGED <<active, closed>>
    BY <1>4 DEF SweepCloses, trackerVars
  <2>3. /\ sweep'.known = sweep.known /\ sweep'.open = sweep.open \ (0..e.attempt)
        /\ sweep'.stage = "sending" /\ sweep'.cursor = Len(built) + 1
    BY <2>1 DEF Typed, SweepType
  <2>4. built'[sweep'.cursor] = e
    <3>1. e \in Range(built') /\ built' \in Seq(Event) /\ \A i \in 1..Len(built') : built'[i].n = i
      BY <2>1 DEF Added, Numbered, Built
    <3>2. PICK i \in 1..Len(built') : built'[i] = e
      BY <3>1, InRange
    <3>3. i = Len(built) + 1
      BY <2>1, <3>1, <3>2 DEF Added
    <3> QED
      BY <2>3, <3>2, <3>3
  <2>5. CASE KeptEnd(a) \/ a = active.attempt
    BY <1>1, <2>2, <2>3, <2>5
  <2>6. CASE Closing(a) \/ Unread(a)
    BY <2>2, <2>6 DEF Closing, Unread
  <2>7. CASE a \in sweep.open
    <3>1. CASE a \in ToClose
      <4>1. a \in Nat /\ e.attempt \in Nat /\ e.attempt <= a
        BY <2>1, <3>1 DEF Typed, SweepType, ToClose
      <4>2. a = e.attempt \/ a \in sweep'.open
        BY <2>3, <2>7, <4>1
      <4>3. a = e.attempt => Closing(a)'
        BY <2>3, <2>4 DEF Closing
      <4> QED
        BY <1>1, <2>3, <4>2, <4>3
    <3>2. CASE a \notin ToClose
      <4>1. a = active.attempt \/ a \in closed
        BY <2>7, <3>2 DEF ToClose, IsKnownLocally
      <4> QED
        BY <1>1, <2>2, <2>3, <4>1 DEF Guard
    <3> QED
      BY <3>1, <3>2
  <2> QED
    BY <1>1, <2>3, <2>5, <2>6, <2>7
<1>5. CASE sweep' = Idle
  BY <1>5 DEF Idle
<1>6. CASE UNCHANGED sweep /\ active'.attempt = active.attempt /\ stored \subseteq stored'
           /\ \A i \in 1..Len(built) : built'[i] = built[i]
  <2>1. Closing(a) => Closing(a)'
    BY <1>6 DEF Closing, Online, SweepOnline
  <2>2. Unread(a) => Unread(a)'
    BY <1>6 DEF Unread, IsStart
  <2> QED
    BY <1>1, <1>6, <2>1, <2>2
<1>7. ASSUME NEW o \in Outcome, Observe(o)
      PROVE  UNCHANGED sweep /\ active'.attempt = active.attempt /\ stored \subseteq stored'
             /\ \A i \in 1..Len(built) : built'[i] = built[i]
  <2>1. PICK news \in Seq(MilestoneEvent) : Send(news) /\ active'.attempt = active.attempt
    BY <1>7, ObserveSends
  <2>2. news \in Seq(Event) /\ built' = built \o news /\ built \in Seq(Event)
    <3>1. MilestoneEvent \subseteq Event
      BY DEF Event
    <3> HIDE DEF MilestoneEvent
    <3> QED
      BY <2>1, <3>1 DEF Send, Numbered
  <2> QED
    BY <1>7, <2>1, <2>2, ConcatProperties DEF Observe, sweepVars, ledgerVars
<1>8. ASSUME NEW outcome \in Outcomes, Ends(outcome)
      PROVE  /\ a # 0
             /\ KeptEnd(a)' \/ a \in sweep'.open \/ a = active'.attempt \/ Closing(a)' \/ Unread(a)'
  <2>1. PICK e \in EndEvent : Added(e) /\ e.attempt = active.attempt /\ active' = NoAttempt
    BY <1>8, EndSends
  <2>2. UNCHANGED <<sweep, stored, refused>>
    BY <1>8 DEF Ends, sweepVars, ingestVars
  <2>3. CASE a = active.attempt
    <3>1. e \notin refused' /\ ~Awaited(e)'
      <4>1. e \notin refused
        BY <2>1 DEF EndsOnce, Added
      <4>2. sweep.stage = "sending" => built'[sweep.cursor] \in Built
        BY <2>1, BuiltByNumber DEF Online, SweepOnline, Added
      <4> QED
        BY <2>1, <2>2, <4>1, <4>2 DEF Awaited, Added
    <3>2. KeptEnd(a)'
      BY <2>1, <2>3, <3>1 DEF KeptEnd, Safe, Added, EndEvent, IsEnd
    <3> QED
      BY <1>1, <2>2, <3>2
  <2>4. Closing(a) => Closing(a)'
    BY <2>1, <2>2 DEF Closing, Online, SweepOnline, Added
  <2>5. Unread(a) => Unread(a)'
    BY <2>2 DEF Unread, IsStart
  <2> QED
    BY <1>1, <2>2, <2>3, <2>4, <2>5
<1>9. ASSUME NEW x \in flight, Delivered(x)
      PROVE  /\ a # 0
             /\ KeptEnd(a)' \/ a \in sweep'.open \/ a = active'.attempt \/ Closing(a)' \/ Unread(a)'
  <2>1. /\ Built' = Built /\ x \in TopicOf(PartitionOf[x.attempt])'
        /\ \/ Awaited(x) /\ sweep' = [sweep EXCEPT !.stage = "closing"]
           \/ UNCHANGED <<closed, sweep>>
        /\ UNCHANGED <<stored, built, active>>
    BY <1>9, DeliverMoves
  <2>2. CASE UNCHANGED sweep
    BY <1>6, <2>1, <2>2
  <2>3. CASE Awaited(x) /\ sweep' = [sweep EXCEPT !.stage = "closing"]
    <3>1. /\ sweep'.known = sweep.known /\ sweep'.open = sweep.open /\ sweep.stage = "sending"
          /\ x = built[sweep.cursor]
      BY <2>3 DEF Awaited, Typed, SweepType
    <3>2. ASSUME Closing(a)
          PROVE  KeptEnd(a)'
      <4>1. x \in Built' /\ IsEnd(x) /\ x.attempt = a
        BY <2>1, <3>1, <3>2, InFlight DEF Closing, Online, SweepOnline
      <4>2. x \in OnTopic'
        BY <2>1, TakenIsOnTopic
      <4> QED
        BY <4>1, <4>2 DEF KeptEnd, Safe, IsEnd
    <3>3. ~Unread(a)
      BY <3>1 DEF Unread
    <3> QED
      BY <1>1, <2>1, <3>1, <3>2, <3>3
  <2> QED
    BY <2>1, <2>2, <2>3
<1>10. \A x \in flight : Fails(x) => UNCHANGED <<sweep, active, built, stored>>
  BY FailsMoves
<1>11. CASE UNCHANGED <<sweep, active, built>> /\ stored \subseteq stored'
  BY <1>6, <1>11
<1>12. \A x \in flight : GivesUp(x) => sweep' = Idle
  BY GivesUpMoves
<1> QED
  BY <1>2, <1>3, <1>4, <1>5, <1>6, <1>7, <1>8, <1>9, <1>10, <1>11, <1>12, WriterMoves
     DEF Rests, StartsNew, Crash, Quiet, Catches, attemptVars, trackerVars

LEMMA GuardStays ==
  ASSUME Base, Base', Story, Online, EndsOnce, Guard, WriterScene
  PROVE  Guard'
<1> USE DEF Base
<1>1. \A e \in Built : Safe(e) => Safe(e)'
  BY SafeStays
<1>2. Built \subseteq Built'
  BY BuiltGrows
<1>3. \A a : KeptEnd(a) => KeptEnd(a)'
  BY <1>1, <1>2 DEF KeptEnd, IsEnd
<1>4. ASSUME NEW a \in sweep'.known
      PROVE  /\ a # 0
             /\ KeptEnd(a)' \/ a \in sweep'.open \/ a = active'.attempt \/ Closing(a)' \/ Unread(a)'
  BY <1>3, <1>4, GuardKnows
<1>5. ASSUME NEW a \in closed'
      PROVE  KeptEnd(a)'
  <2>1. CASE a \in closed
    BY <1>3, <2>1 DEF Guard
  <2>2. CASE a \notin closed
    <3>1. ASSUME NEW x \in flight, Delivered(x)
          PROVE  KeptEnd(a)'
      <4>1. /\ Built' = Built /\ x \in TopicOf(PartitionOf[x.attempt])'
            /\ (Awaited(x) /\ closed' = closed \union {x.attempt}) \/ UNCHANGED closed
        BY <3>1, DeliverMoves
      <4>2. x \in Built' /\ IsEnd(x) /\ x.attempt = a
        BY <1>5, <2>2, <4>1, InFlight DEF Awaited, Online, SweepOnline
      <4>3. x \in OnTopic'
        BY <4>1, TakenIsOnTopic
      <4> QED
        BY <4>2, <4>3 DEF KeptEnd, Safe, IsEnd
    <3>2. ASSUME NEW outcome \in Outcomes, Ends(outcome)
          PROVE  KeptEnd(a)'
      <4>1. PICK e \in EndEvent : Added(e) /\ e.attempt = active.attempt /\ closed' = closed \union {active.attempt}
        BY <3>2, EndSends
      <4>2. UNCHANGED <<sweep, refused>>
        BY <3>2 DEF Ends, sweepVars
      <4>3. e \notin refused' /\ ~Awaited(e)'
        <5>1. e \notin refused
          BY <4>1 DEF EndsOnce, Added
        <5>2. sweep.stage = "sending" => built'[sweep.cursor] \in Built
          BY <4>1, BuiltByNumber DEF Online, SweepOnline, Added
        <5> QED
          BY <4>1, <4>2, <5>1, <5>2 DEF Awaited, Added
      <4>4. a = e.attempt
        BY <1>5, <2>2, <4>1
      <4> QED
        BY <4>1, <4>3, <4>4 DEF KeptEnd, Safe, Added, EndEvent, IsEnd
    <3>3. UNCHANGED closed \/ closed' = {} \/ (\E x \in flight : Delivered(x))
            \/ (\E outcome \in Outcomes : Ends(outcome))
      BY WriterMoves DEF Fails, GivesUp, Observe, SweepBegins, SweepReads, SweepCloses, Rests, StartsNew, Quiet, Crash,
                         attemptVars, trackerVars
    <3> QED
      BY <1>5, <2>2, <3>1, <3>2, <3>3
  <2> QED
    BY <2>1, <2>2
<1>6. ASSUME NEW s \in Starts', NEW a \in s.known
      PROVE  \E e \in Built' : IsEnd(e) /\ e.attempt = a /\ e.n <= s.n /\ Safe(e)'
  <2>1. CASE s \in Starts
    <3>1. PICK e \in Built : IsEnd(e) /\ e.attempt = a /\ e.n <= s.n /\ Safe(e)
      BY <1>6, <2>1 DEF Guard
    <3> QED
      BY <1>1, <1>2, <3>1
  <2>2. CASE s \notin Starts /\ StartsNew
    <3>1. PICK x \in StartEvent : Added(x) /\ x.known = sweep.known
      BY <2>2, StartSends
    <3>2. s = x /\ s.n = Len(built) + 1
      BY <2>2, <3>1 DEF Added, Starts, OfType
    <3>3. /\ sweep.stage = "closing" /\ ToClose = {} /\ active = NoAttempt
          /\ a \in sweep.known /\ a # 0
      BY <1>6, <2>2, <3>1, <3>2 DEF StartsNew, Guard
    <3>4. KeptEnd(a)
      <4>1. KeptEnd(a) \/ a \in sweep.open
        BY <3>3, RestTyped DEF Guard, Closing, Unread
      <4>2. a \in sweep.open => a \in closed
        BY <3>3, RestTyped DEF ToClose, IsKnownLocally
      <4> QED
        BY <4>1, <4>2 DEF Guard
    <3>5. PICK e \in Built : IsEnd(e) /\ e.attempt = a /\ Safe(e)
      BY <3>4 DEF KeptEnd
    <3>6. e.n <= s.n
      BY <3>2, <3>5, StartsAreBuilt
    <3> QED
      BY <1>1, <1>2, <3>5, <3>6
  <2>3. StartsNew \/ Starts' \subseteq Starts
    <3>1. SweepCloses \/ (\E outcome \in Outcomes : Ends(outcome)) => Starts' \subseteq Starts
      <4>1. ASSUME NEW e \in EndEvent, Added(e)
            PROVE  Starts' \subseteq Starts
        BY <4>1 DEF Added, Starts, OfType, EndEvent
      <4>2. SweepCloses => \E e \in EndEvent : Added(e)
        BY CloseSends
      <4>3. ASSUME NEW outcome \in Outcomes, Ends(outcome)
            PROVE  \E e \in EndEvent : Added(e)
        BY <4>3, EndSends
      <4> QED
        BY <4>1, <4>2, <4>3
    <3>2. ASSUME NEW o \in Outcome, Observe(o)
          PROVE  Starts' \subseteq Starts
      <4>1. PICK news \in Seq(MilestoneEvent) : Send(news)
        BY <3>2, ObserveSends
      <4>2. news \in Seq(Event) /\ built' = built \o news /\ built \in Seq(Event)
            /\ \A m \in Range(news) : m \in MilestoneEvent
        <5>1. MilestoneEvent \subseteq Event
          BY DEF Event
        <5> HIDE DEF MilestoneEvent
        <5> QED
          BY <4>1, <5>1, InRange DEF Send, Numbered
      <4>3. Built' = Built \union Range(news)
        BY <4>2, RangeConcatenation DEF Built
      <4> QED
        BY <4>2, <4>3 DEF Starts, OfType, MilestoneEvent
    <3>3. UNCHANGED built => Starts' = Starts
      BY DEF Starts, Built
    <3> QED
      BY <3>1, <3>2, <3>3, WriterMoves DEF Delivered, Fails, GivesUp, SweepBegins, SweepReads, Rests, Quiet, Crash, attemptVars
  <2> QED
    BY <1>6, <2>1, <2>2, <2>3
<1> QED
  BY <1>4, <1>5, <1>6 DEF Guard, IsEnd

LEMMA GuardMeansNothingKnown ==
  ASSUME Base, Guard
  PROVE  StartsOverNothingKnown
<1> SUFFICES ASSUME NEW j \in DOMAIN built, built[j].type = "AttemptStarted", NEW a \in built[j].known
             PROVE  \E i \in 1..j : /\ built[i].type = "AttemptEnded" /\ built[i].attempt = a
                                    /\ (built[i] \in refused => built[i] \in OnTopic)
  BY DEF StartsOverNothingKnown
<1>1. j \in 1..Len(built) /\ built[j] \in Starts /\ built[j].n = j /\ Len(built) \in Nat
  BY BuiltByNumber, StartsAreBuilt DEF Base, IsStart
<1>2. PICK e \in Built : IsEnd(e) /\ e.attempt = a /\ e.n <= built[j].n /\ Safe(e)
  BY <1>1 DEF Guard
<1>3. e.n \in 1..Len(built) /\ built[e.n] = e
  BY BuiltByNumber DEF Base
<1>4. e.n \in 1..j
  BY <1>1, <1>2, <1>3
<1> QED
  BY <1>2, <1>3, <1>4 DEF Safe, IsEnd

-----------------------------------------------------------------------------
(* What the ledger showed as ended when the sweep began is never open when   *)
(* the last page is read.                                                    *)
Paged ==
  \A a \in sweep.ended : \E e \in stored :
    /\ IsEnd(e) /\ e.attempt = a
    /\ IF sweep.stage = "reading" /\ e.n > sweep.cursor
       THEN TRUE
       ELSE a \notin sweep.open /\ (sweep.stage = "reading" => e.n <= sweep.cursor)

LEMMA PagedStays ==
  ASSUME Base, Base', Story, Online, Paged, WriterScene
  PROVE  Paged'
<1> USE DEF Base
<1>1. CASE SweepBegins
  <2>1. /\ sweep'.stage = "reading" /\ sweep'.cursor = 0 /\ sweep'.ended = AttemptsIn(stored, "AttemptEnded")
        /\ stored' = stored
    BY <1>1 DEF SweepBegins, Idle, ledgerVars
  <2>2. \A e \in stored : e.n > 0
    <3>1. \A e \in stored : e \in Built
      BY DEF Rows, Lines
    <3>2. \A e \in Built : e.n \in 1..Len(built) /\ Len(built) \in Nat
      BY BuiltByNumber
    <3> QED
      BY <3>1, <3>2
  <2> QED
    BY <2>1, <2>2 DEF Paged, AttemptsIn, OfType, IsEnd
<1>2. CASE SweepReads
  <2> DEFINE page == Page(Lifecycle, sweep.cursor)
  <2>1. /\ sweep.stage = "reading" /\ sweep.cursor \in Nat
        /\ sweep'.ended = sweep.ended /\ sweep'.cursor = CursorOf(page, sweep.cursor)
        /\ sweep'.open = (sweep.open \union AttemptsIn(page, "AttemptStarted")) \ AttemptsIn(page, "AttemptEnded")
        /\ sweep'.stage = IF HasNextPage(Lifecycle, sweep.cursor) THEN "reading" ELSE "closing"
        /\ stored' = stored
    BY <1>2 DEF SweepReads, Typed, SweepType, ledgerVars
  <2>2. /\ \A e \in stored : e \in Built /\ e.n \in Nat
        /\ page \subseteq stored
        /\ \A e \in page : e.n > sweep.cursor
    <3>1. \A e \in stored : e \in Built
      BY DEF Rows, Lines
    <3> QED
      BY <3>1, StartsAreBuilt DEF Page, Matching
  <2>3. /\ page \subseteq Matching(Lifecycle, sweep.cursor)
        /\ \A d \in Matching(Lifecycle, sweep.cursor), e \in page : d.n <= e.n => d \in page
        /\ ~HasNextPage(Lifecycle, sweep.cursor) => page = Matching(Lifecycle, sweep.cursor)
        /\ sweep'.cursor \in Nat /\ sweep.cursor <= sweep'.cursor
        /\ \A e \in page : e.n <= sweep'.cursor
        /\ sweep'.cursor = sweep.cursor \/ \E e \in page : e.n = sweep'.cursor
    BY <2>1, PageFacts
  <2> HIDE DEF page
  <2> SUFFICES ASSUME NEW a \in sweep.ended
               PROVE  \E e \in stored :
                        /\ IsEnd(e) /\ e.attempt = a
                        /\ IF sweep'.stage = "reading" /\ e.n > sweep'.cursor
                           THEN TRUE
                           ELSE a \notin sweep'.open /\ (sweep'.stage = "reading" => e.n <= sweep'.cursor)
    BY <2>1 DEF Paged, IsEnd
  <2>4. PICK e \in stored :
          /\ IsEnd(e) /\ e.attempt = a
          /\ e.n > sweep.cursor \/ (a \notin sweep.open /\ e.n <= sweep.cursor)
    BY <2>1 DEF Paged
  <2>5. CASE e \in page
    <3>1. a \notin sweep'.open
      BY <2>1, <2>4, <2>5 DEF AttemptsIn, OfType, IsEnd
    <3>2. e.n <= sweep'.cursor
      BY <2>3, <2>5
    <3> QED
      BY <2>2, <2>3, <2>4, <3>1, <3>2
  <2>6. CASE e \notin page /\ e.n > sweep.cursor
    <3>1. e \in Matching(Lifecycle, sweep.cursor)
      BY <2>4, <2>6 DEF Matching, Lifecycle, IsEnd
    <3>2. sweep'.stage = "reading"
      BY <2>1, <2>3, <2>6, <3>1
    <3>3. \A d \in page : ~(e.n <= d.n) /\ d.n \in Nat
      BY <2>2, <2>3, <2>6, <3>1
    <3>4. e.n > sweep'.cursor
      BY <2>1, <2>2, <2>3, <2>6, <3>3
    <3> QED
      BY <2>4, <3>2, <3>4
  <2>7. CASE e \notin page /\ ~(e.n > sweep.cursor)
    <3>1. a \notin AttemptsIn(page, "AttemptStarted")
      <4> SUFFICES ASSUME NEW s \in page, IsStart(s), s.attempt = a PROVE FALSE
        BY DEF AttemptsIn, OfType, IsStart
      <4>1. s \in Starts /\ e \in Built /\ s.n \in Nat /\ e.n \in Nat
        BY <2>2, StartsAreBuilt
      <4>2. s.n <= e.n
        BY <2>4, <4>1 DEF Story
      <4>3. s.n > sweep.cursor
        BY <2>2
      <4> QED
        BY <2>1, <2>7, <4>1, <4>2, <4>3
    <3>2. a \notin sweep'.open /\ e.n <= sweep'.cursor
      BY <2>1, <2>2, <2>3, <2>4, <2>7, <3>1
    <3> QED
      BY <2>2, <2>3, <2>4, <3>2
  <2> QED
    BY <2>5, <2>6, <2>7
<1>3. CASE /\ stored \subseteq stored' /\ sweep'.ended = sweep.ended /\ sweep'.open \subseteq sweep.open
           /\ sweep'.stage = sweep.stage \/ (sweep.stage # "reading" /\ sweep'.stage # "reading")
           /\ sweep.stage = "reading" => sweep'.cursor = sweep.cursor
  BY <1>3 DEF Paged, IsEnd
<1>4. CASE sweep' = Idle
  BY <1>4 DEF Idle, Paged
<1>5. CASE SweepCloses
  <2>1. PICK e \in EndEvent :
          sweep' = [sweep EXCEPT !.open = @ \ (0..e.attempt), !.stage = "sending", !.cursor = Len(built) + 1]
    BY <1>5, CloseSends
  <2>2. sweep.stage = "closing" /\ stored' = stored
    BY <1>5 DEF SweepCloses, ledgerVars
  <2>3. sweep'.ended = sweep.ended /\ sweep'.open \subseteq sweep.open /\ sweep'.stage = "sending"
    BY <2>1 DEF Typed, SweepType
  <2> QED
    BY <1>3, <2>2, <2>3
<1>6. ASSUME NEW x \in flight, Delivered(x)
      PROVE  Paged'
  <2>1. /\ (Awaited(x) /\ sweep' = [sweep EXCEPT !.stage = "closing"]) \/ sweep' = sweep
        /\ stored' = stored
    BY <1>6, DeliverMoves
  <2>2. CASE Awaited(x) /\ sweep' = [sweep EXCEPT !.stage = "closing"]
    <3>1. /\ sweep'.ended = sweep.ended /\ sweep'.open = sweep.open
          /\ sweep.stage = "sending" /\ sweep'.stage = "closing"
      BY <2>2 DEF Typed, SweepType, Awaited
    <3> QED
      BY <1>3, <2>1, <3>1
  <2> QED
    BY <1>3, <2>1, <2>2
<1>7. CASE UNCHANGED sweep /\ stored \subseteq stored'
  BY <1>3, <1>7
<1>8. \A x \in flight : GivesUp(x) => sweep' = Idle
  BY GivesUpMoves
<1>9. \A x \in flight : Fails(x) => UNCHANGED <<sweep, stored>>
  BY FailsMoves
<1> QED
  BY <1>1, <1>2, <1>4, <1>5, <1>6, <1>7, <1>8, <1>9, WriterMoves
     DEF Rests, StartsNew, Crash, Quiet, Catches, attemptVars, Observe, Ends, ledgerVars, sweepVars, ingestVars

LEMMA PagedMeansOpen ==
  ASSUME Paged
  PROVE  AbortsOnlyTheOpen
BY DEF Paged, AbortsOnlyTheOpen

-----------------------------------------------------------------------------
(* The three together.  Where only readers act nothing is built or swept.    *)

Untouched == built = <<>> /\ sweep = Idle

SweepInv ==
  /\ SliceInv
  /\ scene = "writers" => EndsOnce /\ Guard /\ Paged
  /\ scene # "writers" => Untouched

LEMMA SweepInvAtFirst ==
  ASSUME Init
  PROVE  SweepInv
<1> DEFINE s == [n |-> 1, type |-> "AttemptStarted", attempt |-> 1, known |-> {}]
<1>1. SliceInv
  BY SliceInvAtFirst
<1>2. sweep = Idle /\ refused = {} /\ closed = {}
  BY DEF Init, AttemptInit
<1>3. CASE scene = "writers"
  <2>1. built = <<s>>
    BY <1>3 DEF Init
  <2>2. s \in Event /\ IsStart(s) /\ ~IsEnd(s) /\ s.known = {}
    BY DEF Event, StartEvent, IsStart, IsEnd
  <2> HIDE DEF s
  <2>3. PICK e \in Event : e = s
    BY <2>2
  <2>4. Built = {e} /\ Starts \subseteq {e}
    BY <2>1, <2>3, SmallSequences DEF Built, Starts, OfType
  <2>5. EndsOnce
    BY <1>2, <2>2, <2>3, <2>4 DEF EndsOnce
  <2>6. Guard
    BY <1>2, <2>2, <2>3, <2>4 DEF Guard, Idle
  <2>7. Paged
    BY <1>2 DEF Paged, Idle
  <2> QED
    BY <1>1, <1>3, <2>5, <2>6, <2>7 DEF SweepInv
<1>4. CASE scene # "writers"
  BY <1>1, <1>2, <1>4 DEF SweepInv, Untouched, Init
<1> QED
  BY <1>3, <1>4

LEMMA SweepInvStays ==
  ASSUME SweepInv, [Next]_vars
  PROVE  SweepInv'
<1>1. SliceInv'
  BY SliceInvStays DEF SweepInv
<1>2. CASE scene = "writers" /\ WriterScene /\ UNCHANGED <<scene, script>>
  <2>1. Base /\ Story /\ Online /\ EndsOnce /\ Guard /\ Paged /\ Base'
    BY <1>1, <1>2 DEF SweepInv, SliceInv
  <2>2. EndsOnce'
    BY <1>2, <2>1, EndsOnceStays
  <2>3. Guard'
    BY <1>2, <2>1, GuardStays
  <2>4. Paged'
    BY <1>2, <2>1, PagedStays
  <2> QED
    BY <1>1, <1>2, <2>2, <2>3, <2>4 DEF SweepInv
<1>3. CASE scene # "writers" /\ UNCHANGED attemptVars /\ UNCHANGED <<scene, script>>
  BY <1>1, <1>3 DEF SweepInv, Untouched, attemptVars, sweepVars
<1>4. CASE UNCHANGED vars
  <2>1. CASE scene = "writers"
    <3>1. /\ Built' = Built /\ Starts' = Starts /\ OnTopic' = OnTopic
          /\ UNCHANGED <<built, stored, active, closed, sweep, life, refused, scene>>
      BY <1>4 DEF vars, attemptVars, ledgerVars, ingestVars, trackerVars, sweepVars, Built, Starts, OnTopic
    <3>2. EndsOnce => EndsOnce'
      BY <3>1 DEF EndsOnce, Awaited, IsEnd
    <3>3. Guard => Guard'
      BY <3>1 DEF Guard, KeptEnd, Safe, Awaited, Unread, Closing, IsEnd, IsStart
    <3>4. Paged => Paged'
      BY <3>1 DEF Paged, IsEnd
    <3> QED
      BY <1>1, <2>1, <3>1, <3>2, <3>3, <3>4 DEF SweepInv
  <2>2. CASE scene # "writers"
    BY <1>1, <1>4, <2>2 DEF SweepInv, Untouched, vars, attemptVars, sweepVars
  <2> QED
    BY <2>1, <2>2
<1> QED
  BY <1>2, <1>3, <1>4 DEF Next

(* "An attempt this process saw end, or already aborted in an earlier sweep, *)
(* is never aborted again" (orphanSweep.ts:29-32), for any number of         *)
(* scripts, crashes and refused sends: two ends by the same life of the      *)
(* process need the first to be an abort answered with an error.             *)
THEOREM EndsAreNotRepeated == Spec => []EndedOncePerProcess
<1>1. SweepInv => EndedOncePerProcess
  <2> SUFFICES ASSUME SweepInv PROVE EndedOncePerProcess
    OBVIOUS
  <2>1. CASE scene = "writers"
    BY <2>1, EndsOnceMeansOnce DEF SweepInv, SliceInv, Base
  <2>2. CASE scene # "writers"
    BY <2>2 DEF SweepInv, Untouched, EndedOncePerProcess
  <2> QED
    BY <2>1, <2>2
<1> QED
  BY SweepInvAtFirst, SweepInvStays, <1>1, PTL DEF Spec

(* "No new AttemptStarted is published over a dangling one" (orphanSweep.ts: *)
(* 23-25), as far as the ledger shows the dangling ones: every attempt that  *)
(* the rows showed when the guard's sweep began has an end that was not lost *)
(* by the time the new start is stamped, whatever restarts, pages and other  *)
(* scripts' ends come between.                                               *)
THEOREM StartsAreGuarded == Spec => []StartsOverNothingKnown
<1>1. SweepInv => StartsOverNothingKnown
  <2> SUFFICES ASSUME SweepInv PROVE StartsOverNothingKnown
    OBVIOUS
  <2>1. CASE scene = "writers"
    BY <2>1, GuardMeansNothingKnown DEF SweepInv, SliceInv
  <2>2. CASE scene # "writers"
    BY <2>2 DEF SweepInv, Untouched, StartsOverNothingKnown
  <2> QED
    BY <2>1, <2>2
<1> QED
  BY SweepInvAtFirst, SweepInvStays, <1>1, PTL DEF Spec

(* The keyset pages of a sweep never make an orphan of an attempt that the   *)
(* ledger already showed as ended when the sweep began (orphanSweep.ts,      *)
(* sweepOnce), however many pages lie between a start and its end and        *)
(* whatever is ingested meanwhile.                                           *)
THEOREM SweepsAbortOnlyTheOpen == Spec => []AbortsOnlyTheOpen
<1>1. SweepInv => AbortsOnlyTheOpen
  BY PagedMeansOpen DEF SweepInv, Untouched, AbortsOnlyTheOpen, Idle
<1> QED
  BY SweepInvAtFirst, SweepInvStays, <1>1, PTL DEF Spec

-----------------------------------------------------------------------------
(* The readers' scenes.  What is on the topic is a beginning of the script:  *)
(* events with places of their own, in that order on their partition, those  *)
(* of an attempt on one partition and behind its start.                      *)

LEMMA ToldFacts ==
  ASSUME Arrived
  PROVE  /\ \A e : e \in OnTopic <=> \E p \in Partition : \E i \in 1..Len(topic[p]) : topic[p][i] = e /\ e # Poison
         /\ \A p \in Partition : Len(topic[p]) \in Nat /\ DOMAIN topic[p] = 1..Len(topic[p])
         /\ \A e \in OnTopic : e.n \in Nat /\ 0 < e.n /\ e.type \in RaceTypes /\ e.attempt \in Attempt
         /\ \A p \in Partition : \A i, j \in 1..Len(topic[p]) :
              i < j /\ topic[p][i] # Poison => topic[p][j] # Poison /\ topic[p][i].n < topic[p][j].n
         /\ \A p, q \in Partition : \A i \in 1..Len(topic[p]), j \in 1..Len(topic[q]) :
              topic[p][i] # Poison /\ topic[q][j] # Poison
                /\ (topic[p][i].n = topic[q][j].n \/ topic[p][i].attempt = topic[q][j].attempt) => p = q
<1>1. PICK S : topic \in [Partition -> Seq(S)]
  BY DEF Arrived
<1>2. \A p \in Partition : Len(topic[p]) \in Nat /\ DOMAIN topic[p] = 1..Len(topic[p])
  <2> SUFFICES ASSUME NEW p \in Partition PROVE Len(topic[p]) \in Nat /\ DOMAIN topic[p] = 1..Len(topic[p])
    OBVIOUS
  <2>1. topic[p] \in Seq(S)
    BY <1>1
  <2> QED
    BY <2>1
<1>3. \A e : e \in OnTopic <=> \E p \in Partition : \E i \in 1..Len(topic[p]) : topic[p][i] = e /\ e # Poison
  BY <1>2 DEF OnTopic, Range
<1>4. ASSUME NEW p \in Partition, NEW i \in 1..Len(topic[p]), topic[p][i] # Poison
      PROVE  /\ i - Lead(p) \in 1..Len(script[p]) /\ topic[p][i] = script[p][i - Lead(p)]
             /\ topic[p][i] \in Range(script[p])
  <2>1. /\ Len(topic[p]) \in Lead(p)..(Lead(p) + Len(script[p])) /\ script \in Script
        /\ topic[p][i] = IF i <= Lead(p) THEN Poison ELSE script[p][i - Lead(p)]
    BY DEF Arrived
  <2>2. PICK lead \in {0, 1} : lead = Lead(p)
    BY DEF Lead
  <2>3. Len(script[p]) \in Nat
    BY <2>1, ScriptFacts
  <2>4. ~(i <= lead)
    BY <1>4, <2>1, <2>2
  <2>5. i - lead \in 1..Len(script[p])
    BY <1>2, <2>1, <2>2, <2>3, <2>4
  <2>6. topic[p][i] = script[p][i - lead]
    BY <2>1, <2>2, <2>4
  <2> QED
    BY <2>1, <2>2, <2>5, <2>6, ScriptFacts
<1>5. script \in Script
  BY DEF Arrived
<1>6. \A e \in OnTopic : e.n \in Nat /\ 0 < e.n /\ e.type \in RaceTypes /\ e.attempt \in Attempt
  <2> SUFFICES ASSUME NEW e \in OnTopic
               PROVE  e.n \in Nat /\ 0 < e.n /\ e.type \in RaceTypes /\ e.attempt \in Attempt
    OBVIOUS
  <2>1. PICK p \in Partition : e \in Range(script[p])
    BY <1>3, <1>4
  <2>2. e.n \in Nat \ {0} /\ e.type \in RaceTypes /\ e.attempt \in Attempt
    BY <1>5, <2>1, ScriptAssumption
  <2> QED
    BY <2>2
<1>7. ASSUME NEW p \in Partition, NEW i \in 1..Len(topic[p]), NEW j \in 1..Len(topic[p]),
             i < j, topic[p][i] # Poison
      PROVE  topic[p][j] # Poison /\ topic[p][i].n < topic[p][j].n
  <2>1. /\ topic[p][i] = IF i <= Lead(p) THEN Poison ELSE script[p][i - Lead(p)]
        /\ topic[p][j] = IF j <= Lead(p) THEN Poison ELSE script[p][j - Lead(p)]
        /\ Len(topic[p]) \in Lead(p)..(Lead(p) + Len(script[p]))
    BY DEF Arrived
  <2>2. PICK lead \in {0, 1} : lead = Lead(p)
    BY DEF Lead
  <2>3. Len(script[p]) \in Nat /\ \A k \in 1..Len(script[p]) : script[p][k] # Poison
    BY <1>5, ScriptFacts
  <2>4. i - lead \in 1..Len(script[p]) /\ j - lead \in 1..Len(script[p]) /\ i - lead < j - lead /\ ~(i <= lead) /\ ~(j <= lead)
    <3>1. ~(i <= lead)
      BY <1>7, <2>1, <2>2
    <3>2. i \in Nat /\ j \in Nat /\ j <= Len(topic[p]) /\ Len(topic[p]) \in Nat /\ Len(topic[p]) <= lead + Len(script[p])
      BY <1>2, <2>1, <2>2, <2>3
    <3>3. ~(j <= lead)
      BY <1>7, <2>2, <3>1, <3>2
    <3>4. j <= lead + Len(script[p])
      BY <2>2, <2>3, <3>2
    <3> QED
      BY <1>7, <2>2, <2>3, <3>1, <3>2, <3>3, <3>4
  <2>5. topic[p][i] = script[p][i - lead] /\ topic[p][j] = script[p][j - lead]
    BY <2>1, <2>2, <2>4
  <2>6. \A k, l \in 1..Len(script[p]) : k < l => script[p][k].n < script[p][l].n
    BY <1>5, ScriptAssumption
  <2> QED
    BY <2>3, <2>4, <2>5, <2>6
<1>8. ASSUME NEW p \in Partition, NEW q \in Partition, NEW d, NEW e,
             d \in Range(script[p]), e \in Range(script[q]), d.n = e.n \/ d.attempt = e.attempt
      PROVE  p = q
  BY <1>5, <1>8, ScriptAssumption
<1>9. \A p, q \in Partition : \A i \in 1..Len(topic[p]), j \in 1..Len(topic[q]) :
        topic[p][i] # Poison /\ topic[q][j] # Poison
          /\ (topic[p][i].n = topic[q][j].n \/ topic[p][i].attempt = topic[q][j].attempt) => p = q
  BY <1>4, <1>8
<1> QED
  BY <1>2, <1>3, <1>6, <1>7, <1>9

(* Nothing of an attempt is told before its start.                           *)
LEMMA StartIsFirst ==
  ASSUME Arrived, NEW p \in Partition, NEW i \in 1..Len(topic[p]), NEW j \in 1..Len(topic[p]), i < j,
         topic[p][i] # Poison, topic[p][j] # Poison, topic[p][i].attempt = topic[p][j].attempt
  PROVE  ~IsStart(topic[p][j])
<1>7. PICK source : source = script[p]
  OBVIOUS
<1>1. PICK lead \in {0, 1} : source = script[p] /\ lead = Lead(p)
  BY <1>7 DEF Lead
<1>2. /\ Len(topic[p]) \in Nat /\ Len(topic[p]) <= lead + Len(source)
      /\ \A k \in 1..Len(topic[p]) : topic[p][k] = IF k <= lead THEN Poison ELSE source[k - lead]
      /\ Len(source) \in Nat /\ DOMAIN source = 1..Len(source)
  BY <1>1, ScriptFacts, ToldFacts DEF Arrived
<1>3. /\ i - lead \in DOMAIN source /\ topic[p][i] = source[i - lead]
      /\ j - lead \in DOMAIN source /\ topic[p][j] = source[j - lead]
      /\ i - lead < j - lead
  BY <1>1, <1>2
<1>4. PICK a \in Attempt : a = topic[p][i].attempt
  <2>1. topic[p][i] \in OnTopic
    BY ToldFacts
  <2> QED
    BY <2>1, ToldFacts
<1>5. Coherent(source, a)
  BY <1>1, <1>4, ScriptAssumption DEF Arrived
<1>6. source[j - lead].type # "AttemptStarted"
  BY <1>3, <1>4, <1>5 DEF Coherent
<1> QED
  BY <1>3, <1>6 DEF IsStart

(* An event has one place, and an attempt one start, before all its events.  *)
LEMMA PlaceFacts ==
  ASSUME Arrived
  PROVE  /\ \A d, e \in OnTopic : d.n = e.n => d = e
         /\ \A p, q \in Partition : \A i \in 1..Len(topic[p]), j \in 1..Len(topic[q]) :
              topic[p][i] # Poison /\ topic[p][i] = topic[q][j] => p = q /\ i = j
         /\ \A p, q \in Partition : \A i \in 1..Len(topic[p]), j \in 1..Len(topic[q]) :
              (/\ topic[p][i] # Poison /\ topic[q][j] # Poison
               /\ IsStart(topic[p][i]) /\ topic[q][j].attempt = topic[p][i].attempt)
                => p = q /\ i <= j /\ (IsStart(topic[q][j]) => i = j)
         /\ \A s, e \in OnTopic : IsStart(s) /\ e.attempt = s.attempt => s.n <= e.n /\ (IsStart(e) => e = s)
<1>1. \A d, e \in OnTopic : d.n = e.n => d = e
  <2> SUFFICES ASSUME NEW d \in OnTopic, NEW e \in OnTopic, d.n = e.n PROVE d = e
    OBVIOUS
  <2>1. PICK p \in Partition : \E i \in 1..Len(topic[p]) : topic[p][i] = d /\ d # Poison
    BY ToldFacts
  <2>2. PICK i \in 1..Len(topic[p]) : topic[p][i] = d /\ d # Poison
    BY <2>1
  <2>3. PICK q \in Partition : \E j \in 1..Len(topic[q]) : topic[q][j] = e /\ e # Poison
    BY ToldFacts
  <2>4. PICK j \in 1..Len(topic[q]) : topic[q][j] = e /\ e # Poison
    BY <2>3
  <2>5. p = q
    BY <2>2, <2>4, ToldFacts
  <2>6. i \in Nat /\ j \in Nat /\ d.n \in Nat
    BY ToldFacts
  <2>7. ~(i < j) /\ ~(j < i)
    BY <2>2, <2>4, <2>5, <2>6, ToldFacts
  <2> QED
    BY <2>2, <2>4, <2>5, <2>6, <2>7
<1>2. ASSUME NEW p \in Partition, NEW q \in Partition, NEW i \in 1..Len(topic[p]), NEW j \in 1..Len(topic[q]),
             topic[p][i] # Poison, topic[p][i] = topic[q][j]
      PROVE  p = q /\ i = j
  <2>1. p = q
    BY <1>2, ToldFacts
  <2>2. i \in Nat /\ j \in Nat /\ topic[p][i].n \in Nat
    BY <1>2, ToldFacts
  <2>3. ~(i < j) /\ ~(j < i)
    BY <1>2, <2>1, <2>2, ToldFacts
  <2> QED
    BY <2>1, <2>2, <2>3
<1>3. ASSUME NEW p \in Partition, NEW q \in Partition, NEW i \in 1..Len(topic[p]), NEW j \in 1..Len(topic[q]),
             topic[p][i] # Poison, topic[q][j] # Poison,
             IsStart(topic[p][i]), topic[q][j].attempt = topic[p][i].attempt
      PROVE  p = q /\ i <= j /\ (IsStart(topic[q][j]) => i = j)
  <2>1. p = q
    <3>1. \A m, r \in Partition : \A k \in 1..Len(topic[m]), l \in 1..Len(topic[r]) :
            topic[m][k] # Poison /\ topic[r][l] # Poison
              /\ (topic[m][k].n = topic[r][l].n \/ topic[m][k].attempt = topic[r][l].attempt) => m = r
      BY ToldFacts
    <3> QED
      BY <1>3, <3>1
  <2>2. ~(j < i) /\ (IsStart(topic[q][j]) => ~(i < j))
    BY <1>3, <2>1, StartIsFirst
  <2>3. i \in Nat /\ j \in Nat
    BY <2>1, ToldFacts
  <2> QED
    BY <2>1, <2>2, <2>3
<1>4. ASSUME NEW s \in OnTopic, NEW e \in OnTopic, IsStart(s), e.attempt = s.attempt
      PROVE  s.n <= e.n /\ (IsStart(e) => e = s)
  <2>1. PICK p \in Partition : \E i \in 1..Len(topic[p]) : topic[p][i] = s /\ s # Poison
    BY ToldFacts
  <2>2. PICK i \in 1..Len(topic[p]) : topic[p][i] = s /\ s # Poison
    BY <2>1
  <2>3. PICK q \in Partition : \E j \in 1..Len(topic[q]) : topic[q][j] = e /\ e # Poison
    BY ToldFacts
  <2>4. PICK j \in 1..Len(topic[q]) : topic[q][j] = e /\ e # Poison
    BY <2>3
  <2>5. p = q /\ i <= j /\ (IsStart(e) => i = j)
    BY <1>3, <1>4, <2>2, <2>4
  <2>6. s.n \in Nat /\ e.n \in Nat /\ i \in Nat /\ j \in Nat
    BY ToldFacts
  <2>7. i < j => s.n < e.n
    BY <2>2, <2>4, <2>5, ToldFacts
  <2> QED
    BY <2>2, <2>4, <2>5, <2>6, <2>7
<1>5. \A p, q \in Partition : \A i \in 1..Len(topic[p]), j \in 1..Len(topic[q]) :
        topic[p][i] # Poison /\ topic[p][i] = topic[q][j] => p = q /\ i = j
  BY <1>2
<1>6. \A p, q \in Partition : \A i \in 1..Len(topic[p]), j \in 1..Len(topic[q]) :
        (/\ topic[p][i] # Poison /\ topic[q][j] # Poison
         /\ IsStart(topic[p][i]) /\ topic[q][j].attempt = topic[p][i].attempt)
          => p = q /\ i <= j /\ (IsStart(topic[q][j]) => i = j)
  <2> SUFFICES ASSUME NEW p \in Partition, NEW q \in Partition, NEW i \in 1..Len(topic[p]), NEW j \in 1..Len(topic[q]),
                      topic[p][i] # Poison, topic[q][j] # Poison,
                      IsStart(topic[p][i]), topic[q][j].attempt = topic[p][i].attempt
               PROVE  p = q /\ i <= j /\ (IsStart(topic[q][j]) => i = j)
    OBVIOUS
  <2> QED
    BY <1>3
<1>7. \A s, e \in OnTopic : IsStart(s) /\ e.attempt = s.attempt => s.n <= e.n /\ (IsStart(e) => e = s)
  BY <1>4
<1> QED
  BY <1>1, <1>5, <1>6, <1>7

(* A record has one place, and still does after a step.                      *)
OnePlace ==
  \A p, q \in Partition : \A i \in 1..Len(topic[p]), j \in 1..Len(topic[q]) :
    topic[p][i] # Poison /\ topic[p][i] = topic[q][j] => p = q /\ i = j

LEMMA OnePlaceFirst == Arrived => OnePlace
BY PlaceFacts DEF OnePlace

LEMMA OnePlaceStill == (Arrived => OnePlace)'
BY OnePlaceFirst, PTL

-----------------------------------------------------------------------------
(* The minds.  What they have taken is what they have heard and, while they  *)
(* replay, have come to.  Minds that missed nothing hold the newest start    *)
(* they have taken; unless its race is over, they hold nothing of it that is *)
(* not on the topic and, once it is taken, all of it that they have taken.   *)

RowsAreTold == stored \subseteq OnTopic /\ IsFiniteSet(stored)

Heard == {e \in OnTopic : \E p \in Partition : \E i \in 1..heard[p] : topic[p][i] = e}

Taken == {e \in Heard : mind.stage = "live" \/ e.n <= mind.cursor}

MindShape ==
  /\ heard \in [Partition -> Nat]
  /\ \A p \in Partition : heard[p] <= Len(topic[p])
  /\ mind \in [stage : {"replaying", "live"}, cursor : Nat, newest : Nat, missed : BOOLEAN,
               race : [attempt : Nat, crossed : SUBSET Crossings(OnTopic), over : {FALSE}]]

Follows(s, race, taken) ==
  \/ race = NoRace /\ \E e \in OnTopic : IsEnd(e) /\ e.attempt = s.attempt
  \/ /\ race.attempt = s.attempt
     /\ race.crossed \subseteq Crossings({e \in OnTopic : e.attempt = s.attempt})
     /\ s \in taken => \A e \in taken : e.attempt = s.attempt =>
          ~IsEnd(e) /\ (IsMilestone(e) => <<e.team, e.rung>> \in race.crossed)

MindFollows ==
  ~mind.missed =>
    /\ \A t \in Taken : IsStart(t) => t.n <= mind.newest
    /\ \/ mind.newest = 0 /\ mind.race = NoRace
       \/ \E s \in OnTopic : IsStart(s) /\ s.n = mind.newest /\ Follows(s, mind.race, Taken)
    /\ mind.stage = "replaying" => mind.newest <= mind.cursor

LEMMA CrossingFacts ==
  ASSUME NEW A, NEW B, A \subseteq B
  PROVE  /\ Crossings(A) \subseteq Crossings(B)
         /\ \A e \in A : IsMilestone(e) => <<e.team, e.rung>> \in Crossings(A)
         /\ \A c : c \in Crossings(A) <=> \E e \in A : IsMilestone(e) /\ c = <<e.team, e.rung>>
BY DEF Crossings, IsMilestone

LEMMA HeardFacts ==
  ASSUME Arrived, MindShape
  PROVE  /\ \A p \in Partition : heard[p] \in Nat /\ 1..heard[p] \subseteq 1..Len(topic[p])
         /\ \A p \in Partition : \A i \in 1..heard[p] : topic[p][i] # Poison => topic[p][i] \in Heard
         /\ Heard \subseteq OnTopic /\ Taken \subseteq Heard
         /\ ~HeardUnstored => Heard \subseteq stored
<1>1. \A p \in Partition : heard[p] \in Nat /\ heard[p] <= Len(topic[p]) /\ Len(topic[p]) \in Nat
  BY ToldFacts DEF MindShape
<1>2. \A p \in Partition : heard[p] \in Nat /\ 1..heard[p] \subseteq 1..Len(topic[p])
  BY <1>1
<1>3. ASSUME NEW p \in Partition, NEW i \in 1..heard[p], topic[p][i] # Poison
      PROVE  topic[p][i] \in Heard
  <2>1. topic[p][i] \in OnTopic
    BY <1>2, <1>3, ToldFacts
  <2> QED
    BY <2>1 DEF Heard
<1>4. Heard \subseteq OnTopic /\ Taken \subseteq Heard
  BY DEF Heard, Taken
<1>5. ~HeardUnstored => Heard \subseteq stored
  <2> SUFFICES ASSUME ~HeardUnstored, NEW e \in Heard PROVE e \in stored
    OBVIOUS
  <2>1. PICK p \in Partition : \E i \in 1..heard[p] : topic[p][i] = e
    BY DEF Heard
  <2>2. e # Poison
    BY ToldFacts DEF Heard
  <2> QED
    BY <2>1, <2>2 DEF HeardUnstored
<1> QED
  BY <1>2, <1>3, <1>4, <1>5

(* What a page adds, and what of it is taken thereby.                        *)
LEMMA PageTaken ==
  ASSUME Arrived, RowsAreTold, MindShape, Rehydrates, NEW P, P = Page(RaceTypes, mind.cursor)
  PROVE  /\ P \subseteq OnTopic /\ IsFiniteSet(P) /\ \A e \in P : mind.cursor < e.n /\ e.n \in Nat
         /\ mind'.cursor \in Nat /\ mind.cursor <= mind'.cursor /\ \A e \in P : e.n <= mind'.cursor
         /\ ~mind'.missed => \A e \in Taken' : e \in Taken \/ e \in P
         /\ UNCHANGED <<topic, heard>>
<1>1. PICK M, c : M = Matching(RaceTypes, mind.cursor) /\ c = mind.cursor /\ c \in Nat
  BY DEF MindShape
<1>2. M \subseteq stored /\ IsFiniteSet(M) /\ \A e \in M : e.n \in Nat /\ c < e.n
  <2>1. M \subseteq stored /\ \A e \in M : e.n > c
    BY <1>1 DEF Matching
  <2>2. \A e \in M : e.n \in Nat
    BY <2>1, ToldFacts DEF RowsAreTold
  <2>3. IsFiniteSet(M)
    BY <2>1, FS_Subset DEF RowsAreTold
  <2> QED
    BY <2>1, <2>2, <2>3
<1>3. P = {e \in M : Cardinality({d \in M : d.n < e.n}) < PageLimit}
  BY <1>1 DEF Page
<1>4. HasNextPage(RaceTypes, mind.cursor) <=> Cardinality(M) > PageLimit
  BY <1>1 DEF HasNextPage
<1>5. /\ P \subseteq M /\ IsFiniteSet(P)
      /\ \A d \in M, e \in P : d.n <= e.n => d \in P
      /\ ~(Cardinality(M) > PageLimit) => P = M
      /\ CursorOf(P, c) \in Nat /\ c <= CursorOf(P, c)
      /\ \A e \in P : e.n <= CursorOf(P, c)
      /\ CursorOf(P, c) = c \/ \E e \in P : e.n = CursorOf(P, c)
  <2>1. (\A e \in M : e.n \in Nat) /\ IsFiniteSet(M) /\ c \in Nat
    BY <1>1, <1>2
  <2> QED
    BY <1>3, <2>1, FirstRows
<1>6. /\ mind'.cursor = CursorOf(P, c) /\ mind'.stage = IF Cardinality(M) > PageLimit THEN "replaying" ELSE "live"
      /\ mind'.missed = (mind.missed \/ HeardUnstored)
      /\ UNCHANGED <<topic, heard>>
  BY <1>1, <1>4 DEF Rehydrates, ledgerVars
<1>7. Heard' = Heard
  BY <1>6 DEF Heard, OnTopic
<1>8. ASSUME ~mind'.missed, NEW e \in Heard, mind'.stage = "live" \/ e.n <= mind'.cursor, e \notin Taken
      PROVE  e \in P
  <2>1. e \in stored /\ e \in OnTopic /\ e.n \in Nat /\ e.type \in RaceTypes
    BY <1>6, <1>8, HeardFacts, ToldFacts
  <2>2. c < e.n
    BY <1>1, <1>8, <2>1 DEF Taken
  <2>3. e \in M
    BY <1>1, <2>1, <2>2 DEF Matching
  <2>4. CASE Cardinality(M) > PageLimit
    <3>1. PICK cur \in Nat : cur = CursorOf(P, c)
      BY <1>5
    <3>2. e.n <= cur /\ (cur = c \/ \E d \in P : d.n = cur)
      BY <1>5, <1>6, <1>8, <2>4, <3>1
    <3>3. PICK d \in P : d.n = cur
      BY <2>1, <2>2, <3>2
    <3> QED
      BY <1>5, <2>3, <3>2, <3>3
  <2> QED
    BY <1>5, <2>3, <2>4
<1>9. ~mind'.missed => \A e \in Taken' : e \in Taken \/ e \in P
  BY <1>7, <1>8 DEF Taken
<1>10. P \subseteq OnTopic
  BY <1>2, <1>5 DEF RowsAreTold
<1>11. \A e \in P : mind.cursor < e.n /\ e.n \in Nat
  BY <1>1, <1>2, <1>5
<1>12. mind'.cursor \in Nat /\ mind.cursor <= mind'.cursor /\ \A e \in P : e.n <= mind'.cursor
  BY <1>1, <1>5, <1>6
<1> QED
  BY <1>5, <1>6, <1>9, <1>10, <1>11, <1>12

LEMMA RaceCrosses ==
  ASSUME NEW A, NEW C, NEW O, NEW race \in [attempt : A, crossed : C, over : O], NEW x
  PROVE  [race EXCEPT !.crossed = x] = [attempt |-> race.attempt, crossed |-> x, over |-> race.over]
  OBVIOUS

LEMMA RaceIsRead ==
  ASSUME NEW A, NEW C, NEW O, NEW race \in [attempt : A, crossed : C, over : O], NEW x, NEW y
  PROVE  [race EXCEPT !.crossed = x, !.over = y] = [attempt |-> race.attempt, crossed |-> x, over |-> y]
<1>1. [race EXCEPT !.crossed = x, !.over = y] \in [attempt : {race.attempt}, crossed : {x}, over : {y}]
  OBVIOUS
<1>2. ASSUME NEW r \in [attempt : {race.attempt}, crossed : {x}, over : {y}]
      PROVE  r = [attempt |-> race.attempt, crossed |-> x, over |-> y]
  OBVIOUS
<1> QED
  BY <1>1, <1>2

LEMMA MindReplays ==
  ASSUME Arrived, RowsAreTold, MindShape, MindFollows, Rehydrates
  PROVE  MindShape' /\ MindFollows'
<1>1. PICK P : P = Page(RaceTypes, mind.cursor)
  OBVIOUS
<1>2. /\ P \subseteq OnTopic /\ IsFiniteSet(P) /\ \A e \in P : mind.cursor < e.n /\ e.n \in Nat
      /\ mind'.cursor \in Nat /\ mind.cursor <= mind'.cursor /\ \A e \in P : e.n <= mind'.cursor
      /\ ~mind'.missed => \A e \in Taken' : e \in Taken \/ e \in P
      /\ UNCHANGED <<topic, heard>>
  BY <1>1, PageTaken
<1>3. PICK old, race, more, missed :
        /\ old = mind /\ mind.stage = "replaying"
        /\ race = MindReads(mind.race, P) /\ more \in {"replaying", "live"} /\ missed \in BOOLEAN
        /\ mind' = [stage |-> more, cursor |-> mind'.cursor, race |-> race,
                    newest |-> CursorOf(StartsOf(P), mind.newest), missed |-> missed]
        /\ ~missed => ~mind.missed
  <2>1. /\ mind.stage = "replaying"
        /\ mind' = [stage  |-> IF HasNextPage(RaceTypes, mind.cursor) THEN "replaying" ELSE "live",
                    cursor |-> CursorOf(P, mind.cursor), race |-> MindReads(mind.race, P),
                    newest |-> CursorOf(StartsOf(P), mind.newest), missed |-> mind.missed \/ HeardUnstored]
    BY <1>1 DEF Rehydrates
  <2>2. mind'.cursor = CursorOf(P, mind.cursor)
    BY <2>1
  <2>3. (mind.missed \/ HeardUnstored) \in BOOLEAN
    BY DEF MindShape
  <2> QED
    BY <2>1, <2>2, <2>3
<1>4. PICK newest, cursor, Q :
        /\ newest = mind.newest /\ cursor = mind.cursor /\ newest \in Nat /\ cursor \in Nat
        /\ Q = StartsOf(P)
  BY DEF MindShape
<1>5. /\ mind.race.attempt \in Nat /\ mind.race.crossed \subseteq Crossings(OnTopic) /\ mind.race.over = FALSE
      /\ mind.race = [attempt |-> mind.race.attempt, crossed |-> mind.race.crossed, over |-> FALSE]
  BY DEF MindShape
<1>6. \A e \in P : /\ e \in OnTopic /\ e.attempt \in Nat /\ e.attempt # 0 /\ e # Poison
                   /\ (IsStart(e) <=> e \in Q)
  <2>1. \A e \in P : IsStart(e) <=> e \in Q
    BY <1>4 DEF StartsOf, IsStart
  <2>2. \A e \in P : e.attempt \in Attempt /\ e # Poison
    BY <1>2, ToldFacts
  <2>3. \A a \in Attempt : a \in Nat /\ a # 0
    BY AttemptAssumption, FS_CardinalityType DEF Attempt
  <2> QED
    BY <1>2, <2>1, <2>2, <2>3
<1>7. Q \subseteq P /\ IsFiniteSet(Q)
  BY <1>2, <1>4, FS_Subset DEF StartsOf
<1>8. /\ CursorOf(Q, newest) \in Nat /\ newest <= CursorOf(Q, newest)
      /\ \A e \in Q : e.n <= CursorOf(Q, newest)
      /\ CursorOf(Q, newest) = newest \/ \E e \in Q : e.n = CursorOf(Q, newest)
  BY <1>2, <1>4, <1>7, CursorFacts
<1>9. mind'.newest = CursorOf(Q, newest) /\ mind'.missed = missed /\ mind'.stage = more /\ mind'.race = race
  BY <1>3, <1>4
<1>10. OnTopic' = OnTopic /\ \A A : Crossings(A)' = Crossings(A)
  BY <1>2 DEF OnTopic, Crossings
<1>11. PICK begun, slice :
         /\ begun = IF Q = {} THEN mind.race ELSE Fresh(LatestOf(Q).attempt)
         /\ slice = {e \in P : e.attempt = begun.attempt /\ \A s \in Q : s.n <= e.n}
         /\ race = IF HasEnd(slice) THEN NoRace ELSE [begun EXCEPT !.crossed = @ \union Crossings(slice)]
  BY <1>3, <1>4 DEF MindReads
<1>12. /\ begun.attempt \in Nat /\ begun.crossed \subseteq Crossings(OnTopic)
       /\ begun = [attempt |-> begun.attempt, crossed |-> begun.crossed, over |-> FALSE]
       /\ Q = {} => begun = mind.race
       /\ Q # {} => \E t \in Q : /\ \A s \in Q : s.n <= t.n
                                 /\ begun.attempt = t.attempt /\ begun.crossed = {}
  <2>1. CASE Q = {}
    BY <1>5, <1>11, <2>1
  <2>2. CASE Q # {}
    <3>1. \E e \in Q : \A d \in Q : d.n <= e.n
      BY <1>2, <1>7, <2>2, LastRow
    <3>2. PICK t \in Q : t = LatestOf(Q) /\ \A s \in Q : s.n <= t.n
      BY <3>1 DEF LatestOf
    <3>3. begun = [attempt |-> t.attempt, crossed |-> {}, over |-> FALSE]
      BY <1>11, <2>2, <3>2 DEF Fresh, NoRace
    <3>4. t.attempt \in Nat
      BY <1>6, <1>7
    <3> QED
      BY <2>2, <3>2, <3>3, <3>4
  <2> QED
    BY <2>1, <2>2
<1>13. /\ slice \subseteq P /\ Crossings(slice) \subseteq Crossings(OnTopic)
       /\ HasEnd(slice) <=> \E e \in slice : IsEnd(e)
  BY <1>2, <1>11, CrossingFacts DEF HasEnd, IsEnd
<1>14. /\ HasEnd(slice) => race = NoRace
       /\ ~HasEnd(slice) =>
            race = [attempt |-> begun.attempt, crossed |-> begun.crossed \union Crossings(slice), over |-> FALSE]
  <2>1. PICK a, X, Y : a = begun.attempt /\ X = begun.crossed /\ Y = begun.crossed \union Crossings(slice)
    OBVIOUS
  <2>2. begun = [attempt |-> a, crossed |-> X, over |-> FALSE]
    BY <1>12, <2>1
  <2>3. [begun EXCEPT !.crossed = Y] = [attempt |-> a, crossed |-> Y, over |-> FALSE]
    <3>1. begun.attempt = a /\ begun.over = FALSE
      BY <2>2
    <3>2. PICK A, C, O : begun \in [attempt : A, crossed : C, over : O]
      <4>1. begun \in [attempt : {a}, crossed : {X}, over : {FALSE}]
        BY <2>2
      <4> QED
        BY <4>1
    <3>3. [begun EXCEPT !.crossed = Y] = [attempt |-> begun.attempt, crossed |-> Y, over |-> begun.over]
      BY <3>2, RaceCrosses
    <3> QED
      BY <3>1, <3>3
  <2>4. ~HasEnd(slice) => race = [begun EXCEPT !.crossed = Y]
    BY <1>11, <2>1
  <2> QED
    BY <1>11, <2>1, <2>3, <2>4
<1>15. race \in [attempt : Nat, crossed : SUBSET Crossings(OnTopic), over : {FALSE}]
  <2>1. PICK a, X : a = begun.attempt /\ X = begun.crossed \union Crossings(slice)
    OBVIOUS
  <2>2. PICK all : all = Crossings(OnTopic)
    OBVIOUS
  <2>3. a \in Nat /\ X \subseteq all
    BY <1>12, <1>13, <2>1, <2>2
  <2>4. race = NoRace \/ race = [attempt |-> a, crossed |-> X, over |-> FALSE]
    BY <1>14, <2>1
  <2>5. race \in [attempt : Nat, crossed : SUBSET all, over : {FALSE}]
    <3>1. CASE race = NoRace
      BY <3>1 DEF NoRace
    <3>2. CASE race = [attempt |-> a, crossed |-> X, over |-> FALSE]
      BY <2>3, <3>2
    <3> QED
      BY <2>4, <3>1, <3>2
  <2> QED
    BY <2>2, <2>5
<1>16. MindShape'
  <2>1. mind' \in [stage : {"replaying", "live"}, cursor : Nat, newest : Nat, missed : BOOLEAN,
                   race : [attempt : Nat, crossed : SUBSET Crossings(OnTopic), over : {FALSE}]]
    <3>1. PICK cur \in Nat : cur = mind'.cursor
      BY <1>2
    <3>2. PICK later \in Nat : later = CursorOf(StartsOf(P), mind.newest)
      BY <1>4, <1>8
    <3>3. mind' = [stage |-> more, cursor |-> cur, race |-> race, newest |-> later, missed |-> missed]
      BY <1>3, <3>1, <3>2
    <3> QED
      BY <1>3, <1>15, <3>3
  <2> QED
    BY <1>2, <1>10, <2>1 DEF MindShape
<1>17. ASSUME ~missed
       PROVE  /\ \A t \in Taken' : IsStart(t) => t.n <= mind'.newest
              /\ \/ mind'.newest = 0 /\ race = NoRace
                 \/ \E s \in OnTopic : IsStart(s) /\ s.n = mind'.newest /\ Follows(s, race, Taken')
              /\ mind'.newest <= mind'.cursor
  <2>1. /\ \A t \in Taken : IsStart(t) => t.n <= newest
        /\ \/ newest = 0 /\ mind.race = NoRace
           \/ \E s \in OnTopic : IsStart(s) /\ s.n = newest /\ Follows(s, mind.race, Taken)
        /\ newest <= cursor
    BY <1>3, <1>4, <1>17 DEF MindFollows
  <2>2. \A e \in Taken' : e \in Taken \/ e \in P
    BY <1>2, <1>9, <1>17
  <2>3. PICK later, taken : later = mind'.newest /\ later \in Nat /\ taken = Taken'
    BY <1>8, <1>9
  <2>4. newest <= later /\ (\A e \in Q : e.n <= later) /\ (later = newest \/ \E e \in Q : e.n = later)
    BY <1>8, <1>9, <2>3
  <2>5. \A t \in taken : IsStart(t) => t.n <= later
    <3> SUFFICES ASSUME NEW t \in taken, IsStart(t) PROVE t.n <= later
      OBVIOUS
    <3>1. CASE t \in P
      BY <1>6, <2>4, <3>1
    <3>2. CASE t \in Taken
      <4>1. t.n <= newest /\ t.n \in Nat
        BY <2>1, <3>2, HeardFacts, ToldFacts
      <4> QED
        BY <1>4, <2>3, <2>4, <4>1
    <3> QED
      BY <2>2, <2>3, <3>1, <3>2
  <2>6. later <= mind'.cursor
    <3>1. newest <= mind'.cursor /\ mind'.cursor \in Nat
      BY <1>2, <1>4, <2>1
    <3> QED
      BY <1>2, <1>7, <2>4, <3>1
  <2>7. CASE Q = {}
    <3>1. later = newest
      BY <2>4, <2>7
    <3>2. slice = {e \in P : e.attempt = mind.race.attempt} /\ begun = mind.race
      BY <1>11, <1>12, <2>7
    <3>3. CASE newest = 0 /\ mind.race = NoRace
      <4>1. mind.race.attempt = 0 /\ mind.race.crossed = {}
        BY <3>3 DEF NoRace
      <4>2. slice = {}
        BY <1>6, <3>2, <4>1
      <4>3. Crossings(slice) = {} /\ ~HasEnd(slice)
        BY <4>2 DEF Crossings, HasEnd
      <4>4. race = NoRace
        BY <1>14, <3>2, <4>1, <4>3 DEF NoRace
      <4> QED
        BY <2>3, <2>5, <2>6, <3>1, <3>3, <4>4
    <3>4. CASE \E s \in OnTopic : IsStart(s) /\ s.n = newest /\ Follows(s, mind.race, Taken)
      <4>1. PICK s \in OnTopic : IsStart(s) /\ s.n = newest /\ Follows(s, mind.race, Taken)
        BY <3>4
      <4>2. Follows(s, race, taken)
        <5>1. CASE mind.race = NoRace /\ \E e \in OnTopic : IsEnd(e) /\ e.attempt = s.attempt
          <6>1. mind.race.attempt = 0 /\ mind.race.crossed = {}
            BY <5>1 DEF NoRace
          <6>2. slice = {}
            BY <1>6, <3>2, <6>1
          <6>3. Crossings(slice) = {} /\ ~HasEnd(slice)
            BY <6>2 DEF Crossings, HasEnd
          <6>4. race = NoRace
            BY <1>14, <3>2, <6>1, <6>3 DEF NoRace
          <6> QED
            BY <5>1, <6>4 DEF Follows
        <5>2. CASE /\ mind.race.attempt = s.attempt
                   /\ mind.race.crossed \subseteq Crossings({e \in OnTopic : e.attempt = s.attempt})
                   /\ s \in Taken => \A e \in Taken : e.attempt = s.attempt =>
                        ~IsEnd(e) /\ (IsMilestone(e) => <<e.team, e.rung>> \in mind.race.crossed)
          <6>1. slice = {e \in P : e.attempt = s.attempt}
            BY <3>2, <5>2
          <6>2. CASE HasEnd(slice)
            <7>1. PICK e \in slice : IsEnd(e)
              BY <1>13, <6>2
            <7>2. e \in OnTopic /\ e.attempt = s.attempt
              BY <1>6, <6>1
            <7> QED
              BY <1>14, <6>2, <7>1, <7>2 DEF Follows
          <6>3. CASE ~HasEnd(slice)
            <7>1. race.attempt = s.attempt /\ race.crossed = mind.race.crossed \union Crossings(slice)
              BY <1>14, <3>2, <5>2, <6>3
            <7>2. Crossings(slice) \subseteq Crossings({e \in OnTopic : e.attempt = s.attempt})
              <8>1. slice \subseteq {e \in OnTopic : e.attempt = s.attempt}
                BY <1>6, <6>1
              <8> QED
                BY <8>1, CrossingFacts
            <7>3. ASSUME s \in taken, NEW e \in taken, e.attempt = s.attempt
                  PROVE  ~IsEnd(e) /\ (IsMilestone(e) => <<e.team, e.rung>> \in race.crossed)
              <8>1. CASE e \in P
                <9>1. e \in slice
                  BY <6>1, <7>3, <8>1
                <9>2. ~IsEnd(e)
                  BY <1>13, <6>3, <9>1
                <9>3. IsMilestone(e) => <<e.team, e.rung>> \in Crossings(slice)
                  BY <9>1, CrossingFacts
                <9> QED
                  BY <7>1, <9>2, <9>3
              <8>2. CASE e \in Taken
                <9>1. s \in Taken
                  <10>1. s \notin P
                    BY <1>6, <2>7, <4>1
                  <10> QED
                    BY <2>2, <2>3, <7>3, <10>1
                <9>2. ~IsEnd(e) /\ (IsMilestone(e) => <<e.team, e.rung>> \in mind.race.crossed)
                  BY <5>2, <7>3, <8>2, <9>1
                <9> QED
                  BY <7>1, <9>2
              <8> QED
                BY <2>2, <2>3, <7>3, <8>1, <8>2
            <7> QED
              BY <5>2, <7>1, <7>2, <7>3 DEF Follows
          <6> QED
            BY <6>2, <6>3
        <5> QED
          BY <4>1, <5>1, <5>2 DEF Follows
      <4>3. \E t \in OnTopic : IsStart(t) /\ t.n = later /\ Follows(t, race, taken)
        BY <3>1, <4>1, <4>2
      <4> QED
        BY <2>3, <2>5, <2>6, <4>3
    <3> QED
      BY <2>1, <3>3, <3>4
  <2>8. CASE Q # {}
    <3>1. PICK t \in Q : /\ \A s \in Q : s.n <= t.n
                         /\ begun.attempt = t.attempt /\ begun.crossed = {}
      BY <1>12, <2>8
    <3>2. t \in P /\ t \in OnTopic /\ IsStart(t) /\ t.n \in Nat /\ cursor < t.n
      BY <1>2, <1>4, <1>6, <1>7
    <3>3. later = t.n
      <4>1. newest < t.n
        BY <1>4, <2>1, <3>2
      <4>2. t.n <= later
        BY <2>4
      <4>3. PICK e \in Q : e.n = later
        BY <1>4, <2>3, <2>4, <3>2, <4>1, <4>2
      <4> QED
        BY <2>3, <3>1, <3>2, <4>2, <4>3
    <3>4. \A e \in slice : e \in P /\ e.attempt = t.attempt
      BY <1>11, <3>1
    <3>5. Follows(t, race, taken)
      <4>1. CASE HasEnd(slice)
        <5>1. PICK e \in slice : IsEnd(e)
          BY <1>13, <4>1
        <5>2. e \in OnTopic /\ e.attempt = t.attempt
          BY <1>6, <3>4
        <5> QED
          BY <1>14, <4>1, <5>1, <5>2 DEF Follows
      <4>2. CASE ~HasEnd(slice)
        <5>1. race.attempt = t.attempt /\ race.crossed = Crossings(slice)
          BY <1>14, <3>1, <4>2
        <5>2. Crossings(slice) \subseteq Crossings({e \in OnTopic : e.attempt = t.attempt})
          <6>1. slice \subseteq {e \in OnTopic : e.attempt = t.attempt}
            BY <1>6, <3>4
          <6> QED
            BY <6>1, CrossingFacts
        <5>3. ASSUME NEW e \in taken, e.attempt = t.attempt
              PROVE  ~IsEnd(e) /\ (IsMilestone(e) => <<e.team, e.rung>> \in race.crossed)
          <6>1. e \in OnTopic /\ e.n \in Nat
            BY <1>6, <2>2, <2>3, HeardFacts, ToldFacts
          <6>2. t.n <= e.n
            BY <3>2, <5>3, <6>1, PlaceFacts
          <6>3. e \in P
            <7>1. CASE e \in Taken
              <8>1. e.n <= cursor
                BY <1>3, <1>4, <7>1 DEF Taken
              <8> QED
                BY <1>4, <3>2, <6>1, <6>2, <8>1
            <7> QED
              BY <2>2, <2>3, <5>3, <7>1
          <6>4. e \in slice
            <7>1. \A s \in Q : s.n <= e.n
              <8> SUFFICES ASSUME NEW s \in Q PROVE s.n <= e.n
                OBVIOUS
              <8>1. s.n <= t.n /\ s.n \in Nat
                BY <1>2, <1>7, <3>1
              <8> QED
                BY <3>2, <6>1, <6>2, <8>1
            <7> QED
              BY <1>11, <3>1, <5>3, <6>3, <7>1
          <6>5. ~IsEnd(e)
            BY <1>13, <4>2, <6>4
          <6>6. IsMilestone(e) => <<e.team, e.rung>> \in Crossings(slice)
            BY <6>4, CrossingFacts
          <6> QED
            BY <5>1, <6>5, <6>6
        <5> QED
          BY <5>1, <5>2, <5>3 DEF Follows
      <4> QED
        BY <4>1, <4>2
    <3>6. \E s \in OnTopic : IsStart(s) /\ s.n = later /\ Follows(s, race, taken)
      BY <3>2, <3>3, <3>5
    <3> QED
      BY <2>3, <2>5, <2>6, <3>6
  <2> QED
    BY <2>7, <2>8
<1>18. MindFollows'
  <2>1. PICK later, cur, taken, told : later = mind'.newest /\ cur = mind'.cursor /\ taken = Taken' /\ told = OnTopic
    OBVIOUS
  <2>2. \A s : Follows(s, race, taken)' <=> Follows(s, race, taken)
    BY <1>10 DEF Follows
  <2>3. ~missed =>
           /\ \A t \in taken : IsStart(t) => t.n <= later
           /\ \/ later = 0 /\ race = NoRace
              \/ \E s \in OnTopic : IsStart(s) /\ s.n = later /\ Follows(s, race, taken)'
           /\ later <= cur
    BY <1>17, <2>1, <2>2
  <2> QED
    BY <1>9, <1>10, <2>1, <2>3 DEF MindFollows, IsStart, NoRace, Follows
<1> QED
  BY <1>16, <1>18

LEMMA RaceKinds ==
  ASSUME NEW e, e.type \in RaceTypes
  PROVE  /\ IsStart(e) \/ IsMilestone(e) \/ IsEnd(e)
         /\ ~(IsStart(e) /\ IsMilestone(e)) /\ ~(IsStart(e) /\ IsEnd(e)) /\ ~(IsMilestone(e) /\ IsEnd(e))
BY DEF RaceTypes, IsStart, IsMilestone, IsEnd

LEMMA NewestOfTwo ==
  ASSUME NEW newest \in Nat, NEW e, e.n \in Nat
  PROVE  /\ IsStart(e) /\ ~Supersedes(newest, e) => Newest(newest, e) = e.n /\ newest <= e.n
         /\ Newest(newest, e) \in Nat /\ newest <= Newest(newest, e)
         /\ ~IsStart(e) => Newest(newest, e) = newest /\ ~Supersedes(newest, e)
<1>1. ASSUME NEW a \in Nat, NEW b \in Nat
      PROVE  Max({a, b}) \in {a, b} /\ a <= Max({a, b}) /\ b <= Max({a, b})
  <2>1. \E m \in {a, b} : \A n \in {a, b} : m >= n
    <3>1. CASE a <= b
      BY <3>1
    <3>2. CASE b <= a
      BY <3>2
    <3> QED
      BY <3>1, <3>2
  <2>2. PICK m : m = Max({a, b})
    OBVIOUS
  <2>3. m \in {a, b} /\ \A n \in {a, b} : m >= n
    BY <2>1, <2>2 DEF Max
  <2>4. m >= a /\ m >= b
    BY <2>3
  <2>5. m \in Nat
    BY <2>3
  <2> QED
    BY <2>2, <2>3, <2>4, <2>5
<1>2. PICK n \in Nat : n = e.n
  OBVIOUS
<1>3. PICK m : m = Max({newest, n})
  OBVIOUS
<1>4. m \in {newest, n} /\ newest <= m /\ n <= m /\ m \in Nat
  BY <1>1, <1>3
<1>5. CASE IsStart(e)
  <2>1. Newest(newest, e) = m /\ (Supersedes(newest, e) <=> n < newest)
    BY <1>2, <1>3, <1>5 DEF Newest, Supersedes, IsStart
  <2>2. ~(n < newest) => m = n /\ newest <= n
    BY <1>4
  <2> QED
    BY <1>2, <1>4, <1>5, <2>1, <2>2
<1>6. CASE ~IsStart(e)
  BY <1>6 DEF Newest, Supersedes, IsStart
<1> QED
  BY <1>5, <1>6

LEMMA MindListens ==
  ASSUME Arrived, MindShape, MindFollows, NEW p \in Partition, Hears(p)
  PROVE  MindShape' /\ MindFollows'
<1>1. PICK h, e : h = heard[p] /\ e = topic[p][h + 1]
  OBVIOUS
<1>2. /\ mind.stage = "live" /\ h < Len(topic[p]) /\ heard' = [heard EXCEPT ![p] = h + 1]
      /\ mind' = IF e = Poison THEN mind
                 ELSE [mind EXCEPT !.race = MindHears(@, e), !.newest = Newest(@, e),
                                   !.missed = @ \/ Supersedes(mind.newest, e)]
      /\ UNCHANGED topic
  BY <1>1 DEF Hears, ledgerVars
<1>3. /\ heard \in [Partition -> Nat] /\ h \in Nat /\ Len(topic[p]) \in Nat /\ h + 1 \in 1..Len(topic[p])
      /\ heard' \in [Partition -> Nat]
      /\ \A q \in Partition : heard'[q] = IF q = p THEN h + 1 ELSE heard[q]
  <2>1. heard \in [Partition -> Nat] /\ h \in Nat /\ Len(topic[p]) \in Nat
    BY <1>1, ToldFacts DEF MindShape
  <2>2. h + 1 \in 1..Len(topic[p])
    BY <1>2, <2>1
  <2> QED
    BY <1>1, <1>2, <2>1, <2>2
<1>4. \A q \in Partition : heard'[q] <= Len(topic[q])
  <2> SUFFICES ASSUME NEW q \in Partition PROVE heard'[q] <= Len(topic[q])
    OBVIOUS
  <2>1. CASE q = p
    BY <1>3, <2>1
  <2>2. CASE q # p
    BY <1>3, <2>2 DEF MindShape
  <2> QED
    BY <2>1, <2>2
<1>5. OnTopic' = OnTopic /\ \A A : Crossings(A)' = Crossings(A)
  BY <1>2 DEF OnTopic, Crossings
<1>6. \A x : x \in Heard' <=> x \in Heard \/ (x = e /\ e # Poison)
  <2>1. \A x : x \in Heard' <=> x \in OnTopic /\ \E q \in Partition : \E i \in 1..heard'[q] : topic[q][i] = x
    BY <1>2, <1>5 DEF Heard
  <2>2. ASSUME NEW x \in OnTopic, NEW q \in Partition, NEW i \in 1..heard'[q], topic[q][i] = x
        PROVE  x \in Heard \/ (x = e /\ e # Poison)
    <3>1. x # Poison
      BY ToldFacts
    <3>2. CASE q = p /\ i = h + 1
      BY <1>1, <2>2, <3>1, <3>2
    <3>3. CASE ~(q = p /\ i = h + 1)
      <4>1. i \in 1..heard[q]
        <5>1. CASE q = p
          BY <1>1, <1>3, <3>3, <5>1
        <5>2. CASE q # p
          BY <1>3, <5>2
        <5> QED
          BY <5>1, <5>2
      <4> QED
        BY <2>2, <4>1 DEF Heard
    <3> QED
      BY <3>2, <3>3
  <2>3. ASSUME NEW x \in Heard PROVE x \in Heard'
    <3>1. PICK q \in Partition : \E i \in 1..heard[q] : topic[q][i] = x
      BY DEF Heard
    <3>2. PICK i \in 1..heard[q] : topic[q][i] = x
      BY <3>1
    <3>3. i \in 1..heard'[q]
      <4>1. CASE q = p
        BY <1>1, <1>3, <4>1
      <4>2. CASE q # p
        BY <1>3, <4>2
      <4> QED
        BY <4>1, <4>2
    <3> QED
      BY <2>1, <3>2, <3>3 DEF Heard
  <2>4. e # Poison => e \in OnTopic /\ h + 1 \in 1..heard'[p]
    BY <1>1, <1>3, ToldFacts
  <2> QED
    BY <1>1, <2>1, <2>2, <2>3, <2>4
<1>7. CASE e = Poison
  <2>1. mind' = mind /\ Heard' = Heard
    BY <1>2, <1>6, <1>7
  <2>2. MindShape'
    BY <1>2, <1>3, <1>4, <1>5, <2>1 DEF MindShape
  <2>3. Taken' = Taken
    BY <2>1 DEF Taken
  <2> QED
    BY <1>5, <2>1, <2>2, <2>3 DEF MindFollows, Follows, IsStart, IsEnd, IsMilestone, NoRace
<1>8. CASE e # Poison
  <2>1. e \in OnTopic /\ e.n \in Nat /\ e.type \in RaceTypes /\ e.attempt \in Nat /\ e.attempt # 0
    <3>1. e \in OnTopic
      BY <1>1, <1>3, <1>8, ToldFacts
    <3>2. e.attempt \in Attempt
      BY <3>1, ToldFacts
    <3>3. \A a \in Attempt : a \in Nat /\ a # 0
      BY AttemptAssumption, FS_CardinalityType DEF Attempt
    <3> QED
      BY <3>1, <3>2, <3>3, ToldFacts
  <2>2. PICK newest, race, later, after :
          newest = mind.newest /\ race = mind.race /\ later = Newest(newest, e) /\ after = MindHears(race, e)
    OBVIOUS
  <2>3. /\ newest \in Nat /\ mind.missed \in BOOLEAN
        /\ race \in [attempt : Nat, crossed : SUBSET Crossings(OnTopic), over : {FALSE}]
    BY <2>2 DEF MindShape
  <2>4. /\ later \in Nat /\ newest <= later
        /\ IsStart(e) /\ ~Supersedes(newest, e) => later = e.n
        /\ ~IsStart(e) => later = newest
    BY <2>1, <2>2, <2>3, NewestOfTwo
  <2>5. /\ mind'.stage = "live" /\ mind'.race = after /\ mind'.newest = later
        /\ mind'.missed = (mind.missed \/ Supersedes(newest, e)) /\ mind'.cursor = mind.cursor
        /\ DOMAIN mind' = {"stage", "cursor", "newest", "missed", "race"}
    BY <1>2, <1>8, <2>2 DEF MindShape
  <2>6. /\ IsStart(e) => after = [attempt |-> e.attempt, crossed |-> {}, over |-> FALSE]
        /\ IsMilestone(e) /\ e.attempt = race.attempt =>
             after = [attempt |-> race.attempt, crossed |-> race.crossed \union {<<e.team, e.rung>>}, over |-> race.over]
        /\ IsEnd(e) /\ e.attempt = race.attempt => after = NoRace
        /\ ~IsStart(e) /\ e.attempt # race.attempt => after = race
    <3>1. IsStart(e) => after = [attempt |-> e.attempt, crossed |-> {}, over |-> FALSE]
      BY <2>2 DEF MindHears, Fresh, NoRace, IsStart
    <3>2. ASSUME IsMilestone(e), e.attempt = race.attempt
          PROVE  after = [attempt |-> race.attempt, crossed |-> race.crossed \union {<<e.team, e.rung>>}, over |-> race.over]
      <4>1. PICK x : x = race.crossed \union {<<e.team, e.rung>>}
        OBVIOUS
      <4>2. after = [race EXCEPT !.crossed = x]
        BY <2>2, <3>2, <4>1 DEF MindHears, Crossing, IsMilestone
      <4>3. [race EXCEPT !.crossed = x] = [attempt |-> race.attempt, crossed |-> x, over |-> race.over]
        BY <2>3, RaceCrosses
      <4> QED
        BY <4>1, <4>2, <4>3
    <3>3. IsEnd(e) /\ e.attempt = race.attempt => after = NoRace
      BY <2>2 DEF MindHears, IsEnd
    <3>4. ~IsStart(e) /\ e.attempt # race.attempt => after = race
      BY <2>1, <2>2 DEF MindHears, IsStart, RaceTypes
    <3> QED
      BY <3>1, <3>2, <3>3, <3>4
  <2>7. IsMilestone(e) => <<e.team, e.rung>> \in Crossings(OnTopic)
    BY <2>1, CrossingFacts
  <2>8. IsStart(e) \/ IsMilestone(e) \/ IsEnd(e)
    BY <2>1, RaceKinds
  <2>9. after \in [attempt : Nat, crossed : SUBSET Crossings(OnTopic), over : {FALSE}]
    <3>1. PICK all : all = Crossings(OnTopic)
      OBVIOUS
    <3>2. CASE IsStart(e)
      <4>1. [attempt |-> e.attempt, crossed |-> {}, over |-> FALSE] \in [attempt : Nat, crossed : SUBSET all, over : {FALSE}]
        BY <2>1
      <4> QED
        BY <2>6, <3>1, <3>2, <4>1
    <3>3. CASE IsMilestone(e) /\ e.attempt = race.attempt
      <4>1. PICK x : x = race.crossed \union {<<e.team, e.rung>>}
        OBVIOUS
      <4>2. x \subseteq all
        BY <2>3, <2>7, <3>1, <3>3, <4>1
      <4>3. after = [attempt |-> race.attempt, crossed |-> x, over |-> race.over]
        BY <2>6, <3>3, <4>1
      <4> QED
        BY <2>3, <3>1, <4>2, <4>3
    <3>4. CASE IsEnd(e) /\ e.attempt = race.attempt
      <4>1. NoRace \in [attempt : Nat, crossed : SUBSET all, over : {FALSE}]
        BY DEF NoRace
      <4> QED
        BY <2>6, <3>1, <3>4, <4>1
    <3>5. CASE ~IsStart(e) /\ e.attempt # race.attempt
      BY <2>3, <2>6, <3>5
    <3> QED
      BY <2>8, <3>2, <3>3, <3>4, <3>5
  <2>10. MindShape'
    <3>1. (mind.missed \/ Supersedes(newest, e)) \in BOOLEAN
      BY <2>3 DEF Supersedes
    <3>2. mind'.cursor \in Nat
      BY <2>5 DEF MindShape
    <3>3. mind' \in [stage : {"replaying", "live"}, cursor : Nat, newest : Nat, missed : BOOLEAN,
                     race : [attempt : Nat, crossed : SUBSET Crossings(OnTopic), over : {FALSE}]]
      <4>1. PICK R : R = [attempt : Nat, crossed : SUBSET Crossings(OnTopic), over : {FALSE}]
        OBVIOUS
      <4>2. after \in R /\ mind \in [stage : {"replaying", "live"}, cursor : Nat, newest : Nat, missed : BOOLEAN, race : R]
        BY <2>9, <4>1 DEF MindShape
      <4>3. PICK o \in BOOLEAN : o = (mind.missed \/ Supersedes(newest, e))
        BY <3>1
      <4>4. mind' = [mind EXCEPT !.race = after, !.newest = later, !.missed = o]
        BY <1>2, <1>8, <2>2, <4>3
      <4>5. mind' \in [stage : {"replaying", "live"}, cursor : Nat, newest : Nat, missed : BOOLEAN, race : R]
        BY <2>4, <4>2, <4>4
      <4> QED
        BY <4>1, <4>5
    <3> QED
      BY <1>2, <1>3, <1>4, <1>5, <3>3 DEF MindShape
  <2>11. Taken = Heard /\ Taken' = Heard'
    BY <1>2, <2>5 DEF Taken
  <2>12. ASSUME ~mind'.missed
         PROVE  /\ \A t \in Heard' : IsStart(t) => t.n <= later
                /\ \/ later = 0 /\ after = NoRace
                   \/ \E s \in OnTopic : IsStart(s) /\ s.n = later /\ Follows(s, after, Heard')
    <3>1. ~mind.missed /\ ~Supersedes(newest, e)
      BY <2>5, <2>12
    <3>2. /\ \A t \in Heard : IsStart(t) => t.n <= newest
          /\ \/ newest = 0 /\ race = NoRace
             \/ \E s \in OnTopic : IsStart(s) /\ s.n = newest /\ Follows(s, race, Heard)
      BY <2>2, <2>11, <3>1 DEF MindFollows
    <3>3. \A t \in Heard' : IsStart(t) => t.n <= later
      <4> SUFFICES ASSUME NEW t \in Heard', IsStart(t) PROVE t.n <= later
        OBVIOUS
      <4>1. CASE t = e
        BY <2>1, <2>4, <3>1, <4>1
      <4>2. CASE t \in Heard
        <5>1. t.n \in Nat /\ t.n <= newest
          BY <3>2, <4>2, HeardFacts, ToldFacts
        <5> QED
          BY <2>3, <2>4, <5>1
      <4> QED
        BY <1>6, <4>1, <4>2
    <3>4. CASE IsStart(e)
      <4>1. after.attempt = e.attempt /\ after.crossed = {} /\ later = e.n
        BY <2>4, <2>6, <3>1, <3>4
      <4>2. ASSUME NEW x \in Heard, x.attempt = e.attempt PROVE FALSE
        <5>1. PICK q \in Partition : \E i \in 1..heard[q] : topic[q][i] = x
          BY DEF Heard
        <5>2. PICK i \in 1..heard[q] : topic[q][i] = x
          BY <5>1
        <5>3. x # Poison /\ i \in 1..Len(topic[q])
          BY <5>1, <5>2, HeardFacts, ToldFacts
        <5>4. p = q /\ h + 1 <= i
          BY <1>1, <1>3, <1>8, <3>4, <4>2, <5>2, <5>3, PlaceFacts
        <5> QED
          BY <1>1, <1>3, <5>2, <5>4
      <4>3. ~IsEnd(e) /\ ~IsMilestone(e)
        BY <2>1, <3>4, RaceKinds
      <4>4. Follows(e, after, Heard')
        BY <1>6, <4>1, <4>2, <4>3 DEF Follows
      <4> QED
        BY <2>1, <3>3, <3>4, <4>1, <4>4
    <3>5. CASE ~IsStart(e)
      <4>1. later = newest
        BY <2>4, <3>5
      <4>2. CASE newest = 0 /\ race = NoRace
        <5>1. e.attempt # race.attempt
          BY <2>1, <4>2 DEF NoRace
        <5> QED
          BY <2>6, <3>3, <3>5, <4>1, <4>2, <5>1
      <4>3. CASE \E s \in OnTopic : IsStart(s) /\ s.n = newest /\ Follows(s, race, Heard)
        <5>1. PICK s \in OnTopic : IsStart(s) /\ s.n = newest /\ Follows(s, race, Heard)
          BY <4>3
        <5>2. s # e /\ (s \in Heard' => s \in Heard)
          BY <1>6, <3>5, <5>1
        <5>3. CASE race = NoRace /\ \E x \in OnTopic : IsEnd(x) /\ x.attempt = s.attempt
          <6>1. e.attempt # race.attempt
            BY <2>1, <5>3 DEF NoRace
          <6>2. Follows(s, after, Heard')
            BY <2>6, <3>5, <5>3, <6>1 DEF Follows
          <6> QED
            BY <3>3, <4>1, <5>1, <6>2
        <5>4. CASE /\ race.attempt = s.attempt
                   /\ race.crossed \subseteq Crossings({x \in OnTopic : x.attempt = s.attempt})
                   /\ s \in Heard => \A x \in Heard : x.attempt = s.attempt =>
                        ~IsEnd(x) /\ (IsMilestone(x) => <<x.team, x.rung>> \in race.crossed)
          <6>1. CASE e.attempt # race.attempt
            <7>1. after = race
              BY <2>6, <3>5, <6>1
            <7>2. Follows(s, after, Heard')
              BY <1>6, <5>2, <5>4, <6>1, <7>1 DEF Follows
            <7> QED
              BY <3>3, <4>1, <5>1, <7>2
          <6>2. CASE e.attempt = race.attempt /\ IsEnd(e)
            <7>1. Follows(s, after, Heard')
              BY <2>1, <2>6, <5>4, <6>2 DEF Follows
            <7> QED
              BY <3>3, <4>1, <5>1, <7>1
          <6>3. CASE e.attempt = race.attempt /\ IsMilestone(e)
            <7>1. after.attempt = s.attempt /\ after.crossed = race.crossed \union {<<e.team, e.rung>>}
              BY <2>6, <5>4, <6>3
            <7>2. <<e.team, e.rung>> \in Crossings({x \in OnTopic : x.attempt = s.attempt})
              <8>1. PICK A : A = {x \in OnTopic : x.attempt = s.attempt}
                OBVIOUS
              <8>2. e \in A
                BY <2>1, <5>4, <6>3, <8>1
              <8> QED
                BY <6>3, <8>1, <8>2, CrossingFacts
            <7>3. after.crossed \subseteq Crossings({x \in OnTopic : x.attempt = s.attempt})
              BY <5>4, <7>1, <7>2
            <7>4. ASSUME s \in Heard', NEW x \in Heard', x.attempt = s.attempt
                  PROVE  ~IsEnd(x) /\ (IsMilestone(x) => <<x.team, x.rung>> \in after.crossed)
              <8>1. CASE x = e
                <9>1. ~IsEnd(e)
                  BY <2>1, <6>3, RaceKinds
                <9> QED
                  BY <7>1, <8>1, <9>1
              <8>2. CASE x \in Heard
                BY <5>2, <5>4, <7>1, <7>4, <8>2
              <8> QED
                BY <1>6, <7>4, <8>1, <8>2
            <7>5. Follows(s, after, Heard')
              BY <7>1, <7>3, <7>4 DEF Follows
            <7> QED
              BY <3>3, <4>1, <5>1, <7>5
          <6> QED
            BY <2>8, <3>5, <6>1, <6>2, <6>3
        <5> QED
          BY <5>1, <5>3, <5>4 DEF Follows
      <4> QED
        BY <3>2, <4>2, <4>3
    <3> QED
      BY <3>4, <3>5
  <2>13. MindFollows'
    <3>1. PICK taken : taken = Heard'
      OBVIOUS
    <3>2. \A s : Follows(s, after, taken)' <=> Follows(s, after, taken)
      BY <1>5 DEF Follows
    <3>3. ~mind'.missed =>
            /\ \A t \in taken : IsStart(t) => t.n <= later
            /\ \/ later = 0 /\ after = NoRace
               \/ \E s \in OnTopic : IsStart(s) /\ s.n = later /\ Follows(s, after, taken)'
      BY <2>12, <3>1, <3>2
    <3>4. mind'.stage # "replaying"
      BY <2>5
    <3> QED
      BY <1>5, <2>5, <2>11, <3>1, <3>3, <3>4 DEF MindFollows, IsStart, NoRace, Follows
  <2> QED
    BY <2>10, <2>13
<1> QED
  BY <1>7, <1>8

(* What is on the topic grows, and what is heard does not: the minds follow. *)
LEMMA MindFrame ==
  ASSUME Arrived, Arrived', MindShape, MindFollows, UNCHANGED <<mind, heard>>,
         \A p \in Partition : Len(topic[p]) <= Len(topic'[p]) /\ \A i \in 1..Len(topic[p]) : topic'[p][i] = topic[p][i]
  PROVE  MindShape' /\ MindFollows'
<1>1. \A p \in Partition : Len(topic[p]) \in Nat /\ Len(topic'[p]) \in Nat
  BY ToldFacts DEF Arrived
<1>2. PICK told, after : told = OnTopic /\ after = OnTopic'
  OBVIOUS
<1>3. told \subseteq after
  <2> SUFFICES ASSUME NEW e \in told PROVE e \in after
    OBVIOUS
  <2>1. e # Poison /\ \E p \in Partition : e \in Range(topic[p])
    BY <1>2 DEF OnTopic
  <2>2. PICK p \in Partition : e \in Range(topic[p])
    BY <2>1
  <2>3. PICK i \in 1..Len(topic[p]) : topic[p][i] = e
    BY <2>2, ToldFacts DEF Range
  <2>4. i \in 1..Len(topic'[p]) /\ topic'[p][i] = e
    BY <1>1, <2>3
  <2>5. \E S : topic' \in [Partition -> Seq(S)]
    BY DEF Arrived
  <2>6. DOMAIN topic'[p] = 1..Len(topic'[p])
    BY <2>5
  <2>7. e \in Range(topic'[p])
    BY <2>4, <2>6 DEF Range
  <2> QED
    BY <1>2, <2>1, <2>7 DEF OnTopic
<1>4. \A A : Crossings(A)' = Crossings(A)
  BY DEF Crossings
<1>5. Crossings(told) \subseteq Crossings(after)
  BY <1>3, CrossingFacts
<1>6. MindShape'
  <2>1. \A p \in Partition : heard'[p] <= Len(topic'[p])
    BY <1>1 DEF MindShape
  <2>2. \A race : race \in [attempt : Nat, crossed : SUBSET Crossings(told), over : {FALSE}]
          => race \in [attempt : Nat, crossed : SUBSET Crossings(after), over : {FALSE}]
    BY <1>5
  <2>3. mind.race \in [attempt : Nat, crossed : SUBSET Crossings(after), over : {FALSE}]
    BY <1>2, <2>2 DEF MindShape
  <2>4. mind \in [stage : {"replaying", "live"}, cursor : Nat, newest : Nat, missed : BOOLEAN,
                  race : [attempt : Nat, crossed : SUBSET Crossings(after), over : {FALSE}]]
    BY <2>3 DEF MindShape
  <2>5. heard' \in [Partition -> Nat]
    BY DEF MindShape
  <2> QED
    BY <1>2, <1>4, <2>1, <2>4, <2>5 DEF MindShape
<1>7. \A x : x \in Heard' <=> x \in Heard
  <2>1. ASSUME NEW p \in Partition, NEW i \in 1..heard[p]
        PROVE  topic'[p][i] = topic[p][i]
    <3>1. i \in 1..Len(topic[p])
      BY HeardFacts
    <3> QED
      BY <3>1
  <2>2. \A x : x \in Heard' <=> x \in after /\ \E p \in Partition : \E i \in 1..heard[p] : topic'[p][i] = x
    BY <1>2 DEF Heard
  <2>3. ASSUME NEW x, NEW p \in Partition, NEW i \in 1..heard[p], topic[p][i] = x, x \in after
        PROVE  x \in told
    <3>1. i \in 1..Len(topic[p]) /\ x # Poison
      BY <1>2, <2>3, HeardFacts DEF OnTopic
    <3> QED
      BY <1>2, <2>3, <3>1, ToldFacts
  <2> QED
    BY <1>2, <1>3, <2>1, <2>2, <2>3 DEF Heard
<1>8. Taken' = Taken
  BY <1>7 DEF Taken
<1>9. ASSUME NEW s, NEW race, NEW taken, Follows(s, race, taken)
      PROVE  Follows(s, race, taken)'
  <2>1. Crossings({e \in told : e.attempt = s.attempt}) \subseteq Crossings({e \in after : e.attempt = s.attempt})
    <3>1. {e \in told : e.attempt = s.attempt} \subseteq {e \in after : e.attempt = s.attempt}
      BY <1>3
    <3> QED
      BY <3>1, CrossingFacts
  <2> QED
    BY <1>2, <1>3, <1>4, <1>9, <2>1 DEF Follows
<1>10. MindFollows'
  <2>1. PICK taken, race : taken = Taken /\ race = mind.race
    OBVIOUS
  <2>2. ASSUME ~mind.missed
        PROVE  /\ \A t \in taken : IsStart(t) => t.n <= mind.newest
               /\ \/ mind.newest = 0 /\ race = NoRace
                  \/ \E s \in after : IsStart(s) /\ s.n = mind.newest /\ Follows(s, race, taken)'
               /\ mind.stage = "replaying" => mind.newest <= mind.cursor
    <3>1. /\ \A t \in taken : IsStart(t) => t.n <= mind.newest
          /\ \/ mind.newest = 0 /\ race = NoRace
             \/ \E s \in told : IsStart(s) /\ s.n = mind.newest /\ Follows(s, race, taken)
          /\ mind.stage = "replaying" => mind.newest <= mind.cursor
      BY <1>2, <2>1, <2>2 DEF MindFollows
    <3>2. ASSUME NEW s \in told, IsStart(s), s.n = mind.newest, Follows(s, race, taken)
          PROVE  \E t \in after : IsStart(t) /\ t.n = mind.newest /\ Follows(t, race, taken)'
      BY <1>3, <1>9, <3>2
    <3> QED
      BY <3>1, <3>2
  <2>3. taken = Taken' /\ race = mind'.race
    BY <1>8, <2>1
  <2> QED
    BY <1>2, <2>2, <2>3 DEF MindFollows, Follows, IsStart, NoRace
<1> QED
  BY <1>6, <1>10

LEMMA MindForgets ==
  ASSUME Arrived, MindShape, UNCHANGED topic,
         \/ mind' = [mind EXCEPT !.stage = "live", !.missed = TRUE] /\ UNCHANGED heard
         \/ mind' = MindReborn /\ heard' \in [Partition -> Nat] /\ \A p \in Partition : heard'[p] <= heard[p]
  PROVE  MindShape' /\ MindFollows'
<1>1. OnTopic' = OnTopic /\ \A A : Crossings(A)' = Crossings(A)
  BY DEF OnTopic, Crossings
<1>2. CASE mind' = [mind EXCEPT !.stage = "live", !.missed = TRUE] /\ UNCHANGED heard
  <2>1. PICK R : R = [attempt : Nat, crossed : SUBSET Crossings(OnTopic), over : {FALSE}]
    OBVIOUS
  <2>2. mind \in [stage : {"replaying", "live"}, cursor : Nat, newest : Nat, missed : BOOLEAN, race : R]
    BY <2>1 DEF MindShape
  <2>3. mind' \in [stage : {"replaying", "live"}, cursor : Nat, newest : Nat, missed : BOOLEAN, race : R]
    BY <1>2, <2>2
  <2>4. mind'.missed
    BY <1>2, <2>2
  <2> QED
    BY <1>1, <1>2, <2>1, <2>3, <2>4 DEF MindShape, MindFollows
<1>3. CASE mind' = MindReborn /\ heard' \in [Partition -> Nat] /\ \A p \in Partition : heard'[p] <= heard[p]
  <2>1. /\ mind'.stage = "replaying" /\ mind'.cursor = 0 /\ mind'.newest = 0 /\ mind'.race = NoRace
    BY <1>3 DEF MindReborn
  <2>2. MindShape'
    <3>1. \A p \in Partition : heard'[p] <= Len(topic[p])
      <4> SUFFICES ASSUME NEW p \in Partition PROVE heard'[p] <= Len(topic[p])
        OBVIOUS
      <4>1. heard'[p] \in Nat /\ heard[p] \in Nat /\ Len(topic[p]) \in Nat /\ heard[p] <= Len(topic[p]) /\ heard'[p] <= heard[p]
        BY <1>3, ToldFacts DEF MindShape
      <4> QED
        BY <4>1
    <3>2. PICK all : all = Crossings(OnTopic)
      OBVIOUS
    <3>3. MindReborn \in [stage : {"replaying", "live"}, cursor : Nat, newest : Nat, missed : BOOLEAN,
                          race : [attempt : Nat, crossed : SUBSET all, over : {FALSE}]]
      BY DEF MindReborn, NoRace
    <3> QED
      BY <1>1, <1>3, <3>1, <3>2, <3>3 DEF MindShape
  <2>3. Taken' = {}
    <3>1. ASSUME NEW e \in Taken' PROVE FALSE
      <4>1. e \in OnTopic /\ e.n <= 0
        BY <1>1, <2>1 DEF Taken, Heard
      <4> QED
        BY <4>1, ToldFacts
    <3> QED
      BY <3>1
  <2> QED
    BY <2>1, <2>2, <2>3 DEF MindFollows, NoRace
<1> QED
  BY <1>2, <1>3

(* The rows are events of the topic, and with a row come those before it on  *)
(* its partition.                                                            *)
RowsAreLed ==
  \A p \in Partition : \A i, j \in 1..Len(topic[p]) :
    i < j /\ topic[p][i] # Poison /\ topic[p][j] \in stored => topic[p][i] \in stored

LEMMA BatchFacts ==
  ASSUME LedgerInv, Arrived, NEW p \in Partition
  PROVE  /\ \A e \in Batch(p) : e \in OnTopic /\ \E i \in 1..Len(topic[p]) : topic[p][i] = e
         /\ IsFiniteSet(Batch(p))
<1>1. PICK S : topic \in [Partition -> Seq(S)]
  BY DEF LedgerInv
<1> DEFINE rest == SubSeq(topic[p], acked[p] + 1, Len(topic[p]))
<1>2. topic[p] \in Seq(S) /\ Len(topic[p]) \in Nat /\ acked[p] \in Nat
  BY <1>1 DEF LedgerInv, AllWritten
<1>3. /\ rest \in Seq(S)
      /\ Len(rest) = IF acked[p] + 1 <= Len(topic[p]) THEN Len(topic[p]) - (acked[p] + 1) + 1 ELSE 0
      /\ \A k \in 1..(Len(topic[p]) - (acked[p] + 1) + 1) : rest[k] = topic[p][acked[p] + 1 + k - 1]
  <2>1. acked[p] + 1 \in Int /\ Len(topic[p]) \in Int
    BY <1>2
  <2>2. \A k \in acked[p] + 1..Len(topic[p]) : topic[p][k] \in S
    BY <1>2
  <2> QED
    BY <2>1, <2>2, SubSeqProperties
<1>4. PICK tail, n, a, l : tail = rest /\ n = Len(rest) /\ a = acked[p] /\ l = Len(topic[p])
  OBVIOUS
<1>5. /\ tail \in Seq(S) /\ n = Len(tail) /\ n \in Nat /\ a \in Nat /\ l \in Nat
      /\ DOMAIN tail = 1..n
  BY <1>2, <1>3, <1>4
<1>6. \A k \in 1..n : k \in 1..(l - (a + 1) + 1) /\ a + 1 + k - 1 \in 1..l
  <2>1. n = IF a + 1 <= l THEN l - (a + 1) + 1 ELSE 0
    BY <1>3, <1>4
  <2> QED
    BY <1>5, <2>1
<1>7. \A k \in 1..n : tail[k] = topic[p][a + 1 + k - 1]
  BY <1>3, <1>4, <1>6
<1>8. \A e \in Range(tail) : \E i \in 1..l : topic[p][i] = e
  BY <1>5, <1>6, <1>7 DEF Range
<1>9. Batch(p) = Range(tail) \ {Poison}
  BY <1>4 DEF Batch
<1>10. IsFiniteSet(Range(tail))
  <2>1. tail \in Surjection(1..n, Range(tail))
    BY <1>5 DEF Surjection, Range
  <2>2. IsFiniteSet(1..n)
    <3>1. 1 \in Int /\ n \in Int
      BY <1>5
    <3> QED
      BY <3>1, FS_Interval
  <2> QED
    BY <2>1, <2>2, FS_Surjection
<1>11. \A e \in Batch(p) : e \in OnTopic
  BY <1>4, <1>8, <1>9, ToldFacts
<1> QED
  BY <1>4, <1>8, <1>9, <1>10, <1>11, FS_Subset

LEMMA RowsStayTold ==
  ASSUME LedgerInv, Arrived, Arrived', RowsAreTold, RowsAreLed,
         \/ UNCHANGED stored /\ \A p \in Partition :
              /\ Len(topic[p]) <= Len(topic'[p])
              /\ \A i \in 1..Len(topic[p]) : topic'[p][i] = topic[p][i]
         \/ UNCHANGED topic /\ \E p \in Partition : stored' = stored \union Batch(p)
  PROVE  RowsAreTold' /\ RowsAreLed'
<1>1. CASE UNCHANGED stored /\ \A p \in Partition :
             /\ Len(topic[p]) <= Len(topic'[p])
             /\ \A i \in 1..Len(topic[p]) : topic'[p][i] = topic[p][i]
  <2>1. \A p \in Partition : Len(topic[p]) \in Nat /\ Len(topic'[p]) \in Nat /\ DOMAIN topic'[p] = 1..Len(topic'[p])
    <3>1. PICK S : topic' \in [Partition -> Seq(S)]
      BY DEF Arrived
    <3>2. \A p \in Partition : topic'[p] \in Seq(S)
      BY <3>1
    <3> QED
      BY <3>2, ToldFacts
  <2>2. ASSUME NEW e \in stored PROVE e \in OnTopic'
    <3>1. PICK p \in Partition : \E i \in 1..Len(topic[p]) : topic[p][i] = e /\ e # Poison
      BY ToldFacts DEF RowsAreTold
    <3>2. PICK i \in 1..Len(topic[p]) : topic[p][i] = e /\ e # Poison
      BY <3>1
    <3>3. i \in 1..Len(topic'[p]) /\ topic'[p][i] = e
      BY <1>1, <2>1, <3>2
    <3>4. e \in Range(topic'[p])
      BY <2>1, <3>3 DEF Range
    <3> QED
      BY <3>2, <3>4 DEF OnTopic
  <2>3. ASSUME NEW p \in Partition, NEW i \in 1..Len(topic'[p]), NEW j \in 1..Len(topic'[p]), i < j,
               topic'[p][i] # Poison, topic'[p][j] \in stored
        PROVE  topic'[p][i] \in stored
    <3>1. PICK e : e = topic'[p][j]
      OBVIOUS
    <3>2. PICK q \in Partition : \E k \in 1..Len(topic[q]) : topic[q][k] = e /\ e # Poison
      BY <2>3, <3>1, ToldFacts DEF RowsAreTold
    <3>3. PICK k \in 1..Len(topic[q]) : topic[q][k] = e /\ e # Poison
      BY <3>2
    <3>4. k \in 1..Len(topic'[q]) /\ topic'[q][k] = e
      BY <1>1, <2>1, <3>3
    <3>5. q = p /\ k = j
      <4>1. \A r, s \in Partition : \A m \in 1..Len(topic'[r]), l \in 1..Len(topic'[s]) :
              topic'[r][m] # Poison' /\ topic'[r][m] = topic'[s][l] => r = s /\ m = l
        BY OnePlaceStill DEF OnePlace
      <4> QED
        BY <3>1, <3>3, <3>4, <4>1 DEF Poison
    <3>6. i \in 1..Len(topic[p])
      BY <2>1, <2>3, <3>3, <3>5
    <3>7. topic'[p][i] = topic[p][i] /\ topic[p][j] = e /\ j \in 1..Len(topic[p])
      BY <1>1, <3>3, <3>5, <3>6
    <3> QED
      BY <2>3, <3>1, <3>6, <3>7 DEF RowsAreLed
  <2> QED
    BY <1>1, <2>2, <2>3 DEF RowsAreTold, RowsAreLed, Poison
<1>2. ASSUME UNCHANGED topic, NEW p \in Partition, stored' = stored \union Batch(p)
      PROVE  RowsAreTold' /\ RowsAreLed'
  <2>1. RowsAreTold'
    <3>1. OnTopic' = OnTopic
      BY <1>2 DEF OnTopic
    <3>2. IsFiniteSet(stored \union Batch(p))
      BY BatchFacts, FS_Union DEF RowsAreTold
    <3> QED
      BY <1>2, <3>1, <3>2, BatchFacts DEF RowsAreTold
  <2>2. ASSUME NEW q \in Partition, NEW i \in 1..Len(topic[q]), NEW j \in 1..Len(topic[q]), i < j,
               topic[q][i] # Poison, topic[q][j] \in stored \union Batch(p)
        PROVE  topic[q][i] \in stored \union Batch(p)
    <3>1. CASE topic[q][j] \in stored
      BY <2>2, <3>1 DEF RowsAreLed
    <3>2. CASE topic[q][j] \in Batch(p)
      <4>1. topic[q][j] # Poison
        BY <3>2, BatchFacts, ToldFacts
      <4>2. q = p
        <5>1. PICK k \in 1..Len(topic[p]) : topic[p][k] = topic[q][j]
          BY <3>2, BatchFacts
        <5> QED
          BY <4>1, <5>1, PlaceFacts
      <4>3. CASE i > acked[p]
        BY <2>2, <4>2, <4>3, BatchIsAll
      <4>4. CASE ~(i > acked[p])
        <5>1. i \in Nat /\ acked[p] \in Nat /\ written[p] \in Nat /\ acked[p] <= written[p] /\ 1 <= i
          BY <2>2, <4>2, ToldFacts DEF LedgerInv, AllWritten
        <5>2. i \in 1..written[p]
          BY <4>4, <5>1
        <5> QED
          BY <2>2, <4>2, <5>2 DEF LedgerInv, AllWritten
      <4> QED
        BY <4>3, <4>4
    <3> QED
      BY <2>2, <3>1, <3>2
  <2> QED
    BY <1>2, <2>1, <2>2 DEF RowsAreLed, Poison
<1> QED
  BY <1>1, <1>2

LEMMA ReaderMoves ==
  ASSUME Arrived, ReaderScene
  PROVE  \/ UNCHANGED stored /\ \A p \in Partition :
              /\ Len(topic[p]) <= Len(topic'[p])
              /\ \A i \in 1..Len(topic[p]) : topic'[p][i] = topic[p][i]
         \/ UNCHANGED topic /\ \E p \in Partition : stored' = stored \union Batch(p)
<1>1. \A p \in Partition : Len(topic[p]) \in Nat
  BY ToldFacts
<1>2. PICK S : topic \in [Partition -> Seq(S)]
  BY DEF Arrived
<1>3. CASE UNCHANGED <<topic, stored>>
  BY <1>1, <1>3
<1>4. ASSUME NEW p \in Partition, ScriptGoesOn(p)
      PROVE  /\ UNCHANGED stored
             /\ \A q \in Partition : /\ Len(topic[q]) <= Len(topic'[q])
                                     /\ \A i \in 1..Len(topic[q]) : topic'[q][i] = topic[q][i]
  <2>1. PICK e : e = script[p][Len(topic[p]) - (IF p \in Poisoned THEN 0 ELSE -1)]
    OBVIOUS
  <2>2. topic' = [topic EXCEPT ![p] = Append(@, e)] /\ UNCHANGED stored
    BY <1>4, <2>1 DEF ScriptGoesOn, Published, ingestVars
  <2>3. ASSUME NEW q \in Partition
        PROVE  /\ Len(topic[q]) <= Len(topic'[q])
               /\ \A i \in 1..Len(topic[q]) : topic'[q][i] = topic[q][i]
    <3>1. CASE q = p
      <4>1. PICK old : old = topic[p] /\ old \in Seq(S) /\ topic'[q] = Append(old, e)
        BY <1>2, <2>2, <3>1
      <4>2. old \in Seq(S \union {e})
        BY <4>1
      <4>3. Len(Append(old, e)) = Len(old) + 1 /\ \A i \in 1..Len(old) : Append(old, e)[i] = old[i]
        BY <4>2, AppendProperties
      <4> QED
        BY <1>1, <3>1, <4>1, <4>3
    <3>2. CASE q # p
      BY <1>1, <1>2, <2>2, <3>2
    <3> QED
      BY <3>1, <3>2
  <2> QED
    BY <2>2, <2>3
<1>5. ASSUME NEW p \in Partition, Record(p) \/ Acknowledge(p)
      PROVE  UNCHANGED topic /\ (UNCHANGED stored \/ \E q \in Partition : stored' = stored \union Batch(q))
  BY <1>5 DEF Record, Acknowledge
<1>6. CASE LedgerRestarts
  BY <1>3, <1>6 DEF LedgerRestarts
<1>7. CASE MindNext
  <2>1. UNCHANGED <<topic, stored>>
    BY <1>7 DEF MindNext, Rehydrates, RehydrateFails, MindRestarts, Hears, ledgerVars, ingestVars
  <2> QED
    BY <1>3, <2>1
<1>8. CASE BoardNext
  <2>1. UNCHANGED <<topic, stored>>
    BY <1>8 DEF BoardNext, BoardSeeksNewest, BoardReadsSlice, BoardConnects, Broadcast, ClientDropped,
                ledgerVars, ingestVars
  <2> QED
    BY <1>3, <2>1
<1> QED
  BY <1>3, <1>4, <1>5, <1>6, <1>7, <1>8 DEF ReaderScene, LedgerNext, Ingests

(* The invariant of the scene of the minds; who else is on keeps them as     *)
(* they were at first.                                                       *)
RowsInv == scene # "writers" => RowsAreTold /\ RowsAreLed

MindInv ==
  /\ scene = "minds" => MindShape /\ MindFollows
  /\ scene # "minds" => mind = MindReborn /\ heard = [p \in Partition |-> 0]

LEMMA MindInvAtFirst == Init => RowsInv /\ MindInv
<1> SUFFICES ASSUME Init PROVE RowsInv /\ MindInv
  OBVIOUS
<1>1. stored = {} /\ mind = MindReborn /\ heard = [p \in Partition |-> 0]
  BY DEF Init, LedgerInit, ReaderInit
<1>2. SliceInv
  BY SliceInvAtFirst
<1>3. RowsInv
  <2>1. stored \subseteq OnTopic /\ IsFiniteSet(stored)
    BY <1>1, FS_EmptySet
  <2> QED
    BY <1>1, <2>1 DEF RowsInv, RowsAreTold, RowsAreLed
<1>4. ASSUME scene = "minds" PROVE MindShape /\ MindFollows
  <2>1. Arrived
    BY <1>2, <1>4 DEF SliceInv
  <2>2. PICK all : all = Crossings(OnTopic)
    OBVIOUS
  <2>3. mind \in [stage : {"replaying", "live"}, cursor : Nat, newest : Nat, missed : BOOLEAN,
                  race : [attempt : Nat, crossed : SUBSET all, over : {FALSE}]]
    BY <1>1 DEF MindReborn, NoRace
  <2>4. heard \in [Partition -> Nat] /\ \A p \in Partition : heard[p] <= Len(topic[p])
    <3>1. \A p \in Partition : heard[p] = 0 /\ Len(topic[p]) \in Nat
      BY <1>1, <2>1, ToldFacts
    <3> QED
      BY <1>1, <3>1
  <2>5. MindShape
    BY <2>2, <2>3, <2>4 DEF MindShape
  <2>6. Taken = {}
    BY <1>1 DEF Taken, Heard
  <2> QED
    BY <1>1, <2>5, <2>6 DEF MindFollows, MindReborn
<1> QED
  BY <1>1, <1>3, <1>4 DEF MindInv

LEMMA RowsInvStays ==
  ASSUME SliceInv, SliceInv', RowsInv, [Next]_vars
  PROVE  RowsInv'
<1>1. CASE scene # "writers" /\ ReaderScene /\ UNCHANGED <<scene, script>>
  <2>1. Arrived /\ Arrived' /\ LedgerInv
    BY <1>1 DEF SliceInv
  <2>2. RowsAreTold' /\ RowsAreLed'
    BY <1>1, <2>1, ReaderMoves, RowsStayTold DEF RowsInv
  <2> QED
    BY <2>2 DEF RowsInv
<1>2. CASE scene = "writers" /\ UNCHANGED <<scene, script>>
  BY <1>2 DEF RowsInv
<1>3. CASE UNCHANGED vars
  BY <1>3 DEF vars, ledgerVars, ingestVars, RowsInv, RowsAreTold, RowsAreLed, OnTopic, Poison
<1> QED
  BY <1>1, <1>2, <1>3 DEF Next

LEMMA MindInvStays ==
  ASSUME SliceInv, SliceInv', RowsInv, MindInv, [Next]_vars
  PROVE  MindInv'
<1>1. ASSUME scene = "minds", ReaderScene, UNCHANGED <<scene, script>>
      PROVE  MindShape' /\ MindFollows'
  <2>1. Arrived /\ Arrived' /\ RowsAreTold /\ MindShape /\ MindFollows
    BY <1>1 DEF SliceInv, RowsInv, MindInv
  <2>2. CASE Rehydrates
    BY <2>1, <2>2, MindReplays
  <2>3. CASE RehydrateFails
    BY <2>1, <2>3, MindForgets DEF RehydrateFails
  <2>4. CASE MindRestarts
    <3>1. UNCHANGED topic /\ mind' = MindReborn
      BY <2>4 DEF MindRestarts
    <3>2. PICK behind \in SUBSET {p \in Partition : heard[p] > 0} :
            heard' = [p \in Partition |-> IF p \in behind THEN heard[p] - 1 ELSE heard[p]]
      BY <2>4 DEF MindRestarts
    <3>3. \A p \in Partition : heard[p] \in Nat
      BY <2>1 DEF MindShape
    <3>4. \A p \in Partition : heard'[p] \in Nat /\ heard'[p] <= heard[p]
      <4> SUFFICES ASSUME NEW p \in Partition PROVE heard'[p] \in Nat /\ heard'[p] <= heard[p]
        OBVIOUS
      <4>1. CASE p \in behind
        BY <3>2, <3>3, <4>1
      <4>2. CASE p \notin behind
        BY <3>2, <3>3, <4>2
      <4> QED
        BY <4>1, <4>2
    <3>5. heard' \in [Partition -> Nat]
      BY <3>2, <3>4
    <3> QED
      BY <2>1, <3>1, <3>4, <3>5, MindForgets
  <2>5. ASSUME NEW p \in Partition, Hears(p) PROVE MindShape' /\ MindFollows'
    BY <2>1, <2>5, MindListens
  <2>6. CASE UNCHANGED <<mind, heard>>
    <3>1. \A p \in Partition : Len(topic[p]) <= Len(topic'[p])
                               /\ \A i \in 1..Len(topic[p]) : topic'[p][i] = topic[p][i]
      <4>1. \A p \in Partition : Len(topic[p]) \in Nat
        BY <2>1, ToldFacts
      <4> QED
        BY <1>1, <2>1, <4>1, ReaderMoves
    <3> QED
      BY <2>1, <2>6, <3>1, MindFrame
  <2>7. \/ MindNext \/ UNCHANGED <<mind, heard>>
    BY <1>1 DEF ReaderScene, readerVars
  <2> QED
    BY <2>2, <2>3, <2>4, <2>5, <2>6, <2>7 DEF MindNext
<1>2. CASE scene = "minds" /\ ReaderScene /\ UNCHANGED <<scene, script>>
  BY <1>1, <1>2 DEF MindInv
<1>3. CASE scene # "minds" /\ ReaderScene /\ UNCHANGED <<scene, script>>
  <2>1. UNCHANGED <<mind, heard>>
    BY <1>3 DEF ReaderScene, readerVars, BoardNext, BoardSeeksNewest, BoardReadsSlice, BoardConnects,
                Broadcast, ClientDropped, mindVars
  <2> QED
    BY <1>3, <2>1 DEF MindInv, MindReborn, NoRace
<1>4. CASE scene = "writers" /\ UNCHANGED readerVars /\ UNCHANGED <<scene, script>>
  BY <1>4 DEF readerVars, MindInv, MindReborn, NoRace
<1>5. CASE UNCHANGED vars
  <2>1. UNCHANGED <<scene, mind, heard, topic>>
    BY <1>5 DEF vars, readerVars, ledgerVars
  <2>2. OnTopic' = OnTopic /\ Heard' = Heard /\ Taken' = Taken
    BY <2>1 DEF OnTopic, Heard, Taken, Poison
  <2> QED
    BY <2>1, <2>2 DEF MindInv, MindShape, MindFollows, Follows, MindReborn, NoRace, Crossings, IsStart, IsEnd, IsMilestone
<1> QED
  BY <1>2, <1>3, <1>4, <1>5 DEF Next

LEMMA MindsAreCurrent ==
  ASSUME SliceInv, MindInv
  PROVE  MindIsCurrent
<1> SUFFICES ASSUME mind.stage = "live", \A p \in Partition : heard[p] = Len(topic[p]), ~mind.missed
             PROVE  mind.race = RaceInMind
  BY DEF MindIsCurrent
<1>1. scene = "minds"
  BY DEF MindInv, MindReborn
<1>2. Arrived /\ MindShape /\ MindFollows
  BY <1>1 DEF SliceInv, MindInv
<1>3. Taken = OnTopic
  BY <1>2, ToldFacts DEF Taken, Heard
<1>4. PICK told, race : told = OnTopic /\ race = mind.race
  OBVIOUS
<1>5. /\ \A t \in told : IsStart(t) => t.n <= mind.newest
      /\ \/ mind.newest = 0 /\ race = NoRace
         \/ \E s \in told : IsStart(s) /\ s.n = mind.newest /\ Follows(s, race, told)
  BY <1>2, <1>3, <1>4 DEF MindFollows
<1>6. \A t : t \in StartsOf(told) <=> t \in told /\ IsStart(t)
  BY DEF StartsOf, IsStart
<1>7. CASE mind.newest = 0 /\ race = NoRace
  <2>1. StartsOf(told) = {}
    <3>1. ASSUME NEW t \in told, IsStart(t) PROVE FALSE
      <4>1. t.n \in Nat /\ 0 < t.n /\ t.n <= 0
        BY <1>2, <1>4, <1>5, <1>7, <3>1, ToldFacts
      <4> QED
        BY <4>1
    <3> QED
      BY <1>6, <3>1
  <2>2. ShownBy(told) = NoRace
    BY <2>1 DEF ShownBy
  <2> QED
    BY <1>4, <1>7, <2>2 DEF RaceInMind, NoRace
<1>8. ASSUME NEW s \in told, IsStart(s), s.n = mind.newest, Follows(s, race, told)
      PROVE  race = RaceInMind
  <2>1. LatestOf(StartsOf(told)) = s
    <3>1. \A t \in told : IsStart(t) => t.n <= s.n /\ t.n \in Nat
      BY <1>2, <1>4, <1>5, <1>8, ToldFacts
    <3>2. ASSUME NEW t \in told, IsStart(t), \A u \in StartsOf(told) : u.n <= t.n
          PROVE  t = s
      <4>1. s.n <= t.n /\ t.n <= s.n /\ s.n \in Nat /\ t.n \in Nat
        BY <1>6, <1>8, <3>1, <3>2
      <4>2. s.n = t.n
        BY <4>1
      <4> QED
        BY <1>2, <1>4, <4>2, PlaceFacts
    <3>3. s \in StartsOf(told) /\ \A u \in StartsOf(told) : u.n <= s.n
      BY <1>6, <1>8, <3>1
    <3> QED
      BY <1>6, <3>2, <3>3 DEF LatestOf
  <2>2. PICK slice : slice = {e \in told : e.attempt = s.attempt}
    OBVIOUS
  <2>3. ShownBy(told) = [attempt |-> s.attempt, crossed |-> Crossings(slice), over |-> HasEnd(slice)]
    <3>1. StartsOf(told) # {}
      BY <1>6, <1>8
    <3> QED
      BY <2>1, <2>2, <3>1 DEF ShownBy
  <2>4. CASE race = NoRace /\ \E e \in told : IsEnd(e) /\ e.attempt = s.attempt
    <3>1. HasEnd(slice)
      BY <2>2, <2>4 DEF HasEnd, IsEnd
    <3> QED
      BY <1>4, <2>3, <2>4, <3>1 DEF RaceInMind
  <2>5. CASE /\ race.attempt = s.attempt /\ race.crossed \subseteq Crossings(slice)
             /\ \A e \in told : e.attempt = s.attempt =>
                  ~IsEnd(e) /\ (IsMilestone(e) => <<e.team, e.rung>> \in race.crossed)
    <3>1. ~HasEnd(slice)
      BY <2>2, <2>5 DEF HasEnd, IsEnd
    <3>2. Crossings(slice) \subseteq race.crossed
      BY <2>2, <2>5, CrossingFacts
    <3>3. race.crossed = Crossings(slice)
      BY <2>5, <3>2
    <3>4. PICK R : R = SUBSET Crossings(OnTopic)
      OBVIOUS
    <3>5. race \in [attempt : Nat, crossed : R, over : {FALSE}]
      BY <1>2, <1>4, <3>4 DEF MindShape
    <3>6. race = [attempt |-> race.attempt, crossed |-> race.crossed, over |-> FALSE]
      BY <3>5
    <3>7. HasEnd(slice) = FALSE
      BY <3>1 DEF HasEnd
    <3>8. ShownBy(told) = [attempt |-> race.attempt, crossed |-> race.crossed, over |-> FALSE]
      BY <2>3, <2>5, <3>3, <3>7
    <3>9. ShownBy(told) = race
      BY <3>6, <3>8
    <3> QED
      <4>1. ShownBy(OnTopic).over = FALSE
        BY <1>4, <3>8
      <4> QED
        BY <1>4, <3>9, <4>1 DEF RaceInMind
  <2> QED
    BY <1>4, <1>8, <2>2, <2>4, <2>5 DEF Follows
<1> QED
  BY <1>4, <1>5, <1>7, <1>8

(* The prompts follow the race (race_rehydrate.py:31-84, race.py:49-80):      *)
(* however many attempts and partitions there are, minds that have heard the *)
(* topic out and missed nothing between the ledger and the topic hold the    *)
(* newest attempt and exactly its rungs, or no race when it is over, through *)
(* every restart, page and repetition.                                       *)
THEOREM MindsFollowTheRace == Spec => []MindIsCurrent
<1>1. Init => SliceInv /\ RowsInv /\ MindInv
  BY SliceInvAtFirst, MindInvAtFirst
<1>2. SliceInv /\ RowsInv /\ MindInv /\ [Next]_vars => (SliceInv /\ RowsInv /\ MindInv)'
  BY SliceInvStays, RowsInvStays, MindInvStays
<1>3. SliceInv /\ MindInv => MindIsCurrent
  BY MindsAreCurrent
<1> QED
  BY <1>1, <1>2, <1>3, PTL DEF Spec

-----------------------------------------------------------------------------
(* The board.  Rows are offered to the feed in their order and each once, so *)
(* a board that lost nothing either has the newest start still before it in  *)
(* the queue, with all of its race behind it, or shows that race up to what  *)
(* the queue still holds of it.                                              *)

Placed(rows) ==
  /\ IsFiniteSet(rows)
  /\ \A e \in rows : e.n \in Nat /\ e.type \in RaceTypes /\ e.attempt \in Nat \ {0}
  /\ \A d, e \in rows : d.n = e.n => d = e
  /\ \A s, e \in rows : IsStart(s) /\ e.attempt = s.attempt => s.n <= e.n /\ (IsStart(e) => e = s)

Distinct(queue) == \A i, j \in 1..Len(queue) : queue[i] = queue[j] => i = j

LEMMA LatestFacts ==
  ASSUME NEW P, IsFiniteSet(P), P # {}, \A e \in P : e.n \in Nat
  PROVE  LatestOf(P) \in P /\ \A e \in P : e.n <= LatestOf(P).n
<1>1. PICK c : c = CursorOf(P, 0)
  OBVIOUS
<1>2. c \in Nat /\ (\A e \in P : e.n <= c) /\ (c = 0 \/ \E e \in P : e.n = c)
  BY <1>1, CursorFacts
<1>3. \E t \in P : \A e \in P : e.n <= t.n
  <2>1. CASE c = 0
    <3>1. PICK t \in P : t.n <= 0 /\ t.n \in Nat
      BY <1>2, <2>1
    <3>2. t.n = 0
      BY <3>1
    <3> QED
      BY <1>2, <2>1, <3>1, <3>2
  <2>2. CASE \E e \in P : e.n = c
    BY <1>2, <2>2
  <2> QED
    BY <1>2, <2>1, <2>2
<1> QED
  BY <1>3 DEF LatestOf

(* The place of a row is how many come before it.                            *)
LEMMA InOrderFacts ==
  ASSUME NEW S, IsFiniteSet(S), \A e \in S : e.n \in Nat, \A d, e \in S : d.n = e.n => d = e
  PROVE  /\ Cardinality(S) \in Nat
         /\ InOrder(S) \in [1..Cardinality(S) -> S]
         /\ \A e \in S : \E k \in 1..Cardinality(S) : InOrder(S)[k] = e
         /\ \A i, j \in 1..Cardinality(S) : InOrder(S)[i] = InOrder(S)[j] => i = j
         /\ \A i, j \in 1..Cardinality(S) : InOrder(S)[i].n < InOrder(S)[j].n => i < j
<1>1. PICK N \in Nat : N = Cardinality(S)
  BY FS_CardinalityType
<1>2. PICK before : before = [e \in S |-> {d \in S : d.n < e.n}]
  OBVIOUS
<1>3. PICK rank : rank = [e \in S |-> Cardinality(before[e])]
  OBVIOUS
<1>4. \A e \in S : before[e] \subseteq S /\ IsFiniteSet(before[e]) /\ rank[e] = Cardinality(before[e])
  BY <1>2, <1>3, FS_Subset
<1>5. \A e \in S : rank[e] \in Nat
  BY <1>4, FS_CardinalityType
<1>6. \A e \in S : rank[e] < N
  <2> SUFFICES ASSUME NEW e \in S PROVE rank[e] < N
    OBVIOUS
  <2>1. ~(e.n < e.n)
    <3>1. e.n \in Nat
      OBVIOUS
    <3> QED
      BY <3>1
  <2>2. before[e] # S
    BY <1>2, <2>1
  <2>3. rank[e] <= N /\ rank[e] # N
    BY <1>1, <1>4, <2>2, FS_Subset
  <2>4. rank[e] \in Nat
    BY <1>5
  <2> QED
    BY <2>3, <2>4
<1>7. \A d, e \in S : d.n < e.n => rank[d] < rank[e]
  <2> SUFFICES ASSUME NEW d \in S, NEW e \in S, d.n < e.n PROVE rank[d] < rank[e]
    OBVIOUS
  <2>1. d.n \in Nat /\ e.n \in Nat /\ \A c \in S : c.n \in Nat
    OBVIOUS
  <2>2. \A c \in S : c.n < d.n => c.n < e.n
    BY <2>1
  <2>3. ~(d.n < d.n)
    BY <2>1
  <2>4. before[d] \subseteq before[e] /\ before[d] # before[e]
    BY <1>2, <2>2, <2>3
  <2>5. rank[d] <= rank[e] /\ rank[d] # rank[e]
    BY <1>4, <2>4, FS_Subset
  <2>6. rank[d] \in Nat /\ rank[e] \in Nat
    BY <1>5
  <2> QED
    BY <2>5, <2>6
<1>8. \A d, e \in S : rank[d] = rank[e] => d = e
  <2> SUFFICES ASSUME NEW d \in S, NEW e \in S, rank[d] = rank[e] PROVE d = e
    OBVIOUS
  <2>1. rank[d] \in Nat /\ ~(rank[d] < rank[e]) /\ ~(rank[e] < rank[d])
    BY <1>5
  <2>2. ~(d.n < e.n) /\ ~(e.n < d.n)
    BY <1>7, <2>1
  <2>3. d.n \in Nat /\ e.n \in Nat
    OBVIOUS
  <2>4. d.n = e.n
    BY <2>2, <2>3
  <2> QED
    BY <2>4
<1>9. PICK at : at = [e \in S |-> rank[e] + 1]
  OBVIOUS
<1>10. IsFiniteSet(1..N) /\ Cardinality(1..N) = N
  <2>1. 1 \in Int /\ N \in Int
    BY <1>1
  <2> QED
    BY <1>1, <2>1, FS_Interval
<1>11. at \in Injection(S, 1..N)
  <2>1. ASSUME NEW e \in S PROVE at[e] \in 1..N /\ at[e] = rank[e] + 1
    <3>1. rank[e] \in Nat /\ rank[e] < N
      BY <1>5, <1>6
    <3>2. rank[e] + 1 \in 1..N
      BY <1>1, <3>1
    <3> QED
      BY <1>9, <3>2
  <2>2. ASSUME NEW d \in S, NEW e \in S, at[d] = at[e] PROVE d = e
    <3>1. rank[d] \in Nat /\ rank[e] \in Nat /\ rank[d] + 1 = rank[e] + 1
      BY <1>5, <2>1, <2>2
    <3>2. rank[d] = rank[e]
      BY <3>1
    <3> QED
      BY <1>8, <3>2
  <2>3. at \in [S -> 1..N]
    BY <1>9, <2>1
  <2> QED
    BY <2>2, <2>3 DEF Injection, IsInjective
<1>12. at \in Surjection(S, 1..N)
  BY <1>1, <1>10, <1>11, FS_Injection
<1>13. ASSUME NEW k \in 1..N PROVE \E e \in S : rank[e] = k - 1
  <2>1. PICK e \in S : at[e] = k
    BY <1>12 DEF Surjection
  <2>2. rank[e] \in Nat /\ rank[e] + 1 = k
    BY <1>5, <1>9, <2>1
  <2>3. rank[e] = k - 1
    BY <2>2
  <2> QED
    BY <2>3
<1>14. PICK f : f = InOrder(S)
  OBVIOUS
<1>15. f = [k \in 1..N |-> CHOOSE e \in S : Cardinality({d \in S : d.n < e.n}) = k - 1]
  BY <1>1, <1>14 DEF InOrder
<1>16. ASSUME NEW k \in 1..N PROVE f[k] \in S /\ rank[f[k]] = k - 1
  <2>1. f[k] = CHOOSE e \in S : Cardinality({d \in S : d.n < e.n}) = k - 1
    BY <1>15
  <2>2. \A e \in S : Cardinality({d \in S : d.n < e.n}) = rank[e]
    BY <1>2, <1>4
  <2>3. \E e \in S : Cardinality({d \in S : d.n < e.n}) = k - 1
    BY <1>13, <2>2
  <2>4. f[k] \in S /\ Cardinality({d \in S : d.n < f[k].n}) = k - 1
    BY <2>1, <2>3, Zenon
  <2> QED
    BY <2>2, <2>4
<1>17. f \in [1..N -> S]
  BY <1>15, <1>16
<1>18. ASSUME NEW e \in S PROVE \E k \in 1..N : f[k] = e
  <2>1. PICK k \in 1..N : at[e] = k
    BY <1>11 DEF Injection
  <2>2. rank[e] \in Nat /\ rank[e] + 1 = k
    BY <1>5, <1>9, <2>1
  <2>3. f[k] \in S /\ rank[f[k]] = rank[e]
    BY <1>16, <2>2
  <2> QED
    BY <1>8, <2>3
<1>19. ASSUME NEW i \in 1..N, NEW j \in 1..N, f[i] = f[j] PROVE i = j
  <2>1. i - 1 = j - 1 /\ i \in Nat /\ j \in Nat
    BY <1>16, <1>19
  <2> QED
    BY <2>1
<1>20. ASSUME NEW i \in 1..N, NEW j \in 1..N, f[i].n < f[j].n PROVE i < j
  <2>1. rank[f[i]] < rank[f[j]]
    BY <1>7, <1>16, <1>20
  <2>2. i - 1 < j - 1 /\ i \in Nat /\ j \in Nat
    BY <1>16, <2>1
  <2> QED
    BY <2>2
<1> QED
  BY <1>1, <1>14, <1>17, <1>18, <1>19, <1>20

(* What the queue is when nothing had to make room.                          *)
Joined(rows, fresh, queue, queued) ==
  /\ queued \in Seq(rows \union fresh) /\ Len(queue) \in Nat /\ Len(queued) \in Nat
  /\ Len(queue) <= Len(queued)
  /\ \A i \in 1..Len(queue) : queued[i] = queue[i]
  /\ \A e \in fresh : \E k \in Len(queue) + 1..Len(queued) : queued[k] = e
  /\ \A k \in Len(queue) + 1..Len(queued) : queued[k] \in fresh
  /\ \A i, j \in Len(queue) + 1..Len(queued) : queued[i].n < queued[j].n => i < j
  /\ Distinct(queued)

LEMMA QueueFacts ==
  ASSUME NEW rows, NEW fresh, Placed(fresh), NEW queue \in Seq(rows), Distinct(queue), fresh \cap rows = {},
         NEW queued, queued = queue \o InOrder(fresh)
  PROVE  Joined(rows, fresh, queue, queued)
<1>1. PICK more, m : more = InOrder(fresh) /\ m = Cardinality(fresh)
  OBVIOUS
<1>2. /\ m \in Nat /\ more \in [1..m -> fresh]
      /\ \A e \in fresh : \E k \in 1..m : more[k] = e
      /\ \A i, j \in 1..m : more[i] = more[j] => i = j
      /\ \A i, j \in 1..m : more[i].n < more[j].n => i < j
  <2>1. IsFiniteSet(fresh) /\ \A e \in fresh : e.n \in Nat
    BY DEF Placed
  <2>2. \A d, e \in fresh : d.n = e.n => d = e
    BY DEF Placed
  <2> QED
    BY <1>1, <2>1, <2>2, InOrderFacts
<1>3. PICK n \in Nat : n = Len(queue)
  OBVIOUS
<1>4. more \in Seq(rows \union fresh) /\ Len(more) = m /\ queue \in Seq(rows \union fresh)
  BY <1>2
<1>5. /\ queued \in Seq(rows \union fresh) /\ Len(queued) = n + m
      /\ \A i \in 1..n + m : queued[i] = IF i <= n THEN queue[i] ELSE more[i - n]
  <2>1. PICK all : all = rows \union fresh
    OBVIOUS
  <2>2. more \in Seq(all) /\ queue \in Seq(all) /\ queued = queue \o more
    BY <1>1, <1>4, <2>1
  <2> QED
    BY <1>3, <1>4, <2>1, <2>2, ConcatProperties
<1>6. \A i \in 1..n : queued[i] = queue[i] /\ queue[i] \in rows
  BY <1>2, <1>3, <1>5
<1>7. \A i \in n + 1..n + m : i - n \in 1..m /\ queued[i] = more[i - n] /\ queued[i] \in fresh
  BY <1>2, <1>5
<1>8. \A e \in fresh : \E k \in n + 1..n + m : queued[k] = e
  <2> SUFFICES ASSUME NEW e \in fresh PROVE \E k \in n + 1..n + m : queued[k] = e
    OBVIOUS
  <2>1. PICK k \in 1..m : more[k] = e
    BY <1>2
  <2>2. n + k \in n + 1..n + m /\ (n + k) - n = k
    BY <1>2
  <2> QED
    BY <1>7, <2>1, <2>2
<1>9. \A i, j \in n + 1..n + m : queued[i].n < queued[j].n => i < j
  <2> SUFFICES ASSUME NEW i \in n + 1..n + m, NEW j \in n + 1..n + m, queued[i].n < queued[j].n PROVE i < j
    OBVIOUS
  <2>1. i - n < j - n
    BY <1>2, <1>7
  <2> QED
    BY <2>1
<1>10. Distinct(queued)
  <2> SUFFICES ASSUME NEW i \in 1..n + m, NEW j \in 1..n + m, queued[i] = queued[j] PROVE i = j
    BY <1>5 DEF Distinct
  <2>1. (i \in 1..n \/ i \in n + 1..n + m) /\ (j \in 1..n \/ j \in n + 1..n + m)
    BY <1>2
  <2>2. CASE i \in 1..n /\ j \in 1..n
    BY <1>3, <1>6, <2>2 DEF Distinct
  <2>3. CASE i \in n + 1..n + m /\ j \in n + 1..n + m
    <3>1. i - n \in 1..m /\ j - n \in 1..m /\ more[i - n] = more[j - n]
      BY <1>7, <2>3
    <3>2. i - n = j - n /\ i \in Nat /\ j \in Nat
      BY <1>2, <2>3, <3>1
    <3> QED
      BY <3>2
  <2>4. CASE i \in 1..n /\ j \in n + 1..n + m
    BY <1>6, <1>7, <2>4
  <2>5. CASE i \in n + 1..n + m /\ j \in 1..n
    BY <1>6, <1>7, <2>5
  <2> QED
    BY <2>1, <2>2, <2>3, <2>4, <2>5
<1>11. n <= n + m /\ n + m \in Nat
  BY <1>2
<1> QED
  BY <1>3, <1>5, <1>6, <1>7, <1>8, <1>9, <1>10, <1>11 DEF Joined

(* How many rows have to make room, and what is left of the queue then.      *)
LEMMA ExcessFacts ==
  ASSUME NEW n \in Nat
  PROVE  Max({0, n - QueueLimit}) \in Nat /\ n - Max({0, n - QueueLimit}) <= QueueLimit
<1>1. QueueLimit \in Nat
  BY LedgerAssumption
<1>2. PICK x \in Int : x = n - QueueLimit
  BY <1>1
<1>3. \E m \in {0, x} : \A k \in {0, x} : m >= k
  <2>1. CASE x <= 0
    BY <1>2, <2>1
  <2>2. CASE 0 <= x
    BY <1>2, <2>2
  <2> QED
    BY <1>2, <2>1, <2>2
<1>4. PICK m : m = Max({0, x})
  OBVIOUS
<1>5. m \in {0, x} /\ \A k \in {0, x} : m >= k
  BY <1>3, <1>4 DEF Max
<1>6. m >= 0 /\ m >= x /\ m \in Int
  BY <1>2, <1>5
<1>7. m \in Nat /\ n - m <= QueueLimit
  BY <1>1, <1>2, <1>6
<1> QED
  BY <1>2, <1>4, <1>7

LEMMA RoomFacts ==
  ASSUME NEW rows, NEW queued \in Seq(rows), Distinct(queued), NEW excess \in Nat, Len(queued) - excess <= QueueLimit
  PROVE  /\ SubSeq(queued, excess + 1, Len(queued)) \in Seq(rows)
         /\ Len(SubSeq(queued, excess + 1, Len(queued))) <= QueueLimit
         /\ Distinct(SubSeq(queued, excess + 1, Len(queued)))
         /\ Range(SubSeq(queued, excess + 1, Len(queued))) \subseteq Range(queued)
         /\ ~(excess > 0) => SubSeq(queued, excess + 1, Len(queued)) = queued
<1>1. PICK n \in Nat : n = Len(queued)
  OBVIOUS
<1>2. QueueLimit \in Nat
  BY LedgerAssumption
<1>3. excess \in Nat /\ n - excess <= QueueLimit
  BY <1>1
<1>4. /\ SubSeq(queued, excess + 1, n) \in Seq(rows)
      /\ Len(SubSeq(queued, excess + 1, n)) = IF excess + 1 <= n THEN n - (excess + 1) + 1 ELSE 0
      /\ \A k \in 1..n - (excess + 1) + 1 : SubSeq(queued, excess + 1, n)[k] = queued[excess + 1 + k - 1]
  <2>1. PICK a \in Nat : a = excess + 1
    OBVIOUS
  <2>2. a \in Int /\ n \in Int
    BY <1>1, <2>1
  <2>3. \A k \in a..n : queued[k] \in rows
    <3>1. \A k \in a..n : k \in 1..n
      BY <1>1, <2>1
    <3> QED
      BY <1>1, <3>1
  <2>4. /\ SubSeq(queued, a, n) \in Seq(rows)
        /\ Len(SubSeq(queued, a, n)) = IF a <= n THEN n - a + 1 ELSE 0
        /\ \A k \in 1..n - a + 1 : SubSeq(queued, a, n)[k] = queued[a + k - 1]
    BY <2>2, <2>3, SubSeqProperties
  <2> QED
    BY <2>1, <2>4
<1>5. PICK left, l : left = SubSeq(queued, excess + 1, n) /\ l = Len(left)
  OBVIOUS
<1>6. left \in Seq(rows) /\ l = (IF excess + 1 <= n THEN n - (excess + 1) + 1 ELSE 0) /\ l \in Nat
  BY <1>1, <1>3, <1>4, <1>5
<1>7. l <= QueueLimit
  BY <1>1, <1>2, <1>3, <1>6
<1>8. \A k \in 1..l : k \in 1..n - (excess + 1) + 1 /\ excess + 1 + k - 1 \in 1..n
  BY <1>1, <1>3, <1>6
<1>9. \A k \in 1..l : left[k] = queued[excess + 1 + k - 1]
  BY <1>4, <1>5, <1>8
<1>10. Distinct(left)
  <2> SUFFICES ASSUME NEW i \in 1..l, NEW j \in 1..l, left[i] = left[j] PROVE i = j
    BY <1>5 DEF Distinct
  <2>1. excess + 1 + i - 1 = excess + 1 + j - 1
    BY <1>1, <1>8, <1>9 DEF Distinct
  <2> QED
    BY <1>3, <2>1
<1>11. DOMAIN left = 1..l /\ DOMAIN queued = 1..n
  BY <1>1, <1>5, <1>6
<1>12. Range(left) \subseteq Range(queued)
  <2> SUFFICES ASSUME NEW x \in Range(left) PROVE x \in Range(queued)
    OBVIOUS
  <2>1. PICK k \in 1..l : left[k] = x
    BY <1>11 DEF Range
  <2>2. PICK j \in 1..n : queued[j] = x
    BY <1>8, <1>9, <2>1
  <2> QED
    BY <1>11, <2>2 DEF Range
<1>13. ASSUME ~(excess > 0) PROVE left = queued
  <2>1. excess = 0 /\ l = n
    BY <1>1, <1>3, <1>6, <1>13
  <2>2. \A k \in 1..n : left[k] = queued[k]
    <3>1. \A k \in 1..n : excess + 1 + k - 1 = k
      BY <2>1
    <3> QED
      BY <1>9, <2>1, <3>1
  <2>3. left = [k \in 1..n |-> left[k]] /\ queued = [k \in 1..n |-> queued[k]]
    BY <1>6, <1>11, <2>1
  <2> QED
    BY <2>2, <2>3
<1> QED
  BY <1>1, <1>5, <1>6, <1>7, <1>10, <1>12, <1>13

(* The newest start is still before the board, or the board shows it.        *)
Awaits(s, queue, rows) ==
  \E k \in 1..Len(queue) :
    /\ queue[k] = s
    /\ \A e \in rows : e.attempt = s.attempt /\ e # s => \E j \in k + 1..Len(queue) : queue[j] = e

Tracks(s, race, queue, rows) ==
  /\ s \notin Range(queue) /\ race.attempt = s.attempt
  /\ race.crossed \subseteq Crossings({e \in rows : e.attempt = s.attempt})
  /\ race.over => \E e \in rows : IsEnd(e) /\ e.attempt = s.attempt
  /\ \A e \in rows : e.attempt = s.attempt =>
       \/ e \in Range(queue)
       \/ (IsMilestone(e) => <<e.team, e.rung>> \in race.crossed) /\ (IsEnd(e) => race.over)

NewestStart(s, rows) == s \in rows /\ IsStart(s) /\ \A t \in rows : IsStart(t) => t.n <= s.n

Keeps(race, queue, rows) ==
  \E s \in rows : NewestStart(s, rows) /\ (Awaits(s, queue, rows) \/ Tracks(s, race, queue, rows))

(* New rows join the queue: the race goes on, or a newer one waits.          *)
LEMMA OfferKeeps ==
  ASSUME NEW rows, NEW fresh, Placed(rows \union fresh), NEW queue \in Seq(rows), Distinct(queue),
         fresh \cap rows = {}, NEW queued, queued = queue \o InOrder(fresh), NEW race,
         \A s \in fresh : IsStart(s) => \A e \in rows : e.attempt # s.attempt,
         Keeps(race, queue, rows)
  PROVE  Keeps(race, queued, rows \union fresh)
<1>1. PICK all : all = rows \union fresh
  OBVIOUS
<1>2. /\ IsFiniteSet(all) /\ \A e \in all : e.n \in Nat /\ e.type \in RaceTypes
      /\ \A d, e \in all : d.n = e.n => d = e
      /\ \A s, e \in all : IsStart(s) /\ e.attempt = s.attempt => s.n <= e.n /\ (IsStart(e) => e = s)
  BY <1>1 DEF Placed
<1>3. Placed(fresh)
  BY <1>1, <1>2, FS_Subset DEF Placed
<1>4. PICK n \in Nat, m \in Nat : n = Len(queue) /\ m = Len(queued)
  BY <1>3, QueueFacts DEF Joined
<1>5. /\ queued \in Seq(all) /\ n <= m
      /\ \A i \in 1..n : queued[i] = queue[i]
      /\ \A e \in fresh : \E k \in n + 1..m : queued[k] = e
      /\ \A k \in n + 1..m : queued[k] \in fresh
      /\ \A i, j \in n + 1..m : queued[i].n < queued[j].n => i < j
  <2>1. /\ queued \in Seq(rows \union fresh)
        /\ Len(queue) <= Len(queued)
        /\ \A i \in 1..Len(queue) : queued[i] = queue[i]
        /\ \A e \in fresh : \E k \in Len(queue) + 1..Len(queued) : queued[k] = e
        /\ \A k \in Len(queue) + 1..Len(queued) : queued[k] \in fresh
        /\ \A i, j \in Len(queue) + 1..Len(queued) : queued[i].n < queued[j].n => i < j
    <3>1. Joined(rows, fresh, queue, queued)
      BY <1>3, QueueFacts
    <3> QED
      BY <3>1 DEF Joined
  <2> QED
    BY <1>1, <1>4, <2>1
<1>6. DOMAIN queue = 1..n /\ DOMAIN queued = 1..m /\ 1..n \subseteq 1..m /\ n + 1..m \subseteq 1..m
  <2>1. 1..n \subseteq 1..m /\ n + 1..m \subseteq 1..m
    BY <1>5
  <2> QED
    BY <1>4, <1>5, <2>1
<1>7. Range(queued) = Range(queue) \union fresh
  <2>1. ASSUME NEW e \in Range(queued) PROVE e \in Range(queue) \union fresh
    <3>1. PICK k \in 1..m : queued[k] = e
      BY <1>6, <2>1 DEF Range
    <3>2. k \in 1..n \/ k \in n + 1..m
      OBVIOUS
    <3> QED
      BY <1>5, <1>6, <3>1, <3>2 DEF Range
  <2>2. ASSUME NEW e \in Range(queue) PROVE e \in Range(queued)
    BY <1>5, <1>6, <2>2 DEF Range
  <2>3. ASSUME NEW e \in fresh PROVE e \in Range(queued)
    BY <1>5, <1>6, <2>3 DEF Range
  <2> QED
    BY <2>1, <2>2, <2>3
<1>8. PICK s \in rows : NewestStart(s, rows) /\ (Awaits(s, queue, rows) \/ Tracks(s, race, queue, rows))
  BY DEF Keeps
<1>9. IsStart(s) /\ s.n \in Nat /\ s \in all /\ s \notin fresh
  BY <1>1, <1>2, <1>8 DEF NewestStart
<1>10. CASE \E t \in fresh : IsStart(t) /\ s.n < t.n
  <2>1. PICK S : S = {e \in fresh : IsStart(e)}
    OBVIOUS
  <2>2. PICK t \in S : \A u \in S : u.n <= t.n
    <3>1. IsFiniteSet(S) /\ S # {}
      BY <1>1, <1>2, <1>10, <2>1, FS_Subset
    <3>2. \A e \in S : e.n \in Nat
      BY <1>1, <1>2, <2>1
    <3> QED
      BY <3>1, <3>2, LatestFacts
  <2>3. t \in fresh /\ t \in all /\ IsStart(t) /\ t.n \in Nat
    BY <1>1, <1>2, <2>1, <2>2
  <2>4. s.n < t.n
    <3>1. PICK u \in fresh : IsStart(u) /\ s.n < u.n
      BY <1>10
    <3>2. u.n <= t.n /\ u.n \in Nat
      BY <1>1, <1>2, <2>1, <2>2, <3>1
    <3> QED
      BY <1>9, <2>3, <3>1, <3>2
  <2>5. NewestStart(t, all)
    <3>1. ASSUME NEW u \in all, IsStart(u) PROVE u.n <= t.n
      <4>1. CASE u \in fresh
        BY <2>1, <2>2, <3>1, <4>1
      <4>2. CASE u \in rows
        <5>1. u.n <= s.n /\ u.n \in Nat
          BY <1>2, <1>8, <3>1, <4>2 DEF NewestStart
        <5> QED
          BY <1>9, <2>3, <2>4, <5>1
      <4> QED
        BY <1>1, <4>1, <4>2
    <3> QED
      BY <2>3, <3>1 DEF NewestStart
  <2>6. PICK k \in n + 1..m : queued[k] = t
    BY <1>5, <2>3
  <2>7. ASSUME NEW e \in all, e.attempt = t.attempt, e # t
        PROVE  \E j \in k + 1..m : queued[j] = e
    <3>1. e \in fresh
      BY <1>1, <2>3, <2>7
    <3>2. t.n <= e.n /\ e.n \in Nat /\ t.n # e.n
      BY <1>2, <2>3, <2>7
    <3>3. t.n < e.n
      BY <2>3, <3>2
    <3>4. PICK j \in n + 1..m : queued[j] = e
      BY <1>5, <3>1
    <3>5. k < j
      BY <1>5, <2>6, <3>3, <3>4
    <3>6. j \in k + 1..m
      BY <3>5
    <3> QED
      BY <3>4, <3>6
  <2>8. Awaits(t, queued, all)
    BY <1>4, <1>6, <2>6, <2>7 DEF Awaits
  <2> QED
    BY <1>1, <2>3, <2>5, <2>8 DEF Keeps
<1>11. CASE ~\E t \in fresh : IsStart(t) /\ s.n < t.n
  <2>1. NewestStart(s, all)
    <3>1. ASSUME NEW u \in all, IsStart(u) PROVE u.n <= s.n
      <4>1. CASE u \in fresh
        <5>1. u.n \in Nat /\ ~(s.n < u.n)
          BY <1>2, <1>11, <3>1, <4>1
        <5> QED
          BY <1>9, <5>1
      <4>2. CASE u \in rows
        BY <1>8, <3>1, <4>2 DEF NewestStart
      <4> QED
        BY <1>1, <4>1, <4>2
    <3> QED
      BY <1>9, <3>1 DEF NewestStart
  <2>2. CASE Awaits(s, queue, rows)
    <3>1. PICK k \in 1..n :
            /\ queue[k] = s
            /\ \A e \in rows : e.attempt = s.attempt /\ e # s => \E j \in k + 1..n : queue[j] = e
      BY <1>4, <2>2 DEF Awaits
    <3>2. queued[k] = s /\ k \in 1..m
      BY <1>5, <1>6, <3>1
    <3>3. ASSUME NEW e \in all, e.attempt = s.attempt, e # s
          PROVE  \E j \in k + 1..m : queued[j] = e
      <4>1. CASE e \in rows
        <5>1. PICK j \in k + 1..n : queue[j] = e
          BY <3>1, <3>3, <4>1
        <5>2. j \in 1..n /\ j \in k + 1..m
          BY <1>5
        <5> QED
          BY <1>5, <5>1, <5>2
      <4>2. CASE e \in fresh
        <5>1. PICK j \in n + 1..m : queued[j] = e
          BY <1>5, <4>2
        <5>2. j \in k + 1..m
          OBVIOUS
        <5> QED
          BY <5>1, <5>2
      <4> QED
        BY <1>1, <4>1, <4>2
    <3>4. Awaits(s, queued, all)
      BY <1>4, <3>2, <3>3 DEF Awaits
    <3> QED
      BY <1>1, <1>9, <2>1, <3>4 DEF Keeps
  <2>3. CASE Tracks(s, race, queue, rows)
    <3>1. PICK old, new : old = {e \in rows : e.attempt = s.attempt} /\ new = {e \in all : e.attempt = s.attempt}
      OBVIOUS
    <3>2. Crossings(old) \subseteq Crossings(new)
      BY <1>1, <3>1, CrossingFacts
    <3>3. /\ s \notin Range(queued) /\ race.attempt = s.attempt
          /\ race.crossed \subseteq Crossings(new)
          /\ race.over => \E e \in all : IsEnd(e) /\ e.attempt = s.attempt
      BY <1>1, <1>7, <1>9, <2>3, <3>1, <3>2 DEF Tracks
    <3>4. ASSUME NEW e \in all, e.attempt = s.attempt
          PROVE  \/ e \in Range(queued)
                 \/ (IsMilestone(e) => <<e.team, e.rung>> \in race.crossed) /\ (IsEnd(e) => race.over)
      BY <1>1, <1>7, <2>3, <3>4 DEF Tracks
    <3>5. Tracks(s, race, queued, all)
      BY <3>1, <3>3, <3>4 DEF Tracks
    <3> QED
      BY <1>1, <1>9, <2>1, <3>5 DEF Keeps
  <2> QED
    BY <1>8, <2>2, <2>3
<1> QED
  BY <1>10, <1>11

(* The queue without its first.                                              *)
LEMMA HeadFacts ==
  ASSUME NEW rows, NEW queue \in Seq(rows), Distinct(queue), queue # <<>>
  PROVE  /\ Head(queue) \in rows /\ Tail(queue) \in Seq(rows) /\ Distinct(Tail(queue))
         /\ Len(queue) \in Nat /\ 1 <= Len(queue) /\ Len(Tail(queue)) = Len(queue) - 1
         /\ queue[1] = Head(queue)
         /\ \A k \in 1..Len(queue) - 1 : Tail(queue)[k] = queue[k + 1]
         /\ \A x : x \in Range(queue) <=> x = Head(queue) \/ x \in Range(Tail(queue))
         /\ Head(queue) \notin Range(Tail(queue))
<1>1. PICK n, rest, e : n = Len(queue) /\ rest = Tail(queue) /\ e = Head(queue)
  OBVIOUS
<1>2. /\ n \in Nat /\ 1 <= n /\ e \in rows /\ rest \in Seq(rows) /\ Len(rest) = n - 1 /\ e = queue[1]
      /\ \A k \in 1..n - 1 : rest[k] = queue[k + 1]
  <2>1. n \in Nat /\ n # 0
    BY <1>1
  <2>2. /\ Head(queue) \in rows /\ Tail(queue) \in Seq(rows) /\ Len(Tail(queue)) = Len(queue) - 1
        /\ \A k \in 1..Len(Tail(queue)) : Tail(queue)[k] = queue[k + 1]
    BY HeadTailProperties
  <2>3. Head(queue) = queue[1]
    OBVIOUS
  <2> QED
    BY <1>1, <2>1, <2>2, <2>3
<1>3. DOMAIN queue = 1..n /\ DOMAIN rest = 1..n - 1
  BY <1>1, <1>2
<1>4. \A k \in 1..n - 1 : k + 1 \in 1..n /\ k + 1 # 1
  BY <1>2
<1>5. \A i, j \in 1..n : queue[i] = queue[j] => i = j
  BY <1>1 DEF Distinct
<1>6. Distinct(rest)
  <2> SUFFICES ASSUME NEW i \in 1..n - 1, NEW j \in 1..n - 1, rest[i] = rest[j] PROVE i = j
    BY <1>2 DEF Distinct
  <2>1. i + 1 = j + 1
    BY <1>2, <1>4, <1>5
  <2> QED
    BY <2>1
<1>7. ASSUME NEW x PROVE x \in Range(queue) <=> x = e \/ x \in Range(rest)
  <2>1. ASSUME x \in Range(queue) PROVE x = e \/ x \in Range(rest)
    <3>1. PICK k \in 1..n : queue[k] = x
      BY <1>3, <2>1 DEF Range
    <3>2. CASE k = 1
      BY <1>2, <3>1, <3>2
    <3>3. CASE k # 1
      <4>1. k - 1 \in 1..n - 1 /\ (k - 1) + 1 = k
        BY <1>2, <3>3
      <4>2. rest[k - 1] = x
        BY <1>2, <3>1, <4>1
      <4> QED
        BY <1>3, <4>1, <4>2 DEF Range
    <3> QED
      BY <3>2, <3>3
  <2>2. e \in Range(queue)
    <3>1. 1 \in 1..n
      BY <1>2
    <3> QED
      BY <1>2, <1>3, <3>1 DEF Range
  <2>3. x \in Range(rest) => x \in Range(queue)
    BY <1>2, <1>3, <1>4 DEF Range
  <2> QED
    BY <2>1, <2>2, <2>3
<1>8. e \notin Range(rest)
  <2>1. ASSUME NEW k \in 1..n - 1, rest[k] = e PROVE FALSE
    <3>1. queue[k + 1] = queue[1] /\ 1 \in 1..n
      BY <1>2, <2>1
    <3> QED
      BY <1>4, <1>5, <3>1
  <2> QED
    BY <1>3, <2>1 DEF Range
<1> QED
  BY <1>1, <1>2, <1>6, <1>7, <1>8

(* What an event makes of the race shown.                                    *)
Shows(rows) == [attempt : Nat, crossed : SUBSET Crossings(rows), over : BOOLEAN]

Took(race, e, after) ==
  /\ IsStart(e) => after = [attempt |-> e.attempt, crossed |-> {}, over |-> FALSE]
  /\ ~IsStart(e) =>
       /\ after.attempt = race.attempt
       /\ after.crossed = IF IsMilestone(e) /\ e.attempt = race.attempt
                          THEN race.crossed \union {<<e.team, e.rung>>} ELSE race.crossed
       /\ after.over = (race.over \/ (IsEnd(e) /\ e.attempt = race.attempt))

LEMMA BoardTakes ==
  ASSUME NEW rows, NEW e \in rows, e.type \in RaceTypes, e.attempt \in Nat, NEW race \in Shows(rows)
  PROVE  BoardHears(race, e) \in Shows(rows) /\ Took(race, e, BoardHears(race, e))
<1>1. PICK C, after : C = Crossings(rows) /\ after = BoardHears(race, e)
  OBVIOUS
<1>2. race \in [attempt : Nat, crossed : SUBSET C, over : BOOLEAN]
  BY <1>1 DEF Shows
<1>3. CASE IsStart(e)
  <2>1. after = [attempt |-> e.attempt, crossed |-> {}, over |-> FALSE]
    BY <1>1, <1>3 DEF BoardHears, IsStart, Fresh, NoRace
  <2> QED
    BY <1>1, <1>3, <2>1 DEF Shows, Took
<1>4. CASE IsMilestone(e) /\ e.attempt = race.attempt
  <2>1. <<e.team, e.rung>> \in C
    BY <1>1, <1>4, CrossingFacts
  <2>2. PICK more \in SUBSET C : more = race.crossed \union {<<e.team, e.rung>>}
    BY <1>2, <2>1
  <2>3. after = [race EXCEPT !.crossed = more]
    BY <1>1, <1>4, <2>2 DEF BoardHears, BoardIngests, Crossing, IsMilestone
  <2>4. after = [attempt |-> race.attempt, crossed |-> more, over |-> race.over]
    BY <1>2, <2>3, RaceCrosses
  <2>5. ~IsStart(e) /\ ~IsEnd(e)
    BY <1>4, RaceKinds
  <2>6. after \in [attempt : Nat, crossed : SUBSET C, over : BOOLEAN]
    BY <1>2, <2>4
  <2>7. after.attempt = race.attempt /\ after.crossed = more /\ after.over = race.over
    BY <2>4
  <2>8. race.over \in BOOLEAN
    BY <1>2
  <2>9. after.over = (race.over \/ (IsEnd(e) /\ e.attempt = race.attempt))
    BY <2>5, <2>7, <2>8
  <2> QED
    BY <1>1, <1>4, <2>2, <2>5, <2>6, <2>7, <2>9 DEF Shows, Took
<1>5. CASE IsEnd(e) /\ e.attempt = race.attempt
  <2>1. after = [race EXCEPT !.over = TRUE]
    BY <1>1, <1>5 DEF BoardHears, BoardIngests, IsEnd
  <2>2. /\ after \in [attempt : Nat, crossed : SUBSET C, over : BOOLEAN]
        /\ after.attempt = race.attempt /\ after.crossed = race.crossed /\ after.over = TRUE
    BY <1>2, <2>1
  <2>3. ~IsStart(e) /\ ~IsMilestone(e)
    BY <1>5, RaceKinds
  <2>4. after.over = (race.over \/ (IsEnd(e) /\ e.attempt = race.attempt))
    BY <1>5, <2>2
  <2> QED
    BY <1>1, <2>2, <2>3, <2>4 DEF Shows, Took
<1>6. CASE ~IsStart(e) /\ ~(IsMilestone(e) /\ e.attempt = race.attempt) /\ ~(IsEnd(e) /\ e.attempt = race.attempt)
  <2>1. after = race
    BY <1>1, <1>6 DEF BoardHears, BoardIngests, IsStart, IsEnd, IsMilestone
  <2>2. race.over \in BOOLEAN
    BY <1>2
  <2>3. after.over = (race.over \/ (IsEnd(e) /\ e.attempt = race.attempt))
    BY <1>6, <2>1, <2>2
  <2> QED
    BY <1>1, <1>6, <2>1, <2>3 DEF Took
<1> QED
  BY <1>3, <1>4, <1>5, <1>6

(* The board hears the first of the queue.                                   *)
LEMMA HearKeeps ==
  ASSUME NEW rows, Placed(rows), NEW queue \in Seq(rows), Distinct(queue), queue # <<>>,
         NEW race \in Shows(rows), NEW newest \in Nat, ~Supersedes(newest, Head(queue)),
         \E s \in rows : IsStart(s) /\ s.attempt = race.attempt /\ s.n <= newest,
         Keeps(race, queue, rows)
  PROVE  Keeps(BoardHears(race, Head(queue)), Tail(queue), rows)
<1>1. PICK n, rest, e, after : n = Len(queue) /\ rest = Tail(queue) /\ e = Head(queue) /\ after = BoardHears(race, e)
  OBVIOUS
<1>2. /\ e \in rows /\ rest \in Seq(rows) /\ n \in Nat /\ 1 <= n /\ Len(rest) = n - 1 /\ queue[1] = e
      /\ \A k \in 1..n - 1 : rest[k] = queue[k + 1]
      /\ \A x : x \in Range(queue) <=> x = e \/ x \in Range(rest)
      /\ e \notin Range(rest)
  BY <1>1, HeadFacts
<1>3. /\ \A x \in rows : x.n \in Nat /\ x.type \in RaceTypes /\ x.attempt \in Nat \ {0}
      /\ \A s, x \in rows : IsStart(s) /\ x.attempt = s.attempt => s.n <= x.n /\ (IsStart(x) => x = s)
  BY DEF Placed
<1>4. /\ IsStart(e) => after = [attempt |-> e.attempt, crossed |-> {}, over |-> FALSE]
      /\ ~IsStart(e) =>
           /\ after.attempt = race.attempt
           /\ after.crossed = IF IsMilestone(e) /\ e.attempt = race.attempt
                              THEN race.crossed \union {<<e.team, e.rung>>} ELSE race.crossed
           /\ after.over = (race.over \/ (IsEnd(e) /\ e.attempt = race.attempt))
  <2>1. e \in rows /\ e.type \in RaceTypes /\ e.attempt \in Nat
    BY <1>2, <1>3
  <2>2. Took(race, e, BoardHears(race, e))
    BY <2>1, BoardTakes
  <2> QED
    BY <1>1, <2>2 DEF Took
<1>5. PICK s \in rows : NewestStart(s, rows) /\ (Awaits(s, queue, rows) \/ Tracks(s, race, queue, rows))
  BY DEF Keeps
<1>6. IsStart(s) /\ s.n \in Nat /\ \A t \in rows : IsStart(t) => t.n <= s.n
  BY <1>3, <1>5 DEF NewestStart
<1>7. CASE Awaits(s, queue, rows)
  <2>1. PICK k \in 1..n :
          /\ queue[k] = s
          /\ \A x \in rows : x.attempt = s.attempt /\ x # s => \E j \in k + 1..n : queue[j] = x
    BY <1>1, <1>7 DEF Awaits
  <2>2. ASSUME NEW x \in rows, x.attempt = s.attempt, x # s
        PROVE  \E j \in k..n - 1 : rest[j] = x
    <3>1. PICK j \in k + 1..n : queue[j] = x
      BY <2>1, <2>2
    <3>2. PICK i \in k..n - 1 : i = j - 1
      BY <1>2
    <3>3. i \in 1..n - 1 /\ i + 1 = j
      BY <1>2, <3>2
    <3>4. rest[i] = x
      BY <1>2, <3>1, <3>3
    <3> QED
      BY <3>2, <3>4
  <2>3. CASE k = 1
    <3>1. s = e
      BY <1>2, <2>1, <2>3
    <3>2. after.attempt = s.attempt /\ after.crossed = {} /\ after.over = FALSE
      BY <1>4, <1>6, <3>1
    <3>3. ASSUME NEW x \in rows, x.attempt = s.attempt, x # s PROVE x \in Range(rest)
      <4>1. PICK j \in 1..n - 1 : rest[j] = x
        BY <2>2, <2>3, <3>3
      <4>2. DOMAIN rest = 1..n - 1
        BY <1>2
      <4> QED
        BY <4>1, <4>2 DEF Range
    <3>4. ~IsMilestone(s) /\ ~IsEnd(s)
      BY <1>3, <1>6, RaceKinds
    <3>5. Tracks(s, after, rest, rows)
      <4>1. s \notin Range(rest)
        BY <1>2, <3>1
      <4> QED
        BY <3>2, <3>3, <3>4, <4>1 DEF Tracks
    <3> QED
      BY <1>1, <1>5, <3>5 DEF Keeps
  <2>4. CASE k # 1
    <3>1. PICK i \in 1..n - 1 : i + 1 = k
      <4>1. k - 1 \in 1..n - 1 /\ (k - 1) + 1 = k
        BY <1>2, <2>4
      <4> QED
        BY <4>1
    <3>2. rest[i] = s
      BY <1>2, <2>1, <3>1
    <3>3. \A x \in rows : x.attempt = s.attempt /\ x # s => \E j \in i + 1..Len(rest) : rest[j] = x
      BY <1>2, <2>2, <3>1
    <3>4. Awaits(s, rest, rows)
      BY <1>2, <3>2, <3>3 DEF Awaits
    <3> QED
      BY <1>1, <1>5, <3>4 DEF Keeps
  <2> QED
    BY <2>3, <2>4
<1>8. CASE Tracks(s, race, queue, rows)
  <2>1. PICK mine : mine = {x \in rows : x.attempt = s.attempt}
    OBVIOUS
  <2>2. /\ s \notin Range(queue) /\ race.attempt = s.attempt
        /\ race.crossed \subseteq Crossings(mine)
        /\ race.over => \E x \in rows : IsEnd(x) /\ x.attempt = s.attempt
        /\ \A x \in rows : x.attempt = s.attempt =>
             \/ x \in Range(queue)
             \/ (IsMilestone(x) => <<x.team, x.rung>> \in race.crossed) /\ (IsEnd(x) => race.over)
    BY <1>8, <2>1 DEF Tracks
  <2>3. ~IsStart(e)
    <3> SUFFICES ASSUME IsStart(e) PROVE FALSE
      OBVIOUS
    <3>1. PICK t \in rows : IsStart(t) /\ t.attempt = race.attempt /\ t.n <= newest
      OBVIOUS
    <3>2. t = s
      BY <1>3, <1>6, <2>2, <3>1
    <3>3. e # s
      BY <1>2, <2>2
    <3>4. e.n <= s.n /\ e.n \in Nat
      BY <1>2, <1>3, <1>6
    <3>5. e.n # s.n
      BY <1>2, <3>3 DEF Placed
    <3>6. ~(e.n < newest)
      BY <1>1 DEF Supersedes, IsStart
    <3> QED
      BY <1>6, <3>1, <3>2, <3>4, <3>5, <3>6
  <2>4. s \notin Range(rest) /\ after.attempt = s.attempt
    BY <1>2, <1>4, <2>2, <2>3
  <2>5. after.crossed \subseteq Crossings(mine)
    <3>1. CASE IsMilestone(e) /\ e.attempt = race.attempt
      <4>1. <<e.team, e.rung>> \in Crossings(mine)
        BY <1>2, <2>1, <2>2, <3>1, CrossingFacts
      <4> QED
        BY <1>4, <2>2, <2>3, <3>1, <4>1
    <3>2. CASE ~(IsMilestone(e) /\ e.attempt = race.attempt)
      BY <1>4, <2>2, <2>3, <3>2
    <3> QED
      BY <3>1, <3>2
  <2>6. after.over => \E x \in rows : IsEnd(x) /\ x.attempt = s.attempt
    BY <1>2, <1>4, <2>2, <2>3
  <2>7. race.crossed \subseteq after.crossed /\ (race.over => after.over)
    BY <1>4, <2>3
  <2>8. ASSUME NEW x \in rows, x.attempt = s.attempt
        PROVE  \/ x \in Range(rest)
               \/ (IsMilestone(x) => <<x.team, x.rung>> \in after.crossed) /\ (IsEnd(x) => after.over)
    <3>1. CASE x = e
      <4>1. IsMilestone(e) => <<e.team, e.rung>> \in after.crossed
        BY <1>4, <2>2, <2>3, <2>8, <3>1
      <4>2. IsEnd(e) => after.over
        BY <1>4, <2>2, <2>3, <2>8, <3>1
      <4> QED
        BY <3>1, <4>1, <4>2
    <3>2. CASE x # e
      BY <1>2, <2>2, <2>7, <2>8, <3>2
    <3> QED
      BY <3>1, <3>2
  <2>9. Tracks(s, after, rest, rows)
    BY <2>1, <2>4, <2>5, <2>6, <2>8 DEF Tracks
  <2> QED
    BY <1>1, <1>5, <2>9 DEF Keeps
<1> QED
  BY <1>5, <1>7, <1>8

Begins(s, race, newest, queue) ==
  IsStart(s) /\ s.attempt = race.attempt /\ s.n <= newest /\ s \notin Range(queue)

Stages == {"newest", "off", "slice", "connect", "live"}

BoardShape ==
  /\ board \in [stage : Stages, cursor : Nat, newest : Nat, missed : BOOLEAN, race : Shows(stored)]
  /\ emitters \in {{}, {"board"}} /\ shed \in BOOLEAN
  /\ board.stage # "live" => emitters = {} /\ feed = <<>>
  /\ feed \in Seq(stored) /\ Len(feed) <= QueueLimit /\ Distinct(feed)

BoardBegun ==
  \/ board.race = NoRace /\ board.stage \in {"newest", "off"}
  \/ \E s \in stored : Begins(s, board.race, board.newest, feed)

BoardFollows == emitters # {} /\ ~board.missed /\ ~shed => Keeps(board.race, feed, stored)

BoardGoes == BoardShape /\ BoardBegun /\ BoardFollows

LEMMA RowsPlaced ==
  ASSUME Arrived, NEW S \in SUBSET OnTopic, IsFiniteSet(S)
  PROVE  Placed(S)
<1>1. \A e \in S : e.n \in Nat /\ e.type \in RaceTypes /\ e.attempt \in Nat \ {0}
  <2> SUFFICES ASSUME NEW e \in S PROVE e.n \in Nat /\ e.type \in RaceTypes /\ e.attempt \in Nat \ {0}
    OBVIOUS
  <2>1. e.n \in Nat /\ e.type \in RaceTypes /\ e.attempt \in Attempt
    BY ToldFacts
  <2>2. \A a \in Attempt : a \in Nat \ {0}
    BY DEF Attempt
  <2> QED
    BY <2>1, <2>2
<1>2. \A d, e \in S : d.n = e.n => d = e
  BY PlaceFacts
<1>3. \A s, e \in S : IsStart(s) /\ e.attempt = s.attempt => s.n <= e.n /\ (IsStart(e) => e = s)
  BY PlaceFacts
<1> QED
  BY <1>1, <1>2, <1>3 DEF Placed

LEMMA ShowsMore ==
  ASSUME NEW A, NEW B, A \subseteq B
  PROVE  Shows(A) \subseteq Shows(B)
<1>1. PICK C, D : C = Crossings(A) /\ D = Crossings(B) /\ C \subseteq D
  BY CrossingFacts
<1>2. [attempt : Nat, crossed : SUBSET C, over : BOOLEAN] \subseteq [attempt : Nat, crossed : SUBSET D, over : BOOLEAN]
  BY <1>1
<1> QED
  BY <1>1, <1>2 DEF Shows

(* What is connected may go, and what is queued with it.                     *)
LEMMA BoardStands ==
  ASSUME BoardGoes, UNCHANGED <<board, stored, shed>>,
         \/ UNCHANGED <<emitters, feed>>
         \/ emitters' = {} /\ feed' \in {feed, <<>>}
  PROVE  BoardGoes'
<1>1. feed' \in Seq(stored) /\ Len(feed') <= QueueLimit /\ Distinct(feed') /\ Range(feed') \subseteq Range(feed)
  <2>1. CASE feed' = feed
    BY <2>1 DEF BoardGoes, BoardShape
  <2>2. CASE feed' = <<>>
    <3>1. QueueLimit \in Nat
      BY LedgerAssumption
    <3>2. Len(<<>>) = 0 /\ Range(<<>>) = {} /\ Distinct(<<>>) /\ <<>> \in Seq(stored)
      BY DEF Range, Distinct
    <3> QED
      BY <2>2, <3>1, <3>2
  <2> QED
    BY <2>1, <2>2
<1>2. Distinct(feed)' <=> Distinct(feed')
  BY DEF Distinct
<1>3. BoardShape'
  <2>1. /\ board' \in [stage : Stages, cursor : Nat, newest : Nat, missed : BOOLEAN, race : Shows(stored)]
        /\ emitters' \in {{}, {"board"}} /\ shed' \in BOOLEAN
    BY DEF BoardGoes, BoardShape
  <2>2. board'.stage # "live" => emitters' = {} /\ feed' = <<>>
    BY DEF BoardGoes, BoardShape
  <2> QED
    BY <1>1, <1>2, <2>1, <2>2 DEF BoardShape, Shows, Crossings, Stages
<1>4. BoardBegun'
  BY <1>1 DEF BoardGoes, BoardBegun, Begins, IsStart, NoRace
<1>5. BoardFollows'
  <2>1. emitters' # {} => UNCHANGED <<emitters, feed>>
    OBVIOUS
  <2>2. PICK race, queue, rows : race = board.race /\ queue = feed /\ rows = stored
    OBVIOUS
  <2>3. emitters' # {} /\ ~board'.missed /\ ~shed' => Keeps(race, queue, rows)
    BY <2>1, <2>2 DEF BoardGoes, BoardFollows
  <2>4. emitters' # {} => race = board'.race /\ queue = feed' /\ rows = stored'
    BY <2>1, <2>2
  <2> QED
    BY <2>3, <2>4 DEF BoardFollows, Keeps, NewestStart, Awaits, Tracks, Crossings, IsStart, IsMilestone, IsEnd
<1> QED
  BY <1>3, <1>4, <1>5 DEF BoardGoes

(* Rows are written, and offered to the feed.                                *)
LEMMA BoardOffered ==
  ASSUME LedgerInv, Arrived, RowsAreTold, RowsAreLed, BoardGoes, NEW p \in Partition, Record(p), UNCHANGED board
  PROVE  BoardGoes'
<1>1. PICK rows, fresh, all, queue, race :
        /\ rows = stored /\ fresh = Batch(p) \ stored /\ all = rows \union fresh
        /\ queue = feed /\ race = board.race
  OBVIOUS
<1>2. stored' = all /\ UNCHANGED emitters /\ Offered(fresh)
  BY <1>1 DEF Record
<1>3. /\ \A e \in Batch(p) : e \in OnTopic
      /\ IsFiniteSet(Batch(p)) /\ IsFiniteSet(stored) /\ stored \subseteq OnTopic
  BY BatchFacts DEF RowsAreTold
<1>4. Placed(all) /\ Placed(fresh)
  <2>1. IsFiniteSet(Batch(p) \ stored) /\ IsFiniteSet(stored \union (Batch(p) \ stored))
    BY <1>3, FS_Subset, FS_Union
  <2>2. all \subseteq OnTopic /\ fresh \subseteq OnTopic /\ IsFiniteSet(all) /\ IsFiniteSet(fresh)
    BY <1>1, <1>3, <2>1
  <2> QED
    BY <2>2, RowsPlaced
<1>5. queue \in Seq(rows) /\ Distinct(queue) /\ Len(queue) <= QueueLimit /\ fresh \cap rows = {}
  BY <1>1 DEF BoardGoes, BoardShape
<1>6. ASSUME NEW s \in fresh, IsStart(s), NEW e \in rows PROVE e.attempt # s.attempt
  <2> SUFFICES ASSUME e.attempt = s.attempt PROVE FALSE
    OBVIOUS
  <2>1. PICK q \in Partition : \E i \in 1..Len(topic[q]) : topic[q][i] = s /\ s # Poison
    BY <1>1, <1>3, ToldFacts
  <2>2. PICK i \in 1..Len(topic[q]) : topic[q][i] = s /\ s # Poison
    BY <2>1
  <2>3. PICK r \in Partition : \E j \in 1..Len(topic[r]) : topic[r][j] = e /\ e # Poison
    BY <1>1, <1>3, <1>6, ToldFacts
  <2>4. PICK j \in 1..Len(topic[r]) : topic[r][j] = e /\ e # Poison
    BY <2>3
  <2>5. q = r /\ i <= j
    BY <1>6, <2>2, <2>4, PlaceFacts
  <2>6. i # j
    BY <1>1, <1>6, <2>2, <2>4, <2>5
  <2>7. i < j
    BY <2>5, <2>6
  <2>8. s \in stored
    BY <1>1, <1>6, <2>2, <2>4, <2>5, <2>7 DEF RowsAreLed
  <2> QED
    BY <1>1, <1>6, <2>8
<1>7. board \in [stage : Stages, cursor : Nat, newest : Nat, missed : BOOLEAN, race : Shows(all)]
  <2>1. PICK R, S : R = Shows(rows) /\ S = Shows(all) /\ R \subseteq S
    BY <1>1, ShowsMore
  <2>2. board \in [stage : Stages, cursor : Nat, newest : Nat, missed : BOOLEAN, race : R]
    BY <1>1, <2>1 DEF BoardGoes, BoardShape
  <2>3. board \in [stage : Stages, cursor : Nat, newest : Nat, missed : BOOLEAN, race : S]
    BY <2>1, <2>2
  <2> QED
    BY <2>1, <2>3
<1>8. Seq(rows) \subseteq Seq(all)
  <2>1. ASSUME NEW s \in Seq(rows) PROVE s \in Seq(all)
    BY <1>1
  <2> QED
    BY <2>1
<1>9. CASE emitters = {}
  <2>1. feed' = queue /\ shed' = shed /\ emitters' = {}
    BY <1>1, <1>2, <1>9 DEF Offered
  <2>2. feed' \in Seq(all) /\ Len(feed') <= QueueLimit /\ Distinct(feed)'
    BY <1>5, <1>8, <2>1 DEF Distinct
  <2>3. BoardShape'
    <3>1. PICK S : S = Shows(all)
      OBVIOUS
    <3>2. S = Shows(stored)'
      BY <1>2, <3>1 DEF Shows, Crossings
    <3>3. /\ board' \in [stage : Stages, cursor : Nat, newest : Nat, missed : BOOLEAN, race : S]
          /\ shed' \in BOOLEAN /\ (board'.stage # "live" => emitters' = {} /\ feed' = <<>>)
      BY <1>1, <1>7, <2>1, <3>1 DEF BoardGoes, BoardShape
    <3> QED
      BY <1>2, <2>1, <2>2, <3>2, <3>3 DEF BoardShape, Stages
  <2>4. BoardBegun'
    BY <1>1, <1>2, <2>1 DEF BoardGoes, BoardBegun, Begins, IsStart, NoRace
  <2>5. BoardFollows'
    BY <2>1 DEF BoardFollows
  <2> QED
    BY <2>3, <2>4, <2>5 DEF BoardGoes
<1>10. CASE emitters # {}
  <2>1. PICK queued, excess, left :
          /\ queued = queue \o InOrder(fresh) /\ excess = Max({0, Len(queued) - QueueLimit})
          /\ left = SubSeq(queued, excess + 1, Len(queued))
          /\ feed' = left /\ shed' = (shed \/ excess > 0)
    BY <1>1, <1>2, <1>10 DEF Offered
  <2>2. Joined(rows, fresh, queue, queued)
    BY <1>4, <1>5, <2>1, QueueFacts
  <2>3. queued \in Seq(all) /\ Distinct(queued) /\ Len(queued) \in Nat
    BY <1>1, <2>2 DEF Joined
  <2>4. excess \in Nat /\ Len(queued) - excess <= QueueLimit
    BY <2>1, <2>3, ExcessFacts
  <2>5. /\ left \in Seq(all) /\ Len(left) <= QueueLimit /\ Distinct(left)
        /\ Range(left) \subseteq Range(queued) /\ (~(excess > 0) => left = queued)
    BY <2>1, <2>3, <2>4, RoomFacts
  <2>6. Range(queued) \subseteq Range(queue) \union fresh
    <3>1. PICK n \in Nat, m \in Nat : n = Len(queue) /\ m = Len(queued)
      BY <2>2 DEF Joined
    <3>2. DOMAIN queued = 1..m /\ DOMAIN queue = 1..n
      BY <1>5, <2>3, <3>1
    <3>3. /\ \A k \in 1..n : queued[k] = queue[k]
          /\ \A k \in n + 1..m : queued[k] \in fresh
      BY <2>2, <3>1 DEF Joined
    <3>4. ASSUME NEW k \in 1..m PROVE queued[k] \in Range(queue) \union fresh
      <4>1. k \in 1..n \/ k \in n + 1..m
        OBVIOUS
      <4> QED
        BY <3>2, <3>3, <4>1 DEF Range
    <3> QED
      BY <3>2, <3>4 DEF Range
  <2>7. BoardShape'
    <3>1. PICK S : S = Shows(all)
      OBVIOUS
    <3>2. S = Shows(stored)'
      BY <1>2, <3>1 DEF Shows, Crossings
    <3>3. /\ board' \in [stage : Stages, cursor : Nat, newest : Nat, missed : BOOLEAN, race : S]
          /\ emitters' \in {{}, {"board"}}
      BY <1>2, <1>7, <3>1 DEF BoardGoes, BoardShape
    <3>4. shed' \in BOOLEAN
      BY <2>1 DEF BoardGoes, BoardShape
    <3>5. board'.stage = "live"
      BY <1>10 DEF BoardGoes, BoardShape
    <3>6. feed' \in Seq(stored') /\ Len(feed') <= QueueLimit /\ Distinct(feed)'
      <4>1. feed' = left /\ stored' = all
        BY <1>2, <2>1
      <4>2. left \in Seq(all) /\ Len(left) <= QueueLimit
        BY <2>5
      <4>3. \A i, j \in 1..Len(left) : left[i] = left[j] => i = j
        BY <2>5 DEF Distinct
      <4> QED
        BY <4>1, <4>2, <4>3 DEF Distinct
    <3> QED
      BY <3>2, <3>3, <3>4, <3>5, <3>6 DEF BoardShape, Stages
  <2>8. BoardBegun'
    <3>1. board.stage = "live"
      BY <1>10 DEF BoardGoes, BoardShape
    <3>2. PICK s \in stored : Begins(s, race, board.newest, queue)
      BY <1>1, <3>1 DEF BoardGoes, BoardBegun
    <3>3. s \notin Range(left)
      BY <1>1, <2>5, <2>6, <3>2 DEF Begins
    <3>4. s \in stored' /\ Begins(s, race, board.newest, left)
      BY <1>1, <1>2, <3>2, <3>3 DEF Begins
    <3>5. race = board'.race /\ board.newest = board'.newest /\ left = feed'
      BY <1>1, <2>1
    <3> QED
      BY <3>4, <3>5 DEF BoardBegun, Begins, IsStart
  <2>9. BoardFollows'
    <3>1. ASSUME ~board.missed, ~shed, ~(excess > 0)
          PROVE  Keeps(race, left, all)
      <4>1. Keeps(race, queue, rows)
        BY <1>1, <1>10, <3>1 DEF BoardGoes, BoardFollows
      <4>2. Placed(rows \union fresh)
        BY <1>1, <1>4
      <4>3. \A s \in fresh : IsStart(s) => \A e \in rows : e.attempt # s.attempt
        BY <1>6
      <4>4. Keeps(race, queued, rows \union fresh)
        BY <1>5, <2>1, <4>1, <4>2, <4>3, OfferKeeps
      <4> QED
        BY <1>1, <2>5, <3>1, <4>4
    <3>2. race = board'.race /\ left = feed' /\ all = stored' /\ board' = board
      BY <1>1, <1>2, <2>1
    <3>3. ~board'.missed /\ ~shed' => Keeps(race, left, all)
      BY <2>1, <3>1, <3>2
    <3> QED
      BY <3>2, <3>3 DEF BoardFollows, Keeps, NewestStart, Awaits, Tracks, Crossings, IsStart, IsMilestone, IsEnd
  <2> QED
    BY <2>7, <2>8, <2>9 DEF BoardGoes
<1> QED
  BY <1>9, <1>10

(* The bootstrap finds the newest start, and pages through its slice.        *)
LEMMA BoardSeeks ==
  ASSUME Arrived, RowsAreTold, BoardGoes, BoardSeeksNewest
  PROVE  BoardGoes'
<1>1. PICK page, more, race, newest, old :
        /\ page = Page({"AttemptStarted"}, board.cursor)
        /\ more = HasNextPage({"AttemptStarted"}, board.cursor)
        /\ race = (IF page = {} THEN board.race ELSE Fresh(LatestOf(page).attempt))
        /\ newest = CursorOf(page, board.newest)
        /\ old = board
  OBVIOUS
<1>2. /\ board.stage = "newest"
      /\ board' = CASE more -> [old EXCEPT !.race = race, !.cursor = newest, !.newest = newest]
                    [] ~more /\ race = NoRace -> [old EXCEPT !.stage = "off"]
                    [] OTHER -> [old EXCEPT !.stage = "slice", !.race = race, !.cursor = 0, !.newest = newest]
      /\ UNCHANGED <<emitters, feed, stored, shed, topic>>
  BY <1>1 DEF BoardSeeksNewest, ledgerVars, ingestVars, feedVars
<1>3. /\ emitters = {} /\ feed = <<>> /\ shed \in BOOLEAN
  BY <1>2 DEF BoardGoes, BoardShape
<1>4. PICK R : R = Shows(stored)
  OBVIOUS
<1>5. old \in [stage : Stages, cursor : Nat, newest : Nat, missed : BOOLEAN, race : R] /\ old = board
  BY <1>1, <1>4 DEF BoardGoes, BoardShape
<1>6. page \subseteq stored /\ IsFiniteSet(page) /\ \A e \in page : IsStart(e)
  <2>1. \A e \in page : e \in stored /\ IsStart(e)
    BY <1>1 DEF Page, Matching, IsStart
  <2> QED
    BY <2>1, FS_Subset DEF RowsAreTold
<1>7. Placed(stored)
  BY RowsPlaced DEF RowsAreTold
<1>8. \A e \in page : e.n \in Nat /\ e.attempt \in Nat /\ e.attempt # 0
  BY <1>6, <1>7 DEF Placed
<1>9. /\ newest \in Nat /\ old.newest <= newest /\ \A e \in page : e.n <= newest
  <2>1. old.newest \in Nat /\ newest = CursorOf(page, old.newest) /\ \A e \in page : e.n \in Nat
    BY <1>1, <1>5, <1>8
  <2> QED
    BY <1>6, <2>1, CursorFacts
<1>10. race \in R /\ \/ race = old.race /\ page = {}
                     \/ \E s \in stored : IsStart(s) /\ s.attempt = race.attempt /\ s.n <= newest
  <2>1. CASE page = {}
    BY <1>1, <1>5, <2>1
  <2>2. CASE page # {}
    <3>1. PICK s \in page : s = LatestOf(page)
      BY <1>6, <1>8, <2>2, LatestFacts
    <3>2. race = [attempt |-> s.attempt, crossed |-> {}, over |-> FALSE]
      BY <1>1, <2>2, <3>1 DEF Fresh, NoRace
    <3>3. race \in R
      BY <1>4, <1>8, <3>2 DEF Shows
    <3> QED
      BY <1>6, <1>9, <3>1, <3>2, <3>3
  <2> QED
    BY <2>1, <2>2
<1>11. \/ race = NoRace
       \/ \E s \in stored : Begins(s, race, newest, feed)
  <2>1. Range(feed) = {}
    BY <1>3 DEF Range
  <2>2. CASE race = old.race /\ page = {}
    <3>1. old.race = NoRace \/ \E s \in stored : Begins(s, old.race, old.newest, feed)
      BY <1>5 DEF BoardGoes, BoardBegun
    <3>2. ASSUME NEW s \in stored, Begins(s, old.race, old.newest, feed)
          PROVE  Begins(s, race, newest, feed)
      <4>1. s.n \in Nat /\ s.n <= old.newest /\ old.newest \in Nat
        BY <1>5, <1>7, <3>2 DEF Placed, Begins
      <4>2. s.n <= newest
        BY <1>9, <4>1
      <4> QED
        BY <2>2, <3>2, <4>2 DEF Begins
    <3> QED
      BY <2>2, <3>1, <3>2
  <2>3. CASE \E s \in stored : IsStart(s) /\ s.attempt = race.attempt /\ s.n <= newest
    BY <2>1, <2>3 DEF Begins
  <2> QED
    BY <1>10, <2>2, <2>3
<1>12. PICK now : now = board'
  OBVIOUS
<1>13. /\ now \in [stage : {"newest", "off", "slice"}, cursor : Nat, newest : Nat, missed : BOOLEAN, race : R]
       /\ \/ now.race = NoRace /\ now.stage \in {"newest", "off"}
          \/ \E s \in stored : Begins(s, now.race, now.newest, feed)
  <2>1. CASE more
    <3>1. now = [old EXCEPT !.race = race, !.cursor = newest, !.newest = newest]
      BY <1>2, <1>12, <2>1
    <3>2. /\ now \in [stage : Stages, cursor : Nat, newest : Nat, missed : BOOLEAN, race : R]
          /\ now.race = race /\ now.newest = newest /\ now.stage = "newest"
      BY <1>2, <1>5, <1>9, <1>10, <3>1
    <3> QED
      BY <1>11, <3>2
  <2>2. CASE ~more /\ race = NoRace
    <3>1. now = [old EXCEPT !.stage = "off"]
      BY <1>2, <1>12, <2>2
    <3>2. /\ now \in [stage : {"off"}, cursor : Nat, newest : Nat, missed : BOOLEAN, race : R]
          /\ now.race = old.race /\ now.newest = old.newest
      BY <1>5, <3>1
    <3>3. now.race = NoRace \/ \E s \in stored : Begins(s, now.race, now.newest, feed)
      BY <1>5, <3>2 DEF BoardGoes, BoardBegun
    <3> QED
      BY <3>2, <3>3
  <2>3. CASE ~more /\ race # NoRace
    <3>1. now = [old EXCEPT !.stage = "slice", !.race = race, !.cursor = 0, !.newest = newest]
      BY <1>2, <1>12, <2>3
    <3>2. /\ now \in [stage : {"slice"}, cursor : Nat, newest : Nat, missed : BOOLEAN, race : R]
          /\ now.race = race /\ now.newest = newest
      BY <1>5, <1>9, <1>10, <3>1
    <3> QED
      BY <1>11, <2>3, <3>2
  <2> QED
    BY <2>1, <2>2, <2>3
<1>14. BoardShape'
  <2>1. R = Shows(stored)'
    BY <1>2, <1>4 DEF Shows, Crossings
  <2>2. now \in [stage : Stages, cursor : Nat, newest : Nat, missed : BOOLEAN, race : R]
    BY <1>13 DEF Stages
  <2>3. feed' = feed /\ feed' \in Seq(stored') /\ Len(feed') <= QueueLimit /\ Distinct(feed)'
    BY <1>2 DEF BoardGoes, BoardShape, Distinct
  <2> QED
    BY <1>2, <1>3, <1>12, <2>1, <2>2, <2>3 DEF BoardShape, Stages
<1>15. BoardBegun'
  BY <1>2, <1>12, <1>13 DEF BoardBegun, Begins, IsStart, NoRace
<1>16. BoardFollows'
  BY <1>2, <1>3 DEF BoardFollows
<1> QED
  BY <1>14, <1>15, <1>16 DEF BoardGoes

LEMMA BoardPages ==
  ASSUME Arrived, RowsAreTold, BoardGoes, BoardReadsSlice
  PROVE  BoardGoes'
<1>1. PICK rest, page, slice, old :
        /\ old = board
        /\ rest = SliceAfter(board.race.attempt, board.cursor)
        /\ page = {e \in rest : Cardinality({d \in rest : d.n < e.n}) < PageLimit}
        /\ slice = {e \in page : e.attempt = board.race.attempt}
  OBVIOUS
<1>2. PICK R, C : R = Shows(stored) /\ C = Crossings(stored)
  OBVIOUS
<1>3. /\ board.stage = "slice" /\ emitters = {} /\ feed = <<>> /\ shed \in BOOLEAN
      /\ old \in [stage : Stages, cursor : Nat, newest : Nat, missed : BOOLEAN, race : R]
      /\ UNCHANGED <<emitters, feed, stored, shed, topic>>
  BY <1>1, <1>2 DEF BoardReadsSlice, BoardGoes, BoardShape, ledgerVars, ingestVars, feedVars
<1>4. PICK race, cursor, stage :
        /\ race = BoardReads(old.race, page)
        /\ cursor = CursorOf(page, old.cursor) /\ stage \in {"slice", "connect"}
        /\ board' = [old EXCEPT !.race = race, !.cursor = cursor, !.stage = stage]
  <2>1. board' = [board EXCEPT !.race = BoardReads(@, page), !.cursor = CursorOf(page, @),
                               !.stage = IF Cardinality(rest) > PageLimit THEN "slice" ELSE "connect"]
    BY <1>1 DEF BoardReadsSlice
  <2> QED
    BY <1>1, <1>3, <2>1
<1>5. page \subseteq stored /\ IsFiniteSet(page)
  <2>1. page \subseteq stored
    BY <1>1 DEF SliceAfter, Matching
  <2> QED
    BY <2>1, FS_Subset DEF RowsAreTold
<1>6. cursor \in Nat
  <2>1. \A e \in page : e.n \in Nat
    BY <1>5, RowsPlaced DEF RowsAreTold, Placed
  <2>2. old.cursor \in Nat
    BY <1>3
  <2> QED
    BY <1>4, <1>5, <2>1, <2>2, CursorFacts
<1>7. race \in R /\ race.attempt = old.race.attempt
  <2>1. old.race \in [attempt : Nat, crossed : SUBSET C, over : BOOLEAN]
    BY <1>2, <1>3 DEF Shows
  <2>2. Crossings(slice) \subseteq C
    BY <1>1, <1>2, <1>5, CrossingFacts
  <2>3. PICK x \in SUBSET C : x = old.race.crossed \union Crossings(slice)
    BY <2>1, <2>2
  <2>4. PICK y \in BOOLEAN : y = (old.race.over \/ HasEnd(slice))
    OBVIOUS
  <2>5. race = [old.race EXCEPT !.crossed = x, !.over = y]
    BY <1>1, <1>4, <2>3, <2>4 DEF BoardReads
  <2>6. race = [attempt |-> old.race.attempt, crossed |-> x, over |-> y]
    BY <2>1, <2>5, RaceIsRead
  <2> QED
    BY <1>2, <2>1, <2>6 DEF Shows
<1>8. PICK now : now = board'
  OBVIOUS
<1>9. /\ now \in [stage : {"slice", "connect"}, cursor : Nat, newest : Nat, missed : BOOLEAN, race : R]
      /\ now.race.attempt = old.race.attempt /\ now.newest = old.newest
  BY <1>3, <1>4, <1>6, <1>7, <1>8
<1>10. BoardShape'
  <2>1. R = Shows(stored)'
    BY <1>2, <1>3 DEF Shows, Crossings
  <2>2. now \in [stage : Stages, cursor : Nat, newest : Nat, missed : BOOLEAN, race : R]
    BY <1>9 DEF Stages
  <2>3. feed' = feed /\ feed' \in Seq(stored') /\ Len(feed') <= QueueLimit /\ Distinct(feed)'
    BY <1>3 DEF BoardGoes, BoardShape, Distinct
  <2> QED
    BY <1>3, <1>8, <2>1, <2>2, <2>3 DEF BoardShape, Stages
<1>11. BoardBegun'
  <2>1. PICK s \in stored : Begins(s, old.race, old.newest, feed)
    BY <1>1, <1>3 DEF BoardGoes, BoardBegun
  <2>2. Begins(s, now.race, now.newest, feed)
    BY <1>9, <2>1 DEF Begins
  <2> QED
    BY <1>3, <1>8, <2>2 DEF BoardBegun, Begins, IsStart
<1>12. BoardFollows'
  BY <1>3 DEF BoardFollows
<1> QED
  BY <1>10, <1>11, <1>12 DEF BoardGoes

(* The feed opens: a board that shows what the ledger has goes on from it.   *)
LEMMA BoardOpens ==
  ASSUME Arrived, RowsAreTold, BoardGoes, BoardConnects
  PROVE  BoardGoes'
<1>1. PICK old, race, rows, queue, R :
        /\ old = board /\ race = board.race /\ rows = stored /\ queue = feed /\ R = Shows(stored)
  OBVIOUS
<1>2. /\ board.stage \in {"connect", "live"} /\ emitters = {} /\ emitters' = {"board"}
      /\ UNCHANGED <<stored, feed, shed, topic>>
  BY DEF BoardConnects, ingestVars
<1>3. PICK missed \in BOOLEAN :
        /\ missed <=> (old.missed \/ ShownBy(rows) # race)
        /\ board' = [old EXCEPT !.stage = "live", !.missed = missed]
  <2>1. PICK missed \in BOOLEAN : missed = (old.missed \/ ShownBy(rows) # race)
    OBVIOUS
  <2>2. board' = [old EXCEPT !.stage = "live", !.missed = missed]
    BY <1>1, <2>1 DEF BoardConnects
  <2> QED
    BY <2>1, <2>2
<1>4. old \in [stage : Stages, cursor : Nat, newest : Nat, missed : BOOLEAN, race : R]
  BY <1>1 DEF BoardGoes, BoardShape
<1>5. PICK now : now = board'
  OBVIOUS
<1>6. /\ now \in [stage : {"live"}, cursor : Nat, newest : Nat, missed : BOOLEAN, race : R]
      /\ now.race = race /\ now.newest = old.newest /\ (now.missed <=> missed)
  BY <1>1, <1>3, <1>4, <1>5
<1>7. Placed(rows)
  BY <1>1, RowsPlaced DEF RowsAreTold
<1>8. PICK s \in rows : Begins(s, race, old.newest, queue)
  BY <1>1, <1>2 DEF BoardGoes, BoardBegun
<1>9. BoardShape'
  <2>1. R = Shows(stored)'
    BY <1>1, <1>2 DEF Shows, Crossings
  <2>2. now \in [stage : Stages, cursor : Nat, newest : Nat, missed : BOOLEAN, race : R]
    BY <1>6 DEF Stages
  <2>3. feed' = feed /\ feed' \in Seq(stored') /\ Len(feed') <= QueueLimit /\ Distinct(feed)' /\ shed' \in BOOLEAN
    BY <1>2 DEF BoardGoes, BoardShape, Distinct
  <2> QED
    BY <1>2, <1>5, <1>6, <2>1, <2>2, <2>3 DEF BoardShape, Stages
<1>10. BoardBegun'
  <2>1. Begins(s, now.race, now.newest, queue)
    BY <1>6, <1>8
  <2> QED
    BY <1>1, <1>2, <1>5, <2>1 DEF BoardBegun, Begins, IsStart
<1>11. ASSUME ~missed PROVE Keeps(race, queue, rows)
  <2>1. race = ShownBy(rows)
    BY <1>3, <1>11
  <2>2. PICK starts : starts = StartsOf(rows)
    OBVIOUS
  <2>3. \A t : t \in starts <=> t \in rows /\ IsStart(t)
    BY <2>2 DEF StartsOf, IsStart
  <2>4. starts # {} /\ IsFiniteSet(starts) /\ \A t \in starts : t.n \in Nat
    <3>1. IsFiniteSet(rows) /\ starts \subseteq rows /\ \A t \in rows : t.n \in Nat
      BY <1>7, <2>3 DEF Placed
    <3>2. s \in starts
      BY <1>8, <2>3 DEF Begins
    <3> QED
      BY <3>1, <3>2, FS_Subset
  <2>5. PICK t \in starts : t = LatestOf(starts) /\ \A u \in starts : u.n <= t.n
    BY <2>4, LatestFacts
  <2>6. PICK mine : mine = {e \in rows : e.attempt = t.attempt}
    OBVIOUS
  <2>7. race = [attempt |-> t.attempt, crossed |-> Crossings(mine), over |-> HasEnd(mine)]
    BY <2>1, <2>2, <2>4, <2>5, <2>6 DEF ShownBy
  <2>8. race.attempt = t.attempt /\ race.crossed = Crossings(mine) /\ race.over = HasEnd(mine)
    BY <2>7
  <2>9. t = s
    <3>1. IsStart(s) /\ s.attempt = t.attempt /\ t \in rows /\ IsStart(t)
      BY <1>8, <2>3, <2>5, <2>8 DEF Begins
    <3> QED
      BY <1>7, <3>1 DEF Placed
  <2>10. NewestStart(t, rows)
    BY <2>3, <2>5 DEF NewestStart
  <2>11. race.over <=> \E e \in rows : IsEnd(e) /\ e.attempt = t.attempt
    BY <2>6, <2>8 DEF HasEnd, IsEnd
  <2>12. ASSUME NEW e \in rows, e.attempt = t.attempt
         PROVE  (IsMilestone(e) => <<e.team, e.rung>> \in race.crossed) /\ (IsEnd(e) => race.over)
    <3>1. IsMilestone(e) => <<e.team, e.rung>> \in race.crossed
      BY <2>6, <2>8, <2>12, CrossingFacts
    <3> QED
      BY <2>11, <2>12, <3>1
  <2>13. t \notin Range(queue)
    BY <1>8, <2>9 DEF Begins
  <2>14. Tracks(t, race, queue, rows)
    BY <2>6, <2>8, <2>11, <2>12, <2>13 DEF Tracks
  <2> QED
    BY <2>10, <2>14 DEF Keeps, NewestStart
<1>12. BoardFollows'
  <2>1. ~now.missed => Keeps(race, queue, rows)
    BY <1>6, <1>11
  <2>2. race = board'.race /\ queue = feed' /\ rows = stored' /\ now = board'
    BY <1>1, <1>2, <1>5, <1>6
  <2> QED
    BY <2>1, <2>2 DEF BoardFollows, Keeps, NewestStart, Awaits, Tracks, Crossings, IsStart, IsMilestone, IsEnd
<1> QED
  BY <1>9, <1>10, <1>12 DEF BoardGoes

(* The feed's thread sends one event, to the board or to nobody.             *)
LEMMA BoardSent ==
  ASSUME Arrived, RowsAreTold, BoardGoes, Broadcast
  PROVE  BoardGoes'
<1>1. PICK old, race, rows, queue, rest, e, newest, R :
        /\ old = board /\ race = board.race /\ rows = stored /\ queue = feed /\ rest = Tail(feed)
        /\ e = Head(feed) /\ newest = board.newest /\ R = Shows(stored)
  OBVIOUS
<1>2. /\ queue # <<>> /\ feed' = rest
      /\ board' = IF emitters = {} THEN old
                  ELSE [old EXCEPT !.race = BoardHears(@, e), !.newest = Newest(@, e),
                                   !.missed = @ \/ Supersedes(newest, e)]
      /\ UNCHANGED <<stored, emitters, shed, topic>>
  BY <1>1 DEF Broadcast, ingestVars
<1>3. /\ old \in [stage : Stages, cursor : Nat, newest : Nat, missed : BOOLEAN, race : R]
      /\ queue \in Seq(rows) /\ Distinct(queue) /\ Len(queue) <= QueueLimit
      /\ board.stage = "live" /\ shed \in BOOLEAN /\ emitters \in {{}, {"board"}}
      /\ race \in Shows(rows) /\ newest \in Nat /\ old.race = race /\ old.newest = newest
  BY <1>1, <1>2 DEF BoardGoes, BoardShape
<1>4. /\ e \in rows /\ rest \in Seq(rows) /\ Distinct(rest) /\ Len(rest) <= QueueLimit
      /\ Range(rest) \subseteq Range(queue) /\ e \in Range(queue) /\ e \notin Range(rest)
  <2>1. /\ Head(queue) \in rows /\ Tail(queue) \in Seq(rows) /\ Distinct(Tail(queue))
        /\ Len(queue) \in Nat /\ Len(Tail(queue)) = Len(queue) - 1
        /\ \A x : x \in Range(queue) <=> x = Head(queue) \/ x \in Range(Tail(queue))
        /\ Head(queue) \notin Range(Tail(queue))
    BY <1>2, <1>3, HeadFacts
  <2>2. QueueLimit \in Nat
    BY LedgerAssumption
  <2>3. PICK m, n : m = Len(queue) /\ n = Len(Tail(queue))
    OBVIOUS
  <2>4. n <= QueueLimit
    BY <1>3, <2>1, <2>2, <2>3
  <2> QED
    BY <1>1, <2>1, <2>3, <2>4
<1>5. Placed(rows)
  BY <1>1, RowsPlaced DEF RowsAreTold
<1>6. e.type \in RaceTypes /\ e.attempt \in Nat /\ e.n \in Nat
  BY <1>4, <1>5 DEF Placed
<1>7. PICK s \in rows : Begins(s, race, newest, queue)
  BY <1>1, <1>3 DEF BoardGoes, BoardBegun
<1>8. PICK after, later, missed :
        /\ after = (IF emitters = {} THEN race ELSE BoardHears(race, e))
        /\ later = (IF emitters = {} THEN newest ELSE Newest(newest, e))
        /\ missed = (old.missed \/ (emitters # {} /\ Supersedes(newest, e)))
  OBVIOUS
<1>9. BoardHears(race, e) \in Shows(rows) /\ Took(race, e, BoardHears(race, e))
  BY <1>3, <1>4, <1>6, BoardTakes
<1>10. /\ Newest(newest, e) \in Nat /\ newest <= Newest(newest, e)
       /\ IsStart(e) /\ ~Supersedes(newest, e) => Newest(newest, e) = e.n
       /\ ~IsStart(e) => Newest(newest, e) = newest
  BY <1>3, <1>6, NewestOfTwo
<1>11. PICK now : now = board'
  OBVIOUS
<1>12. /\ now \in [stage : {"live"}, cursor : Nat, newest : Nat, missed : BOOLEAN, race : R]
       /\ now.race = after /\ now.newest = later /\ (now.missed <=> missed)
  <2>1. old \in [stage : {"live"}, cursor : Nat, newest : Nat, missed : BOOLEAN, race : R]
    BY <1>1, <1>3
  <2>2. CASE emitters = {}
    <3>1. now = old
      BY <1>2, <1>11, <2>2
    <3> QED
      BY <1>3, <1>8, <2>1, <2>2, <3>1
  <2>3. CASE emitters # {}
    <3>1. PICK o \in BOOLEAN : o = (old.missed \/ Supersedes(newest, e))
      OBVIOUS
    <3>2. after \in R /\ later \in Nat /\ after = BoardHears(race, e) /\ later = Newest(newest, e)
      BY <1>1, <1>8, <1>9, <1>10, <2>3
    <3>3. now = [old EXCEPT !.race = after, !.newest = later, !.missed = o]
      BY <1>2, <1>3, <1>11, <2>3, <3>1, <3>2
    <3>4. /\ now \in [stage : {"live"}, cursor : Nat, newest : Nat, missed : BOOLEAN, race : R]
          /\ now.race = after /\ now.newest = later /\ now.missed = o
      BY <2>1, <3>2, <3>3
    <3> QED
      BY <1>8, <2>3, <3>1, <3>4
  <2> QED
    BY <2>2, <2>3
<1>13. BoardShape'
  <2>1. R = Shows(stored)'
    BY <1>1, <1>2 DEF Shows, Crossings
  <2>2. now \in [stage : Stages, cursor : Nat, newest : Nat, missed : BOOLEAN, race : R]
    BY <1>12 DEF Stages
  <2>3. feed' \in Seq(stored') /\ Len(feed') <= QueueLimit /\ Distinct(feed)'
    <3>1. feed' = rest /\ stored' = rows
      BY <1>1, <1>2
    <3>2. \A i, j \in 1..Len(rest) : rest[i] = rest[j] => i = j
      BY <1>4 DEF Distinct
    <3> QED
      BY <1>4, <3>1, <3>2 DEF Distinct
  <2> QED
    BY <1>2, <1>3, <1>11, <1>12, <2>1, <2>2, <2>3 DEF BoardShape, Stages
<1>14. \E t \in rows : Begins(t, after, later, rest)
  <2>1. s.n \in Nat /\ s.n <= newest /\ s \notin Range(rest) /\ IsStart(s) /\ s.attempt = race.attempt
    BY <1>4, <1>5, <1>7 DEF Begins, Placed
  <2>2. CASE emitters = {}
    BY <1>8, <2>1, <2>2 DEF Begins
  <2>3. CASE emitters # {} /\ ~IsStart(e)
    <3>1. after.attempt = race.attempt /\ later = newest
      BY <1>8, <1>9, <1>10, <2>3 DEF Took
    <3> QED
      BY <2>1, <3>1 DEF Begins
  <2>4. CASE emitters # {} /\ IsStart(e)
    <3>1. after.attempt = e.attempt
      BY <1>8, <1>9, <2>4 DEF Took
    <3>2. e.n <= later
      <4>1. CASE Supersedes(newest, e)
        <5>1. e.n < newest
          BY <4>1 DEF Supersedes
        <5>2. newest <= later /\ later \in Nat
          BY <1>8, <1>10, <2>4
        <5> QED
          BY <1>3, <1>6, <5>1, <5>2
      <4>2. CASE ~Supersedes(newest, e)
        BY <1>6, <1>8, <1>10, <2>4, <4>2
      <4> QED
        BY <4>1, <4>2
    <3> QED
      BY <1>4, <2>4, <3>1, <3>2 DEF Begins
  <2> QED
    BY <2>2, <2>3, <2>4
<1>15. BoardBegun'
  <2>1. PICK t \in rows : Begins(t, after, later, rest)
    BY <1>14
  <2>2. rows = stored' /\ after = board'.race /\ later = board'.newest /\ rest = feed'
    BY <1>1, <1>2, <1>11, <1>12
  <2> QED
    BY <2>1, <2>2 DEF BoardBegun, Begins, IsStart
<1>16. ASSUME emitters # {}, ~missed, ~shed PROVE Keeps(after, rest, rows)
  <2>1. ~board.missed /\ ~Supersedes(newest, e) /\ after = BoardHears(race, e)
    BY <1>1, <1>8, <1>16
  <2>2. Keeps(race, queue, rows)
    BY <1>1, <1>16, <2>1 DEF BoardGoes, BoardFollows
  <2>3. \E t \in rows : IsStart(t) /\ t.attempt = race.attempt /\ t.n <= newest
    BY <1>7 DEF Begins
  <2>4. ~Supersedes(newest, Head(queue)) /\ e = Head(queue) /\ rest = Tail(queue)
    BY <1>1, <2>1
  <2>5. Keeps(BoardHears(race, Head(queue)), Tail(queue), rows)
    BY <1>2, <1>3, <1>5, <2>2, <2>3, <2>4, HearKeeps
  <2> QED
    BY <2>1, <2>4, <2>5
<1>17. BoardFollows'
  <2>1. rows = stored' /\ after = board'.race /\ rest = feed' /\ (board'.missed <=> missed) /\ emitters' = emitters /\ shed' = shed
    BY <1>1, <1>2, <1>11, <1>12
  <2>2. emitters' # {} /\ ~board'.missed /\ ~shed' => Keeps(after, rest, rows)
    BY <1>16, <2>1
  <2> QED
    BY <2>1, <2>2 DEF BoardFollows, Keeps, NewestStart, Awaits, Tracks, Crossings, IsStart, IsMilestone, IsEnd
<1> QED
  BY <1>13, <1>15, <1>17 DEF BoardGoes

(* The invariant of the scene of the board.                                  *)
BoardInv ==
  /\ scene = "board" => BoardGoes
  /\ scene # "board" => board = BoardClosed /\ emitters = {} /\ feed = <<>> /\ shed = FALSE

LEMMA BoardInvAtFirst == Init => BoardInv
<1> SUFFICES ASSUME Init PROVE BoardInv
  OBVIOUS
<1>1. board = BoardClosed /\ emitters = {} /\ feed = <<>> /\ shed = FALSE
  BY DEF Init, LedgerInit, ReaderInit
<1>2. PICK C, R : C = Crossings(stored) /\ R = Shows(stored) /\ R = [attempt : Nat, crossed : SUBSET C, over : BOOLEAN]
  BY DEF Shows
<1>3. board \in [stage : Stages, cursor : Nat, newest : Nat, missed : BOOLEAN, race : R]
  <2>1. NoRace \in R
    BY <1>2 DEF NoRace
  <2> QED
    BY <1>1, <2>1 DEF BoardClosed, Stages
<1>4. feed \in Seq(stored) /\ Len(feed) <= QueueLimit /\ Distinct(feed)
  <2>1. QueueLimit \in Nat
    BY LedgerAssumption
  <2>2. Len(<<>>) = 0 /\ Distinct(<<>>) /\ <<>> \in Seq(stored)
    BY DEF Distinct
  <2> QED
    BY <1>1, <2>1, <2>2
<1>5. BoardShape
  BY <1>1, <1>2, <1>3, <1>4 DEF BoardShape
<1>6. BoardBegun /\ BoardFollows
  BY <1>1 DEF BoardBegun, BoardFollows, BoardClosed
<1> QED
  BY <1>1, <1>5, <1>6 DEF BoardInv, BoardGoes

LEMMA BoardInvStays ==
  ASSUME SliceInv, SliceInv', RowsInv, BoardInv, [Next]_vars
  PROVE  BoardInv'
<1>1. ASSUME scene = "board", ReaderScene
      PROVE  BoardGoes'
  <2>1. LedgerInv /\ Arrived /\ RowsAreTold /\ RowsAreLed /\ BoardGoes
    BY <1>1 DEF SliceInv, RowsInv, BoardInv
  <2>2. ASSUME NEW p \in Partition, Record(p), UNCHANGED board PROVE BoardGoes'
    BY <2>1, <2>2, BoardOffered
  <2>3. ASSUME NEW p \in Partition, Acknowledge(p), UNCHANGED board PROVE BoardGoes'
    <3>1. UNCHANGED <<board, stored, shed, emitters, feed>>
      BY <2>3 DEF Acknowledge
    <3> QED
      BY <2>1, <3>1, BoardStands
  <2>4. CASE LedgerRestarts /\ UNCHANGED board
    <3>1. UNCHANGED <<board, stored, shed>> /\ emitters' = {} /\ feed' = <<>>
      BY <2>4 DEF LedgerRestarts
    <3> QED
      BY <2>1, <3>1, BoardStands
  <2>5. ASSUME NEW p \in Partition, ScriptGoesOn(p), UNCHANGED board PROVE BoardGoes'
    <3>1. UNCHANGED <<board, stored, shed, emitters, feed>>
      BY <2>5 DEF ScriptGoesOn, ingestVars, feedVars
    <3> QED
      BY <2>1, <3>1, BoardStands
  <2>6. CASE BoardSeeksNewest
    BY <2>1, <2>6, BoardSeeks
  <2>7. CASE BoardReadsSlice
    BY <2>1, <2>7, BoardPages
  <2>8. CASE BoardConnects
    BY <2>1, <2>8, BoardOpens
  <2>9. CASE Broadcast
    BY <2>1, <2>9, BoardSent
  <2>10. CASE ClientDropped
    <3>1. UNCHANGED <<board, stored, shed>> /\ emitters' = {} /\ feed' = feed
      BY <2>10 DEF ClientDropped, ingestVars, readerVars
    <3> QED
      BY <2>1, <3>1, BoardStands
  <2> QED
    BY <1>1, <2>2, <2>3, <2>4, <2>5, <2>6, <2>7, <2>8, <2>9, <2>10
    DEF ReaderScene, LedgerNext, Ingests, BoardNext, readerVars
<1>2. CASE scene = "board" /\ ReaderScene /\ UNCHANGED <<scene, script>>
  BY <1>1, <1>2 DEF BoardInv
<1>3. CASE scene \notin {"board", "writers"} /\ ReaderScene /\ UNCHANGED <<scene, script>>
  <2>1. board = BoardClosed /\ emitters = {} /\ feed = <<>> /\ shed = FALSE
    BY <1>3 DEF BoardInv
  <2>2. ASSUME LedgerNext, UNCHANGED readerVars
        PROVE  UNCHANGED <<board, emitters, feed, shed>>
    <3>1. UNCHANGED board
      BY <2>2 DEF readerVars
    <3>2. CASE LedgerRestarts
      BY <2>1, <3>1, <3>2 DEF LedgerRestarts
    <3>3. ASSUME NEW p \in Partition, Record(p) PROVE UNCHANGED <<board, emitters, feed, shed>>
      BY <2>1, <3>1, <3>3 DEF Record, Offered
    <3>4. ASSUME NEW p \in Partition, Acknowledge(p) PROVE UNCHANGED <<board, emitters, feed, shed>>
      BY <3>1, <3>4 DEF Acknowledge
    <3> QED
      BY <2>2, <3>2, <3>3, <3>4 DEF LedgerNext, Ingests
  <2>3. ASSUME NEW p \in Partition, ScriptGoesOn(p), UNCHANGED readerVars
        PROVE  UNCHANGED <<board, emitters, feed, shed>>
    BY <2>3 DEF ScriptGoesOn, feedVars, readerVars
  <2>4. ASSUME MindNext
        PROVE  UNCHANGED <<board, emitters, feed, shed>>
    BY <2>4 DEF MindNext, Rehydrates, RehydrateFails, MindRestarts, Hears, ledgerVars, feedVars
  <2>5. UNCHANGED <<board, emitters, feed, shed>>
    BY <1>3, <2>2, <2>3, <2>4 DEF ReaderScene
  <2> QED
    BY <1>3, <2>1, <2>5 DEF BoardInv, BoardClosed, NoRace
<1>4. CASE scene = "writers" /\ WriterScene /\ UNCHANGED readerVars /\ UNCHANGED <<scene, script>>
  <2>1. board = BoardClosed /\ emitters = {} /\ feed = <<>> /\ shed = FALSE
    BY <1>4 DEF BoardInv
  <2>2. UNCHANGED feedVars
    <3>1. CASE SweepNext
      BY <3>1 DEF SweepNext, SweepBegins, SweepReads, SweepCloses, SweepCompletes, Truncated, BootSweepAgain, ledgerVars, feedVars
    <3>2. CASE ReadFails \/ Crash
      BY <3>2 DEF ReadFails, Crash, feedVars
    <3>3. ASSUME NEW e \in flight, Delivered(e) \/ Fails(e) \/ GivesUp(e) PROVE UNCHANGED feedVars
      BY <3>3 DEF Delivered, Fails, GivesUp, ledgerVars, feedVars
    <3>4. ASSUME NEW o \in Outcome, Observe(o) PROVE UNCHANGED feedVars
      BY <3>4 DEF Observe, ledgerVars, feedVars
    <3>5. ASSUME NEW h \in Harness, HarnessNext(h) PROVE UNCHANGED feedVars
      BY <3>5 DEF HarnessNext, Look, Clear, StartAttempt, Watch, EndAttempt, ledgerVars, feedVars
    <3>6. ASSUME NEW p \in Partition, Catches(p) PROVE UNCHANGED feedVars
      BY <3>6 DEF Catches
    <3> QED
      BY <1>4, <3>1, <3>2, <3>3, <3>4, <3>5, <3>6 DEF WriterScene, AttemptNext
  <2> QED
    BY <1>4, <2>1, <2>2 DEF BoardInv, readerVars, feedVars, BoardClosed, NoRace
<1>5. CASE UNCHANGED vars
  <2>1. UNCHANGED <<board, stored, shed, emitters, feed, scene>>
    BY <1>5 DEF vars, ledgerVars, readerVars
  <2>2. CASE scene = "board"
    <3>1. BoardGoes'
      BY <2>1, <2>2, BoardStands DEF BoardInv
    <3> QED
      BY <2>1, <2>2, <3>1 DEF BoardInv
  <2>3. CASE scene # "board"
    BY <2>1, <2>3 DEF BoardInv, BoardClosed, NoRace
  <2> QED
    BY <2>2, <2>3
<1> QED
  BY <1>2, <1>3, <1>4, <1>5 DEF Next

LEMMA BoardsAreCurrent ==
  ASSUME SliceInv, RowsInv, BoardInv
  PROVE  BoardIsCurrent
<1> SUFFICES ASSUME emitters # {}, feed = <<>>, ~board.missed, ~shed
             PROVE  board.race = ShownBy(stored)
  BY DEF BoardIsCurrent
<1>1. scene = "board"
  BY DEF BoardInv
<1>2. Arrived /\ RowsAreTold /\ BoardGoes
  BY <1>1 DEF SliceInv, RowsInv, BoardInv
<1>3. PICK race, rows, queue : race = board.race /\ rows = stored /\ queue = feed
  OBVIOUS
<1>4. Placed(rows) /\ Keeps(race, queue, rows) /\ race \in Shows(rows)
  BY <1>2, <1>3, RowsPlaced DEF RowsAreTold, BoardGoes, BoardFollows, BoardShape
<1>5. Range(queue) = {} /\ Len(queue) = 0
  BY <1>3 DEF Range
<1>6. PICK s \in rows : NewestStart(s, rows) /\ (Awaits(s, queue, rows) \/ Tracks(s, race, queue, rows))
  BY <1>4 DEF Keeps
<1>7. Tracks(s, race, queue, rows)
  BY <1>5, <1>6 DEF Awaits
<1>8. PICK mine : mine = {e \in rows : e.attempt = s.attempt}
  OBVIOUS
<1>9. /\ race.attempt = s.attempt /\ race.crossed \subseteq Crossings(mine)
      /\ race.over => \E e \in rows : IsEnd(e) /\ e.attempt = s.attempt
      /\ \A e \in rows : e.attempt = s.attempt =>
           (IsMilestone(e) => <<e.team, e.rung>> \in race.crossed) /\ (IsEnd(e) => race.over)
  BY <1>5, <1>7, <1>8 DEF Tracks
<1>10. Crossings(mine) \subseteq race.crossed
  BY <1>8, <1>9, CrossingFacts
<1>11. race.over <=> HasEnd(mine)
  BY <1>8, <1>9 DEF HasEnd, IsEnd
<1>12. race.over \in BOOLEAN /\ HasEnd(mine) \in BOOLEAN
  BY <1>4 DEF Shows, HasEnd
<1>13. PICK C : C = Crossings(rows) /\ race \in [attempt : Nat, crossed : SUBSET C, over : BOOLEAN]
  BY <1>4 DEF Shows
<1>14. race = [attempt |-> race.attempt, crossed |-> race.crossed, over |-> race.over]
  BY <1>13
<1>15. race.attempt = s.attempt /\ race.crossed = Crossings(mine) /\ race.over = HasEnd(mine)
  BY <1>9, <1>10, <1>11, <1>12
<1>16. LatestOf(StartsOf(rows)) = s /\ StartsOf(rows) # {}
  <2>1. \A t : t \in StartsOf(rows) <=> t \in rows /\ IsStart(t)
    BY DEF StartsOf, IsStart
  <2>2. s \in StartsOf(rows) /\ \A u \in StartsOf(rows) : u.n <= s.n
    BY <1>6, <2>1 DEF NewestStart
  <2>3. ASSUME NEW t \in StartsOf(rows), \A u \in StartsOf(rows) : u.n <= t.n
        PROVE  t = s
    <3>1. s.n \in Nat /\ t.n \in Nat /\ t.n <= s.n /\ s.n <= t.n
      BY <1>4, <2>1, <2>2, <2>3 DEF Placed
    <3>2. s.n = t.n
      BY <3>1
    <3> QED
      BY <1>4, <2>1, <3>2 DEF Placed
  <2> QED
    BY <2>2, <2>3 DEF LatestOf
<1>17. ShownBy(rows) = [attempt |-> s.attempt, crossed |-> Crossings(mine), over |-> HasEnd(mine)]
  BY <1>8, <1>16 DEF ShownBy
<1> QED
  BY <1>3, <1>14, <1>15, <1>17

(* The board follows the race (hooks.ts:85-157, RaceScoreboard.tsx:67-141):  *)
(* for every number of attempts, partitions, restarts and dropped            *)
(* connections there are, a board that opened the feed on what it had read   *)
(* and lost nothing on it shows, once the feed is worked off, the newest     *)
(* attempt of the ledger with exactly its rungs and its end.                 *)
THEOREM BoardsFollowTheRace == Spec => []BoardIsCurrent
<1>1. Init => SliceInv /\ RowsInv /\ BoardInv
  BY SliceInvAtFirst, MindInvAtFirst, BoardInvAtFirst
<1>2. SliceInv /\ RowsInv /\ BoardInv /\ [Next]_vars => (SliceInv /\ RowsInv /\ BoardInv)'
  BY SliceInvStays, RowsInvStays, BoardInvStays
<1>3. SliceInv /\ RowsInv /\ BoardInv => BoardIsCurrent
  BY BoardsAreCurrent
<1> QED
  BY <1>1, <1>2, <1>3, PTL DEF Spec

-----------------------------------------------------------------------------
(* The types of the three components, in each scene.  What a scene has no    *)
(* actor for is as it was at first.                                          *)

FaultsBounded == faults \in 0..MaxFaults

AttemptsAtRest ==
  /\ active = NoAttempt /\ closed = {} /\ chain = <<"boot">> /\ sweep = Idle /\ built = <<>>
  /\ harness = [h \in Harness |-> [next |-> "look", saw |-> "nothing"]]

RestInv == FaultsBounded /\ (scene # "writers" => AttemptsAtRest)

LEMMA RestInvAtFirst == Init => RestInv
<1> SUFFICES ASSUME Init PROVE RestInv
  OBVIOUS
<1>1. faults = 0 /\ 0 \in 0..MaxFaults
  BY LedgerAssumption DEF Init, LedgerInit
<1>2. scene # "writers" => AttemptsAtRest
  BY DEF Init, AttemptInit, AttemptsAtRest
<1> QED
  BY <1>1, <1>2 DEF RestInv, FaultsBounded

(* Whatever happens, a fault is counted or there was none.                   *)
LEMMA FaultOrNone ==
  ASSUME [Next]_vars
  PROVE  Fault \/ UNCHANGED faults
<1>1. CASE WriterScene
  <2>1. CASE SweepNext
    BY <2>1 DEF SweepNext, SweepBegins, SweepReads, SweepCloses, SweepCompletes, Truncated, BootSweepAgain, ledgerVars
  <2>2. CASE ReadFails \/ Crash
    BY <2>2 DEF ReadFails, Crash
  <2>3. ASSUME NEW e \in flight, Delivered(e) \/ Fails(e) \/ GivesUp(e) PROVE Fault \/ UNCHANGED faults
    BY <2>3 DEF Delivered, Fails, GivesUp, ledgerVars
  <2>6. \A p \in Partition : Catches(p) => Fault \/ UNCHANGED faults
    BY DEF Catches
  <2>4. ASSUME NEW o \in Outcome, Observe(o) PROVE UNCHANGED faults
    BY <2>4 DEF Observe, ledgerVars
  <2>5. ASSUME NEW h \in Harness, HarnessNext(h) PROVE Fault \/ UNCHANGED faults
    BY <2>5 DEF HarnessNext, Look, Clear, StartAttempt, Watch, EndAttempt, ledgerVars
  <2> QED
    BY <1>1, <2>1, <2>2, <2>3, <2>4, <2>5, <2>6 DEF WriterScene, AttemptNext
<1>2. CASE ReaderScene
  <2>1. ASSUME NEW p \in Partition, Record(p) \/ Acknowledge(p) \/ ScriptGoesOn(p) PROVE UNCHANGED faults
    BY <2>1 DEF Record, Acknowledge, ScriptGoesOn
  <2>2. CASE LedgerRestarts
    BY <2>2 DEF LedgerRestarts
  <2>3. CASE MindNext
    BY <2>3 DEF MindNext, Rehydrates, RehydrateFails, MindRestarts, Hears, ledgerVars
  <2>4. CASE BoardNext
    BY <2>4 DEF BoardNext, BoardSeeksNewest, BoardReadsSlice, BoardConnects, Broadcast, ClientDropped, ledgerVars
  <2> QED
    BY <1>2, <2>1, <2>2, <2>3, <2>4 DEF ReaderScene, LedgerNext, Ingests
<1>3. CASE UNCHANGED vars
  BY <1>3 DEF vars, ledgerVars
<1> QED
  BY <1>1, <1>2, <1>3 DEF Next

LEMMA RestInvStays == RestInv /\ [Next]_vars => RestInv'
<1> SUFFICES ASSUME RestInv, [Next]_vars PROVE RestInv'
  OBVIOUS
<1>1. FaultsBounded'
  <2>1. MaxFaults \in Nat /\ faults \in 0..MaxFaults
    BY LedgerAssumption DEF RestInv, FaultsBounded
  <2> QED
    BY <2>1, FaultOrNone DEF Fault, FaultsBounded
<1>2. (scene # "writers" => AttemptsAtRest)'
  <2>1. UNCHANGED scene /\ (scene # "writers" => UNCHANGED attemptVars)
    BY DEF Next, vars
  <2> QED
    BY <2>1 DEF RestInv, AttemptsAtRest, attemptVars, NoAttempt, Idle
<1> QED
  BY <1>1, <1>2 DEF RestInv

LEMMA AttemptsAreTyped ==
  ASSUME SweepInv, RestInv
  PROVE  AttemptTypeOK
<1>1. CASE scene = "writers"
  <2>1. Base /\ Story /\ Guard
    BY <1>1 DEF SweepInv, SliceInv
  <2>2. Begun \in Nat /\ 1..Begun \subseteq Attempt
    BY <2>1, BegunAreAttempts
  <2>3. active.attempt \in 0..Begun /\ closed \subseteq 1..Begun
    BY <2>1 DEF Base, Known
  <2>4. active.attempt \in {0} \union Attempt /\ closed \subseteq Attempt
    <3>1. \A k \in 0..Begun : k = 0 \/ k \in 1..Begun
      BY <2>2
    <3> QED
      BY <2>2, <2>3, <3>1
  <2>5. active.attempt \notin closed
    BY <2>1 DEF Guard, KeptEnd, Story
  <2>6. active.fired \subseteq Team \X Rung
    BY <2>1 DEF Base, Typed
  <2>7. Range(chain) \subseteq Harness \union {"boot"}
    BY <2>1, InRange DEF Base, Typed
  <2>8. sweep.stage \in {"idle", "reading", "closing", "sending"}
    BY <2>1 DEF Base, Typed, SweepType
  <2>9. \A h \in Harness : harness[h].next \in {"look", "clear", "start", "guard", "watch", "end", "over"}
    BY <2>1 DEF Base, Typed, Steps
  <2>10. \A i \in DOMAIN built : built[i].n = i
    BY <2>1 DEF Base, Numbered
  <2> QED
    BY <2>4, <2>5, <2>6, <2>7, <2>8, <2>9, <2>10 DEF AttemptTypeOK
<1>2. CASE scene # "writers"
  <2>1. AttemptsAtRest
    BY <1>2 DEF RestInv
  <2>2. active.attempt = 0 /\ active.fired = {} /\ closed = {} /\ sweep.stage = "idle"
    BY <2>1 DEF AttemptsAtRest, NoAttempt, Idle
  <2>3. Range(chain) = {"boot"} /\ DOMAIN built = {}
    BY <2>1 DEF AttemptsAtRest, Range
  <2>4. \A h \in Harness : harness[h].next = "look"
    BY <2>1 DEF AttemptsAtRest
  <2> QED
    BY <2>2, <2>3, <2>4 DEF AttemptTypeOK
<1> QED
  BY <1>1, <1>2

LEMMA LedgerIsTyped ==
  ASSUME SweepInv, BoardInv, RestInv
  PROVE  LedgerTypeOK
<1>1. LedgerInv
  BY DEF SweepInv, SliceInv
<1>2. Len(feed) <= QueueLimit
  <2>1. CASE scene = "board"
    BY <2>1 DEF BoardInv, BoardGoes, BoardShape
  <2>2. CASE scene # "board"
    <3>1. feed = <<>> /\ QueueLimit \in Nat
      BY <2>2, LedgerAssumption DEF BoardInv
    <3> QED
      BY <3>1
  <2> QED
    BY <2>1, <2>2
<1> QED
  BY <1>1, <1>2 DEF LedgerInv, AllWritten, LedgerTypeOK, RestInv, FaultsBounded

LEMMA ReadersAreTyped ==
  ASSUME SweepInv, MindInv, BoardInv
  PROVE  ReaderTypeOK
<1>1. PICK S : topic \in [Partition -> Seq(S)]
  BY DEF SweepInv, SliceInv, LedgerInv
<1>2. \A p \in Partition : Len(topic[p]) \in Nat
  BY <1>1
<1>3. mind.stage \in {"replaying", "live"} /\ \A p \in Partition : heard[p] \in 0..Len(topic[p])
  <2>1. CASE scene = "minds"
    <3>1. mind.stage \in {"replaying", "live"} /\ \A p \in Partition : heard[p] \in Nat /\ heard[p] <= Len(topic[p])
      BY <2>1 DEF MindInv, MindShape
    <3> QED
      BY <1>2, <3>1
  <2>2. CASE scene # "minds"
    <3>1. mind.stage = "replaying" /\ \A p \in Partition : heard[p] = 0
      BY <2>2 DEF MindInv, MindReborn
    <3> QED
      BY <1>2, <3>1
  <2> QED
    BY <2>1, <2>2
<1>4. board.stage \in Stages /\ (emitters # {} => board.stage = "live")
  <2>1. CASE scene = "board"
    BY <2>1 DEF BoardInv, BoardGoes, BoardShape
  <2>2. CASE scene # "board"
    BY <2>2 DEF BoardInv, BoardClosed, Stages
  <2> QED
    BY <2>1, <2>2
<1> QED
  BY <1>3, <1>4 DEF ReaderTypeOK, Stages

(* The types of the race, in every scene: offsets within their topic, a feed *)
(* within its capacity, faults within their bound, every attempt anybody     *)
(* speaks of among those the scripts can start, a live attempt this process  *)
(* has never closed (attemptTracker.ts), and a client on the feed only when  *)
(* the board's bootstrap is through (hooks.ts).                              *)
THEOREM RaceKeepsItsTypes == Spec => []TypeOK
<1> DEFINE RaceInv == SweepInv /\ RowsInv /\ MindInv /\ BoardInv /\ RestInv
<1>1. Init => RaceInv
  BY SweepInvAtFirst, MindInvAtFirst, BoardInvAtFirst, RestInvAtFirst
<1>2. RaceInv /\ [Next]_vars => RaceInv'
  <2>1. SweepInv => SliceInv
    BY DEF SweepInv
  <2>2. SweepInv' => SliceInv'
    BY DEF SweepInv
  <2> QED
    BY <2>1, <2>2, SweepInvStays, RowsInvStays, MindInvStays, BoardInvStays, RestInvStays
<1>3. RaceInv => TypeOK
  BY AttemptsAreTyped, LedgerIsTyped, ReadersAreTyped DEF TypeOK
<1> QED
  BY <1>1, <1>2, <1>3, PTL DEF Spec
=============================================================================
