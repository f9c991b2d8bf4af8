------------------------------- MODULE Ledger -------------------------------
(***************************************************************************)
(* event-service: the ledger.  Producers append to the partitions of       *)
(* world.events; the batch listener parks what is no envelope, writes the  *)
(* rest of a batch in one statement that ignores known event ids, and only *)
(* then acknowledges it.  Readers page through the table in (occurred_at,  *)
(* event_id) order.  Fresh rows are offered to the live feed, which one    *)
(* thread works off and which forgets its oldest when it is full.          *)
(*                                                                         *)
(* An event carries n, its place in that order: ids are UUIDv7 and both    *)
(* fields are taken when the event is built, so the order is the order of  *)
(* building, which is not the order of arrival.                            *)
(***************************************************************************)
EXTENDS Naturals, Sequences, FiniteSets, FiniteSetsExt, SequencesExt

CONSTANTS
  Partition,   \* the partitions of world.events that attempts hash to
  Poisoned,    \* the partitions whose first record is not an envelope
  PageLimit,   \* rows of a page (EventFilter.MAX_LIMIT)
  QueueLimit,  \* capacity of the live feed's queue
  MaxFaults    \* bound on restarts, lost answers and refused sends

ASSUME LedgerAssumption ==
  /\ Poisoned \subseteq Partition
  /\ PageLimit \in Nat \ {0} /\ QueueLimit \in Nat \ {0}
  /\ MaxFaults \in Nat

VARIABLES
  topic,     \* [Partition -> Seq(record)]: world.events
  acked,     \* [Partition -> Nat]: the group's committed offset
  written,   \* [Partition -> Nat]: end of the batch last written
  stored,    \* rows of the table
  emitters,  \* clients connected to the live feed
  feed,      \* events waiting for the live feed's thread
  shed,      \* the feed's queue has dropped an event
  faults     \* faults so far

ingestVars == <<acked, written, stored>>
feedVars   == <<emitters, feed, shed>>
ledgerVars == <<topic, acked, written, stored, emitters, feed, shed, faults>>

\* A record the mapper refuses.
Poison == [n |-> 0, type |-> "poison"]

-----------------------------------------------------------------------------
(* The topic, as its producers and consumers see it. *)

Published(p, e) == topic' = [topic EXCEPT ![p] = Append(@, e)]

OnTopic == (UNION {Range(topic[p]) : p \in Partition}) \ {Poison}

Fault == faults < MaxFaults /\ faults' = faults + 1

-----------------------------------------------------------------------------
(* Keyset queries: the rows of some types after a cursor, one page of them. *)

\* Some rows as the index has them: one with k before it is the next after k.
InOrder(events) ==
  [k \in 1..Cardinality(events) |->
     CHOOSE e \in events : Cardinality({d \in events : d.n < e.n}) = k - 1]

Matching(types, cursor) == {e \in stored : e.type \in types /\ e.n > cursor}

Page(types, cursor) ==
  {e \in Matching(types, cursor) :
     Cardinality({d \in Matching(types, cursor) : d.n < e.n}) < PageLimit}

\* Mutant: a page that is full but for one more row is taken for the last.
HasNextPage_OneTooFew(types, cursor) == Cardinality(Matching(types, cursor)) > PageLimit + 1

HasNextPage(types, cursor) == Cardinality(Matching(types, cursor)) > PageLimit

\* The cursor a page ends with: the place of its last row.
CursorOf(page, cursor) == Max({cursor} \union {e.n : e \in page})

-----------------------------------------------------------------------------
(* Ingest. *)

\* Mutant: a poison record parks the batch it came with.
Batch_ParkedWhole(p) ==
  LET batch == Range(SubSeq(topic[p], acked[p] + 1, Len(topic[p])))
  IN  IF Poison \in batch THEN {} ELSE batch

\* A poll takes what has arrived, and a shorter batch is an earlier poll; the
\* poison is parked.
Batch(p) == Range(SubSeq(topic[p], acked[p] + 1, Len(topic[p]))) \ {Poison}

\* Mutant: the queue makes room for one event too few.
Offered_OneTooFew(fresh) ==
  LET queued == feed \o InOrder(fresh)
      excess == Max({0, Len(queued) - QueueLimit - 1})
  IN  IF emitters = {}
      THEN UNCHANGED <<feed, shed>>
      ELSE /\ feed' = SubSeq(queued, excess + 1, Len(queued))
           /\ shed' = (shed \/ excess > 0)

\* Only rows the INSERT returned are offered, and only while somebody listens;
\* a queue that refuses an event drops its head for it.
Offered(fresh) ==
  LET queued == feed \o InOrder(fresh)
      excess == Max({0, Len(queued) - QueueLimit})
  IN  IF emitters = {}
      THEN UNCHANGED <<feed, shed>>
      ELSE /\ feed' = SubSeq(queued, excess + 1, Len(queued))
           /\ shed' = (shed \/ excess > 0)

\* onMessages up to the commit of its INSERT.  A failing INSERT writes nothing
\* and the same batch is tried again, so failing is not taking the step.
Record(p) ==
  /\ written[p] = acked[p] /\ acked[p] < Len(topic[p])
  /\ stored' = stored \union Batch(p)
  /\ written' = [written EXCEPT ![p] = Len(topic[p])]
  /\ Offered(Batch(p) \ stored)
  /\ UNCHANGED <<topic, acked, emitters, faults>>

\* The listener returned: the container commits the batch.
Acknowledge(p) ==
  /\ written[p] > acked[p]
  /\ acked' = [acked EXCEPT ![p] = written[p]]
  /\ UNCHANGED <<topic, written, stored, emitters, feed, shed, faults>>

\* The process dies.  A batch written and not acknowledged comes again; the
\* clients of the feed and what it held for them are gone.
LedgerRestarts ==
  /\ Fault
  /\ written' = acked
  /\ emitters' = {} /\ feed' = <<>>
  /\ UNCHANGED <<topic, acked, stored, shed>>

-----------------------------------------------------------------------------
\* What is on the topic when it begins is the composer's to say.
LedgerInit ==
  /\ acked = [p \in Partition |-> 0]
  /\ written = [p \in Partition |-> 0]
  /\ stored = {}
  /\ emitters = {} /\ feed = <<>> /\ shed = FALSE
  /\ faults = 0

Ingests == \E p \in Partition : Record(p) \/ Acknowledge(p)

LedgerNext == Ingests \/ LedgerRestarts

-----------------------------------------------------------------------------
(* Properties. *)

LedgerTypeOK ==
  /\ acked \in [Partition -> Nat] /\ written \in [Partition -> Nat]
  /\ \A p \in Partition : acked[p] <= written[p] /\ written[p] <= Len(topic[p])
  /\ Len(feed) <= QueueLimit
  /\ faults \in 0..MaxFaults

\* The ledger loses no fact: whatever lies below a committed offset is either
\* a row or was no envelope, whatever restarts happened between the write and
\* the commit (EventEnvelopeConsumer: "backpressure over data loss").
NoFactSkipped ==
  \A p \in Partition : \A i \in 1..acked[p] :
    topic[p][i] # Poison => topic[p][i] \in stored
=============================================================================
