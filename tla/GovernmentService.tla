------------------------- MODULE GovernmentService -------------------------
(***************************************************************************)
(* government-service: elections opened over REST, candidacies and votes    *)
(* from the commands.government topic, votes over REST, and the scheduled   *)
(* clock that drives the phases.  Every handler is one database transaction *)
(* that locks its election's row; its events are sent after the commit, by  *)
(* the thread that committed and with the lock already released.            *)
(*                                                                         *)
(* A thread is a request that opens an election (named by the election), a  *)
(* REST caller, the Kafka listener or the clock.  Faults: the process       *)
(* crashes, a send is lost, a transaction rolls back.                       *)
(***************************************************************************)
EXTENDS ElectionRules, Bags, SequencesExt

CONSTANTS
  Villager,
  Election,
  Command,    \* commandIds
  Topic,      \* [Villager -> Seq(Command)]: each villager's partition, in order
  Request,    \* [Command -> what it asks]
  Caller,     \* REST clients
  Call,       \* [Caller -> the vote it casts, as often as it likes]
  Opening,    \* [Election -> delay, window lengths and seeded candidates]
  None,       \* no villager, no election, no thread
  Horizon,    \* bound on the clock
  MaxFaults   \* bound on the faults

Ballot == [election : Election, voter : Villager, candidate : Villager]

ASSUME GovernmentAssumption ==
  /\ Topic \in [Villager -> Seq(Command)]
  /\ Request \in [Command -> [action : {"vote", "declare_candidacy", "poison"}, villager : Villager,
                              election : Election \union {None}, candidate : Villager \union {None}]]
  /\ Call \in [Caller -> Ballot]
  /\ \A e \in Election : /\ Opening[e].delay \in Nat
                         /\ Opening[e].nominating \in Nat \ {0} /\ Opening[e].voting \in Nat \ {0}
                         /\ Opening[e].seeds \in Seq(Villager)
  /\ IsFiniteSet(Villager) /\ IsFiniteSet(Election)
  /\ None \notin Villager \union Election \union Command \union Caller \union {"listener", "clock"}
  /\ Election \intersect Caller = {} /\ {"listener", "clock"} \intersect (Election \union Caller) = {}
  /\ Horizon \in Nat /\ MaxFaults \in Nat

Thread == Election \union Caller \union {"listener", "clock"}

VARIABLES
  status,      \* elections.status; "none" before the row is inserted
  startsAt,    \* elections.starts_at; the other boundaries follow from Opening
  opened,      \* the elections in order of created_at
  candidates,  \* candidates of an election in order of registered_at, then of id
  votes,       \* votes: [voter -> candidate or None], the natural key
  winner,      \* elections.winner_candidate_id
  counted,     \* history: how many votes the decision counted
  mayors,      \* governments of type 'mayoralty', in order of established_at
  processed,   \* processed_commands
  offset,      \* the listener's committed offset in each partition
  ledger,      \* the bag of events on government.events
  gaps,        \* events that were to be sent and never will be
  pc,          \* idle, locked (in its transaction) or sending (after commit)
  lock,        \* the row lock of an election: its holder
  seen,        \* the status a transaction read under the lock
  outbox,      \* the events a committed thread has still to send
  handling,    \* the villager whose record the listener is handling
  pass,        \* the elections the clock's pass has still to advance
  tick,        \* the instant the pass was started with
  now,         \* wall clock
  faults       \* faults so far

electionVars == <<status, startsAt, opened, candidates, votes, winner, counted>>
busVars      == <<offset, ledger, gaps>>
threadVars   == <<pc, lock, seen, outbox, handling>>
clockVars    == <<pass, tick>>
vars == <<electionVars, mayors, processed, busVars, threadVars, clockVars, now, faults>>

Event(type, e, v, c) == [type |-> type, election |-> e, villager |-> v, command |-> c]

NominatingEndsAt(e) == startsAt[e] + Opening[e].nominating
EndsAt(e)           == NominatingEndsAt(e) + Opening[e].voting

Init ==
  /\ status = [e \in Election |-> "none"]
  /\ startsAt = [e \in Election |-> 0]
  /\ opened = <<>>
  /\ candidates = [e \in Election |-> <<>>]
  /\ votes = [e \in Election |-> [v \in Villager |-> None]]
  /\ winner = [e \in Election |-> None]
  /\ counted = [e \in Election |-> 0]
  /\ mayors = <<>> /\ processed = {}
  /\ offset = [v \in Villager |-> 0]
  /\ ledger = EmptyBag /\ gaps = {}
  /\ pc = [t \in Thread |-> "idle"]
  /\ lock = [e \in Election |-> None]
  /\ seen = [t \in Thread |-> "none"]
  /\ outbox = [t \in Thread |-> <<>>]
  /\ handling = None
  /\ pass = <<>> /\ tick = 0 /\ now = 0 /\ faults = 0

-----------------------------------------------------------------------------
(* Transactions.                                                           *)

(* SELECT ... FOR UPDATE: waits for the row and reads it.                   *)
LockElection(t, e) ==
  /\ pc[t] = "idle" /\ status[e] # "none"
  /\ lock[e] = None
  /\ lock' = [lock EXCEPT ![e] = t]
  /\ seen' = [seen EXCEPT ![t] = status[e]]
  /\ pc' = [pc EXCEPT ![t] = "locked"]

(* The transaction ends: the lock is released, and the events registered    *)
(* for after the commit are what the thread does next.                      *)
End(t, e, events) ==
  /\ pc[t] = "locked"
  /\ lock' = [lock EXCEPT ![e] = IF @ = t THEN None ELSE @]
  /\ seen' = [seen EXCEPT ![t] = "none"]
  /\ outbox' = [outbox EXCEPT ![t] = events]
  /\ pc' = [pc EXCEPT ![t] = "sending"]

(* KafkaGovernmentEvents.send, in the order of registration.  A failed send *)
(* is only logged.                                                          *)
Send(t) ==
  /\ pc[t] = "sending" /\ outbox[t] # <<>>
  /\ outbox' = [outbox EXCEPT ![t] = Tail(@)]
  /\ \/ /\ ledger' = ledger (+) SetToBag({Head(outbox[t])})
        /\ UNCHANGED <<gaps, faults>>
     \/ /\ faults < MaxFaults
        /\ faults' = faults + 1
        /\ gaps' = gaps \union {Head(outbox[t])}
        /\ UNCHANGED ledger
  /\ UNCHANGED <<electionVars, mayors, processed, offset, pc, lock, seen, handling, clockVars, now>>

(* Mutant: a record is acknowledged together with the one behind it.        *)
Acked_Batch(v) == [offset EXCEPT ![v] = @ + 2]

(* ack-mode: record.                                                        *)
Acked(v) == [offset EXCEPT ![v] = @ + 1]

(* Everything is sent: a request answers, the clock turns to its next       *)
(* election, the listener acknowledges its record.                          *)
Return(t) ==
  /\ pc[t] = "sending" /\ outbox[t] = <<>>
  /\ pc' = [pc EXCEPT ![t] = "idle"]
  /\ \/ t = "listener" /\ offset' = Acked(handling) /\ handling' = None /\ UNCHANGED pass
     \/ t = "clock" /\ pass' = Tail(pass) /\ UNCHANGED <<offset, handling>>
     \/ t \notin {"listener", "clock"} /\ UNCHANGED <<offset, handling, pass>>
  /\ UNCHANGED <<electionVars, mayors, processed, ledger, gaps, lock, seen, outbox, tick, now, faults>>

-----------------------------------------------------------------------------
(* ElectionService.open: no lock, one transaction.  The seeds share one     *)
(* registered_at and their ids are random within a millisecond, so their    *)
(* rank in a tie may be any.                                                *)

(* Mutant: the seeded candidacies are emitted before the announcement.      *)
Announcement_SeedsFirst(e) ==
  [i \in DOMAIN Opening[e].seeds |-> Event("CandidateNominated", e, Opening[e].seeds[i], None)]
    \o <<Event("ElectionStarted", e, None, None)>>

Announcement(e) ==
  <<Event("ElectionStarted", e, None, None)>>
    \o [i \in DOMAIN Opening[e].seeds |-> Event("CandidateNominated", e, Opening[e].seeds[i], None)]

Open(e) ==
  /\ status[e] = "none"
  /\ now + Opening[e].delay + Opening[e].nominating + Opening[e].voting <= Horizon
  /\ status' = [status EXCEPT ![e] = "scheduled"]
  /\ startsAt' = [startsAt EXCEPT ![e] = now + Opening[e].delay]
  /\ opened' = Append(opened, e)
  /\ \E ranked \in SetToSeqs(ToSet(Opening[e].seeds)) :
       candidates' = [candidates EXCEPT ![e] = ranked]
  /\ outbox' = [outbox EXCEPT ![e] = Announcement(e)]
  /\ pc' = [pc EXCEPT ![e] = "sending"]
  /\ UNCHANGED <<votes, winner, counted, mayors, processed, busVars, lock, seen, handling, clockVars, now, faults>>

-----------------------------------------------------------------------------
(* Votes.                                                                  *)

HasVoted(e, v)    == votes[e][v] # None
IsCandidate(e, v) == \E i \in DOMAIN candidates[e] : candidates[e][i] = v

InsertVote(e, v, candidate) == votes' = [votes EXCEPT ![e][v] = candidate]

(* Mutant: the election is read without FOR UPDATE.                         *)
RestLocks_PlainRead(r) ==
  LET e == Call[r].election
  IN  /\ pc[r] = "idle" /\ status[e] # "none"
      /\ seen' = [seen EXCEPT ![r] = status[e]]
      /\ pc' = [pc EXCEPT ![r] = "locked"]
      /\ UNCHANGED <<electionVars, mayors, processed, busVars, lock, outbox, handling, clockVars, now, faults>>

(* ElectionService.cast, over REST.  A client may repeat its call.          *)
RestLocks(r) ==
  /\ LockElection(r, Call[r].election)
  /\ UNCHANGED <<electionVars, mayors, processed, busVars, outbox, handling, clockVars, now, faults>>

(* Mutant: a replayed vote is announced again.                              *)
RestCasts_ReplayEmits(r) ==
  LET b == Call[r]
  IN  /\ \/ /\ HasVoted(b.election, b.voter)
            /\ End(r, b.election, <<Event("VoteCast", b.election, b.voter, None)>>)
            /\ UNCHANGED votes
         \/ /\ ~HasVoted(b.election, b.voter) /\ seen[r] = "voting" /\ IsCandidate(b.election, b.candidate)
            /\ InsertVote(b.election, b.voter, b.candidate)
            /\ End(r, b.election, <<Event("VoteCast", b.election, b.voter, None)>>)
      /\ UNCHANGED <<status, startsAt, opened, candidates, winner, counted, mayors, processed, busVars,
                     handling, clockVars, now, faults>>

RestCasts(r) ==
  LET b == Call[r]
      accepted == /\ ~HasVoted(b.election, b.voter)
                  /\ seen[r] = "voting"
                  /\ IsCandidate(b.election, b.candidate)
  IN  /\ \/ /\ accepted
            /\ InsertVote(b.election, b.voter, b.candidate)
            /\ End(r, b.election, <<Event("VoteCast", b.election, b.voter, None)>>)
         \/ /\ ~accepted
            /\ End(r, b.election, <<>>)
            /\ UNCHANGED votes
      /\ UNCHANGED <<status, startsAt, opened, candidates, winner, counted, mayors, processed, busVars,
                     handling, clockVars, now, faults>>

-----------------------------------------------------------------------------
(* GovernanceCommandService.handle, for the record the listener is at.     *)

HasNext(v) == offset[v] < Len(Topic[v])
Record(v)  == Topic[v][offset[v] + 1]

(* A mind asks about an election it was told of, or about none there is.    *)
Published(v) ==
  /\ HasNext(v)
  /\ LET e == Request[Record(v)].election
     IN  e # None => BagIn(Event("ElectionStarted", e, None, None), ledger)

(* Mutant: the claim is not kept, so every delivery is the first.           *)
Claims_EveryDelivery(c) == TRUE

(* INSERT ... ON CONFLICT DO NOTHING, inside the handling transaction.      *)
Claims(c) == c \notin processed

(* A message that is no command is parked, a command already processed is   *)
(* done: nothing is written and the record is acknowledged.                 *)
PassOver(v) ==
  /\ pc["listener"] = "idle" /\ Published(v)
  /\ Request[Record(v)].action = "poison" \/ ~Claims(Record(v))
  /\ offset' = Acked(v)
  /\ UNCHANGED <<electionVars, mayors, processed, ledger, gaps, threadVars, clockVars, now, faults>>

Outcome(type, c) == Event(type, Request[c].election, Request[c].villager, c)

(* Too old, or naming an election that is no id or has no row: rejected     *)
(* with no row locked.                                                      *)
RejectUnread(v) ==
  /\ pc["listener"] = "idle" /\ Published(v)
  /\ Request[Record(v)].action # "poison" /\ Claims(Record(v))
  /\ processed' = processed \union {Record(v)}
  /\ handling' = v
  /\ outbox' = [outbox EXCEPT !["listener"] = <<Outcome("GovernanceRejected", Record(v))>>]
  /\ pc' = [pc EXCEPT !["listener"] = "sending"]
  /\ UNCHANGED <<electionVars, mayors, busVars, lock, seen, clockVars, now, faults>>

ListenerLocks(v) ==
  /\ Published(v)
  /\ LET c == Record(v)
     IN  /\ Request[c].action # "poison" /\ Claims(c) /\ Request[c].election # None
         /\ LockElection("listener", Request[c].election)
  /\ handling' = v
  /\ UNCHANGED <<electionVars, mayors, processed, busVars, outbox, clockVars, now, faults>>

(* The rest of vote() and declareCandidacy(): every guard, then the row and *)
(* the outcome in the transaction that also holds the claim.                *)
ListenerHandles ==
  /\ pc["listener"] = "locked"
  /\ LET c == Record(handling)  q == Request[c]  e == q.election
         votes_ok    == /\ q.action = "vote" /\ ~HasVoted(e, q.villager)
                        /\ seen["listener"] = "voting"
                        /\ IsCandidate(e, q.candidate)
         declares_ok == /\ q.action = "declare_candidacy" /\ ~IsCandidate(e, q.villager)
                        /\ seen["listener"] = "nominating"
     IN  /\ processed' = processed \union {c}
         /\ \/ /\ votes_ok
               /\ InsertVote(e, q.villager, q.candidate)
               /\ End("listener", e, <<Outcome("VoteCast", c)>>)
               /\ UNCHANGED candidates
            \/ /\ declares_ok
               /\ candidates' = [candidates EXCEPT ![e] = Append(@, q.villager)]
               /\ End("listener", e, <<Outcome("CandidateNominated", c)>>)
               /\ UNCHANGED votes
            \/ /\ ~votes_ok /\ ~declares_ok
               /\ End("listener", e, <<Outcome("GovernanceRejected", c)>>)
               /\ UNCHANGED <<candidates, votes>>
  /\ UNCHANGED <<status, startsAt, opened, winner, counted, mayors, busVars, handling, clockVars, now, faults>>

-----------------------------------------------------------------------------
(* ElectionService.advance: the scheduled clock.                           *)

OpenedBefore(e, f) == \E i, j \in DOMAIN opened : opened[i] = e /\ opened[j] = f /\ i < j

(* One pass per tick, over the elections that were active when it began, in *)
(* the order of created_at.                                                 *)
ClockTicks ==
  /\ pc["clock"] = "idle" /\ pass = <<>>
  /\ pass' \in SetToSeqs({e \in Election : status[e] \in Active})
  /\ pass' # <<>>
  /\ \A i, j \in DOMAIN pass' : i < j => OpenedBefore(pass'[i], pass'[j])
  /\ tick' = now
  /\ UNCHANGED <<electionVars, mayors, processed, busVars, threadVars, now, faults>>

ClockLocks ==
  /\ pass # <<>> /\ LockElection("clock", Head(pass))
  /\ UNCHANGED <<electionVars, mayors, processed, busVars, outbox, handling, clockVars, now, faults>>

VoteCounts(e)  == [v \in Villager |-> Cardinality({w \in Villager : votes[e][w] = v})]
VotesStored(e) == Cardinality({w \in Villager : HasVoted(e, w)})

(* Mutant: an election without votes waits for one.                         *)
Enter_WaitsForVotes(e) ==
  [s \in Status |->
     LET due == DuePhase(s, tick, startsAt[e], NominatingEndsAt(e), EndsAt(e))
     IN  CASE due = "voting"  /\ candidates[e] = <<>>  -> "annulled"
           [] due = "decided" /\ VotesStored(e) = 0    -> s
           [] due = "stay" -> s
           [] OTHER -> due]

(* One turn of advanceOne's loop, from the status s: an election nobody     *)
(* entered, or nobody voted in, is annulled.                                *)
Enter(e) ==
  [s \in Status |->
     LET due == DuePhase(s, tick, startsAt[e], NominatingEndsAt(e), EndsAt(e))
     IN  CASE due = "voting"  /\ candidates[e] = <<>>  -> "annulled"
           [] due = "decided" /\ VotesStored(e) = 0    -> "annulled"
           [] due = "stay" -> s
           [] OTHER -> due]

(* A clock that slept cascades through the phases, at most three.           *)
Cascade(e) == Enter(e)[Enter(e)[Enter(e)[status[e]]]]

(* The new government dissolves the incumbent.                              *)
Seat(m) ==
  LET newest(i) == \A j \in DOMAIN mayors : mayors[j].active => j <= i
  IN  Append([i \in DOMAIN mayors |-> [mayors[i] EXCEPT !.active = @ /\ ~newest(i)]],
             [mayor |-> m, active |-> TRUE])

ClockAdvances ==
  /\ pc["clock"] = "locked"
  /\ LET e == Head(pass)
         w == Winner(candidates[e], VoteCounts(e))
     IN  /\ status' = [status EXCEPT ![e] = Cascade(e)]
         /\ \/ /\ Cascade(e) = "decided" /\ seen["clock"] # "decided"
               /\ winner' = [winner EXCEPT ![e] = w]
               /\ counted' = [counted EXCEPT ![e] = VotesStored(e)]
               /\ mayors' = Seat(w)
               /\ End("clock", e, <<Event("ElectionDecided", e, w, None)>>)
            \/ /\ Cascade(e) # "decided" \/ seen["clock"] = "decided"
               /\ End("clock", e, <<>>)
               /\ UNCHANGED <<winner, counted, mayors>>
  /\ UNCHANGED <<startsAt, opened, candidates, votes, processed, busVars, handling, clockVars, now, faults>>

-----------------------------------------------------------------------------
(* Faults and time.                                                        *)

(* The database fails a transaction: it rolls back.  The listener retries   *)
(* the record, the clock moves on to the next election, a client gets 500.  *)
RollsBack(t) ==
  /\ faults < MaxFaults
  /\ pc[t] = "locked"
  /\ faults' = faults + 1
  /\ pc' = [pc EXCEPT ![t] = "idle"]
  /\ lock' = [e \in Election |-> IF lock[e] = t THEN None ELSE lock[e]]
  /\ seen' = [seen EXCEPT ![t] = "none"]
  /\ handling' = IF t = "listener" THEN None ELSE handling
  /\ pass' = IF t = "clock" THEN Tail(pass) ELSE pass
  /\ UNCHANGED <<electionVars, mayors, processed, busVars, outbox, tick, now>>

(* The process dies and restarts: open transactions roll back, the events   *)
(* of committed ones that were not sent yet are never sent.                 *)
Crash ==
  /\ faults < MaxFaults
  /\ faults' = faults + 1
  /\ gaps' = gaps \union UNION {ToSet(outbox[t]) : t \in Thread}
  /\ pc' = [t \in Thread |-> "idle"]
  /\ lock' = [e \in Election |-> None]
  /\ seen' = [t \in Thread |-> "none"]
  /\ outbox' = [t \in Thread |-> <<>>]
  /\ handling' = None
  /\ pass' = <<>> /\ tick' = 0
  /\ UNCHANGED <<electionVars, mayors, processed, offset, ledger, now>>

TimePasses ==
  /\ now < Horizon
  /\ now' = now + 1
  /\ UNCHANGED <<electionVars, mayors, processed, busVars, threadVars, clockVars, faults>>

Next ==
  \/ \E e \in Election : Open(e)
  \/ \E r \in Caller : RestLocks(r) \/ RestCasts(r)
  \/ \E v \in Villager : PassOver(v) \/ RejectUnread(v) \/ ListenerLocks(v)
  \/ ListenerHandles
  \/ ClockTicks \/ ClockLocks \/ ClockAdvances
  \/ \E t \in Thread : Send(t) \/ Return(t) \/ RollsBack(t)
  \/ Crash \/ TimePasses

(* What a thread does without waiting for anything.                         *)
Runs(t) ==
  \/ Send(t) \/ Return(t)
  \/ t \in Caller /\ RestCasts(t)
  \/ t = "listener" /\ ListenerHandles
  \/ t = "clock" /\ (ClockTicks \/ ClockAdvances)

(* Threads run, the scheduler ticks and time passes.  PostgreSQL queues the *)
(* transactions waiting for a row, so the clock's turn at it comes (SF).    *)
(* No client, operator or mind is assumed to do anything.                   *)
Fairness ==
  /\ WF_vars(TimePasses) /\ SF_vars(ClockLocks)
  /\ \A t \in Thread : WF_vars(Runs(t))

Spec     == Init /\ [][Next]_vars
FairSpec == Spec /\ Fairness

-----------------------------------------------------------------------------
(* Properties.                                                             *)

(* Types, and no partition is acknowledged past its end.                    *)
TypeOK ==
  /\ status \in [Election -> Status \union {"none"}]
  /\ startsAt \in [Election -> 0..Horizon]
  /\ opened \in Seq(Election)
  /\ candidates \in [Election -> Seq(Villager)]
  /\ votes \in [Election -> [Villager -> Villager \union {None}]]
  /\ winner \in [Election -> Villager \union {None}]
  /\ counted \in [Election -> Nat]
  /\ mayors \in Seq([mayor : Villager, active : BOOLEAN])
  /\ processed \subseteq Command
  /\ \A v \in Villager : offset[v] \in 0..Len(Topic[v])
  /\ pc \in [Thread -> {"idle", "locked", "sending"}]
  /\ lock \in [Election -> Thread \union {None}]
  /\ seen \in [Thread -> Status \union {"none"}]
  /\ handling \in Villager \union {None}
  /\ pass \in Seq(Election)
  /\ tick \in 0..Horizon /\ now \in 0..Horizon /\ faults \in 0..MaxFaults

Decided(e) == status[e] = "decided"

(* "A vote either lands before the tally or is rejected, never an uncounted *)
(* row behind a decided election" (ElectionService.cast): what was decided  *)
(* counted every vote there is.                                             *)
TallyIsFinal ==
  \A e \in Election :
    Decided(e) => /\ counted[e] = VotesStored(e)
                  /\ \A v \in ToSet(candidates[e]) : VoteCounts(e)[v] <= VoteCounts(e)[winner[e]]

(* First to declare: of the candidates with the most votes, the winner was  *)
(* registered first (CandidateTally).                                       *)
FirstToDeclare ==
  \A e \in Election :
    Decided(e) => \A i, j \in DOMAIN candidates[e] :
      /\ candidates[e][i] = winner[e]
      /\ VoteCounts(e)[candidates[e][j]] = VoteCounts(e)[winner[e]]
      => i <= j

(* "A village has one mayor": the one seated last, for an election that     *)
(* elected them; every decided election seated one.                         *)
OneMayor ==
  /\ \A i \in DOMAIN mayors : mayors[i].active <=> i = Len(mayors)
  /\ Len(mayors) = Cardinality({e \in Election : Decided(e)})
  /\ \A i \in DOMAIN mayors : \E e \in Election : Decided(e) /\ winner[e] = mayors[i].mayor

OutcomesOf(c)      == {o \in BagToSet(ledger) : o.command = c}
CopiesOf(events)   == {p \in events \X (1..(MaxFaults + 2)) : p[2] <= ledger[p[1]]}

(* "Exactly-one-outcome under Kafka's at-least-once delivery": never two,   *)
(* and none without the claim (V2__processed_commands.sql).                 *)
OneOutcomeAtMost ==
  \A c \in Command : /\ Cardinality(CopiesOf(OutcomesOf(c))) <= 1
                     /\ OutcomesOf(c) # {} => c \in processed

VoteEvents(e, v) == {o \in BagToSet(ledger) : o.type = "VoteCast" /\ o.election = e /\ o.villager = v}

(* However the vote came, over REST, by command or by both, the ledger has  *)
(* at most one VoteCast for it, and none without the row.                   *)
VoteCastOnce ==
  \A e \in Election, v \in Villager :
    /\ Cardinality(CopiesOf(VoteEvents(e, v))) <= 1
    /\ VoteEvents(e, v) # {} => HasVoted(e, v)

(* A candidacy is never on the ledger ahead of the election it belongs to,  *)
(* unless the announcement itself was lost (ElectionService.open).          *)
AnnouncedFirst ==
  \A o \in BagToSet(ledger) :
    o.type = "CandidateNominated" =>
      LET started == Event("ElectionStarted", o.election, None, None)
      IN  BagIn(started, ledger) \/ started \in gaps

(* Every election ends, decided or annulled, whatever fails on the way.     *)
ElectionsEnd == \A e \in Election : status[e] # "none" ~> status[e] \in Terminal

(* VoteCast is "emitted EXACTLY ONCE per stored vote" (VoteCast_v1.ts).     *)
EveryVoteAnnounced ==
  \A e \in Election, v \in Villager : HasVoted(e, v) ~> VoteEvents(e, v) # {}
=============================================================================
