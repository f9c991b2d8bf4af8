-------------------------- MODULE GovernmentProofs --------------------------
(* For any villagers, elections, commands, calls, windows and faults: what a *)
(* decided election says of its votes, and whom the village obeys.           *)
EXTENDS GovernmentService, NumberLemmas, FiniteSetTheorems, SequenceTheorems, TLAPS

(* The election a thread's transaction is about, and what says so.           *)
Target(t) ==
  IF t \in Caller THEN Call[t].election
  ELSE IF t = "clock" THEN Head(pass)
  ELSE Request[Record(handling)].election

Ready(t) ==
  /\ t = "clock" => pass # <<>>
  /\ t = "listener" => handling \in Villager /\ HasNext(handling)

ThreadShape ==
  /\ opened \in Seq(Election) /\ pass \in Seq(Election)
  /\ offset \in [Villager -> Nat] /\ handling \in Villager \union {None}
  /\ pc \in [Thread -> {"idle", "locked", "sending"}]
  /\ lock \in [Election -> Thread \union {None}]
  /\ seen \in [Thread -> Status \union {"none"}]
  /\ pc["clock"] = "sending" => pass # <<>>

(* A transaction holds the row it read, and what it read is still true.      *)
Holds(t) ==
  /\ t \notin Election /\ Ready(t) /\ Target(t) \in Election
  /\ lock[Target(t)] = t
  /\ seen[t] = status[Target(t)] /\ status[Target(t)] # "none"

LocksHeld == \A t \in Thread : pc[t] = "locked" => Holds(t)

Government == [mayor : Villager, active : BOOLEAN]

FactShape ==
  /\ status \in [Election -> Status \union {"none"}]
  /\ candidates \in [Election -> Seq(Villager)]
  /\ votes \in [Election -> [Villager -> Villager \union {None}]]
  /\ winner \in [Election -> Villager \union {None}]
  /\ counted \in [Election -> Nat]
  /\ mayors \in Seq(Government)

(* Nobody stands twice, and an election is voted in only if somebody stands. *)
Standing(e) ==
  /\ \A i, j \in DOMAIN candidates[e] : candidates[e][i] = candidates[e][j] => i = j
  /\ status[e] \in {"voting", "decided"} => candidates[e] # <<>>

(* A decided election is still decided as its votes and candidates say.      *)
Settled(e) ==
  Decided(e) => /\ counted[e] = VotesStored(e)
                /\ winner[e] = Winner(candidates[e], VoteCounts(e))

Facts == FactShape /\ OneMayor /\ \A e \in Election : Standing(e) /\ Settled(e)

Threads == ThreadShape /\ LocksHeld

GovInv == Threads /\ Facts

-----------------------------------------------------------------------------
(* The tally.                                                                *)

(* Votes are counted in natural numbers, up to the number of villagers.      *)
LEMMA CountsAreBounded ==
  ASSUME NEW e
  PROVE  /\ Cardinality(Villager) \in Nat
         /\ VoteCounts(e) \in [Villager -> 0..Cardinality(Villager)]
         /\ VotesStored(e) \in Nat
<1> USE GovernmentAssumption
<1>1. Cardinality(Villager) \in Nat
  BY FS_CardinalityType
<1>2. ASSUME NEW v \in Villager
      PROVE  Cardinality({w \in Villager : votes[e][w] = v}) \in 0..Cardinality(Villager)
  <2>1. {w \in Villager : votes[e][w] = v} \in SUBSET Villager
    OBVIOUS
  <2> QED
    BY <1>1, <2>1, FS_Subset, FS_CardinalityType
<1>3. VotesStored(e) \in Nat
  <2>1. {w \in Villager : HasVoted(e, w)} \in SUBSET Villager
    OBVIOUS
  <2> QED
    BY <2>1, FS_Subset, FS_CardinalityType DEF VotesStored
<1> QED
  BY <1>1, <1>2, <1>3 DEF VoteCounts

(* There is a winner: one with the most votes, registered first of those.    *)
LEMMA WinnerIsFirstOfTheBest ==
  ASSUME NEW S, NEW c \in Seq(S), c # <<>>, NEW N \in Nat, NEW count \in [S -> 0..N]
  PROVE  \E i \in DOMAIN c :
           /\ Winner(c, count) = c[i]
           /\ \A j \in DOMAIN c : \/ count[c[i]] > count[c[j]]
                                  \/ count[c[i]] = count[c[j]] /\ i <= j
<1> DEFINE Best(i) == \A j \in DOMAIN c : \/ count[c[i]] > count[c[j]]
                                          \/ count[c[i]] = count[c[j]] /\ i <= j
           Missing == {N - count[c[i]] : i \in DOMAIN c}
<1>1. \A i \in DOMAIN c : i \in Nat /\ c[i] \in S /\ count[c[i]] \in 0..N
  OBVIOUS
<1>2. Missing \in SUBSET Nat /\ Missing # {}
  <2>1. 1 \in DOMAIN c
    OBVIOUS
  <2>2. N - count[c[1]] \in Missing
    BY <2>1
  <2>3. \A i \in DOMAIN c : N - count[c[i]] \in Nat
    BY <1>1
  <2> QED
    BY <2>2, <2>3
<1>3. PICK m \in Missing : \A n \in Missing : m <= n
  BY <1>2, LeastNumber
<1>4. PICK k \in DOMAIN c : m = N - count[c[k]]
  BY <1>3
<1>5. \A j \in DOMAIN c : count[c[k]] >= count[c[j]]
  <2>1. \A j \in DOMAIN c : N - count[c[k]] <= N - count[c[j]]
    BY <1>3, <1>4
  <2> QED
    BY <1>1, <2>1
<1> DEFINE First == {i \in DOMAIN c : count[c[i]] = count[c[k]]}
<1>6. First \in SUBSET Nat /\ First # {}
  BY <1>1, <1>4
<1>7. PICK i \in First : \A n \in First : i <= n
  BY <1>6, LeastNumber
<1>8. Best(i)
  <2>1. ASSUME NEW j \in DOMAIN c
        PROVE  \/ count[c[i]] > count[c[j]]
               \/ count[c[i]] = count[c[j]] /\ i <= j
    <3>1. CASE j \in First
      BY <1>7, <3>1
    <3>2. CASE j \notin First
      BY <1>1, <1>4, <1>5, <1>7, <3>2
    <3> QED
      BY <3>1, <3>2
  <2> QED
    BY <2>1
<1>9. i \in DOMAIN c
  BY <1>7
<1> DEFINE w == CHOOSE n \in DOMAIN c : Best(n)
<1>10. w \in DOMAIN c /\ Best(w)
  BY <1>8, <1>9
<1>11. Winner(c, count) = c[w]
  BY DEF Winner
<1> QED
  BY <1>10, <1>11

(* Both promises of a decided election follow from its being settled.        *)
LEMMA SettledIsFairlyWon ==
  ASSUME Facts, NEW e \in Election, Decided(e)
  PROVE  /\ \A v \in ToSet(candidates[e]) : VoteCounts(e)[v] <= VoteCounts(e)[winner[e]]
         /\ \A i, j \in DOMAIN candidates[e] :
              /\ candidates[e][i] = winner[e]
              /\ VoteCounts(e)[candidates[e][j]] = VoteCounts(e)[winner[e]]
              => i <= j
<1> DEFINE c == candidates[e]  n == VoteCounts(e)
<1>1. c \in Seq(Villager) /\ c # <<>> /\ winner[e] = Winner(c, n)
  BY DEF Facts, FactShape, Standing, Settled, Decided
<1>2. \A i, j \in DOMAIN c : c[i] = c[j] => i = j
  BY DEF Facts, Standing
<1>3. n \in [Villager -> 0..Cardinality(Villager)] /\ Cardinality(Villager) \in Nat
  BY CountsAreBounded
<1> HIDE DEF c, n
<1>4. PICK k \in DOMAIN c : /\ winner[e] = c[k]
                            /\ \A j \in DOMAIN c : \/ n[c[k]] > n[c[j]]
                                                   \/ n[c[k]] = n[c[j]] /\ k <= j
  BY <1>1, <1>3, WinnerIsFirstOfTheBest
<1>5. \A j \in DOMAIN c : j \in Nat /\ c[j] \in Villager /\ n[c[j]] \in Nat
  BY <1>1, <1>3
<1>6. ASSUME NEW j \in DOMAIN c PROVE n[c[j]] <= n[winner[e]]
  BY <1>4, <1>5
<1>7. ASSUME NEW i \in DOMAIN c, NEW j \in DOMAIN c, c[i] = winner[e], n[c[j]] = n[winner[e]]
      PROVE  i <= j
  <2>1. i = k
    BY <1>2, <1>4, <1>7
  <2> QED
    BY <1>4, <1>5, <1>7, <2>1
<1>8. \A v \in ToSet(c) : n[v] <= n[winner[e]]
  BY <1>6 DEF ToSet
<1> QED
  BY <1>7, <1>8 DEF c, n

-----------------------------------------------------------------------------
(* The threads.                                                              *)

LEMMA ThreadNames ==
  /\ "listener" \in Thread /\ "clock" \in Thread /\ Caller \subseteq Thread /\ Election \subseteq Thread
  /\ "listener" \notin Election /\ "clock" \notin Election /\ Caller \intersect Election = {}
  /\ "listener" \notin Caller /\ "clock" \notin Caller /\ None \notin Thread
  /\ \A r \in Caller : Call[r].election \in Election /\ Call[r].voter \in Villager
                       /\ Call[r].candidate \in Villager
BY GovernmentAssumption DEF Thread, Ballot

LEMMA RecordsAreRequests ==
  ASSUME offset \in [Villager -> Nat], NEW v \in Villager, HasNext(v)
  PROVE  /\ Request[Record(v)].election \in Election \union {None}
         /\ Request[Record(v)].villager \in Villager
         /\ Request[Record(v)].candidate \in Villager \union {None}
<1>1. Topic[v] \in Seq(Command) /\ offset[v] + 1 \in 1..Len(Topic[v])
  BY GovernmentAssumption DEF HasNext
<1>2. Record(v) \in Command
  BY <1>1 DEF Record
<1> QED
  BY <1>2, GovernmentAssumption

(* Whoever takes a row holds it, and nobody else loses one.                  *)
LEMMA LockIsTaken ==
  ASSUME Threads, FactShape, NEW t \in Thread, t \notin Election, NEW e \in Election, LockElection(t, e),
         status' = status, opened' = opened, pass' = pass, offset' = offset,
         handling' \in Villager \union {None}, Target(t)' = e, Ready(t)',
         \A u \in Thread : u # t /\ pc[u] = "locked" => Target(u)' = Target(u) /\ Ready(u)'
  PROVE  Threads'
<1>1. ThreadShape /\ LocksHeld
  BY DEF Threads
<1>2. /\ pc' \in [Thread -> {"idle", "locked", "sending"}] /\ pc'[t] = "locked"
      /\ \A u \in Thread : u # t => pc'[u] = pc[u]
  BY <1>1 DEF LockElection, ThreadShape
<1>3. /\ seen' \in [Thread -> Status \union {"none"}] /\ seen'[t] = status[e] /\ status[e] # "none"
      /\ \A u \in Thread : u # t => seen'[u] = seen[u]
  BY <1>1 DEF LockElection, ThreadShape, FactShape
<1>4. /\ lock' \in [Election -> Thread \union {None}] /\ lock'[e] = t /\ lock[e] = None
      /\ \A f \in Election : f # e => lock'[f] = lock[f]
  BY <1>1 DEF LockElection, ThreadShape
<1>5. ThreadShape'
  BY <1>1, <1>2, <1>3, <1>4, ThreadNames DEF ThreadShape
<1>6. Holds(t)'
  BY <1>3, <1>4 DEF Holds
<1>7. ASSUME NEW u \in Thread, u # t, pc'[u] = "locked" PROVE Holds(u)'
  <2>1. Holds(u)
    BY <1>1, <1>2, <1>7 DEF LocksHeld
  <2>2. Target(u)' = Target(u) /\ Ready(u)'
    BY <1>2, <1>7
  <2>3. Target(u) # e
    BY <1>4, <2>1, ThreadNames DEF Holds
  <2> QED
    BY <1>3, <1>4, <1>7, <2>1, <2>2, <2>3 DEF Holds
<1>8. LocksHeld'
  BY <1>6, <1>7 DEF LocksHeld
<1> QED
  BY <1>5, <1>8 DEF Threads

(* A transaction that ends lets go of its own row only, and only its holder  *)
(* changes an election's status.                                             *)
LEMMA TransactionEnds ==
  ASSUME Threads, NEW t \in Thread, pc[t] = "locked", NEW events, End(t, Target(t), events),
         UNCHANGED <<opened, pass, offset, handling>>,
         \A f \in Election : f # Target(t) => status'[f] = status[f]
  PROVE  Threads'
<1>1. ThreadShape /\ LocksHeld /\ Holds(t)
  BY DEF Threads, LocksHeld
<1>2. PICK e \in Election : e = Target(t)
  BY <1>1 DEF Holds
<1>3. /\ pc' \in [Thread -> {"idle", "locked", "sending"}] /\ pc'[t] = "sending"
      /\ \A u \in Thread : u # t => pc'[u] = pc[u]
  BY <1>1 DEF End, ThreadShape
<1>4. /\ seen' \in [Thread -> Status \union {"none"}]
      /\ \A u \in Thread : u # t => seen'[u] = seen[u]
  BY <1>1 DEF End, ThreadShape
<1>5. /\ lock' \in [Election -> Thread \union {None}]
      /\ \A f \in Election : f # e => lock'[f] = lock[f]
  BY <1>1, <1>2 DEF End, ThreadShape
<1>6. ThreadShape'
  <2>1. pc'["clock"] = "sending" => pass' # <<>>
    BY <1>1, <1>3, ThreadNames DEF ThreadShape, Holds, Ready
  <2> QED
    BY <1>1, <1>3, <1>4, <1>5, <2>1 DEF ThreadShape
<1>7. ASSUME NEW u \in Thread, pc'[u] = "locked" PROVE Holds(u)'
  <2>1. u # t /\ Holds(u)
    BY <1>1, <1>3, <1>7 DEF LocksHeld
  <2>2. Target(u)' = Target(u) /\ Ready(u)'
    BY <2>1 DEF Target, Ready, Holds, Record, HasNext
  <2>3. Target(u) # e
    BY <1>1, <1>2, <2>1 DEF Holds
  <2> QED
    BY <1>2, <1>4, <1>5, <2>1, <2>2, <2>3 DEF Holds
<1>8. LocksHeld'
  BY <1>7 DEF LocksHeld
<1> QED
  BY <1>6, <1>8 DEF Threads

(* Steps of a thread that holds no row disturb no transaction.               *)
LEMMA TransactionsUndisturbed ==
  ASSUME Threads, ThreadShape',
         \A u \in Thread : pc'[u] = "locked" => /\ pc[u] = "locked" /\ seen'[u] = seen[u]
                                                /\ Target(u)' = Target(u) /\ (Ready(u) => Ready(u)'),
         \A f \in Election : lock'[f] = lock[f] \/ pc'[lock[f]] # "locked",
         \A f \in Election : status[f] # "none" => status'[f] = status[f]
  PROVE  Threads'
<1>1. LocksHeld
  BY DEF Threads
<1>2. ASSUME NEW u \in Thread, pc'[u] = "locked" PROVE Holds(u)'
  <2>1. Holds(u)
    BY <1>1, <1>2 DEF LocksHeld
  <2>2. PICK e \in Election : e = Target(u) /\ e = Target(u)'
    BY <1>2, <2>1 DEF Holds
  <2>3. lock'[e] = lock[e] /\ status'[e] = status[e] /\ seen'[u] = seen[u]
    BY <1>2, <2>1, <2>2 DEF Holds
  <2> QED
    BY <1>2, <2>1, <2>2, <2>3 DEF Holds
<1> QED
  BY <1>2 DEF Threads, LocksHeld

-----------------------------------------------------------------------------
(* The facts.                                                                *)

(* A decision depends on the votes, the candidates and the status alone.     *)
LEMMA FactsKept ==
  ASSUME Facts, UNCHANGED <<status, candidates, votes, winner, counted, mayors>>
  PROVE  Facts'
<1>1. \A f \in Election : (Decided(f)' <=> Decided(f)) /\ Standing(f)'
  BY DEF Facts, Decided, Standing
<1>2. ASSUME NEW f \in Election
      PROVE  VotesStored(f)' = VotesStored(f) /\ VoteCounts(f)' = VoteCounts(f)
  BY DEF VotesStored, HasVoted, VoteCounts
<1>3. {f \in Election : Decided(f)}' = {f \in Election : Decided(f)}
  BY <1>1
<1>4. OneMayor'
  BY <1>1, <1>3 DEF Facts, OneMayor
<1>5. \A f \in Election : Settled(f)'
  BY <1>1, <1>2 DEF Facts, Settled
<1>6. FactShape'
  BY DEF Facts, FactShape
<1> QED
  BY <1>1, <1>4, <1>5, <1>6 DEF Facts

(* What is written of an election that is not decided, and stays so, leaves  *)
(* every decision alone.                                                     *)
LEMMA UndecidedMayChange ==
  ASSUME Facts, NEW e \in Election, ~Decided(e), ~Decided(e)', FactShape',
         UNCHANGED <<winner, counted, mayors>>,
         \A f \in Election : f # e => /\ status'[f] = status[f] /\ candidates'[f] = candidates[f]
                                     /\ votes'[f] = votes[f],
         Standing(e)'
  PROVE  Facts'
<1>1. ASSUME NEW f \in Election, f # e
      PROVE  /\ Decided(f)' <=> Decided(f) /\ VotesStored(f)' = VotesStored(f)
             /\ VoteCounts(f)' = VoteCounts(f) /\ candidates'[f] = candidates[f]
             /\ Standing(f)'
  BY <1>1 DEF Facts, Decided, VotesStored, HasVoted, VoteCounts, Standing
<1>2. \A f \in Election : Decided(f)' <=> Decided(f)
  BY <1>1 DEF Decided
<1>3. {f \in Election : Decided(f)}' = {f \in Election : Decided(f)}
  BY <1>2
<1>4. OneMayor'
  BY <1>2, <1>3 DEF Facts, OneMayor
<1>5. \A f \in Election : Standing(f)' /\ Settled(f)'
  BY <1>1 DEF Facts, Settled
<1> QED
  BY <1>4, <1>5 DEF Facts

(* One vote of an election that is being voted in.                           *)
LEMMA VoteIsIn ==
  ASSUME Facts, NEW e \in Election, status[e] = "voting", NEW v \in Villager, NEW c \in Villager,
         InsertVote(e, v, c), UNCHANGED <<status, candidates, winner, counted, mayors>>
  PROVE  Facts'
<1>1. FactShape'
  BY DEF Facts, FactShape, InsertVote
<1>2. \A f \in Election : f # e => votes'[f] = votes[f]
  BY DEF Facts, FactShape, InsertVote
<1>3. ~Decided(e) /\ ~Decided(e)'
  BY DEF Decided
<1>4. Standing(e)'
  BY DEF Facts, Standing
<1> QED
  BY <1>1, <1>2, <1>3, <1>4, UndecidedMayChange

(* One more candidate, who did not stand before.                             *)
LEMMA CandidacyIsIn ==
  ASSUME Facts, NEW e \in Election, status[e] = "nominating", NEW v \in Villager, ~IsCandidate(e, v),
         candidates' = [candidates EXCEPT ![e] = Append(@, v)],
         UNCHANGED <<status, votes, winner, counted, mayors>>
  PROVE  Facts'
<1> DEFINE c == candidates[e]
<1>1. c \in Seq(Villager) /\ \A i, j \in DOMAIN c : c[i] = c[j] => i = j
  BY DEF Facts, FactShape, Standing
<1>2. candidates'[e] = Append(c, v) /\ \A f \in Election : f # e => candidates'[f] = candidates[f]
  BY DEF Facts, FactShape
<1>3. \A i \in DOMAIN c : c[i] # v
  BY DEF IsCandidate
<1>4. Append(c, v) \in Seq(Villager)
  BY <1>1
<1>5. FactShape'
  BY <1>4 DEF Facts, FactShape
<1>6. ~Decided(e) /\ ~Decided(e)'
  BY DEF Decided
<1> HIDE DEF c
<1>7. \A i, j \in DOMAIN Append(c, v) : Append(c, v)[i] = Append(c, v)[j] => i = j
  BY <1>1, <1>3
<1>8. Standing(e)'
  BY <1>2, <1>7 DEF Standing
<1> QED
  BY <1>2, <1>5, <1>6, <1>8, UndecidedMayChange

(* The seeds of an election are ranked without repetition.                   *)
LEMMA SeedsStandOnce ==
  ASSUME NEW e \in Election, NEW ranked \in SetToSeqs(ToSet(Opening[e].seeds))
  PROVE  ranked \in Seq(Villager) /\ \A i, j \in DOMAIN ranked : ranked[i] = ranked[j] => i = j
<1> DEFINE S == ToSet(Opening[e].seeds)
<1>1. S \in SUBSET Villager
  BY GovernmentAssumption DEF ToSet
<1>2. Cardinality(S) \in Nat
  BY <1>1, GovernmentAssumption, FS_Subset, FS_CardinalityType
<1> HIDE DEF S
<1>3. ranked \in [1..Cardinality(S) -> S]
      /\ \A i, j \in 1..Cardinality(S) : i # j => ranked[i] # ranked[j]
  BY DEF SetToSeqs, S
<1>4. ranked \in [1..Cardinality(S) -> Villager]
  BY <1>1, <1>3
<1>5. ranked \in Seq(Villager)
  BY <1>2, <1>4, SeqDef
<1> QED
  BY <1>3, <1>5

(* An election that is opened.                                               *)
LEMMA OpeningIsIn ==
  ASSUME Facts, NEW e \in Election, Open(e)
  PROVE  Facts'
<1>1. PICK ranked \in SetToSeqs(ToSet(Opening[e].seeds)) :
        candidates' = [candidates EXCEPT ![e] = ranked]
  BY DEF Open
<1>2. ranked \in Seq(Villager) /\ \A i, j \in DOMAIN ranked : ranked[i] = ranked[j] => i = j
  BY SeedsStandOnce
<1>3. candidates'[e] = ranked /\ \A f \in Election : f # e => candidates'[f] = candidates[f]
  BY <1>1 DEF Facts, FactShape
<1>4. status'[e] = "scheduled" /\ \A f \in Election : f # e => status'[f] = status[f]
  BY DEF Facts, FactShape, Open
<1>5. FactShape'
  BY <1>1, <1>2 DEF Facts, FactShape, Open, Status, Active
<1>6. ~Decided(e) /\ ~Decided(e)'
  BY <1>4 DEF Open, Decided
<1>7. Standing(e)'
  BY <1>2, <1>3, <1>4 DEF Standing
<1>8. UNCHANGED <<votes, winner, counted, mayors>>
  BY DEF Open
<1> QED
  BY <1>3, <1>4, <1>5, <1>6, <1>7, <1>8, UndecidedMayChange

-----------------------------------------------------------------------------
(* The clock.                                                                *)

(* One turn of the cascade: what has ended stays ended, nobody is voted for  *)
(* who does not stand, and nothing is decided without votes.                 *)
LEMMA EnterFacts ==
  ASSUME NEW e, NEW s \in Status
  PROVE  /\ Enter(e)[s] \in Status
         /\ s \in Terminal => Enter(e)[s] = s
         /\ Enter(e)[s] \in {"voting", "decided"} => s \in {"voting", "decided"} \/ candidates[e] # <<>>
<1> DEFINE due == DuePhase(s, tick, startsAt[e], NominatingEndsAt(e), EndsAt(e))
<1>1. Enter(e)[s] = CASE due = "voting"  /\ candidates[e] = <<>>  -> "annulled"
                      [] due = "decided" /\ VotesStored(e) = 0    -> "annulled"
                      [] due = "stay" -> s
                      [] OTHER -> due
  BY DEF Enter
<1>2. /\ due \in {"nominating", "voting", "decided", "stay"}
      /\ s \in Terminal => due = "stay"
      /\ due = "decided" => s = "voting"
  BY DEF DuePhase, Status, Active, Terminal
<1> HIDE DEF due
<1> QED
  BY <1>1, <1>2 DEF Status, Active, Terminal

LEMMA CascadeFacts ==
  ASSUME FactShape, NEW e \in Election, status[e] # "none", Standing(e)
  PROVE  /\ Cascade(e) \in Status
         /\ status[e] \in Terminal => Cascade(e) = status[e]
         /\ Cascade(e) \in {"voting", "decided"} => candidates[e] # <<>>
<1>1. PICK s \in Status : s = status[e]
  BY DEF FactShape
<1>2. PICK s1 \in Status : s1 = Enter(e)[s]
  BY EnterFacts
<1>3. PICK s2 \in Status : s2 = Enter(e)[s1]
  BY EnterFacts
<1>4. PICK s3 \in Status : s3 = Enter(e)[s2]
  BY EnterFacts
<1>5. Cascade(e) = s3
  BY <1>1, <1>2, <1>3, <1>4 DEF Cascade
<1>6. s \in Terminal => s1 = s /\ s2 = s /\ s3 = s
  BY <1>2, <1>3, <1>4, EnterFacts
<1>7. s \in {"voting", "decided"} => candidates[e] # <<>>
  BY <1>1 DEF Standing
<1>8. s1 \in {"voting", "decided"} => candidates[e] # <<>>
  BY <1>2, <1>7, EnterFacts
<1>9. s2 \in {"voting", "decided"} => candidates[e] # <<>>
  BY <1>3, <1>8, EnterFacts
<1>10. s3 \in {"voting", "decided"} => candidates[e] # <<>>
  BY <1>4, <1>9, EnterFacts
<1> QED
  BY <1>1, <1>5, <1>6, <1>10

(* A new mayor takes the place of the only one there is.                     *)
LEMMA OneIsSeated ==
  ASSUME mayors \in Seq(Government), NEW m \in Villager,
         \A i \in DOMAIN mayors : mayors[i].active <=> i = Len(mayors)
  PROVE  /\ Seat(m) \in Seq(Government) /\ Len(Seat(m)) = Len(mayors) + 1
         /\ \A i \in DOMAIN Seat(m) : Seat(m)[i].active <=> i = Len(Seat(m))
         /\ \A i \in DOMAIN mayors : Seat(m)[i].mayor = mayors[i].mayor
         /\ Seat(m)[Len(mayors) + 1].mayor = m
<1> DEFINE newest(i) == \A j \in DOMAIN mayors : mayors[j].active => j <= i
           past == [i \in DOMAIN mayors |-> [mayors[i] EXCEPT !.active = @ /\ ~newest(i)]]
           g == [mayor |-> m, active |-> TRUE]
<1>1. Len(mayors) \in Nat /\ DOMAIN mayors = 1..Len(mayors)
  OBVIOUS
<1>2. ASSUME NEW i \in DOMAIN mayors
      PROVE  past[i] \in Government /\ past[i].mayor = mayors[i].mayor /\ ~past[i].active
  <2>1. mayors[i] \in Government
    OBVIOUS
  <2>2. mayors[i].active => newest(i)
    BY <1>1
  <2>3. past[i] = [mayors[i] EXCEPT !.active = @ /\ ~newest(i)]
    OBVIOUS
  <2> HIDE DEF newest, past
  <2> QED
    BY <2>1, <2>2, <2>3 DEF Government
<1>3. DOMAIN past = 1..Len(mayors)
  BY <1>1
<1>4. Seat(m) = Append(past, g)
  BY DEF Seat
<1> HIDE DEF past
<1>5. past \in [1..Len(mayors) -> Government]
  <2>1. past = [i \in DOMAIN past |-> past[i]]
    BY DEF past
  <2> QED
    BY <1>1, <1>2, <1>3, <2>1
<1>6. past \in Seq(Government)
  BY <1>1, <1>5, SeqDef
<1>7. Len(past) = Len(mayors)
  BY <1>1, <1>3, <1>6, LenProperties
<1>8. g \in Government /\ g.mayor = m /\ g.active
  BY DEF Government
<1> HIDE DEF g
<1>9. /\ Append(past, g) \in Seq(Government) /\ Len(Append(past, g)) = Len(mayors) + 1
      /\ \A i \in 1..Len(mayors) : Append(past, g)[i] = past[i]
      /\ Append(past, g)[Len(mayors) + 1] = g
      /\ DOMAIN Append(past, g) = 1..(Len(mayors) + 1)
  BY <1>1, <1>6, <1>7, <1>8
<1> QED
  BY <1>1, <1>2, <1>4, <1>8, <1>9

(* The clock decides an election: it counts what is there, once.             *)
LEMMA DecisionIsIn ==
  ASSUME Facts, NEW e \in Election, status[e] # "none", ~Decided(e), Cascade(e) = "decided",
         status' = [status EXCEPT ![e] = "decided"],
         winner' = [winner EXCEPT ![e] = Winner(candidates[e], VoteCounts(e))],
         counted' = [counted EXCEPT ![e] = VotesStored(e)],
         mayors' = Seat(Winner(candidates[e], VoteCounts(e))),
         UNCHANGED <<candidates, votes>>
  PROVE  Facts'
<1> DEFINE w == Winner(candidates[e], VoteCounts(e))
           D == {f \in Election : Decided(f)}
<1>1. FactShape /\ OneMayor /\ Standing(e)
  BY DEF Facts
<1>2. candidates[e] \in Seq(Villager) /\ candidates[e] # <<>>
  BY <1>1, CascadeFacts DEF FactShape
<1>3. w \in Villager
  BY <1>2, CountsAreBounded, WinnerIsFirstOfTheBest
<1>4. VotesStored(e) \in Nat
  BY CountsAreBounded
<1> HIDE DEF w
<1>5. /\ mayors' = Seat(w) /\ winner' = [winner EXCEPT ![e] = w]
      /\ \A i \in DOMAIN mayors : mayors[i].active <=> i = Len(mayors)
      /\ mayors \in Seq(Government)
  BY <1>1 DEF w, OneMayor, FactShape
<1>6. /\ mayors' \in Seq(Government) /\ Len(mayors') = Len(mayors) + 1
      /\ \A i \in DOMAIN mayors' : mayors'[i].active <=> i = Len(mayors')
      /\ \A i \in DOMAIN mayors : mayors'[i].mayor = mayors[i].mayor
      /\ mayors'[Len(mayors) + 1].mayor = w
  BY <1>3, <1>5, OneIsSeated
<1>7. FactShape'
  BY <1>1, <1>3, <1>4, <1>5, <1>6 DEF FactShape, Status, Terminal
<1>8. /\ status'[e] = "decided" /\ winner'[e] = w /\ counted'[e] = VotesStored(e)
      /\ \A f \in Election : f # e => /\ status'[f] = status[f] /\ winner'[f] = winner[f]
                                      /\ counted'[f] = counted[f]
  BY <1>1, <1>5 DEF FactShape
<1>9. Decided(e)' /\ \A f \in Election : f # e => (Decided(f)' <=> Decided(f))
  BY <1>8 DEF Decided
<1>10. ASSUME NEW f \in Election
       PROVE  VotesStored(f)' = VotesStored(f) /\ VoteCounts(f)' = VoteCounts(f)
  BY DEF VotesStored, HasVoted, VoteCounts
<1>11. \A f \in Election : Standing(f)' /\ Settled(f)'
  <2>1. Settled(e)'
    BY <1>8, <1>10 DEF Settled, w
  <2>2. Standing(e)'
    BY <1>1, <1>2 DEF Standing
  <2>3. ASSUME NEW f \in Election, f # e PROVE Standing(f)' /\ Settled(f)'
    BY <1>8, <1>9, <1>10, <2>3 DEF Facts, Standing, Settled
  <2> QED
    BY <2>1, <2>2, <2>3
<1>12. D' = D \union {e} /\ e \notin D
  BY <1>9
<1>13. Cardinality(D') = Cardinality(D) + 1
  <2>1. D \in SUBSET Election
    OBVIOUS
  <2>2. IsFiniteSet(D)
    BY <2>1, GovernmentAssumption, FS_Subset
  <2> HIDE DEF D
  <2> QED
    BY <1>12, <2>2, FS_AddElement
<1>14. \A i \in DOMAIN mayors' : \E f \in Election : Decided(f)' /\ winner'[f] = mayors'[i].mayor
  <2> SUFFICES ASSUME NEW i \in DOMAIN mayors'
               PROVE  \E f \in Election : Decided(f)' /\ winner'[f] = mayors'[i].mayor
    OBVIOUS
  <2>1. i \in DOMAIN mayors \/ i = Len(mayors) + 1
    BY <1>5, <1>6
  <2>2. CASE i \in DOMAIN mayors
    <3>1. PICK f \in Election : Decided(f) /\ winner[f] = mayors[i].mayor
      BY <1>1, <2>2 DEF OneMayor
    <3> QED
      BY <1>6, <1>8, <1>9, <2>2, <3>1
  <2>3. CASE i = Len(mayors) + 1
    BY <1>6, <1>8, <1>9, <2>3
  <2> QED
    BY <2>1, <2>2, <2>3
<1>15. OneMayor'
  <2>1. Len(mayors) = Cardinality(D)
    BY <1>1 DEF OneMayor
  <2>2. Len(mayors') = Cardinality(D')
    BY <1>6, <1>13, <2>1
  <2> QED
    BY <1>6, <1>14, <2>2 DEF OneMayor
<1> QED
  BY <1>7, <1>11, <1>15 DEF Facts

LEMMA ElectionAdvances ==
  ASSUME GovInv, ClockAdvances
  PROVE  GovInv'
<1> USE ThreadNames
<1>1. Threads /\ Facts /\ FactShape
  BY DEF GovInv, Facts
<1>2. Holds("clock")
  BY <1>1 DEF ClockAdvances, Threads, LocksHeld
<1>3. PICK e \in Election : e = Target("clock") /\ e = Head(pass) /\ status[e] # "none"
                            /\ seen["clock"] = status[e]
  BY <1>2 DEF Holds, Target
<1>4. /\ Cascade(e) \in Status
      /\ status[e] \in Terminal => Cascade(e) = status[e]
      /\ Cascade(e) \in {"voting", "decided"} => candidates[e] # <<>>
  BY <1>1, <1>3, CascadeFacts DEF Facts
<1>5. /\ status' = [status EXCEPT ![e] = Cascade(e)]
      /\ UNCHANGED <<opened, candidates, votes, pass, offset, handling>>
      /\ \/ /\ Cascade(e) = "decided" /\ ~Decided(e)
            /\ winner' = [winner EXCEPT ![e] = Winner(candidates[e], VoteCounts(e))]
            /\ counted' = [counted EXCEPT ![e] = VotesStored(e)]
            /\ mayors' = Seat(Winner(candidates[e], VoteCounts(e)))
         \/ /\ Cascade(e) # "decided" \/ Decided(e)
            /\ UNCHANGED <<winner, counted, mayors>>
      /\ \E events : End("clock", e, events)
  <2>1. /\ UNCHANGED <<opened, candidates, votes, pass, offset, handling>>
        /\ status' = [status EXCEPT ![e] = Cascade(e)]
    BY <1>3 DEF ClockAdvances, clockVars, busVars
  <2>2. seen["clock"] = "decided" <=> Decided(e)
    BY <1>3 DEF Decided
  <2>3. CASE /\ Cascade(e) = "decided" /\ seen["clock"] # "decided"
             /\ winner' = [winner EXCEPT ![e] = Winner(candidates[e], VoteCounts(e))]
             /\ counted' = [counted EXCEPT ![e] = VotesStored(e)]
             /\ mayors' = Seat(Winner(candidates[e], VoteCounts(e)))
             /\ \E events : End("clock", e, events)
    BY <2>1, <2>2, <2>3
  <2>4. CASE /\ Cascade(e) # "decided" \/ seen["clock"] = "decided"
             /\ End("clock", e, <<>>)
             /\ UNCHANGED <<winner, counted, mayors>>
    BY <2>1, <2>2, <2>4
  <2> QED
    BY <1>3, <2>3, <2>4 DEF ClockAdvances
<1>6. status'[e] = Cascade(e) /\ \A f \in Election : f # e => status'[f] = status[f]
  BY <1>1, <1>5 DEF FactShape
<1>7. Threads'
  <2>1. PICK events : End("clock", e, events)
    BY <1>5
  <2> QED
    BY <1>1, <1>3, <1>5, <1>6, <2>1, TransactionEnds DEF ClockAdvances
<1>8. Facts'
  <2>1. CASE Cascade(e) = "decided" /\ ~Decided(e)
    BY <1>1, <1>3, <1>5, <2>1, DecisionIsIn
  <2>2. CASE Decided(e)
    <3>1. status' = status
      BY <1>1, <1>4, <1>5, <2>2 DEF Decided, Terminal, FactShape
    <3> QED
      BY <1>1, <1>5, <2>2, <3>1, FactsKept
  <2>3. CASE Cascade(e) # "decided" /\ ~Decided(e)
    <3>1. ~Decided(e)'
      BY <1>6, <2>3 DEF Decided
    <3>2. FactShape'
      BY <1>1, <1>4, <1>5, <2>3 DEF FactShape
    <3>3. Standing(e)'
      BY <1>1, <1>4, <1>5, <1>6 DEF Facts, Standing
    <3> QED
      BY <1>1, <1>5, <1>6, <2>3, <3>1, <3>2, <3>3, UndecidedMayChange
  <2> QED
    BY <2>1, <2>2, <2>3
<1> QED
  BY <1>7, <1>8 DEF GovInv

LEMMA ClockActs ==
  ASSUME GovInv, ClockTicks \/ ClockLocks
  PROVE  GovInv'
<1> USE ThreadNames
<1>1. Threads /\ Facts /\ FactShape /\ ThreadShape
  BY DEF GovInv, Facts, Threads
<1>2. Facts'
  BY <1>1, FactsKept DEF ClockTicks, ClockLocks, electionVars
<1>3. CASE ClockTicks
  <2>1. UNCHANGED <<status, opened, offset, handling, pc, lock, seen>> /\ pc["clock"] = "idle" /\ pass' # <<>>
    BY <1>3 DEF ClockTicks, electionVars, busVars, threadVars
  <2>2. pass' \in Seq(Election)
    <3> DEFINE S == {f \in Election : status[f] \in Active}
    <3>1. S \in SUBSET Election
      OBVIOUS
    <3>2. Cardinality(S) \in Nat
      BY <3>1, GovernmentAssumption, FS_Subset, FS_CardinalityType
    <3>3. pass' \in SetToSeqs(S)
      BY <1>3 DEF ClockTicks
    <3> HIDE DEF S
    <3>4. pass' \in [1..Cardinality(S) -> Election]
      BY <3>1, <3>3 DEF SetToSeqs
    <3> QED
      BY <3>2, <3>4, SeqDef
  <2>3. ThreadShape'
    BY <1>1, <2>1, <2>2 DEF ThreadShape
  <2>4. \A u \in Thread : pc'[u] = "locked" => Target(u)' = Target(u) /\ (Ready(u) => Ready(u)')
    BY <2>1 DEF Target, Ready, Record, HasNext
  <2>5. Threads'
    BY <1>1, <2>1, <2>3, <2>4, TransactionsUndisturbed
  <2> QED
    BY <1>2, <2>5 DEF GovInv
<1>4. CASE ClockLocks
  <2>1. /\ pass # <<>> /\ LockElection("clock", Head(pass))
        /\ UNCHANGED <<status, opened, offset, handling, pass>>
    BY <1>4 DEF ClockLocks, electionVars, busVars, clockVars
  <2>2. Head(pass) \in Election
    BY <1>1, <2>1 DEF ThreadShape
  <2>3. Target("clock")' = Head(pass) /\ Ready("clock")' /\ handling' \in Villager \union {None}
    BY <1>1, <2>1 DEF Target, Ready, ThreadShape
  <2>4. \A u \in Thread : u # "clock" /\ pc[u] = "locked" => Target(u)' = Target(u) /\ Ready(u)'
    BY <1>1, <2>1 DEF Target, Ready, Record, HasNext, Threads, LocksHeld, Holds
  <2>5. Threads'
    BY <1>1, <2>1, <2>2, <2>3, <2>4, LockIsTaken
  <2> QED
    BY <1>2, <2>5 DEF GovInv
<1> QED
  BY <1>3, <1>4

LEMMA ClientsAct ==
  ASSUME GovInv, NEW r \in Caller, RestLocks(r) \/ RestCasts(r)
  PROVE  GovInv'
<1> USE ThreadNames
<1>1. Threads /\ Facts /\ FactShape /\ ThreadShape
  BY DEF GovInv, Facts, Threads
<1>2. r \in Thread \ Election /\ r # "clock" /\ r # "listener"
  BY DEF Thread
<1>3. PICK e \in Election : e = Call[r].election /\ e = Target(r)
  BY DEF Target
<1>4. CASE RestLocks(r)
  <2>1. LockElection(r, e) /\ UNCHANGED <<status, opened, offset, handling, pass>>
    BY <1>3, <1>4 DEF RestLocks, electionVars, busVars, clockVars
  <2>2. Target(r)' = e /\ Ready(r)' /\ handling' \in Villager \union {None}
    BY <1>1, <1>2, <1>3, <2>1 DEF Target, Ready, ThreadShape
  <2>3. \A u \in Thread : u # r /\ pc[u] = "locked" => Target(u)' = Target(u) /\ Ready(u)'
    BY <1>1, <2>1 DEF Target, Ready, Record, HasNext, Threads, LocksHeld, Holds
  <2>4. Threads'
    BY <1>1, <1>2, <2>1, <2>2, <2>3, LockIsTaken
  <2>5. Facts'
    BY <1>1, <1>4, FactsKept DEF RestLocks, electionVars
  <2> QED
    BY <2>4, <2>5 DEF GovInv
<1>5. CASE RestCasts(r)
  <2>1. pc[r] = "locked"
    BY <1>5 DEF RestCasts, End
  <2>2. Holds(r)
    BY <1>1, <1>2, <2>1 DEF Threads, LocksHeld
  <2>3. /\ \/ seen[r] = "voting" /\ InsertVote(e, Call[r].voter, Call[r].candidate)
           \/ UNCHANGED votes
        /\ \E events : End(r, e, events)
        /\ UNCHANGED <<status, opened, candidates, winner, counted, mayors, offset, handling, pass>>
    BY <1>3, <1>5 DEF RestCasts, busVars, clockVars
  <2>4. Threads'
    <3>1. PICK events : End(r, e, events)
      BY <2>3
    <3> QED
      BY <1>1, <1>2, <1>3, <2>1, <2>3, <3>1, TransactionEnds
  <2>5. Facts'
    <3>1. CASE UNCHANGED votes
      BY <1>1, <2>3, <3>1, FactsKept
    <3>2. CASE seen[r] = "voting" /\ InsertVote(e, Call[r].voter, Call[r].candidate)
      <4>1. status[e] = "voting"
        BY <1>3, <2>2, <3>2 DEF Holds
      <4> QED
        BY <1>1, <2>3, <3>2, <4>1, VoteIsIn
    <3> QED
      BY <2>3, <3>1, <3>2
  <2> QED
    BY <2>4, <2>5 DEF GovInv
<1> QED
  BY <1>4, <1>5

LEMMA ListenerReads ==
  ASSUME GovInv, NEW v \in Villager, PassOver(v) \/ RejectUnread(v) \/ ListenerLocks(v)
  PROVE  GovInv'
<1> USE ThreadNames
<1>1. Threads /\ Facts /\ FactShape /\ ThreadShape
  BY DEF GovInv, Facts, Threads
<1>2. Facts'
  BY <1>1, FactsKept DEF PassOver, RejectUnread, ListenerLocks, electionVars
<1>3. CASE PassOver(v)
  <2>1. /\ UNCHANGED <<status, opened, pass, pc, lock, seen, handling>> /\ pc["listener"] = "idle"
        /\ offset' = [offset EXCEPT ![v] = @ + 1]
    BY <1>3 DEF PassOver, electionVars, threadVars, clockVars, Acked
  <2>2. ThreadShape'
    BY <1>1, <2>1 DEF ThreadShape
  <2>3. \A u \in Thread : pc'[u] = "locked" => Target(u)' = Target(u) /\ (Ready(u) => Ready(u)')
    BY <1>1, <2>1 DEF Target, Ready, Threads, LocksHeld, Holds, Thread
  <2>4. Threads'
    BY <1>1, <2>1, <2>2, <2>3, TransactionsUndisturbed
  <2> QED
    BY <1>2, <2>4 DEF GovInv
<1>4. CASE RejectUnread(v)
  <2>1. /\ UNCHANGED <<status, opened, pass, lock, seen, offset>> /\ pc["listener"] = "idle"
        /\ pc' = [pc EXCEPT !["listener"] = "sending"] /\ handling' = v
    BY <1>4 DEF RejectUnread, electionVars, busVars, clockVars
  <2>2. /\ pc' \in [Thread -> {"idle", "locked", "sending"}] /\ pc'["listener"] = "sending"
        /\ \A u \in Thread : u # "listener" => pc'[u] = pc[u]
    BY <1>1, <2>1 DEF ThreadShape
  <2>3. ThreadShape'
    BY <1>1, <2>1, <2>2 DEF ThreadShape
  <2>4. \A u \in Thread : pc'[u] = "locked" => u # "listener" /\ pc[u] = "locked"
    BY <2>2
  <2>5. \A u \in Thread : pc'[u] = "locked" => Target(u)' = Target(u) /\ (Ready(u) => Ready(u)')
    BY <1>1, <2>1, <2>4 DEF Target, Ready, Threads, LocksHeld, Holds, Thread
  <2>6. Threads'
    BY <1>1, <2>1, <2>3, <2>4, <2>5, TransactionsUndisturbed
  <2> QED
    BY <1>2, <2>6 DEF GovInv
<1>5. CASE ListenerLocks(v)
  <2> DEFINE e == Request[Record(v)].election
  <2>1. /\ UNCHANGED <<status, opened, pass, offset>> /\ HasNext(v) /\ e # None
        /\ LockElection("listener", e) /\ handling' = v
    BY <1>5 DEF ListenerLocks, Published, electionVars, busVars, clockVars
  <2>2. e \in Election
    BY <1>1, <2>1, RecordsAreRequests DEF ThreadShape
  <2>3. Target("listener")' = e /\ Ready("listener")' /\ handling' \in Villager \union {None}
    BY <1>1, <2>1 DEF Target, Ready, Record, HasNext
  <2>4. \A u \in Thread : u # "listener" /\ pc[u] = "locked" => Target(u)' = Target(u) /\ Ready(u)'
    BY <1>1, <2>1 DEF Target, Ready, Threads, LocksHeld, Holds, Thread
  <2> HIDE DEF e
  <2>5. Threads'
    BY <1>1, <2>1, <2>2, <2>3, <2>4, LockIsTaken
  <2> QED
    BY <1>2, <2>5 DEF GovInv
<1> QED
  BY <1>3, <1>4, <1>5

LEMMA ListenerWrites ==
  ASSUME GovInv, ListenerHandles
  PROVE  GovInv'
<1> USE ThreadNames
<1>1. Threads /\ Facts /\ FactShape /\ ThreadShape
  BY DEF GovInv, Facts, Threads
<1>2. pc["listener"] = "locked"
  BY DEF ListenerHandles
<1>3. Holds("listener")
  BY <1>1, <1>2 DEF Threads, LocksHeld
<1> DEFINE q == Request[Record(handling)]
<1>4. PICK e \in Election : e = q.election /\ e = Target("listener") /\ seen["listener"] = status[e]
  BY <1>3 DEF Holds, Target
<1>5. q.villager \in Villager
  BY <1>1, <1>3, RecordsAreRequests DEF Holds, Ready, ThreadShape
<1>6. /\ UNCHANGED <<status, opened, winner, counted, mayors, offset, handling, pass>>
      /\ \/ /\ seen["listener"] = "voting" /\ IsCandidate(e, q.candidate)
            /\ InsertVote(e, q.villager, q.candidate) /\ UNCHANGED candidates
            /\ \E events : End("listener", e, events)
         \/ /\ seen["listener"] = "nominating" /\ ~IsCandidate(e, q.villager)
            /\ candidates' = [candidates EXCEPT ![e] = Append(@, q.villager)] /\ UNCHANGED votes
            /\ \E events : End("listener", e, events)
         \/ /\ UNCHANGED <<candidates, votes>>
            /\ \E events : End("listener", e, events)
  BY <1>4 DEF ListenerHandles, busVars, clockVars
<1> HIDE DEF q
<1>7. Threads'
  <2>1. PICK events : End("listener", e, events)
    BY <1>6
  <2> QED
    BY <1>1, <1>2, <1>4, <1>6, <2>1, TransactionEnds
<1>8. Facts'
  <2>1. CASE /\ seen["listener"] = "voting" /\ IsCandidate(e, q.candidate)
             /\ InsertVote(e, q.villager, q.candidate) /\ UNCHANGED candidates
    <3>1. q.candidate \in Villager
      BY <1>1, <2>1 DEF IsCandidate, FactShape
    <3> QED
      BY <1>1, <1>4, <1>5, <1>6, <2>1, <3>1, VoteIsIn
  <2>2. CASE /\ seen["listener"] = "nominating" /\ ~IsCandidate(e, q.villager)
             /\ candidates' = [candidates EXCEPT ![e] = Append(@, q.villager)] /\ UNCHANGED votes
    BY <1>1, <1>4, <1>5, <1>6, <2>2, CandidacyIsIn
  <2>3. CASE UNCHANGED <<candidates, votes>>
    BY <1>1, <1>6, <2>3, FactsKept
  <2> QED
    BY <1>6, <2>1, <2>2, <2>3
<1> QED
  BY <1>7, <1>8 DEF GovInv

LEMMA ElectionOpens ==
  ASSUME GovInv, NEW e \in Election, Open(e)
  PROVE  GovInv'
<1> USE ThreadNames
<1>1. Threads /\ Facts /\ FactShape /\ ThreadShape
  BY DEF GovInv, Facts, Threads
<1>2. /\ UNCHANGED <<pass, offset, lock, seen, handling>> /\ status[e] = "none"
      /\ status' = [status EXCEPT ![e] = "scheduled"]
      /\ opened' = Append(opened, e) /\ pc' = [pc EXCEPT ![e] = "sending"]
  BY DEF Open, busVars, clockVars
<1>3. e \in Thread /\ e # "clock" /\ e # "listener" /\ e \notin Caller
  OBVIOUS
<1>4. /\ pc' \in [Thread -> {"idle", "locked", "sending"}]
      /\ \A u \in Thread : pc'[u] = "locked" => pc[u] = "locked"
      /\ pc'["clock"] = pc["clock"]
      /\ \A u \in Thread : pc[u] # "locked" => pc'[u] # "locked"
  BY <1>1, <1>2, <1>3 DEF ThreadShape
<1>5. opened' \in Seq(Election)
  BY <1>1, <1>2 DEF ThreadShape
<1>6. ThreadShape'
  BY <1>1, <1>2, <1>4, <1>5 DEF ThreadShape
<1>7. \A f \in Election : status[f] # "none" => status'[f] = status[f]
  BY <1>1, <1>2 DEF FactShape
<1>8. \A u \in Thread : Target(u)' = Target(u) /\ (Ready(u) => Ready(u)')
  BY <1>2 DEF Target, Ready, Record, HasNext
<1>9. Threads'
  BY <1>1, <1>2, <1>4, <1>6, <1>7, <1>8, TransactionsUndisturbed
<1> QED
  BY <1>1, <1>9, OpeningIsIn DEF GovInv

LEMMA ThreadsReturn ==
  ASSUME GovInv, NEW t \in Thread, Send(t) \/ Return(t) \/ RollsBack(t)
  PROVE  GovInv'
<1> USE ThreadNames
<1>1. Threads /\ Facts /\ FactShape /\ ThreadShape
  BY DEF GovInv, Facts, Threads
<1>2. Facts' /\ status' = status /\ opened' = opened
  BY <1>1, FactsKept DEF Send, Return, RollsBack, electionVars
<1>3. CASE Send(t)
  <2>1. UNCHANGED <<offset, pc, lock, seen, handling, pass>>
    BY <1>3 DEF Send, clockVars
  <2>2. ThreadShape'
    BY <1>1, <1>2, <2>1 DEF ThreadShape
  <2>3. \A u \in Thread : Target(u)' = Target(u) /\ (Ready(u) => Ready(u)')
    BY <2>1 DEF Target, Ready, Record, HasNext
  <2>4. Threads'
    BY <1>1, <1>2, <2>1, <2>2, <2>3, TransactionsUndisturbed
  <2> QED
    BY <1>2, <2>4 DEF GovInv
<1>4. CASE Return(t)
  <2>1. /\ UNCHANGED <<lock, seen>> /\ pc[t] = "sending" /\ pc' = [pc EXCEPT ![t] = "idle"]
        /\ \/ t = "listener" /\ offset' = Acked(handling) /\ handling' = None /\ UNCHANGED pass
           \/ t = "clock" /\ pass' = Tail(pass) /\ UNCHANGED <<offset, handling>>
           \/ t \notin {"listener", "clock"} /\ UNCHANGED <<offset, handling, pass>>
    BY <1>4 DEF Return
  <2>2. /\ pc' \in [Thread -> {"idle", "locked", "sending"}] /\ pc'[t] = "idle"
        /\ \A u \in Thread : u # t => pc'[u] = pc[u]
    BY <1>1, <2>1 DEF ThreadShape
  <2>3. pass' \in Seq(Election) /\ (t # "clock" => pass' = pass)
    <3>1. CASE t = "clock"
      <4>1. pass \in Seq(Election) /\ pass # <<>> /\ pass' = Tail(pass)
        BY <1>1, <2>1, <3>1 DEF ThreadShape
      <4> QED
        BY <3>1, <4>1
    <3>2. CASE t # "clock"
      BY <1>1, <2>1, <3>2 DEF ThreadShape
    <3> QED
      BY <3>1, <3>2
  <2>4. offset' \in [Villager -> Nat] /\ handling' \in Villager \union {None}
        /\ (t # "listener" => UNCHANGED <<offset, handling>>)
    <3>1. offset \in [Villager -> Nat] /\ handling \in Villager \union {None}
      BY <1>1 DEF ThreadShape
    <3>2. CASE t = "listener"
      <4>1. offset' = [offset EXCEPT ![handling] = @ + 1] /\ handling' = None
        BY <2>1, <3>2 DEF Acked
      <4>2. \A v \in Villager : offset[v] + 1 \in Nat
        BY <3>1
      <4>3. offset' \in [Villager -> Nat]
        BY <3>1, <4>1, <4>2
      <4> QED
        BY <3>2, <4>1, <4>3
    <3>3. CASE t # "listener"
      BY <2>1, <3>1, <3>3
    <3> QED
      BY <3>2, <3>3
  <2>5. ThreadShape'
    BY <1>1, <1>2, <2>1, <2>2, <2>3, <2>4 DEF ThreadShape
  <2>6. ASSUME NEW u \in Thread, pc'[u] = "locked"
        PROVE  pc[u] = "locked" /\ Target(u)' = Target(u) /\ (Ready(u) => Ready(u)')
    <3>1. u # t /\ pc[u] = "locked" /\ Holds(u)
      BY <1>1, <2>2, <2>6 DEF Threads, LocksHeld
    <3>2. CASE u \in Caller
      BY <3>1, <3>2 DEF Target, Ready
    <3>3. CASE u = "clock"
      BY <2>3, <3>1, <3>3 DEF Target, Ready
    <3>4. CASE u = "listener"
      BY <2>4, <3>1, <3>4 DEF Target, Ready, Record, HasNext
    <3> QED
      BY <3>1, <3>2, <3>3, <3>4 DEF Holds, Thread
  <2>7. Threads'
    BY <1>1, <1>2, <2>1, <2>5, <2>6, TransactionsUndisturbed
  <2> QED
    BY <1>2, <2>7 DEF GovInv
<1>5. CASE RollsBack(t)
  <2>1. /\ pc[t] = "locked" /\ pc' = [pc EXCEPT ![t] = "idle"] /\ seen' = [seen EXCEPT ![t] = "none"]
        /\ lock' = [e \in Election |-> IF lock[e] = t THEN None ELSE lock[e]]
        /\ handling' = IF t = "listener" THEN None ELSE handling
        /\ pass' = IF t = "clock" THEN Tail(pass) ELSE pass
        /\ UNCHANGED offset
    BY <1>5 DEF RollsBack, busVars
  <2>2. Holds(t)
    BY <1>1, <2>1 DEF Threads, LocksHeld
  <2>3. /\ pc' \in [Thread -> {"idle", "locked", "sending"}] /\ pc'[t] = "idle"
        /\ \A u \in Thread : u # t => pc'[u] = pc[u]
    BY <1>1, <2>1 DEF ThreadShape
  <2>4. /\ seen' \in [Thread -> Status \union {"none"}]
        /\ \A u \in Thread : u # t => seen'[u] = seen[u]
    BY <1>1, <2>1 DEF ThreadShape
  <2>5. /\ lock' \in [Election -> Thread \union {None}]
        /\ \A f \in Election : lock'[f] = lock[f] \/ lock[f] = t
    BY <1>1, <2>1 DEF ThreadShape
  <2>6. pass' \in Seq(Election) /\ (t # "clock" => pass' = pass)
    BY <1>1, <2>1, <2>2 DEF ThreadShape, Holds, Ready
  <2>7. ThreadShape'
    BY <1>1, <1>2, <2>1, <2>3, <2>4, <2>5, <2>6 DEF ThreadShape
  <2>8. ASSUME NEW u \in Thread, pc'[u] = "locked"
        PROVE  pc[u] = "locked" /\ u # t /\ Target(u)' = Target(u) /\ (Ready(u) => Ready(u)')
    <3>1. u # t /\ pc[u] = "locked" /\ Holds(u)
      BY <1>1, <2>3, <2>8 DEF Threads, LocksHeld
    <3>2. CASE u \in Caller
      BY <3>1, <3>2 DEF Target, Ready
    <3>3. CASE u = "clock"
      BY <2>6, <3>1, <3>3 DEF Target, Ready
    <3>4. CASE u = "listener"
      BY <2>1, <3>1, <3>4 DEF Target, Ready, Record, HasNext
    <3> QED
      BY <3>1, <3>2, <3>3, <3>4 DEF Holds, Thread
  <2>9. Threads'
    BY <1>1, <1>2, <2>3, <2>4, <2>5, <2>7, <2>8, TransactionsUndisturbed
  <2> QED
    BY <1>2, <2>9 DEF GovInv
<1> QED
  BY <1>3, <1>4, <1>5

LEMMA ProcessStops ==
  ASSUME GovInv, Crash \/ TimePasses \/ UNCHANGED vars
  PROVE  GovInv'
<1> USE ThreadNames
<1>1. Threads /\ Facts /\ FactShape /\ ThreadShape
  BY DEF GovInv, Facts, Threads
<1>2. Facts' /\ status' = status /\ opened' = opened /\ offset' = offset
  BY <1>1, FactsKept DEF Crash, TimePasses, vars, electionVars, busVars
<1>3. CASE Crash
  <2>1. /\ pc' = [t \in Thread |-> "idle"] /\ lock' = [e \in Election |-> None]
        /\ seen' = [t \in Thread |-> "none"] /\ handling' = None /\ pass' = <<>>
    BY <1>3 DEF Crash
  <2>2. \A u \in Thread : pc'[u] = "idle"
    BY <2>1
  <2>3. ThreadShape'
    BY <1>1, <1>2, <2>1, <2>2 DEF ThreadShape
  <2>4. Threads'
    BY <2>2, <2>3 DEF Threads, LocksHeld
  <2> QED
    BY <1>2, <2>4 DEF GovInv
<1>4. CASE TimePasses \/ UNCHANGED vars
  <2>1. UNCHANGED <<pc, lock, seen, handling, pass>>
    BY <1>4 DEF TimePasses, vars, threadVars, clockVars
  <2>2. ThreadShape'
    BY <1>1, <1>2, <2>1 DEF ThreadShape
  <2>3. \A u \in Thread : Target(u)' = Target(u) /\ (Ready(u) => Ready(u)')
    BY <1>2, <2>1 DEF Target, Ready, Record, HasNext
  <2>4. Threads'
    BY <1>1, <1>2, <2>1, <2>2, <2>3, TransactionsUndisturbed
  <2> QED
    BY <1>2, <2>4 DEF GovInv
<1> QED
  BY <1>3, <1>4

-----------------------------------------------------------------------------
LEMMA GovernmentBegins == Init => GovInv
<1> SUFFICES ASSUME Init PROVE GovInv
  OBVIOUS
<1> USE ThreadNames DEF Init
<1>1. ThreadShape /\ LocksHeld
  BY DEF ThreadShape, LocksHeld
<1>2. \A e \in Election : candidates[e] = <<>> /\ status[e] = "none" /\ ~Decided(e)
  BY DEF Decided
<1>3. FactShape
  BY DEF FactShape
<1>4. \A e \in Election : Standing(e) /\ Settled(e)
  BY <1>2 DEF Standing, Settled
<1>5. OneMayor
  <2>1. {e \in Election : Decided(e)} = {}
    BY <1>2
  <2>2. Cardinality({e \in Election : Decided(e)}) = 0
    BY <2>1, FS_EmptySet
  <2> QED
    BY <2>2 DEF OneMayor
<1> QED
  BY <1>1, <1>3, <1>4, <1>5 DEF GovInv, Threads, Facts

LEMMA GovernmentSteps == GovInv /\ [Next]_vars => GovInv'
<1> SUFFICES ASSUME GovInv, [Next]_vars PROVE GovInv'
  OBVIOUS
<1>1. CASE \E e \in Election : Open(e)
  BY <1>1, ElectionOpens
<1>2. CASE \E r \in Caller : RestLocks(r) \/ RestCasts(r)
  BY <1>2, ClientsAct
<1>3. CASE \E v \in Villager : PassOver(v) \/ RejectUnread(v) \/ ListenerLocks(v)
  BY <1>3, ListenerReads
<1>4. CASE ListenerHandles
  BY <1>4, ListenerWrites
<1>5. CASE ClockTicks \/ ClockLocks
  BY <1>5, ClockActs
<1>6. CASE ClockAdvances
  BY <1>6, ElectionAdvances
<1>7. CASE \E t \in Thread : Send(t) \/ Return(t) \/ RollsBack(t)
  BY <1>7, ThreadsReturn
<1>8. CASE Crash \/ TimePasses \/ UNCHANGED vars
  BY <1>8, ProcessStops
<1> QED
  BY <1>1, <1>2, <1>3, <1>4, <1>5, <1>6, <1>7, <1>8 DEF Next

(* What was decided counted every vote there is, and nobody has more votes   *)
(* than the winner (ElectionService.cast and advanceOne).                    *)
THEOREM DecisionsAreFinal == Spec => []TallyIsFinal
<1>1. GovInv => TallyIsFinal
  BY SettledIsFairlyWon DEF GovInv, Facts, TallyIsFinal, Settled
<1> QED
  BY <1>1, GovernmentBegins, GovernmentSteps, PTL DEF Spec

(* Ties go to whoever declared first, whatever is declared and voted while   *)
(* the clock runs (CandidateTally.winner).                                   *)
THEOREM TiesGoToTheFirst == Spec => []FirstToDeclare
<1>1. GovInv => FirstToDeclare
  BY SettledIsFairlyWon DEF GovInv, FirstToDeclare
<1> QED
  BY <1>1, GovernmentBegins, GovernmentSteps, PTL DEF Spec

(* One mayor at a time, one for each decided election                        *)
(* (ElectionService.advanceOne dissolves the incumbent).                     *)
THEOREM VillageHasOneMayor == Spec => []OneMayor
<1>1. GovInv => OneMayor
  BY DEF GovInv, Facts
<1> QED
  BY <1>1, GovernmentBegins, GovernmentSteps, PTL DEF Spec

-----------------------------------------------------------------------------
(* What is told.                                                             *)

EventType == {"ElectionStarted", "CandidateNominated", "VoteCast", "ElectionDecided", "GovernanceRejected"}

Posted == [type : EventType, election : Election \union {None}, villager : Villager \union {None},
           command : Command \union {None}]

VoteClass(e, v) == {o \in Posted : o.type = "VoteCast" /\ o.election = e /\ o.villager = v}
OutcomeClass(c) == {o \in Posted : o.command = c}

Started(e) == Event("ElectionStarted", e, None, None)
Told(e)    == BagIn(Started(e), ledger) \/ Started(e) \in gaps

(* Of the events in S, none has been sent or is waiting to be.               *)
Absent(S) ==
  /\ \A o \in S : ~BagIn(o, ledger)
  /\ \A t \in Thread : \A i \in DOMAIN outbox[t] : outbox[t][i] \notin S

(* Of the events in S, one copy of one has been sent or is waiting to be.    *)
Once(S) ==
  /\ \A o, p \in S : BagIn(o, ledger) /\ BagIn(p, ledger) => o = p /\ ledger[o] = 1
  /\ \A t \in Thread : \A i \in DOMAIN outbox[t] : outbox[t][i] \in S => \A o \in S : ~BagIn(o, ledger)
  /\ \A t, u \in Thread : \A i \in DOMAIN outbox[t], j \in DOMAIN outbox[u] :
       outbox[t][i] \in S /\ outbox[u][j] \in S => t = u /\ i = j

(* Whoever nominates has said, or says first, that there is an election.     *)
Announces(events) ==
  \A i \in DOMAIN events : events[i].type = "CandidateNominated" =>
    \/ Told(events[i].election)
    \/ \E j \in DOMAIN events : j < i /\ events[j] = Started(events[i].election)

(* An outbox is filled by the commit and empty before it; an election posts  *)
(* nothing before its row is there.                                          *)
BusShape ==
  /\ outbox \in [Thread -> Seq(Posted)]
  /\ ledger \in [BagToSet(ledger) -> Nat] /\ BagToSet(ledger) \subseteq Posted
  /\ \A t \in Thread : pc[t] # "sending" => outbox[t] = <<>>
  /\ \A e \in Election : status[e] = "none" => pc[e] # "sending"

ToldInOrder == AnnouncedFirst /\ \A t \in Thread : Announces(outbox[t])

VotesTold ==
  \A e \in Election, v \in Villager :
    Once(VoteClass(e, v)) /\ (~HasVoted(e, v) => Absent(VoteClass(e, v)))

OutcomesTold ==
  \A c \in Command : Once(OutcomeClass(c)) /\ (c \notin processed => Absent(OutcomeClass(c)))

(* The record the listener is in a transaction for has no claim yet.         *)
RecordUnclaimed ==
  pc["listener"] = "locked" => /\ Record(handling) \notin processed
                               /\ BagIn(Started(Request[Record(handling)].election), ledger)

BusInv == BusShape /\ ToldInOrder /\ VotesTold /\ OutcomesTold /\ RecordUnclaimed

(* Sending one event to the ledger.                                          *)
LEMMA Delivered ==
  ASSUME NEW B, NEW h, B \in [BagToSet(B) -> Nat]
  PROVE  LET C == B (+) SetToBag({h})
         IN  /\ BagToSet(C) = BagToSet(B) \union {h} /\ C \in [BagToSet(C) -> Nat]
             /\ \A o \in BagToSet(B) : o # h => C[o] = B[o]
             /\ h \notin BagToSet(B) => C[h] = 1
BY DEF BagToSet, SetToBag, (+)

(* A thread that waits for nothing else commits: its outbox is what it tells.*)
LEMMA Posting ==
  ASSUME BusShape, NEW t \in Thread, pc[t] # "sending", NEW events,
         outbox' = [outbox EXCEPT ![t] = events], UNCHANGED <<ledger, gaps>>, NEW S
  PROVE  /\ outbox[t] = <<>> /\ outbox'[t] = events /\ \A u \in Thread : u # t => outbox'[u] = outbox[u]
         /\ (\A i \in DOMAIN events : events[i] \notin S) => (Once(S) => Once(S)') /\ (Absent(S) => Absent(S)')
         /\ Absent(S) /\ Len(events) = 1 => Once(S)'
<1>1. outbox[t] = <<>> /\ outbox'[t] = events /\ \A u \in Thread : u # t => outbox'[u] = outbox[u]
  BY DEF BusShape
<1>2. \A o : BagIn(o, ledger)' <=> BagIn(o, ledger)
  BY DEF BagIn
<1>3. ASSUME \A i \in DOMAIN events : events[i] \notin S, Once(S) PROVE Once(S)'
  BY <1>1, <1>2, <1>3 DEF Once
<1>4. ASSUME \A i \in DOMAIN events : events[i] \notin S, Absent(S) PROVE Absent(S)'
  BY <1>1, <1>2, <1>4 DEF Absent
<1>5. ASSUME Absent(S), Len(events) = 1 PROVE Once(S)'
  BY <1>1, <1>2, <1>5 DEF Absent, Once
<1> QED
  BY <1>1, <1>3, <1>4, <1>5

(* What is told first stays told first.                                      *)
LEMMA OrderKept ==
  ASSUME ToldInOrder, UNCHANGED <<ledger, gaps>>
  PROVE  AnnouncedFirst' /\ \A events : Announces(events) => Announces(events)'
<1>1. \A e : Told(e)' <=> Told(e)
  BY DEF Told, BagIn
<1>2. AnnouncedFirst'
  BY DEF ToldInOrder, AnnouncedFirst, BagIn
<1>3. ASSUME NEW events, Announces(events) PROVE Announces(events)'
  BY <1>1, <1>3 DEF Announces
<1> QED
  BY <1>2, <1>3

LEMMA PostingInOrder ==
  ASSUME BusShape, ToldInOrder, ThreadShape, NEW t \in Thread, pc[t] # "sending",
         pc' = [pc EXCEPT ![t] = "sending"],
         NEW events \in Seq(Posted), Announces(events),
         outbox' = [outbox EXCEPT ![t] = events], UNCHANGED <<ledger, gaps>>,
         \A e \in Election : status'[e] = "none" => status[e] = "none" /\ e # t
  PROVE  BusShape' /\ ToldInOrder'
<1>1. outbox' \in [Thread -> Seq(Posted)] /\ outbox'[t] = events
      /\ \A u \in Thread : u # t => outbox'[u] = outbox[u]
  BY DEF BusShape
<1>2. pc'[t] = "sending" /\ \A u \in Thread : u # t => pc'[u] = pc[u]
  BY DEF ThreadShape
<1>3. ledger' \in [BagToSet(ledger') -> Nat] /\ BagToSet(ledger') \subseteq Posted
  BY DEF BusShape
<1>4. \A u \in Thread : pc'[u] # "sending" => outbox'[u] = <<>>
  BY <1>1, <1>2 DEF BusShape
<1>5. \A e \in Election : status'[e] = "none" => pc'[e] # "sending"
  BY <1>2, ThreadNames DEF BusShape
<1>6. BusShape'
  BY <1>1, <1>3, <1>4, <1>5 DEF BusShape
<1>7. ASSUME NEW u \in Thread PROVE Announces(outbox[u])'
  <2>1. PICK b : b = outbox'[u]
    OBVIOUS
  <2>2. Announces(b)
    <3>1. CASE u = t
      BY <1>1, <2>1, <3>1
    <3>2. CASE u # t
      <4>1. Announces(outbox[u]) /\ b = outbox[u]
        BY <1>1, <2>1, <3>2 DEF ToldInOrder
      <4> QED
        BY <4>1
    <3> QED
      BY <3>1, <3>2
  <2>3. Announces(b)'
    BY <2>2, OrderKept
  <2> QED
    BY <2>1, <2>3 DEF Announces
<1>8. ToldInOrder'
  BY <1>7, OrderKept DEF ToldInOrder
<1> QED
  BY <1>6, <1>8

(* Steps that tell nothing and write nothing.                                *)
LEMMA NothingTold ==
  ASSUME BusInv, UNCHANGED <<ledger, gaps, outbox, votes, processed>>,
         \A u \in Thread : pc'[u] # "sending" => pc[u] # "sending" \/ outbox[u] = <<>>,
         \A e \in Election : /\ status'[e] = "none" => status[e] = "none"
                             /\ pc'[e] = "sending" => pc[e] = "sending",
         RecordUnclaimed'
  PROVE  BusInv'
<1>1. BusShape'
  BY DEF BusInv, BusShape
<1>2. ToldInOrder'
  <2>1. \A u \in Thread : Announces(outbox[u])
    BY DEF BusInv, ToldInOrder
  <2>2. \A u \in Thread : Announces(outbox[u])'
    BY <2>1 DEF Announces, Told, BagIn
  <2> QED
    BY <2>2, OrderKept DEF BusInv, ToldInOrder
<1>3. ASSUME NEW S PROVE (Once(S)' <=> Once(S)) /\ (Absent(S)' <=> Absent(S))
  BY DEF Once, Absent, BagIn
<1>4. VotesTold'
  BY <1>3 DEF BusInv, VotesTold, VoteClass, HasVoted
<1>5. OutcomesTold'
  BY <1>3 DEF BusInv, OutcomesTold, OutcomeClass
<1> QED
  BY <1>1, <1>2, <1>4, <1>5 DEF BusInv

(* A send, whether it arrives or not.                                        *)
LEMMA Sending ==
  ASSUME BusShape, ThreadShape, ToldInOrder, NEW t \in Thread, Send(t)
  PROVE  /\ BusShape' /\ ToldInOrder'
         /\ \A S : (Once(S) => Once(S)') /\ (Absent(S) => Absent(S)')
         /\ \A o : BagIn(o, ledger) => BagIn(o, ledger)'
<1> DEFINE h == Head(outbox[t])
<1>1. /\ outbox[t] \in Seq(Posted) /\ outbox[t] # <<>>
      /\ outbox' = [outbox EXCEPT ![t] = Tail(outbox[t])] /\ UNCHANGED <<pc, status>>
      /\ pc[t] = "sending"
  BY DEF Send, BusShape, electionVars
<1>2. /\ outbox' \in [Thread -> Seq(Posted)] /\ outbox'[t] = Tail(outbox[t])
      /\ \A u \in Thread : u # t => outbox'[u] = outbox[u]
  BY <1>1 DEF BusShape
<1>3. /\ h = outbox[t][1] /\ h \in Posted /\ 1 \in DOMAIN outbox[t]
      /\ \A i \in DOMAIN Tail(outbox[t]) : /\ i + 1 \in DOMAIN outbox[t] /\ i \in Nat \ {0}
                                           /\ Tail(outbox[t])[i] = outbox[t][i + 1]
      /\ \A i \in DOMAIN outbox[t] : i \in Nat /\ (i # 1 => i - 1 \in DOMAIN Tail(outbox[t])
                                                           /\ Tail(outbox[t])[i - 1] = outbox[t][i])
  BY <1>1
<1>4. \/ ledger' = ledger (+) SetToBag({h}) /\ gaps' = gaps
      \/ ledger' = ledger /\ gaps' = gaps \union {h}
  BY DEF Send
<1> HIDE DEF h
<1>5. /\ ledger' \in [BagToSet(ledger') -> Nat] /\ BagToSet(ledger') \subseteq Posted
      /\ \A o : BagIn(o, ledger) => BagIn(o, ledger')
      /\ \A o : BagIn(o, ledger') => BagIn(o, ledger) \/ o = h
      /\ \A o : BagIn(o, ledger) /\ o # h => ledger'[o] = ledger[o]
      /\ ledger' = ledger \/ BagIn(h, ledger) \/ ledger'[h] = 1
  <2> DEFINE C == ledger (+) SetToBag({h})
  <2>1. /\ BagToSet(C) = BagToSet(ledger) \union {h} /\ C \in [BagToSet(C) -> Nat]
        /\ \A o \in BagToSet(ledger) : o # h => C[o] = ledger[o]
        /\ h \notin BagToSet(ledger) => C[h] = 1
    BY Delivered DEF BusShape
  <2>2. ledger' = C \/ ledger' = ledger
    BY <1>4
  <2> HIDE DEF C
  <2>3. CASE ledger' = C
    BY <1>3, <2>1, <2>3 DEF BusShape, BagIn
  <2>4. CASE ledger' = ledger
    BY <2>4 DEF BusShape, BagIn
  <2> QED
    BY <2>2, <2>3, <2>4
<1>6. BusShape'
  <2>1. \A u \in Thread : pc'[u] # "sending" => outbox'[u] = <<>>
    BY <1>1, <1>2 DEF BusShape
  <2> QED
    BY <1>1, <1>2, <1>5, <2>1 DEF BusShape
<1>7. BagIn(h, ledger') \/ h \in gaps'
  <2> DEFINE C == ledger (+) SetToBag({h})
  <2>1. BagToSet(C) = BagToSet(ledger) \union {h}
    BY Delivered DEF BusShape
  <2>2. ledger' = C \/ gaps' = gaps \union {h}
    BY <1>4
  <2> HIDE DEF C
  <2> QED
    BY <2>1, <2>2 DEF BagIn
<1>8. \A e : (Told(e) => Told(e)') /\ (h = Started(e) => Told(e)')
  BY <1>4, <1>5, <1>7 DEF Told, Started, Event
<1>9. Announces(outbox[t])
  BY DEF ToldInOrder
<1>10. AnnouncedFirst'
  <2> SUFFICES ASSUME NEW o \in BagToSet(ledger'), o.type = "CandidateNominated"
               PROVE  Told(o.election)'
    BY DEF AnnouncedFirst, Told, Started
  <2>1. CASE BagIn(o, ledger)
    <3>1. Told(o.election)
      BY <2>1 DEF ToldInOrder, AnnouncedFirst, Told, Started, BagIn
    <3> QED
      BY <1>8, <3>1
  <2>2. CASE o = h
    <3>1. Told(h.election) \/ \E j \in DOMAIN outbox[t] : j < 1 /\ outbox[t][j] = Started(h.election)
      BY <1>3, <1>9, <2>2 DEF Announces
    <3> QED
      BY <1>1, <1>8, <2>2, <3>1
  <2> QED
    BY <1>5, <2>1, <2>2 DEF BagIn
<1>11. \A u \in Thread : Announces(outbox[u])'
  <2>1. ASSUME NEW u \in Thread, u # t PROVE Announces(outbox[u])'
    <3>1. Announces(outbox[u]) /\ outbox'[u] = outbox[u]
      BY <1>2, <2>1 DEF ToldInOrder
    <3> QED
      BY <1>8, <3>1 DEF Announces
  <2> PICK b : b = Tail(outbox[t])
    OBVIOUS
  <2>2. ASSUME NEW i \in DOMAIN b, b[i].type = "CandidateNominated"
        PROVE  Told(b[i].election)' \/ \E j \in DOMAIN b : j < i /\ b[j] = Started(b[i].election)
    <3> DEFINE n == b[i]
    <3>1. n = outbox[t][i + 1] /\ i + 1 \in DOMAIN outbox[t] /\ i \in Nat \ {0}
      BY <1>3
    <3>2. Told(n.election) \/ \E j \in DOMAIN outbox[t] : j < i + 1 /\ outbox[t][j] = Started(n.election)
      BY <1>9, <2>2, <3>1 DEF Announces
    <3> HIDE DEF n
    <3>3. CASE Told(n.election)
      BY <1>8, <3>3 DEF n
    <3>4. CASE \E j \in DOMAIN outbox[t] : j < i + 1 /\ outbox[t][j] = Started(n.election)
      <4>1. PICK j \in DOMAIN outbox[t] : j < i + 1 /\ outbox[t][j] = Started(n.election)
        BY <3>4
      <4>2. CASE j = 1
        BY <1>3, <1>8, <4>1, <4>2 DEF n
      <4>3. CASE j # 1
        <5>1. j - 1 \in DOMAIN b /\ b[j - 1] = Started(n.election) /\ j \in Nat
          BY <1>3, <4>1, <4>3
        <5>2. j - 1 < i
          BY <3>1, <4>1, <5>1
        <5> QED
          BY <5>1, <5>2 DEF n
      <4> QED
        BY <4>2, <4>3
    <3> QED
      BY <3>2, <3>3, <3>4
  <2>3. Announces(outbox[t])'
    <3>1. outbox'[t] = b
      BY <1>2
    <3> QED
      BY <2>2, <3>1 DEF Announces
  <2> QED
    BY <2>1, <2>3
<1>12. \A u \in Thread : \A i \in DOMAIN outbox'[u] :
         \E k \in DOMAIN outbox[u] : /\ outbox'[u][i] = outbox[u][k] /\ (u # t => k = i)
                                     /\ (u = t => k = i + 1 /\ k # 1)
  <2> SUFFICES ASSUME NEW u \in Thread, NEW i \in DOMAIN outbox'[u]
               PROVE  \E k \in DOMAIN outbox[u] : /\ outbox'[u][i] = outbox[u][k] /\ (u # t => k = i)
                                                  /\ (u = t => k = i + 1 /\ k # 1)
    OBVIOUS
  <2>1. CASE u = t
    <3>1. i \in DOMAIN Tail(outbox[t]) /\ outbox'[u][i] = Tail(outbox[t])[i]
      BY <1>2, <2>1
    <3>2. i + 1 \in DOMAIN outbox[t] /\ outbox'[u][i] = outbox[t][i + 1] /\ i + 1 # 1
      BY <1>3, <3>1
    <3> QED
      BY <2>1, <3>2
  <2>2. CASE u # t
    BY <1>2, <2>2
  <2> QED
    BY <2>1, <2>2
<1>13. ASSUME NEW S, Absent(S) PROVE Absent(S)'
  <2>1. h \notin S
    BY <1>3, <1>13 DEF Absent
  <2> QED
    BY <1>5, <1>12, <1>13, <2>1 DEF Absent
<1>14. ASSUME NEW S, Once(S) PROVE Once(S)'
  <2>1. h \in S => /\ \A o \in S : ~BagIn(o, ledger)
                   /\ \A u \in Thread : \A i \in DOMAIN outbox[u] : outbox[u][i] \in S => u = t /\ i = 1
    BY <1>3, <1>14 DEF Once
  <2>2. \A o, p \in S : BagIn(o, ledger') /\ BagIn(p, ledger') => o = p /\ ledger'[o] = 1
    <3>1. CASE h \in S
      BY <1>5, <2>1, <3>1
    <3>2. CASE h \notin S
      BY <1>5, <1>14, <3>2 DEF Once
    <3> QED
      BY <3>1, <3>2
  <2>3. \A u \in Thread : \A i \in DOMAIN outbox'[u] : outbox'[u][i] \in S => h \notin S
    BY <1>12, <2>1
  <2>4. \A u \in Thread : \A i \in DOMAIN outbox'[u] :
          outbox'[u][i] \in S => \A o \in S : ~BagIn(o, ledger')
    BY <1>5, <1>12, <1>14, <2>3 DEF Once
  <2>5. ASSUME NEW u \in Thread, NEW w \in Thread, NEW i \in DOMAIN outbox'[u], NEW j \in DOMAIN outbox'[w],
               outbox'[u][i] \in S, outbox'[w][j] \in S
        PROVE  u = w /\ i = j
    <3>1. PICK k \in DOMAIN outbox[u] : outbox'[u][i] = outbox[u][k] /\ (u # t => k = i)
                                        /\ (u = t => k = i + 1)
      BY <1>12
    <3>2. PICK l \in DOMAIN outbox[w] : outbox'[w][j] = outbox[w][l] /\ (w # t => l = j)
                                        /\ (w = t => l = j + 1)
      BY <1>12
    <3>3. u = w /\ k = l
      BY <1>14, <2>5, <3>1, <3>2 DEF Once
    <3>4. u = t => i \in Nat /\ j \in Nat
      BY <1>2, <1>3, <3>3
    <3> QED
      BY <3>1, <3>2, <3>3, <3>4
  <2> QED
    BY <2>2, <2>4, <2>5 DEF Once
<1>15. ToldInOrder'
  BY <1>10, <1>11 DEF ToldInOrder
<1>16. \A o : BagIn(o, ledger) => BagIn(o, ledger)'
  BY <1>5
<1> QED
  BY <1>6, <1>13, <1>14, <1>15, <1>16

(* The record that is handled is not acknowledged or claimed by others.      *)
LEMMA UnclaimedKept ==
  ASSUME RecordUnclaimed, \A o : BagIn(o, ledger) => BagIn(o, ledger)',
         pc'["listener"] = "locked" => pc["listener"] = "locked" /\ UNCHANGED <<offset, handling, processed>>
  PROVE  RecordUnclaimed'
<1> SUFFICES ASSUME pc'["listener"] = "locked"
             PROVE  /\ Record(handling)' \notin processed'
                    /\ BagIn(Started(Request[Record(handling)].election), ledger)'
  BY DEF RecordUnclaimed
<1>1. Record(handling)' = Record(handling) /\ processed' = processed
  BY DEF Record
<1>2. BagIn(Started(Request[Record(handling)].election), ledger)
  BY DEF RecordUnclaimed
<1> QED
  BY <1>1, <1>2 DEF RecordUnclaimed, Started, Event

(* A commit whose events are of no vote and of no command.                   *)
LEMMA OthersTold ==
  ASSUME BusShape, NEW t \in Thread, pc[t] # "sending", NEW events,
         outbox' = [outbox EXCEPT ![t] = events], UNCHANGED <<ledger, gaps>>
  PROVE  /\ /\ VotesTold /\ UNCHANGED votes
            /\ \A i \in DOMAIN events : events[i].type # "VoteCast"
            => VotesTold'
         /\ /\ OutcomesTold /\ UNCHANGED processed
            /\ \A i \in DOMAIN events : events[i].command \notin Command
            => OutcomesTold'
<1>1. ASSUME VotesTold, UNCHANGED votes, \A i \in DOMAIN events : events[i].type # "VoteCast"
      PROVE  VotesTold'
  <2> SUFFICES ASSUME NEW e \in Election, NEW v \in Villager
               PROVE  Once(VoteClass(e, v))' /\ (~HasVoted(e, v) => Absent(VoteClass(e, v)))'
    BY DEF VotesTold
  <2>1. \A i \in DOMAIN events : events[i] \notin VoteClass(e, v)
    BY <1>1 DEF VoteClass
  <2>2. HasVoted(e, v)' <=> HasVoted(e, v)
    BY <1>1 DEF HasVoted
  <2>3. Once(VoteClass(e, v)) /\ (~HasVoted(e, v) => Absent(VoteClass(e, v)))
    BY <1>1 DEF VotesTold
  <2> QED
    BY <2>1, <2>2, <2>3, Posting
<1>2. ASSUME OutcomesTold, UNCHANGED processed, \A i \in DOMAIN events : events[i].command \notin Command
      PROVE  OutcomesTold'
  <2> SUFFICES ASSUME NEW c \in Command
               PROVE  Once(OutcomeClass(c))' /\ (c \notin processed => Absent(OutcomeClass(c)))'
    BY DEF OutcomesTold
  <2>1. \A i \in DOMAIN events : events[i] \notin OutcomeClass(c)
    BY <1>2 DEF OutcomeClass
  <2>2. Once(OutcomeClass(c)) /\ (c \notin processed => Absent(OutcomeClass(c)))
    BY <1>2 DEF OutcomesTold
  <2> QED
    BY <1>2, <2>1, <2>2, Posting
<1> QED
  BY <1>1, <1>2

(* The one announcement of a vote goes with its row.                         *)
LEMMA VoteTold ==
  ASSUME BusShape, VotesTold, FactShape, NEW t \in Thread, pc[t] # "sending", NEW o,
         outbox' = [outbox EXCEPT ![t] = <<o>>], UNCHANGED <<ledger, gaps>>,
         NEW e \in Election, NEW v \in Villager, NEW c \in Villager, ~HasVoted(e, v), InsertVote(e, v, c),
         o.election = e, o.villager = v
  PROVE  VotesTold'
<1> SUFFICES ASSUME NEW f \in Election, NEW w \in Villager
             PROVE  Once(VoteClass(f, w))' /\ (~HasVoted(f, w) => Absent(VoteClass(f, w)))'
  BY DEF VotesTold
<1>1. Once(VoteClass(f, w)) /\ (~HasVoted(f, w) => Absent(VoteClass(f, w)))
  BY DEF VotesTold
<1>2. CASE f = e /\ w = v
  <2>1. HasVoted(f, w)'
    BY <1>2, GovernmentAssumption DEF FactShape, InsertVote, HasVoted
  <2>2. Len(<<o>>) = 1
    OBVIOUS
  <2>3. Absent(VoteClass(f, w))
    BY <1>1, <1>2
  <2>4. Once(VoteClass(f, w))'
    BY <2>2, <2>3, Posting
  <2> QED
    BY <2>1, <2>4
<1>3. CASE ~(f = e /\ w = v)
  <2>1. \A i \in DOMAIN <<o>> : <<o>>[i] \notin VoteClass(f, w)
    BY <1>3 DEF VoteClass
  <2>2. HasVoted(f, w)' <=> HasVoted(f, w)
    BY <1>3 DEF FactShape, InsertVote, HasVoted
  <2> QED
    BY <1>1, <2>1, <2>2, Posting
<1> QED
  BY <1>2, <1>3

(* The one outcome of a command goes with its claim.                         *)
LEMMA OutcomeTold ==
  ASSUME BusShape, OutcomesTold, NEW t \in Thread, pc[t] # "sending", NEW o,
         outbox' = [outbox EXCEPT ![t] = <<o>>], UNCHANGED <<ledger, gaps>>,
         NEW c \in Command, c \notin processed, processed' = processed \union {c}, o.command = c
  PROVE  OutcomesTold'
<1> SUFFICES ASSUME NEW d \in Command
             PROVE  Once(OutcomeClass(d))' /\ (d \notin processed => Absent(OutcomeClass(d)))'
  BY DEF OutcomesTold
<1>1. Once(OutcomeClass(d)) /\ (d \notin processed => Absent(OutcomeClass(d)))
  BY DEF OutcomesTold
<1>2. CASE d = c
  <2>1. Len(<<o>>) = 1
    OBVIOUS
  <2>2. Absent(OutcomeClass(d))
    BY <1>1, <1>2
  <2>3. Once(OutcomeClass(d))'
    BY <2>1, <2>2, Posting
  <2> QED
    BY <1>2, <2>3
<1>3. CASE d # c
  <2>1. \A i \in DOMAIN <<o>> : <<o>>[i] \notin OutcomeClass(d)
    BY <1>3 DEF OutcomeClass
  <2> QED
    BY <1>1, <1>3, <2>1, Posting
<1> QED
  BY <1>2, <1>3

(* What an opening says, and in which order.                                 *)
LEMMA AnnouncementFacts ==
  ASSUME NEW e \in Election
  PROVE  /\ Announcement(e) \in Seq(Posted) /\ Announces(Announcement(e))
         /\ \A i \in DOMAIN Announcement(e) :
              /\ Announcement(e)[i].type \in {"ElectionStarted", "CandidateNominated"}
              /\ Announcement(e)[i].command = None
<1> DEFINE seeds == Opening[e].seeds
           said == [i \in DOMAIN seeds |-> Event("CandidateNominated", e, seeds[i], None)]
<1>1. seeds \in Seq(Villager)
  BY GovernmentAssumption
<1>2. Len(seeds) \in Nat /\ DOMAIN seeds = 1..Len(seeds)
  BY <1>1
<1>3. \A i \in DOMAIN seeds : /\ Event("CandidateNominated", e, seeds[i], None) \in Posted
                              /\ Event("CandidateNominated", e, seeds[i], None).election = e
                              /\ Event("CandidateNominated", e, seeds[i], None).type = "CandidateNominated"
                              /\ Event("CandidateNominated", e, seeds[i], None).command = None
  BY <1>1 DEF Event, Posted, EventType
<1>4. said \in [1..Len(seeds) -> Posted]
  BY <1>2, <1>3
<1>5. said \in Seq(Posted)
  BY <1>2, <1>4, SeqDef
<1>6. \A i \in DOMAIN said : said[i].election = e /\ said[i].type = "CandidateNominated" /\ said[i].command = None
  BY <1>3
<1>7. /\ Started(e) \in Posted /\ Started(e).type = "ElectionStarted" /\ Started(e).command = None
      /\ Announcement(e) = <<Started(e)>> \o said
  BY DEF Started, Event, Posted, EventType, Announcement
<1> HIDE DEF said
<1>8. Announcement(e) \in Seq(Posted)
  BY <1>5, <1>7
<1>9. /\ Announcement(e)[1] = Started(e) /\ 1 \in DOMAIN Announcement(e)
      /\ \A i \in DOMAIN Announcement(e) :
           i = 1 \/ (i > 1 /\ i - 1 \in DOMAIN said /\ Announcement(e)[i] = said[i - 1])
  BY <1>5, <1>7
<1> QED
  BY <1>6, <1>7, <1>8, <1>9 DEF Announces

LEMMA OpeningTold ==
  ASSUME GovInv, BusInv, NEW e \in Election, Open(e)
  PROVE  BusInv'
<1> USE ThreadNames
<1>1. ThreadShape /\ FactShape /\ BusShape /\ ToldInOrder /\ VotesTold /\ OutcomesTold /\ RecordUnclaimed
  BY DEF GovInv, Threads, Facts, BusInv
<1>2. /\ status[e] = "none" /\ status' = [status EXCEPT ![e] = "scheduled"]
      /\ outbox' = [outbox EXCEPT ![e] = Announcement(e)] /\ pc' = [pc EXCEPT ![e] = "sending"]
      /\ UNCHANGED <<ledger, gaps, votes, processed, offset, handling>>
  BY DEF Open, busVars
<1>3. e \in Thread /\ pc[e] # "sending" /\ e # "listener"
  BY <1>1, <1>2 DEF BusShape
<1>4. \A f \in Election : status'[f] = "none" => status[f] = "none" /\ f # e
  BY <1>1, <1>2 DEF FactShape
<1>5. BusShape' /\ ToldInOrder'
  BY <1>1, <1>2, <1>3, <1>4, AnnouncementFacts, PostingInOrder
<1>6. /\ \A i \in DOMAIN Announcement(e) : Announcement(e)[i].type # "VoteCast"
      /\ \A i \in DOMAIN Announcement(e) : Announcement(e)[i].command \notin Command
  BY AnnouncementFacts, GovernmentAssumption
<1>7. VotesTold' /\ OutcomesTold'
  BY <1>1, <1>2, <1>3, <1>6, OthersTold
<1>8. RecordUnclaimed'
  BY <1>1, <1>2, <1>3, UnclaimedKept DEF ThreadShape, BagIn
<1> QED
  BY <1>5, <1>7, <1>8 DEF BusInv

(* A commit of a client or of the clock posts nothing of a command.          *)
LEMMA CommitTold ==
  ASSUME GovInv, BusInv, NEW t \in Thread, t # "listener", NEW e \in Election, NEW events \in Seq(Posted),
         End(t, e, events), t \notin Election,
         UNCHANGED <<ledger, gaps, processed, offset, handling>>,
         \A f \in Election : status'[f] = "none" => status[f] = "none",
         \A i \in DOMAIN events : events[i].command = None /\ events[i].type # "CandidateNominated",
         VotesTold'
  PROVE  BusInv'
<1>1. ThreadShape /\ BusShape /\ ToldInOrder /\ OutcomesTold /\ RecordUnclaimed
  BY DEF GovInv, Threads, BusInv
<1>2. /\ pc[t] # "sending" /\ pc' = [pc EXCEPT ![t] = "sending"]
      /\ outbox' = [outbox EXCEPT ![t] = events]
  BY DEF End
<1>3. Announces(events)
  BY DEF Announces
<1>4. BusShape' /\ ToldInOrder'
  BY <1>1, <1>2, <1>3, PostingInOrder
<1>5. OutcomesTold'
  <2>1. \A i \in DOMAIN events : events[i].command \notin Command
    BY GovernmentAssumption
  <2> QED
    BY <1>1, <1>2, <2>1, OthersTold
<1>6. RecordUnclaimed'
  BY <1>1, <1>2, UnclaimedKept, ThreadNames DEF ThreadShape, BagIn
<1> QED
  BY <1>4, <1>5, <1>6 DEF BusInv

LEMMA ClientsTell ==
  ASSUME GovInv, BusInv, NEW r \in Caller, RestCasts(r)
  PROVE  BusInv'
<1> USE ThreadNames
<1>1. FactShape /\ BusShape /\ VotesTold
  BY DEF GovInv, Facts, BusInv
<1> DEFINE b == Call[r]
           o == Event("VoteCast", b.election, b.voter, None)
<1>2. r \in Thread /\ r \notin Election /\ r # "listener" /\ b.election \in Election /\ b.voter \in Villager
      /\ b.candidate \in Villager
  OBVIOUS
<1>3. /\ UNCHANGED <<status, ledger, gaps, processed, offset, handling>>
      /\ \/ /\ ~HasVoted(b.election, b.voter) /\ InsertVote(b.election, b.voter, b.candidate)
            /\ End(r, b.election, <<o>>)
         \/ UNCHANGED votes /\ End(r, b.election, <<>>)
  BY DEF RestCasts, busVars
<1>4. /\ o \in Posted /\ o.type = "VoteCast" /\ o.election = b.election /\ o.villager = b.voter
      /\ o.command = None
  BY <1>2 DEF Event, Posted, EventType
<1> HIDE DEF o, b
<1>5. CASE /\ ~HasVoted(b.election, b.voter) /\ InsertVote(b.election, b.voter, b.candidate)
           /\ End(r, b.election, <<o>>)
  <2>1. /\ pc[r] # "sending" /\ outbox' = [outbox EXCEPT ![r] = <<o>>]
    BY <1>5 DEF End
  <2>2. VotesTold'
    BY <1>1, <1>2, <1>3, <1>4, <1>5, <2>1, VoteTold
  <2>3. <<o>> \in Seq(Posted) /\ \A i \in DOMAIN <<o>> : <<o>>[i] = o
    BY <1>4
  <2> QED
    BY <1>2, <1>3, <1>4, <1>5, <2>2, <2>3, CommitTold
<1>6. CASE UNCHANGED votes /\ End(r, b.election, <<>>)
  <2>1. /\ pc[r] # "sending" /\ outbox' = [outbox EXCEPT ![r] = <<>>]
    BY <1>6 DEF End
  <2>2. <<>> \in Seq(Posted) /\ DOMAIN <<>> = {}
    OBVIOUS
  <2>3. VotesTold'
    <3>1. \A i \in DOMAIN <<>> : <<>>[i].type # "VoteCast"
      BY <2>2
    <3> QED
      BY <1>1, <1>2, <1>3, <1>6, <2>1, <3>1, OthersTold
  <2> QED
    BY <1>2, <1>3, <1>6, <2>2, <2>3, CommitTold
<1> QED
  BY <1>3, <1>5, <1>6

LEMMA ClockTells ==
  ASSUME GovInv, BusInv, ClockAdvances
  PROVE  BusInv'
<1> USE ThreadNames
<1>1. Threads /\ Facts /\ FactShape /\ BusShape /\ VotesTold
  BY DEF GovInv, Facts, BusInv
<1>2. Holds("clock")
  BY <1>1 DEF ClockAdvances, Threads, LocksHeld
<1>3. PICK e \in Election : e = Head(pass) /\ status[e] # "none"
  BY <1>2 DEF Holds, Target
<1> DEFINE w == Winner(candidates[e], VoteCounts(e))
           o == Event("ElectionDecided", e, w, None)
<1>4. /\ UNCHANGED <<votes, ledger, gaps, processed, offset, handling>>
      /\ status' = [status EXCEPT ![e] = Cascade(e)]
  BY <1>3 DEF ClockAdvances, busVars
<1>5. \/ Cascade(e) = "decided" /\ End("clock", e, <<o>>)
      \/ End("clock", e, <<>>)
  BY <1>3 DEF ClockAdvances
<1>6. /\ Cascade(e) \in Status
      /\ Cascade(e) = "decided" => candidates[e] # <<>>
  BY <1>1, <1>3, CascadeFacts DEF Facts
<1>7. \A f \in Election : status'[f] = "none" => status[f] = "none"
  BY <1>1, <1>4, <1>6 DEF FactShape, Status, Active, Terminal
<1>8. Cascade(e) = "decided" => w \in Villager
  <2> SUFFICES ASSUME Cascade(e) = "decided" PROVE w \in Villager
    OBVIOUS
  <2>1. candidates[e] \in Seq(Villager) /\ candidates[e] # <<>>
    BY <1>1, <1>6 DEF FactShape
  <2> QED
    BY <2>1, CountsAreBounded, WinnerIsFirstOfTheBest
<1> HIDE DEF w
<1>9. Cascade(e) = "decided" => o \in Posted /\ o.type = "ElectionDecided" /\ o.command = None
  BY <1>8 DEF Event, Posted, EventType
<1> HIDE DEF o
<1>10. ASSUME NEW events \in Seq(Posted), End("clock", e, events),
              \A i \in DOMAIN events : events[i].command = None /\ events[i].type = "ElectionDecided"
       PROVE  BusInv'
  <2>1. pc["clock"] # "sending" /\ outbox' = [outbox EXCEPT !["clock"] = events]
    BY <1>10 DEF End
  <2>2. \A i \in DOMAIN events : events[i].type # "VoteCast" /\ events[i].type # "CandidateNominated"
    BY <1>10
  <2>3. VotesTold'
    BY <1>1, <1>4, <2>1, <2>2, OthersTold
  <2> QED
    BY <1>4, <1>7, <1>10, <2>2, <2>3, CommitTold, GovernmentAssumption
<1>11. CASE Cascade(e) = "decided" /\ End("clock", e, <<o>>)
  <2>1. <<o>> \in Seq(Posted) /\ \A i \in DOMAIN <<o>> : <<o>>[i] = o
    BY <1>9, <1>11
  <2> QED
    BY <1>9, <1>10, <1>11, <2>1
<1>12. CASE End("clock", e, <<>>)
  <2>1. <<>> \in Seq(Posted) /\ DOMAIN <<>> = {}
    OBVIOUS
  <2> QED
    BY <1>10, <1>12, <2>1
<1> QED
  BY <1>5, <1>11, <1>12

(* A commit of the listener posts one outcome, of a record not yet claimed.  *)
LEMMA OutcomePosted ==
  ASSUME GovInv, BusInv, pc["listener"] # "sending", pc' = [pc EXCEPT !["listener"] = "sending"],
         NEW c \in Command, c \notin processed, processed' = processed \union {c},
         NEW o \in Posted, o.command = c, outbox' = [outbox EXCEPT !["listener"] = <<o>>],
         o.type = "CandidateNominated" => Told(o.election),
         UNCHANGED <<status, ledger, gaps>>, VotesTold'
  PROVE  BusInv'
<1> USE ThreadNames
<1>1. ThreadShape /\ BusShape /\ ToldInOrder /\ OutcomesTold
  BY DEF GovInv, Threads, BusInv
<1>2. <<o>> \in Seq(Posted) /\ \A i \in DOMAIN <<o>> : <<o>>[i] = o
  OBVIOUS
<1>3. Announces(<<o>>)
  BY <1>2 DEF Announces
<1>4. \A e \in Election : status'[e] = "none" => status[e] = "none" /\ e # "listener"
  OBVIOUS
<1>5. BusShape' /\ ToldInOrder'
  BY <1>1, <1>2, <1>3, <1>4, PostingInOrder
<1>6. OutcomesTold'
  BY <1>1, OutcomeTold
<1>7. RecordUnclaimed'
  BY <1>1 DEF ThreadShape, RecordUnclaimed
<1> QED
  BY <1>5, <1>6, <1>7 DEF BusInv

LEMMA OutcomesArePosted ==
  ASSUME offset \in [Villager -> Nat], NEW v \in Villager, HasNext(v),
         NEW type \in EventType
  PROVE  /\ Record(v) \in Command /\ Outcome(type, Record(v)) \in Posted
         /\ Outcome(type, Record(v)).command = Record(v) /\ Outcome(type, Record(v)).type = type
         /\ Outcome(type, Record(v)).election = Request[Record(v)].election
         /\ Outcome(type, Record(v)).villager = Request[Record(v)].villager
<1>1. Topic[v] \in Seq(Command) /\ offset[v] + 1 \in 1..Len(Topic[v])
  BY GovernmentAssumption DEF HasNext
<1>2. Record(v) \in Command
  BY <1>1 DEF Record
<1> QED
  BY <1>2, RecordsAreRequests DEF Outcome, Event, Posted

LEMMA ListenerTells ==
  ASSUME GovInv, BusInv, ListenerHandles
  PROVE  BusInv'
<1> USE ThreadNames
<1>1. Threads /\ ThreadShape /\ FactShape /\ BusShape /\ VotesTold /\ RecordUnclaimed
  BY DEF GovInv, Threads, Facts, BusInv
<1>2. pc["listener"] = "locked"
  BY DEF ListenerHandles
<1>3. Holds("listener")
  BY <1>1, <1>2 DEF Threads, LocksHeld
<1> DEFINE c == Record(handling)
           q == Request[c]
<1>4. PICK e \in Election : e = q.election /\ e = Target("listener")
  BY <1>3 DEF Holds, Target
<1>5. handling \in Villager /\ HasNext(handling)
  BY <1>3 DEF Holds, Ready
<1>6. q.villager \in Villager /\ q.candidate \in Villager \union {None} /\ c \in Command
  BY <1>1, <1>5, RecordsAreRequests, OutcomesArePosted DEF ThreadShape, EventType
<1>7. c \notin processed /\ BagIn(Started(e), ledger)
  BY <1>1, <1>2, <1>4 DEF RecordUnclaimed
<1>8. ASSUME NEW type \in EventType
      PROVE  /\ Outcome(type, c) \in Posted /\ Outcome(type, c).command = c /\ Outcome(type, c).type = type
             /\ Outcome(type, c).election = e /\ Outcome(type, c).villager = q.villager
  BY <1>1, <1>4, <1>5, OutcomesArePosted DEF ThreadShape
<1>9. /\ processed' = processed \union {c} /\ UNCHANGED <<status, ledger, gaps>>
      /\ \/ /\ ~HasVoted(e, q.villager) /\ IsCandidate(e, q.candidate) /\ InsertVote(e, q.villager, q.candidate)
            /\ End("listener", e, <<Outcome("VoteCast", c)>>)
         \/ UNCHANGED votes /\ End("listener", e, <<Outcome("CandidateNominated", c)>>)
         \/ UNCHANGED votes /\ End("listener", e, <<Outcome("GovernanceRejected", c)>>)
  BY <1>4 DEF ListenerHandles, busVars
<1> HIDE DEF c, q
<1>10. ASSUME NEW type \in EventType, End("listener", e, <<Outcome(type, c)>>), VotesTold' PROVE BusInv'
  <2>1. pc["listener"] # "sending" /\ pc' = [pc EXCEPT !["listener"] = "sending"]
        /\ outbox' = [outbox EXCEPT !["listener"] = <<Outcome(type, c)>>]
    BY <1>10 DEF End
  <2>2. Told(e)
    BY <1>7 DEF Told
  <2> QED
    BY <1>6, <1>7, <1>8, <1>9, <1>10, <2>1, <2>2, OutcomePosted
<1>11. ASSUME NEW type \in EventType, type # "VoteCast", UNCHANGED votes,
              End("listener", e, <<Outcome(type, c)>>)
       PROVE  BusInv'
  <2>1. pc["listener"] # "sending" /\ outbox' = [outbox EXCEPT !["listener"] = <<Outcome(type, c)>>]
    BY <1>11 DEF End
  <2>2. \A i \in DOMAIN <<Outcome(type, c)>> : <<Outcome(type, c)>>[i].type # "VoteCast"
    BY <1>8, <1>11
  <2>3. VotesTold'
    BY <1>1, <1>9, <1>11, <2>1, <2>2, OthersTold
  <2> QED
    BY <1>10, <1>11, <2>3
<1>12. CASE /\ ~HasVoted(e, q.villager) /\ IsCandidate(e, q.candidate) /\ InsertVote(e, q.villager, q.candidate)
            /\ End("listener", e, <<Outcome("VoteCast", c)>>)
  <2>1. pc["listener"] # "sending" /\ outbox' = [outbox EXCEPT !["listener"] = <<Outcome("VoteCast", c)>>]
    BY <1>12 DEF End
  <2>2. q.candidate \in Villager
    BY <1>1, <1>12 DEF IsCandidate, FactShape
  <2>3. "VoteCast" \in EventType
    BY DEF EventType
  <2>4. VotesTold'
    <3>1. PICK o : o = Outcome("VoteCast", c)
      OBVIOUS
    <3>2. o.election = e /\ o.villager = q.villager
      BY <1>8, <2>3, <3>1
    <3>3. outbox' = [outbox EXCEPT !["listener"] = <<o>>]
      BY <2>1, <3>1
    <3> QED
      BY <1>1, <1>6, <1>9, <1>12, <2>1, <2>2, <3>2, <3>3, VoteTold
  <2> QED
    BY <1>10, <1>12, <2>3, <2>4
<1>13. "CandidateNominated" \in EventType /\ "GovernanceRejected" \in EventType
  BY DEF EventType
<1> QED
  BY <1>9, <1>11, <1>12, <1>13

LEMMA RejectionTold ==
  ASSUME GovInv, BusInv, NEW v \in Villager, RejectUnread(v)
  PROVE  BusInv'
<1> USE ThreadNames
<1>1. ThreadShape /\ BusShape /\ VotesTold
  BY DEF GovInv, Threads, BusInv
<1> DEFINE c == Record(v)
           o == Outcome("GovernanceRejected", c)
<1>2. /\ HasNext(v) /\ c \notin processed /\ pc["listener"] # "sending"
      /\ pc' = [pc EXCEPT !["listener"] = "sending"] /\ processed' = processed \union {c}
      /\ outbox' = [outbox EXCEPT !["listener"] = <<o>>] /\ UNCHANGED <<status, votes, ledger, gaps>>
  BY DEF RejectUnread, Published, Claims, electionVars, busVars
<1>3. "GovernanceRejected" \in EventType
  BY DEF EventType
<1>4. c \in Command /\ o \in Posted /\ o.command = c /\ o.type = "GovernanceRejected"
  BY <1>1, <1>2, <1>3, OutcomesArePosted DEF ThreadShape
<1> HIDE DEF o, c
<1>5. VotesTold'
  <2>1. \A i \in DOMAIN <<o>> : <<o>>[i].type # "VoteCast"
    BY <1>4
  <2> QED
    BY <1>1, <1>2, <2>1, OthersTold
<1> QED
  BY <1>2, <1>4, <1>5, OutcomePosted

LEMMA QuietSteps ==
  ASSUME GovInv, BusInv,
         \/ \E r \in Caller : RestLocks(r)
         \/ \E v \in Villager : PassOver(v) \/ ListenerLocks(v)
         \/ ClockTicks \/ ClockLocks \/ TimePasses \/ UNCHANGED vars
         \/ \E t \in Thread : Return(t) \/ RollsBack(t)
  PROVE  BusInv'
<1> USE ThreadNames
<1>1. ThreadShape /\ BusShape /\ RecordUnclaimed
  BY DEF GovInv, Threads, BusInv
<1>2. UNCHANGED <<ledger, gaps, outbox, votes, processed, status>>
  BY DEF RestLocks, PassOver, ListenerLocks, ClockTicks, ClockLocks, TimePasses, vars, Return, RollsBack,
         electionVars, busVars, threadVars
<1>3. ASSUME NEW t \in Thread, pc[t] # "sending" \/ outbox[t] = <<>>,
             \/ pc' = [pc EXCEPT ![t] = "idle"] /\ (t # "listener" => UNCHANGED <<offset, handling>>)
             \/ pc' = [pc EXCEPT ![t] = "locked"] /\ t # "listener" /\ UNCHANGED <<offset, handling>>
      PROVE  BusInv'
  <2>1. pc'[t] \in {"idle", "locked"} /\ (t = "listener" => pc'[t] = "idle")
        /\ \A u \in Thread : u # t => pc'[u] = pc[u]
    BY <1>1, <1>3 DEF ThreadShape
  <2>2. pc'["listener"] = "locked" => pc["listener"] = "locked" /\ UNCHANGED <<offset, handling, processed>>
    BY <1>2, <1>3, <2>1
  <2>3. RecordUnclaimed'
    BY <1>1, <1>2, <2>2, UnclaimedKept DEF BagIn
  <2>4. \A u \in Thread : pc'[u] # "sending" => pc[u] # "sending" \/ outbox[u] = <<>>
    BY <1>3, <2>1
  <2>5. \A e \in Election : pc'[e] = "sending" => pc[e] = "sending"
    BY <2>1
  <2> QED
    BY <1>2, <2>3, <2>4, <2>5, NothingTold
<1>4. ASSUME UNCHANGED pc, pc["listener"] = "idle" \/ UNCHANGED <<offset, handling>> PROVE BusInv'
  <2>1. RecordUnclaimed'
    BY <1>1, <1>2, <1>4, UnclaimedKept DEF BagIn
  <2> QED
    BY <1>2, <1>4, <2>1, NothingTold
<1>5. ASSUME NEW r \in Caller, RestLocks(r) PROVE BusInv'
  BY <1>3, <1>5 DEF RestLocks, LockElection, busVars
<1>6. CASE ClockLocks
  BY <1>3, <1>6 DEF ClockLocks, LockElection, busVars
<1>7. CASE ClockTicks \/ TimePasses \/ UNCHANGED vars
  BY <1>4, <1>7 DEF ClockTicks, TimePasses, vars, busVars, threadVars
<1>8. ASSUME NEW v \in Villager, PassOver(v) PROVE BusInv'
  BY <1>4, <1>8 DEF PassOver, threadVars
<1>9. ASSUME NEW v \in Villager, ListenerLocks(v) PROVE BusInv'
  <2>1. /\ Claims(Record(v)) /\ Request[Record(v)].election # None /\ Published(v)
        /\ handling' = v /\ UNCHANGED offset
        /\ pc["listener"] = "idle" /\ pc' = [pc EXCEPT !["listener"] = "locked"]
    BY <1>9 DEF ListenerLocks, LockElection, busVars
  <2>2. Record(handling)' = Record(v)
    BY <2>1 DEF Record
  <2>3. RecordUnclaimed'
    BY <1>2, <2>1, <2>2 DEF RecordUnclaimed, Claims, Published, Started, Event, BagIn
  <2>4. pc'["listener"] = "locked" /\ \A u \in Thread : u # "listener" => pc'[u] = pc[u]
    BY <1>1, <2>1 DEF ThreadShape
  <2>5. \A e \in Election : pc'[e] = pc[e]
    BY <2>4
  <2>6. \A u \in Thread : pc'[u] # "sending" => pc[u] # "sending" \/ outbox[u] = <<>>
    BY <2>1, <2>4
  <2> QED
    BY <1>2, <2>3, <2>5, <2>6, NothingTold
<1>10. ASSUME NEW t \in Thread, Return(t) PROVE BusInv'
  <2>1. outbox[t] = <<>> /\ pc' = [pc EXCEPT ![t] = "idle"] /\ (t # "listener" => UNCHANGED <<offset, handling>>)
    BY <1>10 DEF Return
  <2> QED
    BY <1>3, <2>1
<1>11. ASSUME NEW t \in Thread, RollsBack(t) PROVE BusInv'
  <2>1. pc[t] = "locked" /\ pc' = [pc EXCEPT ![t] = "idle"] /\ (t # "listener" => UNCHANGED <<offset, handling>>)
    BY <1>11 DEF RollsBack, busVars
  <2> QED
    BY <1>3, <2>1
<1> QED
  BY <1>5, <1>6, <1>7, <1>8, <1>9, <1>10, <1>11

(* A send moves an event on, a crash forgets the outboxes and what they held.*)
LEMMA SendsAndCrashes ==
  ASSUME GovInv, BusInv, Crash \/ \E t \in Thread : Send(t)
  PROVE  BusInv'
<1> USE ThreadNames
<1>1. ThreadShape /\ BusShape /\ ToldInOrder /\ VotesTold /\ OutcomesTold /\ RecordUnclaimed
  BY DEF GovInv, Threads, BusInv
<1>2. UNCHANGED <<status, votes, processed, offset>>
  BY DEF Send, Crash, electionVars
<1>3. ASSUME \A S : (Once(S) => Once(S)') /\ (Absent(S) => Absent(S)')
      PROVE  VotesTold' /\ OutcomesTold'
  <2>1. VotesTold'
    BY <1>1, <1>2, <1>3 DEF VotesTold, VoteClass, HasVoted
  <2>2. OutcomesTold'
    BY <1>1, <1>2, <1>3 DEF OutcomesTold, OutcomeClass
  <2> QED
    BY <2>1, <2>2
<1>4. ASSUME NEW t \in Thread, Send(t) PROVE BusInv'
  <2>1. UNCHANGED <<pc, handling>>
    BY <1>4 DEF Send
  <2>2. /\ BusShape' /\ ToldInOrder'
        /\ \A S : (Once(S) => Once(S)') /\ (Absent(S) => Absent(S)')
        /\ \A o : BagIn(o, ledger) => BagIn(o, ledger)'
    BY <1>1, <1>4, Sending
  <2>3. RecordUnclaimed'
    BY <1>1, <1>2, <2>1, <2>2, UnclaimedKept
  <2> QED
    BY <1>3, <2>2, <2>3 DEF BusInv
<1>5. CASE Crash
  <2>1. /\ \A u \in Thread : outbox'[u] = <<>> /\ pc'[u] = "idle"
        /\ outbox' \in [Thread -> Seq(Posted)]
        /\ ledger' = ledger /\ gaps \subseteq gaps'
    BY <1>5 DEF Crash
  <2>2. \A o : BagIn(o, ledger)' <=> BagIn(o, ledger)
    BY <2>1 DEF BagIn
  <2>3. BusShape'
    BY <1>1, <2>1 DEF BusShape
  <2>4. ToldInOrder'
    <3>1. AnnouncedFirst'
      BY <1>1, <2>1 DEF ToldInOrder, AnnouncedFirst, BagIn
    <3>2. \A u \in Thread : Announces(outbox[u])'
      BY <2>1 DEF Announces
    <3> QED
      BY <3>1, <3>2 DEF ToldInOrder
  <2>5. ASSUME NEW S PROVE (Once(S) => Once(S)') /\ (Absent(S) => Absent(S)')
    BY <2>1, <2>2 DEF Once, Absent
  <2>6. RecordUnclaimed'
    BY <2>1 DEF RecordUnclaimed
  <2> QED
    BY <1>3, <2>3, <2>4, <2>5, <2>6 DEF BusInv
<1> QED
  BY <1>4, <1>5

LEMMA NothingIsToldYet == Init => BusInv
<1> SUFFICES ASSUME Init PROVE BusInv
  OBVIOUS
<1> USE ThreadNames
<1>1. /\ outbox = [t \in Thread |-> <<>>] /\ pc = [t \in Thread |-> "idle"] /\ ledger = EmptyBag
      /\ \A t \in Thread : outbox[t] = <<>> /\ pc[t] = "idle"
  BY DEF Init
<1>2. BagToSet(ledger) = {} /\ ledger \in [BagToSet(ledger) -> Nat] /\ \A o : ~BagIn(o, ledger)
  BY <1>1 DEF EmptyBag, SetToBag, BagToSet, BagIn
<1>3. BusShape
  BY <1>1, <1>2 DEF BusShape
<1>4. ToldInOrder
  BY <1>1, <1>2 DEF ToldInOrder, AnnouncedFirst, Announces
<1>5. \A S : Once(S) /\ Absent(S)
  BY <1>1, <1>2 DEF Once, Absent
<1> QED
  BY <1>1, <1>3, <1>4, <1>5 DEF BusInv, VotesTold, OutcomesTold, RecordUnclaimed

LEMMA TellingSteps == GovInv /\ BusInv /\ [Next]_vars => BusInv'
<1> SUFFICES ASSUME GovInv, BusInv, [Next]_vars PROVE BusInv'
  OBVIOUS
<1>1. CASE \E e \in Election : Open(e)
  BY <1>1, OpeningTold
<1>2. CASE \E r \in Caller : RestCasts(r)
  BY <1>2, ClientsTell
<1>3. CASE \E v \in Villager : RejectUnread(v)
  BY <1>3, RejectionTold
<1>4. CASE ListenerHandles
  BY <1>4, ListenerTells
<1>5. CASE ClockAdvances
  BY <1>5, ClockTells
<1>6. CASE Crash \/ \E t \in Thread : Send(t)
  BY <1>6, SendsAndCrashes
<1>7. CASE \/ \E r \in Caller : RestLocks(r)
           \/ \E v \in Villager : PassOver(v) \/ ListenerLocks(v)
           \/ ClockTicks \/ ClockLocks \/ TimePasses \/ UNCHANGED vars
           \/ \E t \in Thread : Return(t) \/ RollsBack(t)
  BY <1>7, QuietSteps
<1> QED
  BY <1>1, <1>2, <1>3, <1>4, <1>5, <1>6, <1>7 DEF Next

(* What is there once is one element, once.                                  *)
LEMMA OnceIsOneCopy ==
  ASSUME BusShape, NEW S, Once(S), NEW X, X = {o \in BagToSet(ledger) : o \in S}
  PROVE  Cardinality(CopiesOf(X)) <= 1
<1>1. MaxFaults \in Nat
  BY GovernmentAssumption
<1>2. CASE X = {}
  <2>1. CopiesOf(X) = {}
    BY <1>2 DEF CopiesOf
  <2> QED
    BY <2>1, FS_EmptySet
<1>3. CASE X # {}
  <2>1. PICK o \in X : TRUE
    BY <1>3
  <2>2. \A p \in X : p = o /\ ledger[p] = 1
    BY <2>1 DEF Once, BagIn
  <2>3. \A p \in CopiesOf(X) : p = <<o, 1>>
    <3> SUFFICES ASSUME NEW p \in CopiesOf(X) PROVE p = <<o, 1>>
      OBVIOUS
    <3>1. /\ p = <<p[1], p[2]>> /\ p[1] \in X /\ p[2] \in 1..(MaxFaults + 2)
          /\ p[2] <= ledger[p[1]]
      BY DEF CopiesOf
    <3>2. p[1] = o /\ p[2] = 1
      BY <1>1, <2>2, <3>1
    <3> QED
      BY <3>1, <3>2
  <2>4. CopiesOf(X) \in SUBSET {<<o, 1>>}
    BY <2>3
  <2>5. IsFiniteSet({<<o, 1>>}) /\ Cardinality({<<o, 1>>}) = 1
    BY FS_Singleton
  <2>6. Cardinality(CopiesOf(X)) <= Cardinality({<<o, 1>>})
    BY <2>4, <2>5, FS_Subset
  <2> QED
    BY <2>5, <2>6
<1> QED
  BY <1>2, <1>3

LEMMA WholeInvariant == Spec => [](GovInv /\ BusInv)
<1>1. Init => GovInv /\ BusInv
  BY GovernmentBegins, NothingIsToldYet
<1>2. (GovInv /\ BusInv) /\ [Next]_vars => (GovInv /\ BusInv)'
  BY GovernmentSteps, TellingSteps
<1> QED
  BY <1>1, <1>2, PTL DEF Spec

(* "Exactly-one-outcome" at most: whatever is redelivered, rolled back or    *)
(* lost, a command never has two outcomes, and none without its claim.       *)
THEOREM OneOutcomeOfACommand == Spec => []OneOutcomeAtMost
<1>1. GovInv /\ BusInv => OneOutcomeAtMost
  <2> SUFFICES ASSUME BusInv, NEW c \in Command
               PROVE  /\ Cardinality(CopiesOf(OutcomesOf(c))) <= 1
                      /\ OutcomesOf(c) # {} => c \in processed
    BY DEF OneOutcomeAtMost
  <2>1. BusShape /\ Once(OutcomeClass(c)) /\ (c \notin processed => Absent(OutcomeClass(c)))
    BY DEF BusInv, OutcomesTold
  <2>2. OutcomesOf(c) = {o \in BagToSet(ledger) : o \in OutcomeClass(c)}
    BY <2>1 DEF OutcomesOf, OutcomeClass, BusShape
  <2>3. OutcomesOf(c) # {} => c \in processed
    BY <2>1, <2>2 DEF Absent, BagIn
  <2> QED
    BY <2>1, <2>2, <2>3, OnceIsOneCopy
<1> QED
  BY <1>1, WholeInvariant, PTL

(* Over whichever route a vote comes, it is announced at most once, and only *)
(* if it is stored.                                                          *)
THEOREM AVoteIsToldOnce == Spec => []VoteCastOnce
<1>1. GovInv /\ BusInv => VoteCastOnce
  <2> SUFFICES ASSUME BusInv, NEW e \in Election, NEW v \in Villager
               PROVE  /\ Cardinality(CopiesOf(VoteEvents(e, v))) <= 1
                      /\ VoteEvents(e, v) # {} => HasVoted(e, v)
    BY DEF VoteCastOnce
  <2>1. BusShape /\ Once(VoteClass(e, v)) /\ (~HasVoted(e, v) => Absent(VoteClass(e, v)))
    BY DEF BusInv, VotesTold
  <2>2. VoteEvents(e, v) = {o \in BagToSet(ledger) : o \in VoteClass(e, v)}
    BY <2>1 DEF VoteEvents, VoteClass, BusShape
  <2>3. VoteEvents(e, v) # {} => HasVoted(e, v)
    BY <2>1, <2>2 DEF Absent, BagIn
  <2> QED
    BY <2>1, <2>2, <2>3, OnceIsOneCopy
<1> QED
  BY <1>1, WholeInvariant, PTL

(* A candidacy is on the ledger behind its election, or the announcement of  *)
(* the election was lost.                                                    *)
THEOREM ElectionsAreToldFirst == Spec => []AnnouncedFirst
<1>1. GovInv /\ BusInv => AnnouncedFirst
  BY DEF BusInv, ToldInOrder
<1> QED
  BY <1>1, WholeInvariant, PTL

-----------------------------------------------------------------------------
(* Types, and no partition acknowledged past its end.                        *)

(* What TypeOK says beyond the shapes above, and that the listener sends     *)
(* for a record that is there.                                               *)
Bounds ==
  /\ startsAt \in [Election -> 0..Horizon]
  /\ processed \subseteq Command
  /\ \A v \in Villager : offset[v] <= Len(Topic[v])
  /\ tick \in 0..Horizon /\ now \in 0..Horizon /\ faults \in 0..MaxFaults
  /\ pc["listener"] = "sending" => Ready("listener")

LEMMA BoundsBegin == Init => Bounds
<1> SUFFICES ASSUME Init PROVE Bounds
  OBVIOUS
<1>1. \A v \in Villager : Len(Topic[v]) \in Nat
  BY GovernmentAssumption
<1>2. pc["listener"] = "idle" /\ 0 \in 0..Horizon /\ 0 \in 0..MaxFaults
  BY GovernmentAssumption, ThreadNames DEF Init
<1> QED
  BY <1>1, <1>2 DEF Init, Bounds

(* A record is acknowledged by Return and PassOver alone, and it is there.   *)
LEMMA BoundsKept == GovInv /\ Bounds /\ [Next]_vars => Bounds'
<1> SUFFICES ASSUME GovInv, Bounds, [Next]_vars PROVE Bounds'
  OBVIOUS
<1> USE ThreadNames, GovernmentAssumption
<1>1. ThreadShape /\ Threads
  BY DEF GovInv, Threads
<1>2. ASSUME UNCHANGED <<startsAt, processed, offset, tick, now, faults, handling>>,
             pc'["listener"] = "sending" => pc["listener"] \in {"sending", "locked"}
      PROVE  Bounds'
  <2>1. pc["listener"] = "locked" => Ready("listener")
    BY <1>1 DEF Threads, LocksHeld, Holds
  <2>2. pc'["listener"] = "sending" => Ready("listener")'
    BY <1>2, <2>1 DEF Bounds, Ready, HasNext
  <2> QED
    BY <1>2, <2>2 DEF Bounds
<1>3. ASSUME NEW e \in Election, Open(e) PROVE Bounds'
  <2>1. /\ now + Opening[e].delay + Opening[e].nominating + Opening[e].voting <= Horizon
        /\ startsAt' = [startsAt EXCEPT ![e] = now + Opening[e].delay]
        /\ pc' = [pc EXCEPT ![e] = "sending"]
        /\ UNCHANGED <<processed, offset, tick, now, faults, handling>>
    BY <1>3 DEF Open, busVars, clockVars
  <2>2. now + Opening[e].delay \in 0..Horizon
    <3>1. PICK d, n, v, w \in Nat : /\ now = w /\ Opening[e].delay = d
                                    /\ Opening[e].nominating = n /\ Opening[e].voting = v
      BY DEF Bounds
    <3>2. w + d + n + v <= Horizon
      BY <2>1, <3>1
    <3> QED
      BY <3>1, <3>2
  <2>3. startsAt' \in [Election -> 0..Horizon]
    BY <2>1, <2>2 DEF Bounds
  <2>4. pc'["listener"] = pc["listener"]
    BY <1>1, <2>1 DEF ThreadShape
  <2>5. pc'["listener"] = "sending" => Ready("listener")'
    BY <2>1, <2>4 DEF Bounds, Ready, HasNext
  <2> QED
    BY <2>1, <2>3, <2>5 DEF Bounds
<1>4. ASSUME NEW r \in Caller, RestLocks(r) \/ RestCasts(r) PROVE Bounds'
  <2>1. UNCHANGED <<startsAt, processed, offset, tick, now, faults, handling>>
    BY <1>4 DEF RestLocks, RestCasts, electionVars, busVars, clockVars
  <2>2. \/ pc' = [pc EXCEPT ![r] = "locked"]
        \/ pc' = [pc EXCEPT ![r] = "sending"]
    BY <1>4 DEF RestLocks, RestCasts, LockElection, End
  <2>3. pc'["listener"] = pc["listener"]
    BY <1>1, <2>2 DEF ThreadShape
  <2> QED
    BY <1>2, <2>1, <2>3
<1>5. ASSUME NEW v \in Villager, PassOver(v) PROVE Bounds'
  <2>1. /\ HasNext(v) /\ offset' = [offset EXCEPT ![v] = @ + 1] /\ pc["listener"] = "idle"
        /\ UNCHANGED <<startsAt, processed, tick, now, faults, pc>>
    BY <1>5 DEF PassOver, Published, Acked, electionVars, clockVars, threadVars
  <2>2. \A w \in Villager : offset'[w] <= Len(Topic[w])
    BY <1>1, <2>1 DEF Bounds, HasNext, ThreadShape
  <2> QED
    BY <2>1, <2>2 DEF Bounds
<1>6. ASSUME NEW v \in Villager, RejectUnread(v) PROVE Bounds'
  <2>1. /\ HasNext(v) /\ handling' = v /\ processed' = processed \union {Record(v)}
        /\ UNCHANGED <<startsAt, offset, tick, now, faults>>
    BY <1>6 DEF RejectUnread, Published, electionVars, busVars, clockVars
  <2>2. Record(v) \in Command
    BY <1>1, <2>1, OutcomesArePosted DEF ThreadShape, EventType
  <2>3. Ready("listener")'
    BY <2>1 DEF Ready, HasNext
  <2> QED
    BY <2>1, <2>2, <2>3 DEF Bounds
<1>7. ASSUME NEW v \in Villager, ListenerLocks(v) PROVE Bounds'
  <2>1. /\ pc' = [pc EXCEPT !["listener"] = "locked"]
        /\ UNCHANGED <<startsAt, processed, offset, tick, now, faults>>
    BY <1>7 DEF ListenerLocks, LockElection, electionVars, busVars, clockVars
  <2>2. pc'["listener"] = "locked"
    BY <1>1, <2>1 DEF ThreadShape
  <2> QED
    BY <2>1, <2>2 DEF Bounds
<1>8. CASE ListenerHandles
  <2>1. /\ UNCHANGED <<startsAt, offset, tick, now, faults, handling>>
        /\ pc["listener"] = "locked" /\ processed' = processed \union {Record(handling)}
    BY <1>8 DEF ListenerHandles, busVars, clockVars
  <2>2. Holds("listener")
    BY <1>1, <2>1 DEF Threads, LocksHeld
  <2>3. Record(handling) \in Command
    BY <1>1, <2>2, OutcomesArePosted DEF ThreadShape, EventType, Holds, Ready
  <2>4. Ready("listener")'
    BY <2>1, <2>2 DEF Ready, HasNext, Holds
  <2> QED
    BY <2>1, <2>3, <2>4 DEF Bounds
<1>9. CASE ClockTicks
  <2>1. UNCHANGED <<startsAt, processed, offset, now, faults, handling, pc>> /\ tick' = now
    BY <1>9 DEF ClockTicks, electionVars, busVars, threadVars
  <2> QED
    BY <2>1 DEF Bounds, Ready, HasNext
<1>10. CASE ClockLocks \/ ClockAdvances
  <2>1. UNCHANGED <<startsAt, processed, offset, tick, now, faults, handling>>
    BY <1>10 DEF ClockLocks, ClockAdvances, electionVars, busVars, clockVars
  <2>2. \/ pc' = [pc EXCEPT !["clock"] = "locked"]
        \/ pc' = [pc EXCEPT !["clock"] = "sending"]
    BY <1>10 DEF ClockLocks, ClockAdvances, LockElection, End
  <2>3. pc'["listener"] = pc["listener"]
    BY <1>1, <2>2 DEF ThreadShape
  <2> QED
    BY <1>2, <2>1, <2>3
<1>11. ASSUME NEW t \in Thread, Send(t) PROVE Bounds'
  <2>1. /\ UNCHANGED <<startsAt, processed, offset, tick, now, handling, pc>>
        /\ faults' = faults \/ (faults < MaxFaults /\ faults' = faults + 1)
    BY <1>11 DEF Send, electionVars, clockVars
  <2>2. faults' \in 0..MaxFaults
    BY <2>1 DEF Bounds
  <2> QED
    BY <2>1, <2>2 DEF Bounds, Ready, HasNext
<1>12. ASSUME NEW t \in Thread, Return(t) PROVE Bounds'
  <2>1. /\ UNCHANGED <<startsAt, processed, tick, now, faults>>
        /\ pc[t] = "sending" /\ pc' = [pc EXCEPT ![t] = "idle"]
        /\ t = "listener" => offset' = [offset EXCEPT ![handling] = @ + 1]
        /\ t # "listener" => UNCHANGED <<offset, handling>>
    BY <1>12 DEF Return, Acked, electionVars
  <2>2. CASE t = "listener"
    <3>1. handling \in Villager /\ HasNext(handling)
      BY <2>1, <2>2 DEF Bounds, Ready
    <3>2. \A w \in Villager : offset'[w] <= Len(Topic[w])
      <4>1. PICK v \in Villager : v = handling
        BY <3>1
      <4>2. offset[v] \in Nat /\ Len(Topic[v]) \in Nat /\ offset[v] < Len(Topic[v])
        BY <1>1, <3>1, <4>1 DEF HasNext, ThreadShape
      <4>3. offset'[v] = offset[v] + 1 /\ \A w \in Villager : w # v => offset'[w] = offset[w]
        BY <1>1, <2>1, <2>2, <4>1 DEF ThreadShape
      <4>4. offset'[v] <= Len(Topic[v])
        BY <4>2, <4>3
      <4> QED
        BY <4>3, <4>4 DEF Bounds
    <3>3. pc'["listener"] = "idle"
      BY <1>1, <2>1, <2>2 DEF ThreadShape
    <3> QED
      BY <2>1, <3>2, <3>3 DEF Bounds
  <2>3. CASE t # "listener"
    <3>1. pc'["listener"] = pc["listener"]
      BY <1>1, <2>1, <2>3 DEF ThreadShape
    <3> QED
      BY <1>2, <2>1, <2>3, <3>1
  <2> QED
    BY <2>2, <2>3
<1>13. ASSUME NEW t \in Thread, RollsBack(t) PROVE Bounds'
  <2>1. /\ UNCHANGED <<startsAt, processed, offset, tick, now>>
        /\ faults < MaxFaults /\ faults' = faults + 1 /\ pc' = [pc EXCEPT ![t] = "idle"]
        /\ handling' = IF t = "listener" THEN None ELSE handling
    BY <1>13 DEF RollsBack, electionVars, busVars
  <2>2. faults' \in 0..MaxFaults
    BY <2>1 DEF Bounds
  <2>3. pc'["listener"] = "sending" => t # "listener" /\ pc["listener"] = "sending"
    BY <1>1, <2>1 DEF ThreadShape
  <2>4. pc'["listener"] = "sending" => Ready("listener")'
    BY <2>1, <2>3 DEF Bounds, Ready, HasNext
  <2> QED
    BY <2>1, <2>2, <2>4 DEF Bounds
<1>14. CASE Crash
  <2>1. /\ UNCHANGED <<startsAt, processed, offset, now>> /\ tick' = 0
        /\ faults < MaxFaults /\ faults' = faults + 1 /\ pc'["listener"] = "idle"
    BY <1>14 DEF Crash, electionVars
  <2>2. faults' \in 0..MaxFaults /\ tick' \in 0..Horizon
    BY <2>1 DEF Bounds
  <2> QED
    BY <2>1, <2>2 DEF Bounds
<1>15. CASE TimePasses
  <2>1. /\ UNCHANGED <<startsAt, processed, offset, tick, faults, handling, pc>>
        /\ now < Horizon /\ now' = now + 1
    BY <1>15 DEF TimePasses, electionVars, busVars, threadVars, clockVars
  <2>2. now' \in 0..Horizon
    BY <2>1 DEF Bounds
  <2> QED
    BY <2>1, <2>2 DEF Bounds, Ready, HasNext
<1>16. CASE UNCHANGED vars
  BY <1>2, <1>16 DEF vars, electionVars, busVars, threadVars, clockVars
<1> QED
  BY <1>3, <1>4, <1>5, <1>6, <1>7, <1>8, <1>9, <1>10, <1>11, <1>12, <1>13, <1>14, <1>15, <1>16 DEF Next

(* Types, and no partition is ever acknowledged past its end.                *)
THEOREM GovernmentTypes == Spec => []TypeOK
<1>1. Init => GovInv /\ Bounds
  BY GovernmentBegins, BoundsBegin
<1>2. (GovInv /\ Bounds) /\ [Next]_vars => (GovInv /\ Bounds)'
  BY GovernmentSteps, BoundsKept
<1>3. GovInv /\ Bounds => TypeOK
  <2> SUFFICES ASSUME GovInv, Bounds PROVE TypeOK
    OBVIOUS
  <2>1. FactShape /\ ThreadShape
    BY DEF GovInv, Facts, Threads
  <2>2. \A v \in Villager : offset[v] \in 0..Len(Topic[v])
    BY <2>1, GovernmentAssumption DEF Bounds, ThreadShape
  <2>3. mayors \in Seq([mayor : Villager, active : BOOLEAN])
    BY <2>1 DEF FactShape, Government
  <2> QED
    BY <2>1, <2>2, <2>3 DEF FactShape, ThreadShape, Bounds, TypeOK
<1> QED
  BY <1>1, <1>2, <1>3, PTL DEF Spec
=============================================================================
