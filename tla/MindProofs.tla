----------------------------- MODULE MindProofs -----------------------------
(* What the mind of a villager does for any number of villagers, any budget, *)
(* clock, intents and memories: what a day's calls may cost, the pace of its *)
(* ticks, what a tick remembers and advises, and what reflection skips.      *)
EXTENDS TokenBudget, TickScheduler, TickGraph, CivicState, Reflection, Curriculum,
        NumberLemmas, FiniteSetTheorems, SequenceTheorems, TLAPS

(* The budget. *)

Pending(d) == {c \in Caller : call[c].stage # "none" /\ call[c].day = d}

CallRecord == [stage : {"none", "queued", "flying"}, day : 0..MaxDays]

BudgetShape ==
  /\ today \in 1..MaxDays
  /\ wallet \in [day : 1..MaxDays, spent : Nat, tripped : BOOLEAN]
  /\ call \in [Caller -> CallRecord] /\ answered \in [1..MaxDays -> Nat]
  /\ \A c \in Caller : call[c].stage # "none" => call[c].day \in 1..MaxDays

(* The breaker knows all that its day was answered, and days it was not      *)
(* rolled to have no calls yet.                                              *)
BreakerKnows ==
  /\ wallet.day <= today
  /\ ~wallet.tripped => wallet.spent < Budget
  /\ answered[wallet.day] <= wallet.spent
  /\ \A d \in 1..MaxDays : d > wallet.day => answered[d] = 0 /\ Pending(d) = {}

(* The overrun is what the pending calls may yet cost: a call is begun below *)
(* the budget, and a villager has one call.                                  *)
OverrunIsPending ==
  \A d \in 1..MaxDays :
    answered[d] + Cardinality(Pending(d)) * MaxTokens < Budget + Cardinality(Caller) * MaxTokens

BudgetInv == BudgetShape /\ BreakerKnows /\ OverrunIsPending

LEMMA PendingFacts ==
  ASSUME NEW d
  PROVE  /\ IsFiniteSet(Pending(d)) /\ Cardinality(Pending(d)) \in Nat /\ Cardinality(Caller) \in Nat
         /\ Cardinality(Pending(d)) <= Cardinality(Caller)
<1>1. Pending(d) \in SUBSET Caller
  BY DEF Pending
<1> QED
  BY <1>1, TokenBudgetAssumption, FS_Subset, FS_CardinalityType

LEMMA BudgetBegins == BudgetInit => BudgetInv
<1> SUFFICES ASSUME BudgetInit PROVE BudgetInv
  OBVIOUS
<1> USE TokenBudgetAssumption
<1>1. NoCall \in CallRecord /\ NoCall.stage = "none"
  BY DEF NoCall, CallRecord
<1>2. \A c \in Caller : call[c] = NoCall
  BY DEF BudgetInit
<1>3. \A d \in 1..MaxDays : Pending(d) = {}
  BY <1>1, <1>2 DEF Pending
<1>4. BudgetShape
  BY <1>1, <1>2 DEF BudgetInit, BudgetShape
<1>5. BreakerKnows
  BY <1>3 DEF BudgetInit, BreakerKnows
<1>6. OverrunIsPending
  <2>1. Cardinality(Caller) * MaxTokens \in Nat
    BY FS_CardinalityType
  <2>2. \A d \in 1..MaxDays : answered[d] = 0 /\ Cardinality(Pending(d)) = 0
    BY <1>3, FS_EmptySet DEF BudgetInit
  <2> QED
    BY <2>1, <2>2 DEF OverrunIsPending
<1> QED
  BY <1>4, <1>5, <1>6 DEF BudgetInv

(* A call that goes leaves room for what it was answered.                    *)
LEMMA CallGoes ==
  ASSUME BudgetInv, NEW c \in Caller, call[c].stage # "none", call' = [call EXCEPT ![c] = NoCall],
         NEW tokens \in 0..MaxTokens, answered' = [answered EXCEPT ![call[c].day] = @ + tokens],
         wallet' \in [day : 1..MaxDays, spent : Nat, tripped : BOOLEAN],
         wallet'.day = wallet.day, wallet'.spent = wallet.spent + tokens,
         ~wallet'.tripped => wallet'.spent < Budget,
         today' = today
  PROVE  BudgetInv'
<1> USE TokenBudgetAssumption
<1>0. BudgetShape /\ BreakerKnows /\ OverrunIsPending
  BY DEF BudgetInv
<1>1. PICK day \in 1..MaxDays : day = call[c].day
  BY <1>0 DEF BudgetShape
<1>2. c \in Pending(day)
  BY <1>1 DEF Pending
<1>3. NoCall \in CallRecord /\ NoCall.stage = "none"
  BY DEF NoCall, CallRecord
<1>4. /\ call'[c] = NoCall /\ call' \in [Caller -> CallRecord]
      /\ \A b \in Caller \ {c} : call'[b] = call[b]
  BY <1>0, <1>3 DEF BudgetShape
<1>5. /\ answered' \in [1..MaxDays -> Nat] /\ answered'[day] = answered[day] + tokens
      /\ \A d \in 1..MaxDays : d # day => answered'[d] = answered[d]
  BY <1>0, <1>1 DEF BudgetShape
<1>6. wallet.spent \in Nat /\ tokens \in Nat
  BY <1>0 DEF BudgetShape
<1>7. Pending(day)' = Pending(day) \ {c} /\ \A d \in 1..MaxDays : d # day => Pending(d)' = Pending(d)
  BY <1>1, <1>3, <1>4 DEF Pending
<1>8. BudgetShape'
  BY <1>0, <1>3, <1>4, <1>5, <1>6 DEF BudgetShape
<1>9. day <= wallet.day
  BY <1>0, <1>1, <1>2 DEF BreakerKnows, BudgetShape
<1>10. BreakerKnows'
  <2>1. answered'[wallet.day] <= wallet'.spent
    BY <1>0, <1>5, <1>6 DEF BreakerKnows, BudgetShape
  <2>2. \A d \in 1..MaxDays : d > wallet.day => answered'[d] = 0 /\ Pending(d)' = {}
    BY <1>0, <1>1, <1>5, <1>7, <1>9 DEF BreakerKnows, BudgetShape
  <2> QED
    BY <1>0, <1>6, <2>1, <2>2 DEF BreakerKnows, BudgetShape
<1>11. ASSUME NEW d \in 1..MaxDays
       PROVE answered'[d] + Cardinality(Pending(d)') * MaxTokens < Budget + Cardinality(Caller) * MaxTokens
  <2>1. CASE d # day
    BY <1>0, <1>5, <1>7, <2>1 DEF OverrunIsPending
  <2>2. CASE d = day
    <3> DEFINE n == Cardinality(Pending(day)')
               room == Cardinality(Caller) * MaxTokens
    <3>1. /\ IsFiniteSet(Pending(day)) /\ Cardinality(Pending(day)) \in Nat
          /\ n = Cardinality(Pending(day)) - 1
      BY <1>7, <1>2, PendingFacts, FS_RemoveElement
    <3>2. n \in Nat /\ Cardinality(Pending(day)) = n + 1
      <4>1. IsFiniteSet(Pending(day)')
        BY <1>7, <3>1, FS_RemoveElement
      <4> QED
        BY <3>1, <4>1, FS_CardinalityType
    <3>3. (n + 1) * MaxTokens = n * MaxTokens + MaxTokens /\ n * MaxTokens \in Nat
      BY <3>2, OneLess
    <3>4. room \in Nat
      BY PendingFacts
    <3>5. answered[day] + (n + 1) * MaxTokens < Budget + room
      BY <1>0, <1>1, <3>2 DEF OverrunIsPending
    <3>6. answered[day] \in Nat /\ tokens <= MaxTokens /\ tokens \in Nat
      BY <1>0, <1>1 DEF BudgetShape
    <3> DEFINE cost == n * MaxTokens
    <3>7. cost \in Nat /\ answered[day] + (cost + MaxTokens) < Budget + room
      BY <3>3, <3>5
    <3> HIDE DEF cost, room
    <3>8. (answered[day] + tokens) + cost < Budget + room
      BY <3>4, <3>6, <3>7
    <3> QED
      BY <1>5, <2>2, <3>8 DEF cost, room
  <2> QED
    BY <2>1, <2>2
<1>12. OverrunIsPending'
  BY <1>11 DEF OverrunIsPending
<1> QED
  BY <1>8, <1>10, <1>12 DEF BudgetInv

LEMMA BudgetSteps ==
  ASSUME BudgetInv, [BudgetNext]_budgetVars
  PROVE  BudgetInv'
<1> USE TokenBudgetAssumption
<1>0. BudgetShape /\ BreakerKnows /\ OverrunIsPending
  BY DEF BudgetInv
<1>1. ASSUME NEW c \in Caller, Completes(c) PROVE BudgetInv'
  <2>1. /\ call[c] = NoCall /\ wallet' = Rolled /\ UNCHANGED <<today, answered>>
        /\ call' = IF Rolled.tripped THEN call
                   ELSE [call EXCEPT ![c] = [stage |-> "queued", day |-> today]]
    BY <1>1 DEF Completes, billVars
  <2>2. /\ Rolled \in [day : 1..MaxDays, spent : Nat, tripped : BOOLEAN] /\ Rolled.day = today
        /\ ~Rolled.tripped => Rolled.spent < Budget
        /\ answered[today] <= Rolled.spent
    BY <1>0 DEF Rolled, BudgetShape, BreakerKnows
  <2>3. \A d \in 1..MaxDays : d > today => answered[d] = 0 /\ Pending(d) = {}
    BY <1>0 DEF BudgetShape, BreakerKnows
  <2>4. CASE Rolled.tripped
    <3>1. call' = call /\ \A d \in 1..MaxDays : Pending(d)' = Pending(d)
      BY <2>1, <2>4 DEF Pending
    <3>2. BudgetShape'
      BY <1>0, <2>1, <2>2, <3>1 DEF BudgetShape
    <3>3. BreakerKnows'
      BY <1>0, <2>1, <2>2, <2>3, <3>1 DEF BreakerKnows, BudgetShape
    <3>4. OverrunIsPending'
      BY <1>0, <2>1, <3>1 DEF OverrunIsPending
    <3> QED
      BY <3>2, <3>3, <3>4 DEF BudgetInv
  <2>5. CASE ~Rolled.tripped
    <3>1. PICK day \in 1..MaxDays : day = today
      BY <1>0 DEF BudgetShape
    <3> DEFINE r == [stage |-> "queued", day |-> day]
    <3>2. r \in CallRecord /\ r.stage = "queued" /\ r.day = day
      BY DEF CallRecord
    <3>3. call' = [call EXCEPT ![c] = r]
      BY <2>1, <2>5, <3>1
    <3> HIDE DEF r
    <3>4. /\ call'[c] = r /\ call' \in [Caller -> CallRecord]
          /\ \A b \in Caller \ {c} : call'[b] = call[b]
      BY <1>0, <3>2, <3>3 DEF BudgetShape
    <3>5. call[c].stage = "none"
      BY <2>1 DEF NoCall
    <3>6. /\ Pending(day)' = Pending(day) \cup {c} /\ c \notin Pending(day)
          /\ \A d \in 1..MaxDays : d # day => Pending(d)' = Pending(d)
      BY <3>2, <3>4, <3>5 DEF Pending
    <3>7. BudgetShape'
      BY <1>0, <2>1, <2>2, <3>2, <3>4 DEF BudgetShape
    <3>8. BreakerKnows'
      BY <1>0, <2>1, <2>2, <2>3, <2>5, <3>1, <3>6 DEF BreakerKnows, BudgetShape
    <3>9. ASSUME NEW d \in 1..MaxDays
          PROVE answered[d] + Cardinality(Pending(d)') * MaxTokens < Budget + Cardinality(Caller) * MaxTokens
      <4>1. CASE d # day
        BY <1>0, <3>6, <4>1 DEF OverrunIsPending
      <4>2. CASE d = day
        <5> DEFINE n == Cardinality(Pending(day)')
        <5>1. n \in Nat /\ n <= Cardinality(Caller) /\ Cardinality(Caller) \in Nat
          <6>1. Pending(day)' \in SUBSET Caller
            BY DEF Pending
          <6> QED
            BY <6>1, FS_Subset, FS_CardinalityType
        <5>2. n * MaxTokens <= Cardinality(Caller) * MaxTokens
          BY <5>1, MoreCostsMore
        <5>3. n * MaxTokens \in Nat /\ Cardinality(Caller) * MaxTokens \in Nat
          BY <5>1, OneLess
        <5>4. answered[day] \in Nat /\ answered[day] < Budget
          BY <1>0, <2>2, <2>5, <3>1 DEF BudgetShape
        <5> DEFINE cost == n * MaxTokens
                   room == Cardinality(Caller) * MaxTokens
        <5>5. cost \in Nat /\ room \in Nat /\ cost <= room
          BY <5>2, <5>3
        <5> HIDE DEF cost, room
        <5>6. answered[day] + cost < Budget + room
          BY <5>4, <5>5
        <5> QED
          BY <4>2, <5>6 DEF cost, room
      <4> QED
        BY <4>1, <4>2
    <3>10. OverrunIsPending'
      BY <2>1, <3>9 DEF OverrunIsPending
    <3> QED
      BY <3>7, <3>8, <3>10 DEF BudgetInv
  <2> QED
    BY <2>4, <2>5
<1>2. ASSUME NEW c \in Caller, Admitted(c) PROVE BudgetInv'
  <2> DEFINE r == [call[c] EXCEPT !.stage = "flying"]
  <2>1. call[c].stage = "queued" /\ call' = [call EXCEPT ![c] = r] /\ UNCHANGED <<today, wallet, answered>>
    BY <1>2 DEF Admitted, billVars
  <2>2. call[c] \in CallRecord
    BY <1>0 DEF BudgetShape
  <2>3. r \in CallRecord /\ r.stage = "flying" /\ r.day = call[c].day
    BY <2>2 DEF CallRecord
  <2> HIDE DEF r
  <2>4. /\ call'[c] = r /\ call' \in [Caller -> CallRecord]
        /\ \A b \in Caller \ {c} : call'[b] = call[b]
    BY <1>0, <2>1, <2>3 DEF BudgetShape
  <2>5. \A d \in 1..MaxDays : Pending(d)' = Pending(d)
    BY <2>1, <2>3, <2>4 DEF Pending
  <2>6. BudgetShape'
    BY <1>0, <2>1, <2>3, <2>4 DEF BudgetShape
  <2> QED
    BY <1>0, <2>1, <2>5, <2>6 DEF BudgetInv, BreakerKnows, OverrunIsPending
<1>3. ASSUME NEW c \in Caller, Answered(c) PROVE BudgetInv'
  <2>1. PICK tokens \in 1..MaxTokens : /\ wallet' = Booked(wallet, tokens)
                                       /\ answered' = [answered EXCEPT ![call[c].day] = @ + tokens]
    BY <1>3 DEF Answered
  <2>2. call[c].stage # "none" /\ call' = [call EXCEPT ![c] = NoCall] /\ today' = today
    BY <1>3 DEF Answered
  <2> DEFINE tripped == wallet.tripped \/ wallet.spent + tokens >= Budget
  <2>3. wallet' = [wallet EXCEPT !.spent = @ + tokens, !.tripped = tripped]
    BY <2>1 DEF Booked
  <2>4. /\ wallet \in [day : 1..MaxDays, spent : Nat, tripped : BOOLEAN] /\ tokens \in 0..MaxTokens
        /\ Budget \in Nat
    BY <1>0 DEF BudgetShape
  <2>5. tripped \in BOOLEAN /\ wallet.spent + tokens \in Nat /\ (~tripped => wallet.spent + tokens < Budget)
    BY <2>4
  <2> HIDE DEF tripped
  <2>6. /\ wallet' \in [day : 1..MaxDays, spent : Nat, tripped : BOOLEAN]
        /\ wallet'.day = wallet.day /\ wallet'.spent = wallet.spent + tokens /\ wallet'.tripped = tripped
    BY <2>3, <2>4, <2>5
  <2> QED
    BY <2>1, <2>2, <2>4, <2>5, <2>6, CallGoes
<1>4. ASSUME NEW c \in Caller, CallFails(c) PROVE BudgetInv'
  <2>1. /\ call[c].stage # "none" /\ call' = [call EXCEPT ![c] = NoCall]
        /\ UNCHANGED <<today, wallet, answered>>
    BY <1>4 DEF CallFails
  <2>2. /\ wallet \in [day : 1..MaxDays, spent : Nat, tripped : BOOLEAN]
        /\ answered \in [1..MaxDays -> Nat] /\ call[c].day \in 1..MaxDays
        /\ ~wallet.tripped => wallet.spent + 0 < Budget
    BY <1>0, <2>1 DEF BudgetShape, BreakerKnows
  <2>3. answered' = [answered EXCEPT ![call[c].day] = @ + 0]
    BY <2>1, <2>2
  <2>4. 0 \in 0..MaxTokens /\ wallet'.spent = wallet.spent + 0 /\ wallet'.day = wallet.day
    BY <2>1, <2>2
  <2> QED
    BY <2>1, <2>2, <2>3, <2>4, CallGoes
<1>5. CASE Midnight
  <2>1. today' \in 1..MaxDays /\ today' = today + 1 /\ UNCHANGED <<wallet, call, answered>>
    BY <1>0, <1>5 DEF Midnight, BudgetShape, billVars
  <2>2. \A d \in 1..MaxDays : Pending(d)' = Pending(d)
    BY <2>1 DEF Pending
  <2>3. wallet.day <= today'
    BY <1>0, <2>1 DEF BudgetShape, BreakerKnows
  <2> QED
    BY <1>0, <2>1, <2>2, <2>3 DEF BudgetInv, BudgetShape, BreakerKnows, OverrunIsPending
<1>6. CASE UNCHANGED budgetVars
  <2>1. \A d \in 1..MaxDays : Pending(d)' = Pending(d)
    BY <1>6 DEF budgetVars, billVars, Pending
  <2> QED
    BY <1>0, <1>6, <2>1 DEF budgetVars, billVars, BudgetInv, BudgetShape, BreakerKnows, OverrunIsPending
<1>7. CASE Restarts
  <2>1. NoCall \in CallRecord /\ NoCall.stage = "none"
    BY DEF NoCall, CallRecord
  <2>2. /\ wallet' = [day |-> today, spent |-> 0, tripped |-> FALSE]
        /\ call' = [c \in Caller |-> NoCall] /\ today' = today
        /\ answered' = [d \in 1..MaxDays |-> 0]
    BY <1>7 DEF Restarts
  <2>3. \A d \in 1..MaxDays : Pending(d)' = {}
    BY <2>1, <2>2 DEF Pending
  <2>4. BudgetShape'
    BY <1>0, <2>1, <2>2 DEF BudgetShape
  <2>5. BreakerKnows'
    BY <1>0, <2>2, <2>3 DEF BudgetShape, BreakerKnows
  <2>6. OverrunIsPending'
    <3>1. Cardinality(Caller) * MaxTokens \in Nat /\ Cardinality({}) = 0 /\ 0 * MaxTokens = 0
      BY FS_CardinalityType, FS_EmptySet, OneLess
    <3>2. \A d \in 1..MaxDays : answered'[d] = 0 /\ Cardinality(Pending(d)') = 0
      BY <2>2, <2>3, <3>1
    <3> QED
      BY <3>1, <3>2 DEF OverrunIsPending
  <2> QED
    BY <2>4, <2>5, <2>6 DEF BudgetInv
<1> QED
  BY <1>1, <1>2, <1>3, <1>4, <1>5, <1>6, <1>7 DEF BudgetNext

LEMMA OverrunIsBounded ==
  ASSUME BudgetInv
  PROVE  SpendingStops
<1> SUFFICES ASSUME NEW d \in 1..MaxDays
             PROVE  answered[d] < Budget + Cardinality(Caller) * MaxTokens
  BY DEF SpendingStops
<1> DEFINE cost == Cardinality(Pending(d)) * MaxTokens
           room == Cardinality(Caller) * MaxTokens
<1>1. cost \in Nat /\ room \in Nat
  BY TokenBudgetAssumption, PendingFacts, OneLess
<1>2. answered[d] \in Nat /\ answered[d] + cost < Budget + room /\ Budget \in Nat
  BY TokenBudgetAssumption DEF BudgetInv, BudgetShape, OverrunIsPending
<1> HIDE DEF cost, room
<1>3. answered[d] < Budget + room
  BY <1>1, <1>2
<1> QED
  BY <1>3 DEF room

(* However many villagers tick at once, whatever day their calls were begun  *)
(* on and however often calls fail: what one life of the process is told of  *)
(* a day's calls is less than the budget and one answer of every villager    *)
(* (BudgetedProvider.complete).                                              *)
THEOREM SpendingAlwaysStops == BudgetInit /\ [][BudgetNext]_budgetVars => []SpendingStops
  BY BudgetBegins, BudgetSteps, OverrunIsBounded, PTL

-----------------------------------------------------------------------------
(* The pace of the ticks.  Ages fall along a list of them.                   *)

Falling(ages)         == \A i, j \in 1..Len(ages) : i < j => ages[i] >= ages[j]
StrictlyFalling(ages) == \A i, j \in 1..Len(ages) : i < j => ages[i] > ages[j]

(* A pending cause was granted after the last tick that may still count, and *)
(* every reactive tick but the oldest was granted since the one before it.   *)
GrantBehindEach ==
  \A j \in 1..Len(reactive) : j > 1 =>
    \E g \in 1..Len(granted) : reactive[j] <= granted[g] /\ granted[g] < reactive[j - 1]

GrantPending ==
  cause /\ Len(reactive) > 0 =>
    \E g \in 1..Len(granted) : granted[g] < reactive[Len(reactive)]

(* What is due is due a cooldown after the last tick.                        *)
Spaced ==
  /\ loop = "none" /\ ~stopped => sinceTick = Cooldown
  /\ loop = "delayed" => sinceTick = Cooldown
  /\ loop = "waiting" => alarm + sinceTick >= Cooldown
  /\ wakeup => sinceTick = Cooldown

PaceInv ==
  /\ SchedulerTypeOK /\ Spaced
  /\ Len(granted) <= MaxReactive /\ Falling(granted)
  /\ StrictlyFalling(reactive) /\ \A i \in 1..Len(reactive) : reactive[i] >= sinceTick
  /\ GrantBehindEach /\ GrantPending

LEMMA SeqOfFunction ==
  ASSUME NEW S, NEW m \in Nat, NEW s \in [1..m -> S]
  PROVE  s \in Seq(S) /\ Len(s) = m
OBVIOUS

LEMMA AppendFacts ==
  ASSUME NEW S, NEW s \in Seq(S), NEW e \in S
  PROVE  /\ Append(s, e) \in Seq(S) /\ Len(Append(s, e)) = Len(s) + 1
         /\ \A i \in 1..Len(s) : Append(s, e)[i] = s[i]
         /\ Append(s, e)[Len(s) + 1] = e
OBVIOUS

LEMMA SeqFacts ==
  ASSUME NEW S, NEW s \in Seq(S)
  PROVE  Len(s) \in Nat /\ \A i \in 1..Len(s) : s[i] \in S
OBVIOUS

(* What is left of a falling list of ages falls.                             *)
Aged(ages, aged, gone) ==
  /\ Len(aged) = Len(ages) - gone
  /\ \A i \in 1..Len(aged) :
       gone + i \in 1..Len(ages) /\ ages[gone + i] < Window /\ aged[i] = ages[gone + i] + 1
  /\ \A i \in 1..gone : ages[i] = Window

LEMMA AgedFalls ==
  ASSUME NEW ages \in Seq(0..Window), NEW aged \in Seq(0..Window), NEW gone \in 0..Len(ages),
         Aged(ages, aged, gone)
  PROVE  /\ Falling(ages) => Falling(aged)
         /\ StrictlyFalling(ages) => StrictlyFalling(aged)
         /\ Len(aged) \in Nat /\ Len(aged) <= Len(ages)
<1>1. /\ Len(ages) \in Nat /\ Len(aged) \in Nat /\ gone \in Nat
      /\ \A i \in 1..Len(ages) : ages[i] \in Nat
  <2>1. 0..Window \subseteq Nat
    BY TickSchedulerAssumption
  <2>2. Len(ages) \in Nat /\ Len(aged) \in Nat /\ \A i \in 1..Len(ages) : ages[i] \in 0..Window
    BY SeqFacts
  <2> QED
    BY <2>1, <2>2
<1>2. ASSUME NEW i \in 1..Len(aged), NEW j \in 1..Len(aged), i < j
      PROVE  /\ gone + i \in 1..Len(ages) /\ gone + j \in 1..Len(ages) /\ gone + i < gone + j
             /\ aged[i] = ages[gone + i] + 1 /\ aged[j] = ages[gone + j] + 1
             /\ ages[gone + i] \in Nat /\ ages[gone + j] \in Nat
  BY <1>1, <1>2 DEF Aged
<1>3. ASSUME Falling(ages) PROVE Falling(aged)
  <2> SUFFICES ASSUME NEW i \in 1..Len(aged), NEW j \in 1..Len(aged), i < j PROVE aged[i] >= aged[j]
    BY DEF Falling
  <2>1. ages[gone + i] >= ages[gone + j]
    BY <1>2, <1>3 DEF Falling
  <2> QED
    BY <1>2, <2>1
<1>4. ASSUME StrictlyFalling(ages) PROVE StrictlyFalling(aged)
  <2> SUFFICES ASSUME NEW i \in 1..Len(aged), NEW j \in 1..Len(aged), i < j PROVE aged[i] > aged[j]
    BY DEF StrictlyFalling
  <2>1. ages[gone + i] > ages[gone + j]
    BY <1>2, <1>4 DEF StrictlyFalling
  <2> QED
    BY <1>2, <2>1
<1> QED
  BY <1>1, <1>3, <1>4 DEF Aged

LEMMA OlderFacts ==
  ASSUME NEW ages \in Seq(0..Window), Falling(ages)
  PROVE  \E gone \in 0..Len(ages) :
           Older(ages) \in Seq(0..Window) /\ Aged(ages, Older(ages), gone)
<1> DEFINE G == {i \in DOMAIN ages : ages[i] = Window}
           n == Len(ages)
<1>0. n \in Nat /\ DOMAIN ages = 1..n /\ Window \in Nat /\ \A i \in 1..n : ages[i] \in 0..Window
  BY TickSchedulerAssumption
<1>1. PICK k \in 1..(n + 1) : k \notin G /\ \A i \in 1..(n + 1) : i \notin G => k <= i
  <2> DEFINE S == (1..(n + 1)) \ G
  <2>1. S \in SUBSET Nat /\ n + 1 \in S
    BY <1>0
  <2> HIDE DEF S
  <2>2. \E m \in S : \A i \in S : m <= i
    BY <2>1, LeastNumber
  <2> QED
    BY <2>2 DEF S
<1>2. G = 1..(k - 1)
  <2>1. ASSUME NEW i \in 1..n, i < k PROVE i \in G
    BY <1>0, <1>1, <2>1
  <2>2. ASSUME NEW i \in 1..n, i >= k PROVE i \notin G
    BY <1>0, <1>1, <2>2 DEF Falling
  <2> QED
    BY <1>0, <1>1, <2>1, <2>2
<1>3. Cardinality(G) = k - 1
  <2>1. 1 \in Int /\ k - 1 \in Int
    BY <1>0
  <2>2. Cardinality(1..(k - 1)) = k - 1
    BY <2>1, FS_Interval
  <2> QED
    BY <1>2, <2>2
<1>4. PICK gone \in 0..n : gone = k - 1
  BY <1>0
<1>5. Older(ages) = [i \in 1..(n - gone) |-> ages[gone + i] + 1]
  BY <1>3, <1>4 DEF Older
<1>6. \A i \in 1..(n - gone) : gone + i \in 1..n /\ ages[gone + i] < Window /\ ages[gone + i] + 1 \in 0..Window
  <2> SUFFICES ASSUME NEW i \in 1..(n - gone)
               PROVE  gone + i \in 1..n /\ ages[gone + i] < Window /\ ages[gone + i] + 1 \in 0..Window
    OBVIOUS
  <2>1. gone + i \in 1..n /\ gone + i \notin 1..(k - 1)
    BY <1>0, <1>4
  <2>2. ages[gone + i] \in 0..Window /\ ages[gone + i] # Window
    BY <1>0, <1>2, <2>1
  <2> QED
    BY <1>0, <2>1, <2>2
<1>7. Older(ages) \in Seq(0..Window) /\ Len(Older(ages)) = n - gone
  <2>1. PICK m \in Nat : m = n - gone
    BY <1>0, <1>4
  <2>2. PICK older : older = Older(ages)
    OBVIOUS
  <2>3. older \in [1..m -> 0..Window]
    BY <1>5, <1>6, <2>1, <2>2
  <2>4. older \in Seq(0..Window) /\ Len(older) = m
    BY <2>3, SeqOfFunction
  <2> QED
    BY <2>1, <2>2, <2>4
<1> QED
  BY <1>0, <1>2, <1>4, <1>5, <1>6, <1>7 DEF Aged

LEMMA PaceAtFirst ==
  ASSUME SchedulerFresh
  PROVE  PaceInv
<1> USE TickSchedulerAssumption DEF SchedulerFresh
<1>1. <<>> \in Seq(0..Window) /\ Len(<<>>) = 0
  OBVIOUS
<1>2. SchedulerTypeOK
  <2>1. alarm \in 0..Interval /\ untilNext \in 0..Interval /\ sinceTick \in 0..Cooldown
    OBVIOUS
  <2> QED
    BY <1>1, <2>1 DEF SchedulerTypeOK
<1>3. Spaced
  BY DEF Spaced
<1> QED
  BY <1>1, <1>2, <1>3 DEF PaceInv, Falling, StrictlyFalling, GrantBehindEach, GrantPending

LEMMA PaceTyped ==
  ASSUME PaceInv
  PROVE  /\ granted \in Seq(0..Window) /\ reactive \in Seq(0..Window) /\ sinceTick \in 0..Cooldown
         /\ Len(granted) \in Nat /\ Len(reactive) \in Nat
         /\ \A i \in 1..Len(granted) : granted[i] \in Nat
         /\ \A i \in 1..Len(reactive) : reactive[i] \in Nat
<1>1. granted \in Seq(0..Window) /\ reactive \in Seq(0..Window) /\ sinceTick \in 0..Cooldown
  BY DEF PaceInv, SchedulerTypeOK
<1>2. 0..Window \subseteq Nat
  BY TickSchedulerAssumption
<1> QED
  BY <1>1, <1>2, SeqFacts

LEMMA PaceAfterTime ==
  ASSUME PaceInv, TimePasses
  PROVE  PaceInv'
<1> USE TickSchedulerAssumption
<1>0. /\ granted \in Seq(0..Window) /\ reactive \in Seq(0..Window) /\ sinceTick \in 0..Cooldown
      /\ alarm \in 0..Interval /\ untilNext \in 0..Interval
  BY DEF PaceInv, SchedulerTypeOK
<1>1. Falling(granted) /\ Falling(reactive)
  BY <1>0 DEF PaceInv, Falling, StrictlyFalling
<1>2. PICK old \in 0..Len(granted) : granted' \in Seq(0..Window) /\ Aged(granted, granted', old)
  <2>1. granted' = Older(granted)
    BY DEF TimePasses
  <2> QED
    BY <1>0, <1>1, <2>1, OlderFacts
<1>3. PICK gone \in 0..Len(reactive) : reactive' \in Seq(0..Window) /\ Aged(reactive, reactive', gone)
  <2>1. reactive' = Older(reactive)
    BY DEF TimePasses
  <2> QED
    BY <1>0, <1>1, <2>1, OlderFacts
<1>4. /\ Len(granted) \in Nat /\ Len(reactive) \in Nat /\ Len(granted') \in Nat /\ Len(reactive') \in Nat
      /\ Window \in Nat /\ MaxReactive \in Nat
      /\ \A i \in 1..Len(granted) : granted[i] \in Nat
      /\ \A i \in 1..Len(reactive) : reactive[i] \in Nat
  <2>1. 0..Window \subseteq Nat
    OBVIOUS
  <2> QED
    BY <1>0, <1>2, <1>3, <2>1, SeqFacts
<1>5. SchedulerTypeOK'
  <2>1. alarm' \in 0..Interval /\ untilNext' \in 0..Interval /\ sinceTick' \in 0..Cooldown
    BY <1>0 DEF TimePasses, Less
  <2>2. UNCHANGED <<loop, stopped, cause, wakeup>> /\ SchedulerTypeOK
    BY DEF TimePasses, PaceInv
  <2> QED
    BY <1>2, <1>3, <2>1, <2>2 DEF SchedulerTypeOK
<1>6. Spaced'
  BY <1>0 DEF PaceInv, Spaced, TimePasses, Less
<1>7. Len(granted') <= MaxReactive /\ Falling(granted')
  <2>1. Falling(granted') /\ Len(granted') <= Len(granted)
    BY <1>0, <1>1, <1>2, AgedFalls
  <2>2. Len(granted) <= MaxReactive
    BY DEF PaceInv
  <2> QED
    BY <1>4, <2>1, <2>2
<1>8. StrictlyFalling(reactive') /\ \A i \in 1..Len(reactive') : reactive'[i] >= sinceTick'
  <2>1. StrictlyFalling(reactive')
    BY <1>0, <1>3, AgedFalls DEF PaceInv
  <2> SUFFICES ASSUME NEW i \in 1..Len(reactive') PROVE reactive'[i] >= sinceTick'
    BY <2>1
  <2>2. gone + i \in 1..Len(reactive) /\ reactive'[i] = reactive[gone + i] + 1
    BY <1>3 DEF Aged
  <2>3. reactive[gone + i] >= sinceTick /\ reactive[gone + i] \in Nat
    BY <1>4, <2>2 DEF PaceInv
  <2>4. sinceTick' <= sinceTick + 1 /\ sinceTick' \in Nat /\ sinceTick \in Nat
    BY <1>0 DEF TimePasses
  <2> QED
    BY <2>2, <2>3, <2>4
(* A grant younger than a tick that is still counted is still in the window. *)
<1>9. ASSUME NEW g \in 1..Len(granted), granted[g] < Window
      PROVE  g > old /\ g - old \in 1..Len(granted') /\ granted'[g - old] = granted[g] + 1
  <2>1. g \notin 1..old
    BY <1>2, <1>4, <1>9 DEF Aged
  <2>2. g > old /\ g \in Nat /\ old \in Nat
    BY <1>4, <2>1
  <2>3. Len(granted') = Len(granted) - old
    BY <1>2 DEF Aged
  <2>4. PICK i \in 1..Len(granted') : i = g - old
    BY <1>4, <2>2, <2>3
  <2>5. granted'[i] = granted[old + i] + 1 /\ old + i = g
    BY <1>2, <2>2, <2>4 DEF Aged
  <2> QED
    BY <2>2, <2>4, <2>5
<1>10. GrantBehindEach'
  <2> SUFFICES ASSUME NEW j \in 1..Len(reactive'), j > 1
               PROVE  \E g \in 1..Len(granted') : reactive'[j] <= granted'[g] /\ granted'[g] < reactive'[j - 1]
    BY DEF GrantBehindEach
  <2>0. PICK i \in 1..Len(reactive') : i = j - 1
    BY <1>4
  <2>1. /\ reactive'[j] = reactive[gone + j] + 1 /\ gone + j \in 1..Len(reactive)
        /\ reactive'[i] = reactive[gone + i] + 1 /\ gone + i \in 1..Len(reactive) /\ reactive[gone + i] < Window
    BY <1>3 DEF Aged
  <2>2. PICK g \in 1..Len(granted) : reactive[gone + j] <= granted[g] /\ granted[g] < reactive[gone + i]
    <3>1. gone + j > 1 /\ (gone + j) - 1 = gone + i
      BY <1>4, <2>0
    <3> QED
      BY <2>1, <3>1 DEF PaceInv, GrantBehindEach
  <2>3. /\ reactive'[j] = reactive[gone + j] + 1 /\ reactive'[j - 1] = reactive[gone + i] + 1
        /\ reactive[gone + i] < Window /\ reactive[gone + j] \in Nat /\ reactive[gone + i] \in Nat
    BY <1>4, <2>0, <2>1
  <2>4. granted[g] < Window /\ granted[g] \in Nat
    <3>1. granted[g] \in Nat /\ Window \in Nat
      BY <1>4
    <3> HIDE TickSchedulerAssumption
    <3> QED
      BY <2>2, <2>3, <3>1, Chains
  <2>5. g - old \in 1..Len(granted') /\ granted'[g - old] = granted[g] + 1
    BY <1>9, <2>4
  <2>6. reactive[gone + j] + 1 <= granted[g] + 1 /\ granted[g] + 1 < reactive[gone + i] + 1
    BY <2>2, <2>3, <2>4, Chains
  <2> QED
    BY <2>3, <2>5, <2>6
<1>11. GrantPending'
  <2> SUFFICES ASSUME cause, Len(reactive') > 0
               PROVE  \E g \in 1..Len(granted') : granted'[g] < reactive'[Len(reactive')]
    BY DEF GrantPending, TimePasses
  <2>1. gone + Len(reactive') = Len(reactive) /\ Len(reactive) > 0 /\ Len(reactive') \in 1..Len(reactive')
    BY <1>3, <1>4 DEF Aged
  <2>2. PICK g \in 1..Len(granted) : granted[g] < reactive[Len(reactive)]
    BY <2>1 DEF PaceInv, GrantPending
  <2>3. /\ reactive'[Len(reactive')] = reactive[Len(reactive)] + 1
        /\ reactive[Len(reactive)] < Window /\ reactive[Len(reactive)] \in Nat
    BY <1>3, <1>4, <2>1 DEF Aged
  <2>4. granted[g] < Window /\ granted[g] \in Nat
    <3>1. granted[g] \in Nat /\ Window \in Nat
      BY <1>4
    <3> HIDE TickSchedulerAssumption
    <3> QED
      BY <2>2, <2>3, <3>1, Chains
  <2>5. g - old \in 1..Len(granted') /\ granted'[g - old] = granted[g] + 1
    BY <1>9, <2>4
  <2>6. granted[g] + 1 < reactive[Len(reactive)] + 1
    BY <2>2, <2>3, <2>4, Chains
  <2> QED
    BY <2>3, <2>5, <2>6
<1> QED
  BY <1>5, <1>6, <1>7, <1>8, <1>10, <1>11 DEF PaceInv

LEMMA PaceAfterGrant ==
  ASSUME PaceInv, RequestReactive
  PROVE  PaceInv'
<1> USE TickSchedulerAssumption
<1>0. /\ granted \in Seq(0..Window) /\ reactive \in Seq(0..Window) /\ sinceTick \in 0..Cooldown
      /\ Len(granted) \in Nat /\ Len(reactive) \in Nat
      /\ \A i \in 1..Len(granted) : granted[i] \in Nat
      /\ \A i \in 1..Len(reactive) : reactive[i] \in Nat
  BY PaceTyped
<1>1. /\ granted' = Append(granted, 0) /\ cause' = TRUE /\ wakeup' = TRUE
      /\ UNCHANGED <<loop, stopped, alarm, sinceTick, untilNext, reactive>>
      /\ sinceTick >= Cooldown /\ Len(granted) < MaxReactive
  BY DEF RequestReactive, Grants
<1>2. /\ granted' \in Seq(0..Window) /\ Len(granted') = Len(granted) + 1
      /\ \A i \in 1..Len(granted) : granted'[i] = granted[i]
      /\ granted'[Len(granted) + 1] = 0
  <2>1. 0 \in 0..Window
    OBVIOUS
  <2> QED
    BY <1>0, <1>1, <2>1, AppendFacts
<1>3. SchedulerTypeOK'
  BY <1>1, <1>2 DEF PaceInv, SchedulerTypeOK
<1>4. Spaced'
  BY <1>0, <1>1 DEF PaceInv, Spaced
<1>5. Len(granted') <= MaxReactive /\ Falling(granted')
  BY <1>0, <1>1, <1>2 DEF PaceInv, Falling
<1>6. GrantBehindEach'
  <2> SUFFICES ASSUME NEW j \in 1..Len(reactive), j > 1
               PROVE  \E g \in 1..Len(granted') : reactive[j] <= granted'[g] /\ granted'[g] < reactive[j - 1]
    BY <1>1 DEF GrantBehindEach
  <2>1. PICK g \in 1..Len(granted) : reactive[j] <= granted[g] /\ granted[g] < reactive[j - 1]
    BY DEF PaceInv, GrantBehindEach
  <2>2. granted'[g] = granted[g] /\ g \in 1..Len(granted')
    BY <1>0, <1>2
  <2> QED
    BY <2>1, <2>2
<1>7. GrantPending'
  <2> SUFFICES ASSUME Len(reactive) > 0
               PROVE  granted'[Len(granted) + 1] < reactive[Len(reactive)] /\ Len(granted) + 1 \in 1..Len(granted')
    BY <1>1 DEF GrantPending
  <2>1. reactive[Len(reactive)] >= sinceTick /\ reactive[Len(reactive)] \in Nat
    BY <1>0 DEF PaceInv
  <2> QED
    BY <1>0, <1>1, <1>2, <2>1
<1> QED
  BY <1>1, <1>3, <1>4, <1>5, <1>6, <1>7 DEF PaceInv

LEMMA PaceAfterBegin ==
  ASSUME PaceInv, BeginTick
  PROVE  PaceInv'
<1> USE TickSchedulerAssumption
<1>0. /\ granted \in Seq(0..Window) /\ reactive \in Seq(0..Window) /\ sinceTick \in 0..Cooldown
      /\ Len(granted) \in Nat /\ Len(reactive) \in Nat
      /\ \A i \in 1..Len(granted) : granted[i] \in Nat
      /\ \A i \in 1..Len(reactive) : reactive[i] \in Nat
  BY PaceTyped
<1>1. /\ loop' = "ticking" /\ cause' = FALSE /\ wakeup' = FALSE /\ sinceTick' = 0
      /\ reactive' = IF cause THEN Append(reactive, 0) ELSE reactive
      /\ UNCHANGED <<stopped, alarm, untilNext, granted>>
  BY DEF BeginTick, Begins
<1>2. sinceTick >= Cooldown
  BY <1>0 DEF BeginTick, Wakes, PaceInv, Spaced, SchedulerTypeOK
<1>3. Spaced' /\ GrantPending'
  BY <1>1 DEF Spaced, GrantPending
<1>4. CASE ~cause
  <2>1. reactive' = reactive
    BY <1>1, <1>4
  <2>2. SchedulerTypeOK'
    <3>1. 0 \in 0..Cooldown
      OBVIOUS
    <3> QED
      BY <1>1, <2>1, <3>1 DEF PaceInv, SchedulerTypeOK
  <2>3. \A i \in 1..Len(reactive') : reactive'[i] >= sinceTick'
    BY <1>0, <1>1, <2>1
  <2> QED
    BY <1>1, <1>3, <2>1, <2>2, <2>3 DEF PaceInv, GrantBehindEach
<1>5. CASE cause
  <2>1. /\ reactive' \in Seq(0..Window) /\ Len(reactive') = Len(reactive) + 1
        /\ \A i \in 1..Len(reactive) : reactive'[i] = reactive[i]
        /\ reactive'[Len(reactive) + 1] = 0
    <3>1. 0 \in 0..Window
      OBVIOUS
    <3> QED
      BY <1>0, <1>1, <1>5, <3>1, AppendFacts
  <2>2. SchedulerTypeOK'
    <3>1. 0 \in 0..Cooldown
      OBVIOUS
    <3> QED
      BY <1>1, <2>1, <3>1 DEF PaceInv, SchedulerTypeOK
  <2>3. \A i \in 1..Len(reactive) : reactive[i] > 0
    BY <1>0, <1>2 DEF PaceInv
  <2>4. StrictlyFalling(reactive')
    <3> SUFFICES ASSUME NEW i \in 1..Len(reactive'), NEW j \in 1..Len(reactive'), i < j
                 PROVE  reactive'[i] > reactive'[j]
      BY DEF StrictlyFalling
    <3>1. i \in 1..Len(reactive) /\ reactive'[i] = reactive[i]
      BY <1>0, <2>1
    <3>2. CASE j \in 1..Len(reactive)
      BY <2>1, <3>1, <3>2 DEF PaceInv, StrictlyFalling
    <3>3. CASE j \notin 1..Len(reactive)
      <4>1. j = Len(reactive) + 1
        <5>1. PICK n \in Nat : n = Len(reactive)
          BY <1>0
        <5>2. j \in 1..(n + 1) /\ j \notin 1..n
          BY <2>1, <3>3, <5>1
        <5> QED
          BY <5>1, <5>2
      <4> QED
        BY <2>1, <2>3, <3>1, <4>1
    <3> QED
      BY <3>2, <3>3
  <2>6. \A i \in 1..Len(reactive') : reactive'[i] >= sinceTick'
    <3> SUFFICES ASSUME NEW i \in 1..Len(reactive') PROVE reactive'[i] \in Nat
      BY <1>1
    <3>1. 0..Window \subseteq Nat
      OBVIOUS
    <3> QED
      BY <2>1, <3>1, SeqFacts
  <2>5. GrantBehindEach'
    <3> SUFFICES ASSUME NEW j \in 1..Len(reactive'), j > 1
                 PROVE  \E g \in 1..Len(granted) : reactive'[j] <= granted[g] /\ granted[g] < reactive'[j - 1]
      BY <1>1 DEF GrantBehindEach
    <3>1. CASE j <= Len(reactive)
      <4>1. j \in 1..Len(reactive) /\ j - 1 \in 1..Len(reactive)
        BY <1>0, <3>1
      <4>2. PICK g \in 1..Len(granted) : reactive[j] <= granted[g] /\ granted[g] < reactive[j - 1]
        BY <4>1 DEF PaceInv, GrantBehindEach
      <4> QED
        BY <2>1, <4>1, <4>2
    <3>2. CASE j = Len(reactive) + 1
      <4>1. Len(reactive) > 0 /\ j - 1 = Len(reactive)
        BY <1>0, <3>2
      <4>2. PICK g \in 1..Len(granted) : granted[g] < reactive[Len(reactive)]
        BY <1>5, <4>1 DEF PaceInv, GrantPending
      <4>3. granted[g] \in Nat /\ reactive'[j] = 0 /\ reactive'[j - 1] = reactive[Len(reactive)]
        BY <1>0, <2>1, <3>2, <4>1
      <4> QED
        BY <4>2, <4>3
    <3> QED
      BY <1>0, <2>1, <3>1, <3>2
  <2> QED
    BY <1>1, <1>3, <2>2, <2>4, <2>5, <2>6 DEF PaceInv
<1> QED
  BY <1>0, <1>4, <1>5

LEMMA PaceStays ==
  ASSUME PaceInv, [SchedulerNext]_schedulerVars
  PROVE  PaceInv'
<1> USE TickSchedulerAssumption
<1>1. CASE Ensure
  <2>1. /\ loop = "none" /\ ~stopped /\ loop' = "delayed" /\ wakeup' = FALSE
        /\ alarm' \in 0..Interval /\ untilNext' \in 0..Interval
        /\ UNCHANGED <<stopped, sinceTick, granted, cause, reactive>>
    BY <1>1 DEF Ensure
  <2>2. SchedulerTypeOK' /\ Spaced'
    BY <2>1 DEF PaceInv, SchedulerTypeOK, Spaced
  <2> QED
    BY <2>1, <2>2 DEF PaceInv, GrantBehindEach, GrantPending
<1>2. CASE EndTick
  <2>1. SchedulerTypeOK' /\ Spaced'
    BY <1>2 DEF EndTick, PaceInv, SchedulerTypeOK, Spaced
  <2> QED
    BY <1>2, <2>1 DEF EndTick, PaceInv, GrantBehindEach, GrantPending
<1>3. CASE Stop
  <2>1. SchedulerTypeOK' /\ Spaced'
    BY <1>3 DEF Stop, clockVars, PaceInv, SchedulerTypeOK, Spaced
  <2> QED
    BY <1>3, <2>1 DEF Stop, clockVars, PaceInv, GrantBehindEach, GrantPending
<1>4. CASE SchedulerRestarts
  <2>1. <<>> \in Seq(0..Window) /\ Len(<<>>) = 0
    OBVIOUS
  <2>2. SchedulerTypeOK'
    <3>1. 0 \in 0..Interval /\ Cooldown \in 0..Cooldown
      OBVIOUS
    <3> QED
      BY <1>4, <2>1, <3>1 DEF SchedulerRestarts, SchedulerTypeOK
  <2>3. Spaced'
    BY <1>4 DEF SchedulerRestarts, Spaced
  <2> QED
    BY <1>4, <2>1, <2>2, <2>3 DEF SchedulerRestarts, PaceInv, Falling, StrictlyFalling, GrantBehindEach, GrantPending
<1>5. CASE UNCHANGED schedulerVars
  BY <1>5 DEF schedulerVars, clockVars, PaceInv, SchedulerTypeOK, Spaced, GrantBehindEach, GrantPending
<1> QED
  BY <1>1, <1>2, <1>3, <1>4, <1>5, PaceAfterTime, PaceAfterGrant, PaceAfterBegin DEF SchedulerNext

LEMMA PaceIsKept ==
  ASSUME PaceInv
  PROVE  ReactivePace
<1> USE TickSchedulerAssumption
<1>0. /\ Len(granted) \in Nat /\ Len(reactive) \in Nat /\ sinceTick \in 0..Cooldown /\ alarm \in 0..Interval
      /\ \A i \in 1..Len(granted) : granted[i] \in Nat
      /\ \A i \in 1..Len(reactive) : reactive[i] \in Nat
  BY PaceTyped DEF PaceInv, SchedulerTypeOK
<1>1. StartsSpaced
  BY <1>0 DEF StartsSpaced, Wakes, PaceInv, Spaced
<1>2. Len(reactive) <= MaxReactive + 1
  <2> DEFINE S == 2..Len(reactive)
             T == 1..Len(granted)
             f == [j \in S |-> CHOOSE g \in T : reactive[j] <= granted[g] /\ granted[g] < reactive[j - 1]]
  <2>1. \A j \in S : f[j] \in T /\ reactive[j] <= granted[f[j]] /\ granted[f[j]] < reactive[j - 1]
    <3> SUFFICES ASSUME NEW j \in S
                 PROVE  f[j] \in T /\ reactive[j] <= granted[f[j]] /\ granted[f[j]] < reactive[j - 1]
      OBVIOUS
    <3>1. \E g \in T : reactive[j] <= granted[g] /\ granted[g] < reactive[j - 1]
      BY <1>0 DEF PaceInv, GrantBehindEach
    <3> QED
      BY <3>1
  <2>2. \A i, j \in S : i < j => f[i] # f[j]
    <3> SUFFICES ASSUME NEW i \in S, NEW j \in S, i < j, f[i] = f[j]
                 PROVE  FALSE
      OBVIOUS
    <3>1. PICK g \in T : g = f[i]
      BY <2>1
    <3>2. reactive[i] <= granted[g] /\ granted[g] < reactive[j - 1] /\ granted[g] \in Nat
      BY <1>0, <2>1, <3>1
    <3>3. PICK k \in 1..Len(reactive) : k = j - 1
      BY <1>0
    <3>4. i \in 1..Len(reactive) /\ i <= k /\ reactive[i] \in Nat /\ reactive[k] \in Nat
      BY <1>0, <3>3
    <3> HIDE DEF f
    <3>5. reactive[i] >= reactive[k]
      <4>1. CASE i = k
        BY <3>4, <4>1
      <4>2. CASE i < k
        <5>1. reactive[i] > reactive[k]
          BY <3>4, <4>2 DEF PaceInv, StrictlyFalling
        <5> QED
          BY <3>4, <5>1
      <4> QED
        BY <1>0, <3>4, <4>1, <4>2
    <3>6. reactive[i] < reactive[k]
      BY <3>2, <3>3, <3>4, Chains
    <3> QED
      BY <3>4, <3>5, <3>6
  <2>3. f \in Injection(S, T)
    <3>1. f \in [S -> T]
      BY <2>1
    <3>2. \A i, j \in S : i # j => f[i] # f[j]
      BY <1>0, <2>2
    <3> HIDE DEF f, S, T
    <3> QED
      BY <3>1, <3>2 DEF Injection, IsInjective
  <2>4. /\ IsFiniteSet(T) /\ Cardinality(T) = Len(granted)
        /\ Cardinality(S) = IF 2 > Len(reactive) THEN 0 ELSE Len(reactive) - 1
    <3>1. 1 \in Int /\ 2 \in Int /\ Len(granted) \in Int /\ Len(reactive) \in Int
      BY <1>0
    <3>2. IsFiniteSet(T) /\ Cardinality(T) = IF 1 > Len(granted) THEN 0 ELSE Len(granted) - 1 + 1
      BY <3>1, FS_Interval
    <3>3. Cardinality(S) = IF 2 > Len(reactive) THEN 0 ELSE Len(reactive) - 2 + 1
      BY <3>1, FS_Interval
    <3> QED
      BY <1>0, <3>2, <3>3
  <2>5. Cardinality(S) <= Cardinality(T)
    BY <2>3, <2>4, FS_Injection
  <2> QED
    BY <1>0, <2>4, <2>5 DEF PaceInv
<1> QED
  BY <1>1, <1>2 DEF ReactivePace

-----------------------------------------------------------------------------
(* The tick.  What a sequence of percepts holds of an action's refusals.     *)

Percept == [type : {"completed", "refused", "plumbing"}, action : Action \union {"any"}]

RefusedIn(s, a) == {i \in 1..Len(s) : s[i].type = "refused" /\ s[i].action = a}

Refusals(s, a) == Cardinality(RefusedIn(s, a))

LEMMA RefusalsAreNumbers ==
  ASSUME NEW s \in Seq(Percept), NEW a
  PROVE  IsFiniteSet(RefusedIn(s, a)) /\ Refusals(s, a) \in Nat
<1>1. 1 \in Int /\ Len(s) \in Int
  BY SeqFacts
<1>2. IsFiniteSet(1..Len(s))
  BY <1>1, FS_Interval
<1>3. RefusedIn(s, a) \in SUBSET (1..Len(s))
  BY DEF RefusedIn
<1> QED
  BY <1>2, <1>3, FS_Subset, FS_CardinalityType DEF Refusals

LEMMA PartRefuses ==
  ASSUME NEW s \in Seq(Percept), NEW m \in Nat, NEW n \in Nat, 1 <= m, m <= n + 1, n <= Len(s)
  PROVE  /\ SubSeq(s, m, n) \in Seq(Percept) /\ Len(SubSeq(s, m, n)) = (n + 1) - m
         /\ \A a : Refusals(SubSeq(s, m, n), a) <= Cardinality(RefusedIn(s, a) \cap (m..n))
<1>1. Len(s) \in Nat /\ \A i \in 1..Len(s) : s[i] \in Percept
  BY SeqFacts
<1>2. m \in Int /\ n \in Int /\ \A i \in m..n : s[i] \in Percept
  BY <1>1
<1>3. PICK part : part = SubSeq(s, m, n)
  OBVIOUS
<1>4. /\ part \in Seq(Percept) /\ Len(part) = IF m <= n THEN n - m + 1 ELSE 0
      /\ \A i \in 1..(n - m + 1) : part[i] = s[m + i - 1]
  BY <1>2, <1>3, SubSeqProperties
<1>5. Len(part) = (n + 1) - m
  BY <1>4
<1>6. ASSUME NEW a
      PROVE  Refusals(part, a) <= Cardinality(RefusedIn(s, a) \cap (m..n))
  <2> DEFINE S == RefusedIn(part, a)
             T == RefusedIn(s, a) \cap (m..n)
             f == [i \in S |-> m + i - 1]
  <2>1. IsFiniteSet(T)
    BY RefusalsAreNumbers, FS_Intersection
  <2>2. \A i \in S : i \in 1..Len(part) /\ part[i].type = "refused" /\ part[i].action = a /\ part[i] = s[m + i - 1]
    BY <1>4, <1>5 DEF RefusedIn
  <2>3. \A i \in S : m + i - 1 \in T
    BY <1>1, <1>5, <2>2 DEF RefusedIn
  <2>4. \A i, j \in S : m + i - 1 = m + j - 1 => i = j
    BY <1>5, <2>2
  <2>5. f \in Injection(S, T)
    <3> HIDE DEF S, T
    <3>1. f \in [S -> T] /\ \A i, j \in S : i # j => f[i] # f[j]
      BY <2>3, <2>4
    <3> QED
      BY <3>1 DEF Injection, IsInjective
  <2>6. Cardinality(S) <= Cardinality(T)
    BY <2>1, <2>5, FS_Injection
  <2> QED
    BY <2>6 DEF Refusals
<1> QED
  BY <1>3, <1>4, <1>5, <1>6

LEMMA GreaterOfTwo ==
  ASSUME NEW a \in Int, NEW b \in Int
  PROVE  Max({a, b}) = IF a >= b THEN a ELSE b
<1>1. CASE a >= b
  BY <1>1 DEF Max
<1>2. CASE ~(a >= b)
  BY <1>2 DEF Max
<1> QED
  BY <1>1, <1>2

LEMMA SmallerOfTwo ==
  ASSUME NEW a \in Int, NEW b \in Int
  PROVE  Min({a, b}) = IF a <= b THEN a ELSE b
<1>1. CASE a <= b
  BY <1>1 DEF Min
<1>2. CASE ~(a <= b)
  BY <1>2 DEF Min
<1> QED
  BY <1>1, <1>2

LEMMA PushedFacts ==
  ASSUME NEW q \in Seq(Percept), NEW p \in Percept, Len(q) <= QueueCap
  PROVE  /\ Pushed(q, p) \in Seq(Percept) /\ Len(Pushed(q, p)) <= QueueCap
         /\ \A a : Refusals(Pushed(q, p), a) <= Refusals(q, a) + 1
         /\ \A a : p.type # "refused" \/ p.action # a => Refusals(Pushed(q, p), a) <= Refusals(q, a)
<1> USE TickGraphAssumption
<1>1. PICK longer : longer = Append(q, p)
  OBVIOUS
<1>2. /\ longer \in Seq(Percept) /\ Len(longer) = Len(q) + 1 /\ Len(q) \in Nat
      /\ \A i \in 1..Len(q) : longer[i] = q[i]
      /\ longer[Len(q) + 1] = p
  BY <1>1, AppendFacts, SeqFacts
<1>3. PICK n \in Nat : n = Len(longer) /\ n = Len(q) + 1
  BY <1>2
<1>4. PICK m \in 1..n : m = Max({1, n - QueueCap + 1}) /\ (n + 1) - m <= QueueCap
  <2>1. PICK k \in Int : k = n - QueueCap + 1
    OBVIOUS
  <2>2. Max({1, k}) = IF 1 >= k THEN 1 ELSE k
    BY GreaterOfTwo
  <2>3. n >= 1
    BY <1>2, <1>3
  <2>4. (IF 1 >= k THEN 1 ELSE k) \in 1..n /\ (n + 1) - (IF 1 >= k THEN 1 ELSE k) <= QueueCap
    BY <2>1, <2>3
  <2> QED
    BY <2>1, <2>2, <2>4
<1>5. Pushed(q, p) = SubSeq(longer, m, n)
  BY <1>1, <1>3, <1>4 DEF Pushed
<1>6. /\ Pushed(q, p) \in Seq(Percept) /\ Len(Pushed(q, p)) = (n + 1) - m
      /\ \A a : Refusals(Pushed(q, p), a) <= Cardinality(RefusedIn(longer, a) \cap (m..n))
  <2>1. m \in Nat /\ 1 <= m /\ m <= n + 1 /\ n <= Len(longer)
    BY <1>3
  <2> QED
    BY <1>2, <1>5, <2>1, PartRefuses
<1>7. ASSUME NEW a
      PROVE  /\ Refusals(Pushed(q, p), a) <= Refusals(longer, a)
             /\ Refusals(longer, a) \in Nat /\ Refusals(q, a) \in Nat /\ Refusals(Pushed(q, p), a) \in Nat
             /\ Refusals(longer, a) <= Refusals(q, a) + 1
             /\ p.type # "refused" \/ p.action # a => Refusals(longer, a) = Refusals(q, a)
  <2>1. /\ IsFiniteSet(RefusedIn(longer, a)) /\ Refusals(longer, a) \in Nat
        /\ IsFiniteSet(RefusedIn(q, a)) /\ Refusals(q, a) \in Nat /\ Refusals(Pushed(q, p), a) \in Nat
    BY <1>2, <1>6, RefusalsAreNumbers
  <2>2. Cardinality(RefusedIn(longer, a) \cap (m..n)) <= Refusals(longer, a)
    BY <2>1, FS_Intersection DEF Refusals
  <2>3. RefusedIn(longer, a) = IF p.type # "refused" \/ p.action # a THEN RefusedIn(q, a) ELSE RefusedIn(q, a) \cup {n}
    BY <1>2, <1>3 DEF RefusedIn
  <2>4. Cardinality(RefusedIn(q, a) \cup {n}) <= Refusals(q, a) + 1
    <3>1. Cardinality(RefusedIn(q, a) \cup {n}) =
            IF n \in RefusedIn(q, a) THEN Cardinality(RefusedIn(q, a)) ELSE Cardinality(RefusedIn(q, a)) + 1
      BY <2>1, FS_AddElement
    <3> QED
      BY <2>1, <3>1 DEF Refusals
  <2>5. IsFiniteSet(RefusedIn(longer, a) \cap (m..n)) /\ Cardinality(RefusedIn(longer, a) \cap (m..n)) \in Nat
    BY <2>1, FS_Intersection, FS_CardinalityType
  <2>6. Refusals(Pushed(q, p), a) <= Refusals(longer, a)
    BY <1>6, <2>1, <2>2, <2>5
  <2> QED
    BY <2>1, <2>3, <2>4, <2>6 DEF Refusals
<1>8. Len(Pushed(q, p)) <= QueueCap
  BY <1>4, <1>6
<1> QED
  BY <1>6, <1>7, <1>8

LEMMA DrainedFacts ==
  ASSUME queue \in Seq(Percept), Len(queue) <= QueueCap
  PROVE  /\ Drained.taken \in Seq(Percept) /\ Len(Drained.taken) <= PerceptsMax
         /\ Drained.left \in Seq(Percept) /\ Len(Drained.left) <= QueueCap
         /\ \A a : Refusals(Drained.taken, a) + Refusals(Drained.left, a) <= Refusals(queue, a)
<1> USE TickGraphAssumption
<1>1. PICK q \in Seq(Percept) : q = queue
  OBVIOUS
<1>2. Len(q) \in Nat
  BY SeqFacts
<1>3. PICK n \in Nat : n = Min({PerceptsMax, Len(q)}) /\ n <= PerceptsMax /\ n <= Len(q)
  <2>1. PICK l \in Nat : l = Len(q)
    BY <1>2
  <2>2. Min({PerceptsMax, l}) = IF PerceptsMax <= l THEN PerceptsMax ELSE l
    BY SmallerOfTwo
  <2>3. /\ (IF PerceptsMax <= l THEN PerceptsMax ELSE l) \in Nat
        /\ (IF PerceptsMax <= l THEN PerceptsMax ELSE l) <= PerceptsMax
        /\ (IF PerceptsMax <= l THEN PerceptsMax ELSE l) <= l
    OBVIOUS
  <2> QED
    BY <2>1, <2>2, <2>3
<1>4. PICK taken, left : /\ taken = SubSeq(q, 1, n) /\ left = SubSeq(q, n + 1, Len(q))
                         /\ Drained.taken = taken /\ Drained.left = left
  BY <1>1, <1>3 DEF Drained
<1>5. /\ taken \in Seq(Percept) /\ Len(taken) = (n + 1) - 1
      /\ \A a : Refusals(taken, a) <= Cardinality(RefusedIn(q, a) \cap (1..n))
  <2>1. 1 \in Nat /\ 1 <= 1 /\ 1 <= n + 1 /\ n <= Len(q)
    BY <1>3
  <2> QED
    BY <1>4, <2>1, PartRefuses
<1>6. /\ left \in Seq(Percept) /\ Len(left) = (Len(q) + 1) - (n + 1)
      /\ \A a : Refusals(left, a) <= Cardinality(RefusedIn(q, a) \cap ((n + 1)..Len(q)))
  <2>1. PICK m \in Nat, l \in Nat : m = n + 1 /\ l = Len(q)
    BY <1>2, <1>3
  <2>2. 1 <= m /\ m <= l + 1 /\ l <= Len(q)
    BY <1>2, <1>3, <2>1
  <2>3. left = SubSeq(q, m, l)
    BY <1>4, <2>1
  <2>4. /\ left \in Seq(Percept) /\ Len(left) = (l + 1) - m
        /\ \A a : Refusals(left, a) <= Cardinality(RefusedIn(q, a) \cap (m..l))
    BY <2>2, <2>3, PartRefuses
  <2> QED
    BY <2>1, <2>4
<1>7. ASSUME NEW a
      PROVE  Refusals(taken, a) + Refusals(left, a) <= Refusals(q, a)
  <2> DEFINE R == RefusedIn(q, a)
             S == R \cap (1..n)
             T == R \cap ((n + 1)..Len(q))
  <2>1. IsFiniteSet(R) /\ IsFiniteSet(S) /\ IsFiniteSet(T)
    BY RefusalsAreNumbers, FS_Intersection
  <2>2. S \cap T = {} /\ S \cup T = R
    <3>1. PICK l \in Nat : l = Len(q) /\ n <= l
      BY <1>2, <1>3
    <3>2. \A i \in R : i \in 1..l
      BY <3>1 DEF RefusedIn
    <3>3. \A i \in 1..l : (i \in 1..n /\ i \notin (n + 1)..l) \/ (i \notin 1..n /\ i \in (n + 1)..l)
      BY <3>1
    <3>4. \A i : ~(i \in 1..n /\ i \in (n + 1)..l)
      OBVIOUS
    <3> HIDE DEF R
    <3> QED
      BY <3>1, <3>2, <3>3, <3>4
  <2>3. Cardinality(R) = Cardinality(S) + Cardinality(T) - 0
    <3> HIDE DEF S, T, R
    <3> QED
      BY <2>1, <2>2, FS_Union, FS_EmptySet
  <2>4. /\ Cardinality(S) \in Nat /\ Cardinality(T) \in Nat
        /\ Refusals(taken, a) \in Nat /\ Refusals(left, a) \in Nat
    BY <1>5, <1>6, <2>1, FS_CardinalityType, RefusalsAreNumbers
  <2>5. Refusals(taken, a) <= Cardinality(S) /\ Refusals(left, a) <= Cardinality(T)
    BY <1>5, <1>6
  <2> HIDE DEF S, T
  <2> QED
    BY <2>3, <2>4, <2>5 DEF Refusals
<1>8. Len(taken) <= PerceptsMax /\ Len(left) <= QueueCap
  BY <1>1, <1>2, <1>3, <1>5, <1>6
<1> QED
  BY <1>1, <1>4, <1>5, <1>6, <1>7, <1>8

(* What the streaks count, and what may yet be counted, is refused.          *)
Streak == [count : Nat, idle : 0..(StreakTTL - 1)]

CountedIn(s, a) == UNION {{i} \X (1..s[i].count) : i \in {i \in Intent : ActionOf[i] = a}}

Uncounted(a) == IF node = "deliberate" THEN Refusals(percepts, a) ELSE 0

GraphShape ==
  /\ node \in {"perceive", "deliberate", "act", "relate", "reflect"}
  /\ queue \in Seq(Percept) /\ Len(queue) <= QueueCap
  /\ percepts \in Seq(Percept) /\ Len(percepts) <= PerceptsMax
  /\ last \in Intent \union {"none"} /\ decision \in Intent \union {"none"}
  /\ streaks \in [Intent -> Streak]
  /\ doing \in Seq(Action) /\ Len(doing) <= 2
  /\ recent \subseteq Percept /\ Cardinality(recent) <= MaxUncommitted
  /\ refusals \in [Action -> Nat]

Earned ==
  \A a \in Action :
    /\ IsFiniteSet(Counted(a))
    /\ Cardinality(Counted(a)) + Refusals(queue, a) + Uncounted(a) <= refusals[a]

GraphInv == GraphShape /\ Earned

LEMMA CountedFacts ==
  ASSUME NEW s, NEW a, NEW x
  PROVE  x \in CountedIn(s, a) <=> \E i \in Intent : \E k \in 1..s[i].count : ActionOf[i] = a /\ x = <<i, k>>
BY DEF CountedIn

LEMMA NotedFacts ==
  ASSUME GraphShape
  PROVE  /\ NotedOutcomes \in [Intent -> Streak]
         /\ \A a : IsFiniteSet(CountedIn(streaks, a)) =>
              /\ IsFiniteSet(CountedIn(NotedOutcomes, a))
              /\ Cardinality(CountedIn(NotedOutcomes, a)) <= Cardinality(CountedIn(streaks, a)) + Refusals(percepts, a)
<1> USE TickGraphAssumption
<1>1. PICK noted : noted = NotedOutcomes
  OBVIOUS
<1>2. NoStreak \in Streak /\ NoStreak.count = 0
  BY DEF NoStreak, Streak
<1>3. ASSUME NEW s \in Streak
      PROVE  Missed(s) \in Streak /\ (Missed(s).count = 0 \/ Missed(s).count = s.count)
  <2>1. CASE s.count = 0 \/ s.idle + 1 >= StreakTTL
    BY <1>2, <2>1 DEF Missed
  <2>2. CASE ~(s.count = 0 \/ s.idle + 1 >= StreakTTL)
    <3>1. s.idle + 1 \in 0..(StreakTTL - 1)
      BY <2>2 DEF Streak
    <3> QED
      BY <2>2, <3>1 DEF Missed, Streak
  <2> QED
    BY <2>1, <2>2
<1>4. percepts \in Seq(Percept) /\ streaks \in [Intent -> Streak] /\ last \in Intent \union {"none"}
  BY DEF GraphShape
<1>5. /\ Telling \in SUBSET Nat
      /\ \A k \in Telling : /\ k \in 1..Len(percepts) /\ percepts[k] \in Percept /\ last \in Intent
                            /\ percepts[k].action = ActionOf[last] /\ percepts[k].type # "plumbing"
  <2>1. DOMAIN percepts = 1..Len(percepts) /\ \A k \in 1..Len(percepts) : k \in Nat /\ percepts[k] \in Percept
    BY <1>4, SeqFacts
  <2> QED
    BY <1>4, <2>1 DEF Telling
<1>6. CASE Telling = {}
  <2>1. noted = [i \in Intent |-> Missed(streaks[i])]
    BY <1>1, <1>6 DEF NotedOutcomes
  <2>2. \A i \in Intent : /\ noted[i] \in Streak
                          /\ noted[i].count = 0 \/ noted[i].count = streaks[i].count
    BY <1>3, <1>4, <2>1
  <2>3. noted \in [Intent -> Streak]
    BY <2>1, <2>2
  <2>4. ASSUME NEW a PROVE CountedIn(noted, a) \subseteq CountedIn(streaks, a)
    BY <2>2, CountedFacts
  <2>5. ASSUME NEW a, IsFiniteSet(CountedIn(streaks, a))
        PROVE  /\ IsFiniteSet(CountedIn(noted, a))
               /\ Cardinality(CountedIn(noted, a)) <= Cardinality(CountedIn(streaks, a)) + Refusals(percepts, a)
    <3>1. /\ IsFiniteSet(CountedIn(noted, a)) /\ Cardinality(CountedIn(noted, a)) <= Cardinality(CountedIn(streaks, a))
          /\ Refusals(percepts, a) \in Nat
      BY <1>4, <2>4, <2>5, FS_Subset, RefusalsAreNumbers
    <3>2. Cardinality(CountedIn(noted, a)) \in Nat /\ Cardinality(CountedIn(streaks, a)) \in Nat
      BY <2>5, <3>1, FS_CardinalityType
    <3> QED
      BY <3>1, <3>2
  <2> QED
    BY <1>1, <2>3, <2>5
<1>7. CASE Telling # {}
  <2>1. PICK k \in Telling : k = Min(Telling)
    <3>1. \E m \in Telling : \A n \in Telling : m <= n
      BY <1>5, <1>7, LeastNumber
    <3> QED
      BY <3>1 DEF Min
  <2>2. PICK it \in Intent : it = last
    BY <1>5, <2>1
  <2>3. PICK said : /\ said \in {"completed", "refused"} /\ said = percepts[k].type
                    /\ k \in 1..Len(percepts) /\ percepts[k].action = ActionOf[it]
    BY <1>5, <2>1, <2>2 DEF Percept
  <2>4. noted = [i \in Intent |-> IF i # it THEN Missed(streaks[i])
                                  ELSE IF said = "completed" THEN NoStreak
                                  ELSE [count |-> streaks[i].count + 1, idle |-> 0]]
    BY <1>1, <1>7, <2>1, <2>2, <2>3 DEF NotedOutcomes
  <2>5. /\ \A i \in Intent : noted[i] \in Streak
        /\ \A i \in Intent : i # it => noted[i].count = 0 \/ noted[i].count = streaks[i].count
        /\ noted[it].count = IF said = "completed" THEN 0 ELSE streaks[it].count + 1
        /\ streaks[it].count \in Nat
    <3>1. streaks[it] \in Streak /\ streaks[it].count \in Nat
      BY <1>4 DEF Streak
    <3>2. [count |-> streaks[it].count + 1, idle |-> 0] \in Streak
      BY <3>1 DEF Streak
    <3>3. \A i \in Intent : i # it => noted[i] = Missed(streaks[i])
      BY <2>4
    <3>4. noted[it] = IF said = "completed" THEN NoStreak ELSE [count |-> streaks[it].count + 1, idle |-> 0]
      BY <2>4
    <3> QED
      BY <1>2, <1>3, <1>4, <2>3, <3>1, <3>2, <3>3, <3>4
  <2>6. noted \in [Intent -> Streak]
    BY <2>4, <2>5
  <2>7. ASSUME NEW a, said # "refused" \/ a # ActionOf[it]
        PROVE  CountedIn(noted, a) \subseteq CountedIn(streaks, a)
    <3> SUFFICES ASSUME NEW i \in Intent, NEW n \in 1..noted[i].count, ActionOf[i] = a
                 PROVE  n \in 1..streaks[i].count
      BY CountedFacts
    <3>1. noted[i].count # 0
      OBVIOUS
    <3>2. noted[i].count = streaks[i].count
      BY <2>3, <2>5, <2>7, <3>1
    <3> QED
      BY <3>2
  <2>8. ASSUME NEW a, said = "refused", a = ActionOf[it]
        PROVE  /\ CountedIn(noted, a) \subseteq CountedIn(streaks, a) \cup {<<it, streaks[it].count + 1>>}
               /\ Refusals(percepts, a) >= 1
    <3>1. ASSUME NEW i \in Intent, NEW n \in 1..noted[i].count, ActionOf[i] = a
          PROVE  n \in 1..streaks[i].count \/ (i = it /\ n = streaks[it].count + 1)
      <4>1. CASE i = it
        BY <2>3, <2>5, <2>8, <4>1
      <4>2. CASE i # it
        <5>1. noted[i].count # 0
          OBVIOUS
        <5> QED
          BY <2>5, <4>2, <5>1
      <4> QED
        BY <4>1, <4>2
    <3>2. CountedIn(noted, a) \subseteq CountedIn(streaks, a) \cup {<<it, streaks[it].count + 1>>}
      BY <3>1, CountedFacts
    <3>3. k \in RefusedIn(percepts, a)
      BY <2>3, <2>8 DEF RefusedIn
    <3>4. Refusals(percepts, a) \in Nat /\ Refusals(percepts, a) # 0
      BY <1>4, <3>3, RefusalsAreNumbers, FS_EmptySet DEF Refusals
    <3> QED
      BY <3>2, <3>4
  <2>9. ASSUME NEW a, IsFiniteSet(CountedIn(streaks, a))
        PROVE  /\ IsFiniteSet(CountedIn(noted, a))
               /\ Cardinality(CountedIn(noted, a)) <= Cardinality(CountedIn(streaks, a)) + Refusals(percepts, a)
    <3> DEFINE more == CountedIn(streaks, a) \cup {<<it, streaks[it].count + 1>>}
    <3>1. /\ Refusals(percepts, a) \in Nat /\ Cardinality(CountedIn(streaks, a)) \in Nat
      BY <1>4, <2>9, FS_CardinalityType, RefusalsAreNumbers
    <3>2. CASE said # "refused" \/ a # ActionOf[it]
      <4>1. /\ IsFiniteSet(CountedIn(noted, a)) /\ Cardinality(CountedIn(noted, a)) <= Cardinality(CountedIn(streaks, a))
        BY <2>7, <2>9, <3>2, FS_Subset
      <4>2. Cardinality(CountedIn(noted, a)) \in Nat
        BY <4>1, FS_CardinalityType
      <4> QED
        BY <3>1, <4>1, <4>2
    <3>3. CASE said = "refused" /\ a = ActionOf[it]
      <4>1. IsFiniteSet(more) /\ Cardinality(more) \in Nat /\ Cardinality(more) <= Cardinality(CountedIn(streaks, a)) + 1
        <5>1. /\ IsFiniteSet(more)
              /\ Cardinality(more) = IF <<it, streaks[it].count + 1>> \in CountedIn(streaks, a)
                                     THEN Cardinality(CountedIn(streaks, a)) ELSE Cardinality(CountedIn(streaks, a)) + 1
          BY <2>9, FS_AddElement
        <5> HIDE DEF more
        <5> QED
          BY <3>1, <5>1
      <4>2. CountedIn(noted, a) \in SUBSET more /\ Refusals(percepts, a) >= 1
        BY <2>8, <3>3
      <4> HIDE DEF more
      <4>3. IsFiniteSet(CountedIn(noted, a)) /\ Cardinality(CountedIn(noted, a)) <= Cardinality(more)
        BY <4>1, <4>2, FS_Subset
      <4>4. Cardinality(CountedIn(noted, a)) \in Nat
        BY <4>3, FS_CardinalityType
      <4> QED
        BY <3>1, <4>1, <4>2, <4>3, <4>4
    <3> QED
      BY <3>2, <3>3
  <2> QED
    BY <1>1, <2>6, <2>9
<1> QED
  BY <1>6, <1>7

LEMMA EarnedNumbers ==
  ASSUME GraphInv, NEW a \in Action
  PROVE  /\ Counted(a) = CountedIn(streaks, a) /\ IsFiniteSet(Counted(a))
         /\ Cardinality(Counted(a)) \in Nat /\ Refusals(queue, a) \in Nat /\ Uncounted(a) \in Nat
         /\ refusals[a] \in Nat
         /\ Cardinality(Counted(a)) + Refusals(queue, a) + Uncounted(a) <= refusals[a]
<1>1. GraphShape /\ Earned
  BY DEF GraphInv
<1>2. IsFiniteSet(Counted(a)) /\ Cardinality(Counted(a)) + Refusals(queue, a) + Uncounted(a) <= refusals[a]
  BY <1>1 DEF Earned
<1>3. Refusals(queue, a) \in Nat /\ Refusals(percepts, a) \in Nat /\ refusals[a] \in Nat
  BY <1>1, RefusalsAreNumbers DEF GraphShape
<1>4. Uncounted(a) \in Nat
  BY <1>3 DEF Uncounted
<1> QED
  BY <1>2, <1>3, <1>4, FS_CardinalityType DEF Counted, CountedIn

(* Steps that count nothing and are told nothing.                            *)
LEMMA NothingCounted ==
  ASSUME GraphInv, UNCHANGED <<queue, streaks, refusals>>, node' # "deliberate"
  PROVE  Earned'
<1> SUFFICES ASSUME NEW a \in Action
             PROVE  /\ IsFiniteSet(Counted(a)')
                    /\ Cardinality(Counted(a)') + Refusals(queue', a) + Uncounted(a)' <= refusals'[a]
  BY DEF Earned
<1>1. Counted(a)' = Counted(a) /\ Uncounted(a)' = 0
  BY DEF Counted, Uncounted
<1>2. /\ IsFiniteSet(Counted(a)) /\ Cardinality(Counted(a)) \in Nat /\ Refusals(queue, a) \in Nat
      /\ Uncounted(a) \in Nat /\ refusals[a] \in Nat
      /\ Cardinality(Counted(a)) + Refusals(queue, a) + Uncounted(a) <= refusals[a]
  BY EarnedNumbers
<1> QED
  BY <1>1, <1>2

LEMMA EarnedAfterPerceive ==
  ASSUME GraphInv, Perceive
  PROVE  GraphInv'
<1>1. /\ node = "perceive" /\ node' = "deliberate" /\ percepts' = Drained.taken /\ queue' = Drained.left
      /\ UNCHANGED <<decision, last, streaks, doing, recent, refusals>> /\ GraphShape
  BY DEF Perceive, mindOwn, GraphInv
<1>2. /\ Drained.taken \in Seq(Percept) /\ Len(Drained.taken) <= PerceptsMax
      /\ Drained.left \in Seq(Percept) /\ Len(Drained.left) <= QueueCap
      /\ \A a : Refusals(Drained.taken, a) + Refusals(Drained.left, a) <= Refusals(queue, a)
  BY <1>1, DrainedFacts DEF GraphShape
<1>3. GraphShape'
  BY <1>1, <1>2 DEF GraphShape
<1>4. ASSUME NEW a \in Action
      PROVE  /\ IsFiniteSet(Counted(a)')
             /\ Cardinality(Counted(a)') + Refusals(queue', a) + Uncounted(a)' <= refusals'[a]
  <2>1. /\ Counted(a)' = Counted(a) /\ Uncounted(a)' = Refusals(percepts', a) /\ Uncounted(a) = 0
        /\ Refusals(percepts', a) \in Nat /\ Refusals(queue', a) \in Nat
    BY <1>1, <1>2, RefusalsAreNumbers DEF Counted, Uncounted
  <2>2. /\ IsFiniteSet(Counted(a)) /\ Cardinality(Counted(a)) \in Nat /\ Refusals(queue, a) \in Nat
        /\ refusals[a] \in Nat
        /\ Cardinality(Counted(a)) + Refusals(queue, a) + 0 <= refusals[a]
    BY <2>1, EarnedNumbers
  <2>3. Refusals(percepts', a) + Refusals(queue', a) <= Refusals(queue, a)
    BY <1>1, <1>2
  <2> QED
    BY <1>1, <2>1, <2>2, <2>3
<1> QED
  BY <1>1, <1>3, <1>4 DEF GraphInv, Earned

LEMMA EarnedAfterDeliberate ==
  ASSUME GraphInv, Deliberate
  PROVE  GraphInv'
<1>1. /\ node = "deliberate" /\ node' = "act" /\ streaks' = NotedOutcomes
      /\ percepts' = <<>> /\ <<>> \in Seq(Percept) /\ Len(<<>>) = 0
      /\ UNCHANGED <<decision, queue, last, doing, recent, refusals>> /\ GraphShape
  BY DEF Deliberate, GraphInv
<1>2. PICK noted : noted = NotedOutcomes
  OBVIOUS
<1>3. /\ noted \in [Intent -> Streak]
      /\ \A a : IsFiniteSet(CountedIn(streaks, a)) =>
           /\ IsFiniteSet(CountedIn(noted, a))
           /\ Cardinality(CountedIn(noted, a)) <= Cardinality(CountedIn(streaks, a)) + Refusals(percepts, a)
  BY <1>1, <1>2, NotedFacts
<1>4. GraphShape'
  BY <1>1, <1>2, <1>3, TickGraphAssumption DEF GraphShape
<1>5. ASSUME NEW a \in Action
      PROVE  /\ IsFiniteSet(Counted(a)')
             /\ Cardinality(Counted(a)') + Refusals(queue', a) + Uncounted(a)' <= refusals'[a]
  <2>1. /\ Counted(a)' = CountedIn(noted, a) /\ Uncounted(a)' = 0 /\ Uncounted(a) = Refusals(percepts, a)
    BY <1>1, <1>2 DEF Counted, CountedIn, Uncounted
  <2>2. /\ Counted(a) = CountedIn(streaks, a) /\ IsFiniteSet(Counted(a))
        /\ Cardinality(Counted(a)) \in Nat /\ Refusals(queue, a) \in Nat /\ Refusals(percepts, a) \in Nat
        /\ refusals[a] \in Nat
        /\ Cardinality(Counted(a)) + Refusals(queue, a) + Refusals(percepts, a) <= refusals[a]
    BY <2>1, EarnedNumbers
  <2>3. /\ IsFiniteSet(CountedIn(noted, a))
        /\ Cardinality(CountedIn(noted, a)) <= Cardinality(Counted(a)) + Refusals(percepts, a)
    BY <1>3, <2>2
  <2>4. Cardinality(CountedIn(noted, a)) \in Nat
    BY <2>3, FS_CardinalityType
  <2> QED
    BY <1>1, <2>1, <2>2, <2>3, <2>4
<1> QED
  BY <1>1, <1>4, <1>5 DEF GraphInv, Earned

(* A percept is pushed: what it refuses is heard refused at once.            *)
LEMMA EarnedAfterPush ==
  ASSUME GraphInv, NEW p \in Percept, Pushes(p),
         UNCHANGED streaks,
         (node' = node /\ percepts' = percepts) \/ node' # "deliberate"
  PROVE  /\ Earned' /\ queue' \in Seq(Percept) /\ Len(queue') <= QueueCap /\ refusals' \in [Action -> Nat]
<1>1. p.action \in Action \union {"any"} /\ p.type \in {"completed", "refused", "plumbing"} /\ GraphShape
  BY DEF Percept, GraphInv
<1>3. /\ queue' = Pushed(queue, p)
      /\ refusals' = IF p.type = "refused" THEN [refusals EXCEPT ![p.action] = @ + 1] ELSE refusals
  BY DEF Pushes
<1>4. /\ queue' \in Seq(Percept) /\ Len(queue') <= QueueCap
      /\ \A a : Refusals(queue', a) <= Refusals(queue, a) + 1
      /\ \A a : p.type # "refused" \/ p.action # a => Refusals(queue', a) <= Refusals(queue, a)
  BY <1>1, <1>3, PushedFacts DEF GraphShape
<1>5. /\ refusals' \in [Action -> Nat]
      /\ \A a \in Action : refusals'[a] = IF p.type = "refused" /\ a = p.action THEN refusals[a] + 1 ELSE refusals[a]
  <2>1. refusals \in [Action -> Nat]
    BY <1>1 DEF GraphShape
  <2>2. CASE p.type = "refused"
    <3>1. refusals' = [refusals EXCEPT ![p.action] = refusals[p.action] + 1]
      BY <1>3, <2>2
    <3>2. PICK r : r = p.action
      OBVIOUS
    <3>3. refusals' = [refusals EXCEPT ![r] = refusals[r] + 1]
      BY <3>1, <3>2
    <3>4. refusals' \in [Action -> Nat]
      <4>1. CASE r \in Action
        BY <2>1, <3>3, <4>1
      <4>2. CASE r \notin Action
        BY <2>1, <3>3, <4>2
      <4> QED
        BY <4>1, <4>2
    <3>5. \A a \in Action : refusals'[a] = IF a = r THEN refusals[a] + 1 ELSE refusals[a]
      BY <2>1, <3>3
    <3> QED
      BY <2>2, <3>2, <3>4, <3>5
  <2>3. CASE p.type # "refused"
    BY <1>3, <2>1, <2>3
  <2> QED
    BY <2>2, <2>3
<1>7. ASSUME NEW a \in Action
      PROVE  /\ IsFiniteSet(Counted(a)')
             /\ Cardinality(Counted(a)') + Refusals(queue', a) + Uncounted(a)' <= refusals'[a]
  <2>1. Counted(a)' = Counted(a) /\ Refusals(queue', a) \in Nat
    BY <1>4, RefusalsAreNumbers DEF Counted
  <2>2. /\ IsFiniteSet(Counted(a)) /\ Cardinality(Counted(a)) \in Nat /\ Refusals(queue, a) \in Nat
        /\ Uncounted(a) \in Nat /\ refusals[a] \in Nat
        /\ Cardinality(Counted(a)) + Refusals(queue, a) + Uncounted(a) <= refusals[a]
    BY EarnedNumbers
  <2>0. Uncounted(a)' = Uncounted(a) \/ Uncounted(a)' = 0
    BY DEF Uncounted
  <2>3. CASE p.type = "refused" /\ a = p.action
    <3>1. refusals'[a] = refusals[a] + 1 /\ Refusals(queue', a) <= Refusals(queue, a) + 1
      BY <1>4, <1>5, <2>3
    <3> QED
      BY <2>0, <2>1, <2>2, <3>1
  <2>4. CASE ~(p.type = "refused" /\ a = p.action)
    <3>1. refusals'[a] = refusals[a] /\ Refusals(queue', a) <= Refusals(queue, a)
      BY <1>4, <1>5, <2>4
    <3> QED
      BY <2>0, <2>1, <2>2, <3>1
  <2> QED
    BY <2>3, <2>4
<1> QED
  BY <1>4, <1>5, <1>7 DEF Earned

(* An outcome is heard, or is stale by the time it is.                       *)
LEMMA EarnedAfterTold ==
  ASSUME GraphInv, NEW type \in {"completed", "refused", "plumbing"}, NEW act \in Action, Told(type, act),
         doing' \in Seq(Action), Len(doing') <= 2,
         decision' \in Intent \union {"none"}, node' \in {"perceive", "deliberate", "act", "relate", "reflect"},
         UNCHANGED <<percepts, last, streaks>>,
         node' = node \/ node' # "deliberate"
  PROVE  GraphInv'
<1>1. GraphShape
  BY DEF GraphInv
<1>2. PICK p \in Percept : p = PerceptOf(type, act)
  <2>1. CASE type = "plumbing"
    <3>1. PerceptOf(type, act) = [type |-> type, action |-> "any"]
      BY <2>1 DEF PerceptOf
    <3> QED
      BY <3>1 DEF Percept
  <2>2. CASE type # "plumbing"
    <3>1. PerceptOf(type, act) = [type |-> type, action |-> act]
      BY <2>2 DEF PerceptOf
    <3> QED
      BY <3>1 DEF Percept
  <2> QED
    BY <2>1, <2>2
<1>3. /\ recent' = recent \union {p} /\ Cardinality(recent') <= MaxUncommitted
      /\ Pushes(p) \/ UNCHANGED <<queue, refusals>>
  BY <1>2 DEF Told
<1>4. CASE Pushes(p)
  <2>1. Earned' /\ queue' \in Seq(Percept) /\ Len(queue') <= QueueCap /\ refusals' \in [Action -> Nat]
    BY <1>4, EarnedAfterPush
  <2> QED
    BY <1>1, <1>2, <1>3, <2>1 DEF GraphInv, GraphShape
<1>5. CASE UNCHANGED <<queue, refusals>>
  <2>1. Earned'
    <3>1. CASE node' = node
      <4>1. \A a \in Action : Counted(a)' = Counted(a) /\ Uncounted(a)' = Uncounted(a)
        BY <3>1 DEF Counted, Uncounted
      <4> QED
        BY <1>5, <4>1 DEF Earned, GraphInv
    <3>2. CASE node' # "deliberate"
      BY <1>5, <3>2, NothingCounted
    <3> QED
      BY <3>1, <3>2
  <2> QED
    BY <1>1, <1>2, <1>3, <1>5, <2>1 DEF GraphInv, GraphShape
<1> QED
  BY <1>3, <1>4, <1>5

LEMMA GraphBegins == GraphInit => GraphInv
<1> SUFFICES ASSUME GraphInit PROVE GraphInv
  OBVIOUS
<1> USE TickGraphAssumption
<1>1. <<>> \in Seq(Percept) /\ <<>> \in Seq(Action) /\ Len(<<>>) = 0
  OBVIOUS
<1>2. NoStreak \in Streak /\ NoStreak.count = 0
  BY DEF NoStreak, Streak
<1>3. GraphShape
  BY <1>1, <1>2, FS_EmptySet DEF GraphInit, GraphShape
<1>4. ASSUME NEW a \in Action
      PROVE  IsFiniteSet(Counted(a)) /\ Cardinality(Counted(a)) + Refusals(queue, a) + Uncounted(a) <= refusals[a]
  <2>1. \A i \in Intent : streaks[i].count = 0
    BY <1>2 DEF GraphInit
  <2>2. CountedIn(streaks, a) = {}
    BY <2>1, CountedFacts
  <2>3. Counted(a) = {} /\ queue = <<>> /\ RefusedIn(<<>>, a) = {} /\ Uncounted(a) = 0 /\ refusals[a] = 0
    BY <1>1, <2>2 DEF GraphInit, Counted, CountedIn, RefusedIn, Uncounted
  <2>4. IsFiniteSet({}) /\ Cardinality({}) = 0
    BY FS_EmptySet
  <2>5. Refusals(queue, a) = Cardinality(RefusedIn(queue, a))
    BY DEF Refusals
  <2>6. Refusals(queue, a) = 0
    BY <2>3, <2>4, <2>5
  <2> QED
    BY <2>3, <2>4, <2>6
<1> QED
  BY <1>3, <1>4 DEF GraphInv, Earned, GraphInit

LEMMA GraphStays ==
  ASSUME GraphInv, [GraphNext]_graphVars
  PROVE  GraphInv'
<1> USE TickGraphAssumption
<1>0. GraphShape /\ <<>> \in Seq(Percept) /\ Len(<<>>) = 0 /\ doing \in Seq(Action) /\ Len(doing) \in Nat
  <2>1. GraphShape /\ doing \in Seq(Action)
    BY DEF GraphInv, GraphShape
  <2> QED
    BY <2>1, SeqFacts
<1>1. CASE Act
  <2>1. /\ node = "act" /\ node' = "relate" /\ decision' \in Intent /\ ActionOf[decision'] \in Action
        /\ UNCHANGED <<percepts, last, streaks>>
    BY <1>1 DEF Act, Action, mindOwn
  <2>2. CASE Len(doing) < 2 /\ doing' = Append(doing, ActionOf[decision']) /\ UNCHANGED <<queue, recent, refusals>>
    <3>1. doing' \in Seq(Action) /\ Len(doing') = Len(doing) + 1
      BY <1>0, <2>1, <2>2, AppendFacts
    <3>2. Len(doing') <= 2
      BY <1>0, <2>2, <3>1
    <3>3. GraphShape' /\ Earned'
      BY <1>0, <2>1, <2>2, <3>1, <3>2, NothingCounted DEF GraphShape
    <3> QED
      BY <3>3 DEF GraphInv
  <2>3. CASE Len(doing) = 2 /\ doing' = <<doing[1], ActionOf[decision']>> /\ Told("plumbing", doing[2])
    <3>1. doing[1] \in Action /\ doing[2] \in Action
      <4>1. \A k \in 1..Len(doing) : doing[k] \in Action
        BY <1>0, SeqFacts
      <4>2. 1 \in 1..2 /\ 2 \in 1..2
        OBVIOUS
      <4> QED
        BY <2>3, <4>1, <4>2
    <3>2. doing' \in Seq(Action) /\ Len(doing') <= 2
      BY <2>1, <2>3, <3>1
    <3> QED
      BY <2>1, <2>3, <3>1, <3>2, EarnedAfterTold
  <2> QED
    BY <1>1, <2>2, <2>3 DEF Act
<1>2. CASE Relate
  <2>1. /\ node = "relate" /\ node' = "reflect" /\ last' = decision /\ decision' = "none"
        /\ UNCHANGED <<percepts, queue, streaks, doing, recent, refusals>>
    BY <1>2 DEF Relate
  <2>2. GraphShape' /\ Earned'
    BY <1>0, <2>1, NothingCounted DEF GraphShape
  <2> QED
    BY <2>1, <2>2 DEF GraphInv
<1>3. CASE Reflect \/ TickFails
  <2>1. /\ node' = "perceive" /\ percepts' = <<>> /\ decision' = "none"
        /\ UNCHANGED <<queue, last, streaks, doing, recent, refusals>>
    BY <1>3 DEF Reflect, TickFails, EndOfTick, mindOwn
  <2>2. GraphShape' /\ Earned'
    BY <1>0, <2>1, NothingCounted DEF GraphShape
  <2> QED
    BY <1>0, <2>1, <2>2 DEF GraphInv
<1>4. CASE MindRestarts
  <2>1. /\ node' = "perceive" /\ percepts' = <<>> /\ last' = "none" /\ decision' = "none"
        /\ streaks' = [i \in Intent |-> NoStreak]
        /\ UNCHANGED <<queue, doing, recent, refusals>>
    BY <1>4 DEF MindRestarts, EndOfTick
  <2>2. NoStreak \in Streak /\ NoStreak.count = 0
    BY DEF NoStreak, Streak
  <2>3. GraphShape'
    BY <1>0, <2>1, <2>2 DEF GraphShape
  <2>4. ASSUME NEW a \in Action
        PROVE  IsFiniteSet(Counted(a)') /\ Cardinality(Counted(a)') + Refusals(queue', a) + Uncounted(a)' <= refusals'[a]
    <3>1. PICK fresh : fresh = streaks'
      OBVIOUS
    <3>2. \A i \in Intent : fresh[i].count = 0
      BY <2>1, <2>2, <3>1
    <3>3. CountedIn(fresh, a) = {}
      BY <3>2, CountedFacts
    <3>4. Counted(a)' = {} /\ Uncounted(a)' = 0
      BY <2>1, <3>1, <3>3 DEF Counted, CountedIn, Uncounted
    <3>5. /\ Refusals(queue, a) \in Nat /\ Cardinality(Counted(a)) \in Nat /\ Uncounted(a) \in Nat /\ refusals[a] \in Nat
          /\ Cardinality(Counted(a)) + Refusals(queue, a) + Uncounted(a) <= refusals[a]
      BY EarnedNumbers
    <3>6. IsFiniteSet({}) /\ Cardinality({}) = 0
      BY FS_EmptySet
    <3> QED
      BY <2>1, <3>4, <3>5, <3>6
  <2> QED
    BY <2>1, <2>3, <2>4 DEF GraphInv, Earned
<1>5. CASE CommitsOffset
  <2>1. recent' = {} /\ UNCHANGED <<node, percepts, decision, queue, last, streaks, doing, refusals>>
    BY <1>5 DEF CommitsOffset, tickVars, mindOwn
  <2>2. GraphShape'
    BY <1>0, <2>1, FS_EmptySet DEF GraphShape
  <2>3. \A a \in Action : Counted(a)' = Counted(a) /\ Uncounted(a)' = Uncounted(a)
    BY <2>1 DEF Counted, Uncounted
  <2> QED
    BY <2>1, <2>2, <2>3 DEF GraphInv, Earned
<1>6. ASSUME NEW type \in {"completed", "refused", "plumbing"}, Answers(type) PROVE GraphInv'
  <2>1. /\ doing # <<>> /\ doing' = Tail(doing) /\ Told(type, Head(doing))
        /\ UNCHANGED <<node, percepts, decision, last, streaks>>
    BY <1>6 DEF Answers, tickVars, mindOwn
  <2>2. Len(doing) <= 2 /\ decision \in Intent \union {"none"}
        /\ node \in {"perceive", "deliberate", "act", "relate", "reflect"}
    BY <1>0 DEF GraphShape
  <2>3. Head(doing) \in Action /\ Tail(doing) \in Seq(Action) /\ Len(Tail(doing)) = Len(doing) - 1
    BY <1>0, <2>1, HeadTailProperties
  <2>4. Len(Tail(doing)) <= 2
    BY <1>0, <2>2, <2>3
  <2> QED
    BY <2>1, <2>2, <2>3, <2>4, EarnedAfterTold
<1>7. ASSUME NEW percept \in recent, HearsAgain(percept) PROVE GraphInv'
  <2>1. Pushes(percept) /\ UNCHANGED <<node, percepts, decision, last, streaks, doing, recent>>
    BY <1>7 DEF HearsAgain, tickVars, mindOwn
  <2>2. percept \in Percept
    BY <1>0 DEF GraphShape
  <2>3. Earned' /\ queue' \in Seq(Percept) /\ Len(queue') <= QueueCap /\ refusals' \in [Action -> Nat]
    BY <2>1, <2>2, EarnedAfterPush
  <2> QED
    BY <1>0, <2>1, <2>3 DEF GraphInv, GraphShape
<1>8. CASE QueueExpires
  <2>1. queue' = <<>> /\ UNCHANGED <<node, percepts, decision, last, streaks, doing, recent, refusals>>
    BY <1>8 DEF QueueExpires, tickVars, mindOwn
  <2>2. GraphShape'
    BY <1>0, <2>1 DEF GraphShape
  <2>3. ASSUME NEW a \in Action
        PROVE  IsFiniteSet(Counted(a)') /\ Cardinality(Counted(a)') + Refusals(queue', a) + Uncounted(a)' <= refusals'[a]
    <3>1. Counted(a)' = Counted(a) /\ Uncounted(a)' = Uncounted(a)
      BY <2>1 DEF Counted, Uncounted
    <3>2. RefusedIn(<<>>, a) = {}
      BY DEF RefusedIn
    <3>3. Refusals(queue', a) = 0
      BY <2>1, <3>2, FS_EmptySet DEF Refusals
    <3>4. /\ IsFiniteSet(Counted(a)) /\ Cardinality(Counted(a)) \in Nat /\ Refusals(queue, a) \in Nat
          /\ Uncounted(a) \in Nat /\ refusals[a] \in Nat
          /\ Cardinality(Counted(a)) + Refusals(queue, a) + Uncounted(a) <= refusals[a]
      BY EarnedNumbers
    <3> QED
      BY <2>1, <3>1, <3>3, <3>4
  <2> QED
    BY <2>2, <2>3 DEF GraphInv, Earned
<1>9. CASE UNCHANGED graphVars
  <2>1. UNCHANGED <<node, percepts, decision, queue, last, streaks, doing, recent, refusals>>
    BY <1>9 DEF graphVars, tickVars, mindOwn
  <2>2. GraphShape'
    BY <1>0, <2>1 DEF GraphShape
  <2>3. \A a \in Action : Counted(a)' = Counted(a) /\ Uncounted(a)' = Uncounted(a)
    BY <2>1 DEF Counted, Uncounted
  <2>4. Earned'
    BY <2>1, <2>3 DEF Earned, GraphInv
  <2> QED
    BY <1>0, <2>1, <2>2, <2>4 DEF GraphInv
<1> QED
  BY <1>1, <1>2, <1>3, <1>4, <1>5, <1>6, <1>7, <1>8, <1>9, EarnedAfterPerceive, EarnedAfterDeliberate DEF GraphNext

LEMMA GraphMeans ==
  ASSUME GraphInv
  PROVE  GraphTypeOK /\ AdviceIsEarned
<1>1. GraphTypeOK
  <2>1. \A i \in Intent : streaks[i].idle < StreakTTL
    <3>1. \A i \in Intent : streaks[i].idle \in 0..(StreakTTL - 1)
      BY DEF GraphInv, GraphShape, Streak
    <3> QED
      BY <3>1, TickGraphAssumption
  <2> QED
    BY <2>1 DEF GraphInv, GraphShape, GraphTypeOK
<1>2. AdviceIsEarned
  <2> SUFFICES ASSUME NEW a \in Action PROVE Cardinality(Counted(a)) <= refusals[a]
    BY DEF AdviceIsEarned
  <2> QED
    BY EarnedNumbers
<1> QED
  BY <1>1, <1>2

(* TickScheduler's pace: ticks begin a cooldown apart, and reactive ones     *)
(* begin at most one beyond the cap in any window.                           *)
THEOREM PaceIsAlwaysKept == SchedulerFresh /\ [][SchedulerNext]_schedulerVars => []ReactivePace
<1>1. PaceInv /\ [SchedulerNext]_schedulerVars => PaceInv'
  BY PaceStays
<1>2. PaceInv => ReactivePace
  BY PaceIsKept
<1> QED
  BY PaceAtFirst, <1>1, <1>2, PTL

(* The types of a tick and what it gives up on, for every trace of percepts, *)
(* redeliveries, failures and restarts.                                      *)
THEOREM GraphAlwaysEarns ==
  GraphInit /\ [][GraphNext]_graphVars => [](GraphTypeOK /\ AdviceIsEarned)
<1>1. GraphInv /\ [GraphNext]_graphVars => GraphInv'
  BY GraphStays
<1>2. GraphInv => GraphTypeOK /\ AdviceIsEarned
  BY GraphMeans
<1> QED
  BY GraphBegins, <1>1, <1>2, PTL

-----------------------------------------------------------------------------
(* The memory stream. *)

Kind == {"action", "reflection"}

PassRecord == [stage : {"none", "due", "marked", "asking", "storing", "embedding"},
               mark : Nat, batch : SUBSET Nat, left : Int, row : Nat]

StreamShape ==
  /\ kinds \in Seq(Kind) /\ Len(kinds) <= MaxMemories
  /\ rows \subseteq 1..Len(kinds) /\ pending \subseteq 1..Len(kinds)
  /\ pass \in [Pass -> PassRecord]
  /\ runs \in 0..HourlyCap

(* What a pass under way knows: its watermark is an insight that is there,   *)
(* and what is newer was shown to it, or is excused.                         *)
PassKnows(r) ==
  /\ pass[r].stage \notin {"none", "due"} =>
       /\ pending \subseteq shadow
       /\ pass[r].mark # 0 => pass[r].mark \in rows /\ kinds[pass[r].mark] = "reflection"
  /\ pass[r].stage \in {"asking", "storing", "embedding"} =>
       \A m \in rows : kinds[m] = "action" /\ pass[r].mark < m => m \in pass[r].batch \union crowded \union shadow
  /\ pass[r].stage = "embedding" =>
       pass[r].row \in 1..Len(kinds) /\ kinds[pass[r].row] = "reflection"

(* A store that an insight overtook was under way when the insight was.      *)
Overtaken ==
  \A m \in pending : kinds[m] = "action" /\ \A w \in 1..Len(kinds) : kinds[w] = "reflection" /\ m < w => m \in shadow

NonePassedOver ==
  \A m, w \in rows : kinds[m] = "action" /\ kinds[w] = "reflection" /\ m < w => m \in read \union shadow \union crowded

StreamInv == StreamShape /\ (\A r \in Pass : PassKnows(r)) /\ Overtaken /\ NonePassedOver

(* The watermark is the newest insight, or nothing.                          *)
LEMMA WatermarkFacts ==
  ASSUME StreamShape
  PROVE  /\ Watermark \in Nat
         /\ Watermark # 0 => Watermark \in rows /\ kinds[Watermark] = "reflection"
         /\ \A w \in rows : kinds[w] = "reflection" => w <= Watermark
<1> USE DEF StreamShape
<1>1. PICK S : S = {0} \union OfKind("reflection")
  OBVIOUS
<1>2. Len(kinds) \in Nat
  BY SeqFacts
<1>3. S \in SUBSET Nat /\ S # {} /\ \A n \in S : n <= Len(kinds)
  <2>1. rows \subseteq 1..Len(kinds)
    OBVIOUS
  <2>2. \A n \in S : n = 0 \/ n \in 1..Len(kinds)
    BY <1>1, <2>1 DEF OfKind
  <2>3. 0 \in S
    BY <1>1
  <2> HIDE DEF StreamShape
  <2> QED
    BY <1>2, <2>2, <2>3
<1>4. PICK top \in S : \A n \in S : n <= top
  BY <1>2, <1>3, GreatestNumber
<1>5. \A n \in S : top >= n
  BY <1>3, <1>4
<1>6. Watermark \in S /\ \A n \in S : Watermark >= n
  BY <1>1, <1>4, <1>5 DEF Watermark, Max
<1>7. PICK mark : mark = Watermark
  OBVIOUS
<1>8. mark \in Nat /\ \A n \in S : n <= mark
  BY <1>3, <1>6, <1>7
<1>9. mark # 0 => mark \in rows /\ kinds[mark] = "reflection"
  BY <1>1, <1>6, <1>7 DEF OfKind
<1>10. \A w \in rows : kinds[w] = "reflection" => w \in S
  BY <1>1 DEF OfKind
<1> QED
  BY <1>7, <1>8, <1>9, <1>10

LEMMA StreamBegins == StreamInit => StreamInv
<1> SUFFICES ASSUME StreamInit PROVE StreamInv
  OBVIOUS
<1> USE ReflectionAssumption
<1>1. <<>> \in Seq(Kind) /\ Len(<<>>) = 0
  OBVIOUS
<1>2. NoPass \in PassRecord /\ NoPass.stage = "none"
  BY DEF NoPass, PassRecord
<1>3. StreamShape
  BY <1>1, <1>2 DEF StreamInit, StreamShape
<1> QED
  BY <1>2, <1>3 DEF StreamInit, StreamInv, PassKnows, Overtaken, NonePassedOver

(* A memory is begun.                                                        *)
LEMMA KindsGrow ==
  ASSUME StreamShape, NEW kind \in Kind, kinds' = Append(kinds, kind), Len(kinds) < MaxMemories
  PROVE  /\ kinds' \in Seq(Kind) /\ Len(kinds') = Len(kinds) + 1 /\ Len(kinds') <= MaxMemories
         /\ Len(kinds) \in Nat /\ Len(kinds) + 1 \in 1..Len(kinds')
         /\ 1..Len(kinds) \subseteq 1..Len(kinds')
         /\ \A i \in 1..Len(kinds) : kinds'[i] = kinds[i]
         /\ kinds'[Len(kinds) + 1] = kind
         /\ \A i \in 1..Len(kinds') : i \in 1..Len(kinds) \/ i = Len(kinds) + 1
<1>1. kinds \in Seq(Kind) /\ Len(kinds) \in Nat
  BY SeqFacts DEF StreamShape
<1>2. /\ kinds' \in Seq(Kind) /\ Len(kinds') = Len(kinds) + 1
      /\ \A i \in 1..Len(kinds) : kinds'[i] = kinds[i]
      /\ kinds'[Len(kinds) + 1] = kind
  BY <1>1, AppendFacts
<1>3. Len(kinds) + 1 <= MaxMemories
  BY <1>1, ReflectionAssumption
<1> QED
  BY <1>1, <1>2, <1>3

(* The pass of one, and what it may become.                                  *)
LEMMA PassGoes ==
  ASSUME StreamShape, NEW r \in Pass, NEW to \in PassRecord, Goes(r, to)
  PROVE  pass' \in [Pass -> PassRecord] /\ pass'[r] = to /\ \A q \in Pass \ {r} : pass'[q] = pass[q]
BY DEF StreamShape, Goes

LEMMA StreamStores ==
  ASSUME StreamInv,
         BeginStore \/ HourPasses \/ \E m \in pending : CommitStore(m) \/ StoreFails(m)
  PROVE  StreamInv'
<1> USE ReflectionAssumption
<1>0. /\ StreamShape /\ Overtaken /\ NonePassedOver
      /\ \A r \in Pass : PassKnows(r) /\ pass[r] \in PassRecord
  BY DEF StreamInv, StreamShape
<1>1. CASE BeginStore
  <2>1. /\ kinds' = Append(kinds, "action") /\ Len(kinds) < MaxMemories
        /\ pending' = pending \union {Len(kinds')}
        /\ shadow' = IF Active = {} THEN shadow ELSE shadow \union {Len(kinds')}
        /\ UNCHANGED <<rows, pass, runs, read, crowded>>
    BY <1>1 DEF BeginStore
  <2>2. /\ kinds' \in Seq(Kind) /\ Len(kinds') = Len(kinds) + 1 /\ Len(kinds') <= MaxMemories
        /\ Len(kinds) \in Nat /\ Len(kinds) + 1 \in 1..Len(kinds')
        /\ 1..Len(kinds) \subseteq 1..Len(kinds')
        /\ \A i \in 1..Len(kinds) : kinds'[i] = kinds[i]
        /\ kinds'[Len(kinds) + 1] = "action"
        /\ \A i \in 1..Len(kinds') : i \in 1..Len(kinds) \/ i = Len(kinds) + 1
    BY <1>0, <2>1, KindsGrow DEF Kind
  <2>3. PICK new : new = Len(kinds) + 1
    OBVIOUS
  <2>4. rows \subseteq 1..Len(kinds) /\ pending \subseteq 1..Len(kinds) /\ shadow \subseteq shadow'
    BY <1>0, <2>1 DEF StreamShape
  <2>5. StreamShape'
    BY <1>0, <2>1, <2>2, <2>4 DEF StreamShape
  <2>6. ASSUME NEW r \in Pass PROVE PassKnows(r)'
    <3>1. CASE pass[r].stage \notin {"none", "due"}
      <4>1. r \in Active /\ pending \subseteq shadow
        BY <1>0, <3>1 DEF Active, PassKnows
      <4>2. pending' \subseteq shadow'
        BY <2>1, <4>1
      <4> QED
        BY <1>0, <2>1, <2>2, <2>4, <4>2 DEF PassKnows
    <3>2. CASE pass[r].stage \in {"none", "due"}
      BY <2>1, <3>2 DEF PassKnows
    <3> QED
      BY <3>1, <3>2
  <2>7. Overtaken'
    <3>1. ASSUME NEW m \in pending', NEW w \in 1..Len(kinds'), kinds'[w] = "reflection", m < w
          PROVE  m \in shadow'
      <4>1. w \in 1..Len(kinds) /\ kinds[w] = "reflection"
        BY <2>2, <3>1
      <4>2. m # new
        BY <2>2, <2>3, <3>1, <4>1
      <4>3. m \in pending
        BY <2>1, <2>2, <2>3, <4>2
      <4> QED
        BY <1>0, <2>4, <3>1, <4>1, <4>3 DEF Overtaken
    <3>2. \A m \in pending' : kinds'[m] = "action"
      BY <1>0, <2>1, <2>2, <2>4 DEF Overtaken
    <3> QED
      BY <3>1, <3>2 DEF Overtaken
  <2>8. NonePassedOver'
    BY <1>0, <2>1, <2>2, <2>4 DEF NonePassedOver
  <2> QED
    BY <2>5, <2>6, <2>7, <2>8 DEF StreamInv
<1>2. CASE HourPasses
  <2>1. runs' = 0 /\ UNCHANGED <<kinds, rows, pending, pass, read, shadow, crowded>>
    BY <1>2 DEF HourPasses
  <2>2. StreamShape'
    BY <1>0, <2>1 DEF StreamShape
  <2>3. Overtaken' /\ NonePassedOver' /\ \A r \in Pass : PassKnows(r)'
    BY <1>0, <2>1 DEF Overtaken, NonePassedOver, PassKnows
  <2> QED
    BY <2>2, <2>3 DEF StreamInv
<1>3. ASSUME NEW m \in pending, CommitStore(m) PROVE StreamInv'
  <2>1. /\ pending' = pending \ {m} /\ rows' = rows \union {m}
        /\ UNCHANGED <<kinds, pass, runs, read, shadow, crowded>>
    BY <1>3 DEF CommitStore
  <2>2. StreamShape'
    BY <1>0, <2>1 DEF StreamShape
  <2>3. Overtaken'
    BY <1>0, <2>1 DEF Overtaken
  <2>4. kinds[m] = "action" /\ m \in 1..Len(kinds) /\ rows \subseteq 1..Len(kinds)
    BY <1>0 DEF Overtaken, StreamShape
  <2>5. ASSUME NEW n \in rows', NEW w \in rows', kinds[n] = "action", kinds[w] = "reflection", n < w
        PROVE  n \in read \union shadow \union crowded
    <3>1. w \in rows /\ w \in 1..Len(kinds)
      BY <2>1, <2>4, <2>5
    <3>2. CASE n = m
      BY <1>0, <2>5, <3>1, <3>2 DEF Overtaken
    <3>3. CASE n \in rows
      BY <1>0, <2>5, <3>1, <3>3 DEF NonePassedOver
    <3> QED
      BY <2>1, <3>2, <3>3
  <2>6. ASSUME NEW r \in Pass PROVE PassKnows(r)'
    <3>1. PassKnows(r)
      BY <1>0
    <3>2. ASSUME pass[r].stage \in {"asking", "storing", "embedding"}, NEW n \in rows', kinds[n] = "action", pass[r].mark < n
          PROVE  n \in pass[r].batch \union crowded \union shadow
      BY <2>1, <3>1, <3>2 DEF PassKnows
    <3> QED
      BY <2>1, <3>1, <3>2 DEF PassKnows
  <2> QED
    BY <2>1, <2>2, <2>3, <2>5, <2>6 DEF StreamInv, NonePassedOver
<1>4. ASSUME NEW m \in pending, StoreFails(m) PROVE StreamInv'
  <2>1. pending' = pending \ {m} /\ UNCHANGED <<kinds, rows, pass, runs, read, shadow, crowded>>
    BY <1>4 DEF StoreFails
  <2>2. StreamShape'
    BY <1>0, <2>1 DEF StreamShape
  <2>3. Overtaken' /\ NonePassedOver' /\ \A r \in Pass : PassKnows(r)'
    BY <1>0, <2>1 DEF Overtaken, NonePassedOver, PassKnows
  <2> QED
    BY <2>2, <2>3 DEF StreamInv
<1> QED
  BY <1>1, <1>2, <1>3, <1>4

(* A pass that goes on with what it knows, while no row is added.            *)
LEMMA OthersKnow ==
  ASSUME StreamInv, NEW r \in Pass, NEW to \in PassRecord, Goes(r, to),
         UNCHANGED <<kinds, rows, pending, read>>, runs' \in 0..HourlyCap,
         shadow \subseteq shadow', crowded \subseteq crowded',
         PassKnows(r)'
  PROVE  StreamInv'
<1>0. /\ StreamShape /\ Overtaken /\ NonePassedOver
      /\ \A q \in Pass : PassKnows(q) /\ pass[q] \in PassRecord
  BY DEF StreamInv, StreamShape
<1>1. pass' \in [Pass -> PassRecord] /\ pass'[r] = to /\ \A q \in Pass \ {r} : pass'[q] = pass[q]
  BY <1>0, PassGoes
<1>2. StreamShape'
  BY <1>0, <1>1 DEF StreamShape
<1>3. ASSUME NEW q \in Pass \ {r} PROVE PassKnows(q)'
  BY <1>0, <1>1 DEF PassKnows
<1>4. Overtaken' /\ NonePassedOver'
  BY <1>0 DEF Overtaken, NonePassedOver
<1> QED
  BY <1>2, <1>3, <1>4 DEF StreamInv

LEMMA StreamPasses ==
  ASSUME StreamInv, NEW r \in Pass,
         Due(r) \/ Marks(r) \/ Reads(r) \/ Distils(r) \/ PassFails(r)
  PROVE  StreamInv'
<1> USE ReflectionAssumption
<1>0. /\ StreamShape /\ PassKnows(r) /\ pass[r] \in PassRecord /\ runs \in 0..HourlyCap
      /\ pass \in [Pass -> PassRecord] /\ rows \subseteq 1..Len(kinds) /\ Len(kinds) \in Nat
  <2>1. StreamShape /\ PassKnows(r)
    BY DEF StreamInv
  <2>2. kinds \in Seq(Kind)
    BY <2>1 DEF StreamShape
  <2> QED
    BY <2>1, <2>2, SeqFacts DEF StreamShape
<1>1. NoPass \in PassRecord /\ NoPass.stage = "none" /\ NoPass.mark = 0 /\ NoPass.batch = {}
  BY DEF NoPass, PassRecord
<1>2. ASSUME NEW to \in PassRecord, Goes(r, to) PROVE pass'[r] = to
  BY <1>0, <1>2, PassGoes
<1>3. CASE Due(r)
  <2>1. PICK to : to = [NoPass EXCEPT !.stage = "due"]
    OBVIOUS
  <2>2. to \in PassRecord /\ to.stage = "due"
    BY <2>1 DEF NoPass, PassRecord
  <2>3. Goes(r, to) /\ UNCHANGED <<kinds, rows, pending, runs, read, shadow, crowded>>
    BY <1>3, <2>1 DEF Due
  <2>4. PassKnows(r)'
    BY <1>2, <2>2, <2>3 DEF PassKnows
  <2> QED
    BY <1>0, <2>2, <2>3, <2>4, OthersKnow
<1>4. CASE Marks(r)
  <2>1. PICK mark : mark = Watermark
    OBVIOUS
  <2>2. mark \in Nat /\ (mark # 0 => mark \in rows /\ kinds[mark] = "reflection")
    BY <1>0, <2>1, WatermarkFacts
  <2>3. PICK to : to = [NoPass EXCEPT !.stage = "marked", !.mark = mark]
    OBVIOUS
  <2>4. to \in PassRecord /\ to.stage = "marked" /\ to.mark = mark
    BY <1>1, <2>2, <2>3 DEF PassRecord
  <2>5. Goes(r, to) /\ shadow' = shadow \union pending /\ UNCHANGED <<kinds, rows, pending, runs, read, crowded>>
    BY <1>4, <2>1, <2>3 DEF Marks
  <2>6. pass'[r] = to
    BY <1>2, <2>4, <2>5
  <2>7. PassKnows(r)'
    BY <2>2, <2>4, <2>5, <2>6 DEF PassKnows
  <2> QED
    BY <1>0, <2>4, <2>5, <2>7, OthersKnow
<1>5. CASE Reads(r)
  <2>1. PICK fresh, batch : fresh = Since(pass[r].mark) /\ batch = Newest(fresh)
    OBVIOUS
  <2>2. /\ pass[r].stage = "marked" /\ UNCHANGED <<kinds, rows, pending, read, shadow>>
        /\ \/ Goes(r, NoPass) /\ UNCHANGED <<runs, crowded>>
           \/ /\ ~(runs >= HourlyCap) /\ runs' = runs + 1 /\ crowded' = crowded \union (fresh \ batch)
              /\ Goes(r, [pass[r] EXCEPT !.stage = "asking", !.batch = batch])
    BY <1>5, <2>1 DEF Reads
  <2>3. CASE Goes(r, NoPass) /\ UNCHANGED <<runs, crowded>>
    <3>1. PassKnows(r)'
      BY <1>1, <1>2, <2>3 DEF PassKnows
    <3> QED
      BY <1>0, <1>1, <2>2, <2>3, <3>1, OthersKnow
  <2>4. CASE /\ ~(runs >= HourlyCap) /\ runs' = runs + 1 /\ crowded' = crowded \union (fresh \ batch)
             /\ Goes(r, [pass[r] EXCEPT !.stage = "asking", !.batch = batch])
    <3>1. \A m \in fresh : m \in 1..Len(kinds)
      BY <1>0, <2>1 DEF Since, OfKind
    <3>2. batch \subseteq fresh
      BY <2>1 DEF Newest
    <3>3. batch \in SUBSET Nat
      BY <3>1, <3>2
    <3>4. PICK to : to = [pass[r] EXCEPT !.stage = "asking", !.batch = batch]
      OBVIOUS
    <3>5. to \in PassRecord /\ to.stage = "asking" /\ to.batch = batch /\ to.mark = pass[r].mark
      BY <1>0, <3>3, <3>4 DEF PassRecord
    <3>6. pass'[r] = to /\ Goes(r, to)
      BY <1>2, <2>4, <3>4, <3>5
    <3>7. ASSUME NEW m \in rows, kinds[m] = "action", to.mark < m
          PROVE  m \in batch \union crowded' \union shadow
      <4>1. m \in fresh
        BY <1>0, <2>1, <3>5, <3>7 DEF Since, OfKind, PassRecord
      <4> QED
        BY <2>4, <4>1
    <3>8. PassKnows(r)'
      BY <1>0, <2>2, <2>4, <3>5, <3>6, <3>7 DEF PassKnows
    <3>9. runs' \in 0..HourlyCap
      BY <1>0, <2>4
    <3> QED
      BY <2>2, <2>4, <3>5, <3>6, <3>8, <3>9, OthersKnow
  <2> QED
    BY <2>2, <2>3, <2>4
<1>6. CASE Distils(r)
  <2>1. PICK n \in 1..MaxInsights : Goes(r, [pass[r] EXCEPT !.stage = "storing", !.left = n])
    BY <1>6 DEF Distils
  <2>2. PICK to : to = [pass[r] EXCEPT !.stage = "storing", !.left = n]
    OBVIOUS
  <2>3. n \in Int
    BY <2>1
  <2>4. to \in PassRecord /\ to.stage = "storing" /\ to.batch = pass[r].batch /\ to.mark = pass[r].mark
    BY <1>0, <2>2, <2>3 DEF PassRecord
  <2>5. pass[r].stage = "asking" /\ UNCHANGED <<kinds, rows, pending, runs, read, shadow, crowded>> /\ Goes(r, to)
    BY <1>6, <2>1, <2>2 DEF Distils
  <2>6. PassKnows(r)'
    BY <1>0, <1>2, <2>4, <2>5 DEF PassKnows
  <2> QED
    BY <1>0, <2>4, <2>5, <2>6, OthersKnow
<1>7. CASE PassFails(r)
  <2>1. Goes(r, NoPass) /\ UNCHANGED <<kinds, rows, pending, runs, read, shadow, crowded>>
    BY <1>7 DEF PassFails
  <2>2. PassKnows(r)'
    BY <1>1, <1>2, <2>1 DEF PassKnows
  <2> QED
    BY <1>0, <1>1, <2>1, <2>2, OthersKnow
<1> QED
  BY <1>3, <1>4, <1>5, <1>6, <1>7

LEMMA StreamBeginsInsight ==
  ASSUME StreamInv, NEW r \in Pass, BeginInsight(r)
  PROVE  StreamInv'
<1> USE ReflectionAssumption
<1>0. /\ StreamShape /\ Overtaken /\ NonePassedOver
      /\ \A q \in Pass : PassKnows(q) /\ pass[q] \in PassRecord
  BY DEF StreamInv, StreamShape
<1>1. PICK new : new = Len(kinds) + 1
  OBVIOUS
<1>2. /\ kinds' = Append(kinds, "reflection") /\ Len(kinds) < MaxMemories
      /\ pass[r].stage = "storing" /\ UNCHANGED <<rows, pending, runs, read, shadow, crowded>>
      /\ Goes(r, [pass[r] EXCEPT !.stage = "embedding", !.row = Len(kinds')])
  BY DEF BeginInsight
<1>3. /\ kinds' \in Seq(Kind) /\ Len(kinds') = new /\ Len(kinds') <= MaxMemories
      /\ Len(kinds) \in Nat /\ new \in Nat /\ new \in 1..Len(kinds')
      /\ 1..Len(kinds) \subseteq 1..Len(kinds')
      /\ \A i \in 1..Len(kinds) : kinds'[i] = kinds[i]
      /\ kinds'[new] = "reflection"
      /\ \A i \in 1..Len(kinds') : i \in 1..Len(kinds) \/ i = new
  BY <1>0, <1>1, <1>2, KindsGrow DEF Kind
<1>4. rows \subseteq 1..Len(kinds) /\ pending \subseteq 1..Len(kinds)
  BY <1>0 DEF StreamShape
<1>5. PICK to : to = [pass[r] EXCEPT !.stage = "embedding", !.row = new]
  OBVIOUS
<1>6. to \in PassRecord /\ to.stage = "embedding" /\ to.row = new /\ to.batch = pass[r].batch /\ to.mark = pass[r].mark
  BY <1>0, <1>3, <1>5 DEF PassRecord
<1>7. pass' \in [Pass -> PassRecord] /\ pass'[r] = to /\ \A q \in Pass \ {r} : pass'[q] = pass[q]
  <2>1. Goes(r, to)
    BY <1>2, <1>3, <1>5
  <2> QED
    BY <1>0, <1>6, <2>1, PassGoes
<1>8. StreamShape'
  BY <1>0, <1>2, <1>3, <1>4, <1>7 DEF StreamShape
<1>9. pending \subseteq shadow
  BY <1>0, <1>2 DEF PassKnows
<1>10. PassKnows(r)'
  BY <1>0, <1>2, <1>3, <1>4, <1>6, <1>7 DEF PassKnows
<1>11. ASSUME NEW q \in Pass \ {r} PROVE PassKnows(q)'
  BY <1>0, <1>2, <1>3, <1>4, <1>7 DEF PassKnows
<1>12. Overtaken'
  BY <1>0, <1>2, <1>3, <1>4, <1>9 DEF Overtaken
<1>13. NonePassedOver'
  BY <1>0, <1>2, <1>3, <1>4 DEF NonePassedOver
<1> QED
  BY <1>8, <1>10, <1>11, <1>12, <1>13 DEF StreamInv

LEMMA StreamCommitsInsight ==
  ASSUME StreamInv, NEW r \in Pass, CommitInsight(r)
  PROVE  StreamInv'
<1> USE ReflectionAssumption
<1>0. /\ StreamShape /\ Overtaken /\ NonePassedOver
      /\ \A q \in Pass : PassKnows(q) /\ pass[q] \in PassRecord
  BY DEF StreamInv, StreamShape
<1>1. PICK new, batch, mark : new = pass[r].row /\ batch = pass[r].batch /\ mark = pass[r].mark
  OBVIOUS
<1>2. PICK to : to = IF pass[r].left = 1 THEN NoPass ELSE [pass[r] EXCEPT !.stage = "storing", !.left = @ - 1, !.row = 0]
  OBVIOUS
<1>3. /\ pass[r].stage = "embedding" /\ rows' = rows \union {new} /\ read' = read \union batch
      /\ Goes(r, to) /\ UNCHANGED <<kinds, pending, runs, shadow, crowded>>
  BY <1>1, <1>2 DEF CommitInsight
<1>4. to = NoPass \/ to = [pass[r] EXCEPT !.stage = "storing", !.left = @ - 1, !.row = 0]
  BY <1>2
<1>5. to \in PassRecord /\ to.stage \in {"none", "storing"} /\ (to.stage = "storing" => to.mark = mark /\ to.batch = batch)
  <2>1. CASE to = NoPass
    BY <2>1 DEF NoPass, PassRecord
  <2>2. CASE to = [pass[r] EXCEPT !.stage = "storing", !.left = @ - 1, !.row = 0]
    <3>1. pass[r] \in PassRecord /\ pass[r].left - 1 \in Int
      BY <1>0 DEF PassRecord
    <3> QED
      BY <1>1, <2>2, <3>1 DEF PassRecord
  <2> QED
    BY <1>4, <2>1, <2>2
<1>6. pass' \in [Pass -> PassRecord] /\ pass'[r] = to /\ \A q \in Pass \ {r} : pass'[q] = pass[q]
  BY <1>0, <1>3, <1>5, PassGoes
<1>7. /\ rows \subseteq 1..Len(kinds) /\ new \in 1..Len(kinds) /\ kinds[new] = "reflection"
      /\ mark \in Nat /\ (mark # 0 => mark \in rows /\ kinds[mark] = "reflection")
      /\ \A m \in rows : kinds[m] = "action" /\ mark < m => m \in batch \union crowded \union shadow
      /\ pending \subseteq shadow
  BY <1>0, <1>1, <1>3 DEF StreamShape, PassKnows, PassRecord
<1>8. StreamShape'
  BY <1>0, <1>3, <1>6, <1>7 DEF StreamShape
<1>9. PassKnows(r)'
  BY <1>3, <1>5, <1>6, <1>7 DEF PassKnows
<1>10. ASSUME NEW q \in Pass \ {r} PROVE PassKnows(q)'
  BY <1>0, <1>3, <1>6, <1>7 DEF PassKnows
<1>11. Overtaken'
  BY <1>0, <1>3 DEF Overtaken
<1>12. ASSUME NEW m \in rows', NEW w \in rows', kinds[m] = "action", kinds[w] = "reflection", m < w
       PROVE  m \in read' \union shadow \union crowded
  <2>1. m \in rows /\ m \in 1..Len(kinds)
    BY <1>3, <1>7, <1>12
  <2>2. CASE w \in rows
    BY <1>0, <1>3, <1>12, <2>1, <2>2 DEF NonePassedOver
  <2>3. CASE w = new /\ mark < m
    BY <1>3, <1>7, <1>12, <2>1, <2>3
  <2>4. CASE w = new /\ ~(mark < m)
    <3>1. m \in Nat /\ 1 <= m
      BY <2>1
    <3>2. mark # 0
      BY <2>4, <3>1
    <3>3. mark \in rows /\ kinds[mark] = "reflection" /\ m # mark
      BY <1>7, <1>12, <3>2
    <3>4. m < mark
      BY <1>7, <2>4, <3>1, <3>3
    <3> QED
      BY <1>0, <1>3, <1>12, <2>1, <3>3, <3>4 DEF NonePassedOver
  <2> QED
    BY <1>3, <2>2, <2>3, <2>4
<1>13. NonePassedOver'
  BY <1>3, <1>12 DEF NonePassedOver
<1> QED
  BY <1>8, <1>9, <1>10, <1>11, <1>13 DEF StreamInv

LEMMA StreamStays ==
  ASSUME StreamInv, [StreamNext]_streamVars
  PROVE  StreamInv'
<1>1. CASE UNCHANGED streamVars
  <2>1. UNCHANGED <<kinds, rows, pending, pass, runs, read, shadow, crowded>>
    BY <1>1 DEF streamVars
  <2> QED
    BY <2>1 DEF StreamInv, StreamShape, PassKnows, Overtaken, NonePassedOver
<1>2. CASE StreamNext
  BY <1>2, StreamStores, StreamPasses, StreamBeginsInsight, StreamCommitsInsight DEF StreamNext
<1> QED
  BY <1>1, <1>2

LEMMA StreamMeans ==
  ASSUME StreamInv
  PROVE  StreamTypeOK /\ NothingSkipped
<1>0. StreamShape /\ NonePassedOver
  BY DEF StreamInv
<1>1. StreamTypeOK
  <2>1. DOMAIN kinds = 1..Len(kinds)
    BY <1>0 DEF StreamShape
  <2> QED
    BY <1>0, <2>1 DEF StreamShape, StreamTypeOK, Kind, PassRecord
<1>2. PICK mark : mark = Watermark
  OBVIOUS
<1>3. /\ mark \in Nat /\ (mark # 0 => mark \in rows /\ kinds[mark] = "reflection")
      /\ rows \subseteq 1..Len(kinds)
  BY <1>0, <1>2, WatermarkFacts DEF StreamShape
<1>4. ASSUME NEW m \in OfKind("action"), m < mark
      PROVE  m \in read \union shadow \union crowded
  <2>1. m \in rows /\ kinds[m] = "action" /\ m \in 1..Len(kinds)
    BY <1>3 DEF OfKind
  <2>2. mark # 0
    BY <1>4, <2>1
  <2> QED
    BY <1>0, <1>3, <1>4, <2>1, <2>2 DEF NonePassedOver
<1> QED
  BY <1>1, <1>2, <1>4 DEF NothingSkipped

(* Reflection skips nothing: what the watermark has passed was shown to a    *)
(* pass that came to an insight, or is excused, for any passes that overlap, *)
(* fail half way or run on stale counts of what is due.                      *)
THEOREM StreamNeverSkips == StreamInit /\ [][StreamNext]_streamVars => [](StreamTypeOK /\ NothingSkipped)
<1>1. StreamInv /\ [StreamNext]_streamVars => StreamInv'
  BY StreamStays
<1>2. StreamInv => StreamTypeOK /\ NothingSkipped
  BY StreamMeans
<1> QED
  BY StreamBegins, <1>1, <1>2, PTL

-----------------------------------------------------------------------------
(* The curriculum. *)

Outcome == {"ok", "failed"}

CurriculumShape ==
  /\ records \in [Skill -> Seq(Outcome)]
  /\ streak \in [Skill -> Nat]
  /\ offered \in Skill \cup {"nothing yet", "threw"}

(* The streak of a skill is a tail of its records.                           *)
StreakIsTail ==
  \A s \in Skill : /\ streak[s] <= Len(records[s])
                   /\ \A i \in 1..Len(records[s]) : i > Len(records[s]) - streak[s] => records[s][i] = "ok"

NewIsOpen == offered \in Skill /\ Attempts(offered) = 0 => Unmastered = {}

CurriculumInv == CurriculumShape /\ StreakIsTail /\ NewIsOpen

(* What the gate lets through, and what is chosen of it.                     *)
LEMMA ChosenIsAllowed ==
  ASSUME NEW candidates \in SUBSET Skill, NEW s \in Chosen(Allowed(candidates))
  PROVE  s \in Skill /\ (Attempts(s) = 0 => Unmastered = {})
<1>1. s \in Allowed(candidates)
  BY DEF Chosen
<1>2. CASE Unmastered = {}
  BY <1>1, <1>2 DEF Allowed
<1>3. CASE Unmastered # {}
  <2>1. s \in candidates /\ Attempts(s) > 0
    BY <1>1, <1>3 DEF Allowed
  <2> QED
    BY <2>1
<1> QED
  BY <1>2, <1>3

LEMMA CurriculumBegins == CurriculumInit => CurriculumInv
<1> SUFFICES ASSUME CurriculumInit PROVE CurriculumInv
  OBVIOUS
<1>1. records = [s \in Skill |-> <<>>] /\ streak = [s \in Skill |-> 0] /\ offered = "nothing yet"
  BY DEF CurriculumInit
<1>2. "nothing yet" \notin Skill
  BY CurriculumAssumption
<1> QED
  <2>1. CurriculumShape
    BY <1>1, EmptySeq DEF CurriculumShape
  <2>2. \A s \in Skill : streak[s] = 0 /\ records[s] = <<>> /\ Len(records[s]) = 0
    BY <1>1, EmptySeq
  <2>3. StreakIsTail
    BY <2>2 DEF StreakIsTail
  <2> QED
    BY <1>1, <1>2, <2>1, <2>3 DEF CurriculumInv, NewIsOpen

LEMMA CurriculumStays ==
  ASSUME CurriculumInv, [CurriculumNext]_curriculumVars
  PROVE  CurriculumInv'
<1> USE DEF CurriculumInv, CurriculumShape
<1>0. "nothing yet" \notin Skill /\ "threw" \notin Skill
  BY CurriculumAssumption
<1>1. CASE Propose
  <2>0. UNCHANGED <<records, streak>>
    BY <1>1 DEF Propose
  <2>1. StreakIsTail'
    BY <2>0 DEF StreakIsTail
  <2>2. PICK candidates \in SUBSET Skill :
          offered' = "threw" \/ offered' \in Chosen(Allowed(candidates))
    BY <1>1 DEF Propose
  <2>3. CASE offered' = "threw"
    BY <1>0, <2>0, <2>1, <2>3 DEF NewIsOpen
  <2>4. CASE offered' \in Chosen(Allowed(candidates))
    <3>1. offered' \in Skill /\ (Attempts(offered') = 0 => Unmastered = {})
      BY <2>4, ChosenIsAllowed
    <3>2. Unmastered' = Unmastered /\ Attempts(offered)' = Attempts(offered')
      BY <2>0 DEF Attempts, Unmastered, Trailing, AtLeast
    <3>3. NewIsOpen'
      BY <3>1, <3>2 DEF NewIsOpen
    <3> QED
      BY <2>0, <2>1, <3>1, <3>3
  <2> QED
    BY <2>2, <2>3, <2>4
<1>2. CASE Practise
  <2>1. PICK outcome \in Outcome :
          /\ records' = [records EXCEPT ![offered] = Append(@, outcome)]
          /\ streak' = [streak EXCEPT ![offered] = IF outcome = "ok" THEN @ + 1 ELSE 0]
    BY <1>2 DEF Practise, Outcome
  <2>2. offered \in Skill /\ offered' = "nothing yet" /\ records[offered] \in Seq(Outcome)
    BY <1>2 DEF Practise
  <2>3. PICK longer : longer = Append(records[offered], outcome)
    OBVIOUS
  <2>4. /\ longer \in Seq(Outcome) /\ Len(longer) = Len(records[offered]) + 1
        /\ longer[Len(records[offered]) + 1] = outcome
        /\ \A i \in 1..Len(records[offered]) : longer[i] = records[offered][i]
    <3>1. outcome \in Outcome /\ records[offered] \in Seq(Outcome)
      BY <2>1, <2>2
    <3> HIDE DEF CurriculumInv, Outcome
    <3> QED
      BY <2>3, <3>1, AppendProperties
  <2>5. PICK n : /\ n = IF outcome = "ok" THEN streak[offered] + 1 ELSE 0
                 /\ outcome = "ok" => n = streak[offered] + 1
                 /\ outcome # "ok" => n = 0
    OBVIOUS
  <2>6. records' = [records EXCEPT ![offered] = longer] /\ streak' = [streak EXCEPT ![offered] = n]
    BY <2>1, <2>3, <2>5
  <2>7. n \in Nat /\ streak[offered] \in Nat /\ Len(records[offered]) \in Nat
    <3>1. streak[offered] \in Nat
      BY <2>2
    <3>2. Len(records[offered]) \in Nat
      BY <2>2, LenProperties
    <3>3. (outcome = "ok" => n = streak[offered] + 1) /\ (outcome # "ok" => n = 0)
      BY <2>5
    <3> HIDE DEF CurriculumInv
    <3> QED
      BY <3>1, <3>2, <3>3
  <2>8. CurriculumShape'
    BY <2>2, <2>4, <2>6, <2>7
  <2>9. StreakIsTail'
    <3> SUFFICES ASSUME NEW s \in Skill
                 PROVE  /\ streak'[s] <= Len(records'[s])
                        /\ \A i \in 1..Len(records'[s]) :
                             i > Len(records'[s]) - streak'[s] => records'[s][i] = "ok"
      BY DEF StreakIsTail
    <3>1. CASE s = offered
      <4>1. records'[s] = longer /\ streak'[s] = n
        BY <2>6, <3>1
      <4>2. streak[s] <= Len(records[s])
        BY DEF StreakIsTail
      <4>3. n <= Len(longer)
        <5>1. streak[offered] <= Len(records[offered])
          BY <3>1, <4>2
        <5> HIDE DEF CurriculumInv
        <5> QED
          BY <2>4, <2>5, <2>7, <5>1
      <4>4. ASSUME NEW i \in 1..Len(longer), i > Len(longer) - n
            PROVE  longer[i] = "ok"
        <5>1. CASE outcome # "ok"
          <6> HIDE DEF CurriculumInv
          <6>1. n = 0 /\ i <= Len(longer) /\ Len(longer) \in Nat /\ i \in Nat
            BY <2>4, <2>5, <2>7, <4>4, <5>1
          <6> QED
            BY <4>4, <6>1
        <5>2. CASE outcome = "ok" /\ i = Len(longer)
          BY <2>4, <5>2
        <5>3. CASE outcome = "ok" /\ i # Len(longer)
          <6>1. i \in 1..Len(records[offered]) /\ i > Len(records[offered]) - streak[offered]
            <7> HIDE DEF CurriculumInv
            <7>1. Len(longer) = Len(records[offered]) + 1 /\ n = streak[offered] + 1
              BY <2>4, <2>5, <5>3
            <7> QED
              BY <2>7, <4>4, <5>3, <7>1
          <6>2. records[offered][i] = "ok"
            BY <2>2, <6>1 DEF StreakIsTail
          <6> QED
            BY <2>4, <6>1, <6>2
        <5> QED
          BY <5>1, <5>2, <5>3
      <4> QED
        BY <4>1, <4>3, <4>4
    <3>2. CASE s # offered
      <4>1. records'[s] = records[s] /\ streak'[s] = streak[s]
        BY <2>6, <3>2
      <4> QED
        BY <4>1 DEF StreakIsTail
    <3> QED
      BY <3>1, <3>2
  <2>10. NewIsOpen'
    BY <1>0, <2>2 DEF NewIsOpen
  <2> QED
    BY <2>8, <2>9, <2>10
<1>3. CASE Passes
  BY <1>0, <1>3 DEF Passes, StreakIsTail, NewIsOpen
<1>4. CASE UNCHANGED curriculumVars
  <2>0. UNCHANGED <<records, offered, streak>>
    BY <1>4 DEF curriculumVars
  <2>1. Unmastered' = Unmastered /\ Attempts(offered)' = Attempts(offered)
    BY <2>0 DEF Attempts, Unmastered, Trailing, AtLeast
  <2>2. StreakIsTail' /\ NewIsOpen'
    BY <2>0, <2>1 DEF StreakIsTail, NewIsOpen
  <2> QED
    BY <2>0, <2>2
<1> QED
  BY <1>1, <1>2, <1>3, <1>4 DEF CurriculumNext

LEMMA UpToLength ==
  ASSUME NEW n \in Nat
  PROVE  Cardinality(1..n) = n
<1>1. 1 \in Int /\ n \in Int
  OBVIOUS
<1>2. Cardinality(1..n) = IF 1 > n THEN 0 ELSE n - 1 + 1
  BY <1>1, FS_Interval
<1> QED
  BY <1>2

(* A window of successes meets every threshold.                              *)
LEMMA StreakOpensTheGate ==
  ASSUME CurriculumInv, NEW s \in Skill, streak[s] >= WindowSize
  PROVE  s \notin Unmastered
<1>0. /\ records[s] \in Seq(Outcome) /\ streak[s] \in Nat
      /\ WindowSize \in Nat /\ WindowSize # 0 /\ GateRate \in 0..100
  BY CurriculumAssumption DEF CurriculumInv, CurriculumShape
<1>1. PICK n : n = Len(records[s])
  OBVIOUS
<1>2. /\ n \in Nat /\ streak[s] <= n
      /\ \A i \in 1..n : i > n - streak[s] => records[s][i] = "ok"
  BY <1>0, <1>1 DEF CurriculumInv, StreakIsTail
<1>3. PICK first : first = 1 + (IF n > WindowSize THEN n - WindowSize ELSE 0)
  OBVIOUS
<1>4. first \in 1..n /\ first > n - streak[s] /\ first \in Nat
  BY <1>0, <1>2, <1>3
<1>5. PICK t : t = SubSeq(records[s], first, n)
  OBVIOUS
<1>6. /\ Len(t) = n - first + 1 /\ DOMAIN t = 1..Len(t)
      /\ \A i \in 1..Len(t) : t[i] = records[s][first + i - 1]
  <2>1. \A i \in first..n : records[s][i] \in Outcome
    BY <1>0, <1>1, <1>2, <1>4, LenProperties
  <2>2. first \in Int /\ n \in Int /\ first <= n
    BY <1>2, <1>4
  <2>3. /\ t \in Seq(Outcome) /\ Len(t) = n - first + 1
        /\ \A i \in 1..(n - first + 1) : t[i] = records[s][first + i - 1]
    BY <1>5, <2>1, <2>2, SubSeqProperties
  <2> QED
    BY <2>3, LenProperties
<1>7. ASSUME NEW i \in 1..Len(t) PROVE t[i] = "ok"
  <2>1. first + i - 1 \in 1..n /\ first + i - 1 > n - streak[s]
    BY <1>0, <1>2, <1>4, <1>6
  <2> QED
    BY <1>2, <1>6, <2>1
<1>8. {i \in DOMAIN t : t[i] = "ok"} = 1..Len(t)
  BY <1>6, <1>7
<1>9. Len(t) \in Nat
  BY <1>2, <1>4, <1>6
<1>10. Cardinality(1..Len(t)) = Len(t)
  BY <1>9, UpToLength
<1>11. GateRate * Len(t) <= 100 * Len(t)
  <2>1. GateRate \in 0..100
    BY CurriculumAssumption
  <2>2. GateRate \in Nat /\ GateRate <= 100 /\ 100 \in Nat
    BY <2>1
  <2> QED
    BY <1>9, <2>2, MoreCostsMore
<1>12. AtLeast(t, GateRate)
  BY <1>8, <1>9, <1>10, <1>11 DEF AtLeast
<1>13. t = Trailing(s)
  BY <1>1, <1>3, <1>5 DEF Trailing, Attempts
<1> QED
  BY <1>12, <1>13 DEF Unmastered

(* Depth over breadth without a dead end, for any library and any list a     *)
(* proposer may come with.                                                   *)
THEOREM CurriculumKeepsDepth ==
  CurriculumInit /\ [][CurriculumNext]_curriculumVars => [](CurriculumTypeOK /\ DepthOverBreadth)
<1>1. CurriculumInv /\ [CurriculumNext]_curriculumVars => CurriculumInv'
  BY CurriculumStays
<1>2. CurriculumInv => CurriculumTypeOK
  BY DEF CurriculumInv, CurriculumShape, CurriculumTypeOK, Outcome
<1>3. CurriculumInv => DepthOverBreadth
  BY StreakOpensTheGate DEF CurriculumInv, NewIsOpen, DepthOverBreadth
<1> QED
  BY CurriculumBegins, <1>1, <1>2, <1>3, PTL

-----------------------------------------------------------------------------
(* The village, as its minds know it. *)

Hours == {"ahead", "open", "ended", "past"}

CivicEvent == [type : {"started", "nominated", "voted", "decided"}, who : Citizen \union {Nobody}]

Campaign == [election : Election \union {0}, candidates : SUBSET Citizen, voters : SUBSET Citizen]

HasNews(s, type, c) == \E i \in 1..Len(s) : s[i].type = type /\ s[i].who = c

(* An election's events: its start first and once, and no result before its  *)
(* end.                                                                      *)
InOrder(s, h) ==
  /\ Len(s) = 0 <=> h = "ahead"
  /\ Len(s) <= MaxNews + 2 /\ (h = "open" => Len(s) <= MaxNews + 1)
  /\ \A i \in 1..Len(s) : /\ s[i].type = "started" <=> i = 1
                          /\ s[i].type # "started" => s[i].who \in Citizen
                          /\ s[i].type = "decided" => h # "open"

(* A campaign v is that of election e, whose events are s, n of them heard.  *)
FollowsTo(v, e, s, n) ==
  /\ v.election = e
  /\ \A c \in v.candidates : HasNews(s, "nominated", c)
  /\ \A c \in v.voters : HasNews(s, "voted", c)
  /\ \A i \in 1..n : /\ s[i].type = "nominated" => s[i].who \in v.candidates
                     /\ s[i].type = "voted" => s[i].who \in v.voters

OneAtATime == \A d, e \in Election : d < e /\ hour[e] # "ahead" => hour[d] \in {"ended", "past"}

(* The open election is the campaign as soon as its start is heard, and no   *)
(* other election's news changes that.                                       *)
FollowsTheOpen ==
  \A e \in Election : hour[e] = "open" /\ told[e] >= 1 => FollowsTo(campaign, e, news[e], told[e])

(* The mayor is the one of the newest result that was heard.                 *)
KnowsTheNewest ==
  /\ decided # 0 => HasNews(news[decided], "decided", mayor)
  /\ \A e \in Election : \A i \in 1..told[e] : news[e][i].type = "decided" => e <= decided

CivicShape ==
  /\ news \in [Election -> Seq(CivicEvent)] /\ hour \in [Election -> Hours] /\ told \in [Election -> Nat]
  /\ campaign \in Campaign /\ mayor \in Citizen \union {Nobody}
  /\ decided \in Election \union {0} /\ missed \in BOOLEAN
  /\ \A e \in Election : InOrder(news[e], hour[e]) /\ told[e] <= Len(news[e])

CivicInv == CivicShape /\ OneAtATime /\ (~missed => FollowsTheOpen /\ KnowsTheNewest)

LEMMA ElectionsAreNumbers == Election \in SUBSET (Nat \ {0})
<1>1. Election = 1..Cardinality(Election) /\ IsFiniteSet(Election)
  BY CivicAssumption
<1>2. Cardinality(Election) \in Nat
  BY <1>1, FS_CardinalityType
<1>3. PICK n \in Nat : n = Cardinality(Election)
  BY <1>2
<1>4. 1..n \in SUBSET (Nat \ {0})
  OBVIOUS
<1> QED
  BY <1>1, <1>3, <1>4

LEMMA NewsFacts ==
  ASSUME CivicShape, NEW e \in Election
  PROVE  /\ news[e] \in Seq(CivicEvent) /\ Len(news[e]) \in Nat /\ told[e] \in Nat /\ told[e] <= Len(news[e])
         /\ InOrder(news[e], hour[e]) /\ \A i \in 1..Len(news[e]) : news[e][i] \in CivicEvent
         /\ \A type, c : c \in Named(e, type) <=> HasNews(news[e], type, c)
<1>1. /\ news[e] \in Seq(CivicEvent) /\ told[e] \in Nat /\ told[e] <= Len(news[e])
      /\ InOrder(news[e], hour[e])
  BY DEF CivicShape
<1>2. Len(news[e]) \in Nat /\ (\A i \in 1..Len(news[e]) : news[e][i] \in CivicEvent) /\ DOMAIN news[e] = 1..Len(news[e])
  BY <1>1, SeqFacts
<1>3. \A type, c : c \in Named(e, type) <=> HasNews(news[e], type, c)
  BY <1>2 DEF Named, Range, HasNews
<1> QED
  BY <1>1, <1>2, <1>3

(* Events that follow do not change what was said.                           *)
LEMMA NewsStay ==
  ASSUME NEW s \in Seq(CivicEvent), NEW x \in CivicEvent
  PROVE  /\ \A type, c : HasNews(s, type, c) => HasNews(Append(s, x), type, c)
         /\ \A v, e : \A n \in Nat : n <= Len(s) /\ FollowsTo(v, e, s, n) => FollowsTo(v, e, Append(s, x), n)
<1>1. PICK longer, k : longer = Append(s, x) /\ k = Len(s)
  OBVIOUS
<1>2. k \in Nat /\ Len(longer) = k + 1 /\ \A i \in 1..k : longer[i] = s[i]
  BY <1>1, AppendFacts, SeqFacts
<1>3. 1..k \subseteq 1..(k + 1)
  BY <1>2
<1>4. ASSUME NEW type, NEW c, HasNews(s, type, c) PROVE HasNews(longer, type, c)
  BY <1>1, <1>2, <1>3, <1>4 DEF HasNews
<1>5. ASSUME NEW v, NEW e, NEW n \in Nat, n <= k, FollowsTo(v, e, s, n) PROVE FollowsTo(v, e, longer, n)
  <2>1. 1..n \subseteq 1..k
    BY <1>2, <1>5
  <2>2. \A i \in 1..n : longer[i] = s[i]
    BY <1>2, <2>1
  <2> QED
    BY <1>4, <1>5, <2>2 DEF FollowsTo
<1> QED
  BY <1>1, <1>4, <1>5

(* Government speaks of one election.                                        *)
LEMMA GovernmentSpeaks ==
  ASSUME CivicInv, NEW e \in Election, NEW s \in Seq(CivicEvent), NEW h \in Hours,
         s = news[e] \/ \E x \in CivicEvent : s = Append(news[e], x),
         InOrder(s, h), h = "open" => hour[e] = "open" \/ told[e] = 0,
         news' = [news EXCEPT ![e] = s], hour' = [hour EXCEPT ![e] = h], OneAtATime',
         UNCHANGED <<told, campaign, mayor, decided, missed>>
  PROVE  CivicInv'
<1>1. CivicShape /\ Len(news[e]) \in Nat /\ Len(s) \in Nat /\ told[e] \in Nat /\ told[e] <= Len(news[e])
  BY NewsFacts, SeqFacts DEF CivicInv
<1>2. /\ Len(news[e]) <= Len(s) /\ \A i \in 1..Len(news[e]) : s[i] = news[e][i]
      /\ \A type, c : HasNews(news[e], type, c) => HasNews(s, type, c)
      /\ \A v, f : \A n \in Nat : n <= Len(news[e]) /\ FollowsTo(v, f, news[e], n) => FollowsTo(v, f, s, n)
  <2>1. CASE s = news[e]
    BY <1>1, <2>1
  <2>2. ASSUME NEW x \in CivicEvent, s = Append(news[e], x) 
      PROVE  /\ Len(news[e]) <= Len(s) /\ \A i \in 1..Len(news[e]) : s[i] = news[e][i]
             /\ \A type, c : HasNews(news[e], type, c) => HasNews(s, type, c)
             /\ \A v, f : \A n \in Nat : n <= Len(news[e]) /\ FollowsTo(v, f, news[e], n) => FollowsTo(v, f, s, n)
    <3>1. news[e] \in Seq(CivicEvent)
      BY <1>1, NewsFacts
    <3>2. Len(s) = Len(news[e]) + 1 /\ \A i \in 1..Len(news[e]) : s[i] = news[e][i]
      BY <2>2, <3>1, AppendFacts
    <3>3. Len(news[e]) <= Len(s)
      BY <1>1, <3>2
    <3> QED
      BY <2>2, <3>1, <3>2, <3>3, NewsStay
  <2> QED
    BY <2>1, <2>2
<1>3. \A f \in Election : news'[f] = (IF f = e THEN s ELSE news[f]) /\ hour'[f] = (IF f = e THEN h ELSE hour[f])
  BY <1>1 DEF CivicShape
<1>4. CivicShape'
  <2>1. news' \in [Election -> Seq(CivicEvent)] /\ hour' \in [Election -> Hours] /\ told' \in [Election -> Nat]
    BY <1>1 DEF CivicShape
  <2>2. told[e] <= Len(s)
    BY <1>1, <1>2
  <2>3. ASSUME NEW f \in Election PROVE InOrder(news'[f], hour'[f]) /\ told[f] <= Len(news'[f])
    <3>1. CASE f = e
      BY <1>3, <2>2, <3>1
    <3>2. CASE f # e
      BY <1>1, <1>3, <3>2 DEF CivicShape
    <3> QED
      BY <3>1, <3>2
  <2> QED
    BY <1>1, <2>1, <2>3 DEF CivicShape
<1>5. ASSUME ~missed PROVE FollowsTheOpen' /\ KnowsTheNewest'
  <2>1. FollowsTheOpen /\ KnowsTheNewest
    BY <1>5 DEF CivicInv
  <2>2. ASSUME NEW f \in Election, hour'[f] = "open", told[f] >= 1 PROVE FollowsTo(campaign, f, news'[f], told[f])
    <3>1. CASE f = e
      <4>1. hour[e] = "open" /\ news'[f] = s
        BY <1>1, <1>3, <2>2, <3>1
      <4>2. FollowsTo(campaign, e, news[e], told[e])
        BY <2>1, <2>2, <3>1, <4>1 DEF FollowsTheOpen
      <4> QED
        BY <1>1, <1>2, <3>1, <4>1, <4>2
    <3>2. CASE f # e
      BY <1>3, <2>1, <2>2, <3>2 DEF FollowsTheOpen
    <3> QED
      BY <3>1, <3>2
  <2>3. ASSUME decided # 0 PROVE HasNews(news'[decided], "decided", mayor)
    <3>1. decided \in Election /\ HasNews(news[decided], "decided", mayor)
      BY <1>1, <2>1, <2>3 DEF CivicShape, KnowsTheNewest
    <3> QED
      BY <1>2, <1>3, <3>1
  <2>4. ASSUME NEW f \in Election, NEW i \in 1..told[f], news'[f][i].type = "decided" PROVE f <= decided
    <3>1. told[f] \in Nat /\ told[f] <= Len(news[f]) /\ Len(news[f]) \in Nat
      BY <1>1, NewsFacts
    <3>2. i \in 1..Len(news[f])
      BY <3>1
    <3>3. news'[f][i] = news[f][i]
      BY <1>2, <1>3, <3>2
    <3> QED
      BY <2>1, <2>4, <3>3 DEF KnowsTheNewest
  <2> QED
    BY <2>2, <2>3, <2>4 DEF FollowsTheOpen, KnowsTheNewest
<1> QED
  BY <1>4, <1>5 DEF CivicInv

(* One more event of an election that is open.                               *)
LEMMA OrderStays ==
  ASSUME NEW s \in Seq(CivicEvent), NEW h \in Hours, NEW x \in CivicEvent, InOrder(s, "open"), x.type # "started",
         x.who \in Citizen, x.type = "decided" => h # "open", h # "ahead", h = "open" => Len(s) < MaxNews
  PROVE  InOrder(Append(s, x), h)
<1>1. PICK longer, k : longer = Append(s, x) /\ k = Len(s)
  OBVIOUS
<1>2. k \in Nat /\ Len(longer) = k + 1 /\ longer[k + 1] = x /\ \A i \in 1..k : longer[i] = s[i]
  BY <1>1, AppendFacts, SeqFacts
<1>3. k # 0 /\ k <= MaxNews + 1 /\ (h = "open" => k < MaxNews)
  BY <1>1 DEF InOrder
<1>4. MaxNews \in Nat
  BY CivicAssumption
<1>5. k + 1 # 0 /\ k + 1 <= MaxNews + 2 /\ (h = "open" => k + 1 <= MaxNews + 1)
  BY <1>2, <1>3, <1>4
<1>6. ASSUME NEW i \in 1..(k + 1)
      PROVE  /\ longer[i].type = "started" <=> i = 1
             /\ longer[i].type # "started" => longer[i].who \in Citizen
             /\ longer[i].type = "decided" => h # "open"
  <2>1. CASE i = k + 1
    <3>1. longer[i] = x /\ i # 1
      BY <1>2, <1>3, <2>1
    <3> QED
      BY <3>1
  <2>2. CASE i # k + 1
    <3>1. i \in 1..k
      BY <1>2, <2>2
    <3>2. longer[i] = s[i]
      BY <1>2, <3>1
    <3>3. (s[i].type = "started" <=> i = 1) /\ (s[i].type # "started" => s[i].who \in Citizen) /\ s[i].type # "decided"
      BY <1>1, <3>1 DEF InOrder
    <3> QED
      BY <3>2, <3>3
  <2> QED
    BY <2>1, <2>2
<1> QED
  BY <1>1, <1>2, <1>5, <1>6 DEF InOrder

LEMMA OpensKeeps == ASSUME CivicInv, NEW e \in Election, Opens(e) PROVE CivicInv'
<1>1. /\ hour[e] = "ahead" /\ \A d \in Election : d < e => hour[d] \in {"ended", "past"}
      /\ hour' = [hour EXCEPT ![e] = "open"] /\ Sent(e, Event("started", Nobody))
      /\ UNCHANGED <<told, campaign, mayor, decided, missed>>
  BY DEF Opens
<1>2. /\ CivicShape /\ news[e] \in Seq(CivicEvent) /\ Len(news[e]) \in Nat /\ told[e] \in Nat
      /\ told[e] <= Len(news[e]) /\ InOrder(news[e], hour[e])
  BY NewsFacts DEF CivicInv
<1>3. Len(news[e]) = 0 /\ told[e] = 0
  <2>1. Len(news[e]) = 0
    BY <1>1, <1>2 DEF InOrder
  <2> QED
    BY <1>2, <2>1
<1>4. PICK x, s : x = Event("started", Nobody) /\ s = Append(news[e], x)
  OBVIOUS
<1>5. x \in CivicEvent /\ x.type = "started"
  BY <1>4 DEF Event, CivicEvent
<1>6. s \in Seq(CivicEvent) /\ Len(s) = 1 /\ s[1] = x
  <2>1. s \in Seq(CivicEvent) /\ Len(s) = Len(news[e]) + 1 /\ s[Len(news[e]) + 1] = x
    BY <1>2, <1>4, <1>5, AppendFacts
  <2> QED
    BY <1>3, <2>1
<1>7. InOrder(s, "open")
  <2>1. 1 <= MaxNews + 2 /\ 1 <= MaxNews + 1 /\ 1 # 0
    BY CivicAssumption
  <2>2. \A i \in 1..1 : i = 1
    OBVIOUS
  <2> QED
    BY <1>5, <1>6, <2>1, <2>2 DEF InOrder
<1>8. news' = [news EXCEPT ![e] = s]
  BY <1>1, <1>2, <1>4 DEF Sent, CivicShape
<1>9. OneAtATime'
  <2> SUFFICES ASSUME NEW d \in Election, NEW f \in Election, d < f, hour'[f] # "ahead"
               PROVE  hour'[d] \in {"ended", "past"}
    BY DEF OneAtATime
  <2>1. \A g \in Election : hour'[g] = IF g = e THEN "open" ELSE hour[g]
    BY <1>1, <1>2 DEF CivicShape
  <2>2. \A g \in Election : g \in Nat
    BY ElectionsAreNumbers
  <2>3. d # f /\ (d = e => hour[f] # "ahead")
    BY <2>1, <2>2
  <2>4. CASE f = e
    BY <1>1, <2>1, <2>3, <2>4
  <2>5. CASE f # e
    <3>1. hour[d] \in {"ended", "past"}
      BY <2>1, <2>5 DEF OneAtATime, CivicInv
    <3>2. d # e
      BY <1>1, <3>1
    <3> QED
      BY <2>1, <3>1, <3>2
  <2> QED
    BY <2>4, <2>5
<1>10. "open" \in Hours /\ (s = news[e] \/ \E y \in CivicEvent : s = Append(news[e], y))
  BY <1>4, <1>5 DEF Hours
<1> QED
  BY <1>1, <1>3, <1>6, <1>7, <1>8, <1>9, <1>10, GovernmentSpeaks

(* One more event, at an hour that is none the earlier.                      *)
LEMMA EventKeeps ==
  ASSUME CivicInv, NEW e \in Election, NEW x \in CivicEvent, NEW h \in Hours, hour[e] = "open",
         x.type # "started", x.who \in Citizen, x.type = "decided" => h # "open", h # "ahead",
         h = "open" => Len(news[e]) < MaxNews,
         Sent(e, x), hour' = [hour EXCEPT ![e] = h], UNCHANGED <<told, campaign, mayor, decided, missed>>
  PROVE  CivicInv'
<1>1. CivicShape /\ news[e] \in Seq(CivicEvent) /\ InOrder(news[e], "open")
  BY NewsFacts DEF CivicInv
<1>2. PICK s : s = Append(news[e], x)
  OBVIOUS
<1>3. s \in Seq(CivicEvent)
  BY <1>1, <1>2, AppendFacts
<1>4. InOrder(s, h)
  BY <1>1, <1>2, OrderStays
<1>5. news' = [news EXCEPT ![e] = s]
  BY <1>1, <1>2 DEF Sent, CivicShape
<1>6. OneAtATime'
  <2>1. \A g \in Election : hour'[g] = IF g = e THEN h ELSE hour[g]
    BY <1>1 DEF CivicShape
  <2>2. \A d, f \in Election : d < f /\ hour[f] # "ahead" => hour[d] \in {"ended", "past"}
    BY DEF CivicInv, OneAtATime
  <2>3. \A d \in Election : hour[d] \in {"ended", "past"} => hour'[d] \in {"ended", "past"}
    BY <2>1
  <2>4. \A f \in Election : hour'[f] # "ahead" => hour[f] # "ahead"
    BY <2>1
  <2> QED
    BY <2>2, <2>3, <2>4 DEF OneAtATime
<1>7. s = news[e] \/ \E y \in CivicEvent : s = Append(news[e], y)
  BY <1>2
<1> QED
  BY <1>3, <1>4, <1>5, <1>6, <1>7, GovernmentSpeaks

LEMMA NominatesKeeps == ASSUME CivicInv, NEW e \in Election, NEW c \in Citizen, Nominates(e, c) PROVE CivicInv'
<1>1. PICK x : x = Event("nominated", c)
  OBVIOUS
<1>2. x \in CivicEvent /\ x.type = "nominated" /\ x.who = c
  BY <1>1 DEF Event, CivicEvent
<1>3. /\ hour[e] = "open" /\ Len(news[e]) < MaxNews /\ Sent(e, x) /\ hour' = [hour EXCEPT ![e] = "open"]
      /\ UNCHANGED <<told, campaign, mayor, decided, missed>> /\ "open" \in Hours
  BY <1>1 DEF Nominates, CivicInv, CivicShape, Hours
<1> QED
  BY <1>2, <1>3, EventKeeps

LEMMA VotesKeeps == ASSUME CivicInv, NEW e \in Election, NEW c \in Citizen, Votes(e, c) PROVE CivicInv'
<1>1. PICK x : x = Event("voted", c)
  OBVIOUS
<1>2. x \in CivicEvent /\ x.type = "voted" /\ x.who = c
  BY <1>1 DEF Event, CivicEvent
<1>3. /\ hour[e] = "open" /\ Len(news[e]) < MaxNews /\ Sent(e, x) /\ hour' = [hour EXCEPT ![e] = "open"]
      /\ UNCHANGED <<told, campaign, mayor, decided, missed>> /\ "open" \in Hours
  BY <1>1 DEF Votes, CivicInv, CivicShape, Hours
<1> QED
  BY <1>2, <1>3, EventKeeps

(* The hour changes and nothing is said.                                     *)
LEMMA HourKeeps ==
  ASSUME CivicInv, NEW e \in Election, NEW h \in {"ended", "past"}, hour[e] # "ahead",
         hour' = [hour EXCEPT ![e] = h], UNCHANGED <<news, told, campaign, mayor, decided, missed>>
  PROVE  CivicInv'
<1>1. CivicShape /\ news[e] \in Seq(CivicEvent) /\ InOrder(news[e], hour[e])
  BY NewsFacts DEF CivicInv
<1>2. InOrder(news[e], h) /\ h \in Hours
  BY <1>1 DEF InOrder, Hours
<1>3. news' = [news EXCEPT ![e] = news[e]]
  BY <1>1 DEF CivicShape
<1>4. OneAtATime'
  <2>1. \A g \in Election : hour'[g] = IF g = e THEN h ELSE hour[g]
    BY <1>1 DEF CivicShape
  <2> QED
    BY <2>1 DEF CivicInv, OneAtATime
<1> QED
  BY <1>1, <1>2, <1>3, <1>4, GovernmentSpeaks

LEMMA EndsKeeps == ASSUME CivicInv, NEW e \in Election, Ends(e) PROVE CivicInv'
<1>1. CASE UNCHANGED news
  BY <1>1, HourKeeps DEF Ends
<1>2. CASE \E c \in Named(e, "nominated") : Sent(e, Event("decided", c))
  <2>1. PICK c \in Named(e, "nominated") : Sent(e, Event("decided", c))
    BY <1>2
  <2>2. HasNews(news[e], "nominated", c) /\ InOrder(news[e], hour[e])
    BY NewsFacts DEF CivicInv
  <2>3. c \in Citizen
    BY <2>2 DEF HasNews, InOrder
  <2>4. PICK x : x = Event("decided", c)
    OBVIOUS
  <2>5. x \in CivicEvent /\ x.type = "decided" /\ x.who = c
    BY <2>3, <2>4 DEF Event, CivicEvent
  <2>6. /\ hour[e] = "open" /\ Sent(e, x) /\ hour' = [hour EXCEPT ![e] = "ended"]
        /\ UNCHANGED <<told, campaign, mayor, decided, missed>> /\ "ended" \in Hours
    BY <2>1, <2>4 DEF Ends, Hours
  <2> QED
    BY <2>3, <2>5, <2>6, EventKeeps
<1> QED
  BY <1>1, <1>2 DEF Ends

(* What a campaign is after the next event of its election.                  *)
LEMMA IngestedFacts ==
  ASSUME CivicShape, NEW e \in Election, told[e] < Len(news[e]),
         NEW x, x = news[e][told[e] + 1]
  PROVE  /\ Ingested(e, x) \in Campaign
         /\ \A f \in Election : f # e /\ campaign.election = f /\ hour[e] # "open" => Ingested(e, x) = campaign
         /\ hour[e] = "open" /\ (told[e] >= 1 => FollowsTo(campaign, e, news[e], told[e]))
              => FollowsTo(Ingested(e, x), e, news[e], told[e] + 1)
<1>1. PICK n \in Nat, s \in Seq(CivicEvent) : n = told[e] /\ s = news[e]
  BY NewsFacts
<1>2. /\ n + 1 \in 1..Len(s) /\ x = s[n + 1] /\ x \in CivicEvent /\ InOrder(s, hour[e])
      /\ 1..n \subseteq 1..Len(s) /\ 1..(n + 1) = (1..n) \cup {n + 1}
  <2>1. Len(s) \in Nat /\ n < Len(s)
    BY <1>1, SeqFacts
  <2>2. n + 1 \in 1..Len(s) /\ 1..n \subseteq 1..Len(s) /\ 1..(n + 1) = (1..n) \cup {n + 1}
    BY <2>1
  <2> QED
    BY <1>1, <2>2, NewsFacts
<1>3. /\ x.type \in {"started", "nominated", "voted", "decided"} /\ campaign \in Campaign
      /\ x.type = "started" <=> n + 1 = 1
      /\ x.type # "started" => x.who \in Citizen
      /\ x.type = "decided" => hour[e] # "open"
  BY <1>2 DEF CivicEvent, InOrder, CivicShape
<1>4. PICK cs, vs : cs = campaign.candidates \union {x.who} /\ vs = campaign.voters \union {x.who}
  OBVIOUS
<1>5. /\ NoCampaign \in Campaign /\ NoCampaign.candidates = {} /\ NoCampaign.voters = {}
  BY DEF NoCampaign, Campaign
<1>6. PICK fresh, more, voted : /\ fresh = [NoCampaign EXCEPT !.election = e]
                                /\ more = [campaign EXCEPT !.candidates = cs]
                                /\ voted = [campaign EXCEPT !.voters = vs]
  OBVIOUS
<1>7. fresh \in Campaign /\ fresh.election = e /\ fresh.candidates = {} /\ fresh.voters = {}
  BY <1>6 DEF NoCampaign, Campaign
<1>8. x.type # "started" =>
        /\ more \in Campaign /\ more.election = campaign.election /\ more.candidates = cs
        /\ more.voters = campaign.voters
        /\ voted \in Campaign /\ voted.election = campaign.election /\ voted.candidates = campaign.candidates
        /\ voted.voters = vs
  BY <1>3, <1>4, <1>6 DEF Campaign
<1>9. Ingested(e, x) = CASE x.type = "started" /\ hour[e] = "open" -> fresh
                         [] x.type = "nominated" /\ e = campaign.election -> more
                         [] x.type = "voted" /\ e = campaign.election -> voted
                         [] x.type = "decided" /\ e = campaign.election -> NoCampaign
                         [] OTHER -> campaign
  BY <1>4, <1>6 DEF Ingested
<1>10. /\ x.type = "started" => Ingested(e, x) = IF hour[e] = "open" THEN fresh ELSE campaign
       /\ x.type = "nominated" => Ingested(e, x) = IF e = campaign.election THEN more ELSE campaign
       /\ x.type = "voted" => Ingested(e, x) = IF e = campaign.election THEN voted ELSE campaign
       /\ x.type = "decided" => Ingested(e, x) = IF e = campaign.election THEN NoCampaign ELSE campaign
  BY <1>9
<1>11. Ingested(e, x) \in Campaign
  BY <1>3, <1>5, <1>7, <1>8, <1>10
<1>12. ASSUME NEW f \in Election, f # e, campaign.election = f, hour[e] # "open"
       PROVE  Ingested(e, x) = campaign
  BY <1>3, <1>10, <1>12
<1>13. ASSUME hour[e] = "open", n >= 1 => FollowsTo(campaign, e, s, n)
       PROVE  FollowsTo(Ingested(e, x), e, s, n + 1)
  <2>1. CASE x.type = "started"
    <3>1. n = 0
      BY <1>3, <2>1
    <3>2. \A i \in 1..(n + 1) : s[i].type = "started"
      BY <1>2, <2>1, <3>1
    <3>3. Ingested(e, x) = fresh
      BY <1>10, <1>13, <2>1
    <3> QED
      BY <1>7, <3>2, <3>3 DEF FollowsTo
  <2>2. CASE x.type # "started"
    <3>1. n >= 1
      BY <1>3, <2>2
    <3>2. FollowsTo(campaign, e, s, n)
      BY <1>13, <3>1
    <3>3. HasNews(s, x.type, x.who)
      BY <1>2 DEF HasNews
    <3>4. CASE x.type = "nominated"
      <4>1. Ingested(e, x) = more
        BY <1>10, <3>2, <3>4 DEF FollowsTo
      <4>2. \A c \in cs : HasNews(s, "nominated", c)
        BY <1>4, <3>2, <3>3, <3>4 DEF FollowsTo
      <4>3. \A i \in 1..(n + 1) : /\ s[i].type = "nominated" => s[i].who \in cs
                                  /\ s[i].type = "voted" => s[i].who \in campaign.voters
        BY <1>2, <1>4, <3>2, <3>4 DEF FollowsTo
      <4> QED
        BY <1>8, <2>2, <3>2, <4>1, <4>2, <4>3 DEF FollowsTo
    <3>5. CASE x.type = "voted"
      <4>1. Ingested(e, x) = voted
        BY <1>10, <3>2, <3>5 DEF FollowsTo
      <4>2. \A c \in vs : HasNews(s, "voted", c)
        BY <1>4, <3>2, <3>3, <3>5 DEF FollowsTo
      <4>3. \A i \in 1..(n + 1) : /\ s[i].type = "nominated" => s[i].who \in campaign.candidates
                                  /\ s[i].type = "voted" => s[i].who \in vs
        BY <1>2, <1>4, <3>2, <3>5 DEF FollowsTo
      <4> QED
        BY <1>8, <2>2, <3>2, <4>1, <4>2, <4>3 DEF FollowsTo
    <3> QED
      BY <1>3, <1>13, <2>2, <3>4, <3>5
  <2> QED
    BY <2>1, <2>2
<1> QED
  BY <1>1, <1>11, <1>12, <1>13

LEMMA HearsKeeps == ASSUME CivicInv, NEW e \in Election, Hears(e) PROVE CivicInv'
<1>1. PICK x : x = news[e][told[e] + 1]
  OBVIOUS
<1>2. /\ told[e] < Len(news[e]) /\ campaign' = Ingested(e, x) /\ told' = [told EXCEPT ![e] = told[e] + 1]
      /\ UNCHANGED <<news, hour>>
      /\ IF x.type = "decided"
         THEN mayor' = x.who /\ decided' = Max({decided, e}) /\ missed' = (missed \/ e < decided)
         ELSE UNCHANGED <<mayor, decided, missed>>
  BY <1>1 DEF Hears
<1>3. CivicShape /\ told[e] \in Nat /\ Len(news[e]) \in Nat /\ InOrder(news[e], hour[e])
  BY NewsFacts DEF CivicInv
<1>4. told[e] + 1 \in 1..Len(news[e]) /\ told[e] + 1 \in Nat /\ told[e] + 1 <= Len(news[e])
  BY <1>2, <1>3
<1>5. x \in CivicEvent /\ (x.type = "decided" => x.who \in Citizen)
  BY <1>1, <1>3, <1>4, NewsFacts DEF InOrder
<1>6. /\ Ingested(e, x) \in Campaign
      /\ \A f \in Election : f # e /\ campaign.election = f /\ hour[e] # "open" => Ingested(e, x) = campaign
      /\ hour[e] = "open" /\ (told[e] >= 1 => FollowsTo(campaign, e, news[e], told[e]))
           => FollowsTo(Ingested(e, x), e, news[e], told[e] + 1)
  BY <1>1, <1>2, <1>3, IngestedFacts
<1>7. decided \in Nat /\ e \in Nat /\ e # 0 /\ \A f \in Election : f \in Nat /\ f # 0
  BY <1>3, ElectionsAreNumbers DEF CivicShape
<1>8. x.type = "decided" => decided' = IF decided >= e THEN decided ELSE e
  BY <1>2, <1>7, GreaterOfTwo
<1>9. \A f \in Election : told'[f] = IF f = e THEN told[e] + 1 ELSE told[f]
  BY <1>2, <1>3 DEF CivicShape
<1>10. CivicShape'
  <2>1. told' \in [Election -> Nat]
    BY <1>2, <1>3, <1>4 DEF CivicShape
  <2>2. mayor' \in Citizen \union {Nobody} /\ decided' \in Election \union {0} /\ missed' \in BOOLEAN
    <3>1. CASE x.type = "decided"
      BY <1>2, <1>3, <1>5, <1>8, <3>1 DEF CivicShape
    <3>2. CASE x.type # "decided"
      BY <1>2, <1>3, <3>2 DEF CivicShape
    <3> QED
      BY <3>1, <3>2
  <2>3. ASSUME NEW f \in Election PROVE InOrder(news[f], hour[f]) /\ told'[f] <= Len(news[f])
    BY <1>3, <1>4, <1>9 DEF CivicShape
  <2> QED
    BY <1>2, <1>3, <1>6, <2>1, <2>2, <2>3 DEF CivicShape
<1>11. OneAtATime'
  BY <1>2 DEF CivicInv, OneAtATime
<1>12. ASSUME ~missed' PROVE FollowsTheOpen' /\ KnowsTheNewest'
  <2>1. ~missed /\ (x.type = "decided" => ~(e < decided))
    BY <1>2, <1>12
  <2>2. FollowsTheOpen /\ KnowsTheNewest
    BY <2>1 DEF CivicInv
  <2>3. ASSUME NEW f \in Election, hour[f] = "open", told'[f] >= 1
        PROVE  FollowsTo(campaign', f, news[f], told'[f])
    <3>1. CASE f = e
      <4>1. told[e] >= 1 => FollowsTo(campaign, e, news[e], told[e])
        BY <2>2, <2>3, <3>1 DEF FollowsTheOpen
      <4> QED
        BY <1>2, <1>6, <1>9, <2>3, <3>1, <4>1
    <3>2. CASE f # e
      <4>1. FollowsTo(campaign, f, news[f], told[f]) /\ told'[f] = told[f]
        BY <1>9, <2>2, <2>3, <3>2 DEF FollowsTheOpen
      <4>2. hour[e] # "open"
        BY <1>7, <2>3, <3>2 DEF CivicInv, OneAtATime
      <4>3. campaign.election = f
        BY <4>1 DEF FollowsTo
      <4> QED
        BY <1>2, <1>6, <3>2, <4>1, <4>2, <4>3
    <3> QED
      BY <3>1, <3>2
  <2>4. CASE x.type = "decided"
    <3>1. decided' = e /\ mayor' = x.who
      BY <1>2, <1>7, <1>8, <2>1, <2>4
    <3>2. HasNews(news[e], "decided", x.who)
      BY <1>1, <1>4, <2>4 DEF HasNews
    <3>3. ASSUME NEW f \in Election, NEW i \in 1..told'[f], news[f][i].type = "decided" PROVE f <= e
      <4>1. CASE f = e
        BY <1>7, <4>1
      <4>2. CASE f # e
        <5>1. f <= decided
          BY <1>9, <2>2, <3>3, <4>2 DEF KnowsTheNewest
        <5> QED
          BY <1>7, <2>1, <2>4, <5>1
      <4> QED
        BY <4>1, <4>2
    <3> QED
      BY <1>2, <2>3, <3>1, <3>2, <3>3 DEF FollowsTheOpen, KnowsTheNewest
  <2>5. CASE x.type # "decided"
    <3>1. decided' = decided /\ mayor' = mayor
      BY <1>2, <2>5
    <3>2. ASSUME NEW f \in Election, NEW i \in 1..told'[f], news[f][i].type = "decided" PROVE f <= decided
      <4>1. CASE f = e
        <5>1. i # told[e] + 1
          BY <1>1, <2>5, <3>2, <4>1
        <5>2. i \in 1..told[e]
          BY <1>3, <1>9, <4>1, <5>1
        <5> QED
          BY <2>2, <3>2, <4>1, <5>2 DEF KnowsTheNewest
      <4>2. CASE f # e
        BY <1>9, <2>2, <3>2, <4>2 DEF KnowsTheNewest
      <4> QED
        BY <4>1, <4>2
    <3> QED
      BY <1>2, <2>2, <2>3, <3>1, <3>2 DEF FollowsTheOpen, KnowsTheNewest
  <2> QED
    BY <2>4, <2>5
<1> QED
  BY <1>10, <1>11, <1>12 DEF CivicInv

LEMMA SnapshotKeeps == ASSUME CivicInv, Snapshot PROVE CivicInv'
<1>1. /\ hour[campaign.election] = "past" /\ campaign' = NoCampaign
      /\ UNCHANGED <<news, hour, told, mayor, decided, missed>>
  BY DEF Snapshot
<1>2. NoCampaign \in Campaign
  BY DEF NoCampaign, Campaign
<1>3. CivicShape'
  BY <1>1, <1>2 DEF CivicInv, CivicShape
<1>4. FollowsTheOpen => FollowsTheOpen'
  <2> SUFFICES ASSUME FollowsTheOpen, NEW e \in Election, hour[e] = "open", told[e] >= 1 PROVE FALSE
    BY <1>1 DEF FollowsTheOpen
  <2>1. campaign.election = e
    BY DEF FollowsTheOpen, FollowsTo
  <2> QED
    BY <1>1, <2>1
<1> QED
  BY <1>1, <1>3, <1>4 DEF CivicInv, OneAtATime, KnowsTheNewest

(* Less of an election has been heard than was.                              *)
LEMMA RebalancesKeeps == ASSUME CivicInv, NEW e \in Election, Rebalances(e) PROVE CivicInv'
<1>1. PICK n \in 0..told[e] : told' = [told EXCEPT ![e] = n] /\ UNCHANGED <<news, hour, campaign, mayor, decided, missed>>
  BY DEF Rebalances
<1>2. CivicShape /\ told[e] \in Nat /\ \A f \in Election : told[f] \in Nat /\ Len(news[f]) \in Nat
  BY NewsFacts DEF CivicInv
<1>3. n \in Nat /\ n <= told[e] /\ \A f \in Election : told'[f] = IF f = e THEN n ELSE told[f]
  BY <1>1, <1>2 DEF CivicShape
<1>4. ASSUME NEW f \in Election
      PROVE  told'[f] \in Nat /\ told'[f] <= told[f] /\ 1..told'[f] \subseteq 1..told[f]
  <2>1. told'[f] \in Nat /\ told'[f] <= told[f]
    BY <1>2, <1>3
  <2>2. PICK k \in Nat, m \in Nat : k = told'[f] /\ m = told[f] /\ k <= m
    BY <1>2, <2>1
  <2>3. 1..k \subseteq 1..m
    BY <2>2
  <2> QED
    BY <2>1, <2>2, <2>3
<1>5. CivicShape'
  <2>1. told' \in [Election -> Nat]
    BY <1>1, <1>2, <1>3 DEF CivicShape
  <2>2. ASSUME NEW f \in Election PROVE told'[f] <= Len(news[f])
    BY <1>2, <1>4 DEF CivicShape
  <2> QED
    BY <1>1, <1>2, <2>1, <2>2 DEF CivicShape
<1>6. FollowsTheOpen => FollowsTheOpen'
  <2> SUFFICES ASSUME FollowsTheOpen, NEW f \in Election, hour[f] = "open", told'[f] >= 1
               PROVE  FollowsTo(campaign, f, news[f], told'[f])
    BY <1>1 DEF FollowsTheOpen
  <2>1. told[f] >= 1
    BY <1>2, <1>4
  <2>2. FollowsTo(campaign, f, news[f], told[f])
    BY <2>1 DEF FollowsTheOpen
  <2> QED
    BY <1>4, <2>2 DEF FollowsTo
<1>7. KnowsTheNewest => KnowsTheNewest'
  BY <1>1, <1>4 DEF KnowsTheNewest
<1> QED
  BY <1>1, <1>5, <1>6, <1>7 DEF CivicInv, OneAtATime

LEMMA ForgetsKeeps == ASSUME CivicInv, Forgets PROVE CivicInv'
<1>1. PICK t \in [Election -> 0..Max({Len(news[e]) : e \in Election}) ] :
        /\ \A e \in Election : t[e] <= told[e]
        /\ told' = t
  BY DEF Forgets
<1>2. /\ campaign' = NoCampaign /\ mayor' = Nobody /\ decided' = 0
      /\ missed' = \E e \in Election : told'[e] > 0
      /\ UNCHANGED <<news, hour>>
  BY DEF Forgets
<1>3. CivicShape /\ \A e \in Election : /\ told[e] \in Nat /\ Len(news[e]) \in Nat /\ told[e] <= Len(news[e])
                                        /\ Len(news[e]) <= MaxNews + 2
  BY NewsFacts DEF CivicInv, InOrder
<1>4. \A e \in Election : t[e] \in Nat
  <2> SUFFICES ASSUME NEW e \in Election PROVE t[e] \in Nat
    OBVIOUS
  <2>1. PICK lengths : lengths = {Len(news[f]) : f \in Election}
    OBVIOUS
  <2>2. lengths \in SUBSET Nat /\ lengths # {} /\ MaxNews + 2 \in Nat /\ \A n \in lengths : n <= MaxNews + 2
    BY <1>3, <2>1, CivicAssumption
  <2>3. PICK m \in lengths : \A n \in lengths : n <= m
    BY <2>2, GreatestNumber
  <2>4. m \in Nat /\ \A n \in lengths : m >= n
    BY <2>2, <2>3
  <2>5. Max(lengths) \in lengths
    BY <2>4, <2>3 DEF Max
  <2>6. PICK k \in Nat : k = Max(lengths)
    BY <2>2, <2>5
  <2>7. t[e] \in 0..k
    BY <1>1, <2>1, <2>6
  <2> QED
    BY <2>7
<1>5. CivicShape'
  <2>1. told' \in [Election -> Nat]
    BY <1>1, <1>4
  <2>2. ASSUME NEW e \in Election PROVE told'[e] <= Len(news[e])
    <3>1. t[e] <= told[e] /\ t[e] \in Nat
      BY <1>1, <1>4
    <3> QED
      BY <1>1, <1>3, <3>1
  <2>3. NoCampaign \in Campaign
    BY DEF NoCampaign, Campaign
  <2>4. missed' \in BOOLEAN
    BY <1>2
  <2> QED
    BY <1>2, <1>3, <2>1, <2>2, <2>3, <2>4 DEF CivicShape
<1>6. ASSUME ~missed' PROVE FollowsTheOpen' /\ KnowsTheNewest'
  <2>1. \A e \in Election : told'[e] = 0
    BY <1>1, <1>2, <1>4, <1>6
  <2>2. ~(0 >= 1)
    OBVIOUS
  <2>3. 1..0 = {}
    OBVIOUS
  <2> QED
    BY <1>2, <2>1, <2>2, <2>3 DEF FollowsTheOpen, KnowsTheNewest
<1> QED
  BY <1>2, <1>5, <1>6 DEF CivicInv, OneAtATime

LEMMA CivicBegins == CivicInit => CivicInv
<1> SUFFICES ASSUME CivicInit PROVE CivicInv
  OBVIOUS
<1>1. /\ \A e \in Election : news[e] = <<>> /\ hour[e] = "ahead" /\ told[e] = 0
      /\ campaign = NoCampaign /\ mayor = Nobody /\ decided = 0 /\ missed = FALSE
  BY DEF CivicInit
<1>2. NoCampaign \in Campaign
  BY DEF NoCampaign, Campaign
<1>3. <<>> \in Seq(CivicEvent) /\ Len(<<>>) = 0
  OBVIOUS
<1>4. 0 <= MaxNews + 2 /\ 0 <= 0 /\ 1..0 = {} /\ ~(0 >= 1)
  BY CivicAssumption
<1>5. InOrder(<<>>, "ahead")
  BY <1>3, <1>4 DEF InOrder
<1>6. CivicShape
  BY <1>1, <1>2, <1>3, <1>4, <1>5 DEF CivicInit, CivicShape, Hours
<1> QED
  BY <1>1, <1>4, <1>6 DEF CivicInv, OneAtATime, FollowsTheOpen, KnowsTheNewest

LEMMA CivicSteps == CivicInv /\ [CivicNext]_civicVars => CivicInv'
<1> SUFFICES ASSUME CivicInv, [CivicNext]_civicVars PROVE CivicInv'
  OBVIOUS
<1>1. ASSUME NEW e \in Election, Opens(e) PROVE CivicInv'
  BY <1>1, OpensKeeps
<1>2. ASSUME NEW e \in Election, Ends(e) PROVE CivicInv'
  BY <1>2, EndsKeeps
<1>3. ASSUME NEW e \in Election, GracePasses(e) PROVE CivicInv'
  BY <1>3, HourKeeps DEF GracePasses
<1>4. ASSUME NEW e \in Election, Hears(e) PROVE CivicInv'
  BY <1>4, HearsKeeps
<1>5. ASSUME NEW e \in Election, Rebalances(e) PROVE CivicInv'
  BY <1>5, RebalancesKeeps
<1>6. ASSUME NEW e \in Election, NEW c \in Citizen, Nominates(e, c) PROVE CivicInv'
  BY <1>6, NominatesKeeps
<1>7. ASSUME NEW e \in Election, NEW c \in Citizen, Votes(e, c) PROVE CivicInv'
  BY <1>7, VotesKeeps
<1>8. CASE Snapshot
  BY <1>8, SnapshotKeeps
<1>9. CASE Forgets
  BY <1>9, ForgetsKeeps
<1>10. CASE UNCHANGED civicVars
  BY <1>10 DEF civicVars, CivicInv, CivicShape, OneAtATime, FollowsTheOpen, KnowsTheNewest
<1> QED
  BY <1>1, <1>2, <1>3, <1>4, <1>5, <1>6, <1>7, <1>8, <1>9, <1>10 DEF CivicNext

(* Who has heard everything knows the open election, and the mayor.          *)
LEMMA CivicMeans == CivicInv => CivicTypeOK /\ CivicIsCurrent
<1> SUFFICES ASSUME CivicInv PROVE CivicTypeOK /\ CivicIsCurrent
  OBVIOUS
<1>1. CivicShape /\ campaign \in Campaign
  BY DEF CivicInv, CivicShape
<1>2. CivicTypeOK
  BY <1>1 DEF CivicShape, CivicTypeOK, Campaign, Hours
<1>3. ASSUME \A e \in Election : told[e] = Len(news[e]), ~missed
      PROVE  /\ \A e \in Election : hour[e] = "open" =>
                  Shown = [election |-> e, candidates |-> Named(e, "nominated"), voters |-> Named(e, "voted")]
             /\ (\A e \in Election : hour[e] # "open") => Shown = NoCampaign
             /\ Held # {} => mayor \in Named(Max(Held), "decided")
  <2>1. FollowsTheOpen /\ KnowsTheNewest
    BY <1>3 DEF CivicInv
  <2>2. ASSUME NEW e \in Election, hour[e] = "open"
        PROVE  Shown = [election |-> e, candidates |-> Named(e, "nominated"), voters |-> Named(e, "voted")]
    <3>1. told[e] = Len(news[e]) /\ Len(news[e]) \in Nat /\ Len(news[e]) # 0
      BY <1>1, <1>3, <2>2, NewsFacts DEF InOrder
    <3>2. told[e] >= 1
      BY <3>1
    <3>3. FollowsTo(campaign, e, news[e], told[e])
      BY <2>1, <2>2, <3>2 DEF FollowsTheOpen
    <3>4. \A type, c : c \in Named(e, type) <=> HasNews(news[e], type, c)
      BY <1>1, NewsFacts
    <3>5. campaign.candidates = Named(e, "nominated") /\ campaign.voters = Named(e, "voted")
      <4>1. FollowsTo(campaign, e, news[e], Len(news[e]))
        BY <3>1, <3>3
      <4>2. \A c : HasNews(news[e], "nominated", c) <=> c \in campaign.candidates
        BY <4>1 DEF FollowsTo, HasNews
      <4>3. \A c : HasNews(news[e], "voted", c) <=> c \in campaign.voters
        BY <4>1 DEF FollowsTo, HasNews
      <4> QED
        BY <3>4, <4>2, <4>3
    <3>6. campaign = [election |-> e, candidates |-> Named(e, "nominated"), voters |-> Named(e, "voted")]
      BY <1>1, <3>3, <3>5 DEF FollowsTo, Campaign
    <3>7. e # 0 /\ campaign.election = e
      BY <3>3, ElectionsAreNumbers DEF FollowsTo
    <3> QED
      BY <2>2, <3>6, <3>7 DEF Shown
  <2>3. ASSUME \A e \in Election : hour[e] # "open" PROVE Shown = NoCampaign
    BY <1>1, <2>3 DEF Shown, Campaign
  <2>4. ASSUME Held # {} PROVE mayor \in Named(Max(Held), "decided")
    <3>1. \A e \in Held : e \in Election /\ e \in Nat /\ e # 0
      BY ElectionsAreNumbers DEF Held
    <3>2. ASSUME NEW e \in Held PROVE e <= decided
      <4>1. PICK c : c \in Named(e, "decided")
        BY DEF Held
      <4>2. HasNews(news[e], "decided", c) /\ told[e] = Len(news[e])
        BY <1>1, <1>3, <3>1, <4>1, NewsFacts
      <4> QED
        BY <2>1, <3>1, <4>2 DEF HasNews, KnowsTheNewest
    <3>3. decided \in Nat /\ decided # 0
      <4>1. decided \in Election \union {0}
        BY <1>1 DEF CivicShape
      <4>2. decided \in Nat
        BY <4>1, ElectionsAreNumbers
      <4>3. PICK e \in Held : e <= decided /\ e \in Nat /\ e # 0
        BY <2>4, <3>1, <3>2
      <4> QED
        BY <4>2, <4>3
    <3>4. decided \in Election /\ mayor \in Named(decided, "decided")
      <4>1. decided \in Election
        BY <1>1, <3>3 DEF CivicShape
      <4> QED
        BY <1>1, <2>1, <3>3, <4>1, NewsFacts DEF KnowsTheNewest
    <3>5. decided \in Held /\ \A e \in Held : decided >= e
      <4>1. decided \in Held
        BY <3>4 DEF Held
      <4> QED
        BY <3>1, <3>2, <3>3, <4>1
    <3>6. \A m \in Held : (\A e \in Held : m >= e) => m = decided
      BY <3>1, <3>3, <3>5
    <3>7. Max(Held) = decided
      BY <3>5, <3>6 DEF Max
    <3> QED
      BY <3>4, <3>7
  <2> QED
    BY <2>2, <2>3, <2>4
<1> QED
  BY <1>2, <1>3 DEF CivicIsCurrent

(* A village that has heard all of government.events knows the election that *)
(* is open with its candidates and voters, and its mayor, whatever parts of  *)
(* the topic it heard twice, unless its process has forgotten or has heard   *)
(* two results in the wrong order (CivicState).                              *)
THEOREM CivicStaysCurrent == CivicInit /\ [][CivicNext]_civicVars => [](CivicTypeOK /\ CivicIsCurrent)
<1>1. CivicInv /\ [CivicNext]_civicVars => CivicInv'
  BY CivicSteps
<1> QED
  BY CivicBegins, <1>1, CivicMeans, PTL
=============================================================================
