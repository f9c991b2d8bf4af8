---------------------------- MODULE TokenBudget ----------------------------
(***************************************************************************)
(* The wallet's circuit breaker (agent-service, llm/budget.py) around a    *)
(* provider that admits few calls at a time.  The provider is chosen       *)
(* before the wait for admission, and the tokens are booked after the      *)
(* answer, so calls overlap the decision to stop.  The wallet lives in the *)
(* process: a restart begins with an empty one, on the same day.           *)
(***************************************************************************)
EXTENDS Naturals, FiniteSets

CONSTANTS
  Caller,      \* the villagers' ticks, each with at most one call
  Budget,      \* llm_daily_token_budget
  MaxTokens,   \* bound on the tokens of one answer
  MaxFlying,   \* llm_max_concurrent_requests
  MaxDays,     \* bound on the calendar
  MaxSlips     \* bound on restarts, and on failed calls that are billed

ASSUME TokenBudgetAssumption ==
  /\ IsFiniteSet(Caller) /\ Budget \in Nat \ {0} /\ MaxTokens \in Nat \ {0}
  /\ MaxFlying \in Nat \ {0} /\ MaxDays \in Nat \ {0}
  /\ MaxSlips \in Nat

VARIABLES
  today,    \* the UTC day, from 1
  wallet,   \* _day, _spent, _tripped
  call,     \* [Caller -> stage and the day it was begun on]
  answered, \* history: tokens this life of the process was told of, by the day
            \* their calls were begun on
  billed,   \* history: what the primary billed for the calls of a day
  slips     \* restarts and billed failures so far

billVars   == <<answered, billed, slips>>
budgetVars == <<today, wallet, call, billVars>>

NoCall == [stage |-> "none", day |-> 0]

Flying == {c \in Caller : call[c].stage = "flying"}

\* _roll_day
Rolled == IF wallet.day = today THEN wallet ELSE [day |-> today, spent |-> 0, tripped |-> FALSE]

\* Mutant: the breaker trips only once the budget is exceeded.
Booked_Exceeded(w, tokens) ==
  LET spent == w.spent + tokens
  IN  [w EXCEPT !.spent = spent, !.tripped = @ \/ spent > Budget]

Booked(w, tokens) ==
  LET spent == w.spent + tokens
  IN  [w EXCEPT !.spent = spent, !.tripped = @ \/ spent >= Budget]

\* complete, as far as the choice of the provider.  The fallback answers
\* without a wait; its tokens are booked on a breaker that is open already.
Completes(c) ==
  /\ call[c] = NoCall
  /\ wallet' = Rolled
  /\ call' = IF Rolled.tripped THEN call
             ELSE [call EXCEPT ![c] = [stage |-> "queued", day |-> today]]
  /\ UNCHANGED <<today, billVars>>

\* The provider's semaphore.
Admitted(c) ==
  /\ call[c].stage = "queued" /\ Cardinality(Flying) < MaxFlying
  /\ call' = [call EXCEPT ![c].stage = "flying"]
  /\ UNCHANGED <<today, wallet, billVars>>

\* The rest of complete.  The day is not rolled again: the tokens of a call
\* that was begun yesterday are booked on the day of the last roll.
Answered(c) ==
  /\ call[c].stage = "flying"
  /\ \E tokens \in 1..MaxTokens :
       /\ wallet' = Booked(wallet, tokens)
       /\ answered' = [answered EXCEPT ![call[c].day] = @ + tokens]
       /\ billed' = [billed EXCEPT ![call[c].day] = @ + tokens]
  /\ call' = [call EXCEPT ![c] = NoCall]
  /\ UNCHANGED <<today, slips>>

Slips == slips < MaxSlips /\ slips' = slips + 1

\* The call raises: nothing is booked.  What the client gave up after its
\* timeout, or could not read, the provider may have answered and billed.
CallFails(c) ==
  /\ call[c].stage = "flying"
  /\ call' = [call EXCEPT ![c] = NoCall]
  /\ \/ UNCHANGED <<billed, slips>>
     \/ /\ Slips
        /\ \E tokens \in 1..MaxTokens : billed' = [billed EXCEPT ![call[c].day] = @ + tokens]
  /\ UNCHANGED <<today, wallet, answered>>

Midnight ==
  /\ today < MaxDays /\ today' = today + 1
  /\ UNCHANGED <<wallet, call, billVars>>

\* What is spent is forgotten with the process.  A call that it takes with it
\* and that is billed all the same has failed a moment before.
Restarts ==
  /\ Slips
  /\ wallet' = [day |-> today, spent |-> 0, tripped |-> FALSE]
  /\ call' = [c \in Caller |-> NoCall]
  /\ answered' = [d \in 1..MaxDays |-> 0]
  /\ UNCHANGED <<today, billed>>

BudgetInit ==
  /\ today = 1 /\ wallet = [day |-> 1, spent |-> 0, tripped |-> FALSE]
  /\ call = [c \in Caller |-> NoCall]
  /\ answered = [d \in 1..MaxDays |-> 0] /\ billed = answered /\ slips = 0

BudgetNext ==
  \/ \E c \in Caller : Completes(c) \/ Admitted(c) \/ Answered(c) \/ CallFails(c)
  \/ Midnight \/ Restarts

-----------------------------------------------------------------------------
(* Properties. *)

BudgetTypeOK ==
  /\ today \in 1..MaxDays /\ wallet.day \in 1..MaxDays
  /\ wallet.spent \in Nat /\ wallet.tripped \in BOOLEAN
  /\ \A c \in Caller : call[c].stage \in {"none", "queued", "flying"} /\ call[c].day \in 0..MaxDays

\* The breaker bounds the overrun of what it knows of: the answers that one
\* life of the process gets to a day's calls stay below the budget plus one
\* answer of every villager, for all of them may have chosen the primary, the
\* ones that still wait for admission included, before the answer that trips
\* the breaker is booked.
SpendingStops ==
  \A d \in 1..MaxDays : answered[d] < Budget + Cardinality(Caller) * MaxTokens

\* "Hard daily ceiling - hitting it flips deliberation to the fake provider
\* (circuit breaker) so a forgotten overnight run cannot burn the wallet"
\* (settings.py:63): what the provider bills for a day, with the same overrun
\* granted to the calls that overlap the decision.
HardCeiling ==
  \A d \in 1..MaxDays : billed[d] < Budget + Cardinality(Caller) * MaxTokens
=============================================================================
