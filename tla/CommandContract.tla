-------------------------- MODULE CommandContract --------------------------
(***************************************************************************)
(* What the command plane promises about one command, whatever is          *)
(* redelivered, lost or restarted: its commandId is taken once, its run is  *)
(* entered at most once and only after that, and at most one reply of an    *)
(* executed command reaches the ledger.  A command may also stay without a  *)
(* run or a reply for ever: losing an intent is the documented safe side.   *)
(***************************************************************************)
EXTENDS Naturals

CONSTANT Command

VARIABLES
  taken,    \* commandIds claimed for execution
  runs,     \* how often the run of a command was entered
  replies   \* how many outcomes of its execution the ledger holds

vars == <<taken, runs, replies>>

Init ==
  /\ taken = {}
  /\ runs = [c \in Command |-> 0]
  /\ replies = [c \in Command |-> 0]

Take(c) ==
  /\ c \notin taken
  /\ taken' = taken \union {c}
  /\ UNCHANGED <<runs, replies>>

Run(c) ==
  /\ c \in taken /\ runs[c] = 0 /\ replies[c] = 0
  /\ runs' = [runs EXCEPT ![c] = 1]
  /\ UNCHANGED <<taken, replies>>

(* Replies to several commands can become visible at once.                 *)
Reply(S) ==
  /\ \A c \in S : c \in taken /\ replies[c] = 0
  /\ replies' = [c \in Command |-> IF c \in S THEN 1 ELSE replies[c]]
  /\ UNCHANGED <<taken, runs>>

Next ==
  \/ \E c \in Command : Take(c) \/ Run(c)
  \/ \E S \in SUBSET Command : Reply(S)

Spec == Init /\ [][Next]_vars
=============================================================================
