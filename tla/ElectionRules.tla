--------------------------- MODULE ElectionRules ---------------------------
(***************************************************************************)
(* The pure decisions of the government-service domain: which phase an      *)
(* election is due to enter (Election.duePhase), and who wins it            *)
(* (CandidateTally.winner).                                                 *)
(***************************************************************************)
EXTENDS Naturals, Sequences, FiniteSets

Active   == {"scheduled", "nominating", "voting"}
Terminal == {"decided", "annulled"}
Status   == Active \union Terminal

(* The boundaries are inclusive, and each phase has one successor; "stay"   *)
(* is the empty Optional.                                                   *)
DuePhase(status, now, startsAt, nominatingEndsAt, endsAt) ==
  CASE status = "scheduled"  /\ now >= startsAt         -> "nominating"
    [] status = "nominating" /\ now >= nominatingEndsAt -> "voting"
    [] status = "voting"     /\ now >= endsAt           -> "decided"
    [] OTHER -> "stay"

(* Mutant: ties break to the latest registered candidate.                   *)
Winner_LatestFirst(candidates, count) ==
  candidates[CHOOSE i \in DOMAIN candidates :
               \A j \in DOMAIN candidates :
                 \/ count[candidates[i]] > count[candidates[j]]
                 \/ count[candidates[i]] = count[candidates[j]] /\ i >= j]

(* Plurality; ties break to the earliest registered, then to the lesser id. *)
(* candidates is in that order, and not empty.                              *)
Winner(candidates, count) ==
  candidates[CHOOSE i \in DOMAIN candidates :
               \A j \in DOMAIN candidates :
                 \/ count[candidates[i]] > count[candidates[j]]
                 \/ count[candidates[i]] = count[candidates[j]] /\ i <= j]
=============================================================================
