----------------------------- MODULE CivicState -----------------------------
(***************************************************************************)
(* What the minds know of their government (agent-service, brain/civics.py *)
(* fed by kafka/percepts.py): the running campaign, its candidates and who *)
(* has voted, and the seated mayor, kept in memory and learned from        *)
(* government.events.  The events of an election lie on one partition in   *)
(* the order government-service sends them; elections follow one another.  *)
(* The consumer may be rebalanced and read again from what it committed,   *)
(* with its memory intact, or restart and have forgotten.                  *)
(***************************************************************************)
EXTENDS Naturals, SequencesExt, FiniteSetsExt

CONSTANTS
  Election,   \* 1..n in the order they are held
  Citizen,    \* villagers
  Nobody,     \* no villager
  MaxNews,    \* bound on the events of an election before its result
  MaxReread   \* bound on rebalances and restarts

ASSUME CivicAssumption ==
  /\ IsFiniteSet(Election) /\ Election = 1..Cardinality(Election)
  /\ Nobody \notin Citizen /\ MaxNews \in Nat /\ MaxReread \in Nat

VARIABLES
  news,      \* [Election -> Seq(event)]: government.events by aggregate
  hour,      \* [Election -> "ahead", "open", "ended" or "past" the grace]
  told,      \* [Election -> events the percept consumer has handled]
  campaign,  \* CivicState._campaign
  mayor,     \* CivicState._mayor
  decided,   \* history: the newest election whose result was handled
  missed,    \* history: memory was lost, or results were heard out of order
  rereads    \* rebalances and restarts so far

civicVars == <<news, hour, told, campaign, mayor, decided, missed, rereads>>

NoCampaign == [election |-> 0, candidates |-> {}, voters |-> {}]

Event(type, who) == [type |-> type, who |-> who]

Sent(e, event) == news' = [news EXCEPT ![e] = Append(@, event)]

Named(e, type) == {event.who : event \in {d \in Range(news[e]) : d.type = type}}

-----------------------------------------------------------------------------
(* government-service, as its events tell. *)

Opens(e) ==
  /\ hour[e] = "ahead" /\ \A d \in Election : d < e => hour[d] \in {"ended", "past"}
  /\ hour' = [hour EXCEPT ![e] = "open"]
  /\ Sent(e, Event("started", Nobody))
  /\ UNCHANGED <<told, campaign, mayor, decided, missed, rereads>>

Nominates(e, c) ==
  /\ hour[e] = "open" /\ c \notin Named(e, "nominated") /\ Len(news[e]) < MaxNews
  /\ Sent(e, Event("nominated", c))
  /\ UNCHANGED <<hour, told, campaign, mayor, decided, missed, rereads>>

Votes(e, c) ==
  /\ hour[e] = "open" /\ Len(news[e]) < MaxNews
  /\ Named(e, "nominated") # {} /\ c \notin Named(e, "voted")
  /\ Sent(e, Event("voted", c))
  /\ UNCHANGED <<hour, told, campaign, mayor, decided, missed, rereads>>

\* The clock passes endsAt.  The decision follows within the grace, or never:
\* an election that nobody entered or voted in is annulled in silence.
Ends(e) ==
  /\ hour[e] = "open" /\ hour' = [hour EXCEPT ![e] = "ended"]
  /\ IF Named(e, "voted") = {} THEN UNCHANGED news
     ELSE \E c \in Named(e, "nominated") : Sent(e, Event("decided", c))
  /\ UNCHANGED <<told, campaign, mayor, decided, missed, rereads>>

GracePasses(e) ==
  /\ hour[e] = "ended" /\ hour' = [hour EXCEPT ![e] = "past"]
  /\ UNCHANGED <<news, told, campaign, mayor, decided, missed, rereads>>

-----------------------------------------------------------------------------
(* CivicState. *)

\* Mutant: news of an election is taken by its delivery, not by its content.
Ingested_Ungated(e, event) ==
  CASE event.type = "started" -> [NoCampaign EXCEPT !.election = e]
    [] event.type = "nominated" /\ e = campaign.election -> [campaign EXCEPT !.candidates = @ \union {event.who}]
    [] event.type = "voted" /\ e = campaign.election -> [campaign EXCEPT !.voters = @ \union {event.who}]
    [] event.type = "decided" /\ e = campaign.election -> NoCampaign
    [] OTHER -> campaign

\* The four observers, on the campaign.  A start that is over is history; a
\* live one replaces whatever campaign there is, its own earlier copy included.
Ingested(e, event) ==
  CASE event.type = "started" /\ hour[e] = "open" -> [NoCampaign EXCEPT !.election = e]
    [] event.type = "nominated" /\ e = campaign.election -> [campaign EXCEPT !.candidates = @ \union {event.who}]
    [] event.type = "voted" /\ e = campaign.election -> [campaign EXCEPT !.voters = @ \union {event.who}]
    [] event.type = "decided" /\ e = campaign.election -> NoCampaign
    [] OTHER -> campaign

\* _ingest_civic: the consumer handles the next event of a partition.  A
\* result seats its winner, whatever campaign is known.
Hears(e) ==
  /\ told[e] < Len(news[e])
  /\ LET event == news[e][told[e] + 1]
     IN  /\ campaign' = Ingested(e, event)
         /\ IF event.type = "decided"
            THEN mayor' = event.who /\ decided' = Max({decided, e}) /\ missed' = (missed \/ e < decided)
            ELSE UNCHANGED <<mayor, decided, missed>>
  /\ told' = [told EXCEPT ![e] = @ + 1]
  /\ UNCHANGED <<news, hour, rereads>>

\* What snapshot shows of the campaign: one that has closed renders nothing.
Shown == IF campaign.election # 0 /\ hour[campaign.election] = "open" THEN campaign ELSE NoCampaign

\* snapshot forgets a campaign that is past its grace.
Snapshot ==
  /\ campaign.election # 0 /\ hour[campaign.election] = "past"
  /\ campaign' = NoCampaign
  /\ UNCHANGED <<news, hour, told, mayor, decided, missed, rereads>>

\* A partition is read again from its committed offset.
Rebalances(e) ==
  /\ rereads < MaxReread /\ rereads' = rereads + 1
  /\ \E committed \in 0..told[e] : told' = [told EXCEPT ![e] = committed]
  /\ UNCHANGED <<news, hour, campaign, mayor, decided, missed>>

\* The process restarts: it has forgotten, and resumes where it committed.
Forgets ==
  /\ rereads < MaxReread /\ rereads' = rereads + 1
  /\ told' \in {t \in [Election -> 0..Max({Len(news[e]) : e \in Election})] : \A e \in Election : t[e] <= told[e]}
  /\ campaign' = NoCampaign /\ mayor' = Nobody /\ decided' = 0
  /\ missed' = \E e \in Election : told'[e] > 0
  /\ UNCHANGED <<news, hour>>

CivicInit ==
  /\ news = [e \in Election |-> <<>>] /\ hour = [e \in Election |-> "ahead"]
  /\ told = [e \in Election |-> 0]
  /\ campaign = NoCampaign /\ mayor = Nobody /\ decided = 0
  /\ missed = FALSE /\ rereads = 0

CivicNext ==
  \/ \E e \in Election : \/ Opens(e) \/ Ends(e) \/ GracePasses(e) \/ Hears(e) \/ Rebalances(e)
                         \/ \E c \in Citizen : Nominates(e, c) \/ Votes(e, c)
  \/ Snapshot \/ Forgets

-----------------------------------------------------------------------------
(* Properties. *)

CivicTypeOK ==
  /\ \A e \in Election : told[e] <= Len(news[e]) /\ hour[e] \in {"ahead", "open", "ended", "past"}
  /\ campaign.election \in Election \union {0} /\ mayor \in Citizen \union {Nobody}
  /\ campaign.candidates \subseteq Citizen /\ campaign.voters \subseteq Citizen

Held == {e \in Election : Named(e, "decided") # {}}

\* The village's view converges: once the topic is heard out, however often
\* parts of it were heard again, a prompt shows the open election with exactly
\* its candidates and voters, or none, and the mayor of the last decision,
\* unless the process has forgotten or heard two results in the wrong order.
CivicIsCurrent ==
  (\A e \in Election : told[e] = Len(news[e])) =>
    \/ missed
    \/ /\ \A e \in Election : hour[e] = "open" =>
            Shown = [election |-> e, candidates |-> Named(e, "nominated"), voters |-> Named(e, "voted")]
       /\ (\A e \in Election : hour[e] # "open") => Shown = NoCampaign
       /\ Held # {} => mayor \in Named(Max(Held), "decided")
=============================================================================
