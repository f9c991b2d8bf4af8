---------------------------- MODULE RaceReaders ----------------------------
(***************************************************************************)
(* The two readers of a race.  The minds (agent-service) replay the        *)
(* ledger's window into RaceState at boot and then follow world.events     *)
(* from their committed offsets.  The board (Mission Control) reads the    *)
(* slice of the newest attempt and then follows the live feed.             *)
(*                                                                         *)
(* Neither asks the ledger again once it is live, so each can miss what    *)
(* fell between its two sources.  The ghost field `missed` records that it *)
(* did; the properties say what holds of a reader that did not.            *)
(***************************************************************************)
EXTENDS Ledger

VARIABLES
  mind,   \* the minds' RaceState, and how far the replay has come
  heard,  \* [Partition -> Nat]: next offset of the percept consumer, less one
  board   \* the board's race, and how far its bootstrap has come

mindVars   == <<mind, heard>>
readerVars == <<mind, heard, board>>

RaceTypes == {"AttemptStarted", "ProgressionMilestone", "AttemptEnded"}

NoRace == [attempt |-> 0, crossed |-> {}, over |-> FALSE]

Fresh(a) == [NoRace EXCEPT !.attempt = a]

Crossing(race, e) == [race EXCEPT !.crossed = @ \union {<<e.team, e.rung>>}]

\* A start older than the newest one seen: partitions have no common order,
\* and both readers let the last start they are told of win.
Supersedes(newest, e) == e.type = "AttemptStarted" /\ e.n < newest

Newest(newest, e) == IF e.type = "AttemptStarted" THEN Max({newest, e.n}) ELSE newest

StartsOf(events) == {e \in events : e.type = "AttemptStarted"}

HasEnd(events) == \E e \in events : e.type = "AttemptEnded"

Crossings(events) == {<<e.team, e.rung>> : e \in {d \in events : d.type = "ProgressionMilestone"}}

LatestOf(events) == CHOOSE e \in events : \A d \in events : d.n <= e.n

-----------------------------------------------------------------------------
(* The minds. *)

\* RaceState: what is not of its own attempt is ignored, an end leaves no race.
MindHears(race, e) ==
  CASE e.type = "AttemptStarted" -> Fresh(e.attempt)
    [] e.type = "ProgressionMilestone" /\ e.attempt = race.attempt -> Crossing(race, e)
    [] e.type = "AttemptEnded" /\ e.attempt = race.attempt -> NoRace
    [] OTHER -> race

\* What a page of rows leaves, taken row by row in their order: from its last
\* start on, what is of that attempt.
MindReads(race, page) ==
  LET starts == StartsOf(page)
      begun  == IF starts = {} THEN race ELSE Fresh(LatestOf(starts).attempt)
      slice  == {e \in page : e.attempt = begun.attempt /\ \A s \in starts : s.n <= e.n}
  IN  IF HasEnd(slice) THEN NoRace ELSE [begun EXCEPT !.crossed = @ \union Crossings(slice)]

\* What the consumer is past and the ledger does not show yet.
HeardUnstored == \E p \in Partition : \E i \in 1..heard[p] :
                    topic[p][i] # Poison /\ topic[p][i] \notin stored

\* One page of rehydrate_race.  The percept consumer starts after the last.
Rehydrates ==
  LET page == Page(RaceTypes, mind.cursor)
  IN  /\ mind.stage = "replaying"
      /\ mind' = [stage  |-> IF HasNextPage(RaceTypes, mind.cursor) THEN "replaying" ELSE "live",
                  cursor |-> CursorOf(page, mind.cursor),
                  race   |-> MindReads(mind.race, page),
                  newest |-> CursorOf(StartsOf(page), mind.newest),
                  missed |-> mind.missed \/ HeardUnstored]
      /\ UNCHANGED <<ledgerVars, heard, board>>

\* The ledger does not answer: the minds go on with what they have.
RehydrateFails ==
  /\ mind.stage = "replaying" /\ Fault
  /\ mind' = [mind EXCEPT !.stage = "live", !.missed = TRUE]
  /\ UNCHANGED <<topic, ingestVars, feedVars, heard, board>>

\* The percept consumer handles the next record of a partition.
Hears(p) ==
  /\ mind.stage = "live" /\ heard[p] < Len(topic[p])
  /\ heard' = [heard EXCEPT ![p] = @ + 1]
  /\ LET e == topic[p][heard[p] + 1]
     IN  mind' = IF e = Poison THEN mind
                 ELSE [mind EXCEPT !.race = MindHears(@, e),
                                   !.newest = Newest(@, e),
                                   !.missed = @ \/ Supersedes(mind.newest, e)]
  /\ UNCHANGED <<ledgerVars, board>>

\* agent-service restarts: RaceState is gone, and the group resumes at what it
\* last committed, here at most one record of each partition behind.
MindReborn == [stage |-> "replaying", cursor |-> 0, race |-> NoRace, newest |-> 0, missed |-> FALSE]

MindRestarts ==
  /\ Fault
  /\ mind' = MindReborn
  /\ \E behind \in SUBSET {p \in Partition : heard[p] > 0} :
       heard' = [p \in Partition |-> IF p \in behind THEN heard[p] - 1 ELSE heard[p]]
  /\ UNCHANGED <<topic, ingestVars, feedVars, board>>

-----------------------------------------------------------------------------
(* The board. *)

\* An end is shown, not cleared.
BoardIngests(race, e) ==
  CASE e.type = "ProgressionMilestone" /\ e.attempt = race.attempt -> Crossing(race, e)
    [] e.type = "AttemptEnded" /\ e.attempt = race.attempt -> [race EXCEPT !.over = TRUE]
    [] OTHER -> race

\* Mutant: an end is not asked whose it is.
BoardHears_AnyEnd(race, e) ==
  CASE e.type = "AttemptStarted" -> Fresh(e.attempt)
    [] e.type = "AttemptEnded"   -> [race EXCEPT !.over = TRUE]
    [] OTHER -> BoardIngests(race, e)

BoardHears(race, e) ==
  IF e.type = "AttemptStarted" THEN Fresh(e.attempt) ELSE BoardIngests(race, e)

\* What a page of rows adds to a race, in whatever order.
BoardReads(race, page) ==
  LET slice == {e \in page : e.attempt = race.attempt}
  IN  [race EXCEPT !.crossed = @ \union Crossings(slice), !.over = @ \/ HasEnd(slice)]

\* The race these events are the record of: the newest attempt among them.
ShownBy(events) ==
  LET newest == LatestOf(StartsOf(events)).attempt
      slice  == {e \in events : e.attempt = newest}
  IN  IF StartsOf(events) = {} THEN NoRace
      ELSE [attempt |-> newest, crossed |-> Crossings(slice), over |-> HasEnd(slice)]

BoardClosed == [stage |-> "newest", cursor |-> 0, race |-> NoRace, newest |-> 0, missed |-> FALSE]

\* fetchLatestAttemptStarted: follow the cursor to the last page.  With no
\* attempt in the ledger the bootstrap returns before it opens the feed.
BoardSeeksNewest ==
  LET page   == Page({"AttemptStarted"}, board.cursor)
      more   == HasNextPage({"AttemptStarted"}, board.cursor)
      race   == IF page = {} THEN board.race ELSE Fresh(LatestOf(page).attempt)
      newest == CursorOf(page, board.newest)
  IN  /\ board.stage = "newest"
      /\ board' = CASE more -> [board EXCEPT !.race = race, !.cursor = newest, !.newest = newest]
                    [] ~more /\ race = NoRace -> [board EXCEPT !.stage = "off"]
                    [] OTHER -> [board EXCEPT !.stage = "slice", !.race = race, !.cursor = 0, !.newest = newest]
      /\ UNCHANGED <<ledgerVars, mindVars>>

\* fetchAttemptSlice: the events of that attempt, page by page.
SliceAfter(a, cursor) == {e \in Matching(RaceTypes, cursor) : e.attempt = a}

BoardReadsSlice ==
  LET rest == SliceAfter(board.race.attempt, board.cursor)
      page == {e \in rest : Cardinality({d \in rest : d.n < e.n}) < PageLimit}
  IN  /\ board.stage = "slice"
      /\ board' = [board EXCEPT
           !.race = BoardReads(@, page),
           !.cursor = CursorOf(page, @),
           !.stage = IF Cardinality(rest) > PageLimit THEN "slice" ELSE "connect"]
      /\ UNCHANGED <<ledgerVars, mindVars>>

\* EventSource opens, at the end of the bootstrap and again by itself whenever
\* the connection broke.  Nothing is read from the ledger on that occasion.
BoardConnects ==
  /\ board.stage \in {"connect", "live"} /\ emitters = {}
  /\ emitters' = {"board"}
  /\ board' = [board EXCEPT !.stage = "live", !.missed = @ \/ ShownBy(stored) # board.race]
  /\ UNCHANGED <<topic, ingestVars, feed, shed, faults, mindVars>>

\* The feed's thread sends one event; nobody hears it when nobody is connected.
Broadcast ==
  /\ feed # <<>> /\ feed' = Tail(feed)
  /\ LET e == Head(feed)
     IN  board' = IF emitters = {} THEN board
                  ELSE [board EXCEPT !.race = BoardHears(@, e),
                                     !.newest = Newest(@, e),
                                     !.missed = @ \/ Supersedes(board.newest, e)]
  /\ UNCHANGED <<topic, ingestVars, emitters, shed, faults, mindVars>>

\* A send to a gone or slow client fails and the client is dropped.
ClientDropped ==
  /\ emitters # {} /\ Fault
  /\ emitters' = {}
  /\ UNCHANGED <<topic, ingestVars, feed, shed, readerVars>>

-----------------------------------------------------------------------------
ReaderInit ==
  /\ mind = MindReborn /\ heard = [p \in Partition |-> 0]
  /\ board = BoardClosed

MindNext ==
  \/ Rehydrates \/ RehydrateFails \/ MindRestarts
  \/ \E p \in Partition : Hears(p)

BoardNext == BoardSeeksNewest \/ BoardReadsSlice \/ BoardConnects \/ Broadcast \/ ClientDropped

-----------------------------------------------------------------------------
(* Properties. *)

ReaderTypeOK ==
  /\ mind.stage \in {"replaying", "live"}
  /\ \A p \in Partition : heard[p] \in 0..Len(topic[p])
  /\ board.stage \in {"newest", "off", "slice", "connect", "live"}
  /\ emitters # {} => board.stage = "live"

\* What a reader of the whole topic puts into a prompt.
RaceInMind == LET shown == ShownBy(OnTopic) IN IF shown.over THEN NoRace ELSE shown

\* The prompts follow the race: minds that have heard the topic out, and missed
\* nothing between the ledger and the topic, hold the newest attempt and exactly
\* its rungs, or no race once it has ended, through every restart of theirs.
MindIsCurrent ==
  (mind.stage = "live" /\ \A p \in Partition : heard[p] = Len(topic[p]))
    => mind.missed \/ mind.race = RaceInMind

\* The board follows the race: one that opened the feed before anything more
\* happened and lost nothing on it shows, once the feed is worked off, the
\* newest attempt of the ledger, its rungs and its end.
BoardIsCurrent ==
  (emitters # {} /\ feed = <<>>) => board.missed \/ shed \/ board.race = ShownBy(stored)
=============================================================================
