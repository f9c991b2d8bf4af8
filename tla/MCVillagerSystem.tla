-------------------------- MODULE MCVillagerSystem --------------------------
(* Two intents of one action and the idle one; a tree of two logs, one of
   which no walk reaches; benches with and without what a sword takes. *)
EXTENDS VillagerSystem, TLC

CONSTANTS iron, coal, idle, v1, v2, v3, ansel, mara, nobody, job, rest,
          t1, t2, high, low, tree, camp, ledge, nospot, noblock, notrip, other,
          h1, h2, cow, nohunt, noprey, logs, planks, punch, axe, s1, s2, s3, noone

\* The two intents of one action are alike.
MCAlike == Permutations({iron, coal})

MCActionOf == iron :> "gather" @@ coal :> "gather" @@ idle :> "idle"

MCClusterOf == high :> tree @@ low :> tree
MCBelow     == high :> nospot @@ low :> ledge
MCInReach   == camp :> {high, low} @@ ledge :> {high, low}
MCRank      == high :> 1 @@ low :> 2

Bare    == [i \in Item |-> 0]
MCPacks == {[Bare EXCEPT !["raw"] = 2, !["stick"] = 1, !["coal"] = 1],
            [Bare EXCEPT !["raw"] = 2, !["stick"] = 1, !["planks"] = 2],
            [Bare EXCEPT !["raw"] = 2, !["log"] = 2, !["table"] = 1, !["furnace"] = 1]}
=============================================================================
