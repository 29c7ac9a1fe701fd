----------------------------- MODULE MCTrRank -----------------------------
(* Instances of TrRank for TLC. *)
EXTENDS TrRank

\* Two files, each with one result.
MCLine == <<"+db", "1", "a.osu", "b.osu">>
\* One file whose score is printed, and stored, several times.
MCScoreLine == <<"+db", "1", "-score", "1", "a.osu">>
MCLines == {MCLine, MCScoreLine}

MCWords == {"+db", "1", "-score", "a.osu", "b.osu"}
MCFirstChar ==
  [w \in MCWords |-> CASE w = "+db" -> "+" [] w = "-score" -> "-" [] OTHER -> "w"]
MCAtoi == [w \in MCWords |-> IF w = "1" THEN 1 ELSE 0]
MCMods == [w \in MCWords |-> {}]
MCFile == [w \in {"a.osu", "b.osu"} |-> [name |-> "osu", mode |-> "taiko"]]

\* Three difficulties of one mapset, by position.
MCKey ==
  [p \in 3..5 |-> [creator |-> "mapper", title |-> "song", mods |-> "__",
                   diff |-> CASE p = 3 -> "oni" [] p = 4 -> "muzu" [] p = 5 -> "inner"]]

MCName == {"mapper", "song", "oni", "muzu", "inner", "__"}
MCTables == {"tr_user", "tr_mod", "tr_mapset", "tr_diff", "tr_score"}
=============================================================================
