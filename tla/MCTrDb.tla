------------------------------ MODULE MCTrDb ------------------------------
(* Instances of TrDb for TLC. *)
EXTENDS TrDb, TLC

CONSTANTS t1, t2, t3

\* Two difficulties of one mapset rated with the same mods, and a map of
\* another creator that has the same title and difficulty names.
MCKey ==
  [t \in {t1, t2, t3} |->
     CASE t = t1 -> [creator |-> "mapper", title |-> "song", diff |-> "oni",  mods |-> "HR"]
       [] t = t2 -> [creator |-> "mapper", title |-> "song", diff |-> "muzu", mods |-> "HR"]
       [] t = t3 -> [creator |-> "other",  title |-> "song", diff |-> "oni",  mods |-> "NM"]]

MCTwoDiffs == [t \in {t1, t2} |-> MCKey[t]]

\* One difficulty rated twice, with different mods.
MCTwoMods == [t \in {t1, t2} |->
  [creator |-> "mapper", title |-> "song", diff |-> "oni", mods |-> IF t = t1 THEN "HR" ELSE "NM"]]

\* The same difficulty named twice on the command line, with the same mods.
MCSameKey == [t \in {t1, t2} |->
  [creator |-> "mapper", title |-> "song", diff |-> "oni", mods |-> "HR"]]

\* Three tasks that rate it, which are interchangeable.
MCSameKeys == [t \in {t1, t2, t3} |-> MCSameKey[t1]]
MCSymmetry == Permutations({t1, t2, t3})

MCName == {"mapper", "other", "song", "oni", "muzu", "HR", "NM"}

\* A database whose tables and columns are the ones tr_db.c names.
MatchingSchema == {"tr_user", "tr_mod", "tr_mapset", "tr_diff", "tr_score"}

\* The schema of sql/taiko_rank.sql: no table tr_mapset (it is called
\* tr_beatmap_set there) and no column mapset_ID in tr_diff (bms_ID).
ShippedSchema == {"tr_user", "tr_mod", "tr_score"}
=============================================================================
