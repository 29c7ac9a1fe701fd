----------------------------- MODULE MCTrScore -----------------------------
(***************************************************************************)
(* The scores, the skills and the reading meshes for TLC.  The score rates *)
(* its maps with MCRating, and the skills see them with MCSeen, so that    *)
(* each of the three is explored alone.                                    *)
(***************************************************************************)
EXTENDS TrScore, Skills, Reading

VARIABLE which   \* "score", "skills" or "reading"

\* final_cst.yaml: 0 at distance 0, 1 from some distance on.
MCScale == 3
MCInfluence == [d \in 0..12 |-> IF d < MCScale THEN d ELSE MCScale]

\* A rating with the features the code's has: an object is harder when objects
\* played before it are near, harder still with the same hand or the same
\* color; and it is damped by each object around that is GOOD or MISS, down to
\* nothing by one at the same time.
MCReach == 3
MCRating(objs, k) ==
  LET near == {j \in 1..k - 1 : objs[j].ps # "MISS" /\ Distance(objs, j, k) < MCReach}
      bad  == {j \in DOMAIN objs : objs[j].ps \in {"GOOD", "MISS"} /\ k \in Influenced(objs, j)}
      damped(j, star) == (star * Coeff(objs, j, k)) \div MCScale
  IN FoldSet(damped,
             81 * (2 + Cardinality(near)
                   + Cardinality({j \in near : objs[j].hand \cap objs[k].hand # {}})
                   + Cardinality({j \in near : Color(objs[j]) = Color(objs[k])})),
             bad)

N(kind, off) == [kind |-> kind, off |-> off]

MCMaps ==
  { <<N("d", 0), N("k", 1), N("d", 2), N("D", 5)>>,
    <<N("r", 0), N("d", 1), N("d", 1), N("k", 3)>>,       \* two notes at once
    <<N("s", 0), N("r", 2), N("K", 4), N("d", 5), N("d", 6)>>,
    <<N("r", 0)>>,                                        \* nothing to downgrade
    <<N("d", 0), N("r", 1), N("k", 2), N("k", 4), N("d", 5), N("k", 9)>> }

MCConf == [input |-> 1, acc |-> 100, good |-> 0, miss |-> 0, step |-> 0,
           quick |-> 1, method |-> 0, flat |-> 0, no_bonus |-> 0]

\* Every number of good and miss up to more than the maps have, with each step.
MCGgmConfs ==
  {[MCConf EXCEPT !.good = g, !.miss = m, !.step = s, !.quick = q, !.no_bonus = b] :
     g \in -1..3, m \in -1..6, s \in {-1, 0, 1, 2}, q \in {0, 1}, b \in {0, 1}}

\* Every accuracy at which a map of up to 6 objects may change, and around.
MCAccConfs ==
  {[MCConf EXCEPT !.input = 0, !.acc = a, !.step = s, !.quick = q] :
     a \in {-5, 0, 8, 9, 12, 13, 25, 33, 34, 50, 62, 63, 75, 83, 84, 91, 92, 99, 100, 120},
     s \in {-1, 0, 9, 30}, q \in {0, 1}}

MCInfluenceConfs ==
  {[MCConf EXCEPT !.good = g, !.miss = m, !.step = s, !.quick = q, !.method = 1, !.flat = f] :
     g \in {0, 2}, m \in {0, 2, 6}, s \in {-1, 0, 2}, q \in {0, 1}, f \in {0, 1}}

MCConfs == MCGgmConfs \cup MCAccConfs \cup MCInfluenceConfs

MCBonusConfs == {[MCConf EXCEPT !.no_bonus = 1]}
-----------------------------------------------------------------------------
SK(kind, off, end, ps, hand) ==
  [kind |-> kind, off |-> off, end |-> end, bpm |-> 90, app |-> 0, dis |-> 0, ps |-> ps, hand |-> hand,
   length |-> 0, rest |-> 0, raw |-> 0, color |-> 0, ddkk |-> 0, kddk |-> 0, proba |-> 0,
   type |-> "", patterns |-> <<>>, pattern_freq |-> 0, hit_window |-> 0, spacing |-> 0, slow |-> 0,
   seen |-> 0, density_star |-> 0, reading_star |-> 0, pattern_star |-> 0, accuracy_star |-> 0,
   final_star |-> 0]
SkHit(kind, off, ps) == SK(kind, off, off, ps, {})
SkMap(mods, objs) ==
  [mods |-> mods, od |-> 60, mult |-> 3, objs |-> objs, stars |-> [s \in Stars |-> 0]]

\* A stream with a gap, a chord, a roll and a spinner, an object begun during a
\* roll, long objects that give no density after hits that give some, and hits whose rests are nearly equal; each with objects missed, and
\* once as a score has left it, with the hands of an earlier rating.
MCSkillObjs ==
  { <<SkHit("d", 6, p), SkHit("k", 9, q), SkHit("k", 12, r), SkHit("d", 21, "GREAT"), SkHit("D", 24, "GREAT")>> :
      p, q, r \in {"GREAT", "GOOD", "MISS"} }
  \cup
  { <<SkHit("d", 3, "GREAT"), SK("r", 6, 9, "BONUS", {}), SkHit("d", 12, p), SK("s", 12, 18, "BONUS", {}),
      SkHit("k", 21, "GREAT"), SkHit("K", 36, "GREAT")>> : p \in {"GREAT", "MISS"} }
  \cup
  { <<SkHit("d", 0, "GREAT"), SK("r", 3, 9, "BONUS", {}), SkHit("d", 6, "GREAT"), SkHit("k", 12, "GREAT")>>,
    <<SkHit("d", 0, "GREAT"), SK("r", 1, 15, "BONUS", {}), SkHit("d", 16, "GREAT"), SkHit("k", 18, "GREAT")>>,
    <<SkHit("d", 0, "GREAT"), SkHit("d", 1, "MISS"), SK("s", 1, 15, "BONUS", {}), SkHit("d", 16, "GOOD"), SkHit("d", 17, "GREAT")>>,
    <<SkHit("k", 0, "GREAT"), SkHit("k", 3, "GREAT"), SkHit("k", 7, "GOOD"), SkHit("k", 12, "GREAT")>>,
    <<SK("d", 0, 0, "GREAT", {"RH"}), SK("d", 1, 1, "MISS", {"LH"}), SK("d", 2, 2, "GREAT", {"RH"})>>,
    <<SkHit("s", 5, "BONUS")>> }

MCSkillMaps ==
  {SkMap(mods, objs) : mods \in {{}, {"HR", "DT", "FL"}}, objs \in MCSkillObjs}
  \cup
  {SkMap(mods, <<SkHit("d", 0, "GREAT"), SkHit("d", 6, "MISS"), SkHit("d", 9, "GREAT"), SkHit("k", 12, "GREAT")>>) :
     mods \in {{"EZ", "HT", "HD"}, {"HR", "HD"}, {"HD", "FL"}}}

MCCst ==
  [vect_density |-> <<<<0, 19>>, <<2, 19>>, <<6, 11>>, <<17, 0>>, <<99, 0>>>>,
   vect_density_scale |-> <<<<0, 1>>, <<400, 5>>, <<9000, 6>>>>,
   vect_singletap |-> <<<<0, 0>>, <<2, 0>>, <<5, 3>>, <<99, 3>>>>,
   vect_pattern_influence |-> <<<<0, 4>>, <<6, 2>>, <<12, 0>>, <<99, 0>>>>,
   vect_pattern_freq |-> <<<<0, 0>>, <<18, 18>>>>,
   vect_pattern_scale |-> <<<<0, 4>>, <<18, 1>>>>,
   vect_spacing_influence |-> <<<<0, 10>>, <<10, 0>>, <<99, 0>>>>,
   vect_spacing_frequency |-> <<<<0, 105>>, <<100, 100>>>>,
   vect_slow |-> <<<<0, 20>>, <<50, 12>>, <<100, 10>>, <<9000, 10>>>>,
   vect_hit_window |-> <<<<0, 40>>, <<150, 10>>, <<9000, 10>>>>,
   vect_accuracy_scale |-> <<<<10000, 1>>, <<120000, 12>>>>,
   vect_seen |-> <<<<0, 18>>, <<400, 10>>, <<9000, 10>>>>,
   vect_reading_scale |-> <<<<10, 10>>, <<30, 30>>>>,
   vect_influence |-> <<<<0, 0>>, <<4, 2>>, <<99, 2>>>>,
   vect_final_scale |-> <<<<0, 0>>, <<9000, 900>>>>,
   vect_weight |-> <<<<0, 10>>, <<3, 2>>, <<6, 0>>, <<99, 0>>>>,
   density_normal |-> 3, density_big |-> 3, density_bonus |-> 1, density_length |-> 2,
   star_color |-> 3, star_raw |-> 2, star_dk |-> 1, star_pattern |-> 1, star_seen |-> 1,
   proba_start |-> 0, proba_end |-> 3, max_pattern_length |-> 3,
   max_rest |-> 40, time_equal_ms |-> 2, slow_one |-> 10, influence_one |-> 2,
   fl_start_app2 |-> 2, fl_start_app3 |-> 3]
MCSeen(objs, i) == (objs[i].app - objs[i].dis) \div 2
-----------------------------------------------------------------------------
RdObj(off, len, bpm, big, ps, view) ==
  [off |-> off, end |-> off + len, bpm |-> bpm, big |-> big, ps |-> ps, app |-> view[1], dis |-> view[2]]
MCReadMaps ==
  {<<RdObj(100000, l1, b1, big, ps, view), RdObj(100000 + l1 + gap, l2, b2, ~big, "GREAT", view)>> :
     l1 \in {0, 700}, l2 \in {0, 3000}, b1 \in {150, 60}, b2 \in {150, 151, 300, 10}, big \in BOOLEAN,
     ps \in {"GREAT", "MISS"}, gap \in {10, 200, 1500},
     view \in {<<1000, 0>>, <<1000, 600>>, <<1000, 800>>, <<350, 0>>, <<350, 600>>}}
MCInterest == <<<<0, 0>>, <<726, 100000>>, <<1452, 10000>>, <<72600, 0>>, <<3600000, 0>>>>
-----------------------------------------------------------------------------
MCVars == <<vars, skillVars, readVars, which>>

\* The two that are not explored stay at one of their initial states.
MCInit ==
  /\ which \in {"score", "skills", "reading"}
  /\ which # "score" => conf = MCConf /\ origin = Load(<<N("r", 0)>>)
  /\ which # "skills" => input = CHOOSE m \in SkillMaps : TRUE
  /\ which # "reading" => screen = CHOOSE m \in ReadMaps : TRUE
  /\ Init /\ SkillsInit /\ ReadingInit

ScoreNext == which = "score" /\ Next /\ UNCHANGED <<skillVars, readVars, which>>
RatingNext == which = "skills" /\ SkillsNext /\ UNCHANGED <<vars, readVars, which>>
MeshNext == which = "reading" /\ ReadingNext /\ UNCHANGED <<vars, skillVars, which>>

\* A map is rated once, and its meshes are made once.
Finished ==
  /\ \/ which = "skills" /\ phase = "rated"
     \/ which = "reading" /\ readPc = "done"
  /\ UNCHANGED MCVars

MCNext == ScoreNext \/ RatingNext \/ MeshNext \/ Finished
MCSpec == MCInit /\ [][MCNext]_MCVars
=============================================================================
