------------------------------- MODULE Skills -------------------------------
(***************************************************************************)
(* The rating of a map (src/taikorank/compute_stars.c and the files of the *)
(* four skills): the mods, the treatment of the objects, the tasks of      *)
(* density, reading, pattern and accuracy, which run at once and each      *)
(* write their own fields of the same objects pass by pass, and the final  *)
(* stars.                                                                  *)
(*                                                                         *)
(* Numbers are in fixed point, rounded down.  The functions read from the  *)
(* YAML files are in Cst, under the names they have there, as sequences of *)
(* points <<x, y>>; so are their other constants.  What is seen of an      *)
(* object (reading.c, see the module Reading) is in the constant Seen.     *)
(***************************************************************************)
EXTENDS LinearFun
LOCAL INSTANCE SequencesExt

CONSTANTS
  SkillMaps,       \* maps: [mods, od (in tenths), objs]
  Cst,             \* the constants of the YAML files
  Seen(_, _),      \* Seen(objs, i): the volume of the mesh of an object
  PatternUnit      \* a multiple of every length of a pattern

Functions == {"vect_density", "vect_density_scale", "vect_singletap", "vect_pattern_influence",
              "vect_pattern_freq", "vect_pattern_scale", "vect_spacing_influence",
              "vect_spacing_frequency", "vect_slow", "vect_hit_window", "vect_accuracy_scale",
              "vect_seen", "vect_reading_scale", "vect_influence", "vect_final_scale", "vect_weight"}

ASSUME SkillsAssumption ==
  /\ \A f \in Functions :
       /\ Len(Cst[f]) > 1
       /\ \A i \in 1..(Len(Cst[f]) - 1) : Cst[f][i][1] < Cst[f][i + 1][1]
  /\ \A n \in 1..Cst.max_pattern_length : PatternUnit % n = 0

VARIABLES
  input,    \* the map as it is given
  rated,    \* the map being rated
  passes,   \* the passes each task has done
  phase     \* where trm_compute_stars is

skillVars == <<input, rated, passes, phase>>

-----------------------------------------------------------------------------
(***************************************************************************)
(* Mods (tr_mods.c).  HR is applied alone, or together with HD, when its   *)
(* effect on the overall difficulty is left out.                           *)
(***************************************************************************)
Has(m, mod) == mod \in m.mods
Bonus(o) == o.kind \in {"r", "s"}
Big(o) == o.kind \in {"D", "K"}
Each(m, F(_)) == [m EXCEPT !.objs = [i \in DOMAIN m.objs |-> F(m.objs[i])]]
Faster(o, num, den) == [o EXCEPT !.bpm = (@ * num) \div den]
Stretched(o, num, den) == [o EXCEPT !.off = Trunc(@ * num, den), !.end = Trunc(@ * num, den)]

\* The played hits since the last MISS, up to object i.
ComboAt(objs, i) ==
  Cardinality({k \in 1..i : /\ objs[k].ps \in {"GREAT", "GOOD"}
                            /\ \A j \in k..i : objs[j].ps # "MISS"})

ApplyFL(m) ==
  [m EXCEPT !.objs = [i \in DOMAIN @ |->
     [@[i] EXCEPT !.app = IF ComboAt(m.objs, i) >= Cst.fl_start_app3 THEN 350
                          ELSE IF ComboAt(m.objs, i) >= Cst.fl_start_app2 THEN 400 ELSE 500]]]
ApplyNM(m) == LET F(o) == [o EXCEPT !.app = 1000, !.dis = 0] IN Each([m EXCEPT !.mult = 3], F)
ApplyDifficulty(m) ==
  LET hr(o) == Faster(o, 4, 3)
      ez(o) == Faster(o, 2, 3)
  IN IF Has(m, "HR") /\ ~Has(m, "HD")
     THEN Each([m EXCEPT !.od = Min({100, (@ * 14) \div 10})], hr)
     ELSE IF Has(m, "EZ") THEN Each([m EXCEPT !.od = @ \div 2], ez) ELSE m
ApplySpeed(m) ==
  LET dt(o) == Stretched(Faster(o, 3, 2), 2, 3)
      ht(o) == Stretched(Faster(o, 2, 3), 3, 2)
  IN IF Has(m, "DT") THEN Each([m EXCEPT !.mult = 2], dt)
     ELSE IF Has(m, "HT") THEN Each([m EXCEPT !.mult = 4], ht) ELSE m
ApplyHidden(m) ==
  LET hd(o) == [o EXCEPT !.app = IF Has(m, "FL") THEN @ ELSE 1000, !.dis = IF Bonus(o) THEN @ ELSE 600]
      hdhr(o) == [Faster(o, 4, 3) EXCEPT !.dis = IF Bonus(o) THEN @ ELSE 800]
  IN IF ~Has(m, "HD") THEN m ELSE IF Has(m, "HR") THEN Each(m, hdhr) ELSE Each(m, hd)

ApplyMods(m) ==
  LET n == ApplyHidden(ApplySpeed(ApplyDifficulty(ApplyNM(m))))
  IN IF Has(m, "FL") THEN ApplyFL(n) ELSE n

-----------------------------------------------------------------------------
(***************************************************************************)
(* Treatment (treatment.c).                                                *)
(***************************************************************************)
MAX_REST == Cst.max_rest
TypeOf(o) == IF o.kind \in {"d", "D"} THEN "d" ELSE IF o.kind \in {"k", "K"} THEN "k" ELSE ""

HandsOf(objs, i) ==
  LET o == objs[i]
      plain == {j \in 1..i : ~Big(objs[j]) /\ TypeOf(objs[j]) = TypeOf(o) /\ objs[j].ps # "MISS"}
  IN IF o.ps = "MISS" \/ o.kind = "r" THEN {}
     ELSE IF Big(o) \/ o.kind = "s" THEN {"RH", "LH"}
     ELSE IF Cardinality(plain) % 2 = 1 THEN {"RH"} ELSE {"LH"}

RestOf(objs, i) ==
  IF i = 1 \/ objs[i].ps = "MISS" \/ objs[i - 1].ps = "MISS" THEN MAX_REST
  ELSE objs[i].off - objs[i - 1].end

Treatment(m) ==
  [m EXCEPT !.objs = [i \in DOMAIN @ |->
     [@[i] EXCEPT !.length = m.objs[i].end - m.objs[i].off,
                  !.hand = @ \cup HandsOf(m.objs, i),
                  !.rest = RestOf(m.objs, i)]]]

-----------------------------------------------------------------------------
(***************************************************************************)
(* Density (density.c).                                                    *)
(***************************************************************************)
SameHand(o1, o2) == o1.hand \cap o2.hand # {}
SameType(o1, o2) ==
  IF "s" \in {o1.kind, o2.kind} THEN TRUE
  ELSE "r" \notin {o1.kind, o2.kind} /\ TypeOf(o1) = TypeOf(o2)
Always(o1, o2) == TRUE
SameKey(o1, o2) == SameType(o1, o2) /\ SameHand(o1, o2)

DensityCoeff(o) ==
  IF Bonus(o) THEN Cst.density_bonus ELSE IF Big(o) THEN Cst.density_big ELSE Cst.density_normal
Density(o1, o2) ==
  DensityCoeff(o1)
    * LfEval(Cst.vect_density, o2.end - o1.off + (o1.length * Cst.density_length) \div 10)

\* TRO_SET_DENSITY_TYPE, over the objects that passed the test: backwards, up to
\* the first one that gives none.  (Mutant UpToALongOne: up to the first one that
\* has a length.)
UpToALongOne(objs, i, tested) ==
  LET gives == {j \in tested : objs[j].ps # "MISS"}
      counted == {j \in gives : \A k \in gives : k >= j => objs[k].length = 0}
  IN IF i = 1 \/ objs[i].ps = "MISS" THEN 0
     ELSE DensityCoeff(objs[i]) * MapThenSumSet(LAMBDA j : Density(objs[j], objs[i]), counted)
DensitySum(objs, i, tested) ==
  LET gives == {j \in tested : objs[j].ps # "MISS"}
      counted == {j \in gives : \A k \in gives : k >= j => Density(objs[k], objs[i]) # 0}
  IN IF i = 1 \/ objs[i].ps = "MISS" THEN 0
     ELSE DensityCoeff(objs[i]) * MapThenSumSet(LAMBDA j : Density(objs[j], objs[i]), counted)

DensityPass(objs, n) ==
  LET before(i, Test(_, _)) == {j \in 1..(i - 1) : Test(objs[j], objs[i])}
  IN [i \in DOMAIN objs |->
     CASE n = 1 -> [objs[i] EXCEPT !.raw = DensitySum(objs, i, before(i, Always))]
       [] n = 2 -> [objs[i] EXCEPT !.color = DensitySum(objs, i, before(i, SameKey))]
       [] n = 3 -> [objs[i] EXCEPT !.ddkk = DensitySum(objs, i, before(i, SameType))]
       [] n = 4 -> [objs[i] EXCEPT !.kddk = DensitySum(objs, i, before(i, SameHand))]
       [] n = 5 -> [objs[i] EXCEPT !.density_star =
                      LfEval(Cst.vect_density_scale,
                             Cst.star_color * objs[i].color + Cst.star_raw * objs[i].raw
                               + Cst.star_dk * Min({objs[i].ddkk, objs[i].kddk}))]]

-----------------------------------------------------------------------------
(***************************************************************************)
(* Patterns (pattern.c, freq_counter.c).  A pattern is a word that is      *)
(* played with the two hands, from an object to the first one that is more *)
(* likely to be played with a single one than the probability considered;  *)
(* its weight is in 1/PatternUnit.                                         *)
(***************************************************************************)
PROBA_START == Cst.proba_start
PROBA_END == Cst.proba_end
Max_Length == Cst.max_pattern_length

PatternType(o) == IF Bonus(o) \/ o.ps = "MISS" THEN "" ELSE TypeOf(o)

\* tro_extract_pattern of the object i at a probability.
Extract(objs, i, proba) ==
  LET last == Min({i + Max_Length - 1, Len(objs)})
      more(k) == k + 1 <= Len(objs) /\ objs[k + 1].proba > proba
      stop == Min({last} \cup {k \in i..last : objs[k].type = "" \/ more(k)})
      end == IF objs[stop].type # "" /\ more(stop) THEN objs[stop + 1].proba ELSE PROBA_END
      played == IF objs[stop].type = "" THEN stop - 1 ELSE stop
  IN [s |-> [n \in 1..(played - i + 1) |-> objs[i + n - 1].type], start |-> proba, end |-> end]

\* tro_add_pattern: the beginnings of the pattern, then itself, share its weight.
\* A weight of an empty one (a division by 0) is never read.
\* (Mutant WholeLast: the last one keeps all of it.)
WholeLast(p) ==
  LET n == Len(p.s)
  IN IF n = 0 THEN <<[s |-> <<>>, w |-> 0]>>
     ELSE [k \in 1..n |-> [s |-> SubSeq(p.s, 1, k),
                           w |-> ((p.end - p.start) * PatternUnit) \div (IF k = n THEN 1 ELSE n)]]
WithSubs(p) ==
  LET n == Len(p.s)
  IN IF n = 0 THEN <<[s |-> <<>>, w |-> 0]>>
     ELSE [k \in 1..n |-> [s |-> SubSeq(p.s, 1, k),
                           w |-> ((p.end - p.start) * PatternUnit) \div n]]

\* tro_set_patterns.
Patterns(objs, i) ==
  LET from[proba \in PROBA_START..Infinity] ==
        IF proba >= PROBA_END THEN <<>>
        ELSE LET p == Extract(objs, i, proba) IN WithSubs(p) \o from[p.end]
  IN from[PROBA_START]

\* A counter (freq_counter.c): cnt_add of each [from, key, val], and
\* cnt_get_nb_inherit, the sum over some of the keys.
CntAdd(adds) ==
  [key \in {a.key : a \in adds} |-> MapThenSumSet(LAMBDA a : a.val, {a \in adds : a.key = key})]
CntNb(c, keys) == MapThenSumSet(LAMBDA key : c[key], keys \cap DOMAIN c)

\* tro_pattern_new_counter: the weights of each word in the patterns of the
\* objects up to i, times their influence, up to the first that has none.
WordCounter(objs, i) ==
  LET influ(j) == LfEval(Cst.vect_pattern_influence, objs[i].off - objs[j].off)
      near == {j \in 1..i : \A k \in j..i : influ(k) # 0}
      words(j) == {n \in DOMAIN objs[j].patterns : objs[j].patterns[n].s # <<>>}
  IN CntAdd(UNION {{[from |-> <<j, n>>, key |-> objs[j].patterns[n].s,
                     val |-> influ(j) * objs[j].patterns[n].w] : n \in words(j)} : j \in near})

\* tro_pattern_freq: how frequent each word is among those of its length.  With an
\* infinite weight it is infinite or not a number.
PatternFreq(objs, i) ==
  LET c == WordCounter(objs, i)
      total(s) == CntNb(c, {t \in DOMAIN c : Len(t) = Len(s)})
      ps == objs[i].patterns
      counted == {n \in DOMAIN ps : ps[n].s \in DOMAIN c /\ total(ps[n].s) # 0}
  IN IF \E n \in counted : total(ps[n].s) >= Infinity THEN Infinity
     ELSE MapThenSumSet(LAMBDA n : (CntNb(c, {ps[n].s}) * ps[n].w) \div total(ps[n].s), counted)

PatternPass(objs, n) ==
  [i \in DOMAIN objs |->
     CASE n = 1 -> [objs[i] EXCEPT !.proba = LfEval(Cst.vect_singletap, objs[i].rest)]
       [] n = 2 -> [objs[i] EXCEPT !.type = PatternType(objs[i])]
       [] n = 3 -> [objs[i] EXCEPT !.patterns = Patterns(objs, i)]
       [] n = 4 -> [objs[i] EXCEPT !.pattern_freq =
                      LfEval(Cst.vect_pattern_freq, PatternFreq(objs, i))]
       [] n = 5 -> [objs[i] EXCEPT !.patterns = <<>>,
                                   !.pattern_star = LfEval(Cst.vect_pattern_scale,
                                                           Cst.star_pattern * objs[i].pattern_freq)]]

-----------------------------------------------------------------------------
(***************************************************************************)
(* Accuracy (accuracy.c, spacing_count.c) and reading.                     *)
(***************************************************************************)
TIME_EQUAL_MS == Cst.time_equal_ms
Near(x, y) == x - y < TIME_EQUAL_MS /\ y - x < TIME_EQUAL_MS

\* spc_add, spc_get_nb: the first spacing of the list that is near.
SpcAdd(l, rest, val) ==
  LET near == {k \in DOMAIN l : Near(l[k].rest, rest)}
  IN IF near = {} THEN <<[rest |-> rest, nb |-> val]>> \o l ELSE [l EXCEPT ![Min(near)].nb = @ + val]
SpcNb(l, rest) ==
  LET near == {k \in DOMAIN l : Near(l[k].rest, rest)} IN IF near = {} THEN 0 ELSE l[Min(near)].nb
SpcTotal(l) == MapThenSumSet(LAMBDA k : l[k].nb, DOMAIN l)

\* tro_spacing_init.
SpacingCount(objs, i) ==
  LET influ(j) == LfEval(Cst.vect_spacing_influence, objs[i].off - objs[j].off)
      played == {j \in 1..i : objs[j].ps # "MISS"}
      near == {j \in played : \A k \in played : k >= j => influ(k) # 0}
      from[j \in 1..(i + 1)] ==
        IF j > i THEN <<>>
        ELSE IF j \in near THEN SpcAdd(from[j + 1], objs[j].rest, influ(j)) ELSE from[j + 1]
  IN from[1]

\* tro_spacing, in hundredths.
SpacingFreq(objs, i) ==
  LET spc == SpacingCount(objs, i)
  IN IF SpcTotal(spc) = 0 THEN 100 ELSE (100 * SpcNb(spc, objs[i].rest)) \div SpcTotal(spc)

\* trm_get_ggm_val.
HitWindow(m, o) ==
  LET ms == IF o.ps = "GREAT" THEN 480 - 3 * m.od
            ELSE IF o.ps = "GOOD" THEN 1080 - 6 * m.od ELSE 5000
  IN LfEval(Cst.vect_hit_window, (ms * m.mult) \div 30)

Times(x, y) == IF x >= Infinity \/ y >= Infinity THEN Infinity ELSE x * y

AccuracyPass(m, n) ==
  LET objs == m.objs IN
  [i \in DOMAIN objs |->
     CASE n = 1 -> [objs[i] EXCEPT !.hit_window = HitWindow(m, objs[i])]
       [] n = 2 -> [objs[i] EXCEPT !.spacing = LfEval(Cst.vect_spacing_frequency,
                                                      SpacingFreq(objs, i))]
       [] n = 3 -> [objs[i] EXCEPT !.slow = IF objs[i].ps = "MISS" THEN Cst.slow_one
                                            ELSE LfEval(Cst.vect_slow, objs[i].bpm)]
       [] n = 4 -> [objs[i] EXCEPT !.accuracy_star =
                      LfEval(Cst.vect_accuracy_scale,
                             Times(objs[i].slow, Times(objs[i].spacing, objs[i].hit_window)))]]

\* trm_compute_reading: the passes that prepare the mesh, then what is seen.
ReadingPass(objs, n) ==
  [i \in DOMAIN objs |->
     CASE n = 1 -> [objs[i] EXCEPT !.seen =
                      LfEval(Cst.vect_seen, IF objs[i].ps = "MISS" \/ objs[i].app <= objs[i].dis
                                            THEN 0 ELSE Seen(objs, i))]
       [] n = 2 -> [objs[i] EXCEPT !.reading_star =
                      LfEval(Cst.vect_reading_scale, Cst.star_seen * objs[i].seen)]]

-----------------------------------------------------------------------------
(***************************************************************************)
(* Final stars (final_star.c, tr_sort.c).                                  *)
(***************************************************************************)
Stars == {"density_star", "reading_star", "pattern_star", "accuracy_star", "final_star"}
Gap(o1, o2) == IF o1.off < o2.off THEN o2.off - o1.off ELSE o1.off - o2.off
InfluenceOf(objs, i, j) == LfEval(Cst.vect_influence, Gap(objs[i], objs[j]))
Scaled(x, coeff) == IF x >= Infinity THEN Infinity ELSE (x * coeff) \div Cst.influence_one

\* tro_set_influence: an object that is GOOD or MISS damps the stars around it, on
\* both sides up to the first object that it leaves alone.
Reached(objs, i) ==
  {j \in DOMAIN objs : \A k \in (IF j <= i THEN j..i ELSE (i + 1)..j) :
                         InfluenceOf(objs, i, k) # Cst.influence_one}
Dampers(objs, j) == {i \in DOMAIN objs : objs[i].ps \notin {"GREAT", "BONUS"} /\ j \in Reached(objs, i)}
DampedBy(objs, j, x, by) ==
  LET after[S \in SUBSET by] ==
        IF S = {} THEN x ELSE Scaled(after[S \ {Max(S)}], InfluenceOf(objs, Max(S), j))
  IN after[by]
SetInfluence(objs) ==
  [j \in DOMAIN objs |->
     [f \in DOMAIN objs[j] |->
        IF f \in Stars THEN DampedBy(objs, j, objs[j][f], Dampers(objs, j)) ELSE objs[j][f]]]

\* tro_set_final_star, with the powers left out.
SetFinalStar(o) ==
  IF o.ps # "GREAT" THEN [f \in DOMAIN o |-> IF f \in Stars THEN 0 ELSE o[f]]
  ELSE [o EXCEPT !.final_star =
          LfEval(Cst.vect_final_scale, Times(Times(o.density_star, o.reading_star),
                                             Times(o.pattern_star, o.accuracy_star)))]

\* trm_weight_sum_*: the objects sorted by a star, the highest one with weight 1.
WeightSum(objs, star) ==
  LET rank(i) == Cardinality({j \in DOMAIN objs : objs[j][star] > objs[i][star]
                                                  \/ (objs[j][star] = objs[i][star] /\ j >= i)})
  IN IF \E i \in DOMAIN objs : objs[i][star] >= Infinity THEN Infinity
     ELSE MapThenSumSet(LAMBDA i : LfEval(Cst.vect_weight, rank(i)) * objs[i][star], DOMAIN objs)

FinalStar(m) ==
  LET damped == SetInfluence(m.objs)
      objs == [i \in DOMAIN damped |-> SetFinalStar(damped[i])]
  IN [m EXCEPT !.objs = objs, !.stars = [s \in Stars |-> WeightSum(objs, s)]]

-----------------------------------------------------------------------------
(***************************************************************************)
(* trm_compute_stars.                                                      *)
(***************************************************************************)
SkillTask == {"density", "reading", "pattern", "accuracy"}
LastPass == [density |-> 5, reading |-> 2, pattern |-> 5, accuracy |-> 4]

Pass(m, t, n) ==
  [m EXCEPT !.objs =
     CASE t = "density" -> DensityPass(m.objs, n)
       [] t = "pattern" -> PatternPass(m.objs, n)
       [] t = "accuracy" -> AccuracyPass(m, n)
       [] t = "reading" -> ReadingPass(m.objs, n)]

\* Mods, played states that a score may have changed since, treatment; the tasks
\* are created.
Treated(m) == Treatment(IF Has(m, "FL") THEN ApplyFL(ApplyMods(m)) ELSE ApplyMods(m))
StartTasks ==
  /\ phase = "start"
  /\ rated' = Treated(input)
  /\ phase' = "tasks"
  /\ UNCHANGED <<input, passes>>

\* One pass of one of the tasks over the objects.
DoPass(t) ==
  /\ phase = "tasks" /\ passes[t] < LastPass[t]
  /\ rated' = Pass(rated, t, passes[t] + 1)
  /\ passes' = [passes EXCEPT ![t] = @ + 1]
  /\ UNCHANGED <<input, phase>>

\* What the taskwait waits for.  (Mutant AllButReading.)
AllButReading(p) == \A t \in SkillTask : p[t] = LastPass[t] \/ t = "reading"
AllDone(p) == \A t \in SkillTask : p[t] = LastPass[t]
ComputeFinal ==
  /\ phase = "tasks" /\ AllDone(passes)
  /\ rated' = FinalStar(rated)
  /\ phase' = "rated"
  /\ UNCHANGED <<input, passes>>

SkillsNext == StartTasks \/ (\E t \in SkillTask : DoPass(t)) \/ ComputeFinal

SkillsInit ==
  /\ input \in SkillMaps
  /\ rated = input
  /\ passes = [t \in SkillTask |-> 0]
  /\ phase = "start"

SkillsSpec == SkillsInit /\ [][SkillsNext]_skillVars

-----------------------------------------------------------------------------
(***************************************************************************)
(* Properties.                                                             *)
(***************************************************************************)
Overlaps(objs) == \E i \in 2..Len(objs) : objs[i].off < objs[i - 1].end

\* The patterns of a played object share the whole range of probabilities between
\* them, whatever the rests after it: none of the weight is lost or counted twice
\* when the range is cut at other objects' probabilities and a part among the
\* beginnings of a word (pattern.c:335-374).  Each is played by the objects from
\* this one on, and they fit in the table, whose size is a guess ("taking more
\* space for some special case").
PatternsWhole ==
  phase = "tasks" /\ passes["pattern"] \in {3, 4} /\ ~Overlaps(input.objs) =>
    LET objs == rated.objs IN
    \A i \in DOMAIN objs :
      LET ps == objs[i].patterns IN
      /\ Len(ps) <= (Max_Length + 1) * (Max_Length + 1)
      /\ objs[i].type = "" => ps = <<[s |-> <<>>, w |-> 0]>>
      /\ objs[i].type # "" =>
           /\ MapThenSumSet(LAMBDA n : ps[n].w, DOMAIN ps) = (PROBA_END - PROBA_START) * PatternUnit
           /\ \A n \in DOMAIN ps :
                /\ ps[n].s # <<>>
                /\ \A k \in DOMAIN ps[n].s : objs[i + k - 1].type = ps[n].s[k]

\* The objects played before one that pass a test and that no long one hides.  A long
\* object counts as farther away than it is (DENSITY_LENGTH): it may give no density
\* when one before it would give some, and the walk ends there ("density won't
\* increase").
NotHidden(objs, i, Test(_, _)) ==
  LET before == {j \in 1..(i - 1) : objs[j].ps # "MISS" /\ Test(objs[j], objs[i])}
      hides(k) == objs[k].length > 0 /\ Density(objs[k], objs[i]) = 0
  IN  {j \in before : ~\E k \in before : k > j /\ hides(k)}

\* The stars of a rated map, with the passes of the four tasks in any order, are the
\* ones of their definitions: each density, whose walk stops at the first object that
\* gives none, still counts every object played before that no long one hides; the
\* frequency of a spacing, counted in classes that overlap, has all its equals and
\* none that is not near; only GREAT objects have stars, damped by all that are
\* GOOD or MISS; and no function was evaluated out of its bounds, unless an object
\* begins before the one before it has ended.
StarsAsDefined ==
  phase = "rated" =>
    LET objs == rated.objs
        bad == {k \in DOMAIN objs : objs[k].ps \in {"GOOD", "MISS"}}
        damped(i, x) == DampedBy(objs, i, x, bad)
        influ(j, i) == LfEval(Cst.vect_spacing_influence, objs[i].off - objs[j].off)
        within(i, margin) ==
          MapThenSumSet(LAMBDA j : influ(j, i),
                        {j \in 1..i : /\ objs[j].ps # "MISS"
                                      /\ objs[j].rest - objs[i].rest \in -margin..margin})
        spread(i, margin) == (100 * within(i, margin)) \div within(i, MAX_REST)
        density(i, Test(_, _)) ==
          IF i = 1 \/ objs[i].ps = "MISS" THEN 0
          ELSE DensityCoeff(objs[i])
               * MapThenSumSet(LAMBDA j : Density(objs[j], objs[i]), NotHidden(objs, i, Test))
        densityStar(i) ==
          LfEval(Cst.vect_density_scale,
                 Cst.star_color * density(i, SameKey) + Cst.star_raw * density(i, Always)
                   + Cst.star_dk * Min({density(i, SameType), density(i, SameHand)}))
    IN \A i \in DOMAIN objs :
         LET o == objs[i] IN
         /\ o.raw = density(i, Always) /\ o.color = density(i, SameKey)
         /\ o.ddkk = density(i, SameType) /\ o.kddk = density(i, SameHand)
         /\ o.ps # "GREAT" => \A s \in Stars : o[s] = 0
         /\ o.ps = "GREAT" =>
              /\ o.density_star = damped(i, densityStar(i))
              /\ o.reading_star = damped(i, LfEval(Cst.vect_reading_scale, Cst.star_seen * o.seen))
              /\ o.pattern_star = damped(i, LfEval(Cst.vect_pattern_scale,
                                                   Cst.star_pattern * o.pattern_freq))
              /\ o.accuracy_star = damped(i, LfEval(Cst.vect_accuracy_scale,
                                                    Times(o.slow, Times(o.spacing, o.hit_window))))
              /\ \E freq \in spread(i, 0) .. spread(i, TIME_EQUAL_MS - 1) :
                   o.spacing = LfEval(Cst.vect_spacing_frequency, freq)
         /\ ~Overlaps(input.objs) =>
              \A s \in Stars : o[s] < Infinity /\ rated.stars[s] < Infinity
=============================================================================
