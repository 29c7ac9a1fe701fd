------------------------------ MODULE TrScore ------------------------------
(***************************************************************************)
(* The score of one map (src/taikorank/taiko_ranking_score.c): trs_main    *)
(* takes the number of good and miss it has to reach from the options,     *)
(* then downgrades one GREAT object at a time, the hardest one, until the  *)
(* map has them, and prints the map at the steps the options ask for.      *)
(*                                                                         *)
(* With -quick the map is not rated again after each change: the changed   *)
(* object only damps the stars of its neighbours.  A result is then        *)
(* printed from a rated copy of the map, and the loop goes on with the map *)
(* it had before.                                                          *)
(*                                                                         *)
(* Stars are numbers in fixed point; the four skills an object's star is   *)
(* made of, and its damping in a full rating, are in the constant Rating.  *)
(* An accuracy is compared through its numerator 100 * (2*great + good)    *)
(* over 2*(great + good + miss), so exactly.                               *)
(***************************************************************************)
EXTENDS Integers, Sequences, SequencesExt, FiniteSets, FiniteSetsExt

CONSTANTS
  Maps,        \* the maps: sequences of [kind, off]
  Confs,       \* the local configurations, with accuracies in whole percents
  Rating(_, _),\* Rating(objs, k): the star trm_compute_stars gives a GREAT object
  Influence,   \* Influence[d]: vect_influence at distance d, times Scale
  Scale        \* the fixed point

Kind == {"d", "k", "D", "K", "r", "s"} \* don, kat, big ones, roll, spinner

ASSUME TrScoreAssumption ==
  /\ Scale \in Nat \ {0}
  /\ 0 \in DOMAIN Influence /\ Influence[0] = 0
  /\ \A d \in DOMAIN Influence : Influence[d] \in 0..Scale
  /\ \A m \in Maps : m \in Seq([kind : Kind, off : DOMAIN Influence]) /\ Len(m) > 0
  /\ \A c \in Confs : c.acc \in Int /\ c.good \in Int /\ c.miss \in Int

VARIABLES
  conf,       \* map->conf
  origin,     \* score->origin: the map as it was loaded
  map,        \* score->map
  saved,      \* the map kept while a computed copy is printed
  target,     \* score->great, good and miss
  last_point, \* score->last_point (an accuracy, or a number of good and miss)
  chosen,     \* i in trs_compute: the object changed last
  pc,         \* where trs_main is
  changed,    \* history: the objects changed, in order
  printed     \* history: the maps printed

vars == <<conf, origin, map, saved, target, last_point, chosen, pc, changed, printed>>

-----------------------------------------------------------------------------
(***************************************************************************)
(* Maps and objects (taiko_ranking_map.c, taiko_ranking_object.h).         *)
(***************************************************************************)
IsBonus(o) == o.kind \in {"r", "s"}
IsBig(o) == o.kind \in {"D", "K"}
Color(o) == IF o.kind \in {"d", "D"} THEN "don" ELSE IF IsBonus(o) THEN "none" ELSE "kat"
With(objs, ps) == {k \in DOMAIN objs : objs[k].ps = ps}

Load(m) ==
  LET objs == [k \in DOMAIN m |->
                 [kind |-> m[k].kind, off |-> m[k].off, hand |-> {}, star |-> 0,
                  ps |-> IF IsBonus(m[k]) THEN "BONUS" ELSE "GREAT"]]
  IN [objs |-> objs, great |-> Cardinality(With(objs, "GREAT")), good |-> 0, miss |-> 0,
      combo |-> 0, star |-> 0]

\* trm_flat_big, and trm_remove_bonus, whose loop goes to the next index after
\* it has moved the objects that follow a removed one down.
Flat(objs) ==
  [k \in DOMAIN objs |->
     [objs[k] EXCEPT !.kind = CASE @ = "D" -> "d" [] @ = "K" -> "k" [] OTHER -> @]]
RemoveBonus(objs) ==
  LET after[k \in 0..Len(objs)] ==
        IF k = 0 THEN objs
        ELSE LET left == after[k - 1]
             IN IF k <= Len(left) /\ IsBonus(left[k]) THEN RemoveAt(left, k) ELSE left
  IN after[Len(objs)]

\* trm_add_modifier.
Modified(m) ==
  LET flat == IF conf.flat # 0 THEN Flat(m.objs) ELSE m.objs
  IN [m EXCEPT !.objs = IF conf.no_bonus # 0 THEN RemoveBonus(flat) ELSE flat]

\* trm_set_hand: the plain notes of a color that are played alternate, the
\* right hand first.  The bits of an earlier rating are kept.
NewHand(objs, k) ==
  LET o == objs[k]
      plain == {j \in 1..k : ~IsBig(objs[j]) /\ Color(objs[j]) = Color(o) /\ objs[j].ps # "MISS"}
  IN IF o.ps = "MISS" \/ o.kind = "r" THEN {}
     ELSE IF IsBig(o) \/ o.kind = "s" THEN {"RH", "LH"}
     ELSE IF Cardinality(plain) % 2 = 1 THEN {"RH"} ELSE {"LH"}
SetHand(objs) == [k \in DOMAIN objs |-> [objs[k] EXCEPT !.hand = @ \cup NewHand(objs, k)]]

\* trm_set_combo: the most hits without a MISS in between; a bonus does not count.
Combo(objs) ==
  LET runs == {r \in (DOMAIN objs) \X (DOMAIN objs) :
                 \A k \in r[1]..r[2] : objs[k].ps # "MISS"}
      hits(r) == Cardinality({k \in r[1]..r[2] : objs[k].ps \in {"GREAT", "GOOD"}})
  IN Max({0} \cup {hits(r) : r \in runs})

SumStars(objs) == MapThenSumSet(LAMBDA k : objs[k].star, DOMAIN objs)

\* trm_compute_stars.  The weights of the ranks are not needed: the map's star
\* is the sum of its objects' stars.
Computed(m) ==
  LET hands == SetHand(m.objs)
      objs == [k \in DOMAIN hands |->
                 [hands[k] EXCEPT !.star = IF hands[k].ps = "GREAT" THEN Rating(hands, k) ELSE 0]]
  IN [m EXCEPT !.objs = objs, !.combo = Combo(objs), !.star = SumStars(objs)]

\* tro_set_influence of object i, on both sides up to the first object whose
\* coefficient is 1.
Distance(objs, i, j) ==
  IF objs[i].off < objs[j].off THEN objs[j].off - objs[i].off ELSE objs[i].off - objs[j].off
Coeff(objs, i, j) == Influence[Distance(objs, i, j)]
\* (Mutant OthersInfluenced: the loop to the left begins at the object before.)
OthersInfluenced(objs, i) ==
  {j \in DOMAIN objs \ {i} : \A k \in (IF j < i THEN j..i - 1 ELSE i + 1..j) : Coeff(objs, i, k) # Scale}
Influenced(objs, i) ==
  {j \in DOMAIN objs : \A k \in (IF j <= i THEN j..i ELSE i + 1..j) : Coeff(objs, i, k) # Scale}
Damped(m, i) ==
  LET objs == [j \in DOMAIN m.objs |->
                 IF j \in Influenced(m.objs, i)
                 THEN [m.objs[j] EXCEPT !.star = (@ * Coeff(m.objs, i, j)) \div Scale]
                 ELSE m.objs[j]]
  IN [m EXCEPT !.objs = objs]

\* trm_add_to_ps; a bonus has no counter.  (Mutant FallGood: a case
\* of the switch without its break.)
Counter == [GREAT |-> "great", GOOD |-> "good", MISS |-> "miss"]
FallGood(m, ps, n) ==
  IF ps \notin DOMAIN Counter THEN m
  ELSE [m EXCEPT ![Counter[ps]] = @ + n, !.miss = IF ps = "GREAT" THEN @ ELSE @ + n]
AddToPs(m, ps, n) ==
  IF ps \notin DOMAIN Counter THEN m ELSE [m EXCEPT ![Counter[ps]] = @ + n]

\* trm_set_tro_ps.
SetPs(m, i, ps) ==
  LET objs == [m.objs EXCEPT ![i].ps = ps, ![i].star = IF ps = "GOOD" THEN 0 ELSE @]
  IN [AddToPs(AddToPs(m, m.objs[i].ps, -1), ps, 1) EXCEPT
        !.objs = objs, !.combo = IF ps = "GOOD" THEN @ ELSE Combo(objs)]

\* trm_get_hardest_tro: the last GREAT object with the most stars; the search
\* starts from the first object, whatever it is.
Hardest(m) ==
  LET great == With(m.objs, "GREAT")
      best == {k \in great : \A j \in great \cup {1} : m.objs[k].star >= m.objs[j].star}
  IN IF best = {} THEN 1 ELSE Max(best)

\* trm_get_best_influence_tro: the first GREAT object whose MISS leaves the map
\* the fewest stars; none (-1) when no MISS leaves it fewer than it has.
StarWithout(m, k) == Computed(SetPs(m, k, "MISS")).star
BestInfluence(m) ==
  LET great == With(m.objs, "GREAT")
      better == {k \in great : StarWithout(m, k) < m.star}
      least == {k \in better : \A j \in better : StarWithout(m, k) <= StarWithout(m, j)}
  IN IF least = {} THEN -1 ELSE Min(least)

Choose(m) == IF conf.method = 1 THEN BestInfluence(m) ELSE Hardest(m)

\* compute_acc: the numerator of an accuracy; all are over Total(counts).
Counts(m) == [great |-> m.great, good |-> m.good, miss |-> m.miss]
Acc(c) == 100 * (2 * c.great + c.good)
Total(c) == 2 * (c.great + c.good + c.miss)

-----------------------------------------------------------------------------
(***************************************************************************)
(* trs_main.                                                               *)
(***************************************************************************)
Clamp(n, max) == IF n < 0 THEN 0 ELSE IF n > max THEN max ELSE n

\* trs_new and the modifications; the starting point of trs_prepare.
Start ==
  /\ pc = "start"
  /\ map' = Modified(origin)
  /\ IF conf.input = 0
     THEN /\ target' = Counts(origin)
          /\ last_point' = 100 * Total(Counts(origin))
          /\ pc' = "prepare_acc"
     ELSE /\ LET good == IF conf.good < 0 THEN 0 ELSE conf.good
                 miss == IF conf.miss < 0 THEN 0 ELSE conf.miss
             IN target' = [great |-> origin.great, good |-> good, miss |-> miss]
          /\ last_point' = origin.good + origin.miss
          /\ pc' = "prepare_ggm"
  /\ UNCHANGED <<conf, origin, saved, chosen, changed, printed>>

\* What the loop of trs_prepare_ggm removes.  (Mutant MissRemovedFirst.)
MissRemovedFirst(t) == IF t.miss > 0 THEN [t EXCEPT !.miss = @ - 1] ELSE [t EXCEPT !.good = @ - 1]
OneRemoved(t) == IF t.good > 0 THEN [t EXCEPT !.good = @ - 1] ELSE [t EXCEPT !.miss = @ - 1]

\* One turn of the loop of trs_prepare_ggm, or its end.
PrepareGgm ==
  /\ pc = "prepare_ggm"
  /\ IF target.good + target.miss > origin.great
     THEN /\ target' = OneRemoved(target)
          /\ UNCHANGED pc
     ELSE /\ target' = [target EXCEPT !.great = origin.great - target.good - target.miss]
          /\ pc' = "first"
  /\ UNCHANGED <<conf, origin, map, saved, last_point, chosen, changed, printed>>

\* What the loop of trs_prepare_acc does with one GREAT.  (Mutant LowerStrictly:
\* a GOOD is kept only when it gets below the accuracy.)
OneGood(t) == [t EXCEPT !.great = @ - 1, !.good = @ + 1]
OneMiss(t) == [t EXCEPT !.great = @ - 1, !.miss = @ + 1]
LowerStrictly(t, acc) == IF Acc(OneGood(t)) < acc THEN OneGood(t) ELSE OneMiss(t)
Lowered(t, acc) == IF Acc(OneGood(t)) <= acc THEN OneGood(t) ELSE OneMiss(t)

\* One turn of the loop of trs_prepare_acc, or its end.
PrepareAcc ==
  LET acc == Clamp(conf.acc, 100) * Total(target) IN
  /\ pc = "prepare_acc"
  /\ IF Acc(target) > acc
     THEN /\ target' = Lowered(target, acc)
          /\ UNCHANGED pc
     ELSE /\ pc' = "first"
          /\ UNCHANGED target
  /\ UNCHANGED <<conf, origin, map, saved, last_point, chosen, changed, printed>>

-----------------------------------------------------------------------------
(***************************************************************************)
(* trs_compute.                                                            *)
(***************************************************************************)
IsFinished(m) == Counts(m) = target
OnlyLast == conf.step < 0 \* score->step is INFINITY

\* The first rating, printed unless only the last score is.
First ==
  /\ pc = "first"
  /\ map' = Computed(map)
  /\ saved' = Computed(map)
  /\ pc' = IF ~OnlyLast \/ IsFinished(map) THEN "print" ELSE "loop"
  /\ UNCHANGED <<conf, origin, target, last_point, chosen, changed, printed>>

\* trs_change_one_object: the MISS come before the GOOD.  With no object to
\* change the code indexes the map with -1, which is undefined.
ChangeWanted(m) == IF m.miss # target.miss THEN "MISS" ELSE "GOOD"
ChangeOneObject ==
  /\ pc = "loop" /\ ~IsFinished(map)
  /\ IF Choose(map) \in DOMAIN map.objs
     THEN /\ map' = SetPs(map, Choose(map), ChangeWanted(map))
          /\ chosen' = Choose(map)
          /\ changed' = Append(changed, Choose(map))
          /\ pc' = "changed"
     ELSE /\ pc' = "undefined"
          /\ UNCHANGED <<map, chosen, changed>>
  /\ UNCHANGED <<conf, origin, saved, target, last_point, printed>>

\* trs_compute_if_needed, and whether the step is reached (ggm or acc).
MustCompute(m) == conf.quick = 0 \/ IsFinished(m)
RecomputedOrDamped(m, i) == IF MustCompute(m) THEN Computed(m) ELSE Damped(m, i)

\* The point a map is at on the way to the score, and whether the next step is
\* reached there.  (Mutant SamePoint: the last point is not moved.)
Point(m) == IF conf.input = 0 THEN Acc(Counts(m)) ELSE m.good + m.miss
StepReached(m) ==
  /\ ~OnlyLast
  /\ IF conf.input = 0
     THEN Point(m) + conf.step * Total(Counts(m)) <= last_point
     ELSE last_point + conf.step <= Point(m)
SamePoint(m) == last_point
LastPoint(m) == IF StepReached(m) THEN Point(m) ELSE last_point

\* What is printed, and the map that the loop has back.  (Mutants: PrintAsIs, where
\* nothing is rated for printing, and KeepCopy, where the copy stays.)
PrintAsIs(m) == m
KeepCopy(m) == IF MustCompute(m) THEN m ELSE Computed(m)
ToPrint(m) == IF MustCompute(m) THEN m ELSE Computed(m)
Restored(m) == m

Recompute ==
  LET m == RecomputedOrDamped(map, chosen) IN
  /\ pc = "changed"
  /\ IF StepReached(m) \/ IsFinished(m)
     THEN /\ map' = ToPrint(m)
          /\ saved' = Restored(m)
          /\ pc' = "print"
     ELSE /\ map' = m
          /\ pc' = "loop"
          /\ UNCHANGED saved
  /\ last_point' = LastPoint(m)
  /\ UNCHANGED <<conf, origin, target, chosen, changed, printed>>

\* trs_print_and_db prints score->map; then the loop has its own map back.
PrintAndDb ==
  /\ pc = "print"
  /\ printed' = Append(printed, map)
  /\ map' = saved
  /\ pc' = "loop"
  /\ UNCHANGED <<conf, origin, saved, target, last_point, chosen, changed>>

End ==
  /\ pc = "loop" /\ IsFinished(map)
  /\ pc' = "done"
  /\ UNCHANGED <<conf, origin, map, saved, target, last_point, chosen, changed, printed>>

-----------------------------------------------------------------------------
Init ==
  /\ conf \in Confs
  /\ \E m \in Maps : origin = Load(m)
  /\ map = origin
  /\ saved = origin
  /\ target = Counts(origin)
  /\ last_point = 0
  /\ chosen = 1
  /\ pc = "start"
  /\ changed = <<>>
  /\ printed = <<>>

Terminated == pc \in {"done", "undefined"} /\ UNCHANGED vars

Step ==
  \/ Start \/ PrepareGgm \/ PrepareAcc
  \/ First \/ ChangeOneObject \/ Recompute \/ PrintAndDb \/ End

Next == Step \/ Terminated

Spec == Init /\ [][Next]_vars

-----------------------------------------------------------------------------
(***************************************************************************)
(* Properties.                                                             *)
(***************************************************************************)
InLoop == pc \in {"loop", "changed", "print", "done"}

\* The counters of the map, which decide when the loop ends and which accuracy
\* is shown, are the numbers of its objects in each state, in the map of the
\* loop and in the copies that are printed.
CountsMatch ==
  \A m \in {map, saved} \cup ToSet(printed) :
    /\ m.great = Cardinality(With(m.objs, "GREAT"))
    /\ m.good = Cardinality(With(m.objs, "GOOD"))
    /\ m.miss = Cardinality(With(m.objs, "MISS"))

\* What trs_prepare computes is the best score within what the options ask:
\* every MISS wanted, as far as there are objects, and then every GOOD; or the
\* greatest accuracy that is not above the one wanted, with at most one GOOD.
\* The loops that get there one object at a time are correct.
TargetIsBest ==
  pc \notin {"start", "prepare_acc", "prepare_ggm"} =>
    LET n == origin.great IN
    /\ target.great + target.good + target.miss = n
    /\ IF conf.input = 0
       THEN LET wanted == Clamp(conf.acc, 100) * 2 * n IN
            /\ target.good <= 1
            /\ Acc(target) <= wanted
            /\ \A half \in 0 .. 2 * n : 100 * half <= wanted => 100 * half <= Acc(target)
       ELSE /\ target.miss = Clamp(conf.miss, n)
            /\ target.good = Clamp(conf.good, n - target.miss)

\* The loop gets on: each turn changes a GREAT object that no turn has changed, never
\* a bonus one, the MISS before the GOOD, whatever the stars are after the quick loop
\* has damped them.  Else the code changes the object -1, which only the search by
\* influence finds, and only in a map that has no star left to lose (each GREAT
\* object being at the time of a changed one).  (The search for the hardest object begins at
\* the first one without a look at its state: that one must have no star left once it
\* has been changed.)
EachChangeNew ==
  pc \notin {"start", "prepare_acc", "prepare_ggm", "first"} =>
    /\ Cardinality(ToSet(changed)) = Len(changed)
    /\ \A k \in DOMAIN map.objs :
         map.objs[k].ps = CASE IsBonus(map.objs[k]) -> "BONUS"
                            [] k \in ToSet(SubSeq(changed, 1, Min({target.miss, Len(changed)}))) -> "MISS"
                            [] k \in ToSet(SubSeq(changed, target.miss + 1, Len(changed))) -> "GOOD"
                            [] OTHER -> "GREAT"
    /\ pc = "undefined" => conf.method = 1 /\ map.star = 0

\* The map the loop works on is what it would be had nothing been printed:
\* "the star rating won't change depending on the step when the quick
\* computation is used" (trs_print_and_db_if_needed).
Unprinted[k \in 0..Len(changed)] ==
  IF k = 0 THEN Computed(Modified(origin))
  ELSE LET before == Unprinted[k - 1]
           i == Choose(before)
       IN RecomputedOrDamped(SetPs(before, i, ChangeWanted(before)), i)
StepIndependent == pc \in {"loop", "done"} => map = Unprinted[Len(changed)]

\* Each GREAT object that is printed has the stars that a rating gives it from the
\* hands it has, and the others none.
PrintedIsRated ==
  \A k \in DOMAIN printed :
    LET m == printed[k] IN
    /\ m.star = SumStars(m.objs)
    /\ \A j \in DOMAIN m.objs :
         m.objs[j].star = IF m.objs[j].ps = "GREAT" THEN Rating(m.objs, j) ELSE 0

\* A negative step prints only the last score, 0 prints every one, and else two prints
\* are at least a step apart, the last one excepted, and as near to it as one change
\* allows.
PrintsFollowStep ==
  LET n == Len(printed)
      reached == {k \in DOMAIN printed : Counts(printed[k]) = target}
      gap(k) == IF conf.input = 0 THEN Point(printed[k]) - Point(printed[k + 1])
                                  ELSE Point(printed[k + 1]) - Point(printed[k])
      unit == IF conf.input = 0 THEN Total(target) ELSE 1
      change == IF conf.input = 0 THEN 200 ELSE 1
  IN /\ n > 0 /\ reached = {n}
     /\ conf.step < 0 => n = 1
     /\ conf.step = 0 => n = Len(changed) + 1
     /\ conf.step > 0 => \A k \in 1 .. n - 2 : gap(k) \in conf.step * unit .. conf.step * unit + change - 1

\* Whatever is printed has been rated in full just before, though the quick loop
\* only damps; and the prints follow the steps of the README, with the last score
\* always printed, once and last.
PrintsRight == PrintedIsRated /\ (pc = "done" => PrintsFollowStep)

\* The README's "-no_bonus [0|1] remove bonus notes".
NoBonusLeft ==
  conf.no_bonus # 0 /\ InLoop => \A k \in DOMAIN map.objs : ~IsBonus(map.objs[k])
=============================================================================
