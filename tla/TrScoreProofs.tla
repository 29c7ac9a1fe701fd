--------------------------- MODULE TrScoreProofs ---------------------------
(***************************************************************************)
(* What holds of a score for all maps, options and ratings: what           *)
(* trs_prepare aims at is the best score within the options, the counters  *)
(* of the maps are the numbers of their objects, and the map of the loop   *)
(* does not depend on what is printed.                                     *)
(*                                                                         *)
(* The stars are whatever Rating gives, so nothing here depends on it; an  *)
(* object and a map are then records whose stars have no type (IsObject,   *)
(* IsMap).                                                                 *)
(***************************************************************************)
EXTENDS TrScore, NatSets, SequenceTheorems, FunctionTheorems, FiniteSetTheorems, TLAPS

-----------------------------------------------------------------------------
(***************************************************************************)
(* The score to reach (trs_prepare).                                       *)
(***************************************************************************)
\* The counters of a score.
Score == [great : Nat, good : Nat, miss : Nat]

\* What each loop of trs_prepare keeps: a target is not below what the options
\* ask before all that is less wanted has been given up.
ToRemove(t) ==
  /\ conf.input # 0
  /\ t.great = origin.great
  /\ t.good <= Clamp(conf.good, t.good) /\ t.miss <= Clamp(conf.miss, t.miss)
  /\ t.good > 0 => conf.miss <= t.miss
  /\ conf.good > t.good \/ conf.miss > t.miss => t.good + t.miss >= origin.great
ToLower(t) ==
  LET wanted == Clamp(conf.acc, 100) * 2 * origin.great IN
  /\ conf.input = 0
  /\ t.great + t.good + t.miss = origin.great
  /\ t.good <= 1
  /\ Acc(t) > wanted => t.good = 0
  /\ \A half \in 0 .. 2 * origin.great : 100 * half <= wanted => 100 * half <= Acc(t)

\* The inductive invariant of the target.
TargetOK ==
  /\ conf \in Confs
  /\ origin.great \in Nat /\ origin.good = 0 /\ origin.miss = 0
  /\ target \in Score
  /\ pc = "prepare_ggm" => ToRemove(target)
  /\ pc = "prepare_acc" => ToLower(target)
  /\ TargetIsBest

\* The numbers of an option line are integers.
LEMMA ConfNumbers ==
  ASSUME conf \in Confs
  PROVE  conf.acc \in Int /\ conf.good \in Int /\ conf.miss \in Int
BY TrScoreAssumption

\* The greatest total a target has is what the whole map gives.
LEMMA WantedAcc ==
  ASSUME conf \in Confs, NEW n \in Nat, NEW t \in Score, t.great + t.good + t.miss = n
  PROVE  /\ Clamp(conf.acc, 100) \in 0..100
         /\ Clamp(conf.acc, 100) * 2 * n \in Nat
         /\ Clamp(conf.acc, 100) * Total(t) = Clamp(conf.acc, 100) * 2 * n
         /\ Acc(t) = 200 * t.great + 100 * t.good
<1>1. Clamp(conf.acc, 100) \in 0..100
  BY ConfNumbers DEF Clamp
<1>2. \A c \in 0..100 : c * 2 * n \in Nat /\ c * (2 * n) = c * 2 * n
  OBVIOUS
<1>3. Total(t) = 2 * n
  BY DEF Total, Score
<1>4. Acc(t) = 200 * t.great + 100 * t.good
  BY DEF Acc, Score
<1>. QED
  BY <1>1, <1>2, <1>3, <1>4

\* What one turn of a loop of trs_prepare does to each counter.
LEMMA OneLess ==
  ASSUME NEW t \in Score
  PROVE  /\ [t EXCEPT !.good = @ - 1] = [great |-> t.great, good |-> t.good - 1, miss |-> t.miss]
         /\ [t EXCEPT !.miss = @ - 1] = [great |-> t.great, good |-> t.good, miss |-> t.miss - 1]
         /\ OneGood(t) = [great |-> t.great - 1, good |-> t.good + 1, miss |-> t.miss]
         /\ OneMiss(t) = [great |-> t.great - 1, good |-> t.good, miss |-> t.miss + 1]
         /\ \A g : [t EXCEPT !.great = g] = [great |-> g, good |-> t.good, miss |-> t.miss]
<1>1. t = [great |-> t.great, good |-> t.good, miss |-> t.miss]
  BY DEF Score
<1>2. /\ [t EXCEPT !.good = @ - 1] = [great |-> t.great, good |-> t.good - 1, miss |-> t.miss]
      /\ [t EXCEPT !.miss = @ - 1] = [great |-> t.great, good |-> t.good, miss |-> t.miss - 1]
  BY <1>1
<1>3. ASSUME NEW x, NEW y
      PROVE  [t EXCEPT !.great = x, !.good = y] = [great |-> x, good |-> y, miss |-> t.miss]
  <2>1. [t EXCEPT !.great = x] = [great |-> x, good |-> t.good, miss |-> t.miss]
    BY <1>1
  <2>2. [t EXCEPT !.great = x, !.good = y] = [[t EXCEPT !.great = x] EXCEPT !.good = y]
    BY <1>1
  <2>. DEFINE w == [t EXCEPT !.great = x]
  <2>3. w = [great |-> x, good |-> t.good, miss |-> t.miss]
    BY <2>1
  <2>. HIDE DEF w
  <2>4. [w EXCEPT !.good = y] = [great |-> x, good |-> y, miss |-> t.miss]
    BY <2>3
  <2>. QED
    BY <2>2, <2>4 DEF w
<1>4. ASSUME NEW x, NEW y
      PROVE  [t EXCEPT !.great = x, !.miss = y] = [great |-> x, good |-> t.good, miss |-> y]
  <2>1. [t EXCEPT !.great = x] = [great |-> x, good |-> t.good, miss |-> t.miss]
    BY <1>1
  <2>2. [t EXCEPT !.great = x, !.miss = y] = [[t EXCEPT !.great = x] EXCEPT !.miss = y]
    BY <1>1
  <2>. DEFINE w == [t EXCEPT !.great = x]
  <2>3. w = [great |-> x, good |-> t.good, miss |-> t.miss]
    BY <2>1
  <2>. HIDE DEF w
  <2>4. [w EXCEPT !.miss = y] = [great |-> x, good |-> t.good, miss |-> y]
    BY <2>3
  <2>. QED
    BY <2>2, <2>4 DEF w
<1>5. ASSUME NEW g
      PROVE  [t EXCEPT !.great = g] = [great |-> g, good |-> t.good, miss |-> t.miss]
  BY <1>1
<1>. QED
  BY <1>2, <1>3, <1>4, <1>5 DEF OneGood, OneMiss

\* trs_prepare starts above the score it looks for.
LEMMA TargetStart ==
  ASSUME TargetOK, Start
  PROVE  TargetOK'
<1>. DEFINE n == origin.great
<1>1. /\ conf \in Confs /\ conf' = conf /\ origin' = origin
      /\ n \in Nat /\ origin.good = 0 /\ origin.miss = 0
  BY DEF TargetOK, Start
<1>2. CASE conf.input = 0
  <2>1. target' = Counts(origin) /\ pc' = "prepare_acc"
    BY <1>2 DEF Start
  <2>2. Counts(origin) = [great |-> n, good |-> 0, miss |-> 0] /\ Counts(origin) \in Score
    BY <1>1 DEF Counts, Score
  <2>3. ToLower(Counts(origin))
    <3>. DEFINE t == Counts(origin)
    <3>1. t \in Score /\ t.great = n /\ t.good = 0 /\ t.miss = 0
      BY <2>2
    <3>. HIDE DEF t
    <3>2. Acc(t) = 200 * n
      BY <1>1, <3>1, WantedAcc
    <3>3. ToLower(t)
      BY <1>1, <1>2, <3>1, <3>2 DEF ToLower
    <3>. QED
      BY <3>3 DEF t
  <2>4. ToLower(target)'
    BY <1>1, <2>1, <2>3 DEF ToLower
  <2>. QED
    BY <1>1, <2>1, <2>2, <2>4 DEF TargetOK, TargetIsBest
<1>3. CASE conf.input # 0
  <2>. DEFINE good == IF conf.good < 0 THEN 0 ELSE conf.good
              miss == IF conf.miss < 0 THEN 0 ELSE conf.miss
              t == [great |-> n, good |-> good, miss |-> miss]
  <2>1. target' = t /\ pc' = "prepare_ggm"
    BY <1>3 DEF Start
  <2>2. conf.good \in Int /\ conf.miss \in Int
    BY <1>1, ConfNumbers
  <2>3. t \in Score
    BY <1>1, <2>2 DEF Score
  <2>4. ToRemove(t)
    BY <1>1, <1>3, <2>2 DEF ToRemove, Clamp
  <2>. HIDE DEF t
  <2>5. ToRemove(target)'
    BY <1>1, <2>1, <2>4 DEF ToRemove
  <2>. QED
    BY <1>1, <2>1, <2>3, <2>5 DEF TargetOK, TargetIsBest
<1>. QED
  BY <1>2, <1>3

\* A turn of trs_prepare_ggm removes a GOOD, or a MISS when no GOOD is left, and the
\* loop ends at the best score within the GOOD and MISS asked.
LEMMA TargetPrepareGgm ==
  ASSUME TargetOK, PrepareGgm
  PROVE  TargetOK'
<1>. DEFINE n == origin.great
            t == target
<1>1. /\ conf \in Confs /\ conf' = conf /\ origin' = origin /\ pc = "prepare_ggm"
      /\ n \in Nat /\ origin.good = 0 /\ origin.miss = 0 /\ t \in Score /\ ToRemove(t)
  BY DEF TargetOK, PrepareGgm
<1>2. /\ conf.good \in Int /\ conf.miss \in Int
      /\ t.great \in Nat /\ t.good \in Nat /\ t.miss \in Nat
  BY <1>1, ConfNumbers DEF Score
<1>3. CASE t.good + t.miss > n
  <2>. DEFINE u == OneRemoved(t)
  <2>1. target' = u /\ pc' = pc
    BY <1>3 DEF PrepareGgm
  <2>2. u = IF t.good > 0 THEN [great |-> t.great, good |-> t.good - 1, miss |-> t.miss]
            ELSE [great |-> t.great, good |-> t.good, miss |-> t.miss - 1]
    BY <1>1, <1>2, <1>3, OneLess DEF OneRemoved
  <2>. HIDE DEF u
  <2>3. /\ u \in Score /\ u.great = t.great
        /\ u.good = IF t.good > 0 THEN t.good - 1 ELSE 0
        /\ u.miss = IF t.good > 0 THEN t.miss ELSE t.miss - 1
    BY <1>2, <1>3, <2>2, <1>1 DEF Score
  <2>4. ToRemove(u)
    BY <1>1, <1>2, <1>3, <2>3 DEF ToRemove, Clamp
  <2>5. ToRemove(target)'
    BY <1>1, <2>1, <2>4 DEF ToRemove
  <2>. QED
    BY <1>1, <2>1, <2>3, <2>5 DEF TargetOK, TargetIsBest
<1>4. CASE ~(t.good + t.miss > n)
  <2>. DEFINE u == [great |-> n - t.good - t.miss, good |-> t.good, miss |-> t.miss]
  <2>1. target' = u /\ pc' = "first"
    BY <1>1, <1>4, OneLess DEF PrepareGgm
  <2>2. u \in Score /\ u.great + u.good + u.miss = n
    BY <1>1, <1>2, <1>4 DEF Score
  <2>3. u.miss = Clamp(conf.miss, n) /\ u.good = Clamp(conf.good, n - u.miss)
    BY <1>1, <1>2, <1>4 DEF ToRemove, Clamp
  <2>. HIDE DEF u
  <2>4. TargetIsBest'
    BY <1>1, <2>1, <2>2, <2>3 DEF TargetIsBest, ToRemove
  <2>. QED
    BY <1>1, <2>1, <2>2, <2>4 DEF TargetOK
<1>. QED
  BY <1>3, <1>4

\* A turn of trs_prepare_acc lowers the accuracy by a GOOD or a MISS without going past
\* the greatest one that is not above the accuracy asked.
LEMMA TargetPrepareAcc ==
  ASSUME TargetOK, PrepareAcc
  PROVE  TargetOK'
<1>. DEFINE n == origin.great
            t == target
            wanted == Clamp(conf.acc, 100) * 2 * n
<1>1. /\ conf \in Confs /\ conf' = conf /\ origin' = origin /\ pc = "prepare_acc"
      /\ n \in Nat /\ origin.good = 0 /\ origin.miss = 0 /\ t \in Score /\ ToLower(t)
  BY DEF TargetOK, PrepareAcc
<1>2. /\ t.great \in Nat /\ t.good \in Nat /\ t.miss \in Nat
      /\ t.great + t.good + t.miss = n /\ t.good <= 1 /\ conf.input = 0
  BY <1>1 DEF Score, ToLower
<1>3. /\ wanted \in Nat /\ Clamp(conf.acc, 100) * Total(t) = wanted
      /\ Acc(t) = 200 * t.great + 100 * t.good
  BY <1>1, <1>2, WantedAcc
<1>4. /\ Acc(t) > wanted => t.good = 0
      /\ \A half \in 0 .. 2 * n : 100 * half <= wanted => 100 * half <= Acc(t)
  BY <1>1 DEF ToLower
<1>5. wanted' = wanted
  BY <1>1
<1>6. IF Acc(t) > wanted THEN target' = Lowered(t, wanted) /\ pc' = pc
      ELSE target' = t /\ pc' = "first"
  BY <1>3 DEF PrepareAcc
<1>7. CASE Acc(t) > wanted
  <2>. HIDE DEF wanted
  <2>1. t.good = 0 /\ t.great > 0
    BY <1>2, <1>3, <1>4, <1>7
  <2>2. /\ OneGood(t) = [great |-> t.great - 1, good |-> 1, miss |-> t.miss]
        /\ OneMiss(t) = [great |-> t.great - 1, good |-> 0, miss |-> t.miss + 1]
    <3>1. t.good + 1 = 1
      BY <2>1
    <3>. HIDE DEF t
    <3>. QED
      BY <1>1, <2>1, <3>1, OneLess
  <2>3. /\ OneGood(t) \in Score /\ OneMiss(t) \in Score
        /\ Acc(OneGood(t)) = 200 * t.great - 100 /\ Acc(OneMiss(t)) = 200 * t.great - 200
    BY <1>2, <2>1, <2>2 DEF Score, Acc
  <2>. DEFINE u == Lowered(t, wanted)
  <2>4. \/ 200 * t.great - 100 <= wanted /\ u = OneGood(t)
        \/ 200 * t.great - 100 > wanted /\ u = OneMiss(t)
    BY <1>2, <1>3, <2>3 DEF Lowered
  <2>. HIDE DEF u
  <2>5. /\ u \in Score /\ u.great + u.good + u.miss = n /\ u.good <= 1
        /\ Acc(u) > wanted => u.good = 0
    BY <1>2, <1>3, <2>1, <2>2, <2>3, <2>4
  <2>6. \A half \in 0 .. 2 * n : 100 * half <= wanted => 100 * half <= Acc(u)
    <3>1. Acc(t) = 200 * t.great
      BY <1>2, <1>3, <2>1
    <3>2. CASE 200 * t.great - 100 <= wanted /\ Acc(u) = 200 * t.great - 100
      BY <1>2, <1>3, <1>7, <3>1, <3>2
    <3>3. CASE 200 * t.great - 100 > wanted /\ Acc(u) = 200 * t.great - 200
      BY <1>2, <1>3, <3>1, <3>3
    <3>. QED
      BY <2>3, <2>4, <3>2, <3>3
  <2>7. ToLower(u)
    BY <1>2, <2>5, <2>6 DEF ToLower, wanted
  <2>8. target' = u /\ pc' = pc
    BY <1>6, <1>7 DEF u
  <2>9. ToLower(target)'
    BY <1>1, <2>7, <2>8 DEF ToLower
  <2>. QED
    BY <1>1, <2>5, <2>8, <2>9 DEF TargetOK, TargetIsBest
<1>8. CASE ~(Acc(t) > wanted)
  <2>1. target' = t /\ pc' = "first"
    BY <1>6, <1>8
  <2>2. Acc(t) <= wanted
    BY <1>2, <1>3, <1>8
  <2>3. TargetIsBest'
    BY <1>1, <1>2, <1>4, <2>1, <2>2 DEF TargetIsBest
  <2>. QED
    BY <1>1, <2>1, <2>3 DEF TargetOK
<1>. QED
  BY <1>7, <1>8

\* Before trs_prepare, the target is the whole map.
LEMMA TargetInit ==
  ASSUME Init
  PROVE  TargetOK
<1>1. PICK m \in Maps : origin = Load(m)
  BY DEF Init
<1>. DEFINE objs == [k \in DOMAIN m |->
                 [kind |-> m[k].kind, off |-> m[k].off, hand |-> {}, star |-> 0,
                  ps |-> IF IsBonus(m[k]) THEN "BONUS" ELSE "GREAT"]]
<1>2. origin.great = Cardinality(With(objs, "GREAT")) /\ origin.good = 0 /\ origin.miss = 0
  BY <1>1 DEF Load
<1>3. IsFiniteSet(With(objs, "GREAT"))
  <2>1. Len(m) \in Nat /\ DOMAIN m = 1..Len(m)
    BY TrScoreAssumption
  <2>2. With(objs, "GREAT") \in SUBSET (1..Len(m))
    BY <2>1 DEF With
  <2>3. IsFiniteSet(1..Len(m))
    BY <2>1, FS_Interval
  <2>. QED
    BY <2>2, <2>3, FS_Subset
<1>4. origin.great \in Nat
  BY <1>2, <1>3, FS_CardinalityType
<1>5. target \in Score
  BY <1>2, <1>4 DEF Init, Counts, Score
<1>. QED
  BY <1>2, <1>4, <1>5 DEF Init, TargetOK, TargetIsBest

\* No step leaves the inductive invariant; after trs_prepare the target stays.
LEMMA TargetNext ==
  ASSUME TargetOK, [Next]_vars
  PROVE  TargetOK'
<1>1. CASE Start
  BY <1>1, TargetStart
<1>2. CASE PrepareGgm
  BY <1>2, TargetPrepareGgm
<1>3. CASE PrepareAcc
  BY <1>3, TargetPrepareAcc
<1>4. ASSUME /\ conf' = conf /\ origin' = origin /\ target' = target
             /\ \/ pc' = pc
                \/ /\ pc \notin {"start", "prepare_acc", "prepare_ggm"}
                   /\ pc' \notin {"start", "prepare_acc", "prepare_ggm"}
      PROVE  TargetOK'
  <2>1. /\ ToRemove(target)' <=> ToRemove(target)
        /\ ToLower(target)' <=> ToLower(target)
    BY <1>4 DEF ToRemove, ToLower
  <2>2. TargetIsBest'
    BY <1>4 DEF TargetOK, TargetIsBest
  <2>. QED
    BY <1>4, <2>1, <2>2 DEF TargetOK
<1>5. CASE First
  BY <1>4, <1>5 DEF First
<1>6. CASE ChangeOneObject
  BY <1>4, <1>6 DEF ChangeOneObject
<1>7. CASE Recompute
  BY <1>4, <1>7 DEF Recompute
<1>8. CASE PrintAndDb
  BY <1>4, <1>8 DEF PrintAndDb
<1>9. CASE End
  BY <1>4, <1>9 DEF End
<1>10. CASE UNCHANGED vars
  BY <1>4, <1>10 DEF vars
<1>. QED
  BY <1>1, <1>2, <1>3, <1>5, <1>6, <1>7, <1>8, <1>9, <1>10 DEF Next, Step, Terminated

\* The score that trs_prepare computes is the best one within the options, whatever the
\* map and the options are: the loops stop at the right place.
THEOREM TargetAlwaysBest == Spec => []TargetIsBest
<1>1. TargetOK => TargetIsBest
  BY DEF TargetOK
<1>. QED
  BY <1>1, TargetInit, TargetNext, PTL DEF Spec

-----------------------------------------------------------------------------
(***************************************************************************)
(* The counters of a map: what each operation on a map does to them.       *)
(***************************************************************************)
\* Objects and maps.
IsObject(o) == o = [kind |-> o.kind, off |-> o.off, hand |-> o.hand, star |-> o.star, ps |-> o.ps]
IsObjects(objs) ==
  /\ objs = [k \in DOMAIN objs |-> objs[k]] /\ IsFiniteSet(DOMAIN objs)
  /\ \A k \in DOMAIN objs : IsObject(objs[k])
IsMap(m) ==
  /\ m = [objs |-> m.objs, great |-> m.great, good |-> m.good, miss |-> m.miss,
          combo |-> m.combo, star |-> m.star]
  /\ IsObjects(m.objs)

\* The counters of a map are right.
Exact(m) ==
  /\ IsMap(m)
  /\ m.great = Cardinality(With(m.objs, "GREAT"))
  /\ m.good = Cardinality(With(m.objs, "GOOD"))
  /\ m.miss = Cardinality(With(m.objs, "MISS"))

\* The counters only depend on the states of the objects.
LEMMA ExactSame ==
  ASSUME NEW m, Exact(m), NEW n, IsMap(n),
         n.great = m.great, n.good = m.good, n.miss = m.miss,
         DOMAIN n.objs = DOMAIN m.objs,
         \A k \in DOMAIN m.objs : n.objs[k].ps = m.objs[k].ps
  PROVE  Exact(n)
<1>1. \A ps : With(n.objs, ps) = With(m.objs, ps)
  BY DEF With
<1>. QED
  BY <1>1 DEF Exact


\* An object whose hands or stars have been set.
Touched(o, p) == IsObject(p) /\ p.ps = o.ps

\* Setting the hands or the stars of an object leaves its state.
LEMMA SetField ==
  ASSUME NEW o, IsObject(o), NEW v, NEW p,
         p = [o EXCEPT !.hand = v] \/ p = [o EXCEPT !.star = v]
  PROVE  Touched(o, p)
<1>1. /\ [o EXCEPT !.hand = v] = [kind |-> o.kind, off |-> o.off, hand |-> v, star |-> o.star, ps |-> o.ps]
      /\ [o EXCEPT !.star = v] = [kind |-> o.kind, off |-> o.off, hand |-> o.hand, star |-> v, ps |-> o.ps]
  BY DEF IsObject
<1>. QED
  BY <1>1 DEF IsObject, Touched

\* A map whose objects have been touched, and whose combo and star may be others.
LEMMA TouchedExact ==
  ASSUME NEW m, Exact(m), NEW n, NEW f,
         f = [k \in DOMAIN m.objs |-> f[k]],
         \A k \in DOMAIN m.objs : Touched(m.objs[k], f[k]),
         \/ n = [m EXCEPT !.objs = f]
         \/ \E x, y : n = [m EXCEPT !.objs = f, !.combo = x, !.star = y]
  PROVE  Exact(n) /\ DOMAIN n.objs = DOMAIN m.objs
<1>1. IsMap(m) /\ IsObjects(m.objs)
  BY DEF Exact, IsMap
<1>2. DOMAIN f = DOMAIN m.objs /\ f = [k \in DOMAIN f |-> f[k]]
  OBVIOUS
<1>3. IsObjects(f)
  BY <1>1, <1>2 DEF IsObjects, Touched
<1>4. \E x, y : n = [objs |-> f, great |-> m.great, good |-> m.good, miss |-> m.miss,
                     combo |-> x, star |-> y]
  <2>1. CASE n = [m EXCEPT !.objs = f]
    BY <1>1, <2>1 DEF IsMap
  <2>2. ASSUME NEW x, NEW y, n = [m EXCEPT !.objs = f, !.combo = x, !.star = y]
        PROVE  n = [objs |-> f, great |-> m.great, good |-> m.good, miss |-> m.miss,
                    combo |-> x, star |-> y]
    BY <1>1, <2>2 DEF IsMap
  <2>. QED
    BY <2>1, <2>2
<1>5. IsMap(n) /\ n.objs = f /\ n.great = m.great /\ n.good = m.good /\ n.miss = m.miss
  BY <1>3, <1>4 DEF IsMap
<1>6. DOMAIN n.objs = DOMAIN m.objs /\ \A k \in DOMAIN m.objs : n.objs[k].ps = m.objs[k].ps
  BY <1>2, <1>5 DEF Touched
<1>. QED
  BY <1>5, <1>6, ExactSame

\* A rating (trm_compute_stars) keeps the counters right.
LEMMA ComputedExact ==
  ASSUME NEW m, Exact(m)
  PROVE  Exact(Computed(m)) /\ DOMAIN Computed(m).objs = DOMAIN m.objs
<1>. DEFINE hands == SetHand(m.objs)
            objs == [k \in DOMAIN hands |->
                      [hands[k] EXCEPT !.star = IF hands[k].ps = "GREAT" THEN Rating(hands, k) ELSE 0]]
<1>1. IsMap(m) /\ IsObjects(m.objs)
  BY DEF Exact, IsMap
<1>2. DOMAIN hands = DOMAIN m.objs /\ \A k \in DOMAIN m.objs : Touched(m.objs[k], hands[k])
  <2>1. hands = [k \in DOMAIN m.objs |->
                   [m.objs[k] EXCEPT !.hand = m.objs[k].hand \cup NewHand(m.objs, k)]]
    BY <1>1 DEF SetHand, IsObjects, IsObject
  <2>. HIDE DEF hands
  <2>2. ASSUME NEW k \in DOMAIN m.objs  PROVE Touched(m.objs[k], hands[k])
    <3>. DEFINE v == m.objs[k].hand \cup NewHand(m.objs, k)
    <3>1. hands[k] = [m.objs[k] EXCEPT !.hand = v]
      BY <2>1
    <3>. HIDE DEF v
    <3>. QED
      BY <1>1, <3>1, SetField DEF IsObjects
  <2>. QED
    BY <2>1, <2>2
<1>. HIDE DEF hands
<1>3. objs = [k \in DOMAIN m.objs |-> objs[k]]
  BY <1>2
<1>4. ASSUME NEW k \in DOMAIN m.objs  PROVE Touched(m.objs[k], objs[k])
  <2>. DEFINE v == IF hands[k].ps = "GREAT" THEN Rating(hands, k) ELSE 0
  <2>1. objs[k] = [hands[k] EXCEPT !.star = v]
    BY <1>2
  <2>. HIDE DEF v, objs
  <2>2. IsObject(hands[k]) /\ hands[k].ps = m.objs[k].ps
    BY <1>2 DEF Touched
  <2>3. Touched(hands[k], objs[k])
    BY <2>1, <2>2, SetField
  <2>. QED
    BY <2>2, <2>3 DEF Touched
<1>5. \E x, y : Computed(m) = [m EXCEPT !.objs = objs, !.combo = x, !.star = y]
  <2>1. Computed(m) = [m EXCEPT !.objs = objs, !.combo = Combo(objs), !.star = SumStars(objs)]
    BY DEF Computed, hands
  <2>. HIDE DEF objs
  <2>. QED
    BY <2>1
<1>. DEFINE n == Computed(m)
<1>. HIDE DEF objs, n
<1>6. Exact(n) /\ DOMAIN n.objs = DOMAIN m.objs
  BY <1>3, <1>4, <1>5, TouchedExact DEF n
<1>. QED
  BY <1>6 DEF n

\* The influence of a changed object (tro_set_influence) keeps the counters right.
LEMMA DampedExact ==
  ASSUME NEW m, Exact(m), NEW i
  PROVE  Exact(Damped(m, i)) /\ DOMAIN Damped(m, i).objs = DOMAIN m.objs
<1>. DEFINE star(j) == (m.objs[j].star * Coeff(m.objs, i, j)) \div Scale
            objs == [j \in DOMAIN m.objs |->
                       IF j \in Influenced(m.objs, i) THEN [m.objs[j] EXCEPT !.star = star(j)]
                       ELSE m.objs[j]]
<1>1. IsMap(m) /\ IsObjects(m.objs)
  BY DEF Exact, IsMap
<1>2. objs = [k \in DOMAIN m.objs |-> objs[k]]
  OBVIOUS
<1>3. ASSUME NEW k \in DOMAIN m.objs  PROVE Touched(m.objs[k], objs[k])
  <2>. DEFINE v == star(k)
  <2>1. IsObject(m.objs[k])
    BY <1>1 DEF IsObjects
  <2>2. objs[k] = m.objs[k] \/ objs[k] = [m.objs[k] EXCEPT !.star = v]
    OBVIOUS
  <2>. HIDE DEF v, objs
  <2>. QED
    BY <2>1, <2>2, SetField DEF Touched
<1>4. Damped(m, i) = [m EXCEPT !.objs = objs]
  BY DEF Damped
<1>. HIDE DEF objs
<1>. QED
  BY <1>2, <1>3, <1>4, TouchedExact

\* Adding to a counter, field by field.
LEMMA AddedTo ==
  ASSUME NEW m, IsMap(m), NEW ps, NEW n \in Int,
         m.great \in Int, m.good \in Int, m.miss \in Int
  PROVE  LET a == AddToPs(m, ps, n)
         IN /\ a = [objs |-> m.objs, great |-> a.great, good |-> a.good, miss |-> a.miss,
                    combo |-> m.combo, star |-> m.star]
            /\ a.great = IF ps = "GREAT" THEN m.great + n ELSE m.great
            /\ a.good = IF ps = "GOOD" THEN m.good + n ELSE m.good
            /\ a.miss = IF ps = "MISS" THEN m.miss + n ELSE m.miss
<1>. DEFINE a == AddToPs(m, ps, n)
<1>1. m = [objs |-> m.objs, great |-> m.great, good |-> m.good, miss |-> m.miss,
           combo |-> m.combo, star |-> m.star]
  BY DEF IsMap
<1>2. /\ DOMAIN Counter = {"GREAT", "GOOD", "MISS"}
      /\ Counter["GREAT"] = "great" /\ Counter["GOOD"] = "good" /\ Counter["MISS"] = "miss"
  BY DEF Counter
<1>3. CASE ps = "GREAT"
  <2>1. a = [m EXCEPT !.great = m.great + n]
    BY <1>2, <1>3 DEF AddToPs
  <2>. HIDE DEF a
  <2>2. a = [objs |-> m.objs, great |-> m.great + n, good |-> m.good, miss |-> m.miss,
             combo |-> m.combo, star |-> m.star]
    BY <1>1, <2>1
  <2>. QED
    BY <1>3, <2>2 DEF a
<1>4. CASE ps = "GOOD"
  <2>1. a = [m EXCEPT !.good = m.good + n]
    BY <1>2, <1>4 DEF AddToPs
  <2>. HIDE DEF a
  <2>2. a = [objs |-> m.objs, great |-> m.great, good |-> m.good + n, miss |-> m.miss,
             combo |-> m.combo, star |-> m.star]
    BY <1>1, <2>1
  <2>. QED
    BY <1>4, <2>2 DEF a
<1>5. CASE ps = "MISS"
  <2>1. a = [m EXCEPT !.miss = m.miss + n]
    BY <1>2, <1>5 DEF AddToPs
  <2>. HIDE DEF a
  <2>2. a = [objs |-> m.objs, great |-> m.great, good |-> m.good, miss |-> m.miss + n,
             combo |-> m.combo, star |-> m.star]
    BY <1>1, <2>1
  <2>. QED
    BY <1>5, <2>2 DEF a
<1>6. CASE ps \notin {"GREAT", "GOOD", "MISS"}
  <2>1. a = m
    BY <1>2, <1>6 DEF AddToPs
  <2>. QED
    BY <1>1, <1>6, <2>1 DEF a
<1>. QED
  BY <1>3, <1>4, <1>5, <1>6

\* How many objects are in the state q, of c, after one went from a state to another.
Moved(c, q, from, to) ==
  IF q = to THEN IF from = q THEN c ELSE c + 1
  ELSE IF from = q THEN c - 1 ELSE c

\* The objects in a state, when one object gets the state ps.
LEMMA WithSet ==
  ASSUME NEW objs, IsObjects(objs), NEW f, DOMAIN f = DOMAIN objs, NEW i \in DOMAIN objs, NEW ps,
         f[i].ps = ps, \A k \in DOMAIN objs \ {i} : f[k].ps = objs[k].ps, NEW q
  PROVE  /\ Cardinality(With(objs, q)) \in Nat
         /\ Cardinality(With(f, q)) =
              Moved(Cardinality(With(objs, q)), q, objs[i].ps, ps)
<1>. DEFINE S == With(objs, q)
<1>1. S \in SUBSET DOMAIN objs /\ IsFiniteSet(DOMAIN objs) /\ (i \in S <=> objs[i].ps = q)
  BY DEF With, IsObjects
<1>2. With(f, q) = IF q = ps THEN S \cup {i} ELSE S \ {i}
  BY DEF With
<1>. HIDE DEF S
<1>3. IsFiniteSet(S)
  BY <1>1, FS_Subset
<1>4. Cardinality(S) \in Nat
  BY <1>3, FS_CardinalityType
<1>5. /\ Cardinality(S \cup {i}) = IF i \in S THEN Cardinality(S) ELSE Cardinality(S) + 1
      /\ Cardinality(S \ {i}) = IF i \in S THEN Cardinality(S) - 1 ELSE Cardinality(S)
  BY <1>3, FS_AddElement, FS_RemoveElement
<1>6. Cardinality(With(f, q)) =
              Moved(Cardinality(S), q, objs[i].ps, ps)
  BY <1>1, <1>2, <1>5 DEF Moved
<1>. QED
  BY <1>4, <1>6 DEF S

\* The counters are natural numbers.
LEMMA CountsNat ==
  ASSUME NEW m, Exact(m)
  PROVE  m.great \in Nat /\ m.good \in Nat /\ m.miss \in Nat
<1>1. IsFiniteSet(DOMAIN m.objs)
  BY DEF Exact, IsMap, IsObjects
<1>2. ASSUME NEW ps  PROVE Cardinality(With(m.objs, ps)) \in Nat
  <2>. DEFINE S == With(m.objs, ps)
  <2>1. S \in SUBSET DOMAIN m.objs
    BY DEF With
  <2>. HIDE DEF S
  <2>2. IsFiniteSet(S)
    BY <1>1, <2>1, FS_Subset
  <2>. QED
    BY <2>2, FS_CardinalityType DEF S
<1>. QED
  BY <1>2 DEF Exact

\* trm_set_tro_ps moves one object from a counter to another, on both sides.
LEMMA SetPsExact ==
  ASSUME NEW m, Exact(m), NEW i \in DOMAIN m.objs, NEW ps \in {"MISS", "GOOD"}
  PROVE  Exact(SetPs(m, i, ps)) /\ DOMAIN SetPs(m, i, ps).objs = DOMAIN m.objs
<1>. DEFINE o == m.objs[i]
            f == [m.objs EXCEPT ![i].ps = ps, ![i].star = IF ps = "GOOD" THEN 0 ELSE @]
            v == IF ps = "GOOD" THEN 0 ELSE o.star
            w == [kind |-> o.kind, off |-> o.off, hand |-> o.hand, star |-> v, ps |-> ps]
            a == AddToPs(m, o.ps, -1)
            b == AddToPs(a, ps, 1)
            n == SetPs(m, i, ps)
<1>1. IsMap(m) /\ IsObjects(m.objs) /\ IsObject(o)
  BY DEF Exact, IsMap, IsObjects
<1>2. m.great \in Int /\ m.good \in Int /\ m.miss \in Int
  BY CountsNat
<1>3. f = [k \in DOMAIN m.objs |-> IF k = i THEN w ELSE m.objs[k]]
  <2>. DEFINE o1 == [o EXCEPT !.ps = ps]
              o2 == [o1 EXCEPT !.star = v]
              g == [m.objs EXCEPT ![i] = o1]
  <2>1. o1 = [kind |-> o.kind, off |-> o.off, hand |-> o.hand, star |-> o.star, ps |-> ps]
    BY <1>1 DEF IsObject
  <2>2. m.objs = [k \in DOMAIN m.objs |-> m.objs[k]]
    BY <1>1 DEF IsObjects
  <2>3. g = [k \in DOMAIN m.objs |-> IF k = i THEN o1 ELSE m.objs[k]]
    BY <2>2
  <2>4. f = [g EXCEPT ![i] = o2]
    BY <2>2
  <2>. HIDE DEF o1, g, v
  <2>5. o2 = w
    BY <2>1
  <2>. HIDE DEF o2, w, f
  <2>. QED
    BY <2>3, <2>4, <2>5
<1>4. n = [b EXCEPT !.objs = f, !.combo = IF ps = "GOOD" THEN b.combo ELSE Combo(f)]
  BY DEF SetPs
<1>. HIDE DEF f, b, n
<1>5. IsObjects(f) /\ DOMAIN f = DOMAIN m.objs
  BY <1>1, <1>3 DEF IsObjects, IsObject
<1>6. /\ a = [objs |-> m.objs, great |-> a.great, good |-> a.good, miss |-> a.miss,
              combo |-> m.combo, star |-> m.star]
      /\ a.great = IF o.ps = "GREAT" THEN m.great - 1 ELSE m.great
      /\ a.good = IF o.ps = "GOOD" THEN m.good - 1 ELSE m.good
      /\ a.miss = IF o.ps = "MISS" THEN m.miss - 1 ELSE m.miss
  BY <1>1, <1>2, AddedTo
<1>. HIDE DEF a
<1>7. IsMap(a) /\ a.great \in Int /\ a.good \in Int /\ a.miss \in Int /\ a.objs = m.objs
  BY <1>1, <1>2, <1>6 DEF IsMap
<1>8. /\ b = [objs |-> a.objs, great |-> b.great, good |-> b.good, miss |-> b.miss,
              combo |-> a.combo, star |-> a.star]
      /\ b.great = IF ps = "GREAT" THEN a.great + 1 ELSE a.great
      /\ b.good = IF ps = "GOOD" THEN a.good + 1 ELSE a.good
      /\ b.miss = IF ps = "MISS" THEN a.miss + 1 ELSE a.miss
  BY <1>7, AddedTo DEF b
<1>9. \E x : n = [objs |-> f, great |-> b.great, good |-> b.good, miss |-> b.miss,
                  combo |-> x, star |-> b.star]
  <2>. DEFINE x == IF ps = "GOOD" THEN b.combo ELSE Combo(f)
  <2>1. n = [b EXCEPT !.objs = f, !.combo = x]
    BY <1>4
  <2>. HIDE DEF x
  <2>2. n = [objs |-> f, great |-> b.great, good |-> b.good, miss |-> b.miss,
                  combo |-> x, star |-> b.star]
    BY <1>8, <2>1
  <2>. QED
    BY <2>2
<1>10. /\ IsMap(n) /\ n.objs = f
       /\ n.great = b.great /\ n.good = b.good /\ n.miss = b.miss
  BY <1>5, <1>9 DEF IsMap
<1>11. ASSUME NEW q
       PROVE  Cardinality(With(f, q)) =
              Moved(Cardinality(With(m.objs, q)), q, o.ps, ps)
  <2>1. f[i].ps = ps /\ \A k \in DOMAIN m.objs \ {i} : f[k].ps = m.objs[k].ps
    BY <1>3, <1>5
  <2>. QED
    BY <1>1, <1>5, <2>1, WithSet
<1>. HIDE DEF o
<1>12. /\ Cardinality(With(m.objs, "GREAT")) = m.great
       /\ Cardinality(With(m.objs, "GOOD")) = m.good
       /\ Cardinality(With(m.objs, "MISS")) = m.miss
  BY DEF Exact
<1>13. /\ n.great = Cardinality(With(f, "GREAT"))
       /\ n.good = Cardinality(With(f, "GOOD"))
       /\ n.miss = Cardinality(With(f, "MISS"))
  BY <1>2, <1>6, <1>8, <1>10, <1>11, <1>12 DEF Moved
<1>14. Exact(n) /\ DOMAIN n.objs = DOMAIN m.objs
  BY <1>5, <1>10, <1>13 DEF Exact
<1>. QED
  BY <1>14 DEF n

-----------------------------------------------------------------------------
(***************************************************************************)
(* The counters of the maps that are loaded, and of the modified ones.     *)
(***************************************************************************)
\* The objects of a map that has just been loaded.
Fresh == {o \in [kind : Kind, off : DOMAIN Influence, hand : {{}}, star : {0}, ps : {"BONUS", "GREAT"}] :
            o.ps = "BONUS" <=> IsBonus(o)}

\* No object of a map that has just been loaded is GOOD or MISS.
LEMMA FreshObjects ==
  ASSUME NEW objs \in Seq(Fresh)
  PROVE  /\ IsObjects(objs) /\ DOMAIN objs = 1..Len(objs) /\ Len(objs) \in Nat
         /\ With(objs, "GOOD") = {} /\ With(objs, "MISS") = {}
         /\ With(objs, "GREAT") \in SUBSET (1..Len(objs)) /\ IsFiniteSet(With(objs, "GREAT"))
         /\ \A k \in 1..Len(objs) : IsBonus(objs[k]) <=> objs[k].ps # "GREAT"
<1>1. /\ DOMAIN objs = 1..Len(objs) /\ Len(objs) \in Nat
      /\ \A k \in 1..Len(objs) : objs[k] \in Fresh
      /\ objs = [k \in 1..Len(objs) |-> objs[k]]
  OBVIOUS
<1>2. \A o \in Fresh : IsObject(o) /\ o.ps \in {"BONUS", "GREAT"} /\ (IsBonus(o) <=> o.ps # "GREAT")
  BY DEF Fresh, IsObject
<1>3. IsFiniteSet(1..Len(objs))
  <2>1. Len(objs) \in Int
    BY <1>1
  <2>. QED
    BY <2>1, FS_Interval
<1>4. IsObjects(objs)
  BY <1>1, <1>2, <1>3 DEF IsObjects
<1>5. With(objs, "GREAT") \in SUBSET (1..Len(objs))
  BY <1>1 DEF With
<1>6. IsFiniteSet(With(objs, "GREAT"))
  BY <1>3, <1>5, FS_Subset
<1>7. With(objs, "GOOD") = {} /\ With(objs, "MISS") = {}
  BY <1>1, <1>2 DEF With
<1>. QED
  BY <1>1, <1>2, <1>4, <1>5, <1>6, <1>7

\* A loaded map is right.
LEMMA LoadFresh ==
  ASSUME NEW m \in Maps
  PROVE  Load(m).objs \in Seq(Fresh) /\ Exact(Load(m))
<1>. DEFINE objs == [k \in DOMAIN m |->
                 [kind |-> m[k].kind, off |-> m[k].off, hand |-> {}, star |-> 0,
                  ps |-> IF IsBonus(m[k]) THEN "BONUS" ELSE "GREAT"]]
            n == Load(m)
<1>1. m \in Seq([kind : Kind, off : DOMAIN Influence])
  BY TrScoreAssumption
<1>2. objs \in Seq(Fresh)
  <2>1. DOMAIN m = 1..Len(m) /\ Len(m) \in Nat
        /\ \A k \in 1..Len(m) : m[k].kind \in Kind /\ m[k].off \in DOMAIN Influence
    <3>. DEFINE N == [kind : Kind, off : DOMAIN Influence]
    <3>1. \A x \in N : x.kind \in Kind /\ x.off \in DOMAIN Influence
      OBVIOUS
    <3>2. m \in Seq(N)
      BY <1>1
    <3>. HIDE DEF N
    <3>3. DOMAIN m = 1..Len(m) /\ Len(m) \in Nat /\ \A k \in 1..Len(m) : m[k] \in N
      BY <3>2
    <3>. QED
      BY <3>1, <3>3
  <2>2. ASSUME NEW k \in 1..Len(m)  PROVE objs[k] \in Fresh
    BY <2>1 DEF Fresh, IsBonus
  <2>. HIDE DEF objs
  <2>3. objs = [k \in 1..Len(m) |-> objs[k]]
    BY <2>1 DEF objs
  <2>. QED
    BY <2>1, <2>2, <2>3
<1>3. n = [objs |-> objs, great |-> Cardinality(With(objs, "GREAT")), good |-> 0, miss |-> 0,
           combo |-> 0, star |-> 0]
  BY DEF Load
<1>. HIDE DEF objs, n
<1>4. IsMap(n) /\ n.objs = objs
  BY <1>2, <1>3, FreshObjects DEF IsMap
<1>5. Exact(n)
  BY <1>2, <1>3, <1>4, FreshObjects, FS_EmptySet DEF Exact
<1>. QED
  BY <1>2, <1>4, <1>5 DEF n

\* Flat notes keep their states.
LEMMA FlatFresh ==
  ASSUME NEW objs \in Seq(Fresh)
  PROVE  Flat(objs) \in Seq(Fresh) /\ With(Flat(objs), "GREAT") = With(objs, "GREAT")
<1>. DEFINE kind(k) == CASE objs[k].kind = "D" -> "d" [] objs[k].kind = "K" -> "k" [] OTHER -> objs[k].kind
            f == Flat(objs)
<1>1. /\ DOMAIN objs = 1..Len(objs) /\ Len(objs) \in Nat
      /\ \A k \in 1..Len(objs) : objs[k] \in Fresh
  OBVIOUS
<1>2. f = [k \in 1..Len(objs) |-> [objs[k] EXCEPT !.kind = kind(k)]]
  BY <1>1 DEF Flat
<1>3. ASSUME NEW k \in 1..Len(objs)
      PROVE  f[k] \in Fresh /\ f[k].ps = objs[k].ps
  <2>. DEFINE c == kind(k)
              o == objs[k]
  <2>1. c \in Kind /\ (c \in {"r", "s"} <=> o.kind \in {"r", "s"})
    BY <1>1 DEF Fresh, Kind
  <2>2. f[k] = [o EXCEPT !.kind = c]
    BY <1>2
  <2>. HIDE DEF c, f
  <2>. QED
    BY <1>1, <2>1, <2>2 DEF Fresh, IsBonus
<1>. HIDE DEF f
<1>4. DOMAIN f = 1..Len(objs) /\ f = [k \in 1..Len(objs) |-> f[k]]
  BY <1>2
<1>5. f \in Seq(Fresh)
  BY <1>1, <1>3, <1>4
<1>6. With(f, "GREAT") = With(objs, "GREAT")
  BY <1>1, <1>3, <1>4 DEF With
<1>. QED
  BY <1>5, <1>6 DEF f

\* A sequence without its element i.
LEMMA Removed ==
  ASSUME NEW s \in Seq(Fresh), NEW i \in 1..Len(s)
  PROVE  LET r == RemoveAt(s, i)
         IN /\ r \in Seq(Fresh) /\ Len(r) = Len(s) - 1
            /\ \A k \in 1..Len(r) : r[k] = IF k < i THEN s[k] ELSE s[k + 1]
<1>. DEFINE n == Len(s)
            a == SubSeq(s, 1, i - 1)
            b == SubSeq(s, i + 1, n)
<1>1. n \in Nat /\ i \in Nat /\ i >= 1 /\ i <= n /\ \A k \in 1..n : s[k] \in Fresh
  OBVIOUS
<1>2. a \in Seq(Fresh) /\ Len(a) = i - 1 /\ \A k \in 1..(i - 1) : a[k] = s[k]
  <2>1. \A k \in 1..(i - 1) : s[k] \in Fresh
    BY <1>1
  <2>. HIDE DEF n
  <2>2. /\ a \in Seq(Fresh)
        /\ Len(a) = IF 1 <= i - 1 THEN (i - 1) - 1 + 1 ELSE 0
        /\ \A k \in 1..((i - 1) - 1 + 1) : a[k] = s[1 + k - 1]
    BY <1>1, <2>1, SubSeqProperties
  <2>. HIDE DEF a
  <2>. QED
    BY <1>1, <2>2
<1>3. b \in Seq(Fresh) /\ Len(b) = n - i /\ \A k \in 1..(n - i) : b[k] = s[k + i]
  <2>1. \A k \in (i + 1)..n : s[k] \in Fresh
    BY <1>1
  <2>. HIDE DEF n
  <2>2. /\ b \in Seq(Fresh)
        /\ Len(b) = IF i + 1 <= n THEN n - (i + 1) + 1 ELSE 0
        /\ \A k \in 1..(n - (i + 1) + 1) : b[k] = s[(i + 1) + k - 1]
    BY <1>1, <2>1, SubSeqProperties
  <2>. HIDE DEF b
  <2>. QED
    BY <1>1, <2>2
<1>. DEFINE r == RemoveAt(s, i)
<1>4. r = a \o b
  BY DEF RemoveAt
<1>. HIDE DEF a, b, r, n
<1>5. /\ r \in Seq(Fresh) /\ Len(r) = Len(a) + Len(b)
      /\ \A k \in 1..(Len(a) + Len(b)) : r[k] = IF k <= Len(a) THEN a[k] ELSE b[k - Len(a)]
  BY <1>2, <1>3, <1>4, ConcatProperties
<1>6. Len(r) = n - 1
  BY <1>1, <1>2, <1>3, <1>5
<1>7. \A k \in 1..(n - 1) : r[k] = IF k < i THEN s[k] ELSE s[k + 1]
  BY <1>1, <1>2, <1>3, <1>5
<1>. QED
  BY <1>5, <1>6, <1>7 DEF r, n

\* Removing a bonus leaves as many GREAT.
LEMMA RemovedGreat ==
  ASSUME NEW s \in Seq(Fresh), NEW i \in 1..Len(s), IsBonus(s[i])
  PROVE  Cardinality(With(RemoveAt(s, i), "GREAT")) = Cardinality(With(s, "GREAT"))
<1>. DEFINE r == RemoveAt(s, i)
            S == With(s, "GREAT")
            T == With(r, "GREAT")
            h == [j \in S |-> IF j < i THEN j ELSE j - 1]
            n == Len(s)
<1>1. /\ r \in Seq(Fresh) /\ Len(r) = n - 1
      /\ \A k \in 1..Len(r) : r[k] = IF k < i THEN s[k] ELSE s[k + 1]
  BY Removed
<1>2. n \in Nat /\ i \in 1..n /\ IsFiniteSet(S)
      /\ \A k : k \in S <=> k \in 1..n /\ s[k].ps = "GREAT"
  BY FreshObjects DEF With
<1>3. i \notin S
  <2>1. s[i].ps # "GREAT"
    BY FreshObjects
  <2>. QED
    BY <1>2, <2>1
<1>. HIDE DEF r
<1>4. \A k : k \in T <=> k \in 1..(n - 1) /\ r[k].ps = "GREAT"
  BY <1>1 DEF With
<1>. HIDE DEF n, S, T
<1>5. h \in [S -> T]
  <2>1. ASSUME NEW j \in S  PROVE h[j] \in T
    <3>1. j \in 1..n /\ j # i /\ s[j].ps = "GREAT" /\ h[j] = IF j < i THEN j ELSE j - 1
      BY <1>2, <1>3
    <3>. HIDE DEF h
    <3>2. h[j] \in 1..(n - 1) /\ r[h[j]] = s[j]
      BY <1>1, <1>2, <3>1
    <3>. QED
      BY <1>4, <3>1, <3>2
  <2>. QED
    BY <2>1
<1>6. \A j, k \in S : h[j] = h[k] => j = k
  <2>1. \A j \in S : j \in Int /\ j # i
    BY <1>2, <1>3
  <2>. QED
    BY <1>2, <2>1
<1>7. \A k \in T : \E j \in S : h[j] = k
  <2>1. ASSUME NEW k \in T  PROVE \E j \in S : h[j] = k
    <3>. DEFINE j == IF k < i THEN k ELSE k + 1
    <3>1. k \in 1..(n - 1) /\ r[k].ps = "GREAT" /\ r[k] = s[j]
      BY <1>1, <1>2, <1>4, <2>1
    <3>2. j \in 1..n /\ s[j].ps = "GREAT"
      BY <1>2, <3>1
    <3>3. j \in S
      BY <1>2, <3>2
    <3>4. h[j] = k
      BY <1>2, <3>1, <3>3
    <3>. QED
      BY <3>3, <3>4
  <2>. QED
    BY <2>1
<1>8. h \in Bijection(S, T)
  <2>. HIDE DEF h
  <2>. QED
    BY <1>5, <1>6, <1>7, Fun_IsBij
<1>9. ExistsBijection(S, T)
  BY <1>8 DEF ExistsBijection
<1>10. Cardinality(T) = Cardinality(S)
  BY <1>2, <1>9, FS_Bijection
<1>. QED
  BY <1>10 DEF S, T, r

\* trm_remove_bonus leaves as many GREAT, though it skips the object after a removed one.
LEMMA RemoveBonusFresh ==
  ASSUME NEW objs \in Seq(Fresh)
  PROVE  /\ RemoveBonus(objs) \in Seq(Fresh)
         /\ Cardinality(With(RemoveBonus(objs), "GREAT")) = Cardinality(With(objs, "GREAT"))
<1>. DEFINE N == Len(objs)
            c == Cardinality(With(objs, "GREAT"))
            V == {s \in Seq(Fresh) : Cardinality(With(s, "GREAT")) = c}
            step(k, left) == IF k <= Len(left) /\ IsBonus(left[k]) THEN RemoveAt(left, k) ELSE left
            h == [p \in (1..N) \X V |-> step(p[1], p[2])]
            Good(g) == g = [k \in 0..N |-> IF k = 0 THEN objs ELSE step(k, g[k - 1])]
<1>1. N \in Nat /\ objs \in V
  OBVIOUS
<1>2. ASSUME NEW k \in 1..N, NEW v \in V
      PROVE  h[<<k, v>>] = step(k, v) /\ step(k, v) \in V
  <2>. DEFINE q == <<k, v>>
  <2>1. q \in (1..N) \X V /\ q[1] = k /\ q[2] = v
    OBVIOUS
  <2>. HIDE DEF q, V, N
  <2>2. h[q] = step(k, v)
    BY <2>1
  <2>3. step(k, v) \in V
    <3>1. v \in Seq(Fresh) /\ Len(v) \in Nat /\ Cardinality(With(v, "GREAT")) = c
      BY DEF V
    <3>2. CASE k <= Len(v) /\ IsBonus(v[k])
      <4>1. k \in 1..Len(v)
        BY <1>1, <3>1, <3>2
      <4>2. RemoveAt(v, k) \in Seq(Fresh)
        BY <3>1, <4>1, Removed
      <4>3. Cardinality(With(RemoveAt(v, k), "GREAT")) = c
        BY <3>1, <3>2, <4>1, RemovedGreat
      <4>. QED
        BY <3>2, <4>2, <4>3 DEF V
    <3>3. CASE ~(k <= Len(v) /\ IsBonus(v[k]))
      BY <3>3
    <3>. QED
      BY <3>2, <3>3
  <2>. QED
    BY <2>2, <2>3 DEF q
<1>. HIDE DEF V, h, step, N
<1>3. PICK g \in [0..N -> V] : g = [k \in 0..N |-> IF k = 0 THEN objs ELSE h[<<k, g[k - 1]>>]]
  <2>1. Steps(N, V, objs, h)
    BY <1>1, <1>2 DEF Steps
  <2>. QED
    BY <2>1, StepFunction
<1>4. \A k \in 1..N : h[<<k, g[k - 1]>>] = step(k, g[k - 1])
  <2>1. \A k \in 1..N : g[k - 1] \in V
    <3>1. g \in [0..N -> V] /\ \A k \in 1..N : k - 1 \in 0..N
      BY <1>1, <1>3
    <3>. QED
      BY <3>1
  <2>. QED
    BY <1>2, <2>1
<1>5. Good(g)
  <2>1. g = [k \in 0..N |-> g[k]]
    BY <1>3
  <2>2. ASSUME NEW k \in 0..N  PROVE g[k] = IF k = 0 THEN objs ELSE step(k, g[k - 1])
    <3>1. g[k] = IF k = 0 THEN objs ELSE h[<<k, g[k - 1]>>]
      BY <1>3
    <3>2. CASE k = 0
      BY <3>1, <3>2
    <3>3. CASE k \in 1..N
      BY <1>4, <3>1, <3>3
    <3>. QED
      BY <1>1, <3>2, <3>3
  <2>. QED
    BY <2>1, <2>2
<1>6. PICK f : f = (CHOOSE x : Good(x))
  OBVIOUS
<1>7. Good(f)
  <2>. HIDE DEF Good
  <2>. QED
    BY <1>5, <1>6
<1>8. RemoveBonus(objs) = f[N]
  <2>. HIDE DEF Good, N
  <2>. QED
    BY <1>6 DEF RemoveBonus, Good, step, N
<1>9. f[N] \in V
  <2>. DEFINE P == {k \in Nat : k <= N => f[k] \in V}
  <2>1. f[0] = objs /\ \A k \in 1..N : f[k] = step(k, f[k - 1])
    BY <1>1, <1>7
  <2>. HIDE DEF N
  <2>2. 0 \in P
    BY <1>1, <2>1
  <2>3. ASSUME NEW n \in Nat, n \in P  PROVE n + 1 \in P
    <3>1. ASSUME n + 1 <= N  PROVE f[n + 1] \in V
      <4>1. f[n] \in V /\ n + 1 \in 1..N /\ (n + 1) - 1 = n
        BY <1>1, <2>3, <3>1
      <4>2. f[n + 1] = step(n + 1, f[n])
        BY <2>1, <4>1
      <4>. QED
        BY <1>2, <4>1, <4>2
    <3>. QED
      BY <3>1
  <2>. HIDE DEF P
  <2>4. \A n \in Nat : n \in P
    BY <2>2, <2>3, NatSetInduction
  <2>. QED
    BY <1>1, <2>4 DEF P
<1>. QED
  BY <1>8, <1>9 DEF V

\* trm_add_modifier keeps the counters right: it only removes objects without a counter.
LEMMA ModifiedExact ==
  ASSUME NEW m, Exact(m), m.objs \in Seq(Fresh)
  PROVE  Exact(Modified(m))
<1>. DEFINE flat == IF conf.flat # 0 THEN Flat(m.objs) ELSE m.objs
            objs == IF conf.no_bonus # 0 THEN RemoveBonus(flat) ELSE flat
            n == Modified(m)
            c == Cardinality(With(m.objs, "GREAT"))
<1>1. flat \in Seq(Fresh) /\ Cardinality(With(flat, "GREAT")) = c
  BY FlatFresh
<1>2. n = [m EXCEPT !.objs = objs]
  BY DEF Modified
<1>. HIDE DEF flat
<1>3. objs \in Seq(Fresh) /\ Cardinality(With(objs, "GREAT")) = c
  BY <1>1, RemoveBonusFresh
<1>. HIDE DEF objs, c, n
<1>4. n = [objs |-> objs, great |-> m.great, good |-> m.good, miss |-> m.miss,
           combo |-> m.combo, star |-> m.star]
  BY <1>2 DEF Exact, IsMap
<1>5. IsObjects(objs) /\ With(objs, "GOOD") = {} /\ With(objs, "MISS") = {}
  BY <1>3, FreshObjects
<1>6. m.great = c /\ m.good = 0 /\ m.miss = 0
  <2>1. With(m.objs, "GOOD") = {} /\ With(m.objs, "MISS") = {}
    BY FreshObjects
  <2>. QED
    BY <2>1, FS_EmptySet DEF Exact, c
<1>7. IsMap(n) /\ n.objs = objs /\ n.great = c /\ n.good = 0 /\ n.miss = 0
  BY <1>4, <1>5, <1>6 DEF IsMap
<1>8. Exact(n)
  BY <1>3, <1>5, <1>7, FS_EmptySet DEF Exact
<1>. QED
  BY <1>8 DEF n

-----------------------------------------------------------------------------
\* What the loop of trs_compute makes of its map, print or not: the first map,
\* the map a change gives, and the map after that change.
FirstMap == Computed(Modified(origin))
Changed(m) == SetPs(m, Choose(m), ChangeWanted(m))
NextMap(m) == RecomputedOrDamped(Changed(m), Choose(m))
UnprintedTo(n) ==
  CHOOSE u : u = [k \in 0..n |-> IF k = 0 THEN FirstMap ELSE NextMap(u[k - 1])]

\* The property's Unprinted is that function, for the changes made so far.
LEMMA UnprintedDef == Unprinted = UnprintedTo(Len(changed))
BY DEF Unprinted, UnprintedTo, FirstMap, Changed, NextMap

\* Such a function exists.
LEMMA UnprintedIs ==
  ASSUME NEW n \in Nat
  PROVE  UnprintedTo(n) = [k \in 0..n |-> IF k = 0 THEN FirstMap ELSE NextMap(UnprintedTo(n)[k - 1])]
<1>. DEFINE Good(u, a) == u = [k \in 0..a |-> IF k = 0 THEN FirstMap ELSE NextMap(u[k - 1])]
            S == {a \in Nat : \E u : Good(u, a)}
<1>1. 0 \in S
  <2>. DEFINE u == [k \in 0..0 |-> FirstMap]
  <2>1. \A k \in 0..0 : k = 0
    OBVIOUS
  <2>2. Good(u, 0)
    BY <2>1
  <2>. HIDE DEF u, Good
  <2>. QED
    BY <2>2
<1>2. ASSUME NEW a \in Nat, a \in S  PROVE a + 1 \in S
  <2>1. PICK u : Good(u, a)
    BY <1>2
  <2>. DEFINE f == [k \in 0..(a + 1) |-> IF k = a + 1 THEN NextMap(u[a]) ELSE u[k]]
  <2>2. ASSUME NEW k \in 0..(a + 1)
        PROVE  f[k] = IF k = 0 THEN FirstMap ELSE NextMap(f[k - 1])
    <3>1. CASE k = a + 1
      <4>1. f[k] = NextMap(u[a]) /\ k - 1 = a /\ f[a] = u[a] /\ k # 0
        BY <3>1
      <4>. HIDE DEF f
      <4>. QED
        BY <4>1
    <3>2. CASE k \in 0..a
      <4>1. f[k] = u[k] /\ (k # 0 => f[k - 1] = u[k - 1])
        BY <3>2
      <4>2. u[k] = IF k = 0 THEN FirstMap ELSE NextMap(u[k - 1])
        BY <2>1, <3>2
      <4>. HIDE DEF f
      <4>3. CASE k = 0
        BY <4>1, <4>2, <4>3
      <4>4. CASE k # 0
        BY <4>1, <4>2, <4>4
      <4>. QED
        BY <4>3, <4>4
    <3>. QED
      BY <3>1, <3>2
  <2>3. f = [k \in 0..(a + 1) |-> f[k]]
    OBVIOUS
  <2>. HIDE DEF f
  <2>4. Good(f, a + 1)
    BY <2>2, <2>3
  <2>. HIDE DEF Good
  <2>. QED
    BY <2>4
<1>3. \A a \in Nat : a \in S
  <2>. HIDE DEF S
  <2>. QED
    BY <1>1, <1>2, NatSetInduction
<1>4. \E u : Good(u, n)
  BY <1>3
<1>5. PICK w : w = CHOOSE u : Good(u, n)
  OBVIOUS
<1>6. Good(w, n)
  <2>. HIDE DEF Good
  <2>. QED
    BY <1>4, <1>5
<1>7. UnprintedTo(n) = w
  BY <1>5 DEF UnprintedTo
<1>. QED
  BY <1>6, <1>7

\* The map of the loop after n changes, and how it goes from one to the next.
UnprintedAt(n) == UnprintedTo(n)[n]

UnprintedRule ==
  /\ UnprintedAt(0) = FirstMap
  /\ \A n \in Nat : UnprintedAt(n + 1) = NextMap(UnprintedAt(n))

\* The maps after n and n + 1 changes do not depend on how many will follow.
LEMMA UnprintedNext == UnprintedRule
<1>1. UnprintedAt(0) = FirstMap
  BY UnprintedIs DEF UnprintedAt
<1>2. ASSUME NEW n \in Nat
      PROVE  UnprintedAt(n + 1) = NextMap(UnprintedAt(n))
  <2>. DEFINE u == UnprintedTo(n)
              v == UnprintedTo(n + 1)
              S == {k \in Nat : k <= n => v[k] = u[k]}
  <2>1. /\ u = [k \in 0..n |-> IF k = 0 THEN FirstMap ELSE NextMap(u[k - 1])]
        /\ v = [k \in 0..(n + 1) |-> IF k = 0 THEN FirstMap ELSE NextMap(v[k - 1])]
    <3>1. n + 1 \in Nat
      OBVIOUS
    <3>. HIDE DEF u, v
    <3>. QED
      BY <3>1, UnprintedIs DEF u, v
  <2>. HIDE DEF u, v
  <2>2. /\ u[0] = FirstMap /\ v[0] = FirstMap
        /\ \A k \in 1..n : u[k] = NextMap(u[k - 1])
        /\ \A k \in 1..(n + 1) : v[k] = NextMap(v[k - 1])
    BY <2>1
  <2>3. 0 \in S
    BY <2>2
  <2>4. ASSUME NEW k \in Nat, k \in S  PROVE k + 1 \in S
    <3>1. ASSUME k + 1 <= n  PROVE v[k + 1] = u[k + 1]
      <4>1. k + 1 \in 1..n /\ k + 1 \in 1..(n + 1) /\ (k + 1) - 1 = k /\ v[k] = u[k]
        BY <2>4, <3>1
      <4>. QED
        BY <2>2, <4>1
    <3>. QED
      BY <3>1
  <2>5. \A k \in Nat : k \in S
    <3>. HIDE DEF S
    <3>. QED
      BY <2>3, <2>4, NatSetInduction
  <2>6. v[n] = u[n] /\ n + 1 \in 1..(n + 1) /\ (n + 1) - 1 = n
    BY <2>5
  <2>7. v[n + 1] = NextMap(u[n])
    BY <2>2, <2>6
  <2>. QED
    BY <2>7 DEF UnprintedAt, u, v
<1>. QED
  BY <1>1, <1>2 DEF UnprintedRule

\* The maps of the loop depend on the options, the loaded map and the target only.
LEMMA NextMapSame ==
  ASSUME conf' = conf, origin' = origin, target' = target, NEW m
  PROVE  /\ FirstMap' = FirstMap /\ NextMap(m)' = NextMap(m)
         /\ Choose(m)' = Choose(m) /\ Changed(m)' = Changed(m)
<1>1. FirstMap' = FirstMap
  BY DEF FirstMap, Modified
<1>2. Choose(m)' = Choose(m)
  BY DEF Choose
<1>3. ChangeWanted(m)' = ChangeWanted(m)
  BY DEF ChangeWanted
<1>4. Changed(m)' = Changed(m)
  BY <1>2, <1>3 DEF Changed
<1>5. ASSUME NEW x  PROVE MustCompute(x)' = MustCompute(x)
  BY DEF MustCompute, IsFinished
<1>6. NextMap(m)' = NextMap(m)
  BY <1>2, <1>4, <1>5 DEF NextMap, RecomputedOrDamped
<1>. QED
  BY <1>1, <1>2, <1>4, <1>6

\* So they stay when these stay.
LEMMA UnprintedSame ==
  ASSUME conf' = conf, origin' = origin, target' = target, NEW n \in Nat
  PROVE  UnprintedAt(n)' = UnprintedAt(n)
<1>. DEFINE S == {k \in Nat : UnprintedAt(k)' = UnprintedAt(k)}
<1>1. /\ UnprintedAt(0)' = FirstMap'
      /\ \A k \in Nat : UnprintedAt(k + 1)' = NextMap(UnprintedAt(k))'
  <2>1. UnprintedRule'
    BY UnprintedNext, PTL
  <2>. QED
    BY <2>1 DEF UnprintedRule
<1>2. 0 \in S
  BY <1>1, NextMapSame, UnprintedNext DEF UnprintedRule
<1>3. ASSUME NEW k \in Nat, k \in S  PROVE k + 1 \in S
  BY <1>1, <1>3, NextMapSame, UnprintedNext DEF UnprintedRule
<1>. HIDE DEF S
<1>4. \A k \in Nat : k \in S
  BY <1>2, <1>3, NatSetInduction
<1>. QED
  BY <1>4 DEF S

-----------------------------------------------------------------------------
(***************************************************************************)
(* The maps that are kept, printed and changed.                            *)
(***************************************************************************)
\* The inductive invariant of the maps: all are right, and the loaded one is untouched.
MapsOK ==
  /\ Exact(origin) /\ origin.objs \in Seq(Fresh)
  /\ Exact(map) /\ Exact(saved)
  /\ \E S : printed \in Seq(S) /\ \A m \in S : Exact(m)
  /\ changed \in Seq(DOMAIN map.objs)
  /\ pc = "print" => DOMAIN saved.objs = DOMAIN map.objs
  /\ pc \in {"start", "prepare_acc", "prepare_ggm", "first"} => changed = <<>>
  /\ pc \in {"prepare_acc", "prepare_ggm", "first"} => map = Modified(origin)

\* It holds at the start.
LEMMA MapsInit == Init => MapsOK
<1>. SUFFICES ASSUME Init  PROVE MapsOK
  OBVIOUS
<1>1. PICK m \in Maps : origin = Load(m)
  BY DEF Init
<1>2. Exact(origin) /\ origin.objs \in Seq(Fresh)
  BY <1>1, LoadFresh
<1>3. printed \in Seq({}) /\ changed \in Seq(DOMAIN map.objs)
  BY DEF Init
<1>4. \E S : printed \in Seq(S) /\ \A n \in S : Exact(n)
  BY <1>3
<1>5. Exact(map) /\ Exact(saved) /\ changed = <<>> /\ pc = "start"
  BY <1>2 DEF Init
<1>. QED
  BY <1>2, <1>3, <1>4, <1>5 DEF MapsOK

\* What a step keeps when the map it leaves has the same objects and is right.
LEMMA MapsKept ==
  ASSUME MapsOK, origin' = origin, changed' = changed, printed' = printed,
         Exact(map)', DOMAIN map'.objs = DOMAIN map.objs,
         Exact(saved)',
         pc' = "print" => DOMAIN saved'.objs = DOMAIN map'.objs,
         pc' \notin {"start", "prepare_acc", "prepare_ggm", "first"}
  PROVE  MapsOK'
BY DEF MapsOK

\* trs_new and trs_prepare leave the modified map.
LEMMA MapsPrepare ==
  ASSUME MapsOK, Start \/ PrepareGgm \/ PrepareAcc
  PROVE  MapsOK'
<1>1. /\ conf' = conf /\ origin' = origin /\ changed' = changed /\ printed' = printed /\ saved' = saved
      /\ pc' \in {"prepare_acc", "prepare_ggm", "first"} /\ changed = <<>>
      /\ map' = Modified(origin)
  BY DEF MapsOK, Start, PrepareGgm, PrepareAcc
<1>2. Exact(Modified(origin))
  BY ModifiedExact DEF MapsOK
<1>3. Modified(origin)' = Modified(origin)
  BY <1>1 DEF Modified
<1>4. Exact(map)'
  BY <1>1, <1>2
<1>5. changed' \in Seq(DOMAIN map'.objs)
  BY <1>1
<1>6. map' = Modified(origin)'
  BY <1>1, <1>3
<1>. QED
  BY <1>1, <1>4, <1>5, <1>6 DEF MapsOK

\* What follows a change, and what is rated to be printed, is right.
LEMMA RatedExact ==
  ASSUME NEW m, Exact(m), NEW i
  PROVE  /\ Exact(RecomputedOrDamped(m, i)) /\ DOMAIN RecomputedOrDamped(m, i).objs = DOMAIN m.objs
         /\ Exact(ToPrint(m)) /\ DOMAIN ToPrint(m).objs = DOMAIN m.objs
BY ComputedExact, DampedExact DEF RecomputedOrDamped, ToPrint

\* A step of trs_compute leaves the maps right.
LEMMA MapsLoop ==
  ASSUME MapsOK, First \/ ChangeOneObject \/ Recompute \/ PrintAndDb \/ End
  PROVE  MapsOK'
<1>1. CASE First
  <2>1. /\ origin' = origin /\ changed' = changed /\ printed' = printed
        /\ map' = Computed(map) /\ saved' = Computed(map)
        /\ pc' \notin {"start", "prepare_acc", "prepare_ggm", "first"}
    BY <1>1 DEF First
  <2>2. Exact(Computed(map)) /\ DOMAIN Computed(map).objs = DOMAIN map.objs
    BY ComputedExact DEF MapsOK
  <2>3. Exact(map)' /\ Exact(saved)'
    BY <2>1, <2>2
  <2>. QED
    BY <2>1, <2>2, <2>3, MapsKept
<1>2. CASE ChangeOneObject
  <2>1. CASE Choose(map) \in DOMAIN map.objs
    <3>. DEFINE i == Choose(map)
                m == SetPs(map, i, ChangeWanted(map))
    <3>1. /\ origin' = origin /\ printed' = printed /\ saved' = saved
          /\ map' = m /\ changed' = Append(changed, i) /\ pc' = "changed"
      BY <1>2, <2>1 DEF ChangeOneObject
    <3>2. ChangeWanted(map) \in {"MISS", "GOOD"}
      BY DEF ChangeWanted
    <3>3. Exact(m) /\ DOMAIN m.objs = DOMAIN map.objs
      BY <2>1, <3>2, SetPsExact DEF MapsOK
    <3>. HIDE DEF m, i
    <3>4. Exact(map)'
      BY <3>1, <3>3
    <3>5. Append(changed, i) \in Seq(DOMAIN map.objs)
      BY <2>1 DEF MapsOK, i
    <3>6. changed' \in Seq(DOMAIN map'.objs)
      BY <3>1, <3>3, <3>5
    <3>. QED
      BY <3>1, <3>4, <3>6 DEF MapsOK
  <2>2. CASE Choose(map) \notin DOMAIN map.objs
    <3>1. UNCHANGED <<origin, map, saved, changed, printed>> /\ pc' = "undefined"
      BY <1>2, <2>2 DEF ChangeOneObject
    <3>. QED
      BY <3>1 DEF MapsOK
  <2>. QED
    BY <2>1, <2>2
<1>3. CASE Recompute
  <2>. DEFINE m == RecomputedOrDamped(map, chosen)
  <2>1. /\ origin' = origin /\ changed' = changed /\ printed' = printed
        /\ \/ map' = ToPrint(m) /\ saved' = m /\ pc' = "print"
           \/ map' = m /\ saved' = saved /\ pc' = "loop"
    BY <1>3 DEF Recompute, Restored
  <2>2. Exact(m) /\ DOMAIN m.objs = DOMAIN map.objs
    BY RatedExact DEF MapsOK
  <2>. HIDE DEF m
  <2>3. Exact(ToPrint(m)) /\ DOMAIN ToPrint(m).objs = DOMAIN m.objs
    BY <2>2, RatedExact
  <2>4. /\ Exact(map)' /\ Exact(saved)' /\ DOMAIN map'.objs = DOMAIN map.objs
        /\ pc' = "print" => DOMAIN saved'.objs = DOMAIN map'.objs
    BY <2>1, <2>2, <2>3 DEF MapsOK
  <2>5. pc' \notin {"start", "prepare_acc", "prepare_ggm", "first"}
    BY <2>1
  <2>. QED
    BY <2>1, <2>4, <2>5, MapsKept
<1>4. CASE PrintAndDb
  <2>1. /\ origin' = origin /\ changed' = changed /\ saved' = saved /\ pc = "print" /\ pc' = "loop"
        /\ map' = saved /\ printed' = Append(printed, map)
    BY <1>4 DEF PrintAndDb
  <2>2. PICK S : printed \in Seq(S) /\ \A m \in S : Exact(m)
    BY DEF MapsOK
  <2>3. Append(printed, map) \in Seq(S \cup {map})
    BY <2>2
  <2>4. \A m \in S \cup {map} : Exact(m)
    BY <2>2 DEF MapsOK
  <2>5. \E R : Append(printed, map) \in Seq(R) /\ \A m \in R : Exact(m)
    BY <2>3, <2>4
  <2>6. Exact(map)' /\ changed' \in Seq(DOMAIN map'.objs)
    BY <2>1 DEF MapsOK
  <2>. QED
    BY <2>1, <2>5, <2>6 DEF MapsOK
<1>5. CASE End
  <2>1. UNCHANGED <<origin, map, saved, changed, printed>> /\ pc' = "done"
    BY <1>5 DEF End
  <2>. QED
    BY <2>1 DEF MapsOK
<1>. QED
  BY <1>1, <1>2, <1>3, <1>4, <1>5

\* No step leaves the invariant.
LEMMA MapsNext ==
  ASSUME MapsOK, [Next]_vars
  PROVE  MapsOK'
<1>1. CASE UNCHANGED vars
  <2>1. Modified(origin)' = Modified(origin)
    BY <1>1 DEF vars, Modified
  <2>. QED
    BY <1>1, <2>1 DEF vars, MapsOK
<1>. QED
  BY <1>1, MapsPrepare, MapsLoop DEF Next, Step, Terminated

\* The counters of the map of the loop, of the map that is kept and of all that is
\* printed are the numbers of objects in each state: trm_add_to_ps never misses a change.
THEOREM CountsAlwaysMatch == Spec => []CountsMatch
<1>1. MapsOK => CountsMatch
  <2>1. ASSUME MapsOK, NEW k \in DOMAIN printed  PROVE Exact(printed[k])
    <3>1. PICK S : printed \in Seq(S) /\ \A m \in S : Exact(m)
      BY <2>1 DEF MapsOK
    <3>2. printed[k] \in S
      BY <3>1
    <3>. QED
      BY <3>1, <3>2
  <2>2. MapsOK => \A m \in {map, saved} \cup ToSet(printed) : Exact(m)
    BY <2>1 DEF MapsOK, ToSet
  <2>. QED
    BY <2>2 DEF CountsMatch, Exact
<1>. QED
  BY <1>1, MapsInit, MapsNext, PTL DEF Spec

-----------------------------------------------------------------------------
(***************************************************************************)
(* The map of the loop does not depend on the prints.                      *)
(***************************************************************************)
\* After n changes, and in the middle of one.
Follows(n) ==
  /\ pc \in {"loop", "done"} => map = UnprintedAt(n)
  /\ pc = "print" => saved = UnprintedAt(n)
  /\ pc = "changed" => /\ n > 0
                       /\ chosen = Choose(UnprintedAt(n - 1))
                       /\ map = Changed(UnprintedAt(n - 1))
\* The inductive invariant: the map is where the changes made so far lead.
FollowsOK == \A n \in Nat : n = Len(changed) => Follows(n)

\* Nothing is changed at the start.
LEMMA FollowsInit == Init => FollowsOK
BY DEF Init, FollowsOK, Follows

\* Whether a map is printed or not, the loop has its own map back.
LEMMA FollowsNext ==
  ASSUME MapsOK, FollowsOK, [Next]_vars
  PROVE  FollowsOK'
<1>0. changed \in Seq(DOMAIN map.objs) /\ Len(changed) \in Nat
  BY DEF MapsOK
<1>. SUFFICES ASSUME NEW n \in Nat, n = Len(changed')  PROVE Follows(n)'
  BY DEF FollowsOK
<1>1. CASE Start \/ PrepareGgm \/ PrepareAcc
  <2>1. pc' \notin {"loop", "done", "print", "changed"}
    BY <1>1 DEF Start, PrepareGgm, PrepareAcc
  <2>. QED
    BY <2>1 DEF Follows
<1>2. ASSUME conf' = conf, origin' = origin, target' = target, NEW k \in Nat
      PROVE  UnprintedAt(k)' = UnprintedAt(k)
  BY <1>2, UnprintedSame
<1>3. CASE First
  <2>1. /\ conf' = conf /\ origin' = origin /\ target' = target /\ changed' = changed
        /\ map' = Computed(map) /\ saved' = Computed(map) /\ pc' \in {"print", "loop"} /\ pc = "first"
    BY <1>3 DEF First
  <2>2. n = 0 /\ map = Modified(origin)
    BY <2>1 DEF MapsOK
  <2>3. Computed(map) = UnprintedAt(n)
    BY <2>2, UnprintedNext DEF UnprintedRule, FirstMap
  <2>4. UnprintedAt(n)' = UnprintedAt(n)
    BY <1>2, <2>1
  <2>. QED
    BY <2>1, <2>3, <2>4 DEF Follows
<1>4. CASE ChangeOneObject
  <2>0. /\ conf' = conf /\ origin' = origin /\ target' = target /\ pc = "loop"
    BY <1>4 DEF ChangeOneObject
  <2>1. CASE Choose(map) \in DOMAIN map.objs
    <3>1. /\ map' = Changed(map) /\ chosen' = Choose(map)
          /\ changed' = Append(changed, Choose(map)) /\ pc' = "changed"
      BY <1>4, <2>1 DEF ChangeOneObject, Changed
    <3>2. n = Len(changed) + 1
      BY <1>0, <2>1, <3>1
    <3>3. n - 1 \in Nat /\ n - 1 = Len(changed) /\ n > 0
      BY <1>0, <3>2
    <3>4. map = UnprintedAt(n - 1)
      BY <2>0, <3>3 DEF FollowsOK, Follows
    <3>5. UnprintedAt(n - 1)' = UnprintedAt(n - 1)
      BY <1>2, <2>0, <3>3
    <3>6. Changed(UnprintedAt(n - 1))' = Changed(UnprintedAt(n - 1))
          /\ Choose(UnprintedAt(n - 1))' = Choose(UnprintedAt(n - 1))
      BY <2>0, <3>5, NextMapSame
    <3>. QED
      BY <3>1, <3>3, <3>4, <3>6 DEF Follows
  <2>2. CASE Choose(map) \notin DOMAIN map.objs
    <3>1. pc' = "undefined"
      BY <1>4, <2>2 DEF ChangeOneObject
    <3>. QED
      BY <3>1 DEF Follows
  <2>. QED
    BY <2>1, <2>2
<1>5. CASE Recompute
  <2>. DEFINE m == RecomputedOrDamped(map, chosen)
  <2>1. /\ conf' = conf /\ origin' = origin /\ target' = target /\ changed' = changed /\ pc = "changed"
        /\ \/ saved' = m /\ pc' = "print"
           \/ map' = m /\ pc' = "loop"
    BY <1>5 DEF Recompute, Restored
  <2>2. Follows(n)
    BY <2>1 DEF FollowsOK
  <2>3. n > 0 /\ n - 1 \in Nat /\ n = (n - 1) + 1
    BY <2>1, <2>2 DEF Follows
  <2>4. m = NextMap(UnprintedAt(n - 1))
    BY <2>1, <2>2 DEF Follows, NextMap
  <2>. HIDE DEF m
  <2>5. UnprintedAt(n) = NextMap(UnprintedAt(n - 1))
    BY <2>3, UnprintedNext DEF UnprintedRule
  <2>6. UnprintedAt(n)' = UnprintedAt(n)
    BY <1>2, <2>1
  <2>. QED
    BY <2>1, <2>4, <2>5, <2>6 DEF Follows
<1>6. CASE PrintAndDb
  <2>1. /\ conf' = conf /\ origin' = origin /\ target' = target /\ changed' = changed /\ pc = "print"
        /\ map' = saved /\ pc' = "loop"
    BY <1>6 DEF PrintAndDb
  <2>2. saved = UnprintedAt(n)
    BY <2>1 DEF FollowsOK, Follows
  <2>3. UnprintedAt(n)' = UnprintedAt(n)
    BY <1>2, <2>1
  <2>. QED
    BY <2>1, <2>2, <2>3 DEF Follows
<1>7. CASE End
  <2>1. /\ conf' = conf /\ origin' = origin /\ target' = target /\ changed' = changed /\ pc = "loop"
        /\ map' = map /\ pc' = "done"
    BY <1>7 DEF End
  <2>2. map = UnprintedAt(n)
    BY <2>1 DEF FollowsOK, Follows
  <2>3. UnprintedAt(n)' = UnprintedAt(n)
    BY <1>2, <2>1
  <2>. QED
    BY <2>1, <2>2, <2>3 DEF Follows
<1>8. CASE UNCHANGED vars
  <2>1. /\ conf' = conf /\ origin' = origin /\ target' = target /\ changed' = changed
        /\ map' = map /\ saved' = saved /\ pc' = pc /\ chosen' = chosen
    BY <1>8 DEF vars
  <2>2. Follows(n)
    BY <2>1 DEF FollowsOK
  <2>3. UnprintedAt(n)' = UnprintedAt(n)
    BY <1>2, <2>1
  <2>4. CASE pc = "changed"
    <3>1. n - 1 \in Nat
      BY <2>2, <2>4 DEF Follows
    <3>2. UnprintedAt(n - 1)' = UnprintedAt(n - 1)
      BY <1>2, <2>1, <3>1
    <3>3. Changed(UnprintedAt(n - 1))' = Changed(UnprintedAt(n - 1))
          /\ Choose(UnprintedAt(n - 1))' = Choose(UnprintedAt(n - 1))
      BY <2>1, <3>2, NextMapSame
    <3>. QED
      BY <2>1, <2>2, <2>3, <3>3 DEF Follows
  <2>. QED
    BY <2>1, <2>2, <2>3, <2>4 DEF Follows
<1>. QED
  BY <1>1, <1>3, <1>4, <1>5, <1>6, <1>7, <1>8 DEF Next, Step, Terminated

\* The map of the loop is what it would be had nothing been printed, for every step,
\* map and rating: trs_print_and_db_if_needed leaves no trace.
THEOREM AlwaysStepIndependent == Spec => []StepIndependent
<1>1. MapsOK /\ FollowsOK => StepIndependent
  <2>. SUFFICES ASSUME MapsOK, FollowsOK, pc \in {"loop", "done"}
                PROVE  map = Unprinted[Len(changed)]
    BY DEF StepIndependent
  <2>1. Len(changed) \in Nat
    BY DEF MapsOK
  <2>2. map = UnprintedAt(Len(changed))
    BY <2>1 DEF FollowsOK, Follows
  <2>. QED
    BY <2>2, UnprintedDef DEF UnprintedAt
<1>. QED
  BY <1>1, MapsInit, MapsNext, FollowsInit, FollowsNext, PTL DEF Spec
=============================================================================
