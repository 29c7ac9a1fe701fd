-------------------------------- MODULE Heap --------------------------------
(***************************************************************************)
(* The heap of lib/util/heap.c and the sums of lib/util/sum.c that use it. *)
(* The root is at 0, the parent of i is i \div 2 and the children of i are *)
(* 2i and 2i + 1: the root is its own left child.  Extracting leaves the   *)
(* slot after the last element as it was, and goes on comparing with it.   *)
(*                                                                         *)
(* A sum is made, numbers are added to it, and it is computed, which frees *)
(* it.  An element moves up or down one step at a time.                    *)
(***************************************************************************)
EXTENDS Integers, FiniteSets, Sequences, Folds, Functions

CONSTANTS
  Number,       \* the numbers added; integers, so that sums are exact
  Capacity,     \* the size the sum is made for, which callers respect; the bound
                \* of the model on what is added to a sum that is a number
  MaxWeighted   \* MAX_NB_WEIGHTED

ASSUME HeapAssumption ==
  /\ Number \subseteq Int
  /\ Capacity \in Nat /\ MaxWeighted \in Nat \ {0}

VARIABLES
  kind,    \* the functions of the sum: "none", "perf", "acc" or "weight"
  buf,     \* heap->buf
  count,   \* heap->heap_size
  at,      \* the element that moves
  moving,  \* "no", "up" or "down"
  max,     \* what heap_extract_max returns
  compute, \* sum_compute: "no", "min1", "min2", "pair", "last", "max" or "done"
  min1,    \* acc_sum_compute
  weighted,\* weight_sum_compute: nb_weighted
  sum,     \* the number of perf_sum, or the result
  malloced,\* the numbers allocated
  added,   \* ghost: the numbers added, as a function to how often
  total,   \* ghost: what they sum to
  taken    \* ghost: the numbers of a weighted sum, as they were taken from the heap

heapVars == <<kind, buf, count, at, moving, max, compute, min1, weighted, sum, malloced,
              added, total, taken>>

\* heap->cmp: inferior for acc, superior for weight.
Cmp(x, y) == IF kind = "acc" THEN x < y ELSE x > y

Swapped(i, k) == [buf EXCEPT ![i] = buf[k], ![k] = buf[i]]

-----------------------------------------------------------------------------
(***************************************************************************)
(* heap.c.                                                                 *)
(***************************************************************************)

\* heap_insert: in the slot after the last.
HeapInsert(x) ==
  /\ buf' = [buf EXCEPT ![count] = x]
  /\ at' = count
  /\ count' = count + 1
  /\ moving' = "up"

\* heap_insert_problem, heap_insert_resolve.
InsertProblem == Cmp(buf[at], buf[at \div 2])
MoveUp ==
  /\ moving = "up"
  /\ IF InsertProblem
     THEN buf' = Swapped(at, at \div 2) /\ at' = at \div 2 /\ UNCHANGED moving
     ELSE moving' = "no" /\ UNCHANGED <<buf, at>>
  /\ UNCHANGED <<kind, count, max, compute, min1, weighted, sum, malloced, added, total, taken>>

\* heap_extract_max: the last element takes the place of the root, and its own
\* slot keeps it.
HeapExtract ==
  /\ max' = buf[0]
  /\ buf' = [buf EXCEPT ![0] = buf[count - 1]]
  /\ count' = count - 1
  /\ at' = 0
  /\ moving' = "down"

\* heap_extract_problem, heap_greater_child.  Both look at the slot after the
\* last.  (Mutant LeftProblem: the right child is not compared.)
LeftProblem == 2 * at <= count /\ Cmp(buf[2 * at], buf[at])
ExtractProblem == \/ 2 * at <= count /\ Cmp(buf[2 * at], buf[at])
                  \/ 2 * at + 1 <= count /\ Cmp(buf[2 * at + 1], buf[at])
GreaterChild == IF 2 * at = count \/ Cmp(buf[2 * at], buf[2 * at + 1])
                THEN 2 * at ELSE 2 * at + 1
MoveDown ==
  /\ moving = "down"
  /\ IF ExtractProblem
     THEN buf' = Swapped(at, GreaterChild) /\ at' = GreaterChild /\ UNCHANGED moving
     ELSE moving' = "no" /\ UNCHANGED <<buf, at>>
  /\ UNCHANGED <<kind, count, max, compute, min1, weighted, sum, malloced, added, total, taken>>

-----------------------------------------------------------------------------
(***************************************************************************)
(* sum.c.                                                                  *)
(***************************************************************************)

\* sum_new; DEFAULT is PERF, whose sum is a number allocated at once.
SumNew(type) ==
  /\ kind = "none" /\ compute = "no"
  /\ kind' = CASE type \in {"DEFAULT", "PERF"} -> "perf"
               [] type = "ACC" -> "acc"
               [] type = "WEIGHT" -> "weight"
  /\ malloced' = IF type \in {"DEFAULT", "PERF"} THEN 1 ELSE 0
  /\ UNCHANGED <<buf, count, at, moving, max, compute, min1, weighted, sum, added, total, taken>>

\* sum_add.
SumAdd(x) ==
  /\ kind # "none" /\ compute = "no" /\ moving = "no"
  /\ added' = [added EXCEPT ![x] = @ + 1]
  /\ total' = total + x
  /\ IF kind = "perf"
     THEN /\ FoldFunction(+, 0, added) < Capacity
          /\ sum' = sum + x
          /\ UNCHANGED <<buf, at, count, moving, malloced>>
     ELSE /\ count < Capacity
          /\ HeapInsert(x)
          /\ malloced' = malloced + 1
          /\ UNCHANGED sum
  /\ UNCHANGED <<kind, max, compute, min1, weighted, taken>>

\* acc_sum_compute: while there are two numbers in a heap of n, the two smallest
\* become their sum.  (Mutant StopsEarly: two are left.)
StopsEarly(n) == IF n > 2 THEN "min1" ELSE "last"
AccTurn(n) == IF n > 1 THEN "min1" ELSE "last"

\* sum_compute: a heap without elements gives 0.
SumCompute ==
  /\ kind # "none" /\ compute = "no" /\ moving = "no"
  /\ compute' = CASE kind = "perf" \/ count = 0 -> "done"
                  [] kind = "acc" /\ count > 0 -> AccTurn(count)
                  [] kind = "weight" /\ count > 0 -> "max"
  /\ malloced' = IF kind = "perf" THEN malloced - 1 ELSE malloced
  /\ IF compute' = "done" THEN UNCHANGED <<buf, count, at, moving, max>> ELSE HeapExtract
  /\ UNCHANGED <<kind, min1, weighted, sum, added, total, taken>>

AccMin1 ==
  /\ compute = "min1" /\ moving = "no"
  /\ min1' = max
  /\ compute' = "min2"
  /\ HeapExtract
  /\ UNCHANGED <<kind, weighted, sum, malloced, added, total, taken>>

AccMin2 ==
  /\ compute = "min2" /\ moving = "no"
  /\ HeapInsert(min1 + max)
  /\ malloced' = malloced - 1
  /\ compute' = "pair"
  /\ UNCHANGED <<kind, max, min1, weighted, sum, added, total, taken>>

AccNext ==
  /\ compute = "pair" /\ moving = "no"
  /\ compute' = AccTurn(count)
  /\ HeapExtract
  /\ UNCHANGED <<kind, min1, weighted, sum, malloced, added, total, taken>>

AccLast ==
  /\ compute = "last" /\ moving = "no"
  /\ sum' = max
  /\ malloced' = malloced - 1
  /\ compute' = "done"
  /\ UNCHANGED <<kind, buf, count, at, moving, max, min1, weighted, added, total, taken>>

\* weight_sum_compute: the MaxWeighted largest, each one with a weight less than
\* the one before, in MaxWeighted-ths.
Weight(x, i) == x * (MaxWeighted - i)
WeightMax ==
  /\ compute = "max" /\ moving = "no"
  /\ IF weighted < MaxWeighted
     THEN sum' = sum + Weight(max, weighted) /\ weighted' = weighted + 1
     ELSE UNCHANGED <<sum, weighted>>
  /\ taken' = Append(taken, max)
  /\ malloced' = malloced - 1
  /\ IF count = 0
     THEN compute' = "done" /\ UNCHANGED <<buf, count, at, moving, max>>
     ELSE HeapExtract /\ UNCHANGED compute
  /\ UNCHANGED <<kind, min1, added, total>>

HeapInit ==
  /\ kind = "none"
  /\ buf = [i \in 0..Capacity |-> 0]
  /\ count = 0 /\ at = 0 /\ moving = "no" /\ max = 0
  /\ compute = "no" /\ min1 = 0 /\ weighted = 0 /\ sum = 0 /\ malloced = 0
  /\ added = [x \in Number |-> 0] /\ total = 0 /\ taken = << >>

HeapNext ==
  \/ \E type \in {"DEFAULT", "PERF", "ACC", "WEIGHT"} : SumNew(type)
  \/ \E x \in Number : SumAdd(x)
  \/ SumCompute \/ AccMin1 \/ AccMin2 \/ AccNext \/ AccLast \/ WeightMax
  \/ MoveUp \/ MoveDown

HeapSpec == HeapInit /\ [][HeapNext]_heapVars

-----------------------------------------------------------------------------
(***************************************************************************)
(* Properties.                                                             *)
(***************************************************************************)

\* An extraction takes a largest element (for cmp) of all, although the heap is
\* compared past its end and its root is its own child (heap_extract_max).
ExtractsLargest == moving = "down" => \A i \in 0..count - 1 : ~Cmp(buf[i], max)

\* A sum that is computed is that of all that was added, whatever the order in
\* which pairs were merged, and every number allocated was freed, once
\* (acc_sum_compute, perf_sum_compute, weight_sum_compute).
SumIsWhole ==
  compute = "done" => malloced = 0 /\ (kind # "weight" => sum = total)

\* What the first n numbers of s weigh, in MaxWeighted-ths.
Weighed(s, n) ==
  LET part[i \in 0..Len(s)] ==
        IF i = 0 THEN 0 ELSE part[i - 1] + IF i <= MaxWeighted THEN Weight(s[i], i - 1) ELSE 0
  IN  part[n]

\* A weighted sum has the numbers added, each as often as it was, and the weights
\* go to them from the largest to the smallest, whatever the order in which they
\* were added (weight_sum_compute).
WeightsInOrder ==
  compute = "done" /\ kind = "weight" =>
    /\ \A i \in 1..Len(taken) : taken[i] \in Number
    /\ \A x \in Number : Cardinality({i \in 1..Len(taken) : taken[i] = x}) = added[x]
    /\ \A i, j \in 1..Len(taken) : i < j => taken[i] >= taken[j]
    /\ sum = Weighed(taken, Len(taken))

\* A sum is right.
SumIsRight == ExtractsLargest /\ SumIsWhole /\ WeightsInOrder
=============================================================================
