----------------------------- MODULE ListSpec -----------------------------
(***************************************************************************)
(* What the list of lib/util promises (include/osux/list.h): a sequence of *)
(* elements, numbered from 1, in which each call takes effect at once.     *)
(***************************************************************************)
EXTENDS Naturals

CONSTANTS Elem, \* the elements
          NULL  \* what a call that returns nothing leaves in answer

VARIABLES
  size,   \* the number of elements
  items,  \* items[n]: the n-th element
  answer  \* the last call that returned, with what it returned

specvars == <<size, items, answer>>

Answer(op, n, val) == [op |-> op, n |-> n, val |-> val]

SpecInit ==
  /\ size = 0
  /\ items = [k \in 1..0 |-> NULL]
  /\ answer = Answer("new", 0, NULL)

SpecGet(n) ==
  /\ n \in 1..size
  /\ answer' = Answer("get", n, items[n])
  /\ UNCHANGED <<size, items>>

SpecInsert(op, n, el) ==
  /\ n \in 1..size + 1
  /\ size' = size + 1
  /\ items' = [k \in 1..size + 1 |->
                 IF k < n THEN items[k] ELSE IF k = n THEN el ELSE items[k - 1]]
  /\ answer' = Answer(op, n, NULL)

SpecRemove(n) ==
  /\ n \in 1..size
  /\ size' = size - 1
  /\ items' = [k \in 1..size - 1 |-> IF k < n THEN items[k] ELSE items[k + 1]]
  /\ answer' = Answer("remove", n, NULL)

SpecNext ==
  \/ \E n \in 1..size : SpecGet(n) \/ SpecRemove(n)
  \/ \E n \in 1..size + 1, el \in Elem : SpecInsert("insert", n, el)
  \/ \E el \in Elem : SpecInsert("add", 1, el)

ListSpecSafety == SpecInit /\ [][SpecNext]_specvars
=============================================================================
