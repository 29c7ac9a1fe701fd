--------------------------- MODULE LibosuxProofs ---------------------------
(***************************************************************************)
(* Proofs about the parts of libosux that keep their own state: the list,  *)
(* the beatmap database, and the heap with the sums.                       *)
(***************************************************************************)
EXTENDS OsuxList, BeatmapDb, Heap, NatSets

-----------------------------------------------------------------------------
(***************************************************************************)
(* The list, for any elements and any memory: the chain and the cursor are *)
(* right in every state, and the list implements ListSpec.                 *)
(***************************************************************************)

\* A lookup in progress is within the list, and the node it has reached is the
\* one k nodes before the one it wants.
Walking ==
  call # Idle =>
    /\ call.op \in {"get", "remove"} => call.n \in 1..size
    /\ call.op = "insert" => call.n \in 1..size + 1 /\ call.el \in Elem
    /\ call.op # "none"
    /\ k \in 0..Wanted(call)
    /\ node = pos[Wanted(call) - k]

ListInv == TypeOK /\ Chain /\ CursorInPlace /\ Walking

LEMMA ListInitially == Init => ListInv
BY OsuxListAssumption
DEF Init, ListInv, TypeOK, CallType, Chain, CursorInPlace, Walking, Idle

-----------------------------------------------------------------------------
(***************************************************************************)
(* Linking and unlinking a node.                                           *)
(***************************************************************************)

\* A node linked after the node at n - 1 is the n-th one; the nodes before it
\* stay where they are and the others move by one.
LEMMA LinkKeeps ==
  ASSUME TypeOK, Chain, NEW n \in 1..size + 1, NEW el \in Elem, NEW x \in Node \ alloc,
         Link(x, pos[n - 1], n, el)
  PROVE  /\ Chain'
         /\ next' \in [Node -> Node] /\ data' \in [Node -> Elem \cup {NULL}]
         /\ alloc' \in SUBSET Node /\ size' = size + 1 /\ size' \in Nat
         /\ pos' \in [0..size' + 1 -> Node]
         /\ \A i \in 0..n - 1 : pos'[i] = pos[i]
         /\ \A i \in n..size + 1 : pos'[i + 1] = pos[i]
         /\ data'[pos'[n]] = el
         /\ \A i \in 0..size + 1 : data'[pos[i]] = data[pos[i]]
<1>1. /\ size \in Nat /\ size' = size + 1 /\ pos \in [0..size + 1 -> Node]
      /\ next \in [Node -> Node] /\ data \in [Node -> Elem \cup {NULL}]
      /\ alloc \in SUBSET Node
      /\ n \in Nat /\ n - 1 \in 0..size
  BY DEF TypeOK, Link
<1>2. /\ pos' = [i \in 0..size + 2 |-> IF i < n THEN pos[i] ELSE IF i = n THEN x ELSE pos[i - 1]]
      /\ next' = [next EXCEPT ![x] = next[pos[n - 1]], ![pos[n - 1]] = x]
      /\ data' = [data EXCEPT ![x] = el]
      /\ alloc' = alloc \cup {x}
  BY DEF Link
<1>3. /\ \A i \in 0..n - 1 : pos'[i] = pos[i]
      /\ pos'[n] = x
      /\ \A i \in n..size + 1 : pos'[i + 1] = pos[i]
  BY <1>1, <1>2
<1>4. \A i \in 0..size + 1 : pos[i] # x /\ pos[i] \in alloc
  BY DEF Chain
<1>5. pos' \in [0..size' + 1 -> Node]
  BY <1>1, <1>2
<1>6. \A i \in 0..size' + 1 :
        \/ i \in 0..n - 1 /\ pos'[i] = pos[i]
        \/ i = n /\ pos'[i] = x
        \/ i \in n + 1..size + 2 /\ i - 1 \in n..size + 1 /\ pos'[i] = pos[i - 1]
  BY <1>1, <1>2
<1>7. \A i \in 0..size : next[pos[i]] = pos[i + 1]
  BY DEF Chain
<1>8. \A i, j \in 0..size + 1 : pos[i] = pos[j] => i = j
  BY DEF Chain
<1>9. \A i \in 0..size + 1 : i # n - 1 => next'[pos[i]] = next[pos[i]]
  BY <1>1, <1>2, <1>4, <1>8
<1>10. next'[pos[n - 1]] = x /\ next'[x] = pos[n]
  BY <1>1, <1>2, <1>4, <1>7
<1>11. Chain'
  <2>1. pos'[0] = Front /\ pos'[size' + 1] = Back
    BY <1>1, <1>2 DEF Chain
  <2>2. ASSUME NEW i \in 0..size' PROVE next'[pos'[i]] = pos'[i + 1]
    <3>1. CASE i < n - 1
      BY <3>1, <1>1, <1>3, <1>7, <1>9
    <3>2. CASE i = n - 1
      BY <3>2, <1>1, <1>3, <1>10
    <3>3. CASE i = n
      BY <3>3, <1>1, <1>3, <1>10
    <3>4. CASE i > n
      <4>1. /\ i - 1 \in n..size /\ (i - 1) + 1 = i
            /\ pos'[i] = pos[i - 1] /\ pos'[i + 1] = pos[i]
        BY <3>4, <1>1, <1>2
      <4>2. next'[pos[i - 1]] = next[pos[i - 1]] /\ next[pos[i - 1]] = pos[i]
        BY <3>4, <4>1, <1>1, <1>7, <1>9
      <4>. QED
        BY <4>1, <4>2
    <3>. QED
      BY <3>1, <3>2, <3>3, <3>4, <1>1
  <2>3. ASSUME NEW i \in 0..size' + 1, NEW j \in 0..size' + 1, pos'[i] = pos'[j]
        PROVE  i = j
    BY <2>3, <1>1, <1>4, <1>6, <1>8
  <2>4. alloc' = {pos'[i] : i \in 0..size' + 1}
    <3>1. \A i \in 0..size' + 1 : pos'[i] \in alloc'
      BY <1>1, <1>2, <1>4, <1>6
    <3>2. ASSUME NEW y \in alloc' PROVE \E i \in 0..size' + 1 : pos'[i] = y
      <4>1. CASE y = x
        BY <4>1, <1>1, <1>3
      <4>2. CASE y \in alloc
        <5>1. PICK j \in 0..size + 1 : pos[j] = y
          BY <4>2 DEF Chain
        <5>2. pos'[j] = y \/ pos'[j + 1] = y
          BY <5>1, <1>1, <1>3
        <5>. QED
          BY <5>1, <5>2, <1>1
      <4>. QED
        BY <4>1, <4>2, <1>2
    <3>. QED
      BY <3>1, <3>2
  <2>. QED
    BY <2>1, <2>2, <2>3, <2>4 DEF Chain
<1>12. next' \in [Node -> Node] /\ data' \in [Node -> Elem \cup {NULL}] /\ alloc' \in SUBSET Node
  BY <1>1, <1>2, <1>4
<1>13. data'[pos'[n]] = el /\ \A i \in 0..size + 1 : data'[pos[i]] = data[pos[i]]
  BY <1>1, <1>2, <1>3, <1>4
<1>. QED
  BY <1>1, <1>3, <1>5, <1>11, <1>12, <1>13

\* The n-th node is unlinked and freed; the nodes before it stay where they are
\* and the others move by one.
LEMMA UnlinkKeeps ==
  ASSUME TypeOK, Chain, NEW n \in 1..size,
         next' = [next EXCEPT ![pos[n - 1]] = next[next[pos[n - 1]]]],
         alloc' = alloc \ {next[pos[n - 1]]},
         size' = size - 1,
         pos' = [i \in 0..size |-> IF i < n THEN pos[i] ELSE pos[i + 1]]
  PROVE  /\ Chain'
         /\ next' \in [Node -> Node] /\ alloc' \in SUBSET Node /\ size' \in Nat
         /\ pos' \in [0..size' + 1 -> Node]
<1>1. /\ size \in Nat /\ size' \in Nat /\ size' + 1 = size /\ n \in Nat /\ n - 1 \in 0..size
      /\ pos \in [0..size + 1 -> Node] /\ next \in [Node -> Node] /\ alloc \in SUBSET Node
  BY DEF TypeOK
<1>2. \A i \in 0..size : next[pos[i]] = pos[i + 1]
  BY DEF Chain
<1>3. \A i, j \in 0..size + 1 : pos[i] = pos[j] => i = j
  BY DEF Chain
<1>4. next[pos[n - 1]] = pos[n] /\ next[pos[n]] = pos[n + 1]
  BY <1>1, <1>2
<1>5. \A i \in 0..size + 1 : i # n - 1 => next'[pos[i]] = next[pos[i]]
  BY <1>1, <1>3
<1>6. next'[pos[n - 1]] = pos[n + 1]
  BY <1>1, <1>4
<1>7. pos' \in [0..size' + 1 -> Node]
  BY <1>1
<1>8. Chain'
  <2>1. pos'[0] = Front /\ pos'[size' + 1] = Back
    BY <1>1 DEF Chain
  <2>2. ASSUME NEW i \in 0..size' PROVE next'[pos'[i]] = pos'[i + 1]
    <3>1. CASE i < n - 1
      BY <3>1, <1>1, <1>2, <1>5
    <3>2. CASE i = n - 1
      BY <3>2, <1>1, <1>6
    <3>3. CASE i >= n
      <4>1. pos'[i] = pos[i + 1] /\ pos'[i + 1] = pos[(i + 1) + 1] /\ i + 1 \in 0..size
            /\ i + 1 # n - 1
        BY <3>3, <1>1
      <4>2. next'[pos[i + 1]] = pos[(i + 1) + 1]
        BY <4>1, <1>1, <1>2, <1>5
      <4>. QED
        BY <4>1, <4>2
    <3>. QED
      BY <3>1, <3>2, <3>3, <1>1
  <2>3. ASSUME NEW i \in 0..size' + 1, NEW j \in 0..size' + 1, pos'[i] = pos'[j]
        PROVE  i = j
    <3>1. \A a \in 0..size' + 1 : \/ a < n /\ pos'[a] = pos[a]
                                  \/ a >= n /\ pos'[a] = pos[a + 1]
      BY <1>1
    <3>. QED
      BY <2>3, <3>1, <1>1, <1>3
  <2>4. alloc' = {pos'[i] : i \in 0..size' + 1}
    <3>1. \A i \in 0..size' + 1 : pos'[i] \in alloc'
      <4>1. \A i \in 0..size' + 1 : \E j \in 0..size + 1 : j # n /\ pos'[i] = pos[j]
        BY <1>1
      <4>. QED
        BY <4>1, <1>1, <1>3, <1>4 DEF Chain
    <3>2. ASSUME NEW y \in alloc' PROVE \E i \in 0..size' + 1 : pos'[i] = y
      <4>1. PICK j \in 0..size + 1 : pos[j] = y
        BY <3>2 DEF Chain
      <4>2. j # n
        BY <4>1, <3>2, <1>4
      <4>3. CASE j < n
        BY <4>1, <4>3, <1>1
      <4>4. CASE j > n
        <5>1. j - 1 \in 0..size' + 1 /\ pos'[j - 1] = pos[(j - 1) + 1] /\ (j - 1) + 1 = j
          BY <4>4, <1>1
        <5>. QED
          BY <4>1, <5>1
      <4>. QED
        BY <4>2, <4>3, <4>4, <1>1
    <3>. QED
      BY <3>1, <3>2
  <2>. QED
    BY <2>1, <2>2, <2>3, <2>4 DEF Chain
<1>9. next' \in [Node -> Node]
  BY <1>1, <1>4
<1>. QED
  BY <1>1, <1>7, <1>8, <1>9

-----------------------------------------------------------------------------
(***************************************************************************)
(* The invariant is kept by every step.                                    *)
(***************************************************************************)

\* A call starts its walk from the cursor, or from the front.
LEMMA KeptByBegin ==
  ASSUME ListInv, NEW c \in CallType, BeginLookup(c), c.op # "none",
         c.op \in {"get", "remove"} => c.n \in 1..size,
         c.op = "insert" => c.n \in 1..size + 1 /\ c.el \in Elem
  PROVE  ListInv'
<1>1. /\ size \in Nat /\ curpos \in 0..size /\ cursor = pos[curpos] /\ pos[0] = Front
      /\ c.n \in Nat /\ c.op \in {"get", "remove", "insert"}
  BY DEF ListInv, TypeOK, CallType, CursorInPlace, Chain
<1>2. Wanted(c) \in 0..size
  BY <1>1 DEF Wanted
<1>3. k' \in 0..Wanted(c) /\ node' = pos[Wanted(c) - k']
  BY <1>1, <1>2 DEF BeginLookup, StartsAtCursor
<1>4. node' \in Node /\ k' \in Nat
  BY <1>1, <1>2, <1>3, OsuxListAssumption DEF BeginLookup, StartsAtCursor, ListInv, TypeOK
<1>5. call' = c /\ Wanted(call)' = Wanted(c)
  BY DEF BeginLookup, Wanted
<1>. QED
  BY <1>2, <1>3, <1>4, <1>5
  DEF BeginLookup, StartsAtCursor, ListInv, TypeOK, Chain, CursorInPlace, Walking

LEMMA KeptByWalk ==
  ASSUME ListInv, Walk
  PROVE  ListInv'
<1>1. /\ call # Idle /\ k \in 1..Wanted(call) /\ node = pos[Wanted(call) - k]
      /\ size \in Nat /\ call.n \in 1..size + 1
      /\ call.op \in {"get", "remove", "insert"} /\ Wanted(call) \in 0..size
  BY DEF ListInv, Walking, Walk, TypeOK, CallType, Wanted
<1>2. /\ Wanted(call) - k \in 0..size
      /\ (Wanted(call) - k) + 1 = Wanted(call) - (k - 1)
  BY <1>1
<1>3. node' = pos[Wanted(call) - k'] /\ k' \in 0..Wanted(call)
  BY <1>1, <1>2 DEF Walk, ListInv, Chain
<1>4. node' \in Node /\ k' \in Nat /\ Wanted(call)' = Wanted(call)
  BY <1>1 DEF Walk, ListInv, TypeOK, Wanted
<1>. QED
  BY <1>3, <1>4 DEF Walk, ListInv, TypeOK, Chain, CursorInPlace, Walking

\* What a lookup leaves: the node wanted, which is now under the cursor.
LEMMA LookupDone ==
  ASSUME ListInv, NEW op \in {"get", "insert", "remove"}, EndLookup(op)
  PROVE  /\ call.op = op /\ size \in Nat
         /\ op = "get" => call.n \in 1..size
         /\ op = "remove" => call.n \in 1..size
         /\ op = "insert" => call.n \in 1..size + 1 /\ call.el \in Elem
         /\ Wanted(call) \in 0..size /\ node = pos[Wanted(call)]
         /\ Wanted(call) = IF op = "get" THEN call.n ELSE call.n - 1
         /\ cursor' = node /\ curpos' = Wanted(call) /\ call' = Idle
         /\ node' = node /\ k' = k
<1>1. call # Idle /\ call.op = op /\ k = 0
  BY DEF EndLookup, Idle
<1>2. size \in Nat /\ call.n \in Nat
  BY DEF ListInv, TypeOK, CallType
<1>. QED
  BY <1>1, <1>2 DEF ListInv, Walking, EndLookup, Wanted

LEMMA KeptByReturnGet ==
  ASSUME ListInv, ReturnGet
  PROVE  ListInv'
<1>1. EndLookup("get") /\ UNCHANGED <<next, data, alloc, size, pos>>
  BY DEF ReturnGet
<1>2. TypeOK'
  BY <1>1, LookupDone DEF ListInv, TypeOK, CallType, Idle
<1>. QED
  BY <1>1, <1>2, LookupDone DEF ListInv, Chain, CursorInPlace, Walking

LEMMA KeptByReturnInsert ==
  ASSUME ListInv, ReturnInsert
  PROVE  ListInv'
<1>1. PICK x \in Node \ alloc : Link(x, node, call.n, call.el)
  BY DEF ReturnInsert
<1>2. /\ call.n \in 1..size + 1 /\ call.el \in Elem /\ node = pos[call.n - 1]
      /\ curpos' = call.n - 1 /\ cursor' = node /\ call' = Idle
      /\ node' = node /\ k' = k /\ size \in Nat
  BY LookupDone DEF ReturnInsert
<1>3. /\ Chain' /\ next' \in [Node -> Node] /\ data' \in [Node -> Elem \cup {NULL}]
      /\ alloc' \in SUBSET Node /\ size' = size + 1 /\ size' \in Nat
      /\ pos' \in [0..size' + 1 -> Node]
      /\ \A i \in 0..call.n - 1 : pos'[i] = pos[i]
  BY <1>1, <1>2, LinkKeeps DEF ListInv
<1>4. CursorInPlace'
  BY <1>2, <1>3 DEF CursorInPlace
<1>5. TypeOK'
  BY <1>2, <1>3 DEF ListInv, TypeOK, CallType, Idle
<1>. QED
  BY <1>2, <1>3, <1>4, <1>5 DEF ListInv, Walking

LEMMA KeptByReturnRemove ==
  ASSUME ListInv, ReturnRemove
  PROVE  ListInv'
<1>1. /\ call.n \in 1..size /\ node = pos[call.n - 1]
      /\ curpos' = call.n - 1 /\ cursor' = node /\ call' = Idle
      /\ node' = node /\ k' = k /\ size \in Nat
  BY LookupDone DEF ReturnRemove
<1>2. /\ next' = [next EXCEPT ![pos[call.n - 1]] = next[next[pos[call.n - 1]]]]
      /\ alloc' = alloc \ {next[pos[call.n - 1]]}
      /\ size' = size - 1
      /\ pos' = [i \in 0..size |-> IF i < call.n THEN pos[i] ELSE pos[i + 1]]
      /\ data' = data
  BY <1>1 DEF ReturnRemove, Free
<1>3. /\ Chain' /\ next' \in [Node -> Node] /\ alloc' \in SUBSET Node /\ size' \in Nat
      /\ pos' \in [0..size' + 1 -> Node]
  BY <1>1, <1>2, UnlinkKeeps DEF ListInv
<1>4. CursorInPlace'
  BY <1>1, <1>2, <1>3 DEF CursorInPlace
<1>5. TypeOK'
  BY <1>1, <1>2, <1>3 DEF ListInv, TypeOK, CallType, Idle
<1>. QED
  BY <1>1, <1>3, <1>4, <1>5 DEF ListInv, Walking

LEMMA KeptByAdd ==
  ASSUME ListInv, NEW el \in Elem, Add(el)
  PROVE  ListInv'
<1>1. PICK x \in Node \ alloc : Link(x, Front, 1, el)
  BY DEF Add
<1>2. /\ size \in Nat /\ Front = pos[1 - 1] /\ 1 \in 1..size + 1
      /\ curpos \in 0..size /\ cursor = pos[curpos]
  BY DEF ListInv, TypeOK, Chain, CursorInPlace
<1>3. Link(x, pos[1 - 1], 1, el)
  BY <1>1, <1>2
<1>4. /\ Chain' /\ next' \in [Node -> Node] /\ data' \in [Node -> Elem \cup {NULL}]
      /\ alloc' \in SUBSET Node /\ size' = size + 1 /\ size' \in Nat
      /\ pos' \in [0..size' + 1 -> Node]
      /\ \A i \in 0..1 - 1 : pos'[i] = pos[i]
      /\ \A i \in 1..size + 1 : pos'[i + 1] = pos[i]
  BY <1>2, <1>3, LinkKeeps DEF ListInv
<1>5. CursorInPlace'
  BY <1>2, <1>4 DEF Add, CurposMoved, CursorInPlace
<1>6. TypeOK'
  BY <1>2, <1>4 DEF Add, CurposMoved, ListInv, TypeOK
<1>. QED
  BY <1>4, <1>5, <1>6 DEF Add, ListInv, Walking

LEMMA KeptByCalls ==
  ASSUME ListInv, Calls
  PROVE  ListInv'
<1>1. size \in Nat
  BY DEF ListInv, TypeOK
<1>2. ASSUME NEW n \in 1..size, CallGet(n) PROVE ListInv'
  BY <1>1, <1>2, KeptByBegin DEF CallGet, CallType
<1>3. ASSUME NEW n \in 1..size, CallRemove(n) PROVE ListInv'
  BY <1>1, <1>3, KeptByBegin DEF CallRemove, CallType
<1>4. ASSUME NEW n \in 1..size + 1, NEW el \in Elem, CallInsert(n, el) PROVE ListInv'
  BY <1>1, <1>4, KeptByBegin DEF CallInsert, CallType
<1>. QED
  BY <1>1, <1>2, <1>3, <1>4 DEF Calls, CallAppend

LEMMA ListKept == ListInv /\ [Next]_vars => ListInv'
<1>. SUFFICES ASSUME ListInv, [Next]_vars PROVE ListInv'
  OBVIOUS
<1>1. CASE UNCHANGED vars
  BY <1>1 DEF vars, ListInv, TypeOK, Chain, CursorInPlace, Walking, Wanted
<1>2. CASE Calls
  BY <1>2, KeptByCalls
<1>3. CASE Returns
  BY <1>3, KeptByWalk, KeptByReturnGet, KeptByReturnInsert, KeptByReturnRemove DEF Returns
<1>4. CASE \E el \in Elem : Add(el)
  BY <1>4, KeptByAdd
<1>. QED
  BY <1>1, <1>2, <1>3, <1>4 DEF Next

LEMMA ListAlways == Spec => []ListInv
<1>. QED
  BY ListInitially, ListKept, PTL DEF Spec

\* No call of list.c breaks the chain, links a node twice, leaks one or leaves
\* a freed one in the chain.
THEOREM ChainAlways == Spec => []Chain
<1>1. ListInv => Chain
  BY DEF ListInv
<1>. QED
  BY <1>1, ListAlways, PTL

\* The cursor osux_list_get_node starts from is never stale: no insertion,
\* removal or addition leaves it on a moved or freed node.
THEOREM CursorAlways == Spec => []CursorInPlace
<1>1. ListInv => CursorInPlace
  BY DEF ListInv
<1>. QED
  BY <1>1, ListAlways, PTL

-----------------------------------------------------------------------------
(***************************************************************************)
(* The list implements ListSpec.                                           *)
(***************************************************************************)
Items == [i \in 1..size |-> data[pos[i]]]

LEMMA InitRefines == Init => Promise!SpecInit
BY DEF Init, Promise!SpecInit, Answer, Promise!Answer

\* A step that changes neither the chain nor the answer is not seen.
LEMMA Stutter ==
  ASSUME UNCHANGED <<data, size, pos, answer>>
  PROVE  UNCHANGED Promise!specvars
BY DEF Promise!specvars

LEMMA GetRefines ==
  ASSUME ListInv, ReturnGet
  PROVE  \E n \in 1..size : Promise!SpecGet(n)
<1>1. call.n \in 1..size /\ node = pos[call.n] /\ size \in Nat
  BY LookupDone DEF ReturnGet
<1>2. UNCHANGED <<data, size, pos>> /\ answer' = Answer("get", call.n, data[node])
  BY DEF ReturnGet
<1>3. PICK n \in 1..size : n = call.n
  BY <1>1
<1>4. Promise!SpecGet(n)
  BY <1>1, <1>2, <1>3 DEF Promise!SpecGet, Answer, Promise!Answer
<1>. QED
  BY <1>4

\* Linking a node is an insertion in the sequence of elements.
LEMMA LinkRefines ==
  ASSUME ListInv, NEW n \in 1..size + 1, NEW el \in Elem, NEW x \in Node \ alloc,
         Link(x, pos[n - 1], n, el), NEW op, answer' = Answer(op, n, NULL)
  PROVE  Promise!SpecInsert(op, n, el)
<1>1. size \in Nat /\ n \in Nat /\ size' = size + 1
  BY DEF ListInv, TypeOK, Link
<1>2. /\ \A i \in 0..n - 1 : pos'[i] = pos[i]
      /\ \A i \in n..size + 1 : pos'[i + 1] = pos[i]
      /\ data'[pos'[n]] = el
      /\ \A i \in 0..size + 1 : data'[pos[i]] = data[pos[i]]
  BY LinkKeeps DEF ListInv
<1>3. ASSUME NEW i \in 1..size + 1
      PROVE  data'[pos'[i]] = IF i < n THEN Items[i] ELSE IF i = n THEN el ELSE Items[i - 1]
  <2>1. CASE i < n
    BY <2>1, <1>1, <1>2 DEF Items
  <2>2. CASE i = n
    BY <2>2, <1>1, <1>2
  <2>3. CASE i > n
    <3>1. i - 1 \in n..size /\ i - 1 \in 1..size /\ (i - 1) + 1 = i
      BY <2>3, <1>1
    <3>2. pos'[i] = pos[i - 1] /\ data'[pos[i - 1]] = data[pos[i - 1]]
      BY <3>1, <1>1, <1>2
    <3>. QED
      BY <2>3, <3>1, <3>2, <1>1 DEF Items
  <2>. QED
    BY <2>1, <2>2, <2>3, <1>1
<1>4. [i \in 1..size + 1 |-> data'[pos'[i]]] =
        [i \in 1..size + 1 |->
           IF i < n THEN Items[i] ELSE IF i = n THEN el ELSE Items[i - 1]]
  BY <1>3
<1>. QED
  BY <1>1, <1>4 DEF Promise!SpecInsert, Items, Answer, Promise!Answer

LEMMA InsertRefines ==
  ASSUME ListInv, ReturnInsert
  PROVE  \E n \in 1..size + 1, el \in Elem : Promise!SpecInsert("insert", n, el)
<1>1. /\ call.n \in 1..size + 1 /\ call.el \in Elem /\ node = pos[call.n - 1]
      /\ answer' = Answer("insert", call.n, NULL)
  BY LookupDone DEF ReturnInsert
<1>2. PICK n \in 1..size + 1, el \in Elem : n = call.n /\ el = call.el
  BY <1>1
<1>3. PICK x \in Node \ alloc : Link(x, pos[n - 1], n, el)
  BY <1>1, <1>2 DEF ReturnInsert
<1>4. Promise!SpecInsert("insert", n, el)
  BY <1>1, <1>2, <1>3, LinkRefines
<1>. QED
  BY <1>4

LEMMA AddRefines ==
  ASSUME ListInv, NEW el \in Elem, Add(el)
  PROVE  Promise!SpecInsert("add", 1, el)
<1>1. size \in Nat /\ pos[1 - 1] = Front /\ 1 \in 1..size + 1 /\ answer' = Answer("add", 1, NULL)
  BY DEF Add, ListInv, TypeOK, Chain
<1>2. PICK x \in Node \ alloc : Link(x, pos[1 - 1], 1, el)
  BY <1>1 DEF Add
<1>. QED
  BY <1>1, <1>2, LinkRefines

LEMMA RemoveRefines ==
  ASSUME ListInv, ReturnRemove
  PROVE  \E n \in 1..size : Promise!SpecRemove(n)
<1>1. /\ call.n \in 1..size /\ size \in Nat /\ size' = size - 1 /\ data' = data
      /\ pos' = [i \in 0..size |-> IF i < call.n THEN pos[i] ELSE pos[i + 1]]
      /\ answer' = Answer("remove", call.n, NULL)
  BY LookupDone DEF ReturnRemove
<1>2. [i \in 1..size - 1 |-> data'[pos'[i]]] =
        [i \in 1..size - 1 |-> IF i < call.n THEN Items[i] ELSE Items[i + 1]]
  BY <1>1 DEF Items
<1>3. PICK n \in 1..size : n = call.n
  BY <1>1
<1>4. Promise!SpecRemove(n)
  BY <1>1, <1>2, <1>3 DEF Promise!SpecRemove, Items, Answer, Promise!Answer
<1>. QED
  BY <1>4

LEMMA StepRefines == ListInv /\ [Next]_vars => [Promise!SpecNext]_(Promise!specvars)
<1>. SUFFICES ASSUME ListInv, [Next]_vars PROVE [Promise!SpecNext]_(Promise!specvars)
  OBVIOUS
<1>1. CASE UNCHANGED vars
  BY <1>1, Stutter DEF vars
<1>2. CASE Calls
  BY <1>2, Stutter DEF Calls, CallGet, CallRemove, CallAppend, CallInsert, BeginLookup
<1>3. CASE Walk
  BY <1>3, Stutter DEF Walk
<1>4. CASE ReturnGet
  BY <1>4, GetRefines DEF Promise!SpecNext
<1>5. CASE ReturnInsert
  BY <1>5, InsertRefines DEF Promise!SpecNext
<1>6. CASE ReturnRemove
  BY <1>6, RemoveRefines DEF Promise!SpecNext
<1>7. CASE \E el \in Elem : Add(el)
  BY <1>7, AddRefines DEF Promise!SpecNext
<1>. QED
  BY <1>1, <1>2, <1>3, <1>4, <1>5, <1>6, <1>7 DEF Next, Returns

\* Whatever walk from the cursor a lookup takes, the calls of list.c return and
\* change what the sequence of elements numbered from 1 says.
THEOREM Implements == Spec => ImplementsListSpec
<1>. QED
  BY InitRefines, StepRefines, ListAlways, PTL DEF Spec, ImplementsListSpec, Promise!ListSpecSafety

-----------------------------------------------------------------------------
(***************************************************************************)
(* The database, for any processes, songs, hashes, edits and crashes: the  *)
(* file is always a database that was filled to its end, a populated       *)
(* database is exact, a lookup tells what the file has, and a process that *)
(* only looks hashes up changes the file only if another one wrote it      *)
(* meanwhile.                                                              *)
(***************************************************************************)

Stage == {"out", "open", "schema", "walk", "ready", "save", "done", "dead"}
Reply == [hash : Hash, path : Path \cup {NoPath}]

\* A database: no hash is in it twice, and it has rows only in a table.
DatabaseTypeOK ==
  /\ disk \in [Path -> OnDisk]
  /\ file \in Database
  /\ writer \in Proc \cup {NoProc}
  /\ stage \in [Proc -> Stage]
  /\ mem \in [Proc -> Database]
  /\ todo \in [Proc -> SUBSET Path]
  /\ parsed \in [Proc -> Nat]
  /\ reply \in [Proc -> SUBSET Reply]
  /\ was \in [Proc -> [Path -> SUBSET OnDisk]]
  /\ stale \in [Proc -> BOOLEAN]

\* What the file is and what may be written over it has been filled to the end.
WholeInv ==
  /\ {file, WithRows({})} \subseteq whole
  /\ \A p \in Proc :
       /\ stage[p] = "schema" => mem[p] \in whole \cup {NoTable}
       /\ stage[p] \in {"ready", "save"} => mem[p] \in whole

\* One process at most writes.
WriterInv == \A p \in Proc : stage[p] = "save" <=> writer = p

\* During a walk and after it, every row was at its path, what was visited is
\* there, and the rows were counted.
WalkedInv ==
  \A p \in Populates :
    /\ stage[p] \in {"out", "open", "schema"} => parsed[p] = 0
    /\ stage[p] \in {"walk", "ready", "save", "done"} =>
         /\ \A r \in mem[p].rows : r.hash \in was[p][r.path]
         /\ \A path \in Path \ todo[p], h \in Hash :
              was[p][path] = {h} => \E r \in mem[p].rows : r.hash = h
         /\ IsFiniteSet(mem[p].rows) /\ parsed[p] = Cardinality(mem[p].rows)
    /\ stage[p] = "walk" => \A path \in Path : disk[path] \in was[p][path]
    /\ stage[p] \in {"ready", "save", "done"} => todo[p] = {}

\* The copy of a process that only looks up is the file as it is now, unless it
\* is marked stale; what it was told is in its copy.
CopyInv ==
  \A p \in Proc :
    /\ stage[p] \notin {"ready", "save", "done", "dead"} => reply[p] = {}
    /\ p \in Populates => reply[p] = {}
    /\ p \notin Populates =>
         /\ stage[p] = "schema" /\ ~stale[p] => mem[p] = file
         /\ stage[p] \in {"ready", "save"} =>
              /\ mem[p].table
              /\ ~stale[p] => mem[p].rows = file.rows
         /\ stage[p] # "walk"
    /\ stage[p] = "ready" => \A found \in reply[p] :
         IF found.path = NoPath THEN Match(p, found.hash) = {}
                                ELSE found.path \in Match(p, found.hash)

\* A walk fills a table.
TableInv == \A p \in Proc : stage[p] = "walk" => mem[p].table

DatabaseInv ==
  DatabaseTypeOK /\ WholeInv /\ WriterInv /\ TableInv /\ WalkedInv /\ CopyInv

-----------------------------------------------------------------------------
(***************************************************************************)
(* The initial states.                                                     *)
(***************************************************************************)

LEMMA DatabaseFacts ==
  /\ NoProc \notin Proc /\ NoPath \notin Path /\ Populates \subseteq Proc
  /\ NoTable \in Database /\ WithRows({}) \in Database
  /\ ~NoTable.table /\ NoTable.rows = {}
  /\ WithRows({}).table /\ WithRows({}).rows = {}
  /\ Hash \subseteq OnDisk /\ Broken \notin Hash /\ Absent \notin Hash
BY BeatmapDbAssumption DEF Database, NoTable, WithRows, UniqueHash, OnDisk

LEMMA DatabaseInitially == DatabaseInit => DatabaseInv
<1>. SUFFICES ASSUME DatabaseInit PROVE DatabaseInv
  OBVIOUS
<1>1. DatabaseTypeOK
  BY DatabaseFacts, BeatmapDbAssumption DEF DatabaseInit, DatabaseTypeOK, Stage
<1>2. WholeInv /\ WriterInv /\ TableInv /\ WalkedInv /\ CopyInv
  BY DatabaseFacts DEF DatabaseInit, WholeInv, WriterInv, TableInv, WalkedInv, CopyInv
<1>. QED
  BY <1>1, <1>2 DEF DatabaseInv

-----------------------------------------------------------------------------
(***************************************************************************)
(* osux_beatmap_db_init.                                                   *)
(***************************************************************************)

LEMMA KeptByOpen ==
  ASSUME DatabaseInv, NEW p \in Proc, Open(p)
  PROVE  DatabaseInv'
<1>1. /\ stage[p] = "out" /\ stage \in [Proc -> Stage]
      /\ stage' = [stage EXCEPT ![p] = "open"]
      /\ UNCHANGED <<disk, file, writer, mem, todo, parsed, reply, edits, crashes, whole, was, stale>>
  BY DEF Open, DatabaseInv, DatabaseTypeOK
<1>2. DatabaseTypeOK'
  BY <1>1 DEF DatabaseInv, DatabaseTypeOK, Stage
<1>3. WholeInv' /\ WriterInv' /\ TableInv'
  BY <1>1 DEF DatabaseInv, WholeInv, WriterInv, TableInv
<1>4. WalkedInv'
  BY <1>1, DatabaseFacts DEF DatabaseInv, WalkedInv
<1>5. CopyInv'
  BY <1>1 DEF DatabaseInv, CopyInv, Match
<1>. QED
  BY <1>2, <1>3, <1>4, <1>5 DEF DatabaseInv

LEMMA KeptByLoad ==
  ASSUME DatabaseInv, NEW p \in Proc, Load(p)
  PROVE  DatabaseInv'
<1>1. /\ stage[p] = "open" /\ stage \in [Proc -> Stage]
      /\ mem \in [Proc -> Database] /\ stale \in [Proc -> BOOLEAN]
      /\ stage' = [stage EXCEPT ![p] = "schema"]
      /\ \/ mem' = [mem EXCEPT ![p] = file] /\ stale' = [stale EXCEPT ![p] = FALSE]
         \/ mem' = [mem EXCEPT ![p] = NoTable] /\ stale' = [stale EXCEPT ![p] = TRUE]
      /\ UNCHANGED <<disk, file, writer, todo, parsed, reply, edits, crashes, whole, was>>
  BY DEF Load, DatabaseInv, DatabaseTypeOK
<1>2. DatabaseTypeOK'
  <2>1. file \in Database /\ NoTable \in Database
    BY DatabaseFacts DEF DatabaseInv, DatabaseTypeOK
  <2>2. mem' \in [Proc -> Database] /\ stale' \in [Proc -> BOOLEAN]
    BY <1>1, <2>1
  <2>3. stage' \in [Proc -> Stage]
    BY <1>1 DEF Stage
  <2>. QED
    BY <1>1, <2>2, <2>3 DEF DatabaseInv, DatabaseTypeOK
<1>3. WholeInv'
  BY <1>1 DEF DatabaseInv, WholeInv
<1>4. WriterInv' /\ TableInv'
  BY <1>1 DEF DatabaseInv, WriterInv, TableInv
<1>5. WalkedInv'
  BY <1>1, DatabaseFacts DEF DatabaseInv, WalkedInv
<1>6. CopyInv'
  BY <1>1 DEF DatabaseInv, CopyInv, Match
<1>. QED
  BY <1>2, <1>3, <1>4, <1>5, <1>6 DEF DatabaseInv

LEMMA KeptBySchema ==
  ASSUME DatabaseInv, NEW p \in Proc, Schema(p)
  PROVE  DatabaseInv'
<1>1. /\ stage[p] = "schema" /\ stage \in [Proc -> Stage] /\ mem \in [Proc -> Database]
      /\ mem' = [mem EXCEPT ![p] = IF NeedsSchema(p) THEN WithRows({}) ELSE @]
      /\ UNCHANGED <<disk, file, writer, parsed, reply, edits, crashes, whole, stale>>
  BY DEF Schema, DatabaseInv, DatabaseTypeOK
<1>2. p \in Populates =>
        /\ stage' = [stage EXCEPT ![p] = "walk"]
        /\ todo' = [todo EXCEPT ![p] = Path]
        /\ was' = [was EXCEPT ![p] = [path \in Path |-> {disk[path]}]]
        /\ mem'[p] = WithRows({})
  BY <1>1 DEF Schema, NeedsSchema
<1>3. p \notin Populates =>
        /\ stage' = [stage EXCEPT ![p] = "ready"]
        /\ UNCHANGED <<todo, was>>
        /\ mem'[p] \in {mem[p], WithRows({})}
        /\ ~mem[p].table => mem'[p] = WithRows({})
        /\ mem[p].table => mem'[p] = mem[p]
  BY <1>1 DEF Schema, NeedsSchema
<1>4. DatabaseTypeOK'
  <2>1. mem' \in [Proc -> Database]
    BY <1>1, DatabaseFacts
  <2>2. stage' \in [Proc -> Stage]
    BY <1>1, <1>2, <1>3 DEF Stage
  <2>3. todo' \in [Proc -> SUBSET Path]
    BY <1>2, <1>3 DEF DatabaseInv, DatabaseTypeOK
  <2>4. was' \in [Proc -> [Path -> SUBSET OnDisk]]
    <3>1. [path \in Path |-> {disk[path]}] \in [Path -> SUBSET OnDisk]
      BY DEF DatabaseInv, DatabaseTypeOK
    <3>. QED
      BY <3>1, <1>2, <1>3 DEF DatabaseInv, DatabaseTypeOK
  <2>. QED
    BY <1>1, <2>1, <2>2, <2>3, <2>4 DEF DatabaseInv, DatabaseTypeOK
<1>5. WholeInv'
  BY <1>1, <1>2, <1>3, DatabaseFacts DEF DatabaseInv, WholeInv
<1>6. WriterInv' /\ TableInv'
  BY <1>1, <1>2, <1>3, DatabaseFacts DEF DatabaseInv, WriterInv, TableInv
<1>7. WalkedInv'
  <2>. SUFFICES ASSUME NEW q \in Populates PROVE WalkedInv!(q)'
    BY DEF WalkedInv
  <2>1. CASE q # p
    <3>1. /\ stage'[q] = stage[q] /\ mem'[q] = mem[q] /\ todo'[q] = todo[q] /\ was'[q] = was[q]
          /\ parsed' = parsed /\ disk' = disk
      BY <2>1, <1>1, <1>2, <1>3, DatabaseFacts DEF DatabaseInv, DatabaseTypeOK
    <3>. QED
      BY <3>1 DEF DatabaseInv, WalkedInv
  <2>2. CASE q = p
    <3>1. /\ stage'[p] = "walk" /\ todo'[p] = Path /\ mem'[p].rows = {}
          /\ \A path \in Path : was'[p][path] = {disk[path]}
          /\ parsed'[p] = 0 /\ disk' = disk
      BY <2>2, <1>1, <1>2, DatabaseFacts DEF DatabaseInv, DatabaseTypeOK, WalkedInv
    <3>. QED
      BY <2>2, <3>1, FS_EmptySet
  <2>. QED
    BY <2>1, <2>2
<1>8. CopyInv'
  <2>. SUFFICES ASSUME NEW q \in Proc PROVE CopyInv!(q)'
    BY DEF CopyInv
  <2>1. CASE q # p
    BY <2>1, <1>1, <1>2, <1>3 DEF DatabaseInv, DatabaseTypeOK, CopyInv, Match
  <2>2. CASE q = p /\ p \in Populates
    BY <2>2, <1>1, <1>2 DEF DatabaseInv, CopyInv
  <2>3. CASE q = p /\ p \notin Populates
    <3>1. reply'[p] = {} /\ stage'[p] = "ready"
      BY <2>3, <1>1, <1>3 DEF DatabaseInv, CopyInv
    <3>2. mem'[p].table
      BY <2>3, <1>1, <1>3, DatabaseFacts
    <3>3. ~stale'[p] => mem'[p].rows = file'.rows
      <4>1. mem[p] \in Database /\ (~mem[p].table => mem[p].rows = {})
        BY <1>1 DEF Database
      <4>. QED
        BY <2>3, <4>1, <1>1, <1>3, DatabaseFacts DEF DatabaseInv, CopyInv
    <3>. QED
      BY <2>3, <3>1, <3>2, <3>3
  <2>. QED
    BY <2>1, <2>2, <2>3
<1>. QED
  BY <1>4, <1>5, <1>6, <1>7, <1>8 DEF DatabaseInv

-----------------------------------------------------------------------------
(***************************************************************************)
(* The walk.                                                               *)
(***************************************************************************)

LEMMA KeptByVisit ==
  ASSUME DatabaseInv, NEW p \in Proc, NEW path \in Path, Visit(p, path)
  PROVE  DatabaseInv'
<1>. DEFINE row == [hash |-> disk[path], path |-> path]
<1>1. /\ stage[p] = "walk" /\ path \in todo[p]
      /\ todo' = [todo EXCEPT ![p] = @ \ {path}]
      /\ parsed' = [parsed EXCEPT ![p] = IF Inserts(p, path) THEN @ + 1 ELSE @]
      /\ UNCHANGED <<disk, file, writer, stage, reply, edits, crashes, whole, was, stale>>
  BY DEF Visit, Store
<1>2. /\ Inserts(p, path) => mem' = [mem EXCEPT ![p].rows = @ \cup {row}]
      /\ ~Inserts(p, path) => mem' = mem
  BY DEF Visit, Store
<1>3. /\ mem \in [Proc -> Database] /\ todo \in [Proc -> SUBSET Path]
      /\ parsed \in [Proc -> Nat] /\ disk \in [Path -> OnDisk]
  BY DEF DatabaseInv, DatabaseTypeOK
<1>4. p \in Populates
  BY <1>1 DEF DatabaseInv, CopyInv
<1>5. \A q \in Proc : q # p => mem'[q] = mem[q] /\ todo'[q] = todo[q] /\ parsed'[q] = parsed[q]
  BY <1>1, <1>2, <1>3
<1>6. mem' \in [Proc -> Database]
  <2>1. CASE Inserts(p, path)
    <3>1. row \in Row /\ \A r \in mem[p].rows : r.hash # row.hash
      BY <2>1, <1>3 DEF Inserts, Row
    <3>2. mem[p].rows \cup {row} \in SUBSET Row /\ UniqueHash(mem[p].rows \cup {row})
      BY <3>1, <1>3 DEF Database, UniqueHash
    <3>3. mem[p].table
      BY <1>1 DEF DatabaseInv, TableInv
    <3>4. [mem[p] EXCEPT !.rows = @ \cup {row}] \in Database
      BY <3>2, <3>3, <1>3 DEF Database
    <3>. QED
      BY <2>1, <3>4, <1>2, <1>3
  <2>. QED
    BY <2>1, <1>2, <1>3
<1>7. DatabaseTypeOK'
  BY <1>1, <1>3, <1>6 DEF DatabaseInv, DatabaseTypeOK
<1>8. WholeInv' /\ WriterInv'
  BY <1>1, <1>5 DEF DatabaseInv, WholeInv, WriterInv
<1>9. TableInv'
  <2>1. mem'[p].table = mem[p].table
    BY <1>2, <1>3 DEF Database
  <2>. QED
    BY <2>1, <1>1, <1>5 DEF DatabaseInv, TableInv
<1>10. WalkedInv'
  <2>. SUFFICES ASSUME NEW q \in Populates PROVE WalkedInv!(q)'
    BY DEF WalkedInv
  <2>1. CASE q # p
    <3>1. /\ stage'[q] = stage[q] /\ mem'[q] = mem[q] /\ todo'[q] = todo[q] /\ was'[q] = was[q]
          /\ parsed'[q] = parsed[q] /\ disk' = disk
      BY <2>1, <1>1, <1>5, DatabaseFacts
    <3>. QED
      BY <3>1 DEF DatabaseInv, WalkedInv
  <2>2. CASE q = p
    <3>1. /\ \A r \in mem[p].rows : r.hash \in was[p][r.path]
          /\ \A pth \in Path \ todo[p], h \in Hash :
               was[p][pth] = {h} => \E r \in mem[p].rows : r.hash = h
          /\ IsFiniteSet(mem[p].rows) /\ parsed[p] = Cardinality(mem[p].rows)
          /\ \A pth \in Path : disk[pth] \in was[p][pth]
      BY <1>1, <1>4 DEF DatabaseInv, WalkedInv
    <3>2. /\ mem'[p].rows = IF Inserts(p, path) THEN mem[p].rows \cup {row} ELSE mem[p].rows
          /\ todo'[p] = todo[p] \ {path}
          /\ parsed'[p] = IF Inserts(p, path) THEN parsed[p] + 1 ELSE parsed[p]
      BY <1>1, <1>2, <1>3 DEF Database
    <3>3. \A r \in mem'[p].rows : r.hash \in was'[p][r.path]
      BY <3>1, <3>2, <1>1
    <3>4. ASSUME NEW pth \in Path \ todo'[p], NEW h \in Hash, was'[p][pth] = {h}
          PROVE  \E r \in mem'[p].rows : r.hash = h
      <4>1. CASE pth # path
        BY <3>4, <4>1, <3>1, <3>2, <1>1
      <4>2. CASE pth = path
        <5>1. disk[path] = h
          BY <3>4, <4>2, <3>1, <1>1
        <5>2. Inserts(p, path) \/ \E r \in mem[p].rows : r.hash = h
          BY <5>1 DEF Inserts
        <5>3. CASE Inserts(p, path)
          <6>1. row \in mem'[p].rows /\ row.hash = h
            BY <5>1, <5>3, <3>2
          <6>. QED
            BY <6>1
        <5>4. CASE ~Inserts(p, path)
          BY <5>2, <5>4, <3>2
        <5>. QED
          BY <5>3, <5>4
      <4>. QED
        BY <4>1, <4>2
    <3>5. IsFiniteSet(mem'[p].rows) /\ parsed'[p] = Cardinality(mem'[p].rows)
      <4>1. Inserts(p, path) => row \notin mem[p].rows
        BY DEF Inserts
      <4>2. /\ IsFiniteSet(mem[p].rows \cup {row})
            /\ row \notin mem[p].rows =>
                 Cardinality(mem[p].rows \cup {row}) = Cardinality(mem[p].rows) + 1
        BY <3>1, FS_AddElement
      <4>. QED
        BY <4>1, <4>2, <3>1, <3>2
    <3>. QED
      BY <2>2, <3>1, <3>3, <3>4, <3>5, <1>1
  <2>. QED
    BY <2>1, <2>2
<1>11. CopyInv'
  BY <1>1, <1>4, <1>5 DEF DatabaseInv, CopyInv, Match
<1>. QED
  BY <1>7, <1>8, <1>9, <1>10, <1>11 DEF DatabaseInv

LEMMA KeptByEndWalk ==
  ASSUME DatabaseInv, NEW p \in Proc, EndWalk(p)
  PROVE  DatabaseInv'
<1>1. /\ stage[p] = "walk" /\ todo[p] = {} /\ stage \in [Proc -> Stage]
      /\ stage' = [stage EXCEPT ![p] = "ready"]
      /\ whole' = whole \cup {mem[p]}
      /\ UNCHANGED <<disk, file, writer, mem, todo, parsed, reply, edits, crashes, was, stale>>
  BY DEF EndWalk, DatabaseInv, DatabaseTypeOK
<1>2. p \in Populates /\ reply[p] = {}
  BY <1>1 DEF DatabaseInv, CopyInv
<1>3. DatabaseTypeOK'
  BY <1>1 DEF DatabaseInv, DatabaseTypeOK, Stage
<1>4. WholeInv' /\ WriterInv' /\ TableInv'
  BY <1>1 DEF DatabaseInv, WholeInv, WriterInv, TableInv
<1>5. WalkedInv'
  BY <1>1, DatabaseFacts DEF DatabaseInv, WalkedInv
<1>6. CopyInv'
  BY <1>1, <1>2 DEF DatabaseInv, CopyInv, Match
<1>. QED
  BY <1>3, <1>4, <1>5, <1>6 DEF DatabaseInv

-----------------------------------------------------------------------------
(***************************************************************************)
(* Looking up, and saving.                                                 *)
(***************************************************************************)

LEMMA KeptByLookup ==
  ASSUME DatabaseInv, NEW p \in Proc, NEW h \in Hash, Lookup(p, h)
  PROVE  DatabaseInv'
<1>1. PICK path \in IF Match(p, h) = {} THEN {NoPath} ELSE Match(p, h) :
        reply' = [reply EXCEPT ![p] = {[hash |-> h, path |-> path]}]
  BY DEF Lookup
<1>2. /\ stage[p] = "ready" /\ p \notin Populates
      /\ UNCHANGED <<disk, file, writer, stage, mem, todo, parsed, edits, crashes, whole, was, stale>>
  BY DEF Lookup
<1>3. mem[p].rows \in SUBSET Row /\ reply \in [Proc -> SUBSET Reply]
  BY DEF DatabaseInv, DatabaseTypeOK, Database
<1>4. /\ path \in Path \cup {NoPath}
      /\ IF path = NoPath THEN Match(p, h) = {} ELSE path \in Match(p, h)
  BY <1>3, DatabaseFacts DEF Match, Row
<1>5. DatabaseTypeOK'
  BY <1>1, <1>2, <1>3, <1>4 DEF DatabaseInv, DatabaseTypeOK, Reply
<1>6. WholeInv' /\ WriterInv' /\ TableInv' /\ WalkedInv'
  BY <1>2 DEF DatabaseInv, WholeInv, WriterInv, TableInv, WalkedInv
<1>7. CopyInv'
  <2>. SUFFICES ASSUME NEW q \in Proc PROVE CopyInv!(q)'
    BY DEF CopyInv
  <2>1. CASE q # p
    BY <2>1, <1>1, <1>2, <1>3 DEF DatabaseInv, CopyInv, Match
  <2>2. CASE q = p
    <3>1. reply'[p] = {[hash |-> h, path |-> path]}
      BY <1>1, <1>3
    <3>2. \A x : Match(p, x)' = Match(p, x)
      BY <1>2 DEF Match
    <3>. QED
      BY <2>2, <3>1, <3>2, <1>2, <1>4 DEF DatabaseInv, CopyInv
  <2>. QED
    BY <2>1, <2>2
<1>. QED
  BY <1>5, <1>6, <1>7 DEF DatabaseInv

LEMMA KeptByBeginSave ==
  ASSUME DatabaseInv, NEW p \in Proc, BeginSave(p)
  PROVE  DatabaseInv'
<1>1. /\ stage[p] = "ready" /\ stage \in [Proc -> Stage]
      /\ \/ writer = NoProc /\ writer' = p /\ stage' = [stage EXCEPT ![p] = "save"]
         \/ writer' = writer /\ stage' = [stage EXCEPT ![p] = "done"]
      /\ UNCHANGED <<disk, file, mem, todo, parsed, reply, edits, crashes, whole, was, stale>>
  BY DEF BeginSave, DatabaseInv, DatabaseTypeOK
<1>2. DatabaseTypeOK'
  BY <1>1 DEF DatabaseInv, DatabaseTypeOK, Stage
<1>3. WholeInv' /\ TableInv'
  BY <1>1 DEF DatabaseInv, WholeInv, TableInv
<1>4. WriterInv'
  BY <1>1, DatabaseFacts DEF DatabaseInv, WriterInv
<1>5. WalkedInv'
  BY <1>1, DatabaseFacts DEF DatabaseInv, WalkedInv
<1>6. CopyInv'
  BY <1>1 DEF DatabaseInv, CopyInv, Match
<1>. QED
  BY <1>2, <1>3, <1>4, <1>5, <1>6 DEF DatabaseInv

LEMMA KeptByEndSave ==
  ASSUME DatabaseInv, NEW p \in Proc, EndSave(p)
  PROVE  DatabaseInv'
<1>1. /\ stage[p] = "save" /\ stage \in [Proc -> Stage] /\ mem \in [Proc -> Database]
      /\ file' = mem[p] /\ writer' = NoProc
      /\ stage' = [stage EXCEPT ![p] = "done"]
      /\ stale' = [q \in Proc |-> stale[q] \/ (q # p /\ stage[q] \notin {"out", "open"})]
      /\ UNCHANGED <<disk, mem, todo, parsed, reply, edits, crashes, whole, was>>
  BY DEF EndSave, DatabaseInv, DatabaseTypeOK
<1>2. DatabaseTypeOK'
  BY <1>1 DEF DatabaseInv, DatabaseTypeOK, Stage
<1>3. WholeInv' /\ TableInv'
  BY <1>1 DEF DatabaseInv, WholeInv, TableInv
<1>4. WriterInv'
  BY <1>1, DatabaseFacts DEF DatabaseInv, WriterInv
<1>5. WalkedInv'
  BY <1>1, DatabaseFacts DEF DatabaseInv, WalkedInv
<1>6. CopyInv'
  BY <1>1 DEF DatabaseInv, CopyInv, Match
<1>. QED
  BY <1>2, <1>3, <1>4, <1>5, <1>6 DEF DatabaseInv

-----------------------------------------------------------------------------
(***************************************************************************)
(* Crashes and edits.                                                      *)
(***************************************************************************)

LEMMA KeptByCrash ==
  ASSUME DatabaseInv, NEW p \in Proc, Crash(p)
  PROVE  DatabaseInv'
<1>1. /\ stage[p] \notin {"out", "done", "dead"} /\ stage \in [Proc -> Stage]
      /\ stage' = [stage EXCEPT ![p] = "dead"]
      /\ writer' = IF writer = p THEN NoProc ELSE writer
      /\ UNCHANGED <<disk, file, mem, todo, parsed, reply, edits, whole, was, stale>>
  BY DEF Crash, DatabaseInv, DatabaseTypeOK
<1>2. DatabaseTypeOK'
  BY <1>1 DEF DatabaseInv, DatabaseTypeOK, Stage
<1>3. WholeInv' /\ TableInv'
  BY <1>1 DEF DatabaseInv, WholeInv, TableInv
<1>4. WriterInv'
  BY <1>1, DatabaseFacts DEF DatabaseInv, WriterInv
<1>5. WalkedInv'
  BY <1>1, DatabaseFacts DEF DatabaseInv, WalkedInv
<1>6. CopyInv'
  BY <1>1 DEF DatabaseInv, CopyInv, Match
<1>. QED
  BY <1>2, <1>3, <1>4, <1>5, <1>6 DEF DatabaseInv

\* What a walk has seen at a path only grows, so a hash that is all it has seen
\* was already all it had seen.
LEMMA KeptByEdit ==
  ASSUME DatabaseInv, NEW path \in Path, NEW new \in OnDisk, Edit(path, new)
  PROVE  DatabaseInv'
<1>1. /\ disk' = [disk EXCEPT ![path] = new]
      /\ was' = [p \in Proc |->
           IF stage[p] = "walk" THEN [was[p] EXCEPT ![path] = @ \cup {new}] ELSE was[p]]
      /\ UNCHANGED <<file, writer, stage, mem, todo, parsed, reply, crashes, whole, stale>>
  BY DEF Edit
<1>2. disk \in [Path -> OnDisk] /\ was \in [Proc -> [Path -> SUBSET OnDisk]]
  BY DEF DatabaseInv, DatabaseTypeOK
<1>3. was' \in [Proc -> [Path -> SUBSET OnDisk]]
  <2>1. ASSUME NEW p \in Proc PROVE [was[p] EXCEPT ![path] = @ \cup {new}] \in [Path -> SUBSET OnDisk]
    BY <1>2
  <2>. QED
    BY <2>1, <1>1, <1>2
<1>4. DatabaseTypeOK'
  BY <1>1, <1>2, <1>3 DEF DatabaseInv, DatabaseTypeOK
<1>5. WholeInv' /\ WriterInv' /\ TableInv' /\ CopyInv'
  BY <1>1 DEF DatabaseInv, WholeInv, WriterInv, TableInv, CopyInv, Match
<1>6. WalkedInv'
  <2>. SUFFICES ASSUME NEW q \in Populates PROVE WalkedInv!(q)'
    BY DEF WalkedInv
  <2>0. q \in Proc
    BY DatabaseFacts
  <2>1. CASE stage[q] # "walk"
    <3>1. was'[q] = was[q]
      BY <2>0, <2>1, <1>1
    <3>. QED
      BY <2>1, <3>1, <1>1 DEF DatabaseInv, WalkedInv
  <2>2. CASE stage[q] = "walk"
    <3>1. /\ \A r \in mem[q].rows : r.hash \in was[q][r.path]
          /\ \A pth \in Path \ todo[q], h \in Hash :
               was[q][pth] = {h} => \E r \in mem[q].rows : r.hash = h
          /\ IsFiniteSet(mem[q].rows) /\ parsed[q] = Cardinality(mem[q].rows)
          /\ \A pth \in Path : disk[pth] \in was[q][pth]
      BY <2>2 DEF DatabaseInv, WalkedInv
    <3>2. \A pth \in Path : was'[q][pth] = IF pth = path THEN was[q][pth] \cup {new} ELSE was[q][pth]
      BY <2>0, <2>2, <1>1, <1>2
    <3>3. \A r \in mem[q].rows : r.path \in Path
      BY <2>0 DEF DatabaseInv, DatabaseTypeOK, Database, Row
    <3>4. \A pth \in Path : was[q][pth] \subseteq was'[q][pth]
      BY <3>2
    <3>5. \A r \in mem'[q].rows : r.hash \in was'[q][r.path]
      BY <3>1, <3>3, <3>4, <1>1
    <3>6. ASSUME NEW pth \in Path, NEW h \in Hash, was'[q][pth] = {h}
          PROVE  was[q][pth] = {h}
      <4>1. was[q][pth] \subseteq {h} /\ disk[pth] \in was[q][pth]
        BY <3>1, <3>4, <3>6
      <4>. QED
        BY <4>1
    <3>7. ASSUME NEW pth \in Path PROVE disk'[pth] \in was'[q][pth]
      <4>1. disk'[pth] = IF pth = path THEN new ELSE disk[pth]
        BY <1>1, <1>2
      <4>. QED
        BY <4>1, <3>1, <3>2
    <3>. QED
      BY <2>2, <3>1, <3>5, <3>6, <3>7, <1>1
  <2>. QED
    BY <2>1, <2>2
<1>. QED
  BY <1>4, <1>5, <1>6 DEF DatabaseInv

-----------------------------------------------------------------------------
(***************************************************************************)
(* The theorems.                                                           *)
(***************************************************************************)

LEMMA DatabaseKept == DatabaseInv /\ [DatabaseNext]_databaseVars => DatabaseInv'
<1>. SUFFICES ASSUME DatabaseInv, [DatabaseNext]_databaseVars PROVE DatabaseInv'
  OBVIOUS
<1>1. ASSUME NEW p \in Proc, ProcStep(p) PROVE DatabaseInv'
  BY <1>1, KeptByOpen, KeptByLoad, KeptBySchema, KeptByVisit, KeptByEndWalk, KeptByLookup,
     KeptByBeginSave, KeptByEndSave DEF ProcStep
<1>2. ASSUME NEW p \in Proc, Crash(p) PROVE DatabaseInv'
  BY <1>2, KeptByCrash
<1>3. ASSUME NEW path \in Path, NEW new \in OnDisk, Edit(path, new) PROVE DatabaseInv'
  BY <1>3, KeptByEdit
<1>4. CASE UNCHANGED databaseVars
  <2>1. DatabaseTypeOK' /\ WholeInv' /\ WriterInv' /\ TableInv'
    BY <1>4 DEF databaseVars, DatabaseInv, DatabaseTypeOK, WholeInv, WriterInv, TableInv
  <2>2. WalkedInv'
    BY <1>4 DEF databaseVars, DatabaseInv, WalkedInv
  <2>3. CopyInv'
    BY <1>4 DEF databaseVars, DatabaseInv, CopyInv, Match
  <2>. QED
    BY <2>1, <2>2, <2>3 DEF DatabaseInv
<1>. QED
  BY <1>1, <1>2, <1>3, <1>4 DEF DatabaseNext

LEMMA DatabaseAlways == DatabaseSpec => []DatabaseInv
BY DatabaseInitially, DatabaseKept, PTL DEF DatabaseSpec

\* Whatever crashes when (a walk, a save), the file of the beatmap database is
\* one that some process had finished to fill, without a hash twice.
THEOREM FileAlwaysWhole == DatabaseSpec => []FileWhole
<1>1. DatabaseInv => FileWhole
  BY DEF DatabaseInv, WholeInv, DatabaseTypeOK, Database, UniqueHash, FileWhole
<1>. QED
  BY <1>1, DatabaseAlways, PTL

\* What dbctl -p has put into the database is what was in the songs directory
\* during its walk, once per hash and counted right, and what a lookup in a
\* current copy answers is what the file has.
THEOREM PopulateAlwaysExact == DatabaseSpec => []PopulateExact
<1>1. DatabaseInv => Populated
  <2>. SUFFICES ASSUME DatabaseInv, NEW p \in Populates, stage[p] \in {"ready", "save", "done"}
                PROVE  Populated!(p)
    BY DEF Populated
  <2>1. /\ \A r \in mem[p].rows : r.hash \in was[p][r.path]
        /\ \A path \in Path, h \in Hash :
             was[p][path] = {h} => \E r \in mem[p].rows : r.hash = h
        /\ parsed[p] = Cardinality(mem[p].rows)
    BY DEF DatabaseInv, WalkedInv
  <2>2. UniqueHash(mem[p].rows)
    BY DatabaseFacts DEF DatabaseInv, DatabaseTypeOK, Database
  <2>3. ASSUME NEW path \in Path, NEW h \in Hash, was[p][path] = {h}
        PROVE  Cardinality({r \in mem[p].rows : r.hash = h}) = 1
    <3>1. PICK r \in mem[p].rows : r.hash = h
      BY <2>1, <2>3
    <3>2. {s \in mem[p].rows : s.hash = h} = {r}
      BY <3>1, <2>2 DEF UniqueHash
    <3>. QED
      BY <3>2, FS_Singleton
  <2>. QED
    BY <2>1, <2>3
<1>2. DatabaseInv => AnswersFromFile
  <2>. SUFFICES ASSUME DatabaseInv, NEW p \in Proc, stage[p] = "ready", ~stale[p],
                       NEW found \in reply[p]
                PROVE  AnswersFromFile!(p)!2!(found)
    BY DEF AnswersFromFile
  <2>1. p \notin Populates /\ mem[p].rows = file.rows
    BY DEF DatabaseInv, CopyInv
  <2>2. IF found.path = NoPath THEN Match(p, found.hash) = {} ELSE found.path \in Match(p, found.hash)
    BY DEF DatabaseInv, CopyInv
  <2>. QED
    BY <2>1, <2>2 DEF Match
<1>. QED
  BY <1>1, <1>2, DatabaseAlways, PTL DEF PopulateExact

\* taiko_ranking +bdb and dbctl -h write the whole file when they end; this
\* changes it only if another process saved meanwhile, or if it had no table.
THEOREM LookupsAlwaysKeepFile == DatabaseSpec => LookupsKeepFile
<1>1. ASSUME DatabaseInv, DatabaseNext,
             NEW p \in Proc \ Populates, stage[p] = "save", file' # file
      PROVE  stale[p] \/ ~file.table
  <2>1. ASSUME NEW q \in Proc, EndSave(q) PROVE q = p /\ file' = mem[p]
    BY <2>1, <1>1 DEF EndSave, DatabaseInv, WriterInv
  <2>2. \E q \in Proc : EndSave(q)
    BY <1>1 DEF DatabaseNext, ProcStep, Open, Load, Schema, EndWalk, BeginSave, Visit, Store,
                Lookup, Crash, Edit
  <2>3. file' = mem[p]
    BY <2>1, <2>2
  <2>4. mem[p].table /\ (~stale[p] => mem[p].rows = file.rows)
    BY <1>1 DEF DatabaseInv, CopyInv
  <2>5. {mem[p], file} \subseteq [table : BOOLEAN, rows : SUBSET Row]
    BY <1>1 DEF DatabaseInv, DatabaseTypeOK, Database
  <2>. QED
    BY <2>3, <2>4, <2>5, <1>1
<1>2. DatabaseInv /\ [DatabaseNext]_databaseVars =>
        [\A p \in Proc \ Populates :
           stage[p] = "save" /\ file' # file => stale[p] \/ ~file.table]_databaseVars
  BY <1>1 DEF databaseVars
<1>. QED
  BY <1>2, DatabaseAlways, PTL DEF DatabaseSpec, LookupsKeepFile

-----------------------------------------------------------------------------
(***************************************************************************)
(* The heap and the sums, for any numbers and any capacity: an extraction  *)
(* takes a largest element, and a sum is that of all that was added.       *)
(***************************************************************************)

Numbers == [0..Capacity -> Int]

HeapTypeOK ==
  /\ kind \in {"none", "perf", "acc", "weight"}
  /\ buf \in Numbers /\ count \in 0..Capacity /\ at \in 0..Capacity
  /\ moving \in {"no", "up", "down"}
  /\ compute \in {"no", "min1", "min2", "pair", "last", "max", "done"}
  /\ max \in Int /\ min1 \in Int /\ weighted \in Nat
  /\ sum \in Int /\ malloced \in Int /\ total \in Int

\* An element is at its place under its parent; the element that moves is the
\* only one that may not be, over its children or under its parent.  The slot
\* after the last has what moves down.
Under(i) == ~Cmp(buf[i], buf[i \div 2])
Ordered == \A i \in 1..count - 1 : Under(i)
MovingUp ==
  /\ at < count
  /\ \A i \in 1..count - 1 : i # at => Under(i)
  /\ \A i \in 1..count - 1 : i \div 2 = at => ~Cmp(buf[i], buf[at \div 2])
MovingDown ==
  /\ at < count \/ at = 0
  /\ buf[count] = buf[at]
  /\ \A i \in 1..count - 1 : i \div 2 # at => Under(i)
  /\ \A i \in 1..count - 1 : i \div 2 = at /\ at # 0 => ~Cmp(buf[i], buf[at \div 2])
  /\ \A i \in 0..count - 1 : ~Cmp(buf[i], max)

OrderInv ==
  /\ moving = "no" => Ordered
  /\ moving = "up" => MovingUp
  /\ moving = "down" => MovingDown

\* How many numbers there are at each point, and what they sum to: part of the
\* heap, the rest already taken from it.
Part(b, n) == LET part[m \in 0..Capacity + 1] == IF m = 0 THEN 0 ELSE part[m - 1] + b[m - 1]
              IN part[n]
StageInv ==
  /\ kind \in {"none", "perf"} => count = 0 /\ moving = "no" /\ compute \in {"no", "done"}
  /\ kind = "none" => compute = "no" /\ total = 0 /\ sum = 0
  /\ kind = "perf" => sum = total
  /\ kind = "acc" /\ compute # "done" => sum = 0
  /\ compute \in {"min1", "min2", "pair", "last"} => kind = "acc"
  /\ compute = "max" => kind = "weight"
  /\ compute \in {"min1", "pair"} => count >= 1
  /\ compute = "last" => count = 0
  /\ compute = "min1" => count + 1 <= Capacity
  /\ compute = "min2" => count + 2 <= Capacity
CountInv ==
  malloced = CASE compute = "no" /\ kind = "perf" -> 1
               [] compute = "no" /\ kind # "perf" -> count
               [] compute \in {"min1", "last", "max"} -> count + 1
               [] compute = "min2" -> count + 2
               [] compute = "pair" -> count
               [] compute = "done" -> 0
TotalInv ==
  kind = "acc" =>
    total = CASE compute \in {"no", "pair"} -> Part(buf, count)
              [] compute \in {"min1", "last"} -> Part(buf, count) + max
              [] compute = "min2" -> Part(buf, count) + min1 + max
              [] compute = "done" -> sum

\* How often x is among the first n elements of a heap, and in a sequence.
Is(b, x) == [i \in 0..Capacity |-> IF b[i] = x THEN 1 ELSE 0]
Times(b, x, n) == Part(Is(b, x), n)
Often(s, x) == Cardinality({i \in 1..Len(s) : s[i] = x})

\* A weighted sum: every number added is in the heap, about to be weighted or was
\* taken, and what was taken is not smaller than what was not.
NumbersInv ==
  /\ added \in [Number -> Nat] /\ taken \in Seq(Number)
  /\ kind = "none" => added = [x \in Number |-> 0]
  /\ compute = "no" => taken = << >> /\ weighted = 0 /\ (kind # "perf" => sum = 0)
WeightInv ==
  kind = "weight" =>
    /\ weighted = IF Len(taken) <= MaxWeighted THEN Len(taken) ELSE MaxWeighted
    /\ sum = Weighed(taken, Len(taken))
    /\ \A i \in 0..count - 1 : buf[i] \in Number
    /\ compute = "max" =>
         /\ max \in Number
         /\ \A i \in 0..count - 1 : buf[i] <= max
         /\ \A i \in 1..Len(taken) : max <= taken[i]
    /\ \A i, j \in 1..Len(taken) : i < j => taken[i] >= taken[j]
    /\ \A x \in Number :
         added[x] = Times(buf, x, count) + Often(taken, x)
                      + (IF compute = "max" /\ max = x THEN 1 ELSE 0)
    /\ compute = "done" => count = 0

HeapInv == HeapTypeOK /\ OrderInv /\ StageInv /\ CountInv /\ TotalInv

LEMMA HalfIs ==
  \A i \in Nat : i \div 2 \in Nat /\ 2 * (i \div 2) <= i /\ i <= 2 * (i \div 2) + 1
  OBVIOUS

\* heap->cmp is the order of the numbers or its reverse.
LEMMA CmpFacts ==
  /\ \A x, y \in Int : Cmp(x, y) => ~Cmp(y, x)
  /\ \A x \in Int : ~Cmp(x, x)
  /\ \A x, y, z \in Int : ~Cmp(x, y) /\ ~Cmp(y, z) => ~Cmp(x, z)
  BY DEF Cmp

LEMMA SwappedIs ==
  ASSUME HeapTypeOK, NEW i \in 0..Capacity, NEW j \in 0..Capacity
  PROVE  /\ Swapped(i, j) \in Numbers
         /\ \A n \in 0..Capacity :
              Swapped(i, j)[n] = IF n = i THEN buf[j] ELSE IF n = j THEN buf[i] ELSE buf[n]
<1>. DEFINE b == Swapped(i, j)
<1>1. buf \in [0..Capacity -> Int]
  BY DEF HeapTypeOK, Numbers
<1>2. \A n \in 0..Capacity : b[n] = IF n = i THEN buf[j] ELSE IF n = j THEN buf[i] ELSE buf[n]
  BY <1>1 DEF Swapped
<1>3. b = [n \in 0..Capacity |-> b[n]]
  BY <1>1 DEF Swapped
<1>. HIDE DEF b
<1>4. \A n \in 0..Capacity : b[n] \in Int
  BY <1>1, <1>2
<1>5. b \in Numbers
  BY <1>3, <1>4 DEF Numbers
<1>. QED
  BY <1>2, <1>5 DEF b

\* An element moves up.
LEMMA MoveUpKeeps ==
  ASSUME HeapTypeOK, OrderInv, MoveUp
  PROVE  HeapTypeOK' /\ OrderInv'
<1>1. /\ moving = "up" /\ MovingUp /\ HeapAssumption
      /\ UNCHANGED <<kind, count, max, compute, min1, weighted, sum, malloced, total>>
  BY HeapAssumption DEF OrderInv, MoveUp
<1>2. /\ buf \in Numbers /\ count \in 0..Capacity /\ at \in 0..Capacity /\ at < count
      /\ Capacity \in Nat /\ \A n \in 0..Capacity : buf[n] \in Int
  BY <1>1, HeapAssumption DEF HeapTypeOK, Numbers, MovingUp
<1>. DEFINE up == at \div 2
<1>3. up \in 0..Capacity /\ up <= at /\ (at # 0 => up < at)
  BY <1>2, HalfIs
<1>4. CASE ~InsertProblem
  <2>1. moving' = "no" /\ UNCHANGED <<buf, at>>
    BY <1>4 DEF MoveUp
  <2>2. \A i \in 1..count - 1 : Under(i)
    <3>1. at \in 1..count - 1 => Under(at)
      BY <1>4 DEF InsertProblem, Under
    <3>. QED
      BY <1>1, <3>1 DEF MovingUp
  <2>3. OrderInv'
    BY <1>1, <2>1, <2>2 DEF OrderInv, Ordered, Under, Cmp
  <2>. QED
    BY <1>1, <2>1, <2>3 DEF HeapTypeOK
<1>5. CASE InsertProblem
  <2>1. buf' = Swapped(at, up) /\ at' = up /\ moving' = "up"
    BY <1>1, <1>5 DEF MoveUp
  <2>. DEFINE b == buf'
  <2>2. /\ b \in Numbers
        /\ \A n \in 0..Capacity : b[n] = IF n = at THEN buf[up] ELSE IF n = up THEN buf[at] ELSE buf[n]
    BY <1>2, <1>3, <2>1, SwappedIs
  <2>3. Cmp(buf[at], buf[up]) /\ at # up /\ at # 0 /\ up < at
    <3>1. Cmp(buf[at], buf[up])
      BY <1>5 DEF InsertProblem
    <3>2. at # up
      BY <1>2, <3>1, CmpFacts
    <3>3. at # 0
      BY <3>2, HalfIs
    <3>. QED
      BY <1>3, <3>1, <3>2, <3>3
  <2>. HIDE DEF b, up
  <2>4. b[up] = buf[at] /\ b[at] = buf[up]
    BY <1>2, <1>3, <2>2, <2>3
  <2>5. up # 0 => ~Cmp(buf[up], buf[up \div 2])
    <3>. SUFFICES ASSUME up # 0  PROVE ~Cmp(buf[up], buf[up \div 2])
      OBVIOUS
    <3>1. up \in 1..count - 1 /\ up # at
      BY <1>2, <1>3, <2>3
    <3>. QED
      BY <1>1, <3>1 DEF MovingUp, Under
  <2>6. ASSUME NEW i \in 1..count - 1
        PROVE  /\ i \div 2 \in 0..Capacity /\ i \in 0..Capacity /\ i \div 2 < i
               /\ i # at /\ i # up => b[i] = buf[i]
               /\ i \div 2 # at /\ i \div 2 # up => b[i \div 2] = buf[i \div 2]
    <3>1. i \div 2 \in 0..Capacity /\ i \in 0..Capacity /\ i \div 2 < i
      BY <1>2, HalfIs
    <3>. QED
      BY <2>2, <3>1
  <2>7. ASSUME NEW i \in 1..count - 1, i # up
        PROVE  ~Cmp(b[i], b[i \div 2])
    <3>1. CASE i = at
      BY <1>2, <1>3, <2>3, <2>4, <3>1, CmpFacts DEF up
    <3>2. CASE i # at /\ i \div 2 = at
      <4>1. ~Cmp(buf[i], buf[up])
        BY <1>1, <3>2 DEF MovingUp, up
      <4>. QED
        BY <2>4, <2>6, <2>7, <3>2, <4>1
    <3>3. CASE i # at /\ i \div 2 = up
      <4>1. ~Cmp(buf[i], buf[up])
        BY <1>1, <3>3 DEF MovingUp, Under
      <4>2. ~Cmp(buf[up], buf[at])
        BY <1>2, <1>3, <2>3, CmpFacts
      <4>3. ~Cmp(buf[i], buf[at])
        BY <1>2, <1>3, <2>6, <4>1, <4>2, CmpFacts
      <4>. QED
        BY <2>4, <2>6, <2>7, <3>3, <4>3
    <3>4. CASE i # at /\ i \div 2 # at /\ i \div 2 # up
      <4>1. ~Cmp(buf[i], buf[i \div 2])
        BY <1>1, <3>4 DEF MovingUp, Under
      <4>. QED
        BY <2>6, <2>7, <3>4, <4>1
    <3>. QED
      BY <3>1, <3>2, <3>3, <3>4
  <2>8. ASSUME NEW i \in 1..count - 1, i \div 2 = up
        PROVE  ~Cmp(b[i], b[up \div 2])
    <3>1. i # up
      BY <2>6, <2>8
    <3>2. CASE up = 0
      <4>1. up \div 2 = up
        BY <3>2
      <4>. QED
        BY <2>7, <2>8, <3>1, <4>1
    <3>3. CASE up # 0
      <4>1. up \div 2 \in 0..Capacity /\ up \div 2 < up
        BY <1>3, <1>2, <3>3, HalfIs
      <4>2. b[up \div 2] = buf[up \div 2]
        BY <2>2, <2>3, <4>1, <1>2, <1>3
      <4>3. ~Cmp(buf[up], buf[up \div 2])
        BY <2>5, <3>3
      <4>4. b[i] \in Int /\ ~Cmp(b[i], buf[up])
        <5>1. CASE i = at
          BY <1>2, <1>3, <2>4, <5>1, CmpFacts
        <5>2. CASE i # at
          <6>1. ~Cmp(buf[i], buf[up])
            BY <1>1, <2>8, <5>2 DEF MovingUp, Under
          <6>. QED
            BY <1>2, <2>6, <3>1, <5>2, <6>1
        <5>. QED
          BY <5>1, <5>2
      <4>5. ~Cmp(b[i], buf[up \div 2])
        BY <1>2, <1>3, <4>1, <4>3, <4>4, CmpFacts
      <4>. QED
        BY <4>2, <4>5
    <3>. QED
      BY <3>2, <3>3
  <2>9. MovingUp'
    <3>1. at' < count' /\ at' = up /\ count' = count /\ kind' = kind
      BY <1>1, <1>2, <1>3, <2>1, <2>3
    <3>. QED
      BY <2>7, <2>8, <3>1 DEF MovingUp, Under, Cmp, b
  <2>10. OrderInv'
    BY <2>1, <2>9 DEF OrderInv
  <2>11. HeapTypeOK'
    BY <1>1, <1>3, <2>1, <2>2 DEF HeapTypeOK, b
  <2>. QED
    BY <2>10, <2>11
<1>. QED
  BY <1>4, <1>5

\* The greatest child of the element that moves down, when one of them should be
\* above it: it is in the heap, although the slot after the last was compared.
LEMMA GreaterChildIs ==
  ASSUME HeapTypeOK, MovingDown, ExtractProblem
  PROVE  /\ GreaterChild \in 1..count - 1 /\ GreaterChild \div 2 = at /\ GreaterChild # at
         /\ Cmp(buf[GreaterChild], buf[at])
         /\ \A i \in 1..count - 1 : i \div 2 = at => ~Cmp(buf[i], buf[GreaterChild])
<1>. DEFINE L == 2 * at
            R == 2 * at + 1
            g == GreaterChild
<1>1. /\ buf \in Numbers /\ count \in 0..Capacity /\ at \in 0..Capacity /\ Capacity \in Nat
      /\ \A n \in 0..Capacity : buf[n] \in Int
      /\ at < count \/ at = 0
      /\ buf[count] = buf[at]
  BY HeapAssumption DEF HeapTypeOK, Numbers, MovingDown
<1>2. \A i \in Nat : i \div 2 = at <=> i = L \/ i = R
  BY <1>1, HalfIs
<1>3. g = IF L = count \/ Cmp(buf[L], buf[R]) THEN L ELSE R
  BY DEF GreaterChild
<1>4. (L <= count /\ Cmp(buf[L], buf[at])) \/ (R <= count /\ Cmp(buf[R], buf[at]))
  BY DEF ExtractProblem
<1>5. ~Cmp(buf[at], buf[at]) /\ buf[at] \in Int
  BY <1>1, CmpFacts
<1>. HIDE DEF g
<1>6. L < count
  <2>. SUFFICES ASSUME ~(L < count)  PROVE FALSE
    OBVIOUS
  <2>1. L = count /\ Cmp(buf[L], buf[at])
    BY <1>1, <1>4
  <2>. QED
    BY <1>1, <1>5, <2>1
<1>7. L \in 0..Capacity /\ R \in 0..Capacity /\ R <= count /\ buf[L] \in Int /\ buf[R] \in Int
  BY <1>1, <1>6
<1>8. CASE Cmp(buf[L], buf[R])
  <2>1. g = L
    BY <1>3, <1>8
  <2>2. Cmp(buf[L], buf[at])
    <3>1. CASE Cmp(buf[R], buf[at])
      <4>1. ~Cmp(buf[at], buf[R]) /\ ~Cmp(buf[R], buf[L])
        BY <1>5, <1>7, <1>8, <3>1, CmpFacts
      <4>2. ~Cmp(buf[at], buf[L])
        BY <1>5, <1>7, <4>1, CmpFacts
      <4>. QED
        BY <1>5, <1>7, <1>8, <3>1, <4>2 DEF Cmp
    <3>2. CASE ~Cmp(buf[R], buf[at])
      BY <1>4, <3>2
    <3>. QED
      BY <3>1, <3>2
  <2>3. L # at /\ L >= 1
    BY <1>1, <1>5, <2>2
  <2>4. ~Cmp(buf[L], buf[L]) /\ ~Cmp(buf[R], buf[L])
    BY <1>7, <1>8, CmpFacts
  <2>5. L \in 1..count - 1 /\ L \div 2 = at
    BY <1>1, <1>2, <1>6, <2>3
  <2>6. \A i \in 1..count - 1 : i \div 2 = at => ~Cmp(buf[i], buf[L])
    BY <1>1, <1>2, <2>4
  <2>. QED
    BY <2>1, <2>2, <2>3, <2>5, <2>6 DEF g
<1>9. CASE ~Cmp(buf[L], buf[R])
  <2>1. g = R
    BY <1>1, <1>3, <1>6, <1>9
  <2>2. Cmp(buf[R], buf[at])
    BY <1>4, <1>5, <1>7, <1>9 DEF Cmp
  <2>3. R # count
    BY <1>1, <1>5, <2>2
  <2>4. R \in 1..count - 1 /\ R \div 2 = at /\ R # at
    BY <1>1, <1>2, <1>7, <2>3
  <2>5. \A i \in 1..count - 1 : i \div 2 = at => ~Cmp(buf[i], buf[R])
    BY <1>1, <1>2, <1>7, <1>9, CmpFacts
  <2>. QED
    BY <2>1, <2>2, <2>4, <2>5 DEF g
<1>. QED
  BY <1>8, <1>9

\* An element moves down.
LEMMA MoveDownKeeps ==
  ASSUME HeapTypeOK, OrderInv, MoveDown
  PROVE  HeapTypeOK' /\ OrderInv'
<1>1. /\ moving = "down" /\ MovingDown
      /\ UNCHANGED <<kind, count, max, compute, min1, weighted, sum, malloced, total>>
  BY DEF OrderInv, MoveDown
<1>2. /\ buf \in Numbers /\ count \in 0..Capacity /\ at \in 0..Capacity /\ Capacity \in Nat
      /\ \A n \in 0..Capacity : buf[n] \in Int
      /\ at < count \/ at = 0
      /\ buf[count] = buf[at] /\ max \in Int
  BY <1>1, HeapAssumption DEF HeapTypeOK, Numbers, MovingDown
<1>3. CASE ~ExtractProblem
  <2>1. moving' = "no" /\ UNCHANGED <<buf, at>>
    BY <1>3 DEF MoveDown
  <2>2. ASSUME NEW i \in 1..count - 1  PROVE Under(i)
    <3>1. CASE i \div 2 = at
      <4>1. i = 2 * at \/ i = 2 * at + 1
        BY <1>2, <3>1, HalfIs
      <4>2. ~Cmp(buf[i], buf[at])
        BY <1>2, <1>3, <4>1 DEF ExtractProblem
      <4>. QED
        BY <3>1, <4>2 DEF Under
    <3>2. CASE i \div 2 # at
      BY <1>1, <3>2 DEF MovingDown
    <3>. QED
      BY <3>1, <3>2
  <2>3. OrderInv'
    BY <1>1, <2>1, <2>2 DEF OrderInv, Ordered, Under, Cmp
  <2>. QED
    BY <1>1, <2>1, <2>3 DEF HeapTypeOK
<1>4. CASE ExtractProblem
  <2>. DEFINE g == GreaterChild
              b == buf'
  <2>1. buf' = Swapped(at, g) /\ at' = g /\ moving' = "down"
    BY <1>1, <1>4 DEF MoveDown
  <2>2. /\ g \in 1..count - 1 /\ g \div 2 = at /\ g # at /\ Cmp(buf[g], buf[at])
        /\ \A i \in 1..count - 1 : i \div 2 = at => ~Cmp(buf[i], buf[g])
    BY <1>1, <1>4, GreaterChildIs
  <2>. HIDE DEF g
  <2>3. /\ b \in Numbers
        /\ \A n \in 0..Capacity : b[n] = IF n = at THEN buf[g] ELSE IF n = g THEN buf[at] ELSE buf[n]
    <3>1. g \in 0..Capacity
      BY <1>2, <2>2
    <3>. QED
      BY <1>2, <2>1, <3>1, SwappedIs
  <2>. HIDE DEF b
  <2>4. /\ b[g] = buf[at] /\ b[at] = buf[g] /\ g \in 0..Capacity /\ at < g /\ at < count
        /\ b[count] = buf[at]
    <3>1. g \in 0..Capacity /\ at < g /\ at < count /\ count # g /\ count # at
      BY <1>2, <2>2, HalfIs
    <3>. QED
      BY <1>2, <2>2, <2>3, <3>1
  <2>5. ASSUME NEW i \in 1..count - 1
        PROVE  /\ i \div 2 \in 0..Capacity /\ i \in 0..Capacity /\ i \div 2 < i
               /\ i # at /\ i # g => b[i] = buf[i]
               /\ i \div 2 # at /\ i \div 2 # g => b[i \div 2] = buf[i \div 2]
    <3>1. i \div 2 \in 0..Capacity /\ i \in 0..Capacity /\ i \div 2 < i
      BY <1>2, HalfIs
    <3>. QED
      BY <2>3, <3>1
  <2>6. ASSUME NEW i \in 1..count - 1, i \div 2 # g
        PROVE  ~Cmp(b[i], b[i \div 2])
    <3>1. CASE i = at
      <4>1. i \div 2 # at /\ b[i \div 2] = buf[i \div 2]
        BY <2>5, <2>6, <3>1
      <4>2. ~Cmp(buf[g], buf[at \div 2])
        BY <1>1, <2>2, <3>1 DEF MovingDown
      <4>. QED
        BY <2>4, <3>1, <4>1, <4>2
    <3>2. CASE i = g
      BY <1>2, <2>2, <2>4, <3>2, CmpFacts
    <3>3. CASE i # at /\ i # g /\ i \div 2 = at
      BY <2>2, <2>4, <2>5, <2>6, <3>3
    <3>4. CASE i # at /\ i # g /\ i \div 2 # at
      <4>1. ~Cmp(buf[i], buf[i \div 2])
        BY <1>1, <3>4 DEF MovingDown, Under
      <4>. QED
        BY <2>5, <2>6, <3>4, <4>1
    <3>. QED
      BY <3>1, <3>2, <3>3, <3>4
  <2>7. ASSUME NEW i \in 1..count - 1, i \div 2 = g
        PROVE  ~Cmp(b[i], b[g \div 2])
    <3>1. i # at /\ i # g /\ i \div 2 # at /\ b[i] = buf[i]
      BY <1>2, <2>4, <2>5, <2>7
    <3>2. ~Cmp(buf[i], buf[g])
      BY <1>1, <2>7, <3>1 DEF MovingDown, Under
    <3>. QED
      BY <2>2, <2>4, <3>1, <3>2
  <2>8. ASSUME NEW i \in 0..count - 1  PROVE ~Cmp(b[i], max)
    <3>1. \A n \in 0..count - 1 : ~Cmp(buf[n], max)
      BY <1>1 DEF MovingDown
    <3>2. i \in 0..Capacity /\ at \in 0..count - 1 /\ g \in 0..count - 1
      BY <1>2, <2>2, <2>4
    <3>. QED
      BY <2>3, <3>1, <3>2
  <2>9. MovingDown'
    <3>1. at' = g /\ count' = count /\ kind' = kind /\ max' = max /\ at' < count'
      BY <1>1, <1>2, <2>1, <2>2
    <3>2. \A x, y : Cmp(x, y)' <=> Cmp(x, y)
      BY <3>1 DEF Cmp
    <3>. QED
      BY <2>4, <2>6, <2>7, <2>8, <3>1 DEF MovingDown, Under, Cmp, b
  <2>10. OrderInv'
    BY <2>1, <2>9 DEF OrderInv
  <2>11. HeapTypeOK'
    BY <1>1, <2>1, <2>3, <2>4 DEF HeapTypeOK, b
  <2>. QED
    BY <2>10, <2>11
<1>. QED
  BY <1>3, <1>4

\* In a heap in order the root is before all of it.
LEMMA RootIsLargest ==
  ASSUME HeapTypeOK, Ordered
  PROVE  \A i \in 0..count - 1 : ~Cmp(buf[i], buf[0])
<1>. DEFINE S == {n \in Nat : \A i \in 0..n : i < count => ~Cmp(buf[i], buf[0])}
<1>1. /\ count \in 0..Capacity /\ Capacity \in Nat
      /\ \A n \in 0..Capacity : buf[n] \in Int
  BY HeapAssumption DEF HeapTypeOK, Numbers
<1>2. 0 \in S
  BY <1>1, CmpFacts
<1>3. ASSUME NEW n \in Nat, n \in S  PROVE n + 1 \in S
  <2>. SUFFICES ASSUME NEW i \in 0..n + 1, i < count  PROVE ~Cmp(buf[i], buf[0])
    OBVIOUS
  <2>1. CASE i \in 0..n
    BY <1>3, <2>1
  <2>2. CASE i = n + 1
    <3>1. i \in 1..count - 1 /\ i \div 2 \in 0..n /\ i \div 2 < count
          /\ i \in 0..Capacity /\ i \div 2 \in 0..Capacity /\ 0 \in 0..Capacity
      BY <1>1, <2>2, HalfIs
    <3>2. ~Cmp(buf[i], buf[i \div 2]) /\ ~Cmp(buf[i \div 2], buf[0])
      BY <1>3, <3>1 DEF Ordered, Under
    <3>. QED
      BY <1>1, <3>1, <3>2, CmpFacts
  <2>. QED
    BY <2>1, <2>2
<1>4. \A n \in Nat : n \in S
  <2>. HIDE DEF S
  <2>. QED
    BY <1>2, <1>3, NatSetInduction
<1>. QED
  <2>. SUFFICES ASSUME NEW i \in 0..count - 1  PROVE ~Cmp(buf[i], buf[0])
    OBVIOUS
  <2>1. i \in Nat /\ i \in S /\ i \in 0..i /\ i < count
    BY <1>1, <1>4
  <2>. QED
    BY <2>1

\* Extracting from a heap in order.
LEMMA ExtractKeeps ==
  ASSUME HeapTypeOK, OrderInv, moving = "no", count >= 1, HeapExtract, kind' = kind
  PROVE  /\ OrderInv' /\ buf' \in Numbers /\ count' \in 0..Capacity /\ at' \in 0..Capacity
         /\ max' \in Int /\ moving' = "down" /\ count' = count - 1 /\ max' = buf[0]
         /\ \A n \in 0..Capacity : buf'[n] = IF n = 0 THEN buf[count - 1] ELSE buf[n]
<1>. DEFINE b == buf'
<1>1. /\ buf \in Numbers /\ count \in 0..Capacity /\ Capacity \in Nat
      /\ \A n \in 0..Capacity : buf[n] \in Int
  BY HeapAssumption DEF HeapTypeOK, Numbers
<1>2. /\ max' = buf[0] /\ buf' = [buf EXCEPT ![0] = buf[count - 1]]
      /\ count' = count - 1 /\ at' = 0 /\ moving' = "down"
  BY DEF HeapExtract
<1>3. \A n \in 0..Capacity : b[n] = IF n = 0 THEN buf[count - 1] ELSE buf[n]
  BY <1>1, <1>2 DEF Numbers
<1>4. b \in Numbers
  <2>1. b = [n \in 0..Capacity |-> b[n]]
    BY <1>1, <1>2 DEF Numbers
  <2>. HIDE DEF b
  <2>2. \A n \in 0..Capacity : b[n] \in Int
    BY <1>1, <1>3
  <2>. QED
    BY <2>1, <2>2 DEF Numbers
<1>5. Ordered /\ \A i \in 0..count - 1 : ~Cmp(buf[i], buf[0])
  BY RootIsLargest DEF OrderInv
<1>. HIDE DEF b
<1>6. b[count'] = b[0]
  BY <1>1, <1>2, <1>3
<1>7. ASSUME NEW i \in 1..count - 2, i \div 2 # 0  PROVE ~Cmp(b[i], b[i \div 2])
  <2>1. i \in 1..count - 1 /\ i \in 0..Capacity /\ i \div 2 \in 0..Capacity /\ i # 0
    BY <1>1, HalfIs
  <2>. QED
    BY <1>3, <1>5, <1>7, <2>1 DEF Ordered, Under
<1>8. \A i \in 0..count - 2 : ~Cmp(b[i], buf[0])
  BY <1>1, <1>3, <1>5
<1>9. MovingDown'
  <2>1. count' - 1 = count - 2
    BY <1>1, <1>2
  <2>. QED
    BY <1>2, <1>6, <1>7, <1>8, <2>1 DEF MovingDown, Under, Cmp, b
<1>. QED
  BY <1>1, <1>2, <1>3, <1>4, <1>9 DEF OrderInv, b

\* Inserting into a heap in order.
LEMMA InsertKeeps ==
  ASSUME HeapTypeOK, OrderInv, moving = "no", count < Capacity, NEW x \in Int, HeapInsert(x), kind' = kind
  PROVE  /\ OrderInv' /\ buf' \in Numbers /\ count' \in 0..Capacity /\ at' \in 0..Capacity
         /\ moving' = "up" /\ count' = count + 1
         /\ \A n \in 0..Capacity : buf'[n] = IF n = count THEN x ELSE buf[n]
<1>. DEFINE b == buf'
<1>1. /\ buf \in Numbers /\ count \in 0..Capacity /\ Capacity \in Nat
      /\ \A n \in 0..Capacity : buf[n] \in Int
  BY HeapAssumption DEF HeapTypeOK, Numbers
<1>2. /\ buf' = [buf EXCEPT ![count] = x]
      /\ count' = count + 1 /\ at' = count /\ moving' = "up"
  BY DEF HeapInsert
<1>3. \A n \in 0..Capacity : b[n] = IF n = count THEN x ELSE buf[n]
  BY <1>1, <1>2 DEF Numbers
<1>4. b \in Numbers
  <2>1. b = [n \in 0..Capacity |-> b[n]]
    BY <1>1, <1>2 DEF Numbers
  <2>. HIDE DEF b
  <2>2. \A n \in 0..Capacity : b[n] \in Int
    BY <1>1, <1>3
  <2>. QED
    BY <2>1, <2>2 DEF Numbers
<1>. HIDE DEF b
<1>5. ASSUME NEW i \in 1..count, i # count  PROVE ~Cmp(b[i], b[i \div 2])
  <2>1. i \in 1..count - 1 /\ i \in 0..Capacity /\ i \div 2 \in 0..Capacity /\ i \div 2 # count
    BY <1>1, <1>5, HalfIs
  <2>2. ~Cmp(buf[i], buf[i \div 2])
    BY <2>1 DEF OrderInv, Ordered, Under
  <2>. QED
    BY <1>3, <1>5, <2>1, <2>2
<1>6. \A i \in 1..count : i \div 2 # count
  BY <1>1, HalfIs
<1>7. MovingUp'
  <2>1. count' - 1 = count /\ at' < count'
    BY <1>1, <1>2
  <2>. QED
    BY <1>2, <1>5, <1>6, <2>1 DEF MovingUp, Under, Cmp, b
<1>. QED
  BY <1>1, <1>2, <1>3, <1>4, <1>7 DEF OrderInv, b

\* A sum grows with the part of the heap that it is of.
LEMMA PartIs ==
  ASSUME NEW b \in Numbers
  PROVE  /\ Part(b, 0) = 0
         /\ \A n \in 0..Capacity + 1 : Part(b, n) \in Int
         /\ \A n \in 0..Capacity : Part(b, n + 1) = Part(b, n) + b[n]
<1>. DEFINE N == Capacity + 1
           h == [p \in (1..N) \X Int |-> p[2] + b[p[1] - 1]]
           Good(g) == g = [m \in 0..N |-> IF m = 0 THEN 0 ELSE g[m - 1] + b[m - 1]]
           part == CHOOSE g : Good(g)
<1>1. N \in Nat /\ Capacity \in Nat /\ \A n \in 0..Capacity : b[n] \in Int
  BY HeapAssumption DEF Numbers
<1>2. ASSUME NEW m \in 1..N, NEW v \in Int
      PROVE  h[<<m, v>>] = v + b[m - 1] /\ h[<<m, v>>] \in Int
  <2>1. m - 1 \in 0..Capacity /\ b[m - 1] \in Int
    BY <1>1
  <2>2. h[<<m, v>>] = v + b[m - 1]
    OBVIOUS
  <2>. QED
    BY <2>1, <2>2
<1>3. Steps(N, Int, 0, h)
  <2>. HIDE DEF h, N
  <2>. QED
    BY <1>1, <1>2 DEF Steps
<1>. HIDE DEF h
<1>4. PICK g \in [0..N -> Int] : g = [m \in 0..N |-> IF m = 0 THEN 0 ELSE h[<<m, g[m - 1]>>]]
  <2>. HIDE DEF N
  <2>. QED
    BY <1>3, StepFunction
<1>5. Good(g)
  <2>1. \A m \in 0..N : m # 0 => h[<<m, g[m - 1]>>] = g[m - 1] + b[m - 1]
    <3>. SUFFICES ASSUME NEW m \in 0..N, m # 0  PROVE h[<<m, g[m - 1]>>] = g[m - 1] + b[m - 1]
      OBVIOUS
    <3>1. m \in 1..N /\ m - 1 \in 0..N
      BY <1>1
    <3>2. g[m - 1] \in Int
      BY <3>1
    <3>. QED
      BY <1>2, <3>1, <3>2
  <2>. HIDE DEF N
  <2>. QED
    BY <1>4, <2>1
<1>. HIDE DEF Good
<1>6. Good(part)
  BY <1>5
<1>7. part = [m \in 0..N |-> IF m = 0 THEN 0 ELSE part[m - 1] + b[m - 1]]
  <2>. HIDE DEF part
  <2>. QED
    BY <1>6 DEF Good
<1>8. \A n : Part(b, n) = part[n]
  BY DEF Part, Good
<1>. HIDE DEF part
<1>9. part[0] = 0 /\ \A n \in 0..Capacity : part[n + 1] = part[n] + b[n]
  <2>1. 0 \in 0..N
    BY <1>1
  <2>2. ASSUME NEW n \in 0..Capacity  PROVE part[n + 1] = part[n] + b[n]
    <3>1. n + 1 \in 0..N /\ n + 1 # 0 /\ (n + 1) - 1 = n
      BY <1>1
    <3>. HIDE DEF N
    <3>. QED
      BY <1>7, <3>1
  <2>. HIDE DEF N
  <2>. QED
    BY <1>7, <2>1, <2>2
<1>10. \A n \in 0..N : part[n] \in Int
  <2>. DEFINE S == {n \in Nat : n <= N => part[n] \in Int}
  <2>1. 0 \in S
    BY <1>9
  <2>2. ASSUME NEW n \in Nat, n \in S  PROVE n + 1 \in S
    <3>. SUFFICES ASSUME n + 1 <= N  PROVE part[n + 1] \in Int
      OBVIOUS
    <3>1. n \in 0..Capacity /\ n <= N
      BY <1>1
    <3>2. part[n] \in Int /\ b[n] \in Int /\ part[n + 1] = part[n] + b[n]
      BY <1>1, <1>9, <2>2, <3>1
    <3>. QED
      BY <3>2
  <2>3. \A n \in Nat : n \in S
    <3>. HIDE DEF S
    <3>. QED
      BY <2>1, <2>2, NatSetInduction
  <2>. QED
    BY <1>1, <2>3
<1>. QED
  BY <1>8, <1>9, <1>10

\* A heap that differs from another in one place differs in its sum by as much.
LEMMA PartSet ==
  ASSUME NEW b \in Numbers, NEW c \in Numbers, NEW j \in 0..Capacity,
         \A n \in 0..Capacity : n # j => c[n] = b[n]
  PROVE  \A n \in 0..Capacity + 1 :
           Part(c, n) = Part(b, n) + (IF j < n THEN c[j] - b[j] ELSE 0)
<1>. DEFINE S == {n \in Nat : n <= Capacity + 1 =>
                     Part(c, n) = Part(b, n) + (IF j < n THEN c[j] - b[j] ELSE 0)}
<1>1. Capacity \in Nat /\ \A n \in 0..Capacity : b[n] \in Int /\ c[n] \in Int
  BY HeapAssumption DEF Numbers
<1>2. /\ Part(b, 0) = 0 /\ Part(c, 0) = 0
      /\ \A n \in 0..Capacity + 1 : Part(b, n) \in Int /\ Part(c, n) \in Int
      /\ \A n \in 0..Capacity : /\ Part(b, n + 1) = Part(b, n) + b[n]
                                /\ Part(c, n + 1) = Part(c, n) + c[n]
  BY PartIs
<1>3. 0 \in S
  BY <1>1, <1>2
<1>4. ASSUME NEW n \in Nat, n \in S  PROVE n + 1 \in S
  <2>. SUFFICES ASSUME n + 1 <= Capacity + 1
                PROVE  Part(c, n + 1) = Part(b, n + 1) + (IF j < n + 1 THEN c[j] - b[j] ELSE 0)
    OBVIOUS
  <2>1. /\ n \in 0..Capacity /\ n \in 0..Capacity + 1
        /\ Part(c, n) = Part(b, n) + (IF j < n THEN c[j] - b[j] ELSE 0)
    BY <1>1, <1>4
  <2>2. Part(b, n) \in Int /\ b[n] \in Int /\ c[n] \in Int /\ b[j] \in Int /\ c[j] \in Int
        /\ Part(b, n + 1) = Part(b, n) + b[n] /\ Part(c, n + 1) = Part(c, n) + c[n]
    BY <1>1, <1>2, <2>1
  <2>. QED
    BY <2>1, <2>2
<1>5. \A n \in Nat : n \in S
  <2>. HIDE DEF S
  <2>. QED
    BY <1>3, <1>4, NatSetInduction
<1>. QED
  BY <1>1, <1>5

\* Two elements of a heap that change places leave its sum.
LEMMA PartSwapped ==
  ASSUME NEW b \in Numbers, NEW c \in Numbers, NEW n \in 0..Capacity,
         NEW i \in 0..n - 1, NEW j \in 0..n - 1,
         \A m \in 0..Capacity : c[m] = IF m = i THEN b[j] ELSE IF m = j THEN b[i] ELSE b[m]
  PROVE  Part(c, n) = Part(b, n)
<1>. DEFINE d == [m \in 0..Capacity |-> IF m = i THEN b[j] ELSE b[m]]
<1>1. /\ Capacity \in Nat /\ i \in 0..Capacity /\ j \in 0..Capacity /\ n \in 0..Capacity + 1
      /\ i < n /\ j < n
      /\ \A m \in 0..Capacity : b[m] \in Int /\ c[m] \in Int
  BY HeapAssumption DEF Numbers
<1>2. d \in Numbers
  BY <1>1 DEF Numbers
<1>3. \A m \in 0..Capacity : d[m] = IF m = i THEN b[j] ELSE b[m]
  OBVIOUS
<1>. HIDE DEF d
<1>4. Part(d, n) = Part(b, n) + (b[j] - b[i])
  <2>1. d[i] = b[j] /\ \A m \in 0..Capacity : m # i => d[m] = b[m]
    BY <1>1, <1>3
  <2>. QED
    BY <1>1, <1>2, <2>1, PartSet
<1>5. Part(c, n) = Part(d, n) + (c[j] - d[j])
  <2>1. \A m \in 0..Capacity : m # j => c[m] = d[m]
    BY <1>3
  <2>. QED
    BY <1>1, <1>2, <2>1, PartSet
<1>6. c[j] - d[j] = b[i] - b[j]
  <2>1. CASE i = j
    BY <1>1, <1>3, <2>1
  <2>2. CASE i # j
    BY <1>1, <1>3, <2>2
  <2>. QED
    BY <2>1, <2>2
<1>7. Part(b, n) \in Int /\ b[i] \in Int /\ b[j] \in Int
  BY <1>1, PartIs
<1>. QED
  BY <1>4, <1>5, <1>6, <1>7

\* What an extraction takes from the sum of a heap, and what an insertion adds.
LEMMA PartExtracted ==
  ASSUME NEW b \in Numbers, NEW c \in Numbers, NEW n \in 1..Capacity,
         \A m \in 0..Capacity : c[m] = IF m = 0 THEN b[n - 1] ELSE b[m]
  PROVE  Part(c, n - 1) + b[0] = Part(b, n)
<1>1. /\ Capacity \in Nat /\ \A m \in 0..Capacity : b[m] \in Int /\ c[m] \in Int
      /\ 0 \in 0..Capacity /\ n \in 0..Capacity + 1 /\ n - 1 \in 0..Capacity
      /\ (n - 1) + 1 = n /\ n - 1 \in 0..Capacity + 1
  BY HeapAssumption DEF Numbers
<1>2. Part(c, n) = Part(b, n) + (c[0] - b[0])
  <2>1. \A m \in 0..Capacity : m # 0 => c[m] = b[m]
    OBVIOUS
  <2>. QED
    BY <1>1, <2>1, PartSet
<1>3. Part(c, n) = Part(c, n - 1) + c[n - 1]
  BY <1>1, PartIs
<1>4. c[0] = b[n - 1] /\ c[n - 1] = b[n - 1]
  BY <1>1
<1>5. Part(b, n) \in Int /\ Part(c, n - 1) \in Int /\ b[0] \in Int /\ b[n - 1] \in Int
  BY <1>1, PartIs
<1>. QED
  BY <1>2, <1>3, <1>4, <1>5

LEMMA PartInserted ==
  ASSUME NEW b \in Numbers, NEW c \in Numbers, NEW n \in 0..Capacity, NEW x \in Int,
         \A m \in 0..Capacity : c[m] = IF m = n THEN x ELSE b[m]
  PROVE  Part(c, n + 1) = Part(b, n) + x
<1>1. Capacity \in Nat /\ n \in 0..Capacity + 1 /\ c[n] = x
  BY HeapAssumption
<1>2. Part(c, n + 1) = Part(c, n) + x
  BY <1>1, PartIs
<1>3. Part(c, n) = Part(b, n)
  <2>1. Part(c, n) = Part(b, n) + (IF n < n THEN c[n] - b[n] ELSE 0)
    BY <1>1, PartSet
  <2>2. Part(b, n) \in Int
    BY <1>1, PartIs
  <2>. QED
    BY <2>1, <2>2
<1>. QED
  BY <1>2, <1>3

\* An element that moves changes places with another one of the heap, or stays.
LEMMA MoveSwaps ==
  ASSUME HeapTypeOK, OrderInv, MoveUp \/ MoveDown
  PROVE  \/ buf' = buf
         \/ \E i, j \in 0..count - 1 :
              \A n \in 0..Capacity :
                buf'[n] = IF n = i THEN buf[j] ELSE IF n = j THEN buf[i] ELSE buf[n]
<1>1. /\ buf \in Numbers /\ count \in 0..Capacity /\ at \in 0..Capacity /\ Capacity \in Nat
  BY HeapAssumption DEF HeapTypeOK
<1>2. ASSUME NEW i \in 0..count - 1, NEW j \in 0..count - 1, buf' = Swapped(i, j)
      PROVE  \E m, n \in 0..count - 1 :
               \A q \in 0..Capacity :
                 buf'[q] = IF q = m THEN buf[n] ELSE IF q = n THEN buf[m] ELSE buf[q]
  <2>1. i \in 0..Capacity /\ j \in 0..Capacity
    BY <1>1
  <2>. QED
    BY <1>2, <2>1, SwappedIs
<1>3. CASE MoveUp
  <2>1. moving = "up" /\ MovingUp
    BY <1>3 DEF OrderInv, MoveUp
  <2>2. at \in 0..count - 1 /\ at \div 2 \in 0..count - 1
    BY <1>1, <2>1, HalfIs DEF MovingUp
  <2>3. buf' = buf \/ buf' = Swapped(at, at \div 2)
    BY <1>3 DEF MoveUp
  <2>. QED
    BY <1>2, <2>2, <2>3
<1>4. CASE MoveDown
  <2>1. moving = "down" /\ MovingDown
    BY <1>4 DEF OrderInv, MoveDown
  <2>2. CASE ~ExtractProblem
    BY <1>4, <2>2 DEF MoveDown
  <2>3. CASE ExtractProblem
    <3>1. buf' = Swapped(at, GreaterChild)
      BY <1>4, <2>3 DEF MoveDown
    <3>. DEFINE g == GreaterChild
    <3>2. g \in 1..count - 1 /\ g \div 2 = at
      BY <2>1, <2>3, GreaterChildIs
    <3>. HIDE DEF g
    <3>3. g \in 0..count - 1 /\ at \in 0..count - 1
      BY <1>1, <3>2, HalfIs
    <3>. QED
      BY <1>2, <3>1, <3>3 DEF g
  <2>. QED
    BY <2>2, <2>3
<1>. QED
  BY <1>3, <1>4

LEMMA HeapInitInv == HeapInit => HeapInv
<1>. SUFFICES ASSUME HeapInit  PROVE HeapInv
  OBVIOUS
<1>1. Capacity \in Nat
  BY HeapAssumption
<1>2. HeapTypeOK
  BY <1>1 DEF HeapInit, HeapTypeOK, Numbers
<1>3. OrderInv
  BY DEF HeapInit, OrderInv, Ordered
<1>4. StageInv /\ CountInv /\ TotalInv
  BY DEF HeapInit, StageInv, CountInv, TotalInv
<1>. QED
  BY <1>2, <1>3, <1>4 DEF HeapInv

\* The sum is made.
LEMMA SumNewKeeps ==
  ASSUME HeapInv, NEW type \in {"DEFAULT", "PERF", "ACC", "WEIGHT"}, SumNew(type)
  PROVE  HeapInv'
<1>1. /\ kind = "none" /\ compute = "no" /\ moving = "no" /\ count = 0 /\ total = 0 /\ sum = 0
      /\ HeapTypeOK /\ Capacity \in Nat
  BY HeapAssumption DEF HeapInv, SumNew, StageInv
<1>2. /\ kind' \in {"perf", "acc", "weight"}
      /\ malloced' = IF kind' = "perf" THEN 1 ELSE 0
      /\ UNCHANGED <<buf, count, at, moving, max, compute, min1, weighted, sum, total>>
  BY DEF SumNew
<1>3. HeapTypeOK'
  BY <1>1, <1>2 DEF HeapTypeOK
<1>4. OrderInv'
  BY <1>1, <1>2 DEF OrderInv, Ordered
<1>5. StageInv' /\ CountInv'
  BY <1>1, <1>2 DEF StageInv, CountInv
<1>6. TotalInv'
  <2>1. Part(buf, 0) = 0
    BY <1>1, PartIs DEF HeapTypeOK
  <2>. QED
    BY <1>1, <1>2, <2>1 DEF TotalInv
<1>. QED
  BY <1>3, <1>4, <1>5, <1>6 DEF HeapInv

\* A number is added.
LEMMA SumAddKeeps ==
  ASSUME HeapInv, NEW x \in Number, SumAdd(x)
  PROVE  HeapInv'
<1>1. /\ kind # "none" /\ compute = "no" /\ moving = "no" /\ x \in Int
      /\ HeapTypeOK /\ OrderInv /\ StageInv /\ CountInv /\ TotalInv /\ Capacity \in Nat
      /\ UNCHANGED <<kind, max, compute, min1, weighted>> /\ total' = total + x
      /\ kind \in {"perf", "acc", "weight"}
  BY HeapAssumption DEF HeapInv, SumAdd, HeapTypeOK
<1>2. CASE kind = "perf"
  <2>1. sum' = sum + x /\ UNCHANGED <<buf, at, count, moving, malloced>>
    BY <1>2 DEF SumAdd
  <2>2. HeapTypeOK'
    BY <1>1, <2>1 DEF HeapTypeOK
  <2>3. OrderInv'
    BY <1>1, <2>1 DEF OrderInv, Ordered, Under, Cmp
  <2>4. StageInv' /\ CountInv' /\ TotalInv'
    BY <1>1, <1>2, <2>1 DEF StageInv, CountInv, TotalInv
  <2>. QED
    BY <2>2, <2>3, <2>4 DEF HeapInv
<1>3. CASE kind # "perf"
  <2>1. count < Capacity /\ HeapInsert(x) /\ malloced' = malloced + 1 /\ sum' = sum
    BY <1>3 DEF SumAdd
  <2>2. /\ OrderInv' /\ buf' \in Numbers /\ count' \in 0..Capacity /\ at' \in 0..Capacity
        /\ moving' = "up" /\ count' = count + 1
        /\ \A n \in 0..Capacity : buf'[n] = IF n = count THEN x ELSE buf[n]
    BY <1>1, <2>1, InsertKeeps
  <2>3. HeapTypeOK'
    BY <1>1, <2>1, <2>2 DEF HeapTypeOK
  <2>4. StageInv'
    BY <1>1, <1>3, <2>1, <2>2 DEF StageInv
  <2>5. CountInv'
    BY <1>1, <1>3, <2>1, <2>2 DEF CountInv
  <2>6. TotalInv'
    <3>. DEFINE c == buf'
    <3>1. /\ buf \in Numbers /\ c \in Numbers /\ count \in 0..Capacity
          /\ \A n \in 0..Capacity : c[n] = IF n = count THEN x ELSE buf[n]
      BY <1>1, <2>2 DEF HeapTypeOK
    <3>. HIDE DEF c
    <3>2. Part(c, count + 1) = Part(buf, count) + x
      BY <1>1, <3>1, PartInserted
    <3>3. Part(buf', count') = Part(buf, count) + x
      BY <2>2, <3>2 DEF c
    <3>. QED
      BY <1>1, <3>3 DEF TotalInv
  <2>. QED
    BY <2>2, <2>3, <2>4, <2>5, <2>6 DEF HeapInv
<1>. QED
  BY <1>2, <1>3

\* What is left and what was taken are what there was.
LEMMA ExtractTotal ==
  ASSUME HeapTypeOK, OrderInv, moving = "no", count >= 1, HeapExtract, kind' = kind
  PROVE  Part(buf', count') + max' = Part(buf, count)
<1>. DEFINE c == buf'
<1>1. /\ buf \in Numbers /\ c \in Numbers /\ count \in 1..Capacity
      /\ count' = count - 1 /\ max' = buf[0]
      /\ \A n \in 0..Capacity : c[n] = IF n = 0 THEN buf[count - 1] ELSE buf[n]
  BY ExtractKeeps, HeapAssumption DEF HeapTypeOK
<1>. HIDE DEF c
<1>2. Part(c, count - 1) + buf[0] = Part(buf, count)
  BY <1>1, PartExtracted
<1>. QED
  BY <1>1, <1>2 DEF c

\* The sum is computed.
LEMMA SumComputeKeeps ==
  ASSUME HeapInv, SumCompute
  PROVE  HeapInv'
<1>1. /\ kind # "none" /\ compute = "no" /\ moving = "no" /\ kind \in {"perf", "acc", "weight"}
      /\ HeapTypeOK /\ OrderInv /\ StageInv /\ CountInv /\ TotalInv /\ Capacity \in Nat
      /\ count \in 0..Capacity
      /\ UNCHANGED <<kind, min1, weighted, sum, total>>
      /\ malloced' = IF kind = "perf" THEN malloced - 1 ELSE malloced
  BY HeapAssumption DEF HeapInv, SumCompute, HeapTypeOK
<1>2. CASE kind = "perf" \/ count = 0
  <2>1. compute' = "done" /\ UNCHANGED <<buf, count, at, moving, max>>
    BY <1>1, <1>2 DEF SumCompute
  <2>2. HeapTypeOK'
    BY <1>1, <2>1 DEF HeapTypeOK
  <2>3. OrderInv'
    BY <1>1, <2>1 DEF OrderInv, Ordered, Under, Cmp
  <2>4. StageInv' /\ CountInv'
    BY <1>1, <1>2, <2>1 DEF StageInv, CountInv
  <2>5. TotalInv'
    <3>1. CASE kind = "perf"
      BY <1>1, <3>1 DEF TotalInv
    <3>2. CASE kind = "acc"
      <4>1. Part(buf, count) = 0
        BY <1>1, <1>2, <3>2, PartIs DEF HeapTypeOK
      <4>2. sum = 0
        BY <1>1, <3>2 DEF StageInv
      <4>. QED
        BY <1>1, <2>1, <3>2, <4>1, <4>2 DEF TotalInv
    <3>. QED
      BY <1>1, <3>1, <3>2 DEF TotalInv
  <2>. QED
    BY <2>2, <2>3, <2>4, <2>5 DEF HeapInv
<1>3. CASE kind # "perf" /\ count # 0
  <2>1. compute' = IF kind = "weight" THEN "max" ELSE IF count > 1 THEN "min1" ELSE "last"
    <3>1. CASE kind = "acc"
      BY <1>1, <1>3, <3>1 DEF SumCompute, AccTurn
    <3>2. CASE kind = "weight"
      BY <1>1, <1>3, <3>2 DEF SumCompute
    <3>. QED
      BY <1>1, <1>3, <3>1, <3>2
  <2>2. HeapExtract /\ count >= 1
    BY <1>1, <1>3, <2>1 DEF SumCompute
  <2>3. /\ OrderInv' /\ buf' \in Numbers /\ count' \in 0..Capacity /\ at' \in 0..Capacity
        /\ max' \in Int /\ moving' = "down" /\ count' = count - 1
    BY <1>1, <2>2, ExtractKeeps
  <2>4. Part(buf', count') + max' = Part(buf, count)
    BY <1>1, <2>2, ExtractTotal
  <2>5. HeapTypeOK'
    BY <1>1, <1>3, <2>1, <2>3 DEF HeapTypeOK
  <2>6. StageInv'
    BY <1>1, <1>3, <2>1, <2>3 DEF StageInv
  <2>7. CountInv'
    BY <1>1, <1>3, <2>1, <2>3 DEF CountInv
  <2>8. TotalInv'
    BY <1>1, <1>3, <2>1, <2>4 DEF TotalInv
  <2>. QED
    BY <2>3, <2>5, <2>6, <2>7, <2>8 DEF HeapInv
<1>. QED
  BY <1>2, <1>3

\* A pair is merged: the first is taken, the second is taken, their sum is put
\* back, and the next turn starts.
LEMMA AccMin1Keeps ==
  ASSUME HeapInv, AccMin1
  PROVE  HeapInv'
<1>1. /\ compute = "min1" /\ moving = "no" /\ kind = "acc" /\ count >= 1 /\ count + 1 <= Capacity
      /\ HeapTypeOK /\ OrderInv /\ StageInv /\ CountInv /\ TotalInv
      /\ count \in 0..Capacity /\ Capacity \in Nat
      /\ min1' = max /\ compute' = "min2" /\ HeapExtract
      /\ UNCHANGED <<kind, weighted, sum, malloced, total>>
  BY HeapAssumption DEF HeapInv, AccMin1, HeapTypeOK, StageInv
<1>2. /\ OrderInv' /\ buf' \in Numbers /\ count' \in 0..Capacity /\ at' \in 0..Capacity
      /\ max' \in Int /\ moving' = "down" /\ count' = count - 1
  BY <1>1, ExtractKeeps
<1>3. Part(buf', count') + max' = Part(buf, count)
  BY <1>1, ExtractTotal
<1>4. HeapTypeOK'
  BY <1>1, <1>2 DEF HeapTypeOK
<1>5. StageInv' /\ CountInv'
  BY <1>1, <1>2 DEF StageInv, CountInv
<1>6. TotalInv'
  <2>1. total = Part(buf, count) + max
    BY <1>1 DEF TotalInv
  <2>2. Part(buf', count') \in Int /\ max' \in Int /\ max \in Int
    BY <1>1, <1>2, PartIs DEF HeapTypeOK
  <2>3. total' = Part(buf', count') + min1' + max'
    BY <1>1, <1>3, <2>1, <2>2
  <2>. QED
    BY <1>1, <2>3 DEF TotalInv
<1>. QED
  BY <1>2, <1>4, <1>5, <1>6 DEF HeapInv

LEMMA AccMin2Keeps ==
  ASSUME HeapInv, AccMin2
  PROVE  HeapInv'
<1>. DEFINE x == min1 + max
            c == buf'
<1>1. /\ compute = "min2" /\ moving = "no" /\ kind = "acc" /\ count < Capacity
      /\ HeapTypeOK /\ OrderInv /\ StageInv /\ CountInv /\ TotalInv
      /\ count \in 0..Capacity /\ Capacity \in Nat /\ x \in Int /\ buf \in Numbers
      /\ compute' = "pair" /\ malloced' = malloced - 1 /\ HeapInsert(x)
      /\ UNCHANGED <<kind, max, min1, weighted, sum, total>>
  BY HeapAssumption DEF HeapInv, AccMin2, HeapTypeOK, StageInv
<1>. HIDE DEF x
<1>2. /\ OrderInv' /\ c \in Numbers /\ count' \in 0..Capacity /\ at' \in 0..Capacity
      /\ moving' = "up" /\ count' = count + 1
      /\ \A n \in 0..Capacity : c[n] = IF n = count THEN x ELSE buf[n]
  BY <1>1, InsertKeeps
<1>. HIDE DEF c
<1>3. Part(c, count + 1) = Part(buf, count) + x
  BY <1>1, <1>2, PartInserted
<1>4. HeapTypeOK'
  BY <1>1, <1>2 DEF HeapTypeOK, c
<1>5. StageInv' /\ CountInv'
  BY <1>1, <1>2 DEF StageInv, CountInv, HeapTypeOK
<1>6. TotalInv'
  <2>1. total = Part(buf, count) + min1 + max
    BY <1>1 DEF TotalInv
  <2>2. Part(buf, count) \in Int /\ max \in Int /\ min1 \in Int
    BY <1>1, PartIs DEF HeapTypeOK
  <2>3. total' = Part(buf', count')
    BY <1>1, <1>2, <1>3, <2>1, <2>2 DEF x, c
  <2>. QED
    BY <1>1, <2>3 DEF TotalInv
<1>. QED
  BY <1>2, <1>4, <1>5, <1>6 DEF HeapInv

LEMMA AccNextKeeps ==
  ASSUME HeapInv, AccNext
  PROVE  HeapInv'
<1>1. /\ compute = "pair" /\ moving = "no" /\ kind = "acc" /\ count >= 1
      /\ HeapTypeOK /\ OrderInv /\ StageInv /\ CountInv /\ TotalInv
      /\ count \in 0..Capacity /\ Capacity \in Nat
      /\ compute' = (IF count > 1 THEN "min1" ELSE "last") /\ HeapExtract
      /\ UNCHANGED <<kind, min1, weighted, sum, malloced, total>>
  BY HeapAssumption DEF HeapInv, AccNext, AccTurn, HeapTypeOK, StageInv
<1>2. /\ OrderInv' /\ buf' \in Numbers /\ count' \in 0..Capacity /\ at' \in 0..Capacity
      /\ max' \in Int /\ moving' = "down" /\ count' = count - 1
  BY <1>1, ExtractKeeps
<1>3. Part(buf', count') + max' = Part(buf, count)
  BY <1>1, ExtractTotal
<1>4. HeapTypeOK'
  BY <1>1, <1>2 DEF HeapTypeOK
<1>5. StageInv' /\ CountInv'
  BY <1>1, <1>2 DEF StageInv, CountInv
<1>6. TotalInv'
  BY <1>1, <1>3 DEF TotalInv
<1>. QED
  BY <1>2, <1>4, <1>5, <1>6 DEF HeapInv

\* The number that is left is the sum.
LEMMA AccLastKeeps ==
  ASSUME HeapInv, AccLast
  PROVE  HeapInv'
<1>1. /\ compute = "last" /\ moving = "no" /\ kind = "acc" /\ count = 0
      /\ HeapTypeOK /\ OrderInv /\ StageInv /\ CountInv /\ TotalInv
      /\ compute' = "done" /\ sum' = max /\ malloced' = malloced - 1
      /\ UNCHANGED <<kind, buf, count, at, moving, max, min1, weighted, total>>
  BY DEF HeapInv, AccLast, StageInv
<1>2. HeapTypeOK'
  BY <1>1 DEF HeapTypeOK
<1>3. OrderInv'
  BY <1>1 DEF OrderInv, Ordered
<1>4. StageInv' /\ CountInv'
  BY <1>1 DEF StageInv, CountInv
<1>5. TotalInv'
  <2>1. total = Part(buf, count) + max /\ Part(buf, count) = 0 /\ max \in Int
    BY <1>1, PartIs DEF TotalInv, HeapTypeOK
  <2>. QED
    BY <1>1, <2>1 DEF TotalInv
<1>. QED
  BY <1>2, <1>3, <1>4, <1>5 DEF HeapInv

\* One more number is weighted.
LEMMA WeightMaxKeeps ==
  ASSUME HeapInv, WeightMax
  PROVE  HeapInv'
<1>1. /\ compute = "max" /\ moving = "no" /\ kind = "weight"
      /\ HeapTypeOK /\ OrderInv /\ StageInv /\ CountInv /\ TotalInv
      /\ count \in 0..Capacity /\ Capacity \in Nat
      /\ malloced' = malloced - 1
      /\ UNCHANGED <<kind, min1, total>>
  BY HeapAssumption DEF HeapInv, WeightMax, StageInv, HeapTypeOK
<1>2. sum' \in Int /\ weighted' \in Nat
  <2>1. sum \in Int /\ weighted \in Nat /\ max \in Int /\ MaxWeighted \in Nat
    BY <1>1, HeapAssumption DEF HeapTypeOK
  <2>. DEFINE w == Weight(max, weighted)
  <2>2. w \in Int
    BY <2>1 DEF Weight
  <2>. HIDE DEF w
  <2>3. \/ sum' = sum + w /\ weighted' = weighted + 1
        \/ sum' = sum /\ weighted' = weighted
    BY DEF WeightMax, w
  <2>. QED
    BY <2>1, <2>2, <2>3
<1>3. CASE count = 0
  <2>1. compute' = "done" /\ UNCHANGED <<buf, count, at, moving, max>>
    BY <1>3 DEF WeightMax
  <2>2. HeapTypeOK'
    BY <1>1, <1>2, <2>1 DEF HeapTypeOK
  <2>3. OrderInv'
    BY <1>1, <1>3, <2>1 DEF OrderInv, Ordered
  <2>4. StageInv' /\ CountInv' /\ TotalInv'
    BY <1>1, <1>3, <2>1 DEF StageInv, CountInv, TotalInv
  <2>. QED
    BY <2>2, <2>3, <2>4 DEF HeapInv
<1>4. CASE count # 0
  <2>1. compute' = compute /\ HeapExtract /\ count >= 1
    BY <1>1, <1>4 DEF WeightMax
  <2>2. /\ OrderInv' /\ buf' \in Numbers /\ count' \in 0..Capacity /\ at' \in 0..Capacity
        /\ max' \in Int /\ moving' = "down" /\ count' = count - 1
    BY <1>1, <2>1, ExtractKeeps
  <2>3. HeapTypeOK'
    BY <1>1, <1>2, <2>1, <2>2 DEF HeapTypeOK
  <2>4. StageInv' /\ CountInv' /\ TotalInv'
    BY <1>1, <2>1, <2>2 DEF StageInv, CountInv, TotalInv
  <2>. QED
    BY <2>2, <2>3, <2>4 DEF HeapInv
<1>. QED
  BY <1>3, <1>4

\* An element moves.
LEMMA MoveKeeps ==
  ASSUME HeapInv, MoveUp \/ MoveDown
  PROVE  HeapInv'
<1>1. /\ HeapTypeOK /\ OrderInv /\ StageInv /\ CountInv /\ TotalInv
      /\ moving # "no" /\ moving' \in {"no", moving}
      /\ UNCHANGED <<kind, count, max, compute, min1, weighted, sum, malloced, total>>
  BY DEF HeapInv, MoveUp, MoveDown
<1>2. HeapTypeOK' /\ OrderInv'
  BY <1>1, MoveUpKeeps, MoveDownKeeps
<1>3. StageInv' /\ CountInv'
  BY <1>1 DEF StageInv, CountInv
<1>4. TotalInv'
  <2>. DEFINE c == buf'
  <2>0. c \in Numbers /\ buf \in Numbers /\ count \in 0..Capacity
    BY <1>1, <1>2 DEF HeapTypeOK
  <2>0a. \/ c = buf
         \/ \E i, j \in 0..count - 1 :
              \A n \in 0..Capacity : c[n] = IF n = i THEN buf[j] ELSE IF n = j THEN buf[i] ELSE buf[n]
    BY <1>1, MoveSwaps
  <2>. HIDE DEF c
  <2>0b. Part(c, count) = Part(buf, count)
    <3>1. ASSUME NEW i \in 0..count - 1, NEW j \in 0..count - 1,
                 \A n \in 0..Capacity : c[n] = IF n = i THEN buf[j] ELSE IF n = j THEN buf[i] ELSE buf[n]
          PROVE  Part(c, count) = Part(buf, count)
      BY <2>0, <3>1, PartSwapped
    <3>. QED
      BY <2>0a, <3>1
  <2>1. Part(buf', count) = Part(buf, count)
    BY <2>0b DEF c
  <2>. QED
    BY <1>1, <2>1 DEF TotalInv
<1>. QED
  BY <1>2, <1>3, <1>4 DEF HeapInv

LEMMA HeapInvariant == HeapSpec => []HeapInv
<1>1. HeapInit => HeapInv
  BY HeapInitInv
<1>2. HeapInv /\ [HeapNext]_heapVars => HeapInv'
  <2>. SUFFICES ASSUME HeapInv, [HeapNext]_heapVars  PROVE HeapInv'
    OBVIOUS
  <2>1. ASSUME NEW type \in {"DEFAULT", "PERF", "ACC", "WEIGHT"}, SumNew(type)  PROVE HeapInv'
    BY <2>1, SumNewKeeps
  <2>2. ASSUME NEW x \in Number, SumAdd(x)  PROVE HeapInv'
    BY <2>2, SumAddKeeps
  <2>3. CASE SumCompute
    BY <2>3, SumComputeKeeps
  <2>4. CASE AccMin1
    BY <2>4, AccMin1Keeps
  <2>5. CASE AccMin2
    BY <2>5, AccMin2Keeps
  <2>6. CASE AccNext
    BY <2>6, AccNextKeeps
  <2>7. CASE AccLast
    BY <2>7, AccLastKeeps
  <2>8. CASE WeightMax
    BY <2>8, WeightMaxKeeps
  <2>9. CASE MoveUp \/ MoveDown
    BY <2>9, MoveKeeps
  <2>10. CASE UNCHANGED heapVars
    BY <2>10 DEF heapVars, HeapInv, HeapTypeOK, OrderInv, Ordered, MovingUp, MovingDown, Under, Cmp,
                 StageInv, CountInv, TotalInv
  <2>. QED
    BY <2>1, <2>2, <2>3, <2>4, <2>5, <2>6, <2>7, <2>8, <2>9, <2>10 DEF HeapNext
<1>. QED
  BY <1>1, <1>2, PTL DEF HeapSpec


-----------------------------------------------------------------------------
(***************************************************************************)
(* Weighted sums.                                                          *)
(***************************************************************************)
LEMMA IsNumbers == \A b, x : Is(b, x) \in Numbers /\ \A i \in 0..Capacity : Is(b, x)[i] = IF b[i] = x THEN 1 ELSE 0
  BY HeapAssumption DEF Is, Numbers

\* How often a number is in the heap, as the heap changes.
LEMMA TimesIs ==
  ASSUME NEW b, NEW x
  PROVE  Times(b, x, 0) = 0 /\ \A n \in 0..Capacity : Times(b, x, n) \in Int
<1>1. Capacity \in Nat
  BY HeapAssumption
<1>2. \A n \in 0..Capacity : n \in 0..Capacity + 1
  BY <1>1
<1>. QED
  BY <1>2, IsNumbers, PartIs DEF Times

LEMMA TimesSwapped ==
  ASSUME NEW b, NEW c, NEW x, NEW n \in 0..Capacity, NEW i \in 0..n - 1, NEW j \in 0..n - 1,
         \A m \in 0..Capacity : c[m] = IF m = i THEN b[j] ELSE IF m = j THEN b[i] ELSE b[m]
  PROVE  Times(c, x, n) = Times(b, x, n)
<1>. DEFINE p == Is(b, x)
            q == Is(c, x)
<1>1. p \in Numbers /\ q \in Numbers
  BY IsNumbers
<1>2. i \in 0..Capacity /\ j \in 0..Capacity
  BY HeapAssumption
<1>3. \A m \in 0..Capacity : q[m] = IF m = i THEN p[j] ELSE IF m = j THEN p[i] ELSE p[m]
  <2>1. \A m \in 0..Capacity : /\ p[m] = IF b[m] = x THEN 1 ELSE 0
                               /\ q[m] = IF c[m] = x THEN 1 ELSE 0
    BY IsNumbers
  <2>. HIDE DEF p, q
  <2>. QED
    BY <1>2, <2>1
<1>. HIDE DEF p, q
<1>4. Part(q, n) = Part(p, n)
  BY <1>1, <1>3, PartSwapped
<1>. QED
  BY <1>4 DEF Times, p, q

LEMMA TimesExtracted ==
  ASSUME NEW b, NEW c, NEW x, NEW n \in 1..Capacity,
         \A m \in 0..Capacity : c[m] = IF m = 0 THEN b[n - 1] ELSE b[m]
  PROVE  Times(c, x, n - 1) + (IF b[0] = x THEN 1 ELSE 0) = Times(b, x, n)
<1>. DEFINE p == Is(b, x)
            q == Is(c, x)
<1>1. p \in Numbers /\ q \in Numbers
  BY IsNumbers
<1>2. n - 1 \in 0..Capacity /\ 0 \in 0..Capacity
  BY HeapAssumption
<1>3. /\ p[0] = IF b[0] = x THEN 1 ELSE 0
      /\ \A m \in 0..Capacity : q[m] = IF m = 0 THEN p[n - 1] ELSE p[m]
  <2>1. \A m \in 0..Capacity : /\ p[m] = IF b[m] = x THEN 1 ELSE 0
                               /\ q[m] = IF c[m] = x THEN 1 ELSE 0
    BY IsNumbers
  <2>. HIDE DEF p, q
  <2>. QED
    BY <1>2, <2>1
<1>. HIDE DEF p, q
<1>4. Part(q, n - 1) + p[0] = Part(p, n)
  BY <1>1, <1>3, PartExtracted
<1>. QED
  BY <1>3, <1>4 DEF Times, p, q

LEMMA TimesInserted ==
  ASSUME NEW b, NEW c, NEW x, NEW n \in 0..Capacity,
         \A m \in 0..Capacity : m # n => c[m] = b[m]
  PROVE  Times(c, x, n + 1) = Times(b, x, n) + (IF c[n] = x THEN 1 ELSE 0)
<1>. DEFINE p == Is(b, x)
            q == Is(c, x)
            z == IF c[n] = x THEN 1 ELSE 0
<1>1. p \in Numbers /\ q \in Numbers /\ z \in Int
  BY IsNumbers
<1>3. \A m \in 0..Capacity : q[m] = IF m = n THEN z ELSE p[m]
  <2>1. \A m \in 0..Capacity : /\ p[m] = IF b[m] = x THEN 1 ELSE 0
                               /\ q[m] = IF c[m] = x THEN 1 ELSE 0
    BY IsNumbers
  <2>. HIDE DEF p, q
  <2>. QED
    BY <2>1
<1>. HIDE DEF p, q, z
<1>4. Part(q, n + 1) = Part(p, n) + z
  BY <1>1, <1>3, PartInserted
<1>. QED
  BY <1>4 DEF Times, p, q, z

LEMMA NumberSequence == \A s \in Seq(Number) : s \in Seq(Int)
<1>. SUFFICES ASSUME NEW s \in Seq(Number)  PROVE s \in Seq(Int)
  OBVIOUS
<1>1. /\ Len(s) \in Nat /\ s = [i \in 1..Len(s) |-> s[i]]
      /\ \A i \in 1..Len(s) : s[i] \in Number
  OBVIOUS
<1>2. \A i \in 1..Len(s) : s[i] \in Int
  BY <1>1, HeapAssumption
<1>. QED
  BY <1>1, <1>2

LEMMA OftenNat == \A s \in Seq(Int) : \A x : Often(s, x) \in Nat
<1>. SUFFICES ASSUME NEW s \in Seq(Int), NEW x  PROVE Often(s, x) \in Nat
  OBVIOUS
<1>. DEFINE S == {i \in 1..Len(s) : s[i] = x}
<1>1. Len(s) \in Nat /\ IsFiniteSet(1..Len(s)) /\ S \subseteq 1..Len(s)
  BY FS_Interval
<1>. HIDE DEF S
<1>2. Cardinality(S) \in Nat
  BY <1>1, FS_Subset, FS_CardinalityType
<1>. QED
  BY <1>2 DEF Often, S

LEMMA OftenIs ==
  ASSUME NEW s \in Seq(Int), NEW y \in Int, NEW x
  PROVE  /\ Often(s, x) \in Nat
         /\ Often(Append(s, y), x) = Often(s, x) + (IF y = x THEN 1 ELSE 0)
<1>. DEFINE t == Append(s, y)
            S == {i \in 1..Len(s) : s[i] = x}
            T == {i \in 1..Len(t) : t[i] = x}
<1>1. /\ Len(s) \in Nat /\ Len(t) = Len(s) + 1 /\ t[Len(s) + 1] = y
      /\ \A i \in 1..Len(s) : t[i] = s[i]
  OBVIOUS
<1>2. IsFiniteSet(S) /\ Cardinality(S) \in Nat
  <2>. HIDE DEF t
  <2>1. IsFiniteSet(1..Len(s)) /\ S \subseteq 1..Len(s)
    BY <1>1, FS_Interval
  <2>. QED
    BY <2>1, FS_Subset, FS_CardinalityType
<1>. HIDE DEF t
<1>3. T = IF y = x THEN S \cup {Len(s) + 1} ELSE S
  BY <1>1
<1>4. Len(s) + 1 \notin S
  BY <1>1
<1>. HIDE DEF S, T
<1>5. Cardinality(T) = Cardinality(S) + (IF y = x THEN 1 ELSE 0)
  <2>1. CASE y = x
    <3>1. T = S \cup {Len(s) + 1}
      BY <1>3, <2>1
    <3>2. Cardinality(S \cup {Len(s) + 1}) = Cardinality(S) + 1
      BY <1>2, <1>4, FS_AddElement
    <3>. QED
      BY <2>1, <3>1, <3>2
  <2>2. CASE y # x
    BY <1>2, <1>3, <2>2
  <2>. QED
    BY <2>1, <2>2
<1>. QED
  BY <1>2, <1>5 DEF Often, S, T, t

\* The weight of a sequence grows with each number.
LEMMA WeighedIs ==
  ASSUME NEW s \in Seq(Int)
  PROVE  /\ Weighed(s, 0) = 0
         /\ \A n \in 0..Len(s) : Weighed(s, n) \in Int
         /\ \A n \in 1..Len(s) :
              Weighed(s, n) = Weighed(s, n - 1) + (IF n <= MaxWeighted THEN Weight(s[n], n - 1) ELSE 0)
<1>. DEFINE N == Len(s)
           w(n) == IF n <= MaxWeighted THEN Weight(s[n], n - 1) ELSE 0
           h == [p \in (1..N) \X Int |-> p[2] + w(p[1])]
           Good(g) == g = [m \in 0..N |-> IF m = 0 THEN 0 ELSE g[m - 1] + w(m)]
           part == CHOOSE g : Good(g)
<1>1. N \in Nat /\ \A n \in 1..N : w(n) \in Int
  <2>1. ASSUME NEW n \in 1..N  PROVE w(n) \in Int
    <3>1. s[n] \in Int /\ MaxWeighted \in Int /\ n - 1 \in Int
      BY HeapAssumption
    <3>. DEFINE q == MaxWeighted - (n - 1)
    <3>2. q \in Int
      BY <3>1
    <3>3. s[n] * q \in Int
      BY <3>1, <3>2
    <3>. QED
      BY <3>3 DEF Weight
  <2>. QED
    BY <2>1
<1>. HIDE DEF w, N
<1>2. ASSUME NEW m \in 1..N, NEW v \in Int
      PROVE  h[<<m, v>>] = v + w(m) /\ h[<<m, v>>] \in Int
  <2>1. w(m) \in Int
    BY <1>1
  <2>2. h[<<m, v>>] = v + w(m)
    OBVIOUS
  <2>. QED
    BY <2>1, <2>2
<1>. HIDE DEF h
<1>3. Steps(N, Int, 0, h)
  BY <1>1, <1>2 DEF Steps
<1>4. PICK g \in [0..N -> Int] : g = [m \in 0..N |-> IF m = 0 THEN 0 ELSE h[<<m, g[m - 1]>>]]
  BY <1>3, StepFunction
<1>5. Good(g)
  <2>1. \A m \in 0..N : m # 0 => h[<<m, g[m - 1]>>] = g[m - 1] + w(m)
    <3>. SUFFICES ASSUME NEW m \in 0..N, m # 0  PROVE h[<<m, g[m - 1]>>] = g[m - 1] + w(m)
      OBVIOUS
    <3>1. m \in 1..N /\ m - 1 \in 0..N
      BY <1>1
    <3>2. g[m - 1] \in Int
      BY <3>1
    <3>. QED
      BY <1>2, <3>1, <3>2
  <2>. QED
    BY <1>4, <2>1
<1>. HIDE DEF Good
<1>6. Good(part)
  BY <1>5
<1>7. part = [m \in 0..N |-> IF m = 0 THEN 0 ELSE part[m - 1] + w(m)]
  <2>. HIDE DEF part
  <2>. QED
    BY <1>6 DEF Good
<1>8. \A n : Weighed(s, n) = part[n]
  BY DEF Weighed, Good, w, N
<1>. HIDE DEF part
<1>9. part[0] = 0 /\ \A n \in 1..N : part[n] = part[n - 1] + w(n)
  BY <1>1, <1>7
<1>10. \A n \in 0..N : part[n] \in Int
  <2>. DEFINE S == {n \in Nat : n <= N => part[n] \in Int}
  <2>1. 0 \in S
    BY <1>9
  <2>2. ASSUME NEW n \in Nat, n \in S  PROVE n + 1 \in S
    <3>. SUFFICES ASSUME n + 1 <= N  PROVE part[n + 1] \in Int
      OBVIOUS
    <3>1. n + 1 \in 1..N /\ n <= N /\ (n + 1) - 1 = n
      BY <1>1
    <3>2. part[n] \in Int /\ w(n + 1) \in Int /\ part[n + 1] = part[n] + w(n + 1)
      BY <1>1, <1>9, <2>2, <3>1
    <3>. QED
      BY <3>2
  <2>3. \A n \in Nat : n \in S
    <3>. HIDE DEF S
    <3>. QED
      BY <2>1, <2>2, NatSetInduction
  <2>. QED
    BY <1>1, <2>3
<1>. QED
  BY <1>8, <1>9, <1>10 DEF w, N

LEMMA WeighedAppended ==
  ASSUME NEW s \in Seq(Int), NEW y \in Int
  PROVE  Weighed(Append(s, y), Len(s) + 1) =
           Weighed(s, Len(s)) + (IF Len(s) < MaxWeighted THEN Weight(y, Len(s)) ELSE 0)
<1>. DEFINE t == Append(s, y)
            N == Len(s)
            S == {n \in Nat : n <= N => Weighed(t, n) = Weighed(s, n)}
<1>1. /\ N \in Nat /\ t \in Seq(Int) /\ Len(t) = N + 1 /\ t[N + 1] = y
      /\ \A i \in 1..N : t[i] = s[i]
  OBVIOUS
<1>2. /\ Weighed(s, 0) = 0 /\ Weighed(t, 0) = 0
      /\ \A n \in 1..N :
           Weighed(s, n) = Weighed(s, n - 1) + (IF n <= MaxWeighted THEN Weight(s[n], n - 1) ELSE 0)
      /\ \A n \in 1..Len(t) :
           Weighed(t, n) = Weighed(t, n - 1) + (IF n <= MaxWeighted THEN Weight(t[n], n - 1) ELSE 0)
  <2>. HIDE DEF t
  <2>. QED
    BY <1>1, WeighedIs DEF N
<1>. HIDE DEF t, N
<1>3. 0 \in S
  BY <1>2
<1>4. ASSUME NEW n \in Nat, n \in S  PROVE n + 1 \in S
  <2>. SUFFICES ASSUME n + 1 <= N  PROVE Weighed(t, n + 1) = Weighed(s, n + 1)
    OBVIOUS
  <2>1. n + 1 \in 1..N /\ n + 1 \in 1..Len(t) /\ (n + 1) - 1 = n /\ n <= N
    BY <1>1
  <2>. QED
    BY <1>1, <1>2, <1>4, <2>1
<1>5. \A n \in Nat : n \in S
  <2>. HIDE DEF S
  <2>. QED
    BY <1>3, <1>4, NatSetInduction
<1>6. N + 1 \in 1..Len(t) /\ (N + 1) - 1 = N /\ Weighed(t, N) = Weighed(s, N)
  BY <1>1, <1>5
<1>7. N + 1 <= MaxWeighted <=> N < MaxWeighted
  BY <1>1, HeapAssumption
<1>8. Weighed(t, N + 1) = Weighed(s, N) + (IF N < MaxWeighted THEN Weight(y, N) ELSE 0)
  BY <1>1, <1>2, <1>6, <1>7
<1>. QED
  BY <1>8 DEF t, N

LEMMA WeightInitInv == HeapInit => NumbersInv /\ WeightInv
  BY HeapAssumption DEF HeapInit, NumbersInv, WeightInv

LEMMA SumNewWeighs ==
  ASSUME HeapInv, NumbersInv, WeightInv,
         NEW type \in {"DEFAULT", "PERF", "ACC", "WEIGHT"}, SumNew(type)
  PROVE  NumbersInv' /\ WeightInv'
<1>1. /\ kind = "none" /\ compute = "no" /\ count = 0 /\ sum = 0
      /\ taken = << >> /\ weighted = 0 /\ added = [x \in Number |-> 0]
  BY DEF HeapInv, StageInv, SumNew, NumbersInv
<1>2. /\ kind' # "none"
      /\ UNCHANGED <<buf, count, at, moving, max, compute, min1, weighted, sum, added, total, taken>>
  BY DEF SumNew
<1>3. NumbersInv'
  BY <1>1, <1>2 DEF NumbersInv
<1>4. Len(taken) = 0 /\ Weighed(taken, 0) = 0 /\ MaxWeighted \in Nat
  <2>1. taken \in Seq(Int) /\ Len(taken) = 0
    BY <1>1
  <2>2. Weighed(taken, 0) = 0
    BY <2>1, WeighedIs
  <2>. QED
    BY <2>1, <2>2, HeapAssumption
<1>5. \A x : Often(taken, x) = 0
  <2>. SUFFICES ASSUME NEW x  PROVE Often(taken, x) = 0
    OBVIOUS
  <2>1. {i \in 1..Len(taken) : taken[i] = x} = {}
    BY <1>4
  <2>. QED
    BY <2>1, FS_EmptySet DEF Often
<1>6. \A x : Times(buf, x, 0) = 0
  BY TimesIs
<1>7. \A x \in Number : added[x] = 0
  BY <1>1
<1>. QED
  BY <1>1, <1>2, <1>3, <1>4, <1>5, <1>6, <1>7 DEF WeightInv

LEMMA SumAddWeighs ==
  ASSUME HeapInv, NumbersInv, WeightInv, NEW x \in Number, SumAdd(x)
  PROVE  NumbersInv' /\ WeightInv'
<1>1. /\ kind # "none" /\ compute = "no" /\ moving = "no" /\ x \in Int
      /\ HeapTypeOK /\ OrderInv /\ Capacity \in Nat /\ count \in 0..Capacity
      /\ UNCHANGED <<kind, max, compute, min1, weighted, taken>>
      /\ added' = [added EXCEPT ![x] = @ + 1] /\ added \in [Number -> Nat]
      /\ kind # "perf" => sum' = sum /\ HeapInsert(x) /\ count < Capacity
  BY HeapAssumption DEF HeapInv, SumAdd, HeapTypeOK, NumbersInv
<1>2. NumbersInv'
  BY <1>1 DEF NumbersInv
<1>3. CASE kind = "weight"
  <2>1. /\ count' = count + 1
        /\ \A n \in 0..Capacity : buf'[n] = IF n = count THEN x ELSE buf[n]
    BY <1>1, <1>3, InsertKeeps
  <2>2. \A i \in 0..count' - 1 : buf'[i] \in Number
    BY <1>1, <1>3, <2>1 DEF WeightInv
  <2>3. ASSUME NEW y \in Number  PROVE added'[y] = Times(buf', y, count') + Often(taken, y)
    <3>. DEFINE c == buf'
    <3>1. \A n \in 0..Capacity : c[n] = IF n = count THEN x ELSE buf[n]
      BY <2>1
    <3>. HIDE DEF c
    <3>2. Times(c, y, count + 1) = Times(buf, y, count) + (IF x = y THEN 1 ELSE 0)
      <4>. DEFINE b == buf
                  n == count
      <4>1. n \in 0..Capacity
        BY <1>1
      <4>2. c[n] = x /\ \A m \in 0..Capacity : m # n => c[m] = b[m]
        BY <3>1, <4>1
      <4>. HIDE DEF b, n
      <4>3. Times(c, y, n + 1) = Times(b, y, n) + (IF c[n] = y THEN 1 ELSE 0)
        BY <4>1, <4>2, TimesInserted
      <4>. QED
        BY <4>2, <4>3 DEF b, n
    <3>3. added'[y] = added[y] + (IF x = y THEN 1 ELSE 0)
      BY <1>1
    <3>4. added[y] = Times(buf, y, count) + Often(taken, y) + 0
      BY <1>1, <1>3 DEF WeightInv
    <3>5. Times(buf, y, count) \in Int /\ Often(taken, y) \in Int
      <4>1. Times(buf, y, count) \in Int
        BY <1>1, TimesIs
      <4>2. Often(taken, y) \in Nat
        BY NumberSequence, OftenNat DEF NumbersInv
      <4>. QED
        BY <4>1, <4>2
    <3>6. added'[y] = Times(c, y, count + 1) + Often(taken, y)
      BY <3>2, <3>3, <3>4, <3>5
    <3>. QED
      BY <2>1, <3>6 DEF c
  <2>4. sum' = sum
    BY <1>1, <1>3
  <2>5. \A y \in Number : (added'[y] = Times(buf', y, count') + Often(taken, y) + 0)
    <3>1. ASSUME NEW y \in Number  PROVE added'[y] \in Int
      BY <1>1
    <3>. QED
      BY <2>3, <3>1
  <2>. QED
    BY <1>1, <1>2, <1>3, <2>2, <2>4, <2>5 DEF WeightInv
<1>. QED
  BY <1>1, <1>2, <1>3 DEF WeightInv

\* One more is taken from the heap: it is one of the numbers that are left, not
\* smaller than the others and not larger than those taken before.
LEMMA TakeOne ==
  ASSUME HeapInv, kind = "weight", moving = "no", count >= 1, HeapExtract, kind' = kind,
         \A i \in 0..count - 1 : buf[i] \in Number
  PROVE  /\ max' \in Number /\ max' = buf[0] /\ count' = count - 1
         /\ \A i \in 0..count' - 1 : buf'[i] \in Number /\ buf'[i] <= max'
         /\ \A x \in Number :
              Times(buf', x, count') + (IF max' = x THEN 1 ELSE 0) = Times(buf, x, count)
<1>. DEFINE c == buf'
<1>1. /\ HeapTypeOK /\ OrderInv /\ Capacity \in Nat /\ count \in 1..Capacity
      /\ \A i \in 0..Capacity : buf[i] \in Int
  BY HeapAssumption DEF HeapInv, HeapTypeOK, Numbers
<1>2. /\ OrderInv' /\ c \in Numbers /\ moving' = "down" /\ count' = count - 1 /\ max' = buf[0]
      /\ \A n \in 0..Capacity : c[n] = IF n = 0 THEN buf[count - 1] ELSE buf[n]
  BY <1>1, ExtractKeeps
<1>4. \A i \in 0..count - 2 : ~(c[i] > buf[0])
  <2>1. MovingDown'
    BY <1>2 DEF OrderInv
  <2>2. \A i \in 0..count' - 1 : ~(c[i] > max')
    BY <2>1 DEF MovingDown, Cmp
  <2>3. count' - 1 = count - 2 /\ max' = buf[0]
    BY <1>1, <1>2
  <2>. HIDE DEF c
  <2>. QED
    BY <2>2, <2>3
<1>. HIDE DEF c
<1>5. ASSUME NEW i \in 0..count - 2  PROVE c[i] \in Number /\ c[i] <= buf[0]
  <2>1. c[i] \in Number /\ c[i] \in Int /\ buf[0] \in Int
    BY <1>1, <1>2, HeapAssumption
  <2>. QED
    BY <1>4, <2>1
<1>6. ASSUME NEW x \in Number
      PROVE  Times(c, x, count - 1) + (IF buf[0] = x THEN 1 ELSE 0) = Times(buf, x, count)
  BY <1>1, <1>2, TimesExtracted
<1>7. count' - 1 = count - 2
  BY <1>1, <1>2
<1>8. buf[0] \in Number
  BY <1>1
<1>. QED
  BY <1>2, <1>5, <1>6, <1>7, <1>8 DEF c

LEMMA SumComputeWeighs ==
  ASSUME HeapInv, NumbersInv, WeightInv, SumCompute
  PROVE  NumbersInv' /\ WeightInv'
<1>1. /\ compute = "no" /\ moving = "no" /\ kind # "none" /\ taken = << >> /\ weighted = 0
      /\ count \in 0..Capacity /\ Capacity \in Nat
      /\ UNCHANGED <<kind, min1, weighted, sum, added, total, taken>>
  BY HeapAssumption DEF HeapInv, SumCompute, HeapTypeOK, NumbersInv
<1>2. compute' # "no"
  BY DEF SumCompute, AccTurn, HeapInv, HeapTypeOK
<1>3. NumbersInv'
  BY <1>1, <1>2 DEF NumbersInv
<1>4. CASE kind = "weight" /\ count = 0
  <2>1. compute' = "done" /\ UNCHANGED <<buf, count, at, moving, max>>
    BY <1>4 DEF SumCompute
  <2>. QED
    BY <1>1, <1>3, <1>4, <2>1 DEF WeightInv
<1>5. CASE kind = "weight" /\ count # 0
  <2>1. compute' = "max" /\ HeapExtract /\ count >= 1
    BY <1>1, <1>5 DEF SumCompute
  <2>2. /\ max' \in Number /\ max' = buf[0] /\ count' = count - 1
        /\ \A i \in 0..count' - 1 : buf'[i] \in Number /\ buf'[i] <= max'
        /\ \A x \in Number :
             Times(buf', x, count') + (IF max' = x THEN 1 ELSE 0) = Times(buf, x, count)
    <3>1. \A i \in 0..count - 1 : buf[i] \in Number
      BY <1>5 DEF WeightInv
    <3>. QED
      BY <1>1, <1>5, <2>1, <3>1, TakeOne
  <2>3. ASSUME NEW x \in Number
        PROVE  added[x] = Times(buf', x, count') + Often(taken, x) + (IF max' = x THEN 1 ELSE 0)
    <3>1. added[x] = Times(buf, x, count) + Often(taken, x) + 0
      BY <1>1, <1>5 DEF WeightInv
    <3>2. Times(buf', x, count') \in Int /\ Often(taken, x) \in Int
      <4>. DEFINE c == buf'
                  n == count'
      <4>1. n \in 0..Capacity
        BY <1>1, <1>5, <2>2
      <4>. HIDE DEF c, n
      <4>2. Times(c, x, n) \in Int
        BY <4>1, TimesIs
      <4>3. Often(taken, x) \in Nat
        BY NumberSequence, OftenNat DEF NumbersInv
      <4>. QED
        BY <4>2, <4>3 DEF c, n
    <3>3. Times(buf', x, count') + (IF max' = x THEN 1 ELSE 0) = Times(buf, x, count)
      BY <2>2
    <3>. QED
      BY <3>1, <3>2, <3>3
  <2>4. Len(taken) = 0
    BY <1>1
  <2>. QED
    BY <1>1, <1>3, <1>5, <2>1, <2>2, <2>3, <2>4 DEF WeightInv
<1>. QED
  BY <1>1, <1>3, <1>4, <1>5 DEF WeightInv

LEMMA WeightMaxWeighs ==
  ASSUME HeapInv, NumbersInv, WeightInv, WeightMax
  PROVE  NumbersInv' /\ WeightInv'
<1>. DEFINE N == Len(taken)
            t == taken'
<1>0. /\ compute = "max" /\ moving = "no" /\ kind = "weight" /\ kind' = kind
      /\ added' = added /\ t = Append(taken, max)
  BY DEF HeapInv, WeightMax, StageInv
<1>0a. /\ taken \in Seq(Number) /\ taken \in Seq(Int) /\ N \in Nat
       /\ added \in [Number -> Nat]
  BY NumberSequence DEF NumbersInv
<1>0b. max \in Number
  BY <1>0 DEF WeightInv
<1>0c. count \in 0..Capacity /\ max \in Int /\ sum \in Int
  BY DEF HeapInv, HeapTypeOK
<1>1. /\ compute = "max" /\ moving = "no" /\ kind = "weight" /\ kind' = kind
      /\ count \in 0..Capacity /\ Capacity \in Nat /\ taken \in Seq(Int) /\ taken \in Seq(Number)
      /\ max \in Number /\ max \in Int /\ sum \in Int /\ N \in Nat /\ MaxWeighted \in Nat
      /\ added' = added /\ added \in [Number -> Nat] /\ t = Append(taken, max)
  BY <1>0, <1>0a, <1>0b, <1>0c, HeapAssumption
<1>2. /\ weighted = IF N <= MaxWeighted THEN N ELSE MaxWeighted
      /\ sum = Weighed(taken, N)
      /\ \A i \in 0..count - 1 : buf[i] \in Number /\ buf[i] <= max
      /\ \A i \in 1..N : max <= taken[i]
      /\ \A i, j \in 1..N : i < j => taken[i] >= taken[j]
      /\ \A x \in Number :
           added[x] = Times(buf, x, count) + Often(taken, x) + (IF max = x THEN 1 ELSE 0)
  BY <1>1 DEF WeightInv
<1>3. /\ t \in Seq(Number) /\ t \in Seq(Int) /\ Len(t) = N + 1 /\ t[N + 1] = max
      /\ \A i \in 1..N : t[i] = taken[i]
  BY <1>1
<1>4. compute' # "no" /\ compute' = (IF count = 0 THEN "done" ELSE "max")
  BY <1>1 DEF WeightMax
<1>5. NumbersInv'
  BY <1>1, <1>3, <1>4 DEF NumbersInv
<1>6. /\ sum' = Weighed(t, N + 1)
      /\ weighted' = IF N + 1 <= MaxWeighted THEN N + 1 ELSE MaxWeighted
  <2>. DEFINE w == Weight(max, N)
  <2>1. Weighed(t, N + 1) = Weighed(taken, N) + (IF N < MaxWeighted THEN w ELSE 0)
    BY <1>1, WeighedAppended
  <2>2. weighted < MaxWeighted => weighted = N /\ N < MaxWeighted
    BY <1>1, <1>2
  <2>3. weighted >= MaxWeighted => weighted = MaxWeighted /\ N >= MaxWeighted
    BY <1>1, <1>2
  <2>4. weighted \in Nat
    BY <1>1, <1>2
  <2>5. CASE weighted < MaxWeighted
    <3>1. sum' = sum + w /\ weighted' = N + 1
      BY <2>2, <2>5 DEF WeightMax
    <3>2. N + 1 <= MaxWeighted
      BY <1>1, <2>2, <2>5
    <3>. HIDE DEF w, N, t
    <3>. QED
      BY <1>2, <2>1, <2>2, <2>5, <3>1, <3>2
  <2>6. CASE ~(weighted < MaxWeighted)
    <3>1. sum' = sum /\ weighted' = weighted /\ weighted = MaxWeighted /\ N >= MaxWeighted
      BY <1>1, <2>3, <2>4, <2>6 DEF WeightMax
    <3>. HIDE DEF w, t
    <3>. QED
      BY <1>1, <1>2, <2>1, <3>1
  <2>. QED
    BY <2>5, <2>6
<1>7. \A i, j \in 1..N + 1 : i < j => t[i] >= t[j]
  <2>. SUFFICES ASSUME NEW i \in 1..N + 1, NEW j \in 1..N + 1, i < j  PROVE t[i] >= t[j]
    OBVIOUS
  <2>1. i \in 1..N /\ t[i] = taken[i] /\ t[i] \in Int
    BY <1>1, <1>3
  <2>2. CASE j \in 1..N
    BY <1>2, <1>3, <2>1, <2>2
  <2>3. CASE j = N + 1
    <3>1. t[j] = max /\ max <= taken[i]
      BY <1>2, <1>3, <2>1, <2>3
    <3>. HIDE DEF t
    <3>2. taken[i] >= max
      BY <1>1, <2>1, <3>1
    <3>. QED
      BY <2>1, <3>1, <3>2
  <2>4. j \in 1..N \/ j = N + 1
    <3>1. N \in Nat
      BY <1>1
    <3>. HIDE DEF N
    <3>. QED
      BY <3>1
  <2>. QED
    BY <2>2, <2>3, <2>4
<1>8. \A x \in Number : Often(t, x) = Often(taken, x) + (IF max = x THEN 1 ELSE 0)
                        /\ Often(taken, x) \in Nat
  BY <1>1, OftenIs, OftenNat
<1>9. ASSUME NEW x \in Number  PROVE added[x] = Times(buf, x, count) + Often(t, x)
                                     /\ Times(buf, x, count) \in Int /\ Often(t, x) \in Int
  <2>1. Times(buf, x, count) \in Int
    BY <1>1, TimesIs
  <2>2. added[x] = Times(buf, x, count) + Often(taken, x) + (IF max = x THEN 1 ELSE 0)
    BY <1>2
  <2>3. Often(t, x) = Often(taken, x) + (IF max = x THEN 1 ELSE 0) /\ Often(taken, x) \in Nat
    BY <1>8
  <2>. HIDE DEF t
  <2>. QED
    BY <2>1, <2>2, <2>3
<1>10. CASE count = 0
  <2>1. compute' = "done" /\ buf' = buf /\ count' = 0
    BY <1>4, <1>10 DEF WeightMax
  <2>2. \A x \in Number : added'[x] = Times(buf', x, count') + Often(t, x) + 0
    BY <1>1, <1>9, <1>10, <2>1
  <2>3. Len(t) = N + 1 /\ kind' = kind /\ count' - 1 = -1 /\ compute' # "max"
    BY <1>1, <1>3, <2>1
  <2>. HIDE DEF t, N
  <2>4. WeightInv'
    <3>1. weighted' = (IF Len(t) <= MaxWeighted THEN Len(t) ELSE MaxWeighted) /\ sum' = Weighed(t, Len(t))
      BY <1>6, <2>3
    <3>2. \A i \in 0..count' - 1 : buf'[i] \in Number
      BY <2>3
    <3>3. \A i, j \in 1..Len(t) : i < j => t[i] >= t[j]
      BY <1>7, <2>3
    <3>. QED
      BY <2>1, <2>2, <2>3, <3>1, <3>2, <3>3 DEF WeightInv, t
  <2>. QED
    BY <1>5, <2>4
<1>11. CASE count # 0
  <2>1. HeapExtract /\ count >= 1 /\ compute' = "max"
    BY <1>1, <1>4, <1>11 DEF WeightMax
  <2>2. /\ max' \in Number /\ max' = buf[0] /\ count' = count - 1
        /\ \A i \in 0..count' - 1 : buf'[i] \in Number /\ buf'[i] <= max'
        /\ \A x \in Number :
             Times(buf', x, count') + (IF max' = x THEN 1 ELSE 0) = Times(buf, x, count)
    BY <1>1, <1>2, <2>1, TakeOne
  <2>3. max' <= max /\ max' \in Int
    BY <1>1, <1>2, <1>11, <2>2, HeapAssumption
  <2>4. ASSUME NEW i \in 1..N + 1  PROVE max' <= t[i]
    <3>1. CASE i = N + 1
      BY <1>3, <2>3, <3>1
    <3>2. CASE i \in 1..N
      <4>1. max <= taken[i] /\ taken[i] \in Int /\ t[i] = taken[i]
        BY <1>1, <1>2, <1>3, <3>2
      <4>. QED
        BY <1>1, <2>3, <4>1
    <3>. QED
      BY <1>1, <3>1, <3>2
  <2>5. ASSUME NEW x \in Number
        PROVE  added'[x] = Times(buf', x, count') + Often(t, x) + (IF max' = x THEN 1 ELSE 0)
    <3>1. Times(buf', x, count') + (IF max' = x THEN 1 ELSE 0) = Times(buf, x, count)
      BY <2>2
    <3>2. Times(buf', x, count') \in Int
      <4>. DEFINE c == buf'
                  n == count'
      <4>1. n \in 0..Capacity
        BY <1>1, <1>11, <2>2
      <4>. HIDE DEF c, n
      <4>2. Times(c, x, n) \in Int
        BY <4>1, TimesIs
      <4>. QED
        BY <4>2 DEF c, n
    <3>. HIDE DEF t
    <3>. QED
      BY <1>1, <1>9, <3>1, <3>2
  <2>. QED
    BY <1>1, <1>3, <1>5, <1>6, <1>7, <2>1, <2>2, <2>4, <2>5 DEF WeightInv
<1>. QED
  BY <1>10, <1>11

LEMMA MoveWeighs ==
  ASSUME HeapInv, NumbersInv, WeightInv, MoveUp \/ MoveDown
  PROVE  NumbersInv' /\ WeightInv'
<1>. DEFINE c == buf'
<1>1. /\ HeapTypeOK /\ OrderInv /\ count \in 0..Capacity
      /\ UNCHANGED <<kind, count, max, compute, min1, weighted, sum, malloced, added, total, taken>>
  BY DEF HeapInv, MoveUp, MoveDown, HeapTypeOK
<1>2. NumbersInv'
  BY <1>1 DEF NumbersInv
<1>3. \/ c = buf
      \/ \E i, j \in 0..count - 1 :
           \A n \in 0..Capacity : c[n] = IF n = i THEN buf[j] ELSE IF n = j THEN buf[i] ELSE buf[n]
  BY <1>1, MoveSwaps
<1>. HIDE DEF c
<1>4. ASSUME NEW x  PROVE Times(c, x, count) = Times(buf, x, count)
  <2>1. ASSUME NEW i \in 0..count - 1, NEW j \in 0..count - 1,
               \A n \in 0..Capacity : c[n] = IF n = i THEN buf[j] ELSE IF n = j THEN buf[i] ELSE buf[n]
        PROVE  Times(c, x, count) = Times(buf, x, count)
    <3>. DEFINE b == buf
                n == count
    <3>1. n \in 0..Capacity /\ i \in 0..n - 1 /\ j \in 0..n - 1
      BY <1>1
    <3>2. \A m \in 0..Capacity : c[m] = IF m = i THEN b[j] ELSE IF m = j THEN b[i] ELSE b[m]
      BY <2>1
    <3>. HIDE DEF b, n
    <3>3. Times(c, x, n) = Times(b, x, n)
      BY <3>1, <3>2, TimesSwapped
    <3>. QED
      BY <3>3 DEF b, n
  <2>. QED
    BY <1>3, <2>1
<1>5. \A i \in 0..count - 1 : \E j \in 0..count - 1 : c[i] = buf[j]
  <2>. SUFFICES ASSUME NEW i \in 0..count - 1  PROVE \E j \in 0..count - 1 : c[i] = buf[j]
    OBVIOUS
  <2>1. i \in 0..Capacity
    BY <1>1, HeapAssumption
  <2>. QED
    BY <1>3, <2>1
<1>. QED
  BY <1>1, <1>2, <1>4, <1>5 DEF WeightInv, c

LEMMA WeightInvariant == HeapSpec => [](HeapInv /\ NumbersInv /\ WeightInv)
<1>1. HeapInit => NumbersInv /\ WeightInv
  BY WeightInitInv
<1>2. HeapInv /\ NumbersInv /\ WeightInv /\ [HeapNext]_heapVars => NumbersInv' /\ WeightInv'
  <2>. SUFFICES ASSUME HeapInv, NumbersInv, WeightInv, [HeapNext]_heapVars
                PROVE  NumbersInv' /\ WeightInv'
    OBVIOUS
  <2>1. ASSUME NEW type \in {"DEFAULT", "PERF", "ACC", "WEIGHT"}, SumNew(type)
        PROVE  NumbersInv' /\ WeightInv'
    BY <2>1, SumNewWeighs
  <2>2. ASSUME NEW x \in Number, SumAdd(x)  PROVE NumbersInv' /\ WeightInv'
    BY <2>2, SumAddWeighs
  <2>3. CASE SumCompute
    BY <2>3, SumComputeWeighs
  <2>4. CASE WeightMax
    BY <2>4, WeightMaxWeighs
  <2>5. CASE MoveUp \/ MoveDown
    BY <2>5, MoveWeighs
  <2>6. CASE AccMin1 \/ AccMin2 \/ AccNext \/ AccLast
    <3>1. kind = "acc" /\ kind' = kind /\ compute' # "no" /\ added' = added /\ taken' = taken
      BY <2>6 DEF AccMin1, AccMin2, AccNext, AccLast, AccTurn, HeapInv, StageInv
    <3>. QED
      BY <3>1 DEF NumbersInv, WeightInv
  <2>7. CASE UNCHANGED heapVars
    BY <2>7 DEF heapVars, NumbersInv, WeightInv
  <2>. QED
    BY <2>1, <2>2, <2>3, <2>4, <2>5, <2>6, <2>7 DEF HeapNext
<1>. QED
  BY <1>1, <1>2, HeapInvariant, PTL DEF HeapSpec

\* Whatever is put in the heap and in whatever order, an extraction takes a
\* number that no other is before: comparing with the slot after the last, which
\* still has the element that was put at the root, never takes it twice, and the
\* root, its own left child, is never swapped with itself (heap_extract_max,
\* heap_extract_problem, heap_greater_child).  A sum that is computed is that of
\* all the numbers added, or gives the weights to them from the largest to the
\* smallest, each as often as it was added; and every number allocated was freed
\* exactly once (acc_sum_compute, perf_sum_compute, weight_sum_compute).
THEOREM SumIsAlwaysRight == HeapSpec => []SumIsRight
<1>1. HeapInv => ExtractsLargest
  BY DEF HeapInv, OrderInv, MovingDown, ExtractsLargest
<1>2. HeapInv => SumIsWhole
  BY DEF HeapInv, HeapTypeOK, StageInv, CountInv, TotalInv, SumIsWhole
<1>3. HeapInv /\ NumbersInv /\ WeightInv => WeightsInOrder
  <2>. SUFFICES ASSUME HeapInv, NumbersInv, WeightInv, compute = "done", kind = "weight"
                PROVE  WeightsInOrder
    BY DEF WeightsInOrder
  <2>1. taken \in Seq(Number) /\ taken \in Seq(Int) /\ added \in [Number -> Nat]
    BY NumberSequence DEF NumbersInv
  <2>2. ASSUME NEW x \in Number  PROVE Often(taken, x) = added[x]
    <3>1. added[x] = Times(buf, x, count) + Often(taken, x) + 0 /\ count = 0
      BY DEF WeightInv
    <3>2. Often(taken, x) \in Nat
      BY <2>1, OftenNat
    <3>. QED
      BY <3>1, <3>2, TimesIs
  <2>. QED
    BY <2>1, <2>2 DEF WeightInv, WeightsInOrder, Often
<1>. QED
  BY <1>1, <1>2, <1>3, WeightInvariant, PTL DEF SumIsRight
=============================================================================
