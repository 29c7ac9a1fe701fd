----------------------------- MODULE OsuxList -----------------------------
(***************************************************************************)
(* The linked list of lib/util/list.c, node by node: a chain of nodes      *)
(* between two sentinels, and a cursor on the node that was looked up last *)
(* with its position, from which the next lookup walks when it can.  The   *)
(* list is const in osux_list_get, which moves the cursor all the same.    *)
(*                                                                         *)
(* A call that looks a node up is several steps here: the call, one step   *)
(* for each node walked, and the rest of the call.  Positions given by the *)
(* callers are in range: list.c does not check them.                       *)
(***************************************************************************)
EXTENDS Naturals

CONSTANTS Elem, NULL,  \* as in ListSpec
          Node,        \* the memory cells nodes are allocated in
          Front, Back  \* the sentinels

ASSUME OsuxListAssumption ==
  /\ NULL \notin Elem
  /\ Front \in Node /\ Back \in Node /\ Front # Back

VARIABLES
  next,    \* next[x]: the node after x
  data,    \* data[x]: the element in x
  alloc,   \* the nodes that are allocated
  size,    \* list->size
  cursor,  \* list->cursor
  curpos,  \* list->curpos
  call,    \* the call in progress: its name, position and element
  node,    \* osux_list_get_node: the node reached
  k,       \* osux_list_get_node: the nodes still to walk
  answer,  \* the last call that returned, with what it returned
  pos      \* ghost: pos[n] is the n-th node, the sentinels being 0 and size+1

vars == <<next, data, alloc, size, cursor, curpos, call, node, k, answer, pos>>

Idle == [op |-> "none", n |-> 0, el |-> NULL]
Answer(op, n, val) == [op |-> op, n |-> n, val |-> val]

-----------------------------------------------------------------------------
(***************************************************************************)
(* osux_list_get_node.                                                     *)
(***************************************************************************)

\* The position that call c looks up: its own, or the one before.
\* (Mutant FromZero: positions numbered from 0.)
FromZero(c) == c.n - 1
Wanted(c) == IF c.op = "get" THEN c.n ELSE c.n - 1

\* The lookup starts from the cursor unless that is past the position.  (Mutant
\* CursorAnyway: it always does.)
CursorAnyway(c) == TRUE
StartsAtCursor(c) == curpos <= Wanted(c)

BeginLookup(c) ==
  /\ call = Idle
  /\ call' = c
  /\ IF StartsAtCursor(c)
     THEN node' = cursor /\ k' = Wanted(c) - curpos
     ELSE node' = Front /\ k' = Wanted(c)
  /\ UNCHANGED <<next, data, alloc, size, cursor, curpos, answer, pos>>

Walk ==
  /\ call # Idle /\ k > 0
  /\ node' = next[node]
  /\ k' = k - 1
  /\ UNCHANGED <<next, data, alloc, size, cursor, curpos, call, answer, pos>>

\* The lookup is over: the cursor stays on the node, and the call returns.
EndLookup(op) ==
  /\ call.op = op /\ k = 0
  /\ cursor' = node
  /\ curpos' = Wanted(call)
  /\ call' = Idle
  /\ UNCHANGED <<node, k>>

-----------------------------------------------------------------------------
(***************************************************************************)
(* The calls.                                                              *)
(***************************************************************************)
CallGet(n) == BeginLookup([op |-> "get", n |-> n, el |-> NULL])

ReturnGet ==
  /\ EndLookup("get")
  /\ answer' = Answer("get", call.n, data[node])
  /\ UNCHANGED <<next, data, alloc, size, pos>>

CallInsert(n, el) == BeginLookup([op |-> "insert", n |-> n, el |-> el])

\* osux_list_append inserts after the last position.
CallAppend(el) == CallInsert(size + 1, el)

\* Node x with element el takes position n, after node p.
Link(x, p, n, el) ==
  /\ alloc' = alloc \cup {x}
  /\ data' = [data EXCEPT ![x] = el]
  /\ next' = [next EXCEPT ![x] = next[p], ![p] = x]
  /\ size' = size + 1
  /\ pos' = [i \in 0..size + 2 |->
               IF i < n THEN pos[i] ELSE IF i = n THEN x ELSE pos[i - 1]]

ReturnInsert ==
  /\ EndLookup("insert")
  /\ \E x \in Node \ alloc : Link(x, node, call.n, call.el)
  /\ answer' = Answer("insert", call.n, NULL)

CallRemove(n) == BeginLookup([op |-> "remove", n |-> n, el |-> NULL])

\* (Mutant Leak: the node unlinked is not freed.)
Leak(x) == UNCHANGED alloc
Free(x) == alloc' = alloc \ {x}

ReturnRemove ==
  /\ EndLookup("remove")
  /\ LET tmp == next[node]
     IN /\ next' = [next EXCEPT ![node] = next[tmp]]
        /\ Free(tmp)
  /\ size' = size - 1
  /\ answer' = Answer("remove", call.n, NULL)
  /\ pos' = [i \in 0..size |-> IF i < call.n THEN pos[i] ELSE pos[i + 1]]
  /\ UNCHANGED data

\* osux_list_add: at the front, without a lookup; the cursor's position moves
\* along, unless the cursor is the front sentinel.  (Mutant CurposLeft.)
CurposLeft == curpos
CurposMoved == IF curpos # 0 THEN curpos + 1 ELSE 0

Add(el) ==
  /\ call = Idle
  /\ \E x \in Node \ alloc : Link(x, Front, 1, el)
  /\ curpos' = CurposMoved
  /\ answer' = Answer("add", 1, NULL)
  /\ UNCHANGED <<cursor, call, node, k>>

-----------------------------------------------------------------------------
Init ==
  /\ next = [x \in Node |-> Back]
  /\ data = [x \in Node |-> NULL]
  /\ alloc = {Front, Back}
  /\ size = 0
  /\ cursor = Front
  /\ curpos = 0
  /\ call = Idle
  /\ node = Front
  /\ k = 0
  /\ answer = Answer("new", 0, NULL)
  /\ pos = [i \in 0..1 |-> IF i = 0 THEN Front ELSE Back]

\* A client calls within the range, and inserts while there is memory left.
Calls ==
  \/ \E n \in 1..size : CallGet(n) \/ CallRemove(n)
  \/ /\ alloc # Node
     /\ \E el \in Elem : CallAppend(el) \/ \E n \in 1..size : CallInsert(n, el)

Returns == Walk \/ ReturnGet \/ ReturnInsert \/ ReturnRemove

Next == Calls \/ Returns \/ \E el \in Elem : Add(el)

Spec == Init /\ [][Next]_vars

-----------------------------------------------------------------------------
(***************************************************************************)
(* Properties.                                                             *)
(***************************************************************************)
CallType == [op : {"none", "get", "insert", "remove"}, n : Nat, el : Elem \cup {NULL}]

\* The values the variables range over.
TypeOK ==
  /\ next \in [Node -> Node]
  /\ data \in [Node -> Elem \cup {NULL}]
  /\ alloc \in SUBSET Node
  /\ size \in Nat /\ curpos \in Nat /\ k \in Nat
  /\ cursor \in Node /\ node \in Node
  /\ call \in CallType
  /\ pos \in [0..size + 1 -> Node]

\* The chain goes from sentinel to sentinel through size nodes, all different
\* and allocated, and no other node is allocated: none leaks, and none that is
\* linked has been freed.
Chain ==
  /\ pos[0] = Front /\ pos[size + 1] = Back
  /\ \A i \in 0..size : next[pos[i]] = pos[i + 1]
  /\ \A i, j \in 0..size + 1 : pos[i] = pos[j] => i = j
  /\ alloc = {pos[i] : i \in 0..size + 1}

\* The cached cursor is the node at the cached position, whatever was added,
\* inserted or removed since the lookup: it is never a freed node, nor one that
\* has moved.
CursorInPlace == curpos \in 0..size /\ cursor = pos[curpos]

\* The list implements ListSpec: a get returns the n-th element, whatever walk
\* led to it.
Promise == INSTANCE ListSpec WITH items <- [i \in 1..size |-> data[pos[i]]]
ImplementsListSpec == Promise!ListSpecSafety
=============================================================================
