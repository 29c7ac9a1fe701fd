----------------------------- MODULE HashTable -----------------------------
(***************************************************************************)
(* The hash table of lib/util/hash_table.c, with the macros of uthash.h it *)
(* is made of: entries linked twice, in the order they were added and in   *)
(* the chain of their bucket, where a new one comes first.  A chain that   *)
(* reaches its limit doubles the number of buckets, which reverses the     *)
(* chains.  The table proper exists while it has an entry.                 *)
(***************************************************************************)
EXTENDS Integers, Sequences, FiniteSets
LOCAL INSTANCE SequencesExt

CONSTANTS
  Key,
  HashOf,            \* the hash of each key
  Cells,           \* the entries there is memory for: 1..Cells, NIL being 0
  InitialBuckets,  \* HASH_INITIAL_NUM_BUCKETS
  Thresh,          \* HASH_BKT_CAPACITY_THRESH
  MaxBuckets       \* bound of the model: nothing is added to a table this large

ASSUME HashTableAssumption ==
  /\ HashOf \in [Key -> Nat]
  /\ Cells \in Nat
  /\ InitialBuckets \in Nat \ {0} /\ Thresh \in Nat \ {0}
  /\ MaxBuckets \in Nat

NIL == 0
Cell == 1..Cells

VARIABLES
  h,       \* "none", "open" or "deleting", in osux_hashtable_delete
  entry,   \* the entries
  head,    \* h->h
  tbl,     \* head->hh.tbl; [num_buckets |-> 0] when there is no table
  born,    \* ghost: the entries in the order they were added
  unique   \* ghost: only osux_hashtable_add_unique_entry added entries

hashVars == <<h, entry, head, tbl, born, unique>>

EmptyTable == [num_buckets |-> 0]
\* An entry that is free: nothing may lead to it.
Blank == [key |-> CHOOSE k \in Key : TRUE, next |-> NIL, prev |-> NIL,
          hh_next |-> NIL, hh_prev |-> NIL]

-----------------------------------------------------------------------------
(***************************************************************************)
(* uthash.h.                                                               *)
(***************************************************************************)

\* HASH_TO_BKT.
Bkt(k, n) == HashOf[k] % n

\* The chain of entries e that starts at x, at most Cells long.
ChainIn(e, x) ==
  LET From[n \in 0..Cells, y \in 0..Cells] ==
        IF y = NIL \/ n = 0 THEN <<>> ELSE <<y>> \o From[n - 1, e[y].hh_next]
  IN From[Cells, x]

\* HASH_FIND: the first entry of the chain with the key.
Find(k) ==
  IF head = NIL THEN NIL
  ELSE LET found == SelectSeq(ChainIn(entry, tbl.buckets[Bkt(k, tbl.num_buckets)].hh_head),
                              LAMBDA x : entry[x].key = k)
       IN IF found = <<>> THEN NIL ELSE found[1]

\* HASH_MAKE_TABLE.
MakeTable(x) ==
  [num_buckets |-> InitialBuckets, num_items |-> 0, tail |-> x,
   ineff_expands |-> 0, noexpand |-> FALSE,
   buckets |-> [b \in 0..InitialBuckets - 1 |->
                  [hh_head |-> NIL, count |-> 0, expand_mult |-> 0]]]

\* HASH_EXPAND_BUCKETS of table t with entries e: each entry in turn comes first
\* in the chain of its new bucket.  (Mutant OldBucket: the hash is cut to the
\* old number of buckets.)
OldBucket(k, n) == Bkt(k, n)
NewBucket(k, n) == Bkt(k, 2 * n)
Place(acc, x) ==
  LET b == NewBucket(acc.e[x].key, acc.n)
      first == acc.buckets[b].hh_head
      ent == [acc.e EXCEPT ![x].hh_prev = NIL, ![x].hh_next = first]
      count == acc.buckets[b].count + 1
  IN [acc EXCEPT
        !.e = IF first = NIL THEN ent ELSE [ent EXCEPT ![first].hh_prev = x],
        !.nonideal = IF count > acc.ideal THEN @ + 1 ELSE @,
        !.buckets[b] = [hh_head |-> x, count |-> count,
                        expand_mult |-> IF count > acc.ideal THEN count \div acc.ideal
                                        ELSE @.expand_mult]]

Expanded(t, e) ==
  LET n == t.num_buckets
      all == FlattenSeq([i \in 1..n |-> ChainIn(e, t.buckets[i - 1].hh_head)])
      new == FoldLeft(Place,
                      [n |-> n, e |-> e, nonideal |-> 0,
                       ideal |-> (t.num_items + 2 * n - 1) \div (2 * n),
                       buckets |-> [b \in 0..2 * n - 1 |->
                                      [hh_head |-> NIL, count |-> 0, expand_mult |-> 0]]],
                      all)
      ineff == IF new.nonideal > t.num_items \div 2 THEN t.ineff_expands + 1 ELSE 0
  IN [e |-> new.e,
      t |-> [t EXCEPT !.num_buckets = 2 * n, !.buckets = new.buckets,
                      !.ineff_expands = ineff, !.noexpand = @ \/ ineff > 1]]

\* HASH_ADD_KEYPTR with HASH_ADD_TO_BKT: entry x, last of all and first of its chain.
AddKeyptr(k, x) ==
  LET t0 == IF head = NIL THEN MakeTable(x) ELSE tbl
      b == Bkt(k, t0.num_buckets)
      first == t0.buckets[b].hh_head
      last == IF head = NIL THEN NIL ELSE t0.tail
      t1 == [t0 EXCEPT !.tail = x, !.num_items = @ + 1,
                       !.buckets[b].count = @ + 1, !.buckets[b].hh_head = x]
      ent == [y \in Cell |->
               IF y = x THEN [key |-> k, next |-> NIL, prev |-> last,
                              hh_next |-> first, hh_prev |-> NIL]
               ELSE [entry[y] EXCEPT !.next = IF y = last THEN x ELSE @,
                                     !.hh_prev = IF y = first THEN x ELSE @]]
      full == t1.buckets[b].count >= (t1.buckets[b].expand_mult + 1) * Thresh
      new == IF full /\ ~t1.noexpand THEN Expanded(t1, ent) ELSE [t |-> t1, e |-> ent]
  IN /\ head' = IF head = NIL THEN x ELSE head
     /\ tbl' = new.t
     /\ entry' = new.e

\* HASH_DELETE with HASH_DEL_IN_BKT: out of both lists; the last entry takes the
\* table with it.  (Mutant TailStays: the tail is not moved back.)
TailStays(x) == tbl.tail
TailWithout(x) == IF tbl.tail = x THEN entry[x].prev ELSE tbl.tail
Delete(x) ==
  LET d == entry[x]
      b == Bkt(d.key, tbl.num_buckets)
  IN IF d.prev = NIL /\ d.next = NIL
     THEN head' = NIL /\ tbl' = EmptyTable /\ entry' = [entry EXCEPT ![x] = Blank]
     ELSE /\ head' = IF d.prev = NIL THEN d.next ELSE head
          /\ tbl' = [tbl EXCEPT !.tail = TailWithout(x), !.num_items = @ - 1,
                                !.buckets[b].count = @ - 1,
                                !.buckets[b].hh_head = IF @ = x THEN d.hh_next ELSE @]
          /\ entry' = [y \in Cell |->
                         IF y = x THEN Blank
                         ELSE [entry[y] EXCEPT
                                 !.next = IF y = d.prev THEN d.next ELSE @,
                                 !.prev = IF y = d.next THEN d.prev ELSE @,
                                 !.hh_next = IF y = d.hh_prev THEN d.hh_next ELSE @,
                                 !.hh_prev = IF y = d.hh_next THEN d.hh_prev ELSE @]]

-----------------------------------------------------------------------------
(***************************************************************************)
(* hash_table.c.                                                           *)
(***************************************************************************)
HashNew == h = "none" /\ h' = "open" /\ UNCHANGED <<entry, head, tbl, born, unique>>

\* malloc gives the lowest cell that is free.
FreeCells == Cell \ ToSet(born)
NewEntry(k) ==
  /\ h = "open" /\ FreeCells # {} /\ tbl.num_buckets < MaxBuckets
  /\ LET x == CHOOSE y \in FreeCells : \A z \in FreeCells : y <= z
     IN AddKeyptr(k, x) /\ born' = Append(born, x)
  /\ UNCHANGED h

\* osux_hashtable_insert: whether or not the key is there.
HashInsert(k) == NewEntry(k) /\ unique' = FALSE

\* osux_hashtable_add_unique_entry; a failure changes nothing.
HashAddUnique(k) == Find(k) = NIL /\ NewEntry(k) /\ UNCHANGED unique

RemoveEntry(x) == Delete(x) /\ born' = SelectSeq(born, LAMBDA y : y # x)

\* osux_hashtable_remove: the entry found, whose data the caller keeps.
HashRemove(k) ==
  /\ h = "open" /\ Find(k) # NIL
  /\ RemoveEntry(Find(k))
  /\ UNCHANGED <<h, unique>>

\* osux_hashtable_delete: the first entry again and again, then the table.
HashDelete ==
  /\ h = "open"
  /\ h' = "deleting"
  /\ UNCHANGED <<entry, head, tbl, born, unique>>
HashDeleteStep ==
  /\ h = "deleting"
  /\ IF head # NIL
     THEN RemoveEntry(head) /\ UNCHANGED <<h, unique>>
     ELSE h' = "none" /\ unique' = TRUE /\ UNCHANGED <<entry, head, tbl, born>>

HashInit ==
  /\ h = "none"
  /\ entry = [x \in Cell |-> Blank]
  /\ head = NIL /\ tbl = EmptyTable
  /\ born = <<>> /\ unique = TRUE

HashNext ==
  \/ HashNew \/ HashDelete \/ HashDeleteStep
  \/ \E k \in Key : HashInsert(k) \/ HashAddUnique(k) \/ HashRemove(k)

-----------------------------------------------------------------------------
(***************************************************************************)
(* Properties.                                                             *)
(***************************************************************************)
Live == ToSet(born)

\* The list that osux_hashtable_each and osux_hashtable_to_list follow.
Each ==
  LET From[n \in 0..Cells, y \in 0..Cells] ==
        IF y = NIL \/ n = 0 THEN <<>> ELSE <<y>> \o From[n - 1, entry[y].next]
  IN From[Cells, head]

ChainOf(b) == ChainIn(entry, tbl.buckets[b].hh_head)

\* Whatever is added and removed, and however the buckets grow, an entry that is
\* there is in the list once, at its place, and in the chain of its bucket
\* once, and no list leads to an entry freed; so a key is found if it is there,
\* and only add_unique leaves each key at most once.
TableExact ==
  /\ Each = born
  /\ \A k \in Key : Find(k) # NIL <=> \E x \in Live : entry[x].key = k
  /\ head # NIL =>
       /\ tbl.tail = Last(born) /\ tbl.num_items = Len(born)
       /\ \A i \in 1..Len(born) : entry[born[i]].prev = IF i = 1 THEN NIL ELSE born[i - 1]
       /\ \A b \in DOMAIN tbl.buckets :
            LET c == ChainOf(b)
            IN /\ ToSet(c) = {x \in Live : Bkt(entry[x].key, tbl.num_buckets) = b}
               /\ Len(c) = Cardinality(ToSet(c)) /\ tbl.buckets[b].count = Len(c)
               /\ \A i \in 1..Len(c) : entry[c[i]].hh_prev = IF i = 1 THEN NIL ELSE c[i - 1]
  /\ unique => \A x, y \in Live : entry[x].key = entry[y].key => x = y
=============================================================================
