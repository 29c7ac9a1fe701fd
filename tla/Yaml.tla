-------------------------------- MODULE Yaml --------------------------------
(***************************************************************************)
(* The YAML files of constants: osux_yaml_new_from_file of                 *)
(* lib/util/yaml.c, which builds a tree from the events of the parser with *)
(* a stack of the open containers (lib/util/stack.c), and the accessors of *)
(* taikorank/cst_yaml.c.                                                   *)
(*                                                                         *)
(* The parser says neither where a value belongs nor which scalars are     *)
(* keys: the loop finds out with the stack and with keyname.  The parser   *)
(* is external: it gives the events of some document, and may give up at   *)
(* any event.                                                              *)
(***************************************************************************)
EXTENDS Naturals, Sequences
LOCAL INSTANCE SequencesExt

CONSTANTS
  Scalar,    \* the scalars, keys included
  MaxNodes   \* bound of the model: the values of a document

ASSUME YamlAssumption == MaxNodes \in Nat

VARIABLES
  status,    \* "start", "loop", "done", "freed" or "crashed"
  val,      \* the values allocated, by number: [type, scalar, table, list]
  live,      \* those that are not freed
  stack,     \* container_stack, the head last
  keyname,   \* a scalar, or NoName for NULL
  yaml,      \* the value returned; 0 for NULL
  ctx,       \* parser: the open containers, and the key of the value to come
  doc,       \* ghost: the values of the document in order, with parent and key,
             \* as long as there is no alias
  aliased    \* ghost: there was an alias, or a container as a key

yamlVars == <<status, val, live, stack, keyname, yaml, ctx, doc, aliased>>

NoName == "NULL"
NoKey == "-"
Scal(s) == [type |-> "SCALAR", scalar |-> s, table |-> <<>>, list |-> <<>>]
Container(type) == [type |-> type, scalar |-> NoName,
                    table |-> [k \in {} |-> 0], list |-> <<>>]

-----------------------------------------------------------------------------
(***************************************************************************)
(* The tree.                                                               *)
(***************************************************************************)
Children(nd, c) == {nd[c].table[k] : k \in DOMAIN nd[c].table} \cup ToSet(nd[c].list)

\* What osux_yaml_free of x frees.  A value has a greater number than its container.
Under(nd, x) ==
  FoldLeft(LAMBDA acc, y : IF \E c \in acc : y \in Children(nd, c) THEN acc \cup {y} ELSE acc,
           {x}, [i \in 1..Len(nd) |-> i])

\* insert_in_container: a value that has the key already is freed; a list grows
\* at its head.  Gives the values and those alive.
Inserted(c, key, x, nd, al) ==
  CASE nd[c].type = "TABLE" ->
         [nd |-> [nd EXCEPT ![c].table = [k \in DOMAIN @ \cup {key} |-> IF k = key THEN x ELSE @[k]]],
          al |-> IF key \in DOMAIN nd[c].table THEN al \ Under(nd, nd[c].table[key]) ELSE al]
    [] nd[c].type = "LIST" -> [nd |-> [nd EXCEPT ![c].list = <<x>> \o @], al |-> al]

\* wrap, and insert_in_container if a container is open.
New == Len(val) + 1
Wrap(value) ==
  LET nd == Append(val, value)
      al == live \cup {New}
      r == IF stack = <<>> THEN [nd |-> nd, al |-> al]
           ELSE Inserted(Last(stack), keyname, New, nd, al)
  IN val' = r.nd /\ live' = r.al

\* The container on the stack that would take a value under no key: GLib hashes
\* the NULL and the program dies.
NullKey == stack # <<>> /\ val[Last(stack)].type = "TABLE" /\ keyname = NoName

-----------------------------------------------------------------------------
(***************************************************************************)
(* The parser: where the next value goes, and what it becomes.             *)
(***************************************************************************)
AsKey == ctx # <<>> /\ Last(ctx).type = "TABLE" /\ Last(ctx).key = NoKey
AtRoot == ctx = <<>> /\ val = <<>>
Room == Len(val) < MaxNodes

\* The context after a value, or after a key.
CtxAfter(s) ==
  IF ctx = <<>> \/ Last(ctx).type = "LIST" THEN ctx
  ELSE Front(ctx) \o <<[Last(ctx) EXCEPT !.key = IF AsKey THEN s ELSE NoKey]>>
DocWith(x) ==
  IF aliased THEN doc
  ELSE Append(doc, [parent |-> IF ctx = <<>> THEN 0 ELSE Last(ctx).id,
               key |-> IF ctx = <<>> THEN NoKey ELSE Last(ctx).key, id |-> x])

-----------------------------------------------------------------------------
(***************************************************************************)
(* osux_yaml_new_from_file: one action for each kind of event.             *)
(***************************************************************************)

\* The file is opened, or is not.
OpenYaml ==
  /\ status = "start"
  /\ status' \in {"loop", "done"}
  /\ UNCHANGED <<val, live, stack, keyname, yaml, ctx, doc, aliased>>

ScalarEvent(s) ==
  /\ status = "loop" /\ Room /\ (AtRoot \/ ctx # <<>>)
  /\ IF NullKey
     THEN keyname' = s /\ UNCHANGED <<val, live, yaml>>
     ELSE /\ Wrap(Scal(s))
          /\ keyname' = NoName
          /\ yaml' = IF stack = <<>> THEN New ELSE yaml
  /\ ctx' = CtxAfter(s)
  /\ doc' = IF AsKey THEN doc ELSE DocWith(New)
  /\ UNCHANGED <<status, stack, aliased>>

\* push_container.
StartEvent(type) ==
  /\ status = "loop" /\ Room /\ (AtRoot \/ ctx # <<>>)
  /\ aliased' = (aliased \/ AsKey)
  /\ IF NullKey
     THEN /\ status' = "crashed"
          /\ UNCHANGED <<val, live, stack, keyname, yaml, ctx, doc>>
     ELSE /\ Wrap(Container(type))
          /\ stack' = Append(stack, New)
          /\ keyname' = NoName
          /\ ctx' = Append(CtxAfter("container"), [id |-> New, type |-> type, key |-> NoKey])
          /\ doc' = DocWith(New)
          /\ UNCHANGED <<status, yaml>>

\* The list grew at its head.  (Mutant Prepended: it is not reversed.)
Prepended(l) == l
Reversed(l) == Reverse(l)
EndEvent(type) ==
  /\ status = "loop"
  /\ ctx # <<>> /\ Last(ctx).type = type /\ Last(ctx).key = NoKey
  /\ yaml' = Last(stack)
  /\ stack' = Front(stack)
  /\ val' = IF type = "LIST" THEN [val EXCEPT ![Last(stack)].list = Reversed(@)] ELSE val
  /\ keyname' = NoName
  /\ ctx' = Front(ctx)
  /\ UNCHANGED <<status, live, doc, aliased>>

\* An alias is one of the other events, which are ignored.
AliasEvent ==
  /\ status = "loop" /\ ctx # <<>>
  /\ aliased' = TRUE /\ doc' = <<>>
  /\ ctx' = CtxAfter("alias")
  /\ UNCHANGED <<status, val, live, stack, keyname, yaml>>

\* The end of the document or of an empty stream, and a parser error, end the
\* loop; containers that are open are popped, down to the root.
EndLoop ==
  /\ status = "loop"
  /\ status' = "done"
  /\ yaml' = IF stack = <<>> THEN yaml ELSE stack[1]
  /\ stack' = <<>> /\ keyname' = NoName
  /\ UNCHANGED <<val, live, ctx, doc, aliased>>

\* osux_yaml_free.
YamlFree ==
  /\ status = "done"
  /\ status' = "freed"
  /\ live' = IF yaml = 0 THEN live ELSE live \ Under(val, yaml)
  /\ UNCHANGED <<val, stack, keyname, yaml, ctx, doc, aliased>>

YamlInit ==
  /\ status = "start"
  /\ val = <<>> /\ live = {} /\ stack = <<>> /\ keyname = NoName /\ yaml = 0
  /\ ctx = <<>> /\ doc = <<>> /\ aliased = FALSE

YamlNext ==
  \/ OpenYaml \/ AliasEvent \/ EndLoop \/ YamlFree
  \/ \E s \in Scalar : ScalarEvent(s)
  \/ \E type \in {"TABLE", "LIST"} : StartEvent(type) \/ EndEvent(type)

-----------------------------------------------------------------------------
(***************************************************************************)
(* cst_yaml.c: what is under a key, or a value that says there is nothing. *)
(***************************************************************************)
NO_SCALAR == "-1"
CstStr(c, k) == IF k \in DOMAIN val[c].table /\ val[val[c].table[k]].type = "SCALAR"
                THEN val[val[c].table[k]].scalar ELSE NO_SCALAR
CstList(c, k) == IF k \in DOMAIN val[c].table /\ val[val[c].table[k]].type = "LIST"
                 THEN val[val[c].table[k]].list ELSE <<>>

-----------------------------------------------------------------------------
(***************************************************************************)
(* Properties.                                                             *)
(***************************************************************************)

\* The values of container c in the document, in order, of those kept by P.
In(c) == SelectSeq(doc, LAMBDA d : d.parent = c)
Ids(ds) == [i \in DOMAIN ds |-> ds[i].id]
Closed(c) == \A i \in DOMAIN ctx : ctx[i].id # c

\* The tree is the document, of which the parser gave no structure: a list has
\* its values in order and a table the last value of each key, for a container
\* that was closed, whatever was nested, repeated or cut short around it; the
\* accessors answer by it.  And what is alive is what the root leads to, so
\* nothing leaks, a value that was replaced is freed with all of its own, and
\* freeing the root frees everything.
DocumentLoaded ==
  /\ status = "done" => live = IF yaml = 0 THEN {} ELSE Under(val, yaml)
  /\ status = "freed" => live = {}
  /\ status = "done" /\ ~aliased =>
       \A c \in live : Closed(c) =>
         CASE val[c].type = "LIST" -> val[c].list = Ids(In(c))
           [] val[c].type = "TABLE" ->
                \A k \in Scalar :
                  LET vs == SelectSeq(In(c), LAMBDA d : d.key = k)
                      v == IF vs = <<>> THEN Container("none") ELSE val[Last(vs).id]
                  IN /\ CstStr(c, k) = IF v.type = "SCALAR" THEN v.scalar ELSE NO_SCALAR
                     /\ CstList(c, k) = IF v.type = "LIST" THEN v.list ELSE <<>>
                     /\ k \in DOMAIN val[c].table <=> vs # <<>>
           [] OTHER -> In(c) = <<>>
=============================================================================
