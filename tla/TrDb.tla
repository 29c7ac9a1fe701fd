------------------------------- MODULE TrDb -------------------------------
(***************************************************************************)
(* The result database of taiko_ranking (src/taikorank/tr_db.c): every     *)
(* OpenMP task that has rated a map stores the rating with trm_db_insert,  *)
(* which finds or inserts, in this order, the creator, the mods, the       *)
(* mapset, the difficulty and the score.                                   *)
(*                                                                         *)
(* All the tasks share ONE MySQL connection.  Each SELECT and each INSERT  *)
(* runs inside the unnamed `omp critical' section, but a find-or-insert is *)
(* a SELECT and then, in another section, an INSERT: other tasks run in    *)
(* between.  A SELECT itself is a query, which leaves its result on the    *)
(* connection, and mysql_store_result, which picks the connection's result *)
(* up: they are two steps here.                                            *)
(*                                                                         *)
(* Names (creator, title, difficulty, mods) are abstract values: the code  *)
(* only compares them for equality in a WHERE clause, and escapes them.    *)
(***************************************************************************)
EXTENDS Integers, Sequences, FiniteSets

CONSTANTS
  Task,         \* the OpenMP tasks that store ratings
  Name,         \* the names of creators, titles, difficulties and mods
  Key,          \* Key[t]: the creator, title, diff and mods of the map of t
  MaxRound,     \* a task stores 1..MaxRound ratings, one per printed score
  Workers,      \* the number of OpenMP threads
  ServerTables, \* the tables on which the program's statements are valid
  MaxFaults,    \* bound on the queries that fail (lost connection, ...)
  NoTask        \* the critical section is free

ASSUME TrDbAssumption ==
  /\ NoTask \notin Task
  /\ Key \in [Task -> [creator : Name, title : Name, diff : Name, mods : Name]]
  /\ MaxRound \in Nat \ {0}
  /\ Workers \in Nat \ {0}
  /\ MaxFaults \in Nat

Table == {"tr_user", "tr_mod", "tr_mapset", "tr_diff", "tr_score"}
Round == 1..MaxRound

ASSUME ServerTablesAssumption == ServerTables \subseteq Table

VARIABLES
  critical,  \* the task inside the unnamed critical section
  connected, \* sql # NULL: mysql_real_connect succeeded
  result,    \* the ids in the result set that is pending on the connection
  rows,      \* rows[tb]: the rows of tb, the row number is the ID
  step,      \* step[t]: where t is in trm_db_insert
  ids,       \* ids[t][tb]: what tr_db_get_id returned to t for tb (-1: none)
  round,     \* round[t]: the number of calls of trm_db_insert t has started
  faults     \* the number of queries that have failed so far

dbvars == <<critical, connected, result, rows, step, ids, round, faults>>

-----------------------------------------------------------------------------
(***************************************************************************)
(* The tables: what identifies a row, and the rows it refers to.           *)
(***************************************************************************)

\* The order in which trm_db_insert visits the tables.
NextTable == [tr_user   |-> "tr_mod",  tr_mod  |-> "tr_mapset",
              tr_mapset |-> "tr_diff", tr_diff |-> "tr_score"]

\* The table whose ID the rows of a table hold (creator_ID, mapset_ID, diff_ID).
Parent == [tr_mapset |-> "tr_user", tr_diff |-> "tr_mapset", tr_score |-> "tr_diff"]

\* The name column in a WHERE clause; a score has its counts instead.
NameOf(t, tb) ==
  CASE tb = "tr_user"   -> Key[t].creator
    [] tb = "tr_mod"    -> Key[t].mods
    [] tb = "tr_mapset" -> Key[t].title
    [] tb = "tr_diff"   -> Key[t].diff
    [] tb = "tr_score"  -> ""

\* The WHERE clause of t's SELECT on tb, which is also what its INSERT stores:
\* the parent's ID, the mod's ID, the name, and the great/good/miss counts,
\* for which the number of the call stands (two calls of a task differ in them).
\* (Mutant CondLate: the counts are read after the map has changed again.)
CondLate(t, tb) ==
  [up    |-> IF tb \in DOMAIN Parent THEN ids[t][Parent[tb]] ELSE 0,
   mod   |-> IF tb = "tr_score" THEN ids[t]["tr_mod"] ELSE 0,
   name  |-> NameOf(t, tb),
   count |-> IF tb = "tr_score" THEN round[t] + 1 ELSE 0]
Cond(t, tb) ==
  [up    |-> IF tb \in DOMAIN Parent THEN ids[t][Parent[tb]] ELSE 0,
   mod   |-> IF tb = "tr_score" THEN ids[t]["tr_mod"] ELSE 0,
   name  |-> NameOf(t, tb),
   count |-> IF tb = "tr_score" THEN round[t] ELSE 0]

Exists(tb, id) == id \in DOMAIN rows[tb]

\* The FOREIGN KEY constraints of the InnoDB schema.
ForeignKeysHold(tb, cond) ==
  /\ tb \in DOMAIN Parent => Exists(Parent[tb], cond.up)
  /\ tb = "tr_score" => Exists("tr_mod", cond.mod)

\* What a server with such constraints stores.  (Mutant AcceptsAll: tables of an
\* engine that ignores FOREIGN KEY.)
AcceptsAll(tb, cond) == TRUE
Accepts(tb, cond) == ForeignKeysHold(tb, cond)

\* (Mutant MatchingAnyMod: the mods are missing in the WHERE clause.)
MatchingAnyMod(tb, cond) ==
  {id \in DOMAIN rows[tb] : [rows[tb][id].cond EXCEPT !.mod = cond.mod] = cond}
Matching(tb, cond) == {id \in DOMAIN rows[tb] : rows[tb][id].cond = cond}

\* A statement fails on a table the server does not have, and may fail on any.
MayFail(tb) == tb \notin ServerTables \/ faults < MaxFaults
CountFault(tb) == faults' = IF tb \in ServerTables THEN faults + 1 ELSE faults

-----------------------------------------------------------------------------
(***************************************************************************)
(* trm_db_insert.  step[t] = <<phase, table>>:                             *)
(*   select   about to run the first SELECT of a find-or-insert            *)
(*   store    inside that section, between the query and store_result      *)
(*   insert   no row was found                                             *)
(*   reselect, restore   the SELECT after the INSERT                       *)
(*   update   a score was found                                            *)
(***************************************************************************)
Idle == <<"idle", "tr_user">>
NoIds == [tb \in Table |-> -1]

\* trm_db_insert is called; without a connection it reports and returns.
BeginInsert(t) ==
  /\ step[t] = Idle
  /\ round[t] < MaxRound
  /\ round' = [round EXCEPT ![t] = @ + 1]
  /\ IF connected
     THEN /\ step' = [step EXCEPT ![t] = <<"select", "tr_user">>]
          /\ ids' = [ids EXCEPT ![t] = NoIds]
     ELSE UNCHANGED <<step, ids>>
  /\ UNCHANGED <<critical, connected, result, rows, faults>>

\* The unnamed critical section.  (Mutants: EnterForOne, the pragma without its
\* braces, which ends with the query; EnterUnasked, the section without the
\* pragma; LeaveNever, a return inside the section.)
EnterUnasked(t) == critical' = t
EnterForOne(t) == critical = NoTask /\ UNCHANGED critical
LeaveNever == UNCHANGED critical
EnterSection(t) == critical = NoTask /\ critical' = t
LeaveSection == critical' = NoTask

\* tr_db_get_id: enter the critical section and run the SELECT.
Query(t) ==
  LET tb == step[t][2] IN
  /\ step[t][1] \in {"select", "reselect"}
  /\ EnterSection(t)
  /\ \/ /\ tb \in ServerTables
        /\ result' = Matching(tb, Cond(t, tb))
        /\ UNCHANGED faults
     \/ /\ MayFail(tb)
        /\ result' = {}
        /\ CountFault(tb)
  /\ step' = [step EXCEPT ![t] = <<IF @[1] = "select" THEN "store" ELSE "restore", tb>>]
  /\ UNCHANGED <<connected, rows, ids, round>>

\* What follows a find-or-insert on tb.
AfterTable(tb) == IF tb = "tr_score" THEN Idle ELSE <<"select", NextTable[tb]>>

\* (Mutant InsertAlways: the INSERT is not conditional.)
InsertAlways(tb, id) == <<"insert", tb>>
AfterFirstSelect(tb, id) ==
  IF id < 0 THEN <<"insert", tb>>
  ELSE IF tb = "tr_score" THEN <<"update", tb>> ELSE AfterTable(tb)

\* tr_db_get_id: fetch the first row of the result, in whatever order the
\* server returns the rows, and leave the critical section.
StoreResult(t) ==
  LET tb == step[t][2] IN
  /\ step[t][1] \in {"store", "restore"}
  /\ \E id \in IF result = {} THEN {-1} ELSE result :
       LET next == IF step[t][1] = "store" THEN AfterFirstSelect(tb, id)
                                           ELSE AfterTable(tb)
       IN /\ step' = [step EXCEPT ![t] = next]
          /\ ids' = [ids EXCEPT ![t] = IF next = Idle THEN NoIds ELSE [@ EXCEPT ![tb] = id]]
  /\ result' = {}
  /\ LeaveSection
  /\ UNCHANGED <<connected, rows, round, faults>>

\* The INSERT of a find-or-insert, in a critical section of its own; the
\* server refuses a row whose parents do not exist.
Insert(t) ==
  LET tb == step[t][2] IN
  /\ step[t][1] = "insert"
  /\ critical = NoTask
  /\ \/ /\ tb \in ServerTables
        /\ rows' = IF Accepts(tb, Cond(t, tb))
                   THEN [rows EXCEPT ![tb] = Append(@, [cond |-> Cond(t, tb), by |-> t])]
                   ELSE rows
        /\ UNCHANGED faults
     \/ /\ MayFail(tb)
        /\ CountFault(tb)
        /\ UNCHANGED rows
  /\ step' = [step EXCEPT ![t] = <<"reselect", tb>>]
  /\ UNCHANGED <<critical, connected, result, ids, round>>

\* The UPDATE of a score that was found, by ID.
Update(t) ==
  /\ step[t] = <<"update", "tr_score">>
  /\ critical = NoTask
  /\ \/ /\ rows' = [rows EXCEPT !["tr_score"][ids[t]["tr_score"]].by = t]
        /\ UNCHANGED faults
     \/ /\ MayFail("tr_score")
        /\ CountFault("tr_score")
        /\ UNCHANGED rows
  /\ step' = [step EXCEPT ![t] = Idle]
  /\ ids' = [ids EXCEPT ![t] = NoIds]
  /\ UNCHANGED <<critical, connected, result, round>>

-----------------------------------------------------------------------------
DbInit ==
  /\ critical = NoTask
  /\ connected \in BOOLEAN
  /\ result = {}
  /\ rows = [tb \in Table |-> <<>>]
  /\ step = [t \in Task |-> Idle]
  /\ ids = [t \in Task |-> NoIds]
  /\ round = [t \in Task |-> 0]
  /\ faults = 0

InsertStep(t) == Query(t) \/ StoreResult(t) \/ Insert(t) \/ Update(t)

\* At most one running task per thread.
Active == {t \in Task : step[t] # Idle}
ThreadFree == Cardinality(Active) < Workers

Finished == \A t \in Task : step[t] = Idle /\ round[t] = MaxRound

DbTerminated == Finished /\ UNCHANGED dbvars

DbNext ==
  \/ \E t \in Task : (ThreadFree /\ BeginInsert(t)) \/ InsertStep(t)
  \/ DbTerminated

\* The OpenMP runtime runs every task, and admits a waiting thread into the
\* critical section when it is free: each task runs a bounded number of
\* sections, so weak fairness of each task is enough.
DbFairness == \A t \in Task : WF_dbvars((ThreadFree /\ BeginInsert(t)) \/ InsertStep(t))

DbSpec == DbInit /\ [][DbNext]_dbvars /\ DbFairness

-----------------------------------------------------------------------------
(***************************************************************************)
(* Properties.                                                             *)
(***************************************************************************)
Phase == {"idle", "select", "store", "insert", "reselect", "restore", "update"}

\* The values the variables range over.
CondType == [up : Int, mod : Int, name : Name \cup {""}, count : 0..MaxRound]
DbTypeOK ==
  /\ critical \in Task \cup {NoTask}
  /\ connected \in BOOLEAN
  /\ result \in SUBSET Nat
  /\ rows \in [Table -> Seq([cond : CondType, by : Task])]
  /\ step \in [Task -> Phase \X Table]
  /\ ids \in [Task -> [Table -> Int]]
  /\ round \in [Task -> 0..MaxRound]
  /\ faults \in 0..MaxFaults

\* Every row's parents exist: what the schema promises, on which the ownership
\* properties below rest.
ReferentialIntegrity ==
  \A tb \in Table : \A id \in DOMAIN rows[tb] :
    ForeignKeysHold(tb, rows[tb][id].cond)

\* Row id of a table is about t's own map, through the row's parents.
IsUser(id, t) ==
  Exists("tr_user", id) /\ rows["tr_user"][id].cond.name = Key[t].creator
IsMod(id, t) ==
  Exists("tr_mod", id) /\ rows["tr_mod"][id].cond.name = Key[t].mods
IsMapset(id, t) ==
  /\ Exists("tr_mapset", id)
  /\ LET c == rows["tr_mapset"][id].cond IN c.name = Key[t].title /\ IsUser(c.up, t)
IsDiff(id, t) ==
  /\ Exists("tr_diff", id)
  /\ LET c == rows["tr_diff"][id].cond IN c.name = Key[t].diff /\ IsMapset(c.up, t)
IsScore(id, t) ==
  /\ Exists("tr_score", id)
  /\ LET c == rows["tr_score"][id].cond IN IsDiff(c.up, t) /\ IsMod(c.mod, t)

\* An id a task got from the shared connection is the id of a row about that
\* task's own map, never of the map another task asked about in between: the
\* query and the store_result of tr_db_get_id share one critical section.
IdsAreOwn ==
  \A t \in Task :
    /\ ids[t]["tr_user"]   # -1 => IsUser(ids[t]["tr_user"], t)
    /\ ids[t]["tr_mod"]    # -1 => IsMod(ids[t]["tr_mod"], t)
    /\ ids[t]["tr_mapset"] # -1 => IsMapset(ids[t]["tr_mapset"], t)
    /\ ids[t]["tr_diff"]   # -1 => IsDiff(ids[t]["tr_diff"], t)
    /\ ids[t]["tr_score"]  # -1 => IsScore(ids[t]["tr_score"], t)

\* A score row was last written by a task that rated that very diff with
\* those very mods: no UPDATE lands on the score of another map, and no score
\* hangs on a diff, mapset or creator that could not be stored, though tr_db.c
\* goes on with the id -1 after a find-or-insert that failed.
ScoresAreOwn ==
  \A s \in DOMAIN rows["tr_score"] : IsScore(s, rows["tr_score"][s].by)

\* The check-then-insert race: a row can be there several times, but only
\* once per thread and once more per failed query.  With one thread and no
\* failure rows are unique.
DuplicatesBounded ==
  \A tb \in Table : \A id \in DOMAIN rows[tb] :
    Cardinality(Matching(tb, rows[tb][id].cond)) <= Workers + faults

\* A finished call of trm_db_insert has stored its rating, when the connection
\* is up and no query failed ("store results in the database", the README).
Stored(t, r) ==
  \E s \in DOMAIN rows["tr_score"] :
    IsScore(s, t) /\ rows["tr_score"][s].cond.count = r
ResultsStored ==
  connected /\ faults = 0 =>
    \A t \in Task : \A r \in Round :
      (r < round[t] \/ (r = round[t] /\ step[t] = Idle)) => Stored(t, r)

\* Every task gets through all its insertions: no task waits for ever at the
\* critical section it shares with the others.
AllFinish == <>Finished
=============================================================================
