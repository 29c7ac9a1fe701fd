---------------------------- MODULE TrDbProofs ----------------------------
(***************************************************************************)
(* Proofs about TrDb, for any tasks, maps, number of threads, rounds and   *)
(* failures, and whatever tables the server has.                           *)
(***************************************************************************)
EXTENDS TrDb, SequenceTheorems, FiniteSetTheorems, TLAPS

-----------------------------------------------------------------------------
(***************************************************************************)
(* The tables.                                                             *)
(***************************************************************************)

\* Which tables have a parent, and which one (the *_ID columns of tr_db.c).
LEMMA ParentFacts ==
  /\ DOMAIN Parent = {"tr_mapset", "tr_diff", "tr_score"}
  /\ Parent["tr_mapset"] = "tr_user"
  /\ Parent["tr_diff"] = "tr_mapset"
  /\ Parent["tr_score"] = "tr_diff"
BY DEF Parent

\* What a SELECT asks for, table by table.
LEMMA CondFacts ==
  ASSUME NEW t \in Task
  PROVE  /\ Cond(t, "tr_user") = [up |-> 0, mod |-> 0, name |-> Key[t].creator, count |-> 0]
         /\ Cond(t, "tr_mod") = [up |-> 0, mod |-> 0, name |-> Key[t].mods, count |-> 0]
         /\ Cond(t, "tr_mapset") =
              [up |-> ids[t]["tr_user"], mod |-> 0, name |-> Key[t].title, count |-> 0]
         /\ Cond(t, "tr_diff") =
              [up |-> ids[t]["tr_mapset"], mod |-> 0, name |-> Key[t].diff, count |-> 0]
         /\ Cond(t, "tr_score") =
              [up |-> ids[t]["tr_diff"], mod |-> ids[t]["tr_mod"], name |-> "",
               count |-> round[t]]
BY ParentFacts DEF Cond, NameOf

LEMMA CondFields ==
  ASSUME NEW t \in Task
  PROVE  /\ Cond(t, "tr_user").name = Key[t].creator
         /\ Cond(t, "tr_mod").name = Key[t].mods
         /\ Cond(t, "tr_mapset").name = Key[t].title
         /\ Cond(t, "tr_mapset").up = ids[t]["tr_user"]
         /\ Cond(t, "tr_diff").name = Key[t].diff
         /\ Cond(t, "tr_diff").up = ids[t]["tr_mapset"]
         /\ Cond(t, "tr_score").up = ids[t]["tr_diff"]
         /\ Cond(t, "tr_score").mod = ids[t]["tr_mod"]
         /\ Cond(t, "tr_score").count = round[t]
BY ParentFacts DEF Cond, NameOf

LEMMA CondTypeIntro ==
  ASSUME NEW up \in Int, NEW mod \in Int, NEW name \in Name, NEW count \in 0..MaxRound
  PROVE  /\ [up |-> up, mod |-> mod, name |-> name, count |-> count] \in CondType
         /\ [up |-> up, mod |-> mod, name |-> "", count |-> count] \in CondType
BY DEF CondType

LEMMA CondInType ==
  ASSUME DbTypeOK, NEW t \in Task, NEW tb \in Table
  PROVE  Cond(t, tb) \in CondType
<1>1. Key[t] \in [creator : Name, title : Name, diff : Name, mods : Name]
  BY TrDbAssumption
<1>2. /\ Key[t].creator \in Name /\ Key[t].title \in Name
      /\ Key[t].diff \in Name /\ Key[t].mods \in Name
  BY <1>1
<1>3. /\ ids[t] \in [Table -> Int] /\ round[t] \in 0..MaxRound
      /\ 0 \in 0..MaxRound /\ 0 \in Int
  BY TrDbAssumption DEF DbTypeOK
<1>4. /\ ids[t]["tr_user"] \in Int /\ ids[t]["tr_mod"] \in Int /\ ids[t]["tr_mapset"] \in Int
      /\ ids[t]["tr_diff"] \in Int
  BY <1>3 DEF Table
<1>5. Cond(t, "tr_user") \in CondType /\ Cond(t, "tr_mod") \in CondType
  BY <1>2, <1>3, CondTypeIntro, CondFacts, Zenon
<1>6. Cond(t, "tr_mapset") \in CondType
  <2>1. [up |-> ids[t]["tr_user"], mod |-> 0, name |-> Key[t].title, count |-> 0] \in CondType
    BY <1>2, <1>3, <1>4, CondTypeIntro, Zenon
  <2>. QED
    BY <2>1, CondFacts
<1>7. Cond(t, "tr_diff") \in CondType
  <2>1. [up |-> ids[t]["tr_mapset"], mod |-> 0, name |-> Key[t].diff, count |-> 0] \in CondType
    BY <1>2, <1>3, <1>4, CondTypeIntro, Zenon
  <2>. QED
    BY <2>1, CondFacts
<1>8. Cond(t, "tr_score") \in CondType
  BY <1>2, <1>3, <1>4, CondTypeIntro, CondFacts, Zenon
<1>. QED
  BY <1>5, <1>6, <1>7, <1>8 DEF Table

-----------------------------------------------------------------------------
(***************************************************************************)
(* Types.                                                                  *)
(***************************************************************************)
Row == [cond : CondType, by : Task]

LEMMA NextTableType ==
  /\ \A tb \in Table \ {"tr_score"} : NextTable[tb] \in Table
  /\ \A tb \in Table : AfterTable(tb) \in Phase \X Table
  /\ \A tb \in Table, id \in Int : AfterFirstSelect(tb, id) \in Phase \X Table
<1>1. \A tb \in Table \ {"tr_score"} : NextTable[tb] \in Table
  BY DEF NextTable, Table
<1>2. \A tb \in Table : AfterTable(tb) \in Phase \X Table
  BY <1>1 DEF AfterTable, Idle, Phase, Table
<1>3. \A tb \in Table, id \in Int : AfterFirstSelect(tb, id) \in Phase \X Table
  BY <1>2 DEF AfterFirstSelect, Phase, Table
<1>. QED
  BY <1>1, <1>2, <1>3

\* The values the variables range over are kept by every step.
LEMMA TypeInit == DbInit => DbTypeOK
<1>1. ASSUME DbInit PROVE rows \in [Table -> Seq(Row)]
  BY <1>1 DEF DbInit
<1>2. ASSUME DbInit PROVE step \in [Task -> Phase \X Table]
  BY <1>2 DEF DbInit, Idle, Phase, Table
<1>3. ASSUME DbInit PROVE ids \in [Task -> [Table -> Int]]
  BY <1>3 DEF DbInit, NoIds
<1>. QED
  BY <1>1, <1>2, <1>3, TrDbAssumption DEF DbInit, DbTypeOK, Row

LEMMA MatchingType ==
  ASSUME DbTypeOK, NEW tb \in Table, NEW cond
  PROVE  Matching(tb, cond) \subseteq Nat /\ Matching(tb, cond) \subseteq DOMAIN rows[tb]
<1>1. rows[tb] \in Seq(Row)
  BY DEF DbTypeOK, Row
<1>2. DOMAIN rows[tb] = 1..Len(rows[tb]) /\ Len(rows[tb]) \in Nat
  BY <1>1
<1>. QED
  BY <1>2 DEF Matching

LEMMA FaultsType ==
  ASSUME DbTypeOK, NEW tb, MayFail(tb), CountFault(tb)
  PROVE  faults' \in 0..MaxFaults
BY TrDbAssumption DEF DbTypeOK, MayFail, CountFault

LEMMA TypeBeginInsert ==
  ASSUME DbTypeOK, NEW t \in Task, BeginInsert(t)
  PROVE  DbTypeOK'
<1>1. step' \in [Task -> Phase \X Table]
  <2>1. <<"select", "tr_user">> \in Phase \X Table
    BY DEF Phase, Table
  <2>. QED
    BY <2>1, Zenon DEF DbTypeOK, BeginInsert
<1>2. ids' \in [Task -> [Table -> Int]]
  <2>1. NoIds \in [Table -> Int]
    BY DEF NoIds
  <2>. QED
    BY <2>1, Zenon DEF DbTypeOK, BeginInsert
<1>3. round' \in [Task -> 0..MaxRound]
  BY TrDbAssumption DEF DbTypeOK, BeginInsert
<1>. QED
  BY <1>1, <1>2, <1>3 DEF DbTypeOK, BeginInsert

LEMMA TypeQuery ==
  ASSUME DbTypeOK, NEW t \in Task, Query(t)
  PROVE  DbTypeOK'
<1>. DEFINE tb == step[t][2]
<1>1. tb \in Table
  BY DEF DbTypeOK
<1>2. step' \in [Task -> Phase \X Table]
  BY <1>1 DEF DbTypeOK, Query, Phase
<1>3. result' \in SUBSET Nat
  BY <1>1, MatchingType DEF Query
<1>4. faults' \in 0..MaxFaults
  BY FaultsType DEF Query, DbTypeOK
<1>. QED
  BY <1>2, <1>3, <1>4 DEF DbTypeOK, Query, EnterSection

LEMMA TypeStoreResult ==
  ASSUME DbTypeOK, NEW t \in Task, StoreResult(t)
  PROVE  DbTypeOK'
<1>. DEFINE tb == step[t][2]
<1>1. tb \in Table
  BY DEF DbTypeOK
<1>2. PICK id \in IF result = {} THEN {-1} ELSE result :
        LET next == IF step[t][1] = "store" THEN AfterFirstSelect(tb, id) ELSE AfterTable(tb)
        IN /\ step' = [step EXCEPT ![t] = next]
           /\ ids' = [ids EXCEPT ![t] = IF next = Idle THEN NoIds ELSE [@ EXCEPT ![tb] = id]]
  BY DEF StoreResult
<1>3. id \in Int
  BY DEF DbTypeOK
<1>4. step' \in [Task -> Phase \X Table]
  BY <1>1, <1>2, <1>3, NextTableType DEF DbTypeOK
<1>5. ids' \in [Task -> [Table -> Int]]
  BY <1>1, <1>2, <1>3 DEF DbTypeOK, NoIds
<1>. QED
  BY <1>4, <1>5 DEF DbTypeOK, StoreResult, LeaveSection

LEMMA TypeInsert ==
  ASSUME DbTypeOK, NEW t \in Task, Insert(t)
  PROVE  DbTypeOK'
<1>. DEFINE tb == step[t][2]
<1>1. tb \in Table /\ rows[tb] \in Seq(Row)
  BY DEF DbTypeOK, Row
<1>2. [cond |-> Cond(t, tb), by |-> t] \in Row
  BY <1>1, CondInType DEF Row
<1>3. Append(rows[tb], [cond |-> Cond(t, tb), by |-> t]) \in Seq(Row)
  BY <1>1, <1>2, AppendProperties
<1>4. rows' \in [Table -> Seq(Row)]
  BY <1>1, <1>3 DEF DbTypeOK, Insert, Row
<1>5. step' \in [Task -> Phase \X Table]
  BY <1>1 DEF DbTypeOK, Insert, Phase
<1>6. faults' \in 0..MaxFaults
  BY FaultsType DEF Insert, DbTypeOK
<1>. QED
  BY <1>4, <1>5, <1>6 DEF DbTypeOK, Insert, Row

LEMMA TypeUpdate ==
  ASSUME DbTypeOK, NEW t \in Task, Update(t)
  PROVE  DbTypeOK'
<1>. DEFINE s == ids[t]["tr_score"]
           scores == rows["tr_score"]
<1>1. scores \in Seq(Row)
  BY DEF DbTypeOK, Row, Table
<1>2. [scores EXCEPT ![s].by = t] \in Seq(Row)
  <2>1. DOMAIN scores = 1..Len(scores)
    BY <1>1
  <2>2. CASE s \in DOMAIN scores
    <3>1. scores[s] \in Row
      BY <1>1, <2>1, <2>2, ElementOfSeq
    <3>2. [scores[s] EXCEPT !.by = t] \in Row
      BY <3>1 DEF Row
    <3>3. [scores EXCEPT ![s] = [scores[s] EXCEPT !.by = t]] \in Seq(Row)
      BY <1>1, <2>1, <2>2, <3>2, ExceptSeq
    <3>. QED
      BY <3>3
  <2>3. CASE s \notin DOMAIN scores
    <3>1. [scores EXCEPT ![s].by = t] = scores
      BY <1>1, <2>3
    <3>. QED
      BY <1>1, <3>1
  <2>. QED
    BY <2>2, <2>3
<1>3. rows' \in [Table -> Seq(Row)]
  BY <1>2 DEF DbTypeOK, Update, Row, Table
<1>4. step' \in [Task -> Phase \X Table]
  BY DEF DbTypeOK, Update, Idle, Phase, Table
<1>5. faults' \in 0..MaxFaults
  BY FaultsType DEF Update, DbTypeOK
<1>6. ids' \in [Task -> [Table -> Int]]
  BY DEF DbTypeOK, Update, NoIds
<1>. QED
  BY <1>3, <1>4, <1>5, <1>6 DEF DbTypeOK, Update, Row

LEMMA TypeNext == DbTypeOK /\ [DbNext]_dbvars => DbTypeOK'
<1>. SUFFICES ASSUME DbTypeOK, [DbNext]_dbvars PROVE DbTypeOK'
  OBVIOUS
<1>1. CASE UNCHANGED dbvars
  BY <1>1 DEF dbvars, DbTypeOK
<1>2. ASSUME NEW t \in Task, BeginInsert(t) PROVE DbTypeOK'
  BY <1>2, TypeBeginInsert
<1>3. ASSUME NEW t \in Task, InsertStep(t) PROVE DbTypeOK'
  BY <1>3, TypeQuery, TypeStoreResult, TypeInsert, TypeUpdate DEF InsertStep
<1>. QED
  BY <1>1, <1>2, <1>3 DEF DbNext, DbTerminated

\* The variables keep their types, whatever fails.
THEOREM TypeCorrect == DbSpec => []DbTypeOK
<1>. QED
  BY TypeInit, TypeNext, PTL DEF DbSpec

-----------------------------------------------------------------------------
(***************************************************************************)
(* The inductive invariant.                                                *)
(***************************************************************************)

\* Who is between its query and its store_result, and what is pending for it.
Section ==
  /\ \A t \in Task : step[t][1] \in {"store", "restore"} <=> critical = t
  /\ \A t \in Task : critical = t => result \subseteq Matching(step[t][2], Cond(t, step[t][2]))
  /\ \A t \in Task : step[t][1] = "update" => ids[t]["tr_score"] # -1

Inv == DbTypeOK /\ Section /\ ReferentialIntegrity /\ IdsAreOwn /\ ScoresAreOwn

\* No statement of the program removes a row or changes what identifies it.
RowsKept ==
  \A tb \in Table : \A id \in DOMAIN rows[tb] :
    id \in DOMAIN rows'[tb] /\ rows'[tb][id].cond = rows[tb][id].cond

LEMMA RowIds ==
  ASSUME DbTypeOK, NEW tb \in Table
  PROVE  /\ rows[tb] \in Seq(Row)
         /\ DOMAIN rows[tb] = 1..Len(rows[tb])
         /\ Len(rows[tb]) \in Nat
         /\ -1 \notin DOMAIN rows[tb] /\ 0 \notin DOMAIN rows[tb]
<1>1. rows[tb] \in Seq(Row)
  BY DEF DbTypeOK, Row
<1>. QED
  BY <1>1

LEMMA OwnStable ==
  ASSUME RowsKept, NEW t \in Task, NEW id
  PROVE  /\ IsUser(id, t) => IsUser(id, t)'
         /\ IsMod(id, t) => IsMod(id, t)'
         /\ IsMapset(id, t) => IsMapset(id, t)'
         /\ IsDiff(id, t) => IsDiff(id, t)'
         /\ IsScore(id, t) => IsScore(id, t)'
<1>1. \A i : IsUser(i, t) => IsUser(i, t)'
  BY DEF RowsKept, IsUser, Exists, Table
<1>2. \A i : IsMod(i, t) => IsMod(i, t)'
  BY DEF RowsKept, IsMod, Exists, Table
<1>3. \A i : IsMapset(i, t) => IsMapset(i, t)'
  BY <1>1 DEF RowsKept, IsMapset, Exists, Table
<1>4. \A i : IsDiff(i, t) => IsDiff(i, t)'
  BY <1>3 DEF RowsKept, IsDiff, Exists, Table
<1>5. \A i : IsScore(i, t) => IsScore(i, t)'
  BY <1>2, <1>4 DEF RowsKept, IsScore, Exists, Table
<1>. QED
  BY <1>1, <1>2, <1>3, <1>4, <1>5

LEMMA KeysStable ==
  ASSUME RowsKept, NEW tb \in Table, NEW cond, ForeignKeysHold(tb, cond)
  PROVE  ForeignKeysHold(tb, cond)'
<1>1. \A p \in Table : \A id : Exists(p, id) => Exists(p, id)'
  BY DEF RowsKept, Exists
<1>2. tb \in DOMAIN Parent => Parent[tb] \in Table
  BY ParentFacts DEF Table
<1>. QED
  BY <1>1, <1>2 DEF ForeignKeysHold, Table

\* A row that answers a task's SELECT, and whose parents exist, is about the
\* task's own map if the ids in the SELECT were.
LEMMA AnswerIsOwn ==
  ASSUME DbTypeOK, IdsAreOwn, NEW t \in Task, NEW id
  PROVE  /\ (/\ Exists("tr_user", id)
             /\ rows["tr_user"][id].cond = Cond(t, "tr_user")) => IsUser(id, t)
         /\ (/\ Exists("tr_mod", id)
             /\ rows["tr_mod"][id].cond = Cond(t, "tr_mod")) => IsMod(id, t)
         /\ (/\ Exists("tr_mapset", id)
             /\ rows["tr_mapset"][id].cond = Cond(t, "tr_mapset")
             /\ ForeignKeysHold("tr_mapset", Cond(t, "tr_mapset"))) => IsMapset(id, t)
         /\ (/\ Exists("tr_diff", id)
             /\ rows["tr_diff"][id].cond = Cond(t, "tr_diff")
             /\ ForeignKeysHold("tr_diff", Cond(t, "tr_diff"))) => IsDiff(id, t)
         /\ (/\ Exists("tr_score", id)
             /\ rows["tr_score"][id].cond = Cond(t, "tr_score")
             /\ ForeignKeysHold("tr_score", Cond(t, "tr_score"))) => IsScore(id, t)
<1>1. /\ ForeignKeysHold("tr_mapset", Cond(t, "tr_mapset")) => IsUser(ids[t]["tr_user"], t)
  <2>1. Cond(t, "tr_mapset").up = ids[t]["tr_user"]
    BY CondFields
  <2>2. ForeignKeysHold("tr_mapset", Cond(t, "tr_mapset")) => Exists("tr_user", ids[t]["tr_user"])
    BY <2>1, ParentFacts DEF ForeignKeysHold
  <2>. QED
    BY <2>2, RowIds DEF IdsAreOwn, Exists, Table
<1>2. /\ ForeignKeysHold("tr_diff", Cond(t, "tr_diff")) => IsMapset(ids[t]["tr_mapset"], t)
  <2>1. Cond(t, "tr_diff").up = ids[t]["tr_mapset"]
    BY CondFields
  <2>2. ForeignKeysHold("tr_diff", Cond(t, "tr_diff")) => Exists("tr_mapset", ids[t]["tr_mapset"])
    BY <2>1, ParentFacts DEF ForeignKeysHold
  <2>. QED
    BY <2>2, RowIds DEF IdsAreOwn, Exists, Table
<1>3. ForeignKeysHold("tr_score", Cond(t, "tr_score")) =>
        IsDiff(ids[t]["tr_diff"], t) /\ IsMod(ids[t]["tr_mod"], t)
  <2>1. Cond(t, "tr_score").up = ids[t]["tr_diff"] /\ Cond(t, "tr_score").mod = ids[t]["tr_mod"]
    BY CondFields
  <2>2. ForeignKeysHold("tr_score", Cond(t, "tr_score")) =>
          Exists("tr_diff", ids[t]["tr_diff"]) /\ Exists("tr_mod", ids[t]["tr_mod"])
    BY <2>1, ParentFacts DEF ForeignKeysHold
  <2>. QED
    BY <2>2, RowIds DEF IdsAreOwn, Exists, Table
<1>4. /\ (Exists("tr_user", id) /\ rows["tr_user"][id].cond = Cond(t, "tr_user")) => IsUser(id, t)
      /\ (Exists("tr_mod", id) /\ rows["tr_mod"][id].cond = Cond(t, "tr_mod")) => IsMod(id, t)
  BY CondFields DEF IsUser, IsMod
<1>5. (/\ Exists("tr_mapset", id)
       /\ rows["tr_mapset"][id].cond = Cond(t, "tr_mapset")
       /\ ForeignKeysHold("tr_mapset", Cond(t, "tr_mapset"))) => IsMapset(id, t)
  BY <1>1, CondFields DEF IsMapset
<1>6. (/\ Exists("tr_diff", id)
       /\ rows["tr_diff"][id].cond = Cond(t, "tr_diff")
       /\ ForeignKeysHold("tr_diff", Cond(t, "tr_diff"))) => IsDiff(id, t)
  BY <1>2, CondFields DEF IsDiff
<1>7. (/\ Exists("tr_score", id)
       /\ rows["tr_score"][id].cond = Cond(t, "tr_score")
       /\ ForeignKeysHold("tr_score", Cond(t, "tr_score"))) => IsScore(id, t)
  BY <1>3, CondFields DEF IsScore
<1>. QED
  BY <1>4, <1>5, <1>6, <1>7

-----------------------------------------------------------------------------
(***************************************************************************)
(* The steps keep the invariant.                                           *)
(***************************************************************************)

\* Row id of table tb is about t's own map.
Own(id, t, tb) ==
  /\ tb = "tr_user"   => IsUser(id, t)
  /\ tb = "tr_mod"    => IsMod(id, t)
  /\ tb = "tr_mapset" => IsMapset(id, t)
  /\ tb = "tr_diff"   => IsDiff(id, t)
  /\ tb = "tr_score"  => IsScore(id, t)

LEMMA IdsAreOwnTables ==
  IdsAreOwn <=> \A t \in Task, tb \in Table : ids[t][tb] # -1 => Own(ids[t][tb], t, tb)
BY DEF IdsAreOwn, Own, Table

LEMMA IdsAreOwnTablesNext ==
  ASSUME \A t \in Task, tb \in Table : \A id : id = ids'[t][tb] /\ id # -1 => Own(id, t, tb)'
  PROVE  IdsAreOwn'
<1>1. \A t \in Task : \A id : id = ids'[t]["tr_user"] /\ id # -1 => IsUser(id, t)'
  BY DEF Own, Table
<1>2. \A t \in Task : \A id : id = ids'[t]["tr_mod"] /\ id # -1 => IsMod(id, t)'
  BY DEF Own, Table
<1>3. \A t \in Task : \A id : id = ids'[t]["tr_mapset"] /\ id # -1 => IsMapset(id, t)'
  BY DEF Own, Table
<1>4. \A t \in Task : \A id : id = ids'[t]["tr_diff"] /\ id # -1 => IsDiff(id, t)'
  BY DEF Own, Table
<1>5. \A t \in Task : \A id : id = ids'[t]["tr_score"] /\ id # -1 => IsScore(id, t)'
  BY DEF Own, Table
<1>. SUFFICES ASSUME NEW t \in Task
              PROVE  /\ (ids[t]["tr_user"]   # -1 => IsUser(ids[t]["tr_user"], t))'
                     /\ (ids[t]["tr_mod"]    # -1 => IsMod(ids[t]["tr_mod"], t))'
                     /\ (ids[t]["tr_mapset"] # -1 => IsMapset(ids[t]["tr_mapset"], t))'
                     /\ (ids[t]["tr_diff"]   # -1 => IsDiff(ids[t]["tr_diff"], t))'
                     /\ (ids[t]["tr_score"]  # -1 => IsScore(ids[t]["tr_score"], t))'
  BY DEF IdsAreOwn
<1>6. (ids[t]["tr_user"] # -1 => IsUser(ids[t]["tr_user"], t))'
  BY <1>1 DEF IsUser
<1>7. (ids[t]["tr_mod"] # -1 => IsMod(ids[t]["tr_mod"], t))'
  BY <1>2 DEF IsMod
<1>8. (ids[t]["tr_mapset"] # -1 => IsMapset(ids[t]["tr_mapset"], t))'
  BY <1>3 DEF IsMapset
<1>9. (ids[t]["tr_diff"] # -1 => IsDiff(ids[t]["tr_diff"], t))'
  BY <1>4 DEF IsDiff
<1>10. (ids[t]["tr_score"] # -1 => IsScore(ids[t]["tr_score"], t))'
  BY <1>5 DEF IsScore
<1>. QED
  BY <1>6, <1>7, <1>8, <1>9, <1>10

\* Ids that stay the same, or are forgotten, stay the task's own.
LEMMA IdsKept ==
  ASSUME Inv, RowsKept,
         \A t \in Task, tb \in Table :
           ids'[t][tb] # -1 => \/ ids'[t][tb] = ids[t][tb]
                               \/ \E id : id = ids'[t][tb] /\ Own(id, t, tb)'
  PROVE  IdsAreOwn'
<1>1. \A t \in Task, tb \in Table : \A id : Own(id, t, tb) => Own(id, t, tb)'
  BY OwnStable DEF Own
<1>2. \A t \in Task, tb \in Table : ids[t][tb] # -1 => Own(ids[t][tb], t, tb)
  BY IdsAreOwnTables DEF Inv
<1>3. \A t \in Task, tb \in Table : \A id : id = ids'[t][tb] /\ id # -1 => Own(id, t, tb)'
  BY <1>1, <1>2
<1>. QED
  BY <1>3, IdsAreOwnTablesNext

\* While the rows are the same, so are the integrity of the tables, the owners
\* of the scores and what matches a condition.
LEMMA SameRows ==
  ASSUME Inv, rows' = rows
  PROVE  RowsKept /\ ReferentialIntegrity' /\ ScoresAreOwn'
<1>1. RowsKept
  BY DEF RowsKept
<1>2. ReferentialIntegrity'
  BY DEF Inv, ReferentialIntegrity, ForeignKeysHold, Exists
<1>3. ScoresAreOwn'
  <2>. SUFFICES ASSUME NEW s \in DOMAIN rows["tr_score"]
                PROVE  IsScore(s, rows["tr_score"][s].by)'
    BY DEF ScoresAreOwn
  <2>1. IsScore(s, rows["tr_score"][s].by)
    BY DEF Inv, ScoresAreOwn
  <2>. QED
    BY <2>1 DEF IsScore, IsDiff, IsMapset, IsUser, IsMod, Exists
<1>. QED
  BY <1>1, <1>2, <1>3

LEMMA InvBeginInsert ==
  ASSUME Inv, NEW t \in Task, BeginInsert(t)
  PROVE  Section' /\ ReferentialIntegrity' /\ IdsAreOwn' /\ ScoresAreOwn'
<1>1. RowsKept /\ ReferentialIntegrity' /\ ScoresAreOwn'
  BY SameRows DEF BeginInsert
<1>2. IdsAreOwn'
  <2>1. \A u \in Task : ids'[u] = ids[u] \/ ids'[u] = NoIds
    BY DEF BeginInsert, Inv, DbTypeOK
  <2>2. \A tb \in Table : NoIds[tb] = -1
    BY DEF NoIds
  <2>. QED
    BY <1>1, <2>1, <2>2, IdsKept
<1>3. step[t] = Idle /\ step' \in [Task -> Phase \X Table]
  BY TypeBeginInsert DEF BeginInsert, Inv, DbTypeOK
<1>4. step'[t] \in {Idle, <<"select", "tr_user">>} /\ \A u \in Task \ {t} : step'[u] = step[u]
  BY <1>3 DEF BeginInsert, Inv, DbTypeOK
<1>5. critical' = critical /\ critical # t /\ result' = result /\ rows' = rows
  BY <1>3 DEF BeginInsert, Inv, Section, Idle
<1>6. \A u \in Task \ {t} : ids'[u] = ids[u] /\ round'[u] = round[u]
  BY DEF BeginInsert, Inv, DbTypeOK
<1>7. Section'
  <2>1. \A u \in Task : step'[u][1] \in {"store", "restore"} <=> critical' = u
    BY <1>4, <1>5 DEF Inv, Section, Idle
  <2>2. ASSUME NEW u \in Task, critical' = u
        PROVE  result' \subseteq Matching(step[u][2], Cond(u, step[u][2]))'
    <3>1. u # t
      BY <2>2, <1>5
    <3>2. Cond(u, step[u][2])' = Cond(u, step[u][2])
      <4>1. step'[u] = step[u]
        BY <3>1, <1>4
      <4>. QED
        BY <3>1, <1>6, <4>1 DEF Cond
    <3>. QED
      BY <2>2, <1>4, <1>5, <3>1, <3>2 DEF Inv, Section, Matching
  <2>3. \A u \in Task : step'[u][1] = "update" => ids'[u]["tr_score"] # -1
    BY <1>4, <1>6 DEF Inv, Section, Idle
  <2>. QED
    BY <2>1, <2>2, <2>3 DEF Section
<1>. QED
  BY <1>1, <1>2, <1>7

LEMMA InvQuery ==
  ASSUME Inv, NEW t \in Task, Query(t)
  PROVE  Section' /\ ReferentialIntegrity' /\ IdsAreOwn' /\ ScoresAreOwn'
<1>1. RowsKept /\ ReferentialIntegrity' /\ ScoresAreOwn'
  BY SameRows DEF Query
<1>2. IdsAreOwn'
  BY <1>1, IdsKept DEF Query
<1>. DEFINE tb == step[t][2]
<1>3. /\ critical = NoTask /\ critical' = t /\ NoTask \notin Task
      /\ ids' = ids /\ round' = round /\ rows' = rows
      /\ result' \subseteq Matching(tb, Cond(t, tb))
  BY TrDbAssumption DEF Query, EnterSection
<1>4. /\ step'[t][1] \in {"store", "restore"} /\ step'[t][2] = tb
      /\ \A u \in Task \ {t} : step'[u] = step[u]
  BY DEF Query, Inv, DbTypeOK
<1>5. \A u \in Task : step'[u][1] \in {"store", "restore"} <=> critical' = u
  BY <1>3, <1>4 DEF Inv, Section
<1>6. ASSUME NEW u \in Task, critical' = u
      PROVE  result' \subseteq Matching(step[u][2], Cond(u, step[u][2]))'
  <2>1. u = t /\ step'[u][2] = step[u][2]
    BY <1>3, <1>4, <1>6
  <2>2. Cond(u, step[u][2])' = Cond(u, step[u][2])
    BY <2>1, <1>3 DEF Cond
  <2>. QED
    BY <2>1, <2>2, <1>3 DEF Matching
<1>7. \A u \in Task : step'[u][1] = "update" => ids'[u]["tr_score"] # -1
  BY <1>3, <1>4 DEF Inv, Section
<1>. QED
  BY <1>1, <1>2, <1>5, <1>6, <1>7 DEF Section

\* What answers a task's SELECT on a table is about its own map.
LEMMA AnswerOwn ==
  ASSUME Inv, NEW t \in Task, NEW tb \in Table, NEW id \in Matching(tb, Cond(t, tb))
  PROVE  Own(id, t, tb)
<1>1. Exists(tb, id) /\ rows[tb][id].cond = Cond(t, tb)
  BY DEF Matching, Exists
<1>2. ForeignKeysHold(tb, Cond(t, tb))
  BY <1>1 DEF Inv, ReferentialIntegrity, Exists
<1>3. CASE tb = "tr_user"
  BY <1>1, <1>2, <1>3, AnswerIsOwn DEF Inv, Own
<1>4. CASE tb = "tr_mod"
  BY <1>1, <1>2, <1>4, AnswerIsOwn DEF Inv, Own
<1>5. CASE tb = "tr_mapset"
  BY <1>1, <1>2, <1>5, AnswerIsOwn DEF Inv, Own
<1>6. CASE tb = "tr_diff"
  BY <1>1, <1>2, <1>6, AnswerIsOwn DEF Inv, Own
<1>7. CASE tb = "tr_score"
  BY <1>1, <1>2, <1>7, AnswerIsOwn DEF Inv, Own
<1>. QED
  BY <1>3, <1>4, <1>5, <1>6, <1>7 DEF Table

LEMMA InvStoreResult ==
  ASSUME Inv, NEW t \in Task, StoreResult(t)
  PROVE  Section' /\ ReferentialIntegrity' /\ IdsAreOwn' /\ ScoresAreOwn'
<1>. DEFINE tb == step[t][2]
<1>1. RowsKept /\ ReferentialIntegrity' /\ ScoresAreOwn'
  BY SameRows DEF StoreResult
<1>2. PICK id \in IF result = {} THEN {-1} ELSE result :
        LET next == IF step[t][1] = "store" THEN AfterFirstSelect(tb, id) ELSE AfterTable(tb)
        IN /\ step' = [step EXCEPT ![t] = next]
           /\ ids' = [ids EXCEPT ![t] = IF next = Idle THEN NoIds ELSE [@ EXCEPT ![tb] = id]]
  BY DEF StoreResult
<1>. DEFINE next == IF step[t][1] = "store" THEN AfterFirstSelect(tb, id) ELSE AfterTable(tb)
<1>3. /\ tb \in Table /\ id \in Int /\ critical = t /\ critical' = NoTask
      /\ result' = {} /\ rows' = rows /\ NoTask \notin Task
  BY TrDbAssumption DEF StoreResult, LeaveSection, Inv, DbTypeOK, Section
<1>4. /\ step'[t] = next /\ ids'[t] = IF next = Idle THEN NoIds ELSE [ids[t] EXCEPT ![tb] = id]
      /\ \A u \in Task \ {t} : step'[u] = step[u] /\ ids'[u] = ids[u]
  BY <1>2 DEF Inv, DbTypeOK
<1>5. id # -1 => Own(id, t, tb)
  BY <1>2, <1>3, AnswerOwn DEF Inv, Section
<1>6. IdsAreOwn'
  <2>1. ids[t] \in [Table -> Int] /\ \A x \in Table : NoIds[x] = -1
    BY DEF Inv, DbTypeOK, NoIds
  <2>2. \A x \in Table : \A i : Own(i, t, x) => Own(i, t, x)'
    BY <1>1, OwnStable DEF Own
  <2>3. ASSUME NEW x \in Table, ids'[t][x] # -1, ids'[t][x] # ids[t][x]
        PROVE  x = tb /\ ids'[t][x] = id
    BY <1>4, <2>1, <2>3
  <2>4. ASSUME NEW u \in Task, NEW x \in Table, ids'[u][x] # -1
        PROVE  \/ ids'[u][x] = ids[u][x]
               \/ \E i : i = ids'[u][x] /\ Own(i, u, x)'
    <3>1. CASE u # t
      BY <3>1, <1>4
    <3>2. CASE u = t /\ ids'[t][x] # ids[t][x]
      <4>1. x = tb /\ ids'[t][x] = id /\ id # -1
        BY <2>3, <2>4, <3>2
      <4>2. Own(id, u, x)
        BY <1>5, <3>2, <4>1
      <4>3. \A i : i = ids'[u][x] => Own(i, u, x)'
        BY <2>2, <3>2, <4>1, <4>2
      <4>. QED
        BY <4>3
    <3>. QED
      BY <3>1, <3>2
  <2>. QED
    BY <1>1, <2>4, IdsKept
<1>7. next[1] \notin {"store", "restore"} /\ (next[1] = "update" => tb = "tr_score" /\ id # -1)
  <2>1. AfterTable(tb)[1] \in {"idle", "select"}
    BY DEF AfterTable, Idle
  <2>2. /\ AfterFirstSelect(tb, id)[1] \in {"idle", "select", "insert", "update"}
        /\ AfterFirstSelect(tb, id)[1] = "update" => tb = "tr_score" /\ ~ id < 0
    BY <2>1 DEF AfterFirstSelect
  <2>. QED
    BY <2>1, <2>2, <1>3
<1>8. Section'
  <2>1. \A u \in Task : step'[u][1] \in {"store", "restore"} <=> critical' = u
    BY <1>3, <1>4, <1>7 DEF Inv, Section
  <2>2. ASSUME NEW u \in Task, critical' = u
        PROVE  result' \subseteq Matching(step[u][2], Cond(u, step[u][2]))'
    BY <1>3
  <2>3. ASSUME NEW u \in Task, step'[u][1] = "update"
        PROVE  ids'[u]["tr_score"] # -1
    <3>1. CASE u = t
      <4>1. next[1] = "update" /\ next # Idle /\ tb = "tr_score" /\ id # -1
        BY <2>3, <3>1, <1>4, <1>7 DEF Idle
      <4>2. ids[t] \in [Table -> Int]
        BY DEF Inv, DbTypeOK
      <4>. QED
        BY <3>1, <4>1, <4>2, <1>3, <1>4
    <3>2. CASE u # t
      BY <2>3, <3>2, <1>4 DEF Inv, Section
    <3>. QED
      BY <3>1, <3>2
  <2>. QED
    BY <2>1, <2>2, <2>3 DEF Section
<1>. QED
  BY <1>1, <1>6, <1>8

\* A step in no section of its own, by a task that leaves the others alone.
LEMMA SectionKept ==
  ASSUME Inv, NEW t \in Task, critical = NoTask, critical' = NoTask,
         step'[t][1] \notin {"store", "restore", "update"},
         \A u \in Task \ {t} : step'[u] = step[u] /\ ids'[u] = ids[u]
  PROVE  Section'
BY TrDbAssumption DEF Inv, Section

LEMMA InvInsert ==
  ASSUME Inv, NEW t \in Task, Insert(t)
  PROVE  Section' /\ ReferentialIntegrity' /\ IdsAreOwn' /\ ScoresAreOwn'
<1>. DEFINE tb == step[t][2]
           row == [cond |-> Cond(t, tb), by |-> t]
<1>1. tb \in Table /\ ids' = ids
  BY DEF Inv, DbTypeOK, Insert
<1>2. Section'
  <2>1. step'[t][1] = "reselect" /\ \A u \in Task \ {t} : step'[u] = step[u]
    BY DEF Insert, Inv, DbTypeOK
  <2>. QED
    BY <1>1, <2>1, SectionKept DEF Insert
<1>3. CASE rows' = rows
  BY <1>1, <1>2, <1>3, SameRows, IdsKept
<1>4. CASE rows' # rows
  <2>1. /\ ForeignKeysHold(tb, Cond(t, tb))
        /\ rows' = [rows EXCEPT ![tb] = Append(@, row)]
    BY <1>4 DEF Insert, Accepts
  <2>2. /\ rows[tb] \in Seq(Row) /\ Len(rows[tb]) \in Nat
        /\ DOMAIN rows[tb] = 1..Len(rows[tb])
        /\ rows'[tb] = Append(rows[tb], row)
        /\ \A x \in Table \ {tb} : rows'[x] = rows[x]
    BY <1>1, <2>1, RowIds DEF Inv, DbTypeOK
  <2>. DEFINE new == Len(rows[tb]) + 1
  <2>3. /\ DOMAIN rows'[tb] = DOMAIN rows[tb] \cup {new}
        /\ \A id \in DOMAIN rows[tb] : rows'[tb][id] = rows[tb][id]
        /\ rows'[tb][new] = row
    BY <2>2
  <2>4. RowsKept
    BY <2>2, <2>3 DEF RowsKept
  <2>5. \A x \in Table : \A id \in DOMAIN rows'[x] :
          \/ id \in DOMAIN rows[x] /\ rows'[x][id] = rows[x][id]
          \/ x = tb /\ id = new /\ rows'[x][id] = row
    BY <2>2, <2>3
  <2>6. ReferentialIntegrity'
    <3>1. \A x \in Table : \A id \in DOMAIN rows'[x] :
            \A c : c = rows'[x][id].cond => ForeignKeysHold(x, c)
      BY <2>1, <2>5 DEF Inv, ReferentialIntegrity
    <3>2. \A x \in Table : \A id \in DOMAIN rows'[x] :
            \A c : c = rows'[x][id].cond => ForeignKeysHold(x, c)'
      BY <3>1, <2>4, KeysStable
    <3>. QED
      BY <3>2 DEF ReferentialIntegrity, ForeignKeysHold, Exists
  <2>7. IdsAreOwn'
    BY <1>1, <2>4, IdsKept
  <2>8. ScoresAreOwn'
    <3>. SUFFICES ASSUME NEW s \in DOMAIN rows'["tr_score"]
                  PROVE  \A u : u = rows'["tr_score"][s].by => IsScore(s, u)'
      BY DEF ScoresAreOwn, IsScore, IsDiff, IsMapset, IsUser, IsMod, Exists
    <3>1. "tr_score" \in Table
      BY DEF Table
    <3>2. CASE s \in DOMAIN rows["tr_score"] /\ rows'["tr_score"][s] = rows["tr_score"][s]
      <4>1. rows["tr_score"][s].by \in Task
        <5>1. rows["tr_score"][s] \in Row
          BY <3>1, <3>2, RowIds, ElementOfSeq DEF Inv
        <5>. QED
          BY <5>1 DEF Row
      <4>2. IsScore(s, rows["tr_score"][s].by)
        BY <3>2 DEF Inv, ScoresAreOwn
      <4>. QED
        BY <3>2, <4>1, <4>2, <2>4, OwnStable
    <3>3. CASE tb = "tr_score" /\ s = new /\ rows'["tr_score"][s] = row
      <4>1. rows'["tr_score"][s].by = t /\ rows'["tr_score"][s].cond = Cond(t, "tr_score")
        BY <3>3
      <4>2. IsDiff(ids[t]["tr_diff"], t) /\ IsMod(ids[t]["tr_mod"], t)
        <5>1. Exists("tr_diff", ids[t]["tr_diff"]) /\ Exists("tr_mod", ids[t]["tr_mod"])
          BY <2>1, <3>3, CondFields, ParentFacts DEF ForeignKeysHold
        <5>. QED
          BY <5>1, RowIds DEF Inv, IdsAreOwn, Exists, Table
      <4>3. IsDiff(ids[t]["tr_diff"], t)' /\ IsMod(ids[t]["tr_mod"], t)'
        <5>1. \A i : (IsDiff(i, t) => IsDiff(i, t)') /\ (IsMod(i, t) => IsMod(i, t)')
          BY <2>4, OwnStable
        <5>2. \A i : i = ids[t]["tr_diff"] => IsDiff(i, t)'
          BY <4>2, <5>1
        <5>3. \A i : i = ids[t]["tr_mod"] => IsMod(i, t)'
          BY <4>2, <5>1
        <5>. QED
          BY <5>2, <5>3, <1>1 DEF IsDiff, IsMod
      <4>4. /\ rows'["tr_score"][s].cond.up = ids'[t]["tr_diff"]
            /\ rows'["tr_score"][s].cond.mod = ids'[t]["tr_mod"]
        BY <4>1, <1>1, CondFields
      <4>5. IsScore(s, t)'
        BY <4>3, <4>4 DEF IsScore, Exists
      <4>. QED
        BY <4>1, <4>5
    <3>. QED
      BY <3>1, <3>2, <3>3, <2>5
  <2>. QED
    BY <1>2, <2>6, <2>7, <2>8
<1>. QED
  BY <1>3, <1>4

LEMMA InvUpdate ==
  ASSUME Inv, NEW t \in Task, Update(t)
  PROVE  Section' /\ ReferentialIntegrity' /\ IdsAreOwn' /\ ScoresAreOwn'
<1>. DEFINE i == ids[t]["tr_score"]
           scores == rows["tr_score"]
<1>1. \A u \in Task : ids'[u] = ids[u] \/ ids'[u] = NoIds
  BY DEF Update, Inv, DbTypeOK
<1>2. Section'
  <2>1. step'[t][1] = "idle" /\ \A u \in Task \ {t} : step'[u] = step[u] /\ ids'[u] = ids[u]
    BY DEF Update, Inv, DbTypeOK, Idle
  <2>. QED
    BY <2>1, SectionKept DEF Update
<1>3. RowsKept => IdsAreOwn'
  <2>1. \A tb \in Table : NoIds[tb] = -1
    BY DEF NoIds
  <2>. QED
    BY <1>1, <2>1, IdsKept
<1>4. CASE rows' = rows
  BY <1>2, <1>3, <1>4, SameRows
<1>5. CASE rows' # rows
  <2>1. rows' = [rows EXCEPT !["tr_score"][i].by = t]
    BY <1>5 DEF Update
  <2>2. /\ rows'["tr_score"] = [scores EXCEPT ![i].by = t]
        /\ \A x \in Table \ {"tr_score"} : rows'[x] = rows[x]
        /\ scores \in Seq(Row) /\ DOMAIN scores = 1..Len(scores)
        /\ "tr_score" \in Table
    BY <2>1, RowIds DEF Inv, DbTypeOK, Table
  <2>3. i # -1 /\ IsScore(i, t)
    BY DEF Update, Inv, Section, IdsAreOwn
  <2>4. \A s \in DOMAIN scores : scores[s] \in Row
    BY <2>2, ElementOfSeq
  <2>5. /\ DOMAIN rows'["tr_score"] = DOMAIN scores
        /\ \A s \in DOMAIN scores \ {i} : rows'["tr_score"][s] = scores[s]
        /\ rows'["tr_score"][i] = [scores[i] EXCEPT !.by = t]
    BY <2>2, <2>3 DEF IsScore, Exists
  <2>6. \A s \in DOMAIN scores : rows'["tr_score"][s].cond = scores[s].cond
    BY <2>4, <2>5 DEF Row
  <2>7. RowsKept
    BY <2>2, <2>5, <2>6 DEF RowsKept
  <2>8. ReferentialIntegrity'
    <3>1. \A x \in Table : DOMAIN rows'[x] = DOMAIN rows[x]
      BY <2>2, <2>5
    <3>2. \A x \in Table : \A id \in DOMAIN rows'[x] : rows'[x][id].cond = rows[x][id].cond
      BY <2>7, <3>1 DEF RowsKept
    <3>3. \A x \in Table : \A id \in DOMAIN rows'[x] :
            \A c : c = rows'[x][id].cond => ForeignKeysHold(x, c)
      BY <3>1, <3>2 DEF Inv, ReferentialIntegrity
    <3>4. \A x \in Table : \A id \in DOMAIN rows'[x] :
            \A c : c = rows'[x][id].cond => ForeignKeysHold(x, c)'
      BY <3>3, <2>7, KeysStable
    <3>. QED
      BY <3>4 DEF ReferentialIntegrity, ForeignKeysHold, Exists
  <2>9. ScoresAreOwn'
    <3>. SUFFICES ASSUME NEW s \in DOMAIN rows'["tr_score"]
                  PROVE  \A u : u = rows'["tr_score"][s].by => IsScore(s, u)'
      BY DEF ScoresAreOwn, IsScore, IsDiff, IsMapset, IsUser, IsMod, Exists
    <3>1. CASE s = i
      <4>1. i \in DOMAIN scores
        BY <2>3 DEF IsScore, Exists
      <4>2. rows'["tr_score"][s].by = t
        BY <3>1, <4>1, <2>4, <2>5 DEF Row
      <4>3. IsScore(s, t)'
        BY <3>1, <2>3, <2>7, OwnStable
      <4>. QED
        BY <4>2, <4>3
    <3>2. CASE s # i
      <4>1. s \in DOMAIN scores /\ rows'["tr_score"][s] = scores[s] /\ scores[s].by \in Task
        BY <3>2, <2>4, <2>5 DEF Row
      <4>2. IsScore(s, scores[s].by)
        BY <4>1 DEF Inv, ScoresAreOwn
      <4>3. IsScore(s, scores[s].by) => \A u : u = scores[s].by => IsScore(s, u)'
        BY <4>1, <2>7, OwnStable
      <4>. QED
        BY <4>1, <4>2, <4>3
    <3>. QED
      BY <3>1, <3>2
  <2>. QED
    BY <1>2, <1>3, <2>7, <2>8, <2>9
<1>. QED
  BY <1>4, <1>5

LEMMA InvInit == DbInit => Inv
<1>. SUFFICES ASSUME DbInit PROVE Inv
  OBVIOUS
<1>1. Section
  BY TrDbAssumption DEF DbInit, Section, Idle
<1>2. \A tb \in Table : DOMAIN rows[tb] = {}
  BY DEF DbInit
<1>3. ReferentialIntegrity /\ ScoresAreOwn
  BY <1>2 DEF ReferentialIntegrity, ScoresAreOwn, Table
<1>4. IdsAreOwn
  BY DEF DbInit, NoIds, IdsAreOwn, Table
<1>. QED
  BY <1>1, <1>3, <1>4, TypeInit DEF Inv

LEMMA InvNext == Inv /\ [DbNext]_dbvars => Inv'
<1>. SUFFICES ASSUME Inv, [DbNext]_dbvars PROVE Inv'
  OBVIOUS
<1>1. DbTypeOK'
  BY TypeNext DEF Inv
<1>2. CASE UNCHANGED dbvars
  <2>1. ids' = ids /\ rows' = rows /\ round' = round /\ step' = step /\ critical' = critical
        /\ result' = result
    BY <1>2 DEF dbvars
  <2>2. RowsKept /\ ReferentialIntegrity' /\ ScoresAreOwn'
    BY <2>1, SameRows
  <2>3. IdsAreOwn'
    BY <2>1, <2>2, IdsKept
  <2>4. Section'
    BY <2>1 DEF Inv, Section, Matching, Cond
  <2>. QED
    BY <1>1, <2>2, <2>3, <2>4 DEF Inv
<1>3. ASSUME NEW t \in Task, BeginInsert(t) PROVE Inv'
  BY <1>1, <1>3, InvBeginInsert DEF Inv
<1>4. ASSUME NEW t \in Task, InsertStep(t) PROVE Inv'
  BY <1>1, <1>4, InvQuery, InvStoreResult, InvInsert, InvUpdate DEF Inv, InsertStep
<1>. QED
  BY <1>2, <1>3, <1>4 DEF DbNext, DbTerminated

LEMMA InvAlways == DbSpec => []Inv
<1>. QED
  BY InvInit, InvNext, PTL DEF DbSpec

\* tr_db_get_id never hands a task the answer to another task's query.
THEOREM AnswersAreOwn == DbSpec => []IdsAreOwn
<1>1. Inv => IdsAreOwn
  BY DEF Inv
<1>. QED
  BY <1>1, InvAlways, PTL

\* trm_db_insert writes only the scores of the map it was called for.
THEOREM WritesAreOwn == DbSpec => []ScoresAreOwn
<1>1. Inv => ScoresAreOwn
  BY DEF Inv
<1>. QED
  BY <1>1, InvAlways, PTL

-----------------------------------------------------------------------------
(***************************************************************************)
(* How many times a row can be there.                                      *)
(***************************************************************************)

\* The tasks that have found no row for a condition, and are going to insert one.
Missing(tb, c) ==
  {t \in Active :
     /\ step[t] = <<"insert", tb>> \/ (step[t] = <<"store", tb>> /\ result = {})
     /\ Cond(t, tb) = c}

\* The rows for a condition and the tasks about to add one are, together, as many
\* as the threads, and one more for each query that failed.
DupInv ==
  /\ IsFiniteSet(Active) /\ Cardinality(Active) <= Workers
  /\ \A tb \in Table \ ServerTables : rows[tb] = <<>>
  /\ \A tb \in ServerTables, c \in CondType :
       Cardinality(Matching(tb, c)) + Cardinality(Missing(tb, c)) <= Workers + faults

LEMMA MatchingFinite ==
  ASSUME DbTypeOK, NEW tb \in Table, NEW c
  PROVE  IsFiniteSet(Matching(tb, c))
<1>1. DOMAIN rows[tb] = 1..Len(rows[tb]) /\ Len(rows[tb]) \in Nat
  BY RowIds
<1>2. IsFiniteSet(1..Len(rows[tb]))
  BY <1>1, FS_Interval
<1>. QED
  BY <1>1, <1>2, FS_Subset DEF Matching

\* What a step of task t can change of a condition's tasks is whether t is one.
LEMMA MissingOthers ==
  ASSUME Inv, NEW t \in Task, BeginInsert(t) \/ InsertStep(t)
  PROVE  /\ \A tb, c : Missing(tb, c)' \subseteq Missing(tb, c) \cup {t}
         /\ Active' \subseteq Active \cup {t}
<1>1. /\ step \in [Task -> Phase \X Table] /\ NoTask \notin Task
      /\ \A u \in Task : step[u][1] \in {"store", "restore"} <=> critical = u
  BY TrDbAssumption DEF Inv, DbTypeOK, Section
<1>2. \A u \in Task \ {t} : step'[u] = step[u]
  BY <1>1 DEF InsertStep, BeginInsert, Query, StoreResult, Insert, Update
<1>3. \A u \in Task \ {t} : ids'[u] = ids[u] /\ round'[u] = round[u]
  BY DEF Inv, DbTypeOK, InsertStep, BeginInsert, Query, StoreResult, Insert, Update
<1>4. \A tb : \A u \in Task \ {t} : step[u] = <<"store", tb>> => result' = result
  <2>. SUFFICES ASSUME NEW tb, NEW u \in Task \ {t}, step[u] = <<"store", tb>>
                PROVE  result' = result
    OBVIOUS
  <2>1. critical = u
    BY <1>1
  <2>2. ~Query(t)
    BY <2>1, <1>1 DEF Query, EnterSection
  <2>3. ~StoreResult(t)
    BY <2>1, <1>1 DEF StoreResult
  <2>. QED
    BY <2>2, <2>3 DEF InsertStep, BeginInsert, Insert, Update
<1>5. Active' \subseteq Active \cup {t}
  BY <1>2 DEF Active
<1>6. ASSUME NEW tb, NEW c, NEW u \in Missing(tb, c)', u # t
      PROVE  u \in Missing(tb, c)
  <2>1. /\ u \in Task /\ u \in Active
        /\ step'[u] = <<"insert", tb>> \/ (step'[u] = <<"store", tb>> /\ result' = {})
        /\ Cond(u, tb)' = c
    BY <1>5, <1>6 DEF Missing, Active
  <2>2. Cond(u, tb)' = Cond(u, tb)
    BY <2>1, <1>3, <1>6 DEF Cond
  <2>. QED
    BY <2>1, <2>2, <1>2, <1>4, <1>6 DEF Missing
<1>. QED
  BY <1>5, <1>6

\* A step that adds no row, no task that misses one, and no thread.
LEMMA DupKeptBy ==
  ASSUME Inv, DupInv, faults' \in Nat, faults <= faults',
         Active' \subseteq Active,
         \A tb \in Table \ ServerTables : rows'[tb] = rows[tb],
         \A tb \in ServerTables, c \in CondType :
           Matching(tb, c)' = Matching(tb, c) /\ Missing(tb, c)' \subseteq Missing(tb, c)
  PROVE  DupInv'
<1>1. /\ IsFiniteSet(Active') /\ Cardinality(Active') <= Cardinality(Active)
      /\ Cardinality(Active) \in Nat /\ Cardinality(Active') \in Nat
  BY FS_Subset, FS_CardinalityType DEF DupInv
<1>2. faults \in Nat /\ Workers \in Nat
  BY TrDbAssumption DEF Inv, DbTypeOK
<1>3. ASSUME NEW tb \in ServerTables, NEW c \in CondType
      PROVE  Cardinality(Matching(tb, c)') + Cardinality(Missing(tb, c)') <= Workers + faults'
  <2>1. IsFiniteSet(Matching(tb, c)) /\ Cardinality(Matching(tb, c)) \in Nat
    BY MatchingFinite, FS_CardinalityType, ServerTablesAssumption DEF Inv
  <2>2. IsFiniteSet(Missing(tb, c))
    BY FS_Subset DEF DupInv, Missing
  <2>3. /\ Cardinality(Missing(tb, c)') <= Cardinality(Missing(tb, c))
        /\ Cardinality(Missing(tb, c)) \in Nat /\ Cardinality(Missing(tb, c)') \in Nat
    BY <1>3, <2>2, FS_Subset, FS_CardinalityType
  <2>4. Cardinality(Matching(tb, c)) + Cardinality(Missing(tb, c)) <= Workers + faults
    BY DEF DupInv
  <2>. QED
    BY <1>2, <1>3, <2>1, <2>3, <2>4
<1>. QED
  BY <1>1, <1>2, <1>3 DEF DupInv

LEMMA DupInit == DbInit => DupInv
<1>. SUFFICES ASSUME DbInit PROVE DupInv
  OBVIOUS
<1>1. Active = {} /\ \A tb, c : Missing(tb, c) = {}
  BY DEF DbInit, Active, Missing
<1>2. \A tb \in Table, c \in CondType : Matching(tb, c) = {}
  BY DEF DbInit, Matching
<1>3. IsFiniteSet(Active) /\ Cardinality(Active) = 0
  BY <1>1, FS_EmptySet
<1>4. \A tb \in ServerTables, c \in CondType :
        Cardinality(Matching(tb, c)) = 0 /\ Cardinality(Missing(tb, c)) = 0
  BY <1>1, <1>2, FS_EmptySet, ServerTablesAssumption
<1>5. faults = 0 /\ Workers \in Nat /\ \A tb \in Table : rows[tb] = <<>>
  BY TrDbAssumption DEF DbInit
<1>. QED
  BY <1>3, <1>4, <1>5 DEF DupInv

LEMMA DupBeginInsert ==
  ASSUME Inv, DupInv, NEW t \in Task, ThreadFree, BeginInsert(t)
  PROVE  DupInv'
<1>1. /\ step[t] = Idle /\ step'[t] \in {Idle, <<"select", "tr_user">>}
      /\ rows' = rows /\ faults' = faults /\ faults \in Nat
  BY TrDbAssumption DEF BeginInsert, Inv, DbTypeOK
<1>2. \A tb, c : t \notin Missing(tb, c)'
  BY <1>1 DEF Missing, Idle
<1>3. \A tb, c : Missing(tb, c)' \subseteq Missing(tb, c)
  BY <1>2, MissingOthers
<1>4. \A tb, c : Matching(tb, c)' = Matching(tb, c)
  BY <1>1 DEF Matching
<1>5. IsFiniteSet(Active') /\ Cardinality(Active') <= Workers
  <2>1. /\ IsFiniteSet(Active \cup {t}) /\ Cardinality(Active \cup {t}) <= Cardinality(Active) + 1
        /\ Cardinality(Active) \in Nat
    BY FS_AddElement, FS_CardinalityType DEF DupInv
  <2>2. Active' \subseteq Active \cup {t}
    BY MissingOthers
  <2>3. IsFiniteSet(Active') /\ Cardinality(Active') <= Cardinality(Active \cup {t})
    BY <2>1, <2>2, FS_Subset
  <2>4. Cardinality(Active') \in Nat /\ Cardinality(Active \cup {t}) \in Nat /\ Workers \in Nat
    BY <2>1, <2>3, FS_CardinalityType, TrDbAssumption
  <2>. QED
    BY <2>1, <2>3, <2>4 DEF ThreadFree
<1>6. ASSUME NEW tb \in ServerTables, NEW c \in CondType
      PROVE  Cardinality(Matching(tb, c)') + Cardinality(Missing(tb, c)') <= Workers + faults'
  <2>1. IsFiniteSet(Missing(tb, c))
    BY FS_Subset DEF DupInv, Missing
  <2>2. /\ Cardinality(Missing(tb, c)') <= Cardinality(Missing(tb, c))
        /\ Cardinality(Missing(tb, c)) \in Nat /\ Cardinality(Missing(tb, c)') \in Nat
    BY <1>3, <2>1, FS_Subset, FS_CardinalityType
  <2>3. Cardinality(Matching(tb, c)) \in Nat /\ Matching(tb, c)' = Matching(tb, c) /\ Workers \in Nat
    BY <1>4, MatchingFinite, FS_CardinalityType, ServerTablesAssumption, TrDbAssumption DEF Inv
  <2>. QED
    BY <1>1, <2>2, <2>3 DEF DupInv
<1>. QED
  BY <1>1, <1>5, <1>6 DEF DupInv

\* A query that finds no row without failing is alone: the task becomes one of at
\* most as many as there are threads.  One that fails pays with a fault.
LEMMA DupQuery ==
  ASSUME Inv, DupInv, NEW t \in Task, Query(t)
  PROVE  DupInv'
<1>. DEFINE tb == step[t][2]
<1>1. /\ tb \in Table /\ step[t][1] \in {"select", "reselect"}
      /\ rows' = rows /\ ids' = ids /\ round' = round
      /\ step'[t] \in {<<"store", tb>>, <<"restore", tb>>}
  BY DEF Query, Inv, DbTypeOK
<1>2. /\ faults \in Nat /\ faults' \in Nat /\ faults <= faults' /\ Workers \in Nat
      /\ (faults' = faults /\ result' = Matching(tb, Cond(t, tb)))
           \/ tb \notin ServerTables \/ faults' = faults + 1
  BY TrDbAssumption DEF Query, CountFault, Inv, DbTypeOK
<1>3. Active' \subseteq Active
  <2>1. step[t] # Idle
    BY <1>1 DEF Idle
  <2>. QED
    BY <2>1, MissingOthers DEF Active, InsertStep
<1>4. IsFiniteSet(Active') /\ Cardinality(Active') <= Workers
  <2>1. /\ IsFiniteSet(Active') /\ Cardinality(Active') <= Cardinality(Active)
        /\ Cardinality(Active) \in Nat /\ Cardinality(Active') \in Nat
    BY <1>3, FS_Subset, FS_CardinalityType DEF DupInv
  <2>. QED
    BY <2>1, <1>2 DEF DupInv
<1>5. \A x, c : Matching(x, c)' = Matching(x, c) /\ Cond(t, x)' = Cond(t, x)
  BY <1>1 DEF Matching, Cond
<1>6. \A x, c : Missing(x, c)' \subseteq Missing(x, c) \cup {t}
  BY MissingOthers DEF InsertStep
<1>7. ASSUME NEW x \in ServerTables, NEW c \in CondType
      PROVE  Cardinality(Matching(x, c)') + Cardinality(Missing(x, c)') <= Workers + faults'
  <2>1. IsFiniteSet(Matching(x, c)) /\ Cardinality(Matching(x, c)) \in Nat
    BY MatchingFinite, FS_CardinalityType, ServerTablesAssumption DEF Inv
  <2>2. IsFiniteSet(Missing(x, c)) /\ Cardinality(Missing(x, c)) \in Nat
    BY FS_Subset, FS_CardinalityType DEF DupInv, Missing
  <2>3. /\ IsFiniteSet(Missing(x, c) \cup {t})
        /\ Cardinality(Missing(x, c) \cup {t}) <= Cardinality(Missing(x, c)) + 1
        /\ Cardinality(Missing(x, c) \cup {t}) \in Nat
    <3>1. /\ IsFiniteSet(Missing(x, c) \cup {t})
          /\ Cardinality(Missing(x, c) \cup {t}) =
               IF t \in Missing(x, c) THEN Cardinality(Missing(x, c))
                                     ELSE Cardinality(Missing(x, c)) + 1
      BY <2>2, FS_AddElement
    <3>. QED
      BY <3>1, <2>2
  <2>4. Cardinality(Matching(x, c)) + Cardinality(Missing(x, c)) <= Workers + faults
    BY DEF DupInv
  <2>5. CASE t \notin Missing(x, c)'
    <3>1. Missing(x, c)' \subseteq Missing(x, c)
      BY <2>5, <1>6
    <3>2. /\ Cardinality(Missing(x, c)') <= Cardinality(Missing(x, c))
          /\ Cardinality(Missing(x, c)') \in Nat
      BY <3>1, <2>2, FS_Subset, FS_CardinalityType
    <3>. QED
      BY <3>2, <2>1, <2>2, <2>4, <1>2, <1>5
  <2>6. CASE t \in Missing(x, c)'
    <3>1. x = tb /\ c = Cond(t, tb) /\ result' = {}
      BY <2>6, <1>1, <1>5 DEF Missing
    <3>2. CASE faults' = faults + 1
      <4>1. /\ Cardinality(Missing(x, c)') <= Cardinality(Missing(x, c) \cup {t})
            /\ Cardinality(Missing(x, c)') \in Nat
        BY <2>3, <1>6, FS_Subset, FS_CardinalityType
      <4>. QED
        BY <3>2, <4>1, <2>1, <2>2, <2>3, <2>4, <1>2, <1>5
    <3>3. CASE faults' = faults /\ result' = Matching(tb, Cond(t, tb))
      <4>1. Cardinality(Matching(x, c)') = 0
        BY <3>1, <3>3, <1>5, FS_EmptySet
      <4>2. Missing(x, c)' \subseteq Active'
        BY DEF Missing
      <4>3. /\ Cardinality(Missing(x, c)') <= Cardinality(Active')
            /\ Cardinality(Missing(x, c)') \in Nat /\ Cardinality(Active') \in Nat
        BY <4>2, <1>4, FS_Subset, FS_CardinalityType
      <4>. QED
        BY <4>1, <4>3, <1>2, <1>4
    <3>. QED
      BY <3>1, <3>2, <3>3, <1>2
  <2>. QED
    BY <2>5, <2>6
<1>8. \A x \in Table \ ServerTables : rows'[x] = <<>>
  BY <1>1 DEF DupInv
<1>. QED
  BY <1>4, <1>7, <1>8 DEF DupInv

\* A task goes on to insert only when its result was empty, and then it missed the
\* row before.
LEMMA DupStoreResult ==
  ASSUME Inv, DupInv, NEW t \in Task, StoreResult(t)
  PROVE  DupInv'
<1>. DEFINE tb == step[t][2]
<1>1. /\ tb \in Table /\ step \in [Task -> Phase \X Table] /\ ids \in [Task -> [Table -> Int]]
      /\ rows' = rows /\ faults' = faults /\ faults \in Nat /\ round' = round
      /\ step[t][1] \in {"store", "restore"} /\ step[t] = <<step[t][1], tb>>
      /\ result \subseteq Nat
  BY DEF StoreResult, Inv, DbTypeOK, Phase
<1>2. PICK id \in IF result = {} THEN {-1} ELSE result :
        LET next == IF step[t][1] = "store" THEN AfterFirstSelect(tb, id) ELSE AfterTable(tb)
        IN /\ step' = [step EXCEPT ![t] = next]
           /\ ids' = [ids EXCEPT ![t] = IF next = Idle THEN NoIds ELSE [@ EXCEPT ![tb] = id]]
  BY DEF StoreResult
<1>3. Active' \subseteq Active
  <2>1. step[t] # Idle
    BY <1>1 DEF Idle
  <2>. QED
    BY <2>1, MissingOthers DEF Active, InsertStep
<1>4. ASSUME NEW x, NEW c, t \in Missing(x, c)' PROVE t \in Missing(x, c)
  <2>1. step'[t] = <<"insert", x>> \/ step'[t] = <<"store", x>>
    BY <1>4 DEF Missing
  <2>2. /\ step[t][1] = "store" /\ step'[t] = <<"insert", tb>> /\ result = {} /\ id = -1
    BY <2>1, <1>1, <1>2 DEF AfterFirstSelect, AfterTable, Idle
  <2>3. x = tb
    BY <2>1, <2>2
  <2>4. ids'[t] = [ids[t] EXCEPT ![tb] = id]
    BY <2>2, <1>1, <1>2 DEF Idle, AfterFirstSelect
  <2>5. Cond(t, x)' = Cond(t, x)
    <3>1. x \in DOMAIN Parent => Parent[x] # x /\ Parent[x] \in Table
      BY <1>1, <2>3, ParentFacts DEF Table
    <3>2. \A y \in Table : y # x => ids'[t][y] = ids[t][y]
      BY <2>3, <2>4, <1>1
    <3>3. /\ x \in DOMAIN Parent => ids'[t][Parent[x]] = ids[t][Parent[x]]
          /\ x = "tr_score" => ids'[t]["tr_mod"] = ids[t]["tr_mod"]
      BY <3>1, <3>2 DEF Table
    <3>. QED
      BY <3>3, <1>1 DEF Cond
  <2>. QED
    BY <2>2, <2>3, <2>5, <1>1, <1>4, <1>3 DEF Missing
<1>5. \A x, c : Missing(x, c)' \subseteq Missing(x, c)
  BY <1>4, MissingOthers DEF InsertStep
<1>6. \A x, c : Matching(x, c)' = Matching(x, c)
  BY <1>1 DEF Matching
<1>. QED
  BY <1>1, <1>3, <1>5, <1>6, DupKeptBy

\* The row inserted takes the place of the task that missed it.
LEMMA DupInsert ==
  ASSUME Inv, DupInv, NEW t \in Task, Insert(t)
  PROVE  DupInv'
<1>. DEFINE tb == step[t][2]
            row == [cond |-> Cond(t, tb), by |-> t]
<1>1. /\ tb \in Table /\ rows \in [Table -> Seq(Row)]
      /\ step[t] = <<"insert", tb>> /\ step'[t] = <<"reselect", tb>>
  <2>1. step \in [Task -> Phase \X Table] /\ rows \in [Table -> Seq(Row)]
    BY DEF Inv, DbTypeOK, Row
  <2>2. step[t] \in Phase \X Table /\ step[t][1] = "insert"
    BY <2>1 DEF Insert
  <2>. QED
    BY <2>1, <2>2 DEF Insert
<1>2. faults \in Nat /\ faults' \in Nat /\ faults <= faults' /\ Workers \in Nat
  BY TrDbAssumption DEF Insert, CountFault, Inv, DbTypeOK
<1>3. Active' \subseteq Active
  <2>1. step[t] # Idle
    BY <1>1 DEF Idle
  <2>. QED
    BY <2>1, MissingOthers DEF Active, InsertStep
<1>4. \A x, c : t \notin Missing(x, c)'
  BY <1>1 DEF Missing
<1>5. \A x, c : Missing(x, c)' \subseteq Missing(x, c) \ {t}
  BY <1>4, MissingOthers DEF InsertStep
<1>6. CASE rows' = rows
  <2>1. \A x, c : Matching(x, c)' = Matching(x, c)
    BY <1>6 DEF Matching
  <2>. QED
    BY <1>2, <1>3, <1>5, <1>6, <2>1, DupKeptBy
<1>7. CASE rows' # rows
  <2>1. tb \in ServerTables /\ rows' = [rows EXCEPT ![tb] = Append(@, row)]
    BY <1>7 DEF Insert
  <2>. DEFINE new == Len(rows[tb]) + 1
  <2>2. /\ DOMAIN rows[tb] = 1..Len(rows[tb]) /\ Len(rows[tb]) \in Nat
        /\ rows'[tb] = Append(rows[tb], row)
        /\ \A x \in Table \ {tb} : rows'[x] = rows[x]
    BY <2>1, <1>1, RowIds DEF Inv
  <2>3. /\ DOMAIN rows'[tb] = DOMAIN rows[tb] \cup {new}
        /\ \A id \in DOMAIN rows[tb] : rows'[tb][id] = rows[tb][id]
        /\ rows'[tb][new] = row /\ new \notin DOMAIN rows[tb]
    BY <2>2, <1>1
  <2>4. ASSUME NEW x \in ServerTables, NEW c \in CondType
        PROVE  Cardinality(Matching(x, c)') + Cardinality(Missing(x, c)') <= Workers + faults'
    <3>1. IsFiniteSet(Matching(x, c)) /\ Cardinality(Matching(x, c)) \in Nat
      BY MatchingFinite, FS_CardinalityType, ServerTablesAssumption DEF Inv
    <3>2. IsFiniteSet(Missing(x, c)) /\ Cardinality(Missing(x, c)) \in Nat
      BY FS_Subset, FS_CardinalityType DEF DupInv, Missing
    <3>3. /\ IsFiniteSet(Missing(x, c) \ {t})
          /\ Cardinality(Missing(x, c) \ {t}) =
               IF t \in Missing(x, c) THEN Cardinality(Missing(x, c)) - 1 ELSE Cardinality(Missing(x, c))
      BY <3>2, FS_RemoveElement
    <3>4. /\ Cardinality(Missing(x, c)') <= Cardinality(Missing(x, c) \ {t})
          /\ Cardinality(Missing(x, c)') \in Nat /\ Cardinality(Missing(x, c) \ {t}) \in Nat
      BY <3>3, <1>5, FS_Subset, FS_CardinalityType
    <3>5. Cardinality(Matching(x, c)) + Cardinality(Missing(x, c)) <= Workers + faults
      BY DEF DupInv
    <3>6. CASE x = tb /\ c = Cond(t, tb)
      <4>1. t \in Missing(x, c)
        BY <3>6, <1>1 DEF Missing, Active, Idle
      <4>2. Matching(x, c)' = Matching(x, c) \cup {new}
        BY <3>6, <2>3 DEF Matching
      <4>3. Cardinality(Matching(x, c)') \in {Cardinality(Matching(x, c)), Cardinality(Matching(x, c)) + 1}
        <5>1. \A e : Cardinality(Matching(x, c) \cup {e}) =
                IF e \in Matching(x, c) THEN Cardinality(Matching(x, c))
                                       ELSE Cardinality(Matching(x, c)) + 1
          BY <3>1, FS_AddElement
        <5>. QED
          BY <4>2, <5>1
      <4>. QED
        BY <4>1, <4>3, <3>1, <3>2, <3>3, <3>4, <3>5, <1>2
    <3>7. CASE ~(x = tb /\ c = Cond(t, tb))
      <4>1. Matching(x, c)' = Matching(x, c)
        <5>1. CASE x # tb
          BY <5>1, <2>2, ServerTablesAssumption DEF Matching
        <5>2. CASE x = tb /\ c # Cond(t, tb)
          BY <5>2, <2>3 DEF Matching
        <5>. QED
          BY <3>7, <5>1, <5>2
      <4>. QED
        BY <4>1, <3>1, <3>2, <3>3, <3>4, <3>5, <1>2
    <3>. QED
      BY <3>6, <3>7
  <2>5. \A x \in Table \ ServerTables : rows'[x] = <<>>
    BY <2>1, <2>2 DEF DupInv
  <2>6. IsFiniteSet(Active') /\ Cardinality(Active') <= Workers
    <3>1. /\ IsFiniteSet(Active') /\ Cardinality(Active') <= Cardinality(Active)
          /\ Cardinality(Active) \in Nat /\ Cardinality(Active') \in Nat
      BY <1>3, FS_Subset, FS_CardinalityType DEF DupInv
    <3>. QED
      BY <3>1, <1>2 DEF DupInv
  <2>. QED
    BY <2>4, <2>5, <2>6 DEF DupInv
<1>. QED
  BY <1>6, <1>7

LEMMA DupUpdate ==
  ASSUME Inv, DupInv, NEW t \in Task, Update(t)
  PROVE  DupInv'
<1>. DEFINE id == ids[t]["tr_score"]
<1>1. /\ step[t] = <<"update", "tr_score">> /\ step'[t] = Idle
      /\ rows' = rows \/ rows' = [rows EXCEPT !["tr_score"][id].by = t]
  BY DEF Update, Inv, DbTypeOK
<1>2. faults \in Nat /\ faults' \in Nat /\ faults <= faults'
  <2>1. faults \in Nat
    BY TrDbAssumption DEF Inv, DbTypeOK
  <2>2. faults' \in {faults, faults + 1}
    BY DEF Update, CountFault
  <2>. QED
    BY <2>1, <2>2
<1>3. Active' \subseteq Active
  BY <1>1, MissingOthers DEF Active, InsertStep
<1>4. \A x, c : t \notin Missing(x, c)'
  BY <1>1 DEF Missing, Active
<1>5. \A x, c : Missing(x, c)' \subseteq Missing(x, c)
  BY <1>4, MissingOthers DEF InsertStep
<1>6. ASSUME NEW x \in Table
      PROVE  /\ DOMAIN rows'[x] = DOMAIN rows[x]
             /\ \A i \in DOMAIN rows[x] : rows'[x][i].cond = rows[x][i].cond
  <2>1. rows[x] \in Seq(Row) /\ x \in DOMAIN rows
    BY <1>6, RowIds DEF Inv, DbTypeOK
  <2>2. \A i \in DOMAIN rows[x] : rows[x][i] \in Row
    BY <2>1, ElementOfSeq
  <2>. QED
    BY <1>1, <2>1, <2>2 DEF Row
<1>7. \A x \in Table : \A c : Matching(x, c)' = Matching(x, c)
  BY <1>6 DEF Matching
<1>8. ASSUME NEW x \in Table \ ServerTables PROVE rows'[x] = rows[x]
  <2>1. rows[x] = <<>>
    BY DEF DupInv
  <2>2. IsScore(id, t)
    BY <1>1 DEF Inv, IdsAreOwn, Section
  <2>3. x # "tr_score"
    BY <2>1, <2>2 DEF IsScore, Exists
  <2>4. x \in DOMAIN rows
    BY DEF Inv, DbTypeOK
  <2>. QED
    BY <1>1, <2>3, <2>4
<1>. QED
  BY <1>2, <1>3, <1>5, <1>7, <1>8, DupKeptBy, ServerTablesAssumption

LEMMA DupNext == Inv /\ DupInv /\ [DbNext]_dbvars => DupInv'
<1>. SUFFICES ASSUME Inv, DupInv, [DbNext]_dbvars PROVE DupInv'
  OBVIOUS
<1>1. CASE UNCHANGED dbvars
  BY <1>1 DEF dbvars, DupInv, Matching, Missing, Active, Cond
<1>2. ASSUME NEW t \in Task, ThreadFree, BeginInsert(t) PROVE DupInv'
  BY <1>2, DupBeginInsert
<1>3. ASSUME NEW t \in Task, InsertStep(t) PROVE DupInv'
  BY <1>3, DupQuery, DupStoreResult, DupInsert, DupUpdate DEF InsertStep
<1>. QED
  BY <1>1, <1>2, <1>3 DEF DbNext, DbTerminated

\* The find-or-insert of tr_db.c, a SELECT and then an INSERT in another critical
\* section, leaves at most one row per thread, and one more per failed query.
THEOREM FewDuplicates == DbSpec => []DuplicatesBounded
<1>1. Inv /\ DupInv => DuplicatesBounded
  <2>. SUFFICES ASSUME Inv, DupInv, NEW tb \in Table, NEW id \in DOMAIN rows[tb]
                PROVE  Cardinality(Matching(tb, rows[tb][id].cond)) <= Workers + faults
    BY DEF DuplicatesBounded
  <2>1. tb \in ServerTables
    BY DEF DupInv
  <2>2. rows[tb][id].cond \in CondType
    <3>1. rows[tb][id] \in Row
      BY RowIds, ElementOfSeq DEF Inv
    <3>. QED
      BY <3>1 DEF Row
  <2>. DEFINE c == rows[tb][id].cond
  <2>3. Cardinality(Matching(tb, c)) \in Nat
    BY MatchingFinite, FS_CardinalityType DEF Inv
  <2>4. Cardinality(Missing(tb, c)) \in Nat
    BY FS_Subset, FS_CardinalityType DEF DupInv, Missing
  <2>5. Cardinality(Matching(tb, c)) + Cardinality(Missing(tb, c)) <= Workers + faults
    BY <2>1, <2>2 DEF DupInv
  <2>6. faults \in Nat /\ Workers \in Nat
    BY TrDbAssumption DEF Inv, DbTypeOK
  <2>. QED
    BY <2>3, <2>4, <2>5, <2>6
<1>. QED
  BY <1>1, InvAlways, DupInit, DupNext, PTL DEF DbSpec

-----------------------------------------------------------------------------
(***************************************************************************)
(* What is stored.                                                         *)
(***************************************************************************)

\* The tables that a find-or-insert comes after.
Passed ==
  [tr_user |-> {}, tr_mod |-> {"tr_user"}, tr_mapset |-> {"tr_user", "tr_mod"},
   tr_diff |-> {"tr_user", "tr_mod", "tr_mapset"},
   tr_score |-> {"tr_user", "tr_mod", "tr_mapset", "tr_diff"}]

\* How far task t has got: the ids it needs next are there, what it has inserted
\* is found, and what it has finished is stored.
StoreOf(t) ==
  /\ step[t] # Idle => \A tb \in Passed[step[t][2]] : ids[t][tb] # -1
  /\ step[t][1] = "reselect" => Matching(step[t][2], Cond(t, step[t][2])) # {}
  /\ step[t][1] = "restore" => result # {}
  /\ \A r \in Round :
       (r < round[t] \/ (r = round[t] /\ step[t] = Idle)) => Stored(t, r)

\* The score that a task is about to update, or that a row stands for, is one of
\* its own rounds.
ScoreRounds ==
  /\ \A t \in Task : step[t] # Idle => round[t] > 0
  /\ \A t \in Task : step[t][1] = "update" =>
       /\ step[t][2] = "tr_score"
       /\ rows["tr_score"][ids[t]["tr_score"]].cond.count = round[t]
  /\ \A s \in DOMAIN rows["tr_score"] :
       rows["tr_score"][s].cond.count \in 1..round[rows["tr_score"][s].by]

StoreInv == connected /\ faults = 0 => \A t \in Task : StoreOf(t)

\* A score stays a score of its task's round.
LEMMA StoredStable ==
  ASSUME RowsKept, NEW t \in Task, NEW r, Stored(t, r)
  PROVE  Stored(t, r)'
<1>1. PICK s \in DOMAIN rows["tr_score"] : IsScore(s, t) /\ rows["tr_score"][s].cond.count = r
  BY DEF Stored
<1>2. IsScore(s, t)'
  BY <1>1, OwnStable
<1>3. s \in DOMAIN rows'["tr_score"] /\ rows'["tr_score"][s].cond = rows["tr_score"][s].cond
  BY <1>1 DEF RowsKept, Table
<1>. QED
  BY <1>1, <1>2, <1>3 DEF Stored

LEMMA StepKeepsRows ==
  ASSUME Inv, NEW t \in Task, InsertStep(t)
  PROVE  RowsKept
<1>1. CASE rows' = rows
  BY <1>1 DEF RowsKept
<1>2. CASE Insert(t) /\ rows' # rows
  <2>. DEFINE tb == step[t][2]
             row == [cond |-> Cond(t, tb), by |-> t]
  <2>1. tb \in Table /\ rows' = [rows EXCEPT ![tb] = Append(@, row)]
    BY <1>2 DEF Insert, Inv, DbTypeOK
  <2>2. /\ rows[tb] \in Seq(Row) /\ Len(rows[tb]) \in Nat
        /\ DOMAIN rows[tb] = 1..Len(rows[tb])
        /\ rows'[tb] = Append(rows[tb], row)
        /\ \A x \in Table \ {tb} : rows'[x] = rows[x]
    BY <2>1, RowIds DEF Inv, DbTypeOK
  <2>3. \A id \in DOMAIN rows[tb] : id \in DOMAIN rows'[tb] /\ rows'[tb][id] = rows[tb][id]
    BY <2>2
  <2>. QED
    BY <2>2, <2>3 DEF RowsKept
<1>3. CASE Update(t) /\ rows' # rows
  <2>. DEFINE i == ids[t]["tr_score"]
             scores == rows["tr_score"]
  <2>1. /\ rows'["tr_score"] = [scores EXCEPT ![i].by = t]
        /\ \A x \in Table \ {"tr_score"} : rows'[x] = rows[x]
        /\ scores \in Seq(Row) /\ DOMAIN scores = 1..Len(scores)
    BY <1>3, RowIds DEF Update, Inv, DbTypeOK, Table
  <2>2. \A s \in DOMAIN scores : scores[s] \in Row
    BY <2>1, ElementOfSeq
  <2>3. \A s \in DOMAIN scores : s \in DOMAIN rows'["tr_score"]
                                 /\ rows'["tr_score"][s].cond = scores[s].cond
    BY <2>1, <2>2 DEF Row
  <2>. QED
    BY <2>1, <2>3 DEF RowsKept
<1>. QED
  BY <1>1, <1>2, <1>3 DEF InsertStep, Query, StoreResult

\* A task that does nothing is as far as it was.
LEMMA StoreFrame ==
  ASSUME Inv, RowsKept, NEW u \in Task, StoreOf(u),
         step'[u] = step[u], ids'[u] = ids[u], round'[u] = round[u],
         step[u][1] = "restore" => result' = result
  PROVE  StoreOf(u)'
<1>1. step[u][2] \in Table
  BY DEF Inv, DbTypeOK
<1>2. (step[u] # Idle => \A tb \in Passed[step[u][2]] : ids[u][tb] # -1)'
  BY DEF StoreOf, Idle
<1>3. (step[u][1] = "reselect" => Matching(step[u][2], Cond(u, step[u][2])) # {})'
  <2>1. Cond(u, step[u][2])' = Cond(u, step[u][2])
    BY DEF Cond
  <2>2. \A c : Matching(step[u][2], c) \subseteq Matching(step[u][2], c)'
    BY <1>1 DEF RowsKept, Matching
  <2>. QED
    BY <2>1, <2>2 DEF StoreOf
<1>4. (step[u][1] = "restore" => result # {})'
  BY DEF StoreOf
<1>5. (\A r \in Round :
         (r < round[u] \/ (r = round[u] /\ step[u] = Idle)) => Stored(u, r))'
  BY StoredStable DEF StoreOf, Idle
<1>. QED
  BY <1>2, <1>3, <1>4, <1>5 DEF StoreOf

LEMMA StoreInit == DbInit => StoreInv /\ ScoreRounds
<1>. SUFFICES ASSUME DbInit  PROVE StoreInv /\ ScoreRounds
  OBVIOUS
<1>1. \A t \in Task : step[t] = Idle /\ round[t] = 0
  BY DEF DbInit
<1>2. DOMAIN rows["tr_score"] = {}
  BY DEF DbInit, Table
<1>3. \A r \in Round : r > 0
  BY TrDbAssumption DEF Round
<1>. QED
  BY <1>1, <1>2, <1>3 DEF StoreInv, StoreOf, ScoreRounds, Idle, Round

LEMMA StoreBeginInsert ==
  ASSUME Inv, StoreInv, ScoreRounds, NEW t \in Task, BeginInsert(t)
  PROVE  StoreInv' /\ ScoreRounds'
<1>1. /\ step[t] = Idle /\ round' = [round EXCEPT ![t] = @ + 1]
      /\ UNCHANGED <<connected, rows, faults, result>>
      /\ \/ connected /\ step' = [step EXCEPT ![t] = <<"select", "tr_user">>]
            /\ ids' = [ids EXCEPT ![t] = NoIds]
         \/ ~connected /\ UNCHANGED <<step, ids>>
  BY DEF BeginInsert
<1>2. /\ step \in [Task -> Phase \X Table] /\ round \in [Task -> 0..MaxRound]
      /\ ids \in [Task -> [Table -> Int]] /\ MaxRound \in Nat
  BY TrDbAssumption DEF Inv, DbTypeOK
<1>3. RowsKept
  BY <1>1 DEF RowsKept
<1>4. ASSUME NEW u \in Task \ {t}
      PROVE  step'[u] = step[u] /\ ids'[u] = ids[u] /\ round'[u] = round[u]
  BY <1>1, <1>2
<1>5. round'[t] = round[t] + 1 /\ round[t] \in Nat
  BY <1>1, <1>2
<1>6. StoreInv'
  <2>. SUFFICES ASSUME connected, faults = 0, NEW u \in Task  PROVE StoreOf(u)'
    BY <1>1 DEF StoreInv
  <2>1. CASE u # t
    BY <2>1, <1>1, <1>3, <1>4, StoreFrame DEF StoreInv
  <2>2. CASE u = t
    <3>1. step'[t] = <<"select", "tr_user">>
      BY <1>1, <1>2
    <3>2. ASSUME NEW r \in Round, r < round'[t]  PROVE Stored(t, r)'
      <4>1. r <= round[t] /\ r \in Nat
        BY <3>2, <1>5 DEF Round
      <4>2. Stored(t, r)
        BY <4>1, <1>1, <1>5 DEF StoreInv, StoreOf
      <4>. QED
        BY <4>2, <1>3, StoredStable
    <3>3. Passed["tr_user"] = {}
      BY DEF Passed
    <3>. QED
      BY <2>2, <3>1, <3>2, <3>3 DEF StoreOf, Idle
  <2>. QED
    BY <2>1, <2>2
<1>7. ScoreRounds'
  <2>1. \A u \in Task : step'[u] # Idle => round'[u] > 0
    BY <1>4, <1>5 DEF ScoreRounds
  <2>2. \A u \in Task : step'[u][1] = "update" => step'[u] = step[u] /\ u # t
    BY <1>1, <1>2, <1>4 DEF Idle
  <2>3. \A u \in Task : step'[u][1] = "update" =>
          step'[u][2] = "tr_score" /\ rows'["tr_score"][ids'[u]["tr_score"]].cond.count = round'[u]
    BY <2>2, <1>1, <1>4 DEF ScoreRounds
  <2>4. \A u \in Task : round[u] <= round'[u] /\ round[u] \in Int /\ round'[u] \in Int
    BY <1>2, <1>4, <1>5
  <2>5. \A s \in DOMAIN rows["tr_score"] : rows["tr_score"][s].by \in Task
    <3>. SUFFICES ASSUME NEW s \in DOMAIN rows["tr_score"]  PROVE rows["tr_score"][s].by \in Task
      OBVIOUS
    <3>1. rows["tr_score"] \in Seq(Row)
      BY RowIds DEF Inv, Table
    <3>2. rows["tr_score"][s] \in Row
      BY <3>1, ElementOfSeq
    <3>. QED
      BY <3>2 DEF Row
  <2>6. \A s \in DOMAIN rows'["tr_score"] :
          rows'["tr_score"][s].cond.count \in 1..round'[rows'["tr_score"][s].by]
    BY <1>1, <2>4, <2>5 DEF ScoreRounds
  <2>. QED
    BY <2>1, <2>3, <2>6 DEF ScoreRounds, Idle
<1>. QED
  BY <1>6, <1>7

\* A task that stores keeps the rounds of the scores, if it does for the rows it
\* writes and for the score it is about to update.
LEMMA RoundsFrame ==
  ASSUME Inv, ScoreRounds, RowsKept, NEW t \in Task, step[t] # Idle, round' = round,
         \A u \in Task \ {t} : step'[u] = step[u] /\ ids'[u] = ids[u],
         step'[t][1] = "update" =>
           /\ step'[t][2] = "tr_score"
           /\ rows'["tr_score"][ids'[t]["tr_score"]].cond.count = round[t],
         \A s \in DOMAIN rows'["tr_score"] :
           rows'["tr_score"][s].cond.count \in 1..round[rows'["tr_score"][s].by]
  PROVE  ScoreRounds'
<1>1. \A u \in Task : step'[u] # Idle => round[u] > 0
  BY DEF ScoreRounds
<1>2. ASSUME NEW u \in Task \ {t}, step'[u][1] = "update"
      PROVE  /\ step'[u][2] = "tr_score"
             /\ rows'["tr_score"][ids'[u]["tr_score"]].cond.count = round[u]
  <2>1. step[u][1] = "update" /\ ids'[u] = ids[u]
    BY <1>2
  <2>2. IsScore(ids[u]["tr_score"], u)
    BY <2>1 DEF Inv, Section, IdsAreOwn
  <2>3. rows'["tr_score"][ids[u]["tr_score"]].cond = rows["tr_score"][ids[u]["tr_score"]].cond
    BY <2>2 DEF IsScore, Exists, RowsKept, Table
  <2>. QED
    BY <2>1, <2>3 DEF ScoreRounds
<1>. QED
  BY <1>1, <1>2 DEF ScoreRounds, Idle

LEMMA StoreQuery ==
  ASSUME Inv, StoreInv, ScoreRounds, ServerTables = Table, NEW t \in Task, Query(t)
  PROVE  StoreInv' /\ ScoreRounds'
<1>. DEFINE tb == step[t][2]
<1>1. /\ step[t][1] \in {"select", "reselect"} /\ critical = NoTask
      /\ step' = [step EXCEPT ![t] = <<IF @[1] = "select" THEN "store" ELSE "restore", tb>>]
      /\ UNCHANGED <<connected, rows, ids, round>>
  BY DEF Query, EnterSection
<1>2. step \in [Task -> Phase \X Table] /\ tb \in Table /\ faults \in Nat
  BY DEF Inv, DbTypeOK
<1>3. RowsKept
  BY <1>1 DEF RowsKept
<1>4. /\ step'[t] = <<IF step[t][1] = "select" THEN "store" ELSE "restore", tb>>
      /\ \A u \in Task \ {t} : step'[u] = step[u]
      /\ step[t] # Idle /\ step'[t] # Idle
  BY <1>1, <1>2 DEF Idle
<1>5. ScoreRounds'
  BY <1>1, <1>3, <1>4, RoundsFrame DEF ScoreRounds
<1>6. StoreInv'
  <2>. SUFFICES ASSUME connected, faults' = 0, NEW u \in Task  PROVE StoreOf(u)'
    BY <1>1 DEF StoreInv
  <2>1. faults = 0 /\ result' = Matching(tb, Cond(t, tb))
    BY <1>2 DEF Query, CountFault
  <2>2. CASE u # t
    <3>1. step[u][1] # "restore"
      BY <1>1, TrDbAssumption DEF Inv, Section
    <3>. QED
      BY <2>1, <2>2, <3>1, <1>1, <1>3, <1>4, StoreFrame DEF StoreInv
  <2>3. CASE u = t
    <3>1. StoreOf(t)
      BY <2>1 DEF StoreInv
    <3>2. step'[t][2] = tb /\ step'[t][1] # "reselect"
      BY <1>4
    <3>3. \A x \in Passed[tb] : ids'[t][x] # -1
      BY <3>1, <1>1, <1>4 DEF StoreOf
    <3>4. step'[t][1] = "restore" => result' # {}
      BY <3>1, <2>1, <1>1, <1>4 DEF StoreOf
    <3>5. \A r \in Round : r < round'[t] => Stored(t, r)'
      BY <3>1, <1>1, <1>3, StoredStable DEF StoreOf
    <3>. QED
      BY <2>3, <3>2, <3>3, <3>4, <3>5, <1>4 DEF StoreOf, Idle
  <2>. QED
    BY <2>2, <2>3
<1>. QED
  BY <1>5, <1>6

\* The table after a table comes after that one too.
LEMMA PassedFacts ==
  /\ Passed["tr_user"] = {}
  /\ \A tb \in Table \ {"tr_score"} :
       NextTable[tb] \in Table /\ Passed[NextTable[tb]] = Passed[tb] \cup {tb}
  /\ \A tb \in Table : tb \notin Passed[tb] /\ Passed[tb] \subseteq Table
  /\ \A tb \in DOMAIN Parent : Parent[tb] \in Passed[tb]
  /\ "tr_mod" \in Passed["tr_score"]
BY ParentFacts DEF Passed, NextTable, Table

LEMMA StoreStoreResult ==
  ASSUME Inv, StoreInv, ScoreRounds, NEW t \in Task, StoreResult(t)
  PROVE  StoreInv' /\ ScoreRounds'
<1>. DEFINE tb == step[t][2]
           next(id) == IF step[t][1] = "store" THEN AfterFirstSelect(tb, id) ELSE AfterTable(tb)
<1>1. /\ step[t][1] \in {"store", "restore"} /\ step[t] # Idle
      /\ UNCHANGED <<connected, rows, round, faults>>
  BY DEF StoreResult, Idle
<1>2. /\ step \in [Task -> Phase \X Table] /\ ids \in [Task -> [Table -> Int]]
      /\ tb \in Table /\ round[t] \in 0..MaxRound /\ MaxRound \in Nat
  BY TrDbAssumption DEF Inv, DbTypeOK
<1>3. PICK id \in IF result = {} THEN {-1} ELSE result :
        /\ step' = [step EXCEPT ![t] = next(id)]
        /\ ids' = [ids EXCEPT ![t] = IF next(id) = Idle THEN NoIds ELSE [@ EXCEPT ![tb] = id]]
  BY DEF StoreResult
<1>4. /\ step'[t] = next(id)
      /\ next(id) # Idle => ids'[t] = [ids[t] EXCEPT ![tb] = id]
      /\ \A u \in Task \ {t} : step'[u] = step[u] /\ ids'[u] = ids[u]
  BY <1>2, <1>3
<1>5. RowsKept
  BY <1>1 DEF RowsKept
<1>6. /\ critical = t
      /\ result # {} =>
           id \in DOMAIN rows[tb] /\ rows[tb][id].cond = Cond(t, tb) /\ Own(id, t, tb)
    BY <1>1, <1>2, <1>3, AnswerOwn DEF Inv, Section, Matching
<1>7. result # {} => id \in Nat /\ id > 0
  BY <1>2, <1>6, RowIds DEF Inv
<1>8. next(id)[1] = "update" =>
        next(id) = <<"update", "tr_score">> /\ tb = "tr_score" /\ result # {}
  BY <1>3 DEF AfterFirstSelect, AfterTable, Idle
<1>9. ScoreRounds'
  <2>1. next(id)[1] = "update" => rows["tr_score"][ids'[t]["tr_score"]].cond.count = round[t]
    <3>. SUFFICES ASSUME next(id)[1] = "update"
                  PROVE  rows["tr_score"][ids'[t]["tr_score"]].cond.count = round[t]
      OBVIOUS
    <3>1. next(id) # Idle /\ tb = "tr_score" /\ result # {}
      BY <1>8 DEF Idle
    <3>2. ids'[t]["tr_score"] = id
      BY <3>1, <1>2, <1>4
    <3>3. rows["tr_score"][id].cond = Cond(t, "tr_score")
      BY <3>1, <1>6
    <3>. QED
      BY <3>2, <3>3, CondFields
  <2>. HIDE DEF next
  <2>. QED
    BY <2>1, <1>1, <1>4, <1>5, <1>8, RoundsFrame DEF ScoreRounds
<1>10. StoreInv'
  <2>. SUFFICES ASSUME connected, faults = 0, NEW u \in Task  PROVE StoreOf(u)'
    BY <1>1 DEF StoreInv
  <2>1. CASE u # t
    <3>1. step[u][1] # "restore"
      BY <2>1, <1>6 DEF Inv, Section
    <3>. QED
      BY <2>1, <3>1, <1>1, <1>4, <1>5, StoreFrame DEF StoreInv
  <2>2. CASE u = t
    <3>1. StoreOf(t)
      BY DEF StoreInv
    <3>2. step[t][1] = "restore" => result # {}
      BY <3>1 DEF StoreOf
    <3>3. next(id)[1] \notin {"reselect", "restore"}
      BY DEF AfterFirstSelect, AfterTable, Idle
    <3>4. next(id) # Idle => \A x \in Passed[next(id)[2]] : ids'[t][x] # -1
      <4>1. \A x \in Passed[tb] : ids[t][x] # -1 /\ x # tb /\ x \in Table
        BY <3>1, <1>1, <1>2, PassedFacts DEF StoreOf
      <4>2. next(id) # Idle => \A x \in Passed[tb] : ids'[t][x] # -1
        BY <4>1, <1>2, <1>4
      <4>3. CASE next(id)[2] = tb
        BY <4>2, <4>3
      <4>4. CASE next(id) = <<"select", NextTable[tb]>> /\ tb # "tr_score" /\ result # {}
        <5>1. next(id) # Idle => ids'[t][tb] = id
          BY <1>2, <1>4
        <5>2. Passed[next(id)[2]] = Passed[tb] \cup {tb}
          BY <4>4, <1>2, PassedFacts
        <5>. QED
          BY <5>1, <5>2, <4>2, <4>4, <1>7
      <4>5. next(id) = Idle \/ next(id)[2] = tb
            \/ (next(id) = <<"select", NextTable[tb]>> /\ tb # "tr_score" /\ result # {})
        <5>1. id < 0 <=> result = {}
          BY <1>3, <1>7
        <5>. QED
          BY <3>2, <5>1, <1>1 DEF AfterFirstSelect, AfterTable
      <4>. QED
        BY <4>3, <4>4, <4>5
    <3>5. ASSUME NEW r \in Round, r < round[t]  PROVE Stored(t, r)'
      BY <3>1, <3>5, <1>5, StoredStable DEF StoreOf
    <3>6. next(id) = Idle /\ round[t] \in Round => Stored(t, round[t])
      <4>1. next(id) = Idle => tb = "tr_score" /\ result # {}
        BY <3>2, <1>1 DEF AfterFirstSelect, AfterTable, Idle
      <4>2. next(id) = Idle => IsScore(id, t) /\ rows["tr_score"][id].cond.count = round[t]
        <5>. SUFFICES ASSUME next(id) = Idle
                      PROVE  IsScore(id, t) /\ rows["tr_score"][id].cond.count = round[t]
          OBVIOUS
        <5>1. tb = "tr_score" /\ result # {}
          BY <4>1
        <5>2. Own(id, t, "tr_score") /\ rows["tr_score"][id].cond = Cond(t, "tr_score")
          BY <5>1, <1>6
        <5>. QED
          BY <5>2, CondFields DEF Own
      <4>. QED
        BY <4>1, <4>2, <1>6 DEF Stored
    <3>. HIDE DEF next
    <3>7. \A r \in Round :
            (r < round[t] \/ (r = round[t] /\ step'[t] = Idle)) => Stored(t, r)'
      <4>1. \A r \in Round : r = round[t] /\ next(id) = Idle => Stored(t, r)'
        BY <3>6, <1>5, StoredStable
      <4>. QED
        BY <3>5, <4>1, <1>4
    <3>. QED
      BY <2>2, <3>3, <3>4, <3>7, <1>1, <1>4 DEF StoreOf, Idle
  <2>. QED
    BY <2>1, <2>2
<1>. QED
  BY <1>9, <1>10

LEMMA StoreInsert ==
  ASSUME Inv, StoreInv, ScoreRounds, ServerTables = Table, NEW t \in Task, Insert(t)
  PROVE  StoreInv' /\ ScoreRounds'
<1>. DEFINE tb == step[t][2]
           row == [cond |-> Cond(t, tb), by |-> t]
<1>1. /\ step[t][1] = "insert" /\ critical = NoTask /\ step[t] # Idle
      /\ step' = [step EXCEPT ![t] = <<"reselect", tb>>]
      /\ UNCHANGED <<critical, connected, result, ids, round>>
  BY DEF Insert, Idle
<1>2. /\ step \in [Task -> Phase \X Table] /\ tb \in Table /\ faults \in Nat
      /\ round[t] \in 0..MaxRound /\ MaxRound \in Nat
  BY TrDbAssumption DEF Inv, DbTypeOK
<1>3. RowsKept
  BY StepKeepsRows DEF InsertStep
<1>4. /\ step'[t] = <<"reselect", tb>>
      /\ \A u \in Task \ {t} : step'[u] = step[u]
  BY <1>1, <1>2
<1>5. rows' = rows \/ rows' = [rows EXCEPT ![tb] = Append(@, row)]
  BY DEF Insert
<1>6. ASSUME rows' = [rows EXCEPT ![tb] = Append(@, row)]
      PROVE  /\ \A x \in Table \ {tb} : rows'[x] = rows[x]
             /\ DOMAIN rows'[tb] = DOMAIN rows[tb] \cup {Len(rows[tb]) + 1}
             /\ \A id \in DOMAIN rows[tb] : rows'[tb][id] = rows[tb][id]
             /\ rows'[tb][Len(rows[tb]) + 1] = row
  <2>1. /\ rows[tb] \in Seq(Row) /\ Len(rows[tb]) \in Nat
        /\ DOMAIN rows[tb] = 1..Len(rows[tb])
        /\ rows'[tb] = Append(rows[tb], row)
        /\ \A x \in Table \ {tb} : rows'[x] = rows[x]
    BY <1>6, <1>2, RowIds DEF Inv, DbTypeOK
  <2>. QED
    BY <2>1
<1>7. ScoreRounds'
  <2>1. \A s \in DOMAIN rows'["tr_score"] :
          rows'["tr_score"][s].cond.count \in 1..round[rows'["tr_score"][s].by]
    <3>1. CASE rows' = rows
      BY <3>1 DEF ScoreRounds
    <3>2. CASE rows' # rows
      <4>1. row.by = t /\ (tb = "tr_score" => row.cond.count = round[t])
        BY CondFields
      <4>2. round[t] \in Nat /\ round[t] > 0
        BY <1>1, <1>2 DEF ScoreRounds
      <4>3. ASSUME NEW s \in DOMAIN rows'["tr_score"]
            PROVE  \/ s \in DOMAIN rows["tr_score"] /\ rows'["tr_score"][s] = rows["tr_score"][s]
                   \/ tb = "tr_score" /\ rows'["tr_score"][s] = row
        BY <3>2, <1>5, <1>6, <4>3 DEF Table
      <4>. HIDE DEF row
      <4>. QED
        BY <4>1, <4>2, <4>3 DEF ScoreRounds
    <3>. QED
      BY <3>1, <3>2
  <2>. QED
    BY <2>1, <1>1, <1>3, <1>4, RoundsFrame
<1>8. StoreInv'
  <2>. SUFFICES ASSUME connected, faults' = 0, NEW u \in Task  PROVE StoreOf(u)'
    BY <1>1 DEF StoreInv
  <2>1. /\ faults = 0
        /\ Accepts(tb, Cond(t, tb)) => rows' = [rows EXCEPT ![tb] = Append(@, row)]
    BY <1>2 DEF Insert, CountFault
  <2>2. CASE u # t
    BY <2>1, <2>2, <1>1, <1>3, <1>4, StoreFrame DEF StoreInv
  <2>3. CASE u = t
    <3>1. StoreOf(t)
      BY <2>1 DEF StoreInv
    <3>2. \A x \in Passed[tb] : x \in Table /\ ids[t][x] # -1
      BY <3>1, <1>1, <1>2, PassedFacts DEF StoreOf
    <3>3. \A x \in Passed[tb] : Exists(x, ids[t][x])
      BY <3>2, IdsAreOwnTables DEF Inv, Own, IsUser, IsMod, IsMapset, IsDiff, IsScore, Table
    <3>4. ForeignKeysHold(tb, Cond(t, tb))
      BY <3>3, <1>2, PassedFacts DEF ForeignKeysHold, Cond
    <3>5. rows' = [rows EXCEPT ![tb] = Append(@, row)]
      BY <2>1, <3>4 DEF Accepts
    <3>6. Matching(tb, Cond(t, tb))' # {}
      <4>1. Cond(t, tb)' = Cond(t, tb)
        <5>1. tb' = tb
          BY <1>4
        <5>. HIDE DEF tb
        <5>. QED
          BY <5>1, <1>1 DEF Cond, NameOf
      <4>2. \E id \in DOMAIN rows'[tb] : rows'[tb][id].cond = Cond(t, tb)
        BY <3>5, <1>6
      <4>. QED
        BY <4>1, <4>2, <1>4 DEF Matching
    <3>7. \A r \in Round : r < round[t] => Stored(t, r)'
      BY <3>1, <1>3, StoredStable DEF StoreOf
    <3>. QED
      BY <2>3, <3>2, <3>6, <3>7, <1>1, <1>4 DEF StoreOf, Idle
  <2>. QED
    BY <2>2, <2>3
<1>. QED
  BY <1>7, <1>8

LEMMA StoreUpdate ==
  ASSUME Inv, StoreInv, ScoreRounds, ServerTables = Table, NEW t \in Task, Update(t)
  PROVE  StoreInv' /\ ScoreRounds'
<1>. DEFINE i == ids[t]["tr_score"]
           scores == rows["tr_score"]
<1>1. /\ step[t] = <<"update", "tr_score">> /\ critical = NoTask /\ step[t] # Idle
      /\ step' = [step EXCEPT ![t] = Idle] /\ ids' = [ids EXCEPT ![t] = NoIds]
      /\ UNCHANGED <<critical, connected, result, round>>
      /\ rows' = rows \/ rows' = [rows EXCEPT !["tr_score"][i].by = t]
  BY DEF Update, Idle
<1>2. /\ step \in [Task -> Phase \X Table] /\ ids \in [Task -> [Table -> Int]] /\ faults \in Nat
      /\ round[t] \in 0..MaxRound /\ MaxRound \in Nat
  BY TrDbAssumption DEF Inv, DbTypeOK
<1>3. RowsKept
  BY StepKeepsRows DEF InsertStep
<1>4. /\ step'[t] = Idle
      /\ \A u \in Task \ {t} : step'[u] = step[u] /\ ids'[u] = ids[u]
  BY <1>1, <1>2
<1>5. IsScore(i, t) /\ i \in DOMAIN scores /\ scores[i].cond.count = round[t] /\ round[t] > 0
  BY <1>1 DEF Inv, Section, IdsAreOwn, ScoreRounds, IsScore, Exists
<1>6. ScoreRounds'
  <2>1. \A s \in DOMAIN rows'["tr_score"] :
          rows'["tr_score"][s].cond.count \in 1..round[rows'["tr_score"][s].by]
    <3>1. CASE rows' = rows
      BY <3>1 DEF ScoreRounds
    <3>2. CASE rows' # rows
      <4>1. /\ rows'["tr_score"] = [scores EXCEPT ![i].by = t]
            /\ scores \in Seq(Row)
        BY <3>2, <1>1, RowIds DEF Inv, DbTypeOK, Table
      <4>2. \A s \in DOMAIN scores : scores[s] \in Row
        BY <4>1, ElementOfSeq
      <4>3. /\ DOMAIN rows'["tr_score"] = DOMAIN scores
            /\ \A s \in DOMAIN scores \ {i} : rows'["tr_score"][s] = scores[s]
            /\ rows'["tr_score"][i] = [scores[i] EXCEPT !.by = t]
        BY <4>1, <1>5
      <4>4. rows'["tr_score"][i].by = t /\ rows'["tr_score"][i].cond = scores[i].cond
        BY <4>2, <4>3, <1>5 DEF Row
      <4>. QED
        <5>. SUFFICES ASSUME NEW s \in DOMAIN scores
                      PROVE  rows'["tr_score"][s].cond.count
                               \in 1..round[rows'["tr_score"][s].by]
          BY <4>3
        <5>1. CASE s = i
          BY <5>1, <4>4, <1>2, <1>5
        <5>2. CASE s # i
          BY <5>2, <4>3 DEF ScoreRounds
        <5>. QED
          BY <5>1, <5>2
    <3>. QED
      BY <3>1, <3>2
  <2>. QED
    BY <2>1, <1>1, <1>3, <1>4, RoundsFrame DEF Idle
<1>7. StoreInv'
  <2>. SUFFICES ASSUME connected, faults' = 0, NEW u \in Task  PROVE StoreOf(u)'
    BY <1>1 DEF StoreInv
  <2>1. faults = 0
    BY <1>2 DEF Update, CountFault, Table
  <2>2. CASE u # t
    BY <2>1, <2>2, <1>1, <1>3, <1>4, StoreFrame DEF StoreInv
  <2>3. CASE u = t
    <3>1. \A r \in Round : r < round[t] => Stored(t, r)'
      BY <2>1, <1>3, StoredStable DEF StoreInv, StoreOf
    <3>2. \A r \in Round : r = round[t] => Stored(t, r)'
      <4>1. Stored(t, round[t])
        BY <1>5 DEF Stored
      <4>. QED
        BY <4>1, <1>3, StoredStable
    <3>. QED
      BY <2>3, <3>1, <3>2, <1>1, <1>4 DEF StoreOf, Idle
  <2>. QED
    BY <2>2, <2>3
<1>. QED
  BY <1>6, <1>7

LEMMA StoreNext ==
  ServerTables = Table /\ Inv /\ StoreInv /\ ScoreRounds /\ [DbNext]_dbvars
    => StoreInv' /\ ScoreRounds'
<1>. SUFFICES ASSUME ServerTables = Table, Inv, StoreInv, ScoreRounds, [DbNext]_dbvars
              PROVE  StoreInv' /\ ScoreRounds'
  OBVIOUS
<1>1. CASE UNCHANGED dbvars
  <2>1. UNCHANGED <<connected, result, rows, step, ids, round, faults>>
    BY <1>1 DEF dbvars
  <2>2. RowsKept
    BY <2>1 DEF RowsKept
  <2>3. StoreInv'
    BY <2>1, <2>2, StoreFrame DEF StoreInv
  <2>4. ScoreRounds'
    BY <2>1 DEF ScoreRounds
  <2>. QED
    BY <2>3, <2>4
<1>2. ASSUME NEW t \in Task, BeginInsert(t)  PROVE StoreInv' /\ ScoreRounds'
  BY <1>2, StoreBeginInsert
<1>3. ASSUME NEW t \in Task, InsertStep(t)  PROVE StoreInv' /\ ScoreRounds'
  BY <1>3, StoreQuery, StoreStoreResult, StoreInsert, StoreUpdate DEF InsertStep
<1>. QED
  BY <1>1, <1>2, <1>3 DEF DbNext, DbTerminated

\* With a server that has the program's tables, each call of trm_db_insert that
\* has returned has left its score in the database.
THEOREM AllStored == ServerTables = Table => (DbSpec => []ResultsStored)
<1>. SUFFICES ASSUME ServerTables = Table  PROVE DbSpec => []ResultsStored
  OBVIOUS
<1>1. StoreInv => ResultsStored
  BY DEF StoreInv, StoreOf, ResultsStored
<1>2. Inv /\ StoreInv /\ ScoreRounds /\ [DbNext]_dbvars => StoreInv' /\ ScoreRounds'
  BY StoreNext
<1>. QED
  BY <1>1, <1>2, InvInit, InvNext, StoreInit, PTL DEF DbSpec

\* The same as rules, for a module that has this one as an instance.
LEMMA StoreStarts ==
  ASSUME DbInit
  PROVE  Inv /\ StoreInv /\ ScoreRounds
BY InvInit, StoreInit

LEMMA StoreSteps ==
  ASSUME ServerTables = Table, Inv, StoreInv, ScoreRounds, [DbNext]_dbvars
  PROVE  Inv' /\ StoreInv' /\ ScoreRounds'
BY InvNext, StoreNext
=============================================================================
