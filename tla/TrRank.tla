------------------------------ MODULE TrRank ------------------------------
(***************************************************************************)
(* taiko_ranking with +db: TrMain and TrDb put together.  The printing of  *)
(* TrMain and the statements of TrDb are in the SAME unnamed `omp critical'*)
(* section, so the variable critical is shared; a task is a position of    *)
(* argv in both.                                                           *)
(***************************************************************************)
EXTENDS TrMain

CONSTANTS Name, Key, ServerTables, MaxFaults \* as in TrDb

VARIABLES connected, result, rows, step, ids, round, faults \* as in TrDb

onlydbvars == <<connected, result, rows, step, ids, round, faults>>
onlymainvars == <<argv, pc, i, nb_map, gconf, lconf, task, inlined, yaml_prefix, out, results>>

\* The tasks that may be made: one per file of the command line.
DbTask == DOMAIN Key

Db == INSTANCE TrDb WITH Task <- DbTask, MaxRound <- MaxPrint

\* What TrDb assumes of its constants.
ASSUME TrRankAssumption ==
  /\ NoTask \notin DbTask
  /\ Key \in [DbTask -> [creator : Name, title : Name, diff : Name, mods : Name]]
  /\ ServerTables \subseteq Db!Table
  /\ MaxFaults \in Nat

-----------------------------------------------------------------------------
RankInit == Init /\ Db!DbInit

\* A step of main, which does nothing with the database.
MainAlone == MainStep /\ UNCHANGED onlydbvars

\* Task p calls trm_db_insert, once for each result it has printed.
CallInsert(p) ==
  /\ task[p].stage = "db" /\ round[p] < task[p].printed
  /\ Db!BeginInsert(p)
  /\ UNCHANGED onlymainvars

InInsert(p) == Db!InsertStep(p) /\ UNCHANGED onlymainvars

ReturnFromInsert(p) ==
  /\ round[p] = task[p].printed /\ step[p] = Db!Idle
  /\ DbReturn(p)
  /\ UNCHANGED onlydbvars

TaskInDb(p) == p \in DOMAIN task /\ (CallInsert(p) \/ InInsert(p) \/ ReturnFromInsert(p))

\* A step of task p outside the database.
TaskAlone(p) ==
  /\ p \in DOMAIN task
  /\ StartTask(p) \/ Rate(p) \/ PrintBegin(p) \/ PrintEnd(p)
  /\ UNCHANGED onlydbvars

RankTerminated == Terminated /\ UNCHANGED onlydbvars

RankNext ==
  \/ MainAlone
  \/ \E p \in DbTask : TaskInDb(p) \/ TaskAlone(p)
  \/ RankTerminated

RankSpec == RankInit /\ [][RankNext]_<<vars, onlydbvars>>

-----------------------------------------------------------------------------
(***************************************************************************)
(* Properties.                                                             *)
(***************************************************************************)

\* The critical section as trm_db_insert sees it: a task that prints is in the
\* section for something else.
DbCritical ==
  IF critical \in DOMAIN task /\ task[critical].stage = "printing" THEN NoTask ELSE critical

Alone == INSTANCE TrDb WITH
  Task <- DbTask, MaxRound <- MaxPrint, critical <- DbCritical

\* Inside the whole program trm_db_insert behaves as TrDb says it does alone:
\* the tasks that print, wait for a thread or still have to be made neither
\* disturb a SELECT nor put more tasks in the database than there are threads.
ImplementsDb == Alone!DbInit /\ [][Alone!DbNext]_(Alone!dbvars)

\* The critical section as main.c sees it: a task that is in it for the
\* database is not printing.
MainCritical ==
  IF critical \in DOMAIN task /\ task[critical].stage = "printing" THEN critical ELSE NoTask

Main == INSTANCE TrMain WITH critical <- MainCritical

\* And with the database the program still runs as TrMain says it does: a call
\* of trm_db_insert takes the section from no task that is printing, and gives
\* it back, whichever of its queries failed.
ImplementsMain == Main!Init /\ [][Main!Next]_(Main!vars)

\* So the two share the section as if each had one of its own: the program is
\* TrMain, and TrDb, at once.
ImplementsBoth == ImplementsMain /\ ImplementsDb

\* When the program ends, every result it has printed is also in the database
\* as a score of the file it was printed for, if the connection was made and
\* no query failed; and the database has no score that was not printed.
Printed(p) == Cardinality({k \in DOMAIN results : results[k].file = p})
EveryResultStored ==
  pc = "done" /\ gconf.db # 0 /\ connected /\ faults = 0 =>
    /\ \A p \in DbTask : \A r \in 1..Printed(p) : Db!Stored(p, r)
    /\ \A s \in DOMAIN rows["tr_score"] :
         rows["tr_score"][s].cond.count \in 1..Printed(rows["tr_score"][s].by)
=============================================================================
