---------------------------- MODULE TrRankProofs ----------------------------
(***************************************************************************)
(* Proofs about TrRank, the whole of taiko_ranking with its database, for  *)
(* any command lines, options, files, number of threads and failures.      *)
(* IsTask, NotMadeYet, ResultsOf and the lemmas about sequences are of     *)
(* TrMainProofs.                                                           *)
(***************************************************************************)
EXTENDS TrRank, TrMainProofs

\* The values of the variables that the proofs look at.
RankTypeOK ==
  /\ argv \in CommandLines
  /\ i \in Nat \ {0}
  /\ DOMAIN task = DOMAIN argv
  /\ \A p \in DOMAIN task : IsTask(task[p])
  /\ step \in [DbTask -> Db!Phase \X Db!Table]
  /\ round \in [DbTask -> Nat]

\* A call of trm_db_insert is made by a task that has printed a result.
InDbStage ==
  \A p \in DbTask : step[p] # Db!Idle => p \in DOMAIN task /\ task[p].stage = "db"

\* Who is in the critical section: a task that prints, or one between its query
\* and its store_result; and they are in it.
InStore(p) == p \in DbTask /\ step[p][1] \in {"store", "restore"}
WhoIsIn ==
  /\ critical # NoTask =>
       /\ critical \in DOMAIN task
       /\ task[critical].stage = "printing" \/ InStore(critical)
  /\ \A p \in DOMAIN task : task[p].stage = "printing" => critical = p
  /\ \A p \in DbTask : InStore(p) => critical = p

\* There are no more running tasks than threads, main's loop being one of them.
EnoughThreads ==
  /\ IsFiniteSet(Running)
  /\ Cardinality(Running) + (IF InLoop THEN 1 ELSE 0) <= Workers

RankInv == RankTypeOK /\ NotMadeYet /\ InDbStage /\ WhoIsIn /\ EnoughThreads

-----------------------------------------------------------------------------
\* A position of the command line is not NoTask.
LEMMA Positions ==
  ASSUME RankTypeOK
  PROVE  /\ DOMAIN argv = 1..Len(argv) /\ Len(argv) \in Nat /\ Len(argv) <= MaxArgs
         /\ NoTask \notin DOMAIN task
         /\ IsFiniteSet(DOMAIN task)
<1>1. argv \in Seq(DOMAIN FirstChar) /\ Len(argv) <= MaxArgs
  BY TrMainAssumption DEF RankTypeOK
<1>2. DOMAIN argv = 1..Len(argv) /\ Len(argv) \in Nat
  BY <1>1
<1>3. MaxArgs \in Nat /\ NoTask \notin 1..MaxArgs
  BY TrMainAssumption
<1>4. IsFiniteSet(1..Len(argv))
  BY <1>2, FS_Interval
<1>. QED
  BY <1>1, <1>2, <1>3, <1>4 DEF RankTypeOK

\* What an action does to the tasks decides which of them run.
Busy(t) == t.stage \notin {"none", "queued", "done"}

LEMMA RunningFinite ==
  ASSUME RankTypeOK
  PROVE  IsFiniteSet(Running) /\ Cardinality(Running) \in Nat
<1>1. Running \subseteq DOMAIN task
  BY DEF Running
<1>. QED
  BY <1>1, Positions, FS_Subset, FS_CardinalityType

LEMMA RunningSame ==
  ASSUME DOMAIN task' = DOMAIN task,
         \A q \in DOMAIN task : Busy(task'[q]) <=> Busy(task[q])
  PROVE  Running' = Running
BY DEF Running, Busy

LEMMA RunningMore ==
  ASSUME RankTypeOK, DOMAIN task' = DOMAIN task, NEW p \in DOMAIN task,
         \A q \in DOMAIN task \ {p} : task'[q] = task[q],
         ~Busy(task[p])
  PROVE  /\ IsFiniteSet(Running')
         /\ Cardinality(Running') <= Cardinality(Running) + 1
<1>1. Running' \subseteq Running \cup {p}
  BY DEF Running, Busy
<1>2. IsFiniteSet(Running \cup {p}) /\ Cardinality(Running \cup {p}) = Cardinality(Running) + 1
  BY RunningFinite, FS_AddElement DEF Running, Busy
<1>3. Cardinality(Running') <= Cardinality(Running \cup {p}) /\ IsFiniteSet(Running')
  BY <1>1, <1>2, FS_Subset
<1>. QED
  BY <1>2, <1>3

LEMMA RunningLess ==
  ASSUME RankTypeOK, DOMAIN task' = DOMAIN task, NEW p \in DOMAIN task,
         \A q \in DOMAIN task \ {p} : task'[q] = task[q],
         Busy(task[p]), ~Busy(task'[p])
  PROVE  /\ IsFiniteSet(Running')
         /\ Cardinality(Running') = Cardinality(Running) - 1
<1>1. Running' = Running \ {p} /\ p \in Running
  BY DEF Running, Busy
<1>. QED
  BY <1>1, RunningFinite, FS_RemoveElement

-----------------------------------------------------------------------------
LEMMA RankInvInit == RankInit => RankInv
<1>. SUFFICES ASSUME RankInit  PROVE RankInv
  OBVIOUS
<1>1. RankTypeOK
  <2>1. argv \in CommandLines /\ DOMAIN task = DOMAIN argv /\ i = 1
    BY DEF RankInit, Init
  <2>2. ASSUME NEW p \in DOMAIN task  PROVE IsTask(task[p])
    BY <2>2 DEF RankInit, Init, IsTask, Stage
  <2>3. step \in [DbTask -> Db!Phase \X Db!Table] /\ round \in [DbTask -> Nat]
    BY DEF RankInit, Db!DbInit, Db!Idle, Db!Phase, Db!Table
  <2>. QED
    BY <2>1, <2>2, <2>3 DEF RankTypeOK
<1>2. \A p \in DOMAIN task : task[p].stage = "none"
  BY DEF RankInit, Init
<1>3. critical = NoTask /\ inlined = NoTask /\ pc = "globals"
  BY DEF RankInit, Init
<1>4. \A p \in DbTask : step[p] = Db!Idle
  BY DEF RankInit, Db!DbInit
<1>5. EnoughThreads
  <2>1. Running = {}
    BY <1>2 DEF Running
  <2>. QED
    BY <2>1, <1>3, FS_EmptySet, TrMainAssumption DEF EnoughThreads, InLoop
<1>. QED
  BY <1>1, <1>2, <1>3, <1>4, <1>5
  DEF RankInv, NotMadeYet, InDbStage, WhoIsIn, InStore, Db!Idle

\* The steps of main that make no task.
LEMMA InvMainPasses ==
  ASSUME RankInv,
         UNCHANGED <<argv, task, inlined, critical>>, UNCHANGED onlydbvars,
         i' \in Nat, i' >= i,
         \/ pc' = pc
         \/ pc = "globals" /\ pc' \in {"loop", "exit"}
         \/ pc' \notin {"globals", "loop"}
  PROVE  RankInv'
<1>1. UNCHANGED <<step, round>>
  BY DEF onlydbvars
<1>2. RankTypeOK'
  BY <1>1 DEF RankInv, RankTypeOK
<1>3. NotMadeYet'
  <2>1. \A p \in DOMAIN task : p \in Int /\ (p >= i' => p >= i)
    BY Positions DEF RankInv, RankTypeOK
  <2>2. (\A p \in DOMAIN task : p >= i => task[p].stage = "none")'
    BY <2>1 DEF RankInv, NotMadeYet
  <2>3. pc' = "globals" => pc = "globals"
    OBVIOUS
  <2>. QED
    BY <2>2, <2>3 DEF RankInv, NotMadeYet
<1>4. InDbStage' /\ WhoIsIn'
  BY <1>1 DEF RankInv, InDbStage, WhoIsIn, InStore
<1>5. Running' = Running
  BY DEF Running
<1>6. EnoughThreads'
  <2>1. CASE InLoop' => InLoop
    BY <2>1, <1>5, RunningFinite, TrMainAssumption DEF RankInv, EnoughThreads
  <2>2. CASE pc = "globals"
    <3>1. Running = {}
      BY <2>2 DEF RankInv, NotMadeYet, Running
    <3>. QED
      BY <3>1, <1>5, FS_EmptySet, TrMainAssumption DEF EnoughThreads
  <2>. QED
    BY <2>1, <2>2 DEF InLoop
<1>. QED
  BY <1>2, <1>3, <1>4, <1>6 DEF RankInv

LEMMA InvFileArgument ==
  ASSUME RankInv, FileArgument, UNCHANGED onlydbvars, Loads(argv[i])
  PROVE  RankInv'
<1>1. PICK own \in BOOLEAN :
        /\ task' = [task EXCEPT ![i] = [stage |-> IF own THEN "rating" ELSE "queued",
                                        conf |-> lconf, printed |-> 0]]
        /\ inlined' = IF own THEN i ELSE NoTask
  BY DEF FileArgument
<1>2. /\ pc = "loop" /\ pc' = pc /\ inlined = NoTask /\ InLoop
      /\ i \in DOMAIN task /\ i' = i + 1 /\ i \in Nat
      /\ UNCHANGED <<argv, critical, step, round>>
  BY Positions DEF FileArgument, InLoop, RankInv, RankTypeOK, onlydbvars
<1>3. /\ DOMAIN task' = DOMAIN task
      /\ \A q \in DOMAIN task \ {i} : task'[q] = task[q]
      /\ task'[i].stage = IF own THEN "rating" ELSE "queued"
      /\ task[i].stage = "none"
  BY <1>1, <1>2 DEF RankInv, NotMadeYet
<1>4. IsTask(task'[i])
  BY <1>1, <1>2 DEF IsTask, Stage
<1>5. RankTypeOK'
  BY <1>2, <1>3, <1>4 DEF RankInv, RankTypeOK
<1>6. NotMadeYet'
  BY <1>2, <1>3, Positions DEF RankInv, NotMadeYet, RankTypeOK
<1>7. InDbStage' /\ WhoIsIn'
  BY <1>2, <1>3 DEF RankInv, InDbStage, WhoIsIn, InStore
<1>8. EnoughThreads'
  <2>1. CASE own
    <3>1. ~InLoop'
      BY <2>1, <1>1, <1>2, Positions DEF InLoop, RankInv
    <3>2. IsFiniteSet(Running') /\ Cardinality(Running') <= Cardinality(Running) + 1
      BY <1>2, <1>3, RunningMore DEF RankInv, Busy
    <3>3. Cardinality(Running) + 1 <= Workers
      BY <1>2 DEF RankInv, EnoughThreads
    <3>4. Cardinality(Running') \in Nat /\ Cardinality(Running) \in Nat /\ Workers \in Nat
      BY <3>2, FS_CardinalityType, RunningFinite, TrMainAssumption DEF RankInv
    <3>. QED
      BY <3>1, <3>2, <3>3, <3>4 DEF EnoughThreads
  <2>2. CASE ~own
    <3>1. Running' = Running
      BY <2>2, <1>3, RunningSame DEF Busy
    <3>. QED
      BY <3>1, <2>2, <1>1, <1>2 DEF RankInv, EnoughThreads, InLoop
  <2>. QED
    BY <2>1, <2>2
<1>. QED
  BY <1>5, <1>6, <1>7, <1>8 DEF RankInv

LEMMA InvMain ==
  ASSUME RankInv, MainAlone
  PROVE  RankInv'
<1>0. UNCHANGED onlydbvars /\ MainStep /\ i \in Nat /\ i >= 0
  BY DEF MainAlone, RankInv, RankTypeOK
<1>1. CASE GlobalOption
  BY <1>0, <1>1, ConsumedType, InvMainPasses DEF GlobalOption
<1>2. CASE HelpOption
  BY <1>0, <1>2, InvMainPasses DEF HelpOption
<1>3. CASE EndGlobals
  BY <1>0, <1>3, InvMainPasses DEF EndGlobals
<1>4. CASE LocalOption
  BY <1>0, <1>4, ConsumedType, InvMainPasses DEF LocalOption
<1>5. CASE FileArgument
  <2>1. CASE Loads(argv[i])
    BY <2>1, <1>0, <1>5, InvFileArgument
  <2>2. CASE ~Loads(argv[i])
    BY <2>2, <1>0, <1>5, InvMainPasses DEF FileArgument
  <2>. QED
    BY <2>1, <2>2
<1>6. CASE EndLoop
  BY <1>0, <1>6, InvMainPasses DEF EndLoop
<1>7. CASE Barrier
  BY <1>0, <1>7, InvMainPasses DEF Barrier
<1>8. CASE Exit
  <2>1. UNCHANGED <<argv, i, task, inlined, critical>> /\ pc' = "done"
    BY <1>8 DEF Exit
  <2>. QED
    BY <1>0, <2>1, InvMainPasses
<1>. QED
  BY <1>0, <1>1, <1>2, <1>3, <1>4, <1>5, <1>6, <1>7, <1>8 DEF MainStep

-----------------------------------------------------------------------------
(***************************************************************************)
(* The steps of a task.                                                    *)
(***************************************************************************)

\* A step that changes task p alone, and not the database.
LEMMA InvOneTask ==
  ASSUME RankInv, NEW p \in DOMAIN task,
         UNCHANGED <<argv, pc, i>>, UNCHANGED onlydbvars,
         DOMAIN task' = DOMAIN task,
         \A q \in DOMAIN task \ {p} : task'[q] = task[q],
         IsTask(task'[p]),
         task[p].stage # "none",
         p \in DbTask /\ step[p] # Db!Idle => task'[p].stage = "db",
         WhoIsIn', EnoughThreads'
  PROVE  RankInv'
<1>1. UNCHANGED <<step, round>>
  BY DEF onlydbvars
<1>2. RankTypeOK'
  BY <1>1 DEF RankInv, RankTypeOK
<1>3. NotMadeYet'
  BY DEF RankInv, NotMadeYet
<1>4. InDbStage'
  BY <1>1 DEF RankInv, InDbStage
<1>. QED
  BY <1>2, <1>3, <1>4 DEF RankInv

LEMMA InvStartTask ==
  ASSUME RankInv, NEW p \in DOMAIN task, StartTask(p), UNCHANGED onlydbvars
  PROVE  RankInv'
<1>1. /\ task' = [task EXCEPT ![p].stage = "rating"]
      /\ task[p].stage = "queued" /\ FreeThreads > 0
      /\ UNCHANGED <<argv, pc, i, inlined, critical, step>>
  BY DEF StartTask, onlydbvars
<1>2. IsTask(task[p])
  BY DEF RankInv, RankTypeOK
<1>3. /\ DOMAIN task' = DOMAIN task
      /\ \A q \in DOMAIN task \ {p} : task'[q] = task[q]
      /\ task'[p].stage = "rating" /\ IsTask(task'[p])
  BY <1>1, <1>2 DEF IsTask, Stage
<1>4. WhoIsIn'
  BY <1>1, <1>3 DEF RankInv, WhoIsIn, InStore
<1>5. EnoughThreads'
  <2>1. IsFiniteSet(Running') /\ Cardinality(Running') <= Cardinality(Running) + 1
    BY <1>1, <1>3, RunningMore DEF RankInv, Busy
  <2>2. Cardinality(Running') \in Nat /\ Cardinality(Running) \in Nat /\ Workers \in Nat
    BY <2>1, FS_CardinalityType, RunningFinite, TrMainAssumption DEF RankInv
  <2>3. InLoop' = InLoop
    BY <1>1 DEF InLoop
  <2>. QED
    BY <1>1, <2>1, <2>2, <2>3 DEF FreeThreads, EnoughThreads
<1>6. p \in DbTask => step[p] = Db!Idle
  BY <1>1 DEF RankInv, InDbStage
<1>. QED
  BY <1>1, <1>3, <1>4, <1>5, <1>6, InvOneTask

LEMMA InvRate ==
  ASSUME RankInv, NEW p \in DOMAIN task, Rate(p), UNCHANGED onlydbvars
  PROVE  RankInv'
<1>1. /\ task' = [task EXCEPT ![p].stage = "rated"] /\ task[p].stage = "rating"
      /\ UNCHANGED <<argv, pc, i, inlined, critical, step>>
  BY DEF Rate, onlydbvars
<1>2. IsTask(task[p])
  BY DEF RankInv, RankTypeOK
<1>3. /\ DOMAIN task' = DOMAIN task
      /\ \A q \in DOMAIN task \ {p} : task'[q] = task[q]
      /\ task'[p].stage = "rated" /\ IsTask(task'[p])
  BY <1>1, <1>2 DEF IsTask, Stage
<1>4. WhoIsIn'
  BY <1>1, <1>3 DEF RankInv, WhoIsIn, InStore
<1>5. EnoughThreads'
  <2>1. Running' = Running
    BY <1>1, <1>3, RunningSame DEF Busy
  <2>. QED
    BY <1>1, <2>1 DEF RankInv, EnoughThreads, InLoop
<1>6. p \in DbTask => step[p] = Db!Idle
  BY <1>1 DEF RankInv, InDbStage
<1>. QED
  BY <1>1, <1>3, <1>4, <1>5, <1>6, InvOneTask

LEMMA InvPrintBegin ==
  ASSUME RankInv, NEW p \in DOMAIN task, PrintBegin(p), UNCHANGED onlydbvars
  PROVE  RankInv'
<1>1. /\ task' = [task EXCEPT ![p].stage = "printing"] /\ task[p].stage = "rated"
      /\ critical = NoTask /\ critical' = p
      /\ UNCHANGED <<argv, pc, i, inlined, step>>
  BY DEF PrintBegin, EnterSection, onlydbvars
<1>2. IsTask(task[p])
  BY DEF RankInv, RankTypeOK
<1>3. /\ DOMAIN task' = DOMAIN task
      /\ \A q \in DOMAIN task \ {p} : task'[q] = task[q]
      /\ task'[p].stage = "printing" /\ IsTask(task'[p])
  BY <1>1, <1>2 DEF IsTask, Stage
<1>4. WhoIsIn'
  <2>1. \A q \in DOMAIN task : task[q].stage # "printing"
    BY <1>1, Positions DEF RankInv, WhoIsIn
  <2>2. \A q \in DbTask : ~InStore(q)
    <3>1. \A q \in DbTask : InStore(q) => q \in DOMAIN task
      BY DEF RankInv, InDbStage, InStore, Db!Idle
    <3>. QED
      BY <3>1, <1>1, Positions DEF RankInv, WhoIsIn
  <2>3. \A q \in DbTask : ~InStore(q)'
    BY <2>2, <1>1 DEF InStore
  <2>. QED
    BY <2>1, <2>3, <1>1, <1>3 DEF WhoIsIn
<1>5. EnoughThreads'
  <2>1. Running' = Running
    BY <1>1, <1>3, RunningSame DEF Busy
  <2>. QED
    BY <1>1, <2>1 DEF RankInv, EnoughThreads, InLoop
<1>6. p \in DbTask => step[p] = Db!Idle
  BY <1>1 DEF RankInv, InDbStage
<1>. QED
  BY <1>1, <1>3, <1>4, <1>5, <1>6, InvOneTask

\* A task that has printed or stored a result goes on, or ends and leaves its
\* thread (to main's loop, if main was running it).
LEMMA InvAfterResult ==
  ASSUME RankInv, NEW p \in DOMAIN task, NEW t, AfterResult(p, t),
         IsTask(t), Busy(task[p]), UNCHANGED <<argv, pc>>
  PROVE  /\ DOMAIN task' = DOMAIN task
         /\ \A q \in DOMAIN task \ {p} : task'[q] = task[q]
         /\ task'[p].stage \in {"rating", "done"}
         /\ task'[p].printed = t.printed
         /\ IsTask(task'[p])
         /\ EnoughThreads'
<1>1. PICK more \in BOOLEAN :
        /\ task' = [task EXCEPT ![p] = [t EXCEPT !.stage = IF more THEN "rating" ELSE "done"]]
        /\ inlined' = IF ~more /\ inlined = p THEN NoTask ELSE inlined
  BY DEF AfterResult
<1>2. /\ DOMAIN task' = DOMAIN task
      /\ \A q \in DOMAIN task \ {p} : task'[q] = task[q]
      /\ task'[p] = [t EXCEPT !.stage = IF more THEN "rating" ELSE "done"]
  BY <1>1
<1>3. /\ task'[p].stage = IF more THEN "rating" ELSE "done"
      /\ task'[p].printed = t.printed
      /\ IsTask(task'[p])
  BY <1>2 DEF IsTask, Stage
<1>4. EnoughThreads'
  <2>1. CASE more
    <3>1. Running' = Running
      BY <2>1, <1>2, <1>3, RunningSame DEF Busy
    <3>. QED
      BY <2>1, <1>1, <3>1 DEF RankInv, EnoughThreads, InLoop
  <2>2. CASE ~more
    <3>1. IsFiniteSet(Running') /\ Cardinality(Running') = Cardinality(Running) - 1
      BY <2>2, <1>2, <1>3, RunningLess DEF RankInv, Busy
    <3>2. Cardinality(Running) \in Nat /\ Workers \in Nat /\ Cardinality(Running) <= Workers
      BY RunningFinite, TrMainAssumption DEF RankInv, EnoughThreads
    <3>3. InLoop' => InLoop \/ (pc = "loop" /\ inlined = p)
      BY <1>1 DEF InLoop
    <3>4. CASE InLoop
      BY <3>1, <3>2, <3>4 DEF RankInv, EnoughThreads
    <3>5. CASE ~InLoop
      BY <3>1, <3>2, <3>5 DEF EnoughThreads
    <3>. QED
      BY <3>4, <3>5
  <2>. QED
    BY <2>1, <2>2
<1>. QED
  BY <1>2, <1>3, <1>4

LEMMA InvPrintEnd ==
  ASSUME RankInv, NEW p \in DOMAIN task, PrintEnd(p), UNCHANGED onlydbvars
  PROVE  /\ RankInv' /\ DOMAIN task' = DOMAIN task
         /\ \A q \in DOMAIN task \ {p} : task'[q] = task[q]
         /\ task'[p].stage \in {"rating", "done", "db"}
         /\ task'[p].printed = task[p].printed + 1
<1>. DEFINE t == [task[p] EXCEPT !.printed = @ + 1]
<1>1. /\ task[p].stage = "printing" /\ critical' = NoTask
      /\ IF gconf.db = 0
         THEN AfterResult(p, t)
         ELSE task' = [task EXCEPT ![p] = [t EXCEPT !.stage = "db"]] /\ UNCHANGED inlined
      /\ UNCHANGED <<argv, pc, i, step>>
  BY DEF PrintEnd, LeaveSection, onlydbvars
<1>2. IsTask(task[p])
  BY DEF RankInv, RankTypeOK
<1>3. IsTask(t) /\ t.printed = task[p].printed + 1
  BY <1>2 DEF IsTask
<1>4. /\ DOMAIN task' = DOMAIN task
      /\ \A q \in DOMAIN task \ {p} : task'[q] = task[q]
      /\ task'[p].stage \in {"rating", "done", "db"}
      /\ task'[p].printed = t.printed
      /\ IsTask(task'[p])
      /\ EnoughThreads'
  <2>1. CASE gconf.db = 0
    <3>1. AfterResult(p, t)
      BY <2>1, <1>1
    <3>. HIDE DEF t
    <3>. QED
      BY <3>1, <1>1, <1>3, InvAfterResult DEF Busy
  <2>2. CASE gconf.db # 0
    <3>1. task' = [task EXCEPT ![p] = [t EXCEPT !.stage = "db"]] /\ UNCHANGED inlined
      BY <2>2, <1>1
    <3>2. /\ DOMAIN task' = DOMAIN task
          /\ \A q \in DOMAIN task \ {p} : task'[q] = task[q]
          /\ task'[p] = [t EXCEPT !.stage = "db"]
      BY <3>1
    <3>3. task'[p].stage = "db" /\ task'[p].printed = t.printed /\ IsTask(task'[p])
      <4>. HIDE DEF t
      <4>. QED
        BY <3>2, <1>3 DEF IsTask, Stage
    <3>4. Running' = Running
      BY <1>1, <3>2, <3>3, RunningSame DEF Busy
    <3>. QED
      BY <1>1, <3>1, <3>2, <3>3, <3>4 DEF RankInv, EnoughThreads, InLoop
  <2>. QED
    BY <2>1, <2>2
<1>5. critical = p
  BY <1>1 DEF RankInv, WhoIsIn
<1>6. WhoIsIn'
  <2>1. \A q \in DOMAIN task : task'[q].stage # "printing"
    BY <1>1, <1>4, <1>5 DEF RankInv, WhoIsIn
  <2>2. \A q \in DbTask : ~InStore(q)'
    BY <1>1, <1>5 DEF RankInv, WhoIsIn, InStore, InDbStage, Db!Idle
  <2>. QED
    BY <1>1, <1>4, <2>1, <2>2 DEF WhoIsIn
<1>7. p \in DbTask => step[p] = Db!Idle
  BY <1>1 DEF RankInv, InDbStage
<1>8. RankInv'
  BY <1>1, <1>4, <1>6, <1>7, InvOneTask
<1>. QED
  BY <1>3, <1>4, <1>8

LEMMA InvReturnFromInsert ==
  ASSUME RankInv, NEW p \in DOMAIN task, p \in DbTask, ReturnFromInsert(p)
  PROVE  /\ RankInv' /\ DOMAIN task' = DOMAIN task
         /\ \A q \in DOMAIN task \ {p} : task'[q] = task[q]
         /\ task'[p].stage \in {"rating", "done"}
         /\ task'[p].printed = task[p].printed
<1>1. /\ task[p].stage = "db" /\ AfterResult(p, task[p]) /\ step[p] = Db!Idle
      /\ UNCHANGED <<argv, pc, i, critical, step>> /\ UNCHANGED onlydbvars
  BY DEF ReturnFromInsert, DbReturn, onlydbvars
<1>2. IsTask(task[p])
  BY DEF RankInv, RankTypeOK
<1>3. /\ DOMAIN task' = DOMAIN task
      /\ \A q \in DOMAIN task \ {p} : task'[q] = task[q]
      /\ task'[p].stage \in {"rating", "done"}
      /\ task'[p].printed = task[p].printed
      /\ IsTask(task'[p])
      /\ EnoughThreads'
  BY <1>1, <1>2, InvAfterResult DEF Busy
<1>4. WhoIsIn'
  BY <1>1, <1>3 DEF RankInv, WhoIsIn, InStore, Db!Idle
<1>5. RankInv'
  BY <1>1, <1>3, <1>4, InvOneTask
<1>. QED
  BY <1>3, <1>5

-----------------------------------------------------------------------------
(***************************************************************************)
(* The steps of trm_db_insert.                                             *)
(***************************************************************************)

\* What a step of the database does to the state that it shares with main.
LEMMA DbStepFacts ==
  ASSUME RankInv, NEW p \in DbTask, p \in DOMAIN task, CallInsert(p) \/ InInsert(p)
  PROVE  /\ UNCHANGED onlymainvars
         /\ task[p].stage = "db"
         /\ RankTypeOK'
         /\ \A q \in DbTask \ {p} : step'[q] = step[q]
<1>1. UNCHANGED <<argv, i, task>> /\ UNCHANGED onlymainvars
  BY DEF CallInsert, InInsert, onlymainvars
<1>2. step \in [DbTask -> Db!Phase \X Db!Table] /\ round \in [DbTask -> Nat]
  BY DEF RankInv, RankTypeOK
<1>3. step[p] \in Db!Phase \X Db!Table
  BY <1>2
<1>4. step[p][2] \in Db!Table
  BY <1>3
<1>5. /\ task[p].stage = "db"
      /\ step' \in [DbTask -> Db!Phase \X Db!Table] /\ round' \in [DbTask -> Nat]
      /\ \A q \in DbTask \ {p} : step'[q] = step[q]
  <2>1. CASE CallInsert(p)
    BY <2>1, <1>2 DEF CallInsert, Db!BeginInsert, Db!Phase, Db!Table
  <2>2. CASE InInsert(p)
    <3>1. step[p] # Db!Idle
      <4>1. step[p][1] # "idle"
        BY <2>2 DEF InInsert, Db!InsertStep, Db!Query, Db!StoreResult, Db!Insert, Db!Update
      <4>. QED
        BY <4>1 DEF Db!Idle
    <3>2. task[p].stage = "db"
      BY <3>1 DEF RankInv, InDbStage
    <3>3. CASE Db!Query(p)
      BY <3>2, <3>3, <1>2, <1>4 DEF Db!Query, Db!Phase
    <3>4. CASE Db!StoreResult(p)
      <4>. DEFINE next(id) == IF step[p][1] = "store" THEN Db!AfterFirstSelect(step[p][2], id)
                                                      ELSE Db!AfterTable(step[p][2])
      <4>1. PICK id : step' = [step EXCEPT ![p] = next(id)]
        BY <3>4 DEF Db!StoreResult
      <4>2. next(id) \in Db!Phase \X Db!Table
        BY <1>4 DEF Db!AfterFirstSelect, Db!AfterTable, Db!NextTable, Db!Idle,
                    Db!Phase, Db!Table
      <4>. QED
        BY <3>2, <3>4, <4>1, <4>2, <1>2 DEF Db!StoreResult
    <3>5. CASE Db!Insert(p)
      BY <3>2, <3>5, <1>2, <1>4 DEF Db!Insert, Db!Phase
    <3>6. CASE Db!Update(p)
      BY <3>2, <3>6, <1>2 DEF Db!Update, Db!Phase, Db!Table, Db!Idle
    <3>. QED
      BY <2>2, <3>3, <3>4, <3>5, <3>6 DEF InInsert, Db!InsertStep
  <2>. QED
    BY <2>1, <2>2
<1>6. RankTypeOK'
  BY <1>1, <1>5 DEF RankInv, RankTypeOK
<1>. QED
  BY <1>1, <1>5, <1>6

\* The database enters and leaves the critical section as WhoIsIn says.
LEMMA DbSection ==
  ASSUME RankInv, NEW p \in DbTask, p \in DOMAIN task, CallInsert(p) \/ InInsert(p)
  PROVE  WhoIsIn'
<1>1. UNCHANGED task /\ task[p].stage = "db" /\ (\A q \in DbTask \ {p} : step'[q] = step[q])
  BY DbStepFacts DEF onlymainvars
<1>2. step \in [DbTask -> Db!Phase \X Db!Table]
  BY DEF RankInv, RankTypeOK
<1>3. CASE CallInsert(p) \/ Db!Insert(p) \/ Db!Update(p)
  <2>1. critical' = critical
    BY <1>3 DEF CallInsert, Db!BeginInsert, Db!Insert, Db!Update
  <2>2. ~InStore(p) /\ ~InStore(p)'
    BY <1>2, <1>3 DEF CallInsert, Db!BeginInsert, Db!Insert, Db!Update, InStore, Db!Idle
  <2>. QED
    BY <1>1, <2>1, <2>2 DEF RankInv, WhoIsIn, InStore
<1>4. CASE Db!Query(p)
  <2>1. critical = NoTask /\ critical' = p
    BY <1>4 DEF Db!Query, Db!EnterSection
  <2>2. InStore(p)'
    BY <1>2, <1>4 DEF Db!Query, InStore
  <2>3. \A q \in DbTask : InStore(q) => q \in DOMAIN task
    BY DEF RankInv, InDbStage, InStore, Db!Idle
  <2>4. \A q \in DbTask : ~InStore(q)
    BY <2>1, <2>3, Positions DEF RankInv, WhoIsIn
  <2>5. \A q \in DbTask \ {p} : ~InStore(q)'
    BY <1>1, <2>4 DEF InStore
  <2>6. \A q \in DOMAIN task : task[q].stage # "printing"
    BY <2>1, Positions DEF RankInv, WhoIsIn
  <2>. QED
    BY <1>1, <2>1, <2>2, <2>5, <2>6 DEF WhoIsIn
<1>5. CASE Db!StoreResult(p)
  <2>1. InStore(p) /\ critical' = NoTask
    BY <1>5 DEF Db!StoreResult, InStore, Db!LeaveSection
  <2>2. critical = p
    BY <2>1 DEF RankInv, WhoIsIn
  <2>3. ~InStore(p)'
    <3>. DEFINE next(id) == IF step[p][1] = "store" THEN Db!AfterFirstSelect(step[p][2], id)
                                                    ELSE Db!AfterTable(step[p][2])
    <3>1. PICK id : step' = [step EXCEPT ![p] = next(id)]
      BY <1>5 DEF Db!StoreResult
    <3>2. next(id)[1] \notin {"store", "restore"}
      BY DEF Db!AfterFirstSelect, Db!AfterTable, Db!Idle
    <3>. HIDE DEF next
    <3>. QED
      BY <3>1, <3>2, <1>2 DEF InStore
  <2>4. \A q \in DbTask \ {p} : ~InStore(q)'
    BY <1>1, <2>2 DEF RankInv, WhoIsIn, InStore
  <2>5. \A q \in DOMAIN task : task[q].stage # "printing"
    BY <1>1, <2>2 DEF RankInv, WhoIsIn
  <2>. QED
    BY <1>1, <2>1, <2>3, <2>4, <2>5 DEF WhoIsIn
<1>. QED
  BY <1>3, <1>4, <1>5 DEF InInsert, Db!InsertStep

LEMMA InvDbStep ==
  ASSUME RankInv, NEW p \in DbTask, p \in DOMAIN task, CallInsert(p) \/ InInsert(p)
  PROVE  RankInv'
<1>1. UNCHANGED <<pc, i, task, inlined>>
  BY DbStepFacts DEF onlymainvars
<1>2. RankTypeOK' /\ WhoIsIn'
  BY DbStepFacts, DbSection
<1>3. NotMadeYet'
  BY <1>1 DEF RankInv, NotMadeYet
<1>4. InDbStage'
  BY <1>1, DbStepFacts DEF RankInv, InDbStage
<1>5. EnoughThreads'
  BY <1>1 DEF RankInv, EnoughThreads, Running, InLoop
<1>. QED
  BY <1>2, <1>3, <1>4, <1>5 DEF RankInv

LEMMA InvTaskAlone ==
  ASSUME RankInv, NEW p \in DbTask, TaskAlone(p)
  PROVE  RankInv'
<1>1. p \in DOMAIN task /\ UNCHANGED onlydbvars
  BY DEF TaskAlone
<1>. QED
  BY <1>1, InvStartTask, InvRate, InvPrintBegin, InvPrintEnd DEF TaskAlone

LEMMA InvStutter ==
  ASSUME RankInv, UNCHANGED <<vars, onlydbvars>>
  PROVE  RankInv'
<1>1. /\ UNCHANGED <<argv, pc, i, task, inlined, critical>>
      /\ UNCHANGED onlydbvars
  BY DEF vars
<1>. QED
  BY <1>1, InvMainPasses DEF RankInv, RankTypeOK

LEMMA RankInvNext == RankInv /\ [RankNext]_<<vars, onlydbvars>> => RankInv'
<1>. SUFFICES ASSUME RankInv, [RankNext]_<<vars, onlydbvars>>  PROVE RankInv'
  OBVIOUS
<1>1. CASE MainAlone
  BY <1>1, InvMain
<1>2. ASSUME NEW p \in DbTask, TaskInDb(p) \/ TaskAlone(p)  PROVE RankInv'
  BY <1>2, InvDbStep, InvReturnFromInsert, InvTaskAlone DEF TaskInDb
<1>3. CASE RankTerminated \/ UNCHANGED <<vars, onlydbvars>>
  BY <1>3, InvStutter DEF RankTerminated, Terminated
<1>. QED
  BY <1>1, <1>2, <1>3 DEF RankNext

-----------------------------------------------------------------------------
(***************************************************************************)
(* The refinement of TrDb.                                                 *)
(***************************************************************************)

\* The steps that TrDb does not see.
LEMMA Unseen ==
  ASSUME DbCritical' = DbCritical, UNCHANGED onlydbvars
  PROVE  UNCHANGED Alone!dbvars
BY DEF onlydbvars, Alone!dbvars

\* A step of one task leaves the section as trm_db_insert sees it, if neither
\* that task nor another goes in or out for the database.
LEMMA SectionUnseen ==
  ASSUME RankInv, NEW p \in DOMAIN task, UNCHANGED critical,
         DOMAIN task' = DOMAIN task,
         \A q \in DOMAIN task \ {p} : task'[q] = task[q],
         (task'[p].stage = "printing") <=> (task[p].stage = "printing")
  PROVE  DbCritical' = DbCritical
BY DEF DbCritical

\* A task of the database is running, and so is one that is about to call it.
LEMMA AloneThreadFree ==
  ASSUME RankInv, NEW p \in DbTask, p \in DOMAIN task,
         task[p].stage = "db", step[p] = Db!Idle
  PROVE  Alone!ThreadFree
<1>1. Alone!Active \subseteq Running \ {p} /\ p \in Running
  BY DEF RankInv, InDbStage, Alone!Active, Running, Alone!Idle, Db!Idle
<1>2. IsFiniteSet(Running \ {p}) /\ Cardinality(Running \ {p}) = Cardinality(Running) - 1
  BY <1>1, RunningFinite, FS_RemoveElement DEF RankInv
<1>3. Cardinality(Alone!Active) <= Cardinality(Running) - 1 /\ Cardinality(Alone!Active) \in Nat
  BY <1>1, <1>2, FS_Subset, FS_CardinalityType
<1>4. Cardinality(Running) <= Workers /\ Cardinality(Running) \in Nat /\ Workers \in Nat
  BY RunningFinite, TrMainAssumption DEF RankInv, EnoughThreads
<1>5. Cardinality(Alone!Active) < Workers
  BY <1>3, <1>4
<1>. QED
  BY <1>5 DEF Alone!ThreadFree, Alone!Cardinality, Cardinality

LEMMA StepCallInsert ==
  ASSUME RankInv, NEW p \in DbTask, p \in DOMAIN task, CallInsert(p)
  PROVE  Alone!DbNext
<1>1. /\ task[p].stage = "db" /\ step[p] = Db!Idle /\ Db!BeginInsert(p)
      /\ UNCHANGED <<task, critical>>
  BY DEF CallInsert, onlymainvars, Db!BeginInsert
<1>2. Alone!ThreadFree
  BY <1>1, AloneThreadFree
<1>3. DbCritical' = DbCritical
  BY <1>1 DEF DbCritical
<1>4. Alone!BeginInsert(p)
  BY <1>1, <1>3 DEF Db!BeginInsert, Alone!BeginInsert, Db!Idle, Alone!Idle,
                    Db!NoIds, Alone!NoIds, Db!Table, Alone!Table
<1>. QED
  BY <1>2, <1>4 DEF Alone!DbNext

LEMMA StepInInsert ==
  ASSUME RankInv, NEW p \in DbTask, p \in DOMAIN task, InInsert(p)
  PROVE  Alone!DbNext
<1>1. task[p].stage = "db" /\ UNCHANGED task
  BY DbStepFacts DEF onlymainvars
<1>2. CASE Db!Query(p)
  <2>1. critical = NoTask /\ critical' = p
    BY <1>2 DEF Db!Query, Db!EnterSection
  <2>2. DbCritical = NoTask /\ DbCritical' = p
    BY <1>1, <2>1 DEF DbCritical
  <2>3. Alone!Query(p)
    BY <1>2, <2>2 DEF Db!Query, Alone!Query, Alone!EnterSection, Db!Matching, Alone!Matching,
       Db!Cond, Alone!Cond, Db!NameOf, Alone!NameOf, Db!Parent, Alone!Parent,
       Db!MayFail, Alone!MayFail, Db!CountFault, Alone!CountFault
  <2>. QED
    BY <2>3 DEF Alone!DbNext, Alone!InsertStep
<1>3. CASE Db!StoreResult(p)
  <2>1. critical' = NoTask
    BY <1>3 DEF Db!StoreResult, Db!LeaveSection
  <2>2. DbCritical' = NoTask
    BY <2>1 DEF DbCritical
  <2>3. Alone!StoreResult(p)
    BY <1>3, <2>2 DEF Db!StoreResult, Alone!StoreResult, Alone!LeaveSection,
       Db!AfterFirstSelect, Alone!AfterFirstSelect, Db!AfterTable, Alone!AfterTable,
       Db!NextTable, Alone!NextTable, Db!Idle, Alone!Idle, Db!NoIds, Alone!NoIds,
       Db!Table, Alone!Table
  <2>. QED
    BY <2>3 DEF Alone!DbNext, Alone!InsertStep
<1>4. CASE Db!Insert(p) \/ Db!Update(p)
  <2>1. critical = NoTask /\ critical' = NoTask
    BY <1>4 DEF Db!Insert, Db!Update
  <2>2. DbCritical = NoTask /\ DbCritical' = NoTask
    BY <2>1 DEF DbCritical
  <2>3. Db!Insert(p) => Alone!Insert(p)
    BY <2>2 DEF Db!Insert, Alone!Insert, Db!Accepts, Alone!Accepts,
       Db!ForeignKeysHold, Alone!ForeignKeysHold, Db!Exists, Alone!Exists,
       Db!Cond, Alone!Cond, Db!NameOf, Alone!NameOf, Db!Parent, Alone!Parent,
       Db!MayFail, Alone!MayFail, Db!CountFault, Alone!CountFault
  <2>4. Db!Update(p) => Alone!Update(p)
    BY <2>2 DEF Db!Update, Alone!Update, Db!MayFail, Alone!MayFail,
       Db!CountFault, Alone!CountFault, Db!Idle, Alone!Idle, Db!NoIds, Alone!NoIds,
       Db!Table, Alone!Table
  <2>. QED
    BY <1>4, <2>3, <2>4 DEF Alone!DbNext, Alone!InsertStep
<1>. QED
  BY <1>2, <1>3, <1>4 DEF InInsert, Db!InsertStep

LEMMA StepReturnFromInsert ==
  ASSUME RankInv, NEW p \in DbTask, p \in DOMAIN task, ReturnFromInsert(p)
  PROVE  UNCHANGED Alone!dbvars
<1>1. task[p].stage = "db" /\ UNCHANGED critical /\ UNCHANGED onlydbvars
  BY DEF ReturnFromInsert, DbReturn
<1>2. DbCritical' = DbCritical
  BY <1>1, InvReturnFromInsert, SectionUnseen
<1>. QED
  BY <1>1, <1>2, Unseen

LEMMA StepTaskAlone ==
  ASSUME RankInv, NEW p \in DbTask, TaskAlone(p)
  PROVE  UNCHANGED Alone!dbvars
<1>1. p \in DOMAIN task /\ UNCHANGED onlydbvars
  BY DEF TaskAlone
<1>2. CASE StartTask(p) \/ Rate(p)
  <2>1. \E s \in {"rating", "rated"} :
          task' = [task EXCEPT ![p].stage = s]
    BY <1>2 DEF StartTask, Rate
  <2>2. task[p].stage # "printing" /\ UNCHANGED critical
    BY <1>2 DEF StartTask, Rate
  <2>3. IsTask(task[p])
    BY <1>1 DEF RankInv, RankTypeOK
  <2>4. task'[p].stage # "printing"
    BY <1>1, <2>1, <2>3 DEF IsTask
  <2>. QED
    BY <1>1, <2>1, <2>2, <2>4, SectionUnseen, Unseen
<1>3. CASE PrintBegin(p)
  <2>1. /\ critical = NoTask /\ critical' = p
        /\ task' = [task EXCEPT ![p].stage = "printing"]
    BY <1>3 DEF PrintBegin, EnterSection
  <2>2. IsTask(task[p])
    BY <1>1 DEF RankInv, RankTypeOK
  <2>3. task'[p].stage = "printing" /\ p \in DOMAIN task'
    BY <1>1, <2>1, <2>2 DEF IsTask
  <2>4. DbCritical = NoTask /\ DbCritical' = NoTask
    BY <2>1, <2>3 DEF DbCritical
  <2>. QED
    BY <1>1, <2>4, Unseen
<1>4. CASE PrintEnd(p)
  <2>1. task[p].stage = "printing" /\ critical' = NoTask /\ critical = p
    BY <1>1, <1>4 DEF PrintEnd, LeaveSection, RankInv, WhoIsIn
  <2>2. DbCritical = NoTask /\ DbCritical' = NoTask
    BY <1>1, <2>1 DEF DbCritical
  <2>. QED
    BY <1>1, <2>2, Unseen
<1>. QED
  BY <1>2, <1>3, <1>4 DEF TaskAlone

LEMMA StepMain ==
  ASSUME RankInv, MainAlone
  PROVE  UNCHANGED Alone!dbvars
<1>1. UNCHANGED onlydbvars /\ UNCHANGED critical
  BY DEF MainAlone, MainStep, GlobalOption, HelpOption, EndGlobals, LocalOption,
         FileArgument, EndLoop, Barrier, Exit
<1>2. CASE UNCHANGED task
  BY <1>1, <1>2, Unseen DEF DbCritical
<1>3. CASE task' # task
  <2>1. FileArgument /\ Loads(argv[i])
    BY <1>3 DEF MainAlone, MainStep, GlobalOption, HelpOption, EndGlobals, LocalOption,
                FileArgument, EndLoop, Barrier, Exit
  <2>2. PICK s \in {"rating", "queued"} :
          task' = [task EXCEPT ![i] = [stage |-> s, conf |-> lconf, printed |-> 0]]
    BY <2>1 DEF FileArgument
  <2>3. i \in DOMAIN task /\ task[i].stage = "none"
    <3>1. i \in DOMAIN task
      BY <2>1, Positions DEF FileArgument, RankInv, RankTypeOK
    <3>. QED
      BY <3>1 DEF RankInv, NotMadeYet, RankTypeOK
  <2>4. /\ DOMAIN task' = DOMAIN task
        /\ \A q \in DOMAIN task \ {i} : task'[q] = task[q]
        /\ task'[i].stage # "printing"
    BY <2>2, <2>3
  <2>. QED
    BY <1>1, <2>3, <2>4, SectionUnseen, Unseen
<1>. QED
  BY <1>2, <1>3

\* The tasks of the whole program, which print in the critical section of the
\* database and are no more than the threads, use it as TrDb says.
THEOREM RankImplementsDb == RankSpec => ImplementsDb
<1>1. RankInit => Alone!DbInit
  <2>. SUFFICES ASSUME RankInit  PROVE Alone!DbInit
    OBVIOUS
  <2>1. DbCritical = NoTask
    BY DEF RankInit, Init, DbCritical
  <2>. QED
    BY <2>1 DEF RankInit, Db!DbInit, Alone!DbInit, Db!Table, Alone!Table,
                Db!Idle, Alone!Idle, Db!NoIds, Alone!NoIds
<1>2. RankInv /\ [RankNext]_<<vars, onlydbvars>> => [Alone!DbNext]_(Alone!dbvars)
  <2>. SUFFICES ASSUME RankInv, [RankNext]_<<vars, onlydbvars>>
                PROVE  [Alone!DbNext]_(Alone!dbvars)
    OBVIOUS
  <2>1. CASE MainAlone
    BY <2>1, StepMain
  <2>2. ASSUME NEW p \in DbTask, TaskInDb(p) \/ TaskAlone(p)
        PROVE  [Alone!DbNext]_(Alone!dbvars)
    BY <2>2, StepCallInsert, StepInInsert, StepReturnFromInsert, StepTaskAlone DEF TaskInDb
  <2>3. CASE RankTerminated \/ UNCHANGED <<vars, onlydbvars>>
    <3>1. UNCHANGED <<task, critical>> /\ UNCHANGED onlydbvars
      BY <2>3 DEF RankTerminated, Terminated, vars
    <3>. QED
      BY <3>1, Unseen DEF DbCritical
  <2>. QED
    BY <2>1, <2>2, <2>3 DEF RankNext
<1>. QED
  BY <1>1, <1>2, RankInvInit, RankInvNext, PTL DEF RankSpec, ImplementsDb

-----------------------------------------------------------------------------
(***************************************************************************)
(* The refinement of TrMain.                                               *)
(***************************************************************************)

\* What TrMain defines without looking at the critical section is the same.
LEMMA SameOptions ==
  /\ Main!GlobalArgs = GlobalArgs /\ Main!LocalArgs = LocalArgs
  /\ \A p : /\ Main!Consumed(GlobalArgs, p) = Consumed(GlobalArgs, p)
            /\ Main!Consumed(LocalArgs, p) = Consumed(LocalArgs, p)
            /\ Main!Applies(GlobalArgs, p) = Applies(GlobalArgs, p)
            /\ Main!Applies(LocalArgs, p) = Applies(LocalArgs, p)
  /\ \A g, p : Main!SetGlobal(g, p) = SetGlobal(g, p)
  /\ \A c, p : Main!SetLocal(c, p) = SetLocal(c, p)
  /\ \A w : Main!Loads(w) = Loads(w)
  /\ Main!AtGlobalOption = AtGlobalOption
  /\ Main!InLoop = InLoop
  /\ Main!TasksDone = TasksDone
<1>1. Main!GlobalArgs = GlobalArgs /\ Main!LocalArgs = LocalArgs
  BY DEF Main!GlobalArgs, GlobalArgs, Main!LocalArgs, LocalArgs
<1>2. \A args, p : Main!Applies(args, p) = Applies(args, p)
  BY DEF Main!Applies, Applies
<1>3. \A args, p : Main!Consumed(args, p) = Consumed(args, p)
  BY <1>2 DEF Main!Consumed, Consumed
<1>4. \A g, p : Main!SetGlobal(g, p) = SetGlobal(g, p)
  BY DEF Main!SetGlobal, SetGlobal
<1>5. \A n : Main!TrMainOf(n) = TrMainOf(n)
  BY DEF Main!TrMainOf, TrMainOf
<1>6. \A c, p : Main!SetLocal(c, p) = SetLocal(c, p)
  BY <1>5 DEF Main!SetLocal, SetLocal
<1>7. \A w : Main!Loads(w) = Loads(w)
  BY DEF Main!Loads, Loads
<1>8. Main!AtGlobalOption = AtGlobalOption /\ Main!InLoop = InLoop /\ Main!TasksDone = TasksDone
  BY DEF Main!AtGlobalOption, AtGlobalOption, Main!InLoop, InLoop, Main!TasksDone, TasksDone
<1>. QED
  BY <1>1, <1>2, <1>3, <1>4, <1>6, <1>7, <1>8

LEMMA MainInit == RankInit => Main!Init
<1>. SUFFICES ASSUME RankInit  PROVE Main!Init
  OBVIOUS
<1>1. MainCritical = NoTask
  BY DEF RankInit, Init, MainCritical
<1>. QED
  BY <1>1 DEF RankInit, Init, Main!Init, GlobalDefault, Main!GlobalDefault,
              LocalDefault, Main!LocalDefault

\* A step of main makes a task that is not printing.
LEMMA MainMain ==
  ASSUME RankInv, MainAlone
  PROVE  Main!MainStep
<1>1. UNCHANGED critical
  BY DEF MainAlone, MainStep, GlobalOption, HelpOption, EndGlobals, LocalOption,
         FileArgument, EndLoop, Barrier, Exit
<1>2. UNCHANGED MainCritical
  <2>1. CASE UNCHANGED task
    BY <1>1, <2>1 DEF MainCritical
  <2>2. CASE task' # task
    <3>1. FileArgument /\ Loads(argv[i])
      BY <2>2 DEF MainAlone, MainStep, GlobalOption, HelpOption, EndGlobals, LocalOption,
                  FileArgument, EndLoop, Barrier, Exit
    <3>2. PICK s \in {"rating", "queued"} :
            task' = [task EXCEPT ![i] = [stage |-> s, conf |-> lconf, printed |-> 0]]
      BY <3>1 DEF FileArgument
    <3>3. i \in DOMAIN task
      BY <3>1, Positions DEF FileArgument, RankInv, RankTypeOK
    <3>4. task[i].stage = "none"
      BY <3>3 DEF RankInv, NotMadeYet, RankTypeOK
    <3>5. /\ DOMAIN task' = DOMAIN task
          /\ \A q \in DOMAIN task \ {i} : task'[q] = task[q]
          /\ task'[i].stage # "printing"
      BY <3>2, <3>3
    <3>. QED
      BY <1>1, <3>4, <3>5 DEF MainCritical
  <2>. QED
    BY <2>1, <2>2
<1>3. CASE GlobalOption
  BY <1>2, <1>3, SameOptions DEF GlobalOption, Main!GlobalOption, Main!MainStep
<1>4. CASE HelpOption
  BY <1>2, <1>4, SameOptions DEF HelpOption, Main!HelpOption, Main!MainStep
<1>5. CASE EndGlobals
  BY <1>2, <1>5, SameOptions DEF EndGlobals, Main!EndGlobals, Main!MainStep
<1>6. CASE LocalOption
  BY <1>2, <1>6, SameOptions DEF LocalOption, Main!LocalOption, Main!MainStep
<1>7. CASE FileArgument
  BY <1>2, <1>7, SameOptions DEF FileArgument, Main!FileArgument, Main!MainStep
<1>8. CASE EndLoop
  BY <1>2, <1>8, SameOptions DEF EndLoop, Main!EndLoop, Main!MainStep
<1>9. CASE Barrier
  BY <1>2, <1>9, SameOptions DEF Barrier, Main!Barrier, Main!MainStep
<1>10. CASE Exit
  BY <1>2, <1>10 DEF Exit, Main!Exit, Main!MainStep
<1>. QED
  BY <1>3, <1>4, <1>5, <1>6, <1>7, <1>8, <1>9, <1>10 DEF MainAlone, MainStep

\* The critical section when one task moves and no one goes in or out of it.
LEMMA MainSectionSame ==
  ASSUME RankInv, NEW p \in DOMAIN task, UNCHANGED critical,
         DOMAIN task' = DOMAIN task,
         \A q \in DOMAIN task \ {p} : task'[q] = task[q],
         (task'[p].stage = "printing") <=> (task[p].stage = "printing")
  PROVE  UNCHANGED MainCritical
BY DEF MainCritical

LEMMA SameAfterResult ==
  \A p, t : AfterResult(p, t) => Main!AfterResult(p, t)
BY DEF AfterResult, Main!AfterResult, ConfOf, Main!ConfOf

\* The steps of a task outside the database, and its return from it.
LEMMA MainTask ==
  ASSUME RankInv, NEW p \in DbTask, p \in DOMAIN task,
         StartTask(p) \/ Rate(p) \/ PrintBegin(p) \/ PrintEnd(p) \/ DbReturn(p)
  PROVE  Main!TaskStep(p)
<1>1. IsTask(task[p])
  BY DEF RankInv, RankTypeOK
<1>2. CASE StartTask(p)
  <2>1. task[p].stage = "queued" /\ UNCHANGED critical /\ task' = [task EXCEPT ![p].stage = "rating"]
    BY <1>2 DEF StartTask
  <2>2. UNCHANGED MainCritical
    BY <1>1, <2>1, MainSectionSame DEF IsTask
  <2>3. Main!FreeThreads = FreeThreads
    BY DEF Main!FreeThreads, FreeThreads, Main!Running, Running, Main!InLoop, InLoop,
           Main!Cardinality, Cardinality
  <2>. QED
    BY <1>2, <2>2, <2>3 DEF StartTask, Main!StartTask, Main!TaskStep
<1>3. CASE Rate(p)
  <2>1. task[p].stage = "rating" /\ UNCHANGED critical /\ task' = [task EXCEPT ![p].stage = "rated"]
    BY <1>3 DEF Rate
  <2>2. UNCHANGED MainCritical
    BY <1>1, <2>1, MainSectionSame DEF IsTask
  <2>. QED
    BY <1>3, <2>2 DEF Rate, Main!Rate, Main!TaskStep
<1>4. CASE PrintBegin(p)
  <2>1. critical = NoTask /\ critical' = p /\ task' = [task EXCEPT ![p].stage = "printing"]
    BY <1>4 DEF PrintBegin, EnterSection
  <2>2. task'[p].stage = "printing" /\ p \in DOMAIN task'
    BY <1>1, <2>1 DEF IsTask
  <2>3. MainCritical = NoTask /\ MainCritical' = p
    BY <2>1, <2>2, Positions DEF MainCritical, RankInv
  <2>. QED
    BY <1>4, <2>3 DEF PrintBegin, Main!PrintBegin, Main!EnterSection, Main!TaskStep
<1>5. CASE PrintEnd(p)
  <2>1. critical' = NoTask
    BY <1>5 DEF PrintEnd, LeaveSection
  <2>2. MainCritical' = NoTask
    BY <2>1 DEF MainCritical
  <2>. QED
    BY <1>5, <2>2, SameAfterResult
    DEF PrintEnd, Main!PrintEnd, Main!LeaveSection, Main!TaskStep,
        NextPrefix, Main!NextPrefix, ConfOf, Main!ConfOf
<1>6. CASE DbReturn(p)
  <2>1. task[p].stage = "db" /\ UNCHANGED critical /\ AfterResult(p, task[p])
    BY <1>6 DEF DbReturn
  <2>2. PICK s \in {"rating", "done"} : task' = [task EXCEPT ![p] = [task[p] EXCEPT !.stage = s]]
    BY <2>1 DEF AfterResult
  <2>3. UNCHANGED MainCritical
    BY <1>1, <2>1, <2>2, MainSectionSame DEF IsTask
  <2>. QED
    BY <1>6, <2>3, SameAfterResult DEF DbReturn, Main!DbReturn, Main!TaskStep
<1>. QED
  BY <1>2, <1>3, <1>4, <1>5, <1>6

\* The section that trm_db_insert enters and leaves is not taken from a task
\* that prints.
LEMMA MainInDb ==
  ASSUME RankInv, NEW p \in DbTask, p \in DOMAIN task, CallInsert(p) \/ InInsert(p)
  PROVE  UNCHANGED Main!vars
<1>1. UNCHANGED onlymainvars /\ task[p].stage = "db"
  BY DbStepFacts
<1>2. task[p].stage # "printing"
  BY <1>1
<1>3. UNCHANGED MainCritical
  <2>1. CASE UNCHANGED critical
    BY <1>1, <2>1 DEF MainCritical, onlymainvars
  <2>2. CASE critical' # critical
    <3>1. Db!Query(p) \/ Db!StoreResult(p)
      BY <2>2 DEF CallInsert, InInsert, Db!InsertStep, Db!BeginInsert, Db!Insert, Db!Update
    <3>2. critical \in {NoTask, p} /\ critical' \in {NoTask, p}
      BY <3>1 DEF Db!Query, Db!EnterSection, Db!StoreResult, Db!LeaveSection, RankInv, WhoIsIn, InStore
    <3>3. MainCritical = NoTask /\ MainCritical' = NoTask
      BY <1>1, <1>2, <3>2 DEF MainCritical, onlymainvars
    <3>. QED
      BY <3>3
  <2>. QED
    BY <2>1, <2>2
<1>. QED
  BY <1>1, <1>3 DEF onlymainvars, Main!vars

LEMMA MainNext == RankInv /\ [RankNext]_<<vars, onlydbvars>> => [Main!Next]_(Main!vars)
<1>. SUFFICES ASSUME RankInv, [RankNext]_<<vars, onlydbvars>>
              PROVE  [Main!Next]_(Main!vars)
  OBVIOUS
<1>1. CASE MainAlone
  BY <1>1, MainMain DEF Main!Next
<1>2. ASSUME NEW p \in DbTask, TaskInDb(p) \/ TaskAlone(p)
      PROVE  [Main!Next]_(Main!vars)
  <2>1. p \in DOMAIN task
    BY <1>2 DEF TaskInDb, TaskAlone
  <2>2. CASE CallInsert(p) \/ InInsert(p)
    BY <2>1, <2>2, MainInDb
  <2>3. CASE ReturnFromInsert(p) \/ TaskAlone(p)
    BY <2>1, <2>3, MainTask DEF ReturnFromInsert, TaskAlone, Main!Next
  <2>. QED
    BY <1>2, <2>2, <2>3 DEF TaskInDb
<1>3. CASE RankTerminated \/ UNCHANGED <<vars, onlydbvars>>
  BY <1>3 DEF RankTerminated, Terminated, vars, Main!vars, MainCritical
<1>. QED
  BY <1>1, <1>2, <1>3 DEF RankNext

\* With the database, the program still runs and prints as TrMain says.
THEOREM RankImplementsMain == RankSpec => ImplementsMain
BY RankInvInit, RankInvNext, MainInit, MainNext, PTL DEF RankSpec, ImplementsMain

\* Printing and storing share the unnamed critical section of OpenMP as if each
\* had one of its own.
THEOREM RankImplementsBoth == RankSpec => ImplementsBoth
BY RankImplementsDb, RankImplementsMain, PTL DEF ImplementsBoth

\* The results of TrMain hold of the whole program: MainP is Main with the
\* theorems about it.
MainP == INSTANCE TrMainProofs WITH critical <- MainCritical

LEMMA SameMainInit == Main!Init => MainP!Init
BY DEF Main!Init, MainP!Init, Main!GlobalDefault, MainP!GlobalDefault,
       Main!LocalDefault, MainP!LocalDefault

LEMMA SameMain ==
  /\ Main!GlobalArgs = MainP!GlobalArgs /\ Main!LocalArgs = MainP!LocalArgs
  /\ \A args, p : /\ Main!Applies(args, p) = MainP!Applies(args, p)
                  /\ Main!Consumed(args, p) = MainP!Consumed(args, p)
  /\ \A g, p : Main!SetGlobal(g, p) = MainP!SetGlobal(g, p)
  /\ \A c, p : Main!SetLocal(c, p) = MainP!SetLocal(c, p)
  /\ \A w : Main!Loads(w) = MainP!Loads(w)
  /\ Main!AtGlobalOption = MainP!AtGlobalOption
  /\ Main!InLoop = MainP!InLoop
  /\ Main!TasksDone = MainP!TasksDone
  /\ Main!FreeThreads = MainP!FreeThreads
<1>1. Main!GlobalArgs = MainP!GlobalArgs /\ Main!LocalArgs = MainP!LocalArgs
  BY DEF Main!GlobalArgs, MainP!GlobalArgs, Main!LocalArgs, MainP!LocalArgs
<1>2. \A args, p : Main!Applies(args, p) = MainP!Applies(args, p)
  BY DEF Main!Applies, MainP!Applies
<1>3. \A args, p : Main!Consumed(args, p) = MainP!Consumed(args, p)
  BY <1>2 DEF Main!Consumed, MainP!Consumed
<1>4. \A g, p : Main!SetGlobal(g, p) = MainP!SetGlobal(g, p)
  BY DEF Main!SetGlobal, MainP!SetGlobal
<1>5. \A n : Main!TrMainOf(n) = MainP!TrMainOf(n)
  BY DEF Main!TrMainOf, MainP!TrMainOf
<1>6. \A c, p : Main!SetLocal(c, p) = MainP!SetLocal(c, p)
  BY <1>5 DEF Main!SetLocal, MainP!SetLocal
<1>7. \A w : Main!Loads(w) = MainP!Loads(w)
  BY DEF Main!Loads, MainP!Loads
<1>8. /\ Main!AtGlobalOption = MainP!AtGlobalOption /\ Main!InLoop = MainP!InLoop
      /\ Main!TasksDone = MainP!TasksDone
  BY DEF Main!AtGlobalOption, MainP!AtGlobalOption, Main!InLoop, MainP!InLoop,
         Main!TasksDone, MainP!TasksDone
<1>9. Main!FreeThreads = MainP!FreeThreads
  BY <1>8 DEF Main!FreeThreads, MainP!FreeThreads, Main!Running, MainP!Running,
              Main!Cardinality, MainP!Cardinality
<1>. QED
  BY <1>1, <1>2, <1>3, <1>4, <1>6, <1>7, <1>8, <1>9

LEMMA SameMainStep == Main!MainStep => MainP!MainStep
<1>1. Main!GlobalOption => MainP!GlobalOption
  BY SameMain DEF Main!GlobalOption, MainP!GlobalOption
<1>2. Main!HelpOption => MainP!HelpOption
  BY SameMain DEF Main!HelpOption, MainP!HelpOption
<1>3. Main!EndGlobals => MainP!EndGlobals
  BY SameMain DEF Main!EndGlobals, MainP!EndGlobals
<1>4. Main!LocalOption => MainP!LocalOption
  BY SameMain DEF Main!LocalOption, MainP!LocalOption
<1>5. Main!FileArgument => MainP!FileArgument
  BY SameMain DEF Main!FileArgument, MainP!FileArgument
<1>6. Main!EndLoop => MainP!EndLoop
  BY SameMain DEF Main!EndLoop, MainP!EndLoop
<1>7. Main!Barrier => MainP!Barrier
  BY SameMain DEF Main!Barrier, MainP!Barrier
<1>8. Main!Exit => MainP!Exit
  BY DEF Main!Exit, MainP!Exit
<1>. QED
  BY <1>1, <1>2, <1>3, <1>4, <1>5, <1>6, <1>7, <1>8 DEF Main!MainStep, MainP!MainStep

LEMMA SameTaskStep == \A p : Main!TaskStep(p) => MainP!TaskStep(p)
<1>. SUFFICES ASSUME NEW p  PROVE Main!TaskStep(p) => MainP!TaskStep(p)
  OBVIOUS
<1>1. Main!StartTask(p) => MainP!StartTask(p)
  BY SameMain DEF Main!StartTask, MainP!StartTask
<1>2. Main!Rate(p) => MainP!Rate(p)
  BY DEF Main!Rate, MainP!Rate
<1>3. Main!PrintBegin(p) => MainP!PrintBegin(p)
  BY DEF Main!PrintBegin, MainP!PrintBegin, Main!EnterSection, MainP!EnterSection
<1>4. \A t : Main!AfterResult(p, t) => MainP!AfterResult(p, t)
  BY DEF Main!AfterResult, MainP!AfterResult, Main!ConfOf, MainP!ConfOf
<1>5. Main!PrintEnd(p) => MainP!PrintEnd(p)
  BY <1>4 DEF Main!PrintEnd, MainP!PrintEnd, Main!LeaveSection, MainP!LeaveSection,
              Main!NextPrefix, MainP!NextPrefix, Main!ConfOf, MainP!ConfOf
<1>6. Main!DbReturn(p) => MainP!DbReturn(p)
  BY <1>4 DEF Main!DbReturn, MainP!DbReturn
<1>. QED
  BY <1>1, <1>2, <1>3, <1>5, <1>6 DEF Main!TaskStep, MainP!TaskStep

LEMMA SameMainNext == [Main!Next]_(Main!vars) => [MainP!Next]_(MainP!vars)
<1>1. Main!vars = MainP!vars /\ (UNCHANGED Main!vars => UNCHANGED MainP!vars)
  BY DEF Main!vars, MainP!vars
<1>2. Main!Terminated => MainP!Terminated
  BY DEF Main!Terminated, MainP!Terminated, Main!vars, MainP!vars
<1>. QED
  BY <1>1, <1>2, SameMainStep, SameTaskStep DEF Main!Next, MainP!Next

LEMMA SameOutput == MainP!OutputIntact => Main!OutputIntact
BY DEF Main!OutputIntact, MainP!OutputIntact, Main!Closing, MainP!Closing,
       Main!Width, MainP!Width, Main!TextOf, MainP!TextOf, Main!Separator, MainP!Separator

\* RatedAsAsked does not look at the critical section.
LEMMA SameRated == MainP!RatedAsAsked => RatedAsAsked
<1>1. MainP!LoopStart = LoopStart /\ MainP!Visited = Visited
  BY DEF MainP!LoopStart, LoopStart, MainP!Visited, Visited, MainP!Consumed, Consumed,
         MainP!Applies, Applies, MainP!GlobalArgs, GlobalArgs, MainP!LocalArgs, LocalArgs
<1>2. \A p, words : MainP!LastOption(p, words) = LastOption(p, words)
  BY <1>1 DEF MainP!LastOption, LastOption, MainP!Applies, Applies, MainP!LocalArgs, LocalArgs
<1>3. \A w : MainP!Loads(w) = Loads(w)
  BY DEF MainP!Loads, Loads
<1>4. \A S : MainP!Cardinality(S) = Cardinality(S)
  BY DEF MainP!Cardinality, Cardinality
<1>5. MainP!ScoreOptions = ScoreOptions
  BY DEF MainP!ScoreOptions, ScoreOptions
<1>. QED
  BY <1>1, <1>2, <1>3, <1>4, <1>5 DEF MainP!RatedAsAsked, RatedAsAsked

\* TrMain's assumption about the options holds of the instance.
LEMMA MainOptionNames ==
  \A w \in DOMAIN FirstChar : w \in DOMAIN MainP!LocalArgs => FirstChar[w] = "-"
BY OptionNames DEF MainP!LocalArgs, LocalArgs

\* The inductive invariant of TrMain holds of the whole program.
LEMMA RankAskedInv ==
  /\ RankInit => MainP!AskedInv
  /\ MainP!AskedInv /\ [Main!Next]_(Main!vars) => MainP!AskedInv'
<1>1. RankInit => MainP!AskedInv
  BY MainInit, SameMainInit, TrMainAssumption, MainOptionNames,
     MainP!TasksInit, MainP!OutInit, MainP!AskedInit DEF MainP!MainInv, MainP!AskedInv
<1>2. MainP!AskedInv /\ [Main!Next]_(Main!vars) => MainP!AskedInv'
  BY SameMainNext, TrMainAssumption, MainOptionNames, MainP!AskedInvNext
<1>. QED
  BY <1>1, <1>2

\* What the program writes with the database in use is intact too, and it is
\* while a task is in the critical section for the database.
THEOREM RankOutputIntact == RankSpec => []Main!OutputIntact
<1>1. MainP!AskedInv => Main!OutputIntact
  BY SameOutput, TrMainAssumption, MainOptionNames, MainP!OutIsText DEF MainP!AskedInv
<1>. QED
  BY <1>1, RankAskedInv, RankInvInit, RankInvNext, MainNext, PTL DEF RankSpec

\* With the database in use, each file is rated with the options before it.
THEOREM RankRatesAsAsked == RankSpec => []RatedAsAsked
<1>1. MainP!AskedInv => RatedAsAsked
  BY SameRated, TrMainAssumption, MainOptionNames, MainP!AskedIsRated
<1>. QED
  BY <1>1, RankAskedInv, RankInvInit, RankInvNext, MainNext, PTL DEF RankSpec

-----------------------------------------------------------------------------
(***************************************************************************)
(* The results of TrDb hold of the whole program, through the refinement:  *)
(* AloneP is Alone with the theorems about it.                             *)
(***************************************************************************)
AloneP == INSTANCE TrDbProofs WITH
  Task <- DbTask, MaxRound <- MaxPrint, critical <- DbCritical

\* TrDb's assumptions about its constants hold of the instance.
LEMMA AloneAssumptions ==
  /\ NoTask \notin DbTask
  /\ Key \in [DbTask -> [creator : Name, title : Name, diff : Name, mods : Name]]
  /\ MaxPrint \in Nat \ {0}
  /\ Workers \in Nat \ {0}
  /\ MaxFaults \in Nat
  /\ ServerTables \subseteq AloneP!Table
BY TrMainAssumption, TrRankAssumption DEF Db!Table, AloneP!Table

LEMMA SameInit ==
  ASSUME Alone!DbInit
  PROVE  AloneP!DbInit
BY DEF Alone!DbInit, AloneP!DbInit, Alone!Idle, AloneP!Idle, Alone!Table, AloneP!Table,
       Alone!NoIds, AloneP!NoIds

LEMMA SameNext ==
  ASSUME [Alone!DbNext]_(Alone!dbvars)
  PROVE  [AloneP!DbNext]_(AloneP!dbvars)
<1>1. CASE UNCHANGED Alone!dbvars
  BY <1>1 DEF Alone!dbvars, AloneP!dbvars
<1>2. ASSUME NEW t \in DbTask, Alone!ThreadFree, Alone!BeginInsert(t)
      PROVE  AloneP!ThreadFree /\ AloneP!BeginInsert(t)
  <2>1. AloneP!ThreadFree
    BY <1>2 DEF Alone!ThreadFree, AloneP!ThreadFree, Alone!Active, AloneP!Active,
       Alone!Idle, AloneP!Idle, Alone!Cardinality, AloneP!Cardinality
  <2>2. AloneP!BeginInsert(t)
    BY <1>2 DEF Alone!BeginInsert, AloneP!BeginInsert, Alone!Idle, AloneP!Idle,
       Alone!NoIds, AloneP!NoIds, Alone!Table, AloneP!Table
  <2>. QED
    BY <2>1, <2>2
<1>3. ASSUME NEW t \in DbTask, Alone!Query(t)  PROVE AloneP!Query(t)
  BY <1>3 DEF AloneP!Query, Alone!Query, AloneP!EnterSection, Alone!EnterSection,
     AloneP!Matching, Alone!Matching, AloneP!Cond, Alone!Cond, AloneP!NameOf, Alone!NameOf,
     AloneP!Parent, Alone!Parent, AloneP!MayFail, Alone!MayFail,
     AloneP!CountFault, Alone!CountFault
<1>4. ASSUME NEW t \in DbTask, Alone!StoreResult(t)  PROVE AloneP!StoreResult(t)
  BY <1>4 DEF AloneP!StoreResult, Alone!StoreResult, AloneP!LeaveSection, Alone!LeaveSection,
     AloneP!AfterFirstSelect, Alone!AfterFirstSelect, AloneP!AfterTable, Alone!AfterTable,
     AloneP!NextTable, Alone!NextTable, AloneP!Idle, Alone!Idle, AloneP!NoIds, Alone!NoIds,
     AloneP!Table, Alone!Table
<1>5. ASSUME NEW t \in DbTask, Alone!Insert(t)  PROVE AloneP!Insert(t)
  BY <1>5 DEF AloneP!Insert, Alone!Insert, AloneP!Accepts, Alone!Accepts,
     AloneP!ForeignKeysHold, Alone!ForeignKeysHold, AloneP!Exists, Alone!Exists,
     AloneP!Cond, Alone!Cond, AloneP!NameOf, Alone!NameOf, AloneP!Parent, Alone!Parent,
     AloneP!MayFail, Alone!MayFail, AloneP!CountFault, Alone!CountFault
<1>6. ASSUME NEW t \in DbTask, Alone!Update(t)  PROVE AloneP!Update(t)
  BY <1>6 DEF AloneP!Update, Alone!Update, AloneP!MayFail, Alone!MayFail,
     AloneP!CountFault, Alone!CountFault, AloneP!Idle, Alone!Idle, AloneP!NoIds, Alone!NoIds,
     AloneP!Table, Alone!Table
<1>7. ASSUME Alone!DbTerminated  PROVE AloneP!DbTerminated
  BY <1>7 DEF Alone!DbTerminated, AloneP!DbTerminated, Alone!Finished, AloneP!Finished,
     Alone!Idle, AloneP!Idle, Alone!dbvars, AloneP!dbvars
<1>. QED
  BY <1>1, <1>2, <1>3, <1>4, <1>5, <1>6, <1>7
  DEF Alone!DbNext, AloneP!DbNext, Alone!InsertStep, AloneP!InsertStep

\* The inductive invariants of TrDb.
AloneInv == AloneP!Inv /\ AloneP!StoreInv /\ AloneP!ScoreRounds

LEMMA AloneInvInit == Alone!DbInit => AloneInv
<1>. SUFFICES ASSUME Alone!DbInit  PROVE AloneInv
  OBVIOUS
<1>1. AloneP!DbInit
  BY SameInit
<1>. QED
  BY <1>1, AloneAssumptions, AloneP!StoreStarts DEF AloneInv

LEMMA AloneInvNext ==
  ServerTables = Db!Table /\ AloneInv /\ [Alone!DbNext]_(Alone!dbvars) => AloneInv'
<1>. SUFFICES ASSUME ServerTables = Db!Table, AloneInv, [Alone!DbNext]_(Alone!dbvars)
              PROVE  AloneInv'
  OBVIOUS
<1>1. [AloneP!DbNext]_(AloneP!dbvars)
  BY SameNext
<1>2. ServerTables = AloneP!Table
  BY DEF Db!Table, AloneP!Table
<1>. QED
  BY <1>1, <1>2, AloneAssumptions, AloneP!StoreSteps DEF AloneInv

-----------------------------------------------------------------------------
(***************************************************************************)
(* How the results printed and the calls of trm_db_insert are counted.     *)
(***************************************************************************)

\* The results a task has printed are counted by it, and stored one by one.
Counted ==
  /\ IsSeq(results)
  /\ \A k \in DOMAIN results : results[k].file \in DOMAIN task
  /\ \A p \in DOMAIN task :
       /\ Cardinality(ResultsOf(p)) = task[p].printed
       /\ task[p].stage = "none" => task[p].printed = 0 /\ (p \in DbTask => round[p] = 0)
       /\ gconf.db # 0 /\ p \in DbTask =>
            \/ round[p] = task[p].printed
            \/ task[p].stage = "db" /\ round[p] + 1 = task[p].printed
  /\ \A p \in DbTask : p \notin DOMAIN task => round[p] = 0
  /\ pc \in {"exit", "done"} => \A p \in DOMAIN task : task[p].stage \in {"none", "done"}

LEMMA CountedInit == RankInit => Counted
<1>. SUFFICES ASSUME RankInit  PROVE Counted
  OBVIOUS
<1>1. IsSeq(results) /\ DOMAIN results = {}
  <2>1. results = <<>>
    BY DEF RankInit, Init
  <2>2. <<>> \in Seq(Nat) /\ DOMAIN <<>> = {}
    OBVIOUS
  <2>3. IsSeq(<<>>)
    BY <2>2, SeqIsSeq
  <2>. QED
    BY <2>1, <2>2, <2>3
<1>2. \A p : ResultsOf(p) = {}
  BY <1>1 DEF ResultsOf
<1>3. \A p \in DOMAIN task : task[p].stage = "none" /\ task[p].printed = 0
  BY DEF RankInit, Init
<1>4. \A p \in DbTask : round[p] = 0
  BY DEF RankInit, Db!DbInit
<1>5. pc = "globals"
  BY DEF RankInit, Init
<1>. QED
  BY <1>1, <1>2, <1>3, <1>4, <1>5, FS_EmptySet DEF Counted

LEMMA CountedMain ==
  ASSUME RankInv, Counted, MainAlone
  PROVE  Counted'
<1>1. UNCHANGED <<argv, results, round>>
  BY DEF MainAlone, MainStep, GlobalOption, HelpOption, EndGlobals, LocalOption,
         FileArgument, EndLoop, Barrier, Exit, onlydbvars
<1>2. \A p : ResultsOf(p)' = ResultsOf(p)
  BY <1>1 DEF ResultsOf
<1>3. pc' \in {"exit", "done"} =>
        UNCHANGED task /\ \A p \in DOMAIN task : task[p].stage \in {"none", "done"}
  <2>1. CASE GlobalOption
    BY <2>1 DEF GlobalOption
  <2>2. CASE HelpOption
    BY <2>2 DEF HelpOption, RankInv, NotMadeYet
  <2>3. CASE EndGlobals
    BY <2>3 DEF EndGlobals
  <2>4. CASE LocalOption \/ FileArgument \/ EndLoop
    BY <2>4 DEF LocalOption, FileArgument, EndLoop, InLoop
  <2>5. CASE Barrier
    BY <2>5 DEF Barrier, TasksDone
  <2>6. CASE Exit
    <3>1. pc = "exit" /\ UNCHANGED task
      BY <2>6 DEF Exit
    <3>. QED
      BY <3>1 DEF Counted
  <2>. QED
    BY <2>1, <2>2, <2>3, <2>4, <2>5, <2>6 DEF MainAlone, MainStep
<1>4. CASE UNCHANGED <<task, gconf>>
  <2>1. \A p \in DOMAIN task :
          /\ Cardinality(ResultsOf(p)') = task[p].printed
    BY <1>2 DEF Counted
  <2>. QED
    BY <1>1, <1>3, <1>4, <2>1 DEF Counted
<1>5. CASE GlobalOption
  <2>1. UNCHANGED task /\ \A p \in DOMAIN task : task[p].stage = "none"
    BY <1>5 DEF GlobalOption, RankInv, NotMadeYet
  <2>2. \A p \in DOMAIN task :
          Cardinality(ResultsOf(p)') = task[p].printed /\ task[p].printed = 0
          /\ (p \in DbTask => round[p] = 0)
    BY <1>2, <2>1 DEF Counted
  <2>. QED
    BY <1>1, <1>3, <2>1, <2>2 DEF Counted
<1>6. CASE FileArgument /\ Loads(argv[i])
  <2>1. PICK s \in {"rating", "queued"} :
          task' = [task EXCEPT ![i] = [stage |-> s, conf |-> lconf, printed |-> 0]]
    BY <1>6 DEF FileArgument
  <2>2. i \in DOMAIN task /\ task[i].stage = "none" /\ UNCHANGED gconf
    <3>1. i \in DOMAIN task
      BY <1>6, Positions DEF FileArgument, RankInv, RankTypeOK
    <3>. QED
      BY <1>6, <3>1 DEF FileArgument, RankInv, NotMadeYet, RankTypeOK
  <2>3. /\ DOMAIN task' = DOMAIN task
        /\ \A q \in DOMAIN task \ {i} : task'[q] = task[q]
        /\ task'[i].stage = s /\ task'[i].printed = 0
        /\ task[i].printed = 0 /\ (i \in DbTask => round[i] = 0)
    BY <2>1, <2>2 DEF Counted
  <2>4. \A p \in DOMAIN task :
          Cardinality(ResultsOf(p)') = task'[p].printed
    BY <1>2, <2>3 DEF Counted
  <2>5. pc' \notin {"exit", "done"}
    BY <1>6 DEF FileArgument, InLoop
  <2>. QED
    BY <1>1, <2>2, <2>3, <2>4, <2>5 DEF Counted
<1>. QED
  BY <1>4, <1>5, <1>6 DEF MainAlone, MainStep, HelpOption, EndGlobals, LocalOption,
     FileArgument, EndLoop, Barrier, Exit

\* A step of task p that prints no result, and starts or ends no call.
LEMMA CountedOneTask ==
  ASSUME Counted, NEW p \in DOMAIN task, UNCHANGED <<pc, gconf, results, round>>,
         DOMAIN task' = DOMAIN task,
         \A q \in DOMAIN task \ {p} : task'[q] = task[q],
         task'[p].printed = task[p].printed,
         task[p].stage \notin {"none", "done"}, task'[p].stage # "none",
         gconf.db # 0 /\ p \in DbTask => round[p] = task[p].printed
  PROVE  Counted'
<1>1. \A q : ResultsOf(q)' = ResultsOf(q)
  BY DEF ResultsOf
<1>2. \A q \in DOMAIN task : Cardinality(ResultsOf(q)') = task'[q].printed
  BY <1>1 DEF Counted
<1>3. pc' \notin {"exit", "done"}
  BY DEF Counted
<1>. QED
  BY <1>2, <1>3 DEF Counted

LEMMA CountedPrintEnd ==
  ASSUME RankInv, Counted, NEW p \in DOMAIN task, PrintEnd(p), UNCHANGED onlydbvars
  PROVE  Counted'
<1>1. /\ DOMAIN task' = DOMAIN task
      /\ \A q \in DOMAIN task \ {p} : task'[q] = task[q]
      /\ task'[p].stage \in {"rating", "done", "db"}
      /\ task'[p].printed = task[p].printed + 1
  BY InvPrintEnd
<1>2. /\ task[p].stage = "printing"
      /\ results' = Append(results, [file |-> p, conf |-> ConfOf(p)])
      /\ UNCHANGED <<pc, gconf, round>>
      /\ gconf.db # 0 => task' = [task EXCEPT ![p] =
           [[task[p] EXCEPT !.printed = @ + 1] EXCEPT !.stage = "db"]]
  BY DEF PrintEnd, onlydbvars
<1>3. IsTask(task[p])
  BY DEF RankInv, RankTypeOK
<1>4. gconf.db # 0 => task'[p].stage = "db"
  BY <1>2, <1>3 DEF IsTask
<1>. DEFINE new == Len(results) + 1
<1>5. /\ IsSeq(results') /\ DOMAIN results' = DOMAIN results \cup {new} /\ new \notin DOMAIN results
      /\ \A k \in DOMAIN results : results'[k] = results[k]
      /\ results'[new].file = p
  BY <1>2, AppendSeq DEF Counted
<1>. HIDE DEF new
<1>6. /\ ResultsOf(p)' = ResultsOf(p) \cup {new} /\ new \notin ResultsOf(p)
      /\ \A q \in DOMAIN task \ {p} : ResultsOf(q)' = ResultsOf(q)
  BY <1>5 DEF ResultsOf
<1>7. Cardinality(ResultsOf(p)') = task'[p].printed
  BY <1>1, <1>6, ResultsOfFinite, FS_AddElement DEF Counted
<1>8. \A q \in DOMAIN task : Cardinality(ResultsOf(q)') = task'[q].printed
  BY <1>1, <1>6, <1>7 DEF Counted
<1>9. pc' \notin {"exit", "done"}
  BY <1>2 DEF Counted
<1>10. \A k \in DOMAIN results' : results'[k].file \in DOMAIN task
  BY <1>5 DEF Counted
<1>11. gconf.db # 0 /\ p \in DbTask => round[p] = task[p].printed
  BY <1>2 DEF Counted
<1>. QED
  BY <1>1, <1>2, <1>4, <1>5, <1>8, <1>9, <1>10, <1>11 DEF Counted

LEMMA CountedTaskAlone ==
  ASSUME RankInv, Counted, NEW p \in DbTask, TaskAlone(p)
  PROVE  Counted'
<1>1. p \in DOMAIN task /\ UNCHANGED onlydbvars /\ UNCHANGED round
  BY DEF TaskAlone, onlydbvars
<1>2. CASE StartTask(p) \/ Rate(p) \/ PrintBegin(p)
  <2>1. /\ \E s \in {"rating", "rated", "printing"} : task' = [task EXCEPT ![p].stage = s]
        /\ task[p].stage \in {"queued", "rating", "rated"}
        /\ UNCHANGED <<pc, gconf, results>>
    BY <1>2 DEF StartTask, Rate, PrintBegin
  <2>2. IsTask(task[p])
    BY <1>1 DEF RankInv, RankTypeOK
  <2>3. /\ DOMAIN task' = DOMAIN task
        /\ \A q \in DOMAIN task \ {p} : task'[q] = task[q]
        /\ task'[p].stage # "none" /\ task'[p].printed = task[p].printed
    BY <1>1, <2>1, <2>2 DEF IsTask
  <2>4. gconf.db # 0 => round[p] = task[p].printed
    BY <1>1, <2>1 DEF Counted
  <2>. QED
    BY <1>1, <2>1, <2>3, <2>4, CountedOneTask
<1>3. CASE PrintEnd(p)
  BY <1>1, <1>3, CountedPrintEnd
<1>. QED
  BY <1>2, <1>3 DEF TaskAlone

LEMMA CountedInDb ==
  ASSUME RankInv, Counted, NEW p \in DbTask, TaskInDb(p)
  PROVE  Counted'
<1>1. p \in DOMAIN task
  BY DEF TaskInDb
<1>2. CASE CallInsert(p) \/ InInsert(p)
  <2>1. UNCHANGED <<task, results, pc, gconf>> /\ task[p].stage = "db"
    BY <1>1, <1>2, DbStepFacts DEF onlymainvars
  <2>2. \A q : ResultsOf(q)' = ResultsOf(q)
    BY <2>1 DEF ResultsOf
  <2>3. \A q \in DOMAIN task : Cardinality(ResultsOf(q)') = task[q].printed
    BY <2>2 DEF Counted
  <2>4. round \in [DbTask -> Nat]
    BY DEF RankInv, RankTypeOK
  <2>5. CASE CallInsert(p)
    <3>1. round[p] < task[p].printed /\ round' = [round EXCEPT ![p] = @ + 1]
      BY <2>5 DEF CallInsert, Db!BeginInsert
    <3>2. \A q \in DbTask \ {p} : round'[q] = round[q]
      BY <3>1, <2>4
    <3>3. round'[p] = round[p] + 1 /\ round[p] \in Nat
      BY <3>1, <2>4
    <3>4. gconf.db # 0 => round'[p] = task[p].printed
      BY <3>1, <3>3, <1>1 DEF Counted
    <3>. QED
      BY <1>1, <2>1, <2>3, <3>2, <3>4 DEF Counted
  <2>6. CASE InInsert(p)
    <3>1. round' = round
      BY <2>6 DEF InInsert, Db!InsertStep, Db!Query, Db!StoreResult, Db!Insert, Db!Update
    <3>. QED
      BY <2>1, <2>3, <3>1 DEF Counted
  <2>. QED
    BY <1>2, <2>5, <2>6
<1>3. CASE ReturnFromInsert(p)
  <2>1. /\ task[p].stage = "db" /\ round[p] = task[p].printed
        /\ UNCHANGED <<pc, gconf, results, round>>
    BY <1>3 DEF ReturnFromInsert, DbReturn, onlydbvars
  <2>2. /\ DOMAIN task' = DOMAIN task
        /\ \A q \in DOMAIN task \ {p} : task'[q] = task[q]
        /\ task'[p].stage \in {"rating", "done"} /\ task'[p].printed = task[p].printed
    BY <1>1, <1>3, InvReturnFromInsert
  <2>. QED
    BY <1>1, <2>1, <2>2, CountedOneTask
<1>. QED
  BY <1>2, <1>3 DEF TaskInDb

LEMMA CountedNext == RankInv /\ Counted /\ [RankNext]_<<vars, onlydbvars>> => Counted'
<1>. SUFFICES ASSUME RankInv, Counted, [RankNext]_<<vars, onlydbvars>>  PROVE Counted'
  OBVIOUS
<1>1. CASE MainAlone
  BY <1>1, CountedMain
<1>2. ASSUME NEW p \in DbTask, TaskInDb(p) \/ TaskAlone(p)  PROVE Counted'
  BY <1>2, CountedInDb, CountedTaskAlone
<1>3. CASE RankTerminated \/ UNCHANGED <<vars, onlydbvars>>
  <2>1. UNCHANGED <<task, results, pc, gconf, round>>
    BY <1>3 DEF RankTerminated, Terminated, vars, onlydbvars
  <2>2. \A q : ResultsOf(q)' = ResultsOf(q)
    BY <2>1 DEF ResultsOf
  <2>3. \A q \in DOMAIN task : Cardinality(ResultsOf(q)') = task[q].printed
    BY <2>2 DEF Counted
  <2>. QED
    BY <2>1, <2>3 DEF Counted
<1>. QED
  BY <1>1, <1>2, <1>3 DEF RankNext

-----------------------------------------------------------------------------
\* What TrDb says is stored is stored in the whole program's database.
LEMMA SameStored ==
  ASSUME NEW t, NEW r, AloneP!Stored(t, r)
  PROVE  Db!Stored(t, r)
BY DEF AloneP!Stored, Db!Stored, AloneP!IsScore, Db!IsScore, AloneP!IsDiff, Db!IsDiff,
       AloneP!IsMapset, Db!IsMapset, AloneP!IsUser, Db!IsUser, AloneP!IsMod, Db!IsMod,
       AloneP!Exists, Db!Exists

LEMMA StoredAtTheEnd == RankInv /\ Counted /\ AloneInv => EveryResultStored
<1>. SUFFICES ASSUME RankInv, Counted, AloneInv,
                     pc = "done", gconf.db # 0, connected, faults = 0
              PROVE  /\ \A p \in DbTask : \A r \in 1..Printed(p) : Db!Stored(p, r)
                     /\ \A s \in DOMAIN rows["tr_score"] :
                          rows["tr_score"][s].cond.count \in 1..Printed(rows["tr_score"][s].by)
  BY DEF EveryResultStored
<1>1. \A p : Printed(p) = Cardinality(ResultsOf(p))
  BY DEF Printed, ResultsOf
<1>2. \A p \in DbTask : round[p] = Printed(p) /\ step[p] = Db!Idle
  <2>. SUFFICES ASSUME NEW p \in DbTask  PROVE round[p] = Printed(p) /\ step[p] = Db!Idle
    OBVIOUS
  <2>1. CASE p \in DOMAIN task
    <3>1. task[p].stage \in {"none", "done"}
      BY <2>1 DEF Counted
    <3>. QED
      BY <1>1, <2>1, <3>1 DEF Counted, RankInv, InDbStage
  <2>2. CASE p \notin DOMAIN task
    <3>1. ResultsOf(p) = {}
      BY <2>2 DEF Counted, ResultsOf
    <3>. QED
      BY <1>1, <2>2, <3>1, FS_EmptySet DEF Counted, RankInv, InDbStage
  <2>. QED
    BY <2>1, <2>2
<1>3. ASSUME NEW p \in DbTask, NEW r \in 1..Printed(p)  PROVE Db!Stored(p, r)
  <2>1. round[p] \in 0..MaxPrint
    BY DEF AloneInv, AloneP!Inv, AloneP!DbTypeOK
  <2>2. r \in AloneP!Round /\ (r < round[p] \/ r = round[p])
    BY <1>2, <1>3, <2>1, TrMainAssumption DEF AloneP!Round
  <2>3. step[p] = AloneP!Idle
    BY <1>2 DEF Db!Idle, AloneP!Idle
  <2>4. AloneP!Stored(p, r)
    BY <2>2, <2>3 DEF AloneInv, AloneP!StoreInv, AloneP!StoreOf
  <2>. QED
    BY <2>4, SameStored
<1>4. ASSUME NEW s \in DOMAIN rows["tr_score"]
      PROVE  rows["tr_score"][s].cond.count \in 1..Printed(rows["tr_score"][s].by)
  <2>1. rows["tr_score"][s].cond.count \in 1..round[rows["tr_score"][s].by]
    BY DEF AloneInv, AloneP!ScoreRounds
  <2>2. rows["tr_score"][s].by \in DbTask
    <3>1. rows["tr_score"] \in Seq([cond : AloneP!CondType, by : DbTask])
      BY DEF AloneInv, AloneP!Inv, AloneP!DbTypeOK, AloneP!Table
    <3>2. rows["tr_score"][s] \in [cond : AloneP!CondType, by : DbTask]
      BY <3>1, ElementOfSeq, LenProperties
    <3>. QED
      BY <3>2
  <2>. QED
    BY <2>1, <2>2, <1>2
<1>. QED
  BY <1>3, <1>4

\* At the end each result printed is in the database, as a score of the file it
\* was printed for, and no other score is, if the server has the program's tables.
THEOREM RankStoresResults ==
  ServerTables = Db!Table => (RankSpec => []EveryResultStored)
<1>. SUFFICES ASSUME ServerTables = Db!Table  PROVE RankSpec => []EveryResultStored
  OBVIOUS
<1>1. AloneInv /\ [Alone!DbNext]_(Alone!dbvars) => AloneInv'
  BY AloneInvNext
<1>2. RankSpec => Alone!DbInit /\ [][Alone!DbNext]_(Alone!dbvars)
  BY RankImplementsDb DEF ImplementsDb
<1>3. RankSpec => []AloneInv
  BY <1>1, <1>2, AloneInvInit, PTL
<1>4. RankSpec => [](RankInv /\ Counted)
  BY RankInvInit, RankInvNext, CountedInit, CountedNext, PTL DEF RankSpec
<1>. QED
  BY <1>3, <1>4, StoredAtTheEnd, PTL
=============================================================================
