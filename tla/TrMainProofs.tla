---------------------------- MODULE TrMainProofs ----------------------------
(***************************************************************************)
(* Proofs about TrMain, for any command lines, options, files and number   *)
(* of threads: what the tasks write is not mixed (MainInv), and each file  *)
(* is rated with the options that precede it (AskedInv).                   *)
(***************************************************************************)
EXTENDS TrMain, NatSets, SequenceTheorems, FiniteSetTheorems, TLAPS

-----------------------------------------------------------------------------
(***************************************************************************)
(* Sequences whose elements are of no particular type.                     *)
(***************************************************************************)
IsSeq(s) == Len(s) \in Nat /\ s = [k \in 1..Len(s) |-> s[k]]

LEMMA SeqIsSeq ==
  ASSUME NEW S, NEW s \in Seq(S)
  PROVE  IsSeq(s)
<1>1. Len(s) \in Nat /\ s \in [1..Len(s) -> S]
  BY LenProperties
<1>2. s = [k \in 1..Len(s) |-> s[k]]
  BY <1>1
<1>. QED
  BY <1>1, <1>2 DEF IsSeq

LEMMA EmptyIsSeq == IsSeq(<<>>) /\ DOMAIN <<>> = {} /\ Len(<<>>) = 0
<1>1. <<>> \in Seq(Nat) /\ DOMAIN <<>> = {} /\ Len(<<>>) = 0
  OBVIOUS
<1>. QED
  BY <1>1, SeqIsSeq

LEMMA AppendSeq ==
  ASSUME NEW s, IsSeq(s), NEW e
  PROVE  /\ Len(s) \in Nat /\ DOMAIN s = 1..Len(s)
         /\ IsSeq(Append(s, e)) /\ Len(Append(s, e)) = Len(s) + 1
         /\ DOMAIN Append(s, e) = 1..(Len(s) + 1)
         /\ \A k \in 1..Len(s) : Append(s, e)[k] = s[k]
         /\ Append(s, e)[Len(s) + 1] = e
<1>. DEFINE n == Len(s)
           A == {s[k] : k \in 1..n} \cup {e}
<1>1. n \in Nat /\ s = [k \in 1..n |-> s[k]]
  BY DEF IsSeq
<1>2. s \in [1..n -> A]
  BY <1>1
<1>3. s \in Seq(A) /\ e \in A
  BY <1>1, <1>2
<1>. HIDE DEF A
<1>4. /\ Len(s) \in Nat /\ DOMAIN s = 1..Len(s)
      /\ Append(s, e) \in Seq(A) /\ Len(Append(s, e)) = Len(s) + 1
      /\ DOMAIN Append(s, e) = 1..(Len(s) + 1)
      /\ \A k \in 1..Len(s) : Append(s, e)[k] = s[k]
      /\ Append(s, e)[Len(s) + 1] = e
  BY <1>3
<1>. QED
  BY <1>4, SeqIsSeq

-----------------------------------------------------------------------------
(***************************************************************************)
(* The tasks.                                                              *)
(***************************************************************************)
Stage == {"none", "queued", "rating", "rated", "printing", "db", "done"}
IsTask(t) ==
  /\ t = [stage |-> t.stage, conf |-> t.conf, printed |-> t.printed]
  /\ t.stage \in Stage /\ t.printed \in Nat

\* Only a word that main has passed can have a task.
NotMadeYet ==
  /\ \A p \in DOMAIN task : p >= i => task[p].stage = "none"
  /\ pc = "globals" => inlined = NoTask /\ \A p \in DOMAIN task : task[p].stage = "none"

TasksOK ==
  /\ argv \in CommandLines /\ i \in Nat \ {0}
  /\ DOMAIN task = DOMAIN argv
  /\ \A p \in DOMAIN task : IsTask(task[p])
  /\ NotMadeYet
  /\ pc \in {"exit", "done"} => \A p \in DOMAIN task : task[p].stage \in {"none", "done"}

\* The tasks that are printing, one at most, are in the critical section.
PrintingOK ==
  /\ critical # NoTask => critical \in DOMAIN task /\ task[critical].stage = "printing"
  /\ \A p \in DOMAIN task : task[p].stage = "printing" => critical = p

\* A position of the command line is not NoTask.
LEMMA ArgvPositions ==
  ASSUME argv \in CommandLines
  PROVE  /\ DOMAIN argv = 1..Len(argv) /\ Len(argv) \in Nat /\ Len(argv) <= MaxArgs
         /\ MaxArgs \in Nat
         /\ NoTask \notin DOMAIN argv
<1>1. argv \in Seq(DOMAIN FirstChar) /\ Len(argv) <= MaxArgs
  BY TrMainAssumption
<1>2. DOMAIN argv = 1..Len(argv) /\ Len(argv) \in Nat
  BY <1>1
<1>. QED
  BY <1>1, <1>2, TrMainAssumption

\* Words are only passed.
LEMMA ConsumedType ==
  ASSUME NEW p
  PROVE  Consumed(GlobalArgs, p) \in Nat /\ Consumed(LocalArgs, p) \in Nat
BY DEF Consumed, Applies, GlobalArgs, LocalArgs

LEMMA TasksInit == Init => TasksOK /\ PrintingOK
<1>. SUFFICES ASSUME Init  PROVE TasksOK /\ PrintingOK
  OBVIOUS
<1>1. argv \in CommandLines /\ DOMAIN task = DOMAIN argv /\ i = 1
  BY DEF Init
<1>2. ASSUME NEW p \in DOMAIN task  PROVE IsTask(task[p]) /\ task[p].stage = "none"
  BY <1>2 DEF Init, IsTask, Stage
<1>3. critical = NoTask /\ inlined = NoTask /\ pc = "globals"
  BY DEF Init
<1>. QED
  BY <1>1, <1>2, <1>3 DEF TasksOK, NotMadeYet, PrintingOK

\* The steps of main that make no task.
LEMMA TasksMainPasses ==
  ASSUME TasksOK, PrintingOK,
         UNCHANGED <<argv, task, inlined, critical>>,
         i' \in Nat, i' >= i,
         pc' = "globals" => pc = "globals",
         pc' \in {"exit", "done"} => \A p \in DOMAIN task : task[p].stage \in {"none", "done"}
  PROVE  TasksOK' /\ PrintingOK'
<1>1. \A p \in DOMAIN task : p \in Int /\ (p >= i' => p >= i)
  BY ArgvPositions DEF TasksOK
<1>2. NotMadeYet'
  BY <1>1 DEF TasksOK, NotMadeYet
<1>. QED
  BY <1>2 DEF TasksOK, PrintingOK

LEMMA TasksFile ==
  ASSUME TasksOK, PrintingOK, FileArgument, Loads(argv[i])
  PROVE  TasksOK' /\ PrintingOK'
<1>1. PICK own \in BOOLEAN :
        task' = [task EXCEPT ![i] = [stage |-> IF own THEN "rating" ELSE "queued",
                                     conf |-> lconf, printed |-> 0]]
  BY DEF FileArgument
<1>2. /\ pc = "loop" /\ pc' = pc /\ i \in DOMAIN task /\ i' = i + 1 /\ i \in Nat
      /\ UNCHANGED <<argv, critical>>
  BY ArgvPositions DEF FileArgument, InLoop, TasksOK
<1>3. /\ DOMAIN task' = DOMAIN task
      /\ \A q \in DOMAIN task \ {i} : task'[q] = task[q]
      /\ task'[i] = [stage |-> IF own THEN "rating" ELSE "queued",
                     conf |-> lconf, printed |-> 0]
      /\ task[i].stage = "none"
  BY <1>1, <1>2 DEF TasksOK, NotMadeYet
<1>4. IsTask(task'[i]) /\ task'[i].stage # "printing"
  BY <1>3 DEF IsTask, Stage
<1>5. \A p \in DOMAIN task : p \in Int /\ (p >= i' => p >= i /\ p # i)
  BY <1>2, ArgvPositions DEF TasksOK
<1>6. NotMadeYet'
  BY <1>2, <1>3, <1>5 DEF TasksOK, NotMadeYet
<1>7. PrintingOK'
  BY <1>2, <1>3, <1>4 DEF PrintingOK
<1>. QED
  BY <1>2, <1>3, <1>4, <1>6, <1>7 DEF TasksOK

LEMMA TasksMain ==
  ASSUME TasksOK, PrintingOK, MainStep
  PROVE  TasksOK' /\ PrintingOK'
<1>0. i \in Nat /\ i >= 0
  BY DEF TasksOK
<1>1. CASE GlobalOption
  BY <1>0, <1>1, ConsumedType, TasksMainPasses DEF GlobalOption
<1>2. CASE HelpOption
  BY <1>0, <1>2, TasksMainPasses DEF HelpOption, TasksOK, NotMadeYet
<1>3. CASE EndGlobals
  BY <1>0, <1>3, TasksMainPasses DEF EndGlobals
<1>4. CASE LocalOption
  BY <1>0, <1>4, ConsumedType, TasksMainPasses DEF LocalOption, InLoop
<1>5. CASE FileArgument
  <2>1. CASE Loads(argv[i])
    BY <2>1, <1>5, TasksFile
  <2>2. CASE ~Loads(argv[i])
    BY <2>2, <1>0, <1>5, TasksMainPasses DEF FileArgument, InLoop
  <2>. QED
    BY <2>1, <2>2
<1>6. CASE EndLoop
  BY <1>0, <1>6, TasksMainPasses DEF EndLoop
<1>7. CASE Barrier
  BY <1>0, <1>7, TasksMainPasses DEF Barrier, TasksDone
<1>8. CASE Exit
  <2>1. UNCHANGED <<argv, i, task, inlined, critical>> /\ pc = "exit" /\ pc' = "done"
    BY <1>8 DEF Exit
  <2>. QED
    BY <1>0, <2>1, TasksMainPasses DEF TasksOK
<1>. QED
  BY <1>1, <1>2, <1>3, <1>4, <1>5, <1>6, <1>7, <1>8 DEF MainStep

\* What a step of a task does to the tasks.
LEMMA TaskStepFacts ==
  ASSUME TasksOK, NEW p \in DOMAIN task, TaskStep(p)
  PROVE  /\ UNCHANGED <<argv, pc, i, gconf>>
         /\ DOMAIN task' = DOMAIN task
         /\ \A q \in DOMAIN task \ {p} : task'[q] = task[q]
         /\ IsTask(task'[p])
         /\ task[p].stage \notin {"none", "done"}
         /\ StartTask(p) \/ Rate(p) \/ DbReturn(p) =>
              /\ task[p].stage # "printing" /\ task'[p].stage # "printing"
              /\ UNCHANGED <<critical, out, results, yaml_prefix>>
         /\ PrintBegin(p) => task'[p].stage = "printing"
         /\ PrintEnd(p) => task'[p].stage # "printing"
<1>1. IsTask(task[p])
  BY DEF TasksOK
<1>2. ASSUME NEW s \in Stage, task' = [task EXCEPT ![p].stage = s]
      PROVE  /\ DOMAIN task' = DOMAIN task
             /\ \A q \in DOMAIN task \ {p} : task'[q] = task[q]
             /\ IsTask(task'[p]) /\ task'[p].stage = s
  BY <1>1, <1>2 DEF IsTask
<1>3. ASSUME NEW t, IsTask(t), AfterResult(p, t)
      PROVE  /\ DOMAIN task' = DOMAIN task
             /\ \A q \in DOMAIN task \ {p} : task'[q] = task[q]
             /\ IsTask(task'[p]) /\ task'[p].stage \in {"rating", "done"}
  <2>1. PICK s \in {"rating", "done"} : task' = [task EXCEPT ![p] = [t EXCEPT !.stage = s]]
    BY <1>3 DEF AfterResult
  <2>. QED
    BY <1>3, <2>1 DEF IsTask, Stage
<1>4. CASE StartTask(p) \/ Rate(p) \/ PrintBegin(p)
  <2>1. PICK s \in {"rating", "rated", "printing"} :
          /\ task' = [task EXCEPT ![p].stage = s]
          /\ StartTask(p) \/ Rate(p) => s # "printing"
          /\ PrintBegin(p) => s = "printing"
    BY <1>4 DEF StartTask, Rate, PrintBegin
  <2>2. /\ DOMAIN task' = DOMAIN task
        /\ \A q \in DOMAIN task \ {p} : task'[q] = task[q]
        /\ IsTask(task'[p]) /\ task'[p].stage = s
    BY <2>1, <1>2 DEF Stage
  <2>. QED
    BY <2>1, <2>2, <1>4 DEF StartTask, Rate, PrintBegin, DbReturn, PrintEnd
<1>5. CASE DbReturn(p)
  <2>1. task[p].stage = "db" /\ AfterResult(p, task[p])
    BY <1>5 DEF DbReturn
  <2>. QED
    BY <2>1, <1>1, <1>3, <1>5 DEF StartTask, Rate, PrintBegin, DbReturn, PrintEnd
<1>6. CASE PrintEnd(p)
  <2>. DEFINE t == [task[p] EXCEPT !.printed = @ + 1]
  <2>1. IsTask(t)
    BY <1>1 DEF IsTask
  <2>2. CASE gconf.db = 0
    <3>1. AfterResult(p, t)
      BY <1>6, <2>2 DEF PrintEnd
    <3>. HIDE DEF t
    <3>2. /\ DOMAIN task' = DOMAIN task
          /\ \A q \in DOMAIN task \ {p} : task'[q] = task[q]
          /\ IsTask(task'[p]) /\ task'[p].stage \in {"rating", "done"}
      BY <3>1, <2>1, <1>3
    <3>. QED
      BY <3>2, <1>6 DEF StartTask, Rate, PrintBegin, DbReturn, PrintEnd
  <2>3. CASE gconf.db # 0
    <3>1. task' = [task EXCEPT ![p] = [t EXCEPT !.stage = "db"]]
      BY <1>6, <2>3 DEF PrintEnd
    <3>. HIDE DEF t
    <3>2. /\ DOMAIN task' = DOMAIN task
          /\ \A q \in DOMAIN task \ {p} : task'[q] = task[q]
          /\ IsTask(task'[p]) /\ task'[p].stage = "db"
      BY <3>1, <2>1 DEF IsTask, Stage
    <3>. QED
      BY <3>2, <1>6 DEF StartTask, Rate, PrintBegin, DbReturn, PrintEnd
  <2>. QED
    BY <2>2, <2>3
<1>. QED
  BY <1>4, <1>5, <1>6 DEF TaskStep

LEMMA TasksTask ==
  ASSUME TasksOK, PrintingOK, NEW p \in DOMAIN task, TaskStep(p)
  PROVE  TasksOK' /\ PrintingOK'
<1>1. TasksOK'
  BY TaskStepFacts DEF TasksOK, NotMadeYet
<1>2. CASE StartTask(p) \/ Rate(p) \/ DbReturn(p)
  BY <1>1, <1>2, TaskStepFacts DEF PrintingOK
<1>3. CASE PrintBegin(p)
  <2>1. critical = NoTask /\ critical' = p
    BY <1>3 DEF PrintBegin, EnterSection
  <2>2. NoTask \notin DOMAIN task
    BY ArgvPositions DEF TasksOK
  <2>. QED
    BY <1>1, <1>3, <2>1, <2>2, TaskStepFacts DEF PrintingOK
<1>4. CASE PrintEnd(p)
  <2>1. critical' = NoTask /\ task[p].stage = "printing"
    BY <1>4 DEF PrintEnd, LeaveSection
  <2>. QED
    BY <1>1, <1>4, <2>1, TaskStepFacts DEF PrintingOK
<1>. QED
  BY <1>2, <1>3, <1>4 DEF TaskStep

-----------------------------------------------------------------------------
(***************************************************************************)
(* The output, token by token.                                             *)
(***************************************************************************)
Token == {"open", "comma", "begin", "end", "close"} \X (0..MaxArgs)

LEMMA ConcatAt ==
  ASSUME NEW S, NEW s \in Seq(S), NEW t \in Seq(S)
  PROVE  /\ s \o t \in Seq(S) /\ Len(s \o t) = Len(s) + Len(t)
         /\ \A k \in 1..Len(s) : (s \o t)[k] = s[k]
         /\ \A k \in 1..Len(t) : (s \o t)[Len(s) + k] = t[k]
<1>1. /\ s \o t \in Seq(S) /\ Len(s \o t) = Len(s) + Len(t)
      /\ \A k \in 1..(Len(s) + Len(t)) :
            (s \o t)[k] = IF k <= Len(s) THEN s[k] ELSE t[k - Len(s)]
  BY ConcatProperties
<1>2. Len(s) \in Nat /\ Len(t) \in Nat
  OBVIOUS
<1>3. ASSUME NEW k \in 1..Len(t)  PROVE (s \o t)[Len(s) + k] = t[k]
  <2>1. Len(s) + k \in 1..(Len(s) + Len(t)) /\ ~(Len(s) + k <= Len(s)) /\ (Len(s) + k) - Len(s) = k
    BY <1>2
  <2>. QED
    BY <1>1, <2>1
<1>4. \A k \in 1..Len(s) : k \in 1..(Len(s) + Len(t)) /\ k <= Len(s)
  BY <1>2
<1>. QED
  BY <1>1, <1>3, <1>4

LEMMA ConcatOne ==
  ASSUME NEW S, NEW s \in Seq(S), NEW e \in S
  PROVE  /\ s \o <<e>> \in Seq(S) /\ Len(s) \in Nat /\ Len(s \o <<e>>) = Len(s) + 1
         /\ \A k \in 1..Len(s) : (s \o <<e>>)[k] = s[k]
         /\ (s \o <<e>>)[Len(s) + 1] = e
<1>1. <<e>> \in Seq(S) /\ Len(<<e>>) = 1 /\ <<e>>[1] = e /\ Len(s) \in Nat /\ 1 \in 1..1
  OBVIOUS
<1>. QED
  BY <1>1, ConcatAt

\* n results are written, then the start of the one that is being printed; a
\* result is two tokens, and in YAML three.
Plain(n) ==
  /\ Len(out) = 2 * n + (IF critical = NoTask THEN 0 ELSE 1)
  /\ \A k \in 1..n : /\ out[2 * k - 1] = <<"begin", results[k].file>>
                     /\ out[2 * k] = <<"end", results[k].file>>
  /\ critical # NoTask => out[2 * n + 1] = <<"begin", critical>>
YamlResults(n) ==
  \A k \in 1..n : /\ out[3 * k - 2] = <<Separator(k), 0>>
                  /\ out[3 * k - 1] = <<"begin", results[k].file>>
                  /\ out[3 * k] = <<"end", results[k].file>>
Yaml(n) ==
  /\ YamlResults(n)
  /\ pc # "done" => Len(out) = 3 * n + (IF critical = NoTask THEN 0 ELSE 2)
  /\ critical # NoTask => /\ out[3 * n + 1] = <<Separator(n + 1), 0>>
                          /\ out[3 * n + 2] = <<"begin", critical>>
  /\ pc = "done" /\ n = 0 => /\ Len(out) = 2
                             /\ out[1] = <<"open", 0>> /\ out[2] = <<"close", 0>>
  /\ pc = "done" /\ n # 0 => Len(out) = 3 * n + 1 /\ out[3 * n + 1] = <<"close", 0>>

OutOK ==
  /\ IsSeq(results) /\ out \in Seq(Token)
  /\ \A k \in DOMAIN results : results[k].file \in 1..MaxArgs
  /\ pc = "globals" => results = <<>> /\ out = <<>>
  /\ yaml_prefix = IF gconf.yaml = 0 THEN "open" ELSE Separator(Len(results) + 1)
  /\ gconf.yaml = 0 => Plain(Len(results))
  /\ gconf.yaml # 0 => Yaml(Len(results))

MainInv == TasksOK /\ PrintingOK /\ OutOK

LEMMA OutInit == Init => OutOK
<1>. SUFFICES ASSUME Init  PROVE OutOK
  OBVIOUS
<1>1. /\ results = <<>> /\ out = <<>> /\ yaml_prefix = "open" /\ critical = NoTask
      /\ pc = "globals" /\ gconf.yaml = 0
  BY DEF Init, GlobalDefault
<1>2. <<>> \in Seq(Token)
  BY EmptySeq
<1>. QED
  BY <1>1, <1>2, EmptyIsSeq DEF OutOK, Plain

\* No task prints while main reads the global options, or after the barrier.
LEMMA NobodyPrints ==
  ASSUME TasksOK, PrintingOK, pc \in {"globals", "exit", "done"}
  PROVE  critical = NoTask
<1>1. \A p \in DOMAIN task : task[p].stage # "printing"
  BY DEF TasksOK, NotMadeYet
<1>. QED
  BY <1>1 DEF PrintingOK

\* The global options come before any output.
LEMMA OutGlobals ==
  ASSUME TasksOK, PrintingOK, OutOK, pc = "globals",
         pc' \in {"globals", "loop", "exit"}, UNCHANGED <<out, results, critical, yaml_prefix>>
  PROVE  OutOK'
<1>1. critical = NoTask
  BY NobodyPrints
<1>2. results = <<>> /\ out = <<>> /\ yaml_prefix = "open"
  BY EmptyIsSeq DEF OutOK, Separator
<1>3. Len(results) = 0 /\ Len(out) = 0
  BY <1>2, EmptyIsSeq
<1>. QED
  BY <1>1, <1>2, <1>3 DEF OutOK, Plain, Yaml, YamlResults, Separator

\* A step that writes nothing.
LEMMA OutFrame ==
  ASSUME OutOK, UNCHANGED <<out, results, critical, yaml_prefix, gconf>>,
         pc' = pc \/ (pc # "done" /\ pc' \notin {"globals", "done"})
  PROVE  OutOK'
<1>1. Len(results)' = Len(results) /\ Len(out)' = Len(out)
  OBVIOUS
<1>2. \A n : Plain(n) => Plain(n)'
  BY DEF Plain
<1>3. \A n : Yaml(n) => Yaml(n)'
  BY DEF Yaml, YamlResults, Separator
<1>. QED
  BY <1>1, <1>2, <1>3 DEF OutOK, Separator

LEMMA OutExit ==
  ASSUME TasksOK, PrintingOK, OutOK, Exit
  PROVE  OutOK'
<1>. DEFINE n == Len(results)
<1>1. /\ pc = "exit" /\ pc' = "done" /\ critical = NoTask /\ critical' = NoTask
      /\ UNCHANGED <<results, gconf, yaml_prefix>>
  BY NobodyPrints DEF Exit
<1>2. n \in Nat /\ DOMAIN results = 1..n /\ out \in Seq(Token)
  BY AppendSeq DEF OutOK
<1>3. CASE gconf.yaml = 0
  <2>1. out' = out
    BY <1>2, <1>3, ConcatEmptySeq DEF Exit
  <2>2. Plain(n)'
    BY <1>1, <1>3, <2>1 DEF OutOK, Plain
  <2>. QED
    BY <1>1, <1>3, <2>1, <2>2 DEF OutOK
<1>4. CASE gconf.yaml # 0
  <2>1. Yaml(n) /\ Len(out) = 3 * n /\ yaml_prefix = Separator(n + 1)
    BY <1>1, <1>2, <1>4 DEF OutOK, Yaml
  <2>2. <<"close", 0>> \in Token /\ <<"open", 0>> \in Token
    BY TrMainAssumption DEF Token
  <2>3. CASE n = 0
    <3>1. yaml_prefix = "open"
      BY <2>1, <2>3 DEF Separator
    <3>2. out' = out \o <<<<"open", 0>>, <<"close", 0>>>>
      BY <1>4, <3>1 DEF Exit
    <3>3. <<<<"open", 0>>, <<"close", 0>>>> \in Seq(Token)
      BY <2>2
    <3>4. /\ out' \in Seq(Token) /\ Len(out') = 2
          /\ out'[1] = <<"open", 0>> /\ out'[2] = <<"close", 0>>
      BY <1>2, <2>1, <2>3, <3>2, <3>3, ConcatProperties
    <3>5. Yaml(n)'
      BY <1>1, <2>3, <3>4 DEF Yaml, YamlResults
    <3>. QED
      BY <1>1, <1>4, <3>4, <3>5 DEF OutOK
  <2>4. CASE n # 0
    <3>. DEFINE end == <<"close", 0>>
    <3>1. yaml_prefix = "comma"
      BY <1>2, <2>1, <2>4 DEF Separator
    <3>2. out' = out \o <<end>>
      BY <1>4, <3>1 DEF Exit
    <3>7. end \in Token
      BY <2>2
    <3>. HIDE DEF end
    <3>3. /\ out \o <<end>> \in Seq(Token) /\ Len(out \o <<end>>) = 3 * n + 1
          /\ (out \o <<end>>)[3 * n + 1] = end
          /\ \A k \in 1..(3 * n) : (out \o <<end>>)[k] = out[k]
      BY <1>2, <2>1, <3>7, ConcatOne
    <3>4. /\ out' \in Seq(Token) /\ Len(out') = 3 * n + 1
          /\ out'[3 * n + 1] = end
          /\ \A k \in 1..(3 * n) : out'[k] = out[k]
      BY <3>2, <3>3
    <3>5. YamlResults(n)'
      <4>1. \A k \in 1..n : 3 * k \in 1..(3 * n) /\ 3 * k - 1 \in 1..(3 * n)
                            /\ 3 * k - 2 \in 1..(3 * n)
        BY <1>2
      <4>. QED
        BY <4>1, <3>4, <2>1, <1>1 DEF Yaml, YamlResults, Separator
    <3>6. Yaml(n)'
      BY <1>1, <2>4, <3>4, <3>5 DEF Yaml, end
    <3>. QED
      BY <1>1, <1>4, <3>4, <3>6 DEF OutOK
  <2>. QED
    BY <2>3, <2>4
<1>. QED
  BY <1>3, <1>4

LEMMA OutPrintBegin ==
  ASSUME TasksOK, PrintingOK, OutOK, NEW p \in DOMAIN task, PrintBegin(p)
  PROVE  OutOK'
<1>. DEFINE n == Len(results)
<1>1. /\ critical = NoTask /\ critical' = p /\ p # NoTask /\ p \in 0..MaxArgs
      /\ pc' = pc /\ pc \notin {"globals", "done"}
      /\ UNCHANGED <<results, gconf, yaml_prefix>>
  <2>1. task[p].stage = "rated"
    BY DEF PrintBegin
  <2>2. p \in 1..MaxArgs /\ p # NoTask /\ pc \notin {"globals", "exit", "done"}
    BY <2>1, ArgvPositions DEF TasksOK, NotMadeYet
  <2>. QED
    BY <2>2 DEF PrintBegin, EnterSection
<1>2. n \in Nat /\ DOMAIN results = 1..n /\ out \in Seq(Token)
  BY AppendSeq DEF OutOK
<1>. DEFINE begin == <<"begin", p>>
<1>3. begin \in Token
  BY <1>1 DEF Token
<1>. HIDE DEF begin
<1>5. CASE gconf.yaml = 0
  <2>1. out' = out \o <<begin>>
    <3>1. out \o <<>> = out
      BY <1>2, ConcatEmptySeq
    <3>. QED
      BY <1>5, <3>1 DEF PrintBegin, begin
  <2>2. Plain(n) /\ Len(out) = 2 * n
    BY <1>1, <1>2, <1>5 DEF OutOK, Plain
  <2>3. /\ out' \in Seq(Token) /\ Len(out') = 2 * n + 1
        /\ out'[2 * n + 1] = begin
        /\ \A k \in 1..(2 * n) : out'[k] = out[k]
    <3>1. /\ out \o <<begin>> \in Seq(Token) /\ Len(out \o <<begin>>) = 2 * n + 1
          /\ (out \o <<begin>>)[2 * n + 1] = begin
          /\ \A k \in 1..(2 * n) : (out \o <<begin>>)[k] = out[k]
      BY <1>2, <1>3, <2>2, ConcatOne
    <3>. QED
      BY <2>1, <3>1
  <2>4. \A k \in 1..n : 2 * k \in 1..(2 * n) /\ 2 * k - 1 \in 1..(2 * n)
    BY <1>2
  <2>5. Plain(n)'
    BY <1>1, <2>2, <2>3, <2>4 DEF Plain, begin
  <2>. QED
    BY <1>1, <1>5, <2>3, <2>5 DEF OutOK
<1>6. CASE gconf.yaml # 0
  <2>. DEFINE sep == <<Separator(n + 1), 0>>
  <2>1. Yaml(n) /\ Len(out) = 3 * n /\ yaml_prefix = Separator(n + 1)
    BY <1>1, <1>2, <1>6 DEF OutOK, Yaml
  <2>2. out' = (out \o <<sep>>) \o <<begin>>
    BY <1>6, <2>1 DEF PrintBegin, begin
  <2>3. sep \in Token
    BY TrMainAssumption DEF Token, Separator
  <2>. HIDE DEF sep
  <2>4. /\ out \o <<sep>> \in Seq(Token) /\ Len(out \o <<sep>>) = 3 * n + 1
        /\ (out \o <<sep>>)[3 * n + 1] = sep
        /\ \A k \in 1..(3 * n) : (out \o <<sep>>)[k] = out[k]
    BY <1>2, <2>1, <2>3, ConcatOne
  <2>5. /\ out' \in Seq(Token) /\ Len(out') = 3 * n + 2
        /\ out'[3 * n + 1] = sep /\ out'[3 * n + 2] = begin
        /\ \A k \in 1..(3 * n) : out'[k] = out[k]
    <3>1. \A k \in 1..(3 * n) : k \in 1..(3 * n + 1)
      BY <1>2
    <3>2. 3 * n + 1 \in 1..(3 * n + 1)
      BY <1>2
    <3>3. /\ out' \in Seq(Token) /\ Len(out') = (3 * n + 1) + 1
          /\ out'[(3 * n + 1) + 1] = begin
          /\ \A k \in 1..(3 * n + 1) : out'[k] = (out \o <<sep>>)[k]
      <4>. DEFINE s == out \o <<sep>>
      <4>1. s \in Seq(Token) /\ Len(s) = 3 * n + 1 /\ out' = s \o <<begin>>
        BY <2>2, <2>4
      <4>. HIDE DEF s
      <4>2. /\ s \o <<begin>> \in Seq(Token) /\ Len(s \o <<begin>>) = (3 * n + 1) + 1
            /\ (s \o <<begin>>)[(3 * n + 1) + 1] = begin
            /\ \A k \in 1..(3 * n + 1) : (s \o <<begin>>)[k] = s[k]
        BY <1>3, <4>1, ConcatOne
      <4>. QED
        BY <4>1, <4>2 DEF s
    <3>4. (3 * n + 1) + 1 = 3 * n + 2
      BY <1>2
    <3>. QED
      BY <2>4, <3>1, <3>2, <3>3, <3>4
  <2>6. \A k \in 1..n : /\ 3 * k \in 1..(3 * n) /\ 3 * k - 1 \in 1..(3 * n)
                        /\ 3 * k - 2 \in 1..(3 * n)
    BY <1>2
  <2>7. YamlResults(n)'
    BY <1>1, <2>1, <2>5, <2>6 DEF Yaml, YamlResults, Separator
  <2>8. Yaml(n)'
    BY <1>1, <2>5, <2>7 DEF Yaml, Separator, sep, begin
  <2>. QED
    BY <1>1, <1>6, <2>1, <2>5, <2>8 DEF OutOK
<1>. QED
  BY <1>5, <1>6

LEMMA OutPrintEnd ==
  ASSUME TasksOK, PrintingOK, OutOK, NEW p \in DOMAIN task, PrintEnd(p)
  PROVE  OutOK'
<1>. DEFINE n == Len(results)
           new == [file |-> p, conf |-> ConfOf(p)]
<1>1. /\ critical = p /\ critical' = NoTask /\ p # NoTask /\ p \in 1..MaxArgs
      /\ pc' = pc /\ pc \notin {"globals", "done"}
      /\ out' = Append(out, <<"end", p>>)
      /\ yaml_prefix' = (IF gconf.yaml = 0 THEN yaml_prefix ELSE "comma")
      /\ results' = Append(results, new)
      /\ UNCHANGED gconf
  <2>1. task[p].stage = "printing"
    BY DEF PrintEnd
  <2>2. p \in 1..MaxArgs /\ p # NoTask /\ pc \notin {"globals", "exit", "done"} /\ critical = p
    BY <2>1, ArgvPositions DEF TasksOK, NotMadeYet, PrintingOK
  <2>. QED
    BY <2>2 DEF PrintEnd, LeaveSection, NextPrefix
<1>2. n \in Nat /\ DOMAIN results = 1..n /\ out \in Seq(Token)
  BY AppendSeq DEF OutOK
<1>3. <<"end", p>> \in Token
  BY <1>1 DEF Token
<1>4. /\ IsSeq(results') /\ Len(results') = n + 1 /\ DOMAIN results' = 1..(n + 1)
      /\ \A k \in 1..n : results'[k] = results[k]
      /\ results'[n + 1].file = p
  BY <1>1, AppendSeq DEF OutOK
<1>. HIDE DEF new
<1>5. /\ out' \in Seq(Token) /\ Len(out') = Len(out) + 1 /\ Len(out) \in Nat
      /\ out'[Len(out) + 1] = <<"end", p>>
      /\ \A k \in 1..Len(out) : out'[k] = out[k]
  BY <1>1, <1>2, <1>3, AppendProperties
<1>6. \A k \in DOMAIN results' : results'[k].file \in 1..MaxArgs
  BY <1>1, <1>2, <1>4 DEF OutOK
<1>7. CASE gconf.yaml = 0
  <2>1. Plain(n) /\ Len(out) = 2 * n + 1
    BY <1>1, <1>7 DEF OutOK, Plain
  <2>2. \A k \in 1..n : 2 * k \in 1..(2 * n + 1) /\ 2 * k - 1 \in 1..(2 * n + 1)
    BY <1>2
  <2>3. out'[2 * n + 1] = <<"begin", p>> /\ out'[2 * n + 2] = <<"end", p>> /\ Len(out') = 2 * n + 2
    BY <1>1, <1>2, <1>5, <2>1 DEF Plain
  <2>4. ASSUME NEW k \in 1..(n + 1)
        PROVE  /\ out'[2 * k - 1] = <<"begin", results'[k].file>>
               /\ out'[2 * k] = <<"end", results'[k].file>>
    <3>1. CASE k \in 1..n
      BY <3>1, <1>4, <1>5, <2>1, <2>2 DEF Plain
    <3>2. CASE k = n + 1
      <4>1. 2 * k - 1 = 2 * n + 1 /\ 2 * k = 2 * n + 2
        BY <3>2, <1>2
      <4>. QED
        BY <3>2, <4>1, <1>4, <2>3
    <3>. QED
      BY <3>1, <3>2, <1>2
  <2>5. Len(results') = n + 1 /\ 2 * (n + 1) = 2 * n + 2
    BY <1>2, <1>4
  <2>6. Plain(Len(results))'
    <3>1. Len(out') = 2 * Len(results') + (IF critical' = NoTask THEN 0 ELSE 1)
      BY <2>3, <2>5, <1>1, <1>2
    <3>2. \A k \in 1..Len(results') : /\ out'[2 * k - 1] = <<"begin", results'[k].file>>
                                      /\ out'[2 * k] = <<"end", results'[k].file>>
      BY <2>4, <2>5
    <3>3. critical' = NoTask
      BY <1>1
    <3>. QED
      BY <3>1, <3>2, <3>3, Zenon DEF Plain
  <2>. QED
    BY <1>1, <1>4, <1>5, <1>6, <1>7, <2>6 DEF OutOK
<1>8. CASE gconf.yaml # 0
  <2>1. YamlResults(n) /\ Len(out) = 3 * n + 2
    BY <1>1, <1>8 DEF OutOK, Yaml
  <2>2. \A k \in 1..n : /\ 3 * k \in 1..(3 * n + 2) /\ 3 * k - 1 \in 1..(3 * n + 2)
                        /\ 3 * k - 2 \in 1..(3 * n + 2)
    BY <1>2
  <2>3. /\ out'[3 * n + 1] = <<Separator(n + 1), 0>> /\ out'[3 * n + 2] = <<"begin", p>>
        /\ out'[3 * n + 3] = <<"end", p>> /\ Len(out') = 3 * n + 3
    <3>1. 3 * n + 1 \in 1..(3 * n + 2) /\ 3 * n + 2 \in 1..(3 * n + 2)
          /\ (3 * n + 2) + 1 = 3 * n + 3
      BY <1>2
    <3>2. /\ out[3 * n + 1] = <<Separator(n + 1), 0>> /\ out[3 * n + 2] = <<"begin", p>>
      BY <1>1, <1>8 DEF OutOK, Yaml
    <3>. QED
      BY <3>1, <3>2, <1>5, <2>1
  <2>4. ASSUME NEW k \in 1..(n + 1)
        PROVE  /\ out'[3 * k - 2] = <<Separator(k), 0>>
               /\ out'[3 * k - 1] = <<"begin", results'[k].file>>
               /\ out'[3 * k] = <<"end", results'[k].file>>
    <3>1. CASE k \in 1..n
      BY <3>1, <1>4, <1>5, <2>1, <2>2 DEF YamlResults
    <3>2. CASE k = n + 1
      <4>1. 3 * k - 2 = 3 * n + 1 /\ 3 * k - 1 = 3 * n + 2 /\ 3 * k = 3 * n + 3
        BY <3>2, <1>2
      <4>. QED
        BY <3>2, <4>1, <1>4, <2>3
    <3>. QED
      BY <3>1, <3>2, <1>2
  <2>5. Len(results') = n + 1 /\ 3 * (n + 1) = 3 * n + 3 /\ n + 1 + 1 # 1
    BY <1>2, <1>4
  <2>6. YamlResults(Len(results))'
    BY <2>4, <2>5 DEF YamlResults, Separator
  <2>7. Yaml(Len(results))'
    BY <2>3, <2>5, <2>6, <1>1 DEF Yaml
  <2>8. yaml_prefix' = Separator(Len(results') + 1)
    BY <1>1, <1>8, <2>5 DEF Separator
  <2>. QED
    BY <1>1, <1>4, <1>5, <1>6, <1>8, <2>7, <2>8 DEF OutOK, Separator
<1>. QED
  BY <1>7, <1>8

LEMMA MainInvNext == MainInv /\ [Next]_vars => MainInv'
<1>. SUFFICES ASSUME MainInv, [Next]_vars  PROVE MainInv'
  OBVIOUS
<1>. USE DEF MainInv
<1>1. CASE MainStep
  <2>1. TasksOK' /\ PrintingOK'
    BY <1>1, TasksMain
  <2>2. CASE GlobalOption
    BY <2>1, <2>2, OutGlobals DEF GlobalOption
  <2>3. CASE HelpOption
    BY <2>1, <2>3, OutGlobals DEF HelpOption
  <2>4. CASE EndGlobals
    BY <2>1, <2>4, OutGlobals DEF EndGlobals
  <2>5. CASE LocalOption
    BY <2>1, <2>5, OutFrame DEF LocalOption
  <2>6. CASE FileArgument
    BY <2>1, <2>6, OutFrame DEF FileArgument
  <2>7. CASE EndLoop
    BY <2>1, <2>7, OutFrame DEF EndLoop, InLoop
  <2>8. CASE Barrier
    BY <2>1, <2>8, OutFrame DEF Barrier
  <2>9. CASE Exit
    BY <2>1, <2>9, OutExit
  <2>. QED
    BY <1>1, <2>2, <2>3, <2>4, <2>5, <2>6, <2>7, <2>8, <2>9 DEF MainStep
<1>2. ASSUME NEW p \in DOMAIN task, TaskStep(p)  PROVE MainInv'
  <2>1. TasksOK' /\ PrintingOK'
    BY <1>2, TasksTask
  <2>2. CASE StartTask(p) \/ Rate(p) \/ DbReturn(p)
    BY <1>2, <2>1, <2>2, TaskStepFacts, OutFrame
  <2>3. CASE PrintBegin(p)
    BY <2>1, <2>3, OutPrintBegin
  <2>4. CASE PrintEnd(p)
    BY <2>1, <2>4, OutPrintEnd
  <2>. QED
    BY <1>2, <2>2, <2>3, <2>4 DEF TaskStep
<1>3. CASE UNCHANGED vars
  <2>1. TasksOK' /\ PrintingOK'
    BY <1>3 DEF vars, TasksOK, NotMadeYet, PrintingOK
  <2>2. OutOK'
    BY <1>3, OutFrame DEF vars
  <2>. QED
    BY <2>1, <2>2
<1>. QED
  BY <1>1, <1>2, <1>3 DEF Next, Terminated

-----------------------------------------------------------------------------
(***************************************************************************)
(* The output as the property reads it: part by part.                      *)
(***************************************************************************)
LEMMA PartIs ==
  ASSUME NEW S, NEW s \in Seq(S), NEW t \in Seq(S), NEW a \in Nat, NEW b \in Nat,
         a >= 1, b = (a - 1) + Len(t), b <= Len(s),
         \A k \in 1..Len(t) : s[(a + k) - 1] = t[k]
  PROVE  SubSeq(s, a, b) = t
<1>1. Len(t) \in Nat /\ Len(s) \in Nat /\ (b - a) + 1 = Len(t) /\ a \in Int /\ b \in Int
  OBVIOUS
<1>2. \A k \in a..b : s[k] \in S
  BY <1>1
<1>3. /\ SubSeq(s, a, b) \in Seq(S)
      /\ Len(SubSeq(s, a, b)) = IF a <= b THEN (b - a) + 1 ELSE 0
      /\ \A k \in 1..((b - a) + 1) : SubSeq(s, a, b)[k] = s[(a + k) - 1]
  BY <1>1, <1>2, SubSeqProperties
<1>4. Len(SubSeq(s, a, b)) = Len(t) /\ \A k \in 1..Len(t) : SubSeq(s, a, b)[k] = t[k]
  BY <1>1, <1>3
<1>. QED
  BY <1>3, <1>4, SeqEqual

LEMMA Words2 ==
  ASSUME NEW S, NEW a \in S, NEW b \in S
  PROVE  /\ <<a, b>> \in Seq(S) /\ Len(<<a, b>>) = 2 /\ <<a, b>>[1] = a /\ <<a, b>>[2] = b
         /\ <<>> \o <<a, b>> = <<a, b>>
<1>1. /\ <<a, b>> \in Seq(S) /\ Len(<<a, b>>) = 2 /\ <<a, b>>[1] = a /\ <<a, b>>[2] = b
  OBVIOUS
<1>. QED
  BY <1>1, ConcatEmptySeq

LEMMA Words3 ==
  ASSUME NEW S, NEW a \in S, NEW b \in S, NEW c \in S
  PROVE  LET w == <<a>> \o <<b, c>>
         IN w \in Seq(S) /\ Len(w) = 3 /\ w[1] = a /\ w[2] = b /\ w[3] = c
<1>1. <<a>> \in Seq(S) /\ Len(<<a>>) = 1 /\ <<a>>[1] = a
  OBVIOUS
<1>2. 1 \in 1..1 /\ 1 \in 1..2 /\ 2 \in 1..2
  OBVIOUS
<1>. DEFINE s == <<a>>
           t == <<b, c>>
<1>3. s \in Seq(S) /\ t \in Seq(S) /\ Len(s) = 1 /\ Len(t) = 2 /\ s[1] = a /\ t[1] = b /\ t[2] = c
  BY <1>1, Words2
<1>4. SUFFICES s \o t \in Seq(S) /\ Len(s \o t) = 3 /\ (s \o t)[1] = a
               /\ (s \o t)[2] = b /\ (s \o t)[3] = c
  OBVIOUS
<1>. HIDE DEF s, t
<1>5. /\ s \o t \in Seq(S) /\ Len(s \o t) = Len(s) + Len(t)
      /\ \A k \in 1..Len(s) : (s \o t)[k] = s[k]
      /\ \A k \in 1..Len(t) : (s \o t)[Len(s) + k] = t[k]
  <2>1. s \in Seq(S) /\ t \in Seq(S)
    BY <1>3
  <2>. QED
    BY <2>1, ConcatAt
<1>6. (s \o t)[1 + 1] = t[1] /\ (s \o t)[1 + 2] = t[2]
  BY <1>2, <1>3, <1>5
<1>. QED
  BY <1>2, <1>3, <1>5, <1>6

LEMMA TextFacts ==
  ASSUME OutOK, NEW k \in DOMAIN results
  PROVE  LET f == results[k].file
         IN /\ TextOf(k) \in Seq(Token) /\ Len(TextOf(k)) = Width
            /\ gconf.yaml = 0 => /\ TextOf(k)[1] = <<"begin", f>>
                                 /\ TextOf(k)[2] = <<"end", f>>
            /\ gconf.yaml # 0 => /\ TextOf(k)[1] = <<Separator(k), 0>>
                                 /\ TextOf(k)[2] = <<"begin", f>>
                                 /\ TextOf(k)[3] = <<"end", f>>
<1>. DEFINE f == results[k].file
           begin == <<"begin", f>>
           end == <<"end", f>>
           sep == <<Separator(k), 0>>
<1>1. f \in 1..MaxArgs /\ MaxArgs \in Nat
  BY TrMainAssumption DEF OutOK
<1>2. begin \in Token /\ end \in Token /\ sep \in Token
  BY <1>1 DEF Token, Separator
<1>3. /\ gconf.yaml = 0 => TextOf(k) = <<>> \o <<begin, end>>
      /\ gconf.yaml # 0 => TextOf(k) = <<sep>> \o <<begin, end>>
  BY DEF TextOf
<1>. HIDE DEF begin, end, sep
<1>4. CASE gconf.yaml = 0
  <2>. DEFINE w == <<>> \o <<begin, end>>
  <2>1. w \in Seq(Token) /\ Len(w) = 2 /\ w[1] = begin /\ w[2] = end
    BY <1>2, Words2
  <2>2. TextOf(k) = w /\ Width = 2
    BY <1>3, <1>4 DEF Width
  <2>. HIDE DEF w
  <2>. QED
    BY <1>4, <2>1, <2>2 DEF begin, end
<1>5. CASE gconf.yaml # 0
  <2>. DEFINE w == <<sep>> \o <<begin, end>>
  <2>1. w \in Seq(Token) /\ Len(w) = 3 /\ w[1] = sep /\ w[2] = begin /\ w[3] = end
    BY <1>2, Words3
  <2>2. TextOf(k) = w /\ Width = 3
    BY <1>3, <1>5 DEF Width
  <2>. HIDE DEF w
  <2>. QED
    BY <1>5, <2>1, <2>2 DEF begin, end, sep
<1>. QED
  BY <1>4, <1>5

LEMMA ClosingFacts ==
  ASSUME gconf.yaml # 0
  PROVE  /\ results = <<>> => /\ Closing \in Seq(Token) /\ Len(Closing) = 2
                              /\ Closing[1] = <<"open", 0>> /\ Closing[2] = <<"close", 0>>
         /\ results # <<>> => /\ Closing \in Seq(Token) /\ Len(Closing) = 1
                              /\ Closing[1] = <<"close", 0>>
<1>. DEFINE open == <<"open", 0>>
           close == <<"close", 0>>
<1>1. open \in Token /\ close \in Token
  BY TrMainAssumption DEF Token
<1>2. /\ results = <<>> => Closing = <<open, close>>
      /\ results # <<>> => Closing = <<close>>
  BY DEF Closing
<1>. HIDE DEF open, close
<1>3. <<close>> \in Seq(Token) /\ Len(<<close>>) = 1 /\ <<close>>[1] = close
  BY <1>1
<1>4. /\ <<open, close>> \in Seq(Token) /\ Len(<<open, close>>) = 2
      /\ <<open, close>>[1] = open /\ <<open, close>>[2] = close
  BY <1>1, Words2
<1>. QED
  BY <1>2, <1>3, <1>4 DEF open, close

\* The output is the text of the results, in either layout.
LEMMA OutIsText ==
  ASSUME MainInv
  PROVE  OutputIntact
<1>. DEFINE n == Len(results)
<1>. SUFFICES ASSUME critical = NoTask
              PROVE LET end == IF pc = "done" THEN Closing ELSE <<>>
                        printed == Width * n
                    IN /\ Len(out) = printed + Len(end)
                       /\ \A k \in DOMAIN results :
                            SubSeq(out, Width * (k - 1) + 1, Width * k) = TextOf(k)
                       /\ SubSeq(out, printed + 1, Len(out)) = end
  BY DEF OutputIntact
<1>1. n \in Nat /\ DOMAIN results = 1..n /\ out \in Seq(Token) /\ Len(out) \in Nat
  BY AppendSeq DEF MainInv, OutOK
<1>2. <<>> \in Seq(Token) /\ Len(<<>>) = 0
  OBVIOUS
<1>3. n = 0 <=> results = <<>>
  <2>1. n = 0 => results = <<>>
    <3>1. ASSUME n = 0  PROVE results = <<>>
      <4>1. results = [k \in 1..0 |-> results[k]]
        BY <3>1 DEF MainInv, OutOK, IsSeq
      <4>. QED
        BY <4>1
    <3>. QED
      BY <3>1
  <2>. QED
    BY <2>1, EmptyIsSeq
<1>4. CASE gconf.yaml = 0
  <2>1. Plain(n) /\ Len(out) = 2 * n /\ Width = 2
    BY <1>1, <1>4 DEF MainInv, OutOK, Plain, Width
  <2>2. (IF pc = "done" THEN Closing ELSE <<>>) = <<>>
    BY <1>4 DEF Closing
  <2>3. ASSUME NEW k \in 1..n
        PROVE  SubSeq(out, 2 * (k - 1) + 1, 2 * k) = TextOf(k)
    <3>1. /\ 2 * (k - 1) + 1 \in Nat /\ 2 * k \in Nat /\ 2 * (k - 1) + 1 >= 1
          /\ 2 * k = ((2 * (k - 1) + 1) - 1) + 2 /\ 2 * k <= 2 * n
          /\ ((2 * (k - 1) + 1) + 1) - 1 = 2 * k - 1
          /\ ((2 * (k - 1) + 1) + 2) - 1 = 2 * k
      BY <1>1
    <3>2. /\ TextOf(k) \in Seq(Token) /\ Len(TextOf(k)) = 2
          /\ TextOf(k)[1] = out[2 * k - 1] /\ TextOf(k)[2] = out[2 * k]
      BY <1>1, <1>4, <2>1, TextFacts DEF MainInv, Plain
    <3>3. \A j \in 1..2 : out[((2 * (k - 1) + 1) + j) - 1] = TextOf(k)[j]
      <4>1. \A j \in 1..2 : j = 1 \/ j = 2
        OBVIOUS
      <4>. QED
        BY <3>1, <3>2, <4>1
    <3>. HIDE DEF n
    <3>. QED
      BY <1>1, <2>1, <3>1, <3>2, <3>3, PartIs
  <2>4. SubSeq(out, 2 * n + 1, Len(out)) = <<>>
    BY <1>1, <2>1, SubSeqEmpty
  <2>5. /\ Width * n = 2 * n
        /\ \A k \in 1..n : Width * (k - 1) + 1 = 2 * (k - 1) + 1 /\ Width * k = 2 * k
    BY <2>1
  <2>6. \A k \in DOMAIN results : SubSeq(out, Width * (k - 1) + 1, Width * k) = TextOf(k)
    BY <1>1, <2>3, <2>5
  <2>7. Len(out) = Width * n + 0 /\ SubSeq(out, Width * n + 1, Len(out)) = <<>>
    BY <1>1, <2>1, <2>4, <2>5
  <2>. HIDE DEF n
  <2>. QED
    BY <1>2, <2>2, <2>6, <2>7
<1>5. CASE gconf.yaml # 0
  <2>. DEFINE end == IF pc = "done" THEN Closing ELSE <<>>
  <2>1. Yaml(n) /\ YamlResults(n) /\ Width = 3
    BY <1>5 DEF MainInv, OutOK, Yaml, Width
  <2>2. /\ end \in Seq(Token) /\ Len(out) = 3 * n + Len(end) /\ Len(end) \in Nat
        /\ \A j \in 1..Len(end) : out[3 * n + j] = end[j]
    <3>1. CASE pc # "done"
      BY <1>1, <1>2, <2>1, <3>1 DEF Yaml
    <3>2. CASE pc = "done" /\ n = 0
      <4>1. /\ end \in Seq(Token) /\ Len(end) = 2
            /\ end[1] = <<"open", 0>> /\ end[2] = <<"close", 0>>
        BY <1>3, <1>5, <3>2, ClosingFacts
      <4>2. Len(out) = 2 /\ out[1] = <<"open", 0>> /\ out[2] = <<"close", 0>>
        BY <2>1, <3>2 DEF Yaml
      <4>3. \A j \in 1..2 : 3 * n + j = j /\ (j = 1 \/ j = 2)
        BY <3>2
      <4>4. 3 * n = 0
        BY <3>2
      <4>. HIDE DEF end
      <4>5. \A j \in 1..2 : out[3 * n + j] = end[j]
        BY <4>1, <4>2, <4>3
      <4>. QED
        BY <4>1, <4>2, <4>4, <4>5
    <3>3. CASE pc = "done" /\ n # 0
      <4>1. end \in Seq(Token) /\ Len(end) = 1 /\ end[1] = <<"close", 0>>
        BY <1>3, <1>5, <3>3, ClosingFacts
      <4>2. Len(out) = 3 * n + 1 /\ out[3 * n + 1] = <<"close", 0>>
        BY <2>1, <3>3 DEF Yaml
      <4>3. \A j \in 1..1 : j = 1
        OBVIOUS
      <4>. HIDE DEF end
      <4>. QED
        BY <4>1, <4>2, <4>3
    <3>. QED
      BY <3>1, <3>2, <3>3
  <2>3. ASSUME NEW k \in 1..n
        PROVE  SubSeq(out, 3 * (k - 1) + 1, 3 * k) = TextOf(k)
    <3>1. /\ 3 * (k - 1) + 1 \in Nat /\ 3 * k \in Nat /\ 3 * (k - 1) + 1 >= 1
          /\ 3 * k = ((3 * (k - 1) + 1) - 1) + 3 /\ 3 * k <= 3 * n
          /\ ((3 * (k - 1) + 1) + 1) - 1 = 3 * k - 2
          /\ ((3 * (k - 1) + 1) + 2) - 1 = 3 * k - 1
          /\ ((3 * (k - 1) + 1) + 3) - 1 = 3 * k
      BY <1>1
    <3>2. /\ TextOf(k) \in Seq(Token) /\ Len(TextOf(k)) = 3
          /\ TextOf(k)[1] = out[3 * k - 2] /\ TextOf(k)[2] = out[3 * k - 1]
          /\ TextOf(k)[3] = out[3 * k]
      BY <1>1, <1>5, <2>1, TextFacts DEF MainInv, YamlResults
    <3>3. \A j \in 1..3 : out[((3 * (k - 1) + 1) + j) - 1] = TextOf(k)[j]
      <4>1. \A j \in 1..3 : j = 1 \/ j = 2 \/ j = 3
        OBVIOUS
      <4>. QED
        BY <3>1, <3>2, <4>1
    <3>. HIDE DEF n, end
    <3>4. 3 * k <= Len(out)
      BY <1>1, <2>2, <3>1
    <3>. DEFINE a == 3 * (k - 1) + 1
               b == 3 * k
    <3>5. /\ a \in Nat /\ b \in Nat /\ a >= 1 /\ b = (a - 1) + Len(TextOf(k)) /\ b <= Len(out)
          /\ \A j \in 1..Len(TextOf(k)) : out[(a + j) - 1] = TextOf(k)[j]
      BY <3>1, <3>2, <3>3, <3>4
    <3>. HIDE DEF a, b
    <3>6. SubSeq(out, a, b) = TextOf(k)
      BY <1>1, <3>2, <3>5, PartIs
    <3>. QED
      BY <3>6 DEF a, b
  <2>4. SubSeq(out, 3 * n + 1, Len(out)) = end
    <3>1. 3 * n + 1 \in Nat /\ 3 * n + 1 >= 1 /\ Len(out) = ((3 * n + 1) - 1) + Len(end)
      BY <1>1, <2>2
    <3>2. \A j \in 1..Len(end) : ((3 * n + 1) + j) - 1 = 3 * n + j
      BY <1>1, <2>2
    <3>3. \A j \in 1..Len(end) : out[((3 * n + 1) + j) - 1] = end[j]
      BY <2>2, <3>2
    <3>. DEFINE a == 3 * n + 1
               b == Len(out)
    <3>. HIDE DEF end, n
    <3>4. /\ a \in Nat /\ b \in Nat /\ a >= 1 /\ b = (a - 1) + Len(end) /\ b <= Len(out)
          /\ \A j \in 1..Len(end) : out[(a + j) - 1] = end[j]
      <4>1. \A j \in 1..Len(end) : out[(a + j) - 1] = end[j]
        BY <3>3
      <4>. QED
        BY <1>1, <3>1, <4>1
    <3>. HIDE DEF a, b
    <3>5. SubSeq(out, a, b) = end
      BY <1>1, <2>2, <3>4, PartIs
    <3>. QED
      BY <3>5 DEF a, b
  <2>5. /\ Width * n = 3 * n
        /\ \A k \in 1..n : Width * (k - 1) + 1 = 3 * (k - 1) + 1 /\ Width * k = 3 * k
    BY <2>1
  <2>6. \A k \in DOMAIN results : SubSeq(out, Width * (k - 1) + 1, Width * k) = TextOf(k)
    BY <1>1, <2>3, <2>5
  <2>7. Len(out) = Width * n + Len(end) /\ SubSeq(out, Width * n + 1, Len(out)) = end
    BY <1>1, <2>2, <2>4, <2>5
  <2>. HIDE DEF n
  <2>. QED
    BY <2>6, <2>7
<1>. QED
  BY <1>4, <1>5

-----------------------------------------------------------------------------
(***************************************************************************)
(* The walk over the command line.                                         *)
(***************************************************************************)
LastPlace == 2 * MaxArgs + 2
AfterGlobal(p) == p + 1 + Consumed(GlobalArgs, p)
AfterLocal(p) == p + 1 + IF FirstChar[argv[p]] = "-" THEN Consumed(LocalArgs, p) ELSE 0

\* An option takes no more words than there are.
LEMMA AfterFits ==
  ASSUME argv \in CommandLines, NEW p \in 1..Len(argv)
  PROVE  /\ AfterGlobal(p) \in (p + 1)..(Len(argv) + 1)
         /\ AfterLocal(p) \in (p + 1)..(Len(argv) + 1)
         /\ Len(argv) + 1 \in 1..LastPlace
<1>1. Len(argv) \in Nat /\ Len(argv) <= MaxArgs /\ MaxArgs \in Nat
  BY ArgvPositions
<1>2. ASSUME NEW args \in {GlobalArgs, LocalArgs}
      PROVE  Consumed(args, p) \in Nat /\ Consumed(args, p) <= Len(argv) - p
  <2>1. Consumed(args, p) \in Nat
    BY ConsumedType
  <2>2. CASE Applies(args, p)
    BY <1>1, <2>1, <2>2 DEF Consumed, Applies
  <2>3. CASE ~Applies(args, p)
    BY <1>1, <2>3 DEF Consumed
  <2>. QED
    BY <2>1, <2>2, <2>3
<1>. QED
  BY <1>1, <1>2 DEF AfterGlobal, AfterLocal, LastPlace

LEMMA LoopStartDef ==
  ASSUME argv \in CommandLines
  PROVE  LoopStart = [p \in 1..LastPlace |->
                        IF p <= Len(argv) /\ FirstChar[argv[p]] = "+"
                        THEN LoopStart[AfterGlobal(p)] ELSE p]
<1>. DEFINE A == {p \in 1..Len(argv) : FirstChar[argv[p]] = "+"}
           nxt == [p \in A |-> AfterGlobal(p)]
           h == [x \in (1..LastPlace) \X Nat |-> x[2]]
           e == [p \in 1..LastPlace |-> p]
<1>1. Len(argv) \in Nat /\ LastPlace \in Nat /\ LastPlace > Len(argv)
  BY ArgvPositions DEF LastPlace
<1>2. \A p \in 1..LastPlace : IF p \in A THEN nxt[p] \in (p + 1)..LastPlace ELSE e[p] \in Nat
  BY <1>1, AfterFits
<1>3. \A p \in 1..LastPlace, v \in Nat : h[<<p, v>>] = v
  OBVIOUS
<1>4. PICK g \in [1..LastPlace -> Nat] :
        g = [p \in 1..LastPlace |-> IF p \in A THEN h[<<p, g[nxt[p]]>>] ELSE e[p]]
  <2>. HIDE DEF A, nxt, h, e
  <2>1. Ascends(LastPlace, A, Nat, nxt, h, e)
    BY <1>1, <1>2, <1>3 DEF Ascends
  <2>. QED
    BY <2>1, ChainFunction
<1>5. ASSUME NEW p \in 1..LastPlace
      PROVE  (IF p \in A THEN h[<<p, g[nxt[p]]>>] ELSE e[p])
               = IF p <= Len(argv) /\ FirstChar[argv[p]] = "+" THEN g[AfterGlobal(p)] ELSE p
  <2>1. CASE p \in A
    <3>1. nxt[p] = AfterGlobal(p) /\ nxt[p] \in 1..LastPlace
      <4>1. p \in 1..Len(argv) /\ AfterGlobal(p) \in (p + 1)..(Len(argv) + 1)
        BY <2>1, AfterFits
      <4>. QED
        BY <1>1, <2>1, <4>1
    <3>2. g[nxt[p]] \in Nat
      BY <3>1
    <3>. HIDE DEF h, nxt
    <3>3. h[<<p, g[nxt[p]]>>] = g[nxt[p]]
      BY <1>3, <3>2
    <3>. QED
      BY <1>1, <2>1, <3>1, <3>3
  <2>2. CASE p \notin A
    BY <1>1, <2>2
  <2>. QED
    BY <2>1, <2>2
<1>. HIDE DEF A, nxt, h, e
<1>6. g = [p \in 1..LastPlace |->
             IF p <= Len(argv) /\ FirstChar[argv[p]] = "+" THEN g[AfterGlobal(p)] ELSE p]
  BY <1>4, <1>5
<1>. QED
  BY <1>6 DEF LoopStart, LastPlace, AfterGlobal

LEMMA VisitedDef ==
  ASSUME argv \in CommandLines
  PROVE  Visited = [p \in 1..LastPlace |->
                      IF p > Len(argv) THEN {} ELSE {p} \cup Visited[AfterLocal(p)]]
<1>. DEFINE A == 1..Len(argv)
           nxt == [p \in A |-> AfterLocal(p)]
           V == SUBSET Nat
           h == [x \in (1..LastPlace) \X V |-> {x[1]} \cup x[2]]
           e == [p \in 1..LastPlace |-> {}]
<1>1. Len(argv) \in Nat /\ LastPlace \in Nat /\ LastPlace > Len(argv)
  BY ArgvPositions DEF LastPlace
<1>2. \A p \in 1..LastPlace : IF p \in A THEN nxt[p] \in (p + 1)..LastPlace ELSE e[p] \in V
  BY <1>1, AfterFits
<1>3. \A p \in 1..LastPlace, v \in V : h[<<p, v>>] = {p} \cup v /\ h[<<p, v>>] \in V
  OBVIOUS
<1>4. PICK g \in [1..LastPlace -> V] :
        g = [p \in 1..LastPlace |-> IF p \in A THEN h[<<p, g[nxt[p]]>>] ELSE e[p]]
  <2>. HIDE DEF A, nxt, h, e, V
  <2>1. Ascends(LastPlace, A, V, nxt, h, e)
    BY <1>1, <1>2, <1>3 DEF Ascends
  <2>. QED
    BY <2>1, ChainFunction
<1>5. ASSUME NEW p \in 1..LastPlace
      PROVE  (IF p \in A THEN h[<<p, g[nxt[p]]>>] ELSE e[p])
               = IF p > Len(argv) THEN {} ELSE {p} \cup g[AfterLocal(p)]
  <2>1. CASE p \in A
    <3>1. nxt[p] = AfterLocal(p) /\ nxt[p] \in 1..LastPlace
      BY <1>1, <1>2, <2>1
    <3>2. g[nxt[p]] \in V
      <4>. HIDE DEF V, nxt
      <4>. QED
        BY <3>1
    <3>. HIDE DEF h, nxt, V
    <3>3. h[<<p, g[nxt[p]]>>] = {p} \cup g[nxt[p]]
      BY <1>3, <3>2
    <3>. QED
      BY <1>1, <2>1, <3>1, <3>3
  <2>2. CASE p \notin A
    BY <1>1, <2>2
  <2>. QED
    BY <2>1, <2>2
<1>. HIDE DEF A, nxt, h, e
<1>6. g = [p \in 1..LastPlace |->
             IF p > Len(argv) THEN {} ELSE {p} \cup g[AfterLocal(p)]]
  BY <1>4, <1>5
<1>. QED
  BY <1>6 DEF Visited, LastPlace, AfterLocal

\* What is visited from a position on is not before it.
LEMMA VisitedFrom ==
  ASSUME argv \in CommandLines
  PROVE  \A p \in 1..LastPlace : Visited[p] \subseteq p..Len(argv)
<1>. DEFINE S == {n \in Nat : \A p \in 1..LastPlace :
                                 p + n >= LastPlace => Visited[p] \subseteq p..Len(argv)}
<1>1. /\ Len(argv) \in Nat /\ LastPlace \in Nat /\ LastPlace > Len(argv) + 1
  BY ArgvPositions DEF LastPlace
<1>2. ASSUME NEW p \in 1..LastPlace
      PROVE  /\ p > Len(argv) => Visited[p] = {}
             /\ p <= Len(argv) => Visited[p] = {p} \cup Visited[AfterLocal(p)]
  BY VisitedDef
<1>3. 0 \in S
  <2>1. ASSUME NEW p \in 1..LastPlace, p + 0 >= LastPlace  PROVE Visited[p] = {}
    BY <1>1, <1>2, <2>1
  <2>. QED
    BY <2>1
<1>4. ASSUME NEW n \in Nat, n \in S  PROVE n + 1 \in S
  <2>. SUFFICES ASSUME NEW p \in 1..LastPlace, p + (n + 1) >= LastPlace
                PROVE  Visited[p] \subseteq p..Len(argv)
    OBVIOUS
  <2>1. CASE p > Len(argv)
    BY <1>2, <2>1
  <2>2. CASE p <= Len(argv)
    <3>1. AfterLocal(p) \in (p + 1)..(Len(argv) + 1)
      BY <1>1, <2>2, AfterFits
    <3>. DEFINE q == AfterLocal(p)
    <3>. HIDE DEF q
    <3>2. q \in 1..LastPlace /\ q + n >= LastPlace /\ q > p
      BY <1>1, <3>1 DEF q
    <3>3. Visited[q] \subseteq q..Len(argv)
      BY <1>4, <3>2
    <3>4. Visited[p] = {p} \cup Visited[q]
      BY <1>2, <2>2 DEF q
    <3>. QED
      BY <1>1, <2>2, <3>2, <3>3, <3>4
  <2>. QED
    BY <1>1, <2>1, <2>2
<1>5. \A n \in Nat : n \in S
  <2>. HIDE DEF S
  <2>. QED
    BY <1>3, <1>4, NatSetInduction
<1>6. LastPlace \in S
  BY <1>1, <1>5
<1>. QED
  BY <1>1, <1>6

(***************************************************************************)
(* What each task is rated with, and how many results it prints.           *)
(***************************************************************************)
All == Visited[LoopStart[1]]

IsConf(c) ==
  c = [tr_main |-> c.tr_main, mods |-> c.mods, flat |-> c.flat, no_bonus |-> c.no_bonus,
       quick |-> c.quick, step |-> c.step, input |-> c.input, acc |-> c.acc,
       good |-> c.good, miss |-> c.miss]

\* A configuration made of the options before position p.
OptionsBefore(c, p) ==
  LET mods == LastOption(p, {"-mods"})
      main == LastOption(p, ScoreOptions)
      ggm  == LastOption(p, {"-ggm"})
  IN /\ c.mods = IF mods = 0 THEN {} ELSE Mods[argv[mods + 1]]
     /\ (c.tr_main = "trs_main")
          <=> (main # 0 /\ (argv[main] = "-score" => Atoi[argv[main + 1]] = 1))
     /\ c.miss = IF ggm = 0 THEN 0 ELSE Atoi[argv[ggm + 2]]

\* The program has not left for +help: it went through the loop.
Looped == pc \in {"loop", "barrier"} \/ nb_map > 0

WalkOK ==
  /\ i \in 1..(Len(argv) + 1) /\ nb_map \in Nat
  /\ pc \in {"globals", "loop", "barrier", "exit", "done"}
  /\ pc = "globals" => LoopStart[i] = LoopStart[1] /\ lconf = LocalDefault /\ nb_map = 0
  /\ Looped => /\ LoopStart[1] \in 1..(Len(argv) + 1)
               /\ Visited[i] = {q \in All : q >= i}
               /\ pc # "loop" => i = Len(argv) + 1
               /\ IsConf(lconf) /\ OptionsBefore(lconf, i)

\* The files that have been found.
Found(p) == p \in All /\ p < i /\ FirstChar[argv[p]] # "-" /\ Loads(argv[p])
MadeOK ==
  \A p \in DOMAIN task :
    /\ task[p].stage # "none" => nb_map > 0 /\ Found(p) /\ OptionsBefore(task[p].conf, p)
    /\ Looped /\ Found(p) => task[p].stage # "none"

PrintedOK(t) ==
  /\ t.stage \in {"none", "queued"} => t.printed = 0
  /\ t.stage \in {"db", "done"} => t.printed >= 1
  /\ LET most == IF t.conf.tr_main = "trs_main" THEN MaxPrint ELSE 1
     IN t.printed <= most /\ (t.stage \notin {"db", "done"} => t.printed < most)

ResultsOf(p) == {k \in DOMAIN results : results[k].file = p}
ResultsOK ==
  /\ \A k \in DOMAIN results :
       LET p == results[k].file
       IN p \in DOMAIN task /\ task[p].stage # "none" /\ OptionsBefore(results[k].conf, p)
  /\ \A p \in DOMAIN task : PrintedOK(task[p]) /\ Cardinality(ResultsOf(p)) = task[p].printed

AskedInv == MainInv /\ WalkOK /\ MadeOK /\ ResultsOK

\* The text of the options, once argv stays, does not change.
LEMMA OptionsSame ==
  ASSUME UNCHANGED argv, NEW c, NEW p
  PROVE  /\ OptionsBefore(c, p) <=> OptionsBefore(c, p)'
         /\ All' = All /\ LoopStart' = LoopStart /\ Visited' = Visited
<1>1. LoopStart' = LoopStart /\ Visited' = Visited
  BY DEF LoopStart, Visited, Consumed, Applies
<1>2. \A words : LastOption(p, words)' = LastOption(p, words)
  BY <1>1 DEF LastOption, Applies
<1>. QED
  BY <1>1, <1>2 DEF OptionsBefore, All

LEMMA LastOptionNext ==
  ASSUME argv \in CommandLines, NEW p \in 1..Len(argv), NEW next \in (p + 1)..(Len(argv) + 1),
         NEW words, words \subseteq DOMAIN LocalArgs,
         p \in All, All \subseteq 1..Len(argv), \A q \in All : q < p \/ q = p \/ q >= next
  PROVE  LastOption(next, words) =
           IF argv[p] \in words /\ Applies(LocalArgs, p) THEN p ELSE LastOption(p, words)
<1>. DEFINE B(r) == {q \in All : q < r /\ argv[q] \in words /\ Applies(LocalArgs, q)}
<1>0. Len(argv) \in Nat
  BY ArgvPositions
<1>1. \A r : LastOption(r, words) = IF B(r) = {} THEN 0
                                   ELSE CHOOSE q \in B(r) : \A s \in B(r) : s <= q
  BY DEF LastOption, All
<1>2. CASE argv[p] \in words /\ Applies(LocalArgs, p)
  <2>1. p \in B(next) /\ \A s \in B(next) : s \in Nat /\ s <= p
    BY <1>0, <1>2
  <2>2. \A q \in B(next) : (\A s \in B(next) : s <= q) => q = p
    BY <2>1
  <2>3. (CHOOSE q \in B(next) : \A s \in B(next) : s <= q) = p
    <3>. HIDE DEF B
    <3>. QED
      BY <2>1, <2>2
  <2>. QED
    BY <1>1, <1>2, <2>1, <2>3
<1>3. CASE ~(argv[p] \in words /\ Applies(LocalArgs, p))
  <2>1. B(next) = B(p)
    BY <1>0, <1>3
  <2>. HIDE DEF B
  <2>. QED
    BY <1>1, <1>3, <2>1
<1>. QED
  BY <1>2, <1>3

-----------------------------------------------------------------------------
(***************************************************************************)
(* The loop of main, one turn at a time.                                   *)
(***************************************************************************)
\* One turn of the loop.
LEMMA OneTurn ==
  ASSUME TasksOK, WalkOK, pc = "loop", i <= Len(argv)
  PROVE  /\ i \in 1..Len(argv) /\ AfterLocal(i) \in (i + 1)..(Len(argv) + 1)
         /\ i \in All /\ All \subseteq 1..Len(argv)
         /\ \A q \in All : q < i \/ q = i \/ q >= AfterLocal(i)
         /\ Visited[AfterLocal(i)] = {q \in All : q >= AfterLocal(i)}
<1>. DEFINE n == AfterLocal(i)
<1>1. /\ argv \in CommandLines /\ i \in 1..Len(argv) /\ Len(argv) \in Nat
      /\ LoopStart[1] \in 1..(Len(argv) + 1)
      /\ Visited[i] = {q \in All : q >= i}
  BY ArgvPositions DEF TasksOK, WalkOK, Looped
<1>2. n \in (i + 1)..(Len(argv) + 1) /\ Len(argv) + 1 \in 1..LastPlace
  BY <1>1, AfterFits
<1>3. LastPlace \in Nat /\ Len(argv) < LastPlace
  BY ArgvPositions, <1>1 DEF LastPlace
<1>4. i \in 1..LastPlace /\ n \in 1..LastPlace /\ LoopStart[1] \in 1..LastPlace
  BY <1>1, <1>2, <1>3
<1>5. Visited[i] = {i} \cup Visited[n]
  BY <1>1, <1>4, VisitedDef
<1>. HIDE DEF n
<1>6. Visited[n] \subseteq n..Len(argv) /\ All \subseteq LoopStart[1]..Len(argv)
  BY <1>1, <1>4, VisitedFrom DEF All
<1>7. i \in All /\ All \subseteq 1..Len(argv)
  BY <1>1, <1>5, <1>6
<1>8. \A q \in All : q < i \/ q = i \/ q \in Visited[n]
  BY <1>1, <1>5, <1>7
<1>9. Visited[n] = {q \in All : q >= n}
  <2>1. \A q \in Visited[n] : q \in All /\ q >= n
    BY <1>1, <1>2, <1>5, <1>6
  <2>2. \A q \in All : q >= n => q \in Visited[n]
    BY <1>1, <1>2, <1>7, <1>8
  <2>. QED
    BY <2>1, <2>2
<1>10. \A q \in All : q < i \/ q = i \/ q >= n
  BY <1>8, <1>9
<1>. QED
  BY <1>1, <1>2, <1>7, <1>9, <1>10 DEF n

LEMMA SetLocalFields ==
  ASSUME NEW c, IsConf(c), NEW p, Applies(LocalArgs, p)
  PROVE  LET d == SetLocal(c, p)
             w == argv[p]
         IN /\ IsConf(d)
            /\ d.mods = IF w = "-mods" THEN Mods[argv[p + 1]] ELSE c.mods
            /\ d.miss = IF w = "-ggm" THEN Atoi[argv[p + 2]] ELSE c.miss
            /\ d.tr_main = IF w = "-score" THEN TrMainOf(Atoi[argv[p + 1]])
                           ELSE IF w \in ScoreOptions THEN "trs_main" ELSE c.tr_main
<1>1. argv[p] \in {"-mods", "-no_bonus", "-flat", "-score", "-quick",
                   "-step", "-input", "-acc", "-ggm"}
  BY DEF Applies, LocalArgs
<1>2. CASE argv[p] = "-mods"
  BY <1>2 DEF IsConf, SetLocal, ScoreOptions
<1>3. CASE argv[p] = "-no_bonus"
  BY <1>3 DEF IsConf, SetLocal, ScoreOptions
<1>4. CASE argv[p] = "-flat"
  BY <1>4 DEF IsConf, SetLocal, ScoreOptions
<1>5. CASE argv[p] = "-score"
  BY <1>5 DEF IsConf, SetLocal, ScoreOptions
<1>6. CASE argv[p] = "-quick"
  BY <1>6 DEF IsConf, SetLocal, ScoreOptions, TrMainOf
<1>7. CASE argv[p] = "-step"
  BY <1>7 DEF IsConf, SetLocal, ScoreOptions, TrMainOf
<1>8. CASE argv[p] = "-input"
  BY <1>8 DEF IsConf, SetLocal, ScoreOptions, TrMainOf
<1>9. CASE argv[p] = "-acc"
  BY <1>9 DEF IsConf, SetLocal, ScoreOptions, TrMainOf
<1>10. CASE argv[p] = "-ggm"
  BY <1>10 DEF IsConf, SetLocal, ScoreOptions, TrMainOf
<1>. QED
  BY <1>1, <1>2, <1>3, <1>4, <1>5, <1>6, <1>7, <1>8, <1>9, <1>10

\* The configuration after a turn of the loop is made of the options before
\* the next position.
LEMMA OptionsNext ==
  ASSUME TasksOK, WalkOK, pc = "loop", i <= Len(argv)
  PROVE  LET c == IF Applies(LocalArgs, i) THEN SetLocal(lconf, i) ELSE lconf
         IN IsConf(c) /\ OptionsBefore(c, AfterLocal(i))
<1>. DEFINE c == IF Applies(LocalArgs, i) THEN SetLocal(lconf, i) ELSE lconf
           n == AfterLocal(i)
<1>1. IsConf(lconf) /\ OptionsBefore(lconf, i) /\ argv \in CommandLines
  BY DEF WalkOK, Looped, TasksOK
<1>2. /\ i \in 1..Len(argv) /\ n \in (i + 1)..(Len(argv) + 1)
      /\ i \in All /\ All \subseteq 1..Len(argv)
      /\ \A q \in All : q < i \/ q = i \/ q >= n
  BY OneTurn
<1>3. i # 0
  BY <1>2
<1>4. \A words : words \subseteq DOMAIN LocalArgs =>
        LastOption(n, words) = IF argv[i] \in words /\ Applies(LocalArgs, i)
                               THEN i ELSE LastOption(i, words)
  <2>. HIDE DEF n
  <2>. QED
    BY <1>1, <1>2, LastOptionNext
<1>5. {"-mods"} \subseteq DOMAIN LocalArgs /\ {"-ggm"} \subseteq DOMAIN LocalArgs
      /\ ScoreOptions \subseteq DOMAIN LocalArgs
  BY DEF LocalArgs, ScoreOptions
<1>. HIDE DEF n
<1>6. CASE ~Applies(LocalArgs, i)
  <2>1. \A words \in {{"-mods"}, {"-ggm"}, ScoreOptions} : LastOption(n, words) = LastOption(i, words)
    BY <1>4, <1>5, <1>6
  <2>. QED
    BY <1>1, <1>6, <2>1 DEF OptionsBefore, n
<1>7. CASE Applies(LocalArgs, i)
  <2>. DEFINE d == SetLocal(lconf, i)
             w == argv[i]
  <2>1. /\ IsConf(d)
        /\ d.mods = IF w = "-mods" THEN Mods[argv[i + 1]] ELSE lconf.mods
        /\ d.miss = IF w = "-ggm" THEN Atoi[argv[i + 2]] ELSE lconf.miss
        /\ d.tr_main = IF w = "-score" THEN TrMainOf(Atoi[argv[i + 1]])
                       ELSE IF w \in ScoreOptions THEN "trs_main" ELSE lconf.tr_main
    BY <1>1, <1>7, SetLocalFields
  <2>2. /\ LastOption(n, {"-mods"}) = IF w = "-mods" THEN i ELSE LastOption(i, {"-mods"})
        /\ LastOption(n, {"-ggm"}) = IF w = "-ggm" THEN i ELSE LastOption(i, {"-ggm"})
        /\ LastOption(n, ScoreOptions) = IF w \in ScoreOptions THEN i ELSE LastOption(i, ScoreOptions)
    BY <1>4, <1>5, <1>7
  <2>3. "-score" \in ScoreOptions /\ \A k : TrMainOf(k) = "trs_main" <=> k = 1
    BY DEF ScoreOptions, TrMainOf
  <2>4. c = d
    BY <1>7
  <2>. HIDE DEF d, c
  <2>5. d.mods = IF LastOption(n, {"-mods"}) = 0 THEN {} ELSE Mods[argv[LastOption(n, {"-mods"}) + 1]]
    BY <1>1, <1>3, <2>1, <2>2 DEF OptionsBefore
  <2>6. d.miss = IF LastOption(n, {"-ggm"}) = 0 THEN 0 ELSE Atoi[argv[LastOption(n, {"-ggm"}) + 2]]
    BY <1>1, <1>3, <2>1, <2>2 DEF OptionsBefore
  <2>7. (d.tr_main = "trs_main")
          <=> (LastOption(n, ScoreOptions) # 0
                 /\ (argv[LastOption(n, ScoreOptions)] = "-score"
                       => Atoi[argv[LastOption(n, ScoreOptions) + 1]] = 1))
    <3>1. CASE w \in ScoreOptions
      BY <1>3, <2>1, <2>2, <2>3, <3>1
    <3>2. CASE w \notin ScoreOptions
      <4>1. d.tr_main = lconf.tr_main /\ LastOption(n, ScoreOptions) = LastOption(i, ScoreOptions)
        BY <2>1, <2>2, <2>3, <3>2
      <4>. QED
        BY <1>1, <4>1 DEF OptionsBefore
    <3>. QED
      BY <3>1, <3>2
  <2>. QED
    BY <2>1, <2>4, <2>5, <2>6, <2>7 DEF OptionsBefore, n, c
<1>. QED
  BY <1>6, <1>7

\* Nothing is before the first position of the loop.
LEMMA NoOptionsYet ==
  ASSUME argv \in CommandLines, LoopStart[1] \in 1..(Len(argv) + 1)
  PROVE  OptionsBefore(LocalDefault, LoopStart[1])
<1>1. All \subseteq LoopStart[1]..Len(argv)
  <2>1. LoopStart[1] \in 1..LastPlace
    BY ArgvPositions DEF LastPlace
  <2>. QED
    BY <2>1, VisitedFrom DEF All
<1>2. \A words : LastOption(LoopStart[1], words) = 0
  <2>1. ASSUME NEW words
        PROVE  {q \in All : q < LoopStart[1] /\ argv[q] \in words /\ Applies(LocalArgs, q)} = {}
    <3>1. \A q \in All : ~(q < LoopStart[1])
      BY <1>1, ArgvPositions
    <3>. QED
      BY <3>1
  <2>. QED
    BY <2>1 DEF LastOption, All
<1>. QED
  BY <1>2 DEF OptionsBefore, LocalDefault

LEMMA AskedInit == Init => WalkOK /\ MadeOK /\ ResultsOK
<1>. SUFFICES ASSUME Init  PROVE WalkOK /\ MadeOK /\ ResultsOK
  OBVIOUS
<1>1. /\ argv \in CommandLines /\ pc = "globals" /\ i = 1 /\ nb_map = 0 /\ lconf = LocalDefault
      /\ results = <<>>
      /\ task = [p \in DOMAIN argv |-> [stage |-> "none", conf |-> LocalDefault, printed |-> 0]]
  BY DEF Init
<1>2. i \in 1..(Len(argv) + 1) /\ ~Looped
  BY <1>1, ArgvPositions DEF Looped
<1>3. WalkOK
  BY <1>1, <1>2 DEF WalkOK
<1>4. MadeOK
  BY <1>1, <1>2 DEF MadeOK
<1>5. DOMAIN results = {}
  BY <1>1, EmptyIsSeq
<1>6. \A p : ResultsOf(p) = {} /\ Cardinality(ResultsOf(p)) = 0
  BY <1>5, FS_EmptySet DEF ResultsOf
<1>7. \A p \in DOMAIN task : PrintedOK(task[p]) /\ task[p].printed = 0
  BY <1>1, TrMainAssumption DEF PrintedOK, LocalDefault
<1>. QED
  BY <1>3, <1>4, <1>5, <1>6, <1>7 DEF ResultsOK

\* A step that makes no task, prints nothing and does not move on.
LEMMA AskedKept ==
  ASSUME AskedInv, UNCHANGED <<argv, i, nb_map, gconf, lconf, task, results>>, pc' # "loop",
         \/ pc = "globals" /\ pc' = "exit"
         \/ pc = "loop" /\ pc' = "barrier" /\ i > Len(argv)
         \/ pc = "barrier" /\ pc' = "exit"
         \/ pc = "exit" /\ pc' = "done"
         \/ pc = "done" /\ pc' = "done"
  PROVE  WalkOK' /\ MadeOK' /\ ResultsOK'
<1>1. argv \in CommandLines /\ Len(argv) \in Nat
  BY ArgvPositions DEF AskedInv, MainInv, TasksOK
<1>2. Looped' => Looped /\ pc # "globals"
  BY DEF Looped, AskedInv, WalkOK
<1>3. nb_map > 0 => Looped
  BY DEF Looped
<1>4. All' = All /\ LoopStart' = LoopStart /\ Visited' = Visited
      /\ \A c, p : OptionsBefore(c, p)' <=> OptionsBefore(c, p)
  BY OptionsSame
<1>5. \A p : Found(p)' <=> Found(p)
  BY <1>4 DEF Found, Loads
<1>6. WalkOK'
  <2>1. i \in 1..(Len(argv) + 1)
    BY DEF AskedInv, WalkOK
  <2>2. pc = "loop" /\ i > Len(argv) => i = Len(argv) + 1
    BY <1>1, <2>1
  <2>3. ASSUME Looped'
        PROVE  /\ LoopStart'[1] \in 1..(Len(argv) + 1)
               /\ Visited'[i] = {q \in All' : q >= i}
               /\ i = Len(argv) + 1
               /\ IsConf(lconf) /\ OptionsBefore(lconf, i)'
    BY <1>2, <1>4, <2>2, <2>3 DEF AskedInv, WalkOK
  <2>. QED
    BY <2>1, <2>3 DEF AskedInv, WalkOK, IsConf
<1>7. MadeOK'
  BY <1>2, <1>4, <1>5 DEF AskedInv, MadeOK
<1>8. ResultsOK'
  BY <1>4 DEF AskedInv, ResultsOK, ResultsOf
<1>. QED
  BY <1>6, <1>7, <1>8

LEMMA AskedGlobals ==
  ASSUME AskedInv, GlobalOption \/ EndGlobals
  PROVE  WalkOK' /\ MadeOK' /\ ResultsOK'
<1>1. /\ argv \in CommandLines /\ Len(argv) \in Nat /\ pc = "globals" /\ nb_map = 0
      /\ i \in 1..(Len(argv) + 1) /\ LoopStart[i] = LoopStart[1] /\ lconf = LocalDefault
      /\ UNCHANGED <<argv, nb_map, lconf, task, results>>
      /\ \A p \in DOMAIN task : task[p].stage = "none"
  BY ArgvPositions DEF AskedInv, MainInv, TasksOK, NotMadeYet, WalkOK, GlobalOption, EndGlobals
<1>2. results = <<>> /\ DOMAIN results = {}
  BY <1>1, EmptyIsSeq DEF AskedInv, MainInv, OutOK
<1>3. All' = All /\ LoopStart' = LoopStart /\ Visited' = Visited
      /\ \A c, p : OptionsBefore(c, p)' <=> OptionsBefore(c, p)
  BY <1>1, OptionsSame
<1>4. ResultsOK'
  BY <1>1, <1>2 DEF AskedInv, ResultsOK, ResultsOf
<1>5. LoopStart[i] = IF i <= Len(argv) /\ FirstChar[argv[i]] = "+"
                     THEN LoopStart[AfterGlobal(i)] ELSE i
  <2>1. i \in 1..LastPlace
    BY <1>1, ArgvPositions DEF LastPlace
  <2>. QED
    BY <1>1, <2>1, LoopStartDef
<1>6. CASE GlobalOption
  <2>1. pc' = "globals" /\ i' = AfterGlobal(i) /\ i <= Len(argv) /\ FirstChar[argv[i]] = "+"
    BY <1>6 DEF GlobalOption, AtGlobalOption, AfterGlobal
  <2>2. i' \in 1..(Len(argv) + 1)
    <3>1. i \in 1..Len(argv)
      BY <1>1, <2>1
    <3>2. AfterGlobal(i) \in (i + 1)..(Len(argv) + 1)
      BY <1>1, <3>1, AfterFits
    <3>. QED
      BY <1>1, <2>1, <3>1, <3>2
  <2>3. LoopStart'[i'] = LoopStart'[1]
    BY <1>1, <1>3, <1>5, <2>1
  <2>4. ~Looped'
    BY <1>1, <2>1 DEF Looped
  <2>5. WalkOK'
    BY <1>1, <2>1, <2>2, <2>3, <2>4 DEF WalkOK
  <2>6. MadeOK'
    BY <1>1, <2>4 DEF MadeOK
  <2>. QED
    BY <1>4, <2>5, <2>6
<1>7. CASE EndGlobals
  <2>1. pc' = "loop" /\ i' = i /\ LoopStart[1] = i
    BY <1>1, <1>5, <1>7 DEF EndGlobals, AtGlobalOption
  <2>2. All \subseteq i..Len(argv) /\ All = Visited[i]
    <3>1. i \in 1..LastPlace
      BY <1>1, ArgvPositions DEF LastPlace
    <3>. QED
      BY <1>1, <2>1, <3>1, VisitedFrom DEF All
  <2>3. Visited[i] = {q \in All : q >= i}
    BY <1>1, <2>2
  <2>4. IsConf(lconf) /\ OptionsBefore(lconf, i)
    BY <1>1, <2>1, NoOptionsYet DEF IsConf, LocalDefault
  <2>5. WalkOK'
    <3>1. /\ Visited'[i'] = {q \in All' : q >= i'}
          /\ IsConf(lconf)' /\ OptionsBefore(lconf, i)'
      <4>1. OptionsBefore(lconf, i)'
        <5>1. OptionsBefore(lconf, i)' <=> OptionsBefore(lconf, i)
          BY <1>1, <1>3, <2>1 DEF OptionsBefore, LastOption, Applies
        <5>. QED
          BY <5>1, <2>4
      <4>. QED
        BY <1>1, <1>3, <2>1, <2>3, <2>4, <4>1 DEF IsConf
    <3>. QED
      BY <1>1, <1>3, <2>1, <3>1 DEF WalkOK, Looped
  <2>6. ~(\E p \in All : p < i)
    BY <1>1, <2>2
  <2>7. MadeOK'
    BY <1>1, <1>3, <2>1, <2>6 DEF MadeOK, Found
  <2>. QED
    BY <1>4, <2>5, <2>7
<1>. QED
  BY <1>6, <1>7

\* Nothing is asked or found by a step that leaves the walk where it is.
LEMMA WalkSame ==
  ASSUME WalkOK, UNCHANGED <<argv, pc, i, nb_map, gconf, lconf>>
  PROVE  /\ WalkOK' /\ (Looped' <=> Looped)
         /\ \A p : Found(p)' <=> Found(p)
         /\ \A c, p : OptionsBefore(c, p)' <=> OptionsBefore(c, p)
<1>1. All' = All /\ LoopStart' = LoopStart /\ Visited' = Visited
      /\ \A c, p : OptionsBefore(c, p)' <=> OptionsBefore(c, p)
  BY OptionsSame
<1>2. Looped' <=> Looped
  BY DEF Looped
<1>3. OptionsBefore(lconf, i)' <=> OptionsBefore(lconf, i)
  BY <1>1 DEF OptionsBefore, LastOption, Applies
<1>4. WalkOK'
  BY <1>1, <1>2, <1>3 DEF WalkOK, IsConf
<1>5. \A p : Found(p)' <=> Found(p)
  BY <1>1 DEF Found, Loads
<1>. QED
  BY <1>1, <1>2, <1>4, <1>5

\* A turn of the loop moves over one option, or finds one file.
LEMMA WalkTurn ==
  ASSUME TasksOK, WalkOK, pc = "loop", pc' = pc, i <= Len(argv),
         i' = AfterLocal(i), nb_map' \in Nat, UNCHANGED <<argv, gconf>>,
         lconf' = IF Applies(LocalArgs, i) THEN SetLocal(lconf, i) ELSE lconf
  PROVE  /\ WalkOK' /\ Looped /\ Looped'
         /\ \A p : Found(p)' <=>
                     Found(p) \/ (p = i /\ FirstChar[argv[i]] # "-" /\ Loads(argv[i]))
         /\ \A c, p : OptionsBefore(c, p)' <=> OptionsBefore(c, p)
<1>1. All' = All /\ LoopStart' = LoopStart /\ Visited' = Visited
      /\ \A c, p : OptionsBefore(c, p)' <=> OptionsBefore(c, p)
  BY OptionsSame
<1>2. Looped /\ Looped' /\ LoopStart[1] \in 1..(Len(argv) + 1)
  BY DEF Looped, WalkOK
<1>3. /\ i \in 1..Len(argv) /\ i' \in (i + 1)..(Len(argv) + 1)
      /\ i \in All /\ All \subseteq 1..Len(argv) /\ Len(argv) \in Nat
      /\ \A q \in All : q < i \/ q = i \/ q >= i'
      /\ Visited[i'] = {q \in All : q >= i'}
  BY OneTurn, ArgvPositions DEF TasksOK
<1>4. IsConf(lconf') /\ OptionsBefore(lconf', i')
  BY OptionsNext
<1>5. WalkOK'
  <2>1. OptionsBefore(lconf, i)'
    <3>1. \A words : LastOption(i, words)' = LastOption(i', words)
      <4>1. LoopStart' = LoopStart /\ Visited' = Visited
        BY <1>1
      <4>. QED
        BY <4>1 DEF LastOption, Applies
    <3>. QED
      BY <1>4, <3>1 DEF OptionsBefore
  <2>2. i' \in 1..(Len(argv) + 1)
    BY <1>3
  <2>3. IsConf(lconf)'
    BY <1>4 DEF IsConf
  <2>. QED
    BY <1>1, <1>2, <1>3, <2>1, <2>2, <2>3 DEF WalkOK
<1>6. \A q \in All : q < i' <=> (q < i \/ q = i)
  BY <1>3
<1>7. \A p : Found(p)' <=>
               Found(p) \/ (p = i /\ FirstChar[argv[i]] # "-" /\ Loads(argv[i]))
  <2>1. \A w : Loads(w)' <=> Loads(w)
    BY DEF Loads
  <2>. QED
    BY <1>1, <1>3, <1>6, <2>1 DEF Found
<1>. QED
  BY <1>1, <1>2, <1>5, <1>7

\* A turn that makes no task.
LEMMA AskedTurn ==
  ASSUME AskedInv, pc = "loop", pc' = pc, i <= Len(argv),
         i' = AfterLocal(i), nb_map' \in {nb_map, nb_map + 1},
         UNCHANGED <<argv, gconf, task, results>>,
         lconf' = IF Applies(LocalArgs, i) THEN SetLocal(lconf, i) ELSE lconf,
         FirstChar[argv[i]] = "-" \/ ~Loads(argv[i])
  PROVE  WalkOK' /\ MadeOK' /\ ResultsOK'
<1>1. nb_map \in Nat /\ nb_map' \in Nat /\ (nb_map > 0 => nb_map' > 0)
  BY DEF AskedInv, WalkOK
<1>2. /\ WalkOK' /\ Looped /\ Looped'
      /\ \A p : Found(p)' <=> Found(p)
      /\ \A c, p : OptionsBefore(c, p)' <=> OptionsBefore(c, p)
  BY <1>1, WalkTurn DEF AskedInv, MainInv
<1>3. MadeOK'
  BY <1>1, <1>2 DEF AskedInv, MadeOK
<1>4. ResultsOK'
  BY <1>2 DEF AskedInv, ResultsOK, ResultsOf
<1>. QED
  BY <1>2, <1>3, <1>4

LEMMA AskedFile ==
  ASSUME AskedInv, FileArgument
  PROVE  WalkOK' /\ MadeOK' /\ ResultsOK'
<1>1. /\ pc = "loop" /\ pc' = pc /\ i <= Len(argv) /\ FirstChar[argv[i]] # "-"
      /\ nb_map' = nb_map + 1 /\ i' = i + 1 /\ UNCHANGED <<argv, gconf, lconf, results>>
  BY DEF FileArgument, InLoop
<1>2. i \in DOMAIN task /\ i \in DOMAIN argv /\ argv \in Seq(DOMAIN FirstChar)
  BY <1>1, ArgvPositions, TrMainAssumption DEF AskedInv, MainInv, TasksOK
<1>3. ~Applies(LocalArgs, i)
  <2>1. argv[i] \in DOMAIN FirstChar
    BY <1>2
  <2>. QED
    BY <1>1, <2>1, OptionNames DEF Applies
<1>4. i' = AfterLocal(i) /\ lconf' = IF Applies(LocalArgs, i) THEN SetLocal(lconf, i) ELSE lconf
  <2>1. i \in Nat /\ AfterLocal(i) = i + 1 + 0
    BY <1>1 DEF AfterLocal, AskedInv, MainInv, TasksOK
  <2>. QED
    BY <1>1, <1>3, <2>1
<1>5. CASE ~Loads(argv[i])
  <2>1. UNCHANGED task
    BY <1>5 DEF FileArgument
  <2>. QED
    BY <1>1, <1>4, <1>5, <2>1, AskedTurn
<1>6. CASE Loads(argv[i])
  <2>1. PICK own \in BOOLEAN :
          task' = [task EXCEPT ![i] = [stage |-> IF own THEN "rating" ELSE "queued",
                                       conf |-> lconf, printed |-> 0]]
    BY <1>6 DEF FileArgument
  <2>2. /\ DOMAIN task' = DOMAIN task
        /\ \A q \in DOMAIN task \ {i} : task'[q] = task[q]
        /\ task'[i].stage \in {"rating", "queued"}
        /\ task'[i].conf = lconf /\ task'[i].printed = 0
        /\ task[i].stage = "none"
    BY <1>2, <2>1 DEF AskedInv, MainInv, TasksOK, NotMadeYet
  <2>3. nb_map \in Nat /\ nb_map' \in Nat /\ nb_map' > 0
    BY <1>1 DEF AskedInv, WalkOK
  <2>4. /\ WalkOK' /\ Looped /\ Looped'
        /\ \A p : Found(p)' <=> Found(p) \/ p = i
        /\ \A c, p : OptionsBefore(c, p)' <=> OptionsBefore(c, p)
    BY <1>1, <1>4, <1>6, <2>3, WalkTurn DEF AskedInv, MainInv
  <2>5. OptionsBefore(lconf, i)
    BY <2>4 DEF AskedInv, WalkOK
  <2>6. MadeOK'
    BY <1>1, <2>2, <2>3, <2>4, <2>5 DEF AskedInv, MadeOK
  <2>7. PrintedOK(task'[i])
    BY <2>2, TrMainAssumption DEF PrintedOK
  <2>8. Cardinality(ResultsOf(i)) = 0
    BY <1>2, <2>2 DEF AskedInv, ResultsOK, PrintedOK
  <2>9. \A p : ResultsOf(p)' = ResultsOf(p)
    BY <1>1 DEF ResultsOf
  <2>10. ResultsOK'
    <3>1. \A p \in DOMAIN task' : PrintedOK(task'[p]) /\ Cardinality(ResultsOf(p)') = task'[p].printed
      BY <2>2, <2>7, <2>8, <2>9 DEF AskedInv, ResultsOK
    <3>2. \A k \in DOMAIN results :
            LET p == results[k].file
            IN p \in DOMAIN task' /\ task'[p].stage # "none" /\ OptionsBefore(results[k].conf, p)
      BY <2>2 DEF AskedInv, ResultsOK
    <3>. QED
      BY <1>1, <2>4, <3>1, <3>2 DEF ResultsOK, PrintedOK
  <2>. QED
    BY <2>4, <2>6, <2>10
<1>. QED
  BY <1>5, <1>6

LEMMA AskedMain ==
  ASSUME AskedInv, MainStep \/ UNCHANGED vars
  PROVE  WalkOK' /\ MadeOK' /\ ResultsOK'
<1>1. CASE GlobalOption \/ EndGlobals
  BY <1>1, AskedGlobals
<1>2. CASE HelpOption
  BY <1>2, AskedKept DEF HelpOption
<1>3. CASE LocalOption
  <2>1. i' = AfterLocal(i)
    BY <1>3 DEF LocalOption, AfterLocal
  <2>. QED
    BY <1>3, <2>1, AskedTurn DEF LocalOption, InLoop
<1>4. CASE FileArgument
  BY <1>4, AskedFile
<1>5. CASE EndLoop
  BY <1>5, AskedKept DEF EndLoop, InLoop
<1>6. CASE Barrier
  BY <1>6, AskedKept DEF Barrier
<1>7. CASE Exit
  <2>1. pc = "exit" /\ pc' = "done" /\ UNCHANGED <<argv, i, nb_map, gconf, lconf, task, results>>
    BY <1>7 DEF Exit
  <2>. QED
    BY <2>1, AskedKept
<1>8. CASE UNCHANGED vars
  <2>1. UNCHANGED <<argv, pc, i, nb_map, gconf, lconf, task, results>>
    BY <1>8 DEF vars
  <2>2. /\ WalkOK' /\ (Looped' <=> Looped)
        /\ \A p : Found(p)' <=> Found(p)
        /\ \A c, p : OptionsBefore(c, p)' <=> OptionsBefore(c, p)
    BY <2>1, WalkSame DEF AskedInv
  <2>3. MadeOK'
    BY <2>1, <2>2 DEF AskedInv, MadeOK
  <2>4. ResultsOK'
    BY <2>1, <2>2 DEF AskedInv, ResultsOK, ResultsOf
  <2>. QED
    BY <2>2, <2>3, <2>4
<1>. QED
  BY <1>1, <1>2, <1>3, <1>4, <1>5, <1>6, <1>7, <1>8 DEF MainStep

-----------------------------------------------------------------------------
(***************************************************************************)
(* The tasks, and the results they print.                                  *)
(***************************************************************************)
\* What a step does to its task and to the results.
TaskMoves(p) ==
  /\ task[p].stage # "none" /\ task'[p].stage # "none"
  /\ task'[p].conf = task[p].conf
  /\ PrintedOK(task'[p])
  /\ \/ results' = results /\ task'[p].printed = task[p].printed
     \/ /\ results' = Append(results, [file |-> p, conf |-> task[p].conf])
        /\ task'[p].printed = task[p].printed + 1

LEMMA AfterResultMoves ==
  ASSUME NEW p \in DOMAIN task, NEW t, IsTask(t), t.conf = task[p].conf, t.printed >= 1,
         LET most == IF t.conf.tr_main = "trs_main" THEN MaxPrint ELSE 1 IN t.printed <= most,
         AfterResult(p, t)
  PROVE  /\ task'[p].stage \in {"rating", "done"} /\ task'[p].conf = task[p].conf
         /\ task'[p].printed = t.printed /\ PrintedOK(task'[p])
<1>1. PICK more \in {FALSE} \cup (IF ConfOf(p).tr_main = "trs_main" /\ t.printed < MaxPrint
                                  THEN {TRUE} ELSE {}) :
        task' = [task EXCEPT ![p] = [t EXCEPT !.stage = IF more THEN "rating" ELSE "done"]]
  BY DEF AfterResult
<1>2. task'[p] = [stage |-> IF more THEN "rating" ELSE "done", conf |-> t.conf,
                  printed |-> t.printed]
  BY <1>1 DEF IsTask
<1>3. t.printed \in Nat
  BY DEF IsTask
<1>4. CASE more
  <2>1. task'[p].stage = "rating" /\ t.conf.tr_main = "trs_main" /\ t.printed < MaxPrint
    BY <1>1, <1>2, <1>4 DEF ConfOf
  <2>. QED
    BY <1>2, <1>3, <2>1 DEF PrintedOK
<1>5. CASE ~more
  <2>1. task'[p].stage = "done"
    BY <1>2, <1>5
  <2>. QED
    BY <1>2, <1>3, <2>1 DEF PrintedOK
<1>. QED
  BY <1>4, <1>5

LEMMA TaskStepMoves ==
  ASSUME AskedInv, NEW p \in DOMAIN task, TaskStep(p)
  PROVE  TaskMoves(p)
<1>1. IsTask(task[p]) /\ PrintedOK(task[p]) /\ task[p].printed \in Nat
  BY DEF AskedInv, MainInv, TasksOK, ResultsOK, IsTask
<1>2. MaxPrint \in Nat \ {0}
  BY TrMainAssumption
<1>3. ASSUME NEW s \in {"rating", "rated", "printing"},
             task' = [task EXCEPT ![p].stage = s], results' = results,
             task[p].stage \in {"queued", "rating", "rated"}
      PROVE  TaskMoves(p)
  <2>1. task'[p] = [stage |-> s, conf |-> task[p].conf, printed |-> task[p].printed]
    BY <1>1, <1>3 DEF IsTask
  <2>2. PrintedOK(task'[p])
    BY <1>1, <1>2, <1>3, <2>1 DEF PrintedOK
  <2>. QED
    BY <1>3, <2>1, <2>2 DEF TaskMoves
<1>4. CASE StartTask(p)
  BY <1>3, <1>4 DEF StartTask
<1>5. CASE Rate(p)
  BY <1>3, <1>5 DEF Rate
<1>6. CASE PrintBegin(p)
  <2>1. /\ task' = [task EXCEPT ![p].stage = "printing"] /\ results' = results
        /\ task[p].stage = "rated"
    BY <1>6 DEF PrintBegin
  <2>. QED
    BY <1>3, <2>1
<1>7. CASE DbReturn(p)
  <2>1. task[p].stage = "db" /\ AfterResult(p, task[p]) /\ results' = results
    BY <1>7 DEF DbReturn
  <2>2. /\ task[p].printed >= 1
        /\ LET most == IF task[p].conf.tr_main = "trs_main" THEN MaxPrint ELSE 1
           IN task[p].printed <= most
    BY <1>1, <2>1 DEF PrintedOK
  <2>. QED
    BY <1>1, <2>1, <2>2, AfterResultMoves DEF TaskMoves
<1>8. CASE PrintEnd(p)
  <2>. DEFINE t == [task[p] EXCEPT !.printed = @ + 1]
  <2>1. /\ results' = Append(results, [file |-> p, conf |-> task[p].conf])
        /\ task[p].stage = "printing"
    BY <1>8 DEF PrintEnd, ConfOf
  <2>2. t = [stage |-> "printing", conf |-> task[p].conf, printed |-> task[p].printed + 1]
    BY <1>1, <2>1 DEF IsTask
  <2>3. /\ IsTask(t) /\ t.conf = task[p].conf /\ t.printed = task[p].printed + 1
        /\ t.printed >= 1
        /\ LET most == IF t.conf.tr_main = "trs_main" THEN MaxPrint ELSE 1 IN t.printed <= most
    BY <1>1, <1>2, <2>1, <2>2 DEF IsTask, PrintedOK, Stage
  <2>4. CASE gconf.db = 0
    <3>1. AfterResult(p, t)
      BY <1>8, <2>4 DEF PrintEnd
    <3>. HIDE DEF t
    <3>. QED
      BY <2>1, <2>3, <3>1, AfterResultMoves DEF TaskMoves
  <2>5. CASE gconf.db # 0
    <3>1. task' = [task EXCEPT ![p] = [t EXCEPT !.stage = "db"]]
      BY <1>8, <2>5 DEF PrintEnd
    <3>. HIDE DEF t
    <3>2. task'[p] = [stage |-> "db", conf |-> t.conf, printed |-> t.printed]
      BY <2>3, <3>1 DEF IsTask
    <3>3. PrintedOK(task'[p])
      BY <2>3, <3>2 DEF PrintedOK
    <3>. QED
      BY <2>1, <2>3, <3>2, <3>3 DEF TaskMoves
  <2>. QED
    BY <2>4, <2>5
<1>. QED
  BY <1>4, <1>5, <1>6, <1>7, <1>8 DEF TaskStep

LEMMA ResultsOfFinite ==
  ASSUME IsSeq(results), NEW p
  PROVE  IsFiniteSet(ResultsOf(p)) /\ Cardinality(ResultsOf(p)) \in Nat
<1>1. DOMAIN results = 1..Len(results) /\ Len(results) \in Nat
  BY AppendSeq
<1>2. IsFiniteSet(1..Len(results)) /\ ResultsOf(p) \subseteq 1..Len(results)
  BY <1>1, FS_Interval DEF ResultsOf
<1>. QED
  BY <1>2, FS_Subset, FS_CardinalityType

LEMMA AskedTask ==
  ASSUME AskedInv, NEW p \in DOMAIN task, TaskStep(p)
  PROVE  WalkOK' /\ MadeOK' /\ ResultsOK'
<1>1. TasksOK /\ IsSeq(results)
  BY DEF AskedInv, MainInv, OutOK
<1>2. /\ UNCHANGED <<argv, pc, i, nb_map, gconf, lconf>>
      /\ DOMAIN task' = DOMAIN task
      /\ \A q \in DOMAIN task \ {p} : task'[q] = task[q]
  <2>1. UNCHANGED <<nb_map, lconf>>
    BY DEF TaskStep, StartTask, Rate, PrintBegin, PrintEnd, DbReturn
  <2>. QED
    BY <1>1, <2>1, TaskStepFacts
<1>3. TaskMoves(p)
  BY TaskStepMoves
<1>4. /\ WalkOK' /\ (Looped' <=> Looped)
      /\ \A q : Found(q)' <=> Found(q)
      /\ \A c, q : OptionsBefore(c, q)' <=> OptionsBefore(c, q)
  BY <1>2, WalkSame DEF AskedInv
<1>5. MadeOK'
  <2>1. /\ task[p].stage # "none" /\ task'[p].stage # "none" /\ task'[p].conf = task[p].conf
    BY <1>3 DEF TaskMoves
  <2>2. \A q \in DOMAIN task : task'[q].conf = task[q].conf
                               /\ (task'[q].stage # "none" <=> task[q].stage # "none")
    BY <1>2, <2>1
  <2>. QED
    BY <1>2, <1>4, <2>2 DEF AskedInv, MadeOK
<1>6. CASE results' = results /\ task'[p].printed = task[p].printed
  <2>1. \A q : ResultsOf(q)' = ResultsOf(q)
    BY <1>6 DEF ResultsOf
  <2>2. \A q \in DOMAIN task' : PrintedOK(task'[q]) /\ Cardinality(ResultsOf(q)') = task'[q].printed
    BY <1>2, <1>3, <1>6, <2>1 DEF AskedInv, ResultsOK, TaskMoves
  <2>3. \A k \in DOMAIN results :
          LET q == results[k].file
          IN q \in DOMAIN task' /\ task'[q].stage # "none" /\ OptionsBefore(results[k].conf, q)
    BY <1>2, <1>3 DEF AskedInv, ResultsOK, TaskMoves
  <2>4. ResultsOK'
    BY <1>4, <1>6, <2>2, <2>3 DEF ResultsOK, PrintedOK
  <2>. QED
    BY <1>4, <1>5, <2>4
<1>7. CASE /\ results' = Append(results, [file |-> p, conf |-> task[p].conf])
           /\ task'[p].printed = task[p].printed + 1
  <2>. DEFINE n == Len(results)
              r == [file |-> p, conf |-> task[p].conf]
  <2>1. /\ n \in Nat /\ DOMAIN results = 1..n /\ DOMAIN results' = 1..(n + 1)
        /\ \A k \in 1..n : results'[k] = results[k]
        /\ results'[n + 1] = r
    <3>. HIDE DEF r
    <3>. QED
      BY <1>1, <1>7, AppendSeq DEF r
  <2>2. r.file = p /\ r.conf = task[p].conf /\ n + 1 \notin 1..n
    BY <2>1
  <2>3. OptionsBefore(r.conf, p)
    BY <1>3, <2>2 DEF AskedInv, MadeOK, TaskMoves
  <2>. HIDE DEF n, r
  <2>4. \A q : q # p => ResultsOf(q)' = ResultsOf(q)
    BY <2>1, <2>2 DEF ResultsOf
  <2>5. ResultsOf(p)' = ResultsOf(p) \cup {n + 1} /\ n + 1 \notin ResultsOf(p)
    <3>1. n + 1 \notin ResultsOf(p)
      BY <2>1, <2>2 DEF ResultsOf
    <3>2. \A k \in 1..(n + 1) : k \in 1..n \/ k = n + 1
      BY <2>1
    <3>3. \A k \in 1..n : k \in 1..(n + 1)
      BY <2>1
    <3>4. n + 1 \in 1..(n + 1)
      BY <2>1
    <3>5. ResultsOf(p)' = {k \in 1..(n + 1) : results'[k].file = p}
      BY <2>1 DEF ResultsOf
    <3>. QED
      BY <2>1, <2>2, <3>1, <3>2, <3>3, <3>4, <3>5 DEF ResultsOf
  <2>6. Cardinality(ResultsOf(p)') = Cardinality(ResultsOf(p)) + 1
    BY <1>1, <2>5, ResultsOfFinite, FS_AddElement
  <2>7. \A q \in DOMAIN task' : PrintedOK(task'[q]) /\ Cardinality(ResultsOf(q)') = task'[q].printed
    BY <1>2, <1>3, <1>7, <2>4, <2>6 DEF AskedInv, ResultsOK, TaskMoves
  <2>8. \A k \in DOMAIN results' :
          LET q == results'[k].file
          IN q \in DOMAIN task' /\ task'[q].stage # "none" /\ OptionsBefore(results'[k].conf, q)
    <3>1. \A k \in 1..(n + 1) : k \in 1..n \/ k = n + 1
      BY <2>1
    <3>2. ASSUME NEW k \in 1..n
          PROVE  LET q == results'[k].file
                 IN q \in DOMAIN task' /\ task'[q].stage # "none" /\ OptionsBefore(results'[k].conf, q)
      <4>1. results'[k] = results[k] /\ k \in DOMAIN results
        BY <2>1
      <4>2. LET q == results[k].file
            IN q \in DOMAIN task /\ task[q].stage # "none" /\ OptionsBefore(results[k].conf, q)
        BY <4>1 DEF AskedInv, ResultsOK
      <4>. QED
        BY <1>2, <1>3, <4>1, <4>2 DEF TaskMoves
    <3>3. LET q == r.file
          IN q \in DOMAIN task' /\ task'[q].stage # "none" /\ OptionsBefore(r.conf, q)
      BY <1>2, <1>3, <2>2, <2>3 DEF TaskMoves
    <3>. QED
      BY <2>1, <3>1, <3>2, <3>3
  <2>9. \A k \in DOMAIN results' : OptionsBefore(results[k].conf, results[k].file)'
    BY <1>4, <2>8
  <2>10. ResultsOK'
    BY <2>7, <2>8, <2>9 DEF ResultsOK, PrintedOK
  <2>. QED
    BY <1>4, <1>5, <2>10
<1>. QED
  BY <1>3, <1>6, <1>7 DEF TaskMoves

LEMMA AskedInvNext == AskedInv /\ [Next]_vars => AskedInv'
<1>. SUFFICES ASSUME AskedInv, [Next]_vars  PROVE AskedInv'
  OBVIOUS
<1>1. MainInv'
  BY MainInvNext DEF AskedInv
<1>2. CASE MainStep \/ UNCHANGED vars
  BY <1>1, <1>2, AskedMain DEF AskedInv
<1>3. CASE \E p \in DOMAIN task : TaskStep(p)
  BY <1>1, <1>3, AskedTask DEF AskedInv
<1>. QED
  BY <1>2, <1>3 DEF Next, Terminated

LEMMA AskedIsRated == AskedInv => RatedAsAsked
<1>. SUFFICES ASSUME AskedInv  PROVE RatedAsAsked
  OBVIOUS
<1>1. ASSUME NEW k \in DOMAIN results
      PROVE  OptionsBefore(results[k].conf, results[k].file)
  BY DEF AskedInv, ResultsOK
<1>2. ASSUME pc = "done", nb_map > 0, NEW p \in DOMAIN argv
      PROVE  LET one == p \in All /\ FirstChar[argv[p]] # "-" /\ Loads(argv[p])
             IN IF ~one THEN Cardinality(ResultsOf(p)) = 0
                ELSE IF task[p].conf.tr_main = "trs_main"
                     THEN Cardinality(ResultsOf(p)) \in 1..MaxPrint
                     ELSE Cardinality(ResultsOf(p)) = 1
  <2>1. p \in DOMAIN task /\ argv \in CommandLines /\ IsTask(task[p])
        /\ task[p].stage \in {"none", "done"}
    BY <1>2 DEF AskedInv, MainInv, TasksOK
  <2>2. p < i
    <3>1. i = Len(argv) + 1
      BY <1>2 DEF AskedInv, WalkOK, Looped
    <3>. QED
      BY <2>1, <3>1, <1>2, ArgvPositions
  <2>3. PrintedOK(task[p]) /\ Cardinality(ResultsOf(p)) = task[p].printed /\ task[p].printed \in Nat
    BY <2>1 DEF AskedInv, ResultsOK, IsTask
  <2>4. task[p].stage # "none" <=> p \in All /\ FirstChar[argv[p]] # "-" /\ Loads(argv[p])
    BY <1>2, <2>1, <2>2 DEF AskedInv, MadeOK, Found, Looped
  <2>5. MaxPrint \in Nat
    BY TrMainAssumption
  <2>6. CASE task[p].stage = "none"
    BY <2>3, <2>4, <2>6 DEF PrintedOK
  <2>7. CASE task[p].stage = "done"
    BY <2>3, <2>4, <2>5, <2>7 DEF PrintedOK
  <2>. QED
    BY <2>1, <2>6, <2>7
<1>. QED
  BY <1>1, <1>2 DEF RatedAsAsked, OptionsBefore, ResultsOf, All

-----------------------------------------------------------------------------
(***************************************************************************)
(* Theorems.                                                               *)
(***************************************************************************)
\* Whatever the threads do, the output is the text of the results, each in one
\* piece: the `omp critical' section and yaml_prefix of print.c.
THEOREM OutputAlwaysIntact == Spec => []OutputIntact
<1>1. Init => MainInv
  BY TasksInit, OutInit DEF MainInv
<1>2. MainInv /\ [Next]_vars => MainInv'
  BY MainInvNext
<1>3. MainInv => OutputIntact
  BY OutIsText
<1>. QED
  BY <1>1, <1>2, <1>3, PTL DEF Spec

\* Each result was computed with the local options before its file, and at the
\* end each file that loads has been rated: the loop of main, that goes on
\* changing LOCAL_CONFIG while the tasks run, and the copy each task owns.
THEOREM RatedAlwaysAsAsked == Spec => []RatedAsAsked
<1>1. Init => AskedInv
  BY TasksInit, OutInit, AskedInit DEF AskedInv, MainInv
<1>2. AskedInv /\ [Next]_vars => AskedInv'
  BY AskedInvNext
<1>3. AskedInv => RatedAsAsked
  BY AskedIsRated
<1>. QED
  BY <1>1, <1>2, <1>3, PTL DEF Spec
=============================================================================
