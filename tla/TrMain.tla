------------------------------ MODULE TrMain ------------------------------
(***************************************************************************)
(* The run of the taiko_ranking program (src/taikorank/main.c): the global *)
(* options, the loop of the `single' thread over the rest of the command   *)
(* line, the OpenMP task it makes for every beatmap, and the output of     *)
(* those tasks.                                                            *)
(*                                                                         *)
(* The loop changes LOCAL_CONFIG while tasks made earlier still run; each  *)
(* task owns a copy taken when it was made.  Every task prints inside the  *)
(* unnamed `omp critical' section, as several writes, and in YAML mode the *)
(* separator to print is a static variable (yaml_prefix).                  *)
(*                                                                         *)
(* Command-line words are strings; what the code looks at in them (first   *)
(* character, atoi, what file is there) is given by constants.  A task is  *)
(* named by the position of its file in argv.                              *)
(***************************************************************************)
EXTENDS Integers, Sequences, FiniteSets

CONSTANTS
  CommandLines, \* the argument vectors the program may be started with
  FirstChar,    \* FirstChar[w]: the first character of word w
  Atoi,         \* Atoi[w]: the number atoi (or atof) reads in word w
  Mods,         \* Mods[w]: the set of mods str_to_mods reads in word w
  File,         \* File[w]: the beatmap word w names, with its name's kind
                \* ("osu" or "hash") and its game mode
  MaxArgs,      \* bound on the length of a command line
  Workers,      \* the number of OpenMP threads, the main one included
  MaxPrint,     \* bound on the results printed for one score
  NoTask        \* no task is in the critical section, or run by main

ASSUME TrMainAssumption ==
  /\ MaxArgs \in Nat
  /\ \A c \in CommandLines : c \in Seq(DOMAIN FirstChar) /\ Len(c) <= MaxArgs
  /\ Workers \in Nat \ {0}
  /\ MaxPrint \in Nat \ {0}
  /\ NoTask \notin 1..MaxArgs

VARIABLES
  argv,        \* the words of the command line
  pc,          \* where main is
  i,           \* the loop variable
  nb_map,      \* the number of words taken as files
  gconf,       \* GLOBAL_CONFIG
  lconf,       \* LOCAL_CONFIG
  task,        \* task[p]: the task made for the file at position p
  inlined,     \* the task main runs itself before it goes on with its loop
  critical,    \* the task inside the unnamed critical section
  yaml_prefix, \* the separator that the next YAML result starts with
  out,         \* the tokens written to the output, each with its task (0: none):
               \* the begin and end of a result, and in YAML the opening of the
               \* list ("maps: ["), the comma between two results, its closing
  results      \* history: the results printed, with the configuration used

vars == <<argv, pc, i, nb_map, gconf, lconf, task, inlined,
          critical, yaml_prefix, out, results>>

-----------------------------------------------------------------------------
(***************************************************************************)
(* The option tables and what the options set (options.c, config.c).       *)
(***************************************************************************)
GlobalArgs ==
  [w \in {"+help", "+autoconvert", "+db", "+bdb", "+bdb_path",
          "+ptro", "+pyaml", "+porder", "+pfilter"} |-> IF w = "+help" THEN 0 ELSE 1]
LocalArgs ==
  [w \in {"-mods", "-no_bonus", "-flat", "-score", "-quick",
          "-step", "-input", "-acc", "-ggm"} |-> IF w = "-ggm" THEN 2 ELSE 1]

\* The name of a local option starts with its sign.
ASSUME OptionNames ==
  \A w \in DOMAIN FirstChar : w \in DOMAIN LocalArgs => FirstChar[w] = "-"

\* config.yaml as it is installed.
GlobalDefault == [autoconvert |-> 1, db |-> 0, bdb |-> 0, yaml |-> 0]
LocalDefault ==
  [tr_main |-> "trm_main", mods |-> {}, flat |-> 0, no_bonus |-> 0, quick |-> 1,
   step |-> 0, input |-> 1, acc |-> 100, good |-> 0, miss |-> 0]

\* An option applies when it is known and enough words follow it.
Applies(args, p) == argv[p] \in DOMAIN args /\ Len(argv) - p >= args[argv[p]]
Consumed(args, p) == IF Applies(args, p) THEN args[argv[p]] ELSE 0

\* The options that only change how a result is worded leave gconf as it is.
SetGlobal(g, p) ==
  CASE argv[p] = "+autoconvert" -> [g EXCEPT !.autoconvert = Atoi[argv[p + 1]]]
    [] argv[p] = "+db"          -> [g EXCEPT !.db = Atoi[argv[p + 1]]]
    [] argv[p] = "+bdb"         -> [g EXCEPT !.bdb = Atoi[argv[p + 1]]]
    [] argv[p] = "+pyaml"       -> [g EXCEPT !.yaml = Atoi[argv[p + 1]]]
    [] OTHER                    -> g

\* local_config_set_tr_main: MAIN_SCORE is 1.
TrMainOf(n) == IF n = 1 THEN "trs_main" ELSE "trm_main"

SetLocal(c, p) ==
  LET w == argv[p]
      n == Atoi[argv[p + 1]]
      score == [c EXCEPT !.tr_main = TrMainOf(1)]
  IN CASE w = "-mods"     -> [c EXCEPT !.mods = Mods[argv[p + 1]]]
       [] w = "-no_bonus" -> [c EXCEPT !.no_bonus = n]
       [] w = "-flat"     -> [c EXCEPT !.flat = n]
       [] w = "-score"    -> [c EXCEPT !.tr_main = TrMainOf(n)]
       [] w = "-quick"    -> [score EXCEPT !.quick = n]
       [] w = "-step"     -> [score EXCEPT !.step = n]
       [] w = "-input"    -> [score EXCEPT !.input = n]
       [] w = "-acc"      -> [score EXCEPT !.acc = n, !.input = 0]
       [] w = "-ggm"      -> [score EXCEPT !.good = n, !.miss = Atoi[argv[p + 2]],
                                           !.input = 1]

\* trm_new and osux_map_check_mode: the file can be read (a hash needs the
\* beatmap database), and it is a taiko map or may be converted into one.
Loads(w) ==
  /\ w \in DOMAIN File
  /\ File[w].name = "hash" => gconf.bdb # 0
  /\ \/ File[w].mode = "taiko"
     \/ File[w].mode = "std" /\ gconf.autoconvert # 0

-----------------------------------------------------------------------------
(***************************************************************************)
(* main: the global options.                                               *)
(***************************************************************************)
AtGlobalOption == i <= Len(argv) /\ FirstChar[argv[i]] = "+"

GlobalOption ==
  /\ pc = "globals" /\ AtGlobalOption /\ argv[i] # "+help"
  /\ gconf' = IF Applies(GlobalArgs, i) THEN SetGlobal(gconf, i) ELSE gconf
  /\ i' = i + 1 + Consumed(GlobalArgs, i)
  /\ UNCHANGED <<argv, pc, nb_map, lconf, task, inlined, critical, yaml_prefix, out, results>>

\* +help prints the usage and exits.
HelpOption ==
  /\ pc = "globals" /\ AtGlobalOption /\ argv[i] = "+help"
  /\ pc' = "exit"
  /\ UNCHANGED <<argv, i, nb_map, gconf, lconf, task, inlined, critical, yaml_prefix, out, results>>

\* The first word that is not a global option starts the loop.
EndGlobals ==
  /\ pc = "globals" /\ ~AtGlobalOption
  /\ pc' = "loop"
  /\ UNCHANGED <<argv, i, nb_map, gconf, lconf, task, inlined, critical, yaml_prefix, out, results>>

(***************************************************************************)
(* main: the loop of the single thread.                                    *)
(***************************************************************************)
InLoop == pc = "loop" /\ inlined = NoTask

LocalOption ==
  /\ InLoop /\ i <= Len(argv) /\ FirstChar[argv[i]] = "-"
  /\ lconf' = IF Applies(LocalArgs, i) THEN SetLocal(lconf, i) ELSE lconf
  /\ i' = i + 1 + Consumed(LocalArgs, i)
  /\ UNCHANGED <<argv, pc, nb_map, gconf, task, inlined, critical, yaml_prefix, out, results>>

\* A file: the map is loaded here; its task starts with a copy of LOCAL_CONFIG,
\* and the runtime may have main run it at once (an undeferred task).
FileArgument ==
  /\ InLoop /\ i <= Len(argv) /\ FirstChar[argv[i]] # "-"
  /\ nb_map' = nb_map + 1
  /\ i' = i + 1
  /\ IF Loads(argv[i])
     THEN \E own \in BOOLEAN :
            /\ task' = [task EXCEPT ![i] = [stage |-> IF own THEN "rating" ELSE "queued",
                                            conf |-> lconf, printed |-> 0]]
            /\ inlined' = IF own THEN i ELSE NoTask
     ELSE UNCHANGED <<task, inlined>>
  /\ UNCHANGED <<argv, pc, gconf, lconf, critical, yaml_prefix, out, results>>

EndLoop ==
  /\ InLoop /\ i > Len(argv)
  /\ pc' = "barrier"
  /\ UNCHANGED <<argv, i, nb_map, gconf, lconf, task, inlined, critical, yaml_prefix, out, results>>

\* (Mutant NoBarrier: the tasks that have not started are not waited for.)
NoBarrier == \A p \in DOMAIN task : task[p].stage \in {"none", "queued", "done"}
TasksDone == \A p \in DOMAIN task : task[p].stage \in {"none", "done"}

\* The implicit barrier at the end of the parallel region; without a file the
\* program prints the usage, which exits.
Barrier ==
  /\ pc = "barrier"
  /\ TasksDone
  /\ pc' = "exit"
  /\ UNCHANGED <<argv, i, nb_map, gconf, lconf, task, inlined, critical, yaml_prefix, out, results>>

\* config_exit, run by exit: tr_print_yaml_exit closes the document.
Exit ==
  /\ pc = "exit"
  /\ pc' = "done"
  /\ out' = out \o (IF gconf.yaml = 0 THEN <<>>
                    ELSE IF yaml_prefix = "comma" THEN <<<<"close", 0>>>>
                    ELSE <<<<yaml_prefix, 0>>, <<"close", 0>>>>)
  /\ UNCHANGED <<argv, i, nb_map, gconf, lconf, task, inlined, critical, yaml_prefix, results>>

-----------------------------------------------------------------------------
(***************************************************************************)
(* The tasks.                                                              *)
(***************************************************************************)
Running == {p \in DOMAIN task : task[p].stage \notin {"none", "queued", "done"}}
FreeThreads == Workers - Cardinality(Running) - (IF InLoop THEN 1 ELSE 0)

StartTask(p) ==
  /\ task[p].stage = "queued" /\ FreeThreads > 0
  /\ task' = [task EXCEPT ![p].stage = "rating"]
  /\ UNCHANGED <<argv, pc, i, nb_map, gconf, lconf, inlined, critical, yaml_prefix, out, results>>

\* trm_compute_stars on a copy of the map (TrScore has the score's loop).
Rate(p) ==
  /\ task[p].stage = "rating"
  /\ task' = [task EXCEPT ![p].stage = "rated"]
  /\ UNCHANGED <<argv, pc, i, nb_map, gconf, lconf, inlined, critical, yaml_prefix, out, results>>

\* The configuration that a task works with: the copy it owns.  (Mutant
\* SharedConf: map->conf is LOCAL_CONFIG itself.)
SharedConf(p) == lconf
ConfOf(p) == task[p].conf

\* The unnamed critical section.  (Mutants: EnterAnyway, printing without the
\* section; LeaveNever, a return inside it.)
EnterAnyway(p) == critical' = p
LeaveNever == UNCHANGED critical
EnterSection(p) == critical = NoTask /\ critical' = p
LeaveSection == critical' = NoTask

\* Enter the critical section and write the start of the result.
PrintBegin(p) ==
  /\ task[p].stage = "rated"
  /\ EnterSection(p)
  /\ out' = out \o (IF gconf.yaml = 0 THEN <<>> ELSE <<<<yaml_prefix, 0>>>>) \o <<<<"begin", p>>>>
  /\ task' = [task EXCEPT ![p].stage = "printing"]
  /\ UNCHANGED <<argv, pc, i, nb_map, gconf, lconf, inlined, yaml_prefix, results>>

\* A task ends, or goes on to the next result of its score; whether it has
\* another one is the business of TrScore.
AfterResult(p, t) ==
  \E more \in {FALSE} \cup (IF ConfOf(p).tr_main = "trs_main" /\ t.printed < MaxPrint
                            THEN {TRUE} ELSE {}) :
    /\ task' = [task EXCEPT ![p] = [t EXCEPT !.stage = IF more THEN "rating" ELSE "done"]]
    /\ inlined' = IF ~more /\ inlined = p THEN NoTask ELSE inlined

\* The static variable of trm_print_yaml.  (Mutant SamePrefix: it is not set.)
SamePrefix == yaml_prefix
NextPrefix == IF gconf.yaml = 0 THEN yaml_prefix ELSE "comma"

\* Write the rest, set the separator, and leave the critical section.
PrintEnd(p) ==
  LET t == [task[p] EXCEPT !.printed = @ + 1] IN
  /\ task[p].stage = "printing"
  /\ out' = Append(out, <<"end", p>>)
  /\ yaml_prefix' = NextPrefix
  /\ results' = Append(results, [file |-> p, conf |-> ConfOf(p)])
  /\ LeaveSection
  /\ IF gconf.db = 0
     THEN AfterResult(p, t)
     ELSE /\ task' = [task EXCEPT ![p] = [t EXCEPT !.stage = "db"]]
          /\ UNCHANGED inlined
  /\ UNCHANGED <<argv, pc, i, nb_map, gconf, lconf>>

\* trm_db_insert returns (TrDb has what it does, TrRank puts the two together).
DbReturn(p) ==
  /\ task[p].stage = "db"
  /\ AfterResult(p, task[p])
  /\ UNCHANGED <<argv, pc, i, nb_map, gconf, lconf, critical, yaml_prefix, out, results>>

-----------------------------------------------------------------------------
Init ==
  /\ argv \in CommandLines
  /\ pc = "globals"
  /\ i = 1
  /\ nb_map = 0
  /\ gconf = GlobalDefault
  /\ lconf = LocalDefault
  /\ task = [p \in DOMAIN argv |-> [stage |-> "none", conf |-> LocalDefault, printed |-> 0]]
  /\ inlined = NoTask
  /\ critical = NoTask
  /\ yaml_prefix = "open"
  /\ out = <<>>
  /\ results = <<>>

MainStep ==
  \/ GlobalOption \/ HelpOption \/ EndGlobals
  \/ LocalOption \/ FileArgument \/ EndLoop
  \/ Barrier \/ Exit

TaskStep(p) == StartTask(p) \/ Rate(p) \/ PrintBegin(p) \/ PrintEnd(p) \/ DbReturn(p)

Terminated == pc = "done" /\ UNCHANGED vars

Next ==
  \/ MainStep
  \/ \E p \in DOMAIN task : TaskStep(p)
  \/ Terminated

\* The OpenMP runtime executes every task before the barrier completes, and
\* main and the running tasks are never stopped.
Fairness ==
  /\ WF_vars(MainStep)
  /\ \A p \in 1..MaxArgs : WF_vars(p \in DOMAIN task /\ TaskStep(p))

Spec == Init /\ [][Next]_vars /\ Fairness

-----------------------------------------------------------------------------
(***************************************************************************)
(* Properties.                                                             *)
(***************************************************************************)
\* The text of the k-th result: in YAML the list is opened before the first
\* one, and one comma separates two of them.
Separator(k) == IF k = 1 THEN "open" ELSE "comma"
TextOf(k) ==
  (IF gconf.yaml = 0 THEN <<>> ELSE <<<<Separator(k), 0>>>>)
    \o <<<<"begin", results[k].file>>, <<"end", results[k].file>>>>
Width == IF gconf.yaml = 0 THEN 2 ELSE 3
Closing ==
  IF gconf.yaml = 0 THEN <<>>
  ELSE IF results = <<>> THEN <<<<"open", 0>>, <<"close", 0>>>> ELSE <<<<"close", 0>>>>

\* Whenever no task is printing, the output is exactly the text of the results
\* printed so far, each in one piece and in the order of the critical
\* sections; at the end it is a closed document (an empty list included).
OutputIntact ==
  critical = NoTask =>
    LET end == IF pc = "done" THEN Closing ELSE <<>>
        printed == Width * Len(results)
    IN /\ Len(out) = printed + Len(end)
       /\ \A k \in DOMAIN results :
            SubSeq(out, Width * (k - 1) + 1, Width * k) = TextOf(k)
       /\ SubSeq(out, printed + 1, Len(out)) = end

\* The position after the global options from position p on, and the positions
\* that the loop looks at from position p on.
LoopStart[p \in 1 .. 2 * MaxArgs + 2] ==
  IF p <= Len(argv) /\ FirstChar[argv[p]] = "+"
  THEN LoopStart[p + 1 + Consumed(GlobalArgs, p)] ELSE p
Visited[p \in 1 .. 2 * MaxArgs + 2] ==
  IF p > Len(argv) THEN {}
  ELSE {p} \cup Visited[p + 1 + IF FirstChar[argv[p]] = "-" THEN Consumed(LocalArgs, p) ELSE 0]

\* The last applied option of a set before position p (0: none).
LastOption(p, words) ==
  LET before == {q \in Visited[LoopStart[1]] :
                   q < p /\ argv[q] \in words /\ Applies(LocalArgs, q)}
  IN IF before = {} THEN 0 ELSE CHOOSE q \in before : \A r \in before : r <= q

\* Each result was computed with the local options that precede its file on
\* the command line ("local options applying to all files after them"), and
\* with none that follows it, whatever main had read when the task ran; and
\* when the program ends, every file that could be loaded has been rated:
\* once, or at least once when a score was asked for.
ScoreOptions == {"-score", "-quick", "-step", "-input", "-acc", "-ggm"}
RatedAsAsked ==
  /\ \A k \in DOMAIN results :
       LET p == results[k].file
           mods == LastOption(p, {"-mods"})
           main == LastOption(p, ScoreOptions)
           ggm  == LastOption(p, {"-ggm"})
       IN /\ results[k].conf.mods = IF mods = 0 THEN {} ELSE Mods[argv[mods + 1]]
          /\ (results[k].conf.tr_main = "trs_main")
               <=> (main # 0 /\ (argv[main] = "-score" => Atoi[argv[main + 1]] = 1))
          /\ results[k].conf.miss = IF ggm = 0 THEN 0 ELSE Atoi[argv[ggm + 2]]
  /\ pc = "done" /\ nb_map > 0 =>
       \A p \in DOMAIN argv :
         LET n == Cardinality({k \in DOMAIN results : results[k].file = p})
             one == p \in Visited[LoopStart[1]] /\ FirstChar[argv[p]] # "-" /\ Loads(argv[p])
         IN IF ~one THEN n = 0
            ELSE IF task[p].conf.tr_main = "trs_main" THEN n \in 1..MaxPrint ELSE n = 1

\* The program terminates: no task is left waiting for a thread or for the
\* critical section, and the barrier is passed.
Terminates == <>(pc = "done")
=============================================================================
