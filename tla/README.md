# Models of osux

TLA+ models of [osux](../src), a C library and a set of programs around the
beatmaps and replays of the game osu!. The largest program, `taiko_ranking`,
rates the difficulty of taiko maps in parallel and stores the ratings in a
database. The models follow the code in `src/src`; paths below are relative to
that directory.

## The system

| component | files | state it keeps | operations |
|---|---|---|---|
| command line, tasks and output of taiko_ranking | `taikorank/main.c` `options.c` `config.c` `print.c` | `GLOBAL_CONFIG`, `LOCAL_CONFIG`, OpenMP tasks with a copy of the latter, the static `yaml_prefix`, the output | global options, loop over the local options and files, one task per file, printing, exit handlers |
| result database | `taikorank/tr_db.c` | one MySQL connection (`sql`) shared by all tasks; the tables user, mod, mapset, diff, score | `trm_db_insert`: find or insert in each table, then insert or update the score |
| score | `taikorank/taiko_ranking_score.c` | `struct tr_score`: the map as loaded, the map being changed, the good/miss wanted, the last point printed | prepare good/miss or accuracy, change one object, compute or damp, print at the steps |
| map | `taikorank/taiko_ranking_map.c` `taiko_ranking_object.c` | objects with played state, hands and stars; counters, max combo | load, modify, set an object's state, choose an object, print |
| treatment | `taikorank/treatment.c` `final_star.c` `compute_stars.c` | fields of the objects | hands, combo, rest, slider, the passes of a rating; influence |
| star formulas | `density.c` `reading.c` `pattern.c` `accuracy.c` `freq_counter.c` `linear_fun.c` ... | constants read from YAML | floating point functions of the objects |
| mods | `taikorank/tr_mods.c` | none | text to mods and back, application to a map |
| list | `lib/util/list.c` | a doubly ended chain, a cached cursor | get, insert, append, add, remove, copy, iterate |
| heap, sum, hash table, stack, yaml | `lib/util/*.c` | arrays; a uthash table; a parse tree | containers; a compensated sum over heaps; a recursive reader |
| beatmap | `lib/beatmap/*.c` | sections and arrays of a beatmap | parse, prepare, save, free; conversion of standard maps to taiko |
| beatmap database | `lib/database/*.c` | an SQLite database in memory, loaded from a file and saved to it when freed | populate from a directory tree, find by hash |
| replay and hits | `lib/replay/*.c` | a replay; the hits matched with the objects | parse, decompress, match |
| tools | `tools/` | none | command line clients of the library |
| viewer | `viewer/` | the beatmap and the replay that are open, the view, sequences with a count of references, a GStreamer pipeline | open and close, play, pause, seek, draw |
| editor | `editor/` | a list of beatmaps, four notebooks with a page for each, a tree of objects per beatmap | new, open, close, choose, draw, save |

How they interact. `main` reads the command line once; for every file it makes
an OpenMP task, which is given the map that the main thread loads through the library (and the
beatmap database when a file is named by a hash), rates it once (`trm_main`) or through
a score that changes objects and prints several results (`trs_main`). For each
result the task prints in the unnamed critical section, then calls
`trm_db_insert`, whose statements are each in the *same* unnamed section. The
tasks share the connection, the output and the static separator, and nothing
else that changes. The library's containers are sequential, called from
one thread each; beatmaps are loaded one after the other, but the events of a
storyboard find their parents on a static stack that outlives them. Processes
meet in the file of the beatmap database, which each copies to memory when it
opens it and back when it closes it.
The viewer and the editor are single instances: another process hands them the
files it was asked to open, which they do in their main loop, or in the main loop
that a dialog runs inside a call of the first. The pipeline of the viewer has
threads of its own, which leave messages for the main loop.

What is hard:

* the tasks: which configuration one sees, whose text is where, whose rows an
  answer is about, when a find-or-insert is not atomic, what happens after a
  statement failed;
* the loop of the score: it ends when three counters are equal to three targets,
  while four functions update the counters, the stars and the choice of the next
  object, and a copy of the map is rated for printing;
* the list: every lookup moves a cursor that insertions and removals must keep
  right;
* the beatmap: colours are reached by pointers into an array that still grows,
  the tree of events is built with what is left on a stack, a conversion frees
  some of the objects, keeps others and prepares everything again;
* the beatmap database: several processes each replace the whole file, one may be
  killed, and the songs change meanwhile;
* the rating: four tasks write into the same objects at once, each pass by pass,
  with walks that stop early, tables of nearly equal things and a mesh whose rings
  are found by merging lists of times;
* the replay: no read is checked, the rows are decompressed in a loop that must
  not stop early, and presses are matched to objects by a pointer that only moves
  forwards;
* the containers: a heap whose root is its own left child, a hash table that keeps
  each entry in two lists, a tree that is built from events which do not say where
  they belong;
* the viewer and the editor: a call that shows a dialog returns into another state
  than the one it left, messages of the player come late, and notebooks are kept
  in step by the signals of one of them.

What makes each component correct: results are printed whole, once, with the
options before their file, and stored under their own map and mods (command
line, database); a score is the best one within what was asked, reached by
downgrading the right object each time, and printing does not change it (score);
the list is a sequence whatever its cursor does (list); a loaded beatmap has the
timing point, the colour and the parent that the file gives each thing, a
conversion keeps its objects, and freeing it leaves nothing (beatmap); the file
is always a database some process completed, with what was on the disk (beatmap
database); a rating is the one of its definitions whatever the tasks do first; a
replay cut short loses its end only, and every object is judged by the presses
there were (replay, hits); a sum, a table and a document have what was put into
them, and leave nothing behind (containers); what is shown is what is open
(viewer, editor), and what is saved what was loaded (editor).

## Modules

| module | models | state and actions |
|---|---|---|
| `TrMain` | `main.c`, `options.c`, `config.c`, the output of `taiko_ranking_map.c` | `gconf`, `lconf` are the two configurations, `task[p]` the task of the file at position `p` with its copy; `GlobalOption`, `HelpOption`, `LocalOption`, `FileArgument` are the branches of the two loops; `StartTask`, `Rate`, `PrintBegin`, `PrintEnd`, `DbReturn` a task's steps; `Barrier` and `Exit` the end |
| `TrDb` | `tr_db.c` | `rows` are the tables, `result` the result set pending on the connection, `ids[t]` what task `t` got; `Query` and `StoreResult` are the two halves of `tr_db_get_id`, `Insert` and `Update` the two writes |
| `TrRank` | `TrMain` and `TrDb` with one critical section | a task that is in the database stage of `TrMain` takes the steps of `TrDb` |
| `TrScore` | `taiko_ranking_score.c` and what it calls in `taiko_ranking_map.c`, `treatment.c`, `final_star.c` | `map`, `origin`, `saved` are the maps, `target` and `last_point` the fields of the score; one action per turn of each loop |
| `ListSpec` | what `include/osux/list.h` promises | a sequence numbered from 1, each call at once |
| `OsuxList` | `list.c` | nodes, `next`, the cursor; a lookup is one step per node; `pos` is a ghost, the node at each position |
| `BeatmapDb` | `lib/database/`, with `tools/dbctl/dbctl.c` as the process | `file` and `disk` are shared, `mem[p]` the copy in memory; `Load`, `Schema`, `Visit`, `EndWalk`, `Lookup`, `BeginSave`, `EndSave` the steps of a process, `Crash` and `Edit` what happens to it |
| `Beatmap` | `lib/beatmap/`: `beatmap.c`, `timingpoint.c`, `color.c`, `event.c`, `hitobject.c`, `taiko_autoconvert.c` | `bm` is the `osux_beatmap`, `event_stack` the static array; one action per branch of `parse_objects`, `Prepare`, `BuildTree` for each event, `PrepareEvents`, `Autoconvert`, `Free` |
| `EventLine` | the lines of a storyboard in `event.c`, with `include/osux/event.h` | pure: `EventInit`, `EventPrepare`, `PrintEvent` |
| `LinearFun` | `linear_fun.c` | pure: a function is a sequence of points |
| `Skills` | `compute_stars.c`, `tr_mods.c`, `treatment.c`, `density.c`, `pattern.c`, `freq_counter.c`, `spacing_count.c`, `accuracy.c`, `final_star.c` | `input` is the map given, `rated` the one being rated; `Treated`, `StartTasks`, `DoPass` (one pass of one of the four tasks), `ComputeFinal` |
| `Reading` | `reading.c` | `screen` are the objects with their times on the screen, `mesh` the mesh of one of them: its rings, its faces and what marks the times still to come; `OpenMesh`, `AdvMesh` (a ring), `CloseMesh`, `NextMesh` |
| `Heap` | `heap.c`, `sum.c` | `buf` is the array of the heap; an element moves up or down one step at a time, and a sum takes its numbers out one by one; `added`, `total` and `taken` are ghosts, what was added and what a weighted sum took out |
| `HashTable` | `hash_table.c` and the macros of `uthash.h` | `entry` are the entries with both pairs of links, `tbl` the buckets; an action for each operation |
| `Yaml` | `yaml.c`, `stack.c`, `cst_yaml.c` | `val` are the values allocated, `stack` and `keyname` the variables of the loop; an action for each event of the parser |
| `Replay` | `replay.c`, `buffer_reader.c`, `xz_decomp.c` | `value` says from whose bytes each field was filled; an action for each read, each turn of the decompression loop and each row |
| `Hits` | `hit.c` | `frames`, `keypress` and `hits` are the arrays, `p` the pointer into the presses; an action for each array and for each object |
| `ParseReplay` | `tools/parse_replay.c` over `Replay` and `Hits` | `tool` is where `main` is |
| `Viewer` | `viewer/`, but for the rendering | `app`, `view`, `player` are the objects, `refs` the counts of references, `calls` the calls that wait for a dialog, `bus` the messages of the pipeline; an action for each callback |
| `Editor` | `editor/`, with what it needs of `beatmap.c` | `pages` and `page` are the notebooks, `docs` the tree of each beatmap, `pending` the calls that wait, `crashed` that memory that is not there was used, after which nothing is said; an action for each action of the window and each answer to a dialog |
| `Picture` | `vosu-render-std.c`, `edosu-render.c` and the paths of `hitobject.c` | pure, over an object and a position that moves on by a millisecond |
| `Subseqs` | | parts of a sequence, and a set as a sequence in the order of keys; used where `SelectSeq` and `SortSeq` would leave the provers nothing to unfold |
| `TrMainProofs`, `TrDbProofs`, `TrRankProofs`, `TrScoreProofs`, `BeatmapProofs` | | theorems about the module each is named after |
| `LibosuxProofs` | | theorems about `OsuxList`, `BeatmapDb` and `Heap` |
| `ClientsProofs` | | theorems about `Replay`, `Hits`, as `ParseReplay` composes them, and `Viewer` |
| `NatSets` | | induction over the natural numbers, functions defined from their own values, and what the operators of `Subseqs` and a joining of sequences give, for the proofs |
| `MC*` | | the constants of the runs; `MCTrScore`, `MCLibosux` and `MCClients` each explore several programs, one in each behaviour (`which`) |

Operators marked "(Mutant ...)" in a module are faulty variants of the definition
that follows them. No specification uses them: exchanging one for its definition
must make the run of the module fail, which shows that the run looks at that code.

### What the models abstract

* Names in the database (creator, title, diff, mods) are values compared for
  equality; the counts of a score are represented by the number of the call.
  `mysql_fetch_row` and `mysql_num_rows` of the null result that a failed query
  leaves are taken to give no row.
* `Rating` in `TrScore` stands for the skill formulas: any function of the
  objects' hands, states, colours and offsets into stars, 0 for objects that are
  not GREAT. `Skills` is where the formulas are, and `Seen` in it stands for the
  volume of the mesh of `Reading`.
* Numbers in `Skills` and `Reading` are in fixed point, rounded down, with the
  functions of the YAML files as constants; general powers and logarithms are
  scaled away. The volume of a mesh and the intersections of its faces are GTS's
  and are left out.
* Accuracies are compared exactly, as fractions, and one that is asked for is a
  whole percent: rounding of doubles is not modelled. `-input` is 0 or 1, the two values the README has. Maps have an
  object: `treatment.c:78` reads the first one unconditionally.
* Words of the command line are strings whose first character, number and file
  are given by constants; the options that only filter what is printed are
  consumed but change nothing.
* The processes of `BeatmapDb` can open the file. A backup is all or nothing, as
  SQLite's transactions are; it may fail because another process has the file,
  and nobody looks at its result. A hash stands for the content of a beatmap.
* A line of a beatmap is what its parser makes of it: its kind and the numbers the
  preparation uses. Options, tags, bookmarks, hit sounds and texts are left out, and
  so is the text `details` of objects and timing points, which each preparation
  allocates anew (a conversion loses the first). Of the arrays only the colours
  have an address, because only they are pointed into while they grow. Undefined
  behaviour and failed assertions end a behaviour; the properties say for which
  files they do not happen. `WellFormed` is what those files have: each line in its
  section, objects and timing points in order, an uninherited timing point first,
  commands below objects, loops or triggers. Times are integers.
* A line of a storyboard is its level and its fields. A command without a value,
  whose parser reads past the fields, is in no file considered.
* Positions given to the list are in range (`list.c` does not check them), and
  allocation does not fail.
* The numbers in a heap are integers, so the compensated sum is an exact one. The
  hash function is a constant with collisions. The YAML parser is external: it
  gives the events of some document and may give up at any of them.
* A replay file is how many of its bytes are there; a field is filled from its own
  bytes, from others' or not at all. The LZMA decoder is external. What is read past
  the presses is any press or none.
* GTK and GStreamer are external: a notebook shows a page and says so, a dialog
  runs a main loop, a pipeline climbs to the state it was asked for, and a message
  waits until a main loop takes it. `Places` are the ones on the range that a user
  clicks.
* A picture is the sequence of its shapes. Points in line or on a grid are exact,
  and those on a circle are given by their angles; colours, sizes and the numbers
  of the combos are left out. Bezier curves are flattened to the pixel, as
  the code does it, and the control points of those considered lie along an axis,
  so that lengths are whole.

## Runs

| run | what it shows |
|---|---|
| `TrDb_faults` | two tasks with one difficulty and different mods, any one query failing: `IdsAreOwn`, `ScoresAreOwn`, and both finish (`AllFinish`) |
| `TrDb_dups` | three tasks with the same names on two threads: at most one row per thread and failed query (`DuplicatesBounded`). The number of tasks is larger than the number of threads on purpose: the bound is the threads. |
| `TrDb_schema` | violation: the schema in `sql/taiko_rank.sql` calls the mapset table `tr_beatmap_set` and its key in `tr_diff` `bms_ID`, `tr_db.c` says `tr_mapset` and `mapset_ID`; nothing is ever stored (`ResultsStored`) |
| `TrMain_lines` | all command lines of up to 4 words out of 6, and longer ones, 3 threads: `OutputIntact`, `RatedAsAsked` (every file, with the options before it), `Terminates` |
| `TrRank_db` | the two put together: `EveryResultStored` relates what was printed to what is stored, and `ImplementsBoth` shows that every step of `TrRank` is a step of `TrMain` or none when the section is seen as free while a task stores, and a step of `TrDb` or none when it is seen as free while a task prints |
| `TrScore_all` | *scores*: maps of 1 to 6 objects with notes, big notes, rolls and simultaneous notes; more good and miss than there are objects and negative ones; every accuracy where a change happens and both sides of it; negative, zero and positive steps: `CountsMatch`, `TargetIsBest`, `StepIndependent`, `PrintsRight`, `EachChangeNew` (each turn changes a GREAT object no turn has changed, the MISS first; the object -1 is changed only with the method of the best influence, and only when the map has no star left to lose). *Ratings*: maps of 1 to 6 objects with a gap, a chord, rolls, a spinner, long objects that hide hits from the density, nearly equal rests and objects missed, under no mods and under each that changes something, the passes of the four tasks in every order: `PatternsWhole`, `StarsAsDefined`. *Meshes*: two objects of each size, length and four speeds, near, apart and far, with the view of no mod, hidden, flashlight: `MeshSound` |
| `TrScore_bonus` | violation: `trm_remove_bonus` skips the object after a removed one, so `-no_bonus` leaves a bonus note |
| `Libosux_all` | *list*: all sequences of calls on a list of up to 3 of 2 elements; with its cursor at every position, every lookup before and after it happens (`Chain`, `CursorInPlace`, `ImplementsListSpec`). *Heap*: all additions of up to 6 numbers out of 3 to the three kinds of sum (`SumIsRight`). *Hash table*: all sequences of operations on up to 5 entries of 2 keys, whose chains collide and whose buckets double twice (`TableExact`). *YAML*: all documents of up to 4 values, cut short anywhere (`DocumentLoaded`). *Database*: two processes that populate and one that looks up, all overlapping, one of them killed, one edit, a beatmap that is there twice and one that cannot be parsed: `FileWhole`, `PopulateExact` (which covers what lookups answer); `LookupsKeepFile` shows when a lookup does change the file. The two processes that populate are symmetric: only their names differ |
| `Clients_all` | *parse_replay*: replays of four frames against two objects of each kind, and a replay cut at each byte, with each mod, for each mode, damaged in each way the code distinguishes: `CutLosesOnlyTheEnd`, `MissesExplained`, `EveryObjectJudged`. *Viewer*: three beatmaps and three replays opened and closed, in a dialog of a dialog too, while the music plays, fails, ends and is sought in: `ViewIsCurrent`, `EarlySeekHappens`. *Editor*: up to three tabs with beatmaps that have events of every type, one command with several keyframes, files that are refused for an event or for something else, and each way to crash, on loading (an easing before what is refused, no object), on copying and on freeing a save: `TabsInStep`, `SavedAsLoaded`. *Pictures*: sliders on a line, arcs of every direction and Bezier paths, in one to four passes of whole milliseconds or not, at every millisecond: `PictureTells` |
| `Clients_end` | violation: the loop that skips presses reads past the last one, so that an object is hit with no press in its window (`NoPressIsAMiss`) |
| `Beatmap_load` | all storyboards of up to 4 events and chosen longer ones; all sequences of up to 3 of 11 objects on 5 lists of timing points; up to 4 lines of colours with an array of 3; lines out of place; storyboards loaded one after the other: `EventTree` (with when undefined behaviour is reached), `ObjectsLast`, `TimingPointApplies`, `ConversionKeepsMap`, `ComboCycle`, `NothingLeft` |
| `Beatmap_free` | violation: freeing a beatmap with a command that has an easing frees the easing as a file name, the two being in one union (`FreeHarmless`) |

Three runs explore several programs each, one per behaviour: the others stay at one
initial state, so their properties hold there and the run costs the sum.

Bounds. `MaxEdits` (changes of the songs) and `MaxCrashes`; `ColourCap` (the first
size of the array of colours, 20 in the code: with 3 it grows twice within a run)
and `MaxLevel` (`EVENT_MAX_STACK_SIZE`, 200 in the code, so that an event of level
3 is too deep); `MaxFaults` (failed queries), `MaxRound` and `MaxPrint` (results of one
score), `MaxArgs` (words). Two tasks are enough for every pair of statements to
meet; three are needed to show that duplicates depend on threads. `Capacity`,
`MaxWeighted` (50 in the code: with 3 a weighted sum of 6 leaves numbers out);
`Cells`, `InitialBuckets`, `Thresh` (32 and 10 in the code) and `MaxBuckets`;
`MaxNodes`. `Chunks`: two turns of the decompression, so that there is a last one
and one that is not. `MaxLoads`, `MaxRefs`, `MaxDialogs`, `MaxMessages`, `MaxTabs` and
`MaxCalls` let a dialog be interrupted by another one that is too. They stop
actions, never shorten one. `Unit` is the time between two places on the range;
`Turn` (six) gives arcs of every direction and more and less than half a turn;
`PatternUnit` makes the shares of the probabilities whole.

### Fairness

`TrDb`, `TrMain`: weak fairness of main and of each task. The OpenMP runtime runs
every task, and a thread waiting for the critical section enters when it is free;
since each task enters a bounded number of times, no stronger assumption is
needed. `ParseReplay`: weak fairness of its only thread. `Viewer`: strong fairness
of the pipeline's threads and of the main loop's taking a message, which a call that
waits for a dialog disables for a while and always enables again when the dialog's
own loop starts, and weak fairness of a call that goes on; none of the user, who
may never answer. `OsuxList` and the other containers have no fairness: they are
sequential, and their steps end because a lookup goes nearer to its node and an
element moves along the heap. `TrScore` has none either: the absence of deadlock and
`CountsMatch` (each turn takes one object from one counter to the next) is why it
ends. `TrRank` is checked for safety only: that it ends follows from `Terminates` of
`TrMain` and `AllFinish` of `TrDb`, between which it alternates. `BeatmapDb` and
`Beatmap` have safety properties only: a process may be killed, and loading is a loop
over a finite file. The runs over programs that end do not check deadlock.

## Proofs

Each theorem holds for every value of the constants that satisfies the assumptions
named in the modules; TLC evaluates those assumptions in the runs. Every inductive
invariant below is proved by the same argument: it holds initially, each action
keeps each of its conjuncts, and it implies the property.

`TrDbProofs`, for any tasks, names, rounds, threads, failures and schema:

* `TypeCorrect`: `DbSpec => []DbTypeOK`;
* `AnswersAreOwn`: `DbSpec => []IdsAreOwn`;
* `WritesAreOwn`: `DbSpec => []ScoresAreOwn`;
* `FewDuplicates`: `DbSpec => []DuplicatesBounded`;
* `AllStored`: `ServerTables = Table => (DbSpec => []ResultsStored)`.

`IdsAreOwn` is not inductive: an id is the task's own only if the pending result
was. The inductive invariant `Inv` adds `Section` (the task between its query and
its `mysql_store_result` is the one in the critical section, and what is pending
are matches of *its* condition) and `ReferentialIntegrity` (every row's parents
exist, so a row that was a task's own remains so when rows are added: rows are
only appended, and an `UPDATE` leaves what identifies a row). An `UPDATE` by an id
that a task holds writes the task's own score because of `IdsAreOwn`.
`DuplicatesBounded` needs `DupInv`: rows of a name, together with the tasks that have
found none and will still insert one, are no more than the threads and the
failures. `ResultsStored` needs `StoreInv`, which says for each stage of a task
which of its rows are there and which score is its last. Its hypothesis is that
the server has the five tables the program names. The schema of the repository does
not make them, which is what the run `TrDb_schema` shows; the theorem says that this
is the only obstacle besides failed queries.

`TrMainProofs`, for any command line, option tables, files and number of threads:

* `OutputAlwaysIntact`: `Spec => []OutputIntact`;
* `RatedAlwaysAsAsked`: `Spec => []RatedAsAsked`.

`MainInv` says what the output is at each stage: the text of the results printed,
as a YAML document or not (`Yaml(n)`, `Plain(n)`), then the start of the one that the
task in the critical section prints, and that the static prefix is the one due next. `AskedInv` adds where the second loop is: the words it
passed are exactly the ones that a walk over the whole line visits (`WalkOK`), each file it visited was
given the options set before it (`MadeOK`), and each result was computed with the
options of its task (`ResultsOK`). The walk is a recursive function of the command line, from
a word to the one after its arguments. The proof needs one fact about the option tables
that the code relies on, `OptionNames`: a local option's name starts with `-`, as
all those of `options.c` do; otherwise the second loop would take one for a file.

`TrRankProofs`, the whole program, under the assumptions of both:

* `RankImplementsDb`, `RankImplementsMain`, `RankImplementsBoth`:
  `RankSpec => ImplementsBoth`;
* `RankOutputIntact`, `RankRatesAsAsked`: the two theorems of `TrMain` for
  `RankSpec`;
* `RankStoresResults`: `ServerTables = Db!Table => (RankSpec => []EveryResultStored)`.

Printing and the queries share one unnamed critical section. Each of the two
modules sees it through a refinement mapping: free for `TrMain` while its holder is in the
database, free for `TrDb` while its holder prints. A step of one must then never be
blocked or interleaved in a way the other does not have; this follows from
`RankInv` (who is in the section, and that a task is in the database only after it
printed; how many threads are busy). The theorems of the two parts are about
the instances, so they are carried over: `MainP` and `AloneP` instantiate the
proof modules, and bridging lemmas identify their definitions with those of `TrRank`. That
what was printed is what is stored joins `AskedInv` of one part and `StoreInv` of the
other by counting the calls of each task (`Counted`).

`TrScoreProofs`, for any maps, options and influence, and whatever stars `Rating`
gives:

* `TargetAlwaysBest`: `Spec => []TargetIsBest`;
* `CountsAlwaysMatch`: `Spec => []CountsMatch`;
* `AlwaysStepIndependent`: `Spec => []StepIndependent`.

`TargetOK` has the invariants of the two loops of `trs_prepare`: what is removed last
was wanted least (`ToRemove`), and no score between the one reached and the one
asked was passed (`ToLower`). `MapsOK` says that each map is `Exact`: the lemmas before
it say what each operation does to the counters, the removal of bonus notes with
its skipped elements included. `FollowsOK` says which of the maps `Unprinted` gives
is held at each point of the loop; it relies on `MapsOK` for the number of changes.

`LibosuxProofs`, the list, for any elements and memory:

* `ChainAlways`: `Spec => []Chain`;
* `CursorAlways`: `Spec => []CursorInPlace`;
* `Implements`: `Spec => ImplementsListSpec`.

`Chain` and `CursorInPlace` need `Walking`: in a lookup the node reached is the one
`k` before the position wanted, within the list. With it the refinement is one
step per action: the node at which a lookup ends is `pos[n]`, so a get answers the
n-th element, an insertion makes `Link`'s new `pos` the sequence with the element
inserted, and a removal the sequence without it.

The database, for any processes, songs, hashes, edits and crashes:

* `FileAlwaysWhole`: `DatabaseSpec => []FileWhole`;
* `PopulateAlwaysExact`: `DatabaseSpec => []PopulateExact`;
* `LookupsAlwaysKeepFile`: `DatabaseSpec => LookupsKeepFile`.

`DatabaseInv` adds that at most one process writes (`WriterInv`), that a walk has
stored what it passed and nothing else (`WalkedInv`), and what relates the copy of
a process to the file until someone else writes it (`CopyInv`).

The heap and the sums, for any integers and any capacity (`HeapAssumption`):

* `SumIsAlwaysRight`: `HeapSpec => []SumIsRight`.

While an element moves, the heap is ordered but for that element: `MovingUp` says
that its children are in order under its parent, `MovingDown` that the slot after
the last holds what moves down (`heap.c` leaves it there) and that nothing is larger than the maximum taken. That
the root is a largest element is an induction over the indices, since a parent's is
below its child's. `CountInv` says how many numbers are allocated at each stage of
a sum, `TotalInv` that the heap and what is in hand still sum to what was added, and `WeightInv` that each
number was taken as often as it was added, but for what is still in the heap, and that
none taken is smaller than one left.

`ClientsProofs`, for any replays (`FilesAssumption`: a file has a length, and so has
each string) and any turns of the decompression:

* `CutAlwaysLosesOnlyTheEnd`: `ToolSpec => []CutLosesOnlyTheEnd`;
* `MissesAlwaysExplained`: `ToolSpec => []MissesExplained`.

`ReadInv`: the position is where the next field begins, or that field begins after the
end of the file, and a field was filled from its own bytes just when they were all
there. `HitInv`: no press before the pointer was passed without a reason (`Pointed`),
which is what the matching of the next object needs (`OneMore`); the types of
the presses come from the rows of the file through `RowsInv`. The half of
`MissesExplained` about misses asks that the objects are in the order of their times,
because nothing in the code sorts them.

The viewer, for any beatmaps, replays, dialogs and messages:

* `ViewAlwaysCurrent`: `ViewerSpec => []ViewIsCurrent`.

`ViewerInv`: what is shown is what is loaded (`Shows`); no sequence is used for two
things, a replay that waits in a dialog of an error included (`Uses`); every use has its
reference (`Counted`); messages of an earlier player were flushed (`Heard`).
`ViewerAssumption` asks that the bound on references is at least three, what the
objects of one beatmap need: a smaller bound would stop the model, not the code.

`BeatmapProofs`, for any files, in which lines of every kind may be at any place
(`BeatmapAssumption`), loaded, converted and freed one after the other:

* `NothingEverLeft`: `Spec => []NothingLeft`;
* `CombosAlwaysCycle`: `Spec => []ComboCycle`;
* `EventTreeAlways`: `Spec => []EventTree`;
* `ObjectsAlwaysLast`: `Spec => []ObjectsLast`;
* `TimingPointAlwaysApplies`: `Spec => []TimingPointApplies`;
* `ConversionAlwaysKeepsMap`: `Spec => []ConversionKeepsMap`.

The properties speak of the file, and the code of arrays that it changes in place,
twice when it converts; the invariants follow each array from the one to the other.
`SecInv`: the section is the one of the last header. `ReadInv`: while parsing, the
arrays are the lines of their kind read so far. Then, for each thing that is made
of them:

* `OwnInv`, `ResInv`: what is allocated is held by an object, and what an object holds is
  allocated; each object of a standard map holds its own. A slider is therefore freed or
  handed over, never both.
* `ColourInv`, `HuesInv`: the list of combo colours is sorted, has each combo of the
  array once and points into the present array as long as that did not move; each
  object has the colour of its number of new combos.
* `TreeInv`: after `n` events, for the `k`-th time, each parent and each list of
  children are those of the file up to `n`, and the static stack holds at each level
  the last event of this file on that level, if there is one. In a `Nested` file an event
  of each level above an event's own comes before it, so what earlier
  files left on the stack is never reached, and neither assertion of `add_child` fails
  (`BuildOf`).
* `TimesInv`: an object of the storyboard has its own times until it is
  prepared, and afterwards those of all commands below it; the least and the
  largest of a set do not change when they are taken again (`MinAgain`).
* `MapInv`: the timing points are ordered and have their beats (`TpsOK`); the
  scan that only moves forwards stops at the last point that is not after the object
  (`Applied`), because both are ordered; the converted objects are in order, at the
  places of the original ones and within them (`Keeps`, `SliderEnds`). The order
  is from `Separate`: the circles of a slider are within its length and the margin,
  and the next object begins after that. The second preparation changes no time.

All but `NothingLeft` are about files that are `WellFormed`; `TimingPointApplies` and `ConversionKeepsMap` ask that no object begins before
the one before it has ended, by the margin of the conversion. The run `Beatmap_load` has files
with and without these.

`NatSets` replaces the induction theorems of the library, which take an operator:
to prove that all numbers have a property, take the set of those that have it
(`NatSetInduction`). With it `ChainFunction` and `StepFunction` prove that a function
defined from its own values exists, for one that goes down from a larger number and one
that goes up; a recursive definition can be unfolded only with that. `KeptIs` says
what the part of a sequence is (what `SelectSeq` gives), `ByKeyIs` that a finite set
can be sorted, `JoinedIs` where each element of joined sequences comes from.

Only model-checked:

* liveness (`AllFinish`, `Terminates`, `EveryObjectJudged`, `EarlySeekHappens`), which
  is beyond the prover, and `Editor`, whose recursive operators are too;
* `PrintsRight` of `TrScore`, which is not true of every `Rating`: it asks that a
  rating does not look at earlier stars; and `EachChangeNew`;
* `Skills` and `Reading`: their definitions are folds of the community modules over
  tables and lists of points, nested in each other; what a fold gives for every list is
  induction over data, which would have to be restated for each of them as
  `NatSets` does it for a few;
* `HashTable`: `TableExact` finds the entries by walking both kinds of list, while the
  doubling of the buckets takes every chain apart; it would need a ghost for the order of
  each chain, as `pos` is for `OsuxList`;
* `Yaml`: `DocumentLoaded` relates the tree to a document by recursion over it;
* `Picture` is pure: `PictureTells` computes the shapes of each object it is given.

Of `Beatmap`, `Replay`, `Hits`, `Viewer`, `Heap`, `OsuxList`, `BeatmapDb`, `TrMain`,
`TrDb` and `TrRank` no invariant that a passing run checks is without its theorem.

## Seen on the way

What the code does where a reader may not expect it; the models do the same.

* `taikorank/README.md` documents `+odb`; the option the program has is `+bdb`, so
  `+odb` is reported as unknown and its argument is taken as a file.
* A `dbctl` that only looks a hash up writes the whole file back, over what another
  process has saved since it was loaded (`LookupsKeepFile`). If the file was busy
  when it was loaded, the copy is empty and so is the file afterwards.
* The error of an inherited first timing point is overwritten
  (`beatmap.c:445-450`): the beatmap loads, with no velocity anywhere.
* An invalid colour line lists the colour before it a second time; as the first line
  of colours it reads before the array (`beatmap.c:163-168`).
* The second preparation of a converted beatmap adds every event to its parent
  again, so children are there twice (`EventTree` counts them), and loses the
  `details` texts of the first.
* A hold in a standard beatmap is dropped by the conversion and its memory lost.
* A file with no line at all loads as an empty beatmap; a line before any section is
  compared with a null section name; objects without a timing point make the scan
  of timing points run off the array (`beatmap.c:427`).
* `end_offset` of a break is read from its start (`event.c:174`), and so is what is
  saved of it.
* Storyboards: a video is printed with five fields and read with three, so a saved
  one is invalid; of several keyframes only the first is printed; those after the
  first of a rotation are read as scalings; `F,0,1,2` with no value reads past its
  fields. The file name of an object and the easing of a command are in one union:
  an easing other than 0 is duplicated as a file name when the editor saves
  (`event.c:551`), and freed as one when a beatmap is (`event.c:266`), also one that
  is refused because of a later line. A copy shares the later keyframes: the first
  save of a tab frees them, the second frees them again. (`Editor` and `Beatmap` have
  these crashes; the beatmaps of `Viewer`, `ParseReplay` and `TrMain` have no command
  with an easing.)
* Lists of lines left open when the YAML parser gives up stay in reverse order; an
  alias adds nothing, and its key stays for the next value.
* A hash table finds the last entry added of several with a key, or the first,
  according to how often the buckets doubled.
* Replays: reading past the end of the file leaves the earlier fields and zeroes
  (no result of `READ_V` is looked at); the string of the decompression is not
  terminated if it fills its buffer; fewer than three rows make
  `osux_hits_init` ask for nearly all the memory; a replay of a mode
  without hits (CTB, mania), or one for which `osux_hits_init` fails, frees its arrays
  twice; the two bits that a key may set count as one press only if no other key
  changes in the same frame.
* Ratings: `final_cst.yaml` says that rank 0 is the highest, but the weights start at
  rank 1; HD with HR leaves the multiplier of the od out; the walk of the density
  ends at a long object that gives none, though `density_cst.yaml` says that every object before gives
  some; with `score_method` 1 and without `-quick`, the
  object -1 of the map is changed when each GREAT object left is at the time of a changed one,
  whose influence of 0 leaves it no star; an object that begins before the one
  before it has ended has a negative rest, for which the functions are out of
  bounds, and infinite stars; `lf_new` allocates seven bytes too few, and
  `cst_vect_from_list` is never reached; `vect_seen_x4` and `_y4` are there twice
  in `reading_cst.yaml`; with flashlight and hidden an object may disappear before
  it appears, and its mesh is inside out; `has_error` of `lf_eval` is a flag that
  several tasks set.
* Viewer: `vosu_sequence_unref` calls `g_object_ref`, so no sequence is ever freed; an
  early seek overrides the ones made after it and before the music plays;
  `view->playing` stays set when the music ends or fails; the handler of the end
  runs in a thread of the pipeline; a beatmap without objects indexes element -1;
  the "close replay" button stays when another beatmap is opened; drawing stops at
  the first object that cannot be drawn, whatever comes after it.
* Editor: what is saved is the beatmap that is current when the dialog is answered;
  a beatmap without objects reads element -1 when it is loaded; saving under a name
  does not change the path of the beatmap, so opening the file makes a second tab; a closed beatmap is never released; bookmarks are lost on
  saving; a new beatmap has no tree of objects.
* Pictures: the edges of a slider go by a pass of whole milliseconds, so they may be
  ahead of the ball, and a slider shorter than its passes divides by zero; a slider
  of three points is drawn as an arc whatever its type; the direction of the arrow is
  undefined if the last two points are the same; Catmull sliders are not drawn.

## Plan

Done: the components above. Next, in this order:

1. Proofs: `TableExact` of `HashTable` as far as the list of all entries; the bounds
   and the order of the passes in `Skills`.
2. Options, tags, bookmarks and hit sounds of a beatmap, saved and read back.
3. The conversion of a beatmap to the objects of the ranking program.

### Not modelled

* The volume of a mesh and the intersections of its faces: the GTS library's.
* `tr_mods.c` and `lib/mod`: mods as text. MD5, strings and error messages: stateless
  wrappers.
* `taiko_generator`: random notes, with no state beside the generator's.
* The widgets of GTK, the properties pane, colours, sizes and the taiko renderer: what
  they do is seen at once.
* The sections of a saved beatmap that have no objects, and the default name of its
  file (`beatmap_old.c`); generated command line parsers, vendored code,
  the build, translations, and the scripts.
