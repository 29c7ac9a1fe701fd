----------------------------- MODULE BeatmapDb -----------------------------
(***************************************************************************)
(* The beatmap database (lib/database): an SQLite file that maps the hash  *)
(* of a beatmap to its path.  A process that opens it copies the whole     *)
(* file to memory, works on the copy, and copies it back over the file     *)
(* when it closes the database, even when it has only looked hashes up.    *)
(* dbctl -p fills it from the songs directory; dbctl -h and taiko_ranking  *)
(* +bdb look hashes up.                                                    *)
(*                                                                         *)
(* Processes may run at once, and crash anywhere, while the player adds,   *)
(* edits and deletes beatmaps.  The two copies are SQLite backups: each    *)
(* is all or nothing, and the results of both are ignored.  The file can   *)
(* be opened; a hash stands for the content of a beatmap.                  *)
(***************************************************************************)
EXTENDS Naturals, FiniteSets

CONSTANTS
  Proc,      \* the processes
  Populates, \* the processes that fill the database (dbctl -p)
  Path,      \* the paths of beatmaps under the songs directory
  Hash,      \* the hashes
  Absent,    \* there is no file at a path
  Broken,    \* the file is there and cannot be parsed
  NoPath,    \* no match
  NoProc,    \* nobody is writing the file
  FirstFiles,\* what the file may be at first
  FirstDisks,\* what the songs directory may be at first
  MaxEdits,  \* bound on what the player does
  MaxCrashes \* bound on the crashes

Row == [hash : Hash, path : Path]
UniqueHash(rows) == \A r, s \in rows : r.hash = s.hash => r = s \* UNIQUE in the schema
Database == {d \in [table : BOOLEAN, rows : SUBSET Row] :
               UniqueHash(d.rows) /\ (d.rows # {} => d.table)}
NoTable == [table |-> FALSE, rows |-> {}] \* what an empty file is
WithRows(rows) == [table |-> TRUE, rows |-> rows]
OnDisk == Hash \cup {Absent, Broken}

ASSUME BeatmapDbAssumption ==
  /\ Populates \subseteq Proc /\ NoProc \notin Proc
  /\ {Absent, Broken} \cap Hash = {} /\ NoPath \notin Path
  /\ FirstFiles \subseteq Database
  /\ FirstDisks \subseteq [Path -> OnDisk]
  /\ MaxEdits \in Nat /\ MaxCrashes \in Nat

VARIABLES
  disk,    \* the songs directory
  file,    \* the database file
  writer,  \* the process whose transaction writes the file
  stage,   \* stage[p]: where p is
  mem,     \* mem[p]: the database in the memory of p
  todo,    \* todo[p]: the paths p has still to read
  parsed,  \* parsed[p]: parsed_beatmap_count
  reply,  \* reply[p]: the last hash p looked up, with its path (none: {})
  edits, crashes,
  whole,   \* history: the complete databases there have been
  was,     \* history: was[p][path]: what was there since p started to populate
  stale    \* history: stale[p]: mem[p] is not from the file as it is now

databaseVars == <<disk, file, writer, stage, mem, todo, parsed, reply, edits, crashes,
          whole, was, stale>>

-----------------------------------------------------------------------------
(***************************************************************************)
(* osux_beatmap_db_init.                                                   *)
(***************************************************************************)

\* sqlite3_open; the file is read when it is needed.
Open(p) ==
  /\ stage[p] = "out"
  /\ stage' = [stage EXCEPT ![p] = "open"]
  /\ UNCHANGED <<disk, file, writer, mem, todo, parsed, reply, edits, crashes, whole, was, stale>>

\* load_to_memory: while another process writes, the backup may find the file
\* busy; the memory is then left empty.
Load(p) ==
  /\ stage[p] = "open"
  /\ \/ /\ mem' = [mem EXCEPT ![p] = file]
        /\ stale' = [stale EXCEPT ![p] = FALSE]
     \/ /\ writer # NoProc
        /\ mem' = [mem EXCEPT ![p] = NoTable]
        /\ stale' = [stale EXCEPT ![p] = TRUE]
  /\ stage' = [stage EXCEPT ![p] = "schema"]
  /\ UNCHANGED <<disk, file, writer, todo, parsed, reply, edits, crashes, whole, was>>

\* (Mutants: SchemaAlways; SchemaIfMissing, which populates what there is.)
SchemaAlways(p) == TRUE
SchemaIfMissing(p) == ~mem[p].table
NeedsSchema(p) == p \in Populates \/ ~mem[p].table

\* beatmap_table_is_present and init_schema, which drops the old table.
Schema(p) ==
  /\ stage[p] = "schema"
  /\ mem' = [mem EXCEPT ![p] = IF NeedsSchema(p) THEN WithRows({}) ELSE @]
  /\ IF p \in Populates
     THEN /\ stage' = [stage EXCEPT ![p] = "walk"]
          /\ todo' = [todo EXCEPT ![p] = Path]
          /\ was' = [was EXCEPT ![p] = [path \in Path |-> {disk[path]}]]
     ELSE /\ stage' = [stage EXCEPT ![p] = "ready"]
          /\ UNCHANGED <<todo, was>>
  /\ UNCHANGED <<disk, file, writer, parsed, reply, edits, crashes, whole, stale>>

\* Where a row goes (get_handle).  (Mutant StoreInFile: to the file, as it would
\* without the copy in memory.)
StoreInFile(p, row) ==
  /\ mem' = [mem EXCEPT ![p].rows = @ \cup {row}]
  /\ file' = mem'[p]
Store(p, row) ==
  /\ mem' = [mem EXCEPT ![p].rows = @ \cup {row}]
  /\ UNCHANGED file

\* The hash is UNIQUE: a second beatmap with it is not inserted, nor counted.
\* (Mutant InsertsAnyway: without the constraint.)
InsertsAnyway(p, path) == disk[path] \in Hash
Inserts(p, path) ==
  /\ disk[path] \in Hash
  /\ \A r \in mem[p].rows : r.hash # disk[path]

\* parse_beatmap_directory: the files of a directory come in any order.
Visit(p, path) ==
  /\ stage[p] = "walk" /\ path \in todo[p]
  /\ todo' = [todo EXCEPT ![p] = @ \ {path}]
  /\ IF Inserts(p, path)
     THEN Store(p, [hash |-> disk[path], path |-> path])
     ELSE UNCHANGED <<file, mem>>
  /\ parsed' = [parsed EXCEPT ![p] = IF Inserts(p, path) THEN @ + 1 ELSE @]
  /\ UNCHANGED <<disk, writer, stage, reply, edits, crashes, whole, was, stale>>

EndWalk(p) ==
  /\ stage[p] = "walk" /\ todo[p] = {}
  /\ stage' = [stage EXCEPT ![p] = "ready"]
  /\ whole' = whole \cup {mem[p]}
  /\ UNCHANGED <<disk, file, writer, mem, todo, parsed, reply, edits, crashes, was, stale>>

-----------------------------------------------------------------------------
(***************************************************************************)
(* osux_beatmap_db_get_path_by_hash, osux_beatmap_db_free.                 *)
(***************************************************************************)

\* (Mutant MatchAny: the hash is not bound to the statement.)
MatchAny(p, h) == {r.path : r \in mem[p].rows}
Match(p, h) == {r.path : r \in {r \in mem[p].rows : r.hash = h}}

\* dbctl does not populate and look up in one run.
Lookup(p, h) ==
  /\ stage[p] = "ready" /\ p \notin Populates
  /\ \E path \in IF Match(p, h) = {} THEN {NoPath} ELSE Match(p, h) :
       reply' = [reply EXCEPT ![p] = {[hash |-> h, path |-> path]}]
  /\ UNCHANGED <<disk, file, writer, stage, mem, todo, parsed, edits, crashes, whole, was, stale>>

\* save_from_memory: the backup starts, or finds the file busy because another
\* process reads or writes it, and nothing is saved.
BeginSave(p) ==
  /\ stage[p] = "ready"
  /\ \/ /\ writer = NoProc
        /\ writer' = p
        /\ stage' = [stage EXCEPT ![p] = "save"]
     \/ /\ writer # NoProc \/ \E q \in Proc : stage[q] = "open"
        /\ stage' = [stage EXCEPT ![p] = "done"]
        /\ UNCHANGED writer
  /\ UNCHANGED <<disk, file, mem, todo, parsed, reply, edits, crashes, whole, was, stale>>

\* The backup is committed.
EndSave(p) ==
  /\ stage[p] = "save"
  /\ file' = mem[p]
  /\ writer' = NoProc
  /\ stage' = [stage EXCEPT ![p] = "done"]
  /\ stale' = [q \in Proc |-> stale[q] \/ (q # p /\ stage[q] \notin {"out", "open"})]
  /\ UNCHANGED <<disk, mem, todo, parsed, reply, edits, crashes, whole, was>>

-----------------------------------------------------------------------------
(***************************************************************************)
(* What happens to a process.                                              *)
(***************************************************************************)

\* It is killed: an unfinished transaction is rolled back.
Crash(p) ==
  /\ stage[p] \notin {"out", "done", "dead"} /\ crashes < MaxCrashes
  /\ crashes' = crashes + 1
  /\ stage' = [stage EXCEPT ![p] = "dead"]
  /\ writer' = IF writer = p THEN NoProc ELSE writer
  /\ UNCHANGED <<disk, file, mem, todo, parsed, reply, edits, whole, was, stale>>

\* The player changes a beatmap.
Edit(path, new) ==
  /\ edits < MaxEdits /\ disk[path] # new
  /\ edits' = edits + 1
  /\ disk' = [disk EXCEPT ![path] = new]
  /\ was' = [p \in Proc |->
       IF stage[p] = "walk" THEN [was[p] EXCEPT ![path] = @ \cup {new}] ELSE was[p]]
  /\ UNCHANGED <<file, writer, stage, mem, todo, parsed, reply, crashes, whole, stale>>

-----------------------------------------------------------------------------
DatabaseInit ==
  /\ disk \in FirstDisks
  /\ file \in FirstFiles
  /\ writer = NoProc
  /\ stage = [p \in Proc |-> "out"]
  /\ mem = [p \in Proc |-> NoTable]
  /\ todo = [p \in Proc |-> {}]
  /\ parsed = [p \in Proc |-> 0]
  /\ reply = [p \in Proc |-> {}]
  /\ edits = 0 /\ crashes = 0
  /\ whole = {file, WithRows({})}
  /\ was = [p \in Proc |-> [path \in Path |-> {}]]
  /\ stale = [p \in Proc |-> FALSE]

ProcStep(p) ==
  \/ Open(p) \/ Load(p) \/ Schema(p) \/ EndWalk(p) \/ BeginSave(p) \/ EndSave(p)
  \/ \E path \in Path : Visit(p, path)
  \/ \E h \in Hash : Lookup(p, h)

DatabaseNext ==
  \/ \E p \in Proc : ProcStep(p) \/ Crash(p)
  \/ \E path \in Path, new \in OnDisk : Edit(path, new)

DatabaseSpec == DatabaseInit /\ [][DatabaseNext]_databaseVars

-----------------------------------------------------------------------------
(***************************************************************************)
(* Properties.                                                             *)
(***************************************************************************)
\* Whatever crashes when, the file is a database that some process had finished
\* to fill (or an empty one): the working copy in memory keeps a walk that was
\* interrupted out of the file.  No hash is twice in it.
FileWhole ==
  /\ file \in whole
  /\ \A r, r2 \in file.rows : r.hash = r2.hash => r = r2

\* A database that was populated has, for each hash, one row with a path where a
\* file with that hash was during the walk; every hash whose file was there all
\* the time is in it; and the number of beatmaps reported is the number of rows.
Populated ==
  \A p \in Populates : stage[p] \in {"ready", "save", "done"} =>
    /\ \A r \in mem[p].rows : r.hash \in was[p][r.path]
    /\ \A path \in Path : \A h \in Hash :
         was[p][path] = {h} => Cardinality({r \in mem[p].rows : r.hash = h}) = 1
    /\ parsed[p] = Cardinality(mem[p].rows)

\* A process whose copy is current gets a path that the file has for a hash, and
\* no path only if the file has none.
AnswersFromFile ==
  \A p \in Proc : stage[p] = "ready" /\ ~stale[p] =>
    \A found \in reply[p] :
      LET paths == {r.path : r \in {r \in file.rows : r.hash = found.hash}}
      IN IF found.path = NoPath THEN paths = {} ELSE found.path \in paths

\* What a walk puts into the database is what was in the songs, and what a lookup
\* gets out of it is what the file had, while other processes store theirs, crash,
\* and the songs are edited.
PopulateExact == Populated /\ AnswersFromFile

\* A process that only looks hashes up also writes the whole file when it ends.
\* This changes what is in it only if some other process has saved meanwhile
\* (that save is then lost), or was saving when the file was loaded.
LookupsKeepFile ==
  [][\A p \in Proc \ Populates :
       stage[p] = "save" /\ file' # file => stale[p] \/ ~file.table]_databaseVars

=============================================================================
