----------------------------- MODULE MCLibosux -----------------------------
(***************************************************************************)
(* Parts of libosux for TLC: programs that use one of its containers, or   *)
(* processes that share the database of beatmaps.                          *)
(***************************************************************************)
EXTENDS OsuxList, Heap, HashTable, Yaml, BeatmapDb, TLC
CONSTANTS n1, n2, n3, e1, e2, dbctl, ranking, again, oldHash, newHash, songA, songB

VARIABLE which   \* the part

MCHash == [key \in Key |-> IF key = "a" THEN 1 ELSE 4]

\* A beatmap that is there twice, and one that cannot be parsed.
MCFirstDisks == {(songA :> oldHash @@ songB :> oldHash), (songA :> Broken @@ songB :> newHash)}

\* No file, and a database in which a path is out of date.
MCFirstFiles == {NoTable, WithRows({[hash |-> newHash, path |-> songA]})}

\* The two processes that populate are told apart by nothing but their names.
MCSymmetry == Permutations({dbctl, again})

MCVars == <<vars, heapVars, hashVars, yamlVars, databaseVars, which>>

MCInit ==
  /\ which \in {"list", "heap", "table", "yaml", "database"}
  /\ Init /\ HeapInit /\ HashInit /\ YamlInit /\ DatabaseInit
  /\ which # "database" => file = NoTable /\ disk = songA :> oldHash @@ songB :> oldHash

ListNext ==
  /\ which = "list" /\ Next
  /\ UNCHANGED <<heapVars, hashVars, yamlVars, databaseVars, which>>
SumNext ==
  /\ which = "heap" /\ HeapNext
  /\ UNCHANGED <<vars, hashVars, yamlVars, databaseVars, which>>
TableNext ==
  /\ which = "table" /\ HashNext
  /\ UNCHANGED <<vars, heapVars, yamlVars, databaseVars, which>>
FileNext ==
  /\ which = "yaml" /\ YamlNext
  /\ UNCHANGED <<vars, heapVars, hashVars, databaseVars, which>>
BeatmapsNext ==
  /\ which = "database" /\ DatabaseNext
  /\ UNCHANGED <<vars, heapVars, hashVars, yamlVars, which>>

MCNext == ListNext \/ SumNext \/ TableNext \/ FileNext \/ BeatmapsNext
MCSpec == MCInit /\ [][MCNext]_MCVars
=============================================================================
