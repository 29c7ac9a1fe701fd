----------------------------- MODULE ParseReplay -----------------------------
(***************************************************************************)
(* tools/parse_replay.c: read a replay, look its beatmap up by its hash,   *)
(* load it, compute the hits, free everything.                             *)
(***************************************************************************)
EXTENDS Replay, Hits

VARIABLE tool  \* main: "load", "lookup", "hits", "exit" or "failure"

toolVars == <<replayVars, hitsVars, tool>>

\* osux_replay_init returns.
LoadReturns ==
  /\ tool = "load" /\ parsed \in {"ok", "failed"}
  /\ tool' = IF parsed = "ok" THEN "lookup" ELSE "failure"
  /\ UNCHANGED <<replayVars, hitsVars>>

\* What osux_hits_init is given: a field that was not read is zero, and one
\* made of other bytes may say anything.
ReplayMode == IF value["game_mode"] = "own" THEN file.mode ELSE Std
ReplayMods == CASE value["mods"] = "own" -> {file.mods}
                [] value["mods"] = "zero" -> {{}}
                [] OTHER -> SUBSET {"EZ", "DT"}
Given(mods) == [mode |-> ReplayMode, mods |-> mods, map |-> file.map,
                rows |-> data]

\* The beatmap is found only by the hash itself; it is not, when the database
\* does not have it, and the program ends.  One that does not load is an error.
Lookup ==
  /\ tool = "lookup"
  /\ IF value["beatmap_hash"] = "own" /\ file.map # NoTask.map
     THEN \/ tool' = "hits" /\ \E mods \in ReplayMods : BeginHits(Given(mods))
          \/ ~file.mapLoads /\ tool' = "failure" /\ UNCHANGED hitsVars
     ELSE tool' = "exit" /\ UNCHANGED hitsVars
  /\ UNCHANGED replayVars

\* osux_hits_init, then osux_hits_free whatever it returned.
ComputeHits == tool = "hits" /\ HitsStep /\ UNCHANGED <<replayVars, tool>>
Free == /\ tool = "hits" /\ FreeHits
        /\ tool' = IF stage' = "freed" THEN "exit" ELSE "hits"
        /\ UNCHANGED replayVars

Load == tool = "load" /\ ReplayNext /\ UNCHANGED <<hitsVars, tool>>

ToolInit == ReplayInit /\ HitsInit /\ tool = "load"
ToolNext == Load \/ LoadReturns \/ Lookup \/ ComputeHits \/ Free
ToolSpec == ToolInit /\ [][ToolNext]_toolVars /\ WF_toolVars(ToolNext)

-----------------------------------------------------------------------------
\* A replay the code supports: whole, with rows to judge, of a mode it has a
\* function for, and whose beatmap is known.
Supported ==
  /\ file.sound /\ file.lifeOk /\ file.len > RowsOffset(file)
  /\ Len(file.rows) >= 3 /\ \A i \in 1..Len(file.rows) : file.rows[i].ok
  /\ file.mode \in {Std, Taiko} /\ file.mode = file.map.mode
  /\ file.map.objects # << >> /\ file.mapLoads

\* The tool judges every object of a replay it supports and frees what it
\* allocated, unless it runs out of presses before it runs out of objects: no
\* read, row, frame or press is lost between the file and the hits
\* (parse_replay.c:main).
EveryObjectJudged ==
  Supported ~> /\ Len(task.rows) = Len(file.rows)
               /\ \/ /\ tool = "exit" /\ Len(hits) = Len(file.map.objects)
                     /\ stage = "freed" /\ arrays = "freed"
                  \/ stage = "crashed" /\ frames # << >> /\ p = Len(keypress) + 1
=============================================================================
