----------------------------- MODULE MCClients -----------------------------
(***************************************************************************)
(* The programs over libosux for TLC: parse_replay, the viewer and the     *)
(* editor, and the pictures that both draw.                                *)
(***************************************************************************)
EXTENDS ParseReplay, Viewer, Editor, Picture, TLC

VARIABLE which   \* the program

\* Rows of four frames, of which the first two and the last are left out.
MCKeySets == {{}, {1}, {1, 4}, {2, 4, 8, 16}}
Row(dt, keys) == [dt |-> dt, keys |-> keys, ok |-> TRUE]
MCRows == {<<Row(0, {}), Row(100, {}), Row(0, a), Row(d1, b), Row(d2, c), Row(0, {})>> :
             a \in {{}, {1, 4}}, b \in MCKeySets, c \in {{}, {1, 4}},
             d1 \in {0, 60, 300}, d2 \in {-50, 60}}

\* Beatmaps of two objects, at overall difficulty 10: windows of 20, 60, 100
\* and, for a miss, 250 milliseconds.
Obj(kind, time) == [kind |-> kind, time |-> time, end |-> time + 80]
MCObjects == {<<Obj(k1, 110), Obj(k2, t)>> :
                k1 \in {"circle", "slider", "spinner"}, k2 \in {"circle", "slider"},
                t \in {110, 330}}
MCMaps == {[mode |-> md, od |-> 10, objects |-> o] : md \in {Std, Taiko}, o \in MCObjects}

Whole(rows, map) ==
  [len |-> 100, strings |-> [n \in {"beatmap_hash", "player_name", "replay_hash", "life_graph"} |->
                               CASE n = "beatmap_hash" -> 2 [] n = "player_name" -> 1
                                 [] n = "replay_hash" -> -1 [] OTHER -> 3],
   lifeOk |-> TRUE, rows |-> rows, sound |-> TRUE, mode |-> map.mode, mods |-> {},
   map |-> map, mapLoads |-> TRUE]

SomeRows == <<Row(0, {}), Row(100, {}), Row(0, {1}), Row(90, {}), Row(9, {})>>
SomeMap == [mode |-> Std, od |-> 10, objects |-> <<Obj("circle", 110)>>]
Some == Whole(SomeRows, SomeMap)

\* Files cut anywhere, files that say the wrong thing, and files that are right.
MCFiles ==
  {Whole(rows, map) : rows \in MCRows, map \in MCMaps}
  \cup {[Some EXCEPT !.len = n] : n \in 0..55}
  \cup {[Some EXCEPT !.mods = m] : m \in SUBSET {"EZ", "HR", "DT", "HT"}}
  \cup {[Some EXCEPT !.lifeOk = FALSE], [Some EXCEPT !.sound = FALSE],
        [Some EXCEPT !.mapLoads = FALSE], [Some EXCEPT !.map = NoTask.map],
        [Some EXCEPT !.map.objects = << >>],
        [Some EXCEPT !.rows[2].ok = FALSE], [Some EXCEPT !.rows = SubSeq(SomeRows, 1, 2)]}
  \cup {[Some EXCEPT !.mode = m, !.map.mode = m2] : m \in 0..4, m2 \in 0..3}
-----------------------------------------------------------------------------
\* For the viewer: a beatmap whose objects are apart but out of order, one with
\* a circle during a slider, one that cannot be read; replays of the first.
Beat(path, ok, hash, objects) ==
  [path |-> path, ok |-> ok, hash |-> hash, objects |-> objects, rate |-> 90, length |-> 2]
At(time, end) == [time |-> time, end |-> end]
MCBeatmapFiles ==
  {Beat("a", TRUE, "h1", <<At(1300, 1300), At(0, 300), At(600, 1000)>>),
   Beat("b", TRUE, "h2", <<At(0, 900), At(800, 800)>>), Beat("c", FALSE, "h1", << >>)}
MCReplayFiles ==
  {[ok |-> TRUE, hash |-> "h1", mods |-> {}], [ok |-> TRUE, hash |-> "h1", mods |-> {"HR", "DT"}],
   [ok |-> FALSE, hash |-> "h1", mods |-> {}]}

\* For the editor: events of each type, with loops and triggers, objects out of
\* order; a command with several keyframes, one with an easing; files that are
\* refused, for their events or not, with and without an easing before; a file
\* with no object.
Edited(path, ok, objects, events) ==
  [path |-> path, ok |-> ok, hitobjects |-> objects, timingpoints |-> <<0, 900>>,
   bookmarks |-> <<5>>, colors |-> <<2, 1>>, events |-> events]
Line(level, fields) == [level |-> level, fields |-> fields]
Storyboard ==
  <<Line(0, <<"Sprite", "Fail", "Centre", "s.png", 320, 240>>),
      Line(1, <<"L", 100, 3>>), Line(2, <<"F", 0, 0, 50, 1>>), Line(2, <<"S", 0, 0, Blank, 1, 2>>),
      Line(1, <<"M", 0, 300, 400, 1, 2, 3, 4>>), Line(1, <<"V", 0, 300, 400, 5, 6>>),
    Line(0, <<"BreakPeriod", 500, 900>>),
    Line(0, <<"BackgroundImage", 900, "b.png">>),
      Line(1, <<"T", "Passing", 700, 800>>),
        Line(2, <<"C", 0, 0, 10, 1, 2, 3>>), Line(2, <<"P", 0, 0, Blank, "H">>),
      Line(1, <<"R", 0, 950, 990, 7, 8>>)>>
OtherLines ==
  <<Line(0, <<"Video", 10, "v.avi">>), Line(0, <<"BackgroundColour", 0, 1, 2, 3>>),
    Line(0, <<"Animation", "Pass", "TopLeft", "a.png", 0, 1, 2, 3>>),
      Line(1, <<"MX", 0, 0, 10, 1, 2, 3, 4>>), Line(1, <<"MY", 0, 0, 10, 1>>),
    Line(0, <<"Sample", 20, "Pass", "s.wav">>)>>
EasedLines == SubSeq(OtherLines, 1, 3) \o <<Line(1, <<"MX", 2, 0, 10, 1>>)>>
NotEnough == Line(1, <<"M", 0, 950, 990, 7, 8, 9>>)
MCEditedFiles ==
  {Edited("x", TRUE, <<At(1300, 1300), At(0, 300), At(600, 1000)>>, Storyboard),
   Edited("y", TRUE, <<At(0, 900), At(800, 800)>>, OtherLines),
   Edited("eased", TRUE, <<At(0, 0)>>, EasedLines),
   Edited("refused", TRUE, <<At(0, 0)>>, Append(OtherLines, NotEnough)),
   Edited("refused, eased", FALSE, <<At(0, 0)>>, EasedLines),
   Edited("empty", TRUE, << >>, << >>)}

\* For the pictures: every kind of path, in passes of whole milliseconds or not.
P(x, y) == [x |-> x, y |-> y]
MCPaths ==
  {[type |-> "L", round |-> FALSE, points |-> <<P(0, 0), P(0, 24)>>],
   [type |-> "P", round |-> FALSE, points |-> <<P(40, 0), P(20, 0), P(10, 0)>>],
   [type |-> "B", round |-> FALSE, points |-> <<P(0, 0), P(10, 0), P(10, 0), P(10, 30)>>],
   [type |-> "B", round |-> FALSE, points |-> <<P(0, 0), P(0, 9), P(0, 20), P(0, 20), P(50, 20), P(50, 20), P(50, 10), P(50, 0), P(50, -20)>>],
   [type |-> "B", round |-> FALSE, points |-> <<P(0, 0), P(20, 0), P(40, 0), P(60, 0), P(80, 0), P(80, 0), P(80, 0)>>]}
  \cup {[type |-> "P", round |-> TRUE, points |-> a] :
          a \in {b \in [1..3 -> 0..5] : b[1] # b[2] /\ b[1] # b[3] /\ b[2] # b[3]}}
IdleObject == [kind |-> "slider", type |-> "L", round |-> FALSE,
               points |-> <<P(0, 0), P(0, 24)>>, time |-> 0, end |-> 5, repeat |-> 1]
MCPictured ==
  {[kind |-> "slider", type |-> path.type, round |-> path.round, points |-> path.points,
    time |-> 0, end |-> t, repeat |-> n] : path \in MCPaths, n \in 1..4, t \in {7, 12}}
  \cup {[kind |-> "slider", type |-> "C", round |-> FALSE, points |-> <<P(0, 0), P(1, 1)>>,
         time |-> 0, end |-> 3, repeat |-> 1], IdleObject}
  \cup {[kind |-> k, type |-> "", round |-> FALSE, points |-> <<P(0, 0)>>,
         time |-> 0, end |-> IF k = "circle" THEN 0 ELSE 3, repeat |-> 1] :
           k \in {"circle", "spinner"}}

MCVars == <<toolVars, viewerVars, editorVars, pictureVars, which>>

MCInit ==
  /\ which \in {"tool", "viewer", "editor", "picture"}
  /\ which # "tool" => file = [Some EXCEPT !.mapLoads = FALSE]
  /\ which # "picture" => ho = IdleObject
  /\ ToolInit /\ ViewerInit /\ EditorInit /\ PictureInit

ParseReplayNext ==
  which = "tool" /\ ToolNext /\ UNCHANGED <<viewerVars, editorVars, pictureVars, which>>
VosuNext ==
  which = "viewer" /\ ViewerNext /\ UNCHANGED <<toolVars, editorVars, pictureVars, which>>
EdosuNext ==
  which = "editor" /\ EditorNext /\ UNCHANGED <<toolVars, viewerVars, pictureVars, which>>
DrawNext ==
  which = "picture" /\ PictureNext /\ UNCHANGED <<toolVars, viewerVars, editorVars, which>>

MCNext == ParseReplayNext \/ VosuNext \/ EdosuNext \/ DrawNext
MCSpec == MCInit /\ [][MCNext]_MCVars /\ WF_MCVars(ParseReplayNext) /\ ViewerFairness
=============================================================================
