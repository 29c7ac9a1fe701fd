-------------------------------- MODULE Hits --------------------------------
(***************************************************************************)
(* The hits of a replay: osux_hits_init and osux_hits_free in              *)
(* lib/replay/hit.c.  The rows of the replay become frames, the frames key *)
(* presses, and the objects of the beatmap are matched to the presses one  *)
(* after the other, with a pointer that only moves forwards.               *)
(*                                                                         *)
(* Times are milliseconds; windows are thirtieths of one, so that dividing *)
(* by the speed of a mod stays exact.  Keys are the sets of their bits.    *)
(***************************************************************************)
EXTENDS Integers, Sequences, SequencesExt, FiniteSetsExt, Subseqs

VARIABLES
  task,     \* what osux_hits_init was given: [mode, mods, map, rows]
  frames,   \* hits->data
  keypress, \* hits->keypress, the releases too
  p,        \* p_keypress, from 1; Len(keypress) + 1 is keypresses_end and after
  hits,     \* hits->hits, as far as it is filled
  arrays,   \* what the array pointers of hits are: "null", "live" or "freed"
  stage,    \* osux_hits_init: where it is, or how it ended
  taken     \* ghost: the press that judged each object, 0 for none, -1 for
            \* one read past the end

hitsVars == <<task, frames, keypress, p, hits, arrays, stage, taken>>

Std == 0
Taiko == 1
MaxGameMode == 4
NoTask == [mode |-> Std, mods |-> {}, rows |-> << >>,
           map |-> [mode |-> Std, od |-> 0, objects |-> << >>]]

-----------------------------------------------------------------------------
(***************************************************************************)
(* The windows.                                                            *)
(***************************************************************************)

BaseWindow == [t300 |-> 80, t100 |-> 140, t50 |-> 200, miss |-> 370]
StepWindow == [t300 |-> 6, t100 |-> 8, t50 |-> 10, miss |-> 12]

\* osux_get_hit_windows: overall difficulty in tenths, then the window.
Difficulty10 == CASE "EZ" \in task.mods -> 5 * task.map.od
                  [] "EZ" \notin task.mods /\ "HR" \in task.mods ->
                       Min({100, 14 * task.map.od})
                  [] OTHER -> 10 * task.map.od
Window(t) == (10 * BaseWindow[t] - StepWindow[t] * Difficulty10)
             * (CASE "DT" \in task.mods -> 2
                  [] "DT" \notin task.mods /\ "HT" \in task.mods -> 4
                  [] OTHER -> 3)

-----------------------------------------------------------------------------
(***************************************************************************)
(* Frames and key presses.                                                 *)
(***************************************************************************)

\* osux_hits_compute_data: the first two rows and the last one left out, sorted
\* by time, after a frame of zeros.  qsort puts equal times in any order.
Frames(rows) ==
  LET kept == SubSeq(rows, 3, Len(rows) - 1)
      D    == 1..Len(kept)
      perm == {f \in [D -> D] : \A i, j \in D : i < j =>
                 /\ f[i] # f[j]
                 /\ kept[f[i]].time <= kept[f[j]].time}
  IN  { <<[time |-> 0, keys |-> {}]>> \o [i \in D |-> kept[f[i]]] : f \in perm }

\* The bits of HIT_KEY; SMOKE is not one of them.
HitKey == <<1, 2, 4, 8>>

\* osux_hits_compute_keypress: one entry for each bit that changes between two
\* frames, the lowest bit first.
Changes(was, is) ==
  LET diff == Kept(HitKey, {k \in DOMAIN HitKey : (HitKey[k] \in was.keys) # (HitKey[k] \in is.keys)})
  IN  [k \in 1..Len(diff) |->
         [time |-> is.time, key |-> diff[k], release |-> diff[k] \notin is.keys]]
Keypresses(fs) == FlattenSeq([i \in 1..Len(fs) - 1 |-> Changes(fs[i], fs[i + 1])])

\* keypress_remove_doubles: an entry is left out when it and the one before are
\* the two bits of KEY_LEFT or of KEY_RIGHT, at once.
Double(a, b) == /\ a.time = b.time /\ a.release = b.release
                /\ {a.key, b.key} \in {{1, 4}, {2, 8}}
WithoutDoubles(kp) == Kept(kp, {i \in DOMAIN kp : i = 1 \/ ~Double(kp[i - 1], kp[i])})

-----------------------------------------------------------------------------
(***************************************************************************)
(* Matching.                                                               *)
(***************************************************************************)

K == 1..Len(keypress)
Objects == task.map.objects

\* 30 times time_distance: of press q from object o.
Distance(q, o) == 30 * (keypress[q].time - o.time)

\* The presses that are skipped for object o: releases, and presses too early
\* even for a miss (standard) or for a 50 (taiko).
TooEarly(q, o) == Distance(q, o) < -Window(IF task.mode = Std THEN "miss" ELSE "t50")
Skipped(q, o) == keypress[q].release \/ TooEarly(q, o)
FirstPress(o) == Min({q \in K : q >= p /\ ~Skipped(q, o)} \cup {Len(keypress) + 1})

\* What needs no judgement: spinners, and in taiko sliders.
FreeWin(o) == o.kind = "spinner" \/ (task.mode = Taiko /\ o.kind = "slider")

Abs(n) == IF n < 0 THEN -n ELSE n

Verdict(type, hitted) == [type |-> type, hitted |-> hitted]

\* get_hit_type_std, get_hit_type_taiko.
TypeAt(d) == CASE d < Window("t300") -> "300"
               [] d >= Window("t300") /\ task.mode = Std /\ d < Window("t100") -> "100"
               [] d >= Window("t100") /\ task.mode = Std /\ d < Window("t50") -> "50"
               [] d >= Window("t300") /\ task.mode = Taiko /\ d < Window("t50") -> "100"
               [] OTHER -> "miss"

\* The verdict on object o from press q, and where the pointer goes.  (Mutant
\* NextAnyway: a press is used up by the object that it is too late for.)
NextAnyway(q, o) == q + 1
LateSlider(q, o) == task.mode = Std /\ o.kind = "slider" /\ Distance(q, o) < Window("miss")
AfterPress(q, o) ==
  IF FreeWin(o)
  THEN Min({s \in K : s >= q /\ keypress[s].time >= o.end} \cup {Len(keypress) + 1})
  ELSE IF Distance(q, o) <= Window("t50") \/ LateSlider(q, o) THEN q + 1 ELSE q
VerdictOf(q, o) ==
  CASE FreeWin(o) -> Verdict("300", TRUE)
    [] ~FreeWin(o) /\ Distance(q, o) > Window("t50") ->
         IF LateSlider(q, o) THEN Verdict("300", TRUE) ELSE Verdict("miss", FALSE)
    [] OTHER -> Verdict(IF o.kind = "circle" THEN TypeAt(Abs(Distance(q, o))) ELSE "300", TRUE)

\* The next object, when a press is left for it.
Judge ==
  /\ stage = "objects" /\ Len(hits) < Len(Objects)
  /\ LET o == Objects[Len(hits) + 1]
         q == FirstPress(o)
     IN  /\ q \in K
         /\ hits' = Append(hits, VerdictOf(q, o))
         /\ p' = AfterPress(q, o)
         /\ taken' = Append(taken, IF ~FreeWin(o) /\ VerdictOf(q, o).hitted THEN q ELSE 0)
  /\ UNCHANGED <<task, frames, keypress, arrays, stage>>

\* The next object, when no press is left: the loop that skips presses compares
\* with keypresses_end for releases only, and reads on.  What is there decides,
\* and the loop may leave the memory of the program.
PastTheEnd(o) == CASE FreeWin(o) -> {Verdict("300", TRUE)}
                   [] ~FreeWin(o) /\ o.kind = "circle" ->
                        {Verdict(t, TRUE) : t \in {"300", "100", "miss"}}
                        \cup {Verdict("miss", FALSE)}
                   [] OTHER -> {Verdict("300", TRUE), Verdict("miss", FALSE)}
JudgePastEnd ==
  /\ stage = "objects" /\ Len(hits) < Len(Objects)
  /\ LET o == Objects[Len(hits) + 1] IN
     /\ FirstPress(o) \notin K
     /\ p' = Len(keypress) + 1
     /\ \/ /\ hits' \in {Append(hits, v) : v \in PastTheEnd(o)}
           /\ taken' = Append(taken, -1)
           /\ UNCHANGED stage
        \/ stage' = "crashed" /\ UNCHANGED <<hits, taken>>
  /\ UNCHANGED <<task, frames, keypress, arrays>>

-----------------------------------------------------------------------------
(***************************************************************************)
(* osux_hits_init and osux_hits_free.                                      *)
(***************************************************************************)

\* The task t is given; only the replay's own mode is accepted.
BeginHits(t) ==
  /\ stage = "idle"
  /\ task' = t
  /\ stage' = IF t.mode >= MaxGameMode \/ t.mode # t.map.mode THEN "error" ELSE "rows"
  /\ UNCHANGED <<frames, keypress, p, hits, arrays, taken>>

\* data_count - 2 and data_count - 3 are computed in size_t: with fewer than
\* three rows the allocation or the copy is of nearly all the memory there is.
ComputeData ==
  /\ stage = "rows"
  /\ IF Len(task.rows) < 3
     THEN stage' = "crashed" /\ UNCHANGED <<frames, arrays>>
     ELSE stage' = "frames" /\ frames' \in Frames(task.rows) /\ arrays' = "live"
  /\ UNCHANGED <<task, keypress, p, hits, taken>>

\* Then compute_mode, which has no function for the modes after taiko.
ComputeKeypress ==
  /\ stage = "frames"
  /\ \E all \in {Keypresses(frames)} :
       keypress' = IF task.mode \in {Std, Taiko} THEN WithoutDoubles(all) ELSE all
  /\ IF task.mode \in {Std, Taiko} THEN stage' = "objects" /\ UNCHANGED arrays
                                   ELSE stage' = "error" /\ arrays' = "freed"
  /\ UNCHANGED <<task, frames, p, hits, taken>>

\* A beatmap without objects leaves hits->hits NULL, which is an error.
EndHits ==
  /\ stage = "objects" /\ Len(hits) = Len(Objects)
  /\ IF Objects = << >> THEN stage' = "error" /\ arrays' = "freed"
                        ELSE stage' = "done" /\ UNCHANGED arrays
  /\ UNCHANGED <<task, frames, keypress, p, hits, taken>>

\* osux_hits_free leaves the pointers as they are: a second call frees again.
FreeHits ==
  /\ stage \in {"done", "error"}
  /\ IF arrays = "freed" THEN stage' \in {"crashed", "freed"} ELSE stage' = "freed"
  /\ arrays' = IF arrays = "live" THEN "freed" ELSE arrays
  /\ UNCHANGED <<task, frames, keypress, p, hits, taken>>

HitsInit ==
  /\ task = NoTask /\ frames = << >> /\ keypress = << >> /\ p = 1
  /\ hits = << >> /\ arrays = "null" /\ stage = "idle" /\ taken = << >>

HitsStep == ComputeData \/ ComputeKeypress \/ Judge \/ JudgePastEnd \/ EndHits

-----------------------------------------------------------------------------
(***************************************************************************)
(* Properties.                                                             *)
(***************************************************************************)

IsPress(q) == q \in K /\ ~keypress[q].release
InWindow(q, o) == IsPress(q) /\ Abs(Distance(q, o)) <= Window("t50")

\* The forward matching loses no press: as long as presses were left, an object
\* is missed only if every press in its window judged an object before it, or
\* was made before the end of a spinner that the player was on; and presses
\* judge objects in order, each one at most one (osux_hits_compute_hits_*).  The
\* first half asks for a beatmap whose objects are in the order of their times:
\* nothing in the code sorts them.
MissesExplained ==
  \A i \in 1..Len(hits) :
    /\ taken[i] > 0 => IsPress(taken[i]) /\ \A j \in 1..i - 1 : taken[j] < taken[i]
    /\ (taken[i] = 0 /\ ~hits[i].hitted /\ \A j \in 1..i : Objects[j].time <= Objects[i].time) =>
         \A q \in K : InWindow(q, Objects[i]) =>
           \E j \in 1..i - 1 : \/ taken[j] = q
                               \/ FreeWin(Objects[j]) /\ keypress[q].time < Objects[j].end

\* hit.c:304 says "if no keypress in the hit window, that's a miss": a circle
\* counts as hit only if some press of the replay is in its window.
NoPressIsAMiss ==
  \A i \in 1..Len(hits) :
    Objects[i].kind = "circle" /\ hits[i].hitted =>
      \E q \in K : IsPress(q) /\ Abs(Distance(q, Objects[i])) <= Window("miss")
=============================================================================
