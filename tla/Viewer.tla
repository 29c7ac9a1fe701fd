------------------------------- MODULE Viewer -------------------------------
(***************************************************************************)
(* The viewer, vosu: a beatmap, a replay of it, the view that draws both   *)
(* and the music player behind the view.                                   *)
(*                                                                         *)
(* Everything runs in one main loop, but a dialog runs a main loop of its  *)
(* own inside the call that shows it: while the user reads an error,       *)
(* another process may still ask for files to be opened (D-Bus "open"),    *)
(* frames are drawn and the messages of the player arrive.  The player is  *)
(* a GStreamer pipeline with threads of its own.                           *)
(***************************************************************************)
EXTENDS Integers, Sequences, SequencesExt, FiniteSets, Subseqs

CONSTANTS
  BeatmapFiles,  \* records [path, ok, hash, objects, rate, length]
  ReplayFiles,   \* records [ok, hash, mods]
  Places,        \* where on the range the user clicks
  Unit,          \* milliseconds between two places
  MaxLoads,      \* bound: files loaded and sequences copied
  MaxRefs,       \* bound: references counted on a sequence
  MaxDialogs,    \* bound: main loops inside the main loop
  MaxMessages    \* bound: messages of the player not handled yet

\* The objects of a beatmap are held by the application and twice by the view:
\* a bound on references below that would lose count of them.
ASSUME ViewerAssumption ==
  /\ MaxLoads \in Nat /\ MaxRefs \in Nat /\ MaxRefs >= 3 /\ Unit \in Int
  /\ \A place \in Places : place \in Int
  /\ \A f \in BeatmapFiles :
       /\ f.rate \in Int /\ f.length \in Nat
       /\ IsFiniteSet(DOMAIN f.objects)
       /\ \A i \in DOMAIN f.objects : f.objects[i].time \in Int /\ f.objects[i].end \in Int

None == 0        \* no beatmap, no replay, no sequence

VARIABLES
  app,       \* [beatmap, replay: what is loaded; button: "close replay" is shown]
  view,      \* [on, objects, shown, mods, cursor, playing, tick, adjust, length]
  refs,      \* the references on each sequence of objects or of frames
  loads,     \* how many sequences were made
  calls,     \* the calls that wait for a dialog, the last one on top
  player,    \* [id, state, target, early, at]: the pipeline and its early seek
  bus        \* messages of pipelines for the main loop: records [id, what]

viewerVars == <<app, view, refs, loads, calls, player, bus>>

Nothing == [seq |-> None]
NoView == [on |-> FALSE]

-----------------------------------------------------------------------------
(* What is drawn: the objects in the order of their ends.                  *)

\* g_sequence_sort with sort_object_end_offset.
ByEnd(objects) == LET all == {objects[i] : i \in DOMAIN objects}
                  IN  ByKey(all, [o \in all |-> o.end])

\* Milliseconds between an object's appearance and its time; rate in tenths.
ApproachTime(rate, mods) ==
  LET ar == CASE "EZ" \in mods -> rate \div 2
              [] "HR" \in mods -> IF 14 * rate > 1000 THEN 100 ELSE (14 * rate) \div 10
              [] OTHER -> rate
      time == IF ar > 50 THEN 1200 - 15 * (ar - 50) ELSE 1800 - 12 * ar
  IN  CASE "DT" \in mods -> (2 * time) \div 3 [] "HT" \in mods -> (4 * time) \div 3
        [] OTHER -> time

CanDraw(o, now, approach) == o.time - now < approach /\ o.end - now >= 0

\* g_sequence_search gives the place after the objects that ended before now;
\* the loop stops at the first object there that cannot be drawn.
Drawn(objects, now, approach) ==
  {i \in DOMAIN objects :
     /\ objects[i].end > now - 1
     /\ \A j \in 1..i : objects[j].end > now - 1 => CanDraw(objects[j], now, approach)}

-----------------------------------------------------------------------------
(* References on the sequences of objects and of frames.                   *)

Add(r, s, n) == [r EXCEPT ![s] = IF @ + n > MaxRefs THEN MaxRefs ELSE @ + n]
SequenceRef(r, s) == Add(r, s, 1)
SequenceUnref(r, s) == Add(r, s, 1)   \* the macro takes a reference too
Clear(r, s) == IF s = None THEN r ELSE Add(r, s, -1)

\* The view goes with its page: its player stops, and stopping it flushes its
\* bus.
DisposeView(r) ==
  IF view.on THEN Clear(Clear(r, view.objects), view.shown) ELSE r
StopPipeline == bus' = Kept(bus, {i \in DOMAIN bus : view.on => bus[i].id # player.id})
NewPlayer(id) == player' = [id |-> id, state |-> "ready", target |-> "ready",
                            early |-> 0, at |-> 0]

CloseBeatmap ==
  /\ view' = NoView
  /\ refs' = Clear(Clear(DisposeView(refs), app.beatmap.seq), app.replay.seq)
  /\ app' = [app EXCEPT !.beatmap = Nothing, !.replay = Nothing]
  /\ StopPipeline

\* (Mutant SetBeatmapOver: the beatmap that was open is not closed first.)
SetBeatmapOver(f, seq) ==
  /\ refs' = SequenceRef(SequenceRef([DisposeView(refs) EXCEPT ![seq] = 1], seq), seq)
  /\ view' = [on |-> TRUE, objects |-> seq, shown |-> seq, mods |-> {}, cursor |-> None,
              playing |-> FALSE, tick |-> FALSE, adjust |-> 0, length |-> f.length]
  /\ app' = [app EXCEPT !.beatmap = [seq |-> seq, file |-> f]]
  /\ StopPipeline /\ NewPlayer(seq)

\* The beatmap that was open is closed, and a new view shows the new one.
SetBeatmap(f, seq) ==
  /\ LET closed == IF app.beatmap = Nothing THEN refs
                   ELSE Clear(Clear(DisposeView(refs), app.beatmap.seq), app.replay.seq)
     IN  refs' = SequenceRef(SequenceRef([closed EXCEPT ![seq] = 1], seq), seq)
  /\ view' = [on |-> TRUE, objects |-> seq, shown |-> seq, mods |-> {}, cursor |-> None,
              playing |-> FALSE, tick |-> FALSE, adjust |-> 0, length |-> f.length]
  /\ app' = [app EXCEPT !.beatmap = [seq |-> seq, file |-> f], !.replay = Nothing]
  /\ StopPipeline /\ NewPlayer(seq)

\* The view of a replay: its frames, and the objects under its mods.
SetReplayProperties(cursor, mods, r) ==
  /\ loads' = IF mods # {} THEN loads + 1 + (IF cursor = None THEN 0 ELSE 1)
              ELSE loads + (IF cursor = None THEN 0 ELSE 1)
  /\ LET shown == IF mods # {} THEN loads' ELSE view.objects
     IN  /\ view' = [view EXCEPT !.cursor = cursor, !.mods = mods, !.shown = shown]
         /\ refs' = SequenceUnref(IF mods # {} THEN [r EXCEPT ![shown] = 1]
                                  ELSE SequenceRef(r, shown), view.shown)

-----------------------------------------------------------------------------
(* The calls, and the dialogs they wait for.                               *)

\* A main loop runs: that of the program, or that of a dialog.
InLoop == calls # << >> => Last(calls).kind # "open"
Idle == calls = << >>
Return == calls' = Front(calls)

\* The bound leaves room for n more files, beside those the calls still have.
Room(n) == loads + n + FoldLeft(LAMBDA sum, c : IF c.kind = "open" THEN sum + Len(c.files)
                                                ELSE sum, 0, calls) <= MaxLoads

\* The user asks for a file to open, and answers or gives up.
OpenAction ==
  /\ Idle
  /\ calls' = Append(calls, [kind |-> "chooser"])
  /\ UNCHANGED <<app, view, refs, loads, player, bus>>
OpenAnswer ==
  /\ calls # << >> /\ Last(calls).kind = "chooser"
  /\ \/ \E f \in BeatmapFiles : Room(1) /\ calls' = Append(Front(calls), [kind |-> "open", files |-> <<f>>])
     \/ Return
  /\ UNCHANGED <<app, view, refs, loads, player, bus>>

\* Another process passes its files on to this one.
ApplicationOpen ==
  /\ InLoop /\ Len(calls) < MaxDialogs /\ Room(2)
  /\ \E f, g \in BeatmapFiles :
       calls' = Append(calls, [kind |-> "open", files |-> <<f, g>>])
  /\ UNCHANGED <<app, view, refs, loads, player, bus>>

\* The next file of the call; a file that cannot be read is kept until the
\* dialog that says so is closed.
OpenBeatmap ==
  /\ calls # << >> /\ Last(calls).kind = "open"
  /\ LET files == Last(calls).files
         rest == Append(Front(calls), [kind |-> "open", files |-> Tail(files)])
         f == Head(files)
     IN  IF files = << >> THEN Return /\ UNCHANGED <<app, view, refs, loads, player, bus>>
         ELSE IF app.beatmap # Nothing /\ app.beatmap.file.path = f.path
         THEN calls' = rest /\ UNCHANGED <<app, view, refs, loads, player, bus>>
         ELSE /\ loads' = loads + 1
              /\ IF f.ok THEN SetBeatmap(f, loads + 1) /\ calls' = rest
                 ELSE /\ calls' = Append(rest, [kind |-> "error", seq |-> loads + 1])
                      /\ refs' = [refs EXCEPT ![loads + 1] = 1]
                      /\ UNCHANGED <<app, view, player, bus>>

DismissError ==
  /\ calls # << >> /\ Last(calls).kind = "error"
  /\ refs' = Clear(refs, Last(calls).seq)
  /\ Return
  /\ UNCHANGED <<app, view, loads, player, bus>>

CloseAction ==
  /\ Idle /\ app.beatmap # Nothing
  /\ CloseBeatmap
  /\ UNCHANGED <<loads, calls, player>>

\* A replay is chosen: it has to be readable, and of this beatmap.
OpenReplay ==
  \E f \in ReplayFiles :
    LET seq == loads + 1
        error(s) == calls' = Append(calls, [kind |-> "error", seq |-> s])
    IN
    /\ Idle
    /\ \/ /\ app.beatmap = Nothing
          /\ error(None)
          /\ UNCHANGED <<app, view, refs, loads>>
       \/ /\ app.beatmap # Nothing /\ Room(2)
          /\ ~f.ok \/ f.hash # app.beatmap.file.hash
          /\ error(seq) /\ loads' = seq /\ refs' = [refs EXCEPT ![seq] = 1]
          /\ UNCHANGED <<app, view>>
       \/ /\ app.beatmap # Nothing /\ Room(2)
          /\ f.ok /\ f.hash = app.beatmap.file.hash
          /\ app' = [app EXCEPT !.replay = [seq |-> seq, file |-> f], !.button = TRUE]
          /\ SetReplayProperties(seq, f.mods, [Clear(refs, app.replay.seq) EXCEPT ![seq] = 1])
          /\ calls' = calls
    /\ UNCHANGED <<player, bus>>

CloseReplay ==
  /\ Idle /\ app.button
  /\ app' = [app EXCEPT !.button = FALSE,
                        !.replay = IF app.beatmap = Nothing THEN @ ELSE Nothing]
  /\ IF app.beatmap = Nothing THEN UNCHANGED <<view, refs, loads>>
     ELSE SetReplayProperties(None, {}, Clear(refs, app.replay.seq))
  /\ UNCHANGED <<calls, player, bus>>

-----------------------------------------------------------------------------
(* The player.                                                             *)

\* A seek while nothing is decoded is kept for later; one that succeeds has
\* the pipeline fill its buffers again.
Seek(p, offset) ==
  IF p.state \in {"paused", "playing"} THEN [p EXCEPT !.at = offset, !.state = "paused"]
  ELSE [p EXCEPT !.early = offset]

\* gst_element_set_state: going down is done at once, going up takes a while.
SetState(p, s) ==
  CASE s = "ready" -> [p EXCEPT !.state = "ready", !.target = "ready"]
    [] s = "paused" /\ p.state = "playing" -> [p EXCEPT !.state = "paused", !.target = "paused"]
    [] OTHER -> [p EXCEPT !.target = s]

Pause == view' = [view EXCEPT !.playing = FALSE, !.tick = FALSE]

PlayClicked ==
  /\ Idle /\ view.on /\ ~view.playing
  /\ view' = [view EXCEPT !.playing = TRUE, !.tick = TRUE]
  /\ player' = SetState(player, "playing")
  /\ UNCHANGED <<app, refs, loads, calls, bus>>

PauseClicked ==
  /\ Idle /\ view.on /\ view.playing
  /\ Pause
  /\ player' = SetState(player, "paused")
  /\ UNCHANGED <<app, refs, loads, calls, bus>>

\* The range is set to a place, and says so when it was elsewhere: at the end
\* of the beatmap, pause_clicked.
AdjustmentSet(place, p) ==
  LET at == IF place > view.length THEN view.length ELSE place
      ends == at # view.adjust /\ at >= view.length /\ view.playing
  IN  /\ view' = [view EXCEPT !.adjust = at, !.playing = @ /\ ~ends, !.tick = @ /\ ~ends]
      /\ player' = IF ends THEN SetState(p, "paused") ELSE p

RangeClicked ==
  /\ Idle /\ view.on
  /\ \E place \in Places : AdjustmentSet(place, Seek(player, place))
  /\ UNCHANGED <<app, refs, loads, calls, bus>>

\* animate_play, on a frame: the music is somewhere after its last seek.
AnimatePlay ==
  /\ InLoop /\ view.on /\ view.tick
  /\ \E at \in player.at..view.length : AdjustmentSet(at, player)
  /\ UNCHANGED <<app, refs, loads, calls, bus>>

\* A frame is drawn: what is shown is referenced, and never released.
Draw ==
  /\ InLoop /\ view.on
  /\ refs' = SequenceUnref(SequenceRef(refs, view.shown), view.shown)
  /\ UNCHANGED <<app, view, loads, calls, player, bus>>

\* The threads of the pipeline: its state climbs to the one asked for, and the
\* main loop is told when it plays.
StateChanges ==
  /\ view.on /\ player.state # player.target /\ Len(bus) < MaxMessages
  /\ player' = [player EXCEPT !.state = IF @ = "ready" THEN "paused" ELSE "playing"]
  /\ bus' = IF player.state = "ready" THEN bus
            ELSE Append(bus, [id |-> player.id, what |-> "playing"])
  /\ UNCHANGED <<app, view, refs, loads, calls>>

PipelineFails ==
  /\ view.on /\ player.state # "ready" /\ Len(bus) < MaxMessages
  /\ bus' = Append(bus, [id |-> player.id, what |-> "error"])
  /\ UNCHANGED <<app, view, refs, loads, calls, player>>

\* finished_cb, called by the decoder's thread at the end of the music.
Finished ==
  /\ view.on /\ player.state = "playing"
  /\ player' = SetState(player, "paused")
  /\ UNCHANGED <<app, view, refs, loads, calls, bus>>

\* (Mutant MessageKeeps: the early seek is not forgotten when it is done.)
MessageKeeps ==
  /\ InLoop /\ bus # << >>
  /\ bus' = Tail(bus)
  /\ player' = CASE Head(bus).what = "error" -> SetState(player, "ready")
                 [] Head(bus).what = "playing" /\ player.early # 0 -> Seek(player, player.early)
                 [] OTHER -> player
  /\ UNCHANGED <<app, view, refs, loads, calls>>

\* message_cb: an error stops the pipeline, and the early seek is done when it
\* plays.
Message ==
  /\ InLoop /\ bus # << >>
  /\ bus' = Tail(bus)
  /\ player' = CASE Head(bus).what = "error" -> SetState(player, "ready")
                 [] Head(bus).what = "playing" /\ player.early # 0 ->
                      [Seek(player, player.early) EXCEPT !.early = 0]
                 [] OTHER -> player
  /\ UNCHANGED <<app, view, refs, loads, calls>>

-----------------------------------------------------------------------------
ViewerInit ==
  /\ app = [beatmap |-> Nothing, replay |-> Nothing, button |-> FALSE]
  /\ view = NoView
  /\ refs = [s \in 1..MaxLoads |-> 0]
  /\ loads = 0
  /\ calls = << >>
  /\ player = [id |-> None, state |-> "ready", target |-> "ready", early |-> 0, at |-> 0]
  /\ bus = << >>

ViewerNext ==
  \/ OpenAction \/ OpenAnswer \/ ApplicationOpen \/ OpenBeatmap \/ DismissError
  \/ CloseAction \/ OpenReplay \/ CloseReplay
  \/ PlayClicked \/ PauseClicked \/ RangeClicked \/ AnimatePlay \/ Draw
  \/ StateChanges \/ PipelineFails \/ Finished \/ Message

\* GStreamer carries out what it is asked, a call that runs goes on, and the
\* main loop, however often calls keep it waiting, comes to every message.
ViewerFairness ==
  /\ SF_viewerVars(StateChanges) /\ SF_viewerVars(Message)
  /\ WF_viewerVars(OpenBeatmap)

ViewerSpec == ViewerInit /\ [][ViewerNext]_viewerVars /\ ViewerFairness

-----------------------------------------------------------------------------
Held(seq) ==
  Cardinality({h \in {"beatmap", "replay"} : app[h].seq = seq})
    + (IF view.on THEN Cardinality({h \in {"objects", "shown"} : view[h] = seq}) ELSE 0)

\* Every object that is visible at a time is drawn then, and no other, as long
\* as no object of the beatmap begins before another one ends, nor ends before
\* it begins itself.
DrawnIsVisible(f, mods) ==
  LET objects == ByEnd(f.objects)
      approach == ApproachTime(f.rate, mods)
      apart == /\ \A i \in DOMAIN objects : objects[i].time <= objects[i].end
               /\ \A i, j \in DOMAIN objects : i < j => objects[i].end <= objects[j].time
  IN  apart => \A place \in 0..f.length :
        Drawn(objects, place * Unit, approach)
          = {i \in DOMAIN objects : CanDraw(objects[i], place * Unit, approach)}

\* What the view shows is what the application has: a view is there when a
\* beatmap is; it draws that beatmap's objects, under the mods of the replay
\* and with the frames of the replay that is open; the replay is one of that
\* beatmap; nothing the view or the application points to was freed; the
\* frames are asked for exactly while it plays; no message waits for a player
\* that is gone; and a frame would show all that is visible.  (vosu-app.c,
\* vosu-view.c and the reference counts of vosu-sequence.h, whatever is opened
\* or closed, in whatever loop.)
ViewIsCurrent ==
  /\ view.on <=> app.beatmap # Nothing
  /\ app.replay # Nothing =>
       app.beatmap # Nothing /\ app.replay.file.hash = app.beatmap.file.hash
  /\ view.on =>
       /\ view.objects = app.beatmap.seq
       /\ view.cursor = app.replay.seq
       /\ view.mods = (IF app.replay = Nothing THEN {} ELSE app.replay.file.mods)
       /\ (view.shown = view.objects) <=> (view.mods = {})
       /\ view.playing <=> view.tick
  /\ \A seq \in 1..MaxLoads : refs[seq] >= (IF Held(seq) > MaxRefs THEN MaxRefs ELSE Held(seq))
  /\ \A i \in DOMAIN bus : view.on /\ bus[i].id = player.id
  /\ view.on => DrawnIsVisible(app.beatmap.file, view.mods)

\* A seek made before the music was started is done once the music plays,
\* unless the music is stopped or the beatmap closed first.  (The comment of
\* message_cb in vosu-player.c.)
EarlySeekHappens ==
  (view.on /\ player.early # 0 /\ player.target = "playing")
    ~> (player.early = 0 \/ player.target # "playing" \/ ~view.on)
=============================================================================
