------------------------------ MODULE Beatmap ------------------------------
(***************************************************************************)
(* Loading a beatmap (lib/beatmap): osux_beatmap_init reads a .osu file    *)
(* line by line into four arrays and prepares them; a standard beatmap may *)
(* then be converted to taiko, which prepares it again; osux_beatmap_free  *)
(* releases it.  The programs load one beatmap after the other (the main   *)
(* thread does in taiko_ranking) and free each before the next.  What is   *)
(* left of one is event_stack, a static array of event.c.                  *)
(*                                                                         *)
(* A line is what its parser makes of it.  Only colours are reached by     *)
(* pointers while their array still grows, so only they have addresses.    *)
(* Undefined behaviour and failed assertions stop the process.  Times are  *)
(* integers: lengths are in twentieths of a beat.                          *)
(***************************************************************************)
EXTENDS Integers, SequencesExt, Subseqs

CONSTANTS
  Queues,    \* the sequences of files the program may be given
  ColourCap, \* the first size of the array of colours (20)
  MaxLevel   \* EVENT_MAX_STACK_SIZE (200)

VARIABLES
  todo,    \* the files still to load
  file,    \* the last one that was opened
  stage,   \* where the program is
  line,    \* how many lines, then how many events, are done
  section, \* section_name
  bm,      \* the osux_beatmap
  event_stack, \* event_stack[l]: the last event of level l
  loads    \* the number of loads so far, which tells beatmaps apart

vars == <<todo, file, stage, line, section, bm, event_stack, loads>>

\* The section in which each kind of line belongs.
SectionOf == [tp |-> "TimingPoints", ho |-> "HitObjects", event |-> "Events", colour |-> "Colours"]
ObjectSections == {SectionOf[k] : k \in DOMAIN SectionOf}
NoSection == "NULL"

\* What the parsers make of a line: "broken" is one that no section of objects has.
\* Only sliders have a length, and one is played at least once; what is indented is
\* a command.
Lines ==
  [k : {"blank", "option", "broken", "unreadable"}]
    \cup [k : {"section"}, name : ObjectSections \cup {"other"}]
    \cup [k : {"tp"}, offset : Int, inherited : BOOLEAN, v : Nat \ {0}]
    \cup [k : {"ho"}, type : {"circle", "spinner", "hold"}, nc : BOOLEAN, offset : Int, end : Int,
           len : {0}, repeat : {0}]
    \cup [k : {"ho"}, type : {"slider"}, nc : BOOLEAN, offset : Int, end : Int,
           len : Nat, repeat : Nat \ {0}]
    \cup [k : {"event"}, type : {"object"}, level : {0}, easing : {0}, offset : Int, end : Int]
    \cup [k : {"event"}, type : {"command", "loop", "trigger"}, level : Nat \ {0},
           easing : Nat, offset : Int, end : Int]
    \cup [k : {"colour"}, combo : BOOLEAN, id : Int]

Files ==
  [version : {"good", "bad", "none"}, mode : {"std", "taiko", "catch", "mania"},
   tick_rate : Nat \ {0}, lines : Seq(Lines)]

ASSUME BeatmapAssumption ==
  /\ Queues \subseteq Seq(Files)
  /\ ColourCap \in Nat /\ MaxLevel \in Nat \ {0}

NoEvent == [load |-> 0, at |-> 0]
NoRes == 0
NoColour == [block |-> 0, at |-> 0]
Indefinite == -1 \* what a cast makes of a number that is not finite

\* A beatmap after memset.  block is the address of the array of colours, owned
\* the objects whose points and hit sounds are allocated, orig (history) the objects
\* before the conversion, prepared (history) how often it was prepared.
Zero ==
  [load |-> 0, mode |-> "std", tick_rate |-> 1, hos |-> <<>>, tps |-> <<>>, evs |-> <<>>,
   cols |-> <<>>, cap |-> ColourCap, block |-> 1, combo_colours |-> <<>>,
   owned |-> {}, orig |-> <<>>, prepared |-> 0]

-----------------------------------------------------------------------------
(***************************************************************************)
(* parse_objects.                                                          *)
(***************************************************************************)
\* osux_open_text_file_reading and compute_metadata.  A file without any line has
\* no version either, which is not an error.
Open ==
  /\ stage = "idle" /\ todo # <<>>
  /\ LET f == Head(todo)
     IN /\ file' = f
        /\ bm' = [Zero EXCEPT !.load = loads + 1, !.mode = f.mode, !.tick_rate = f.tick_rate]
        /\ stage' = IF f.version = "bad" THEN "fail" ELSE "parse"
  /\ todo' = Tail(todo)
  /\ loads' = loads + 1
  /\ line' = 0
  /\ section' = NoSection
  /\ UNCHANGED event_stack

\* The line that is read next.
Reading(l) ==
  /\ stage = "parse" /\ line < Len(file.lines)
  /\ l = file.lines[line + 1]

\* It is done with, leaving b.
LineDone(b) ==
  /\ line' = line + 1
  /\ bm' = b
  /\ UNCHANGED <<todo, file, event_stack, loads>>

\* CHECK_OBJECT, the errors of osux_getline, and what is undefined.
Stop(s) ==
  /\ stage' = s
  /\ UNCHANGED <<todo, file, line, section, bm, event_stack, loads>>

\* Empty lines and comments; an option, even one without ":", is never an error.
SkipLine ==
  \E l \in ToSet(file.lines) :
    /\ Reading(l)
    /\ \/ l.k = "blank"
       \/ l.k # "section" /\ section \notin ObjectSections \cup {NoSection}
    /\ l.k # "unreadable"
    /\ LineDone(bm)
    /\ UNCHANGED <<stage, section>>

NewSection ==
  \E l \in ToSet(file.lines) :
    /\ Reading(l) /\ l.k = "section"
    /\ section' = l.name
    /\ LineDone(bm)
    /\ UNCHANGED stage

Unreadable ==
  \E l \in ToSet(file.lines) :
    /\ Reading(l) /\ l.k = "unreadable"
    /\ Stop("fail")

\* section_name is NULL until there is a section, and is compared with strcmp.
NoSectionYet ==
  \E l \in ToSet(file.lines) :
    /\ Reading(l) /\ l.k \notin {"blank", "section", "unreadable"}
    /\ section = NoSection
    /\ Stop("crash")

\* l is in the section it belongs to.
Belongs(l) == l.k \in DOMAIN SectionOf /\ SectionOf[l.k] = section

NewTp(l) == [offset |-> l.offset, inherited |-> l.inherited, v |-> l.v, base |-> 0]

\* A slider's end is set later.
NewHo(l, res) ==
  [type |-> l.type, nc |-> l.nc, offset |-> l.offset,
   end |-> IF l.type = "slider" THEN 0 ELSE l.end, len |-> l.len, repeat |-> l.repeat,
   tp |-> 0, colour |-> NoColour, id |-> 0, pos |-> 0, res |-> res]

NewEvent(l) ==
  [type |-> l.type, level |-> l.level, easing |-> l.easing, offset |-> l.offset,
   end |-> l.end, parent |-> NoEvent, childs |-> <<>>]

\* Timing points, hit objects and events: the object is in its array.
ObjectLine ==
  \E l \in ToSet(file.lines) :
    /\ Reading(l) /\ Belongs(l) /\ l.k # "colour"
    /\ LET b == bm
           res == Len(b.hos) + 1
       IN LineDone(
            CASE l.k = "tp"    -> [b EXCEPT !.tps = Append(@, NewTp(l))]
              [] l.k = "ho"    -> [b EXCEPT !.hos = Append(@, NewHo(l, res)), !.owned = @ \cup {res}]
              [] l.k = "event" -> [b EXCEPT !.evs = Append(@, NewEvent(l))])
    /\ UNCHANGED <<stage, section>>

\* Their parsers refuse the line, and the load fails.
RefusedLine ==
  \E l \in ToSet(file.lines) :
    /\ Reading(l) /\ l.k \notin {"blank", "section", "unreadable"}
    /\ section \in ObjectSections \ {"Colours"} /\ ~Belongs(l)
    /\ Stop("fail")

-----------------------------------------------------------------------------
(***************************************************************************)
(* Colours.  combo_colours is a list of pointers into the array.           *)
(***************************************************************************)

\* HANDLE_ARRAY_SIZE: realloc may move the array.
Grown(b) ==
  IF Len(b.cols) + 1 > b.cap
  THEN {[b EXCEPT !.cap = 2 * @ + 1, !.block = @ + moved] : moved \in {0, 1}}
  ELSE {b}

\* g_list_insert_sorted puts the i-th colour before the first one with an id that
\* is not smaller.  A pointer to where the array was tells nothing.
\* (Mutant PutLast: g_list_append.)
PutLast(b, i) == {Len(b.combo_colours) + 1}
Places(b, i) ==
  LET list == b.combo_colours
      all == 1..(Len(list) + 1)
  IN IF \E p \in ToSet(list) : p.block # b.block THEN all
     ELSE {Min({k \in all : k = Len(list) + 1 \/ b.cols[list[k].at].id >= b.cols[i].id})}

\* UPDATE_COMBO_COLOURS.
Listed(b, i) ==
  IF b.cols[i].combo
  THEN {[b EXCEPT !.combo_colours = InsertAt(@, k, [block |-> b.block, at |-> i])] :
          k \in Places(b, i)}
  ELSE {b}

\* COLOR_INIT, osux_beatmap_append_color.
WithColour(b, c) ==
  UNION {Listed([g EXCEPT !.cols = Append(@, c)], Len(b.cols) + 1) : g \in Grown(b)}

ColourLine ==
  \E l \in ToSet(file.lines) :
    /\ Reading(l) /\ Belongs(l) /\ l.k = "colour"
    /\ \E b \in WithColour(bm, [combo |-> l.combo, id |-> l.id]) : LineDone(b)
    /\ UNCHANGED <<stage, section>>

\* CHECK_COLOR ignores the line by counting one colour less, then goes on with the
\* colour before it, which is listed again; the first has none before.
IgnoredColour ==
  \E l \in ToSet(file.lines) :
    /\ Reading(l) /\ l.k \notin {"blank", "section", "unreadable"}
    /\ section = "Colours" /\ ~Belongs(l)
    /\ IF bm.cols = <<>>
       THEN Stop("crash")
       ELSE /\ \E g \in Grown(bm) : \E b \in Listed(g, Len(g.cols)) : LineDone(b)
            /\ UNCHANGED <<stage, section>>

\* prepare_colors: four combos if there is none.
WithCombo(some, id) == UNION {WithColour(b, [combo |-> TRUE, id |-> id]) : b \in some}
PreparedColours(b) ==
  IF \E c \in ToSet(b.cols) : c.combo THEN {b}
  ELSE WithCombo(WithCombo(WithCombo(WithCombo({b}, 1), 2), 3), 4)

-----------------------------------------------------------------------------
(***************************************************************************)
(* osux_beatmap_prepare.                                                   *)
(***************************************************************************)

\* osux_timingpoint_prepare: base is last_non_inherited.  When the first point is
\* inherited the loop stops there, and its error is lost.
PreparedTps(tps) ==
  IF tps = <<>> \/ tps[1].inherited THEN tps
  ELSE [i \in DOMAIN tps |->
         [tps[i] EXCEPT !.base = Max({j \in 1..i : ~tps[j].inherited})]]

\* The scan over the timing points goes on from one object to the next: the point
\* that applies to each of the objects (hos[0] stands for the start).
\* (Mutant Before: < for <=.)
Before(tp, ho) == tp.offset < ho.offset
AppliesTo(tp, ho) == tp.offset <= ho.offset
TpOf(b) ==
  LET n == Len(b.tps)
      tp[i \in 0..Len(b.hos)] ==
        IF i = 0 THEN 1
        ELSE Max({j \in tp[i - 1]..n : \A k \in (tp[i - 1] + 1)..j : AppliesTo(b.tps[k], b.hos[i])})
  IN tp

\* osux_combo_next, from the last colour of the list.
ComboOf(b) ==
  LET n == Len(b.combo_colours)
      combo[i \in 0..Len(b.hos)] ==
        IF i = 0 THEN [id |-> 0, pos |-> 0, current |-> n]
        ELSE LET last == combo[i - 1]
             IN IF b.hos[i].nc
                THEN [id |-> last.id + 1, pos |-> 1, current |-> (last.current % n) + 1]
                ELSE [last EXCEPT !.pos = @ + 1]
  IN combo

Unit == 20 \* lengths are in twentieths of a beat
Mpb(b, tp) == IF ~tp.inherited THEN tp.v ELSE IF tp.base = 0 THEN 0 ELSE b.tps[tp.base].v
Factor(tp) == IF tp.inherited THEN tp.v ELSE 1 \* -100 / slider_velocity_multiplier

\* How long a slider lasts (ho_slider_length).
Duration(b, ho, tp) == (ho.len * ho.repeat * Mpb(b, tp)) \div (Unit * Factor(tp))

\* compute_slider_end_offset: a point that was not prepared has no velocity.
SliderEnd(b, ho, tp) ==
  IF tp.base = 0 THEN Indefinite ELSE ho.offset + Duration(b, ho, tp)

\* prepare_hitobjects, osux_hitobject_prepare.
PreparedHos(b) ==
  LET tp == TpOf(b)
      combo == ComboOf(b)
      end(i) == IF b.hos[i].type = "slider" THEN SliderEnd(b, b.hos[i], b.tps[tp[i]])
                ELSE b.hos[i].end
  IN [b EXCEPT !.hos = [i \in DOMAIN b.hos |->
       [b.hos[i] EXCEPT
          !.tp = tp[i],
          !.end = end(i),
          !.colour = b.combo_colours[combo[i].current],
          !.id = combo[i].id,
          !.pos = combo[i].pos]]]

\* fetch_variables, and all of the preparation that touches nothing but the
\* beatmap.  With objects and no timing point, timingpoint_count - 1 wraps.
Prepare ==
  /\ \/ stage = "parse" /\ line = Len(file.lines)
     \/ stage = "again"
  /\ IF bm.hos # <<>> /\ bm.tps = <<>>
     THEN Stop("crash")
     ELSE /\ \E b \in PreparedColours([bm EXCEPT !.tps = PreparedTps(@)]) :
               bm' = PreparedHos(b)
          /\ stage' = "tree"
          /\ line' = 0
          /\ UNCHANGED <<todo, file, section, event_stack, loads>>

-----------------------------------------------------------------------------
(***************************************************************************)
(* The tree of events: osux_event_build_tree and osux_event_prepare.       *)
(***************************************************************************)
Compound(type) == type \in {"loop", "trigger"}

\* The assertions of add_child.
MayHaveChilds(ev) == ev.level = 0 \/ Compound(ev.type)

\* Where the parent is looked for.  (Mutant SameLevel.)
SameLevel(ev) == ev.level
ParentLevel(ev) == ev.level - 1

\* add_child.  (Mutant ChildFirst: the children are in reverse order.)
ChildFirst(childs, me) == <<me>> \o childs
ChildAdded(childs, me) == Append(childs, me)

\* The i-th event.  A parent that was freed with its beatmap is undefined.
BuildTree ==
  /\ stage = "tree" /\ line < Len(bm.evs)
  /\ LET i == line + 1
         ev == bm.evs[i]
         me == [load |-> bm.load, at |-> i]
         parent == event_stack[ParentLevel(ev)]
         childs == bm.evs[parent.at].childs
     IN IF ev.level >= MaxLevel
        THEN Stop(IF bm.prepared = 0 THEN "fail" ELSE "loaded")
        ELSE /\ event_stack' = [event_stack EXCEPT ![ev.level] = me]
             /\ CASE ev.level = 0 -> UNCHANGED <<stage, bm>>
                  [] ev.level > 0 /\ parent = NoEvent -> stage' = "abort" /\ UNCHANGED bm
                  [] ev.level > 0 /\ parent.load \notin {0, bm.load} ->
                       stage' = "crash" /\ UNCHANGED bm
                  [] OTHER ->
                       IF MayHaveChilds(bm.evs[parent.at])
                       THEN /\ bm' = [bm EXCEPT
                                        !.evs[i].parent = parent,
                                        !.evs[parent.at].childs = ChildAdded(childs, me)]
                            /\ UNCHANGED stage
                       ELSE stage' = "abort" /\ UNCHANGED bm
             /\ line' = i
             /\ UNCHANGED <<todo, file, section, loads>>

\* osux_event_prepare: an object lasts as long as its commands, a loop's end being
\* unknown.  (Mutant EndOfLoops counts it.)
EndOfLoops(ev) == TRUE
EndKnown(ev) == ~Compound(ev.type)

PreparedEvents(b) ==
  LET commands(j) ==
        {e \in ToSet(b.evs) : e.level = 1 /\ e.parent = [load |-> b.load, at |-> j]}
  IN [j \in DOMAIN b.evs |->
       IF b.evs[j].level > 0 THEN b.evs[j]
       ELSE [b.evs[j] EXCEPT
               !.offset = Min({@} \cup {e.offset : e \in commands(j)}),
               !.end = Max({@} \cup {e.end : e \in {e \in commands(j) : EndKnown(e)}})]]

PrepareEvents ==
  /\ stage = "tree" /\ line = Len(bm.evs)
  /\ bm' = [bm EXCEPT !.evs = PreparedEvents(bm), !.prepared = @ + 1]
  /\ stage' = "loaded"
  /\ UNCHANGED <<todo, file, line, section, event_stack, loads>>

-----------------------------------------------------------------------------
(***************************************************************************)
(* osux_beatmap_taiko_autoconvert.                                         *)
(***************************************************************************)
Margin == 20 \* OFFSET_EQUAL_PERCENTAGE is 1/20

OffsetLe(o1, o2) == o1 <= o2 \/ Margin * (o1 - o2) <= o2

\* The ticks of a slider, at 0, mpt, 2 * mpt...
Ticks(length, mpt) ==
  [i \in 1..(Max({k \in 0..(2 * length) : OffsetLe(k * mpt, length)}) + 1) |-> (i - 1) * mpt]

Circle(ho, offset) ==
  [ho EXCEPT !.type = "circle", !.nc = FALSE, !.offset = offset, !.end = offset,
             !.len = 0, !.repeat = 0, !.res = NoRes]

\* slider_to_circles_repeat, slider_to_circles_normal: when the circles are, after
\* the start of a slider.  (Mutant NotTheEnd: the last repeat has none.)
NotTheEnd(ho, length, mpt) ==
  IF ho.repeat # 1
  THEN [i \in 1..ho.repeat |-> ((i - 1) * length) \div ho.repeat]
  ELSE IF length <= mpt THEN <<0, length>>
  ELSE Ticks(length, mpt)
CircleTimes(ho, length, mpt) ==
  IF ho.repeat # 1
  THEN [i \in 1..(ho.repeat + 1) |-> ((i - 1) * length) \div ho.repeat]
  ELSE IF length <= mpt THEN <<0, length>>
  ELSE Ticks(length, mpt)

TooShort(b, ho, tp) == ho.type = "slider" /\ Duration(b, ho, tp) < 2 * Mpb(b, tp)

\* What an object becomes; a hold becomes nothing.
Converted(b, ho, tp) ==
  CASE ho.type = "hold" -> <<>>
    [] TooShort(b, ho, tp) ->
         LET times == CircleTimes(ho, Duration(b, ho, tp), Mpb(b, tp) \div b.tick_rate)
         IN [i \in DOMAIN times |-> Circle(ho, ho.offset + times[i])]
    [] OTHER -> <<ho>>

\* The sliders that are freed.  (Mutant KeepThem.)
KeepThem(b, tp) == {}
Replaced(b, tp) ==
  {i \in DOMAIN b.hos : TooShort(b, b.hos[i], b.tps[tp[i]])}

Autoconvert ==
  /\ stage = "loaded" /\ bm.mode = "std"
  /\ LET b == bm
         tp == TpOf(b)
     IN bm' = [b EXCEPT !.mode = "taiko",
                        !.hos = FlattenSeq([i \in DOMAIN @ |-> Converted(b, @[i], b.tps[tp[i]])]),
                        !.owned = @ \ {b.hos[i].res : i \in Replaced(b, tp)},
                        !.orig = b.hos]
  /\ stage' = "again"
  /\ UNCHANGED <<todo, file, line, section, event_stack, loads>>

-----------------------------------------------------------------------------
(***************************************************************************)
(* osux_beatmap_free.                                                      *)
(***************************************************************************)
Held(b) == {ho.res : ho \in ToSet(b.hos)} \ {NoRes}

\* osux_event_free frees the file name of the object, which in a command is where
\* its easing is.
BadPointer(b) ==
  \/ \E e \in ToSet(b.evs) : e.type = "command" /\ e.easing # 0
  \/ ~(Held(b) \subseteq b.owned)

\* Of a beatmap that was freed, owned is what was not.
Free ==
  /\ stage \in {"loaded", "fail"}
  /\ IF BadPointer(bm)
     THEN Stop("crash")
     ELSE /\ bm' = [Zero EXCEPT !.owned = @ \cup (bm.owned \ Held(bm))]
          /\ stage' = "idle"
          /\ UNCHANGED <<todo, file, line, section, event_stack, loads>>

-----------------------------------------------------------------------------
Nothing == [version |-> "none", mode |-> "std", tick_rate |-> 1, lines |-> <<>>]

Init ==
  /\ todo \in Queues
  /\ file = Nothing
  /\ stage = "idle"
  /\ line = 0
  /\ section = NoSection
  /\ bm = Zero
  /\ event_stack = [l \in 0..(MaxLevel - 1) |-> NoEvent]
  /\ loads = 0

ParseLine ==
  \/ SkipLine \/ NewSection \/ Unreadable \/ NoSectionYet
  \/ ObjectLine \/ RefusedLine \/ ColourLine \/ IgnoredColour

Next ==
  \/ Open \/ ParseLine \/ Prepare \/ BuildTree \/ PrepareEvents
  \/ Autoconvert \/ Free

Spec == Init /\ [][Next]_vars
-----------------------------------------------------------------------------
(***************************************************************************)
(* The files the game writes.                                              *)
(***************************************************************************)
SectionAt(f, i) ==
  LET before == {j \in 1..i : f.lines[j].k = "section"}
  IN IF before = {} THEN NoSection ELSE f.lines[Max(before)].name

LinesOf(f, k) == Kept(f.lines, {i \in DOMAIN f.lines : f.lines[i].k = k})

InOrder(s) == \A i \in 1..(Len(s) - 1) : s[i].offset <= s[i + 1].offset

\* The event a command belongs to: the last one of the level above.
ParentOf(evs, i) == Max({0} \cup {j \in 1..(i - 1) : evs[j].level = evs[i].level - 1})

\* Each command is one level below an object, a loop or a trigger.
Nested(evs) ==
  \A i \in DOMAIN evs : evs[i].level > 0 =>
    /\ i > 1 /\ evs[i].level <= evs[i - 1].level + 1
    /\ MayHaveChilds(evs[ParentOf(evs, i)])

\* Every line is one its section can have; objects are in order, and none ends before
\* it begins; there is a timing point to start with.
WellFormed(f) ==
  /\ f.version # "bad"
  /\ \A i \in DOMAIN f.lines :
       CASE f.lines[i].k \in DOMAIN SectionOf -> SectionAt(f, i) = SectionOf[f.lines[i].k]
         [] f.lines[i].k = "option" -> SectionAt(f, i) \notin ObjectSections \cup {NoSection}
         [] OTHER -> f.lines[i].k \in {"blank", "section"}
  /\ InOrder(LinesOf(f, "tp")) /\ InOrder(LinesOf(f, "ho"))
  /\ \A l \in ToSet(LinesOf(f, "ho")) : l.type # "slider" => l.offset <= l.end
  /\ LinesOf(f, "ho") # <<>> => LinesOf(f, "tp") # <<>>
  /\ LinesOf(f, "tp") # <<>> => ~LinesOf(f, "tp")[1].inherited
  /\ \A l \in ToSet(LinesOf(f, "event")) : l.level < MaxLevel
  /\ Nested(LinesOf(f, "event"))

Loaded == stage = "loaded" /\ WellFormed(file)
IsConverted == bm.prepared = 2

\* The objects as they were read, with their ends.
Original == IF IsConverted THEN bm.orig ELSE bm.hos

\* No object begins before the one before it has ended, with the margin of the
\* conversion.
Separate(hos) ==
  \A i \in 1..(Len(hos) - 1) :
    Margin * (hos[i + 1].offset - hos[i].end) > hos[i].end - hos[i].offset

-----------------------------------------------------------------------------
(***************************************************************************)
(* Properties.                                                             *)
(***************************************************************************)
\* A well-formed beatmap, whatever was loaded before it, neither fails the
\* assertions of add_child (event.c:33-38) nor is undefined, but for the easing of
\* its commands.
OnlyEasingStops ==
  WellFormed(file) =>
    /\ stage # "abort"
    /\ stage = "crash" => \E e \in ToSet(bm.evs) : e.type = "command" /\ e.easing # 0

\* The events of a loaded beatmap are a tree of its own, and no well-formed beatmap
\* stops the program while it is built: each command is under the event it was
\* written below, whatever earlier beatmaps left on the static stack; its children
\* are under it in the order of the file, once for each preparation.
EventTree ==
  /\ OnlyEasingStops
  /\ Loaded =>
       LET b == bm
           evs == b.evs
           pointers == [j \in DOMAIN evs |-> [load |-> b.load, at |-> j]]
           childs(i) == Kept(pointers, {j \in DOMAIN evs : evs[j].level > 0 /\ ParentOf(evs, j) = i})
       IN \A i \in DOMAIN evs :
            /\ evs[i].parent = IF evs[i].level = 0 THEN NoEvent
                               ELSE [load |-> b.load, at |-> ParentOf(evs, i)]
            /\ evs[i].childs = IF IsConverted THEN childs(i) \o childs(i) ELSE childs(i)

\* An object of the storyboard lasts exactly from the first to the last of its own
\* times and those of the commands below it, except that a loop or trigger does
\* not make it last longer.
ObjectsLast ==
  Loaded =>
    LET evs == bm.evs
        lines == LinesOf(file, "event")
        with(i) == {i} \cup {j \in DOMAIN evs : evs[j].level = 1 /\ ParentOf(evs, j) = i}
    IN \A i \in DOMAIN evs : evs[i].level = 0 =>
         /\ evs[i].offset = Min({lines[j].offset : j \in with(i)})
         /\ evs[i].end = Max({lines[j].end : j \in {j \in with(i) : ~Compound(lines[j].type)}})

\* The timing point of every object is the last one that is not after it, or the
\* first one: also after a conversion, whose circles are in order because objects
\* do not overlap.
TimingPointApplies ==
  Loaded /\ Separate(Original) =>
    \A ho \in ToSet(bm.hos) :
      ho.tp = Max({1} \cup {j \in DOMAIN bm.tps : bm.tps[j].offset <= ho.offset})

\* A conversion keeps the map: its objects are in order; each object is still hit at
\* its start, a slider that repeats at its end too; nothing is added outside the
\* original objects, up to the margin.  The end of a slider (hitobject.c) and its
\* ticks (taiko_autoconvert.c) are computed apart.
ConversionKeepsMap ==
  Loaded /\ IsConverted /\ Separate(bm.orig) =>
    LET b == bm
        at(offset) == \E ho \in ToSet(b.hos) : ho.offset = offset
    IN /\ InOrder(b.hos)
       /\ \A o \in ToSet(b.orig) : o.type # "hold" =>
            /\ at(o.offset)
            /\ o.repeat > 1 =>
                 at(o.end) \/ \E ho \in ToSet(b.hos) : ho.type = "slider" /\ ho.offset = o.offset
       /\ \A ho \in ToSet(b.hos) : \E o \in ToSet(b.orig) :
            /\ o.offset <= ho.offset
            /\ Margin * (ho.end - o.end) <= o.end - o.offset

\* combo_colours is the combo colours of the file in the order of their numbers (or
\* the four of the game if it has none), each once and where it is now, if the
\* array was never moved and no line was ignored; objects walk through it, one
\* colour further at each new combo.
ComboCycle ==
  Loaded /\ bm.block = 1 =>
    LET b == bm
        list == b.combo_colours
        combos == {i \in DOMAIN b.cols : b.cols[i].combo}
        newcombos(i) == Cardinality({j \in 1..i : b.hos[j].nc})
    IN /\ Len(list) = Cardinality(combos)
       /\ ToSet(list) = {[block |-> 1, at |-> i] : i \in combos}
       /\ \A i \in 1..(Len(list) - 1) : b.cols[list[i].at].id <= b.cols[list[i + 1].at].id
       /\ \A i \in DOMAIN b.hos :
            /\ b.hos[i].colour = list[((newcombos(i) + Len(list) - 1) % Len(list)) + 1]
            /\ b.hos[i].id = newcombos(i)

\* A beatmap that was freed has left none of the points and hit sounds of its objects
\* allocated, converted or not; only holds, which no standard beatmap has, are lost
\* by the conversion.
NothingLeft ==
  stage = "idle" /\ (\A l \in ToSet(LinesOf(file, "ho")) : l.type # "hold") =>
    bm.owned = {}

\* osux_beatmap_free is harmless, even several times (beatmap.c:54).
FreeHarmless ==
  stage = "crash" => ~WellFormed(file)
=============================================================================
