------------------------------- MODULE Editor -------------------------------
(***************************************************************************)
(* The editor, edosu: a tab for each open beatmap, in four notebooks that  *)
(* only the signals of one of them keep in step, the tree of objects that  *)
(* each tab holds and draws, and what is written when a beatmap is saved.  *)
(*                                                                         *)
(* As in the viewer, a dialog runs a main loop in which files that another *)
(* process asks for are opened.  Nothing is said of what follows an access *)
(* to memory that is not there: the editor has crashed.                    *)
(***************************************************************************)
EXTENDS EventLine, FiniteSets
LOCAL INSTANCE SequencesExt

CONSTANTS
  EditedFiles,   \* records [path, ok, hitobjects, timingpoints, bookmarks, colors,
                 \*          events: lines [level, fields]]; ok is that nothing is
                 \*          wrong with it but maybe its events, that come first
  MaxTabs,       \* bound: beatmaps open at once
  MaxCalls       \* bound: main loops inside the main loop

NoTab == 0
EmptyFile == [path |-> "", ok |-> TRUE, hitobjects |-> << >>, timingpoints |-> << >>,
              bookmarks |-> << >>, colors |-> << >>, events |-> << >>]
SideBooks == {"inspector", "palette", "properties"}
Books == SideBooks \cup {"view"}

VARIABLES
  editor,    \* [tabs: app->beatmaps, current: current_beatmap]
  pages,     \* the pages of each notebook, by the tab they belong to
  page,      \* the page each notebook shows
  docs,      \* what each tab holds: [path, rows, seq, stolen, freed: its later
             \* keyframes have been freed]
  pending,   \* the calls that wait for a dialog
  written,   \* the last file written
  crashed    \* whether the editor has crashed

editorVars == <<editor, pages, page, docs, pending, written, crashed>>

-----------------------------------------------------------------------------
(* What a tab holds: the arrays of the beatmap that was loaded, and a tree *)
(* of rows that point into them.                                           *)

TreeRow(offset, object) == [offset |-> offset, object |-> object]
LoadHitObjects(f) == [i \in DOMAIN f.hitobjects |-> TreeRow(f.hitobjects[i].time, i)]
LoadTimingPoints(f) == [i \in DOMAIN f.timingpoints |-> TreeRow(f.timingpoints[i], i)]
LoadColors(f) == [i \in DOMAIN f.colors |-> TreeRow(f.colors[i], i)]
LoadBookmarks(f) == [i \in DOMAIN f.bookmarks |-> TreeRow(f.bookmarks[i], 0)]

\* The rows under an event, or under "Events" for 0: the events of the next
\* level up to one of its own level (osux_event childs, appended in order).
EventRows(levels, parent) ==
  IF parent = 0 THEN {i \in DOMAIN levels : levels[i] = 0}
  ELSE {i \in DOMAIN levels : /\ i > parent /\ levels[i] = levels[parent] + 1
                              /\ \A k \in parent + 1..i : levels[k] > levels[parent]}

\* The objects in the order of their ends, for the view.
HitObjectsSeq(f) ==
  SetToSortSeq(DOMAIN f.hitobjects,
               LAMBDA i, j : \/ f.hitobjects[i].end < f.hitobjects[j].end
                             \/ f.hitobjects[i].end = f.hitobjects[j].end /\ i < j)

\* All that the rows point to; the rest of the beatmap that was read is freed.
StealObjects(f) == [hitobjects |-> f.hitobjects, timingpoints |-> f.timingpoints,
                    colors |-> f.colors, events |-> LoadEvents(f.events)]
LoadObjects(f) ==
  [HitObjects |-> LoadHitObjects(f), TimingPoints |-> LoadTimingPoints(f),
   Bookmarks |-> LoadBookmarks(f), Colors |-> LoadColors(f)]
LoadFromFile(f) ==
  [path |-> f.path, rows |-> LoadObjects(f), seq |-> HitObjectsSeq(f), stolen |-> StealObjects(f),
   freed |-> FALSE]

\* A beatmap that is refused is freed, with the events read so far; of one that is
\* not, the last object is looked at without asking whether there is one.
Refused(f) == ~f.ok \/ ~AllValid(f.events)
LoadCrashes(f) == IF Refused(f) THEN HasEasing(EventsRead(f.events)) ELSE f.hitobjects = << >>

\* A beatmap that was never loaded has no tree: it is as if it had no row.
Unsaved == LoadFromFile(EmptyFile)

\* What the view draws, as places in the sequence, the last one on top: from
\* the first object that has not ended up to one that cannot be drawn.
ApproachTime9 == 600
IsApproachTimeOrSlider(o, at) == o.time - at < ApproachTime9 /\ o.end - at >= 0
EdosuDraw(doc, at) ==
  LET object(n) == doc.stolen.hitobjects[doc.seq[n]]
      found(n) == object(n).end > at - 1
      drawn(n) == found(n) /\ \A k \in 1..n : found(k) => IsApproachTimeOrSlider(object(k), at)
  IN  Reverse(SelectSeq([n \in DOMAIN doc.seq |-> n], drawn))

-----------------------------------------------------------------------------
(* The notebooks of GTK, over w = [pages, page, tabs, current].            *)

\* on_notebook_page_switch_cb: the other notebooks show the page of the same
\* number, when they have it.
Switched(w, tab) ==
  LET n == CHOOSE i \in DOMAIN w.pages["view"] : w.pages["view"][i] = tab
  IN  IF tab \notin Range(w.tabs) THEN w
      ELSE [w EXCEPT !.current = tab,
              !.page = [b \in Books |-> IF b \in SideBooks /\ n <= Len(w.pages[b])
                                        THEN w.pages[b][n] ELSE @[b]]]

\* A notebook shows a page; only the one of the views has a handler for it.
Show(w, book, tab) ==
  IF w.page[book] = tab THEN w
  ELSE LET shown == [w EXCEPT !.page[book] = tab]
       IN  IF book = "view" /\ tab # NoTab THEN Switched(shown, tab) ELSE shown

\* The first page of a notebook is shown at once.
AppendPage(w, book, tab) ==
  LET added == [w EXCEPT !.pages[book] = Append(@, tab)]
  IN  IF w.pages[book] = << >> THEN Show(added, book, tab) ELSE added

\* When the page shown is removed the next one is shown, or else the one
\* before it: before "page-removed" is emitted.
RemovePage(w, book, n) ==
  LET rest == RemoveAt(w.pages[book], n)
      next == IF rest = << >> THEN NoTab ELSE rest[IF n <= Len(rest) THEN n ELSE Len(rest)]
      removed == [w EXCEPT !.pages[book] = rest]
  IN  IF w.page[book] = w.pages[book][n] THEN Show(removed, book, next) ELSE removed

-----------------------------------------------------------------------------
(* The window.                                                             *)

Panes == [pages |-> pages, page |-> page, tabs |-> editor.tabs, current |-> editor.current]
SetPanes(w) ==
  /\ editor' = [tabs |-> w.tabs, current |-> w.current]
  /\ pages' = w.pages /\ page' = w.page

\* edosu_window_add_beatmap, for a beatmap that is in the list already.
AddBeatmap(w, tab) ==
  LET added == [w EXCEPT !.tabs = Append(@, tab)]
      filled == AppendPage(AppendPage(AppendPage(AppendPage(
                  added, "view", tab), "inspector", tab), "properties", tab), "palette", tab)
  IN  Show(Show(Show(Show(filled, "view", tab), "properties", tab), "palette", tab),
           "inspector", tab)

\* (Mutant PageShownRemoved: the other notebooks lose the page they show.)
PageShownRemoved(w, n) ==
  LET shown(v, b) == CHOOSE i \in DOMAIN v.pages[b] : v.pages[b][i] = v.page[b]
      one == RemovePage(w, "palette", shown(w, "palette"))
      two == RemovePage(one, "inspector", shown(one, "inspector"))
  IN  RemovePage(two, "properties", shown(two, "properties"))

\* edosu_window_remove_beatmap: the page goes from the views, and from the
\* others by its number; do_close takes the beatmap off the list after that.
PageRemoved(w, n) ==
  RemovePage(RemovePage(RemovePage(w, "palette", n), "inspector", n), "properties", n)
RemoveBeatmap(w, tab) ==
  LET n == CHOOSE i \in DOMAIN w.pages["view"] : w.pages["view"][i] = tab
      gone == PageRemoved(RemovePage(w, "view", n), n)
  IN  [gone EXCEPT !.current = IF gone.pages["view"] = << >> THEN NoTab ELSE @,
                   !.tabs = SelectSeq(@, LAMBDA t : t # tab)]

FreeTabs == (1..MaxTabs) \ Range(editor.tabs)
NewTab == CHOOSE t \in FreeTabs : \A u \in FreeTabs : t <= u

-----------------------------------------------------------------------------
(* The actions of the user, and the files that are asked for.              *)

Resting == pending = << >>
Looping == pending # << >> => Last(pending).kind # "open"
Done == pending' = Front(pending)

\* The bound leaves room for n more tabs, beside those the calls may open.
TabRoom(n) == Len(editor.tabs) + n
             + FoldLeft(LAMBDA sum, c : IF c.kind = "open" THEN sum + Len(c.files)
                                        ELSE sum, 0, pending) <= MaxTabs

NewAction ==
  /\ Resting /\ TabRoom(1)
  /\ SetPanes(AddBeatmap(Panes, NewTab))
  /\ docs' = [docs EXCEPT ![NewTab] = Unsaved]
  /\ UNCHANGED <<pending, written, crashed>>

AskForFile ==
  /\ Resting
  /\ pending' = <<[kind |-> "chooser"]>>
  /\ UNCHANGED <<editor, pages, page, docs, written, crashed>>
FileChosen ==
  /\ pending # << >> /\ Last(pending).kind = "chooser"
  /\ \/ \E f \in EditedFiles : TabRoom(1) /\ pending' = Append(Front(pending), [kind |-> "open", files |-> <<f>>])
     \/ Done
  /\ UNCHANGED <<editor, pages, page, docs, written, crashed>>

RemoteFiles ==
  /\ Looping /\ Len(pending) < MaxCalls /\ TabRoom(2)
  /\ \E f, g \in EditedFiles :
       pending' = Append(pending, [kind |-> "open", files |-> <<f, g>>])
  /\ UNCHANGED <<editor, pages, page, docs, written, crashed>>

\* A file that is open already gets its tab shown.
OpenFile ==
  /\ pending # << >> /\ Last(pending).kind = "open"
  /\ LET files == Last(pending).files
         rest == Append(Front(pending), [kind |-> "open", files |-> Tail(files)])
         f == Head(files)
         there == {t \in Range(editor.tabs) : docs[t].path = f.path}
         absent == files # << >> /\ there = {}
     IN  \/ files = << >> /\ Done /\ UNCHANGED <<editor, pages, page, docs, crashed>>
         \/ /\ files # << >> /\ there # {}
            /\ SetPanes(Show(Panes, "view", CHOOSE t \in there : TRUE))
            /\ pending' = rest /\ UNCHANGED <<docs, crashed>>
         \/ /\ absent /\ LoadCrashes(f)
            /\ crashed' = TRUE
            /\ UNCHANGED <<editor, pages, page, docs, pending>>
         \/ /\ absent /\ ~LoadCrashes(f) /\ Refused(f)
            /\ pending' = Append(rest, [kind |-> "error"])
            /\ UNCHANGED <<editor, pages, page, docs, crashed>>
         \/ /\ absent /\ ~LoadCrashes(f) /\ ~Refused(f)
            /\ SetPanes(AddBeatmap(Panes, NewTab))
            /\ docs' = [docs EXCEPT ![NewTab] = LoadFromFile(f)]
            /\ pending' = rest /\ UNCHANGED crashed
  /\ UNCHANGED written

ErrorRead ==
  /\ pending # << >> /\ Last(pending).kind = "error"
  /\ Done
  /\ UNCHANGED <<editor, pages, page, docs, written, crashed>>

\* The close button of any tab, or the menu for the current one.
CloseTab ==
  /\ Resting
  /\ \E t \in Range(editor.tabs) :
       /\ SetPanes(RemoveBeatmap(Panes, t))
       /\ docs' = [docs EXCEPT ![t] = Unsaved]
  /\ UNCHANGED <<pending, written, crashed>>

ChooseTab ==
  /\ Resting
  /\ \E t \in Range(editor.tabs) : SetPanes(Show(Panes, "view", t))
  /\ UNCHANGED <<docs, pending, written, crashed>>

-----------------------------------------------------------------------------
(* Saving.                                                                 *)

\* (Mutant SaveByLevel: the rows beside an event are written before those
\* under it.)
RECURSIVE SaveByLevel(_, _)
SaveByLevel(levels, parent) ==
  LET rows == SetToSortSeq(EventRows(levels, parent), <)
  IN  rows \o FlattenSeq([k \in DOMAIN rows |-> SaveByLevel(levels, rows[k])])

\* Each row is written, then the rows under it, then the row after it.
RECURSIVE SaveEvents(_, _)
SaveEvents(levels, parent) ==
  FlattenSeq([k \in 1..Cardinality(EventRows(levels, parent)) |->
                LET row == SetToSortSeq(EventRows(levels, parent), <)[k]
                IN  <<row>> \o SaveEvents(levels, row)])

\* A copy of what each row points to is appended.
SaveHitObjects(doc) ==
  [k \in DOMAIN doc.rows.HitObjects |-> doc.stolen.hitobjects[doc.rows.HitObjects[k].object]]
SaveTimingPoints(doc) ==
  [k \in DOMAIN doc.rows.TimingPoints |-> doc.stolen.timingpoints[doc.rows.TimingPoints[k].object]]
SaveColors(doc) ==
  [k \in DOMAIN doc.rows.Colors |-> doc.stolen.colors[doc.rows.Colors[k].object]]

SaveEventLines(doc) ==
  LET events == doc.stolen.events
      rows == SaveEvents([i \in DOMAIN events |-> events[i].level], 0)
  IN  [k \in DOMAIN rows |-> PrintEvent(events[rows[k]])]

\* (Mutant SaveInDrawOrder: the objects are written in the order of the view.)
SaveInDrawOrder(doc) ==
  [hitobjects |-> [k \in DOMAIN doc.seq |-> doc.stolen.hitobjects[doc.seq[k]]],
   timingpoints |-> SaveTimingPoints(doc), colors |-> SaveColors(doc),
   events |-> SaveEventLines(doc)]

\* The bookmarks have rows, but point to nothing and are not saved.
SaveObjects(doc) ==
  [hitobjects |-> SaveHitObjects(doc), timingpoints |-> SaveTimingPoints(doc),
   colors |-> SaveColors(doc), events |-> SaveEventLines(doc)]
SaveToFile(doc) == [objects |-> SaveObjects(doc), path |-> doc.path]

SaveAction ==
  /\ Resting /\ editor.current # NoTab
  /\ pending' = <<[kind |-> "save"]>>
  /\ UNCHANGED <<editor, pages, page, docs, written, crashed>>

\* What is saved is the beatmap that is current when the dialog is answered.  All
\* is copied, written if the file can be, and the copy freed; with it go the later
\* keyframes of the commands, that the copy shares: they cannot be freed again.
SaveAnswer ==
  LET doc == docs[editor.current]
      events == doc.stolen.events
      keyframes == \E i \in DOMAIN events : events[i].next # << >>
  IN  /\ pending # << >> /\ Last(pending).kind = "save"
      /\ \/ UNCHANGED <<written, docs, crashed>> /\ Done
         \/ /\ HasEasing(events)
            /\ crashed' = TRUE
            /\ UNCHANGED <<written, docs, pending>>
         \/ /\ ~HasEasing(events)
            /\ written' \in {SaveToFile(doc), written}
            /\ docs' = [docs EXCEPT ![editor.current].freed = keyframes]
            /\ crashed' = doc.freed
            /\ Done
      /\ UNCHANGED <<editor, pages, page>>

-----------------------------------------------------------------------------
EditorInit ==
  /\ editor = [tabs |-> << >>, current |-> NoTab]
  /\ pages = [b \in Books |-> << >>]
  /\ page = [b \in Books |-> NoTab]
  /\ docs = [t \in 1..MaxTabs |-> Unsaved]
  /\ pending = << >>
  /\ written = SaveToFile(Unsaved)
  /\ crashed = FALSE

EditorNext ==
  /\ ~crashed
  /\ \/ NewAction \/ AskForFile \/ FileChosen \/ RemoteFiles \/ OpenFile \/ ErrorRead
     \/ CloseTab \/ ChooseTab \/ SaveAction \/ SaveAnswer

-----------------------------------------------------------------------------
\* A view draws each object of its beatmap that is visible, the first to end
\* on top, as long as no object begins before another one ends.
DrawnInOrder(doc) ==
  LET objects == doc.stolen.hitobjects
      apart == \A i, j \in DOMAIN objects : i = j \/ objects[i].end <= objects[j].time
                                             \/ objects[j].end <= objects[i].time
  IN  apart => \A i \in DOMAIN objects : \A at \in {objects[i].time - 300, objects[i].time, objects[i].end} :
        LET picture == EdosuDraw(doc, at)
        IN  /\ {doc.seq[n] : n \in Range(picture)}
                  = {k \in DOMAIN objects : IsApproachTimeOrSlider(objects[k], at)}
            /\ \A n, m \in DOMAIN picture :
                 n < m => objects[doc.seq[picture[n]]].end >= objects[doc.seq[picture[m]]].end

\* The notebooks, the list of beatmaps and the current beatmap stay in step
\* whatever is opened, closed or shown: each notebook has a page for each
\* beatmap, in the order of the list; all four show the page of the current
\* beatmap, and there is one when a beatmap is open; no file has two tabs; and
\* the view that is shown draws the objects of its beatmap.
\* (The signals of edosu-win.c, and the list of edosu-app.c.)
TabsInStep ==
  /\ \A b \in Books : pages[b] = editor.tabs /\ page[b] = editor.current
  /\ editor.current = NoTab <=> editor.tabs = << >>
  /\ \A t, u \in Range(editor.tabs) : docs[t].path = docs[u].path =>
       t = u \/ docs[t] = Unsaved
  /\ editor.current # NoTab => DrawnInOrder(docs[editor.current])

\* A file that is saved, again or for the first time, whatever was opened, closed or
\* shown meanwhile, and even if the editor crashes when it frees what it wrote, has
\* all that the file it was loaded from has, but for the bookmarks: each object, timing point, colour and event once and in its
\* order, so that each command is under its own event when it is read again;
\* and each event that can be printed is then the event it was, the first of
\* several keyframes aside.  A beatmap of no file has none.  (load_event and
\* save_events_rec, the tree between them, in edosu-beatmap-objects.c, and
\* osux_event_init and osux_event_print in event.c.)
SavedAsLoaded ==
  \E f \in EditedFiles \cup {EmptyFile} :
    LET lines == written.objects.events
        events == LoadEvents(f.events)
    IN  /\ written.path = f.path
        /\ written.objects.hitobjects = f.hitobjects
        /\ written.objects.timingpoints = f.timingpoints
        /\ written.objects.colors = f.colors
        /\ [i \in DOMAIN lines |-> lines[i].level] = [i \in DOMAIN events |-> events[i].level]
        /\ \A i \in DOMAIN events : lines[i].fields[1] = events[i].type
        /\ \A i \in DOMAIN events : events[i].level > 0 /\ Printable(events[i]) =>
             EventInit(lines[i]) = events[i]
        /\ (\A i \in DOMAIN events : Printable(events[i])) => LoadEvents(lines) = events
=============================================================================
