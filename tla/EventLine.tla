----------------------------- MODULE EventLine -----------------------------
(***************************************************************************)
(* The lines of a storyboard, read and printed: osux_event_init and        *)
(* osux_event_print.  A line is its level and its fields, the first one    *)
(* being the name of a type; numbers and names are not taken apart, and    *)
(* the other spellings of a name are left out.  A command without a value, *)
(* that is read past its fields, is none of the lines considered.          *)
(***************************************************************************)
EXTENDS Integers, Sequences
LOCAL INSTANCE SequencesExt

Invalid == [type |-> "invalid"]
IntMax == 2147483647
Blank == -IntMax - 1    \* a field with nothing in it: it is no time of a storyboard

\* An event: what one keyframe has is in vals, the keyframes after it in next.
Event(level, type, offset, end, vals) ==
  [level |-> level, type |-> type, offset |-> offset, end |-> end, easing |-> 0,
   vals |-> vals, next |-> << >>]

-----------------------------------------------------------------------------
(* Objects.                                                                *)

ParseImage(f) ==
  IF Len(f) \notin {3, 5} THEN Invalid
  ELSE Event(0, f[1], f[2], 0, <<f[3]>> \o IF Len(f) = 5 THEN <<f[4], f[5]>> ELSE <<0, 0>>)
ParseVideo(f) == IF Len(f) # 3 THEN Invalid ELSE Event(0, f[1], f[2], 0, <<f[3], 0, 0>>)

\* The end of a break is taken from the field of its offset.
ParseBreak(f) == IF Len(f) # 3 THEN Invalid ELSE Event(0, f[1], f[2], f[2], << >>)
ParseColour(f) == IF Len(f) # 5 THEN Invalid ELSE Event(0, f[1], f[2], 0, SubSeq(f, 3, 5))
ParseSprite(f) == IF Len(f) # 6 THEN Invalid ELSE Event(0, f[1], IntMax, 0, SubSeq(f, 2, 6))
ParseSample(f) ==
  IF Len(f) < 4 THEN Invalid
  ELSE Event(0, f[1], f[2], 0, SubSeq(f, 3, 4) \o <<IF Len(f) >= 5 THEN f[5] ELSE 100>>)
ParseAnimation(f) ==
  IF Len(f) < 8 THEN Invalid
  ELSE Event(0, f[1], IntMax, 0,
             SubSeq(f, 2, 8) \o <<IF Len(f) = 9 THEN f[9] ELSE "LoopForever">>)

ParseObjectEvent(f) ==
  CASE f[1] = "BackgroundImage"  -> ParseImage(f)
    [] f[1] = "Video"            -> ParseVideo(f)
    [] f[1] = "BreakPeriod"      -> ParseBreak(f)
    [] f[1] = "BackgroundColour" -> ParseColour(f)
    [] f[1] = "Sprite"           -> ParseSprite(f)
    [] f[1] = "Sample"           -> ParseSample(f)
    [] f[1] = "Animation"        -> ParseAnimation(f)
    [] OTHER                     -> Invalid

-----------------------------------------------------------------------------
(* Commands.                                                               *)

\* How many values a keyframe of a command has.
Width == [F |-> 1, S |-> 1, R |-> 1, MX |-> 1, MY |-> 1, M |-> 2, V |-> 2, C |-> 3]

\* A keyframe goes from some values to others, the same ones if they are left
\* out; each keyframe after the first begins where the one before it ends.
\* FALSE if values are missing.  (Those of a rotation are read as scalings.)
Keyframes[n \in 0..20, width \in 1..3] ==
  IF n < width \/ n \in width + 1..2 * width - 1 THEN FALSE
  ELSE n <= 2 * width \/ Keyframes[n - width, width]
Keyframe(args, width, k) ==
  IF Len(args) = width THEN args \o args ELSE SubSeq(args, (k - 1) * width + 1, (k + 1) * width)
LaterKeyframes(args, width) ==
  [k \in 1..(Len(args) \div width) - 2 |-> Keyframe(args, width, k + 1)]

\* Every command but a compound one has an easing, an offset and an end.
ParseKeyframes(level, f) ==
  LET args == SubSeq(f, 5, Len(f))
      end == IF f[4] = Blank THEN f[3] ELSE f[4]
  IN  IF Len(f) < 4 \/ ~Keyframes[Len(args), Width[f[1]]] THEN Invalid
      ELSE [Event(level, f[1], f[3], end, Keyframe(args, Width[f[1]], 1)) EXCEPT
              !.easing = f[2], !.next = LaterKeyframes(args, Width[f[1]])]
ParseParameter(level, f) ==
  IF Len(f) # 5 THEN Invalid
  ELSE [Event(level, f[1], f[3], IF f[4] = Blank THEN f[3] ELSE f[4], <<f[5]>>) EXCEPT !.easing = f[2]]
ParseLoopCmd(level, f) ==
  IF Len(f) # 3 THEN Invalid ELSE Event(level, f[1], f[2], 0, <<f[3]>>)
ParseTrigger(level, f) ==
  IF Len(f) # 4 THEN Invalid ELSE Event(level, f[1], f[3], f[4], <<f[2]>>)

ParseCommandEvent(level, f) ==
  CASE f[1] \in DOMAIN Width -> ParseKeyframes(level, f)
    [] f[1] = "P"            -> ParseParameter(level, f)
    [] f[1] = "L"            -> ParseLoopCmd(level, f)
    [] f[1] = "T"            -> ParseTrigger(level, f)
    [] OTHER                 -> Invalid

EventInit(l) ==
  IF l.level = 0 THEN ParseObjectEvent(l.fields) ELSE ParseCommandEvent(l.level, l.fields)

\* osux_event_prepare: an object begins and ends with its commands, but for the
\* end of a loop or a trigger.
Commands(events, object) ==
  {events[i] : i \in {k \in object + 1..Len(events) :
     events[k].level = 1 /\ \A j \in object + 1..k : events[j].level > 0}}
EventPrepare(events, i) ==
  LET under == Commands(events, i)
  IN  IF events[i].level > 0 THEN events[i]
      ELSE [events[i] EXCEPT
              !.offset = Min({@} \cup {c.offset : c \in under}),
              !.end = Max({@} \cup {c.end : c \in {d \in under : d.type \notin {"L", "T"}}})]

\* The events of a file are read up to the first line that is not valid, with
\* which the beatmap is given up; if all are valid they are then prepared.
EventsRead(lines) ==
  LET bad == {i \in DOMAIN lines : EventInit(lines[i]) = Invalid}
  IN  [i \in 1..Min(bad \cup {Len(lines) + 1}) - 1 |-> EventInit(lines[i])]
AllValid(lines) == Len(EventsRead(lines)) = Len(lines)
LoadEvents(lines) ==
  LET read == EventsRead(lines) IN [i \in DOMAIN read |-> EventPrepare(read, i)]

\* The file name of an object and the easing of a command are in the same place:
\* of an event that has an easing, the "file name" is no address of a string.
\* osux_event_copy reads it and osux_event_free frees it.
HasEasing(events) == \E i \in DOMAIN events : events[i].easing # 0

-----------------------------------------------------------------------------
(* Printing.                                                               *)

\* (Mutant PrintCountFirst: the times a loop runs are printed before its offset.)
PrintCountFirst(ev) ==
  [level |-> ev.level,
   fields |-> CASE ev.type = "L" -> <<"L">> \o ev.vals \o <<ev.offset>>
                [] ev.type = "T" -> <<"T">> \o ev.vals \o <<ev.offset, ev.end>>
                [] ev.type = "BreakPeriod" -> <<ev.type, ev.offset, ev.end>>
                [] ev.type \in {"Sprite", "Animation"} -> <<ev.type>> \o ev.vals
                [] ev.type \in DOMAIN Width \cup {"P"} ->
                     <<ev.type, ev.easing, ev.offset, ev.end>> \o ev.vals
                [] OTHER -> <<ev.type, ev.offset>> \o ev.vals]

\* osux_event_print: of several keyframes, the first.
PrintEvent(ev) ==
  [level |-> ev.level,
   fields |-> CASE ev.type = "T" -> <<"T">> \o ev.vals \o <<ev.offset, ev.end>>
                [] ev.type = "BreakPeriod" -> <<ev.type, ev.offset, ev.end>>
                [] ev.type \in {"Sprite", "Animation"} -> <<ev.type>> \o ev.vals
                [] ev.type \in DOMAIN Width \cup {"P"} ->
                     <<ev.type, ev.easing, ev.offset, ev.end>> \o ev.vals
                [] OTHER -> <<ev.type, ev.offset>> \o ev.vals]

\* What can be printed and read again: not a video, of which too much is
\* printed, nor more than one keyframe.
Printable(ev) == ev.type # "Video" /\ ev.next = << >>
=============================================================================
