----------------------------- MODULE MCBeatmap -----------------------------
(* Instances of Beatmap for TLC. *)
EXTENDS Beatmap

Section(name) == [k |-> "section", name |-> name]
In(name, lines) == <<Section(name)>> \o lines
File(lines) == [version |-> "good", mode |-> "std", tick_rate |-> 2, lines |-> lines]

\* Up to n of some lines.
UpTo(n, lines) == UNION {[1..m -> lines] : m \in 0..n}

Event(type, level, offset, end) ==
  [k |-> "event", type |-> type, level |-> level, easing |-> 0, offset |-> offset, end |-> end]
Sprite == Event("object", 0, 9, 0)
Image == Event("object", 0, 3, 0)
Fade == Event("command", 1, 2, 5)
Move == Event("command", 1, 4, 4)
Loop == Event("loop", 1, 1, 7)
InLoop == Event("command", 2, 0, 9)
Deep == Event("command", 3, 1, 2)
Ease == [Fade EXCEPT !.easing = 1]

Tp(offset, v) == [k |-> "tp", offset |-> offset, inherited |-> FALSE, v |-> v]
Faster(offset) == [k |-> "tp", offset |-> offset, inherited |-> TRUE, v |-> 2]

Ho(type, offset, end, len, repeat, nc) ==
  [k |-> "ho", type |-> type, offset |-> offset, end |-> end, len |-> len, repeat |-> repeat, nc |-> nc]
Note(offset, nc) == Ho("circle", offset, offset, 0, 0, nc)
Slider(offset, len, repeat) == Ho("slider", offset, 0, len, repeat, TRUE)

Combo(id) == [k |-> "colour", combo |-> TRUE, id |-> id]
Border == [k |-> "colour", combo |-> FALSE, id |-> 0]

\* Storyboards.
EventFiles ==
  {File(In("Events", s)) : s \in UpTo(4, {Sprite, Image, Fade, Loop, InLoop})}
    \cup {File(In("Events", s)) : s \in {<<Sprite, Ease>>, <<Sprite, Loop, InLoop, Deep>>,
                                         <<Image, Move, Sprite, Fade, Loop, InLoop>>}}

\* Objects: twenty a beat, ten a tick; a faster point, and one that is slower.
TpLines == {<<Tp(0, 20)>>, <<Tp(0, 20), Faster(20)>>, <<Tp(5, 20), Tp(40, 40)>>,
            <<Faster(0), Tp(20, 20)>>, <<>>}
Objects == {Note(0, FALSE), Note(20, TRUE), Note(60, TRUE), Slider(20, 10, 1), Slider(20, 8, 3),
            Slider(20, 38, 1), Slider(20, 39, 1), Slider(20, 40, 1), Slider(60, 35, 1),
            Ho("spinner", 20, 50, 0, 0, TRUE), Ho("hold", 20, 30, 0, 0, FALSE)}
ObjectFiles ==
  {File(In("TimingPoints", tps) \o In("HitObjects", hos)) : tps \in TpLines, hos \in UpTo(3, Objects)}

\* Colours, with combos to colour.
ColourFiles ==
  {File(In("Colours", s) \o In("TimingPoints", <<Tp(0, 20)>>)
          \o In("HitObjects", <<Note(0, FALSE), Note(20, TRUE), Note(60, FALSE), Note(70, TRUE)>>)) :
     s \in UpTo(4, {Combo(1), Combo(2), Border, [k |-> "broken"]})}

\* Lines where they do not belong.
OddFiles ==
  {File(s) : s \in UpTo(3, {Section("Events"), Section("other"), Section("TimingPoints"), Sprite,
                            Tp(0, 20), [k |-> "option"], [k |-> "blank"], [k |-> "unreadable"]})}
    \cup {[File(<<>>) EXCEPT !.version = v] : v \in {"bad", "none"}}
    \cup {[File(<<>>) EXCEPT !.mode = "taiko"]}

Again == {File(In("Events", <<Sprite, Loop, InLoop>>)), File(In("Events", <<Fade>>)),
          File(In("Events", <<Image, Fade>>)), File(In("Events", <<Image, InLoop>>))}

MCQueues ==
  {<<f>> : f \in EventFiles \cup ObjectFiles \cup ColourFiles \cup OddFiles}
    \cup {<<f, g>> : f, g \in Again}

\* A storyboard with an easing, and one without.
MCEasedFiles == {<<File(In("Events", <<Sprite, Ease>>))>>, <<File(In("Events", <<Sprite, Fade>>))>>}
=============================================================================
