------------------------------- MODULE Picture -------------------------------
(***************************************************************************)
(* The picture of a hit object: what the viewer and the editor draw of it  *)
(* for a position in the music, and where on its path the ball of a slider *)
(* is.  A picture is the sequence of its shapes, the last one on top; what *)
(* colour and what size they have is left out.  The editor has a copy of   *)
(* the viewer's functions, but for the edges of a slider.                  *)
(*                                                                         *)
(* Three control points that are not in line are on one circle: they are   *)
(* given by their angles there (a slider with round = TRUE).  All others   *)
(* are pixels.  A share num / den of a path is a pair of integers, and the *)
(* place at that share is scaled by den.                                   *)
(***************************************************************************)
EXTENDS Integers, Sequences, FiniteSets
LOCAL INSTANCE SequencesExt

CONSTANTS
  Pictured,   \* records [kind, type, round, time, end, repeat, points]
  Turn        \* a whole turn, in the unit of the angles

VARIABLES
  ho,         \* the object drawn
  position    \* of the view in the music, in milliseconds

pictureVars == <<ho, position>>

-----------------------------------------------------------------------------
(* Sliders of straight lines and of arcs.                                  *)

\* (1 - num/den) * p + num/den * q.
Between(p, q, num, den) == [x |-> p.x * (den - num) + q.x * num,
                            y |-> p.y * (den - num) + q.y * num]

\* angle_main_measure: more than minus half a turn, and at most half a turn.
MainMeasure(a) == LET m == a % Turn IN IF 2 * m > Turn THEN m - Turn ELSE m

\* make_arc_spline: the turn from the first point by the second to the third
\* is direct when the determinant of the two chords is positive.
ArcSpline(angles) ==
  [a1 |-> MainMeasure(angles[1]), a2 |-> MainMeasure(angles[3]),
   direct |-> (angles[2] - angles[1]) % Turn < (angles[3] - angles[1]) % Turn]

\* (Mutant ArcShortWay: the angles are not put in the order of the turn.)
ArcShortWay(as, num, den) == as.a1 * den + (as.a2 - as.a1) * num

\* build_arc_spline_position.
ArcPosition(as, num, den) ==
  LET a1 == IF as.direct /\ as.a2 < as.a1 THEN as.a1 - Turn ELSE as.a1
      a2 == IF ~as.direct /\ as.a2 > as.a1 THEN as.a2 - Turn ELSE as.a2
  IN  a1 * den + (a2 - a1) * num

-----------------------------------------------------------------------------
(* Sliders of Bezier curves.                                               *)

\* Bezier_de_Casteljau at k / d, to the pixel.
Casteljau(W, k, d) ==
  LET halve(X, r) == [i \in 1..Len(X) - 1 |-> [x |-> (d - k) * X[i].x + k * X[i + 1].x,
                                               y |-> (d - k) * X[i].y + k * X[i + 1].y]]
      p == FoldLeft(halve, W, [r \in 1..Len(W) - 1 |-> r])[1]
  IN  [x |-> p.x \div d^(Len(W) - 1), y |-> p.y \div d^(Len(W) - 1)]

\* Three points for each control point but the first.  (The step of the code
\* is 0.333 for a third: its last point is a thousandth short of the end.)
\* Cairo's own curves, once flat, are taken to be such points too.
Flat(W) ==
  LET d == 3 * (Len(W) - 1) IN <<W[1]>> \o [k \in 1..d |-> Casteljau(W, k, d)]

\* build_bezier_path: with three control points, the first one counts twice.
BezierPath(W) ==
  CASE Len(W) <= 2 -> W
    [] Len(W) = 3  -> Flat(<<W[1]>> \o W)
    [] OTHER       -> Flat(W)

\* build_B_path: a control point that is there twice ends a curve and begins
\* the next.  The lines drawn, as pairs of points.
BPath(points) ==
  LET starts == SetToSortSeq({1} \cup {i \in 2..Len(points) : points[i] = points[i - 1]}, <)
      stop(n) == IF n = Len(starts) THEN Len(points) ELSE starts[n + 1] - 1
      lines(v) == [i \in 1..Len(v) - 1 |-> <<v[i], v[i + 1]>>]
  IN  FlattenSeq([n \in DOMAIN starts |->
        lines(BezierPath(SubSeq(points, starts[n], stop(n))))])

\* The length of a line along an axis.
Norm(line) ==
  LET abs(z) == IF z < 0 THEN -z ELSE z
  IN  abs(line[1].x - line[2].x) + abs(line[1].y - line[2].y)
PathLength(lines) == FoldLeft(LAMBDA sum, l : sum + Norm(l), 0, lines)

\* build_B_position: along the first line that reaches the share of the length
\* that is asked for, or else at the first point.
BPosition(points, num, den) ==
  LET lines == BPath(points)
      target == num * PathLength(lines)
      before(i) == PathLength(SubSeq(lines, 1, i - 1)) * den
      reach == {i \in DOMAIN lines : before(i) + Norm(lines[i]) * den >= target}
      i == CHOOSE j \in reach : \A k \in reach : j <= k
      toward(a, b) == a * den + (IF b < a THEN -1 ELSE IF b > a THEN 1 ELSE 0) * (target - before(i))
  IN  IF reach = {} THEN [x |-> points[1].x * den, y |-> points[1].y * den]
      ELSE [x |-> toward(lines[i][1].x, lines[i][2].x), y |-> toward(lines[i][1].y, lines[i][2].y)]

-----------------------------------------------------------------------------
(* The ball and the ends of a slider.                                      *)

\* What share of the path the ball is at, after num / den passes: every other
\* pass goes back.
Share(o, num, den) ==
  IF o.repeat <= 1 THEN num
  ELSE IF (num \div den) % 2 = 1 THEN den - (num % den) ELSE num % den

\* draw_slider: the kind of path goes by the number of points, not the type.
BallAt(o, num, den) ==
  LET pct == Share(o, num, den)
      pc == Len(o.points)
  IN  CASE o.round -> ArcPosition(ArcSpline(o.points), pct, den)
        [] pc \in 2..3 /\ ~o.round -> Between(o.points[1], o.points[pc], pct, den)
        [] pc > 3 -> BPosition(o.points, pct, den)

LocalOffset(o, at) == o.time - at
TotalLength(o) == o.end - o.time
Ball(o, at) == BallAt(o, -LocalOffset(o, at) * o.repeat, TotalLength(o))

\* The pass of a slider, for its edges: with the length of a pass in whole
\* milliseconds.
Pass(o, offset) ==
  LET pass == (-offset) \div (TotalLength(o) \div o.repeat)
  IN  IF pass > o.repeat - 1 THEN o.repeat - 1 ELSE IF pass < 0 THEN 0 ELSE pass

Disc(i) == <<[shape |-> "circle", at |-> i]>>
ReverseArrow(i) == <<[shape |-> "arrow", at |-> i]>>
Edge(i, arrow) == Disc(i) \o IF arrow THEN ReverseArrow(i) ELSE << >>
Number(i) == <<[shape |-> "number", at |-> i]>>
Circle == Disc(1) \o Number(1)

\* get_edges_point: the end the ball comes from, and the end it goes to.
EdgesPoint(o, reverse) ==
  IF reverse THEN [src |-> Len(o.points), dst |-> 1] ELSE [src |-> 1, dst |-> Len(o.points)]

\* (Mutant EdgesTurned: the arrow is not taken off for the last pass but one.)
EdgesTurned(o, offset) ==
  LET pass == Pass(o, offset)
      edges == EdgesPoint(o, pass % 2 = 1)
  IN  (IF offset <= 0 /\ pass # o.repeat - 1 THEN Edge(edges.src, pass < o.repeat - 1) ELSE << >>)
        \o Edge(edges.dst, pass < o.repeat - 1)
        \o IF offset > 0 THEN Circle ELSE << >>

\* draw_slider_edges: a circle at the end that the ball comes back to, too.
Edges(o, offset) ==
  LET pass == Pass(o, offset)
      edges == EdgesPoint(o, pass % 2 = 1)
  IN  (IF offset <= 0 /\ pass # o.repeat - 1 THEN Edge(edges.src, pass < o.repeat - 2) ELSE << >>)
        \o Edge(edges.dst, pass < o.repeat - 1)
        \o IF offset > 0 THEN Circle ELSE << >>

\* The editor's: the first point in the colour of the object, whatever the pass.
EdosuEdges(o) == Disc(Len(o.points)) \o Disc(1)

Body == <<[shape |-> "body"]>>
ControlPoints(o) == [i \in DOMAIN o.points |-> [shape |-> "point", at |-> i]]
SliderBall(o, offset) == IF offset < 0 THEN <<[shape |-> "ball"]>> ELSE << >>

\* A Catmull slider is drawn as its control points.
Slider(o, offset) ==
  IF o.type = "C" THEN ControlPoints(o)
  ELSE Body \o Edges(o, offset) \o SliderBall(o, offset)
EdosuSlider(o, offset) ==
  IF o.type = "C" THEN ControlPoints(o)
  ELSE Body \o EdosuEdges(o) \o Number(1) \o SliderBall(o, offset)
         \o IF Len(o.points) >= 3 THEN ControlPoints(o) ELSE << >>

-----------------------------------------------------------------------------
(* Objects.                                                                *)

Spinner(offset) == IF offset < 0 THEN <<[shape |-> "spinner"]>> ELSE << >>

\* Around an object that is still to come, but for spinners.
ApproachCircle(o, offset) ==
  IF offset < 0 \/ o.kind = "spinner" THEN << >> ELSE <<[shape |-> "approach", at |-> 1]>>

\* vosu_draw_object_std and edosu_draw_object: nothing once the object ended.
DrawObject(o, at, slider) ==
  LET offset == LocalOffset(o, at)
  IN  IF o.end <= at THEN << >>
      ELSE (CASE o.kind = "circle" -> Circle
              [] o.kind = "slider" -> slider
              [] o.kind = "spinner" -> Spinner(offset)) \o ApproachCircle(o, offset)
VosuPicture(o, at) == DrawObject(o, at, Slider(o, LocalOffset(o, at)))
EdosuPicture(o, at) == DrawObject(o, at, EdosuSlider(o, LocalOffset(o, at)))

\* The user moves the range, or the music plays on.
UpdateViewPosition ==
  /\ position' \in {position + 1, ho.time}
  /\ position < ho.end
  /\ UNCHANGED ho

PictureInit ==
  /\ ho \in Pictured
  /\ position = ho.time - 1
PictureNext == UpdateViewPosition
PictureSpec == PictureInit /\ [][PictureNext]_pictureVars

-----------------------------------------------------------------------------
Shown(picture, shape) == {picture[i].at : i \in {j \in DOMAIN picture : picture[j].shape = shape}}

\* The ends that the ball comes to after e milliseconds, and those of them
\* where it turns round the next time it is there: from where the ball is
\* after each whole pass.
IsAt(place, point, den, round) ==
  IF round THEN (place - point * den) % (Turn * den) = 0
  ELSE place = [x |-> point.x * den, y |-> point.y * den]
Visits(o, i, e) ==
  {n \in 1..o.repeat : n * TotalLength(o) > e * o.repeat
                       /\ IsAt(BallAt(o, n, 1), o.points[i], 1, o.round)}
ToCome(o, e) == {i \in {1, Len(o.points)} : Visits(o, i, e) # {}}
ToTurn(o, e) == {i \in ToCome(o, e) : \A n \in Visits(o, i, e) :
                   (\A m \in Visits(o, i, e) : n <= m) => n < o.repeat}

\* The sweep or the length of the whole path.
Extent(o) ==
  IF o.round THEN LET as == ArcSpline(o.points)
                      sweep == ArcPosition(as, 1, 1) - ArcPosition(as, 0, 1)
                  IN  IF sweep < 0 THEN -sweep ELSE sweep
  ELSE IF Len(o.points) > 3 THEN PathLength(BPath(o.points))
  ELSE Norm(<<o.points[1], Last(o.points)>>)
Far(o, p, q) ==
  IF o.round THEN LET d == (p - q) % (Turn * TotalLength(o))
                  IN  IF 2 * d > Turn * TotalLength(o) THEN Turn * TotalLength(o) - d ELSE d
  ELSE Norm(<<p, q>>)

\* While a slider is played, the picture tells how it goes on: there is a
\* circle at exactly the ends that the ball comes to again, with an arrow at
\* those where it turns round then; as a pass is taken to last whole
\* milliseconds, the picture may be ahead, by less than one a pass.  In the
\* viewer and in the editor the ball is there, over all but control points; it
\* goes at one speed along the path and never leaps, even where it turns; and
\* on an arc, it goes by the second control point.
\* (draw_slider and draw_slider_edges, which find the pass each in its way.)
PictureTells ==
  LET e == position - ho.time
      picture == VosuPicture(ho, position)
  IN  ho.kind = "slider" /\ ho.type # "C" /\ e > 0 /\ position < ho.end =>
        /\ \E ahead \in 0..ho.repeat - 1 :
             /\ Shown(picture, "circle") = ToCome(ho, e + ahead)
             /\ Shown(picture, "arrow") = ToTurn(ho, e + ahead)
        /\ \A p \in {picture, EdosuPicture(ho, position)} : \E i \in DOMAIN p :
             p[i].shape = "ball" /\ \A j \in i + 1..Len(p) : p[j].shape = "point"
        /\ Far(ho, Ball(ho, position), Ball(ho, position - 1)) <= Extent(ho) * ho.repeat
        /\ ho.round =>
             \E n \in 0..Extent(ho) : IsAt(ArcPosition(ArcSpline(ho.points), n, Extent(ho)),
                                           ho.points[2], Extent(ho), TRUE)
=============================================================================
