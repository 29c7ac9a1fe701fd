------------------------------ MODULE Reading ------------------------------
(***************************************************************************)
(* The reading skill (src/taikorank/reading.c).  How well an object is     *)
(* seen is the volume of a mesh: over the time, the borders of the object  *)
(* on the screen and the interest there is in watching it.  The mesh is    *)
(* built backwards in time, from the object's disappearance to its         *)
(* appearance, ring by ring, with a ring wherever one of them bends.       *)
(*                                                                         *)
(* Times are in ms, bpm_app is a divisor of 15000, the positions on the    *)
(* screen and the radius are in hundredths of an object.  The volume, and  *)
(* the intersections that the code does not remove ("not working for       *)
(* now"), are left out.                                                    *)
(***************************************************************************)
EXTENDS LinearFun

CONSTANTS
  ReadMaps,     \* sequences of [off, end, bpm, big, ps, app, dis]
  Interest      \* vect_interest

ASSUME ReadingAssumption ==
  /\ Len(Interest) > 1 /\ Interest[1][1] = 0
  /\ \A i \in 1..(Len(Interest) - 1) : Interest[i][1] < Interest[i + 1][1]

VARIABLES
  screen,   \* the objects, with their times on the screen
  meshed,   \* the object whose mesh is being built
  mesh,     \* its count, done, rings and faces
  readPc

readVars == <<screen, meshed, mesh, readPc>>

-----------------------------------------------------------------------------
(***************************************************************************)
(* When an object is on the screen.                                        *)
(***************************************************************************)
Radius(o) == IF o.big THEN 71 ELSE 49
\* (int) (from - objs * space_unit)
Before(from, objs, o) == Trunc(100 * from - objs * (15000 \div o.bpm), 100)

\* tro_set_app_dis_offset.
OnScreen(o) ==
  [off |-> o.off, bpm |-> o.bpm, ps |-> o.ps, obj_app |-> o.app, obj_dis |-> o.dis,
   offset_app |-> Before(o.off, o.app + Radius(o), o),
   end_offset_app |-> Before(o.off, o.app - Radius(o), o),
   offset_dis |-> Before(o.end, o.dis + Radius(o), o),
   end_offset_dis |-> Before(o.end, o.dis - Radius(o), o),
   end_offset_dis_2 |-> Before(o.end, -Radius(o), o)]

\* tro_get_obj_hiding: the played objects that are still appearing after it has.
Hiding(objs, i) ==
  {j \in 1..(i - 1) : objs[j].ps # "MISS" /\ objs[j].end_offset_app > objs[i].offset_app}

\* equal: within 1%.
SameBpm(o1, o2) == 100 * (o2.bpm - o1.bpm) \in -o2.bpm..o2.bpm

\* tro_set_app_dis_offset_same_bpm: an object at the same speed appears when the one
\* that hides it disappears.
AppearsAfter(o, o2) == [o EXCEPT !.offset_app = o2.offset_dis, !.end_offset_app = o2.end_offset_dis]
Uncovered(objs, i) ==
  LET after[j \in 0..(i - 1)] ==
        IF j = 0 THEN objs[i]
        ELSE LET o == after[j - 1]
             IN IF j \in Hiding(objs, i) /\ SameBpm(o, objs[j]) /\ o.offset_app < objs[j].offset_dis
                THEN AppearsAfter(o, objs[j]) ELSE o
  IN after[i - 1]

\* The left and right borders, in hundredths, and -1 object out of bounds
\* (tro_eval_obj_front, tro_eval_obj_back, tro_set_line_coeff).
OnLine(o, offset, start) ==
  o.obj_app + ((o.obj_app - o.obj_dis) * (offset - start)) \div (o.offset_app - o.offset_dis)
FrontBorder(o, offset) ==
  IF offset \in o.offset_dis..o.end_offset_dis THEN o.obj_dis
  ELSE IF o.offset_app <= offset THEN OnLine(o, offset, o.offset_app) ELSE -100
BackBorder(o, offset) ==
  IF offset \in o.offset_app..o.end_offset_app THEN o.obj_app
  ELSE IF offset <= o.end_offset_dis THEN OnLine(o, offset, o.end_offset_app) ELSE -100

-----------------------------------------------------------------------------
(***************************************************************************)
(* The rings of the mesh.                                                  *)
(***************************************************************************)
Bend(o, count) == o.end_offset_dis_2 - Interest[count + 1][1]

\* The kinks of the interest that are after the object has disappeared are skipped.
\* (Mutant SkippedOne: at most one of them.)
SkippedOne(o, m) ==
  IF "END_OFFSET_DIS" \notin m.done /\ o.end_offset_dis # o.end_offset_dis_2
     /\ Bend(o, m.count) > o.end_offset_dis
  THEN m.count + 1 ELSE m.count
Skipped(o, m) ==
  IF "END_OFFSET_DIS" \in m.done \/ o.end_offset_dis = o.end_offset_dis_2 THEN m.count
  ELSE Min({c \in m.count..(Len(Interest) - 1) : Bend(o, c) <= o.end_offset_dis})

\* The latest time that is still to be done.
NextOffset(o, m) ==
  LET todo(mark, offset) == IF mark \in m.done THEN {} ELSE {offset}
  IN Max({Bend(o, Skipped(o, m))}
         \cup todo("END_OFFSET_APP", o.end_offset_app) \cup todo("OFFSET_DIS", o.offset_dis))

\* tro_mark_mesh_offset.
Marked(o, max) ==
  {mark \in {"END_OFFSET_APP", "OFFSET_DIS", "END_OFFSET_DIS"} :
     max = CASE mark = "END_OFFSET_APP" -> o.end_offset_app
             [] mark = "OFFSET_DIS" -> o.offset_dis
             [] mark = "END_OFFSET_DIS" -> o.end_offset_dis}
  \cup (IF max <= o.offset_app THEN {"OFFSET_APP"} ELSE {})
Mark(o, m, max) ==
  LET c == Skipped(o, m)
  IN [m EXCEPT !.count = IF max = Bend(o, c) THEN c + 1 ELSE c, !.done = @ \cup Marked(o, max)]

\* tro_get_next_mesh_offset, and whether it was the last one.
Advanced(o, m) ==
  IF m.count >= Len(Interest) THEN [m EXCEPT !.done = @ \cup {"OFFSET_APP"}]
  ELSE Mark(o, m, NextOffset(o, m))
Ended(m) == "OFFSET_APP" \in m.done

-----------------------------------------------------------------------------
(***************************************************************************)
(* The faces.  A vertex is named by its ring, its side and its height; the *)
(* first and the last ring are only a vertex, or an edge where there is    *)
(* interest.  An edge has its two vertices, a face its three edges.        *)
(***************************************************************************)
\* m.ends[n]: how ring n is ended, if it is.
V(m, n, side, h) ==
  CASE m.shape[n] = "ring" -> <<n, side, h>>
    [] m.shape[n] = "edge" -> <<n, "both", h>>
    [] m.shape[n] = "vertex" -> <<n, "both", "both">>
SideEdge(m, n, side) == <<V(m, n, side, "bot"), V(m, n, side, "top")>>
FlatEdge(m, n, h) == <<V(m, n, "back", h), V(m, n, "front", h)>>
Link(m, n, side, h) == <<V(m, n, side, h), V(m, n + 1, side, h)>>
Diag(m, n, side) == <<V(m, n, side, "top"), V(m, n + 1, side, "bot")>>
FlatDiag(m, n, h) == <<V(m, n, "back", h), V(m, n + 1, "front", h)>>

\* tro_add_face_front, back, top and bot, between the rings n and n + 1.
FrontFaces(m, n) ==
  {<<SideEdge(m, n, "front"), Diag(m, n, "front"), Link(m, n, "front", "bot")>>,
   <<Diag(m, n, "front"), Link(m, n, "front", "top"), SideEdge(m, n + 1, "front")>>}
BackFaces(m, n) ==
  {<<SideEdge(m, n, "back"), Link(m, n, "back", "bot"), Diag(m, n, "back")>>,
   <<Diag(m, n, "back"), SideEdge(m, n + 1, "back"), Link(m, n, "back", "top")>>}
TopFaces(m, n) ==
  {<<FlatEdge(m, n, "top"), FlatDiag(m, n, "top"), Link(m, n, "front", "top")>>,
   <<FlatDiag(m, n, "top"), Link(m, n, "back", "top"), FlatEdge(m, n + 1, "top")>>}
BotFaces(m, n) ==
  {<<FlatEdge(m, n, "bot"), Link(m, n, "front", "bot"), FlatDiag(m, n, "bot")>>,
   <<FlatDiag(m, n, "bot"), FlatEdge(m, n + 1, "bot"), Link(m, n, "back", "bot")>>}

\* tro_open_front_back_mesh and tro_open_mesh: from the end 1 to the ring 2.
OpenFaces(m) ==
  (IF m.shape[1] = "edge" THEN FrontFaces(m, 1) \cup BackFaces(m, 1)
   ELSE {<<SideEdge(m, 2, "front"), Link(m, 1, "front", "bot"), Link(m, 1, "front", "top")>>,
         <<SideEdge(m, 2, "back"), Link(m, 1, "back", "top"), Link(m, 1, "back", "bot")>>})
  \cup {<<FlatEdge(m, 2, "top"), Link(m, 1, "front", "top"), Link(m, 1, "back", "top")>>,
        <<FlatEdge(m, 2, "bot"), Link(m, 1, "back", "bot"), Link(m, 1, "front", "bot")>>}

\* tro_close_front_back_mesh and tro_close_mesh: from the ring n to the end n + 1.
CloseFaces(m, n) ==
  (IF m.shape[n + 1] = "edge" THEN FrontFaces(m, n) \cup BackFaces(m, n)
   ELSE {<<SideEdge(m, n, "front"), Link(m, n, "front", "top"), Link(m, n, "front", "bot")>>,
         <<SideEdge(m, n, "back"), Link(m, n, "back", "bot"), Link(m, n, "back", "top")>>})
  \cup {<<FlatEdge(m, n, "top"), Link(m, n, "back", "top"), Link(m, n, "front", "top")>>,
        <<FlatEdge(m, n, "bot"), Link(m, n, "front", "bot"), Link(m, n, "back", "bot")>>}

EndShape(o, offset) ==
  IF LfEval(Interest, o.end_offset_dis_2 - offset) = 0 THEN "vertex" ELSE "edge"

NoMesh == [count |-> 0, done |-> {}, rings |-> <<>>, shape |-> <<>>, faces |-> {}]

-----------------------------------------------------------------------------
(***************************************************************************)
(* trm_compute_reading, up to the volumes.                                 *)
(***************************************************************************)
SetOffsets ==
  /\ readPc = "offsets"
  /\ LET objs == [i \in DOMAIN screen |-> OnScreen(screen[i])]
     IN screen' = [i \in DOMAIN objs |-> Uncovered(objs, i)]
  /\ readPc' = "open"
  /\ UNCHANGED <<meshed, mesh>>

\* tro_set_mesh_base: without a first ring there is no mesh.
OpenMesh ==
  LET o == screen[meshed]
      m == Advanced(o, NoMesh)
      opened == [m EXCEPT !.rings = <<NextOffset(o, NoMesh)>>,
                          !.shape = <<EndShape(o, o.end_offset_dis), "ring">>]
  IN /\ readPc = "open"
     /\ IF Ended(m) THEN mesh' = NoMesh /\ readPc' = "seen"
        ELSE mesh' = [opened EXCEPT !.faces = OpenFaces(opened)] /\ readPc' = "rings"
     /\ UNCHANGED <<screen, meshed>>

\* One turn of tro_adv_mesh.
AdvMesh ==
  LET o == screen[meshed]
      m == Advanced(o, mesh)
      longer == [m EXCEPT !.rings = Append(@, NextOffset(o, mesh)), !.shape = Append(@, "ring")]
      n == Len(mesh.shape)
  IN /\ readPc = "rings" /\ ~Ended(m)
     /\ mesh' = [longer EXCEPT !.faces = @ \cup FrontFaces(longer, n) \cup BackFaces(longer, n)
                                           \cup TopFaces(longer, n) \cup BotFaces(longer, n)]
     /\ UNCHANGED <<screen, meshed, readPc>>

CloseMesh ==
  LET o == screen[meshed]
      m == Advanced(o, mesh)
      closed == [m EXCEPT !.shape = Append(@, EndShape(o, o.offset_app))]
  IN /\ readPc = "rings" /\ Ended(m)
     /\ mesh' = [closed EXCEPT !.faces = @ \cup CloseFaces(closed, Len(mesh.shape))]
     /\ readPc' = "seen"
     /\ UNCHANGED <<screen, meshed>>

\* What the mesh is for; then the next object, or the end.
NextMesh ==
  /\ readPc = "seen"
  /\ IF meshed = Len(screen) THEN readPc' = "done" /\ UNCHANGED <<meshed, mesh>>
     ELSE meshed' = meshed + 1 /\ mesh' = NoMesh /\ readPc' = "open"
  /\ UNCHANGED screen

ReadingNext == SetOffsets \/ OpenMesh \/ AdvMesh \/ CloseMesh \/ NextMesh

ReadingInit ==
  /\ screen \in ReadMaps
  /\ meshed = 1 /\ mesh = NoMesh /\ readPc = "offsets"

ReadingSpec == ReadingInit /\ [][ReadingNext]_readVars

-----------------------------------------------------------------------------
(***************************************************************************)
(* Properties.                                                             *)
(***************************************************************************)
\* gts_triangle_vertices: the vertices of a face in the order of its first two edges.
Around(f) ==
  LET common == CHOOSE v \in {f[1][1], f[1][2]} : v \in {f[2][1], f[2][2]}
      other(e) == IF e[1] = common THEN e[2] ELSE e[1]
  IN {<<other(f[1]), common>>, <<common, other(f[2])>>, <<other(f[2]), other(f[1])>>}

\* A mesh has a volume, as mesh_has_volume asks at run time: each face is a triangle,
\* and each edge is shared by exactly two faces, which go along it in opposite
\* directions.
Solid(faces) ==
  /\ \A f \in faces :
       {{d[1], d[2]} : d \in Around(f)} = {{f[n][1], f[n][2]} : n \in 1..3}
  /\ \A f \in faces : \A d \in Around(f) :
       /\ \A g \in faces \ {f} : d \notin Around(g)
       /\ Cardinality({g \in faces : <<d[2], d[1]>> \in Around(g)}) = 1

\* Between its appearance and its disappearance, the mesh of an object whose borders
\* move across the screen has a ring at each time where a border or the interest
\* bends, so that the volume is exact, and no other; its rings go back in time; and,
\* unless it is uncovered by an object of another size, its borders stay on the screen
\* and in their order, within a ms.  The code finds these times one by one, merging
\* three lists with marks and a counter that may jump (reading.c:334-377).
MeshSound ==
  LET o == screen[meshed]
      bends == {o.end_offset_dis_2 - Interest[n][1] : n \in DOMAIN Interest}
      inside == {t \in bends \cup {o.end_offset_app, o.offset_dis} :
                   t > o.offset_app /\ t < o.end_offset_dis}
      n == Len(mesh.rings)
      moves == /\ o.obj_app > o.obj_dis
               /\ o.offset_app < o.offset_dis /\ o.end_offset_app <= o.end_offset_dis
      even == o.end_offset_app - o.offset_app - (o.end_offset_dis - o.offset_dis) \in -1..1
      perMs == 1 + (o.obj_app - o.obj_dis) \div (o.offset_dis - o.offset_app)
  IN readPc = "seen" /\ moves =>
       /\ n > 0
       /\ inside \subseteq {mesh.rings[k] : k \in 1..n}
       /\ {mesh.rings[k] : k \in 1..n} \subseteq inside \cup {o.end_offset_dis}
       /\ \A k \in 1..(n - 1) : mesh.rings[k] > mesh.rings[k + 1]
       /\ even => \A k \in 1..n :
            /\ FrontBorder(o, mesh.rings[k]) \in o.obj_dis..o.obj_app
            /\ BackBorder(o, mesh.rings[k]) + perMs \in FrontBorder(o, mesh.rings[k])..(o.obj_app + perMs)
       /\ Solid(mesh.faces)
=============================================================================
