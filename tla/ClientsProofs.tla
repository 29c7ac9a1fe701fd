--------------------------- MODULE ClientsProofs ---------------------------
(***************************************************************************)
(* Proofs about the programs over libosux: the replay that parse_replay    *)
(* reads loses nothing but its end when its file is cut, the view of the   *)
(* viewer is always that of what is loaded, and the objects that a replay  *)
(* misses are explained by its presses.                                    *)
(***************************************************************************)
EXTENDS ParseReplay, Viewer, NatSets, SequenceTheorems

-----------------------------------------------------------------------------
(***************************************************************************)
(* The replay: CutLosesOnlyTheEnd.                                         *)
(***************************************************************************)
NbFields == 18

LEMMA FieldFacts ==
  /\ Len(Fields) = NbFields /\ F = 1..NbFields
  /\ \A i \in F : Fields[i][2] \in Nat
  /\ \A i, j \in F : Name(i) = Name(j) => i = j
  BY DEF F, Name, Fields, NbFields

LEMMA BytesPositive ==
  ASSUME NEW f \in Files, NEW i \in F
  PROVE  /\ Bytes(f, i) \in Nat \ {0}
         /\ Fields[i][2] > 0 => Bytes(f, i) = Fields[i][2]
         /\ Fields[i][2] = 0 => Bytes(f, i) = StringBytes(f.strings[Name(i)])
<1>1. CASE Fields[i][2] > 0
  BY <1>1, FieldFacts DEF Bytes
<1>2. CASE Fields[i][2] = 0
  <2>1. f.strings[Name(i)] \in Nat \cup {-1}
    BY <1>2, FilesAssumption
  <2>. QED
    BY <1>2, <2>1 DEF Bytes, StringBytes
<1>. QED
  BY <1>1, <1>2, FieldFacts

\* Where each field begins.
LEMMA OffsetDef ==
  ASSUME NEW f \in Files
  PROVE  /\ Offset(f) \in [1..NbFields + 1 -> Nat]
         /\ Offset(f)[1] = 0
         /\ \A i \in F : Offset(f)[i + 1] = Offset(f)[i] + Bytes(f, i)
<1>. DEFINE N == NbFields
           h == [x \in (1..N) \X Nat |-> x[2] + Bytes(f, x[1])]
<1>1. N \in Nat /\ F = 1..N /\ Len(Fields) = N
  BY FieldFacts DEF NbFields
<1>2. \A k \in 1..N : \A v \in Nat : h[<<k, v>>] = v + Bytes(f, k) /\ h[<<k, v>>] \in Nat
  BY <1>1, BytesPositive
<1>. HIDE DEF h, N
<1>3. PICK g \in [0..N -> Nat] : g = [k \in 0..N |-> IF k = 0 THEN 0 ELSE h[<<k, g[k - 1]>>]]
  <2>1. Steps(N, Nat, 0, h)
    BY <1>1, <1>2 DEF Steps
  <2>. QED
    BY <2>1, StepFunction
<1>. DEFINE Good(u) == u = [i \in 1..N + 1 |-> IF i = 1 THEN 0 ELSE u[i - 1] + Bytes(f, i - 1)]
           at == [i \in 1..N + 1 |-> g[i - 1]]
<1>4. Good(at)
  <2>1. ASSUME NEW i \in 1..N + 1
        PROVE  at[i] = IF i = 1 THEN 0 ELSE at[i - 1] + Bytes(f, i - 1)
    <3>1. CASE i = 1
      BY <1>1, <1>3, <3>1
    <3>2. CASE i # 1
      <4>1. i - 1 \in 1..N /\ i - 1 \in 0..N /\ i - 2 \in 0..N /\ i - 1 \in 1..N + 1 /\ (i - 1) - 1 = i - 2
        BY <1>1, <3>2
      <4>2. at[i] = g[i - 1] /\ at[i - 1] = g[i - 2] /\ g[i - 2] \in Nat
        BY <1>3, <4>1
      <4>3. g[i - 1] = h[<<i - 1, g[i - 2]>>]
        BY <1>3, <4>1
      <4>. QED
        BY <1>2, <3>2, <4>1, <4>2, <4>3
    <3>. QED
      BY <3>1, <3>2
  <2>. QED
    BY <2>1
<1>5. Offset(f) = CHOOSE u : Good(u)
  BY <1>1 DEF Offset
<1>6. Good(Offset(f))
  <2>. HIDE DEF Good, at
  <2>. QED
    BY <1>4, <1>5
<1>7. \A i \in F : Offset(f)[i + 1] = Offset(f)[i] + Bytes(f, i)
  <2>. SUFFICES ASSUME NEW i \in F  PROVE Offset(f)[i + 1] = Offset(f)[i] + Bytes(f, i)
    OBVIOUS
  <2>1. i + 1 \in 1..N + 1 /\ i + 1 # 1 /\ (i + 1) - 1 = i
    BY <1>1
  <2>. QED
    BY <1>6, <2>1
<1>8. Offset(f)[1] = 0
  BY <1>1, <1>6
<1>9. ASSUME NEW i \in 1..N + 1  PROVE Offset(f)[i] \in Nat
  <2>. DEFINE S == {n \in Nat : n + 1 \in 1..N + 1 => Offset(f)[n + 1] \in Nat}
  <2>1. 0 \in S
    BY <1>8
  <2>2. ASSUME NEW n \in Nat, n \in S  PROVE n + 1 \in S
    <3>. SUFFICES ASSUME (n + 1) + 1 \in 1..N + 1  PROVE Offset(f)[(n + 1) + 1] \in Nat
      OBVIOUS
    <3>1. n + 1 \in F /\ Offset(f)[n + 1] \in Nat
      BY <1>1, <2>2
    <3>. QED
      BY <1>7, <3>1, BytesPositive
  <2>3. \A n \in Nat : n \in S
    <3>. HIDE DEF S
    <3>. QED
      BY <2>1, <2>2, NatSetInduction
  <2>4. i - 1 \in Nat /\ (i - 1) + 1 = i
    BY <1>1
  <2>5. i - 1 \in S
    <3>. HIDE DEF S
    <3>. QED
      BY <2>3, <2>4
  <2>. QED
    BY <2>4, <2>5
<1>. QED
  BY <1>6, <1>7, <1>8, <1>9 DEF N

\* The position is where the next field begins, or that field is beyond the
\* end; what was read was filled from its own bytes just when they were there.
FieldStates == {"zero", "own", "other", "uninit"}
ReplayTypeOK ==
  /\ file \in Files
  /\ field \in 1..NbFields + 1
  /\ r \in 0..file.len
  /\ value \in [Names -> FieldStates]

ReadInv ==
  /\ r = Offset(file)[field] \/ Offset(file)[field] > file.len
  /\ \A i \in F : i < field => (value[Name(i)] = "own" <=> Offset(file)[i + 1] <= file.len)
  /\ \A i \in F : i >= field => value[Name(i)] = "zero"

ReplayInv == ReplayTypeOK /\ ReadInv

LEMMA ReadFieldKeeps ==
  ASSUME ReplayInv, ReadField
  PROVE  ReplayInv'
<1>. USE DEF ReplayInv, ReplayTypeOK
<1>. DEFINE n == Bytes(file, field)
           here == Offset(file)[field]
<1>1. /\ field \in F /\ field' = field + 1 /\ file' = file
      /\ field' \in 1..NbFields + 1
  BY FieldFacts DEF ReadField
<1>2. /\ file.len \in Nat /\ n \in Nat \ {0} /\ here \in Nat
      /\ Offset(file)[field'] = here + n
  <2>1. /\ Offset(file) \in [1..NbFields + 1 -> Nat]
        /\ \A i \in F : Offset(file)[i + 1] = Offset(file)[i] + Bytes(file, i)
    BY OffsetDef
  <2>. QED
    BY <1>1, <2>1, FilesAssumption, BytesPositive
<1>3. InPlace(field) <=> r = here
  BY DEF InPlace
<1>. HIDE DEF n, here
\* The four things that a read may do.
<1>4. \/ r + n <= file.len /\ r = here /\ r' = r + n
         /\ value' = [value EXCEPT ![Name(field)] = "own"]
      \/ r = here /\ r + n > file.len /\ r' \in r..file.len
         /\ value' \in {value, [value EXCEPT ![Name(field)] = "uninit"]}
      \/ r # here /\ r' \in r..file.len
         /\ value' \in {value, [value EXCEPT ![Name(field)] = "uninit"],
                        [value EXCEPT ![Name(field)] = "other"]}
  <2>1. CASE ReadValue(field)
    <3>1. Fields[field][2] > 0 /\ n = Fields[field][2]
      BY <1>1, <2>1, BytesPositive DEF ReadValue, n
    <3>. QED
      BY <1>1, <1>2, <1>3, <2>1, <3>1 DEF ReadValue, Fits, Fill
  <2>2. CASE ReadString(field)
    <3>1. PICK l \in IF InPlace(field) THEN {file.strings[Name(field)]} ELSE -1..MaxStray :
            IF ~Fits(1) THEN UNCHANGED <<r, value>>
            ELSE IF l >= 0 /\ ~Fits(2) THEN r' = r + 1 /\ UNCHANGED value
            ELSE IF ~Fits(StringBytes(l))
                 THEN r' = r + 2 /\ value' = [value EXCEPT ![Name(field)] = "uninit"]
                 ELSE r' = r + StringBytes(l) /\ Fill(field)
      BY <2>2 DEF ReadString
    <3>2. r = here => n = StringBytes(l)
      BY <1>1, <1>3, <2>2, <3>1, BytesPositive DEF n, ReadString
    <3>3. l \in Nat \cup {-1}
      <4>1. Fields[field][2] = 0
        BY <2>2 DEF ReadString
      <4>. QED
        BY <1>1, <1>3, <3>1, <4>1, FilesAssumption DEF MaxStray
    <3>4. StringBytes(l) = IF l = -1 THEN 1 ELSE 2 + l
      BY DEF StringBytes
    <3>5. CASE ~Fits(1)
      BY <1>2, <3>1, <3>5 DEF Fits
    <3>6. CASE Fits(1) /\ l >= 0 /\ ~Fits(2)
      BY <1>2, <3>1, <3>2, <3>3, <3>4, <3>6 DEF Fits
    <3>7. CASE Fits(1) /\ ~(l >= 0 /\ ~Fits(2)) /\ ~Fits(StringBytes(l))
      <4>1. r' = r + 2 /\ value' = [value EXCEPT ![Name(field)] = "uninit"]
        BY <3>1, <3>7
      <4>2. r + 2 <= file.len /\ StringBytes(l) \in Nat /\ r + StringBytes(l) > file.len
        BY <1>2, <3>3, <3>4, <3>7 DEF Fits
      <4>. QED
        BY <1>2, <3>2, <4>1, <4>2
    <3>8. CASE Fits(1) /\ ~(l >= 0 /\ ~Fits(2)) /\ Fits(StringBytes(l))
      <4>1. r' = r + StringBytes(l) /\ Fill(field)
        BY <3>1, <3>8
      <4>2. StringBytes(l) \in Nat /\ r + StringBytes(l) <= file.len
        BY <1>2, <3>3, <3>4, <3>8 DEF Fits
      <4>3. CASE r = here
        <5>1. value' = [value EXCEPT ![Name(field)] = "own"]
          BY <1>3, <4>1, <4>3 DEF Fill
        <5>. QED
          BY <3>2, <4>1, <4>2, <4>3, <5>1
      <4>4. CASE r # here
        <5>1. value' = [value EXCEPT ![Name(field)] = "other"]
          BY <1>3, <4>1, <4>4 DEF Fill
        <5>. QED
          BY <1>2, <4>1, <4>2, <4>4, <5>1
      <4>. QED
        BY <4>3, <4>4
    <3>. QED
      BY <3>5, <3>6, <3>7, <3>8
  <2>. QED
    BY <2>1, <2>2 DEF ReadField
<1>5. ReplayTypeOK'
  <2>1. r' \in 0..file.len
    BY <1>2, <1>4
  <2>2. value' \in [Names -> FieldStates]
    <3>1. \A w \in FieldStates : [value EXCEPT ![Name(field)] = w] \in [Names -> FieldStates]
      OBVIOUS
    <3>. QED
      BY <1>4, <3>1 DEF FieldStates
  <2>. QED
    BY <1>1, <2>1, <2>2
\* Only the field that is read changes.
<1>6. /\ Name(field) \in Names /\ value[Name(field)] = "zero"
      /\ \A i \in F : i # field => value'[Name(i)] = value[Name(i)]
  <2>1. \A i \in F : Name(i) \in Names /\ (i # field => Name(i) # Name(field))
    BY <1>1, FieldFacts DEF Names
  <2>2. value[Name(field)] = "zero"
    BY <1>1, FieldFacts DEF ReadInv
  <2>. QED
    BY <1>1, <1>4, <2>1, <2>2
<1>7. r' = Offset(file)[field'] \/ Offset(file)[field'] > file.len
  BY <1>2, <1>4 DEF ReadInv, here
<1>8. value'[Name(field)] = "own" <=> Offset(file)[field'] <= file.len
  <2>1. r # here => here > file.len
    BY DEF ReadInv, here
  <2>. QED
    BY <1>2, <1>4, <1>6, <2>1
<1>9. ReadInv'
  <2>1. ASSUME NEW i \in F, i < field'
        PROVE  value'[Name(i)] = "own" <=> Offset(file)[i + 1] <= file.len
    <3>1. CASE i = field
      BY <1>1, <1>8, <3>1
    <3>2. CASE i # field
      BY <1>1, <1>6, <2>1, <3>2, FieldFacts DEF ReadInv
    <3>. QED
      BY <3>1, <3>2
  <2>2. ASSUME NEW i \in F, i >= field'  PROVE value'[Name(i)] = "zero"
    BY <1>1, <1>6, <2>2, FieldFacts DEF ReadInv
  <2>. QED
    BY <1>1, <1>7, <2>1, <2>2 DEF ReadInv
<1>. QED
  BY <1>5, <1>9

LEMMA ReplayInvariant == ToolSpec => []ReplayInv
<1>1. ToolInit => ReplayInv
  <2>. SUFFICES ASSUME ReplayInit  PROVE ReplayInv
    BY DEF ToolInit
  <2>1. file.len \in Nat /\ Offset(file)[1] = 0
    BY FilesAssumption, OffsetDef DEF ReplayInit
  <2>2. \A i \in F : Name(i) \in Names
    BY DEF Names
  <2>3. value \in [Names -> FieldStates] /\ \A i \in F : value[Name(i)] = "zero"
    BY <2>2 DEF ReplayInit, FieldStates
  <2>4. field \in 1..NbFields + 1 /\ r \in 0..file.len /\ file \in Files /\ r = Offset(file)[field]
    BY <2>1 DEF ReplayInit, NbFields
  <2>5. \A i \in F : ~(i < field)
    BY FieldFacts DEF ReplayInit
  <2>. QED
    BY <2>3, <2>4, <2>5 DEF ReplayInv, ReplayTypeOK, ReadInv
<1>2. ReplayInv /\ [ToolNext]_toolVars => ReplayInv'
  <2>. SUFFICES ASSUME ReplayInv, [ToolNext]_toolVars  PROVE ReplayInv'
    OBVIOUS
  <2>1. CASE ReadField
    BY <2>1, ReadFieldKeeps
  <2>2. CASE UNCHANGED <<file, r, field, value>>
    BY <2>2 DEF ReplayInv, ReplayTypeOK, ReadInv
  <2>3. ReadField \/ UNCHANGED <<file, r, field, value>>
    BY DEF ToolNext, toolVars, replayVars, LoadReturns, Lookup, ComputeHits, Free, Load,
           ReplayNext, BeginInflate, Inflate, EndInflate
  <2>. QED
    BY <2>1, <2>2, <2>3
<1>. QED
  BY <1>1, <1>2, PTL DEF ToolSpec

\* parse_replay never takes a field it read in part, or from the bytes of another
\* one, for one it read whole, and never loses one that is whole in the file,
\* wherever that is cut (osux_replay_init looks at the result of no read).
THEOREM CutAlwaysLosesOnlyTheEnd == ToolSpec => []CutLosesOnlyTheEnd
<1>1. ReplayInv => CutLosesOnlyTheEnd
  BY FieldFacts DEF ReplayInv, ReplayTypeOK, ReadInv, CutLosesOnlyTheEnd
<1>. QED
  BY <1>1, ReplayInvariant, PTL

-----------------------------------------------------------------------------
(***************************************************************************)
(* The viewer: ViewIsCurrent.                                              *)
(***************************************************************************)
Loaded(kinds) == {Nothing} \cup [seq : Nat \ {0}, file : kinds]
ModSets == {f.mods : f \in ReplayFiles} \cup {{}}
States == {"ready", "paused", "playing"}
Views == [on : {TRUE}, objects : Nat, shown : Nat, mods : ModSets, cursor : Nat,
          playing : BOOLEAN, tick : BOOLEAN, adjust : Int, length : Int]
Players == [id : Nat, state : States, target : States, early : Int, at : Int]
Messages == [id : Nat, what : {"playing", "error"}]
Calls == [kind : {"chooser"}] \cup [kind : {"open"}, files : Seq(BeatmapFiles)]
         \cup [kind : {"error"}, seq : Nat]

ViewerTypeOK ==
  /\ app \in [beatmap : Loaded(BeatmapFiles), replay : Loaded(ReplayFiles), button : BOOLEAN]
  /\ view \in {NoView} \cup Views
  /\ refs \in [1..MaxLoads -> Int]
  /\ loads \in Nat
  /\ calls \in Seq(Calls)
  /\ player \in Players
  /\ bus \in Seq(Messages)

\* What is shown is what is loaded.
Shows ==
  /\ view.on <=> app.beatmap # Nothing
  /\ app.replay # Nothing => app.beatmap # Nothing /\ app.replay.file.hash = app.beatmap.file.hash
  /\ view.on =>
       /\ view.objects = app.beatmap.seq
       /\ view.cursor = app.replay.seq
       /\ view.mods = (IF app.replay = Nothing THEN {} ELSE app.replay.file.mods)
       /\ (view.shown = view.objects) <=> (view.mods = {})
       /\ view.playing <=> view.tick

\* No sequence is used for two things, but that a beatmap's objects are shown
\* when no mod changes them.
Uses ==
  /\ app.beatmap.seq <= loads
  /\ app.replay.seq <= loads
  /\ app.replay # Nothing => app.replay.seq # app.beatmap.seq
  /\ view.on => view.shown \in 1..loads /\ view.shown # app.replay.seq
  /\ \A i \in DOMAIN calls : calls[i].kind = "error" /\ calls[i].seq # None =>
       /\ calls[i].seq \in 1..loads
       /\ calls[i].seq \notin {app.beatmap.seq, app.replay.seq}
       /\ view.on => calls[i].seq # view.shown
       /\ \A j \in DOMAIN calls : j # i /\ calls[j].kind = "error" => calls[j].seq # calls[i].seq

\* Every use has its reference.
One(a, b) == IF a = b THEN 1 ELSE 0
UsesOf(seq) == One(app.beatmap.seq, seq) + One(app.replay.seq, seq)
               + (IF view.on THEN One(view.objects, seq) + One(view.shown, seq) ELSE 0)
Counted ==
  /\ \A seq \in 1..MaxLoads : UsesOf(seq) <= refs[seq] /\ refs[seq] <= MaxRefs
  /\ \A i \in DOMAIN calls : calls[i].kind = "error" /\ calls[i].seq \in 1..MaxLoads =>
       refs[calls[i].seq] >= 1

Heard == \A i \in DOMAIN bus : view.on /\ bus[i].id = player.id

ViewerInv == ViewerTypeOK /\ Shows /\ Uses /\ Counted /\ Heard

\* The parts of a call stack.
LEMMA FrontLast ==
  ASSUME NEW A, NEW s \in Seq(A), s # << >>
  PROVE  /\ Front(s) \in Seq(A) /\ Last(s) \in A
         /\ Len(s) \in Nat /\ Len(s) >= 1 /\ DOMAIN s = 1..Len(s)
         /\ DOMAIN Front(s) = 1..Len(s) - 1 /\ Len(Front(s)) = Len(s) - 1
         /\ \A i \in 1..Len(s) - 1 : Front(s)[i] = s[i]
         /\ Last(s) = s[Len(s)]
<1>1. Len(s) \in Nat /\ Len(s) >= 1 /\ \A i \in 1..Len(s) : s[i] \in A
  BY EmptySeq, LenProperties
<1>2. /\ SubSeq(s, 1, Len(s) - 1) \in Seq(A)
      /\ Len(SubSeq(s, 1, Len(s) - 1)) = Len(s) - 1
      /\ \A i \in 1..Len(s) - 1 : SubSeq(s, 1, Len(s) - 1)[i] = s[i]
  <2>1. Len(s) - 1 \in Int /\ \A i \in 1..Len(s) - 1 : s[i] \in A
    BY <1>1
  <2>. DEFINE n == Len(s) - 1
  <2>2. 1 \in Int /\ n \in Int /\ \A i \in 1..n : s[i] \in A
    BY <2>1
  <2>3. n >= 0
    BY <1>1
  <2>. HIDE DEF n
  <2>4. /\ SubSeq(s, 1, n) \in Seq(A)
        /\ Len(SubSeq(s, 1, n)) = IF 1 <= n THEN n - 1 + 1 ELSE 0
        /\ \A i \in 1..n - 1 + 1 : SubSeq(s, 1, n)[i] = s[1 + i - 1]
    BY <2>2, SubSeqProperties
  <2>. DEFINE w == SubSeq(s, 1, n)
  <2>. HIDE DEF w
  <2>5. w \in Seq(A) /\ Len(w) = n /\ \A i \in 1..n : w[i] = s[i]
    BY <2>2, <2>3, <2>4 DEF w
  <2>. QED
    BY <2>5 DEF w, n
<1>. QED
  BY <1>1, <1>2 DEF Front, Last

LEMMA AppendIs ==
  ASSUME NEW A, NEW s \in Seq(A), NEW x \in A
  PROVE  /\ Append(s, x) \in Seq(A)
         /\ Len(Append(s, x)) = Len(s) + 1 /\ Len(s) \in Nat
         /\ DOMAIN s = 1..Len(s) /\ DOMAIN Append(s, x) = 1..Len(s) + 1
         /\ \A i \in 1..Len(s) : Append(s, x)[i] = s[i]
         /\ Append(s, x)[Len(s) + 1] = x
  BY AppendProperties, LenProperties

LEMMA SetTo ==
  ASSUME NEW rs \in [1..MaxLoads -> Int], NEW s, NEW v \in Int
  PROVE  /\ [rs EXCEPT ![s] = v] \in [1..MaxLoads -> Int]
         /\ \A t \in 1..MaxLoads : [rs EXCEPT ![s] = v][t] = IF t = s THEN v ELSE rs[t]
<1>. DEFINE b == [rs EXCEPT ![s] = v]
<1>1. DOMAIN b = 1..MaxLoads /\ b = [t \in 1..MaxLoads |-> b[t]]
  OBVIOUS
<1>2. \A t \in 1..MaxLoads : b[t] = IF t = s THEN v ELSE rs[t]
  OBVIOUS
<1>. HIDE DEF b
<1>3. b \in [1..MaxLoads -> Int]
  BY <1>1, <1>2
<1>. QED
  BY <1>2, <1>3 DEF b

\* What the operations on references do to each.
LEMMA RefsPointwise ==
  ASSUME NEW rs \in [1..MaxLoads -> Int], \A t \in 1..MaxLoads : rs[t] <= MaxRefs,
         NEW s \in Nat
  PROVE  /\ SequenceRef(rs, s) \in [1..MaxLoads -> Int]
         /\ SequenceUnref(rs, s) = SequenceRef(rs, s)
         /\ \A t \in 1..MaxLoads :
              SequenceRef(rs, s)[t] = IF t = s /\ rs[t] < MaxRefs THEN rs[t] + 1 ELSE rs[t]
         /\ Clear(rs, s) \in [1..MaxLoads -> Int]
         /\ \A t \in 1..MaxLoads : Clear(rs, s)[t] = IF t = s THEN rs[t] - 1 ELSE rs[t]
<1>. USE ViewerAssumption DEF Add
<1>. DEFINE up == Add(rs, s, 1)
           down == Add(rs, s, -1)
<1>1. DOMAIN up = 1..MaxLoads /\ DOMAIN down = 1..MaxLoads
      /\ up = [t \in 1..MaxLoads |-> up[t]] /\ down = [t \in 1..MaxLoads |-> down[t]]
  OBVIOUS
<1>2. \A t \in 1..MaxLoads : up[t] = IF t = s /\ rs[t] < MaxRefs THEN rs[t] + 1 ELSE rs[t]
  OBVIOUS
<1>3. \A t \in 1..MaxLoads : down[t] = IF t = s THEN rs[t] - 1 ELSE rs[t]
  OBVIOUS
<1>4. SequenceRef(rs, s) = up /\ SequenceUnref(rs, s) = up
  BY DEF SequenceRef, SequenceUnref
<1>5. Clear(rs, s) = IF s = None THEN rs ELSE down
  BY DEF Clear
<1>. HIDE DEF up, down
<1>6. up \in [1..MaxLoads -> Int] /\ down \in [1..MaxLoads -> Int]
  BY <1>1, <1>2, <1>3
<1>7. s = None => \A t \in 1..MaxLoads : t # s
  BY DEF None
<1>. QED
  BY <1>2, <1>3, <1>4, <1>5, <1>6, <1>7

\* The sequences of what is loaded, and of the view.
LEMMA SeqFacts ==
  ASSUME ViewerTypeOK
  PROVE  /\ app.beatmap.seq \in Nat /\ app.replay.seq \in Nat
         /\ app.beatmap = Nothing <=> app.beatmap.seq = 0
         /\ app.replay = Nothing <=> app.replay.seq = 0
         /\ app.beatmap # Nothing => app.beatmap.file \in BeatmapFiles
         /\ app.replay # Nothing => app.replay.file \in ReplayFiles
         /\ app.button \in BOOLEAN
         /\ view.on \in BOOLEAN
         /\ view.on => /\ view.objects \in Nat /\ view.shown \in Nat /\ view.cursor \in Nat
                       /\ view.mods \in ModSets /\ view.length \in Int /\ view.adjust \in Int
<1>. USE DEF ViewerTypeOK, Nothing, None
<1>1. app.beatmap = Nothing \/ app.beatmap \in [seq : Nat \ {0}, file : BeatmapFiles]
  BY DEF Loaded
<1>2. app.replay = Nothing \/ app.replay \in [seq : Nat \ {0}, file : ReplayFiles]
  BY DEF Loaded
<1>3. app.button \in BOOLEAN
  OBVIOUS
<1>4. view = NoView \/ view \in Views
  OBVIOUS
<1>5. /\ app.beatmap.seq \in Nat
      /\ app.beatmap = Nothing <=> app.beatmap.seq = 0
      /\ app.beatmap # Nothing => app.beatmap.file \in BeatmapFiles
  BY <1>1
<1>6. /\ app.replay.seq \in Nat
      /\ app.replay = Nothing <=> app.replay.seq = 0
      /\ app.replay # Nothing => app.replay.file \in ReplayFiles
  BY <1>2
<1>7. view.on \in BOOLEAN /\ (view.on => view # NoView)
  <2>1. CASE view = NoView
    <3>1. view.on = FALSE
      BY <2>1 DEF NoView
    <3>. QED
      BY <2>1, <3>1
  <2>2. CASE view # NoView
    <3>1. view.on = TRUE
      BY <1>4, <2>2 DEF Views
    <3>. QED
      BY <2>2, <3>1
  <2>. QED
    BY <2>1, <2>2
<1>8. view # NoView =>
        /\ view.objects \in Nat /\ view.shown \in Nat /\ view.cursor \in Nat
        /\ view.mods \in ModSets /\ view.length \in Int /\ view.adjust \in Int
  BY <1>4 DEF Views
<1>. QED
  BY <1>3, <1>5, <1>6, <1>7, <1>8

\* Closing what is loaded gives back just the references it has.
LEMMA ClosedRefs ==
  ASSUME ViewerInv, app.beatmap # Nothing, NEW closed,
         closed = Clear(Clear(DisposeView(refs), app.beatmap.seq), app.replay.seq)
  PROVE  /\ closed \in [1..MaxLoads -> Int]
         /\ \A t \in 1..MaxLoads : closed[t] = refs[t] - UsesOf(t)
<1>. DEFINE r1 == Clear(refs, view.objects)
           r2 == Clear(r1, view.shown)
           r3 == Clear(r2, app.beatmap.seq)
           Less(a, b, s) == /\ b \in [1..MaxLoads -> Int]
                            /\ \A t \in 1..MaxLoads : b[t] = a[t] - One(s, t)
                            /\ \A t \in 1..MaxLoads : b[t] <= MaxRefs
<1>1. view.on /\ refs \in [1..MaxLoads -> Int] /\ \A t \in 1..MaxLoads : refs[t] <= MaxRefs
  BY DEF ViewerInv, ViewerTypeOK, Counted, Shows
<1>2. /\ app.beatmap.seq \in Nat /\ app.replay.seq \in Nat
      /\ view.objects \in Nat /\ view.shown \in Nat
  BY <1>1, SeqFacts DEF ViewerInv
<1>3. closed = Clear(r3, app.replay.seq)
  BY <1>1 DEF DisposeView
<1>4. ASSUME NEW rs \in [1..MaxLoads -> Int], \A t \in 1..MaxLoads : rs[t] <= MaxRefs, NEW s \in Nat
      PROVE  Less(rs, Clear(rs, s), s)
  <2>. DEFINE b == Clear(rs, s)
  <2>1. b \in [1..MaxLoads -> Int] /\ \A t \in 1..MaxLoads : b[t] = IF t = s THEN rs[t] - 1 ELSE rs[t]
    BY <1>4, RefsPointwise
  <2>2. MaxRefs \in Nat
    BY ViewerAssumption
  <2>. HIDE DEF b
  <2>3. Less(rs, b, s)
    BY <1>4, <2>1, <2>2 DEF One
  <2>. QED
    BY <2>3 DEF b
<1>5. Less(refs, r1, view.objects)
  BY <1>1, <1>2, <1>4
<1>6. Less(r1, r2, view.shown)
  <2>. HIDE DEF r1
  <2>. QED
    BY <1>2, <1>4, <1>5
<1>7. Less(r2, r3, app.beatmap.seq)
  <2>. HIDE DEF r2
  <2>. QED
    BY <1>2, <1>4, <1>6
<1>8. Less(r3, closed, app.replay.seq)
  <2>. HIDE DEF r3
  <2>1. Less(r3, Clear(r3, app.replay.seq), app.replay.seq)
    BY <1>2, <1>4, <1>7
  <2>. QED
    BY <1>3, <2>1
<1>. HIDE DEF r1, r2, r3
<1>9. ASSUME NEW t \in 1..MaxLoads  PROVE closed[t] = refs[t] - UsesOf(t)
  <2>1. /\ One(view.objects, t) \in Int /\ One(view.shown, t) \in Int
        /\ One(app.beatmap.seq, t) \in Int /\ One(app.replay.seq, t) \in Int
    BY DEF One
  <2>2. UsesOf(t) = One(app.beatmap.seq, t) + One(app.replay.seq, t)
                    + (One(view.objects, t) + One(view.shown, t))
    BY <1>1 DEF UsesOf
  <2>3. refs[t] \in Int
    BY <1>1
  <2>. HIDE DEF One
  <2>. QED
    BY <1>5, <1>6, <1>7, <1>8, <2>1, <2>2, <2>3
<1>. QED
  BY <1>8, <1>9

\* What stops the player empties the bus.
LEMMA StopEmpties ==
  ASSUME ViewerInv, StopPipeline
  PROVE  bus' = << >>
<1>. DEFINE T == {i \in DOMAIN bus : view.on => bus[i].id # player.id}
           A == Messages
<1>1. bus \in Seq(A) /\ bus' = Kept(bus, T)
  BY DEF ViewerInv, ViewerTypeOK, StopPipeline
<1>2. T = {}
  BY DEF ViewerInv, Heard
<1>. HIDE DEF T, A
<1>3. PICK pos : KeptAt(pos, bus', bus, T, Len(bus))
  BY <1>1, KeptIs
<1>4. bus' \in Seq(A)
  BY <1>1, KeptIs
<1>5. \A k \in 1..Len(bus') : FALSE
  BY <1>2, <1>3 DEF KeptAt
<1>. QED
  BY <1>4, <1>5, EmptySeq, LenProperties

\* What keeps the invariant when nothing is loaded or closed.
LEMMA SameUses ==
  ASSUME ViewerInv, UNCHANGED <<app, loads>>, ViewerTypeOK',
         view'.on = view.on,
         view.on => view'.objects = view.objects /\ view'.shown = view.shown,
         \A t \in 1..MaxLoads : refs'[t] >= refs[t] /\ refs'[t] <= MaxRefs,
         \A i \in DOMAIN calls' : calls'[i].kind = "error" => i \in DOMAIN calls /\ calls[i] = calls'[i]
  PROVE  Uses' /\ Counted'
<1>1. Uses'
  BY DEF ViewerInv, Uses
<1>2. ASSUME NEW t \in 1..MaxLoads  PROVE UsesOf(t)' = UsesOf(t) /\ UsesOf(t) \in Int
  BY DEF UsesOf, One
<1>3. Counted'
  <2>0. refs \in [1..MaxLoads -> Int] /\ refs' \in [1..MaxLoads -> Int]
    BY DEF ViewerInv, ViewerTypeOK
  <2>1. ASSUME NEW t \in 1..MaxLoads  PROVE UsesOf(t)' <= refs'[t] /\ refs'[t] <= MaxRefs
    <3>1. UsesOf(t) <= refs[t] /\ refs'[t] >= refs[t] /\ refs[t] \in Int /\ refs'[t] \in Int
      BY <2>0 DEF ViewerInv, Counted
    <3>. QED
      BY <1>2, <3>1
  <2>2. ASSUME NEW i \in DOMAIN calls', calls'[i].kind = "error", calls'[i].seq \in 1..MaxLoads
        PROVE  refs'[calls'[i].seq] >= 1
    BY <2>2 DEF ViewerInv, ViewerTypeOK, Counted
  <2>. QED
    BY <2>1, <2>2 DEF Counted
<1>. QED
  BY <1>1, <1>3

\* The calls that may open a file.
LEMMA CallsKeep ==
  ASSUME ViewerInv,
         OpenAction \/ OpenAnswer \/ ApplicationOpen
  PROVE  ViewerInv'
<1>. USE DEF ViewerInv
<1>1. UNCHANGED <<app, view, refs, loads, player, bus>>
  BY DEF OpenAction, OpenAnswer, ApplicationOpen
<1>2. /\ calls' \in Seq(Calls)
      /\ \A i \in DOMAIN calls' : calls'[i].kind = "error" => i \in DOMAIN calls /\ calls[i] = calls'[i]
  <2>0. calls \in Seq(Calls)
    BY DEF ViewerTypeOK
  <2>1. CASE OpenAction
    <3>. DEFINE c == [kind |-> "chooser"]
    <3>1. c \in Calls /\ c.kind # "error"
      BY DEF Calls
    <3>2. calls' = Append(calls, c)
      BY <2>1 DEF OpenAction
    <3>. HIDE DEF c
    <3>. QED
      BY <2>0, <3>1, <3>2, AppendIs
  <2>2. CASE OpenAnswer
    <3>0. calls # << >>
      BY <2>2 DEF OpenAnswer
    <3>1. CASE Return
      BY <2>0, <3>0, <3>1, FrontLast DEF Return
    <3>2. CASE \E f \in BeatmapFiles : calls' = Append(Front(calls), [kind |-> "open", files |-> <<f>>])
      <4>1. PICK f \in BeatmapFiles : calls' = Append(Front(calls), [kind |-> "open", files |-> <<f>>])
        BY <3>2
      <4>. DEFINE c == [kind |-> "open", files |-> <<f>>]
                 w == Front(calls)
      <4>2. c \in Calls /\ c.kind # "error"
        BY DEF Calls
      <4>3. /\ w \in Seq(Calls) /\ Len(w) = Len(calls) - 1 /\ Len(calls) \in Nat
            /\ \A i \in 1..Len(w) : w[i] = calls[i]
            /\ DOMAIN calls = 1..Len(calls)
        BY <2>0, <3>0, FrontLast
      <4>4. calls' = Append(w, c)
        BY <4>1
      <4>. HIDE DEF c, w
      <4>. QED
        BY <4>2, <4>3, <4>4, AppendIs
    <3>. QED
      BY <2>2, <3>1, <3>2 DEF OpenAnswer
  <2>3. CASE ApplicationOpen
    <3>1. PICK f \in BeatmapFiles, g \in BeatmapFiles :
            calls' = Append(calls, [kind |-> "open", files |-> <<f, g>>])
      BY <2>3 DEF ApplicationOpen
    <3>. DEFINE c == [kind |-> "open", files |-> <<f, g>>]
    <3>2. c \in Calls /\ c.kind # "error"
      BY DEF Calls
    <3>3. calls' = Append(calls, c)
      BY <3>1
    <3>. HIDE DEF c
    <3>. QED
      BY <2>0, <3>2, <3>3, AppendIs
  <2>. QED
    BY <2>1, <2>2, <2>3
<1>3. ViewerTypeOK'
  BY <1>1, <1>2 DEF ViewerTypeOK
<1>4. Shows' /\ Heard'
  BY <1>1 DEF Shows, Heard
<1>5. Uses' /\ Counted'
  <2>0. refs \in [1..MaxLoads -> Int]
    BY DEF ViewerTypeOK
  <2>1. \A t \in 1..MaxLoads : refs'[t] >= refs[t] /\ refs'[t] <= MaxRefs
    BY <1>1, <2>0 DEF Counted
  <2>. QED
    BY <1>1, <1>2, <1>3, <2>1, SameUses
<1>. QED
  BY <1>3, <1>4, <1>5

\* What the player's calls and threads may change.
Moved ==
  /\ view' \in {NoView} \cup Views
  /\ view'.on = view.on
  /\ view.on => /\ view'.objects = view.objects /\ view'.shown = view.shown
                /\ view'.mods = view.mods /\ view'.cursor = view.cursor
                /\ view'.playing <=> view'.tick
  /\ player' \in Players /\ player'.id = player.id

LEMMA MovedKeeps ==
  ASSUME ViewerInv, UNCHANGED <<app, refs, loads, calls>>, Moved, bus' \in Seq(Messages), Heard'
  PROVE  ViewerInv'
<1>. USE DEF ViewerInv
<1>1. ViewerTypeOK'
  BY DEF ViewerTypeOK, Moved
<1>2. Shows'
  <2>1. view'.on = view.on /\ app' = app
    BY DEF Moved
  <2>2. CASE view.on
    BY <2>1, <2>2 DEF Shows, Moved
  <2>3. CASE ~view.on
    BY <2>1, <2>3 DEF Shows
  <2>. QED
    BY <2>2, <2>3
<1>3. Uses' /\ Counted'
  <2>0. refs \in [1..MaxLoads -> Int]
    BY DEF ViewerTypeOK
  <2>1. \A t \in 1..MaxLoads : refs'[t] >= refs[t] /\ refs'[t] <= MaxRefs
    BY <2>0 DEF Counted
  <2>2. /\ view'.on = view.on
        /\ view.on => view'.objects = view.objects /\ view'.shown = view.shown
    BY DEF Moved
  <2>. QED
    BY <1>1, <2>1, <2>2, SameUses
<1>. QED
  BY <1>1, <1>2, <1>3

LEMMA SetStateIs ==
  ASSUME NEW p0 \in Players, NEW s \in States
  PROVE  SetState(p0, s) \in Players /\ SetState(p0, s).id = p0.id
<1>1. /\ [p0 EXCEPT !.state = "ready", !.target = "ready"] \in Players
      /\ [p0 EXCEPT !.state = "paused", !.target = "paused"] \in Players
      /\ [p0 EXCEPT !.target = s] \in Players
  BY DEF Players, States
<1>2. /\ [p0 EXCEPT !.state = "ready", !.target = "ready"].id = p0.id
      /\ [p0 EXCEPT !.state = "paused", !.target = "paused"].id = p0.id
      /\ [p0 EXCEPT !.target = s].id = p0.id
  BY DEF Players
<1>. QED
  BY <1>1, <1>2 DEF SetState

LEMMA SeekIs ==
  ASSUME NEW p0 \in Players, NEW offset \in Int
  PROVE  Seek(p0, offset) \in Players /\ Seek(p0, offset).id = p0.id
<1>1. /\ [p0 EXCEPT !.at = offset, !.state = "paused"] \in Players
      /\ [p0 EXCEPT !.early = offset] \in Players
  BY DEF Players, States
<1>2. /\ [p0 EXCEPT !.at = offset, !.state = "paused"].id = p0.id
      /\ [p0 EXCEPT !.early = offset].id = p0.id
  BY DEF Players
<1>. QED
  BY <1>1, <1>2 DEF Seek

LEMMA AdjustmentMoves ==
  ASSUME ViewerInv, view.on, NEW place \in Int, NEW p0 \in Players, p0.id = player.id,
         AdjustmentSet(place, p0)
  PROVE  Moved
<1>. DEFINE at == IF place > view.length THEN view.length ELSE place
           ends == at # view.adjust /\ at >= view.length /\ view.playing
<1>1. view \in Views /\ (view.playing <=> view.tick)
  BY DEF ViewerInv, ViewerTypeOK, NoView, Shows
<1>2. at \in Int /\ ends \in BOOLEAN
  BY <1>1 DEF Views
<1>3. /\ view' = [view EXCEPT !.adjust = at, !.playing = @ /\ ~ends, !.tick = @ /\ ~ends]
      /\ player' = IF ends THEN SetState(p0, "paused") ELSE p0
  BY DEF AdjustmentSet
<1>. HIDE DEF at, ends
<1>4. player' \in Players /\ player'.id = player.id
  BY <1>3, SetStateIs DEF States
<1>5. CASE ends
  <2>1. view' = [view EXCEPT !.adjust = at, !.playing = FALSE, !.tick = FALSE]
    BY <1>3, <1>5
  <2>. QED
    BY <1>1, <1>2, <1>4, <2>1 DEF Moved, Views
<1>6. CASE ~ends
  <2>1. view' = [view EXCEPT !.adjust = at, !.playing = view.playing, !.tick = view.tick]
    BY <1>1, <1>3, <1>6 DEF Views
  <2>. QED
    BY <1>1, <1>2, <1>4, <2>1 DEF Moved, Views
<1>. QED
  BY <1>2, <1>5, <1>6

\* The music is played, sought and stopped, and frames are drawn.
LEMMA PlayerKeeps ==
  ASSUME ViewerInv,
         PlayClicked \/ PauseClicked \/ RangeClicked \/ AnimatePlay
         \/ StateChanges \/ PipelineFails \/ Finished \/ Message
  PROVE  ViewerInv'
<1>. USE DEF ViewerInv
<1>0. UNCHANGED <<app, refs, loads, calls>>
  BY DEF PlayClicked, PauseClicked, RangeClicked, AnimatePlay, StateChanges, PipelineFails,
         Finished, Message
<1>1. /\ view \in {NoView} \cup Views /\ player \in Players /\ bus \in Seq(Messages)
      /\ view.on => view \in Views /\ (view.playing <=> view.tick)
  BY DEF ViewerTypeOK, NoView, Shows
<1>2. Moved
  <2>1. CASE PlayClicked
    <3>1. view' = [view EXCEPT !.playing = TRUE, !.tick = TRUE] /\ view \in Views
          /\ player' = SetState(player, "playing")
      BY <1>1, <2>1 DEF PlayClicked
    <3>2. player' \in Players /\ player'.id = player.id
      BY <1>1, <3>1, SetStateIs DEF States
    <3>. QED
      BY <3>1, <3>2 DEF Moved, Views
  <2>2. CASE PauseClicked
    <3>1. view' = [view EXCEPT !.playing = FALSE, !.tick = FALSE] /\ view \in Views
          /\ player' = SetState(player, "paused")
      BY <1>1, <2>2 DEF PauseClicked, Pause
    <3>2. player' \in Players /\ player'.id = player.id
      BY <1>1, <3>1, SetStateIs DEF States
    <3>. QED
      BY <3>1, <3>2 DEF Moved, Views
  <2>3. CASE RangeClicked
    <3>1. PICK place \in Places : AdjustmentSet(place, Seek(player, place))
      BY <2>3 DEF RangeClicked
    <3>2. place \in Int /\ Seek(player, place) \in Players /\ Seek(player, place).id = player.id
      BY <1>1, ViewerAssumption, SeekIs
    <3>. QED
      BY <2>3, <3>1, <3>2, AdjustmentMoves DEF RangeClicked
  <2>4. CASE AnimatePlay
    <3>1. PICK at \in player.at..view.length : AdjustmentSet(at, player)
      BY <2>4 DEF AnimatePlay
    <3>. QED
      BY <1>1, <2>4, <3>1, AdjustmentMoves DEF AnimatePlay
  <2>5. CASE StateChanges
    <3>1. view' = view /\ player' = [player EXCEPT !.state = IF player.state = "ready" THEN "paused" ELSE "playing"]
      BY <2>5 DEF StateChanges
    <3>. DEFINE s == IF player.state = "ready" THEN "paused" ELSE "playing"
    <3>2. s \in States
      BY DEF States
    <3>. HIDE DEF s
    <3>3. player' = [player EXCEPT !.state = s]
      BY <3>1 DEF s
    <3>4. player' \in Players /\ player'.id = player.id
      BY <1>1, <3>2, <3>3 DEF Players
    <3>. QED
      BY <1>1, <3>1, <3>4 DEF Moved
  <2>6. CASE PipelineFails
    BY <1>1, <2>6 DEF PipelineFails, Moved
  <2>7. CASE Finished
    <3>1. view' = view /\ player' \in Players /\ player'.id = player.id
      BY <1>1, <2>7, SetStateIs DEF Finished, States
    <3>. QED
      BY <1>1, <3>1 DEF Moved
  <2>8. CASE Message
    <3>. DEFINE sought == Seek(player, player.early)
    <3>1. player.early \in Int
      BY <1>1 DEF Players
    <3>2. sought \in Players /\ sought.id = player.id
      BY <1>1, <3>1, SeekIs
    <3>3. SetState(player, "ready") \in Players /\ SetState(player, "ready").id = player.id
      BY <1>1, SetStateIs DEF States
    <3>4. /\ view' = view
          /\ player' \in {SetState(player, "ready"), [sought EXCEPT !.early = 0], player}
      BY <2>8 DEF Message
    <3>. HIDE DEF sought
    <3>5. [sought EXCEPT !.early = 0] \in Players /\ [sought EXCEPT !.early = 0].id = player.id
      BY <3>2 DEF Players
    <3>6. player' \in Players /\ player'.id = player.id
      BY <1>1, <3>3, <3>4, <3>5
    <3>. QED
      BY <1>1, <3>4, <3>6 DEF Moved
  <2>. QED
    BY <2>1, <2>2, <2>3, <2>4, <2>5, <2>6, <2>7, <2>8
<1>3. bus' \in Seq(Messages) /\ Heard'
  <2>0. \A i \in 1..Len(bus) : view.on /\ bus[i].id = player.id
    BY <1>1 DEF Heard
  <2>1. view'.on = view.on /\ player'.id = player.id /\ player.id \in Nat
    BY <1>1, <1>2 DEF Moved, Players
  <2>2. CASE bus' = bus
    BY <1>1, <2>1, <2>2 DEF Heard
  <2>3. CASE view.on /\ \E what \in {"playing", "error"} : bus' = Append(bus, [id |-> player.id, what |-> what])
    <3>1. PICK what \in {"playing", "error"} : bus' = Append(bus, [id |-> player.id, what |-> what])
      BY <2>3
    <3>. DEFINE m == [id |-> player.id, what |-> what]
    <3>2. m \in Messages /\ m.id = player.id
      BY <2>1 DEF Messages
    <3>3. bus' = Append(bus, m)
      BY <3>1
    <3>. HIDE DEF m
    <3>4. /\ bus' \in Seq(Messages) /\ DOMAIN bus' = 1..Len(bus) + 1 /\ Len(bus) \in Nat
          /\ \A i \in 1..Len(bus) : bus'[i] = bus[i]
          /\ bus'[Len(bus) + 1] = m
      BY <1>1, <3>2, <3>3, AppendIs
    <3>5. \A i \in DOMAIN bus' : i \in 1..Len(bus) \/ i = Len(bus) + 1
      BY <3>4
    <3>. QED
      BY <2>0, <2>1, <2>3, <3>2, <3>4, <3>5 DEF Heard
  <2>4. CASE bus # << >> /\ bus' = Tail(bus)
    <3>1. /\ bus' \in Seq(Messages) /\ Len(bus') = Len(bus) - 1 /\ Len(bus) \in Nat
          /\ \A i \in 1..Len(bus') : bus'[i] = bus[i + 1]
      BY <1>1, <2>4, HeadTailProperties, LenProperties
    <3>2. \A i \in 1..Len(bus') : i + 1 \in 1..Len(bus)
      BY <3>1
    <3>. QED
      BY <2>0, <2>1, <3>1, <3>2 DEF Heard
  <2>. QED
    BY <2>2, <2>3, <2>4 DEF PlayClicked, PauseClicked, RangeClicked, AnimatePlay, StateChanges,
                            PipelineFails, Finished, Message
<1>. QED
  BY <1>0, <1>2, <1>3, MovedKeeps

LEMMA RefsRise ==
  ASSUME NEW rs \in [1..MaxLoads -> Int], \A t \in 1..MaxLoads : rs[t] <= MaxRefs, NEW s \in Nat
  PROVE  /\ SequenceRef(rs, s) \in [1..MaxLoads -> Int]
         /\ SequenceUnref(rs, s) = SequenceRef(rs, s)
         /\ \A t \in 1..MaxLoads : SequenceRef(rs, s)[t] >= rs[t] /\ SequenceRef(rs, s)[t] <= MaxRefs
<1>. DEFINE b == SequenceRef(rs, s)
<1>1. b \in [1..MaxLoads -> Int]
      /\ \A t \in 1..MaxLoads : b[t] = IF t = s /\ rs[t] < MaxRefs THEN rs[t] + 1 ELSE rs[t]
  BY RefsPointwise
<1>2. SequenceUnref(rs, s) = b
  BY RefsPointwise
<1>3. MaxRefs \in Nat
  BY ViewerAssumption
<1>. HIDE DEF b
<1>4. \A t \in 1..MaxLoads : b[t] >= rs[t] /\ b[t] <= MaxRefs
  BY <1>1, <1>3
<1>. QED
  BY <1>1, <1>2, <1>4 DEF b

LEMMA DrawKeeps ==
  ASSUME ViewerInv, Draw
  PROVE  ViewerInv'
<1>. USE DEF ViewerInv
<1>. DEFINE r1 == SequenceRef(refs, view.shown)
<1>1. /\ UNCHANGED <<app, view, loads, calls, player, bus>>
      /\ refs' = SequenceUnref(r1, view.shown)
      /\ view.shown \in Nat
  BY SeqFacts DEF Draw
<1>2. refs \in [1..MaxLoads -> Int] /\ \A t \in 1..MaxLoads : refs[t] <= MaxRefs
  BY DEF ViewerTypeOK, Counted
<1>4. r1 \in [1..MaxLoads -> Int] /\ \A t \in 1..MaxLoads : r1[t] >= refs[t] /\ r1[t] <= MaxRefs
  BY <1>1, <1>2, RefsRise
<1>. HIDE DEF r1
<1>5. /\ refs' \in [1..MaxLoads -> Int]
      /\ \A t \in 1..MaxLoads : refs'[t] >= r1[t] /\ refs'[t] <= MaxRefs
  BY <1>1, <1>4, RefsRise
<1>6. \A t \in 1..MaxLoads : refs'[t] >= refs[t] /\ refs'[t] <= MaxRefs
  BY <1>2, <1>4, <1>5
<1>7. ViewerTypeOK' /\ Shows' /\ Heard'
  BY <1>1, <1>5 DEF ViewerTypeOK, Shows, Heard
<1>8. Uses' /\ Counted'
  BY <1>1, <1>6, <1>7, SameUses
<1>. QED
  BY <1>7, <1>8

\* The errors of w are errors of the calls, at the same places.
ErrorsIn(w) == /\ w \in Seq(Calls)
               /\ \A i \in DOMAIN w : w[i].kind = "error" => i \in DOMAIN calls /\ calls[i] = w[i]

\* A sequence that is made has no use yet.
LEMMA FreshUses ==
  ASSUME ViewerInv, NEW t \in Nat, t > loads
  PROVE  /\ UsesOf(t) = 0 /\ loads \in Nat
         /\ \A i \in DOMAIN calls : calls[i].kind = "error" => calls[i].seq # t
<1>1. app.beatmap.seq # t /\ app.replay.seq # t /\ loads \in Nat
  BY SeqFacts DEF ViewerInv, Uses, ViewerTypeOK
<1>2. view.on => view.objects # t /\ view.shown # t
  BY <1>1, SeqFacts DEF ViewerInv, Uses, Shows
<1>3. UsesOf(t) = 0
  BY <1>1, <1>2 DEF UsesOf, One
<1>4. ASSUME NEW i \in DOMAIN calls, calls[i].kind = "error"  PROVE calls[i].seq # t
  BY <1>1, <1>4 DEF ViewerInv, Uses, None
<1>. QED
  BY <1>1, <1>3, <1>4

\* A file that cannot be read is kept until its error was read.
LEMMA ErrorKeeps ==
  ASSUME ViewerInv, NEW w, ErrorsIn(w),
         calls' = Append(w, [kind |-> "error", seq |-> loads + 1]), loads' = loads + 1,
         refs' = [refs EXCEPT ![loads + 1] = 1], UNCHANGED <<app, view, player, bus>>
  PROVE  ViewerInv'
<1>. USE DEF ViewerInv
<1>. DEFINE n == loads + 1
           e == [kind |-> "error", seq |-> n]
<1>1. loads \in Nat /\ n \in Nat /\ n > loads /\ n # None
  BY DEF ViewerTypeOK, None
<1>2. e \in Calls /\ e.kind = "error" /\ e.seq = n
  BY <1>1 DEF Calls
<1>3. refs' = [refs EXCEPT ![n] = 1] /\ calls' = Append(w, e) /\ loads' = n
  OBVIOUS
<1>4. UsesOf(n) = 0 /\ \A i \in DOMAIN calls : calls[i].kind = "error" => calls[i].seq # n
  BY <1>1, FreshUses
<1>5. n = loads + 1
  OBVIOUS
<1>. HIDE DEF n, e
<1>6. /\ calls' \in Seq(Calls) /\ Len(w) \in Nat
      /\ DOMAIN w = 1..Len(w) /\ DOMAIN calls' = 1..Len(w) + 1
      /\ \A i \in 1..Len(w) : calls'[i] = w[i]
      /\ calls'[Len(w) + 1] = e
  BY <1>2, <1>3, AppendIs DEF ErrorsIn
<1>7. \A i \in DOMAIN calls' : \/ i = Len(w) + 1 /\ calls'[i] = e
                               \/ i \in DOMAIN w /\ calls'[i] = w[i] /\ i # Len(w) + 1
  BY <1>6
<1>8. \A i \in DOMAIN calls' : calls'[i].kind = "error" =>
         \/ calls'[i].seq = n /\ i = Len(w) + 1
         \/ i \in DOMAIN calls /\ calls'[i] = calls[i] /\ calls[i].kind = "error"
  BY <1>2, <1>7 DEF ErrorsIn
<1>9. ViewerTypeOK'
  <2>0. refs \in [1..MaxLoads -> Int]
    BY DEF ViewerTypeOK
  <2>1. refs' \in [1..MaxLoads -> Int]
    BY <1>3, <2>0, SetTo
  <2>. QED
    BY <1>1, <1>3, <1>6, <2>1 DEF ViewerTypeOK
<1>10. Shows' /\ Heard'
  BY DEF Shows, Heard
<1>11. Uses'
  <2>1. /\ app.beatmap.seq <= n /\ app.replay.seq <= n /\ app.beatmap.seq # n /\ app.replay.seq # n
        /\ view.on => view.shown \in 1..n /\ view.shown # n
    BY <1>1, <1>5, SeqFacts DEF Uses
  <2>2. ASSUME NEW i \in DOMAIN calls', calls'[i].kind = "error", calls'[i].seq # None
        PROVE  /\ calls'[i].seq \in 1..n
               /\ calls'[i].seq \notin {app.beatmap.seq, app.replay.seq}
               /\ view.on => calls'[i].seq # view.shown
               /\ \A j \in DOMAIN calls' : j # i /\ calls'[j].kind = "error" => calls'[j].seq # calls'[i].seq
    <3>1. CASE calls'[i].seq = n /\ i = Len(w) + 1
      BY <1>1, <1>4, <1>8, <2>1, <3>1
    <3>2. CASE i \in DOMAIN calls /\ calls'[i] = calls[i] /\ calls[i].kind = "error"
      <4>1. /\ calls[i].seq \in 1..loads
            /\ calls[i].seq \notin {app.beatmap.seq, app.replay.seq}
            /\ view.on => calls[i].seq # view.shown
            /\ \A j \in DOMAIN calls : j # i /\ calls[j].kind = "error" => calls[j].seq # calls[i].seq
        BY <2>2, <3>2 DEF Uses
      <4>2. calls'[i].seq \in 1..n /\ calls'[i].seq # n
        BY <1>1, <1>5, <3>2, <4>1
      <4>. QED
        BY <1>8, <3>2, <4>1, <4>2
    <3>. QED
      BY <1>8, <2>2, <3>1, <3>2
  <2>. QED
    BY <1>3, <2>1, <2>2 DEF Uses
<1>12. Counted'
  <2>0. refs \in [1..MaxLoads -> Int] /\ \A t \in 1..MaxLoads : UsesOf(t)' = UsesOf(t)
    BY DEF ViewerTypeOK, UsesOf, One
  <2>1. \A t \in 1..MaxLoads : refs'[t] = IF t = n THEN 1 ELSE refs[t]
    BY <1>3, <2>0
  <2>2. ASSUME NEW t \in 1..MaxLoads  PROVE UsesOf(t) <= refs'[t] /\ refs'[t] <= MaxRefs
    BY <1>4, <2>1, ViewerAssumption DEF Counted
  <2>3. ASSUME NEW i \in DOMAIN calls', calls'[i].kind = "error", calls'[i].seq \in 1..MaxLoads
        PROVE  refs'[calls'[i].seq] >= 1
    BY <1>8, <2>0, <2>1, <2>3 DEF Counted
  <2>. QED
    BY <2>0, <2>2, <2>3 DEF Counted
<1>. QED
  BY <1>9, <1>10, <1>11, <1>12

LEMMA DismissKeeps ==
  ASSUME ViewerInv, DismissError
  PROVE  ViewerInv'
<1>. USE DEF ViewerInv
<1>. DEFINE c == Last(calls)
           s == c.seq
           n == Len(calls)
<1>1. calls \in Seq(Calls) /\ calls # << >> /\ c.kind = "error"
  BY DEF DismissError, ViewerTypeOK
<1>2. /\ calls' = Front(calls) /\ refs' = Clear(refs, s)
      /\ UNCHANGED <<app, view, loads, player, bus>>
  BY DEF DismissError, Return
<1>3. /\ calls' \in Seq(Calls) /\ n \in Nat /\ n >= 1 /\ c \in Calls /\ c = calls[n]
      /\ DOMAIN calls = 1..n /\ DOMAIN calls' = 1..n - 1
      /\ \A i \in 1..n - 1 : calls'[i] = calls[i]
  BY <1>1, <1>2, FrontLast
<1>4. s \in Nat
  BY <1>1, <1>3 DEF Calls
<1>. HIDE DEF c, s, n
<1>4a. s = c.seq
  BY DEF s
<1>5. refs \in [1..MaxLoads -> Int] /\ \A t \in 1..MaxLoads : refs[t] <= MaxRefs
  BY DEF ViewerTypeOK, Counted
<1>6. /\ refs' \in [1..MaxLoads -> Int]
      /\ \A t \in 1..MaxLoads : refs'[t] = IF t = s THEN refs[t] - 1 ELSE refs[t]
  BY <1>2, <1>4, <1>5, RefsPointwise
<1>7. \A i \in DOMAIN calls' : i \in DOMAIN calls /\ i # n /\ calls'[i] = calls[i]
  BY <1>3
<1>8. ViewerTypeOK' /\ Shows' /\ Heard'
  BY <1>2, <1>3, <1>6 DEF ViewerTypeOK, Shows, Heard
<1>9. Uses'
  BY <1>2, <1>7 DEF Uses
<1>10. n \in DOMAIN calls
  BY <1>3
<1>11. s # None =>
         /\ s \notin {app.beatmap.seq, app.replay.seq}
         /\ view.on => s # view.shown
         /\ \A j \in DOMAIN calls : j # n /\ calls[j].kind = "error" => calls[j].seq # s
  BY <1>1, <1>3, <1>4a, <1>10 DEF Uses
<1>12. Counted'
  <2>0. \A t \in 1..MaxLoads : UsesOf(t)' = UsesOf(t) /\ t # None
    BY <1>2 DEF UsesOf, One, None
  <2>1. ASSUME NEW t \in 1..MaxLoads  PROVE UsesOf(t) <= refs'[t] /\ refs'[t] <= MaxRefs
    <3>1. CASE t # s
      BY <1>6, <3>1 DEF Counted
    <3>2. CASE t = s
      <4>1. UsesOf(t) = 0
        BY <1>11, <2>0, <3>2 DEF UsesOf, One, Shows
      <4>2. refs[t] >= 1
        BY <1>1, <1>3, <1>4a, <1>10, <3>2 DEF Counted
      <4>. QED
        BY <1>5, <1>6, <3>2, <4>1, <4>2, ViewerAssumption
    <3>. QED
      BY <3>1, <3>2
  <2>2. ASSUME NEW i \in DOMAIN calls', calls'[i].kind = "error", calls'[i].seq \in 1..MaxLoads
        PROVE  refs'[calls'[i].seq] >= 1
    <3>1. i \in DOMAIN calls /\ i # n /\ calls'[i] = calls[i]
      BY <1>7
    <3>2. calls[i].seq # s
      BY <1>11, <2>0, <2>2, <3>1
    <3>. QED
      BY <1>6, <2>2, <3>1, <3>2 DEF Counted
  <2>. QED
    BY <2>0, <2>1, <2>2 DEF Counted
<1>. QED
  BY <1>8, <1>9, <1>12

\* A beatmap is shown instead of what there was.
LEMMA BeatmapKeeps ==
  ASSUME ViewerInv, NEW f \in BeatmapFiles, SetBeatmap(f, loads + 1), loads' = loads + 1,
         ErrorsIn(calls')
  PROVE  ViewerInv'
<1>. USE DEF ViewerInv
<1>. DEFINE n == loads + 1
           closed == IF app.beatmap = Nothing THEN refs
                     ELSE Clear(Clear(DisposeView(refs), app.beatmap.seq), app.replay.seq)
           r0 == [closed EXCEPT ![n] = 1]
           r1 == SequenceRef(r0, n)
<1>1. loads \in Nat /\ n \in Nat \ {0} /\ n > loads /\ n # None /\ n = loads + 1 /\ loads' = n
  BY DEF ViewerTypeOK, None
<1>2. UsesOf(n) = 0 /\ \A i \in DOMAIN calls : calls[i].kind = "error" => calls[i].seq # n
  BY <1>1, FreshUses
<1>3. /\ refs \in [1..MaxLoads -> Int]
      /\ \A t \in 1..MaxLoads : UsesOf(t) \in Int /\ UsesOf(t) <= refs[t] /\ refs[t] <= MaxRefs
                                /\ UsesOf(t) >= 0
  BY DEF ViewerTypeOK, Counted, UsesOf, One
<1>4. closed \in [1..MaxLoads -> Int] /\ \A t \in 1..MaxLoads : closed[t] = refs[t] - UsesOf(t)
  <2>1. CASE app.beatmap # Nothing
    BY <2>1, ClosedRefs
  <2>2. CASE app.beatmap = Nothing
    <3>1. \A t \in 1..MaxLoads : UsesOf(t) = 0
      BY <2>2, SeqFacts DEF UsesOf, One, Shows, Nothing, None
    <3>. QED
      BY <1>3, <2>2, <3>1
  <2>. QED
    BY <2>1, <2>2
<1>5. /\ refs' = SequenceRef(r1, n)
      /\ view' = [on |-> TRUE, objects |-> n, shown |-> n, mods |-> {}, cursor |-> None,
                  playing |-> FALSE, tick |-> FALSE, adjust |-> 0, length |-> f.length]
      /\ app' = [app EXCEPT !.beatmap = [seq |-> n, file |-> f], !.replay = Nothing]
      /\ player' = [id |-> n, state |-> "ready", target |-> "ready", early |-> 0, at |-> 0]
      /\ bus' = << >>
  BY StopEmpties DEF SetBeatmap, NewPlayer
<1>. HIDE DEF n, closed
<1>6. MaxRefs \in Nat /\ MaxRefs >= 3 /\ f.length \in Nat
  BY ViewerAssumption
<1>7. /\ r0 \in [1..MaxLoads -> Int]
      /\ \A t \in 1..MaxLoads : r0[t] = IF t = n THEN 1 ELSE closed[t]
  BY <1>4, SetTo
<1>. HIDE DEF r0
<1>8. /\ r1 \in [1..MaxLoads -> Int]
      /\ \A t \in 1..MaxLoads : r1[t] = IF t = n THEN 2 ELSE closed[t]
  <2>1. \A t \in 1..MaxLoads : r0[t] <= MaxRefs
    BY <1>3, <1>4, <1>6, <1>7
  <2>2. /\ r1 \in [1..MaxLoads -> Int]
        /\ \A t \in 1..MaxLoads : r1[t] = IF t = n /\ r0[t] < MaxRefs THEN r0[t] + 1 ELSE r0[t]
    BY <1>1, <1>7, <2>1, RefsPointwise
  <2>. HIDE DEF r1
  <2>. QED
    BY <1>6, <1>7, <2>2
<1>. HIDE DEF r1
<1>9. /\ refs' \in [1..MaxLoads -> Int]
      /\ \A t \in 1..MaxLoads : refs'[t] = IF t = n THEN 3 ELSE closed[t]
  <2>1. \A t \in 1..MaxLoads : r1[t] <= MaxRefs
    BY <1>3, <1>4, <1>6, <1>8
  <2>. DEFINE r2 == SequenceRef(r1, n)
  <2>2. /\ r2 \in [1..MaxLoads -> Int]
        /\ \A t \in 1..MaxLoads : r2[t] = IF t = n /\ r1[t] < MaxRefs THEN r1[t] + 1 ELSE r1[t]
    BY <1>1, <1>8, <2>1, RefsPointwise
  <2>3. refs' = r2
    BY <1>5
  <2>. HIDE DEF r2
  <2>. QED
    BY <1>6, <1>8, <2>2, <2>3
<1>10. /\ app'.beatmap = [seq |-> n, file |-> f] /\ app'.replay = Nothing
       /\ app' \in [beatmap : Loaded(BeatmapFiles), replay : Loaded(ReplayFiles), button : BOOLEAN]
  BY <1>1, <1>5 DEF ViewerTypeOK, Loaded
<1>11. view' \in Views /\ view'.on = TRUE /\ view'.objects = n /\ view'.shown = n /\ view'.mods = {}
       /\ view'.cursor = None /\ view'.playing = FALSE /\ view'.tick = FALSE
  BY <1>1, <1>5, <1>6 DEF Views, ModSets, None
<1>12. app'.beatmap.seq = n /\ app'.replay.seq = None /\ app'.beatmap # Nothing
  BY <1>1, <1>10 DEF Nothing
<1>13. ViewerTypeOK'
  <2>1. player' \in Players
    BY <1>1, <1>5 DEF Players, States
  <2>2. bus' \in Seq(Messages) /\ calls' \in Seq(Calls)
    BY <1>5 DEF ErrorsIn
  <2>. QED
    BY <1>1, <1>9, <1>10, <1>11, <2>1, <2>2 DEF ViewerTypeOK
<1>14. Shows' /\ Heard'
  <2>1. Shows'
    BY <1>10, <1>11, <1>12 DEF Shows
  <2>2. Heard'
    BY <1>5 DEF Heard
  <2>. QED
    BY <2>1, <2>2
<1>15. \A i \in DOMAIN calls' : calls'[i].kind = "error" =>
         i \in DOMAIN calls /\ calls[i] = calls'[i] /\ calls[i].kind = "error"
  BY DEF ErrorsIn
<1>16. ASSUME NEW i \in DOMAIN calls, calls[i].kind = "error", calls[i].seq # None
       PROVE  calls[i].seq \in 1..loads /\ calls[i].seq # n
              /\ (calls[i].seq \in 1..MaxLoads => UsesOf(calls[i].seq) = 0)
  <2>1. /\ calls[i].seq \in 1..loads
        /\ calls[i].seq \notin {app.beatmap.seq, app.replay.seq}
        /\ view.on => calls[i].seq # view.shown /\ calls[i].seq # view.objects
    BY <1>16 DEF Uses, Shows
  <2>. QED
    BY <1>1, <2>1 DEF UsesOf, One
<1>17. Uses'
  BY <1>1, <1>11, <1>12, <1>15, <1>16 DEF Uses, None
<1>18. Counted'
  <2>1. ASSUME NEW t \in 1..MaxLoads  PROVE UsesOf(t)' <= refs'[t] /\ refs'[t] <= MaxRefs
    <3>1. UsesOf(t)' = IF t = n THEN 3 ELSE 0
      BY <1>11, <1>12 DEF UsesOf, One, None
    <3>. QED
      BY <1>3, <1>4, <1>6, <1>9, <3>1
  <2>2. ASSUME NEW i \in DOMAIN calls', calls'[i].kind = "error", calls'[i].seq \in 1..MaxLoads
        PROVE  refs'[calls'[i].seq] >= 1
    <3>1. i \in DOMAIN calls /\ calls[i] = calls'[i] /\ calls[i].kind = "error" /\ calls[i].seq # None
      BY <1>15, <2>2 DEF None
    <3>2. refs[calls[i].seq] >= 1
      BY <2>2, <3>1 DEF Counted
    <3>. QED
      BY <1>3, <1>4, <1>9, <1>16, <2>2, <3>1, <3>2
  <2>. QED
    BY <2>1, <2>2 DEF Counted
<1>. QED
  BY <1>13, <1>14, <1>17, <1>18

LEMMA CloseKeeps ==
  ASSUME ViewerInv, CloseAction
  PROVE  ViewerInv'
<1>. USE DEF ViewerInv
<1>1. /\ UNCHANGED <<loads, calls, player>> /\ view' = NoView /\ bus' = << >>
      /\ app' = [app EXCEPT !.beatmap = Nothing, !.replay = Nothing]
      /\ refs' = Clear(Clear(DisposeView(refs), app.beatmap.seq), app.replay.seq)
      /\ app.beatmap # Nothing
  BY StopEmpties DEF CloseAction, CloseBeatmap
<1>2. refs' \in [1..MaxLoads -> Int] /\ \A t \in 1..MaxLoads : refs'[t] = refs[t] - UsesOf(t)
  BY <1>1, ClosedRefs
<1>3. /\ refs \in [1..MaxLoads -> Int]
      /\ \A t \in 1..MaxLoads : UsesOf(t) \in Int /\ UsesOf(t) <= refs[t] /\ refs[t] <= MaxRefs
                                /\ UsesOf(t) >= 0
  BY DEF ViewerTypeOK, Counted, UsesOf, One
<1>4. /\ app'.beatmap = Nothing /\ app'.replay = Nothing /\ view'.on = FALSE
      /\ app' \in [beatmap : Loaded(BeatmapFiles), replay : Loaded(ReplayFiles), button : BOOLEAN]
  BY <1>1 DEF ViewerTypeOK, Loaded, NoView
<1>5. app'.beatmap.seq = 0 /\ app'.replay.seq = 0
  BY <1>4 DEF Nothing, None
<1>6. ViewerTypeOK' /\ Shows' /\ Heard'
  <2>1. bus' \in Seq(Messages) /\ DOMAIN bus' = {}
    BY <1>1
  <2>. QED
    BY <1>1, <1>2, <1>4, <2>1 DEF ViewerTypeOK, Shows, Heard
<1>7. loads \in Nat
  BY DEF ViewerTypeOK
<1>8. Uses'
  BY <1>1, <1>4, <1>5, <1>7 DEF Uses, None
<1>9. Counted'
  <2>1. \A t \in 1..MaxLoads : UsesOf(t)' = 0
    BY <1>4, <1>5 DEF UsesOf, One
  <2>2. MaxRefs \in Nat
    BY ViewerAssumption
  <2>3. ASSUME NEW i \in DOMAIN calls', calls'[i].kind = "error", calls'[i].seq \in 1..MaxLoads
        PROVE  refs'[calls'[i].seq] >= 1
    <3>1. refs[calls[i].seq] >= 1
      BY <1>1, <2>3 DEF Counted
    <3>2. UsesOf(calls[i].seq) = 0
      BY <1>1, <2>3 DEF Uses, UsesOf, One, Shows, None
    <3>. QED
      BY <1>1, <1>2, <1>3, <2>3, <3>1, <3>2
  <2>. QED
    BY <1>2, <1>3, <2>1, <2>2, <2>3 DEF Counted
<1>. QED
  BY <1>6, <1>8, <1>9

\* Another replay is shown, or none.
LEMMA ReplayKeeps ==
  ASSUME ViewerInv, app.beatmap # Nothing,
         NEW cursor \in {None, loads + 1}, NEW mods \in ModSets,
         NEW rs \in [1..MaxLoads -> Int],
         \A t \in 1..MaxLoads : rs[t] = IF t = cursor THEN 1 ELSE refs[t] - One(app.replay.seq, t),
         SetReplayProperties(cursor, mods, rs),
         app' \in [beatmap : Loaded(BeatmapFiles), replay : Loaded(ReplayFiles), button : BOOLEAN],
         app'.beatmap = app.beatmap, app'.replay.seq = cursor,
         mods = (IF app'.replay = Nothing THEN {} ELSE app'.replay.file.mods),
         app'.replay # Nothing => app'.replay.file.hash = app.beatmap.file.hash,
         UNCHANGED <<calls, player, bus>>
  PROVE  ViewerInv'
<1>. USE DEF ViewerInv
<1>. DEFINE b == app.beatmap.seq
           old == app.replay.seq
           new == IF mods # {} THEN loads + 2 ELSE b
           X == IF mods # {} THEN [rs EXCEPT ![new] = 1] ELSE SequenceRef(rs, new)
<1>1. /\ loads \in Nat /\ None = 0 /\ view.on /\ view.objects = b /\ b \in 1..loads /\ old \in 0..loads
      /\ view.shown \in 1..loads /\ view.shown # old /\ b # old
      /\ view \in Views
      /\ (view.playing <=> view.tick)
  BY SeqFacts DEF ViewerTypeOK, Shows, Uses, None, Nothing, NoView
<1>2. mods # {} => cursor = loads + 1
  <2>1. cursor = None => app'.replay = Nothing
    BY <1>1 DEF Loaded
  <2>. QED
    BY <2>1
<1>3. /\ loads' = loads + One(cursor, loads + 1) + (IF mods # {} THEN 1 ELSE 0)
      /\ mods # {} => loads' = loads + 2
  BY <1>1, <1>2 DEF SetReplayProperties, One
<1>4. view' = [view EXCEPT !.cursor = cursor, !.mods = mods, !.shown = new]
      /\ refs' = SequenceUnref(X, view.shown)
  BY <1>1, <1>3 DEF SetReplayProperties
<1>5. new \in Nat /\ cursor \in Nat /\ new # cursor /\ new <= loads' /\ new >= 1 /\ cursor <= loads'
      /\ loads' \in Nat /\ loads' >= loads /\ new # old
  BY <1>1, <1>2, <1>3 DEF One
<1>6. /\ view' \in Views /\ view'.on = TRUE /\ view'.objects = b /\ view'.shown = new
      /\ view'.cursor = cursor /\ view'.mods = mods /\ (view'.playing <=> view'.tick)
  <2>1. view' \in Views
    BY <1>1, <1>4, <1>5 DEF Views
  <2>. QED
    BY <1>1, <1>4, <2>1 DEF Views
<1>7. (new = b) <=> (mods = {})
  BY <1>1
<1>8. /\ refs \in [1..MaxLoads -> Int]
      /\ \A t \in 1..MaxLoads : UsesOf(t) \in Int /\ UsesOf(t) <= refs[t] /\ refs[t] <= MaxRefs
  BY DEF ViewerTypeOK, Counted, UsesOf, One
<1>9. MaxRefs \in Nat /\ MaxRefs >= 3
  BY ViewerAssumption
<1>10. \A t \in 1..MaxLoads : UsesOf(t) = One(b, t) + One(old, t) + (One(b, t) + One(view.shown, t))
  BY <1>1 DEF UsesOf
<1>11. \A t \in 1..MaxLoads : UsesOf(t)' = One(b, t) + One(cursor, t) + (One(b, t) + One(new, t))
  BY <1>6 DEF UsesOf
<1>12. \A t \in 1..MaxLoads : rs[t] <= MaxRefs
  BY <1>8, <1>9 DEF One
<1>13. /\ X \in [1..MaxLoads -> Int]
       /\ \A t \in 1..MaxLoads :
            X[t] = IF t # new THEN rs[t]
                   ELSE IF mods # {} THEN 1
                   ELSE IF rs[t] < MaxRefs THEN rs[t] + 1 ELSE rs[t]
  <2>1. CASE mods # {}
    BY <2>1, SetTo
  <2>2. CASE mods = {}
    <3>. HIDE DEF new
    <3>. DEFINE Y == SequenceRef(rs, new)
    <3>1. /\ Y \in [1..MaxLoads -> Int]
          /\ \A t \in 1..MaxLoads : Y[t] = IF t = new /\ rs[t] < MaxRefs THEN rs[t] + 1 ELSE rs[t]
      BY <1>5, <1>12, RefsPointwise
    <3>2. X = Y
      BY <2>2
    <3>. HIDE DEF X, Y
    <3>. QED
      BY <2>2, <3>1, <3>2
  <2>. QED
    BY <2>1, <2>2
<1>. HIDE DEF X, new
<1>14. \A t \in 1..MaxLoads : X[t] <= MaxRefs
  BY <1>9, <1>12, <1>13
<1>15. /\ refs' \in [1..MaxLoads -> Int]
       /\ \A t \in 1..MaxLoads : refs'[t] = IF t = view.shown /\ X[t] < MaxRefs THEN X[t] + 1 ELSE X[t]
  <2>. DEFINE Y == SequenceRef(X, view.shown)
  <2>0. view.shown \in Nat
    BY <1>1
  <2>1. /\ Y \in [1..MaxLoads -> Int]
        /\ \A t \in 1..MaxLoads : Y[t] = IF t = view.shown /\ X[t] < MaxRefs THEN X[t] + 1 ELSE X[t]
    <3>1. \A s \in Nat :
            /\ SequenceRef(X, s) \in [1..MaxLoads -> Int]
            /\ \A t \in 1..MaxLoads :
                 SequenceRef(X, s)[t] = IF t = s /\ X[t] < MaxRefs THEN X[t] + 1 ELSE X[t]
      BY <1>13, <1>14, RefsPointwise
    <3>. QED
      BY <2>0, <3>1
  <2>2. refs' = Y
    BY <1>4 DEF SequenceUnref, SequenceRef
  <2>. HIDE DEF Y
  <2>. QED
    BY <2>1, <2>2
<1>16. ViewerTypeOK'
  BY <1>5, <1>6, <1>15 DEF ViewerTypeOK
<1>17. Shows' /\ Heard'
  <2>1. Shows'
    BY <1>6, <1>7 DEF Shows
  <2>2. Heard'
    BY <1>1, <1>6 DEF Heard
  <2>. QED
    BY <2>1, <2>2
<1>18. ASSUME NEW i \in DOMAIN calls, calls[i].kind = "error", calls[i].seq # None
       PROVE  calls[i].seq \in 1..loads /\ calls[i].seq \notin {b, old, new, cursor, view.shown}
  <2>1. /\ calls[i].seq \in 1..loads
        /\ calls[i].seq \notin {app.beatmap.seq, app.replay.seq}
        /\ calls[i].seq # view.shown
    BY <1>1, <1>18 DEF Uses
  <2>2. new = b \/ new = loads + 2
    BY DEF new
  <2>. QED
    BY <1>1, <2>1, <2>2
<1>19. Uses'
  <2>1. /\ app'.beatmap.seq = b /\ app'.replay.seq = cursor /\ b <= loads' /\ b # cursor
    BY <1>1, <1>5
  <2>2. ASSUME NEW i \in DOMAIN calls', calls'[i].kind = "error", calls'[i].seq # None
        PROVE  /\ calls'[i].seq \in 1..loads'
               /\ calls'[i].seq \notin {b, cursor}
               /\ calls'[i].seq # new
               /\ \A j \in DOMAIN calls' : j # i /\ calls'[j].kind = "error" => calls'[j].seq # calls'[i].seq
    <3>1. \A j \in DOMAIN calls : j # i /\ calls[j].kind = "error" => calls[j].seq # calls[i].seq
      BY <2>2 DEF Uses
    <3>. QED
      BY <1>1, <1>5, <1>18, <2>2, <3>1
  <2>. QED
    BY <1>5, <1>6, <2>1, <2>2 DEF Uses
<1>20. Counted'
  <2>1. ASSUME NEW t \in 1..MaxLoads  PROVE UsesOf(t)' <= refs'[t] /\ refs'[t] <= MaxRefs
    <3>1. /\ rs[t] = (IF t = cursor THEN 1 ELSE refs[t] - One(old, t)) /\ rs[t] \in Int /\ rs[t] <= MaxRefs
          /\ refs[t] \in Int /\ UsesOf(t) <= refs[t]
      BY <1>8, <1>12
    <3>2. X[t] = (IF t # new THEN rs[t] ELSE IF mods # {} THEN 1
                  ELSE IF rs[t] < MaxRefs THEN rs[t] + 1 ELSE rs[t])
      BY <1>13
    <3>3. refs'[t] = (IF t = view.shown /\ X[t] < MaxRefs THEN X[t] + 1 ELSE X[t])
      BY <1>15
    <3>4. new = IF mods # {} THEN loads + 2 ELSE b
      BY DEF new
    <3>5. UsesOf(t) = One(b, t) + One(old, t) + (One(b, t) + One(view.shown, t))
      BY <1>10
    <3>6. UsesOf(t)' = One(b, t) + One(cursor, t) + (One(b, t) + One(new, t))
      BY <1>11
    <3>7. cursor = 0 \/ cursor = loads + 1
      BY <1>1
    <3>8. X[t] <= MaxRefs
      BY <1>14
    <3>. HIDE DEF b, old
    <3>9. CASE t = cursor
      BY <1>1, <1>5, <1>9, <3>1, <3>2, <3>3, <3>4, <3>6, <3>7, <3>8, <3>9 DEF One
    <3>10. CASE t = old /\ t # cursor
      BY <1>1, <1>5, <1>9, <3>1, <3>2, <3>3, <3>4, <3>5, <3>6, <3>8, <3>10 DEF One
    <3>11. CASE t = b /\ t # cursor /\ t # old
      <4>1. One(b, t) = 1 /\ One(old, t) = 0 /\ One(cursor, t) = 0 /\ One(view.shown, t) \in {0, 1}
            /\ (One(view.shown, t) = 1 <=> t = view.shown)
        BY <3>11 DEF One
      <4>2. rs[t] = refs[t] /\ rs[t] >= 2 + One(view.shown, t)
        BY <3>1, <3>5, <3>11, <4>1
      <4>3. CASE mods = {}
        <5>1. UsesOf(t)' = 3 /\ t = new
          BY <3>4, <3>6, <3>11, <4>1, <4>3 DEF One
        <5>2. X[t] >= 3 \/ X[t] >= 2 + One(view.shown, t) + 1
          BY <1>9, <3>1, <3>2, <4>1, <4>2, <4>3, <5>1
        <5>. QED
          BY <1>9, <3>1, <3>2, <3>3, <3>8, <4>1, <4>2, <4>3, <5>1, <5>2
      <4>4. CASE mods # {}
        <5>1. UsesOf(t)' = 2 /\ t # new
          BY <1>1, <3>4, <3>6, <3>11, <4>1, <4>4 DEF One
        <5>. QED
          BY <1>9, <3>1, <3>2, <3>3, <3>8, <4>1, <4>2, <5>1
      <4>. QED
        BY <4>3, <4>4
    <3>12. CASE t # b /\ t # cursor /\ t # old
      BY <1>1, <1>5, <1>9, <3>1, <3>2, <3>3, <3>4, <3>5, <3>6, <3>8, <3>12 DEF One
    <3>. QED
      BY <3>9, <3>10, <3>11, <3>12
  <2>2. ASSUME NEW i \in DOMAIN calls', calls'[i].kind = "error", calls'[i].seq \in 1..MaxLoads
        PROVE  refs'[calls'[i].seq] >= 1
    <3>1. calls'[i] = calls[i] /\ i \in DOMAIN calls /\ calls[i].seq # None
      BY <1>1, <2>2
    <3>2. refs[calls[i].seq] >= 1
      BY <2>2, <3>1 DEF Counted
    <3>3. calls[i].seq \notin {b, old, new, cursor, view.shown}
      BY <1>18, <2>2, <3>1
    <3>4. refs'[calls[i].seq] = refs[calls[i].seq]
      BY <1>8, <1>13, <1>15, <2>2, <3>1, <3>3 DEF One
    <3>. QED
      BY <3>1, <3>2, <3>4
  <2>. QED
    BY <2>1, <2>2 DEF Counted
<1>. QED
  BY <1>16, <1>17, <1>19, <1>20

LEMMA OpenBeatmapKeeps ==
  ASSUME ViewerInv, OpenBeatmap
  PROVE  ViewerInv'
<1>. DEFINE w == Front(calls)
           files == Last(calls).files
           c == [kind |-> "open", files |-> Tail(files)]
           rest == Append(w, c)
           f == Head(files)
<1>1. /\ calls \in Seq(Calls) /\ calls # << >> /\ Last(calls).kind = "open"
  BY DEF OpenBeatmap, ViewerInv, ViewerTypeOK
<1>2. /\ w \in Seq(Calls) /\ Len(w) = Len(calls) - 1 /\ Len(calls) \in Nat /\ Len(calls) >= 1
      /\ \A i \in 1..Len(w) : w[i] = calls[i]
      /\ DOMAIN calls = 1..Len(calls) /\ DOMAIN w = 1..Len(w) /\ Last(calls) \in Calls
  BY <1>1, FrontLast
<1>3. files \in Seq(BeatmapFiles)
  BY <1>1, <1>2 DEF Calls
<1>4. ErrorsIn(w)
  BY <1>2 DEF ErrorsIn
<1>5. ASSUME files # << >>
      PROVE  f \in BeatmapFiles /\ ErrorsIn(rest)
  <2>1. f \in BeatmapFiles /\ Tail(files) \in Seq(BeatmapFiles)
    BY <1>3, <1>5, HeadTailProperties
  <2>2. c \in Calls /\ c.kind # "error"
    BY <2>1 DEF Calls
  <2>. HIDE DEF c, w
  <2>3. /\ rest \in Seq(Calls) /\ Len(w) \in Nat /\ DOMAIN rest = 1..Len(w) + 1
        /\ \A i \in 1..Len(w) : rest[i] = w[i]
        /\ rest[Len(w) + 1] = c
    BY <1>2, <2>2, AppendIs
  <2>. HIDE DEF rest
  <2>. QED
    BY <1>2, <2>1, <2>2, <2>3 DEF ErrorsIn
<1>. HIDE DEF w, c, rest, f
<1>6. \/ files = << >> /\ calls' = w /\ UNCHANGED <<app, view, refs, loads, player, bus>>
      \/ files # << >> /\ calls' = rest /\ UNCHANGED <<app, view, refs, loads, player, bus>>
      \/ files # << >> /\ loads' = loads + 1 /\ SetBeatmap(f, loads + 1) /\ calls' = rest
      \/ /\ files # << >> /\ loads' = loads + 1
         /\ calls' = Append(rest, [kind |-> "error", seq |-> loads + 1])
         /\ refs' = [refs EXCEPT ![loads + 1] = 1]
         /\ UNCHANGED <<app, view, player, bus>>
  BY DEF OpenBeatmap, Return, rest, w, c, f
<1>7. CASE ErrorsIn(calls') /\ UNCHANGED <<app, view, refs, loads, player, bus>>
  <2>1. ViewerTypeOK'
    BY <1>7 DEF ViewerInv, ViewerTypeOK, ErrorsIn
  <2>2. Shows' /\ Heard'
    BY <1>7 DEF ViewerInv, Shows, Heard
  <2>3. \A t \in 1..MaxLoads : refs'[t] >= refs[t] /\ refs'[t] <= MaxRefs
    <3>1. refs \in [1..MaxLoads -> Int]
      BY DEF ViewerInv, ViewerTypeOK
    <3>. QED
      BY <1>7, <3>1 DEF ViewerInv, Counted
  <2>4. Uses' /\ Counted'
    BY <1>7, <2>1, <2>3, SameUses DEF ErrorsIn
  <2>. QED
    BY <2>1, <2>2, <2>4 DEF ViewerInv
<1>. QED
  BY <1>4, <1>5, <1>6, <1>7, BeatmapKeeps, ErrorKeeps

LEMMA OpenReplayKeeps ==
  ASSUME ViewerInv, OpenReplay
  PROVE  ViewerInv'
<1>. DEFINE seq == loads + 1
<1>0. /\ loads \in Nat /\ calls \in Seq(Calls) /\ refs \in [1..MaxLoads -> Int] /\ ErrorsIn(calls)
      /\ app \in [beatmap : Loaded(BeatmapFiles), replay : Loaded(ReplayFiles), button : BOOLEAN]
      /\ \A t \in 1..MaxLoads : refs[t] <= MaxRefs
      /\ seq \in Nat \ {0}
  BY DEF ViewerInv, ViewerTypeOK, ErrorsIn, Counted
<1>1. PICK f \in ReplayFiles :
        \/ /\ calls' = Append(calls, [kind |-> "error", seq |-> None])
           /\ UNCHANGED <<app, view, refs, loads, player, bus>>
        \/ /\ calls' = Append(calls, [kind |-> "error", seq |-> seq])
           /\ loads' = seq /\ refs' = [refs EXCEPT ![seq] = 1]
           /\ UNCHANGED <<app, view, player, bus>>
        \/ /\ app.beatmap # Nothing /\ f.hash = app.beatmap.file.hash
           /\ app' = [app EXCEPT !.replay = [seq |-> seq, file |-> f], !.button = TRUE]
           /\ SetReplayProperties(seq, f.mods, [Clear(refs, app.replay.seq) EXCEPT ![seq] = 1])
           /\ UNCHANGED <<calls, player, bus>>
  BY DEF OpenReplay
<1>2. CASE /\ calls' = Append(calls, [kind |-> "error", seq |-> None])
           /\ UNCHANGED <<app, view, refs, loads, player, bus>>
  <2>. DEFINE e == [kind |-> "error", seq |-> None]
  <2>1. e \in Calls /\ e.kind = "error" /\ e.seq = None
    BY DEF Calls, None
  <2>2. calls' = Append(calls, e)
    BY <1>2
  <2>. HIDE DEF e
  <2>3. /\ calls' \in Seq(Calls) /\ Len(calls) \in Nat
        /\ DOMAIN calls = 1..Len(calls) /\ DOMAIN calls' = 1..Len(calls) + 1
        /\ \A i \in 1..Len(calls) : calls'[i] = calls[i]
        /\ calls'[Len(calls) + 1] = e
    BY <1>0, <2>1, <2>2, AppendIs
  <2>4. \A i \in DOMAIN calls' : calls'[i].seq # None /\ calls'[i].kind = "error" =>
           i \in DOMAIN calls /\ calls'[i] = calls[i]
    BY <2>1, <2>3
  <2>5. ViewerTypeOK' /\ Shows' /\ Heard'
    BY <1>2, <2>3 DEF ViewerInv, ViewerTypeOK, Shows, Heard
  <2>6. Uses'
    <3>1. ASSUME NEW i \in DOMAIN calls', calls'[i].kind = "error", calls'[i].seq # None
          PROVE  /\ calls'[i].seq \in 1..loads
                 /\ calls'[i].seq \notin {app.beatmap.seq, app.replay.seq}
                 /\ view.on => calls'[i].seq # view.shown
                 /\ \A j \in DOMAIN calls' : j # i /\ calls'[j].kind = "error" => calls'[j].seq # calls'[i].seq
      <4>1. i \in DOMAIN calls /\ calls'[i] = calls[i]
        BY <2>4, <3>1
      <4>2. /\ calls[i].seq \in 1..loads
            /\ calls[i].seq \notin {app.beatmap.seq, app.replay.seq}
            /\ view.on => calls[i].seq # view.shown
            /\ \A j \in DOMAIN calls : j # i /\ calls[j].kind = "error" => calls[j].seq # calls[i].seq
        BY <3>1, <4>1 DEF ViewerInv, Uses
      <4>3. ASSUME NEW j \in DOMAIN calls', j # i, calls'[j].kind = "error"
            PROVE  calls'[j].seq # calls'[i].seq
        <5>1. CASE calls'[j].seq = None
          BY <3>1, <5>1
        <5>2. CASE calls'[j].seq # None
          BY <2>4, <4>1, <4>2, <4>3, <5>2
        <5>. QED
          BY <5>1, <5>2
      <4>. QED
        BY <4>1, <4>2, <4>3
    <3>. QED
      BY <1>2, <3>1 DEF ViewerInv, Uses
  <2>7. Counted'
    <3>1. \A t \in 1..MaxLoads : UsesOf(t)' = UsesOf(t)
      BY <1>2 DEF UsesOf
    <3>2. \A t \in 1..MaxLoads : t # None
      BY DEF None
    <3>. QED
      BY <1>2, <2>4, <3>1, <3>2 DEF ViewerInv, Counted
  <2>. QED
    BY <2>5, <2>6, <2>7 DEF ViewerInv
<1>3. CASE /\ calls' = Append(calls, [kind |-> "error", seq |-> seq])
           /\ loads' = seq /\ refs' = [refs EXCEPT ![seq] = 1]
           /\ UNCHANGED <<app, view, player, bus>>
  BY <1>0, <1>3, ErrorKeeps
<1>4. CASE /\ app.beatmap # Nothing /\ f.hash = app.beatmap.file.hash
           /\ app' = [app EXCEPT !.replay = [seq |-> seq, file |-> f], !.button = TRUE]
           /\ SetReplayProperties(seq, f.mods, [Clear(refs, app.replay.seq) EXCEPT ![seq] = 1])
           /\ UNCHANGED <<calls, player, bus>>
  <2>. DEFINE r0 == Clear(refs, app.replay.seq)
             rs == [r0 EXCEPT ![seq] = 1]
             new == [seq |-> seq, file |-> f]
  <2>1. app.replay.seq \in Nat
    BY SeqFacts DEF ViewerInv
  <2>2. r0 \in [1..MaxLoads -> Int]
        /\ \A t \in 1..MaxLoads : r0[t] = IF t = app.replay.seq THEN refs[t] - 1 ELSE refs[t]
    BY <1>0, <2>1, RefsPointwise
  <2>. HIDE DEF r0
  <2>3. rs \in [1..MaxLoads -> Int] /\ \A t \in 1..MaxLoads : rs[t] = IF t = seq THEN 1 ELSE r0[t]
    BY <2>2, SetTo
  <2>. HIDE DEF rs
  <2>4. \A t \in 1..MaxLoads : rs[t] = IF t = seq THEN 1 ELSE refs[t] - One(app.replay.seq, t)
    BY <1>0, <2>2, <2>3 DEF One
  <2>5. /\ new \in Loaded(ReplayFiles) /\ new.seq = seq /\ new.file = f /\ new # Nothing
    BY <1>0 DEF Loaded, Nothing, None
  <2>6. app' = [app EXCEPT !.replay = new, !.button = TRUE]
    BY <1>4
  <2>. HIDE DEF new
  <2>7. /\ app' \in [beatmap : Loaded(BeatmapFiles), replay : Loaded(ReplayFiles), button : BOOLEAN]
        /\ app'.beatmap = app.beatmap /\ app'.replay = new
    BY <1>0, <2>5, <2>6
  <2>8. SetReplayProperties(seq, f.mods, rs)
    BY <1>4 DEF rs, r0
  <2>9. f.mods \in ModSets /\ seq \in {None, loads + 1}
    BY DEF ModSets
  <2>. HIDE DEF seq
  <2>. QED
    BY <1>4, <2>3, <2>4, <2>5, <2>7, <2>8, <2>9, ReplayKeeps
<1>. QED
  BY <1>1, <1>2, <1>3, <1>4

LEMMA CloseReplayKeeps ==
  ASSUME ViewerInv, CloseReplay
  PROVE  ViewerInv'
<1>0. /\ loads \in Nat /\ calls \in Seq(Calls) /\ refs \in [1..MaxLoads -> Int]
      /\ app \in [beatmap : Loaded(BeatmapFiles), replay : Loaded(ReplayFiles), button : BOOLEAN]
      /\ \A t \in 1..MaxLoads : refs[t] <= MaxRefs
  BY DEF ViewerInv, ViewerTypeOK, Counted
<1>1. UNCHANGED <<calls, player, bus>>
  BY DEF CloseReplay
<1>2. CASE app.beatmap = Nothing
  <2>1. UNCHANGED <<view, refs, loads>> /\ app' = [app EXCEPT !.button = FALSE, !.replay = app.replay]
    BY <1>0, <1>2 DEF CloseReplay
  <2>2. /\ app' \in [beatmap : Loaded(BeatmapFiles), replay : Loaded(ReplayFiles), button : BOOLEAN]
        /\ app'.beatmap = app.beatmap /\ app'.replay = app.replay
    BY <1>0, <2>1
  <2>3. ViewerTypeOK' /\ Shows' /\ Heard'
    BY <1>1, <2>1, <2>2 DEF ViewerInv, ViewerTypeOK, Shows, Heard
  <2>4. Uses'
    BY <1>1, <2>1, <2>2 DEF ViewerInv, Uses
  <2>5. \A t \in 1..MaxLoads : UsesOf(t)' = UsesOf(t)
    BY <2>1, <2>2 DEF UsesOf
  <2>6. Counted'
    BY <1>1, <2>1, <2>5 DEF ViewerInv, Counted
  <2>. QED
    BY <2>3, <2>4, <2>6 DEF ViewerInv
<1>3. CASE app.beatmap # Nothing
  <2>. DEFINE rs == Clear(refs, app.replay.seq)
  <2>1. app.replay.seq \in Nat
    BY SeqFacts DEF ViewerInv
  <2>2. rs \in [1..MaxLoads -> Int]
        /\ \A t \in 1..MaxLoads : rs[t] = IF t = app.replay.seq THEN refs[t] - 1 ELSE refs[t]
    BY <1>0, <2>1, RefsPointwise
  <2>3. SetReplayProperties(None, {}, rs)
    BY <1>3 DEF CloseReplay
  <2>. HIDE DEF rs
  <2>4. \A t \in 1..MaxLoads : rs[t] = IF t = None THEN 1 ELSE refs[t] - One(app.replay.seq, t)
    BY <1>0, <2>2 DEF One, None
  <2>5. app' = [app EXCEPT !.button = FALSE, !.replay = Nothing]
    BY <1>3 DEF CloseReplay
  <2>6. /\ app' \in [beatmap : Loaded(BeatmapFiles), replay : Loaded(ReplayFiles), button : BOOLEAN]
        /\ app'.beatmap = app.beatmap /\ app'.replay = Nothing
    BY <1>0, <2>5 DEF Loaded
  <2>7. app'.replay.seq = None /\ {} \in ModSets /\ None \in {None, loads + 1}
    BY <2>6 DEF Nothing, ModSets
  <2>. QED
    BY <1>1, <1>3, <2>2, <2>3, <2>4, <2>6, <2>7, ReplayKeeps
<1>. QED
  BY <1>2, <1>3

LEMMA ViewerInvariant == ViewerSpec => []ViewerInv
<1>1. ViewerInit => ViewerInv
  <2>. SUFFICES ASSUME ViewerInit  PROVE ViewerInv
    OBVIOUS
  <2>1. /\ app.beatmap = Nothing /\ app.replay = Nothing /\ app.beatmap.seq = 0 /\ app.replay.seq = 0
        /\ view = NoView /\ view.on = FALSE /\ loads = 0 /\ calls = << >> /\ bus = << >>
        /\ refs = [s \in 1..MaxLoads |-> 0]
    BY DEF ViewerInit, Nothing, None, NoView
  <2>2. DOMAIN calls = {} /\ DOMAIN bus = {} /\ calls \in Seq(Calls) /\ bus \in Seq(Messages)
    BY <2>1
  <2>3. player \in Players
    BY DEF ViewerInit, Players, States, None
  <2>4. app \in [beatmap : Loaded(BeatmapFiles), replay : Loaded(ReplayFiles), button : BOOLEAN]
    BY DEF ViewerInit, Loaded
  <2>5. ViewerTypeOK
    BY <2>1, <2>2, <2>3, <2>4 DEF ViewerTypeOK
  <2>6. Counted
    BY <2>1, <2>2, ViewerAssumption DEF Counted, UsesOf, One
  <2>. QED
    BY <2>1, <2>2, <2>5, <2>6 DEF ViewerInv, Shows, Uses, Heard
<1>2. ViewerInv /\ [ViewerNext]_viewerVars => ViewerInv'
  <2>. SUFFICES ASSUME ViewerInv, [ViewerNext]_viewerVars  PROVE ViewerInv'
    OBVIOUS
  <2>1. CASE UNCHANGED viewerVars
    BY <2>1 DEF viewerVars, ViewerInv, ViewerTypeOK, Shows, Uses, Counted, UsesOf, Heard
  <2>2. CASE ViewerNext
    BY <2>2, CallsKeep, OpenBeatmapKeeps, DismissKeeps, CloseKeeps, OpenReplayKeeps,
       CloseReplayKeeps, PlayerKeeps, DrawKeeps DEF ViewerNext
  <2>. QED
    BY <2>1, <2>2
<1>. QED
  BY <1>1, <1>2, PTL DEF ViewerSpec

LEMMA PairCount ==
  ASSUME NEW a, NEW b, a # b, NEW T, T \subseteq {a, b}
  PROVE  Cardinality(T) = (IF a \in T THEN 1 ELSE 0) + (IF b \in T THEN 1 ELSE 0)
<1>1. T = {} \/ T = {a} \/ T = {b} \/ T = {a} \cup {b}
  OBVIOUS
<1>2. /\ Cardinality({}) = 0
      /\ IsFiniteSet({a}) /\ Cardinality({a}) = 1
      /\ IsFiniteSet({b}) /\ Cardinality({b}) = 1
  BY FS_EmptySet, FS_Singleton
<1>3. CASE T = {}
  BY <1>2, <1>3
<1>4. CASE T = {a}
  <2>1. Cardinality(T) = 1 /\ a \in T /\ b \notin T
    BY <1>2, <1>4
  <2>. QED
    BY <2>1
<1>5. CASE T = {b}
  <2>1. Cardinality(T) = 1 /\ b \in T /\ a \notin T
    BY <1>2, <1>5
  <2>. QED
    BY <2>1
<1>6. CASE T = {a} \cup {b}
  <2>1. b \notin {a}
    OBVIOUS
  <2>2. Cardinality({a} \cup {b}) = Cardinality({a}) + 1
    BY <1>2, <2>1, FS_AddElement
  <2>3. Cardinality(T) = Cardinality({a}) + 1
    BY <1>6, <2>2
  <2>4. a \in T /\ b \in T
    BY <1>6
  <2>. QED
    BY <1>2, <2>3, <2>4
<1>. QED
  BY <1>1, <1>3, <1>4, <1>5, <1>6

LEMMA HeldIsUses ==
  ASSUME NEW seq
  PROVE  Held(seq) = UsesOf(seq)
<1>. DEFINE A == {h \in {"beatmap", "replay"} : app[h].seq = seq}
           V == {h \in {"objects", "shown"} : view[h] = seq}
<1>1. Cardinality(A) = One(app.beatmap.seq, seq) + One(app.replay.seq, seq)
  <2>1. "beatmap" # "replay" /\ A \subseteq {"beatmap", "replay"}
    OBVIOUS
  <2>2. Cardinality(A) = (IF "beatmap" \in A THEN 1 ELSE 0) + (IF "replay" \in A THEN 1 ELSE 0)
    <3>. HIDE DEF A
    <3>. QED
      BY <2>1, PairCount
  <2>3. ("beatmap" \in A <=> app.beatmap.seq = seq) /\ ("replay" \in A <=> app.replay.seq = seq)
    OBVIOUS
  <2>. HIDE DEF A
  <2>. QED
    BY <2>2, <2>3 DEF One
<1>2. Cardinality(V) = One(view.objects, seq) + One(view.shown, seq)
  <2>1. "objects" # "shown" /\ V \subseteq {"objects", "shown"}
    OBVIOUS
  <2>2. Cardinality(V) = (IF "objects" \in V THEN 1 ELSE 0) + (IF "shown" \in V THEN 1 ELSE 0)
    <3>. HIDE DEF V
    <3>. QED
      BY <2>1, PairCount
  <2>3. ("objects" \in V <=> view.objects = seq) /\ ("shown" \in V <=> view.shown = seq)
    OBVIOUS
  <2>. HIDE DEF V
  <2>. QED
    BY <2>2, <2>3 DEF One
<1>3. Held(seq) = Cardinality(A) + (IF view.on THEN Cardinality(V) ELSE 0)
  BY DEF Held
<1>. HIDE DEF A, V
<1>. QED
  BY <1>1, <1>2, <1>3 DEF UsesOf

\* What is drawn is what is visible, when the objects are apart.
LEMMA DrawnAll ==
  ASSUME NEW f \in BeatmapFiles, NEW mods
  PROVE  DrawnIsVisible(f, mods)
<1>. DEFINE all == {f.objects[i] : i \in DOMAIN f.objects}
           key == [o \in all |-> o.end]
           objects == ByEnd(f.objects)
           approach == ApproachTime(f.rate, mods)
<1>1. IsFiniteSet(all)
  <2>1. IsFiniteSet(DOMAIN f.objects)
    BY ViewerAssumption
  <2>. QED
    BY <2>1, FiniteRange
<1>2. \A o \in all : o.time \in Int /\ o.end \in Int /\ key[o] \in Int
  BY ViewerAssumption
<1>3. objects = ByKey(all, key)
  BY DEF ByEnd
<1>4. objects \in [1..Cardinality(all) -> all]
  <2>. HIDE DEF all, key
  <2>. QED
    BY <1>1, <1>2, <1>3, ByKeyIs
<1>5. DOMAIN objects \subseteq Int /\ \A i \in DOMAIN objects : objects[i].time \in Int /\ objects[i].end \in Int
  <2>. HIDE DEF all, objects
  <2>1. Cardinality(all) \in Nat
    BY <1>1, FS_CardinalityType
  <2>. QED
    BY <1>2, <1>4, <2>1
<1>6. approach \in Int
  <2>1. f.rate \in Int
    BY ViewerAssumption
  <2>. DEFINE rate == f.rate
              ar == CASE "EZ" \in mods -> rate \div 2
                      [] "HR" \in mods -> IF 14 * rate > 1000 THEN 100 ELSE (14 * rate) \div 10
                      [] OTHER -> rate
              time == IF ar > 50 THEN 1200 - 15 * (ar - 50) ELSE 1800 - 12 * ar
  <2>2. approach = CASE "DT" \in mods -> (2 * time) \div 3 [] "HT" \in mods -> (4 * time) \div 3
                     [] OTHER -> time
    BY DEF ApproachTime
  <2>. HIDE DEF approach
  <2>3. ar \in Int
    BY <2>1
  <2>. HIDE DEF ar
  <2>4. time \in Int
    BY <2>3
  <2>. HIDE DEF time
  <2>. QED
    BY <2>2, <2>4
<1>. HIDE DEF objects, approach
<1>7. ASSUME \A i \in DOMAIN objects : objects[i].time <= objects[i].end,
             \A i, j \in DOMAIN objects : i < j => objects[i].end <= objects[j].time,
             NEW place \in 0..f.length
      PROVE  Drawn(objects, place * Unit, approach)
               = {i \in DOMAIN objects : CanDraw(objects[i], place * Unit, approach)}
  <2>. DEFINE now == place * Unit
  <2>1. now \in Int
    BY ViewerAssumption
  <2>. HIDE DEF now
  <2>2. ASSUME NEW i \in DOMAIN objects, CanDraw(objects[i], now, approach)
        PROVE  i \in Drawn(objects, now, approach)
    <3>1. objects[i].end > now - 1
      BY <1>5, <2>1, <2>2 DEF CanDraw
    <3>2. ASSUME NEW j \in 1..i, objects[j].end > now - 1
          PROVE  CanDraw(objects[j], now, approach)
      <4>1. j \in DOMAIN objects /\ (j = i \/ j < i)
        <5>. HIDE DEF all
        <5>1. Cardinality(all) \in Nat /\ DOMAIN objects = 1..Cardinality(all)
          BY <1>1, <1>4, FS_CardinalityType
        <5>. QED
          BY <5>1
      <4>2. CASE j < i
        <5>1. objects[j].end <= objects[i].time /\ objects[j].time <= objects[j].end
          BY <1>7, <4>1, <4>2
        <5>2. /\ objects[j].time \in Int /\ objects[j].end \in Int
              /\ objects[i].time \in Int /\ objects[i].time - now < approach
          BY <1>5, <2>2, <4>1 DEF CanDraw
        <5>. QED
          BY <1>6, <2>1, <3>2, <5>1, <5>2 DEF CanDraw
      <4>. QED
        BY <2>2, <4>1, <4>2
    <3>. QED
      BY <3>1, <3>2 DEF Drawn
  <2>3. ASSUME NEW i \in Drawn(objects, now, approach)
        PROVE  i \in DOMAIN objects /\ CanDraw(objects[i], now, approach)
    <3>1. i \in DOMAIN objects /\ objects[i].end > now - 1
      BY DEF Drawn
    <3>2. i \in 1..i
      <4>. HIDE DEF all
      <4>1. Cardinality(all) \in Nat /\ DOMAIN objects = 1..Cardinality(all)
        BY <1>1, <1>4, FS_CardinalityType
      <4>. QED
        BY <3>1, <4>1
    <3>. QED
      BY <3>1, <3>2 DEF Drawn
  <2>4. Drawn(objects, now, approach) = {i \in DOMAIN objects : CanDraw(objects[i], now, approach)}
    BY <2>2, <2>3
  <2>. QED
    BY <2>4 DEF now
<1>. QED
  BY <1>7 DEF DrawnIsVisible, objects, approach

\* At every moment, in whatever order files are opened and closed and errors
\* are read, the view shows what the application has loaded, and nothing that
\* either points to was freed.
THEOREM ViewAlwaysCurrent == ViewerSpec => []ViewIsCurrent
<1>1. ViewerInv => ViewIsCurrent
  <2>. SUFFICES ASSUME ViewerInv  PROVE ViewIsCurrent
    OBVIOUS
  <2>1. \A seq \in 1..MaxLoads : refs[seq] >= (IF Held(seq) > MaxRefs THEN MaxRefs ELSE Held(seq))
    <3>1. ASSUME NEW seq \in 1..MaxLoads
          PROVE  refs[seq] >= (IF Held(seq) > MaxRefs THEN MaxRefs ELSE Held(seq))
      <4>1. UsesOf(seq) \in Int /\ Held(seq) = UsesOf(seq)
        BY HeldIsUses DEF UsesOf, One
      <4>2. refs[seq] \in Int
        BY DEF ViewerInv, ViewerTypeOK
      <4>3. UsesOf(seq) <= refs[seq] /\ refs[seq] <= MaxRefs /\ MaxRefs \in Nat
        BY ViewerAssumption DEF ViewerInv, Counted
      <4>. QED
        BY <4>1, <4>2, <4>3
    <3>. QED
      BY <3>1
  <2>2. view.on => DrawnIsVisible(app.beatmap.file, view.mods)
    BY SeqFacts, DrawnAll DEF ViewerInv, Shows
  <2>. QED
    BY <2>1, <2>2 DEF ViewerInv, Shows, Heard, ViewIsCurrent
<1>. QED
  BY <1>1, ViewerInvariant, PTL

-----------------------------------------------------------------------------
(***************************************************************************)
(* Frames and key presses.                                                 *)
(***************************************************************************)
LEMMA FlattenIs ==
  ASSUME NEW A, NEW ss \in Seq(Seq(A))
  PROVE  /\ FlattenSeq(ss) \in Seq(A)
         /\ \E at, of : Gathered(at, of, FlattenSeq(ss), ss, Len(ss))
<1>1. CASE Len(ss) = 0
  <2>1. FlattenSeq(ss) = << >> /\ << >> \in Seq(A)
    BY <1>1, EmptySeq, LenProperties DEF FlattenSeq
  <2>2. Gathered(<< >>, << >>, << >>, ss, 0)
    BY GatherNone
  <2>. QED
    BY <1>1, <2>1, <2>2
<1>2. CASE Len(ss) # 0
  <2>1. FlattenSeq(ss) = Joined(ss)
    BY <1>2 DEF FlattenSeq, Joined
  <2>. QED
    BY <1>2, <2>1, JoinedIs
<1>. QED
  BY <1>1, <1>2
\* The least of a set of numbers.
LEMMA LeastIs ==
  ASSUME NEW S, S \subseteq Nat, S # {}
  PROVE  Min(S) \in S /\ \A x \in S : Min(S) <= x
<1>. DEFINE T == {n \in Nat : \A m \in S : ~(m <= n)}
<1>1. SUFFICES \E x \in S : \A y \in S : x <= y
  BY DEF Min
<1>. SUFFICES ASSUME \A x \in S : \E y \in S : ~(x <= y)  PROVE FALSE
  OBVIOUS
<1>2. 0 \in T
  OBVIOUS
<1>3. ASSUME NEW n \in Nat, n \in T  PROVE n + 1 \in T
  <2>. SUFFICES ASSUME NEW m \in S, m <= n + 1  PROVE FALSE
    OBVIOUS
  <2>1. m = n + 1
    BY <1>3
  <2>2. PICK y \in S : ~(m <= y)
    OBVIOUS
  <2>. QED
    BY <1>3, <2>1, <2>2
<1>4. \A n \in Nat : n \in T
  <2>. HIDE DEF T
  <2>. QED
    BY <1>2, <1>3, NatSetInduction
<1>5. PICK x \in S : TRUE
  OBVIOUS
<1>6. x \in T
  BY <1>4
<1>. QED
  BY <1>6

\* The windows are whole numbers, and no press in the window of a 50 is too
\* early for a miss, whatever the difficulty and the mods.
Limits == {"t300", "t100", "t50", "miss"}

LEMMA WindowOrder ==
  ASSUME task.map.od \in Int
  PROVE  /\ \A t \in Limits : Window(t) \in Int
         /\ Window("t50") >= 0 => Window("t50") <= Window("miss")
<1>. DEFINE D == Difficulty10
            M == CASE "DT" \in task.mods -> 2
                   [] "DT" \notin task.mods /\ "HT" \in task.mods -> 4
                   [] OTHER -> 3
<1>1. D \in Int
  <2>1. \A a, b \in Int : Min({a, b}) \in Int
    <3>. SUFFICES ASSUME NEW a \in Int, NEW b \in Int  PROVE Min({a, b}) \in Int
      OBVIOUS
    <3>1. \E x \in {a, b} : \A y \in {a, b} : x <= y
      OBVIOUS
    <3>2. Min({a, b}) \in {a, b}
      BY <3>1 DEF Min
    <3>. QED
      BY <3>2
  <2>2. 5 * task.map.od \in Int /\ 10 * task.map.od \in Int /\ Min({100, 14 * task.map.od}) \in Int
    BY <2>1
  <2>. HIDE DEF D
  <2>. QED
    BY <2>2 DEF D, Difficulty10
<1>2. M \in {2, 3, 4}
  OBVIOUS
<1>3. \A t : Window(t) = (10 * BaseWindow[t] - StepWindow[t] * D) * M
  BY DEF Window
<1>. HIDE DEF D, M
<1>4. /\ Window("t300") = (800 - 6 * D) * M /\ Window("t100") = (1400 - 8 * D) * M
      /\ Window("t50") = (2000 - 10 * D) * M /\ Window("miss") = (3700 - 12 * D) * M
  BY <1>1, <1>2, <1>3 DEF BaseWindow, StepWindow
<1>5. CASE M = 2
  BY <1>1, <1>4, <1>5 DEF Limits
<1>6. CASE M = 3
  BY <1>1, <1>4, <1>6 DEF Limits
<1>7. CASE M = 4
  BY <1>1, <1>4, <1>7 DEF Limits
<1>. QED
  BY <1>2, <1>5, <1>6, <1>7

\* What the frames and the presses are.
FrameType == [time : Int, keys : SUBSET Nat]
PressType == [time : Int, key : Nat, release : BOOLEAN]
FramesOK(fs) == /\ fs \in Seq(FrameType) /\ Len(fs) >= 1
                /\ \A i, j \in 2..Len(fs) : i < j => fs[i].time <= fs[j].time
InTime(kp) == /\ kp \in Seq(PressType)
              /\ \A i, j \in 1..Len(kp) : i < j => kp[i].time <= kp[j].time

\* osux_hits_compute_data leaves the frames in order, after the first.
LEMMA FramesAreOK ==
  ASSUME NEW rows \in Seq(FrameType), Len(rows) >= 3, NEW fs \in Frames(rows)
  PROVE  FramesOK(fs)
<1>. DEFINE kept == SubSeq(rows, 3, Len(rows) - 1)
            D == 1..Len(kept)
            zero == [time |-> 0, keys |-> {}]
<1>1. kept \in Seq(FrameType) /\ Len(kept) \in Nat
  BY SubSeqProperties
<1>2. \A i \in D : kept[i] \in FrameType
  BY <1>1
<1>. HIDE DEF kept
<1>3. PICK f \in [D -> D] :
        /\ \A i, j \in D : i < j => kept[f[i]].time <= kept[f[j]].time
        /\ fs = <<zero>> \o [i \in D |-> kept[f[i]]]
  BY DEF Frames, kept
<1>. DEFINE rest == [i \in D |-> kept[f[i]]]
<1>4. rest \in Seq(FrameType) /\ Len(rest) = Len(kept) /\ \A i \in D : rest[i] = kept[f[i]]
  <2>1. \A i \in D : kept[f[i]] \in FrameType
    BY <1>2
  <2>2. rest \in [1..Len(kept) -> FrameType]
    BY <2>1
  <2>3. rest \in Seq(FrameType) /\ Len(rest) = Len(kept)
    <3>. HIDE DEF rest
    <3>. QED
      BY <1>1, <2>2, SeqDef, LenProperties
  <2>. QED
    BY <2>3
<1>5. <<zero>> \in Seq(FrameType) /\ Len(<<zero>>) = 1
  <2>1. zero \in FrameType
    BY DEF FrameType
  <2>. QED
    BY <2>1
<1>. HIDE DEF rest, zero
<1>6. /\ fs \in Seq(FrameType) /\ Len(fs) = 1 + Len(kept)
      /\ \A i \in 2..Len(fs) : fs[i] = rest[i - 1]
  <2>1. fs = <<zero>> \o rest
    BY <1>3 DEF rest
  <2>. DEFINE one == <<zero>>
  <2>2. one \in Seq(FrameType) /\ Len(one) = 1 /\ fs = one \o rest
    BY <1>5, <2>1
  <2>. HIDE DEF one
  <2>. DEFINE both == one \o rest
  <2>0. /\ both \in Seq(FrameType) /\ Len(both) = Len(one) + Len(rest)
        /\ \A i \in 1..Len(one) + Len(rest) :
             both[i] = IF i <= Len(one) THEN one[i] ELSE rest[i - Len(one)]
    <3>1. one \in Seq(FrameType) /\ rest \in Seq(FrameType)
      BY <1>4, <2>2
    <3>. QED
      BY <3>1, ConcatProperties, Zenon
  <2>. HIDE DEF both
  <2>3. /\ fs \in Seq(FrameType) /\ Len(fs) = 1 + Len(kept)
        /\ \A i \in 1..Len(one) + Len(rest) :
             fs[i] = IF i <= Len(one) THEN one[i] ELSE rest[i - Len(one)]
    <3>1. fs = both
      BY <2>2 DEF both
    <3>. QED
      BY <1>4, <2>0, <2>2, <3>1
  <2>4. \A i \in 2..Len(fs) : fs[i] = rest[i - 1]
    <3>. SUFFICES ASSUME NEW i \in 2..Len(fs)  PROVE fs[i] = rest[i - 1]
      OBVIOUS
    <3>1. i \in 1..Len(one) + Len(rest) /\ ~(i <= Len(one))
      BY <1>1, <1>4, <2>2, <2>3
    <3>. QED
      BY <2>2, <2>3, <3>1
  <2>. QED
    BY <2>3, <2>4
<1>7. ASSUME NEW i \in 2..Len(fs), NEW j \in 2..Len(fs), i < j
      PROVE  fs[i].time <= fs[j].time
  <2>1. i - 1 \in D /\ j - 1 \in D /\ i - 1 < j - 1
    BY <1>1, <1>6, <1>7
  <2>2. fs[i] = kept[f[i - 1]] /\ fs[j] = kept[f[j - 1]]
    BY <1>4, <1>6, <2>1
  <2>. QED
    BY <1>3, <2>1, <2>2
<1>. QED
  BY <1>1, <1>6, <1>7 DEF FramesOK

\* osux_hits_compute_keypress: what changes with a frame has its time.
LEMMA ChangesAre ==
  ASSUME NEW was, NEW is \in FrameType
  PROVE  /\ Changes(was, is) \in Seq(PressType)
         /\ \A k \in 1..Len(Changes(was, is)) : Changes(was, is)[k].time = is.time
<1>. DEFINE T == {k \in DOMAIN HitKey : (HitKey[k] \in was.keys) # (HitKey[k] \in is.keys)}
            diff == Kept(HitKey, T)
            ch == [k \in 1..Len(diff) |->
                     [time |-> is.time, key |-> diff[k], release |-> diff[k] \notin is.keys]]
<1>1. HitKey \in Seq(Nat)
  BY DEF HitKey
<1>. HIDE DEF T
<1>2. diff \in Seq(Nat)
  BY <1>1, KeptIs
<1>. HIDE DEF diff
<1>3. Len(diff) \in Nat /\ \A k \in 1..Len(diff) : diff[k] \in Nat
  BY <1>2
<1>4. is.time \in Int
  BY DEF FrameType
<1>5. ASSUME NEW k \in 1..Len(diff)
      PROVE  ch[k] \in PressType /\ ch[k].time = is.time
  <2>1. ch[k] = [time |-> is.time, key |-> diff[k], release |-> diff[k] \notin is.keys]
    OBVIOUS
  <2>2. (diff[k] \notin is.keys) \in BOOLEAN
    OBVIOUS
  <2>. QED
    BY <1>3, <1>4, <2>1, <2>2 DEF PressType
<1>6. DOMAIN ch = 1..Len(diff) /\ ch = [k \in 1..Len(diff) |-> ch[k]]
  OBVIOUS
<1>7. Changes(was, is) = ch
  BY DEF Changes, T, diff
<1>. HIDE DEF ch
<1>8. ch \in [1..Len(diff) -> PressType]
  BY <1>5, <1>6
<1>9. ch \in Seq(PressType) /\ Len(ch) = Len(diff)
  BY <1>3, <1>8, SeqDef, LenProperties
<1>. QED
  BY <1>5, <1>7, <1>9

LEMMA KeypressesInTime ==
  ASSUME NEW fs, FramesOK(fs)
  PROVE  InTime(Keypresses(fs))
<1>. DEFINE N == Len(fs) - 1
            parts == [i \in 1..N |-> Changes(fs[i], fs[i + 1])]
            w == Keypresses(fs)
<1>1. N \in Nat /\ \A i \in 1..N : fs[i + 1] \in FrameType
  BY DEF FramesOK
<1>2. DOMAIN parts = 1..N /\ \A i \in 1..N : parts[i] = Changes(fs[i], fs[i + 1])
  OBVIOUS
<1>3. parts = [i \in 1..N |-> parts[i]]
  OBVIOUS
<1>4. w = FlattenSeq(parts)
  BY DEF Keypresses
<1>. HIDE DEF parts, w
<1>5. \A i \in 1..N : /\ parts[i] \in Seq(PressType)
                      /\ \A m \in 1..Len(parts[i]) : parts[i][m].time = fs[i + 1].time
  <2>. SUFFICES ASSUME NEW i \in 1..N
                PROVE  /\ parts[i] \in Seq(PressType)
                       /\ \A m \in 1..Len(parts[i]) : parts[i][m].time = fs[i + 1].time
    OBVIOUS
  <2>. DEFINE was == fs[i]
              is == fs[i + 1]
  <2>1. is \in FrameType /\ parts[i] = Changes(was, is)
    BY <1>1, <1>2
  <2>. HIDE DEF was, is
  <2>2. /\ parts[i] \in Seq(PressType)
        /\ \A m \in 1..Len(parts[i]) : parts[i][m].time = is.time
    BY <2>1, ChangesAre
  <2>. QED
    BY <2>2 DEF is
<1>6. parts \in Seq(Seq(PressType)) /\ Len(parts) = N
  <2>. HIDE DEF N
  <2>1. parts \in [1..N -> Seq(PressType)]
    BY <1>3, <1>5
  <2>. QED
    BY <1>1, <2>1, SeqDef, LenProperties
<1>. HIDE DEF N
<1>7. w \in Seq(PressType) /\ \E at, of : Gathered(at, of, w, parts, N)
  BY <1>4, <1>6, FlattenIs
<1>8. PICK at, of : Gathered(at, of, w, parts, N)
  BY <1>7
<1>9. \A k \in 1..Len(w) : at[k] \in 1..N /\ w[k].time = fs[at[k] + 1].time
  <2>. SUFFICES ASSUME NEW k \in 1..Len(w)
                PROVE  at[k] \in 1..N /\ w[k].time = fs[at[k] + 1].time
    OBVIOUS
  <2>1. at[k] \in 1..N /\ of[k] \in 1..Len(parts[at[k]]) /\ w[k] = parts[at[k]][of[k]]
    BY <1>8 DEF Gathered
  <2>. QED
    BY <1>5, <2>1
<1>10. ASSUME NEW j \in 1..Len(w), NEW k \in 1..Len(w), j < k
       PROVE  w[j].time <= w[k].time
  <2>0. at[j] \in 1..N /\ at[k] \in 1..N
    BY <1>9
  <2>0a. at[j] < at[k] \/ at[j] = at[k]
    BY <1>8, <1>10 DEF Gathered
  <2>1. at[j] <= at[k] /\ at[j] \in 1..N /\ at[k] \in 1..N
    BY <1>1, <2>0, <2>0a
  <2>2. at[j] + 1 \in 2..Len(fs) /\ at[k] + 1 \in 2..Len(fs)
    BY <2>1, <1>1 DEF N
  <2>3. \A i \in 2..Len(fs) : fs[i].time \in Int
    <3>1. \A i \in 2..Len(fs) : fs[i] \in FrameType
      BY DEF FramesOK
    <3>. QED
      BY <3>1 DEF FrameType
  <2>4. fs[at[j] + 1].time <= fs[at[k] + 1].time
    <3>1. CASE at[j] = at[k]
      BY <2>2, <2>3, <3>1
    <3>2. CASE at[j] < at[k]
      BY <2>1, <2>2, <3>2 DEF FramesOK
    <3>. QED
      BY <2>1, <3>1, <3>2
  <2>. QED
    BY <1>9, <2>4
<1>. QED
  BY <1>7, <1>10 DEF InTime, w

LEMMA WithoutDoublesInTime ==
  ASSUME NEW kp, InTime(kp)
  PROVE  InTime(WithoutDoubles(kp))
<1>. DEFINE T == {i \in DOMAIN kp : i = 1 \/ ~Double(kp[i - 1], kp[i])}
            w == Kept(kp, T)
<1>. HIDE DEF T
<1>1. kp \in Seq(PressType)
  BY DEF InTime
<1>2. w \in Seq(PressType) /\ \E pos : KeptAt(pos, w, kp, T, Len(kp))
  BY <1>1, KeptIs
<1>3. PICK pos : KeptAt(pos, w, kp, T, Len(kp))
  BY <1>2
<1>. HIDE DEF w
<1>4. ASSUME NEW j \in 1..Len(w), NEW k \in 1..Len(w), j < k
      PROVE  w[j].time <= w[k].time
  <2>1. pos[j] \in 1..Len(kp) /\ pos[k] \in 1..Len(kp) /\ pos[j] < pos[k]
    BY <1>3, <1>4 DEF KeptAt
  <2>2. w[j] = kp[pos[j]] /\ w[k] = kp[pos[k]]
    BY <1>3 DEF KeptAt
  <2>. QED
    BY <2>1, <2>2 DEF InTime
<1>5. InTime(w)
  BY <1>2, <1>4 DEF InTime
<1>. QED
  BY <1>5 DEF w, T, WithoutDoubles

\* parse_replay_data: the times of the rows are whole numbers.
LEMMA ParsedRowsAre ==
  ASSUME NEW rows \in Seq(RowsOfFile)
  PROVE  ParsedRows(rows) \in Seq(FrameType)
<1>. DEFINE N == Len(rows)
            h == [x \in (1..N) \X Int |-> IF x[1] = 1 THEN 0 ELSE x[2] + rows[x[1]].dt]
            Good(g) == g = [i \in 1..N |-> IF i = 1 THEN 0 ELSE g[i - 1] + rows[i].dt]
            time == CHOOSE g : Good(g)
<1>1. N \in Nat /\ \A k \in 1..N : rows[k] \in RowsOfFile
  OBVIOUS
<1>2. \A k \in 1..N : rows[k].dt \in Int /\ rows[k].keys \in SUBSET Nat
  BY <1>1 DEF RowsOfFile
<1>3. ASSUME NEW k \in 1..N, NEW v \in Int
      PROVE  h[<<k, v>>] = (IF k = 1 THEN 0 ELSE v + rows[k].dt) /\ h[<<k, v>>] \in Int
  <2>1. <<k, v>> \in (1..N) \X Int /\ <<k, v>>[1] = k /\ <<k, v>>[2] = v
    OBVIOUS
  <2>2. h[<<k, v>>] = (IF k = 1 THEN 0 ELSE v + rows[k].dt)
    BY <2>1
  <2>. QED
    BY <1>2, <2>2
<1>. HIDE DEF h, N
<1>4. PICK g \in [0..N -> Int] : g = [k \in 0..N |-> IF k = 0 THEN 0 ELSE h[<<k, g[k - 1]>>]]
  <2>1. Steps(N, Int, 0, h)
    BY <1>1, <1>3 DEF Steps
  <2>. QED
    BY <2>1, StepFunction
<1>. DEFINE g1 == [i \in 1..N |-> g[i]]
<1>5. Good(g1)
  <2>1. ASSUME NEW i \in 1..N
        PROVE  g1[i] = IF i = 1 THEN 0 ELSE g1[i - 1] + rows[i].dt
    <3>1. i \in 0..N /\ i # 0 /\ i - 1 \in 0..N /\ g1[i] = g[i]
      BY <1>1
    <3>2. g[i] = h[<<i, g[i - 1]>>] /\ g[i - 1] \in Int
      BY <1>4, <3>1
    <3>3. g1[i] = IF i = 1 THEN 0 ELSE g[i - 1] + rows[i].dt
      BY <1>3, <3>1, <3>2
    <3>4. i # 1 => i - 1 \in 1..N /\ g1[i - 1] = g[i - 1]
      BY <1>1
    <3>. QED
      BY <3>3, <3>4
  <2>. HIDE DEF g1
  <2>2. g1 = [i \in 1..N |-> g1[i]]
    BY DEF g1
  <2>3. [i \in 1..N |-> g1[i]] = [i \in 1..N |-> IF i = 1 THEN 0 ELSE g1[i - 1] + rows[i].dt]
    BY <2>1
  <2>. QED
    BY <2>2, <2>3
<1>6. Good(time)
  <2>. HIDE DEF Good, g1
  <2>. QED
    BY <1>5
<1>. HIDE DEF time, g1
<1>. DEFINE S == {n \in Nat : n + 1 \in 1..N => time[n + 1] \in Int}
<1>7. 0 \in S
  BY <1>1, <1>6
<1>8. ASSUME NEW n \in Nat, n \in S  PROVE n + 1 \in S
  <2>. SUFFICES ASSUME n + 2 \in 1..N  PROVE time[n + 2] \in Int
    OBVIOUS
  <2>1. n + 1 \in 1..N /\ (n + 2) - 1 = n + 1 /\ n + 2 # 1
    BY <1>1
  <2>2. time[n + 1] \in Int
    BY <1>8, <2>1
  <2>3. time[n + 2] = time[n + 1] + rows[n + 2].dt
    BY <1>6, <2>1
  <2>. QED
    BY <1>2, <2>2, <2>3
<1>9. \A n \in Nat : n \in S
  <2>. HIDE DEF S
  <2>. QED
    BY <1>7, <1>8, NatSetInduction
<1>10. \A i \in 1..N : time[i] \in Int
  <2>. SUFFICES ASSUME NEW i \in 1..N  PROVE time[i] \in Int
    OBVIOUS
  <2>1. i - 1 \in Nat /\ (i - 1) + 1 = i
    BY <1>1
  <2>2. i - 1 \in S
    BY <1>9, <2>1
  <2>. QED
    BY <2>1, <2>2
<1>. HIDE DEF S
<1>. DEFINE out == [i \in 1..N |-> [time |-> time[i], keys |-> rows[i].keys]]
<1>11. ParsedRows(rows) = out
  BY DEF ParsedRows, time, N
<1>12. \A i \in 1..N : out[i] \in FrameType
  BY <1>2, <1>10 DEF FrameType
<1>13. out = [i \in 1..N |-> out[i]]
  OBVIOUS
<1>. HIDE DEF out
<1>14. out \in [1..N -> FrameType]
  BY <1>12, <1>13
<1>. QED
  BY <1>1, <1>11, <1>14, SeqDef

-----------------------------------------------------------------------------
(***************************************************************************)
(* The hits: MissesExplained.                                              *)
(***************************************************************************)
ObjectType == [kind : STRING, time : Int, end : Int]
VerdictType == [type : {"300", "100", "50", "miss"}, hitted : BOOLEAN]

HitTypes ==
  /\ task.map.od \in Int /\ Objects \in Seq(ObjectType) /\ task.rows \in Seq(FrameType)
  /\ InTime(keypress) /\ p \in 1..Len(keypress) + 1
  /\ hits \in Seq(VerdictType) /\ taken \in Seq(Int)
  /\ Len(taken) = Len(hits) /\ Len(hits) <= Len(Objects)
  /\ stage = "frames" => FramesOK(frames)
  /\ stage \in {"idle", "rows", "frames"} =>
       hits = << >> /\ taken = << >> /\ keypress = << >> /\ p = 1

\* With the verdicts H and the judges T: press s was passed for a reason; the
\* pointer e has passed the judges and no press but for a reason; and
\* MissesExplained.
PassedBy(H, T, s) ==
  \E j \in 1..Len(H) : \/ T[j] = s
                       \/ FreeWin(Objects[j]) /\ keypress[s].time < Objects[j].end
                       \/ TooEarly(s, Objects[j])
Pointed(H, T, e) ==
  /\ \A j \in 1..Len(H) : T[j] < e
  /\ \A s \in 1..e - 1 : IsPress(s) => PassedBy(H, T, s)
Explained(H, T) ==
  \A i \in 1..Len(H) :
    /\ T[i] > 0 => IsPress(T[i]) /\ \A j \in 1..i - 1 : T[j] < T[i]
    /\ (T[i] = 0 /\ ~H[i].hitted /\ \A j \in 1..i : Objects[j].time <= Objects[i].time) =>
         \A q \in K : InWindow(q, Objects[i]) =>
           \E j \in 1..i - 1 : \/ T[j] = q
                               \/ FreeWin(Objects[j]) /\ keypress[q].time < Objects[j].end

HitInv ==
  /\ HitTypes
  /\ stage = "objects" => Pointed(hits, taken, p)
  /\ Explained(hits, taken)

LEMMA TimesAre ==
  ASSUME HitTypes
  PROVE  /\ \A q \in K : keypress[q].time \in Int /\ keypress[q].release \in BOOLEAN
         /\ \A j \in 1..Len(Objects) : /\ Objects[j] \in ObjectType
                                       /\ Objects[j].time \in Int /\ Objects[j].end \in Int
         /\ \A q \in K : \A j \in 1..Len(Objects) :
              Distance(q, Objects[j]) = 30 * (keypress[q].time - Objects[j].time)
         /\ Len(keypress) \in Nat /\ K = 1..Len(keypress)
<1>1. /\ keypress \in Seq(PressType) /\ Objects \in Seq(ObjectType)
  BY DEF HitTypes, InTime
<1>2. \A q \in K : keypress[q] \in PressType
  BY <1>1 DEF K
<1>3. \A j \in 1..Len(Objects) : Objects[j] \in ObjectType
  BY <1>1
<1>. QED
  BY <1>1, <1>2, <1>3 DEF PressType, ObjectType, Distance, K

\* What judging one object more keeps: q is where the skipping stopped, e where
\* the pointer goes, t the press that judged.
OneMore(o, v, t, q, e) ==
  /\ v \in VerdictType /\ t \in Int
  /\ q \in p..Len(keypress) + 1 /\ e \in q..Len(keypress) + 1 /\ t < e
  /\ \A s \in p..q - 1 : Skipped(s, o)
  /\ \A s \in q..e - 1 : t = s \/ (FreeWin(o) /\ keypress[s].time < o.end)
  /\ t > 0 => IsPress(t) /\ p <= t
  /\ t = 0 /\ ~v.hitted => \A s \in q..Len(keypress) : Distance(s, o) > Window("t50")

LEMMA OneMoreKeeps ==
  ASSUME HitTypes, Pointed(hits, taken, p), Explained(hits, taken), Len(hits) < Len(Objects),
         NEW v, NEW t, NEW q, NEW e, OneMore(Objects[Len(hits) + 1], v, t, q, e)
  PROVE  /\ Pointed(Append(hits, v), Append(taken, t), e)
         /\ Explained(Append(hits, v), Append(taken, t))
<1>. DEFINE N == Len(hits)
            H == Append(hits, v)
            T == Append(taken, t)
            o == Objects[N + 1]
            L == Len(keypress)
<1>1. /\ v \in VerdictType /\ t \in Int
      /\ q \in p..L + 1 /\ e \in q..L + 1 /\ t < e
      /\ \A s \in p..q - 1 : Skipped(s, o)
      /\ \A s \in q..e - 1 : t = s \/ (FreeWin(o) /\ keypress[s].time < o.end)
      /\ t > 0 => IsPress(t) /\ p <= t
      /\ t = 0 /\ ~v.hitted => \A s \in q..L : Distance(s, o) > Window("t50")
  BY DEF OneMore
<1>2. /\ N \in Nat /\ Len(H) = N + 1
      /\ \A j \in 1..N : H[j] = hits[j] /\ T[j] = taken[j] /\ taken[j] \in Int
      /\ H[N + 1] = v /\ T[N + 1] = t
  <2>1. hits \in Seq(VerdictType) /\ taken \in Seq(Int) /\ Len(taken) = N
    BY DEF HitTypes
  <2>2. Len(H) = Len(hits) + 1 /\ Len(hits) \in Nat /\ H[Len(hits) + 1] = v
        /\ \A j \in 1..Len(hits) : H[j] = hits[j]
    BY <1>1, <2>1, AppendIs
  <2>3. T[Len(taken) + 1] = t /\ \A j \in 1..Len(taken) : T[j] = taken[j]
    BY <1>1, <2>1, AppendIs
  <2>4. \A j \in 1..Len(taken) : taken[j] \in Int
    BY <2>1
  <2>. QED
    BY <2>1, <2>2, <2>3, <2>4
<1>3. L \in Nat /\ p \in 1..L + 1 /\ K = 1..L
  BY TimesAre DEF HitTypes
<1>4. o \in ObjectType /\ N + 1 \in 1..Len(Objects) /\ Len(Objects) \in Nat
  <2>1. Objects \in Seq(ObjectType)
    BY DEF HitTypes
  <2>. QED
    BY <1>2, <2>1
<1>. HIDE DEF H, T, N, L
<1>5. Pointed(H, T, e)
  <2>1. ASSUME NEW j \in 1..Len(H)  PROVE T[j] < e
    <3>1. CASE j = N + 1
      BY <1>1, <1>2, <3>1
    <3>2. CASE j \in 1..N
      <4>1. taken[j] < p
        BY <3>2 DEF Pointed, N
      <4>. QED
        BY <1>1, <1>2, <1>3, <3>2, <4>1
    <3>. QED
      BY <1>2, <3>1, <3>2
  <2>2. ASSUME NEW s \in 1..e - 1, IsPress(s)  PROVE PassedBy(H, T, s)
    <3>1. CASE s < p
      <4>1. s \in 1..p - 1
        BY <1>1, <1>3, <3>1
      <4>2. PassedBy(hits, taken, s)
        BY <2>2, <4>1 DEF Pointed
      <4>3. PICK j \in 1..N : \/ taken[j] = s
                              \/ FreeWin(Objects[j]) /\ keypress[s].time < Objects[j].end
                              \/ TooEarly(s, Objects[j])
        BY <4>2 DEF PassedBy, N
      <4>4. j \in 1..Len(H) /\ T[j] = taken[j]
        BY <1>2
      <4>. QED
        BY <4>3, <4>4 DEF PassedBy
    <3>2. CASE p <= s /\ s < q
      <4>1. s \in p..q - 1 /\ N + 1 \in 1..Len(H)
        BY <1>1, <1>2, <1>3, <3>2
      <4>2. TooEarly(s, o)
        BY <1>1, <2>2, <4>1 DEF Skipped, IsPress
      <4>. QED
        BY <4>1, <4>2 DEF PassedBy
    <3>3. CASE q <= s
      <4>1. s \in q..e - 1 /\ N + 1 \in 1..Len(H)
        BY <1>1, <1>2, <1>3, <3>3
      <4>2. T[N + 1] = s \/ (FreeWin(o) /\ keypress[s].time < o.end)
        BY <1>1, <1>2, <4>1
      <4>. QED
        BY <4>1, <4>2 DEF PassedBy
    <3>. QED
      BY <1>1, <1>3, <3>1, <3>2, <3>3
  <2>. QED
    BY <2>1, <2>2 DEF Pointed
<1>6. Explained(H, T)
  <2>1. ASSUME NEW i \in 1..Len(H), T[i] > 0
        PROVE  IsPress(T[i]) /\ \A j \in 1..i - 1 : T[j] < T[i]
    <3>1. CASE i \in 1..N
      <4>1. \A j \in 1..i - 1 : j \in 1..N
        BY <1>2, <3>1
      <4>2. IsPress(taken[i]) /\ \A j \in 1..i - 1 : taken[j] < taken[i]
        BY <1>2, <2>1, <3>1 DEF Explained, N
      <4>. QED
        BY <1>2, <3>1, <4>1, <4>2
    <3>2. CASE i = N + 1
      <4>1. \A j \in 1..i - 1 : j \in 1..N
        BY <1>2, <3>2
      <4>2. \A j \in 1..N : taken[j] < p
        BY DEF Pointed, N
      <4>3. IsPress(t) /\ p <= t
        BY <1>1, <1>2, <2>1, <3>2
      <4>4. T[i] = t
        BY <1>2, <3>2
      <4>5. ASSUME NEW j \in 1..i - 1  PROVE T[j] < t
        <5>1. T[j] \in Int /\ T[j] < p
          BY <1>2, <4>1, <4>2
        <5>. QED
          BY <1>1, <1>3, <4>3, <5>1
      <4>. QED
        BY <4>3, <4>4, <4>5
    <3>. QED
      BY <1>2, <3>1, <3>2
  <2>2. ASSUME NEW i \in 1..Len(H), T[i] = 0, ~H[i].hitted,
               \A j \in 1..i : Objects[j].time <= Objects[i].time,
               NEW s \in K, InWindow(s, Objects[i])
        PROVE  \E j \in 1..i - 1 : \/ T[j] = s
                                   \/ FreeWin(Objects[j]) /\ keypress[s].time < Objects[j].end
    <3>1. CASE i \in 1..N
      <4>1. \A j \in 1..i - 1 : j \in 1..N
        BY <1>2, <3>1
      <4>2. taken[i] = 0 /\ ~hits[i].hitted
        BY <1>2, <2>2, <3>1
      <4>3. PICK j \in 1..i - 1 : \/ taken[j] = s
                                  \/ FreeWin(Objects[j]) /\ keypress[s].time < Objects[j].end
        BY <2>2, <3>1, <4>2 DEF Explained, N
      <4>. QED
        BY <1>2, <4>1, <4>3
    <3>2. CASE i = N + 1
      <4>1. IsPress(s) /\ Abs(Distance(s, o)) <= Window("t50")
        BY <2>2, <3>2 DEF InWindow
      <4>2. /\ Window("t50") \in Int /\ Window("miss") \in Int
            /\ Window("t50") >= 0 => Window("t50") <= Window("miss")
        BY WindowOrder DEF HitTypes, Limits
      <4>3. \A j \in 1..N + 1 : /\ Objects[j].time \in Int
                                /\ Distance(s, Objects[j]) = 30 * (keypress[s].time - Objects[j].time)
                                /\ Distance(s, Objects[j]) \in Int
        BY <1>2, <1>4, TimesAre
      <4>4. Distance(s, o) \in Int
        BY <1>2, <4>3
      <4>5. /\ Window("t50") >= 0 /\ Window("t50") <= Window("miss")
            /\ Distance(s, o) >= -Window("t50") /\ Distance(s, o) <= Window("t50")
        BY <4>1, <4>2, <4>4 DEF Abs
      <4>6. \A j \in 1..N + 1 : Distance(s, Objects[j]) >= Distance(s, o)
        <5>1. \A j \in 1..N + 1 : Objects[j].time <= o.time
          BY <1>2, <2>2, <3>2
        <5>2. keypress[s].time \in Int
          BY TimesAre
        <5>3. /\ o.time \in Int
              /\ Distance(s, o) = 30 * (keypress[s].time - o.time)
          BY <1>2, <4>3
        <5>4. ASSUME NEW j \in 1..N + 1  PROVE Distance(s, Objects[j]) >= Distance(s, o)
          <6>1. /\ Objects[j].time \in Int /\ Objects[j].time <= o.time
                /\ Distance(s, Objects[j]) = 30 * (keypress[s].time - Objects[j].time)
            BY <4>3, <5>1
          <6>. QED
            BY <5>2, <5>3, <6>1
        <5>. QED
          BY <5>4
      <4>7. \A j \in 1..N + 1 : ~TooEarly(s, Objects[j])
        BY <4>2, <4>3, <4>4, <4>5, <4>6 DEF TooEarly
      <4>8. CASE s < p
        <5>1. s \in 1..p - 1
          BY <1>3, <4>8
        <5>2. PassedBy(hits, taken, s)
          BY <4>1, <5>1 DEF Pointed
        <5>3. PICK j \in 1..N : \/ taken[j] = s
                                \/ FreeWin(Objects[j]) /\ keypress[s].time < Objects[j].end
                                \/ TooEarly(s, Objects[j])
          BY <5>2 DEF PassedBy, N
        <5>4. j \in 1..i - 1 /\ j \in 1..N + 1 /\ T[j] = taken[j]
          BY <1>2, <3>2
        <5>. QED
          BY <4>7, <5>3, <5>4
      <4>9. CASE p <= s /\ s < q
        <5>1. s \in p..q - 1 /\ N + 1 \in 1..N + 1
          BY <1>1, <1>2, <1>3, <4>9
        <5>2. TooEarly(s, o)
          BY <1>1, <4>1, <5>1 DEF Skipped, IsPress
        <5>. QED
          BY <4>7, <5>1, <5>2
      <4>10. CASE q <= s
        <5>1. s \in q..L /\ t = 0 /\ ~v.hitted
          BY <1>1, <1>2, <1>3, <2>2, <3>2, <4>10
        <5>2. Distance(s, o) > Window("t50")
          BY <1>1, <5>1
        <5>. QED
          BY <4>2, <4>4, <4>5, <5>2
      <4>. QED
        BY <1>1, <1>3, <4>8, <4>9, <4>10
    <3>. QED
      BY <1>2, <3>1, <3>2
  <2>. QED
    BY <2>1, <2>2 DEF Explained
<1>. QED
  BY <1>5, <1>6 DEF H, T

LEMMA SameJudgement ==
  ASSUME task' = task, keypress' = keypress
  PROVE  /\ Pointed(hits, taken, p)' <=> Pointed(hits', taken', p')
         /\ Explained(hits, taken)' <=> Explained(hits', taken')
         /\ Objects' = Objects
<1>1. Pointed(hits, taken, p)' <=> Pointed(hits', taken', p')
  BY DEF Pointed, PassedBy, IsPress, K, FreeWin, Objects, TooEarly, Distance, Window, Difficulty10
<1>2. Explained(hits, taken)' <=> Explained(hits', taken')
  BY DEF Explained, IsPress, K, FreeWin, Objects, InWindow, Distance, Window, Difficulty10
<1>. QED
  BY <1>1, <1>2 DEF Objects

\* Where the skipping stops: at a press that is not skipped, or after the last.
LEMMA FirstPressIs ==
  ASSUME HitTypes, NEW o
  PROVE  /\ FirstPress(o) \in p..Len(keypress) + 1
         /\ \A s \in p..FirstPress(o) - 1 : Skipped(s, o)
         /\ FirstPress(o) \in K => ~Skipped(FirstPress(o), o)
<1>. DEFINE L == Len(keypress)
            S == {q \in K : q >= p /\ ~Skipped(q, o)} \cup {L + 1}
            f == FirstPress(o)
<1>1. L \in Nat /\ p \in 1..L + 1 /\ K = 1..L
  BY TimesAre DEF HitTypes
<1>2. S \subseteq Nat /\ S # {} /\ L + 1 \in S /\ S \subseteq p..L + 1
  BY <1>1
<1>3. f \in S /\ \A x \in S : f <= x
  <2>1. f = Min(S)
    BY DEF FirstPress
  <2>. HIDE DEF S
  <2>. QED
    BY <1>2, <2>1, LeastIs
<1>. HIDE DEF f
<1>4. ASSUME NEW s \in p..f - 1  PROVE Skipped(s, o)
  <2>1. s \in K /\ s >= p /\ ~(f <= s)
    BY <1>1, <1>2, <1>3
  <2>. QED
    BY <1>3, <2>1
<1>5. f \in K => ~Skipped(f, o)
  BY <1>1, <1>3
<1>. QED
  BY <1>2, <1>3, <1>4, <1>5 DEF f

\* Where the pointer goes: past what the object needs, and past the press that
\* judged it.
LEMMA AfterPressIs ==
  ASSUME HitTypes, NEW o, NEW q \in K
  PROVE  /\ AfterPress(q, o) \in q..Len(keypress) + 1
         /\ FreeWin(o) => \A s \in q..AfterPress(q, o) - 1 : ~(keypress[s].time >= o.end)
         /\ ~FreeWin(o) =>
              AfterPress(q, o) = IF Distance(q, o) <= Window("t50") \/ LateSlider(q, o) THEN q + 1 ELSE q
<1>. DEFINE L == Len(keypress)
            S == {s \in K : s >= q /\ keypress[s].time >= o.end} \cup {L + 1}
            a == AfterPress(q, o)
<1>1. L \in Nat /\ K = 1..L /\ q \in 1..L
  BY TimesAre DEF HitTypes
<1>2. CASE FreeWin(o)
  <2>1. S \subseteq Nat /\ S # {} /\ S \subseteq q..L + 1
    BY <1>1
  <2>2. a \in S /\ \A x \in S : a <= x
    <3>1. a = Min(S)
      BY <1>2 DEF AfterPress
    <3>. HIDE DEF S
    <3>. QED
      BY <2>1, <3>1, LeastIs
  <2>. HIDE DEF a
  <2>3. ASSUME NEW s \in q..a - 1  PROVE ~(keypress[s].time >= o.end)
    <3>1. s \in K /\ s >= q /\ ~(a <= s)
      BY <1>1, <2>1, <2>2
    <3>. QED
      BY <2>2, <3>1
  <2>. QED
    BY <1>2, <2>1, <2>2, <2>3 DEF a
<1>3. CASE ~FreeWin(o)
  BY <1>1, <1>3 DEF AfterPress
<1>. QED
  BY <1>2, <1>3

LEMMA VerdictsAre ==
  ASSUME NEW type \in {"300", "100", "50", "miss"}, NEW hitted \in BOOLEAN
  PROVE  /\ [type |-> type, hitted |-> hitted] \in VerdictType
         /\ [type |-> type, hitted |-> hitted].hitted = hitted
  BY DEF VerdictType

LEMMA VerdictIs ==
  ASSUME NEW q, NEW o
  PROVE  /\ VerdictOf(q, o) \in VerdictType
         /\ VerdictOf(q, o).hitted <=>
              FreeWin(o) \/ ~(Distance(q, o) > Window("t50")) \/ LateSlider(q, o)
<1>. DEFINE late == Distance(q, o) > Window("t50")
            won == [type |-> "300", hitted |-> TRUE]
            lost == [type |-> "miss", hitted |-> FALSE]
<1>0. won \in VerdictType /\ won.hitted /\ lost \in VerdictType /\ ~lost.hitted
  BY VerdictsAre
<1>1. CASE FreeWin(o)
  <2>1. VerdictOf(q, o) = won
    BY <1>1 DEF VerdictOf, Verdict
  <2>. HIDE DEF won
  <2>. QED
    BY <1>0, <1>1, <2>1
<1>2. CASE ~FreeWin(o) /\ late /\ LateSlider(q, o)
  <2>1. VerdictOf(q, o) = won
    BY <1>2 DEF VerdictOf, Verdict
  <2>. HIDE DEF won
  <2>. QED
    BY <1>0, <1>2, <2>1
<1>3. CASE ~FreeWin(o) /\ late /\ ~LateSlider(q, o)
  <2>1. VerdictOf(q, o) = lost
    BY <1>3 DEF VerdictOf, Verdict
  <2>. HIDE DEF lost, late
  <2>2. ~VerdictOf(q, o).hitted /\ VerdictOf(q, o) \in VerdictType
    BY <1>0, <2>1
  <2>. QED
    BY <1>3, <2>2 DEF late
<1>4. CASE ~FreeWin(o) /\ ~late
  <2>. DEFINE type == IF o.kind = "circle" THEN TypeAt(Abs(Distance(q, o))) ELSE "300"
              judged == [type |-> type, hitted |-> TRUE]
  <2>1. type \in {"300", "100", "50", "miss"}
    <3>1. \A d : TypeAt(d) \in {"300", "100", "50", "miss"}
      <4>. SUFFICES ASSUME NEW d  PROVE TypeAt(d) \in {"300", "100", "50", "miss"}
        OBVIOUS
      <4>1. \A a, b, c, e \in BOOLEAN :
              (CASE a -> "300" [] b -> "100" [] c -> "50" [] e -> "100" [] OTHER -> "miss")
                \in {"300", "100", "50", "miss"}
        OBVIOUS
      <4>. QED
        BY <4>1 DEF TypeAt
    <3>. QED
      BY <3>1
  <2>2. VerdictOf(q, o) = judged
    BY <1>4 DEF VerdictOf, Verdict
  <2>. HIDE DEF type
  <2>3. judged \in VerdictType /\ judged.hitted
    BY <2>1, VerdictsAre
  <2>. HIDE DEF judged
  <2>. QED
    BY <1>4, <2>2, <2>3
<1>. QED
  BY <1>1, <1>2, <1>3, <1>4

LEMMA PastTheEndIs ==
  ASSUME NEW o, NEW v \in PastTheEnd(o)
  PROVE  v \in VerdictType
<1>1. \A t \in {"300", "100", "50", "miss"} : \A h \in BOOLEAN : Verdict(t, h) \in VerdictType
  BY VerdictsAre DEF Verdict
<1>2. \E t \in {"300", "100", "50", "miss"} : \E h \in BOOLEAN : v = Verdict(t, h)
  BY DEF PastTheEnd
<1>. QED
  BY <1>1, <1>2

\* A step that judges one object more.
LEMMA JudgedKeeps ==
  ASSUME HitInv, stage = "objects", Len(hits) < Len(Objects),
         NEW v, NEW t, OneMore(Objects[Len(hits) + 1], v, t, FirstPress(Objects[Len(hits) + 1]), p'),
         hits' = Append(hits, v), taken' = Append(taken, t),
         UNCHANGED <<task, frames, keypress, stage>>
  PROVE  HitInv'
<1>1. /\ HitTypes /\ Pointed(hits, taken, p) /\ Explained(hits, taken)
  BY DEF HitInv
<1>2. Pointed(hits', taken', p') /\ Explained(hits', taken')
  BY <1>1, OneMoreKeeps
<1>3. p' \in 1..Len(keypress) + 1
  BY <1>1, TimesAre DEF OneMore, HitTypes
<1>4. /\ hits' \in Seq(VerdictType) /\ taken' \in Seq(Int)
      /\ Len(taken') = Len(hits') /\ Len(hits') <= Len(Objects)
  <2>1. /\ hits \in Seq(VerdictType) /\ taken \in Seq(Int) /\ Len(taken) = Len(hits)
        /\ Objects \in Seq(ObjectType)
    BY <1>1 DEF HitTypes
  <2>2. v \in VerdictType /\ t \in Int
    BY DEF OneMore
  <2>3. hits' \in Seq(VerdictType) /\ Len(hits') = Len(hits) + 1 /\ Len(hits) \in Nat
    BY <2>1, <2>2, AppendIs
  <2>4. taken' \in Seq(Int) /\ Len(taken') = Len(taken) + 1
    BY <2>1, <2>2, AppendIs
  <2>5. Len(Objects) \in Nat
    BY <2>1
  <2>. QED
    BY <2>1, <2>3, <2>4, <2>5
<1>5. HitTypes'
  BY <1>1, <1>3, <1>4, SameJudgement DEF HitTypes, InTime
<1>. QED
  BY <1>2, <1>5, SameJudgement DEF HitInv

LEMMA JudgeKeeps ==
  ASSUME HitInv, Judge
  PROVE  HitInv'
<1>. DEFINE o == Objects[Len(hits) + 1]
            q == FirstPress(o)
            v == VerdictOf(q, o)
            t == IF ~FreeWin(o) /\ v.hitted THEN q ELSE 0
            late == Distance(q, o) > Window("t50")
<1>1. /\ stage = "objects" /\ Len(hits) < Len(Objects) /\ q \in K
      /\ hits' = Append(hits, v) /\ p' = AfterPress(q, o) /\ taken' = Append(taken, t)
      /\ UNCHANGED <<task, frames, keypress, stage>>
  BY DEF Judge
<1>2. HitTypes
  BY DEF HitInv
<1>3. /\ Len(keypress) \in Nat /\ K = 1..Len(keypress) /\ p \in 1..Len(keypress) + 1
      /\ \A s \in K : keypress[s].time \in Int /\ keypress[s].release \in BOOLEAN
      /\ o \in ObjectType /\ o.time \in Int /\ o.end \in Int
      /\ \A s \in K : Distance(s, o) = 30 * (keypress[s].time - o.time)
      /\ Window("t50") \in Int
  <2>1. Len(hits) + 1 \in 1..Len(Objects)
    <3>1. hits \in Seq(VerdictType) /\ Objects \in Seq(ObjectType)
      BY <1>2 DEF HitTypes
    <3>. QED
      BY <1>1, <3>1
  <2>2. Window("t50") \in Int
    BY <1>2, WindowOrder DEF HitTypes, Limits
  <2>. QED
    BY <1>2, <2>1, <2>2, TimesAre DEF HitTypes
<1>4. /\ q \in p..Len(keypress) + 1 /\ \A s \in p..q - 1 : Skipped(s, o)
      /\ ~Skipped(q, o)
  BY <1>1, <1>2, FirstPressIs
<1>5. /\ p' \in q..Len(keypress) + 1
      /\ FreeWin(o) => \A s \in q..p' - 1 : ~(keypress[s].time >= o.end)
      /\ ~FreeWin(o) => p' = IF ~late \/ LateSlider(q, o) THEN q + 1 ELSE q
  <2>1. Distance(q, o) \in Int
    <3>1. o.time \in Int /\ q \in K
      BY <1>1, <1>3
    <3>2. /\ keypress[q].time \in Int
          /\ Distance(q, o) = 30 * (keypress[q].time - o.time)
      BY <1>3, <3>1
    <3>. HIDE DEF q, o
    <3>. QED
      BY <3>1, <3>2
  <2>2. (Distance(q, o) <= Window("t50")) <=> ~late
    BY <1>3, <2>1
  <2>. HIDE DEF late, o, q
  <2>. QED
    BY <1>1, <1>2, <2>2, AfterPressIs
<1>6. v \in VerdictType /\ (v.hitted <=> FreeWin(o) \/ ~late \/ LateSlider(q, o))
  <2>. HIDE DEF o, q
  <2>. QED
    BY VerdictIs
<1>7. /\ FreeWin(o) => t = 0 /\ v.hitted
      /\ ~FreeWin(o) /\ v.hitted => t = q /\ p' = q + 1
      /\ ~FreeWin(o) /\ ~v.hitted => t = 0 /\ p' = q /\ late
  <2>. HIDE DEF o, q, v, late
  <2>. QED
    BY <1>5, <1>6
<1>8. \A s \in q..Len(keypress) : late => Distance(s, o) > Window("t50")
  <2>. SUFFICES ASSUME NEW s \in q..Len(keypress), late  PROVE Distance(s, o) > Window("t50")
    OBVIOUS
  <2>1. s \in K /\ q \in K
    BY <1>1, <1>3, <1>4
  <2>2. keypress[q].time <= keypress[s].time
    <3>1. CASE q = s
      BY <1>3, <2>1, <3>1
    <3>2. CASE q < s
      BY <1>2, <1>3, <2>1, <3>2 DEF HitTypes, InTime
    <3>. QED
      BY <1>3, <2>1, <3>1, <3>2
  <2>3. /\ Distance(q, o) = 30 * (keypress[q].time - o.time)
        /\ Distance(s, o) = 30 * (keypress[s].time - o.time)
        /\ keypress[q].time \in Int /\ keypress[s].time \in Int
    BY <1>3, <2>1
  <2>. HIDE DEF q, o
  <2>. QED
    BY <1>3, <2>2, <2>3
<1>9. IsPress(q)
  BY <1>1, <1>3, <1>4 DEF IsPress, Skipped
<1>. HIDE DEF o, q, v, t, late
<1>10. q \in Nat /\ q >= 1 /\ p <= q
  BY <1>3, <1>4
<1>11. t \in Int /\ t < p' /\ (t > 0 => IsPress(t) /\ p <= t)
  BY <1>3, <1>5, <1>7, <1>9, <1>10
<1>12. \A s \in q..p' - 1 : t = s \/ (FreeWin(o) /\ keypress[s].time < o.end)
  <2>. SUFFICES ASSUME NEW s \in q..p' - 1
                PROVE  t = s \/ (FreeWin(o) /\ keypress[s].time < o.end)
    OBVIOUS
  <2>1. CASE FreeWin(o)
    <3>1. s \in K
      BY <1>3, <1>5, <1>10
    <3>. QED
      BY <1>3, <1>5, <2>1, <3>1
  <2>2. CASE ~FreeWin(o)
    BY <1>7, <1>10, <2>2
  <2>. QED
    BY <2>1, <2>2
<1>13. t = 0 /\ ~v.hitted => \A s \in q..Len(keypress) : Distance(s, o) > Window("t50")
  BY <1>7, <1>8
<1>14. OneMore(o, v, t, q, p')
  BY <1>4, <1>5, <1>6, <1>11, <1>12, <1>13 DEF OneMore
<1>15. OneMore(Objects[Len(hits) + 1], v, t, FirstPress(Objects[Len(hits) + 1]), p')
  BY <1>14 DEF o, q
<1>. QED
  BY <1>1, <1>15, JudgedKeeps

LEMMA JudgePastEndKeeps ==
  ASSUME HitInv, JudgePastEnd
  PROVE  HitInv'
<1>. DEFINE o == Objects[Len(hits) + 1]
            L == Len(keypress)
<1>1. /\ stage = "objects" /\ Len(hits) < Len(Objects) /\ FirstPress(o) \notin K /\ p' = L + 1
      /\ \/ /\ hits' \in {Append(hits, v) : v \in PastTheEnd(o)}
            /\ taken' = Append(taken, -1) /\ UNCHANGED stage
         \/ stage' = "crashed" /\ UNCHANGED <<hits, taken>>
      /\ UNCHANGED <<task, frames, keypress>>
  BY DEF JudgePastEnd
<1>2. HitTypes
  BY DEF HitInv
<1>3. L \in Nat /\ p \in 1..L + 1 /\ K = 1..L
  BY <1>2, TimesAre DEF HitTypes
<1>4. CASE stage' = "crashed" /\ UNCHANGED <<hits, taken>>
  <2>1. HitTypes'
    BY <1>1, <1>2, <1>3, <1>4, SameJudgement DEF HitTypes, InTime
  <2>2. Explained(hits', taken')
    BY <1>4 DEF HitInv
  <2>. QED
    BY <1>1, <1>4, <2>1, <2>2, SameJudgement DEF HitInv
<1>5. CASE hits' \in {Append(hits, v) : v \in PastTheEnd(o)} /\ taken' = Append(taken, -1) /\ UNCHANGED stage
  <2>1. PICK v \in PastTheEnd(o) : hits' = Append(hits, v)
    BY <1>5
  <2>. HIDE DEF o
  <2>2. v \in VerdictType
    BY PastTheEndIs
  <2>3. FirstPress(o) = L + 1 /\ \A s \in p..L : Skipped(s, o)
    <3>1. /\ FirstPress(o) \in p..L + 1
          /\ \A s \in p..FirstPress(o) - 1 : Skipped(s, o)
      BY <1>2, FirstPressIs
    <3>2. FirstPress(o) = L + 1
      BY <1>1, <1>3, <3>1
    <3>. QED
      BY <1>3, <3>1, <3>2
  <2>4. OneMore(o, v, -1, L + 1, L + 1)
    <3>1. /\ L + 1 \in p..L + 1 /\ L + 1 \in L + 1..L + 1 /\ -1 < L + 1 /\ (L + 1) - 1 = L
          /\ -1 \in Int /\ ~(-1 > 0) /\ -1 # 0 /\ \A s \in L + 1..L : FALSE
      BY <1>3
    <3>. HIDE DEF L
    <3>2. -1 # 0 /\ ~(-1 > 0)
      BY <3>1
    <3>. QED
      BY <2>2, <2>3, <3>1, <3>2 DEF OneMore, L
  <2>5. OneMore(Objects[Len(hits) + 1], v, -1, FirstPress(Objects[Len(hits) + 1]), p')
    BY <1>1, <2>3, <2>4 DEF o
  <2>. QED
    BY <1>1, <1>5, <2>1, <2>5, JudgedKeeps
<1>. QED
  BY <1>1, <1>4, <1>5

\* The steps before and after the judging.
LEMMA HitStepKeeps ==
  ASSUME HitInv, HitsStep \/ FreeHits
  PROVE  HitInv'
<1>1. HitTypes /\ Explained(hits, taken)
  BY DEF HitInv
<1>2. CASE ComputeData
  <2>1. /\ stage = "rows" /\ stage' \in {"crashed", "frames"}
        /\ UNCHANGED <<task, keypress, p, hits, taken>>
    BY <1>2 DEF ComputeData
  <2>2. stage' = "frames" => FramesOK(frames')
    <3>. SUFFICES ASSUME stage' = "frames"  PROVE FramesOK(frames')
      OBVIOUS
    <3>1. ~(Len(task.rows) < 3) /\ frames' \in Frames(task.rows)
      BY <1>2 DEF ComputeData
    <3>2. task.rows \in Seq(FrameType)
      BY <1>1 DEF HitTypes
    <3>3. Len(task.rows) >= 3
      BY <3>1, <3>2
    <3>. QED
      BY <3>1, <3>2, <3>3, FramesAreOK
  <2>3. HitTypes'
    <3>1. FramesOK(frames)' <=> FramesOK(frames')
      BY DEF FramesOK
    <3>. QED
      BY <1>1, <2>1, <2>2, <3>1, SameJudgement DEF HitTypes, InTime
  <2>. QED
    BY <1>1, <2>1, <2>3, SameJudgement DEF HitInv
<1>3. CASE ComputeKeypress
  <2>. DEFINE all == Keypresses(frames)
  <2>1. /\ stage = "frames" /\ stage' \in {"objects", "error"}
        /\ keypress' \in {WithoutDoubles(all), all}
        /\ UNCHANGED <<task, frames, p, hits, taken>>
    BY <1>3 DEF ComputeKeypress
  <2>2. InTime(all)
    BY <1>1, <2>1, KeypressesInTime DEF HitTypes
  <2>. HIDE DEF all
  <2>3. InTime(keypress')
    BY <2>1, <2>2, WithoutDoublesInTime
  <2>4. hits' = << >> /\ taken' = << >> /\ p' = 1 /\ Len(hits') = 0 /\ Len(taken') = 0
    BY <1>1, <2>1 DEF HitTypes
  <2>5. Len(keypress') \in Nat
    BY <2>3 DEF InTime
  <2>6. HitTypes'
    <3>1. /\ task'.map.od \in Int /\ Objects' \in Seq(ObjectType) /\ task'.rows \in Seq(FrameType)
          /\ Len(hits') <= Len(Objects')
      BY <1>1, <2>1 DEF HitTypes, Objects
    <3>2. InTime(keypress)'
      BY <2>3 DEF InTime
    <3>3. p' \in 1..Len(keypress') + 1 /\ hits' \in Seq(VerdictType) /\ taken' \in Seq(Int)
          /\ Len(taken') = Len(hits')
      BY <2>4, <2>5
    <3>. QED
      BY <2>1, <3>1, <3>2, <3>3 DEF HitTypes
  <2>7. \A i \in 1..0 : FALSE
    OBVIOUS
  <2>8. Pointed(hits, taken, p)' /\ Explained(hits, taken)'
    BY <2>4, <2>7 DEF Pointed, Explained
  <2>. QED
    BY <2>6, <2>8 DEF HitInv
<1>4. CASE Judge
  BY <1>4, JudgeKeeps
<1>5. CASE JudgePastEnd
  BY <1>5, JudgePastEndKeeps
<1>6. CASE EndHits \/ FreeHits
  <2>1. /\ stage' \notin {"idle", "rows", "frames", "objects"}
        /\ UNCHANGED <<task, frames, keypress, p, hits, taken>>
    BY <1>6 DEF EndHits, FreeHits
  <2>2. HitTypes'
    BY <1>1, <2>1, SameJudgement DEF HitTypes, InTime
  <2>. QED
    BY <1>1, <2>1, <2>2, SameJudgement DEF HitInv
<1>. QED
  BY <1>2, <1>3, <1>4, <1>5, <1>6 DEF HitsStep

\* The rows of the replay, from the file to the task.
RowsInv ==
  /\ file \in Files /\ chunk \in Nat
  /\ inflated \in Seq(RowsOfFile) /\ data \in Seq(FrameType)

LEMMA DecodedAre ==
  ASSUME RowsInv, NEW n \in Nat
  PROVE  \A rows \in DecodedOf(n) : rows \in Seq(RowsOfFile)
<1>. DEFINE L == Len(file.rows)
            m == IF n >= Chunks THEN L ELSE (L * n) \div (Chunks + 1)
<1>1. file.rows \in Seq(RowsOfFile) /\ L \in Nat
  BY FilesAssumption DEF RowsInv
<1>2. CutRow \in RowsOfFile
  BY DEF CutRow, RowsOfFile
<1>3. Decoded(n) \in Seq(RowsOfFile)
  <2>. DEFINE part == SubSeq(file.rows, 1, m)
  <2>1. m \in Int /\ m <= L
    <3>1. CASE n >= Chunks
      BY <1>1, <3>1
    <3>2. CASE ~(n >= Chunks)
      <4>1. Chunks \in Nat /\ n < Chunks
        BY <3>2, ChunksAssumption
      <4>2. L * n \in Nat /\ L * n <= L * (Chunks + 1)
        <5>. DEFINE e == (Chunks + 1) - n
        <5>1. e \in Nat /\ Chunks + 1 = n + e
          BY <4>1
        <5>. HIDE DEF e, L
        <5>2. L * (n + e) = L * n + L * e /\ L * n \in Nat /\ L * e \in Nat
          BY <1>1, <5>1
        <5>. QED
          BY <5>1, <5>2
      <4>3. (L * n) \div (Chunks + 1) \in Int /\ (L * n) \div (Chunks + 1) <= L
        <5>. DEFINE a == L * n
                    d == Chunks + 1
        <5>1. a \in Nat /\ d \in Nat \ {0} /\ a <= L * d
          <6>. HIDE DEF L
          <6>. QED
            BY <4>1, <4>2
        <5>. HIDE DEF a, d
        <5>2. a \div d \in Int /\ d * (a \div d) <= a
          BY <5>1
        <5>3. a \div d <= L
          <6>. SUFFICES ASSUME a \div d >= L + 1  PROVE FALSE
            BY <1>1, <5>2
          <6>1. d * (a \div d) >= d * (L + 1)
            BY <1>1, <5>1, <5>2
          <6>. QED
            BY <1>1, <5>1, <5>2, <6>1
        <5>. QED
          BY <5>2, <5>3 DEF a, d
      <4>. QED
        BY <3>2, <4>3
    <3>. QED
      BY <3>1, <3>2
  <2>2. part \in Seq(RowsOfFile)
    <3>. HIDE DEF m, L
    <3>1. \A i \in 1..m : file.rows[i] \in RowsOfFile
      BY <1>1, <2>1 DEF L
    <3>. QED
      BY <1>1, <2>1, <3>1, SubSeqProperties DEF L
  <2>3. Decoded(n) = part
    BY DEF Decoded
  <2>. QED
    BY <2>2, <2>3
<1>4. Append(Decoded(n), CutRow) \in Seq(RowsOfFile)
  BY <1>2, <1>3, AppendIs
<1>5. inflated \in Seq(RowsOfFile)
  BY DEF RowsInv
<1>. QED
  BY <1>3, <1>4, <1>5 DEF DecodedOf

LEMMA HitInvariant == ToolSpec => [](RowsInv /\ HitInv)
<1>1. ToolInit => RowsInv /\ HitInv
  <2>. SUFFICES ASSUME ToolInit  PROVE RowsInv /\ HitInv
    OBVIOUS
  <2>1. RowsInv
    BY DEF ToolInit, ReplayInit, RowsInv
  <2>2. /\ task = NoTask /\ frames = << >> /\ keypress = << >> /\ p = 1
        /\ hits = << >> /\ stage = "idle" /\ taken = << >>
    BY DEF ToolInit, HitsInit
  <2>3. Objects = << >> /\ task.map.od = 0 /\ task.rows = << >>
    BY <2>2 DEF Objects, NoTask
  <2>4. \A i \in 1..0 : FALSE
    OBVIOUS
  <2>5. Len(hits) = 0 /\ Len(keypress) = 0 /\ Len(taken) = 0 /\ Len(Objects) = 0
    BY <2>2, <2>3
  <2>6. InTime(keypress)
    BY <2>2, <2>4, <2>5 DEF InTime
  <2>7. HitTypes
    BY <2>2, <2>3, <2>5, <2>6 DEF HitTypes
  <2>8. Explained(hits, taken)
    BY <2>4, <2>5 DEF Explained
  <2>. QED
    BY <2>1, <2>2, <2>7, <2>8 DEF HitInv
<1>2. RowsInv /\ HitInv /\ [ToolNext]_toolVars => (RowsInv /\ HitInv)'
  <2>. SUFFICES ASSUME RowsInv, HitInv, [ToolNext]_toolVars  PROVE RowsInv' /\ HitInv'
    OBVIOUS
  <2>0. HitTypes /\ Explained(hits, taken)
    BY DEF HitInv
  <2>1. UNCHANGED hitsVars => HitInv'
    <3>. SUFFICES ASSUME UNCHANGED hitsVars  PROVE HitInv'
      OBVIOUS
    <3>1. UNCHANGED <<task, frames, keypress, p, hits, arrays, stage, taken>>
      BY DEF hitsVars
    <3>2. HitTypes'
      BY <2>0, <3>1, SameJudgement DEF HitTypes, InTime, FramesOK
    <3>. QED
      BY <2>0, <3>1, <3>2, SameJudgement DEF HitInv
  <2>2. UNCHANGED <<file, chunk, inflated, data>> => RowsInv'
    BY DEF RowsInv
  <2>3. CASE Load
    <3>1. UNCHANGED hitsVars
      BY <2>3 DEF Load
    <3>2. CASE ReadField \/ BeginInflate
      BY <2>1, <2>2, <3>1, <3>2 DEF ReadField, BeginInflate
    <3>3. CASE Inflate
      <4>1. file' = file /\ data' = data /\ chunk' = chunk + 1 /\ chunk' \in Nat
        BY <3>3 DEF Inflate, RowsInv
      <4>2. inflated' \in DecodedOf(chunk + 1) \cup {inflated}
        BY <3>3, <4>1 DEF Inflate
      <4>3. inflated' \in Seq(RowsOfFile)
        BY <4>1, <4>2, DecodedAre DEF RowsInv
      <4>. QED
        BY <2>1, <3>1, <4>1, <4>3 DEF RowsInv
    <3>4. CASE EndInflate
      <4>1. UNCHANGED <<file, chunk, inflated>> /\ data' \in {ParsedRows(inflated), << >>}
        BY <3>4 DEF EndInflate
      <4>2. data' \in Seq(FrameType)
        <5>1. inflated \in Seq(RowsOfFile)
          BY DEF RowsInv
        <5>2. ParsedRows(inflated) \in Seq(FrameType)
          BY <5>1, ParsedRowsAre
        <5>3. << >> \in Seq(FrameType)
          OBVIOUS
        <5>. QED
          BY <4>1, <5>2, <5>3
      <4>. QED
        BY <2>1, <3>1, <4>1, <4>2 DEF RowsInv
    <3>. QED
      BY <2>3, <3>2, <3>3, <3>4 DEF Load, ReplayNext
  <2>4. CASE LoadReturns
    BY <2>1, <2>2, <2>4 DEF LoadReturns, replayVars
  <2>5. CASE Lookup
    <3>1. UNCHANGED <<file, chunk, inflated, data>>
      BY <2>5 DEF Lookup, replayVars
    <3>2. CASE UNCHANGED hitsVars
      BY <2>1, <2>2, <3>1, <3>2
    <3>3. CASE \E mods \in ReplayMods : BeginHits(Given(mods))
      <4>1. PICK mods \in ReplayMods : BeginHits(Given(mods))
        BY <3>3
      <4>2. /\ stage = "idle" /\ stage' \in {"error", "rows"}
            /\ task' = [mode |-> ReplayMode, mods |-> mods, map |-> file.map, rows |-> data]
            /\ UNCHANGED <<frames, keypress, p, hits, taken>>
        BY <4>1 DEF BeginHits, Given
      <4>3. hits = << >> /\ taken = << >> /\ keypress = << >> /\ p = 1
        BY <2>0, <4>2 DEF HitTypes
      <4>4. /\ task'.map.od \in Int /\ task'.map.objects \in Seq(ObjectType)
            /\ task'.rows \in Seq(FrameType)
        BY <4>2, FilesAssumption DEF RowsInv, ObjectType
      <4>5. Len(hits') = 0 /\ Len(taken') = 0 /\ Len(task'.map.objects) \in Nat
        BY <4>2, <4>3, <4>4
      <4>6. HitTypes'
        BY <2>0, <4>2, <4>3, <4>4, <4>5 DEF HitTypes, Objects, InTime
      <4>7. \A i \in 1..0 : FALSE
        OBVIOUS
      <4>8. Explained(hits, taken)'
        BY <4>5, <4>7 DEF Explained
      <4>. QED
        BY <2>2, <3>1, <4>2, <4>6, <4>8 DEF HitInv
    <3>. QED
      BY <2>5, <3>2, <3>3 DEF Lookup
  <2>6. CASE ComputeHits \/ Free
    <3>1. HitsStep \/ FreeHits
      BY <2>6 DEF ComputeHits, Free
    <3>2. HitInv'
      BY <3>1, HitStepKeeps
    <3>. QED
      BY <2>2, <2>6, <3>2 DEF ComputeHits, Free, replayVars
  <2>7. CASE UNCHANGED toolVars
    BY <2>1, <2>2, <2>7 DEF toolVars, replayVars
  <2>. QED
    BY <2>3, <2>4, <2>5, <2>6, <2>7 DEF ToolNext
<1>. QED
  BY <1>1, <1>2, PTL DEF ToolSpec

\* An object is missed, while presses are left, only if every press in its
\* window had judged an object before it or was made during a spinner before it;
\* and no press judges two objects or out of turn: for every file, whatever its
\* rows, its mods and its beatmap, the ones with negative windows among them
\* (osux_hits_compute_hits_std_basic, osux_hits_compute_hits_taiko_basic).
THEOREM MissesAlwaysExplained == ToolSpec => []MissesExplained
<1>1. RowsInv /\ HitInv => MissesExplained
  BY DEF HitInv, Explained, MissesExplained
<1>. QED
  BY <1>1, HitInvariant, PTL
=============================================================================
