--------------------------- MODULE BeatmapProofs ---------------------------
(* Loading beatmaps, for every file: proofs about Beatmap.  See the README. *)
EXTENDS Beatmap, NatSets

-----------------------------------------------------------------------------
(***************************************************************************)
(* Types.                                                                  *)
(***************************************************************************)
Stages == {"idle", "parse", "again", "tree", "loaded", "fail", "crash", "abort"}
ColourPointers == [block : Nat, at : Nat]
EventPointers == [load : Nat, at : Nat]
Hos ==
  [type : {"circle", "spinner", "hold", "slider"}, nc : BOOLEAN, offset : Int, end : Int,
   len : Nat, repeat : Nat, tp : Nat, colour : ColourPointers, id : Nat, pos : Nat, res : Nat]
Tps == [offset : Int, inherited : BOOLEAN, v : Nat \ {0}, base : Nat]
Evs ==
  [type : {"object", "command", "loop", "trigger"}, level : Nat, easing : Nat, offset : Int,
   end : Int, parent : EventPointers, childs : Seq(EventPointers)]
Cols == [combo : BOOLEAN, id : Int]
Beatmaps ==
  [load : Nat, mode : {"std", "taiko", "catch", "mania"}, tick_rate : Nat \ {0},
   hos : Seq(Hos), tps : Seq(Tps), evs : Seq(Evs), cols : Seq(Cols), cap : Nat,
   block : Nat \ {0}, combo_colours : Seq(ColourPointers), owned : SUBSET Nat,
   orig : Seq(Hos), prepared : Nat]

BeatmapTypeOK ==
  /\ todo \in Seq(Files) /\ file \in Files /\ stage \in Stages /\ line \in Nat
  /\ section \in ObjectSections \cup {"other", NoSection}
  /\ bm \in Beatmaps
  /\ event_stack \in [0..MaxLevel - 1 -> EventPointers]
  /\ loads \in Nat

\* What is the same in b and c.
SameHead(b, c) ==
  /\ c.load = b.load /\ c.mode = b.mode /\ c.tick_rate = b.tick_rate
  /\ c.orig = b.orig /\ c.prepared = b.prepared
SameObjects(b, c) == c.hos = b.hos /\ c.tps = b.tps /\ c.evs = b.evs /\ c.owned = b.owned
SameColours(b, c) ==
  c.cols = b.cols /\ c.cap = b.cap /\ c.block = b.block /\ c.combo_colours = b.combo_colours

LEMMA ZeroIs == Zero \in Beatmaps
  BY BeatmapAssumption DEF Beatmaps, Zero

LEMMA SectionFacts ==
  /\ DOMAIN SectionOf = {"tp", "ho", "event", "colour"}
  /\ SectionOf["tp"] = "TimingPoints" /\ SectionOf["ho"] = "HitObjects"
  /\ SectionOf["event"] = "Events" /\ SectionOf["colour"] = "Colours"
  /\ ObjectSections = {"TimingPoints", "HitObjects", "Events", "Colours"}
<1>1. /\ DOMAIN SectionOf = {"tp", "ho", "event", "colour"}
      /\ SectionOf["tp"] = "TimingPoints" /\ SectionOf["ho"] = "HitObjects"
      /\ SectionOf["event"] = "Events" /\ SectionOf["colour"] = "Colours"
  BY DEF SectionOf
<1>. QED
  BY <1>1 DEF ObjectSections

\* What becomes of a line.
LEMMA LineIs ==
  ASSUME NEW l \in Lines
  PROVE  /\ l.k \in {"blank", "option", "broken", "unreadable", "section", "tp", "ho", "event", "colour"}
         /\ l.k = "section" => l.name \in ObjectSections \cup {"other"}
         /\ l.k = "ho" => /\ \A n \in Nat : NewHo(l, n) \in Hos
                          /\ l.type # "slider" => l.repeat = 0
                          /\ l.type = "slider" => l.repeat \in Nat \ {0}
         /\ l.k = "tp" => NewTp(l) \in Tps
         /\ l.k = "event" => NewEvent(l) \in Evs
         /\ l.k = "colour" => [combo |-> l.combo, id |-> l.id] \in Cols
<1>1. ASSUME NEW n \in Nat, l.k = "ho"  PROVE NewHo(l, n) \in Hos
  BY <1>1 DEF Lines, Hos, NewHo, NoColour, ColourPointers
<1>2. l.k = "tp" => NewTp(l) \in Tps
  BY DEF Lines, Tps, NewTp
<1>3. l.k = "event" => NewEvent(l) \in Evs
  BY DEF Lines, Evs, NewEvent, NoEvent, EventPointers
<1>4. l.k = "colour" => [combo |-> l.combo, id |-> l.id] \in Cols
  BY DEF Lines, Cols
<1>5. l.k = "ho" => /\ l.type # "slider" => l.repeat = 0
                    /\ l.type = "slider" => l.repeat \in Nat \ {0}
  BY DEF Lines
<1>6. /\ l.k \in {"blank", "option", "broken", "unreadable", "section", "tp", "ho", "event", "colour"}
      /\ l.k = "section" => l.name \in ObjectSections \cup {"other"}
  BY DEF Lines
<1>. QED
  BY <1>1, <1>2, <1>3, <1>4, <1>5, <1>6

\* A largest and a smallest number.
LEMMA MaxIs ==
  ASSUME NEW S \in SUBSET Int, S # {}, IsFiniteSet(S)
  PROVE  Max(S) \in S /\ \A x \in S : x <= Max(S)
<1>. DEFINE key == [x \in S |-> x]
<1>1. \A x \in S : key[x] \in Int /\ key[x] = x
  OBVIOUS
<1>. HIDE DEF key
<1>2. \E x \in S : \A y \in S : key[y] <= key[x]
  BY <1>1, LargestKey
<1>3. \E x \in S : \A y \in S : x >= y
  BY <1>1, <1>2
<1>. QED
  BY <1>3 DEF Max

LEMMA MinIs ==
  ASSUME NEW S \in SUBSET Int, S # {}, IsFiniteSet(S)
  PROVE  Min(S) \in S /\ \A x \in S : Min(S) <= x
<1>. DEFINE key == [x \in S |-> -x]
<1>1. \A x \in S : key[x] \in Int /\ key[x] = -x
  OBVIOUS
<1>. HIDE DEF key
<1>2. \E x \in S : \A y \in S : key[y] <= key[x]
  BY <1>1, LargestKey
<1>3. \E x \in S : \A y \in S : x =< y
  BY <1>1, <1>2
<1>. QED
  BY <1>3 DEF Min

LEMMA IntervalMax ==
  ASSUME NEW m \in Int, NEW n \in Int, NEW S \in SUBSET (m..n), S # {}
  PROVE  Max(S) \in S /\ Max(S) \in m..n /\ \A x \in S : x <= Max(S)
<1>1. IsFiniteSet(m..n)
  BY FS_Interval
<1>2. IsFiniteSet(S)
  BY <1>1, FS_Subset
<1>3. S \in SUBSET Int
  OBVIOUS
<1>4. Max(S) \in S /\ \A x \in S : x <= Max(S)
  BY <1>2, <1>3, MaxIs
<1>. QED
  BY <1>4

LEMMA InsertIs ==
  ASSUME NEW A, NEW s \in Seq(A), NEW k \in 1..Len(s) + 1, NEW e \in A,
         NEW w, w = InsertAt(s, k, e)
  PROVE  /\ w \in Seq(A) /\ Len(w) = Len(s) + 1
         /\ \A i \in 1..Len(s) + 1 :
              w[i] = IF i < k THEN s[i] ELSE IF i = k THEN e ELSE s[i - 1]
<1>. DEFINE a == SubSeq(s, 1, k - 1)
           b == SubSeq(s, k, Len(s))
           c == a \o <<e>>
           N == Len(s)
<1>0. N \in Nat
  OBVIOUS
<1>1. a \in Seq(A) /\ Len(a) = k - 1 /\ \A i \in 1..k - 1 : a[i] = s[i]
  <2>1. a \in Seq(A)
    BY <1>0, SubSeqProperties
  <2>2. Len(a) = k - 1
    BY <1>0, SubSeqProperties
  <2>3. ASSUME NEW i \in 1..k - 1  PROVE a[i] = s[i]
    BY <1>0
  <2>. QED
    BY <2>1, <2>2, <2>3
<1>2. b \in Seq(A) /\ Len(b) = N - k + 1 /\ \A i \in 1..N - k + 1 : b[i] = s[k + i - 1]
  <2>1. b \in Seq(A)
    BY <1>0, SubSeqProperties
  <2>2. Len(b) = N - k + 1
    BY <1>0, SubSeqProperties
  <2>3. ASSUME NEW i \in 1..N - k + 1  PROVE b[i] = s[k + i - 1]
    BY <1>0
  <2>. QED
    BY <2>1, <2>2, <2>3
<1>. HIDE DEF a, b, N
<1>3. <<e>> \in Seq(A) /\ Len(<<e>>) = 1 /\ <<e>>[1] = e
  OBVIOUS
<1>4. c \in Seq(A) /\ Len(c) = k /\ c[k] = e /\ \A i \in 1..k - 1 : c[i] = s[i]
  <2>1. c \in Seq(A) /\ Len(c) = Len(a) + 1
    BY <1>1, <1>3, ConcatProperties
  <2>2. \A i \in 1..Len(a) + 1 : c[i] = IF i <= Len(a) THEN a[i] ELSE <<e>>[i - Len(a)]
    BY <1>1, <1>3, ConcatProperties
  <2>. QED
    BY <1>0, <1>1, <1>3, <2>1, <2>2
<1>. HIDE DEF c
<1>5. /\ c \o b \in Seq(A) /\ Len(c \o b) = N + 1
      /\ \A i \in 1..N + 1 : (c \o b)[i] = IF i <= k THEN c[i] ELSE b[i - k]
  <2>0. c \o b \in Seq(A)
    BY <1>2, <1>4, ConcatProperties
  <2>1. Len(c \o b) = k + (N - k + 1)
    <3>1. Len(c \o b) = Len(c) + Len(b)
      BY <1>2, <1>4, ConcatProperties
    <3>. QED
      BY <3>1, <1>2, <1>4
  <2>2. \A i \in 1..k + (N - k + 1) : (c \o b)[i] = IF i <= k THEN c[i] ELSE b[i - k]
    BY <1>2, <1>4, ConcatProperties
  <2>. QED
    BY <1>0, <2>0, <2>1, <2>2
<1>6. w = c \o b
  BY DEF InsertAt, a, b, c
<1>7. ASSUME NEW i \in 1..N + 1
      PROVE  (c \o b)[i] = IF i < k THEN s[i] ELSE IF i = k THEN e ELSE s[i - 1]
  <2>1. i > k => i - k \in 1..N - k + 1 /\ k + (i - k) - 1 = i - 1
    BY <1>0
  <2>2. i < k => i \in 1..k - 1
    BY <1>0
  <2>. QED
    BY <1>0, <1>2, <1>4, <1>5, <2>1, <2>2
<1>. QED
  BY <1>5, <1>6, <1>7 DEF N

-----------------------------------------------------------------------------
(***************************************************************************)
(* Colours.                                                                *)
(***************************************************************************)
SomeCombo(b) == \E i \in DOMAIN b.cols : b.cols[i].combo
ComboListed(b) == SomeCombo(b) => b.combo_colours # <<>>

\* What a change of the colours leaves alone.
OnlyColours(b, c) == c \in Beatmaps /\ SameHead(b, c) /\ SameObjects(b, c) /\ c.block >= b.block

LEMMA OnlyColoursNone == ASSUME NEW b \in Beatmaps  PROVE OnlyColours(b, b)
  BY DEF OnlyColours, SameHead, SameObjects, Beatmaps

LEMMA OnlyColoursTwice ==
  ASSUME NEW b \in Beatmaps, NEW c, NEW d, OnlyColours(b, c), OnlyColours(c, d)
  PROVE  OnlyColours(b, d)
  BY DEF OnlyColours, SameHead, SameObjects, Beatmaps

LEMMA GrownIs ==
  ASSUME NEW b \in Beatmaps, NEW g \in Grown(b)
  PROVE  OnlyColours(b, g) /\ g.cols = b.cols /\ g.combo_colours = b.combo_colours
<1>1. CASE g = b
  BY <1>1, OnlyColoursNone
<1>2. ASSUME NEW moved \in {0, 1}, g = [b EXCEPT !.cap = 2 * @ + 1, !.block = @ + moved]
      PROVE  OnlyColours(b, g) /\ g.cols = b.cols /\ g.combo_colours = b.combo_colours
  <2>. DEFINE cap == 2 * b.cap + 1
             block == b.block + moved
  <2>1. cap \in Nat /\ block \in Nat \ {0} /\ block >= b.block
    BY DEF Beatmaps
  <2>2. g = [b EXCEPT !.cap = cap, !.block = block]
    BY <1>2
  <2>. HIDE DEF cap, block
  <2>3. g \in Beatmaps
    BY <2>1, <2>2 DEF Beatmaps
  <2>4. SameHead(b, g) /\ SameObjects(b, g) /\ g.block = block
    BY <2>2 DEF SameHead, SameObjects, Beatmaps
  <2>5. g.cols = b.cols /\ g.combo_colours = b.combo_colours
    BY <2>2 DEF Beatmaps
  <2>. QED
    BY <2>1, <2>3, <2>4, <2>5 DEF OnlyColours
<1>3. g = b \/ \E moved \in {0, 1} : g = [b EXCEPT !.cap = 2 * @ + 1, !.block = @ + moved]
  BY DEF Grown
<1>. QED
  BY <1>1, <1>2, <1>3

LEMMA PlacesAre ==
  ASSUME NEW b \in Beatmaps, NEW i, NEW k \in Places(b, i)
  PROVE  k \in 1..Len(b.combo_colours) + 1
<1>. DEFINE n == Len(b.combo_colours)
           free == {j \in 1..n + 1 : j = n + 1 \/ b.cols[b.combo_colours[j].at].id >= b.cols[i].id}
<1>1. n \in Nat
  BY DEF Beatmaps
<1>2. k \in 1..n + 1 \/ k = Min(free)
  BY DEF Places
<1>. HIDE DEF n
<1>3. free \in SUBSET Int /\ n + 1 \in free /\ free \subseteq 1..n + 1
  BY <1>1
<1>4. IsFiniteSet(free)
  <2>. HIDE DEF free
  <2>1. n + 1 \in Int /\ IsFiniteSet(1..n + 1)
    BY <1>1, FS_Interval
  <2>. QED
    BY <1>3, <2>1, FS_Subset
<1>. HIDE DEF free
<1>5. Min(free) \in free
  BY <1>3, <1>4, MinIs
<1>6. k \in 1..n + 1
  BY <1>2, <1>3, <1>5
<1>. QED
  BY <1>6 DEF n

LEMMA ListedIs ==
  ASSUME NEW b \in Beatmaps, NEW i \in DOMAIN b.cols, NEW c \in Listed(b, i)
  PROVE  /\ OnlyColours(b, c) /\ c.cols = b.cols /\ c.block = b.block
         /\ b.combo_colours # <<>> \/ b.cols[i].combo => c.combo_colours # <<>>
<1>1. CASE b.cols[i].combo
  <2>1. PICK k \in Places(b, i) :
          c = [b EXCEPT !.combo_colours = InsertAt(@, k, [block |-> b.block, at |-> i])]
    BY <1>1 DEF Listed
  <2>. DEFINE list == b.combo_colours
             p == [block |-> b.block, at |-> i]
             new == InsertAt(list, k, p)
  <2>2. list \in Seq(ColourPointers) /\ p \in ColourPointers
    BY DEF Beatmaps, ColourPointers
  <2>3. k \in 1..Len(list) + 1
    BY PlacesAre
  <2>4. c = [b EXCEPT !.combo_colours = new]
    BY <2>1
  <2>. HIDE DEF p
  <2>5. new \in Seq(ColourPointers) /\ Len(new) = Len(list) + 1
    BY <2>2, <2>3, InsertIs
  <2>6. Len(list) \in Nat
    BY <2>2
  <2>. HIDE DEF new, list
  <2>7. new # <<>>
    BY <2>5, <2>6
  <2>8. c.combo_colours = new /\ c.cols = b.cols /\ c.block = b.block
    BY <2>4 DEF Beatmaps
  <2>9. c \in Beatmaps
    BY <2>4, <2>5 DEF Beatmaps
  <2>10. SameHead(b, c) /\ SameObjects(b, c) /\ b.block >= b.block
    BY <2>4 DEF SameHead, SameObjects, Beatmaps
  <2>. QED
    BY <2>7, <2>8, <2>9, <2>10 DEF OnlyColours
<1>2. CASE ~b.cols[i].combo
  <2>1. c = b
    BY <1>2 DEF Listed
  <2>2. OnlyColours(b, c) /\ c.cols = b.cols /\ c.block = b.block
    BY <2>1, OnlyColoursNone
  <2>3. b.combo_colours # <<>> => c.combo_colours # <<>>
    BY <2>1
  <2>. QED
    BY <1>2, <2>2, <2>3
<1>. QED
  BY <1>1, <1>2, Zenon

LEMMA WithColourIs ==
  ASSUME NEW b \in Beatmaps, ComboListed(b), NEW e \in Cols, NEW d \in WithColour(b, e)
  PROVE  OnlyColours(b, d) /\ ComboListed(d) /\ (e.combo \/ SomeCombo(b) => SomeCombo(d))
<1>1. PICK g \in Grown(b) : d \in Listed([g EXCEPT !.cols = Append(@, e)], Len(b.cols) + 1)
  BY DEF WithColour
<1>2. OnlyColours(b, g) /\ g.cols = b.cols /\ g.combo_colours = b.combo_colours
  BY GrownIs
<1>. DEFINE h == [g EXCEPT !.cols = Append(@, e)]
           n == Len(b.cols)
<1>3. /\ OnlyColours(b, h) /\ h.combo_colours = b.combo_colours
      /\ h.cols = Append(b.cols, e)
  <2>. DEFINE a == Append(b.cols, e)
  <2>1. a \in Seq(Cols)
    BY DEF Beatmaps
  <2>2. h = [g EXCEPT !.cols = a]
    BY <1>2
  <2>. HIDE DEF a, h
  <2>3. OnlyColours(b, h)
    BY <1>2, <2>1, <2>2 DEF OnlyColours, SameHead, SameObjects, Beatmaps
  <2>4. h.cols = a /\ h.combo_colours = g.combo_colours
    BY <1>2, <2>2 DEF OnlyColours, Beatmaps
  <2>. QED
    BY <1>2, <2>3, <2>4 DEF a
<1>4. /\ n \in Nat /\ DOMAIN h.cols = 1..n + 1 /\ h.cols[n + 1] = e /\ DOMAIN b.cols = 1..n
      /\ \A i \in 1..n : h.cols[i] = b.cols[i]
  BY <1>3 DEF Beatmaps
<1>5. h \in Beatmaps /\ n + 1 \in DOMAIN h.cols /\ d \in Listed(h, n + 1)
  BY <1>1, <1>3, <1>4 DEF OnlyColours
<1>. HIDE DEF h, n
<1>6. /\ OnlyColours(h, d) /\ d.cols = h.cols
      /\ h.combo_colours # <<>> \/ h.cols[n + 1].combo => d.combo_colours # <<>>
  BY <1>5, ListedIs
<1>7. OnlyColours(b, d)
  BY <1>3, <1>6, OnlyColoursTwice
<1>8. e.combo \/ SomeCombo(b) => SomeCombo(d)
  BY <1>4, <1>5, <1>6 DEF SomeCombo
<1>9. ComboListed(d)
  <2>1. ASSUME NEW i \in DOMAIN d.cols, d.cols[i].combo  PROVE d.combo_colours # <<>>
    <3>1. CASE i = n + 1
      BY <1>6, <2>1, <3>1
    <3>2. CASE i \in 1..n
      <4>1. SomeCombo(b)
        BY <1>4, <1>6, <2>1, <3>2 DEF SomeCombo
      <4>. QED
        BY <1>3, <1>6, <4>1 DEF ComboListed
    <3>. QED
      BY <1>4, <1>6, <3>1, <3>2
  <2>. QED
    BY <2>1 DEF ComboListed, SomeCombo
<1>. QED
  BY <1>7, <1>8, <1>9

LEMMA WithComboIs ==
  ASSUME NEW b \in Beatmaps, NEW some, NEW id \in Int,
         \A c \in some : OnlyColours(b, c) /\ ComboListed(c)
  PROVE  \A d \in WithCombo(some, id) : OnlyColours(b, d) /\ ComboListed(d) /\ SomeCombo(d)
<1>. SUFFICES ASSUME NEW d \in WithCombo(some, id)
              PROVE  OnlyColours(b, d) /\ ComboListed(d) /\ SomeCombo(d)
  OBVIOUS
<1>. DEFINE e == [combo |-> TRUE, id |-> id]
<1>1. PICK c \in some : d \in WithColour(c, e)
  BY DEF WithCombo
<1>2. e \in Cols /\ e.combo
  BY DEF Cols
<1>. HIDE DEF e
<1>3. c \in Beatmaps /\ OnlyColours(b, c) /\ ComboListed(c)
  BY DEF OnlyColours
<1>4. OnlyColours(c, d) /\ ComboListed(d) /\ SomeCombo(d)
  BY <1>1, <1>2, <1>3, WithColourIs
<1>. QED
  BY <1>3, <1>4, OnlyColoursTwice

LEMMA PreparedColoursAre ==
  ASSUME NEW b \in Beatmaps, ComboListed(b), NEW d \in PreparedColours(b)
  PROVE  OnlyColours(b, d) /\ ComboListed(d) /\ d.combo_colours # <<>>
<1>0. OnlyColours(b, b)
  BY OnlyColoursNone
<1>1. CASE SomeCombo(b)
  <2>1. \E c \in ToSet(b.cols) : c.combo
    BY <1>1 DEF SomeCombo, ToSet
  <2>. QED
    BY <1>0, <1>1, <2>1 DEF PreparedColours, ComboListed
<1>2. CASE ~SomeCombo(b)
  <2>1. ~(\E c \in ToSet(b.cols) : c.combo)
    BY <1>2 DEF SomeCombo, ToSet
  <2>2. d \in WithCombo(WithCombo(WithCombo(WithCombo({b}, 1), 2), 3), 4)
    BY <2>1 DEF PreparedColours
  <2>. DEFINE p == WithCombo({b}, 1)
             q == WithCombo(p, 2)
             r == WithCombo(q, 3)
             s == WithCombo(r, 4)
  <2>3. \A c \in p : OnlyColours(b, c) /\ ComboListed(c) /\ SomeCombo(c)
    <3>1. \A c \in {b} : OnlyColours(b, c) /\ ComboListed(c)
      BY <1>0
    <3>. QED
      BY <3>1, WithComboIs
  <2>. HIDE DEF p
  <2>4. \A c \in q : OnlyColours(b, c) /\ ComboListed(c) /\ SomeCombo(c)
    BY <2>3, WithComboIs
  <2>. HIDE DEF q
  <2>5. \A c \in r : OnlyColours(b, c) /\ ComboListed(c) /\ SomeCombo(c)
    BY <2>4, WithComboIs
  <2>. HIDE DEF r
  <2>6. \A c \in s : OnlyColours(b, c) /\ ComboListed(c) /\ SomeCombo(c)
    BY <2>5, WithComboIs
  <2>7. d \in s
    BY <2>2 DEF p, q, r
  <2>. HIDE DEF s
  <2>. QED
    BY <2>6, <2>7 DEF ComboListed
<1>. QED
  BY <1>1, <1>2

-----------------------------------------------------------------------------
(***************************************************************************)
(* Timing points and hit objects.                                          *)
(***************************************************************************)
LEMMA ProductIs == ASSUME NEW a \in Nat, NEW b \in Nat  PROVE a * b \in Nat
  OBVIOUS

LEMMA QuotientIs == ASSUME NEW a \in Nat, NEW b \in Nat \ {0}  PROVE a \div b \in Nat
  OBVIOUS

\* The last point up to i that is not inherited.
LastPoint(tps, i) == Max({j \in 1..i : ~tps[j].inherited})

LEMMA PreparedTpsAre ==
  ASSUME NEW tps \in Seq(Tps)
  PROVE  LET new == PreparedTps(tps)
         IN  /\ new \in Seq(Tps) /\ Len(new) = Len(tps)
             /\ \A i \in 1..Len(tps) : /\ new[i].offset = tps[i].offset /\ new[i].v = tps[i].v
                                      /\ new[i].inherited = tps[i].inherited
             /\ ~(tps = <<>> \/ tps[1].inherited) =>
                  /\ \A i \in 1..Len(tps) : new[i].base \in 1..i
                  /\ \A i \in 1..Len(tps) : new[i] = [tps[i] EXCEPT !.base = LastPoint(tps, i)]
<1>. DEFINE new == PreparedTps(tps)
           N == Len(tps)
<1>0. N \in Nat /\ DOMAIN tps = 1..N /\ \A i \in 1..N : tps[i] \in Tps
  OBVIOUS
<1>1. CASE tps = <<>> \/ tps[1].inherited
  <2>1. new = tps
    BY <1>1 DEF PreparedTps
  <2>. QED
    BY <1>1, <2>1
<1>2. CASE ~(tps = <<>> \/ tps[1].inherited)
  <2>1. new = [i \in 1..N |-> [tps[i] EXCEPT !.base = LastPoint(tps, i)]]
    BY <1>0, <1>2 DEF PreparedTps, LastPoint
  <2>2. ASSUME NEW i \in 1..N  PROVE LastPoint(tps, i) \in 1..i
    <3>. DEFINE S == {j \in 1..i : ~tps[j].inherited}
    <3>1. 1 \in S /\ S \in SUBSET (1..i)
      BY <1>0, <1>2
    <3>. HIDE DEF S
    <3>1a. i \in Int /\ S # {}
      BY <1>0, <3>1
    <3>1b. \A m \in Int : S \in SUBSET (m..i) => Max(S) \in m..i
      BY <3>1a, IntervalMax
    <3>2. Max(S) \in 1..i
      BY <3>1, <3>1b
    <3>. QED
      BY <3>2 DEF LastPoint, S
  <2>3. ASSUME NEW i \in 1..N
        PROVE  /\ new[i] \in Tps /\ new[i].base \in 1..i
               /\ new[i].offset = tps[i].offset /\ new[i].v = tps[i].v
               /\ new[i].inherited = tps[i].inherited
               /\ new[i] = [tps[i] EXCEPT !.base = LastPoint(tps, i)]
    <3>. DEFINE m == LastPoint(tps, i)
               t == tps[i]
    <3>1. m \in 1..i /\ m \in Nat /\ t \in Tps
      BY <1>0, <2>2
    <3>2. new[i] = [t EXCEPT !.base = m]
      BY <2>1
    <3>. HIDE DEF m, t, new
    <3>3. new[i] \in Tps /\ new[i].base = m /\ new[i].offset = t.offset /\ new[i].v = t.v
          /\ new[i].inherited = t.inherited
      BY <3>1, <3>2 DEF Tps
    <3>. QED
      BY <3>1, <3>2, <3>3 DEF m, t
  <2>. HIDE DEF new
  <2>4. new \in Seq(Tps) /\ Len(new) = N
    <3>1. new \in [1..N -> Tps] 
      BY <2>1, <2>3
    <3>. QED
      BY <1>0, <3>1
  <2>. QED
    BY <1>2, <2>3, <2>4 DEF new
<1>. QED
  BY <1>1, <1>2, Zenon

\* The scan over the timing points, from one object to the next.
Applying(b, i, from) ==
  {j \in from..Len(b.tps) : \A k \in (from + 1)..j : AppliesTo(b.tps[k], b.hos[i])}

LEMMA TpOfIs ==
  ASSUME NEW b \in Beatmaps, b.tps # <<>>
  PROVE  /\ TpOf(b) \in [0..Len(b.hos) -> 1..Len(b.tps)]
         /\ TpOf(b)[0] = 1
         /\ \A i \in 1..Len(b.hos) : TpOf(b)[i] = Max(Applying(b, i, TpOf(b)[i - 1]))
<1>. DEFINE N == Len(b.hos)
           n == Len(b.tps)
           V == 1..n
           h == [x \in (1..N) \X V |-> Max(Applying(b, x[1], x[2]))]
           Good(g) == g = [i \in 0..N |-> IF i = 0 THEN 1 ELSE Max(Applying(b, i, g[i - 1]))]
           from == CHOOSE g : Good(g)
<1>1. N \in Nat /\ n \in Nat /\ 1 \in V
  BY DEF Beatmaps
<1>2. \A k \in 1..N : \A v \in V :
        h[<<k, v>>] = Max(Applying(b, k, v)) /\ h[<<k, v>>] \in V
  <2>. SUFFICES ASSUME NEW k \in 1..N, NEW v \in V
                PROVE  h[<<k, v>>] = Max(Applying(b, k, v)) /\ h[<<k, v>>] \in V
    OBVIOUS
  <2>1. h[<<k, v>>] = Max(Applying(b, k, v))
    OBVIOUS
  <2>. DEFINE S == Applying(b, k, v)
  <2>2. v \in S /\ S \in SUBSET (v..n)
    BY <1>1 DEF Applying
  <2>. HIDE DEF S, n, h
  <2>3. v \in Int /\ n \in Int /\ S # {}
    BY <1>1, <2>2
  <2>4. Max(S) \in v..n
    BY <2>2, <2>3, IntervalMax
  <2>5. Max(S) \in 1..n
    BY <1>1, <2>4
  <2>. QED
    BY <2>1, <2>5 DEF S
<1>. HIDE DEF h, N, V
<1>3. PICK g \in [0..N -> V] : g = [k \in 0..N |-> IF k = 0 THEN 1 ELSE h[<<k, g[k - 1]>>]]
  <2>1. Steps(N, V, 1, h)
    BY <1>1, <1>2 DEF Steps
  <2>. QED
    BY <2>1, StepFunction
<1>4. Good(g)
  <2>1. ASSUME NEW i \in 0..N
        PROVE  g[i] = IF i = 0 THEN 1 ELSE Max(Applying(b, i, g[i - 1]))
    <3>1. CASE i = 0
      BY <1>3, <3>1
    <3>2. CASE i # 0
      <4>1. i \in 1..N /\ i - 1 \in 0..N
        BY <1>1, <3>2
      <4>2. g[i] = h[<<i, g[i - 1]>>] /\ g[i - 1] \in V
        BY <1>3, <3>2, <4>1
      <4>. QED
        BY <1>2, <3>2, <4>1, <4>2
    <3>. QED
      BY <3>1, <3>2
  <2>2. g = [i \in 0..N |-> g[i]]
    BY <1>3
  <2>. QED
    BY <2>1, <2>2
<1>5. Good(from)
  <2>. HIDE DEF Good
  <2>. QED
    BY <1>4
<1>6. TpOf(b) = from
  BY DEF TpOf, Applying, N, n
<1>. HIDE DEF from
<1>7. from[0] = 1
  BY <1>1, <1>5
<1>8. \A i \in 1..N : from[i] = Max(Applying(b, i, from[i - 1]))
  <2>. SUFFICES ASSUME NEW i \in 1..N  PROVE from[i] = Max(Applying(b, i, from[i - 1]))
    OBVIOUS
  <2>1. i \in 0..N /\ i # 0
    BY <1>1
  <2>. QED
    BY <1>5, <2>1
<1>. DEFINE S == {i \in Nat : i <= N => from[i] \in V}
<1>9. 0 \in S
  BY <1>1, <1>7
<1>10. ASSUME NEW i \in Nat, i \in S  PROVE i + 1 \in S
  <2>. SUFFICES ASSUME i + 1 <= N  PROVE from[i + 1] \in V
    OBVIOUS
  <2>1. i + 1 \in 1..N /\ from[i] \in V /\ (i + 1) - 1 = i
    BY <1>1, <1>10
  <2>2. from[i + 1] = Max(Applying(b, i + 1, from[i]))
    BY <1>8, <2>1
  <2>. QED
    BY <1>2, <2>1, <2>2
<1>11. \A i \in Nat : i \in S
  <2>. HIDE DEF S
  <2>. QED
    BY <1>9, <1>10, NatSetInduction
<1>12. from \in [0..N -> V]
  <2>1. \A i \in 0..N : from[i] \in V
    BY <1>1, <1>11
  <2>. QED
    BY <1>5, <2>1
<1>. QED
  BY <1>6, <1>7, <1>8, <1>12 DEF N, V

Combos(n) == [id : Nat, pos : Nat, current : 1..n]

LEMMA ComboOfIs ==
  ASSUME NEW b \in Beatmaps, b.combo_colours # <<>>
  PROVE  LET n == Len(b.combo_colours)
             combo == ComboOf(b)
         IN  /\ n \in Nat \ {0}
             /\ \A i \in 0..Len(b.hos) : combo[i] \in Combos(n)
             /\ combo[0] = [id |-> 0, pos |-> 0, current |-> n]
             /\ \A i \in 1..Len(b.hos) :
                  combo[i] = IF b.hos[i].nc
                             THEN [id |-> combo[i - 1].id + 1, pos |-> 1,
                                   current |-> (combo[i - 1].current % n) + 1]
                             ELSE [combo[i - 1] EXCEPT !.pos = @ + 1]
<1>. DEFINE N == Len(b.hos)
           n == Len(b.combo_colours)
           V == Combos(n)
           After(i, last) == IF b.hos[i].nc
                             THEN [id |-> last.id + 1, pos |-> 1, current |-> (last.current % n) + 1]
                             ELSE [last EXCEPT !.pos = @ + 1]
           first == [id |-> 0, pos |-> 0, current |-> n]
           h == [x \in (1..N) \X V |-> After(x[1], x[2])]
           Good(g) == g = [i \in 0..N |-> IF i = 0 THEN first ELSE After(i, g[i - 1])]
           from == CHOOSE g : Good(g)
<1>1. N \in Nat /\ n \in Nat \ {0} /\ first \in V
  BY DEF Beatmaps, Combos
<1>1a. \A m \in Nat \ {0} : \A c \in 1..m : (c % m) + 1 \in 1..m
  OBVIOUS
<1>2. \A k \in 1..N : \A v \in V : h[<<k, v>>] = After(k, v) /\ After(k, v) \in V
  <2>. SUFFICES ASSUME NEW k \in 1..N, NEW v \in V
                PROVE  h[<<k, v>>] = After(k, v) /\ After(k, v) \in V
    OBVIOUS
  <2>. HIDE DEF n
  <2>1. (v.current % n) + 1 \in 1..n
    BY <1>1, <1>1a DEF Combos
  <2>2. After(k, v) \in V
    BY <2>1 DEF Combos
  <2>. QED
    BY <2>2
<1>. HIDE DEF h, N, n, V, After, first
<1>3. PICK g \in [0..N -> V] : g = [k \in 0..N |-> IF k = 0 THEN first ELSE h[<<k, g[k - 1]>>]]
  <2>1. Steps(N, V, first, h)
    BY <1>1, <1>2 DEF Steps
  <2>. QED
    BY <2>1, StepFunction
<1>4. Good(g)
  <2>1. ASSUME NEW i \in 0..N
        PROVE  g[i] = IF i = 0 THEN first ELSE After(i, g[i - 1])
    <3>1. CASE i = 0
      BY <1>3, <3>1
    <3>2. CASE i # 0
      <4>1. i \in 1..N /\ i - 1 \in 0..N
        BY <1>1, <3>2
      <4>2. g[i] = h[<<i, g[i - 1]>>] /\ g[i - 1] \in V
        BY <1>3, <3>2, <4>1
      <4>. QED
        BY <1>2, <3>2, <4>1, <4>2
    <3>. QED
      BY <3>1, <3>2
  <2>2. g = [i \in 0..N |-> g[i]]
    BY <1>3
  <2>. QED
    BY <2>1, <2>2
<1>5. Good(from)
  <2>. HIDE DEF Good
  <2>. QED
    BY <1>4
<1>6. ComboOf(b) = from
  BY DEF ComboOf, After, N, n, first
<1>. HIDE DEF from
<1>7. from[0] = first
  BY <1>1, <1>5
<1>8. \A i \in 1..N : from[i] = After(i, from[i - 1])
  <2>. SUFFICES ASSUME NEW i \in 1..N  PROVE from[i] = After(i, from[i - 1])
    OBVIOUS
  <2>1. i \in 0..N /\ i # 0
    BY <1>1
  <2>. QED
    BY <1>5, <2>1
<1>. DEFINE S == {i \in Nat : i <= N => from[i] \in V}
<1>9. 0 \in S
  BY <1>1, <1>7
<1>10. ASSUME NEW i \in Nat, i \in S  PROVE i + 1 \in S
  <2>. SUFFICES ASSUME i + 1 <= N  PROVE from[i + 1] \in V
    OBVIOUS
  <2>1. i + 1 \in 1..N /\ from[i] \in V /\ (i + 1) - 1 = i
    BY <1>1, <1>10
  <2>2. from[i + 1] = After(i + 1, from[i])
    BY <1>8, <2>1
  <2>. QED
    BY <1>2, <2>1, <2>2
<1>11. \A i \in Nat : i \in S
  <2>. HIDE DEF S
  <2>. QED
    BY <1>9, <1>10, NatSetInduction
<1>12. \A i \in 0..N : from[i] \in V
  BY <1>1, <1>11
<1>. QED
  BY <1>1, <1>6, <1>7, <1>8, <1>12 DEF N, n, V, After, first

\* The base of a point is another one of the same beatmap.
Based(tps) == \A i \in 1..Len(tps) : tps[i].base \in 0..Len(tps)

LEMMA MpbIs ==
  ASSUME NEW b \in Beatmaps, Based(b.tps), NEW i \in 1..Len(b.tps)
  PROVE  Mpb(b, b.tps[i]) \in Nat
<1>1. b.tps[i] \in Tps /\ b.tps[i].base \in 0..Len(b.tps) /\ Len(b.tps) \in Nat
  BY DEF Beatmaps, Based
<1>2. b.tps[i].base = 0 \/ b.tps[b.tps[i].base] \in Tps
  BY <1>1 DEF Beatmaps
<1>. QED
  BY <1>1, <1>2 DEF Mpb, Tps

LEMMA DurationIs ==
  ASSUME NEW b, NEW ho \in Hos, NEW tp \in Tps, Mpb(b, tp) \in Nat
  PROVE  Duration(b, ho, tp) \in Nat
<1>. DEFINE m == Mpb(b, tp)
           p == ho.len * ho.repeat
           q == p * m
           f == Factor(tp)
           d == Unit * f
<1>1. ho.len \in Nat /\ ho.repeat \in Nat
  BY DEF Hos
<1>2. p \in Nat
  BY <1>1, ProductIs
<1>. HIDE DEF p
<1>3. q \in Nat
  BY <1>2, ProductIs
<1>4. f \in Nat \ {0}
  BY DEF Factor, Tps
<1>. HIDE DEF f, q
<1>5. d \in Nat \ {0}
  BY <1>4 DEF Unit
<1>6. Duration(b, ho, tp) = q \div d
  BY DEF Duration, q, p, f
<1>. HIDE DEF d
<1>. QED
  BY <1>3, <1>5, <1>6, QuotientIs

\* Only the objects change, and what of them the preparation sets.
SameObject(o, p) ==
  /\ p.type = o.type /\ p.nc = o.nc /\ p.offset = o.offset /\ p.len = o.len
  /\ p.repeat = o.repeat /\ p.res = o.res

Ready(b) ==
  /\ Based(b.tps) /\ b.combo_colours # <<>>
  /\ b.hos # <<>> => b.tps # <<>>

LEMMA PreparedHosAre ==
  ASSUME NEW b \in Beatmaps, Ready(b)
  PROVE  LET c == PreparedHos(b)
         IN  /\ c \in Beatmaps /\ c = [b EXCEPT !.hos = c.hos] /\ Len(c.hos) = Len(b.hos)
             /\ \A i \in 1..Len(b.hos) :
                  /\ SameObject(b.hos[i], c.hos[i])
                  /\ c.hos[i].tp = TpOf(b)[i] /\ TpOf(b)[i] \in 1..Len(b.tps)
                  /\ b.hos[i].type # "slider" => c.hos[i].end = b.hos[i].end
                  /\ b.hos[i].type = "slider" =>
                       c.hos[i].end = SliderEnd(b, b.hos[i], b.tps[TpOf(b)[i]])
                  /\ c.hos[i].colour = b.combo_colours[ComboOf(b)[i].current]
                  /\ c.hos[i].id = ComboOf(b)[i].id
<1>. DEFINE N == Len(b.hos)
           tp == TpOf(b)
           combo == ComboOf(b)
           end(i) == IF b.hos[i].type = "slider"
                     THEN SliderEnd(b, b.hos[i], b.tps[tp[i]]) ELSE b.hos[i].end
           new == [i \in 1..N |->
                    [b.hos[i] EXCEPT !.tp = tp[i], !.end = end(i),
                       !.colour = b.combo_colours[combo[i].current],
                       !.id = combo[i].id, !.pos = combo[i].pos]]
           c == PreparedHos(b)
<1>0. N \in Nat /\ DOMAIN b.hos = 1..N
  BY DEF Beatmaps
<1>1. c = [b EXCEPT !.hos = new]
  BY <1>0 DEF PreparedHos
<1>2. ASSUME NEW i \in 1..N
      PROVE  /\ new[i] \in Hos /\ SameObject(b.hos[i], new[i]) /\ new[i].tp = tp[i]
             /\ tp[i] \in 1..Len(b.tps) /\ new[i].end = end(i)
             /\ new[i].colour = b.combo_colours[combo[i].current] /\ new[i].id = combo[i].id
  <2>1. b.tps # <<>>
    <3>1. b.hos # <<>>
      BY <1>0
    <3>. QED
      BY <3>1 DEF Ready
  <2>2. tp[i] \in 1..Len(b.tps)
    <3>1. i \in 0..N
      BY <1>0
    <3>. QED
      BY <2>1, <3>1, TpOfIs
  <2>3. combo[i] \in Combos(Len(b.combo_colours))
    <3>1. i \in 0..N
      BY <1>0
    <3>. HIDE DEF combo
    <3>. QED
      BY <3>1, ComboOfIs DEF Ready, combo
  <2>. DEFINE p == b.combo_colours[combo[i].current]
             e == end(i)
             m == combo[i].id
             q == combo[i].pos
             t == tp[i]
             o == b.hos[i]
  <2>4. p \in ColourPointers /\ m \in Nat /\ q \in Nat
    BY <2>3 DEF Combos, Beatmaps
  <2>5. o \in Hos /\ b.tps[t] \in Tps
    BY <1>0, <2>2 DEF Beatmaps
  <2>. HIDE DEF tp
  <2>6. e \in Int
    <3>1. Mpb(b, b.tps[t]) \in Nat
      BY <2>2, MpbIs DEF Ready
    <3>2. Duration(b, o, b.tps[t]) \in Nat
      BY <2>5, <3>1, DurationIs
    <3>3. o.offset \in Int /\ o.end \in Int
      BY <2>5 DEF Hos
    <3>. HIDE DEF t, o
    <3>. QED
      BY <3>2, <3>3 DEF SliderEnd, Indefinite, t, o
  <2>7. t \in Nat
    BY <2>2
  <2>8. new[i] = [o EXCEPT !.tp = t, !.end = e, !.colour = p, !.id = m, !.pos = q]
    OBVIOUS
  <2>. HIDE DEF new, p, e, m, q, t, o
  <2>9. /\ new[i] \in Hos /\ SameObject(o, new[i]) /\ new[i].tp = t /\ new[i].end = e
        /\ new[i].colour = p /\ new[i].id = m
    BY <2>4, <2>5, <2>6, <2>7, <2>8 DEF Hos, SameObject
  <2>. QED
    BY <2>2, <2>9 DEF p, e, m, t, o, tp
<1>. HIDE DEF tp, combo
<1>3. new \in Seq(Hos) /\ Len(new) = N
  <2>1. new \in [1..N -> Hos]
    BY <1>2
  <2>. HIDE DEF new
  <2>. QED
    BY <1>0, <2>1
<1>4. \A i \in 1..N : /\ b.hos[i].type # "slider" => end(i) = b.hos[i].end
                      /\ b.hos[i].type = "slider" => end(i) = SliderEnd(b, b.hos[i], b.tps[tp[i]])
  OBVIOUS
<1>. HIDE DEF new, end
<1>5. c.hos = new /\ c \in Beatmaps
  BY <1>1, <1>3 DEF Beatmaps
<1>. HIDE DEF c
<1>. QED
  BY <1>1, <1>2, <1>3, <1>4, <1>5 DEF c, tp, combo, N

-----------------------------------------------------------------------------
(***************************************************************************)
(* Events.                                                                 *)
(***************************************************************************)
\* What neither the tree nor the preparation changes.
SameEvent(e, f) == f.type = e.type /\ f.level = e.level /\ f.easing = e.easing

\* The events that last as long as the j-th.
Commands(b, j) ==
  {k \in 1..Len(b.evs) : b.evs[k].level = 1 /\ b.evs[k].parent = [load |-> b.load, at |-> j]}

\* Times of some of the events.
LEMMA TimesAre ==
  ASSUME NEW b \in Beatmaps, NEW K \in SUBSET (1..Len(b.evs))
  PROVE  /\ {b.evs[k].offset : k \in K} \in SUBSET Int /\ IsFiniteSet({b.evs[k].offset : k \in K})
         /\ {b.evs[k].end : k \in K} \in SUBSET Int /\ IsFiniteSet({b.evs[k].end : k \in K})
<1>1. Len(b.evs) \in Nat /\ \A k \in K : b.evs[k] \in Evs
  BY DEF Beatmaps
<1>2. IsFiniteSet(K)
  <2>1. IsFiniteSet(1..Len(b.evs))
    BY <1>1, FS_Interval
  <2>. QED
    BY <2>1, FS_Subset
<1>. DEFINE g == [k \in K |-> b.evs[k].offset]
           h == [k \in K |-> b.evs[k].end]
<1>3. IsFiniteSet({g[i] : i \in DOMAIN g}) /\ IsFiniteSet({h[i] : i \in DOMAIN h})
  <2>1. IsFiniteSet(DOMAIN g) /\ IsFiniteSet(DOMAIN h)
    BY <1>2
  <2>. HIDE DEF g, h
  <2>. QED
    BY <2>1, FiniteRange
<1>4. /\ {g[i] : i \in DOMAIN g} = {b.evs[k].offset : k \in K}
      /\ {h[i] : i \in DOMAIN h} = {b.evs[k].end : k \in K}
  OBVIOUS
<1>5. \A k \in K : b.evs[k].offset \in Int /\ b.evs[k].end \in Int
  BY <1>1 DEF Evs
<1>. QED
  BY <1>3, <1>4, <1>5

LEMMA PreparedEventsAre ==
  ASSUME NEW b \in Beatmaps
  PROVE  LET new == PreparedEvents(b)
         IN  /\ new \in Seq(Evs) /\ Len(new) = Len(b.evs)
             /\ \A j \in 1..Len(b.evs) :
                  /\ SameEvent(b.evs[j], new[j])
                  /\ new[j].parent = b.evs[j].parent /\ new[j].childs = b.evs[j].childs
                  /\ b.evs[j].level > 0 => new[j] = b.evs[j]
                  /\ b.evs[j].level = 0 =>
                       LET C == Commands(b, j)
                           K == {k \in C : EndKnown(b.evs[k])}
                       IN  /\ new[j].offset = Min({b.evs[j].offset} \cup {b.evs[k].offset : k \in C})
                           /\ new[j].end = Max({b.evs[j].end} \cup {b.evs[k].end : k \in K})
<1>. DEFINE N == Len(b.evs)
           of(j) == {e \in ToSet(b.evs) : e.level = 1 /\ e.parent = [load |-> b.load, at |-> j]}
           C(j) == Commands(b, j)
           K(j) == {k \in C(j) : EndKnown(b.evs[k])}
           first(j) == Min({b.evs[j].offset} \cup {b.evs[k].offset : k \in C(j)})
           last(j) == Max({b.evs[j].end} \cup {b.evs[k].end : k \in K(j)})
           new == PreparedEvents(b)
<1>0. N \in Nat /\ DOMAIN b.evs = 1..N /\ \A j \in 1..N : b.evs[j] \in Evs
  BY DEF Beatmaps
<1>1. \A j : /\ {e.offset : e \in of(j)} = {b.evs[k].offset : k \in C(j)}
             /\ {e.end : e \in {e \in of(j) : EndKnown(e)}} = {b.evs[k].end : k \in K(j)}
  BY <1>0 DEF Commands, ToSet
<1>2. new = [j \in 1..N |-> IF b.evs[j].level > 0 THEN b.evs[j]
                            ELSE [b.evs[j] EXCEPT !.offset = first(j), !.end = last(j)]]
  BY <1>0, <1>1 DEF PreparedEvents
<1>3. ASSUME NEW j \in 1..N  PROVE first(j) \in Int /\ last(j) \in Int
  <2>. DEFINE A == {b.evs[k].offset : k \in C(j)}
             B == {b.evs[k].end : k \in K(j)}
             x == b.evs[j].offset
             y == b.evs[j].end
  <2>1. C(j) \in SUBSET (1..Len(b.evs)) /\ K(j) \in SUBSET (1..Len(b.evs))
    BY DEF Commands
  <2>2. A \in SUBSET Int /\ IsFiniteSet(A) /\ B \in SUBSET Int /\ IsFiniteSet(B)
    BY <2>1, TimesAre
  <2>3. x \in Int /\ y \in Int
    BY <1>0 DEF Evs
  <2>4. first(j) = Min({x} \cup A) /\ last(j) = Max({y} \cup B)
    OBVIOUS
  <2>. HIDE DEF A, B, x, y, first, last
  <2>5. IsFiniteSet({x} \cup A) /\ IsFiniteSet({y} \cup B)
    <3>1. IsFiniteSet(A \cup {x}) /\ IsFiniteSet(B \cup {y})
      BY <2>2, FS_AddElement
    <3>2. A \cup {x} = {x} \cup A /\ B \cup {y} = {y} \cup B
      OBVIOUS
    <3>. QED
      BY <3>1, <3>2
  <2>6. Min({x} \cup A) \in {x} \cup A
    BY <2>2, <2>3, <2>5, MinIs
  <2>7. Max({y} \cup B) \in {y} \cup B
    BY <2>2, <2>3, <2>5, MaxIs
  <2>. QED
    BY <2>2, <2>3, <2>4, <2>6, <2>7
<1>. HIDE DEF first, last, new
<1>4. ASSUME NEW j \in 1..N
      PROVE  /\ new[j] \in Evs /\ SameEvent(b.evs[j], new[j])
             /\ new[j].parent = b.evs[j].parent /\ new[j].childs = b.evs[j].childs
             /\ b.evs[j].level > 0 => new[j] = b.evs[j]
             /\ b.evs[j].level = 0 => new[j].offset = first(j) /\ new[j].end = last(j)
  <2>. DEFINE e == b.evs[j]
  <2>1. e \in Evs /\ first(j) \in Int /\ last(j) \in Int /\ e.level \in Nat
    BY <1>0, <1>3 DEF Evs
  <2>2. new[j] = IF e.level > 0 THEN e ELSE [e EXCEPT !.offset = first(j), !.end = last(j)]
    BY <1>2
  <2>. HIDE DEF e
  <2>3. CASE e.level > 0
    BY <2>1, <2>2, <2>3 DEF SameEvent, e
  <2>4. CASE e.level = 0
    <3>1. new[j] = [e EXCEPT !.offset = first(j), !.end = last(j)]
      BY <2>2, <2>4
    <3>2. new[j] \in Evs
      BY <2>1, <3>1 DEF Evs
    <3>3. SameEvent(e, new[j]) /\ new[j].parent = e.parent /\ new[j].childs = e.childs
          /\ new[j].offset = first(j) /\ new[j].end = last(j)
      BY <2>1, <3>1 DEF Evs, SameEvent
    <3>. QED
      BY <2>4, <3>2, <3>3 DEF e
  <2>. QED
    BY <2>1, <2>3, <2>4
<1>5. new \in Seq(Evs) /\ Len(new) = N
  <2>1. new \in [1..N -> Evs]
    BY <1>2, <1>4
  <2>. QED
    BY <1>0, <2>1
<1>. QED
  BY <1>4, <1>5 DEF first, last, new

-----------------------------------------------------------------------------
(***************************************************************************)
(* The conversion.                                                         *)
(***************************************************************************)
LEMMA FlattenIs ==
  ASSUME NEW A, NEW ss \in Seq(Seq(A))
  PROVE  /\ FlattenSeq(ss) \in Seq(A)
         /\ \E at, of : Gathered(at, of, FlattenSeq(ss), ss, Len(ss))
<1>1. CASE Len(ss) = 0
  <2>1. FlattenSeq(ss) = << >> /\ << >> \in Seq(A)
    BY <1>1, EmptySeq, LenProperties DEF FlattenSeq
  <2>2. Gathered(<< >>, << >>, << >>, ss, 0)
    BY GatherNone
  <2>. QED
    BY <1>1, <2>1, <2>2
<1>2. CASE Len(ss) # 0
  <2>1. FlattenSeq(ss) = Joined(ss)
    BY <1>2 DEF FlattenSeq, Joined
  <2>. QED
    BY <1>2, <2>1, JoinedIs
<1>. QED
  BY <1>1, <1>2

LEMMA ProductGrows ==
  ASSUME NEW a \in Nat, NEW b \in Nat, NEW c \in Nat, a <= b
  PROVE  a * c <= b * c
  OBVIOUS

LEMMA QuotientGrows ==
  ASSUME NEW a \in Nat, NEW b \in Nat, NEW c \in Nat \ {0}, a <= b
  PROVE  a \div c <= b \div c
  OBVIOUS

LEMMA QuotientExact ==
  ASSUME NEW a \in Nat, NEW c \in Nat \ {0}
  PROVE  (c * a) \div c = a /\ 0 \div c = 0
  OBVIOUS

LEMMA TicksAre ==
  ASSUME NEW length \in Nat, NEW mpt \in Nat
  PROVE  LET t == Ticks(length, mpt)
         IN  /\ t \in Seq(Nat) /\ Len(t) >= 1 /\ t[1] = 0
             /\ \A k \in 1..Len(t) : OffsetLe(t[k], length)
             /\ \A j, k \in 1..Len(t) : j < k => t[j] <= t[k]
<1>. DEFINE K == {k \in 0..(2 * length) : OffsetLe(k * mpt, length)}
           m == Max(K)
           t == Ticks(length, mpt)
<1>1. m \in K
  <2>1. K \in SUBSET (0..(2 * length))
    OBVIOUS
  <2>2. 0 \in K
    BY DEF OffsetLe
  <2>. HIDE DEF K
  <2>3. K # {} /\ 0 \in Int /\ 2 * length \in Int
    BY <2>2
  <2>4. \A a \in Int : K \in SUBSET (a..(2 * length)) => Max(K) \in K
    BY <2>3, IntervalMax
  <2>. QED
    BY <2>1, <2>3, <2>4
<1>2. t = [i \in 1..(m + 1) |-> (i - 1) * mpt]
  BY DEF Ticks
<1>3. m \in Nat /\ m <= 2 * length /\ OffsetLe(m * mpt, length)
  BY <1>1
<1>. HIDE DEF m, t
<1>4. ASSUME NEW i \in 1..m + 1
      PROVE  t[i] = (i - 1) * mpt /\ t[i] \in Nat /\ OffsetLe(t[i], length)
  <2>1. i - 1 \in Nat /\ i - 1 <= m
    BY <1>3
  <2>2. t[i] = (i - 1) * mpt
    BY <1>2
  <2>. DEFINE x == (i - 1) * mpt
             y == m * mpt
  <2>3. x \in Nat /\ y \in Nat /\ x <= y
    BY <1>3, <2>1, ProductIs, ProductGrows
  <2>4. OffsetLe(y, length)
    BY <1>3
  <2>5. t[i] = x
    BY <2>2
  <2>. HIDE DEF x, y
  <2>6. OffsetLe(x, length)
    BY <2>3, <2>4 DEF OffsetLe, Margin
  <2>. QED
    BY <2>2, <2>3, <2>5, <2>6
<1>5. t \in Seq(Nat) /\ Len(t) = m + 1
  <2>1. t \in [1..m + 1 -> Nat]
    BY <1>2, <1>4
  <2>. QED
    BY <1>3, <2>1
<1>6. t[1] = 0
  <2>1. 1 \in 1..m + 1
    BY <1>3
  <2>2. t[1] = (1 - 1) * mpt
    BY <1>2, <2>1
  <2>. QED
    BY <2>2
<1>7. ASSUME NEW j \in 1..m + 1, NEW k \in 1..m + 1, j < k  PROVE t[j] <= t[k]
  <2>1. j - 1 \in Nat /\ k - 1 \in Nat /\ j - 1 <= k - 1
    BY <1>3, <1>7
  <2>2. (j - 1) * mpt <= (k - 1) * mpt
    BY <2>1, ProductGrows
  <2>. QED
    BY <1>4, <2>2
<1>. QED
  BY <1>3, <1>4, <1>5, <1>6, <1>7 DEF t

LEMMA CircleTimesAre ==
  ASSUME NEW ho \in Hos, ho.repeat # 0, NEW length \in Nat, NEW mpt \in Nat
  PROVE  LET t == CircleTimes(ho, length, mpt)
         IN  /\ t \in Seq(Nat) /\ Len(t) >= 1 /\ t[1] = 0
             /\ \A k \in 1..Len(t) : OffsetLe(t[k], length)
             /\ \A j, k \in 1..Len(t) : j < k => t[j] <= t[k]
             /\ ho.repeat > 1 => \E k \in 1..Len(t) : t[k] = length
<1>. DEFINE t == CircleTimes(ho, length, mpt)
           r == ho.repeat
<1>0. r \in Nat \ {0}
  BY DEF Hos
<1>1. CASE r = 1
  <2>1. CASE length <= mpt
    <3>1. t = <<0, length>>
      BY <1>1, <2>1 DEF CircleTimes
    <3>2. t \in Seq(Nat) /\ Len(t) = 2 /\ t[1] = 0 /\ t[2] = length
      BY <3>1
    <3>. HIDE DEF t
    <3>3. \A k \in 1..2 : OffsetLe(t[k], length)
      BY <3>2 DEF OffsetLe
    <3>4. \A j, k \in 1..2 : j < k => t[j] <= t[k]
      BY <3>2
    <3>. QED
      BY <1>1, <3>2, <3>3, <3>4 DEF t
  <2>2. CASE ~(length <= mpt)
    <3>1. t = Ticks(length, mpt)
      BY <1>1, <2>2 DEF CircleTimes
    <3>. HIDE DEF t
    <3>. QED
      BY <1>1, <3>1, TicksAre DEF t
  <2>. QED
    BY <2>1, <2>2
<1>2. CASE r # 1
  <2>1. t = [i \in 1..(r + 1) |-> ((i - 1) * length) \div r]
    BY <1>2 DEF CircleTimes
  <2>. HIDE DEF t, r
  <2>2. ASSUME NEW i \in 1..(r + 1)
        PROVE  t[i] = ((i - 1) * length) \div r /\ t[i] \in Nat /\ t[i] <= length
    <3>1. i - 1 \in Nat /\ i - 1 <= r /\ r \in Nat
      BY <1>0
    <3>2. t[i] = ((i - 1) * length) \div r
      BY <2>1
    <3>. DEFINE x == (i - 1) * length
               y == r * length
    <3>3. x \in Nat /\ y \in Nat /\ x <= y
      BY <3>1, ProductIs, ProductGrows
    <3>4. y \div r = length
      BY <1>0, QuotientExact
    <3>. HIDE DEF x, y
    <3>5. x \div r <= y \div r /\ x \div r \in Nat
      BY <1>0, <3>3, QuotientGrows, QuotientIs
    <3>. QED
      BY <3>2, <3>4, <3>5 DEF x
  <2>3. t \in Seq(Nat) /\ Len(t) = r + 1
    <3>1. t \in [1..(r + 1) -> Nat]
      BY <2>1, <2>2
    <3>. QED
      BY <1>0, <3>1
  <2>4. 1 \in 1..(r + 1) /\ r + 1 \in 1..(r + 1) /\ (r + 1) - 1 = r /\ 1 - 1 = 0 /\ 0 * length = 0
    BY <1>0
  <2>5. t[1] = 0
    <3>1. t[1] = 0 \div r
      BY <2>1, <2>4
    <3>. QED
      BY <1>0, <3>1, QuotientExact
  <2>6. t[r + 1] = length
    <3>1. t[r + 1] = (r * length) \div r
      BY <2>1, <2>4
    <3>. QED
      BY <1>0, <3>1, QuotientExact
  <2>7. ASSUME NEW j \in 1..(r + 1), NEW k \in 1..(r + 1), j < k  PROVE t[j] <= t[k]
    <3>1. j - 1 \in Nat /\ k - 1 \in Nat /\ j - 1 <= k - 1
      BY <1>0, <2>7
    <3>. DEFINE x == (j - 1) * length
               y == (k - 1) * length
    <3>2. x \in Nat /\ y \in Nat /\ x <= y
      BY <3>1, ProductIs, ProductGrows
    <3>3. t[j] = x \div r /\ t[k] = y \div r
      BY <2>2
    <3>. HIDE DEF x, y
    <3>. QED
      BY <1>0, <3>2, <3>3, QuotientGrows
  <2>8. \A k \in 1..(r + 1) : OffsetLe(t[k], length)
    BY <2>2 DEF OffsetLe
  <2>. QED
    BY <2>3, <2>4, <2>5, <2>6, <2>7, <2>8, <1>0 DEF t
<1>. QED
  BY <1>1, <1>2

\* Sliders are played at least once; nothing else is repeated.
Repeats(hos) ==
  \A i \in 1..Len(hos) : /\ hos[i].type = "slider" => hos[i].repeat # 0
                         /\ hos[i].type # "slider" => hos[i].repeat = 0

\* The circles that come of a slider of some length.
Circles(ho, length, w) ==
  /\ Len(w) >= 1 /\ w[1].offset = ho.offset
  /\ \A k \in 1..Len(w) :
       /\ w[k].type = "circle" /\ w[k].end = w[k].offset /\ w[k].res = NoRes /\ w[k].repeat = 0
       /\ w[k].offset >= ho.offset /\ OffsetLe(w[k].offset - ho.offset, length)
  /\ \A j, k \in 1..Len(w) : j < k => w[j].offset <= w[k].offset
  /\ ho.repeat > 1 => \E k \in 1..Len(w) : w[k].offset = ho.offset + length

LEMMA ConvertedIs ==
  ASSUME NEW b \in Beatmaps, NEW ho \in Hos, NEW tp \in Tps, Mpb(b, tp) \in Nat,
         ho.type = "slider" => ho.repeat # 0
  PROVE  LET w == Converted(b, ho, tp)
         IN  /\ w \in Seq(Hos)
             /\ ho.type = "hold" => w = <<>>
             /\ TooShort(b, ho, tp) => Circles(ho, Duration(b, ho, tp), w)
             /\ ho.type # "hold" /\ ~TooShort(b, ho, tp) => w = <<ho>>
<1>. DEFINE w == Converted(b, ho, tp)
           d == Duration(b, ho, tp)
<1>1. CASE ho.type = "hold"
  <2>1. w = <<>> /\ ~TooShort(b, ho, tp)
    BY <1>1 DEF Converted, TooShort
  <2>. QED
    BY <1>1, <2>1
<1>2. CASE TooShort(b, ho, tp)
  <2>. DEFINE mpt == Mpb(b, tp) \div b.tick_rate
             t == CircleTimes(ho, d, mpt)
             N == Len(t)
  <2>1. d \in Nat
    BY DurationIs
  <2>2. mpt \in Nat
    <3>1. b.tick_rate \in Nat \ {0}
      BY DEF Beatmaps
    <3>. QED
      BY <3>1, QuotientIs
  <2>3. ho.type = "slider" /\ ho.repeat # 0
    BY <1>2 DEF TooShort
  <2>. HIDE DEF d, mpt
  <2>4. /\ t \in Seq(Nat) /\ N >= 1 /\ t[1] = 0
        /\ \A k \in 1..N : OffsetLe(t[k], d)
        /\ \A j, k \in 1..N : j < k => t[j] <= t[k]
        /\ ho.repeat > 1 => \E k \in 1..N : t[k] = d
    BY <2>1, <2>2, <2>3, CircleTimesAre
  <2>5. w = [i \in DOMAIN t |-> Circle(ho, ho.offset + t[i])]
    BY <1>2, <2>3 DEF Converted, d, mpt
  <2>. HIDE DEF t
  <2>6. N \in Nat /\ DOMAIN t = 1..N /\ \A k \in 1..N : t[k] \in Nat
    BY <2>4
  <2>. HIDE DEF N, w
  <2>7. ASSUME NEW k \in 1..N
        PROVE  /\ w[k] \in Hos /\ w[k].type = "circle" /\ w[k].end = w[k].offset
               /\ w[k].res = NoRes /\ w[k].repeat = 0 /\ w[k].offset = ho.offset + t[k]
    <3>. DEFINE x == ho.offset + t[k]
    <3>1. x \in Int
      BY <2>6 DEF Hos
    <3>2. w[k] = Circle(ho, x)
      BY <2>5, <2>6
    <3>. HIDE DEF x
    <3>. DEFINE c == Circle(ho, x)
    <3>3. c \in Hos
      BY <3>1 DEF Circle, Hos, NoRes
    <3>4. c.type = "circle" /\ c.end = x /\ c.res = NoRes /\ c.repeat = 0 /\ c.offset = x
      BY DEF Circle, Hos
    <3>. HIDE DEF c
    <3>5. w[k] = c
      BY <3>2 DEF c
    <3>. QED
      BY <3>3, <3>4, <3>5 DEF x
  <2>8. w \in Seq(Hos) /\ Len(w) = N
    <3>1. w \in [1..N -> Hos]
      BY <2>5, <2>6, <2>7
    <3>. QED
      BY <2>6, <3>1
  <2>9. Circles(ho, d, w)
    <3>0. ho.offset \in Int /\ 1 \in 1..N
      BY <2>4, <2>6 DEF Hos
    <3>1. w[1].offset = ho.offset
      BY <2>4, <2>7, <3>0
    <3>2. ASSUME NEW k \in 1..N
          PROVE  w[k].offset >= ho.offset /\ OffsetLe(w[k].offset - ho.offset, d)
      <4>1. w[k].offset = ho.offset + t[k] /\ t[k] \in Nat
        BY <2>6, <2>7
      <4>2. w[k].offset - ho.offset = t[k] /\ w[k].offset >= ho.offset
        BY <3>0, <4>1
      <4>. QED
        BY <2>4, <4>2
    <3>3. ASSUME NEW j \in 1..N, NEW k \in 1..N, j < k  PROVE w[j].offset <= w[k].offset
      <4>1. t[j] <= t[k] /\ t[j] \in Nat /\ t[k] \in Nat
        BY <2>4, <2>6, <3>3
      <4>2. w[j].offset = ho.offset + t[j] /\ w[k].offset = ho.offset + t[k]
        BY <2>7
      <4>. QED
        BY <3>0, <4>1, <4>2
    <3>4. ho.repeat > 1 => \E k \in 1..N : w[k].offset = ho.offset + d
      BY <2>4, <2>7
    <3>. QED
      BY <2>4, <2>7, <2>8, <3>1, <3>2, <3>3, <3>4 DEF Circles
  <2>. QED
    BY <1>2, <2>3, <2>8, <2>9 DEF w, d
<1>3. CASE ho.type # "hold" /\ ~TooShort(b, ho, tp)
  <2>1. w = <<ho>>
    BY <1>3 DEF Converted
  <2>2. <<ho>> \in Seq(Hos)
    OBVIOUS
  <2>. HIDE DEF w
  <2>. QED
    BY <1>3, <2>1, <2>2 DEF w
<1>. QED
  BY <1>1, <1>2, <1>3

\* The pieces of a conversion, and the objects it leaves.
Pieces(b) == [i \in 1..Len(b.hos) |-> Converted(b, b.hos[i], b.tps[TpOf(b)[i]])]
ConvertedHos(b) == FlattenSeq(Pieces(b))

PieceIs(b, i, w) ==
  LET ho == b.hos[i]
      tp == b.tps[TpOf(b)[i]]
  IN  /\ TpOf(b)[i] \in 1..Len(b.tps) /\ tp \in Tps /\ ho \in Hos /\ Mpb(b, tp) \in Nat
      /\ Duration(b, ho, tp) \in Nat
      /\ w \in Seq(Hos)
      /\ ho.type = "hold" => w = <<>>
      /\ TooShort(b, ho, tp) => Circles(ho, Duration(b, ho, tp), w)
      /\ ho.type # "hold" /\ ~TooShort(b, ho, tp) => w = <<ho>>

LEMMA PiecesAre ==
  ASSUME NEW b \in Beatmaps, Based(b.tps), b.hos # <<>> => b.tps # <<>>, Repeats(b.hos)
  PROVE  /\ Pieces(b) \in Seq(Seq(Hos)) /\ Len(Pieces(b)) = Len(b.hos)
         /\ \A i \in 1..Len(b.hos) : PieceIs(b, i, Pieces(b)[i])
<1>. DEFINE N == Len(b.hos)
           ss == Pieces(b)
<1>0. N \in Nat /\ \A i \in 1..N : b.hos[i] \in Hos
  BY DEF Beatmaps
<1>1. ASSUME NEW i \in 1..N  PROVE PieceIs(b, i, ss[i])
  <2>1. b.tps # <<>>
    <3>1. b.hos # <<>>
      BY <1>0
    <3>. QED
      BY <3>1
  <2>. DEFINE m == TpOf(b)[i]
             ho == b.hos[i]
             tp == b.tps[m]
             w == Converted(b, ho, tp)
  <2>2. m \in 1..Len(b.tps)
    <3>1. i \in 0..N
      BY <1>0
    <3>. QED
      BY <2>1, <3>1, TpOfIs
  <2>3. ss[i] = w
    BY DEF Pieces
  <2>. HIDE DEF m
  <2>4. tp \in Tps
    BY <2>2 DEF Beatmaps
  <2>5. Mpb(b, tp) \in Nat
    BY <2>2, MpbIs
  <2>6. ho \in Hos /\ (ho.type = "slider" => ho.repeat # 0)
    BY <1>0 DEF Repeats
  <2>. HIDE DEF ss, ho, tp
  <2>7. Duration(b, ho, tp) \in Nat
    BY <2>4, <2>5, <2>6, DurationIs
  <2>8. /\ w \in Seq(Hos)
        /\ ho.type = "hold" => w = <<>>
        /\ TooShort(b, ho, tp) => Circles(ho, Duration(b, ho, tp), w)
        /\ ho.type # "hold" /\ ~TooShort(b, ho, tp) => w = <<ho>>
    BY <2>4, <2>5, <2>6, ConvertedIs
  <2>. HIDE DEF w
  <2>. QED
    BY <2>2, <2>3, <2>4, <2>5, <2>6, <2>7, <2>8 DEF PieceIs, ho, tp, m
<1>2. ss \in Seq(Seq(Hos)) /\ Len(ss) = N
  <2>1. ss = [i \in 1..N |-> ss[i]]
    BY DEF Pieces
  <2>2. \A i \in 1..N : ss[i] \in Seq(Hos)
    BY <1>1 DEF PieceIs
  <2>. HIDE DEF ss
  <2>3. ss \in [1..N -> Seq(Hos)]
    BY <2>1, <2>2
  <2>. QED
    BY <1>0, <2>3
<1>. QED
  BY <1>1, <1>2

\* The objects of the pieces, and where each comes from.
LEMMA ConvertedHosAre ==
  ASSUME NEW b \in Beatmaps, Based(b.tps), b.hos # <<>> => b.tps # <<>>, Repeats(b.hos)
  PROVE  /\ ConvertedHos(b) \in Seq(Hos) /\ Repeats(ConvertedHos(b))
         /\ \E at, of : Gathered(at, of, ConvertedHos(b), Pieces(b), Len(b.hos))
         /\ ConvertedHos(b) # <<>> => b.tps # <<>>
<1>. DEFINE new == ConvertedHos(b)
           ss == Pieces(b)
           N == Len(b.hos)
<1>1. ss \in Seq(Seq(Hos)) /\ Len(ss) = N
  BY PiecesAre
<1>. HIDE DEF ss
<1>2. FlattenSeq(ss) \in Seq(Hos) /\ \E at, of : Gathered(at, of, FlattenSeq(ss), ss, N)
  BY <1>1, FlattenIs
<1>3. new = FlattenSeq(ss)
  BY DEF ConvertedHos, ss
<1>. HIDE DEF new
<1>4. PICK at, of : Gathered(at, of, new, ss, N)
  BY <1>2, <1>3
<1>5. ASSUME NEW k \in 1..Len(new)
      PROVE  /\ new[k].type = "slider" => new[k].repeat # 0
             /\ new[k].type # "slider" => new[k].repeat = 0
             /\ b.tps # <<>>
  <2>. DEFINE i == at[k]
             w == ss[i]
             ho == b.hos[i]
             tp == b.tps[TpOf(b)[i]]
  <2>1. i \in 1..N /\ of[k] \in 1..Len(w) /\ new[k] = w[of[k]]
    BY <1>4 DEF Gathered
  <2>2. /\ ho.type = "hold" => w = <<>>
        /\ TooShort(b, ho, tp) => Circles(ho, Duration(b, ho, tp), w)
        /\ ho.type # "hold" /\ ~TooShort(b, ho, tp) => w = <<ho>>
        /\ TpOf(b)[i] \in 1..Len(b.tps)
    BY <2>1, PiecesAre DEF ss, PieceIs
  <2>3. b.tps # <<>>
    BY <2>2
  <2>4. /\ ho.type = "slider" => ho.repeat # 0
        /\ ho.type # "slider" => ho.repeat = 0
    BY <2>1 DEF Repeats
  <2>. DEFINE short == TooShort(b, ho, tp)
             d == Duration(b, ho, tp)
  <2>5. (ho.type = "hold") => Len(w) = 0
    BY <2>2
  <2>. HIDE DEF i, w, ho, tp, short, d
  <2>6. CASE short
    <3>1. Circles(ho, d, w)
      BY <2>2, <2>6 DEF short, d
    <3>2. new[k].type = "circle" /\ new[k].repeat = 0
      BY <2>1, <3>1 DEF Circles
    <3>. QED
      BY <2>3, <3>2
  <2>7. CASE ~short
    <3>1. ho.type # "hold"
      BY <2>1, <2>5
    <3>2. w = <<ho>>
      BY <2>2, <2>7, <3>1 DEF short
    <3>3. new[k] = ho
      BY <2>1, <3>2
    <3>. QED
      BY <2>3, <2>4, <3>3
  <2>. QED
    BY <2>6, <2>7
<1>6. new # <<>> => 1 \in 1..Len(new)
  BY <1>2, <1>3
<1>. QED
  BY <1>2, <1>3, <1>5, <1>6 DEF Repeats, new, ss

-----------------------------------------------------------------------------
(***************************************************************************)
(* The types, and what is where while a beatmap is loaded.                 *)
(***************************************************************************)
BmOK(b) == b \in Beatmaps /\ Based(b.tps) /\ ComboListed(b) /\ Repeats(b.hos)

Phase(s, l, b, f) ==
  /\ s = "parse" => l <= Len(f.lines) /\ b.prepared = 0
  /\ s = "tree" => l <= Len(b.evs) /\ (b.prepared = 0 \/ (b.prepared = 1 /\ b.mode = "taiko"))
  /\ s = "again" => b.prepared = 1 /\ b.mode = "taiko"
  /\ s = "loaded" => b.prepared = 1 \/ (b.prepared = 2 /\ b.mode = "taiko")
  /\ s \in {"tree", "loaded", "again"} => Ready(b)

TypeInv ==
  /\ todo \in Seq(Files) /\ file \in Files /\ stage \in Stages /\ line \in Nat
  /\ section \in ObjectSections \cup {"other", NoSection}
  /\ event_stack \in [0..MaxLevel - 1 -> EventPointers] /\ loads \in Nat
  /\ BmOK(bm) /\ Phase(stage, line, bm, file)

LEMMA EmptyOK ==
  ASSUME NEW b \in Beatmaps, b.hos = <<>>, b.tps = <<>>, b.cols = <<>>  PROVE BmOK(b)
  BY DEF BmOK, Based, ComboListed, SomeCombo, Repeats

WithTp(b, l) == [b EXCEPT !.tps = Append(@, NewTp(l))]

LEMMA TpLine ==
  ASSUME NEW b, BmOK(b), NEW l \in Lines, l.k = "tp", NEW c, c = WithTp(b, l)
  PROVE  /\ BmOK(c) /\ SameHead(b, c) /\ SameColours(b, c) /\ c.hos = b.hos /\ c.evs = b.evs
         /\ c.owned = b.owned /\ c.tps = Append(b.tps, NewTp(l))
<1>. DEFINE e == NewTp(l)
           s == Append(b.tps, e)
           N == Len(b.tps)
<1>0. c = [b EXCEPT !.tps = s]
  BY DEF WithTp
<1>1. e \in Tps /\ e.base = 0
  <2>1. e \in Tps
    BY LineIs
  <2>. QED
    BY <2>1 DEF NewTp
<1>2. b \in Beatmaps /\ b.tps \in Seq(Tps) /\ N \in Nat /\ \A i \in 1..N : b.tps[i].base \in 0..N
  BY DEF BmOK, Beatmaps, Based
<1>. HIDE DEF e
<1>3. s \in Seq(Tps) /\ Len(s) = N + 1 /\ s[N + 1] = e /\ \A i \in 1..N : s[i] = b.tps[i]
  BY <1>1, <1>2
<1>. HIDE DEF s
<1>4. c \in Beatmaps /\ c.tps = s
  BY <1>0, <1>2, <1>3 DEF Beatmaps
<1>5. Based(s)
  <2>1. \A i \in 1..N + 1 : i = N + 1 \/ i \in 1..N
    BY <1>0, <1>2
  <2>. HIDE DEF N
  <2>2. ASSUME NEW i \in 1..N + 1  PROVE s[i].base \in 0..N + 1
    <3>1. CASE i = N + 1
      BY <1>1, <1>0, <1>2, <1>3, <3>1
    <3>2. CASE i \in 1..N
      <4>1. s[i].base \in 0..N
        BY <1>0, <1>2, <1>3, <3>2
      <4>. QED
        BY <1>0, <1>2, <4>1
    <3>. QED
      BY <2>1, <3>1, <3>2
  <2>. QED
    BY <1>3, <2>2 DEF Based
<1>6. /\ SameHead(b, c) /\ SameColours(b, c) /\ c.hos = b.hos /\ c.evs = b.evs
      /\ c.owned = b.owned
  BY <1>0, <1>2 DEF SameHead, SameColours, Beatmaps
<1>7. BmOK(c)
  BY <1>4, <1>5, <1>6 DEF BmOK, ComboListed, SomeCombo, SameColours
<1>. QED
  BY <1>4, <1>6, <1>7 DEF s, e

WithHo(b, l, n) == [b EXCEPT !.hos = Append(@, NewHo(l, n)), !.owned = @ \cup {n}]

LEMMA HoLine ==
  ASSUME NEW b, BmOK(b), NEW l \in Lines, l.k = "ho", NEW n \in Nat,
         NEW c, c = WithHo(b, l, n)
  PROVE  /\ BmOK(c) /\ SameHead(b, c) /\ SameColours(b, c) /\ c.tps = b.tps /\ c.evs = b.evs
         /\ c.owned = b.owned \cup {n} /\ c.hos = Append(b.hos, NewHo(l, n))
<1>. DEFINE e == NewHo(l, n)
           s == Append(b.hos, e)
           o == b.owned \cup {n}
           N == Len(b.hos)
<1>0. c = [b EXCEPT !.hos = s, !.owned = o]
  BY DEF WithHo
<1>1. e \in Hos /\ (e.type = "slider" => e.repeat # 0) /\ (e.type # "slider" => e.repeat = 0)
  <2>1. /\ e \in Hos
        /\ l.type # "slider" => l.repeat = 0
        /\ l.type = "slider" => l.repeat \in Nat \ {0}
    BY LineIs
  <2>2. e.type = l.type /\ e.repeat = l.repeat
    BY DEF NewHo
  <2>. HIDE DEF e
  <2>. QED
    BY <2>1, <2>2
<1>2. b \in Beatmaps /\ b.hos \in Seq(Hos) /\ N \in Nat /\ o \in SUBSET Nat
  BY DEF BmOK, Beatmaps
<1>. HIDE DEF e, o
<1>3. s \in Seq(Hos) /\ Len(s) = N + 1 /\ s[N + 1] = e /\ \A i \in 1..N : s[i] = b.hos[i]
  BY <1>1, <1>2
<1>. HIDE DEF s
<1>4. c \in Beatmaps /\ c.hos = s /\ c.owned = o
  BY <1>0, <1>2, <1>3 DEF Beatmaps
<1>5. Repeats(s)
  <2>1. \A i \in 1..N + 1 : i = N + 1 \/ i \in 1..N
    BY <1>0, <1>2
  <2>2. Repeats(b.hos)
    BY DEF BmOK
  <2>. QED
    BY <1>1, <1>3, <2>1, <2>2 DEF Repeats
<1>6. SameHead(b, c) /\ SameColours(b, c) /\ c.tps = b.tps /\ c.evs = b.evs
  BY <1>0, <1>2 DEF SameHead, SameColours, Beatmaps
<1>7. BmOK(c)
  BY <1>4, <1>5, <1>6 DEF BmOK, ComboListed, SomeCombo, SameColours
<1>. QED
  BY <1>4, <1>6, <1>7 DEF s, e, o

WithEvent(b, l) == [b EXCEPT !.evs = Append(@, NewEvent(l))]

LEMMA EventLine ==
  ASSUME NEW b, BmOK(b), NEW l \in Lines, l.k = "event", NEW c, c = WithEvent(b, l)
  PROVE  /\ BmOK(c) /\ SameHead(b, c) /\ SameColours(b, c) /\ c.hos = b.hos /\ c.tps = b.tps
         /\ c.owned = b.owned /\ c.evs = Append(b.evs, NewEvent(l))
<1>. DEFINE e == NewEvent(l)
           s == Append(b.evs, e)
<1>0. c = [b EXCEPT !.evs = s]
  BY DEF WithEvent
<1>1. e \in Evs
  BY LineIs
<1>2. b \in Beatmaps /\ b.evs \in Seq(Evs)
  BY DEF BmOK, Beatmaps
<1>. HIDE DEF e
<1>3. s \in Seq(Evs)
  BY <1>1, <1>2
<1>. HIDE DEF s
<1>4. c \in Beatmaps /\ c.evs = s
  BY <1>0, <1>2, <1>3 DEF Beatmaps
<1>6. /\ SameHead(b, c) /\ SameColours(b, c) /\ c.hos = b.hos /\ c.tps = b.tps
      /\ c.owned = b.owned
  BY <1>0, <1>2 DEF SameHead, SameColours, Beatmaps
<1>7. BmOK(c)
  BY <1>4, <1>6 DEF BmOK, ComboListed, SomeCombo, SameColours
<1>. QED
  BY <1>4, <1>6, <1>7 DEF s, e

LEMMA ColoursOnly ==
  ASSUME NEW b, BmOK(b), NEW c, OnlyColours(b, c), ComboListed(c)  PROVE BmOK(c)
  BY DEF BmOK, OnlyColours, SameObjects

\* One more colour, or the last one again.
LEMMA IgnoredIs ==
  ASSUME NEW b, BmOK(b), b.cols # <<>>, NEW g \in Grown(b), NEW c \in Listed(g, Len(g.cols))
  PROVE  OnlyColours(b, c) /\ ComboListed(c) /\ c.cols = b.cols
<1>1. b \in Beatmaps /\ ComboListed(b)
  BY DEF BmOK
<1>2. OnlyColours(b, g) /\ g.cols = b.cols /\ g.combo_colours = b.combo_colours
  BY <1>1, GrownIs
<1>3. g \in Beatmaps /\ Len(g.cols) \in DOMAIN g.cols
  <2>1. g \in Beatmaps
    BY <1>2 DEF OnlyColours
  <2>. QED
    BY <1>1, <1>2, <2>1 DEF Beatmaps
<1>4. /\ OnlyColours(g, c) /\ c.cols = g.cols
      /\ g.combo_colours # <<>> => c.combo_colours # <<>>
  BY <1>3, ListedIs
<1>5. OnlyColours(b, c)
  BY <1>1, <1>2, <1>4, OnlyColoursTwice
<1>. QED
  BY <1>1, <1>2, <1>4, <1>5 DEF ComboListed, SomeCombo

\* The preparation, up to the tree: c is b with its timing points and colours.
Coloured(b, c) ==
  /\ BmOK(c) /\ Ready(c) /\ SameHead(b, c)
  /\ c.hos = b.hos /\ c.evs = b.evs /\ c.owned = b.owned /\ c.tps = PreparedTps(b.tps)

LEMMA ColouredIs ==
  ASSUME NEW b, BmOK(b), b.hos # <<>> => b.tps # <<>>,
         NEW c \in PreparedColours([b EXCEPT !.tps = PreparedTps(@)])
  PROVE  Coloured(b, c)
<1>. DEFINE s == PreparedTps(b.tps)
           a == [b EXCEPT !.tps = s]
           N == Len(b.tps)
<1>1. b \in Beatmaps /\ b.tps \in Seq(Tps) /\ N \in Nat /\ Based(b.tps)
  BY DEF BmOK, Beatmaps
<1>2. s \in Seq(Tps) /\ Len(s) = N
  BY <1>1, PreparedTpsAre
<1>3. Based(s)
  <2>1. CASE b.tps = <<>> \/ b.tps[1].inherited
    <3>1. s = b.tps
      BY <2>1 DEF PreparedTps
    <3>. QED
      BY <1>1, <3>1
  <2>2. CASE ~(b.tps = <<>> \/ b.tps[1].inherited)
    <3>1. \A i \in 1..N : s[i].base \in 1..i
      BY <1>1, <2>2, PreparedTpsAre
    <3>. HIDE DEF s, N
    <3>. QED
      BY <1>1, <1>2, <3>1 DEF Based
  <2>. QED
    BY <2>1, <2>2, Zenon
<1>4. s # <<>> \/ b.tps = <<>>
  BY <1>1, <1>2
<1>. HIDE DEF s
<1>5. a \in Beatmaps /\ a.tps = s
  BY <1>1, <1>2 DEF Beatmaps
<1>6. SameHead(b, a) /\ SameColours(b, a) /\ a.hos = b.hos /\ a.evs = b.evs /\ a.owned = b.owned
  BY <1>1 DEF SameHead, SameColours, Beatmaps
<1>. HIDE DEF a
<1>7. ComboListed(a) /\ Repeats(a.hos)
  BY <1>6 DEF ComboListed, SomeCombo, SameColours, BmOK
<1>8. c \in PreparedColours(a)
  BY DEF a, s
<1>9. OnlyColours(a, c) /\ ComboListed(c) /\ c.combo_colours # <<>>
  BY <1>5, <1>7, <1>8, PreparedColoursAre
<1>10. c \in Beatmaps /\ SameHead(a, c) /\ SameObjects(a, c)
  BY <1>9 DEF OnlyColours
<1>11. c.hos = b.hos /\ c.evs = b.evs /\ c.owned = b.owned /\ c.tps = s
  BY <1>5, <1>6, <1>10 DEF SameObjects
<1>12. SameHead(b, c)
  BY <1>6, <1>10 DEF SameHead
<1>13. BmOK(c) /\ Ready(c)
  BY <1>3, <1>4, <1>6, <1>7, <1>9, <1>10, <1>11 DEF BmOK, Ready
<1>. QED
  BY <1>11, <1>12, <1>13 DEF Coloured, s

\* The objects of c are prepared.
LEMMA HosPrepared ==
  ASSUME NEW c, BmOK(c), Ready(c), NEW d, d = PreparedHos(c)
  PROVE  /\ BmOK(d) /\ Ready(d) /\ SameHead(c, d) /\ SameColours(c, d)
         /\ d.tps = c.tps /\ d.evs = c.evs /\ d.owned = c.owned /\ Len(d.hos) = Len(c.hos)
         /\ \A i \in 1..Len(c.hos) : SameObject(c.hos[i], d.hos[i])
<1>. DEFINE s == d.hos
<1>1. c \in Beatmaps /\ Len(c.hos) \in Nat
  BY DEF BmOK, Beatmaps
<1>2. d \in Beatmaps /\ d = [c EXCEPT !.hos = s] /\ Len(s) = Len(c.hos)
  BY <1>1, PreparedHosAre
<1>3. \A i \in 1..Len(c.hos) : SameObject(c.hos[i], s[i])
  BY <1>1, PreparedHosAre
<1>. HIDE DEF s
<1>4. /\ SameHead(c, d) /\ SameColours(c, d)
      /\ d.tps = c.tps /\ d.evs = c.evs /\ d.owned = c.owned
  BY <1>1, <1>2 DEF SameHead, SameColours, Beatmaps
<1>5. Repeats(s)
  BY <1>2, <1>3 DEF BmOK, Repeats, SameObject
<1>6. d.hos # <<>> => d.tps # <<>>
  <2>1. c.hos = <<>> => Len(d.hos) = 0
    BY <1>2 DEF s
  <2>2. Len(d.hos) = 0 => d.hos = <<>>
    BY <1>2 DEF Beatmaps
  <2>. QED
    BY <1>4, <2>1, <2>2 DEF Ready
<1>7. BmOK(d) /\ Ready(d)
  BY <1>2, <1>4, <1>5, <1>6 DEF BmOK, Ready, Based, ComboListed, SomeCombo, SameColours, s
<1>. QED
  BY <1>2, <1>3, <1>4, <1>7 DEF s

\* Only the events change.
OtherEvents(b, c) ==
  /\ c \in Beatmaps /\ SameHead(b, c) /\ SameColours(b, c)
  /\ c.hos = b.hos /\ c.tps = b.tps /\ c.owned = b.owned

LEMMA OtherEventsOK ==
  ASSUME NEW b, BmOK(b), NEW c, OtherEvents(b, c)
  PROVE  BmOK(c) /\ (Ready(b) => Ready(c))
  BY DEF BmOK, Ready, OtherEvents, ComboListed, SomeCombo, SameColours

WithChild(b, i, p, me) ==
  [b EXCEPT !.evs[i].parent = p, !.evs[p.at].childs = ChildAdded(b.evs[p.at].childs, me)]

LEMMA ChildIs ==
  ASSUME NEW b \in Beatmaps, NEW i \in 1..Len(b.evs), NEW p \in EventPointers,
         NEW me \in EventPointers, NEW c, c = WithChild(b, i, p, me)
  PROVE  /\ OtherEvents(b, c) /\ Len(c.evs) = Len(b.evs)
         /\ \A j \in 1..Len(b.evs) :
              /\ SameEvent(b.evs[j], c.evs[j])
              /\ c.evs[j].offset = b.evs[j].offset /\ c.evs[j].end = b.evs[j].end
              /\ c.evs[j].parent = IF j = i THEN p ELSE b.evs[j].parent
              /\ c.evs[j].childs = IF j = p.at THEN Append(b.evs[j].childs, me)
                                   ELSE b.evs[j].childs
<1>. DEFINE s == b.evs
           N == Len(s)
           t == [s EXCEPT ![i].parent = p]
           v == ChildAdded(s[p.at].childs, me)
           u == [t EXCEPT ![p.at].childs = v]
<1>1. s \in Seq(Evs) /\ N \in Nat /\ DOMAIN s = 1..N
  BY DEF Beatmaps
<1>2. c = [b EXCEPT !.evs = u]
  <2>1. c = [b EXCEPT !.evs[i].parent = p, !.evs[p.at].childs = v]
    BY DEF WithChild
  <2>. HIDE DEF v
  <2>. QED
    BY <1>1, <2>1 DEF Beatmaps
<1>. HIDE DEF s, N
<1>3. ASSUME NEW j \in 1..N
      PROVE  /\ t[j] \in Evs /\ SameEvent(s[j], t[j])
             /\ t[j].offset = s[j].offset /\ t[j].end = s[j].end /\ t[j].childs = s[j].childs
             /\ t[j].parent = IF j = i THEN p ELSE s[j].parent
  <2>. DEFINE e == s[j]
  <2>1. e \in Evs
    BY <1>1
  <2>2. t[j] = IF j = i THEN [e EXCEPT !.parent = p] ELSE e
    BY <1>1
  <2>. HIDE DEF e, t
  <2>3. CASE j = i
    <3>1. t[j] = [e EXCEPT !.parent = p]
      BY <2>2, <2>3
    <3>. QED
      BY <2>1, <2>3, <3>1 DEF Evs, SameEvent, e
  <2>4. CASE j # i
    BY <2>1, <2>2, <2>4 DEF SameEvent, e
  <2>. QED
    BY <2>3, <2>4
<1>4. DOMAIN t = 1..N
  BY <1>1
<1>. HIDE DEF t
<1>5. ASSUME NEW j \in 1..N
      PROVE  /\ u[j] \in Evs /\ SameEvent(t[j], u[j])
             /\ u[j].offset = t[j].offset /\ u[j].end = t[j].end /\ u[j].parent = t[j].parent
             /\ u[j].childs = IF j = p.at THEN Append(t[j].childs, me) ELSE t[j].childs
  <2>. DEFINE e == t[j]
             k == Append(e.childs, me)
  <2>1. e \in Evs
    BY <1>3
  <2>2. u[j] = IF j = p.at THEN [e EXCEPT !.childs = k] ELSE e
    <3>1. j = p.at => v = k
      BY <1>3 DEF ChildAdded
    <3>. HIDE DEF v, k
    <3>. QED
      BY <1>4, <3>1
  <2>. HIDE DEF e, u
  <2>3. CASE j = p.at
    <3>1. u[j] = [e EXCEPT !.childs = k]
      BY <2>2, <2>3
    <3>2. k \in Seq(EventPointers)
      BY <2>1 DEF Evs
    <3>. HIDE DEF k
    <3>3. u[j].childs = k
      BY <2>1, <3>1 DEF Evs
    <3>4. /\ u[j] \in Evs /\ SameEvent(e, u[j])
          /\ u[j].offset = e.offset /\ u[j].end = e.end /\ u[j].parent = e.parent
      BY <2>1, <3>1, <3>2 DEF Evs, SameEvent
    <3>. QED
      BY <2>3, <3>3, <3>4 DEF e, k
  <2>4. CASE j # p.at
    BY <2>1, <2>2, <2>4 DEF SameEvent, e
  <2>. QED
    BY <2>3, <2>4
<1>6. u \in Seq(Evs) /\ Len(u) = N
  <2>1. u = [j \in 1..N |-> u[j]]
    BY <1>4
  <2>. HIDE DEF u
  <2>2. u \in [1..N -> Evs]
    BY <1>5, <2>1
  <2>. QED
    BY <1>1, <2>2
<1>. HIDE DEF u
<1>7. c.evs = u
  BY <1>2 DEF Beatmaps
<1>8. OtherEvents(b, c)
  <2>1. c \in Beatmaps
    BY <1>2, <1>6 DEF Beatmaps
  <2>. QED
    BY <1>2, <2>1 DEF OtherEvents, SameHead, SameColours, Beatmaps
<1>9. \A j \in 1..N :
        /\ SameEvent(s[j], u[j])
        /\ u[j].offset = s[j].offset /\ u[j].end = s[j].end
        /\ u[j].parent = IF j = i THEN p ELSE s[j].parent
        /\ u[j].childs = IF j = p.at THEN Append(s[j].childs, me) ELSE s[j].childs
  BY <1>3, <1>5 DEF SameEvent
<1>. QED
  BY <1>6, <1>7, <1>8, <1>9 DEF s, N

LEMMA EventsPrepared ==
  ASSUME NEW b, BmOK(b), NEW c, c = [b EXCEPT !.evs = PreparedEvents(b), !.prepared = @ + 1]
  PROVE  /\ BmOK(c) /\ (Ready(b) => Ready(c)) /\ c.evs = PreparedEvents(b) /\ c.prepared = b.prepared + 1
         /\ c.load = b.load /\ c.mode = b.mode /\ c.orig = b.orig
         /\ c.hos = b.hos /\ c.tps = b.tps /\ c.owned = b.owned /\ SameColours(b, c)
<1>. DEFINE s == PreparedEvents(b)
<1>1. b \in Beatmaps /\ b.prepared + 1 \in Nat
  BY DEF BmOK, Beatmaps
<1>2. s \in Seq(Evs)
  BY <1>1, PreparedEventsAre
<1>. HIDE DEF s
<1>3. c = [b EXCEPT !.evs = s, !.prepared = @ + 1]
  BY DEF s
<1>4. c \in Beatmaps /\ c.evs = s
  BY <1>1, <1>2, <1>3 DEF Beatmaps
<1>5. /\ c.load = b.load /\ c.mode = b.mode /\ c.orig = b.orig /\ c.prepared = b.prepared + 1
      /\ c.hos = b.hos /\ c.tps = b.tps /\ c.owned = b.owned /\ SameColours(b, c)
  BY <1>1, <1>3 DEF SameColours, Beatmaps
<1>6. BmOK(c) /\ (Ready(b) => Ready(c))
  BY <1>4, <1>5 DEF BmOK, Ready, ComboListed, SomeCombo, SameColours
<1>. QED
  BY <1>4, <1>5, <1>6 DEF s

\* The conversion; freed is what of the sliders is released.
Freed(b) == {b.hos[i].res : i \in Replaced(b, TpOf(b))}

LEMMA ConversionIs ==
  ASSUME NEW b, BmOK(b), Ready(b), NEW c,
         c = [b EXCEPT !.mode = "taiko",
                       !.hos = FlattenSeq([i \in DOMAIN @ |-> Converted(b, @[i], b.tps[TpOf(b)[i]])]),
                       !.owned = @ \ {b.hos[i].res : i \in Replaced(b, TpOf(b))},
                       !.orig = b.hos]
  PROVE  /\ BmOK(c) /\ (c.hos # <<>> => c.tps # <<>>) /\ Ready(c)
         /\ c.hos = ConvertedHos(b) /\ c.orig = b.hos
         /\ c.owned = b.owned \ Freed(b) /\ c.mode = "taiko" /\ c.load = b.load
         /\ c.prepared = b.prepared /\ c.tps = b.tps /\ c.evs = b.evs /\ SameColours(b, c)
<1>. DEFINE s == ConvertedHos(b)
           o == b.owned \ Freed(b)
<1>1. b \in Beatmaps /\ b.hos \in Seq(Hos) /\ DOMAIN b.hos = 1..Len(b.hos) /\ o \in SUBSET Nat
  BY DEF BmOK, Beatmaps
<1>2. s \in Seq(Hos) /\ Repeats(s) /\ (s # <<>> => b.tps # <<>>)
  BY <1>1, ConvertedHosAre DEF BmOK, Ready
<1>3. FlattenSeq([i \in DOMAIN b.hos |-> Converted(b, b.hos[i], b.tps[TpOf(b)[i]])]) = s
  BY <1>1 DEF ConvertedHos, Pieces
<1>4. c = [b EXCEPT !.mode = "taiko", !.hos = s, !.owned = o, !.orig = b.hos]
  BY <1>3 DEF Freed
<1>. HIDE DEF s, o
<1>5. c \in Beatmaps /\ c.hos = s
  BY <1>1, <1>2, <1>4 DEF Beatmaps
<1>6. /\ c.orig = b.hos /\ c.owned = o /\ c.mode = "taiko" /\ c.load = b.load
      /\ c.prepared = b.prepared /\ c.tps = b.tps /\ c.evs = b.evs /\ SameColours(b, c)
  BY <1>1, <1>4 DEF SameColours, Beatmaps
<1>7. BmOK(c) /\ Ready(c)
  BY <1>2, <1>5, <1>6 DEF BmOK, Ready, ComboListed, SomeCombo, SameColours
<1>. QED
  BY <1>2, <1>5, <1>6, <1>7 DEF s, o

-----------------------------------------------------------------------------
(***************************************************************************)
(* What a step does, and the types.                                        *)
(***************************************************************************)
Line == file.lines[line + 1]

\* The line is read without stopping.
Advances ==
  /\ stage = "parse" /\ stage' = "parse" /\ line < Len(file.lines) /\ line' = line + 1
  /\ Line \in Lines
  /\ UNCHANGED <<todo, file, event_stack, loads>>

\* A line with nothing for the beatmap.
Skipped ==
  /\ Advances /\ bm' = bm /\ Line.k # "unreadable"
  /\ \/ Line.k = "blank" /\ section' = section
     \/ Line.k = "section" /\ section' = Line.name
     \/ /\ Line.k # "section" /\ section \notin ObjectSections \cup {NoSection}
        /\ section' = section

ObjectRead(k) == Advances /\ Line.k = k /\ Belongs(Line) /\ section' = section
TpRead == ObjectRead("tp") /\ bm' = WithTp(bm, Line)
HoRead == ObjectRead("ho") /\ bm' = WithHo(bm, Line, Len(bm.hos) + 1)
EventRead == ObjectRead("event") /\ bm' = WithEvent(bm, Line)
ColourRead ==
  /\ ObjectRead("colour")
  /\ bm' \in WithColour(bm, [combo |-> Line.combo, id |-> Line.id])

\* A line that its section cannot have.
Misplaced ==
  /\ stage = "parse" /\ line < Len(file.lines)
  /\ Line.k \notin {"blank", "section", "unreadable"} /\ ~Belongs(Line)
  /\ section \in ObjectSections \cup {NoSection}
Ignored ==
  /\ Misplaced /\ Advances /\ section' = section
  /\ bm.cols # <<>>
  /\ \E g \in Grown(bm) : bm' \in Listed(g, Len(g.cols))
Stopped ==
  /\ stage = "parse" /\ line < Len(file.lines)
  /\ \/ Line.k = "unreadable" /\ Stop("fail")
     \/ Misplaced /\ (Stop("fail") \/ Stop("crash"))

LEMMA ParseStep ==
  ASSUME TypeInv, ParseLine
  PROVE  Skipped \/ TpRead \/ HoRead \/ EventRead \/ ColourRead \/ Ignored \/ Stopped
<1>0. ASSUME NEW l, Reading(l)  PROVE l = Line /\ l \in Lines /\ stage = "parse" /\ line < Len(file.lines)
  <2>1. l = Line /\ stage = "parse" /\ line < Len(file.lines)
    BY <1>0 DEF Reading, Line
  <2>2. file.lines \in Seq(Lines) /\ line \in Nat
    BY DEF TypeInv, Files
  <2>3. Line \in Lines
    BY <2>1, <2>2 DEF Line
  <2>. QED
    BY <2>1, <2>3
<1>1. ASSUME NEW b, NEW l, Reading(l), LineDone(b), stage' = stage  PROVE Advances /\ bm' = b
  BY <1>0, <1>1 DEF LineDone, Advances
<1>1a. "Colours" \in ObjectSections /\ NoSection \notin ObjectSections
       /\ \A l \in Lines : Belongs(l) => section \in ObjectSections
  BY SectionFacts DEF Belongs, NoSection
<1>2. CASE SkipLine
  <2>1. PICK l : /\ Reading(l) /\ (l.k = "blank" \/ (l.k # "section" /\ section \notin ObjectSections \cup {NoSection}))
                 /\ l.k # "unreadable" /\ LineDone(bm) /\ UNCHANGED <<stage, section>>
    BY <1>2 DEF SkipLine
  <2>2. l = Line /\ Advances /\ bm' = bm /\ section' = section
    BY <1>0, <1>1, <2>1
  <2>. QED
    BY <2>1, <2>2 DEF Skipped
<1>3. CASE NewSection
  <2>1. PICK l : /\ Reading(l) /\ l.k = "section" /\ section' = l.name /\ LineDone(bm) /\ UNCHANGED stage
    BY <1>3 DEF NewSection
  <2>2. l = Line /\ Advances /\ bm' = bm
    BY <1>0, <1>1, <2>1
  <2>. QED
    BY <2>1, <2>2 DEF Skipped
<1>4. CASE Unreadable
  <2>1. PICK l : Reading(l) /\ l.k = "unreadable" /\ Stop("fail")
    BY <1>4 DEF Unreadable
  <2>. QED
    BY <1>0, <2>1 DEF Stopped
<1>5. CASE NoSectionYet
  <2>1. PICK l : /\ Reading(l) /\ l.k \notin {"blank", "section", "unreadable"}
                 /\ section = NoSection /\ Stop("crash")
    BY <1>5 DEF NoSectionYet
  <2>2. l = Line /\ stage = "parse" /\ line < Len(file.lines) /\ ~Belongs(l)
    BY <1>0, <1>1a, <2>1
  <2>. QED
    BY <2>1, <2>2 DEF Stopped, Misplaced
<1>6. CASE ObjectLine
  <2>1. PICK l : /\ Reading(l) /\ Belongs(l) /\ l.k # "colour"
                 /\ LineDone(LET b == bm
                                 res == Len(b.hos) + 1
                             IN  CASE l.k = "tp"    -> [b EXCEPT !.tps = Append(@, NewTp(l))]
                                   [] l.k = "ho"    -> [b EXCEPT !.hos = Append(@, NewHo(l, res)), !.owned = @ \cup {res}]
                                   [] l.k = "event" -> [b EXCEPT !.evs = Append(@, NewEvent(l))])
                 /\ UNCHANGED <<stage, section>>
    BY <1>6 DEF ObjectLine
  <2>2. l = Line /\ Advances /\ section' = section
    BY <1>0, <1>1, <2>1
  <2>3. l.k \in {"tp", "ho", "event"}
    BY <2>1, SectionFacts DEF Belongs
  <2>4. CASE l.k = "tp"
    <3>1. bm' = [bm EXCEPT !.tps = Append(@, NewTp(l))]
      BY <2>1, <2>4 DEF LineDone
    <3>. QED
      BY <2>1, <2>2, <2>4, <3>1 DEF TpRead, ObjectRead, WithTp
  <2>5. CASE l.k = "ho"
    <3>. DEFINE n == Len(bm.hos) + 1
    <3>1. bm' = [bm EXCEPT !.hos = Append(@, NewHo(l, n)), !.owned = @ \cup {n}]
      BY <2>1, <2>5 DEF LineDone
    <3>. QED
      BY <2>1, <2>2, <2>5, <3>1 DEF HoRead, ObjectRead, WithHo
  <2>6. CASE l.k = "event"
    <3>1. bm' = [bm EXCEPT !.evs = Append(@, NewEvent(l))]
      BY <2>1, <2>6 DEF LineDone
    <3>. QED
      BY <2>1, <2>2, <2>6, <3>1 DEF EventRead, ObjectRead, WithEvent
  <2>. QED
    BY <2>3, <2>4, <2>5, <2>6
<1>7. CASE RefusedLine
  <2>1. PICK l : /\ Reading(l) /\ l.k \notin {"blank", "section", "unreadable"}
                 /\ section \in ObjectSections \ {"Colours"} /\ ~Belongs(l) /\ Stop("fail")
    BY <1>7 DEF RefusedLine
  <2>2. l = Line /\ stage = "parse" /\ line < Len(file.lines)
    BY <1>0, <2>1
  <2>. QED
    BY <2>1, <2>2 DEF Stopped, Misplaced
<1>8. CASE ColourLine
  <2>1. PICK l : /\ Reading(l) /\ Belongs(l) /\ l.k = "colour"
                 /\ \E b \in WithColour(bm, [combo |-> l.combo, id |-> l.id]) : LineDone(b)
                 /\ UNCHANGED <<stage, section>>
    BY <1>8 DEF ColourLine
  <2>2. PICK b \in WithColour(bm, [combo |-> l.combo, id |-> l.id]) : LineDone(b)
    BY <2>1
  <2>3. l = Line /\ Advances /\ section' = section /\ bm' = b
    BY <1>0, <1>1, <2>1, <2>2
  <2>. QED
    BY <2>1, <2>2, <2>3 DEF ColourRead, ObjectRead
<1>9. CASE IgnoredColour
  <2>1. PICK l : /\ Reading(l) /\ l.k \notin {"blank", "section", "unreadable"}
                 /\ section = "Colours" /\ ~Belongs(l)
                 /\ IF bm.cols = <<>> THEN Stop("crash")
                    ELSE /\ \E g \in Grown(bm) : \E b \in Listed(g, Len(g.cols)) : LineDone(b)
                         /\ UNCHANGED <<stage, section>>
    BY <1>9 DEF IgnoredColour
  <2>2. l = Line /\ Misplaced
    BY <1>0, <1>1a, <2>1 DEF Misplaced
  <2>3. CASE bm.cols = <<>>
    <3>1. Stop("crash")
      BY <2>1, <2>3
    <3>. QED
      BY <2>2, <3>1 DEF Stopped, Misplaced
  <2>4. CASE bm.cols # <<>>
    <3>0. PICK g \in Grown(bm) : \E b \in Listed(g, Len(g.cols)) : LineDone(b)
      BY <2>1, <2>4
    <3>1. PICK b \in Listed(g, Len(g.cols)) : LineDone(b)
      BY <3>0
    <3>2. stage' = stage /\ section' = section
      BY <2>1, <2>4
    <3>3. Advances /\ bm' = b
      BY <1>1, <2>1, <3>1, <3>2
    <3>. QED
      BY <2>2, <2>4, <3>1, <3>2, <3>3 DEF Ignored
  <2>. QED
    BY <2>3, <2>4
<1>. QED
  BY <1>2, <1>3, <1>4, <1>5, <1>6, <1>7, <1>8, <1>9 DEF ParseLine

LEMMA OpenIs ==
  ASSUME TypeInv, Open
  PROVE  /\ todo' \in Seq(Files) /\ file' \in Files /\ line' = 0 /\ section' = NoSection
         /\ loads' = loads + 1 /\ event_stack' = event_stack
         /\ stage' = IF file'.version = "bad" THEN "fail" ELSE "parse"
         /\ bm' \in Beatmaps /\ bm'.load = loads + 1 /\ bm'.mode = file'.mode
         /\ bm'.hos = <<>> /\ bm'.tps = <<>> /\ bm'.evs = <<>> /\ bm'.cols = <<>>
         /\ bm'.combo_colours = <<>> /\ bm'.block = 1 /\ bm'.owned = {} /\ bm'.orig = <<>>
         /\ bm'.prepared = 0
<1>. DEFINE f == Head(todo)
<1>1. todo # <<>> /\ todo \in Seq(Files) /\ loads \in Nat
  BY DEF Open, TypeInv
<1>2. f \in Files /\ Tail(todo) \in Seq(Files)
  BY <1>1
<1>3. /\ file' = f /\ todo' = Tail(todo)
      /\ bm' = [Zero EXCEPT !.load = loads + 1, !.mode = f.mode, !.tick_rate = f.tick_rate]
      /\ stage' = IF f.version = "bad" THEN "fail" ELSE "parse"
      /\ line' = 0 /\ section' = NoSection /\ loads' = loads + 1 /\ event_stack' = event_stack
  BY DEF Open
<1>. HIDE DEF f
<1>4. f.mode \in {"std", "taiko", "catch", "mania"} /\ f.tick_rate \in Nat \ {0}
  BY <1>2 DEF Files
<1>5. bm' \in Beatmaps
  <2>. DEFINE n == loads + 1
             m == f.mode
             t == f.tick_rate
  <2>1. n \in Nat
    BY <1>1
  <2>2. bm' = [Zero EXCEPT !.load = n, !.mode = m, !.tick_rate = t]
    BY <1>3
  <2>. HIDE DEF n, m, t
  <2>3. ASSUME NEW z \in Beatmaps
        PROVE  [z EXCEPT !.load = n, !.mode = m, !.tick_rate = t] \in Beatmaps
    BY <1>4, <2>1 DEF Beatmaps, m, t
  <2>. QED
    BY <2>2, <2>3, ZeroIs
<1>6. /\ bm'.load = loads + 1 /\ bm'.mode = file'.mode
      /\ bm'.hos = <<>> /\ bm'.tps = <<>> /\ bm'.evs = <<>> /\ bm'.cols = <<>>
      /\ bm'.combo_colours = <<>> /\ bm'.block = 1 /\ bm'.owned = {} /\ bm'.orig = <<>>
      /\ bm'.prepared = 0
  BY <1>3 DEF Zero
<1>. QED
  BY <1>2, <1>3, <1>5, <1>6

\* The preparation starts, with c as its beatmap.
Prepares(c) ==
  /\ (stage = "parse" /\ line = Len(file.lines)) \/ stage = "again"
  /\ bm.hos # <<>> => bm.tps # <<>>
  /\ c \in PreparedColours([bm EXCEPT !.tps = PreparedTps(@)]) /\ Coloured(bm, c)
  /\ bm' = PreparedHos(c)
  /\ stage' = "tree" /\ line' = 0
  /\ UNCHANGED <<todo, file, section, event_stack, loads>>
NoPoint ==
  /\ (stage = "parse" /\ line = Len(file.lines)) \/ stage = "again"
  /\ bm.hos # <<>> /\ bm.tps = <<>> /\ Stop("crash")

LEMMA PrepareStep ==
  ASSUME TypeInv, Prepare
  PROVE  NoPoint \/ \E c : Prepares(c)
<1>1. CASE bm.hos # <<>> /\ bm.tps = <<>>
  BY <1>1 DEF Prepare, NoPoint
<1>2. CASE ~(bm.hos # <<>> /\ bm.tps = <<>>)
  <2>1. PICK c \in PreparedColours([bm EXCEPT !.tps = PreparedTps(@)]) : bm' = PreparedHos(c)
    BY <1>2 DEF Prepare
  <2>2. BmOK(bm)
    BY DEF TypeInv
  <2>3. Coloured(bm, c)
    BY <1>2, <2>2, ColouredIs
  <2>4. Prepares(c)
    BY <1>2, <2>1, <2>3 DEF Prepare, Prepares
  <2>. QED
    BY <2>4
<1>. QED
  BY <1>1, <1>2

\* The event that is built next.
Event == bm.evs[line + 1]
Me == [load |-> bm.load, at |-> line + 1]
Parent == event_stack[ParentLevel(Event)]

TooDeep ==
  /\ stage = "tree" /\ line < Len(bm.evs) /\ Event.level >= MaxLevel
  /\ Stop(IF bm.prepared = 0 THEN "fail" ELSE "loaded")
Built ==
  /\ stage = "tree" /\ line < Len(bm.evs) /\ line' = line + 1
  /\ line + 1 \in 1..Len(bm.evs) /\ Event \in Evs /\ Event.level \in 0..MaxLevel - 1
  /\ event_stack' = [event_stack EXCEPT ![Event.level] = Me]
  /\ UNCHANGED <<todo, file, section, loads>>
Rooted == Built /\ Event.level = 0 /\ UNCHANGED <<stage, bm>>
Orphan ==
  /\ Built /\ Event.level > 0 /\ bm' = bm
  /\ \/ Parent = NoEvent /\ stage' = "abort"
     \/ Parent # NoEvent /\ Parent.load \notin {0, bm.load} /\ stage' = "crash"
     \/ Parent # NoEvent /\ ~MayHaveChilds(bm.evs[Parent.at]) /\ stage' = "abort"
Adopted ==
  /\ Built /\ Event.level > 0 /\ stage' = stage
  /\ Parent # NoEvent /\ Parent.load \in {0, bm.load} /\ MayHaveChilds(bm.evs[Parent.at])
  /\ bm' = [bm EXCEPT !.evs[line + 1].parent = Parent,
                      !.evs[Parent.at].childs = ChildAdded(bm.evs[Parent.at].childs, Me)]

LEMMA BuildStep ==
  ASSUME TypeInv, BuildTree
  PROVE  TooDeep \/ Rooted \/ Orphan \/ Adopted
<1>1. stage = "tree" /\ line < Len(bm.evs)
  BY DEF BuildTree
<1>2. line \in Nat /\ bm.evs \in Seq(Evs) /\ MaxLevel \in Nat \ {0}
  BY BeatmapAssumption DEF TypeInv, BmOK, Beatmaps
<1>3. line + 1 \in 1..Len(bm.evs) /\ Event \in Evs
  BY <1>1, <1>2 DEF Event
<1>4. Event.level \in Nat
  BY <1>3 DEF Evs
<1>5. CASE Event.level >= MaxLevel
  <2>1. Stop(IF bm.prepared = 0 THEN "fail" ELSE "loaded")
    BY <1>5 DEF BuildTree, Event
  <2>. QED
    BY <1>1, <1>5, <2>1 DEF TooDeep
<1>6. CASE ~(Event.level >= MaxLevel)
  <2>1. /\ event_stack' = [event_stack EXCEPT ![Event.level] = Me]
        /\ line' = line + 1 /\ UNCHANGED <<todo, file, section, loads>>
        /\ CASE Event.level = 0 -> UNCHANGED <<stage, bm>>
             [] Event.level > 0 /\ Parent = NoEvent -> stage' = "abort" /\ UNCHANGED bm
             [] Event.level > 0 /\ Parent.load \notin {0, bm.load} -> stage' = "crash" /\ UNCHANGED bm
             [] OTHER ->
                  IF MayHaveChilds(bm.evs[Parent.at])
                  THEN /\ bm' = [bm EXCEPT !.evs[line + 1].parent = Parent,
                                           !.evs[Parent.at].childs =
                                             ChildAdded(bm.evs[Parent.at].childs, Me)]
                       /\ UNCHANGED stage
                  ELSE stage' = "abort" /\ UNCHANGED bm
    BY <1>6 DEF BuildTree, Event, Parent, Me
  <2>2. Event.level \in 0..MaxLevel - 1
    BY <1>2, <1>4, <1>6
  <2>3. Built
    BY <1>1, <1>3, <2>1, <2>2 DEF Built
  <2>4. CASE Event.level = 0
    <3>1. UNCHANGED <<stage, bm>>
      BY <2>1, <2>4
    <3>. QED
      BY <2>3, <2>4, <3>1 DEF Rooted
  <2>5. CASE Event.level > 0 /\ Parent = NoEvent
    <3>0. ~(Event.level = 0)
      BY <1>4, <2>5
    <3>0a. Parent.load = 0
      BY <2>5 DEF NoEvent
    <3>1. stage' = "abort" /\ bm' = bm
      BY <2>1, <2>5, <3>0, <3>0a
    <3>. QED
      BY <2>3, <2>5, <3>1 DEF Orphan
  <2>6. CASE Event.level > 0 /\ Parent # NoEvent /\ Parent.load \notin {0, bm.load}
    <3>1. stage' = "crash" /\ bm' = bm
      BY <1>4, <2>1, <2>6
    <3>. QED
      BY <2>3, <2>6, <3>1 DEF Orphan
  <2>7. CASE Event.level > 0 /\ Parent # NoEvent /\ Parent.load \in {0, bm.load}
    <3>1. IF MayHaveChilds(bm.evs[Parent.at])
          THEN /\ bm' = [bm EXCEPT !.evs[line + 1].parent = Parent,
                                   !.evs[Parent.at].childs =
                                     ChildAdded(bm.evs[Parent.at].childs, Me)]
               /\ UNCHANGED stage
          ELSE stage' = "abort" /\ UNCHANGED bm
      BY <1>4, <2>1, <2>7
    <3>2. CASE MayHaveChilds(bm.evs[Parent.at])
      BY <2>3, <2>7, <3>1, <3>2 DEF Adopted
    <3>3. CASE ~MayHaveChilds(bm.evs[Parent.at])
      BY <2>3, <2>7, <3>1, <3>3 DEF Orphan
    <3>. QED
      BY <3>2, <3>3
  <2>. QED
    BY <1>4, <2>4, <2>5, <2>6, <2>7
<1>. QED
  BY <1>5, <1>6

\* What a conversion does.
Converts ==
  /\ stage = "loaded" /\ bm.mode = "std" /\ stage' = "again"
  /\ BmOK(bm') /\ Ready(bm')
  /\ bm'.hos = ConvertedHos(bm) /\ bm'.orig = bm.hos /\ bm'.owned = bm.owned \ Freed(bm)
  /\ bm'.mode = "taiko" /\ bm'.load = bm.load /\ bm'.prepared = bm.prepared
  /\ bm'.tps = bm.tps /\ bm'.evs = bm.evs /\ SameColours(bm, bm')
  /\ UNCHANGED <<todo, file, line, section, event_stack, loads>>

LEMMA ConvertStep ==
  ASSUME TypeInv, Autoconvert
  PROVE  Converts
<1>1. BmOK(bm) /\ stage = "loaded" /\ Ready(bm)
  BY DEF TypeInv, Phase, Autoconvert
<1>2. bm' = [bm EXCEPT !.mode = "taiko",
               !.hos = FlattenSeq([i \in DOMAIN @ |-> Converted(bm, @[i], bm.tps[TpOf(bm)[i]])]),
               !.owned = @ \ {bm.hos[i].res : i \in Replaced(bm, TpOf(bm))},
               !.orig = bm.hos]
  BY DEF Autoconvert
<1>3. /\ BmOK(bm') /\ Ready(bm')
      /\ bm'.hos = ConvertedHos(bm) /\ bm'.orig = bm.hos /\ bm'.owned = bm.owned \ Freed(bm)
      /\ bm'.mode = "taiko" /\ bm'.load = bm.load /\ bm'.prepared = bm.prepared
      /\ bm'.tps = bm.tps /\ bm'.evs = bm.evs /\ SameColours(bm, bm')
  BY <1>1, <1>2, ConversionIs
<1>. QED
  BY <1>1, <1>3 DEF Converts, Autoconvert

\* What is left of a beatmap that was freed.
FreeDone ==
  /\ stage \in {"loaded", "fail"} /\ stage' = "idle" /\ ~BadPointer(bm)
  /\ bm' \in Beatmaps /\ bm'.owned = bm.owned \ Held(bm)
  /\ bm'.hos = <<>> /\ bm'.tps = <<>> /\ bm'.evs = <<>> /\ bm'.cols = <<>>
  /\ UNCHANGED <<todo, file, line, section, event_stack, loads>>

LEMMA FreeStep ==
  ASSUME TypeInv, Free
  PROVE  FreeDone \/ (stage \in {"loaded", "fail"} /\ BadPointer(bm) /\ Stop("crash"))
<1>1. CASE BadPointer(bm)
  BY <1>1 DEF Free
<1>2. CASE ~BadPointer(bm)
  <2>. DEFINE o == bm.owned \ Held(bm)
  <2>1. o \in SUBSET Nat
    BY DEF TypeInv, BmOK, Beatmaps
  <2>2. bm' = [Zero EXCEPT !.owned = @ \cup o]
    BY <1>2 DEF Free
  <2>. HIDE DEF o
  <2>3. Zero.owned \cup o = o
    BY DEF Zero
  <2>4. bm' = [Zero EXCEPT !.owned = o]
    BY <2>2, <2>3
  <2>5. bm' \in Beatmaps
    <3>1. ASSUME NEW z \in Beatmaps  PROVE [z EXCEPT !.owned = o] \in Beatmaps
      BY <2>1 DEF Beatmaps
    <3>. QED
      BY <2>4, <3>1, ZeroIs
  <2>6. bm'.owned = o /\ bm'.hos = <<>> /\ bm'.tps = <<>> /\ bm'.evs = <<>> /\ bm'.cols = <<>>
    BY <2>4 DEF Zero
  <2>7. /\ stage \in {"loaded", "fail"} /\ stage' = "idle"
        /\ UNCHANGED <<todo, file, line, section, event_stack, loads>>
    BY <1>2 DEF Free
  <2>. QED
    BY <1>2, <2>5, <2>6, <2>7 DEF FreeDone, o
<1>. QED
  BY <1>1, <1>2

LEMMA TypeInit == ASSUME Init  PROVE TypeInv
<1>1. bm = Zero /\ Zero.hos = <<>> /\ Zero.tps = <<>> /\ Zero.cols = <<>>
  BY DEF Init, Zero
<1>2. BmOK(bm)
  BY <1>1, ZeroIs, EmptyOK
<1>3. Phase(stage, line, bm, file)
  BY DEF Init, Phase
<1>4. event_stack \in [0..MaxLevel - 1 -> EventPointers]
  BY DEF Init, NoEvent, EventPointers
<1>5. todo \in Seq(Files)
  BY BeatmapAssumption DEF Init
<1>6. file \in Files
  BY DEF Init, Nothing, Files
<1>. QED
  BY <1>2, <1>3, <1>4, <1>5, <1>6 DEF Init, TypeInv, Stages

LEMMA HoReadIs ==
  ASSUME TypeInv, HoRead
  PROVE  /\ Advances /\ Line.k = "ho" /\ SameHead(bm, bm') /\ bm'.tps = bm.tps /\ bm'.evs = bm.evs
         /\ bm'.hos = Append(bm.hos, NewHo(Line, Len(bm.hos) + 1))
         /\ bm'.owned = bm.owned \cup {Len(bm.hos) + 1}
<1>. DEFINE n == Len(bm.hos) + 1
<1>1. Advances /\ Line \in Lines /\ Line.k = "ho" /\ bm' = WithHo(bm, Line, n)
  BY DEF HoRead, ObjectRead, Advances
<1>2. n \in Nat /\ BmOK(bm)
  BY DEF TypeInv, BmOK, Beatmaps
<1>. HIDE DEF n
<1>3. /\ SameHead(bm, bm') /\ bm'.tps = bm.tps /\ bm'.evs = bm.evs
      /\ bm'.hos = Append(bm.hos, NewHo(Line, n))
  BY <1>1, <1>2, HoLine
<1>4. bm'.owned = bm.owned \cup {n}
  BY <1>1, <1>2, HoLine
<1>. QED
  BY <1>1, <1>3, <1>4 DEF n

LEMMA StopKeeps ==
  ASSUME TypeInv, NEW s \in {"fail", "crash", "abort"}, Stop(s)  PROVE TypeInv'
<1>1. Phase(stage', line', bm', file')
  BY DEF Stop, Phase
<1>. QED
  BY <1>1 DEF TypeInv, Stop, Stages

LEMMA ReadKeeps ==
  ASSUME TypeInv, ParseLine  PROVE TypeInv'
<1>1. ASSUME Advances, BmOK(bm'), bm'.prepared = bm.prepared,
             section' \in ObjectSections \cup {"other", NoSection}
      PROVE  TypeInv'
  <2>1. /\ stage = "parse" /\ stage' = "parse" /\ line < Len(file.lines) /\ line' = line + 1
        /\ todo' = todo /\ file' = file /\ event_stack' = event_stack /\ loads' = loads
    BY <1>1 DEF Advances
  <2>2. line \in Nat /\ Len(file.lines) \in Nat /\ bm.prepared = 0
    BY <2>1 DEF TypeInv, Files, Phase
  <2>3. Phase(stage', line', bm', file')
    BY <1>1, <2>1, <2>2 DEF Phase
  <2>. QED
    BY <1>1, <2>1, <2>2, <2>3 DEF TypeInv
<1>2. section \in ObjectSections \cup {"other", NoSection} /\ BmOK(bm) /\ bm \in Beatmaps
  BY DEF TypeInv, BmOK
<1>3. CASE Skipped
  <2>1. Advances /\ bm' = bm /\ (section' = section \/ (Line.k = "section" /\ section' = Line.name))
    BY <1>3 DEF Skipped
  <2>2. Line \in Lines
    BY <2>1 DEF Advances
  <2>3. Line.k = "section" => Line.name \in ObjectSections \cup {"other"}
    BY <2>2, LineIs
  <2>. QED
    BY <1>1, <1>2, <2>1, <2>3
<1>4. CASE TpRead
  <2>1. Advances /\ section' = section /\ Line \in Lines /\ Line.k = "tp"
    BY <1>4 DEF TpRead, ObjectRead, Advances
  <2>2. BmOK(bm') /\ SameHead(bm, bm')
    BY <1>2, <1>4, <2>1, TpLine DEF TpRead
  <2>. QED
    BY <1>1, <1>2, <2>1, <2>2 DEF SameHead
<1>5. CASE HoRead
  <2>1. Advances /\ section' = section /\ Line \in Lines /\ Line.k = "ho"
    BY <1>5 DEF HoRead, ObjectRead, Advances
  <2>2. Len(bm.hos) + 1 \in Nat
    BY <1>2 DEF Beatmaps
  <2>3. BmOK(bm') /\ SameHead(bm, bm')
    BY <1>2, <1>5, <2>1, <2>2, HoLine DEF HoRead
  <2>. QED
    BY <1>1, <1>2, <2>1, <2>3 DEF SameHead
<1>6. CASE EventRead
  <2>1. Advances /\ section' = section /\ Line \in Lines /\ Line.k = "event"
    BY <1>6 DEF EventRead, ObjectRead, Advances
  <2>2. BmOK(bm') /\ SameHead(bm, bm')
    BY <1>2, <1>6, <2>1, EventLine DEF EventRead
  <2>. QED
    BY <1>1, <1>2, <2>1, <2>2 DEF SameHead
<1>7. CASE ColourRead
  <2>. DEFINE e == [combo |-> Line.combo, id |-> Line.id]
  <2>1. Advances /\ section' = section /\ Line \in Lines /\ Line.k = "colour"
        /\ bm' \in WithColour(bm, e)
    BY <1>7 DEF ColourRead, ObjectRead, Advances
  <2>2. e \in Cols
    BY <2>1, LineIs
  <2>. HIDE DEF e
  <2>3. OnlyColours(bm, bm') /\ ComboListed(bm')
    BY <1>2, <2>1, <2>2, WithColourIs DEF BmOK
  <2>4. BmOK(bm')
    BY <1>2, <2>3, ColoursOnly
  <2>. QED
    BY <1>1, <1>2, <2>1, <2>3, <2>4 DEF OnlyColours, SameHead
<1>8. CASE Ignored
  <2>1. Advances /\ section' = section /\ bm.cols # <<>>
    BY <1>8 DEF Ignored
  <2>2. PICK g \in Grown(bm) : bm' \in Listed(g, Len(g.cols))
    BY <1>8 DEF Ignored
  <2>3. OnlyColours(bm, bm') /\ ComboListed(bm')
    BY <1>2, <2>1, <2>2, IgnoredIs
  <2>4. BmOK(bm')
    BY <1>2, <2>3, ColoursOnly
  <2>. QED
    BY <1>1, <1>2, <2>1, <2>3, <2>4 DEF OnlyColours, SameHead
<1>9. CASE Stopped
  BY <1>9, StopKeeps DEF Stopped
<1>. QED
  BY <1>3, <1>4, <1>5, <1>6, <1>7, <1>8, <1>9, ParseStep

LEMMA MeIs ==
  ASSUME TypeInv, Built
  PROVE  Me \in EventPointers /\ event_stack' \in [0..MaxLevel - 1 -> EventPointers]
<1>1. Me \in EventPointers
  BY DEF Me, EventPointers, TypeInv, BmOK, Beatmaps
<1>. QED
  BY <1>1 DEF Built, TypeInv

LEMMA ParentIs ==
  ASSUME TypeInv, Built, Event.level > 0
  PROVE  Parent \in EventPointers /\ Parent = event_stack[Event.level - 1]
         /\ Event.level - 1 \in 0..MaxLevel - 1
<1>1. Event.level \in 0..MaxLevel - 1 /\ MaxLevel \in Nat
  BY BeatmapAssumption DEF Built
<1>2. Event.level - 1 \in 0..MaxLevel - 1
  BY <1>1
<1>. QED
  BY <1>2 DEF Parent, ParentLevel, TypeInv

LEMMA AdoptedIs ==
  ASSUME TypeInv, Adopted
  PROVE  /\ OtherEvents(bm, bm') /\ BmOK(bm') /\ Len(bm'.evs) = Len(bm.evs)
         /\ \A j \in 1..Len(bm.evs) :
              /\ SameEvent(bm.evs[j], bm'.evs[j])
              /\ bm'.evs[j].offset = bm.evs[j].offset /\ bm'.evs[j].end = bm.evs[j].end
              /\ bm'.evs[j].parent = IF j = line + 1 THEN Parent ELSE bm.evs[j].parent
              /\ bm'.evs[j].childs = IF j = Parent.at THEN Append(bm.evs[j].childs, Me)
                                     ELSE bm.evs[j].childs
<1>. DEFINE i == line + 1
           p == Parent
           me == Me
<1>1. /\ bm \in Beatmaps /\ BmOK(bm) /\ i \in 1..Len(bm.evs)
      /\ p \in EventPointers /\ me \in EventPointers
  BY MeIs, ParentIs DEF Adopted, Built, TypeInv, BmOK
<1>2. bm' = WithChild(bm, i, p, me)
  BY DEF Adopted, WithChild
<1>. HIDE DEF i, p, me
<1>. DEFINE b == bm
           d == bm'
<1>2a. b \in Beatmaps /\ i \in 1..Len(b.evs) /\ d = WithChild(b, i, p, me)
  BY <1>1, <1>2
<1>. HIDE DEF b, d
<1>3. /\ OtherEvents(b, d) /\ Len(d.evs) = Len(b.evs)
      /\ \A j \in 1..Len(b.evs) :
           /\ SameEvent(b.evs[j], d.evs[j])
           /\ d.evs[j].offset = b.evs[j].offset /\ d.evs[j].end = b.evs[j].end
           /\ d.evs[j].parent = IF j = i THEN p ELSE b.evs[j].parent
           /\ d.evs[j].childs = IF j = p.at THEN Append(b.evs[j].childs, me) ELSE b.evs[j].childs
  BY <1>1, <1>2a, ChildIs
<1>4. BmOK(bm')
  BY <1>1, <1>3, OtherEventsOK DEF b, d
<1>. QED
  BY <1>3, <1>4 DEF i, p, me, b, d

\* The preparation of the events.
Finishes ==
  /\ stage = "tree" /\ line = Len(bm.evs) /\ stage' = "loaded"
  /\ BmOK(bm') /\ Ready(bm') /\ bm'.evs = PreparedEvents(bm) /\ bm'.prepared = bm.prepared + 1
  /\ bm'.load = bm.load /\ bm'.mode = bm.mode /\ bm'.orig = bm.orig
  /\ bm'.hos = bm.hos /\ bm'.tps = bm.tps /\ bm'.owned = bm.owned /\ SameColours(bm, bm')
  /\ UNCHANGED <<todo, file, line, section, event_stack, loads>>

LEMMA FinishStep == ASSUME TypeInv, PrepareEvents  PROVE Finishes
<1>1. BmOK(bm) /\ Ready(bm)
  BY DEF TypeInv, Phase, PrepareEvents
<1>2. bm' = [bm EXCEPT !.evs = PreparedEvents(bm), !.prepared = @ + 1]
  BY DEF PrepareEvents
<1>3. /\ BmOK(bm') /\ Ready(bm') /\ bm'.evs = PreparedEvents(bm) /\ bm'.prepared = bm.prepared + 1
      /\ bm'.load = bm.load /\ bm'.mode = bm.mode /\ bm'.orig = bm.orig
      /\ bm'.hos = bm.hos /\ bm'.tps = bm.tps /\ bm'.owned = bm.owned /\ SameColours(bm, bm')
  BY <1>1, <1>2, EventsPrepared
<1>. QED
  BY <1>3 DEF Finishes, PrepareEvents

LEMMA TypeStep == ASSUME TypeInv, [Next]_vars  PROVE TypeInv'
<1>0. /\ todo \in Seq(Files) /\ file \in Files /\ stage \in Stages /\ line \in Nat
      /\ section \in ObjectSections \cup {"other", NoSection}
      /\ event_stack \in [0..MaxLevel - 1 -> EventPointers] /\ loads \in Nat
      /\ BmOK(bm) /\ Phase(stage, line, bm, file) /\ bm \in Beatmaps
  BY DEF TypeInv, BmOK
<1>1. CASE Open
  <2>1. BmOK(bm')
    BY <1>1, OpenIs, EmptyOK
  <2>2. stage' \in {"fail", "parse"}
    BY <1>1, OpenIs
  <2>2a. stage' \in Stages
    BY <2>2 DEF Stages
  <2>3. line' = 0 /\ file' \in Files /\ bm'.prepared = 0
    BY <1>1, OpenIs
  <2>4. Len(file'.lines) \in Nat
    BY <2>3 DEF Files
  <2>5. Phase(stage', line', bm', file')
    BY <2>2, <2>3, <2>4 DEF Phase
  <2>6. loads' \in Nat /\ todo' \in Seq(Files) /\ section' = NoSection /\ event_stack' = event_stack
    BY <1>0, <1>1, OpenIs
  <2>. QED
    BY <1>0, <2>1, <2>2a, <2>3, <2>5, <2>6 DEF TypeInv
<1>2. CASE ParseLine
  BY <1>2, ReadKeeps
<1>3. CASE Prepare
  <2>1. CASE NoPoint
    BY <2>1, StopKeeps DEF NoPoint
  <2>2. CASE \E c : Prepares(c)
    <3>1. PICK c : Prepares(c)
      BY <2>2
    <3>2. BmOK(c) /\ Ready(c) /\ bm' = PreparedHos(c) /\ SameHead(bm, c)
      BY <3>1 DEF Prepares, Coloured
    <3>3. BmOK(bm') /\ Ready(bm') /\ SameHead(c, bm')
      BY <3>2, HosPrepared
    <3>4. bm'.prepared = bm.prepared /\ bm'.mode = bm.mode
      BY <3>2, <3>3 DEF SameHead
    <3>5. stage \in {"parse", "again"} /\ stage' = "tree" /\ line' = 0
          /\ UNCHANGED <<todo, file, section, event_stack, loads>>
      BY <3>1 DEF Prepares
    <3>6. Len(bm'.evs) \in Nat
      BY <3>3 DEF BmOK, Beatmaps
    <3>7. Phase(stage', line', bm', file')
      BY <1>0, <3>3, <3>4, <3>5, <3>6 DEF Phase
    <3>8. "tree" \in Stages
      BY DEF Stages
    <3>. QED
      BY <1>0, <3>3, <3>5, <3>7, <3>8 DEF TypeInv
  <2>. QED
    BY <1>3, <2>1, <2>2, PrepareStep
<1>4. CASE BuildTree
  <2>1. CASE TooDeep
    <3>1. CASE bm.prepared = 0
      <4>1. Stop("fail")
        BY <2>1, <3>1 DEF TooDeep
      <4>. QED
        BY <4>1, StopKeeps
    <3>2. CASE bm.prepared # 0
      <4>1. stage = "tree" /\ Stop("loaded")
        BY <2>1, <3>2 DEF TooDeep
      <4>2. Phase(stage', line', bm', file')
        BY <1>0, <3>2, <4>1 DEF Stop, Phase
      <4>3. "loaded" \in Stages
        BY DEF Stages
      <4>. QED
        BY <1>0, <4>1, <4>2, <4>3 DEF Stop, TypeInv
    <3>. QED
      BY <3>1, <3>2
  <2>2. ASSUME Built, BmOK(bm'), Len(bm'.evs) = Len(bm.evs), Ready(bm) => Ready(bm'),
               bm'.prepared = bm.prepared, bm'.mode = bm.mode,
               stage' \in {"tree", "abort", "crash"}
        PROVE  TypeInv'
    <3>1. event_stack' \in [0..MaxLevel - 1 -> EventPointers]
      BY <2>2, MeIs
    <3>2. stage = "tree" /\ line' = line + 1 /\ line + 1 \in 1..Len(bm.evs)
          /\ UNCHANGED <<todo, file, section, loads>>
      BY <2>2 DEF Built
    <3>3. line' \in Nat /\ line' <= Len(bm'.evs)
      BY <1>0, <2>2, <3>2 DEF Beatmaps
    <3>4. stage' \in Stages
      BY <2>2 DEF Stages
    <3>5. Phase(stage', line', bm', file')
      BY <1>0, <2>2, <3>2, <3>3 DEF Phase
    <3>. QED
      BY <1>0, <2>2, <3>1, <3>2, <3>3, <3>4, <3>5 DEF TypeInv
  <2>3. CASE Rooted
    BY <1>0, <2>2, <2>3 DEF Rooted, Built
  <2>4. CASE Orphan
    BY <1>0, <2>2, <2>4 DEF Orphan, Built
  <2>5. CASE Adopted
    <3>1. OtherEvents(bm, bm') /\ BmOK(bm') /\ Len(bm'.evs) = Len(bm.evs)
      BY <2>5, AdoptedIs
    <3>2. Ready(bm) => Ready(bm')
      BY <1>0, <3>1, OtherEventsOK
    <3>3. Built /\ stage' = "tree"
      BY <2>5 DEF Adopted, Built
    <3>. QED
      BY <2>2, <3>1, <3>2, <3>3 DEF OtherEvents, SameHead
  <2>. QED
    BY <1>4, <2>1, <2>3, <2>4, <2>5, BuildStep
<1>5. CASE PrepareEvents
  <2>1. Finishes
    BY <1>5, FinishStep
  <2>2. Phase(stage', line', bm', file') /\ stage' \in Stages
    BY <1>0, <2>1 DEF Finishes, Phase, Stages
  <2>. QED
    BY <1>0, <2>1, <2>2 DEF Finishes, TypeInv
<1>6. CASE Autoconvert
  <2>1. Converts
    BY <1>6, ConvertStep
  <2>2. bm.prepared = 1
    BY <1>0, <2>1 DEF Converts, Phase
  <2>3. Phase(stage', line', bm', file') /\ stage' \in Stages
    BY <2>1, <2>2 DEF Converts, Phase, Stages
  <2>. QED
    BY <1>0, <2>1, <2>3 DEF Converts, TypeInv
<1>7. CASE Free
  <2>1. CASE FreeDone
    <3>1. BmOK(bm')
      BY <2>1, EmptyOK DEF FreeDone
    <3>2. Phase(stage', line', bm', file') /\ stage' \in Stages
      BY <2>1 DEF FreeDone, Phase, Stages
    <3>. QED
      BY <1>0, <2>1, <3>1, <3>2 DEF FreeDone, TypeInv
  <2>2. CASE stage \in {"loaded", "fail"} /\ BadPointer(bm) /\ Stop("crash")
    BY <2>2, StopKeeps
  <2>. QED
    BY <1>7, <2>1, <2>2, FreeStep
<1>8. CASE UNCHANGED vars
  <2>1. /\ todo' = todo /\ file' = file /\ stage' = stage /\ line' = line /\ section' = section
        /\ bm' = bm /\ event_stack' = event_stack /\ loads' = loads
    BY <1>8 DEF vars
  <2>. QED
    BY <1>0, <2>1 DEF TypeInv
<1>. QED
  BY <1>1, <1>2, <1>3, <1>4, <1>5, <1>6, <1>7, <1>8 DEF Next

-----------------------------------------------------------------------------
(***************************************************************************)
(* What is allocated.                                                      *)
(***************************************************************************)
NoHolds(f) == \A l \in ToSet(LinesOf(f, "ho")) : l.type # "hold"

\* What is owned is an object's, and no object is a hold.
Owning(b) ==
  /\ \A r \in b.owned : r # NoRes /\ \E i \in 1..Len(b.hos) : b.hos[i].res = r
  /\ \A i \in 1..Len(b.hos) : b.hos[i].type # "hold"

OwnInv ==
  NoHolds(file) =>
    /\ stage = "idle" => bm.owned = {}
    /\ stage \in {"parse", "tree", "again", "loaded", "fail"} => Owning(bm)

\* A line is among those of its kind.
LEMMA LineKept ==
  ASSUME NEW f \in Files, NEW i \in 1..Len(f.lines)
  PROVE  f.lines[i] \in ToSet(LinesOf(f, f.lines[i].k))
<1>. DEFINE s == f.lines
           k == s[i].k
           T == {j \in DOMAIN s : s[j].k = k}
           w == Kept(s, T)
<1>1. s \in Seq(Lines)
  BY DEF Files
<1>2. i \in T /\ i \in 1..Len(s)
  BY <1>1
<1>. HIDE DEF T
<1>3. w \in Seq(Lines) /\ \E pos : KeptAt(pos, w, s, T, Len(s))
  BY <1>1, KeptIs
<1>4. w = LinesOf(f, k)
  BY DEF LinesOf, T
<1>. HIDE DEF w, s, k
<1>5. PICK pos : KeptAt(pos, w, s, T, Len(s))
  BY <1>3
<1>6. PICK j \in 1..Len(w) : pos[j] = i
  BY <1>2, <1>5 DEF KeptAt
<1>7. w[j] = s[i]
  BY <1>5, <1>6 DEF KeptAt
<1>8. s[i] \in ToSet(w)
  BY <1>3, <1>6, <1>7 DEF ToSet
<1>. QED
  BY <1>4, <1>8 DEF s, k

LEMMA OwningSame ==
  ASSUME NEW b, NEW c, Owning(b), c.hos = b.hos, c.owned = b.owned  PROVE Owning(c)
  BY DEF Owning

LEMMA OwningHo ==
  ASSUME NEW b, BmOK(b), Owning(b), NEW e, e.type # "hold", e.res = Len(b.hos) + 1,
         NEW c, c.hos = Append(b.hos, e), c.owned = b.owned \cup {Len(b.hos) + 1}
  PROVE  Owning(c)
<1>. DEFINE N == Len(b.hos)
           s == b.hos
           t == Append(s, e)
<1>1. N \in Nat /\ s \in Seq(Hos) /\ N = Len(s)
  BY DEF BmOK, Beatmaps
<1>. HIDE DEF s, N
<1>2. Len(t) = N + 1 /\ t[N + 1] = e /\ \A i \in 1..N : t[i] = s[i]
  BY <1>1
<1>. HIDE DEF t
<1>3. c.hos = t /\ c.owned = b.owned \cup {N + 1} /\ e.res = N + 1 /\ s = b.hos
  BY DEF t, s, N
<1>4. ASSUME NEW r \in c.owned  PROVE r # NoRes /\ \E i \in 1..N + 1 : t[i].res = r
  <2>1. CASE r = N + 1
    BY <1>1, <1>2, <1>3, <2>1 DEF NoRes
  <2>2. CASE r \in b.owned
    <3>1. r # NoRes
      BY <2>2 DEF Owning
    <3>2. PICK i \in 1..N : s[i].res = r
      BY <1>1, <1>3, <2>2 DEF Owning
    <3>3. i \in 1..N + 1 /\ t[i].res = r
      BY <1>1, <1>2, <3>2
    <3>. QED
      BY <3>1, <3>3
  <2>. QED
    BY <1>3, <2>1, <2>2
<1>5. ASSUME NEW i \in 1..N + 1  PROVE t[i].type # "hold"
  <2>1. CASE i = N + 1
    BY <1>2, <2>1
  <2>2. CASE i \in 1..N
    BY <1>1, <1>2, <1>3, <2>2 DEF Owning
  <2>. QED
    BY <1>1, <2>1, <2>2
<1>. QED
  BY <1>2, <1>3, <1>4, <1>5 DEF Owning

LEMMA OwningPrepared ==
  ASSUME NEW b, NEW c, Owning(b), c.owned = b.owned, Len(c.hos) = Len(b.hos),
         \A i \in 1..Len(b.hos) : SameObject(b.hos[i], c.hos[i])
  PROVE  Owning(c)
  BY DEF Owning, SameObject

\* A slider that was not freed, and all that is no slider, is kept.
LEMMA OwningConverted ==
  ASSUME NEW b, BmOK(b), Ready(b), Owning(b), NEW c,
         c.hos = ConvertedHos(b), c.owned = b.owned \ Freed(b)
  PROVE  Owning(c)
<1>. DEFINE N == Len(b.hos)
           w == ConvertedHos(b)
           ss == Pieces(b)
<1>1. b \in Beatmaps /\ Based(b.tps) /\ Repeats(b.hos) /\ (b.hos # <<>> => b.tps # <<>>)
  BY DEF BmOK, Ready
<1>2. /\ w \in Seq(Hos) /\ \E at, of : Gathered(at, of, w, ss, N)
  BY <1>1, ConvertedHosAre
<1>3. \A i \in 1..N : PieceIs(b, i, ss[i])
  BY <1>1, PiecesAre
<1>. HIDE DEF w, ss
<1>4. PICK at, of : Gathered(at, of, w, ss, N)
  BY <1>2
<1>5. ASSUME NEW r \in b.owned, r \notin Freed(b)
      PROVE  r # NoRes /\ \E k \in 1..Len(w) : w[k].res = r
  <2>1. PICK i \in 1..N : b.hos[i].res = r
    BY DEF Owning
  <2>2. i \notin Replaced(b, TpOf(b))
    BY <1>5, <2>1 DEF Freed
  <2>3. ~TooShort(b, b.hos[i], b.tps[TpOf(b)[i]]) /\ b.hos[i].type # "hold"
    <3>1. i \in DOMAIN b.hos
      BY <1>1 DEF Beatmaps
    <3>. QED
      BY <2>2, <3>1 DEF Replaced, Owning
  <2>4. ss[i] = <<b.hos[i]>>
    BY <1>3, <2>3 DEF PieceIs
  <2>5. 1 \in 1..Len(ss[i]) /\ ss[i][1] = b.hos[i]
    BY <2>4
  <2>6. PICK k \in 1..Len(w) : at[k] = i /\ of[k] = 1
    BY <1>4, <2>5 DEF Gathered
  <2>7. w[k] = ss[i][1]
    BY <1>4, <2>6 DEF Gathered
  <2>. QED
    BY <2>1, <2>5, <2>6, <2>7 DEF Owning
<1>6. ASSUME NEW k \in 1..Len(w)  PROVE w[k].type # "hold"
  <2>. DEFINE i == at[k]
             tp == b.tps[TpOf(b)[i]]
             ho == b.hos[i]
             d == Duration(b, ho, tp)
             short == TooShort(b, ho, tp)
  <2>1. i \in 1..N /\ of[k] \in 1..Len(ss[i]) /\ w[k] = ss[i][of[k]]
    BY <1>4 DEF Gathered
  <2>2. ho.type # "hold"
    BY <2>1 DEF Owning
  <2>3. (short => Circles(ho, d, ss[i])) /\ (~short => ss[i] = <<ho>>)
    BY <1>3, <2>1, <2>2 DEF PieceIs
  <2>. HIDE DEF i, tp, ho, d, short
  <2>4. CASE short
    BY <2>1, <2>3, <2>4 DEF Circles
  <2>5. CASE ~short
    <3>1. w[k] = ho
      BY <2>1, <2>3, <2>5
    <3>. QED
      BY <2>2, <3>1
  <2>. QED
    BY <2>4, <2>5
<1>. QED
  BY <1>5, <1>6 DEF Owning, w

LEMMA OwnInit == ASSUME Init  PROVE OwnInv
  BY DEF Init, OwnInv, Zero

LEMMA OwnStep == ASSUME TypeInv, OwnInv, [Next]_vars  PROVE OwnInv'
<1>. SUFFICES ASSUME NoHolds(file')
              PROVE  /\ stage' = "idle" => bm'.owned = {}
                     /\ stage' \in {"parse", "tree", "again", "loaded", "fail"} => Owning(bm')
  BY DEF OwnInv
<1>0. BmOK(bm) /\ bm \in Beatmaps /\ file \in Files
  BY DEF TypeInv, BmOK
<1>1. CASE Open
  <2>1. bm'.owned = {} /\ bm'.hos = <<>> /\ stage' \in {"fail", "parse"}
    BY <1>1, OpenIs
  <2>. QED
    BY <2>1 DEF Owning
<1>a. ASSUME file' = file, NEW s \in {"parse", "tree", "again", "loaded", "fail"}, stage = s
      PROVE  Owning(bm)
  BY <1>a DEF OwnInv
<1>2. CASE ParseLine
  <2>0. stage = "parse" /\ file' = file /\ stage' \in {"parse", "fail", "crash"}
    BY <1>2, ParseStep DEF Skipped, TpRead, HoRead, EventRead, ColourRead, Ignored, Stopped,
         ObjectRead, Advances, Stop, Misplaced
  <2>1. Owning(bm)
    BY <1>a, <2>0
  <2>2. CASE Skipped
    BY <2>0, <2>1, <2>2 DEF Skipped
  <2>3. CASE TpRead
    <3>1. Line \in Lines /\ Line.k = "tp"
      BY <2>3 DEF TpRead, ObjectRead, Advances
    <3>2. bm'.hos = bm.hos /\ bm'.owned = bm.owned
      BY <1>0, <2>3, <3>1, TpLine DEF TpRead
    <3>. QED
      BY <2>0, <2>1, <3>2, OwningSame
  <2>4. CASE HoRead
    <3>. DEFINE n == Len(bm.hos) + 1
               e == NewHo(Line, n)
    <3>1. Line \in Lines /\ Line.k = "ho" /\ line < Len(file.lines)
      BY <2>4 DEF HoRead, ObjectRead, Advances
    <3>2. n \in Nat
      BY <1>0 DEF Beatmaps
    <3>3. bm'.hos = Append(bm.hos, e) /\ bm'.owned = bm.owned \cup {n}
      BY <2>4, HoReadIs
    <3>4. Line \in ToSet(LinesOf(file, "ho"))
      <4>1. line + 1 \in 1..Len(file.lines)
        BY <3>1 DEF TypeInv, Files
      <4>. QED
        BY <1>0, <3>1, <4>1, LineKept DEF Line
    <3>5. Line.type # "hold"
      BY <2>0, <3>4 DEF NoHolds
    <3>6. e.type # "hold" /\ e.res = n
      BY <3>5 DEF NewHo
    <3>. HIDE DEF e
    <3>7. Owning(bm')
      BY <1>0, <2>1, <3>3, <3>6, OwningHo
    <3>. QED
      BY <2>0, <3>7
  <2>5. CASE EventRead
    <3>1. Line \in Lines /\ Line.k = "event"
      BY <2>5 DEF EventRead, ObjectRead, Advances
    <3>2. bm'.hos = bm.hos /\ bm'.owned = bm.owned
      BY <1>0, <2>5, <3>1, EventLine DEF EventRead
    <3>. QED
      BY <2>0, <2>1, <3>2, OwningSame
  <2>6. CASE ColourRead
    <3>. DEFINE e == [combo |-> Line.combo, id |-> Line.id]
    <3>1. Line \in Lines /\ Line.k = "colour" /\ bm' \in WithColour(bm, e)
      BY <2>6 DEF ColourRead, ObjectRead, Advances
    <3>2. e \in Cols
      BY <3>1, LineIs
    <3>. HIDE DEF e
    <3>3. OnlyColours(bm, bm')
      BY <1>0, <3>1, <3>2, WithColourIs DEF BmOK
    <3>. QED
      BY <2>0, <2>1, <3>3, OwningSame DEF OnlyColours, SameObjects
  <2>7. CASE Ignored
    <3>1. bm.cols # <<>>
      BY <2>7 DEF Ignored
    <3>2. PICK g \in Grown(bm) : bm' \in Listed(g, Len(g.cols))
      BY <2>7 DEF Ignored
    <3>3. OnlyColours(bm, bm')
      BY <1>0, <3>1, <3>2, IgnoredIs
    <3>. QED
      BY <2>0, <2>1, <3>3, OwningSame DEF OnlyColours, SameObjects
  <2>8. CASE Stopped
    BY <2>0, <2>1, <2>8 DEF Stopped, Stop
  <2>. QED
    BY <1>2, <2>2, <2>3, <2>4, <2>5, <2>6, <2>7, <2>8, ParseStep
<1>3. CASE Prepare
  <2>1. CASE NoPoint
    BY <2>1 DEF NoPoint, Stop
  <2>2. CASE \E c : Prepares(c)
    <3>1. PICK c : Prepares(c)
      BY <2>2
    <3>2. /\ BmOK(c) /\ Ready(c) /\ bm' = PreparedHos(c) /\ c.hos = bm.hos /\ c.owned = bm.owned
          /\ stage \in {"parse", "again"} /\ stage' = "tree" /\ file' = file
      BY <3>1 DEF Prepares, Coloured
    <3>3. /\ bm'.owned = c.owned /\ Len(bm'.hos) = Len(c.hos)
          /\ \A i \in 1..Len(c.hos) : SameObject(c.hos[i], bm'.hos[i])
      BY <3>2, HosPrepared
    <3>4. Owning(bm)
      BY <1>a, <3>2
    <3>5. Owning(bm')
      BY <3>2, <3>3, <3>4, OwningPrepared
    <3>. QED
      BY <3>2, <3>5
  <2>. QED
    BY <1>3, <2>1, <2>2, PrepareStep
<1>4. CASE BuildTree
  <2>0. stage = "tree" /\ file' = file /\ stage' # "idle"
    BY <1>4, BuildStep DEF TooDeep, Rooted, Orphan, Adopted, Built, Stop
  <2>1. bm'.hos = bm.hos /\ bm'.owned = bm.owned
    <3>1. CASE Adopted
      BY <3>1, AdoptedIs DEF OtherEvents
    <3>2. CASE ~Adopted
      BY <1>4, <3>2, BuildStep DEF TooDeep, Rooted, Orphan, Stop
    <3>. QED
      BY <3>1, <3>2
  <2>2. Owning(bm)
    BY <1>a, <2>0
  <2>. QED
    BY <2>0, <2>1, <2>2, OwningSame
<1>5. CASE PrepareEvents
  <2>1. stage = "tree" /\ stage' = "loaded" /\ file' = file /\ bm'.hos = bm.hos /\ bm'.owned = bm.owned
    BY <1>5, FinishStep DEF Finishes
  <2>2. Owning(bm)
    BY <1>a, <2>1
  <2>. QED
    BY <2>1, <2>2, OwningSame
<1>6. CASE Autoconvert
  <2>1. /\ stage = "loaded" /\ stage' = "again" /\ file' = file
        /\ bm'.hos = ConvertedHos(bm) /\ bm'.owned = bm.owned \ Freed(bm)
    BY <1>6, ConvertStep DEF Converts
  <2>2. Owning(bm)
    BY <1>a, <2>1
  <2>3. Ready(bm)
    BY <2>1 DEF TypeInv, Phase
  <2>4. Owning(bm')
    BY <1>0, <2>1, <2>2, <2>3, OwningConverted
  <2>. QED
    BY <2>1, <2>4
<1>7. CASE Free
  <2>1. CASE FreeDone
    <3>1. stage \in {"loaded", "fail"} /\ stage' = "idle" /\ file' = file /\ bm'.owned = bm.owned \ Held(bm)
      BY <2>1 DEF FreeDone
    <3>2. Owning(bm)
      BY <1>a, <3>1
    <3>3. bm.owned \subseteq Held(bm)
      <4>1. DOMAIN bm.hos = 1..Len(bm.hos)
        BY <1>0 DEF Beatmaps
      <4>. QED
        BY <3>2, <4>1 DEF Owning, Held, ToSet
    <3>. QED
      BY <3>1, <3>3
  <2>2. CASE Stop("crash")
    BY <2>2 DEF Stop
  <2>. QED
    BY <1>7, <2>1, <2>2, FreeStep
<1>8. CASE UNCHANGED vars
  <2>1. stage' = stage /\ bm' = bm /\ file' = file
    BY <1>8 DEF vars
  <2>. QED
    BY <2>1 DEF OwnInv
<1>. QED
  BY <1>1, <1>2, <1>3, <1>4, <1>5, <1>6, <1>7, <1>8 DEF Next

\* A beatmap that was freed has left nothing of its objects allocated, whatever its
\* file was, if it had no hold.
THEOREM NothingEverLeft == Spec => []NothingLeft
<1>1. Init => TypeInv /\ OwnInv
  BY TypeInit, OwnInit
<1>2. TypeInv /\ OwnInv /\ [Next]_vars => (TypeInv /\ OwnInv)'
  BY TypeStep, OwnStep
<1>3. TypeInv /\ OwnInv => NothingLeft
  BY DEF OwnInv, NothingLeft, NoHolds
<1>. QED
  BY <1>1, <1>2, <1>3, PTL DEF Spec

-----------------------------------------------------------------------------
(***************************************************************************)
(* Sections, and the lines of a well-formed file.                          *)
(***************************************************************************)
SecInv == stage = "parse" => section = SectionAt(file, line)

LEMMA SectionAtIs ==
  ASSUME NEW f
  PROVE  /\ SectionAt(f, 0) = NoSection
         /\ \A i \in Nat : SectionAt(f, i + 1) = IF f.lines[i + 1].k = "section"
                                                THEN f.lines[i + 1].name ELSE SectionAt(f, i)
<1>. DEFINE B(i) == {j \in 1..i : f.lines[j].k = "section"}
<1>1. B(0) = {}
  OBVIOUS
<1>2. SectionAt(f, 0) = NoSection
  BY <1>1 DEF SectionAt
<1>3. ASSUME NEW i \in Nat
      PROVE  SectionAt(f, i + 1) = IF f.lines[i + 1].k = "section"
                                   THEN f.lines[i + 1].name ELSE SectionAt(f, i)
  <2>1. CASE f.lines[i + 1].k = "section"
    <3>. DEFINE S == B(i + 1)
    <3>1. i + 1 \in S /\ S \in SUBSET (1..i + 1)
      BY <2>1
    <3>. DEFINE n == i + 1
    <3>2. n \in S /\ S # {} /\ n \in Int
      BY <3>1
    <3>. HIDE DEF S, n
    <3>6. \A m \in Int : S \in SUBSET (m..n) => Max(S) \in m..n /\ \A x \in S : x <= Max(S)
      BY <3>2, IntervalMax
    <3>3. Max(S) \in 1..i + 1 /\ i + 1 <= Max(S)
      BY <3>1, <3>2, <3>6 DEF n
    <3>4. Max(S) = i + 1
      BY <3>3
    <3>5. SectionAt(f, i + 1) = IF S = {} THEN NoSection ELSE f.lines[Max(S)].name
      BY DEF SectionAt, S
    <3>. QED
      BY <2>1, <3>2, <3>4, <3>5
  <2>2. CASE f.lines[i + 1].k # "section"
    <3>1. B(i + 1) = B(i)
      BY <2>2
    <3>2. SectionAt(f, i + 1) = SectionAt(f, i)
      BY <3>1 DEF SectionAt
    <3>. QED
      BY <2>2, <3>2
  <2>. QED
    BY <2>1, <2>2
<1>. QED
  BY <1>2, <1>3

LEMMA SecInit == ASSUME Init  PROVE SecInv
  BY DEF Init, SecInv

LEMMA SecStep == ASSUME TypeInv, SecInv, [Next]_vars  PROVE SecInv'
<1>. SUFFICES ASSUME stage' = "parse"  PROVE section' = SectionAt(file', line')
  BY DEF SecInv
<1>1. CASE Open
  BY <1>1, OpenIs, SectionAtIs
<1>2. CASE ParseLine
  <2>0. ASSUME Advances, Line.k = "section" => section' = Line.name,
               Line.k # "section" => section' = section
        PROVE  section' = SectionAt(file', line')
    <3>1. line \in Nat /\ line' = line + 1 /\ file' = file /\ section = SectionAt(file, line)
      BY <2>0 DEF Advances, SecInv, TypeInv
    <3>2. SectionAt(file, line + 1) = IF Line.k = "section" THEN Line.name ELSE SectionAt(file, line)
      BY <3>1, SectionAtIs DEF Line
    <3>. QED
      BY <2>0, <3>1, <3>2
  <2>1. CASE Skipped
    BY <2>0, <2>1 DEF Skipped
  <2>2. CASE TpRead
    BY <2>0, <2>2 DEF TpRead, ObjectRead
  <2>3. CASE HoRead
    BY <2>0, <2>3 DEF HoRead, ObjectRead
  <2>4. CASE EventRead
    BY <2>0, <2>4 DEF EventRead, ObjectRead
  <2>5. CASE ColourRead
    BY <2>0, <2>5 DEF ColourRead, ObjectRead
  <2>6. CASE Ignored
    BY <2>0, <2>6 DEF Ignored, Misplaced
  <2>7. CASE Stopped
    BY <2>7 DEF Stopped, Stop
  <2>. QED
    BY <1>2, <2>1, <2>2, <2>3, <2>4, <2>5, <2>6, <2>7, ParseStep
<1>3. CASE Prepare
  <2>1. stage' \in {"crash", "tree"}
    BY <1>3, PrepareStep DEF NoPoint, Prepares, Stop
  <2>. QED
    BY <2>1
<1>4. CASE BuildTree
  <2>1. stage' # "parse"
    BY <1>4, BuildStep DEF TooDeep, Rooted, Orphan, Adopted, Built, Stop
  <2>. QED
    BY <2>1
<1>5. CASE PrepareEvents
  BY <1>5, FinishStep DEF Finishes
<1>6. CASE Autoconvert
  BY <1>6, ConvertStep DEF Converts
<1>7. CASE Free
  BY <1>7, FreeStep DEF FreeDone, Stop
<1>8. CASE UNCHANGED vars
  BY <1>8 DEF vars, SecInv
<1>. QED
  BY <1>1, <1>2, <1>3, <1>4, <1>5, <1>6, <1>7, <1>8 DEF Next

\* No line of a well-formed file is out of place.
Passed == Skipped /\ Line.k \in {"blank", "section", "option"}

LEMMA WellFormedStep ==
  ASSUME TypeInv, SecInv, ParseLine, WellFormed(file)
  PROVE  Passed \/ TpRead \/ HoRead \/ EventRead \/ ColourRead
<1>. DEFINE i == line + 1
<1>0. stage = "parse" /\ line < Len(file.lines)
  BY ParseStep DEF Skipped, TpRead, HoRead, EventRead, ColourRead, Ignored, Stopped,
     ObjectRead, Advances, Misplaced
<1>1. i \in DOMAIN file.lines /\ line \in Nat
  BY <1>0 DEF TypeInv, Files
<1>2. /\ CASE Line.k \in DOMAIN SectionOf -> SectionAt(file, i) = SectionOf[Line.k]
           [] Line.k = "option" -> SectionAt(file, i) \notin ObjectSections \cup {NoSection}
           [] OTHER -> Line.k \in {"blank", "section"}
  BY <1>1 DEF WellFormed, Line
<1>3. Line.k # "section" => SectionAt(file, i) = section
  BY <1>0, <1>1, SectionAtIs DEF SecInv, Line
<1>. DEFINE kinds == {"tp", "ho", "event", "colour"}
<1>4. /\ Line.k \in kinds => SectionAt(file, i) = SectionOf[Line.k]
      /\ Line.k = "option" => SectionAt(file, i) \notin ObjectSections \cup {NoSection}
      /\ Line.k \in kinds \cup {"option", "blank", "section"}
  <2>1. CASE Line.k \in kinds
    BY <1>2, <2>1, SectionFacts
  <2>2. CASE Line.k = "option"
    BY <1>2, <2>2, SectionFacts
  <2>3. CASE Line.k \notin kinds \cup {"option"}
    BY <1>2, <2>3, SectionFacts
  <2>. QED
    BY <2>1, <2>2, <2>3
<1>5. Line.k \in kinds => SectionOf[Line.k] \in ObjectSections /\ Belongs(Line)
  BY <1>3, <1>4, SectionFacts DEF Belongs
<1>6. ~Misplaced
  <2>1. CASE Line.k \in kinds
    BY <1>5, <2>1 DEF Misplaced
  <2>2. CASE Line.k = "option"
    BY <1>3, <1>4, <2>2 DEF Misplaced
  <2>3. CASE Line.k \in {"blank", "section"}
    BY <2>3 DEF Misplaced
  <2>. QED
    BY <1>4, <2>1, <2>2, <2>3
<1>7. Line.k # "unreadable"
  BY <1>4
<1>8. ASSUME Skipped  PROVE Line.k \in {"blank", "section", "option"}
  <2>1. CASE Line.k \in kinds
    <3>1. section \notin ObjectSections
      BY <1>8, <2>1 DEF Skipped
    <3>2. SectionAt(file, i) = section /\ SectionAt(file, i) = SectionOf[Line.k]
      BY <1>3, <1>4, <2>1
    <3>. QED
      BY <1>5, <2>1, <3>1, <3>2
  <2>. QED
    BY <1>4, <2>1
<1>. QED
  BY <1>6, <1>7, <1>8, ParseStep DEF Passed, Ignored, Stopped

-----------------------------------------------------------------------------
(***************************************************************************)
(* The combo colours.                                                      *)
(***************************************************************************)
\* combo_colours has the combo colours among the first n of the array, each once and
\* in the order of their numbers, if the array never moved.
ListIs(list, cols, n) ==
  /\ \A k \in 1..Len(list) : list[k].block = 1 /\ list[k].at \in 1..n /\ cols[list[k].at].combo
  /\ \A i \in 1..n : cols[i].combo => \E k \in 1..Len(list) : list[k].at = i
  /\ \A j, k \in 1..Len(list) : j < k =>
       list[j].at # list[k].at /\ cols[list[j].at].id <= cols[list[k].at].id
ColoursUpTo(b, n) == b.block = 1 => ListIs(b.combo_colours, b.cols, n)
ColoursOK(b) == ColoursUpTo(b, Len(b.cols))

\* Where the i-th colour is put.
LEMMA PlaceIs ==
  ASSUME NEW b \in Beatmaps, NEW i \in 1..Len(b.cols), NEW k \in Places(b, i),
         \A j \in 1..Len(b.combo_colours) : /\ b.combo_colours[j].block = b.block
                                            /\ b.combo_colours[j].at \in 1..Len(b.cols)
  PROVE  \A j \in 1..Len(b.combo_colours) :
           LET id == b.cols[b.combo_colours[j].at].id
           IN  (j < k => id <= b.cols[i].id) /\ (j = k => b.cols[i].id <= id)
<1>. DEFINE list == b.combo_colours
           n == Len(list)
           id(j) == b.cols[list[j].at].id
           me == b.cols[i].id
           free == {j \in 1..n + 1 : j = n + 1 \/ id(j) >= me}
<1>1. n \in Nat /\ list \in Seq(ColourPointers) /\ b.cols \in Seq(Cols)
  BY DEF Beatmaps
<1>2. me \in Int /\ \A j \in 1..n : id(j) \in Int
  <2>1. \A m \in 1..Len(b.cols) : b.cols[m] \in Cols
    BY <1>1
  <2>2. \A m \in 1..Len(b.cols) : b.cols[m].id \in Int
    BY <2>1 DEF Cols
  <2>. QED
    BY <2>2
<1>3. ~(\E p \in ToSet(list) : p.block # b.block)
  BY <1>1 DEF ToSet
<1>4. k = Min(free)
  BY <1>3 DEF Places
<1>. HIDE DEF n
<1>5. free \in SUBSET Int /\ n + 1 \in free /\ free \subseteq 1..n + 1 /\ n + 1 \in Int
  BY <1>1
<1>6. \A j \in 1..n : j \in free <=> id(j) >= me
  BY <1>1
<1>. HIDE DEF free, id, me
<1>7. IsFiniteSet(free)
  <2>1. IsFiniteSet(1..n + 1)
    BY <1>5, FS_Interval
  <2>. QED
    BY <1>5, <2>1, FS_Subset
<1>8. k \in free /\ \A j \in free : k <= j
  BY <1>4, <1>5, <1>7, MinIs
<1>9. ASSUME NEW j \in 1..n  PROVE (j < k => id(j) <= me) /\ (j = k => me <= id(j))
  <2>1. j < k => j \notin free
    BY <1>1, <1>5, <1>8
  <2>. QED
    BY <1>2, <1>6, <1>8, <2>1
<1>. QED
  BY <1>9 DEF n, id, me

LEMMA InsertOK ==
  ASSUME NEW b \in Beatmaps, NEW n, n = Len(b.cols), n # 0, ColoursUpTo(b, n - 1), b.block = 1,
         NEW k \in Places(b, n), b.cols[n].combo,
         NEW c, c.cols = b.cols,
         c.combo_colours = InsertAt(b.combo_colours, k, [block |-> b.block, at |-> n])
  PROVE  ColoursOK(c)
<1>. DEFINE list == b.combo_colours
           cols == b.cols
           p == [block |-> b.block, at |-> n]
           w == InsertAt(list, k, p)
           L == Len(list)
           id(q) == cols[q.at].id
<1>0. n \in Nat /\ n - 1 \in 0..n /\ n \in 1..n /\ cols \in Seq(Cols) /\ n = Len(cols)
  BY DEF Beatmaps
<1>1a. list \in Seq(ColourPointers) /\ p \in ColourPointers
  BY <1>0 DEF Beatmaps, ColourPointers
<1>1b. k \in 1..L + 1
  BY PlacesAre
<1>2. p.block = 1 /\ p.at = n
  OBVIOUS
<1>4. c.combo_colours = w
  OBVIOUS
<1>. HIDE DEF p, list, cols
<1>1. L \in Nat /\ k \in 1..L + 1 /\ L = Len(list)
  BY <1>1a, <1>1b DEF list
<1>3a. /\ Len(w) = Len(list) + 1
       /\ \A x \in 1..Len(list) + 1 : w[x] = IF x < k THEN list[x] ELSE IF x = k THEN p ELSE list[x - 1]
  <2>1. k \in 1..Len(list) + 1
    BY <1>1
  <2>. QED
    <3>1. w = InsertAt(list, k, p)
      OBVIOUS
    <3>. HIDE DEF w
    <3>. QED
      BY <1>1a, <2>1, <3>1, InsertIs
<1>. HIDE DEF w, L
<1>3. /\ Len(w) = L + 1
      /\ \A x \in 1..L + 1 : w[x] = IF x < k THEN list[x] ELSE IF x = k THEN p ELSE list[x - 1]
  BY <1>1, <1>3a
<1>5. /\ \A x \in 1..L : list[x].block = 1 /\ list[x].at \in 1..n - 1 /\ cols[list[x].at].combo
      /\ \A i \in 1..n - 1 : cols[i].combo => \E x \in 1..L : list[x].at = i
      /\ \A x, y \in 1..L : x < y => list[x].at # list[y].at /\ id(list[x]) <= id(list[y])
  BY DEF ColoursUpTo, ListIs, L, list, cols
<1>6. \A x \in 1..L : (x < k => id(list[x]) <= id(p)) /\ (x = k => id(p) <= id(list[x]))
  <2>1. \A x \in 1..L : list[x].block = b.block /\ list[x].at \in 1..Len(b.cols)
    BY <1>0, <1>5 DEF cols
  <2>2. n \in 1..Len(b.cols)
    BY <1>0 DEF cols
  <2>. QED
    BY <1>2, <2>1, <2>2, PlaceIs DEF list, cols, L
<1>7. id(p) \in Int /\ \A x \in 1..L : id(list[x]) \in Int /\ list[x].at # p.at
  <2>1. \A m \in 1..n : cols[m] \in Cols
    BY <1>0
  <2>2. \A m \in 1..n : cols[m].id \in Int
    BY <2>1 DEF Cols
  <2>. QED
    BY <1>0, <1>2, <1>5, <2>2
<1>8. \A x \in 1..L : x >= k => id(p) <= id(list[x])
  <2>. SUFFICES ASSUME NEW x \in 1..L, x >= k  PROVE id(p) <= id(list[x])
    OBVIOUS
  <2>1. k \in 1..L /\ id(p) <= id(list[k])
    BY <1>1, <1>6
  <2>2. x = k \/ k < x
    BY <1>1
  <2>3. x = k \/ id(list[k]) <= id(list[x])
    BY <1>5, <2>1, <2>2
  <2>. HIDE DEF id
  <2>. QED
    BY <1>7, <2>1, <2>3
<1>9. ASSUME NEW x \in 1..L + 1
      PROVE  w[x].block = 1 /\ w[x].at \in 1..n /\ cols[w[x].at].combo
  <2>0. cols[n].combo /\ \A i \in 1..n - 1 : i \in 1..n
    BY <1>0 DEF cols
  <2>1. CASE x < k
    <3>1. x \in 1..L /\ w[x] = list[x]
      BY <1>1, <1>3, <2>1
    <3>. QED
      BY <1>5, <2>0, <3>1
  <2>2. CASE x = k
    <3>1. w[x] = p
      BY <1>3, <2>2
    <3>. QED
      BY <1>0, <1>2, <2>0, <3>1
  <2>3. CASE x > k
    <3>1. x - 1 \in 1..L /\ w[x] = list[x - 1]
      BY <1>1, <1>3, <2>3
    <3>. QED
      BY <1>5, <2>0, <3>1
  <2>. QED
    BY <1>1, <2>1, <2>2, <2>3
<1>10. ASSUME NEW i \in 1..n, cols[i].combo  PROVE \E x \in 1..L + 1 : w[x].at = i
  <2>1. CASE i = n
    <3>1. w[k] = p
      BY <1>1, <1>3
    <3>. QED
      BY <1>1, <1>2, <2>1, <3>1
  <2>2. CASE i # n
    <3>1. PICK x \in 1..L : list[x].at = i
      BY <1>0, <1>5, <1>10, <2>2
    <3>2. CASE x < k
      <4>1. x \in 1..L + 1 /\ w[x] = list[x]
        BY <1>1, <1>3, <3>2
      <4>. QED
        BY <3>1, <4>1
    <3>3. CASE x >= k
      <4>1. x + 1 \in 1..L + 1 /\ ~(x + 1 < k) /\ x + 1 # k /\ (x + 1) - 1 = x
        BY <1>1, <3>3
      <4>2. w[x + 1] = list[x]
        BY <1>3, <4>1
      <4>. QED
        BY <3>1, <4>1, <4>2
    <3>. QED
      BY <1>1, <3>2, <3>3
  <2>. QED
    BY <2>1, <2>2
<1>11. ASSUME NEW x \in 1..L + 1, NEW y \in 1..L + 1, x < y
       PROVE  w[x].at # w[y].at /\ id(w[x]) <= id(w[y])
  <2>1. CASE y < k
    <3>1. x \in 1..L /\ y \in 1..L /\ w[x] = list[x] /\ w[y] = list[y]
      BY <1>1, <1>3, <1>11, <2>1
    <3>. QED
      BY <1>5, <1>11, <3>1
  <2>2. CASE y = k
    <3>1. x \in 1..L /\ x < k /\ w[x] = list[x] /\ w[y] = p
      BY <1>1, <1>3, <1>11, <2>2
    <3>. QED
      BY <1>6, <1>7, <3>1
  <2>3. CASE y > k
    <3>. DEFINE v == y - 1
    <3>1. v \in 1..L /\ w[y] = list[v] /\ v >= k
      BY <1>1, <1>3, <2>3
    <3>2. CASE x < k
      <4>1. x \in 1..L /\ w[x] = list[x] /\ x < v
        BY <1>1, <1>3, <3>1, <3>2
      <4>. QED
        BY <1>5, <3>1, <4>1
    <3>3. CASE x = k
      <4>1. w[x] = p
        BY <1>3, <3>3
      <4>. QED
        BY <1>7, <1>8, <3>1, <4>1
    <3>4. CASE x > k
      <4>1. x - 1 \in 1..L /\ w[x] = list[x - 1] /\ x - 1 < v
        BY <1>1, <1>3, <1>11, <3>4
      <4>. QED
        BY <1>5, <3>1, <4>1
    <3>. QED
      BY <1>1, <3>2, <3>3, <3>4
  <2>. QED
    BY <1>1, <2>1, <2>2, <2>3
<1>12. c.cols = cols /\ Len(c.cols) = n /\ c.combo_colours = w /\ Len(c.combo_colours) = L + 1
  BY <1>0, <1>3, <1>4 DEF cols
<1>13. /\ \A x \in 1..L + 1 : w[x].block = 1 /\ w[x].at \in 1..n /\ cols[w[x].at].combo
       /\ \A i \in 1..n : cols[i].combo => \E x \in 1..L + 1 : w[x].at = i
       /\ \A x, y \in 1..L + 1 : x < y => w[x].at # w[y].at /\ cols[w[x].at].id <= cols[w[y].at].id
  BY <1>9, <1>10, <1>11
<1>14. ListIs(w, cols, n)
  BY <1>3, <1>13 DEF ListIs
<1>. QED
  BY <1>12, <1>14 DEF ColoursOK, ColoursUpTo

LEMMA ListedOK ==
  ASSUME NEW b \in Beatmaps, NEW n, n = Len(b.cols), n # 0, ColoursUpTo(b, n - 1),
         NEW c \in Listed(b, n)
  PROVE  ColoursOK(c)
<1>0. n \in Nat /\ n - 1 \in Nat /\ 1..n = (1..n - 1) \cup {n} /\ b.cols \in Seq(Cols)
  BY DEF Beatmaps
<1>. SUFFICES ASSUME c.block = 1  PROVE ColoursOK(c)
  BY DEF ColoursOK, ColoursUpTo
<1>1. CASE b.cols[n].combo
  <2>1. PICK k \in Places(b, n) :
          c = [b EXCEPT !.combo_colours = InsertAt(@, k, [block |-> b.block, at |-> n])]
    BY <1>1 DEF Listed
  <2>. DEFINE w == InsertAt(b.combo_colours, k, [block |-> b.block, at |-> n])
  <2>2. c = [b EXCEPT !.combo_colours = w]
    BY <2>1
  <2>. HIDE DEF w
  <2>3. c.combo_colours = w /\ c.cols = b.cols /\ c.block = b.block
    BY <2>2 DEF Beatmaps
  <2>4. b.block = 1 /\ c.cols = b.cols
        /\ c.combo_colours = InsertAt(b.combo_colours, k, [block |-> b.block, at |-> n])
    BY <2>3 DEF w
  <2>5. b.cols[n].combo
    BY <1>1
  <2>. QED
    BY <2>4, <2>5, InsertOK
<1>2. CASE ~b.cols[n].combo
  <2>1. c = b
    BY <1>2 DEF Listed
  <2>2. ColoursUpTo(b, n)
    BY <1>0, <1>2 DEF ColoursUpTo, ListIs
  <2>. QED
    BY <2>1, <2>2 DEF ColoursOK
<1>. QED
  BY <1>1, <1>2, Zenon

LEMMA WithColourOK ==
  ASSUME NEW b \in Beatmaps, ColoursOK(b), NEW e \in Cols, NEW d \in WithColour(b, e)
  PROVE  ColoursOK(d)
<1>1. PICK g \in Grown(b) : d \in Listed([g EXCEPT !.cols = Append(@, e)], Len(b.cols) + 1)
  BY DEF WithColour
<1>2. OnlyColours(b, g) /\ g.cols = b.cols /\ g.combo_colours = b.combo_colours
  BY GrownIs
<1>. DEFINE a == Append(b.cols, e)
           h == [g EXCEPT !.cols = a]
           n == Len(b.cols)
<1>3. a \in Seq(Cols) /\ n \in Nat /\ Len(a) = n + 1 /\ \A i \in 1..n : a[i] = b.cols[i]
  BY DEF Beatmaps
<1>4. d \in Listed(h, n + 1)
  BY <1>1, <1>2
<1>. HIDE DEF a, n
<1>5. h \in Beatmaps /\ h.cols = a /\ h.combo_colours = b.combo_colours /\ h.block = g.block
  BY <1>2, <1>3 DEF OnlyColours, Beatmaps
<1>. HIDE DEF h
<1>6. h.block = 1 => b.block = 1
  <2>1. b.block \in Nat \ {0} /\ g.block \in Nat \ {0} /\ g.block >= b.block
    BY <1>2 DEF OnlyColours, Beatmaps
  <2>. QED
    BY <1>5, <2>1
<1>7. ColoursUpTo(h, n)
  <2>1. \A i \in 1..n : h.cols[i] = b.cols[i]
    BY <1>3, <1>5
  <2>2. ColoursUpTo(b, n)
    BY DEF ColoursOK, n
  <2>. DEFINE list == b.combo_colours
  <2>3. ASSUME ListIs(list, b.cols, n)  PROVE ListIs(list, h.cols, n)
    <3>1. \A k \in 1..Len(list) : h.cols[list[k].at] = b.cols[list[k].at]
      BY <2>1, <2>3 DEF ListIs
    <3>. HIDE DEF list
    <3>. QED
      BY <2>1, <2>3, <3>1 DEF ListIs
  <2>. QED
    BY <1>5, <1>6, <2>2, <2>3 DEF ColoursUpTo
<1>. DEFINE m == n + 1
<1>8. m = Len(h.cols) /\ m # 0 /\ m - 1 = n
  BY <1>3, <1>5
<1>. HIDE DEF m
<1>9. ColoursUpTo(h, m - 1) /\ d \in Listed(h, m)
  BY <1>4, <1>7, <1>8 DEF m
<1>. QED
  BY <1>5, <1>8, <1>9, ListedOK

LEMMA WithComboOK ==
  ASSUME NEW some, NEW id \in Int, \A c \in some : c \in Beatmaps /\ ColoursOK(c) /\ ComboListed(c)
  PROVE  \A d \in WithCombo(some, id) : d \in Beatmaps /\ ColoursOK(d) /\ ComboListed(d)
<1>. SUFFICES ASSUME NEW d \in WithCombo(some, id)
              PROVE  d \in Beatmaps /\ ColoursOK(d) /\ ComboListed(d)
  OBVIOUS
<1>. DEFINE e == [combo |-> TRUE, id |-> id]
<1>1. PICK c \in some : d \in WithColour(c, e)
  BY DEF WithCombo
<1>2. e \in Cols
  BY DEF Cols
<1>. HIDE DEF e
<1>3. OnlyColours(c, d) /\ ComboListed(d)
  BY <1>1, <1>2, WithColourIs
<1>4. ColoursOK(d)
  BY <1>1, <1>2, WithColourOK
<1>. QED
  BY <1>3, <1>4 DEF OnlyColours

LEMMA PreparedColoursOK ==
  ASSUME NEW b \in Beatmaps, ColoursOK(b), ComboListed(b), NEW d \in PreparedColours(b)
  PROVE  ColoursOK(d)
<1>1. CASE \E c \in ToSet(b.cols) : c.combo
  BY <1>1 DEF PreparedColours
<1>2. CASE ~(\E c \in ToSet(b.cols) : c.combo)
  <2>. DEFINE OK(some) == \A c \in some : c \in Beatmaps /\ ColoursOK(c) /\ ComboListed(c)
             p == WithCombo({b}, 1)
             q == WithCombo(p, 2)
             r == WithCombo(q, 3)
             s == WithCombo(r, 4)
  <2>1. d \in s
    BY <1>2 DEF PreparedColours
  <2>2. OK(p)
    <3>1. OK({b})
      OBVIOUS
    <3>. QED
      BY <3>1, WithComboOK
  <2>. HIDE DEF p
  <2>3. OK(q)
    BY <2>2, WithComboOK
  <2>. HIDE DEF q
  <2>4. OK(r)
    BY <2>3, WithComboOK
  <2>. HIDE DEF r
  <2>5. OK(s)
    BY <2>4, WithComboOK
  <2>. HIDE DEF s
  <2>. QED
    BY <2>1, <2>5
<1>. QED
  BY <1>1, <1>2

LEMMA RemainderIs ==
  ASSUME NEW n \in Nat \ {0}, NEW q \in Nat, NEW r \in 0..n - 1, NEW a \in Nat, a = n * q + r
  PROVE  a % n = r
<1>. DEFINE d == a \div n
           m == a % n
<1>1. d \in Nat /\ m \in 0..n - 1 /\ a = n * d + m
  OBVIOUS
<1>. HIDE DEF d, m
<1>2. ~(d > q)
  <2>. SUFFICES ASSUME d >= q + 1  PROVE FALSE
    BY <1>1
  <2>1. n * (q + 1) <= n * d
    BY <1>1
  <2>2. n * (q + 1) = n * q + n
    OBVIOUS
  <2>3. n * q \in Nat /\ n * d \in Nat
    BY <1>1
  <2>. DEFINE x == n * q
             y == n * d
  <2>. HIDE DEF x, y
  <2>4. x + n <= y /\ y + m = x + r /\ x \in Nat /\ y \in Nat
    BY <1>1, <2>1, <2>2, <2>3 DEF x, y
  <2>. QED
    BY <1>1, <2>4
<1>3. ~(d < q)
  <2>. SUFFICES ASSUME q >= d + 1  PROVE FALSE
    BY <1>1
  <2>1. n * (d + 1) <= n * q
    BY <1>1
  <2>2. n * (d + 1) = n * d + n
    BY <1>1
  <2>3. n * q \in Nat /\ n * d \in Nat
    BY <1>1
  <2>. DEFINE x == n * q
             y == n * d
  <2>. HIDE DEF x, y
  <2>4. y + n <= x /\ y + m = x + r /\ x \in Nat /\ y \in Nat
    BY <1>1, <2>1, <2>2, <2>3 DEF x, y
  <2>. QED
    BY <1>1, <2>4
<1>4. d = q
  BY <1>1, <1>2, <1>3
<1>5. m = r
  <2>. DEFINE x == n * q
  <2>1. x \in Nat /\ x + m = x + r
    BY <1>1, <1>4
  <2>. HIDE DEF x
  <2>. QED
    BY <1>1, <2>1
<1>. QED
  BY <1>5 DEF m

\* The next colour is that of the next combo.
LEMMA NextRemainder ==
  ASSUME NEW n \in Nat \ {0}, NEW y \in Nat
  PROVE  ((y % n) + 1) % n = (y + 1) % n
<1>. DEFINE q == y \div n
           r == y % n
<1>1. q \in Nat /\ r \in 0..n - 1 /\ y = n * q + r
  OBVIOUS
<1>. HIDE DEF q, r
<1>2. CASE r + 1 < n
  <2>1. r + 1 \in 0..n - 1 /\ y + 1 = n * q + (r + 1) /\ y + 1 \in Nat
    BY <1>1, <1>2
  <2>2. (y + 1) % n = r + 1
    BY <1>1, <2>1, RemainderIs
  <2>3. r + 1 = n * 0 + (r + 1) /\ r + 1 \in Nat /\ 0 \in Nat
    BY <1>1
  <2>4. (r + 1) % n = r + 1
    BY <2>1, <2>3, RemainderIs
  <2>. QED
    BY <2>2, <2>4 DEF r
<1>3. CASE r + 1 = n
  <2>1. n * (q + 1) = n * q + n
    BY <1>1
  <2>2. y + 1 = n * (q + 1) + 0 /\ y + 1 \in Nat /\ q + 1 \in Nat /\ 0 \in 0..n - 1
    BY <1>1, <1>3, <2>1
  <2>3. (y + 1) % n = 0
    <3>. DEFINE z == y + 1
               p == q + 1
    <3>1. z \in Nat /\ p \in Nat /\ 0 \in 0..n - 1 /\ z = n * p + 0
      BY <2>2
    <3>. HIDE DEF z, p
    <3>2. z % n = 0
      BY <3>1, RemainderIs
    <3>. QED
      BY <3>2 DEF z
  <2>4. n = n * 1 + 0 /\ n \in Nat /\ 1 \in Nat
    OBVIOUS
  <2>5. n % n = 0
    BY <2>2, <2>4, RemainderIs
  <2>. QED
    BY <1>3, <2>3, <2>5 DEF r
<1>. QED
  BY <1>1, <1>2, <1>3

\* How many combos begin up to the i-th object.
NewCombos(hos, i) == Cardinality({j \in 1..i : hos[j].nc})

LEMMA NewCombosAre ==
  ASSUME NEW hos
  PROVE  /\ NewCombos(hos, 0) = 0
         /\ \A i \in Nat : NewCombos(hos, i) \in Nat
         /\ \A i \in Nat \ {0} :
              NewCombos(hos, i) = NewCombos(hos, i - 1) + (IF hos[i].nc THEN 1 ELSE 0)
<1>. DEFINE B(i) == {j \in 1..i : hos[j].nc}
<1>1. \A i \in Nat : IsFiniteSet(B(i))
  <2>. SUFFICES ASSUME NEW i \in Nat  PROVE IsFiniteSet(B(i))
    OBVIOUS
  <2>1. B(i) \subseteq 1..i /\ i \in Int
    OBVIOUS
  <2>. HIDE DEF B
  <2>2. IsFiniteSet(1..i)
    BY <2>1, FS_Interval
  <2>. QED
    BY <2>1, <2>2, FS_Subset
<1>2. B(0) = {}
  OBVIOUS
<1>3. NewCombos(hos, 0) = 0
  BY <1>2, FS_EmptySet DEF NewCombos
<1>4. ASSUME NEW i \in Nat \ {0}
      PROVE  NewCombos(hos, i) = NewCombos(hos, i - 1) + (IF hos[i].nc THEN 1 ELSE 0)
  <2>0. i - 1 \in Nat /\ 1..i = (1..i - 1) \cup {i} /\ i \notin 1..i - 1
    OBVIOUS
  <2>1. CASE hos[i].nc
    <3>1. B(i) = B(i - 1) \cup {i} /\ i \notin B(i - 1)
      BY <2>0, <2>1
    <3>2. IsFiniteSet(B(i - 1))
      BY <1>1, <2>0
    <3>. HIDE DEF B
    <3>3. Cardinality(B(i)) = Cardinality(B(i - 1)) + 1
      BY <3>1, <3>2, FS_AddElement
    <3>. QED
      BY <2>1, <3>3 DEF NewCombos, B
  <2>2. CASE ~hos[i].nc
    <3>1. B(i) = B(i - 1)
      BY <2>0, <2>2
    <3>2. Cardinality(B(i - 1)) \in Nat
      <4>1. IsFiniteSet(B(i - 1))
        BY <1>1, <2>0
      <4>. HIDE DEF B
      <4>. QED
        BY <4>1, FS_CardinalityType
    <3>. HIDE DEF B
    <3>3. NewCombos(hos, i) = Cardinality(B(i)) /\ NewCombos(hos, i - 1) = Cardinality(B(i - 1))
      BY DEF NewCombos, B
    <3>. QED
      BY <2>2, <3>1, <3>2, <3>3
  <2>. QED
    BY <2>1, <2>2
<1>5. \A i \in Nat : NewCombos(hos, i) \in Nat
  <2>. HIDE DEF B
  <2>1. \A i \in Nat : Cardinality(B(i)) \in Nat
    BY <1>1, FS_CardinalityType
  <2>. QED
    BY <2>1 DEF NewCombos, B
<1>. QED
  BY <1>3, <1>4, <1>5

\* The colour of the n colours that is the one of the x-th combo.
Turn(x, n) == ((x + n - 1) % n) + 1

LEMMA ComboCount ==
  ASSUME NEW b \in Beatmaps, b.combo_colours # <<>>
  PROVE  \A i \in 0..Len(b.hos) :
           /\ ComboOf(b)[i].id = NewCombos(b.hos, i)
           /\ ComboOf(b)[i].current = Turn(NewCombos(b.hos, i), Len(b.combo_colours))
<1>. DEFINE N == Len(b.hos)
           n == Len(b.combo_colours)
           combo == ComboOf(b)
           x(i) == NewCombos(b.hos, i)
           Holds(i) == combo[i].id = x(i) /\ combo[i].current = Turn(x(i), n)
           S == {i \in Nat : i <= N => Holds(i)}
<1>1. /\ n \in Nat \ {0}
      /\ \A i \in 0..N : combo[i] \in Combos(n)
      /\ combo[0] = [id |-> 0, pos |-> 0, current |-> n]
      /\ \A i \in 1..N :
           combo[i] = IF b.hos[i].nc
                      THEN [id |-> combo[i - 1].id + 1, pos |-> 1,
                            current |-> (combo[i - 1].current % n) + 1]
                      ELSE [combo[i - 1] EXCEPT !.pos = @ + 1]
  BY ComboOfIs
<1>2. N \in Nat
  BY DEF Beatmaps
<1>. HIDE DEF N, n, combo
<1>3. 0 \in S
  <2>1. x(0) = 0
    BY NewCombosAre
  <2>2. (0 + n - 1) % n = n - 1
    <3>. DEFINE m == 0 + n - 1
    <3>1. m \in 0..n - 1 /\ m = n * 0 + m /\ m \in Nat /\ 0 \in Nat /\ m = n - 1
      BY <1>1
    <3>. HIDE DEF m
    <3>2. m % n = m
      BY <1>1, <3>1, RemainderIs
    <3>. QED
      BY <3>1, <3>2 DEF m
  <2>3. Turn(0, n) = n
    BY <1>1, <2>2 DEF Turn
  <2>4. Holds(0)
    BY <1>1, <2>1, <2>3
  <2>. QED
    BY <2>4
<1>4. ASSUME NEW i \in Nat, i \in S  PROVE i + 1 \in S
  <2>. SUFFICES ASSUME i + 1 <= N  PROVE Holds(i + 1)
    OBVIOUS
  <2>1. Holds(i) /\ i + 1 \in 1..N /\ (i + 1) - 1 = i
    BY <1>2, <1>4
  <2>2. x(i) \in Nat /\ x(i + 1) = x(i) + (IF b.hos[i + 1].nc THEN 1 ELSE 0)
    <3>1. i + 1 \in Nat \ {0}
      OBVIOUS
    <3>. QED
      BY <2>1, <3>1, NewCombosAre
  <2>3. combo[i] \in Combos(n)
    BY <1>1, <1>2, <2>1
  <2>. DEFINE y == x(i)
             c == combo[i]
             d == combo[i + 1]
  <2>4. c.id = y /\ c.current = Turn(y, n) /\ y \in Nat
    BY <2>1, <2>2
  <2>5. d = IF b.hos[i + 1].nc THEN [id |-> c.id + 1, pos |-> 1, current |-> (c.current % n) + 1]
            ELSE [c EXCEPT !.pos = @ + 1]
    BY <1>1, <2>1
  <2>6. x(i + 1) = IF b.hos[i + 1].nc THEN y + 1 ELSE y
    BY <2>2
  <2>. HIDE DEF x
  <2>7. CASE b.hos[i + 1].nc
    <3>1. d.id = y + 1 /\ d.current = (Turn(y, n) % n) + 1
      BY <2>4, <2>5, <2>7
    <3>. DEFINE z == y + n - 1
    <3>2. z \in Nat /\ (y + 1) + n - 1 = z + 1
      BY <1>1, <2>4
    <3>. HIDE DEF z
    <3>3. ((z % n) + 1) % n = (z + 1) % n
      BY <1>1, <3>2, NextRemainder
    <3>4. Turn(y, n) = (z % n) + 1
      BY DEF Turn, z
    <3>5. Turn(y + 1, n) = ((z + 1) % n) + 1
      BY <3>2 DEF Turn
    <3>. QED
      BY <2>6, <2>7, <3>1, <3>3, <3>4, <3>5
  <2>8. CASE ~b.hos[i + 1].nc
    <3>1. d.id = c.id /\ d.current = c.current
      BY <2>3, <2>5, <2>8 DEF Combos
    <3>. QED
      BY <2>4, <2>6, <2>8, <3>1
  <2>. QED
    BY <2>7, <2>8
<1>5. \A i \in Nat : i \in S
  <2>. HIDE DEF S
  <2>. QED
    BY <1>3, <1>4, NatSetInduction
<1>6. \A i \in 0..N : Holds(i)
  BY <1>2, <1>5
<1>. QED
  BY <1>6 DEF N, n, combo

\* Each object has the colour and the number of its combo.
HuesOK(b) ==
  \A i \in 1..Len(b.hos) :
    /\ b.hos[i].colour = b.combo_colours[Turn(NewCombos(b.hos, i), Len(b.combo_colours))]
    /\ b.hos[i].id = NewCombos(b.hos, i)

LEMMA HuesPrepared ==
  ASSUME NEW b, BmOK(b), Ready(b), NEW c, c = PreparedHos(b)
  PROVE  HuesOK(c)
<1>1. b \in Beatmaps /\ b.combo_colours # <<>>
  BY DEF BmOK, Ready
<1>2. /\ c.combo_colours = b.combo_colours /\ Len(c.hos) = Len(b.hos) /\ Len(b.hos) \in Nat
      /\ \A i \in 1..Len(b.hos) : /\ SameObject(b.hos[i], c.hos[i])
                                  /\ c.hos[i].colour = b.combo_colours[ComboOf(b)[i].current]
                                  /\ c.hos[i].id = ComboOf(b)[i].id
  <2>1. Len(b.hos) \in Nat
    BY <1>1 DEF Beatmaps
  <2>2. /\ c = [b EXCEPT !.hos = c.hos] /\ Len(c.hos) = Len(b.hos)
        /\ \A i \in 1..Len(b.hos) : /\ SameObject(b.hos[i], c.hos[i])
                                    /\ c.hos[i].colour = b.combo_colours[ComboOf(b)[i].current]
                                    /\ c.hos[i].id = ComboOf(b)[i].id
    BY <1>1, PreparedHosAre
  <2>3. SameColours(b, c)
    BY HosPrepared
  <2>. QED
    BY <2>1, <2>2, <2>3 DEF SameColours
<1>3. ASSUME NEW i \in 1..Len(b.hos)  PROVE NewCombos(c.hos, i) = NewCombos(b.hos, i)
  <2>1. \A j \in 1..i : c.hos[j].nc = b.hos[j].nc
    BY <1>2 DEF SameObject
  <2>2. {j \in 1..i : c.hos[j].nc} = {j \in 1..i : b.hos[j].nc}
    BY <2>1, Zenon
  <2>. QED
    BY <2>2 DEF NewCombos
<1>4. \A i \in 1..Len(b.hos) :
        /\ ComboOf(b)[i].id = NewCombos(b.hos, i)
        /\ ComboOf(b)[i].current = Turn(NewCombos(b.hos, i), Len(b.combo_colours))
  <2>1. \A i \in 1..Len(b.hos) : i \in 0..Len(b.hos)
    OBVIOUS
  <2>. QED
    BY <1>1, <2>1, ComboCount
<1>. QED
  BY <1>2, <1>3, <1>4 DEF HuesOK

ColourInv == WellFormed(file) /\ stage \in {"parse", "tree", "again", "loaded"} => ColoursOK(bm)
HuesInv == stage \in {"tree", "loaded"} => HuesOK(bm)

LEMMA ColoursSame ==
  ASSUME NEW b, NEW c, SameColours(b, c)
  PROVE  /\ ColoursOK(b) => ColoursOK(c)
         /\ c.hos = b.hos /\ HuesOK(b) => HuesOK(c)
<1>1. /\ c.cols = b.cols /\ c.block = b.block /\ c.combo_colours = b.combo_colours
  BY DEF SameColours
<1>2. ColoursOK(b) => ColoursOK(c)
  BY <1>1 DEF ColoursOK, ColoursUpTo
<1>3. c.hos = b.hos /\ HuesOK(b) => HuesOK(c)
  BY <1>1 DEF HuesOK
<1>. QED
  BY <1>2, <1>3

LEMMA ColourInit == ASSUME Init  PROVE ColourInv /\ HuesInv
  BY DEF Init, ColourInv, HuesInv

\* What reading a line of a well-formed file does to the colours.
LEMMA ColourReadStep ==
  ASSUME TypeInv, SecInv, ParseLine, WellFormed(file), ColoursOK(bm)
  PROVE  ColoursOK(bm')
<1>0. BmOK(bm) /\ bm \in Beatmaps
  BY DEF TypeInv, BmOK
<1>1. CASE Passed
  BY <1>1 DEF Passed, Skipped
<1>2. CASE TpRead
  <2>1. Line \in Lines /\ Line.k = "tp"
    BY <1>2 DEF TpRead, ObjectRead, Advances
  <2>2. SameColours(bm, bm')
    BY <1>0, <1>2, <2>1, TpLine DEF TpRead
  <2>. QED
    BY <2>2, ColoursSame
<1>3. CASE HoRead
  <2>. DEFINE n == Len(bm.hos) + 1
  <2>1. Line \in Lines /\ Line.k = "ho" /\ bm' = WithHo(bm, Line, n)
    BY <1>3 DEF HoRead, ObjectRead, Advances
  <2>2. n \in Nat
    BY <1>0 DEF Beatmaps
  <2>. HIDE DEF n
  <2>3. SameColours(bm, bm')
    BY <1>0, <2>1, <2>2, HoLine
  <2>. QED
    BY <2>3, ColoursSame
<1>4. CASE EventRead
  <2>1. Line \in Lines /\ Line.k = "event"
    BY <1>4 DEF EventRead, ObjectRead, Advances
  <2>2. SameColours(bm, bm')
    BY <1>0, <1>4, <2>1, EventLine DEF EventRead
  <2>. QED
    BY <2>2, ColoursSame
<1>5. CASE ColourRead
  <2>. DEFINE e == [combo |-> Line.combo, id |-> Line.id]
  <2>1. Line \in Lines /\ Line.k = "colour" /\ bm' \in WithColour(bm, e)
    BY <1>5 DEF ColourRead, ObjectRead, Advances
  <2>2. e \in Cols
    BY <2>1, LineIs
  <2>. HIDE DEF e
  <2>. QED
    BY <1>0, <2>1, <2>2, WithColourOK
<1>. QED
  BY <1>1, <1>2, <1>3, <1>4, <1>5, WellFormedStep

LEMMA ColourStep ==
  ASSUME TypeInv, SecInv, ColourInv, HuesInv, [Next]_vars
  PROVE  ColourInv' /\ HuesInv'
<1>0. BmOK(bm) /\ bm \in Beatmaps
  BY DEF TypeInv, BmOK
<1>1. CASE Open
  <2>1. /\ bm' \in Beatmaps /\ bm'.cols = <<>> /\ bm'.combo_colours = <<>> /\ bm'.hos = <<>>
        /\ stage' \in {"fail", "parse"}
    BY <1>1, OpenIs
  <2>2. ColoursOK(bm')
    BY <2>1 DEF ColoursOK, ColoursUpTo, ListIs
  <2>. QED
    BY <2>1, <2>2 DEF ColourInv, HuesInv
<1>2. CASE ParseLine
  <2>1. stage = "parse" /\ file' = file /\ stage' \in {"parse", "fail", "crash"}
    BY <1>2, ParseStep DEF Skipped, TpRead, HoRead, EventRead, ColourRead, Ignored, Stopped,
         ObjectRead, Advances, Stop, Misplaced
  <2>2. WellFormed(file) => ColoursOK(bm')
    BY <1>2, <2>1, ColourReadStep DEF ColourInv
  <2>. QED
    BY <2>1, <2>2 DEF ColourInv, HuesInv
<1>3. CASE Prepare
  <2>1. CASE NoPoint
    BY <2>1 DEF NoPoint, Stop, ColourInv, HuesInv
  <2>2. CASE \E c : Prepares(c)
    <3>1. PICK c : Prepares(c)
      BY <2>2
    <3>2. /\ BmOK(c) /\ Ready(c) /\ bm' = PreparedHos(c)
          /\ c \in PreparedColours([bm EXCEPT !.tps = PreparedTps(@)])
          /\ stage \in {"parse", "again"} /\ stage' = "tree" /\ file' = file
      BY <3>1 DEF Prepares, Coloured
    <3>3. HuesOK(bm') /\ SameColours(c, bm')
      BY <3>2, HuesPrepared, HosPrepared
    <3>4. ASSUME WellFormed(file)  PROVE ColoursOK(bm')
      <4>. DEFINE s == PreparedTps(bm.tps)
                 a == [bm EXCEPT !.tps = s]
      <4>1. c \in PreparedColours(a)
        BY <3>2
      <4>2. s \in Seq(Tps)
        BY <1>0, PreparedTpsAre DEF Beatmaps
      <4>. HIDE DEF s
      <4>3. a \in Beatmaps /\ SameColours(bm, a)
        BY <1>0, <4>2 DEF Beatmaps, SameColours
      <4>. HIDE DEF a
      <4>4. ColoursOK(bm) /\ ComboListed(bm)
        BY <1>0, <3>2, <3>4 DEF ColourInv, BmOK
      <4>5. ColoursOK(a) /\ ComboListed(a)
        BY <4>3, <4>4, ColoursSame DEF SameColours, ComboListed, SomeCombo
      <4>6. ColoursOK(c)
        BY <4>1, <4>3, <4>5, PreparedColoursOK
      <4>. QED
        BY <3>3, <4>6, ColoursSame
    <3>. QED
      BY <3>2, <3>3, <3>4 DEF ColourInv, HuesInv
  <2>. QED
    BY <1>3, <2>1, <2>2, PrepareStep
<1>4. CASE BuildTree
  <2>0. /\ stage = "tree" /\ file' = file /\ stage' \in {"tree", "fail", "loaded", "abort", "crash"}
    BY <1>4, BuildStep DEF TooDeep, Rooted, Orphan, Adopted, Built, Stop
  <2>1. SameColours(bm, bm') /\ bm'.hos = bm.hos
    <3>1. CASE Adopted
      BY <3>1, AdoptedIs DEF OtherEvents
    <3>2. CASE ~Adopted
      <4>1. bm' = bm
        BY <1>4, <3>2, BuildStep DEF TooDeep, Rooted, Orphan, Stop
      <4>. QED
        BY <4>1 DEF SameColours
    <3>. QED
      BY <3>1, <3>2
  <2>. QED
    BY <2>0, <2>1, ColoursSame DEF ColourInv, HuesInv
<1>5. CASE PrepareEvents
  <2>1. stage = "tree" /\ stage' = "loaded" /\ file' = file /\ bm'.hos = bm.hos /\ SameColours(bm, bm')
    BY <1>5, FinishStep DEF Finishes
  <2>. QED
    BY <2>1, ColoursSame DEF ColourInv, HuesInv
<1>6. CASE Autoconvert
  <2>1. stage = "loaded" /\ stage' = "again" /\ file' = file /\ SameColours(bm, bm')
    BY <1>6, ConvertStep DEF Converts
  <2>. QED
    BY <2>1, ColoursSame DEF ColourInv, HuesInv
<1>7. CASE Free
  <2>1. stage' \in {"idle", "crash"}
    BY <1>7, FreeStep DEF FreeDone, Stop
  <2>. QED
    BY <2>1 DEF ColourInv, HuesInv
<1>8. CASE UNCHANGED vars
  <2>1. stage' = stage /\ bm' = bm /\ file' = file
    BY <1>8 DEF vars
  <2>. QED
    BY <2>1 DEF ColourInv, HuesInv
<1>. QED
  BY <1>1, <1>2, <1>3, <1>4, <1>5, <1>6, <1>7, <1>8 DEF Next

\* The list is the set of the combo colours, each once.
LEMMA ListedOnce ==
  ASSUME NEW b \in Beatmaps, ColoursOK(b), b.block = 1
  PROVE  LET combos == {i \in DOMAIN b.cols : b.cols[i].combo}
         IN  /\ Len(b.combo_colours) = Cardinality(combos)
             /\ ToSet(b.combo_colours) = {[block |-> 1, at |-> i] : i \in combos}
<1>. DEFINE list == b.combo_colours
           n == Len(list)
           combos == {i \in DOMAIN b.cols : b.cols[i].combo}
           f == [k \in 1..n |-> list[k].at]
<1>1. /\ list \in Seq(ColourPointers) /\ n \in Nat /\ DOMAIN b.cols = 1..Len(b.cols)
      /\ DOMAIN list = 1..n
  BY DEF Beatmaps
<1>2. /\ \A k \in 1..n : list[k].block = 1 /\ list[k].at \in combos
      /\ \A i \in combos : \E k \in 1..n : list[k].at = i
      /\ \A j, k \in 1..n : j < k => list[j].at # list[k].at
  BY <1>1 DEF ColoursOK, ColoursUpTo, ListIs
<1>3. \A k \in 1..n : list[k] = [block |-> 1, at |-> list[k].at]
  <2>1. \A k \in 1..n : list[k] \in ColourPointers
    BY <1>1
  <2>. QED
    BY <1>2, <2>1 DEF ColourPointers
<1>. HIDE DEF combos, list, n
<1>4. f \in Bijection(1..n, combos)
  <2>1. f \in [1..n -> combos] /\ \A k \in 1..n : f[k] = list[k].at
    BY <1>2
  <2>. HIDE DEF f
  <2>2. \A j, k \in 1..n : j # k => f[j] # f[k]
    <3>. SUFFICES ASSUME NEW j \in 1..n, NEW k \in 1..n, j # k  PROVE f[j] # f[k]
      OBVIOUS
    <3>1. j < k \/ k < j
      BY <1>1
    <3>. QED
      BY <1>2, <2>1, <3>1
  <2>3. \A i \in combos : \E k \in 1..n : f[k] = i
    BY <1>2, <2>1
  <2>4. f \in Injection(1..n, combos)
    BY <2>1, <2>2 DEF Injection, IsInjective
  <2>5. f \in Surjection(1..n, combos)
    BY <2>1, <2>3 DEF Surjection
  <2>. QED
    BY <2>4, <2>5 DEF Bijection
<1>5. Cardinality(combos) = n
  <2>1. IsFiniteSet(1..n) /\ Cardinality(1..n) = n
    <3>1. 1 \in Int /\ n \in Int
      BY <1>1
    <3>2. IsFiniteSet(1..n) /\ Cardinality(1..n) = IF 1 > n THEN 0 ELSE n - 1 + 1
      BY <3>1, FS_Interval
    <3>. QED
      BY <1>1, <3>2
  <2>2. ExistsBijection(1..n, combos)
    BY <1>4 DEF ExistsBijection
  <2>. QED
    BY <2>1, <2>2, FS_Bijection
<1>6. ToSet(list) = {[block |-> 1, at |-> i] : i \in combos}
  <2>1. ToSet(list) = {list[k] : k \in 1..n}
    BY <1>1 DEF ToSet
  <2>2. ASSUME NEW p \in ToSet(list)  PROVE p \in {[block |-> 1, at |-> i] : i \in combos}
    BY <1>2, <1>3, <2>1, <2>2
  <2>3. ASSUME NEW i \in combos  PROVE [block |-> 1, at |-> i] \in ToSet(list)
    BY <1>2, <1>3, <2>1
  <2>. QED
    BY <2>2, <2>3
<1>. QED
  BY <1>5, <1>6 DEF combos, list, n

\* The objects of a well-formed file walk through its combo colours, whatever their
\* numbers and their order in the file.
THEOREM CombosAlwaysCycle == Spec => []ComboCycle
<1>1. Init => TypeInv /\ SecInv /\ ColourInv /\ HuesInv
  BY TypeInit, SecInit, ColourInit
<1>2. TypeInv /\ SecInv /\ ColourInv /\ HuesInv /\ [Next]_vars =>
        (TypeInv /\ SecInv /\ ColourInv /\ HuesInv)'
  BY TypeStep, SecStep, ColourStep
<1>3. ASSUME TypeInv, ColourInv, HuesInv  PROVE ComboCycle
  <2>. SUFFICES ASSUME Loaded, bm.block = 1
                PROVE  LET b == bm
                           list == b.combo_colours
                           combos == {i \in DOMAIN b.cols : b.cols[i].combo}
                           newcombos(i) == Cardinality({j \in 1..i : b.hos[j].nc})
                       IN /\ Len(list) = Cardinality(combos)
                          /\ ToSet(list) = {[block |-> 1, at |-> i] : i \in combos}
                          /\ \A i \in 1..(Len(list) - 1) :
                               b.cols[list[i].at].id <= b.cols[list[i + 1].at].id
                          /\ \A i \in DOMAIN b.hos :
                               /\ b.hos[i].colour = list[((newcombos(i) + Len(list) - 1) % Len(list)) + 1]
                               /\ b.hos[i].id = newcombos(i)
    BY DEF ComboCycle
  <2>. DEFINE list == bm.combo_colours
  <2>1. bm \in Beatmaps /\ ColoursOK(bm) /\ HuesOK(bm)
    BY <1>3 DEF TypeInv, BmOK, ColourInv, HuesInv, Loaded
  <2>2. Len(list) \in Nat /\ DOMAIN bm.hos = 1..Len(bm.hos)
    BY <2>1 DEF Beatmaps
  <2>3. ASSUME NEW i \in 1..(Len(list) - 1)
        PROVE  bm.cols[list[i].at].id <= bm.cols[list[i + 1].at].id
    <3>1. i \in 1..Len(list) /\ i + 1 \in 1..Len(list) /\ i < i + 1
      BY <2>2
    <3>. QED
      BY <2>1, <3>1 DEF ColoursOK, ColoursUpTo, ListIs
  <2>4. ASSUME NEW i \in DOMAIN bm.hos
        PROVE  /\ bm.hos[i].colour =
                    list[((Cardinality({j \in 1..i : bm.hos[j].nc}) + Len(list) - 1) % Len(list)) + 1]
               /\ bm.hos[i].id = Cardinality({j \in 1..i : bm.hos[j].nc})
    BY <2>1, <2>2 DEF HuesOK, Turn, NewCombos
  <2>. QED
    BY <2>1, <2>3, <2>4, ListedOnce
<1>. QED
  BY <1>1, <1>2, <1>3, PTL DEF Spec

-----------------------------------------------------------------------------
(***************************************************************************)
(* What is read of a well-formed file.                                     *)
(***************************************************************************)
\* The lines of kind k among the first n.
ReadTo(f, k, n) == KeptTo(f.lines, {i \in DOMAIN f.lines : f.lines[i].k = k}, n)

LEMMA ReadToIs ==
  ASSUME NEW f \in Files, NEW k
  PROVE  /\ ReadTo(f, k, 0) = <<>> /\ LinesOf(f, k) = ReadTo(f, k, Len(f.lines))
         /\ \A n \in 1..Len(f.lines) :
              ReadTo(f, k, n) = IF f.lines[n].k = k THEN Append(ReadTo(f, k, n - 1), f.lines[n])
                                ELSE ReadTo(f, k, n - 1)
         /\ \A n \in 0..Len(f.lines) :
              /\ ReadTo(f, k, n) \in Seq(Lines)
              /\ \A i \in 1..Len(ReadTo(f, k, n)) : ReadTo(f, k, n)[i].k = k
<1>. DEFINE s == f.lines
           T == {i \in DOMAIN s : s[i].k = k}
<1>1. s \in Seq(Lines) /\ DOMAIN s = 1..Len(s)
  BY DEF Files
<1>2. LinesOf(f, k) = ReadTo(f, k, Len(f.lines))
  BY DEF LinesOf, ReadTo, Kept
<1>3. \A n \in 1..Len(s) : n \in T <=> s[n].k = k
  BY <1>1
<1>4. \A n : ReadTo(f, k, n) = KeptTo(s, T, n)
  BY DEF ReadTo
<1>. HIDE DEF T, s
<1>5. /\ KeptTo(s, T, 0) = <<>>
      /\ \A n \in 1..Len(s) : KeptTo(s, T, n) = IF n \in T THEN Append(KeptTo(s, T, n - 1), s[n])
                                               ELSE KeptTo(s, T, n - 1)
      /\ \A n \in 0..Len(s) : /\ KeptTo(s, T, n) \in Seq(Lines)
                             /\ \E pos : KeptAt(pos, KeptTo(s, T, n), s, T, n)
  BY <1>1, KeptToIs
<1>6. ASSUME NEW n \in 0..Len(s)
      PROVE  \A i \in 1..Len(KeptTo(s, T, n)) : KeptTo(s, T, n)[i].k = k
  <2>. DEFINE w == KeptTo(s, T, n)
  <2>1. PICK pos : KeptAt(pos, w, s, T, n)
    BY <1>5
  <2>2. \A q \in 1..n : q \in 1..Len(s)
    BY <1>1
  <2>3. pos \in [1..Len(w) -> 1..n] /\ \A i \in 1..Len(w) : pos[i] \in T /\ w[i] = s[pos[i]]
    BY <2>1 DEF KeptAt
  <2>. HIDE DEF w
  <2>4. \A i \in 1..Len(w) : pos[i] \in 1..Len(s)
    BY <2>2, <2>3
  <2>5. \A i \in 1..Len(w) : w[i].k = k
    BY <1>3, <2>3, <2>4
  <2>. QED
    BY <2>5 DEF w
<1>7. ReadTo(f, k, 0) = <<>>
  BY <1>4, <1>5
<1>8. \A n \in 1..Len(s) : ReadTo(f, k, n) = IF s[n].k = k THEN Append(ReadTo(f, k, n - 1), s[n])
                                              ELSE ReadTo(f, k, n - 1)
  BY <1>3, <1>4, <1>5
<1>9. \A n \in 0..Len(s) : /\ ReadTo(f, k, n) \in Seq(Lines)
                           /\ \A i \in 1..Len(ReadTo(f, k, n)) : ReadTo(f, k, n)[i].k = k
  BY <1>4, <1>5, <1>6
<1>. QED
  BY <1>2, <1>7, <1>8, <1>9 DEF s

\* What an event line may be.
LEMMA EventLineIs ==
  ASSUME NEW l \in Lines, l.k = "event"
  PROVE  /\ l.level \in Nat /\ l.offset \in Int /\ l.end \in Int /\ l.easing \in Nat
         /\ l.type \in {"object", "command", "loop", "trigger"}
         /\ l.type = "object" <=> l.level = 0
<1>1. l \in [k : {"event"}, type : {"object"}, level : {0}, easing : {0}, offset : Int, end : Int]
             \cup [k : {"event"}, type : {"command", "loop", "trigger"}, level : Nat \ {0},
                   easing : Nat, offset : Int, end : Int]
  BY DEF Lines
<1>. QED
  BY <1>1

EvsRead(evs, w) == Len(evs) = Len(w) /\ \A i \in 1..Len(w) : evs[i] = NewEvent(w[i])
TpsRead(tps, w) == Len(tps) = Len(w) /\ \A i \in 1..Len(w) : tps[i] = NewTp(w[i])
HosRead(hos, w) == Len(hos) = Len(w) /\ \A i \in 1..Len(w) : hos[i] = NewHo(w[i], i)

ReadInv ==
  WellFormed(file) /\ stage = "parse" =>
    /\ EvsRead(bm.evs, ReadTo(file, "event", line))
    /\ TpsRead(bm.tps, ReadTo(file, "tp", line))
    /\ HosRead(bm.hos, ReadTo(file, "ho", line))

LEMMA AppendIs ==
  ASSUME NEW A, NEW s \in Seq(A), NEW e, NEW t, t = Append(s, e)
  PROVE  /\ Len(s) \in Nat /\ Len(t) = Len(s) + 1 /\ t[Len(s) + 1] = e
         /\ \A i \in 1..Len(s) : t[i] = s[i]
  OBVIOUS

\* A line of a well-formed file adds what it is.
LEMMA ReadIs ==
  ASSUME TypeInv, SecInv, ParseLine, WellFormed(file)
  PROVE  /\ Advances /\ SameHead(bm, bm')
         /\ bm'.evs = IF Line.k = "event" THEN Append(bm.evs, NewEvent(Line)) ELSE bm.evs
         /\ bm'.tps = IF Line.k = "tp" THEN Append(bm.tps, NewTp(Line)) ELSE bm.tps
         /\ bm'.hos = IF Line.k = "ho" THEN Append(bm.hos, NewHo(Line, Len(bm.hos) + 1)) ELSE bm.hos
<1>0. BmOK(bm) /\ bm \in Beatmaps
  BY DEF TypeInv, BmOK
<1>1. CASE Passed
  BY <1>1 DEF Passed, Skipped, SameHead
<1>2. CASE TpRead
  <2>1. Advances /\ Line \in Lines /\ Line.k = "tp"
    BY <1>2 DEF TpRead, ObjectRead, Advances
  <2>2. /\ SameHead(bm, bm') /\ bm'.hos = bm.hos /\ bm'.evs = bm.evs
        /\ bm'.tps = Append(bm.tps, NewTp(Line))
    BY <1>0, <1>2, <2>1, TpLine DEF TpRead
  <2>. QED
    BY <2>1, <2>2
<1>3. CASE HoRead
  BY <1>3, HoReadIs
<1>4. CASE EventRead
  <2>1. Advances /\ Line \in Lines /\ Line.k = "event"
    BY <1>4 DEF EventRead, ObjectRead, Advances
  <2>2. /\ SameHead(bm, bm') /\ bm'.hos = bm.hos /\ bm'.tps = bm.tps
        /\ bm'.evs = Append(bm.evs, NewEvent(Line))
    BY <1>0, <1>4, <2>1, EventLine DEF EventRead
  <2>. QED
    BY <2>1, <2>2
<1>5. CASE ColourRead
  <2>. DEFINE e == [combo |-> Line.combo, id |-> Line.id]
  <2>1. Advances /\ Line \in Lines /\ Line.k = "colour" /\ bm' \in WithColour(bm, e)
    BY <1>5 DEF ColourRead, ObjectRead, Advances
  <2>2. e \in Cols
    BY <2>1, LineIs
  <2>. HIDE DEF e
  <2>3. OnlyColours(bm, bm')
    BY <1>0, <2>1, <2>2, WithColourIs DEF BmOK
  <2>. QED
    BY <2>1, <2>3 DEF OnlyColours, SameObjects
<1>. QED
  BY <1>1, <1>2, <1>3, <1>4, <1>5, WellFormedStep

LEMMA ReadKept ==
  ASSUME TypeInv, SecInv, ReadInv, ParseLine, WellFormed(file)
  PROVE  /\ EvsRead(bm'.evs, ReadTo(file, "event", line + 1))
         /\ TpsRead(bm'.tps, ReadTo(file, "tp", line + 1))
         /\ HosRead(bm'.hos, ReadTo(file, "ho", line + 1))
<1>. DEFINE n == line + 1
           v(k) == ReadTo(file, k, line)
           w(k) == ReadTo(file, k, n)
<1>0. /\ file \in Files /\ bm \in Beatmaps /\ line \in 0..Len(file.lines) /\ n \in 1..Len(file.lines)
      /\ n - 1 = line /\ Line = file.lines[n] /\ stage = "parse"
  BY ReadIs DEF Advances, TypeInv, BmOK, Files, Line
<1>. HIDE DEF n
<1>1. \A k : /\ v(k) \in Seq(Lines)
             /\ w(k) = IF Line.k = k THEN Append(v(k), Line) ELSE v(k)
  <2>. SUFFICES ASSUME NEW k
                PROVE  v(k) \in Seq(Lines) /\ w(k) = IF Line.k = k THEN Append(v(k), Line) ELSE v(k)
    OBVIOUS
  <2>1. /\ \A m \in 1..Len(file.lines) :
             ReadTo(file, k, m) = IF file.lines[m].k = k
                                  THEN Append(ReadTo(file, k, m - 1), file.lines[m])
                                  ELSE ReadTo(file, k, m - 1)
        /\ \A m \in 0..Len(file.lines) : ReadTo(file, k, m) \in Seq(Lines)
    BY <1>0, ReadToIs
  <2>. QED
    BY <1>0, <2>1
<1>2. EvsRead(bm.evs, v("event")) /\ TpsRead(bm.tps, v("tp")) /\ HosRead(bm.hos, v("ho"))
  BY <1>0 DEF ReadInv
<1>. HIDE DEF v, w
<1>3. EvsRead(bm'.evs, w("event"))
  <2>1. CASE Line.k = "event"
    <3>. DEFINE s == bm.evs
               t == bm'.evs
               x == v("event")
               y == w("event")
    <3>1. s \in Seq(Evs) /\ t = Append(s, NewEvent(Line)) /\ x \in Seq(Lines) /\ y = Append(x, Line)
      BY <1>0, <1>1, <2>1, ReadIs DEF Beatmaps
    <3>2. Len(s) = Len(x) /\ \A i \in 1..Len(x) : s[i] = NewEvent(x[i])
      BY <1>2 DEF EvsRead
    <3>. HIDE DEF s, t, x, y
    <3>3. /\ Len(s) \in Nat /\ Len(t) = Len(s) + 1 /\ t[Len(s) + 1] = NewEvent(Line)
          /\ \A i \in 1..Len(s) : t[i] = s[i]
      BY <3>1, AppendIs
    <3>4. Len(y) = Len(x) + 1 /\ y[Len(x) + 1] = Line /\ \A i \in 1..Len(x) : y[i] = x[i]
      BY <3>1, AppendIs
    <3>5. ASSUME NEW i \in 1..Len(y)  PROVE t[i] = NewEvent(y[i])
      <4>1. i \in 1..Len(x) \/ i = Len(x) + 1
        BY <3>2, <3>3, <3>4
      <4>. QED
        BY <3>2, <3>3, <3>4, <4>1
    <3>6. EvsRead(t, y)
      BY <3>2, <3>3, <3>4, <3>5 DEF EvsRead
    <3>. QED
      BY <3>6 DEF t, y
  <2>2. CASE Line.k # "event"
    BY <1>1, <1>2, <2>2, ReadIs
  <2>. QED
    BY <2>1, <2>2
<1>4. TpsRead(bm'.tps, w("tp"))
  <2>1. CASE Line.k = "tp"
    <3>. DEFINE s == bm.tps
               t == bm'.tps
               x == v("tp")
               y == w("tp")
    <3>1. s \in Seq(Tps) /\ t = Append(s, NewTp(Line)) /\ x \in Seq(Lines) /\ y = Append(x, Line)
      BY <1>0, <1>1, <2>1, ReadIs DEF Beatmaps
    <3>2. Len(s) = Len(x) /\ \A i \in 1..Len(x) : s[i] = NewTp(x[i])
      BY <1>2 DEF TpsRead
    <3>. HIDE DEF s, t, x, y
    <3>3. /\ Len(s) \in Nat /\ Len(t) = Len(s) + 1 /\ t[Len(s) + 1] = NewTp(Line)
          /\ \A i \in 1..Len(s) : t[i] = s[i]
      BY <3>1, AppendIs
    <3>4. Len(y) = Len(x) + 1 /\ y[Len(x) + 1] = Line /\ \A i \in 1..Len(x) : y[i] = x[i]
      BY <3>1, AppendIs
    <3>5. ASSUME NEW i \in 1..Len(y)  PROVE t[i] = NewTp(y[i])
      <4>1. i \in 1..Len(x) \/ i = Len(x) + 1
        BY <3>2, <3>3, <3>4
      <4>. QED
        BY <3>2, <3>3, <3>4, <4>1
    <3>6. TpsRead(t, y)
      BY <3>2, <3>3, <3>4, <3>5 DEF TpsRead
    <3>. QED
      BY <3>6 DEF t, y
  <2>2. CASE Line.k # "tp"
    BY <1>1, <1>2, <2>2, ReadIs
  <2>. QED
    BY <2>1, <2>2
<1>5. HosRead(bm'.hos, w("ho"))
  <2>1. CASE Line.k = "ho"
    <3>. DEFINE s == bm.hos
               t == bm'.hos
               x == v("ho")
               y == w("ho")
    <3>1. /\ s \in Seq(Hos) /\ t = Append(s, NewHo(Line, Len(s) + 1)) /\ x \in Seq(Lines)
          /\ y = Append(x, Line)
      BY <1>0, <1>1, <2>1, ReadIs DEF Beatmaps
    <3>2. Len(s) = Len(x) /\ \A i \in 1..Len(x) : s[i] = NewHo(x[i], i)
      BY <1>2 DEF HosRead
    <3>. HIDE DEF s, t, x, y
    <3>3. /\ Len(s) \in Nat /\ Len(t) = Len(s) + 1 /\ t[Len(s) + 1] = NewHo(Line, Len(s) + 1)
          /\ \A i \in 1..Len(s) : t[i] = s[i]
      BY <3>1, AppendIs
    <3>4. Len(y) = Len(x) + 1 /\ y[Len(x) + 1] = Line /\ \A i \in 1..Len(x) : y[i] = x[i]
      BY <3>1, AppendIs
    <3>5. ASSUME NEW i \in 1..Len(y)  PROVE t[i] = NewHo(y[i], i)
      <4>1. i \in 1..Len(x) \/ i = Len(x) + 1
        BY <3>2, <3>3, <3>4
      <4>. QED
        BY <3>2, <3>3, <3>4, <4>1
    <3>6. HosRead(t, y)
      BY <3>2, <3>3, <3>4, <3>5 DEF HosRead
    <3>. QED
      BY <3>6 DEF t, y
  <2>2. CASE Line.k # "ho"
    BY <1>1, <1>2, <2>2, ReadIs
  <2>. QED
    BY <2>1, <2>2
<1>. QED
  BY <1>3, <1>4, <1>5 DEF w, n

LEMMA ReadInit == ASSUME Init  PROVE ReadInv
  BY DEF Init, ReadInv

LEMMA ReadStep == ASSUME TypeInv, SecInv, ReadInv, [Next]_vars  PROVE ReadInv'
<1>. SUFFICES ASSUME WellFormed(file'), stage' = "parse"
              PROVE  /\ EvsRead(bm'.evs, ReadTo(file', "event", line'))
                     /\ TpsRead(bm'.tps, ReadTo(file', "tp", line'))
                     /\ HosRead(bm'.hos, ReadTo(file', "ho", line'))
  BY DEF ReadInv
<1>1. CASE Open
  <2>1. file' \in Files /\ line' = 0 /\ bm'.hos = <<>> /\ bm'.tps = <<>> /\ bm'.evs = <<>>
    BY <1>1, OpenIs
  <2>2. \A k : ReadTo(file', k, 0) = <<>>
    BY <2>1, ReadToIs
  <2>. QED
    BY <2>1, <2>2 DEF EvsRead, TpsRead, HosRead
<1>2. CASE ParseLine
  <2>1. file' = file
    BY <1>2, ParseStep DEF Skipped, TpRead, HoRead, EventRead, ColourRead, Ignored, Stopped,
         ObjectRead, Advances, Stop, Misplaced
  <2>2. line' = line + 1
    BY <1>2, <2>1, ReadIs DEF Advances
  <2>. QED
    BY <1>2, <2>1, <2>2, ReadKept
<1>3. CASE Prepare
  <2>1. stage' \in {"crash", "tree"}
    BY <1>3, PrepareStep DEF NoPoint, Prepares, Stop
  <2>. QED
    BY <2>1
<1>4. CASE BuildTree
  <2>1. stage' # "parse"
    BY <1>4, BuildStep DEF TooDeep, Rooted, Orphan, Adopted, Built, Stop
  <2>. QED
    BY <2>1
<1>5. CASE PrepareEvents
  BY <1>5, FinishStep DEF Finishes
<1>6. CASE Autoconvert
  BY <1>6, ConvertStep DEF Converts
<1>7. CASE Free
  BY <1>7, FreeStep DEF FreeDone, Stop
<1>8. CASE UNCHANGED vars
  BY <1>8 DEF vars, ReadInv
<1>. QED
  BY <1>1, <1>2, <1>3, <1>4, <1>5, <1>6, <1>7, <1>8 DEF Next

-----------------------------------------------------------------------------
(***************************************************************************)
(* What the objects hold is allocated, once for each.                      *)
(***************************************************************************)
HeldIn(b) == \A i \in 1..Len(b.hos) : b.hos[i].res # NoRes => b.hos[i].res \in b.owned
OwnRes(b) == b.mode = "std" => \A i \in 1..Len(b.hos) : b.hos[i].res = i
ResOK(b) == HeldIn(b) /\ OwnRes(b)
ResInv == stage \in {"parse", "tree", "again", "loaded", "fail"} => ResOK(bm)

LEMMA ResSame ==
  ASSUME NEW b, NEW c, ResOK(b), c.owned = b.owned, c.mode = b.mode, Len(c.hos) = Len(b.hos),
         \A i \in 1..Len(b.hos) : c.hos[i].res = b.hos[i].res
  PROVE  ResOK(c)
  BY DEF ResOK, HeldIn, OwnRes

LEMMA ResHo ==
  ASSUME NEW b \in Beatmaps, ResOK(b), NEW e, NEW n, n = Len(b.hos) + 1, e.res = n,
         NEW c, c.hos = Append(b.hos, e), c.owned = b.owned \cup {n}, c.mode = b.mode
  PROVE  ResOK(c)
<1>. DEFINE s == b.hos
           t == c.hos
<1>1. s \in Seq(Hos) /\ t = Append(s, e)
  BY DEF Beatmaps
<1>. HIDE DEF s, t
<1>2. /\ Len(s) \in Nat /\ Len(t) = Len(s) + 1 /\ t[Len(s) + 1] = e
      /\ \A i \in 1..Len(s) : t[i] = s[i]
  BY <1>1, AppendIs
<1>3. Len(t) = n /\ n - 1 \in Nat /\ t[n] = e /\ \A i \in 1..n : i = n \/ (i \in 1..Len(s) /\ t[i] = s[i])
  BY <1>2 DEF s
<1>4. /\ \A i \in 1..Len(s) : s[i].res # NoRes => s[i].res \in b.owned
      /\ b.mode = "std" => \A i \in 1..Len(s) : s[i].res = i
  BY DEF ResOK, HeldIn, OwnRes, s
<1>5. /\ \A i \in 1..n : t[i].res # NoRes => t[i].res \in c.owned
      /\ c.mode = "std" => \A i \in 1..n : t[i].res = i
  BY <1>3, <1>4
<1>. QED
  BY <1>3, <1>5 DEF ResOK, HeldIn, OwnRes, t

\* What is not freed by the conversion is not what was.
LEMMA ResConverted ==
  ASSUME NEW b, BmOK(b), Ready(b), ResOK(b), b.mode = "std", NEW c,
         c.hos = ConvertedHos(b), c.owned = b.owned \ Freed(b), c.mode = "taiko"
  PROVE  ResOK(c)
<1>. DEFINE N == Len(b.hos)
           w == ConvertedHos(b)
           ss == Pieces(b)
<1>1. b \in Beatmaps /\ Based(b.tps) /\ Repeats(b.hos) /\ (b.hos # <<>> => b.tps # <<>>)
  BY DEF BmOK, Ready
<1>2. /\ w \in Seq(Hos) /\ \E at, of : Gathered(at, of, w, ss, N)
  BY <1>1, ConvertedHosAre
<1>3. \A i \in 1..N : PieceIs(b, i, ss[i])
  BY <1>1, PiecesAre
<1>3a. \A i \in 1..N : b.hos[i].res = i
  BY DEF ResOK, OwnRes
<1>3b. Freed(b) = {i \in 1..N : TooShort(b, b.hos[i], b.tps[TpOf(b)[i]])}
  <2>1. DOMAIN b.hos = 1..N
    BY <1>1 DEF Beatmaps
  <2>. QED
    BY <1>3a, <2>1 DEF Freed, Replaced
<1>. HIDE DEF w, ss
<1>4. PICK at, of : Gathered(at, of, w, ss, N)
  BY <1>2
<1>5. ASSUME NEW k \in 1..Len(w), w[k].res # NoRes  PROVE w[k].res \in c.owned
  <2>. DEFINE i == at[k]
             tp == b.tps[TpOf(b)[i]]
             ho == b.hos[i]
             d == Duration(b, ho, tp)
             short == TooShort(b, ho, tp)
  <2>1. i \in 1..N /\ of[k] \in 1..Len(ss[i]) /\ w[k] = ss[i][of[k]]
    BY <1>4 DEF Gathered
  <2>2. /\ short => Circles(ho, d, ss[i])
        /\ ho.type = "hold" => ss[i] = <<>>
        /\ ho.type # "hold" /\ ~short => ss[i] = <<ho>>
    BY <1>3, <2>1 DEF PieceIs
  <2>3. ho.res = i /\ (i \in Freed(b) => short) /\ (ho.res # NoRes => ho.res \in b.owned)
    BY <1>3a, <1>3b, <2>1 DEF ResOK, HeldIn
  <2>. HIDE DEF i, tp, ho, d, short
  <2>4. ~short
    <3>1. short => w[k].res = NoRes
      BY <2>1, <2>2 DEF Circles
    <3>. QED
      BY <1>5, <3>1
  <2>5. ho.type # "hold"
    <3>1. Len(<<>>) = 0
      OBVIOUS
    <3>. QED
      BY <2>1, <2>2, <3>1
  <2>6. w[k] = ho
    BY <2>1, <2>2, <2>4, <2>5
  <2>. QED
    BY <1>5, <2>3, <2>4, <2>6
<1>. QED
  BY <1>5 DEF ResOK, HeldIn, OwnRes, w

\* What a line does to the objects, in whatever file.
LEMMA ReadObjects ==
  ASSUME TypeInv, ParseLine
  PROVE  /\ stage = "parse" /\ file' = file /\ stage' \in {"parse", "fail", "crash"}
         /\ bm'.mode = bm.mode
         /\ \/ bm'.hos = bm.hos /\ bm'.owned = bm.owned
            \/ /\ bm'.hos = Append(bm.hos, NewHo(Line, Len(bm.hos) + 1))
               /\ bm'.owned = bm.owned \cup {Len(bm.hos) + 1}
<1>0. BmOK(bm) /\ bm \in Beatmaps
  BY DEF TypeInv, BmOK
<1>a. stage = "parse" /\ file' = file /\ stage' \in {"parse", "fail", "crash"}
  BY ParseStep DEF Skipped, TpRead, HoRead, EventRead, ColourRead, Ignored, Stopped,
       ObjectRead, Advances, Stop, Misplaced
<1>1. CASE Skipped
  BY <1>1, <1>a DEF Skipped
<1>2. CASE TpRead
  <2>1. Line \in Lines /\ Line.k = "tp"
    BY <1>2 DEF TpRead, ObjectRead, Advances
  <2>2. SameHead(bm, bm') /\ bm'.hos = bm.hos /\ bm'.owned = bm.owned
    BY <1>0, <1>2, <2>1, TpLine DEF TpRead
  <2>. QED
    BY <1>a, <2>2 DEF SameHead
<1>3. CASE HoRead
  BY <1>3, <1>a, HoReadIs DEF SameHead
<1>4. CASE EventRead
  <2>1. Line \in Lines /\ Line.k = "event"
    BY <1>4 DEF EventRead, ObjectRead, Advances
  <2>2. SameHead(bm, bm') /\ bm'.hos = bm.hos /\ bm'.owned = bm.owned
    BY <1>0, <1>4, <2>1, EventLine DEF EventRead
  <2>. QED
    BY <1>a, <2>2 DEF SameHead
<1>5. CASE ColourRead
  <2>. DEFINE e == [combo |-> Line.combo, id |-> Line.id]
  <2>1. Line \in Lines /\ Line.k = "colour" /\ bm' \in WithColour(bm, e)
    BY <1>5 DEF ColourRead, ObjectRead, Advances
  <2>2. e \in Cols
    BY <2>1, LineIs
  <2>. HIDE DEF e
  <2>3. OnlyColours(bm, bm')
    BY <1>0, <2>1, <2>2, WithColourIs DEF BmOK
  <2>. QED
    BY <1>a, <2>3 DEF OnlyColours, SameObjects, SameHead
<1>6. CASE Ignored
  <2>1. bm.cols # <<>>
    BY <1>6 DEF Ignored
  <2>2. PICK g \in Grown(bm) : bm' \in Listed(g, Len(g.cols))
    BY <1>6 DEF Ignored
  <2>3. OnlyColours(bm, bm')
    BY <1>0, <2>1, <2>2, IgnoredIs
  <2>. QED
    BY <1>a, <2>3 DEF OnlyColours, SameObjects, SameHead
<1>7. CASE Stopped
  BY <1>7, <1>a DEF Stopped, Stop
<1>. QED
  BY <1>1, <1>2, <1>3, <1>4, <1>5, <1>6, <1>7, ParseStep

LEMMA ResInit == ASSUME Init  PROVE ResInv
  BY DEF Init, ResInv

LEMMA ResStep == ASSUME TypeInv, ResInv, [Next]_vars  PROVE ResInv'
<1>0. BmOK(bm) /\ bm \in Beatmaps
  BY DEF TypeInv, BmOK
<1>1. CASE Open
  <2>1. bm'.hos = <<>>
    BY <1>1, OpenIs
  <2>2. ResOK(bm')
    BY <2>1 DEF ResOK, HeldIn, OwnRes
  <2>. QED
    BY <2>2 DEF ResInv
<1>2. CASE ParseLine
  <2>1. stage = "parse" /\ bm'.mode = bm.mode
    BY <1>2, ReadObjects
  <2>2. ResOK(bm)
    BY <2>1 DEF ResInv
  <2>3. CASE bm'.hos = bm.hos /\ bm'.owned = bm.owned
    <3>1. ResOK(bm')
      BY <2>1, <2>2, <2>3, ResSame
    <3>. QED
      BY <3>1 DEF ResInv
  <2>4. CASE /\ bm'.hos = Append(bm.hos, NewHo(Line, Len(bm.hos) + 1))
             /\ bm'.owned = bm.owned \cup {Len(bm.hos) + 1}
    <3>. DEFINE n == Len(bm.hos) + 1
               e == NewHo(Line, n)
    <3>1. e.res = n
      BY DEF NewHo
    <3>. HIDE DEF e
    <3>2. ResOK(bm')
      BY <1>0, <2>1, <2>2, <2>4, <3>1, ResHo DEF e
    <3>. QED
      BY <3>2 DEF ResInv
  <2>. QED
    BY <1>2, <2>3, <2>4, ReadObjects
<1>3. CASE Prepare
  <2>1. CASE NoPoint
    BY <2>1 DEF NoPoint, Stop, ResInv
  <2>2. CASE \E c : Prepares(c)
    <3>1. PICK c : Prepares(c)
      BY <2>2
    <3>2. /\ BmOK(c) /\ Ready(c) /\ bm' = PreparedHos(c) /\ c.hos = bm.hos /\ c.owned = bm.owned
          /\ stage \in {"parse", "again"} /\ c.mode = bm.mode
      BY <3>1 DEF Prepares, Coloured, SameHead
    <3>3. /\ bm'.owned = c.owned /\ Len(bm'.hos) = Len(c.hos) /\ bm'.mode = c.mode
          /\ \A i \in 1..Len(c.hos) : SameObject(c.hos[i], bm'.hos[i])
      BY <3>2, HosPrepared DEF SameHead
    <3>4. ResOK(bm)
      BY <3>2 DEF ResInv
    <3>5. ResOK(bm')
      BY <3>2, <3>3, <3>4, ResSame DEF SameObject
    <3>. QED
      BY <3>5 DEF ResInv
  <2>. QED
    BY <1>3, <2>1, <2>2, PrepareStep
<1>4. CASE BuildTree
  <2>1. bm'.hos = bm.hos /\ bm'.owned = bm.owned /\ bm'.mode = bm.mode /\ stage = "tree"
    <3>0. stage = "tree"
      BY <1>4 DEF BuildTree
    <3>1. CASE Adopted
      BY <3>0, <3>1, AdoptedIs DEF OtherEvents, SameHead
    <3>2. CASE ~Adopted
      BY <1>4, <3>0, <3>2, BuildStep DEF TooDeep, Rooted, Orphan, Stop
    <3>. QED
      BY <3>1, <3>2
  <2>2. ResOK(bm')
    BY <2>1, ResSame DEF ResInv
  <2>. QED
    BY <2>2 DEF ResInv
<1>5. CASE PrepareEvents
  <2>1. stage = "tree" /\ bm'.hos = bm.hos /\ bm'.owned = bm.owned /\ bm'.mode = bm.mode
    BY <1>5, FinishStep DEF Finishes
  <2>2. ResOK(bm')
    BY <2>1, ResSame DEF ResInv
  <2>. QED
    BY <2>2 DEF ResInv
<1>6. CASE Autoconvert
  <2>1. /\ stage = "loaded" /\ bm.mode = "std" /\ bm'.mode = "taiko"
        /\ bm'.hos = ConvertedHos(bm) /\ bm'.owned = bm.owned \ Freed(bm)
    BY <1>6, ConvertStep DEF Converts
  <2>2. ResOK(bm) /\ Ready(bm)
    BY <2>1 DEF ResInv, TypeInv, Phase
  <2>3. ResOK(bm')
    BY <1>0, <2>1, <2>2, ResConverted
  <2>. QED
    BY <2>3 DEF ResInv
<1>7. CASE Free
  <2>1. stage' \in {"idle", "crash"}
    BY <1>7, FreeStep DEF FreeDone, Stop
  <2>. QED
    BY <2>1 DEF ResInv
<1>8. CASE UNCHANGED vars
  <2>1. stage' = stage /\ bm' = bm
    BY <1>8 DEF vars
  <2>. QED
    BY <2>1 DEF ResInv
<1>. QED
  BY <1>1, <1>2, <1>3, <1>4, <1>5, <1>6, <1>7, <1>8 DEF Next

-----------------------------------------------------------------------------
(***************************************************************************)
(* The tree of events.                                                     *)
(***************************************************************************)
Events == LinesOf(file, "event")
IsEvents(L) == L \in Seq(Lines) /\ \A i \in 1..Len(L) : L[i].k = "event"

\* The last of the first n events that is of level l.
LastOf(L, l, n) == Max({0} \cup {j \in 1..n : L[j].level = l})

LEMMA LastOfIs ==
  ASSUME NEW L, IsEvents(L), NEW l
  PROVE  /\ LastOf(L, l, 0) = 0
         /\ \A n \in 1..Len(L) : LastOf(L, l, n) = IF L[n].level = l THEN n ELSE LastOf(L, l, n - 1)
         /\ \A n \in 0..Len(L) :
              /\ LastOf(L, l, n) \in 0..n
              /\ LastOf(L, l, n) # 0 => L[LastOf(L, l, n)].level = l
              /\ \A j \in 1..n : L[j].level = l => j <= LastOf(L, l, n)
<1>. DEFINE S(n) == {0} \cup {j \in 1..n : L[j].level = l}
           last(n) == LastOf(L, l, n)
<1>0. Len(L) \in Nat
  BY DEF IsEvents
<1>1. \A n : last(n) = Max(S(n))
  BY DEF LastOf
<1>2. \A n \in Nat : S(n) \in SUBSET (0..n) /\ S(n) # {}
  OBVIOUS
<1>3. \A n, j : j \in S(n) <=> j = 0 \/ (j \in 1..n /\ L[j].level = l)
  OBVIOUS
<1>. HIDE DEF S, last
<1>4. ASSUME NEW n \in Nat
      PROVE  last(n) \in S(n) /\ last(n) \in 0..n /\ \A j \in S(n) : j <= last(n)
  <2>. DEFINE T == S(n)
  <2>1. T \in SUBSET (0..n) /\ T # {} /\ last(n) = Max(T)
    BY <1>1, <1>2
  <2>. HIDE DEF T
  <2>2. \A m \in Int : T \in SUBSET (m..n) => /\ Max(T) \in T /\ Max(T) \in m..n
                                             /\ \A x \in T : x <= Max(T)
    <3>1. n \in Int /\ T # {}
      BY <2>1
    <3>. QED
      BY <3>1, IntervalMax
  <2>3. Max(T) \in T /\ Max(T) \in 0..n /\ \A x \in T : x <= Max(T)
    BY <2>1, <2>2
  <2>. QED
    BY <2>1, <2>3 DEF T
<1>5. last(0) = 0
  BY <1>4
<1>6. ASSUME NEW n \in 1..Len(L)
      PROVE  last(n) = IF L[n].level = l THEN n ELSE last(n - 1)
  <2>1. n \in Nat /\ n - 1 \in Nat
    BY <1>0
  <2>2. CASE L[n].level = l
    <3>1. n \in S(n)
      BY <1>3, <2>2
    <3>2. n <= last(n) /\ last(n) <= n /\ last(n) \in Int
      BY <1>4, <2>1, <3>1
    <3>. QED
      BY <2>1, <2>2, <3>2
  <2>3. CASE L[n].level # l
    <3>1. last(n) \in S(n - 1)
      BY <1>3, <1>4, <2>1, <2>3
    <3>2. last(n - 1) \in S(n)
      BY <1>3, <1>4, <2>1
    <3>3. last(n) <= last(n - 1) /\ last(n - 1) <= last(n) /\ last(n) \in Int /\ last(n - 1) \in Int
      BY <1>4, <2>1, <3>1, <3>2
    <3>. QED
      BY <2>3, <3>3
  <2>. QED
    BY <2>2, <2>3
<1>7. ASSUME NEW n \in 0..Len(L)
      PROVE  /\ last(n) \in 0..n
             /\ last(n) # 0 => L[last(n)].level = l
             /\ \A j \in 1..n : L[j].level = l => j <= last(n)
  <2>1. n \in Nat
    BY <1>0
  <2>. QED
    BY <1>3, <1>4, <2>1
<1>. QED
  BY <1>5, <1>6, <1>7 DEF last

\* In a nested list every event has one of each level above its own before it.
LEMMA NestedIs ==
  ASSUME NEW L, IsEvents(L), Nested(L)
  PROVE  \A i \in 1..Len(L) : \A l \in 0..L[i].level - 1 : \E j \in 1..i - 1 : L[j].level = l
<1>. DEFINE Good(i) == \A l \in 0..L[i].level - 1 : \E j \in 1..i - 1 : L[j].level = l
           S == {n \in Nat : n + 1 \in 1..Len(L) => Good(n + 1)}
<1>0. Len(L) \in Nat /\ DOMAIN L = 1..Len(L) /\ \A i \in 1..Len(L) : L[i].level \in Nat
  BY EventLineIs DEF IsEvents
<1>1. \A i \in 1..Len(L) : L[i].level > 0 => i > 1 /\ L[i].level <= L[i - 1].level + 1
  BY <1>0 DEF Nested
<1>2. 0 \in S
  <2>1. ASSUME 1 \in 1..Len(L)  PROVE Good(1)
    <3>1. L[1].level = 0
      BY <1>0, <1>1, <2>1
    <3>. QED
      BY <3>1
  <2>. QED
    BY <2>1
<1>3. ASSUME NEW n \in Nat, n \in S  PROVE n + 1 \in S
  <2>1. ASSUME n + 2 \in 1..Len(L)  PROVE Good(n + 2)
    <3>1. n + 1 \in 1..Len(L) /\ Good(n + 1) /\ n + 2 - 1 = n + 1
      BY <1>0, <1>3, <2>1
    <3>2. SUFFICES ASSUME NEW l \in 0..L[n + 2].level - 1
                   PROVE  \E j \in 1..n + 1 : L[j].level = l
      BY <3>1
    <3>. DEFINE a == L[n + 1].level
               c == L[n + 2].level
    <3>3. a \in Nat /\ c \in Nat /\ c > 0 /\ l \in 0..c - 1
      BY <1>0, <2>1, <3>1
    <3>4. c <= a + 1
      BY <1>1, <2>1, <3>1, <3>3
    <3>5. CASE l = a
      BY <3>5
    <3>6. CASE l # a
      <4>. HIDE DEF c
      <4>1. l \in 0..a - 1
        <5>. HIDE DEF a
        <5>. QED
          BY <3>3, <3>4, <3>6
      <4>2. PICK j \in 1..n + 1 - 1 : L[j].level = l
        BY <3>1, <4>1
      <4>. QED
        BY <4>2
    <3>. QED
      BY <3>5, <3>6
  <2>2. n + 1 + 1 = n + 2
    OBVIOUS
  <2>. QED
    BY <2>1, <2>2
<1>4. \A n \in Nat : n \in S
  <2>. HIDE DEF S
  <2>. QED
    BY <1>2, <1>3, NatSetInduction
<1>5. ASSUME NEW i \in 1..Len(L)  PROVE Good(i)
  <2>1. i - 1 \in Nat /\ i - 1 + 1 = i
    BY <1>0
  <2>. QED
    BY <1>4, <2>1
<1>. QED
  BY <1>5

LEMMA ParentOfIs ==
  ASSUME NEW L, IsEvents(L), NEW i \in 1..Len(L)
  PROVE  /\ ParentOf(L, i) = LastOf(L, L[i].level - 1, i - 1)
         /\ ParentOf(L, i) \in 0..i - 1
         /\ ParentOf(L, i) # 0 => L[ParentOf(L, i)].level = L[i].level - 1
         /\ Nested(L) /\ L[i].level > 0 => ParentOf(L, i) \in 1..i - 1 /\ MayHaveChilds(L[ParentOf(L, i)])
<1>0. Len(L) \in Nat /\ DOMAIN L = 1..Len(L) /\ L[i].level \in Nat
  BY EventLineIs DEF IsEvents
<1>1. ParentOf(L, i) = LastOf(L, L[i].level - 1, i - 1)
  BY DEF ParentOf, LastOf
<1>. DEFINE m == i - 1
           l == L[i].level - 1
           p == ParentOf(L, i)
<1>2. m \in 0..Len(L)
  BY <1>0
<1>. HIDE DEF m, l, p
<1>3. p = LastOf(L, l, m)
  BY <1>1 DEF m, l, p
<1>4. p \in 0..m /\ (p # 0 => L[p].level = l) /\ \A j \in 1..m : L[j].level = l => j <= p
  BY <1>2, <1>3, LastOfIs
<1>5. ASSUME Nested(L), L[i].level > 0  PROVE p \in 1..m /\ MayHaveChilds(L[p])
  <2>1. MayHaveChilds(L[p])
    BY <1>0, <1>5 DEF Nested, p
  <2>2. l \in 0..L[i].level - 1
    BY <1>0, <1>5 DEF l
  <2>3. PICK j \in 1..m : L[j].level = l
    BY <1>5, <2>2, NestedIs DEF m
  <2>4. j <= p
    BY <1>4, <2>3
  <2>5. p \in 1..m
    BY <1>2, <1>4, <2>4
  <2>. QED
    BY <2>1, <2>5
<1>. QED
  BY <1>1, <1>4, <1>5 DEF m, l, p

\* The events are those of the lines.
Shape(evs, L) ==
  /\ Len(evs) = Len(L)
  /\ \A i \in 1..Len(L) : /\ evs[i].type = L[i].type /\ evs[i].level = L[i].level
                          /\ evs[i].easing = L[i].easing

LEMMA ShapeIs ==
  ASSUME NEW L, IsEvents(L), NEW evs \in Seq(Evs), Shape(evs, L), NEW i \in 1..Len(L)
  PROVE  /\ ParentOf(evs, i) = ParentOf(L, i)
         /\ MayHaveChilds(evs[i]) <=> MayHaveChilds(L[i])
<1>0. Len(L) \in Nat
  BY DEF IsEvents
<1>. DEFINE A == {j \in 1..(i - 1) : evs[j].level = evs[i].level - 1}
           B == {j \in 1..(i - 1) : L[j].level = L[i].level - 1}
<1>1. A = B
  <2>1. \A j \in 1..(i - 1) : j \in 1..Len(L)
    BY <1>0
  <2>2. \A j \in 1..(i - 1) : evs[j].level = L[j].level
    BY <2>1 DEF Shape
  <2>3. evs[i].level = L[i].level
    BY DEF Shape
  <2>. QED
    BY <2>2, <2>3
<1>2. ParentOf(evs, i) = Max({0} \cup A) /\ ParentOf(L, i) = Max({0} \cup B)
  BY DEF ParentOf
<1>3. MayHaveChilds(evs[i]) <=> MayHaveChilds(L[i])
  BY DEF Shape, MayHaveChilds, Compound
<1>. HIDE DEF A, B
<1>. QED
  BY <1>1, <1>2, <1>3

\* The events below the i-th one, and the first n of them as children.
Below(L, i) == {j \in 1..Len(L) : L[j].level > 0 /\ ParentOf(L, j) = i}
EventPtrs(L, load) == [j \in 1..Len(L) |-> [load |-> load, at |-> j]]
Kids(L, load, i, n) == KeptTo(EventPtrs(L, load), Below(L, i), n)

LEMMA KidsAre ==
  ASSUME NEW L, IsEvents(L), NEW load \in Nat, NEW i
  PROVE  /\ Kids(L, load, i, 0) = <<>>
         /\ \A n \in 1..Len(L) :
              Kids(L, load, i, n) = IF L[n].level > 0 /\ ParentOf(L, n) = i
                                    THEN Append(Kids(L, load, i, n - 1), [load |-> load, at |-> n])
                                    ELSE Kids(L, load, i, n - 1)
         /\ \A n \in 0..Len(L) : Kids(L, load, i, n) \in Seq(EventPointers)
<1>. DEFINE P == EventPtrs(L, load)
           T == Below(L, i)
<1>1. Len(L) \in Nat
  BY DEF IsEvents
<1>2. P \in Seq(EventPointers) /\ Len(P) = Len(L) /\ \A n \in 1..Len(L) : P[n] = [load |-> load, at |-> n]
  <2>1. \A n \in 1..Len(L) : [load |-> load, at |-> n] \in EventPointers
    BY <1>1 DEF EventPointers
  <2>. QED
    BY <1>1, <2>1 DEF EventPtrs
<1>3. \A n \in 1..Len(L) : n \in T <=> L[n].level > 0 /\ ParentOf(L, n) = i
  BY DEF Below
<1>4. \A n : Kids(L, load, i, n) = KeptTo(P, T, n)
  BY DEF Kids
<1>. HIDE DEF P, T
<1>5. /\ KeptTo(P, T, 0) = <<>>
      /\ \A n \in 1..Len(P) : KeptTo(P, T, n) = IF n \in T THEN Append(KeptTo(P, T, n - 1), P[n])
                                               ELSE KeptTo(P, T, n - 1)
      /\ \A n \in 0..Len(P) : /\ KeptTo(P, T, n) \in Seq(EventPointers)
                             /\ \E pos : KeptAt(pos, KeptTo(P, T, n), P, T, n)
  <2>1. P \in Seq(EventPointers)
    BY <1>2
  <2>. QED
    BY <2>1, KeptToIs
<1>6. Kids(L, load, i, 0) = <<>>
  BY <1>4, <1>5
<1>7. \A n \in 0..Len(L) : Kids(L, load, i, n) \in Seq(EventPointers)
  BY <1>2, <1>4, <1>5
<1>8. \A n \in 1..Len(L) :
        Kids(L, load, i, n) = IF L[n].level > 0 /\ ParentOf(L, n) = i
                              THEN Append(Kids(L, load, i, n - 1), [load |-> load, at |-> n])
                              ELSE Kids(L, load, i, n - 1)
  BY <1>2, <1>3, <1>4, <1>5
<1>. QED
  BY <1>6, <1>7, <1>8

\* The children of i after all events k times and the first n once more (k <= 1).
AllKids(L, load, i, k, n) ==
  IF k = 0 THEN Kids(L, load, i, n) ELSE Kids(L, load, i, Len(L)) \o Kids(L, load, i, n)

LEMMA AllKidsStart ==
  ASSUME NEW L, IsEvents(L), NEW load \in Nat, NEW i
  PROVE  /\ AllKids(L, load, i, 0, 0) = <<>>
         /\ AllKids(L, load, i, 1, 0) = AllKids(L, load, i, 0, Len(L))
<1>. DEFINE all == Kids(L, load, i, Len(L))
           none == Kids(L, load, i, 0)
<1>1. none = <<>>
  BY KidsAre
<1>2. all \in Seq(EventPointers)
  <2>1. Len(L) \in 0..Len(L)
    BY DEF IsEvents
  <2>. QED
    BY <2>1, KidsAre
<1>3. /\ AllKids(L, load, i, 0, 0) = none /\ AllKids(L, load, i, 0, Len(L)) = all
      /\ AllKids(L, load, i, 1, 0) = all \o none
  BY DEF AllKids
<1>. HIDE DEF all, none
<1>4. all \o <<>> = all
  BY <1>2
<1>. QED
  BY <1>1, <1>3, <1>4

\* What one more event adds.
LEMMA AllKidsNext ==
  ASSUME NEW L, IsEvents(L), NEW load \in Nat, NEW k \in {0, 1}, NEW i \in 1..Len(L),
         NEW m, m = i - 1
  PROVE  \A j : AllKids(L, load, j, k, i) =
                  IF L[i].level > 0 /\ ParentOf(L, i) = j
                  THEN Append(AllKids(L, load, j, k, m), [load |-> load, at |-> i])
                  ELSE AllKids(L, load, j, k, m)
<1>. SUFFICES ASSUME NEW j
              PROVE  AllKids(L, load, j, k, i) =
                       IF L[i].level > 0 /\ ParentOf(L, i) = j
                       THEN Append(AllKids(L, load, j, k, m), [load |-> load, at |-> i])
                       ELSE AllKids(L, load, j, k, m)
  OBVIOUS
<1>. DEFINE all == Kids(L, load, j, Len(L))
           v == Kids(L, load, j, m)
           w == Kids(L, load, j, i)
           p == [load |-> load, at |-> i]
           below == L[i].level > 0 /\ ParentOf(L, i) = j
<1>1. m \in 0..Len(L) /\ Len(L) \in 0..Len(L) /\ i \in Nat
  BY DEF IsEvents
<1>2. all \in Seq(EventPointers) /\ v \in Seq(EventPointers)
  BY <1>1, KidsAre
<1>3. p \in EventPointers
  BY <1>1 DEF EventPointers
<1>4. w = IF below THEN Append(v, p) ELSE v
  <2>1. Kids(L, load, j, i) = IF L[i].level > 0 /\ ParentOf(L, i) = j
                              THEN Append(Kids(L, load, j, i - 1), [load |-> load, at |-> i])
                              ELSE Kids(L, load, j, i - 1)
    <3>. HIDE DEF all, v, w, p, below
    <3>. QED
      BY KidsAre, Zenon
  <2>. QED
    BY <2>1
<1>5. /\ AllKids(L, load, j, k, i) = IF k = 0 THEN w ELSE all \o w
      /\ AllKids(L, load, j, k, m) = IF k = 0 THEN v ELSE all \o v
  BY DEF AllKids
<1>. HIDE DEF all, v, w, p, below
<1>6. all \o Append(v, p) = Append(all \o v, p)
  BY <1>2, <1>3
<1>7. AllKids(L, load, j, k, i) = IF below THEN Append(AllKids(L, load, j, k, m), p)
                                 ELSE AllKids(L, load, j, k, m)
  BY <1>4, <1>5, <1>6
<1>. QED
  BY <1>7 DEF p, below

\* The tree when the events were added k times, and the first n once more.
ParentsAt(evs, L, load, k, n) ==
  \A i \in 1..Len(L) :
    /\ L[i].level = 0 => evs[i].parent = NoEvent
    /\ L[i].level > 0 /\ (i <= n \/ k = 1) => evs[i].parent = [load |-> load, at |-> ParentOf(L, i)]
ChildsAt(evs, L, load, k, n) ==
  \A i \in 1..Len(L) : evs[i].childs = AllKids(L, load, i, k, n)
TreeAt(b, L, k, n) ==
  Shape(b.evs, L) /\ ParentsAt(b.evs, L, b.load, k, n) /\ ChildsAt(b.evs, L, b.load, k, n)

StackAt(stack, L, load, n) ==
  \A l \in 0..MaxLevel - 1 : LastOf(L, l, n) # 0 => stack[l] = [load |-> load, at |-> LastOf(L, l, n)]

TreeInv ==
  WellFormed(file) =>
    /\ stage = "tree" => /\ TreeAt(bm, Events, bm.prepared, line)
                         /\ StackAt(event_stack, Events, bm.load, line)
    /\ stage \in {"again", "loaded"} => TreeAt(bm, Events, bm.prepared - 1, Len(Events))

LEMMA EventsIs ==
  ASSUME TypeInv, WellFormed(file)
  PROVE  /\ IsEvents(Events) /\ Nested(Events)
         /\ \A i \in 1..Len(Events) : Events[i] \in Lines /\ Events[i].level \in 0..MaxLevel - 1
<1>. DEFINE L == Events
<1>1. file \in Files
  BY DEF TypeInv
<1>2. L = ReadTo(file, "event", Len(file.lines)) /\ Len(file.lines) \in 0..Len(file.lines)
  BY <1>1, ReadToIs DEF Events, Files
<1>3. IsEvents(L)
  BY <1>1, <1>2, ReadToIs DEF IsEvents
<1>4. Nested(L) /\ \A l \in ToSet(L) : l.level < MaxLevel
  BY DEF WellFormed, Events
<1>. HIDE DEF L
<1>5. ASSUME NEW i \in 1..Len(L)  PROVE L[i] \in Lines /\ L[i].level \in 0..MaxLevel - 1
  <2>1. L[i] \in Lines /\ L[i].k = "event" /\ L[i] \in ToSet(L)
    BY <1>3 DEF IsEvents, ToSet
  <2>2. L[i].level \in Nat /\ L[i].level < MaxLevel /\ MaxLevel \in Nat
    BY <1>4, <2>1, EventLineIs, BeatmapAssumption
  <2>. QED
    BY <2>1, <2>2
<1>. QED
  BY <1>3, <1>4, <1>5 DEF L

LEMMA ShapeSame ==
  ASSUME NEW L, NEW e, NEW f, Shape(e, L), Len(f) = Len(e),
         \A i \in 1..Len(e) : SameEvent(e[i], f[i])
  PROVE  Shape(f, L)
  BY DEF Shape, SameEvent

\* Of the lines there is a tree without any branch.
LEMMA TreeOfLines ==
  ASSUME NEW L, IsEvents(L), NEW b \in Beatmaps, EvsRead(b.evs, L)
  PROVE  TreeAt(b, L, 0, 0)
<1>. DEFINE evs == b.evs
<1>1. Len(evs) = Len(L) /\ Len(L) \in Nat /\ b.load \in Nat
  BY DEF EvsRead, IsEvents, Beatmaps
<1>2. \A i \in 1..Len(L) : /\ evs[i].type = L[i].type /\ evs[i].level = L[i].level
                           /\ evs[i].easing = L[i].easing /\ evs[i].parent = NoEvent
                           /\ evs[i].childs = <<>>
  <2>1. \A i \in 1..Len(L) : evs[i] = NewEvent(L[i])
    BY DEF EvsRead
  <2>2. \A l : /\ NewEvent(l).type = l.type /\ NewEvent(l).level = l.level
               /\ NewEvent(l).easing = l.easing /\ NewEvent(l).parent = NoEvent
               /\ NewEvent(l).childs = <<>>
    BY DEF NewEvent
  <2>. HIDE DEF evs
  <2>. QED
    BY <2>1, <2>2
<1>3. \A i \in 1..Len(L) : AllKids(L, b.load, i, 0, 0) = <<>>
  BY <1>1, AllKidsStart
<1>4. \A i \in 1..Len(L) : ~(i <= 0)
  BY <1>1
<1>. HIDE DEF evs
<1>5. Shape(evs, L)
  BY <1>1, <1>2 DEF Shape
<1>6. ParentsAt(evs, L, b.load, 0, 0)
  BY <1>2, <1>4 DEF ParentsAt
<1>7. ChildsAt(evs, L, b.load, 0, 0)
  BY <1>2, <1>3 DEF ChildsAt
<1>. QED
  BY <1>5, <1>6, <1>7 DEF TreeAt, evs

\* Before it is built again it is what it was.
LEMMA TreeAgain ==
  ASSUME NEW L, IsEvents(L), NEW b \in Beatmaps, TreeAt(b, L, 0, Len(L)), NEW c, c.evs = b.evs,
         c.load = b.load
  PROVE  TreeAt(c, L, 1, 0)
<1>1. b.load \in Nat
  BY DEF Beatmaps
<1>2. \A i \in 1..Len(L) : AllKids(L, b.load, i, 1, 0) = AllKids(L, b.load, i, 0, Len(L))
  BY <1>1, AllKidsStart
<1>3. \A i \in 1..Len(L) : i <= Len(L)
  BY DEF IsEvents
<1>4. ParentsAt(b.evs, L, b.load, 1, 0)
  BY <1>3 DEF TreeAt, ParentsAt
<1>5. ChildsAt(b.evs, L, b.load, 1, 0)
  BY <1>2 DEF TreeAt, ChildsAt
<1>. QED
  BY <1>4, <1>5 DEF TreeAt

\* What the stack holds is the parent of the next event.
LEMMA StackTop ==
  ASSUME TypeInv, WellFormed(file), TreeInv, Built, Event.level > 0
  PROVE  /\ ParentOf(Events, line + 1) \in 1..line
         /\ Parent = [load |-> bm.load, at |-> ParentOf(Events, line + 1)]
         /\ MayHaveChilds(bm.evs[ParentOf(Events, line + 1)])
<1>. DEFINE L == Events
           n == line
           i == line + 1
           p == ParentOf(L, i)
           lv == Event.level
<1>1. /\ IsEvents(L) /\ Nested(L) /\ Shape(bm.evs, L) /\ StackAt(event_stack, L, bm.load, n)
      /\ bm.evs \in Seq(Evs)
  BY EventsIs DEF Built, TreeInv, TreeAt, TypeInv, BmOK, Beatmaps
<1>2. n \in Nat /\ i \in 1..Len(L) /\ i - 1 = n
  BY <1>1 DEF Built, TypeInv, Shape
<1>3. L[i].level = lv /\ lv \in 0..MaxLevel - 1 /\ lv > 0 /\ MaxLevel \in Nat
  BY <1>1, <1>2, BeatmapAssumption DEF Built, Event, Shape
<1>4. Parent = event_stack[lv - 1]
  BY DEF Parent, ParentLevel
<1>. HIDE DEF L, n, i, p, lv
<1>5. p = LastOf(L, lv - 1, n) /\ p \in 1..n /\ MayHaveChilds(L[p])
  BY <1>1, <1>2, <1>3, ParentOfIs DEF p
<1>6. lv - 1 \in 0..MaxLevel - 1
  BY <1>3
<1>7. event_stack[lv - 1] = [load |-> bm.load, at |-> p]
  <2>1. p # 0
    BY <1>2, <1>5
  <2>. QED
    BY <1>1, <1>5, <1>6, <2>1 DEF StackAt
<1>8. MayHaveChilds(bm.evs[p])
  <2>1. p \in 1..Len(L)
    <3>1. Len(L) \in Nat
      BY <1>1 DEF IsEvents
    <3>. QED
      BY <1>2, <1>5, <3>1
  <2>. QED
    BY <1>1, <1>5, <2>1, ShapeIs
<1>. QED
  BY <1>4, <1>5, <1>7, <1>8 DEF L, n, i, p

LEMMA StackGrows ==
  ASSUME TypeInv, WellFormed(file), TreeInv, Built
  PROVE  StackAt(event_stack', Events, bm.load, line + 1)
<1>. DEFINE L == Events
           i == line + 1
           lv == Event.level
<1>1. /\ IsEvents(L) /\ Shape(bm.evs, L) /\ StackAt(event_stack, L, bm.load, line)
  BY EventsIs DEF Built, TreeInv, TreeAt
<1>2. i \in 1..Len(L) /\ i - 1 = line
  BY <1>1 DEF Built, TypeInv, Shape
<1>3. L[i].level = lv /\ lv \in 0..MaxLevel - 1
  BY <1>1, <1>2 DEF Built, Event, Shape
<1>4. /\ event_stack \in [0..MaxLevel - 1 -> EventPointers]
      /\ event_stack' = [event_stack EXCEPT ![lv] = [load |-> bm.load, at |-> i]]
  BY DEF Built, TypeInv, Me
<1>. HIDE DEF L, i, lv
<1>5. ASSUME NEW l \in 0..MaxLevel - 1, LastOf(L, l, i) # 0
      PROVE  event_stack'[l] = [load |-> bm.load, at |-> LastOf(L, l, i)]
  <2>1. LastOf(L, l, i) = IF lv = l THEN i ELSE LastOf(L, l, line)
    <3>1. LastOf(L, l, i) = IF L[i].level = l THEN i ELSE LastOf(L, l, i - 1)
      BY <1>1, <1>2, LastOfIs
    <3>. QED
      BY <1>2, <1>3, <3>1
  <2>2. CASE lv = l
    BY <1>4, <2>1, <2>2
  <2>3. CASE lv # l
    <3>1. event_stack'[l] = event_stack[l]
      BY <1>4, <2>3
    <3>. QED
      BY <1>1, <1>5, <2>1, <2>3, <3>1 DEF StackAt
  <2>. QED
    BY <2>2, <2>3
<1>6. StackAt(event_stack', L, bm.load, i)
  BY <1>5 DEF StackAt
<1>. QED
  BY <1>6 DEF L, i

LEMMA TreeRooted ==
  ASSUME TypeInv, WellFormed(file), TreeInv, Rooted
  PROVE  TreeAt(bm, Events, bm.prepared, line + 1)
<1>. DEFINE L == Events
           k == bm.prepared
           i == line + 1
<1>1. /\ IsEvents(L) /\ TreeAt(bm, L, k, line) /\ bm.load \in Nat /\ k \in {0, 1}
  BY EventsIs DEF Rooted, Built, TreeInv, TypeInv, BmOK, Beatmaps, Phase
<1>2. i \in 1..Len(L) /\ i - 1 = line /\ line \in Nat
  BY <1>1 DEF Rooted, Built, TypeInv, TreeAt, Shape
<1>3. L[i].level = 0
  BY <1>1, <1>2 DEF Rooted, Event, TreeAt, Shape
<1>. HIDE DEF L, i, k
<1>4. \A j \in 1..Len(L) : AllKids(L, bm.load, j, k, i) = AllKids(L, bm.load, j, k, line)
  <2>. DEFINE load == bm.load
  <2>1. load \in Nat
    BY <1>1
  <2>. HIDE DEF load
  <2>2. \A j : AllKids(L, load, j, k, i) =
                 IF L[i].level > 0 /\ ParentOf(L, i) = j
                 THEN Append(AllKids(L, load, j, k, line), [load |-> load, at |-> i])
                 ELSE AllKids(L, load, j, k, line)
    <3>1. IsEvents(L) /\ k \in {0, 1} /\ i \in 1..Len(L) /\ line = i - 1
      BY <1>1, <1>2
    <3>2. \A m : m = i - 1 =>
            \A j : AllKids(L, load, j, k, i) =
                   IF L[i].level > 0 /\ ParentOf(L, i) = j
                   THEN Append(AllKids(L, load, j, k, m), [load |-> load, at |-> i])
                   ELSE AllKids(L, load, j, k, m)
      BY <2>1, <3>1, AllKidsNext, Zenon
    <3>. QED
      BY <3>1, <3>2, Zenon
  <2>3. ~(L[i].level > 0)
    BY <1>3
  <2>4. \A j : AllKids(L, load, j, k, i) = AllKids(L, load, j, k, line)
    BY <1>2, <2>2, <2>3
  <2>. QED
    BY <2>4 DEF load
<1>5. ChildsAt(bm.evs, L, bm.load, k, i)
  BY <1>1, <1>4 DEF TreeAt, ChildsAt
<1>6. ParentsAt(bm.evs, L, bm.load, k, i)
  <2>1. \A j \in 1..Len(L) : j <= i => j = i \/ j <= line
    BY <1>2
  <2>2. \A j \in 1..Len(L) : L[j].level > 0 => j # i
    BY <1>3
  <2>. QED
    BY <1>1, <2>1, <2>2 DEF TreeAt, ParentsAt
<1>. QED
  BY <1>1, <1>5, <1>6 DEF TreeAt, L, i, k

LEMMA TreeAdopted ==
  ASSUME TypeInv, WellFormed(file), TreeInv, Adopted
  PROVE  TreeAt(bm', Events, bm.prepared, line + 1)
<1>. DEFINE L == Events
           k == bm.prepared
           i == line + 1
           p == ParentOf(L, i)
           e == bm.evs
           f == bm'.evs
           me == [load |-> bm.load, at |-> i]
<1>1. /\ IsEvents(L) /\ TreeAt(bm, L, k, line) /\ bm.load \in Nat /\ k \in {0, 1}
  BY EventsIs DEF Adopted, Built, TreeInv, TypeInv, BmOK, Beatmaps, Phase
<1>2. i \in 1..Len(L) /\ i - 1 = line /\ line \in Nat
  BY <1>1 DEF Adopted, Built, TypeInv, TreeAt, Shape
<1>3. L[i].level > 0 /\ Parent = [load |-> bm.load, at |-> p]
  <2>1. L[i].level > 0
    BY <1>1, <1>2 DEF Adopted, Event, TreeAt, Shape
  <2>2. Parent = [load |-> bm.load, at |-> p]
    BY StackTop DEF Adopted
  <2>. QED
    BY <2>1, <2>2
<1>4. bm'.load = bm.load /\ Len(f) = Len(e) /\ \A j \in 1..Len(e) : SameEvent(e[j], f[j])
  BY AdoptedIs DEF OtherEvents, SameHead
<1>5. Len(e) = Len(L)
  BY <1>1 DEF TreeAt, Shape
<1>6. \A j \in 1..Len(L) :
         /\ f[j].parent = IF j = i THEN [load |-> bm.load, at |-> p] ELSE e[j].parent
         /\ f[j].childs = IF j = p THEN Append(e[j].childs, me) ELSE e[j].childs
  <2>1. \A j \in 1..Len(e) :
          /\ f[j].parent = IF j = i THEN Parent ELSE e[j].parent
          /\ f[j].childs = IF j = Parent.at THEN Append(e[j].childs, Me) ELSE e[j].childs
    BY AdoptedIs
  <2>2. Me = me /\ Parent.at = p
    BY <1>3 DEF Me
  <2>. HIDE DEF e, f, i, p, me, L
  <2>. QED
    BY <1>3, <1>5, <2>1, <2>2
<1>7. Shape(f, L)
  BY <1>1, <1>4, ShapeSame DEF TreeAt
<1>8. ParentOf(L, i) = p
  OBVIOUS
<1>. HIDE DEF L, k, i, p, e, f
<1>9. \A j \in 1..Len(L) :
        AllKids(L, bm.load, j, k, i) = IF j = p THEN Append(AllKids(L, bm.load, j, k, line), me)
                                       ELSE AllKids(L, bm.load, j, k, line)
  <2>. DEFINE load == bm.load
  <2>1. load \in Nat
    BY <1>1
  <2>. HIDE DEF load
  <2>2. \A j : AllKids(L, load, j, k, i) =
                 IF L[i].level > 0 /\ ParentOf(L, i) = j
                 THEN Append(AllKids(L, load, j, k, line), [load |-> load, at |-> i])
                 ELSE AllKids(L, load, j, k, line)
    <3>1. IsEvents(L) /\ k \in {0, 1} /\ i \in 1..Len(L) /\ line = i - 1
      BY <1>1, <1>2
    <3>2. \A m : m = i - 1 =>
            \A j : AllKids(L, load, j, k, i) =
                   IF L[i].level > 0 /\ ParentOf(L, i) = j
                   THEN Append(AllKids(L, load, j, k, m), [load |-> load, at |-> i])
                   ELSE AllKids(L, load, j, k, m)
      BY <2>1, <3>1, AllKidsNext, Zenon
    <3>. QED
      BY <3>1, <3>2, Zenon
  <2>3. me = [load |-> load, at |-> i]
    BY DEF load
  <2>. HIDE DEF me
  <2>4. \A j : AllKids(L, load, j, k, i) = IF j = p THEN Append(AllKids(L, load, j, k, line), me)
                                          ELSE AllKids(L, load, j, k, line)
    BY <1>2, <1>3, <1>8, <2>2, <2>3
  <2>. QED
    BY <2>4 DEF load
<1>10. \A j \in 1..Len(L) : e[j].childs = AllKids(L, bm.load, j, k, line)
  BY <1>1 DEF TreeAt, ChildsAt, e
<1>11. ChildsAt(f, L, bm.load, k, i)
  <2>. HIDE DEF me
  <2>. QED
    BY <1>6, <1>9, <1>10 DEF ChildsAt
<1>12. ParentsAt(f, L, bm.load, k, i)
  <2>1. \A j \in 1..Len(L) : j <= i => j = i \/ j <= line
    BY <1>2
  <2>2. ParentsAt(e, L, bm.load, k, line)
    BY <1>1 DEF TreeAt, e
  <2>3. ASSUME NEW j \in 1..Len(L)
        PROVE  /\ L[j].level = 0 => f[j].parent = NoEvent
               /\ L[j].level > 0 /\ (j <= i \/ k = 1) =>
                    f[j].parent = [load |-> bm.load, at |-> ParentOf(L, j)]
    <3>1. CASE j = i
      BY <1>3, <1>6, <1>8, <3>1
    <3>2. CASE j # i
      <4>1. f[j].parent = e[j].parent
        BY <1>6, <3>2
      <4>. QED
        BY <2>1, <2>2, <3>2, <4>1 DEF ParentsAt
    <3>. QED
      BY <3>1, <3>2
  <2>. QED
    BY <2>3 DEF ParentsAt
<1>13. TreeAt(bm', L, k, i)
  BY <1>4, <1>7, <1>11, <1>12 DEF TreeAt, f
<1>. QED
  BY <1>13 DEF L, k, i

LEMMA TreeSame ==
  ASSUME NEW L, NEW b, NEW c, NEW k, NEW n, TreeAt(b, L, k, n), c.load = b.load,
         Len(c.evs) = Len(b.evs),
         \A j \in 1..Len(b.evs) : /\ SameEvent(b.evs[j], c.evs[j])
                                  /\ c.evs[j].parent = b.evs[j].parent
                                  /\ c.evs[j].childs = b.evs[j].childs
  PROVE  TreeAt(c, L, k, n)
<1>0. Shape(b.evs, L)
  BY DEF TreeAt
<1>1. Len(b.evs) = Len(L) /\ Shape(c.evs, L)
  <2>1. Shape(c.evs, L)
    BY <1>0, ShapeSame
  <2>. QED
    BY <1>0, <2>1 DEF Shape
<1>2. ParentsAt(c.evs, L, c.load, k, n)
  BY <1>1 DEF TreeAt, ParentsAt
<1>3. ChildsAt(c.evs, L, c.load, k, n)
  BY <1>1 DEF TreeAt, ChildsAt
<1>. QED
  BY <1>1, <1>2, <1>3 DEF TreeAt

LEMMA TreeEqual ==
  ASSUME NEW L, NEW b, NEW c, NEW k, NEW n, TreeAt(b, L, k, n), c.load = b.load, c.evs = b.evs
  PROVE  TreeAt(c, L, k, n)
  BY DEF TreeAt

\* No event of a well-formed file is too deep, and none has no parent.
LEMMA BuildOf ==
  ASSUME TypeInv, WellFormed(file), TreeInv, BuildTree
  PROVE  Rooted \/ Adopted
<1>1. ~TooDeep
  <2>. SUFFICES ASSUME TooDeep  PROVE FALSE
    OBVIOUS
  <2>1. stage = "tree" /\ line < Len(bm.evs) /\ Event.level >= MaxLevel
    BY DEF TooDeep
  <2>2. Shape(bm.evs, Events)
    BY <2>1 DEF TreeInv, TreeAt
  <2>. DEFINE i == line + 1
  <2>3. i \in 1..Len(Events)
    BY <2>1, <2>2, EventsIs DEF Shape, TypeInv, IsEvents
  <2>4. Event.level = Events[i].level
    BY <2>2, <2>3 DEF Shape, Event
  <2>. HIDE DEF i
  <2>5. Events[i].level \in 0..MaxLevel - 1 /\ MaxLevel \in Nat
    BY <2>3, EventsIs, BeatmapAssumption
  <2>. QED
    BY <2>1, <2>4, <2>5
<1>2. ~Orphan
  <2>. SUFFICES ASSUME Orphan  PROVE FALSE
    OBVIOUS
  <2>. DEFINE p == ParentOf(Events, line + 1)
  <2>1. Built /\ Event.level > 0
    BY DEF Orphan
  <2>2. p \in 1..line /\ Parent = [load |-> bm.load, at |-> p] /\ MayHaveChilds(bm.evs[p])
    BY <2>1, StackTop
  <2>. HIDE DEF p
  <2>3. line \in Nat
    BY DEF TypeInv
  <2>4. Parent # NoEvent /\ Parent.load = bm.load /\ Parent.at = p
    BY <2>2, <2>3 DEF NoEvent
  <2>. QED
    BY <2>2, <2>4 DEF Orphan
<1>. QED
  BY <1>1, <1>2, BuildStep

LEMMA TreeInit == ASSUME Init  PROVE TreeInv
  BY DEF Init, TreeInv

LEMMA TreeStep ==
  ASSUME TypeInv, SecInv, ReadInv, TreeInv, [Next]_vars  PROVE TreeInv'
<1>0. bm \in Beatmaps
  BY DEF TypeInv, BmOK
<1>1. CASE Open
  <2>1. stage' \in {"fail", "parse"}
    BY <1>1, OpenIs
  <2>. QED
    BY <2>1 DEF TreeInv
<1>2. CASE ParseLine
  <2>1. stage' \in {"parse", "fail", "crash"}
    BY <1>2, ReadObjects
  <2>. QED
    BY <2>1 DEF TreeInv
<1>3. CASE Prepare
  <2>1. CASE NoPoint
    BY <2>1 DEF NoPoint, Stop, TreeInv
  <2>2. CASE \E c : Prepares(c)
    <3>1. PICK c : Prepares(c)
      BY <2>2
    <3>2. /\ BmOK(c) /\ Ready(c) /\ bm' = PreparedHos(c) /\ c.evs = bm.evs /\ SameHead(bm, c)
          /\ stage' = "tree" /\ line' = 0 /\ file' = file
      BY <3>1 DEF Prepares, Coloured
    <3>3. bm'.evs = bm.evs /\ bm'.load = bm.load /\ bm'.prepared = bm.prepared
      BY <3>2, HosPrepared DEF SameHead
    <3>. SUFFICES ASSUME WellFormed(file)
                  PROVE  /\ TreeAt(bm', Events, bm.prepared, 0)
                         /\ StackAt(event_stack', Events, bm'.load, 0)
      BY <3>2, <3>3 DEF TreeInv, Events
    <3>4. IsEvents(Events)
      BY EventsIs
    <3>5. StackAt(event_stack', Events, bm'.load, 0)
      BY <3>4, LastOfIs DEF StackAt
    <3>6. CASE stage = "parse" /\ line = Len(file.lines)
      <4>1. bm.prepared = 0 /\ EvsRead(bm.evs, Events)
        BY <3>6, ReadToIs DEF TypeInv, Phase, ReadInv, Events
      <4>2. TreeAt(bm, Events, 0, 0)
        BY <1>0, <3>4, <4>1, TreeOfLines
      <4>3. TreeAt(bm', Events, 0, 0)
        BY <3>3, <4>2, TreeEqual
      <4>. QED
        BY <3>5, <4>1, <4>3
    <3>7. CASE stage = "again"
      <4>1. bm.prepared = 1 /\ TreeAt(bm, Events, bm.prepared - 1, Len(Events))
        BY <3>7 DEF TypeInv, Phase, TreeInv
      <4>2. TreeAt(bm, Events, 0, Len(Events))
        BY <4>1
      <4>3. TreeAt(bm', Events, 1, 0)
        BY <1>0, <3>3, <3>4, <4>2, TreeAgain
      <4>. QED
        BY <3>5, <4>1, <4>3
    <3>. QED
      BY <3>1, <3>6, <3>7 DEF Prepares
  <2>. QED
    BY <1>3, <2>1, <2>2, PrepareStep
<1>4. CASE BuildTree
  <2>. SUFFICES ASSUME WellFormed(file')  PROVE TreeInv'
    BY DEF TreeInv
  <2>1. file' = file /\ stage = "tree"
    BY <1>4, BuildStep DEF TooDeep, Rooted, Orphan, Adopted, Built, Stop
  <2>2. WellFormed(file) /\ Events' = Events
    BY <2>1 DEF Events
  <2>3. Rooted \/ Adopted
    BY <1>4, <2>2, BuildOf
  <2>4. Built /\ stage' = stage
    BY <2>3 DEF Rooted, Adopted
  <2>5. StackAt(event_stack', Events, bm.load, line + 1) /\ line' = line + 1
    BY <2>2, <2>4, StackGrows DEF Built
  <2>6. bm'.load = bm.load /\ bm'.prepared = bm.prepared /\ TreeAt(bm', Events, bm.prepared, line + 1)
    <3>1. CASE Rooted
      <4>1. bm' = bm
        BY <3>1 DEF Rooted
      <4>. QED
        BY <2>2, <3>1, <4>1, TreeRooted
    <3>2. CASE Adopted
      BY <2>2, <3>2, TreeAdopted, AdoptedIs DEF OtherEvents, SameHead
    <3>. QED
      BY <2>3, <3>1, <3>2
  <2>. QED
    BY <2>1, <2>2, <2>4, <2>5, <2>6 DEF TreeInv
<1>5. CASE PrepareEvents
  <2>. SUFFICES ASSUME WellFormed(file')  PROVE TreeInv'
    BY DEF TreeInv
  <2>1. Finishes
    BY <1>5, FinishStep
  <2>2. /\ stage = "tree" /\ stage' = "loaded" /\ file' = file /\ line = Len(bm.evs)
        /\ bm'.evs = PreparedEvents(bm) /\ bm'.prepared = bm.prepared + 1 /\ bm'.load = bm.load
    BY <2>1 DEF Finishes
  <2>3. WellFormed(file) /\ Events' = Events
    BY <2>2 DEF Events
  <2>4. TreeAt(bm, Events, bm.prepared, line) /\ line = Len(Events)
    BY <2>2, <2>3 DEF TreeInv, TreeAt, Shape
  <2>5. /\ Len(bm'.evs) = Len(bm.evs)
        /\ \A j \in 1..Len(bm.evs) : /\ SameEvent(bm.evs[j], bm'.evs[j])
                                     /\ bm'.evs[j].parent = bm.evs[j].parent
                                     /\ bm'.evs[j].childs = bm.evs[j].childs
    BY <1>0, <2>2, PreparedEventsAre
  <2>6. TreeAt(bm', Events, bm.prepared, line)
    BY <2>2, <2>4, <2>5, TreeSame
  <2>7. bm'.prepared - 1 = bm.prepared
    BY <1>0, <2>2 DEF Beatmaps
  <2>. QED
    BY <2>2, <2>3, <2>4, <2>6, <2>7 DEF TreeInv
<1>6. CASE Autoconvert
  <2>. SUFFICES ASSUME WellFormed(file')  PROVE TreeInv'
    BY DEF TreeInv
  <2>1. /\ stage = "loaded" /\ stage' = "again" /\ file' = file
        /\ bm'.evs = bm.evs /\ bm'.prepared = bm.prepared /\ bm'.load = bm.load
    BY <1>6, ConvertStep DEF Converts
  <2>2. WellFormed(file) /\ Events' = Events
    BY <2>1 DEF Events
  <2>3. TreeAt(bm, Events, bm.prepared - 1, Len(Events))
    BY <2>1, <2>2 DEF TreeInv
  <2>4. TreeAt(bm', Events, bm.prepared - 1, Len(Events))
    BY <2>1, <2>3, TreeEqual
  <2>. QED
    BY <2>1, <2>2, <2>4 DEF TreeInv
<1>7. CASE Free
  <2>1. stage' \in {"idle", "crash"}
    BY <1>7, FreeStep DEF FreeDone, Stop
  <2>. QED
    BY <2>1 DEF TreeInv
<1>8. CASE UNCHANGED vars
  <2>1. /\ stage' = stage /\ bm' = bm /\ file' = file /\ line' = line
        /\ event_stack' = event_stack
    BY <1>8 DEF vars
  <2>. QED
    BY <2>1 DEF TreeInv, Events
<1>. QED
  BY <1>1, <1>2, <1>3, <1>4, <1>5, <1>6, <1>7, <1>8 DEF Next

\* A well-formed file has a timing point for its objects.
LEMMA PointIs ==
  ASSUME TypeInv, ReadInv, WellFormed(file), (stage = "parse" /\ line = Len(file.lines)) \/ stage = "again"
  PROVE  bm.hos # <<>> => bm.tps # <<>>
<1>1. CASE stage = "again"
  BY <1>1 DEF TypeInv, Phase, Ready
<1>2. CASE stage = "parse" /\ line = Len(file.lines)
  <2>. DEFINE h == LinesOf(file, "ho")
             t == LinesOf(file, "tp")
  <2>0. \A k : LinesOf(file, k) = ReadTo(file, k, line) /\ LinesOf(file, k) \in Seq(Lines)
    <3>1. file \in Files /\ line \in 0..Len(file.lines)
      BY <1>2 DEF TypeInv
    <3>. QED
      BY <1>2, <3>1, ReadToIs
  <2>1. h \in Seq(Lines) /\ t \in Seq(Lines)
    BY <2>0
  <2>2. bm.hos \in Seq(Hos) /\ bm.tps \in Seq(Tps)
    BY DEF TypeInv, BmOK, Beatmaps
  <2>3. Len(bm.hos) = Len(h) /\ Len(bm.tps) = Len(t)
    BY <1>2, <2>0 DEF ReadInv, HosRead, TpsRead
  <2>4. h # <<>> => t # <<>>
    BY DEF WellFormed
  <2>. HIDE DEF h, t
  <2>5. /\ bm.hos = <<>> <=> Len(bm.hos) = 0
        /\ bm.tps = <<>> <=> Len(bm.tps) = 0
        /\ h = <<>> <=> Len(h) = 0
        /\ t = <<>> <=> Len(t) = 0
    BY <2>1, <2>2
  <2>. QED
    BY <2>3, <2>4, <2>5
<1>. QED
  BY <1>1, <1>2

LEMMA HeldIs ==
  ASSUME NEW b \in Beatmaps, ResOK(b), BadPointer(b)
  PROVE  \E e \in ToSet(b.evs) : e.type = "command" /\ e.easing # 0
<1>1. Held(b) \subseteq b.owned
  <2>1. ToSet(b.hos) = {b.hos[i] : i \in 1..Len(b.hos)}
    BY DEF ToSet, Beatmaps
  <2>. QED
    BY <2>1 DEF Held, ResOK, HeldIn
<1>. QED
  BY <1>1 DEF BadPointer

LEMMA StopStep ==
  ASSUME TypeInv, SecInv, ReadInv, ResInv, TreeInv, OnlyEasingStops, [Next]_vars
  PROVE  OnlyEasingStops'
<1>. SUFFICES ASSUME WellFormed(file')
              PROVE  /\ stage' # "abort"
                     /\ stage' = "crash" => \E e \in ToSet(bm'.evs) : e.type = "command" /\ e.easing # 0
  BY DEF OnlyEasingStops
<1>1. CASE Open
  BY <1>1, OpenIs
<1>2. CASE ParseLine
  <2>1. file' = file
    BY <1>2, ReadObjects
  <2>2. stage' = "parse"
    BY <1>2, <2>1, ReadIs DEF Advances
  <2>. QED
    BY <2>2
<1>3. CASE Prepare
  <2>1. CASE NoPoint
    <3>1. WellFormed(file)
      BY <2>1 DEF NoPoint, Stop
    <3>. QED
      BY <2>1, <3>1, PointIs DEF NoPoint
  <2>2. CASE \E c : Prepares(c)
    BY <2>2 DEF Prepares
  <2>. QED
    BY <1>3, <2>1, <2>2, PrepareStep
<1>4. CASE BuildTree
  <2>1. file' = file /\ stage = "tree"
    BY <1>4, BuildStep DEF TooDeep, Rooted, Orphan, Adopted, Built, Stop
  <2>2. Rooted \/ Adopted
    BY <1>4, <2>1, BuildOf
  <2>3. stage' = "tree"
    BY <2>1, <2>2 DEF Rooted, Adopted
  <2>. QED
    BY <2>3
<1>5. CASE PrepareEvents
  BY <1>5, FinishStep DEF Finishes
<1>6. CASE Autoconvert
  BY <1>6, ConvertStep DEF Converts
<1>7. CASE Free
  <2>1. CASE FreeDone
    BY <2>1 DEF FreeDone
  <2>2. CASE stage \in {"loaded", "fail"} /\ BadPointer(bm) /\ Stop("crash")
    <3>1. ResOK(bm) /\ bm \in Beatmaps /\ bm' = bm /\ stage' = "crash"
      BY <2>2 DEF ResInv, TypeInv, BmOK, Stop
    <3>. QED
      BY <2>2, <3>1, HeldIs
  <2>. QED
    BY <1>7, <2>1, <2>2, FreeStep
<1>8. CASE UNCHANGED vars
  <2>1. stage' = stage /\ bm' = bm /\ file' = file
    BY <1>8 DEF vars
  <2>. QED
    BY <2>1 DEF OnlyEasingStops
<1>. QED
  BY <1>1, <1>2, <1>3, <1>4, <1>5, <1>6, <1>7, <1>8 DEF Next

LEMMA TreeIsThere == ASSUME TypeInv, TreeInv, OnlyEasingStops  PROVE EventTree
<1>. SUFFICES ASSUME Loaded
              PROVE  LET b == bm
                         evs == b.evs
                         pointers == [j \in DOMAIN evs |-> [load |-> b.load, at |-> j]]
                         childs(i) == Kept(pointers, {j \in DOMAIN evs : evs[j].level > 0 /\ ParentOf(evs, j) = i})
                     IN \A i \in DOMAIN evs :
                          /\ evs[i].parent = IF evs[i].level = 0 THEN NoEvent
                                             ELSE [load |-> b.load, at |-> ParentOf(evs, i)]
                          /\ evs[i].childs = IF IsConverted THEN childs(i) \o childs(i) ELSE childs(i)
  BY DEF EventTree
<1>. DEFINE L == Events
           N == Len(L)
           evs == bm.evs
           load == bm.load
           pointers == [j \in DOMAIN evs |-> [load |-> bm.load, at |-> j]]
           T(i) == {j \in DOMAIN evs : evs[j].level > 0 /\ ParentOf(evs, j) = i}
           k == bm.prepared - 1
<1>1. stage = "loaded" /\ WellFormed(file) /\ bm \in Beatmaps
  BY DEF Loaded, TypeInv, BmOK
<1>2. /\ IsEvents(L) /\ N \in Nat /\ TreeAt(bm, L, k, N)
      /\ \A i \in 1..N : L[i].level \in Nat
  BY <1>1, EventsIs DEF TreeInv, IsEvents
<1>3. /\ evs \in Seq(Evs) /\ Shape(evs, L) /\ Len(evs) = N /\ DOMAIN evs = 1..N
  BY <1>1, <1>2 DEF Beatmaps, TreeAt, Shape
<1>4. k \in {0, 1} /\ (IsConverted <=> k = 1)
  BY <1>1 DEF TypeInv, Phase, IsConverted
<1>5. \A i \in 1..N : evs[i].level = L[i].level /\ ParentOf(evs, i) = ParentOf(L, i)
  BY <1>2, <1>3, ShapeIs DEF Shape
<1>6. pointers = EventPtrs(L, load) /\ Len(pointers) = N
  BY <1>2, <1>3 DEF EventPtrs
<1>7. \A i : T(i) = Below(L, i)
  BY <1>3, <1>5 DEF Below
<1>8. ParentsAt(evs, L, load, k, N) /\ ChildsAt(evs, L, load, k, N)
  BY <1>2 DEF TreeAt
<1>. HIDE DEF L, N, evs, load, pointers, T, k
<1>9. \A i : Kept(pointers, T(i)) = Kids(L, load, i, N)
  BY <1>6, <1>7 DEF Kept, Kids
<1>10. ASSUME NEW i \in 1..N
       PROVE  /\ evs[i].parent = IF evs[i].level = 0 THEN NoEvent
                                 ELSE [load |-> load, at |-> ParentOf(evs, i)]
              /\ evs[i].childs = IF IsConverted THEN Kept(pointers, T(i)) \o Kept(pointers, T(i))
                                 ELSE Kept(pointers, T(i))
  <2>1. evs[i].parent = IF evs[i].level = 0 THEN NoEvent
                        ELSE [load |-> load, at |-> ParentOf(evs, i)]
    <3>1. i <= N /\ L[i].level \in Nat /\ i \in 1..Len(L)
      BY <1>2 DEF N
    <3>2. /\ L[i].level = 0 => evs[i].parent = NoEvent
          /\ L[i].level > 0 /\ i <= N => evs[i].parent = [load |-> load, at |-> ParentOf(L, i)]
      BY <1>8, <3>1 DEF ParentsAt
    <3>3. evs[i].level = L[i].level /\ ParentOf(evs, i) = ParentOf(L, i)
      BY <1>5
    <3>. QED
      BY <3>1, <3>2, <3>3
  <2>2. evs[i].childs = AllKids(L, load, i, k, N)
    BY <1>8 DEF ChildsAt, N
  <2>3. AllKids(L, load, i, k, N) =
          IF k = 0 THEN Kids(L, load, i, N) ELSE Kids(L, load, i, N) \o Kids(L, load, i, N)
    BY DEF AllKids, N
  <2>. QED
    BY <1>4, <1>9, <2>1, <2>2, <2>3
<1>. QED
  BY <1>3, <1>10 DEF pointers, T, evs, load

\* The events of a loaded beatmap are the tree the file says, whatever was loaded
\* before, and a well-formed beatmap is stopped by nothing but the easing of its
\* commands.
THEOREM EventTreeAlways == Spec => []EventTree
<1>1. Init => TypeInv /\ SecInv /\ ReadInv /\ ResInv /\ TreeInv /\ OnlyEasingStops
  <2>1. Init => OnlyEasingStops
    BY DEF Init, OnlyEasingStops
  <2>. QED
    BY <2>1, TypeInit, SecInit, ReadInit, ResInit, TreeInit
<1>2. TypeInv /\ SecInv /\ ReadInv /\ ResInv /\ TreeInv /\ OnlyEasingStops /\ [Next]_vars
      => (TypeInv /\ SecInv /\ ReadInv /\ ResInv /\ TreeInv /\ OnlyEasingStops)'
  BY TypeStep, SecStep, ReadStep, ResStep, TreeStep, StopStep
<1>3. TypeInv /\ TreeInv /\ OnlyEasingStops => EventTree
  BY TreeIsThere
<1>. QED
  BY <1>1, <1>2, <1>3, PTL DEF Spec

-----------------------------------------------------------------------------
(***************************************************************************)
(* How long the objects of the storyboard last.                            *)
(***************************************************************************)
With(L, i) == {i} \cup {j \in 1..Len(L) : L[j].level = 1 /\ ParentOf(L, j) = i}
KnownIn(L, i) == {j \in With(L, i) : ~Compound(L[j].type)}

RawAt(evs, L) == \A i \in 1..Len(L) : evs[i].offset = L[i].offset /\ evs[i].end = L[i].end
TimesAt(evs, L) ==
  \A i \in 1..Len(L) :
    /\ L[i].level > 0 => evs[i].offset = L[i].offset /\ evs[i].end = L[i].end
    /\ L[i].level = 0 => /\ evs[i].offset = Min({L[j].offset : j \in With(L, i)})
                         /\ evs[i].end = Max({L[j].end : j \in KnownIn(L, i)})

TimesInv ==
  WellFormed(file) =>
    /\ stage = "tree" /\ bm.prepared = 0 => RawAt(bm.evs, Events)
    /\ (stage = "tree" /\ bm.prepared = 1) \/ stage \in {"again", "loaded"} => TimesAt(bm.evs, Events)

LEMMA MinAgain ==
  ASSUME NEW S \in SUBSET Int, S # {}, IsFiniteSet(S), NEW T \in SUBSET S, NEW U, U = {Min(S)} \cup T
  PROVE  Min(U) = Min(S)
<1>1. Min(S) \in S /\ Min(S) \in Int /\ \A x \in S : Min(S) <= x
  BY MinIs
<1>2. U \in SUBSET S /\ U # {} /\ Min(S) \in U
  BY <1>1
<1>3. IsFiniteSet(U) /\ U \in SUBSET Int
  BY <1>2, FS_Subset
<1>4. Min(U) \in U /\ \A x \in U : Min(U) <= x
  BY <1>2, <1>3, MinIs
<1>5. Min(U) \in S /\ Min(U) \in Int /\ Min(U) <= Min(S)
  BY <1>2, <1>4
<1>. QED
  BY <1>1, <1>5

LEMMA MaxAgain ==
  ASSUME NEW S \in SUBSET Int, S # {}, IsFiniteSet(S), NEW T \in SUBSET S, NEW U, U = {Max(S)} \cup T
  PROVE  Max(U) = Max(S)
<1>1. Max(S) \in S /\ Max(S) \in Int /\ \A x \in S : x <= Max(S)
  BY MaxIs
<1>2. U \in SUBSET S /\ U # {} /\ Max(S) \in U
  BY <1>1
<1>3. IsFiniteSet(U) /\ U \in SUBSET Int
  BY <1>2, FS_Subset
<1>4. Max(U) \in U /\ \A x \in U : x <= Max(U)
  BY <1>2, <1>3, MaxIs
<1>5. Max(U) \in S /\ Max(U) \in Int /\ Max(S) <= Max(U)
  BY <1>2, <1>4
<1>. QED
  BY <1>1, <1>5

\* The times of some lines.
LEMMA LineTimesAre ==
  ASSUME NEW L, IsEvents(L), NEW K \in SUBSET (1..Len(L))
  PROVE  /\ {L[k].offset : k \in K} \in SUBSET Int /\ IsFiniteSet({L[k].offset : k \in K})
         /\ {L[k].end : k \in K} \in SUBSET Int /\ IsFiniteSet({L[k].end : k \in K})
<1>1. IsFiniteSet(K)
  <2>1. IsFiniteSet(1..Len(L))
    BY FS_Interval DEF IsEvents
  <2>. QED
    BY <2>1, FS_Subset
<1>2. \A k \in K : L[k].offset \in Int /\ L[k].end \in Int
  BY EventLineIs DEF IsEvents
<1>. DEFINE f == [k \in K |-> L[k].offset]
           g == [k \in K |-> L[k].end]
<1>3. {L[k].offset : k \in K} = {f[k] : k \in K} /\ {L[k].end : k \in K} = {g[k] : k \in K}
  OBVIOUS
<1>4. DOMAIN f = K /\ DOMAIN g = K
  OBVIOUS
<1>. HIDE DEF f, g
<1>5. IsFiniteSet({f[k] : k \in K}) /\ IsFiniteSet({g[k] : k \in K})
  <2>1. IsFiniteSet({f[k] : k \in DOMAIN f})
    BY <1>1, <1>4, FiniteRange
  <2>2. IsFiniteSet({g[k] : k \in DOMAIN g})
    BY <1>1, <1>4, FiniteRange
  <2>. QED
    BY <1>4, <2>1, <2>2
<1>. QED
  BY <1>2, <1>3, <1>5

LEMMA WithIs ==
  ASSUME NEW L, IsEvents(L), NEW i \in 1..Len(L), L[i].level = 0
  PROVE  /\ With(L, i) \in SUBSET (1..Len(L)) /\ i \in With(L, i)
         /\ KnownIn(L, i) \in SUBSET With(L, i) /\ i \in KnownIn(L, i)
<1>1. L[i].type = "object"
  BY EventLineIs DEF IsEvents
<1>2. With(L, i) \in SUBSET (1..Len(L)) /\ i \in With(L, i)
  BY DEF With
<1>3. ~Compound(L[i].type)
  BY <1>1 DEF Compound
<1>. QED
  BY <1>2, <1>3 DEF KnownIn

\* The commands of a complete tree.
LEMMA CommandsAre ==
  ASSUME NEW b \in Beatmaps, NEW L, IsEvents(L), NEW k, TreeAt(b, L, k, Len(L)), NEW i \in 1..Len(L)
  PROVE  /\ {i} \cup Commands(b, i) = With(L, i)
         /\ L[i].level = 0 =>
              {i} \cup {j \in Commands(b, i) : EndKnown(b.evs[j])} = KnownIn(L, i)
<1>. DEFINE C == Commands(b, i)
           D == {j \in 1..Len(L) : L[j].level = 1 /\ ParentOf(L, j) = i}
<1>1. Shape(b.evs, L) /\ Len(b.evs) = Len(L) /\ Len(L) \in Nat
  BY DEF TreeAt, Shape, IsEvents
<1>2. ASSUME NEW j \in 1..Len(L), L[j].level = 1
      PROVE  b.evs[j].parent = [load |-> b.load, at |-> ParentOf(L, j)]
  <2>1. j <= Len(L)
    BY <1>1
  <2>. QED
    BY <1>2, <2>1 DEF TreeAt, ParentsAt
<1>3. \A j \in 1..Len(L) : b.evs[j].level = L[j].level /\ b.evs[j].type = L[j].type
  BY <1>1 DEF Shape
<1>4. C = D
  <2>1. \A j : j \in C <=> j \in 1..Len(L) /\ L[j].level = 1
                          /\ b.evs[j].parent = [load |-> b.load, at |-> i]
    BY <1>1, <1>3 DEF Commands
  <2>2. \A m, n : [load |-> b.load, at |-> m] = [load |-> b.load, at |-> n] <=> m = n
    OBVIOUS
  <2>3. \A j : j \in D <=> j \in 1..Len(L) /\ L[j].level = 1 /\ ParentOf(L, j) = i
    OBVIOUS
  <2>. HIDE DEF C, D
  <2>4. ASSUME NEW j  PROVE j \in C <=> j \in D
    <3>1. CASE j \in 1..Len(L) /\ L[j].level = 1
      <4>. DEFINE q == ParentOf(L, j)
                 p == b.evs[j].parent
      <4>1. p = [load |-> b.load, at |-> q]
        BY <1>2, <3>1
      <4>2. /\ j \in C <=> p = [load |-> b.load, at |-> i]
            /\ j \in D <=> q = i
        BY <2>1, <2>3, <3>1
      <4>. HIDE DEF p, q
      <4>. QED
        BY <2>2, <4>1, <4>2
    <3>2. CASE ~(j \in 1..Len(L) /\ L[j].level = 1)
      BY <2>1, <2>3, <3>2
    <3>. QED
      BY <3>1, <3>2
  <2>. QED
    BY <2>4
<1>5. With(L, i) = {i} \cup D
  BY DEF With
<1>6. \A j \in D : EndKnown(b.evs[j]) <=> ~Compound(L[j].type)
  BY <1>3 DEF EndKnown
<1>7. \A j \in D : j \in 1..Len(L)
  OBVIOUS
<1>8. ASSUME L[i].level = 0
      PROVE  {i} \cup {j \in C : EndKnown(b.evs[j])} = KnownIn(L, i)
  <2>1. i \in KnownIn(L, i) /\ KnownIn(L, i) = {j \in With(L, i) : ~Compound(L[j].type)}
    BY <1>8, WithIs DEF KnownIn
  <2>. HIDE DEF C, D
  <2>. QED
    BY <1>4, <1>5, <1>6, <2>1
<1>. QED
  BY <1>4, <1>5, <1>8

\* Both preparations make an object last as long as its commands.
LEMMA TimesPrepared ==
  ASSUME NEW b \in Beatmaps, NEW L, IsEvents(L), NEW k, TreeAt(b, L, k, Len(L)),
         RawAt(b.evs, L) \/ TimesAt(b.evs, L)
  PROVE  TimesAt(PreparedEvents(b), L)
<1>. DEFINE new == PreparedEvents(b)
           e == b.evs
<1>1. Len(e) = Len(L) /\ \A i \in 1..Len(L) : e[i].level = L[i].level
  BY DEF TreeAt, Shape
<1>2. \A i \in 1..Len(L) : L[i].level > 0 =>
        /\ new[i] = e[i] /\ e[i].offset = L[i].offset /\ e[i].end = L[i].end
  BY <1>1, PreparedEventsAre DEF RawAt, TimesAt
<1>3. ASSUME NEW i \in 1..Len(L), L[i].level = 0
      PROVE  /\ new[i].offset = Min({L[j].offset : j \in With(L, i)})
             /\ new[i].end = Max({L[j].end : j \in KnownIn(L, i)})
  <2>. DEFINE C == Commands(b, i)
             K == {j \in C : EndKnown(e[j])}
             S == {L[j].offset : j \in With(L, i)}
             T == {L[j].end : j \in KnownIn(L, i)}
             SC == {L[j].offset : j \in C}
             TK == {L[j].end : j \in K}
  <2>1. /\ new[i].offset = Min({e[i].offset} \cup {e[j].offset : j \in C})
        /\ new[i].end = Max({e[i].end} \cup {e[j].end : j \in K})
    BY <1>1, <1>3, PreparedEventsAre
  <2>2. With(L, i) = {i} \cup C /\ KnownIn(L, i) = {i} \cup K
    BY <1>3, CommandsAre
  <2>3. With(L, i) \in SUBSET (1..Len(L)) /\ KnownIn(L, i) \in SUBSET (1..Len(L))
    BY <1>3, WithIs
  <2>4. \A j \in C : j \in 1..Len(L) /\ L[j].level = 1
    BY <1>1 DEF Commands
  <2>5. {e[j].offset : j \in C} = SC /\ {e[j].end : j \in K} = TK
    <3>1. \A j \in C : e[j].offset = L[j].offset /\ e[j].end = L[j].end
      BY <1>2, <2>4
    <3>2. \A j \in K : j \in C
      OBVIOUS
    <3>. HIDE DEF C, K, e
    <3>. QED
      BY <3>1, <3>2
  <2>6. S = {L[i].offset} \cup SC /\ T = {L[i].end} \cup TK
    <3>. HIDE DEF C, K
    <3>. QED
      BY <2>2
  <2>7. S \in SUBSET Int /\ IsFiniteSet(S) /\ S # {} /\ T \in SUBSET Int /\ IsFiniteSet(T) /\ T # {}
    BY <2>3, <2>6, LineTimesAre
  <2>8. CASE RawAt(e, L)
    <3>1. e[i].offset = L[i].offset /\ e[i].end = L[i].end
      BY <2>8 DEF RawAt
    <3>. HIDE DEF S, T, SC, TK, C, K, e, new
    <3>2. new[i].offset = Min(S) /\ new[i].end = Max(T)
      BY <2>1, <2>5, <2>6, <3>1
    <3>. QED
      BY <3>2 DEF S, T
  <2>9. CASE TimesAt(e, L)
    <3>1. e[i].offset = Min(S) /\ e[i].end = Max(T)
      BY <1>3, <2>9 DEF TimesAt
    <3>. HIDE DEF S, T, SC, TK, C, K, e, new
    <3>2. new[i].offset = Min({Min(S)} \cup SC) /\ new[i].end = Max({Max(T)} \cup TK)
      BY <2>1, <2>5, <3>1
    <3>3. SC \in SUBSET S /\ TK \in SUBSET T
      BY <2>6
    <3>4. Min({Min(S)} \cup SC) = Min(S) /\ Max({Max(T)} \cup TK) = Max(T)
      BY <2>7, <3>3, MinAgain, MaxAgain
    <3>. QED
      BY <3>2, <3>4 DEF S, T
  <2>. QED
    BY <2>8, <2>9
<1>. QED
  BY <1>2, <1>3 DEF TimesAt

LEMMA TimesInit == ASSUME Init  PROVE TimesInv
  BY DEF Init, TimesInv

LEMMA TimesStep ==
  ASSUME TypeInv, SecInv, ReadInv, TreeInv, TimesInv, [Next]_vars  PROVE TimesInv'
<1>0. bm \in Beatmaps
  BY DEF TypeInv, BmOK
<1>1. CASE Open
  <2>1. stage' \in {"fail", "parse"}
    BY <1>1, OpenIs
  <2>. QED
    BY <2>1 DEF TimesInv
<1>2. CASE ParseLine
  <2>1. stage' \in {"parse", "fail", "crash"}
    BY <1>2, ReadObjects
  <2>. QED
    BY <2>1 DEF TimesInv
<1>3. CASE Prepare
  <2>1. CASE NoPoint
    BY <2>1 DEF NoPoint, Stop, TimesInv
  <2>2. CASE \E c : Prepares(c)
    <3>1. PICK c : Prepares(c)
      BY <2>2
    <3>2. /\ BmOK(c) /\ Ready(c) /\ bm' = PreparedHos(c) /\ c.evs = bm.evs /\ SameHead(bm, c)
          /\ stage' = "tree" /\ file' = file
      BY <3>1 DEF Prepares, Coloured
    <3>3. bm'.evs = bm.evs /\ bm'.prepared = bm.prepared
      BY <3>2, HosPrepared DEF SameHead
    <3>. SUFFICES ASSUME WellFormed(file)
                  PROVE  /\ bm.prepared = 0 => RawAt(bm.evs, Events)
                         /\ bm.prepared = 1 => TimesAt(bm.evs, Events)
      BY <3>2, <3>3 DEF TimesInv, Events
    <3>6. CASE stage = "parse" /\ line = Len(file.lines)
      <4>1. bm.prepared = 0 /\ EvsRead(bm.evs, Events)
        BY <3>6, ReadToIs DEF TypeInv, Phase, ReadInv, Events
      <4>2. \A l : NewEvent(l).offset = l.offset /\ NewEvent(l).end = l.end
        BY DEF NewEvent
      <4>3. RawAt(bm.evs, Events)
        BY <4>1, <4>2 DEF EvsRead, RawAt
      <4>. QED
        BY <4>1, <4>3
    <3>7. CASE stage = "again"
      BY <3>7 DEF TypeInv, Phase, TimesInv
    <3>. QED
      BY <3>1, <3>6, <3>7 DEF Prepares
  <2>. QED
    BY <1>3, <2>1, <2>2, PrepareStep
<1>4. CASE BuildTree
  <2>. SUFFICES ASSUME WellFormed(file')  PROVE TimesInv'
    BY DEF TimesInv
  <2>1. file' = file /\ stage = "tree"
    BY <1>4, BuildStep DEF TooDeep, Rooted, Orphan, Adopted, Built, Stop
  <2>2. WellFormed(file) /\ Events' = Events
    BY <2>1 DEF Events
  <2>3. stage' = "tree" /\ (Rooted \/ Adopted)
    BY <1>4, <2>1, <2>2, BuildOf DEF Rooted, Adopted
  <2>4. CASE Rooted
    <3>1. bm' = bm
      BY <2>4 DEF Rooted
    <3>. QED
      BY <2>1, <2>2, <2>3, <3>1 DEF TimesInv
  <2>5. CASE Adopted
    <3>1. /\ bm'.prepared = bm.prepared
          /\ \A j \in 1..Len(bm.evs) :
               bm'.evs[j].offset = bm.evs[j].offset /\ bm'.evs[j].end = bm.evs[j].end
      BY <2>5, AdoptedIs DEF OtherEvents, SameHead
    <3>2. Len(bm.evs) = Len(Events)
      BY <2>1, <2>2 DEF TreeInv, TreeAt, Shape
    <3>3. RawAt(bm.evs, Events) => RawAt(bm'.evs, Events)
      BY <3>1, <3>2 DEF RawAt
    <3>4. TimesAt(bm.evs, Events) => TimesAt(bm'.evs, Events)
      BY <3>1, <3>2 DEF TimesAt
    <3>. QED
      BY <2>1, <2>2, <2>3, <3>1, <3>3, <3>4 DEF TimesInv
  <2>. QED
    BY <2>3, <2>4, <2>5
<1>5. CASE PrepareEvents
  <2>. SUFFICES ASSUME WellFormed(file')  PROVE TimesInv'
    BY DEF TimesInv
  <2>1. Finishes
    BY <1>5, FinishStep
  <2>2. /\ stage = "tree" /\ stage' = "loaded" /\ file' = file /\ line = Len(bm.evs)
        /\ bm'.evs = PreparedEvents(bm)
    BY <2>1 DEF Finishes
  <2>3. WellFormed(file) /\ Events' = Events
    BY <2>2 DEF Events
  <2>4. TreeAt(bm, Events, bm.prepared, Len(Events))
    BY <2>2, <2>3 DEF TreeInv, TreeAt, Shape
  <2>5. RawAt(bm.evs, Events) \/ TimesAt(bm.evs, Events)
    BY <2>2, <2>3 DEF TimesInv, TypeInv, Phase
  <2>6. TimesAt(bm'.evs, Events)
    BY <1>0, <2>2, <2>3, <2>4, <2>5, TimesPrepared, EventsIs
  <2>. QED
    BY <2>2, <2>3, <2>6 DEF TimesInv
<1>6. CASE Autoconvert
  <2>1. stage = "loaded" /\ stage' = "again" /\ file' = file /\ bm'.evs = bm.evs
    BY <1>6, ConvertStep DEF Converts
  <2>. QED
    BY <2>1 DEF TimesInv, Events
<1>7. CASE Free
  <2>1. stage' \in {"idle", "crash"}
    BY <1>7, FreeStep DEF FreeDone, Stop
  <2>. QED
    BY <2>1 DEF TimesInv
<1>8. CASE UNCHANGED vars
  <2>1. stage' = stage /\ bm' = bm /\ file' = file
    BY <1>8 DEF vars
  <2>. QED
    BY <2>1 DEF TimesInv, Events
<1>. QED
  BY <1>1, <1>2, <1>3, <1>4, <1>5, <1>6, <1>7, <1>8 DEF Next

LEMMA TimesAreThere == ASSUME TypeInv, TreeInv, TimesInv  PROVE ObjectsLast
<1>. SUFFICES ASSUME Loaded
              PROVE  LET evs == bm.evs
                         lines == LinesOf(file, "event")
                         with(i) == {i} \cup {j \in DOMAIN evs : evs[j].level = 1 /\ ParentOf(evs, j) = i}
                     IN \A i \in DOMAIN evs : evs[i].level = 0 =>
                          /\ evs[i].offset = Min({lines[j].offset : j \in with(i)})
                          /\ evs[i].end = Max({lines[j].end : j \in {j \in with(i) : ~Compound(lines[j].type)}})
  BY DEF ObjectsLast
<1>. DEFINE L == Events
           N == Len(L)
           evs == bm.evs
           with(i) == {i} \cup {j \in DOMAIN evs : evs[j].level = 1 /\ ParentOf(evs, j) = i}
<1>1. stage = "loaded" /\ WellFormed(file) /\ bm \in Beatmaps
  BY DEF Loaded, TypeInv, BmOK
<1>2. IsEvents(L) /\ N \in Nat /\ TreeAt(bm, L, bm.prepared - 1, N) /\ TimesAt(evs, L)
  BY <1>1, EventsIs DEF TreeInv, IsEvents, TimesInv
<1>3. /\ evs \in Seq(Evs) /\ Shape(evs, L) /\ Len(evs) = N /\ DOMAIN evs = 1..N
  BY <1>1, <1>2 DEF Beatmaps, TreeAt, Shape
<1>4. \A i \in 1..N : evs[i].level = L[i].level /\ ParentOf(evs, i) = ParentOf(L, i)
  BY <1>2, <1>3, ShapeIs DEF Shape
<1>5. \A i : with(i) = With(L, i)
  BY <1>3, <1>4 DEF With
<1>6. \A i : {j \in with(i) : ~Compound(L[j].type)} = KnownIn(L, i)
  <2>. HIDE DEF with
  <2>. QED
    BY <1>5 DEF KnownIn
<1>. HIDE DEF L, N, evs, with
<1>7. ASSUME NEW i \in 1..N, evs[i].level = 0
      PROVE  /\ evs[i].offset = Min({L[j].offset : j \in with(i)})
             /\ evs[i].end = Max({L[j].end : j \in {j \in with(i) : ~Compound(L[j].type)}})
  <2>1. L[i].level = 0 /\ i \in 1..Len(L)
    BY <1>4, <1>7 DEF N
  <2>2. /\ evs[i].offset = Min({L[j].offset : j \in With(L, i)})
        /\ evs[i].end = Max({L[j].end : j \in KnownIn(L, i)})
    BY <1>2, <2>1 DEF TimesAt
  <2>. QED
    BY <1>5, <1>6, <2>2
<1>. QED
  BY <1>3, <1>7 DEF L, evs, with, Events

\* An object of a loaded storyboard lasts exactly as long as its own times and those
\* of its commands, prepared once or twice.
THEOREM ObjectsAlwaysLast == Spec => []ObjectsLast
<1>1. Init => TypeInv /\ SecInv /\ ReadInv /\ TreeInv /\ TimesInv
  BY TypeInit, SecInit, ReadInit, TreeInit, TimesInit
<1>2. TypeInv /\ SecInv /\ ReadInv /\ TreeInv /\ TimesInv /\ [Next]_vars
      => (TypeInv /\ SecInv /\ ReadInv /\ TreeInv /\ TimesInv)'
  BY TypeStep, SecStep, ReadStep, TreeStep, TimesStep
<1>3. TypeInv /\ TreeInv /\ TimesInv => ObjectsLast
  BY TimesAreThere
<1>. QED
  BY <1>1, <1>2, <1>3, PTL DEF Spec

-----------------------------------------------------------------------------
(***************************************************************************)
(* Order: of the timing points, of the objects, and between them.          *)
(***************************************************************************)
Offsets(s) == Len(s) \in Nat /\ \A i \in 1..Len(s) : s[i].offset \in Int

LEMMA OffsetsAre ==
  /\ \A s \in Seq(Tps) : Offsets(s)
  /\ \A s \in Seq(Hos) : Offsets(s)
<1>1. \A t \in Tps : t.offset \in Int
  BY DEF Tps
<1>2. \A o \in Hos : o.offset \in Int
  BY DEF Hos
<1>. QED
  BY <1>1, <1>2 DEF Offsets

LEMMA OrderedIs ==
  ASSUME NEW s, Offsets(s), InOrder(s)
  PROVE  \A i, j \in 1..Len(s) : i <= j => s[i].offset <= s[j].offset
<1>. DEFINE N == Len(s)
           o(i) == s[i].offset
<1>1. N \in Nat /\ (\A i \in 1..N : o(i) \in Int) /\ \A i \in 1..N - 1 : o(i) <= o(i + 1)
  BY DEF Offsets, InOrder
<1>. HIDE DEF N, o
<1>2. SUFFICES ASSUME NEW i \in 1..N
               PROVE  \A j \in 1..N : i <= j => o(i) <= o(j)
  BY DEF N, o
<1>. DEFINE S == {n \in Nat : i + n \in 1..N => o(i) <= o(i + n)}
<1>3. 0 \in S
  <2>1. i + 0 = i /\ o(i) <= o(i)
    BY <1>1
  <2>. QED
    BY <2>1
<1>4. ASSUME NEW n \in Nat, n \in S  PROVE n + 1 \in S
  <2>1. ASSUME i + (n + 1) \in 1..N  PROVE o(i) <= o(i + (n + 1))
    <3>. DEFINE m == i + n
    <3>1. m \in 1..N - 1 /\ m \in 1..N /\ m + 1 \in 1..N /\ i + (n + 1) = m + 1
      BY <1>1, <2>1
    <3>2. o(i) <= o(m)
      BY <1>4, <3>1
    <3>. HIDE DEF m
    <3>3. o(m) <= o(m + 1) /\ o(i) \in Int /\ o(m) \in Int /\ o(m + 1) \in Int
      BY <1>1, <3>1
    <3>4. o(i) <= o(m + 1)
      BY <3>2, <3>3
    <3>. QED
      BY <3>1, <3>4
  <2>. QED
    BY <2>1
<1>5. \A n \in Nat : n \in S
  <2>. HIDE DEF S
  <2>. QED
    BY <1>3, <1>4, NatSetInduction
<1>6. ASSUME NEW j \in 1..N, i <= j  PROVE o(i) <= o(j)
  <2>1. j - i \in Nat /\ i + (j - i) = j
    BY <1>1, <1>6
  <2>. QED
    BY <1>5, <2>1
<1>. QED
  BY <1>6

\* The last point that is not after offset, or the first one.
PointAt(tps, offset) == Max({1} \cup {j \in 1..Len(tps) : tps[j].offset <= offset})

LEMMA PointAtIs ==
  ASSUME NEW tps \in Seq(Tps), tps # <<>>, NEW offset \in Int
  PROVE  /\ PointAt(tps, offset) \in 1..Len(tps)
         /\ PointAt(tps, offset) # 1 => tps[PointAt(tps, offset)].offset <= offset
         /\ \A j \in 1..Len(tps) : tps[j].offset <= offset => j <= PointAt(tps, offset)
<1>. DEFINE S == {1} \cup {j \in 1..Len(tps) : tps[j].offset <= offset}
           n == Len(tps)
<1>1. n \in Nat /\ n >= 1
  OBVIOUS
<1>2. S \in SUBSET (1..n) /\ S # {} /\ PointAt(tps, offset) = Max(S)
  BY <1>1 DEF PointAt
<1>3. \A j : j \in S <=> j = 1 \/ (j \in 1..n /\ tps[j].offset <= offset)
  OBVIOUS
<1>. HIDE DEF S, n
<1>4. Max(S) \in S /\ Max(S) \in 1..n /\ \A x \in S : x <= Max(S)
  <2>1. \A m \in Int : S \in SUBSET (m..n) => /\ Max(S) \in S /\ Max(S) \in m..n
                                             /\ \A x \in S : x <= Max(S)
    <3>1. n \in Int /\ S # {}
      BY <1>1, <1>2
    <3>. QED
      BY <3>1, IntervalMax
  <2>. QED
    BY <1>2, <2>1
<1>. QED
  BY <1>2, <1>3, <1>4 DEF n

LEMMA PointAtGrows ==
  ASSUME NEW tps \in Seq(Tps), tps # <<>>, NEW x \in Int, NEW y \in Int, x <= y
  PROVE  PointAt(tps, x) <= PointAt(tps, y)
<1>. DEFINE p == PointAt(tps, x)
           q == PointAt(tps, y)
<1>1. p \in 1..Len(tps) /\ (p # 1 => tps[p].offset <= x)
  BY PointAtIs
<1>2. q \in 1..Len(tps) /\ \A j \in 1..Len(tps) : tps[j].offset <= y => j <= q
  BY PointAtIs
<1>3. Len(tps) \in Nat /\ \A j \in 1..Len(tps) : tps[j].offset \in Int
  BY OffsetsAre DEF Offsets
<1>. HIDE DEF p, q
<1>4. p <= q
  <2>1. CASE p = 1
    BY <1>2, <1>3, <2>1
  <2>2. CASE p # 1
    <3>1. tps[p].offset <= y
      BY <1>1, <1>3, <2>2
    <3>. QED
      BY <1>1, <1>2, <3>1
  <2>. QED
    BY <2>1, <2>2
<1>. QED
  BY <1>4 DEF p, q

\* The scan finds the point that applies to each object.
LEMMA ScanIs ==
  ASSUME NEW b \in Beatmaps, b.tps # <<>>, InOrder(b.tps), NEW i \in 1..Len(b.hos),
         NEW from \in 1..Len(b.tps), from <= PointAt(b.tps, b.hos[i].offset)
  PROVE  Max(Applying(b, i, from)) = PointAt(b.tps, b.hos[i].offset)
<1>. DEFINE n == Len(b.tps)
           x == b.hos[i].offset
           m == PointAt(b.tps, x)
           S == Applying(b, i, from)
           o(j) == b.tps[j].offset
<1>1. b.tps \in Seq(Tps) /\ n \in Nat /\ x \in Int /\ from \in 1..n
  <2>1. b.tps \in Seq(Tps) /\ b.hos \in Seq(Hos)
    BY DEF Beatmaps
  <2>2. b.hos[i] \in Hos
    BY <2>1
  <2>3. x \in Int
    BY <2>2 DEF Hos
  <2>. HIDE DEF x
  <2>. QED
    BY <2>1, <2>3
<1>2. /\ m \in 1..n /\ (m # 1 => o(m) <= x)
      /\ \A j \in 1..n : o(j) <= x => j <= m
  BY <1>1, PointAtIs
<1>3. /\ \A j \in 1..n : o(j) \in Int
      /\ \A j, k \in 1..n : j <= k => o(j) <= o(k)
  <2>1. Offsets(b.tps)
    BY <1>1, OffsetsAre
  <2>. QED
    BY <2>1, OrderedIs DEF Offsets
<1>4. \A j : j \in S <=> j \in from..n /\ \A k \in (from + 1)..j : o(k) <= x
  BY DEF Applying, AppliesTo
<1>5. from <= m
  OBVIOUS
<1>. HIDE DEF n, x, m, S, o
<1>6. m \in S
  <2>1. m \in from..n
    BY <1>1, <1>2, <1>5
  <2>2. ASSUME NEW k \in (from + 1)..m  PROVE o(k) <= x
    <3>1. k \in 1..n /\ k <= m /\ m # 1
      BY <1>1, <1>2, <2>2
    <3>2. o(k) <= o(m) /\ o(m) <= x /\ o(k) \in Int /\ o(m) \in Int
      BY <1>2, <1>3, <3>1
    <3>. QED
      BY <1>1, <3>2
  <2>. QED
    BY <1>4, <2>1, <2>2
<1>7. \A j \in S : j <= m
  <2>. SUFFICES ASSUME NEW j \in S  PROVE j <= m
    OBVIOUS
  <2>1. j \in from..n /\ \A k \in (from + 1)..j : o(k) <= x
    BY <1>4
  <2>2. CASE j = from
    BY <1>5, <2>2
  <2>3. CASE j # from
    <3>1. j \in (from + 1)..j /\ j \in 1..n
      BY <1>1, <2>1, <2>3
    <3>. QED
      BY <1>2, <2>1, <3>1
  <2>. QED
    BY <2>2, <2>3
<1>8. Max(S) = m
  <2>1. S \in SUBSET (from..n) /\ S # {} /\ from \in Int /\ n \in Int
    BY <1>1, <1>4, <1>6
  <2>2. Max(S) \in S /\ Max(S) \in from..n /\ \A y \in S : y <= Max(S)
    BY <2>1, IntervalMax
  <2>3. Max(S) <= m /\ m <= Max(S) /\ m \in Int /\ Max(S) \in Int
    BY <1>1, <1>2, <1>6, <1>7, <2>2
  <2>. QED
    BY <2>3
<1>. QED
  BY <1>8 DEF S, m, x

LEMMA TpOfOrdered ==
  ASSUME NEW b \in Beatmaps, b.tps # <<>>, InOrder(b.tps), InOrder(b.hos)
  PROVE  \A i \in 1..Len(b.hos) : TpOf(b)[i] = PointAt(b.tps, b.hos[i].offset)
<1>. DEFINE N == Len(b.hos)
           T == TpOf(b)
           m(i) == PointAt(b.tps, b.hos[i].offset)
           S == {n \in Nat : n + 1 \in 1..N => T[n + 1] = m(n + 1)}
<1>1. /\ b.tps \in Seq(Tps) /\ b.hos \in Seq(Hos) /\ N \in Nat /\ Len(b.tps) \in Nat
      /\ \A i \in 1..N : b.hos[i].offset \in Int
  BY OffsetsAre DEF Beatmaps, Offsets
<1>2. /\ T \in [0..N -> 1..Len(b.tps)] /\ T[0] = 1
      /\ \A i \in 1..N : T[i] = Max(Applying(b, i, T[i - 1]))
  BY TpOfIs
<1>3. \A i \in 1..N : m(i) \in 1..Len(b.tps)
  BY <1>1, PointAtIs
<1>4. \A i \in 1..N - 1 : m(i) <= m(i + 1)
  <2>. SUFFICES ASSUME NEW i \in 1..N - 1  PROVE m(i) <= m(i + 1)
    OBVIOUS
  <2>. DEFINE x == b.hos[i].offset
             y == b.hos[i + 1].offset
  <2>1. x \in Int /\ y \in Int /\ x <= y
    BY <1>1 DEF InOrder
  <2>. HIDE DEF x, y
  <2>2. PointAt(b.tps, x) <= PointAt(b.tps, y)
    BY <1>1, <2>1, PointAtGrows
  <2>. QED
    BY <2>2 DEF x, y
<1>5. ASSUME NEW i \in 1..N, T[i - 1] <= m(i)  PROVE T[i] = m(i)
  <2>1. T[i - 1] \in 1..Len(b.tps)
    <3>1. i - 1 \in 0..N
      BY <1>1
    <3>. HIDE DEF T, N
    <3>. QED
      BY <1>2, <3>1
  <2>2. Max(Applying(b, i, T[i - 1])) = m(i)
    <3>. DEFINE from == T[i - 1]
    <3>. HIDE DEF from
    <3>1. from \in 1..Len(b.tps) /\ from <= PointAt(b.tps, b.hos[i].offset)
      BY <1>5, <2>1 DEF from
    <3>2. Max(Applying(b, i, from)) = PointAt(b.tps, b.hos[i].offset)
      BY <3>1, ScanIs
    <3>. QED
      BY <3>2 DEF from
  <2>. QED
    BY <1>2, <2>2
<1>. HIDE DEF N, T, m
<1>6. 0 \in S
  <2>1. ASSUME 0 + 1 \in 1..N  PROVE T[0 + 1] = m(0 + 1)
    <3>1. 1 \in 1..N /\ T[1 - 1] = 1 /\ m(1) \in 1..Len(b.tps)
      BY <1>2, <1>3, <2>1
    <3>2. T[1 - 1] <= m(1)
      BY <1>1, <3>1
    <3>. QED
      BY <1>5, <3>1, <3>2
  <2>. QED
    BY <2>1
<1>7. ASSUME NEW n \in Nat, n \in S  PROVE n + 1 \in S
  <2>1. ASSUME n + 1 + 1 \in 1..N  PROVE T[n + 1 + 1] = m(n + 1 + 1)
    <3>. DEFINE i == n + 1
    <3>1. i \in 1..N /\ i \in 1..N - 1 /\ i + 1 \in 1..N /\ i + 1 - 1 = i
      BY <1>1, <2>1
    <3>2. T[i] = m(i)
      BY <1>7, <3>1
    <3>. HIDE DEF i
    <3>3. T[i + 1 - 1] <= m(i + 1)
      BY <1>4, <3>1, <3>2
    <3>4. T[i + 1] = m(i + 1)
      BY <1>5, <3>1, <3>3
    <3>. QED
      BY <3>4 DEF i
  <2>. QED
    BY <2>1
<1>8. \A n \in Nat : n \in S
  <2>. HIDE DEF S
  <2>. QED
    BY <1>6, <1>7, NatSetInduction
<1>9. ASSUME NEW i \in 1..N  PROVE T[i] = m(i)
  <2>1. i - 1 \in Nat /\ i - 1 + 1 = i
    BY <1>1
  <2>. QED
    BY <1>8, <2>1
<1>. QED
  BY <1>9 DEF N, T, m

\* Prepared timing points, in order, after one that is not inherited.
TpsOK(tps) ==
  /\ InOrder(tps) /\ (tps # <<>> => ~tps[1].inherited)
  /\ \A i \in 1..Len(tps) : tps[i].base = LastPoint(tps, i)

LEMMA LastPointIs ==
  ASSUME NEW tps \in Seq(Tps), tps # <<>>, ~tps[1].inherited, NEW i \in 1..Len(tps)
  PROVE  LastPoint(tps, i) \in 1..i
<1>. DEFINE new == PreparedTps(tps)
           l == LastPoint(tps, i)
<1>1. new[i].base \in 1..i /\ new[i] = [tps[i] EXCEPT !.base = l]
  BY PreparedTpsAre
<1>2. tps[i] \in Tps
  OBVIOUS
<1>. HIDE DEF new, l
<1>3. new[i].base = l
  BY <1>1, <1>2 DEF Tps
<1>. QED
  BY <1>1, <1>3 DEF l

LEMMA LastPointSame ==
  ASSUME NEW s, NEW t, Len(s) \in Nat, NEW i \in 1..Len(s),
         \A j \in 1..Len(s) : t[j].inherited = s[j].inherited
  PROVE  LastPoint(t, i) = LastPoint(s, i)
<1>1. {j \in 1..i : ~t[j].inherited} = {j \in 1..i : ~s[j].inherited}
  <2>1. \A j \in 1..i : j \in 1..Len(s)
    OBVIOUS
  <2>. QED
    BY <2>1
<1>. QED
  BY <1>1 DEF LastPoint

LEMMA TpsPrepared ==
  ASSUME NEW tps \in Seq(Tps), InOrder(tps), tps # <<>> => ~tps[1].inherited
  PROVE  TpsOK(PreparedTps(tps))
<1>. DEFINE new == PreparedTps(tps)
<1>1. /\ new \in Seq(Tps) /\ Len(new) = Len(tps) /\ Len(tps) \in Nat
      /\ \A i \in 1..Len(tps) : new[i].offset = tps[i].offset /\ new[i].inherited = tps[i].inherited
  BY PreparedTpsAre
<1>2. InOrder(new)
  <2>. HIDE DEF new
  <2>. QED
    BY <1>1 DEF InOrder
<1>3. CASE tps = <<>>
  <2>1. Len(tps) = 0 /\ new = <<>>
    BY <1>3 DEF PreparedTps
  <2>. HIDE DEF new
  <2>. QED
    BY <1>1, <1>2, <2>1 DEF TpsOK, new
<1>4. CASE tps # <<>>
  <2>1. ~tps[1].inherited /\ 1 \in 1..Len(tps)
    BY <1>4
  <2>2. \A i \in 1..Len(tps) : new[i] = [tps[i] EXCEPT !.base = LastPoint(tps, i)]
    BY <1>4, <2>1, PreparedTpsAre
  <2>3. ASSUME NEW i \in 1..Len(tps)  PROVE new[i].base = LastPoint(new, i)
    <3>. DEFINE l == LastPoint(tps, i)
    <3>1. new[i] = [tps[i] EXCEPT !.base = l] /\ tps[i] \in Tps
      BY <2>2
    <3>. HIDE DEF new, l
    <3>2. new[i].base = l
      BY <3>1 DEF Tps
    <3>3. LastPoint(new, i) = l
      BY <1>1, LastPointSame DEF l
    <3>. QED
      BY <3>2, <3>3
  <2>4. ~new[1].inherited
    BY <1>1, <2>1
  <2>. HIDE DEF new
  <2>5. TpsOK(new)
    BY <1>1, <1>2, <2>3, <2>4 DEF TpsOK
  <2>. QED
    BY <2>5 DEF new
<1>. QED
  BY <1>3, <1>4

LEMMA TpsAgain ==
  ASSUME NEW tps \in Seq(Tps), TpsOK(tps)
  PROVE  PreparedTps(tps) = tps
<1>. DEFINE new == PreparedTps(tps)
<1>1. CASE tps = <<>>
  BY <1>1 DEF PreparedTps
<1>2. CASE tps # <<>>
  <2>1. ~tps[1].inherited /\ new \in Seq(Tps) /\ Len(new) = Len(tps)
    BY <1>2, PreparedTpsAre DEF TpsOK
  <2>2. \A i \in 1..Len(tps) : new[i] = [tps[i] EXCEPT !.base = LastPoint(tps, i)]
    BY <1>2, <2>1, PreparedTpsAre
  <2>3. ASSUME NEW i \in 1..Len(tps)  PROVE new[i] = tps[i]
    <3>. DEFINE l == LastPoint(tps, i)
               t == tps[i]
    <3>1. new[i] = [t EXCEPT !.base = l] /\ t \in Tps /\ t.base = l
      BY <2>2 DEF TpsOK
    <3>. HIDE DEF new, l, t
    <3>2. [t EXCEPT !.base = l] = t
      BY <3>1 DEF Tps
    <3>. QED
      BY <3>1, <3>2 DEF t
  <2>. HIDE DEF new
  <2>4. new = tps
    BY <2>1, <2>3
  <2>. QED
    BY <2>4 DEF new
<1>. QED
  BY <1>1, <1>2

\* When a slider ends.
SliderEndOK(b, o) ==
  o.type = "slider" => o.end = o.offset + Duration(b, o, b.tps[PointAt(b.tps, o.offset)])
SliderEnds(b) == \A i \in 1..Len(b.hos) : SliderEndOK(b, b.hos[i])
Lasting(b, hos) ==
  /\ InOrder(hos)
  /\ \A i \in 1..Len(hos) : /\ SliderEndOK(b, hos[i])
                            /\ hos[i].type # "slider" => hos[i].offset <= hos[i].end
Applied(b) == \A i \in 1..Len(b.hos) : b.hos[i].tp = PointAt(b.tps, b.hos[i].offset)

LEMMA DurationSame ==
  ASSUME NEW b, NEW c, c.tps = b.tps, NEW o, NEW p, p.len = o.len, p.repeat = o.repeat, NEW tp
  PROVE  Duration(c, p, tp) = Duration(b, o, tp)
  BY DEF Duration, Mpb

LEMMA SliderEndSame ==
  ASSUME NEW b, NEW c, c.tps = b.tps, NEW o, NEW p, p.len = o.len, p.repeat = o.repeat,
         p.type = o.type, p.offset = o.offset, p.end = o.end, SliderEndOK(b, o)
  PROVE  SliderEndOK(c, p)
<1>. DEFINE tp == b.tps[PointAt(b.tps, o.offset)]
<1>1. Duration(c, p, tp) = Duration(b, o, tp)
  BY DurationSame
<1>. QED
  BY <1>1 DEF SliderEndOK

\* The preparation of objects that are in order.
LEMMA HosTimed ==
  ASSUME NEW c, BmOK(c), Ready(c), TpsOK(c.tps), InOrder(c.hos), NEW d, d = PreparedHos(c)
  PROVE  /\ Applied(d) /\ InOrder(d.hos) /\ SliderEnds(d) /\ d.tps = c.tps /\ Len(d.hos) = Len(c.hos)
         /\ \A i \in 1..Len(c.hos) :
              SameObject(c.hos[i], d.hos[i]) /\ (c.hos[i].type # "slider" => d.hos[i].end = c.hos[i].end)
<1>. DEFINE N == Len(c.hos)
<1>1. d.tps = c.tps /\ Len(d.hos) = N /\ N \in Nat /\ c \in Beatmaps /\ c.tps \in Seq(Tps)
  <2>1. c \in Beatmaps
    BY DEF BmOK
  <2>2. N \in Nat /\ c.tps \in Seq(Tps)
    BY <2>1 DEF Beatmaps
  <2>3. d.tps = c.tps /\ Len(d.hos) = N
    BY HosPrepared
  <2>. QED
    BY <2>1, <2>2, <2>3
<1>2. \A i \in 1..N :
        /\ SameObject(c.hos[i], d.hos[i]) /\ d.hos[i].tp = TpOf(c)[i]
        /\ c.hos[i].type # "slider" => d.hos[i].end = c.hos[i].end
        /\ c.hos[i].type = "slider" => d.hos[i].end = SliderEnd(c, c.hos[i], c.tps[TpOf(c)[i]])
  BY <1>1, PreparedHosAre
<1>3. ASSUME NEW i \in 1..N  PROVE c.tps # <<>> /\ TpOf(c)[i] = PointAt(c.tps, c.hos[i].offset)
  <2>1. c.hos # <<>>
    BY <1>1
  <2>2. c.tps # <<>>
    BY <2>1 DEF Ready
  <2>. QED
    BY <1>1, <2>2, TpOfOrdered DEF TpsOK
<1>4. Applied(d)
  BY <1>1, <1>2, <1>3 DEF Applied, SameObject
<1>5. InOrder(d.hos)
  BY <1>1, <1>2 DEF InOrder, SameObject
<1>6. ASSUME NEW i \in 1..N  PROVE SliderEndOK(d, d.hos[i])
  <2>. DEFINE o == c.hos[i]
             p == d.hos[i]
             k == PointAt(c.tps, o.offset)
             tp == c.tps[k]
  <2>1. SameObject(o, p) /\ (o.type = "slider" => p.end = SliderEnd(c, o, tp))
    BY <1>2, <1>3
  <2>2. o.offset \in Int
    <3>1. c.hos \in Seq(Hos)
      BY <1>1 DEF Beatmaps
    <3>. QED
      BY <3>1, OffsetsAre DEF Offsets
  <2>3. k \in 1..Len(c.tps)
    BY <1>1, <1>3, <2>2, PointAtIs
  <2>4. tp.base # 0
    <3>1. tp.base = LastPoint(c.tps, k)
      BY <2>3 DEF TpsOK
    <3>. HIDE DEF k, tp
    <3>2. LastPoint(c.tps, k) \in 1..k
      BY <1>1, <1>3, <2>3, LastPointIs DEF TpsOK
    <3>. QED
      BY <3>1, <3>2
  <2>5. Duration(d, p, tp) = Duration(c, o, tp)
    BY <1>1, <2>1, DurationSame DEF SameObject
  <2>6. /\ d.tps[PointAt(d.tps, p.offset)] = tp /\ p.type = o.type /\ p.offset = o.offset
    BY <1>1, <2>1 DEF SameObject
  <2>. HIDE DEF o, p, tp
  <2>7. p.type = "slider" => p.end = p.offset + Duration(d, p, tp)
    BY <2>1, <2>4, <2>5, <2>6 DEF SliderEnd
  <2>. QED
    BY <2>6, <2>7 DEF SliderEndOK, p
<1>. QED
  BY <1>1, <1>2, <1>4, <1>5, <1>6 DEF SliderEnds

\* Timing points and objects as they are read.
LEMMA TpsAreRead ==
  ASSUME NEW f, WellFormed(f), NEW tps \in Seq(Tps), TpsRead(tps, LinesOf(f, "tp"))
  PROVE  InOrder(tps) /\ (tps # <<>> => ~tps[1].inherited)
<1>. DEFINE w == LinesOf(f, "tp")
<1>1. InOrder(w) /\ (w # <<>> => ~w[1].inherited) /\ Len(tps) = Len(w)
      /\ \A i \in 1..Len(w) : tps[i] = NewTp(w[i])
  BY DEF WellFormed, TpsRead
<1>2. \A l : NewTp(l).offset = l.offset /\ NewTp(l).inherited = l.inherited
  BY DEF NewTp
<1>. HIDE DEF w
<1>3. InOrder(tps)
  <2>1. \A i \in 1..(Len(w) - 1) : i \in 1..Len(w) /\ i + 1 \in 1..Len(w)
    BY <1>1
  <2>. QED
    BY <1>1, <1>2, <2>1 DEF InOrder
<1>4. ASSUME tps # <<>>  PROVE ~tps[1].inherited
  <2>1. 1 \in 1..Len(w) /\ w # <<>>
    BY <1>1, <1>4
  <2>. QED
    BY <1>1, <1>2, <2>1
<1>. QED
  BY <1>3, <1>4

LEMMA HosAreRead ==
  ASSUME NEW f, WellFormed(f), NEW hos \in Seq(Hos), HosRead(hos, LinesOf(f, "ho")),
         LinesOf(f, "ho") \in Seq(Lines)
  PROVE  /\ InOrder(hos)
         /\ \A i \in 1..Len(hos) : hos[i].type # "slider" => hos[i].offset <= hos[i].end
<1>. DEFINE w == LinesOf(f, "ho")
<1>1. InOrder(w) /\ Len(hos) = Len(w) /\ \A i \in 1..Len(w) : hos[i] = NewHo(w[i], i)
  BY DEF WellFormed, HosRead
<1>1a. \A l \in ToSet(w) : l.type # "slider" => l.offset <= l.end
  BY DEF WellFormed
<1>1b. \A i \in 1..Len(w) : w[i] \in ToSet(w)
  BY DEF ToSet
<1>2. \A l, n : /\ NewHo(l, n).offset = l.offset /\ NewHo(l, n).type = l.type
                /\ l.type # "slider" => NewHo(l, n).end = l.end
  BY DEF NewHo
<1>. HIDE DEF w
<1>2a. ASSUME NEW i \in 1..Len(w)
       PROVE  /\ hos[i].offset = w[i].offset /\ hos[i].type = w[i].type
              /\ w[i].type # "slider" => hos[i].end = w[i].end
  <2>. DEFINE h == NewHo(w[i], i)
  <2>1. /\ h.offset = w[i].offset /\ h.type = w[i].type
        /\ w[i].type # "slider" => h.end = w[i].end
    BY <1>2
  <2>2. hos[i] = h
    BY <1>1
  <2>. HIDE DEF h
  <2>. QED
    BY <2>1, <2>2
<1>3. InOrder(hos)
  <2>1. \A i \in 1..(Len(w) - 1) : i \in 1..Len(w) /\ i + 1 \in 1..Len(w)
    BY <1>1
  <2>. QED
    BY <1>1, <1>2a, <2>1 DEF InOrder
<1>4. ASSUME NEW i \in 1..Len(hos), hos[i].type # "slider"  PROVE hos[i].offset <= hos[i].end
  <2>1. i \in 1..Len(w) /\ w[i] \in ToSet(w)
    BY <1>1, <1>1b
  <2>. QED
    BY <1>1a, <1>2a, <1>4, <2>1
<1>. QED
  BY <1>3, <1>4

-----------------------------------------------------------------------------
(***************************************************************************)
(* What the conversion keeps.                                              *)
(***************************************************************************)
At(hos, x) == \E k \in 1..Len(hos) : hos[k].offset = x
SliderAt(hos, x) == \E k \in 1..Len(hos) : hos[k].type = "slider" /\ hos[k].offset = x
KeptAs(hos, o) ==
  o.type # "hold" => At(hos, o.offset) /\ (o.repeat > 1 => At(hos, o.end) \/ SliderAt(hos, o.offset))
Inside(ho, o) == o.offset <= ho.offset /\ Margin * (ho.end - o.end) <= o.end - o.offset
Keeps(b) ==
  /\ \A i \in 1..Len(b.orig) : KeptAs(b.hos, b.orig[i])
  /\ \A k \in 1..Len(b.hos) : \E i \in 1..Len(b.orig) : Inside(b.hos[k], b.orig[i])

\* An object is before the end of the one it comes from.
Early(ho, o) == o.offset <= ho.offset /\ Margin * (ho.offset - o.end) <= o.end - o.offset

\* What may be converted.
Convertible(b) ==
  /\ BmOK(b) /\ Ready(b) /\ TpsOK(b.tps) /\ Lasting(b, b.hos)

LEMMA EndsAre ==
  ASSUME NEW b, Convertible(b), NEW i \in 1..Len(b.hos), NEW s, PieceIs(b, i, s)
  PROVE  /\ b.hos[i].offset \in Int /\ b.hos[i].end \in Int /\ b.hos[i].offset <= b.hos[i].end
         /\ LET d == Duration(b, b.hos[i], b.tps[TpOf(b)[i]])
            IN  d \in Nat /\ (b.hos[i].type = "slider" => b.hos[i].end = b.hos[i].offset + d)
<1>. DEFINE o == b.hos[i]
           t == b.tps[TpOf(b)[i]]
           d == Duration(b, o, t)
<1>1. b \in Beatmaps /\ InOrder(b.hos) /\ InOrder(b.tps) /\ b.hos \in Seq(Hos)
  BY DEF Convertible, BmOK, Beatmaps, TpsOK, Lasting
<1>2. b.tps # <<>>
  <2>1. b.hos # <<>>
    BY <1>1
  <2>. QED
    BY <2>1 DEF Convertible, Ready
<1>3. t = b.tps[PointAt(b.tps, o.offset)]
  BY <1>1, <1>2, TpOfOrdered
<1>4. o \in Hos /\ d \in Nat
  BY DEF PieceIs
<1>5. SliderEndOK(b, o) /\ (o.type # "slider" => o.offset <= o.end)
  BY DEF Convertible, Lasting
<1>6. o.type = "slider" => o.end = o.offset + d
  BY <1>3, <1>5 DEF SliderEndOK
<1>7. o.offset \in Int /\ o.end \in Int
  BY <1>4 DEF Hos
<1>. HIDE DEF o, d
<1>8. o.offset <= o.end
  BY <1>4, <1>5, <1>6, <1>7
<1>. QED
  BY <1>4, <1>6, <1>7, <1>8 DEF o, d

\* The objects that one becomes.
LEMMA PieceElementIs ==
  ASSUME NEW b, Convertible(b), NEW i \in 1..Len(b.hos), NEW s, PieceIs(b, i, s), NEW m \in 1..Len(s)
  PROVE  /\ Inside(s[m], b.hos[i]) /\ Early(s[m], b.hos[i])
         /\ s[m].type = "slider" => s[m] = b.hos[i]
         /\ \A n \in 1..Len(s) : m < n => s[m].offset <= s[n].offset
<1>. DEFINE o == b.hos[i]
           tp == b.tps[TpOf(b)[i]]
           d == Duration(b, o, tp)
           short == TooShort(b, o, tp)
           p == s[m]
<1>1. /\ o.offset \in Int /\ o.end \in Int /\ o.offset <= o.end /\ d \in Nat
      /\ o.type = "slider" => o.end = o.offset + d
  BY EndsAre
<1>2. /\ s \in Seq(Hos)
      /\ o.type = "hold" => s = <<>>
      /\ short => Circles(o, d, s)
      /\ o.type # "hold" /\ ~short => s = <<o>>
  BY DEF PieceIs
<1>3. short => o.type = "slider"
  BY DEF TooShort
<1>. HIDE DEF o, tp, d, short, p
<1>4. CASE short
  <2>1. /\ p.type = "circle" /\ p.end = p.offset
        /\ p.offset >= o.offset /\ OffsetLe(p.offset - o.offset, d)
        /\ \A n \in 1..Len(s) : m < n => s[m].offset <= s[n].offset
    BY <1>2, <1>4 DEF Circles, p
  <2>2. p.offset \in Int
    <3>1. p \in Hos
      BY <1>2 DEF p
    <3>. QED
      BY <3>1 DEF Hos
  <2>3. o.end = o.offset + d
    BY <1>1, <1>3, <1>4
  <2>4. 20 * (p.offset - o.end) <= o.end - o.offset
    BY <1>1, <2>1, <2>2, <2>3 DEF OffsetLe, Margin
  <2>5. Early(p, o) /\ Inside(p, o)
    BY <2>1, <2>4 DEF Early, Inside, Margin
  <2>6. p.type # "slider"
    BY <2>1
  <2>. QED
    BY <2>1, <2>5, <2>6 DEF p, o
<1>5. CASE ~short
  <2>1. o.type # "hold"
    <3>1. Len(<<>>) = 0
      OBVIOUS
    <3>. QED
      BY <1>2, <3>1
  <2>2. s = <<o>>
    BY <1>2, <1>5, <2>1
  <2>3. m = 1 /\ p = o /\ Len(s) = 1
    BY <2>2 DEF p
  <2>4. 20 * (o.end - o.end) <= o.end - o.offset /\ 20 * (o.offset - o.end) <= o.end - o.offset
    BY <1>1
  <2>5. Early(p, o) /\ Inside(p, o)
    BY <1>1, <2>3, <2>4 DEF Early, Inside, Margin
  <2>6. \A n \in 1..Len(s) : ~(m < n)
    BY <2>3
  <2>. QED
    BY <2>3, <2>5, <2>6 DEF p, o
<1>. QED
  BY <1>4, <1>5

\* All of them, when no object begins before the one before it has ended.
LEMMA ConversionKeeps ==
  ASSUME NEW b, Convertible(b), Separate(b.hos),
         NEW c \in Beatmaps, c.hos = ConvertedHos(b), c.orig = b.hos, c.tps = b.tps
  PROVE  InOrder(c.hos) /\ SliderEnds(c) /\ Keeps(c)
<1>. DEFINE N == Len(b.hos)
           w == ConvertedHos(b)
           ss == Pieces(b)
           o(i) == b.hos[i]
<1>1. /\ b \in Beatmaps /\ Based(b.tps) /\ Repeats(b.hos) /\ (b.hos # <<>> => b.tps # <<>>)
      /\ InOrder(b.hos) /\ b.hos \in Seq(Hos)
  BY DEF Convertible, BmOK, Ready, Beatmaps, Lasting
<1>2. w \in Seq(Hos) /\ \E at, of : Gathered(at, of, w, ss, N)
  BY <1>1, ConvertedHosAre
<1>3. \A i \in 1..N : PieceIs(b, i, ss[i])
  BY <1>1, PiecesAre
<1>4. N \in Nat /\ \A i \in 1..N : o(i).offset \in Int /\ o(i).end \in Int
  BY <1>1, <1>3, EndsAre
<1>5. \A i, j \in 1..N : i <= j => o(i).offset <= o(j).offset
  BY <1>1, OffsetsAre, OrderedIs
<1>6. \A i \in 1..(N - 1) : Margin * (o(i + 1).offset - o(i).end) > o(i).end - o(i).offset
  BY DEF Separate
<1>. HIDE DEF w, ss
<1>7. PICK at, of : Gathered(at, of, w, ss, N)
  BY <1>2
<1>8. \A k \in 1..Len(w) : at[k] \in 1..N /\ of[k] \in 1..Len(ss[at[k]]) /\ w[k] = ss[at[k]][of[k]]
  BY <1>7 DEF Gathered
<1>9. ASSUME NEW k \in 1..Len(w)
      PROVE  /\ Inside(w[k], o(at[k])) /\ Early(w[k], o(at[k])) /\ w[k].offset \in Int
             /\ w[k].type = "slider" => w[k] = o(at[k])
             /\ \A n \in 1..Len(ss[at[k]]) : of[k] < n => w[k].offset <= ss[at[k]][n].offset
  <2>. DEFINE i == at[k]
             s == ss[i]
             m == of[k]
  <2>1. i \in 1..N /\ m \in 1..Len(s) /\ w[k] = s[m] /\ PieceIs(b, i, s)
    BY <1>3, <1>8
  <2>2. w[k].offset \in Int
    BY <1>2, OffsetsAre DEF Offsets
  <2>. HIDE DEF i, s, m
  <2>3. /\ Inside(s[m], b.hos[i]) /\ Early(s[m], b.hos[i])
        /\ s[m].type = "slider" => s[m] = b.hos[i]
        /\ \A n \in 1..Len(s) : m < n => s[m].offset <= s[n].offset
    BY <2>1, PieceElementIs
  <2>. QED
    BY <2>1, <2>2, <2>3 DEF i, s, m
<1>10. ASSUME NEW k \in 1..(Len(w) - 1)  PROVE w[k].offset <= w[k + 1].offset
  <2>. DEFINE n == k + 1
             i == at[k]
             j == at[n]
  <2>1. k \in 1..Len(w) /\ n \in 1..Len(w) /\ k < n
    BY <1>2
  <2>2. at[k] < at[n] \/ (at[k] = at[n] /\ of[k] < of[n])
    BY <1>7, <2>1 DEF Gathered
  <2>3. i \in 1..N /\ j \in 1..N /\ w[k].offset \in Int /\ w[n].offset \in Int
    BY <1>8, <1>9, <2>1
  <2>. HIDE DEF n
  <2>4. CASE at[k] = at[n] /\ of[k] < of[n]
    <3>1. of[n] \in 1..Len(ss[at[k]]) /\ w[n] = ss[at[k]][of[n]]
      BY <1>8, <2>1, <2>4
    <3>2. w[k].offset <= w[n].offset
      BY <1>9, <2>1, <2>4, <3>1
    <3>. QED
      BY <3>2 DEF n
  <2>5. CASE at[k] < at[n]
    <3>. DEFINE x == w[k].offset
               y == w[n].offset
               off == o(i).offset
               end == o(i).end
               next == o(i + 1).offset
               last == o(j).offset
    <3>0. Early(w[k], o(i)) /\ Early(w[n], o(j))
      BY <1>9, <2>1
    <3>1. 20 * (x - end) <= end - off /\ last <= y
      BY <3>0 DEF Early, Margin
    <3>2. i \in 1..(N - 1) /\ i + 1 \in 1..N /\ i + 1 <= j
      BY <1>4, <2>3, <2>5
    <3>3. 20 * (next - end) > end - off /\ next <= last
      BY <1>5, <1>6, <2>3, <3>2 DEF Margin
    <3>4. x \in Int /\ y \in Int /\ off \in Int /\ end \in Int /\ next \in Int /\ last \in Int
      BY <1>4, <2>3, <3>2
    <3>. HIDE DEF x, y, off, end, next, last
    <3>5. x <= y
      BY <3>1, <3>3, <3>4
    <3>. QED
      BY <3>5 DEF x, y, n
  <2>. QED
    BY <2>2, <2>4, <2>5
<1>11. InOrder(w)
  BY <1>10 DEF InOrder
<1>12. ASSUME NEW k \in 1..Len(w)  PROVE SliderEndOK(c, w[k])
  <2>1. w[k].type = "slider" => w[k] = o(at[k]) /\ at[k] \in 1..N
    BY <1>8, <1>9
  <2>2. \A i \in 1..N : SliderEndOK(b, o(i))
    BY DEF Convertible, Lasting
  <2>3. \A i \in 1..N : SliderEndOK(c, o(i))
    BY <2>2, SliderEndSame
  <2>. QED
    BY <2>1, <2>3 DEF SliderEndOK
<1>13. ASSUME NEW i \in 1..N  PROVE KeptAs(w, o(i))
  <2>. DEFINE p == b.hos[i]
             tp == b.tps[TpOf(b)[i]]
             d == Duration(b, p, tp)
             short == TooShort(b, p, tp)
             s == ss[i]
  <2>1. /\ short => Circles(p, d, s)
        /\ p.type # "hold" /\ ~short => s = <<p>>
    BY <1>3 DEF PieceIs
  <2>2. p.type = "slider" => p.end = p.offset + d
    BY <1>3, EndsAre
  <2>3. short => p.type = "slider"
    BY DEF TooShort
  <2>4. p.type # "slider" => p.repeat = 0
    BY <1>1 DEF Repeats
  <2>5. ASSUME NEW m \in 1..Len(s)  PROVE \E k \in 1..Len(w) : w[k] = s[m]
    <3>1. PICK k \in 1..Len(w) : at[k] = i /\ of[k] = m
      BY <1>7 DEF Gathered
    <3>2. w[k] = s[m]
      BY <1>8, <3>1
    <3>. QED
      BY <3>2
  <2>. HIDE DEF p, tp, d, short, s
  <2>6. CASE short
    <3>1. /\ Len(s) \in Int => 1 \in 1..Len(s)
          /\ s[1].offset = p.offset
          /\ p.repeat > 1 => \E m \in 1..Len(s) : s[m].offset = p.end
      BY <2>1, <2>2, <2>3, <2>6 DEF Circles
    <3>2. Len(s) \in Int
      <4>1. s \in Seq(Hos)
        BY <1>3 DEF PieceIs, s
      <4>. QED
        BY <4>1
    <3>3. At(w, p.offset)
      BY <2>5, <3>1, <3>2 DEF At
    <3>4. p.repeat > 1 => At(w, p.end)
      BY <2>5, <3>1 DEF At
    <3>. QED
      BY <3>3, <3>4 DEF KeptAs, p
  <2>7. CASE ~short /\ p.type # "hold"
    <3>1. Len(s) = 1 /\ s[1] = p
      BY <2>1, <2>7
    <3>2. PICK k \in 1..Len(w) : w[k] = p
      BY <2>5, <3>1
    <3>3. At(w, p.offset)
      BY <3>2 DEF At
    <3>4. p.repeat > 1 => p.type = "slider"
      BY <2>4
    <3>5. p.repeat > 1 => SliderAt(w, p.offset)
      BY <3>2, <3>4 DEF SliderAt
    <3>. QED
      BY <3>3, <3>5 DEF KeptAs, p
  <2>8. CASE p.type = "hold"
    BY <2>8 DEF KeptAs, p
  <2>. QED
    BY <2>6, <2>7, <2>8
<1>14. \A k \in 1..Len(w) : \E i \in 1..N : Inside(w[k], o(i))
  BY <1>8, <1>9
<1>. QED
  BY <1>11, <1>12, <1>13, <1>14 DEF SliderEnds, Keeps, w

Unconverted == (stage = "tree" /\ bm.prepared = 0) \/ (stage = "loaded" /\ bm.prepared = 1)
PreparedAgain == (stage = "tree" /\ bm.prepared = 1) \/ (stage = "loaded" /\ bm.prepared = 2)
ConvertedOK(b) == Separate(b.orig) => InOrder(b.hos) /\ SliderEnds(b) /\ Keeps(b)
AppliedOK(b) == Separate(b.orig) => Applied(b)

MapInv ==
  WellFormed(file) =>
    /\ stage \in {"tree", "again", "loaded"} => TpsOK(bm.tps)
    /\ Unconverted => Lasting(bm, bm.hos) /\ Applied(bm)
    /\ stage = "again" \/ PreparedAgain => ConvertedOK(bm)
    /\ PreparedAgain => AppliedOK(bm)

LEMMA KeepsSame ==
  ASSUME NEW b, NEW d, Keeps(b), d.orig = b.orig, Len(d.hos) = Len(b.hos),
         \A k \in 1..Len(b.hos) : /\ d.hos[k].offset = b.hos[k].offset
                                  /\ d.hos[k].end = b.hos[k].end
                                  /\ d.hos[k].type = b.hos[k].type
  PROVE  Keeps(d)
<1>1. \A x : At(b.hos, x) => At(d.hos, x)
  BY DEF At
<1>2. \A x : SliderAt(b.hos, x) => SliderAt(d.hos, x)
  BY DEF SliderAt
<1>3. \A o : KeptAs(b.hos, o) => KeptAs(d.hos, o)
  BY <1>1, <1>2 DEF KeptAs
<1>4. \A i \in 1..Len(d.orig) : KeptAs(d.hos, d.orig[i])
  BY <1>3 DEF Keeps
<1>5. \A k \in 1..Len(d.hos) : \E i \in 1..Len(d.orig) : Inside(d.hos[k], d.orig[i])
  BY DEF Keeps, Inside
<1>. QED
  BY <1>4, <1>5 DEF Keeps

\* A first preparation.
LEMMA FirstPrepared ==
  ASSUME NEW c, BmOK(c), Ready(c), TpsOK(c.tps), InOrder(c.hos),
         \A i \in 1..Len(c.hos) : c.hos[i].type # "slider" => c.hos[i].offset <= c.hos[i].end,
         NEW d, d = PreparedHos(c)
  PROVE  TpsOK(d.tps) /\ Lasting(d, d.hos) /\ Applied(d)
<1>1. /\ Applied(d) /\ InOrder(d.hos) /\ SliderEnds(d) /\ d.tps = c.tps /\ Len(d.hos) = Len(c.hos)
      /\ \A i \in 1..Len(c.hos) :
           SameObject(c.hos[i], d.hos[i]) /\ (c.hos[i].type # "slider" => d.hos[i].end = c.hos[i].end)
  BY HosTimed
<1>2. \A i \in 1..Len(d.hos) : d.hos[i].type # "slider" => d.hos[i].offset <= d.hos[i].end
  BY <1>1 DEF SameObject
<1>. QED
  BY <1>1, <1>2 DEF Lasting, SliderEnds

\* The preparation of what was converted changes no time.
LEMMA SecondPrepared ==
  ASSUME NEW c, BmOK(c), Ready(c), TpsOK(c.tps), InOrder(c.hos), SliderEnds(c), Keeps(c),
         NEW d, d = PreparedHos(c)
  PROVE  TpsOK(d.tps) /\ InOrder(d.hos) /\ SliderEnds(d) /\ Keeps(d) /\ Applied(d)
<1>1. /\ Applied(d) /\ InOrder(d.hos) /\ SliderEnds(d) /\ d.tps = c.tps /\ Len(d.hos) = Len(c.hos)
      /\ \A i \in 1..Len(c.hos) :
           SameObject(c.hos[i], d.hos[i]) /\ (c.hos[i].type # "slider" => d.hos[i].end = c.hos[i].end)
  BY HosTimed
<1>2. d.orig = c.orig
  BY HosPrepared DEF SameHead
<1>3. ASSUME NEW k \in 1..Len(c.hos)
      PROVE  /\ d.hos[k].offset = c.hos[k].offset /\ d.hos[k].end = c.hos[k].end
             /\ d.hos[k].type = c.hos[k].type
  <2>. DEFINE o == c.hos[k]
             p == d.hos[k]
  <2>1. /\ p.type = o.type /\ p.offset = o.offset /\ p.len = o.len /\ p.repeat = o.repeat
        /\ o.type # "slider" => p.end = o.end
    BY <1>1 DEF SameObject
  <2>2. SliderEndOK(c, o) /\ SliderEndOK(d, p)
    BY <1>1 DEF SliderEnds
  <2>3. \A tp : Duration(d, p, tp) = Duration(c, o, tp)
    BY <1>1, <2>1, DurationSame
  <2>. HIDE DEF o, p
  <2>4. o.type = "slider" => p.end = o.end
    BY <1>1, <2>1, <2>2, <2>3 DEF SliderEndOK
  <2>. QED
    BY <2>1, <2>4 DEF o, p
<1>4. Keeps(d)
  BY <1>1, <1>2, <1>3, KeepsSame
<1>. QED
  BY <1>1, <1>4

\* The objects and the timing points are what they were.
LEMMA MapSame ==
  ASSUME NEW b, NEW c, c.hos = b.hos, c.tps = b.tps, c.orig = b.orig
  PROVE  /\ TpsOK(b.tps) => TpsOK(c.tps)
         /\ Lasting(b, b.hos) => Lasting(c, c.hos)
         /\ Applied(b) => Applied(c)
         /\ ConvertedOK(b) => ConvertedOK(c)
         /\ AppliedOK(b) => AppliedOK(c)
<1>1. \A o : SliderEndOK(b, o) => SliderEndOK(c, o)
  BY SliderEndSame
<1>2. SliderEnds(b) => SliderEnds(c)
  BY <1>1 DEF SliderEnds
<1>3. Keeps(b) => Keeps(c)
  BY DEF Keeps
<1>4. Lasting(b, b.hos) => Lasting(c, c.hos)
  BY <1>1 DEF Lasting
<1>5. Applied(b) => Applied(c)
  BY DEF Applied
<1>. QED
  BY <1>2, <1>3, <1>4, <1>5 DEF ConvertedOK, AppliedOK

LEMMA MapPrepare ==
  ASSUME TypeInv, ReadInv, MapInv, WellFormed(file), NEW c, Prepares(c)
  PROVE  /\ TpsOK(bm'.tps) /\ bm'.prepared = bm.prepared
         /\ bm.prepared = 0 => Lasting(bm', bm'.hos) /\ Applied(bm')
         /\ bm.prepared = 1 => ConvertedOK(bm') /\ AppliedOK(bm')
<1>1. /\ BmOK(c) /\ Ready(c) /\ SameHead(bm, c) /\ c.hos = bm.hos /\ c.tps = PreparedTps(bm.tps)
      /\ bm' = PreparedHos(c)
  BY DEF Prepares, Coloured
<1>2. bm.tps \in Seq(Tps) /\ bm.hos \in Seq(Hos)
  BY DEF TypeInv, BmOK, Beatmaps
<1>3. bm'.prepared = bm.prepared /\ bm'.orig = bm.orig /\ bm'.tps = c.tps /\ c.orig = bm.orig
  BY <1>1, HosPrepared DEF SameHead
<1>4. CASE stage = "parse" /\ line = Len(file.lines)
  <2>1. file \in Files /\ line \in 0..Len(file.lines)
    BY <1>4 DEF TypeInv
  <2>2. \A k : LinesOf(file, k) = ReadTo(file, k, line) /\ LinesOf(file, k) \in Seq(Lines)
    BY <1>4, <2>1, ReadToIs
  <2>3. TpsRead(bm.tps, LinesOf(file, "tp")) /\ HosRead(bm.hos, LinesOf(file, "ho"))
    BY <1>4, <2>2 DEF ReadInv
  <2>4. TpsOK(c.tps)
    BY <1>1, <1>2, <2>3, TpsAreRead, TpsPrepared
  <2>5. /\ InOrder(c.hos)
        /\ \A i \in 1..Len(c.hos) : c.hos[i].type # "slider" => c.hos[i].offset <= c.hos[i].end
    BY <1>1, <1>2, <2>2, <2>3, HosAreRead
  <2>6. TpsOK(bm'.tps) /\ Lasting(bm', bm'.hos) /\ Applied(bm')
    BY <1>1, <2>4, <2>5, FirstPrepared
  <2>7. bm.prepared = 0
    BY <1>4 DEF TypeInv, Phase
  <2>. QED
    BY <1>3, <2>6, <2>7
<1>5. CASE stage = "again"
  <2>1. TpsOK(bm.tps) /\ ConvertedOK(bm) /\ bm.prepared = 1
    BY <1>5 DEF MapInv, TypeInv, Phase
  <2>2. c.tps = bm.tps
    BY <1>1, <1>2, <2>1, TpsAgain
  <2>3. ASSUME Separate(bm.orig)
        PROVE  InOrder(bm'.hos) /\ SliderEnds(bm') /\ Keeps(bm') /\ Applied(bm')
    <3>1. InOrder(c.hos) /\ SliderEnds(c) /\ Keeps(c)
      <4>1. ConvertedOK(c)
        BY <1>1, <1>3, <2>1, <2>2, MapSame
      <4>. QED
        BY <1>3, <2>3, <4>1 DEF ConvertedOK
    <3>. QED
      BY <1>1, <2>1, <2>2, <3>1, SecondPrepared
  <2>. QED
    BY <1>3, <2>1, <2>2, <2>3 DEF ConvertedOK, AppliedOK
<1>. QED
  BY <1>4, <1>5 DEF Prepares

LEMMA MapInit == ASSUME Init  PROVE MapInv
  BY DEF Init, MapInv, Unconverted, PreparedAgain

LEMMA MapStep ==
  ASSUME TypeInv, SecInv, ReadInv, TreeInv, MapInv, [Next]_vars  PROVE MapInv'
<1>0. bm \in Beatmaps
  BY DEF TypeInv, BmOK
<1>1. CASE Open
  <2>1. stage' \in {"fail", "parse"}
    BY <1>1, OpenIs
  <2>. QED
    BY <2>1 DEF MapInv, Unconverted, PreparedAgain
<1>2. CASE ParseLine
  <2>1. stage' \in {"parse", "fail", "crash"}
    BY <1>2, ReadObjects
  <2>. QED
    BY <2>1 DEF MapInv, Unconverted, PreparedAgain
<1>3. CASE Prepare
  <2>1. CASE NoPoint
    BY <2>1 DEF NoPoint, Stop, MapInv, Unconverted, PreparedAgain
  <2>2. CASE \E c : Prepares(c)
    <3>1. PICK c : Prepares(c)
      BY <2>2
    <3>2. stage' = "tree" /\ file' = file
      BY <3>1 DEF Prepares
    <3>. SUFFICES ASSUME WellFormed(file)  PROVE MapInv'
      BY <3>2 DEF MapInv
    <3>3. /\ TpsOK(bm'.tps) /\ bm'.prepared = bm.prepared
          /\ bm.prepared = 0 => Lasting(bm', bm'.hos) /\ Applied(bm')
          /\ bm.prepared = 1 => ConvertedOK(bm') /\ AppliedOK(bm')
      BY <3>1, MapPrepare
    <3>. QED
      BY <3>2, <3>3 DEF MapInv, Unconverted, PreparedAgain
  <2>. QED
    BY <1>3, <2>1, <2>2, PrepareStep
<1>4. CASE BuildTree
  <2>. SUFFICES ASSUME WellFormed(file')  PROVE MapInv'
    BY DEF MapInv
  <2>1. file' = file /\ stage = "tree"
    BY <1>4, BuildStep DEF TooDeep, Rooted, Orphan, Adopted, Built, Stop
  <2>2. stage' = "tree" /\ (Rooted \/ Adopted)
    BY <1>4, <2>1, BuildOf DEF Rooted, Adopted
  <2>3. /\ bm'.hos = bm.hos /\ bm'.tps = bm.tps /\ bm'.orig = bm.orig
        /\ bm'.prepared = bm.prepared
    <3>1. CASE Rooted
      BY <3>1 DEF Rooted
    <3>2. CASE Adopted
      BY <3>2, AdoptedIs DEF OtherEvents, SameHead
    <3>. QED
      BY <2>2, <3>1, <3>2
  <2>. QED
    BY <2>1, <2>2, <2>3, MapSame DEF MapInv, Unconverted, PreparedAgain
<1>5. CASE PrepareEvents
  <2>1. Finishes
    BY <1>5, FinishStep
  <2>2. /\ stage = "tree" /\ stage' = "loaded" /\ file' = file /\ bm'.prepared = bm.prepared + 1
        /\ bm'.hos = bm.hos /\ bm'.tps = bm.tps /\ bm'.orig = bm.orig
    BY <2>1 DEF Finishes
  <2>3. bm.prepared \in {0, 1}
    BY <2>2 DEF TypeInv, Phase
  <2>4. (bm'.prepared = 1 <=> bm.prepared = 0) /\ (bm'.prepared = 2 <=> bm.prepared = 1)
    BY <2>2, <2>3
  <2>. QED
    BY <2>2, <2>4, MapSame DEF MapInv, Unconverted, PreparedAgain
<1>6. CASE Autoconvert
  <2>1. Converts
    BY <1>6, ConvertStep
  <2>2. /\ stage = "loaded" /\ bm.mode = "std" /\ stage' = "again" /\ file' = file
        /\ bm' \in Beatmaps /\ bm'.hos = ConvertedHos(bm) /\ bm'.orig = bm.hos /\ bm'.tps = bm.tps
    BY <2>1 DEF Converts, BmOK
  <2>. SUFFICES ASSUME WellFormed(file)  PROVE TpsOK(bm'.tps) /\ ConvertedOK(bm')
    BY <2>2 DEF MapInv, Unconverted, PreparedAgain
  <2>3. bm.prepared = 1 /\ BmOK(bm) /\ Ready(bm)
    BY <2>2 DEF TypeInv, Phase
  <2>4. TpsOK(bm.tps) /\ Lasting(bm, bm.hos)
    BY <2>2, <2>3 DEF MapInv, Unconverted
  <2>5. Convertible(bm)
    BY <2>3, <2>4 DEF Convertible
  <2>6. Separate(bm.hos) => InOrder(bm'.hos) /\ SliderEnds(bm') /\ Keeps(bm')
    BY <2>2, <2>5, ConversionKeeps
  <2>. QED
    BY <2>2, <2>4, <2>6 DEF ConvertedOK
<1>7. CASE Free
  <2>1. stage' \in {"idle", "crash"}
    BY <1>7, FreeStep DEF FreeDone, Stop
  <2>. QED
    BY <2>1 DEF MapInv, Unconverted, PreparedAgain
<1>8. CASE UNCHANGED vars
  <2>1. stage' = stage /\ bm' = bm /\ file' = file
    BY <1>8 DEF vars
  <2>. QED
    BY <2>1 DEF MapInv, Unconverted, PreparedAgain
<1>. QED
  BY <1>1, <1>2, <1>3, <1>4, <1>5, <1>6, <1>7, <1>8 DEF Next

LEMMA PointApplies == ASSUME TypeInv, MapInv  PROVE TimingPointApplies
<1>. SUFFICES ASSUME Loaded, Separate(Original), NEW ho \in ToSet(bm.hos)
              PROVE  ho.tp = Max({1} \cup {j \in DOMAIN bm.tps : bm.tps[j].offset <= ho.offset})
  BY DEF TimingPointApplies
<1>1. stage = "loaded" /\ WellFormed(file) /\ bm \in Beatmaps
  BY DEF Loaded, TypeInv, BmOK
<1>2. DOMAIN bm.tps = 1..Len(bm.tps) /\ DOMAIN bm.hos = 1..Len(bm.hos)
  BY <1>1 DEF Beatmaps
<1>3. Applied(bm)
  <2>1. CASE bm.prepared = 1
    BY <1>1, <2>1 DEF MapInv, Unconverted
  <2>2. CASE bm.prepared = 2
    <3>1. Separate(bm.orig)
      BY <2>2 DEF Original, IsConverted
    <3>. QED
      BY <1>1, <2>2, <3>1 DEF MapInv, PreparedAgain, AppliedOK
  <2>. QED
    BY <1>1, <2>1, <2>2 DEF TypeInv, Phase
<1>4. PICK i \in 1..Len(bm.hos) : ho = bm.hos[i]
  BY <1>2 DEF ToSet
<1>. QED
  BY <1>2, <1>3, <1>4 DEF Applied, PointAt

LEMMA ConversionIsKept == ASSUME TypeInv, MapInv  PROVE ConversionKeepsMap
<1>. SUFFICES ASSUME Loaded, IsConverted, Separate(bm.orig)
              PROVE  LET b == bm
                         at(offset) == \E ho \in ToSet(b.hos) : ho.offset = offset
                     IN /\ InOrder(b.hos)
                        /\ \A o \in ToSet(b.orig) : o.type # "hold" =>
                             /\ at(o.offset)
                             /\ o.repeat > 1 =>
                                  at(o.end) \/ \E ho \in ToSet(b.hos) : ho.type = "slider" /\ ho.offset = o.offset
                        /\ \A ho \in ToSet(b.hos) : \E o \in ToSet(b.orig) :
                             /\ o.offset <= ho.offset
                             /\ Margin * (ho.end - o.end) <= o.end - o.offset
  BY DEF ConversionKeepsMap
<1>1. stage = "loaded" /\ WellFormed(file) /\ bm \in Beatmaps /\ bm.prepared = 2
  BY DEF Loaded, TypeInv, BmOK, IsConverted
<1>2. DOMAIN bm.orig = 1..Len(bm.orig) /\ DOMAIN bm.hos = 1..Len(bm.hos)
  BY <1>1 DEF Beatmaps
<1>3. InOrder(bm.hos) /\ Keeps(bm)
  BY <1>1 DEF MapInv, PreparedAgain, ConvertedOK
<1>4. /\ ToSet(bm.hos) = {bm.hos[k] : k \in 1..Len(bm.hos)}
      /\ ToSet(bm.orig) = {bm.orig[k] : k \in 1..Len(bm.orig)}
  BY <1>2 DEF ToSet
<1>5. \A x : At(bm.hos, x) <=> \E ho \in ToSet(bm.hos) : ho.offset = x
  BY <1>4 DEF At
<1>6. \A x : SliderAt(bm.hos, x) <=> \E ho \in ToSet(bm.hos) : ho.type = "slider" /\ ho.offset = x
  BY <1>4 DEF SliderAt
<1>7. \A o \in ToSet(bm.orig) : KeptAs(bm.hos, o)
  BY <1>3, <1>4 DEF Keeps
<1>8. \A ho \in ToSet(bm.hos) : \E o \in ToSet(bm.orig) : Inside(ho, o)
  BY <1>3, <1>4 DEF Keeps
<1>9. \A o \in ToSet(bm.orig) : o.type # "hold" =>
        /\ \E ho \in ToSet(bm.hos) : ho.offset = o.offset
        /\ o.repeat > 1 =>
             (\E ho \in ToSet(bm.hos) : ho.offset = o.end)
               \/ \E ho \in ToSet(bm.hos) : ho.type = "slider" /\ ho.offset = o.offset
  BY <1>5, <1>6, <1>7 DEF KeptAs
<1>10. \A ho \in ToSet(bm.hos) : \E o \in ToSet(bm.orig) :
         o.offset <= ho.offset /\ Margin * (ho.end - o.end) <= o.end - o.offset
  BY <1>8 DEF Inside
<1>. QED
  BY <1>3, <1>9, <1>10

LEMMA MapAlways == Spec => [](TypeInv /\ MapInv)
<1>1. Init => TypeInv /\ SecInv /\ ReadInv /\ TreeInv /\ MapInv
  BY TypeInit, SecInit, ReadInit, TreeInit, MapInit
<1>2. TypeInv /\ SecInv /\ ReadInv /\ TreeInv /\ MapInv /\ [Next]_vars
      => (TypeInv /\ SecInv /\ ReadInv /\ TreeInv /\ MapInv)'
  BY TypeStep, SecStep, ReadStep, TreeStep, MapStep
<1>. QED
  BY <1>1, <1>2, PTL DEF Spec

\* The timing point of each object of a loaded beatmap is the last one that is not
\* after it, converted or not.
THEOREM TimingPointAlwaysApplies == Spec => []TimingPointApplies
<1>1. TypeInv /\ MapInv => TimingPointApplies
  BY PointApplies
<1>. QED
  BY <1>1, MapAlways, PTL

\* A conversion keeps the map: the order of the objects, each start, the end of the
\* sliders that repeat, and the time the objects are in.
THEOREM ConversionAlwaysKeepsMap == Spec => []ConversionKeepsMap
<1>1. TypeInv /\ MapInv => ConversionKeepsMap
  BY ConversionIsKept
<1>. QED
  BY <1>1, MapAlways, PTL
=============================================================================
