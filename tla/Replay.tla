------------------------------- MODULE Replay -------------------------------
(***************************************************************************)
(* Reading a replay file: osux_replay_init in lib/replay/replay.c over the *)
(* buffer reader (buffer_reader.c) and the LZMA loop (xz_decomp.c).        *)
(*                                                                         *)
(* The file is known by how many of its bytes are there, and a field by    *)
(* whose bytes it was filled from.  osux_replay_init checks no read: one   *)
(* that does not fit leaves its field and the position alone, and a later, *)
(* smaller field may be filled from the bytes that are left.               *)
(***************************************************************************)
EXTENDS Integers, Sequences, SequencesExt

CONSTANTS
  Files,   \* the files: records [len, strings, lifeOk, rows, sound, mode, mods, map]
  Chunks   \* how many reads of in_buf the compressed rows take

ASSUME ChunksAssumption == Chunks \in Nat

\* The fields in the order they are read, with the bytes they take; a size of
\* 0 is a string's, which the file decides.
Fields ==
  << <<"game_mode", 1>>, <<"game_version", 4>>,
     <<"beatmap_hash", 0>>, <<"player_name", 0>>, <<"replay_hash", 0>>,
     <<"_300", 2>>, <<"_100", 2>>, <<"_50", 2>>, <<"_geki", 2>>, <<"_katu", 2>>,
     <<"_miss", 2>>, <<"score", 4>>, <<"max_combo", 2>>, <<"fc", 1>>, <<"mods", 4>>,
     <<"life_graph", 0>>, <<"ticks", 8>>, <<"replay_length", 4>> >>
F == 1..Len(Fields)
Name(i) == Fields[i][1]
Names == {Name(i) : i \in F}

\* An absent string (-1) is a head byte; another one is the head 0x0B, its
\* length and its bytes.
StringBytes(l) == IF l = -1 THEN 1 ELSE 2 + l
Bytes(f, i) == IF Fields[i][2] > 0 THEN Fields[i][2] ELSE StringBytes(f.strings[Name(i)])

\* Where field i begins; where the compressed rows begin.
Offset(f) == LET at[i \in 1..Len(Fields) + 1] ==
                   IF i = 1 THEN 0 ELSE at[i - 1] + Bytes(f, i - 1)
             IN at
RowsOffset(f) == Offset(f)[Len(Fields) + 1]

\* A file has a number of bytes, and each of its strings is absent or has a
\* length; the times of its rows and of its beatmap are whole milliseconds.
RowsOfFile == [dt : Int, keys : SUBSET Nat, ok : BOOLEAN]
ASSUME FilesAssumption ==
  \A f \in Files :
    /\ f.len \in Nat
    /\ \A i \in F : Fields[i][2] = 0 => f.strings[Name(i)] \in Nat \cup {-1}
    /\ f.rows \in Seq(RowsOfFile)
    /\ f.map.od \in Int /\ f.map.objects \in Seq([kind : STRING, time : Int, end : Int])

VARIABLES
  file,     \* the file being read
  r,        \* br->r
  field,    \* the next field to read
  value,    \* what each field holds: "zero", its "own" bytes, bytes of "other"
            \* fields, or "uninit" (a string allocated and not filled)
  chunk,    \* lzma_legacy_decompress: the reads of in_buf made
  inflated, \* lzma_legacy_decompress: the rows written to out_file
  lzma,     \* lzma_legacy_decompress: in_finished, out_finished and ret
  data,     \* the rows of replay->data; none is data_count 0
  parsed    \* osux_replay_init: "reading", "inflating", "ok" or "failed"

replayVars == <<file, r, field, value, chunk, inflated, lzma, data, parsed>>

-----------------------------------------------------------------------------
(***************************************************************************)
(* The buffer reader.                                                      *)
(***************************************************************************)

\* osux_buffer_reader_read: are n more bytes there?  (Mutant FitsAlways: the
\* range is not checked.)
FitsAlways(n) == n \in Nat
Fits(n) == r + n <= file.len

InPlace(i) == r = Offset(file)[i]
Fill(i) == value' = [value EXCEPT ![Name(i)] = IF InPlace(i) THEN "own" ELSE "other"]

\* READ_V.
ReadValue(i) ==
  /\ Fields[i][2] > 0
  /\ IF Fits(Fields[i][2])
     THEN r' = r + Fields[i][2] /\ Fill(i)
     ELSE UNCHANGED <<r, value>>

\* READ_S: the head, the length, the bytes.  Out of place, the head and the
\* length are what other bytes say; lengths up to MaxStray stand for all of
\* them.  When the bytes are not all there, the string stays allocated and
\* empty of them, and the position stays after the length.
MaxStray == 2
ReadString(i) ==
  /\ Fields[i][2] = 0
  /\ \E l \in IF InPlace(i) THEN {file.strings[Name(i)]} ELSE -1..MaxStray :
       IF ~Fits(1) THEN UNCHANGED <<r, value>>
       ELSE IF l >= 0 /\ ~Fits(2) THEN r' = r + 1 /\ UNCHANGED value
       ELSE IF ~Fits(StringBytes(l))
            THEN r' = r + 2 /\ value' = [value EXCEPT ![Name(i)] = "uninit"]
            ELSE r' = r + StringBytes(l) /\ Fill(i)

-----------------------------------------------------------------------------
(***************************************************************************)
(* osux_replay_init.                                                       *)
(***************************************************************************)

\* What parse_life_graph may return for the string in life_graph: an error for
\* a point without its two parts, anything for bytes that are no life graph.
LifeGraph(v) == CASE v = "zero" -> {"reading"}
                  [] v = "own" -> IF file.lifeOk THEN {"reading"} ELSE {"failed"}
                  [] OTHER -> {"reading", "failed"}

ReadField ==
  /\ parsed = "reading" /\ field \in F
  /\ ReadValue(field) \/ ReadString(field)
  /\ field' = field + 1
  /\ parsed' \in IF Name(field) = "life_graph" THEN LifeGraph(value'["life_graph"])
                                               ELSE {"reading"}
  /\ UNCHANGED <<file, chunk, inflated, lzma, data>>

BeginInflate ==
  /\ parsed = "reading" /\ field \notin F
  /\ parsed' = "inflating"
  /\ UNCHANGED <<file, r, field, value, chunk, inflated, lzma, data>>

\* The decoder is given the compressed rows, all of them and nothing else.
StreamWhole == /\ file.sound /\ r = RowsOffset(file) /\ r < file.len
               /\ value["replay_length"] = "own"

\* What liblzma has written after n reads of a whole stream, and what it may
\* have written after n reads of another one: rows, the last of them cut.
\* (Mutant LastLost: what the decoder flushes at LZMA_FINISH is not written.)
LastLost(n) == SubSeq(file.rows, 1, (Len(file.rows) * n) \div (Chunks + 2))
Decoded(n) == SubSeq(file.rows, 1, IF n >= Chunks THEN Len(file.rows)
                                   ELSE (Len(file.rows) * n) \div (Chunks + 1))
CutRow == [dt |-> 0, keys |-> {}, ok |-> FALSE]
DecodedOf(n) == IF StreamWhole THEN {Decoded(n)}
                ELSE {inflated, Decoded(n), Append(Decoded(n), CutRow)}

\* One turn of lzma_legacy_decompress: read in_buf (nothing is left after
\* Chunks reads), run the decoder until it writes no more.  A stream that is
\* not whole may be reported, and may end without being reported.
Inflate ==
  /\ parsed = "inflating" /\ ~lzma.inFinished /\ ~lzma.outFinished
  /\ chunk' = chunk + 1
  /\ \/ /\ inflated' \in DecodedOf(chunk')
        /\ lzma' = [lzma EXCEPT !.inFinished = chunk >= Chunks]
     \/ /\ ~StreamWhole
        /\ lzma' = [inFinished |-> chunk >= Chunks, outFinished |-> TRUE, ret |-> "error"]
        /\ UNCHANGED inflated
  /\ UNCHANGED <<file, r, field, value, data, parsed>>

\* parse_replay_data: a row's time is the time of the row before and its own
\* delay; the first row is at 0 whatever it says.
ParsedRows(rows) ==
  LET time[i \in 1..Len(rows)] == IF i = 1 THEN 0 ELSE time[i - 1] + rows[i].dt
  IN  [i \in 1..Len(rows) |-> [time |-> time[i], keys |-> rows[i].keys]]

\* The end of osux_replay_init: no rows at all is not an error, a row without
\* its four parts is one.
EndInflate ==
  /\ parsed = "inflating" /\ (lzma.inFinished \/ lzma.outFinished)
  /\ LET broken == \E i \in 1..Len(inflated) : ~inflated[i].ok IN
     /\ parsed' = IF lzma.ret = "ok" /\ broken THEN "failed" ELSE "ok"
     /\ data' = IF lzma.ret = "ok" /\ ~broken
                THEN ParsedRows(inflated) ELSE << >>
  /\ UNCHANGED <<file, r, field, value, chunk, inflated, lzma>>

ReplayInit ==
  /\ file \in Files
  /\ r = 0 /\ field = 1
  /\ value = [n \in Names |-> "zero"]
  /\ chunk = 0 /\ inflated = << >>
  /\ lzma = [inFinished |-> FALSE, outFinished |-> FALSE, ret |-> "ok"]
  /\ data = << >> /\ parsed = "reading"

ReplayNext == ReadField \/ BeginInflate \/ Inflate \/ EndInflate

-----------------------------------------------------------------------------
(***************************************************************************)
(* Properties.                                                             *)
(***************************************************************************)

\* A file that is cut loses its end and nothing else: once the fields are read
\* (or the life graph was refused), the fields the file holds in full have
\* their own bytes and no other field passes for one that was read whole, although
\* osux_replay_init looks at the result of no read.
CutLosesOnlyTheEnd ==
  \A i \in 1..field - 1 : value[Name(i)] = "own" <=> Offset(file)[i + 1] <= file.len
=============================================================================
