----------------------------- MODULE MCTrMain -----------------------------
(***************************************************************************)
(* Small instances of TrMain for TLC: the command lines.                   *)
(***************************************************************************)
EXTENDS TrMain

MCWords == {"-mods", "HR", "DT", "-score", "-acc", "-ggm", "-quick", "-step", "-no_bonus",
            "-flat", "-input", "-nope", "+pyaml", "+db", "+bdb", "+help",
            "+autoconvert", "+nope", "0", "1", "2", "a.osu", "b.osu", "std.osu", "hash"}

MCFirstChar ==
  [w \in MCWords |->
     CASE w \in {"-mods", "-score", "-acc", "-ggm", "-quick", "-step", "-no_bonus",
                 "-flat", "-input", "-nope"} -> "-"
       [] w \in {"+pyaml", "+db", "+bdb", "+help", "+autoconvert", "+nope"} -> "+"
       [] OTHER -> "w"]

\* atoi reads 0 in a word that is not a number.
MCAtoi == [w \in MCWords |-> IF w = "1" THEN 1 ELSE IF w = "2" THEN 2 ELSE 0]

\* str_to_mods leaves unknown mods out.
MCMods == [w \in MCWords |-> IF w \in {"HR", "DT"} THEN {w} ELSE {}]

MCFile ==
  [w \in {"a.osu", "b.osu", "std.osu", "hash"} |->
     [name |-> IF w = "hash" THEN "hash" ELSE "osu",
      mode |-> IF w = "std.osu" THEN "std" ELSE "taiko"]]

\* Every command line of at most four of these words: files before and after
\* the options, options without their arguments, and files taken as arguments.
MCShort ==
  UNION {[1..n -> {"+pyaml", "1", "-mods", "HR", "-score", "a.osu"}] : n \in 0..4}

\* The options with more arguments, the files that need a global option, and
\* local options that change between two files.
MCLong ==
  { <<"+autoconvert", "0", "std.osu", "a.osu">>,
    <<"std.osu", "-ggm", "1", "2", "b.osu">>,
    <<"+bdb", "1", "hash", "-acc", "1", "a.osu">>,
    <<"hash", "-nope", "-flat", "1", "a.osu">>,
    <<"+pyaml", "1", "+db", "1", "a.osu", "-ggm", "1", "2", "b.osu">>,
    <<"+db", "1", "-score", "1", "a.osu", "-score", "0", "b.osu">>,
    <<"+pyaml", "1", "-quick", "1", "a.osu", "-mods", "DT", "b.osu", "-ggm", "1">>,
    <<"-mods", "HR", "a.osu", "-mods", "DT", "a.osu", "-mods", "0", "b.osu">>,
    <<"+nope", "-step", "1", "-input", "0", "a.osu", "+pyaml", "-no_bonus", "1", "b.osu">>,
    <<"+pyaml", "1", "+help", "a.osu">>,
    <<"+pyaml">> }

MCLines == MCShort \cup MCLong

=============================================================================
