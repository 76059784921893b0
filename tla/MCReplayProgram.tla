--------------------------- MODULE MCReplayProgram ----------------------------
(***************************************************************************)
(* Tapes for model checking the replay program: everything of up to two    *)
(* messages, the same after the directory message of the wanted symbol,    *)
(* and tapes of one call repeated, for the histogram.                      *)
(***************************************************************************)
EXTENDS ReplayProgram

\* "P" is a type the parser does not unpack.  Some lengths need the high byte.
Lengths == [t \in {"R", "S", "A", "F", "E", "C", "X", "D", "U", "P"} |->
              CASE t = "D" -> 3 [] t \in {"A", "U"} -> 4 [] t = "P" -> 9 [] OTHER -> 5]

About(locate, types) == {[type |-> t, locate |-> locate] : t \in types}

Directory == [type |-> "R", locate |-> Wanted]
Messages  == About(Wanted, DOMAIN Lengths) \cup About(8, {"R", "A", "U"})

ShortTapes == BoundedSeq(Messages, 2)
MCTapes ==
  ShortTapes
  \cup {<<Directory>> \o rest : rest \in ShortTapes}
  \cup {<<Directory>> \o [i \in 1 .. 5 |-> [type |-> "A", locate |-> Wanted]]}

\* p50, p90, p99, p999 and p9999.
SummaryPercentiles == {<<1, 2>>, <<9, 10>>, <<99, 100>>, <<999, 1000>>, <<9999, 10000>>}

=============================================================================
