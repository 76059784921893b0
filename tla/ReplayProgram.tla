---------------------------- MODULE ReplayProgram -----------------------------
(***************************************************************************)
(* The replay program, main() of src/replay.cpp: it maps the file, parses  *)
(* it, times each call into the engine that a message leads to, and writes *)
(* what it has measured.                                                   *)
(*                                                                         *)
(* This module is about everything around the engine, and Replay about     *)
(* what the calls do to it; here a call takes a while, and a replace finds *)
(* its original or does not.                                               *)
(***************************************************************************)
EXTENDS ItchParser, LatencyHistogram, MappedFile, TargetSymbol

CONSTANTS
  Durations,   \* what the clock may show for a call, in nanoseconds
  Percentiles  \* the fractions of the summary

VARIABLES
  stage,    \* "start", "parse", "report", or "end"
  hists,    \* hist_submit_, hist_cancel_, hist_reduce_
  samples,  \* the durations they have been given, in order (history)
  calls,    \* the histograms of the calls the current message still makes
  counters, \* adds_, execs_, cancels_, deletes_, replaces_, replaces_skipped_
  counter,  \* the one that counts the current message
  written   \* the latency files that were written, and their rows

handlerVars == <<target_locate, hists, samples, calls, counters, counter>>
programVars == <<parserVars, fileVars, handlerVars, stage, written>>

Kinds    == {"submit", "cancel", "reduce"}
Counters == {"adds", "execs", "cancels", "deletes", "replaces", "replaces_skipped"}

-----------------------------------------------------------------------------
(* The handlers, as far as they measure and count.                         *)

\* (Mutant) A replace that finds no original is cancelled and submitted too.
SkippedCallsMade == <<"cancel", "submit">>

\* A replace that finds no original is skipped.
SkippedCalls == <<>>

\* The calls an order message of a type may lead to, and what counts it.
Handling(type) ==
  {h \in {[types |-> {"A", "F"}, calls |-> <<"submit">>, counter |-> "adds"],
          [types |-> {"E", "C"}, calls |-> <<"reduce">>, counter |-> "execs"],
          [types |-> {"X"}, calls |-> <<"reduce">>, counter |-> "cancels"],
          [types |-> {"D"}, calls |-> <<"cancel">>, counter |-> "deletes"],
          [types |-> {"U"}, calls |-> <<"cancel", "submit">>, counter |-> "replaces"],
          [types |-> {"U"}, calls |-> SkippedCalls, counter |-> "replaces_skipped"]} :
     type \in h.types}

\* Only messages about no stock in particular carry the code 0.
ASSUME ProgramAssumption ==
  /\ Durations \subseteq Nat
  /\ \A p \in Percentiles : p \in Nat \X (Nat \ {0}) /\ p[1] <= p[2]
  /\ \A t \in Tapes : \A i \in DOMAIN t : t[i].locate = 0 => Handling(t[i].type) = {}

Handle(message) ==
  /\ UNCHANGED <<hists, samples>>
  /\ IF message.type = "R" THEN OnStockDirectory(message.locate) ELSE UNCHANGED target_locate
  /\ IF Handling(message.type) = {} \/ Filtered(message.locate)
     THEN UNCHANGED <<calls, counters, counter>>
     ELSE \E h \in Handling(message.type) :
            /\ calls' = h.calls /\ counter' = h.counter
            /\ counters' = IF h.calls = <<>> THEN [counters EXCEPT ![h.counter] = @ + 1]
                           ELSE counters

\* One call into the engine between two looks at the clock; after its last call
\* the message is counted.
TimedCall ==
  /\ calls # <<>>
  /\ \E ns \in Durations :
       /\ hists' = [hists EXCEPT ![Head(calls)] = Record(@, ns)]
       /\ samples' = [samples EXCEPT ![Head(calls)] = Append(@, ns)]
  /\ calls' = Tail(calls)
  /\ counters' = IF Len(calls) = 1 THEN [counters EXCEPT ![counter] = @ + 1] ELSE counters
  /\ UNCHANGED <<parserVars, fileVars, target_locate, counter, stage, written>>

-----------------------------------------------------------------------------
(* main().                                                                 *)

\* An exception of the constructor is not caught: the process ends.
MapFile ==
  /\ stage = "start"
  /\ Construct(Len(data))
  /\ stage' = CASE file' = "mapped" -> "parse" [] file' = "threw" -> "end" [] OTHER -> stage
  /\ UNCHANGED <<parserVars, handlerVars, written>>

DispatchFrame ==
  /\ stage = "parse" /\ calls = <<>>
  /\ ParseFrame /\ Handle(Message)
  /\ UNCHANGED <<fileVars, stage, written>>

\* (Mutant) The parser waits for the rest of a frame that is not there.
ParseReturnsAtEnd ==
  /\ stage = "parse" /\ calls = <<>> /\ pos = Len(data)
  /\ stage' = "report"
  /\ UNCHANGED <<parserVars, fileVars, handlerVars, written>>

ParseReturns ==
  /\ stage = "parse" /\ calls = <<>> /\ ~FrameFits
  /\ stage' = "report"
  /\ UNCHANGED <<parserVars, fileVars, handlerVars, written>>

\* With --snapshot-only nothing is written.  A file that cannot be opened is not
\* written either, and nothing notices.  The snapshot is OrderBook's TopN.
WriteReport ==
  /\ stage = "report" /\ file = "mapped"
  /\ \E snapshot_only \in BOOLEAN : \E opened \in SUBSET Kinds :
       written' = IF snapshot_only THEN <<>> ELSE [k \in opened |-> CsvRows(hists[k])]
  /\ Destroy /\ stage' = "end"
  /\ UNCHANGED <<parserVars, handlerVars>>

ProgramInit ==
  /\ ParseInit /\ FileInit /\ NoTarget
  /\ stage = "start" /\ written = <<>>
  /\ hists = [k \in Kinds |-> NewHistogram]
  /\ samples = [k \in Kinds |-> <<>>]
  /\ calls = <<>> /\ counters = [c \in Counters |-> 0] /\ counter = "adds"

ProgramNext == MapFile \/ DispatchFrame \/ TimedCall \/ ParseReturns \/ WriteReport

\* A program on its own, waiting for nobody.
ProgramSpec == ProgramInit /\ [][ProgramNext]_programVars /\ WF_programVars(ProgramNext)

-----------------------------------------------------------------------------

\* "Stops cleanly at the first truncated frame": the parser stays in step with
\* the frames, whatever their types and lengths, and once it returns it has
\* dispatched every message whose frame is complete, in order, and no other.
DispatchExact ==
  /\ count = Len(dispatched) /\ pos = EndOf(count)
  /\ dispatched = SubSeq(tape, 1, count)
  /\ stage = "report" =>
       \A i \in DOMAIN tape : i <= count <=> EndOf(i) <= Len(data)

\* The summary is that of the samples: a percentile is the bucket edge of the
\* sample of its rank, in octaves and in the overflow bucket too.
PercentilesExact ==
  stage = "report" => \A k \in Kinds : Summarises(hists[k], samples[k], Percentiles)

\* A latency file that is written has every sample once, under its edge.
CsvExact == \A k \in DOMAIN written : Tabulates(written[k], samples[k])

\* The message i of the tape is about the wanted symbol, known by then.
Wants(i) ==
  /\ tape[i].locate = Wanted
  /\ \E j \in 1 .. i - 1 : tape[j] = [type |-> "R", locate |-> Wanted]

Seen(types) == Cardinality({i \in 1 .. count : Wants(i) /\ tape[i].type \in types})

\* Once a message is dealt with, the counters are those of the tape: the
\* messages about the wanted symbol that follow its directory message, by type,
\* with a replace either done or skipped; and each histogram has the samples of
\* the messages counted.
CountersExact ==
  calls = <<>> =>
    /\ counters["adds"] = Seen({"A", "F"}) /\ counters["execs"] = Seen({"E", "C"})
    /\ counters["cancels"] = Seen({"X"}) /\ counters["deletes"] = Seen({"D"})
    /\ counters["replaces"] + counters["replaces_skipped"] = Seen({"U"})
    /\ hists["submit"].total = counters["adds"] + counters["replaces"]
    /\ hists["cancel"].total = counters["deletes"] + counters["replaces"]
    /\ hists["reduce"].total = counters["execs"] + counters["cancels"]

\* The program ends, wherever the file does.
ProgramEnds == <>(stage = "end")

=============================================================================
