------------------------------ MODULE ItchParser ------------------------------
(***************************************************************************)
(* The framing of an ITCH file: parse() of src/itch_parser.cpp.  A file is *)
(* a sequence of bytes: frames of a two-byte, big-endian length and a body *)
(* that begins with the type and the locate code.  It may end anywhere, in *)
(* the middle of a length or of a body.                                    *)
(*                                                                         *)
(* The other fields of a body are filler of the right length: no property  *)
(* here depends on them, and Replay is about what they say.  A byte counts *)
(* to ByteMod (256), and the letter of the type is a byte of its own.  The *)
(* bodies of a type are as long as the protocol makes them; a frame whose  *)
(* length does not fit its type is outside the model.                      *)
(***************************************************************************)
EXTENDS Naturals, SequencesExt

CONSTANTS
  ByteMod,     \* the values of a byte
  WireLength,  \* the length of a body, by type
  Tapes        \* what the exchange may have written

WireMessages == [type: DOMAIN WireLength, locate: 0 .. ByteMod * ByteMod - 1]

ASSUME WireAssumption ==
  /\ ByteMod \in Nat \ {0, 1}
  /\ WireLength \in [DOMAIN WireLength -> 3 .. ByteMod * ByteMod - 1]
  /\ Tapes \subseteq Seq(WireMessages)

VARIABLES
  tape,       \* the messages the exchange wrote
  data,       \* the file: their frames, up to some byte
  pos, count,
  dispatched  \* the messages handed to the handler so far

tapeFile   == <<tape, data>>
parserVars == <<tapeFile, pos, count, dispatched>>

kFrameLengthBytes == 2

-----------------------------------------------------------------------------
(* The exchange's side.                                                    *)

ToBytes(n) == <<n \div ByteMod, n % ByteMod>>

Frame(message) ==
  LET len == WireLength[message.type]
  IN  ToBytes(len) \o <<message.type>> \o ToBytes(message.locate) \o [i \in 1 .. len - 3 |-> 0]

Frames(messages) == FlattenSeq([i \in DOMAIN messages |-> Frame(messages[i])])

\* Where the i-th frame of the tape ends.
EndOf(i) == Len(Frames(SubSeq(tape, 1, i)))

-----------------------------------------------------------------------------
(* The parser.  Offsets count from 0, as in the code.                      *)

be16(at) == data[at + 1] * ByteMod + data[at + 2]

body == pos + kFrameLengthBytes

\* (Mutant) A frame that ends where the file ends counts as truncated.
FrameFitsBeforeEnd == body <= Len(data) /\ body + be16(pos) < Len(data)

\* The next frame is there in full.
FrameFits == body <= Len(data) /\ body + be16(pos) <= Len(data)

\* SystemEvent and the types that are not unpacked carry no locate code for the
\* handler; it is read here, and not used.
Message == [type |-> data[body + 1], locate |-> be16(body + 1)]

ParseFrame ==
  /\ FrameFits
  /\ dispatched' = Append(dispatched, Message)
  /\ pos' = body + be16(pos)
  /\ count' = count + 1
  /\ UNCHANGED tapeFile

ParseInit ==
  /\ tape \in Tapes
  /\ \E len \in 0 .. Len(Frames(tape)) : data = SubSeq(Frames(tape), 1, len)
  /\ pos = 0 /\ count = 0 /\ dispatched = <<>>

=============================================================================
