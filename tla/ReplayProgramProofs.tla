-------------------------- MODULE ReplayProgramProofs --------------------------
(***************************************************************************)
(* Proofs about the replay program: what the mapping of the file takes it  *)
(* gives back, the parser stays in step with the frames, the counters are  *)
(* those of the tape, and the summary and the latency files are those of   *)
(* the samples.                                                            *)
(***************************************************************************)
EXTENDS ReplayProgram, OperatorLemmas

-----------------------------------------------------------------------------
(* The file.                                                               *)

\* What the process holds at each step of the constructor.
Taken ==
  CASE file = "size"   -> {"file"}
    [] file = "map"    -> {"file"}
    [] file = "view"   -> IF platform = "windows" THEN {"file", "mapping"} ELSE {"file"}
    [] file = "mapped" -> IF platform = "windows" THEN Resources ELSE {"file", "view"}
    [] OTHER           -> {}

\* A handle is held exactly from the step that takes it to the step that fails,
\* or to the destructor.
FileInv ==
  /\ platform \in {"posix", "windows"}
  /\ file \in {"open", "size", "map", "view", "mapped", "threw", "destroyed"}
  /\ file = "map" => platform = "windows"
  /\ held = [r \in Resources |-> IF r \in Taken THEN 1 ELSE 0]

\* Every step of the constructor takes one thing more or gives back all there is.
LEMMA ConstructKeepsFileInv ==
  ASSUME FileInv, NEW size, Construct(size)
  PROVE  FileInv'
<1>1. held \in [Resources -> {0, 1}]
  BY DEF FileInv
<1>2. CASE OpenFile
  BY <1>2 DEF OpenFile, FileInv, Taken, Resources, Acquire, Advance, Throw, Release
<1>3. CASE SizeFile
  BY <1>3 DEF SizeFile, FileInv, Taken, Resources, Advance, Throw, Release
<1>4. CASE CreateMapping(size)
  BY <1>4 DEF CreateMapping, FileInv, Taken, Resources, Acquire, Advance, Throw, Release
<1>5. CASE MapView(size)
  BY <1>5 DEF MapView, FileInv, Taken, Resources, Acquire, Advance, Throw, Release, ViewFails
<1> QED BY <1>2, <1>3, <1>4, <1>5 DEF Construct

\* The destructor gives back what a mapped file holds.
LEMMA DestroyKeepsFileInv ==
  ASSUME FileInv, Destroy
  PROVE  FileInv'
BY DEF Destroy, FileInv, Taken, Resources, Advance, Release

\* Nothing else touches the file.
LEMMA StepKeepsFileInv ==
  ASSUME FileInv, [ProgramNext]_programVars
  PROVE  FileInv'
<1>1. CASE MapFile
  BY <1>1, ConstructKeepsFileInv DEF MapFile
<1>2. CASE WriteReport
  BY <1>2, DestroyKeepsFileInv DEF WriteReport
<1>3. CASE UNCHANGED fileVars
  BY <1>3 DEF FileInv, Taken, fileVars
<1> QED BY <1>1, <1>2, <1>3
        DEF ProgramNext, DispatchFrame, TimedCall, ParseReturns, programVars

\* Whichever step of the constructor fails, what was taken before it is given
\* back, once; so is everything when the object is destroyed.
THEOREM NothingIsLeaked == ProgramSpec => []NothingLeaks
<1>1. ProgramInit => FileInv
  BY DEF ProgramInit, FileInit, FileInv, Taken, Resources
<1>2. FileInv => NothingLeaks
  BY DEF FileInv, NothingLeaks, Taken
<1> QED BY <1>1, <1>2, StepKeepsFileInv, PTL DEF ProgramSpec

-----------------------------------------------------------------------------
(* The parser.                                                             *)

\* What a byte of the file may be: a number, or the letter of a type.
Bytes == Nat \cup DOMAIN WireLength

\* A frame, byte by byte, as far as the parser and the handler read it.
LEMMA FrameBytes ==
  ASSUME NEW m \in WireMessages
  PROVE  LET f == Frame(m)
             len == WireLength[m.type]
         IN  /\ f \in Seq(Bytes) /\ Len(f) = 2 + len /\ len \in Nat /\ len >= 3
             /\ f[1] \in Nat /\ f[2] \in Nat /\ f[1] * ByteMod + f[2] = len
             /\ f[3] = m.type
             /\ f[4] \in Nat /\ f[5] \in Nat /\ f[4] * ByteMod + f[5] = m.locate
<1> DEFINE len == WireLength[m.type]
           fill == [i \in 1 .. len - 3 |-> 0]
<1>1. /\ ByteMod \in Nat \ {0} /\ len \in Nat /\ len >= 3 /\ m.locate \in Nat
      /\ m.type \in Bytes
  <2>1. m.type \in DOMAIN WireLength /\ m.locate \in 0 .. ByteMod * ByteMod - 1
    BY DEF WireMessages
  <2>2. ByteMod \in Nat \ {0} /\ len \in 3 .. ByteMod * ByteMod - 1
    BY <2>1, WireAssumption
  <2> QED BY <2>1, <2>2 DEF Bytes
<1>2. \A n \in Nat : /\ n \div ByteMod \in Nat /\ n % ByteMod \in Nat
                     /\ (n \div ByteMod) * ByteMod + (n % ByteMod) = n
  BY <1>1
<1> HIDE DEF len
<1>3. fill \in Seq(Bytes) /\ Len(fill) = len - 3
  BY <1>1 DEF Bytes
<1>4. PICK a \in Nat, b \in Nat : ToBytes(len) = <<a, b>> /\ a * ByteMod + b = len
  BY <1>1, <1>2 DEF ToBytes
<1>5. PICK c \in Nat, d \in Nat : ToBytes(m.locate) = <<c, d>> /\ c * ByteMod + d = m.locate
  BY <1>1, <1>2 DEF ToBytes
<1>6. Frame(m) = <<a, b>> \o <<m.type>> \o <<c, d>> \o fill
  BY <1>4, <1>5 DEF Frame, len
<1> HIDE DEF fill
<1> DEFINE head == <<a, b>> \o <<m.type>> \o <<c, d>>
<1>7. /\ head \in Seq(Bytes) /\ Len(head) = 5
      /\ head[1] = a /\ head[2] = b /\ head[3] = m.type /\ head[4] = c /\ head[5] = d
  <2>1. <<a, b>> \in Seq(Bytes) /\ <<m.type>> \in Seq(Bytes) /\ <<c, d>> \in Seq(Bytes)
    BY <1>1 DEF Bytes
  <2>2. /\ <<a, b>> \o <<m.type>> \in Seq(Bytes) /\ Len(<<a, b>> \o <<m.type>>) = 3
        /\ \A i \in 1 .. 3 :
             (<<a, b>> \o <<m.type>>)[i] = IF i <= 2 THEN <<a, b>>[i] ELSE <<m.type>>[i - 2]
    BY <2>1, ConcatProperties
  <2>3. PICK three \in Seq(Bytes) : three = <<a, b>> \o <<m.type>>
    BY <2>2
  <2>4. Len(three) = 3 /\ three[1] = a /\ three[2] = b /\ three[3] = m.type
    BY <2>2, <2>3
  <2>5. PICK two \in Seq(Bytes) : two = <<c, d>>
    BY <2>1
  <2>6. Len(two) = 2 /\ two[1] = c /\ two[2] = d
    BY <2>5
  <2>7. /\ three \o two \in Seq(Bytes) /\ Len(three \o two) = 3 + 2
        /\ \A i \in 1 .. 3 + 2 : (three \o two)[i] = IF i <= 3 THEN three[i] ELSE two[i - 3]
    <3>1. /\ three \o two \in Seq(Bytes) /\ Len(three \o two) = Len(three) + Len(two)
          /\ \A i \in 1 .. Len(three) + Len(two) :
               (three \o two)[i] = IF i <= Len(three) THEN three[i] ELSE two[i - Len(three)]
      BY ConcatProperties
    <3> QED BY <2>4, <2>6, <3>1
  <2>8. head = three \o two
    BY <2>3, <2>5
  <2> HIDE DEF head
  <2> QED BY <2>4, <2>6, <2>7, <2>8
<1> HIDE DEF head
<1>8. /\ head \o fill \in Seq(Bytes) /\ Len(head \o fill) = 5 + (len - 3)
      /\ \A i \in 1 .. 5 : (head \o fill)[i] = head[i]
  <2>1. /\ head \o fill \in Seq(Bytes) /\ Len(head \o fill) = Len(head) + Len(fill)
        /\ \A i \in 1 .. Len(head) + Len(fill) :
             (head \o fill)[i] = IF i <= Len(head) THEN head[i] ELSE fill[i - Len(head)]
    BY <1>3, <1>7, ConcatProperties
  <2>2. \A i \in 1 .. 5 : i \in 1 .. Len(head) + Len(fill) /\ i <= Len(head)
    BY <1>1, <1>3, <1>7
  <2> QED BY <1>3, <1>7, <2>1, <2>2
<1>9. Frame(m) = head \o fill
  BY <1>6 DEF head
<1>10. 5 + (len - 3) = 2 + len
  BY <1>1
<1>11. PICK f : f = Frame(m)
  OBVIOUS
<1>12. /\ f \in Seq(Bytes) /\ Len(f) = 2 + len
       /\ f[1] = a /\ f[2] = b /\ f[3] = m.type /\ f[4] = c /\ f[5] = d
  <2>1. f = head \o fill
    BY <1>9, <1>11
  <2>2. f \in Seq(Bytes) /\ Len(f) = 2 + len /\ \A i \in 1 .. 5 : f[i] = head[i]
    BY <1>8, <1>10, <2>1
  <2>3. 1 \in 1 .. 5 /\ 2 \in 1 .. 5 /\ 3 \in 1 .. 5 /\ 4 \in 1 .. 5 /\ 5 \in 1 .. 5
    OBVIOUS
  <2> QED BY <1>7, <2>2, <2>3
<1> QED BY <1>1, <1>4, <1>5, <1>11, <1>12, Zenon DEF len

\* One more message at the end.
LEMMA FramesAppend ==
  ASSUME NEW m \in Seq(WireMessages), NEW x \in WireMessages
  PROVE  /\ Frames(m) \in Seq(Bytes)
         /\ Frames(Append(m, x)) = Frames(m) \o Frame(x)
<1> DEFINE ss(w) == [i \in DOMAIN w |-> Frame(w[i])]
<1>1. \A y \in WireMessages : Frame(y) \in Seq(Bytes)
  BY FrameBytes
<1>2. \A w \in Seq(WireMessages) : ss(w) \in Seq(Seq(Bytes)) /\ Len(ss(w)) = Len(w)
  <2> TAKE w \in Seq(WireMessages)
  <2>1. Len(w) \in Nat /\ DOMAIN w = 1 .. Len(w) /\ \A i \in 1 .. Len(w) : w[i] \in WireMessages
    BY LenProperties, ElementOfSeq
  <2> QED BY <1>1, <2>1
<1>3. ss(Append(m, x)) = Append(ss(m), Frame(x))
  <2>1. /\ Len(m) \in Nat /\ DOMAIN m = 1 .. Len(m)
        /\ Append(m, x) \in Seq(WireMessages) /\ DOMAIN Append(m, x) = 1 .. Len(m) + 1
        /\ Len(Append(m, x)) = Len(m) + 1
        /\ \A i \in 1 .. Len(m) : Append(m, x)[i] = m[i]
        /\ Append(m, x)[Len(m) + 1] = x
    BY LenProperties, AppendProperties
  <2>2. /\ Append(ss(m), Frame(x)) \in Seq(Seq(Bytes))
        /\ Len(Append(ss(m), Frame(x))) = Len(m) + 1
        /\ \A i \in 1 .. Len(m) : Append(ss(m), Frame(x))[i] = ss(m)[i]
        /\ Append(ss(m), Frame(x))[Len(m) + 1] = Frame(x)
    <3>1. ss(m) \in Seq(Seq(Bytes)) /\ Len(ss(m)) = Len(m) /\ Frame(x) \in Seq(Bytes)
      BY <1>1, <1>2
    <3> HIDE DEF ss
    <3> QED BY <3>1, AppendProperties
  <2>3. ss(Append(m, x)) \in Seq(Seq(Bytes)) /\ Len(ss(Append(m, x))) = Len(m) + 1
    BY <1>2, <2>1
  <2>4. \A i \in 1 .. Len(m) : ss(Append(m, x))[i] = ss(m)[i]
    BY <2>1
  <2>5. ss(Append(m, x))[Len(m) + 1] = Frame(x)
    BY <2>1
  <2>6. \A i \in 1 .. Len(m) + 1 : i \in 1 .. Len(m) \/ i = Len(m) + 1
    BY <2>1
  <2> HIDE DEF ss
  <2>7. \A i \in 1 .. Len(m) + 1 : ss(Append(m, x))[i] = Append(ss(m), Frame(x))[i]
    BY <2>2, <2>4, <2>5, <2>6
  <2> QED BY <2>2, <2>3, <2>7, SeqEqual
<1>4. \A w : Frames(w) = FlattenSeq(ss(w))
  BY DEF Frames
<1>5. ss(m) \in Seq(Seq(Bytes)) /\ Frame(x) \in Seq(Bytes)
  BY <1>1, <1>2
<1> HIDE DEF ss
<1> QED BY <1>3, <1>4, <1>5, FlattenAppend

\* The messages up to one more.
LEMMA FramesUpto ==
  ASSUME NEW m \in Seq(WireMessages), NEW n \in 1 .. Len(m)
  PROVE  /\ SubSeq(m, 1, n - 1) \in Seq(WireMessages)
         /\ SubSeq(m, 1, n) = Append(SubSeq(m, 1, n - 1), m[n])
         /\ Frames(SubSeq(m, 1, n - 1)) \in Seq(Bytes)
         /\ Frame(m[n]) \in Seq(Bytes)
         /\ Frames(SubSeq(m, 1, n)) = Frames(SubSeq(m, 1, n - 1)) \o Frame(m[n])
         /\ Frames(SubSeq(m, 1, n)) \in Seq(Bytes)
<1>1. Len(m) \in Nat /\ n \in Nat /\ n - 1 \in Int /\ 1 \in Int /\ n \in Int
      /\ \A k \in 1 .. Len(m) : m[k] \in WireMessages
  BY LenProperties, ElementOfSeq
<1>2. /\ SubSeq(m, 1, n - 1) \in Seq(WireMessages) /\ SubSeq(m, 1, n) \in Seq(WireMessages)
      /\ Len(SubSeq(m, 1, n - 1)) = n - 1 /\ Len(SubSeq(m, 1, n)) = n
      /\ \A k \in 1 .. n - 1 : SubSeq(m, 1, n - 1)[k] = m[k]
      /\ \A k \in 1 .. n : SubSeq(m, 1, n)[k] = m[k]
  <2>1. \A c \in 0 .. Len(m) : /\ SubSeq(m, 1, c) \in Seq(WireMessages)
                               /\ Len(SubSeq(m, 1, c)) = c
                               /\ \A k \in 1 .. c : SubSeq(m, 1, c)[k] = m[k]
    <3> TAKE c \in 0 .. Len(m)
    <3>1. c \in Int /\ \A k \in 1 .. c : m[k] \in WireMessages
      BY <1>1
    <3>2. /\ SubSeq(m, 1, c) \in Seq(WireMessages)
          /\ Len(SubSeq(m, 1, c)) = IF 1 <= c THEN c - 1 + 1 ELSE 0
          /\ \A k \in 1 .. c - 1 + 1 : SubSeq(m, 1, c)[k] = m[1 + k - 1]
      BY <1>1, <3>1, SubSeqProperties
    <3> QED BY <1>1, <3>2
  <2>2. n - 1 \in 0 .. Len(m) /\ n \in 0 .. Len(m)
    BY <1>1
  <2> QED BY <2>1, <2>2
<1>3. SubSeq(m, 1, n) = Append(SubSeq(m, 1, n - 1), m[n])
  <2>1. PICK s \in Seq(WireMessages) : s = SubSeq(m, 1, n - 1)
    BY <1>2
  <2>2. m[n] \in WireMessages
    BY <1>1
  <2>3. /\ Append(s, m[n]) \in Seq(WireMessages) /\ Len(Append(s, m[n])) = n
        /\ \A k \in 1 .. n - 1 : Append(s, m[n])[k] = s[k]
        /\ Append(s, m[n])[n] = m[n]
    <3>1. /\ Append(s, m[n]) \in Seq(WireMessages) /\ Len(Append(s, m[n])) = Len(s) + 1
          /\ \A k \in 1 .. Len(s) : Append(s, m[n])[k] = s[k]
          /\ Append(s, m[n])[Len(s) + 1] = m[n]
      BY <2>2, AppendProperties
    <3>2. Len(s) = n - 1 /\ Len(s) + 1 = n
      BY <1>1, <1>2, <2>1
    <3> QED BY <3>1, <3>2
  <2>4. \A k \in 1 .. n : SubSeq(m, 1, n)[k] = Append(s, m[n])[k]
    <3> TAKE k \in 1 .. n
    <3>1. k = n \/ k \in 1 .. n - 1
      BY <1>1
    <3> QED BY <1>2, <2>1, <2>3, <3>1
  <2> QED BY <1>2, <2>1, <2>3, <2>4, SeqEqual
<1>4. m[n] \in WireMessages /\ m[n + 0] = m[n]
  BY <1>1
<1>5. /\ Frames(SubSeq(m, 1, n - 1)) \in Seq(Bytes)
      /\ Frames(SubSeq(m, 1, n)) = Frames(SubSeq(m, 1, n - 1)) \o Frame(m[n])
  BY <1>2, <1>3, <1>4, FramesAppend
<1>6. Frame(m[n]) \in Seq(Bytes)
  BY <1>4, FrameBytes
<1>7. Frames(SubSeq(m, 1, n)) \in Seq(Bytes)
  BY <1>5, <1>6, ConcatProperties
<1> QED BY <1>2, <1>3, <1>5, <1>6, <1>7

\* Where a frame lies in the file: after those before it, whatever follows it.
LEMMA FrameAt ==
  ASSUME NEW m \in Seq(WireMessages), NEW i \in 1 .. Len(m)
  PROVE  LET start == Len(Frames(SubSeq(m, 1, i - 1)))
             f     == Frame(m[i])
         IN  /\ start \in Nat
             /\ Len(Frames(SubSeq(m, 1, i))) = start + Len(f)
             /\ Frames(m) \in Seq(Bytes) /\ start + Len(f) <= Len(Frames(m))
             /\ \A k \in 1 .. Len(f) : Frames(m)[start + k] = f[k]
<1> DEFINE F(n) == Frames(SubSeq(m, 1, n))
           start == Len(F(i - 1))
           f == Frame(m[i])
           Lies(n) == /\ start + Len(f) <= Len(F(n))
                      /\ \A k \in 1 .. Len(f) : F(n)[start + k] = f[k]
           Bad == {n \in i .. Len(m) : ~Lies(n)}
<1>1. /\ Len(m) \in Nat /\ i \in Nat /\ i >= 1 /\ i <= Len(m)
      /\ F(i - 1) \in Seq(Bytes) /\ f \in Seq(Bytes)
      /\ \A n \in 1 .. Len(m) : /\ F(n) = F(n - 1) \o Frame(m[n])
                                /\ F(n) \in Seq(Bytes) /\ F(n - 1) \in Seq(Bytes)
                                /\ Frame(m[n]) \in Seq(Bytes)
  BY LenProperties, FramesUpto
<1>2. start \in Nat /\ Len(f) \in Nat
  BY <1>1, LenProperties
<1> HIDE DEF F
<1>3. Lies(i) /\ Len(F(i)) = start + Len(f)
  <2>1. F(i) = F(i - 1) \o f
    BY <1>1
  <2>2. PICK g \in Seq(Bytes) : g = F(i - 1)
    BY <1>1
  <2>3. PICK h \in Seq(Bytes) : h = f
    BY <1>1
  <2>4. /\ Len(g \o h) = Len(g) + Len(h)
        /\ \A k \in 1 .. Len(g) + Len(h) :
             (g \o h)[k] = IF k <= Len(g) THEN g[k] ELSE h[k - Len(g)]
    BY ConcatProperties
  <2>5. start = Len(g)
    BY <2>2
  <2> HIDE DEF start, f
  <2>6. \A k \in 1 .. Len(h) : (g \o h)[start + k] = h[k]
    <3> TAKE k \in 1 .. Len(h)
    <3>1. start + k \in 1 .. Len(g) + Len(h) /\ ~(start + k <= Len(g)) /\ (start + k) - Len(g) = k
      BY <1>2, <2>3, <2>5
    <3> QED BY <2>4, <3>1
  <2> QED BY <1>2, <2>1, <2>2, <2>3, <2>4, <2>5, <2>6
<1> HIDE DEF start, f
<1>4. \A n \in i .. Len(m) : Lies(n)
  <2>1. SUFFICES ASSUME Bad # {} PROVE FALSE
    OBVIOUS
  <2>2. PICK n \in Bad : \A x \in Bad : n <= x
    <3>1. Bad \subseteq Nat
      BY <1>1
    <3> HIDE DEF Bad
    <3> QED BY <2>1, <3>1, LeastNatExists
  <2>3. n # i /\ n \in i .. Len(m) /\ ~Lies(n)
    BY <1>3
  <2>4. n - 1 \in i .. Len(m) /\ ~(n <= n - 1) /\ n \in 1 .. Len(m)
    BY <1>1, <2>3
  <2>5. Lies(n - 1)
    BY <2>2, <2>4
  <2>6. PICK g \in Seq(Bytes) : g = F(n - 1)
    BY <1>1, <2>4
  <2>7. PICK h \in Seq(Bytes) : h = Frame(m[n])
    BY <1>1, <2>4
  <2>8. F(n) = g \o h
    BY <1>1, <2>4, <2>6, <2>7
  <2>9. /\ Len(g \o h) = Len(g) + Len(h) /\ Len(g) \in Nat /\ Len(h) \in Nat
        /\ \A k \in 1 .. Len(g) + Len(h) :
             (g \o h)[k] = IF k <= Len(g) THEN g[k] ELSE h[k - Len(g)]
    BY ConcatProperties, LenProperties
  <2>10. start + Len(f) <= Len(g) /\ \A k \in 1 .. Len(f) : g[start + k] = f[k]
    BY <2>5, <2>6
  <2>11. start + Len(f) <= Len(F(n))
    BY <1>2, <2>8, <2>9, <2>10
  <2>12. \A k \in 1 .. Len(f) : F(n)[start + k] = f[k]
    <3> TAKE k \in 1 .. Len(f)
    <3>1. start + k \in 1 .. Len(g) + Len(h) /\ start + k <= Len(g)
      BY <1>2, <2>9, <2>10
    <3> QED BY <2>8, <2>9, <2>10, <3>1
  <2> QED BY <2>3, <2>11, <2>12
<1>5. F(Len(m)) = Frames(m)
  BY SubSeqFull DEF F
<1>6. Lies(Len(m)) /\ F(Len(m)) \in Seq(Bytes)
  BY <1>1, <1>4
<1> QED BY <1>2, <1>3, <1>5, <1>6 DEF F, start, f

\* No message is no byte.
LEMMA FramesOfNone ==
  Frames(<<>>) = <<>>
<1>1. [k \in DOMAIN <<>> |-> Frame(<<>>[k])] = <<>>
  OBVIOUS
<1> QED BY <1>1 DEF Frames, FlattenSeq

\* Frames are bytes.
LEMMA FramesAreBytes ==
  ASSUME NEW m \in Seq(WireMessages)
  PROVE  Frames(m) \in Seq(Bytes)
<1>1. CASE m = <<>>
  BY <1>1, FramesOfNone, EmptySeq
<1>2. CASE m # <<>>
  <2>1. Len(m) \in 1 .. Len(m)
    BY <1>2, EmptySeq
  <2> QED BY <2>1, FrameAt
<1> QED BY <1>1, <1>2

\* The parser stands at the end of a frame, and has dispatched the messages up to
\* there; it only returns where no whole frame follows.
ParserInv ==
  /\ tape \in Tapes
  /\ \E len \in 0 .. Len(Frames(tape)) : data = SubSeq(Frames(tape), 1, len)
  /\ count \in 0 .. Len(tape) /\ pos = EndOf(count) /\ pos <= Len(data)
  /\ dispatched = SubSeq(tape, 1, count)
  /\ stage = "report" => ~FrameFits

\* The file, and the frame that would follow.
LEMMA NextFrame ==
  ASSUME ParserInv
  PROVE  /\ tape \in Seq(WireMessages) /\ Len(tape) \in Nat /\ Len(data) \in Nat /\ pos \in Nat
         /\ \A i \in 1 .. Len(tape) :
              EndOf(i - 1) \in Nat /\ EndOf(i) \in Nat /\ EndOf(i - 1) < EndOf(i)
         /\ FrameFits <=> count < Len(tape) /\ EndOf(count + 1) <= Len(data)
         /\ FrameFits => /\ count + 1 \in 1 .. Len(tape)
                         /\ body + be16(pos) = EndOf(count + 1)
                         /\ Message = tape[count + 1]
<1> DEFINE all == Frames(tape)
<1>1. tape \in Seq(WireMessages) /\ Len(tape) \in Nat
  BY WireAssumption, LenProperties DEF ParserInv
<1>2. Frames(tape) \in Seq(Bytes)
  BY <1>1, FramesAreBytes
<1>3. /\ Len(all) \in Nat
      /\ Len(data) \in Nat /\ Len(data) <= Len(all) /\ \A k \in 1 .. Len(data) : data[k] = all[k]
  <2>1. Len(all) \in Nat /\ \A k \in 1 .. Len(all) : all[k] \in Bytes
    BY <1>2, LenProperties, ElementOfSeq
  <2> HIDE DEF all
  <2>2. PICK len \in 0 .. Len(all) : data = SubSeq(all, 1, len)
    BY DEF ParserInv, all
  <2>3. len \in Int /\ 1 \in Int /\ \A k \in 1 .. len : all[k] \in Bytes
    BY <2>1
  <2>4. /\ Len(data) = IF 1 <= len THEN len - 1 + 1 ELSE 0
        /\ \A k \in 1 .. len - 1 + 1 : data[k] = all[1 + k - 1]
    BY <2>2, <2>3, SubSeqProperties
  <2>5. Len(data) = len
    BY <2>1, <2>4
  <2> QED BY <2>1, <2>4, <2>5
<1> HIDE DEF all
<1>4. ASSUME NEW i \in 1 .. Len(tape)
      PROVE  LET f == Frame(tape[i]) IN
             /\ tape[i] \in WireMessages
             /\ EndOf(i - 1) \in Nat /\ EndOf(i) = EndOf(i - 1) + Len(f) /\ EndOf(i) <= Len(all)
             /\ \A k \in 1 .. Len(f) : all[EndOf(i - 1) + k] = f[k]
  BY <1>1, FrameAt, ElementOfSeq DEF EndOf, all
<1>5. ASSUME NEW i \in 1 .. Len(tape)
      PROVE  /\ EndOf(i - 1) \in Nat /\ EndOf(i) \in Nat /\ EndOf(i - 1) < EndOf(i)
             /\ Len(Frame(tape[i])) \in Nat /\ Len(Frame(tape[i])) >= 5
  <2>1. tape[i] \in WireMessages
    BY <1>4
  <2>2. Len(Frame(tape[i])) \in Nat /\ Len(Frame(tape[i])) >= 5
    BY <2>1, FrameBytes
  <2> QED BY <1>4, <2>2
<1>6. count \in Nat /\ count <= Len(tape) /\ pos = EndOf(count) /\ pos <= Len(data)
  BY <1>1 DEF ParserInv
<1>7. pos \in Nat
  <2>1. CASE count = 0
    <3>1. SubSeq(tape, 1, 0) = <<>>
      BY SubSeqEmpty
    <3>2. EndOf(0) = 0
      BY <3>1, FramesOfNone, EmptySeq DEF EndOf
    <3> QED BY <1>6, <2>1, <3>2
  <2>2. CASE count # 0
    <3>1. count \in 1 .. Len(tape)
      BY <1>1, <1>6, <2>2
    <3> QED BY <1>5, <1>6, <3>1
  <2> QED BY <2>1, <2>2
<1>8. CASE count = Len(tape)
  <2>1. EndOf(count) = Len(all)
    BY <1>1, <1>8, SubSeqFull DEF EndOf, all
  <2>2. ~FrameFits
    BY <1>3, <1>6, <1>7, <2>1 DEF FrameFits, body, kFrameLengthBytes
  <2> QED BY <1>1, <1>3, <1>5, <1>7, <1>8, <2>2
<1>9. CASE count # Len(tape)
  <2>1. count + 1 \in 1 .. Len(tape) /\ count < Len(tape) /\ (count + 1) - 1 = count
    BY <1>1, <1>6, <1>9
  <2>2. PICK i \in 1 .. Len(tape) : i = count + 1
    BY <2>1
  <2>3. PICK f : f = Frame(tape[i])
    OBVIOUS
  <2>4. PICK len \in Nat :
          /\ len >= 3 /\ Len(f) = 2 + len
          /\ f[1] \in Nat /\ f[2] \in Nat /\ f[1] * ByteMod + f[2] = len
          /\ f[3] = tape[i].type
          /\ f[4] \in Nat /\ f[5] \in Nat /\ f[4] * ByteMod + f[5] = tape[i].locate
    <3>1. tape[i] \in WireMessages
      BY <1>4
    <3> QED BY <2>3, <3>1, FrameBytes, Zenon
  <2>5. EndOf(i) = pos + (2 + len) /\ \A k \in 1 .. 2 + len : all[pos + k] = f[k]
    BY <1>4, <1>6, <2>1, <2>2, <2>3, <2>4
  <2>6. \A k \in 1 .. 2 + len : pos + k <= Len(data) => data[pos + k] = f[k]
    <3> TAKE k \in 1 .. 2 + len
    <3> HAVE pos + k <= Len(data)
    <3>1. pos + k \in 1 .. Len(data)
      BY <1>3, <1>7
    <3> QED BY <1>3, <2>5, <3>1
  <2>7. body = pos + 2
    BY DEF body, kFrameLengthBytes
  <2>8. pos + 2 <= Len(data) => be16(pos) = len
    <3> HAVE pos + 2 <= Len(data)
    <3>1. data[pos + 1] = f[1] /\ data[pos + 2] = f[2]
      <4>1. 1 \in 1 .. 2 + len /\ 2 \in 1 .. 2 + len /\ pos + 1 <= Len(data)
        BY <1>3, <1>7, <2>4
      <4> QED BY <2>6, <4>1
    <3> QED BY <2>4, <3>1 DEF be16
  <2>9. FrameFits <=> pos + (2 + len) <= Len(data)
    <3>1. CASE pos + 2 <= Len(data)
      <4>1. be16(pos) = len
        BY <2>8, <3>1
      <4> QED BY <1>3, <1>7, <2>4, <2>7, <3>1, <4>1 DEF FrameFits
    <3>2. CASE ~(pos + 2 <= Len(data))
      BY <1>3, <1>7, <2>4, <2>7, <3>2 DEF FrameFits
    <3> QED BY <3>1, <3>2
  <2>10. ASSUME FrameFits PROVE body + be16(pos) = EndOf(i) /\ Message = tape[i]
    <3>1. pos + (2 + len) <= Len(data) /\ be16(pos) = len
      BY <1>3, <1>7, <2>4, <2>8, <2>9, <2>10
    <3>2. body + be16(pos) = EndOf(i)
      BY <1>7, <2>4, <2>5, <2>7, <3>1
    <3>3. \A k \in 1 .. 5 : data[pos + k] = f[k]
      <4> TAKE k \in 1 .. 5
      <4>1. len >= 3
        BY <2>4
      <4>2. k \in 1 .. 2 + len /\ pos + k <= Len(data)
        BY <1>3, <1>7, <3>1, <4>1
      <4> QED BY <2>6, <4>2
    <3>4. data[pos + 3] = f[3] /\ data[pos + 4] = f[4] /\ data[pos + 5] = f[5]
      <4>1. 3 \in 1 .. 5 /\ 4 \in 1 .. 5 /\ 5 \in 1 .. 5
        OBVIOUS
      <4> QED BY <3>3, <4>1
    <3>5. body + 1 = pos + 3 /\ (body + 1) + 1 = pos + 4 /\ (body + 1) + 2 = pos + 5
      BY <1>7, <2>7
    <3>6. Message = [type |-> f[3], locate |-> f[4] * ByteMod + f[5]]
      BY <3>4, <3>5 DEF Message, be16
    <3>7. Message = [type |-> tape[i].type, locate |-> tape[i].locate]
      BY <2>4, <3>6
    <3>8. tape[i] \in [type: DOMAIN WireLength, locate: 0 .. ByteMod * ByteMod - 1]
      BY <1>4 DEF WireMessages
    <3>9. tape[i] = [type |-> tape[i].type, locate |-> tape[i].locate]
      BY <3>8
    <3> QED BY <3>2, <3>7, <3>9
  <2> QED BY <1>1, <1>3, <1>5, <1>7, <2>1, <2>2, <2>5, <2>9, <2>10
<1> QED BY <1>8, <1>9

\* No call disturbs that.
LEMMA StepKeepsParserInv ==
  ASSUME ParserInv, [ProgramNext]_programVars
  PROVE  ParserInv'
<1>1. CASE DispatchFrame
  <2>1. /\ FrameFits /\ stage' # "report" /\ tape' = tape /\ data' = data
        /\ dispatched' = Append(dispatched, Message)
        /\ pos' = body + be16(pos) /\ count' = count + 1
    BY <1>1 DEF DispatchFrame, ParseFrame, tapeFile
  <2>2. /\ count + 1 \in 1 .. Len(tape) /\ pos' = EndOf(count + 1)
        /\ EndOf(count + 1) <= Len(data) /\ Message = tape[count + 1]
        /\ tape \in Seq(WireMessages) /\ Len(tape) \in Nat
    BY <2>1, NextFrame
  <2>3. count \in 0 .. Len(tape) /\ count' \in 0 .. Len(tape) /\ (count + 1) - 1 = count
    BY <2>1, <2>2 DEF ParserInv
  <2>4. SubSeq(tape, 1, count + 1) = Append(SubSeq(tape, 1, count), tape[count + 1])
    <3>1. PICK n \in 1 .. Len(tape) : n = count + 1 /\ n - 1 = count
      BY <2>2, <2>3
    <3> QED BY <2>2, <3>1, FramesUpto
  <2>5. dispatched' = SubSeq(tape', 1, count')
    BY <2>1, <2>2, <2>4 DEF ParserInv
  <2>7. pos' = Len(Frames(SubSeq(tape', 1, count')))
    BY <2>1, <2>2 DEF EndOf
  <2> QED BY <2>1, <2>2, <2>3, <2>5, <2>7 DEF ParserInv, EndOf
<1>2. CASE ParseReturns
  BY <1>2 DEF ParseReturns, ParserInv, EndOf, FrameFits, body, be16, parserVars, tapeFile
<1>3. CASE UNCHANGED parserVars /\ stage' # "report"
  BY <1>3 DEF ParserInv, EndOf, parserVars, tapeFile
<1>4. CASE UNCHANGED parserVars /\ UNCHANGED stage
  BY <1>4 DEF ParserInv, EndOf, FrameFits, body, be16, parserVars, tapeFile
<1>5. ASSUME MapFile PROVE UNCHANGED parserVars /\ (stage' # "report" \/ UNCHANGED stage)
  BY <1>5 DEF MapFile
<1>6. ASSUME WriteReport PROVE UNCHANGED parserVars /\ stage' # "report"
  BY <1>6 DEF WriteReport
<1> QED BY <1>1, <1>2, <1>3, <1>4, <1>5, <1>6 DEF ProgramNext, TimedCall, programVars

\* At first the parser stands at the beginning of the file.
LEMMA InitIsParserInv ==
  ProgramInit => ParserInv
<1> SUFFICES ASSUME ProgramInit PROVE ParserInv
  OBVIOUS
<1>1. /\ tape \in Tapes /\ pos = 0 /\ count = 0 /\ dispatched = <<>> /\ stage = "start"
      /\ \E len \in 0 .. Len(Frames(tape)) : data = SubSeq(Frames(tape), 1, len)
  BY DEF ProgramInit, ParseInit
<1>2. tape \in Seq(WireMessages) /\ Len(tape) \in Nat
  BY <1>1, WireAssumption, LenProperties
<1>3. SubSeq(tape, 1, 0) = <<>>
  BY SubSeqEmpty
<1>4. EndOf(0) = 0
  BY <1>3, FramesOfNone, EmptySeq DEF EndOf
<1>5. Len(data) >= 0
  <2>1. Frames(tape) \in Seq(Bytes)
    BY <1>2, FramesAreBytes
  <2>2. PICK len \in 0 .. Len(Frames(tape)) : data = SubSeq(Frames(tape), 1, len)
    BY <1>1
  <2>3. Len(Frames(tape)) \in Nat /\ \A k \in 1 .. Len(Frames(tape)) : Frames(tape)[k] \in Bytes
    BY <2>1, LenProperties, ElementOfSeq
  <2>4. len \in Int /\ 1 \in Int /\ \A k \in 1 .. len : Frames(tape)[k] \in Bytes
    BY <2>3
  <2>5. data \in Seq(Bytes)
    BY <2>2, <2>4, SubSeqProperties
  <2> QED BY <2>5, LenProperties
<1> QED BY <1>1, <1>2, <1>3, <1>4, <1>5 DEF ParserInv

\* An earlier frame ends earlier.
LEMMA EndsInOrder ==
  ASSUME ParserInv, NEW i \in 0 .. Len(tape), NEW j \in i .. Len(tape)
  PROVE  EndOf(i) <= EndOf(j) /\ EndOf(i) \in Nat /\ EndOf(j) \in Nat
<1>1. /\ Len(tape) \in Nat
      /\ \A k \in 1 .. Len(tape) :
           EndOf(k - 1) \in Nat /\ EndOf(k) \in Nat /\ EndOf(k - 1) < EndOf(k)
  BY NextFrame
<1>2. \A k \in 0 .. Len(tape) : EndOf(k) \in Nat
  <2> TAKE k \in 0 .. Len(tape)
  <2>1. CASE k = 0 /\ Len(tape) # 0
    <3>1. 1 \in 1 .. Len(tape) /\ 1 - 1 = 0
      BY <1>1, <2>1
    <3> QED BY <1>1, <2>1, <3>1
  <2>2. CASE Len(tape) = 0
    <3>1. k = count /\ EndOf(count) = pos /\ pos \in Nat
      BY <2>2, NextFrame DEF ParserInv
    <3> QED BY <3>1
  <2>3. CASE k # 0
    <3>1. k \in 1 .. Len(tape)
      BY <1>1, <2>3
    <3> QED BY <1>1, <3>1
  <2> QED BY <2>1, <2>2, <2>3
<1> DEFINE Bad == {k \in i .. Len(tape) : ~(EndOf(i) <= EndOf(k))}
<1>3. SUFFICES ASSUME Bad # {} PROVE FALSE
  BY <1>1, <1>2
<1>4. PICK k \in Bad : \A x \in Bad : k <= x
  <2>1. Bad \subseteq Nat
    BY <1>1
  <2> HIDE DEF Bad
  <2> QED BY <1>3, <2>1, LeastNatExists
<1>5. k \in 0 .. Len(tape) /\ k >= i /\ i \in Nat /\ ~(EndOf(i) <= EndOf(k))
  BY <1>1
<1>6. k # i
  BY <1>2, <1>5
<1>7. k - 1 \in i .. Len(tape) /\ k \in 1 .. Len(tape) /\ ~(k <= k - 1)
  BY <1>1, <1>5, <1>6
<1>8. EndOf(i) <= EndOf(k - 1)
  BY <1>4, <1>7
<1>9. EndOf(k - 1) < EndOf(k) /\ EndOf(k - 1) \in Nat /\ EndOf(k) \in Nat /\ EndOf(i) \in Nat
  BY <1>1, <1>2, <1>7
<1> QED BY <1>5, <1>8, <1>9

\* "Stops cleanly at the first truncated frame": wherever the file ends, the
\* parser stays in step with its frames, and returns having dispatched exactly
\* the messages whose frames are complete.
THEOREM ParserInStep == ProgramSpec => []DispatchExact
<1>1. ParserInv => DispatchExact
  <2> SUFFICES ASSUME ParserInv PROVE DispatchExact
    OBVIOUS
  <2>1. /\ tape \in Seq(WireMessages) /\ Len(tape) \in Nat /\ DOMAIN tape = 1 .. Len(tape)
        /\ count \in 0 .. Len(tape) /\ pos = EndOf(count) /\ pos <= Len(data)
        /\ Len(data) \in Nat
    BY NextFrame, LenProperties DEF ParserInv
  <2>2. Len(dispatched) = count
    <3>1. \A k \in 1 .. count : tape[k] \in WireMessages
      BY <2>1, ElementOfSeq
    <3>2. count \in Int /\ 1 \in Int
      BY <2>1
    <3>3. Len(dispatched) = IF 1 <= count THEN count - 1 + 1 ELSE 0
      BY <3>1, <3>2, SubSeqProperties DEF ParserInv
    <3> QED BY <2>1, <3>3
  <2>3. ASSUME stage = "report", NEW i \in DOMAIN tape
        PROVE  i <= count <=> EndOf(i) <= Len(data)
    <3>1. i \in 1 .. Len(tape) /\ i \in 0 .. Len(tape)
      BY <2>1, <2>3
    <3>2. CASE i <= count
      <4>1. count \in i .. Len(tape)
        BY <2>1, <3>1, <3>2
      <4>2. EndOf(i) <= EndOf(count) /\ EndOf(i) \in Nat /\ EndOf(count) \in Nat
        BY <3>1, <4>1, EndsInOrder
      <4> QED BY <2>1, <3>2, <4>2
    <3>3. CASE ~(i <= count)
      <4>1. count < Len(tape) /\ count + 1 \in 0 .. Len(tape) /\ i \in count + 1 .. Len(tape)
        BY <2>1, <3>1, <3>3
      <4>2. ~(EndOf(count + 1) <= Len(data))
        BY <2>3, <4>1, NextFrame DEF ParserInv
      <4>3. PICK n \in 0 .. Len(tape) : n = count + 1
        BY <4>1
      <4>4. EndOf(n) <= EndOf(i) /\ EndOf(n) \in Nat /\ EndOf(i) \in Nat
        BY <4>1, <4>3, EndsInOrder
      <4> QED BY <2>1, <3>3, <4>2, <4>3, <4>4
    <3> QED BY <3>2, <3>3
  <2>4. dispatched = SubSeq(tape, 1, count)
    BY DEF ParserInv
  <2> QED BY <2>1, <2>2, <2>3, <2>4 DEF DispatchExact
<1> QED BY <1>1, InitIsParserInv, StepKeepsParserInv, PTL DEF ProgramSpec

-----------------------------------------------------------------------------
(* The counters.                                                           *)

\* What a histogram may be.
Histograms == [linear: [Linear -> Nat], log: [Log -> Nat], total: Nat, max: Nat, sum: Nat]

\* The directory message of the wanted symbol is among the first n messages.
Known(n) == \E j \in 1 .. n : tape[j] = [type |-> "R", locate |-> Wanted]

\* How many of the first n messages the handler is to count under types.
SeenBy(n, types) == Cardinality({i \in 1 .. n : Wants(i) /\ tape[i].type \in types})

\* The calls that the message being handled still leads to.
CallsFit ==
  LET type == tape[count].type
  IN  \/ calls = <<"submit">> /\ counter = "adds" /\ type \in {"A", "F"}
      \/ calls = <<"reduce">> /\ counter = "execs" /\ type \in {"E", "C"}
      \/ calls = <<"reduce">> /\ counter = "cancels" /\ type = "X"
      \/ calls = <<"cancel">> /\ counter = "deletes" /\ type = "D"
      \/ calls = <<"cancel", "submit">> /\ counter = "replaces" /\ type = "U"
      \/ calls = <<"submit">> /\ counter = "replaces" /\ type = "U"

\* How many messages are dealt with, and whether the cancel of a replace that is
\* not has been timed already.
Dealt       == IF calls = <<>> THEN count ELSE count - 1
HalfReplace == IF calls = <<"submit">> /\ counter = "replaces" THEN 1 ELSE 0

\* The counters after n messages, and the samples; half is 1 between the two calls
\* of a replace.
Tally(n, half) ==
  /\ counters["adds"] = SeenBy(n, {"A", "F"})
  /\ counters["execs"] = SeenBy(n, {"E", "C"})
  /\ counters["cancels"] = SeenBy(n, {"X"})
  /\ counters["deletes"] = SeenBy(n, {"D"})
  /\ counters["replaces"] + counters["replaces_skipped"] = SeenBy(n, {"U"})
  /\ hists["submit"].total = counters["adds"] + counters["replaces"]
  /\ hists["cancel"].total = counters["deletes"] + counters["replaces"] + half
  /\ hists["reduce"].total = counters["execs"] + counters["cancels"]

\* The symbol is known once its directory message was dispatched, the calls left are
\* those of a message about it, and the counters are those of the messages dealt
\* with.
HandlerInv ==
  /\ target_locate = IF Known(count) THEN Wanted ELSE 0
  /\ counters \in [Counters -> Nat] /\ hists \in [Kinds -> Histograms]
  /\ calls # <<>> => count # 0 /\ Wants(count) /\ CallsFit
  /\ Tally(Dealt, HalfReplace)

\* One more message is counted or not.
LEMMA SeenNext ==
  ASSUME NEW n \in Nat, NEW types
  PROVE  /\ SeenBy(n, types) \in Nat
         /\ SeenBy(n + 1, types) =
              SeenBy(n, types) + IF Wants(n + 1) /\ tape[n + 1].type \in types THEN 1 ELSE 0
<1> DEFINE these(k) == {i \in 1 .. k : Wants(i) /\ tape[i].type \in types}
<1>1. IsFiniteSet(these(n))
  <2>1. IsFiniteSet(1 .. n)
    BY IntervalSize
  <2> QED BY <2>1, FS_Subset
<1>2. Cardinality(these(n)) \in Nat /\ n + 1 \notin these(n)
  BY <1>1, FS_CardinalityType
<1>3. these(n + 1) = IF Wants(n + 1) /\ tape[n + 1].type \in types
                     THEN these(n) \cup {n + 1} ELSE these(n)
  <2>1. \A i : i \in 1 .. n + 1 <=> i \in 1 .. n \/ i = n + 1
    OBVIOUS
  <2> HIDE DEF Wants
  <2> QED BY <2>1
<1>4. SeenBy(n, types) = Cardinality(these(n)) /\ SeenBy(n + 1, types) = Cardinality(these(n + 1))
  BY DEF SeenBy
<1> HIDE DEF these
<1>5. Cardinality(these(n) \cup {n + 1}) = Cardinality(these(n)) + 1
  BY <1>1, <1>2, FS_AddElement
<1> QED BY <1>2, <1>3, <1>4, <1>5

\* A recorded duration is one sample more.
LEMMA RecordCounts ==
  ASSUME NEW hist \in Histograms, NEW ns \in Nat
  PROVE  Record(hist, ns) \in Histograms /\ Record(hist, ns).total = hist.total + 1
<1>1. /\ hist.linear \in [Linear -> Nat] /\ hist.log \in [Log -> Nat]
      /\ hist.total \in Nat /\ hist.max \in Nat /\ hist.sum \in Nat
  BY DEF Histograms
<1> DEFINE bumped(f, b) == [f EXCEPT ![b] = @ + 1]
<1>2. ASSUME NEW S, NEW f \in [S -> Nat], NEW b PROVE bumped(f, b) \in [S -> Nat]
  <2>1. \A i \in S : bumped(f, b)[i] = IF i = b THEN f[b] + 1 ELSE f[i]
    OBVIOUS
  <2>2. \A i \in S : bumped(f, b)[i] \in Nat
    BY <2>1
  <2> QED BY <2>2
<1>3. bumped(hist.log, LogBucket(ns)) \in [Log -> Nat]
  BY <1>1, <1>2
<1>4. bumped(hist.linear, ns) \in [Linear -> Nat]
  BY <1>1, <1>2
<1>5. hist.total + 1 \in Nat /\ hist.sum + ns \in Nat
  BY <1>1
<1> QED BY <1>1, <1>3, <1>4, <1>5 DEF Record, Histograms

\* At first nothing is counted, and the symbol is not known.
LEMMA InitIsHandlerInv ==
  ProgramInit => HandlerInv
<1> SUFFICES ASSUME ProgramInit PROVE HandlerInv
  OBVIOUS
<1>1. /\ count = 0 /\ target_locate = 0 /\ calls = <<>> /\ counter = "adds"
      /\ counters = [c \in Counters |-> 0] /\ hists = [k \in Kinds |-> NewHistogram]
  BY DEF ProgramInit, ParseInit, NoTarget
<1>2. NewHistogram \in Histograms /\ NewHistogram.total = 0
  BY DEF NewHistogram, Histograms
<1>3. \A types : SeenBy(0, types) = 0
  <2>1. \A types : {i \in 1 .. 0 : Wants(i) /\ tape[i].type \in types} = {}
    OBVIOUS
  <2> QED BY <2>1, FS_EmptySet DEF SeenBy
<1>4. ~Known(count)
  BY <1>1 DEF Known
<1>5. Dealt = 0 /\ HalfReplace = 0
  BY <1>1 DEF Dealt, HalfReplace
<1>6. Tally(0, 0)
  BY <1>1, <1>2, <1>3 DEF Tally, Counters, Kinds
<1>7. counters \in [Counters -> Nat] /\ hists \in [Kinds -> Histograms]
  BY <1>1, <1>2
<1> QED BY <1>1, <1>4, <1>5, <1>6, <1>7 DEF HandlerInv

\* A message comes in: it is dropped, skipped, or starts its calls.
LEMMA DispatchKeepsHandlerInv ==
  ASSUME ParserInv, HandlerInv, DispatchFrame
  PROVE  HandlerInv'
<1>1. PICK n \in Nat : n = count
  BY NextFrame DEF ParserInv
<1> DEFINE x == tape[n + 1]
<1>2. /\ calls = <<>> /\ FrameFits /\ Handle(x) /\ tape' = tape /\ count' = n + 1
      /\ n \in Nat /\ n + 1 \in 1 .. Len(tape) /\ DOMAIN tape = 1 .. Len(tape)
      /\ x.locate = 0 => Handling(x.type) = {}
  <2>1. FrameFits /\ calls = <<>> /\ Handle(Message) /\ tape' = tape /\ count' = n + 1
    BY <1>1 DEF DispatchFrame, ParseFrame, tapeFile
  <2>2. n + 1 \in 1 .. Len(tape) /\ Message = x /\ tape \in Seq(WireMessages)
    BY <1>1, <2>1, NextFrame
  <2>3. DOMAIN tape = 1 .. Len(tape) /\ n \in Nat /\ tape \in Tapes
    BY <2>2, LenProperties DEF ParserInv
  <2>4. x.locate = 0 => Handling(x.type) = {}
    BY <2>2, <2>3, ProgramAssumption
  <2> QED BY <2>1, <2>2, <2>3, <2>4
<1>3. hists' = hists
  BY <1>2 DEF Handle
<1>4. \A k, types : SeenBy(k, types)' = SeenBy(k, types)
  BY <1>2 DEF SeenBy, Wants
<1>5. \A k : (Known(k)' <=> Known(k)) /\ (Wants(k)' <=> Wants(k))
  BY <1>2 DEF Known, Wants
<1>6. \A types : /\ SeenBy(n, types) \in Nat
                 /\ SeenBy(n + 1, types) =
                      SeenBy(n, types) + IF Wants(n + 1) /\ x.type \in types THEN 1 ELSE 0
  BY <1>2, SeenNext
<1>7. /\ target_locate = IF Known(n) THEN Wanted ELSE 0
      /\ counters \in [Counters -> Nat] /\ hists \in [Kinds -> Histograms] /\ Tally(n, 0)
  BY <1>1, <1>2 DEF HandlerInv, Dealt, HalfReplace
<1>8. Known(n + 1) <=> Known(n) \/ x = [type |-> "R", locate |-> Wanted]
  <2>1. \A i : i \in 1 .. n + 1 <=> i \in 1 .. n \/ i = n + 1
    BY <1>2
  <2> QED BY <2>1 DEF Known
<1>9. Wants(n + 1) <=> x.locate = Wanted /\ Known(n)
  <2>1. (n + 1) - 1 = n
    BY <1>2
  <2> QED BY <2>1 DEF Wants, Known
<1>10. Wanted # 0
  BY LocatesAssumption
\* The messages the handler does not count.
<1>11. ASSUME Handling(x.type) = {} PROVE x.type \notin {"A", "F", "E", "C", "X", "D", "U"}
  <2>1. x.type \in {"A", "F"} =>
         [types |-> {"A", "F"}, calls |-> <<"submit">>, counter |-> "adds"] \in Handling(x.type)
    BY DEF Handling
  <2>2. x.type \in {"E", "C"} =>
         [types |-> {"E", "C"}, calls |-> <<"reduce">>, counter |-> "execs"] \in Handling(x.type)
    BY DEF Handling
  <2>3. x.type \in {"X"} =>
         [types |-> {"X"}, calls |-> <<"reduce">>, counter |-> "cancels"] \in Handling(x.type)
    BY DEF Handling
  <2>4. x.type \in {"D"} =>
         [types |-> {"D"}, calls |-> <<"cancel">>, counter |-> "deletes"] \in Handling(x.type)
    BY DEF Handling
  <2>5. x.type \in {"U"} =>
         [types |-> {"U"}, calls |-> <<"cancel", "submit">>, counter |-> "replaces"] \in Handling(x.type)
    BY DEF Handling
  <2> QED BY <1>11, <2>1, <2>2, <2>3, <2>4, <2>5
<1>12. ASSUME Handling(x.type) = {} \/ ~Wants(n + 1), UNCHANGED <<calls, counters, counter>>,
              target_locate' = IF Known(n + 1) THEN Wanted ELSE 0
       PROVE  HandlerInv'
  <2>1. \A types \in {{"A", "F"}, {"E", "C"}, {"X"}, {"D"}, {"U"}} :
          SeenBy(n + 1, types) = SeenBy(n, types)
    BY <1>6, <1>11, <1>12
  <2>2. Tally(n + 1, 0)
    BY <1>7, <2>1 DEF Tally
  <2>3. Tally(n + 1, 0)'
    BY <1>3, <1>4, <1>12, <2>2 DEF Tally
  <2>4. Dealt' = n + 1 /\ HalfReplace' = 0 /\ calls' = <<>>
    BY <1>2, <1>12 DEF Dealt, HalfReplace
  <2>5. Tally(Dealt, HalfReplace)'
    BY <2>3, <2>4 DEF Tally, SeenBy
  <2>6. counters' \in [Counters -> Nat] /\ hists' \in [Kinds -> Histograms]
    BY <1>3, <1>7, <1>12
  <2>7. target_locate' = IF Known(count)' THEN Wanted ELSE 0
    BY <1>2, <1>5, <1>12 DEF Known
  <2> QED BY <2>4, <2>5, <2>6, <2>7 DEF HandlerInv
<1>13. CASE x.type = "R"
  <2>1. Handling(x.type) = {}
    BY <1>13 DEF Handling
  <2>2. UNCHANGED <<calls, counters, counter>> /\ OnStockDirectory(x.locate)
    BY <1>2, <1>13, <2>1 DEF Handle
  <2>3. x = [type |-> "R", locate |-> x.locate]
    <3>1. tape \in Seq(WireMessages) /\ x \in WireMessages
      BY <1>2, NextFrame, ElementOfSeq
    <3> QED BY <1>13, <3>1 DEF WireMessages
  <2>4. target_locate' = IF Known(n + 1) THEN Wanted ELSE 0
    BY <1>7, <1>8, <1>10, <2>2, <2>3 DEF OnStockDirectory
  <2> QED BY <1>12, <2>1, <2>2, <2>4
<1>14. CASE x.type # "R"
  <2>1. target_locate' = target_locate /\ (Known(n + 1) <=> Known(n))
    BY <1>2, <1>8, <1>14 DEF Handle
  <2>2. CASE Handling(x.type) = {} \/ Filtered(x.locate)
    <3>1. UNCHANGED <<calls, counters, counter>>
      BY <1>2, <2>2 DEF Handle
    <3>2. Filtered(x.locate) => ~Wants(n + 1)
      BY <1>7, <1>9 DEF Filtered
    <3> QED BY <1>7, <1>12, <2>1, <2>2, <3>1, <3>2
  <2>3. CASE ~(Handling(x.type) = {} \/ Filtered(x.locate))
    <3>1. Wants(n + 1) /\ Known(n)
      BY <1>2, <1>7, <1>9, <2>3 DEF Filtered
    <3>2. PICK h \in Handling(x.type) :
            /\ calls' = h.calls /\ counter' = h.counter
            /\ counters' = IF h.calls = <<>> THEN [counters EXCEPT ![h.counter] = @ + 1]
                           ELSE counters
      BY <1>2, <2>3 DEF Handle
    <3>3. target_locate' = IF Known(count)' THEN Wanted ELSE 0
      BY <1>2, <1>5, <1>7, <2>1, <3>1 DEF Known
    <3>4. \A types : SeenBy(n + 1, types) = SeenBy(n, types) + IF x.type \in types THEN 1 ELSE 0
      BY <1>6, <3>1
    <3>5. CASE h.calls = <<>>
      <4>1. x.type = "U" /\ h.counter = "replaces_skipped"
        <5>1. /\ <<"submit">> # <<>> /\ <<"reduce">> # <<>>
              /\ <<"cancel">> # <<>> /\ <<"cancel", "submit">> # <<>>
          OBVIOUS
        <5>2. /\ h \in {[types |-> {"A", "F"}, calls |-> <<"submit">>, counter |-> "adds"],
                        [types |-> {"E", "C"}, calls |-> <<"reduce">>, counter |-> "execs"],
                        [types |-> {"X"}, calls |-> <<"reduce">>, counter |-> "cancels"],
                        [types |-> {"D"}, calls |-> <<"cancel">>, counter |-> "deletes"],
                        [types |-> {"U"}, calls |-> <<"cancel", "submit">>, counter |-> "replaces"],
                        [types |-> {"U"}, calls |-> <<>>, counter |-> "replaces_skipped"]}
              /\ x.type \in h.types
          BY <3>2 DEF Handling, SkippedCalls
        <5>3. \/ h.calls = <<"submit">> \/ h.calls = <<"reduce">> \/ h.calls = <<"cancel">>
              \/ h.calls = <<"cancel", "submit">>
              \/ h.types = {"U"} /\ h.counter = "replaces_skipped"
          BY <5>2
        <5> QED BY <3>5, <5>1, <5>2, <5>3
      <4>2. /\ counters' = [counters EXCEPT !["replaces_skipped"] = @ + 1]
            /\ calls' = <<>>
        BY <3>2, <3>5, <4>1
      <4>3. /\ counters' \in [Counters -> Nat]
            /\ counters'["replaces_skipped"] = counters["replaces_skipped"] + 1
            /\ \A c \in Counters \ {"replaces_skipped"} : counters'[c] = counters[c]
        BY <1>7, <4>2 DEF Counters
      <4>4. /\ SeenBy(n + 1, {"U"}) = SeenBy(n, {"U"}) + 1
            /\ \A types \in {{"A", "F"}, {"E", "C"}, {"X"}, {"D"}} :
                 SeenBy(n + 1, types) = SeenBy(n, types)
        BY <1>6, <3>4, <4>1
      <4>5. Tally(n + 1, 0)'
        BY <1>3, <1>4, <1>6, <1>7, <4>3, <4>4 DEF Tally, Counters
      <4>6. Dealt' = n + 1 /\ HalfReplace' = 0
        BY <1>2, <4>2 DEF Dealt, HalfReplace
      <4>7. Tally(Dealt, HalfReplace)'
        BY <4>5, <4>6 DEF Tally, SeenBy
      <4> QED BY <1>3, <1>7, <3>3, <4>2, <4>3, <4>7 DEF HandlerInv
    <3>6. CASE h.calls # <<>>
      <4>1. counters' = counters /\ calls' # <<>> /\ calls' = h.calls /\ counter' = h.counter
        BY <3>2, <3>6
      <4>2. CallsFit' /\ HalfReplace' = 0
        <5>1. tape[count]' = x
          BY <1>2
        <5>2. \/ calls' = <<"submit">> /\ counter' = "adds" /\ x.type \in {"A", "F"}
              \/ calls' = <<"reduce">> /\ counter' = "execs" /\ x.type \in {"E", "C"}
              \/ calls' = <<"reduce">> /\ counter' = "cancels" /\ x.type = "X"
              \/ calls' = <<"cancel">> /\ counter' = "deletes" /\ x.type = "D"
              \/ calls' = <<"cancel", "submit">> /\ counter' = "replaces" /\ x.type = "U"
          BY <3>2, <3>6, <4>1 DEF Handling, SkippedCalls
        <5>3. <<"cancel", "submit">> # <<"submit">>
          OBVIOUS
        <5> QED BY <5>1, <5>2, <5>3 DEF CallsFit, HalfReplace
      <4>3. Dealt' = n
        BY <1>2, <4>1 DEF Dealt
      <4>4. Tally(n, 0)'
        BY <1>3, <1>4, <1>7, <4>1 DEF Tally
      <4>5. Tally(Dealt, HalfReplace)'
        BY <4>2, <4>3, <4>4 DEF Tally, SeenBy
      <4>6. Wants(count)' /\ count' # 0
        BY <1>2, <1>5, <3>1 DEF Wants
      <4> QED BY <1>3, <1>7, <3>3, <4>1, <4>2, <4>5, <4>6 DEF HandlerInv
    <3> QED BY <3>5, <3>6
  <2> QED BY <2>2, <2>3
<1> QED BY <1>13, <1>14

\* What is left of a message once its next call is timed.
LEMMA NextCall ==
  ASSUME NEW todo, todo # <<>>,
         todo \in {<<"submit">>, <<"reduce">>, <<"cancel">>, <<"cancel", "submit">>}
  PROVE  /\ Head(todo) \in Kinds
         /\ todo = <<"cancel", "submit">> =>
              Head(todo) = "cancel" /\ Tail(todo) = <<"submit">> /\ Len(todo) = 2
         /\ todo # <<"cancel", "submit">> =>
              todo = <<Head(todo)>> /\ Tail(todo) = <<>> /\ Len(todo) = 1
<1>1. \A c : Head(<<c>>) = c /\ Tail(<<c>>) = <<>> /\ Len(<<c>>) = 1
  OBVIOUS
<1>2. \A c, d : Head(<<c, d>>) = c /\ Tail(<<c, d>>) = <<d>> /\ Len(<<c, d>>) = 2
  OBVIOUS
<1> QED BY <1>1, <1>2 DEF Kinds

\* A call is timed, and after the last one the message is counted.
LEMMA TimedCallKeepsHandlerInv ==
  ASSUME ParserInv, HandlerInv, TimedCall
  PROVE  HandlerInv'
<1>1. PICK n \in Nat : n = count
  BY NextFrame DEF ParserInv
<1>2. /\ calls # <<>> /\ n # 0 /\ n - 1 \in Nat /\ Wants(n) /\ CallsFit
      /\ tape' = tape /\ count' = n /\ target_locate' = target_locate /\ counter' = counter
      /\ calls' = Tail(calls)
  BY <1>1 DEF HandlerInv, TimedCall, parserVars, tapeFile
<1>3. PICK ns \in Durations : hists' = [hists EXCEPT ![Head(calls)] = Record(@, ns)]
  BY DEF TimedCall
<1>4. counters' = IF Len(calls) = 1 THEN [counters EXCEPT ![counter] = @ + 1] ELSE counters
  BY DEF TimedCall
<1>5. /\ target_locate = IF Known(n) THEN Wanted ELSE 0
      /\ counters \in [Counters -> Nat] /\ hists \in [Kinds -> Histograms]
      /\ Tally(n - 1, HalfReplace)
  BY <1>1, <1>2 DEF HandlerInv, Dealt
<1>6. \A k, types : SeenBy(k, types)' = SeenBy(k, types)
  BY <1>2 DEF SeenBy, Wants
<1>7. target_locate' = IF Known(count)' THEN Wanted ELSE 0
  BY <1>2, <1>5 DEF Known
<1>8. calls \in {<<"submit">>, <<"reduce">>, <<"cancel">>, <<"cancel", "submit">>}
  BY <1>2 DEF CallsFit
<1>9. Head(calls) \in Kinds /\ counter \in Counters
  BY <1>2, <1>8, NextCall DEF CallsFit, Counters
<1>10. /\ hists' \in [Kinds -> Histograms]
       /\ hists'[Head(calls)].total = hists[Head(calls)].total + 1
       /\ \A k \in Kinds : k # Head(calls) => hists'[k] = hists[k]
       /\ \A k \in Kinds : hists[k].total \in Nat
  <2>1. hists[Head(calls)] \in Histograms /\ ns \in Nat
    BY <1>5, <1>9, ProgramAssumption
  <2>2. PICK more : more = Record(hists[Head(calls)], ns)
    OBVIOUS
  <2>3. more \in Histograms /\ more.total = hists[Head(calls)].total + 1
    BY <2>1, <2>2, RecordCounts
  <2>4. \A k \in Kinds : hists'[k] = IF k = Head(calls) THEN more ELSE hists[k]
    BY <1>3, <1>5, <1>9, <2>2
  <2>5. hists' \in [Kinds -> Histograms]
    BY <1>3, <1>5, <1>9, <2>2, <2>3
  <2>6. \A hist \in Histograms : hist.total \in Nat
    BY DEF Histograms
  <2> QED BY <1>5, <1>9, <2>3, <2>4, <2>5, <2>6
<1>11. \A types : /\ SeenBy(n - 1, types) \in Nat
                  /\ SeenBy(n, types) =
                       SeenBy(n - 1, types) + IF tape[n].type \in types THEN 1 ELSE 0
  <2>1. PICK m \in Nat : m = n - 1
    BY <1>2
  <2>2. m + 1 = n
    BY <2>1
  <2> QED BY <1>2, <2>1, <2>2, SeenNext
\* The cancel of a replace: its submit is still to come.
<1>12. CASE calls = <<"cancel", "submit">>
  <2>1. Head(calls) = "cancel" /\ calls' = <<"submit">> /\ counters' = counters
    BY <1>2, <1>4, <1>8, <1>12, NextCall
  <2>2. counter = "replaces" /\ tape[n].type = "U"
    BY <1>1, <1>2, <1>12 DEF CallsFit
  <2>3. HalfReplace = 0 /\ HalfReplace' = 1
    <3>1. <<"cancel", "submit">> # <<"submit">>
      OBVIOUS
    <3> QED BY <1>2, <1>12, <2>1, <2>2, <3>1 DEF HalfReplace
  <2>4. Tally(n - 1, 1)'
    <3>1. Tally(n - 1, 0)
      BY <1>5, <2>3
    <3> QED BY <1>5, <1>6, <1>10, <2>1, <3>1 DEF Tally, Kinds, Counters
  <2>5. Dealt' = n - 1 /\ calls' # <<>>
    <3>1. <<"submit">> # <<>>
      OBVIOUS
    <3> QED BY <1>2, <2>1, <3>1 DEF Dealt
  <2>6. Tally(Dealt, HalfReplace)'
    BY <2>3, <2>4, <2>5 DEF Tally, SeenBy
  <2>7. Wants(count)' /\ count' # 0 /\ CallsFit'
    BY <1>2, <2>1, <2>2 DEF Wants, CallsFit
  <2>8. counters' \in [Counters -> Nat]
    BY <1>5, <2>1
  <2> QED BY <1>7, <1>10, <2>6, <2>7, <2>8 DEF HandlerInv
\* The last call of a message.
<1>13. CASE calls # <<"cancel", "submit">>
  <2>1. calls = <<Head(calls)>> /\ calls' = <<>> /\ Len(calls) = 1
    BY <1>2, <1>8, <1>13, NextCall
  <2>2. /\ counters' \in [Counters -> Nat]
        /\ counters'[counter] = counters[counter] + 1
        /\ \A c \in Counters : c # counter => counters'[c] = counters[c]
        /\ \A c \in Counters : counters[c] \in Nat
    BY <1>4, <1>5, <1>9, <2>1
  <2>3. \/ Head(calls) = "submit" /\ counter = "adds" /\ tape[n].type \in {"A", "F"} /\ HalfReplace = 0
        \/ Head(calls) = "reduce" /\ counter = "execs" /\ tape[n].type \in {"E", "C"} /\ HalfReplace = 0
        \/ Head(calls) = "reduce" /\ counter = "cancels" /\ tape[n].type = "X" /\ HalfReplace = 0
        \/ Head(calls) = "cancel" /\ counter = "deletes" /\ tape[n].type = "D" /\ HalfReplace = 0
        \/ Head(calls) = "submit" /\ counter = "replaces" /\ tape[n].type = "U" /\ HalfReplace = 1
    <3>1. \A c : Head(<<c>>) = c
      OBVIOUS
    <3> QED BY <1>1, <1>2, <1>13, <3>1 DEF CallsFit, HalfReplace
  <2>4. Tally(n, 0)'
    <3>1. Tally(n - 1, HalfReplace)
      BY <1>5
    <3>2. CASE Head(calls) = "submit" /\ counter = "adds" /\ tape[n].type \in {"A", "F"} /\ HalfReplace = 0
      BY <1>5, <1>6, <1>10, <1>11, <2>2, <3>1, <3>2 DEF Tally, Kinds, Counters
    <3>3. CASE Head(calls) = "reduce" /\ counter = "execs" /\ tape[n].type \in {"E", "C"} /\ HalfReplace = 0
      <4>1. /\ SeenBy(n, {"E", "C"}) = SeenBy(n - 1, {"E", "C"}) + 1
            /\ \A types \in {{"A", "F"}, {"X"}, {"D"}, {"U"}} : SeenBy(n, types) = SeenBy(n - 1, types)
        BY <1>11, <3>3
      <4>2. /\ counters'["execs"] = counters["execs"] + 1
            /\ \A c \in Counters \ {"execs"} : counters'[c] = counters[c]
        BY <2>2, <3>3
      <4>3. /\ hists'["reduce"].total = hists["reduce"].total + 1
            /\ \A k \in Kinds \ {"reduce"} : hists'[k].total = hists[k].total
        BY <1>10, <3>3
      <4>4. \A c \in Counters : counters[c] \in Nat
        BY <2>2
      <4> QED BY <1>6, <1>10, <1>11, <3>1, <3>3, <4>1, <4>2, <4>3, <4>4 DEF Tally, Kinds, Counters
    <3>4. CASE Head(calls) = "reduce" /\ counter = "cancels" /\ tape[n].type = "X" /\ HalfReplace = 0
      <4>1. /\ SeenBy(n, {"X"}) = SeenBy(n - 1, {"X"}) + 1
            /\ \A types \in {{"A", "F"}, {"E", "C"}, {"D"}, {"U"}} : SeenBy(n, types) = SeenBy(n - 1, types)
        BY <1>11, <3>4
      <4>2. /\ counters'["cancels"] = counters["cancels"] + 1
            /\ \A c \in Counters \ {"cancels"} : counters'[c] = counters[c]
        BY <2>2, <3>4
      <4>3. /\ hists'["reduce"].total = hists["reduce"].total + 1
            /\ \A k \in Kinds \ {"reduce"} : hists'[k].total = hists[k].total
        BY <1>10, <3>4
      <4>4. \A c \in Counters : counters[c] \in Nat
        BY <2>2
      <4> QED BY <1>6, <1>10, <1>11, <3>1, <3>4, <4>1, <4>2, <4>3, <4>4 DEF Tally, Kinds, Counters
    <3>5. CASE Head(calls) = "cancel" /\ counter = "deletes" /\ tape[n].type = "D" /\ HalfReplace = 0
      BY <1>5, <1>6, <1>10, <1>11, <2>2, <3>1, <3>5 DEF Tally, Kinds, Counters
    <3>6. CASE Head(calls) = "submit" /\ counter = "replaces" /\ tape[n].type = "U" /\ HalfReplace = 1
      <4>1. /\ SeenBy(n, {"U"}) = SeenBy(n - 1, {"U"}) + 1
            /\ \A types \in {{"A", "F"}, {"E", "C"}, {"X"}, {"D"}} : SeenBy(n, types) = SeenBy(n - 1, types)
        BY <1>11, <3>6
      <4>2. /\ counters'["replaces"] = counters["replaces"] + 1
            /\ \A c \in Counters \ {"replaces"} : counters'[c] = counters[c]
        BY <2>2, <3>6
      <4>3. /\ hists'["submit"].total = hists["submit"].total + 1
            /\ \A k \in Kinds \ {"submit"} : hists'[k].total = hists[k].total
        BY <1>10, <3>6
      <4>4. \A c \in Counters : counters[c] \in Nat
        BY <2>2
      <4> QED BY <1>6, <1>10, <1>11, <3>1, <3>6, <4>1, <4>2, <4>3, <4>4 DEF Tally, Kinds, Counters
    <3> QED BY <2>3, <3>2, <3>3, <3>4, <3>5, <3>6
  <2>5. Dealt' = n /\ HalfReplace' = 0
    <3>1. <<"submit">> # <<>>
      OBVIOUS
    <3> QED BY <1>2, <2>1, <3>1 DEF Dealt, HalfReplace
  <2>6. Tally(Dealt, HalfReplace)'
    BY <2>4, <2>5 DEF Tally, SeenBy
  <2> QED BY <1>7, <1>10, <2>1, <2>2, <2>6 DEF HandlerInv
<1> QED BY <1>12, <1>13

\* The other steps leave the handler, the tape and the count alone.
LEMMA StepKeepsHandlerInv ==
  ASSUME ParserInv, HandlerInv, [ProgramNext]_programVars
  PROVE  HandlerInv'
<1>1. ASSUME UNCHANGED <<parserVars, handlerVars>> PROVE HandlerInv'
  <2>1. tape' = tape /\ count' = count /\ UNCHANGED handlerVars
    BY <1>1 DEF parserVars, tapeFile
  <2>2. UNCHANGED <<target_locate, hists, calls, counters, counter>>
    BY <2>1 DEF handlerVars
  <2>3. Tally(Dealt, HalfReplace)'
    BY <2>1, <2>2 DEF HandlerInv, Tally, Dealt, HalfReplace, SeenBy, Wants
  <2>4. target_locate' = IF Known(count)' THEN Wanted ELSE 0
    BY <2>1, <2>2 DEF HandlerInv, Known
  <2>5. counters' \in [Counters -> Nat] /\ hists' \in [Kinds -> Histograms]
    BY <2>2 DEF HandlerInv
  <2>6. calls' # <<>> => count' # 0 /\ Wants(count)' /\ CallsFit'
    BY <2>1, <2>2 DEF HandlerInv, Wants, CallsFit
  <2> QED BY <2>3, <2>4, <2>5, <2>6 DEF HandlerInv
<1>2. CASE DispatchFrame
  BY <1>2, DispatchKeepsHandlerInv
<1>3. CASE TimedCall
  BY <1>3, TimedCallKeepsHandlerInv
<1>4. CASE MapFile
  BY <1>1, <1>4 DEF MapFile
<1>5. CASE ParseReturns
  BY <1>1, <1>5 DEF ParseReturns
<1>6. CASE WriteReport
  BY <1>1, <1>6 DEF WriteReport
<1>7. CASE UNCHANGED programVars
  BY <1>1, <1>7 DEF programVars
<1> QED BY <1>2, <1>3, <1>4, <1>5, <1>6, <1>7 DEF ProgramNext

\* Between two messages the counters are those of the tape, however often the
\* symbol's directory message comes, and wherever: a message is counted once,
\* after its last call, a replace is done or skipped, and every call timed is
\* one sample.
THEOREM CountersAgree == ProgramSpec => []CountersExact
<1>1. HandlerInv => CountersExact
  <2> SUFFICES ASSUME HandlerInv, calls = <<>> PROVE CountersExact
    BY DEF CountersExact
  <2>1. Dealt = count /\ HalfReplace = 0
    <3>1. <<"submit">> # <<>>
      OBVIOUS
    <3> QED BY <3>1 DEF Dealt, HalfReplace
  <2>2. Tally(count, 0)
    BY <2>1 DEF HandlerInv
  <2>3. hists["cancel"].total = counters["deletes"] + counters["replaces"]
    <3>1. counters["deletes"] \in Nat /\ counters["replaces"] \in Nat
      BY DEF HandlerInv, Counters
    <3> QED BY <2>2, <3>1 DEF Tally
  <2> QED BY <2>2, <2>3 DEF CountersExact, Tally, Seen, SeenBy
<1> QED
  BY <1>1, InitIsParserInv, StepKeepsParserInv, InitIsHandlerInv, StepKeepsHandlerInv, PTL
     DEF ProgramSpec

-----------------------------------------------------------------------------
(* The octaves of the histogram.                                           *)

\* The octaves begin at the powers of two.
LEMMA Octaves ==
  /\ Octave \in [Log -> Nat \ {0}] /\ Octave[0] = 1
  /\ \A b \in Log : b # 0 => Octave[b] = 2 * Octave[b - 1]
<1> DEFINE Solves(h) == h = [b \in Log |-> IF b = 0 THEN 1 ELSE 2 * h[b - 1]]
<1>1. PICK N : N \in Nat /\ Log = 0 .. N
  <2>1. kLogBuckets - 1 \in Nat
    BY HistogramAssumption
  <2> QED BY <2>1 DEF Log
<1>2. PICK step : step \in [Nat -> Nat] /\ \A x \in Nat : step[x] = 2 * x
  <2> DEFINE double == [x \in Nat |-> 2 * x]
  <2>1. double \in [Nat -> Nat] /\ \A x \in Nat : double[x] = 2 * x
    OBVIOUS
  <2> HIDE DEF double
  <2> QED BY <2>1
<1>3. PICK g : Iterates(Nat, 1, step, N, g)
  <2>1. 1 \in Nat
    OBVIOUS
  <2> QED BY <1>1, <1>2, <2>1, IterationFromZero
<1>4. g \in [0 .. N -> Nat] /\ g[0] = 1 /\ \A b \in 1 .. N : g[b] = step[g[b - 1]]
  BY <1>3 DEF Iterates
<1>5. \A b \in Log : b # 0 => b \in 1 .. N /\ g[b - 1] \in Nat /\ g[b] = 2 * g[b - 1]
  <2>1. \A b \in Log : b # 0 => b \in 1 .. N /\ b - 1 \in 0 .. N
    BY <1>1
  <2> QED BY <1>2, <1>4, <2>1
<1>6. Solves(g)
  BY <1>1, <1>4, <1>5
<1>7. Solves(Octave)
  <2>1. Octave = CHOOSE h : Solves(h)
    BY DEF Octave
  <2> HIDE DEF Solves
  <2> QED BY <1>6, <2>1
<1>8. \A b \in Log : g[b] > 0
  <2> DEFINE Bad == {b \in Log : ~(g[b] > 0)}
  <2>1. SUFFICES ASSUME Bad # {} PROVE FALSE
    OBVIOUS
  <2>2. PICK b \in Bad : \A c \in Bad : b <= c
    <3>1. Bad \subseteq Nat
      BY <1>1
    <3> HIDE DEF Bad
    <3> QED BY <2>1, <3>1, LeastNatExists
  <2>3. b \in Log /\ b \in Nat /\ ~(g[b] > 0)
    BY <1>1
  <2>4. b # 0
    BY <1>4, <2>3
  <2>5. b - 1 \in Log /\ ~(b <= b - 1)
    BY <1>1, <2>3, <2>4
  <2>6. g[b - 1] > 0
    BY <2>2, <2>5
  <2> QED BY <1>5, <2>3, <2>4, <2>6
<1>9. \A b \in 0 .. N : Octave[b] = g[b]
  <2>1. Octave[0] = 1
    BY <1>1, <1>7
  <2>2. \A b \in 1 .. N : b \in Log /\ b # 0
    BY <1>1
  <2>3. \A b \in 1 .. N : Octave[b] = 2 * Octave[b - 1]
    BY <1>7, <2>2
  <2> HIDE DEF Solves
  <2>4. \A b \in 1 .. N : Octave[b - 1] \in Nat => Octave[b] = step[Octave[b - 1]]
    BY <1>2, <2>3
  <2>5. PICK f : f = Octave /\ Repeats(Nat, 1, step, N, f)
    BY <2>1, <2>4 DEF Repeats
  <2>6. N \in Nat
    BY <1>1
  <2>7. \A b \in 0 .. N : f[b] = g[b]
    BY <1>3, <2>5, <2>6, IterationUnique
  <2> QED BY <2>5, <2>7
<1>10. Octave = [b \in Log |-> Octave[b]]
  BY <1>7
<1>11. Octave \in [Log -> Nat \ {0}]
  <2>1. \A b \in Log : Octave[b] \in Nat \ {0}
    <3>1. \A b \in Log : g[b] \in Nat
      BY <1>1, <1>4
    <3> QED BY <1>1, <1>8, <1>9, <3>1
  <2> QED BY <1>10, <2>1
<1> QED BY <1>1, <1>4, <1>5, <1>9, <1>11

\* A later octave begins later.
LEMMA OctavesGrow ==
  ASSUME NEW a \in Log, NEW b \in Log, a <= b
  PROVE  Octave[a] <= Octave[b]
<1> DEFINE Bad == {c \in Log : a <= c /\ ~(Octave[a] <= Octave[c])}
<1>1. SUFFICES ASSUME Bad # {} PROVE FALSE
  OBVIOUS
<1>2. PICK c \in Bad : \A d \in Bad : c <= d
  <2>1. Bad \subseteq Nat
    BY DEF Log
  <2> HIDE DEF Bad
  <2> QED BY <1>1, <2>1, LeastNatExists
<1>3. c \in Log /\ a <= c /\ ~(Octave[a] <= Octave[c])
  OBVIOUS
<1>4. Octave[a] \in Nat /\ Octave[c] \in Nat /\ kLogBuckets \in Nat
  BY <1>3, Octaves, HistogramAssumption
<1>5. c # a
  BY <1>3, <1>4
<1>6. c # 0 /\ c - 1 \in Log /\ a <= c - 1 /\ ~(c <= c - 1)
  BY <1>3, <1>4, <1>5 DEF Log
<1>7. Octave[a] <= Octave[c - 1]
  BY <1>2, <1>6
<1>8. Octave[c] = 2 * Octave[c - 1] /\ Octave[c - 1] \in Nat
  BY <1>3, <1>6, Octaves
<1> QED BY <1>3, <1>4, <1>7, <1>8

\* What the loop leaves of ns, and where it stops.
LEMMA LogBucketProperties ==
  ASSUME NEW ns \in Nat
  PROVE  /\ LogBucket(ns) \in Log
         /\ Octave[LogBucket(ns)] <= ns \/ (ns = 0 /\ LogBucket(ns) = 0)
         /\ LogBucket(ns) = kLogBuckets - 1 \/ ns < 2 * Octave[LogBucket(ns)]
<1> DEFINE Solves(h) == h = [bucket \in Log |-> IF bucket = 0 THEN ns ELSE h[bucket - 1] \div 2]
           v == CHOOSE h : Solves(h)
           stops == {bucket \in Log : v[bucket] <= 1 \/ bucket = kLogBuckets - 1}
<1>1. PICK N : N \in Nat /\ Log = 0 .. N /\ N = kLogBuckets - 1
  <2>1. kLogBuckets - 1 \in Nat
    BY HistogramAssumption
  <2> QED BY <2>1 DEF Log
<1>2. PICK step : step \in [Nat -> Nat] /\ \A x \in Nat : step[x] = x \div 2
  <2> DEFINE half == [x \in Nat |-> x \div 2]
  <2>1. \A x \in Nat : x \div 2 \in Nat
    OBVIOUS
  <2>2. half \in [Nat -> Nat] /\ \A x \in Nat : half[x] = x \div 2
    BY <2>1
  <2> HIDE DEF half
  <2> QED BY <2>2
<1>3. PICK g : Iterates(Nat, ns, step, N, g)
  BY <1>1, <1>2, IterationFromZero
<1>4. /\ g \in [Log -> Nat] /\ g[0] = ns
      /\ \A b \in Log : b # 0 => b - 1 \in Log /\ g[b] = g[b - 1] \div 2
  <2>1. g \in [0 .. N -> Nat] /\ g[0] = ns /\ \A b \in 1 .. N : g[b] = step[g[b - 1]]
    BY <1>3 DEF Iterates
  <2>2. \A b \in Log : b # 0 => b \in 1 .. N /\ b - 1 \in 0 .. N
    BY <1>1
  <2> QED BY <1>1, <1>2, <2>1, <2>2
<1>5. Solves(v)
  <2>1. Solves(g)
    BY <1>4
  <2> HIDE DEF Solves
  <2> QED BY <2>1
<1>6. LogBucket(ns) = Min(stops)
  BY DEF LogBucket, Halve
<1> HIDE DEF v
<1>7. \A b \in Log : v[b] = g[b]
  <2>1. v[0] = ns
    BY <1>1, <1>5
  <2>2. \A b \in 1 .. N : b \in Log /\ b # 0
    BY <1>1
  <2>3. \A b \in 1 .. N : v[b] = v[b - 1] \div 2
    BY <1>5, <2>2
  <2> HIDE DEF Solves
  <2>4. \A b \in 1 .. N : v[b - 1] \in Nat => v[b] = step[v[b - 1]]
    BY <1>2, <2>3
  <2>5. Repeats(Nat, ns, step, N, v)
    BY <2>1, <2>4 DEF Repeats
  <2> QED BY <1>1, <1>3, <2>5, IterationUnique
<1> HIDE DEF Solves
\* What is left after b halvings.
<1>8. \A b \in Log : g[b] * Octave[b] <= ns /\ ns < (g[b] + 1) * Octave[b]
  <2> DEFINE Bad == {b \in Log : ~(g[b] * Octave[b] <= ns /\ ns < (g[b] + 1) * Octave[b])}
  <2>1. SUFFICES ASSUME Bad # {} PROVE FALSE
    OBVIOUS
  <2>2. PICK b \in Bad : \A c \in Bad : b <= c
    <3>1. Bad \subseteq Nat
      BY <1>1
    <3> HIDE DEF Bad
    <3> QED BY <2>1, <3>1, LeastNatExists
  <2>3. b \in Log /\ b \in Nat /\ ~(g[b] * Octave[b] <= ns /\ ns < (g[b] + 1) * Octave[b])
    BY <1>1
  <2>4. b # 0
    BY <1>4, <2>3, Octaves
  <2>5. b - 1 \in Log /\ ~(b <= b - 1)
    BY <1>1, <2>3, <2>4
  <2>6. PICK x \in Nat, y \in Nat : x = g[b - 1] /\ y = Octave[b - 1]
    BY <1>4, <2>5, Octaves
  <2>7. g[b] = x \div 2 /\ Octave[b] = 2 * y
    BY <1>4, <2>3, <2>4, <2>6, Octaves
  <2>8. x * y <= ns /\ ns < (x + 1) * y
    BY <2>2, <2>5, <2>6
  <2>9. PICK q \in Nat : q = x \div 2 /\ 2 * q <= x /\ x + 1 <= 2 * (q + 1)
    BY <2>6
  <2>10. (2 * q) * y <= x * y /\ (x + 1) * y <= (2 * (q + 1)) * y
    <3>1. \A k, l, m \in Nat : k <= l => k * m <= l * m
      OBVIOUS
    <3>2. 2 * q \in Nat /\ x \in Nat /\ x + 1 \in Nat /\ 2 * (q + 1) \in Nat
      OBVIOUS
    <3> QED BY <2>9, <3>1, <3>2
  <2>11. q * (2 * y) = (2 * q) * y /\ (q + 1) * (2 * y) = (2 * (q + 1)) * y
    OBVIOUS
  <2>12. q * (2 * y) <= ns /\ ns < (q + 1) * (2 * y)
    <3>1. x * y \in Nat /\ (x + 1) * y \in Nat /\ (2 * q) * y \in Nat /\ (2 * (q + 1)) * y \in Nat
      OBVIOUS
    <3> QED BY <2>8, <2>10, <2>11, <3>1
  <2> QED BY <2>3, <2>7, <2>9, <2>12
<1>9. stops \subseteq 0 .. N /\ N \in stops
  BY <1>1
<1>10. PICK last : last \in stops /\ (\A b \in stops : last <= b) /\ last = LogBucket(ns)
  <2> HIDE DEF stops
  <2> QED BY <1>1, <1>6, <1>9, MinMaxProperties
<1>11. last \in Log /\ last \in Nat /\ (g[last] <= 1 \/ last = N)
  BY <1>1, <1>7, <1>10
<1>12. PICK x \in Nat, y \in Nat \ {0} : x = g[last] /\ y = Octave[last]
  BY <1>4, <1>11, Octaves
<1>13. x * y <= ns /\ ns < (x + 1) * y
  BY <1>8, <1>11, <1>12
<1>14. y <= ns \/ (ns = 0 /\ last = 0)
  <2>1. CASE last = 0
    BY <1>12, <2>1, Octaves
  <2>2. CASE last # 0
    <3>1. last - 1 \in Log /\ ~(last <= last - 1)
      BY <1>1, <1>11, <2>2
    <3>2. ~(g[last - 1] <= 1) /\ g[last - 1] \in Nat
      BY <1>4, <1>7, <1>10, <3>1
    <3>3. x >= 1
      BY <1>4, <1>11, <1>12, <2>2, <3>2
    <3>4. y <= x * y
      BY <1>12, <3>3
    <3> QED BY <1>13, <3>4
  <2> QED BY <2>1, <2>2
<1>15. last = N \/ ns < 2 * y
  <2>1. CASE x <= 1
    <3>1. (x + 1) * y <= 2 * y
      BY <2>1
    <3> QED BY <1>13, <3>1
  <2> QED BY <1>11, <1>12, <2>1
<1> QED BY <1>1, <1>10, <1>11, <1>12, <1>14, <1>15

\* A longer duration is in no earlier bucket.
LEMMA LogBucketsGrow ==
  ASSUME NEW ns \in Nat, NEW ms \in Nat, ns <= ms
  PROVE  LogBucket(ns) <= LogBucket(ms)
<1>1. PICK a, b : a = LogBucket(ns) /\ b = LogBucket(ms)
  OBVIOUS
<1>2. /\ a \in Log /\ (Octave[a] <= ns \/ (ns = 0 /\ a = 0))
      /\ b \in Log /\ (b = kLogBuckets - 1 \/ ms < 2 * Octave[b])
  BY <1>1, LogBucketProperties
<1>3. a \in Nat /\ b \in Nat /\ a <= kLogBuckets - 1 /\ kLogBuckets \in Nat
  BY <1>2, HistogramAssumption DEF Log
<1>4. SUFFICES ASSUME ~(a <= b) PROVE FALSE
  BY <1>1
<1>5. b + 1 \in Log /\ b + 1 <= a /\ b # kLogBuckets - 1 /\ (b + 1) - 1 = b /\ b + 1 # 0 /\ a # 0
  BY <1>3, <1>4 DEF Log
<1>6. Octave[b + 1] = 2 * Octave[b] /\ Octave[a] \in Nat /\ Octave[b] \in Nat
  BY <1>2, <1>5, Octaves
<1>7. Octave[b + 1] <= Octave[a]
  BY <1>2, <1>5, OctavesGrow
<1> QED BY <1>2, <1>5, <1>6, <1>7

\* Edge is the edge of the bucket.
LEMMA EdgeOfBucket ==
  ASSUME NEW ns \in Nat
  PROVE  Edge(ns) = IF ns < kLinearMax THEN ns ELSE Octave[LogBucket(ns)]
<1> DEFINE edges == {1} \cup {Octave[b] : b \in {e \in Log : Octave[e] <= ns}}
<1>1. PICK a : a = LogBucket(ns)
  OBVIOUS
<1>2. /\ a \in Log /\ (Octave[a] <= ns \/ (ns = 0 /\ a = 0))
      /\ (a = kLogBuckets - 1 \/ ns < 2 * Octave[a])
  BY <1>1, LogBucketProperties
<1>3. Octave[a] \in Nat \ {0} /\ Octave[0] = 1 /\ a \in Nat /\ a <= kLogBuckets - 1 /\ kLogBuckets \in Nat
  BY <1>2, Octaves, HistogramAssumption DEF Log
<1>4. Octave[a] \in edges
  BY <1>2, <1>3
<1>5. ASSUME NEW b \in Log, Octave[b] <= ns PROVE Octave[b] <= Octave[a]
  <2>1. b \in Nat /\ Octave[b] \in Nat
    BY Octaves DEF Log
  <2>2. CASE b <= a
    BY <1>2, <2>2, OctavesGrow
  <2>3. CASE ~(b <= a)
    <3>1. a + 1 \in Log /\ a + 1 <= b /\ a # kLogBuckets - 1 /\ (a + 1) - 1 = a /\ a + 1 # 0
      BY <1>3, <2>1, <2>3 DEF Log
    <3>2. Octave[a + 1] = 2 * Octave[a]
      BY <3>1, Octaves
    <3>3. Octave[a + 1] <= Octave[b]
      BY <3>1, OctavesGrow
    <3> QED BY <1>2, <1>3, <1>5, <2>1, <3>1, <3>2, <3>3
  <2> QED BY <2>2, <2>3
<1>6. \A y \in edges : y \in Nat /\ y <= Octave[a]
  BY <1>3, <1>5, Octaves
<1>7. Max(edges) = Octave[a]
  <2> HIDE DEF edges
  <2>1. \E x \in edges : \A y \in edges : x >= y
    BY <1>3, <1>4, <1>6
  <2>2. Max(edges) \in edges /\ \A y \in edges : Max(edges) >= y
    BY <2>1 DEF Max
  <2> QED BY <1>3, <1>4, <1>6, <2>2
<1> QED BY <1>1, <1>7 DEF Edge

-----------------------------------------------------------------------------
(* Counting samples.                                                       *)

\* How many of the samples of s are in T.
Tallied(s, T) == Cardinality({j \in DOMAIN s : s[j] \in T})

\* A tally is a number, of the samples at most.
LEMMA TalliedIsNat ==
  ASSUME NEW s \in Seq(Nat), NEW T
  PROVE  /\ IsFiniteSet({j \in DOMAIN s : s[j] \in T})
         /\ Tallied(s, T) \in 0 .. Len(s)
<1>1. DOMAIN s = 1 .. Len(s) /\ Len(s) \in Nat
  BY LenProperties
<1>2. IsFiniteSet(1 .. Len(s)) /\ Cardinality(1 .. Len(s)) = Len(s)
  BY <1>1, IntervalSize
<1>3. PICK these : these = {j \in DOMAIN s : s[j] \in T}
  OBVIOUS
<1>4. these \subseteq 1 .. Len(s)
  BY <1>1, <1>3
<1>5. IsFiniteSet(these) /\ Cardinality(these) <= Len(s)
  BY <1>2, <1>4, FS_Subset
<1>6. Cardinality(these) \in Nat
  BY <1>5, FS_CardinalityType
<1> QED BY <1>1, <1>3, <1>5, <1>6 DEF Tallied

\* More values, no fewer samples.
LEMMA TalliedGrows ==
  ASSUME NEW s \in Seq(Nat), NEW T, NEW U, T \subseteq U
  PROVE  Tallied(s, T) <= Tallied(s, U)
<1>1. PICK those : those = {j \in DOMAIN s : s[j] \in U}
  OBVIOUS
<1>2. PICK these : these = {j \in DOMAIN s : s[j] \in T}
  OBVIOUS
<1>3. IsFiniteSet(those)
  BY <1>1, TalliedIsNat
<1>4. these \subseteq those
  BY <1>1, <1>2
<1>5. Cardinality(these) <= Cardinality(those)
  BY <1>3, <1>4, FS_Subset
<1> QED BY <1>1, <1>2, <1>5 DEF Tallied

\* Only the values that occur matter.
LEMMA TalliedSame ==
  ASSUME NEW s \in Seq(Nat), NEW T, NEW U, \A x \in Nat : x \in T <=> x \in U
  PROVE  Tallied(s, T) = Tallied(s, U)
<1>1. DOMAIN s = 1 .. Len(s) /\ \A j \in 1 .. Len(s) : s[j] \in Nat
  BY LenProperties, ElementOfSeq
<1>2. {j \in DOMAIN s : s[j] \in T} = {j \in DOMAIN s : s[j] \in U}
  BY <1>1
<1> QED BY <1>2 DEF Tallied

\* Values of two kinds.
LEMMA TalliedOfUnion ==
  ASSUME NEW s \in Seq(Nat), NEW T, NEW U, \A x \in Nat : ~(x \in T /\ x \in U)
  PROVE  Tallied(s, T \cup U) = Tallied(s, T) + Tallied(s, U)
<1>1. DOMAIN s = 1 .. Len(s) /\ \A j \in 1 .. Len(s) : s[j] \in Nat
  BY LenProperties, ElementOfSeq
<1>2. PICK these : these = {j \in DOMAIN s : s[j] \in T}
  OBVIOUS
<1>3. PICK those : those = {j \in DOMAIN s : s[j] \in U}
  OBVIOUS
<1>4. these \cap those = {}
  BY <1>1, <1>2, <1>3
<1>5. {j \in DOMAIN s : s[j] \in T \cup U} = these \cup those
  BY <1>2, <1>3
<1>6. IsFiniteSet(these) /\ IsFiniteSet(those)
  BY <1>2, <1>3, TalliedIsNat
<1>7. Cardinality(these \cup those)
        = Cardinality(these) + Cardinality(those) - Cardinality(these \cap those)
  BY <1>6, FS_Union
<1>8. Cardinality(these) \in Nat /\ Cardinality(those) \in Nat
  BY <1>6, FS_CardinalityType
<1>9. Cardinality(these \cap those) = 0
  BY <1>4, FS_EmptySet
<1>10. /\ Tallied(s, T) = Cardinality(these) /\ Tallied(s, U) = Cardinality(those)
       /\ Tallied(s, T \cup U) = Cardinality(these \cup those)
  BY <1>2, <1>3, <1>5 DEF Tallied
<1> QED BY <1>7, <1>8, <1>9, <1>10

\* No value, no sample.
LEMMA TalliedOfNone ==
  ASSUME NEW s \in Seq(Nat)
  PROVE  Tallied(s, {}) = 0
<1>1. {j \in DOMAIN s : s[j] \in {}} = {}
  OBVIOUS
<1> QED BY <1>1, FS_EmptySet DEF Tallied

\* Every sample is some duration.
LEMMA TalliedOfAll ==
  ASSUME NEW s \in Seq(Nat)
  PROVE  Tallied(s, Nat) = Len(s)
<1>1. DOMAIN s = 1 .. Len(s) /\ Len(s) \in Nat /\ \A j \in 1 .. Len(s) : s[j] \in Nat
  BY LenProperties, ElementOfSeq
<1>2. {j \in DOMAIN s : s[j] \in Nat} = 1 .. Len(s)
  BY <1>1
<1>3. Cardinality(1 .. Len(s)) = Len(s)
  BY <1>1, IntervalSize
<1> QED BY <1>2, <1>3 DEF Tallied

\* One more sample.
LEMMA TalliedOfAppend ==
  ASSUME NEW s \in Seq(Nat), NEW ns \in Nat, NEW T
  PROVE  Tallied(Append(s, ns), T) = Tallied(s, T) + IF ns \in T THEN 1 ELSE 0
<1>1. PICK u : u = Append(s, ns)
  OBVIOUS
<1>2. PICK n : n = Len(s)
  OBVIOUS
<1>3. /\ n \in Nat /\ DOMAIN s = 1 .. n /\ DOMAIN u = 1 .. n + 1
      /\ u[n + 1] = ns /\ \A j \in 1 .. n : u[j] = s[j]
  BY <1>1, <1>2, LenProperties, AppendProperties
<1>4. PICK these : these = {j \in DOMAIN s : s[j] \in T}
  OBVIOUS
<1>5. {j \in DOMAIN u : u[j] \in T} = IF ns \in T THEN these \cup {n + 1} ELSE these
  <2>1. \A j : j \in 1 .. n + 1 <=> j \in 1 .. n \/ j = n + 1
    BY <1>3
  <2> QED BY <1>3, <1>4, <2>1
<1>6. IsFiniteSet(these) /\ n + 1 \notin these
  <2>1. n + 1 \notin 1 .. n
    BY <1>3
  <2>2. IsFiniteSet(these)
    BY <1>4, TalliedIsNat
  <2> QED BY <1>3, <1>4, <2>1, <2>2
<1>7. Cardinality(these \cup {n + 1}) = Cardinality(these) + 1 /\ Cardinality(these) \in Nat
  BY <1>6, FS_AddElement, FS_CardinalityType
<1>8. /\ Tallied(s, T) = Cardinality(these)
      /\ Tallied(u, T) = Cardinality(IF ns \in T THEN these \cup {n + 1} ELSE these)
  BY <1>4, <1>5 DEF Tallied
<1> QED BY <1>1, <1>7, <1>8

\* A sum of tallies of different values is the tally of them all.
LEMMA TalliedInParts ==
  ASSUME NEW s \in Seq(Nat), NEW n \in Nat, NEW part,
         \A i, j \in 1 .. n : i # j => \A x \in Nat : ~(x \in part[i] /\ x \in part[j])
  PROVE  TotalOf([i \in 1 .. n |-> Tallied(s, part[i])])
           = Tallied(s, UNION {part[i] : i \in 1 .. n})
<1> DEFINE w(m) == [i \in 1 .. m |-> Tallied(s, part[i])]
           all(m) == UNION {part[i] : i \in 1 .. m}
           Bad == {m \in 0 .. n : TotalOf(w(m)) # Tallied(s, all(m))}
<1>1. \A i : Tallied(s, part[i]) \in Nat /\ Tallied(s, part[i]) \in Int
  <2>1. Len(s) \in Nat
    BY LenProperties
  <2>2. \A T : Tallied(s, T) \in 0 .. Len(s)
    BY TalliedIsNat
  <2> QED BY <2>1, <2>2
<1>2. SUFFICES ASSUME Bad # {} PROVE FALSE
  <2>1. n \in 0 .. n
    OBVIOUS
  <2> QED BY <2>1
<1>3. PICK m \in Bad : \A k \in Bad : m <= k
  <2>1. Bad \subseteq Nat
    OBVIOUS
  <2> HIDE DEF Bad
  <2> QED BY <1>2, <2>1, LeastNatExists
<1>4. m \in 0 .. n /\ m \in Nat /\ TotalOf(w(m)) # Tallied(s, all(m))
  OBVIOUS
<1>5. \A k \in Nat : w(k) \in Seq(Int) /\ Len(w(k)) = k
  BY <1>1
<1>6. m # 0
  <2>1. TotalOf(w(0)) = 0
    <3>1. w(0) \in Seq(Int) /\ \A i \in 1 .. Len(w(0)) : w(0)[i] = 0
      BY <1>5
    <3> HIDE DEF w
    <3> QED BY <3>1, TotalOfZeros
  <2>2. all(0) = {}
    OBVIOUS
  <2>3. Tallied(s, all(0)) = 0
    BY <2>2, TalliedOfNone
  <2> HIDE DEF w, all
  <2> QED BY <1>4, <2>1, <2>3
<1>7. PICK k : k = m - 1
  OBVIOUS
<1>8. k \in 0 .. n /\ ~(m <= k) /\ k \in Nat /\ k + 1 = m
  BY <1>4, <1>6, <1>7
<1>9. TotalOf(w(k)) = Tallied(s, all(k))
  <2>1. k \notin Bad
    <3> HIDE DEF Bad
    <3> QED BY <1>3, <1>8
  <2> QED BY <1>8, <2>1
<1>10. w(m) = Append(w(k), Tallied(s, part[m]))
  <2>1. \A i \in 1 .. m : i # m => i \in 1 .. k
    BY <1>8
  <2>2. 1 .. m = 1 .. k + 1
    BY <1>8
  <2> QED BY <1>1, <1>5, <1>8, <2>1, <2>2
<1>11. TotalOf(w(m)) = TotalOf(w(k)) + Tallied(s, part[m])
  <2>1. w(k) \in Seq(Int) /\ Tallied(s, part[m]) \in Int
    BY <1>1, <1>5, <1>8
  <2> HIDE DEF w
  <2> QED BY <1>10, <2>1, TotalOfAppend
<1>12. all(m) = all(k) \cup part[m]
  <2>1. \A i : i \in 1 .. m <=> i \in 1 .. k \/ i = m
    BY <1>8
  <2> QED BY <2>1
<1>13. \A x \in Nat : ~(x \in all(k) /\ x \in part[m])
  <2>1. \A i \in 1 .. k : i \in 1 .. n /\ i # m /\ m \in 1 .. n
    BY <1>4, <1>8
  <2> QED BY <2>1
<1> HIDE DEF w, all
<1>14. Tallied(s, all(m)) = Tallied(s, all(k)) + Tallied(s, part[m])
  BY <1>12, <1>13, TalliedOfUnion
<1> QED BY <1>4, <1>9, <1>11, <1>14

-----------------------------------------------------------------------------
(* The histogram of some samples.                                          *)

\* The durations that the bucket of an octave takes.
InOctave(b) == {ns \in Nat : ~(ns < kLinearMax) /\ LogBucket(ns) = b}

\* The histogram is the one of the samples s: every bucket has the tally of the
\* durations it takes, and total, sum and maximum are those of the samples.
Holds(hist, s) ==
  /\ s \in Seq(Nat) /\ hist \in Histograms
  /\ hist.total = Len(s) /\ hist.sum = TotalOf(s)
  /\ hist.max \in {0} \cup Range(s) /\ \A x \in Range(s) : x <= hist.max
  /\ \A i \in Linear : hist.linear[i] = Tallied(s, {i})
  /\ \A b \in Log : hist.log[b] = Tallied(s, InOctave(b))

\* What a list of durations is.
LEMMA ListsOfNaturals ==
  ASSUME NEW s \in Seq(Nat)
  PROVE  /\ s \in Seq(Int) /\ Len(s) \in Nat /\ DOMAIN s = 1 .. Len(s)
         /\ \A j \in 1 .. Len(s) : s[j] \in Nat
         /\ \A x : x \in Range(s) <=> \E j \in 1 .. Len(s) : s[j] = x
         /\ Range(s) \subseteq Nat
<1>1. Len(s) \in Nat /\ DOMAIN s = 1 .. Len(s) /\ \A j \in 1 .. Len(s) : s[j] \in Nat
  BY LenProperties, ElementOfSeq
<1>2. s \in Seq(Int)
  OBVIOUS
<1>3. \A x : x \in Range(s) <=> \E j \in 1 .. Len(s) : s[j] = x
  BY <1>1 DEF Range
<1> QED BY <1>1, <1>2, <1>3

\* A new histogram holds no samples.
LEMMA NewHistogramHolds == Holds(NewHistogram, <<>>)
<1>1. <<>> \in Seq(Nat) /\ Len(<<>>) = 0 /\ DOMAIN <<>> = {}
  BY EmptySeq
<1>2. NewHistogram \in Histograms
  BY DEF NewHistogram, Histograms
<1>3. \A T : Tallied(<<>>, T) = 0
  <2>1. \A T : {j \in DOMAIN <<>> : <<>>[j] \in T} = {}
    BY <1>1
  <2> QED BY <2>1, FS_EmptySet DEF Tallied
<1>4. TotalOf(<<>>) = 0
  <2>1. PICK w : w = <<>>
    OBVIOUS
  <2>2. w \in Seq(Int) /\ Len(w) = 0
    BY <1>1, <2>1, ListsOfNaturals
  <2>3. \A i \in 1 .. Len(w) : w[i] = 0
    BY <2>2
  <2>4. TotalOf(w) = 0
    BY <2>2, <2>3, TotalOfZeros
  <2> QED BY <2>1, <2>4
<1>5. Range(<<>>) = {}
  BY <1>1 DEF Range
<1>6. /\ NewHistogram.total = 0 /\ NewHistogram.sum = 0 /\ NewHistogram.max = 0
      /\ \A i \in Linear : NewHistogram.linear[i] = 0
      /\ \A b \in Log : NewHistogram.log[b] = 0
  BY DEF NewHistogram
<1> QED BY <1>1, <1>2, <1>3, <1>4, <1>5, <1>6 DEF Holds

\* A recorded duration is one sample more, in one bucket.
LEMMA RecordHolds ==
  ASSUME NEW hist, NEW s, Holds(hist, s), NEW ns \in Nat
  PROVE  Holds(Record(hist, ns), Append(s, ns))
<1>1. PICK u : u = Append(s, ns)
  OBVIOUS
<1>2. PICK more : more = Record(hist, ns)
  OBVIOUS
<1>3. /\ s \in Seq(Nat) /\ hist \in Histograms
      /\ hist.total = Len(s) /\ hist.sum = TotalOf(s)
      /\ hist.max \in {0} \cup Range(s) /\ \A x \in Range(s) : x <= hist.max
      /\ \A i \in Linear : hist.linear[i] = Tallied(s, {i})
      /\ \A b \in Log : hist.log[b] = Tallied(s, InOctave(b))
  BY DEF Holds
<1>4. /\ hist.linear \in [Linear -> Nat] /\ hist.log \in [Log -> Nat]
      /\ hist.total \in Nat /\ hist.max \in Nat /\ hist.sum \in Nat
  BY <1>3 DEF Histograms
<1>5. /\ more.linear = IF ns < kLinearMax THEN [hist.linear EXCEPT ![ns] = @ + 1] ELSE hist.linear
      /\ more.log = IF ns < kLinearMax THEN hist.log
                    ELSE [hist.log EXCEPT ![LogBucket(ns)] = @ + 1]
      /\ more.total = hist.total + 1 /\ more.sum = hist.sum + ns
      /\ more.max = IF ns > hist.max THEN ns ELSE hist.max
  BY <1>2 DEF Record
<1>6. /\ u \in Seq(Nat) /\ Len(u) = Len(s) + 1
      /\ \A x : x \in Range(u) <=> x \in Range(s) \/ x = ns
  <2>1. /\ u \in Seq(Nat) /\ Len(u) = Len(s) + 1 /\ u[Len(s) + 1] = ns
        /\ \A j \in 1 .. Len(s) : u[j] = s[j]
    BY <1>1, <1>3, AppendProperties
  <2>2. /\ \A x : x \in Range(s) <=> \E j \in 1 .. Len(s) : s[j] = x
        /\ \A x : x \in Range(u) <=> \E j \in 1 .. Len(u) : u[j] = x
        /\ Len(s) \in Nat
    BY <1>3, <2>1, ListsOfNaturals
  <2>3. \A j : j \in 1 .. Len(u) <=> j \in 1 .. Len(s) \/ j = Len(s) + 1
    BY <2>1, <2>2
  <2> QED BY <2>1, <2>2, <2>3
<1>7. TotalOf(u) = TotalOf(s) + ns
  BY <1>1, <1>3, ListsOfNaturals, TotalOfAppend
<1>8. \A T : Tallied(u, T) = Tallied(s, T) + IF ns \in T THEN 1 ELSE 0
  BY <1>1, <1>3, TalliedOfAppend
<1>9. LogBucket(ns) \in Log
  BY LogBucketProperties
<1>10. /\ more.linear \in [Linear -> Nat]
       /\ \A i \in Linear : more.linear[i] = Tallied(u, {i})
  <2>1. ns < kLinearMax => ns \in Linear
    BY HistogramAssumption DEF Linear
  <2>2. \A i \in Linear : i \in Nat /\ i < kLinearMax
    BY HistogramAssumption DEF Linear
  <2>3. \A i \in Linear : more.linear[i] = hist.linear[i] + IF ns = i THEN 1 ELSE 0
    BY <1>4, <1>5, <2>1, <2>2
  <2>4. more.linear \in [Linear -> Nat]
    BY <1>4, <1>5, <2>1
  <2>5. \A i \in Linear : Tallied(u, {i}) = Tallied(s, {i}) + IF ns = i THEN 1 ELSE 0
    BY <1>8
  <2> QED BY <1>3, <2>3, <2>4, <2>5
<1>11. /\ more.log \in [Log -> Nat]
       /\ \A b \in Log : more.log[b] = Tallied(u, InOctave(b))
  <2>1. \A b \in Log : ns \in InOctave(b) <=> ~(ns < kLinearMax) /\ LogBucket(ns) = b
    BY DEF InOctave
  <2>2. \A b \in Log : more.log[b] = hist.log[b] + IF ns \in InOctave(b) THEN 1 ELSE 0
    <3>1. PICK c : c = LogBucket(ns)
      OBVIOUS
    <3> QED BY <1>4, <1>5, <1>9, <2>1, <3>1
  <2>3. more.log \in [Log -> Nat]
    <3>1. PICK c : c = LogBucket(ns)
      OBVIOUS
    <3> QED BY <1>4, <1>5, <1>9, <3>1
  <2>4. \A b \in Log : Tallied(u, InOctave(b)) = Tallied(s, InOctave(b)) + IF ns \in InOctave(b) THEN 1 ELSE 0
    BY <1>8
  <2> QED BY <1>3, <2>2, <2>3, <2>4
<1>12. more \in Histograms
  <2>1. more = [linear |-> more.linear, log |-> more.log, total |-> more.total,
                max |-> more.max, sum |-> more.sum]
    BY <1>2 DEF Record
  <2>2. more.total \in Nat /\ more.max \in Nat /\ more.sum \in Nat
    BY <1>4, <1>5
  <2> QED BY <1>10, <1>11, <2>1, <2>2 DEF Histograms
<1>13. more.max \in {0} \cup Range(u) /\ \A x \in Range(u) : x <= more.max
  <2>1. Range(s) \subseteq Nat
    BY <1>3, ListsOfNaturals
  <2>2. PICK m : m = hist.max
    OBVIOUS
  <2>3. /\ m \in Nat /\ m \in {0} \cup Range(s) /\ \A x \in Range(s) : x <= m
        /\ more.max = IF ns > m THEN ns ELSE m
    BY <1>3, <1>4, <1>5, <2>2
  <2>4. more.max \in {0} \cup Range(u)
    BY <1>6, <2>3
  <2>5. ASSUME NEW x \in Range(u) PROVE x <= more.max
    <3>1. CASE x = ns
      BY <2>3, <3>1
    <3>2. CASE x \in Range(s)
      <4>1. x <= m /\ x \in Nat
        BY <2>1, <2>3, <3>2
      <4> QED BY <2>3, <4>1
    <3> QED BY <1>6, <2>5, <3>1, <3>2
  <2> QED BY <2>4, <2>5
<1>14. more.total = Len(u) /\ more.sum = TotalOf(u)
  BY <1>3, <1>5, <1>6, <1>7
<1> QED BY <1>1, <1>2, <1>6, <1>10, <1>11, <1>12, <1>13, <1>14 DEF Holds

\* The running count over the one-nanosecond buckets.
LEMMA UptoLinear ==
  ASSUME NEW hist, NEW s, Holds(hist, s), NEW n \in 0 .. kLinearMax
  PROVE  Upto(hist.linear, n - 1) = Tallied(s, 0 .. n - 1)
<1>1. n \in Nat /\ (n - 1) + 1 = n /\ \A i \in 1 .. n : i - 1 \in Linear
  BY HistogramAssumption DEF Linear
<1>2. PICK part : part = [i \in 1 .. n |-> {i - 1}]
  OBVIOUS
<1>3. [i \in 1 .. (n - 1) + 1 |-> hist.linear[i - 1]] = [i \in 1 .. n |-> Tallied(s, part[i])]
  <2>1. \A i \in 1 .. n : hist.linear[i - 1] = Tallied(s, part[i])
    <3>1. \A i \in Linear : hist.linear[i] = Tallied(s, {i})
      BY DEF Holds
    <3> QED BY <1>1, <1>2, <3>1
  <2> QED BY <1>1, <2>1
<1>4. Upto(hist.linear, n - 1) = TotalOf([i \in 1 .. n |-> Tallied(s, part[i])])
  BY <1>3 DEF Upto
<1>5. \A i, j \in 1 .. n : i # j => \A x \in Nat : ~(x \in part[i] /\ x \in part[j])
  BY <1>2
<1>6. UNION {part[i] : i \in 1 .. n} = 0 .. n - 1
  <2>1. \A x : x \in 0 .. n - 1 => x + 1 \in 1 .. n /\ (x + 1) - 1 = x
    BY <1>1
  <2>2. \A i \in 1 .. n : i - 1 \in 0 .. n - 1
    BY <1>1
  <2>3. \A x : x \in UNION {part[i] : i \in 1 .. n} <=> \E i \in 1 .. n : x = i - 1
    BY <1>2
  <2>4. ASSUME NEW x, x \in 0 .. n - 1 PROVE \E i \in 1 .. n : x = i - 1
    <3>1. x + 1 \in 1 .. n /\ x = (x + 1) - 1
      BY <2>1, <2>4
    <3> QED BY <3>1
  <2> QED BY <2>2, <2>3, <2>4
<1>7. s \in Seq(Nat)
  BY DEF Holds
<1> QED BY <1>1, <1>4, <1>5, <1>6, <1>7, TalliedInParts

\* The durations that the octaves up to b take.
UptoOctave(b) == {ns \in Nat : ~(ns < kLinearMax) /\ LogBucket(ns) <= b}

\* The running count over the octaves.
LEMMA UptoLog ==
  ASSUME NEW hist, NEW s, Holds(hist, s), NEW b \in Log
  PROVE  Upto(hist.log, b) = Tallied(s, UptoOctave(b))
<1>1. b + 1 \in Nat /\ b \in Nat /\ \A i \in 1 .. b + 1 : i - 1 \in Log
  BY HistogramAssumption DEF Log
<1>2. PICK part : part = [i \in 1 .. b + 1 |-> InOctave(i - 1)]
  OBVIOUS
<1>3. [i \in 1 .. b + 1 |-> hist.log[i - 1]] = [i \in 1 .. b + 1 |-> Tallied(s, part[i])]
  <2>1. \A i \in 1 .. b + 1 : hist.log[i - 1] = Tallied(s, part[i])
    <3>1. \A i \in Log : hist.log[i] = Tallied(s, InOctave(i))
      BY DEF Holds
    <3> QED BY <1>1, <1>2, <3>1
  <2> QED BY <2>1
<1>4. Upto(hist.log, b) = TotalOf([i \in 1 .. b + 1 |-> Tallied(s, part[i])])
  BY <1>3 DEF Upto
<1>5. \A i, j \in 1 .. b + 1 : i # j => \A x \in Nat : ~(x \in part[i] /\ x \in part[j])
  BY <1>2 DEF InOctave
<1>6. UNION {part[i] : i \in 1 .. b + 1} = UptoOctave(b)
  <2>1. ASSUME NEW x \in Nat, LogBucket(x) <= b
        PROVE  LogBucket(x) + 1 \in 1 .. b + 1 /\ (LogBucket(x) + 1) - 1 = LogBucket(x)
    <3>1. LogBucket(x) \in Nat
      BY LogBucketProperties DEF Log
    <3> QED BY <1>1, <2>1, <3>1
  <2>2. \A i \in 1 .. b + 1 : i - 1 <= b
    BY <1>1
  <2>3. \A x : x \in UNION {part[i] : i \in 1 .. b + 1} <=> \E i \in 1 .. b + 1 : x \in InOctave(i - 1)
    BY <1>2
  <2>4. \A x, c : x \in InOctave(c) <=> x \in Nat /\ ~(x < kLinearMax) /\ LogBucket(x) = c
    BY DEF InOctave
  <2>5. \A x : x \in UptoOctave(b) <=> x \in Nat /\ ~(x < kLinearMax) /\ LogBucket(x) <= b
    BY DEF UptoOctave
  <2>6. ASSUME NEW x, x \in UptoOctave(b) PROVE \E i \in 1 .. b + 1 : x \in InOctave(i - 1)
    BY <2>1, <2>4, <2>5, <2>6
  <2>7. ASSUME NEW x, NEW i \in 1 .. b + 1, x \in InOctave(i - 1) PROVE x \in UptoOctave(b)
    BY <2>2, <2>4, <2>5, <2>7
  <2> QED BY <2>3, <2>6, <2>7
<1>7. s \in Seq(Nat)
  BY DEF Holds
<1> QED BY <1>1, <1>4, <1>5, <1>6, <1>7, TalliedInParts

\* The rank of a percentile is one of the ranks there are.
LEMMA RankFits ==
  ASSUME NEW n \in Nat \ {0}, NEW num \in Nat, NEW den \in Nat \ {0}, num <= den
  PROVE  /\ (n * num) \div den \in 0 .. n
         /\ Max({1, (n * num) \div den}) = IF (n * num) \div den = 0 THEN 1 ELSE (n * num) \div den
<1>1. PICK a : a = n * num /\ a \in Nat
  <2>1. n * num \in Nat
    OBVIOUS
  <2> QED BY <2>1
<1>2. PICK q : q = a \div den /\ q \in Nat
  <2>1. a \div den \in Nat
    BY <1>1
  <2> QED BY <2>1
<1>3. den * q <= a
  BY <1>1, <1>2
<1>4. a <= n * den
  BY <1>1
<1>5. q <= n
  <2>1. SUFFICES ASSUME q >= n + 1 PROVE FALSE
    BY <1>2
  <2>2. den * q >= den * (n + 1)
    BY <1>2, <2>1
  <2>3. den * (n + 1) = n * den + den
    OBVIOUS
  <2>4. PICK x, y : x = den * q /\ y = n * den /\ x \in Nat /\ y \in Nat
    <3>1. den * q \in Nat /\ n * den \in Nat
      BY <1>2
    <3> QED BY <3>1
  <2> QED BY <1>1, <1>3, <1>4, <2>2, <2>3, <2>4
<1>6. q \in 0 .. n
  BY <1>2, <1>5
<1>7. Max({1, q}) \in {1, q} /\ \A y \in {1, q} : y <= Max({1, q})
  <2>1. PICK T : T = {1, q}
    OBVIOUS
  <2>2. T \subseteq 0 .. n /\ T # {}
    BY <1>6, <2>1
  <2>3. Max(T) \in T /\ \A y \in T : y <= Max(T)
    BY <2>2, MinMaxProperties
  <2> QED BY <2>1, <2>3
<1>8. Max({1, q}) = IF q = 0 THEN 1 ELSE q
  BY <1>2, <1>7
<1> QED BY <1>1, <1>2, <1>6, <1>8

\* Of the durations, the one of rank k is the least that k samples do not exceed.
LEMMA LeastOfRank ==
  ASSUME NEW s \in Seq(Nat), NEW k \in 1 .. Len(s)
  PROVE  /\ OfRank(s, k) \in Nat
         /\ Tallied(s, 0 .. OfRank(s, k) - 1) < k
         /\ Tallied(s, 0 .. OfRank(s, k)) >= k
<1> DEFINE Reached == {v \in Nat : Tallied(s, 0 .. v) >= k}
           Is(ns) == /\ Cardinality({i \in DOMAIN s : s[i] < ns}) < k
                     /\ Cardinality({i \in DOMAIN s : s[i] <= ns}) >= k
<1>1. /\ Len(s) \in Nat /\ DOMAIN s = 1 .. Len(s) /\ \A j \in 1 .. Len(s) : s[j] \in Nat
      /\ \A x : x \in Range(s) <=> \E j \in 1 .. Len(s) : s[j] = x
      /\ Range(s) \subseteq Nat /\ k \in Nat /\ k >= 1 /\ k <= Len(s)
  BY ListsOfNaturals
<1>2. \A T : Tallied(s, T) \in Nat
  <2>1. \A T : Tallied(s, T) \in 0 .. Len(s)
    BY TalliedIsNat
  <2> QED BY <1>1, <2>1
<1>3. ASSUME NEW v \in Nat PROVE Is(v) <=> Tallied(s, 0 .. v - 1) < k /\ Tallied(s, 0 .. v) >= k
  <2>1. \A j \in DOMAIN s : (s[j] < v <=> s[j] \in 0 .. v - 1) /\ (s[j] <= v <=> s[j] \in 0 .. v)
    BY <1>1
  <2>2. /\ {j \in DOMAIN s : s[j] < v} = {j \in DOMAIN s : s[j] \in 0 .. v - 1}
        /\ {j \in DOMAIN s : s[j] <= v} = {j \in DOMAIN s : s[j] \in 0 .. v}
    BY <2>1
  <2> QED BY <2>2 DEF Tallied
<1>4. Reached # {}
  <2> DEFINE Upper == {m \in Nat : \A j \in 1 .. Len(s) : s[j] <= m}
  <2>1. PICK m \in Nat : m = TotalOf(s) /\ \A j \in 1 .. Len(s) : s[j] <= m
    <3>1. s \in Seq(Int)
      BY ListsOfNaturals
    <3> QED BY <1>1, <3>1, TotalOfNaturals
  <2>2. {j \in DOMAIN s : s[j] \in 0 .. m} = {j \in DOMAIN s : s[j] \in Nat}
    BY <1>1, <2>1
  <2>3. Tallied(s, 0 .. m) = Len(s)
    BY <2>2, TalliedOfAll DEF Tallied
  <2> QED BY <1>1, <2>1, <2>3
<1>5. PICK v \in Reached : \A u \in Reached : v <= u
  <2>1. Reached \subseteq Nat
    OBVIOUS
  <2> HIDE DEF Reached
  <2> QED BY <1>4, <2>1, LeastNatExists
<1>6. v \in Nat /\ Tallied(s, 0 .. v) >= k /\ \A u \in Nat : Tallied(s, 0 .. u) >= k => v <= u
  BY <1>5
<1>7. Tallied(s, 0 .. v - 1) < k
  <2>1. CASE v = 0
    <3>1. 0 .. v - 1 = {}
      BY <2>1
    <3> QED BY <1>1, <3>1, TalliedOfNone
  <2>2. CASE v # 0
    <3>1. v - 1 \in Nat /\ ~(v <= v - 1)
      BY <1>6, <2>2
    <3>2. ~(Tallied(s, 0 .. v - 1) >= k)
      BY <1>6, <3>1
    <3> QED BY <1>1, <1>2, <3>2
  <2> QED BY <2>1, <2>2
<1>8. v \in Range(s)
  <2>1. SUFFICES ASSUME v \notin Range(s) PROVE FALSE
    OBVIOUS
  <2>2. \A j \in DOMAIN s : s[j] # v
    BY <1>1, <2>1
  <2>3. \A j \in DOMAIN s : s[j] \in 0 .. v <=> s[j] \in 0 .. v - 1
    BY <1>1, <1>6, <2>2
  <2>4. {j \in DOMAIN s : s[j] \in 0 .. v} = {j \in DOMAIN s : s[j] \in 0 .. v - 1}
    BY <2>3
  <2>5. Tallied(s, 0 .. v) = Tallied(s, 0 .. v - 1)
    BY <2>4 DEF Tallied
  <2> QED BY <1>1, <1>2, <1>6, <1>7, <2>5
<1>9. OfRank(s, k) = CHOOSE ns \in Range(s) : Is(ns)
  BY DEF OfRank
<1>10. OfRank(s, k) \in Range(s) /\ Is(OfRank(s, k))
  <2>1. Is(v)
    BY <1>3, <1>6, <1>7
  <2> HIDE DEF Is
  <2> QED BY <1>8, <1>9, <2>1
<1> HIDE DEF Is
<1> QED BY <1>1, <1>3, <1>10

\* The summary of the histogram is that of the samples.
LEMMA PercentileOfRank ==
  ASSUME NEW hist, NEW s, Holds(hist, s), NEW p \in Nat \X (Nat \ {0}), p[1] <= p[2]
  PROVE  Percentile(hist, p) =
           IF s = <<>> THEN 0 ELSE Edge(OfRank(s, Max({1, (Len(s) * p[1]) \div p[2]})))
<1>1. PICK n : n = Len(s) /\ n \in Nat /\ hist.total = n /\ s \in Seq(Nat)
  BY ListsOfNaturals DEF Holds
<1>2. PICK product : product = (n * p[1]) \div p[2]
  OBVIOUS
<1>3. PICK k : k = IF product = 0 THEN 1 ELSE product
  OBVIOUS
<1> DEFINE linear == Reaching(hist.linear, 0, k)
           before == Upto(hist.linear, kLinearMax - 1)
           log    == Reaching(hist.log, before, k)
<1>4. Percentile(hist, p) = IF n = 0 THEN 0
                            ELSE IF linear # {} THEN Min(linear)
                            ELSE IF log # {} THEN Octave[Min(log)]
                            ELSE hist.max
  BY <1>1, <1>2, <1>3 DEF Percentile
<1>5. CASE s = <<>>
  <2>1. n = 0
    BY <1>1, <1>5, EmptySeq
  <2> QED BY <1>4, <1>5, <2>1
<1>6. CASE s # <<>>
  <2>1. n # 0
    BY <1>1, <1>6, EmptySeq
  <2>2. product \in 0 .. n /\ Max({1, product}) = k
    <3>1. PICK num, den : num = p[1] /\ den = p[2] /\ num \in Nat /\ den \in Nat \ {0} /\ num <= den
      OBVIOUS
    <3>2. n \in Nat \ {0}
      BY <1>1, <2>1
    <3>3. /\ (n * num) \div den \in 0 .. n
          /\ Max({1, (n * num) \div den}) = IF (n * num) \div den = 0 THEN 1 ELSE (n * num) \div den
      BY <3>1, <3>2, RankFits
    <3> QED BY <1>2, <1>3, <3>1, <3>3
  <2>3. k \in 1 .. n /\ k \in Nat
    BY <1>1, <1>3, <2>1, <2>2
  <2>4. PICK v : v = OfRank(s, k)
    OBVIOUS
  <2>5. v \in Nat /\ Tallied(s, 0 .. v - 1) < k /\ Tallied(s, 0 .. v) >= k
    BY <1>1, <2>3, <2>4, LeastOfRank
  <2>6. \A T : Tallied(s, T) \in Nat
    <3>1. \A T : Tallied(s, T) \in 0 .. Len(s)
      BY <1>1, TalliedIsNat
    <3> QED BY <1>1, <3>1
  <2>7. ASSUME NEW T, T \subseteq 0 .. v - 1 PROVE ~(Tallied(s, T) >= k)
    <3>1. Tallied(s, T) <= Tallied(s, 0 .. v - 1)
      BY <1>1, <2>7, TalliedGrows
    <3>2. Tallied(s, T) \in Nat /\ Tallied(s, 0 .. v - 1) \in Nat
      BY <2>6
    <3> QED BY <2>3, <2>5, <3>1, <3>2
  <2>8. ASSUME NEW T, 0 .. v \subseteq T PROVE Tallied(s, T) >= k
    <3>1. Tallied(s, 0 .. v) <= Tallied(s, T)
      BY <1>1, <2>8, TalliedGrows
    <3>2. Tallied(s, T) \in Nat /\ Tallied(s, 0 .. v) \in Nat
      BY <2>6
    <3> QED BY <2>3, <2>5, <3>1, <3>2
  <2>9. DOMAIN hist.linear = Linear /\ DOMAIN hist.log = Log /\ kLinearMax \in Nat
    BY HistogramAssumption DEF Holds, Histograms
  <2>10. \A i : i \in linear <=> i \in Linear /\ Tallied(s, 0 .. i) >= k
    <3>1. ASSUME NEW i \in Linear PROVE Upto(hist.linear, i) = Tallied(s, 0 .. i)
      <4>1. i + 1 \in 0 .. kLinearMax /\ (i + 1) - 1 = i
        BY <2>9 DEF Linear
      <4> QED BY <4>1, UptoLinear
    <3>2. \A i \in Linear : 0 + Upto(hist.linear, i) = Tallied(s, 0 .. i)
      BY <2>6, <3>1
    <3> QED BY <2>9, <3>2 DEF Reaching
  <2>11. CASE v < kLinearMax
    <3>1. v \in linear
      BY <2>5, <2>9, <2>10, <2>11 DEF Linear
    <3>2. \A i \in linear : ~(i < v)
      <4> SUFFICES ASSUME NEW i \in linear, i < v PROVE FALSE
        OBVIOUS
      <4>1. i \in Nat /\ Tallied(s, 0 .. i) >= k
        BY <2>9, <2>10 DEF Linear
      <4>2. 0 .. i \subseteq 0 .. v - 1
        BY <2>5, <4>1
      <4> QED BY <2>7, <4>1, <4>2
    <3>3. Min(linear) = v
      <4>1. linear \subseteq 0 .. kLinearMax
        BY <2>9, <2>10 DEF Linear
      <4> HIDE DEF linear
      <4>2. PICK m : m = Min(linear) /\ m \in linear /\ \A y \in linear : m <= y
        BY <2>9, <3>1, <4>1, MinMaxProperties
      <4>3. m \in Nat
        BY <2>9, <4>1, <4>2
      <4> QED BY <2>5, <3>1, <3>2, <4>2, <4>3
    <3>4. Edge(v) = v
      BY <2>5, <2>11, EdgeOfBucket
    <3> HIDE DEF linear
    <3> QED BY <1>1, <1>2, <1>4, <1>6, <2>1, <2>2, <2>4, <3>1, <3>3, <3>4
  <2>12. CASE ~(v < kLinearMax)
    <3>1. linear = {}
      <4> SUFFICES ASSUME NEW i, i \in linear PROVE FALSE
        OBVIOUS
      <4>1. i \in Nat /\ i < kLinearMax /\ Tallied(s, 0 .. i) >= k
        BY <2>9, <2>10 DEF Linear
      <4>2. 0 .. i \subseteq 0 .. v - 1
        BY <2>5, <2>9, <2>12, <4>1
      <4> QED BY <2>7, <4>1, <4>2
    <3>2. \A b : b \in log <=> b \in Log /\ Tallied(s, (0 .. kLinearMax - 1) \cup UptoOctave(b)) >= k
      <4>1. before = Tallied(s, 0 .. kLinearMax - 1)
        <5>1. kLinearMax \in 0 .. kLinearMax
          BY <2>9
        <5> QED BY <5>1, UptoLinear
      <4>2. ASSUME NEW b \in Log
            PROVE  before + Upto(hist.log, b) = Tallied(s, (0 .. kLinearMax - 1) \cup UptoOctave(b))
        <5>1. \A x \in Nat : ~(x \in 0 .. kLinearMax - 1 /\ x \in UptoOctave(b))
          BY <2>9 DEF UptoOctave
        <5>2. Upto(hist.log, b) = Tallied(s, UptoOctave(b))
          BY UptoLog
        <5>3. PICK T, U : T = 0 .. kLinearMax - 1 /\ U = UptoOctave(b)
          OBVIOUS
        <5>4. Tallied(s, T \cup U) = Tallied(s, T) + Tallied(s, U)
          BY <1>1, <5>1, <5>3, TalliedOfUnion
        <5> HIDE DEF before
        <5> QED BY <4>1, <5>2, <5>3, <5>4
      <4> HIDE DEF before
      <4> QED BY <2>9, <4>2 DEF Reaching
    <3>3. PICK b : b = LogBucket(v) /\ b \in Log
      BY <2>5, LogBucketProperties
    <3>4. b \in log
      <4>1. 0 .. v \subseteq (0 .. kLinearMax - 1) \cup UptoOctave(b)
        <5> SUFFICES ASSUME NEW x \in 0 .. v, ~(x < kLinearMax) PROVE x \in UptoOctave(b)
          BY <2>9
        <5>1. x \in Nat /\ x <= v
          BY <2>5
        <5>2. LogBucket(x) <= b
          BY <2>5, <3>3, <5>1, LogBucketsGrow
        <5> QED BY <5>1, <5>2 DEF UptoOctave
      <4> QED BY <2>8, <3>2, <3>3, <4>1
    <3>5. \A c \in log : ~(c < b)
      <4> SUFFICES ASSUME NEW c \in log, c < b PROVE FALSE
        OBVIOUS
      <4>1. c \in Log /\ Tallied(s, (0 .. kLinearMax - 1) \cup UptoOctave(c)) >= k
        BY <3>2
      <4>2. (0 .. kLinearMax - 1) \cup UptoOctave(c) \subseteq 0 .. v - 1
        <5>1. ASSUME NEW x \in 0 .. kLinearMax - 1 PROVE x \in 0 .. v - 1
          BY <2>5, <2>9, <2>12
        <5>2. ASSUME NEW x \in UptoOctave(c) PROVE x \in 0 .. v - 1
          <6>1. x \in Nat /\ LogBucket(x) <= c
            BY DEF UptoOctave
          <6>2. LogBucket(x) \in Nat /\ c \in Nat /\ b \in Nat
            BY <3>3, <4>1, <6>1, LogBucketProperties DEF Log
          <6>3. ~(b <= LogBucket(x))
            BY <6>1, <6>2
          <6>4. ~(v <= x)
            BY <2>5, <3>3, <6>1, <6>3, LogBucketsGrow
          <6> QED BY <2>5, <6>1, <6>4
        <5> QED BY <5>1, <5>2
      <4> QED BY <2>7, <4>1, <4>2
    <3>6. Min(log) = b
      <4> HIDE DEF log
      <4>1. log \subseteq 0 .. kLogBuckets /\ kLogBuckets \in Nat
        <5>1. log \subseteq Log
          BY <3>2
        <5> QED BY <5>1, HistogramAssumption DEF Log
      <4>2. PICK m : m = Min(log) /\ m \in log /\ \A y \in log : m <= y
        BY <3>4, <4>1, MinMaxProperties
      <4>3. m \in Nat /\ b \in Nat
        BY <3>4, <4>1, <4>2
      <4> QED BY <3>4, <3>5, <4>2, <4>3
    <3>7. Edge(v) = Octave[b]
      BY <2>5, <2>12, <3>3, EdgeOfBucket
    <3> HIDE DEF linear, log
    <3> QED BY <1>1, <1>2, <1>4, <1>6, <2>1, <2>2, <2>4, <3>1, <3>4, <3>6, <3>7
  <2> QED BY <2>11, <2>12
<1> QED BY <1>5, <1>6

-----------------------------------------------------------------------------
(* The rows of the latency file.                                           *)

\* The rows of a latency file.
Rows == Seq(Nat \X Nat)

\* What the rows say of a value.
CountsIn(rows, value) == [r \in DOMAIN rows |-> IF rows[r][1] = value THEN rows[r][2] ELSE 0]
CountIn(rows, value)  == TotalOf(CountsIn(rows, value))

\* One number per row.
LEMMA CountsOfRows ==
  ASSUME NEW rows \in Rows, NEW value
  PROVE  /\ CountsIn(rows, value) \in Seq(Int)
         /\ Len(CountsIn(rows, value)) = Len(rows) /\ Len(rows) \in Nat
         /\ \A r \in 1 .. Len(rows) :
              CountsIn(rows, value)[r] = IF rows[r][1] = value THEN rows[r][2] ELSE 0
<1>1. DOMAIN rows = 1 .. Len(rows) /\ Len(rows) \in Nat
  BY LenProperties DEF Rows
<1>2. \A r \in 1 .. Len(rows) : rows[r] \in Nat \X Nat
  BY <1>1, ElementOfSeq DEF Rows
<1>3. \A r \in 1 .. Len(rows) : rows[r][2] \in Int
  BY <1>2
<1> QED BY <1>1, <1>3 DEF CountsIn

\* Rows after rows.
LEMMA CountInConcat ==
  ASSUME NEW these \in Rows, NEW those \in Rows, NEW value
  PROVE  /\ these \o those \in Rows
         /\ CountIn(these \o those, value) = CountIn(these, value) + CountIn(those, value)
<1> DEFINE w(rows) == CountsIn(rows, value)
<1>1. PICK n, m : n = Len(these) /\ m = Len(those) /\ n \in Nat /\ m \in Nat
  BY LenProperties DEF Rows
<1>2. PICK both : both = these \o those
  OBVIOUS
<1>3. /\ both \in Rows /\ Len(both) = n + m
      /\ \A r \in 1 .. n + m : both[r] = IF r <= n THEN these[r] ELSE those[r - n]
  BY <1>1, <1>2, ConcatProperties DEF Rows
<1>4. /\ w(these) \in Seq(Int) /\ Len(w(these)) = n
      /\ \A r \in 1 .. n : w(these)[r] = IF these[r][1] = value THEN these[r][2] ELSE 0
  BY <1>1, CountsOfRows
<1>5. /\ w(those) \in Seq(Int) /\ Len(w(those)) = m
      /\ \A r \in 1 .. m : w(those)[r] = IF those[r][1] = value THEN those[r][2] ELSE 0
  BY <1>1, CountsOfRows
<1>6. /\ w(both) \in Seq(Int) /\ Len(w(both)) = n + m
      /\ \A r \in 1 .. n + m : w(both)[r] = IF both[r][1] = value THEN both[r][2] ELSE 0
  BY <1>3, CountsOfRows
<1>7. /\ CountIn(these, value) = TotalOf(w(these)) /\ CountIn(those, value) = TotalOf(w(those))
      /\ CountIn(both, value) = TotalOf(w(both))
  BY DEF CountIn
<1> HIDE DEF w
<1>8. w(both) = w(these) \o w(those)
  <2>1. PICK u : u = w(these) \o w(those)
    OBVIOUS
  <2>2. /\ u \in Seq(Int) /\ Len(u) = n + m
        /\ \A r \in 1 .. n + m : u[r] = IF r <= n THEN w(these)[r] ELSE w(those)[r - n]
    BY <1>4, <1>5, <2>1, ConcatProperties
  <2>3. \A r \in 1 .. n + m : w(both)[r] = u[r]
    <3> TAKE r \in 1 .. n + m
    <3>1. CASE r <= n
      <4>1. r \in 1 .. n
        BY <1>1, <3>1
      <4> QED BY <1>3, <1>4, <1>6, <2>2, <3>1, <4>1
    <3>2. CASE ~(r <= n)
      <4>1. r - n \in 1 .. m
        BY <1>1, <3>2
      <4> QED BY <1>3, <1>5, <1>6, <2>2, <3>2, <4>1
    <3> QED BY <3>1, <3>2
  <2>4. PICK wb : wb = w(both)
    OBVIOUS
  <2>5. wb = u
    BY <1>6, <2>2, <2>3, <2>4, SeqEqual
  <2> QED BY <2>1, <2>4, <2>5
<1>9. TotalOf(w(these) \o w(those)) = TotalOf(w(these)) + TotalOf(w(those))
  BY <1>4, <1>5, TotalOfConcat
<1> QED BY <1>2, <1>3, <1>7, <1>8, <1>9

\* A bucket has a row, unless it is empty.
LEMMA CountInRow ==
  ASSUME NEW edge \in Nat, NEW count0 \in Nat, NEW value
  PROVE  /\ Row(edge, count0) \in Rows
         /\ CountIn(Row(edge, count0), value) = IF edge = value THEN count0 ELSE 0
<1>1. PICK row : row = Row(edge, count0)
  OBVIOUS
<1>2. CASE count0 = 0
  <2>1. row \in Rows /\ Len(row) = 0
    BY <1>1, <1>2, EmptySeq DEF Row, Rows
  <2>2. PICK w : w = CountsIn(row, value)
    OBVIOUS
  <2>3. w \in Seq(Int) /\ \A r \in 1 .. Len(w) : w[r] = 0
    BY <2>1, <2>2, CountsOfRows
  <2>4. TotalOf(w) = 0
    BY <2>3, TotalOfZeros
  <2> QED BY <1>1, <1>2, <2>1, <2>2, <2>4 DEF CountIn
<1>3. CASE count0 # 0
  <2>1. row = << <<edge, count0>> >>
    BY <1>1, <1>3 DEF Row
  <2>2. row \in Rows /\ Len(row) = 1 /\ row[1][1] = edge /\ row[1][2] = count0
    BY <2>1 DEF Rows
  <2>3. PICK w : w = CountsIn(row, value)
    OBVIOUS
  <2>4. w \in Seq(Int) /\ Len(w) = 1 /\ w[1] = IF edge = value THEN count0 ELSE 0
    BY <2>2, <2>3, CountsOfRows
  <2>5. PICK x : x = w[1] /\ x \in Int
    BY <2>4
  <2>6. PICK f : PartialSums(w, Len(w), f) /\ TotalOf(w) = f[Len(w)]
    BY <2>4, TotalPartials
  <2>7. TotalOf(w) = x
    BY <2>4, <2>5, <2>6 DEF PartialSums
  <2> QED BY <1>1, <2>2, <2>3, <2>4, <2>5, <2>7 DEF CountIn
<1> QED BY <1>2, <1>3

\* The rows of n buckets, and what each says of a value.
BucketRows(n, edge, holds) == FlattenSeq([i \in 1 .. n |-> Row(edge[i], holds[i])])
BucketCounts(n, edge, holds, value) ==
  [i \in 1 .. n |-> IF edge[i] = value THEN holds[i] ELSE 0]

\* What the rows of a list of buckets say of a value.
LEMMA CountInBuckets ==
  ASSUME NEW n \in Nat, NEW edge, NEW holds, NEW value,
         \A i \in 1 .. n : edge[i] \in Nat /\ holds[i] \in Nat
  PROVE  /\ BucketRows(n, edge, holds) \in Rows
         /\ CountIn(BucketRows(n, edge, holds), value) = TotalOf(BucketCounts(n, edge, holds, value))
<1> DEFINE ss(m) == [i \in 1 .. m |-> Row(edge[i], holds[i])]
           w(m) == [i \in 1 .. m |-> IF edge[i] = value THEN holds[i] ELSE 0]
           Good(m) == /\ FlattenSeq(ss(m)) \in Rows
                      /\ CountIn(FlattenSeq(ss(m)), value) = TotalOf(w(m))
           Bad == {m \in 0 .. n : ~Good(m)}
<1>1. \A i \in 1 .. n : /\ Row(edge[i], holds[i]) \in Rows
                        /\ CountIn(Row(edge[i], holds[i]), value) = IF edge[i] = value THEN holds[i] ELSE 0
  BY CountInRow
<1>2. SUFFICES ASSUME Bad # {} PROVE FALSE
  <2>1. n \in 0 .. n
    OBVIOUS
  <2>2. Good(n)
    <3> HIDE DEF Good
    <3> QED BY <2>1
  <2> QED BY <2>2 DEF BucketRows, BucketCounts
<1>3. PICK m \in Bad : \A k \in Bad : m <= k
  <2>1. Bad \subseteq Nat
    OBVIOUS
  <2> HIDE DEF Bad
  <2> QED BY <1>2, <2>1, LeastNatExists
<1>4. m \in 0 .. n /\ m \in Nat /\ ~Good(m)
  <2> HIDE DEF Good
  <2> QED BY <1>3
<1>5. \A k \in 0 .. n : /\ ss(k) \in Seq(Rows) /\ Len(ss(k)) = k
                        /\ w(k) \in Seq(Int) /\ Len(w(k)) = k
  <2> TAKE k \in 0 .. n
  <2>1. k \in Nat /\ \A i \in 1 .. k : i \in 1 .. n
    OBVIOUS
  <2>2. \A i \in 1 .. k : Row(edge[i], holds[i]) \in Rows /\ (IF edge[i] = value THEN holds[i] ELSE 0) \in Int
    BY <1>1, <2>1
  <2> QED BY <2>1, <2>2
<1>6. m # 0
  <2>1. Good(0)
    <3>1. FlattenSeq(ss(0)) = <<>>
      <4>1. ss(0) = <<>>
        BY <1>5
      <4> QED BY <4>1 DEF FlattenSeq
    <3>2. PICK none : none = <<>> /\ none \in Rows /\ Len(none) = 0
      BY EmptySeq DEF Rows
    <3>3. PICK v : v = CountsIn(none, value)
      OBVIOUS
    <3>4. v \in Seq(Int) /\ \A r \in 1 .. Len(v) : v[r] = 0
      BY <3>2, <3>3, CountsOfRows
    <3>5. TotalOf(v) = 0
      BY <3>4, TotalOfZeros
    <3>6. TotalOf(w(0)) = 0
      <4>1. 0 \in 0 .. n
        OBVIOUS
      <4>2. w(0) \in Seq(Int) /\ Len(w(0)) = 0
        BY <1>5, <4>1
      <4>3. \A i \in 1 .. Len(w(0)) : w(0)[i] = 0
        BY <4>2
      <4> HIDE DEF w
      <4> QED BY <4>2, <4>3, TotalOfZeros
    <3> QED BY <3>1, <3>2, <3>3, <3>5, <3>6 DEF CountIn
  <2> HIDE DEF Good
  <2> QED BY <1>4, <2>1
<1>7. PICK k : k = m - 1
  OBVIOUS
<1>8. /\ k \in 0 .. n /\ ~(m <= k) /\ k \in Nat /\ k + 1 = m /\ m \in 1 .. n
      /\ \A i \in 1 .. m : i # m => i \in 1 .. k
  BY <1>4, <1>6, <1>7
<1>9. Good(k)
  <2> HIDE DEF Good
  <2> QED BY <1>3, <1>8
<1>10. PICK row, x : /\ row = Row(edge[m], holds[m]) /\ row \in Rows
                     /\ x = (IF edge[m] = value THEN holds[m] ELSE 0) /\ x \in Int
                     /\ CountIn(row, value) = x
  BY <1>1, <1>8
<1>11. ss(m) = Append(ss(k), row) /\ w(m) = Append(w(k), x)
  <2>1. 1 .. m = 1 .. k + 1
    BY <1>8
  <2>2. Len(ss(k)) = k /\ Len(w(k)) = k
    BY <1>5, <1>8
  <2>3. ss(m) = Append(ss(k), row)
    BY <1>8, <1>10, <2>1, <2>2
  <2>4. w(m) = Append(w(k), x)
    BY <1>8, <1>10, <2>1, <2>2
  <2> QED BY <2>3, <2>4
<1>12. ss(k) \in Seq(Rows) /\ w(k) \in Seq(Int)
  BY <1>5, <1>8
<1>13. FlattenSeq(ss(m)) = FlattenSeq(ss(k)) \o row
  <2>1. ss(k) \in Seq(Seq(Nat \X Nat)) /\ row \in Seq(Nat \X Nat)
    BY <1>10, <1>12 DEF Rows
  <2> HIDE DEF ss
  <2> QED BY <1>11, <2>1, FlattenAppend
<1>14. TotalOf(w(m)) = TotalOf(w(k)) + x
  <2> HIDE DEF w
  <2> QED BY <1>10, <1>11, <1>12, TotalOfAppend
<1>15. PICK rows : rows = FlattenSeq(ss(k)) /\ rows \in Rows /\ CountIn(rows, value) = TotalOf(w(k))
  BY <1>9
<1>16. /\ rows \o row \in Rows
       /\ CountIn(rows \o row, value) = CountIn(rows, value) + CountIn(row, value)
  BY <1>10, <1>15, CountInConcat
<1>17. Good(m)
  BY <1>10, <1>13, <1>14, <1>15, <1>16
<1> HIDE DEF Good
<1> QED BY <1>4, <1>17

\* The file of a histogram says of every value how many samples are reported as it.
LEMMA RowsTabulate ==
  ASSUME NEW hist, NEW s, Holds(hist, s), NEW value
  PROVE  CountIn(CsvRows(hist), value) = Cardinality({i \in DOMAIN s : Edge(s[i]) = value})
<1>1. /\ s \in Seq(Nat) /\ hist.linear \in [Linear -> Nat] /\ hist.log \in [Log -> Nat]
      /\ \A i \in Linear : hist.linear[i] = Tallied(s, {i})
      /\ \A b \in Log : hist.log[b] = Tallied(s, InOctave(b))
  BY DEF Holds, Histograms
<1>2. /\ kLinearMax \in Nat /\ kLogBuckets \in Nat
      /\ \A i \in 1 .. kLinearMax : i - 1 \in Linear /\ i - 1 \in Nat
      /\ \A b \in 1 .. kLogBuckets : b - 1 \in Log
  BY HistogramAssumption DEF Linear, Log
<1>3. PICK low : /\ low = {ns \in Nat : ns < kLinearMax /\ ns = value}
                 /\ low \subseteq Nat
  OBVIOUS
<1>4. PICK high : /\ high = {ns \in Nat : ~(ns < kLinearMax) /\ Octave[LogBucket(ns)] = value}
                  /\ high \subseteq Nat
  OBVIOUS
\* The buckets below kLinearMax.
<1>5. PICK these : /\ these = FlattenSeq([i \in 1 .. kLinearMax |-> Row(i - 1, hist.linear[i - 1])])
                   /\ these \in Rows /\ CountIn(these, value) = Tallied(s, low)
  <2>1. PICK edge, holds, part :
          /\ edge = [i \in 1 .. kLinearMax |-> i - 1]
          /\ holds = [i \in 1 .. kLinearMax |-> hist.linear[i - 1]]
          /\ part = [i \in 1 .. kLinearMax |-> IF i - 1 = value THEN {i - 1} ELSE {}]
    OBVIOUS
  <2>2. \A i \in 1 .. kLinearMax : edge[i] \in Nat /\ holds[i] \in Nat
    BY <1>1, <1>2, <2>1
  <2>3. [i \in 1 .. kLinearMax |-> Row(edge[i], holds[i])]
          = [i \in 1 .. kLinearMax |-> Row(i - 1, hist.linear[i - 1])]
    BY <2>1
  <2>4. \A i \in 1 .. kLinearMax : (IF edge[i] = value THEN holds[i] ELSE 0) = Tallied(s, part[i])
    BY <1>1, <1>2, <2>1, TalliedOfNone
  <2>5. [i \in 1 .. kLinearMax |-> IF edge[i] = value THEN holds[i] ELSE 0]
          = [i \in 1 .. kLinearMax |-> Tallied(s, part[i])]
    BY <2>4
  <2>6. \A i, j \in 1 .. kLinearMax : i # j => \A x \in Nat : ~(x \in part[i] /\ x \in part[j])
    BY <2>1
  <2>7. \A x \in Nat : x \in UNION {part[i] : i \in 1 .. kLinearMax} <=> x \in low
    <3>1. \A x : x \in UNION {part[i] : i \in 1 .. kLinearMax}
                   <=> \E i \in 1 .. kLinearMax : x = i - 1 /\ i - 1 = value
      BY <2>1
    <3>2. \A x \in Nat : x < kLinearMax <=> x + 1 \in 1 .. kLinearMax /\ (x + 1) - 1 = x
      BY <1>2
    <3>3. ASSUME NEW x \in Nat, x \in low PROVE \E i \in 1 .. kLinearMax : x = i - 1 /\ i - 1 = value
      <4>1. x < kLinearMax /\ x = value
        BY <1>3, <3>3
      <4>2. x + 1 \in 1 .. kLinearMax /\ x = (x + 1) - 1 /\ (x + 1) - 1 = value
        BY <3>2, <4>1
      <4> QED BY <4>2
    <3>4. ASSUME NEW i \in 1 .. kLinearMax, i - 1 = value PROVE i - 1 \in low
      <4>1. i - 1 \in Nat /\ i - 1 < kLinearMax
        BY <1>2
      <4> QED BY <1>3, <3>4, <4>1
    <3> QED BY <3>1, <3>3, <3>4
  <2>8. Tallied(s, UNION {part[i] : i \in 1 .. kLinearMax}) = Tallied(s, low)
    BY <1>1, <2>7, TalliedSame
  <2>9. PICK rows : rows = FlattenSeq([i \in 1 .. kLinearMax |-> Row(edge[i], holds[i])])
    OBVIOUS
  <2>10. rows \in Rows /\ CountIn(rows, value) = Tallied(s, low)
    <3>1. /\ rows \in Rows
          /\ CountIn(rows, value)
               = TotalOf([i \in 1 .. kLinearMax |-> IF edge[i] = value THEN holds[i] ELSE 0])
      <4>1. PICK n \in Nat : n = kLinearMax
        BY <1>2
      <4>2. \A i \in 1 .. n : edge[i] \in Nat /\ holds[i] \in Nat
        BY <2>2, <4>1
      <4>3. /\ BucketRows(n, edge, holds) \in Rows
            /\ CountIn(BucketRows(n, edge, holds), value)
                 = TotalOf(BucketCounts(n, edge, holds, value))
        BY <4>2, CountInBuckets
      <4> QED BY <2>9, <4>1, <4>3 DEF BucketRows, BucketCounts
    <3>2. TotalOf([i \in 1 .. kLinearMax |-> Tallied(s, part[i])])
            = Tallied(s, UNION {part[i] : i \in 1 .. kLinearMax})
      <4>1. PICK n \in Nat : n = kLinearMax
        BY <1>2
      <4>2. \A i, j \in 1 .. n : i # j => \A x \in Nat : ~(x \in part[i] /\ x \in part[j])
        BY <2>6, <4>1
      <4>3. s \in Seq(Nat)
        BY <1>1
      <4>4. TotalOf([i \in 1 .. n |-> Tallied(s, part[i])])
              = Tallied(s, UNION {part[i] : i \in 1 .. n})
        BY <4>2, <4>3, TalliedInParts
      <4> QED BY <4>1, <4>4
    <3> QED BY <2>5, <2>8, <3>1, <3>2
  <2> QED BY <2>3, <2>9, <2>10
\* The octaves.
<1>6. PICK those : /\ those = FlattenSeq([b \in 1 .. kLogBuckets |-> Row(Octave[b - 1], hist.log[b - 1])])
                   /\ those \in Rows /\ CountIn(those, value) = Tallied(s, high)
  <2>1. PICK edge, holds, part :
          /\ edge = [b \in 1 .. kLogBuckets |-> Octave[b - 1]]
          /\ holds = [b \in 1 .. kLogBuckets |-> hist.log[b - 1]]
          /\ part = [b \in 1 .. kLogBuckets |-> IF Octave[b - 1] = value THEN InOctave(b - 1) ELSE {}]
    OBVIOUS
  <2>2. \A b \in 1 .. kLogBuckets : edge[b] \in Nat /\ holds[b] \in Nat
    BY <1>1, <1>2, <2>1, Octaves
  <2>3. [b \in 1 .. kLogBuckets |-> Row(edge[b], holds[b])]
          = [b \in 1 .. kLogBuckets |-> Row(Octave[b - 1], hist.log[b - 1])]
    BY <2>1
  <2>4. \A b \in 1 .. kLogBuckets : (IF edge[b] = value THEN holds[b] ELSE 0) = Tallied(s, part[b])
    BY <1>1, <1>2, <2>1, TalliedOfNone
  <2>5. [b \in 1 .. kLogBuckets |-> IF edge[b] = value THEN holds[b] ELSE 0]
          = [b \in 1 .. kLogBuckets |-> Tallied(s, part[b])]
    BY <2>4
  <2>6. \A i, j \in 1 .. kLogBuckets : i # j => \A x \in Nat : ~(x \in part[i] /\ x \in part[j])
    BY <2>1 DEF InOctave
  <2>7. \A x \in Nat : x \in UNION {part[b] : b \in 1 .. kLogBuckets} <=> x \in high
    <3>1. \A x : x \in UNION {part[b] : b \in 1 .. kLogBuckets}
                   <=> \E b \in 1 .. kLogBuckets : x \in InOctave(b - 1) /\ Octave[b - 1] = value
      BY <2>1
    <3>2. \A x, b : x \in InOctave(b) <=> x \in Nat /\ ~(x < kLinearMax) /\ LogBucket(x) = b
      BY DEF InOctave
    <3>3. ASSUME NEW x \in Nat, x \in high
          PROVE  \E b \in 1 .. kLogBuckets : x \in InOctave(b - 1) /\ Octave[b - 1] = value
      <4>1. PICK c : c = LogBucket(x) /\ c \in Log
        BY LogBucketProperties
      <4>2. ~(x < kLinearMax) /\ Octave[c] = value
        BY <1>4, <3>3, <4>1
      <4>3. c + 1 \in 1 .. kLogBuckets /\ (c + 1) - 1 = c
        BY <1>2, <4>1 DEF Log
      <4>4. PICK b : b = c + 1
        OBVIOUS
      <4>5. b \in 1 .. kLogBuckets /\ b - 1 = c
        BY <4>3, <4>4
      <4> QED BY <3>2, <4>1, <4>2, <4>5
    <3>4. ASSUME NEW x \in Nat, NEW b \in 1 .. kLogBuckets, x \in InOctave(b - 1), Octave[b - 1] = value
          PROVE  x \in high
      BY <1>4, <3>2, <3>4
    <3> QED BY <3>1, <3>3, <3>4
  <2>8. Tallied(s, UNION {part[b] : b \in 1 .. kLogBuckets}) = Tallied(s, high)
    BY <1>1, <2>7, TalliedSame
  <2>9. PICK rows : rows = FlattenSeq([b \in 1 .. kLogBuckets |-> Row(edge[b], holds[b])])
    OBVIOUS
  <2>10. rows \in Rows /\ CountIn(rows, value) = Tallied(s, high)
    <3>1. /\ rows \in Rows
          /\ CountIn(rows, value)
               = TotalOf([b \in 1 .. kLogBuckets |-> IF edge[b] = value THEN holds[b] ELSE 0])
      <4>1. PICK n \in Nat : n = kLogBuckets
        BY <1>2
      <4>2. \A b \in 1 .. n : edge[b] \in Nat /\ holds[b] \in Nat
        BY <2>2, <4>1
      <4>3. /\ BucketRows(n, edge, holds) \in Rows
            /\ CountIn(BucketRows(n, edge, holds), value)
                 = TotalOf(BucketCounts(n, edge, holds, value))
        BY <4>2, CountInBuckets
      <4> QED BY <2>9, <4>1, <4>3 DEF BucketRows, BucketCounts
    <3>2. TotalOf([b \in 1 .. kLogBuckets |-> Tallied(s, part[b])])
            = Tallied(s, UNION {part[b] : b \in 1 .. kLogBuckets})
      <4>1. PICK n \in Nat : n = kLogBuckets
        BY <1>2
      <4>2. \A i, j \in 1 .. n : i # j => \A x \in Nat : ~(x \in part[i] /\ x \in part[j])
        BY <2>6, <4>1
      <4>3. s \in Seq(Nat)
        BY <1>1
      <4>4. TotalOf([b \in 1 .. n |-> Tallied(s, part[b])])
              = Tallied(s, UNION {part[b] : b \in 1 .. n})
        BY <4>2, <4>3, TalliedInParts
      <4> QED BY <4>1, <4>4
    <3> QED BY <2>5, <2>8, <3>1, <3>2
  <2> QED BY <2>3, <2>9, <2>10
<1>7. CountIn(CsvRows(hist), value) = Tallied(s, low) + Tallied(s, high)
  BY <1>5, <1>6, CountInConcat DEF CsvRows
<1>8. \A x \in Nat : ~(x \in low /\ x \in high)
  BY <1>3, <1>4
<1>9. Tallied(s, low \cup high) = Tallied(s, low) + Tallied(s, high)
  BY <1>1, <1>8, TalliedOfUnion
<1>10. \A x \in Nat : x \in low \cup high <=> Edge(x) = value
  BY <1>3, <1>4, EdgeOfBucket
<1>11. {i \in DOMAIN s : s[i] \in low \cup high} = {i \in DOMAIN s : Edge(s[i]) = value}
  BY <1>1, <1>10, ListsOfNaturals
<1> QED BY <1>7, <1>9, <1>11 DEF Tallied

-----------------------------------------------------------------------------
(* The summary and the latency files.                                      *)

\* Each histogram holds the samples of its calls, and a latency file is of the
\* histogram as it is in the end: no call is timed after the parser returns.
SamplesInv ==
  /\ hists \in [Kinds -> Histograms] /\ samples \in [Kinds -> Seq(Nat)]
  /\ \A k \in Kinds : Holds(hists[k], samples[k])
  /\ calls # <<>> => stage = "parse"
  /\ stage # "end" => written = <<>>
  /\ \A k \in DOMAIN written : k \in Kinds /\ written[k] = CsvRows(hists[k])

\* At first no histogram holds anything.
LEMMA InitIsSamplesInv ==
  ProgramInit => SamplesInv
<1> SUFFICES ASSUME ProgramInit PROVE SamplesInv
  OBVIOUS
<1>1. /\ hists = [k \in Kinds |-> NewHistogram] /\ samples = [k \in Kinds |-> <<>>]
      /\ calls = <<>> /\ written = <<>>
  BY DEF ProgramInit
<1>2. Holds(NewHistogram, <<>>) /\ <<>> \in Seq(Nat) /\ NewHistogram \in Histograms
  BY NewHistogramHolds, EmptySeq DEF Holds
<1>3. DOMAIN written = {}
  BY <1>1
<1> QED BY <1>1, <1>2, <1>3 DEF SamplesInv

\* A duration goes to the histogram of its call and to no other.
LEMMA TimedCallKeepsSamplesInv ==
  ASSUME HandlerInv, SamplesInv, TimedCall
  PROVE  SamplesInv'
<1>1. PICK k : k = Head(calls) /\ k \in Kinds
  <2>1. calls \in {<<"submit">>, <<"reduce">>, <<"cancel">>, <<"cancel", "submit">>}
    BY DEF HandlerInv, TimedCall, CallsFit
  <2>2. calls # <<>>
    BY DEF TimedCall
  <2> QED BY <2>1, <2>2, NextCall
<1>2. PICK ns : /\ ns \in Nat
                /\ hists' = [hists EXCEPT ![k] = Record(@, ns)]
                /\ samples' = [samples EXCEPT ![k] = Append(@, ns)]
  BY <1>1, ProgramAssumption DEF TimedCall
<1>3. /\ stage = "parse" /\ stage' = "parse" /\ written = <<>> /\ written' = <<>>
      /\ DOMAIN written' = {}
  <2>1. calls # <<>> /\ stage' = stage /\ written' = written
    BY DEF TimedCall
  <2>2. stage = "parse" /\ written = <<>>
    BY <2>1 DEF SamplesInv
  <2> QED BY <2>1, <2>2
<1>4. PICK hist, s : /\ hist = hists[k] /\ s = samples[k] /\ Holds(hist, s)
                     /\ Holds(Record(hist, ns), Append(s, ns))
  BY <1>1, <1>2, RecordHolds DEF SamplesInv
<1>5. Record(hist, ns) \in Histograms /\ Append(s, ns) \in Seq(Nat)
  BY <1>4 DEF Holds
<1>6. /\ hists' \in [Kinds -> Histograms] /\ samples' \in [Kinds -> Seq(Nat)]
      /\ hists'[k] = Record(hist, ns) /\ samples'[k] = Append(s, ns)
      /\ \A l \in Kinds : l # k => hists'[l] = hists[l] /\ samples'[l] = samples[l]
  BY <1>1, <1>2, <1>4, <1>5 DEF SamplesInv
<1>7. \A l \in Kinds : Holds(hists'[l], samples'[l])
  BY <1>4, <1>6 DEF SamplesInv
<1> QED BY <1>3, <1>6, <1>7 DEF SamplesInv

\* The other steps leave the histograms alone; only the last writes.
LEMMA StepKeepsSamplesInv ==
  ASSUME HandlerInv, SamplesInv, [ProgramNext]_programVars
  PROVE  SamplesInv'
<1>1. ASSUME UNCHANGED <<hists, samples, written>>, calls' # <<>> => stage' = "parse",
             stage' # "end" => stage # "end"
      PROVE  SamplesInv'
  BY <1>1 DEF SamplesInv
<1>2. CASE DispatchFrame
  <2>1. hists' = hists /\ samples' = samples /\ written' = written /\ stage' = stage /\ stage = "parse"
    BY <1>2 DEF DispatchFrame, Handle
  <2> QED BY <1>1, <2>1
<1>3. CASE TimedCall
  BY <1>3, TimedCallKeepsSamplesInv
<1>4. CASE MapFile
  <2>1. UNCHANGED <<hists, samples, written, calls>> /\ stage = "start" /\ calls = <<>>
    BY <1>4 DEF MapFile, handlerVars, SamplesInv
  <2> QED BY <1>1, <2>1
<1>5. CASE ParseReturns
  <2>1. UNCHANGED <<hists, samples, written, calls>> /\ stage = "parse" /\ calls = <<>>
    BY <1>5 DEF ParseReturns, handlerVars
  <2> QED BY <1>1, <2>1
<1>6. CASE WriteReport
  <2>1. UNCHANGED <<hists, samples, calls>> /\ stage = "report" /\ stage' = "end" /\ calls = <<>>
    BY <1>6 DEF WriteReport, handlerVars, SamplesInv
  <2>2. \A k \in DOMAIN written' : k \in Kinds /\ written'[k] = CsvRows(hists'[k])
    <3>1. PICK opened \in SUBSET Kinds :
            written' = <<>> \/ written' = [k \in opened |-> CsvRows(hists[k])]
      BY <1>6 DEF WriteReport
    <3>2. DOMAIN <<>> = {}
      OBVIOUS
    <3> QED BY <2>1, <3>1, <3>2
  <2>3. /\ hists' \in [Kinds -> Histograms] /\ samples' \in [Kinds -> Seq(Nat)]
        /\ \A k \in Kinds : Holds(hists'[k], samples'[k])
    BY <2>1 DEF SamplesInv
  <2> QED BY <2>1, <2>2, <2>3 DEF SamplesInv
<1>7. CASE UNCHANGED programVars
  <2>1. UNCHANGED <<hists, samples, written, calls, stage>>
    BY <1>7 DEF programVars, handlerVars
  <2> QED BY <2>1 DEF SamplesInv
<1> QED BY <1>2, <1>3, <1>4, <1>5, <1>6, <1>7 DEF ProgramNext

\* A histogram that holds the samples is a summary of them.
LEMMA HoldingSummarises ==
  ASSUME NEW hist, NEW s, Holds(hist, s)
  PROVE  Summarises(hist, s, Percentiles)
<1>1. /\ s \in Seq(Nat) /\ hist.total = Len(s) /\ hist.sum = TotalOf(s)
      /\ hist.max \in {0} \cup Range(s) /\ \A x \in Range(s) : x <= hist.max
      /\ hist.max \in Nat
  BY DEF Holds, Histograms
<1>2. hist.max = Max({0} \cup Range(s))
  <2>1. PICK m, T : m = hist.max /\ T = {0} \cup Range(s) /\ m \in T /\ m \in Nat
    BY <1>1
  <2>2. T \subseteq Nat /\ \A y \in T : m >= y
    <3>1. Range(s) \subseteq Nat
      BY <1>1, ListsOfNaturals
    <3> QED BY <1>1, <2>1, <3>1
  <2>3. Max(T) \in T /\ \A y \in T : Max(T) >= y
    BY <2>1, <2>2 DEF Max
  <2>4. PICK n : n = Max(T)
    OBVIOUS
  <2>5. n = m
    BY <2>1, <2>2, <2>3, <2>4
  <2> QED BY <2>1, <2>4, <2>5
<1>3. ASSUME NEW p \in Percentiles
      PROVE  Percentile(hist, p) =
               IF s = <<>> THEN 0 ELSE Edge(OfRank(s, Max({1, (Len(s) * p[1]) \div p[2]})))
  <2>1. p \in Nat \X (Nat \ {0}) /\ p[1] <= p[2]
    BY ProgramAssumption
  <2> QED BY <2>1, PercentileOfRank
<1> QED BY <1>1, <1>2, <1>3 DEF Summarises

\* The rows of a histogram that holds the samples have every sample once.
LEMMA HoldingTabulates ==
  ASSUME NEW hist, NEW s, Holds(hist, s)
  PROVE  Tabulates(CsvRows(hist), s)
<1>1. ASSUME NEW rows, rows = CsvRows(hist), NEW value
      PROVE  TotalOf([r \in DOMAIN rows |-> IF rows[r][1] = value THEN rows[r][2] ELSE 0])
               = Cardinality({i \in DOMAIN s : Edge(s[i]) = value})
  <2>1. CountIn(rows, value) = Cardinality({i \in DOMAIN s : Edge(s[i]) = value})
    BY <1>1, RowsTabulate
  <2> QED BY <2>1 DEF CountIn, CountsIn
<1> QED BY <1>1 DEF Tabulates

\* When the program reports, each percentile is the edge of the bucket that has
\* the sample of its rank, in the one-nanosecond buckets, in the octaves and in
\* the last one, which has no upper end; total, sum and maximum are exact.
THEOREM SummariesAreOfTheSamples == ProgramSpec => []PercentilesExact
<1>1. SamplesInv => PercentilesExact
  BY HoldingSummarises DEF SamplesInv, PercentilesExact
<1> QED
  BY <1>1, InitIsParserInv, StepKeepsParserInv, InitIsHandlerInv, StepKeepsHandlerInv,
     InitIsSamplesInv, StepKeepsSamplesInv, PTL DEF ProgramSpec

\* Whichever latency files can be written, each has every sample of its calls
\* once, under the edge of its bucket.
THEOREM LatencyFilesAreOfTheSamples == ProgramSpec => []CsvExact
<1>1. SamplesInv => CsvExact
  BY HoldingTabulates DEF SamplesInv, CsvExact
<1> QED
  BY <1>1, InitIsParserInv, StepKeepsParserInv, InitIsHandlerInv, StepKeepsHandlerInv,
     InitIsSamplesInv, StepKeepsSamplesInv, PTL DEF ProgramSpec

=============================================================================
