---------------------------- MODULE OutputProofs ----------------------------
(***************************************************************************)
(* Proofs about ProcessOutput: types, order of the output, printed lines.  *)
(***************************************************************************)
EXTENDS ProcessOutput, SequenceTheorems, WellFoundedInduction, TLAPS

\* The sequences, with what each step does to their types.
StreamTypes ==
  /\ pipe \in Seq(Pieces) /\ buffer \in Seq(Pieces) /\ line \in Seq(Pieces)
  /\ printed \in Seq(Pieces) /\ written \in Seq(Pieces) /\ lost \in Seq(Pieces)

\* Where the output is.
Conservation == printed \o line \o buffer \o pipe \o lost = written

\* What the control points say of the sequences.
ControlInv ==
  /\ process = "runs" => wait = "waits"
  /\ wait = "waits" => lost = <<>>
  /\ reader # "print" => line = <<>>
  /\ reader = "end" => LineEnds = {}

OutputInv == OutputTypeOK /\ Conservation /\ ControlInv
-----------------------------------------------------------------------------
(* Sequences and their first line. *)

\* A set of naturals that is not empty has a least element.
LEMMA LeastElement ==
  ASSUME NEW T, T \subseteq Nat, T # {}
  PROVE  \E x \in T : \A y \in T : x <= y
<1>1. PICK x \in T : \A y \in T : ~(<<y, x>> \in OpToRel(<, Nat))
  BY NatLessThanWellFounded, WFMin
<1>2. \A y \in T : x <= y
  <2>1. TAKE y \in T
  <2>2. ~(y < x)
    BY <1>1 DEF OpToRel
  <2> QED
    BY <2>2
<1> QED
  BY <1>2

\* FirstLineEnd is the place of the first newline in the buffer.
LEMMA FirstLineEndIsFirst ==
  ASSUME buffer \in Seq(Pieces), LineEnds # {}
  PROVE  /\ FirstLineEnd \in 1..Len(buffer)
         /\ buffer[FirstLineEnd].newline
         /\ \A j \in 1..Len(buffer) : buffer[j].newline => FirstLineEnd <= j
<1>1. LineEnds \subseteq 1..Len(buffer)
  BY DEF LineEnds
<1>2. \E i \in LineEnds : \A j \in LineEnds : i <= j
  <2>1. LineEnds \subseteq Nat
    BY <1>1, LenProperties
  <2> QED
    BY <2>1, LeastElement, Zenon
<1>3. FirstLineEnd \in LineEnds /\ \A j \in LineEnds : FirstLineEnd <= j
  BY <1>2 DEF FirstLineEnd
<1> QED
  BY <1>1, <1>3 DEF LineEnds

\* A sequence cut in two is the concatenation of its parts.
LEMMA Cut ==
  ASSUME NEW S, NEW s \in Seq(S), NEW n \in 1..Len(s)
  PROVE  /\ SubSeq(s, 1, n) \in Seq(S) /\ SubSeq(s, n + 1, Len(s)) \in Seq(S)
         /\ Len(SubSeq(s, 1, n)) = n
         /\ \A i \in 1..n : SubSeq(s, 1, n)[i] = s[i]
         /\ Len(SubSeq(s, n + 1, Len(s))) = Len(s) - n
         /\ SubSeq(s, 1, n) \o SubSeq(s, n + 1, Len(s)) = s
<1>1. /\ Len(s) \in Nat
      /\ \A i \in 1..Len(s) : s[i] \in S
  BY ElementOfSeq, LenProperties
<1>2. /\ SubSeq(s, 1, n) \in Seq(S)
      /\ Len(SubSeq(s, 1, n)) = n
      /\ \A i \in 1..n : SubSeq(s, 1, n)[i] = s[i]
  <2>1. \A i \in 1..n : s[i] \in S
    BY <1>1
  <2> QED
    BY <1>1, <2>1, SubSeqProperties
<1>3. /\ SubSeq(s, n + 1, Len(s)) \in Seq(S)
      /\ Len(SubSeq(s, n + 1, Len(s))) = Len(s) - n
  <2>1. \A i \in n + 1..Len(s) : s[i] \in S
    BY <1>1
  <2> QED
    BY <1>1, <2>1, SubSeqProperties
<1>4. SubSeq(s, 1, n) \o SubSeq(s, n + 1, Len(s)) = SubSeq(s, 1, Len(s))
  <2>1. 1 \in 1..Len(s) + 1 /\ n \in 0..Len(s) /\ Len(s) \in n..Len(s)
    BY <1>1
  <2> QED
    BY <1>1, <2>1, ConcatAdjacentSubSeq
<1> QED
  BY <1>2, <1>3, <1>4, SubSeqFull
-----------------------------------------------------------------------------
(* The invariant. *)

\* The stream starts empty.
LEMMA InitInv == OutputInit => OutputInv
<1> SUFFICES ASSUME OutputInit PROVE OutputInv
  OBVIOUS
<1>1. OutputTypeOK
  BY OutputAssumption DEF OutputInit, OutputTypeOK
<1>2. Conservation
  BY DEF OutputInit, Conservation
<1>3. ControlInv
  BY DEF OutputInit, ControlInv
<1> QED
  BY <1>1, <1>2, <1>3 DEF OutputInv

\* A stuttering step moves nothing.
LEMMA StutterInv == OutputInv /\ UNCHANGED outputVars => OutputInv'
<1> SUFFICES ASSUME OutputInv, UNCHANGED outputVars PROVE OutputInv'
  OBVIOUS
<1>1. OutputTypeOK'
  BY DEF OutputInv, OutputTypeOK, outputVars, streamVars
<1>2. Conservation'
  BY DEF OutputInv, Conservation, outputVars, streamVars
<1>3. ControlInv'
  BY DEF OutputInv, ControlInv, LineEnds, outputVars, streamVars
<1> QED
  BY <1>1, <1>2, <1>3 DEF OutputInv

\* Write appends to the pipe what it adds to the history.
LEMMA WriteInv ==
  ASSUME OutputInv, NEW newline \in BOOLEAN, Write(newline)
  PROVE  OutputInv'
<1> DEFINE piece == [number |-> Len(written) + 1, newline |-> newline]
<1> USE DEF OutputInv
<1>1. StreamTypes /\ lost = <<>>
  BY DEF OutputTypeOK, ControlInv, Write, StreamTypes
<1>2. piece \in Pieces
  <2>1. Len(written) \in Nat /\ Len(written) < MaxWrites
    BY <1>1, LenProperties DEF StreamTypes, Write
  <2> QED
    BY <2>1, OutputAssumption DEF Pieces
<1>3. /\ pipe' = Append(pipe, piece) /\ written' = Append(written, piece)
      /\ UNCHANGED <<process, heirs, buffer, line, printed, reader, wait, lost>>
      /\ Len(pipe) < PipeSize /\ wait = "waits"
  BY DEF Write
<1> HIDE DEF piece
<1>4. /\ pipe' \in Seq(Pieces) /\ written' \in Seq(Pieces)
      /\ Len(pipe') = Len(pipe) + 1
  BY <1>1, <1>2, <1>3, AppendProperties DEF StreamTypes
<1>5. OutputTypeOK'
  <2>1. Len(pipe') <= PipeSize
    BY <1>1, <1>3, <1>4, LenProperties, OutputAssumption DEF StreamTypes
  <2> QED
    BY <1>3, <1>4, <2>1 DEF OutputTypeOK
<1>6. Conservation'
  <2> DEFINE front == printed \o line \o buffer
  <2>1. front \in Seq(Pieces) /\ front \o pipe \in Seq(Pieces)
    BY <1>1, ConcatProperties DEF StreamTypes
  <2>2. written = front \o pipe
    BY <1>1, <2>1, ConcatEmptySeq DEF Conservation
  <2>3. <<piece>> \in Seq(Pieces)
    BY <1>2
  <2> HIDE DEF front
  <2>4. Append(written, piece) = front \o pipe \o <<piece>>
    BY <1>2, <2>1, <2>2, AppendIsConcat
  <2>5. front \o Append(pipe, piece) = front \o (pipe \o <<piece>>)
    BY <1>1, <1>2, AppendIsConcat DEF StreamTypes
  <2>6. front \o pipe \o <<piece>> = front \o (pipe \o <<piece>>)
    BY <1>1, <2>1, <2>3 DEF StreamTypes
  <2>7. front \o pipe' = written'
    BY <1>3, <2>4, <2>5, <2>6
  <2>8. front \o pipe' \o <<>> = front \o pipe'
    BY <1>4, <2>7, ConcatEmptySeq
  <2> QED
    BY <1>1, <1>3, <2>7, <2>8 DEF Conservation, front
<1>7. ControlInv'
  BY <1>1, <1>3 DEF ControlInv, LineEnds
<1> QED
  BY <1>5, <1>6, <1>7

\* Wait throws away what is in the pipe, and nothing that was read.
LEMMA WaitInv ==
  ASSUME OutputInv, Wait
  PROVE  OutputInv'
<1> USE DEF OutputInv
<1>1. StreamTypes /\ lost = <<>>
  BY DEF OutputTypeOK, ControlInv, Wait, ClosePipe, StreamTypes
<1>2. OutputTypeOK'
  BY <1>1, EmptySeq, OutputAssumption DEF OutputTypeOK, Wait, ClosePipe, StreamTypes
<1>3. Conservation'
  <2> DEFINE front == printed \o line \o buffer
  <2>1. front \in Seq(Pieces) /\ front \o pipe \in Seq(Pieces)
    BY <1>1, ConcatProperties DEF StreamTypes
  <2> HIDE DEF front
  <2>2. front \o pipe \o <<>> = front \o pipe /\ front \o <<>> \o pipe = front \o pipe
    BY <2>1, ConcatEmptySeq
  <2> QED
    BY <1>1, <2>2 DEF Conservation, Wait, ClosePipe, front
<1>4. ControlInv'
  BY DEF ControlInv, Wait, ClosePipe, LineEnds
<1> QED
  BY <1>2, <1>3, <1>4

\* ReadString takes the front of the pipe to the end of the buffer.
LEMMA FillInv ==
  ASSUME OutputInv, Fill
  PROVE  OutputInv'
<1> USE DEF OutputInv
<1>1. StreamTypes
  BY DEF OutputTypeOK, StreamTypes
<1>2. PICK n \in 1..Len(pipe) :
        /\ buffer' = buffer \o SubSeq(pipe, 1, n)
        /\ pipe' = SubSeq(pipe, n + 1, Len(pipe))
  BY DEF Fill, ReadOn
<1>3. /\ reader = "read"
      /\ UNCHANGED <<process, heirs, line, printed, reader, wait, written, lost>>
  BY DEF Fill, ReadOn
<1> DEFINE head == SubSeq(pipe, 1, n)
           rest == SubSeq(pipe, n + 1, Len(pipe))
<1>4. /\ head \in Seq(Pieces) /\ rest \in Seq(Pieces)
      /\ Len(rest) = Len(pipe) - n
      /\ head \o rest = pipe
  BY <1>1, Cut DEF StreamTypes
<1> HIDE DEF head, rest
<1>5. buffer' = buffer \o head /\ pipe' = rest
  BY <1>2 DEF head, rest
<1>6. OutputTypeOK'
  <2>1. buffer' \in Seq(Pieces) /\ pipe' \in Seq(Pieces)
    BY <1>1, <1>4, <1>5, ConcatProperties DEF StreamTypes
  <2>2. Len(pipe') <= PipeSize
    BY <1>1, <1>4, <1>5, LenProperties, OutputAssumption DEF StreamTypes, OutputTypeOK
  <2> QED
    BY <1>3, <2>1, <2>2 DEF OutputTypeOK
<1>7. Conservation'
  <2> DEFINE front == printed \o line
  <2>1. front \in Seq(Pieces) /\ front \o buffer \in Seq(Pieces)
    BY <1>1, ConcatProperties DEF StreamTypes
  <2> HIDE DEF front
  <2>2. front \o (buffer \o head) = front \o buffer \o head
    <3>1. front \in Seq(Pieces) /\ buffer \in Seq(Pieces) /\ head \in Seq(Pieces)
      BY <1>1, <1>4, <2>1 DEF StreamTypes
    <3> QED
      BY <3>1
  <2>3. front \o buffer \o head \o rest = front \o buffer \o (head \o rest)
    <3> DEFINE start == front \o buffer
    <3>1. start \in Seq(Pieces) /\ head \in Seq(Pieces) /\ rest \in Seq(Pieces)
      BY <1>4, <2>1
    <3> HIDE DEF start
    <3>2. start \o head \o rest = start \o (head \o rest)
      BY <3>1
    <3> QED
      BY <3>2 DEF start
  <2> QED
    BY <1>3, <1>4, <1>5, <2>2, <2>3 DEF Conservation, front
<1>8. ControlInv'
  BY <1>3 DEF ControlInv
<1> QED
  BY <1>6, <1>7, <1>8

\* ReadString returns the front of the buffer, up to its first newline.
LEMMA ReadStringInv ==
  ASSUME OutputInv, ReadString
  PROVE  OutputInv'
<1> USE DEF OutputInv
<1>1. StreamTypes /\ line = <<>>
  BY DEF OutputTypeOK, StreamTypes, ControlInv, ReadString, ReturnLine
<1> DEFINE n == FirstLineEnd
           head == SubSeq(buffer, 1, n)
           rest == SubSeq(buffer, n + 1, Len(buffer))
<1>2. /\ n \in 1..Len(buffer)
      /\ buffer[n].newline
      /\ \A j \in 1..Len(buffer) : buffer[j].newline => n <= j
  BY <1>1, FirstLineEndIsFirst DEF StreamTypes, ReadString, ReturnLine
<1>3. /\ line' = head /\ buffer' = rest
      /\ reader' = "print"
      /\ UNCHANGED <<process, heirs, pipe, printed, wait, written, lost>>
  BY DEF ReadString, ReturnLine
<1> HIDE DEF n
<1>4. /\ head \in Seq(Pieces) /\ rest \in Seq(Pieces)
      /\ Len(head) = n
      /\ \A i \in 1..n : head[i] = buffer[i]
      /\ head \o rest = buffer
  BY <1>1, <1>2, Cut DEF StreamTypes
<1> HIDE DEF head, rest
<1>5. OutputTypeOK'
  <2>1. DOMAIN head = 1..n
    BY <1>4, LenProperties
  <2>2. ASSUME NEW i \in 1..n
        PROVE  head[i].newline <=> i = n
    <3>1. i \in 1..Len(buffer) /\ buffer[i] \in Pieces
      BY <1>1, <1>2, ElementOfSeq, LenProperties DEF StreamTypes
    <3>2. buffer[i].newline \in BOOLEAN
      BY <3>1 DEF Pieces
    <3> QED
      BY <1>2, <1>4, <3>1, <3>2
  <2> QED
    BY <1>3, <1>4, <2>1, <2>2 DEF OutputTypeOK
<1>6. Conservation'
  <2>1. printed \o <<>> = printed
    BY <1>1, ConcatEmptySeq DEF StreamTypes
  <2>2. printed \o head \o rest = printed \o (head \o rest)
    <3>1. printed \in Seq(Pieces) /\ head \in Seq(Pieces) /\ rest \in Seq(Pieces)
      BY <1>1, <1>4 DEF StreamTypes
    <3> QED
      BY <3>1
  <2> QED
    BY <1>1, <1>3, <1>4, <2>1, <2>2 DEF Conservation
<1>7. ControlInv'
  BY <1>3 DEF ControlInv, ReadString, ReturnLine
<1> QED
  BY <1>5, <1>6, <1>7

\* The line that was returned is added to what was printed.
LEMMA PrintLineInv ==
  ASSUME OutputInv, PrintLine
  PROVE  OutputInv'
<1> USE DEF OutputInv
<1>1. StreamTypes
  BY DEF OutputTypeOK, StreamTypes
<1>2. /\ printed' = printed \o line /\ line' = <<>> /\ reader' = "read"
      /\ UNCHANGED <<process, heirs, pipe, buffer, wait, written, lost>>
  BY DEF PrintLine
<1>3. printed \o line \in Seq(Pieces)
  BY <1>1, ConcatProperties DEF StreamTypes
<1>4. OutputTypeOK'
  BY <1>2, <1>3, EmptySeq DEF OutputTypeOK
<1>5. Conservation'
  <2>1. (printed \o line) \o <<>> = printed \o line
    BY <1>3, ConcatEmptySeq
  <2> QED
    BY <1>2, <2>1 DEF Conservation
<1>6. ControlInv'
  BY <1>2 DEF ControlInv
<1> QED
  BY <1>4, <1>5, <1>6

\* The steps that move nothing.
LEMMA EndsInv ==
  ASSUME OutputInv, ProcessEnds \/ ReadFails
  PROVE  OutputInv'
<1>1. OutputTypeOK'
  BY DEF OutputInv, OutputTypeOK, ProcessEnds, ReadFails, ReaderStops, streamVars
<1>2. Conservation'
  BY DEF OutputInv, Conservation, ProcessEnds, ReadFails, ReaderStops, streamVars
<1>3. ControlInv'
  BY DEF OutputInv, ControlInv, ProcessEnds, ReadFails, ReaderStops, streamVars, LineEnds
<1> QED
  BY <1>1, <1>2, <1>3 DEF OutputInv

\* The invariant is inductive: one step per action of ProcessOutput.
LEMMA NextInv == OutputInv /\ [OutputNext \/ Quiet]_outputVars => OutputInv'
<1> SUFFICES ASSUME OutputInv, [OutputNext \/ Quiet]_outputVars PROVE OutputInv'
  OBVIOUS
<1>1. CASE \E newline \in BOOLEAN : Write(newline)
  BY <1>1, WriteInv
<1>2. CASE ProcessEnds \/ ReadFails
  BY <1>2, EndsInv
<1>3. CASE Wait
  BY <1>3, WaitInv
<1>4. CASE Fill
  BY <1>4, FillInv
<1>5. CASE ReadString
  BY <1>5, ReadStringInv
<1>6. CASE PrintLine
  BY <1>6, PrintLineInv
<1>7. CASE UNCHANGED outputVars
  BY <1>7, StutterInv
<1> QED
  BY <1>1, <1>2, <1>3, <1>4, <1>5, <1>6, <1>7 DEF OutputNext, ReadOutput, Quiet

\* The invariant holds for every size of the pipe and every number of writes.
THEOREM OutputInvariance == OutputSpec => []OutputInv
BY InitInv, NextInv, PTL DEF OutputSpec

\* Type correctness: the pipe keeps its bound, and what ReadString returned is
\* one line, with its only newline at the end.
THEOREM OutputTypeCorrect == OutputSpec => []OutputTypeOK
<1>1. OutputInv => OutputTypeOK
  BY DEF OutputInv
<1> QED
  BY <1>1, OutputInvariance, PTL

\* Nothing is lost, repeated or reordered before the process has ended, and later
\* only what Wait found unread in the pipe (process.go:393, 652).
THEOREM OutputIsInOrder == OutputSpec => []OutputInOrder
<1>1. OutputInv => OutputInOrder
  BY DEF OutputInv, Conservation, ControlInv, OutputInOrder
<1> QED
  BY <1>1, OutputInvariance, PTL

\* Every complete line that was read is printed (process.go:652-655).
THEOREM LinesArePrinted == OutputSpec => []ReadLinesPrinted
<1>1. OutputInv => ReadLinesPrinted
  BY DEF OutputInv, ControlInv, ReadLinesPrinted
<1> QED
  BY <1>1, OutputInvariance, PTL
=============================================================================
