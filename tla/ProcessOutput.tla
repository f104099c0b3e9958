--------------------------- MODULE ProcessOutput ---------------------------
(***************************************************************************)
(* One output stream of a process: the pipe that cmd.StdoutPipe or         *)
(* cmd.StderrPipe makes, the goroutine ProcessOutput that reads lines from *)
(* it and prints them, and cmd.Wait in Run, which closes the wrapper's end *)
(* of the pipe as soon as the process has ended (pkg/process/process.go).  *)
(*                                                                         *)
(* What is written is a sequence of pieces; a piece is known by its number *)
(* and either ends a line or does not.                                     *)
(***************************************************************************)
EXTENDS Naturals, Sequences

CONSTANTS
  PipeSize,    \* pieces that fit into the pipe
  MaxWrites    \* bound: pieces the process, or a child that has its pipe, writes

ASSUME OutputAssumption == PipeSize \in Nat \ {0} /\ MaxWrites \in Nat

Pieces == [number : 1..MaxWrites, newline : BOOLEAN]

VARIABLES
  process,   \* the process runs, or has ended
  heirs,     \* does a child of the process keep the pipe open when it has ended?
  pipe,      \* what has been written and not been read
  buffer,    \* what ReadString has read and not returned: bufio, and the line so far
  line,      \* the line ReadString returned, until it is printed
  printed,   \* what has been printed
  reader,    \* control point of ProcessOutput
  wait,      \* cmd.Wait: waiting, or returned with the pipe closed
  written,   \* history: what has been written
  lost       \* history: what was in the pipe when Wait closed it

streamVars == <<pipe, buffer, line, printed>>
outputVars == <<process, heirs, streamVars, reader, wait, written, lost>>

OutputTypeOK ==
  /\ process \in {"runs", "ended"}
  /\ heirs \in BOOLEAN
  /\ {pipe, buffer, line, printed, written, lost} \subseteq Seq(Pieces)
  /\ Len(pipe) <= PipeSize
  /\ \A i \in DOMAIN line : line[i].newline <=> i = Len(line)
  /\ reader \in {"read", "print", "end"}
  /\ wait \in {"waits", "returned"}

OutputInit ==
  /\ process = "runs"
  /\ heirs \in BOOLEAN
  /\ pipe = <<>> /\ buffer = <<>> /\ line = <<>> /\ printed = <<>>
  /\ reader = "read"
  /\ wait = "waits"
  /\ written = <<>> /\ lost = <<>>
-----------------------------------------------------------------------------
(* The process and cmd.Wait. *)

WriteOpen == process = "runs" \/ heirs

\* A write blocks while the pipe is full, and fails once it is closed.
Write(newline) ==
  LET piece == [number |-> Len(written) + 1, newline |-> newline]
  IN /\ WriteOpen /\ wait = "waits"
     /\ Len(pipe) < PipeSize /\ Len(written) < MaxWrites
     /\ pipe' = Append(pipe, piece)
     /\ written' = Append(written, piece)
     /\ UNCHANGED <<process, heirs, buffer, line, printed, reader, wait, lost>>

ProcessEnds ==
  /\ process = "runs"
  /\ process' = "ended"
  /\ UNCHANGED <<heirs, streamVars, reader, wait, written, lost>>

\* cmd.Wait returns and closes the pipe over what nobody has read.
ClosePipe ==
  /\ wait = "waits"
  /\ wait' = "returned"
  /\ lost' = pipe
  /\ pipe' = <<>>
  /\ UNCHANGED <<process, heirs, buffer, line, printed, reader, written>>

\* Mutant of Wait: the pipe is closed when its last writer has gone.
WaitForHeirs == ~WriteOpen /\ ClosePipe

\* It does not wait for the reader, nor for other writers.
Wait == process = "ended" /\ ClosePipe
-----------------------------------------------------------------------------
(* ProcessOutput. *)

LineEnds == {i \in DOMAIN buffer : buffer[i].newline}
FirstLineEnd == CHOOSE i \in LineEnds : \A j \in LineEnds : i <= j

\* ReadString reads on while it has no newline, and adds to what it kept.
ReadOn(kept, lengths) ==
  /\ reader = "read" /\ LineEnds = {}
  /\ \E n \in lengths :
       /\ buffer' = kept \o SubSeq(pipe, 1, n)
       /\ pipe' = SubSeq(pipe, n + 1, Len(pipe))
  /\ UNCHANGED <<process, heirs, line, printed, reader, wait, written, lost>>

\* Mutants of Fill: a new read takes the place of what was read before; the reader
\* takes from the pipe only what ends in a newline.
FillOverwrites == ReadOn(<<>>, 1..Len(pipe))
FillLines == ReadOn(buffer, {n \in DOMAIN pipe : pipe[n].newline})

\* It gets what there is.
Fill == ReadOn(buffer, 1..Len(pipe))

\* ReadString returns the first n pieces of what was read.
ReturnLine(n) ==
  /\ reader = "read" /\ LineEnds # {}
  /\ line' = SubSeq(buffer, 1, n)
  /\ buffer' = SubSeq(buffer, n + 1, Len(buffer))
  /\ reader' = "print"
  /\ UNCHANGED <<process, heirs, pipe, printed, wait, written, lost>>

\* Mutant of ReadString: everything read so far is taken for a line.
ReadStringAll == ReturnLine(Len(buffer))

\* They are the first line.
ReadString == ReturnLine(FirstLineEnd)

\* The line is logged under its level, or printed as it is.
PrintLine ==
  /\ reader = "print"
  /\ printed' = printed \o line
  /\ line' = <<>>
  /\ reader' = "read"
  /\ UNCHANGED <<process, heirs, pipe, buffer, wait, written, lost>>

\* End of file, or the pipe is closed: the goroutine ends.
ReaderStops ==
  /\ reader = "read"
  /\ wait = "returned" \/ (~WriteOpen /\ pipe = <<>>)
  /\ reader' = "end"
  /\ UNCHANGED <<process, heirs, streamVars, wait, written, lost>>

\* Mutant of ReadFails: the goroutine ends as soon as the pipe is closed.
ReadFailsEarly == ReaderStops

\* ReadString returns an error with the piece of a line it has.
ReadFails == LineEnds = {} /\ ReaderStops

ReadOutput == Fill \/ ReadString \/ PrintLine \/ ReadFails

OutputNext ==
  \/ \E newline \in BOOLEAN : Write(newline)
  \/ ProcessEnds \/ Wait \/ ReadOutput

\* The process may go on without writing.
Quiet == UNCHANGED outputVars

OutputSpec == OutputInit /\ [][OutputNext \/ Quiet]_outputVars

\* The goroutines go on; nothing is assumed of the process.
OutputFairSpec == OutputSpec /\ WF_outputVars(ReadOutput) /\ WF_outputVars(Wait)
-----------------------------------------------------------------------------
(* Properties. *)

\* Nothing is lost, repeated or reordered while the process runs, however its
\* writes are cut into reads; what is lost later is one piece of the end, which
\* Wait threw away unread (process.go:380, 393, 652).
OutputInOrder ==
  /\ printed \o line \o buffer \o pipe \o lost = written
  /\ process = "runs" => lost = <<>>

\* Every complete line that was read is printed before the goroutine ends, also
\* when the pipe is closed under it; only an unterminated rest is dropped
\* (process.go:652-655).
ReadLinesPrinted == reader = "end" => line = <<>> /\ LineEnds = {}

\* A process that is blocked on a full pipe gets room, whatever it writes.
NeverBlockedForGood == Len(pipe) = PipeSize ~> Len(pipe) < PipeSize

\* The goroutine ends with its process, also when a child of the process keeps
\* the pipe open: Wait closes it (process.go:354, 393).
ReaderEnds == process = "ended" ~> reader = "end"
=============================================================================
