------------------------------- MODULE ExecLog -------------------------------
(***************************************************************************)
(* The log file of one exec (internal/exec/log.go), byte by byte: the      *)
(* frames a LogWriter appends, writes that stop short, a daemon that dies  *)
(* in the middle of one, and the repair of the torn tail when the file is  *)
(* next opened.  FollowLogs adds the command that prints it.               *)
(*                                                                         *)
(* A byte is a small number.  The header is one byte for the stream and    *)
(* one for the length, where the code has one and four.                    *)
(***************************************************************************)
EXTENDS Naturals, Sequences

CONSTANTS
  Streams,          \* stdout, stderr and gap, as bytes
  Payloads,         \* what is written, as sequences of bytes
  MaxFramePayload,  \* longest payload of a frame
  maxBytes,         \* cap of the file
  MaxFaults,        \* bound: writes that stop short
  MaxCrashes        \* bound: deaths of the daemon

ASSUME SizesAssumption ==
  /\ MaxFramePayload \in Nat /\ maxBytes \in Nat
  /\ MaxFaults \in Nat /\ MaxCrashes \in Nat
  /\ Streams \subseteq Nat
  /\ \A data \in Payloads : data \in Seq(Nat) /\ Len(data) <= MaxFramePayload

VARIABLES
  file,    \* the bytes of the file
  w,       \* the LogWriter
  spent    \* how much of each bound is used up

logVars == <<file, w, spent>>

headerSize == 2
LogRecord  == [stream : Streams, data : Payloads]

\* data longer than a frame holds is refused before anything is written.
Frame(stream, data) == <<stream, Len(data)>> \o data

NoWriter  == [open |-> FALSE, offset |-> 0, truncated |-> FALSE, failed |-> FALSE]
NewWriter(size) == [NoWriter EXCEPT !.open = TRUE, !.offset = size]

LogTypeOK ==
  /\ file \in Seq(Nat) /\ Len(file) <= maxBytes
  /\ w \in [open : BOOLEAN, offset : Nat, truncated : BOOLEAN, failed : BOOLEAN]
  /\ spent \in [faults : 0 .. MaxFaults, crashes : 0 .. MaxCrashes]

LogInit ==
  /\ file = <<>>
  /\ w = NoWriter
  /\ spent = [faults |-> 0, crashes |-> 0]

-------------------------------------------------------------------------------
(* Walking the frames of a file                                              *)

\* A frame starts at o and all of it is there.
Whole(f, o) ==
  /\ o + headerSize <= Len(f)
  /\ f[o + 2] <= MaxFramePayload
  /\ o + headerSize + f[o + 2] <= Len(f)

After(f, o) == o + headerSize + f[o + 2]

\* The last boundary of a walk from the start of the file.
LastBoundary(f) ==
  LET walk[o \in Nat] == IF Whole(f, o) THEN walk[After(f, o)] ELSE o
  IN walk[0]

Repaired(f) == SubSeq(f, 1, LastBoundary(f))

\* ReadRecords: the frames from an offset on, up to the first that is not whole,
\* each with the offset behind it.
ReadRecords(f, from) ==
  LET read[o \in Nat] ==
        IF Whole(f, o)
        THEN <<[stream |-> f[o + 1], data |-> SubSeq(f, o + headerSize + 1, After(f, o)),
                offset |-> After(f, o)]>> \o read[After(f, o)]
        ELSE <<>>
  IN read[from]

\* Records without the offsets behind them.
Content(records) ==
  [i \in DOMAIN records |-> [stream |-> records[i].stream, data |-> records[i].data]]

-------------------------------------------------------------------------------
(* The writer                                                                *)

\* NewLogWriter; nobody has the file open.
Open ==
  /\ ~w.open
  /\ file' = Repaired(file)
  /\ w' = NewWriter(Len(file'))
  /\ UNCHANGED spent

Usable == w.open /\ ~w.failed /\ ~w.truncated

\* Mutant: the cap is compared with the payload only.
Fits_PayloadOnly(data) == w.offset + Len(data) <= maxBytes

Fits(data) == w.offset + headerSize + Len(data) <= maxBytes

AppendFrame(stream, data) ==
  /\ Usable /\ Fits(data)
  /\ file' = file \o Frame(stream, data)
  /\ w' = [w EXCEPT !.offset = @ + headerSize + Len(data)]
  /\ UNCHANGED spent

\* A frame that does not fit turns the writer off for good.
AppendTruncates(data) ==
  /\ Usable /\ ~Fits(data)
  /\ w' = [w EXCEPT !.truncated = TRUE]
  /\ UNCHANGED <<file, spent>>

\* Mutant: the writer goes on after a short write.
AppendFails_GoesOn(stream, data, n) ==
  /\ Usable /\ Fits(data)
  /\ n < headerSize + Len(data)
  /\ spent.faults < MaxFaults
  /\ spent' = [spent EXCEPT !.faults = @ + 1]
  /\ file' = file \o SubSeq(Frame(stream, data), 1, n)
  /\ w' = [w EXCEPT !.offset = Len(file')]

\* The write stops short after n bytes; the writer is off from then on.
AppendFails(stream, data, n) ==
  /\ Usable /\ Fits(data)
  /\ n < headerSize + Len(data)
  /\ spent.faults < MaxFaults
  /\ spent' = [spent EXCEPT !.faults = @ + 1]
  /\ file' = file \o SubSeq(Frame(stream, data), 1, n)
  /\ w' = [w EXCEPT !.offset = Len(file'), !.failed = TRUE]

Close ==
  /\ w.open
  /\ w' = NoWriter
  /\ UNCHANGED <<file, spent>>

\* The daemon dies, after n bytes of a frame that it was appending.
Dies(stream, data, n) ==
  /\ spent.crashes < MaxCrashes
  /\ spent' = [spent EXCEPT !.crashes = @ + 1]
  /\ w' = NoWriter
  /\ n <= headerSize + Len(data)
  /\ IF Usable /\ Fits(data)
     THEN file' = file \o SubSeq(Frame(stream, data), 1, n)
     ELSE UNCHANGED file

-------------------------------------------------------------------------------

Write ==
  \/ Open \/ Close
  \/ \E stream \in Streams, data \in Payloads :
       \/ AppendFrame(stream, data)
       \/ \E n \in 0 .. headerSize + MaxFramePayload : AppendFails(stream, data, n)
  \/ \E data \in Payloads : AppendTruncates(data)
==============================================================================
