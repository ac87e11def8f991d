------------------------------ MODULE AuditLog -------------------------------
(***************************************************************************)
(* The audit log of openwrt-mcp (store/audit.py): one file, to which every *)
(* process with an AuditLog appends, the servers, one for each client, and *)
(* the commands in which a person approves a plan (approval/cli.py).  Each *)
(* record carries the hash of the one before it, as its process knows it:  *)
(* it has read the last one once, at its start.                            *)
(*                                                                         *)
(* A hash stands for the records it is computed from, so that a digest has *)
(* one source.  A process that is killed in a write is one whose write     *)
(* fails and that stops.  Nobody else writes to the file.                  *)
(***************************************************************************)
EXTENDS Integers, Sequences, FiniteSets

CONSTANTS
  Servers, Commands,
  Events, Approvals,  \* what they record: time, event and fields
  MaxLines, MaxFaults

Bodies == Events \cup Approvals

ASSUME TornAssumption == "torn" \notin Bodies
ASSUME BoundsAssumption == MaxLines \in Nat /\ MaxFaults \in Nat

VARIABLES
  file,        \* the lines of audit.jsonl
  ended,       \* the last line has its newline
  running,     \* the processes that have an AuditLog
  last,        \* _last of each of them
  overlapped,  \* two processes have had one at a time
  written,     \* how many events record() took for written
  faults

vars == <<file, ended, running, last, overlapped, written, faults>>

Writers == Servers \cup Commands
BodiesOf(w) == IF w \in Commands THEN Approvals ELSE Events

-----------------------------------------------------------------------------
(* Lines and hashes.                                                       *)

Genesis == <<>>
Digest(prev, body) == Append(prev, body)

Entry(prev, body) == [prev |-> prev, body |-> body, hash |-> Digest(prev, body)]

\* A line that is no record, to whoever reads it.
Torn == [prev |-> Genesis, body |-> "torn", hash |-> Genesis]
Readable(line) == line.body # "torn"

\* _read_last_hash, which falls back to _GENESIS
LastHash(lines) == IF lines = <<>> THEN Genesis ELSE lines[Len(lines)].hash

\* verify
Intact(lines) ==
  \A i \in 1..Len(lines) :
    /\ Readable(lines[i])
    /\ lines[i].prev = IF i = 1 THEN Genesis ELSE lines[i - 1].hash
    /\ lines[i].hash = Digest(lines[i].prev, lines[i].body)

\* Mutant of Added: the file is opened to be written, not to be appended to.
Overwritten(line) == <<line>>

\* The file once a line is added; one without its newline takes it in.
Added(line) ==
  IF ended THEN Append(file, line) ELSE [file EXCEPT ![Len(file)] = Torn]

-----------------------------------------------------------------------------
Init ==
  /\ file = <<>> /\ ended = TRUE
  /\ running = {} /\ last = [w \in Writers |-> Genesis]
  /\ overlapped = FALSE /\ written = 0 /\ faults = 0

Faulty == faults < MaxFaults /\ faults' = faults + 1

\* AuditLog.__init__; a file that cannot be read is taken for a new one.
Start(w) ==
  /\ w \notin running
  /\ running' = running \cup {w}
  /\ overlapped' = (overlapped \/ running # {})
  /\ \/ last' = [last EXCEPT ![w] = LastHash(file)] /\ UNCHANGED faults
     \/ last' = [last EXCEPT ![w] = Genesis] /\ Faulty
  /\ UNCHANGED <<file, ended, written>>

Stop(w) ==
  /\ w \in running /\ running' = running \ {w}
  /\ UNCHANGED <<file, ended, last, overlapped, written, faults>>

\* An approve command records its grant and ends, well or not.
Goes(w) == running' = IF w \in Commands THEN running \ {w} ELSE running

\* Mutants of Record: what was written last is not kept; the newline is missing.
RecordForgets(w, body) ==
  /\ w \in running /\ Len(file) < MaxLines
  /\ file' = Added(Entry(last[w], body)) /\ ended' = TRUE
  /\ written' = written + 1 /\ Goes(w)
  /\ UNCHANGED <<last, overlapped, faults>>
RecordJoins(w, body) ==
  /\ w \in running /\ Len(file) < MaxLines
  /\ file' = Added(Entry(last[w], body)) /\ ended' = FALSE
  /\ last' = [last EXCEPT ![w] = Digest(@, body)]
  /\ written' = written + 1 /\ Goes(w)
  /\ UNCHANGED <<overlapped, faults>>

\* record
Record(w, body) ==
  /\ w \in running /\ Len(file) < MaxLines
  /\ file' = Added(Entry(last[w], body)) /\ ended' = TRUE
  /\ last' = [last EXCEPT ![w] = Digest(@, body)]
  /\ written' = written + 1 /\ Goes(w)
  /\ UNCHANGED <<overlapped, faults>>

\* A write that fails, of which nothing is in the file, a part of the line, or
\* all of it but the newline.  The error is logged and the process goes on.
RecordFails(w, body) ==
  /\ w \in running /\ Len(file) < MaxLines
  /\ \/ UNCHANGED <<file, ended>>
     \/ /\ \E line \in {Torn, Entry(last[w], body)} : file' = Added(line)
        /\ ended' = FALSE
  /\ Faulty /\ Goes(w)
  /\ UNCHANGED <<last, overlapped, written>>

Next ==
  \E w \in Writers :
    \/ Start(w) \/ Stop(w)
    \/ \E body \in BodiesOf(w) : Record(w, body) \/ RecordFails(w, body)

Spec == Init /\ [][Next]_vars

-----------------------------------------------------------------------------
(* Properties.                                                             *)

TypeOK ==
  /\ file \in Seq([prev : Seq(Bodies), body : Bodies, hash : Seq(Bodies)] \cup {Torn})
  /\ ended \in BOOLEAN /\ (file = <<>> => ended)
  /\ running \subseteq Writers /\ last \in [Writers -> Seq(Bodies)]
  /\ overlapped \in BOOLEAN /\ written \in Nat /\ faults \in Nat

\* What the smoke test says of the log, and the RUNBOOK.
HashChainIntact == Intact(file)

\* With one process at a time the chain verifies, over any number of restarts:
\* each goes on from the last line of the one before.
ChainHolds == ~overlapped /\ faults = 0 => Intact(file)

\* Processes that overlap fork the chain and lose nothing of it: each record
\* follows one before it in the file, or starts the chain.
RecordsFollow ==
  faults = 0 =>
    \A i \in 1..Len(file) :
      /\ Readable(file[i])
      /\ \/ file[i].prev = Genesis
         \/ \E j \in 1..i-1 : file[j].hash = file[i].prev

\* An event that record() took for written can be read in the file, but for one
\* at most for each write that failed: the line after one that was cut off is
\* lost with it.
EventsKept ==
  written - Cardinality({i \in 1..Len(file) : Readable(file[i])}) <= faults

\* A log that does not verify never does again, whatever is appended to it.
BrokenStays == [][~Intact(file) => ~Intact(file')]_vars

=============================================================================
