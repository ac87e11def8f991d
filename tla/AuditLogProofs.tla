--------------------------- MODULE AuditLogProofs ----------------------------
(***************************************************************************)
(* Proofs about AuditLog, for any number of processes, lines and faults.   *)
(*                                                                         *)
(* What a process knows of the file is its _last.  Alone, it has the hash  *)
(* of the last line (Current); among others, that of a line, and the file  *)
(* need not be longer for it to be found there (Known).  Neither is so     *)
(* after a failed write, which leaves a line without its end: the events   *)
(* that were written and cannot be read are counted against the failures   *)
(* together with the one that such a line is going to take (Counted).      *)
(***************************************************************************)
EXTENDS AuditLog, FiniteSetTheorems, TLAPS

Lines == [prev : Seq(Bodies), body : Bodies, hash : Seq(Bodies)] \cup {Torn}

-----------------------------------------------------------------------------
(* Adding a line.                                                          *)

LEMMA EntryIsLine ==
  ASSUME NEW prev \in Seq(Bodies), NEW body \in Bodies
  PROVE  /\ Entry(prev, body) \in Lines /\ Readable(Entry(prev, body))
         /\ Entry(prev, body).prev = prev /\ Entry(prev, body).body = body
         /\ Entry(prev, body).hash = Digest(prev, body) /\ Digest(prev, body) \in Seq(Bodies)
<1>1. body # "torn"
  BY TornAssumption
<1> QED
  BY <1>1 DEF Entry, Digest, Lines, Readable

LEMMA TornIsLine ==
  /\ Torn \in Lines /\ Torn.prev = Genesis /\ Torn.hash = Genesis /\ ~Readable(Torn)
  /\ Genesis \in Seq(Bodies)
BY DEF Torn, Lines, Readable, Genesis

LEMMA LinesAre ==
  ASSUME NEW line \in Lines
  PROVE  /\ line.prev \in Seq(Bodies) /\ line.hash \in Seq(Bodies)
         /\ Readable(line) <=> line # Torn
<1>1. CASE line = Torn
  BY <1>1, TornIsLine
<1>2. CASE line \in [prev : Seq(Bodies), body : Bodies, hash : Seq(Bodies)]
  BY <1>2, TornAssumption, TornIsLine DEF Readable
<1> QED
  BY <1>1, <1>2 DEF Lines

\* A line behind a whole one is added, one behind a line without its end is
\* lost with it; the lines before stay what they were.
LEMMA AddedIs ==
  ASSUME TypeOK, NEW line \in Lines
  PROVE  /\ Added(line) \in Seq(Lines) /\ Added(line) # <<>>
         /\ ended => /\ Len(Added(line)) = Len(file) + 1 /\ Added(line)[Len(file) + 1] = line
                     /\ \A i \in 1..Len(file) : Added(line)[i] = file[i]
         /\ ~ended => /\ Len(file) > 0 /\ Len(Added(line)) = Len(file)
                      /\ Added(line)[Len(file)] = Torn
                      /\ \A i \in 1..Len(file)-1 : Added(line)[i] = file[i]
<1>1. file \in Seq(Lines) /\ Len(file) \in Nat
  BY DEF TypeOK, Lines
<1>2. CASE ended
  <2>1. Added(line) = Append(file, line)
    BY <1>2 DEF Added
  <2> QED
    BY <1>1, <1>2, <2>1
<1>3. CASE ~ended
  <2>1. file # <<>> /\ Len(file) > 0
    BY <1>1, <1>3 DEF TypeOK
  <2>2. Added(line) = [file EXCEPT ![Len(file)] = Torn]
    BY <1>3 DEF Added
  <2>3. Added(line) \in Seq(Lines) /\ Len(Added(line)) = Len(file)
    BY <1>1, <2>1, <2>2, TornIsLine
  <2>4. Added(line)[Len(file)] = Torn /\ \A i \in 1..Len(file)-1 : Added(line)[i] = file[i]
    BY <1>1, <2>1, <2>2
  <2>5. Added(line) # <<>>
    BY <1>1, <2>1, <2>3
  <2> QED
    BY <1>3, <2>1, <2>3, <2>4, <2>5
<1> QED
  BY <1>2, <1>3

LEMMA LastHashIs ==
  ASSUME TypeOK
  PROVE  /\ LastHash(file) \in Seq(Bodies)
         /\ LastHash(file) = Genesis \/ \E j \in 1..Len(file) : file[j].hash = LastHash(file)
<1>1. file \in Seq(Lines) /\ Len(file) \in Nat
  BY DEF TypeOK, Lines
<1>2. CASE file = <<>>
  BY <1>2, TornIsLine DEF LastHash
<1>3. CASE file # <<>>
  <2>1. Len(file) \in 1..Len(file) /\ file[Len(file)] \in Lines
    BY <1>1, <1>3
  <2> QED
    BY <1>3, <2>1, LinesAre DEF LastHash
<1> QED
  BY <1>2, <1>3

-----------------------------------------------------------------------------
(* Types.                                                                  *)

LEMMA TypeInit == Init => TypeOK
<1> SUFFICES ASSUME Init PROVE TypeOK
  OBVIOUS
<1>1. file \in Seq(Lines)
  BY DEF Init
<1>2. last \in [Writers -> Seq(Bodies)]
  BY TornIsLine DEF Init
<1> QED
  BY <1>1, <1>2 DEF Init, TypeOK, Lines

LEMMA TypeStep ==
  ASSUME TypeOK, [Next]_vars
  PROVE  TypeOK'
<1> USE DEF TypeOK
<1>1. ASSUME NEW w \in Writers, Start(w)
      PROVE  TypeOK'
  <2>1. last' \in [Writers -> Seq(Bodies)]
    BY <1>1, LastHashIs, TornIsLine DEF Start
  <2> QED
    BY <1>1, <2>1 DEF Start, Faulty
<1>2. ASSUME NEW w \in Writers, Stop(w)
      PROVE  TypeOK'
  BY <1>2 DEF Stop
<1>3. ASSUME NEW w \in Writers, NEW body \in Bodies, Record(w, body)
      PROVE  TypeOK'
  <2>1. last[w] \in Seq(Bodies)
    OBVIOUS
  <2>2. file' \in Seq(Lines) /\ ended'
    BY <1>3, <2>1, EntryIsLine, AddedIs DEF Record
  <2>3. last' \in [Writers -> Seq(Bodies)]
    BY <1>3, <2>1, EntryIsLine DEF Record
  <2>4. running' \subseteq Writers
    BY <1>3 DEF Record, Goes
  <2> QED
    BY <1>3, <2>2, <2>3, <2>4 DEF Record, Lines
<1>4. ASSUME NEW w \in Writers, NEW body \in Bodies, RecordFails(w, body)
      PROVE  TypeOK'
  <2>1. last[w] \in Seq(Bodies)
    OBVIOUS
  <2>2. file' \in Seq(Lines) /\ ended' \in BOOLEAN /\ (file' = <<>> => ended')
    <3>1. CASE UNCHANGED <<file, ended>>
      BY <3>1 DEF Lines
    <3>2. ASSUME NEW line \in {Torn, Entry(last[w], body)}, file' = Added(line), ended' = FALSE
          PROVE  file' \in Seq(Lines) /\ file' # <<>>
      BY <2>1, <3>2, EntryIsLine, TornIsLine, AddedIs
    <3> QED
      BY <1>4, <3>1, <3>2 DEF RecordFails
  <2>3. running' \subseteq Writers
    BY <1>4 DEF RecordFails, Goes
  <2> QED
    BY <1>4, <2>2, <2>3 DEF RecordFails, Lines, Faulty
<1>5. CASE UNCHANGED vars
  BY <1>5 DEF vars
<1> QED
  BY <1>1, <1>2, <1>3, <1>4, <1>5 DEF Next, BodiesOf, Bodies

\* Lines, hashes and what the processes know of them keep their type.
THEOREM TypeCorrect == Spec => []TypeOK
BY TypeInit, TypeStep, PTL DEF Spec

-----------------------------------------------------------------------------
(* One process at a time.                                                  *)

Current ==
  ~overlapped /\ faults = 0 =>
    /\ Intact(file) /\ ended
    /\ \A w \in running : running = {w} /\ last[w] = LastHash(file)

\* What follows from the last line goes on with the chain.
LEMMA IntactGrows ==
  ASSUME TypeOK, Intact(file), ended, NEW body \in Bodies
  PROVE  LET line == Entry(LastHash(file), body)
         IN  Intact(Added(line)) /\ LastHash(Added(line)) = Digest(LastHash(file), body)
<1> DEFINE line == Entry(LastHash(file), body)
           new  == Added(line)
<1>1. /\ line \in Lines /\ Readable(line) /\ line.prev = LastHash(file) /\ line.body = body
      /\ line.hash = Digest(LastHash(file), body)
  BY LastHashIs, EntryIsLine
<1>2. /\ Len(new) = Len(file) + 1 /\ new[Len(file) + 1] = line /\ new # <<>>
      /\ \A i \in 1..Len(file) : new[i] = file[i]
  BY <1>1, AddedIs
<1>3. Len(file) \in Nat /\ (Len(file) = 0 => file = <<>>) /\ (file = <<>> => Len(file) = 0)
  BY DEF TypeOK
<1> HIDE DEF line, new
<1>4. LastHash(new) = line.hash
  BY <1>2, <1>3 DEF LastHash
<1>5. ASSUME NEW i \in 1..Len(new)
      PROVE  /\ Readable(new[i])
             /\ new[i].prev = IF i = 1 THEN Genesis ELSE new[i - 1].hash
             /\ new[i].hash = Digest(new[i].prev, new[i].body)
  <2>1. CASE i \in 1..Len(file)
    <3>1. new[i] = file[i] /\ (i # 1 => new[i - 1] = file[i - 1])
      BY <1>2, <1>3, <2>1
    <3> QED
      BY <2>1, <3>1 DEF Intact
  <2>2. CASE i = Len(file) + 1
    <3>1. new[i] = line
      BY <1>2, <2>2
    <3>2. LastHash(file) = IF i = 1 THEN Genesis ELSE new[i - 1].hash
      BY <1>2, <1>3, <2>2 DEF LastHash
    <3> QED
      BY <1>1, <3>1, <3>2
  <2> QED
    BY <1>2, <1>3, <2>1, <2>2
<1> QED
  BY <1>1, <1>4, <1>5 DEF Intact, line, new

LEMMA CurrentStep ==
  ASSUME TypeOK, Current, [Next]_vars
  PROVE  Current'
<1> SUFFICES ASSUME ~overlapped', faults' = 0
             PROVE  /\ Intact(file)' /\ ended'
                    /\ \A v \in running' : running' = {v} /\ last'[v] = LastHash(file)'
  BY DEF Current
<1> USE DEF TypeOK
<1>1. ASSUME NEW w \in Writers, Start(w)
      PROVE  Current'
  <2>1. ~overlapped /\ running = {} /\ faults = 0
    <3>1. overlapped' = (overlapped \/ running # {})
      BY <1>1 DEF Start
    <3>2. ~overlapped /\ running = {}
      BY <3>1, Zenon
    <3>3. faults = 0
      BY <1>1 DEF Start, Faulty
    <3> QED
      BY <3>2, <3>3
  <2>2. running' = {w} /\ file' = file /\ ended' = ended /\ last'[w] = LastHash(file)
    BY <1>1, <2>1 DEF Start, Faulty
  <2>3. Intact(file') /\ ended' /\ LastHash(file') = LastHash(file)
    BY <2>1, <2>2 DEF Current
  <2> QED
    BY <2>2, <2>3 DEF Current
<1>2. ASSUME NEW w \in Writers, Stop(w)
      PROVE  Current'
  BY <1>2 DEF Stop, Current
<1>3. ASSUME NEW w \in Writers, NEW body \in Bodies, Record(w, body)
      PROVE  Current'
  <2>1. ~overlapped /\ faults = 0 /\ w \in running
    BY <1>3 DEF Record
  <2>2. Intact(file) /\ ended /\ running = {w} /\ last[w] = LastHash(file)
    BY <2>1 DEF Current
  <2>3. Intact(file') /\ LastHash(file') = Digest(LastHash(file), body)
    BY <1>3, <2>2, IntactGrows DEF Record
  <2>4. ended' /\ last'[w] = Digest(LastHash(file), body) /\ running' \subseteq {w}
    BY <1>3, <2>2 DEF Record, Goes
  <2> QED
    BY <2>3, <2>4 DEF Current
<1>4. ASSUME NEW w \in Writers, NEW body \in Bodies, RecordFails(w, body)
      PROVE  Current'
  BY <1>4 DEF RecordFails, Faulty
<1>5. CASE UNCHANGED vars
  BY <1>5 DEF vars, Current
<1> QED
  BY <1>1, <1>2, <1>3, <1>4, <1>5 DEF Next, BodiesOf, Bodies, Current

\* As long as no two processes have an AuditLog at a time and nothing fails, the
\* chain verifies, over any number of restarts and approvals.
THEOREM ChainAlwaysHolds == Spec => []ChainHolds
<1>1. Init => Current
  BY DEF Init, Current, Intact
<1>2. Current => ChainHolds
  BY DEF Current, ChainHolds
<1> QED
  BY <1>1, <1>2, CurrentStep, TypeCorrect, PTL DEF Spec

-----------------------------------------------------------------------------
(* Any number of processes, as long as no write fails.                     *)

Known(lines, hash) == hash = Genesis \/ \E j \in 1..Len(lines) : lines[j].hash = hash

Follow ==
  faults = 0 => ended /\ RecordsFollow /\ \A w \in running : Known(file, last[w])

LEMMA FollowStep ==
  ASSUME TypeOK, Follow, [Next]_vars
  PROVE  Follow'
<1> SUFFICES ASSUME faults' = 0
             PROVE  Follow'
  BY DEF Follow
<1> USE DEF TypeOK
<1>1. ASSUME NEW w \in Writers, Start(w)
      PROVE  Follow'
  <2>1. faults = 0 /\ running' = running \cup {w}
    BY <1>1 DEF Start, Faulty
  <2>2. file' = file /\ ended' = ended /\ last' = [last EXCEPT ![w] = LastHash(file)]
    BY <1>1 DEF Start, Faulty
  <2>3. Known(file, LastHash(file))
    BY LastHashIs DEF Known
  <2>4. \A v \in running' : Known(file', last'[v])
    BY <2>1, <2>2, <2>3 DEF Follow
  <2> QED
    BY <2>1, <2>2, <2>4 DEF Follow, Known, RecordsFollow
<1>2. ASSUME NEW w \in Writers, Stop(w)
      PROVE  Follow'
  BY <1>2 DEF Stop, Follow, Known, RecordsFollow
<1>3. ASSUME NEW w \in Writers, NEW body \in Bodies, Record(w, body)
      PROVE  Follow'
  <2> DEFINE line == Entry(last[w], body)
             n == Len(file)
  <2>1. faults = 0 /\ ended /\ RecordsFollow /\ \A v \in running : Known(file, last[v])
    BY <1>3 DEF Record, Follow
  <2>2. /\ line \in Lines /\ Readable(line) /\ line.prev = last[w]
        /\ line.hash = Digest(last[w], body)
    BY EntryIsLine
  <2>3. /\ n \in Nat /\ Len(file') = n + 1 /\ file'[n + 1] = line
        /\ \A i \in 1..n : file'[i] = file[i]
    BY <1>3, <2>1, <2>2, AddedIs DEF Record
  <2> HIDE DEF line, n
  <2>4. /\ ended' /\ running' \subseteq running /\ last'[w] = line.hash
        /\ \A v \in Writers : v # w => last'[v] = last[v]
    BY <1>3, <2>2 DEF Record, Goes
  <2>5. ASSUME NEW v \in running'
        PROVE  Known(file', last'[v])
    <3>1. CASE v = w
      BY <2>3, <2>4, <3>1 DEF Known
    <3>2. CASE v # w
      <4>1. last'[v] = last[v] /\ Known(file, last[v])
        BY <2>1, <2>4, <3>2
      <4> QED
        BY <2>3, <4>1 DEF Known, n
    <3> QED
      BY <3>1, <3>2
  <2>6. RecordsFollow'
    <3> SUFFICES ASSUME NEW i \in 1..Len(file')
                 PROVE  /\ Readable(file'[i])
                        /\ \/ file'[i].prev = Genesis
                           \/ \E j \in 1..i-1 : file'[j].hash = file'[i].prev
      BY DEF RecordsFollow
    <3>1. CASE i \in 1..n
      <4>1. /\ Readable(file[i])
            /\ file[i].prev = Genesis \/ \E j \in 1..i-1 : file[j].hash = file[i].prev
        BY <2>1, <3>1 DEF RecordsFollow, n
      <4>2. file'[i] = file[i] /\ \A j \in 1..i-1 : file'[j] = file[j]
        BY <2>3, <3>1
      <4> QED
        BY <4>1, <4>2
    <3>2. CASE i = n + 1
      <4>1. Known(file, last[w]) /\ file'[i] = line
        BY <1>3, <2>1, <2>3, <3>2 DEF Record
      <4>2. last[w] = Genesis \/ \E j \in 1..i-1 : file'[j].hash = last[w]
        BY <2>3, <3>2, <4>1 DEF Known, n
      <4> QED
        BY <2>2, <4>1, <4>2
    <3> QED
      BY <2>3, <3>1, <3>2
  <2> QED
    BY <2>4, <2>5, <2>6 DEF Follow
<1>4. ASSUME NEW w \in Writers, NEW body \in Bodies, RecordFails(w, body)
      PROVE  Follow'
  BY <1>4 DEF RecordFails, Faulty
<1>5. CASE UNCHANGED vars
  BY <1>5 DEF vars, Follow, Known, RecordsFollow
<1> QED
  BY <1>1, <1>2, <1>3, <1>4, <1>5 DEF Next, BodiesOf, Bodies

\* Overlapping processes fork the chain, but no record is left without the one
\* it follows: the log is a tree until a write fails.
THEOREM RecordsAlwaysFollow == Spec => []RecordsFollow
<1>1. Init => Follow
  BY DEF Init, Follow, RecordsFollow
<1>2. Follow => RecordsFollow
  BY DEF Follow, RecordsFollow
<1> QED
  BY <1>1, <1>2, FollowStep, TypeCorrect, PTL DEF Spec

-----------------------------------------------------------------------------
(* A chain that is broken.                                                 *)

LEMMA BrokenGrows ==
  ASSUME TypeOK, ~Intact(file), NEW line \in Lines
  PROVE  ~Intact(Added(line))
<1> DEFINE new == Added(line)
<1>1. Len(file) \in Nat
  BY DEF TypeOK
<1>2. PICK i \in 1..Len(file) :
        ~(/\ Readable(file[i])
          /\ file[i].prev = IF i = 1 THEN Genesis ELSE file[i - 1].hash
          /\ file[i].hash = Digest(file[i].prev, file[i].body))
  BY DEF Intact
<1>3. CASE ended
  <2>1. /\ Len(new) = Len(file) + 1 /\ new[i] = file[i]
        /\ i # 1 => new[i - 1] = file[i - 1]
    BY <1>1, <1>3, AddedIs
  <2>2. i \in 1..Len(new)
    BY <1>1, <2>1
  <2> QED
    BY <1>2, <2>1, <2>2 DEF Intact
<1>4. CASE ~ended
  <2>1. /\ Len(file) > 0 /\ Len(new) = Len(file) /\ new[Len(file)] = Torn
        /\ \A j \in 1..Len(file)-1 : new[j] = file[j]
    BY <1>4, AddedIs
  <2> HIDE DEF new
  <2>2. CASE i = Len(file)
    BY <1>1, <2>1, <2>2, TornIsLine DEF Intact, new
  <2>3. CASE i # Len(file)
    <3>1. new[i] = file[i] /\ (i # 1 => new[i - 1] = file[i - 1]) /\ i \in 1..Len(new)
      BY <1>1, <2>1, <2>3
    <3> QED
      BY <1>2, <3>1 DEF Intact, new
  <2> QED
    BY <2>2, <2>3
<1> QED
  BY <1>3, <1>4

\* Nothing that is appended mends a broken chain, so that the smoke test goes on
\* failing once it has.
THEOREM BrokenChainStays == Spec => BrokenStays
<1>1. TypeOK /\ [Next]_vars => [~Intact(file) => ~Intact(file')]_vars
  <2> SUFFICES ASSUME TypeOK, Next, ~Intact(file)
               PROVE  ~Intact(file')
    OBVIOUS
  <2>1. CASE file' = file
    BY <2>1
  <2>2. ASSUME NEW w \in Writers, NEW body \in Bodies,
               NEW line \in {Torn, Entry(last[w], body)}, file' = Added(line)
        PROVE  ~Intact(file')
    <3>1. line \in Lines
      BY EntryIsLine, TornIsLine DEF TypeOK
    <3> QED
      BY <2>2, <3>1, BrokenGrows
  <2> QED
    BY <2>1, <2>2 DEF Next, Start, Stop, Record, RecordFails, BodiesOf, Bodies
<1> QED
  BY <1>1, TypeCorrect, PTL DEF Spec, BrokenStays

-----------------------------------------------------------------------------
(* What cannot be read.                                                    *)

ReadableIn(lines) == {i \in 1..Len(lines) : Readable(lines[i])}

\* What the next event is going to cost.
Due == IF ended THEN 0 ELSE IF Readable(file[Len(file)]) THEN 2 ELSE 1

Counted == written - Cardinality(ReadableIn(file)) + Due <= faults

LEMMA ReadableFinite ==
  ASSUME TypeOK
  PROVE  IsFiniteSet(ReadableIn(file)) /\ Cardinality(ReadableIn(file)) \in Nat
<1>1. IsFiniteSet(1..Len(file))
  BY FS_Interval DEF TypeOK
<1> QED
  BY <1>1, FS_Subset, FS_CardinalityType DEF ReadableIn

\* A line that is added is one more to read if the file had its newline, and
\* one less if the line before it was whole but for that.
LEMMA ReadableGrows ==
  ASSUME TypeOK, NEW line \in Lines
  PROVE  /\ ended => Cardinality(ReadableIn(Added(line)))
                      = Cardinality(ReadableIn(file)) + IF Readable(line) THEN 1 ELSE 0
         /\ ~ended => Cardinality(ReadableIn(Added(line)))
                      = Cardinality(ReadableIn(file))
                        - IF Readable(file[Len(file)]) THEN 1 ELSE 0
<1> DEFINE new == Added(line)
           n == Len(file)
<1>1. n \in Nat /\ IsFiniteSet(ReadableIn(file)) /\ Cardinality(ReadableIn(file)) \in Nat
  BY ReadableFinite DEF TypeOK
<1>2. CASE ended
  <2>1. Len(new) = n + 1 /\ new[n + 1] = line /\ \A i \in 1..n : new[i] = file[i]
    BY <1>2, AddedIs
  <2> HIDE DEF new, n
  <2>2. ReadableIn(new) = ReadableIn(file) \cup IF Readable(line) THEN {n + 1} ELSE {}
    BY <1>1, <2>1 DEF ReadableIn, n
  <2>3. n + 1 \notin ReadableIn(file)
    BY <1>1 DEF ReadableIn, n
  <2>4. CASE Readable(line)
    <3>1. ReadableIn(new) = ReadableIn(file) \cup {n + 1}
      BY <2>2, <2>4
    <3>2. Cardinality(ReadableIn(new)) = Cardinality(ReadableIn(file)) + 1
      BY <1>1, <2>3, <3>1, FS_AddElement
    <3> QED
      BY <1>2, <2>4, <3>2 DEF new
  <2>5. CASE ~Readable(line)
    <3>1. ReadableIn(new) = ReadableIn(file)
      BY <2>2, <2>5
    <3> QED
      BY <1>1, <1>2, <2>5, <3>1 DEF new
  <2> QED
    BY <2>4, <2>5
<1>3. CASE ~ended
  <2>1. n > 0 /\ Len(new) = n /\ new[n] = Torn /\ \A i \in 1..n-1 : new[i] = file[i]
    BY <1>3, AddedIs
  <2> HIDE DEF new, n
  <2>2. ReadableIn(new) = ReadableIn(file) \ {n}
    BY <1>1, <2>1, TornIsLine DEF ReadableIn, n
  <2>3. n \in ReadableIn(file) <=> Readable(file[n])
    BY <1>1, <2>1 DEF ReadableIn, n
  <2>4. Cardinality(ReadableIn(new))
          = IF n \in ReadableIn(file) THEN Cardinality(ReadableIn(file)) - 1
            ELSE Cardinality(ReadableIn(file))
    BY <1>1, <2>2, FS_RemoveElement
  <2> QED
    BY <1>1, <1>3, <2>3, <2>4 DEF new, n
<1> QED
  BY <1>2, <1>3

LEMMA CountedStep ==
  ASSUME TypeOK, Counted, [Next]_vars
  PROVE  Counted'
<1>1. written \in Nat /\ faults \in Nat /\ Cardinality(ReadableIn(file)) \in Nat
  BY ReadableFinite DEF TypeOK
<1>2. CASE UNCHANGED <<file, ended, written>> /\ faults' \in {faults, faults + 1}
  <2>1. Due' = Due /\ ReadableIn(file)' = ReadableIn(file) /\ written' = written /\ Due \in 0..2
    BY <1>2 DEF Due, ReadableIn
  <2> QED
    BY <1>1, <1>2, <2>1 DEF Counted
<1>3. ASSUME NEW w \in Writers, NEW body \in Bodies, Record(w, body)
      PROVE  Counted'
  <2> DEFINE line == Entry(last[w], body)
  <2>1. line \in Lines /\ Readable(line)
    BY EntryIsLine DEF TypeOK
  <2>2. file' = Added(line) /\ Due' = 0 /\ written' = written + 1 /\ faults' = faults
    BY <1>3 DEF Record, Due
  <2> HIDE DEF line
  <2>3. Due \in 0..2 /\ Cardinality(ReadableIn(file')) = Cardinality(ReadableIn(file)) + 1 - Due
    BY <1>1, <2>1, <2>2, ReadableGrows DEF Due
  <2> QED
    BY <1>1, <2>2, <2>3 DEF Counted
<1>4. ASSUME NEW w \in Writers, NEW body \in Bodies, RecordFails(w, body)
      PROVE  Counted'
  <2>1. faults' = faults + 1 /\ written' = written
    BY <1>4 DEF RecordFails, Faulty
  <2>2. CASE UNCHANGED <<file, ended>>
    BY <1>2, <2>1, <2>2
  <2>3. ASSUME NEW line \in {Torn, Entry(last[w], body)}, file' = Added(line), ended' = FALSE
        PROVE  Counted'
    <3>1. line \in Lines
      BY EntryIsLine, TornIsLine DEF TypeOK
    <3>2. CASE ended
      <4>1. file'[Len(file')] = line
        BY <2>3, <3>1, <3>2, AddedIs
      <4>2. Due = 0 /\ Due' = 1 + IF Readable(line) THEN 1 ELSE 0
        BY <2>3, <3>2, <4>1 DEF Due
      <4>3. Cardinality(ReadableIn(file'))
              = Cardinality(ReadableIn(file)) + IF Readable(line) THEN 1 ELSE 0
        BY <2>3, <3>1, <3>2, ReadableGrows
      <4> QED
        BY <1>1, <2>1, <4>2, <4>3 DEF Counted
    <3>3. CASE ~ended
      <4>1. file'[Len(file')] = Torn
        BY <2>3, <3>1, <3>3, AddedIs
      <4>2. Due = 1 + (IF Readable(file[Len(file)]) THEN 1 ELSE 0) /\ Due' = 1
        BY <2>3, <3>3, <4>1, TornIsLine DEF Due
      <4>3. Cardinality(ReadableIn(file'))
              = Cardinality(ReadableIn(file)) - IF Readable(file[Len(file)]) THEN 1 ELSE 0
        BY <2>3, <3>1, <3>3, ReadableGrows
      <4> QED
        BY <1>1, <2>1, <4>2, <4>3 DEF Counted
    <3> QED
      BY <3>2, <3>3
  <2> QED
    BY <1>4, <2>2, <2>3 DEF RecordFails
<1>5. [Next]_vars => \/ UNCHANGED <<file, ended, written>> /\ faults' \in {faults, faults + 1}
                    \/ \E w \in Writers, body \in Bodies : Record(w, body) \/ RecordFails(w, body)
  BY DEF Next, vars, Start, Stop, Faulty, BodiesOf, Bodies
<1> QED
  BY <1>2, <1>3, <1>4, <1>5

\* However many processes write and however many of their writes fail, no more
\* events are lost that a process took for written than there were failures.
THEOREM EventsAreKept == Spec => []EventsKept
<1>1. Init => Counted
  <2> SUFFICES ASSUME Init PROVE Counted
    OBVIOUS
  <2>1. Due = 0 /\ ReadableIn(file) = {} /\ written = 0 /\ faults = 0
    BY DEF Init, Due, ReadableIn
  <2> QED
    BY <2>1, FS_EmptySet DEF Counted
<1>2. TypeOK /\ Counted => EventsKept
  <2> SUFFICES ASSUME TypeOK, Counted PROVE EventsKept
    OBVIOUS
  <2>1. written \in Nat /\ faults \in Nat /\ Cardinality(ReadableIn(file)) \in Nat /\ Due \in 0..2
    BY ReadableFinite DEF TypeOK, Due
  <2> QED
    BY <2>1 DEF Counted, EventsKept, ReadableIn
<1> QED
  BY <1>1, <1>2, CountedStep, TypeInit, TypeStep, PTL DEF Spec
=============================================================================
