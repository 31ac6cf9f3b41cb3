----------------------------- MODULE RuntimeFile -----------------------------
(***************************************************************************)
(* The binary files between setup and runtime: the garbled artifact of     *)
(* either backend (active_garbled_circuit_io) and the circuit shape        *)
(* (boolean_circuit_io).  Nothing but order tells the reader what a number *)
(* is, so it must read the fields exactly as they were written.            *)
(*                                                                         *)
(* Several loops read two fields in the argument list of one call,         *)
(*     constant_labels.emplace(ReadU64(in), ReadBlock(in))                 *)
(* and C++ leaves the order of such arguments to the compiler: g++ reads   *)
(* the last one first, clang++ the first one first.  Fields read one per   *)
(* statement, or inside braces, have a fixed order.                        *)
(*                                                                         *)
(* A file is a sequence of cells; a cell is a 64-bit number or as much of  *)
(* a label.  A writer may be killed, which leaves a prefix of the file.    *)
(***************************************************************************)
EXTENDS Integers, SequencesExt

CONSTANTS
  Formats,          \* which formats are exercised
  ArgumentOrders,   \* the orders a compiler may read arguments in
  FirstPayload,     \* label cells are numbers around this one
  MaxRecords        \* bound: records in a counted section

ASSUME ConstantsAssumption ==
  /\ Formats \subseteq {"EMP", "MIN", "SHAPE"}
  /\ ArgumentOrders \subseteq {"first to last", "last to first"}
  /\ MaxRecords \in Nat
  /\ FirstPayload \in Nat

VARIABLES
  format,           \* the writer's backend, or the shape
  reader, order,    \* the reader's backend, and its compiler's order
  written,          \* what the writer was given: records, per section
  file,             \* the cells on disk
  pos,              \* the reader's position
  loaded,           \* the sections read so far
  stage             \* "write", "read", "loaded", "refused"

fileVars == <<format, reader, order, written, file, pos, loaded, stage>>

-----------------------------------------------------------------------------
(* The layout.  A section is a count and that many records, or one record; *)
(* `arguments` says that its two fields are arguments of one call.         *)

One(fields) == [counted |-> FALSE, fields |-> fields, arguments |-> FALSE]
Many(fields) == [counted |-> TRUE, fields |-> fields, arguments |-> FALSE]
ManyArguments(fields) ==
  [counted |-> TRUE, fields |-> fields, arguments |-> TRUE]

Magic(fmt) == CASE fmt = "EMP" -> 91 [] fmt = "MIN" -> 92 [] fmt = "SHAPE" -> 93

(* The magic is first; the names, the flat wire vectors and the scalar     *)
(* fields that follow it are read one per statement and are left out,      *)
(* except for one vector.  (A MIN gate's table and output decoding are     *)
(* nested in its record; here they are sections of their own.)             *)
Layout(fmt) ==
  CASE fmt = "EMP" ->
         <<One(<<"u64", "vector">>),                  \* magic, input_wires
           Many(<<"u64", "block", "block">>),         \* public_input_labels
           ManyArguments(<<"u64", "block">>),         \* constant_labels
           ManyArguments(<<"u64", "block">>),         \* output_zero_labels
           Many(<<"block">>)>>                        \* transcript
    [] fmt = "MIN" ->
         <<One(<<"u64", "vector">>),
           ManyArguments(<<"u64", "string">>),        \* constant_labels
           Many(<<"u64", "vector", "u64">>),          \* gates
           Many(<<"string", "string">>),              \* gate.table
           Many(<<"u64", "string", "string">>),       \* public_input_labels
           ManyArguments(<<"string", "u64">>)>>       \* output_decoding
    [] fmt = "SHAPE" ->
         <<One(<<"u64", "vector">>),
           Many(<<"u64">>),                           \* secret_constant_wires
           Many(<<"u64", "string">>),                 \* wires
           Many(<<"u64", "vector", "u64">>)>>         \* gates

(* Mutant: a string is written without its size.                           *)
CellsUnsized(type, value) ==
  CASE type = "u64" -> <<value>>
    [] type \in {"block", "string"} -> value
    [] type = "vector" -> <<Len(value)>> \o value

(* Cells per label: a block has two, a string its size and its characters. *)
Cells(type, value) ==
  CASE type = "u64" -> <<value>>
    [] type = "block" -> value
    [] type \in {"string", "vector"} -> <<Len(value)>> \o value

(* What a loop writes: the cells of the first n parts.                     *)
Joined(parts, n) ==
  LET joined[k \in 0 .. n] ==
        IF k = 0 THEN <<>> ELSE joined[k - 1] \o parts[k]
  IN  joined[n]

RecordCells(section, record) ==
  Joined([k \in DOMAIN section.fields |->
            Cells(section.fields[k], record[k])], Len(section.fields))

SectionCells(section, records) ==
  (IF section.counted THEN <<Len(records)>> ELSE <<>>)
    \o Joined([k \in DOMAIN records |-> RecordCells(section, records[k])],
              Len(records))

FileCells(fmt, content) ==
  Joined([s \in DOMAIN Layout(fmt) |-> SectionCells(Layout(fmt)[s], content[s])],
         Len(Layout(fmt)))

-----------------------------------------------------------------------------
(* Reading.  A cursor is a position and what was read up to it; a read     *)
(* past the end of the file throws and stays thrown.                       *)

Thrown == [at |-> 0, got |-> <<>>]

(* Mutant: the end of the file is not checked, missing cells read as 0.    *)
TakeUnchecked(cursor, count) ==
  IF cursor.at = 0 THEN Thrown
  ELSE [at |-> cursor.at + count,
        got |-> Append(cursor.got,
                  [k \in 1 .. count |->
                     IF cursor.at + k - 1 <= Len(file)
                     THEN file[cursor.at + k - 1] ELSE 0])]

Take(cursor, count) ==
  IF cursor.at = 0 \/ cursor.at + count - 1 > Len(file) THEN Thrown
  ELSE [at |-> cursor.at + count,
        got |-> Append(cursor.got,
                       SubSeq(file, cursor.at, cursor.at + count - 1))]

(* ReadU64, ReadBlock, and ReadString or ReadWireVector.                   *)
ReadField(cursor, type) ==
  LET first == Take(cursor, 1)
      number == Last(first.got)[1]
  IN  CASE type = "block" -> Take(cursor, 2)
        [] type = "u64" ->
             IF first = Thrown THEN Thrown
             ELSE [at |-> first.at, got |-> Append(cursor.got, number)]
        [] type \in {"string", "vector"} ->
             IF first = Thrown THEN Thrown
             ELSE Take([at |-> first.at, got |-> cursor.got], number)

(* The fields one after the other; of arguments, perhaps the last first.   *)
ReadRecord(cursor, section) ==
  LET fields == section.fields
      backwards == section.arguments /\ order = "last to first"
      after[k \in 0 .. Len(fields)] ==
        IF k = 0 THEN [at |-> cursor.at, got |-> <<>>]
        ELSE ReadField(after[k - 1], IF backwards THEN Reverse(fields)[k]
                                     ELSE fields[k])
      last == after[Len(fields)]
  IN  IF last = Thrown THEN Thrown
      ELSE [at |-> last.at,
            got |-> Append(cursor.got,
                      IF backwards THEN Reverse(last.got) ELSE last.got)]

ReadRecords(start, section, count) ==
  LET after[k \in 0 .. count] ==
        IF k = 0 THEN start ELSE ReadRecord(after[k - 1], section)
  IN  after[count]

ReadSection(section) ==
  LET start == [at |-> pos, got |-> <<>>]
      size  == ReadField(start, "u64")
  IN  IF ~section.counted THEN ReadRecords(start, section, 1)
      ELSE IF size = Thrown THEN Thrown
      ELSE ReadRecords([at |-> size.at, got |-> <<>>], section, size.got[1])

-----------------------------------------------------------------------------
(* What a writer may be given: every number of records per section, the    *)
(* ids of a section ascending (the writer sorts the keys of its maps), and *)
(* labels that are no small number.                                        *)

FieldValue(type, k) ==
  CASE type = "u64" -> k - 1
    [] type = "vector" -> [j \in 1 .. k |-> j - 1]
    [] type \in {"block", "string"} -> <<FirstPayload + k, FirstPayload - k>>

RecordsOf(section, count) ==
  [k \in 1 .. count |->
     [f \in DOMAIN section.fields |-> FieldValue(section.fields[f], k)]]

(* The header holds the magic and `count` input wires.                     *)
ContentOf(fmt, counts) ==
  [s \in DOMAIN Layout(fmt) |->
     IF s = 1 THEN <<<<Magic(fmt), FieldValue("vector", counts[1])>>>>
     ELSE RecordsOf(Layout(fmt)[s], counts[s])]

Contents(fmt) ==
  {ContentOf(fmt, counts) :
     counts \in [DOMAIN Layout(fmt) -> 0 .. MaxRecords]}

WholeFile == FileCells(format, written)

-----------------------------------------------------------------------------

Init ==
  /\ format \in Formats
  /\ order \in ArgumentOrders
  /\ reader \in IF format = "SHAPE" THEN {"SHAPE"} ELSE Formats \ {"SHAPE"}
  /\ written \in Contents(format)
  /\ file = <<>>
  /\ pos = 1
  /\ loaded = <<>>
  /\ stage = "write"

Write ==
  /\ stage = "write"
  /\ file' = WholeFile
  /\ stage' = "read"
  /\ UNCHANGED <<format, order, reader, written, pos, loaded>>

(* The writer is killed, or the disk is full: a prefix of the file.        *)
WriteCut ==
  /\ stage = "write"
  /\ \E n \in 0 .. Len(WholeFile) - 1 : file' = SubSeq(WholeFile, 1, n)
  /\ stage' = "read"
  /\ UNCHANGED <<format, order, reader, written, pos, loaded>>

NextSection == ReadSection(Layout(reader)[Len(loaded) + 1])

(* Mutant: an artifact of the other backend is read as one's own.          *)
MagicUnchecked(section) == TRUE

(* The magic of the header must be the reader's.                           *)
MagicMatches(section) ==
  loaded = <<>> => section.got[1][1] = Magic(reader)

ReadNext ==
  /\ stage = "read"
  /\ Len(loaded) < Len(Layout(reader))
  /\ NextSection # Thrown
  /\ MagicMatches(NextSection)
  /\ loaded' = Append(loaded, NextSection.got)
  /\ pos' = NextSection.at
  /\ UNCHANGED <<format, order, reader, written, file, stage>>

(* Every field is checked for the end of the file.                         *)
ReadThrows ==
  /\ stage = "read"
  /\ Len(loaded) < Len(Layout(reader))
  /\ NextSection # Thrown => ~MagicMatches(NextSection)
  /\ stage' = "refused"
  /\ UNCHANGED <<format, order, reader, written, file, pos, loaded>>

ReadReturns ==
  /\ stage = "read"
  /\ Len(loaded) = Len(Layout(reader))
  /\ stage' = "loaded"
  /\ UNCHANGED <<format, order, reader, written, file, pos, loaded>>

Next == Write \/ WriteCut \/ ReadNext \/ ReadThrows \/ ReadReturns

Spec == Init /\ [][Next]_fileVars

-----------------------------------------------------------------------------

(* What a reader returns is what some writer of its own backend was given, *)
(* section by section: no field is taken for another one.                  *)
LoadedIsWritten == stage = "loaded" => reader = format /\ loaded = written

(* A file that was cut short anywhere is refused by the end-of-file checks *)
(* alone, with no length and no checksum: what the pipeline's Torn assumes.*)
CutFileIsRefused == stage = "loaded" => file = WholeFile

(* A reader refuses nothing else: the whole file of its own backend loads. *)
OwnWholeFileLoads ==
  stage = "refused" => file # WholeFile \/ reader # format

(* tests/test_fixed_runtime_demo.sh:10-28 builds setup and runtime with    *)
(* g++, lets the one write what the other reads, and expects the runtime   *)
(* to reveal 1,1,1,1,1,0 from it: the file must be read back as written.   *)
SetupFileIsReadBack ==
  stage \in {"loaded", "refused"} /\ file = WholeFile /\ reader = format =>
    loaded = written
=============================================================================
