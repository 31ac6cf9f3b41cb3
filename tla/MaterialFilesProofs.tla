------------------------ MODULE MaterialFilesProofs -------------------------
(***************************************************************************)
(* Proofs about the files: the binary ones first, then the text files.     *)
(*                                                                         *)
(* A binary file that is read back field by field yields what was written  *)
(* because the reader is, at every moment, behind exactly as many sections *)
(* as it has loaded (FileInv): each field that it reads is the one that    *)
(* lies there, as far as the file goes, and the only way the file can      *)
(* differ from what was to be written is to end early.  The lemmas build   *)
(* up from cells to fields, records, sections and files.  The theorems     *)
(* hold for every choice of formats, every number of records per section   *)
(* and every label; they assume that the compiler reads the arguments of a *)
(* call from the first to the last.                                        *)
(*                                                                         *)
(* Of a text file only its last line can be wrong, and its reader asks for *)
(* every line.  The lemmas go from lines to sections and files, whole and  *)
(* cut; TextInv says what lies where once setup has taken the material.    *)
(***************************************************************************)
EXTENDS MaterialFiles, BitArithmetic, SequenceTheorems

(* What a loop has written grows by a part at a time.                      *)
LEMMA JoinedRecursion ==
  ASSUME NEW n \in Nat, NEW parts, \A k \in 1 .. n : parts[k] \in Seq(Int)
  PROVE  /\ Joined(parts, 0) = <<>>
         /\ \A m \in 0 .. n : Joined(parts, m) \in Seq(Int)
         /\ \A m \in 0 .. n - 1 :
              Joined(parts, m + 1) = Joined(parts, m) \o parts[m + 1]
<1> DEFINE step == [k \in Nat |-> [v \in Seq(Int) |->
                      IF k < n THEN v \o parts[k + 1] ELSE v]]
<1>1. step \in [Nat -> [Seq(Int) -> Seq(Int)]]
  <2>1. ASSUME NEW k \in Nat, NEW v \in Seq(Int)
        PROVE  (IF k < n THEN v \o parts[k + 1] ELSE v) \in Seq(Int)
    <3>1. CASE k < n
      <4>1. k + 1 \in 1 .. n
        BY <3>1
      <4>2. parts[k + 1] \in Seq(Int)
        BY <4>1
      <4>3. v \o parts[k + 1] \in Seq(Int)
        BY <4>2, ConcatProperties
      <4> QED BY <3>1, <4>3
    <3>2. CASE ~ (k < n)
      BY <3>2
    <3> QED BY <3>1, <3>2
  <2> QED BY <2>1
<1>2. \A k \in 0 .. n - 1 : \A v \in Seq(Int) : step[k][v] = v \o parts[k + 1]
  OBVIOUS
<1> HIDE DEF step
<1>3. PICK f : Solves(f, Seq(Int), <<>>, step)
  <2>1. Recursion(Seq(Int), <<>>, step)
    BY <1>1, EmptySeq DEF Recursion
  <2> QED BY <2>1, RecursionExists
<1>4. /\ f \in [Nat -> Seq(Int)] /\ f[0] = <<>>
      /\ \A k \in 0 .. n - 1 : f[k + 1] = f[k] \o parts[k + 1]
  <2>1. f \in [Nat -> Seq(Int)] /\ f[0] = <<>>
    BY <1>3 DEF Solves
  <2>2. ASSUME NEW k \in 0 .. n - 1
        PROVE  f[k + 1] = f[k] \o parts[k + 1]
    <3>1. k \in Nat /\ f[k] \in Seq(Int)
      BY <2>1
    <3>2. f[k + 1] = step[k][f[k]]
      BY <1>3, <3>1 DEF Solves
    <3> QED BY <1>2, <3>1, <3>2
  <2> QED BY <2>1, <2>2
<1>5. ASSUME NEW m \in 0 .. n
      PROVE  Joined(parts, m) = f[m]
  <2> DEFINE joined[k \in 0 .. m] ==
               IF k = 0 THEN <<>> ELSE joined[k - 1] \o parts[k]
  <2>1. \E g : g = [k \in 0 .. m |->
                      IF k = 0 THEN <<>> ELSE g[k - 1] \o parts[k]]
    <3> DEFINE g == [k \in 0 .. m |-> f[k]]
    <3>1. ASSUME NEW k \in 0 .. m
          PROVE  f[k] = IF k = 0 THEN <<>> ELSE g[k - 1] \o parts[k]
      <4>1. CASE k = 0
        BY <1>4, <4>1
      <4>2. CASE k # 0
        <5>1. k - 1 \in 0 .. m /\ k - 1 \in 0 .. n - 1 /\ (k - 1) + 1 = k
          BY <4>2
        <5>2. g[k - 1] = f[k - 1]
          BY <5>1
        <5>3. f[(k - 1) + 1] = f[k - 1] \o parts[(k - 1) + 1]
          BY <1>4, <5>1, Zenon
        <5> QED BY <4>2, <5>1, <5>2, <5>3
      <4> QED BY <4>1, <4>2
    <3>2. g = [k \in 0 .. m |->
                 IF k = 0 THEN <<>> ELSE g[k - 1] \o parts[k]]
      BY <3>1
    <3> QED BY <3>2
  <2>2. joined = [k \in 0 .. m |->
                    IF k = 0 THEN <<>> ELSE joined[k - 1] \o parts[k]]
    BY <2>1
  <2>3. Joined(parts, m) = joined[m]
    BY DEF Joined
  <2> HIDE DEF joined
  <2> DEFINE T == {k \in Nat : k <= m => joined[k] = f[k]}
  <2>4. 0 \in T
    BY <1>4, <2>2
  <2>5. ASSUME NEW k \in Nat, k \in T
        PROVE  k + 1 \in T
    <3> SUFFICES ASSUME k + 1 <= m PROVE joined[k + 1] = f[k + 1]
      OBVIOUS
    <3>1. k + 1 \in 0 .. m /\ k + 1 # 0 /\ (k + 1) - 1 = k
          /\ k \in 0 .. n - 1
      OBVIOUS
    <3>2. joined[k] = f[k]
      BY <2>5
    <3>3. joined[k + 1] = joined[k] \o parts[k + 1]
      BY <2>2, <3>1
    <3> QED BY <1>4, <3>1, <3>2, <3>3
  <2> HIDE DEF T
  <2>6. Nat \subseteq T
    BY <2>4, <2>5, SetInduction
  <2> QED BY <2>3, <2>6 DEF T
<1>6. ASSUME NEW m \in 0 .. n - 1
      PROVE  Joined(parts, m + 1) = Joined(parts, m) \o parts[m + 1]
  <2>1. m \in 0 .. n /\ m + 1 \in 0 .. n
    OBVIOUS
  <2> QED BY <1>4, <1>5, <2>1
<1>7. \A m \in 0 .. n : Joined(parts, m) \in Seq(Int)
  <2>1. \A m \in 0 .. n : m \in Nat
    OBVIOUS
  <2> QED BY <1>4, <1>5, <2>1
<1>8. Joined(parts, 0) = <<>>
  <2>1. 0 \in 0 .. n
    OBVIOUS
  <2> QED BY <1>4, <1>5, <2>1
<1> QED BY <1>6, <1>7, <1>8

(* A sequence begins with another one.                                     *)
Extends(s, t) ==
  /\ Len(s) \in Nat /\ Len(t) \in Nat /\ Len(s) <= Len(t)
  /\ \A i \in 1 .. Len(s) : t[i] = s[i]

(* What was written stays where it is.                                     *)
LEMMA JoinedExtends ==
  ASSUME NEW n \in Nat, NEW parts, \A k \in 1 .. n : parts[k] \in Seq(Int),
         NEW k \in 0 .. n, NEW m \in k .. n
  PROVE  Extends(Joined(parts, k), Joined(parts, m))
<1> DEFINE J(i) == Joined(parts, i)
<1> DEFINE T == {i \in Nat : i \in k .. n =>
                   /\ Len(J(k)) <= Len(J(i))
                   /\ \A x \in 1 .. Len(J(k)) : J(i)[x] = J(k)[x]}
<1>1. /\ \A i \in 0 .. n : J(i) \in Seq(Int)
      /\ \A i \in 0 .. n - 1 : J(i + 1) = J(i) \o parts[i + 1]
  BY JoinedRecursion
<1> HIDE DEF J
<1>2. \A i \in 0 .. n : Len(J(i)) \in Nat
  BY <1>1, LenProperties
<1>3. 0 \in T
  <2>1. 0 \in k .. n => k = 0
    OBVIOUS
  <2>2. Len(J(k)) <= Len(J(k))
    BY <1>2
  <2> QED BY <2>1, <2>2
<1>4. ASSUME NEW i \in Nat, i \in T
      PROVE  i + 1 \in T
  <2> SUFFICES ASSUME i + 1 \in k .. n
               PROVE  /\ Len(J(k)) <= Len(J(i + 1))
                      /\ \A x \in 1 .. Len(J(k)) : J(i + 1)[x] = J(k)[x]
    OBVIOUS
  <2>1. CASE i + 1 = k
    <3>1. Len(J(k)) <= Len(J(k))
      BY <1>2
    <3> QED BY <2>1, <3>1
  <2>2. CASE i + 1 # k
    <3>1. i \in k .. n /\ i \in 0 .. n - 1 /\ i \in 0 .. n /\ i + 1 \in 1 .. n
      BY <2>2
    <3>2. J(i + 1) = J(i) \o parts[i + 1] /\ J(i) \in Seq(Int)
          /\ parts[i + 1] \in Seq(Int)
      BY <1>1, <3>1
    <3>3. /\ Len(J(i + 1)) = Len(J(i)) + Len(parts[i + 1])
          /\ \A x \in 1 .. Len(J(i)) + Len(parts[i + 1]) :
               J(i + 1)[x] = IF x <= Len(J(i)) THEN J(i)[x]
                             ELSE parts[i + 1][x - Len(J(i))]
      BY <3>2, ConcatProperties
    <3>4. Len(parts[i + 1]) \in Nat /\ Len(J(i)) \in Nat /\ Len(J(k)) \in Nat
      BY <1>2, <3>1, <3>2, LenProperties
    <3>5. /\ Len(J(k)) <= Len(J(i))
          /\ \A x \in 1 .. Len(J(k)) : J(i)[x] = J(k)[x]
      BY <1>4, <3>1
    <3>6. Len(J(k)) <= Len(J(i + 1))
      BY <3>3, <3>4, <3>5
    <3>7. ASSUME NEW x \in 1 .. Len(J(k))
          PROVE  J(i + 1)[x] = J(k)[x]
      <4>1. x \in 1 .. Len(J(i)) + Len(parts[i + 1]) /\ x <= Len(J(i))
        BY <3>4, <3>5
      <4> QED BY <3>3, <3>5, <4>1
    <3> QED BY <3>6, <3>7
  <2> QED BY <2>1, <2>2
<1> HIDE DEF T
<1>5. Nat \subseteq T
  BY <1>3, <1>4, SetInduction
<1>6. m \in T /\ m \in k .. n /\ m \in 0 .. n
  BY <1>5
<1>7. k \in 0 .. n
  OBVIOUS
<1> QED BY <1>2, <1>6, <1>7 DEF T, J, Extends

-----------------------------------------------------------------------------
(* Reading what was written.  The cells lie in the file from a position    *)
(* on, as far as the file goes.                                            *)
Matches(p, cells) ==
  \A k \in 1 .. Len(cells) :
    p + k - 1 <= Len(file) => file[p + k - 1] = cells[k]

(* Of two pieces, each does.                                               *)
LEMMA ConcatMatches ==
  ASSUME NEW p \in Nat, NEW s \in Seq(Int), NEW t \in Seq(Int),
         Matches(p, s \o t)
  PROVE  Matches(p, s) /\ Matches(p + Len(s), t)
<1>1. /\ Len(s \o t) = Len(s) + Len(t)
      /\ \A i \in 1 .. Len(s) + Len(t) :
           (s \o t)[i] = IF i <= Len(s) THEN s[i] ELSE t[i - Len(s)]
      /\ Len(s) \in Nat /\ Len(t) \in Nat
  BY ConcatProperties, LenProperties
<1> DEFINE c == s \o t
<1>2. \A k \in 1 .. Len(c) : p + k - 1 <= Len(file) => file[p + k - 1] = c[k]
  BY DEF Matches
<1> HIDE DEF c
<1>3. ASSUME NEW k \in 1 .. Len(s), p + k - 1 <= Len(file)
      PROVE  file[p + k - 1] = s[k]
  <2>1. k \in 1 .. Len(s) + Len(t) /\ k <= Len(s)
    BY <1>1
  <2>2. c[k] = s[k] /\ k \in 1 .. Len(c)
    BY <1>1, <2>1 DEF c
  <2> QED BY <1>2, <1>3, <2>2
<1>4. ASSUME NEW k \in 1 .. Len(t), (p + Len(s)) + k - 1 <= Len(file)
      PROVE  file[(p + Len(s)) + k - 1] = t[k]
  <2> DEFINE j == Len(s) + k
  <2>1. j \in 1 .. Len(s) + Len(t) /\ ~ (j <= Len(s)) /\ j - Len(s) = k
        /\ p + j - 1 = (p + Len(s)) + k - 1
    BY <1>1
  <2> HIDE DEF j
  <2>2. c[j] = t[j - Len(s)] /\ j \in 1 .. Len(c)
    BY <1>1, <2>1 DEF c
  <2> QED BY <1>2, <1>4, <2>1, <2>2
<1> QED BY <1>3, <1>4 DEF Matches

(* Of many, each does.                                                     *)
LEMMA PartMatches ==
  ASSUME NEW p \in Nat, NEW n \in Nat, NEW parts,
         \A k \in 1 .. n : parts[k] \in Seq(Int),
         Matches(p, Joined(parts, n)), NEW m \in 0 .. n - 1
  PROVE  Matches(p + Len(Joined(parts, m)), parts[m + 1])
<1> DEFINE s == Joined(parts, m)
           c == Joined(parts, m + 1)
           w == Joined(parts, n)
<1>1. /\ s \in Seq(Int) /\ c = s \o parts[m + 1] /\ parts[m + 1] \in Seq(Int)
  <2>1. m \in 0 .. n /\ m + 1 \in 1 .. n
    OBVIOUS
  <2> QED BY <2>1, JoinedRecursion
<1>2. /\ Len(c) \in Nat /\ Len(w) \in Nat /\ Len(c) <= Len(w)
      /\ \A i \in 1 .. Len(c) : w[i] = c[i]
  <2>1. m + 1 \in 0 .. n /\ n \in m + 1 .. n
    OBVIOUS
  <2>2. Extends(c, w)
    BY <2>1, JoinedExtends, Zenon
  <2> QED BY <2>2 DEF Extends
<1>3. \A k \in 1 .. Len(w) : p + k - 1 <= Len(file) => file[p + k - 1] = w[k]
  BY DEF Matches
<1> HIDE DEF s, c, w
<1>4. Matches(p, c)
  <2>1. \A k \in 1 .. Len(c) : k \in 1 .. Len(w)
    BY <1>2
  <2> QED BY <1>2, <1>3, <2>1 DEF Matches
<1>5. Matches(p, s \o parts[m + 1])
  BY <1>1, <1>4
<1> QED BY <1>1, <1>5, ConcatMatches DEF s

-----------------------------------------------------------------------------
(* The values of fields, records and sections.                             *)

FieldTypes == {"u64", "block", "string", "vector"}
Field0 == Int \cup Seq(Int)

Typed(type, value) ==
  /\ type = "u64" => value \in Int
  /\ type # "u64" => value \in Seq(Int)
  /\ type = "block" => Len(value) = 2

(* What the reader returns for cells at a position: the value that they    *)
(* stand for, if the file is long enough.                                  *)
ReadTo(p, cells, got) ==
  IF p + Len(cells) - 1 > Len(file) THEN Thrown
  ELSE [at |-> p + Len(cells), got |-> got]

(* A field has at least one cell.                                          *)
LEMMA CellsOfField ==
  ASSUME NEW type \in FieldTypes, NEW value, Typed(type, value)
  PROVE  /\ Cells(type, value) \in Seq(Int)
         /\ Len(Cells(type, value)) \in Nat \ {0}
         /\ type = "u64" => Cells(type, value) = <<value>>
         /\ type = "block" => Cells(type, value) = value
         /\ type \in {"string", "vector"} =>
              /\ Cells(type, value) = <<Len(value)>> \o value
              /\ Len(Cells(type, value)) = Len(value) + 1
<1>1. CASE type = "u64"
  BY <1>1 DEF Cells, Typed
<1>2. CASE type = "block"
  <2>1. value \in Seq(Int) /\ Len(value) = 2 /\ Cells(type, value) = value
    BY <1>2 DEF Cells, Typed
  <2> QED BY <1>2, <2>1
<1>3. CASE type \in {"string", "vector"}
  <2>1. value \in Seq(Int) /\ Cells(type, value) = <<Len(value)>> \o value
    BY <1>3 DEF Cells, Typed
  <2>2. Len(value) \in Nat
    BY <2>1, LenProperties
  <2>3. <<Len(value)>> \in Seq(Int) /\ Len(<<Len(value)>>) = 1
    BY <2>2
  <2>4. /\ Cells(type, value) \in Seq(Int)
        /\ Len(Cells(type, value)) = 1 + Len(value)
    BY <2>1, <2>3, ConcatProperties
  <2> QED BY <1>3, <2>1, <2>2, <2>4
<1> QED BY <1>1, <1>2, <1>3 DEF FieldTypes

(* Reading some cells that are there.                                      *)
LEMMA Taken ==
  ASSUME file \in Seq(Int), NEW cursor, cursor.at \in Nat \ {0},
         NEW cells \in Seq(Int), Matches(cursor.at, cells)
  PROVE  Take(cursor, Len(cells)) =
           ReadTo(cursor.at, cells, Append(cursor.got, cells))
<1> DEFINE p == cursor.at
           n == Len(cells)
           e == p + n - 1
           piece == SubSeq(file, p, e)
<1>1. p \in Nat \ {0} /\ n \in Nat /\ Len(file) \in Nat
  BY LenProperties
<1>2. CASE p + n - 1 > Len(file)
  BY <1>1, <1>2 DEF Take, ReadTo
<1>3. CASE ~ (p + n - 1 > Len(file))
  <2>1. p + n - 1 <= Len(file)
    BY <1>1, <1>3
  <2>2. \A i \in p .. e : file[i] \in Int
    <3>1. \A i \in p .. e : i \in 1 .. Len(file)
      BY <1>1, <2>1
    <3> QED BY <3>1, ElementOfSeq
  <2>3. p \in Int /\ e \in Int
    BY <1>1
  <2>4. /\ piece \in Seq(Int)
        /\ Len(piece) = IF p <= e THEN e - p + 1 ELSE 0
        /\ \A i \in 1 .. e - p + 1 : piece[i] = file[p + i - 1]
    <3> HIDE DEF p, e
    <3> QED BY <2>2, <2>3, SubSeqProperties
  <2>5. \A i \in 1 .. n : file[p + i - 1] = cells[i]
    <3>1. \A i \in 1 .. n : p + i - 1 <= Len(file)
      BY <1>1, <2>1
    <3> QED BY <3>1 DEF Matches
  <2> HIDE DEF piece
  <2>6. Len(piece) = n /\ \A i \in 1 .. n : piece[i] = cells[i]
    BY <1>1, <2>4, <2>5
  <2>7. piece = cells
    BY <2>4, <2>6, SeqEqual
  <2>8. Take(cursor, n) = [at |-> p + n, got |-> Append(cursor.got, piece)]
    BY <1>1, <1>3 DEF Take, piece
  <2> QED BY <1>3, <2>7, <2>8 DEF ReadTo
<1> QED BY <1>2, <1>3

(* Reading a field.                                                        *)
LEMMA FieldRead ==
  ASSUME file \in Seq(Int), NEW cursor, cursor.at \in Nat \ {0},
         cursor.got \in Seq(Field0),
         NEW type \in FieldTypes, NEW value, Typed(type, value),
         Matches(cursor.at, Cells(type, value))
  PROVE  ReadField(cursor, type) =
           ReadTo(cursor.at, Cells(type, value), Append(cursor.got, value))
<1> DEFINE p == cursor.at
           cells == Cells(type, value)
           first == Take(cursor, 1)
           number == Last(first.got)[1]
<1>1. p \in Nat \ {0} /\ Len(file) \in Nat /\ Len(cells) \in Nat \ {0}
  BY LenProperties, CellsOfField
<1>2. CASE type = "block"
  <2>1. cells \in Seq(Int) /\ cells = value /\ Len(cells) = 2
    BY <1>2, CellsOfField DEF Typed
  <2>2. ReadField(cursor, type) = Take(cursor, 2)
    BY <1>2 DEF ReadField
  <2>3. Take(cursor, Len(cells)) = ReadTo(p, cells, Append(cursor.got, cells))
    <3> HIDE DEF cells
    <3> QED BY <2>1, Taken DEF cells
  <2> QED BY <2>1, <2>2, <2>3
<1>3. CASE type # "block"
  <2> DEFINE c == cells[1]
             head == <<c>>
  <2>1. /\ head \in Seq(Int) /\ Len(head) = 1 /\ c \in Int
        /\ type = "u64" => c = value /\ Len(cells) = 1
        /\ type # "u64" => /\ c = Len(value) /\ cells = head \o value
                           /\ Len(cells) = Len(value) + 1
                           /\ value \in Seq(Int)
    <3>1. CASE type = "u64"
      <4>1. cells = <<value>> /\ value \in Int
        BY <3>1, CellsOfField DEF Typed
      <4> QED BY <3>1, <4>1
    <3>2. CASE type # "u64"
      <4>1. cells = <<Len(value)>> \o value /\ value \in Seq(Int)
            /\ Len(cells) = Len(value) + 1
        BY <1>3, <3>2, CellsOfField DEF Typed, FieldTypes
      <4>2. Len(value) \in Nat /\ <<Len(value)>> \in Seq(Int)
            /\ Len(<<Len(value)>>) = 1 /\ <<Len(value)>>[1] = Len(value)
        BY <4>1, LenProperties
      <4>3. \A i \in 1 .. Len(<<Len(value)>>) + Len(value) :
              (<<Len(value)>> \o value)[i] =
                IF i <= Len(<<Len(value)>>) THEN <<Len(value)>>[i]
                ELSE value[i - Len(<<Len(value)>>)]
        BY <4>1, <4>2, ConcatProperties
      <4>4. cells[1] = Len(value)
        <5>1. 1 \in 1 .. Len(<<Len(value)>>) + Len(value)
          BY <4>2
        <5> HIDE DEF cells
        <5> QED BY <4>1, <4>2, <4>3, <5>1
      <4> QED BY <3>2, <4>1, <4>2, <4>4
    <3> QED BY <3>1, <3>2
  <2>2. Matches(p, head)
    <3>1. 1 \in 1 .. Len(cells)
      BY <1>1
    <3>2. p + 1 - 1 <= Len(file) => file[p + 1 - 1] = c
      BY <3>1 DEF Matches
    <3> HIDE DEF cells, c
    <3> QED BY <2>1, <3>2 DEF Matches
  <2>3. first = ReadTo(p, head, Append(cursor.got, head))
    <3> HIDE DEF head
    <3> QED BY <2>1, <2>2, Taken DEF head
  <2>4. CASE p > Len(file)
    <3>1. first = Thrown
      BY <1>1, <2>1, <2>3, <2>4 DEF ReadTo
    <3>2. ReadField(cursor, type) = Thrown
      BY <1>3, <3>1 DEF ReadField, FieldTypes
    <3>3. p + Len(cells) - 1 > Len(file)
      BY <1>1, <2>4
    <3> QED BY <3>2, <3>3 DEF ReadTo
  <2>5. CASE ~ (p > Len(file))
    <3>1. /\ first = [at |-> p + 1, got |-> Append(cursor.got, head)]
          /\ first # Thrown
      <4>1. first = [at |-> p + 1, got |-> Append(cursor.got, head)]
        BY <1>1, <2>1, <2>3, <2>5 DEF ReadTo
      <4> HIDE DEF first, head
      <4> QED BY <1>1, <4>1 DEF Thrown
    <3>2. number = c
      <4>1. head \in Field0
        BY <2>1 DEF Field0
      <4>2. /\ Len(Append(cursor.got, head)) = Len(cursor.got) + 1
            /\ Append(cursor.got, head)[Len(cursor.got) + 1] = head
        <5> HIDE DEF head
        <5> QED BY <4>1, AppendProperties
      <4>3. Last(first.got) = head
        <5> HIDE DEF head, first
        <5> QED BY <3>1, <4>2 DEF Last
      <4> QED BY <4>3
    <3> HIDE DEF first, number
    <3>3. CASE type = "u64"
      <4>1. ReadField(cursor, type) =
              [at |-> p + 1, got |-> Append(cursor.got, value)]
        <5>1. ReadField(cursor, type) =
                [at |-> first.at, got |-> Append(cursor.got, number)]
          BY <3>1, <3>3 DEF ReadField, first, number
        <5>2. first.at = p + 1 /\ number = value
          BY <2>1, <3>1, <3>2, <3>3
        <5> QED BY <5>1, <5>2
      <4>2. Len(cells) = 1 /\ ~ (p + 1 - 1 > Len(file))
        BY <1>1, <2>1, <2>5, <3>3
      <4> QED BY <4>1, <4>2 DEF ReadTo
    <3>4. CASE type # "u64"
      <4> DEFINE next == [at |-> p + 1, got |-> cursor.got]
      <4>1. ReadField(cursor, type) = Take(next, Len(value))
        <5>1. ReadField(cursor, type) =
                Take([at |-> first.at, got |-> cursor.got], number)
          BY <1>3, <3>1, <3>4 DEF ReadField, FieldTypes, first, number
        <5>2. first.at = p + 1 /\ number = Len(value)
          BY <2>1, <3>1, <3>2, <3>4
        <5> QED BY <5>1, <5>2
      <4>2. Matches(p + 1, value)
        <5>1. Matches(p, head \o value)
          BY <2>1, <3>4
        <5>2. p \in Nat /\ head \in Seq(Int) /\ value \in Seq(Int)
          BY <1>1, <2>1, <3>4
        <5> HIDE DEF head, p
        <5>3. Matches(p + Len(head), value)
          BY <5>1, <5>2, ConcatMatches
        <5> QED BY <2>1, <5>3
      <4>3. next.at = p + 1 /\ next.got = cursor.got /\ p + 1 \in Nat \ {0}
        BY <1>1
      <4> HIDE DEF next
      <4>4. Take(next, Len(value)) =
              ReadTo(p + 1, value, Append(cursor.got, value))
        <5>1. value \in Seq(Int)
          BY <2>1, <3>4
        <5> HIDE DEF p
        <5>2. Matches(next.at, value) /\ next.at \in Nat \ {0}
          BY <4>2, <4>3
        <5>3. Take(next, Len(value)) =
                ReadTo(next.at, value, Append(next.got, value))
          BY <5>1, <5>2, Taken
        <5> QED BY <4>3, <5>3
      <4>5. Len(cells) = Len(value) + 1 /\ Len(value) \in Nat
        BY <2>1, <3>4, LenProperties
      <4>6. ReadTo(p + 1, value, Append(cursor.got, value)) =
              ReadTo(p, cells, Append(cursor.got, value))
        <5> HIDE DEF cells, p
        <5>1. /\ (p + 1) + Len(value) = p + Len(cells)
              /\ (p + 1) + Len(value) - 1 = p + Len(cells) - 1
          BY <1>1, <4>5
        <5> QED BY <5>1, Zenon DEF ReadTo
      <4> QED BY <4>1, <4>4, <4>6
    <3> QED BY <3>3, <3>4
  <2> QED BY <2>4, <2>5
<1> QED BY <1>2, <1>3

(* Nothing is read after a throw.                                          *)
LEMMA ThrownStays ==
  ASSUME NEW type \in FieldTypes
  PROVE  ReadField(Thrown, type) = Thrown
<1>1. \A n : Take(Thrown, n) = Thrown
  BY DEF Take, Thrown
<1> QED BY <1>1 DEF ReadField, FieldTypes

-----------------------------------------------------------------------------
(* Records.                                                                *)

SectionType ==
  [counted : BOOLEAN, fields : Seq(FieldTypes), arguments : BOOLEAN]

RecordTyped(section, record) ==
  /\ record \in Seq(Field0) /\ Len(record) = Len(section.fields)
  /\ \A k \in 1 .. Len(section.fields) : Typed(section.fields[k], record[k])

FieldParts(section, record) ==
  [k \in DOMAIN section.fields |-> Cells(section.fields[k], record[k])]

(* The parts of a record are cells.                                        *)
LEMMA PartsOfRecord ==
  ASSUME NEW section \in SectionType, NEW record, RecordTyped(section, record)
  PROVE  LET n == Len(section.fields)
             parts == FieldParts(section, record)
         IN  /\ n \in Nat
             /\ \A k \in 1 .. n : /\ section.fields[k] \in FieldTypes
                                  /\ parts[k] = Cells(section.fields[k], record[k])
                                  /\ parts[k] \in Seq(Int)
             /\ RecordCells(section, record) = Joined(parts, n)
             /\ RecordCells(section, record) \in Seq(Int)
<1> DEFINE n == Len(section.fields)
           parts == FieldParts(section, record)
<1>1. section.fields \in Seq(FieldTypes)
  BY DEF SectionType
<1>2. n \in Nat /\ DOMAIN section.fields = 1 .. n
      /\ \A k \in 1 .. n : section.fields[k] \in FieldTypes
  BY <1>1, LenProperties, ElementOfSeq
<1>3. \A k \in 1 .. n : parts[k] = Cells(section.fields[k], record[k])
  BY <1>2 DEF FieldParts
<1>4. ASSUME NEW k \in 1 .. n
      PROVE  parts[k] \in Seq(Int)
  <2>1. section.fields[k] \in FieldTypes /\ Typed(section.fields[k], record[k])
    BY <1>2 DEF RecordTyped
  <2>2. Cells(section.fields[k], record[k]) \in Seq(Int)
    BY <2>1, CellsOfField
  <2> QED BY <1>3, <2>2
<1>5. RecordCells(section, record) = Joined(parts, n)
  BY DEF RecordCells, FieldParts
<1>6. n \in 0 .. n
  BY <1>2
<1> HIDE DEF parts, n
<1>7. Joined(parts, n) \in Seq(Int)
  BY <1>2, <1>4, <1>6, JoinedRecursion
<1> QED BY <1>2, <1>3, <1>4, <1>5, <1>7 DEF parts, n

(* A prefix and the next element.                                          *)
LEMMA PrefixAppends ==
  ASSUME NEW S, NEW s \in Seq(S), NEW k \in 0 .. Len(s) - 1
  PROVE  /\ SubSeq(s, 1, k) \in Seq(S)
         /\ Append(SubSeq(s, 1, k), s[k + 1]) = SubSeq(s, 1, k + 1)
<1>1. Len(s) \in Nat /\ \A i \in 1 .. Len(s) : s[i] \in S
  BY LenProperties, ElementOfSeq
<1>2. 1 \in Int /\ k \in Int /\ k + 1 \in Int /\ k + 1 \in 1 .. Len(s)
  BY <1>1
<1>3. \A i \in 1 .. k : s[i] \in S
  BY <1>1
<1>4. \A i \in 1 .. k + 1 : s[i] \in S
  BY <1>1
<1> DEFINE a == SubSeq(s, 1, k)
           b == SubSeq(s, 1, k + 1)
           c == Append(a, s[k + 1])
<1>5. /\ a \in Seq(S) /\ Len(a) = IF 1 <= k THEN k - 1 + 1 ELSE 0
      /\ \A i \in 1 .. k - 1 + 1 : a[i] = s[1 + i - 1]
  BY <1>2, <1>3, SubSeqProperties
<1>6. /\ b \in Seq(S) /\ Len(b) = IF 1 <= k + 1 THEN (k + 1) - 1 + 1 ELSE 0
      /\ \A i \in 1 .. (k + 1) - 1 + 1 : b[i] = s[1 + i - 1]
  BY <1>2, <1>4, SubSeqProperties
<1>7. s[k + 1] \in S
  BY <1>2, <1>4
<1> HIDE DEF a, b
<1>8. /\ c \in Seq(S) /\ Len(c) = Len(a) + 1
      /\ \A i \in 1 .. Len(a) : c[i] = a[i]
      /\ c[Len(a) + 1] = s[k + 1]
  BY <1>5, <1>7, AppendProperties
<1>9. Len(a) = k /\ Len(b) = k + 1 /\ Len(c) = k + 1
  BY <1>5, <1>6, <1>8
<1> HIDE DEF c
<1>10. ASSUME NEW i \in 1 .. Len(c)
       PROVE  c[i] = b[i]
  <2>1. b[i] = s[i]
    <3>1. i \in 1 .. (k + 1) - 1 + 1 /\ 1 + i - 1 = i
      BY <1>9
    <3> QED BY <1>6, <3>1
  <2>2. CASE i = k + 1
    BY <1>8, <1>9, <2>1, <2>2
  <2>3. CASE i # k + 1
    <3>1. i \in 1 .. Len(a) /\ i \in 1 .. k - 1 + 1 /\ 1 + i - 1 = i
      BY <1>9, <2>3
    <3> QED BY <1>5, <1>8, <2>1, <3>1
  <2> QED BY <2>2, <2>3
<1>11. c = b
  BY <1>6, <1>8, <1>9, <1>10, SeqEqual
<1> QED BY <1>5, <1>11 DEF a, b, c

(* Where the reader of many parts is after k of them.                      *)
After(p, parts, values, k) ==
  ReadTo(p, Joined(parts, k), SubSeq(values, 1, k))

Here(p, parts, values, k) ==
  [at |-> p + Len(Joined(parts, k)), got |-> SubSeq(values, 1, k)]

PartsAt(p, parts, n) ==
  /\ n \in Nat /\ p \in Nat \ {0} /\ p - 1 <= Len(file) /\ file \in Seq(Int)
  /\ \A k \in 1 .. n : parts[k] \in Seq(Int)

(* At first nothing is read,                                               *)
LEMMA NothingRead ==
  ASSUME NEW p, NEW parts, NEW values, NEW n, PartsAt(p, parts, n)
  PROVE  After(p, parts, values, 0) = [at |-> p, got |-> <<>>]
<1>1. n \in Nat /\ \A k \in 1 .. n : parts[k] \in Seq(Int)
  BY DEF PartsAt
<1>2. Joined(parts, 0) = <<>>
  BY <1>1, JoinedRecursion
<1>3. SubSeq(values, 1, 0) = <<>>
  <2>1. 1 \in Int /\ 0 \in Int /\ 0 < 1
    OBVIOUS
  <2> QED BY <2>1, SubSeqEmpty
<1>4. Len(<<>>) = 0 /\ p + 0 = p /\ ~ (p + 0 - 1 > Len(file))
  BY LenProperties DEF PartsAt
<1>5. ReadTo(p, <<>>, <<>>) = [at |-> p, got |-> <<>>]
  BY <1>4 DEF ReadTo
<1> QED BY <1>2, <1>3, <1>5 DEF After

(* then the reader is behind the parts that it has read, or has thrown,    *)
LEMMA WhereTheReaderIs ==
  ASSUME NEW p, NEW parts, NEW values, NEW n, PartsAt(p, parts, n),
         NEW k \in 0 .. n
  PROVE  /\ Joined(parts, k) \in Seq(Int)
         /\ p + Len(Joined(parts, k)) \in Nat \ {0}
         /\ \/ /\ After(p, parts, values, k) = Here(p, parts, values, k)
               /\ p + Len(Joined(parts, k)) - 1 <= Len(file)
            \/ /\ After(p, parts, values, k) = Thrown
               /\ p + Len(Joined(parts, k)) - 1 > Len(file)
<1> DEFINE s == Joined(parts, k)
<1>1. s \in Seq(Int)
  BY JoinedRecursion DEF PartsAt
<1> HIDE DEF s
<1>2. Len(s) \in Nat /\ p \in Nat \ {0} /\ Len(file) \in Nat
  BY <1>1, LenProperties DEF PartsAt
<1>3. p + Len(s) \in Nat \ {0}
  BY <1>2
<1>4. \/ p + Len(s) - 1 <= Len(file) /\ ~ (p + Len(s) - 1 > Len(file))
      \/ p + Len(s) - 1 > Len(file)
  BY <1>2
<1>5. CASE p + Len(s) - 1 > Len(file)
  BY <1>1, <1>3, <1>5 DEF After, ReadTo, s
<1>6. CASE p + Len(s) - 1 <= Len(file) /\ ~ (p + Len(s) - 1 > Len(file))
  BY <1>1, <1>3, <1>6 DEF After, Here, ReadTo, s
<1> QED BY <1>4, <1>5, <1>6

(* and a part that lies there takes it to the next, unless the file ends.  *)
LeadsOn(p, parts, values, k, next) ==
  /\ After(p, parts, values, k) = Thrown => next = Thrown
  /\ /\ After(p, parts, values, k) = Here(p, parts, values, k)
     /\ p + Len(Joined(parts, k)) - 1 <= Len(file)
     => next = ReadTo(p + Len(Joined(parts, k)), parts[k + 1],
                      Append(SubSeq(values, 1, k), values[k + 1]))

(* A part that lies where the reader is leads it on.                       *)
LEMMA NextPartRead ==
  ASSUME NEW p, NEW parts, NEW S, NEW values \in Seq(S), NEW n,
         PartsAt(p, parts, n), Len(values) = n, NEW k \in 0 .. n - 1, NEW next,
         LeadsOn(p, parts, values, k, next)
  PROVE  next = After(p, parts, values, k + 1)
<1> DEFINE s == Joined(parts, k)
           t == Joined(parts, k + 1)
           part == parts[k + 1]
           got == SubSeq(values, 1, k + 1)
<1>1. n \in Nat /\ p \in Nat \ {0} /\ Len(file) \in Nat
      /\ \A j \in 1 .. n : parts[j] \in Seq(Int)
  BY LenProperties DEF PartsAt
<1>2. k \in 0 .. n /\ k + 1 \in 1 .. n
  BY <1>1
<1>3. s \in Seq(Int) /\ t = s \o part /\ part \in Seq(Int)
  BY <1>1, <1>2, JoinedRecursion
<1>4. Append(SubSeq(values, 1, k), values[k + 1]) = got
  BY <1>2, PrefixAppends
<1>5. \/ /\ After(p, parts, values, k) = Here(p, parts, values, k)
         /\ p + Len(s) - 1 <= Len(file)
      \/ /\ After(p, parts, values, k) = Thrown
         /\ p + Len(s) - 1 > Len(file)
  BY <1>2, WhereTheReaderIs
<1>6. /\ After(p, parts, values, k) = Thrown => next = Thrown
      /\ /\ After(p, parts, values, k) = Here(p, parts, values, k)
         /\ p + Len(s) - 1 <= Len(file)
         => next = ReadTo(p + Len(s), part, got)
  BY <1>4 DEF LeadsOn
<1> HIDE DEF s, t, part, got
<1>7. Len(s) \in Nat /\ Len(part) \in Nat /\ Len(t) = Len(s) + Len(part)
  BY <1>3, LenProperties, ConcatProperties
<1>8. /\ (p + Len(s)) + Len(part) = p + Len(t)
      /\ (p + Len(s)) + Len(part) - 1 = p + Len(t) - 1
      /\ p + Len(s) - 1 > Len(file) => p + Len(t) - 1 > Len(file)
  <2> DEFINE a == Len(s)
             b == Len(part)
             c == Len(t)
  <2>1. a \in Nat /\ b \in Nat /\ c = a + b
    BY <1>7
  <2> HIDE DEF a, b, c
  <2>2. /\ (p + a) + b = p + c /\ (p + a) + b - 1 = p + c - 1
        /\ p + a - 1 > Len(file) => p + c - 1 > Len(file)
    BY <1>1, <2>1
  <2> QED BY <2>2 DEF a, b, c
<1>9. CASE /\ After(p, parts, values, k) = Here(p, parts, values, k)
           /\ p + Len(s) - 1 <= Len(file)
  <2>1. next = ReadTo(p + Len(s), part, got)
    BY <1>6, <1>9
  <2>2. ReadTo(p + Len(s), part, got) = ReadTo(p, t, got)
    BY <1>8, Zenon DEF ReadTo
  <2> QED BY <2>1, <2>2 DEF After, t, got
<1>10. CASE /\ After(p, parts, values, k) = Thrown
            /\ p + Len(s) - 1 > Len(file)
  <2>1. next = Thrown /\ p + Len(t) - 1 > Len(file)
    BY <1>6, <1>8, <1>10
  <2>2. ReadTo(p, t, got) = Thrown
    BY <2>1 DEF ReadTo
  <2> QED BY <2>1, <2>2 DEF After, t, got
<1> QED BY <1>5, <1>9, <1>10

(* The fields of a record in the file, one after the other.                *)
RecordAt(p, section, record) ==
  /\ section \in SectionType /\ RecordTyped(section, record)
  /\ p \in Nat \ {0} /\ p - 1 <= Len(file) /\ file \in Seq(Int)
  /\ Matches(p, RecordCells(section, record))

FieldsRead(p, section, record, k) ==
  After(p, FieldParts(section, record), record, k)

(* Reading the fields leads from one place to the next.                    *)
LEMMA NextFieldRead ==
  ASSUME NEW p, NEW section, NEW record, RecordAt(p, section, record),
         NEW k \in 0 .. Len(section.fields) - 1
  PROVE  ReadField(FieldsRead(p, section, record, k), section.fields[k + 1]) =
           FieldsRead(p, section, record, k + 1)
<1> DEFINE parts == FieldParts(section, record)
           n == Len(section.fields)
           s == Joined(parts, k)
           type == section.fields[k + 1]
           value == record[k + 1]
           got == SubSeq(record, 1, k)
           here == FieldsRead(p, section, record, k)
           next == ReadField(here, type)
<1>1. section \in SectionType /\ RecordTyped(section, record)
      /\ p \in Nat \ {0} /\ p - 1 <= Len(file) /\ file \in Seq(Int)
      /\ Matches(p, RecordCells(section, record))
  BY DEF RecordAt
<1>2. /\ n \in Nat
      /\ \A j \in 1 .. n : /\ section.fields[j] \in FieldTypes
                           /\ parts[j] = Cells(section.fields[j], record[j])
                           /\ parts[j] \in Seq(Int)
      /\ RecordCells(section, record) = Joined(parts, n)
  BY <1>1, PartsOfRecord
<1>3. /\ record \in Seq(Field0) /\ Len(record) = n
      /\ \A j \in 1 .. n : Typed(section.fields[j], record[j])
  BY <1>1 DEF RecordTyped
<1>4. k \in 0 .. n - 1
  OBVIOUS
<1> HIDE DEF n, parts
<1>5. k + 1 \in 1 .. n /\ k \in 0 .. n /\ k \in 0 .. Len(record) - 1
  BY <1>2, <1>3, <1>4
<1>6. /\ type \in FieldTypes /\ Typed(type, value)
      /\ parts[k + 1] = Cells(type, value)
  BY <1>2, <1>3, <1>5
<1>7. got \in Seq(Field0)
  BY <1>3, <1>5, PrefixAppends
<1>8. PartsAt(p, parts, n)
  BY <1>1, <1>2 DEF PartsAt
<1>9. Matches(p + Len(s), parts[k + 1])
  BY <1>1, <1>2, <1>4, PartMatches
<1>10. p + Len(s) \in Nat \ {0}
  BY <1>5, <1>8, WhereTheReaderIs
<1>11. here = After(p, parts, record, k)
  BY DEF FieldsRead, parts
<1> HIDE DEF type, value, got, here
<1>12. ASSUME After(p, parts, record, k) = Thrown
       PROVE  next = Thrown
  BY <1>6, <1>11, <1>12, ThrownStays
<1>13. ASSUME After(p, parts, record, k) = Here(p, parts, record, k),
              p + Len(s) - 1 <= Len(file)
       PROVE  next = ReadTo(p + Len(s), parts[k + 1], Append(got, value))
  <2> DEFINE q == p + Len(s)
             c == [at |-> q, got |-> got]
  <2>1. here = c
    BY <1>11, <1>13 DEF Here, got
  <2> HIDE DEF q
  <2>2. c.at = q /\ c.got = got
    OBVIOUS
  <2> HIDE DEF c
  <2>3. c.at \in Nat \ {0} /\ c.got \in Seq(Field0)
        /\ Matches(c.at, Cells(type, value))
    BY <1>6, <1>7, <1>9, <1>10, <2>2 DEF q
  <2>4. ReadField(c, type) =
          ReadTo(c.at, Cells(type, value), Append(c.got, value))
    BY <1>1, <1>6, <2>3, FieldRead
  <2> QED BY <1>6, <2>1, <2>2, <2>4 DEF q
<1> HIDE DEF next, s
<1>14. LeadsOn(p, parts, record, k, next)
  BY <1>12, <1>13 DEF LeadsOn, s, got, value
<1>15. next = After(p, parts, record, k + 1)
  BY <1>3, <1>4, <1>8, <1>14, NextPartRead, Zenon
<1> QED BY <1>15 DEF FieldsRead, next, parts, here, type

(* Two loops that start alike and step alike are alike.                    *)
LEMMA LoopsAgree ==
  ASSUME NEW n \in Nat, NEW f, NEW g, f[0] = g[0],
         \A k \in 0 .. n - 1 : f[k] = g[k] => f[k + 1] = g[k + 1]
  PROVE  \A k \in 0 .. n : f[k] = g[k]
<1> DEFINE T == {k \in Nat : k <= n => f[k] = g[k]}
<1>1. 0 \in T
  OBVIOUS
<1>2. ASSUME NEW k \in Nat, k \in T
      PROVE  k + 1 \in T
  <2>1. k + 1 <= n => k \in 0 .. n - 1 /\ k <= n
    OBVIOUS
  <2> QED BY <1>2, <2>1
<1> HIDE DEF T
<1>3. Nat \subseteq T
  BY <1>1, <1>2, SetInduction
<1> QED BY <1>3 DEF T

(* So the loop over the fields reads the record,                           *)
FieldLoop(f, p, fields) ==
  f = [k \in 0 .. Len(fields) |->
         IF k = 0 THEN [at |-> p, got |-> <<>>]
         ELSE ReadField(f[k - 1], fields[k])]

FieldStates(G, p, fields) ==
  /\ Len(fields) \in Nat /\ G[0] = [at |-> p, got |-> <<>>]
  /\ \A k \in 0 .. Len(fields) - 1 : G[k + 1] = ReadField(G[k], fields[k + 1])

(* Of the fields of a record, that is what ReadRecord returns,             *)
LEMMA FieldLoopIs ==
  ASSUME NEW p, NEW fields, NEW G, FieldStates(G, p, fields)
  PROVE  /\ \E f : FieldLoop(f, p, fields)
         /\ \A f : FieldLoop(f, p, fields) => f[Len(fields)] = G[Len(fields)]
<1> DEFINE n == Len(fields)
<1>1. n \in Nat
  BY DEF FieldStates
<1>2. /\ G[0] = [at |-> p, got |-> <<>>]
      /\ \A k \in 0 .. n - 1 : G[k + 1] = ReadField(G[k], fields[k + 1])
  BY DEF FieldStates
<1> HIDE DEF n
<1>3. \E f : FieldLoop(f, p, fields)
  <2> DEFINE H == [k \in 0 .. n |-> G[k]]
  <2>1. ASSUME NEW k \in 0 .. n
        PROVE  G[k] = IF k = 0 THEN [at |-> p, got |-> <<>>]
                      ELSE ReadField(H[k - 1], fields[k])
    <3>1. CASE k = 0
      BY <1>2, <3>1
    <3>2. CASE k # 0
      <4>1. k - 1 \in 0 .. n - 1 /\ k - 1 \in 0 .. n /\ (k - 1) + 1 = k
        BY <1>1, <3>2
      <4>2. H[k - 1] = G[k - 1]
        BY <4>1
      <4> HIDE DEF H
      <4>3. G[(k - 1) + 1] = ReadField(G[k - 1], fields[(k - 1) + 1])
        BY <1>2, <4>1, Zenon
      <4> QED BY <3>2, <4>1, <4>2, <4>3
    <3> QED BY <3>1, <3>2
  <2>2. H = [k \in 0 .. n |-> IF k = 0 THEN [at |-> p, got |-> <<>>]
                              ELSE ReadField(H[k - 1], fields[k])]
    BY <2>1
  <2> QED BY <2>2 DEF FieldLoop, n
<1>4. ASSUME NEW f, FieldLoop(f, p, fields)
      PROVE  f[n] = G[n]
  <2>1. f = [k \in 0 .. n |-> IF k = 0 THEN [at |-> p, got |-> <<>>]
                              ELSE ReadField(f[k - 1], fields[k])]
    BY <1>4 DEF FieldLoop, n
  <2>2. f[0] = G[0]
    <3>1. 0 \in 0 .. n
      BY <1>1
    <3> QED BY <1>2, <2>1, <3>1
  <2>3. ASSUME NEW k \in 0 .. n - 1, f[k] = G[k]
        PROVE  f[k + 1] = G[k + 1]
    <3>1. k + 1 \in 0 .. n /\ k + 1 # 0 /\ (k + 1) - 1 = k
      BY <1>1
    <3>2. f[k + 1] = ReadField(f[k], fields[k + 1])
      BY <2>1, <3>1
    <3> QED BY <1>2, <2>3, <3>2
  <2>4. \A k \in 0 .. n : f[k] = G[k]
    BY <1>1, <2>2, <2>3, LoopsAgree
  <2>5. n \in 0 .. n
    BY <1>1
  <2> QED BY <2>4, <2>5
<1> QED BY <1>3, <1>4 DEF n

(* and it is what the record holds.                                        *)
LEMMA FieldLoopReads ==
  ASSUME NEW p, NEW section, NEW record, RecordAt(p, section, record)
  PROVE  /\ \E f : FieldLoop(f, p, section.fields)
         /\ \A f : FieldLoop(f, p, section.fields) =>
              f[Len(section.fields)] =
                ReadTo(p, RecordCells(section, record), record)
<1> DEFINE fields == section.fields
           n == Len(fields)
           G == [k \in 0 .. n |-> FieldsRead(p, section, record, k)]
           parts == FieldParts(section, record)
<1>1. n \in Nat /\ Len(record) = n /\ record \in Seq(Field0)
      /\ RecordCells(section, record) = Joined(parts, n)
      /\ PartsAt(p, parts, n)
  BY PartsOfRecord DEF RecordAt, RecordTyped, PartsAt
<1>2. FieldsRead(p, section, record, 0) = [at |-> p, got |-> <<>>]
  BY <1>1, NothingRead DEF FieldsRead
<1>3. \A k \in 0 .. n - 1 :
        FieldsRead(p, section, record, k + 1) =
          ReadField(FieldsRead(p, section, record, k), fields[k + 1])
  BY NextFieldRead
<1>4. FieldsRead(p, section, record, n) =
        ReadTo(p, RecordCells(section, record), record)
  <2>1. SubSeq(record, 1, n) = record
    BY <1>1, SubSeqFull
  <2> QED BY <1>1, <2>1 DEF FieldsRead, After
<1>5. n \in Nat
  BY <1>1
<1>6. \A k \in 0 .. n : G[k] = FieldsRead(p, section, record, k)
  OBVIOUS
<1> HIDE DEF n, parts, G
<1>7. 0 \in 0 .. n /\ n \in 0 .. n
      /\ \A k \in 0 .. n - 1 : k \in 0 .. n /\ k + 1 \in 0 .. n
  BY <1>5
<1>8. /\ G[0] = [at |-> p, got |-> <<>>]
      /\ G[n] = ReadTo(p, RecordCells(section, record), record)
      /\ \A k \in 0 .. n - 1 : G[k + 1] = ReadField(G[k], fields[k + 1])
  BY <1>2, <1>3, <1>4, <1>6, <1>7, Zenon
<1> HIDE DEF fields
<1>9. /\ \E f : FieldLoop(f, p, fields)
      /\ \A f : FieldLoop(f, p, fields) => f[Len(fields)] = G[Len(fields)]
  BY <1>5, <1>8, FieldLoopIs DEF n, FieldStates
<1> QED BY <1>8, <1>9 DEF n, fields

FirstToLast == order = "first to last"

(* and whatever was read before it stays.                                  *)
LEMMA RecordRead ==
  ASSUME FirstToLast,
         NEW p, NEW section, NEW record, NEW before,
         RecordAt(p, section, record)
  PROVE  ReadRecord([at |-> p, got |-> before], section) =
           ReadTo(p, RecordCells(section, record), Append(before, record))
<1> DEFINE fields == section.fields
           cursor == [at |-> p, got |-> before]
           backwards == section.arguments /\ order = "last to first"
           after[k \in 0 .. Len(fields)] ==
             IF k = 0 THEN [at |-> cursor.at, got |-> <<>>]
             ELSE ReadField(after[k - 1], IF backwards THEN Reverse(fields)[k]
                                          ELSE fields[k])
           last == after[Len(fields)]
           cells == RecordCells(section, record)
<1>1. ReadRecord(cursor, section) =
        IF last = Thrown THEN Thrown
        ELSE [at |-> last.at,
              got |-> Append(cursor.got,
                        IF backwards THEN Reverse(last.got) ELSE last.got)]
  BY DEF ReadRecord
<1>2. ~ backwards
  BY DEF FirstToLast
<1>3. FieldLoop(after, p, fields)
  <2>1. after = CHOOSE f : FieldLoop(f, p, fields)
    BY <1>2 DEF FieldLoop
  <2> HIDE DEF after, fields
  <2>2. \E f : FieldLoop(f, p, fields)
    BY FieldLoopReads DEF fields
  <2> QED BY <2>1, <2>2
<1>4. cursor.at = p /\ cursor.got = before
  OBVIOUS
<1> HIDE DEF after
<1>5. last = ReadTo(p, cells, record)
  BY <1>3, FieldLoopReads
<1> HIDE DEF last, backwards, fields, cursor
<1>6. cells \in Seq(Int) /\ p \in Nat \ {0}
  BY PartsOfRecord DEF RecordAt
<1> HIDE DEF cells
<1>7. Len(cells) \in Nat
  BY <1>6, LenProperties
<1>8. p + Len(cells) # 0
  BY <1>6, <1>7
<1>9. CASE p + Len(cells) - 1 > Len(file)
  <2>1. last = Thrown
    BY <1>5, <1>9 DEF ReadTo
  <2>2. ReadTo(p, cells, Append(before, record)) = Thrown
    BY <1>9 DEF ReadTo
  <2> QED BY <1>1, <2>1, <2>2 DEF cells, cursor
<1>10. CASE ~ (p + Len(cells) - 1 > Len(file))
  <2>1. last = [at |-> p + Len(cells), got |-> record]
    BY <1>5, <1>10 DEF ReadTo
  <2>2. last # Thrown
    BY <1>8, <2>1 DEF Thrown
  <2>3. last.at = p + Len(cells) /\ last.got = record
    BY <2>1
  <2>4. ReadRecord(cursor, section) =
          [at |-> p + Len(cells), got |-> Append(before, record)]
    BY <1>1, <1>2, <1>4, <2>2, <2>3
  <2>5. ReadTo(p, cells, Append(before, record)) =
          [at |-> p + Len(cells), got |-> Append(before, record)]
    BY <1>10 DEF ReadTo
  <2> QED BY <2>4, <2>5 DEF cells, cursor
<1> QED BY <1>9, <1>10

(* Nothing is read after a throw.                                          *)
LEMMA RecordStaysThrown ==
  ASSUME FirstToLast, NEW section \in SectionType
  PROVE  ReadRecord(Thrown, section) = Thrown
<1> DEFINE fields == section.fields
           n == Len(fields)
           cursor == Thrown
           backwards == section.arguments /\ order = "last to first"
           after[k \in 0 .. Len(fields)] ==
             IF k = 0 THEN [at |-> cursor.at, got |-> <<>>]
             ELSE ReadField(after[k - 1], IF backwards THEN Reverse(fields)[k]
                                          ELSE fields[k])
           last == after[Len(fields)]
           G == [k \in 0 .. n |-> Thrown]
<1>1. n \in Nat /\ \A k \in 1 .. n : fields[k] \in FieldTypes
  <2>1. fields \in Seq(FieldTypes)
    BY DEF SectionType
  <2> QED BY <2>1, LenProperties, ElementOfSeq
<1>2. ReadRecord(cursor, section) =
        IF last = Thrown THEN Thrown
        ELSE [at |-> last.at,
              got |-> Append(cursor.got,
                        IF backwards THEN Reverse(last.got) ELSE last.got)]
  BY DEF ReadRecord
<1>3. ~ backwards
  BY DEF FirstToLast
<1>4. \A k \in 0 .. n : G[k] = Thrown
  OBVIOUS
<1>5. cursor.at = 0 /\ Thrown = [at |-> 0, got |-> <<>>]
  BY DEF Thrown
<1> HIDE DEF n, G, fields
<1>6. 0 \in 0 .. n /\ n \in 0 .. n
      /\ \A k \in 0 .. n - 1 : k \in 0 .. n /\ k + 1 \in 0 .. n /\ k + 1 \in 1 .. n
  BY <1>1
<1>7. ASSUME NEW k \in 0 .. n - 1
      PROVE  G[k + 1] = ReadField(G[k], fields[k + 1])
  <2>1. fields[k + 1] \in FieldTypes
    BY <1>1, <1>6
  <2> QED BY <1>4, <1>6, <2>1, ThrownStays
<1>8. /\ \E f : FieldLoop(f, 0, fields)
      /\ \A f : FieldLoop(f, 0, fields) => f[n] = G[n]
  <2>1. G[0] = [at |-> 0, got |-> <<>>]
    BY <1>4, <1>5, <1>6
  <2> QED BY <1>1, <1>7, <2>1, FieldLoopIs DEF n, FieldStates
<1>9. FieldLoop(after, 0, fields)
  <2>1. after = CHOOSE f : FieldLoop(f, 0, fields)
    BY <1>3, <1>5 DEF FieldLoop
  <2> HIDE DEF after
  <2> QED BY <1>8, <2>1
<1> HIDE DEF after
<1>10. last = Thrown
  BY <1>4, <1>6, <1>8, <1>9 DEF n
<1> QED BY <1>2, <1>10

-----------------------------------------------------------------------------
(* Sections.                                                               *)

RecordsTyped(section, records) ==
  /\ records \in Seq(Seq(Field0))
  /\ \A k \in 1 .. Len(records) : RecordTyped(section, records[k])

RecordParts(section, records) ==
  [k \in DOMAIN records |-> RecordCells(section, records[k])]

RecordsAt(p, section, records) ==
  /\ FirstToLast /\ section \in SectionType /\ RecordsTyped(section, records)
  /\ p \in Nat \ {0} /\ p - 1 <= Len(file) /\ file \in Seq(Int)
  /\ Matches(p, Joined(RecordParts(section, records), Len(records)))

RecordsRead(p, section, records, k) ==
  After(p, RecordParts(section, records), records, k)

(* The parts of a section are cells.                                       *)
LEMMA PartsOfSection ==
  ASSUME NEW section \in SectionType, NEW records,
         RecordsTyped(section, records)
  PROVE  LET n == Len(records)
             parts == RecordParts(section, records)
         IN  /\ n \in Nat
             /\ \A k \in 1 .. n : /\ RecordTyped(section, records[k])
                                  /\ parts[k] = RecordCells(section, records[k])
                                  /\ parts[k] \in Seq(Int)
             /\ Joined(parts, n) \in Seq(Int)
             /\ SectionCells(section, records) =
                  (IF section.counted THEN <<n>> ELSE <<>>) \o Joined(parts, n)
<1> DEFINE n == Len(records)
           parts == RecordParts(section, records)
<1>1. n \in Nat /\ DOMAIN records = 1 .. n
      /\ \A k \in 1 .. n : RecordTyped(section, records[k])
  BY LenProperties DEF RecordsTyped
<1>2. \A k \in 1 .. n : parts[k] = RecordCells(section, records[k])
  BY <1>1 DEF RecordParts
<1>3. \A k \in 1 .. n : RecordCells(section, records[k]) \in Seq(Int)
  BY <1>1, PartsOfRecord
<1>4. SectionCells(section, records) =
        (IF section.counted THEN <<n>> ELSE <<>>) \o Joined(parts, n)
  BY DEF SectionCells, RecordParts
<1> HIDE DEF parts, n
<1>5. n \in 0 .. n
  BY <1>1
<1>6. Joined(parts, n) \in Seq(Int)
  BY <1>1, <1>2, <1>3, <1>5, JoinedRecursion
<1> QED BY <1>1, <1>2, <1>3, <1>4, <1>6 DEF parts, n

(* Reading the records leads from one place to the next.                   *)
LEMMA NextRecordRead ==
  ASSUME NEW p, NEW section, NEW records, RecordsAt(p, section, records),
         NEW k \in 0 .. Len(records) - 1
  PROVE  ReadRecord(RecordsRead(p, section, records, k), section) =
           RecordsRead(p, section, records, k + 1)
<1> DEFINE parts == RecordParts(section, records)
           n == Len(records)
           s == Joined(parts, k)
           record == records[k + 1]
           got == SubSeq(records, 1, k)
           here == RecordsRead(p, section, records, k)
           next == ReadRecord(here, section)
<1>1. FirstToLast /\ section \in SectionType /\ RecordsTyped(section, records)
      /\ p \in Nat \ {0} /\ p - 1 <= Len(file) /\ file \in Seq(Int)
      /\ Matches(p, Joined(parts, n))
  BY DEF RecordsAt
<1>2. /\ n \in Nat
      /\ \A j \in 1 .. n : /\ RecordTyped(section, records[j])
                           /\ parts[j] = RecordCells(section, records[j])
                           /\ parts[j] \in Seq(Int)
  BY <1>1, PartsOfSection
<1>3. records \in Seq(Seq(Field0)) /\ Len(records) = n
  BY <1>1 DEF RecordsTyped
<1>4. k \in 0 .. n - 1
  OBVIOUS
<1> HIDE DEF n, parts
<1>5. k + 1 \in 1 .. n /\ k \in 0 .. n /\ k \in 0 .. Len(records) - 1
  BY <1>2, <1>3, <1>4
<1>6. RecordTyped(section, record) /\ parts[k + 1] = RecordCells(section, record)
  BY <1>2, <1>5
<1>8. PartsAt(p, parts, n)
  BY <1>1, <1>2 DEF PartsAt
<1>9. Matches(p + Len(s), parts[k + 1])
  BY <1>1, <1>2, <1>4, PartMatches
<1>10. p + Len(s) \in Nat \ {0}
  BY <1>5, <1>8, WhereTheReaderIs
<1>11. here = After(p, parts, records, k)
  BY DEF RecordsRead, parts
<1> HIDE DEF record, got, here
<1>12. ASSUME After(p, parts, records, k) = Thrown
       PROVE  next = Thrown
  BY <1>1, <1>11, <1>12, RecordStaysThrown
<1>13. ASSUME After(p, parts, records, k) = Here(p, parts, records, k),
              p + Len(s) - 1 <= Len(file)
       PROVE  next = ReadTo(p + Len(s), parts[k + 1], Append(got, record))
  <2> DEFINE q == p + Len(s)
  <2>1. here = [at |-> q, got |-> got]
    BY <1>11, <1>13 DEF Here, got
  <2>2. q \in Nat \ {0} /\ q - 1 <= Len(file) /\ Matches(q, parts[k + 1])
    <3>1. q \in Nat \ {0}
      BY <1>10
    <3>0. p + Len(s) - 1 <= Len(file)
      BY <1>13
    <3>01. s \in Seq(Int) /\ p \in Nat
      BY <1>1, <1>5, <1>8, WhereTheReaderIs
    <3>02. \A a, b \in Nat : a + b - 1 = (a + b) - 1
      OBVIOUS
    <3> HIDE DEF s
    <3>2. q - 1 <= Len(file)
      BY <3>0, <3>01, <3>02, LenProperties
    <3>3. Matches(q, parts[k + 1])
      BY <1>9
    <3> QED BY <3>1, <3>2, <3>3
  <2> HIDE DEF q
  <2>3. RecordAt(q, section, record)
    BY <1>1, <1>6, <2>2 DEF RecordAt
  <2>4. ReadRecord([at |-> q, got |-> got], section) =
          ReadTo(q, RecordCells(section, record), Append(got, record))
    BY <1>1, <2>3, RecordRead
  <2> QED BY <1>6, <2>1, <2>4 DEF q
<1> HIDE DEF next, s
<1>14. LeadsOn(p, parts, records, k, next)
  BY <1>12, <1>13 DEF LeadsOn, s, got, record
<1>15. next = After(p, parts, records, k + 1)
  BY <1>3, <1>4, <1>8, <1>14, NextPartRead, Zenon
<1> QED BY <1>15 DEF RecordsRead, next, parts, here

(* So the loop over the records reads them all.                            *)
RecordLoop(f, start, section, count) ==
  f = [k \in 0 .. count |->
         IF k = 0 THEN start ELSE ReadRecord(f[k - 1], section)]

(* ReadRecords returns the records that lie there.                         *)
LEMMA RecordsAreRead ==
  ASSUME NEW p, NEW section, NEW records, RecordsAt(p, section, records)
  PROVE  ReadRecords([at |-> p, got |-> <<>>], section, Len(records)) =
           ReadTo(p, Joined(RecordParts(section, records), Len(records)), records)
<1> DEFINE n == Len(records)
           start == [at |-> p, got |-> <<>>]
           after[k \in 0 .. n] ==
             IF k = 0 THEN start ELSE ReadRecord(after[k - 1], section)
           At(k) == RecordsRead(p, section, records, k)
           parts == RecordParts(section, records)
           G == [k \in 0 .. n |-> At(k)]
<1>1. n \in Nat /\ records \in Seq(Seq(Field0)) /\ PartsAt(p, parts, n)
  BY PartsOfSection DEF RecordsAt, RecordsTyped, PartsAt
<1>2. At(0) = start
  BY <1>1, NothingRead DEF RecordsRead
<1>3. \A k \in 0 .. n - 1 : At(k + 1) = ReadRecord(At(k), section)
  BY NextRecordRead
<1>4. At(n) = ReadTo(p, Joined(parts, n), records)
  <2>1. SubSeq(records, 1, n) = records
    BY <1>1, SubSeqFull
  <2> QED BY <2>1 DEF RecordsRead, After
<1>5. n \in Nat
  BY <1>1
<1>6. \A k \in 0 .. n : G[k] = At(k)
  OBVIOUS
<1>7. ReadRecords(start, section, n) = after[n]
  BY DEF ReadRecords
<1>8. G = [k \in 0 .. n |-> At(k)]
  OBVIOUS
<1>9. after = CHOOSE f : RecordLoop(f, start, section, n)
  BY DEF RecordLoop
<1> HIDE DEF n, parts, At, G, start, after
<1>10. 0 \in 0 .. n /\ n \in 0 .. n
       /\ \A k \in 0 .. n - 1 : k \in 0 .. n /\ k + 1 \in 0 .. n
            /\ k + 1 # 0 /\ (k + 1) - 1 = k
  BY <1>5
<1>11. RecordLoop(G, start, section, n)
  <2>1. ASSUME NEW k \in 0 .. n
        PROVE  At(k) = IF k = 0 THEN start ELSE ReadRecord(G[k - 1], section)
    <3>1. CASE k = 0
      BY <1>2, <3>1
    <3>2. CASE k # 0
      <4>1. k - 1 \in 0 .. n - 1 /\ k - 1 \in 0 .. n /\ (k - 1) + 1 = k
        BY <1>5, <3>2
      <4>2. G[k - 1] = At(k - 1)
        BY <1>6, <4>1
      <4>3. At((k - 1) + 1) = ReadRecord(At(k - 1), section)
        BY <1>3, <4>1, Zenon
      <4> QED BY <3>2, <4>1, <4>2, <4>3
    <3> QED BY <3>1, <3>2
  <2> QED BY <1>8, <2>1 DEF RecordLoop
<1>12. RecordLoop(after, start, section, n)
  BY <1>9, <1>11
<1>13. after = [k \in 0 .. n |->
                  IF k = 0 THEN start ELSE ReadRecord(after[k - 1], section)]
  BY <1>12 DEF RecordLoop
<1>14. after[0] = G[0]
  BY <1>2, <1>6, <1>10, <1>13
<1>15. ASSUME NEW k \in 0 .. n - 1, after[k] = G[k]
       PROVE  after[k + 1] = G[k + 1]
  <2>1. after[k + 1] = ReadRecord(after[k], section)
    BY <1>10, <1>13
  <2> QED BY <1>3, <1>6, <1>10, <1>15, <2>1
<1>16. \A k \in 0 .. n : after[k] = G[k]
  BY <1>5, <1>14, <1>15, LoopsAgree
<1>17. after[n] = At(n)
  BY <1>6, <1>10, <1>16
<1> QED BY <1>4, <1>7, <1>17 DEF n, start, parts

(* A section in the file.                                                  *)
SectionAt(section, records) ==
  /\ FirstToLast /\ section \in SectionType /\ RecordsTyped(section, records)
  /\ ~ section.counted => Len(records) = 1
  /\ pos \in Nat \ {0} /\ pos - 1 <= Len(file) /\ file \in Seq(Int)
  /\ Matches(pos, SectionCells(section, records))

(* The reader returns its records if the file has all of it, or throws.    *)
LEMMA SectionRead ==
  ASSUME NEW section, NEW records, SectionAt(section, records)
  PROVE  ReadSection(section) =
           ReadTo(pos, SectionCells(section, records), records)
<1> DEFINE p == pos
           n == Len(records)
           cells == Joined(RecordParts(section, records), n)
           whole == SectionCells(section, records)
           start == [at |-> p, got |-> <<>>]
           size == ReadField(start, "u64")
<1>1. FirstToLast /\ section \in SectionType /\ RecordsTyped(section, records)
      /\ p \in Nat \ {0} /\ p - 1 <= Len(file) /\ file \in Seq(Int)
      /\ Matches(p, whole)
  BY DEF SectionAt
<1>2. n \in Nat /\ cells \in Seq(Int)
      /\ whole = (IF section.counted THEN <<n>> ELSE <<>>) \o cells
  BY <1>1, PartsOfSection
<1>3. CASE ~ section.counted
  <2>1. n = 1
    BY <1>3 DEF SectionAt
  <2>2. ReadSection(section) = ReadRecords(start, section, 1)
    BY <1>3 DEF ReadSection
  <2>3. whole = cells
    <3>1. <<>> \o cells = cells
      <4> HIDE DEF cells
      <4> QED BY <1>2, ConcatEmptySeq
    <3> QED BY <1>2, <1>3, <3>1
  <2>4. RecordsAt(p, section, records)
    BY <1>1, <2>3 DEF RecordsAt
  <2>5. ReadRecords(start, section, n) = ReadTo(p, cells, records)
    BY <2>4, RecordsAreRead
  <2> QED BY <2>1, <2>2, <2>3, <2>5
<1>4. CASE section.counted
  <2> DEFINE head == <<n>>
  <2>1. head \in Seq(Int) /\ Len(head) = 1 /\ whole = head \o cells
        /\ Typed("u64", n) /\ Cells("u64", n) = head
    BY <1>2, <1>4 DEF Typed, Cells
  <2>2. Append(<<>>, n) = head
    BY <1>2
  <2>3. ReadSection(section) =
          IF size = Thrown THEN Thrown
          ELSE ReadRecords([at |-> size.at, got |-> <<>>], section, size.got[1])
    BY <1>4 DEF ReadSection
  <2>4. start.at = p /\ start.got = <<>> /\ start.got \in Seq(Field0)
    BY EmptySeq
  <2>5. "u64" \in FieldTypes
    BY DEF FieldTypes
  <2> HIDE DEF cells, whole, head, start, size, n
  <2>6. Matches(p, head) /\ Matches(p + 1, cells)
    <3>1. p \in Nat /\ Matches(p, head \o cells)
      BY <1>1, <2>1
    <3>2. Matches(p, head) /\ Matches(p + Len(head), cells)
      BY <1>2, <2>1, <3>1, ConcatMatches
    <3> QED BY <2>1, <3>2
  <2>7. size = ReadTo(p, head, head)
    <3>1. start.at \in Nat \ {0} /\ Matches(start.at, Cells("u64", n))
      BY <1>1, <2>1, <2>4, <2>6
    <3>2. ReadField(start, "u64") =
            ReadTo(start.at, Cells("u64", n), Append(start.got, n))
      BY <1>1, <2>1, <2>4, <2>5, <3>1, FieldRead
    <3> QED BY <2>1, <2>2, <2>4, <3>2 DEF size
  <2>8. Len(whole) = 1 + Len(cells) /\ Len(cells) \in Nat /\ Len(file) \in Nat
    BY <1>1, <1>2, <2>1, ConcatProperties, LenProperties
  <2>9. /\ (p + 1) + Len(cells) = p + Len(whole)
        /\ (p + 1) + Len(cells) - 1 = p + Len(whole) - 1
        /\ p > Len(file) => p + Len(whole) - 1 > Len(file)
    BY <1>1, <2>8
  <2>10. CASE p > Len(file)
    <3>1. p + Len(head) - 1 > Len(file)
      BY <1>1, <2>1, <2>8, <2>10
    <3>2. size = Thrown
      BY <2>7, <3>1 DEF ReadTo
    <3>3. ReadTo(p, whole, records) = Thrown
      BY <2>9, <2>10 DEF ReadTo
    <3> QED BY <2>3, <3>2, <3>3 DEF whole
  <2>11. CASE ~ (p > Len(file))
    <3>1. ~ (p + Len(head) - 1 > Len(file)) /\ p + Len(head) = p + 1
          /\ p + 1 \in Nat \ {0} /\ (p + 1) - 1 <= Len(file) /\ p + 1 # 0
      BY <1>1, <2>1, <2>8, <2>11
    <3>2. size = [at |-> p + 1, got |-> head]
      BY <2>7, <3>1 DEF ReadTo
    <3>3. size # Thrown /\ size.at = p + 1 /\ size.got = head
      BY <3>1, <3>2 DEF Thrown
    <3>4. size.got[1] = n
      BY <3>3 DEF head
    <3>5. RecordsAt(p + 1, section, records)
      BY <1>1, <2>6, <3>1 DEF RecordsAt, cells, n
    <3>6. ReadRecords([at |-> p + 1, got |-> <<>>], section, n) =
            ReadTo(p + 1, cells, records)
      BY <3>5, RecordsAreRead DEF n, cells
    <3>7. ReadTo(p + 1, cells, records) = ReadTo(p, whole, records)
      BY <2>9, Zenon DEF ReadTo
    <3>8. ReadSection(section) = ReadTo(p, whole, records)
      BY <2>3, <3>3, <3>4, <3>6, <3>7
    <3> QED BY <3>8 DEF whole
  <2> QED BY <2>10, <2>11
<1>5. section.counted \in BOOLEAN
  BY <1>1 DEF SectionType
<1> QED BY <1>3, <1>4, <1>5

-----------------------------------------------------------------------------
(* Files.                                                                  *)

AllFormats == {"EMP", "MIN", "SHAPE"}

(* Every layout begins with the same header; the other sections count.     *)
LEMMA LayoutOfFormat ==
  ASSUME NEW fmt \in AllFormats
  PROVE  /\ Layout(fmt) \in Seq(SectionType) /\ Len(Layout(fmt)) \in Nat \ {0}
         /\ Layout(fmt)[1] = One(<<"u64", "vector">>)
         /\ \A s \in 1 .. Len(Layout(fmt)) : s # 1 => Layout(fmt)[s].counted
<1> DEFINE h == One(<<"u64", "vector">>)
           a == Many(<<"u64", "block", "block">>)
           b == ManyArguments(<<"u64", "block">>)
           c == Many(<<"block">>)
           d == ManyArguments(<<"u64", "string">>)
           e == Many(<<"u64", "vector", "u64">>)
           f == Many(<<"string", "string">>)
           g == Many(<<"u64", "string", "string">>)
           i == ManyArguments(<<"string", "u64">>)
           j == Many(<<"u64">>)
           k == Many(<<"u64", "string">>)
<1>1. /\ "u64" \in FieldTypes /\ "block" \in FieldTypes
      /\ "string" \in FieldTypes /\ "vector" \in FieldTypes
  BY DEF FieldTypes
<1>2. \A fields \in Seq(FieldTypes) :
        /\ One(fields) \in SectionType
        /\ Many(fields) \in SectionType /\ Many(fields).counted
        /\ ManyArguments(fields) \in SectionType /\ ManyArguments(fields).counted
  BY DEF One, Many, ManyArguments, SectionType
<1>21. \A x, y, z \in FieldTypes :
         /\ <<x>> \in Seq(FieldTypes) /\ <<x, y>> \in Seq(FieldTypes)
         /\ <<x, y, z>> \in Seq(FieldTypes)
  <2> HIDE DEF FieldTypes
  <2> QED OBVIOUS
<1>22. \A x, y, z \in FieldTypes :
         /\ One(<<x, y>>) \in SectionType
         /\ Many(<<x>>) \in SectionType /\ Many(<<x>>).counted
         /\ Many(<<x, y>>) \in SectionType /\ Many(<<x, y>>).counted
         /\ Many(<<x, y, z>>) \in SectionType /\ Many(<<x, y, z>>).counted
         /\ ManyArguments(<<x, y>>) \in SectionType
         /\ ManyArguments(<<x, y>>).counted
  BY <1>2, <1>21, Zenon
<1>3. h \in SectionType
  BY <1>1, <1>22, Zenon
<1>4. a \in SectionType /\ b \in SectionType /\ c \in SectionType
      /\ a.counted /\ b.counted /\ c.counted
  BY <1>1, <1>22, Zenon
<1>5. d \in SectionType /\ e \in SectionType /\ f \in SectionType
      /\ d.counted /\ e.counted /\ f.counted
  BY <1>1, <1>22, Zenon
<1>6. g \in SectionType /\ i \in SectionType /\ j \in SectionType
      /\ k \in SectionType
      /\ g.counted /\ i.counted /\ j.counted /\ k.counted
  BY <1>1, <1>22, Zenon
<1>7. CASE fmt = "EMP"
  <2>1. Layout(fmt) = <<h, a, b, b, c>>
    BY <1>7 DEF Layout
  <2> HIDE DEF h, a, b, c
  <2> QED BY <1>3, <1>4, <2>1 DEF h
<1>8. CASE fmt = "MIN"
  <2>1. Layout(fmt) = <<h, d, e, f, g, i>>
    BY <1>8 DEF Layout
  <2> HIDE DEF h, d, e, f, g, i
  <2> QED BY <1>3, <1>5, <1>6, <2>1 DEF h
<1>9. CASE fmt = "SHAPE"
  <2>1. Layout(fmt) = <<h, j, k, e>>
    BY <1>9 DEF Layout
  <2> HIDE DEF h, j, k, e
  <2> QED BY <1>3, <1>5, <1>6, <2>1 DEF h
<1> QED BY <1>7, <1>8, <1>9 DEF AllFormats

(* What a writer of a format is given.                                     *)
ContentTyped(fmt, content) ==
  /\ content \in Seq(Seq(Seq(Field0))) /\ Len(content) = Len(Layout(fmt))
  /\ \A s \in 1 .. Len(Layout(fmt)) :
       /\ RecordsTyped(Layout(fmt)[s], content[s])
       /\ ~ Layout(fmt)[s].counted => Len(content[s]) = 1
  /\ content[1][1][1] = Magic(fmt)

(* The bounds are numbers.                                                 *)
LEMMA NumbersAssumed == MaxRecords \in Nat /\ FirstPayload \in Nat
BY ConstantsAssumption, Zenon

(* A value that a writer is given fits its field.                          *)
LEMMA ValuesOfFields ==
  ASSUME NEW type \in FieldTypes, NEW k \in Nat
  PROVE  FieldValue(type, k) \in Field0 /\ Typed(type, FieldValue(type, k))
<1> DEFINE label == <<FirstPayload + k, FirstPayload - k>>
           vector == [j \in 1 .. k |-> j - 1]
<1>1. label \in Seq(Int) /\ Len(label) = 2
  <2>1. FirstPayload + k \in Int /\ FirstPayload - k \in Int
    BY NumbersAssumed
  <2> QED BY <2>1
<1>2. vector \in Seq(Int)
  <2>1. \A j \in 1 .. k : j - 1 \in Int
    OBVIOUS
  <2> QED BY <2>1, IsASeq
<1>3. CASE type = "u64"
  <2>1. FieldValue(type, k) = k - 1 /\ k - 1 \in Int
    BY <1>3 DEF FieldValue
  <2> QED BY <1>3, <2>1 DEF Typed, Field0
<1>4. CASE type = "vector"
  <2>1. FieldValue(type, k) = vector
    BY <1>4 DEF FieldValue
  <2> HIDE DEF vector
  <2> QED BY <1>2, <1>4, <2>1 DEF Typed, Field0
<1>5. CASE type \in {"block", "string"}
  <2>1. FieldValue(type, k) = label
    BY <1>5 DEF FieldValue
  <2> HIDE DEF label
  <2> QED BY <1>1, <1>5, <2>1 DEF Typed, Field0
<1> QED BY <1>3, <1>4, <1>5 DEF FieldTypes

(* So do the values of a record, for any number of records,                *)
LEMMA RecordsAreTyped ==
  ASSUME NEW section \in SectionType, NEW count \in Nat
  PROVE  RecordsTyped(section, RecordsOf(section, count))
<1> DEFINE n == Len(section.fields)
           record(k) == [f \in DOMAIN section.fields |->
                           FieldValue(section.fields[f], k)]
           records == RecordsOf(section, count)
<1>1. n \in Nat /\ DOMAIN section.fields = 1 .. n
      /\ \A f \in 1 .. n : section.fields[f] \in FieldTypes
  <2>1. section.fields \in Seq(FieldTypes)
    BY DEF SectionType
  <2> QED BY <2>1, LenProperties, ElementOfSeq
<1>2. ASSUME NEW k \in Nat
      PROVE  record(k) \in Seq(Field0) /\ RecordTyped(section, record(k))
  <2>1. record(k) = [f \in 1 .. n |-> FieldValue(section.fields[f], k)]
    BY <1>1
  <2>2. \A f \in 1 .. n : /\ FieldValue(section.fields[f], k) \in Field0
                          /\ Typed(section.fields[f],
                                   FieldValue(section.fields[f], k))
    BY <1>1, <1>2, ValuesOfFields
  <2> HIDE DEF n, record
  <2>3. record(k) \in Seq(Field0) /\ Len(record(k)) = n
    BY <1>1, <2>1, <2>2, IsASeq
  <2>4. \A f \in 1 .. n : Typed(section.fields[f], record(k)[f])
    BY <2>1, <2>2
  <2> QED BY <2>3, <2>4 DEF RecordTyped, n
<1>3. records = [k \in 1 .. count |-> record(k)]
  BY DEF RecordsOf
<1> HIDE DEF record, records
<1>4. \A k \in 1 .. count : k \in Nat
  OBVIOUS
<1>5. records \in Seq(Seq(Field0)) /\ Len(records) = count
  BY <1>2, <1>3, <1>4, IsASeq
<1>6. \A k \in 1 .. Len(records) : RecordTyped(section, records[k])
  BY <1>2, <1>3, <1>4, <1>5
<1> QED BY <1>5, <1>6 DEF RecordsTyped, records

(* and of all sections of a file.                                          *)
LEMMA ContentsAreTyped ==
  ASSUME NEW fmt \in AllFormats, NEW content \in Contents(fmt)
  PROVE  ContentTyped(fmt, content)
<1> DEFINE L == Layout(fmt)
           n == Len(L)
<1>1. PICK counts \in [DOMAIN L -> 0 .. MaxRecords] :
        content = ContentOf(fmt, counts)
  BY DEF Contents
<1> DEFINE header == <<<<Magic(fmt), FieldValue("vector", counts[1])>>>>
           value(s) == IF s = 1 THEN header ELSE RecordsOf(L[s], counts[s])
<1>2. L \in Seq(SectionType) /\ n \in Nat \ {0} /\ DOMAIN L = 1 .. n
      /\ L[1] = One(<<"u64", "vector">>)
      /\ \A s \in 1 .. n : s # 1 => L[s].counted
  BY LayoutOfFormat, LenProperties
<1>3. content = [s \in 1 .. n |-> value(s)]
  BY <1>1, <1>2 DEF ContentOf
<1> HIDE DEF L, n
<1>4. \A s \in 1 .. n : counts[s] \in Nat /\ L[s] \in SectionType
  <2>1. \A s \in 1 .. n : counts[s] \in 0 .. MaxRecords
    BY <1>2
  <2>2. \A m \in 0 .. MaxRecords : m \in Nat
    BY NumbersAssumed
  <2>3. \A s \in 1 .. n : L[s] \in SectionType
    BY <1>2, ElementOfSeq DEF n
  <2> QED BY <2>1, <2>2, <2>3
<1>5. 1 \in 1 .. n
  BY <1>2
<1>6. RecordsTyped(L[1], header) /\ Len(header) = 1 /\ header[1][1] = Magic(fmt)
  <2> DEFINE vector == FieldValue("vector", counts[1])
             record == <<Magic(fmt), vector>>
             fields == <<"u64", "vector">>
  <2>1. Magic(fmt) \in Int
    BY DEF Magic, AllFormats
  <2>2. vector \in Field0 /\ Typed("vector", vector)
    <3>1. "vector" \in FieldTypes /\ counts[1] \in Nat
      BY <1>4, <1>5 DEF FieldTypes
    <3> QED BY <3>1, ValuesOfFields
  <2> HIDE DEF vector
  <2>3. record \in Seq(Field0) /\ Len(record) = 2 /\ record[1] = Magic(fmt)
        /\ record[2] = vector
    BY <2>1, <2>2 DEF Field0
  <2>4. L[1].fields = fields /\ Len(fields) = 2
        /\ fields[1] = "u64" /\ fields[2] = "vector"
    BY <1>2 DEF One
  <2>5. Typed("u64", Magic(fmt))
    BY <2>1 DEF Typed
  <2> HIDE DEF record, fields
  <2>6. RecordTyped(L[1], record)
    <3>1. \A f \in 1 .. 2 : Typed(fields[f], record[f])
      <4>1. \A f \in 1 .. 2 : f = 1 \/ f = 2
        OBVIOUS
      <4> QED BY <2>2, <2>3, <2>4, <2>5, <4>1
    <3> QED BY <2>3, <2>4, <3>1 DEF RecordTyped
  <2>7. header = <<record>>
    BY DEF record, vector
  <2> HIDE DEF header
  <2>8. header \in Seq(Seq(Field0)) /\ Len(header) = 1 /\ header[1] = record
    BY <2>3, <2>7
  <2> QED BY <2>3, <2>6, <2>8 DEF RecordsTyped
<1> HIDE DEF header
<1>7. \A s \in 1 .. n : RecordsTyped(L[s], value(s))
  BY <1>4, <1>6, RecordsAreTyped
<1>8. \A s \in 1 .. n : ~ L[s].counted => s = 1 /\ Len(value(s)) = 1
  BY <1>2, <1>6
<1>9. value(1) = header
  OBVIOUS
<1> HIDE DEF value
<1>10. \A s \in 1 .. n : value(s) \in Seq(Seq(Field0))
  BY <1>7 DEF RecordsTyped
<1>11. content \in Seq(Seq(Seq(Field0))) /\ Len(content) = n
  BY <1>2, <1>3, <1>10, IsASeq
<1>12. \A s \in 1 .. n : content[s] = value(s)
  BY <1>3
<1>13. content[1][1][1] = Magic(fmt)
  BY <1>5, <1>6, <1>9, <1>12
<1>14. \A s \in 1 .. n : /\ RecordsTyped(L[s], content[s])
                         /\ ~ L[s].counted => Len(content[s]) = 1
  BY <1>7, <1>8, <1>12
<1> QED BY <1>11, <1>13, <1>14 DEF ContentTyped, L, n

SectionParts(fmt, content) ==
  [s \in DOMAIN Layout(fmt) |-> SectionCells(Layout(fmt)[s], content[s])]

(* The parts of a file are cells.                                          *)
LEMMA PartsOfFile ==
  ASSUME NEW fmt \in AllFormats, NEW content, ContentTyped(fmt, content)
  PROVE  LET n == Len(Layout(fmt))
             parts == SectionParts(fmt, content)
         IN  /\ n \in Nat \ {0} /\ Len(content) = n
             /\ \A s \in 1 .. n :
                  /\ Layout(fmt)[s] \in SectionType
                  /\ RecordsTyped(Layout(fmt)[s], content[s])
                  /\ ~ Layout(fmt)[s].counted => Len(content[s]) = 1
                  /\ parts[s] = SectionCells(Layout(fmt)[s], content[s])
                  /\ parts[s] \in Seq(Int)
             /\ FileCells(fmt, content) = Joined(parts, n)
             /\ FileCells(fmt, content) \in Seq(Int)
<1> DEFINE L == Layout(fmt)
           n == Len(L)
           parts == SectionParts(fmt, content)
<1>1. L \in Seq(SectionType) /\ n \in Nat \ {0} /\ DOMAIN L = 1 .. n
  BY LayoutOfFormat, LenProperties
<1>2. \A s \in 1 .. n : L[s] \in SectionType
  <2> HIDE DEF L
  <2> QED BY <1>1, ElementOfSeq
<1>3. Len(content) = n
      /\ \A s \in 1 .. n : /\ RecordsTyped(L[s], content[s])
                           /\ ~ L[s].counted => Len(content[s]) = 1
  BY DEF ContentTyped
<1>4. \A s \in 1 .. n : parts[s] = SectionCells(L[s], content[s])
  BY <1>1 DEF SectionParts
<1>5. FileCells(fmt, content) = Joined(parts, n)
  BY DEF FileCells, SectionParts
<1> HIDE DEF L, n, parts
<1>6. ASSUME NEW s \in 1 .. n
      PROVE  parts[s] \in Seq(Int)
  <2> DEFINE m == Len(content[s])
             cells == Joined(RecordParts(L[s], content[s]), m)
  <2>1. L[s] \in SectionType /\ RecordsTyped(L[s], content[s])
    BY <1>2, <1>3
  <2>2. m \in Nat /\ cells \in Seq(Int)
        /\ SectionCells(L[s], content[s]) =
             (IF L[s].counted THEN <<m>> ELSE <<>>) \o cells
    BY <2>1, PartsOfSection
  <2> HIDE DEF m, cells
  <2>3. (IF L[s].counted THEN <<m>> ELSE <<>>) \in Seq(Int)
    BY <2>2
  <2>4. (IF L[s].counted THEN <<m>> ELSE <<>>) \o cells \in Seq(Int)
    BY <2>2, <2>3, ConcatProperties
  <2> QED BY <1>4, <2>2, <2>4
<1>7. Joined(parts, n) \in Seq(Int)
  <2>1. n \in Nat /\ n \in 0 .. n
    BY <1>1
  <2> QED BY <1>6, <2>1, JoinedRecursion
<1> QED BY <1>1, <1>2, <1>3, <1>4, <1>5, <1>6, <1>7 DEF L, n, parts

-----------------------------------------------------------------------------
(* The inductive invariant: the file is a beginning of what was to be      *)
(* written, and the reader has read a beginning of that back.              *)

Behind(k) == 1 + Len(Joined(SectionParts(format, written), k))

WriterInv ==
  /\ format \in AllFormats /\ reader \in AllFormats /\ FirstToLast
  /\ ContentTyped(format, written)

OnDisk == file \in Seq(Int) /\ Extends(file, WholeFile)

ReaderInv ==
  /\ reader # format => loaded = <<>> /\ pos = 1
  /\ reader = format =>
       /\ Len(loaded) \in 0 .. Len(Layout(format))
       /\ loaded = SubSeq(written, 1, Len(loaded))
       /\ pos = Behind(Len(loaded))

StageInv ==
  /\ stage \in {"write", "read", "loaded", "refused"}
  /\ stage = "write" => loaded = <<>>
  /\ stage # "write" => OnDisk /\ pos - 1 <= Len(file)
  /\ stage = "loaded" => Len(loaded) = Len(Layout(reader))
  /\ stage = "refused" => file # WholeFile \/ reader # format

FileInv == stage = "none" \/ (WriterInv /\ ReaderInv /\ StageInv)

(* The sections lie in the file one behind the other.                      *)
LEMMA SectionsInFile ==
  ASSUME WriterInv
  PROVE  LET n == Len(Layout(format))
         IN  /\ n \in Nat \ {0} /\ WholeFile \in Seq(Int)
             /\ Behind(0) = 1 /\ Behind(n) = 1 + Len(WholeFile)
             /\ \A k \in 0 .. n : /\ Behind(k) \in Nat \ {0}
                                  /\ Behind(k) <= 1 + Len(WholeFile)
<1> DEFINE n == Len(Layout(format))
           parts == SectionParts(format, written)
           J(k) == Joined(parts, k)
<1>1. /\ n \in Nat \ {0} /\ WholeFile = J(n) /\ WholeFile \in Seq(Int)
      /\ \A s \in 1 .. n : parts[s] \in Seq(Int)
  BY PartsOfFile DEF WriterInv, WholeFile
<1>2. n \in Nat /\ n \in 0 .. n /\ \A k \in 0 .. n : n \in k .. n
  <2> HIDE DEF n
  <2> QED BY <1>1
<1>3. \A k \in 0 .. n : Behind(k) = 1 + Len(J(k))
  BY DEF Behind
<1> HIDE DEF n, parts
<1>4. J(0) = <<>> /\ \A k \in 0 .. n : J(k) \in Seq(Int)
  BY <1>1, <1>2, JoinedRecursion
<1>5. \A k \in 0 .. n : Extends(J(k), J(n))
  BY <1>1, <1>2, JoinedExtends
<1> HIDE DEF J
<1>6. \A k \in 0 .. n : Len(J(k)) \in Nat /\ Len(J(k)) <= Len(J(n))
  BY <1>5 DEF Extends
<1>7. Len(J(0)) = 0 /\ 0 \in 0 .. n
  BY <1>2, <1>4, LenProperties
<1>8. Behind(0) = 1 /\ Behind(n) = 1 + Len(WholeFile)
  BY <1>1, <1>2, <1>3, <1>7
<1>9. \A k \in 0 .. n : Behind(k) \in Nat \ {0} /\ Behind(k) <= 1 + Len(WholeFile)
  BY <1>1, <1>2, <1>3, <1>6
<1> QED BY <1>1, <1>8, <1>9 DEF n

(* The next section of the file is the next section that was written.      *)
LEMMA NextSectionRead ==
  ASSUME WriterInv, ReaderInv, OnDisk, pos - 1 <= Len(file),
         Len(loaded) < Len(Layout(reader))
  PROVE  LET k == Len(loaded)
         IN  /\ k \in 0 .. Len(Layout(format)) - 1
             /\ pos = Behind(k) /\ loaded = SubSeq(written, 1, k)
             /\ \/ /\ NextSection = Thrown
                   /\ Behind(k + 1) - 1 > Len(file)
                \/ /\ NextSection # Thrown
                   /\ NextSection.got = written[k + 1]
                   /\ NextSection.at = Behind(k + 1)
                   /\ Behind(k + 1) - 1 <= Len(file)
<1> DEFINE n == Len(Layout(format))
           k == Len(loaded)
           parts == SectionParts(format, written)
           section == Layout(format)[k + 1]
           records == written[k + 1]
           part == parts[k + 1]
           J(m) == Joined(parts, m)
<1>1. /\ n \in Nat \ {0} /\ Len(written) = n
      /\ \A s \in 1 .. n :
           /\ Layout(format)[s] \in SectionType
           /\ RecordsTyped(Layout(format)[s], written[s])
           /\ ~ Layout(format)[s].counted => Len(written[s]) = 1
           /\ parts[s] = SectionCells(Layout(format)[s], written[s])
           /\ parts[s] \in Seq(Int)
      /\ WholeFile = J(n) /\ WholeFile \in Seq(Int)
  BY PartsOfFile DEF WriterInv, WholeFile
<1>2. /\ Behind(0) = 1 /\ \A m \in 0 .. n : Behind(m) \in Nat \ {0}
      /\ \A m : Behind(m) = 1 + Len(J(m))
  BY SectionsInFile DEF Behind
<1>3. /\ k \in 0 .. n - 1 /\ pos = Behind(k) /\ loaded = SubSeq(written, 1, k)
      /\ Layout(reader)[k + 1] = section
  <2>1. CASE reader = format
    <3>1. k \in 0 .. n /\ loaded = SubSeq(written, 1, k) /\ pos = Behind(k)
          /\ k < n
      BY <2>1 DEF ReaderInv
    <3> HIDE DEF k, n
    <3>2. k \in 0 .. n - 1
      BY <1>1, <3>1
    <3> QED BY <2>1, <3>1, <3>2
  <2>2. CASE reader # format
    <3>1. loaded = <<>> /\ pos = 1
      BY <2>2 DEF ReaderInv
    <3>2. k = 0
      BY <3>1, LenProperties
    <3>3. Layout(reader)[1] = Layout(format)[1]
      BY LayoutOfFormat DEF WriterInv
    <3>4. SubSeq(written, 1, 0) = <<>>
      <4>1. 1 \in Int /\ 0 \in Int /\ 0 < 1
        OBVIOUS
      <4> QED BY <4>1, SubSeqEmpty
    <3> HIDE DEF n, k
    <3>5. k \in 0 .. n - 1 /\ k + 1 = 1
      BY <1>1, <3>2
    <3> QED BY <1>2, <3>1, <3>2, <3>3, <3>4, <3>5
  <2> QED BY <2>1, <2>2
<1>4. NextSection = ReadSection(section)
  BY <1>3 DEF NextSection
<1>5. FirstToLast /\ file \in Seq(Int) /\ Extends(file, WholeFile)
      /\ pos - 1 <= Len(file) /\ written \in Seq(Seq(Seq(Field0)))
  BY DEF WriterInv, OnDisk, ContentTyped
<1> HIDE DEF n, k, parts, J
<1>6. k + 1 \in 1 .. n /\ k \in 0 .. n /\ k + 1 \in 0 .. n /\ n \in Nat
  BY <1>1, <1>3
<1>7. /\ section \in SectionType /\ RecordsTyped(section, records)
      /\ ~ section.counted => Len(records) = 1
      /\ part = SectionCells(section, records) /\ part \in Seq(Int)
  BY <1>1, <1>6
<1> HIDE DEF section, records
<1>8. Matches(1, J(n))
  <2>1. \A i \in 1 .. Len(WholeFile) : 1 + i - 1 <= Len(file) =>
          file[1 + i - 1] = WholeFile[i]
    <3>1. /\ Len(file) \in Nat /\ Len(WholeFile) \in Nat
          /\ \A i \in 1 .. Len(file) : WholeFile[i] = file[i]
      BY <1>5 DEF Extends
    <3>2. \A i \in 1 .. Len(WholeFile) : 1 + i - 1 = i
      BY <3>1
    <3>3. \A i \in 1 .. Len(WholeFile) : i <= Len(file) => i \in 1 .. Len(file)
      BY <3>1
    <3> QED BY <3>1, <3>2, <3>3
  <2> QED BY <1>1, <2>1 DEF Matches
<1>9. Matches(pos, part)
  <2>1. Matches(1 + Len(Joined(parts, k)), parts[k + 1])
    <3>1. 1 \in Nat /\ \A s \in 1 .. n : parts[s] \in Seq(Int)
      BY <1>1
    <3>2. Matches(1, Joined(parts, n))
      BY <1>8 DEF J
    <3> QED BY <1>3, <1>6, <3>1, <3>2, PartMatches
  <2> QED BY <1>2, <1>3, <2>1 DEF J
<1>10. pos \in Nat \ {0}
  BY <1>2, <1>3, <1>6
<1>11. NextSection = ReadTo(pos, part, records)
  <2>1. SectionAt(section, records)
    BY <1>5, <1>7, <1>9, <1>10 DEF SectionAt
  <2> QED BY <1>4, <1>7, <2>1, SectionRead
<1>12. pos + Len(part) = Behind(k + 1) /\ Len(part) \in Nat
       /\ pos + Len(part) - 1 = Behind(k + 1) - 1
  <2>1. J(k) \in Seq(Int) /\ J(k + 1) = J(k) \o part
    <3>1. \A s \in 1 .. n : parts[s] \in Seq(Int)
      BY <1>1
    <3> QED BY <1>3, <1>6, <3>1, JoinedRecursion DEF J
  <2> HIDE DEF part
  <2>2. Len(J(k + 1)) = Len(J(k)) + Len(part) /\ Len(part) \in Nat
        /\ Len(J(k)) \in Nat
    BY <1>7, <2>1, ConcatProperties, LenProperties
  <2>3. pos = 1 + Len(J(k)) /\ Behind(k + 1) = 1 + Len(J(k + 1))
    BY <1>2, <1>3
  <2> QED BY <2>2, <2>3
<1>13. Behind(k + 1) \in Nat \ {0} /\ Len(file) \in Nat
  BY <1>2, <1>5, <1>6, LenProperties
<1> HIDE DEF part
<1>14. CASE Behind(k + 1) - 1 > Len(file)
  <2>1. NextSection = Thrown
    BY <1>11, <1>12, <1>14 DEF ReadTo
  <2> QED BY <1>3, <1>14, <2>1 DEF n, k
<1>15. CASE ~ (Behind(k + 1) - 1 > Len(file))
  <2>1. NextSection = [at |-> Behind(k + 1), got |-> records]
    BY <1>11, <1>12, <1>15 DEF ReadTo
  <2>2. NextSection # Thrown
    BY <1>13, <2>1 DEF Thrown
  <2>3. NextSection.got = records /\ NextSection.at = Behind(k + 1)
    BY <2>1
  <2>4. Behind(k + 1) - 1 <= Len(file)
    BY <1>13, <1>15
  <2> QED BY <1>3, <2>2, <2>3, <2>4 DEF n, k, records
<1> QED BY <1>14, <1>15

-----------------------------------------------------------------------------
(* The invariant holds at first and in every step.                         *)

(* The compiler reads the arguments of a call from the first to the last.  *)
InOrder == ArgumentOrders \subseteq {"first to last"}

(* A writer is given any contents of the layout, whatever their values and *)
(* however many their records.                                             *)
BeforeWriting ==
  /\ WriterInv
  /\ file = <<>> /\ pos = 1 /\ loaded = <<>> /\ stage = "write"

(* The invariant holds before anything is written,                         *)
LEMMA FileInvBeforeWriting ==
  ASSUME BeforeWriting
  PROVE  FileInv
<1>1. WriterInv /\ loaded = <<>> /\ pos = 1 /\ stage = "write"
  BY DEF BeforeWriting
<1>2. Behind(0) = 1 /\ Len(Layout(format)) \in Nat
  BY <1>1, SectionsInFile
<1>3. Len(loaded) = 0 /\ SubSeq(written, 1, 0) = <<>>
  <2>1. 1 \in Int /\ 0 \in Int /\ 0 < 1
    OBVIOUS
  <2> QED BY <1>1, <2>1, SubSeqEmpty, LenProperties
<1>4. 0 \in 0 .. Len(Layout(format))
  BY <1>2
<1>5. ReaderInv
  BY <1>1, <1>2, <1>3, <1>4 DEF ReaderInv
<1>6. StageInv
  BY <1>1 DEF StageInv
<1> QED BY <1>1, <1>5, <1>6 DEF FileInv

(* as the contents that the model enumerates are such contents,            *)
LEMMA FileInvInitially ==
  ASSUME InOrder, FilesInit
  PROVE  FileInv
<1>1. CASE NoFile
  BY <1>1 DEF NoFile, FileInv
<1>2. CASE Init
  <2>1. format \in AllFormats /\ reader \in AllFormats
    <3>1. Formats \subseteq {"EMP", "MIN", "SHAPE"}
      BY ConstantsAssumption, Zenon
    <3> QED BY <1>2, <3>1 DEF Init, AllFormats
  <2>2. FirstToLast
    BY <1>2 DEF Init, InOrder, FirstToLast
  <2>3. written \in Contents(format) /\ file = <<>> /\ loaded = <<>>
        /\ pos = 1 /\ stage = "write"
    BY <1>2 DEF Init
  <2>4. ContentTyped(format, written)
    BY <2>1, <2>3, ContentsAreTyped
  <2>5. BeforeWriting
    BY <2>1, <2>2, <2>3, <2>4 DEF BeforeWriting, WriterInv
  <2> QED BY <2>5, FileInvBeforeWriting
<1> QED BY <1>1, <1>2 DEF FilesInit

(* What nothing but the position depends on.                               *)
LEMMA WriterStays ==
  ASSUME UNCHANGED <<format, reader, order, written>>
  PROVE  /\ WriterInv <=> WriterInv'
         /\ WholeFile' = WholeFile
         /\ \A k : Behind(k)' = Behind(k)
BY DEF WriterInv, WholeFile, Behind, FirstToLast

(* A beginning of the file is on disk.                                     *)
LEMMA BeginningOnDisk ==
  ASSUME NEW whole \in Seq(Int), NEW n \in 0 .. Len(whole)
  PROVE  LET cut == SubSeq(whole, 1, n)
         IN  cut \in Seq(Int) /\ Extends(cut, whole) /\ Len(cut) = n
<1> DEFINE cut == SubSeq(whole, 1, n)
<1>1. Len(whole) \in Nat /\ \A i \in 1 .. Len(whole) : whole[i] \in Int
  BY LenProperties, ElementOfSeq
<1>2. 1 \in Int /\ n \in Int /\ \A i \in 1 .. n : whole[i] \in Int
  BY <1>1
<1>3. /\ cut \in Seq(Int) /\ Len(cut) = IF 1 <= n THEN n - 1 + 1 ELSE 0
      /\ \A i \in 1 .. n - 1 + 1 : cut[i] = whole[1 + i - 1]
  BY <1>2, SubSeqProperties
<1> HIDE DEF cut
<1>4. Len(cut) = n
  BY <1>1, <1>3
<1>5. \A i \in 1 .. Len(cut) : whole[i] = cut[i]
  <2>1. \A i \in 1 .. Len(cut) : i \in 1 .. n - 1 + 1 /\ 1 + i - 1 = i
    BY <1>1, <1>4
  <2> QED BY <1>3, <2>1
<1>6. Len(cut) \in Nat /\ Len(cut) <= Len(whole)
  BY <1>1, <1>4
<1> QED BY <1>1, <1>3, <1>4, <1>5, <1>6 DEF Extends, cut

(* Writing, all of it or a beginning, keeps it,                            *)
LEMMA WriteKeepsInv ==
  ASSUME WriterInv, ReaderInv, StageInv, Write \/ WriteCut
  PROVE  FileInv'
<1>1. /\ UNCHANGED <<format, reader, order, written, pos, loaded>>
      /\ stage = "write" /\ stage' = "read" /\ loaded = <<>>
  BY DEF Write, WriteCut, StageInv
<1>2. /\ WriterInv' /\ WholeFile' = WholeFile
      /\ \A k : Behind(k)' = Behind(k)
  BY <1>1, WriterStays
<1>3. /\ WholeFile \in Seq(Int) /\ Len(WholeFile) \in Nat /\ Behind(0) = 1
  BY SectionsInFile, LenProperties
<1>4. \E n \in 0 .. Len(WholeFile) : file' = SubSeq(WholeFile, 1, n)
  <2>1. CASE Write
    <3>1. SubSeq(WholeFile, 1, Len(WholeFile)) = WholeFile
      BY <1>3, SubSeqFull
    <3>2. Len(WholeFile) \in 0 .. Len(WholeFile)
      BY <1>3
    <3> QED BY <2>1, <3>1, <3>2 DEF Write
  <2>2. CASE WriteCut
    <3>1. PICK n \in 0 .. Len(WholeFile) - 1 : file' = SubSeq(WholeFile, 1, n)
      BY <2>2 DEF WriteCut
    <3>2. n \in 0 .. Len(WholeFile)
      BY <1>3
    <3> QED BY <3>1, <3>2
  <2> QED BY <2>1, <2>2
<1>5. PICK n \in 0 .. Len(WholeFile) : file' = SubSeq(WholeFile, 1, n)
  BY <1>4
<1>6. file' \in Seq(Int) /\ Extends(file', WholeFile) /\ Len(file') = n
  BY <1>3, <1>5, BeginningOnDisk
<1>7. pos = 1 /\ n \in Nat
  <2>1. Len(loaded) = 0
    BY <1>1, LenProperties
  <2>2. pos = 1
    BY <1>3, <2>1 DEF ReaderInv
  <2> QED BY <1>3, <2>2
<1>8. OnDisk' /\ pos' - 1 <= Len(file')
  <2>1. pos' = 1 /\ 1 - 1 <= n
    BY <1>1, <1>7
  <2> QED BY <1>2, <1>6, <2>1 DEF OnDisk, Extends
<1>9. ReaderInv'
  BY <1>1, <1>2 DEF ReaderInv
<1>10. StageInv'
  BY <1>1, <1>8 DEF StageInv
<1> QED BY <1>2, <1>9, <1>10 DEF FileInv

(* so does reading the next section, which is the next one written,        *)
LEMMA ReadKeepsInv ==
  ASSUME WriterInv, ReaderInv, StageInv, ReadNext
  PROVE  FileInv'
<1> DEFINE k == Len(loaded)
           n == Len(Layout(format))
<1>1. /\ UNCHANGED <<format, reader, order, written, file, stage>>
      /\ stage = "read" /\ k < Len(Layout(reader))
      /\ NextSection # Thrown /\ MagicMatches(NextSection)
      /\ loaded' = Append(loaded, NextSection.got) /\ pos' = NextSection.at
  BY DEF ReadNext
<1>2. /\ WriterInv' /\ WholeFile' = WholeFile
      /\ \A m : Behind(m)' = Behind(m)
  BY <1>1, WriterStays
<1>3. OnDisk /\ pos - 1 <= Len(file)
  BY <1>1 DEF StageInv
<1>4. /\ k \in 0 .. n - 1 /\ loaded = SubSeq(written, 1, k)
      /\ NextSection.got = written[k + 1] /\ NextSection.at = Behind(k + 1)
      /\ Behind(k + 1) - 1 <= Len(file)
  BY <1>1, <1>3, NextSectionRead
<1>5. /\ written \in Seq(Seq(Seq(Field0))) /\ Len(written) = n
      /\ written[1][1][1] = Magic(format)
      /\ format \in AllFormats /\ reader \in AllFormats
      /\ n \in Nat \ {0}
  BY SectionsInFile DEF WriterInv, ContentTyped
<1>6. reader = format
  <2> SUFFICES ASSUME reader # format PROVE FALSE
    OBVIOUS
  <2>1. loaded = <<>>
    BY DEF ReaderInv
  <2>2. k = 0 /\ 0 + 1 = 1
    BY <2>1, LenProperties
  <2>3. NextSection.got[1][1] = Magic(reader)
    BY <1>1, <2>1 DEF MagicMatches
  <2>4. NextSection.got[1][1] = Magic(format)
    <3> HIDE DEF k
    <3> QED BY <1>4, <1>5, <2>2
  <2>5. Magic(format) # Magic(reader)
    BY <1>5 DEF Magic, AllFormats
  <2> QED BY <2>3, <2>4, <2>5
<1> HIDE DEF k, n
<1>7. /\ loaded' = SubSeq(written, 1, k + 1) /\ Len(loaded') = k + 1
      /\ pos' = Behind(k + 1) /\ k + 1 \in 0 .. n
  <2>1. k \in 0 .. Len(written) - 1 /\ k + 1 \in 0 .. n
    BY <1>4, <1>5
  <2>2. Append(SubSeq(written, 1, k), written[k + 1]) = SubSeq(written, 1, k + 1)
        /\ SubSeq(written, 1, k) \in Seq(Seq(Seq(Field0)))
    BY <1>5, <2>1, PrefixAppends
  <2>3. k + 1 \in 1 .. n
    BY <1>4, <1>5
  <2>4. written[k + 1] \in Seq(Seq(Field0))
    BY <1>5, <2>3, ElementOfSeq
  <2>5. Len(Append(loaded, written[k + 1])) = Len(loaded) + 1
    BY <1>4, <2>2, <2>4, AppendProperties
  <2> QED BY <1>1, <1>4, <2>1, <2>2, <2>5 DEF k
<1>8. ReaderInv'
  <2>1. format' = format /\ reader' = format' /\ written' = written
    BY <1>1, <1>6
  <2>2. /\ Len(loaded') \in 0 .. Len(Layout(format'))
        /\ loaded' = SubSeq(written', 1, Len(loaded'))
    BY <1>7, <2>1 DEF n
  <2>3. pos' = 1 + Len(Joined(SectionParts(format', written'), Len(loaded')))
    BY <1>7, <2>1 DEF Behind
  <2> QED BY <2>1, <2>2, <2>3 DEF ReaderInv, Behind
<1>9. StageInv'
  <2>1. OnDisk'
    BY <1>1, <1>2, <1>3 DEF OnDisk
  <2>2. pos' - 1 <= Len(file')
    BY <1>1, <1>4
  <2>3. stage' = "read"
    BY <1>1
  <2> QED BY <2>1, <2>2, <2>3 DEF StageInv
<1> QED BY <1>2, <1>8, <1>9 DEF FileInv

(* and throwing: the file ends early or is of the other backend,           *)
LEMMA ThrowKeepsInv ==
  ASSUME WriterInv, ReaderInv, StageInv, ReadThrows
  PROVE  FileInv'
<1> DEFINE k == Len(loaded)
           n == Len(Layout(format))
<1>1. /\ UNCHANGED <<format, reader, order, written, file, pos, loaded>>
      /\ stage = "read" /\ stage' = "refused" /\ k < Len(Layout(reader))
      /\ NextSection # Thrown => ~ MagicMatches(NextSection)
  BY DEF ReadThrows
<1>2. /\ WriterInv' /\ WholeFile' = WholeFile
      /\ \A m : Behind(m)' = Behind(m)
  BY <1>1, WriterStays
<1>3. OnDisk /\ pos - 1 <= Len(file)
  BY <1>1 DEF StageInv
<1>4. /\ k \in 0 .. n - 1
      /\ \/ NextSection = Thrown /\ Behind(k + 1) - 1 > Len(file)
         \/ NextSection # Thrown /\ NextSection.got = written[k + 1]
  BY <1>1, <1>3, NextSectionRead
<1>5. /\ written[1][1][1] = Magic(format) /\ n \in Nat \ {0}
      /\ WholeFile \in Seq(Int)
      /\ \A m \in 0 .. n : /\ Behind(m) \in Nat \ {0}
                           /\ Behind(m) <= 1 + Len(WholeFile)
  BY SectionsInFile DEF WriterInv, ContentTyped
<1>6. file # WholeFile \/ reader # format
  <2> SUFFICES ASSUME file = WholeFile, reader = format PROVE FALSE
    OBVIOUS
  <2>1. CASE NextSection = Thrown /\ Behind(k + 1) - 1 > Len(file)
    <3> HIDE DEF k, n
    <3>1. k + 1 \in 0 .. n
      BY <1>4, <1>5
    <3>2. Behind(k + 1) \in Nat /\ Behind(k + 1) <= 1 + Len(file)
          /\ Len(file) \in Nat
      BY <1>5, <3>1, LenProperties
    <3> QED BY <2>1, <3>2
  <2>2. CASE NextSection # Thrown /\ NextSection.got = written[k + 1]
    <3>1. loaded = <<>> /\ NextSection.got[1][1] # Magic(reader)
      BY <1>1, <2>2 DEF MagicMatches
    <3>2. k = 0
      BY <3>1, LenProperties
    <3> HIDE DEF k
    <3>3. NextSection.got = written[1]
      BY <2>2, <3>2
    <3> QED BY <1>5, <3>1, <3>3
  <2> QED BY <1>4, <2>1, <2>2
<1>7. ReaderInv'
  BY <1>1, <1>2 DEF ReaderInv
<1>8. StageInv'
  <2>1. OnDisk'
    BY <1>1, <1>2, <1>3 DEF OnDisk
  <2>2. pos' - 1 <= Len(file')
    BY <1>1, <1>3
  <2>3. file' # WholeFile' \/ reader' # format'
    BY <1>1, <1>2, <1>6
  <2> QED BY <1>1, <2>1, <2>2, <2>3 DEF StageInv
<1> QED BY <1>2, <1>7, <1>8 DEF FileInv

(* and returning, when all sections are loaded.                            *)
LEMMA ReturnKeepsInv ==
  ASSUME WriterInv, ReaderInv, StageInv, ReadReturns
  PROVE  FileInv'
<1>1. /\ UNCHANGED <<format, reader, order, written, file, pos, loaded>>
      /\ stage = "read" /\ stage' = "loaded"
      /\ Len(loaded) = Len(Layout(reader))
  BY DEF ReadReturns
<1>2. /\ WriterInv' /\ WholeFile' = WholeFile
      /\ \A m : Behind(m)' = Behind(m)
  BY <1>1, WriterStays
<1>3. ReaderInv'
  BY <1>1, <1>2 DEF ReaderInv
<1>4. OnDisk' /\ pos' - 1 <= Len(file')
  BY <1>1, <1>2 DEF StageInv, OnDisk
<1>5. StageInv'
  BY <1>1, <1>4 DEF StageInv
<1> QED BY <1>2, <1>3, <1>5 DEF FileInv

(* So every step keeps it, those about the text files included.            *)
LEMMA FileInvNext ==
  ASSUME FileInv, [FilesNext]_<<fileVars, textVars>>
  PROVE  FileInv'
<1>1. CASE UNCHANGED fileVars
  <2>1. UNCHANGED <<format, reader, order, written, file, pos, loaded, stage>>
    BY <1>1 DEF fileVars
  <2>2. /\ WriterInv <=> WriterInv'
        /\ WholeFile' = WholeFile
        /\ \A m : Behind(m)' = Behind(m)
    BY <2>1, WriterStays
  <2>3. ReaderInv => ReaderInv'
    BY <2>1, <2>2 DEF ReaderInv
  <2>4. StageInv => StageInv'
    <3>1. OnDisk => OnDisk'
      BY <2>1, <2>2 DEF OnDisk
    <3> HIDE DEF OnDisk
    <3>2. file' = file /\ WholeFile' = WholeFile /\ reader' = reader
          /\ format' = format /\ stage' = stage /\ loaded' = loaded /\ pos' = pos
      BY <2>1, <2>2
    <3> QED BY <3>1, <3>2 DEF StageInv
  <2> QED BY <2>1, <2>2, <2>3, <2>4 DEF FileInv
<1>2. CASE Next
  <2>1. WriterInv /\ ReaderInv /\ StageInv
    <3>1. stage # "none"
      BY <1>2 DEF Next, Write, WriteCut, ReadNext, ReadThrows, ReadReturns
    <3> QED BY <3>1 DEF FileInv
  <2> QED BY <1>2, <2>1, WriteKeepsInv, ReadKeepsInv, ThrowKeepsInv,
             ReturnKeepsInv DEF Next
<1> QED BY <1>1, <1>2 DEF FilesNext

-----------------------------------------------------------------------------
(* What the invariant says when the reader has ended.                      *)

(* A file that was loaded was whole, and its reader of its own backend.    *)
LEMMA LoadedFile ==
  ASSUME FileInv, stage = "loaded"
  PROVE  reader = format /\ loaded = written /\ file = WholeFile
<1> DEFINE n == Len(Layout(format))
<1>1. WriterInv /\ ReaderInv /\ OnDisk /\ pos - 1 <= Len(file)
      /\ Len(loaded) = Len(Layout(reader))
  BY DEF FileInv, StageInv
<1>2. reader \in AllFormats /\ format \in AllFormats
      /\ written \in Seq(Seq(Seq(Field0))) /\ Len(written) = n
  BY <1>1 DEF WriterInv, ContentTyped
<1>3. reader = format
  <2> SUFFICES ASSUME reader # format PROVE FALSE
    OBVIOUS
  <2>1. loaded = <<>>
    BY <1>1 DEF ReaderInv
  <2>2. Len(loaded) = 0
    BY <2>1, LenProperties
  <2>3. Len(Layout(reader)) \in Nat \ {0}
    BY <1>2, LayoutOfFormat
  <2> QED BY <1>1, <2>2, <2>3
<1>4. loaded = written /\ pos = Behind(n)
  <2>1. loaded = SubSeq(written, 1, n) /\ pos = Behind(n)
    BY <1>1, <1>3 DEF ReaderInv
  <2>2. SubSeq(written, 1, n) = written
    BY <1>2, SubSeqFull
  <2> QED BY <2>1, <2>2
<1>5. WholeFile \in Seq(Int) /\ Behind(n) = 1 + Len(WholeFile)
  BY <1>1, SectionsInFile
<1>6. file = WholeFile
  <2>1. /\ file \in Seq(Int) /\ Len(file) \in Nat /\ Len(WholeFile) \in Nat
        /\ Len(file) <= Len(WholeFile)
        /\ \A i \in 1 .. Len(file) : WholeFile[i] = file[i]
    BY <1>1 DEF OnDisk, Extends
  <2>2. Len(file) = Len(WholeFile)
    <3>1. (1 + Len(WholeFile)) - 1 <= Len(file)
      BY <1>1, <1>4, <1>5
    <3> QED BY <2>1, <3>1
  <2> QED BY <1>5, <2>1, <2>2, SeqEqual
<1> QED BY <1>3, <1>4, <1>6

(* What the reader of a binary file returns is what a writer of its own    *)
(* backend was given: no field of any section is taken for another one.    *)
THEOREM FileIsReadAsWritten ==
  ASSUME InOrder
  PROVE  FilesSpec => []LoadedIsWritten
<1>1. FilesInit => FileInv
  BY FileInvInitially
<1>2. FileInv /\ [FilesNext]_<<fileVars, textVars>> => FileInv'
  BY FileInvNext
<1>3. FileInv => LoadedIsWritten
  BY LoadedFile DEF LoadedIsWritten
<1> QED BY <1>1, <1>2, <1>3, PTL DEF FilesSpec

(* A file that was cut short, wherever that was, is never loaded.          *)
THEOREM CutFileNeverLoads ==
  ASSUME InOrder
  PROVE  FilesSpec => []CutFileIsRefused
<1>1. FilesInit => FileInv
  BY FileInvInitially
<1>2. FileInv /\ [FilesNext]_<<fileVars, textVars>> => FileInv'
  BY FileInvNext
<1>3. FileInv => CutFileIsRefused
  BY LoadedFile DEF CutFileIsRefused
<1> QED BY <1>1, <1>2, <1>3, PTL DEF FilesSpec

(* Nothing else is refused: a reader that gives up has a cut file, or the  *)
(* file of the other backend.                                              *)
THEOREM WholeFileIsNotRefused ==
  ASSUME InOrder
  PROVE  FilesSpec => []OwnWholeFileLoads
<1>1. FilesInit => FileInv
  BY FileInvInitially
<1>2. FileInv /\ [FilesNext]_<<fileVars, textVars>> => FileInv'
  BY FileInvNext
<1>3. FileInv => OwnWholeFileLoads
  BY DEF FileInv, StageInv, OwnWholeFileLoads
<1> QED BY <1>1, <1>2, <1>3, PTL DEF FilesSpec

(* All of that holds whatever the writer is given: numbers of any size,    *)
(* blocks, strings and vectors of any contents, in any number of records.  *)
THEOREM AnyContentIsReadAsWritten ==
  BeforeWriting /\ [][FilesNext]_<<fileVars, textVars>>
    => [](LoadedIsWritten /\ CutFileIsRefused /\ OwnWholeFileLoads)
<1>1. BeforeWriting => FileInv
  BY FileInvBeforeWriting
<1>2. FileInv /\ [FilesNext]_<<fileVars, textVars>> => FileInv'
  BY FileInvNext
<1>3. FileInv => LoadedIsWritten /\ CutFileIsRefused /\ OwnWholeFileLoads
  <2>1. FileInv => LoadedIsWritten /\ CutFileIsRefused
    BY LoadedFile DEF LoadedIsWritten, CutFileIsRefused
  <2>2. FileInv => OwnWholeFileLoads
    BY DEF FileInv, StageInv, OwnWholeFileLoads
  <2> QED BY <2>1, <2>2
<1> QED BY <1>1, <1>2, <1>3, PTL

-----------------------------------------------------------------------------
(* The text files.  Their readers look up keys, so that a file is what its *)
(* keys and values say.  Every line of a key has the value of that field,  *)
(* so that no duplicate matters; whatever ends a file early takes the      *)
(* value of its last line away, which every reader asks for.  The audit    *)
(* meets the name of the secret key before it meets a plaintext.           *)

(* A set of natural numbers has a least one.                               *)
LEMMA LeastElement ==
  ASSUME NEW I \in SUBSET Nat, I # {}
  PROVE  /\ Min(I) \in I
         /\ \A k \in I : Min(I) <= k
<1> DEFINE R == OpToRel(<, Nat)
<1>1. \A x, y \in Nat : y < x => <<y, x>> \in R
  BY DEF OpToRel
<1> HIDE DEF R
<1>2. PICK x \in I : \A y \in I : x <= y
  <2>1. IsWellFoundedOn(R, Nat)
    BY NatLessThanWellFounded DEF R
  <2>2. PICK x \in I : \A y \in I : ~ (<<y, x>> \in R)
    BY <2>1, WFMin
  <2>3. \A y \in I : x \in Nat /\ y \in Nat /\ ~ (y < x)
    BY <1>1, <2>2
  <2>4. \A y \in I : x <= y
    BY <2>3
  <2> QED BY <2>4
<1>3. \E z \in I : \A y \in I : z =< y
  BY <1>2
<1> QED BY <1>3 DEF Min

(* The lines with a key, and the value that a reader takes for it.         *)
At(lines, section, name) ==
  {i \in 1 .. Len(lines) : lines[i].key = <<section, name>>}

(* The value of the first line with the key is that of one of them.        *)
LEMMA FieldValueAt ==
  ASSUME NEW lines, NEW section, NEW name, Len(lines) \in Nat
  PROVE  /\ At(lines, section, name) = {} =>
              Field(lines, section, name) = Nothing
         /\ At(lines, section, name) # {} =>
              \E i \in At(lines, section, name) :
                Field(lines, section, name) = lines[i].value
<1> DEFINE I == At(lines, section, name)
           n == IF I # {} THEN Min(I) ELSE 0
<1>1. Field(lines, section, name) = IF n = 0 THEN Nothing ELSE lines[n].value
  BY Zenon DEF Field, SelectInSeq, At
<1>2. I \in SUBSET Nat /\ 0 \notin I
  BY DEF At
<1> HIDE DEF I
<1>3. I = {} => Field(lines, section, name) = Nothing
  BY <1>1
<1>4. ASSUME I # {}
      PROVE  \E i \in I : Field(lines, section, name) = lines[i].value
  <2>1. Min(I) \in I
    BY <1>2, <1>4, LeastElement
  <2>2. n # 0 /\ n = Min(I)
    BY <1>2, <1>4, <2>1
  <2> QED BY <1>1, <2>1, <2>2
<1> QED BY <1>3, <1>4 DEF I

(* A key whose lines agree has their value; one that has no line has none. *)
Agree(lines, section, name, value) ==
  /\ \E i \in 1 .. Len(lines) : lines[i].key = <<section, name>>
  /\ \A k \in 1 .. Len(lines) :
       lines[k].key = <<section, name>> => lines[k].value = value

(* Lines that agree on a key: no matter which of them is the first.        *)
LEMMA FieldOfLine ==
  ASSUME NEW lines, NEW section, NEW name, NEW value, Len(lines) \in Nat,
         Agree(lines, section, name, value)
  PROVE  Field(lines, section, name) = value
<1>1. At(lines, section, name) # {}
  BY DEF At, Agree
<1>2. PICK j \in At(lines, section, name) :
        Field(lines, section, name) = lines[j].value
  BY <1>1, FieldValueAt
<1> QED BY <1>2 DEF At, Agree

(* A key without a line.                                                   *)
LEMMA FieldOfNoLine ==
  ASSUME NEW lines, NEW section, NEW name, Len(lines) \in Nat,
         \A k \in 1 .. Len(lines) : lines[k].key # <<section, name>>
  PROVE  Field(lines, section, name) = Nothing
<1>1. At(lines, section, name) = {}
  BY DEF At
<1> QED BY <1>1, FieldValueAt

-----------------------------------------------------------------------------
(* A sequence of whatever elements.                                        *)
IsSeq(s) == \E S : s \in Seq(S)

(* Two sequences, one after the other.                                     *)
LEMMA JoinedSeqs ==
  ASSUME NEW s, NEW t, IsSeq(s), IsSeq(t)
  PROVE  /\ IsSeq(s \o t) /\ Len(s \o t) = Len(s) + Len(t)
         /\ Len(s) \in Nat /\ Len(t) \in Nat /\ Len(s \o t) \in Nat
         /\ \A i \in 1 .. Len(s) + Len(t) :
              (s \o t)[i] = IF i <= Len(s) THEN s[i] ELSE t[i - Len(s)]
<1>1. PICK S : s \in Seq(S)
  BY DEF IsSeq
<1>2. PICK T : t \in Seq(T)
  BY DEF IsSeq
<1>3. s \in Seq(S \cup T) /\ t \in Seq(S \cup T)
  BY <1>1, <1>2, SeqMonotonic
<1>4. Len(s) \in Nat /\ Len(t) \in Nat
  BY <1>3, LenProperties
<1> QED BY <1>3, <1>4, ConcatProperties DEF IsSeq

(* The lines of some fields.                                               *)
LEMMA LinesOfFields ==
  ASSUME NEW section, NEW names, IsSeq(names), NEW record
  PROVE  /\ IsSeq(Lines(section, names, record))
         /\ Len(Lines(section, names, record)) = Len(names)
         /\ Len(names) \in Nat
         /\ \A k \in 1 .. Len(names) :
              Lines(section, names, record)[k] =
                Line(section, names[k], ValueText(names[k], record[names[k]]))
<1> DEFINE n == Len(names)
           e(k) == Line(section, names[k], ValueText(names[k], record[names[k]]))
           S == {e(k) : k \in 1 .. n}
           L == [k \in 1 .. n |-> e(k)]
<1>1. n \in Nat /\ DOMAIN names = 1 .. n
  BY LenProperties DEF IsSeq
<1>2. Lines(section, names, record) = L
  BY <1>1 DEF Lines
<1> HIDE DEF e, n
<1>3. L \in [1 .. n -> S]
  OBVIOUS
<1>5. \A k \in 1 .. n : L[k] = e(k)
  OBVIOUS
<1> HIDE DEF L, S
<1>4. L \in Seq(S) /\ Len(L) = n
  BY <1>1, <1>3
<1> QED BY <1>1, <1>2, <1>4, <1>5 DEF IsSeq, n, e

-----------------------------------------------------------------------------
(* The names of the fields, in their order; first any two names.           *)
LEMMA TwoNames ==
  ASSUME NEW a, NEW b
  PROVE  LET s == <<a, b>>
         IN  /\ IsSeq(s) /\ Len(s) = 2
             /\ s[1] = a /\ s[2] = b
<1>1. <<a, b>> \in Seq({a, b})
  OBVIOUS
<1> QED BY <1>1 DEF IsSeq

(* Five of them.                                                           *)
LEMMA FiveNames ==
  ASSUME NEW a, NEW b, NEW c, NEW d, NEW e
  PROVE  LET s == <<a, b, c, d, e>>
         IN  /\ IsSeq(s) /\ Len(s) = 5
             /\ s[1] = a /\ s[2] = b /\ s[3] = c /\ s[4] = d /\ s[5] = e
<1>1. <<a, b, c, d, e>> \in Seq({a, b, c, d, e})
  OBVIOUS
<1> QED BY <1>1 DEF IsSeq

(* Seven of them.                                                          *)
LEMMA SevenNames ==
  ASSUME NEW a, NEW b, NEW c, NEW d, NEW e, NEW f, NEW g
  PROVE  LET s == <<a, b, c, d, e, f, g>>
         IN  /\ IsSeq(s) /\ Len(s) = 7
             /\ s[1] = a /\ s[2] = b /\ s[3] = c /\ s[4] = d /\ s[5] = e
             /\ s[6] = f /\ s[7] = g
<1>1. <<a, b, c, d, e, f, g>> \in Seq({a, b, c, d, e, f, g})
  OBVIOUS
<1> QED BY <1>1 DEF IsSeq

(* Four of them.                                                           *)
LEMMA FourNames ==
  ASSUME NEW a, NEW b, NEW c, NEW d
  PROVE  LET s == <<a, b, c, d>>
         IN  /\ IsSeq(s) /\ Len(s) = 4
             /\ s[1] = a /\ s[2] = b /\ s[3] = c /\ s[4] = d
<1>1. <<a, b, c, d>> \in Seq({a, b, c, d})
  OBVIOUS
<1> QED BY <1>1 DEF IsSeq

(* The tuples of names, element by element.                                *)
LEMMA NamesInOrder ==
  /\ IsSeq(TopNames) /\ Len(TopNames) = 2
  /\ TopNames[1] = "logical_plaintext_bits"
  /\ TopNames[2] = "plaintext_modulus"
  /\ IsSeq(HskNames) /\ Len(HskNames) = 5
  /\ HskNames[1] = "dimension"
  /\ HskNames[2] = "modulus"
  /\ HskNames[3] = "s_raw"
  /\ HskNames[4] = "switched_modulus"
  /\ HskNames[5] = "s_mod_q"
  /\ IsSeq(CiphertextNames) /\ Len(CiphertextNames) = 5
  /\ CiphertextNames[1] = "dimension"
  /\ CiphertextNames[2] = "ciphertext_modulus"
  /\ CiphertextNames[3] = "plaintext_modulus"
  /\ CiphertextNames[4] = "body"
  /\ CiphertextNames[5] = "a"
  /\ IsSeq(FullCiphertextNames) /\ Len(FullCiphertextNames) = 7
  /\ FullCiphertextNames[1] = "plaintext"
  /\ FullCiphertextNames[2] = "dimension"
  /\ FullCiphertextNames[3] = "ciphertext_modulus"
  /\ FullCiphertextNames[4] = "plaintext_modulus"
  /\ FullCiphertextNames[5] = "body"
  /\ FullCiphertextNames[6] = "a"
  /\ FullCiphertextNames[7] = "manual_dec"
  /\ IsSeq(ReadNames) /\ Len(ReadNames) = 4
  /\ ReadNames[1] = "dimension"
  /\ ReadNames[2] = "modulus"
  /\ ReadNames[3] = "switched_modulus"
  /\ ReadNames[4] = "s_mod_q"
<1>1. /\ IsSeq(TopNames) /\ Len(TopNames) = 2
      /\ TopNames[1] = "logical_plaintext_bits"
      /\ TopNames[2] = "plaintext_modulus"
  <2> DEFINE a == "logical_plaintext_bits"
             b == "plaintext_modulus"
  <2>1. TopNames = <<a, b>>
    BY DEF TopNames
  <2> HIDE DEF a, b
  <2>3. /\ IsSeq(TopNames) /\ Len(TopNames) = 2
        /\ TopNames[1] = a /\ TopNames[2] = b
    BY <2>1, TwoNames
  <2> QED BY <2>3 DEF a, b
<1>2. /\ IsSeq(HskNames) /\ Len(HskNames) = 5
      /\ HskNames[1] = "dimension"
      /\ HskNames[2] = "modulus"
      /\ HskNames[3] = "s_raw"
      /\ HskNames[4] = "switched_modulus"
      /\ HskNames[5] = "s_mod_q"
  <2> DEFINE a == "dimension"
             b == "modulus"
             c == "s_raw"
             d == "switched_modulus"
             e == "s_mod_q"
  <2>1. HskNames = <<a, b, c, d, e>>
    BY DEF HskNames
  <2> HIDE DEF a, b, c, d, e
  <2>3. /\ IsSeq(HskNames) /\ Len(HskNames) = 5
        /\ HskNames[1] = a /\ HskNames[2] = b /\ HskNames[3] = c
        /\ HskNames[4] = d /\ HskNames[5] = e
    BY <2>1, FiveNames
  <2> QED BY <2>3 DEF a, b, c, d, e
<1>3. /\ IsSeq(CiphertextNames) /\ Len(CiphertextNames) = 5
      /\ CiphertextNames[1] = "dimension"
      /\ CiphertextNames[2] = "ciphertext_modulus"
      /\ CiphertextNames[3] = "plaintext_modulus"
      /\ CiphertextNames[4] = "body"
      /\ CiphertextNames[5] = "a"
  <2> DEFINE a == "dimension"
             b == "ciphertext_modulus"
             c == "plaintext_modulus"
             d == "body"
             e == "a"
  <2>1. CiphertextNames = <<a, b, c, d, e>>
    BY DEF CiphertextNames
  <2> HIDE DEF a, b, c, d, e
  <2>3. /\ IsSeq(CiphertextNames) /\ Len(CiphertextNames) = 5
        /\ CiphertextNames[1] = a /\ CiphertextNames[2] = b
        /\ CiphertextNames[3] = c /\ CiphertextNames[4] = d
        /\ CiphertextNames[5] = e
    BY <2>1, FiveNames
  <2> QED BY <2>3 DEF a, b, c, d, e
<1>4. /\ IsSeq(FullCiphertextNames) /\ Len(FullCiphertextNames) = 7
      /\ FullCiphertextNames[1] = "plaintext"
      /\ FullCiphertextNames[2] = "dimension"
      /\ FullCiphertextNames[3] = "ciphertext_modulus"
      /\ FullCiphertextNames[4] = "plaintext_modulus"
      /\ FullCiphertextNames[5] = "body"
      /\ FullCiphertextNames[6] = "a"
      /\ FullCiphertextNames[7] = "manual_dec"
  <2> DEFINE a == "plaintext"
             b == "dimension"
             c == "ciphertext_modulus"
             d == "plaintext_modulus"
             e == "body"
             f == "a"
             g == "manual_dec"
  <2>1. FullCiphertextNames = <<a, b, c, d, e, f, g>>
    BY DEF FullCiphertextNames
  <2> HIDE DEF a, b, c, d, e, f, g
  <2>3. /\ IsSeq(FullCiphertextNames) /\ Len(FullCiphertextNames) = 7
        /\ FullCiphertextNames[1] = a /\ FullCiphertextNames[2] = b
        /\ FullCiphertextNames[3] = c /\ FullCiphertextNames[4] = d
        /\ FullCiphertextNames[5] = e /\ FullCiphertextNames[6] = f
        /\ FullCiphertextNames[7] = g
    BY <2>1, SevenNames
  <2> QED BY <2>3 DEF a, b, c, d, e, f, g
<1>5. /\ IsSeq(ReadNames) /\ Len(ReadNames) = 4
      /\ ReadNames[1] = "dimension"
      /\ ReadNames[2] = "modulus"
      /\ ReadNames[3] = "switched_modulus"
      /\ ReadNames[4] = "s_mod_q"
  <2> DEFINE a == "dimension"
             b == "modulus"
             c == "switched_modulus"
             d == "s_mod_q"
  <2>1. ReadNames = <<a, b, c, d>>
    BY DEF ReadNames
  <2> HIDE DEF a, b, c, d
  <2>3. /\ IsSeq(ReadNames) /\ Len(ReadNames) = 4
        /\ ReadNames[1] = a /\ ReadNames[2] = b /\ ReadNames[3] = c
        /\ ReadNames[4] = d
    BY <2>1, FourNames
  <2> QED BY <2>3 DEF a, b, c, d
<1> QED BY <1>1, <1>2, <1>3, <1>4, <1>5

-----------------------------------------------------------------------------
(* What a writer writes for a key; the value depends on nothing else.      *)
ValueOf(m, fmt, section, name) ==
  IF section = "top"
  THEN IF name = "format" THEN Text("name", fmt) ELSE ValueText(name, m[name])
  ELSE ValueText(name, m[section][name])

IsLineOf(line, m, fmt) ==
  \E section, name :
    line = Line(section, name, ValueOf(m, fmt, section, name))

Writes(lines, m, fmt) ==
  /\ IsSeq(lines) /\ Len(lines) \in Nat
  /\ \A k \in 1 .. Len(lines) : IsLineOf(lines[k], m, fmt)

Has(lines, section, name) ==
  \E k \in 1 .. Len(lines) : lines[k].key = <<section, name>>

(* A reader finds under a key what the writer wrote under it.              *)
LEMMA WrittenField ==
  ASSUME NEW lines, NEW m, NEW fmt, Writes(lines, m, fmt),
         NEW section, NEW name, Has(lines, section, name)
  PROVE  Field(lines, section, name) = ValueOf(m, fmt, section, name)
<1>1. PICK i \in 1 .. Len(lines) : lines[i].key = <<section, name>>
  BY DEF Has
<1>2. ASSUME NEW k \in 1 .. Len(lines), lines[k].key = <<section, name>>
      PROVE  lines[k].value = ValueOf(m, fmt, section, name)
  <2>1. PICK s, n : lines[k] = Line(s, n, ValueOf(m, fmt, s, n))
    BY DEF Writes, IsLineOf
  <2>2. s = section /\ n = name
    BY <1>2, <2>1 DEF Line
  <2> QED BY <2>1, <2>2 DEF Line
<1>3. Len(lines) \in Nat
  BY DEF Writes
<1>4. Agree(lines, section, name, ValueOf(m, fmt, section, name))
  BY <1>1, <1>2 DEF Agree
<1> QED BY <1>3, <1>4, FieldOfLine

(* The parts of a file, one after the other.                               *)
Both(s, t, m, fmt) ==
  /\ Writes(s \o t, m, fmt) /\ Len(s \o t) = Len(s) + Len(t)
  /\ Len(s) \in Nat /\ Len(t) \in Nat
  /\ \A i \in 1 .. Len(s) : (s \o t)[i] = s[i]
  /\ \A i \in 1 .. Len(t) : (s \o t)[Len(s) + i] = t[i]
  /\ \A section, name :
       Has(s \o t, section, name) <=>
         Has(s, section, name) \/ Has(t, section, name)

(* Lines of one material, followed by more lines of it.                    *)
LEMMA WritesBoth ==
  ASSUME NEW s, NEW t, NEW m, NEW fmt, Writes(s, m, fmt), Writes(t, m, fmt)
  PROVE  Both(s, t, m, fmt)
<1> DEFINE u == s \o t
           a == Len(s)
           b == Len(t)
<1>1. /\ IsSeq(u) /\ Len(u) = a + b /\ a \in Nat /\ b \in Nat
      /\ Len(u) \in Nat
      /\ \A i \in 1 .. a + b : u[i] = IF i <= a THEN s[i] ELSE t[i - a]
  BY JoinedSeqs DEF Writes
<1> HIDE DEF u, a, b
<1>2. \A i \in 1 .. a : u[i] = s[i] /\ i \in 1 .. a + b
  BY <1>1
<1>3. ASSUME NEW i \in 1 .. b
      PROVE  u[a + i] = t[i] /\ a + i \in 1 .. a + b
  <2>1. a + i \in 1 .. a + b /\ ~ (a + i <= a) /\ (a + i) - a = i
    BY <1>1
  <2> QED BY <1>1, <2>1
<1>4. \A k \in 1 .. a + b :
        \/ k \in 1 .. a /\ u[k] = s[k]
        \/ k - a \in 1 .. b /\ u[k] = t[k - a]
  BY <1>1
<1>5. Writes(u, m, fmt)
  BY <1>1, <1>4 DEF Writes, a, b
<1>6. ASSUME NEW section, NEW name
      PROVE  Has(u, section, name) <=>
               Has(s, section, name) \/ Has(t, section, name)
  <2>1. Has(u, section, name) => Has(s, section, name) \/ Has(t, section, name)
    BY <1>1, <1>4 DEF Has, a, b
  <2>2. Has(s, section, name) => Has(u, section, name)
    BY <1>1, <1>2 DEF Has, a
  <2>3. Has(t, section, name) => Has(u, section, name)
    BY <1>1, <1>3 DEF Has, b
  <2> QED BY <2>1, <2>2, <2>3
<1> QED BY <1>1, <1>2, <1>3, <1>5, <1>6 DEF u, a, b, Both

(* The lines of some fields, and their keys.                               *)
FieldsFit(m, fmt, section, names, record) ==
  \A k \in 1 .. Len(names) :
    ValueOf(m, fmt, section, names[k]) = ValueText(names[k], record[names[k]])

FieldLines(L, m, fmt, section, names) ==
  /\ Writes(L, m, fmt) /\ Len(L) = Len(names) /\ Len(names) \in Nat
  /\ \A k \in 1 .. Len(names) : L[k].key = <<section, names[k]>>
  /\ \A s, n :
       Has(L, s, n) <=> s = section /\ \E k \in 1 .. Len(names) : names[k] = n

(* The lines of some fields are lines of the material.                     *)
LEMMA WritesFields ==
  ASSUME NEW section, NEW names, IsSeq(names), NEW m, NEW fmt, NEW record,
         FieldsFit(m, fmt, section, names, record)
  PROVE  FieldLines(Lines(section, names, record), m, fmt, section, names)
<1> DEFINE L == Lines(section, names, record)
<1>1. /\ IsSeq(L) /\ Len(L) = Len(names) /\ Len(names) \in Nat
      /\ \A k \in 1 .. Len(names) :
           L[k] = Line(section, names[k], ValueText(names[k], record[names[k]]))
  BY LinesOfFields
<1> HIDE DEF L
<1>2. Writes(L, m, fmt)
  BY <1>1 DEF Writes, IsLineOf, FieldsFit
<1>3. ASSUME NEW k \in 1 .. Len(names)
      PROVE  L[k].key = <<section, names[k]>>
  <2>1. L[k] = Line(section, names[k], ValueText(names[k], record[names[k]]))
    BY <1>1
  <2> DEFINE v == ValueText(names[k], record[names[k]])
             name == names[k]
             line == L[k]
  <2>2. line = Line(section, name, v)
    BY <2>1
  <2> HIDE DEF v, name, line
  <2>3. line.key = <<section, name>>
    BY <2>2 DEF Line
  <2> QED BY <2>3 DEF name, line
<1>4. ASSUME NEW s, NEW n
      PROVE  Has(L, s, n) <=>
               s = section /\ \E k \in 1 .. Len(names) : names[k] = n
  BY <1>1, <1>3 DEF Has
<1> QED BY <1>1, <1>2, <1>3, <1>4 DEF L, FieldLines

-----------------------------------------------------------------------------
(* The two files.                                                          *)
LEMMA FormatLine ==
  ASSUME NEW m, NEW fmt
  PROVE  LET F == <<Line("top", "format", Text("name", fmt))>>
         IN  /\ Writes(F, m, fmt) /\ Len(F) = 1
             /\ \A s, n : Has(F, s, n) <=> s = "top" /\ n = "format"
<1> DEFINE line == Line("top", "format", Text("name", fmt))
           F == <<line>>
<1>1. line.key = <<"top", "format">> /\ IsLineOf(line, m, fmt)
  <2>1. ValueOf(m, fmt, "top", "format") = Text("name", fmt)
    BY DEF ValueOf
  <2>2. IsLineOf(line, m, fmt)
    BY <2>1 DEF IsLineOf
  <2>3. line.key = <<"top", "format">>
    BY DEF Line
  <2> QED BY <2>2, <2>3
<1> HIDE DEF line
<1>2. F \in Seq({line}) /\ Len(F) = 1 /\ F[1] = line
  OBVIOUS
<1> HIDE DEF F
<1>3. \A k : k \in 1 .. Len(F) <=> k = 1
  BY <1>2
<1>4. Writes(F, m, fmt)
  BY <1>1, <1>2, <1>3 DEF Writes, IsSeq
<1>5. ASSUME NEW s, NEW n
      PROVE  Has(F, s, n) <=> s = "top" /\ n = "format"
  <2>1. Has(F, s, n) <=> <<"top", "format">> = <<s, n>>
    BY <1>1, <1>2, <1>3, Zenon DEF Has
  <2> QED BY <2>1
<1> QED BY <1>2, <1>4, <1>5 DEF F, line

(* The fields at the top of a file.                                        *)
LEMMA TopLines ==
  ASSUME NEW m, NEW fmt
  PROVE  FieldLines(Lines("top", TopNames, m), m, fmt, "top", TopNames)
<1>1. \A k \in 1 .. 2 : TopNames[k] # "format"
  <2>1. \A k \in 1 .. 2 : k = 1 \/ k = 2
    OBVIOUS
  <2>2. TopNames[1] # "format" /\ TopNames[2] # "format"
    BY NamesInOrder
  <2> QED BY <2>1, <2>2
<1>2. IsSeq(TopNames) /\ Len(TopNames) = 2
  BY NamesInOrder
<1>3. FieldsFit(m, fmt, "top", TopNames, m)
  BY <1>1, <1>2 DEF ValueOf, FieldsFit
<1> QED BY <1>2, <1>3, WritesFields

(* The fields of a section.                                                *)
LEMMA SectionLines ==
  ASSUME NEW m, NEW fmt, NEW section, section # "top", NEW names, IsSeq(names)
  PROVE  FieldLines(Lines(section, names, m[section]), m, fmt, section, names)
<1>1. FieldsFit(m, fmt, section, names, m[section])
  BY DEF ValueOf, FieldsFit
<1> QED BY <1>1, WritesFields

(* The first part of the file, and the three ciphertexts behind it.        *)
WithCiphertexts(A, m, names) ==
  A \o Lines("a_prime", names, m["a_prime"])
    \o Lines("b_prime", names, m["b_prime"])
    \o Lines("one_prime", names, m["one_prime"])

MaterialLines(lines, A, m, fmt, names) ==
  LET n == Len(names)
      last == Len(A) + n + n
  IN  /\ Writes(lines, m, fmt) /\ Len(lines) = last + n
      /\ n \in Nat /\ Len(A) \in Nat
      /\ \A i \in 1 .. Len(A) : lines[i] = A[i]
      /\ \A s, l :
           Has(lines, s, l) <=>
             Has(A, s, l)
               \/ (s \in Sections /\ \E k \in 1 .. n : names[k] = l)
      /\ \A k \in 1 .. n : lines[last + k].key = <<"one_prime", names[k]>>
      /\ \A k \in 1 .. last : Has(A, lines[k].key[1], lines[k].key[2])
                               \/ lines[k].key[1] \in {"a_prime", "b_prime"}

(* Where the lines of such a file are, and which keys they have.           *)
LEMMA FileLines ==
  ASSUME NEW m, NEW fmt, NEW names, IsSeq(names), NEW A, Writes(A, m, fmt)
  PROVE  MaterialLines(WithCiphertexts(A, m, names), A, m, fmt, names)
<1> DEFINE X == Lines("a_prime", names, m["a_prime"])
           Y == Lines("b_prime", names, m["b_prime"])
           Z == Lines("one_prime", names, m["one_prime"])
           n == Len(names)
           B == A \o X
           C == B \o Y
           D == C \o Z
<1>1. /\ FieldLines(X, m, fmt, "a_prime", names)
      /\ FieldLines(Y, m, fmt, "b_prime", names)
      /\ FieldLines(Z, m, fmt, "one_prime", names)
  <2>1. "a_prime" # "top" /\ "b_prime" # "top" /\ "one_prime" # "top"
    OBVIOUS
  <2> QED BY <2>1, SectionLines
<1> HIDE DEF X, Y, Z
<1>2. /\ Writes(B, m, fmt) /\ Len(B) = Len(A) + n /\ n \in Nat
      /\ Len(A) \in Nat
      /\ \A i \in 1 .. Len(A) : B[i] = A[i]
      /\ \A s, l : Has(B, s, l) <=> Has(A, s, l) \/ Has(X, s, l)
  <2>1. Both(A, X, m, fmt)
    BY <1>1, WritesBoth DEF FieldLines
  <2>2. Len(X) = n
    BY <1>1 DEF FieldLines
  <2> QED BY <2>1, <2>2 DEF Both
<1> HIDE DEF B
<1>3. /\ Writes(C, m, fmt) /\ Len(C) = Len(A) + n + n
      /\ \A i \in 1 .. Len(B) : C[i] = B[i]
      /\ \A s, l : Has(C, s, l) <=> Has(B, s, l) \/ Has(Y, s, l)
  <2>1. Both(B, Y, m, fmt)
    BY <1>1, <1>2, WritesBoth DEF FieldLines
  <2>2. Len(Y) = n
    BY <1>1 DEF FieldLines
  <2> QED BY <1>2, <2>1, <2>2 DEF Both
<1> HIDE DEF C
<1>4. /\ Writes(D, m, fmt) /\ Len(D) = Len(A) + n + n + n
      /\ \A i \in 1 .. Len(C) : D[i] = C[i]
      /\ \A i \in 1 .. n : D[Len(C) + i] = Z[i]
      /\ \A s, l : Has(D, s, l) <=> Has(C, s, l) \/ Has(Z, s, l)
  <2>1. Both(C, Z, m, fmt)
    BY <1>1, <1>3, WritesBoth DEF FieldLines
  <2>2. Len(Z) = n
    BY <1>1 DEF FieldLines
  <2> QED BY <1>2, <1>3, <2>1, <2>2 DEF Both
<1> HIDE DEF D
<1>5. \A i \in 1 .. Len(A) : D[i] = A[i]
  <2>1. \A i \in 1 .. Len(A) : i \in 1 .. Len(B) /\ i \in 1 .. Len(C)
    BY <1>2, <1>3
  <2> QED BY <1>2, <1>3, <1>4, <2>1
<1>6. ASSUME NEW s, NEW l
      PROVE  Has(D, s, l) <=>
               Has(A, s, l)
                 \/ (s \in Sections /\ \E k \in 1 .. n : names[k] = l)
  <2>1. /\ Has(X, s, l) <=> s = "a_prime" /\ \E k \in 1 .. n : names[k] = l
        /\ Has(Y, s, l) <=> s = "b_prime" /\ \E k \in 1 .. n : names[k] = l
        /\ Has(Z, s, l) <=> s = "one_prime" /\ \E k \in 1 .. n : names[k] = l
    BY <1>1 DEF FieldLines
  <2>2. Has(D, s, l) <=>
          Has(A, s, l) \/ Has(X, s, l) \/ Has(Y, s, l) \/ Has(Z, s, l)
    BY <1>2, <1>3, <1>4, Zenon
  <2> HIDE DEF n
  <2> QED BY <2>1, <2>2 DEF Sections
<1>7. \A k \in 1 .. n : D[(Len(A) + n + n) + k].key = <<"one_prime", names[k]>>
  <2>1. \A k \in 1 .. n : D[(Len(A) + n + n) + k] = Z[k]
    BY <1>3, <1>4
  <2>2. \A k \in 1 .. n : Z[k].key = <<"one_prime", names[k]>>
    BY <1>1 DEF FieldLines
  <2> QED BY <2>1, <2>2, Zenon
<1>8. ASSUME NEW k \in 1 .. Len(A) + n + n
      PROVE  Has(A, D[k].key[1], D[k].key[2])
             \/ D[k].key[1] \in {"a_prime", "b_prime"}
  <2>1. k \in 1 .. Len(C)
    BY <1>3
  <2>2. D[k] = C[k]
    BY <1>4, <2>1
  <2>3. PICK s, l : C[k].key = <<s, l>>
    BY <1>3, <2>1 DEF Writes, IsLineOf, Line
  <2>4. Has(C, s, l) /\ D[k].key[1] = s /\ D[k].key[2] = l
    BY <2>1, <2>2, <2>3 DEF Has
  <2>5. Has(A, s, l) \/ Has(X, s, l) \/ Has(Y, s, l)
    BY <1>2, <1>3, <2>4
  <2>6. /\ Has(X, s, l) => s = "a_prime"
        /\ Has(Y, s, l) => s = "b_prime"
    BY <1>1 DEF FieldLines
  <2> QED BY <2>4, <2>5, <2>6
<1>9. D = WithCiphertexts(A, m, names)
  BY DEF B, C, D, X, Y, Z, WithCiphertexts
<1> QED BY <1>2, <1>4, <1>5, <1>6, <1>7, <1>8, <1>9 DEF MaterialLines

(* The keys of the full material, and those of the runtime's.              *)
TopKey(s, l) ==
  s = "top" /\ (l = "format" \/ \E k \in 1 .. 2 : TopNames[k] = l)

FullKey(s, l) ==
  \/ TopKey(s, l)
  \/ s = "hsk" /\ \E k \in 1 .. 5 : HskNames[k] = l
  \/ s \in Sections /\ \E k \in 1 .. 7 : FullCiphertextNames[k] = l

RuntimeKey(s, l) ==
  \/ TopKey(s, l)
  \/ s \in Sections /\ \E k \in 1 .. 5 : CiphertextNames[k] = l

(* Format and numbers are in front.                                        *)
TopOf(m, fmt) ==
  <<Line("top", "format", Text("name", fmt))>> \o Lines("top", TopNames, m)

(* The first three lines, with their keys.                                 *)
LEMMA TopOfLines ==
  ASSUME NEW m, NEW fmt
  PROVE  /\ Writes(TopOf(m, fmt), m, fmt) /\ Len(TopOf(m, fmt)) = 3
         /\ \A s, l : Has(TopOf(m, fmt), s, l) <=> TopKey(s, l)
<1> DEFINE F == <<Line("top", "format", Text("name", fmt))>>
           T == Lines("top", TopNames, m)
<1>1. /\ Writes(F, m, fmt) /\ Len(F) = 1
      /\ \A s, n : Has(F, s, n) <=> s = "top" /\ n = "format"
  BY FormatLine
<1>2. FieldLines(T, m, fmt, "top", TopNames) /\ Len(TopNames) = 2
  BY TopLines, NamesInOrder
<1> HIDE DEF F, T
<1>3. Both(F, T, m, fmt)
  BY <1>1, <1>2, WritesBoth DEF FieldLines
<1>4. TopOf(m, fmt) = F \o T
  BY DEF TopOf, F, T
<1>5. Len(T) = 2 /\ \A s, l : Has(T, s, l) <=>
                        s = "top" /\ \E k \in 1 .. 2 : TopNames[k] = l
  BY <1>2 DEF FieldLines
<1>6. Len(F \o T) = 3 /\ Writes(F \o T, m, fmt)
  BY <1>1, <1>3, <1>5 DEF Both
<1>7. ASSUME NEW s, NEW l
      PROVE  Has(F \o T, s, l) <=> TopKey(s, l)
  <2>1. Has(F \o T, s, l) <=> Has(F, s, l) \/ Has(T, s, l)
    BY <1>3 DEF Both
  <2> QED BY <1>1, <1>5, <2>1, Zenon DEF TopKey
<1> QED BY <1>4, <1>6, <1>7

(* The runtime material.                                                   *)
RuntimeFileLines(lines, m) ==
  /\ Writes(lines, m, RuntimeFormat) /\ Len(lines) = 18
  /\ \A s, l : Has(lines, s, l) <=> RuntimeKey(s, l)
  /\ lines[18].key = <<"one_prime", "a">>
  /\ \A k \in 1 .. 17 : lines[k].key # <<"one_prime", "a">>

(* Its last line is the mask of one'.                                      *)
LEMMA LinesOfRuntimeMaterial ==
  ASSUME NEW m
  PROVE  RuntimeFileLines(RuntimeLines(m), m)
<1> DEFINE A == TopOf(m, RuntimeFormat)
           lines == RuntimeLines(m)
<1>1. /\ Writes(A, m, RuntimeFormat) /\ Len(A) = 3
      /\ \A s, l : Has(A, s, l) <=> TopKey(s, l)
  BY TopOfLines
<1>2. IsSeq(CiphertextNames) /\ Len(CiphertextNames) = 5
      /\ CiphertextNames[5] = "a"
  BY NamesInOrder
<1>3. lines = WithCiphertexts(A, m, CiphertextNames)
  BY DEF RuntimeLines, WithCiphertexts, TopOf
<1> HIDE DEF A, lines
<1>4. MaterialLines(lines, A, m, RuntimeFormat, CiphertextNames)
  BY <1>1, <1>2, <1>3, FileLines
<1>5. Writes(lines, m, RuntimeFormat) /\ Len(lines) = 18
  BY <1>1, <1>2, <1>4 DEF MaterialLines
<1>6. ASSUME NEW s, NEW l
      PROVE  Has(lines, s, l) <=> RuntimeKey(s, l)
  BY <1>1, <1>2, <1>4 DEF MaterialLines, RuntimeKey
<1>7. lines[18].key = <<"one_prime", "a">>
  <2>1. \A k \in 1 .. 5 : lines[13 + k].key = <<"one_prime", CiphertextNames[k]>>
    BY <1>1, <1>2, <1>4 DEF MaterialLines
  <2>2. 5 \in 1 .. 5 /\ 13 + 5 = 18
    OBVIOUS
  <2> QED BY <1>2, <2>1, <2>2
<1>8. ASSUME NEW k \in 1 .. 17
      PROVE  lines[k].key # <<"one_prime", "a">>
  <2>1. CASE k <= 13
    <3>1. Has(A, lines[k].key[1], lines[k].key[2])
          \/ lines[k].key[1] \in {"a_prime", "b_prime"}
      BY <1>1, <1>2, <1>4, <2>1 DEF MaterialLines
    <3>2. lines[k].key[1] # "one_prime"
      BY <1>1, <3>1 DEF TopKey
    <3> QED BY <3>2
  <2>2. CASE k > 13
    <3>1. \A j \in 1 .. 5 : lines[13 + j].key = <<"one_prime", CiphertextNames[j]>>
      BY <1>1, <1>2, <1>4 DEF MaterialLines
    <3> DEFINE j == k - 13
    <3>2. j \in 1 .. 5 /\ 13 + j = k /\ (j = 1 \/ j = 2 \/ j = 3 \/ j = 4)
      BY <2>2
    <3>3. lines[k].key = <<"one_prime", CiphertextNames[j]>>
      BY <3>1, <3>2
    <3> HIDE DEF j
    <3>4. CiphertextNames[j] # "a"
      BY <3>2, NamesInOrder
    <3> QED BY <3>3, <3>4
  <2> QED BY <2>1, <2>2
<1> QED BY <1>5, <1>6, <1>7, <1>8 DEF RuntimeFileLines, lines

(* The full material; in front of every plaintext is the secret key.       *)
FullFileLines(lines, m) ==
  /\ Writes(lines, m, FullFormat) /\ Len(lines) = 29
  /\ \A s, l : Has(lines, s, l) <=> FullKey(s, l)
  /\ lines[29].key = <<"one_prime", "manual_dec">>
  /\ \A k \in 1 .. 28 : lines[k].key # <<"one_prime", "manual_dec">>
  /\ lines[6].key = <<"hsk", "s_raw">>
  /\ \A k \in 1 .. 8 : lines[k].key[2] # "plaintext"

(* Its last line is the manual_dec of one'.                                *)
LEMMA LinesOfFullMaterial ==
  ASSUME NEW m
  PROVE  FullFileLines(FullLines(m), m)
<1> DEFINE T == TopOf(m, FullFormat)
           H == Lines("hsk", HskNames, m["hsk"])
           A == T \o H
           lines == FullLines(m)
<1>1. /\ Writes(T, m, FullFormat) /\ Len(T) = 3
      /\ \A s, l : Has(T, s, l) <=> TopKey(s, l)
  BY TopOfLines
<1>2. IsSeq(HskNames) /\ Len(HskNames) = 5 /\ HskNames[3] = "s_raw"
  BY NamesInOrder
<1>3. FieldLines(H, m, FullFormat, "hsk", HskNames)
  <2>1. "hsk" # "top"
    OBVIOUS
  <2> QED BY <1>2, <2>1, SectionLines
<1>4. IsSeq(FullCiphertextNames) /\ Len(FullCiphertextNames) = 7
      /\ FullCiphertextNames[7] = "manual_dec"
  BY NamesInOrder
<1>5. lines = WithCiphertexts(A, m, FullCiphertextNames)
  BY DEF FullLines, WithCiphertexts, TopOf
<1> HIDE DEF T, H, lines
<1>6. Both(T, H, m, FullFormat)
  BY <1>1, <1>3, WritesBoth DEF FieldLines
<1>7. /\ Writes(A, m, FullFormat) /\ Len(A) = 8
      /\ \A k \in 1 .. 5 : A[3 + k].key = <<"hsk", HskNames[k]>>
      /\ \A s, l : Has(A, s, l) <=>
           TopKey(s, l) \/ (s = "hsk" /\ \E k \in 1 .. 5 : HskNames[k] = l)
  <2>1. Len(H) = 5 /\ \A k \in 1 .. 5 : H[k].key = <<"hsk", HskNames[k]>>
    BY <1>2, <1>3 DEF FieldLines
  <2>2. \A s, l : Has(H, s, l) <=>
                    s = "hsk" /\ \E k \in 1 .. 5 : HskNames[k] = l
    BY <1>2, <1>3 DEF FieldLines
  <2>3. Writes(A, m, FullFormat) /\ Len(A) = 8
    BY <1>1, <1>6, <2>1 DEF Both
  <2>4. \A k \in 1 .. 5 : A[3 + k] = H[k]
    BY <1>1, <1>6, <2>1 DEF Both
  <2>5. \A s, l : Has(A, s, l) <=> Has(T, s, l) \/ Has(H, s, l)
    BY <1>6 DEF Both
  <2> HIDE DEF A
  <2>6. \A k \in 1 .. 5 : A[3 + k].key = <<"hsk", HskNames[k]>>
    BY <2>1, <2>4
  <2>7. \A s, l : Has(A, s, l) <=>
          TopKey(s, l) \/ (s = "hsk" /\ \E k \in 1 .. 5 : HskNames[k] = l)
    BY <1>1, <2>2, <2>5
  <2> QED BY <2>3, <2>6, <2>7
<1> HIDE DEF A
<1>8. MaterialLines(lines, A, m, FullFormat, FullCiphertextNames)
  BY <1>4, <1>5, <1>7, FileLines
<1>9. Writes(lines, m, FullFormat) /\ Len(lines) = 29
  BY <1>4, <1>7, <1>8 DEF MaterialLines
<1>10. ASSUME NEW s, NEW l
       PROVE  Has(lines, s, l) <=> FullKey(s, l)
  BY <1>4, <1>7, <1>8 DEF MaterialLines, FullKey
<1>11. \A k \in 1 .. 7 :
         lines[22 + k].key = <<"one_prime", FullCiphertextNames[k]>>
  BY <1>4, <1>7, <1>8 DEF MaterialLines
<1>12. lines[29].key = <<"one_prime", "manual_dec">>
  <2>1. 7 \in 1 .. 7 /\ 22 + 7 = 29
    OBVIOUS
  <2> QED BY <1>4, <1>11, <2>1
<1>13. ASSUME NEW k \in 1 .. 28
       PROVE  lines[k].key # <<"one_prime", "manual_dec">>
  <2>1. CASE k <= 22
    <3>1. Has(A, lines[k].key[1], lines[k].key[2])
          \/ lines[k].key[1] \in {"a_prime", "b_prime"}
      BY <1>4, <1>7, <1>8, <2>1 DEF MaterialLines
    <3>2. lines[k].key[1] # "one_prime"
      BY <1>7, <3>1 DEF TopKey
    <3> QED BY <3>2
  <2>2. CASE k > 22
    <3> DEFINE j == k - 22
    <3>1. j \in 1 .. 7 /\ 22 + j = k
          /\ (j = 1 \/ j = 2 \/ j = 3 \/ j = 4 \/ j = 5 \/ j = 6)
      BY <2>2
    <3>2. lines[k].key = <<"one_prime", FullCiphertextNames[j]>>
      BY <1>11, <3>1
    <3> HIDE DEF j
    <3>3. FullCiphertextNames[j] # "manual_dec"
      BY <3>1, NamesInOrder
    <3> QED BY <3>2, <3>3
  <2> QED BY <2>1, <2>2
<1>14. \A k \in 1 .. 8 : lines[k] = A[k]
  BY <1>7, <1>8 DEF MaterialLines
<1>15. lines[6].key = <<"hsk", "s_raw">>
  <2>1. 3 \in 1 .. 5 /\ 3 + 3 = 6 /\ 6 \in 1 .. 8
    OBVIOUS
  <2>2. A[6].key = <<"hsk", HskNames[3]>>
    BY <1>7, <2>1
  <2> QED BY <1>2, <1>14, <2>1, <2>2
<1>16. ASSUME NEW k \in 1 .. 8
       PROVE  lines[k].key[2] # "plaintext"
  <2>1. k \in 1 .. Len(A)
    BY <1>7
  <2>2. PICK s, l : A[k].key = <<s, l>>
    BY <1>7, <2>1 DEF Writes, IsLineOf, Line
  <2>3. Has(A, s, l) /\ lines[k].key[2] = l
    <3>1. lines[k].key = <<s, l>>
      BY <1>14, <2>2
    <3>2. Has(A, s, l)
      BY <2>1, <2>2 DEF Has
    <3> QED BY <3>1, <3>2
  <2>4. TopKey(s, l) \/ \E j \in 1 .. 5 : HskNames[j] = l
    BY <1>7, <2>3
  <2>5. TopNames[1] # "plaintext" /\ TopNames[2] # "plaintext"
    BY NamesInOrder
  <2>6. HskNames[1] # "plaintext" /\ HskNames[2] # "plaintext"
        /\ HskNames[3] # "plaintext" /\ HskNames[4] # "plaintext"
        /\ HskNames[5] # "plaintext"
    BY NamesInOrder
  <2>7. /\ \A j \in 1 .. 2 : j = 1 \/ j = 2
        /\ \A j \in 1 .. 5 : j = 1 \/ j = 2 \/ j = 3 \/ j = 4 \/ j = 5
    OBVIOUS
  <2>8. /\ \A j \in 1 .. 2 : TopNames[j] # "plaintext"
        /\ \A j \in 1 .. 5 : HskNames[j] # "plaintext"
    BY <2>5, <2>6, <2>7, Zenon
  <2>9. l # "plaintext"
    BY <2>4, <2>8 DEF TopKey
  <2> QED BY <2>3, <2>9
<1> QED BY <1>9, <1>10, <1>12, <1>13, <1>15, <1>16 DEF FullFileLines, lines

-----------------------------------------------------------------------------
(* What a cut leaves of a file: its first lines, the last of them perhaps  *)
(* with another value; of the last line of the file, a shorter value.      *)
CutOf(h, lines) ==
  /\ IsSeq(h) /\ Len(h) \in 0 .. Len(lines)
  /\ \A k \in 1 .. Len(h) : h[k].key = lines[k].key
  /\ \A k \in 1 .. Len(h) :
       \/ h[k] = lines[k] /\ k < Len(lines)
       \/ k = Len(h) /\ h[k].value \in ValueHeads(lines[k].value)

IsLine(line) == line = [key |-> line.key, value |-> line.value]

(* The last line keeps its key.                                            *)
LEMMA CutLine ==
  ASSUME NEW line, IsLine(line), NEW value
  PROVE  LET cut == [line EXCEPT !.value = value]
         IN  cut.key = line.key /\ cut.value = value
<1> DEFINE k == line.key
           v == line.value
<1>1. line = [key |-> k, value |-> v]
  BY DEF IsLine
<1> HIDE DEF k, v
<1> QED BY <1>1

(* Every head of a file is what a cut leaves of it.                        *)
LEMMA HeadsAreCut ==
  ASSUME NEW lines, IsSeq(lines), \A k \in 1 .. Len(lines) : IsLine(lines[k]),
         NEW h \in Heads(lines)
  PROVE  CutOf(h, lines)
<1> DEFINE N == Len(lines)
<1>1. PICK S : lines \in Seq(S)
  BY DEF IsSeq
<1>2. N \in Nat /\ DOMAIN lines = 1 .. N
  BY <1>1, LenProperties
<1>3. ASSUME NEW n \in 0 .. N
      PROVE  LET p == SubSeq(lines, 1, n)
             IN  p \in Seq(S) /\ Len(p) = n /\ \A k \in 1 .. n : p[k] = lines[k]
  <2>1. \A k \in 1 .. n : k \in 1 .. N /\ lines[k] \in S
    BY <1>1, <1>2, ElementOfSeq
  <2>2. 1 \in Int /\ n \in Int /\ (n - 1) + 1 = n
        /\ (IF 1 <= n THEN (n - 1) + 1 ELSE 0) = n
        /\ \A k \in 1 .. n : (1 + k) - 1 = k
    BY <1>2
  <2> DEFINE p == SubSeq(lines, 1, n)
  <2>3. /\ p \in Seq(S) /\ Len(p) = IF 1 <= n THEN n - 1 + 1 ELSE 0
        /\ \A k \in 1 .. n - 1 + 1 : p[k] = lines[1 + k - 1]
    BY <2>1, <2>2, SubSeqProperties
  <2> HIDE DEF p
  <2>4. \A k \in 1 .. n : p[k] = lines[k]
    BY <2>2, <2>3
  <2>5. Len(p) = n
    BY <2>2, <2>3
  <2> QED BY <2>3, <2>4, <2>5 DEF p
<1>4. CASE \E n \in 0 .. N - 1 : h = SubSeq(lines, 1, n)
  <2>1. PICK n \in 0 .. N - 1 : h = SubSeq(lines, 1, n)
    BY <1>4
  <2>2. Len(h) = n /\ \A k \in 1 .. n : h[k] = lines[k]
    BY <1>2, <1>3, <2>1
  <2> HIDE DEF N
  <2>3. n \in 0 .. N /\ \A k \in 1 .. n : k < N
    BY <1>2
  <2>4. IsSeq(h)
    BY <1>3, <2>1, <2>3 DEF IsSeq
  <2> QED BY <2>2, <2>3, <2>4 DEF CutOf, N
<1>5. CASE \E n \in 1 .. N : \E value \in ValueHeads(lines[n].value) :
             h = Append(SubSeq(lines, 1, n - 1), [lines[n] EXCEPT !.value = value])
  <2>0. PICK n \in 1 .. N : \E value \in ValueHeads(lines[n].value) :
          h = Append(SubSeq(lines, 1, n - 1), [lines[n] EXCEPT !.value = value])
    BY <1>5
  <2>1. PICK value \in ValueHeads(lines[n].value) :
          h = Append(SubSeq(lines, 1, n - 1), [lines[n] EXCEPT !.value = value])
    BY <2>0
  <2> DEFINE p == SubSeq(lines, 1, n - 1)
             cut == [lines[n] EXCEPT !.value = value]
             U == S \cup {cut}
  <2>2. n - 1 \in 0 .. N /\ n \in Nat /\ (n - 1) + 1 = n
    BY <1>2
  <2>3. p \in Seq(S) /\ Len(p) = n - 1 /\ \A k \in 1 .. n - 1 : p[k] = lines[k]
    BY <1>3, <2>2
  <2>4. cut.key = lines[n].key /\ cut.value = value
    BY CutLine
  <2>5. h = Append(p, cut)
    BY <2>1
  <2> HIDE DEF p, cut
  <2>6. p \in Seq(U) /\ cut \in U
    BY <2>3, SeqMonotonic
  <2> HIDE DEF U
  <2>7. /\ Len(h) = n /\ h[n] = cut /\ \A k \in 1 .. n - 1 : h[k] = p[k]
        /\ h \in Seq(U)
    BY <2>2, <2>3, <2>5, <2>6, AppendProperties
  <2> HIDE DEF N
  <2>8. ASSUME NEW k \in 1 .. n
        PROVE  h[k].key = lines[k].key
               /\ ((h[k] = lines[k] /\ k < N) \/ k = n)
    <3>1. CASE k = n
      BY <2>2, <2>4, <2>7, <3>1
    <3>2. CASE k # n
      <4>1. k \in 1 .. n - 1 /\ k < N
        BY <1>2, <2>2, <3>2
      <4> QED BY <2>3, <2>7, <4>1
    <3> QED BY <3>1, <3>2
  <2>9. h[n].value \in ValueHeads(lines[n].value)
    BY <2>1, <2>4, <2>7
  <2>10. IsSeq(h) /\ Len(h) \in 0 .. Len(lines)
    BY <1>2, <2>7 DEF N, IsSeq
  <2>11. \A k \in 1 .. Len(h) : h[k].key = lines[k].key
    BY <2>7, <2>8, Zenon
  <2>12. \A k \in 1 .. Len(h) :
           \/ h[k] = lines[k] /\ k < Len(lines)
           \/ k = Len(h) /\ h[k].value \in ValueHeads(lines[k].value)
    BY <2>7, <2>8, <2>9, Zenon DEF N
  <2> QED BY <2>10, <2>11, <2>12 DEF CutOf
<1> QED BY <1>2, <1>4, <1>5, Zenon DEF Heads

-----------------------------------------------------------------------------
(* Reading a whole file.                                                   *)
LEMMA ValueIsParsed ==
  ASSUME NEW name, NEW value
  PROVE  /\ Kind(ValueText(name, value)) =
              IF name \in VectorNames THEN "vector" ELSE "number"
         /\ Content(ValueText(name, value)) = value
BY DEF ValueText, Text, Kind, Content

HasNames(lines, section, names) ==
  IsSeq(names) /\ \A k \in 1 .. Len(names) : Has(lines, section, names[k])

(* The indices of a sequence.                                              *)
LEMMA DomainOfSeq ==
  ASSUME NEW s, IsSeq(s)
  PROVE  DOMAIN s = 1 .. Len(s) /\ Len(s) \in Nat
BY LenProperties DEF IsSeq

(* A reader gets the top of the file as it was written.                    *)
LEMMA TopIsParsed ==
  ASSUME NEW lines, NEW m, NEW fmt, Writes(lines, m, fmt),
         Has(lines, "top", "format"), HasNames(lines, "top", TopNames)
  PROVE  /\ Field(lines, "top", "format") = Text("name", fmt)
         /\ ParsesAll(lines, "top", TopNames)
         /\ \A name \in ToSet(TopNames) :
              Content(Field(lines, "top", name)) = m[name]
<1>1. Field(lines, "top", "format") = Text("name", fmt)
  BY WrittenField DEF ValueOf
<1>2. DOMAIN TopNames = 1 .. 2
  BY DomainOfSeq, NamesInOrder
<1>3. ASSUME NEW k \in 1 .. 2
      PROVE  Field(lines, "top", TopNames[k]) =
               ValueText(TopNames[k], m[TopNames[k]])
  <2>1. Has(lines, "top", TopNames[k])
    BY NamesInOrder DEF HasNames
  <2>2. k = 1 \/ k = 2
    OBVIOUS
  <2>3. TopNames[k] # "format"
    BY <2>2, NamesInOrder
  <2>4. Field(lines, "top", TopNames[k]) = ValueOf(m, fmt, "top", TopNames[k])
    BY <2>1, WrittenField
  <2> QED BY <2>3, <2>4 DEF ValueOf
<1>4. ParsesAll(lines, "top", TopNames)
  BY <1>2, <1>3, ValueIsParsed DEF ParsesAll, Parses
<1>5. \A name \in ToSet(TopNames) : Content(Field(lines, "top", name)) = m[name]
  BY <1>2, <1>3, ValueIsParsed DEF ToSet
<1> QED BY <1>1, <1>4, <1>5

(* A reader gets a section as it was written.                              *)
LEMMA SectionIsParsed ==
  ASSUME NEW lines, NEW m, NEW fmt, Writes(lines, m, fmt),
         NEW section, section # "top", NEW names, HasNames(lines, section, names)
  PROVE  /\ ParsesAll(lines, section, names)
         /\ Parsed(lines, section, names) = Restrict(m[section], ToSet(names))
<1>1. DOMAIN names = 1 .. Len(names)
  BY DomainOfSeq DEF HasNames
<1>2. ASSUME NEW k \in DOMAIN names
      PROVE  Field(lines, section, names[k]) =
               ValueText(names[k], m[section][names[k]])
  <2>1. Has(lines, section, names[k])
    BY <1>1 DEF HasNames
  <2>2. Field(lines, section, names[k]) = ValueOf(m, fmt, section, names[k])
    BY <2>1, WrittenField
  <2> QED BY <2>2 DEF ValueOf
<1>3. ParsesAll(lines, section, names)
  BY <1>2, ValueIsParsed DEF ParsesAll, Parses
<1>4. \A name \in ToSet(names) :
        Content(Field(lines, section, name)) = m[section][name]
  BY <1>2, ValueIsParsed DEF ToSet
<1>5. Parsed(lines, section, names) = Restrict(m[section], ToSet(names))
  BY <1>4 DEF Parsed, Restrict
<1> QED BY <1>3, <1>5

(* The part of a material that a file with these names holds.              *)
MaterialPart(m, names) ==
  [name \in ToSet(TopNames) \cup Sections |->
     IF name \in Sections THEN Restrict(m[name], ToSet(names)) ELSE m[name]]

Complete(lines, m, fmt, names) ==
  /\ Writes(lines, m, fmt) /\ Has(lines, "top", "format")
  /\ HasNames(lines, "top", TopNames)
  /\ \A section \in Sections : HasNames(lines, section, names)

(* A reader gets all that it looks for in a complete file.                 *)
LEMMA MaterialIsParsed ==
  ASSUME NEW lines, NEW m, NEW fmt, NEW names, Complete(lines, m, fmt, names)
  PROVE  /\ ParsedMaterial(lines, names) = MaterialPart(m, names)
         /\ Field(lines, "top", "format") = Text("name", fmt)
         /\ ParsesAll(lines, "top", TopNames)
         /\ \A section \in Sections :
              /\ ParsesAll(lines, section, names)
              /\ Parsed(lines, section, names) = Restrict(m[section], ToSet(names))
<1>1. \A section \in Sections : section # "top"
  BY DEF Sections
<1>2. \A section \in Sections :
        /\ ParsesAll(lines, section, names)
        /\ Parsed(lines, section, names) = Restrict(m[section], ToSet(names))
  BY <1>1, SectionIsParsed DEF Complete
<1>3. /\ Field(lines, "top", "format") = Text("name", fmt)
      /\ ParsesAll(lines, "top", TopNames)
      /\ \A name \in ToSet(TopNames) :
           Content(Field(lines, "top", name)) = m[name]
  BY TopIsParsed DEF Complete
<1>4. ParsedMaterial(lines, names) = MaterialPart(m, names)
  <2>1. ASSUME NEW name \in ToSet(TopNames) \cup Sections
        PROVE  (IF name \in Sections THEN Parsed(lines, name, names)
                ELSE Content(Field(lines, "top", name)))
               = IF name \in Sections THEN Restrict(m[name], ToSet(names))
                 ELSE m[name]
    BY <1>2, <1>3
  <2> QED BY <2>1, Zenon DEF ParsedMaterial, MaterialPart
<1> QED BY <1>2, <1>3, <1>4

(* The names that the consistency checks look at.                          *)
CheckedNames == {"dimension", "ciphertext_modulus", "plaintext_modulus", "a"}

(* The elements of a short sequence.                                       *)
LEMMA ElementsOfSeq ==
  ASSUME NEW s, IsSeq(s)
  PROVE  /\ Len(s) = 2 => ToSet(s) = {s[1], s[2]}
         /\ Len(s) = 4 => ToSet(s) = {s[1], s[2], s[3], s[4]}
         /\ Len(s) = 5 => ToSet(s) = {s[1], s[2], s[3], s[4], s[5]}
         /\ Len(s) = 7 =>
              ToSet(s) = {s[1], s[2], s[3], s[4], s[5], s[6], s[7]}
<1>1. ToSet(s) = {s[k] : k \in 1 .. Len(s)}
  BY DomainOfSeq, Zenon DEF ToSet
<1> QED BY <1>1

(* Both readers look for all names that the checks need.                   *)
LEMMA CheckedNamesAreRead ==
  /\ CheckedNames \subseteq ToSet(CiphertextNames)
  /\ CheckedNames \cup {"plaintext", "manual_dec"} \subseteq
       ToSet(FullCiphertextNames)
  /\ ToSet(CiphertextNames) \subseteq ToSet(FullCiphertextNames)
  /\ ToSet(TopNames) = {"logical_plaintext_bits", "plaintext_modulus"}
  /\ ToSet(ReadNames) = {"dimension", "modulus", "switched_modulus", "s_mod_q"}
<1>1. ToSet(TopNames) = {"logical_plaintext_bits", "plaintext_modulus"}
  <2>1. ToSet(TopNames) = {TopNames[1], TopNames[2]}
    BY ElementsOfSeq, NamesInOrder
  <2> QED BY <2>1, NamesInOrder
<1>2. ToSet(ReadNames) = {"dimension", "modulus", "switched_modulus", "s_mod_q"}
  <2>1. ToSet(ReadNames) =
          {ReadNames[1], ReadNames[2], ReadNames[3], ReadNames[4]}
    BY ElementsOfSeq, NamesInOrder
  <2> QED BY <2>1, NamesInOrder
<1>3. ToSet(CiphertextNames) =
        {"dimension", "ciphertext_modulus", "plaintext_modulus", "body", "a"}
  <2>1. ToSet(CiphertextNames) =
          {CiphertextNames[1], CiphertextNames[2], CiphertextNames[3],
           CiphertextNames[4], CiphertextNames[5]}
    BY ElementsOfSeq, NamesInOrder
  <2> QED BY <2>1, NamesInOrder
<1>4. ToSet(FullCiphertextNames) =
        {"plaintext", "dimension", "ciphertext_modulus", "plaintext_modulus",
         "body", "a", "manual_dec"}
  <2>1. ToSet(FullCiphertextNames) =
          {FullCiphertextNames[1], FullCiphertextNames[2],
           FullCiphertextNames[3], FullCiphertextNames[4],
           FullCiphertextNames[5], FullCiphertextNames[6], FullCiphertextNames[7]}
    BY ElementsOfSeq, NamesInOrder
  <2> QED BY <2>1, NamesInOrder
<1> QED BY <1>1, <1>2, <1>3, <1>4 DEF CheckedNames

-----------------------------------------------------------------------------
(* A material that the exporter may hold: everything its readers check is  *)
(* true of it, and no mask is the secret.                                  *)
SoundMaterial(m) ==
  /\ \A section \in Sections :
       /\ Len(m[section].a) = m[section].dimension
       /\ m[section].manual_dec = m[section].plaintext
       /\ m[section].a \notin {m.hsk.s_raw, m.hsk.s_mod_q}
  /\ CircuitParamsHold(m, m.hsk)
  /\ Uniform(m)
  /\ m.one_prime.plaintext = 1
  /\ m.a_prime.plaintext <= m.b_prime.plaintext =>
       m.b_prime.plaintext + 1 < m.plaintext_modulus

(* A part of a material that has the names which the checks look at.       *)
SameChecks(p, m) ==
  /\ p.plaintext_modulus = m.plaintext_modulus
  /\ p.logical_plaintext_bits = m.logical_plaintext_bits
  /\ \A section \in Sections : \A name \in CheckedNames :
       p[section][name] = m[section][name]

(* What a reader takes from a file has them.                               *)
LEMMA PartIsChecked ==
  ASSUME NEW m, NEW names, CheckedNames \subseteq ToSet(names)
  PROVE  SameChecks(MaterialPart(m, names), m)
<1> DEFINE p == MaterialPart(m, names)
           S == ToSet(names)
           T == ToSet(TopNames)
<1>1. T = {"logical_plaintext_bits", "plaintext_modulus"}
  BY CheckedNamesAreRead
<1>2. \A name \in T : name \notin Sections
  BY <1>1 DEF Sections
<1>3. p = [name \in T \cup Sections |->
             IF name \in Sections THEN Restrict(m[name], S) ELSE m[name]]
  BY DEF MaterialPart
<1> HIDE DEF p, S
<1>4. p["plaintext_modulus"] = m["plaintext_modulus"]
      /\ p["logical_plaintext_bits"] = m["logical_plaintext_bits"]
  BY <1>1, <1>2, <1>3
<1>5. ASSUME NEW section \in Sections, NEW name \in CheckedNames
      PROVE  p[section][name] = m[section][name]
  <2>1. name \in S
    BY DEF S
  <2>2. p[section] = Restrict(m[section], S)
    BY <1>3
  <2> QED BY <2>1, <2>2 DEF Restrict
<1> QED BY <1>4, <1>5 DEF SameChecks, p

(* The checks do not tell the part from the whole.                         *)
LEMMA SameChecksHold ==
  ASSUME NEW p, NEW m, SameChecks(p, m)
  PROVE  /\ PairUniform(p) <=> PairUniform(m)
         /\ Uniform(p) <=> Uniform(m)
         /\ \A hsk : CircuitParamsHold(p, hsk) <=> CircuitParamsHold(m, hsk)
<1>1. /\ p.plaintext_modulus = m.plaintext_modulus
      /\ p.logical_plaintext_bits = m.logical_plaintext_bits
  BY DEF SameChecks
<1>2. \A name \in CheckedNames :
        /\ p.a_prime[name] = m.a_prime[name]
        /\ p.b_prime[name] = m.b_prime[name]
        /\ p.one_prime[name] = m.one_prime[name]
  BY DEF SameChecks, Sections
<1>3. /\ p.a_prime.dimension = m.a_prime.dimension
      /\ p.b_prime.dimension = m.b_prime.dimension
      /\ p.a_prime.ciphertext_modulus = m.a_prime.ciphertext_modulus
      /\ p.b_prime.ciphertext_modulus = m.b_prime.ciphertext_modulus
      /\ p.a_prime.plaintext_modulus = m.a_prime.plaintext_modulus
      /\ p.b_prime.plaintext_modulus = m.b_prime.plaintext_modulus
  BY <1>2 DEF CheckedNames
<1>4. PairUniform(p) <=> PairUniform(m)
  BY <1>1, <1>3, Zenon DEF PairUniform
<1>5. \A name \in {"dimension", "ciphertext_modulus", "plaintext_modulus"} :
        /\ p.a_prime[name] = m.a_prime[name]
        /\ p.one_prime[name] = m.one_prime[name]
  BY <1>2 DEF CheckedNames
<1>6. Uniform(p) <=> Uniform(m)
  BY <1>4, <1>5, Zenon DEF Uniform
<1>7. ASSUME NEW hsk
      PROVE  CircuitParamsHold(p, hsk) <=> CircuitParamsHold(m, hsk)
  BY <1>3, <1>4, Zenon DEF CircuitParamsHold
<1> QED BY <1>4, <1>6, <1>7

(* What the runtime material keeps of a material.                          *)
LEMMA RuntimePart ==
  ASSUME NEW m
  PROVE  /\ RuntimeMaterial(m) = MaterialPart(m, CiphertextNames)
         /\ RuntimeMaterial(MaterialPart(m, FullCiphertextNames)) =
              RuntimeMaterial(m)
         /\ MaterialPart(RuntimeMaterial(m), CiphertextNames) = RuntimeMaterial(m)
<1> DEFINE C == ToSet(CiphertextNames)
           F == ToSet(FullCiphertextNames)
           T == ToSet(TopNames)
           r == RuntimeMaterial(m)
<1>1. C \subseteq F
  BY CheckedNamesAreRead
<1>2. r = MaterialPart(m, CiphertextNames)
  BY DEF RuntimeMaterial, MaterialPart
<1>3. r = [name \in T \cup Sections |->
             IF name \in Sections THEN Restrict(m[name], C) ELSE m[name]]
  BY DEF RuntimeMaterial
<1>4. RuntimeMaterial(MaterialPart(m, FullCiphertextNames)) = r
  <2> DEFINE p == MaterialPart(m, FullCiphertextNames)
  <2>1. p = [name \in T \cup Sections |->
               IF name \in Sections THEN Restrict(m[name], F) ELSE m[name]]
    BY DEF MaterialPart
  <2>2. RuntimeMaterial(p) =
          [name \in T \cup Sections |->
             IF name \in Sections THEN Restrict(p[name], C) ELSE p[name]]
    BY DEF RuntimeMaterial
  <2> HIDE DEF p, r, T
  <2>3. ASSUME NEW name \in T \cup Sections
        PROVE  (IF name \in Sections THEN Restrict(p[name], C) ELSE p[name]) =
               IF name \in Sections THEN Restrict(m[name], C) ELSE m[name]
    <3>1. CASE name \in Sections
      <4>1. p[name] = Restrict(m[name], F)
        BY <2>1, <3>1
      <4> HIDE DEF C, F
      <4>2. Restrict(Restrict(m[name], F), C) = Restrict(m[name], C)
        BY <1>1 DEF Restrict
      <4> QED BY <3>1, <4>1, <4>2
    <3>2. CASE name \notin Sections
      BY <2>1, <3>2
    <3> QED BY <3>1, <3>2
  <2> QED BY <1>3, <2>2, <2>3, Zenon DEF p
<1>5. MaterialPart(r, CiphertextNames) = r
  <2>1. MaterialPart(r, CiphertextNames) =
          [name \in T \cup Sections |->
             IF name \in Sections THEN Restrict(r[name], C) ELSE r[name]]
    BY DEF MaterialPart
  <2> HIDE DEF r, T
  <2>2. ASSUME NEW name \in T \cup Sections
        PROVE  (IF name \in Sections THEN Restrict(r[name], C) ELSE r[name]) =
               IF name \in Sections THEN Restrict(m[name], C) ELSE m[name]
    <3>1. CASE name \in Sections
      <4>1. r[name] = Restrict(m[name], C)
        BY <1>3, <3>1
      <4> HIDE DEF C
      <4>2. Restrict(Restrict(m[name], C), C) = Restrict(m[name], C)
        BY DEF Restrict
      <4> QED BY <3>1, <4>1, <4>2
    <3>2. CASE name \notin Sections
      BY <1>3, <3>2
    <3> QED BY <3>1, <3>2
  <2> QED BY <1>3, <2>1, <2>2, Zenon
<1> QED BY <1>2, <1>4, <1>5

-----------------------------------------------------------------------------
(* Whole files.                                                            *)
LEMMA FullIsComplete ==
  ASSUME NEW lines, NEW m, FullFileLines(lines, m)
  PROVE  /\ Complete(lines, m, FullFormat, FullCiphertextNames)
         /\ HasNames(lines, "hsk", ReadNames)
         /\ Has(lines, "hsk", "s_raw") /\ Has(lines, "hsk", "s_mod_q")
<1>1. \A s, l : Has(lines, s, l) <=> FullKey(s, l)
  BY DEF FullFileLines
<1>2. /\ IsSeq(TopNames) /\ Len(TopNames) = 2
      /\ IsSeq(FullCiphertextNames) /\ Len(FullCiphertextNames) = 7
      /\ IsSeq(ReadNames) /\ Len(ReadNames) = 4
  BY NamesInOrder
<1>3. Has(lines, "top", "format") /\ HasNames(lines, "top", TopNames)
  BY <1>1, <1>2 DEF FullKey, TopKey, HasNames
<1>4. \A section \in Sections : HasNames(lines, section, FullCiphertextNames)
  BY <1>1, <1>2 DEF FullKey, HasNames
<1>5. \A k \in 1 .. 5 : Has(lines, "hsk", HskNames[k])
  BY <1>1 DEF FullKey
<1>6. /\ Has(lines, "hsk", "dimension") /\ Has(lines, "hsk", "modulus")
      /\ Has(lines, "hsk", "s_raw") /\ Has(lines, "hsk", "switched_modulus")
      /\ Has(lines, "hsk", "s_mod_q")
  <2>1. 1 \in 1 .. 5 /\ 2 \in 1 .. 5 /\ 3 \in 1 .. 5 /\ 4 \in 1 .. 5 /\ 5 \in 1 .. 5
    OBVIOUS
  <2>2. /\ Has(lines, "hsk", HskNames[1]) /\ Has(lines, "hsk", HskNames[2])
        /\ Has(lines, "hsk", HskNames[3]) /\ Has(lines, "hsk", HskNames[4])
        /\ Has(lines, "hsk", HskNames[5])
    BY <1>5, <2>1
  <2> QED BY <2>2, NamesInOrder
<1>7. HasNames(lines, "hsk", ReadNames)
  <2>1. \A k \in 1 .. 4 : k = 1 \/ k = 2 \/ k = 3 \/ k = 4
    OBVIOUS
  <2>2. \A k \in 1 .. 4 : Has(lines, "hsk", ReadNames[k])
    BY <1>6, <2>1, NamesInOrder
  <2> QED BY <1>2, <2>2 DEF HasNames
<1>8. Writes(lines, m, FullFormat)
  BY DEF FullFileLines
<1> QED BY <1>3, <1>4, <1>6, <1>7, <1>8 DEF Complete

(* The runtime material has every key that its reader asks for.            *)
LEMMA RuntimeIsComplete ==
  ASSUME NEW lines, NEW m, RuntimeFileLines(lines, m)
  PROVE  Complete(lines, m, RuntimeFormat, CiphertextNames)
<1>1. \A s, l : Has(lines, s, l) <=> RuntimeKey(s, l)
  BY DEF RuntimeFileLines
<1>2. /\ IsSeq(TopNames) /\ Len(TopNames) = 2
      /\ IsSeq(CiphertextNames) /\ Len(CiphertextNames) = 5
  BY NamesInOrder
<1>3. Has(lines, "top", "format") /\ HasNames(lines, "top", TopNames)
  BY <1>1, <1>2 DEF RuntimeKey, TopKey, HasNames
<1>4. \A section \in Sections : HasNames(lines, section, CiphertextNames)
  BY <1>1, <1>2 DEF RuntimeKey, HasNames
<1>5. Writes(lines, m, RuntimeFormat)
  BY DEF RuntimeFileLines
<1> QED BY <1>3, <1>4, <1>5 DEF Complete

(* The readers' checks of a complete file are checks of what was written.  *)
ChecksOut(m) ==
  /\ \A section \in Sections : Len(m[section].a) = m[section].dimension
  /\ Uniform(m)

(* A whole runtime material is read as it was written.                     *)
LEMMA RuntimeIsRead ==
  ASSUME NEW m, ChecksOut(m)
  PROVE  LET r == RuntimeMaterial(m)
             lines == RuntimeLines(r)
         IN  RuntimeReads(lines) /\ ParsedMaterial(lines, CiphertextNames) = r
<1> DEFINE r == RuntimeMaterial(m)
           lines == RuntimeLines(r)
           C == CiphertextNames
<1>1. /\ ParsedMaterial(lines, C) = MaterialPart(r, C)
      /\ Field(lines, "top", "format") = Text("name", RuntimeFormat)
      /\ ParsesAll(lines, "top", TopNames)
      /\ \A section \in Sections :
           /\ ParsesAll(lines, section, C)
           /\ Parsed(lines, section, C) = Restrict(r[section], ToSet(C))
  BY LinesOfRuntimeMaterial, RuntimeIsComplete, MaterialIsParsed
<1>2. MaterialPart(r, C) = r /\ r = MaterialPart(m, C)
  BY RuntimePart
<1>3. CheckedNames \subseteq ToSet(C)
  BY CheckedNamesAreRead
<1>4. SameChecks(r, m)
  BY <1>2, <1>3, PartIsChecked
<1>5. Uniform(r)
  BY <1>4, SameChecksHold DEF ChecksOut
<1>6. C # FullCiphertextNames
  BY NamesInOrder
<1>7. ASSUME NEW section \in Sections
      PROVE  CiphertextParses(lines, section, C)
  <2> DEFINE ct == Parsed(lines, section, C)
  <2>1. ct = Restrict(r[section], ToSet(C))
    BY <1>1
  <2>2. "a" \in CheckedNames /\ "dimension" \in CheckedNames
    BY DEF CheckedNames
  <2> HIDE DEF ct
  <2>3. ct["a"] = m[section]["a"] /\ ct["dimension"] = m[section]["dimension"]
    BY <1>3, <1>4, <2>1, <2>2 DEF Restrict, SameChecks
  <2>4. Len(ct.a) = ct.dimension
    BY <2>3 DEF ChecksOut
  <2> QED BY <1>1, <1>6, <2>4 DEF CiphertextParses, ct
<1>8. RuntimeReads(lines)
  BY <1>1, <1>2, <1>5, <1>7 DEF RuntimeReads, MaterialParses
<1> QED BY <1>1, <1>2, <1>8

(* The checks are true of every material the exporter may hold.            *)
LEMMA SoundChecksOut ==
  ASSUME NEW m, SoundMaterial(m)
  PROVE  ChecksOut(m)
BY DEF SoundMaterial, ChecksOut

(* A whole material is read as it was written, and setup takes it.         *)
LEMMA FullIsRead ==
  ASSUME NEW m, SoundMaterial(m)
  PROVE  LET lines == FullLines(m)
         IN  /\ FullReads(lines) /\ SetupAccepts(lines)
             /\ ParsedMaterial(lines, FullCiphertextNames) =
                  MaterialPart(m, FullCiphertextNames)
             /\ Field(lines, "hsk", "s_raw") = Text("vector", m.hsk.s_raw)
             /\ Field(lines, "hsk", "s_mod_q") = Text("vector", m.hsk.s_mod_q)
<1> DEFINE lines == FullLines(m)
           F == FullCiphertextNames
           p == MaterialPart(m, F)
           hsk == Parsed(lines, "hsk", ReadNames)
<1>1. FullFileLines(lines, m)
  BY LinesOfFullMaterial
<1>2. /\ Complete(lines, m, FullFormat, F)
      /\ HasNames(lines, "hsk", ReadNames)
      /\ Has(lines, "hsk", "s_raw") /\ Has(lines, "hsk", "s_mod_q")
  BY <1>1, FullIsComplete
<1> HIDE DEF lines
<1>3. /\ ParsedMaterial(lines, F) = p
      /\ Field(lines, "top", "format") = Text("name", FullFormat)
      /\ ParsesAll(lines, "top", TopNames)
      /\ \A section \in Sections :
           /\ ParsesAll(lines, section, F)
           /\ Parsed(lines, section, F) = Restrict(m[section], ToSet(F))
  BY <1>2, MaterialIsParsed
<1>4. Writes(lines, m, FullFormat)
  BY <1>2 DEF Complete
<1>5. /\ ParsesAll(lines, "hsk", ReadNames)
      /\ hsk = Restrict(m["hsk"], ToSet(ReadNames))
  <2>1. "hsk" # "top"
    OBVIOUS
  <2> QED BY <1>2, <1>4, <2>1, SectionIsParsed
<1>6. /\ CheckedNames \subseteq ToSet(F)
      /\ "plaintext" \in ToSet(F) /\ "manual_dec" \in ToSet(F)
      /\ ToSet(ReadNames) = {"dimension", "modulus", "switched_modulus", "s_mod_q"}
  BY CheckedNamesAreRead
<1>7. SameChecks(p, m)
  BY <1>6, PartIsChecked
<1>8. ASSUME NEW section \in Sections
      PROVE  CiphertextParses(lines, section, F)
             /\ p[section].plaintext = m[section].plaintext
  <2> DEFINE ct == Parsed(lines, section, F)
  <2>1. ct = Restrict(m[section], ToSet(F))
    BY <1>3
  <2>2. "a" \in ToSet(F) /\ "dimension" \in ToSet(F)
    BY <1>6 DEF CheckedNames
  <2>3. p[section] = ct
    BY <2>1 DEF MaterialPart
  <2> HIDE DEF ct
  <2>4. /\ ct["a"] = m[section]["a"] /\ ct["dimension"] = m[section]["dimension"]
        /\ ct["plaintext"] = m[section]["plaintext"]
        /\ ct["manual_dec"] = m[section]["manual_dec"]
    BY <1>6, <2>1, <2>2 DEF Restrict
  <2>5. Len(ct.a) = ct.dimension /\ ct.manual_dec = ct.plaintext
    BY <2>4 DEF SoundMaterial
  <2>6. CiphertextParses(lines, section, F)
    BY <1>3, <2>5 DEF CiphertextParses, ct
  <2> QED BY <2>3, <2>4, <2>6
<1> HIDE DEF p
<1>9. /\ hsk["dimension"] = m["hsk"]["dimension"]
      /\ hsk["s_mod_q"] = m["hsk"]["s_mod_q"]
      /\ hsk["switched_modulus"] = m["hsk"]["switched_modulus"]
  BY <1>5, <1>6 DEF Restrict
<1> HIDE DEF hsk
<1>10. CircuitParamsHold(p, hsk)
  <2>1. CircuitParamsHold(p, m.hsk)
    BY <1>7, SameChecksHold DEF SoundMaterial
  <2> QED BY <1>9, <2>1 DEF CircuitParamsHold
<1>11. FullReads(lines)
  BY <1>3, <1>5, <1>8, <1>10 DEF FullReads, MaterialParses, hsk
<1>12. SetupAccepts(lines)
  <2>1. Uniform(p)
    BY <1>7, SameChecksHold DEF SoundMaterial
  <2>2. /\ p.one_prime.plaintext = m.one_prime.plaintext
        /\ p.a_prime.plaintext = m.a_prime.plaintext
        /\ p.b_prime.plaintext = m.b_prime.plaintext
    BY <1>8 DEF Sections
  <2>3. p.plaintext_modulus = m.plaintext_modulus
    BY <1>7 DEF SameChecks
  <2>4. /\ m.one_prime.plaintext = 1
        /\ m.a_prime.plaintext <= m.b_prime.plaintext =>
             m.b_prime.plaintext + 1 < m.plaintext_modulus
    BY DEF SoundMaterial
  <2> QED BY <1>3, <1>11, <2>1, <2>2, <2>3, <2>4, Zenon DEF SetupAccepts
<1>13. /\ Field(lines, "hsk", "s_raw") = Text("vector", m.hsk.s_raw)
       /\ Field(lines, "hsk", "s_mod_q") = Text("vector", m.hsk.s_mod_q)
  <2>1. /\ Field(lines, "hsk", "s_raw") = ValueOf(m, FullFormat, "hsk", "s_raw")
        /\ Field(lines, "hsk", "s_mod_q") = ValueOf(m, FullFormat, "hsk", "s_mod_q")
    BY <1>2, <1>4, WrittenField
  <2> QED BY <2>1 DEF ValueOf, ValueText, VectorNames
<1> QED BY <1>3, <1>11, <1>12, <1>13 DEF lines, p

(* A line that was written has its key, and a value for it.                *)
LEMMA LineOfKey ==
  ASSUME NEW lines, NEW m, NEW fmt, Writes(lines, m, fmt),
         NEW k \in 1 .. Len(lines)
  PROVE  \E s, l : /\ lines[k].key = <<s, l>> /\ Has(lines, s, l)
                   /\ lines[k].value = ValueOf(m, fmt, s, l)
<1>1. PICK s, l : lines[k] = Line(s, l, ValueOf(m, fmt, s, l))
  BY DEF Writes, IsLineOf
<1> DEFINE line == lines[k]
           v == ValueOf(m, fmt, s, l)
<1>2. line = Line(s, l, v)
  BY <1>1
<1> HIDE DEF line, v
<1>3. line.key = <<s, l>> /\ line.value = v
  BY <1>2 DEF Line
<1>4. Has(lines, s, l)
  BY <1>3 DEF Has, line
<1> QED BY <1>3, <1>4 DEF line, v

-----------------------------------------------------------------------------
(* Cut files.  What is cut off a value leaves no value that passes for it. *)
LEMMA HeadOfValue ==
  ASSUME NEW value, NEW head \in ValueHeads(value)
  PROVE  /\ Kind(value) = "vector" => Kind(head) # "vector"
         /\ Kind(value) = "name" => head = Nothing
         /\ value = Text("number", 1) => head = Nothing
<1>1. ASSUME Kind(value) = "vector"
      PROVE  Kind(head) # "vector"
  <2>1. Kind(value) # "number"
    BY <1>1
  <2>2. head = Nothing \/ \E elements : head = Text("open vector", elements)
    BY <1>1, <2>1 DEF ValueHeads
  <2>3. CASE head = Nothing
    BY <2>3 DEF Nothing, Text, Kind
  <2>4. CASE \E elements : head = Text("open vector", elements)
    <3>1. PICK elements : head = Text("open vector", elements)
      BY <2>4
    <3>2. Kind(head) = "open vector"
      BY <3>1 DEF Text, Kind
    <3> QED BY <3>2
  <2> QED BY <2>2, <2>3, <2>4
<1>2. ASSUME Kind(value) = "name"
      PROVE  head = Nothing
  <2>1. Kind(value) # "number" /\ Kind(value) # "vector"
    BY <1>2
  <2> QED BY <2>1 DEF ValueHeads
<1>3. ASSUME value = Text("number", 1)
      PROVE  head = Nothing
  <2>1. Kind(value) = "number" /\ Content(value) = 1
    BY <1>3 DEF Text, Kind, Content
  <2>2. head \in NumberHeads(1)
    BY <2>1 DEF ValueHeads
  <2>3. \A power \in PowersOfTen : 1 \div power = 0
    BY DEF PowersOfTen
  <2> QED BY <2>2, <2>3 DEF NumberHeads
<1> QED BY <1>1, <1>2, <1>3

(* The last line is the only one with its key.                             *)
LEMMA LastLineIsCut ==
  ASSUME NEW lines, NEW m, NEW fmt, Writes(lines, m, fmt),
         NEW N \in Nat \ {0}, Len(lines) = N,
         NEW section, NEW name, lines[N].key = <<section, name>>,
         \A k \in 1 .. N - 1 : lines[k].key # <<section, name>>,
         NEW h, CutOf(h, lines)
  PROVE  \/ Field(h, section, name) = Nothing
         \/ Field(h, section, name) \in ValueHeads(ValueOf(m, fmt, section, name))
<1>1. /\ Len(h) \in 0 .. N
      /\ \A k \in 1 .. Len(h) : h[k].key = lines[k].key
      /\ \A k \in 1 .. Len(h) :
           \/ h[k] = lines[k] /\ k < N
           \/ k = Len(h) /\ h[k].value \in ValueHeads(lines[k].value)
  BY DEF CutOf
<1>2. Len(h) \in Nat
  BY <1>1
<1>3. CASE At(h, section, name) = {}
  BY <1>2, <1>3, FieldValueAt
<1>4. CASE At(h, section, name) # {}
  <2>1. PICK i \in At(h, section, name) :
          Field(h, section, name) = h[i].value
    BY <1>2, <1>4, FieldValueAt
  <2>2. i \in 1 .. Len(h) /\ h[i].key = <<section, name>>
    BY <2>1 DEF At
  <2>3. lines[i].key = <<section, name>> /\ i \in 1 .. N
    BY <1>1, <2>2
  <2>4. i = N
    BY <2>3
  <2>5. h[i].value \in ValueHeads(lines[i].value)
    BY <1>1, <2>2, <2>4
  <2>6. lines[i].value = ValueOf(m, fmt, section, name)
    <3>1. PICK s, n : /\ lines[i].key = <<s, n>>
                      /\ lines[i].value = ValueOf(m, fmt, s, n)
      BY <2>3, LineOfKey
    <3> QED BY <2>3, <3>1
  <2> QED BY <2>1, <2>5, <2>6
<1> QED BY <1>3, <1>4

(* A head of a file that was written.                                      *)
LEMMA HeadOfWritten ==
  ASSUME NEW lines, NEW m, NEW fmt, Writes(lines, m, fmt), NEW h \in Heads(lines)
  PROVE  CutOf(h, lines)
<1>1. IsSeq(lines)
  BY DEF Writes
<1>2. ASSUME NEW k \in 1 .. Len(lines)
      PROVE  IsLine(lines[k])
  <2>1. PICK s, n : lines[k] = Line(s, n, ValueOf(m, fmt, s, n))
    BY DEF Writes, IsLineOf
  <2> QED BY <2>1 DEF Line, IsLine
<1> QED BY <1>1, <1>2, HeadsAreCut

(* No vector of the runtime material is shorter without its bracket being  *)
(* gone, and its last line is a vector.                                    *)
LEMMA CutRuntimeIsRefused ==
  ASSUME NEW m, NEW h \in Heads(RuntimeLines(m))
  PROVE  ~RuntimeReads(h)
<1> DEFINE lines == RuntimeLines(m)
           last == Field(h, "one_prime", "a")
<1>1. RuntimeFileLines(lines, m)
  BY LinesOfRuntimeMaterial
<1>2. CutOf(h, lines)
  BY <1>1, HeadOfWritten DEF RuntimeFileLines
<1> HIDE DEF lines
<1>3. \/ last = Nothing
      \/ last \in ValueHeads(ValueOf(m, RuntimeFormat, "one_prime", "a"))
  <2>1. /\ Writes(lines, m, RuntimeFormat) /\ Len(lines) = 18
        /\ lines[18].key = <<"one_prime", "a">>
        /\ \A k \in 1 .. 17 : lines[k].key # <<"one_prime", "a">>
    BY <1>1 DEF RuntimeFileLines
  <2>2. 18 \in Nat \ {0} /\ 18 - 1 = 17
    OBVIOUS
  <2> QED BY <1>2, <2>1, <2>2, LastLineIsCut
<1>4. Kind(ValueOf(m, RuntimeFormat, "one_prime", "a")) = "vector"
  BY DEF ValueOf, ValueText, VectorNames, Text, Kind
<1>5. Kind(last) # "vector"
  BY <1>3, <1>4, HeadOfValue DEF Nothing, Text, Kind
<1> HIDE DEF last
<1>6. ~Parses(h, "one_prime", "a")
  BY <1>5 DEF Parses, VectorNames, last
<1>7. ~ParsesAll(h, "one_prime", CiphertextNames)
  <2>1. 5 \in DOMAIN CiphertextNames
    BY NamesInOrder, DomainOfSeq
  <2> QED BY <1>6, <2>1, NamesInOrder DEF ParsesAll
<1>8. "one_prime" \in Sections
  BY DEF Sections
<1> QED BY <1>7, <1>8 DEF RuntimeReads, MaterialParses, CiphertextParses

(* The last line of the full material is a number of one digit.            *)
LEMMA CutFullIsRefused ==
  ASSUME NEW m, SoundMaterial(m), NEW h \in Heads(FullLines(m))
  PROVE  ~FullReads(h)
<1> DEFINE lines == FullLines(m)
           last == Field(h, "one_prime", "manual_dec")
<1>1. FullFileLines(lines, m)
  BY LinesOfFullMaterial
<1>2. CutOf(h, lines)
  BY <1>1, HeadOfWritten DEF FullFileLines
<1> HIDE DEF lines
<1>3. \/ last = Nothing
      \/ last \in ValueHeads(ValueOf(m, FullFormat, "one_prime", "manual_dec"))
  <2>1. /\ Writes(lines, m, FullFormat) /\ Len(lines) = 29
        /\ lines[29].key = <<"one_prime", "manual_dec">>
        /\ \A k \in 1 .. 28 : lines[k].key # <<"one_prime", "manual_dec">>
    BY <1>1 DEF FullFileLines
  <2>2. 29 \in Nat \ {0} /\ 29 - 1 = 28
    OBVIOUS
  <2> QED BY <1>2, <2>1, <2>2, LastLineIsCut
<1>4. ValueOf(m, FullFormat, "one_prime", "manual_dec") = Text("number", 1)
  <2>1. m["one_prime"]["manual_dec"] = 1
    BY DEF SoundMaterial, Sections
  <2> QED BY <2>1 DEF ValueOf, ValueText, VectorNames
<1>5. last = Nothing
  BY <1>3, <1>4, HeadOfValue
<1> HIDE DEF last
<1>6. ~Parses(h, "one_prime", "manual_dec")
  BY <1>5 DEF Parses, VectorNames, last, Nothing, Text, Kind
<1>7. ~ParsesAll(h, "one_prime", FullCiphertextNames)
  <2>1. 7 \in DOMAIN FullCiphertextNames
    BY NamesInOrder, DomainOfSeq
  <2> QED BY <1>6, <2>1, NamesInOrder DEF ParsesAll
<1>8. "one_prime" \in Sections
  BY DEF Sections
<1> QED BY <1>7, <1>8 DEF FullReads, MaterialParses, CiphertextParses

(* What the exporter leaves, whole or not, never passes for the runtime's. *)
FullFiles(m) == {FullLines(m)} \cup Heads(FullLines(m))

(* Its first line names another format, or none.                           *)
LEMMA FullIsNoRuntime ==
  ASSUME NEW m, NEW h \in FullFiles(m)
  PROVE  ~RuntimeReads(h)
<1> DEFINE lines == FullLines(m)
           f == Field(h, "top", "format")
<1>1. Writes(lines, m, FullFormat) /\ IsSeq(lines)
  BY LinesOfFullMaterial DEF FullFileLines, Writes
<1>2. h = lines \/ CutOf(h, lines)
  BY <1>1, HeadOfWritten DEF FullFiles
<1> HIDE DEF lines
<1>3. /\ Len(h) \in Nat
      /\ \A k \in 1 .. Len(h) :
           /\ k \in 1 .. Len(lines) /\ h[k].key = lines[k].key
           /\ h[k] = lines[k] \/ h[k].value \in ValueHeads(lines[k].value)
  <2>1. Len(lines) \in Nat
    BY <1>1 DEF Writes
  <2>2. CASE h = lines
    BY <2>1, <2>2
  <2>3. CASE CutOf(h, lines)
    BY <2>1, <2>3 DEF CutOf
  <2> QED BY <1>2, <2>2, <2>3
<1>4. f = Nothing \/ f = Text("name", FullFormat)
  <2>1. CASE At(h, "top", "format") = {}
    BY <1>3, <2>1, FieldValueAt
  <2>2. CASE At(h, "top", "format") # {}
    <3>1. PICK i \in At(h, "top", "format") : f = h[i].value
      BY <1>3, <2>2, FieldValueAt
    <3>2. i \in 1 .. Len(h) /\ h[i].key = <<"top", "format">>
      BY <3>1 DEF At
    <3>3. i \in 1 .. Len(lines) /\ lines[i].key = <<"top", "format">>
      BY <1>3, <3>2
    <3>4. PICK s, n : /\ lines[i].key = <<s, n>>
                      /\ lines[i].value = ValueOf(m, FullFormat, s, n)
      BY <1>1, <3>3, LineOfKey
    <3>5. s = "top" /\ n = "format"
      BY <3>3, <3>4
    <3>6. lines[i].value = Text("name", FullFormat)
      BY <3>4, <3>5 DEF ValueOf
    <3>7. Kind(lines[i].value) = "name"
      BY <3>6 DEF Text, Kind
    <3> QED BY <1>3, <3>1, <3>2, <3>6, <3>7, HeadOfValue
  <2> QED BY <2>1, <2>2
<1>5. f # Text("name", RuntimeFormat)
  BY <1>4 DEF Nothing, Text, FullFormat, RuntimeFormat
<1> QED BY <1>5 DEF RuntimeReads, MaterialParses

(* Nor does an empty file pass for a material.                             *)
LEMMA NothingIsRefused ==
  /\ ~SetupAccepts(<<>>)
  /\ \A m : <<>> # FullLines(m)
<1>1. Field(<<>>, "top", "format") = Nothing
  <2>1. Len(<<>>) \in Nat /\ \A k \in 1 .. Len(<<>>) : FALSE
    OBVIOUS
  <2> QED BY <2>1, FieldOfNoLine
<1>2. ~SetupAccepts(<<>>)
  BY <1>1 DEF SetupAccepts, FullReads, MaterialParses, Nothing, Text
<1>3. ASSUME NEW m
      PROVE  <<>> # FullLines(m)
  <2>1. Len(FullLines(m)) = 29
    BY LinesOfFullMaterial DEF FullFileLines
  <2>2. Len(<<>>) = 0
    OBVIOUS
  <2> QED BY <2>1, <2>2
<1> QED BY <1>2, <1>3

-----------------------------------------------------------------------------
(* The audit.                                                              *)
RuntimeFiles(m) == {RuntimeLines(m)} \cup Heads(RuntimeLines(m))

SecretNames == {"s_raw", "s_mod_q", "manual_dec"}

(* A file of the runtime names nothing that is secret.                     *)
LEMMA RuntimeNamesNothing ==
  ASSUME NEW m, NEW h \in RuntimeFiles(m), NEW k \in DOMAIN h
  PROVE  h[k].key[2] \notin SecretNames \cup {"plaintext"}
<1> DEFINE lines == RuntimeLines(m)
<1>1. /\ Writes(lines, m, RuntimeFormat) /\ IsSeq(lines) /\ Len(lines) \in Nat
      /\ \A s, l : Has(lines, s, l) <=> RuntimeKey(s, l)
  BY LinesOfRuntimeMaterial DEF RuntimeFileLines, Writes
<1>2. h = lines \/ CutOf(h, lines)
  BY <1>1, HeadOfWritten DEF RuntimeFiles
<1> HIDE DEF lines
<1>3. k \in 1 .. Len(lines) /\ h[k].key = lines[k].key
  <2>1. CASE h = lines
    BY <1>1, <2>1, DomainOfSeq
  <2>2. CASE CutOf(h, lines)
    <3>1. k \in 1 .. Len(h)
      BY <2>2, DomainOfSeq DEF CutOf
    <3> QED BY <1>1, <2>2, <3>1 DEF CutOf
  <2> QED BY <1>2, <2>1, <2>2
<1>4. PICK s, l : lines[k].key = <<s, l>> /\ Has(lines, s, l)
  BY <1>1, <1>3, LineOfKey
<1>5. RuntimeKey(s, l)
  BY <1>1, <1>4
<1>6. l \in {"format"} \cup ToSet(TopNames) \cup ToSet(CiphertextNames)
  <2>1. DOMAIN TopNames = 1 .. 2 /\ DOMAIN CiphertextNames = 1 .. 5
    BY NamesInOrder, DomainOfSeq
  <2> QED BY <1>5, <2>1 DEF RuntimeKey, TopKey, ToSet
<1>7. l \notin SecretNames \cup {"plaintext"}
  <2>1. ToSet(CiphertextNames) =
          {"dimension", "ciphertext_modulus", "plaintext_modulus", "body", "a"}
    BY NamesInOrder, ElementsOfSeq
  <2>2. ToSet(TopNames) = {"logical_plaintext_bits", "plaintext_modulus"}
    BY CheckedNamesAreRead
  <2> QED BY <1>6, <2>1, <2>2 DEF SecretNames
<1> QED BY <1>3, <1>4, <1>7

(* In what the exporter leaves, the name of the secret key is in front of  *)
(* every plaintext.                                                        *)
LEMMA SecretComesFirst ==
  ASSUME NEW m, NEW h \in FullFiles(m),
         NEW k \in DOMAIN h, h[k].key[2] = "plaintext"
  PROVE  \E i \in DOMAIN h : h[i].key[2] = "s_raw"
<1> DEFINE lines == FullLines(m)
<1>1. /\ Writes(lines, m, FullFormat) /\ IsSeq(lines) /\ Len(lines) = 29
      /\ lines[6].key = <<"hsk", "s_raw">>
      /\ \A i \in 1 .. 8 : lines[i].key[2] # "plaintext"
  BY LinesOfFullMaterial DEF FullFileLines, Writes
<1>2. h = lines \/ CutOf(h, lines)
  BY <1>1, HeadOfWritten DEF FullFiles
<1> HIDE DEF lines
<1>3. /\ IsSeq(h) /\ DOMAIN h = 1 .. Len(h) /\ Len(h) \in Nat
      /\ \A i \in 1 .. Len(h) : h[i].key = lines[i].key
  <2>1. CASE h = lines
    BY <1>1, <2>1, DomainOfSeq
  <2>2. CASE CutOf(h, lines)
    BY <2>2, DomainOfSeq DEF CutOf
  <2> QED BY <1>2, <2>1, <2>2
<1>4. k \in 1 .. Len(h) /\ k \notin 1 .. 8
  BY <1>1, <1>3
<1>5. 6 \in 1 .. Len(h)
  BY <1>3, <1>4
<1>6. h[6].key = <<"hsk", "s_raw">>
  BY <1>1, <1>3, <1>5
<1>7. h[6].key[2] = "s_raw" /\ 6 \in DOMAIN h
  BY <1>3, <1>5, <1>6
<1> QED BY <1>7

(* What a file discloses does not get past the audit.                      *)
LEMMA DisclosedIsFound ==
  ASSUME NEW m, NEW r, NEW h \in {<<>>} \cup FullFiles(m) \cup RuntimeFiles(r),
         \A k \in DOMAIN h : ~NamesSetupField(h[k])
  PROVE  \A k \in DOMAIN h : ~Discloses(h[k])
<1> SUFFICES ASSUME NEW k \in DOMAIN h, Discloses(h[k])
             PROVE  FALSE
  OBVIOUS
<1>1. \A i \in DOMAIN h : h[i].key[2] \notin SecretNames
  BY DEF NamesSetupField, SecretNames
<1>2. h[k].key[2] = "plaintext"
  BY <1>1 DEF Discloses, SecretNames
<1>3. h \in FullFiles(m) => FALSE
  BY <1>1, <1>2, SecretComesFirst DEF SecretNames
<1>4. h \in RuntimeFiles(r) => FALSE
  BY <1>2, RuntimeNamesNothing
<1>5. h = <<>> => FALSE
  OBVIOUS
<1> QED BY <1>3, <1>4, <1>5

(* No mask of the runtime material is the secret, and nothing else is a    *)
(* vector.                                                                 *)
LEMMA RuntimeIsNoSecret ==
  ASSUME NEW m, SoundMaterial(m),
         NEW k \in DOMAIN RuntimeLines(RuntimeMaterial(m))
  PROVE  RuntimeLines(RuntimeMaterial(m))[k].value \notin
           {Text("vector", m.hsk.s_raw), Text("vector", m.hsk.s_mod_q)}
<1> DEFINE r == RuntimeMaterial(m)
           lines == RuntimeLines(r)
<1>1. /\ Writes(lines, r, RuntimeFormat) /\ IsSeq(lines)
      /\ \A s, l : Has(lines, s, l) <=> RuntimeKey(s, l)
  BY LinesOfRuntimeMaterial DEF RuntimeFileLines, Writes
<1> SUFFICES ASSUME NEW secret \in {m.hsk.s_raw, m.hsk.s_mod_q},
                    lines[k].value = Text("vector", secret)
             PROVE  FALSE
  OBVIOUS
<1>2. k \in 1 .. Len(lines)
  BY <1>1, DomainOfSeq
<1> HIDE DEF lines
<1>3. PICK s, l : /\ Has(lines, s, l)
                  /\ lines[k].value = ValueOf(r, RuntimeFormat, s, l)
  BY <1>1, <1>2, LineOfKey
<1>4. RuntimeKey(s, l)
  BY <1>1, <1>3
<1>5. ValueOf(r, RuntimeFormat, s, l) = Text("vector", secret)
  BY <1>3
<1> HIDE DEF r
<1>6. l \in VectorNames
  BY <1>5 DEF ValueOf, ValueText, Text
<1>7. \/ l \in ToSet(TopNames) \/ l = "format"
      \/ s \in Sections /\ l \in ToSet(CiphertextNames)
  <2>1. DOMAIN TopNames = 1 .. 2 /\ DOMAIN CiphertextNames = 1 .. 5
    BY NamesInOrder, DomainOfSeq
  <2> QED BY <1>4, <2>1 DEF RuntimeKey, TopKey, ToSet
<1>8. ToSet(CiphertextNames) =
        {"dimension", "ciphertext_modulus", "plaintext_modulus", "body", "a"}
      /\ ToSet(TopNames) = {"logical_plaintext_bits", "plaintext_modulus"}
  BY NamesInOrder, ElementsOfSeq, CheckedNamesAreRead
<1>9. s \in Sections /\ l = "a"
  BY <1>6, <1>7, <1>8 DEF VectorNames
<1>10. r[s]["a"] = secret
  <2>1. s # "top"
    BY <1>9 DEF Sections
  <2> QED BY <1>5, <1>9, <2>1 DEF ValueOf, ValueText, Text
<1>11. r[s]["a"] = m[s]["a"]
  <2>1. SameChecks(r, m)
    BY RuntimePart, CheckedNamesAreRead, PartIsChecked DEF r
  <2> QED BY <1>9, <2>1 DEF SameChecks, CheckedNames
<1> QED BY <1>9, <1>10, <1>11 DEF SoundMaterial

-----------------------------------------------------------------------------
(* The materials of the runs are sound.                                    *)
LEMMA PowersOfTwo == 2^4 = 16 /\ 2^5 = 32
<1> DEFINE a == 2^1
           b == 2^2
           c == 2^3
           d == 2^4
           e == 2^5
<1>1. 0 + 1 = 1 /\ 1 + 1 = 2 /\ 2 + 1 = 3 /\ 3 + 1 = 4 /\ 4 + 1 = 5
  OBVIOUS
<1>2. /\ a = 2 * 2^0 /\ b = 2 * a /\ c = 2 * b /\ d = 2 * c /\ e = 2 * d
  BY <1>1, PowerDoubles
<1>3. 2^0 = 1
  BY PowerOfZero
<1> HIDE DEF a, b, c, d, e
<1>4. d = 16 /\ e = 32
  BY <1>2, <1>3
<1> QED BY <1>4 DEF d, e

(* Their ciphertexts decode to what they say.                              *)
LEMMA CiphertextsAreSound ==
  ASSUME NEW plaintext, NEW coefficient
  PROVE  LET ct == Ciphertext(plaintext, coefficient)
         IN  /\ ct.plaintext = plaintext /\ ct.manual_dec = plaintext
             /\ ct.dimension = 2 /\ Len(ct.a) = 2 /\ ct.a[1] = 7
             /\ ct.ciphertext_modulus = 32 /\ ct.plaintext_modulus = 16
<1> DEFINE body == (2 * plaintext + 7 + 31 * coefficient) % 32
           a == <<7, coefficient>>
           ct == Ciphertext(plaintext, coefficient)
<1>1. ct = [plaintext |-> plaintext, dimension |-> 2, ciphertext_modulus |-> 32,
            plaintext_modulus |-> 16, a |-> a, body |-> body,
            manual_dec |-> plaintext]
  BY DEF Ciphertext
<1>2. Len(a) = 2 /\ a[1] = 7
  OBVIOUS
<1> HIDE DEF body, a, ct
<1>3. /\ ct.plaintext = plaintext /\ ct.manual_dec = plaintext
      /\ ct.dimension = 2 /\ ct.a = a
      /\ ct.ciphertext_modulus = 32 /\ ct.plaintext_modulus = 16
  BY <1>1
<1> QED BY <1>2, <1>3 DEF ct

(* All their checks hold.                                                  *)
LEMMA MaterialsAreSound == \A m \in Materials : SoundMaterial(m)
<1> SUFFICES ASSUME NEW m \in Materials PROVE SoundMaterial(m)
  OBVIOUS
<1> DEFINE hsk == [dimension |-> 2, modulus |-> 1024, s_raw |-> <<1, 1023>>,
                   switched_modulus |-> 32, s_mod_q |-> <<1, 31>>]
<1>1. PICK c \in Coefficients :
        m = [logical_plaintext_bits |-> 4, plaintext_modulus |-> 16, hsk |-> hsk,
             a_prime |-> Ciphertext(3, c), b_prime |-> Ciphertext(12, 31 - c),
             one_prime |-> Ciphertext(1, 31)]
  BY DEF Materials
<1>2. /\ hsk.dimension = 2 /\ Len(hsk.s_mod_q) = 2 /\ hsk.switched_modulus = 32
      /\ hsk.s_raw[1] = 1 /\ hsk.s_mod_q[1] = 1
  OBVIOUS
<1> HIDE DEF hsk
<1> DEFINE A == Ciphertext(3, c)
           B == Ciphertext(12, 31 - c)
           O == Ciphertext(1, 31)
<1>3. /\ A.plaintext = 3 /\ A.manual_dec = 3
      /\ A.dimension = 2 /\ Len(A.a) = 2 /\ A.a[1] = 7
      /\ A.ciphertext_modulus = 32 /\ A.plaintext_modulus = 16
  BY CiphertextsAreSound
<1>4. /\ B.plaintext = 12 /\ B.manual_dec = 12
      /\ B.dimension = 2 /\ Len(B.a) = 2 /\ B.a[1] = 7
      /\ B.ciphertext_modulus = 32 /\ B.plaintext_modulus = 16
  BY CiphertextsAreSound
<1>5. /\ O.plaintext = 1 /\ O.manual_dec = 1
      /\ O.dimension = 2 /\ Len(O.a) = 2 /\ O.a[1] = 7
      /\ O.ciphertext_modulus = 32 /\ O.plaintext_modulus = 16
  BY CiphertextsAreSound
<1> HIDE DEF A, B, O
<1>6. /\ m.logical_plaintext_bits = 4 /\ m.plaintext_modulus = 16 /\ m.hsk = hsk
      /\ m.a_prime = A /\ m.b_prime = B /\ m.one_prime = O
  BY <1>1 DEF A, B, O
<1>7. PairUniform(m)
  <2>1. 5 \in 0 .. 30
    OBVIOUS
  <2> QED BY <1>3, <1>4, <1>6, <2>1, PowersOfTwo DEF PairUniform
<1>8. Uniform(m)
  BY <1>3, <1>5, <1>6, <1>7 DEF Uniform
<1>9. CircuitParamsHold(m, m.hsk)
  BY <1>2, <1>3, <1>6, <1>7 DEF CircuitParamsHold
<1>10. ASSUME NEW section \in Sections
       PROVE  /\ Len(m[section].a) = m[section].dimension
              /\ m[section].manual_dec = m[section].plaintext
              /\ m[section].a \notin {m.hsk.s_raw, m.hsk.s_mod_q}
  <2>1. m[section] \in {A, B, O}
    BY <1>6 DEF Sections
  <2>2. \A ct \in {A, B, O} :
          /\ Len(ct.a) = ct.dimension /\ ct.manual_dec = ct.plaintext
          /\ ct.a # hsk.s_raw /\ ct.a # hsk.s_mod_q
    <3>1. /\ A.a # hsk.s_raw /\ A.a # hsk.s_mod_q
          /\ B.a # hsk.s_raw /\ B.a # hsk.s_mod_q
          /\ O.a # hsk.s_raw /\ O.a # hsk.s_mod_q
      <4>1. 7 # 1
        OBVIOUS
      <4>2. \A u, v : u[1] = 7 /\ v[1] = 1 => u # v
        BY <4>1, Zenon
      <4>3. hsk.s_raw[1] = 1 /\ hsk.s_mod_q[1] = 1
        BY <1>2
      <4>4. A.a[1] = 7 /\ B.a[1] = 7 /\ O.a[1] = 7
        BY <1>3, <1>4, <1>5
      <4> QED BY <4>2, <4>3, <4>4
    <3>2. /\ Len(A.a) = A.dimension /\ Len(B.a) = B.dimension
          /\ Len(O.a) = O.dimension
      BY <1>3, <1>4, <1>5, Zenon
    <3>3. /\ A.manual_dec = A.plaintext /\ B.manual_dec = B.plaintext
          /\ O.manual_dec = O.plaintext
      BY <1>3, <1>4, <1>5, Zenon
    <3> QED BY <3>1, <3>2, <3>3
  <2> QED BY <1>6, <2>1, <2>2
<1>11. /\ m.one_prime.plaintext = 1
       /\ m.a_prime.plaintext <= m.b_prime.plaintext =>
            m.b_prime.plaintext + 1 < m.plaintext_modulus
  BY <1>4, <1>5, <1>6
<1> QED BY <1>8, <1>9, <1>10, <1>11 DEF SoundMaterial

-----------------------------------------------------------------------------
(* What lies where, once setup has taken the material.                     *)
WholeRuntime == RuntimeLines(RuntimeMaterial(material))

PreparedInv ==
  /\ full_text = FullLines(material)
  /\ runtime_text \in FullFiles(material)
                       \cup RuntimeFiles(RuntimeMaterial(material))
  /\ stray_text \in {<<>>} \cup FullFiles(material)
  /\ LoadedIsExported
  /\ text_loaded = "refused" => runtime_text # WholeRuntime
  /\ audited = "refused" => ~(runtime_text = WholeRuntime /\ stray_text = <<>>)
  /\ AuditedDisclosesNothing

TextRuns ==
  /\ SoundMaterial(material)
  /\ full_text \in {<<>>} \cup FullFiles(material)
  /\ prepared \in {"no", "refused"} => text_loaded = "no" /\ audited = "no"
  /\ prepared = "no" => stray_text = <<>>
  /\ prepared = "refused" => full_text # FullLines(material)
  /\ prepared = "yes" => PreparedInv

(* Either the programs run on the text files or nothing becomes of them.   *)
TextInv ==
  \/ prepared = "not run" /\ text_loaded = "no" /\ audited = "no"
  \/ prepared \in {"no", "yes", "refused"} /\ TextRuns

(* It holds at first,                                                      *)
LEMMA TextInvInitially == FilesInit => TextInv
<1>1. NoText => TextInv
  BY DEF NoText, TextInv
<1>2. ASSUME TextInit PROVE TextInv
  <2>1. SoundMaterial(material)
    BY <1>2, MaterialsAreSound DEF TextInit
  <2> QED BY <1>2, <2>1 DEF TextInit, TextInv, TextRuns
<1> QED BY <1>1, <1>2 DEF FilesInit

(* after the exporter has written, to the end or not,                      *)
LEMMA ExportKeepsInv == TextInv /\ ExportMaterial => TextInv'
<1> SUFFICES ASSUME TextInv, ExportMaterial PROVE TextInv'
  OBVIOUS
<1>1. /\ prepared = "no" /\ TextRuns
      /\ full_text' \in FullFiles(material)
      /\ UNCHANGED <<material, runtime_text, stray_text, prepared,
                     runtime_material, text_loaded, audited>>
  BY DEF TextInv, ExportMaterial, FullFiles
<1>2. TextRuns'
  BY <1>1 DEF TextRuns, FullFiles
<1> QED BY <1>1, <1>2 DEF TextInv

(* after setup has taken the material,                                     *)
LEMMA PrepareKeepsInv == TextInv /\ PrepareRuntime => TextInv'
<1> SUFFICES ASSUME TextInv, PrepareRuntime PROVE TextInv'
  OBVIOUS
<1> DEFINE m == ParsedMaterial(full_text, FullCiphertextNames)
<1>1. /\ prepared = "no" /\ TextRuns /\ SetupAccepts(full_text)
      /\ runtime_text' \in RuntimeFiles(RuntimeMaterial(m))
      /\ prepared' = "yes"
      /\ UNCHANGED <<material, full_text, stray_text, runtime_material,
                     text_loaded, audited>>
  BY DEF TextInv, PrepareRuntime, RuntimeFiles
<1>2. /\ SoundMaterial(material) /\ stray_text = <<>>
      /\ text_loaded = "no" /\ audited = "no"
      /\ full_text \in {<<>>} \cup FullFiles(material)
  BY <1>1 DEF TextRuns
<1>3. full_text = FullLines(material)
  BY <1>1, <1>2, NothingIsRefused, CutFullIsRefused DEF FullFiles, SetupAccepts
<1>4. RuntimeMaterial(m) = RuntimeMaterial(material)
  BY <1>2, <1>3, FullIsRead, RuntimePart
<1> HIDE DEF m
<1>5. runtime_text' \in RuntimeFiles(RuntimeMaterial(material))
  BY <1>1, <1>4
<1>6. PreparedInv'
  BY <1>1, <1>2, <1>3, <1>5
     DEF PreparedInv, LoadedIsExported, AuditedDisclosesNothing, FullFiles,
         RuntimeFiles
<1> QED BY <1>1, <1>2, <1>6 DEF TextInv, TextRuns, FullFiles

(* or has refused it,                                                      *)
LEMMA RefuseKeepsInv == TextInv /\ RefuseMaterial => TextInv'
<1> SUFFICES ASSUME TextInv, RefuseMaterial PROVE TextInv'
  OBVIOUS
<1>1. /\ prepared = "no" /\ TextRuns /\ ~SetupAccepts(full_text)
      /\ prepared' = "refused"
      /\ UNCHANGED <<material, full_text, runtime_text, stray_text,
                     runtime_material, text_loaded, audited>>
  BY DEF TextInv, RefuseMaterial
<1>2. full_text # FullLines(material)
  BY <1>1, FullIsRead DEF TextRuns
<1>3. TextRuns'
  BY <1>1, <1>2 DEF TextRuns, FullFiles
<1> QED BY <1>1, <1>3 DEF TextInv

(* after an export into the runtime directory,                             *)
LEMMA AstrayKeepsInv == TextInv /\ ExportAstray => TextInv'
<1> SUFFICES ASSUME TextInv, ExportAstray PROVE TextInv'
  OBVIOUS
<1>1. /\ prepared = "yes" /\ TextRuns /\ PreparedInv
      /\ audited = "no"
      /\ UNCHANGED <<material, full_text, prepared, runtime_material,
                     text_loaded, audited>>
  BY DEF TextInv, TextRuns, ExportAstray
<1>2. \/ stray_text' \in FullFiles(material) /\ runtime_text' = runtime_text
      \/ runtime_text' \in FullFiles(material) /\ stray_text' = stray_text
  BY DEF ExportAstray, FullFiles
<1>3. RuntimeReads(WholeRuntime) /\ SoundMaterial(material)
  BY <1>1, SoundChecksOut, RuntimeIsRead DEF TextRuns, WholeRuntime
<1>4. runtime_text' \in FullFiles(material) => runtime_text' # WholeRuntime
  BY <1>3, FullIsNoRuntime
<1>5. /\ runtime_text' \in FullFiles(material)
                            \cup RuntimeFiles(RuntimeMaterial(material))
      /\ stray_text' \in {<<>>} \cup FullFiles(material)
      /\ text_loaded = "refused" => runtime_text' # WholeRuntime
  BY <1>1, <1>2, <1>4 DEF PreparedInv
<1>6. PreparedInv'
  BY <1>1, <1>5
     DEF PreparedInv, LoadedIsExported, AuditedDisclosesNothing, FullFiles,
         RuntimeFiles, WholeRuntime
<1> QED BY <1>1, <1>6 DEF TextInv, TextRuns, FullFiles

(* after the runtime has read its material or has refused it,              *)
LEMMA LoadKeepsInv == TextInv /\ LoadRuntime => TextInv'
<1> SUFFICES ASSUME TextInv, LoadRuntime PROVE TextInv'
  OBVIOUS
<1>1. /\ prepared = "yes" /\ TextRuns /\ PreparedInv
      /\ UNCHANGED <<material, full_text, runtime_text, stray_text, prepared,
                     audited>>
  BY DEF TextInv, TextRuns, LoadRuntime
<1>2. /\ RuntimeReads(WholeRuntime)
      /\ ParsedMaterial(WholeRuntime, CiphertextNames) = RuntimeMaterial(material)
  BY <1>1, SoundChecksOut, RuntimeIsRead DEF TextRuns, WholeRuntime
<1>3. ASSUME RuntimeReads(runtime_text)
      PROVE  runtime_text = WholeRuntime
  <2>1. runtime_text \notin FullFiles(material)
    BY <1>3, FullIsNoRuntime
  <2>2. runtime_text \in RuntimeFiles(RuntimeMaterial(material))
    BY <1>1, <2>1 DEF PreparedInv
  <2> QED BY <1>3, <2>2, CutRuntimeIsRefused DEF RuntimeFiles, WholeRuntime
<1>4. CASE RuntimeReads(runtime_text)
  <2>1. /\ runtime_material' = RuntimeMaterial(material)
        /\ text_loaded' = "yes"
    BY <1>2, <1>3, <1>4 DEF LoadRuntime
  <2>2. PreparedInv'
    BY <1>1, <2>1
       DEF PreparedInv, LoadedIsExported, AuditedDisclosesNothing, FullFiles,
           RuntimeFiles, WholeRuntime, RuntimeDirectory
  <2> QED BY <1>1, <2>2 DEF TextInv, TextRuns, FullFiles
<1>5. CASE ~RuntimeReads(runtime_text)
  <2>1. /\ text_loaded' = "refused" /\ runtime_text # WholeRuntime
    BY <1>2, <1>5 DEF LoadRuntime
  <2>2. PreparedInv'
    BY <1>1, <2>1
       DEF PreparedInv, LoadedIsExported, AuditedDisclosesNothing, FullFiles,
           RuntimeFiles, WholeRuntime, RuntimeDirectory
  <2> QED BY <1>1, <2>2 DEF TextInv, TextRuns, FullFiles
<1> QED BY <1>4, <1>5

(* Nothing in a directory of a whole runtime material looks like a secret. *)
LEMMA WholePassesAudit ==
  ASSUME SoundMaterial(material), full_text = FullLines(material),
         runtime_text = WholeRuntime, stray_text = <<>>
  PROVE  AuditPasses
<1>1. /\ FullReads(full_text)
      /\ Field(full_text, "hsk", "s_raw") = Text("vector", material.hsk.s_raw)
      /\ Field(full_text, "hsk", "s_mod_q") = Text("vector", material.hsk.s_mod_q)
  BY FullIsRead
<1>2. RuntimeReads(runtime_text)
  BY SoundChecksOut, RuntimeIsRead DEF WholeRuntime
<1>3. \A k \in DOMAIN runtime_text : ~NamesSetupField(runtime_text[k])
  <2>1. \A k \in DOMAIN runtime_text :
          runtime_text[k].key[2] \notin SecretNames \cup {"plaintext"}
    BY RuntimeNamesNothing DEF WholeRuntime, RuntimeFiles
  <2>2. \A k \in DOMAIN runtime_text : runtime_text[k].value \notin
          {Text("vector", material.hsk.s_raw),
           Text("vector", material.hsk.s_mod_q)}
    BY RuntimeIsNoSecret DEF WholeRuntime
  <2> QED BY <1>1, <2>1, <2>2, Zenon DEF NamesSetupField, SecretNames
<1>4. DOMAIN stray_text = {}
  OBVIOUS
<1> QED BY <1>1, <1>2, <1>3, <1>4 DEF AuditPasses, RuntimeDirectory

(* and after the audit.                                                    *)
LEMMA AuditKeepsInv == TextInv /\ Audit => TextInv'
<1> SUFFICES ASSUME TextInv, Audit PROVE TextInv'
  OBVIOUS
<1>1. /\ prepared = "yes" /\ TextRuns /\ PreparedInv
      /\ UNCHANGED <<material, full_text, runtime_text, stray_text, prepared,
                     runtime_material, text_loaded>>
      /\ audited' = IF AuditPasses THEN "yes" ELSE "refused"
  BY DEF TextInv, TextRuns, Audit
<1>2. audited' = "refused" => ~(runtime_text = WholeRuntime /\ stray_text = <<>>)
  BY <1>1, WholePassesAudit DEF PreparedInv, TextRuns
<1>3. ASSUME AuditPasses, NEW lines \in RuntimeDirectory
      PROVE  \A n \in DOMAIN lines : ~Discloses(lines[n])
  <2>1. lines \in {<<>>} \cup FullFiles(material)
                   \cup RuntimeFiles(RuntimeMaterial(material))
    BY <1>1, <1>3 DEF PreparedInv, RuntimeDirectory
  <2>2. \A n \in DOMAIN lines : ~NamesSetupField(lines[n])
    BY <1>3 DEF AuditPasses
  <2> QED BY <2>1, <2>2, DisclosedIsFound
<1>4. AuditedDisclosesNothing'
  BY <1>1, <1>3 DEF AuditedDisclosesNothing, RuntimeDirectory
<1>5. PreparedInv'
  BY <1>1, <1>2, <1>4
     DEF PreparedInv, LoadedIsExported, FullFiles, RuntimeFiles, WholeRuntime
<1> QED BY <1>1, <1>5 DEF TextInv, TextRuns, FullFiles

(* So every step keeps it.                                                 *)
LEMMA TextInvNext == TextInv /\ [FilesNext]_<<fileVars, textVars>> => TextInv'
<1> SUFFICES ASSUME TextInv, [FilesNext]_<<fileVars, textVars>>
             PROVE  TextInv'
  OBVIOUS
<1>1. CASE TextNext
  BY <1>1, ExportKeepsInv, PrepareKeepsInv, RefuseKeepsInv, AstrayKeepsInv,
     LoadKeepsInv, AuditKeepsInv DEF TextNext
<1>2. CASE UNCHANGED textVars
  BY <1>2 DEF textVars, TextInv, TextRuns, PreparedInv, LoadedIsExported,
              AuditedDisclosesNothing, RuntimeDirectory, WholeRuntime,
              FullFiles, RuntimeFiles
<1> QED BY <1>1, <1>2 DEF FilesNext

(* What the invariant says of the four properties.                         *)
LEMMA TextProperties ==
  TextInv => /\ LoadedIsExported /\ CutMaterialIsRefused
             /\ RefusedForAReason /\ AuditedDisclosesNothing
<1> SUFFICES ASSUME TextInv
             PROVE  /\ LoadedIsExported /\ CutMaterialIsRefused
                    /\ RefusedForAReason /\ AuditedDisclosesNothing
  OBVIOUS
<1>1. CASE prepared = "yes"
  <2>1. PreparedInv
    BY <1>1 DEF TextInv, TextRuns
  <2> QED BY <1>1, <2>1
          DEF PreparedInv, CutMaterialIsRefused, RefusedForAReason, WholeRuntime
<1>2. CASE prepared # "yes"
  <2>1. /\ text_loaded = "no" /\ audited = "no"
        /\ prepared = "refused" => full_text # FullLines(material)
    BY <1>2 DEF TextInv, TextRuns
  <2> QED BY <1>2, <2>1 DEF LoadedIsExported, CutMaterialIsRefused,
                            RefusedForAReason, AuditedDisclosesNothing
<1> QED BY <1>1, <1>2

(* What the runtime has loaded is what the exporter held, without the      *)
(* secrets: ReadOpenFHELWEIntRuntimeMaterial believes no file that was     *)
(* cut, nor setup's reader before it.                                      *)
THEOREM LoadedMaterialIsExported == FilesSpec => []LoadedIsExported
<1>1. FilesInit => TextInv
  BY TextInvInitially
<1>2. TextInv /\ [FilesNext]_<<fileVars, textVars>> => TextInv'
  BY TextInvNext
<1>3. TextInv => LoadedIsExported
  BY TextProperties
<1> QED BY <1>1, <1>2, <1>3, PTL DEF FilesSpec

(* setup_fixed_gc_material goes on only with a material that is whole.     *)
THEOREM SetupTakesNoCutMaterial == FilesSpec => []CutMaterialIsRefused
<1>1. FilesInit => TextInv
  BY TextInvInitially
<1>2. TextInv /\ [FilesNext]_<<fileVars, textVars>> => TextInv'
  BY TextInvNext
<1>3. TextInv => CutMaterialIsRefused
  BY TextProperties
<1> QED BY <1>1, <1>2, <1>3, PTL DEF FilesSpec

(* Neither setup nor the runtime nor the audit turns down a material that  *)
(* is whole and alone in its directory.                                    *)
THEOREM WholeMaterialIsNotRefused == FilesSpec => []RefusedForAReason
<1>1. FilesInit => TextInv
  BY TextInvInitially
<1>2. TextInv /\ [FilesNext]_<<fileVars, textVars>> => TextInv'
  BY TextInvNext
<1>3. TextInv => RefusedForAReason
  BY TextProperties
<1> QED BY <1>1, <1>2, <1>3, PTL DEF FilesSpec

(* A runtime directory that runtime_boundary_audit has passed holds no     *)
(* digit of the secret key or of a plaintext, whatever an exporter had     *)
(* left in it and wherever that ended.                                     *)
THEOREM AuditLetsNoSecretThrough == FilesSpec => []AuditedDisclosesNothing
<1>1. FilesInit => TextInv
  BY TextInvInitially
<1>2. TextInv /\ [FilesNext]_<<fileVars, textVars>> => TextInv'
  BY TextInvNext
<1>3. TextInv => AuditedDisclosesNothing
  BY TextProperties
<1> QED BY <1>1, <1>2, <1>3, PTL DEF FilesSpec

(* The exporter holds this material.                                       *)
ExportOf(m) ==
  /\ material = m /\ SoundMaterial(m)
  /\ full_text = <<>> /\ runtime_text = <<>> /\ stray_text = <<>>
  /\ prepared = "no" /\ text_loaded = "no" /\ audited = "no"
  /\ runtime_material = <<>>

(* All four hold for every material that its readers' checks are true of,  *)
(* of any dimension and moduli, with any keys and ciphertexts, as long as  *)
(* no mask is the secret key itself.                                       *)
THEOREM AnySoundMaterialIsExported ==
  ASSUME NEW CONSTANT m
  PROVE  ExportOf(m) /\ [][FilesNext]_<<fileVars, textVars>>
           => [](/\ LoadedIsExported /\ CutMaterialIsRefused
                 /\ RefusedForAReason /\ AuditedDisclosesNothing)
<1>1. ExportOf(m) => TextInv
  BY DEF ExportOf, TextInv, TextRuns
<1>2. TextInv /\ [FilesNext]_<<fileVars, textVars>> => TextInv'
  BY TextInvNext
<1>3. TextInv => /\ LoadedIsExported /\ CutMaterialIsRefused
                 /\ RefusedForAReason /\ AuditedDisclosesNothing
  BY TextProperties
<1> QED BY <1>1, <1>2, <1>3, PTL
=============================================================================
