----------------------------- MODULE CsvLogProofs -----------------------------
(***************************************************************************)
(* For any finite number of processes on one log: what becomes of the rows *)
(* that were reported saved, when the log stays a table, and when it has a *)
(* header.                                                                 *)
(***************************************************************************)
EXTENDS CsvLog, FiniteSetTheorems, SequenceTheorems, TLAPS

Line == Runs \cup {Header, Garbled}

\* Nothing of a run is in the file before it has written, and the file is there then.
UnwrittenIsAbsent ==
  \A r \in Runs :
    /\ pc[r] \in {"check", "open", "write", "failed"} => \A n \in DOMAIN lines : lines[n] # r
    /\ pc[r] \in {"write", "close", "saved"} => exists

\* No row is there twice.
RowsAreDistinct ==
  \A m, n \in DOMAIN lines : lines[m] = lines[n] /\ lines[m] \in Runs => m = n

\* A torn line is already spoilt: what is appended to it spoils nothing older.
TornLineIsGarbled == torn => lines[Len(lines)] = Garbled

\* The runs that wrote, and whose row is not there.
Gone == {r \in Runs : pc[r] \in {"close", "saved"} /\ \A n \in DOMAIN lines : lines[n] # r}

\* A short write pays for its own row and for the one that will be appended to the
\* piece it left.
LossesArePaid == Cardinality(Gone) + (IF torn THEN 1 ELSE 0) <= 2 * short

RowsInv ==
  /\ TypeOK
  /\ UnwrittenIsAbsent
  /\ RowsAreDistinct
  /\ TornLineIsGarbled
  /\ LossesArePaid

\* Undisturbed, and with no short write, there is never more than one run that would
\* write a header; until it has, nobody else writes, and once the file has lines, nobody
\* will.
OneCreator ==
  alone /\ ~creatorKilled /\ short = 0 =>
    /\ ~torn
    /\ \A r, s \in Creators : r = s
    /\ lines # <<>> => Creators = {} /\ IsTable(lines)
    /\ lines = <<>> => \A r \in Runs : pc[r] \in {"open", "write"} => writeHeader[r]
    /\ lines = <<>> /\ exists => \E r \in Creators : pc[r] = "write"

TableInv == RowsInv /\ OneCreator

\* Who is about to open a file that is not there is going to write the header.
HeaderComes ==
  /\ ~exists => \A r \in Runs : pc[r] = "open" => writeHeader[r]
  /\ HeaderSurvives

HeaderInv == RowsInv /\ HeaderComes
-----------------------------------------------------------------------------
(* What a write does to the file.                                          *)

\* Concatenation, line by line.
LEMMA Joined ==
  ASSUME NEW a \in Seq(Line), NEW b \in Seq(Line), NEW file, file = a \o b
  PROVE  /\ file \in Seq(Line)
         /\ Len(file) = Len(a) + Len(b)
         /\ \A n \in 1..Len(a) : file[n] = a[n]
         /\ \A n \in (Len(a) + 1)..Len(file) : file[n] = b[n - Len(a)]
  BY ConcatProperties, LenProperties

\* The lines that were there stay, and those written follow, but for a first one that
\* a torn line swallows.
LEMMA AppendedLines ==
  ASSUME TypeOK, TornLineIsGarbled, NEW text \in Seq(Line)
  PROVE  LET file == Appended(text)
             eaten == IF torn /\ text # <<>> THEN 1 ELSE 0
         IN /\ file \in Seq(Line)
            /\ Len(file) = Len(lines) + Len(text) - eaten
            /\ \A n \in 1..Len(lines) : file[n] = lines[n]
            /\ \A n \in (Len(lines) + 1)..Len(file) : file[n] = text[n - Len(lines) + eaten]
<1> lines \in Seq(Line)
  BY DEF TypeOK, Line
<1>1. CASE torn /\ text # <<>>
  <2>1. Len(lines) \in 1..Len(lines) /\ lines \in [1..Len(lines) -> Line]
    BY <1>1, LenProperties DEF TypeOK
  <2>2. PICK old \in Seq(Line) :
          /\ old = [lines EXCEPT ![Len(lines)] = Garbled]
          /\ Len(old) = Len(lines)
          /\ \A n \in 1..Len(lines) : old[n] = lines[n]
    <3>1. Garbled \in Line
      BY DEF Line
    <3> QED BY <1>1, <2>1, <3>1, ExceptSeq DEF TornLineIsGarbled
  <2>3. PICK rest \in Seq(Line) :
          /\ rest = Tail(text)
          /\ Len(rest) = Len(text) - 1
          /\ \A n \in 1..Len(rest) : rest[n] = text[n + 1]
    BY <1>1, HeadTailProperties
  <2>4. Appended(text) = old \o rest
    BY <1>1, <2>2, <2>3 DEF Appended
  <2>5. /\ Appended(text) \in Seq(Line)
        /\ Len(Appended(text)) = Len(old) + Len(rest)
        /\ \A n \in 1..Len(old) : Appended(text)[n] = old[n]
        /\ \A n \in (Len(old) + 1)..Len(Appended(text)) : Appended(text)[n] = rest[n - Len(old)]
    BY <2>4, Joined
  <2>6. Len(lines) \in Nat /\ Len(text) \in Nat /\ Len(rest) \in Nat
    BY LenProperties
  <2>7. ASSUME NEW n \in (Len(lines) + 1)..Len(Appended(text))
        PROVE  Appended(text)[n] = text[n - Len(lines) + 1]
    <3>1. Len(Appended(text)) = Len(lines) + Len(rest) /\ Len(old) = Len(lines)
      BY <2>2, <2>5
    <3>2. n \in (Len(old) + 1)..Len(Appended(text)) /\ n - Len(lines) \in 1..Len(rest)
      BY <2>6, <3>1
    <3>3. Appended(text)[n] = rest[n - Len(lines)]
      BY <2>5, <3>1, <3>2
    <3> QED BY <2>3, <2>6, <3>2, <3>3
  <2> QED BY <1>1, <2>2, <2>3, <2>5, <2>6, <2>7
<1>2. CASE ~(torn /\ text # <<>>)
  <2>1. Appended(text) = lines \o text
    BY <1>2 DEF Appended
  <2> QED BY <1>2, <2>1, Joined
<1> QED BY <1>1, <1>2

\* The header may come first; the row comes last.
LEMMA TextLines ==
  ASSUME TypeOK, NEW r \in Runs
  PROVE  /\ Text(r) \in Seq(Line)
         /\ Len(Text(r)) = IF writeHeader[r] THEN 2 ELSE 1
         /\ Text(r)[Len(Text(r))] = r
         /\ writeHeader[r] => Text(r)[1] = Header
<1>1. CASE writeHeader[r]
  BY <1>1 DEF Text, Line
<1>2. CASE ~writeHeader[r]
  BY <1>2 DEF Text, Line
<1> QED BY <1>1, <1>2 DEF TypeOK

\* What a full disk lets through of them: no row.
LEMMA PieceLines ==
  ASSUME TypeOK, NEW r \in Runs, NEW text \in Pieces(r)
  PROVE  /\ text \in Seq(Line)
         /\ \A m \in 1..Len(text) : text[m] \in {Header, Garbled}
         /\ text # <<>> => Len(text) > 0
<1>1. CASE text = <<>>
  BY <1>1
<1>2. CASE text = <<Garbled>>
  BY <1>2 DEF Line
<1>3. CASE text = <<Header>>
  BY <1>3 DEF Line
<1>4. CASE text = <<Header, Garbled>>
  BY <1>4 DEF Line
<1> QED BY <1>1, <1>2, <1>3, <1>4 DEF Pieces

\* One run more is one run more.
LEMMA OneMore ==
  ASSUME NEW S \in SUBSET Runs, NEW T \in SUBSET Runs, NEW r
  PROVE  /\ Cardinality(S) \in Nat /\ Cardinality(T) \in Nat
         /\ T \subseteq S => Cardinality(T) <= Cardinality(S)
         /\ T \subseteq S \cup {r} => Cardinality(T) <= Cardinality(S) + 1
<1>1. IsFiniteSet(S) /\ IsFiniteSet(T) /\ IsFiniteSet(S \cup {r})
  BY RunsAssumption, FS_Subset, FS_AddElement
<1>2. Cardinality(S) \in Nat /\ Cardinality(T) \in Nat
  BY <1>1, FS_CardinalityType
<1>3. T \subseteq S => Cardinality(T) <= Cardinality(S)
  BY <1>1, FS_Subset
<1>4. ASSUME T \subseteq S \cup {r} PROVE Cardinality(T) <= Cardinality(S) + 1
  <2>1. Cardinality(T) <= Cardinality(S \cup {r})
    BY <1>1, <1>4, FS_Subset
  <2>2. Cardinality(S \cup {r}) <= Cardinality(S) + 1
    BY <1>1, <1>2, FS_AddElement
  <2>3. Cardinality(S \cup {r}) \in Nat
    BY <1>1, FS_CardinalityType
  <2> QED BY <1>2, <2>1, <2>2, <2>3
<1> QED BY <1>2, <1>3, <1>4

-----------------------------------------------------------------------------
(* The rows.                                                               *)

\* No run has written, and the file is not there.
LEMMA RowsInit == Init => RowsInv
<1> SUFFICES ASSUME Init PROVE RowsInv
  OBVIOUS
<1>1. Gone = {}
  BY DEF Init, Gone
<1>2. TypeOK
  <2>1. lines \in Seq(Runs \cup {Header, Garbled})
    BY DEF Init
  <2> QED BY <2>1 DEF Init, TypeOK
<1> QED
  BY <1>1, <1>2, FS_EmptySet DEF Init, RowsInv, UnwrittenIsAbsent, RowsAreDistinct,
     TornLineIsGarbled, LossesArePaid

\* A run writes, once, at most one row, its own.
LEMMA WritingKeepsRows ==
  ASSUME RowsInv, NEW r \in Runs, NEW text \in Seq(Line),
         \A m \in 1..Len(text) : text[m] \in {Header, Garbled} \/ (m = Len(text) /\ text[m] = r),
         pc[r] = "write", pc' = [pc EXCEPT ![r] = "close"],
         lines' = Appended(text), exists' = exists
  PROVE  /\ lines' \in Seq(Line)
         /\ \A n \in DOMAIN lines : n \in DOMAIN lines' /\ lines'[n] = lines[n]
         /\ UnwrittenIsAbsent'
         /\ RowsAreDistinct'
         /\ Gone' \subseteq Gone \cup {r}
<1> USE DEF RowsInv
<1> DEFINE eaten == IF torn /\ text # <<>> THEN 1 ELSE 0
<1>1. /\ lines \in Seq(Line) /\ DOMAIN lines = 1..Len(lines) /\ Len(lines) \in Nat
      /\ Len(text) \in Nat
  BY LenProperties DEF TypeOK, Line
<1>2. /\ lines' \in Seq(Line) /\ DOMAIN lines' = 1..Len(lines') /\ Len(lines') \in Nat
      /\ Len(lines') = Len(lines) + Len(text) - eaten
      /\ \A n \in 1..Len(lines) : lines'[n] = lines[n]
      /\ \A n \in (Len(lines) + 1)..Len(lines') : lines'[n] = text[n - Len(lines) + eaten]
  BY AppendedLines, LenProperties
<1>3. \A n \in DOMAIN lines : n \in DOMAIN lines' /\ lines'[n] = lines[n]
  <2>1. Len(lines) <= Len(lines')
    <3>1. text # <<>> => Len(text) >= 1
      BY <1>1
    <3> QED BY <1>1, <1>2, <3>1
  <2> QED BY <1>1, <1>2, <2>1
<1>4. \A n \in DOMAIN lines' \ DOMAIN lines :
        lines'[n] \in {Header, Garbled} \/ (n = Len(lines') /\ lines'[n] = r)
  <2> SUFFICES ASSUME NEW n \in DOMAIN lines' \ DOMAIN lines
               PROVE  lines'[n] \in {Header, Garbled} \/ (n = Len(lines') /\ lines'[n] = r)
    OBVIOUS
  <2>1. n \in (Len(lines) + 1)..Len(lines') /\ n - Len(lines) + eaten \in 1..Len(text)
    BY <1>1, <1>2
  <2>2. lines'[n] = text[n - Len(lines) + eaten]
    BY <1>2, <2>1
  <2>3. n - Len(lines) + eaten = Len(text) => n = Len(lines')
    BY <1>1, <1>2, <2>1
  <2> QED BY <2>1, <2>2, <2>3
<1>5. r \notin {Header, Garbled} /\ \A s \in Runs : s \notin {Header, Garbled}
  BY LineAssumption
<1>6. UnwrittenIsAbsent'
  BY <1>3, <1>4, <1>5 DEF UnwrittenIsAbsent, TypeOK
<1>7. RowsAreDistinct'
  BY <1>3, <1>4, <1>5 DEF UnwrittenIsAbsent, RowsAreDistinct
<1>8. Gone' \subseteq Gone \cup {r}
  BY <1>3 DEF Gone, TypeOK
<1> QED BY <1>2, <1>3, <1>6, <1>7, <1>8
\* A whole row is there, unless a torn line swallowed it.
LEMMA WriteKeepsRows == ASSUME RowsInv, NEW r \in Runs, Write(r) PROVE RowsInv'
<1> USE DEF RowsInv
<1>1. /\ Text(r) \in Seq(Line)
      /\ \A m \in 1..Len(Text(r)) :
           Text(r)[m] \in {Header, Garbled} \/ (m = Len(Text(r)) /\ Text(r)[m] = r)
      /\ Len(Text(r)) \in Nat /\ Text(r) # <<>>
      /\ Len(Text(r)) >= 1 /\ Text(r)[Len(Text(r))] = r
  BY TextLines
<1>2. /\ lines' \in Seq(Line)
      /\ \A n \in DOMAIN lines : n \in DOMAIN lines' /\ lines'[n] = lines[n]
      /\ UnwrittenIsAbsent'
      /\ RowsAreDistinct'
      /\ Gone' \subseteq Gone \cup {r}
  BY <1>1, WritingKeepsRows DEF Write
<1>3. TypeOK'
  <2>1. exists
    BY DEF Write, UnwrittenIsAbsent
  <2> QED BY <1>2, <2>1 DEF Write, TypeOK, Line, marks
<1>4. TornLineIsGarbled'
  BY DEF Write, TornLineIsGarbled
<1>5. LossesArePaid'
  <2>1. Gone \in SUBSET Runs /\ Gone' \in SUBSET Runs
    BY DEF Gone
  <2>2. CASE torn
    <3>1. Cardinality(Gone') <= Cardinality(Gone) + 1
      BY <1>2, <2>1, OneMore
    <3> QED BY <2>1, <2>2, <3>1, OneMore DEF Write, LossesArePaid, TypeOK
  <2>3. CASE ~torn
    <3>1. /\ Len(Appended(Text(r))) = Len(lines) + Len(Text(r))
          /\ \A n \in (Len(lines) + 1)..Len(Appended(Text(r))) :
               Appended(Text(r))[n] = Text(r)[n - Len(lines)]
          /\ Len(lines) \in Nat
      BY <1>1, <2>3, AppendedLines, LenProperties DEF TypeOK
    <3>2. Len(lines') \in DOMAIN lines' /\ lines'[Len(lines')] = r
      BY <1>1, <1>2, <3>1, LenProperties DEF Write
    <3>3. Gone' \subseteq Gone
      BY <1>2, <3>2 DEF Gone
    <3>4. /\ Cardinality(Gone') <= Cardinality(Gone)
          /\ Cardinality(Gone) \in Nat /\ Cardinality(Gone') \in Nat
      BY <2>1, <3>3, OneMore
    <3>5. ~torn' /\ short' = short /\ short \in Nat
      BY DEF Write, TypeOK
    <3> QED BY <2>3, <3>4, <3>5 DEF LossesArePaid
  <2> QED BY <2>2, <2>3
<1> QED BY <1>2, <1>3, <1>4, <1>5

\* What is lost with a short write is paid for.
LEMMA ShortWriteKeepsRows == ASSUME RowsInv, NEW r \in Runs, WriteShort(r) PROVE RowsInv'
<1> USE DEF RowsInv
<1>1. PICK text \in Pieces(r) :
        /\ lines' = Appended(text)
        /\ torn' = IF text = <<>> THEN torn ELSE text[Len(text)] = Garbled
  BY DEF WriteShort
<1>2. /\ text \in Seq(Line)
      /\ \A m \in 1..Len(text) : text[m] \in {Header, Garbled}
      /\ text # <<>> => Len(text) > 0
      /\ Len(text) \in Nat
  BY PieceLines, LenProperties
<1>3. /\ lines' \in Seq(Line)
      /\ \A n \in DOMAIN lines : n \in DOMAIN lines' /\ lines'[n] = lines[n]
      /\ UnwrittenIsAbsent'
      /\ RowsAreDistinct'
      /\ Gone' \subseteq Gone \cup {r}
  BY <1>1, <1>2, WritingKeepsRows DEF WriteShort
<1>4. torn' => lines' # <<>> /\ lines'[Len(lines')] = Garbled
  <2>1. CASE text = <<>>
    <3>1. lines' = lines
      BY <1>1, <2>1, ConcatEmptySeq DEF Appended, TypeOK
    <3> QED BY <1>1, <2>1, <3>1 DEF TypeOK, TornLineIsGarbled
  <2>2. CASE text # <<>>
    <3> DEFINE eaten == IF torn THEN 1 ELSE 0
    <3>1. /\ Len(lines') = Len(lines) + Len(text) - eaten
          /\ \A n \in 1..Len(lines) : lines'[n] = lines[n]
          /\ \A n \in (Len(lines) + 1)..Len(lines') : lines'[n] = text[n - Len(lines) + eaten]
          /\ Len(lines) \in Nat /\ (torn => Len(lines) > 0)
      BY <1>1, <1>2, <2>2, AppendedLines, LenProperties DEF TypeOK
    <3>2. CASE torn /\ Len(text) = 1
      <4>1. Len(lines') = Len(lines) /\ Len(lines) \in 1..Len(lines)
        BY <3>1, <3>2
      <4> QED BY <1>3, <3>1, <3>2, <4>1 DEF TornLineIsGarbled
    <3>3. CASE ~(torn /\ Len(text) = 1)
      <4> Len(text) \in Nat /\ Len(text) > 0 /\ eaten \in Nat /\ eaten < Len(text)
        BY <1>2, <2>2, <3>3
      <4> HIDE DEF eaten
      <4>1. PICK k \in Nat : k = Len(lines')
        BY <1>3, LenProperties
      <4>2. /\ k \in (Len(lines) + 1)..Len(lines')
            /\ k - Len(lines) + eaten = Len(text) /\ k # 0
        BY <3>1, <4>1
      <4>3. lines'[k] = text[k - Len(lines) + eaten]
        BY <3>1, <4>2
      <4> QED BY <1>1, <1>3, <2>2, <4>1, <4>2, <4>3
    <3> QED BY <3>2, <3>3
  <2> QED BY <2>1, <2>2
<1>5. torn' \in BOOLEAN
  BY <1>1 DEF TypeOK
<1>6. TypeOK'
  <2>1. exists
    BY DEF WriteShort, UnwrittenIsAbsent
  <2> QED BY <1>3, <1>4, <1>5, <2>1 DEF WriteShort, TypeOK, Line, marks
<1>7. LossesArePaid'
  <2>1. Gone \in SUBSET Runs /\ Gone' \in SUBSET Runs
    BY DEF Gone
  <2>2. Cardinality(Gone') <= Cardinality(Gone) + 1
    BY <1>3, <2>1, OneMore
  <2>3. /\ Cardinality(Gone) \in Nat /\ Cardinality(Gone') \in Nat
        /\ short \in Nat /\ short' = short + 1
    BY <2>1, OneMore DEF WriteShort, TypeOK
  <2> QED BY <2>2, <2>3 DEF LossesArePaid
<1> QED BY <1>3, <1>4, <1>6, <1>7 DEF TornLineIsGarbled

\* Every other step leaves the lines alone.
LEMMA RowsNext == RowsInv /\ [Next]_vars => RowsInv'
<1> SUFFICES ASSUME RowsInv, [Next]_vars PROVE RowsInv'
  OBVIOUS
<1>1. ASSUME NEW r \in Runs, Check(r) \/ Open(r) \/ Close(r) \/ Kill(r) PROVE RowsInv'
  <2> USE DEF RowsInv
  <2>1. TypeOK'
    <3>1. alone' \in BOOLEAN /\ creatorKilled' \in BOOLEAN
      <4>1. /\ alone' = alone \/ alone' = (alone /\ Creators = {})
            /\ \/ creatorKilled' = creatorKilled
               \/ creatorKilled' = (creatorKilled \/ (pc[r] = "write" /\ writeHeader[r]))
        BY <1>1, Zenon DEF Check, Open, Close, Kill, marks
      <4>2. /\ (alone /\ Creators = {}) \in BOOLEAN
            /\ (creatorKilled \/ (pc[r] = "write" /\ writeHeader[r])) \in BOOLEAN
        OBVIOUS
      <4> QED BY <4>1, <4>2, Zenon DEF TypeOK
    <3>2. CASE Check(r)
      BY <3>1, <3>2 DEF Check, TypeOK
    <3>3. CASE Open(r)
      BY <3>1, <3>3 DEF Open, TypeOK
    <3>4. CASE Close(r) \/ Kill(r)
      BY <3>1, <3>4 DEF Close, Kill, TypeOK
    <3> QED BY <1>1, <3>2, <3>3, <3>4
  <2>2. UnwrittenIsAbsent'
    BY <1>1 DEF Check, Open, Close, Kill, TypeOK, UnwrittenIsAbsent
  <2>3. RowsAreDistinct' /\ TornLineIsGarbled'
    BY <1>1 DEF Check, Open, Close, Kill, RowsAreDistinct, TornLineIsGarbled
  <2>4. LossesArePaid'
    <3>1. Gone' \subseteq Gone
      BY <1>1 DEF Check, Open, Close, Kill, TypeOK, Gone
    <3>2. Gone \in SUBSET Runs /\ Gone' \in SUBSET Runs
      BY DEF Gone
    <3>3. torn' = torn /\ short' = short
      BY <1>1 DEF Check, Open, Close, Kill
    <3>4. /\ Cardinality(Gone') <= Cardinality(Gone)
          /\ Cardinality(Gone) \in Nat /\ Cardinality(Gone') \in Nat
      BY <3>1, <3>2, OneMore
    <3> QED BY <3>3, <3>4 DEF LossesArePaid, TypeOK
  <2> QED BY <2>1, <2>2, <2>3, <2>4
<1>2. CASE UNCHANGED vars
  BY <1>2 DEF vars, marks, RowsInv, TypeOK, UnwrittenIsAbsent, RowsAreDistinct, TornLineIsGarbled,
     LossesArePaid, Gone
<1> QED BY <1>1, <1>2, WriteKeepsRows, ShortWriteKeepsRows DEF Next, Run
-----------------------------------------------------------------------------
(* The table.                                                              *)

\* One header, and rows below it.
LEMMA TableNext == TableInv /\ [Next]_vars => TableInv'
<1> SUFFICES ASSUME TableInv, [Next]_vars PROVE TableInv'
  OBVIOUS
<1>1. RowsInv /\ RowsInv' /\ TypeOK /\ TypeOK' /\ OneCreator
  BY RowsNext DEF TableInv, RowsInv
<1>2. SUFFICES ASSUME alone', ~creatorKilled', short' = 0 PROVE
        /\ ~torn'
        /\ \A r, s \in Creators' : r = s
        /\ lines' # <<>> => Creators' = {} /\ IsTable(lines')
        /\ lines' = <<>> => \A r \in Runs : pc'[r] \in {"open", "write"} => writeHeader'[r]
        /\ lines' = <<>> /\ exists' => \E r \in Creators' : pc'[r] = "write"
  BY <1>1 DEF TableInv, OneCreator
<1> DEFINE Goal == /\ ~torn'
                   /\ \A r, s \in Creators' : r = s
                   /\ lines' # <<>> => Creators' = {} /\ IsTable(lines')
                   /\ lines' = <<>> =>
                        \A r \in Runs : pc'[r] \in {"open", "write"} => writeHeader'[r]
                   /\ lines' = <<>> /\ exists' => \E r \in Creators' : pc'[r] = "write"
<1>3. alone /\ ~creatorKilled /\ short = 0
  <2>1. alone /\ ~creatorKilled
    <3>1. /\ alone' = alone \/ alone' = (alone /\ Creators = {})
          /\ \/ creatorKilled' = creatorKilled
             \/ \E r \in Runs :
                  creatorKilled' = (creatorKilled \/ (pc[r] = "write" /\ writeHeader[r]))
      BY Zenon DEF Next, Run, Check, Open, Write, WriteShort, Close, Kill, vars, marks
    <3>2. alone
      BY <1>2, <3>1
    <3>3. ~creatorKilled
      <4>1. CASE creatorKilled' = creatorKilled
        BY <1>2, <4>1
      <4>2. ASSUME NEW r \in Runs,
                   creatorKilled' = (creatorKilled \/ (pc[r] = "write" /\ writeHeader[r]))
            PROVE  ~creatorKilled
        BY <1>2, <4>2
      <4> QED BY <3>1, <4>1, <4>2
    <3> QED BY <3>2, <3>3
  <2>2. short = 0
    <3>1. short' \in {short, short + 1} /\ short \in Nat
      BY <1>1 DEF Next, Run, Check, Open, Write, WriteShort, Close, Kill, vars, TypeOK
    <3> QED BY <1>2, <3>1
  <2> QED BY <2>1, <2>2
<1>4. /\ ~torn
      /\ \A r, s \in Creators : r = s
      /\ lines # <<>> => Creators = {} /\ IsTable(lines)
      /\ lines = <<>> => \A r \in Runs : pc[r] \in {"open", "write"} => writeHeader[r]
      /\ lines = <<>> /\ exists => \E r \in Creators : pc[r] = "write"
  BY <1>1, <1>3 DEF OneCreator
<1> USE DEF TypeOK, Creators
<1>5. ASSUME NEW r \in Runs, Check(r) PROVE Goal
  <2>1. Creators = {}
    BY <1>2, <1>5 DEF Check
  <2>2. lines = <<>> => ~exists
    BY <1>4, <2>1
  <2>3. lines # <<>> => exists
    BY <1>1
  <2> QED BY <1>1, <1>4, <1>5, <2>1, <2>2, <2>3 DEF Check
<1>6. ASSUME NEW r \in Runs, Open(r) PROVE Goal
  BY <1>1, <1>4, <1>6 DEF Open
<1>7. ASSUME NEW r \in Runs, Write(r) PROVE Goal
  <2>1. CASE lines = <<>>
    <3>1. writeHeader[r] /\ lines' = <<Header, r>>
      BY <1>1, <1>4, <1>7, <2>1 DEF Write, Appended, Text
    <3>2. Creators' = {}
      BY <1>1, <1>4, <1>7, <3>1 DEF Write
    <3>3. lines' # <<>> /\ IsTable(lines')
      BY <3>1 DEF IsTable
    <3> QED BY <1>7, <3>2, <3>3 DEF Write
  <2>2. CASE lines # <<>>
    <3>1. ~writeHeader[r] /\ lines' = Append(lines, r)
      BY <1>1, <1>4, <1>7, <2>2, AppendIsConcat DEF Write, Appended, Text
    <3>2. Creators' = {}
      BY <1>1, <1>4, <1>7, <2>2 DEF Write
    <3>3. lines' # <<>> /\ IsTable(lines')
      BY <1>1, <1>4, <2>2, <3>1, AppendProperties DEF IsTable
    <3> QED BY <1>7, <3>2, <3>3 DEF Write
  <2> QED BY <2>1, <2>2
<1>8. ASSUME NEW r \in Runs, WriteShort(r) PROVE Goal
  BY <1>1, <1>2, <1>8 DEF WriteShort
<1>9. ASSUME NEW r \in Runs, Close(r) \/ Kill(r) PROVE Goal
  BY <1>1, <1>2, <1>4, <1>9 DEF Close, Kill
<1>10. ASSUME UNCHANGED vars PROVE Goal
  BY <1>4, <1>10 DEF vars
<1> QED
  <2> HIDE DEF Goal, TypeOK, Creators
  <2>1. ASSUME NEW r \in Runs, Run(r) PROVE Goal
    BY <2>1, <1>5, <1>6, <1>7, <1>8, <1>9 DEF Run
  <2>2. Goal
    BY <2>1, <1>10 DEF Next
  <2> QED BY <2>2 DEF Goal

-----------------------------------------------------------------------------
(* The header.                                                             *)

\* A line that was there is there after a write, and a header that was owed too.
LEMMA LinesStay ==
  ASSUME RowsInv, NEW r \in Runs, Write(r)
  PROVE  /\ \A n \in DOMAIN lines : n \in DOMAIN lines' /\ lines'[n] = lines[n]
         /\ writeHeader[r] /\ ~torn => \E n \in DOMAIN lines' : lines'[n] = Header
<1>1. /\ Text(r) \in Seq(Line) /\ Len(Text(r)) \in Nat /\ TypeOK
      /\ \A m \in 1..Len(Text(r)) :
           Text(r)[m] \in {Header, Garbled} \/ (m = Len(Text(r)) /\ Text(r)[m] = r)
      /\ writeHeader[r] => Len(Text(r)) = 2 /\ Text(r)[1] = Header
  BY TextLines DEF RowsInv
<1>2. \A n \in DOMAIN lines : n \in DOMAIN lines' /\ lines'[n] = lines[n]
  BY <1>1, WritingKeepsRows DEF Write
<1>3. ASSUME writeHeader[r], ~torn PROVE \E n \in DOMAIN lines' : lines'[n] = Header
  <2>1. lines' = lines \o Text(r) /\ lines \in Seq(Line) /\ Len(lines) \in Nat
    BY <1>1, <1>3, LenProperties DEF Write, Appended, TypeOK, Line
  <2>2. /\ Len(lines') = Len(lines) + 2 /\ DOMAIN lines' = 1..Len(lines')
        /\ lines'[Len(lines) + 1] = Text(r)[Len(lines) + 1 - Len(lines)]
    <3>1. /\ lines' \in Seq(Line) /\ Len(lines') = Len(lines) + Len(Text(r))
          /\ \A n \in (Len(lines) + 1)..Len(lines') : lines'[n] = Text(r)[n - Len(lines)]
      BY <1>1, <2>1, Joined
    <3>2. Len(lines') = Len(lines) + 2
      BY <1>1, <1>3, <3>1
    <3>3. Len(lines) + 1 \in (Len(lines) + 1)..Len(lines')
      BY <2>1, <3>2
    <3> QED BY <3>1, <3>2, <3>3, LenProperties
  <2>3. Len(lines) + 1 \in DOMAIN lines' /\ lines'[Len(lines) + 1] = Header
    BY <1>1, <1>3, <2>1, <2>2
  <2> QED BY <2>3
<1> QED BY <1>2, <1>3

\* The first to open the file is one that found none.
LEMMA HeaderNext == HeaderInv /\ [Next]_vars => HeaderComes'
<1> SUFFICES ASSUME HeaderInv, [Next]_vars PROVE HeaderComes'
  OBVIOUS
<1> USE DEF HeaderComes, HeaderSurvives, Creators
<1>1. RowsInv /\ TypeOK /\ HeaderComes
  BY DEF HeaderInv, RowsInv
<1>2. ASSUME NEW r \in Runs, Check(r) PROVE HeaderComes'
  BY <1>1, <1>2 DEF Check, TypeOK
<1>3. ASSUME NEW r \in Runs, Open(r) PROVE HeaderComes'
  BY <1>1, <1>3 DEF Open, TypeOK, marks
<1>4. ASSUME NEW r \in Runs, Write(r) PROVE HeaderComes'
  <2>1. \A n \in DOMAIN lines : n \in DOMAIN lines' /\ lines'[n] = lines[n]
    BY <1>1, <1>4, LinesStay
  <2>2. ASSUME writeHeader[r], short = 0
        PROVE  \E n \in DOMAIN lines' : lines'[n] = Header
    <3>1. Gone \in SUBSET Runs
      BY DEF Gone
    <3>2. ~torn
      BY <1>1, <2>2, <3>1, OneMore DEF RowsInv, LossesArePaid
    <3> QED BY <1>1, <1>4, <2>2, <3>2, LinesStay
  <2>3. /\ UNCHANGED <<writeHeader, exists, creatorKilled, short>>
        /\ pc[r] = "write" /\ pc' = [pc EXCEPT ![r] = "close"]
    BY <1>4 DEF Write, marks
  <2>4. ~exists => \A s \in Runs : pc'[s] = "open" => writeHeader[s]
    BY <1>1, <2>3 DEF TypeOK
  <2>5. ASSUME exists, ~creatorKilled, short = 0, \A n \in DOMAIN lines' : lines'[n] # Header
        PROVE  \E s \in Creators : pc'[s] = "write"
    <3>1. ~writeHeader[r] /\ \A n \in DOMAIN lines : lines[n] # Header
      BY <2>1, <2>2, <2>5
    <3>2. PICK s \in Creators : pc[s] = "write"
      BY <1>1, <2>5, <3>1
    <3>3. s # r /\ s \in Runs
      BY <3>1, <3>2
    <3> QED BY <2>3, <3>2, <3>3 DEF TypeOK
  <2>6. ASSUME NEW s \in Creators, pc'[s] = "write" PROVE s \in Creators'
    BY <2>3, <2>6
  <2> QED BY <2>3, <2>4, <2>5, <2>6
<1>5. ASSUME NEW r \in Runs, WriteShort(r) PROVE HeaderComes'
  BY <1>1, <1>5 DEF WriteShort, TypeOK, marks
<1>6. ASSUME NEW r \in Runs, Close(r) \/ Kill(r) PROVE HeaderComes'
  BY <1>1, <1>6 DEF Close, Kill, TypeOK, marks
<1>7. CASE UNCHANGED vars
  BY <1>1, <1>7 DEF vars, marks
<1> QED BY <1>2, <1>3, <1>4, <1>5, <1>6, <1>7 DEF Next, Run

-----------------------------------------------------------------------------
\* The inductive invariant of the rows holds for any number of processes.
THEOREM RowsInvariance == Spec => []RowsInv
  BY RowsInit, RowsNext, PTL DEF Spec

\* Every variable keeps its type.
THEOREM TypeCorrect == Spec => []TypeOK
<1>1. RowsInv => TypeOK
  BY DEF RowsInv
<1> QED BY <1>1, RowsInvariance, PTL

\* A row that the command called saved is in the log, once, whatever other processes
\* do meanwhile; a full disk costs at most two rows each time (the append functions,
\* which look at the result of neither fprintf nor fclose).
THEOREM RowsSurvive == Spec => []SavedRowsSurvive
<1>1. RowsInv => SavedRowsSurvive
  <2> SUFFICES ASSUME RowsInv PROVE SavedRowsSurvive
    OBVIOUS
  <2>1. Missing \subseteq Gone
    <3> SUFFICES ASSUME NEW r \in Runs, pc[r] = "saved", NEW n \in DOMAIN lines, lines[n] = r
                 PROVE  Cardinality(Places(r)) = 1
      BY DEF Missing, Gone
    <3>1. Places(r) = {n}
      BY DEF Places, RowsInv, RowsAreDistinct
    <3> QED BY <3>1, FS_Singleton
  <2>2. /\ Cardinality(Missing) <= Cardinality(Gone)
        /\ Cardinality(Missing) \in Nat /\ Cardinality(Gone) \in Nat
    <3>1. Missing \in SUBSET Runs /\ Gone \in SUBSET Runs
      BY DEF Missing, Gone
    <3> QED BY <2>1, <3>1, OneMore
  <2> QED BY <2>2 DEF RowsInv, LossesArePaid, TypeOK, SavedRowsSurvive
<1> QED BY <1>1, RowsInvariance, PTL

\* A log that was created undisturbed is a table for ever, for any number of
\* processes that append to it at once or are killed (file_exists before fopen).
THEOREM LogReadable == Spec => []LogStaysReadable
<1>1. Init => TableInv
  <2>1. Init => OneCreator
    BY DEF Init, OneCreator, Creators
  <2> QED BY <2>1, RowsInit DEF TableInv
<1>2. TableInv => LogStaysReadable
  BY DEF TableInv, OneCreator, LogStaysReadable, Readable
<1> QED BY <1>1, <1>2, TableNext, PTL DEF Spec

\* Any number of runs may overlap while the log is created: the header is not lost
\* unless one of them is killed with it or the disk is full.
THEOREM HeaderKept == Spec => []HeaderSurvives
<1>1. Init => HeaderInv
  BY RowsInit DEF Init, HeaderInv, HeaderComes, HeaderSurvives
<1>2. HeaderInv /\ [Next]_vars => HeaderInv'
  BY RowsNext, HeaderNext DEF HeaderInv
<1>3. HeaderInv => HeaderSurvives
  BY DEF HeaderInv, HeaderComes
<1> QED BY <1>1, <1>2, <1>3, PTL DEF Spec
=============================================================================
