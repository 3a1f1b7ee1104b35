------------------------------ MODULE RowCodec ------------------------------
(***************************************************************************)
(* The text of a row: sqlite3_exec_callback2 writes                        *)
(*                                                                         *)
(*     <index>,<name>=<size>:<value>,<name>=<size>:<value>,...\n           *)
(*                                                                         *)
(* in UTF-8, and parseExecRow (sqlite3_core.dart) takes it apart as a      *)
(* string of UTF-16 units.  A text is a sequence of such units; what the   *)
(* format tells apart is kept: the separators, digits, plain characters,   *)
(* and "e'", a unit that takes two bytes.                                  *)
(***************************************************************************)
EXTENDS Integers, Sequences, SequencesExt, FiniteSetsExt

CONSTANTS Units,       \* the units names and values are made of
          Names,       \* names a column can have
          Values,      \* values a column can have
          Indexes,     \* indexes a row can have
          MaxColumns   \* bound: columns of a row

ASSUME RowCodecAssumption ==
    /\ Names \subseteq Seq(Units) /\ Values \subseteq Seq(Units)
    /\ Indexes \subseteq Nat /\ MaxColumns \in Nat

VARIABLES rowIndex,    \* _execRowIndex
          columns,     \* the row as SQLite passes it to the callback
          execRow,     \* the text posted
          rowId,       \* parseExecRow: the index read
          startIndex,  \* parseExecRow: where the next column starts
          row,         \* parseExecRow: the columns added so far
          status       \* "parsing", "returned" or "threw"

vars == <<rowIndex, columns, execRow, rowId, startIndex, row, status>>

Columns == [name : Names, value : Values]

-----------------------------------------------------------------------------
(* The writer.                                                             *)

\* strlen of the text in UTF-8.
StrLen(text) == FoldLeft(LAMBDA n, c : n + (IF c = "e'" THEN 2 ELSE 1), 0, text)

Digits == <<"0", "1", "2", "3", "4", "5", "6", "7", "8", "9">>

\* snprintf of an unsigned number.
Decimal[n \in Nat] == IF n < 10 THEN <<Digits[n + 1]>>
                      ELSE Append(Decimal[n \div 10], Digits[(n % 10) + 1])

\* Mutant: the size is the number of UTF-16 units.
EncodeColumnUnits(c) ==
    c.name \o <<"=">> \o Decimal[Len(c.value)] \o <<":">> \o c.value \o <<",">>

EncodeColumn(c) ==
    c.name \o <<"=">> \o Decimal[StrLen(c.value)] \o <<":">> \o c.value \o <<",">>

Encode(index, cs) ==
    Decimal[index] \o <<",">>
        \o FlattenSeq([k \in 1 .. Len(cs) |-> EncodeColumn(cs[k])]) \o <<"\n">>

-----------------------------------------------------------------------------
(* The reader.  Positions count from 0.                                    *)

\* String.indexOf, -1 if there is none.
IndexOf(text, c, from) ==
    LET found == {i \in from .. Len(text) - 1 : text[i + 1] = c}
    IN IF found = {} THEN -1 ELSE Min(found)

\* String.substring throws RangeError outside these limits.
InRange(text, from, to) == 0 <= from /\ from <= to /\ to <= Len(text)
Substring(text, from, to) == SubSeq(text, from + 1, to)

\* int.parse throws FormatException on a text that is no number.  It also takes
\* signs, blanks and 0x; they can stand where a size is read only in or after a
\* column that is read wrong.
IsInt(text) == text # <<>> /\ \A k \in 1 .. Len(text) : Contains(Digits, text[k])
ParseInt(text) ==
    FoldLeft(LAMBDA n, c : 10 * n + (CHOOSE d \in 0 .. 9 : Digits[d + 1] = c),
             0, text)

\* The parser has read the index; isEmptyOrNull does not hold of a row.
Init == /\ rowIndex \in Indexes
        /\ columns \in BoundedSeq(Columns, MaxColumns) \ {<<>>}
        /\ execRow = Encode(rowIndex, columns)
        /\ startIndex = IndexOf(execRow, ",", 0) + 1
        /\ rowId = ParseInt(Substring(execRow, 0, IndexOf(execRow, ",", 0)))
        /\ row = <<>>
        /\ status = "parsing"

EqualIndex == IndexOf(execRow, "=", startIndex)
DotIndex == IndexOf(execRow, ":", EqualIndex)
SizeText == Substring(execRow, EqualIndex + 1, DotIndex)
ValueIndex == DotIndex + 1

\* Does the next column parse without an exception?
Parses == /\ EqualIndex # -1
          /\ InRange(execRow, startIndex, EqualIndex)
          /\ InRange(execRow, EqualIndex + 1, DotIndex)
          /\ IsInt(SizeText)
          /\ InRange(execRow, ValueIndex, ValueIndex + ParseInt(SizeText))

\* The loop condition: more than the newline is left.
MoreText == startIndex < Len(execRow) - 1

\* Mutant: the position is not moved past the column.
ParseColumnStays ==
    /\ status = "parsing"
    /\ MoreText
    /\ Parses
    /\ row' = Append(row,
           [name |-> Substring(execRow, startIndex, EqualIndex),
            value |-> Substring(execRow, ValueIndex,
                                ValueIndex + ParseInt(SizeText))])
    /\ UNCHANGED <<rowIndex, columns, execRow, rowId, startIndex, status>>

\* Mutant: the separator is taken for two characters.
ParseColumnSkips ==
    /\ status = "parsing"
    /\ MoreText
    /\ Parses
    /\ LET size == ParseInt(SizeText) IN
       /\ row' = Append(row,
              [name |-> Substring(execRow, startIndex, EqualIndex),
               value |-> Substring(execRow, ValueIndex, ValueIndex + size)])
       /\ startIndex' = ValueIndex + size + 2
    /\ UNCHANGED <<rowIndex, columns, execRow, rowId, status>>

\* One turn of the loop: name, size and value, then past the separator.
ParseColumn ==
    /\ status = "parsing"
    /\ MoreText
    /\ Parses
    /\ LET size == ParseInt(SizeText) IN
       /\ row' = Append(row,
              [name |-> Substring(execRow, startIndex, EqualIndex),
               value |-> Substring(execRow, ValueIndex, ValueIndex + size)])
       /\ startIndex' = ValueIndex + size + 1
    /\ UNCHANGED <<rowIndex, columns, execRow, rowId, status>>

Throw == /\ status = "parsing"
         /\ MoreText
         /\ ~Parses
         /\ status' = "threw"
         /\ UNCHANGED <<rowIndex, columns, execRow, rowId, startIndex, row>>

Return == /\ status = "parsing"
          /\ ~MoreText
          /\ status' = "returned"
          /\ UNCHANGED <<rowIndex, columns, execRow, rowId, startIndex, row>>

Next == ParseColumn \/ Throw \/ Return

Spec == Init /\ [][Next]_vars

-----------------------------------------------------------------------------
(* Properties.                                                             *)

\* SqliteRow keeps the columns in a map: a later one of the same name wins.
ColumnOf(cs, name) ==
    LET at == {k \in 1 .. Len(cs) : cs[k].name = name}
    IN IF at = {} THEN "absent" ELSE cs[Max(at)].value

\* The row is read as it was written, and each column found by its name.
ReadBack == /\ status = "returned"
            /\ rowId = rowIndex
            /\ row = columns
            /\ \A k \in 1 .. Len(columns) :
                   ColumnOf(row, columns[k].name) = columns[k].value

\* What the format can carry, and the map keep.
CarriedColumn(c) == ~Contains(c.name, "=") /\ StrLen(c.value) = Len(c.value)
Carried(cs) ==
    /\ \A k \in 1 .. Len(cs) : CarriedColumn(cs[k])
    /\ \A j, k \in 1 .. Len(cs) :
           cs[j].name = cs[k].name => cs[j].value = cs[k].value

\* Type invariant of the parser; it never stands further than one past the
\* text.
TypeOK == /\ rowIndex \in Nat /\ rowId \in Nat
          /\ columns \in Seq(Columns)
          /\ startIndex \in 0 .. Len(execRow) + 1
          /\ status \in {"parsing", "returned", "threw"}

(* A row is read back exactly when no column name has an equals sign, no   *)
(* value a character outside ASCII, and no two columns share a name with   *)
(* different values: separators, digits and empty texts in values, and     *)
(* commas or colons in names, are safe, and every other row is altered or  *)
(* makes parseExecRow throw.                                               *)
ReadBackIffCarried == status # "parsing" => (ReadBack <=> Carried(columns))

(* parseExecRow cannot loop for ever: every turn of its loop moves on in   *)
(* the text or ends it.                                                    *)
ParserAdvances ==
    [][status = "parsing" => startIndex' > startIndex \/ status' # "parsing"]_vars
=============================================================================
