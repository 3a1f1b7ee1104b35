----------------------------- MODULE RowBuffer -----------------------------
(***************************************************************************)
(* The sizes of _dynpointers[0]: how much sqlite3_exec_callback2 asks for, *)
(* how much new_dynp provides and how much is then written, in bytes.      *)
(*                                                                         *)
(* Lengths are small numbers standing for any; DefaultSize stands for      *)
(* DYNPOINTER_DEFAULT_SIZE and IndexSpace for the 2^64 values of           *)
(* _execRowIndex.  One thread at a time writes (OneHandler of Bridge).     *)
(***************************************************************************)
EXTENDS Integers, Sequences, SequencesExt, FiniteSetsExt

CONSTANTS DefaultSize,    \* bytes of the buffer to begin with
          IndexSpace,     \* number of values of _execRowIndex
          MaxIndex,       \* bound: the index of the last row of a query
          NameLengths,    \* bytes a column name can take
          ValueLengths,   \* bytes a value can take
          MaxColumns,     \* bound: columns of a row
          MessageLengths  \* bytes an exception message can take

ASSUME RowBufferAssumption ==
    /\ DefaultSize \in Nat \ {0}
    /\ MaxIndex \in Nat /\ IndexSpace \in Nat
    /\ IndexSpace > MaxIndex + 1 /\ IndexSpace > 100
    /\ NameLengths \cup MessageLengths \subseteq Nat
    /\ ValueLengths \subseteq 0 .. IndexSpace
    /\ MaxColumns \in Nat

VARIABLES size,      \* _dynpointers[0].size, the bytes allocated
          granted,   \* did the last new_dynp provide what was asked for?
          rowIndex,  \* _execRowIndex
          written,   \* the bytes the last writer put there, NUL included
          writer     \* "idle", "exec", "row" or "exception"

vars == <<size, granted, rowIndex, written, writer>>

\* The decimal digits of n.
sizeOfInteger[n \in 0 .. IndexSpace] ==
    IF n < 10 THEN 1 ELSE 1 + sizeOfInteger[n \div 10]

Columns == [name : NameLengths, value : ValueLengths]

\* name=size:value,
ColumnLength(c) == c.name + 1 + sizeOfInteger[c.value] + 1 + c.value + 1
ColumnsLength(cs) == FoldLeft(LAMBDA n, c : n + ColumnLength(c), 0, cs)

\* Mutant: the space of the index is left out.
RowLengthNoIndex(index, cs) == 1 + ColumnsLength(cs)

\* Mutant: the commas are left out.
RowLengthNoCommas(index, cs) ==
    sizeOfInteger[index] + 1 + ColumnsLength(cs) - Len(cs)

\* What the callback asks for: measured with the index of the row before.
RowLength(index, cs) == sizeOfInteger[index] + 1 + ColumnsLength(cs)

\* What it writes: the new index, a comma, the columns, a newline and NUL.
RowWritten(index, cs) == sizeOfInteger[index] + 1 + ColumnsLength(cs) + 1 + 1

Init == /\ size = DefaultSize
        /\ granted = TRUE
        /\ rowIndex = 0
        /\ written = 0
        /\ writer = "idle"

\* Mutant: the buffer follows every request, smaller ones too.
NewDynpExact(request) == size' = request /\ granted' = TRUE

\* new_dynp: grow, never shrink; after a failed realloc the old block stays.
NewDynp(request) ==
    \/ size' = Max({size, request}) /\ granted' = TRUE
    \/ request > size /\ granted' = FALSE /\ UNCHANGED size

\* sqlite3_exec_wrapper sets the index to -1, the largest unsigned value.
ExecStart == /\ rowIndex' = IndexSpace - 1
             /\ written' = 0
             /\ writer' = "exec"
             /\ UNCHANGED <<size, granted>>

\* sqlite3_exec_callback2: measure, allocate, then write with strcat, which
\* does not look at the size.
WriteRow(cs) ==
    /\ writer \in {"exec", "row"}
    /\ rowIndex # MaxIndex
    /\ NewDynp(RowLength(rowIndex, cs))
    /\ rowIndex' = (rowIndex + 1) % IndexSpace
    /\ written' = RowWritten(rowIndex', cs)
    /\ writer' = "row"

\* mountException: "Exception:" and the message, cut off by snprintf.
WriteException(length) ==
    /\ NewDynp(10 + length + 1)
    /\ written' = Min({size', 10 + length + 1})
    /\ writer' = "exception"
    /\ UNCHANGED rowIndex

Next == \/ ExecStart
        \/ \E cs \in BoundedSeq(Columns, MaxColumns) : WriteRow(cs)
        \/ \E length \in MessageLengths : WriteException(length)

Spec == Init /\ [][Next]_vars

-----------------------------------------------------------------------------
(* Properties.                                                             *)

\* Type invariant; the buffer never shrinks below its first size.
TypeOK == /\ size \in Nat /\ size >= DefaultSize
          /\ granted \in BOOLEAN
          /\ rowIndex \in 0 .. IndexSpace - 1
          /\ written \in Nat
          /\ writer \in {"idle", "exec", "row", "exception"}

\* The index takes a digit more than the one before it (9 to 10).
GainsDigit(index) ==
    index > 0 /\ sizeOfInteger[index] > sizeOfInteger[index - 1]

(* The measure of a row, taken with the index of the row before, is short  *)
(* by at most the newline and the NUL, and by one byte more only in a row  *)
(* whose index gains a digit.  (When realloc fails nothing bounds it.)     *)
ShortByThree ==
    granted => written <= size + (IF GainsDigit(rowIndex) THEN 3 ELSE 2)

(* The first row of a query always fits: the index is measured while it is *)
(* -1, the number with the most digits, which leaves more room than the    *)
(* newline and the NUL take.                                               *)
FirstRowFits == granted /\ writer = "row" /\ rowIndex = 0 => written <= size
=============================================================================
