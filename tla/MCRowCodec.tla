----------------------------- MODULE MCRowCodec -----------------------------
EXTENDS RowCodec

\* Short names and values of every unit that matters, and values of ten units,
\* whose size takes two digits.
MCUnits == {"a", "=", ":", ",", "2", "e'"}
MCNames == BoundedSeq({"a", "=", ":", ","}, 1)
MCValues == BoundedSeq({"=", ",", "2", "e'", ":"}, 2)
                \cup {[k \in 1 .. 10 |-> "2"], [k \in 1 .. 10 |-> IF k = 7 THEN "e'" ELSE ","]}
=============================================================================
