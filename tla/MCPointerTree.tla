----------------------------- MODULE MCPointerTree -----------------------------
(* Instances of PointerTree for TLC. *)
EXTENDS PointerTree

Value(t, at) == [kind |-> "value", type |-> t, offset |-> at]
Pointer(t, at) == [kind |-> "pointer", type |-> t, offset |-> at]
Plain(t) == [kind |-> "plain", type |-> t]

\* data1 to data4 are those of test/pros/test_read.cpp, in words of 8 bytes (the
\* offsets of data4 from 0).  twins leads to one type twice; wide has more
\* fields two levels down than at the top, and holds a plain struct; its leaf, which
\* nobody validates, begins with plain members; top leads to a struct and to a
\* scalar, four regions where the arrays have three places.
MCStruct == [
    data1 |-> <<Pointer("float", 1), Pointer("data2", 3), Plain("float")>>,
    data2 |-> <<Plain("float"), Pointer("data3", 1)>>,
    data3 |-> <<Pointer("data4", 0), Value("int", 2)>>,
    data4 |-> <<Value("int", 0), Value("int", 1)>>,
    twins |-> <<Pointer("data4", 0), Pointer("data4", 1), Value("int", 2)>>,
    wide |-> <<Pointer("middle", 0), Plain("pair")>>,
    middle |-> <<Value("int", 0), Pointer("leaf", 1)>>,
    leaf |-> <<Plain("int"), Plain("pair"), Plain("int"), Value("int", 4)>>,
    top |-> <<Pointer("three", 0), Pointer("float", 1)>>,
    three |-> <<Value("int", 0), Value("int", 1), Value("int", 2)>>]
MCSize == [float |-> 1, int |-> 1, pair |-> 2]

\* A cell holds its own address plus 100 unless it holds a pointer; the cells
\* below 10 cannot be read.
MCCells == 10 .. 29
HeapOf(ptrs) == [a \in MCCells |-> IF a \in DOMAIN ptrs THEN ptrs[a] ELSE a + 100]
\* data1's tree goes on through 13, then 15 or 19, then 22; that of wide through
\* 10, then 15 or 19; twins has its pointers in 10 and 11.
MCMemories == {HeapOf([a \in {10, 11, 13, 15, 19, 22} |->
                 CASE a \in {10, 13} -> x [] a = 11 -> y [] a \in {15, 19} -> z [] a = 22 -> 26])
               : x \in {14, 18}, y \in {18, Null}, z \in {22, Null}}
MCHot == {11, 13, 15}
MCHotValues == {14, 18, 22}
================================================================================
