------------------------------- MODULE Buffers -------------------------------
(***************************************************************************)
(* The class Buffer of browser/vfs.js: the growable array in which the     *)
(* browser keeps a file.  The array never shrinks and is replaced by a     *)
(* longer one when it is too short; "size" says how much of it is the      *)
(* file.  A view of the array (subarray) stays on the array it was taken   *)
(* of.  The unit of the model, a cell, is a page of the database.          *)
(***************************************************************************)
EXTENDS Integers, Sequences

CONSTANTS
    MinGrow,    \* MIN_GROW_BYTES
    MaxGrow     \* MAX_GROW_BYTES

ASSUME GrowAssumption == MinGrow \in Nat \ {0} /\ MaxGrow \in Nat \ {0}

Smaller(a, b) == IF a <= b THEN a ELSE b
Larger(a, b) == IF a >= b THEN a ELSE b

Zero == 0
Cell == Nat
Buffer == [data : Seq(Cell), size : Nat]

\* new Buffer(data), of data that was loaded or of nothing
NewBuffer(data) == [data |-> data, size |-> Len(data)]

\* The length of the array once "capacity" cells fit: what is missing, but
\* at least the array's own length again within the two bounds.
Capacity(length, capacity) ==
    IF length >= capacity
    THEN length
    ELSE length + Larger(Smaller(MaxGrow, Larger(MinGrow, length)),
                         capacity - length)

\* Slip: the old array is not copied into the new one.
ReserveForgets(b, capacity) ==
    IF Len(b.data) >= capacity THEN b
    ELSE [b EXCEPT !.data = [i \in 1 .. Capacity(Len(b.data), capacity) |-> Zero]]

Reserve(b, capacity) ==
    [b EXCEPT !.data = [i \in 1 .. Capacity(Len(b.data), capacity) |->
                            IF i <= Len(b.data) THEN b.data[i] ELSE Zero]]

\* Slip: the file ends where the last write ended.
WriteEndsFile(b, offset, cells) ==
    LET end == offset + Len(cells)
        r   == Reserve(b, end)
    IN [data |-> [i \in 1 .. Len(r.data) |->
                      IF i > offset /\ i <= end THEN cells[i - offset] ELSE r.data[i]],
        size |-> end]

Write(b, offset, cells) ==
    LET end == offset + Len(cells)
        r   == Reserve(b, end)
    IN [data |-> [i \in 1 .. Len(r.data) |->
                      IF i > offset /\ i <= end THEN cells[i - offset] ELSE r.data[i]],
        size |-> Larger(b.size, end)]

\* Slip: the array is cut off as well.
TruncateCuts(b, size) == [data |-> SubSeq(b.data, 1, Smaller(size, Len(b.data))), size |-> size]

Truncate(b, size) == [b EXCEPT !.size = size]

\* subarray ends where the array ends
Read(b, offset, amount) ==
    IF offset >= b.size
    THEN <<>>
    ELSE SubSeq(b.data, offset + 1,
                Smaller(Len(b.data), Smaller(b.size, offset + amount)))

ToArray(b) == SubSeq(b.data, 1, Smaller(Len(b.data), b.size))
==============================================================================
