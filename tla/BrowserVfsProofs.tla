-------------------------- MODULE BrowserVfsProofs --------------------------
(***************************************************************************)
(* Proofs about the browser's file system: files of any length, arrays     *)
(* that grow by any amounts, any number of pages, calls, transactions,     *)
(* failed requests and reloads.                                            *)
(*                                                                         *)
(* First the operations on a Buffer.  Then the inductive invariant, in     *)
(* five parts, each of which uses those before it:                         *)
(*   Running   types; each request and result has one call that waits for  *)
(*             it; open() runs alone                                       *)
(*   JournalEnds   a put of a journal has its delete behind it             *)
(*   AllKnown  every file anywhere was committed or imported; a spilled    *)
(*             transaction is between its journal and what it writes       *)
(*   CaughtUp  the last put in the queue brings what is loaded             *)
(*   Aged      puts come in the order of the versions that they bring      *)
(* A write to the file changes the views that wait for put, and keeps      *)
(* everything else of the queue: that is what Kept and Grown are about.    *)
(***************************************************************************)
EXTENDS BrowserVfs, SequenceTheorems, BoundedInduction, TLAPS

USE GrowAssumption

-----------------------------------------------------------------------------
(* Operations on a Buffer                                                  *)

\* A file does not end behind its array.
Whole(b) == b \in Buffer /\ b.size <= Len(b.data)

LEMMA SmallerSecond ==
  ASSUME NEW a \in Nat, NEW m \in Nat, a >= m
  PROVE  Smaller(a, m) = m
  BY DEF Smaller

LEMMA Prefix ==
  ASSUME NEW S, NEW s \in Seq(S), NEW m \in Nat \ {0}, NEW n \in Nat, n <= Len(s), m <= n + 1
  PROVE  /\ SubSeq(s, m, n) \in Seq(S) /\ Len(SubSeq(s, m, n)) = n + 1 - m
         /\ \A i \in 1 .. n + 1 - m : SubSeq(s, m, n)[i] = s[m + i - 1]
  BY SubSeqProperties, ElementOfSeq

LEMMA CapacityFits ==
  ASSUME NEW length \in Nat, NEW capacity \in Nat
  PROVE  /\ Capacity(length, capacity) \in Nat
         /\ Capacity(length, capacity) >= length
         /\ Capacity(length, capacity) >= capacity
         /\ capacity > length => Capacity(length, capacity) > length
  BY DEF Capacity, Larger, Smaller

(* The array is replaced exactly if it is too short, by a longer one, and  *)
(* what it holds is copied (browser/vfs.js:43-55).                         *)
THEOREM ReserveKeeps ==
  ASSUME NEW b \in Buffer, NEW capacity \in Nat
  PROVE  LET r == Reserve(b, capacity)
         IN  /\ r \in Buffer /\ r.size = b.size
             /\ Len(r.data) >= capacity /\ Len(r.data) >= Len(b.data)
             /\ Len(r.data) = Len(b.data) <=> capacity <= Len(b.data)
             /\ \A i \in 1 .. Len(b.data) : r.data[i] = b.data[i]
<1> DEFINE n == Capacity(Len(b.data), capacity)
           d == [i \in 1 .. n |-> IF i <= Len(b.data) THEN b.data[i] ELSE Zero]
<1>1. b.data \in Seq(Cell) /\ b.size \in Nat /\ Len(b.data) \in Nat
  BY LenProperties DEF Buffer
<1>2. /\ n \in Nat /\ n >= Len(b.data) /\ n >= capacity
      /\ capacity > Len(b.data) => n > Len(b.data)
      /\ capacity <= Len(b.data) => n = Len(b.data)
  BY <1>1, CapacityFits DEF Capacity
<1> HIDE DEF n
<1>3. \A i \in 1 .. n : d[i] \in Cell
  BY <1>1, <1>2, ElementOfSeq DEF Cell, Zero
<1>4. d \in Seq(Cell) /\ Len(d) = n
  BY <1>2, <1>3, IsASeq, LenProperties
<1>5. Reserve(b, capacity) = [data |-> d, size |-> b.size]
  <2>1. Reserve(b, capacity) = [b EXCEPT !.data = d]
    BY DEF Reserve, n
  <2> HIDE DEF d
  <2> QED
    BY <2>1 DEF Buffer
<1> QED
  BY <1>1, <1>2, <1>4, <1>5 DEF Buffer

(* A write changes the cells it names and no others, and the file becomes  *)
(* as long as it must and no longer (browser/vfs.js:57-62).                *)
LEMMA WriteIs ==
  ASSUME NEW b \in Buffer, NEW offset \in Nat, NEW cells \in Seq(Cell)
  PROVE  LET w   == Write(b, offset, cells)
             end == offset + Len(cells)
         IN  /\ w \in Buffer /\ end \in Nat /\ end <= Len(w.data)
             /\ Len(w.data) >= Len(b.data)
             /\ w.size = Larger(b.size, end)
             /\ \A i \in 1 .. Len(cells) : w.data[offset + i] = cells[i]
             /\ \A i \in 1 .. Len(b.data) :
                   i <= offset \/ i > end => w.data[i] = b.data[i]
<1> DEFINE end == offset + Len(cells)
           r   == Reserve(b, end)
           n   == Len(r.data)
           d   == [i \in 1 .. n |-> IF i > offset /\ i <= end
                                    THEN cells[i - offset] ELSE r.data[i]]
<1>1. /\ Len(cells) \in Nat /\ end \in Nat /\ \A i \in 1 .. Len(cells) : cells[i] \in Cell
      /\ Len(b.data) \in Nat /\ b.size \in Nat
  BY LenProperties, ElementOfSeq DEF Buffer
<1>2. /\ r \in Buffer /\ n >= end /\ n >= Len(b.data)
      /\ \A i \in 1 .. Len(b.data) : r.data[i] = b.data[i]
  BY <1>1, ReserveKeeps
<1>3. Write(b, offset, cells) = [data |-> d, size |-> Larger(b.size, end)]
  BY DEF Write
<1> HIDE DEF r
<1>4. n \in Nat /\ \A i \in 1 .. n : r.data[i] \in Cell
  BY <1>2, LenProperties, ElementOfSeq DEF Buffer
<1> HIDE DEF n
<1>5. \A i \in 1 .. n : d[i] \in Cell
  BY <1>1, <1>4
<1>6. d \in Seq(Cell) /\ Len(d) = n
  BY <1>4, <1>5, IsASeq, LenProperties
<1>7. Larger(b.size, end) \in Nat
  BY <1>1 DEF Larger
<1>8. \A i \in 1 .. Len(cells) : d[offset + i] = cells[i]
  <2> SUFFICES ASSUME NEW i \in 1 .. Len(cells) PROVE d[offset + i] = cells[i]
    OBVIOUS
  <2>1. offset + i \in 1 .. n /\ offset + i > offset /\ offset + i <= end /\ offset + i - offset = i
    BY <1>1, <1>2, <1>4
  <2> QED
    BY <2>1
<1>9. \A i \in 1 .. Len(b.data) : i <= offset \/ i > end => d[i] = b.data[i]
  BY <1>1, <1>2, <1>4
<1> HIDE DEF d
<1> DEFINE w == [data |-> d, size |-> Larger(b.size, end)]
<1>10. w \in Buffer /\ w.data = d /\ w.size = Larger(b.size, end)
  BY <1>6, <1>7 DEF Buffer
<1> QED
  BY <1>1, <1>2, <1>3, <1>4, <1>6, <1>8, <1>9, <1>10

LEMMA ToArrayIs ==
  ASSUME NEW b, Whole(b)
  PROVE  /\ ToArray(b) \in Seq(Cell) /\ Len(ToArray(b)) = b.size /\ b.size \in Nat
         /\ \A i \in 1 .. b.size : ToArray(b)[i] = b.data[i]
<1>1. b.data \in Seq(Cell) /\ b.size \in Nat /\ b.size <= Len(b.data) /\ Len(b.data) \in Nat
  BY LenProperties DEF Whole, Buffer
<1>2. ToArray(b) = SubSeq(b.data, 1, b.size)
  BY <1>1 DEF ToArray, Smaller
<1> QED
  BY <1>1, <1>2, Prefix

(* js_read after js_write at the same place returns what was written.      *)
THEOREM WriteThenRead ==
  ASSUME NEW b \in Buffer, NEW offset \in Nat, NEW cells \in Seq(Cell), cells # <<>>
  PROVE  Read(Write(b, offset, cells), offset, Len(cells)) = cells
<1> DEFINE w == Write(b, offset, cells)
           n == Len(cells)
           seen == SubSeq(w.data, offset + 1, offset + n)
<1>1. n \in Nat \ {0} /\ b.size \in Nat
  BY LenProperties, EmptySeq DEF Buffer
<1>2. /\ w \in Buffer /\ offset + n <= Len(w.data) /\ w.size = Larger(b.size, offset + n)
      /\ \A i \in 1 .. n : w.data[offset + i] = cells[i]
  BY WriteIs
<1> HIDE DEF w, n
<1>3. w.data \in Seq(Cell) /\ Len(w.data) \in Nat
  BY <1>2, LenProperties DEF Buffer
<1>4. w.size \in Nat /\ w.size > offset /\ w.size >= offset + n
  BY <1>1, <1>2 DEF Larger
<1>5. Read(w, offset, n) = seen
  <2>1. Smaller(Len(w.data), Smaller(w.size, offset + n)) = offset + n
    <3>1. offset + n \in Nat /\ offset + n <= Len(w.data)
      BY <1>1, <1>2
    <3>2. Smaller(w.size, offset + n) = offset + n
      BY <1>4, <3>1, SmallerSecond
    <3> QED
      BY <1>3, <3>1, <3>2, SmallerSecond
  <2>2. ~(offset >= w.size)
    BY <1>4
  <2> QED
    BY <2>1, <2>2 DEF Read
<1>6. /\ seen \in Seq(Cell) /\ Len(seen) = n
      /\ \A i \in 1 .. n : seen[i] = w.data[offset + i]
  <2>1. /\ Len(seen) = (offset + n) + 1 - (offset + 1) /\ seen \in Seq(Cell)
        /\ \A i \in 1 .. (offset + n) + 1 - (offset + 1) : seen[i] = w.data[(offset + 1) + i - 1]
    BY <1>1, <1>2, <1>3, Prefix
  <2>2. (offset + n) + 1 - (offset + 1) = n
    BY <1>1
  <2>3. \A i \in 1 .. n : (offset + 1) + i - 1 = offset + i
    BY <1>1
  <2> QED
    BY <2>1, <2>2, <2>3
<1>7. \A i \in 1 .. n : seen[i] = cells[i]
  BY <1>2, <1>6
<1>8. seen = cells
  <2>1. Len(cells) = n
    BY DEF n
  <2> HIDE DEF seen
  <2> QED
    BY <1>1, <1>6, <1>7, <2>1, SeqEqual
<1> QED
  BY <1>5, <1>8 DEF w, n

(* A write that starts within the file or right behind it makes a file of  *)
(* nothing but what was written and what the file was: no cell that the    *)
(* array holds behind the end comes back (browser/vfs.js:57-70).           *)
THEOREM NothingStaleShows ==
  ASSUME NEW b, Whole(b), NEW offset \in 0 .. b.size, NEW cells \in Seq(Cell)
  PROVE  LET w == Write(b, offset, cells)
         IN  /\ Whole(w)
             /\ \A i \in 1 .. Len(ToArray(w)) :
                   ToArray(w)[i] = IF i > offset /\ i <= offset + Len(cells)
                                   THEN cells[i - offset] ELSE ToArray(b)[i]
<1> DEFINE w == Write(b, offset, cells)
           n == Len(cells)
<1>1. n \in Nat /\ b \in Buffer /\ b.size \in Nat /\ b.size <= Len(b.data)
      /\ offset \in Nat /\ offset <= b.size /\ Len(b.data) \in Nat
  BY LenProperties DEF Whole, Buffer
<1>2. /\ w \in Buffer /\ offset + n <= Len(w.data) /\ w.size = Larger(b.size, offset + n)
      /\ Len(w.data) >= Len(b.data)
      /\ \A i \in 1 .. n : w.data[offset + i] = cells[i]
      /\ \A i \in 1 .. Len(b.data) : i <= offset \/ i > offset + n => w.data[i] = b.data[i]
  BY <1>1, WriteIs
<1> HIDE DEF w, n
<1>3. Len(w.data) \in Nat
  BY <1>2, LenProperties DEF Buffer
<1>4. Whole(w) /\ w.size \in Nat
  BY <1>1, <1>2, <1>3 DEF Whole, Larger
<1>5. ASSUME NEW i \in 1 .. w.size
      PROVE  w.data[i] = IF i > offset /\ i <= offset + n THEN cells[i - offset]
                         ELSE ToArray(b)[i]
  <2>1. CASE i > offset /\ i <= offset + n
    <3>1. i - offset \in 1 .. n /\ offset + (i - offset) = i
      BY <1>1, <1>4, <2>1
    <3> QED
      BY <1>2, <2>1, <3>1
  <2>2. CASE ~(i > offset /\ i <= offset + n)
    <3>1. i \in 1 .. b.size /\ i \in 1 .. Len(b.data) /\ (i <= offset \/ i > offset + n)
      BY <1>1, <1>2, <1>4, <2>2 DEF Larger
    <3>2. ToArray(b)[i] = b.data[i]
      BY <3>1, ToArrayIs
    <3> QED
      BY <1>2, <2>2, <3>1, <3>2
  <2> QED
    BY <2>1, <2>2
<1>6. Len(ToArray(w)) = w.size /\ \A i \in 1 .. w.size : ToArray(w)[i] = w.data[i]
  BY <1>4, ToArrayIs
<1> QED
  BY <1>4, <1>5, <1>6 DEF w, n

-----------------------------------------------------------------------------
(* A file, the views of it that wait for put, and what a write to it keeps *)

USE CallAssumption

\* What a page holds
Versions == 0 .. MaxVersion

\* A file of the database: it does not end behind its array.
File == {b \in [data : Content, size : Nat] : b.size <= Len(b.data)}

\* Views are no longer than the array they were taken of.
Views(m) ==
    /\ m.buffer \in File /\ m.tasks \in Seq(RequestType)
    /\ \A i \in DOMAIN m.tasks : m.tasks[i].live => Len(m.tasks[i].bytes) <= Len(m.buffer.data)

\* What writing to the buffer leaves of a task
Kept(r, r2) ==
    /\ r2.op = r.op /\ r2.file = r.file /\ r2.by = r.by
    /\ r.live \/ r2 = r
    /\ r2.torn \/ (r2.bytes = r.bytes /\ r2.torn = r.torn)

\* The same of each task
KeptAll(s, s2) == Len(s2) = Len(s) /\ \A i \in 1 .. Len(s) : Kept(s[i], s2[i])

LEMMA SequenceOf ==
  ASSUME NEW S, NEW n \in Nat, NEW f, f = [i \in 1 .. n |-> f[i]], \A i \in 1 .. n : f[i] \in S
  PROVE  f \in Seq(S) /\ Len(f) = n
  BY IsASeq, LenProperties

LEMMA KeptAgain ==
  ASSUME NEW r, NEW r2 \in RequestType, NEW r3 \in RequestType, Kept(r, r2), Kept(r2, r3)
  PROVE  Kept(r, r3)
  BY DEF Kept, RequestType

LEMMA FileIs ==
  ASSUME NEW b \in File
  PROVE  /\ b \in Buffer /\ Whole(b) /\ b.data \in Content /\ b.size \in Nat
         /\ Len(b.data) \in Nat /\ b.size <= Len(b.data)
         /\ \A i \in 1 .. Len(b.data) : b.data[i] \in Versions
<1>1. b.data \in Content /\ b.size \in Nat /\ b.size <= Len(b.data)
      /\ b = [data |-> b.data, size |-> b.size]
  BY DEF File
<1>2. Len(b.data) \in Nat /\ \A i \in 1 .. Len(b.data) : b.data[i] \in Versions
  BY <1>1, LenProperties, ElementOfSeq DEF Content, Versions
<1>3. b.data = [i \in 1 .. Len(b.data) |-> b.data[i]]
  BY <1>1, LenProperties DEF Content
<1>4. \A i \in 1 .. Len(b.data) : b.data[i] \in Cell
  BY <1>2 DEF Versions, Cell
<1>5. b.data \in Seq(Cell)
  BY <1>2, <1>3, <1>4, IsASeq
<1> QED
  BY <1>1, <1>2, <1>5 DEF Whole, Buffer

LEMMA WriteFileIs ==
  ASSUME NEW b \in File, NEW offset \in Nat, NEW cells \in Content
  PROVE  LET w   == Write(b, offset, cells)
             end == offset + Len(cells)
         IN  /\ w \in File /\ end \in Nat /\ Len(cells) \in Nat
             /\ Len(w.data) >= Len(b.data) /\ Len(w.data) >= end
             /\ w.size = Larger(b.size, end)
             /\ \A i \in 1 .. Len(cells) : w.data[offset + i] = cells[i]
             /\ \A i \in 1 .. Len(b.data) :
                   i <= offset \/ i > end => w.data[i] = b.data[i]
<1> DEFINE w   == Write(b, offset, cells)
           end == offset + Len(cells)
           r   == Reserve(b, end)
<1>1. b \in Buffer /\ b.size \in Nat /\ Len(b.data) \in Nat /\ b.size <= Len(b.data)
      /\ \A i \in 1 .. Len(b.data) : b.data[i] \in Versions
  BY FileIs
<1>2. /\ Len(cells) \in Nat /\ end \in Nat /\ \A i \in 1 .. Len(cells) : cells[i] \in Versions
      /\ cells = [i \in 1 .. Len(cells) |-> cells[i]]
  BY LenProperties, ElementOfSeq DEF Content, Versions
<1>3. cells \in Seq(Cell)
  <2>1. \A i \in 1 .. Len(cells) : cells[i] \in Cell
    BY <1>2 DEF Versions, Cell
  <2> QED
    BY <1>2, <2>1, IsASeq
<1>4. /\ w \in Buffer /\ end \in Nat /\ end <= Len(w.data)
      /\ Len(w.data) >= Len(b.data)
      /\ w.size = Larger(b.size, end)
      /\ \A i \in 1 .. Len(cells) : w.data[offset + i] = cells[i]
      /\ \A i \in 1 .. Len(b.data) : i <= offset \/ i > end => w.data[i] = b.data[i]
  BY <1>1, <1>3, WriteIs
<1>5. w.data = [i \in 1 .. Len(r.data) |-> IF i > offset /\ i <= end THEN cells[i - offset]
                                            ELSE r.data[i]]
  BY DEF Write
<1>6. r.data = [i \in 1 .. Capacity(Len(b.data), end) |->
                            IF i <= Len(b.data) THEN b.data[i] ELSE Zero]
  <2>1. b = [data |-> b.data, size |-> b.size]
    BY <1>1 DEF Buffer
  <2> QED
    BY <2>1 DEF Reserve
<1>7. Capacity(Len(b.data), end) \in Nat
  BY <1>1, <1>2, CapacityFits
<1>8. Len(r.data) \in Nat /\ \A i \in 1 .. Len(r.data) : r.data[i] \in Versions
  <2> DEFINE n == Capacity(Len(b.data), end)
  <2> HIDE DEF n, r
  <2>1. \A i \in 1 .. n : r.data[i] \in Versions
    BY <1>1, <1>6, <1>7 DEF n, Versions, Zero
  <2>2. Len(r.data) = n
    BY <1>6, <1>7, LenProperties DEF n
  <2> QED
    BY <1>7, <2>1, <2>2 DEF n
<1> HIDE DEF w, r
<1>9. \A i \in 1 .. Len(r.data) : w.data[i] \in Versions
  <2> SUFFICES ASSUME NEW i \in 1 .. Len(r.data) PROVE w.data[i] \in Versions
    OBVIOUS
  <2>1. CASE i > offset /\ i <= end
    <3>1. i - offset \in 1 .. Len(cells)
      BY <1>2, <1>8, <2>1
    <3>2. w.data[i] = cells[i - offset]
      BY <1>5, <2>1
    <3> QED
      BY <1>2, <3>1, <3>2
  <2>2. CASE ~(i > offset /\ i <= end)
    BY <1>5, <1>8, <2>2
  <2> QED
    BY <2>1, <2>2
<1>10. w.data \in Content
  <2>1. Len(w.data) = Len(r.data)
    BY <1>5, <1>8, LenProperties
  <2>2. w.data = [i \in 1 .. Len(w.data) |-> w.data[i]]
    BY <1>4, LenProperties DEF Buffer
  <2> DEFINE n == Len(w.data)
  <2> HIDE DEF n
  <2>3. n \in Nat /\ w.data = [i \in 1 .. n |-> w.data[i]] /\ \A i \in 1 .. n : w.data[i] \in Versions
    BY <1>8, <1>9, <2>1, <2>2 DEF n
  <2>4. w.data \in Seq(Versions)
    BY <2>3, SequenceOf
  <2> QED
    BY <2>4 DEF Content, Versions
<1>11. w \in File
  <2>1. w.size \in Nat /\ w.size <= Len(w.data)
    BY <1>1, <1>2, <1>4, LenProperties DEF Larger, Buffer
  <2>2. w = [data |-> w.data, size |-> w.size]
    BY <1>4 DEF Buffer
  <2> QED
    BY <1>10, <2>1, <2>2 DEF File
<1>12. Len(w.data) \in Nat
  BY <1>10, LenProperties DEF Content
<1> QED
  BY <1>1, <1>2, <1>4, <1>11, <1>12 DEF w

LEMMA ReviewIs ==
  ASSUME NEW b \in File, NEW b2 \in File, NEW task \in RequestType,
         Len(b2.data) >= Len(b.data),
         task.live => Len(task.bytes) <= Len(b.data)
  PROVE  LET t == Review(task, b, b2)
         IN  /\ t \in RequestType /\ Kept(task, t)
             /\ t.live => Len(t.bytes) <= Len(b2.data)
<1> DEFINE n == Len(task.bytes)
           seen == SubSeq(b2.data, 1, n)
<1>1. task.bytes \in Content /\ n \in Nat
  BY LenProperties DEF RequestType, Content
<1>2. Len(b.data) \in Nat /\ Len(b2.data) \in Nat /\ b2.data \in Content
  BY FileIs
<1>3. CASE ~task.live
  BY <1>3 DEF Review, Kept
<1>4. CASE task.live /\ Len(b2.data) # Len(b.data)
  <2>1. Review(task, b, b2) = [task EXCEPT !.live = FALSE]
    BY <1>4 DEF Review
  <2> QED
    BY <1>4, <2>1 DEF Kept, RequestType
<1>5. CASE task.live /\ Len(b2.data) = Len(b.data)
  <2>1. seen \in Content /\ Len(seen) = n
    BY <1>1, <1>2, <1>5, Prefix DEF Content
  <2>2. Review(task, b, b2) = [task EXCEPT !.bytes = seen, !.torn = task.torn \/ seen # task.bytes]
    BY <1>5 DEF Review
  <2>3. Len(seen) <= Len(b2.data)
    BY <1>5, <2>1
  <2> HIDE DEF seen
  <2> DEFINE v == task.torn \/ seen # task.bytes
  <2>4. v \in BOOLEAN /\ (v \/ (seen = task.bytes /\ v = task.torn))
    <3>1. task.torn \in BOOLEAN
      BY DEF RequestType
    <3> QED
      BY <3>1
  <2>5. Review(task, b, b2) = [task EXCEPT !.bytes = seen, !.torn = v]
    BY <2>2
  <2> HIDE DEF v, n
  <2> QED
    BY <1>5, <2>1, <2>3, <2>4, <2>5 DEF Kept, RequestType
<1> QED
  BY <1>3, <1>4, <1>5

-----------------------------------------------------------------------------
(* Writing cells and pages                                                 *)

\* s is m after the cells were written at the offset.
Stored(m, s, offset, cells) ==
    LET b   == m.buffer
        end == offset + Len(cells)
    IN  /\ Views(s) /\ KeptAll(m.tasks, s.tasks)
        /\ s = [buffer |-> s.buffer, tasks |-> s.tasks]
        /\ s.buffer = Write(b, offset, cells)
        /\ Len(s.buffer.data) >= Len(b.data)
        /\ s.buffer.size = Larger(b.size, end)
        /\ \A i \in 1 .. Len(cells) : s.buffer.data[offset + i] = cells[i]
        /\ \A i \in 1 .. Len(b.data) :
              i <= offset \/ i > end => s.buffer.data[i] = b.data[i]

LEMMA StoreIs ==
  ASSUME NEW m, Views(m), NEW offset \in Nat, NEW cells \in Content
  PROVE  Stored(m, Store(m, offset, cells), offset, cells)
<1> DEFINE b == m.buffer
           w == Write(b, offset, cells)
           n == Len(m.tasks)
           t == [i \in 1 .. n |-> Review(m.tasks[i], b, w)]
<1>1. b \in File /\ m.tasks \in Seq(RequestType) /\ n \in Nat /\ DOMAIN m.tasks = 1 .. n
      /\ \A i \in 1 .. n : /\ m.tasks[i] \in RequestType
                           /\ m.tasks[i].live => Len(m.tasks[i].bytes) <= Len(b.data)
  BY LenProperties, ElementOfSeq DEF Views
<1> HIDE DEF b, n
<1>2. /\ w \in File
      /\ Len(w.data) >= Len(b.data) /\ w.size = Larger(b.size, offset + Len(cells))
      /\ \A i \in 1 .. Len(cells) : w.data[offset + i] = cells[i]
      /\ \A i \in 1 .. Len(b.data) :
            i <= offset \/ i > offset + Len(cells) => w.data[i] = b.data[i]
  BY <1>1, WriteFileIs
<1>3. Store(m, offset, cells) = [buffer |-> w, tasks |-> t]
  BY <1>1 DEF Store, b, n
<1> HIDE DEF w, n, b
<1>4. \A i \in 1 .. n : /\ t[i] \in RequestType /\ Kept(m.tasks[i], t[i])
                        /\ t[i].live => Len(t[i].bytes) <= Len(w.data)
  BY <1>1, <1>2, ReviewIs
<1>5. t \in Seq(RequestType) /\ Len(t) = n
  <2>1. t = [i \in 1 .. n |-> t[i]]
    OBVIOUS
  <2> HIDE DEF t
  <2> QED
    BY <1>1, <1>4, <2>1, SequenceOf
<1> HIDE DEF t
<1>6. DOMAIN t = 1 .. n
  BY <1>5, LenProperties
<1>7. Views([buffer |-> w, tasks |-> t])
  BY <1>2, <1>4, <1>5, <1>6 DEF Views
<1>8. KeptAll(m.tasks, t)
  BY <1>4, <1>5 DEF KeptAll, n
<1> QED
  <2> DEFINE s == [buffer |-> w, tasks |-> t]
  <2>1. s.buffer = w /\ s.tasks = t
    OBVIOUS
  <2> HIDE DEF s
  <2>2. Stored(m, s, offset, cells)
    BY <1>2, <1>7, <1>8, <2>1 DEF w, b, s, Stored
  <2> QED
    BY <1>3, <2>2 DEF s

LEMMA KeptAllAgain ==
  ASSUME NEW s, NEW s2 \in Seq(RequestType), NEW s3 \in Seq(RequestType),
         KeptAll(s, s2), KeptAll(s2, s3)
  PROVE  KeptAll(s, s3)
<1>1. \A i \in 1 .. Len(s) : s2[i] \in RequestType /\ s3[i] \in RequestType
  BY ElementOfSeq DEF KeptAll
<1> QED
  BY <1>1, KeptAgain DEF KeptAll

LEMMA KeptSelf ==
  ASSUME NEW s
  PROVE  KeptAll(s, s)
  BY DEF KeptAll, Kept

\* s is m after the pages were written with their content.
Wrote(m, s, pages, content) ==
    /\ Views(s) /\ s = [buffer |-> s.buffer, tasks |-> s.tasks]
    /\ KeptAll(m.tasks, s.tasks)
    /\ s.buffer.size >= m.buffer.size
    /\ Len(s.buffer.data) >= Len(m.buffer.data)
    /\ (\A p \in pages : p <= m.buffer.size) => s.buffer.size = m.buffer.size
    /\ \A p \in pages : p <= s.buffer.size /\ s.buffer.data[p] = content[p]
    /\ \A i \in 1 .. m.buffer.size : i \notin pages => s.buffer.data[i] = m.buffer.data[i]

LEMMA WroteNone ==
  ASSUME NEW m, Views(m), m = [buffer |-> m.buffer, tasks |-> m.tasks], NEW content
  PROVE  Wrote(m, m, {}, content)
<1>1. m.buffer.size \in Nat /\ Len(m.buffer.data) \in Nat
  BY FileIs DEF Views
<1> QED
  BY <1>1, KeptSelf DEF Wrote

LEMMA WroteOne ==
  ASSUME NEW m, Views(m), NEW s, NEW pages \in SUBSET (Nat \ {0}), NEW content,
         Wrote(m, s, pages, content),
         NEW p \in Nat \ {0}, p \notin pages, content[p] \in Versions
  PROVE  Wrote(m, Store(s, p - 1, <<content[p]>>), pages \cup {p}, content)
<1> DEFINE cells == <<content[p]>>
           u == Store(s, p - 1, cells)
           b == s.buffer
           e == u.buffer
           o == m.buffer
<1>1. cells \in Content /\ Len(cells) = 1 /\ cells[1] = content[p]
  BY DEF Content, Versions
<1>2. p - 1 \in Nat /\ p - 1 + 1 = p /\ p \in Nat /\ p >= 1
  OBVIOUS
<1>3. Views(s)
  BY DEF Wrote
<1> HIDE DEF cells
<1>0. u = Store(s, p - 1, cells) /\ b = s.buffer /\ e = u.buffer
  OBVIOUS
<1> HIDE DEF u, b, o, e
<1>4. /\ Views(u) /\ KeptAll(s.tasks, u.tasks) /\ u = [buffer |-> u.buffer, tasks |-> u.tasks]
      /\ Len(e.data) >= Len(b.data)
      /\ e.size = Larger(b.size, p - 1 + Len(cells))
      /\ \A i \in 1 .. Len(cells) : e.data[p - 1 + i] = cells[i]
      /\ \A i \in 1 .. Len(b.data) :
            i <= p - 1 \/ i > p - 1 + Len(cells) => e.data[i] = b.data[i]
  <2> DEFINE k == p - 1
  <2>1. k \in Nat
    BY <1>2
  <2> HIDE DEF k
  <2>2. u = Store(s, k, cells)
    BY <1>0 DEF k
  <2>3. Stored(s, u, k, cells)
    BY <1>1, <1>3, <2>1, <2>2, StoreIs
  <2> QED
    BY <1>0, <2>3 DEF k, Stored
<1>5. /\ e.size = Larger(b.size, p)
      /\ e.data[p] = content[p]
      /\ \A i \in 1 .. Len(b.data) : i <= p - 1 \/ i > p => e.data[i] = b.data[i]
  <2>1. 1 \in 1 .. Len(cells)
    BY <1>1
  <2> QED
    BY <1>1, <1>2, <1>4, <2>1
<1>6. /\ b \in File /\ e \in File /\ o \in File
      /\ m.tasks \in Seq(RequestType) /\ s.tasks \in Seq(RequestType) /\ u.tasks \in Seq(RequestType)
  BY <1>0, <1>3, <1>4 DEF Views, b, o
<1>7. /\ b.size \in Nat /\ e.size \in Nat /\ o.size \in Nat
      /\ Len(b.data) \in Nat /\ Len(e.data) \in Nat /\ Len(o.data) \in Nat
      /\ b.size <= Len(b.data) /\ o.size <= Len(o.data)
  BY <1>6, FileIs
<1>8. KeptAll(m.tasks, u.tasks)
  BY <1>4, <1>6, KeptAllAgain DEF Wrote
<1>9. /\ b.size >= o.size /\ Len(b.data) >= Len(o.data)
      /\ (\A q \in pages : q <= o.size) => b.size = o.size
      /\ \A q \in pages : q <= b.size /\ b.data[q] = content[q]
      /\ \A i \in 1 .. o.size : i \notin pages => b.data[i] = o.data[i]
  BY DEF Wrote, b, o
<1>10. e.size >= o.size /\ Len(e.data) >= Len(o.data) /\ e.size >= b.size /\ e.size >= p
  <2>1. Len(e.data) >= Len(b.data)
    BY <1>4
  <2> QED
    BY <1>2, <1>5, <1>7, <1>9, <2>1 DEF Larger
<1>11. ASSUME \A q \in pages \cup {p} : q <= o.size PROVE e.size = o.size
  BY <1>2, <1>5, <1>7, <1>9, <1>11 DEF Larger
<1>12. ASSUME NEW q \in pages \cup {p} PROVE q <= e.size /\ e.data[q] = content[q]
  <2>1. CASE q = p
    BY <1>5, <1>10, <2>1
  <2>2. CASE q # p
    <3>1. q \in pages /\ q \in Nat \ {0}
      BY <2>2
    <3>2. q <= b.size /\ b.data[q] = content[q]
      BY <1>9, <3>1
    <3>3. q \in 1 .. Len(b.data) /\ (q <= p - 1 \/ q > p) /\ q <= e.size
      BY <1>2, <1>7, <1>10, <2>2, <3>1, <3>2
    <3> QED
      BY <1>5, <3>2, <3>3
  <2> QED
    BY <2>1, <2>2
<1>13. ASSUME NEW i \in 1 .. o.size, i \notin pages \cup {p} PROVE e.data[i] = o.data[i]
  <2>1. b.data[i] = o.data[i]
    BY <1>9, <1>13
  <2>2. i \in 1 .. Len(b.data) /\ (i <= p - 1 \/ i > p)
    BY <1>2, <1>7, <1>9, <1>13
  <2> QED
    BY <1>5, <2>1, <2>2
<1> QED
  BY <1>4, <1>8, <1>10, <1>11, <1>12, <1>13 DEF Wrote, e, o, u, cells

-----------------------------------------------------------------------------
(* Truncating                                                              *)

\* h[p] is m after the pages up to p were written.
PageByPage(m, pages, content, h) ==
    /\ h[0] = m
    /\ \A p \in 1 .. MaxPages :
          h[p] = IF p \in pages THEN Store(h[p - 1], p - 1, <<content[p]>>) ELSE h[p - 1]

LEMMA StorePagesSteps ==
  ASSUME NEW m, Views(m), m = [buffer |-> m.buffer, tasks |-> m.tasks],
         NEW pages \in SUBSET Pages, NEW content,
         \A p \in pages : content[p] \in Versions
  PROVE  \E h : PageByPage(m, pages, content, h) /\ StorePages(m, pages, content) = h[MaxPages]
<1> DEFINE V == {v \in [buffer : File, tasks : Seq(RequestType)] : Views(v)}
           D == 0 .. MaxPages
           After(v, p) == IF p \in pages THEN Store(v, p - 1, <<content[p]>>) ELSE v
           Eq(f) == f = [p \in D |-> IF p = 0 THEN m
                                     ELSE IF p \in pages THEN Store(f[p - 1], p - 1, <<content[p]>>)
                                          ELSE f[p - 1]]
           Step == [p \in 1 .. MaxPages |-> [v \in V |-> After(v, p)]]
<1>1. m \in V
  BY DEF Views
<1>2. ASSUME NEW v \in V, NEW p \in 1 .. MaxPages PROVE After(v, p) \in V
  <2>1. CASE p \notin pages
    BY <2>1
  <2>2. CASE p \in pages
    <3>1. <<content[p]>> \in Content
      BY <2>2 DEF Content, Versions
    <3>2. p - 1 \in Nat
      OBVIOUS
    <3>3. Stored(v, Store(v, p - 1, <<content[p]>>), p - 1, <<content[p]>>)
      BY <3>1, <3>2, StoreIs
    <3> QED
      BY <2>2, <3>3 DEF Stored, Views
  <2> QED
    BY <2>1, <2>2
<1> HIDE DEF V, After
<1>3. Steps(MaxPages, V, m, Step)
  BY <1>1, <1>2 DEF Steps
<1>4. PICK f : Follows(f, MaxPages, V, m, Step)
  <2> HIDE DEF Step
  <2> QED
    BY <1>3, Recursion
<1>5. Eq(f)
  <2>1. f \in [D -> V] /\ f[0] = m /\ \A p \in 1 .. MaxPages : f[p] = Step[p][f[p - 1]]
    BY <1>4 DEF Follows
  <2>2. \A p \in 1 .. MaxPages : f[p - 1] \in V /\ Step[p][f[p - 1]] = After(f[p - 1], p)
    BY <2>1
  <2>3. \A p \in D : f[p] = IF p = 0 THEN m
                            ELSE IF p \in pages THEN Store(f[p - 1], p - 1, <<content[p]>>)
                                 ELSE f[p - 1]
    <3> HIDE DEF Step
    <3> SUFFICES ASSUME NEW p \in D
                 PROVE  f[p] = IF p = 0 THEN m
                               ELSE IF p \in pages THEN Store(f[p - 1], p - 1, <<content[p]>>)
                                    ELSE f[p - 1]
      OBVIOUS
    <3>1. CASE p = 0
      BY <2>1, <3>1
    <3>2. CASE p # 0
      <4>1. p \in 1 .. MaxPages
        BY <3>2
      <4>2. f[p] = After(f[p - 1], p)
        BY <2>1, <2>2, <4>1
      <4> QED
        BY <3>2, <4>2 DEF After
    <3> QED
      BY <3>1, <3>2
  <2>4. f = [p \in D |-> f[p]]
    BY <2>1
  <2> QED
    BY <2>3, <2>4
<1> DEFINE h == CHOOSE g : Eq(g)
<1>6. StorePages(m, pages, content) = h[MaxPages]
  BY Zenon DEF StorePages
<1>7. Eq(h)
  <2> HIDE DEF Eq
  <2> QED
    BY <1>5
<1> HIDE DEF h
<1>8. h[0] = m /\ \A p \in 1 .. MaxPages :
         h[p] = IF p \in pages THEN Store(h[p - 1], p - 1, <<content[p]>>) ELSE h[p - 1]
  <2>1. \A p \in D : h[p] = IF p = 0 THEN m
                            ELSE IF p \in pages THEN Store(h[p - 1], p - 1, <<content[p]>>)
                                 ELSE h[p - 1]
    BY <1>7
  <2>2. 0 \in D /\ \A p \in 1 .. MaxPages : p \in D /\ p # 0
    OBVIOUS
  <2> QED
    BY <2>1, <2>2
<1> QED
  BY <1>6, <1>8 DEF PageByPage

LEMMA StorePagesIs ==
  ASSUME NEW m, Views(m), m = [buffer |-> m.buffer, tasks |-> m.tasks],
         NEW pages \in SUBSET Pages, NEW content,
         \A p \in pages : content[p] \in Versions
  PROVE  Wrote(m, StorePages(m, pages, content), pages, content)
<1> DEFINE D == 0 .. MaxPages
<1>0. PICK h : PageByPage(m, pages, content, h) /\ StorePages(m, pages, content) = h[MaxPages]
  BY StorePagesSteps
<1>1. /\ StorePages(m, pages, content) = h[MaxPages] /\ h[0] = m
      /\ \A p \in 1 .. MaxPages :
            h[p] = IF p \in pages THEN Store(h[p - 1], p - 1, <<content[p]>>) ELSE h[p - 1]
  BY <1>0 DEF PageByPage
<1> DEFINE Upto(p) == pages \cap 1 .. p
           S == {p \in D : Wrote(m, h[p], Upto(p), content)}
<1>2. 0 \in S
  <2>1. Upto(0) = {}
    OBVIOUS
  <2>2. Wrote(m, m, {}, content)
    BY WroteNone
  <2> HIDE DEF Upto
  <2> QED
    BY <1>1, <2>1, <2>2
<1>3. ASSUME NEW k \in 1 .. MaxPages, k - 1 \in S PROVE k \in S
  <2> DEFINE g == h[k - 1]
             qs == Upto(k - 1)
  <2>1. Wrote(m, g, qs, content)
    BY <1>3
  <2>2. CASE k \notin pages
    <3>1. Upto(k) = qs
      BY <2>2
    <3>2. h[k] = g
      BY <1>1, <2>2
    <3> HIDE DEF g, qs, Upto
    <3>3. Wrote(m, h[k], Upto(k), content)
      BY <2>1, <3>1, <3>2
    <3> QED
      BY <3>3
  <2>3. CASE k \in pages
    <3>1. /\ Upto(k) = qs \cup {k} /\ k \notin qs /\ qs \in SUBSET (Nat \ {0})
          /\ k \in Nat \ {0} /\ content[k] \in Versions
      BY <2>3 DEF Pages
    <3>2. h[k] = Store(g, k - 1, <<content[k]>>)
      BY <1>1, <2>3
    <3> HIDE DEF g, qs, Upto
    <3>3. Wrote(m, h[k], qs \cup {k}, content)
      BY <2>1, <3>1, <3>2, WroteOne
    <3> QED
      BY <3>1, <3>3
  <2> QED
    BY <2>2, <2>3
<1>4. MaxPages \in S
  <2> HIDE DEF S
  <2>1. 0 .. MaxPages \subseteq S
    BY <1>2, <1>3, Induction
  <2> QED
    BY <2>1
<1>5. Upto(MaxPages) = pages
  BY DEF Pages
<1> QED
  BY <1>1, <1>4, <1>5

LEMMA PagerTruncateIs ==
  ASSUME NEW m, Views(m), m = [buffer |-> m.buffer, tasks |-> m.tasks], NEW n \in Nat
  PROVE  LET t == PagerTruncate(m, n)
         IN  /\ Views(t) /\ KeptAll(m.tasks, t.tasks)
             /\ t = [buffer |-> t.buffer, tasks |-> t.tasks]
             /\ m.buffer.size >= n =>
                   /\ t.tasks = m.tasks
                   /\ t.buffer.data = m.buffer.data /\ t.buffer.size = n
<1> DEFINE b == m.buffer
           t == PagerTruncate(m, n)
<1>1. b \in File /\ m.tasks \in Seq(RequestType)
  BY DEF Views
<1>2. b.data \in Content /\ b.size \in Nat /\ Len(b.data) \in Nat /\ b.size <= Len(b.data)
      /\ b = [data |-> b.data, size |-> b.size]
  BY <1>1, FileIs DEF File
<1>3. CASE b.size > n
  <2> DEFINE c == [data |-> b.data, size |-> n]
  <2>1. Truncate(b, n) = c
    BY <1>2 DEF Truncate
  <2>2. c \in File /\ c.data = b.data /\ c.size = n
    BY <1>2, <1>3 DEF File
  <2>3. t = [buffer |-> c, tasks |-> m.tasks]
    BY <1>3, <2>1 DEF PagerTruncate
  <2> HIDE DEF c, b
  <2>4. t.buffer = c /\ t.tasks = m.tasks
    BY <2>3
  <2> HIDE DEF t
  <2> QED
    BY <2>2, <2>3, <2>4, KeptSelf DEF Views, b, t
<1>4. CASE b.size = n
  BY <1>2, <1>4, KeptSelf DEF PagerTruncate
<1>5. CASE b.size < n
  <2> DEFINE k == n - 1
  <2>1. <<Zero>> \in Content
    BY DEF Content, Zero
  <2>2. k \in Nat
    BY <1>2, <1>5
  <2>3. t = Store(m, k, <<Zero>>)
    BY <1>2, <1>5 DEF PagerTruncate
  <2> HIDE DEF k, t
  <2>4. Stored(m, t, k, <<Zero>>)
    BY <2>1, <2>2, <2>3, StoreIs
  <2>5. ~(b.size >= n)
    BY <1>2, <1>5
  <2> HIDE DEF b
  <2> QED
    BY <2>4, <2>5 DEF Stored, t, b
<1> QED
  BY <1>2, <1>3, <1>4, <1>5

-----------------------------------------------------------------------------
(* Types: the state that is not a file                                     *)

\* A transaction and a result, as TypeOK has them
TxnType == [version : 0 .. MaxVersion, before : Content, wrote : SUBSET Pages]
EventType == [by : Calls, bytes : Content \cup {NoFile}, ok : BOOLEAN, torn : BOOLEAN]

\* A loaded file does not end behind its array, and only a loaded file has views.
Fits ==
    /\ loaded # NoFile => loaded \in File
    /\ \A i \in DOMAIN tasks : tasks[i].live => loaded # NoFile

\* What the VFS calls of a statement change
Machine == [buffer |-> loaded, tasks |-> tasks]

LEMMA ContentIs ==
  ASSUME NEW c \in Content
  PROVE  /\ c # NoFile /\ c \in Seq(Cell) /\ Len(c) \in Nat /\ DOMAIN c = 1 .. Len(c)
         /\ \A i \in 1 .. Len(c) : c[i] \in Versions
<1>1. /\ Len(c) \in Nat /\ DOMAIN c = 1 .. Len(c) /\ c = [i \in 1 .. Len(c) |-> c[i]]
      /\ \A i \in 1 .. Len(c) : c[i] \in Versions
  BY LenProperties, ElementOfSeq DEF Content, Versions
<1>2. \A i \in 1 .. Len(c) : c[i] \in Cell
  BY <1>1 DEF Versions, Cell
<1> DEFINE n == Len(c)
<1>3. n \in Nat /\ c = [i \in 1 .. n |-> c[i]] /\ \A i \in 1 .. n : c[i] \in Cell
  BY <1>1, <1>2
<1> HIDE DEF n
<1>4. c \in Seq(Cell)
  BY <1>3, SequenceOf
<1>5. c # NoFile
  BY <1>4, NoFileAssumption DEF Cell
<1> QED
  BY <1>1, <1>4, <1>5

LEMMA FileExists ==
  ASSUME NEW b \in File
  PROVE  b # NoFile
  BY FileIs, NoFileAssumption

LEMMA TxnExists ==
  ASSUME NEW t \in TxnType
  PROVE  t # NoFile
<1>1. t.before \in Seq(Nat) /\ t.version \in Nat /\ t.wrote \in SUBSET Nat
      /\ t = [version |-> t.version, before |-> t.before, wrote |-> t.wrote]
  BY ContentIs DEF TxnType, Pages, Cell
<1>2. t \in [version : Nat, before : Seq(Nat), wrote : SUBSET Nat]
  BY <1>1
<1> QED
  BY <1>2, NoFileAssumption

LEMMA NewFileIs ==
  ASSUME NEW c \in Content
  PROVE  NewBuffer(c) \in File /\ NewBuffer(c).data = c /\ NewBuffer(c).size = Len(c)
  BY ContentIs DEF NewBuffer, File

LEMMA FileShows ==
  ASSUME NEW b \in File
  PROVE  /\ ToArray(b) \in Content /\ Len(ToArray(b)) = b.size /\ b.size \in Nat
         /\ \A i \in 1 .. b.size : ToArray(b)[i] = b.data[i]
<1>1. /\ Len(ToArray(b)) = b.size /\ b.size \in Nat /\ b.size <= Len(b.data)
      /\ ToArray(b) \in Seq(Cell) /\ Len(b.data) \in Nat
      /\ \A i \in 1 .. b.size : ToArray(b)[i] = b.data[i]
      /\ \A i \in 1 .. Len(b.data) : b.data[i] \in Versions
  BY FileIs, ToArrayIs
<1> DEFINE n == b.size
           c == ToArray(b)
<1>2. c = [i \in 1 .. n |-> c[i]] /\ n \in Nat
  BY <1>1, LenProperties
<1>3. \A i \in 1 .. n : c[i] \in Versions
  BY <1>1
<1> HIDE DEF n, c
<1>4. c \in Seq(Versions)
  BY <1>2, <1>3, SequenceOf
<1> QED
  BY <1>1, <1>4 DEF c, Content, Versions

LEMMA RequestIs ==
  ASSUME NEW op \in {"put", "delete", "get"}, NEW file \in {"database", "journal"},
         NEW bytes \in Content, NEW by \in Calls \cup {NoCall}, NEW live \in BOOLEAN
  PROVE  /\ Request(op, file, bytes, by, live) \in RequestType
         /\ Request(op, file, bytes, by, live).op = op
         /\ Request(op, file, bytes, by, live).file = file
         /\ Request(op, file, bytes, by, live).bytes = bytes
         /\ Request(op, file, bytes, by, live).by = by
         /\ Request(op, file, bytes, by, live).live = live
         /\ Request(op, file, bytes, by, live).torn = FALSE
  BY DEF Request, RequestType

LEMMA NoBytes == <<>> \in Content /\ Len(<<>>) = 0
  BY DEF Content

LEMMA JournalRequests ==
  /\ SyncJournal \in RequestType /\ ~SyncJournal.live
  /\ DeleteJournal \in RequestType /\ ~DeleteJournal.live
  /\ SyncJournal.op = "put" /\ SyncJournal.file = "journal" /\ SyncJournal.by = NoCall
  /\ DeleteJournal.op = "delete" /\ DeleteJournal.file = "journal" /\ DeleteJournal.by = NoCall
  BY NoBytes DEF SyncJournal, DeleteJournal, Request, RequestType

LEMMA SyncRequest ==
  ASSUME NEW b \in File
  PROVE  LET r == SyncDatabase(b)
         IN  /\ r \in RequestType /\ r.op = "put" /\ r.file = "database" /\ r.by = NoCall
             /\ r.bytes = ToArray(b) /\ Len(r.bytes) <= Len(b.data) /\ ~r.torn /\ r.live
<1>1. ToArray(b) \in Content /\ Len(ToArray(b)) <= Len(b.data)
  BY FileIs, FileShows
<1> QED
  BY <1>1 DEF SyncDatabase, Request, RequestType

LEMMA AppendIs ==
  ASSUME NEW S, NEW s \in Seq(S), NEW x \in S
  PROVE  /\ Append(s, x) \in Seq(S) /\ Len(Append(s, x)) = Len(s) + 1 /\ Len(s) \in Nat
         /\ DOMAIN Append(s, x) = 1 .. Len(s) + 1 /\ DOMAIN s = 1 .. Len(s)
         /\ \A i \in 1 .. Len(s) : Append(s, x)[i] = s[i] /\ s[i] \in S
         /\ Append(s, x)[Len(s) + 1] = x
  BY LenProperties, ElementOfSeq, AppendProperties

LEMMA TailIs ==
  ASSUME NEW S, NEW s \in Seq(S), s # <<>>
  PROVE  /\ Tail(s) \in Seq(S) /\ Len(s) \in Nat \ {0} /\ Len(Tail(s)) = Len(s) - 1
         /\ DOMAIN Tail(s) = 1 .. Len(s) - 1 /\ DOMAIN s = 1 .. Len(s)
         /\ \A i \in 1 .. Len(s) - 1 : Tail(s)[i] = s[i + 1]
         /\ Head(s) = s[1] /\ Head(s) \in S
<1>1. Len(s) \in Nat \ {0} /\ Head(s) = s[1]
  BY EmptySeq, LenProperties
<1>2. s[1] \in S
  BY <1>1, ElementOfSeq
<1> QED
  BY <1>1, <1>2, HeadTailProperties, LenProperties

LEMMA ViewsAppend ==
  ASSUME NEW m, Views(m), NEW r \in RequestType, r.live => Len(r.bytes) <= Len(m.buffer.data)
  PROVE  Views([buffer |-> m.buffer, tasks |-> Append(m.tasks, r)])
<1> DEFINE q == Append(m.tasks, r)
           n == Len(m.tasks)
<1>1. /\ q \in Seq(RequestType) /\ n \in Nat /\ DOMAIN q = 1 .. n + 1
      /\ \A i \in 1 .. n : q[i] = m.tasks[i]
      /\ q[n + 1] = r
      /\ DOMAIN m.tasks = 1 .. n
  BY AppendIs DEF Views
<1> HIDE DEF q, n
<1>2. \A i \in 1 .. n + 1 : i = n + 1 \/ i \in 1 .. n
  BY <1>1
<1> QED
  BY <1>1, <1>2 DEF Views, q

LEMMA AppendTwo ==
  ASSUME NEW S, NEW s \in Seq(S), NEW x \in S, NEW y \in S
  PROVE  s \o <<x, y>> = Append(Append(s, x), y)
  OBVIOUS

-----------------------------------------------------------------------------
(* Types: each step keeps them                                             *)

\* All requests in the order IndexedDB will have them
Queue == requests \o tasks

\* The request or the result that a call waits for is the one it asked for.
AskedFor(r, cs, contents) ==
    r.by # NoCall =>
        /\ ~r.live
        /\ \/ /\ cs[r.by] = [op |-> "write", stage |-> "put"]
              /\ r.op = "put" /\ r.file = "database" /\ r.bytes \in contents /\ ~r.torn
           \/ /\ cs[r.by].op \in {"open", "read"} /\ cs[r.by].stage = "get"
              /\ r.op = "get"

\* So is the result that is on its way to it.
Answers(e, cs, contents) ==
    \/ /\ cs[e.by] = [op |-> "write", stage |-> "put"]
       /\ e.bytes \in contents /\ ~e.torn
    \/ cs[e.by].op \in {"open", "read"} /\ cs[e.by].stage = "get"

\* Nothing is on its way that no call waits for.
Waiting ==
    /\ \A i \in 1 .. Len(Queue) : AskedFor(Queue[i], calls, committed)
    /\ \A k \in 1 .. Len(events) : Answers(events[k], calls, committed)

\* A call waits for one thing.
Once ==
    /\ \A i, j \in 1 .. Len(Queue) : Queue[i].by # NoCall /\ Queue[i].by = Queue[j].by => i = j
    /\ \A k, l \in 1 .. Len(events) : events[k].by = events[l].by => k = l
    /\ \A i \in 1 .. Len(Queue), k \in 1 .. Len(events) : Queue[i].by # events[k].by

\* What typing rests on
Types == TypeOK /\ Fits

LEMMA Committed ==
  ASSUME TypeOK, NEW c \in committed
  PROVE  c \in Content
  BY DEF TypeOK

LEMMA MachineViews ==
  ASSUME Types, loaded # NoFile
  PROVE  Views(Machine) /\ loaded \in File /\ Machine.buffer = loaded /\ Machine.tasks = tasks
         /\ Machine = [buffer |-> Machine.buffer, tasks |-> Machine.tasks]
<1>1. loaded \in File /\ tasks \in Seq(RequestType)
      /\ \A i \in DOMAIN tasks : tasks[i].live => Len(tasks[i].bytes) <= Len(loaded.data)
  BY DEF Types, TypeOK, Fits
<1> QED
  BY <1>1 DEF Views, Machine

\* What TypeOK and Fits say of the machine
MachineOK(b, t) ==
    /\ b \in File \cup {NoFile} /\ t \in Seq(RequestType)
    /\ \A i \in DOMAIN t : t[i].live => b # NoFile /\ Len(t[i].bytes) <= Len(b.data)

LEMMA ViewsOK ==
  ASSUME NEW m, Views(m)
  PROVE  MachineOK(m.buffer, m.tasks) /\ m.buffer # NoFile
  BY FileExists DEF Views, MachineOK

\* What TypeOK says of everything else
RestOK ==
    /\ conn \in {"closed", "idle", "open", "spilled"}
    /\ txn \in TxnType \cup {NoFile}
    /\ requests \in Seq(RequestType)
    /\ events \in Seq(EventType)
    /\ stored \in Content \cup {NoFile} /\ storedJournal \in BOOLEAN
    /\ calls \in [Calls -> [op : {"none", "open", "read", "write"},
                            stage : {"none", "get", "loaded", "put", "over"}]]
    /\ version \in 0 .. MaxVersion /\ committed \subseteq Content
    /\ torn \in BOOLEAN /\ unsaved \in BOOLEAN /\ overlap \in BOOLEAN /\ damaged \in BOOLEAN
    /\ reloads \in Nat /\ fails \in Nat
    /\ conn # "closed" => loaded # NoFile
    /\ conn \in {"open", "spilled"} => txn # NoFile
    /\ conn \notin {"open", "spilled"} => txn = NoFile
    /\ \A i \in DOMAIN requests : ~requests[i].live

LEMMA TypesAre == Types <=> MachineOK(loaded, tasks) /\ RestOK
<1>1. loaded \in File => loaded \in [data : Content, size : Nat]
  BY DEF File
<1>2. Types => MachineOK(loaded, tasks)
  BY DEF Types, TypeOK, Fits, MachineOK
<1>3. Types => RestOK
  BY DEF Types, TypeOK, RestOK, TxnType, EventType
<1>4. MachineOK(loaded, tasks) /\ RestOK => Fits
  BY DEF MachineOK, RestOK, Fits
<1>5. MachineOK(loaded, tasks) /\ RestOK => TypeOK
  BY <1>1 DEF MachineOK, RestOK, TypeOK, TxnType, EventType
<1> QED
  BY <1>2, <1>3, <1>4, <1>5 DEF Types

LEMMA TypesNext == MachineOK(loaded', tasks') /\ RestOK' => Types'
<1>1. loaded' \in File => loaded' \in [data : Content, size : Nat]
  BY DEF File
<1>2. MachineOK(loaded', tasks') /\ RestOK' => Fits'
  BY DEF MachineOK, RestOK, Fits
<1>3. MachineOK(loaded', tasks') /\ RestOK' => TypeOK'
  BY <1>1 DEF MachineOK, RestOK, TypeOK, TxnType, EventType
<1> QED
  BY <1>2, <1>3 DEF Types

LEMMA OKAppend ==
  ASSUME NEW b, NEW t, MachineOK(b, t), NEW r \in RequestType, ~r.live
  PROVE  MachineOK(b, Append(t, r))
<1> DEFINE q == Append(t, r)
           n == Len(t)
<1>1. /\ q \in Seq(RequestType) /\ n \in Nat /\ DOMAIN q = 1 .. n + 1
      /\ \A i \in 1 .. n : q[i] = t[i]
      /\ q[n + 1] = r
      /\ DOMAIN t = 1 .. n
  BY AppendIs DEF MachineOK
<1> HIDE DEF q, n
<1>2. \A i \in 1 .. n + 1 : i = n + 1 \/ i \in 1 .. n
  BY <1>1
<1> QED
  BY <1>1, <1>2 DEF MachineOK, q

LEMMA OKTail ==
  ASSUME NEW b, NEW t, MachineOK(b, t), t # <<>>
  PROVE  MachineOK(b, Tail(t))
<1>1. /\ Tail(t) \in Seq(RequestType) /\ Len(t) \in Nat \ {0}
      /\ DOMAIN Tail(t) = 1 .. Len(t) - 1 /\ DOMAIN t = 1 .. Len(t)
      /\ \A i \in 1 .. Len(t) - 1 : Tail(t)[i] = t[i + 1]
  BY TailIs DEF MachineOK
<1> QED
  BY <1>1 DEF MachineOK

\* The database of an earlier session
Earlier == [p \in Pages |-> 1]

LEMMA EarlierIs ==
  Earlier \in Content /\ Earlier # <<>> /\ Len(Earlier) = MaxPages
  /\ \A p \in 1 .. MaxPages : Earlier[p] = 1
<1>1. MaxPages \in Nat \ {0} /\ 1 \in Versions
  BY CallAssumption DEF Versions
<1> DEFINE e == Earlier
<1>2. e = [p \in 1 .. MaxPages |-> e[p]] /\ \A p \in 1 .. MaxPages : e[p] = 1
  BY DEF Earlier, Pages
<1> HIDE DEF e
<1>3. e \in Seq(Versions) /\ Len(e) = MaxPages
  BY <1>1, <1>2, SequenceOf
<1>4. e # <<>>
  BY <1>1, <1>3
<1> QED
  BY <1>2, <1>3, <1>4 DEF e, Content, Versions

LEMMA InitTypes == Init => Types
<1> SUFFICES ASSUME Init PROVE Types
  OBVIOUS
<1>2. MachineOK(loaded, tasks)
  BY DEF Init, MachineOK
<1>3. calls \in [Calls -> [op : {"none", "open", "read", "write"},
                           stage : {"none", "get", "loaded", "put", "over"}]]
  BY DEF Init, Idle
<1>4. requests \in Seq(RequestType) /\ events \in Seq(EventType) /\ DOMAIN requests = {}
  BY DEF Init
<1>5. version \in 0 .. MaxVersion /\ reloads \in Nat /\ fails \in Nat
  BY CallAssumption DEF Init
<1>6. stored \in Content \cup {NoFile} /\ committed \subseteq Content
  BY EarlierIs DEF Init, Earlier
<1>7. /\ conn = "closed" /\ txn = NoFile /\ storedJournal = FALSE
      /\ torn = FALSE /\ unsaved = FALSE /\ overlap = FALSE /\ damaged = FALSE
  BY DEF Init
<1>8. RestOK
  BY <1>3, <1>4, <1>5, <1>6, <1>7, Zenon DEF RestOK
<1> QED
  BY <1>2, <1>8, TypesAre

-----------------------------------------------------------------------------
(* The API *)

LEMMA LoadFileTypes ==
  ASSUME Types, NEW c \in Calls, NEW op \in {"open", "read"}, LoadFile(c, op)
  PROVE  Types'
<1> DEFINE r == Request("get", "database", <<>>, c, FALSE)
<1>0. MachineOK(loaded, tasks) /\ RestOK
  BY TypesAre
<1>1. r \in RequestType /\ ~r.live
  BY RequestIs, NoBytes
<1> HIDE DEF r
<1>2. MachineOK(loaded', tasks')
  BY <1>0, <1>1, OKAppend DEF LoadFile, r
<1>3. RestOK'
  BY <1>0 DEF RestOK, LoadFile, storage
<1> QED
  BY <1>2, <1>3, TypesNext

LEMMA WriteFileTypes ==
  ASSUME Types, NEW c \in Calls, NEW n \in Pages, WriteFile(c, n)
  PROVE  Types'
<1> DEFINE d == [p \in 1 .. n |-> version + 1]
           r == Request("put", "database", d, c, FALSE)
<1>0. MachineOK(loaded, tasks) /\ RestOK
  BY TypesAre
<1>1. version + 1 \in Versions /\ n \in Nat
  BY <1>0 DEF RestOK, Versions, WriteFile, Pages
<1>2. d \in Content
  BY <1>1 DEF Content, Versions
<1>3. /\ tasks' = Append(tasks, r) /\ loaded' = loaded /\ committed' = committed \cup {d}
  BY DEF WriteFile
<1> HIDE DEF d
<1>4. r \in RequestType /\ ~r.live
  BY <1>2, RequestIs
<1> HIDE DEF r
<1>5. MachineOK(loaded', tasks')
  BY <1>0, <1>3, <1>4, OKAppend
<1>6. RestOK'
  BY <1>0, <1>1, <1>2, <1>3 DEF RestOK, WriteFile, storage, Versions
<1> QED
  BY <1>5, <1>6, TypesNext

LEMMA RunTaskTypes ==
  ASSUME Types, RunTask
  PROVE  Types'
<1> DEFINE r == [Head(tasks) EXCEPT !.live = FALSE]
<1>0. MachineOK(loaded, tasks) /\ RestOK
  BY TypesAre
<1>1. Head(tasks) \in RequestType
  BY <1>0, TailIs DEF RunTask, MachineOK
<1>2. r \in RequestType /\ ~r.live
  BY <1>1 DEF RequestType
<1>3. requests' = Append(requests, r)
  BY DEF RunTask
<1> HIDE DEF r
<1> DEFINE n == Len(requests)
           q == Append(requests, r)
<1>4. /\ q \in Seq(RequestType) /\ n \in Nat /\ DOMAIN q = 1 .. n + 1
      /\ DOMAIN requests = 1 .. n
      /\ \A i \in 1 .. n : q[i] = requests[i]
      /\ q[n + 1] = r
  BY <1>0, <1>2, AppendIs DEF RestOK
<1> HIDE DEF q, n
<1>5. \A i \in 1 .. n + 1 : i = n + 1 \/ i \in 1 .. n
  BY <1>4
<1>6. \A i \in DOMAIN q : ~q[i].live
  BY <1>0, <1>2, <1>4, <1>5 DEF RestOK
<1>7. MachineOK(loaded', tasks')
  BY <1>0, OKTail DEF RunTask
<1>8. RestOK'
  BY <1>0, <1>3, <1>4, <1>6 DEF RestOK, RunTask, storage, history, q
<1> QED
  BY <1>7, <1>8, TypesNext

LEMMA PopRequests ==
  ASSUME RestOK, requests # <<>>, requests' = Tail(requests)
  PROVE  /\ requests' \in Seq(RequestType) /\ \A i \in DOMAIN requests' : ~requests'[i].live
         /\ Head(requests) \in RequestType
<1>1. /\ requests' \in Seq(RequestType) /\ Len(requests) \in Nat \ {0}
      /\ DOMAIN requests' = 1 .. Len(requests) - 1 /\ DOMAIN requests = 1 .. Len(requests)
      /\ \A i \in 1 .. Len(requests) - 1 : requests'[i] = requests[i + 1]
      /\ Head(requests) \in RequestType
  BY TailIs DEF RestOK
<1> QED
  BY <1>1 DEF RestOK

LEMMA AnswerTypes ==
  ASSUME RestOK, NEW r \in RequestType, NEW bytes \in Content \cup {NoFile}, NEW ok \in BOOLEAN,
         Answer(r, bytes, ok)
  PROVE  events' \in Seq(EventType)
<1> DEFINE e == [by |-> r.by, bytes |-> bytes, ok |-> ok, torn |-> r.op = "get" /\ torn]
<1>0. events \in Seq(EventType) /\ torn \in BOOLEAN
  BY DEF RestOK
<1>1. CASE r.by = NoCall
  BY <1>0, <1>1 DEF Answer
<1>2. CASE r.by # NoCall
  <2>1. e \in EventType
    BY <1>0, <1>2 DEF EventType, RequestType
  <2>2. events' = Append(events, e)
    BY <1>2 DEF Answer
  <2> HIDE DEF e
  <2> QED
    BY <1>0, <2>1, <2>2, AppendIs
<1> QED
  BY <1>1, <1>2

LEMMA ServeTypes ==
  ASSUME Types, Serve
  PROVE  Types'
<1> DEFINE r == Head(requests)
<1>0. MachineOK(loaded, tasks) /\ RestOK
  BY TypesAre
<1>1. r \in RequestType /\ requests' \in Seq(RequestType) /\ \A i \in DOMAIN requests' : ~requests'[i].live
  BY <1>0, PopRequests DEF Serve
<1>2. r.bytes \in Content /\ r.torn \in BOOLEAN
  BY <1>1 DEF RequestType
<1>3. Answer(r, IF r.op = "get" THEN stored ELSE r.bytes, TRUE)
  BY DEF Serve
<1>4. /\ stored' = stored \/ stored' = r.bytes
      /\ storedJournal' = storedJournal \/ storedJournal' = (r.op = "put")
      /\ torn' = torn \/ torn' = r.torn
      /\ unsaved' = unsaved \/ unsaved' = FALSE
  BY DEF Serve, storage
<1>5. UNCHANGED <<loaded, conn, txn, tasks, calls, history, fails>>
  BY DEF Serve
<1> HIDE DEF r
<1>6. events' \in Seq(EventType)
  <2> DEFINE bytes == IF r.op = "get" THEN stored ELSE r.bytes
  <2>1. bytes \in Content \cup {NoFile}
    BY <1>0, <1>2 DEF RestOK
  <2>2. Answer(r, bytes, TRUE)
    BY <1>3
  <2> HIDE DEF bytes
  <2> QED
    BY <1>0, <1>1, <2>1, <2>2, AnswerTypes
<1>7. MachineOK(loaded', tasks')
  BY <1>0, <1>5
<1>8. storedJournal' \in BOOLEAN /\ torn' \in BOOLEAN /\ unsaved' \in BOOLEAN
      /\ stored' \in Content \cup {NoFile}
  BY <1>0, <1>2, <1>4 DEF RestOK
<1>9. RestOK'
  BY <1>0, <1>1, <1>5, <1>6, <1>8 DEF RestOK, history
<1> QED
  BY <1>7, <1>9, TypesNext

LEMMA RefuseTypes ==
  ASSUME Types, Refuse
  PROVE  Types'
<1> DEFINE r == Head(requests)
<1>0. MachineOK(loaded, tasks) /\ RestOK
  BY TypesAre
<1>1. r \in RequestType /\ requests' \in Seq(RequestType) /\ \A i \in DOMAIN requests' : ~requests'[i].live
  BY <1>0, PopRequests DEF Refuse
<1>2. r.bytes \in Content
  BY <1>1 DEF RequestType
<1>3. Answer(r, r.bytes, FALSE)
  BY DEF Refuse
<1>4. unsaved' = (unsaved \/ (r.op = "put" /\ r.file = "database" /\ r.by = NoCall))
      /\ fails' = fails + 1
  BY DEF Refuse
<1>5. UNCHANGED <<loaded, conn, txn, tasks, calls, storage, history>>
  BY DEF Refuse
<1> HIDE DEF r
<1>6. events' \in Seq(EventType)
  BY <1>0, <1>1, <1>2, <1>3, AnswerTypes
<1>7. MachineOK(loaded', tasks')
  BY <1>0, <1>5
<1>8. unsaved' \in BOOLEAN /\ fails' \in Nat
  BY <1>0, <1>4 DEF RestOK
<1>9. RestOK'
  BY <1>0, <1>1, <1>5, <1>6, <1>8 DEF RestOK, history, storage
<1> QED
  BY <1>7, <1>9, TypesNext

\* write() puts its bytes in the place of the file.
LEMMA OverwriteIs ==
  ASSUME Types, loaded # NoFile, NEW bytes \in Content
  PROVE  LET m == Store([buffer |-> Truncate(loaded, 0), tasks |-> tasks], 0, bytes)
         IN  /\ Views(m) /\ KeptAll(tasks, m.tasks)
             /\ m.buffer.size = Len(bytes)
             /\ \A i \in 1 .. Len(bytes) : m.buffer.data[i] = bytes[i]
<1> DEFINE b == Truncate(loaded, 0)
           v == [buffer |-> b, tasks |-> tasks]
           m == Store(v, 0, bytes)
<1>1. loaded \in File /\ Views(Machine)
  BY MachineViews
<1>2. b \in File /\ b.data = loaded.data /\ b.size = 0
  BY <1>1, FileIs DEF File, Truncate
<1>3. v.buffer = b /\ v.tasks = tasks
  OBVIOUS
<1> HIDE DEF b, v
<1>4. Views(v)
  BY <1>1, <1>2, <1>3 DEF Views, Machine
<1>5. Stored(v, m, 0, bytes)
  BY <1>4, StoreIs
<1>6. Len(bytes) \in Nat
  BY ContentIs
<1> HIDE DEF m
<1>7. /\ Views(m) /\ KeptAll(tasks, m.tasks)
      /\ m.buffer.size = Larger(0, 0 + Len(bytes))
      /\ \A i \in 1 .. Len(bytes) : m.buffer.data[0 + i] = bytes[i]
  BY <1>2, <1>3, <1>5 DEF Stored
<1>8. m.buffer.size = Len(bytes) /\ \A i \in 1 .. Len(bytes) : 0 + i = i
  BY <1>6, <1>7 DEF Larger
<1> QED
  BY <1>7, <1>8 DEF m, v, b

LEMMA ResumeTypes ==
  ASSUME Types, Waiting, Resume
  PROVE  Types'
<1> DEFINE e == Head(events)
<1>0. MachineOK(loaded, tasks) /\ RestOK
  BY TypesAre
<1>1. events' \in Seq(EventType) /\ e \in EventType /\ e = events[1] /\ Len(events) \in Nat \ {0}
  BY <1>0, TailIs DEF RestOK, Resume
<1>2. Answers(e, calls, committed)
  BY <1>1 DEF Waiting
<1>3. UNCHANGED <<conn, txn, requests, storage, version, committed, overlap, reloads,
                   unsaved, fails>>
  BY DEF Resume
<1>4. e.by \in Calls /\ calls[e.by] \in [op : {"none", "open", "read", "write"},
                            stage : {"none", "get", "loaded", "put", "over"}]
  BY <1>0, <1>1 DEF EventType, RestOK
<1>5. CASE Loaded(e)
  <2>1. /\ loaded' = IF loaded = NoFile /\ e.bytes # NoFile THEN NewBuffer(e.bytes) ELSE loaded
        /\ tasks' = tasks
    BY <1>5 DEF Loaded
  <2>2. MachineOK(loaded', tasks') /\ (loaded # NoFile => loaded' # NoFile)
    <3>1. CASE loaded = NoFile /\ e.bytes # NoFile
      <4>1. e.bytes \in Content
        BY <1>1, <3>1 DEF EventType
      <4> QED
        BY <1>0, <2>1, <3>1, <4>1, NewFileIs DEF MachineOK
    <3>2. CASE ~(loaded = NoFile /\ e.bytes # NoFile)
      BY <1>0, <2>1, <3>2
    <3> QED
      BY <3>1, <3>2
  <2>3. damaged' \in BOOLEAN
    BY <1>0, <1>1, <1>5 DEF Loaded, RestOK, EventType
  <2>4. calls' \in [Calls -> [op : {"none", "open", "read", "write"},
                              stage : {"none", "get", "loaded", "put", "over"}]]
    BY <1>0, <1>4, <1>5 DEF Loaded, RestOK
  <2>5. RestOK'
    BY <1>0, <1>1, <1>3, <2>2, <2>3, <2>4 DEF RestOK, storage
  <2> QED
    BY <2>2, <2>5, TypesNext
<1>6. CASE Written(e)
  <2>1. e.bytes \in Content
    BY <1>2, <1>6, Committed DEF Answers, Written, Types
  <2>2. MachineOK(loaded', tasks') /\ (loaded # NoFile => loaded' # NoFile)
    <3>1. CASE loaded = NoFile
      BY <1>0, <1>6, <3>1 DEF Written
    <3>2. CASE loaded # NoFile
      <4> DEFINE m == Store([buffer |-> Truncate(loaded, 0), tasks |-> tasks], 0, e.bytes)
      <4>1. loaded' = m.buffer /\ tasks' = m.tasks
        BY <1>6, <3>2 DEF Written
      <4>2. Views(m)
        BY <2>1, <3>2, OverwriteIs
      <4> HIDE DEF m
      <4> QED
        BY <4>1, <4>2, ViewsOK
    <3> QED
      BY <3>1, <3>2
  <2>3. damaged' \in BOOLEAN /\ calls' = [calls EXCEPT ![e.by] = Over]
    BY <1>0, <1>6 DEF Written, RestOK
  <2>4. calls' \in [Calls -> [op : {"none", "open", "read", "write"},
                              stage : {"none", "get", "loaded", "put", "over"}]]
    BY <1>0, <1>4, <2>3 DEF Over, RestOK
  <2>5. RestOK'
    BY <1>0, <1>1, <1>3, <2>2, <2>3, <2>4 DEF RestOK, storage
  <2> QED
    BY <2>2, <2>5, TypesNext
<1>7. CASE calls' = [calls EXCEPT ![e.by] = Over] /\ UNCHANGED <<loaded, tasks, damaged>>
  <2>1. MachineOK(loaded', tasks')
    BY <1>0, <1>7
  <2>2. calls' \in [Calls -> [op : {"none", "open", "read", "write"},
                              stage : {"none", "get", "loaded", "put", "over"}]]
    BY <1>0, <1>4, <1>7 DEF Over, RestOK
  <2>3. RestOK'
    BY <1>0, <1>1, <1>3, <1>7, <2>2 DEF RestOK, storage
  <2> QED
    BY <2>1, <2>3, TypesNext
<1> QED
  BY <1>5, <1>6, <1>7 DEF Resume

\* One open() at a time, and none beside a connection
Opening ==
    \A c \in Calls : calls[c].op = "open" =>
        conn = "closed" /\ \A d \in Calls : calls[d].op = "open" => d = c

LEMMA OpeningStep == Types /\ Opening /\ [Next]_vars => Opening'
<1> SUFFICES ASSUME Types, Opening, [Next]_vars PROVE Opening'
  OBVIOUS
<1>0. calls \in [Calls -> [op : {"none", "open", "read", "write"},
                           stage : {"none", "get", "loaded", "put", "over"}]]
      /\ events \in Seq(EventType)
  BY TypesAre DEF RestOK
<1>1. CASE UNCHANGED <<conn, calls>>
  BY <1>1 DEF Opening
<1>2. ASSUME NEW c \in Calls, NEW op \in {"open", "read"}, LoadFile(c, op) PROVE Opening'
  <2>1. /\ calls' = [calls EXCEPT ![c] = [op |-> op, stage |-> "get"]] /\ conn' = conn
        /\ op = "open" => conn = "closed" /\ \A d \in Calls : calls[d].op # "open"
    BY <1>2 DEF LoadFile, Pending
  <2> QED
    BY <1>0, <2>1 DEF Opening
<1>4. ASSUME NEW c \in Calls, NEW n \in Pages, WriteFile(c, n) PROVE Opening'
  BY <1>0, <1>4 DEF WriteFile, Opening
<1>5. ASSUME NEW c \in Calls, ReadReturns(c) PROVE Opening'
  BY <1>0, <1>5 DEF ReadReturns, Over, Opening
<1>6. ASSUME Resume PROVE Opening'
  <2> DEFINE e == Head(events)
  <2>1. e.by \in Calls
    <3>1. events # <<>>
      BY <1>6 DEF Resume
    <3>2. e \in EventType
      BY <1>0, <3>1, TailIs
    <3> QED
      BY <3>2 DEF EventType
  <2>2. conn' = conn
    BY <1>6 DEF Resume
  <2>3. calls' = [calls EXCEPT ![e.by].stage = "loaded"] \/ calls' = [calls EXCEPT ![e.by] = Over]
    BY <1>6 DEF Resume, Loaded, Written
  <2> HIDE DEF e
  <2>4. CASE calls' = [calls EXCEPT ![e.by].stage = "loaded"]
    <3>1. \A d \in Calls : calls'[d].op = calls[d].op
      BY <1>0, <2>1, <2>4
    <3> QED
      BY <2>2, <3>1 DEF Opening
  <2>5. CASE calls' = [calls EXCEPT ![e.by] = Over]
    <3>1. \A d \in Calls : calls'[d].op = "open" => calls[d].op = "open"
      BY <1>0, <2>1, <2>5 DEF Over
    <3> QED
      BY <2>2, <3>1 DEF Opening
  <2> QED
    BY <2>3, <2>4, <2>5
<1>7. ASSUME NEW c \in Calls, OpenDatabase(c) PROVE Opening'
  <2>1. calls[c].op = "open" /\ calls' = [calls EXCEPT ![c] = Over]
    BY <1>7 DEF OpenDatabase
  <2>2. \A d \in Calls : calls'[d].op # "open"
    BY <1>0, <2>1 DEF Opening, Over
  <2> QED
    BY <2>2 DEF Opening
<1>8. ASSUME conn \in {"idle", "open", "spilled"}, calls' = calls PROVE Opening'
  BY <1>8 DEF Opening
<1>9. ASSUME NEW pages, Spill(pages) PROVE Opening'
  BY <1>8, <1>9 DEF Spill, Starts
<1>10. ASSUME NEW n, NEW pages, Commit(n, pages) PROVE Opening'
  BY <1>8, <1>10 DEF Commit, Starts
<1>11. ASSUME Rollback PROVE Opening'
  BY <1>8, <1>11 DEF Rollback
<1>12. ASSUME CloseDatabase \/ Begin \/ EndTransaction PROVE Opening'
  BY <1>8, <1>12 DEF CloseDatabase, Begin, EndTransaction
<1>13. ASSUME Reload PROVE Opening'
  BY <1>13 DEF Reload, Idle, Opening
<1>14. CASE RunTask \/ Serve \/ Refuse \/ UNCHANGED vars
  BY <1>1, <1>14 DEF RunTask, Serve, Refuse, vars, memory
<1> QED
  BY <1>2, <1>4, <1>5, <1>6, <1>7, <1>9, <1>10, <1>11, <1>12, <1>13, <1>14 DEF Next

LEMMA OpenDatabaseTypes ==
  ASSUME Types, Opening, NEW c \in Calls, OpenDatabase(c)
  PROVE  Types'
<1>0. MachineOK(loaded, tasks) /\ RestOK
  BY TypesAre
<1>1. MachineOK(loaded', tasks') /\ loaded' # NoFile
  <2>1. NewBuffer(<<>>) \in File /\ NewBuffer(<<>>) # NoFile
    BY NoBytes, NewFileIs, FileExists
  <2> QED
    BY <1>0, <2>1 DEF OpenDatabase, MachineOK
<1>2. calls' \in [Calls -> [op : {"none", "open", "read", "write"},
                            stage : {"none", "get", "loaded", "put", "over"}]]
  BY <1>0 DEF OpenDatabase, RestOK, Over
<1>3. txn = NoFile
  BY <1>0 DEF RestOK, Opening, OpenDatabase
<1>4. RestOK'
  BY <1>0, <1>1, <1>2, <1>3 DEF OpenDatabase, RestOK, storage, history
<1> QED
  BY <1>1, <1>4, TypesNext

LEMMA ReadReturnsTypes ==
  ASSUME Types, NEW c \in Calls, ReadReturns(c)
  PROVE  Types'
<1>0. MachineOK(loaded, tasks) /\ RestOK
  BY TypesAre
<1>1. MachineOK(loaded', tasks')
  BY <1>0 DEF ReadReturns
<1>2. calls' \in [Calls -> [op : {"none", "open", "read", "write"},
                            stage : {"none", "get", "loaded", "put", "over"}]]
  BY <1>0 DEF ReadReturns, RestOK, Over
<1>3. RestOK'
  BY <1>0, <1>2 DEF ReadReturns, RestOK, storage, history
<1> QED
  BY <1>1, <1>3, TypesNext

LEMMA CloseDatabaseTypes ==
  ASSUME Types, CloseDatabase
  PROVE  Types'
<1>0. MachineOK(loaded, tasks) /\ RestOK
  BY TypesAre
<1>1. MachineOK(loaded', tasks')
  BY <1>0 DEF CloseDatabase
<1>2. RestOK'
  BY <1>0 DEF CloseDatabase, RestOK, storage, history
<1> QED
  BY <1>1, <1>2, TypesNext

LEMMA ReadsTypes ==
  ASSUME Types, Begin \/ EndTransaction
  PROVE  Types'
<1>0. MachineOK(loaded, tasks) /\ RestOK
  BY TypesAre
<1>1. /\ UNCHANGED <<loaded, tasks, requests, events, calls, storage, history, unsaved, fails>>
      /\ conn \in {"idle", "open"}
  BY DEF Begin, EndTransaction
<1>2. \/ conn' = "idle" /\ txn' = NoFile
      \/ conn' = "open" /\ txn' \in TxnType
  <2>1. CASE EndTransaction
    BY <2>1 DEF EndTransaction
  <2>2. CASE Begin
    <3>1. loaded # NoFile /\ loaded \in File
      BY <1>0, <2>2 DEF Begin, RestOK, MachineOK
    <3>2. ToArray(loaded) \in Content
      BY <3>1, FileShows
    <3> DEFINE a == ToArray(loaded)
    <3>3. txn' = [version |-> 0, before |-> a, wrote |-> {}] /\ conn' = "open"
      BY <2>2 DEF Begin
    <3> HIDE DEF a
    <3>4. a \in Content /\ 0 \in 0 .. MaxVersion
      BY <3>2, CallAssumption DEF a
    <3> QED
      BY <3>3, <3>4 DEF TxnType
  <2> QED
    BY <2>1, <2>2
<1>3. txn' \in TxnType => txn' # NoFile
  BY TxnExists
<1>4. RestOK'
  BY <1>0, <1>1, <1>2, <1>3 DEF RestOK, storage, history
<1> QED
  BY <1>0, <1>1, <1>4, TypesNext

LEMMA ReloadTypes ==
  ASSUME Types, Reload
  PROVE  Types'
<1>0. MachineOK(loaded, tasks) /\ RestOK
  BY TypesAre
<1>1. MachineOK(loaded', tasks')
  BY DEF Reload, MachineOK
<1>2. calls' \in [Calls -> [op : {"none", "open", "read", "write"},
                            stage : {"none", "get", "loaded", "put", "over"}]]
  BY DEF Reload, Idle
<1>3. requests' \in Seq(RequestType) /\ events' \in Seq(EventType) /\ DOMAIN requests' = {}
  BY DEF Reload
<1>4. reloads' \in Nat
  BY <1>0 DEF Reload, RestOK
<1>5. RestOK'
  BY <1>0, <1>2, <1>3, <1>4, Zenon DEF Reload, RestOK, storage
<1> QED
  BY <1>1, <1>5, TypesNext

-----------------------------------------------------------------------------
(* The pager *)

\* After the journal of a transaction is synced
Journaled == [buffer |-> loaded, tasks |-> Append(tasks, SyncJournal)]

LEMMA TransactionIs ==
  ASSUME Types, Starts(Transaction)
  PROVE  /\ Transaction \in TxnType /\ loaded # NoFile /\ loaded \in File
         /\ Views(Journaled) /\ Journaled.buffer = loaded
         /\ Journaled.tasks = Append(tasks, SyncJournal)
         /\ Journaled = [buffer |-> Journaled.buffer, tasks |-> Journaled.tasks]
         /\ version' \in 0 .. MaxVersion /\ damaged' \in BOOLEAN
<1>0. MachineOK(loaded, tasks) /\ RestOK
  BY TypesAre
<1>1. loaded # NoFile /\ conn \in {"open", "spilled"} /\ txn \in TxnType
  BY <1>0 DEF Starts, RestOK
<1>2. loaded \in File /\ Views(Machine) /\ Machine.buffer = loaded /\ Machine.tasks = tasks
  BY <1>1, MachineViews
<1>3. Journaled.buffer = loaded /\ Journaled.tasks = Append(tasks, SyncJournal)
      /\ Journaled = [buffer |-> Journaled.buffer, tasks |-> Journaled.tasks]
  BY DEF Journaled
<1>4. Views(Journaled) /\ damaged' \in BOOLEAN
  BY <1>0, <1>2, JournalRequests, ViewsAppend DEF Journaled, Starts, RestOK
<1>5. CASE conn = "spilled"
  BY <1>0, <1>1, <1>2, <1>3, <1>4, <1>5 DEF Transaction, RestOK, Starts
<1>6. CASE conn # "spilled"
  <2> DEFINE t == [version |-> version + 1, before |-> txn.before, wrote |-> {}]
  <2>1. Transaction = t /\ t.version = version + 1
    BY <1>6 DEF Transaction
  <2>2. version + 1 \in 0 .. MaxVersion
    BY <1>0, <2>1 DEF RestOK, Starts
  <2>3. txn.before \in Content
    BY <1>1 DEF TxnType
  <2>4. t \in TxnType
    BY <2>2, <2>3 DEF TxnType
  <2>5. version' = version + 1
    BY <1>6, <2>1 DEF Starts
  <2> QED
    BY <1>1, <1>2, <1>3, <1>4, <2>1, <2>2, <2>4, <2>5
<1> QED
  BY <1>5, <1>6

LEMMA SpillIs ==
  ASSUME Types, NEW pages \in SUBSET (2 .. MaxPages), Spill(pages)
  PROVE  \E m : /\ Wrote(Journaled, m, pages, [p \in Pages |-> Transaction.version])
                /\ loaded' = m.buffer /\ tasks' = m.tasks
                /\ Transaction \in TxnType /\ loaded \in File /\ Views(Journaled)
                /\ txn' = [Transaction EXCEPT !.wrote = @ \cup pages]
                /\ txn' \in TxnType /\ version' \in 0 .. MaxVersion
                /\ damaged' \in BOOLEAN
<1> DEFINE c == [p \in Pages |-> Transaction.version]
           m == StorePages(Journaled, pages, c)
<1>1. /\ Starts(Transaction) /\ loaded' = m.buffer /\ tasks' = m.tasks
      /\ txn' = [Transaction EXCEPT !.wrote = @ \cup pages]
  BY DEF Spill, Journaled
<1>2. /\ Transaction \in TxnType /\ Views(Journaled) /\ loaded \in File
      /\ Journaled = [buffer |-> Journaled.buffer, tasks |-> Journaled.tasks]
      /\ version' \in 0 .. MaxVersion /\ damaged' \in BOOLEAN
  BY <1>1, TransactionIs
<1>3. pages \in SUBSET Pages
  BY DEF Pages
<1>4. \A p \in pages : c[p] \in Versions
  BY <1>2, <1>3 DEF TxnType, Versions
<1> HIDE DEF c
<1>5. Wrote(Journaled, m, pages, c)
  BY <1>2, <1>3, <1>4, StorePagesIs
<1>6. txn' \in TxnType
  BY <1>1, <1>2, <1>3 DEF TxnType
<1> QED
  BY <1>1, <1>2, <1>5, <1>6 DEF c

LEMMA SpillTypes ==
  ASSUME Types, NEW pages \in SUBSET (2 .. MaxPages), Spill(pages)
  PROVE  Types'
<1>0. MachineOK(loaded, tasks) /\ RestOK
  BY TypesAre
<1>1. PICK m : /\ Wrote(Journaled, m, pages, [p \in Pages |-> Transaction.version])
               /\ loaded' = m.buffer /\ tasks' = m.tasks
               /\ txn' \in TxnType /\ version' \in 0 .. MaxVersion /\ damaged' \in BOOLEAN
  BY SpillIs
<1>2. Views(m)
  BY <1>1 DEF Wrote
<1>3. MachineOK(loaded', tasks') /\ loaded' # NoFile
  BY <1>1, <1>2, ViewsOK
<1>4. txn' # NoFile
  BY <1>1, TxnExists
<1>5. conn' = "spilled" /\ UNCHANGED <<requests, events, calls, storage, committed, overlap,
                                       reloads, unsaved, fails>>
  BY DEF Spill
<1>6. RestOK'
  BY <1>0, <1>1, <1>3, <1>4, <1>5 DEF RestOK, storage
<1> QED
  BY <1>3, <1>6, TypesNext

\* The pages that a commit writes, and what it commits
Dirty(n, pages) ==
    {1} \cup pages \cup ({p \in 1 .. n : p > Len(Transaction.before)} \ Transaction.wrote)

New(n, pages) ==
    [p \in 1 .. n |-> IF p \in Dirty(n, pages) \cup Transaction.wrote
                      THEN Transaction.version ELSE Transaction.before[p]]

\* After the file is synced and the journal deleted
Synced(m) == [m EXCEPT !.tasks = @ \o <<SyncDatabase(m.buffer), DeleteJournal>>]

LEMMA SyncedIs ==
  ASSUME NEW m, Views(m), m = [buffer |-> m.buffer, tasks |-> m.tasks]
  PROVE  /\ Views(Synced(m)) /\ Synced(m).buffer = m.buffer
         /\ Synced(m).tasks = Append(Append(m.tasks, SyncDatabase(m.buffer)), DeleteJournal)
         /\ Synced(m) = [buffer |-> Synced(m).buffer, tasks |-> Synced(m).tasks]
<1> DEFINE b == m.buffer
           t == m.tasks
           r == SyncDatabase(b)
           u == [buffer |-> b, tasks |-> Append(t, r)]
           w == [buffer |-> b, tasks |-> Append(Append(t, r), DeleteJournal)]
<1>1. b \in File /\ t \in Seq(RequestType)
  BY DEF Views
<1>2. r \in RequestType /\ Len(r.bytes) <= Len(b.data)
  BY <1>1, SyncRequest
<1> HIDE DEF r
<1>3. Views(u)
  BY <1>2, ViewsAppend
<1>4. u.buffer = b /\ u.tasks = Append(t, r)
  OBVIOUS
<1> HIDE DEF u
<1>5. Views([buffer |-> u.buffer, tasks |-> Append(u.tasks, DeleteJournal)])
  BY <1>3, JournalRequests, ViewsAppend
<1>6. t \o <<r, DeleteJournal>> = Append(Append(t, r), DeleteJournal)
  BY <1>1, <1>2, JournalRequests, AppendTwo
<1>7. Synced(m) = [buffer |-> b, tasks |-> t \o <<r, DeleteJournal>>]
  <2> DEFINE q == t \o <<r, DeleteJournal>>
  <2>1. Synced(m) = [m EXCEPT !.tasks = q]
    BY DEF Synced, r
  <2> HIDE DEF q, b, t
  <2>2. m = [buffer |-> b, tasks |-> t]
    BY DEF b, t
  <2> QED
    BY <2>1, <2>2 DEF q
<1>8. Synced(m) = w
  BY <1>6, <1>7
<1>9. w.buffer = b /\ w.tasks = Append(Append(t, r), DeleteJournal) /\ Views(w)
  BY <1>4, <1>5
<1> HIDE DEF w, b
<1> QED
  BY <1>8, <1>9 DEF b, r, w

LEMMA NewIs ==
  ASSUME Types, Starts(Transaction), NEW n \in Pages, NEW pages \in SUBSET (2 .. n)
  PROVE  /\ New(n, pages) \in Content /\ Len(New(n, pages)) = n
         /\ Dirty(n, pages) \in SUBSET (1 .. n) /\ Dirty(n, pages) \in SUBSET Pages
         /\ \A p \in Dirty(n, pages) : New(n, pages)[p] = Transaction.version
         /\ \A p \in Dirty(n, pages) : New(n, pages)[p] \in Versions
<1> DEFINE t == Transaction
           d == Dirty(n, pages)
           e == New(n, pages)
<1>1. t \in TxnType
  BY TransactionIs
<1>2. /\ t.version \in Versions /\ t.before \in Content /\ t.wrote \in SUBSET Pages
  BY <1>1 DEF TxnType, Versions
<1>3. Len(t.before) \in Nat /\ \A i \in 1 .. Len(t.before) : t.before[i] \in Versions
  BY <1>2, ContentIs
<1>4. n \in Nat /\ n >= 1 /\ n <= MaxPages
  BY DEF Pages
<1> HIDE DEF t
<1>5. d = {1} \cup pages \cup ({p \in 1 .. n : p > Len(t.before)} \ t.wrote)
  BY DEF Dirty, t
<1>6. e = [p \in 1 .. n |-> IF p \in d \cup t.wrote THEN t.version ELSE t.before[p]]
  BY DEF New, t
<1> HIDE DEF d, e
<1>7. d \in SUBSET (1 .. n) /\ d \in SUBSET Pages
  <2>1. \A p \in 2 .. n : p \in 1 .. n
    BY <1>4
  <2>2. 1 \in 1 .. n /\ \A p \in 1 .. n : p \in Pages
    BY <1>4 DEF Pages
  <2>3. d \in SUBSET (1 .. n)
    BY <1>5, <2>1, <2>2
  <2> QED
    BY <2>2, <2>3
<1>8. \A p \in d : e[p] = t.version
  BY <1>6, <1>7
<1>9. \A p \in 1 .. n : e[p] \in Versions
  <2> SUFFICES ASSUME NEW p \in 1 .. n PROVE e[p] \in Versions
    OBVIOUS
  <2>1. CASE p \in d \cup t.wrote
    BY <1>2, <1>6, <2>1
  <2>2. CASE p \notin d \cup t.wrote
    <3>1. p \in 1 .. Len(t.before)
      BY <1>3, <1>4, <1>5, <2>2
    <3> QED
      BY <1>3, <1>6, <2>2, <3>1
  <2> QED
    BY <2>1, <2>2
<1>10. e = [p \in 1 .. n |-> e[p]]
  BY <1>6
<1>11. e \in Seq(Versions) /\ Len(e) = n
  BY <1>4, <1>9, <1>10, SequenceOf
<1> QED
  BY <1>7, <1>8, <1>9, <1>11 DEF d, e, t, Content, Versions

\* A commit writes its pages, which gives m, syncs, and truncates.
Commits(n, pages, m, end) ==
    /\ Views(Journaled) /\ loaded \in File /\ Transaction \in TxnType
    /\ version' \in 0 .. MaxVersion /\ damaged' \in BOOLEAN
    /\ Wrote(Journaled, m, Dirty(n, pages), New(n, pages))
    /\ Views(Synced(m)) /\ Synced(m).buffer = m.buffer
    /\ Synced(m).tasks = Append(Append(m.tasks, SyncDatabase(m.buffer)), DeleteJournal)
    /\ Views(end) /\ KeptAll(Synced(m).tasks, end.tasks)
    /\ m.buffer.size >= n =>
          /\ end.tasks = Synced(m).tasks
          /\ end.buffer.data = m.buffer.data
          /\ end.buffer.size = m.buffer.size \/ end.buffer.size = n
    /\ loaded' = end.buffer /\ tasks' = end.tasks
    /\ committed' = committed \cup {New(n, pages)}
    /\ m = StorePages(Journaled, Dirty(n, pages), New(n, pages))
    /\ end = IF \E p \in DOMAIN Transaction.before \cup Transaction.wrote : p > n
             THEN PagerTruncate(Synced(m), n) ELSE Synced(m)

LEMMA CommitIs ==
  ASSUME Types, NEW n \in Pages, NEW pages \in SUBSET (2 .. n), Commit(n, pages)
  PROVE  \E m, end : Commits(n, pages, m, end)
<1> DEFINE d == Dirty(n, pages)
           e == New(n, pages)
           m == StorePages(Journaled, d, e)
           s == Synced(m)
           long == \E p \in DOMAIN Transaction.before \cup Transaction.wrote : p > n
           end == IF long THEN PagerTruncate(s, n) ELSE s
<1>1. /\ Starts(Transaction) /\ committed' = committed \cup {e}
      /\ loaded' = end.buffer /\ tasks' = end.tasks
  BY DEF Commit, Dirty, New, Synced, Journaled
<1>2. /\ Transaction \in TxnType /\ Views(Journaled) /\ loaded \in File
      /\ Journaled = [buffer |-> Journaled.buffer, tasks |-> Journaled.tasks]
      /\ version' \in 0 .. MaxVersion /\ damaged' \in BOOLEAN
  BY <1>1, TransactionIs
<1>3. d \in SUBSET Pages /\ \A p \in d : e[p] \in Versions
  BY <1>1, NewIs
<1> HIDE DEF d, e
<1>4. Wrote(Journaled, m, d, e)
  BY <1>2, <1>3, StorePagesIs
<1>5. Views(m) /\ m = [buffer |-> m.buffer, tasks |-> m.tasks]
  BY <1>4 DEF Wrote
<1> HIDE DEF m
<1>6. /\ Views(s) /\ s.buffer = m.buffer
      /\ s.tasks = Append(Append(m.tasks, SyncDatabase(m.buffer)), DeleteJournal)
      /\ s = [buffer |-> s.buffer, tasks |-> s.tasks]
  BY <1>5, SyncedIs
<1>7. n \in Nat /\ m.buffer.size \in Nat
  BY <1>5, FileIs DEF Pages, Views
<1> HIDE DEF s
<1>8. /\ Views(end) /\ KeptAll(s.tasks, end.tasks)
      /\ m.buffer.size >= n =>
            /\ end.tasks = s.tasks
            /\ end.buffer.data = m.buffer.data
            /\ end.buffer.size = m.buffer.size \/ end.buffer.size = n
  <2> HIDE DEF long
  <2>1. CASE ~long
    BY <1>6, <2>1, KeptSelf
  <2>2. CASE long
    <3> DEFINE t == PagerTruncate(s, n)
    <3>1. /\ Views(t) /\ KeptAll(s.tasks, t.tasks)
          /\ s.buffer.size >= n => /\ t.tasks = s.tasks
                                  /\ t.buffer.data = s.buffer.data /\ t.buffer.size = n
      BY <1>6, <1>7, PagerTruncateIs
    <3>2. end = t
      BY <2>2
    <3> HIDE DEF t
    <3> QED
      BY <1>6, <3>1, <3>2
  <2> QED
    BY <2>1, <2>2
<1> HIDE DEF end
<1> QED
  BY <1>1, <1>2, <1>4, <1>6, <1>8 DEF Commits, d, e, s, m, end

LEMMA CommitTypes ==
  ASSUME Types, NEW n \in Pages, NEW pages \in SUBSET (2 .. n), Commit(n, pages)
  PROVE  Types'
<1>0. MachineOK(loaded, tasks) /\ RestOK
  BY TypesAre
<1>1. PICK m, end : Commits(n, pages, m, end)
  BY CommitIs
<1>2. /\ Views(end) /\ loaded' = end.buffer /\ tasks' = end.tasks
      /\ version' \in 0 .. MaxVersion /\ committed' = committed \cup {New(n, pages)}
      /\ damaged' \in BOOLEAN
  BY <1>1 DEF Commits
<1>3. MachineOK(loaded', tasks') /\ loaded' # NoFile
  BY <1>2, ViewsOK
<1>4. conn' = "idle" /\ txn' = NoFile
      /\ UNCHANGED <<requests, events, calls, storage, overlap, reloads, unsaved, fails>>
  BY DEF Commit
<1>5. Starts(Transaction)
  BY DEF Commit
<1>6. committed' \subseteq Content
  BY <1>0, <1>2, <1>5, NewIs DEF RestOK
<1>7. RestOK'
  BY <1>0, <1>2, <1>3, <1>4, <1>6 DEF RestOK, storage
<1> QED
  BY <1>3, <1>7, TypesNext

\* A rollback truncates, which gives u, restores the pages, which gives m, and syncs.
RollsBack(u, m) ==
    /\ Views(Machine) /\ loaded \in File /\ txn \in TxnType
    /\ Views(u) /\ KeptAll(tasks, u.tasks)
    /\ loaded.size >= Len(txn.before) =>
          /\ u.tasks = tasks
          /\ u.buffer.data = loaded.data /\ u.buffer.size = Len(txn.before)
    /\ Wrote(u, m, DOMAIN txn.before \cap txn.wrote, txn.before)
    /\ Views(Synced(m)) /\ loaded' = m.buffer /\ tasks' = Synced(m).tasks
    /\ tasks' = Append(Append(m.tasks, SyncDatabase(m.buffer)), DeleteJournal)
    /\ u = PagerTruncate(Machine, Len(txn.before))
    /\ m = StorePages(u, DOMAIN txn.before \cap txn.wrote, txn.before)

LEMMA RollbackIs ==
  ASSUME Types, Rollback
  PROVE  \E u, m : RollsBack(u, m)
<1> DEFINE u == PagerTruncate(Machine, Len(txn.before))
           d == DOMAIN txn.before \cap txn.wrote
           m == StorePages(u, d, txn.before)
<1>0. MachineOK(loaded, tasks) /\ RestOK
  BY TypesAre
<1>1. loaded # NoFile /\ txn \in TxnType
  BY <1>0 DEF Rollback, RestOK
<1>2. /\ Views(Machine) /\ loaded \in File /\ Machine.buffer = loaded /\ Machine.tasks = tasks
      /\ Machine = [buffer |-> Machine.buffer, tasks |-> Machine.tasks]
  BY <1>1, MachineViews
<1>3. txn.before \in Content /\ txn.wrote \in SUBSET Pages
  BY <1>1 DEF TxnType
<1>4. Len(txn.before) \in Nat /\ DOMAIN txn.before = 1 .. Len(txn.before)
      /\ \A i \in 1 .. Len(txn.before) : txn.before[i] \in Versions
  BY <1>3, ContentIs
<1>5. /\ Views(u) /\ KeptAll(tasks, u.tasks)
      /\ u = [buffer |-> u.buffer, tasks |-> u.tasks]
      /\ loaded.size >= Len(txn.before) =>
            /\ u.tasks = tasks
            /\ u.buffer.data = loaded.data /\ u.buffer.size = Len(txn.before)
  BY <1>2, <1>4, PagerTruncateIs
<1>6. d \in SUBSET Pages /\ \A p \in d : txn.before[p] \in Versions
  BY <1>3, <1>4
<1>7. loaded' = m.buffer /\ tasks' = m.tasks \o <<SyncDatabase(m.buffer), DeleteJournal>>
  BY DEF Rollback, Machine
<1> HIDE DEF u, d
<1>8. Wrote(u, m, d, txn.before)
  BY <1>5, <1>6, StorePagesIs
<1> HIDE DEF m
<1>9. Views(m) /\ m = [buffer |-> m.buffer, tasks |-> m.tasks]
  BY <1>8 DEF Wrote
<1>10. /\ Views(Synced(m))
       /\ Synced(m).tasks = Append(Append(m.tasks, SyncDatabase(m.buffer)), DeleteJournal)
  BY <1>9, SyncedIs
<1>11. m.tasks \o <<SyncDatabase(m.buffer), DeleteJournal>> = Synced(m).tasks
  BY <1>9 DEF Synced
<1> QED
  BY <1>1, <1>2, <1>5, <1>7, <1>8, <1>10, <1>11 DEF RollsBack, d, u, m

LEMMA RollbackTypes ==
  ASSUME Types, Rollback
  PROVE  Types'
<1>0. MachineOK(loaded, tasks) /\ RestOK
  BY TypesAre
<1>1. PICK u, m : RollsBack(u, m)
  BY RollbackIs
<1>2. Views(Synced(m)) /\ loaded' = Synced(m).buffer /\ tasks' = Synced(m).tasks
  <2>1. Views(m) /\ m = [buffer |-> m.buffer, tasks |-> m.tasks]
    BY <1>1 DEF RollsBack, Wrote
  <2> QED
    BY <1>1, <2>1, SyncedIs DEF RollsBack
<1>3. MachineOK(loaded', tasks') /\ loaded' # NoFile
  BY <1>2, ViewsOK
<1>4. conn' = "idle" /\ txn' = NoFile
      /\ UNCHANGED <<requests, events, calls, storage, history, unsaved, fails>>
  BY DEF Rollback
<1>5. RestOK'
  BY <1>0, <1>3, <1>4 DEF RestOK, storage, history
<1> QED
  BY <1>3, <1>5, TypesNext

LEMMA TypesStep == Types /\ Waiting /\ Opening /\ [Next]_vars => Types'
<1> SUFFICES ASSUME Types, Waiting, Opening, [Next]_vars PROVE Types'
  OBVIOUS
<1>1. CASE UNCHANGED vars
  <2>1. MachineOK(loaded, tasks) /\ RestOK
    BY TypesAre
  <2>2. MachineOK(loaded', tasks') /\ RestOK'
    BY <1>1, <2>1 DEF vars, memory, storage, history, RestOK
  <2> QED
    BY <2>2, TypesNext
<1> QED
  BY <1>1, LoadFileTypes, WriteFileTypes, RunTaskTypes, ServeTypes, RefuseTypes, ResumeTypes,
     OpenDatabaseTypes, ReadReturnsTypes, CloseDatabaseTypes, ReloadTypes, SpillTypes,
     CommitTypes, RollbackTypes, ReadsTypes DEF Next

-----------------------------------------------------------------------------
(* The queue of requests: promise continuations, then IndexedDB            *)

\* The tasks or the queue q became q2: nothing was lost or moved, and "new"
\* was added.
Grown(q, q2, new) ==
    /\ q \in Seq(RequestType) /\ q2 \in Seq(RequestType) /\ new \in Seq(RequestType)
    /\ Len(q2) = Len(q) + Len(new)
    /\ \A i \in 1 .. Len(q) : Kept(q[i], q2[i])
    /\ \A i \in 1 .. Len(new) : q2[Len(q) + i] = new[i]

LEMMA ConcatIs ==
  ASSUME NEW S, NEW s \in Seq(S), NEW t \in Seq(S)
  PROVE  /\ s \o t \in Seq(S) /\ Len(s \o t) = Len(s) + Len(t)
         /\ Len(s) \in Nat /\ Len(t) \in Nat
         /\ \A i \in 1 .. Len(s) : (s \o t)[i] = s[i] /\ s[i] \in S
         /\ \A i \in 1 .. Len(t) : (s \o t)[Len(s) + i] = t[i] /\ t[i] \in S
<1>1. Len(s) \in Nat /\ Len(t) \in Nat
  BY LenProperties
<1>2. \A i \in 1 .. Len(t) : (s \o t)[Len(s) + i] = t[i]
  OBVIOUS
<1> QED
  BY <1>1, <1>2, ConcatProperties, ElementOfSeq

LEMMA QueueIs ==
  ASSUME Types
  PROVE  /\ Queue \in Seq(RequestType) /\ Len(Queue) = Len(requests) + Len(tasks)
         /\ requests \in Seq(RequestType) /\ tasks \in Seq(RequestType)
         /\ Len(requests) \in Nat /\ Len(tasks) \in Nat
         /\ \A i \in 1 .. Len(requests) : Queue[i] = requests[i]
         /\ \A i \in 1 .. Len(tasks) : Queue[Len(requests) + i] = tasks[i]
<1>1. requests \in Seq(RequestType) /\ tasks \in Seq(RequestType)
  BY TypesAre DEF RestOK, MachineOK
<1> QED
  BY <1>1, ConcatIs DEF Queue

LEMMA QueueIsNext ==
  ASSUME Types'
  PROVE  /\ Queue' \in Seq(RequestType) /\ Len(Queue') = Len(requests') + Len(tasks')
         /\ requests' \in Seq(RequestType) /\ tasks' \in Seq(RequestType)
         /\ Len(requests') \in Nat /\ Len(tasks') \in Nat
         /\ \A i \in 1 .. Len(requests') : Queue'[i] = requests'[i]
         /\ \A i \in 1 .. Len(tasks') : Queue'[Len(requests') + i] = tasks'[i]
<1>1. requests' \in Seq(RequestType) /\ tasks' \in Seq(RequestType)
  BY DEF Types, TypeOK
<1> QED
  BY <1>1, ConcatIs DEF Queue

LEMMA QueueGrows ==
  ASSUME Types, Types', NEW new, Grown(tasks, tasks', new), requests' = requests
  PROVE  Grown(Queue, Queue', new)
<1> DEFINE q == Queue
           q2 == Queue'
           n == Len(requests)
           k == Len(tasks)
           l == Len(new)
<1>1. /\ q \in Seq(RequestType) /\ Len(q) = n + k /\ n \in Nat /\ k \in Nat
      /\ \A i \in 1 .. n : q[i] = requests[i]
      /\ \A i \in 1 .. k : q[n + i] = tasks[i]
  BY QueueIs
<1>2. /\ l \in Nat /\ new \in Seq(RequestType) /\ Len(tasks') = k + l
      /\ \A i \in 1 .. k : Kept(tasks[i], tasks'[i])
      /\ \A i \in 1 .. l : tasks'[k + i] = new[i]
  BY LenProperties DEF Grown
<1>3. /\ q2 \in Seq(RequestType) /\ Len(q2) = n + Len(tasks')
      /\ \A i \in 1 .. n : q2[i] = requests[i]
      /\ \A i \in 1 .. Len(tasks') : q2[n + i] = tasks'[i]
  BY QueueIsNext
<1> HIDE DEF q, q2, n, k, l
<1>4. ASSUME NEW i \in 1 .. Len(q) PROVE Kept(q[i], q2[i])
  <2>1. CASE i \in 1 .. n
    BY <1>1, <1>3, <2>1 DEF Kept
  <2>2. CASE i \notin 1 .. n
    <3> DEFINE j == i - n
    <3>1. j \in 1 .. k /\ j \in 1 .. Len(tasks') /\ n + j = i
      BY <1>1, <1>2, <2>2
    <3> HIDE DEF j
    <3>2. q[n + j] = tasks[j] /\ q2[n + j] = tasks'[j] /\ Kept(tasks[j], tasks'[j])
      BY <1>1, <1>2, <1>3, <3>1
    <3> QED
      BY <3>1, <3>2
  <2> QED
    BY <2>1, <2>2
<1>5. ASSUME NEW i \in 1 .. l PROVE q2[Len(q) + i] = new[i]
  <2>1. k + i \in 1 .. Len(tasks') /\ Len(q) + i = n + (k + i)
    BY <1>1, <1>2
  <2>2. q2[n + (k + i)] = tasks'[k + i]
    BY <1>3, <2>1
  <2> QED
    BY <1>2, <2>1, <2>2
<1>6. Len(q2) = Len(q) + l
  BY <1>1, <1>2, <1>3
<1> QED
  BY <1>1, <1>2, <1>3, <1>4, <1>5, <1>6 DEF Grown, q, q2, l

LEMMA GrownNone ==
  ASSUME NEW q \in Seq(RequestType), NEW q2 \in Seq(RequestType), KeptAll(q, q2)
  PROVE  Grown(q, q2, <<>>)
<1>1. Len(<<>>) = 0 /\ Len(q) \in Nat /\ <<>> \in Seq(RequestType)
  BY LenProperties
<1> QED
  BY <1>1 DEF Grown, KeptAll

LEMMA GrownOne ==
  ASSUME NEW q \in Seq(RequestType), NEW r \in RequestType
  PROVE  Grown(q, Append(q, r), <<r>>)
<1> DEFINE q2 == Append(q, r)
           n == Len(q)
           new == <<r>>
<1>1. /\ q2 \in Seq(RequestType) /\ Len(q2) = n + 1 /\ n \in Nat
      /\ \A i \in 1 .. n : q2[i] = q[i]
      /\ q2[n + 1] = r
  BY AppendIs
<1>2. Len(new) = 1 /\ new[1] = r /\ new \in Seq(RequestType)
  OBVIOUS
<1> HIDE DEF q2, new, n
<1>3. \A i \in 1 .. n : Kept(q[i], q2[i])
  BY <1>1 DEF Kept
<1>4. \A i \in 1 .. Len(new) : q2[n + i] = new[i]
  BY <1>1, <1>2
<1> QED
  BY <1>1, <1>2, <1>3, <1>4 DEF Grown, q2, new, n

\* "new" is new1, kept, and then new2.
Both(new1, new2, new) ==
    /\ new \in Seq(RequestType) /\ Len(new) = Len(new1) + Len(new2)
    /\ \A i \in 1 .. Len(new1) : Kept(new1[i], new[i])
    /\ \A i \in 1 .. Len(new2) : new[Len(new1) + i] = new2[i]

\* What was added first is kept when more is added.
LEMMA GrownThen ==
  ASSUME NEW q, NEW q2, NEW q3, NEW new1, NEW new2, Grown(q, q2, new1), Grown(q2, q3, new2)
  PROVE  \E new : Grown(q, q3, new) /\ Both(new1, new2, new)
<1> DEFINE n == Len(q)
           k == Len(new1)
           l == Len(new2)
           m == k + l
           new == [i \in 1 .. m |-> q3[n + i]]
<1>1. /\ q \in Seq(RequestType) /\ q2 \in Seq(RequestType) /\ q3 \in Seq(RequestType)
      /\ n \in Nat /\ k \in Nat /\ l \in Nat /\ m \in Nat
  BY LenProperties DEF Grown
<1>2. /\ Len(q2) = n + k
      /\ \A i \in 1 .. n : Kept(q[i], q2[i])
      /\ \A i \in 1 .. k : q2[n + i] = new1[i]
  BY DEF Grown
<1>3. /\ Len(q3) = Len(q2) + l
      /\ \A i \in 1 .. Len(q2) : Kept(q2[i], q3[i])
      /\ \A i \in 1 .. l : q3[Len(q2) + i] = new2[i]
  BY DEF Grown
<1>4. /\ \A i \in 1 .. Len(q2) : q2[i] \in RequestType
      /\ \A i \in 1 .. Len(q3) : q3[i] \in RequestType
  BY <1>1, ElementOfSeq
<1> HIDE DEF n, k, l
<1>5. Len(q2) = n + k /\ Len(q3) = n + k + l
  BY <1>1, <1>2, <1>3
<1>6. ASSUME NEW i \in 1 .. m PROVE new[i] = q3[n + i] /\ new[i] \in RequestType
  <2>1. n + i \in 1 .. Len(q3)
    BY <1>1, <1>5
  <2> QED
    BY <1>4, <2>1
<1>7. new = [i \in 1 .. m |-> new[i]]
  OBVIOUS
<1> HIDE DEF new
<1>8. new \in Seq(RequestType) /\ Len(new) = m
  <2> HIDE DEF m
  <2> QED
    BY <1>1, <1>6, <1>7, SequenceOf
<1>9. ASSUME NEW i \in 1 .. n PROVE Kept(q[i], q3[i])
  <2>1. i \in 1 .. Len(q2) /\ i \in 1 .. Len(q3)
    BY <1>1, <1>5
  <2>2. Kept(q[i], q2[i]) /\ Kept(q2[i], q3[i]) /\ q2[i] \in RequestType /\ q3[i] \in RequestType
    BY <1>2, <1>3, <1>4, <2>1
  <2> QED
    BY <2>2, KeptAgain
<1>10. ASSUME NEW i \in 1 .. k PROVE Kept(new1[i], new[i])
  <2>1. i \in 1 .. m /\ n + i \in 1 .. Len(q2)
    BY <1>1, <1>5
  <2>2. Kept(q2[n + i], q3[n + i]) /\ q2[n + i] = new1[i]
    BY <1>2, <1>3, <2>1
  <2> QED
    BY <1>6, <2>1, <2>2
<1>11. ASSUME NEW i \in 1 .. l PROVE new[k + i] = new2[i]
  <2>1. k + i \in 1 .. m /\ n + (k + i) = Len(q2) + i
    BY <1>1, <1>5
  <2> QED
    BY <1>3, <1>6, <2>1
<1>12. Grown(q, q3, new)
  <2>1. Len(q3) = n + Len(new)
    BY <1>1, <1>5, <1>8
  <2>2. \A i \in 1 .. Len(new) : q3[n + i] = new[i]
    BY <1>6, <1>8
  <2> QED
    BY <1>1, <1>8, <1>9, <2>1, <2>2 DEF Grown, n
<1> QED
  BY <1>8, <1>10, <1>11, <1>12 DEF k, l, Both

\* A task that holds its bytes is not changed.
LEMMA KeptNotLive ==
  ASSUME NEW r, NEW r2, ~r.live, Kept(r, r2)
  PROVE  r2 = r
  BY DEF Kept

LEMMA RunTaskQueue ==
  ASSUME Types, Types', RunTask
  PROVE  Grown(Queue, Queue', <<>>)
<1> DEFINE q == Queue
           q2 == Queue'
           n == Len(requests)
           k == Len(tasks)
           r == [Head(tasks) EXCEPT !.live = FALSE]
<1>1. /\ q \in Seq(RequestType) /\ Len(q) = n + k /\ n \in Nat /\ k \in Nat
      /\ requests \in Seq(RequestType) /\ tasks \in Seq(RequestType)
      /\ \A i \in 1 .. n : q[i] = requests[i]
      /\ \A i \in 1 .. k : q[n + i] = tasks[i]
  BY QueueIs
<1>2. /\ q2 \in Seq(RequestType) /\ Len(q2) = Len(requests') + Len(tasks')
      /\ \A i \in 1 .. Len(requests') : q2[i] = requests'[i]
      /\ \A i \in 1 .. Len(tasks') : q2[Len(requests') + i] = tasks'[i]
  BY QueueIsNext
<1>3. /\ k \in Nat \ {0} /\ Len(tasks') = k - 1
      /\ \A i \in 1 .. k - 1 : tasks'[i] = tasks[i + 1]
      /\ Head(tasks) = tasks[1] /\ Head(tasks) \in RequestType
  BY <1>1, TailIs DEF RunTask
<1>4. r \in RequestType /\ Kept(Head(tasks), r)
  BY <1>3 DEF RequestType, Kept
<1>5. requests' = Append(requests, r)
  BY DEF RunTask
<1> HIDE DEF r
<1>6. /\ Len(requests') = n + 1
      /\ \A i \in 1 .. n : requests'[i] = requests[i]
      /\ requests'[n + 1] = r
  BY <1>1, <1>4, <1>5, AppendIs
<1> HIDE DEF q, q2, n, k
<1>7. Len(q2) = Len(q)
  BY <1>1, <1>2, <1>3, <1>6
<1>8. ASSUME NEW i \in 1 .. Len(q) PROVE Kept(q[i], q2[i])
  <2>1. CASE i \in 1 .. n
    <3>1. i \in 1 .. n + 1
      BY <1>1, <2>1
    <3>2. q2[i] = q[i]
      BY <1>1, <1>2, <1>6, <2>1, <3>1
    <3> QED
      BY <3>2 DEF Kept
  <2>2. CASE i = n + 1
    <3>1. 1 \in 1 .. k /\ n + 1 \in 1 .. n + 1
      BY <1>1, <1>3
    <3>2. q[n + 1] = Head(tasks) /\ q2[n + 1] = r
      BY <1>1, <1>2, <1>3, <1>6, <3>1
    <3> QED
      BY <1>4, <2>2, <3>2
  <2>3. CASE i > n + 1
    <3> DEFINE j == i - (n + 1)
    <3>0. Len(q) = n + k /\ n \in Nat /\ k \in Nat \ {0}
      BY <1>1, <1>3
    <3>1. j \in 1 .. k - 1 /\ j + 1 \in 1 .. k /\ (n + 1) + j = i /\ n + (j + 1) = i
      BY <2>3, <3>0
    <3> HIDE DEF j
    <3>2. q2[(n + 1) + j] = tasks'[j]
      BY <1>2, <1>3, <1>6, <3>1
    <3>3. q[n + (j + 1)] = tasks[j + 1] /\ tasks'[j] = tasks[j + 1]
      BY <1>1, <1>3, <3>1
    <3>4. q2[i] = q[i]
      BY <3>1, <3>2, <3>3
    <3> QED
      BY <3>4 DEF Kept
  <2> QED
    BY <1>1, <2>1, <2>2, <2>3
<1>9. KeptAll(q, q2)
  BY <1>7, <1>8 DEF KeptAll
<1> QED
  BY <1>1, <1>2, <1>9, GrownNone DEF q, q2

LEMMA PopQueue ==
  ASSUME Types, Types', requests # <<>>, requests' = Tail(requests), tasks' = tasks
  PROVE  /\ Queue \in Seq(RequestType) /\ Queue' \in Seq(RequestType)
         /\ Len(Queue) \in Nat \ {0} /\ Len(Queue') = Len(Queue) - 1
         /\ \A i \in 1 .. Len(Queue') : Queue'[i] = Queue[i + 1]
         /\ Head(requests) = Queue[1] /\ Head(requests) \in RequestType
<1> DEFINE q == Queue
           q2 == Queue'
           n == Len(requests)
           k == Len(tasks)
<1>1. /\ q \in Seq(RequestType) /\ Len(q) = n + k /\ n \in Nat /\ k \in Nat
      /\ requests \in Seq(RequestType)
      /\ \A i \in 1 .. n : q[i] = requests[i]
      /\ \A i \in 1 .. k : q[n + i] = tasks[i]
  BY QueueIs
<1>2. /\ q2 \in Seq(RequestType) /\ Len(q2) = Len(requests') + k
      /\ \A i \in 1 .. Len(requests') : q2[i] = requests'[i]
      /\ \A i \in 1 .. k : q2[Len(requests') + i] = tasks[i]
  BY QueueIsNext
<1>3. /\ n \in Nat \ {0} /\ Len(requests') = n - 1
      /\ \A i \in 1 .. n - 1 : requests'[i] = requests[i + 1]
      /\ Head(requests) = requests[1] /\ Head(requests) \in RequestType
  BY <1>1, TailIs
<1> HIDE DEF q, q2, n, k
<1>4. Len(q) \in Nat \ {0} /\ Len(q2) = Len(q) - 1
  <2>1. Len(q) = n + k /\ n \in Nat \ {0} /\ k \in Nat
    BY <1>1, <1>3
  <2>2. Len(q2) = (n - 1) + k
    BY <1>2, <1>3
  <2> QED
    BY <2>1, <2>2
<1>5. 1 \in 1 .. n
  BY <1>3
<1>6. ASSUME NEW i \in 1 .. Len(q2) PROVE q2[i] = q[i + 1]
  <2>1. CASE i \in 1 .. n - 1
    <3>1. i + 1 \in 1 .. n
      BY <1>3, <2>1
    <3> QED
      BY <1>1, <1>2, <1>3, <2>1, <3>1
  <2>2. CASE i > n - 1
    <3> DEFINE j == i - (n - 1)
    <3>1. j \in 1 .. k /\ (n - 1) + j = i /\ n + j = i + 1
      BY <1>1, <1>2, <1>3, <2>2
    <3> HIDE DEF j
    <3>2. q2[(n - 1) + j] = tasks[j] /\ q[n + j] = tasks[j]
      BY <1>1, <1>2, <1>3, <3>1
    <3> QED
      BY <3>1, <3>2
  <2> QED
    BY <1>3, <2>1, <2>2
<1> QED
  BY <1>1, <1>2, <1>3, <1>4, <1>5, <1>6 DEF q, q2, n

LEMMA SameQueue ==
  ASSUME Types, Types', requests' = requests, tasks' = tasks
  PROVE  Grown(Queue, Queue', <<>>)
<1>1. Queue' = Queue
  BY DEF Queue
<1> QED
  BY <1>1, QueueIs, KeptSelf, GrownNone

\* Steps of a connection that only reads, or that is closed
LEMMA ReadsSame ==
  ASSUME Types, Types', CloseDatabase \/ Begin \/ EndTransaction
  PROVE  /\ conn # "spilled" /\ conn' # "spilled" /\ conn # "closed"
         /\ conn' # "open" => ~Begin
         /\ UNCHANGED <<loaded, tasks, requests, events, calls, stored, storedJournal, torn>>
         /\ UNCHANGED <<version, committed, overlap, damaged, reloads, unsaved, fails>>
         /\ Grown(Queue, Queue', <<>>)
<1>1. /\ conn # "spilled" /\ conn' # "spilled" /\ conn # "closed"
      /\ conn' # "open" => ~Begin
      /\ UNCHANGED <<loaded, tasks, requests, events, calls, stored, storedJournal, torn>>
      /\ UNCHANGED <<version, committed, overlap, damaged, reloads, unsaved, fails>>
  BY DEF CloseDatabase, Begin, EndTransaction, storage, history
<1> QED
  BY <1>1, SameQueue

LEMMA SpillQueue ==
  ASSUME Types, Types', NEW pages \in SUBSET (2 .. MaxPages), Spill(pages)
  PROVE  Grown(Queue, Queue', <<SyncJournal>>)
<1>1. tasks \in Seq(RequestType) /\ tasks' \in Seq(RequestType) /\ requests' = requests
  BY QueueIs, QueueIsNext DEF Spill
<1>2. PICK m : Wrote(Journaled, m, pages, [p \in Pages |-> Transaction.version]) /\ tasks' = m.tasks
  BY SpillIs
<1>3. KeptAll(Append(tasks, SyncJournal), tasks')
  BY <1>2 DEF Wrote, Journaled
<1>4. Append(tasks, SyncJournal) \in Seq(RequestType) /\ Grown(tasks, Append(tasks, SyncJournal), <<SyncJournal>>)
  BY <1>1, JournalRequests, GrownOne, AppendIs
<1>5. Grown(Append(tasks, SyncJournal), tasks', <<>>)
  BY <1>1, <1>3, <1>4, GrownNone
<1>6. PICK new : Grown(tasks, tasks', new) /\ Both(<<SyncJournal>>, <<>>, new)
  BY <1>4, <1>5, GrownThen
<1>7. Len(new) = 1 /\ Kept(SyncJournal, new[1])
  BY <1>6 DEF Both
<1>8. new[1] = SyncJournal
  BY <1>7, JournalRequests, KeptNotLive
<1>9. new = <<SyncJournal>>
  BY <1>6, <1>7, <1>8 DEF Both
<1> QED
  BY <1>1, <1>6, <1>9, QueueGrows

\* The requests of a transaction that ends, after those that were waiting
Ends(q, q2, new, d) ==
    /\ Grown(q, q2, new) /\ Len(new) \in 2 .. 3
    /\ new[Len(new) - 1] = d /\ new[Len(new)] = DeleteJournal
    /\ Len(new) = 3 => new[1] = SyncJournal
    /\ d.op = "put" /\ d.file = "database" /\ d.by = NoCall

LEMMA CommitQueue ==
  ASSUME Types, Types', NEW n \in Pages, NEW pages \in SUBSET (2 .. n), Commit(n, pages)
  PROVE  \E m, end, new, d :
            /\ Commits(n, pages, m, end) /\ Ends(Queue, Queue', new, d)
            /\ m.buffer.size >= n => d = SyncDatabase(m.buffer)
<1>1. tasks \in Seq(RequestType) /\ tasks' \in Seq(RequestType) /\ requests' = requests
  BY QueueIs, QueueIsNext DEF Commit
<1>2. PICK m, end : Commits(n, pages, m, end)
  BY CommitIs
<1> DEFINE r == SyncDatabase(m.buffer)
           q1 == Append(tasks, SyncJournal)
           q2 == m.tasks
           q3 == Append(q2, r)
           q4 == Append(q3, DeleteJournal)
<1>3. Views(m) /\ KeptAll(q1, q2)
  BY <1>2 DEF Commits, Wrote, Journaled
<1>4. q2 \in Seq(RequestType) /\ m.buffer \in File
  BY <1>3 DEF Views
<1>5. /\ r \in RequestType /\ r.op = "put" /\ r.file = "database" /\ r.by = NoCall
  BY <1>4, SyncRequest
<1> HIDE DEF r
<1>6. q1 \in Seq(RequestType) /\ Grown(tasks, q1, <<SyncJournal>>)
  BY <1>1, JournalRequests, GrownOne, AppendIs
<1>7. Grown(q1, q2, <<>>)
  BY <1>3, <1>4, <1>6, GrownNone
<1>8. q3 \in Seq(RequestType) /\ Grown(q2, q3, <<r>>)
  BY <1>4, <1>5, GrownOne, AppendIs
<1>9. q4 \in Seq(RequestType) /\ Grown(q3, q4, <<DeleteJournal>>)
  BY <1>8, JournalRequests, GrownOne, AppendIs
<1>10. KeptAll(q4, tasks') /\ (m.buffer.size >= n => tasks' = q4)
  BY <1>2 DEF Commits, r
<1> HIDE DEF q1, q2, q3, q4
<1>11. PICK n1 : /\ Grown(tasks, q2, n1) /\ Len(n1) = 1 + 0 /\ n1 \in Seq(RequestType)
                 /\ Kept(SyncJournal, n1[1])
  <2>1. PICK new : Grown(tasks, q2, new) /\ Both(<<SyncJournal>>, <<>>, new)
    BY <1>6, <1>7, GrownThen
  <2> QED
    BY <2>1 DEF Both
<1>12. n1[1] = SyncJournal
  BY <1>11, JournalRequests, KeptNotLive
<1>13. PICK n2 : /\ Grown(tasks, q3, n2) /\ Len(n2) = 2 /\ n2 \in Seq(RequestType)
                 /\ Kept(SyncJournal, n2[1]) /\ n2[2] = r
  <2>1. PICK new : Grown(tasks, q3, new) /\ Both(n1, <<r>>, new)
    BY <1>8, <1>11, GrownThen
  <2>2. 1 \in 1 .. Len(n1) /\ 1 \in 1 .. Len(<<r>>) /\ Len(n1) + 1 = 2 /\ Len(n1) + Len(<<r>>) = 2
    BY <1>11
  <2> QED
    BY <1>12, <2>1, <2>2 DEF Both
<1>14. PICK n3 : /\ Grown(tasks, q4, n3) /\ Len(n3) = 3 /\ n3 \in Seq(RequestType)
                 /\ Kept(n2[1], n3[1]) /\ Kept(n2[2], n3[2]) /\ n3[3] = DeleteJournal
  <2>1. PICK new : Grown(tasks, q4, new) /\ Both(n2, <<DeleteJournal>>, new)
    BY <1>9, <1>13, GrownThen
  <2>2. /\ 1 \in 1 .. Len(n2) /\ 2 \in 1 .. Len(n2) /\ 1 \in 1 .. Len(<<DeleteJournal>>)
        /\ Len(n2) + 1 = 3 /\ Len(n2) + Len(<<DeleteJournal>>) = 3
    BY <1>13
  <2> QED
    BY <2>1, <2>2 DEF Both
<1>15. n2[1] = SyncJournal /\ n3[1] = SyncJournal
  BY <1>13, <1>14, JournalRequests, KeptNotLive
<1>16. Grown(q4, tasks', <<>>)
  BY <1>1, <1>9, <1>10, GrownNone
<1>17. PICK n4 : /\ Grown(tasks, tasks', n4) /\ Len(n4) = 3 + 0 /\ n4 \in Seq(RequestType)
                 /\ Kept(n3[1], n4[1]) /\ Kept(n3[2], n4[2]) /\ Kept(n3[3], n4[3])
  <2>0. Len(n3) = 3
    BY <1>14
  <2>1. PICK new : Grown(tasks, tasks', new) /\ Both(n3, <<>>, new)
    BY <1>14, <1>16, GrownThen
  <2>2. 1 \in 1 .. Len(n3) /\ 2 \in 1 .. Len(n3) /\ 3 \in 1 .. Len(n3) /\ Len(<<>>) = 0
    BY <2>0
  <2>3. Len(new) = 3 + 0
    BY <2>0, <2>1, <2>2 DEF Both
  <2> QED
    BY <2>1, <2>2, <2>3 DEF Both
<1>18. n4[1] = SyncJournal /\ n4[3] = DeleteJournal
  BY <1>14, <1>15, <1>17, JournalRequests, KeptNotLive
<1> DEFINE d == n4[2]
<1>19. d.op = "put" /\ d.file = "database" /\ d.by = NoCall
  BY <1>5, <1>13, <1>14, <1>17 DEF Kept
<1>20. m.buffer.size >= n => d = r
  <2>1. /\ Len(q2) = Len(tasks) + 1 /\ Len(tasks) \in Nat
        /\ tasks'[Len(tasks) + 2] = d
    <3>1. Len(tasks) \in Nat /\ Len(q2) = Len(tasks) + Len(n1)
      BY <1>1, <1>11, LenProperties DEF Grown
    <3>2. \A i \in 1 .. Len(n4) : tasks'[Len(tasks) + i] = n4[i]
      BY <1>17 DEF Grown
    <3> QED
      BY <1>11, <1>17, <3>1, <3>2
  <2>2. Len(q3) = Len(q2) + 1 /\ q3[Len(q2) + 1] = r
    BY <1>4, <1>5, AppendIs DEF q3
  <2>3. \A i \in 1 .. Len(q3) : q4[i] = q3[i]
    BY <1>8, JournalRequests, AppendIs DEF q4
  <2>4. Len(tasks) + 2 \in 1 .. Len(q3) /\ Len(tasks) + 2 = Len(q2) + 1
    BY <2>1, <2>2
  <2> QED
    BY <1>10, <2>1, <2>2, <2>3, <2>4
<1>21. Grown(Queue, Queue', n4)
  BY <1>1, <1>17, QueueGrows
<1>22. Ends(Queue, Queue', n4, d)
  BY <1>17, <1>18, <1>19, <1>21 DEF Ends
<1> QED
  BY <1>2, <1>20, <1>22 DEF r

LEMMA RollbackQueue ==
  ASSUME Types, Types', Rollback
  PROVE  \E u, m, new : RollsBack(u, m) /\ Ends(Queue, Queue', new, SyncDatabase(m.buffer))
<1>1. tasks \in Seq(RequestType) /\ tasks' \in Seq(RequestType) /\ requests' = requests
  BY QueueIs, QueueIsNext DEF Rollback
<1>2. PICK u, m : RollsBack(u, m)
  BY RollbackIs
<1> DEFINE r == SyncDatabase(m.buffer)
           q2 == m.tasks
           q3 == Append(q2, r)
<1>3. Views(m) /\ KeptAll(tasks, u.tasks) /\ KeptAll(u.tasks, q2) /\ u.tasks \in Seq(RequestType)
  BY <1>2 DEF RollsBack, Wrote, Views
<1>4. q2 \in Seq(RequestType) /\ m.buffer \in File
  BY <1>3 DEF Views
<1>5. /\ r \in RequestType /\ r.op = "put" /\ r.file = "database" /\ r.by = NoCall
  BY <1>4, SyncRequest
<1>6. tasks' = Append(q3, DeleteJournal)
  BY <1>2 DEF RollsBack
<1> HIDE DEF r
<1>7. Grown(tasks, q2, <<>>)
  <2>1. KeptAll(tasks, q2)
    BY <1>3, <1>4, KeptAllAgain
  <2> QED
    BY <1>1, <1>4, <2>1, GrownNone
<1>8. q3 \in Seq(RequestType) /\ Grown(q2, q3, <<r>>) /\ Len(q3) = Len(q2) + 1
  BY <1>4, <1>5, GrownOne, AppendIs
<1>9. Grown(q3, tasks', <<DeleteJournal>>)
  BY <1>6, <1>8, JournalRequests, GrownOne
<1> HIDE DEF q2, q3
<1>10. PICK n1 : /\ Grown(tasks, q3, n1) /\ Len(n1) = 1 /\ n1 \in Seq(RequestType)
                 /\ n1[1] = r
  <2>1. PICK new : Grown(tasks, q3, new) /\ Both(<<>>, <<r>>, new)
    BY <1>7, <1>8, GrownThen
  <2>2. Len(<<>>) = 0 /\ Len(<<r>>) = 1 /\ <<r>>[1] = r
    OBVIOUS
  <2> QED
    BY <2>1, <2>2 DEF Both
<1>11. PICK n2 : /\ Grown(tasks, tasks', n2) /\ Len(n2) = 2 /\ n2 \in Seq(RequestType)
                 /\ n2[2] = DeleteJournal
  <2>1. PICK new : Grown(tasks, tasks', new) /\ Both(n1, <<DeleteJournal>>, new)
    BY <1>9, <1>10, GrownThen
  <2>2. Len(n1) = 1 /\ 1 \in 1 .. Len(<<DeleteJournal>>) /\ Len(<<DeleteJournal>>) = 1
    BY <1>10
  <2> QED
    BY <2>1, <2>2 DEF Both
<1>12. n2[1] = r
  <2>1. Len(tasks) \in Nat /\ \A i \in 1 .. Len(n2) : tasks'[Len(tasks) + i] = n2[i]
    BY <1>1, <1>11, LenProperties DEF Grown
  <2>2. Len(q3) = Len(tasks) + 1 /\ q3[Len(tasks) + 1] = r
    <3>1. Len(q3) = Len(tasks) + Len(n1) /\ \A i \in 1 .. Len(n1) : q3[Len(tasks) + i] = n1[i]
      BY <1>10 DEF Grown
    <3> QED
      BY <1>10, <3>1
  <2>3. \A i \in 1 .. Len(q3) : tasks'[i] = q3[i]
    BY <1>6, <1>8, JournalRequests, AppendIs
  <2>4. Len(tasks) + 1 \in 1 .. Len(q3) /\ 1 \in 1 .. Len(n2)
    BY <1>11, <2>1, <2>2
  <2> QED
    BY <2>1, <2>2, <2>3, <2>4
<1>13. Grown(Queue, Queue', n2)
  BY <1>1, <1>11, QueueGrows
<1>14. Ends(Queue, Queue', n2, r)
  BY <1>5, <1>11, <1>12, <1>13 DEF Ends
<1> QED
  BY <1>2, <1>14 DEF r

-----------------------------------------------------------------------------
(* Calls wait for the request they asked for                               *)

\* The call has a request or a result on its way.
Awaits(c) == calls[c].stage \in {"get", "put"}

LEMMA AskersWait ==
  ASSUME Waiting
  PROVE  /\ \A i \in 1 .. Len(Queue) : Queue[i].by # NoCall => Awaits(Queue[i].by) /\ ~Queue[i].live
         /\ \A k \in 1 .. Len(events) : Awaits(events[k].by)
  BY DEF Waiting, AskedFor, Answers, Awaits

LEMMA WaitingGrows ==
  ASSUME Types, Types', Waiting, Once, NEW new, Grown(Queue, Queue', new),
         events' = events, committed \subseteq committed',
         \A c \in Calls : Awaits(c) => calls'[c] = calls[c],
         \A i \in 1 .. Len(new) :
            \/ new[i].by = NoCall
            \/ Len(new) = 1 /\ new[i].by \in Calls /\ ~Awaits(new[i].by) /\ AskedFor(new[i], calls', committed')
  PROVE  Waiting' /\ Once'
<1> DEFINE q == Queue
           q2 == Queue'
           n == Len(q)
           Old(i) == i \in 1 .. n /\ q2[i] = q[i] /\ Awaits(q[i].by) /\ AskedFor(q[i], calls, committed)
                     /\ q2[i].by \in Calls
           Fresh(i) == i = n + 1 /\ ~Awaits(q2[i].by) /\ AskedFor(q2[i], calls', committed') /\ q2[i].by \in Calls
<1>1. /\ n \in Nat /\ Len(new) \in Nat /\ Len(q2) = n + Len(new)
      /\ \A i \in 1 .. n : Kept(q[i], q2[i])
      /\ \A i \in 1 .. Len(new) : q2[n + i] = new[i]
  BY LenProperties DEF Grown
<1>2. /\ \A i \in 1 .. n : q[i].by # NoCall => Awaits(q[i].by) /\ ~q[i].live
      /\ \A k \in 1 .. Len(events) : Awaits(events[k].by)
  BY AskersWait
<1>3. /\ \A i \in 1 .. n : AskedFor(q[i], calls, committed)
      /\ \A k \in 1 .. Len(events) : Answers(events[k], calls, committed)
  BY DEF Waiting
<1>4. /\ \A i \in 1 .. n : q[i].by \in Calls \cup {NoCall}
      /\ \A k \in 1 .. Len(events) : events[k].by \in Calls
  <2>1. \A i \in 1 .. n : q[i] \in RequestType
    BY QueueIs, ElementOfSeq
  <2>2. \A k \in 1 .. Len(events) : events[k] \in EventType
    BY TypesAre, ElementOfSeq DEF RestOK
  <2> QED
    BY <2>1, <2>2 DEF RequestType, EventType
<1> HIDE DEF q, q2, n
<1>6. ASSUME NEW i \in 1 .. Len(q2) PROVE q2[i].by = NoCall \/ Old(i) \/ Fresh(i)
  <2>1. CASE i \in 1 .. n
    <3>1. Kept(q[i], q2[i]) /\ AskedFor(q[i], calls, committed)
      BY <1>1, <1>3, <2>1
    <3>2. CASE q[i].by = NoCall
      BY <3>1, <3>2 DEF Kept
    <3>3. CASE q[i].by # NoCall
      <4>1. q2[i] = q[i]
        BY <1>2, <2>1, <3>1, <3>3, KeptNotLive
      <4> QED
        BY <1>2, <1>4, <2>1, <3>1, <3>3, <4>1
    <3> QED
      BY <3>2, <3>3
  <2>2. CASE i \notin 1 .. n
    <3> DEFINE j == i - n
    <3>1. j \in 1 .. Len(new) /\ n + j = i
      BY <1>1, <2>2
    <3> HIDE DEF j
    <3>2. q2[i] = new[j]
      BY <1>1, <3>1
    <3>3. CASE new[j].by = NoCall
      BY <3>2, <3>3
    <3>4. CASE new[j].by # NoCall
      <4>1. Len(new) = 1 /\ new[j].by \in Calls /\ ~Awaits(new[j].by) /\ AskedFor(new[j], calls', committed')
        BY <3>1, <3>4
      <4>2. i = n + 1
        BY <1>1, <3>1, <4>1
      <4> QED
        BY <3>2, <4>1, <4>2
    <3> QED
      BY <3>3, <3>4
  <2> QED
    BY <2>1, <2>2
<1>7. ASSUME NEW i \in 1 .. Len(q2) PROVE AskedFor(q2[i], calls', committed')
  <2>1. CASE q2[i].by = NoCall
    BY <2>1 DEF AskedFor
  <2>2. CASE Old(i)
    <3>1. calls'[q2[i].by] = calls[q2[i].by]
      BY <2>2
    <3> QED
      BY <2>2, <3>1 DEF AskedFor
  <2>3. CASE Fresh(i)
    BY <2>3
  <2> QED
    BY <1>6, <2>1, <2>2, <2>3
<1>8. ASSUME NEW k \in 1 .. Len(events) PROVE Answers(events[k], calls', committed')
  <2>1. calls'[events[k].by] = calls[events[k].by] /\ Answers(events[k], calls, committed)
    BY <1>2, <1>3, <1>4
  <2> QED
    BY <2>1 DEF Answers
<1>9. Waiting'
  BY <1>7, <1>8 DEF Waiting, q2
<1>10. ASSUME NEW i \in 1 .. Len(q2), NEW j \in 1 .. Len(q2), q2[i].by # NoCall, q2[i].by = q2[j].by
       PROVE  i = j
  <2>1. (Old(i) \/ Fresh(i)) /\ (Old(j) \/ Fresh(j))
    BY <1>6, <1>10
  <2>2. ~(Old(i) /\ Fresh(j)) /\ ~(Fresh(i) /\ Old(j))
    BY <1>10
  <2>3. CASE Old(i) /\ Old(j)
    <3>1. q[i].by = q[j].by /\ q[i].by # NoCall
      BY <1>10, <2>3
    <3> QED
      BY <2>3, <3>1 DEF Once, q, n
  <2>4. CASE Fresh(i) /\ Fresh(j)
    BY <2>4
  <2> QED
    BY <2>1, <2>2, <2>3, <2>4
<1>11. ASSUME NEW i \in 1 .. Len(q2), NEW k \in 1 .. Len(events) PROVE q2[i].by # events[k].by
  <2>1. CASE q2[i].by = NoCall
    BY <1>4, <2>1
  <2>2. CASE Old(i)
    BY <2>2 DEF Once, q, n
  <2>3. CASE Fresh(i)
    BY <1>2, <2>3
  <2> QED
    BY <1>6, <2>1, <2>2, <2>3
<1>12. Once'
  BY <1>10, <1>11 DEF Once, q2
<1> QED
  BY <1>9, <1>12

\* What Answer adds to the events
LEMMA AnswerIs ==
  ASSUME Types, NEW r \in RequestType, NEW bytes, NEW ok, Answer(r, bytes, ok)
  PROVE  /\ r.by = NoCall => events' = events
         /\ r.by # NoCall =>
              /\ Len(events') = Len(events) + 1
              /\ events'[Len(events) + 1] =
                    [by |-> r.by, bytes |-> bytes, ok |-> ok, torn |-> r.op = "get" /\ torn]
         /\ Len(events) \in Nat /\ \A k \in 1 .. Len(events) : events'[k] = events[k]
<1> DEFINE e == [by |-> r.by, bytes |-> bytes, ok |-> ok, torn |-> r.op = "get" /\ torn]
<1>1. events \in Seq(EventType)
  BY TypesAre DEF RestOK
<1>2. CASE r.by = NoCall
  BY <1>1, <1>2, LenProperties DEF Answer
<1>3. CASE r.by # NoCall
  <2>1. events' = Append(events, e)
    BY <1>3 DEF Answer
  <2>2. events \in Seq(EventType \cup {e}) /\ e \in EventType \cup {e}
    BY <1>1
  <2> HIDE DEF e
  <2>3. /\ Len(events') = Len(events) + 1 /\ Len(events) \in Nat
        /\ events'[Len(events) + 1] = e
        /\ \A k \in 1 .. Len(events) : events'[k] = events[k]
    BY <2>1, <2>2, AppendIs
  <2> QED
    BY <1>3, <2>3 DEF e
<1> QED
  BY <1>2, <1>3

LEMMA CallsOf ==
  ASSUME Types
  PROVE  /\ \A i \in 1 .. Len(Queue) : Queue[i] \in RequestType /\ Queue[i].by \in Calls \cup {NoCall}
         /\ \A k \in 1 .. Len(events) : events[k] \in EventType /\ events[k].by \in Calls
         /\ events \in Seq(EventType) /\ Len(events) \in Nat /\ Len(Queue) \in Nat
<1>1. \A i \in 1 .. Len(Queue) : Queue[i] \in RequestType
  BY QueueIs, ElementOfSeq
<1>2. events \in Seq(EventType)
  BY TypesAre DEF RestOK
<1>3. \A k \in 1 .. Len(events) : events[k] \in EventType
  BY <1>2, ElementOfSeq
<1> QED
  BY <1>1, <1>2, <1>3, QueueIs, LenProperties DEF RequestType, EventType

LEMMA WaitingPops ==
  ASSUME Types, Types', Waiting, Once, requests # <<>>, requests' = Tail(requests),
         tasks' = tasks, calls' = calls, committed' = committed, NEW bytes, NEW ok,
         Head(requests).op = "put" => bytes = Head(requests).bytes,
         Answer(Head(requests), bytes, ok)
  PROVE  Waiting' /\ Once'
<1> DEFINE q == Queue
           q2 == Queue'
           r == Head(requests)
           n == Len(events)
<1>1. /\ Len(q) \in Nat \ {0} /\ Len(q2) = Len(q) - 1
      /\ \A i \in 1 .. Len(q2) : q2[i] = q[i + 1]
      /\ r = q[1] /\ r \in RequestType
  BY PopQueue
<1>2. /\ r.by = NoCall => events' = events
      /\ r.by # NoCall =>
           /\ Len(events') = n + 1
           /\ events'[n + 1] =
                 [by |-> r.by, bytes |-> bytes, ok |-> ok, torn |-> r.op = "get" /\ torn]
      /\ n \in Nat /\ \A k \in 1 .. n : events'[k] = events[k]
  BY <1>1, AnswerIs
<1>3. /\ \A i \in 1 .. Len(q) : AskedFor(q[i], calls, committed)
      /\ \A k \in 1 .. n : Answers(events[k], calls, committed)
  BY DEF Waiting
<1>4. \A i \in 1 .. Len(q2) : i + 1 \in 1 .. Len(q) /\ i + 1 # 1
  BY <1>1
<1>5. 1 \in 1 .. Len(q) /\ r.by \in Calls \cup {NoCall}
  BY <1>1 DEF RequestType
<1>6. /\ \A i, j \in 1 .. Len(q) : q[i].by # NoCall /\ q[i].by = q[j].by => i = j
      /\ \A k, l \in 1 .. n : events[k].by = events[l].by => k = l
      /\ \A i \in 1 .. Len(q), k \in 1 .. n : q[i].by # events[k].by
  BY DEF Once
<1>7. \A k \in 1 .. n : events[k].by \in Calls
  BY CallsOf
<1> HIDE DEF q, q2, r, n
<1>8. ASSUME NEW i \in 1 .. Len(q2) PROVE AskedFor(q2[i], calls', committed')
  BY <1>1, <1>3, <1>4
<1>9. ASSUME NEW k \in 1 .. Len(events')
      PROVE  \/ k \in 1 .. n /\ events'[k] = events[k]
             \/ /\ k = n + 1 /\ r.by # NoCall
                /\ events'[k] =
                 [by |-> r.by, bytes |-> bytes, ok |-> ok, torn |-> r.op = "get" /\ torn]
  <2>1. CASE r.by = NoCall
    BY <1>2, <2>1 DEF n
  <2>2. CASE r.by # NoCall
    BY <1>2, <2>2
  <2> QED
    BY <2>1, <2>2
<1>10. ASSUME NEW k \in 1 .. Len(events') PROVE Answers(events'[k], calls', committed')
  <2>1. CASE k \in 1 .. n /\ events'[k] = events[k]
    BY <1>3, <2>1
  <2>2. CASE /\ r.by # NoCall
             /\ events'[k] =
                 [by |-> r.by, bytes |-> bytes, ok |-> ok, torn |-> r.op = "get" /\ torn]
    <3>1. AskedFor(r, calls, committed)
      BY <1>1, <1>3, <1>5
    <3> DEFINE e == events'[k]
    <3>2. e.by = r.by /\ e.bytes = bytes /\ e.torn = (r.op = "get" /\ torn)
      BY <2>2
    <3> HIDE DEF e
    <3>3. r.op = "put" => bytes = r.bytes
      BY DEF r
    <3>4. Answers(e, calls, committed)
      BY <2>2, <3>1, <3>2, <3>3 DEF AskedFor, Answers
    <3> QED
      BY <3>4 DEF e
  <2> QED
    BY <1>9, <2>1, <2>2
<1>11. Waiting'
  BY <1>8, <1>10 DEF Waiting, q2
<1>12. ASSUME NEW i \in 1 .. Len(q2), NEW j \in 1 .. Len(q2), q2[i].by # NoCall, q2[i].by = q2[j].by
       PROVE  i = j
  <2>1. /\ q2[i] = q[i + 1] /\ q2[j] = q[j + 1]
        /\ i + 1 \in 1 .. Len(q) /\ j + 1 \in 1 .. Len(q)
    BY <1>1, <1>4
  <2>2. q[i + 1].by # NoCall /\ q[i + 1].by = q[j + 1].by
    BY <1>12, <2>1
  <2>3. i + 1 = j + 1
    BY <1>6, <2>1, <2>2
  <2> QED
    BY <1>1, <2>3
<1>13. ASSUME NEW k \in 1 .. Len(events')
       PROVE  (k \in 1 .. n /\ events'[k].by = events[k].by)
              \/ (k = n + 1 /\ events'[k].by = r.by /\ r.by # NoCall)
  BY <1>9
<1>14. ASSUME NEW k \in 1 .. Len(events'), NEW l \in 1 .. Len(events'), events'[k].by = events'[l].by
       PROVE  k = l
  BY <1>1, <1>5, <1>6, <1>13, <1>14
<1>15. ASSUME NEW i \in 1 .. Len(q2), NEW k \in 1 .. Len(events') PROVE q2[i].by # events'[k].by
  <2>1. q2[i] = q[i + 1] /\ i + 1 \in 1 .. Len(q) /\ i + 1 # 1
    BY <1>1, <1>4
  <2>2. CASE k \in 1 .. n /\ events'[k].by = events[k].by
    BY <1>6, <2>1, <2>2
  <2>3. CASE events'[k].by = r.by /\ r.by # NoCall
    BY <1>1, <1>5, <1>6, <2>1, <2>3
  <2> QED
    BY <1>13, <2>2, <2>3
<1>16. Once'
  BY <1>12, <1>14, <1>15 DEF Once, q2
<1> QED
  BY <1>11, <1>16

LEMMA ResumeQueue ==
  ASSUME Types, Types', Waiting, Resume
  PROVE  /\ Grown(Queue, Queue', <<>>)
         /\ events # <<>> /\ Head(events) = events[1] /\ Len(events) \in Nat \ {0}
         /\ Len(events') = Len(events) - 1
         /\ \A k \in 1 .. Len(events') : events'[k] = events[k + 1]
         /\ Head(events) \in EventType /\ Answers(Head(events), calls, committed)
<1>1. events \in Seq(EventType) /\ events # <<>> /\ events' = Tail(events) /\ requests' = requests
  BY CallsOf DEF Resume
<1>2. /\ Head(events) = events[1] /\ Len(events) \in Nat \ {0}
      /\ Len(events') = Len(events) - 1
      /\ \A k \in 1 .. Len(events') : events'[k] = events[k + 1]
      /\ Head(events) \in EventType
  BY <1>1, TailIs
<1>3. 1 \in 1 .. Len(events)
  BY <1>2
<1>4. Answers(Head(events), calls, committed)
  BY <1>2, <1>3 DEF Waiting
<1>5. tasks \in Seq(RequestType) /\ tasks' \in Seq(RequestType)
  BY QueueIs, QueueIsNext
<1>6. KeptAll(tasks, tasks')
  <2> DEFINE e == Head(events)
  <2>1. CASE tasks' = tasks
    BY <2>1, KeptSelf
  <2>2. CASE Written(e) /\ tasks' # tasks
    <3>1. loaded # NoFile
      BY <2>2 DEF Written
    <3> DEFINE m == Store([buffer |-> Truncate(loaded, 0), tasks |-> tasks], 0, e.bytes)
    <3>2. tasks' = m.tasks
      BY <2>2, <3>1 DEF Written
    <3>3. e.bytes \in Content
      BY <1>4, <2>2, Committed DEF Answers, Written, Types
    <3> HIDE DEF e
    <3>4. KeptAll(tasks, m.tasks)
      BY <3>1, <3>3, OverwriteIs
    <3> QED
      BY <3>2, <3>4
  <2> QED
    BY <2>1, <2>2 DEF Resume, Loaded
<1>7. Grown(Queue, Queue', <<>>)
  BY <1>1, <1>5, <1>6, GrownNone, QueueGrows
<1> QED
  BY <1>1, <1>2, <1>4, <1>7

LEMMA ResumeWaiting ==
  ASSUME Types, Types', Waiting, Once, Resume
  PROVE  Waiting' /\ Once'
<1> DEFINE q == Queue
           q2 == Queue'
           e == Head(events)
           n == Len(events)
<1>1. /\ Grown(q, q2, <<>>) /\ e = events[1] /\ n \in Nat \ {0}
      /\ Len(events') = n - 1
      /\ \A k \in 1 .. Len(events') : events'[k] = events[k + 1]
      /\ e \in EventType
  BY ResumeQueue
<1>2. /\ Len(q2) = Len(q) /\ \A i \in 1 .. Len(q) : Kept(q[i], q2[i])
  BY <1>1, LenProperties DEF Grown
<1>3. /\ \A i \in 1 .. Len(q) : AskedFor(q[i], calls, committed)
      /\ \A k \in 1 .. n : Answers(events[k], calls, committed)
  BY DEF Waiting
<1>4. /\ \A i \in 1 .. Len(q) : q[i].by # NoCall => Awaits(q[i].by) /\ ~q[i].live
  BY AskersWait
<1>5. /\ \A i, j \in 1 .. Len(q) : q[i].by # NoCall /\ q[i].by = q[j].by => i = j
      /\ \A k, l \in 1 .. n : events[k].by = events[l].by => k = l
      /\ \A i \in 1 .. Len(q), k \in 1 .. n : q[i].by # events[k].by
  BY DEF Once
<1>6. /\ \A i \in 1 .. Len(q) : q[i].by \in Calls \cup {NoCall}
      /\ \A k \in 1 .. n : events[k].by \in Calls
      /\ 1 \in 1 .. n
      /\ \A k \in 1 .. Len(events') : k + 1 \in 1 .. n /\ k + 1 # 1
  BY <1>1, CallsOf
<1>7. \A c \in Calls : c # e.by => calls'[c] = calls[c]
  <2>1. calls \in [Calls -> [op : {"none", "open", "read", "write"},
                            stage : {"none", "get", "loaded", "put", "over"}]]
    BY TypesAre DEF RestOK
  <2>2. calls' = [calls EXCEPT ![e.by].stage = "loaded"] \/ calls' = [calls EXCEPT ![e.by] = Over]
    BY DEF Resume, Loaded, Written
  <2> QED
    BY <2>1, <2>2
<1>8. committed' = committed
  BY DEF Resume
<1> HIDE DEF q, q2, e, n
<1>9. ASSUME NEW i \in 1 .. Len(q2) PROVE q2[i].by = NoCall \/ q2[i] = q[i]
  BY <1>2, <1>4, KeptNotLive DEF Kept
<1>10. ASSUME NEW i \in 1 .. Len(q2) PROVE AskedFor(q2[i], calls', committed')
  <2>1. CASE q2[i].by = NoCall
    BY <2>1 DEF AskedFor
  <2>2. CASE q2[i].by # NoCall /\ q2[i] = q[i]
    <3>1. q[i].by \in Calls /\ q[i].by # e.by
      BY <1>1, <1>2, <1>5, <1>6, <2>2
    <3>2. calls'[q[i].by] = calls[q[i].by] /\ AskedFor(q[i], calls, committed)
      BY <1>2, <1>3, <1>7, <3>1
    <3> QED
      BY <1>8, <2>2, <3>2 DEF AskedFor
  <2> QED
    BY <1>9, <2>1, <2>2
<1>11. ASSUME NEW k \in 1 .. Len(events') PROVE Answers(events'[k], calls', committed')
  <2> DEFINE d == events[k + 1]
  <2>1. k + 1 \in 1 .. n /\ k + 1 # 1 /\ events'[k] = d
    BY <1>1, <1>6
  <2>2. d.by \in Calls /\ d.by # e.by /\ Answers(d, calls, committed)
    BY <1>1, <1>3, <1>5, <1>6, <2>1
  <2> HIDE DEF d
  <2>3. calls'[d.by] = calls[d.by]
    BY <1>7, <2>2
  <2> QED
    BY <1>8, <2>1, <2>2, <2>3 DEF Answers
<1>12. Waiting'
  BY <1>10, <1>11 DEF Waiting, q2
<1>13. ASSUME NEW i \in 1 .. Len(q2), NEW j \in 1 .. Len(q2), q2[i].by # NoCall, q2[i].by = q2[j].by
       PROVE  i = j
  BY <1>2, <1>5, <1>9, <1>13
<1>14. ASSUME NEW k \in 1 .. Len(events'), NEW l \in 1 .. Len(events'), events'[k].by = events'[l].by
       PROVE  k = l
  <2>1. /\ events'[k] = events[k + 1] /\ events'[l] = events[l + 1]
        /\ k + 1 \in 1 .. n /\ l + 1 \in 1 .. n
    BY <1>1, <1>6
  <2>2. k + 1 = l + 1
    BY <1>5, <1>14, <2>1
  <2> QED
    BY <1>1, <2>2
<1>15. ASSUME NEW i \in 1 .. Len(q2), NEW k \in 1 .. Len(events') PROVE q2[i].by # events'[k].by
  <2>1. events'[k] = events[k + 1] /\ k + 1 \in 1 .. n
    BY <1>1, <1>6
  <2>2. events[k + 1].by # NoCall
    BY <1>6, <2>1
  <2> QED
    BY <1>2, <1>5, <1>9, <2>1, <2>2
<1>16. Once'
  BY <1>13, <1>14, <1>15 DEF Once, q2
<1> QED
  BY <1>12, <1>16

LEMMA NoItems == Len(<<>>) = 0 /\ 1 .. Len(<<>>) = {}
  OBVIOUS

\* A step that adds requests nobody waits for, or none
LEMMA WaitingSyncs ==
  ASSUME Types, Types', Waiting, Once, NEW new, Grown(Queue, Queue', new),
         events' = events, committed \subseteq committed',
         \A c \in Calls : Awaits(c) => calls'[c] = calls[c],
         \A i \in 1 .. Len(new) : new[i].by = NoCall
  PROVE  Waiting' /\ Once'
  BY WaitingGrows

LEMMA WaitingStep == Types /\ Types' /\ Waiting /\ Once /\ [Next]_vars => Waiting' /\ Once'
<1> SUFFICES ASSUME Types, Types', Waiting, Once, [Next]_vars PROVE Waiting' /\ Once'
  OBVIOUS
<1>0. calls \in [Calls -> [op : {"none", "open", "read", "write"},
                           stage : {"none", "get", "loaded", "put", "over"}]]
  BY TypesAre DEF RestOK
<1>1. ASSUME NEW c \in Calls, NEW op \in {"open", "read"}, LoadFile(c, op)
      PROVE  Waiting' /\ Once'
  <2> DEFINE r == Request("get", "database", <<>>, c, FALSE)
  <2>1. /\ r \in RequestType /\ r.by = c /\ ~r.live /\ r.op = "get"
    BY NoBytes DEF Request, RequestType
  <2>2. /\ calls' = [calls EXCEPT ![c] = [op |-> op, stage |-> "get"]] /\ calls[c] = Idle
        /\ tasks' = Append(tasks, r) /\ requests' = requests
        /\ events' = events /\ committed' = committed
    BY <1>1 DEF LoadFile
  <2> HIDE DEF r
  <2>3. Grown(Queue, Queue', <<r>>)
    BY <2>1, <2>2, QueueIs, GrownOne, QueueGrows
  <2>4. AskedFor(r, calls', committed') /\ ~Awaits(c)
    BY <1>0, <2>1, <2>2 DEF AskedFor, Awaits, Idle
  <2>5. \A d \in Calls : Awaits(d) => calls'[d] = calls[d]
    BY <1>0, <2>2, <2>4
  <2> DEFINE new == <<r>>
  <2>6. Len(new) = 1 /\ \A i \in 1 .. Len(new) : new[i] = r
    OBVIOUS
  <2> HIDE DEF new
  <2>7. Grown(Queue, Queue', new)
    BY <2>3 DEF new
  <2> QED
    BY <2>1, <2>2, <2>4, <2>5, <2>6, <2>7, WaitingGrows
<1>2. ASSUME NEW c \in Calls, NEW n \in Pages, WriteFile(c, n)
      PROVE  Waiting' /\ Once'
  <2> DEFINE d == [p \in 1 .. n |-> version + 1]
             r == Request("put", "database", d, c, FALSE)
  <2>1. /\ calls' = [calls EXCEPT ![c] = [op |-> "write", stage |-> "put"]] /\ calls[c] = Idle
        /\ tasks' = Append(tasks, r) /\ requests' = requests
        /\ events' = events /\ committed' = committed \cup {d}
    BY <1>2 DEF WriteFile
  <2> HIDE DEF d
  <2>2. d \in Content
    BY <2>1 DEF Types, TypeOK
  <2>3. /\ r \in RequestType /\ r.by = c /\ ~r.live /\ r.op = "put" /\ r.file = "database"
        /\ r.bytes = d /\ ~r.torn
    BY <2>2 DEF Request, RequestType
  <2> HIDE DEF r
  <2>4. Grown(Queue, Queue', <<r>>)
    BY <2>1, <2>3, QueueIs, GrownOne, QueueGrows
  <2>5. AskedFor(r, calls', committed') /\ ~Awaits(c)
    BY <1>0, <2>1, <2>3 DEF AskedFor, Awaits, Idle
  <2>6. \A f \in Calls : Awaits(f) => calls'[f] = calls[f]
    BY <1>0, <2>1, <2>5
  <2> DEFINE new == <<r>>
  <2>7. Len(new) = 1 /\ \A i \in 1 .. Len(new) : new[i] = r
    OBVIOUS
  <2> HIDE DEF new
  <2>8. Grown(Queue, Queue', new) /\ committed \subseteq committed'
    BY <2>1, <2>4 DEF new
  <2> QED
    BY <2>1, <2>3, <2>5, <2>6, <2>7, <2>8, WaitingGrows
<1>3. ASSUME Grown(Queue, Queue', <<>>), events' = events, committed' = committed,
             \A c \in Calls : Awaits(c) => calls'[c] = calls[c]
      PROVE  Waiting' /\ Once'
  <2> DEFINE new == <<>>
  <2>1. Grown(Queue, Queue', new) /\ \A i \in 1 .. Len(new) : new[i].by = NoCall
    BY <1>3, NoItems
  <2> HIDE DEF new
  <2> QED
    BY <1>3, <2>1, WaitingSyncs
<1>4. ASSUME NEW c \in Calls, OpenDatabase(c) \/ ReadReturns(c) PROVE Waiting' /\ Once'
  <2>1. calls[c].stage = "loaded" /\ calls' = [calls EXCEPT ![c] = Over]
    BY <1>4 DEF OpenDatabase, ReadReturns
  <2>2. \A d \in Calls : Awaits(d) => calls'[d] = calls[d]
    BY <1>0, <2>1 DEF Awaits
  <2>3. Grown(Queue, Queue', <<>>) /\ events' = events /\ committed' = committed
    BY <1>4, SameQueue DEF OpenDatabase, ReadReturns, history
  <2> QED
    BY <1>3, <2>2, <2>3
<1>5. CASE RunTask
  BY <1>3, <1>5, RunTaskQueue DEF RunTask, history
<1>6. CASE Serve
  BY <1>6, WaitingPops DEF Serve, history
<1>7. CASE Refuse
  BY <1>7, WaitingPops DEF Refuse, history
<1>8. CASE Resume
  BY <1>8, ResumeWaiting
<1>9. ASSUME NEW pages \in SUBSET (2 .. MaxPages), Spill(pages) PROVE Waiting' /\ Once'
  <2> DEFINE new == <<SyncJournal>>
  <2>1. Grown(Queue, Queue', new) /\ \A i \in 1 .. Len(new) : new[i].by = NoCall
    BY <1>9, SpillQueue, JournalRequests
  <2> HIDE DEF new
  <2> QED
    BY <1>9, <2>1, WaitingSyncs DEF Spill
<1>10. ASSUME NEW new, NEW d, Ends(Queue, Queue', new, d), events' = events, calls' = calls,
              committed \subseteq committed'
       PROVE  Waiting' /\ Once'
  <2>1. ASSUME NEW i \in 1 .. Len(new) PROVE new[i].by = NoCall
    BY <1>10, JournalRequests DEF Ends
  <2> QED
    BY <1>10, <2>1, WaitingSyncs DEF Ends
<1>11. ASSUME NEW n \in Pages, NEW pages \in SUBSET (2 .. n), Commit(n, pages)
       PROVE  Waiting' /\ Once'
  <2>1. PICK m, end, new, d : Commits(n, pages, m, end) /\ Ends(Queue, Queue', new, d)
    BY <1>11, CommitQueue
  <2>2. committed \subseteq committed' /\ events' = events /\ calls' = calls
    BY <1>11, <2>1 DEF Commits, Commit
  <2> QED
    BY <1>10, <2>1, <2>2
<1>12. CASE Rollback
  <2>1. PICK u, m, new : Ends(Queue, Queue', new, SyncDatabase(m.buffer))
    BY <1>12, RollbackQueue
  <2> QED
    BY <1>10, <1>12, <2>1 DEF Rollback, history
<1>13. CASE CloseDatabase \/ Begin \/ EndTransaction
  BY <1>3, <1>13, ReadsSame
<1>14. CASE Reload
  <2>1. Queue' = <<>> /\ events' = <<>>
    BY <1>14 DEF Reload, Queue
  <2> QED
    BY <2>1 DEF Waiting, Once
<1>15. CASE UNCHANGED vars
  BY <1>3, <1>15, SameQueue DEF vars, memory, history
<1> QED
  BY <1>1, <1>2, <1>4, <1>5, <1>6, <1>7, <1>8, <1>9, <1>11, <1>12, <1>13, <1>14, <1>15 DEF Next

\* The part of the inductive invariant that the types rest on
Running == Types /\ Waiting /\ Once /\ Opening

LEMMA InitRunning == Init => Running
<1> SUFFICES ASSUME Init PROVE Running
  OBVIOUS
<1>1. Queue = <<>> /\ events = <<>> /\ \A c \in Calls : calls[c].op = "none"
  BY DEF Init, Queue, Idle
<1> QED
  BY <1>1, InitTypes DEF Running, Waiting, Once, Opening

LEMMA RunningStep == Running /\ [Next]_vars => Running'
<1> SUFFICES ASSUME Running, [Next]_vars PROVE Running'
  OBVIOUS
<1>1. Types'
  BY TypesStep DEF Running
<1>2. Waiting' /\ Once'
  BY <1>1, WaitingStep DEF Running
<1>3. Opening'
  BY OpeningStep DEF Running
<1> QED
  BY <1>1, <1>2, <1>3 DEF Running

(* The types hold together with what they rest on: every request and every *)
(* result has a call that waits for just this one, and open() runs alone   *)
(* (browser/mod.ts:16-21 only looks at what is loaded, vfs.js:77-113).     *)
THEOREM AlwaysRunning == Spec => []Running
<1>1. Init => Running
  BY InitRunning
<1>2. Running /\ [Next]_vars => Running'
  BY RunningStep
<1> QED
  BY <1>1, <1>2, PTL DEF Spec

(* Every state is of its type: no view is longer than the array it was     *)
(* taken of, and a request that IndexedDB has holds its bytes              *)
(* (browser/vfs.js:124-131).                                               *)
THEOREM BrowserVfsTypes == Spec => []TypeOK
<1>1. Running => TypeOK
  BY DEF Running, Types
<1> QED
  BY <1>1, AlwaysRunning, PTL

-----------------------------------------------------------------------------
(* Journals are deleted after they were put                                *)

\* The two requests that a journal makes (browser/vfs.js:159-163, 185-188)
PutsJournal(r) == r.op = "put" /\ r.file = "journal"
DeletesJournal(r) == r.op = "delete" /\ r.file = "journal"

\* Unless a transaction has spilled, the journal that IndexedDB has or will
\* have is yet to be deleted.
JournalEnds ==
    fails = 0 /\ reloads = 0 /\ conn # "spilled" =>
        /\ storedJournal => \E i \in 1 .. Len(Queue) : DeletesJournal(Queue[i])
        /\ \A i \in 1 .. Len(Queue) : PutsJournal(Queue[i]) =>
              \E j \in 1 .. Len(Queue) : j > i /\ DeletesJournal(Queue[j])

LEMMA JournalGrows ==
  ASSUME JournalEnds, NEW new, Grown(Queue, Queue', new),
         \A i \in 1 .. Len(new) : ~PutsJournal(new[i]),
         conn' # "spilled" => conn # "spilled", UNCHANGED <<storedJournal, fails, reloads>>
  PROVE  JournalEnds'
<1> DEFINE q == Queue
           q2 == Queue'
           n == Len(q)
<1>1. /\ n \in Nat /\ Len(new) \in Nat /\ Len(q2) = n + Len(new)
      /\ \A i \in 1 .. n : Kept(q[i], q2[i])
      /\ \A i \in 1 .. Len(new) : q2[n + i] = new[i]
  BY LenProperties DEF Grown
<1> HIDE DEF q, q2
<1>2. \A i \in 1 .. n : /\ i \in 1 .. Len(q2)
                        /\ (PutsJournal(q2[i]) <=> PutsJournal(q[i]))
                        /\ (DeletesJournal(q2[i]) <=> DeletesJournal(q[i]))
  BY <1>1 DEF Kept, PutsJournal, DeletesJournal
<1>3. ASSUME NEW i \in 1 .. Len(q2), PutsJournal(q2[i]) PROVE i \in 1 .. n
  <2> SUFFICES ASSUME i \notin 1 .. n PROVE FALSE
    OBVIOUS
  <2> DEFINE j == i - n
  <2>1. j \in 1 .. Len(new) /\ n + j = i
    BY <1>1
  <2> HIDE DEF j
  <2>2. q2[i] = new[j]
    BY <1>1, <2>1
  <2> QED
    BY <1>3, <2>1, <2>2
<1> HIDE DEF n
<1>4. ASSUME fails' = 0, reloads' = 0, conn' # "spilled"
      PROVE  /\ storedJournal' => \E i \in 1 .. Len(q2) : DeletesJournal(q2[i])
             /\ \A i \in 1 .. Len(q2) : PutsJournal(q2[i]) =>
                   \E j \in 1 .. Len(q2) : j > i /\ DeletesJournal(q2[j])
  <2>1. /\ storedJournal => \E i \in 1 .. n : DeletesJournal(q[i])
        /\ \A i \in 1 .. n : PutsJournal(q[i]) =>
              \E j \in 1 .. n : j > i /\ DeletesJournal(q[j])
    BY <1>4 DEF JournalEnds, n, q
  <2>2. storedJournal' => \E i \in 1 .. Len(q2) : DeletesJournal(q2[i])
    BY <1>2, <2>1
  <2>3. ASSUME NEW i \in 1 .. Len(q2), PutsJournal(q2[i])
        PROVE  \E j \in 1 .. Len(q2) : j > i /\ DeletesJournal(q2[j])
    <3>1. i \in 1 .. n /\ PutsJournal(q[i])
      BY <1>2, <1>3, <2>3
    <3>2. PICK j \in 1 .. n : j > i /\ DeletesJournal(q[j])
      BY <2>1, <3>1
    <3> QED
      BY <1>2, <3>2
  <2> QED
    BY <2>2, <2>3
<1> QED
  BY <1>4 DEF JournalEnds, q2

LEMMA JournalDeleted ==
  ASSUME NEW new, NEW d, Ends(Queue, Queue', new, d)
  PROVE  JournalEnds'
<1> DEFINE q2 == Queue'
           n == Len(Queue)
           m == n + Len(new)
<1>1. /\ n \in Nat /\ Len(new) \in 2 .. 3 /\ Len(q2) = m
      /\ q2[n + Len(new)] = new[Len(new)] /\ new[Len(new)] = DeleteJournal
  <2>1. /\ Grown(Queue, q2, new) /\ Len(new) \in 2 .. 3 /\ new[Len(new)] = DeleteJournal
    BY DEF Ends
  <2>2. n \in Nat /\ Len(q2) = m /\ \A i \in 1 .. Len(new) : q2[n + i] = new[i]
    BY <2>1, LenProperties DEF Grown
  <2> HIDE DEF q2, n
  <2>3. Len(new) \in 1 .. Len(new)
    BY <2>1
  <2> QED
    BY <2>1, <2>2, <2>3
<1> HIDE DEF q2, n
<1>2. m \in 1 .. Len(q2) /\ DeletesJournal(q2[m]) /\ ~PutsJournal(q2[m])
  <2>1. m \in 1 .. Len(q2) /\ q2[m] = DeleteJournal
    BY <1>1
  <2> HIDE DEF m
  <2> QED
    BY <2>1, JournalRequests DEF DeletesJournal, PutsJournal
<1> HIDE DEF m
<1>3. \A i \in 1 .. Len(q2) : PutsJournal(q2[i]) => m > i
  BY <1>1, <1>2
<1> QED
  BY <1>2, <1>3 DEF JournalEnds, q2

LEMMA JournalServed ==
  ASSUME Types, Types', JournalEnds, Serve
  PROVE  JournalEnds'
<1> DEFINE q == Queue
           q2 == Queue'
           r == Head(requests)
<1>1. /\ Len(q) \in Nat \ {0} /\ Len(q2) = Len(q) - 1
      /\ \A i \in 1 .. Len(q2) : q2[i] = q[i + 1]
      /\ r = q[1]
  BY PopQueue DEF Serve
<1>2. /\ DeletesJournal(r) => ~storedJournal'
      /\ ~PutsJournal(r) => (storedJournal' => storedJournal)
  <2>1. \/ storedJournal' = storedJournal /\ (r.op = "get" \/ (r.op = "put" /\ r.file = "database"))
        \/ storedJournal' = (r.op = "put") /\ r.file = "journal"
    BY DEF Serve, storage
  <2> HIDE DEF r
  <2>2. \/ storedJournal' = storedJournal /\ (r.op = "get" \/ (r.op = "put" /\ r.file = "database"))
        \/ r.op = "put" /\ storedJournal' /\ r.file = "journal"
        \/ r.op # "put" /\ ~storedJournal'
    BY <2>1
  <2> QED
    BY <2>2 DEF DeletesJournal, PutsJournal
<1>3. UNCHANGED <<fails, reloads, conn>>
  BY DEF Serve, history
<1> HIDE DEF q, q2, r
<1>4. \A i \in 1 .. Len(q2) : i + 1 \in 1 .. Len(q)
  BY <1>1
<1>5. ASSUME NEW j \in 1 .. Len(q), j > 1
      PROVE  j - 1 \in 1 .. Len(q2) /\ q2[j - 1] = q[j]
  <2> DEFINE k == j - 1
  <2>1. k \in 1 .. Len(q2) /\ k + 1 = j
    BY <1>1, <1>5
  <2> HIDE DEF k
  <2>2. q2[k] = q[j]
    BY <1>1, <2>1
  <2> QED
    BY <2>1, <2>2 DEF k
<1>6. ASSUME fails' = 0, reloads' = 0, conn' # "spilled"
      PROVE  /\ storedJournal' => \E i \in 1 .. Len(q2) : DeletesJournal(q2[i])
             /\ \A i \in 1 .. Len(q2) : PutsJournal(q2[i]) =>
                   \E j \in 1 .. Len(q2) : j > i /\ DeletesJournal(q2[j])
  <2>1. /\ storedJournal => \E i \in 1 .. Len(q) : DeletesJournal(q[i])
        /\ \A i \in 1 .. Len(q) : PutsJournal(q[i]) =>
              \E j \in 1 .. Len(q) : j > i /\ DeletesJournal(q[j])
    BY <1>3, <1>6 DEF JournalEnds, q
  <2>2. ASSUME storedJournal' PROVE \E i \in 1 .. Len(q2) : DeletesJournal(q2[i])
    <3>1. PICK j \in 1 .. Len(q) : j > 1 /\ DeletesJournal(q[j])
      <4>1. 1 \in 1 .. Len(q)
        BY <1>1
      <4>2. CASE PutsJournal(r)
        BY <1>1, <2>1, <4>1, <4>2
      <4>3. CASE ~PutsJournal(r)
        <5>1. PICK j \in 1 .. Len(q) : DeletesJournal(q[j])
          BY <1>2, <2>1, <2>2, <4>3
        <5>2. j # 1
          BY <1>1, <1>2, <2>2, <5>1
        <5>3. j > 1
          BY <5>2
        <5> QED
          BY <5>1, <5>3
      <4> QED
        BY <4>2, <4>3
    <3> QED
      BY <1>5, <3>1
  <2>3. ASSUME NEW i \in 1 .. Len(q2), PutsJournal(q2[i])
        PROVE  \E j \in 1 .. Len(q2) : j > i /\ DeletesJournal(q2[j])
    <3>1. q2[i] = q[i + 1] /\ i + 1 \in 1 .. Len(q)
      BY <1>1, <1>4
    <3>2. PICK j \in 1 .. Len(q) : j > i + 1 /\ DeletesJournal(q[j])
      BY <2>1, <2>3, <3>1
    <3>3. j > 1 /\ j - 1 > i
      BY <3>2
    <3> QED
      BY <1>5, <3>2, <3>3
  <2> QED
    BY <2>2, <2>3
<1> QED
  BY <1>6 DEF JournalEnds, q2

LEMMA JournalStep == Running /\ Running' /\ JournalEnds /\ [Next]_vars => JournalEnds'
<1> SUFFICES ASSUME Running, Running', JournalEnds, [Next]_vars PROVE JournalEnds'
  OBVIOUS
<1>0. Types /\ Types' /\ Waiting /\ Opening
  BY DEF Running
<1>1. ASSUME NEW c \in Calls, NEW op \in {"open", "read"}, LoadFile(c, op)
      PROVE  JournalEnds'
  <2> DEFINE r == Request("get", "database", <<>>, c, FALSE)
             new == <<r>>
  <2>1. r \in RequestType /\ ~PutsJournal(r)
    BY NoBytes DEF Request, RequestType, PutsJournal
  <2>2. tasks' = Append(tasks, r) /\ UNCHANGED <<requests, conn, storedJournal, fails, reloads>>
    BY <1>1 DEF LoadFile, storage
  <2> HIDE DEF r
  <2>3. Grown(Queue, Queue', new) /\ \A i \in 1 .. Len(new) : ~PutsJournal(new[i])
    BY <1>0, <2>1, <2>2, QueueIs, GrownOne, QueueGrows
  <2> HIDE DEF new
  <2> QED
    BY <2>2, <2>3, JournalGrows
<1>2. ASSUME NEW c \in Calls, NEW n \in Pages, WriteFile(c, n)
      PROVE  JournalEnds'
  <2> DEFINE d == [p \in 1 .. n |-> version + 1]
             r == Request("put", "database", d, c, FALSE)
             new == <<r>>
  <2>1. tasks' = Append(tasks, r) /\ UNCHANGED <<requests, conn, storedJournal, fails, reloads>>
        /\ committed' = committed \cup {d}
    BY <1>2 DEF WriteFile, storage
  <2> HIDE DEF d
  <2>2. d \in Content
    BY <1>0, <2>1 DEF Types, TypeOK
  <2>3. r \in RequestType /\ ~PutsJournal(r)
    BY <2>2 DEF Request, RequestType, PutsJournal
  <2> HIDE DEF r
  <2>4. Grown(Queue, Queue', new) /\ \A i \in 1 .. Len(new) : ~PutsJournal(new[i])
    BY <1>0, <2>1, <2>3, QueueIs, GrownOne, QueueGrows
  <2> HIDE DEF new
  <2> QED
    BY <2>1, <2>4, JournalGrows
<1>3. ASSUME Grown(Queue, Queue', <<>>), conn' # "spilled" => conn # "spilled",
             UNCHANGED <<storedJournal, fails, reloads>>
      PROVE  JournalEnds'
  <2> DEFINE new == <<>>
  <2>1. Grown(Queue, Queue', new) /\ \A i \in 1 .. Len(new) : ~PutsJournal(new[i])
    BY <1>3, NoItems
  <2> HIDE DEF new
  <2> QED
    BY <1>3, <2>1, JournalGrows
<1>4. ASSUME NEW c \in Calls, OpenDatabase(c) PROVE JournalEnds'
  <2>1. conn # "spilled"
    BY <1>0, <1>4 DEF OpenDatabase, Opening
  <2> QED
    BY <1>0, <1>3, <1>4, <2>1, SameQueue DEF OpenDatabase, storage, history
<1>5. ASSUME NEW c \in Calls, ReadReturns(c) PROVE JournalEnds'
  BY <1>0, <1>3, <1>5, SameQueue DEF ReadReturns, storage, history
<1>6. CASE RunTask
  BY <1>0, <1>3, <1>6, RunTaskQueue DEF RunTask, storage, history
<1>7. CASE Serve
  BY <1>0, <1>7, JournalServed
<1>8. CASE Refuse
  <2>1. fails' = fails + 1 /\ fails \in Nat
    BY <1>0, <1>8, TypesAre DEF RestOK, Refuse
  <2> QED
    BY <2>1 DEF JournalEnds
<1>9. CASE Resume
  BY <1>0, <1>3, <1>9, ResumeQueue DEF Resume, storage
<1>10. ASSUME NEW pages \in SUBSET (2 .. MaxPages), Spill(pages) PROVE JournalEnds'
  BY <1>10 DEF Spill, JournalEnds
<1>11. ASSUME NEW n \in Pages, NEW pages \in SUBSET (2 .. n), Commit(n, pages) PROVE JournalEnds'
  BY <1>0, <1>11, CommitQueue, JournalDeleted
<1>12. CASE Rollback
  BY <1>0, <1>12, RollbackQueue, JournalDeleted
<1>13. CASE CloseDatabase \/ Begin \/ EndTransaction
  BY <1>0, <1>3, <1>13, ReadsSame
<1>14. CASE Reload
  <2>1. reloads' = reloads + 1 /\ reloads \in Nat
    BY <1>0, <1>14, TypesAre DEF RestOK, Reload
  <2> QED
    BY <2>1 DEF JournalEnds
<1>15. CASE UNCHANGED vars
  BY <1>0, <1>3, <1>15, SameQueue DEF vars, memory, storage, history
<1> QED
  BY <1>1, <1>2, <1>4, <1>5, <1>6, <1>7, <1>8, <1>9, <1>10, <1>11, <1>12, <1>13, <1>14, <1>15 DEF Next

(* If no request fails and the page is not reloaded, no journal is left    *)
(* once all requests are done, whatever transactions spill, commit or roll *)
(* back (browser/vfs.js:159-163, 185-188).                                 *)
THEOREM JournalsGo == Spec => []JournalIsDeleted
<1>1. Init => JournalEnds
  BY NoItems DEF Init, JournalEnds, Queue
<1>2. JournalEnds /\ Running /\ Running' /\ [Next]_vars => JournalEnds'
  BY JournalStep
<1>3. JournalEnds => JournalIsDeleted
  BY NoItems DEF JournalEnds, JournalIsDeleted, Quiet, Queue
<1> QED
  BY <1>1, <1>2, <1>3, AlwaysRunning, PTL DEF Spec

-----------------------------------------------------------------------------
(* What a transaction makes of the file                                    *)

LEMMA ShowsIs ==
  ASSUME NEW file \in Content, NEW c \in Content
  PROVE  Shows(file, c) <=> Len(c) <= Len(file) /\ \A i \in 1 .. Len(c) : file[i] = c[i]
<1> DEFINE n == Len(c)
           s == SubSeq(file, 1, n)
<1>1. /\ n \in Nat /\ Len(file) \in Nat /\ file \in Seq(Cell) /\ c \in Seq(Cell)
  BY ContentIs
<1>2. CASE ~(n <= Len(file))
  BY <1>2 DEF Shows
<1>3. CASE n <= Len(file)
  <2>1. s \in Seq(Cell) /\ Len(s) = n /\ \A i \in 1 .. n : s[i] = file[i]
    BY <1>1, <1>3, Prefix
  <2>2. Shows(file, c) <=> s = c
    BY <1>3 DEF Shows
  <2>3. s = c <=> \A i \in 1 .. n : s[i] = c[i]
    <3>1. Len(c) = n
      OBVIOUS
    <3> HIDE DEF s, n
    <3> QED
      BY <1>1, <2>1, <3>1, SeqEqual
  <2> HIDE DEF s
  <2> QED
    BY <1>3, <2>1, <2>2, <2>3
<1> QED
  BY <1>2, <1>3

LEMMA ShowsSelf ==
  ASSUME NEW c \in Content
  PROVE  Shows(c, c)
  BY ShowsIs, ContentIs

LEMMA FileShowing ==
  ASSUME NEW b \in File, NEW c \in Content
  PROVE  Shows(ToArray(b), c) <=> Len(c) <= b.size /\ \A i \in 1 .. Len(c) : b.data[i] = c[i]
<1>1. /\ ToArray(b) \in Content /\ Len(ToArray(b)) = b.size /\ b.size \in Nat
      /\ \A i \in 1 .. b.size : ToArray(b)[i] = b.data[i]
  BY FileShows
<1>2. Len(c) \in Nat
  BY ContentIs
<1> HIDE DEF ToArray
<1>3. Shows(ToArray(b), c) <=>
        Len(c) <= b.size /\ \A i \in 1 .. Len(c) : ToArray(b)[i] = c[i]
  BY <1>1, ShowsIs
<1>4. Len(c) <= b.size => \A i \in 1 .. Len(c) : ToArray(b)[i] = b.data[i]
  BY <1>1, <1>2
<1> QED
  BY <1>3, <1>4

\* The file inside a transaction: pages it has written, and pages of before
Between(b, t) ==
    /\ Len(t.before) <= b.size
    /\ \A p \in t.wrote : p <= b.size /\ b.data[p] = t.version
    /\ \A p \in 1 .. Len(t.before) : p \notin t.wrote => b.data[p] = t.before[p]

\* A transaction that has not written yet sees the file as it is.
Current == conn = "open" => txn.before = ToArray(loaded)

LEMMA StartsCurrent ==
  ASSUME Types, Starts(Transaction), ~damaged'
  PROVE  Current
<1>1. conn = "open" => Transaction.before = txn.before
  BY DEF Transaction
<1> QED
  BY <1>1 DEF Starts, Current

LEMMA StartsBetween ==
  ASSUME Types, Starts(Transaction), conn = "spilled" => Between(loaded, txn), Current
  PROVE  Between(loaded, Transaction)
<1>1. loaded \in File
  BY TransactionIs
<1>2. CASE conn = "spilled"
  BY <1>2 DEF Transaction
<1>3. CASE conn # "spilled"
  <2> DEFINE t == [version |-> version + 1, before |-> txn.before, wrote |-> {}]
  <2>1. Transaction = t /\ t.before = ToArray(loaded) /\ t.wrote = {}
    BY <1>3 DEF Transaction, Starts, Current
  <2>2. /\ Len(ToArray(loaded)) = loaded.size /\ loaded.size \in Nat
        /\ \A i \in 1 .. loaded.size : ToArray(loaded)[i] = loaded.data[i]
    BY <1>1, FileShows
  <2> HIDE DEF t
  <2>3. Between(loaded, t)
    BY <2>1, <2>2 DEF Between
  <2> QED
    BY <2>1, <2>3
<1> QED
  BY <1>2, <1>3

LEMMA SpillBetween ==
  ASSUME Types, NEW pages \in SUBSET (2 .. MaxPages), Spill(pages),
         conn = "spilled" => Between(loaded, txn), Current
  PROVE  Between(loaded', txn') /\ txn'.before = Transaction.before
<1> DEFINE t == Transaction
           c == [p \in Pages |-> t.version]
<1>1. Between(loaded, t)
  BY StartsBetween DEF Spill
<1>2. PICK m : /\ Wrote(Journaled, m, pages, c) /\ loaded' = m.buffer
               /\ t \in TxnType /\ loaded \in File /\ Views(Journaled)
               /\ txn' = [t EXCEPT !.wrote = @ \cup pages]
  BY SpillIs
<1>3. /\ txn'.before = t.before /\ txn'.version = t.version /\ txn'.wrote = t.wrote \cup pages
      /\ t.before \in Content /\ t.wrote \in SUBSET Pages
  BY <1>2 DEF TxnType
<1>4. /\ m.buffer.size >= loaded.size
      /\ \A p \in pages : p <= m.buffer.size /\ m.buffer.data[p] = c[p]
      /\ \A i \in 1 .. loaded.size : i \notin pages => m.buffer.data[i] = loaded.data[i]
  BY <1>2 DEF Wrote, Journaled
<1>5. \A p \in pages : p \in Pages /\ c[p] = t.version
  BY DEF Pages
<1>6. loaded.size \in Nat /\ m.buffer.size \in Nat /\ Len(t.before) \in Nat
  <2>1. m.buffer \in File
    BY <1>2 DEF Wrote, Views
  <2> QED
    BY <1>2, <1>3, <2>1, FileIs, ContentIs
<1>7. /\ Len(t.before) <= loaded.size
      /\ \A p \in t.wrote : p <= loaded.size /\ loaded.data[p] = t.version
      /\ \A p \in 1 .. Len(t.before) : p \notin t.wrote => loaded.data[p] = t.before[p]
  BY <1>1 DEF Between
<1> HIDE DEF t, c
<1>8. ASSUME NEW p \in t.wrote \cup pages PROVE p <= m.buffer.size /\ m.buffer.data[p] = t.version
  <2>1. CASE p \in pages
    BY <1>4, <1>5, <2>1
  <2>2. CASE p \notin pages
    <3>1. p \in 1 .. loaded.size /\ p \in t.wrote
      BY <1>3, <1>6, <1>7, <2>2 DEF Pages
    <3> QED
      BY <1>4, <1>6, <1>7, <2>2, <3>1
  <2> QED
    BY <2>1, <2>2
<1>9. ASSUME NEW p \in 1 .. Len(t.before), p \notin t.wrote \cup pages
      PROVE  m.buffer.data[p] = t.before[p]
  <2>1. p \in 1 .. loaded.size
    BY <1>6, <1>7
  <2> QED
    BY <1>4, <1>7, <1>9, <2>1
<1>10. Len(t.before) <= m.buffer.size
  BY <1>4, <1>6, <1>7
<1>11. Between(m.buffer, txn')
  BY <1>3, <1>8, <1>9, <1>10 DEF Between
<1> QED
  BY <1>2, <1>3, <1>11 DEF t

\* The file that a commit syncs shows what it commits, and so does the file
\* that it leaves.
LEMMA CommitShows ==
  ASSUME Types, NEW n \in Pages, NEW pages \in SUBSET (2 .. n), Commit(n, pages),
         conn = "spilled" => Between(loaded, txn), Current,
         NEW m, NEW end, Commits(n, pages, m, end)
  PROVE  /\ m.buffer.size >= n /\ New(n, pages) \in Content
         /\ Shows(ToArray(m.buffer), New(n, pages))
         /\ Shows(ToArray(end.buffer), New(n, pages))
         /\ Shows(ToArray(m.buffer), ToArray(end.buffer))
<1> DEFINE t == Transaction
           d == Dirty(n, pages)
           e == New(n, pages)
           b == m.buffer
           f == end.buffer
<1>0. Starts(t)
  BY DEF Commit
<1>1. Between(loaded, t)
  BY <1>0, StartsBetween
<1>2. /\ e \in Content /\ Len(e) = n /\ d \in SUBSET (1 .. n)
      /\ \A p \in d : e[p] = t.version
  BY <1>0, NewIs
<1>3. /\ t \in TxnType /\ loaded \in File
      /\ Wrote(Journaled, m, d, e) /\ Views(end)
      /\ b.size >= n =>
          /\ f.data = b.data
          /\ f.size = b.size \/ f.size = n
  BY DEF Commits
<1>4. /\ Views(m) /\ b.size >= loaded.size
      /\ \A p \in d : p <= b.size /\ b.data[p] = e[p]
      /\ \A i \in 1 .. loaded.size : i \notin d => b.data[i] = loaded.data[i]
  BY <1>3 DEF Wrote, Journaled
<1>5. /\ d = {1} \cup pages \cup ({p \in 1 .. n : p > Len(t.before)} \ t.wrote)
      /\ e = [p \in 1 .. n |-> IF p \in d \cup t.wrote THEN t.version ELSE t.before[p]]
  BY DEF Dirty, New
<1>6. b \in File /\ f \in File
  BY <1>3, <1>4 DEF Views
<1>7. /\ loaded.size \in Nat /\ b.size \in Nat /\ f.size \in Nat /\ n \in Nat
      /\ t.before \in Content /\ t.wrote \in SUBSET Pages
  BY <1>3, <1>6, FileIs DEF Pages, TxnType
<1>8. Len(t.before) \in Nat
  BY <1>7, ContentIs
<1>9. /\ Len(t.before) <= loaded.size
      /\ \A p \in t.wrote : p <= loaded.size /\ loaded.data[p] = t.version
      /\ \A p \in 1 .. Len(t.before) : p \notin t.wrote => loaded.data[p] = t.before[p]
  BY <1>1 DEF Between
<1> HIDE DEF t, d, e, b, f
<1>10. ASSUME NEW p \in 1 .. n PROVE p <= b.size /\ b.data[p] = e[p]
  <2>1. CASE p \in d
    BY <1>4, <2>1
  <2>2. CASE p \notin d /\ p \in t.wrote
    <3>1. p \in 1 .. loaded.size /\ loaded.data[p] = t.version /\ e[p] = t.version
      BY <1>5, <1>7, <1>9, <2>2
    <3> QED
      BY <1>4, <1>7, <2>2, <3>1
  <2>3. CASE p \notin d /\ p \notin t.wrote
    <3>1. p \in 1 .. Len(t.before) /\ e[p] = t.before[p]
      BY <1>5, <1>7, <1>8, <2>3
    <3>2. p \in 1 .. loaded.size /\ loaded.data[p] = t.before[p]
      BY <1>7, <1>8, <1>9, <2>3, <3>1
    <3> QED
      BY <1>4, <1>7, <2>3, <3>1, <3>2
  <2> QED
    BY <2>1, <2>2, <2>3
<1>11. n \in 1 .. n
  BY DEF Pages
<1>12. b.size >= n
  BY <1>7, <1>10, <1>11
<1>13. f.data = b.data /\ n <= f.size /\ f.size <= b.size
  BY <1>3, <1>7, <1>12
<1>14. Shows(ToArray(b), e) /\ Shows(ToArray(f), e)
  BY <1>2, <1>6, <1>10, <1>12, <1>13, FileShowing
<1>15. Shows(ToArray(b), ToArray(f))
  <2>1. /\ ToArray(f) \in Content /\ Len(ToArray(f)) = f.size
        /\ \A i \in 1 .. f.size : ToArray(f)[i] = f.data[i]
    BY <1>6, FileShows
  <2> QED
    BY <1>6, <1>13, <2>1, FileShowing
<1> QED
  BY <1>2, <1>12, <1>14, <1>15 DEF b, e, f

\* A rollback leaves and syncs the file as it was.
LEMMA RollbackShows ==
  ASSUME Types, Between(loaded, txn), NEW u, NEW m, RollsBack(u, m)
  PROVE  /\ txn.before \in Content /\ loaded' = m.buffer /\ m.buffer \in File
         /\ Shows(ToArray(m.buffer), txn.before) /\ m.buffer.size = Len(txn.before)
<1> DEFINE t == txn
           b == m.buffer
           o == u.buffer
           d == DOMAIN t.before \cap t.wrote
           n == Len(t.before)
<1>1. /\ loaded \in File /\ t \in TxnType /\ Views(u) /\ loaded' = b
      /\ loaded.size >= n => o.data = loaded.data /\ o.size = n
      /\ Wrote(u, m, d, t.before)
  BY DEF RollsBack
<1>2. /\ t.before \in Content /\ t.wrote \in SUBSET Pages /\ n \in Nat
      /\ DOMAIN t.before = 1 .. n
  BY <1>1, ContentIs DEF TxnType
<1>3. /\ n <= loaded.size
      /\ \A p \in 1 .. n : p \notin t.wrote => loaded.data[p] = t.before[p]
  BY DEF Between
<1>4. /\ Views(m)
      /\ (\A p \in d : p <= o.size) => b.size = o.size
      /\ \A p \in d : p <= b.size /\ b.data[p] = t.before[p]
      /\ \A i \in 1 .. o.size : i \notin d => b.data[i] = o.data[i]
  BY <1>1 DEF Wrote
<1>5. b \in File /\ loaded.size \in Nat
  BY <1>1, <1>4, FileIs DEF Views
<1>6. d = 1 .. n \cap t.wrote
  BY <1>2
<1> HIDE DEF t, b, o, d, n
<1>7. o.data = loaded.data /\ o.size = n
  BY <1>1, <1>2, <1>3, <1>5
<1>8. b.size = n
  BY <1>2, <1>4, <1>6, <1>7
<1>9. ASSUME NEW p \in 1 .. n PROVE b.data[p] = t.before[p]
  <2>1. CASE p \in t.wrote
    BY <1>4, <1>6, <2>1
  <2>2. CASE p \notin t.wrote
    BY <1>3, <1>4, <1>6, <1>7, <2>2
  <2> QED
    BY <2>1, <2>2
<1>10. Shows(ToArray(b), t.before)
  BY <1>2, <1>5, <1>8, <1>9, FileShowing DEF n
<1> QED
  BY <1>1, <1>2, <1>5, <1>8, <1>10 DEF t, b, n

-----------------------------------------------------------------------------
(* Everything that is put, stored or loaded is a database that was known   *)

\* The file is a database that was committed or imported, or is empty.
Known(file, contents) == file = <<>> \/ \E c \in contents : Shows(file, c)

\* Unless it was written to since its js_sync, the put brings such a file.
PutsKnown(r, contents) ==
    r.op = "put" /\ r.file = "database" => r.torn \/ Known(r.bytes, contents)

\* The call that gets this result is given such a file.
BringsKnown(e, contents) ==
    e.ok => e.bytes = NoFile \/ e.torn \/ Known(e.bytes, contents)

\* All requests, all results, what is stored and what is loaded
QueueKnown(q, contents) == \A i \in 1 .. Len(q) : PutsKnown(q[i], contents)
EventsKnown(es, contents) == \A k \in 1 .. Len(es) : BringsKnown(es[k], contents)
StoredKnown(file, wrong, contents) == file = NoFile \/ wrong \/ Known(file, contents)
\* Inside a spilled transaction: what a rollback restores is such a file.
LoadedKnown(b, c, t, contents) ==
    IF c = "spilled" THEN Between(b, t) /\ Known(t.before, contents)
    ELSE b = NoFile \/ Known(ToArray(b), contents)

\* The four together: each is where another gets its file from.
KnownParts ==
    /\ QueueKnown(Queue, committed) /\ EventsKnown(events, committed)
    /\ StoredKnown(stored, torn, committed)
    /\ LoadedKnown(loaded, conn, txn, committed)

\* The inductive invariant of StoredIsSound and LoadedIsSound
AllKnown == damaged \/ KnownParts

LEMMA KnownLater ==
  ASSUME NEW file, NEW cs, NEW cs2, cs \subseteq cs2, Known(file, cs)
  PROVE  Known(file, cs2)
  BY DEF Known

LEMMA KnownItself ==
  ASSUME NEW c \in Content, NEW cs, c \in cs
  PROVE  Known(c, cs)
  BY ShowsSelf DEF Known

LEMMA QueueStaysKnown ==
  ASSUME NEW q, NEW q2, NEW new, Grown(q, q2, new), NEW cs, NEW cs2, cs \subseteq cs2,
         QueueKnown(q, cs), \A i \in 1 .. Len(new) : PutsKnown(new[i], cs2)
  PROVE  QueueKnown(q2, cs2)
<1> DEFINE n == Len(q)
<1>1. /\ n \in Nat /\ Len(new) \in Nat /\ Len(q2) = n + Len(new)
      /\ \A i \in 1 .. n : Kept(q[i], q2[i])
      /\ \A i \in 1 .. Len(new) : q2[n + i] = new[i]
  BY LenProperties DEF Grown
<1>2. \A i \in 1 .. n : PutsKnown(q[i], cs)
  BY DEF QueueKnown
<1> HIDE DEF n
<1>3. ASSUME NEW i \in 1 .. Len(q2) PROVE PutsKnown(q2[i], cs2)
  <2>1. CASE i \in 1 .. n
    <3>1. Kept(q[i], q2[i]) /\ PutsKnown(q[i], cs)
      BY <1>1, <1>2, <2>1
    <3>2. Known(q[i].bytes, cs) => Known(q[i].bytes, cs2)
      BY KnownLater
    <3> QED
      BY <3>1, <3>2 DEF Kept, PutsKnown
  <2>2. CASE i \notin 1 .. n
    <3> DEFINE j == i - n
    <3>1. j \in 1 .. Len(new) /\ n + j = i
      BY <1>1, <2>2
    <3> HIDE DEF j
    <3>2. q2[i] = new[j]
      BY <1>1, <3>1
    <3> QED
      BY <3>1, <3>2
  <2> QED
    BY <2>1, <2>2
<1> QED
  BY <1>3 DEF QueueKnown

\* A step that only adds requests to the queue
LEMMA KnownGrows ==
  ASSUME KnownParts, NEW new, Grown(Queue, Queue', new), committed \subseteq committed',
         \A i \in 1 .. Len(new) : PutsKnown(new[i], committed'),
         UNCHANGED <<events, stored, torn>>,
         LoadedKnown(loaded', conn', txn', committed')
  PROVE  KnownParts'
<1>1. QueueKnown(Queue', committed')
  BY QueueStaysKnown DEF KnownParts
<1>2. EventsKnown(events', committed')
  BY KnownLater DEF KnownParts, EventsKnown, BringsKnown
<1>3. StoredKnown(stored', torn', committed')
  BY KnownLater DEF KnownParts, StoredKnown
<1> QED
  BY <1>1, <1>2, <1>3 DEF KnownParts

LEMMA LoadedStaysKnown ==
  ASSUME KnownParts, committed \subseteq committed', UNCHANGED <<loaded, conn, txn>>
  PROVE  LoadedKnown(loaded', conn', txn', committed')
  BY KnownLater DEF KnownParts, LoadedKnown

\* A step that changes neither the file nor what is stored, nor adds a put
LEMMA KnownSame ==
  ASSUME KnownParts, Grown(Queue, Queue', <<>>), committed' = committed,
         UNCHANGED <<events, stored, torn>>, LoadedKnown(loaded', conn', txn', committed')
  PROVE  KnownParts'
<1> DEFINE new == <<>>
<1>1. Grown(Queue, Queue', new) /\ \A i \in 1 .. Len(new) : PutsKnown(new[i], committed')
  BY NoItems
<1> HIDE DEF new
<1> QED
  BY <1>1, KnownGrows

LEMMA KnownLoadFile ==
  ASSUME Running, Types', KnownParts, NEW c \in Calls, NEW op \in {"open", "read"}, LoadFile(c, op)
  PROVE  KnownParts'
<1> DEFINE r == Request("get", "database", <<>>, c, FALSE)
<1>1. r \in RequestType /\ r.op = "get"
  BY NoBytes DEF Request, RequestType
<1>2. tasks' = Append(tasks, r) /\ UNCHANGED <<loaded, conn, txn, requests, events, stored, torn, committed>>
  BY DEF LoadFile, storage
<1> HIDE DEF r
<1>3. Grown(Queue, Queue', <<r>>)
  BY <1>1, <1>2, QueueIs, GrownOne, QueueGrows DEF Running
<1> DEFINE new == <<r>>
<1>4. \A i \in 1 .. Len(new) : PutsKnown(new[i], committed')
  BY <1>1 DEF PutsKnown
<1> HIDE DEF new
<1>5. Grown(Queue, Queue', new)
  BY <1>3 DEF new
<1> QED
  BY <1>2, <1>4, <1>5, LoadedStaysKnown, KnownGrows

LEMMA KnownWriteFile ==
  ASSUME Running, Types', KnownParts, NEW c \in Calls, NEW n \in Pages, WriteFile(c, n)
  PROVE  KnownParts'
<1> DEFINE d == [p \in 1 .. n |-> version + 1]
           r == Request("put", "database", d, c, FALSE)
<1>1. /\ tasks' = Append(tasks, r) /\ committed' = committed \cup {d}
      /\ UNCHANGED <<loaded, conn, txn, requests, events, stored, torn>>
  BY DEF WriteFile, storage
<1> HIDE DEF d
<1>2. d \in Content
  BY <1>1 DEF Types, TypeOK
<1>3. r \in RequestType /\ r.bytes = d
  BY <1>2 DEF Request, RequestType
<1>4. Known(d, committed')
  BY <1>1, <1>2, KnownItself
<1> HIDE DEF r
<1>5. Grown(Queue, Queue', <<r>>)
  BY <1>1, <1>3, QueueIs, GrownOne, QueueGrows DEF Running
<1> DEFINE new == <<r>>
<1>6. \A i \in 1 .. Len(new) : PutsKnown(new[i], committed')
  BY <1>3, <1>4 DEF PutsKnown
<1> HIDE DEF new
<1>7. Grown(Queue, Queue', new)
  BY <1>5 DEF new
<1> QED
  BY <1>1, <1>6, <1>7, LoadedStaysKnown, KnownGrows

\* The next request is done or refused.
LEMMA KnownPops ==
  ASSUME Running, Types', KnownParts, requests # <<>>, requests' = Tail(requests),
         UNCHANGED <<tasks, loaded, conn, txn, committed>>, NEW bytes, NEW ok,
         Answer(Head(requests), bytes, ok),
         ok => bytes = IF Head(requests).op = "get" THEN stored ELSE Head(requests).bytes,
         \/ UNCHANGED <<stored, torn>>
         \/ /\ Head(requests).op = "put" /\ Head(requests).file = "database"
            /\ stored' = Head(requests).bytes /\ torn' = Head(requests).torn
  PROVE  KnownParts'
<1> DEFINE q == Queue
           q2 == Queue'
           r == Head(requests)
           n == Len(events)
<1>1. /\ Len(q) \in Nat \ {0} /\ Len(q2) = Len(q) - 1
      /\ \A i \in 1 .. Len(q2) : q2[i] = q[i + 1]
      /\ r = q[1] /\ r \in RequestType
  BY PopQueue DEF Running
<1>2. /\ r.by = NoCall => events' = events
      /\ r.by # NoCall =>
           /\ Len(events') = n + 1
           /\ events'[n + 1] =
                 [by |-> r.by, bytes |-> bytes, ok |-> ok, torn |-> r.op = "get" /\ torn]
      /\ n \in Nat /\ \A k \in 1 .. n : events'[k] = events[k]
  BY <1>1, AnswerIs DEF Running
<1>3. /\ \A i \in 1 .. Len(q) : PutsKnown(q[i], committed)
      /\ EventsKnown(events, committed) /\ StoredKnown(stored, torn, committed)
  BY DEF KnownParts, QueueKnown
<1>4. 1 \in 1 .. Len(q) /\ \A i \in 1 .. Len(q2) : i + 1 \in 1 .. Len(q)
  BY <1>1
<1>5. PutsKnown(r, committed) /\ AskedFor(r, calls, committed)
  BY <1>1, <1>3, <1>4 DEF Running, Waiting
<1>6. committed \subseteq Content
  BY DEF Running, Types, TypeOK
<1>7. ok => bytes = IF r.op = "get" THEN stored ELSE r.bytes
  OBVIOUS
<1>8. UNCHANGED <<stored, torn>>
      \/ (r.op = "put" /\ r.file = "database" /\ stored' = r.bytes /\ torn' = r.torn)
  OBVIOUS
<1> HIDE DEF r, q, q2
<1>9. QueueKnown(q2, committed)
  BY <1>1, <1>3, <1>4 DEF QueueKnown
<1>10. StoredKnown(stored', torn', committed)
  BY <1>3, <1>5, <1>8 DEF StoredKnown, PutsKnown
<1>11. EventsKnown(events', committed)
  <2>1. CASE r.by = NoCall
    BY <1>2, <1>3, <2>1
  <2>2. CASE r.by # NoCall
    <3> DEFINE e == [by |-> r.by, bytes |-> bytes, ok |-> ok, torn |-> r.op = "get" /\ torn]
    <3>1. e.bytes = bytes /\ e.ok = ok /\ e.torn = (r.op = "get" /\ torn)
      OBVIOUS
    <3>2. Len(events') = n + 1 /\ events'[n + 1] = e
      BY <1>2, <2>2
    <3> HIDE DEF e
    <3>3. r.op = "get" \/ (r.bytes \in committed /\ r.op = "put")
      BY <1>5, <2>2 DEF AskedFor
    <3>4. BringsKnown(e, committed)
      <4>1. CASE r.op = "get"
        BY <1>3, <1>7, <3>1, <4>1 DEF BringsKnown, StoredKnown
      <4>2. CASE r.bytes \in committed /\ r.op = "put"
        <5>1. Known(r.bytes, committed)
          BY <1>6, <4>2, KnownItself
        <5> QED
          BY <1>7, <3>1, <4>2, <5>1 DEF BringsKnown
      <4> QED
        BY <3>3, <4>1, <4>2
    <3>5. \A k \in 1 .. Len(events') : k = n + 1 \/ k \in 1 .. n
      BY <1>2, <3>2
    <3>6. \A k \in 1 .. n : BringsKnown(events[k], committed)
      BY <1>3 DEF EventsKnown
    <3> HIDE DEF n
    <3> QED
      BY <1>2, <3>2, <3>4, <3>5, <3>6 DEF EventsKnown
  <2> QED
    BY <2>1, <2>2
<1>12. LoadedKnown(loaded', conn', txn', committed')
  BY LoadedStaysKnown
<1> QED
  BY <1>9, <1>10, <1>11, <1>12 DEF KnownParts, q2

LEMMA KnownServe ==
  ASSUME Running, Types', KnownParts, Serve
  PROVE  KnownParts'
<1> DEFINE r == Head(requests)
           bytes == IF r.op = "get" THEN stored ELSE r.bytes
<1>1. /\ requests # <<>> /\ requests' = Tail(requests)
      /\ UNCHANGED <<tasks, loaded, conn, txn, committed>>
      /\ Answer(r, bytes, TRUE)
      /\ \/ UNCHANGED <<stored, torn>>
         \/ /\ r.op = "put" /\ r.file = "database"
            /\ stored' = r.bytes /\ torn' = r.torn
  BY DEF Serve, storage, history
<1> QED
  BY <1>1, KnownPops

LEMMA KnownRefuse ==
  ASSUME Running, Types', KnownParts, Refuse
  PROVE  KnownParts'
<1>1. /\ requests # <<>> /\ requests' = Tail(requests)
      /\ UNCHANGED <<tasks, loaded, conn, txn, committed, stored, torn>>
      /\ Answer(Head(requests), Head(requests).bytes, FALSE)
  BY DEF Refuse, storage, history
<1> QED
  BY <1>1, KnownPops

LEMMA NewFileShows ==
  ASSUME NEW c \in Content
  PROVE  ToArray(NewBuffer(c)) = c
<1> DEFINE b == NewBuffer(c)
           a == ToArray(b)
<1>1. b \in File /\ b.data = c /\ b.size = Len(c)
  BY NewFileIs
<1> HIDE DEF b
<1>2. a \in Content /\ Len(a) = Len(c) /\ \A i \in 1 .. Len(c) : a[i] = c[i]
  BY <1>1, FileShows
<1>3. a \in Seq(Cell) /\ c \in Seq(Cell)
  BY <1>2, ContentIs
<1> HIDE DEF a
<1>4. a = c
  BY <1>2, <1>3, SeqEqual
<1> QED
  BY <1>4 DEF a, b

\* The file is as long as c, and shows it.
LEMMA ShowsAll ==
  ASSUME NEW b \in File, NEW c \in Content, b.size = Len(c), Shows(ToArray(b), c)
  PROVE  ToArray(b) = c
<1> DEFINE a == ToArray(b)
<1>1. a \in Content /\ Len(a) = Len(c)
  BY FileShows
<1>2. a \in Seq(Cell) /\ c \in Seq(Cell)
  BY <1>1, ContentIs
<1> HIDE DEF a
<1>3. Shows(a, c)
  BY DEF a
<1>4. \A i \in 1 .. Len(c) : a[i] = c[i]
  BY <1>1, <1>3, ShowsIs
<1>5. a = c
  BY <1>1, <1>2, <1>4, SeqEqual
<1> QED
  BY <1>5 DEF a

LEMMA KnownResume ==
  ASSUME Running, Types', KnownParts, ~damaged', Resume
  PROVE  KnownParts'
<1> DEFINE e == Head(events)
           n == Len(events)
<1>0. Types /\ Waiting /\ MachineOK(loaded, tasks) /\ RestOK
  BY TypesAre DEF Running
<1>1. /\ Grown(Queue, Queue', <<>>)
      /\ e = events[1] /\ n \in Nat \ {0} /\ Len(events') = n - 1
      /\ \A k \in 1 .. Len(events') : events'[k] = events[k + 1]
      /\ e \in EventType /\ Answers(e, calls, committed)
  BY <1>0, ResumeQueue
<1>2. UNCHANGED <<conn, txn, stored, torn, committed>>
  BY DEF Resume, storage
<1>3. 1 \in 1 .. n /\ \A k \in 1 .. Len(events') : k + 1 \in 1 .. n
  BY <1>1
<1>4. \A k \in 1 .. n : BringsKnown(events[k], committed)
  BY DEF KnownParts, EventsKnown
<1>5. BringsKnown(e, committed) /\ EventsKnown(events', committed)
  BY <1>1, <1>3, <1>4 DEF EventsKnown
<1>6. LoadedKnown(loaded, conn, txn, committed)
  BY DEF KnownParts
<1>7. QueueKnown(Queue', committed')
  <2> DEFINE new == <<>>
  <2>1. Grown(Queue, Queue', new) /\ \A i \in 1 .. Len(new) : PutsKnown(new[i], committed')
    BY <1>1, NoItems
  <2> HIDE DEF new
  <2> QED
    BY <1>2, <2>1, QueueStaysKnown DEF KnownParts
<1>8. \/ e.ok /\ Loaded(e)
      \/ e.ok /\ Written(e)
      \/ loaded' = loaded
  BY DEF Resume
<1> HIDE DEF e, n
<1>9. LoadedKnown(loaded', conn, txn, committed)
  <2>1. CASE loaded' = loaded
    BY <1>6, <2>1
  <2>2. CASE e.ok /\ Loaded(e) /\ loaded' # loaded
    <3>1. loaded = NoFile /\ loaded' = NewBuffer(e.bytes) /\ ~e.torn /\ e.bytes # NoFile
      BY <2>2 DEF Loaded
    <3>2. e.bytes \in Content
      BY <1>1, <3>1 DEF EventType
    <3>3. Known(e.bytes, committed)
      BY <1>5, <2>2, <3>1 DEF BringsKnown
    <3>4. ToArray(loaded') = e.bytes
      BY <3>1, <3>2, NewFileShows
    <3>5. conn # "spilled"
      BY <1>0, <3>1 DEF RestOK
    <3> QED
      BY <3>3, <3>4, <3>5 DEF LoadedKnown
  <2>3. CASE e.ok /\ Written(e) /\ loaded' # loaded
    <3> DEFINE m == Store([buffer |-> Truncate(loaded, 0), tasks |-> tasks], 0, e.bytes)
    <3>1. loaded # NoFile /\ loaded' = m.buffer /\ conn # "spilled"
      BY <2>3 DEF Written
    <3>2. e.bytes \in committed
      BY <1>1, <2>3 DEF Answers, Written
    <3>3. e.bytes \in Content
      BY <1>0, <3>2 DEF RestOK
    <3>4. /\ Views(m) /\ m.buffer.size = Len(e.bytes)
          /\ \A i \in 1 .. Len(e.bytes) : m.buffer.data[i] = e.bytes[i]
      BY <1>0, <3>1, <3>3, OverwriteIs
    <3> HIDE DEF m
    <3>5. m.buffer \in File /\ m.buffer.size \in Nat
      BY <3>4, FileIs DEF Views
    <3>6. Shows(ToArray(m.buffer), e.bytes)
      BY <3>3, <3>4, <3>5, FileShowing
    <3> QED
      BY <3>1, <3>2, <3>6 DEF LoadedKnown, Known
  <2> QED
    BY <1>8, <2>1, <2>2, <2>3
<1>10. StoredKnown(stored', torn', committed')
  BY <1>2 DEF KnownParts
<1> QED
  BY <1>2, <1>5, <1>7, <1>9, <1>10 DEF KnownParts

LEMMA KnownOpenDatabase ==
  ASSUME Running, Types', KnownParts, NEW c \in Calls, OpenDatabase(c)
  PROVE  KnownParts'
<1>1. conn = "closed" /\ Types
  BY DEF Running, Opening, OpenDatabase
<1>2. /\ conn' = "idle" /\ loaded' = IF loaded = NoFile THEN NewBuffer(<<>>) ELSE loaded
      /\ UNCHANGED <<txn, tasks, requests, events, stored, torn, committed>>
  BY DEF OpenDatabase, storage, history
<1>3. Grown(Queue, Queue', <<>>)
  BY <1>1, <1>2, SameQueue
<1>4. ToArray(NewBuffer(<<>>)) = <<>>
  BY NoBytes, NewFileShows
<1>5. loaded = NoFile \/ Known(ToArray(loaded), committed)
  BY <1>1 DEF KnownParts, LoadedKnown
<1>6. Known(<<>>, committed)
  BY DEF Known
<1>7. LoadedKnown(loaded', conn', txn', committed')
  <2>1. CASE loaded = NoFile
    <3>1. loaded' = NewBuffer(<<>>)
      BY <1>2, <2>1
    <3> QED
      BY <1>2, <1>4, <1>6, <3>1 DEF LoadedKnown
  <2>2. CASE loaded # NoFile
    BY <1>2, <1>5, <2>2 DEF LoadedKnown
  <2> QED
    BY <2>1, <2>2
<1> QED
  BY <1>2, <1>3, <1>7, KnownSame

LEMMA KnownSpill ==
  ASSUME Running, Types', KnownParts, ~damaged', NEW pages \in SUBSET (2 .. MaxPages), Spill(pages)
  PROVE  KnownParts'
<1>1. /\ LoadedKnown(loaded, conn, txn, committed) /\ Types
      /\ conn' = "spilled" /\ UNCHANGED <<events, stored, torn, committed>>
  BY DEF KnownParts, Spill, storage, Running
<1>2. (conn = "spilled" => Between(loaded, txn)) /\ Current
  BY <1>1, StartsCurrent DEF LoadedKnown, Spill
<1>3. Between(loaded', txn') /\ txn'.before = Transaction.before
  BY <1>1, <1>2, SpillBetween
<1>4. Known(Transaction.before, committed)
  <2>1. CASE conn = "spilled"
    BY <1>1, <2>1 DEF Transaction, LoadedKnown
  <2>2. CASE conn # "spilled"
    <3>1. Transaction.before = ToArray(loaded)
      BY <1>2, <2>2 DEF Transaction, Current, Spill, Starts
    <3>2. loaded # NoFile
      BY <1>1, TransactionIs DEF Spill
    <3> QED
      BY <1>1, <2>2, <3>1, <3>2 DEF LoadedKnown
  <2> QED
    BY <2>1, <2>2
<1>5. LoadedKnown(loaded', conn', txn', committed')
  BY <1>1, <1>3, <1>4 DEF LoadedKnown
<1> DEFINE new == <<SyncJournal>>
<1>6. Grown(Queue, Queue', new) /\ \A i \in 1 .. Len(new) : PutsKnown(new[i], committed')
  BY <1>1, SpillQueue, JournalRequests DEF PutsKnown
<1> HIDE DEF new
<1> QED
  BY <1>1, <1>5, <1>6, KnownGrows

\* What the end of a transaction puts is known if the database it puts is.
LEMMA EndsKnown ==
  ASSUME NEW q, NEW q2, NEW new, NEW d, Ends(q, q2, new, d), NEW cs, Known(d.bytes, cs),
         NEW i \in 1 .. Len(new)
  PROVE  PutsKnown(new[i], cs)
<1>1. /\ Len(new) \in 2 .. 3
      /\ new[Len(new) - 1] = d /\ new[Len(new)] = DeleteJournal
      /\ Len(new) = 3 => new[1] = SyncJournal
  BY DEF Ends
<1>2. new[i] \in {d, DeleteJournal, SyncJournal}
  BY <1>1
<1> QED
  BY <1>2, JournalRequests DEF PutsKnown

LEMMA KnownCommit ==
  ASSUME Running, Types', KnownParts, ~damaged', NEW n \in Pages,
         NEW pages \in SUBSET (2 .. n), Commit(n, pages)
  PROVE  KnownParts'
<1>1. /\ LoadedKnown(loaded, conn, txn, committed) /\ Types
      /\ conn' = "idle" /\ UNCHANGED <<events, stored, torn>>
  BY DEF KnownParts, Commit, storage, Running
<1>2. (conn = "spilled" => Between(loaded, txn)) /\ Current
  BY <1>1, StartsCurrent DEF LoadedKnown, Commit
<1>3. PICK m, end, new, d :
         /\ Commits(n, pages, m, end) /\ Ends(Queue, Queue', new, d)
         /\ m.buffer.size >= n => d = SyncDatabase(m.buffer)
  BY <1>1, CommitQueue
<1> DEFINE c == New(n, pages)
<1>4. /\ m.buffer.size >= n /\ c \in Content
      /\ Shows(ToArray(m.buffer), c) /\ Shows(ToArray(end.buffer), c)
  BY <1>1, <1>2, <1>3, CommitShows
<1>5. committed' = committed \cup {c} /\ loaded' = end.buffer /\ Views(m)
  BY <1>3 DEF Commits, Wrote
<1>6. d.bytes = ToArray(m.buffer)
  BY <1>3, <1>4, <1>5, SyncRequest DEF Views
<1> HIDE DEF c
<1>7. Known(d.bytes, committed') /\ Known(ToArray(loaded'), committed')
  BY <1>4, <1>5, <1>6 DEF Known
<1>8. LoadedKnown(loaded', conn', txn', committed')
  BY <1>1, <1>7 DEF LoadedKnown
<1>9. Grown(Queue, Queue', new) /\ \A i \in 1 .. Len(new) : PutsKnown(new[i], committed')
  BY <1>3, <1>7, EndsKnown DEF Ends
<1> QED
  BY <1>1, <1>5, <1>8, <1>9, KnownGrows

LEMMA KnownRollback ==
  ASSUME Running, Types', KnownParts, Rollback
  PROVE  KnownParts'
<1>1. /\ Between(loaded, txn) /\ Known(txn.before, committed) /\ Types
      /\ conn' = "idle" /\ UNCHANGED <<events, stored, torn, committed>>
  BY DEF KnownParts, LoadedKnown, Rollback, storage, history, Running
<1>2. PICK u, m, new :
         RollsBack(u, m) /\ Ends(Queue, Queue', new, SyncDatabase(m.buffer))
  BY <1>1, RollbackQueue
<1>3. /\ txn.before \in Content /\ loaded' = m.buffer /\ m.buffer \in File
      /\ Shows(ToArray(m.buffer), txn.before) /\ m.buffer.size = Len(txn.before)
  BY <1>1, <1>2, RollbackShows
<1>4. ToArray(m.buffer) = txn.before
  BY <1>3, ShowsAll
<1> DEFINE d == SyncDatabase(m.buffer)
<1>5. d.bytes = ToArray(m.buffer) /\ Ends(Queue, Queue', new, d)
  BY <1>2, <1>3, SyncRequest
<1> HIDE DEF d
<1>6. Known(d.bytes, committed') /\ Known(ToArray(loaded'), committed')
  BY <1>1, <1>3, <1>4, <1>5
<1>7. LoadedKnown(loaded', conn', txn', committed')
  BY <1>1, <1>6 DEF LoadedKnown
<1>8. Grown(Queue, Queue', new) /\ \A i \in 1 .. Len(new) : PutsKnown(new[i], committed')
  BY <1>5, <1>6, EndsKnown DEF Ends
<1> QED
  BY <1>1, <1>7, <1>8, KnownGrows

LEMMA KnownReload ==
  ASSUME KnownParts, Reload
  PROVE  KnownParts'
<1>1. /\ Queue' = <<>> /\ events' = <<>> /\ loaded' = NoFile /\ conn' = "closed"
      /\ UNCHANGED <<stored, torn, committed>>
  BY DEF Reload, Queue, storage
<1>2. QueueKnown(Queue', committed') /\ EventsKnown(events', committed')
  BY <1>1, NoItems DEF QueueKnown, EventsKnown
<1> QED
  BY <1>1, <1>2 DEF KnownParts, LoadedKnown

LEMMA KnownStep == AllKnown /\ Running /\ Running' /\ [Next]_vars => AllKnown'
<1> SUFFICES ASSUME AllKnown, Running, Running', [Next]_vars, ~damaged' PROVE KnownParts'
  BY DEF AllKnown
<1>0. Types /\ Types'
  BY DEF Running
<1>1. ASSUME ~damaged, Grown(Queue, Queue', <<>>),
             UNCHANGED <<loaded, conn, txn, events, stored, torn, committed>>
      PROVE  KnownParts'
  BY <1>1, LoadedStaysKnown, KnownSame DEF AllKnown
<1>2. ASSUME NEW c \in Calls, NEW op \in {"open", "read"}, LoadFile(c, op) PROVE KnownParts'
  <2>1. ~damaged
    BY <1>2 DEF LoadFile
  <2> QED
    BY <1>0, <1>2, <2>1, KnownLoadFile DEF AllKnown
<1>3. ASSUME NEW c \in Calls, NEW n \in Pages, WriteFile(c, n) PROVE KnownParts'
  <2>1. ~damaged
    BY <1>3 DEF WriteFile
  <2> QED
    BY <1>0, <1>3, <2>1, KnownWriteFile DEF AllKnown
<1>4. ASSUME NEW c \in Calls, OpenDatabase(c) PROVE KnownParts'
  <2>1. ~damaged
    BY <1>4 DEF OpenDatabase, history
  <2> QED
    BY <1>0, <1>4, <2>1, KnownOpenDatabase DEF AllKnown
<1>5. ASSUME NEW c \in Calls, ReadReturns(c) PROVE KnownParts'
  BY <1>0, <1>1, <1>5, SameQueue DEF ReadReturns, storage, history
<1>6. CASE RunTask
  BY <1>0, <1>1, <1>6, RunTaskQueue DEF RunTask, storage, history
<1>7. CASE Serve
  <2>1. ~damaged
    BY <1>7 DEF Serve, history
  <2> QED
    BY <1>0, <1>7, <2>1, KnownServe DEF AllKnown
<1>8. CASE Refuse
  <2>1. ~damaged
    BY <1>8 DEF Refuse, history
  <2> QED
    BY <1>0, <1>8, <2>1, KnownRefuse DEF AllKnown
<1>9. CASE Resume
  <2>1. ~damaged
    BY <1>9 DEF Resume, Loaded, Written
  <2> QED
    BY <1>0, <1>9, <2>1, KnownResume DEF AllKnown
<1>10. ASSUME NEW pages \in SUBSET (2 .. MaxPages), Spill(pages) PROVE KnownParts'
  <2>1. ~damaged
    BY <1>10 DEF Spill, Starts
  <2> QED
    BY <1>0, <1>10, <2>1, KnownSpill DEF AllKnown
<1>11. ASSUME NEW n \in Pages, NEW pages \in SUBSET (2 .. n), Commit(n, pages) PROVE KnownParts'
  <2>1. ~damaged
    BY <1>11 DEF Commit, Starts
  <2> QED
    BY <1>0, <1>11, <2>1, KnownCommit DEF AllKnown
<1>12. CASE Rollback
  <2>1. ~damaged
    BY <1>12 DEF Rollback, history
  <2> QED
    BY <1>0, <1>12, <2>1, KnownRollback DEF AllKnown
<1>13. CASE CloseDatabase \/ Begin \/ EndTransaction
  <2>1. /\ ~damaged /\ conn # "spilled" /\ conn' # "spilled" /\ Grown(Queue, Queue', <<>>)
        /\ UNCHANGED <<loaded, events, stored, torn, committed>>
    BY <1>0, <1>13, ReadsSame
  <2>2. LoadedKnown(loaded', conn', txn', committed')
    BY <2>1 DEF AllKnown, KnownParts, LoadedKnown
  <2> QED
    BY <2>1, <2>2, KnownSame DEF AllKnown
<1>14. CASE Reload
  <2>1. ~damaged
    BY <1>14 DEF Reload
  <2> QED
    BY <1>14, <2>1, KnownReload DEF AllKnown
<1>15. CASE UNCHANGED vars
  BY <1>0, <1>1, <1>15, SameQueue DEF vars, memory, storage, history
<1> QED
  BY <1>2, <1>3, <1>4, <1>5, <1>6, <1>7, <1>8, <1>9, <1>10, <1>11, <1>12, <1>13, <1>14, <1>15 DEF Next

(* Until a torn file is loaded or write() replaces the file inside a       *)
(* transaction, every file that is put, on its way, stored or loaded is a  *)
(* database that was committed or imported (browser/vfs.js:77-131).        *)
THEOREM AlwaysKnown == Spec => []AllKnown
<1>1. ASSUME Init PROVE AllKnown
  <2>1. stored = NoFile \/ (stored \in committed /\ stored \in Content)
    BY <1>1, EarlierIs DEF Init, Earlier
  <2>2. StoredKnown(stored, torn, committed)
    BY <2>1, KnownItself DEF StoredKnown
  <2>3. Queue = <<>> /\ events = <<>> /\ loaded = NoFile /\ conn = "closed"
    BY <1>1 DEF Init, Queue
  <2> QED
    BY <2>2, <2>3, NoItems DEF AllKnown, KnownParts, QueueKnown, EventsKnown, LoadedKnown
<1>2. AllKnown /\ Running /\ Running' /\ [Next]_vars => AllKnown'
  BY KnownStep
<1> QED
  BY <1>1, <1>2, AlwaysRunning, PTL DEF Spec

(* What a reload finds is such a database, for any number of pages,        *)
(* transactions, calls, failures and reloads (browser/vfs.js:85-131).      *)
THEOREM StoredSound == Spec => []StoredIsSound
<1>1. AllKnown => StoredIsSound
  BY DEF AllKnown, KnownParts, StoredKnown, StoredIsSound, Known, Sound
<1> QED
  BY <1>1, AlwaysKnown, PTL

(* And so is the buffer that connections and read() share whenever no      *)
(* transaction has spilled, a rollback included (browser/vfs.js:57-70).    *)
THEOREM LoadedSound == Spec => []LoadedIsSound
<1>1. AllKnown => LoadedIsSound
  BY DEF AllKnown, KnownParts, LoadedKnown, LoadedIsSound, Known, Sound
<1> QED
  BY <1>1, AlwaysKnown, PTL

-----------------------------------------------------------------------------
(* IndexedDB catches up with the application                               *)

\* Some call of this kind is in progress.
Someone(cs, op) == \E c \in Calls : cs[c].op = op

\* As long as overlap is FALSE, no write() runs beside an open() or a connection.
Alone == ~overlap => ~((conn # "closed" \/ Someone(calls, "open")) /\ Someone(calls, "write"))

LEMMA AloneStays ==
  ASSUME Alone, overlap' = overlap,
         \A c \in Calls : calls'[c].op = calls[c].op \/ calls'[c].op = "none",
         conn' # "closed" => conn # "closed" \/ Someone(calls, "open")
  PROVE  Alone'
  BY DEF Alone, Someone

LEMMA AloneStep == Types /\ Alone /\ [Next]_vars => Alone'
<1> SUFFICES ASSUME Types, Alone, [Next]_vars PROVE Alone'
  OBVIOUS
<1>0. /\ calls \in [Calls -> [op : {"none", "open", "read", "write"},
                              stage : {"none", "get", "loaded", "put", "over"}]]
      /\ conn \in {"open", "spilled"} => conn # "closed"
      /\ overlap \in BOOLEAN
      /\ events # <<>> => Head(events).by \in Calls
  <2>1. events # <<>> => Head(events) \in EventType
    BY CallsOf, TailIs
  <2> QED
    BY <2>1, TypesAre DEF RestOK, EventType
<1>1. ASSUME NEW c \in Calls, NEW op \in {"open", "read"}, LoadFile(c, op) PROVE Alone'
  <2>1. /\ calls' = [calls EXCEPT ![c] = [op |-> op, stage |-> "get"]] /\ conn' = conn
        /\ overlap' = (overlap \/ (op = "open" /\ Someone(calls, "write")))
    BY <1>1 DEF LoadFile, Pending, Someone
  <2>2. ASSUME ~overlap', conn' # "closed" \/ Someone(calls', "open"), Someone(calls', "write")
        PROVE  FALSE
    <3>1. Someone(calls, "write") /\ ~overlap /\ op = "read"
      BY <1>0, <2>1, <2>2 DEF Someone
    <3>2. conn # "closed" \/ Someone(calls, "open")
      BY <1>0, <2>1, <2>2, <3>1 DEF Someone
    <3> QED
      BY <3>1, <3>2 DEF Alone
  <2> QED
    BY <2>2 DEF Alone
<1>2. ASSUME NEW c \in Calls, NEW n \in Pages, WriteFile(c, n) PROVE Alone'
  <2>1. /\ calls' = [calls EXCEPT ![c] = [op |-> "write", stage |-> "put"]] /\ conn' = conn
        /\ overlap' = (overlap \/ conn # "closed" \/ Someone(calls, "open"))
    BY <1>2 DEF WriteFile, Pending, Someone
  <2>2. ASSUME ~overlap', conn' # "closed" \/ Someone(calls', "open") PROVE FALSE
    BY <1>0, <2>1, <2>2 DEF Someone
  <2> QED
    BY <2>2 DEF Alone
<1>3. ASSUME NEW c \in Calls, OpenDatabase(c) PROVE Alone'
  <2>1. Someone(calls, "open") /\ calls' = [calls EXCEPT ![c] = Over] /\ overlap' = overlap
    BY <1>3 DEF OpenDatabase, Someone, history
  <2> QED
    BY <1>0, <2>1, AloneStays DEF Over
<1>4. ASSUME NEW c \in Calls, ReadReturns(c) PROVE Alone'
  <2>1. calls' = [calls EXCEPT ![c] = Over] /\ overlap' = overlap /\ conn' = conn
    BY <1>4 DEF ReadReturns, history
  <2> QED
    BY <1>0, <2>1, AloneStays DEF Over
<1>5. CASE Resume
  <2> DEFINE b == Head(events).by
  <2>1. /\ b \in Calls /\ overlap' = overlap /\ conn' = conn
        /\ calls' = [calls EXCEPT ![b].stage = "loaded"] \/ calls' = [calls EXCEPT ![b] = Over]
    BY <1>0, <1>5 DEF Resume, Loaded, Written
  <2> HIDE DEF b
  <2> QED
    BY <1>0, <2>1, AloneStays DEF Over
<1>6. ASSUME calls' = calls, overlap' = overlap, conn' # "closed" => conn # "closed" PROVE Alone'
  BY <1>6, AloneStays
<1>7. CASE RunTask
  BY <1>6, <1>7 DEF RunTask, history
<1>8. CASE Serve
  BY <1>6, <1>8 DEF Serve, history
<1>9. CASE Refuse
  BY <1>6, <1>9 DEF Refuse, history
<1>10. ASSUME NEW pages \in SUBSET (2 .. MaxPages), Spill(pages) PROVE Alone'
  <2>1. conn \in {"open", "spilled"} /\ calls' = calls /\ overlap' = overlap
    BY <1>10 DEF Spill, Starts
  <2> QED
    BY <1>6, <2>1
<1>11. ASSUME NEW n \in Pages, NEW pages \in SUBSET (2 .. n), Commit(n, pages) PROVE Alone'
  <2>1. conn \in {"open", "spilled"} /\ calls' = calls /\ overlap' = overlap
    BY <1>11 DEF Commit, Starts
  <2> QED
    BY <1>6, <2>1
<1>12. CASE Rollback
  BY <1>0, <1>6, <1>12 DEF Rollback, history
<1>13. CASE CloseDatabase \/ Begin \/ EndTransaction
  BY <1>6, <1>13 DEF CloseDatabase, Begin, EndTransaction, history
<1>14. CASE Reload
  <2>1. conn' = "closed" /\ \A c \in Calls : calls'[c].op = "none"
    BY <1>14 DEF Reload, Idle
  <2> QED
    BY <2>1 DEF Alone, Someone
<1>15. CASE UNCHANGED vars
  BY <1>6, <1>15 DEF vars, memory, history
<1> QED
  BY <1>1, <1>2, <1>3, <1>4, <1>5, <1>7, <1>8, <1>9, <1>10, <1>11, <1>12, <1>13, <1>14, <1>15
     DEF Next

-----------------------------------------------------------------------------
\* A put of the connection (js_sync), one of write(), and the result of one of write()
SyncsFile(r) == r.op = "put" /\ r.file = "database" /\ r.by = NoCall
ImportsFile(r) == r.op = "put" /\ r.by # NoCall
Imported(e, cs) == e.ok /\ cs[e.by].op = "write"

\* None and the last of them, in the queue q and among the results es
NoSync(q) == \A i \in 1 .. Len(q) : ~SyncsFile(q[i])
NoImport(es, cs) == \A k \in 1 .. Len(es) : ~Imported(es[k], cs)
LastSync(q, i) == SyncsFile(q[i]) /\ \A j \in 1 .. Len(q) : j > i => ~SyncsFile(q[j])
LastImport(es, cs, k) == Imported(es[k], cs) /\ \A l \in 1 .. Len(es) : l > k => ~Imported(es[l], cs)
NoImportFrom(es, cs, k) == \A l \in 1 .. Len(es) : l >= k => ~Imported(es[l], cs)

\* The file b as IndexedDB has it
Matches(file, b) == IF file = NoFile THEN ToArray(b) = <<>> ELSE Shows(file, ToArray(b))

\* The puts of the connection come before those of write().
SyncsFirst(q, es, cs) ==
    /\ \A i, j \in 1 .. Len(q) : SyncsFile(q[i]) /\ ImportsFile(q[j]) => i < j
    /\ NoSync(q) \/ NoImport(es, cs)

\* The last put of the connection brings the file as it is.
SyncsAll(q, b) ==
    \A i \in 1 .. Len(q) : LastSync(q, i) => b # NoFile /\ Shows(q[i].bytes, ToArray(b))

\* IndexedDB has the latest import that the buffer is yet to get, or what the buffer has.
StorageFollows(q, es, cs, file, b) ==
    NoSync(q) =>
        /\ \A k \in 1 .. Len(es) : LastImport(es, cs, k) => file = es[k].bytes
        /\ NoImport(es, cs) /\ b # NoFile => Matches(file, b)

\* A file that is not loaded was not written to, and what was read of it is as
\* IndexedDB has it, or older than an import that is yet to come.
Unloaded(q, es, cs, file) ==
    /\ NoSync(q)
    /\ \A k \in 1 .. Len(es) : es[k].ok /\ NoImportFrom(es, cs, k) => es[k].bytes = file

\* Some open() is about to have SQLite open the file.
Opened(cs) == \E c \in Calls : cs[c] = [op |-> "open", stage |-> "loaded"]

\* The inductive invariant of StorageCatchesUp
CaughtUp ==
    /\ Alone
    /\ ~overlap => SyncsFirst(Queue, events, calls)
    /\ ~overlap /\ ~damaged /\ conn # "spilled" => SyncsAll(Queue, loaded)
    /\ ~overlap /\ ~damaged /\ conn # "spilled" /\ ~unsaved =>
          StorageFollows(Queue, events, calls, stored, loaded)
    /\ loaded = NoFile => Unloaded(Queue, events, calls, stored)
    /\ loaded = NoFile /\ ~overlap /\ Opened(calls) => stored = NoFile

\* The calls that wait for results do what they did.
SameImports(es, cs, cs2) == \A k \in 1 .. Len(es) : Imported(es[k], cs2) <=> Imported(es[k], cs)

LEMMA WaitersKeep ==
  ASSUME Running, \A c \in Calls : Awaits(c) => calls'[c] = calls[c]
  PROVE  SameImports(events, calls, calls')
<1>1. \A k \in 1 .. Len(events) : events[k].by \in Calls /\ Awaits(events[k].by)
  BY CallsOf, AskersWait DEF Running
<1> QED
  BY <1>1 DEF SameImports, Imported

\* No request's bytes change.
Plain(q, q2) == \A i \in 1 .. Len(q) : q2[i].bytes = q[i].bytes

LEMMA GrownSyncs ==
  ASSUME NEW q, NEW q2, NEW new, Grown(q, q2, new),
         \A i \in 1 .. Len(new) : ~SyncsFile(new[i])
  PROVE  /\ Len(q) \in Nat /\ Len(q2) \in Nat /\ Len(q) <= Len(q2)
         /\ \A i \in 1 .. Len(q) : /\ SyncsFile(q2[i]) <=> SyncsFile(q[i])
                                   /\ ImportsFile(q2[i]) <=> ImportsFile(q[i])
         /\ \A i \in 1 .. Len(q2) : SyncsFile(q2[i]) => i \in 1 .. Len(q)
<1> DEFINE n == Len(q)
<1>1. /\ n \in Nat /\ Len(new) \in Nat /\ Len(q2) = n + Len(new)
      /\ \A i \in 1 .. n : Kept(q[i], q2[i])
      /\ \A i \in 1 .. Len(new) : q2[n + i] = new[i]
  BY LenProperties DEF Grown
<1> HIDE DEF n
<1>2. \A i \in 1 .. n : /\ SyncsFile(q2[i]) <=> SyncsFile(q[i])
                        /\ ImportsFile(q2[i]) <=> ImportsFile(q[i])
  BY <1>1 DEF Kept, SyncsFile, ImportsFile
<1>3. ASSUME NEW i \in 1 .. Len(q2), SyncsFile(q2[i]) PROVE i \in 1 .. n
  <2> SUFFICES ASSUME i \notin 1 .. n PROVE FALSE
    OBVIOUS
  <2> DEFINE j == i - n
  <2>1. j \in 1 .. Len(new) /\ n + j = i
    BY <1>1
  <2> HIDE DEF j
  <2>2. q2[i] = new[j]
    BY <1>1, <2>1
  <2> QED
    BY <1>3, <2>1, <2>2
<1>4. n \in Nat /\ Len(q2) \in Nat /\ n <= Len(q2)
  BY <1>1
<1> QED
  BY <1>2, <1>3, <1>4 DEF n

LEMMA RunTaskPlain ==
  ASSUME Types, Types', RunTask
  PROVE  Plain(Queue, Queue')
<1> DEFINE q == Queue
           q2 == Queue'
           n == Len(requests)
           k == Len(tasks)
           r == [Head(tasks) EXCEPT !.live = FALSE]
<1>1. /\ q \in Seq(RequestType) /\ Len(q) = n + k /\ n \in Nat /\ k \in Nat
      /\ requests \in Seq(RequestType) /\ tasks \in Seq(RequestType)
      /\ \A i \in 1 .. n : q[i] = requests[i]
      /\ \A i \in 1 .. k : q[n + i] = tasks[i]
  BY QueueIs
<1>2. /\ q2 \in Seq(RequestType) /\ Len(q2) = Len(requests') + Len(tasks')
      /\ \A i \in 1 .. Len(requests') : q2[i] = requests'[i]
      /\ \A i \in 1 .. Len(tasks') : q2[Len(requests') + i] = tasks'[i]
  BY QueueIsNext
<1>3. /\ k \in Nat \ {0} /\ Len(tasks') = k - 1
      /\ \A i \in 1 .. k - 1 : tasks'[i] = tasks[i + 1]
      /\ Head(tasks) = tasks[1] /\ Head(tasks) \in RequestType
  BY <1>1, TailIs DEF RunTask
<1>4. r \in RequestType /\ r.bytes = Head(tasks).bytes
  BY <1>3 DEF RequestType
<1>5. requests' = Append(requests, r)
  BY DEF RunTask
<1> HIDE DEF r
<1>6. /\ Len(requests') = n + 1
      /\ \A i \in 1 .. n : requests'[i] = requests[i]
      /\ requests'[n + 1] = r
  BY <1>1, <1>4, <1>5, AppendIs
<1> HIDE DEF q, q2, n, k
<1>7. ASSUME NEW i \in 1 .. Len(q) PROVE q2[i].bytes = q[i].bytes
  <2>1. CASE i \in 1 .. n
    <3>1. i \in 1 .. n + 1
      BY <1>1, <2>1
    <3> QED
      BY <1>1, <1>2, <1>6, <2>1, <3>1
  <2>2. CASE i = n + 1
    <3>1. 1 \in 1 .. k /\ n + 1 \in 1 .. n + 1
      BY <1>1, <1>3
    <3>2. q[n + 1] = Head(tasks) /\ q2[n + 1] = r
      BY <1>1, <1>2, <1>3, <1>6, <3>1
    <3> QED
      BY <1>4, <2>2, <3>2
  <2>3. CASE i > n + 1
    <3> DEFINE j == i - (n + 1)
    <3>0. Len(q) = n + k /\ n \in Nat /\ k \in Nat \ {0}
      BY <1>1, <1>3
    <3>1. j \in 1 .. k - 1 /\ j + 1 \in 1 .. k /\ (n + 1) + j = i /\ n + (j + 1) = i
      BY <2>3, <3>0
    <3> HIDE DEF j
    <3>2. q2[(n + 1) + j] = tasks'[j]
      BY <1>2, <1>3, <1>6, <3>1
    <3>3. q[n + (j + 1)] = tasks[j + 1] /\ tasks'[j] = tasks[j + 1]
      BY <1>1, <1>3, <3>1
    <3> QED
      BY <3>1, <3>2, <3>3
  <2> QED
    BY <1>1, <2>1, <2>2, <2>3
<1> QED
  BY <1>7 DEF Plain, q, q2

LEMMA AppendPlain ==
  ASSUME Types, NEW r \in RequestType, tasks' = Append(tasks, r), requests' = requests
  PROVE  Plain(Queue, Queue')
<1> DEFINE q == Queue
<1>1. q \in Seq(RequestType)
  BY QueueIs
<1>2. requests \in Seq(RequestType) /\ tasks \in Seq(RequestType)
  BY QueueIs
<1>3. requests \o Append(tasks, r) = Append(requests \o tasks, r)
  BY <1>2
<1>4. Queue' = Append(q, r)
  BY <1>3 DEF Queue
<1> HIDE DEF q
<1>5. \A i \in 1 .. Len(q) : Append(q, r)[i] = q[i]
  BY <1>1, AppendIs
<1> QED
  BY <1>4, <1>5 DEF Plain, q

LEMMA PutsNothing ==
  ASSUME NEW q, NEW q2, NEW new, Grown(q, q2, new), Plain(q, q2),
         \A i \in 1 .. Len(new) : ~SyncsFile(new[i]),
         NEW es, NEW cs, NEW cs2, SameImports(es, cs, cs2), NEW file, NEW b
  PROVE  /\ SyncsFirst(q, es, cs) => SyncsFirst(q2, es, cs2)
         /\ SyncsAll(q, b) => SyncsAll(q2, b)
         /\ StorageFollows(q, es, cs, file, b) => StorageFollows(q2, es, cs2, file, b)
         /\ Unloaded(q, es, cs, file) => Unloaded(q2, es, cs2, file)
<1> DEFINE n == Len(q)
<1>1. /\ n \in Nat /\ Len(q2) \in Nat /\ n <= Len(q2)
      /\ \A i \in 1 .. n : /\ SyncsFile(q2[i]) <=> SyncsFile(q[i])
                           /\ ImportsFile(q2[i]) <=> ImportsFile(q[i])
      /\ \A i \in 1 .. Len(q2) : SyncsFile(q2[i]) => i \in 1 .. n
  BY GrownSyncs
<1>2. \A i \in 1 .. n : q2[i].bytes = q[i].bytes
  BY DEF Plain
<1>3. \A k \in 1 .. Len(es) : Imported(es[k], cs2) <=> Imported(es[k], cs)
  BY DEF SameImports
<1>4. NoSync(q2) <=> NoSync(q)
  <2> HIDE DEF n
  <2>1. \A i \in 1 .. n : i \in 1 .. Len(q2)
    BY <1>1
  <2> QED
    BY <1>1, <2>1 DEF NoSync, n
<1>5. /\ NoImport(es, cs2) <=> NoImport(es, cs)
      /\ \A k \in 1 .. Len(es) : LastImport(es, cs2, k) <=> LastImport(es, cs, k)
      /\ \A k \in 1 .. Len(es) : NoImportFrom(es, cs2, k) <=> NoImportFrom(es, cs, k)
  BY <1>3 DEF NoImport, LastImport, NoImportFrom
<1>6. SyncsFirst(q, es, cs) => SyncsFirst(q2, es, cs2)
  <2> SUFFICES ASSUME SyncsFirst(q, es, cs) PROVE SyncsFirst(q2, es, cs2)
    OBVIOUS
  <2>1. ASSUME NEW i \in 1 .. Len(q2), NEW j \in 1 .. Len(q2), SyncsFile(q2[i]), ImportsFile(q2[j])
        PROVE  i < j
    <3>1. i \in 1 .. n /\ SyncsFile(q[i])
      BY <1>1, <2>1
    <3>2. CASE j \in 1 .. n
      BY <1>1, <2>1, <3>1, <3>2 DEF SyncsFirst
    <3>3. CASE j \notin 1 .. n
      BY <1>1, <3>1, <3>3
    <3> QED
      BY <3>2, <3>3
  <2> QED
    BY <1>4, <1>5, <2>1 DEF SyncsFirst
<1>7. SyncsAll(q, b) => SyncsAll(q2, b)
  <2> SUFFICES ASSUME SyncsAll(q, b), NEW i \in 1 .. Len(q2), LastSync(q2, i)
               PROVE  b # NoFile /\ Shows(q2[i].bytes, ToArray(b))
    BY DEF SyncsAll
  <2>1. i \in 1 .. n
    BY <1>1 DEF LastSync
  <2>2. LastSync(q, i)
    <3> HIDE DEF n
    <3>1. \A j \in 1 .. n : j \in 1 .. Len(q2)
      BY <1>1
    <3> QED
      BY <1>1, <2>1, <3>1 DEF LastSync, n
  <2> QED
    BY <1>2, <2>1, <2>2 DEF SyncsAll
<1>8. StorageFollows(q, es, cs, file, b) => StorageFollows(q2, es, cs2, file, b)
  BY <1>4, <1>5 DEF StorageFollows
<1>9. Unloaded(q, es, cs, file) => Unloaded(q2, es, cs2, file)
  BY <1>4, <1>5 DEF Unloaded
<1> QED
  BY <1>6, <1>7, <1>8, <1>9

\* A step that changes neither the file nor IndexedDB, nor starts a put of it
LEMMA QuietStep ==
  ASSUME CaughtUp, NEW new, Grown(Queue, Queue', new), Plain(Queue, Queue'),
         \A i \in 1 .. Len(new) : ~SyncsFile(new[i]),
         UNCHANGED <<events, loaded, stored, unsaved, damaged>>,
         SameImports(events, calls, calls'),
         ~overlap' => ~overlap, conn' # "spilled" => conn # "spilled",
         loaded = NoFile /\ Opened(calls') => Opened(calls), Alone'
  PROVE  CaughtUp'
<1>1. /\ SyncsFirst(Queue, events, calls) => SyncsFirst(Queue', events, calls')
      /\ SyncsAll(Queue, loaded) => SyncsAll(Queue', loaded)
      /\ StorageFollows(Queue, events, calls, stored, loaded)
            => StorageFollows(Queue', events, calls', stored, loaded)
      /\ Unloaded(Queue, events, calls, stored) => Unloaded(Queue', events, calls', stored)
  BY PutsNothing
<1> QED
  BY <1>1 DEF CaughtUp

LEMMA QuietCalls ==
  ASSUME CaughtUp, Running, Grown(Queue, Queue', <<>>), Plain(Queue, Queue'),
         UNCHANGED <<events, loaded, stored, unsaved, damaged, overlap>>,
         \A c \in Calls : Awaits(c) => calls'[c] = calls[c],
         conn' # "spilled" => conn # "spilled",
         loaded = NoFile /\ Opened(calls') => Opened(calls), Alone'
  PROVE  CaughtUp'
<1> DEFINE new == <<>>
<1>1. Grown(Queue, Queue', new) /\ \A i \in 1 .. Len(new) : ~SyncsFile(new[i])
  BY NoItems
<1> HIDE DEF new
<1>2. SameImports(events, calls, calls')
  BY WaitersKeep
<1> QED
  BY <1>1, <1>2, QuietStep

LEMMA LoadFileCaughtUp ==
  ASSUME CaughtUp, Running, Types', Alone', NEW c \in Calls, NEW op \in {"open", "read"}, LoadFile(c, op)
  PROVE  CaughtUp'
<1> DEFINE r == Request("get", "database", <<>>, c, FALSE)
<1>0. /\ calls \in [Calls -> [op : {"none", "open", "read", "write"},
                              stage : {"none", "get", "loaded", "put", "over"}]]
      /\ overlap \in BOOLEAN
  BY TypesAre DEF RestOK, Running
<1>1. r \in RequestType /\ r.op = "get"
  BY NoBytes DEF Request, RequestType
<1>2. /\ tasks' = Append(tasks, r) /\ UNCHANGED <<loaded, conn, requests, events, stored, unsaved, damaged>>
      /\ calls' = [calls EXCEPT ![c] = [op |-> op, stage |-> "get"]] /\ calls[c] = Idle
      /\ ~overlap' => ~overlap
  BY <1>0 DEF LoadFile, storage
<1> HIDE DEF r
<1>3. Grown(Queue, Queue', <<r>>) /\ Plain(Queue, Queue')
  BY <1>1, <1>2, QueueIs, GrownOne, QueueGrows, AppendPlain DEF Running
<1> DEFINE new == <<r>>
<1>4. \A i \in 1 .. Len(new) : ~SyncsFile(new[i])
  BY <1>1 DEF SyncsFile
<1> HIDE DEF new
<1>5. Grown(Queue, Queue', new)
  BY <1>3 DEF new
<1>6. \A d \in Calls : Awaits(d) => calls'[d] = calls[d]
  BY <1>0, <1>2 DEF Awaits, Idle
<1>7. SameImports(events, calls, calls')
  BY <1>6, WaitersKeep
<1>8. Opened(calls') => Opened(calls)
  BY <1>0, <1>2 DEF Opened
<1> QED
  BY <1>2, <1>3, <1>4, <1>5, <1>7, <1>8, QuietStep

LEMMA WriteFileCaughtUp ==
  ASSUME CaughtUp, Running, Types', Alone', NEW c \in Calls, NEW n \in Pages, WriteFile(c, n)
  PROVE  CaughtUp'
<1> DEFINE d == [p \in 1 .. n |-> version + 1]
           r == Request("put", "database", d, c, FALSE)
<1>0. /\ calls \in [Calls -> [op : {"none", "open", "read", "write"},
                              stage : {"none", "get", "loaded", "put", "over"}]]
      /\ overlap \in BOOLEAN
  BY TypesAre DEF RestOK, Running
<1>1. /\ tasks' = Append(tasks, r) /\ UNCHANGED <<loaded, conn, requests, events, stored, unsaved, damaged>>
      /\ calls' = [calls EXCEPT ![c] = [op |-> "write", stage |-> "put"]] /\ calls[c] = Idle
      /\ ~overlap' => ~overlap
      /\ committed' = committed \cup {d}
  BY <1>0 DEF WriteFile, storage
<1> HIDE DEF d
<1>2. d \in Content
  BY <1>1 DEF Types, TypeOK
<1>3. r \in RequestType /\ r.by = c
  BY <1>2 DEF Request, RequestType
<1> HIDE DEF r
<1>4. Grown(Queue, Queue', <<r>>) /\ Plain(Queue, Queue')
  BY <1>1, <1>3, QueueIs, GrownOne, QueueGrows, AppendPlain DEF Running
<1> DEFINE new == <<r>>
<1>5. \A i \in 1 .. Len(new) : ~SyncsFile(new[i])
  BY <1>3 DEF SyncsFile
<1> HIDE DEF new
<1>6. Grown(Queue, Queue', new)
  BY <1>4 DEF new
<1>7. \A f \in Calls : Awaits(f) => calls'[f] = calls[f]
  BY <1>0, <1>1 DEF Awaits, Idle
<1>8. SameImports(events, calls, calls')
  BY <1>7, WaitersKeep
<1>9. Opened(calls') => Opened(calls)
  BY <1>0, <1>1 DEF Opened
<1> QED
  BY <1>1, <1>4, <1>5, <1>6, <1>8, <1>9, QuietStep

LEMMA OpenDatabaseCaughtUp ==
  ASSUME CaughtUp, Running, Types', Alone', NEW c \in Calls, OpenDatabase(c)
  PROVE  CaughtUp'
<1>0. /\ calls \in [Calls -> [op : {"none", "open", "read", "write"},
                              stage : {"none", "get", "loaded", "put", "over"}]]
      /\ conn = "closed"
  BY TypesAre DEF RestOK, Running, Opening, OpenDatabase
<1>1. /\ calls[c] = [op |-> "open", stage |-> "loaded"] /\ calls' = [calls EXCEPT ![c] = Over]
      /\ conn' = "idle" /\ loaded' = IF loaded = NoFile THEN NewBuffer(<<>>) ELSE loaded
      /\ UNCHANGED <<tasks, requests, events, stored, unsaved, damaged, overlap>>
  BY DEF OpenDatabase, storage, history
<1>2. \A d \in Calls : Awaits(d) => calls'[d] = calls[d]
  BY <1>0, <1>1 DEF Awaits
<1>3. Queue' = Queue /\ Grown(Queue, Queue', <<>>) /\ Plain(Queue, Queue')
  <2>1. Queue' = Queue
    BY <1>1 DEF Queue
  <2> QED
    BY <1>1, <2>1, SameQueue DEF Plain, Running
<1>4. CASE loaded # NoFile
  BY <1>0, <1>1, <1>2, <1>3, <1>4, QuietCalls
<1>5. CASE loaded = NoFile
  <2>1. loaded' = NewBuffer(<<>>) /\ loaded' # NoFile /\ ToArray(loaded') = <<>>
    BY <1>1, <1>5, NoBytes, NewFileIs, FileExists, NewFileShows
  <2>2. ~overlap => stored = NoFile
    BY <1>1, <1>5 DEF CaughtUp, Opened
  <2>3. SameImports(events, calls, calls')
    BY <1>2, WaitersKeep
  <2>4. NoSync(Queue)
    BY <1>5 DEF CaughtUp, Unloaded
  <2>5. ~overlap => NoImport(events, calls)
    <3>1. ~overlap => ~Someone(calls, "write")
      BY <1>1 DEF CaughtUp, Alone, Someone
    <3>2. \A k \in 1 .. Len(events) : events[k].by \in Calls
      BY CallsOf DEF Running
    <3> QED
      BY <3>1, <3>2 DEF NoImport, Imported, Someone
  <2>6. ~overlap => NoImport(events', calls')
    BY <1>1, <2>3, <2>5 DEF NoImport, SameImports
  <2>7. ~overlap' => SyncsFirst(Queue', events', calls')
    BY <1>1, <1>3, <2>4, <2>6 DEF SyncsFirst, NoSync
  <2>8. SyncsAll(Queue', loaded')
    BY <1>3, <2>4 DEF SyncsAll, LastSync, NoSync
  <2>9. ~overlap' => StorageFollows(Queue', events', calls', stored', loaded')
    BY <1>1, <2>1, <2>2, <2>6 DEF StorageFollows, LastImport, NoImport, Matches
  <2> QED
    BY <2>1, <2>7, <2>8, <2>9 DEF CaughtUp
<1> QED
  BY <1>4, <1>5

\* The first request leaves the queue.
Popped(q, q2) ==
    /\ Len(q) \in Nat \ {0} /\ Len(q2) = Len(q) - 1
    /\ \A i \in 1 .. Len(q2) : q2[i] = q[i + 1]

LEMMA PopSyncs ==
  ASSUME NEW q, NEW q2, Popped(q, q2)
  PROVE  /\ NoSync(q) => NoSync(q2) /\ ~SyncsFile(q[1])
         /\ NoSync(q2) /\ ~SyncsFile(q[1]) => NoSync(q)
         /\ NoSync(q2) /\ SyncsFile(q[1]) => LastSync(q, 1)
         /\ \A i \in 1 .. Len(q2) : LastSync(q2, i) => LastSync(q, i + 1)
         /\ \A i \in 1 .. Len(q2) : q2[i] = q[i + 1] /\ i + 1 \in 1 .. Len(q)
         /\ 1 \in 1 .. Len(q)
<1>1. /\ Len(q) \in Nat \ {0} /\ Len(q2) = Len(q) - 1
      /\ \A i \in 1 .. Len(q2) : q2[i] = q[i + 1]
  BY DEF Popped
<1>2. /\ 1 \in 1 .. Len(q)
      /\ \A i \in 1 .. Len(q2) : i + 1 \in 1 .. Len(q)
      /\ \A j \in 1 .. Len(q) : j = 1 \/ (j - 1 \in 1 .. Len(q2) /\ (j - 1) + 1 = j)
  BY <1>1
<1>3. \A j \in 1 .. Len(q) : j = 1 \/ q[j] = q2[j - 1]
  BY <1>1, <1>2
<1>4. NoSync(q) => NoSync(q2) /\ ~SyncsFile(q[1])
  BY <1>1, <1>2 DEF NoSync
<1>5. NoSync(q2) /\ ~SyncsFile(q[1]) => NoSync(q)
  BY <1>2, <1>3 DEF NoSync
<1>6. NoSync(q2) /\ SyncsFile(q[1]) => LastSync(q, 1)
  BY <1>2, <1>3 DEF NoSync, LastSync
<1>7. ASSUME NEW i \in 1 .. Len(q2), LastSync(q2, i) PROVE LastSync(q, i + 1)
  <2>1. SyncsFile(q[i + 1])
    BY <1>1, <1>7 DEF LastSync
  <2>2. ASSUME NEW j \in 1 .. Len(q), j > i + 1 PROVE ~SyncsFile(q[j])
    <3>1. j - 1 \in 1 .. Len(q2) /\ j - 1 > i /\ q[j] = q2[j - 1]
      BY <1>1, <1>2, <1>3, <2>2
    <3> QED
      BY <1>7, <3>1 DEF LastSync
  <2> QED
    BY <2>1, <2>2 DEF LastSync
<1> QED
  BY <1>1, <1>2, <1>4, <1>5, <1>6, <1>7

\* Nothing is added to the events, or e.
Added(es, es2, e, by) ==
    /\ Len(es) \in Nat /\ \A k \in 1 .. Len(es) : es2[k] = es[k]
    /\ IF by = NoCall THEN es2 = es
       ELSE Len(es2) = Len(es) + 1 /\ es2[Len(es) + 1] = e

LEMMA AddedImports ==
  ASSUME NEW es, NEW es2, NEW e, NEW by, NEW cs, Added(es, es2, e, by),
         by # NoCall => ~Imported(e, cs)
  PROVE  /\ NoImport(es, cs) <=> NoImport(es2, cs)
         /\ \A k \in 1 .. Len(es2) : LastImport(es2, cs, k) =>
               k \in 1 .. Len(es) /\ LastImport(es, cs, k) /\ es2[k] = es[k]
         /\ \A k \in 1 .. Len(es) : NoImportFrom(es2, cs, k) => NoImportFrom(es, cs, k)
<1> DEFINE n == Len(es)
<1>1. /\ n \in Nat /\ \A k \in 1 .. n : es2[k] = es[k]
  BY DEF Added
<1>2. CASE by = NoCall
  <2>1. es2 = es
    BY <1>2 DEF Added
  <2> QED
    BY <2>1
<1>3. CASE by # NoCall
  <2>1. Len(es2) = n + 1 /\ es2[n + 1] = e /\ ~Imported(e, cs)
    BY <1>3 DEF Added
  <2> HIDE DEF n
  <2>2. \A k \in 1 .. Len(es2) : k = n + 1 \/ k \in 1 .. n
    BY <1>1, <2>1
  <2>3. \A k \in 1 .. n : k \in 1 .. Len(es2)
    BY <1>1, <2>1
  <2>4. NoImport(es, cs) <=> NoImport(es2, cs)
    BY <1>1, <2>1, <2>2, <2>3 DEF NoImport, n
  <2>5. ASSUME NEW k \in 1 .. Len(es2), LastImport(es2, cs, k)
        PROVE  k \in 1 .. n /\ LastImport(es, cs, k) /\ es2[k] = es[k]
    <3>1. k \in 1 .. n
      BY <2>1, <2>2, <2>5 DEF LastImport
    <3> QED
      BY <1>1, <2>3, <2>5, <3>1 DEF LastImport, n
  <2>6. \A k \in 1 .. n : NoImportFrom(es2, cs, k) => NoImportFrom(es, cs, k)
    BY <1>1, <2>3 DEF NoImportFrom, n
  <2> QED
    BY <2>4, <2>5, <2>6 DEF n
<1> QED
  BY <1>2, <1>3

LEMMA AddedImport ==
  ASSUME NEW es, NEW es2, NEW e, NEW by, NEW cs, Added(es, es2, e, by), by # NoCall, Imported(e, cs)
  PROVE  /\ ~NoImport(es2, cs)
         /\ \A k \in 1 .. Len(es2) : LastImport(es2, cs, k) => es2[k] = e
         /\ \A k \in 1 .. Len(es2) : ~NoImportFrom(es2, cs, k)
<1> DEFINE n == Len(es)
<1>1. n \in Nat /\ Len(es2) = n + 1 /\ es2[n + 1] = e
  BY DEF Added
<1> HIDE DEF n
<1>2. n + 1 \in 1 .. Len(es2) /\ \A k \in 1 .. Len(es2) : k = n + 1 \/ n + 1 > k
  BY <1>1
<1>3. \A k \in 1 .. Len(es2) : n + 1 >= k
  BY <1>1
<1>4. ~NoImport(es2, cs)
  BY <1>1, <1>2 DEF NoImport
<1>5. \A k \in 1 .. Len(es2) : LastImport(es2, cs, k) => es2[k] = e
  BY <1>1, <1>2 DEF LastImport
<1>6. \A k \in 1 .. Len(es2) : ~NoImportFrom(es2, cs, k)
  BY <1>1, <1>2, <1>3 DEF NoImportFrom
<1> QED
  BY <1>4, <1>5, <1>6

\* IndexedDB does or refuses the next request.
LEMMA PopsCaughtUp ==
  ASSUME CaughtUp, Running, Types', Alone', requests # <<>>, requests' = Tail(requests),
         UNCHANGED <<tasks, loaded, conn, damaged, overlap, calls>>,
         NEW bytes, NEW ok \in BOOLEAN, Answer(Head(requests), bytes, ok),
         ok => bytes = IF Head(requests).op = "get" THEN stored ELSE Head(requests).bytes,
         IF Head(requests).op = "put" /\ Head(requests).file = "database"
         THEN IF ok THEN stored' = Head(requests).bytes
              ELSE stored' = stored /\ unsaved' = (unsaved \/ Head(requests).by = NoCall)
         ELSE stored' = stored /\ unsaved' = unsaved
  PROVE  CaughtUp'
<1> DEFINE q == Queue
           q2 == Queue'
           r == Head(requests)
           es == events
           es2 == events'
           n == Len(events)
           cs == calls
           e == [by |-> r.by, bytes |-> bytes, ok |-> ok, torn |-> r.op = "get" /\ torn]
           Put == r.op = "put" /\ r.file = "database"
<1>1. Popped(q, q2) /\ r = q[1] /\ r \in RequestType
  BY PopQueue DEF Running, Popped
<1>2. Added(es, es2, e, r.by)
  <2>1. /\ r.by = NoCall => events' = events
        /\ r.by # NoCall =>
             /\ Len(events') = n + 1
             /\ events'[n + 1] =
                   [by |-> r.by, bytes |-> bytes, ok |-> ok, torn |-> r.op = "get" /\ torn]
        /\ n \in Nat /\ \A k \in 1 .. n : events'[k] = events[k]
    BY <1>1, AnswerIs DEF Running
  <2> HIDE DEF r
  <2> QED
    BY <2>1 DEF Added
<1>3. /\ NoSync(q) => NoSync(q2) /\ ~SyncsFile(q[1])
      /\ NoSync(q2) /\ ~SyncsFile(q[1]) => NoSync(q)
      /\ NoSync(q2) /\ SyncsFile(q[1]) => LastSync(q, 1)
      /\ \A i \in 1 .. Len(q2) : LastSync(q2, i) => LastSync(q, i + 1)
      /\ \A i \in 1 .. Len(q2) : q2[i] = q[i + 1] /\ i + 1 \in 1 .. Len(q)
      /\ 1 \in 1 .. Len(q)
  BY <1>1, PopSyncs
<1>4. AskedFor(r, cs, committed)
  BY <1>1, <1>3 DEF Running, Waiting
<1>5. /\ r.by \in Calls \cup {NoCall} /\ r.bytes # NoFile
  <2>1. r.by \in Calls \cup {NoCall} /\ r.bytes \in Content
    BY <1>1 DEF RequestType
  <2> QED
    BY <2>1, ContentIs
<1>6. /\ e.by = r.by /\ e.bytes = bytes /\ e.ok = ok
  OBVIOUS
<1>7. /\ ok => bytes = IF r.op = "get" THEN stored ELSE r.bytes
      /\ IF Put THEN IF ok THEN stored' = r.bytes
                     ELSE stored' = stored /\ unsaved' = (unsaved \/ r.by = NoCall)
         ELSE stored' = stored /\ unsaved' = unsaved
  OBVIOUS
<1>8. /\ SyncsFile(r) <=> Put /\ r.by = NoCall
      /\ ImportsFile(r) <=> r.op = "put" /\ r.by # NoCall
  BY DEF SyncsFile, ImportsFile
<1>9. r.by # NoCall =>
         \/ Put /\ cs[r.by].op = "write"
         \/ r.op = "get" /\ cs[r.by].op # "write"
  BY <1>4 DEF AskedFor
<1> HIDE DEF q, q2, r, es, es2, n, cs, e
\* an import that is done
<1>10. r.by # NoCall /\ Imported(e, cs) =>
         \/ Put /\ ok /\ NoSync(q) /\ bytes = r.bytes /\ ImportsFile(r)
         \/ overlap
  <2> SUFFICES ASSUME r.by # NoCall, Imported(e, cs), ~overlap
               PROVE  Put /\ ok /\ NoSync(q) /\ bytes = r.bytes /\ ImportsFile(r)
    OBVIOUS
  <2>1. ok /\ Put
    BY <1>6, <1>9 DEF Imported
  <2>2. ImportsFile(q[1])
    BY <1>1, <1>8, <2>1
  <2>3. SyncsFirst(q, es, cs)
    BY DEF CaughtUp, q, es, cs
  <2>4. NoSync(q)
    <3>1. \A i \in 1 .. Len(q) : ~(i < 1)
      BY <1>1 DEF Popped
    <3> QED
      BY <1>3, <2>2, <2>3, <3>1 DEF SyncsFirst, NoSync
  <2> QED
    BY <1>1, <1>7, <2>1, <2>2, <2>4
<1>11. ~overlap => SyncsFirst(q2, es2, cs)
  <2> SUFFICES ASSUME ~overlap PROVE SyncsFirst(q2, es2, cs)
    OBVIOUS
  <2>1. SyncsFirst(q, es, cs)
    BY DEF CaughtUp, q, es, cs
  <2>2. ASSUME NEW i \in 1 .. Len(q2), NEW j \in 1 .. Len(q2), SyncsFile(q2[i]), ImportsFile(q2[j])
        PROVE  i < j
    <3>1. i + 1 < j + 1
      BY <1>3, <2>1, <2>2 DEF SyncsFirst
    <3> QED
      BY <1>1, <3>1 DEF Popped
  <2>3. NoSync(q2) \/ NoImport(es2, cs)
    <3>1. CASE NoSync(q)
      BY <1>3, <3>1
    <3>2. CASE ~NoSync(q)
      <4>1. r.by # NoCall => ~Imported(e, cs)
        BY <1>10, <3>2
      <4> QED
        BY <1>2, <2>1, <3>2, <4>1, AddedImports DEF SyncsFirst
    <3> QED
      BY <3>1, <3>2
  <2> QED
    BY <2>2, <2>3 DEF SyncsFirst
<1>12. SyncsAll(q, loaded) => SyncsAll(q2, loaded)
  BY <1>3 DEF SyncsAll
<1>13. ASSUME ~overlap, ~damaged, conn # "spilled", ~unsaved' PROVE StorageFollows(q2, es2, cs, stored', loaded)
  <2> SUFFICES ASSUME NoSync(q2)
               PROVE  /\ \A k \in 1 .. Len(es2) : LastImport(es2, cs, k) => stored' = es2[k].bytes
                      /\ NoImport(es2, cs) /\ loaded # NoFile => Matches(stored', loaded)
    BY DEF StorageFollows
  <2>1. CASE SyncsFile(r)
    <3>1. ok /\ stored' = r.bytes /\ r.by = NoCall
      BY <1>7, <1>8, <1>13, <2>1
    <3>2. LastSync(q, 1) /\ ~NoSync(q)
      BY <1>1, <1>3, <2>1
    <3>3. loaded # NoFile /\ Shows(r.bytes, ToArray(loaded))
      BY <1>1, <1>3, <1>13, <3>2 DEF CaughtUp, SyncsAll, q
    <3>4. NoImport(es, cs) /\ es2 = es
      BY <1>2, <1>13, <3>1, <3>2 DEF CaughtUp, SyncsFirst, q, es, cs, Added
    <3> QED
      BY <1>5, <3>1, <3>3, <3>4 DEF NoImport, LastImport, Matches
  <2>2. CASE ~SyncsFile(r) /\ r.by # NoCall /\ Imported(e, cs)
    <3>1. stored' = e.bytes
      BY <1>6, <1>7, <1>10, <1>13, <2>2
    <3> QED
      BY <1>2, <2>2, <3>1, AddedImport
  <2>3. CASE ~SyncsFile(r) /\ ~(r.by # NoCall /\ Imported(e, cs))
    <3>1. stored' = stored /\ unsaved' = unsaved
      <4>1. Put => ~ok
        BY <1>6, <1>8, <1>9, <2>3 DEF Imported
      <4>2. unsaved \in BOOLEAN
        BY TypesAre DEF Running, RestOK
      <4> QED
        BY <1>7, <1>8, <1>13, <2>3, <4>1, <4>2
    <3>2. NoSync(q)
      BY <1>1, <1>3, <2>3
    <3>3. StorageFollows(q, es, cs, stored, loaded)
      BY <1>13, <3>1 DEF CaughtUp, q, es, cs
    <3>4. /\ NoImport(es, cs) <=> NoImport(es2, cs)
          /\ \A k \in 1 .. Len(es2) : LastImport(es2, cs, k) =>
                k \in 1 .. Len(es) /\ LastImport(es, cs, k) /\ es2[k] = es[k]
      <4>1. r.by # NoCall => ~Imported(e, cs)
        BY <2>3
      <4> QED
        BY <1>2, <4>1, AddedImports
    <3> QED
      BY <3>1, <3>2, <3>3, <3>4 DEF StorageFollows
  <2> QED
    BY <2>1, <2>2, <2>3
<1>14. ASSUME loaded = NoFile PROVE Unloaded(q2, es2, cs, stored')
  <2>1. Unloaded(q, es, cs, stored)
    BY <1>14 DEF CaughtUp, q, es, cs
  <2>2. NoSync(q) /\ NoSync(q2) /\ ~SyncsFile(r)
    BY <1>1, <1>3, <2>1 DEF Unloaded
  <2>3. ASSUME NEW k \in 1 .. Len(es2), es2[k].ok, NoImportFrom(es2, cs, k)
        PROVE  es2[k].bytes = stored'
    <3>1. ~(r.by # NoCall /\ Imported(e, cs))
      BY <1>2, <2>3, AddedImport
    <3>2. stored' = stored
      BY <1>6, <1>7, <1>8, <1>9, <2>2, <3>1 DEF Imported
    <3>3. CASE k \in 1 .. Len(es)
      <4>1. es2[k] = es[k] /\ NoImportFrom(es, cs, k)
        BY <1>2, <2>3, <3>1, <3>3, AddedImports DEF Added
      <4> QED
        BY <2>1, <2>3, <3>2, <3>3, <4>1 DEF Unloaded
    <3>4. CASE k \notin 1 .. Len(es)
      <4>1. r.by # NoCall /\ k = Len(es) + 1 /\ es2[k] = e
        BY <1>2, <3>4 DEF Added
      <4>2. ok /\ r.op = "get"
        BY <1>6, <1>9, <2>3, <3>1, <4>1 DEF Imported
      <4> QED
        BY <1>6, <1>7, <3>2, <4>1, <4>2
    <3> QED
      BY <3>3, <3>4
  <2> QED
    BY <2>2, <2>3 DEF Unloaded
<1>15. ASSUME loaded = NoFile, ~overlap, Opened(calls) PROVE stored' = NoFile
  <2>1. stored = NoFile
    BY <1>15 DEF CaughtUp
  <2>2. ~SyncsFile(r)
    BY <1>1, <1>3, <1>15 DEF CaughtUp, Unloaded, q
  <2>3. ~Someone(calls, "write")
    BY <1>15 DEF CaughtUp, Alone, Opened, Someone
  <2>4. ~Put
    BY <1>5, <1>8, <1>9, <2>2, <2>3 DEF Someone, cs
  <2> QED
    BY <1>7, <2>1, <2>4
<1>16. UNCHANGED <<loaded, conn, damaged, overlap, calls>>
  OBVIOUS
<1> QED
  BY <1>11, <1>12, <1>13, <1>14, <1>15, <1>16 DEF CaughtUp, q, q2, es, es2, cs

LEMMA ServeCaughtUp ==
  ASSUME CaughtUp, Running, Types', Alone', Serve
  PROVE  CaughtUp'
<1> DEFINE r == Head(requests)
           bytes == IF r.op = "get" THEN stored ELSE r.bytes
<1>0. r \in RequestType
  BY PopRequests, TypesAre DEF Serve, Running
<1>1. /\ requests # <<>> /\ requests' = Tail(requests)
      /\ UNCHANGED <<tasks, loaded, conn, damaged, overlap, calls>>
      /\ Answer(r, bytes, TRUE)
  BY DEF Serve, history
<1>2. IF r.op = "put" /\ r.file = "database" THEN stored' = r.bytes
      ELSE stored' = stored /\ unsaved' = unsaved
  BY <1>0 DEF Serve, storage, RequestType
<1> QED
  BY <1>1, <1>2, PopsCaughtUp

LEMMA RefuseCaughtUp ==
  ASSUME CaughtUp, Running, Types', Alone', Refuse
  PROVE  CaughtUp'
<1> DEFINE r == Head(requests)
<1>0. unsaved \in BOOLEAN
  BY TypesAre DEF Running, RestOK
<1>1. /\ requests # <<>> /\ requests' = Tail(requests)
      /\ UNCHANGED <<tasks, loaded, conn, damaged, overlap, calls, stored>>
      /\ Answer(r, r.bytes, FALSE)
      /\ unsaved' = (unsaved \/ (r.op = "put" /\ r.file = "database" /\ r.by = NoCall))
  BY DEF Refuse, storage, history
<1>2. IF r.op = "put" /\ r.file = "database"
      THEN stored' = stored /\ unsaved' = (unsaved \/ r.by = NoCall)
      ELSE stored' = stored /\ unsaved' = unsaved
  BY <1>0, <1>1
<1> QED
  BY <1>1, <1>2, PopsCaughtUp

-----------------------------------------------------------------------------
\* The first result is taken, and the calls of the others do what they did.
PoppedEvents(es, es2, cs, cs2) ==
    /\ Popped(es, es2)
    /\ \A k \in 1 .. Len(es2) : Imported(es2[k], cs2) <=> Imported(es[k + 1], cs)

LEMMA PopImports ==
  ASSUME NEW es, NEW es2, NEW cs, NEW cs2, PoppedEvents(es, es2, cs, cs2)
  PROVE  /\ NoImport(es, cs) => NoImport(es2, cs2)
         /\ NoImport(es2, cs2) /\ ~Imported(es[1], cs) => NoImport(es, cs)
         /\ NoImport(es2, cs2) /\ Imported(es[1], cs) => LastImport(es, cs, 1)
         /\ \A k \in 1 .. Len(es2) : LastImport(es2, cs2, k) => LastImport(es, cs, k + 1)
         /\ \A k \in 1 .. Len(es2) : NoImportFrom(es2, cs2, k) => NoImportFrom(es, cs, k + 1)
         /\ \A k \in 1 .. Len(es2) : es2[k] = es[k + 1] /\ k + 1 \in 1 .. Len(es)
         /\ 1 \in 1 .. Len(es)
<1>1. /\ Len(es) \in Nat \ {0} /\ Len(es2) = Len(es) - 1
      /\ \A k \in 1 .. Len(es2) : es2[k] = es[k + 1]
      /\ \A k \in 1 .. Len(es2) : Imported(es2[k], cs2) <=> Imported(es[k + 1], cs)
  BY DEF PoppedEvents, Popped
<1>2. /\ 1 \in 1 .. Len(es)
      /\ \A k \in 1 .. Len(es2) : k + 1 \in 1 .. Len(es)
      /\ \A j \in 1 .. Len(es) : j = 1 \/ (j - 1 \in 1 .. Len(es2) /\ (j - 1) + 1 = j)
  BY <1>1
<1>3. \A j \in 1 .. Len(es) : j = 1 \/ (Imported(es[j], cs) <=> Imported(es2[j - 1], cs2))
  BY <1>1, <1>2
<1>4. NoImport(es, cs) => NoImport(es2, cs2)
  BY <1>1, <1>2 DEF NoImport
<1>5. NoImport(es2, cs2) /\ ~Imported(es[1], cs) => NoImport(es, cs)
  BY <1>2, <1>3 DEF NoImport
<1>6. NoImport(es2, cs2) /\ Imported(es[1], cs) => LastImport(es, cs, 1)
  BY <1>2, <1>3 DEF NoImport, LastImport
<1>7. ASSUME NEW k \in 1 .. Len(es2), LastImport(es2, cs2, k) PROVE LastImport(es, cs, k + 1)
  <2>1. Imported(es[k + 1], cs)
    BY <1>1, <1>7 DEF LastImport
  <2>2. ASSUME NEW j \in 1 .. Len(es), j > k + 1 PROVE ~Imported(es[j], cs)
    <3>1. j - 1 \in 1 .. Len(es2) /\ j - 1 > k /\ j # 1
      BY <1>1, <1>2, <2>2
    <3>2. ~Imported(es2[j - 1], cs2)
      BY <1>7, <3>1 DEF LastImport
    <3> QED
      BY <1>3, <3>1, <3>2
  <2> QED
    BY <2>1, <2>2 DEF LastImport
<1>8. ASSUME NEW k \in 1 .. Len(es2), NoImportFrom(es2, cs2, k) PROVE NoImportFrom(es, cs, k + 1)
  <2>1. ASSUME NEW j \in 1 .. Len(es), j >= k + 1 PROVE ~Imported(es[j], cs)
    <3>1. j - 1 \in 1 .. Len(es2) /\ j - 1 >= k /\ j # 1
      BY <1>1, <1>2, <2>1
    <3>2. ~Imported(es2[j - 1], cs2)
      BY <1>8, <3>1 DEF NoImportFrom
    <3> QED
      BY <1>3, <3>1, <3>2
  <2> QED
    BY <2>1 DEF NoImportFrom
<1> QED
  BY <1>1, <1>2, <1>4, <1>5, <1>6, <1>7, <1>8

LEMMA GrownOrder ==
  ASSUME NEW q, NEW q2, NEW new, Grown(q, q2, new),
         \A i \in 1 .. Len(new) : ~SyncsFile(new[i])
  PROVE  /\ NoSync(q2) <=> NoSync(q)
         /\ (\A i, j \in 1 .. Len(q) : SyncsFile(q[i]) /\ ImportsFile(q[j]) => i < j) =>
            (\A i, j \in 1 .. Len(q2) : SyncsFile(q2[i]) /\ ImportsFile(q2[j]) => i < j)
<1> DEFINE n == Len(q)
<1>1. /\ n \in Nat /\ Len(q2) \in Nat /\ n <= Len(q2)
      /\ \A i \in 1 .. n : /\ SyncsFile(q2[i]) <=> SyncsFile(q[i])
                           /\ ImportsFile(q2[i]) <=> ImportsFile(q[i])
      /\ \A i \in 1 .. Len(q2) : SyncsFile(q2[i]) => i \in 1 .. n
  BY GrownSyncs
<1> HIDE DEF n
<1>2. \A i \in 1 .. n : i \in 1 .. Len(q2)
  BY <1>1
<1>3. NoSync(q2) <=> NoSync(q)
  BY <1>1, <1>2 DEF NoSync, n
<1>4. ASSUME \A i, j \in 1 .. n : SyncsFile(q[i]) /\ ImportsFile(q[j]) => i < j,
             NEW i \in 1 .. Len(q2), NEW j \in 1 .. Len(q2), SyncsFile(q2[i]), ImportsFile(q2[j])
      PROVE  i < j
  <2>1. i \in 1 .. n /\ SyncsFile(q[i])
    BY <1>1, <1>4
  <2>2. CASE j \in 1 .. n
    BY <1>1, <1>4, <2>1, <2>2
  <2>3. CASE j \notin 1 .. n
    BY <1>1, <2>1, <2>3
  <2> QED
    BY <2>2, <2>3
<1> QED
  BY <1>3, <1>4 DEF n

LEMMA ResumeCaughtUp ==
  ASSUME CaughtUp, Running, Types', Alone', Resume
  PROVE  CaughtUp'
<1> DEFINE q == Queue
           q2 == Queue'
           es == events
           es2 == events'
           cs == calls
           cs2 == calls'
           e == Head(events)
<1>0. /\ calls \in [Calls -> [op : {"none", "open", "read", "write"},
                              stage : {"none", "get", "loaded", "put", "over"}]]
      /\ Types /\ Waiting /\ MachineOK(loaded, tasks) /\ RestOK
  BY TypesAre DEF RestOK, Running
<1>1. /\ Grown(q, q2, <<>>) /\ e = es[1] /\ Popped(es, es2)
      /\ e \in EventType /\ Answers(e, cs, committed)
  BY <1>0, ResumeQueue DEF Popped
<1>2. UNCHANGED <<conn, stored, unsaved, overlap>>
  BY DEF Resume, storage
<1>3. \/ e.ok /\ Loaded(e)
      \/ e.ok /\ Written(e)
      \/ ~e.ok /\ cs2 = [cs EXCEPT ![e.by] = Over] /\ UNCHANGED <<loaded, tasks, damaged>>
  BY DEF Resume
<1>4. e.by \in Calls /\ \A k \in 1 .. Len(es) : es[k].by \in Calls
  BY <1>0, <1>1, CallsOf DEF EventType
<1>5. \A k, l \in 1 .. Len(es) : es[k].by = es[l].by => k = l
  BY DEF Once, Running
<1> DEFINE new == <<>>
<1>6. Grown(q, q2, new) /\ \A i \in 1 .. Len(new) : ~SyncsFile(new[i])
  BY <1>1, NoItems
<1>7. tasks' = tasks => Plain(q, q2)
  <2>1. requests' = requests
    BY DEF Resume
  <2>2. tasks' = tasks => Queue' = Queue
    BY <2>1 DEF Queue
  <2> QED
    BY <2>2 DEF Plain
<1> HIDE DEF q, q2, es, es2, e, new
<1>8. \A c \in Calls : c # e.by => cs2[c] = cs[c]
  <2>1. cs2 = [cs EXCEPT ![e.by].stage = "loaded"] \/ cs2 = [cs EXCEPT ![e.by] = Over]
    BY <1>3 DEF Loaded, Written
  <2> QED
    BY <1>0, <2>1
<1>9. PoppedEvents(es, es2, cs, cs2)
  <2>1. ASSUME NEW k \in 1 .. Len(es2) PROVE Imported(es2[k], cs2) <=> Imported(es[k + 1], cs)
    <3>1. es2[k] = es[k + 1] /\ k + 1 \in 1 .. Len(es) /\ 1 \in 1 .. Len(es) /\ k + 1 # 1
      BY <1>1 DEF Popped
    <3>2. es[k + 1].by # e.by /\ es[k + 1].by \in Calls
      BY <1>1, <1>4, <1>5, <3>1
    <3>3. cs2[es[k + 1].by] = cs[es[k + 1].by]
      BY <1>8, <3>2
    <3> QED
      BY <3>1, <3>3 DEF Imported
  <2> QED
    BY <1>1, <2>1 DEF PoppedEvents
<1>10. /\ NoImport(es, cs) => NoImport(es2, cs2)
       /\ NoImport(es2, cs2) /\ ~Imported(e, cs) => NoImport(es, cs)
       /\ NoImport(es2, cs2) /\ Imported(e, cs) => LastImport(es, cs, 1)
       /\ \A k \in 1 .. Len(es2) : LastImport(es2, cs2, k) => LastImport(es, cs, k + 1)
       /\ \A k \in 1 .. Len(es2) : NoImportFrom(es2, cs2, k) => NoImportFrom(es, cs, k + 1)
       /\ \A k \in 1 .. Len(es2) : es2[k] = es[k + 1] /\ k + 1 \in 1 .. Len(es)
       /\ 1 \in 1 .. Len(es)
  BY <1>1, <1>9, PopImports
<1>11. /\ NoSync(q2) <=> NoSync(q)
       /\ (\A i, j \in 1 .. Len(q) : SyncsFile(q[i]) /\ ImportsFile(q[j]) => i < j) =>
          (\A i, j \in 1 .. Len(q2) : SyncsFile(q2[i]) /\ ImportsFile(q2[j]) => i < j)
  BY <1>6, GrownOrder
<1>12. ~overlap => SyncsFirst(q2, es2, cs2)
  BY <1>10, <1>11 DEF CaughtUp, SyncsFirst, q, es
<1>13. NoImport(es, cs) => NoImportFrom(es, cs, 1)
  BY DEF NoImport, NoImportFrom
\* which result it is
<1>14. CASE e.ok /\ Written(e) /\ loaded # NoFile
  <2> DEFINE m == Store([buffer |-> Truncate(loaded, 0), tasks |-> tasks], 0, e.bytes)
  <2>1. loaded' = m.buffer /\ Imported(e, cs) /\ (~damaged' => ~damaged)
    BY <1>14 DEF Written, Imported
  <2>2. e.bytes \in Content
    BY <1>0, <1>1, <1>14 DEF Answers, Written, RestOK
  <2>3. /\ Views(m) /\ m.buffer.size = Len(e.bytes)
        /\ \A i \in 1 .. Len(e.bytes) : m.buffer.data[i] = e.bytes[i]
    BY <1>0, <1>14, <2>2, OverwriteIs
  <2> HIDE DEF m
  <2>4. m.buffer \in File /\ m.buffer.size \in Nat
    BY <2>3, FileIs DEF Views
  <2>5. Shows(ToArray(m.buffer), e.bytes)
    BY <2>2, <2>3, <2>4, FileShowing
  <2>6. ToArray(loaded') = e.bytes /\ loaded' # NoFile
    BY <2>1, <2>2, <2>3, <2>4, <2>5, ShowsAll, FileExists
  <2>7. ~overlap => NoSync(q2)
    <3>1. ~NoImport(es, cs)
      BY <1>1, <1>10, <2>1 DEF NoImport
    <3> QED
      BY <1>11, <3>1 DEF CaughtUp, SyncsFirst, q, es
  <2>8. ~overlap => SyncsAll(q2, loaded')
    BY <2>7 DEF SyncsAll, LastSync, NoSync
  <2>9. ASSUME ~overlap, ~damaged', conn # "spilled", ~unsaved
        PROVE  StorageFollows(q2, es2, cs2, stored, loaded')
    <3>1. StorageFollows(q, es, cs, stored, loaded) /\ NoSync(q)
      BY <1>11, <2>1, <2>7, <2>9 DEF CaughtUp, q, es
    <3>2. \A k \in 1 .. Len(es) : LastImport(es, cs, k) => stored = es[k].bytes
      BY <3>1 DEF StorageFollows
    <3>3. NoImport(es2, cs2) => Matches(stored, loaded')
      <4> SUFFICES ASSUME NoImport(es2, cs2) PROVE Matches(stored, loaded')
        OBVIOUS
      <4>1. stored = e.bytes
        BY <1>1, <1>10, <2>1, <3>2
      <4> QED
        BY <2>2, <2>6, <4>1, ShowsSelf, ContentIs DEF Matches
    <3> QED
      BY <1>10, <3>2, <3>3 DEF StorageFollows
  <2> QED
    BY <1>2, <1>12, <2>6, <2>8, <2>9 DEF CaughtUp, q2, es2
<1>15. CASE ~(e.ok /\ Written(e) /\ loaded # NoFile)
  <2>1. tasks' = tasks /\ (~damaged' => ~damaged) /\ (Imported(e, cs) => loaded' = NoFile)
    <3>1. CASE e.ok /\ Loaded(e)
      BY <3>1 DEF Loaded, Imported
    <3>2. CASE e.ok /\ Written(e) /\ loaded = NoFile
      BY <3>2 DEF Written
    <3>3. CASE ~e.ok /\ UNCHANGED <<loaded, tasks, damaged>>
      BY <3>3 DEF Imported
    <3> QED
      BY <1>3, <1>15, <3>1, <3>2, <3>3
  <2>2. \/ loaded' = loaded
        \/ /\ loaded = NoFile /\ e.bytes # NoFile /\ loaded' = NewBuffer(e.bytes)
           /\ e.ok /\ ~Imported(e, cs)
    BY <1>3, <1>15 DEF Loaded, Written, Imported
  <2>3. Plain(q, q2)
    BY <1>7, <2>1
  <2>4. SyncsAll(q, loaded) => SyncsAll(q2, loaded)
    <3>1. SameImports(es, cs, cs)
      BY DEF SameImports
    <3> QED
      BY <1>6, <2>3, <3>1, PutsNothing
  <2>5. ~overlap /\ ~damaged' /\ conn # "spilled" => SyncsAll(q2, loaded')
    <3>1. CASE loaded' = loaded
      BY <2>1, <2>4, <3>1 DEF CaughtUp, q
    <3>2. CASE loaded = NoFile
      BY <1>11, <3>2 DEF CaughtUp, Unloaded, SyncsAll, LastSync, NoSync, q
    <3> QED
      BY <2>2, <3>1, <3>2
  <2>6. loaded = NoFile /\ e.ok /\ NoImport(es, cs) => e.bytes = stored
    BY <1>1, <1>10, <1>13 DEF CaughtUp, Unloaded, es
  <2>7. ASSUME ~overlap, ~damaged', conn # "spilled", ~unsaved
        PROVE  StorageFollows(q2, es2, cs2, stored, loaded')
    <3> SUFFICES ASSUME NoSync(q2)
                 PROVE  /\ \A k \in 1 .. Len(es2) : LastImport(es2, cs2, k) => stored = es2[k].bytes
                        /\ NoImport(es2, cs2) /\ loaded' # NoFile => Matches(stored, loaded')
      BY DEF StorageFollows
    <3>1. /\ \A k \in 1 .. Len(es) : LastImport(es, cs, k) => stored = es[k].bytes
          /\ NoImport(es, cs) /\ loaded # NoFile => Matches(stored, loaded)
      BY <1>11, <2>1, <2>7 DEF CaughtUp, StorageFollows, q, es
    <3>2. ASSUME NoImport(es2, cs2), loaded' # NoFile PROVE Matches(stored, loaded')
      <4>1. NoImport(es, cs)
        BY <1>10, <2>1, <3>2
      <4>2. CASE loaded' = loaded
        BY <3>1, <3>2, <4>1, <4>2
      <4>3. CASE loaded' # loaded
        <5>1. e.bytes = stored /\ e.bytes # NoFile /\ loaded' = NewBuffer(e.bytes)
          BY <2>2, <2>6, <4>1, <4>3
        <5>2. e.bytes \in Content
          BY <1>1, <5>1 DEF EventType
        <5>3. ToArray(loaded') = stored
          BY <5>1, <5>2, NewFileShows
        <5> QED
          BY <5>1, <5>2, <5>3, ShowsSelf DEF Matches
      <4> QED
        BY <4>2, <4>3
    <3> QED
      BY <1>10, <3>1, <3>2
  <2>8. loaded' = NoFile => loaded = NoFile
    <3>1. e.bytes # NoFile => NewBuffer(e.bytes) # NoFile
      BY <1>1, NewFileIs, FileExists DEF EventType
    <3> QED
      BY <2>2, <3>1
  <2>9. loaded' = NoFile => Unloaded(q2, es2, cs2, stored)
    <3>1. loaded' = NoFile => Unloaded(q, es, cs, stored)
      BY <2>8 DEF CaughtUp, q, es
    <3> QED
      BY <1>10, <1>11, <3>1 DEF Unloaded
  <2>10. ASSUME loaded' = NoFile, ~overlap, Opened(cs2) PROVE stored = NoFile
    <3>1. CASE Opened(cs)
      BY <2>8, <2>10, <3>1 DEF CaughtUp
    <3>2. CASE ~Opened(cs)
      <4>1. PICK c \in Calls : cs2[c] = [op |-> "open", stage |-> "loaded"]
        BY <2>10 DEF Opened
      <4>2. c = e.by
        BY <1>8, <3>2, <4>1 DEF Opened
      <4>3. e.ok /\ Loaded(e)
        BY <1>0, <1>3, <1>4, <4>1, <4>2 DEF Written, Over
      <4>4. cs[c].op = "open" /\ e.bytes = NoFile
        <5>1. cs2[c].op = cs[c].op
          BY <1>0, <1>4, <4>2, <4>3 DEF Loaded
        <5>2. ~(loaded = NoFile /\ e.bytes # NoFile)
          <6>1. e.bytes # NoFile => NewBuffer(e.bytes) # NoFile
            BY <1>1, NewFileIs, FileExists DEF EventType
          <6> QED
            BY <2>10, <4>3, <6>1 DEF Loaded
        <5> QED
          BY <2>8, <2>10, <4>1, <5>1, <5>2
      <4>5. NoImport(es, cs)
        <5>1. ~Someone(cs, "write")
          BY <2>10, <4>4 DEF CaughtUp, Alone, Someone
        <5> QED
          BY <1>4, <5>1 DEF NoImport, Imported, Someone
      <4> QED
        BY <2>6, <2>8, <2>10, <4>3, <4>4, <4>5
    <3> QED
      BY <3>1, <3>2
  <2> QED
    BY <1>2, <1>12, <2>5, <2>7, <2>9, <2>10 DEF CaughtUp, q2, es2
<1> QED
  BY <1>14, <1>15

LEMMA SpillCaughtUp ==
  ASSUME CaughtUp, Running, Types', Alone', NEW pages \in SUBSET (2 .. MaxPages), Spill(pages)
  PROVE  CaughtUp'
<1> DEFINE new == <<SyncJournal>>
<1>1. Types /\ conn' = "spilled" /\ UNCHANGED <<events, calls, overlap>>
  BY DEF Running, Spill
<1>2. Grown(Queue, Queue', new) /\ \A i \in 1 .. Len(new) : ~SyncsFile(new[i])
  BY <1>1, SpillQueue, JournalRequests DEF SyncsFile
<1> HIDE DEF new
<1>3. SyncsFirst(Queue, events, calls) => SyncsFirst(Queue', events', calls')
  BY <1>1, <1>2, GrownOrder DEF SyncsFirst
<1>4. loaded' # NoFile
  BY <1>1 DEF Types, TypeOK
<1> QED
  BY <1>1, <1>3, <1>4 DEF CaughtUp

\* A transaction ends: its put is the last one, and brings the file.
LEMMA EndsCaughtUp ==
  ASSUME CaughtUp, Running, Running', Alone', conn # "closed", NEW new, NEW d,
         Ends(Queue, Queue', new, d), loaded' # NoFile,
         ~damaged' => Shows(d.bytes, ToArray(loaded')),
         UNCHANGED <<events, calls, overlap>>
  PROVE  CaughtUp'
<1> DEFINE q2 == Queue'
           n == Len(Queue)
           m == n + Len(new)
<1>1. /\ n \in Nat /\ Len(new) \in 2 .. 3 /\ Len(q2) = m /\ m \in Nat /\ m >= 2
      /\ q2[m - 1] = d /\ q2[m] = DeleteJournal
  <2>1. /\ Grown(Queue, q2, new) /\ Len(new) \in 2 .. 3
        /\ new[Len(new) - 1] = d /\ new[Len(new)] = DeleteJournal
    BY DEF Ends
  <2>2. n \in Nat /\ Len(q2) = m /\ \A i \in 1 .. Len(new) : q2[n + i] = new[i]
    BY <2>1, LenProperties DEF Grown
  <2>3. /\ Len(new) - 1 \in 1 .. Len(new) /\ Len(new) \in 1 .. Len(new)
        /\ n + (Len(new) - 1) = m - 1
    BY <2>1, <2>2
  <2>4. q2[n + (Len(new) - 1)] = d /\ q2[n + Len(new)] = DeleteJournal
    BY <2>1, <2>2, <2>3
  <2> QED
    BY <2>1, <2>2, <2>3, <2>4
<1>2. SyncsFile(d) /\ ~SyncsFile(DeleteJournal)
  BY JournalRequests DEF Ends, SyncsFile
<1> HIDE DEF q2, m, n
<1>3. m - 1 \in 1 .. Len(q2) /\ m \in 1 .. Len(q2)
  BY <1>1
<1>4. ASSUME NEW i \in 1 .. Len(q2), LastSync(q2, i) PROVE q2[i] = d
  <2>1. i = m - 1 \/ i = m \/ m - 1 > i
    BY <1>1
  <2>2. i = m - 1
    BY <1>1, <1>2, <1>3, <1>4, <2>1 DEF LastSync
  <2> QED
    BY <1>1, <2>2
<1>5. ~damaged' => SyncsAll(q2, loaded')
  BY <1>4 DEF SyncsAll
<1>6. ~NoSync(q2)
  BY <1>1, <1>2, <1>3 DEF NoSync
<1>7. ~overlap => ~Someone(calls, "write")
  BY DEF CaughtUp, Alone
<1>8. ~overlap => NoImport(events, calls)
  <2>1. \A k \in 1 .. Len(events) : events[k].by \in Calls
    BY CallsOf DEF Running
  <2> QED
    BY <1>7, <2>1 DEF NoImport, Imported, Someone
<1>9. ASSUME ~overlap, NEW j \in 1 .. Len(q2) PROVE ~ImportsFile(q2[j])
  <2>1. AskedFor(q2[j], calls', committed')
    BY DEF Running, Waiting, q2
  <2>2. q2[j].by \in Calls \cup {NoCall}
    <3>1. \A i \in 1 .. Len(Queue') : Queue'[i] \in RequestType
      BY QueueIsNext, ElementOfSeq DEF Running
    <3> QED
      BY <3>1 DEF q2, RequestType
  <2> QED
    BY <1>7, <1>9, <2>1, <2>2 DEF AskedFor, ImportsFile, Someone
<1>10. ~overlap' => SyncsFirst(q2, events', calls')
  BY <1>8, <1>9 DEF SyncsFirst
<1> QED
  BY <1>5, <1>6, <1>10 DEF CaughtUp, StorageFollows, q2

LEMMA CommitCaughtUp ==
  ASSUME CaughtUp, AllKnown, Running, Running', Alone', NEW n \in Pages, NEW pages \in SUBSET (2 .. n),
         Commit(n, pages)
  PROVE  CaughtUp'
<1>1. /\ Types /\ Types' /\ conn # "closed" /\ (~damaged' => ~damaged)
      /\ UNCHANGED <<events, calls, overlap>>
  BY DEF Running, Commit, Starts
<1>2. PICK m, end, new, d :
         /\ Commits(n, pages, m, end) /\ Ends(Queue, Queue', new, d)
         /\ m.buffer.size >= n => d = SyncDatabase(m.buffer)
  BY <1>1, CommitQueue
<1>3. Views(m) /\ Views(end) /\ loaded' = end.buffer
  BY <1>2 DEF Commits, Wrote
<1>4. m.buffer \in File /\ loaded' # NoFile
  BY <1>3, FileExists DEF Views
<1>5. ~damaged' => Shows(d.bytes, ToArray(loaded'))
  <2> SUFFICES ASSUME ~damaged' PROVE Shows(d.bytes, ToArray(loaded'))
    OBVIOUS
  <2>1. (conn = "spilled" => Between(loaded, txn)) /\ Current
    BY <1>1, StartsCurrent DEF AllKnown, KnownParts, LoadedKnown, Commit
  <2>2. m.buffer.size >= n /\ Shows(ToArray(m.buffer), ToArray(end.buffer))
    BY <1>1, <1>2, <2>1, CommitShows
  <2>3. d.bytes = ToArray(m.buffer)
    BY <1>2, <1>4, <2>2, SyncRequest
  <2> QED
    BY <1>3, <2>2, <2>3
<1> QED
  BY <1>1, <1>2, <1>4, <1>5, EndsCaughtUp

LEMMA RollbackCaughtUp ==
  ASSUME CaughtUp, Running, Running', Alone', Rollback
  PROVE  CaughtUp'
<1>1. /\ Types /\ Types' /\ conn # "closed"
      /\ UNCHANGED <<events, calls, overlap>>
  BY DEF Running, Rollback, history
<1>2. PICK u, m, new :
         RollsBack(u, m) /\ Ends(Queue, Queue', new, SyncDatabase(m.buffer))
  BY <1>1, RollbackQueue
<1>3. Views(m) /\ loaded' = m.buffer
  BY <1>2 DEF RollsBack, Wrote
<1>4. m.buffer \in File /\ loaded' # NoFile
  BY <1>3, FileExists DEF Views
<1> DEFINE d == SyncDatabase(m.buffer)
<1>5. d.bytes = ToArray(loaded') /\ ToArray(loaded') \in Content /\ Ends(Queue, Queue', new, d)
  BY <1>2, <1>3, <1>4, SyncRequest, FileShows
<1> HIDE DEF d
<1>6. Shows(d.bytes, ToArray(loaded'))
  BY <1>5, ShowsSelf
<1> QED
  BY <1>1, <1>4, <1>5, <1>6, EndsCaughtUp

LEMMA ReloadCaughtUp ==
  ASSUME Alone', Reload
  PROVE  CaughtUp'
<1>1. /\ Queue' = <<>> /\ events' = <<>> /\ loaded' = NoFile
      /\ \A c \in Calls : calls'[c] = Idle
  BY DEF Reload, Queue
<1>2. ~Opened(calls')
  BY <1>1 DEF Opened, Idle
<1>3. /\ SyncsFirst(<<>>, <<>>, calls') /\ SyncsAll(<<>>, NoFile)
      /\ StorageFollows(<<>>, <<>>, calls', stored', NoFile)
      /\ Unloaded(<<>>, <<>>, calls', stored')
  BY NoItems DEF SyncsFirst, SyncsAll, StorageFollows, Unloaded, NoSync, NoImport
<1> QED
  BY <1>1, <1>2, <1>3 DEF CaughtUp

LEMMA CaughtUpStep ==
    CaughtUp /\ AllKnown /\ Running /\ Running' /\ [Next]_vars => CaughtUp'
<1> SUFFICES ASSUME CaughtUp, AllKnown, Running, Running', [Next]_vars PROVE CaughtUp'
  OBVIOUS
<1>0. Types /\ Types' /\ Alone'
  BY AloneStep DEF Running, CaughtUp
<1>1. ASSUME NEW c \in Calls, ReadReturns(c) PROVE CaughtUp'
  <2>1. /\ calls[c] = [op |-> "read", stage |-> "loaded"] /\ calls' = [calls EXCEPT ![c] = Over]
        /\ UNCHANGED <<events, loaded, stored, unsaved, damaged, overlap, conn, tasks, requests>>
    BY <1>1 DEF ReadReturns, storage, history
  <2>2. calls \in [Calls -> [op : {"none", "open", "read", "write"},
                             stage : {"none", "get", "loaded", "put", "over"}]]
    BY <1>0, TypesAre DEF RestOK
  <2>3. Queue' = Queue
    BY <2>1 DEF Queue
  <2>4. Grown(Queue, Queue', <<>>) /\ Plain(Queue, Queue')
    BY <1>0, <2>1, <2>3, SameQueue DEF Plain
  <2>5. \A d \in Calls : Awaits(d) => calls'[d] = calls[d]
    BY <2>1, <2>2 DEF Awaits
  <2>6. Opened(calls') => Opened(calls)
    BY <2>1, <2>2 DEF Opened, Over
  <2> QED
    BY <1>0, <2>1, <2>4, <2>5, <2>6, QuietCalls
<1>2. CASE RunTask
  <2>1. UNCHANGED <<events, loaded, stored, unsaved, damaged, overlap, conn, calls>>
    BY <1>2 DEF RunTask, storage, history
  <2> QED
    BY <1>0, <1>2, <2>1, RunTaskQueue, RunTaskPlain, QuietCalls
<1>3. ASSUME UNCHANGED <<events, loaded, stored, unsaved, damaged, overlap, calls, tasks, requests>>,
             conn' # "spilled" => conn # "spilled"
      PROVE  CaughtUp'
  <2>1. Queue' = Queue
    BY <1>3 DEF Queue
  <2>2. Grown(Queue, Queue', <<>>) /\ Plain(Queue, Queue')
    BY <1>0, <1>3, <2>1, SameQueue DEF Plain
  <2> QED
    BY <1>0, <1>3, <2>2, QuietCalls
<1>4. CASE CloseDatabase \/ Begin \/ EndTransaction
  BY <1>0, <1>3, <1>4, ReadsSame
<1>5. CASE UNCHANGED vars
  BY <1>3, <1>5 DEF vars, memory, storage, history
<1> QED
  BY <1>0, <1>1, <1>2, <1>4, <1>5, LoadFileCaughtUp, WriteFileCaughtUp, OpenDatabaseCaughtUp,
     ServeCaughtUp, RefuseCaughtUp, ResumeCaughtUp, SpillCaughtUp, CommitCaughtUp,
     RollbackCaughtUp, ReloadCaughtUp DEF Next

LEMMA InitCaughtUp == Init => CaughtUp
<1> SUFFICES ASSUME Init PROVE CaughtUp
  OBVIOUS
<1>1. /\ Queue = <<>> /\ events = <<>> /\ loaded = NoFile /\ conn = "closed"
      /\ \A c \in Calls : calls[c] = Idle
  BY DEF Init, Queue
<1>2. ~Opened(calls) /\ Alone
  BY <1>1 DEF Opened, Idle, Alone, Someone
<1>3. /\ SyncsFirst(<<>>, <<>>, calls) /\ SyncsAll(<<>>, NoFile)
      /\ StorageFollows(<<>>, <<>>, calls, stored, NoFile)
      /\ Unloaded(<<>>, <<>>, calls, stored)
  BY NoItems DEF SyncsFirst, SyncsAll, StorageFollows, Unloaded, NoSync, NoImport
<1> QED
  BY <1>1, <1>2, <1>3 DEF CaughtUp

(* Once all requests are done, IndexedDB has what the application sees, if *)
(* the latest put was not refused and no write() ran beside an open() or a *)
(* connection (browser/vfs.js:124-131, browser/mod.ts:16-21).              *)
THEOREM CatchesUp == Spec => []StorageCatchesUp
<1>1. Init => CaughtUp
  BY InitCaughtUp
<1>2. CaughtUp /\ AllKnown /\ Running /\ Running' /\ [Next]_vars => CaughtUp'
  BY CaughtUpStep
<1>3. CaughtUp => StorageCatchesUp
  <2> SUFFICES ASSUME CaughtUp, Quiet, loaded # NoFile, conn # "spilled", ~unsaved, ~overlap, ~damaged
               PROVE  Matches(stored, loaded)
    BY DEF StorageCatchesUp, Matches
  <2>1. Queue = <<>> /\ events = <<>>
    BY DEF Quiet, Queue
  <2>2. StorageFollows(<<>>, <<>>, calls, stored, loaded)
    BY <2>1 DEF CaughtUp
  <2> QED
    BY <2>2, NoItems DEF StorageFollows, NoSync, NoImport
<1> QED
  BY <1>1, <1>2, <1>3, AlwaysRunning, AlwaysKnown, PTL DEF Spec

-----------------------------------------------------------------------------
(* IndexedDB never goes back to an older database                          *)

HIDE GrowAssumption

\* A younger file has a later version in page 1; no file and an empty one are
\* older than any other.
Age(f) == IF f = NoFile \/ f = <<>> THEN 0 ELSE f[1] + 1

PutsFile(r) == r.op = "put" /\ r.file = "database"

\* A view that waits for put is of the connection's put and shows page 1 as it is;
\* and those behind it are views as well.
Fresh(b, t) ==
    /\ \A i \in 1 .. Len(t) : t[i].live =>
          SyncsFile(t[i]) /\ (Age(t[i].bytes) = 0 \/ Age(t[i].bytes) = Age(b.data))
    /\ \A i, j \in 1 .. Len(t) : i < j /\ t[i].live /\ SyncsFile(t[j]) => t[j].live

\* No request and no result brings a file that is younger than the limit.
Capped(s, limit) == \A i \in 1 .. Len(s) : Age(s[i].bytes) <= limit

LEMMA AgeIs ==
  /\ Age(NoFile) = 0 /\ Age(<<>>) = 0
  /\ \A c \in Content : /\ Age(c) \in Nat
                        /\ Age(c) = 0 <=> c = <<>>
                        /\ c = <<>> <=> Len(c) = 0
                        /\ Age(c) # 0 => 1 \in 1 .. Len(c) /\ Age(c) = c[1] + 1 /\ c[1] \in Nat
<1>1. ASSUME NEW c \in Content
      PROVE  /\ Age(c) \in Nat
             /\ Age(c) = 0 <=> c = <<>>
             /\ c = <<>> <=> Len(c) = 0
             /\ Age(c) # 0 => 1 \in 1 .. Len(c) /\ Age(c) = c[1] + 1 /\ c[1] \in Nat
  <2>1. c # NoFile /\ Len(c) \in Nat /\ \A i \in 1 .. Len(c) : c[i] \in Versions
    BY <1>1, ContentIs
  <2>2. c = <<>> <=> Len(c) = 0
    BY <1>1, EmptySeq DEF Content
  <2>3. CASE c = <<>>
    BY <2>2, <2>3 DEF Age
  <2>4. CASE c # <<>>
    <3>1. 1 \in 1 .. Len(c)
      BY <2>1, <2>2, <2>4
    <3>2. c[1] \in Nat /\ Age(c) = c[1] + 1
      BY <2>1, <2>4, <3>1 DEF Versions, Age
    <3> QED
      BY <2>2, <2>4, <3>1, <3>2
  <2> QED
    BY <2>3, <2>4
<1> QED
  BY <1>1 DEF Age

LEMMA SameAge ==
  ASSUME NEW c \in Content, NEW d \in Content, Len(c) # 0, Len(d) # 0, c[1] = d[1]
  PROVE  Age(c) = Age(d) /\ Age(c) # 0
  BY AgeIs

LEMMA AgeOfFile ==
  ASSUME NEW b \in File
  PROVE  /\ Age(b.data) \in Nat /\ Age(ToArray(b)) \in Nat
         /\ Age(ToArray(b)) = 0 \/ Age(ToArray(b)) = Age(b.data)
<1>1. /\ b.data \in Content /\ b.size \in Nat /\ b.size <= Len(b.data) /\ Len(b.data) \in Nat
      /\ ToArray(b) \in Content /\ Len(ToArray(b)) = b.size
      /\ \A i \in 1 .. b.size : ToArray(b)[i] = b.data[i]
  BY FileIs, FileShows
<1> DEFINE c == ToArray(b)
<1> HIDE DEF c
<1>2. CASE b.size = 0
  BY <1>1, <1>2, AgeIs DEF c
<1>3. CASE b.size # 0
  <2>1. 1 \in 1 .. b.size /\ Len(b.data) # 0
    BY <1>1, <1>3
  <2>2. Age(c) = Age(b.data)
    BY <1>1, <1>3, <2>1, SameAge DEF c
  <2> QED
    BY <1>1, <2>2, AgeIs DEF c
<1> QED
  BY <1>2, <1>3

\* Page 1 of the array: written, kept, or the first that is reserved
LEMMA WriteAges ==
  ASSUME NEW b \in File, NEW offset \in Nat, NEW cells \in Content
  PROVE  LET w == Write(b, offset, cells)
         IN  /\ offset = 0 /\ Age(cells) # 0 => Age(w.data) = Age(cells)
             /\ offset # 0 /\ Age(b.data) # 0 => Age(w.data) = Age(b.data)
             /\ \A limit \in Nat \ {0} :
                   Age(b.data) <= limit /\ (offset = 0 => Age(cells) <= limit) => Age(w.data) <= limit
<1> DEFINE w   == Write(b, offset, cells)
           end == offset + Len(cells)
           r   == Reserve(b, end)
           n   == Len(b.data)
<1>1. b.data \in Content /\ n \in Nat /\ Len(cells) \in Nat /\ end \in Nat
      /\ b = [data |-> b.data, size |-> b.size]
  BY FileIs, ContentIs DEF File
<1>2. /\ w \in File /\ Len(w.data) >= n /\ Len(w.data) >= end
      /\ \A i \in 1 .. Len(cells) : w.data[offset + i] = cells[i]
      /\ \A i \in 1 .. n : i <= offset \/ i > end => w.data[i] = b.data[i]
  BY WriteFileIs
<1>3. w.data \in Content /\ Len(w.data) \in Nat
  BY <1>2, FileIs
<1>4. w.data = [i \in 1 .. Len(r.data) |-> IF i > offset /\ i <= end THEN cells[i - offset]
                                            ELSE r.data[i]]
  BY DEF Write
<1>5. r.data = [i \in 1 .. Capacity(n, end) |-> IF i <= n THEN b.data[i] ELSE Zero]
  <2> HIDE DEF end
  <2> QED
    BY <1>1 DEF Reserve
<1>6. Capacity(n, end) \in Nat
  BY <1>1, CapacityFits
<1>7. Len(r.data) = Capacity(n, end)
  BY <1>5, <1>6, LenProperties
<1>8. Len(w.data) = Len(r.data)
  BY <1>4, <1>6, <1>7, LenProperties
<1> HIDE DEF w, r, n, end
<1>9. ASSUME offset = 0, Age(cells) # 0 PROVE Age(w.data) = Age(cells)
  <2>1. 1 \in 1 .. Len(cells)
    BY <1>9, AgeIs
  <2>2. w.data[1] = cells[1]
    BY <1>2, <1>9, <2>1
  <2>3. Len(w.data) # 0 /\ Len(cells) # 0
    BY <1>1, <1>2, <1>3, <1>9, <2>1 DEF end
  <2> QED
    BY <1>3, <2>2, <2>3, SameAge
<1>10. ASSUME offset # 0, Age(b.data) # 0 PROVE Age(w.data) = Age(b.data)
  <2>1. 1 \in 1 .. n /\ 1 <= offset
    BY <1>1, <1>10, AgeIs DEF n
  <2>2. w.data[1] = b.data[1]
    BY <1>2, <2>1
  <2>3. Len(w.data) # 0 /\ Len(b.data) # 0
    BY <1>1, <1>2, <1>3, <2>1 DEF n
  <2> QED
    BY <1>1, <1>3, <2>2, <2>3, SameAge
<1>11. ASSUME NEW limit \in Nat \ {0}, Age(b.data) <= limit, offset = 0 => Age(cells) <= limit
       PROVE  Age(w.data) <= limit
  <2>1. CASE Age(w.data) = 0
    BY <2>1
  <2>2. CASE offset = 0 /\ Age(cells) # 0
    BY <1>9, <1>11, <2>2
  <2>3. CASE offset # 0 /\ Age(b.data) # 0
    BY <1>10, <1>11, <2>3
  <2>4. CASE Age(w.data) # 0 /\ offset = 0 /\ Age(cells) = 0 /\ Age(b.data) # 0
    <3>1. end = 0 /\ 1 \in 1 .. n
      BY <1>1, <2>4, AgeIs DEF end, n
    <3>2. w.data[1] = b.data[1]
      BY <1>2, <3>1
    <3>3. Len(w.data) # 0 /\ Len(b.data) # 0
      BY <1>1, <1>2, <1>3, <3>1 DEF n
    <3>4. Age(w.data) = Age(b.data)
      BY <1>1, <1>3, <3>2, <3>3, SameAge
    <3> QED
      BY <1>11, <3>4
  <2>5. CASE Age(w.data) # 0 /\ Age(b.data) = 0 /\ (offset # 0 \/ Age(cells) = 0)
    <3>1. n = 0 /\ 1 \in 1 .. Len(w.data) /\ Age(w.data) = w.data[1] + 1
      BY <1>1, <1>3, <2>5, AgeIs DEF n
    <3>2. ~(1 > offset /\ 1 <= end)
      <4>1. CASE offset # 0
        BY <4>1
      <4>2. CASE offset = 0 /\ Age(cells) = 0
        <5>1. Len(cells) = 0
          BY <4>2, AgeIs
        <5> QED
          BY <4>2, <5>1 DEF end
      <4> QED
        BY <2>5, <4>1, <4>2
    <3>3. 1 \in 1 .. Len(r.data)
      BY <1>8, <3>1
    <3>4. w.data[1] = r.data[1]
      BY <1>4, <3>2, <3>3
    <3>5. r.data[1] = Zero
      <4>1. 1 \in 1 .. Capacity(n, end) /\ ~(1 <= n)
        BY <1>7, <3>1, <3>3
      <4> DEFINE k == Capacity(n, end)
      <4> HIDE DEF k
      <4>2. r.data = [i \in 1 .. k |-> IF i <= n THEN b.data[i] ELSE Zero] /\ 1 \in 1 .. k
        BY <1>5, <4>1 DEF k
      <4> QED
        BY <4>1, <4>2
    <3> QED
      BY <3>1, <3>4, <3>5 DEF Zero
  <2> QED
    BY <2>1, <2>2, <2>3, <2>4, <2>5
<1> QED
  BY <1>9, <1>10, <1>11 DEF w

-----------------------------------------------------------------------------
\* The tasks s became t: the views that were on the array (if it is still
\* the "same") show a page 1 of this age now.
Reviewed(s, t, same, age) ==
    /\ Len(t) = Len(s)
    /\ \A i \in 1 .. Len(s) :
          /\ SyncsFile(t[i]) <=> SyncsFile(s[i])
          /\ t[i].live <=> s[i].live /\ same
          /\ Age(t[i].bytes) = IF s[i].live /\ same /\ Age(s[i].bytes) # 0 THEN age
                               ELSE Age(s[i].bytes)

SameAges(s, t) == Len(t) = Len(s) /\ \A i \in 1 .. Len(s) : Age(t[i].bytes) = Age(s[i].bytes)
Rises(s, t) == Len(t) = Len(s) /\ \A i \in 1 .. Len(s) : Age(s[i].bytes) <= Age(t[i].bytes)
SyncsInOrder(q) ==
    \A i, j \in 1 .. Len(q) :
        i < j /\ SyncsFile(q[i]) /\ SyncsFile(q[j]) => Age(q[i].bytes) <= Age(q[j].bytes)

LEMMA ReviewAge ==
  ASSUME NEW b \in File, NEW b2 \in File, NEW task \in RequestType,
         Len(b2.data) >= Len(b.data), task.live => Len(task.bytes) <= Len(b.data)
  PROVE  LET t    == Review(task, b, b2)
             same == Len(b2.data) = Len(b.data)
         IN  /\ SyncsFile(t) <=> SyncsFile(task)
             /\ t.live <=> task.live /\ same
             /\ Age(t.bytes) = IF task.live /\ same /\ Age(task.bytes) # 0 THEN Age(b2.data)
                               ELSE Age(task.bytes)
<1> DEFINE n == Len(task.bytes)
           seen == SubSeq(b2.data, 1, n)
           t == Review(task, b, b2)
<1>1. task.bytes \in Content /\ n \in Nat
  BY LenProperties DEF RequestType, Content
<1>2. Len(b.data) \in Nat /\ Len(b2.data) \in Nat /\ b2.data \in Content
  BY FileIs
<1>3. CASE ~task.live
  BY <1>3 DEF Review
<1>4. CASE task.live /\ Len(b2.data) # Len(b.data)
  <2>1. t = [task EXCEPT !.live = FALSE]
    BY <1>4 DEF Review
  <2> HIDE DEF t
  <2>2. t.op = task.op /\ t.file = task.file /\ t.by = task.by /\ t.bytes = task.bytes /\ ~t.live
    BY <2>1 DEF RequestType
  <2> QED
    BY <1>4, <2>2 DEF SyncsFile, t
<1>5. CASE task.live /\ Len(b2.data) = Len(b.data)
  <2>1. seen \in Content /\ Len(seen) = n /\ \A i \in 1 .. n : seen[i] = b2.data[i]
    BY <1>1, <1>2, <1>5, Prefix DEF Content
  <2>2. t = [task EXCEPT !.bytes = seen, !.torn = task.torn \/ seen # task.bytes]
    BY <1>5 DEF Review
  <2> HIDE DEF t, seen
  <2>3. t.op = task.op /\ t.file = task.file /\ t.by = task.by /\ t.bytes = seen /\ t.live = task.live
    BY <2>2 DEF RequestType
  <2>4. CASE n = 0
    <3>1. Age(task.bytes) = 0 /\ Age(seen) = 0
      BY <1>1, <2>1, <2>4, AgeIs
    <3> QED
      BY <1>5, <2>3, <3>1 DEF SyncsFile, t
  <2>5. CASE n # 0
    <3>1. 1 \in 1 .. n /\ Len(b2.data) # 0
      BY <1>1, <1>2, <1>5, <2>5
    <3>2. Age(seen) = Age(b2.data)
      BY <1>2, <2>1, <2>5, <3>1, SameAge
    <3>3. Age(task.bytes) # 0
      BY <1>1, <2>5, AgeIs
    <3> QED
      BY <1>5, <2>3, <3>2, <3>3 DEF SyncsFile, t
  <2> QED
    BY <2>4, <2>5
<1> QED
  BY <1>3, <1>4, <1>5

LEMMA StoreReviews ==
  ASSUME NEW m, Views(m), NEW offset \in Nat, NEW cells \in Content
  PROVE  LET s == Store(m, offset, cells)
         IN  /\ Views(s)
             /\ \E same \in BOOLEAN : Reviewed(m.tasks, s.tasks, same, Age(s.buffer.data))
             /\ s.buffer = Write(m.buffer, offset, cells)
<1> DEFINE b == m.buffer
           w == Write(b, offset, cells)
           n == Len(m.tasks)
           t == [i \in 1 .. n |-> Review(m.tasks[i], b, w)]
           s == Store(m, offset, cells)
           same == Len(w.data) = Len(b.data)
<1>1. b \in File /\ m.tasks \in Seq(RequestType) /\ n \in Nat /\ DOMAIN m.tasks = 1 .. n
      /\ \A i \in 1 .. n : /\ m.tasks[i] \in RequestType
                           /\ m.tasks[i].live => Len(m.tasks[i].bytes) <= Len(b.data)
  BY LenProperties, ElementOfSeq DEF Views
<1> HIDE DEF b, n
<1>2. w \in File /\ Len(w.data) >= Len(b.data)
  BY <1>1, WriteFileIs
<1>3. s = [buffer |-> w, tasks |-> t]
  BY <1>1 DEF Store, b, n
<1>4. Views(s)
  BY StoreIs DEF Stored
<1> HIDE DEF s, w
<1>5. s.buffer = w /\ s.tasks = t
  BY <1>3
<1>6. ASSUME NEW i \in 1 .. n
      PROVE  /\ SyncsFile(t[i]) <=> SyncsFile(m.tasks[i])
             /\ t[i].live <=> m.tasks[i].live /\ same
             /\ Age(t[i].bytes) = IF m.tasks[i].live /\ same /\ Age(m.tasks[i].bytes) # 0
                                  THEN Age(w.data) ELSE Age(m.tasks[i].bytes)
  <2>1. t[i] = Review(m.tasks[i], b, w)
    OBVIOUS
  <2>2. m.tasks[i] \in RequestType /\ (m.tasks[i].live => Len(m.tasks[i].bytes) <= Len(b.data))
    BY <1>1
  <2> DEFINE task == m.tasks[i]
  <2> HIDE DEF t, task
  <2> QED
    BY <1>1, <1>2, <2>1, <2>2, ReviewAge DEF task
<1>7. Len(t) = n
  BY <1>1, LenProperties
<1> HIDE DEF t
<1>8. same \in BOOLEAN
  OBVIOUS
<1> HIDE DEF same
<1>9. Reviewed(m.tasks, t, same, Age(w.data))
  BY <1>6, <1>7 DEF Reviewed, n
<1>10. \E same2 \in BOOLEAN : Reviewed(m.tasks, s.tasks, same2, Age(s.buffer.data))
  BY <1>5, <1>8, <1>9
<1> QED
  BY <1>4, <1>5, <1>10 DEF s, w, b

\* What a write to the array does to the ages of the views
LEMMA ReviewedAges ==
  ASSUME NEW s, NEW t, NEW same \in BOOLEAN, NEW age \in Nat, NEW b, NEW c, Age(c.data) = age,
         Reviewed(s, t, same, age), Fresh(b, s), Age(b.data) \in Nat,
         \A i \in 1 .. Len(s) : Age(s[i].bytes) \in Nat
  PROVE  /\ Fresh(c, t)
         /\ \A limit \in Nat : Capped(s, limit) /\ age <= limit => Capped(t, limit)
         /\ (Age(b.data) # 0 => age = Age(b.data)) => SameAges(s, t)
         /\ Capped(s, age) => Rises(s, t)
         /\ Capped(s, age) /\ SyncsInOrder(s) => SyncsInOrder(t)
<1> DEFINE Renewed(i) == s[i].live /\ same /\ Age(s[i].bytes) # 0
<1>1. /\ Len(t) = Len(s)
      /\ \A i \in 1 .. Len(s) :
          /\ SyncsFile(t[i]) <=> SyncsFile(s[i])
          /\ t[i].live <=> s[i].live /\ same
          /\ Renewed(i) => Age(t[i].bytes) = age
          /\ ~Renewed(i) => Age(t[i].bytes) = Age(s[i].bytes)
          /\ Age(t[i].bytes) \in Nat
  BY DEF Reviewed
<1>2. /\ \A i \in 1 .. Len(s) : s[i].live =>
            SyncsFile(s[i]) /\ (Age(s[i].bytes) = 0 \/ Age(s[i].bytes) = Age(b.data))
      /\ \A i, j \in 1 .. Len(s) : i < j /\ s[i].live /\ SyncsFile(s[j]) => s[j].live
  BY DEF Fresh
<1> DEFINE n == Len(s)
<1> HIDE DEF n
<1>3. Fresh(c, t)
  BY <1>1, <1>2 DEF Fresh
<1>4. \A limit \in Nat : Capped(s, limit) /\ age <= limit => Capped(t, limit)
  BY <1>1 DEF Capped
<1>5. (Age(b.data) # 0 => age = Age(b.data)) => SameAges(s, t)
  BY <1>1, <1>2 DEF SameAges
<1>6. Capped(s, age) => Rises(s, t)
  <2> SUFFICES ASSUME Capped(s, age), NEW i \in 1 .. Len(s) PROVE Age(s[i].bytes) <= Age(t[i].bytes)
    BY <1>1 DEF Rises
  <2>1. CASE Renewed(i)
    <3>1. Age(t[i].bytes) = age /\ Age(s[i].bytes) <= age
      BY <1>1, <2>1 DEF Capped
    <3> QED
      BY <3>1
  <2>2. CASE ~Renewed(i)
    <3>1. Age(t[i].bytes) = Age(s[i].bytes) /\ Age(s[i].bytes) \in Nat
      BY <1>1, <2>2
    <3> QED
      BY <3>1
  <2> QED
    BY <2>1, <2>2
<1>7. ASSUME Capped(s, age), SyncsInOrder(s),
             NEW i \in 1 .. Len(s), NEW j \in 1 .. Len(s), i < j, SyncsFile(t[i]), SyncsFile(t[j])
      PROVE  Age(t[i].bytes) <= Age(t[j].bytes)
  <2>1. Age(s[i].bytes) <= Age(s[j].bytes) /\ Age(s[j].bytes) <= Age(t[j].bytes)
    BY <1>1, <1>6, <1>7 DEF SyncsInOrder, Rises
  <2>2. CASE Renewed(i)
    <3>1. s[j].live /\ Age(s[j].bytes) # 0
      BY <1>1, <1>2, <1>7, <2>1, <2>2
    <3>2. Renewed(j)
      BY <2>2, <3>1
    <3>3. Age(t[i].bytes) = age /\ Age(t[j].bytes) = age
      BY <1>1, <2>2, <3>2
    <3> QED
      BY <3>3
  <2>3. CASE ~Renewed(i)
    <3>1. Age(t[i].bytes) = Age(s[i].bytes) /\ Age(s[i].bytes) \in Nat
      BY <1>1, <2>3
    <3>2. Age(s[j].bytes) \in Nat /\ Age(t[j].bytes) \in Nat
      BY <1>1
    <3> QED
      BY <2>1, <3>1, <3>2
  <2> QED
    BY <2>2, <2>3
<1>8. Capped(s, age) /\ SyncsInOrder(s) => SyncsInOrder(t)
  <2> SUFFICES ASSUME Capped(s, age), SyncsInOrder(s) PROVE SyncsInOrder(t)
    OBVIOUS
  <2>1. \A i, j \in 1 .. Len(s) : i < j /\ SyncsFile(t[i]) /\ SyncsFile(t[j])
                                     => Age(t[i].bytes) <= Age(t[j].bytes)
    BY <1>7
  <2> QED
    BY <1>1, <2>1 DEF SyncsInOrder
<1> QED
  BY <1>3, <1>4, <1>5, <1>6, <1>8

-----------------------------------------------------------------------------
\* s is m after pages were written that are not younger than the limit: "kept"
\* if page 1 was not among them, in "order" if it got the limit's age.
PagesAged(m, s, limit, kept, order) ==
    /\ Views(s) /\ Fresh(s.buffer, s.tasks)
    /\ Age(s.buffer.data) <= limit /\ Capped(s.tasks, limit)
    /\ kept => SameAges(m.tasks, s.tasks)
    /\ order => Rises(m.tasks, s.tasks) /\ SyncsInOrder(s.tasks)

LEMMA ViewsAges ==
  ASSUME NEW m, Views(m)
  PROVE  /\ m.buffer \in File /\ Age(m.buffer.data) \in Nat /\ Len(m.tasks) \in Nat
         /\ \A i \in 1 .. Len(m.tasks) : Age(m.tasks[i].bytes) \in Nat
<1>1. m.buffer \in File /\ Len(m.tasks) \in Nat
      /\ \A i \in 1 .. Len(m.tasks) : m.tasks[i] \in RequestType
  BY LenProperties, ElementOfSeq DEF Views
<1>2. \A r \in RequestType : Age(r.bytes) \in Nat
  BY AgeIs DEF RequestType
<1> QED
  BY <1>1, <1>2, AgeOfFile

LEMMA PagesAgedNone ==
  ASSUME NEW m, Views(m), NEW limit, Fresh(m.buffer, m.tasks), Age(m.buffer.data) <= limit,
         Capped(m.tasks, limit), NEW kept, NEW order, order => SyncsInOrder(m.tasks)
  PROVE  PagesAged(m, m, limit, kept, order)
<1>1. \A i \in 1 .. Len(m.tasks) : Age(m.tasks[i].bytes) \in Nat
  BY ViewsAges
<1>2. SameAges(m.tasks, m.tasks) /\ Rises(m.tasks, m.tasks)
  BY <1>1 DEF SameAges, Rises
<1> QED
  BY <1>2 DEF PagesAged

LEMMA RisesAgain ==
  ASSUME NEW r, NEW s, NEW t, Len(s) = Len(r),
         \A i \in 1 .. Len(r) : Age(r[i].bytes) \in Nat /\ Age(s[i].bytes) \in Nat /\ Age(t[i].bytes) \in Nat
  PROVE  /\ SameAges(r, s) /\ SameAges(s, t) => SameAges(r, t)
         /\ Rises(r, s) /\ Rises(s, t) => Rises(r, t)
         /\ SameAges(s, t) => Rises(s, t)
<1> DEFINE n == Len(r)
<1> HIDE DEF n
<1>1. SameAges(s, t) => Rises(s, t)
  BY DEF SameAges, Rises
<1>2. SameAges(r, s) /\ SameAges(s, t) => SameAges(r, t)
  BY DEF SameAges
<1>3. ASSUME Rises(r, s), Rises(s, t), NEW i \in 1 .. Len(r) PROVE Age(r[i].bytes) <= Age(t[i].bytes)
  <2>1. Age(r[i].bytes) <= Age(s[i].bytes) /\ Age(s[i].bytes) <= Age(t[i].bytes)
    BY <1>3 DEF Rises
  <2> QED
    BY <2>1
<1>4. Rises(r, s) /\ Rises(s, t) => Rises(r, t)
  BY <1>3 DEF Rises
<1> QED
  BY <1>1, <1>2, <1>4

LEMMA OrderKept ==
  ASSUME NEW s, NEW t, SameAges(s, t), \A i \in 1 .. Len(s) : SyncsFile(t[i]) <=> SyncsFile(s[i]),
         SyncsInOrder(s)
  PROVE  SyncsInOrder(t)
<1>1. Len(t) = Len(s) /\ \A i \in 1 .. Len(s) : Age(t[i].bytes) = Age(s[i].bytes)
  BY DEF SameAges
<1>2. \A i, j \in 1 .. Len(s) : i < j /\ SyncsFile(s[i]) /\ SyncsFile(s[j])
                                   => Age(s[i].bytes) <= Age(s[j].bytes)
  BY DEF SyncsInOrder
<1>3. \A i, j \in 1 .. Len(s) : i < j /\ SyncsFile(t[i]) /\ SyncsFile(t[j])
                                   => Age(t[i].bytes) <= Age(t[j].bytes)
  BY <1>1, <1>2
<1> QED
  BY <1>1, <1>3 DEF SyncsInOrder

LEMMA PagesAgedOne ==
  ASSUME NEW m, Views(m), NEW limit \in Nat \ {0}, NEW kept, NEW order,
         NEW s, PagesAged(m, s, limit, kept, order), Len(s.tasks) = Len(m.tasks),
         NEW p \in Nat \ {0}, NEW v \in Versions,
         p = 1 => v + 1 <= limit /\ ~kept /\ (order => v + 1 = limit)
  PROVE  PagesAged(m, Store(s, p - 1, <<v>>), limit, kept, order)
<1> DEFINE cells == <<v>>
           k == p - 1
           u == Store(s, k, cells)
           age == Age(u.buffer.data)
<1>0. cells \in Content /\ Len(cells) = 1 /\ cells[1] = v /\ v \in Nat /\ k \in Nat /\ (k = 0 <=> p = 1)
  BY DEF Content, Versions
<1>1. Age(cells) = v + 1
  BY <1>0, AgeIs
<1> HIDE DEF cells, k, u
<1>2. /\ Views(s) /\ Fresh(s.buffer, s.tasks)
      /\ Age(s.buffer.data) <= limit /\ Capped(s.tasks, limit)
      /\ kept => SameAges(m.tasks, s.tasks)
      /\ order => Rises(m.tasks, s.tasks) /\ SyncsInOrder(s.tasks)
  BY DEF PagesAged
<1>3. /\ s.buffer \in File /\ Age(s.buffer.data) \in Nat
      /\ \A i \in 1 .. Len(s.tasks) : Age(s.tasks[i].bytes) \in Nat
      /\ \A i \in 1 .. Len(m.tasks) : Age(m.tasks[i].bytes) \in Nat
  BY <1>2, ViewsAges
<1>4. /\ Views(u)
      /\ \E same \in BOOLEAN : Reviewed(s.tasks, u.tasks, same, age)
      /\ u.buffer = Write(s.buffer, k, cells)
  BY <1>0, <1>2, StoreReviews DEF u
<1>5. PICK same \in BOOLEAN : Reviewed(s.tasks, u.tasks, same, age)
  BY <1>4
<1>6. age \in Nat /\ Len(u.tasks) = Len(s.tasks)
      /\ \A i \in 1 .. Len(s.tasks) : Age(u.tasks[i].bytes) \in Nat
  BY <1>4, <1>5, ViewsAges DEF Reviewed
<1>7. /\ k = 0 => age = v + 1
      /\ k # 0 /\ Age(s.buffer.data) # 0 => age = Age(s.buffer.data)
      /\ age <= limit
  <2>1. /\ k = 0 /\ Age(cells) # 0 => age = Age(cells)
        /\ k # 0 /\ Age(s.buffer.data) # 0 => age = Age(s.buffer.data)
        /\ Age(s.buffer.data) <= limit /\ (k = 0 => Age(cells) <= limit) => age <= limit
    BY <1>0, <1>3, <1>4, WriteAges
  <2> HIDE DEF age
  <2> QED
    BY <1>0, <1>1, <1>2, <2>1
<1> HIDE DEF age
<1>8. /\ Fresh(u.buffer, u.tasks)
      /\ Capped(u.tasks, limit)
      /\ (Age(s.buffer.data) # 0 => age = Age(s.buffer.data)) => SameAges(s.tasks, u.tasks)
      /\ Capped(s.tasks, age) => Rises(s.tasks, u.tasks)
      /\ Capped(s.tasks, age) /\ SyncsInOrder(s.tasks) => SyncsInOrder(u.tasks)
  <2> DEFINE b == s.buffer
             c == u.buffer
             t == s.tasks
             t2 == u.tasks
  <2>1. /\ Age(c.data) = age /\ Reviewed(t, t2, same, age) /\ Fresh(b, t) /\ Age(b.data) \in Nat
        /\ \A i \in 1 .. Len(t) : Age(t[i].bytes) \in Nat
    BY <1>2, <1>3, <1>5 DEF age
  <2> HIDE DEF b, c, t, t2
  <2>2. /\ Fresh(c, t2)
        /\ \A l \in Nat : Capped(t, l) /\ age <= l => Capped(t2, l)
        /\ (Age(b.data) # 0 => age = Age(b.data)) => SameAges(t, t2)
        /\ Capped(t, age) => Rises(t, t2)
        /\ Capped(t, age) /\ SyncsInOrder(t) => SyncsInOrder(t2)
    BY <1>6, <2>1, ReviewedAges
  <2> QED
    BY <1>2, <1>7, <2>2 DEF b, c, t, t2
<1>9. kept => SameAges(m.tasks, u.tasks)
  <2> SUFFICES ASSUME kept PROVE SameAges(m.tasks, u.tasks)
    OBVIOUS
  <2>1. SameAges(m.tasks, s.tasks) /\ SameAges(s.tasks, u.tasks)
    BY <1>0, <1>2, <1>7, <1>8
  <2> QED
    BY <2>1 DEF SameAges
<1>10. order => Rises(m.tasks, u.tasks) /\ SyncsInOrder(u.tasks)
  <2> SUFFICES ASSUME order PROVE Rises(m.tasks, u.tasks) /\ SyncsInOrder(u.tasks)
    OBVIOUS
  <2>1. Rises(m.tasks, s.tasks) /\ SyncsInOrder(s.tasks)
    BY <1>2
  <2>2. Rises(s.tasks, u.tasks) /\ SyncsInOrder(u.tasks)
    <3>1. CASE k = 0
      <4>1. age = limit
        BY <1>0, <1>7, <3>1
      <4> QED
        BY <1>2, <1>8, <2>1, <4>1
    <3>2. CASE k # 0
      <4>1. SameAges(s.tasks, u.tasks)
        BY <1>7, <1>8, <3>2
      <4>2. \A i \in 1 .. Len(s.tasks) : SyncsFile(u.tasks[i]) <=> SyncsFile(s.tasks[i])
        BY <1>5 DEF Reviewed
      <4>3. Rises(s.tasks, u.tasks)
        BY <1>3, <4>1 DEF SameAges, Rises
      <4> QED
        BY <2>1, <4>1, <4>2, <4>3, OrderKept
    <3> QED
      BY <3>1, <3>2
  <2>3. Rises(m.tasks, u.tasks)
    BY <1>3, <1>6, <2>1, <2>2, RisesAgain
  <2> QED
    BY <2>2, <2>3
<1>11. Age(u.buffer.data) <= limit
  BY <1>7 DEF age
<1> QED
  BY <1>4, <1>8, <1>9, <1>10, <1>11 DEF PagesAged, u, k, cells

LEMMA StorePagesAged ==
  ASSUME NEW m, Views(m), m = [buffer |-> m.buffer, tasks |-> m.tasks],
         NEW pages \in SUBSET Pages, NEW content,
         \A p \in pages : content[p] \in Versions,
         NEW limit \in Nat \ {0}, NEW kept, NEW order, PagesAged(m, m, limit, kept, order),
         1 \in pages => content[1] + 1 <= limit /\ ~kept /\ (order => content[1] + 1 = limit)
  PROVE  PagesAged(m, StorePages(m, pages, content), limit, kept, order)
<1>0. PICK h : PageByPage(m, pages, content, h) /\ StorePages(m, pages, content) = h[MaxPages]
  BY StorePagesSteps
<1>1. /\ h[0] = m
      /\ \A p \in 1 .. MaxPages :
            h[p] = IF p \in pages THEN Store(h[p - 1], p - 1, <<content[p]>>) ELSE h[p - 1]
  BY <1>0 DEF PageByPage
<1> DEFINE Fine(s) == PagesAged(m, s, limit, kept, order) /\ Len(s.tasks) = Len(m.tasks)
           S == {p \in 0 .. MaxPages : Fine(h[p])}
<1>2. 0 \in S
  BY <1>1
<1>3. ASSUME NEW k \in 1 .. MaxPages, k - 1 \in S PROVE k \in S
  <2> DEFINE s == h[k - 1]
  <2>1. Fine(s)
    BY <1>3
  <2>2. CASE k \notin pages
    <3>1. h[k] = s
      BY <1>1, <2>2
    <3> HIDE DEF s, Fine
    <3>2. Fine(h[k])
      BY <2>1, <3>1
    <3> QED
      BY <3>2
  <2>3. CASE k \in pages
    <3> DEFINE v == content[k]
    <3>1. h[k] = Store(s, k - 1, <<v>>) /\ v \in Versions /\ k \in Nat \ {0}
      BY <1>1, <2>3
    <3>2. k = 1 => v + 1 <= limit /\ ~kept /\ (order => v + 1 = limit)
      BY <2>3
    <3> HIDE DEF s, v
    <3>3. PagesAged(m, h[k], limit, kept, order)
      BY <2>1, <3>1, <3>2, PagesAgedOne
    <3>4. Len(h[k].tasks) = Len(m.tasks)
      <4>1. Views(s) /\ k - 1 \in Nat /\ <<v>> \in Content
        BY <2>1, <3>1 DEF PagesAged, Content, Versions
      <4> DEFINE o == k - 1
                 cells == <<v>>
      <4>2. Views(s) /\ o \in Nat /\ cells \in Content /\ h[k] = Store(s, o, cells)
        BY <3>1, <4>1
      <4> HIDE DEF o, cells
      <4>3. PICK same \in BOOLEAN : Reviewed(s.tasks, h[k].tasks, same, Age(h[k].buffer.data))
        BY <4>2, StoreReviews
      <4> QED
        BY <2>1, <4>3 DEF Reviewed
    <3> HIDE DEF Fine
    <3>5. Fine(h[k])
      BY <3>3, <3>4 DEF Fine
    <3> QED
      BY <3>5
  <2> QED
    BY <2>2, <2>3
<1>4. MaxPages \in S
  <2> HIDE DEF S
  <2>1. 0 .. MaxPages \subseteq S
    BY <1>2, <1>3, Induction
  <2> QED
    BY <2>1
<1> QED
  BY <1>0, <1>4

\* Truncating keeps page 1, and ages of views if the file is not too short.
LEMMA PagerTruncateAged ==
  ASSUME NEW m, Views(m), m = [buffer |-> m.buffer, tasks |-> m.tasks], NEW n \in Nat,
         NEW limit \in Nat \ {0}, NEW kept, NEW order, PagesAged(m, m, limit, kept, order)
  PROVE  PagesAged(m, PagerTruncate(m, n), limit,
                   kept /\ m.buffer.size >= n, order /\ m.buffer.size >= n)
<1> DEFINE b == m.buffer
           t == PagerTruncate(m, n)
           long == b.size >= n
<1>1. b.size \in Nat /\ b \in File
  BY FileIs DEF Views
<1>2. /\ Views(t)
      /\ long => t.tasks = m.tasks /\ t.buffer.data = b.data
  BY PagerTruncateIs
<1>3. CASE long
  <2> HIDE DEF t
  <2>1. Fresh(t.buffer, t.tasks)
    BY <1>2, <1>3 DEF Fresh, PagesAged
  <2> QED
    BY <1>2, <1>3, <2>1 DEF PagesAged, t
<1>4. CASE ~long
  <2>1. n \in Nat \ {0} /\ t = Store(m, n - 1, <<Zero>>) /\ Zero \in Versions /\ Zero + 1 <= limit
    BY <1>1, <1>4 DEF PagerTruncate, Versions, Zero
  <2>2. PagesAged(m, m, limit, FALSE, FALSE)
    BY DEF PagesAged
  <2> HIDE DEF t
  <2>3. PagesAged(m, t, limit, FALSE, FALSE)
    BY <2>1, <2>2, PagesAgedOne
  <2> QED
    BY <1>4, <2>3 DEF t, PagesAged
<1> QED
  BY <1>3, <1>4

-----------------------------------------------------------------------------
\* Nothing is younger than the latest version.
Limit == version + 1
Bounded ==
    /\ Age(stored) <= Limit /\ Capped(requests, Limit) /\ Capped(tasks, Limit) /\ Capped(events, Limit)
    /\ loaded # NoFile => Age(loaded.data) <= Limit
    /\ conn \in {"open", "spilled"} => Age(txn.before) <= Limit

\* A spilled transaction has not written page 1, and has the latest version; and
\* only a write() that overlaps the connection replaces the file under it.
Spilled ==
    /\ conn = "spilled" =>
          /\ 1 \notin txn.wrote /\ txn.version <= version
          /\ ~overlap => txn.version = version /\ Between(loaded, txn)
    /\ ~overlap => Current

LEMMA AppendAged ==
  ASSUME NEW b, NEW t \in Seq(RequestType), NEW r \in RequestType, NEW limit,
         r.live => Age(r.bytes) = 0 \/ Age(r.bytes) = Age(b.data),
         SyncsFile(r) <=> r.live, Age(r.bytes) <= limit
  PROVE  /\ Fresh(b, t) => Fresh(b, Append(t, r))
         /\ Capped(t, limit) => Capped(Append(t, r), limit)
         /\ SyncsInOrder(t) /\ ~r.live => SyncsInOrder(Append(t, r))
<1> DEFINE q == Append(t, r)
           n == Len(t)
<1>1. Len(q) = n + 1 /\ n \in Nat /\ (\A i \in 1 .. n : q[i] = t[i]) /\ q[n + 1] = r
  BY AppendIs
<1> HIDE DEF q, n
<1>2. \A i \in 1 .. Len(q) : i \in 1 .. n \/ i = n + 1
  BY <1>1
<1>3. Fresh(b, t) => Fresh(b, q)
  <2> SUFFICES ASSUME Fresh(b, t) PROVE Fresh(b, q)
    OBVIOUS
  <2>1. \A i \in 1 .. Len(q) : q[i].live =>
            SyncsFile(q[i]) /\ (Age(q[i].bytes) = 0 \/ Age(q[i].bytes) = Age(b.data))
    BY <1>1, <1>2 DEF Fresh, n
  <2>2. ASSUME NEW i \in 1 .. Len(q), NEW j \in 1 .. Len(q), i < j, q[i].live, SyncsFile(q[j])
        PROVE  q[j].live
    <3>1. CASE j = n + 1
      BY <1>1, <2>2, <3>1
    <3>2. CASE j \in 1 .. n
      <4>1. i \in 1 .. n
        BY <1>1, <2>2, <3>2
      <4> QED
        BY <1>1, <2>2, <3>2, <4>1 DEF Fresh, n
    <3> QED
      BY <1>2, <3>1, <3>2
  <2> QED
    BY <2>1, <2>2 DEF Fresh
<1>4. Capped(t, limit) => Capped(q, limit)
  BY <1>1, <1>2 DEF Capped, n
<1>5. SyncsInOrder(t) /\ ~r.live => SyncsInOrder(q)
  <2> SUFFICES ASSUME SyncsInOrder(t), ~r.live,
                      NEW i \in 1 .. Len(q), NEW j \in 1 .. Len(q), i < j, SyncsFile(q[i]), SyncsFile(q[j])
               PROVE  Age(q[i].bytes) <= Age(q[j].bytes)
    BY DEF SyncsInOrder
  <2>1. i \in 1 .. n /\ j \in 1 .. n
    BY <1>1, <1>2
  <2> QED
    BY <1>1, <2>1 DEF SyncsInOrder, n
<1> QED
  BY <1>3, <1>4, <1>5 DEF q

LEMMA PlainRequests ==
  /\ Age(SyncJournal.bytes) = 0 /\ ~SyncJournal.live /\ ~SyncsFile(SyncJournal)
  /\ Age(DeleteJournal.bytes) = 0 /\ ~DeleteJournal.live /\ ~SyncsFile(DeleteJournal)
<1>1. SyncJournal.bytes = <<>> /\ DeleteJournal.bytes = <<>>
  BY DEF SyncJournal, DeleteJournal, Request
<1> QED
  BY <1>1, AgeIs, JournalRequests DEF SyncsFile

LEMMA JournaledAged ==
  ASSUME Types, loaded # NoFile, NEW limit \in Nat \ {0}, Fresh(loaded, tasks), Capped(tasks, limit),
         Age(loaded.data) <= limit, NEW kept, NEW order, order => SyncsInOrder(tasks)
  PROVE  PagesAged(Machine, Machine, limit, kept, order) /\ PagesAged(Journaled, Journaled, limit, kept, order)
<1>1. Views(Machine) /\ Machine.buffer = loaded /\ Machine.tasks = tasks /\ tasks \in Seq(RequestType)
  BY MachineViews DEF Views
<1>2. /\ Views(Journaled) /\ Journaled.buffer = loaded /\ Journaled.tasks = Append(tasks, SyncJournal)
  <2>1. Views([buffer |-> Machine.buffer, tasks |-> Append(Machine.tasks, SyncJournal)])
    BY <1>1, JournalRequests, ViewsAppend
  <2> QED
    BY <1>1, <2>1 DEF Journaled
<1> DEFINE t == Append(tasks, SyncJournal)
<1>3. /\ Fresh(loaded, t) /\ Capped(t, limit) /\ (order => SyncsInOrder(t))
  BY <1>1, AppendAged, JournalRequests, PlainRequests
<1> HIDE DEF t, Machine, Journaled
<1>4. PagesAged(Machine, Machine, limit, kept, order)
  BY <1>1, PagesAgedNone
<1>5. PagesAged(Journaled, Journaled, limit, kept, order)
  BY <1>2, <1>3, PagesAgedNone DEF t
<1> QED
  BY <1>4, <1>5

LEMMA SyncedAged ==
  ASSUME NEW m, m = [buffer |-> m.buffer, tasks |-> m.tasks], NEW limit \in Nat \ {0},
         NEW x, NEW kept, NEW order, PagesAged(x, m, limit, kept, order)
  PROVE  PagesAged(Synced(m), Synced(m), limit, FALSE, FALSE)
<1> DEFINE b == m.buffer
           r == SyncDatabase(b)
           t == Append(m.tasks, r)
           t2 == Append(t, DeleteJournal)
           s == Synced(m)
<1>1. Views(m) /\ Fresh(b, m.tasks) /\ Age(b.data) <= limit /\ Capped(m.tasks, limit)
  BY DEF PagesAged
<1>2. b \in File /\ m.tasks \in Seq(RequestType)
  BY <1>1 DEF Views
<1>3. r \in RequestType /\ r.live /\ SyncsFile(r) /\ r.bytes = ToArray(b)
  BY <1>2, SyncRequest DEF SyncsFile
<1>4. (Age(r.bytes) = 0 \/ Age(r.bytes) = Age(b.data)) /\ Age(r.bytes) <= limit
  BY <1>1, <1>2, <1>3, AgeOfFile
<1> HIDE DEF r, b
<1>5. t \in Seq(RequestType) /\ Fresh(b, t) /\ Capped(t, limit)
  BY <1>1, <1>2, <1>3, <1>4, AppendAged, AppendIs
<1> HIDE DEF t
<1>6. Fresh(b, t2) /\ Capped(t2, limit)
  BY <1>5, AppendAged, JournalRequests, PlainRequests
<1>7. Views(s) /\ s.buffer = b /\ s.tasks = t2
  BY <1>1, SyncedIs DEF b, t, r
<1> HIDE DEF s, t2
<1>8. PagesAged(s, s, limit, FALSE, FALSE)
  BY <1>1, <1>6, <1>7, PagesAgedNone
<1> QED
  BY <1>8 DEF s

LEMMA StartsLimit ==
  ASSUME Types, Starts(Transaction), Spilled
  PROVE  /\ Limit \in Nat \ {0} /\ Limit' \in Nat \ {0} /\ Limit <= Limit'
         /\ Transaction.version + 1 <= Limit'
         /\ ~overlap => Transaction.version + 1 = Limit'
         /\ 1 \notin Transaction.wrote
<1>1. version \in Nat /\ version' \in Nat /\ Transaction \in TxnType
  BY TypesAre, TransactionIs DEF RestOK
<1>2. CASE conn = "spilled"
  <2>1. Transaction = txn /\ version' = version
    BY <1>2 DEF Starts, Transaction
  <2>2. /\ 1 \notin txn.wrote /\ txn.version <= version /\ txn.version \in Nat
        /\ ~overlap => txn.version = version
    BY <1>1, <1>2, <2>1 DEF Spilled, TxnType
  <2>3. Limit' = Limit /\ Limit = version + 1
    BY <2>1 DEF Limit
  <2> QED
    BY <1>1, <2>1, <2>2, <2>3
<1>3. CASE conn # "spilled"
  <2> DEFINE t == [version |-> version + 1, before |-> txn.before, wrote |-> {}]
  <2>1. Transaction = t
    BY <1>3 DEF Transaction
  <2>2. Transaction.version = version + 1 /\ Transaction.wrote = {}
    BY <2>1
  <2>3. version' = version + 1
    BY <1>3, <2>2 DEF Starts
  <2> QED
    BY <1>1, <2>2, <2>3 DEF Limit
<1> QED
  BY <1>2, <1>3

LEMMA CappedMore ==
  ASSUME NEW s, NEW l \in Nat, NEW l2 \in Nat, l <= l2, Capped(s, l),
         \A i \in 1 .. Len(s) : Age(s[i].bytes) \in Nat
  PROVE  Capped(s, l2)
<1>1. \A i \in 1 .. Len(s) : Age(s[i].bytes) \in Nat /\ Age(s[i].bytes) <= l
  BY DEF Capped
<1> QED
  BY <1>1 DEF Capped

LEMMA TasksAges ==
  ASSUME Types
  PROVE  /\ \A i \in 1 .. Len(tasks) : Age(tasks[i].bytes) \in Nat
         /\ \A i \in 1 .. Len(requests) : Age(requests[i].bytes) \in Nat
         /\ \A i \in 1 .. Len(Queue) : Age(Queue[i].bytes) \in Nat
         /\ \A k \in 1 .. Len(events) : Age(events[k].bytes) \in Nat
         /\ Age(stored) \in Nat
         /\ loaded # NoFile => Age(loaded.data) \in Nat /\ Age(ToArray(loaded)) \in Nat
         /\ conn \in {"open", "spilled"} => Age(txn.before) \in Nat
<1>1. \A r \in RequestType : Age(r.bytes) \in Nat
  BY AgeIs DEF RequestType
<1>2. \A e \in EventType : Age(e.bytes) \in Nat
  BY AgeIs DEF EventType
<1>3. /\ \A i \in 1 .. Len(tasks) : tasks[i] \in RequestType
      /\ \A i \in 1 .. Len(requests) : requests[i] \in RequestType
      /\ \A i \in 1 .. Len(Queue) : Queue[i] \in RequestType
  BY QueueIs, ElementOfSeq
<1>4. MachineOK(loaded, tasks) /\ RestOK
  BY TypesAre
<1>5. events \in Seq(EventType) /\ stored \in Content \cup {NoFile}
  BY <1>4 DEF RestOK
<1>6. \A k \in 1 .. Len(events) : events[k] \in EventType
  BY <1>5, ElementOfSeq
<1>7. Age(stored) \in Nat
  BY <1>5, AgeIs
<1>8. loaded # NoFile => Age(loaded.data) \in Nat /\ Age(ToArray(loaded)) \in Nat
  BY <1>4, AgeOfFile DEF MachineOK
<1>9. conn \in {"open", "spilled"} => Age(txn.before) \in Nat
  <2>1. conn \in {"open", "spilled"} => txn \in TxnType
    BY <1>4 DEF RestOK
  <2> QED
    BY <2>1, AgeIs DEF TxnType
<1> QED
  BY <1>1, <1>2, <1>3, <1>6, <1>7, <1>8, <1>9

LEMMA SpillAged ==
  ASSUME Types, Bounded, Spilled, Fresh(loaded, tasks),
         NEW pages \in SUBSET (2 .. MaxPages), Spill(pages)
  PROVE  /\ Fresh(loaded', tasks') /\ Capped(tasks', Limit') /\ Age(loaded'.data) <= Limit'
         /\ SameAges(Append(tasks, SyncJournal), tasks')
<1> DEFINE c == [p \in Pages |-> Transaction.version]
           m == StorePages(Journaled, pages, c)
           limit == Limit'
<1>1. /\ Starts(Transaction) /\ loaded' = m.buffer /\ tasks' = m.tasks
  BY DEF Spill, Journaled
<1>2. /\ Transaction \in TxnType /\ Views(Journaled) /\ loaded \in File /\ loaded # NoFile
      /\ Journaled = [buffer |-> Journaled.buffer, tasks |-> Journaled.tasks]
      /\ Journaled.tasks = Append(tasks, SyncJournal)
  BY <1>1, TransactionIs
<1>3. pages \in SUBSET Pages /\ 1 \notin pages
  BY DEF Pages
<1>4. \A p \in pages : c[p] \in Versions
  BY <1>2, <1>3 DEF TxnType, Versions
<1>5. limit \in Nat \ {0} /\ Limit \in Nat \ {0} /\ Limit <= limit
  BY <1>1, StartsLimit
<1> HIDE DEF c, limit
<1>6. Capped(tasks, limit) /\ Age(loaded.data) <= limit
  BY <1>2, <1>5, TasksAges, CappedMore DEF Bounded
<1> DEFINE kept == TRUE
           order == FALSE
<1>7. PagesAged(Journaled, Journaled, limit, kept, order)
  BY <1>2, <1>5, <1>6, JournaledAged
<1> HIDE DEF kept, order
<1>8. PagesAged(Journaled, m, limit, kept, order)
  BY <1>2, <1>3, <1>4, <1>5, <1>7, StorePagesAged
<1> HIDE DEF m
<1> QED
  BY <1>1, <1>2, <1>8 DEF PagesAged, limit, kept

LEMMA CommitAged ==
  ASSUME Types, Bounded, Spilled, Fresh(loaded, tasks),
         NEW n \in Pages, NEW pages \in SUBSET (2 .. n), Commit(n, pages),
         NEW m, NEW end, Commits(n, pages, m, end)
  PROVE  /\ Fresh(loaded', tasks') /\ Capped(tasks', Limit') /\ Age(loaded'.data) <= Limit'
         /\ Capped(m.tasks, Limit')
         /\ ~overlap /\ SyncsInOrder(tasks) =>
               Rises(Append(tasks, SyncJournal), m.tasks) /\ SyncsInOrder(m.tasks)
<1> DEFINE d == Dirty(n, pages)
           c == New(n, pages)
           order == ~overlap /\ SyncsInOrder(tasks)
           limit == Limit'
           s == Synced(m)
           long == \E p \in DOMAIN Transaction.before \cup Transaction.wrote : p > n
<1>0. Starts(Transaction)
  BY DEF Commit
<1>1. /\ Transaction \in TxnType /\ Views(Journaled) /\ loaded \in File /\ loaded # NoFile
      /\ Journaled = [buffer |-> Journaled.buffer, tasks |-> Journaled.tasks]
      /\ Journaled.tasks = Append(tasks, SyncJournal)
  BY <1>0, TransactionIs
<1>2. limit \in Nat \ {0} /\ Limit \in Nat \ {0} /\ Limit <= limit
      /\ Transaction.version + 1 <= limit /\ (~overlap => Transaction.version + 1 = limit)
  BY <1>0, StartsLimit
<1>3. d \in SUBSET Pages /\ \A p \in d : c[p] \in Versions /\ c[p] = Transaction.version
  BY <1>0, NewIs
<1>4. 1 \in d
  BY DEF Dirty
<1> HIDE DEF c, limit, d, s
<1>5. Capped(tasks, limit) /\ Age(loaded.data) <= limit
  BY <1>1, <1>2, TasksAges, CappedMore DEF Bounded
<1> DEFINE kept == FALSE
<1>6. PagesAged(Journaled, Journaled, limit, kept, order)
  <2>1. order => SyncsInOrder(tasks)
    OBVIOUS
  <2> HIDE DEF order, kept
  <2> QED
    BY <1>1, <1>2, <1>5, <2>1, JournaledAged
<1>7. c[1] + 1 <= limit /\ ~kept /\ (order => c[1] + 1 = limit)
  BY <1>2, <1>3, <1>4
<1>8. /\ m = StorePages(Journaled, d, c)
      /\ IF long THEN end = PagerTruncate(s, n) ELSE end = s
      /\ loaded' = end.buffer /\ tasks' = end.tasks
  <2>1. m = StorePages(Journaled, d, c) /\ loaded' = end.buffer /\ tasks' = end.tasks
    BY DEF Commits, d, c
  <2>2. end = IF long THEN PagerTruncate(s, n) ELSE s
    BY DEF Commits, s
  <2> HIDE DEF long
  <2> QED
    BY <2>1, <2>2
<1> HIDE DEF kept, order, long
<1>9. PagesAged(Journaled, m, limit, kept, order)
  BY <1>1, <1>2, <1>3, <1>6, <1>7, <1>8, StorePagesAged
<1>10. m = [buffer |-> m.buffer, tasks |-> m.tasks] /\ Views(m)
  BY DEF Commits, Wrote
<1> DEFINE no == FALSE
<1>11. PagesAged(s, s, limit, no, no) /\ Views(s) /\ s = [buffer |-> s.buffer, tasks |-> s.tasks]
  BY <1>2, <1>9, <1>10, SyncedAged, SyncedIs DEF s
<1>12. PagesAged(s, end, limit, no, no)
  <2>1. n \in Nat
    BY DEF Pages
  <2>2. CASE long
    <3>1. PagesAged(s, PagerTruncate(s, n), limit, FALSE /\ s.buffer.size >= n, FALSE /\ s.buffer.size >= n)
      BY <1>2, <1>11, <2>1, PagerTruncateAged
    <3> QED
      BY <1>8, <2>2, <3>1 DEF PagesAged
  <2>3. CASE ~long
    <3>1. end = s
      BY <1>8, <2>3
    <3> HIDE DEF no
    <3> QED
      BY <1>11, <3>1
  <2> QED
    BY <2>2, <2>3
<1>13. Fresh(loaded', tasks') /\ Capped(tasks', limit) /\ Age(loaded'.data) <= limit
  BY <1>8, <1>12 DEF PagesAged
<1>14. Capped(m.tasks, limit)
       /\ (order => Rises(Append(tasks, SyncJournal), m.tasks) /\ SyncsInOrder(m.tasks))
  BY <1>1, <1>9 DEF PagesAged
<1> QED
  BY <1>13, <1>14 DEF limit, order

LEMMA RollbackAged ==
  ASSUME Types, Bounded, Spilled, Fresh(loaded, tasks), Rollback, NEW u, NEW m, RollsBack(u, m)
  PROVE  /\ Fresh(loaded', tasks') /\ Capped(tasks', Limit) /\ Age(loaded'.data) <= Limit
         /\ ~overlap => SameAges(tasks, m.tasks)
<1> DEFINE k == Len(txn.before)
           d == DOMAIN txn.before \cap txn.wrote
           limit == Limit
           yes == TRUE
           no == FALSE
           s == Synced(m)
<1>1. /\ Views(Machine) /\ loaded \in File /\ txn \in TxnType /\ Views(u)
      /\ Machine.buffer = loaded /\ Machine.tasks = tasks
      /\ loaded.size >= k => u.tasks = tasks
      /\ u = PagerTruncate(Machine, k)
      /\ m = StorePages(u, d, txn.before)
      /\ loaded' = m.buffer /\ tasks' = s.tasks
      /\ Wrote(u, m, d, txn.before)
  BY DEF RollsBack, Machine
<1>2. loaded # NoFile /\ Machine = [buffer |-> Machine.buffer, tasks |-> Machine.tasks]
  BY <1>1, FileExists DEF Machine
<1>3. k \in Nat /\ (\A p \in d : txn.before[p] \in Versions) /\ d \in SUBSET Pages
  <2>1. txn.before \in Content /\ txn.wrote \in SUBSET Pages
    BY <1>1 DEF TxnType
  <2> QED
    BY <2>1, ContentIs
<1>4. limit \in Nat \ {0}
  BY TypesAre DEF RestOK, Limit
<1>5. conn = "spilled" /\ 1 \notin d
  BY DEF Rollback, Spilled
<1> HIDE DEF k, d, yes, no, s, Machine
<1>6. PagesAged(Machine, Machine, limit, yes, no)
  <2>1. no => SyncsInOrder(tasks)
    BY DEF no
  <2> QED
    BY <1>2, <1>4, <2>1, JournaledAged DEF Bounded
<1>7. PagesAged(Machine, u, limit, yes /\ loaded.size >= k, no /\ loaded.size >= k)
  <2>1. PagesAged(Machine, PagerTruncate(Machine, k), limit,
                  yes /\ Machine.buffer.size >= k, no /\ Machine.buffer.size >= k)
    BY <1>1, <1>2, <1>3, <1>4, <1>6, PagerTruncateAged
  <2> QED
    BY <1>1, <2>1
<1> HIDE DEF limit
<1>8. u = [buffer |-> u.buffer, tasks |-> u.tasks] /\ PagesAged(u, u, limit, yes, no)
  <2>1. u = [buffer |-> u.buffer, tasks |-> u.tasks]
    BY <1>1, <1>2, <1>3, PagerTruncateIs
  <2>2. Fresh(u.buffer, u.tasks) /\ Age(u.buffer.data) <= limit /\ Capped(u.tasks, limit)
    BY <1>7 DEF PagesAged
  <2> QED
    BY <1>1, <2>1, <2>2, PagesAgedNone DEF no
<1>9. PagesAged(u, m, limit, yes, no)
  BY <1>1, <1>3, <1>4, <1>5, <1>8, StorePagesAged
<1>10. m = [buffer |-> m.buffer, tasks |-> m.tasks] /\ Views(m)
  BY <1>1 DEF Wrote
<1> DEFINE never == FALSE
<1>11. PagesAged(s, s, limit, never, never) /\ s.buffer = m.buffer
  BY <1>4, <1>9, <1>10, SyncedAged, SyncedIs DEF s
<1>12. Fresh(loaded', tasks') /\ Capped(tasks', limit) /\ Age(loaded'.data) <= limit
  BY <1>1, <1>11 DEF PagesAged
<1>13. ~overlap => SameAges(tasks, m.tasks)
  <2> SUFFICES ASSUME ~overlap PROVE SameAges(tasks, m.tasks)
    OBVIOUS
  <2>1. Between(loaded, txn)
    BY <1>5 DEF Spilled
  <2>2. loaded.size >= k
    <3>1. loaded.size \in Nat
      BY <1>1, FileIs
    <3> QED
      BY <1>3, <2>1, <3>1 DEF Between, k
  <2> QED
    BY <1>1, <1>9, <2>2 DEF PagesAged, yes
<1> QED
  BY <1>12, <1>13 DEF limit

-----------------------------------------------------------------------------
LEMMA SpilledStep ==
    Spilled /\ Alone /\ Running /\ Running' /\ [Next]_vars => Spilled'
<1> SUFFICES ASSUME Spilled, Alone, Running, Running', [Next]_vars PROVE Spilled'
  OBVIOUS
<1>0. /\ Types /\ Types' /\ RestOK /\ version \in Nat /\ overlap \in BOOLEAN
      /\ conn # "closed" => loaded # NoFile
      /\ conn = "spilled" => txn.version \in Nat
  BY TypesAre DEF Running, RestOK, TxnType
<1>1. ASSUME conn' = conn, txn' = txn, loaded' = loaded, version' = version, ~overlap' => ~overlap
      PROVE  Spilled'
  BY <1>1 DEF Spilled, Current
<1>2. ASSUME conn' \notin {"open", "spilled"} PROVE Spilled'
  BY <1>2 DEF Spilled, Current
<1>3. ASSUME NEW c \in Calls, NEW op \in {"open", "read"}, LoadFile(c, op) PROVE Spilled'
  BY <1>0, <1>1, <1>3 DEF LoadFile
<1>4. ASSUME NEW c \in Calls, NEW n \in Pages, WriteFile(c, n) PROVE Spilled'
  <2>1. /\ conn' = conn /\ txn' = txn /\ version' = version + 1
        /\ conn # "closed" => overlap'
    BY <1>4 DEF WriteFile
  <2>2. CASE conn = "spilled"
    <3>1. 1 \notin txn.wrote /\ txn.version <= version /\ overlap'
      BY <2>1, <2>2 DEF Spilled
    <3> QED
      BY <1>0, <2>1, <2>2, <3>1 DEF Spilled
  <2>3. CASE conn = "open"
    BY <2>1, <2>3 DEF Spilled
  <2>4. CASE conn \notin {"open", "spilled"}
    BY <1>2, <2>1, <2>4
  <2> QED
    BY <2>2, <2>3, <2>4
<1>5. ASSUME NEW c \in Calls, OpenDatabase(c) PROVE Spilled'
  BY <1>2, <1>5 DEF OpenDatabase
<1>6. ASSUME NEW c \in Calls, ReadReturns(c) PROVE Spilled'
  BY <1>1, <1>6 DEF ReadReturns, history
<1>7. CASE RunTask
  BY <1>1, <1>7 DEF RunTask, history
<1>8. CASE Serve
  BY <1>1, <1>8 DEF Serve, history
<1>9. CASE Refuse
  BY <1>1, <1>9 DEF Refuse, history
<1>10. CASE Resume
  <2> DEFINE e == Head(events)
  <2>1. UNCHANGED <<conn, txn, version, overlap>>
    BY <1>10 DEF Resume
  <2>2. e.by \in Calls
    <3>1. e \in EventType
      BY <1>0, <1>10, CallsOf, TailIs DEF Resume
    <3> QED
      BY <3>1 DEF EventType
  <2>3. Loaded(e) \/ Written(e) \/ loaded' = loaded
    BY <1>10 DEF Resume
  <2> HIDE DEF e
  <2>4. CASE conn \in {"open", "spilled"} /\ loaded' # loaded
    <3>1. loaded # NoFile
      BY <1>0, <2>4
    <3>2. Written(e)
      BY <2>3, <2>4, <3>1 DEF Loaded
    <3>3. overlap
      BY <2>2, <2>4, <3>2 DEF Written, Alone, Someone
    <3> QED
      BY <2>1, <3>3 DEF Spilled
  <2>5. CASE conn \in {"open", "spilled"} /\ loaded' = loaded
    BY <1>1, <2>1, <2>5
  <2> QED
    BY <1>2, <2>1, <2>4, <2>5
<1>11. ASSUME NEW pages \in SUBSET (2 .. MaxPages), Spill(pages) PROVE Spilled'
  <2>1. /\ Starts(Transaction) /\ txn' = [Transaction EXCEPT !.wrote = @ \cup pages]
        /\ overlap' = overlap
    BY <1>11 DEF Spill
  <2>2. Transaction \in TxnType /\ version' \in Nat
    BY <1>0, <2>1, TransactionIs
  <2>3. txn'.version = Transaction.version /\ txn'.wrote = Transaction.wrote \cup pages
    BY <2>1, <2>2 DEF TxnType
  <2>4. /\ Transaction.version + 1 <= Limit' /\ 1 \notin Transaction.wrote
        /\ ~overlap => Transaction.version + 1 = Limit'
    BY <1>0, <2>1, StartsLimit
  <2>5. Limit' = version' + 1 /\ Transaction.version \in Nat
    BY <2>2 DEF Limit, TxnType
  <2>6. 1 \notin pages
    OBVIOUS
  <2>7. ~overlap => Between(loaded', txn')
    BY <1>0, <1>11, SpillBetween DEF Spilled
  <2>8. 1 \notin txn'.wrote /\ txn'.version <= version' /\ (~overlap => txn'.version = version')
    BY <2>2, <2>3, <2>4, <2>5, <2>6
  <2>9. conn' = "spilled"
    BY <1>11 DEF Spill
  <2> QED
    BY <2>1, <2>7, <2>8, <2>9 DEF Spilled, Current
<1>12. ASSUME NEW n \in Pages, NEW pages \in SUBSET (2 .. n), Commit(n, pages) PROVE Spilled'
  BY <1>2, <1>12 DEF Commit
<1>13. CASE Rollback
  BY <1>2, <1>13 DEF Rollback
<1>14. CASE CloseDatabase \/ EndTransaction \/ Begin
  <2>1. CASE Begin
    <3>1. conn' = "open" /\ txn'.before = ToArray(loaded) /\ loaded' = loaded
      BY <2>1 DEF Begin
    <3> QED
      BY <3>1 DEF Spilled, Current
  <2> QED
    BY <1>2, <1>14, <2>1 DEF CloseDatabase, EndTransaction
<1>15. CASE Reload
  BY <1>2, <1>15 DEF Reload
<1>16. CASE UNCHANGED vars
  BY <1>1, <1>16 DEF vars, memory, history
<1> QED
  BY <1>3, <1>4, <1>5, <1>6, <1>7, <1>8, <1>9, <1>10, <1>11, <1>12, <1>13, <1>14, <1>15, <1>16
     DEF Next

-----------------------------------------------------------------------------
\* The fresh views and the bounds of all ages
Young == Bounded /\ Fresh(loaded, tasks)

LEMMA PlainAge ==
  ASSUME NEW r \in RequestType
  PROVE  Age(r.bytes) \in Nat /\ Age([r EXCEPT !.live = FALSE].bytes) = Age(r.bytes)
<1>1. [r EXCEPT !.live = FALSE].bytes = r.bytes
  BY DEF RequestType
<1> QED
  BY <1>1, AgeIs DEF RequestType

LEMMA CappedAppend ==
  ASSUME NEW S, NEW s \in Seq(S), NEW x \in S, NEW limit
  PROVE  /\ Capped(s, limit) /\ Age(x.bytes) <= limit => Capped(Append(s, x), limit)
         /\ s # <<>> /\ Capped(s, limit) => Capped(Tail(s), limit) /\ Age(Head(s).bytes) <= limit
<1>1. Capped(s, limit) /\ Age(x.bytes) <= limit => Capped(Append(s, x), limit)
  <2> DEFINE q == Append(s, x)
             n == Len(s)
  <2>1. Len(q) = n + 1 /\ n \in Nat /\ (\A i \in 1 .. n : q[i] = s[i]) /\ q[n + 1] = x
    BY AppendIs
  <2> HIDE DEF q, n
  <2>2. \A i \in 1 .. Len(q) : i \in 1 .. n \/ i = n + 1
    BY <2>1
  <2>3. Capped(s, limit) /\ Age(x.bytes) <= limit => Capped(q, limit)
    BY <2>1, <2>2 DEF Capped, n
  <2> QED
    BY <2>3 DEF q
<1>2. ASSUME s # <<>>, Capped(s, limit)
      PROVE  Capped(Tail(s), limit) /\ Age(Head(s).bytes) <= limit
  <2> DEFINE q == Tail(s)
             n == Len(s)
  <2>1. /\ n \in Nat \ {0} /\ Len(q) = n - 1 /\ \A i \in 1 .. n - 1 : q[i] = s[i + 1]
        /\ Head(s) = s[1]
    BY <1>2, TailIs
  <2> HIDE DEF q, n
  <2>2. 1 \in 1 .. n /\ \A i \in 1 .. n - 1 : i + 1 \in 1 .. n
    BY <2>1
  <2> QED
    BY <1>2, <2>1, <2>2 DEF Capped, q, n
<1> QED
  BY <1>1, <1>2

\* A step that changes the file at most while there are no views
LEMMA YoungSteps ==
  ASSUME Running, Young, version' = version, conn' = conn \/ conn' \notin {"open", "spilled"},
         txn' = txn \/ conn' \notin {"open", "spilled"},
         Age(stored') <= Limit, Capped(requests', Limit), Capped(tasks', Limit), Capped(events', Limit),
         \/ loaded' = loaded /\ Fresh(loaded, tasks')
         \/ loaded = NoFile /\ tasks' = tasks /\ Age(loaded'.data) <= Limit
         \/ tasks' = <<>> /\ loaded' = NoFile
  PROVE  Young'
<1>1. Limit' = Limit
  BY DEF Limit
<1>2. loaded' # NoFile => Age(loaded'.data) <= Limit
  BY DEF Young, Bounded
<1>3. conn' \in {"open", "spilled"} => Age(txn'.before) <= Limit
  BY DEF Young, Bounded
<1>4. Bounded'
  BY <1>1, <1>2, <1>3 DEF Bounded
<1>5. Fresh(loaded', tasks')
  <2>1. CASE loaded' = loaded /\ Fresh(loaded, tasks')
    BY <2>1
  <2>2. CASE loaded = NoFile /\ tasks' = tasks
    <3>1. \A i \in 1 .. Len(tasks) : ~tasks[i].live
      <4>1. \A i \in DOMAIN tasks : ~tasks[i].live
        BY <2>2 DEF Running, Types, Fits
      <4>2. DOMAIN tasks = 1 .. Len(tasks)
        BY QueueIs, LenProperties DEF Running
      <4> QED
        BY <4>1, <4>2
    <3>2. Fresh(loaded', tasks)
      BY <3>1 DEF Fresh
    <3> QED
      BY <2>2, <3>2
  <2>3. CASE tasks' = <<>> /\ loaded' = NoFile
    BY <2>3, NoItems DEF Fresh
  <2> QED
    BY <2>1, <2>2, <2>3
<1> QED
  BY <1>4, <1>5 DEF Young

-----------------------------------------------------------------------------
LEMMA TailFresh ==
  ASSUME NEW b, NEW t \in Seq(RequestType), t # <<>>, Fresh(b, t)
  PROVE  Fresh(b, Tail(t))
<1> DEFINE q == Tail(t)
           n == Len(t)
<1>1. /\ n \in Nat \ {0} /\ Len(q) = n - 1 /\ \A i \in 1 .. n - 1 : q[i] = t[i + 1]
  BY TailIs
<1> HIDE DEF q, n
<1>2. \A i \in 1 .. n - 1 : i + 1 \in 1 .. n
  BY <1>1
<1>3. \A i \in 1 .. Len(q) : q[i].live =>
          SyncsFile(q[i]) /\ (Age(q[i].bytes) = 0 \/ Age(q[i].bytes) = Age(b.data))
  BY <1>1, <1>2 DEF Fresh, n
<1>4. ASSUME NEW i \in 1 .. Len(q), NEW j \in 1 .. Len(q), i < j, q[i].live, SyncsFile(q[j])
      PROVE  q[j].live
  <2>1. i + 1 \in 1 .. n /\ j + 1 \in 1 .. n /\ i + 1 < j + 1
    BY <1>1, <1>4
  <2>2. t[i + 1].live /\ SyncsFile(t[j + 1])
    BY <1>1, <1>4
  <2> QED
    BY <1>1, <2>1, <2>2 DEF Fresh, n
<1>5. Fresh(b, q)
  BY <1>3, <1>4 DEF Fresh
<1> QED
  BY <1>5 DEF q

LEMMA MoreVersions ==
  ASSUME NEW v \in Nat, NEW w \in Nat, v <= w
  PROVE  v + 1 \in Nat /\ w + 1 \in Nat /\ v + 1 <= w + 1
  OBVIOUS

LEMMA YoungAsks ==
  ASSUME Running, Young, NEW r \in RequestType, ~r.live, ~SyncsFile(r), Age(r.bytes) <= Limit',
         version' \in Nat, version <= version', tasks' = Append(tasks, r),
         UNCHANGED <<loaded, conn, txn, requests, events, stored>>
  PROVE  Young'
<1>1. /\ Limit \in Nat /\ Limit' \in Nat /\ Limit <= Limit'
  <2>1. version \in Nat
    BY TypesAre DEF Running, RestOK
  <2>2. version' \in Nat /\ version <= version'
    OBVIOUS
  <2> QED
    BY <2>1, <2>2, MoreVersions DEF Limit
<1>2. /\ \A i \in 1 .. Len(tasks) : Age(tasks[i].bytes) \in Nat
      /\ \A i \in 1 .. Len(requests) : Age(requests[i].bytes) \in Nat
      /\ \A k \in 1 .. Len(events) : Age(events[k].bytes) \in Nat
      /\ Age(stored) \in Nat
      /\ loaded # NoFile => Age(loaded.data) \in Nat
      /\ conn \in {"open", "spilled"} => Age(txn.before) \in Nat
  BY TasksAges DEF Running
<1>3. tasks \in Seq(RequestType)
  BY QueueIs DEF Running
<1>4. Capped(tasks, Limit') /\ Capped(requests, Limit') /\ Capped(events, Limit')
  BY <1>1, <1>2, CappedMore DEF Young, Bounded
<1> DEFINE l == Limit'
<1>5. Fresh(loaded, tasks') /\ Capped(tasks', l)
  <2> HIDE DEF l
  <2> QED
    BY <1>3, <1>4, AppendAged DEF Young, l
<1>6. /\ Age(stored) <= l
      /\ loaded # NoFile => Age(loaded.data) <= l
      /\ conn \in {"open", "spilled"} => Age(txn.before) <= l
  BY <1>1, <1>2 DEF Young, Bounded
<1> QED
  BY <1>4, <1>5, <1>6 DEF Young, Bounded

LEMMA ImportAge ==
  ASSUME Types, NEW n \in Pages, NEW d, d = [p \in 1 .. n |-> version + 1], d \in Content
  PROVE  Age(d) = version + 2 /\ version \in Nat
<1>1. n \in Nat \ {0} /\ version \in Nat
  BY TypesAre DEF Pages, RestOK
<1>2. Len(d) = n /\ 1 \in 1 .. n
  BY <1>1, LenProperties
<1>3. d[1] = version + 1
  BY <1>2
<1>4. Age(d) = d[1] + 1
  BY <1>1, <1>2, AgeIs
<1> QED
  BY <1>1, <1>3, <1>4

LEMMA YoungAnswers ==
  ASSUME Running, Young, NEW bytes, NEW ok \in BOOLEAN, requests # <<>>, requests' = Tail(requests),
         bytes = stored \/ bytes = Head(requests).bytes,
         stored' = stored \/ stored' = Head(requests).bytes,
         Answer(Head(requests), bytes, ok),
         UNCHANGED <<loaded, conn, txn, tasks, version>>
  PROVE  Young'
<1> DEFINE r == Head(requests)
<1>1. requests \in Seq(RequestType) /\ tasks \in Seq(RequestType)
  BY QueueIs DEF Running
<1>2. Capped(Tail(requests), Limit) /\ Age(r.bytes) <= Limit
  BY <1>1, r \in RequestType, TailIs, CappedAppend DEF Young, Bounded
<1>3. r \in RequestType
  BY <1>1, TailIs
<1>4. Age(bytes) <= Limit /\ Age(stored') <= Limit
  BY <1>2 DEF Young, Bounded
<1>5. Capped(events', Limit)
  <2>1. /\ r.by = NoCall => events' = events
        /\ r.by # NoCall =>
              /\ Len(events') = Len(events) + 1
              /\ events'[Len(events) + 1] =
                    [by |-> r.by, bytes |-> bytes, ok |-> ok, torn |-> r.op = "get" /\ torn]
        /\ Len(events) \in Nat /\ \A k \in 1 .. Len(events) : events'[k] = events[k]
    BY <1>3, AnswerIs DEF Running
  <2> HIDE DEF r
  <2>2. CASE r.by = NoCall
    BY <2>1, <2>2 DEF Young, Bounded
  <2>3. CASE r.by # NoCall
    <3>1. events'[Len(events) + 1].bytes = bytes
      BY <2>1, <2>3
    <3>2. \A k \in 1 .. Len(events') : k \in 1 .. Len(events) \/ k = Len(events) + 1
      BY <2>1, <2>3
    <3>3. \A k \in 1 .. Len(events) : Age(events[k].bytes) <= Limit
      BY DEF Young, Bounded, Capped
    <3> QED
      BY <1>4, <2>1, <3>1, <3>2, <3>3 DEF Capped
  <2> QED
    BY <2>2, <2>3
<1>6. Capped(requests', Limit) /\ Capped(tasks', Limit) /\ Fresh(loaded, tasks')
  BY <1>2 DEF Young, Bounded
<1> QED
  BY <1>4, <1>5, <1>6, YoungSteps

\* The result of write() is written over the file.
LEMMA YoungWritten ==
  ASSUME Running, Young, loaded # NoFile, NEW bytes \in Content, Age(bytes) <= Limit,
         NEW m, m = Store([buffer |-> Truncate(loaded, 0), tasks |-> tasks], 0, bytes)
  PROVE  Fresh(m.buffer, m.tasks) /\ Capped(m.tasks, Limit) /\ Age(m.buffer.data) <= Limit
<1> DEFINE b == Truncate(loaded, 0)
           v == [buffer |-> b, tasks |-> tasks]
<1>1. loaded \in File /\ tasks \in Seq(RequestType) /\ Views(Machine)
      /\ Machine.buffer = loaded /\ Machine.tasks = tasks
  BY MachineViews DEF Running, Views
<1>2. /\ b.data = loaded.data /\ b.size = 0 /\ b \in File
  <2>1. loaded \in [data : Content, size : Nat] /\ Len(loaded.data) \in Nat
    BY <1>1, FileIs DEF File
  <2>2. b.data = loaded.data /\ b.size = 0 /\ b \in [data : Content, size : Nat]
    BY <2>1 DEF Truncate
  <2> HIDE DEF b
  <2> QED
    BY <2>1, <2>2 DEF File
<1>3. v.buffer = b /\ v.tasks = tasks
  OBVIOUS
<1> HIDE DEF b, v
<1>4. Views(v)
  BY <1>1, <1>2, <1>3 DEF Views
<1>5. Views(m) /\ m.buffer = Write(b, 0, bytes)
      /\ \E same \in BOOLEAN : Reviewed(tasks, m.tasks, same, Age(m.buffer.data))
  BY <1>3, <1>4, StoreReviews DEF v, b
<1>6. Limit \in Nat \ {0}
  BY TypesAre DEF Running, RestOK, Limit
<1>7. Age(loaded.data) <= Limit /\ Fresh(b, tasks) /\ Capped(tasks, Limit)
  BY <1>2 DEF Young, Bounded, Fresh
<1>8. Age(m.buffer.data) <= Limit
  BY <1>2, <1>5, <1>6, <1>7, WriteAges
<1>9. Age(m.buffer.data) \in Nat /\ Age(b.data) \in Nat
      /\ \A i \in 1 .. Len(tasks) : Age(tasks[i].bytes) \in Nat
  BY <1>2, <1>5, ViewsAges, AgeOfFile, TasksAges DEF Running
<1>10. PICK same \in BOOLEAN : Reviewed(tasks, m.tasks, same, Age(m.buffer.data))
  BY <1>5
<1> DEFINE age == Age(m.buffer.data)
           c == m.buffer
           t == m.tasks
<1>11. age = Age(c.data) /\ age \in Nat /\ Reviewed(tasks, t, same, age)
  BY <1>9, <1>10
<1> HIDE DEF age, c, t
<1>12. Fresh(c, t) /\ \A limit \in Nat : Capped(tasks, limit) /\ age <= limit => Capped(t, limit)
  BY <1>7, <1>9, <1>11, ReviewedAges
<1> QED
  BY <1>6, <1>7, <1>8, <1>12 DEF age, c, t

LEMMA YoungResumes ==
  ASSUME Running, Young, Resume
  PROVE  Young'
<1> DEFINE e == Head(events)
<1>1. /\ events \in Seq(EventType) /\ events # <<>> /\ events' = Tail(events)
      /\ UNCHANGED <<conn, txn, requests, stored, version>>
  BY TypesAre DEF Running, RestOK, Resume, storage
<1>0. /\ Age(stored') <= Limit /\ Capped(requests', Limit)
      /\ tasks' = tasks => Capped(tasks', Limit) /\ Fresh(loaded, tasks')
  BY <1>1 DEF Young, Bounded
<1>2. e \in EventType /\ Capped(events', Limit) /\ Age(e.bytes) <= Limit
  BY <1>1, e \in EventType, TailIs, CappedAppend DEF Young, Bounded
<1>3. Answers(e, calls, committed)
  BY <1>1, TailIs DEF Running, Waiting
<1>4. \/ Loaded(e) \/ Written(e) \/ UNCHANGED <<loaded, tasks>>
  BY DEF Resume
<1> HIDE DEF e
<1>5. CASE UNCHANGED <<loaded, tasks>>
  BY <1>0, <1>1, <1>2, <1>5, YoungSteps
<1>6. CASE Loaded(e) /\ loaded' # loaded
  <2>1. loaded = NoFile /\ tasks' = tasks /\ loaded' = NewBuffer(e.bytes) /\ e.bytes # NoFile
    BY <1>6 DEF Loaded
  <2>2. e.bytes \in Content
    BY <1>2, <2>1 DEF EventType
  <2>3. loaded'.data = e.bytes
    BY <2>1, <2>2, NewFileIs
  <2> QED
    BY <1>0, <1>1, <1>2, <2>1, <2>3, YoungSteps
<1>7. CASE Written(e) /\ loaded # NoFile
  <2> DEFINE m == Store([buffer |-> Truncate(loaded, 0), tasks |-> tasks], 0, e.bytes)
  <2>1. loaded' = m.buffer /\ tasks' = m.tasks
    BY <1>7 DEF Written
  <2>2. e.bytes \in Content
    BY <1>3, <1>7, Committed DEF Answers, Written, Running, Types
  <2> HIDE DEF m
  <2>3. Fresh(m.buffer, m.tasks) /\ Capped(m.tasks, Limit) /\ Age(m.buffer.data) <= Limit
    BY <1>2, <1>7, <2>2, YoungWritten DEF m
  <2>4. Limit' = Limit
    BY <1>1 DEF Limit
  <2> QED
    BY <1>1, <1>2, <2>1, <2>3, <2>4 DEF Young, Bounded
<1> QED
  BY <1>4, <1>5, <1>6, <1>7 DEF Loaded, Written

\* What a statement of the connection does not change
LEMMA YoungRest ==
  ASSUME Running, Young, Starts(Transaction), Spilled
  PROVE  /\ Age(stored) <= Limit' /\ Capped(requests, Limit') /\ Capped(events, Limit')
         /\ Age(Transaction.before) <= Limit'
<1>1. Limit \in Nat /\ Limit' \in Nat /\ Limit <= Limit'
  BY StartsLimit DEF Running
<1>2. /\ \A i \in 1 .. Len(requests) : Age(requests[i].bytes) \in Nat
      /\ \A k \in 1 .. Len(events) : Age(events[k].bytes) \in Nat
      /\ Age(stored) \in Nat
      /\ loaded # NoFile => Age(loaded.data) \in Nat
      /\ conn \in {"open", "spilled"} => Age(txn.before) \in Nat
  BY TasksAges DEF Running
<1>3. Capped(requests, Limit') /\ Capped(events, Limit')
  BY <1>1, <1>2, CappedMore DEF Young, Bounded
<1>4. Age(Transaction.before) <= Limit /\ Age(Transaction.before) \in Nat
  <2>1. Transaction.before = txn.before
    BY DEF Transaction
  <2>2. conn \in {"open", "spilled"}
    BY DEF Starts
  <2> QED
    BY <1>2, <2>1, <2>2 DEF Young, Bounded
<1> QED
  BY <1>1, <1>2, <1>3, <1>4 DEF Young, Bounded

LEMMA YoungStep == Young /\ Spilled /\ Running /\ Running' /\ [Next]_vars => Young'
<1> SUFFICES ASSUME Young, Spilled, Running, Running', [Next]_vars PROVE Young'
  OBVIOUS
<1>0. Types /\ Types' /\ Bounded /\ Fresh(loaded, tasks)
      /\ version \in Nat /\ version' \in Nat /\ Limit \in Nat \ {0}
      /\ tasks \in Seq(RequestType) /\ requests \in Seq(RequestType)
  <2>1. Types /\ Types'
    BY DEF Running
  <2>2. version' \in Nat
    BY <2>1 DEF Types, TypeOK
  <2> QED
    BY <2>1, <2>2, TypesAre, QueueIs DEF Young, RestOK, Limit
<1>1. ASSUME NEW c \in Calls, NEW op \in {"open", "read"}, LoadFile(c, op) PROVE Young'
  <2> DEFINE r == Request("get", "database", <<>>, c, FALSE)
  <2>1. r \in RequestType /\ r.op = "get" /\ ~r.live /\ r.bytes = <<>>
    BY NoBytes DEF Request, RequestType
  <2>2. /\ tasks' = Append(tasks, r) /\ version' = version
        /\ UNCHANGED <<loaded, conn, txn, requests, events, stored>>
    BY <1>1 DEF LoadFile, storage
  <2> HIDE DEF r
  <2>3. ~SyncsFile(r) /\ Age(r.bytes) <= Limit'
    BY <1>0, <2>1, <2>2, AgeIs DEF SyncsFile, Limit
  <2> QED
    BY <1>0, <2>1, <2>2, <2>3, YoungAsks
<1>2. ASSUME NEW c \in Calls, NEW n \in Pages, WriteFile(c, n) PROVE Young'
  <2> DEFINE d == [p \in 1 .. n |-> version + 1]
             r == Request("put", "database", d, c, FALSE)
  <2>1. /\ tasks' = Append(tasks, r) /\ version' = version + 1 /\ committed' = committed \cup {d}
        /\ UNCHANGED <<loaded, conn, txn, requests, events, stored>>
    BY <1>2 DEF WriteFile, storage
  <2>2. d \in Content
    BY <1>0, <2>1 DEF Types, TypeOK
  <2>3. Age(d) = version + 2
    BY <1>0, <2>2, ImportAge
  <2> HIDE DEF d
  <2>4. r \in RequestType /\ r.by = c /\ ~r.live /\ r.bytes = d
    BY <2>2 DEF Request, RequestType
  <2> HIDE DEF r
  <2>5. ~SyncsFile(r) /\ Age(r.bytes) <= Limit'
    BY <1>0, <2>1, <2>3, <2>4 DEF SyncsFile, Limit
  <2> QED
    BY <1>0, <2>1, <2>4, <2>5, YoungAsks
<1>3. ASSUME UNCHANGED <<version, stored, tasks, requests, events, txn, loaded>>,
             conn' = conn \/ conn' \notin {"open", "spilled"}
      PROVE  Young'
  <2>1. /\ Age(stored') <= Limit /\ Capped(requests', Limit) /\ Capped(events', Limit)
        /\ Capped(tasks', Limit) /\ Fresh(loaded, tasks')
    BY <1>0, <1>3 DEF Bounded
  <2> QED
    BY <1>3, <2>1, YoungSteps
<1>4. ASSUME NEW c \in Calls, OpenDatabase(c) PROVE Young'
  <2>1. /\ conn' = "idle" /\ loaded' = IF loaded = NoFile THEN NewBuffer(<<>>) ELSE loaded
        /\ UNCHANGED <<txn, tasks, requests, events, stored, version>>
    BY <1>4 DEF OpenDatabase, storage, history
  <2>2. CASE loaded # NoFile
    BY <1>3, <2>1, <2>2
  <2>3. CASE loaded = NoFile
    <3>1. loaded'.data = <<>>
      BY <2>1, <2>3, NoBytes, NewFileIs
    <3>2. Age(loaded'.data) <= Limit
      BY <1>0, <3>1, AgeIs
    <3>3. /\ Age(stored') <= Limit /\ Capped(requests', Limit) /\ Capped(events', Limit)
          /\ Capped(tasks', Limit)
      BY <1>0, <2>1 DEF Bounded
    <3>4. conn' \notin {"open", "spilled"}
      BY <2>1
    <3> QED
      BY <2>1, <2>3, <3>2, <3>3, <3>4, YoungSteps
  <2> QED
    BY <2>2, <2>3
<1>5. ASSUME NEW c \in Calls, ReadReturns(c) PROVE Young'
  BY <1>3, <1>5 DEF ReadReturns, storage, history
<1>6. CASE RunTask
  <2> DEFINE r == [Head(tasks) EXCEPT !.live = FALSE]
  <2>1. /\ tasks # <<>> /\ tasks' = Tail(tasks) /\ requests' = Append(requests, r)
        /\ UNCHANGED <<loaded, conn, txn, events, stored, version>>
    BY <1>6 DEF RunTask, storage, history
  <2>2. Head(tasks) \in RequestType
    BY <1>0, <2>1, TailIs
  <2>3. r \in RequestType /\ Age(r.bytes) = Age(Head(tasks).bytes)
    BY <2>2, PlainAge DEF RequestType
  <2> HIDE DEF r
  <2>4. Capped(Tail(tasks), Limit) /\ Age(Head(tasks).bytes) <= Limit
    BY <1>0, <2>1, <2>2, CappedAppend DEF Bounded
  <2>5. Capped(requests', Limit)
    BY <1>0, <2>1, <2>3, <2>4, CappedAppend DEF Bounded
  <2>6. Fresh(loaded, tasks')
    BY <1>0, <2>1, TailFresh
  <2> QED
    <3>1. Age(stored') <= Limit /\ Capped(events', Limit) /\ Capped(tasks', Limit)
      BY <1>0, <2>1, <2>4 DEF Bounded
    <3> QED
      BY <2>1, <2>5, <2>6, <3>1, YoungSteps
<1>7. CASE Serve
  <2> DEFINE r == Head(requests)
             bytes == IF r.op = "get" THEN stored ELSE r.bytes
             ok == TRUE
  <2>1. /\ requests # <<>> /\ requests' = Tail(requests) /\ (stored' = stored \/ stored' = r.bytes)
        /\ Answer(r, bytes, ok) /\ UNCHANGED <<loaded, conn, txn, tasks, version>>
    BY <1>7 DEF Serve, storage, history
  <2>2. bytes = stored \/ bytes = r.bytes
    OBVIOUS
  <2> HIDE DEF bytes, ok, Answer
  <2>3. ok \in BOOLEAN
    BY DEF ok
  <2> QED
    BY <2>1, <2>2, <2>3, YoungAnswers
<1>8. CASE Refuse
  <2> DEFINE ok == FALSE
  <2>1. /\ requests # <<>> /\ requests' = Tail(requests) /\ stored' = stored
        /\ Answer(Head(requests), Head(requests).bytes, ok)
        /\ UNCHANGED <<loaded, conn, txn, tasks, version>>
    BY <1>8 DEF Refuse, storage, history
  <2>2. ok \in BOOLEAN
    OBVIOUS
  <2> HIDE DEF ok
  <2> QED
    BY <2>1, <2>2, YoungAnswers
<1>9. CASE Resume
  BY <1>9, YoungResumes
<1>10. ASSUME NEW pages \in SUBSET (2 .. MaxPages), Spill(pages) PROVE Young'
  <2>1. /\ Starts(Transaction) /\ txn' = [Transaction EXCEPT !.wrote = @ \cup pages]
        /\ UNCHANGED <<requests, events, stored>>
    BY <1>10 DEF Spill, storage
  <2>2. /\ Fresh(loaded', tasks') /\ Capped(tasks', Limit') /\ Age(loaded'.data) <= Limit'
    BY <1>0, <1>10, SpillAged
  <2>3. txn'.before = Transaction.before
    BY <1>0, <2>1, TransactionIs DEF TxnType
  <2> QED
    BY <2>1, <2>2, <2>3, YoungRest DEF Young, Bounded
<1>11. ASSUME NEW n \in Pages, NEW pages \in SUBSET (2 .. n), Commit(n, pages) PROVE Young'
  <2>1. Starts(Transaction) /\ conn' = "idle" /\ UNCHANGED <<requests, events, stored>>
    BY <1>11 DEF Commit, storage
  <2>2. PICK m, end : Commits(n, pages, m, end)
    BY <1>0, <1>11, CommitIs
  <2>3. /\ Fresh(loaded', tasks') /\ Capped(tasks', Limit') /\ Age(loaded'.data) <= Limit'
    BY <1>0, <1>11, <2>2, CommitAged
  <2> QED
    BY <2>1, <2>3, YoungRest DEF Young, Bounded
<1>12. CASE Rollback
  <2>1. conn' = "idle" /\ UNCHANGED <<requests, events, stored, version>>
    BY <1>12 DEF Rollback, storage, history
  <2>2. PICK u, m : RollsBack(u, m)
    BY <1>0, <1>12, RollbackIs
  <2>3. /\ Fresh(loaded', tasks') /\ Capped(tasks', Limit) /\ Age(loaded'.data) <= Limit
    BY <1>0, <1>12, <2>2, RollbackAged
  <2>4. Limit' = Limit
    BY <2>1 DEF Limit
  <2> QED
    BY <1>0, <2>1, <2>3, <2>4 DEF Young, Bounded
<1>13. CASE CloseDatabase \/ Begin \/ EndTransaction
  <2>1. UNCHANGED <<version, stored, tasks, requests, events, loaded>>
    BY <1>0, <1>13, ReadsSame
  <2>2. CASE Begin
    <3>1. conn' = "open" /\ txn'.before = ToArray(loaded) /\ conn = "idle"
      BY <2>2 DEF Begin
    <3>2. loaded # NoFile /\ loaded \in File
      BY <1>0, <3>1, TypesAre DEF RestOK, MachineOK
    <3>3. /\ Age(ToArray(loaded)) \in Nat /\ Age(loaded.data) \in Nat
          /\ Age(ToArray(loaded)) = 0 \/ Age(ToArray(loaded)) = Age(loaded.data)
      BY <3>2, AgeOfFile
    <3>4. Age(loaded.data) <= Limit
      BY <1>0, <3>2 DEF Bounded
    <3>5. Age(txn'.before) <= Limit
      BY <1>0, <3>1, <3>3, <3>4
    <3>6. Limit' = Limit
      BY <2>1 DEF Limit
    <3> QED
      BY <1>0, <2>1, <3>5, <3>6 DEF Young, Bounded
  <2>3. CASE CloseDatabase \/ EndTransaction
    <3>1. conn' \notin {"open", "spilled"}
      BY <2>3 DEF CloseDatabase, EndTransaction
    <3>2. /\ Age(stored') <= Limit /\ Capped(requests', Limit) /\ Capped(events', Limit)
          /\ Capped(tasks', Limit) /\ Fresh(loaded, tasks')
      BY <1>0, <2>1 DEF Bounded
    <3> QED
      BY <2>1, <3>1, <3>2, YoungSteps
  <2> QED
    BY <1>13, <2>2, <2>3
<1>14. CASE Reload
  <2>1. /\ conn' = "closed" /\ loaded' = NoFile /\ tasks' = <<>> /\ requests' = <<>> /\ events' = <<>>
        /\ stored' = stored /\ version' = version
    BY <1>14 DEF Reload, storage
  <2>2. Capped(tasks', Limit) /\ Capped(requests', Limit) /\ Capped(events', Limit)
    BY <2>1, NoItems DEF Capped
  <2> QED
    BY <1>0, <2>1, <2>2, YoungSteps DEF Bounded
<1>15. CASE UNCHANGED vars
  BY <1>3, <1>15 DEF vars, memory, storage, history
<1> QED
  BY <1>1, <1>2, <1>4, <1>5, <1>6, <1>7, <1>8, <1>9, <1>10, <1>11, <1>12, <1>13, <1>14, <1>15
     DEF Next

-----------------------------------------------------------------------------
\* Puts of the database come in the order of their ages, none of them is older than
\* what IndexedDB has, and those of the connection are not younger than what
\* it has, or starts from.
InOrder(q) ==
    \A i, j \in 1 .. Len(q) :
        i < j /\ PutsFile(q[i]) /\ PutsFile(q[j]) => Age(q[i].bytes) <= Age(q[j].bytes)
NotBefore(age, q) == \A i \in 1 .. Len(q) : PutsFile(q[i]) => age <= Age(q[i].bytes)
SyncsUpTo(q, age) == \A i \in 1 .. Len(q) : SyncsFile(q[i]) => Age(q[i].bytes) <= age

Base(c, t, b) == IF c = "spilled" THEN t.before ELSE ToArray(b)

Ordered(q, es, cs, file, b, base) ==
    /\ InOrder(q) /\ NotBefore(Age(file), q)
    /\ b # NoFile /\ NoImport(es, cs) => Age(file) <= Age(base) /\ SyncsUpTo(q, Age(base))
    /\ \A k \in 1 .. Len(es) : LastImport(es, cs, k) => Age(file) <= Age(es[k].bytes)

\* A new request may be the put of write(), which is the youngest.
Youngest(r, q, file) ==
    /\ ~SyncsFile(r)
    /\ PutsFile(r) => Age(file) <= Age(r.bytes) /\ \A i \in 1 .. Len(q) : Age(q[i].bytes) <= Age(r.bytes)

SameQueueAges(q, q2) == \A i \in 1 .. Len(q) : Age(q2[i].bytes) = Age(q[i].bytes)

LEMMA SyncsPut ==
  ASSUME NEW r, SyncsFile(r)
  PROVE  PutsFile(r)
  BY DEF SyncsFile, PutsFile

LEMMA KeptPuts ==
  ASSUME NEW r, NEW r2, Kept(r, r2)
  PROVE  (PutsFile(r2) <=> PutsFile(r)) /\ (SyncsFile(r2) <=> SyncsFile(r))
  BY DEF Kept, PutsFile, SyncsFile

LEMMA OrderedGrows ==
  ASSUME NEW q, NEW q2, NEW new, Grown(q, q2, new), SameQueueAges(q, q2), Len(new) \in 0 .. 1,
         NEW es, NEW cs, NEW cs2, SameImports(es, cs, cs2), NEW file, NEW b, NEW b2, NEW base,
         \A i \in 1 .. Len(new) : Youngest(new[i], q, file),
         b2 # NoFile => b # NoFile, Ordered(q, es, cs, file, b, base)
  PROVE  Ordered(q2, es, cs2, file, b2, base)
<1> DEFINE n == Len(q)
<1>1. /\ n \in Nat /\ Len(q2) = n + Len(new)
      /\ \A i \in 1 .. n : Kept(q[i], q2[i])
      /\ \A i \in 1 .. Len(new) : q2[n + i] = new[i]
  BY LenProperties DEF Grown
<1>2. \A i \in 1 .. n : /\ PutsFile(q2[i]) <=> PutsFile(q[i])
                        /\ SyncsFile(q2[i]) <=> SyncsFile(q[i])
                        /\ Age(q2[i].bytes) = Age(q[i].bytes)
  BY <1>1, KeptPuts DEF SameQueueAges
<1>3. /\ InOrder(q) /\ NotBefore(Age(file), q)
      /\ b # NoFile /\ NoImport(es, cs) => Age(file) <= Age(base) /\ SyncsUpTo(q, Age(base))
      /\ \A k \in 1 .. Len(es) : LastImport(es, cs, k) => Age(file) <= Age(es[k].bytes)
  BY DEF Ordered
<1>4. /\ NoImport(es, cs2) <=> NoImport(es, cs)
      /\ \A k \in 1 .. Len(es) : LastImport(es, cs2, k) <=> LastImport(es, cs, k)
  BY DEF SameImports, NoImport, LastImport
<1> HIDE DEF n
<1>5. ASSUME NEW i \in 1 .. Len(q2), i \notin 1 .. n
      PROVE  i = n + 1 /\ Youngest(q2[i], q, file)
  <2>1. Len(new) = 1 /\ i = n + 1 /\ 1 \in 1 .. Len(new)
    BY <1>1, <1>5
  <2> QED
    BY <1>1, <2>1
<1>6. ASSUME NEW i \in 1 .. Len(q2), NEW j \in 1 .. Len(q2), i < j, PutsFile(q2[i]), PutsFile(q2[j])
      PROVE  Age(q2[i].bytes) <= Age(q2[j].bytes)
  <2>1. CASE j \in 1 .. n
    <3>1. i \in 1 .. n
      BY <1>1, <1>6, <2>1
    <3> QED
      BY <1>2, <1>3, <1>6, <2>1, <3>1 DEF InOrder, n
  <2>2. CASE j \notin 1 .. n
    <3>1. j = n + 1 /\ Youngest(q2[j], q, file)
      BY <1>5, <2>2
    <3>2. i \in 1 .. n
      BY <1>1, <1>6, <3>1
    <3> QED
      BY <1>2, <1>6, <3>1, <3>2 DEF Youngest, n
  <2> QED
    BY <2>1, <2>2
<1>7. ASSUME NEW i \in 1 .. Len(q2), PutsFile(q2[i])
      PROVE  Age(file) <= Age(q2[i].bytes)
  <2>1. CASE i \in 1 .. n
    BY <1>2, <1>3, <1>7, <2>1 DEF NotBefore, n
  <2>2. CASE i \notin 1 .. n
    BY <1>5, <1>7, <2>2 DEF Youngest
  <2> QED
    BY <2>1, <2>2
<1>8. ASSUME NEW age, SyncsUpTo(q, age), NEW i \in 1 .. Len(q2), SyncsFile(q2[i])
      PROVE  Age(q2[i].bytes) <= age
  <2>1. i \in 1 .. n
    BY <1>5, <1>8 DEF Youngest
  <2> QED
    BY <1>2, <1>8, <2>1 DEF SyncsUpTo, n
<1>9. InOrder(q2) /\ NotBefore(Age(file), q2)
  BY <1>6, <1>7 DEF InOrder, NotBefore
<1>10. b2 # NoFile /\ NoImport(es, cs2) => Age(file) <= Age(base) /\ SyncsUpTo(q2, Age(base))
  BY <1>3, <1>4, <1>8 DEF SyncsUpTo
<1> QED
  BY <1>3, <1>4, <1>9, <1>10 DEF Ordered

LEMMA OrderedPops ==
  ASSUME NEW q, NEW q2, Popped(q, q2), NEW age, InOrder(q), NotBefore(age, q)
  PROVE  /\ InOrder(q2) /\ NotBefore(age, q2)
         /\ PutsFile(q[1]) => NotBefore(Age(q[1].bytes), q2)
         /\ \A top : SyncsUpTo(q, top) => SyncsUpTo(q2, top) /\ (SyncsFile(q[1]) => Age(q[1].bytes) <= top)
<1>1. /\ Len(q) \in Nat \ {0} /\ Len(q2) = Len(q) - 1
      /\ \A i \in 1 .. Len(q2) : q2[i] = q[i + 1] /\ i + 1 \in 1 .. Len(q) /\ 1 < i + 1
      /\ 1 \in 1 .. Len(q)
      /\ \A i, j \in 1 .. Len(q2) : i < j => i + 1 < j + 1
  BY DEF Popped
<1>2. InOrder(q2)
  BY <1>1 DEF InOrder
<1>3. NotBefore(age, q2)
  BY <1>1 DEF NotBefore
<1>4. PutsFile(q[1]) => NotBefore(Age(q[1].bytes), q2)
  BY <1>1 DEF InOrder, NotBefore
<1>5. \A top : SyncsUpTo(q, top) => SyncsUpTo(q2, top) /\ (SyncsFile(q[1]) => Age(q[1].bytes) <= top)
  BY <1>1 DEF SyncsUpTo
<1> QED
  BY <1>2, <1>3, <1>4, <1>5

\* A transaction ends: its put is the youngest of the queue.
LEMMA OrderedEnds ==
  ASSUME NEW q, NEW q2, NEW new, NEW d, Ends(q, q2, new, d),
         \A i \in 1 .. Len(q2) : Age(q2[i].bytes) \in Nat,
         NEW file, Age(file) \in Nat, NotBefore(Age(file), q), Age(file) <= Age(d.bytes),
         \A i \in 1 .. Len(q) : PutsFile(q2[i]) =>
            Age(q[i].bytes) <= Age(q2[i].bytes) /\ Age(q2[i].bytes) <= Age(d.bytes),
         \A i \in 1 .. Len(q) : Age(q[i].bytes) \in Nat,
         \A i, j \in 1 .. Len(q) : i < j /\ PutsFile(q2[i]) /\ PutsFile(q2[j])
                                      => Age(q2[i].bytes) <= Age(q2[j].bytes),
         NEW base, Age(base) = Age(d.bytes), NEW es, NEW cs, NoImport(es, cs), NEW b
  PROVE  Ordered(q2, es, cs, file, b, base)
<1> DEFINE n == Len(q)
           k == Len(new)
           m == n + k
           top == Age(d.bytes)
<1>1. /\ Grown(q, q2, new) /\ k \in 2 .. 3
      /\ new[k - 1] = d /\ new[k] = DeleteJournal
      /\ k = 3 => new[1] = SyncJournal
  BY DEF Ends
<1>2. /\ n \in Nat /\ Len(q2) = m
      /\ \A i \in 1 .. n : Kept(q[i], q2[i])
      /\ \A i \in 1 .. k : q2[n + i] = new[i]
  BY <1>1, LenProperties DEF Grown
<1>3. ~PutsFile(SyncJournal) /\ ~PutsFile(DeleteJournal)
  BY JournalRequests DEF PutsFile
<1> HIDE DEF n, k, m, top
\* where puts are
<1>4. ASSUME NEW i \in 1 .. Len(q2), PutsFile(q2[i]), i \notin 1 .. n
      PROVE  i = m - 1 /\ q2[i] = d
  <2> DEFINE j == i - n
  <2>1. j \in 1 .. k /\ n + j = i /\ (j = k \/ j = k - 1 \/ (j = 1 /\ k = 3))
    BY <1>1, <1>2, <1>4 DEF m
  <2>2. i = n + j
    BY <2>1
  <2> HIDE DEF j
  <2>3. q2[i] = new[j]
    BY <1>2, <2>1, <2>2
  <2>4. j = k - 1
    BY <1>1, <1>3, <1>4, <2>1, <2>3
  <2>5. i = m - 1
    BY <1>1, <1>2, <2>2, <2>4 DEF m
  <2> QED
    BY <1>1, <2>3, <2>4, <2>5
<1>5. top \in Nat
  <2> DEFINE i == n + (k - 1)
  <2>1. i \in 1 .. Len(q2) /\ k - 1 \in 1 .. k
    BY <1>1, <1>2 DEF m
  <2>2. q2[i] = d
    BY <1>1, <1>2, <2>1
  <2> HIDE DEF i
  <2> QED
    BY <2>1, <2>2 DEF top
<1>6. \A i \in 1 .. Len(q2) : PutsFile(q2[i]) => Age(q2[i].bytes) <= top
  BY <1>4, <1>5 DEF top, n
<1>7. ASSUME NEW i \in 1 .. Len(q2), NEW j \in 1 .. Len(q2), i < j, PutsFile(q2[i]), PutsFile(q2[j])
      PROVE  Age(q2[i].bytes) <= Age(q2[j].bytes)
  <2>1. CASE j \in 1 .. n
    <3>1. i \in 1 .. n
      BY <1>2, <1>7, <2>1
    <3> QED
      BY <1>7, <2>1, <3>1 DEF n
  <2>2. CASE j \notin 1 .. n
    BY <1>4, <1>6, <1>7, <2>2 DEF top
  <2> QED
    BY <2>1, <2>2
<1>8. ASSUME NEW i \in 1 .. Len(q2), PutsFile(q2[i]) PROVE Age(file) <= Age(q2[i].bytes)
  <2>1. CASE i \in 1 .. n
    <3>1. PutsFile(q[i])
      BY <1>2, <1>8, <2>1, KeptPuts
    <3>2. Age(file) <= Age(q[i].bytes) /\ Age(q[i].bytes) <= Age(q2[i].bytes)
      BY <1>8, <2>1, <3>1 DEF NotBefore, n
    <3>3. Age(q[i].bytes) \in Nat /\ Age(q2[i].bytes) \in Nat
      BY <2>1 DEF n
    <3> QED
      BY <3>2, <3>3
  <2>2. CASE i \notin 1 .. n
    BY <1>4, <1>8, <2>2
  <2> QED
    BY <2>1, <2>2
<1>9. SyncsUpTo(q2, Age(base))
  BY <1>6, SyncsPut DEF SyncsUpTo, top
<1>10. \A l \in 1 .. Len(es) : ~LastImport(es, cs, l)
  BY DEF NoImport, LastImport
<1>11. InOrder(q2) /\ NotBefore(Age(file), q2)
  BY <1>7, <1>8 DEF InOrder, NotBefore
<1> QED
  BY <1>9, <1>10, <1>11 DEF Ordered

-----------------------------------------------------------------------------
\* IndexedDB's order, and what it rests on
AgedOrder == ~overlap => Ordered(Queue, events, calls, stored, loaded, Base(conn, txn, loaded))
Aged == Spilled /\ Young /\ AgedOrder

\* A request of the queue is one that IndexedDB has, or a task.
LEMMA QueueIndex ==
  ASSUME Types, Types', requests' = requests, Len(tasks) <= Len(tasks'), NEW i \in 1 .. Len(Queue)
  PROVE  /\ i \in 1 .. Len(requests) =>
              Queue[i] = requests[i] /\ Queue'[i] = requests[i]
         /\ i \notin 1 .. Len(requests) =>
              \E k \in 1 .. Len(tasks) :
                  i = Len(requests) + k /\ Queue[i] = tasks[k] /\ Queue'[i] = tasks'[k]
<1> DEFINE q == Queue
           q2 == Queue'
           n == Len(requests)
           l == Len(tasks)
           k == i - n
<1>1. /\ Len(q) = n + l /\ n \in Nat /\ l \in Nat
      /\ \A j \in 1 .. n : q[j] = requests[j]
      /\ \A j \in 1 .. l : q[n + j] = tasks[j]
  BY QueueIs
<1>2. /\ Len(tasks') \in Nat /\ l <= Len(tasks')
      /\ \A j \in 1 .. n : q2[j] = requests[j]
      /\ \A j \in 1 .. Len(tasks') : q2[n + j] = tasks'[j]
  BY QueueIsNext
<1> HIDE DEF n, l, q2
<1>3. ASSUME i \notin 1 .. n PROVE k \in 1 .. l /\ n + k = i
  <2> HIDE DEF q
  <2>1. i \in 1 .. n + l
    BY <1>1 DEF q
  <2> QED
    BY <1>1, <1>3, <2>1
<1> DEFINE l2 == Len(tasks')
<1>4. \A j \in 1 .. l : j \in 1 .. l2
  <2>1. l2 \in Nat /\ l <= l2 /\ l \in Nat
    BY <1>1, <1>2
  <2> HIDE DEF l2
  <2> QED
    BY <2>1
<1> HIDE DEF q, k
<1>5. ASSUME i \notin 1 .. n
      PROVE  \E j \in 1 .. l : i = n + j /\ q[i] = tasks[j] /\ q2[i] = tasks'[j]
  <2>1. k \in 1 .. l /\ n + k = i
    BY <1>3, <1>5
  <2>2. k \in 1 .. l2
    BY <1>4, <2>1
  <2>3. q[n + k] = tasks[k] /\ q2[n + k] = tasks'[k]
    BY <1>1, <1>2, <2>1, <2>2
  <2> QED
    BY <2>1, <2>3
<1> QED
  BY <1>1, <1>2, <1>5 DEF q, q2, n, l

LEMMA ShowsAge ==
  ASSUME NEW file \in Content, NEW c \in Content, Shows(file, c), Len(c) # 0
  PROVE  Age(file) = Age(c) /\ Age(c) \in Nat
<1>1. /\ Len(c) \in Nat /\ Len(file) \in Nat /\ Len(c) <= Len(file)
      /\ \A i \in 1 .. Len(c) : file[i] = c[i]
  BY ContentIs, ShowsIs DEF Shows
<1>2. 1 \in 1 .. Len(c) /\ Len(file) # 0
  BY <1>1
<1> QED
  BY <1>1, <1>2, SameAge, AgeIs

LEMMA NoImports ==
  ASSUME Running, Alone, ~overlap, conn # "closed"
  PROVE  /\ NoImport(events, calls)
         /\ \A i \in 1 .. Len(Queue) : PutsFile(Queue[i]) <=> SyncsFile(Queue[i])
<1>1. ~Someone(calls, "write")
  BY DEF Alone
<1>2. \A k \in 1 .. Len(events) : events[k].by \in Calls
  BY CallsOf DEF Running
<1>3. ASSUME NEW i \in 1 .. Len(Queue) PROVE PutsFile(Queue[i]) <=> SyncsFile(Queue[i])
  <2>1. AskedFor(Queue[i], calls, committed) /\ Queue[i].by \in Calls \cup {NoCall}
    BY CallsOf DEF Running, Waiting
  <2> QED
    BY <1>1, <2>1 DEF AskedFor, PutsFile, SyncsFile, Someone
<1> QED
  BY <1>1, <1>2, <1>3 DEF NoImport, Imported, Someone

LEMMA OrderedQuiet ==
  ASSUME AgedOrder, NEW new, Grown(Queue, Queue', new), SameQueueAges(Queue, Queue'), Len(new) \in 0 .. 1,
         ~overlap' => ~overlap, ~overlap' => \A i \in 1 .. Len(new) : Youngest(new[i], Queue, stored),
         SameImports(events, calls, calls'), events' = events, stored' = stored,
         loaded' # NoFile => loaded # NoFile,
         ~overlap' => Base(conn', txn', loaded') = Base(conn, txn, loaded)
  PROVE  AgedOrder'
<1> SUFFICES ASSUME ~overlap'
             PROVE  Ordered(Queue', events', calls', stored', loaded', Base(conn', txn', loaded'))
  BY DEF AgedOrder
<1> DEFINE base == Base(conn, txn, loaded)
<1>1. Ordered(Queue, events, calls, stored, loaded, base)
  BY DEF AgedOrder
<1>2. \A i \in 1 .. Len(new) : Youngest(new[i], Queue, stored)
  OBVIOUS
<1>3. base = Base(conn', txn', loaded')
  OBVIOUS
<1> HIDE DEF base
<1>4. Ordered(Queue', events, calls', stored, loaded', base)
  BY <1>1, <1>2, OrderedGrows
<1> QED
  BY <1>3, <1>4

\* A step that only changes calls, or moves a request
LEMMA OrderedSame ==
  ASSUME AgedOrder, Running, Grown(Queue, Queue', <<>>), Plain(Queue, Queue'),
         UNCHANGED <<events, loaded, stored, overlap>>,
         \A c \in Calls : Awaits(c) => calls'[c] = calls[c],
         UNCHANGED <<conn, txn>> \/ (conn # "spilled" /\ conn' # "spilled")
  PROVE  AgedOrder'
<1> DEFINE new == <<>>
<1>1. Grown(Queue, Queue', new) /\ Len(new) \in 0 .. 1 /\ \A i \in 1 .. Len(new) : Youngest(new[i], Queue, stored)
  BY NoItems
<1> HIDE DEF new
<1>2. SameImports(events, calls, calls')
  BY WaitersKeep
<1>3. SameQueueAges(Queue, Queue')
  BY DEF Plain, SameQueueAges
<1>4. Base(conn', txn', loaded') = Base(conn, txn, loaded)
  BY DEF Base
<1> QED
  BY <1>1, <1>2, <1>3, <1>4, OrderedQuiet

LEMMA OrderedAsks ==
  ASSUME AgedOrder, Running, Types', NEW r \in RequestType, tasks' = Append(tasks, r), ~overlap' => ~overlap,
         UNCHANGED <<loaded, conn, txn, requests, events, stored>>,
         ~overlap' => Youngest(r, Queue, stored),
         \A c \in Calls : Awaits(c) => calls'[c] = calls[c]
  PROVE  AgedOrder'
<1> DEFINE new == <<r>>
<1>1. Len(new) \in 0 .. 1 /\ (~overlap' => \A i \in 1 .. Len(new) : Youngest(new[i], Queue, stored))
  OBVIOUS
<1>2. Grown(Queue, Queue', new) /\ Plain(Queue, Queue')
  BY QueueIs, GrownOne, QueueGrows, AppendPlain DEF Running
<1> HIDE DEF new
<1>3. SameImports(events, calls, calls')
  BY WaitersKeep
<1>4. SameQueueAges(Queue, Queue')
  BY <1>2 DEF Plain, SameQueueAges
<1> QED
  BY <1>1, <1>2, <1>3, <1>4, OrderedQuiet

LEMMA OrderedLoadFile ==
  ASSUME AgedOrder, Running, Types', NEW c \in Calls, NEW op \in {"open", "read"}, LoadFile(c, op)
  PROVE  AgedOrder'
<1> DEFINE r == Request("get", "database", <<>>, c, FALSE)
<1>0. /\ calls \in [Calls -> [op : {"none", "open", "read", "write"},
                              stage : {"none", "get", "loaded", "put", "over"}]]
      /\ overlap \in BOOLEAN
  BY TypesAre DEF RestOK, Running
<1>1. r \in RequestType /\ r.op = "get"
  BY NoBytes DEF Request, RequestType
<1>2. /\ tasks' = Append(tasks, r) /\ UNCHANGED <<loaded, conn, txn, requests, events, stored>>
      /\ calls' = [calls EXCEPT ![c] = [op |-> op, stage |-> "get"]] /\ calls[c] = Idle
      /\ ~overlap' => ~overlap
  BY <1>0 DEF LoadFile, storage
<1> HIDE DEF r
<1>3. Youngest(r, Queue, stored)
  BY <1>1 DEF Youngest, SyncsFile, PutsFile
<1>4. \A f \in Calls : Awaits(f) => calls'[f] = calls[f]
  BY <1>0, <1>2 DEF Awaits, Idle
<1> QED
  BY <1>1, <1>2, <1>3, <1>4, OrderedAsks

LEMMA OrderedWriteFile ==
  ASSUME AgedOrder, Young, Running, Types', NEW c \in Calls, NEW n \in Pages, WriteFile(c, n)
  PROVE  AgedOrder'
<1> DEFINE d == [p \in 1 .. n |-> version + 1]
           r == Request("put", "database", d, c, FALSE)
<1>0. /\ calls \in [Calls -> [op : {"none", "open", "read", "write"},
                              stage : {"none", "get", "loaded", "put", "over"}]]
      /\ overlap \in BOOLEAN /\ version \in Nat
  BY TypesAre DEF RestOK, Running
<1>1. /\ tasks' = Append(tasks, r) /\ UNCHANGED <<loaded, conn, txn, requests, events, stored>>
      /\ calls' = [calls EXCEPT ![c] = [op |-> "write", stage |-> "put"]] /\ calls[c] = Idle
      /\ ~overlap' => ~overlap
      /\ committed' = committed \cup {d}
  BY <1>0 DEF WriteFile, storage
<1>2. d \in Content
  BY <1>1 DEF Types, TypeOK
<1>3. Age(d) = version + 2
  BY <1>2, ImportAge DEF Running
<1> HIDE DEF d
<1>4. r \in RequestType /\ r.by = c /\ r.bytes = d
  BY <1>2 DEF Request, RequestType
<1> HIDE DEF r
<1>5. /\ Age(stored) \in Nat /\ Age(stored) <= version + 1
      /\ \A i \in 1 .. Len(Queue) : Age(Queue[i].bytes) \in Nat /\ Age(Queue[i].bytes) <= version + 1
  <2>1. /\ Age(stored) \in Nat /\ Types
        /\ \A i \in 1 .. Len(Queue) : Age(Queue[i].bytes) \in Nat
    BY TasksAges DEF Running
  <2>2. /\ Age(stored) <= version + 1
        /\ \A i \in 1 .. Len(requests) : Age(requests[i].bytes) <= version + 1
        /\ \A i \in 1 .. Len(tasks) : Age(tasks[i].bytes) <= version + 1
    BY DEF Young, Bounded, Capped, Limit
  <2>3. ASSUME NEW i \in 1 .. Len(Queue) PROVE Age(Queue[i].bytes) <= version + 1
    <3>1. Len(tasks) <= Len(tasks')
      BY <1>1, <1>4, <2>1, QueueIs, AppendIs
    <3> QED
      BY <1>1, <2>1, <2>2, <3>1, QueueIndex
  <2> QED
    BY <2>1, <2>2, <2>3
<1>6. Youngest(r, Queue, stored)
  <2>1. ~SyncsFile(r)
    BY <1>4 DEF SyncsFile
  <2> QED
    BY <1>0, <1>3, <1>4, <1>5, <2>1 DEF Youngest
<1>7. \A f \in Calls : Awaits(f) => calls'[f] = calls[f]
  BY <1>0, <1>1 DEF Awaits, Idle
<1> QED
  BY <1>1, <1>4, <1>6, <1>7, OrderedAsks

LEMMA OrderedOpenDatabase ==
  ASSUME AgedOrder, CaughtUp, Running, Types', NEW c \in Calls, OpenDatabase(c)
  PROVE  AgedOrder'
<1>0. /\ calls \in [Calls -> [op : {"none", "open", "read", "write"},
                              stage : {"none", "get", "loaded", "put", "over"}]]
      /\ conn = "closed"
  BY TypesAre DEF RestOK, Running, Opening, OpenDatabase
<1>1. /\ calls[c] = [op |-> "open", stage |-> "loaded"] /\ calls' = [calls EXCEPT ![c] = Over]
      /\ conn' = "idle" /\ loaded' = IF loaded = NoFile THEN NewBuffer(<<>>) ELSE loaded
      /\ UNCHANGED <<tasks, requests, events, stored, txn, overlap>>
  BY DEF OpenDatabase, storage, history
<1>2. \A d \in Calls : Awaits(d) => calls'[d] = calls[d]
  BY <1>0, <1>1 DEF Awaits
<1>3. Queue' = Queue /\ Grown(Queue, Queue', <<>>) /\ Plain(Queue, Queue')
  <2>1. Queue' = Queue
    BY <1>1 DEF Queue
  <2> QED
    BY <1>1, <2>1, SameQueue DEF Plain, Running
<1>4. CASE loaded # NoFile
  BY <1>0, <1>1, <1>2, <1>3, <1>4, OrderedSame
<1>5. CASE loaded = NoFile
  <2> SUFFICES ASSUME ~overlap
               PROVE  Ordered(Queue', events', calls', stored', loaded', Base(conn', txn', loaded'))
    BY <1>1 DEF AgedOrder
  <2>1. loaded' = NewBuffer(<<>>) /\ ToArray(loaded') = <<>>
    BY <1>1, <1>5, NoBytes, NewFileShows
  <2>2. Age(stored) = 0
    <3>1. stored = NoFile
      BY <1>1, <1>5 DEF CaughtUp, Opened
    <3> QED
      BY <3>1, AgeIs
  <2>3. SameImports(events, calls, calls')
    BY <1>2, WaitersKeep
  <2>4. NoSync(Queue)
    BY <1>5 DEF CaughtUp, Unloaded
  <2> DEFINE base == Base(conn', txn', loaded')
  <2>5. Age(base) = 0
    BY <1>1, <2>1, AgeIs DEF Base
  <2> HIDE DEF base
  <2>6. InOrder(Queue) /\ NotBefore(Age(stored), Queue)
        /\ \A k \in 1 .. Len(events) : LastImport(events, calls, k) => Age(stored) <= Age(events[k].bytes)
    BY DEF AgedOrder, Ordered
  <2>7. \A k \in 1 .. Len(events) : LastImport(events, calls', k) => LastImport(events, calls, k)
    BY <2>3 DEF SameImports, LastImport
  <2>8. Age(stored) <= Age(base) /\ SyncsUpTo(Queue, Age(base))
    BY <2>2, <2>4, <2>5 DEF SyncsUpTo, NoSync
  <2>9. Ordered(Queue, events, calls', stored, loaded', base)
    BY <2>6, <2>7, <2>8 DEF Ordered
  <2> QED
    BY <1>1, <1>3, <2>9 DEF base
<1> QED
  BY <1>4, <1>5

LEMMA OrderedSpill ==
  ASSUME AgedOrder, Young, Spilled, Running, Types', NEW pages \in SUBSET (2 .. MaxPages), Spill(pages)
  PROVE  AgedOrder'
<1> DEFINE new == <<SyncJournal>>
<1>1. /\ Types /\ Starts(Transaction) /\ txn' = [Transaction EXCEPT !.wrote = @ \cup pages]
      /\ conn' = "spilled" /\ UNCHANGED <<events, calls, overlap, stored, requests>>
  BY DEF Running, Spill, storage
<1>2. Grown(Queue, Queue', new) /\ Len(new) \in 0 .. 1 /\ \A i \in 1 .. Len(new) : Youngest(new[i], Queue, stored)
  BY <1>1, SpillQueue, JournalRequests DEF SyncsFile, PutsFile, Youngest
<1> HIDE DEF new
<1>3. SameAges(Append(tasks, SyncJournal), tasks')
  BY <1>1, SpillAged DEF Young
<1>4. SameQueueAges(Queue, Queue')
  <2>1. /\ Len(tasks') = Len(tasks) + 1 /\ Len(tasks) \in Nat
        /\ \A k \in 1 .. Len(tasks) : Age(tasks'[k].bytes) = Age(tasks[k].bytes)
    <3> DEFINE t == Append(tasks, SyncJournal)
               n == Len(tasks)
    <3>1. Len(t) = n + 1 /\ n \in Nat /\ \A k \in 1 .. n : t[k] = tasks[k]
      BY <1>1, QueueIs, JournalRequests, AppendIs
    <3> HIDE DEF t, n
    <3>2. /\ Len(tasks') = Len(t)
          /\ \A k \in 1 .. Len(t) : Age(tasks'[k].bytes) = Age(t[k].bytes)
      BY <1>3 DEF SameAges, t
    <3> QED
      BY <3>1, <3>2 DEF n
  <2>2. Len(tasks) <= Len(tasks')
    BY <2>1
  <2>3. ASSUME NEW i \in 1 .. Len(Queue) PROVE Age(Queue'[i].bytes) = Age(Queue[i].bytes)
    BY <1>1, <2>1, <2>2, QueueIndex
  <2> QED
    BY <2>3 DEF SameQueueAges
<1>5. SameImports(events, calls, calls')
  BY <1>1 DEF SameImports
<1>6. loaded # NoFile /\ Transaction \in TxnType
  BY <1>1, TransactionIs
<1>7. ~overlap' => Base(conn', txn', loaded') = Base(conn, txn, loaded)
  <2>1. txn'.before = txn.before
    <3>1. txn'.before = Transaction.before
      BY <1>1, <1>6 DEF TxnType
    <3> QED
      BY <3>1 DEF Transaction
  <2>2. CASE conn = "spilled"
    BY <1>1, <2>1, <2>2 DEF Base
  <2>3. CASE conn # "spilled"
    <3>1. ~overlap => txn.before = ToArray(loaded)
      BY <1>1, <2>3 DEF Starts, Spilled, Current
    <3> QED
      BY <1>1, <2>1, <2>3, <3>1 DEF Base
  <2> QED
    BY <2>2, <2>3
<1> QED
  BY <1>1, <1>2, <1>4, <1>5, <1>6, <1>7, OrderedQuiet

-----------------------------------------------------------------------------
\* IndexedDB does or refuses the next request.
LEMMA PopsOrdered ==
  ASSUME AgedOrder, CaughtUp, Running, Types', requests # <<>>, requests' = Tail(requests),
         UNCHANGED <<tasks, loaded, conn, txn, overlap, calls>>,
         NEW bytes, NEW ok \in BOOLEAN, Answer(Head(requests), bytes, ok),
         ok => bytes = IF Head(requests).op = "get" THEN stored ELSE Head(requests).bytes,
         stored' = IF PutsFile(Head(requests)) /\ ok THEN Head(requests).bytes ELSE stored
  PROVE  AgedOrder'
<1> DEFINE q == Queue
           q2 == Queue'
           r == Head(requests)
           es == events
           es2 == events'
           n == Len(events)
           cs == calls
           base == Base(conn, txn, loaded)
           e == [by |-> r.by, bytes |-> bytes, ok |-> ok, torn |-> r.op = "get" /\ torn]
<1> SUFFICES ASSUME ~overlap
             PROVE  Ordered(q2, es2, calls', stored', loaded', Base(conn', txn', loaded'))
  BY DEF AgedOrder
<1>0. /\ InOrder(q) /\ NotBefore(Age(stored), q)
      /\ loaded # NoFile /\ NoImport(es, cs) => Age(stored) <= Age(base) /\ SyncsUpTo(q, Age(base))
      /\ \A k \in 1 .. Len(es) : LastImport(es, cs, k) => Age(stored) <= Age(es[k].bytes)
  BY DEF AgedOrder, Ordered
<1>1. Popped(q, q2) /\ r = q[1] /\ r \in RequestType /\ 1 \in 1 .. Len(q)
  <2>1. Popped(q, q2) /\ r = q[1] /\ r \in RequestType
    BY PopQueue DEF Running, Popped
  <2> QED
    BY <2>1, PopSyncs
<1>2. Added(es, es2, e, r.by)
  <2>1. /\ r.by = NoCall => events' = events
        /\ r.by # NoCall =>
             /\ Len(events') = n + 1
             /\ events'[n + 1] =
                   [by |-> r.by, bytes |-> bytes, ok |-> ok, torn |-> r.op = "get" /\ torn]
        /\ n \in Nat /\ \A k \in 1 .. n : events'[k] = events[k]
    BY <1>1, AnswerIs DEF Running
  <2> HIDE DEF r
  <2> QED
    BY <2>1 DEF Added
<1>3. AskedFor(r, cs, committed)
  BY <1>1 DEF Running, Waiting
<1>4. r.by \in Calls \cup {NoCall} /\ r.bytes \in Content
  BY <1>1 DEF RequestType
<1>5. e.by = r.by /\ e.bytes = bytes /\ e.ok = ok
  OBVIOUS
<1>6. /\ ok => bytes = IF r.op = "get" THEN stored ELSE r.bytes
      /\ stored' = IF PutsFile(r) /\ ok THEN r.bytes ELSE stored
  OBVIOUS
<1>7. loaded' = loaded /\ calls' = cs /\ Base(conn', txn', loaded') = base
  OBVIOUS
<1> HIDE DEF q, q2, r, es, es2, n, cs, e, base
<1>8. PutsFile(r) /\ ok => SyncsFile(r) \/ (r.by # NoCall /\ Imported(e, cs))
  BY <1>3, <1>4, <1>5 DEF AskedFor, PutsFile, SyncsFile, Imported
<1>9. r.by # NoCall /\ Imported(e, cs) => PutsFile(r) /\ ok /\ bytes = r.bytes
  BY <1>3, <1>4, <1>5, <1>6 DEF AskedFor, Imported, PutsFile
<1>10. SyncsFile(r) => NoImport(es, cs)
  <2>1. SyncsFirst(q, es, cs)
    BY DEF CaughtUp, q, es, cs
  <2> QED
    BY <1>1, <2>1 DEF SyncsFirst, NoSync
<1>11. /\ InOrder(q2) /\ NotBefore(Age(stored), q2)
       /\ PutsFile(r) => NotBefore(Age(r.bytes), q2)
       /\ \A top : SyncsUpTo(q, top) => SyncsUpTo(q2, top) /\ (SyncsFile(r) => Age(r.bytes) <= top)
  BY <1>0, <1>1, OrderedPops
<1>12. NotBefore(Age(stored'), q2)
  BY <1>6, <1>11
<1>13. ASSUME ~(r.by # NoCall /\ Imported(e, cs))
       PROVE  /\ NoImport(es, cs) <=> NoImport(es2, cs)
              /\ \A k \in 1 .. Len(es2) : LastImport(es2, cs, k) =>
                    k \in 1 .. Len(es) /\ LastImport(es, cs, k) /\ es2[k] = es[k]
  <2>1. r.by # NoCall => ~Imported(e, cs)
    BY <1>13
  <2> QED
    BY <1>2, <2>1, AddedImports
<1>14. ASSUME loaded # NoFile, NoImport(es2, cs)
       PROVE  Age(stored') <= Age(base) /\ SyncsUpTo(q2, Age(base))
  <2>1. ~(r.by # NoCall /\ Imported(e, cs))
    BY <1>2, <1>14, AddedImport
  <2>2. NoImport(es, cs)
    BY <1>13, <1>14, <2>1
  <2> QED
    BY <1>0, <1>6, <1>8, <1>11, <1>14, <2>1, <2>2
<1>15. ASSUME NEW k \in 1 .. Len(es2), LastImport(es2, cs, k)
       PROVE  Age(stored') <= Age(es2[k].bytes)
  <2>1. CASE r.by # NoCall /\ Imported(e, cs)
    <3>1. es2[k] = e
      BY <1>2, <1>15, <2>1, AddedImport
    <3>2. stored' = r.bytes /\ es2[k].bytes = r.bytes
      BY <1>5, <1>6, <1>9, <2>1, <3>1
    <3>3. Age(r.bytes) \in Nat
      BY <1>4, AgeIs
    <3> QED
      BY <3>2, <3>3
  <2>2. CASE ~(r.by # NoCall /\ Imported(e, cs))
    <3>1. k \in 1 .. Len(es) /\ LastImport(es, cs, k) /\ es2[k] = es[k]
      BY <1>13, <1>15, <2>2
    <3>2. ~SyncsFile(r)
      BY <1>10, <3>1 DEF NoImport, LastImport
    <3>3. stored' = stored
      BY <1>6, <1>8, <2>2, <3>2
    <3> QED
      BY <1>0, <3>1, <3>3
  <2> QED
    BY <2>1, <2>2
<1>16. Ordered(q2, es2, cs, stored', loaded, base)
  BY <1>11, <1>12, <1>14, <1>15 DEF Ordered
<1> QED
  BY <1>7, <1>16

LEMMA OrderedServe ==
  ASSUME AgedOrder, CaughtUp, Running, Types', Serve
  PROVE  AgedOrder'
<1> DEFINE r == Head(requests)
           bytes == IF r.op = "get" THEN stored ELSE r.bytes
<1>0. r \in RequestType
  BY PopRequests, TypesAre DEF Serve, Running
<1>1. /\ requests # <<>> /\ requests' = Tail(requests)
      /\ UNCHANGED <<tasks, loaded, conn, txn, overlap, calls>>
      /\ Answer(r, bytes, TRUE)
  BY DEF Serve, history
<1>2. stored' = IF PutsFile(r) THEN r.bytes ELSE stored
  BY <1>0 DEF Serve, storage, RequestType, PutsFile
<1> QED
  BY <1>1, <1>2, PopsOrdered

LEMMA OrderedRefuse ==
  ASSUME AgedOrder, CaughtUp, Running, Types', Refuse
  PROVE  AgedOrder'
<1> DEFINE r == Head(requests)
<1>1. /\ requests # <<>> /\ requests' = Tail(requests)
      /\ UNCHANGED <<tasks, loaded, conn, txn, overlap, calls, stored>>
      /\ Answer(r, r.bytes, FALSE)
  BY DEF Refuse, storage, history
<1> QED
  BY <1>1, PopsOrdered

\* The queue is as it was, and so are the ages of what it brings.
LEMMA OrderedKept ==
  ASSUME NEW q, NEW q2, Grown(q, q2, <<>>), SameQueueAges(q, q2), NEW age, InOrder(q), NotBefore(age, q)
  PROVE  /\ InOrder(q2) /\ NotBefore(age, q2)
         /\ \A top : SyncsUpTo(q, top) => SyncsUpTo(q2, top)
<1> DEFINE n == Len(q)
<1>1. /\ n \in Nat /\ Len(q2) = n
      /\ \A i \in 1 .. n : Kept(q[i], q2[i]) /\ Age(q2[i].bytes) = Age(q[i].bytes)
  <2>1. Len(q2) = n + Len(<<>>) /\ n \in Nat
    BY LenProperties DEF Grown
  <2> QED
    BY <2>1, NoItems DEF Grown, SameQueueAges
<1>2. \A i \in 1 .. n : (PutsFile(q2[i]) <=> PutsFile(q[i])) /\ (SyncsFile(q2[i]) <=> SyncsFile(q[i]))
  BY <1>1, KeptPuts
<1>3. InOrder(q2)
  BY <1>1, <1>2 DEF InOrder
<1>4. NotBefore(age, q2)
  BY <1>1, <1>2 DEF NotBefore
<1>5. \A top : SyncsUpTo(q, top) => SyncsUpTo(q2, top)
  BY <1>1, <1>2 DEF SyncsUpTo
<1> QED
  BY <1>3, <1>4, <1>5

\* Without a js_sync that waits, nothing is a view.
LEMMA NothingLive ==
  ASSUME Types, Young, NoSync(Queue), NEW i \in 1 .. Len(Queue)
  PROVE  ~Queue[i].live
<1> DEFINE n == Len(requests)
           q == Queue
           k == i - n
<1>1. /\ Len(q) = n + Len(tasks) /\ n \in Nat /\ Len(tasks) \in Nat
      /\ \A j \in 1 .. n : q[j] = requests[j]
      /\ \A j \in 1 .. Len(tasks) : q[n + j] = tasks[j]
  BY QueueIs
<1>2. \A j \in 1 .. n : ~requests[j].live
  BY DEF Types, TypeOK
<1>3. \A j \in 1 .. Len(tasks) : tasks[j].live => SyncsFile(tasks[j])
  BY DEF Young, Fresh
<1>4. i \in 1 .. Len(q) /\ ~SyncsFile(q[i])
  BY DEF NoSync
<1> HIDE DEF q, n
<1>5. CASE i \in 1 .. n
  BY <1>1, <1>2, <1>5 DEF q
<1>6. CASE i \notin 1 .. n
  <2>1. k \in 1 .. Len(tasks) /\ n + k = i
    BY <1>1, <1>4, <1>6
  <2> HIDE DEF k
  <2>2. q[i] = tasks[k]
    BY <1>1, <2>1
  <2> QED
    BY <1>3, <1>4, <2>1, <2>2 DEF q
<1> QED
  BY <1>5, <1>6

-----------------------------------------------------------------------------
LEMMA OrderedResume ==
  ASSUME AgedOrder, Young, CaughtUp, Running, Types', Resume
  PROVE  AgedOrder'
<1> DEFINE q == Queue
           q2 == Queue'
           es == events
           es2 == events'
           cs == calls
           cs2 == calls'
           e == Head(events)
           base == Base(conn, txn, loaded)
           base2 == Base(conn', txn', loaded')
<1>0. /\ calls \in [Calls -> [op : {"none", "open", "read", "write"},
                              stage : {"none", "get", "loaded", "put", "over"}]]
      /\ Types /\ Waiting /\ MachineOK(loaded, tasks) /\ RestOK
  BY TypesAre DEF RestOK, Running
<1> SUFFICES ASSUME ~overlap
             PROVE  Ordered(q2, es2, cs2, stored', loaded', base2)
  BY DEF AgedOrder, Resume
<1>1. /\ InOrder(q) /\ NotBefore(Age(stored), q)
      /\ loaded # NoFile /\ NoImport(es, cs) => Age(stored) <= Age(base) /\ SyncsUpTo(q, Age(base))
      /\ \A k \in 1 .. Len(es) : LastImport(es, cs, k) => Age(stored) <= Age(es[k].bytes)
  BY DEF AgedOrder, Ordered
<1>2. /\ Grown(q, q2, <<>>) /\ e = es[1] /\ Popped(es, es2)
      /\ e \in EventType /\ Answers(e, cs, committed)
  BY <1>0, ResumeQueue DEF Popped
<1>3. UNCHANGED <<conn, txn, stored, requests>>
  BY DEF Resume, storage
<1>4. \/ e.ok /\ Loaded(e)
      \/ e.ok /\ Written(e)
      \/ ~e.ok /\ cs2 = [cs EXCEPT ![e.by] = Over] /\ UNCHANGED <<loaded, tasks>>
  BY DEF Resume
<1>5. e.by \in Calls /\ \A k \in 1 .. Len(es) : es[k].by \in Calls
  BY <1>0, <1>2, CallsOf DEF EventType
<1>6. \A k, l \in 1 .. Len(es) : es[k].by = es[l].by => k = l
  BY DEF Once, Running
<1>7. SyncsFirst(q, es, cs) /\ (loaded = NoFile => Unloaded(q, es, cs, stored))
  BY DEF CaughtUp
<1>8. tasks' = tasks => q2 = q
  BY <1>3 DEF Queue
<1>9. NoSync(q) => \A i \in 1 .. Len(q) : ~q[i].live
  BY <1>0, NothingLive
<1>10. Age(stored) \in Nat
  BY <1>0, TasksAges
<1>11. ~((conn # "closed" \/ Someone(cs, "open")) /\ Someone(cs, "write"))
  BY DEF CaughtUp, Alone
<1>12. conn # "closed" => loaded # NoFile
  BY <1>0 DEF Types, TypeOK
<1>13. base2 = Base(conn, txn, loaded') /\ conn \in {"closed", "idle", "open", "spilled"}
  BY <1>0, <1>3 DEF RestOK
<1> HIDE DEF q, q2, es, es2, e, cs, cs2, base, base2
<1>14. \A c \in Calls : c # e.by => cs2[c] = cs[c]
  <2>1. cs2 = [cs EXCEPT ![e.by].stage = "loaded"] \/ cs2 = [cs EXCEPT ![e.by] = Over]
    BY <1>4 DEF Loaded, Written, cs, cs2
  <2> QED
    BY <1>0, <2>1 DEF cs
<1>15. PoppedEvents(es, es2, cs, cs2)
  <2>1. ASSUME NEW k \in 1 .. Len(es2) PROVE Imported(es2[k], cs2) <=> Imported(es[k + 1], cs)
    <3>1. es2[k] = es[k + 1] /\ k + 1 \in 1 .. Len(es) /\ 1 \in 1 .. Len(es) /\ k + 1 # 1
      BY <1>2 DEF Popped
    <3>2. es[k + 1].by # e.by /\ es[k + 1].by \in Calls
      BY <1>2, <1>5, <1>6, <3>1
    <3>3. cs2[es[k + 1].by] = cs[es[k + 1].by]
      BY <1>14, <3>2
    <3> QED
      BY <3>1, <3>3 DEF Imported
  <2> QED
    BY <1>2, <2>1 DEF PoppedEvents
<1>16. /\ NoImport(es2, cs2) /\ ~Imported(e, cs) => NoImport(es, cs)
       /\ NoImport(es2, cs2) /\ Imported(e, cs) => LastImport(es, cs, 1)
       /\ \A k \in 1 .. Len(es2) : LastImport(es2, cs2, k) => LastImport(es, cs, k + 1)
       /\ \A k \in 1 .. Len(es2) : es2[k] = es[k + 1] /\ k + 1 \in 1 .. Len(es)
       /\ 1 \in 1 .. Len(es)
  BY <1>2, <1>15, PopImports
<1>17. \A k \in 1 .. Len(es2) : LastImport(es2, cs2, k) => Age(stored) <= Age(es2[k].bytes)
  BY <1>1, <1>16
\* an import that fills the buffer, and everything else
<1>18. CASE e.ok /\ Written(e) /\ loaded # NoFile
  <2> DEFINE m == Store([buffer |-> Truncate(loaded, 0), tasks |-> tasks], 0, e.bytes)
  <2>1. loaded' = m.buffer /\ Imported(e, cs) /\ cs[e.by].op = "write"
    BY <1>18 DEF Written, Imported, cs
  <2>2. e.bytes \in Content
    BY <1>0, <1>2, <1>18, <2>1 DEF Answers, RestOK
  <2>3. /\ Views(m) /\ m.buffer.size = Len(e.bytes)
        /\ \A i \in 1 .. Len(e.bytes) : m.buffer.data[i] = e.bytes[i]
    BY <1>0, <1>18, <2>2, OverwriteIs
  <2> HIDE DEF m
  <2>4. m.buffer \in File /\ m.buffer.size \in Nat
    BY <2>3, FileIs DEF Views
  <2>5. Shows(ToArray(m.buffer), e.bytes)
    BY <2>2, <2>3, <2>4, FileShowing
  <2>6. ToArray(loaded') = e.bytes
    BY <2>1, <2>2, <2>3, <2>4, <2>5, ShowsAll
  <2>7. NoSync(q)
    <3>1. ~NoImport(es, cs)
      BY <1>2, <1>16, <2>1 DEF NoImport
    <3> QED
      BY <1>7, <3>1 DEF SyncsFirst
  <2>8. conn = "closed" /\ base2 = e.bytes
    <3>1. Someone(cs, "write")
      BY <1>5, <2>1 DEF Someone
    <3> QED
      BY <1>11, <1>13, <2>6, <3>1 DEF Base
  <2>9. SameQueueAges(q, q2)
    <3>1. \A i \in 1 .. Len(q) : q2[i] = q[i]
      BY <1>2, <1>9, <2>7, KeptNotLive DEF Grown
    <3> QED
      BY <3>1 DEF SameQueueAges
  <2>10. /\ InOrder(q2) /\ NotBefore(Age(stored), q2)
         /\ \A top : SyncsUpTo(q, top) => SyncsUpTo(q2, top)
    BY <1>1, <1>2, <2>9, OrderedKept
  <2>11. NoImport(es2, cs2) => Age(stored) <= Age(base2) /\ SyncsUpTo(q2, Age(base2))
    <3>1. SyncsUpTo(q, Age(base2))
      BY <2>7 DEF NoSync, SyncsUpTo
    <3> QED
      BY <1>1, <1>2, <1>16, <2>1, <2>8, <2>10, <3>1
  <2> QED
    BY <1>3, <1>17, <2>10, <2>11 DEF Ordered
<1>19. CASE ~(e.ok /\ Written(e) /\ loaded # NoFile)
  <2>1. tasks' = tasks /\ (Imported(e, cs) => loaded' = NoFile)
    <3>1. CASE e.ok /\ Loaded(e)
      BY <3>1 DEF Loaded, Imported, cs
    <3>2. CASE e.ok /\ Written(e) /\ loaded = NoFile
      BY <3>2 DEF Written
    <3>3. CASE ~e.ok /\ UNCHANGED <<loaded, tasks>>
      BY <3>3 DEF Imported
    <3> QED
      BY <1>4, <1>19, <3>1, <3>2, <3>3
  <2>2. \/ loaded' = loaded
        \/ loaded = NoFile /\ e.bytes # NoFile /\ loaded' = NewBuffer(e.bytes) /\ e.ok
    BY <1>4, <1>19 DEF Loaded, Written
  <2>3. q2 = q
    BY <1>8, <2>1
  <2>4. ASSUME loaded' # NoFile, NoImport(es2, cs2)
        PROVE  Age(stored) <= Age(base2) /\ SyncsUpTo(q, Age(base2))
    <3>1. NoImport(es, cs)
      BY <1>16, <2>1, <2>4
    <3>2. CASE loaded' = loaded
      <4>1. base2 = base
        BY <1>13, <3>2 DEF base
      <4> QED
        BY <1>1, <2>4, <3>1, <3>2, <4>1
    <3>3. CASE loaded' # loaded
      <4>1. loaded = NoFile /\ e.bytes # NoFile /\ loaded' = NewBuffer(e.bytes) /\ e.ok
        BY <2>2, <3>3
      <4>2. NoSync(q) /\ e.bytes = stored
        <5>1. NoImportFrom(es, cs, 1)
          BY <3>1 DEF NoImport, NoImportFrom
        <5> QED
          BY <1>2, <1>7, <1>16, <4>1, <5>1 DEF Unloaded
      <4>3. e.bytes \in Content
        BY <1>2, <4>1 DEF EventType
      <4>4. base2 = stored
        BY <1>12, <1>13, <4>1, <4>2, <4>3, NewFileShows DEF Base
      <4> QED
        BY <1>10, <4>2, <4>4 DEF NoSync, SyncsUpTo
    <3> QED
      BY <3>2, <3>3
  <2> QED
    BY <1>1, <1>3, <1>17, <2>3, <2>4 DEF Ordered
<1> QED
  BY <1>18, <1>19

-----------------------------------------------------------------------------
\* The tasks are in order because the queue is.
LEMMA TasksInOrder ==
  ASSUME Types, InOrder(Queue)
  PROVE  SyncsInOrder(tasks)
<1> DEFINE q == Queue
           n == Len(requests)
           l == Len(tasks)
<1>1. /\ Len(q) = n + l /\ n \in Nat /\ l \in Nat
      /\ \A j \in 1 .. l : q[n + j] = tasks[j]
  BY QueueIs
<1> HIDE DEF q, n, l
<1>2. \A i, j \in 1 .. l : i < j => n + i < n + j /\ n + i \in 1 .. Len(q) /\ n + j \in 1 .. Len(q)
  BY <1>1
<1>3. ASSUME NEW i \in 1 .. l, NEW j \in 1 .. l, i < j, SyncsFile(tasks[i]), SyncsFile(tasks[j])
      PROVE  Age(tasks[i].bytes) <= Age(tasks[j].bytes)
  <2>1. /\ q[n + i] = tasks[i] /\ q[n + j] = tasks[j] /\ n + i < n + j
        /\ n + i \in 1 .. Len(q) /\ n + j \in 1 .. Len(q)
    BY <1>1, <1>2, <1>3
  <2>2. PutsFile(q[n + i]) /\ PutsFile(q[n + j])
    BY <1>3, <2>1, SyncsPut
  <2>3. Age(q[n + i].bytes) <= Age(q[n + j].bytes)
    BY <2>1, <2>2 DEF InOrder, q
  <2> QED
    BY <2>1, <2>3
<1> QED
  BY <1>3 DEF SyncsInOrder, l

\* What a transaction does to the tasks keeps the queue in order.
LEMMA TransactionInOrder ==
  ASSUME Types, Types', requests' = requests, NEW new, Grown(Queue, Queue', new), InOrder(Queue),
         \A i \in 1 .. Len(Queue) : PutsFile(Queue[i]) <=> SyncsFile(Queue[i]),
         NEW t, Len(tasks) <= Len(t), Len(t) \in Nat, Len(tasks) <= Len(tasks'), SyncsInOrder(t),
         \A k \in 1 .. Len(tasks) : tasks'[k] = t[k] /\ Age(tasks[k].bytes) <= Age(t[k].bytes)
  PROVE  /\ \A i \in 1 .. Len(Queue) : Age(Queue[i].bytes) <= Age(Queue'[i].bytes)
         /\ \A i, j \in 1 .. Len(Queue) : i < j /\ PutsFile(Queue'[i]) /\ PutsFile(Queue'[j])
                                             => Age(Queue'[i].bytes) <= Age(Queue'[j].bytes)
<1> DEFINE q == Queue
           q2 == Queue'
           n == Len(requests)
           l == Len(tasks)
<1>1. n \in Nat /\ l \in Nat /\ \A i \in 1 .. Len(q) : i \in Nat
  BY QueueIs
<1>2. \A i \in 1 .. Len(q) : Age(q[i].bytes) \in Nat
  BY TasksAges
<1>3. ASSUME NEW i \in 1 .. Len(q)
      PROVE  /\ i \in 1 .. n => q2[i] = q[i]
             /\ i \notin 1 .. n => \E k \in 1 .. l : i = n + k /\ q[i] = tasks[k] /\ q2[i] = t[k]
  <2>1. /\ i \in 1 .. n => q[i] = requests[i] /\ q2[i] = requests[i]
        /\ i \notin 1 .. n => \E k \in 1 .. l : i = n + k /\ q[i] = tasks[k] /\ q2[i] = tasks'[k]
    BY QueueIndex
  <2> QED
    BY <2>1
<1>4. \A i \in 1 .. Len(q) : /\ PutsFile(q2[i]) <=> PutsFile(q[i])
                             /\ SyncsFile(q2[i]) <=> SyncsFile(q[i])
  BY KeptPuts DEF Grown
<1>5. \A i \in 1 .. Len(q) : PutsFile(q[i]) <=> SyncsFile(q[i])
  OBVIOUS
<1>6. \A k \in 1 .. l : Age(tasks[k].bytes) <= Age(t[k].bytes)
  OBVIOUS
<1>7. \A k \in 1 .. l : k \in 1 .. Len(t)
  BY <1>1
<1>8. \A k \in 1 .. l : Age(tasks[k].bytes) \in Nat
  BY TasksAges
<1> HIDE DEF q, q2, n, l
<1>9. ASSUME NEW i \in 1 .. Len(q) PROVE Age(q[i].bytes) <= Age(q2[i].bytes)
  <2>1. CASE i \in 1 .. n
    BY <1>2, <1>3, <2>1
  <2>2. CASE i \notin 1 .. n
    BY <1>3, <1>6, <2>2
  <2> QED
    BY <2>1, <2>2
<1>10. ASSUME NEW i \in 1 .. Len(q), NEW j \in 1 .. Len(q), i < j, PutsFile(q2[i]), PutsFile(q2[j])
       PROVE  Age(q2[i].bytes) <= Age(q2[j].bytes)
  <2>1. CASE i \in 1 .. n
    <3>1. Age(q[i].bytes) <= Age(q[j].bytes)
      BY <1>4, <1>10 DEF InOrder, q
    <3>2. q2[i] = q[i] /\ Age(q[j].bytes) <= Age(q2[j].bytes)
      BY <1>3, <1>9, <2>1
    <3> DEFINE x == Age(q[i].bytes)
               y == Age(q[j].bytes)
    <3>3. x \in Nat /\ y \in Nat
      BY <1>2
    <3>4. Age(q2[j].bytes) \in Int
      <4>1. q2[j] \in RequestType
        <5>1. j \in 1 .. Len(q2)
          <6>1. Len(q2) = Len(q) + Len(new) /\ Len(new) \in Nat /\ Len(q) \in Nat
            BY LenProperties DEF Grown, q, q2
          <6> QED
            BY <6>1
        <5> QED
          BY <5>1, QueueIsNext, ElementOfSeq DEF q2
      <4> QED
        BY <4>1, PlainAge
    <3> QED
      BY <3>1, <3>2, <3>3, <3>4
  <2>2. CASE i \notin 1 .. n
    <3>1. PICK k \in 1 .. l : i = n + k /\ q2[i] = t[k]
      BY <1>3, <2>2
    <3>2. j \notin 1 .. n
      BY <1>1, <1>10, <3>1
    <3>3. PICK h \in 1 .. l : j = n + h /\ q2[j] = t[h]
      BY <1>3, <3>2
    <3>4. k < h
      BY <1>1, <1>10, <3>1, <3>3
    <3>5. SyncsFile(t[k]) /\ SyncsFile(t[h])
      BY <1>4, <1>5, <1>10, <3>1, <3>3
    <3> QED
      BY <1>7, <3>1, <3>3, <3>4, <3>5 DEF SyncsInOrder
  <2> QED
    BY <2>1, <2>2
<1> QED
  BY <1>9, <1>10 DEF q, q2

-----------------------------------------------------------------------------
\* What the next queue brings
LEMMA NextAges ==
  ASSUME Types', NEW i \in 1 .. Len(Queue')
  PROVE  Age(Queue'[i].bytes) \in Nat
<1>1. Queue'[i] \in RequestType
  BY QueueIsNext, ElementOfSeq
<1> QED
  BY <1>1, PlainAge

LEMMA OrderedCommit ==
  ASSUME Aged, CaughtUp, Running, Running', NEW n \in Pages, NEW pages \in SUBSET (2 .. n),
         Commit(n, pages)
  PROVE  AgedOrder'
<1> DEFINE q == Queue
           q2 == Queue'
           top == Limit'
<1>1. /\ Types /\ Types' /\ conn # "closed" /\ conn' = "idle" /\ Starts(Transaction)
      /\ UNCHANGED <<requests, events, calls, overlap, stored>>
  BY DEF Running, Commit, Starts, storage
<1>2. Spilled /\ Young /\ AgedOrder /\ Alone
  BY DEF Aged, CaughtUp
<1> SUFFICES ASSUME ~overlap
             PROVE  Ordered(q2, events', calls', stored', loaded', Base(conn', txn', loaded'))
  BY <1>1 DEF AgedOrder
<1>3. PICK m, end, new, d :
         /\ Commits(n, pages, m, end) /\ Ends(q, q2, new, d)
         /\ m.buffer.size >= n => d = SyncDatabase(m.buffer)
  BY <1>1, CommitQueue
<1>4. Views(m) /\ Views(end) /\ loaded' = end.buffer /\ tasks' = end.tasks
  BY <1>3 DEF Commits, Wrote
<1>5. m.buffer \in File /\ end.buffer \in File
  BY <1>4 DEF Views
<1>6. (conn = "spilled" => Between(loaded, txn)) /\ Current
  BY <1>2 DEF Spilled
<1>7. /\ m.buffer.size >= n /\ New(n, pages) \in Content
      /\ Shows(ToArray(m.buffer), New(n, pages))
      /\ Shows(ToArray(end.buffer), New(n, pages))
  BY <1>1, <1>3, <1>6, CommitShows
<1>8. /\ top \in Nat /\ Transaction.version + 1 = top
  BY <1>1, <1>2, StartsLimit
<1>9. Age(New(n, pages)) = top /\ Len(New(n, pages)) # 0
  <2>1. Len(New(n, pages)) = n /\ New(n, pages)[1] = Transaction.version
    BY <1>1, NewIs DEF Dirty
  <2>2. n # 0
    BY DEF Pages
  <2>3. New(n, pages) # <<>>
    BY <1>7, <2>1, <2>2, AgeIs
  <2>4. New(n, pages) # NoFile
    BY <1>7, ContentIs
  <2> QED
    BY <1>8, <2>1, <2>2, <2>3, <2>4 DEF Age
<1>10. Age(ToArray(m.buffer)) = top /\ Age(ToArray(loaded')) = top
  BY <1>4, <1>5, <1>7, <1>9, FileShows, ShowsAge
<1>11. d.bytes = ToArray(m.buffer)
  BY <1>3, <1>5, <1>7, SyncRequest
<1>12. Age(Base(conn', txn', loaded')) = top
  BY <1>1, <1>10 DEF Base
<1>13. /\ NoImport(events, calls)
       /\ \A i \in 1 .. Len(q) : PutsFile(q[i]) <=> SyncsFile(q[i])
  BY <1>1, <1>2, NoImports
<1>14. InOrder(q) /\ NotBefore(Age(stored), q)
  BY <1>2 DEF AgedOrder, Ordered
<1>15. /\ Fresh(loaded', tasks') /\ Capped(tasks', top)
       /\ Rises(Append(tasks, SyncJournal), m.tasks) /\ SyncsInOrder(m.tasks)
  <2>1. SyncsInOrder(tasks)
    BY <1>1, <1>14, TasksInOrder
  <2>2. Bounded /\ Fresh(loaded, tasks)
    BY <1>2 DEF Young
  <2> QED
    BY <1>1, <1>2, <1>3, <2>1, <2>2, CommitAged
<1>16. /\ Age(stored) <= top /\ Capped(requests, top)
  BY <1>1, <1>2, YoungRest
<1> DEFINE l == Len(tasks)
           t == m.tasks
<1>17. /\ l \in Nat /\ Len(t) = l + 1 /\ Len(tasks') = l + 3 /\ l <= Len(t) /\ l <= Len(tasks')
       /\ Len(t) \in Nat
       /\ \A k \in 1 .. l : tasks'[k] = t[k] /\ Age(tasks[k].bytes) <= Age(t[k].bytes)
  <2> DEFINE s == Append(tasks, SyncJournal)
             x == Append(t, SyncDatabase(m.buffer))
  <2>1. /\ Len(s) = l + 1 /\ l \in Nat /\ \A k \in 1 .. l : s[k] = tasks[k]
    BY <1>1, QueueIs, JournalRequests, AppendIs
  <2>2. tasks' = Append(x, DeleteJournal)
    BY <1>3, <1>4, <1>7 DEF Commits
  <2>3. t \in Seq(RequestType) /\ SyncDatabase(m.buffer) \in RequestType
    BY <1>4, <1>5, SyncRequest DEF Views
  <2>4. /\ x \in Seq(RequestType) /\ Len(x) = Len(t) + 1 /\ Len(t) \in Nat
        /\ \A k \in 1 .. Len(t) : x[k] = t[k]
    BY <2>3, AppendIs
  <2> HIDE DEF x, s, l, t
  <2>5. /\ Len(tasks') = Len(x) + 1 /\ \A k \in 1 .. Len(x) : tasks'[k] = x[k]
    BY <2>2, <2>4, JournalRequests, AppendIs
  <2>6. Len(t) = Len(s) /\ \A k \in 1 .. Len(s) : Age(s[k].bytes) <= Age(t[k].bytes)
    BY <1>15 DEF Rises, s, t
  <2>7. \A k \in 1 .. l : k \in 1 .. Len(s) /\ k \in 1 .. Len(t) /\ k \in 1 .. Len(x)
    BY <2>1, <2>4, <2>6
  <2>8. Len(t) = l + 1 /\ Len(tasks') = l + 3
    BY <2>1, <2>4, <2>5, <2>6
  <2>9. \A k \in 1 .. l : tasks'[k] = t[k] /\ Age(tasks[k].bytes) <= Age(t[k].bytes)
    BY <2>1, <2>4, <2>5, <2>6, <2>7
  <2>10. l <= Len(t) /\ l <= l + 3
    BY <2>1, <2>8
  <2> QED
    BY <2>1, <2>4, <2>8, <2>9, <2>10
<1>18. /\ \A i \in 1 .. Len(q) : Age(q[i].bytes) <= Age(q2[i].bytes)
       /\ \A i, j \in 1 .. Len(q) : i < j /\ PutsFile(q2[i]) /\ PutsFile(q2[j])
                                       => Age(q2[i].bytes) <= Age(q2[j].bytes)
  <2>1. Grown(q, q2, new)
    BY <1>3 DEF Ends
  <2>2. SyncsInOrder(t)
    BY <1>15
  <2> HIDE DEF t
  <2> QED
    BY <1>1, <1>13, <1>14, <1>17, <2>1, <2>2, TransactionInOrder
<1>19. ASSUME NEW i \in 1 .. Len(q) PROVE Age(q2[i].bytes) <= top
  <2>1. /\ i \in 1 .. Len(requests) => q2[i] = requests[i]
        /\ i \notin 1 .. Len(requests) => \E k \in 1 .. l : q2[i] = tasks'[k]
    BY <1>1, <1>17, QueueIndex
  <2>2. \A k \in 1 .. l : k \in 1 .. Len(tasks')
    <3> DEFINE l3 == Len(tasks')
    <3>1. l3 = l + 3
      BY <1>17
    <3> HIDE DEF l3, l
    <3> QED
      BY <1>17, <3>1
  <2> QED
    BY <1>15, <1>16, <2>1, <2>2 DEF Capped
<1> DEFINE base == Base(conn', txn', loaded')
<1>20. Age(base) = Age(d.bytes) /\ Age(d.bytes) = top
  BY <1>10, <1>11, <1>12
<1>21. /\ \A i \in 1 .. Len(q2) : Age(q2[i].bytes) \in Nat
       /\ \A i \in 1 .. Len(q) : Age(q[i].bytes) \in Nat
       /\ Age(stored) \in Nat
  BY <1>1, NextAges, TasksAges
<1> HIDE DEF q, q2, base, top
<1>22. Ordered(q2, events, calls, stored, loaded', base)
  BY <1>3, <1>13, <1>14, <1>16, <1>18, <1>19, <1>20, <1>21, OrderedEnds
<1> QED
  BY <1>1, <1>22 DEF base

LEMMA OrderedRollback ==
  ASSUME Aged, CaughtUp, Running, Running', Rollback
  PROVE  AgedOrder'
<1> DEFINE q == Queue
           q2 == Queue'
           base == txn.before
<1>1. /\ Types /\ Types' /\ conn = "spilled" /\ conn' = "idle"
      /\ UNCHANGED <<requests, events, calls, overlap, stored>>
  BY DEF Running, Rollback, storage, history
<1>2. Spilled /\ Young /\ AgedOrder /\ Alone
  BY DEF Aged, CaughtUp
<1> SUFFICES ASSUME ~overlap
             PROVE  Ordered(q2, events', calls', stored', loaded', Base(conn', txn', loaded'))
  BY <1>1 DEF AgedOrder
<1>3. PICK u, m, new : RollsBack(u, m) /\ Ends(q, q2, new, SyncDatabase(m.buffer))
  BY <1>1, RollbackQueue
<1> DEFINE d == SyncDatabase(m.buffer)
           t == m.tasks
           l == Len(tasks)
<1>4. Between(loaded, txn)
  BY <1>1, <1>2 DEF Spilled
<1>5. /\ base \in Content /\ loaded' = m.buffer /\ m.buffer \in File
      /\ Shows(ToArray(m.buffer), base) /\ m.buffer.size = Len(base)
  BY <1>1, <1>3, <1>4, RollbackShows
<1>6. ToArray(loaded') = base /\ d.bytes = base /\ d \in RequestType
  BY <1>5, ShowsAll, SyncRequest
<1>7. Base(conn', txn', loaded') = base /\ Base(conn, txn, loaded) = base
  BY <1>1, <1>6 DEF Base
<1>8. /\ NoImport(events, calls)
      /\ \A i \in 1 .. Len(q) : PutsFile(q[i]) <=> SyncsFile(q[i])
  BY <1>1, <1>2, NoImports
<1>9. /\ InOrder(q) /\ NotBefore(Age(stored), q)
      /\ Age(stored) <= Age(base) /\ SyncsUpTo(q, Age(base))
  <2>1. loaded # NoFile
    BY <1>1 DEF Types, TypeOK
  <2> QED
    BY <1>2, <1>7, <1>8, <2>1 DEF AgedOrder, Ordered
<1>10. SameAges(tasks, t)
  <2>1. Bounded /\ Fresh(loaded, tasks)
    BY <1>2 DEF Young
  <2> QED
    BY <1>1, <1>2, <1>3, <2>1, RollbackAged
<1>11. /\ l \in Nat /\ Len(t) = l /\ l <= Len(tasks')
       /\ \A k \in 1 .. l : tasks'[k] = t[k] /\ Age(tasks[k].bytes) = Age(t[k].bytes)
  <2> DEFINE x == Append(t, d)
  <2>1. l \in Nat /\ tasks' = Append(x, DeleteJournal)
    BY <1>1, <1>3, QueueIs DEF RollsBack
  <2>2. t \in Seq(RequestType)
    BY <1>3 DEF RollsBack, Wrote, Views
  <2>3. /\ x \in Seq(RequestType) /\ Len(x) = Len(t) + 1
        /\ \A k \in 1 .. Len(t) : x[k] = t[k]
    BY <1>6, <2>2, AppendIs
  <2>4. Len(t) = l /\ \A k \in 1 .. l : Age(t[k].bytes) = Age(tasks[k].bytes)
    BY <1>10 DEF SameAges
  <2> HIDE DEF x, l, t
  <2>5. /\ Len(tasks') = Len(x) + 1 /\ \A k \in 1 .. Len(x) : tasks'[k] = x[k]
    BY <2>1, <2>3, JournalRequests, AppendIs
  <2>6. (\A k \in 1 .. l : k \in 1 .. Len(x)) /\ l <= Len(x) + 1
    BY <2>1, <2>3, <2>4
  <2> QED
    BY <2>1, <2>3, <2>4, <2>5, <2>6
<1>12. Grown(q, q2, new)
  BY <1>3 DEF Ends
<1>13. \A k \in 1 .. l : Age(tasks[k].bytes) \in Nat
  BY <1>1, TasksAges
<1>14. \A i \in 1 .. Len(q) : Age(q[i].bytes) \in Nat
  BY <1>1, TasksAges
<1>15. SyncsInOrder(t)
  <2>1. SyncsInOrder(tasks)
    BY <1>1, <1>9, TasksInOrder
  <2>2. \A k \in 1 .. l : SyncsFile(t[k]) <=> SyncsFile(tasks[k])
    <3>1. KeptAll(tasks, u.tasks) /\ KeptAll(u.tasks, t)
      BY <1>3 DEF RollsBack, Wrote
    <3> HIDE DEF t
    <3> QED
      BY <3>1 DEF KeptAll, Kept, SyncsFile
  <2> HIDE DEF t
  <2> QED
    BY <1>10, <2>1, <2>2, OrderKept
<1>16. /\ \A i \in 1 .. Len(q) : Age(q[i].bytes) <= Age(q2[i].bytes)
       /\ \A i, j \in 1 .. Len(q) : i < j /\ PutsFile(q2[i]) /\ PutsFile(q2[j])
                                       => Age(q2[i].bytes) <= Age(q2[j].bytes)
  <2>1. /\ Len(tasks) <= Len(t) /\ Len(t) \in Nat
        /\ \A k \in 1 .. l : tasks'[k] = t[k] /\ Age(tasks[k].bytes) <= Age(t[k].bytes)
    BY <1>11, <1>13
  <2> HIDE DEF t
  <2> QED
    BY <1>1, <1>8, <1>9, <1>11, <1>12, <1>15, <2>1, TransactionInOrder
<1>17. ASSUME NEW i \in 1 .. Len(q), PutsFile(q2[i]) PROVE Age(q2[i].bytes) <= Age(base)
  <2>1. PutsFile(q[i])
    BY <1>12, <1>17, KeptPuts DEF Grown
  <2>2. Age(q[i].bytes) <= Age(base)
    BY <1>8, <1>9, <2>1 DEF SyncsUpTo
  <2>3. Age(q2[i].bytes) = Age(q[i].bytes)
    <3>1. /\ i \in 1 .. Len(requests) => q2[i] = q[i]
          /\ i \notin 1 .. Len(requests) => \E k \in 1 .. l : q[i] = tasks[k] /\ q2[i] = tasks'[k]
      BY <1>1, <1>11, QueueIndex
    <3> QED
      BY <1>11, <3>1
  <2> QED
    BY <2>2, <2>3
<1>18. /\ \A i \in 1 .. Len(q2) : Age(q2[i].bytes) \in Nat
       /\ Age(stored) \in Nat
  BY <1>1, NextAges, TasksAges
<1>19. Ends(q, q2, new, d)
  BY <1>3
<1> HIDE DEF q, q2, base, d
<1>20. Age(base) = Age(d.bytes)
  BY <1>6
<1>21. Ordered(q2, events, calls, stored, loaded', base)
  BY <1>8, <1>9, <1>14, <1>16, <1>17, <1>18, <1>19, <1>20, OrderedEnds
<1> QED
  BY <1>1, <1>7, <1>21

-----------------------------------------------------------------------------
\* Nothing is left in memory.
LEMMA OrderedReload ==
  ASSUME Queue' = <<>>, events' = <<>>, loaded' = NoFile
  PROVE  AgedOrder'
<1> DEFINE base == Base(conn', txn', loaded')
<1>1. InOrder(<<>>) /\ NotBefore(Age(stored'), <<>>)
  BY NoItems DEF InOrder, NotBefore
<1> HIDE DEF base
<1>2. Ordered(<<>>, <<>>, calls', stored', NoFile, base)
  BY <1>1, NoItems DEF Ordered
<1> QED
  BY <1>2 DEF AgedOrder, base

LEMMA AgedStep ==
    Aged /\ CaughtUp /\ Running /\ Running' /\ [Next]_vars => Aged'
<1> SUFFICES ASSUME Aged, CaughtUp, Running, Running', [Next]_vars PROVE Aged'
  OBVIOUS
<1>0. Types /\ Types' /\ Alone /\ Spilled /\ Young /\ AgedOrder
  BY DEF Running, CaughtUp, Aged
<1>1. Spilled' /\ Young'
  BY <1>0, SpilledStep, YoungStep
<1> SUFFICES AgedOrder'
  BY <1>1 DEF Aged
<1>2. ASSUME NEW c \in Calls, ReadReturns(c) PROVE AgedOrder'
  <2>1. /\ calls[c] = [op |-> "read", stage |-> "loaded"] /\ calls' = [calls EXCEPT ![c] = Over]
        /\ UNCHANGED <<events, loaded, stored, txn, overlap, conn, tasks, requests>>
    BY <1>2 DEF ReadReturns, storage, history
  <2>2. calls \in [Calls -> [op : {"none", "open", "read", "write"},
                             stage : {"none", "get", "loaded", "put", "over"}]]
    BY <1>0, TypesAre DEF RestOK
  <2>3. Queue' = Queue
    BY <2>1 DEF Queue
  <2>4. Grown(Queue, Queue', <<>>) /\ Plain(Queue, Queue')
    BY <1>0, <2>1, <2>3, SameQueue DEF Plain
  <2>5. \A d \in Calls : Awaits(d) => calls'[d] = calls[d]
    BY <2>1, <2>2 DEF Awaits
  <2> QED
    BY <1>0, <2>1, <2>4, <2>5, OrderedSame
<1>3. CASE RunTask
  <2>1. UNCHANGED <<events, loaded, stored, txn, overlap, conn, calls>>
    BY <1>3 DEF RunTask, storage, history
  <2>2. Grown(Queue, Queue', <<>>) /\ Plain(Queue, Queue')
    BY <1>0, <1>3, RunTaskQueue, RunTaskPlain
  <2> QED
    BY <1>0, <2>1, <2>2, OrderedSame
<1>4. ASSUME UNCHANGED <<events, loaded, stored, overlap, calls, tasks, requests>>,
             UNCHANGED <<conn, txn>> \/ (conn # "spilled" /\ conn' # "spilled")
      PROVE  AgedOrder'
  <2>1. Queue' = Queue
    BY <1>4 DEF Queue
  <2>2. Grown(Queue, Queue', <<>>) /\ Plain(Queue, Queue')
    BY <1>0, <1>4, <2>1, SameQueue DEF Plain
  <2> QED
    BY <1>0, <1>4, <2>2, OrderedSame
<1>5. CASE CloseDatabase \/ Begin \/ EndTransaction
  BY <1>0, <1>4, <1>5, ReadsSame
<1>6. CASE UNCHANGED vars
  BY <1>4, <1>6 DEF vars, memory, storage, history
<1>7. CASE Reload
  <2>1. Queue' = <<>> /\ events' = <<>> /\ loaded' = NoFile
    BY <1>7 DEF Reload, Queue
  <2> QED
    BY <2>1, OrderedReload
<1> QED
  BY <1>0, <1>2, <1>3, <1>5, <1>6, <1>7, OrderedLoadFile, OrderedWriteFile, OrderedOpenDatabase,
     OrderedServe, OrderedRefuse, OrderedResume, OrderedSpill, OrderedCommit, OrderedRollback DEF Next

LEMMA InitAged == Init => Aged
<1> SUFFICES ASSUME Init PROVE Aged
  OBVIOUS
<1>1. /\ tasks = <<>> /\ requests = <<>> /\ events = <<>> /\ loaded = NoFile /\ conn = "closed"
      /\ stored = NoFile \/ stored = Earlier
      /\ version = 1 /\ Queue = <<>>
  BY DEF Init, Queue, Earlier
<1>2. Spilled
  BY <1>1 DEF Spilled, Current
<1>3. Young
  <2>1. Limit = 2
    BY <1>1 DEF Limit
  <2>2. Age(stored) <= 2
    <3>1. Age(NoFile) = 0
      BY AgeIs
    <3>2. Age(Earlier) = 2
      <4>1. Age(Earlier) # 0
        BY EarlierIs, AgeIs
      <4>2. 1 \in 1 .. MaxPages /\ Age(Earlier) = Earlier[1] + 1
        BY <4>1, EarlierIs, AgeIs
      <4>3. Earlier[1] = 1
        BY <4>2, EarlierIs
      <4> QED
        BY <4>2, <4>3
    <3> QED
      BY <1>1, <3>1, <3>2
  <2>3. Bounded
    BY <1>1, <2>1, <2>2, NoItems DEF Bounded, Capped
  <2>4. Fresh(loaded, tasks)
    BY <1>1, NoItems DEF Fresh
  <2> QED
    BY <2>3, <2>4 DEF Young
<1>4. AgedOrder
  <2> DEFINE base == Base(conn, txn, loaded)
  <2>1. InOrder(<<>>) /\ NotBefore(Age(stored), <<>>)
    BY NoItems DEF InOrder, NotBefore
  <2> HIDE DEF base
  <2>2. Ordered(<<>>, <<>>, calls, stored, NoFile, base)
    BY <2>1, NoItems DEF Ordered
  <2> QED
    BY <1>1, <2>2 DEF AgedOrder, base
<1> QED
  BY <1>2, <1>3, <1>4 DEF Aged

\* What one step does to the database that IndexedDB has
Younger(file, file2) ==
    file \notin {NoFile, <<>>} => file2 \notin {NoFile, <<>>} /\ file2[1] >= file[1]

LEMMA OlderAge ==
  ASSUME NEW file \in Content \cup {NoFile}, NEW file2 \in Content \cup {NoFile},
         Age(file) <= Age(file2)
  PROVE  Younger(file, file2)
<1> SUFFICES ASSUME file \notin {NoFile, <<>>} PROVE file2 \notin {NoFile, <<>>} /\ file2[1] >= file[1]
  BY DEF Younger
<1>1. Age(file) = file[1] + 1 /\ file[1] \in Nat
  BY AgeIs
<1>2. Age(file2) # 0 /\ Age(file2) \in Nat
  BY <1>1, AgeIs
<1>3. file2 \notin {NoFile, <<>>}
  BY <1>2, AgeIs
<1>4. Age(file2) = file2[1] + 1 /\ file2[1] \in Nat
  BY <1>2, <1>3, AgeIs
<1> QED
  BY <1>1, <1>3, <1>4

LEMMA YoungerStep ==
    Aged /\ Running /\ Running' /\ [Next]_vars => (~overlap => Younger(stored, stored'))
<1> SUFFICES ASSUME Aged, Running, Running', [Next]_vars, ~overlap PROVE Younger(stored, stored')
  OBVIOUS
<1>0. Types /\ stored \in Content \cup {NoFile} /\ stored' \in Content \cup {NoFile}
  BY DEF Running, Types, TypeOK
<1>1. CASE stored' = stored
  <2>1. Age(stored) <= Age(stored')
    BY <1>0, <1>1, TasksAges
  <2> QED
    BY <1>0, <2>1, OlderAge
<1>2. CASE Serve
  <2> DEFINE r == Head(requests)
  <2>1. stored' = stored \/ (PutsFile(r) /\ stored' = r.bytes)
    BY <1>2 DEF Serve, storage, PutsFile
  <2>2. CASE PutsFile(r) /\ stored' = r.bytes
    <3>1. r = Queue[1] /\ 1 \in 1 .. Len(Queue)
      <4>1. /\ requests # <<>> /\ requests' = Tail(requests) /\ tasks' = tasks /\ Types'
        BY <1>2 DEF Serve, Running
      <4>2. r = Queue[1] /\ Popped(Queue, Queue')
        BY <1>0, <4>1, PopQueue DEF Popped
      <4> QED
        BY <4>2, PopSyncs
    <3>2. NotBefore(Age(stored), Queue)
      BY DEF Aged, AgedOrder, Ordered
    <3>3. Age(stored) <= Age(stored')
      BY <2>2, <3>1, <3>2 DEF NotBefore
    <3> QED
      BY <1>0, <3>3, OlderAge
  <2> QED
    BY <1>1, <2>1, <2>2
<1>3. ASSUME ~Serve PROVE stored' = stored
  <2>1. UNCHANGED storage => stored' = stored
    BY DEF storage
  <2>2. ASSUME NEW c \in Calls, NEW op \in {"open", "read"}, LoadFile(c, op) PROVE UNCHANGED storage
    BY <2>2 DEF LoadFile
  <2>3. ASSUME NEW c \in Calls, NEW n \in Pages, WriteFile(c, n) PROVE UNCHANGED storage
    BY <2>3 DEF WriteFile
  <2>4. ASSUME NEW c \in Calls, OpenDatabase(c) \/ ReadReturns(c) PROVE UNCHANGED storage
    BY <2>4 DEF OpenDatabase, ReadReturns
  <2>5. ASSUME NEW pages \in SUBSET (2 .. MaxPages), Spill(pages) PROVE UNCHANGED storage
    BY <2>5 DEF Spill
  <2>6. ASSUME NEW n \in Pages, NEW pages \in SUBSET (2 .. n), Commit(n, pages) PROVE UNCHANGED storage
    BY <2>6 DEF Commit
  <2>7. CASE RunTask \/ Rollback \/ CloseDatabase \/ Begin \/ EndTransaction \/ Reload
    BY <2>1, <2>7 DEF RunTask, Rollback, CloseDatabase, Begin, EndTransaction, Reload
  <2>8. CASE Refuse
    BY <2>1, <2>8 DEF Refuse
  <2>9. CASE Resume
    BY <2>1, <2>9 DEF Resume
  <2>10. CASE UNCHANGED vars
    BY <2>1, <2>10 DEF vars
  <2> QED
    BY <1>3, <2>1, <2>2, <2>3, <2>4, <2>5, <2>6, <2>7, <2>8, <2>9, <2>10 DEF Next
<1> QED
  BY <1>1, <1>2, <1>3

(* What IndexedDB has is never replaced by an older or an empty database,  *)
(* unless a write() ran beside an open() or a connection                   *)
(* (browser/vfs.js:124-131, 185-188).                                      *)
THEOREM NeverGoesBack == Spec => NeverOlder
<1>1. Init => CaughtUp /\ Aged
  BY InitCaughtUp, InitAged
<1>2. CaughtUp /\ AllKnown /\ Running /\ Running' /\ [Next]_vars => CaughtUp'
  BY CaughtUpStep
<1>3. Aged /\ CaughtUp /\ Running /\ Running' /\ [Next]_vars => Aged'
  BY AgedStep
<1>4. Aged /\ Running /\ Running' /\ [Next]_vars =>
         [stored \notin {NoFile, <<>>} /\ ~overlap
            => stored' \notin {NoFile, <<>>} /\ stored'[1] >= stored[1]]_vars
  BY YoungerStep DEF Younger
<1> QED
  BY <1>1, <1>2, <1>3, <1>4, AlwaysRunning, AlwaysKnown, PTL DEF Spec, NeverOlder
=============================================================================
