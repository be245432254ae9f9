------------------------- MODULE NestedTransactions -------------------------
(***************************************************************************)
(* What DB.transaction promises (src/src/db.ts:407-427), without depth     *)
(* counters, savepoint names or a statement in progress: calls nest, a     *)
(* call that throws leaves the content it found, the outermost call that   *)
(* returns makes the content durable, a nested one leaves that to the call *)
(* around it.                                                              *)
(*                                                                         *)
(* The promise ends when a statement that transaction() itself executes    *)
(* fails under open calls, or when their transaction is ended by somebody  *)
(* else ("broken"), and holds again from the moment it is mended.          *)
(***************************************************************************)
EXTENDS Naturals, Sequences

CONSTANT Data   \* the contents the database may have

VARIABLES
  mem,      \* the content as this connection sees it
  disk,     \* the committed content
  snaps,    \* the content each call in progress found, outermost first
  outer,    \* the application has a BEGIN of its own around the calls
  failed,   \* the last step failed
  threw,    \* the last step was the end of a call that threw
  broken    \* nothing is promised at present

vars == <<mem, disk, snaps, outer, failed, threw, broken>>

Init ==
  /\ mem \in Data /\ disk = mem
  /\ snaps = <<>>
  /\ outer = FALSE /\ failed = FALSE /\ threw = FALSE /\ broken = FALSE

Butlast == SubSeq(snaps, 1, Len(snaps) - 1)

\* transaction() is called.
Enter ==
  /\ snaps' = Append(snaps, mem)
  /\ UNCHANGED <<mem, disk, outer>>

\* The closure of the innermost call returns.
Return ==
  /\ snaps # <<>>
  /\ snaps' = Butlast
  /\ disk' = IF Len(snaps) = 1 /\ ~outer THEN mem ELSE disk
  /\ UNCHANGED <<mem, outer>>

\* The closure of the innermost call throws.
Throw ==
  /\ snaps # <<>>
  /\ snaps' = Butlast
  /\ mem' = snaps[Len(snaps)]
  /\ UNCHANGED <<disk, outer>>

\* A statement of the application changes the content; inside a transaction
\* nothing of it is durable.
Change ==
  /\ mem' \in Data /\ disk' \in Data
  /\ snaps # <<>> \/ outer => disk' = disk
  /\ UNCHANGED <<snaps, outer>>

\* BEGIN, COMMIT, ROLLBACK around the calls.
Outer ==
  /\ snaps = <<>>
  /\ outer' = ~outer
  /\ IF outer THEN disk' = mem' /\ mem' \in {mem, disk}
              ELSE UNCHANGED <<mem, disk>>
  /\ UNCHANGED snaps

Next ==
  /\ ~broken /\ failed' \in BOOLEAN
  /\ \/ ~broken' /\ threw' /\ Throw
     \/ ~broken' /\ ~threw' /\ (Enter \/ Return \/ Change \/ Outer)
     \/ failed' /\ broken'

\* While broken, anything may happen.
Spec == Init /\ [][Next \/ broken]_vars
=============================================================================
