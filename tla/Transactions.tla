---------------------------- MODULE Transactions ----------------------------
(***************************************************************************)
(* DB.transaction of src/src/db.ts: the counter #transactionDepth, the     *)
(* SAVEPOINT / ROLLBACK TO / RELEASE statements named after it, and what   *)
(* SQLite does with them (OP_Savepoint, OP_AutoCommit).                    *)
(*                                                                         *)
(* A closure is arbitrary: between the entry of a call and its end it may  *)
(* write, iterate a writing statement (INSERT ... RETURNING) and leave it  *)
(* unfinished, call transaction() again, catch what that throws, and use   *)
(* SQL's own transaction control.  Closures run one inside the other, so   *)
(* the calls form a stack.                                                 *)
(***************************************************************************)
EXTENDS Naturals, Sequences

CONSTANTS
  Data,       \* the contents the database may have
  FaultSets,  \* what may go wrong: in each behaviour, one of these subsets of
              \* Trouble
  MaxDepth    \* bound on #transactionDepth, which leaks when a call fails

\* "writer": a writing statement is left unfinished; "commit": a commit fails;
\* "own": BEGIN, COMMIT, ROLLBACK, or a rollback forced by SQLite.
Trouble == {"writer", "commit", "own"}

ASSUME TransactionsAssumption ==
  /\ Data # {}
  /\ FaultSets \subseteq SUBSET Trouble
  /\ MaxDepth \in Nat

VARIABLES
  open,          \* DB.#open
  depth,         \* DB.#transactionDepth
  calls,         \* the transaction() calls in progress; the savepoint each
                 \* opened and the content it found are history
  savepoints,    \* db->pSavepoint, outermost first, and what they restore
  autocommit,    \* db->autoCommit
  txnSavepoint,  \* db->isTransactionSavepoint
  writer,        \* db->nVdbeWrite > 0 between calls
  mem,           \* the content as this connection sees it
  disk,          \* the committed content
  faults,        \* what may go wrong; never changes
  (* history *)
  failed,        \* the last step made a call fail
  threw          \* it ended a call whose closure had thrown

vars == <<open, depth, calls, savepoints, autocommit, txnSavepoint, writer,
          mem, disk, faults, failed, threw>>

Savepoint == [name : Nat \ {0}, snap : Data]

Init ==
  /\ open = TRUE /\ depth = 0
  /\ calls = <<>> /\ savepoints = <<>>
  /\ autocommit = TRUE /\ txnSavepoint = FALSE /\ writer = FALSE
  /\ mem \in Data /\ disk = mem /\ faults \in FaultSets
  /\ failed = FALSE /\ threw = FALSE

-----------------------------------------------------------------------------
(* SQLite *)

\* The innermost savepoint called n is the i-th.
Found(n, i) ==
  /\ i \in DOMAIN savepoints
  /\ savepoints[i].name = n
  /\ \A j \in DOMAIN savepoints : savepoints[j].name = n => j <= i

NotFound(n) == \A i \in DOMAIN savepoints : savepoints[i].name # n

\* RELEASE of the i-th savepoint commits.
Commits(i) == i = 1 /\ txnSavepoint

Below(i) == SubSeq(savepoints, 1, i - 1)

\* RELEASE of the i-th savepoint, with content m, succeeds.
Release(i, m) ==
  /\ ~writer
  /\ savepoints' = Below(i)
  /\ autocommit' = (autocommit \/ Commits(i))
  /\ txnSavepoint' = (txnSavepoint /\ ~Commits(i))
  /\ disk' = IF Commits(i) THEN m ELSE disk
  /\ mem' = m

\* RELEASE of the i-th savepoint fails, and the savepoints are left: a writer
\* is in progress, or the commit fails, and with an I/O error it also undoes
\* all changes.
ReleaseFails(i, m, s) ==
  /\ \/ writer /\ mem' = m /\ savepoints' = s
     \/ /\ ~writer /\ Commits(i) /\ "commit" \in faults
        /\ \/ mem' = m /\ savepoints' = s
           \/ /\ mem' = disk
              /\ savepoints' = [j \in DOMAIN s |-> [s[j] EXCEPT !.snap = disk]]
  /\ UNCHANGED <<autocommit, txnSavepoint, disk>>

\* The transaction ends, and its savepoints with it.
EndTransaction ==
  /\ savepoints' = <<>>
  /\ autocommit' = TRUE /\ txnSavepoint' = FALSE

-----------------------------------------------------------------------------
(* DB.transaction.  #transactionDepth is read anew for each statement.     *)

CallPop == SubSeq(calls, 1, Len(calls) - 1)

\* Slips: the counter is decremented whether RELEASE succeeded or not; twice,
\* in the catch and in the finally block; never.
FailDecrements   == calls' = CallPop /\ depth' = depth - 1 /\ failed' = TRUE
SucceedTwice     == calls' = CallPop /\ depth' = depth - 2 /\ failed' = FALSE
SucceedUncounted == calls' = CallPop /\ depth' = depth /\ failed' = FALSE

\* The call ends with an exception of SQLite's.
Fail == calls' = CallPop /\ depth' = depth /\ failed' = TRUE

\* The call ends as its closure did.
Succeed == calls' = CallPop /\ depth' = depth - 1 /\ failed' = FALSE

\* Slip: a savepoint is opened while a writer is in progress.
BeginDuringWriter ==
  /\ depth < MaxDepth /\ open
  /\ depth' = depth + 1
  /\ savepoints' = Append(savepoints, [name |-> depth + 1, snap |-> mem])
  /\ calls' = Append(calls, [name |-> depth + 1, snap |-> mem])
  /\ autocommit' = FALSE
  /\ txnSavepoint' = (txnSavepoint \/ autocommit)
  /\ failed' = FALSE
  /\ UNCHANGED <<open, writer, mem, disk>>

Begin ==
  /\ depth < MaxDepth
  /\ open /\ ~writer
  /\ depth' = depth + 1
  /\ savepoints' = Append(savepoints, [name |-> depth + 1, snap |-> mem])
  /\ calls' = Append(calls, [name |-> depth + 1, snap |-> mem])
  /\ autocommit' = FALSE
  /\ txnSavepoint' = (txnSavepoint \/ autocommit)
  /\ failed' = FALSE
  /\ UNCHANGED <<open, writer, mem, disk>>

(* SAVEPOINT fails outside of the try block, after the counter was         *)
(* incremented.                                                            *)
BeginFails ==
  /\ depth < MaxDepth
  /\ ~open \/ writer
  /\ depth' = depth + 1
  /\ failed' = TRUE
  /\ UNCHANGED <<open, calls, savepoints, autocommit, txnSavepoint, writer,
                 mem, disk>>

(* The closure returns: RELEASE in the finally block.                      *)
Return ==
  /\ calls # <<>>
  /\ \/ \E i \in DOMAIN savepoints :
          /\ Found(depth, i)
          /\ \/ Release(i, mem) /\ Succeed
             \/ ReleaseFails(i, mem, savepoints) /\ Fail
     \/ /\ NotFound(depth) /\ Fail
        /\ UNCHANGED <<savepoints, autocommit, txnSavepoint, mem, disk>>
  /\ UNCHANGED <<open, writer>>

\* Slip: no ROLLBACK TO.
ThrowWithoutRollback ==
  /\ calls # <<>>
  /\ \E i \in DOMAIN savepoints :
       Found(depth, i) /\ Release(i, mem) /\ Succeed
  /\ UNCHANGED <<open, writer>>

(* The closure throws: ROLLBACK TO in the catch block, then RELEASE.  If   *)
(* there is no such savepoint both fail.                                   *)
Throw ==
  /\ calls # <<>>
  /\ \/ \E i \in DOMAIN savepoints :
          LET m == savepoints[i].snap IN
          /\ Found(depth, i)
          /\ \/ Release(i, m) /\ Succeed
             \/ ReleaseFails(i, m, SubSeq(savepoints, 1, i)) /\ Fail
     \/ /\ NotFound(depth) /\ Fail
        /\ UNCHANGED <<savepoints, autocommit, txnSavepoint, mem, disk>>
  /\ UNCHANGED <<open, writer>>

-----------------------------------------------------------------------------
(* What the application does in a closure or outside of one.               *)

(* A statement runs to its end; it commits in autocommit mode, unless      *)
(* another writer is in progress.                                          *)
Write(v) ==
  /\ open
  /\ mem' = v
  /\ disk' = IF autocommit /\ ~writer THEN v ELSE disk
  /\ failed' = FALSE
  /\ UNCHANGED <<open, depth, calls, savepoints, autocommit, txnSavepoint, writer>>

(* iter() on INSERT ... RETURNING: the first step makes all changes.       *)
StartWriter(v) ==
  /\ "writer" \in faults
  /\ open /\ ~writer
  /\ writer' = TRUE
  /\ mem' = v
  /\ failed' = FALSE
  /\ UNCHANGED <<open, depth, calls, savepoints, autocommit, txnSavepoint, disk>>

\* Slip: the end of the last writer does not commit.
FinishWithoutCommit ==
  /\ writer
  /\ writer' = FALSE
  /\ failed' = FALSE
  /\ UNCHANGED <<open, depth, calls, savepoints, autocommit, txnSavepoint, mem, disk>>

(* Its last row, reset or finalize.  In autocommit mode it commits, or     *)
(* fails and rolls back.                                                   *)
FinishWriter ==
  /\ writer
  /\ writer' = FALSE
  /\ \/ disk' = (IF autocommit THEN mem ELSE disk) /\ mem' = mem
     \/ autocommit /\ mem' = disk /\ disk' = disk
  /\ failed' = FALSE
  /\ UNCHANGED <<open, depth, calls, savepoints, autocommit, txnSavepoint>>

OwnBegin ==
  /\ "own" \in faults
  /\ open /\ autocommit
  /\ autocommit' = FALSE
  /\ failed' = FALSE
  /\ UNCHANGED <<open, depth, calls, savepoints, txnSavepoint, writer, mem, disk>>

OwnCommit ==
  /\ "own" \in faults
  /\ open /\ ~autocommit /\ ~writer
  /\ EndTransaction
  /\ disk' = mem
  /\ failed' = (calls # <<>>)
  /\ UNCHANGED <<open, depth, calls, writer, mem>>

(* ROLLBACK, ON CONFLICT ROLLBACK, or a statement that failed with a full  *)
(* disk or an I/O error.                                                   *)
OwnRollback ==
  /\ "own" \in faults
  /\ open /\ ~autocommit
  /\ EndTransaction
  /\ mem' = disk
  /\ failed' = (calls # <<>>)
  /\ UNCHANGED <<open, depth, calls, writer, disk>>

(* db.close rolls back; an unfinished statement prevents it.               *)
Close ==
  /\ open /\ ~writer
  /\ open' = FALSE
  /\ EndTransaction
  /\ mem' = disk
  /\ failed' = (calls # <<>>)
  /\ UNCHANGED <<depth, calls, writer, disk>>

Next ==
  \/ Throw /\ threw' = TRUE /\ UNCHANGED faults
  \/ /\ threw' = FALSE /\ UNCHANGED faults
     /\ \/ Begin \/ BeginFails \/ Return
        \/ \E v \in Data : Write(v) \/ StartWriter(v)
        \/ FinishWriter
        \/ OwnBegin \/ OwnCommit \/ OwnRollback
        \/ Close

Spec == Init /\ [][Next]_vars

-----------------------------------------------------------------------------
(* Properties *)

TypeOK ==
  /\ open \in BOOLEAN
  /\ depth \in 0..MaxDepth
  /\ calls \in Seq(Savepoint)
  /\ savepoints \in Seq(Savepoint)
  /\ autocommit \in BOOLEAN /\ txnSavepoint \in BOOLEAN
  /\ writer \in BOOLEAN
  /\ mem \in Data /\ disk \in Data
  /\ failed \in BOOLEAN /\ threw \in BOOLEAN

(* However many calls failed before, half way through or not, no two       *)
(* savepoints share a name and the counter never falls below one that is   *)
(* still open: the name the next call takes is free (db.ts:429-430).       *)
NamesFresh ==
  /\ \A i, j \in DOMAIN savepoints : i < j => savepoints[i].name < savepoints[j].name
  /\ \A i \in DOMAIN savepoints : savepoints[i].name <= depth

(* The savepoint that opened the transaction holds the committed content,  *)
(* whatever happened since: a rollback of the outermost call never makes   *)
(* anything else durable, although it ends in a commit (db.ts:434-436).    *)
OutermostIsCommitted == txnSavepoint => savepoints[1].snap = disk

(* Outside of a transaction, and with no writer in progress, nothing is    *)
(* left uncommitted.                                                       *)
NothingPending == autocommit /\ ~writer => mem = disk

\* A savepoint is open only in a transaction, and the outermost one is the
\* transaction's own exactly when SQLite thinks so.
SavepointsInTransaction ==
  /\ autocommit => savepoints = <<>>
  /\ txnSavepoint => savepoints # <<>>

\* The open savepoints are those of the calls in progress, one each, and the
\* next statement of the innermost call will name its own.
Healthy ==
  /\ Len(savepoints) = Len(calls)
  /\ \A i \in DOMAIN calls : savepoints[i] = calls[i]
  /\ \A i \in DOMAIN calls : depth - calls[i].name = Len(calls) - i

(* The end of a call, also of one whose ROLLBACK TO or RELEASE fails, finds *)
(* or misses a savepoint by the shared counter: it never rolls back or     *)
(* releases one that is older than the call, be it of a call around it or  *)
(* left behind by one that failed (db.ts:434-438).                         *)
OlderSavepointsKept ==
  [][Len(calls') < Len(calls) =>
       \A j \in DOMAIN savepoints :
         savepoints[j].name < calls[Len(calls)].name
           => j \in DOMAIN savepoints' /\ savepoints'[j] = savepoints[j]]_vars

(* What db.ts:408-411 says: "Otherwise, the transaction is committed when  *)
(* the function returns."  A call that no other call is around, and that   *)
(* returns without an exception, leaves nothing uncommitted.               *)
ReturnedIsDurable ==
  [][Len(calls) = 1 /\ calls' = <<>> /\ ~failed' /\ ~threw' => disk' = mem']_vars

(* As long as no writing statement is left unfinished, no commit fails and *)
(* the application leaves transaction control to transaction(), no call    *)
(* ever fails on its own, however closures throw, return, nest and catch.  *)
NeverFailsAlone == faults = {} /\ open => Healthy /\ ~failed

\* What these rest on.
Inductive ==
  /\ TypeOK
  /\ NamesFresh
  /\ SavepointsInTransaction
  /\ OutermostIsCommitted
  /\ NothingPending

\* OlderSavepointsKept in addition on this: the counter is ahead of every call
\* by at least the calls that are nested in it.
DepthAhead == \A i \in DOMAIN calls : depth - calls[i].name >= Len(calls) - i

\* And NeverFailsAlone on this.
WriterNeedsFault == writer => "writer" \in faults

\* What a reader of the documentation sees.
Snaps == [i \in DOMAIN savepoints |-> savepoints[i].snap]
OwnTransaction == ~autocommit /\ ~txnSavepoint

Nested == INSTANCE NestedTransactions WITH
  snaps <- Snaps, outer <- OwnTransaction, broken <- ~Healthy

(* transaction() implements the nested transactions its documentation      *)
(* promises (db.ts:408-411: "If the function throws an error, the          *)
(* transaction is rolled back. Otherwise, the transaction is committed"),  *)
(* as long as no statement of its own fails under open calls.  If one did  *)
(* and the closure caught that, a call around it that throws names a       *)
(* savepoint that is not there, and rolls nothing back.                    *)
NestedSpec == Nested!Spec
=============================================================================
