----------------------------- MODULE Statements -----------------------------
(***************************************************************************)
(* The life of prepared statements in one DB object: DB.#statements, the   *)
(* PreparedQuery objects of src/src/query.ts that point into SQLite, the   *)
(* VDBE behind each pointer, and close() / close(true) of src/src/db.ts.   *)
(*                                                                         *)
(* JavaScript is single threaded, but sqlite3_step and sqlite3_exec may    *)
(* call a user defined function, and that function may call any method of  *)
(* the same DB again.  A call that is inside SQLite is therefore a frame   *)
(* of "stack"; while it is not empty the API actions below are the calls   *)
(* such callbacks make.                                                    *)
(*                                                                         *)
(* A call that uses freed memory, or resets or finalizes the statement     *)
(* that is being stepped, has no defined effect: it is recorded in "fault" *)
(* and nothing is claimed of what follows.                                 *)
(***************************************************************************)
EXTENDS Naturals, Sequences

CONSTANTS
  Queries,    \* PreparedQuery objects; each is prepared at most once
  Ptrs,       \* the addresses sqlite3_prepare_v2 may return; reused once freed
  Null,       \* no address (a query not prepared yet), no query (exec's frame)
  MaxRows,    \* bound: the largest result set
  MaxDepth    \* bound: calls that are inside SQLite at the same time

ASSUME StatementsAssumption ==
  /\ Null \notin Ptrs /\ Null \notin Queries
  /\ MaxRows \in Nat
  /\ MaxDepth \in Nat

VARIABLES
  open,        \* DB.#open; the wrapper's "database" is non-NULL exactly then
  statements,  \* DB.#statements, shared with every PreparedQuery
  live,        \* the statements allocated by SQLite on this connection
  vm,          \* the VDBE at each address: its outcome and its current row
  stmt,        \* PreparedQuery.#stmt, Null before prepareQuery
  finalized,   \* PreparedQuery.#finalized
  status,      \* PreparedQuery.#status
  stack,       \* the calls that are inside sqlite3_step or sqlite3_exec
  fault,       \* "none", or the first operation without a defined effect
  (* history, read by properties only *)
  forced,      \* close(true) has finalized statements behind their queries
  read,        \* rows next() has read since the iterator was (re)started
  invalid      \* the iterator was invalidated, by expandSql or a failed bind

code  == <<open, statements, live, vm, stmt, finalized, status, stack>>
ghost == <<forced, read, invalid>>
vars  == <<code, fault, ghost>>

Outcomes == {"row", "done", "error"}
Machines == [at : Outcomes \cup {"ready"}, row : 0..MaxRows]
Ready    == [at |-> "ready", row |-> 0]
Calls    == {"iter", "next", "drain", "query", "exec"}
Frames   == [call : Calls, q : Queries \cup {Null}, p : Ptrs]

Init ==
  /\ open = TRUE
  /\ statements = {} /\ live = {}
  /\ vm = [p \in Ptrs |-> Ready]
  /\ stmt = [q \in Queries |-> Null]
  /\ finalized = [q \in Queries |-> FALSE]
  /\ status = [q \in Queries |-> "unknown"]
  /\ stack = <<>>
  /\ fault = "none"
  /\ forced = FALSE
  /\ read = [q \in Queries |-> 0]
  /\ invalid = [q \in Queries |-> FALSE]

-----------------------------------------------------------------------------
(* Helpers *)

\* The statements whose sqlite3_step has not returned.
Stepping == {stack[i].p : i \in DOMAIN stack}

\* The queries of db.query(): the caller never sees the object.
Hidden == {stack[i].q : i \in {j \in DOMAIN stack : stack[j].call = "query"}}

\* The query is prepared and the application holds it.
Held(q) == stmt[q] # Null /\ q \notin Hidden

\* Slip: a callback may touch the statement that is being stepped.
UsableWhileStepping(p) == p \in live

\* sqlite3_reset, sqlite3_step or sqlite3_finalize may be called on p.
Usable(p) == p \in live /\ p \notin Stepping

Break(f) == fault' = f /\ UNCHANGED <<code, ghost>>

\* What a call that is not allowed to touch p does instead.
Misuse(p) ==
  /\ ~Usable(p)
  /\ Break(IF p \in live THEN "running" ELSE "freed")

Enter(call, q, p) ==
  /\ Len(stack) < MaxDepth
  /\ stack' = Append(stack, [call |-> call, q |-> q, p |-> p])

\* sqlite3_prepare_v2 succeeds and hands out a free address.
Allocate(p) ==
  /\ open /\ p \notin live
  /\ live' = live \cup {p}
  /\ vm' = [vm EXCEPT ![p] = Ready]

(* sqlite3_finalize of the statements P.  What freed memory holds is not   *)
(* told apart.                                                             *)
Free(P) ==
  /\ live' = live \ P
  /\ vm' = [p \in Ptrs |-> IF p \in P THEN Ready ELSE vm[p]]

-----------------------------------------------------------------------------
\* Slip: the new statement is not added to #statements.
PrepareUntracked(q, p) ==
  /\ stmt[q] = Null
  /\ Allocate(p)
  /\ stmt' = [stmt EXCEPT ![q] = p]
  /\ UNCHANGED <<open, statements, finalized, status, stack, fault, ghost>>

(* DB.prepareQuery and the PreparedQuery constructor.  A prepare that      *)
(* throws (closed database, bad SQL) changes nothing.                      *)
PrepareQuery(q, p) ==
  /\ stmt[q] = Null
  /\ Allocate(p)
  /\ statements' = statements \cup {p}
  /\ stmt' = [stmt EXCEPT ![q] = p]
  /\ UNCHANGED <<open, finalized, status, stack, fault, ghost>>

(* DB.query and DB.queryEntries: prepare, all(), finalize, in one call.    *)
Query(q, p) ==
  /\ stmt[q] = Null
  /\ Allocate(p)
  /\ statements' = statements \cup {p}
  /\ stmt' = [stmt EXCEPT ![q] = p]
  /\ Enter("query", q, p)
  /\ UNCHANGED <<open, finalized, status, fault, ghost>>

(* DB.execute: sqlite3_exec prepares, steps and finalizes statements of    *)
(* its own, which DB.#statements never sees.  On a closed database it      *)
(* fails with SQLITE_MISUSE.                                               *)
Exec(p) ==
  /\ Allocate(p)
  /\ Enter("exec", Null, p)
  /\ UNCHANGED <<open, statements, stmt, finalized, status, fault, ghost>>

\* Slip: the statement is not reset.
StartWithoutReset(q) ==
  /\ Held(q) /\ ~finalized[q] /\ Usable(stmt[q])
  /\ UNCHANGED vm

(* #startQuery on a query that is not finalized: reset and clear_bindings. *)
StartQuery(q) ==
  /\ Held(q) /\ ~finalized[q] /\ Usable(stmt[q])
  /\ vm' = [vm EXCEPT ![stmt[q]] = Ready]

(* iter ("iter") and all, first, execute ("drain") up to the first step.   *)
Run(q, call) ==
  /\ StartQuery(q)
  /\ Enter(call, q, stmt[q])
  /\ UNCHANGED <<open, statements, live, stmt, finalized, status, fault, ghost>>

(* expandSql, and any call whose parameters do not bind: #startQuery has   *)
(* reset the statement, #status still describes the run before.            *)
StartOnly(q) ==
  /\ StartQuery(q)
  /\ invalid' = [invalid EXCEPT ![q] = TRUE]
  /\ UNCHANGED <<open, statements, live, stmt, finalized, status, stack,
                 fault, forced, read>>

(* next() with #status = Row: read the current row, then step.  The        *)
(* columns of a statement that is not at a row read as NULL ("row 0").     *)
Fetch(q) ==
  /\ Held(q) /\ ~finalized[q] /\ status[q] = "row" /\ Usable(stmt[q])
  /\ Enter("next", q, stmt[q])
  /\ read' = [read EXCEPT ![q] = vm[stmt[q]].row]
  /\ UNCHANGED <<open, statements, live, vm, stmt, finalized, status,
                 fault, forced, invalid>>

\* Slips: finalize forgets SQLite's statement, #statements, or #finalized.
FinalizeForgets(q) ==
  /\ Held(q) /\ ~finalized[q] /\ Usable(stmt[q])
  /\ statements' = statements \ {stmt[q]}
  /\ finalized' = [finalized EXCEPT ![q] = TRUE]
  /\ UNCHANGED <<open, live, vm, stmt, status, stack, fault, ghost>>

FinalizeStaysTracked(q) ==
  /\ Held(q) /\ ~finalized[q] /\ Usable(stmt[q])
  /\ Free({stmt[q]})
  /\ finalized' = [finalized EXCEPT ![q] = TRUE]
  /\ UNCHANGED <<open, statements, stmt, status, stack, fault, ghost>>

FinalizeUnmarked(q) ==
  /\ Held(q) /\ ~finalized[q] /\ Usable(stmt[q])
  /\ Free({stmt[q]})
  /\ statements' = statements \ {stmt[q]}
  /\ UNCHANGED <<open, stmt, finalized, status, stack, fault, ghost>>

(* PreparedQuery.finalize, whose status the method ignores.                *)
Finalize(q) ==
  /\ Held(q) /\ ~finalized[q] /\ Usable(stmt[q])
  /\ Free({stmt[q]})
  /\ statements' = statements \ {stmt[q]}
  /\ finalized' = [finalized EXCEPT ![q] = TRUE]
  /\ read' = [read EXCEPT ![q] = 0] /\ invalid' = [invalid EXCEPT ![q] = FALSE]
  /\ UNCHANGED <<open, stmt, status, stack, fault, forced>>

(* Any of these (or columns()) on a pointer that is freed, or any of these *)
(* from a callback of the very statement that is being stepped.            *)
UseUnusable(q) ==
  /\ Held(q) /\ ~finalized[q]
  /\ Misuse(stmt[q])

-----------------------------------------------------------------------------
(* sqlite3_step returns to the innermost call.                             *)

Top == stack[Len(stack)]
Pop == SubSeq(stack, 1, Len(stack) - 1)

Loops == {"drain", "query", "exec"}

\* Stepping a statement that is not at a row starts its program again.
NextRow(p) == IF vm[p].at = "row" THEN vm[p].row + 1 ELSE 1

\* Slip: one row too many.
SteppedPastTheEnd(p, outcome) ==
  /\ outcome = "row" => vm[p].row <= MaxRows
  /\ vm' = [vm EXCEPT ![p] = [at |-> outcome,
                              row |-> IF outcome = "row" THEN NextRow(p) ELSE 0]]

\* The result set goes on, ends, or the statement fails.
Stepped(p, outcome) ==
  /\ outcome = "row" => NextRow(p) <= MaxRows
  /\ vm' = [vm EXCEPT ![p] = [at |-> outcome,
                              row |-> IF outcome = "row" THEN NextRow(p) ELSE 0]]

\* Slip: the loop goes on at the end of the rows.
LoopUntilError ==
  /\ stack # <<>> /\ Top.call \in Loops
  /\ \E outcome \in {"row", "done"} : Stepped(Top.p, outcome)
  /\ UNCHANGED <<open, statements, live, stmt, finalized, status, stack, fault, ghost>>

(* all, first, execute and sqlite3_exec step again as long as rows come.   *)
LoopRow ==
  /\ stack # <<>> /\ Top.call \in Loops
  /\ Stepped(Top.p, "row")
  /\ status' = IF Top.call = "exec" THEN status
                                    ELSE [status EXCEPT ![Top.q] = "row"]
  /\ UNCHANGED <<open, statements, live, stmt, finalized, stack, fault, ghost>>

(* The call returns, or throws on an error, with the outcome in #status.   *)
CallReturns(outcome) ==
  /\ stack # <<>> /\ Top.call \in {"iter", "next", "drain"}
  /\ Top.call = "drain" => outcome # "row"
  /\ Stepped(Top.p, outcome)
  /\ status' = [status EXCEPT ![Top.q] = outcome]
  /\ IF Top.call = "next" THEN UNCHANGED <<read, invalid>>
     ELSE /\ read' = [read EXCEPT ![Top.q] = 0]
          /\ invalid' = [invalid EXCEPT ![Top.q] = FALSE]
  /\ stack' = Pop
  /\ UNCHANGED <<open, statements, live, stmt, finalized, fault, forced>>

(* The rows of db.query end, or it fails: it finalizes its statement       *)
(* whether all() returned or threw, and its PreparedQuery is garbage.      *)
QueryReturns ==
  /\ stack # <<>> /\ Top.call = "query"
  /\ Free({Top.p})
  /\ statements' = statements \ {Top.p}
  /\ stmt' = [stmt EXCEPT ![Top.q] = Null]
  /\ status' = [status EXCEPT ![Top.q] = "unknown"]
  /\ stack' = Pop
  /\ UNCHANGED <<open, finalized, fault, ghost>>

(* So does sqlite3_exec.                                                   *)
ExecReturns ==
  /\ stack # <<>> /\ Top.call = "exec"
  /\ Free({Top.p})
  /\ stack' = Pop
  /\ UNCHANGED <<open, statements, stmt, finalized, status, fault, ghost>>

StepReturns ==
  \/ LoopRow \/ QueryReturns \/ ExecReturns
  \/ \E o \in Outcomes : CallReturns(o)

-----------------------------------------------------------------------------
\* Slip: sqlite3_close_v2, which leaves open statements to a zombie.
CloseV2 ==
  /\ open
  /\ open' = FALSE
  /\ UNCHANGED <<statements, live, vm, stmt, finalized, status, stack,
                 fault, ghost>>

(* DB.close.  sqlite3_close succeeds if and only if every statement of the *)
(* connection is finalized; otherwise close() throws and changes nothing.  *)
Close ==
  /\ open /\ live = {}
  /\ open' = FALSE
  /\ UNCHANGED <<statements, live, vm, stmt, finalized, status, stack,
                 fault, ghost>>

\* sqlite3_finalize returns the error of the last run that was not reset,
\* although it does free the statement.
FailedRuns(F) == {p \in F : vm[p].at = "error"}

(* The loop of close(true) finalizes the statements F of #statements: all  *)
(* of them, or those up to and including the first whose finalize returns  *)
(* an error, which throws.  (The loop follows the order of insertion; here *)
(* the order is arbitrary.)  Neither #statements nor any #finalized is     *)
(* updated.  If the loop ends, sqlite3_close follows.                      *)
CloseForced(F) ==
  /\ open /\ F # {}
  /\ \A p \in F : Usable(p)
  /\ FailedRuns(F) = {} => F = statements
  /\ \A p, r \in FailedRuns(F) : p = r
  /\ Free(F)
  /\ open' = ~(FailedRuns(F) = {} /\ live' = {})
  /\ forced' = TRUE
  /\ UNCHANGED <<statements, stmt, finalized, status, stack, fault, read, invalid>>

(* The loop reaches a pointer that is freed already, or being stepped.     *)
CloseForcedBreaks(p) ==
  /\ open /\ p \in statements /\ ~Usable(p)
  /\ Break(IF p \in live THEN "running" ELSE "reclosed")

-----------------------------------------------------------------------------
QueryStep(q) ==
  \/ \E p \in Ptrs : PrepareQuery(q, p) \/ Query(q, p)
  \/ \E call \in {"iter", "drain"} : Run(q, call)
  \/ StartOnly(q)
  \/ Fetch(q)
  \/ Finalize(q)
  \/ UseUnusable(q)

DbStep ==
  \/ \E p \in Ptrs : Exec(p) \/ CloseForcedBreaks(p)
  \/ Close
  \/ \E F \in SUBSET statements : CloseForced(F)

Next ==
  /\ fault = "none"
  /\ \/ \E q \in Queries : QueryStep(q)
     \/ DbStep
     \/ StepReturns

(* SQLite returns from every step, although a callback may make calls in   *)
(* it: a callback does not go on for ever.  Nothing obliges the application*)
(* to call anything.                                                       *)
Fairness ==
  \A d \in 1..MaxDepth :
    SF_vars(fault = "none" /\ Len(stack) = d /\ StepReturns)

Spec == Init /\ [][Next]_vars /\ Fairness

-----------------------------------------------------------------------------
(* Properties *)

TypeOK ==
  /\ open \in BOOLEAN
  /\ statements \subseteq Ptrs /\ live \subseteq Ptrs
  /\ vm \in [Ptrs -> Machines]
  /\ stmt \in [Queries -> Ptrs \cup {Null}]
  /\ finalized \in [Queries -> BOOLEAN]
  /\ status \in [Queries -> Outcomes \cup {"unknown"}]
  /\ stack \in Seq(Frames)
  /\ fault \in {"none", "freed", "running", "reclosed"}
  /\ forced \in BOOLEAN
  /\ read \in [Queries -> 0..MaxRows]
  /\ invalid \in [Queries -> BOOLEAN]

\* The queries that hold a statement they have not finalized.
Unfinalized == {q \in Queries : stmt[q] # Null /\ ~finalized[q]}

\* The statements sqlite3_exec has prepared for itself.
Internal == {stack[i].p : i \in {j \in DOMAIN stack : stack[j].call = "exec"}}

(* No statement leaks: whatever is called in whatever order, close(true)   *)
(* included, a statement SQLite still holds is in #statements (db.ts:369,  *)
(* query.ts:657) or belongs to a db.execute in progress.  Otherwise no     *)
(* call could ever close the database.                                     *)
Tracked == live \subseteq statements \cup Internal

(* Until close(true) is called, every query that is not finalized holds a  *)
(* live statement of its own and #statements is the set of those           *)
(* statements, although addresses are reused, db.query and db.execute      *)
(* allocate statements in between and callbacks finalize queries in the    *)
(* middle of other calls.                                                  *)
Owned ==
  ~forced =>
    /\ statements = {stmt[q] : q \in Unfinalized}
    /\ statements \subseteq live
    /\ \A q, r \in Unfinalized : stmt[q] = stmt[r] => q = r

(* Hence no method ever hands SQLite a freed statement, in any order of    *)
(* prepares, runs, finalizes and closes, unless close(true) was called.    *)
NoUseAfterFree == fault \in {"freed", "reclosed"} => forced

(* db.close() from inside a callback never succeeds: a closed database has *)
(* no statement left and no call of it is inside SQLite.                   *)
ClosedIsIdle == ~open => live = {} /\ stack = <<>>

(* A valid iterator that is due to return a row stands exactly one row     *)
(* after the last row next() returned, however often the query was run     *)
(* before and whatever other queries did since: no row is skipped,         *)
(* repeated or made up (query.ts:424-438).                                 *)
CursorInSync ==
  ~forced =>
    \A q \in Unfinalized :
      (status[q] = "row" /\ ~invalid[q] /\ stmt[q] \notin Stepping)
        => vm[stmt[q]] = [at |-> "row", row |-> read[q] + 1]

(* close(true), called outside of a callback, closes the database in one   *)
(* call provided that no statement's last run failed (db.ts:684-699).  If  *)
(* one did, sqlite3_finalize returns that error, and close(true) throws in *)
(* the middle of its loop.                                                 *)
ForcedCloseCloses ==
  [][(~forced /\ forced' /\ stack = <<>> /\ FailedRuns(statements) = {})
       => ~open']_vars

(* What db.ts:681-682 says: close may safely be called multiple times.     *)
CloseTwiceIsSafe == fault # "reclosed"

(* all, first, execute, query and db.execute return, whatever callbacks    *)
(* call in between: their loops end when SQLite reports the end of the     *)
(* rows, although a further step would start the statement again.          *)
CallsReturn ==
  \A d \in 1..MaxDepth : (Len(stack) >= d) ~> (Len(stack) < d \/ fault # "none")

-----------------------------------------------------------------------------
(* What the invariants above rest on: the calls inside SQLite hold live    *)
(* statements, one each, and the queries they were made on still own them. *)
FramesOwn ==
  /\ \A i \in DOMAIN stack :
       /\ stack[i].p \in live
       /\ stack[i].call = "exec" <=> stack[i].q = Null
       /\ stack[i].call # "exec" => /\ stmt[stack[i].q] = stack[i].p
                                    /\ ~finalized[stack[i].q]
  /\ \A i, j \in DOMAIN stack : stack[i].p = stack[j].p => i = j

FreshQueries ==
  \A q \in Queries : stmt[q] = Null => ~finalized[q] /\ status[q] = "unknown"

InternalApart == ~forced => Internal \cap statements = {}

\* A call that will set #status to "row" leaves its iterator in step.
FramesInSync ==
  ~forced =>
    \A i \in DOMAIN stack :
      LET f == stack[i] IN
        /\ f.call = "iter" => vm[f.p].at # "row"
        /\ f.call = "next" /\ ~invalid[f.q]
             => vm[f.p] = [at |-> "row", row |-> read[f.q]]

Inductive ==
  /\ TypeOK
  /\ FreshQueries
  /\ FramesOwn
  /\ Tracked
  /\ Owned
  /\ InternalApart
  /\ ClosedIsIdle
  /\ NoUseAfterFree
  /\ FramesInSync
  /\ CursorInSync

=============================================================================
