--------------------------- MODULE UserFunctions ---------------------------
(***************************************************************************)
(* User defined SQL functions: DB.createFunction and DB.deleteFunction     *)
(* (src/src/db.ts:599-670), the slots through which SQLite reaches a       *)
(* JavaScript function, SQLite's own table of functions, and the global    *)
(* current_ctx of src/build/src/wrapper.c through which a function returns *)
(* its result.                                                             *)
(*                                                                         *)
(* SQLite calls a function from sqlite3_step.  The function may run        *)
(* queries that call functions again, and may create and delete functions, *)
(* so the calls in progress form a stack.  The names are those of no       *)
(* built-in function of SQLite.  SQLite compares names without case, DB    *)
(* with it.                                                                *)
(***************************************************************************)
EXTENDS Naturals, Sequences, FiniteSets

CONSTANTS
  Funcs,      \* JavaScript functions
  Length,     \* func.length of each; 0 for a function of any number of arguments
  Names,      \* names of functions as JavaScript passes them
  Fold,       \* the name that SQLite takes each for: names differ in case
  Queries,    \* prepared queries
  ArgCounts,  \* how many arguments a query may pass
  None,       \* no function, slot, query text or table entry
  MaxDepth    \* bound: function calls in progress at the same time

ASSUME FunctionsAssumption ==
  /\ Length \in [Funcs -> Nat]
  /\ IsFiniteSet(Names) /\ DOMAIN Fold = Names
  /\ ArgCounts \subseteq Nat \ {0}
  /\ None \notin Funcs /\ None \notin Nat
  /\ MaxDepth \in Nat

VARIABLES
  names,    \* DB.#functionNames: the slot of each name
  slots,    \* DB.#functions
  table,    \* SQLite's functions, by folded name and argument count: the slot
            \* each passes to func_impl.  Count 0 stands for nArg = -1 (any).
  shadowed, \* history: the names whose entry went to another spelling of them
  text,     \* what each prepared query calls: a folded name, with so many
            \* arguments
  bound,    \* the table entry its program refers to
  expired,  \* its program must be compiled again before it starts anew
  active,   \* it has been stepped and has not ended (db->nVdbeActive)
  calls,    \* the function calls in progress: a query and the function it runs;
            \* history: whether that made calls of its own
  ctx,      \* current_ctx: 0 for NULL, i for the context of the i-th call
  lost      \* a function returned its result through another call's context

vars == <<names, slots, table, shadowed, text, bound, expired, active, calls, ctx, lost>>

Slots   == 0..Cardinality(Names) - 1
Arities == {0} \cup ArgCounts \cup {Length[f] : f \in Funcs}
SqlNames == {Fold[n] : n \in Names}
Keys    == SqlNames \X Arities
Texts   == SqlNames \X ArgCounts
Calls   == [query : Queries, func : Funcs, nested : BOOLEAN]

Init ==
  /\ names = [n \in Names |-> None]
  /\ slots = [s \in Slots |-> None]
  /\ table = [k \in Keys |-> None]
  /\ shadowed = {}
  /\ text = [q \in Queries |-> None]
  /\ bound = [q \in Queries |-> None]
  /\ expired = [q \in Queries |-> FALSE]
  /\ active = [q \in Queries |-> FALSE]
  /\ calls = <<>>
  /\ ctx = 0
  /\ lost = FALSE

-----------------------------------------------------------------------------
(* createFunction and deleteFunction                                       *)

\* Slip: the number of functions is taken for a free slot.
NextByCount(s) == s = Cardinality({n \in Names : names[n] # None})

\* The slot the loop over #functions stops at.
FirstFree(s) ==
  /\ s \in Slots /\ slots[s] = None
  /\ \A r \in Slots : r < s => slots[r] # None

\* SQLite's entry for a function: the argument count is its length, or -1
\* (here 0) if that is 0.
Key(n, f) == <<Fold[n], Length[f]>>

\* The functions that have the same entry under another spelling of the name.
Twins(f, n) ==
  {m \in Names \ {n} : names[m] # None /\ Key(m, slots[names[m]]) = Key(n, f)}

\* Slip: an old entry of the name keeps its slot.
CreateWithoutOverwrite(f, n) ==
  /\ names[n] = None
  /\ \E s \in Slots :
       /\ FirstFree(s)
       /\ table' = [table EXCEPT ![Key(n, f)] = IF @ = None THEN s ELSE @]
       /\ slots' = [slots EXCEPT ![s] = f]
       /\ names' = [names EXCEPT ![n] = s]
  /\ shadowed' = shadowed \cup Twins(f, n)
  /\ UNCHANGED <<text, bound, expired, active, calls, ctx, lost>>

(* #functionNames is asked for the very name.  sqlite3_create_function     *)
(* overwrites an entry of the same folded name and argument count, be it   *)
(* of a live function, only if no statement is active, and then expires    *)
(* all programs; a new entry is always possible.  Otherwise it fails, and  *)
(* so does createFunction, with no effect.                                 *)
CreateFunction(f, n) ==
  /\ names[n] = None
  /\ table[Key(n, f)] # None => \A q \in Queries : ~active[q]
  /\ \E s \in Slots :
       /\ FirstFree(s)
       /\ table' = [table EXCEPT ![Key(n, f)] = s]
       /\ slots' = [slots EXCEPT ![s] = f]
       /\ names' = [names EXCEPT ![n] = s]
  /\ shadowed' = shadowed \cup Twins(f, n)
  /\ expired' = IF table[Key(n, f)] # None THEN [q \in Queries |-> text[q] # None]
                                           ELSE expired
  /\ UNCHANGED <<text, bound, active, calls, ctx, lost>>

\* Slip: the name is gone before its slot is looked up.
DeleteNameFirst(n) ==
  /\ names[n] # None
  /\ names' = [names EXCEPT ![n] = None]
  /\ UNCHANGED <<slots, table, shadowed, text, bound, expired, active, calls, ctx, lost>>

(* delete_function asks SQLite to delete the entry for exactly 0 arguments,*)
(* which createFunction never makes: it succeeds and SQLite's table stays  *)
(* as it is.                                                               *)
DeleteFunction(n) ==
  /\ names[n] # None
  /\ names' = [names EXCEPT ![n] = None]
  /\ slots' = [slots EXCEPT ![names[n]] = None]
  /\ shadowed' = shadowed \ {n}
  /\ UNCHANGED <<table, text, bound, expired, active, calls, ctx, lost>>

-----------------------------------------------------------------------------
(* Queries                                                                 *)

\* sqlite3FindFunction: an entry for this number of arguments, before one for
\* any number.
Resolve(t) ==
  IF t \in Keys /\ table[t] # None THEN t
  ELSE IF table[<<t[1], 0>>] # None THEN <<t[1], 0>>
  ELSE None

Running(q) == \E i \in DOMAIN calls : calls[i].query = q

\* Slip: a program may call a function that is not there.
PrepareUnresolved(q, t) ==
  /\ text[q] = None
  /\ text' = [text EXCEPT ![q] = t]
  /\ bound' = [bound EXCEPT ![q] = Resolve(t)]
  /\ expired' = [expired EXCEPT ![q] = FALSE]
  /\ UNCHANGED <<names, slots, table, shadowed, active, calls, ctx, lost>>

(* prepareQuery; without a function to call SQLite reports an error.       *)
Prepare(q, t) ==
  /\ text[q] = None
  /\ Resolve(t) # None
  /\ text' = [text EXCEPT ![q] = t]
  /\ bound' = [bound EXCEPT ![q] = Resolve(t)]
  /\ expired' = [expired EXCEPT ![q] = FALSE]
  /\ UNCHANGED <<names, slots, table, shadowed, active, calls, ctx, lost>>

Finalize(q) ==
  /\ text[q] # None /\ ~Running(q)
  /\ text' = [text EXCEPT ![q] = None]
  /\ bound' = [bound EXCEPT ![q] = None]
  /\ active' = [active EXCEPT ![q] = FALSE]
  /\ UNCHANGED <<names, slots, table, shadowed, expired, calls, ctx, lost>>

(***************************************************************************)
(* sqlite3_step starts a program, compiled again if it has expired, or     *)
(* goes on with it, and reaches the function call.  One of these is what   *)
(* happens then.                                                           *)
(***************************************************************************)

\* The entry the program of q refers to.
Program(q) == IF expired[q] /\ ~active[q] THEN Resolve(text[q]) ELSE bound[q]

\* The slot that entry passes to func_impl.
Target(q) == table[Program(q)]

\* Slip: current_ctx is set only if it is NULL.
ReachKeepsContext(q) ==
  /\ text[q] # None /\ ~Running(q)
  /\ Program(q) # None
  /\ Len(calls) < MaxDepth
  /\ ctx' = IF ctx = 0 THEN Len(calls) + 1 ELSE ctx
  /\ bound' = [bound EXCEPT ![q] = Program(q)]
  /\ expired' = [expired EXCEPT ![q] = expired[q] /\ active[q]]
  /\ active' = [active EXCEPT ![q] = TRUE]
  /\ UNCHANGED <<names, slots, table, shadowed, text, lost>>

\* func_impl is called; the function around it, if any, is no longer alone.
Reach(q) ==
  /\ text[q] # None /\ ~Running(q)
  /\ Program(q) # None
  /\ Len(calls) < MaxDepth
  /\ ctx' = Len(calls) + 1
  /\ bound' = [bound EXCEPT ![q] = Program(q)]
  /\ expired' = [expired EXCEPT ![q] = expired[q] /\ active[q]]
  /\ active' = [active EXCEPT ![q] = TRUE]
  /\ UNCHANGED <<names, slots, table, shadowed, text, lost>>

Disturbed == [i \in DOMAIN calls |->
                [calls[i] EXCEPT !.nested = @ \/ i = Len(calls)]]

\* Slip: whatever is in the slot is called.
CallUnchecked(q) ==
  /\ Reach(q)
  /\ calls' = Append(Disturbed, [query |-> q, func |-> slots[Target(q)], nested |-> FALSE])

\* func_impl has set current_ctx and calls the function in the slot.
CallFunction(q) ==
  /\ Reach(q)
  /\ slots[Target(q)] # None
  /\ calls' = Append(Disturbed, [query |-> q, func |-> slots[Target(q)], nested |-> FALSE])

\* The slot is empty: js_call_user_func throws a TypeError through SQLite, and
\* func_impl does not get to clear current_ctx.  The caller of step sees the
\* exception; the program is left where it was.
CallNothing(q) ==
  /\ Reach(q)
  /\ slots[Target(q)] = None
  /\ calls' = Disturbed

(* The function returns, or throws, and the wrapper sets the result of     *)
(* current_ctx; then func_impl clears it.                                  *)
FunctionReturns ==
  /\ calls # <<>>
  /\ lost' = (ctx # Len(calls))
  /\ calls' = SubSeq(calls, 1, Len(calls) - 1)
  /\ ctx' = 0
  /\ UNCHANGED <<names, slots, table, shadowed, text, bound, expired, active>>

(* The program comes to its end, or is reset.                              *)
QueryEnds(q) ==
  /\ active[q] /\ ~Running(q)
  /\ active' = [active EXCEPT ![q] = FALSE]
  /\ UNCHANGED <<names, slots, table, shadowed, text, bound, expired, calls, ctx, lost>>

Next ==
  /\ ~lost
  /\ \/ \E n \in Names : DeleteFunction(n) \/ \E f \in Funcs : CreateFunction(f, n)
     \/ \E q \in Queries :
          \/ \E t \in Texts : Prepare(q, t)
          \/ Finalize(q) \/ QueryEnds(q)
          \/ CallFunction(q) \/ CallNothing(q)
     \/ FunctionReturns

Spec == Init /\ [][Next]_vars

-----------------------------------------------------------------------------
(* Properties *)

TypeOK ==
  /\ names \in [Names -> Slots \cup {None}]
  /\ slots \in [Slots -> Funcs \cup {None}]
  /\ table \in [Keys -> Slots \cup {None}]
  /\ shadowed \subseteq Names
  /\ text \in [Queries -> Texts \cup {None}]
  /\ bound \in [Queries -> Keys \cup {None}]
  /\ expired \in [Queries -> BOOLEAN]
  /\ active \in [Queries -> BOOLEAN]
  /\ calls \in Seq(Calls)
  /\ ctx \in 0..MaxDepth
  /\ lost \in BOOLEAN

(* #functionNames and #functions agree, whatever is created, deleted and   *)
(* created again, also by functions that are running: no two functions     *)
(* share a slot, and no slot keeps a function that has no name.            *)
SlotsMatchNames ==
  /\ \A n, m \in Names : names[n] = names[m] /\ names[n] # None => n = m
  /\ \A s \in Slots : slots[s] # None <=> \E n \in Names : names[n] = s

(* SQLite has the function under its name, with its argument count, as     *)
(* long as it is not deleted, although entries are overwritten and slots   *)
(* change hands, unless createFunction was called for the name in another  *)
(* case: that takes over the entry (db.ts:606 compares names with case).   *)
LiveIsRegistered ==
  \A n \in Names : names[n] # None /\ n \notin shadowed
                    => table[Key(n, slots[names[n]])] = names[n]

\* The call a step makes.
Calling == Len(calls') > Len(calls)
Called  == calls'[Len(calls')]

(* Only functions that have a name run: a function that was deleted never  *)
(* runs again, whatever old programs and old entries of SQLite's still     *)
(* lead to its slot.                                                       *)
OnlyNamedFunctionsRun ==
  [][Calling => \E n \in Names : names[n] # None /\ slots[names[n]] = Called.func]_vars

(* The innermost function returns its result through its own context,      *)
(* although others may have thrown through SQLite before and left theirs   *)
(* behind, as long as it has not itself run a query that calls functions.  *)
ResultsDelivered ==
  calls # <<>> /\ ~calls[Len(calls)].nested => ctx = Len(calls)

(* What wrapper.c:307-313 says: "then the JS function has access to these  *)
(* via the argument_* and result_* functions".                             *)
ContextIsMine == ~lost

(* db.ts:641-642: "After the function is deleted, it can no longer be used *)
(* in queries".                                                            *)
DeletedIsGone ==
  [][Calling => \E n \in Names : names[n] # None /\ Fold[n] = text[Called.query][1]]_vars

\* Every program refers to an entry SQLite has.
BoundIsRegistered ==
  \A q \in Queries : text[q] # None => bound[q] # None /\ table[bound[q]] # None

\* A call is followed by another only if it made calls of its own.
OuterDisturbed == \A i \in 1..Len(calls) - 1 : calls[i].nested

\* What the properties rest on: in particular every program, also one that was
\* compiled before functions were deleted, refers to an entry SQLite has.
Inductive ==
  /\ TypeOK
  /\ SlotsMatchNames
  /\ LiveIsRegistered
  /\ BoundIsRegistered
  /\ OuterDisturbed
  /\ ResultsDelivered
=============================================================================
