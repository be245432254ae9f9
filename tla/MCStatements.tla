---------------------------- MODULE MCStatements ----------------------------
(* Instances of Statements for TLC. *)
EXTENDS Statements

\* No user defined function calls the database: a call that is inside SQLite
\* returns before the next one.
WithoutCallbacks == Init /\ [][Next /\ (stack # <<>> => StepReturns)]_vars
=============================================================================
