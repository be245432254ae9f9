---------------------------- MODULE AtomicCommits ----------------------------
(***************************************************************************)
(* What SQLite's locking protocol promises the connections of one database *)
(* (build/lib/sqlite3.c:15192-15198), without locks, journals or a file:   *)
(* who reads sees one version until the end, one connection at a time      *)
(* writes, its changes appear at once and only while nobody reads, they    *)
(* start from the version before them, and a crash leaves that version.    *)
(*                                                                         *)
(* The promise ends when the protocol is broken.                           *)
(***************************************************************************)
EXTENDS Integers

CONSTANT Conns

VARIABLES
    content,    \* the version that the next reader finds
    seen,       \* the version that a connection sees, as a set; {} outside of
                \* a transaction
    writer,     \* the connection that writes, as a set
    broken      \* nothing is promised any more

vars == <<content, seen, writer, broken>>

Init ==
    /\ content \in {0, 1} /\ seen = [c \in Conns |-> {}]
    /\ writer = {} /\ broken = FALSE

Read(c) ==
    /\ seen' = [seen EXCEPT ![c] = {content}]
    /\ UNCHANGED <<content, writer>>

Reserve(c) ==
    /\ writer = {} /\ writer' = {c}
    /\ seen' = [seen EXCEPT ![c] = {content}]
    /\ UNCHANGED content

\* The connections end their transactions without a commit, or die.
End(conns) ==
    /\ seen' = [c \in Conns |-> IF c \in conns THEN {} ELSE seen[c]]
    /\ writer' = writer \ conns
    /\ UNCHANGED content

\* No update is lost: the writer has seen the version that it replaces.
Commit(c) ==
    /\ writer = {c} /\ seen[c] = {content}
    /\ \A d \in Conns \ {c} : seen[d] = {}
    /\ content' = content + 1
    /\ seen' = [seen EXCEPT ![c] = {}] /\ writer' = {}

Next ==
    /\ ~broken
    /\ \/ broken'
       \/ /\ ~broken'
          /\ \/ \E c \in Conns : Read(c) \/ Reserve(c) \/ Commit(c)
             \/ \E conns \in SUBSET Conns : End(conns)

Spec == Init /\ [][Next]_vars
=============================================================================
