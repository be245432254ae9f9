------------------------------ MODULE FileLocks ------------------------------
(***************************************************************************)
(* The locks of a database file under Deno: denoLock, denoUnlock and       *)
(* denoCheckReservedLock of build/src/vfs.c over js_lock and js_unlock of  *)
(* build/vfs.js, for connections in one or in several processes.  SQLite's *)
(* five lock levels are mapped to the two kinds of a lock on the whole     *)
(* file; a lower level is no lower lock.                                   *)
(*                                                                         *)
(* External: SQLite's pager (sqlite3.c), which decides when to lock, and   *)
(* the operating system, whose lock waits, and whose change from a shared  *)
(* to an exclusive lock gives up the first before it waits for the other.  *)
(***************************************************************************)
EXTENDS Integers, FiniteSets

CONSTANTS
    Conns,          \* open DB objects on the file, each with its own handle
    Together,       \* those that share one process; each other has its own
    IsWindows,      \* isWindows: no locks at all
    MaxVersion,     \* bound: commits
    MaxCrashes      \* bound: crashes

ASSUME LockAssumption ==
    Together \subseteq Conns /\ IsWindows \in BOOLEAN /\ MaxVersion \in Nat /\ MaxCrashes \in Nat

VARIABLES
    level,      \* the pager's eLock, or "closed"
    lock,       \* the lock the operating system has given: "none", "sh", "ex"
    wants,      \* the lock that lockSync waits for
    snap,       \* the version that the pager's cache shows, or Mixed
    file,       \* the version committed last; 0 is an empty file
    torn,       \* the file is being written
    journal,    \* the rollback journal: is it there, has it a header, and what
                \* does it restore
    kept,       \* history: the lock was not given up since the snapshot
    fault,      \* how SQLite's protocol was broken first: "rivals", two have
                \* reserved the file; "stale", one has whose snapshot was not
                \* locked; "stolen", its journal was deleted; or "none"
    crashes     \* history

vars == <<level, lock, wants, snap, file, torn, journal, kept, fault, crashes>>

NoJournal == [there |-> FALSE, hot |-> FALSE, before |-> 0]

Mixed == -1
SameProcess(c, d) == c = d \/ {c, d} \subseteq Together

\* lockSync stops the whole process.  What follows a fault is not modelled.
Runs(c) == fault = "none" /\ \A d \in Conns : SameProcess(c, d) => wants[d] = "none"

Init ==
    /\ level = [c \in Conns |-> "closed"]
    /\ lock = [c \in Conns |-> "none"] /\ wants = [c \in Conns |-> "none"]
    /\ snap = [c \in Conns |-> 0] /\ kept = [c \in Conns |-> FALSE]
    /\ file \in {0, 1} /\ torn = FALSE /\ journal = NoJournal
    /\ fault = "none" /\ crashes = 0

(***************************************************************************)
(* The VFS                                                                 *)
(***************************************************************************)
\* Slip: the old lock is kept until the new one is there.
KeptMeanwhile(held, kind) == held

\* lockSync gives up a lock of another kind first.
Meanwhile(held, kind) == IF held = kind THEN held ELSE "none"

JsLock(c, kind) ==
    /\ wants' = [wants EXCEPT ![c] = kind]
    /\ lock' = [lock EXCEPT ![c] = Meanwhile(@, kind)]

\* lockSync returns.
Granted(c) ==
    /\ fault = "none" /\ wants[c] # "none"
    /\ ~IsWindows => \A d \in Conns \ {c} :
                         lock[d] = "none" \/ (lock[d] = "sh" /\ wants[c] = "sh")

Held(c) == [lock EXCEPT ![c] = IF IsWindows THEN "none" ELSE wants[c]]

\* Slip: only PENDING excludes.
KindOfPending(to) == IF to = "pending" THEN "ex" ELSE "sh"

Kind(to) == IF to \in {"shared", "reserved"} THEN "sh" ELSE "ex"

\* denoLock(level): SHARED and RESERVED share, PENDING and EXCLUSIVE exclude.
DenoLock(c, to) == JsLock(c, Kind(to))

\* denoUnlock(level): NONE does nothing, each other level unlocks altogether.
Unlock(c, locks, to) == IF to = "none" THEN locks ELSE [locks EXCEPT ![c] = "none"]

\* denoCheckReservedLock: no other connection ever has reserved the file.
CheckReservedLock == FALSE

(***************************************************************************)
(* The pager                                                               *)
(***************************************************************************)
OpenDatabase(c) ==
    /\ level[c] = "closed" /\ Runs(c)
    /\ level' = [level EXCEPT ![c] = "none"]
    /\ UNCHANGED <<lock, wants, snap, file, torn, journal, kept, fault, crashes>>

\* sqlite3PagerSharedLock; the lock is asked for even if it is still held.
StartRead(c) ==
    /\ level[c] = "none" /\ Runs(c)
    /\ DenoLock(c, "shared")
    /\ UNCHANGED <<level, snap, file, torn, journal, kept, fault, crashes>>

\* hasHotJournal: a journal of nobody's is hot if it has a header, and is
\* deleted if the file is empty.
Empty == file = 0 /\ ~torn
Hot == journal.there /\ ~CheckReservedLock /\ ~Empty /\ journal.hot
Writing(c) == level[c] \in {"reserved", "exclusive"}
Remnant == journal.there /\ ~CheckReservedLock /\ Empty

Read(c) ==
    /\ level[c] = "none" /\ wants[c] = Kind("shared") /\ Granted(c)
    /\ level' = [level EXCEPT ![c] = "shared"]
    /\ IF Hot
       THEN /\ wants' = [wants EXCEPT ![c] = Kind("exclusive")]
            /\ lock' = [Held(c) EXCEPT ![c] = Meanwhile(@, Kind("exclusive"))]
            /\ kept' = [kept EXCEPT ![c] = FALSE]
            /\ UNCHANGED <<snap, journal>>
       ELSE /\ wants' = [wants EXCEPT ![c] = "none"]
            /\ snap' = [snap EXCEPT ![c] = file]
            /\ kept' = [kept EXCEPT ![c] = ~Remnant]
            /\ IF Remnant
               THEN /\ journal' = NoJournal
                    /\ lock' = Unlock(c, Held(c), "shared")
               ELSE lock' = Held(c) /\ UNCHANGED journal
    /\ fault' = IF Remnant /\ \E d \in Conns : Writing(d) THEN "stolen" ELSE fault
    /\ UNCHANGED <<file, torn, crashes>>

\* pager_playback of the journal, if one is there by now: one without a
\* header restores nothing, but it is deleted too.
Recover(c) ==
    /\ level[c] = "shared" /\ wants[c] = Kind("exclusive") /\ Granted(c)
    /\ wants' = [wants EXCEPT ![c] = "none"]
    /\ lock' = Unlock(c, Held(c), "shared")
    /\ IF journal.hot
       THEN file' = journal.before /\ torn' = FALSE
       ELSE UNCHANGED <<file, torn>>
    /\ journal' = NoJournal
    /\ fault' = IF \E d \in Conns : Writing(d) THEN "stolen" ELSE fault
    /\ snap' = [snap EXCEPT ![c] = file']
    /\ UNCHANGED <<level, kept, crashes>>

\* sqlite3PagerBegin
StartWrite(c) ==
    /\ level[c] = "shared" /\ Runs(c)
    /\ DenoLock(c, "reserved")
    /\ UNCHANGED <<level, snap, file, torn, journal, kept, fault, crashes>>

\* ... and the first change of a page opens the journal.
Reserve(c) ==
    /\ level[c] = "shared" /\ wants[c] = Kind("reserved") /\ Granted(c)
    /\ wants' = [wants EXCEPT ![c] = "none"] /\ lock' = Held(c)
    /\ level' = [level EXCEPT ![c] = "reserved"]
    /\ journal' = [there |-> TRUE, hot |-> FALSE, before |-> snap[c]]
    /\ kept' = [kept EXCEPT ![c] = ~torn /\ snap[c] = file]
    /\ fault' = IF \E d \in Conns \ {c} : Writing(d) THEN "rivals"
                ELSE IF torn \/ snap[c] # file THEN "stale" ELSE fault
    /\ UNCHANGED <<snap, file, torn, crashes>>

\* A commit, or a spill of the cache, asks for the exclusive lock ...
StartFlush(c) ==
    /\ level[c] = "reserved" /\ Runs(c)
    /\ DenoLock(c, "exclusive")
    /\ kept' = [kept EXCEPT ![c] = FALSE]
    /\ UNCHANGED <<level, snap, file, torn, journal, fault, crashes>>

\* Slip: the file is written before the journal has its header.
FlushBeforeJournal(c) ==
    /\ level[c] = "reserved" /\ wants[c] = Kind("exclusive") /\ Granted(c)
    /\ wants' = [wants EXCEPT ![c] = "none"] /\ lock' = Held(c)
    /\ level' = [level EXCEPT ![c] = "exclusive"]
    /\ torn' = TRUE
    /\ UNCHANGED <<journal, snap, file, kept, fault, crashes>>

\* ... syncs the journal and starts to write.  Who reads without a lock may
\* now have pages of both versions.
Flush(c) ==
    /\ level[c] = "reserved" /\ wants[c] = Kind("exclusive") /\ Granted(c)
    /\ wants' = [wants EXCEPT ![c] = "none"] /\ lock' = Held(c)
    /\ level' = [level EXCEPT ![c] = "exclusive"]
    /\ torn' = TRUE
    /\ journal' = [journal EXCEPT !.hot = TRUE]
    /\ snap' = [d \in Conns |-> IF d # c /\ level[d] = "shared" THEN Mixed ELSE snap[d]]
    /\ UNCHANGED <<file, kept, fault, crashes>>

\* pager_end_transaction: the journal is deleted, the level lowered to SHARED.
EndWrite(c) ==
    /\ journal' = NoJournal
    /\ lock' = Unlock(c, lock, "shared")
    /\ level' = [level EXCEPT ![c] = "shared"]
    /\ kept' = [kept EXCEPT ![c] = FALSE]

Commit(c) ==
    /\ level[c] = "exclusive" /\ Runs(c)
    /\ file < MaxVersion
    /\ EndWrite(c)
    /\ file' = file + 1 /\ torn' = FALSE
    /\ snap' = [snap EXCEPT ![c] = file + 1]
    /\ UNCHANGED <<wants, fault, crashes>>

Rollback(c) ==
    /\ Writing(c) /\ Runs(c)
    /\ EndWrite(c)
    /\ torn' = (torn /\ level[c] = "reserved")
    /\ UNCHANGED <<wants, snap, file, fault, crashes>>

\* pager_unlock, at the end of the connection's last statement
EndRead(c) ==
    /\ level[c] = "shared" /\ Runs(c)
    /\ level' = [level EXCEPT ![c] = "none"]
    /\ lock' = Unlock(c, lock, "none")
    /\ kept' = [kept EXCEPT ![c] = FALSE]
    /\ UNCHANGED <<wants, snap, file, torn, journal, fault, crashes>>

\* Slip: all handles of the process lose their locks, as with fcntl.
CloseDropsAll(c) ==
    /\ level[c] = "none" /\ Runs(c)
    /\ level' = [level EXCEPT ![c] = "closed"]
    /\ lock' = [d \in Conns |-> IF SameProcess(c, d) THEN "none" ELSE lock[d]]
    /\ UNCHANGED <<wants, snap, file, torn, journal, kept, fault, crashes>>

\* js_close: the system drops the locks of the handle.
CloseDatabase(c) ==
    /\ level[c] = "none" /\ Runs(c)
    /\ level' = [level EXCEPT ![c] = "closed"]
    /\ lock' = [lock EXCEPT ![c] = "none"]
    /\ UNCHANGED <<wants, snap, file, torn, journal, kept, fault, crashes>>

\* The process of c is killed.
Crash(c) ==
    /\ crashes < MaxCrashes /\ level[c] # "closed" /\ fault = "none"
    /\ crashes' = crashes + 1
    /\ level' = [d \in Conns |-> IF SameProcess(c, d) THEN "closed" ELSE level[d]]
    /\ lock' = [d \in Conns |-> IF SameProcess(c, d) THEN "none" ELSE lock[d]]
    /\ wants' = [d \in Conns |-> IF SameProcess(c, d) THEN "none" ELSE wants[d]]
    /\ kept' = [d \in Conns |-> IF SameProcess(c, d) THEN FALSE ELSE kept[d]]
    /\ UNCHANGED <<snap, file, torn, journal, fault>>

Step(c) ==
    \/ OpenDatabase(c) \/ StartRead(c) \/ Read(c) \/ Recover(c) \/ EndRead(c)
    \/ StartWrite(c) \/ Reserve(c) \/ StartFlush(c) \/ Flush(c) \/ Commit(c) \/ Rollback(c)
    \/ CloseDatabase(c)

Next == \E c \in Conns : Step(c) \/ Crash(c)
Spec == Init /\ [][Next]_vars

(***************************************************************************)
(* Properties                                                              *)
(***************************************************************************)
Levels == {"closed", "none", "shared", "reserved", "exclusive"}
Locks == {"none", "sh", "ex"}

\* Types.  A lock is waited for with no stronger one in hand.
TypeOK ==
    /\ level \in [Conns -> Levels]
    /\ lock \in [Conns -> Locks] /\ wants \in [Conns -> Locks]
    /\ snap \in [Conns -> Int] /\ kept \in [Conns -> BOOLEAN]
    /\ file \in Nat /\ torn \in BOOLEAN
    /\ journal \in [there : BOOLEAN, hot : BOOLEAN, before : Int]
    /\ fault \in {"none", "rivals", "stale", "stolen"} /\ crashes \in Nat
    /\ \A c \in Conns : wants[c] # "none" => lock[c] \in {"none", wants[c]}

\* Who writes the file is alone with it: it has the exclusive lock, and nobody
\* else has any (vfs.c:105-121).  Not so on Windows.
WritersExclude ==
    \A c, d \in Conns : c # d /\ level[c] = "exclusive" =>
                             lock[c] = "ex" /\ lock[d] = "none"

\* As long as a connection reads under the lock it took its snapshot with,
\* the file is whole and still that snapshot.  It is not after the connection's
\* own commit or recovery while further statements of it run: denoUnlock
\* gives up the whole lock when SQLite only lowers it (vfs.c:123-137).
SnapshotHolds ==
    \A c \in Conns : kept[c] /\ level[c] \in {"shared", "reserved"} =>
                          ~torn /\ snap[c] = file

\* A file that is half written, whoever died, has a journal with a header
\* that restores the version committed last, which the next reader takes for
\* hot; and a transaction has its journal until it ends, else js_delete would
\* throw through SQLite.  This holds until two transactions reserve the file
\* at once, or someone deletes the journal of another (vfs.c:139-142).
Recoverable ==
    fault = "none" => /\ torn => Hot /\ journal.before = file
                      /\ \A c \in Conns : Writing(c) => journal.there

Blocked(c) == wants[c] # "none" /\ ~Granted(c)
Stands(c) == \E d \in Conns : SameProcess(c, d) /\ Blocked(d)

\* No two processes wait for each other: if every process stands still, one waits
\* for a lock that another connection of its own holds (vfs.c:112 and
\* sqlite3.c:1077: xUnlock(NONE) keeps the lock).
NoCircularWait ==
    fault = "none" /\ (\A c \in Conns : Stands(c)) =>
        \E c, d \in Conns : Blocked(c) /\ c # d /\ SameProcess(c, d) /\ lock[d] # "none"

\* What the next reader finds: a hot journal restores what it holds.
Found == IF Hot THEN journal.before ELSE IF torn THEN Mixed ELSE file

\* A transaction that its lock, or its reservation, protects
Protected(c) == Writing(c) \/ (kept[c] /\ level[c] = "shared")

Atomic == INSTANCE AtomicCommits WITH
    content <- Found, seen <- [c \in Conns |-> IF Protected(c) THEN {snap[c]} ELSE {}],
    writer <- {c \in Conns : Writing(c)}, broken <- fault # "none"

\* Until a fault, the five levels on two kinds of lock (vfs.c:105-142) keep the
\* promise of AtomicCommits: a transaction sees one version, commits
\* appear at once and lose no other, and crashes undo what was not committed.
AtomicSpec == Atomic!Spec
==============================================================================
