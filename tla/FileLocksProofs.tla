--------------------------- MODULE FileLocksProofs ---------------------------
(***************************************************************************)
(* Proofs about FileLocks on systems that have locks: its invariant, for   *)
(* any number of connections, processes, commits and crashes; and that it  *)
(* implements AtomicCommits.                                               *)
(***************************************************************************)
EXTENDS FileLocks, TLAPS

USE LockAssumption

-----------------------------------------------------------------------------
(* The inductive invariant                                                 *)

\* Locks exclude as they should, the level "exclusive" and the exclusive lock
\* go together, and who waits is where it asked for the lock.
Exclusion ==
    /\ \A c, d \in Conns : c # d /\ lock[c] = "ex" => lock[d] = "none"
    /\ \A c \in Conns :
          /\ lock[c] = "ex" <=> level[c] = "exclusive"
          /\ wants[c] = "sh" => level[c] \in {"none", "shared"}
          /\ wants[c] = "ex" => level[c] \in {"shared", "reserved"}

\* Up to the first fault there is one writer at most, whose journal restores
\* the file as it was before it.
OneWriter ==
    fault = "none" =>
        /\ torn <=> journal.hot
        /\ torn => journal.there /\ journal.before = file
        /\ \A c, d \in Conns : Writing(c) /\ Writing(d) => c = d
        /\ \A c \in Conns : Writing(c) => journal.there /\ snap[c] = file
        /\ \A c \in Conns : level[c] = "reserved" => ~torn /\ journal.before = file

\* A snapshot that was not given up since is the file, and has its lock.
KeptSnapshots ==
    \A c \in Conns : kept[c] =>
        /\ level[c] \in {"shared", "reserved"} /\ lock[c] = "sh"
        /\ ~torn /\ snap[c] = file

Inductive == TypeOK /\ Exclusion /\ OneWriter /\ KeptSnapshots

LEMMA Kinds ==
  /\ Kind("shared") = "sh" /\ Kind("reserved") = "sh" /\ Kind("exclusive") = "ex"
  /\ ~CheckReservedLock
  BY DEF Kind, CheckReservedLock

LEMMA NoJournalType == NoJournal \in [there : BOOLEAN, hot : BOOLEAN, before : Int] /\ ~NoJournal.hot
  BY DEF NoJournal

LEMMA InitInductive == Init => Inductive
<1> SUFFICES ASSUME Init PROVE Inductive
  OBVIOUS
<1>1. TypeOK
  <2>1. torn \in BOOLEAN /\ journal \in [there : BOOLEAN, hot : BOOLEAN, before : Int]
    BY NoJournalType DEF Init
  <2>2. kept \in [Conns -> BOOLEAN]
    BY DEF Init
  <2> QED
    BY <2>1, <2>2 DEF Init, TypeOK, Levels, Locks
<1>2. Exclusion
  BY DEF Init, Exclusion
<1>3. OneWriter
  BY NoJournalType DEF Init, OneWriter, Writing
<1>4. KeptSnapshots
  BY DEF Init, KeptSnapshots
<1> QED
  BY <1>1, <1>2, <1>3, <1>4 DEF Inductive

(* What it means that lockSync returns.                                    *)
LEMMA GrantedAlone ==
  ASSUME ~IsWindows, NEW c \in Conns, Granted(c)
  PROVE  /\ fault = "none" /\ Held(c) = [lock EXCEPT ![c] = wants[c]]
         /\ wants[c] = "ex" => \A d \in Conns \ {c} : lock[d] = "none"
         /\ \A d \in Conns \ {c} : lock[d] # "ex"
  BY DEF Granted, Held

(* Who runs waits for no lock. *)
LEMMA Still ==
  ASSUME NEW c \in Conns, Runs(c)
  PROVE  fault = "none" /\ wants[c] = "none"
  BY DEF Runs, SameProcess

-----------------------------------------------------------------------------
(* One lemma per action                                                    *)

LEMMA StepTypes ==
  ASSUME ~IsWindows, Inductive, NEW c \in Conns, Step(c) \/ Crash(c)
  PROVE  TypeOK'
<1> USE Kinds DEF Inductive, TypeOK, Levels, Locks, Meanwhile, Unlock
<1>1. CASE OpenDatabase(c)
  BY <1>1 DEF OpenDatabase
<1>2. CASE StartRead(c)
  BY <1>2 DEF StartRead, DenoLock, JsLock
<1>3. CASE Read(c)
  <2>1. /\ Held(c) = [lock EXCEPT ![c] = "sh"] /\ wants[c] = "sh"
    BY <1>3, GrantedAlone DEF Read
  <2>2. CASE Hot
    BY <1>3, <2>1, <2>2 DEF Read
  <2>3. CASE ~Hot
    <3>1. /\ lock' \in [Conns -> Locks] /\ lock'[c] \in {"none", "sh"}
          /\ \A d \in Conns \ {c} : lock'[d] = lock[d]
          /\ wants' = [wants EXCEPT ![c] = "none"]
      BY <1>3, <2>1, <2>3 DEF Read
    <3>2. /\ level' \in [Conns -> Levels] /\ snap' \in [Conns -> Int]
          /\ fault' \in {"none", "rivals", "stale", "stolen"}
      BY <1>3, <2>3 DEF Read
    <3>3. journal' \in [there : BOOLEAN, hot : BOOLEAN, before : Int]
      BY <1>3, <2>3, NoJournalType DEF Read
    <3>4. kept' \in [Conns -> BOOLEAN]
      BY <1>3, <2>3 DEF Read, Remnant
    <3> QED
      BY <1>3, <3>1, <3>2, <3>3, <3>4 DEF Read
  <2> QED
    BY <2>2, <2>3
<1>4. CASE Recover(c)
  <2>1. /\ Held(c) = [lock EXCEPT ![c] = "ex"] /\ wants[c] = "ex" /\ fault = "none"
    BY <1>4, GrantedAlone DEF Recover
  <2>2. file' \in Nat /\ torn' \in BOOLEAN
    BY <1>4, <2>1 DEF Recover, OneWriter
  <2>3. journal' \in [there : BOOLEAN, hot : BOOLEAN, before : Int]
    BY <1>4, NoJournalType DEF Recover
  <2> QED
    BY <1>4, <2>1, <2>2, <2>3 DEF Recover
<1>5. CASE EndRead(c)
  BY <1>5 DEF EndRead
<1>6. CASE StartWrite(c)
  BY <1>6 DEF StartWrite, DenoLock, JsLock
<1>7. CASE Reserve(c)
  <2>1. Held(c) = [lock EXCEPT ![c] = "sh"] /\ wants[c] = "sh"
    BY <1>7, GrantedAlone DEF Reserve
  <2> QED
    BY <1>7, <2>1 DEF Reserve
<1>8. CASE StartFlush(c)
  BY <1>8 DEF StartFlush, DenoLock, JsLock
<1>9. CASE Flush(c)
  <2>1. Held(c) = [lock EXCEPT ![c] = "ex"] /\ wants[c] = "ex"
    BY <1>9, GrantedAlone DEF Flush
  <2>2. snap' \in [Conns -> Int]
    BY <1>9 DEF Flush, Mixed
  <2> QED
    BY <1>9, <2>1, <2>2 DEF Flush
<1>10. CASE Commit(c)
  <2>1. torn' \in BOOLEAN /\ journal' \in [there : BOOLEAN, hot : BOOLEAN, before : Int]
    BY <1>10, NoJournalType DEF Commit, EndWrite
  <2>2. kept' \in [Conns -> BOOLEAN]
    BY <1>10 DEF Commit, EndWrite
  <2>3. snap' \in [Conns -> Int] /\ file' \in Nat
    BY <1>10 DEF Commit
  <2> QED
    BY <1>10, <2>1, <2>2, <2>3 DEF Commit, EndWrite
<1>11. CASE Rollback(c)
  BY <1>11, NoJournalType DEF Rollback, EndWrite
<1>12. CASE CloseDatabase(c)
  BY <1>12 DEF CloseDatabase
<1>13. CASE Crash(c)
  <2>1. kept' \in [Conns -> BOOLEAN]
    BY <1>13 DEF Crash
  <2>2. level' \in [Conns -> Levels] /\ lock' \in [Conns -> Locks] /\ wants' \in [Conns -> Locks]
    BY <1>13 DEF Crash
  <2>3. \A d \in Conns : wants'[d] # "none" => lock'[d] \in {"none", wants'[d]}
    BY <1>13 DEF Crash
  <2>4. /\ torn' \in BOOLEAN /\ journal' \in [there : BOOLEAN, hot : BOOLEAN, before : Int]
        /\ crashes' \in Nat
    BY <1>13 DEF Crash
  <2> QED
    BY <1>13, <2>1, <2>2, <2>3, <2>4 DEF Crash
<1> QED
  BY <1>1, <1>2, <1>3, <1>4, <1>5, <1>6, <1>7, <1>8, <1>9, <1>10, <1>11, <1>12, <1>13 DEF Step

LEMMA StepExclusion ==
  ASSUME ~IsWindows, Inductive, NEW c \in Conns, Step(c) \/ Crash(c)
  PROVE  Exclusion'
<1> USE Kinds DEF Inductive, TypeOK, Levels, Locks, Meanwhile, Unlock, Exclusion
<1>1. CASE OpenDatabase(c)
  BY <1>1 DEF OpenDatabase
<1>2. CASE StartRead(c)
  BY <1>2 DEF StartRead, DenoLock, JsLock
<1>3. CASE Read(c)
  <2>1. /\ Held(c) = [lock EXCEPT ![c] = "sh"] /\ wants[c] = "sh"
        /\ \A d \in Conns \ {c} : lock[d] # "ex"
    BY <1>3, GrantedAlone DEF Read
  <2>2. CASE Hot
    BY <1>3, <2>1, <2>2 DEF Read
  <2>3. CASE ~Hot
    BY <1>3, <2>1, <2>3 DEF Read
  <2> QED
    BY <2>2, <2>3
<1>4. CASE Recover(c)
  <2>1. /\ Held(c) = [lock EXCEPT ![c] = "ex"] /\ wants[c] = "ex"
        /\ \A d \in Conns \ {c} : lock[d] = "none"
    BY <1>4, GrantedAlone DEF Recover
  <2> QED
    BY <1>4, <2>1 DEF Recover
<1>5. CASE EndRead(c)
  BY <1>5, Still DEF EndRead
<1>6. CASE StartWrite(c)
  BY <1>6 DEF StartWrite, DenoLock, JsLock
<1>7. CASE Reserve(c)
  <2>1. /\ Held(c) = [lock EXCEPT ![c] = "sh"] /\ wants[c] = "sh"
        /\ \A d \in Conns \ {c} : lock[d] # "ex"
    BY <1>7, GrantedAlone DEF Reserve
  <2> QED
    BY <1>7, <2>1 DEF Reserve
<1>8. CASE StartFlush(c)
  BY <1>8 DEF StartFlush, DenoLock, JsLock
<1>9. CASE Flush(c)
  <2>1. /\ Held(c) = [lock EXCEPT ![c] = "ex"] /\ wants[c] = "ex"
        /\ \A d \in Conns \ {c} : lock[d] = "none"
    BY <1>9, GrantedAlone DEF Flush
  <2> QED
    BY <1>9, <2>1 DEF Flush
<1>10. CASE Commit(c)
  BY <1>10, Still DEF Commit, EndWrite
<1>11. CASE Rollback(c)
  BY <1>11, Still DEF Rollback, EndWrite, Writing
<1>12. CASE CloseDatabase(c)
  BY <1>12, Still DEF CloseDatabase
<1>13. CASE Crash(c)
  BY <1>13 DEF Crash
<1> QED
  BY <1>1, <1>2, <1>3, <1>4, <1>5, <1>6, <1>7, <1>8, <1>9, <1>10, <1>11, <1>12, <1>13 DEF Step

LEMMA StepOneWriter ==
  ASSUME ~IsWindows, Inductive, NEW c \in Conns, Step(c) \/ Crash(c)
  PROVE  OneWriter'
<1> USE Kinds DEF Inductive, TypeOK, OneWriter, Writing
<1> SUFFICES ASSUME fault' = "none"
             PROVE  /\ torn' <=> journal'.hot
                    /\ torn' => journal'.there /\ journal'.before = file'
                    /\ \A d, e \in Conns : Writing(d)' /\ Writing(e)' => d = e
                    /\ \A d \in Conns : Writing(d)' => journal'.there /\ snap'[d] = file'
                    /\ \A d \in Conns : level'[d] = "reserved" =>
                          ~torn' /\ journal'.before = file'
  OBVIOUS
<1>1. CASE OpenDatabase(c)
  BY <1>1, Still DEF OpenDatabase
<1>2. CASE StartRead(c)
  BY <1>2, Still DEF StartRead
<1>3. CASE Read(c)
  <2>1. fault = "none"
    BY <1>3, GrantedAlone DEF Read
  <2>2. CASE Remnant
    <3>1. ~Hot /\ ~torn
      BY <2>2 DEF Hot, Remnant, Empty
    <3>2. \A d \in Conns : ~Writing(d)
      BY <1>3, <2>2 DEF Read
    <3> QED
      BY <1>3, <2>1, <2>2, <3>1, <3>2, NoJournalType DEF Read
  <2>3. CASE ~Remnant
    <3>1. journal' = journal
      BY <1>3, <2>3 DEF Read
    <3>2. \A d \in Conns \ {c} : snap'[d] = snap[d]
      BY <1>3 DEF Read
    <3> QED
      BY <1>3, <2>1, <3>1, <3>2 DEF Read
  <2> QED
    BY <2>2, <2>3
<1>4. CASE Recover(c)
  <2>1. fault = "none" /\ \A d \in Conns : ~Writing(d)
    BY <1>4, GrantedAlone DEF Recover
  <2>2. ~torn'
    BY <1>4, <2>1 DEF Recover
  <2> QED
    BY <1>4, <2>1, <2>2, NoJournalType DEF Recover
<1>5. CASE EndRead(c)
  BY <1>5, Still DEF EndRead
<1>6. CASE StartWrite(c)
  BY <1>6, Still DEF StartWrite
<1>7. CASE Reserve(c)
  <2>1. fault = "none" /\ ~torn /\ snap[c] = file /\ \A d \in Conns \ {c} : ~Writing(d)
    BY <1>7, GrantedAlone DEF Reserve
  <2>2. journal' = [there |-> TRUE, hot |-> FALSE, before |-> file]
    BY <1>7, <2>1 DEF Reserve
  <2> QED
    BY <1>7, <2>1, <2>2 DEF Reserve
<1>8. CASE StartFlush(c)
  BY <1>8, Still DEF StartFlush
<1>9. CASE Flush(c)
  <2>1. fault = "none" /\ Writing(c)
    BY <1>9, GrantedAlone DEF Flush
  <2>2. journal'.hot /\ journal'.there /\ journal'.before = file /\ torn' /\ file' = file
    BY <1>9, <2>1 DEF Flush
  <2>3. \A d \in Conns \ {c} : level'[d] \notin {"reserved", "exclusive"}
    BY <1>9, <2>1 DEF Flush
  <2>4. level'[c] = "exclusive" /\ snap'[c] = file
    BY <1>9, <2>1 DEF Flush
  <2> QED
    BY <2>2, <2>3, <2>4
<1>10. CASE Commit(c)
  <2>1. fault = "none" /\ Writing(c)
    BY <1>10, Still DEF Commit
  <2>2. \A d \in Conns : ~Writing(d)'
    BY <1>10, <2>1 DEF Commit, EndWrite
  <2> QED
    BY <1>10, <2>1, <2>2, NoJournalType DEF Commit, EndWrite
<1>11. CASE Rollback(c)
  <2>1. fault = "none" /\ Writing(c)
    BY <1>11, Still DEF Rollback
  <2>2. \A d \in Conns : ~Writing(d)'
    BY <1>11, <2>1 DEF Rollback, EndWrite
  <2>3. ~torn' /\ journal' = NoJournal
    BY <1>11, <2>1 DEF Rollback, EndWrite
  <2> QED
    BY <2>2, <2>3, NoJournalType
<1>12. CASE CloseDatabase(c)
  BY <1>12, Still DEF CloseDatabase
<1>13. CASE Crash(c)
  BY <1>13 DEF Crash
<1> QED
  BY <1>1, <1>2, <1>3, <1>4, <1>5, <1>6, <1>7, <1>8, <1>9, <1>10, <1>11, <1>12, <1>13 DEF Step

LEMMA StepKeptSnapshots ==
  ASSUME ~IsWindows, Inductive, NEW c \in Conns, Step(c) \/ Crash(c)
  PROVE  KeptSnapshots'
<1> USE Kinds DEF Inductive, TypeOK, Exclusion, KeptSnapshots, Meanwhile, Unlock
<1>1. CASE OpenDatabase(c)
  BY <1>1 DEF OpenDatabase
<1>2. CASE StartRead(c)
  BY <1>2 DEF StartRead, DenoLock, JsLock
<1>3. CASE Read(c)
  <2>1. /\ Held(c) = [lock EXCEPT ![c] = "sh"] /\ fault = "none"
    BY <1>3, GrantedAlone DEF Read
  <2>2. CASE Hot
    BY <1>3, <2>1, <2>2 DEF Read
  <2>3. CASE ~Hot /\ Remnant
    BY <1>3, <2>1, <2>3 DEF Read
  <2>4. CASE ~Hot /\ ~Remnant
    <3>1. ~torn
      BY <2>1, <2>4 DEF Hot, Empty, OneWriter, CheckReservedLock
    <3> QED
      BY <1>3, <2>1, <2>4, <3>1 DEF Read
  <2> QED
    BY <2>2, <2>3, <2>4
<1>4. CASE Recover(c)
  <2>1. /\ wants[c] = "ex" /\ lock[c] = "none"
        /\ \A d \in Conns \ {c} : lock[d] = "none"
    BY <1>4, GrantedAlone DEF Recover
  <2>2. \A d \in Conns : ~kept[d]
    BY <2>1
  <2> QED
    BY <1>4, <2>2 DEF Recover
<1>5. CASE EndRead(c)
  BY <1>5 DEF EndRead
<1>6. CASE StartWrite(c)
  BY <1>6 DEF StartWrite, DenoLock, JsLock
<1>7. CASE Reserve(c)
  <2>1. Held(c) = [lock EXCEPT ![c] = "sh"]
    BY <1>7, GrantedAlone DEF Reserve
  <2> QED
    BY <1>7, <2>1 DEF Reserve
<1>8. CASE StartFlush(c)
  BY <1>8 DEF StartFlush, DenoLock, JsLock
<1>9. CASE Flush(c)
  <2>1. /\ wants[c] = "ex" /\ lock[c] = "none"
        /\ \A d \in Conns \ {c} : lock[d] = "none"
    BY <1>9, GrantedAlone DEF Flush
  <2>2. \A d \in Conns : ~kept[d]
    BY <2>1
  <2> QED
    BY <1>9, <2>2 DEF Flush
<1>10. CASE Commit(c)
  <2>1. \A d \in Conns : ~kept[d]
    BY <1>10 DEF Commit
  <2> QED
    BY <1>10, <2>1 DEF Commit, EndWrite
<1>11. CASE Rollback(c)
  <2>1. CASE level[c] = "exclusive"
    <3>1. \A d \in Conns : ~kept[d]
      BY <2>1
    <3> QED
      BY <1>11, <3>1 DEF Rollback, EndWrite
  <2>2. CASE level[c] = "reserved"
    BY <1>11, <2>2 DEF Rollback, EndWrite
  <2> QED
    BY <1>11, <2>1, <2>2 DEF Rollback, Writing
<1>12. CASE CloseDatabase(c)
  BY <1>12 DEF CloseDatabase
<1>13. CASE Crash(c)
  BY <1>13 DEF Crash
<1> QED
  BY <1>1, <1>2, <1>3, <1>4, <1>5, <1>6, <1>7, <1>8, <1>9, <1>10, <1>11, <1>12, <1>13 DEF Step

-----------------------------------------------------------------------------
(* The theorems                                                            *)

LEMMA NextInductive ==
  ASSUME ~IsWindows
  PROVE  Inductive /\ [Next]_vars => Inductive'
<1> SUFFICES ASSUME Inductive, [Next]_vars PROVE Inductive'
  OBVIOUS
<1>1. CASE UNCHANGED vars
  BY <1>1 DEF vars, Inductive, TypeOK, Exclusion, OneWriter, KeptSnapshots, Writing
<1>2. ASSUME NEW c \in Conns, Step(c) \/ Crash(c) PROVE Inductive'
  BY <1>2, StepTypes, StepExclusion, StepOneWriter, StepKeptSnapshots DEF Inductive
<1> QED
  BY <1>1, <1>2 DEF Next

THEOREM InductiveInvariant == ~IsWindows => (Spec => []Inductive)
<1> SUFFICES ASSUME ~IsWindows PROVE Spec => []Inductive
  OBVIOUS
<1>1. Inductive /\ [Next]_vars => Inductive'
  BY NextInductive
<1> QED
  BY <1>1, InitInductive, PTL DEF Spec

(* Every reachable state is well typed: no handle waits for a lock with    *)
(* another one in hand, and what a journal restores is a version.          *)
THEOREM TypeCorrect == ~IsWindows => (Spec => []TypeOK)
<1>1. Inductive => TypeOK
  BY DEF Inductive
<1> QED
  BY <1>1, InductiveInvariant, PTL

(* Who writes the file has the exclusive lock, and nobody else has any     *)
(* (vfs.c:105-121).                                                        *)
THEOREM WritersAreAlone == ~IsWindows => (Spec => []WritersExclude)
<1>1. Inductive => WritersExclude
  BY DEF Inductive, Exclusion, WritersExclude
<1> QED
  BY <1>1, InductiveInvariant, PTL

(* Under the lock that a snapshot was taken with, the file is whole and    *)
(* still that snapshot (vfs.c:105-137).                                    *)
THEOREM SnapshotsAreStable == ~IsWindows => (Spec => []SnapshotHolds)
<1>1. Inductive => SnapshotHolds
  BY DEF Inductive, KeptSnapshots, SnapshotHolds
<1> QED
  BY <1>1, InductiveInvariant, PTL

(* Until two connections have reserved the file at once, or a journal was  *)
(* deleted by another one (vfs.c:139-142), a file that is half written has *)
(* a journal that restores the last commit, whoever crashed.               *)
THEOREM CrashesAreRecoverable == ~IsWindows => (Spec => []Recoverable)
<1>1. Inductive => Recoverable
  BY Kinds DEF Inductive, OneWriter, Recoverable, Hot, Empty
<1> QED
  BY <1>1, InductiveInvariant, PTL

(* No two processes wait for each other: if every process stands still,    *)
(* one waits for a lock that another connection of its own holds           *)
(* (vfs.c:112, vfs.c:123-137).                                             *)
THEOREM ProcessesDoNotDeadlock ==
  ~IsWindows /\ Conns # {} => (Spec => []NoCircularWait)
<1> SUFFICES ASSUME ~IsWindows, Conns # {} PROVE Spec => []NoCircularWait
  OBVIOUS
<1>1. Inductive => NoCircularWait
  <2> SUFFICES ASSUME Inductive, fault = "none", \A c \in Conns : Stands(c)
               PROVE  \E c, d \in Conns : Blocked(c) /\ c # d /\ SameProcess(c, d)
                                          /\ lock[d] # "none"
    BY DEF NoCircularWait
  <2> USE DEF Inductive, TypeOK, Exclusion, Locks
  <2>1. PICK c \in Conns : Blocked(c)
    BY DEF Stands
  <2>2. PICK d \in Conns \ {c} : lock[d] # "none"
    BY <2>1 DEF Blocked, Granted
  <2>3. PICK e \in Conns : SameProcess(d, e) /\ Blocked(e)
    BY <2>2 DEF Stands
  <2>4. SameProcess(e, d)
    BY <2>3 DEF SameProcess
  <2>5. CASE e # d
    BY <2>2, <2>3, <2>4, <2>5
  <2>6. CASE e = d
    <3>1. wants[d] # "none" /\ lock[d] = wants[d] /\ ~Granted(d)
      BY <2>2, <2>3, <2>6 DEF Blocked
    <3>2. wants[d] = "sh"
      BY <3>1
    <3>3. PICK f \in Conns \ {d} : lock[f] = "ex"
      BY <3>1, <3>2 DEF Granted
    <3> QED
      BY <2>2, <3>3
  <2> QED
    BY <2>5, <2>6
<1> QED
  BY <1>1, InductiveInvariant, PTL

-----------------------------------------------------------------------------
(* FileLocks implements AtomicCommits                                      *)

Seen == [c \in Conns |-> IF Protected(c) THEN {snap[c]} ELSE {}]
Writers == {c \in Conns : Writing(c)}

\* Until a fault, the next reader finds the version committed last, and so has
\* every protected transaction.
Agrees == Found = file /\ \A c \in Conns : Protected(c) => snap[c] = file

LEMMA AllAgree == Inductive /\ fault = "none" => Agrees
  BY Kinds DEF Inductive, TypeOK, OneWriter, KeptSnapshots, Found, Hot, Empty, Protected, Agrees

LEMMA InitAtomic == Init => Atomic!Init
<1> SUFFICES ASSUME Init PROVE Atomic!Init
  OBVIOUS
<1>1. Found = file
  BY NoJournalType DEF Init, Found, Hot
<1>2. \A c \in Conns : ~Writing(c) /\ ~Protected(c)
  BY DEF Init, Writing, Protected
<1> QED
  BY <1>1, <1>2 DEF Init, Atomic!Init

LEMMA AgreeNext == Inductive' /\ (fault = "none")' => Agrees'
  BY AllAgree, PTL

\* A step that changes nothing of it
LEMMA QuietAtomic ==
  ASSUME Agrees, Agrees', file' = file, fault = "none", fault' = "none",
         \A d \in Conns : (Writing(d)' <=> Writing(d)) /\ (Protected(d)' <=> Protected(d))
  PROVE  UNCHANGED Atomic!vars
<1>1. Found' = Found
  BY DEF Agrees
<1>2. Seen' = Seen
  <2>1. \A d \in Conns : Protected(d) => snap'[d] = snap[d]
    BY DEF Agrees
  <2> QED
    BY <2>1 DEF Seen
<1>3. Writers' = Writers
  BY DEF Writers
<1> QED
  BY <1>1, <1>2, <1>3 DEF Atomic!vars, Seen, Writers

\* One connection begins, or ends, to be protected or to write.
LEMMA ReadAtomic ==
  ASSUME Agrees, Agrees', file' = file, fault = "none", fault' = "none",
         NEW c \in Conns, Protected(c)',
         \A d \in Conns : Writing(d)' <=> Writing(d),
         \A d \in Conns \ {c} : Protected(d)' <=> Protected(d)
  PROVE  Atomic!Next
<1>1. Found' = Found /\ \A d \in Conns : Protected(d)' => snap'[d] = file
  BY DEF Agrees
<1>2. Seen' = [Seen EXCEPT ![c] = {Found}]
  <2>1. \A d \in Conns : Protected(d) => snap[d] = file
    BY DEF Agrees
  <2> QED
    BY <1>1, <2>1 DEF Seen, Agrees
<1>3. Writers' = Writers
  BY DEF Writers
<1>4. Atomic!Read(c)
  BY <1>1, <1>2, <1>3 DEF Atomic!Read, Seen, Writers
<1> QED
  BY <1>4 DEF Atomic!Next

LEMMA ReserveAtomic ==
  ASSUME Agrees, Agrees', file' = file, fault = "none", fault' = "none",
         NEW c \in Conns, Writing(c)', \A d \in Conns : ~Writing(d),
         \A d \in Conns \ {c} : ~Writing(d)' /\ (Protected(d)' <=> Protected(d))
  PROVE  Atomic!Next
<1>1. Found' = Found /\ \A d \in Conns : Protected(d)' => snap'[d] = file
  BY DEF Agrees
<1>2. Protected(c)'
  BY DEF Protected
<1>3. Seen' = [Seen EXCEPT ![c] = {Found}]
  <2>1. \A d \in Conns : Protected(d) => snap[d] = file
    BY DEF Agrees
  <2> QED
    BY <1>1, <1>2, <2>1 DEF Seen, Agrees
<1>4. Writers = {} /\ Writers' = {c}
  BY DEF Writers
<1>5. Atomic!Reserve(c)
  BY <1>1, <1>3, <1>4 DEF Atomic!Reserve, Seen, Writers
<1> QED
  BY <1>5 DEF Atomic!Next

LEMMA EndAtomic ==
  ASSUME Agrees, Agrees', file' = file, fault = "none", fault' = "none",
         NEW S \in SUBSET Conns, \A d \in S : ~Protected(d)',
         \A d \in Conns \ S : (Writing(d)' <=> Writing(d)) /\ (Protected(d)' <=> Protected(d))
  PROVE  Atomic!Next
<1>1. Found' = Found /\ \A d \in Conns : Protected(d)' => snap'[d] = file
  BY DEF Agrees
<1>2. Seen' = [d \in Conns |-> IF d \in S THEN {} ELSE Seen[d]]
  <2>1. \A d \in Conns : Protected(d) => snap[d] = file
    BY DEF Agrees
  <2> QED
    BY <1>1, <2>1 DEF Seen
<1>3. Writers' = Writers \ S
  BY DEF Writers, Protected
<1>4. Atomic!End(S)
  BY <1>1, <1>2, <1>3 DEF Atomic!End, Seen, Writers
<1> QED
  BY <1>4 DEF Atomic!Next

LEMMA CommitAtomic ==
  ASSUME Agrees, Agrees', file' = file + 1, fault = "none", fault' = "none",
         NEW c \in Conns, Writing(c), \A d \in Conns : ~Protected(d)',
         \A d \in Conns \ {c} : ~Protected(d)
  PROVE  Atomic!Next
<1>1. Found' = Found + 1 /\ Protected(c) /\ snap[c] = Found
  BY DEF Agrees, Protected
<1>2. /\ Seen[c] = {Found} /\ \A d \in Conns \ {c} : Seen[d] = {}
      /\ Seen' = [Seen EXCEPT ![c] = {}]
  BY <1>1 DEF Seen
<1>3. Writers = {c} /\ Writers' = {}
  BY DEF Writers, Protected
<1>4. Atomic!Commit(c)
  BY <1>1, <1>2, <1>3 DEF Atomic!Commit, Seen, Writers
<1> QED
  BY <1>4 DEF Atomic!Next

LEMMA StepAtomic ==
  ASSUME ~IsWindows, Inductive, Inductive', NEW c \in Conns, Step(c) \/ Crash(c)
  PROVE  [Atomic!Next]_(Atomic!vars)
<1> USE DEF Writing, Protected
<1>0. fault = "none"
  BY Still, GrantedAlone
     DEF Step, OpenDatabase, StartRead, Read, Recover, EndRead, StartWrite, Reserve,
         StartFlush, Flush, Commit, Rollback, CloseDatabase, Crash
<1>a. CASE fault' # "none"
  BY <1>0, <1>a DEF Atomic!Next
<1>b. CASE fault' = "none"
  <2> USE <1>0, <1>b
  <2>0. Agrees /\ Agrees' /\ TypeOK /\ OneWriter /\ Exclusion /\ KeptSnapshots
    BY AllAgree, AgreeNext DEF Inductive
  <2> USE <2>0
  <2>1. CASE OpenDatabase(c)
    BY <2>1, QuietAtomic DEF OpenDatabase, TypeOK
  <2>2. CASE StartRead(c)
    BY <2>2, QuietAtomic DEF StartRead
  <2>3. CASE Read(c)
    <3>1. file' = file /\ level[c] = "none" /\ level' = [level EXCEPT ![c] = "shared"]
      BY <2>3 DEF Read
    <3>2. \A d \in Conns \ {c} : kept'[d] = kept[d]
      <4>1. \E k \in BOOLEAN : kept' = [kept EXCEPT ![c] = k]
        <5>1. CASE Hot
          BY <2>3, <5>1 DEF Read
        <5>2. CASE ~Hot
          BY <2>3, <5>2 DEF Read
        <5> QED
          BY <5>1, <5>2
      <4> QED
        BY <4>1
    <3>3. CASE kept'[c]
      BY <3>1, <3>2, <3>3, ReadAtomic DEF TypeOK
    <3>4. CASE ~kept'[c]
      BY <3>1, <3>2, <3>4, QuietAtomic DEF TypeOK
    <3> QED
      BY <3>3, <3>4
  <2>4. CASE Recover(c)
    <3>1. file' = file
      BY <2>4 DEF Recover, OneWriter
    <3> QED
      BY <2>4, <3>1, QuietAtomic DEF Recover
  <2>5. CASE EndRead(c)
    <3>1. /\ file' = file /\ level[c] = "shared" /\ level' = [level EXCEPT ![c] = "none"]
          /\ kept' = [kept EXCEPT ![c] = FALSE]
      BY <2>5 DEF EndRead
    <3>2. /\ \A d \in {c} : ~Protected(d)'
          /\ \A d \in Conns \ {c} : (Writing(d)' <=> Writing(d)) /\ (Protected(d)' <=> Protected(d))
      BY <3>1 DEF TypeOK
    <3>3. {c} \in SUBSET Conns
      OBVIOUS
    <3> QED
      BY <3>1, <3>2, <3>3, EndAtomic
  <2>6. CASE StartWrite(c)
    BY <2>6, QuietAtomic DEF StartWrite
  <2>7. CASE Reserve(c)
    <3>1. /\ file' = file /\ level' = [level EXCEPT ![c] = "reserved"]
          /\ \A d \in Conns : ~Writing(d)
          /\ \A d \in Conns \ {c} : kept'[d] = kept[d]
      BY <2>7 DEF Reserve, TypeOK
    <3> QED
      BY <3>1, ReserveAtomic DEF TypeOK
  <2>8. CASE StartFlush(c)
    <3>1. /\ file' = file /\ level[c] = "reserved" /\ level' = level
          /\ \A d \in Conns \ {c} : kept'[d] = kept[d]
      BY <2>8 DEF StartFlush
    <3> QED
      BY <3>1, QuietAtomic DEF TypeOK
  <2>9. CASE Flush(c)
    BY <2>9, QuietAtomic DEF Flush, TypeOK
  <2>10. CASE Commit(c)
    <3>1. /\ file' = file + 1 /\ level[c] = "exclusive"
          /\ level' = [level EXCEPT ![c] = "shared"] /\ kept' = [kept EXCEPT ![c] = FALSE]
      BY <2>10 DEF Commit, EndWrite
    <3>2. \A d \in Conns \ {c} : ~Protected(d)
      BY <3>1 DEF Exclusion, OneWriter, KeptSnapshots
    <3>3. \A d \in Conns : ~Protected(d)'
      BY <3>1, <3>2 DEF TypeOK
    <3> QED
      BY <3>1, <3>2, <3>3, CommitAtomic
  <2>11. CASE Rollback(c)
    <3>1. /\ file' = file /\ Writing(c) /\ level' = [level EXCEPT ![c] = "shared"]
          /\ kept' = [kept EXCEPT ![c] = FALSE]
      BY <2>11 DEF Rollback, EndWrite
    <3>2. /\ \A d \in {c} : ~Protected(d)'
          /\ \A d \in Conns \ {c} : (Writing(d)' <=> Writing(d)) /\ (Protected(d)' <=> Protected(d))
      BY <3>1 DEF TypeOK
    <3>3. {c} \in SUBSET Conns
      OBVIOUS
    <3> QED
      BY <3>1, <3>2, <3>3, EndAtomic
  <2>12. CASE CloseDatabase(c)
    BY <2>12, QuietAtomic DEF CloseDatabase, TypeOK
  <2>13. CASE Crash(c)
    <3> DEFINE S == {d \in Conns : SameProcess(c, d)}
    <3>1. /\ file' = file /\ \A d \in S : level'[d] = "closed"
          /\ \A d \in Conns \ S : level'[d] = level[d] /\ kept'[d] = kept[d]
      BY <2>13 DEF Crash
    <3> QED
      BY <3>1, EndAtomic
  <2> QED
    BY <2>1, <2>2, <2>3, <2>4, <2>5, <2>6, <2>7, <2>8, <2>9, <2>10, <2>11, <2>12, <2>13
       DEF Step
<1> QED
  BY <1>a, <1>b

(* Until a fault, the locks, the journal and its recovery make of the file *)
(* what AtomicCommits promises: each protected transaction sees one        *)
(* version, commits appear at once, none is lost, and a crash undoes what  *)
(* was not committed (vfs.c:105-142, vfs.js:91-101).                       *)
THEOREM ImplementsAtomicCommits == ~IsWindows => (Spec => AtomicSpec)
<1> SUFFICES ASSUME ~IsWindows PROVE Spec => AtomicSpec
  OBVIOUS
<1>1. Inductive /\ Inductive' /\ [Next]_vars => [Atomic!Next]_(Atomic!vars)
  <2> SUFFICES ASSUME Inductive, Inductive', [Next]_vars PROVE [Atomic!Next]_(Atomic!vars)
    OBVIOUS
  <2>1. CASE UNCHANGED vars
    BY <2>1 DEF vars, Atomic!vars, Found, Hot, Empty, CheckReservedLock, Protected, Writing
  <2>2. ASSUME NEW c \in Conns, Step(c) \/ Crash(c) PROVE [Atomic!Next]_(Atomic!vars)
    BY <2>2, StepAtomic
  <2> QED
    BY <2>1, <2>2 DEF Next
<1> QED
  BY <1>1, InitAtomic, InductiveInvariant, PTL DEF Spec, AtomicSpec, Atomic!Spec
=============================================================================
