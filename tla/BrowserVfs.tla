----------------------------- MODULE BrowserVfs -----------------------------
(***************************************************************************)
(* The browser's file system, browser/vfs.js, under open(), read() and     *)
(* write() of browser/mod.ts, for one database file.  SQLite reads and     *)
(* writes a Buffer; js_sync and js_delete only start an asynchronous       *)
(* request to IndexedDB, nobody waits for it and nobody sees it fail.      *)
(* The page may be reloaded at any time.                                   *)
(*                                                                         *)
(* SQLite's pager, which calls this file system, is external: a commit, a  *)
(* spill of the page cache and a rollback are the sequences of VFS calls   *)
(* it makes (sqlite3.c).  A page of the database holds the version that    *)
(* wrote it last; every commit writes page 1, which also tells the number  *)
(* of pages.                                                               *)
(***************************************************************************)
EXTENDS Buffers, FiniteSets

CONSTANTS
    Calls,          \* bound: the calls of open(), read() and write() between
                    \* two reloads
    NoCall,         \* waits for a request: nobody
    NoFile,         \* a file that does not exist
    MaxVersion,     \* bound: commits, imports and spilled transactions
    MaxPages,       \* bound: pages of the database
    MaxReloads,     \* bound: reloads of the page
    MaxFails        \* bound: requests that IndexedDB refuses

ASSUME CallAssumption ==
    NoCall \notin Calls /\ MaxVersion \in Nat \ {0} /\ MaxPages \in Nat \ {0}

\* undefined, in JavaScript, is neither a Buffer nor bytes nor a transaction.
ASSUME NoFileAssumption ==
    /\ NoFile \notin Seq(Nat) /\ NoFile \notin Buffer
    /\ NoFile \notin [version : Nat, before : Seq(Nat), wrote : SUBSET Nat]

VARIABLES
    loaded,     \* LOADED_FILES.get(file): its Buffer or NoFile
    conn,       \* the connection: "closed", "idle", "open" inside a transaction
                \* that has only read, "spilled" inside one that has written
                \* to the file
    txn,        \* the transaction: its version, the file as it was when it
                \* began (the page cache), and the pages it has written
    tasks,      \* promise continuations that will issue a request
    requests,   \* IndexedDB's queue
    events,     \* results on their way to the calls that wait for them
    stored,     \* the database file in IndexedDB
    storedJournal,  \* its journal is in IndexedDB
    calls,      \* the calls in progress
    version,    \* history: the latest version
    committed,  \* history: all contents committed or imported
    torn,       \* history: "stored" was written to between js_sync and put
    unsaved,    \* history: the latest js_sync of the database failed
    overlap,    \* history: a write() overlapped an open() or a connection
    damaged,    \* history: a torn file was loaded, or write() replaced the
                \* file inside a transaction that has written or that writes
                \* later
    reloads, fails  \* history

memory == <<loaded, conn, txn, tasks, events, calls>>
storage == <<stored, storedJournal, torn>>
history == <<version, committed, overlap, damaged, reloads>>
vars == <<memory, requests, storage, history, unsaved, fails>>

Pages == 1 .. MaxPages
Idle == [op |-> "none", stage |-> "none"]
Over == [op |-> "none", stage |-> "over"]

(***************************************************************************)
(* Requests.  "live" marks a put whose bytes are still a view of the       *)
(* buffer's array: they are copied when put is called, not before.         *)
(***************************************************************************)
Request(op, file, bytes, by, live) ==
    [op |-> op, file |-> file, bytes |-> bytes, by |-> by, live |-> live, torn |-> FALSE]

\* Slip: the journal is put twice.
SyncSkipsDatabase(b) == Request("put", "journal", <<>>, NoCall, FALSE)

SyncDatabase(b) == Request("put", "database", ToArray(b), NoCall, TRUE)
SyncJournal == Request("put", "journal", <<>>, NoCall, FALSE)
DeleteJournal == Request("delete", "journal", <<>>, NoCall, FALSE)

\* What a view taken before b became b2 shows afterwards.
Review(task, b, b2) ==
    IF ~task.live
    THEN task
    ELSE IF Len(b2.data) # Len(b.data)
         THEN [task EXCEPT !.live = FALSE]
         ELSE LET seen == SubSeq(b2.data, 1, Len(task.bytes))
              IN [task EXCEPT !.bytes = seen,
                              !.torn = task.torn \/ seen # task.bytes]

\* js_write: the buffer and the tasks whose views show it
Store(m, offset, cells) ==
    LET b == Write(m.buffer, offset, cells)
    IN [buffer |-> b,
        tasks  |-> [i \in DOMAIN m.tasks |-> Review(m.tasks[i], m.buffer, b)]]

\* pager_write_pagelist: pages in the order of their numbers
StorePages(m, pages, content) ==
    LET upTo[p \in 0 .. MaxPages] ==
            IF p = 0 THEN m
            ELSE IF p \in pages THEN Store(upTo[p - 1], p - 1, <<content[p]>>)
                 ELSE upTo[p - 1]
    IN upTo[MaxPages]

\* pager_truncate: a file that is too short gets its last page instead.
PagerTruncate(m, n) ==
    IF m.buffer.size > n
    THEN [m EXCEPT !.buffer = Truncate(m.buffer, n)]
    ELSE IF m.buffer.size < n THEN Store(m, n - 1, <<Zero>>) ELSE m

\* The page has just been loaded.  IndexedDB has nothing, or the database, in
\* version 1, that was there before this page was last reloaded.
Init ==
    /\ \/ stored = NoFile /\ committed = {} /\ reloads = 0
       \/ stored = [p \in Pages |-> 1] /\ committed = {stored} /\ reloads = 1
    /\ loaded = NoFile /\ conn = "closed" /\ txn = NoFile
    /\ tasks = <<>> /\ requests = <<>> /\ events = <<>>
    /\ storedJournal = FALSE
    /\ calls = [c \in Calls |-> Idle]
    /\ version = 1 /\ fails = 0
    /\ torn = FALSE /\ unsaved = FALSE /\ overlap = FALSE /\ damaged = FALSE

Pending(op) == \E c \in Calls : calls[c].op = op

(***************************************************************************)
(* The API                                                                 *)
(***************************************************************************)
\* open() and read() start with loadFile.  The application has one
\* connection to the file at a time.
LoadFile(c, op) ==
    /\ calls[c] = Idle
    /\ op \in {"open", "read"}
    /\ op = "open" => conn = "closed" /\ ~Pending("open")
    /\ calls' = [calls EXCEPT ![c] = [op |-> op, stage |-> "get"]]
    /\ tasks' = Append(tasks, Request("get", "database", <<>>, c, FALSE))
    /\ overlap' = (overlap \/ (op = "open" /\ Pending("write")))
    /\ UNCHANGED <<loaded, conn, txn, requests, events, storage, version, committed,
                   damaged, reloads, unsaved, fails>>

\* write(): imports a database of n pages
WriteFile(c, n) ==
    /\ calls[c] = Idle
    /\ version < MaxVersion
    /\ LET data == [p \in 1 .. n |-> version + 1]
       IN /\ tasks' = Append(tasks, Request("put", "database", data, c, FALSE))
          /\ committed' = committed \cup {data}
    /\ version' = version + 1
    /\ calls' = [calls EXCEPT ![c] = [op |-> "write", stage |-> "put"]]
    /\ overlap' = (overlap \/ conn # "closed" \/ Pending("open"))
    /\ UNCHANGED <<loaded, conn, txn, requests, events, storage, damaged, reloads,
                   unsaved, fails>>

\* Slip: the latest request is made first.
RunTaskLatest ==
    /\ tasks # <<>>
    /\ tasks' = SubSeq(tasks, 1, Len(tasks) - 1)
    /\ requests' = Append(requests, [tasks[Len(tasks)] EXCEPT !.live = FALSE])
    /\ UNCHANGED <<loaded, conn, txn, events, calls, storage, history, unsaved, fails>>

\* "await database" is over: put copies its data, the request is queued.
RunTask ==
    /\ tasks # <<>>
    /\ tasks' = Tail(tasks)
    /\ requests' = Append(requests, [Head(tasks) EXCEPT !.live = FALSE])
    /\ UNCHANGED <<loaded, conn, txn, events, calls, storage, history, unsaved, fails>>

\* The result of the request r for the call that waits for it, if one does
Answer(r, bytes, ok) ==
    events' = IF r.by = NoCall THEN events
              ELSE Append(events, [by |-> r.by, bytes |-> bytes, ok |-> ok,
                                   torn |-> r.op = "get" /\ torn])

\* IndexedDB runs the next request, in a transaction of its own.
Serve ==
    /\ requests # <<>>
    /\ requests' = Tail(requests)
    /\ LET r == Head(requests)
       IN /\ \/ /\ r.op = "put" /\ r.file = "database"
                /\ stored' = r.bytes /\ torn' = r.torn /\ unsaved' = FALSE
                /\ UNCHANGED storedJournal
             \/ /\ r.op # "get" /\ r.file = "journal"
                /\ storedJournal' = (r.op = "put")
                /\ UNCHANGED <<stored, torn, unsaved>>
             \/ /\ r.op = "get"
                /\ UNCHANGED <<storage, unsaved>>
          /\ Answer(r, IF r.op = "get" THEN stored ELSE r.bytes, TRUE)
    /\ UNCHANGED <<loaded, conn, txn, tasks, calls, history, fails>>

\* A request fails.  The promise of js_sync and js_delete is dropped.
Refuse ==
    /\ requests # <<>> /\ fails < MaxFails
    /\ requests' = Tail(requests)
    /\ fails' = fails + 1
    /\ LET r == Head(requests)
       IN /\ unsaved' = (unsaved \/ (r.op = "put" /\ r.file = "database" /\ r.by = NoCall))
          /\ Answer(r, r.bytes, FALSE)
    /\ UNCHANGED <<loaded, conn, txn, tasks, calls, storage, history>>

\* The rest of loadFile, for open() and read()
Loaded(e) ==
    /\ calls[e.by].op # "write"
    /\ loaded' = IF loaded = NoFile /\ e.bytes # NoFile THEN NewBuffer(e.bytes) ELSE loaded
    /\ damaged' = (damaged \/ (loaded = NoFile /\ e.torn))
    /\ calls' = [calls EXCEPT ![e.by].stage = "loaded"]
    /\ UNCHANGED tasks

\* The rest of writeFile: it overwrites the buffer, open or not.
Written(e) ==
    /\ calls[e.by].op = "write"
    /\ calls' = [calls EXCEPT ![e.by] = Over]
    /\ IF loaded = NoFile
       THEN UNCHANGED <<loaded, tasks, damaged>>
       ELSE LET m == Store([buffer |-> Truncate(loaded, 0), tasks |-> tasks], 0, e.bytes)
            IN /\ loaded' = m.buffer
               /\ tasks' = m.tasks
               /\ damaged' = (damaged \/ conn = "spilled")

Resume ==
    /\ events # <<>>
    /\ events' = Tail(events)
    /\ LET e == Head(events)
       IN \/ e.ok /\ Loaded(e)
          \/ e.ok /\ Written(e)
          \/ /\ ~e.ok
             /\ calls' = [calls EXCEPT ![e.by] = Over]
             /\ UNCHANGED <<loaded, tasks, damaged>>
    /\ UNCHANGED <<conn, txn, requests, storage, version, committed, overlap, reloads,
                   unsaved, fails>>

\* open() has an instance: new DB(file), and js_open of the database
OpenDatabase(c) ==
    /\ calls[c] = [op |-> "open", stage |-> "loaded"]
    /\ calls' = [calls EXCEPT ![c] = Over]
    /\ conn' = "idle"
    /\ loaded' = IF loaded = NoFile THEN NewBuffer(<<>>) ELSE loaded
    /\ UNCHANGED <<txn, tasks, requests, events, storage, history, unsaved, fails>>

\* read() copies the buffer.
ReadReturns(c) ==
    /\ calls[c] = [op |-> "read", stage |-> "loaded"]
    /\ calls' = [calls EXCEPT ![c] = Over]
    /\ UNCHANGED <<loaded, conn, txn, tasks, requests, events, storage, history,
                   unsaved, fails>>

CloseDatabase ==
    /\ conn = "idle"
    /\ conn' = "closed"
    /\ UNCHANGED <<loaded, txn, tasks, requests, events, calls, storage, history,
                   unsaved, fails>>

(***************************************************************************)
(* SQLite's pager: the VFS calls of one statement, made without a break    *)
(***************************************************************************)
\* The first read of a transaction.  The page cache is compared with the file
\* here, and not again before the transaction ends.
Begin ==
    /\ conn = "idle"
    /\ conn' = "open"
    /\ txn' = [version |-> 0, before |-> ToArray(loaded), wrote |-> {}]
    /\ UNCHANGED <<loaded, tasks, requests, events, calls, storage, history, unsaved,
                   fails>>

\* A transaction ends that has not written to the file.
EndTransaction ==
    /\ conn = "open"
    /\ conn' = "idle" /\ txn' = NoFile
    /\ UNCHANGED <<loaded, tasks, requests, events, calls, storage, history, unsaved,
                   fails>>

\* The transaction that writes now
Transaction ==
    IF conn = "spilled" THEN txn
    ELSE [version |-> version + 1, before |-> txn.before, wrote |-> {}]

\* Pages that are not written now remain those of the file, which write() may
\* have replaced since the transaction began.
Starts(t) ==
    /\ conn \in {"open", "spilled"} /\ t.version <= MaxVersion
    /\ version' = IF conn = "spilled" THEN version ELSE t.version
    /\ damaged' = (damaged \/ (conn = "open" /\ t.before # ToArray(loaded)))

\* The cache is full: the journal is created and synced, and pages other than
\* the first are written, without a sync.  Bound: each page spills once.
Spill(pages) ==
    LET t == Transaction
        m == StorePages([buffer |-> loaded, tasks |-> Append(tasks, SyncJournal)],
                        pages, [p \in Pages |-> t.version])
    IN /\ Starts(t) /\ pages \cap t.wrote = {}
       /\ loaded' = m.buffer /\ tasks' = m.tasks
       /\ txn' = [t EXCEPT !.wrote = @ \cup pages]
       /\ conn' = "spilled"
       /\ UNCHANGED <<requests, events, calls, storage, committed, overlap, reloads,
                      unsaved, fails>>

\* The database has n pages now and the transaction has changed "pages":
\* the journal is synced, what is not yet written is written, the file
\* is synced, the journal deleted, and then the file truncated.
Commit(n, pages) ==
    LET t     == Transaction
        added == {p \in 1 .. n : p > Len(t.before)}
        dirty == {1} \cup pages \cup (added \ t.wrote)
        new   == [p \in 1 .. n |-> IF p \in dirty \cup t.wrote
                                   THEN t.version ELSE t.before[p]]
        m     == StorePages([buffer |-> loaded, tasks |-> Append(tasks, SyncJournal)],
                            dirty, new)
        s     == [m EXCEPT !.tasks = @ \o <<SyncDatabase(m.buffer), DeleteJournal>>]
        end   == IF \E p \in DOMAIN t.before \cup t.wrote : p > n
                 THEN PagerTruncate(s, n) ELSE s
    IN /\ Starts(t)
       /\ loaded' = end.buffer /\ tasks' = end.tasks
       /\ committed' = committed \cup {new}
       /\ conn' = "idle" /\ txn' = NoFile
       /\ UNCHANGED <<requests, events, calls, storage, overlap, reloads, unsaved,
                      fails>>

\* pager_playback: truncate, write the pages of the journal back, sync, delete it.
Rollback ==
    /\ conn = "spilled"
    /\ LET m == StorePages(PagerTruncate([buffer |-> loaded, tasks |-> tasks],
                                         Len(txn.before)),
                           DOMAIN txn.before \cap txn.wrote, txn.before)
       IN /\ loaded' = m.buffer
          /\ tasks' = m.tasks \o <<SyncDatabase(m.buffer), DeleteJournal>>
    /\ conn' = "idle" /\ txn' = NoFile
    /\ UNCHANGED <<requests, events, calls, storage, history, unsaved, fails>>

\* The page is reloaded or closed: only what IndexedDB has done remains.
Reload ==
    /\ reloads < MaxReloads
    /\ reloads' = reloads + 1
    /\ loaded' = NoFile /\ conn' = "closed" /\ txn' = NoFile
    /\ tasks' = <<>> /\ requests' = <<>> /\ events' = <<>>
    /\ calls' = [c \in Calls |-> Idle]
    /\ unsaved' = FALSE /\ overlap' = FALSE
    /\ UNCHANGED <<storage, version, committed, damaged, fails>>

Next ==
    \/ \E c \in Calls : \/ \E op \in {"open", "read"} : LoadFile(c, op)
                        \/ \E n \in Pages : WriteFile(c, n)
                        \/ OpenDatabase(c)
                        \/ ReadReturns(c)
    \/ RunTask \/ Serve \/ Refuse \/ Resume
    \/ \E pages \in SUBSET (2 .. MaxPages) : pages # {} /\ Spill(pages)
    \/ \E n \in Pages : \E pages \in SUBSET (2 .. n) : Commit(n, pages)
    \/ Begin \/ EndTransaction \/ Rollback \/ CloseDatabase \/ Reload

\* The browser runs promise continuations, and IndexedDB its queue.
Fairness == WF_vars(RunTask) /\ WF_vars(Serve)

Spec == Init /\ [][Next]_vars /\ Fairness

(***************************************************************************)
(* Properties                                                              *)
(***************************************************************************)
Content == Seq(0 .. MaxVersion)
RequestType ==
    [op : {"put", "delete", "get"}, file : {"database", "journal"}, bytes : Content,
     by : Calls \cup {NoCall}, live : BOOLEAN, torn : BOOLEAN]

\* Types.  Views are no longer than the array they were taken of, and a
\* request in IndexedDB's queue has its bytes.
TypeOK ==
    /\ loaded \in [data : Content, size : Nat] \cup {NoFile}
    /\ conn \in {"closed", "idle", "open", "spilled"}
    /\ txn \in [version : 0 .. MaxVersion, before : Content, wrote : SUBSET Pages] \cup {NoFile}
    /\ tasks \in Seq(RequestType) /\ requests \in Seq(RequestType)
    /\ events \in Seq([by : Calls, bytes : Content \cup {NoFile}, ok : BOOLEAN,
                       torn : BOOLEAN])
    /\ stored \in Content \cup {NoFile} /\ storedJournal \in BOOLEAN
    /\ calls \in [Calls -> [op : {"none", "open", "read", "write"},
                            stage : {"none", "get", "loaded", "put", "over"}]]
    /\ version \in 0 .. MaxVersion /\ committed \subseteq Content
    /\ {torn, unsaved, overlap, damaged} \subseteq BOOLEAN
    /\ reloads \in Nat /\ fails \in Nat
    /\ conn # "closed" => loaded # NoFile
    /\ (conn \in {"open", "spilled"}) = (txn # NoFile)
    /\ \A i \in DOMAIN tasks : tasks[i].live => Len(tasks[i].bytes) <= Len(loaded.data)
    /\ \A i \in DOMAIN requests : ~requests[i].live

\* The file is the committed content c; pages behind its end do not matter.
Shows(file, c) == Len(c) <= Len(file) /\ SubSeq(file, 1, Len(c)) = c
Sound(file) == file = <<>> \/ \E c \in committed : Shows(file, c)

\* What a reload finds (loadFile does not look for a journal, browser/vfs.js:85)
\* is a database that was committed or imported, except if the file was
\* written to after its js_sync and before put copied it, or was damaged
\* before.
StoredIsSound == stored = NoFile \/ torn \/ damaged \/ Sound(stored)

\* The buffer that connections and read() share shows a committed database
\* whenever no transaction has spilled: whatever is put, loaded or rolled back,
\* Buffer never shows stale pages of its array (browser/vfs.js:57-70).
LoadedIsSound ==
    loaded = NoFile \/ conn = "spilled" \/ damaged \/ Sound(ToArray(loaded))

Quiet == tasks = <<>> /\ requests = <<>> /\ events = <<>>

\* Once all requests are done, IndexedDB has what the application sees, and no
\* journal that this page has written, unless a request failed, or a
\* write() ran beside an open() or a connection: then the slower of both
\* wins in each place (browser/vfs.js:124-131, browser/mod.ts:16-21).
StorageCatchesUp ==
    Quiet /\ loaded # NoFile /\ conn # "spilled" /\ ~unsaved /\ ~overlap /\ ~damaged
        => IF stored = NoFile THEN ToArray(loaded) = <<>>
           ELSE Shows(stored, ToArray(loaded))

\* Journals are deleted after they were put: the two requests of one
\* transaction are never swapped (browser/vfs.js:159-163, 185-188).
JournalIsDeleted ==
    Quiet /\ conn # "spilled" /\ fails = 0 /\ reloads = 0 => ~storedJournal

\* What IndexedDB has is never replaced by an older or an empty database, unless a
\* write() ran beside an open() or a connection: the puts reach it in the order of
\* the syncs, and the data each of them copies late is not from an earlier
\* transaction (browser/vfs.js:124-131, 185-188).
NeverOlder ==
    [][stored \notin {NoFile, <<>>} /\ ~overlap
         => stored' \notin {NoFile, <<>>} /\ stored'[1] >= stored[1]]_vars

\* Every version that was committed or imported reaches IndexedDB, or a later
\* one does and stays, unless the page is reloaded, IndexedDB fails, or a write()
\* overlapped a connection
\* (README.md:97-98: "Databases created in the browser are persisted").
Persisted ==
    \A v \in 1 .. MaxVersion :
        (\E c \in committed : c[1] = v)
            ~> \/ stored # NoFile /\ stored # <<>> /\ stored[1] >= v
               \/ overlap \/ reloads > 0 \/ fails > 0

\* What is written about it: a database that a reload finds is always one
\* that was committed.
AlwaysSound == stored = NoFile \/ damaged \/ Sound(stored)
==============================================================================
