---------------------------- MODULE VfsRegistry ----------------------------
(* The "appendonly" VFS as the connections of one process share it:        *)
(* xOpen, xClose, xDelete and xAccess over the registry of open files and  *)
(* the set of in-memory journal paths.  Each of the two is behind a mutex  *)
(* of its own, and xOpen and xClose let go of it between looking at the    *)
(* registry and making or destroying the mapper.                           *)
(*                                                                         *)
(* The contents of a database are counted in batches: how many the log     *)
(* holds and how many the mapper of a handle knows of.  SQLite, which      *)
(* calls these functions, is external: a connection opens its database,    *)
(* opens the journal for a transaction, and closes and deletes it after.   *)
EXTENDS Integers, FiniteSets

CONSTANTS
    Connections,   \* the SQLite connections of the process
    Databases,     \* the paths they open with SQLITE_OPEN_MAIN_DB
    MaxBatches,    \* bound: batches in a database's log
    Overlapping    \* the databases of which an xOpen may run between the steps
                   \* of another xOpen, or of an xClose, of the same path

ASSUME VfsAssumption == MaxBatches \in Nat /\ Overlapping \subseteq Databases

Kinds == {"database", "journal"}
Paths == Databases \X Kinds
Files == Connections \X Kinds       \* the sqlite3_file of each connection

VARIABLES
    phase,         \* file -> how far its xOpen or xClose has come
    database,      \* connection -> the database it opened last
    gOpenFiles,    \* g_open_files: path -> file, NoFile if there is none
    gJournalPaths, \* g_in_memory_journal_paths
    log,           \* database -> batches in its log
    known          \* connection -> batches its database's mapper knows of

vars == <<phase, database, gOpenFiles, gJournalPaths, log, known>>

NoFile == <<>>

Init ==
    /\ phase = [f \in Files |-> "closed"]
    /\ database \in [Connections -> Databases]
    /\ gOpenFiles = [p \in Paths |-> NoFile]
    /\ gJournalPaths = {}
    /\ log = [d \in Databases |-> 0]
    /\ known = [c \in Connections |-> 0]

Path(f) == <<database[f[1]], f[2]>>
Open(f) == phase[f] = "open"

(* A mapper for the file's path is alive.                                  *)
HasMapper(f) == phase[f] \in {"mapped", "open", "erased"}
BetweenSteps(f) == phase[f] \in {"checked", "mapped", "erased"}

(* Nothing else is half way through an xOpen or an xClose of this path.    *)
MayOpen(p) == p[1] \in Overlapping \/ \A f \in Files : Path(f) = p => ~BetweenSteps(f)

-----------------------------------------------------------------------------
(* xOpen: the registry is looked at, then let go.  With an entry for the   *)
(* path the answer is SQLITE_BUSY and nothing changes.                     *)
NeverBusy(p) == TRUE                \* broken variant: no check
NotBusy(p) == gOpenFiles[p] = NoFile

OpenChecks(f, p) ==
    /\ phase[f] = "closed"
    /\ MayOpen(p) /\ NotBusy(p)
    /\ phase' = [phase EXCEPT ![f] = "checked"]
    /\ UNCHANGED <<gOpenFiles, gJournalPaths, log, known>>

XOpenDatabase(c, d) ==
    /\ OpenChecks(<<c, "database">>, <<d, "database">>)
    /\ phase[<<c, "journal">>] = "closed"
    /\ database' = [database EXCEPT ![c] = d]

XOpenJournal(c) ==
    /\ Open(<<c, "database">>)
    /\ OpenChecks(<<c, "journal">>, <<database[c], "journal">>)
    /\ UNCHANGED database

(* Broken variant: every path opened is noted as a journal's.              *)
XOpenMapsNotesAll(f) ==
    /\ phase[f] = "checked"
    /\ phase' = [phase EXCEPT ![f] = "mapped"]
    /\ gJournalPaths' = gJournalPaths \cup {Path(f)}
    /\ known' = IF f[2] = "database" THEN [known EXCEPT ![f[1]] = log[database[f[1]]]]
                                     ELSE known
    /\ UNCHANGED <<database, gOpenFiles, log>>

(* A journal's path is noted and its mapper, over an empty InMemoryStorage,*)
(* cannot fail to initialize; a database's mapper recovers the log there   *)
(* is by now.                                                              *)
XOpenMaps(f) ==
    /\ phase[f] = "checked"
    /\ phase' = [phase EXCEPT ![f] = "mapped"]
    /\ \/ /\ f[2] = "journal"
          /\ gJournalPaths' = gJournalPaths \cup {Path(f)}
          /\ UNCHANGED known
       \/ /\ f[2] = "database"
          /\ known' = [known EXCEPT ![f[1]] = log[database[f[1]]]]
          /\ UNCHANGED gJournalPaths
    /\ UNCHANGED <<database, gOpenFiles, log>>

(* The storage or Init fails: SQLITE_CANTOPEN.                             *)
XOpenFails(f) ==
    /\ phase[f] = "checked" /\ f[2] = "database"
    /\ phase' = [phase EXCEPT ![f] = "closed"]
    /\ UNCHANGED <<database, gOpenFiles, gJournalPaths, log, known>>

XOpenRegisters(f) ==
    /\ phase[f] = "mapped"
    /\ gOpenFiles' = [gOpenFiles EXCEPT ![Path(f)] = f]
    /\ phase' = [phase EXCEPT ![f] = "open"]
    /\ UNCHANGED <<database, gJournalPaths, log, known>>

(* Broken variants: a close that leaves its entry; one that erases the     *)
(* entries of database and journal alike.                                  *)
XCloseWith(f, entries) ==
    /\ Open(f)
    /\ f[2] = "database" => phase[<<f[1], "journal">>] = "closed"
    /\ gOpenFiles' = entries
    /\ phase' = [phase EXCEPT ![f] = "erased"]
    /\ UNCHANGED <<database, gJournalPaths, log, known>>

XCloseKeeps(f) == XCloseWith(f, gOpenFiles)
XCloseErasesBoth(f) ==
    XCloseWith(f, [p \in Paths |-> IF p[1] = database[f[1]] THEN NoFile ELSE gOpenFiles[p]])

(* xClose: the entry of the path is erased, whosever it is; the mapper is  *)
(* destroyed after that.                                                   *)
XCloseErases(f) ==
    /\ Open(f)
    /\ f[2] = "database" => phase[<<f[1], "journal">>] = "closed"
    /\ gOpenFiles' = [gOpenFiles EXCEPT ![Path(f)] = NoFile]
    /\ phase' = [phase EXCEPT ![f] = "erased"]
    /\ UNCHANGED <<database, gJournalPaths, log, known>>

XCloseDestroys(f) ==
    /\ phase[f] = "erased"
    /\ phase' = [phase EXCEPT ![f] = "closed"]
    /\ UNCHANGED <<database, gOpenFiles, gJournalPaths, log, known>>

(* xWrite and xSync: a batch is appended at the end of the log, wherever   *)
(* that is, and mapped by this handle alone.                               *)
XSync(c) ==
    /\ Open(<<c, "database">>)
    /\ log[database[c]] < MaxBatches
    /\ log' = [log EXCEPT ![database[c]] = @ + 1]
    /\ known' = [known EXCEPT ![c] = @ + 1]
    /\ UNCHANGED <<phase, database, gOpenFiles, gJournalPaths>>

(* Broken variant: the set is cleared.                                     *)
XDeleteClears(c) ==
    /\ Open(<<c, "database">>) /\ phase[<<c, "journal">>] = "closed"
    /\ gJournalPaths' = {}
    /\ UNCHANGED <<phase, database, gOpenFiles, log, known>>

(* xDelete of a journal: a path that was noted is forgotten.  Others go to *)
(* the default VFS, or to GCS, which holds no journal of this VFS.         *)
XDelete(c) ==
    /\ Open(<<c, "database">>) /\ phase[<<c, "journal">>] = "closed"
    /\ gJournalPaths' = gJournalPaths \ {<<database[c], "journal">>}
    /\ UNCHANGED <<phase, database, gOpenFiles, log, known>>

(* xAccess of a journal's path.                                            *)
XAccess(p) == p \in gJournalPaths

-----------------------------------------------------------------------------
FileStep(f) == XOpenMaps(f) \/ XOpenFails(f) \/ XOpenRegisters(f)
                   \/ XCloseErases(f) \/ XCloseDestroys(f)

Next == \/ \E c \in Connections, d \in Databases : XOpenDatabase(c, d)
        \/ \E c \in Connections : XOpenJournal(c) \/ XSync(c) \/ XDelete(c)
        \/ \E f \in Files : FileStep(f)

Spec == Init /\ [][Next]_vars

-----------------------------------------------------------------------------
TypeOK ==
    /\ phase \in [Files -> {"closed", "checked", "mapped", "open", "erased"}]
    /\ database \in [Connections -> Databases]
    /\ gOpenFiles \in [Paths -> Files \cup {NoFile}]
    /\ gJournalPaths \subseteq Databases \X {"journal"}
    /\ log \in [Databases -> 0 .. MaxBatches]
    /\ known \in [Connections -> Nat]

(* g_open_files holds raw pointers to files SQLite frees after xClose: an  *)
(* entry always points to an open file of that very path, so that none     *)
(* dangles and no path stays busy after its file has gone, even when       *)
(* opens and closes of one path overlap and erase each other's entries     *)
(* (vfs_backend.cc, xOpen and xClose).                                     *)
NeverDangles ==
    \A p \in Paths : gOpenFiles[p] # NoFile =>
        Open(gOpenFiles[p]) /\ Path(gOpenFiles[p]) = p

Serial(c) == database[c] \notin Overlapping

(* A path has one live mapper at a time, the database's and the journal's, *)
(* when its opens and closes do not overlap: the second open of an open    *)
(* database is refused (vfs_backend.cc 226-231, g_open_files).             *)
ExclusiveOwner ==
    \A f, g \in Files :
        f # g /\ Serial(f[1]) /\ HasMapper(f) /\ HasMapper(g) => Path(f) # Path(g)

(* Of two connections that open one database the second is refused: no     *)
(* path is ever open twice (vfs_test.cc 142-161, ConcurrentOpenReturnsBusy)*)
NeverBothOpen ==
    \A f, g \in Files : f # g /\ Open(f) /\ Open(g) => Path(f) # Path(g)

(* The mapper of an open database knows every batch of its log: none was   *)
(* appended behind its back.                                               *)
KnowsTheLog ==
    \A c \in Connections :
        Serial(c) /\ HasMapper(<<c, "database">>) => known[c] = log[database[c]]

(* While a journal is open xAccess reports it: no other connection's       *)
(* xDelete has taken the path off the set.                                 *)
JournalReported ==
    \A c \in Connections :
        Serial(c) /\ HasMapper(<<c, "journal">>) => XAccess(<<database[c], "journal">>)
=============================================================================
