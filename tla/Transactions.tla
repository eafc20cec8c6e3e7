---------------------------- MODULE Transactions ----------------------------
(* SQLite's transactions over a database file in GCS.  The pager is        *)
(* external, modelled from what it calls: pages are written to the file    *)
(* after their old contents went to the rollback journal, a commit is one  *)
(* xSync, and a rollback cuts the file to its old size, writes the old     *)
(* pages back and syncs.  The journal is a file of this VFS, in memory     *)
(* (InMemoryStorage): its writes never fail, and it is gone with its       *)
(* handle or its process.                                                  *)
EXTENDS GcsMapper

CONSTANT PageData    \* bound: what transactions write to a page

ASSUME PageAssumption == PageData \subseteq BlockData

VARIABLES
    pager,       \* "closed", "reader", "writer", "committing", "failed",
                 \* "restoring", "undoing" or "closing"
    journal,     \* the old contents of the pages in the journal
    oldSize,     \* the database's size when the transaction began
    committed,   \* history: the contents after the last commit that returned OK
    doubt,       \* history: contents of syncs that failed or run since then
    found,       \* history: what an open may find
    contents     \* history: the file as the session's mapper keeps it

pagerVars == <<pager, journal, oldSize>>
vars == <<objectVars, mapperVars, pagerVars, committed, doubt, found, contents>>

NoJournal == [b \in {} |-> ZeroBlock]

Init ==
    /\ FileInit
    /\ pager = "closed"
    /\ journal = NoJournal
    /\ oldSize = 0
    /\ committed = EmptyImage
    /\ doubt = {}
    /\ found = Recoverable
    /\ contents = Held

(* The database is opened: what it holds is what counts from now on.       *)
OpenDatabase ==
    /\ pager = "closed"
    /\ XOpen
    /\ pager' = "reader"
    /\ committed' = Found(stored)
    /\ doubt' = {}
    /\ UNCHANGED <<journal, oldSize>>

Begin ==
    /\ pager = "reader" /\ M!MayAppend
    /\ pager' = "writer"
    /\ oldSize' = logicalSize
    /\ UNCHANGED <<objectVars, mapperVars, journal, committed, doubt>>

(* The pages of S that go to the journal: those that existed before the    *)
(* transaction and are not in it yet.  The pager has read each of them, or *)
(* the call that was to change it fails with the read: one it keeps in its *)
(* cache is still readable, as only syncs that fail lose records and the   *)
(* cache goes with the rollback after them.                                *)
ToJournal(S) == {p \in S : p < CeilBlocks(oldSize)} \ DOMAIN journal

Journaled(S) ==
    [b \in DOMAIN journal \cup ToJournal(S) |->
        IF b \in DOMAIN journal THEN journal[b] ELSE ReadBlock(b)]

WritePage(b, data) ==
    /\ pager = "writer"
    /\ \A p \in ToJournal({b}) : Readable(p)
    /\ journal' = Journaled({b})
    /\ XWrite(b, data)
    /\ UNCHANGED <<pager, oldSize, committed, doubt>>

ShrinkTo(n) ==
    /\ pager = "writer"
    /\ n * BlockUnits < logicalSize
    /\ \A p \in ToJournal({b \in Block : b >= n}) : Readable(p)
    /\ journal' = Journaled({b \in Block : b >= n})
    /\ XTruncate(n * BlockUnits)
    /\ UNCHANGED <<pager, oldSize, committed, doubt>>

CommitStart ==
    /\ pager = "writer"
    /\ XSync
    /\ pager' = "committing"
    /\ doubt' = doubt \cup {contents}
    /\ UNCHANGED <<journal, oldSize, committed>>

CommitOk ==
    /\ pager = "committing"
    /\ XSyncOk
    /\ pager' = "reader" /\ journal' = NoJournal /\ oldSize' = 0
    /\ committed' = contents
    /\ doubt' = {}

CommitFails ==
    /\ pager = "committing"
    /\ XSyncFails
    /\ pager' = "failed"
    /\ UNCHANGED <<journal, oldSize, committed, doubt>>

(* A rollback, wanted or after a commit that failed, starts by giving the  *)
(* file its old size.                                                      *)
Rollback ==
    /\ pager \in {"writer", "failed"}
    /\ \/ logicalSize > oldSize /\ XTruncate(oldSize)
       \/ logicalSize < oldSize /\ XWrite(CeilBlocks(oldSize) - 1, ZeroBlock)
       \/ logicalSize = oldSize /\ UNCHANGED <<objectVars, mapperVars>>
    /\ pager' = "restoring"
    /\ UNCHANGED <<journal, oldSize, committed, doubt>>

RestorePage ==
    /\ pager = "restoring"
    /\ \E b \in DOMAIN journal :
        /\ \A p \in DOMAIN journal : b <= p
        /\ XWrite(b, journal[b])
        /\ journal' = [p \in DOMAIN journal \ {b} |-> journal[p]]
    /\ UNCHANGED <<pager, oldSize, committed, doubt>>

RestoreSync ==
    /\ pager = "restoring" /\ DOMAIN journal = {}
    /\ XSync
    /\ pager' = "undoing"
    /\ doubt' = doubt \cup {contents}
    /\ UNCHANGED <<journal, oldSize, committed>>

(* Nothing was written: nothing is synced.                                 *)
RestoreNothing ==
    /\ pager = "restoring" /\ DOMAIN journal = {} /\ DOMAIN pending = {}
    /\ pager' = "reader" /\ oldSize' = 0
    /\ UNCHANGED <<objectVars, mapperVars, journal, committed, doubt>>

RollbackOk ==
    /\ pager = "undoing"
    /\ XSyncOk
    /\ pager' = "reader" /\ oldSize' = 0
    /\ doubt' = {}
    /\ UNCHANGED <<journal, committed>>

(* The pager gives up its cache and closes the journal.                    *)
RollbackFails ==
    /\ pager = "undoing"
    /\ XSyncFails
    /\ pager' = "reader" /\ oldSize' = 0
    /\ UNCHANGED <<journal, committed, doubt>>

CloseDatabase ==
    /\ pager = "reader"
    /\ XClose
    /\ pager' = "closing"
    /\ UNCHANGED <<journal, oldSize, committed, doubt>>

CloseEnds ==
    /\ pager = "closing"
    /\ Destroyed
    /\ pager' = "closed"
    /\ UNCHANGED <<journal, oldSize, committed, doubt>>

Crash ==
    /\ pager # "closed"
    /\ Die
    /\ pager' = "closed" /\ journal' = NoJournal /\ oldSize' = 0
    /\ UNCHANGED <<committed, doubt>>

Meanwhile == Background /\ UNCHANGED <<pagerVars, committed, doubt>>

Step == \/ OpenDatabase \/ Begin
        \/ \E b \in Block, d \in PageData : WritePage(b, d)
        \/ \E n \in 0 .. NumBlocks : ShrinkTo(n)
        \/ CommitStart \/ CommitOk \/ CommitFails
        \/ Rollback \/ RestorePage \/ RestoreSync \/ RestoreNothing
        \/ RollbackOk \/ RollbackFails
        \/ CloseDatabase \/ CloseEnds \/ Crash \/ Meanwhile

Next == Step /\ found' = Recoverable' /\ contents' = Held'

Spec == Init /\ [][Next]_vars

-----------------------------------------------------------------------------
TypeOK ==
    /\ mode \in {"none", "ready", "syncing", "closing"}
    /\ {stored, sent, appended, claimed} \subseteq Seq(Record)
    /\ handed = Len(appended)
    /\ openLen \in 0 .. Len(appended)
    /\ DOMAIN pending \subseteq 1 .. MaxPending
    /\ pending \in [DOMAIN pending -> Payload]
    /\ logicalToPhysical \in [Block -> 0 .. Len(appended)]
    /\ {logicalSize, oldSize} \subseteq 0 .. MaxSize
    /\ pager \in {"closed", "reader", "writer", "committing", "failed", "restoring",
                  "undoing", "closing"}
    /\ DOMAIN journal \subseteq Block
    /\ journal \in [DOMAIN journal -> BlockData]
    /\ arrives \in BOOLEAN

(* Whenever the machine stops, the next open finds the contents of the     *)
(* last commit that returned OK, or, while a sync runs or after one failed *)
(* with nothing committed since, those of such a sync as a whole; never a  *)
(* part of a transaction or of a rollback (xSync's batch against Init,     *)
(* with the journal lost).                                                 *)
AllOrNothing == found \subseteq {committed} \cup doubt

(* Outside a transaction a session reads what was last committed, where    *)
(* its reads return: also after commits that failed and after rollbacks    *)
(* whose own sync failed, when records that the mapper still maps are      *)
(* lost.  A read of one of those fails (xRead's SQLITE_IOERR_READ); no     *)
(* read returns an older page, and the size is the committed one.          *)
SessionSeesCommitted ==
    pager = "reader" =>
        /\ CeilBlocks(logicalSize) = committed.size
        /\ \A b \in Block : \A r \in XRead(b) :
               r.rc # "SQLITE_IOERR_READ" => r.data = BlockIn(committed, b)

(* A session in which no sync failed since the last commit reads only      *)
(* records that are stored: no read of it depends on what is under way.    *)
ReadsAreStored ==
    pager = "reader" /\ doubt = {} =>
        \A b \in Block : logicalToPhysical[b] <= Len(stored)

Durable == INSTANCE DurableFile
               WITH live <- mode \in {"ready", "syncing"},
                    promised <- found

(* A database file in GCS is the durable byte array of DurableFile, as one *)
(* in a local file is (BlockMapper over GcsRapidStorage).                  *)
Implements == Durable!Spec
=============================================================================
