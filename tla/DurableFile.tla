---------------------------- MODULE DurableFile ----------------------------
(* What the logical file promises: an array of units that Write and        *)
(* Truncate change at once, where a read returns its contents or an error, *)
(* and a set of contents one of which the next open finds.  A sync adds    *)
(* the contents to that set as a whole and its success leaves no other;    *)
(* neither a crash nor a close adds any.  The size is kept to the block,   *)
(* which is what an open restores.                                         *)
EXTENDS LogFormat

VARIABLES
    live,      \* the file is open
    contents,  \* what a read returns that does not fail: data and size
    promised   \* what the next open may find

vars == <<live, contents, promised>>

Init == live = FALSE /\ contents = EmptyImage /\ promised = {EmptyImage}

Open ==
    /\ ~live
    /\ live' = TRUE
    /\ UNCHANGED promised
    /\ contents' \in promised

Unit == 0 .. MaxSize - 1
Images == [data : [Unit -> Values], size : 0 .. NumBlocks]
Larger(m, n) == IF m >= n THEN m ELSE n

(* n units at off were given some values; a write beyond the end grows the *)
(* file.                                                                   *)
Written(old, new, off, n) ==
    /\ \A u \in Unit \ (off .. off + n - 1) : new.data[u] = old.data[u]
    /\ new.size = Larger(old.size, CeilBlocks(off + n))

(* The units of the blocks beyond n read as zero from now on; the rest of  *)
(* the last block keeps its values.                                        *)
Truncated(old, new, n) ==
    /\ \A u \in Unit : new.data[u] = IF u < CeilBlocks(n) * BlockUnits
                                     THEN old.data[u] ELSE Zero
    /\ new.size = CeilBlocks(n)

Modify ==
    /\ live /\ UNCHANGED <<live, promised>>
    /\ contents' \in Images
    /\ \/ \E off \in Unit : \E n \in 1 .. MaxSize - off : Written(contents, contents', off, n)
       \/ \E n \in 0 .. MaxSize : Truncated(contents, contents', n)

SyncReaches ==
    /\ live /\ UNCHANGED <<live, contents>>
    /\ promised' = promised \cup {contents}

SyncSucceeds ==
    /\ live /\ UNCHANGED <<live, contents>>
    /\ contents \in promised
    /\ promised' = {contents}

(* What a sync left under way is stored, or lost.                          *)
Settle ==
    /\ live /\ UNCHANGED <<live, contents>>
    /\ promised' # {} /\ promised' \subseteq promised

(* A close, or a crash after which fewer outcomes remain possible.         *)
Stop ==
    /\ live' = FALSE
    /\ contents' = EmptyImage
    /\ promised' # {} /\ promised' \subseteq promised

Next == Open \/ Modify \/ SyncReaches \/ SyncSucceeds \/ Settle \/ Stop

Spec == Init /\ [][Next]_vars
=============================================================================
