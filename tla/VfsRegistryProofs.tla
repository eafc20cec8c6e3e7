------------------------- MODULE VfsRegistryProofs -------------------------
(* What holds of the registry for any number of connections and databases: *)
(* its types and that no entry dangles, however opens and closes overlap;  *)
(* and, for a database whose opens and closes do not, that its path has    *)
(* one owner, which knows its whole log and whose open journal is never    *)
(* forgotten.                                                              *)
EXTENDS VfsRegistry, TLAPS

(* A file is a pair, which the empty sequence is not.                      *)
LEMMA FileFacts ==
    /\ \A f \in Files : f # NoFile /\ f = <<f[1], f[2]>>
           /\ f[1] \in Connections /\ f[2] \in Kinds
    /\ \A c \in Connections : /\ <<c, "database">> \in Files /\ <<c, "journal">> \in Files
                              /\ <<c, "database">> # <<c, "journal">>
    /\ \A d \in Databases : <<d, "database">> \in Paths /\ <<d, "journal">> \in Paths
    BY DEF Files, Kinds, Paths, NoFile

LEMMA PathType ==
    ASSUME TypeOK, NEW f \in Files
    PROVE  Path(f) \in Paths /\ Path(f) = <<database[f[1]], f[2]>>
    BY FileFacts DEF Path, Paths, TypeOK

-----------------------------------------------------------------------------
LEMMA TypeInit == Init => TypeOK
    BY VfsAssumption DEF Init, TypeOK, NoFile

LEMMA OpensType ==
    ASSUME TypeOK, NEW c \in Connections,
           XOpenJournal(c) \/ \E d \in Databases : XOpenDatabase(c, d)
    PROVE  TypeOK'
<1>1. <<c, "database">> \in Files /\ <<c, "journal">> \in Files
    BY FileFacts
<1>2. CASE XOpenJournal(c)
    BY <1>1, <1>2 DEF XOpenJournal, OpenChecks, TypeOK
<1>3. ASSUME NEW d \in Databases, XOpenDatabase(c, d)
      PROVE  TypeOK'
    BY <1>1, <1>3 DEF XOpenDatabase, OpenChecks, TypeOK
<1> QED
    BY <1>2, <1>3

LEMMA FileStepType ==
    ASSUME TypeOK, NEW f \in Files, FileStep(f)
    PROVE  TypeOK'
<1>1. f[1] \in Connections /\ Path(f) \in Paths /\ database[f[1]] \in Databases
    BY FileFacts, PathType DEF TypeOK
<1>2. CASE XOpenMaps(f)
    <2>1. phase' \in [Files -> {"closed", "checked", "mapped", "open", "erased"}]
        BY <1>2 DEF XOpenMaps, TypeOK
    <2>2. known' \in [Connections -> Nat]
        BY <1>1, <1>2 DEF XOpenMaps, TypeOK
    <2>3. gJournalPaths' \subseteq Databases \X {"journal"}
        BY <1>1, <1>2 DEF XOpenMaps, TypeOK, Path
    <2> QED
        BY <1>2, <2>1, <2>2, <2>3 DEF XOpenMaps, TypeOK
<1>3. CASE XOpenFails(f)
    BY <1>3 DEF XOpenFails, TypeOK
<1>4. CASE XOpenRegisters(f)
    BY <1>1, <1>4 DEF XOpenRegisters, TypeOK
<1>5. CASE XCloseErases(f)
    BY <1>1, <1>5 DEF XCloseErases, TypeOK
<1>6. CASE XCloseDestroys(f)
    BY <1>6 DEF XCloseDestroys, TypeOK
<1> QED
    BY <1>2, <1>3, <1>4, <1>5, <1>6 DEF FileStep

LEMMA SyncType ==
    ASSUME TypeOK, NEW c \in Connections, XSync(c)
    PROVE  TypeOK'
<1>1. log[database[c]] + 1 \in 0 .. MaxBatches /\ known[c] + 1 \in Nat
    BY VfsAssumption DEF TypeOK, XSync
<1> QED
    BY <1>1 DEF TypeOK, XSync

LEMMA TypeStep == TypeOK /\ [Next]_vars => TypeOK'
<1> SUFFICES ASSUME TypeOK, [Next]_vars
             PROVE  TypeOK'
    OBVIOUS
<1>1. ASSUME NEW c \in Connections, XOpenJournal(c) \/ \E d \in Databases : XOpenDatabase(c, d)
      PROVE  TypeOK'
    BY <1>1, OpensType
<1>2. ASSUME NEW c \in Connections, XSync(c)
      PROVE  TypeOK'
    BY <1>2, SyncType
<1>3. ASSUME NEW c \in Connections, XDelete(c)
      PROVE  TypeOK'
    BY <1>3 DEF XDelete, TypeOK
<1>4. ASSUME NEW f \in Files, FileStep(f)
      PROVE  TypeOK'
    BY <1>4, FileStepType
<1>5. CASE UNCHANGED vars
    BY <1>5 DEF vars, TypeOK
<1> QED
    BY <1>1, <1>2, <1>3, <1>4, <1>5 DEF Next

(* The state of the registry and of the files keeps its types: vfs_backend *)
(* never enters a database's path among the in-memory journals.            *)
THEOREM VfsTypeCorrect == Spec => []TypeOK
<1> QED
    BY TypeInit, TypeStep, PTL DEF Spec

-----------------------------------------------------------------------------
(* Entries.                                                                *)

LEMMA OpenChecksKeeps ==
    ASSUME TypeOK, NeverDangles, NEW c \in Connections,
           XOpenJournal(c) \/ \E d \in Databases : XOpenDatabase(c, d)
    PROVE  NeverDangles'
<1> SUFFICES ASSUME NEW p \in Paths, gOpenFiles'[p] # NoFile
             PROVE  (Open(gOpenFiles[p]) /\ Path(gOpenFiles[p]) = p)'
    BY DEF NeverDangles
<1> DEFINE h == gOpenFiles[p]
<1>1. gOpenFiles' = gOpenFiles
    BY DEF XOpenJournal, XOpenDatabase, OpenChecks
<1>2. h \in Files /\ phase[h] = "open" /\ Path(h) = p
    BY <1>1 DEF NeverDangles, TypeOK, Open
<1>3. CASE XOpenJournal(c)
    <2>1. phase' = [phase EXCEPT ![<<c, "journal">>] = "checked"]
          /\ phase[<<c, "journal">>] = "closed" /\ database' = database
        BY <1>3 DEF XOpenJournal, OpenChecks
    <2>2. phase'[h] = "open"
        BY <1>2, <2>1 DEF TypeOK
    <2> QED
        BY <1>1, <1>2, <2>1, <2>2 DEF Open, Path
<1>4. ASSUME NEW d \in Databases, XOpenDatabase(c, d)
      PROVE  (Open(gOpenFiles[p]) /\ Path(gOpenFiles[p]) = p)'
    <2>1. /\ phase' = [phase EXCEPT ![<<c, "database">>] = "checked"]
          /\ phase[<<c, "database">>] = "closed" /\ phase[<<c, "journal">>] = "closed"
          /\ database' = [database EXCEPT ![c] = d]
        BY <1>4 DEF XOpenDatabase, OpenChecks
    <2>2. phase'[h] = "open"
        BY <1>2, <2>1 DEF TypeOK
    <2>3. h[1] # c
        BY <1>2, <2>1, FileFacts DEF Kinds
    <2>4. database'[h[1]] = database[h[1]]
        BY <1>2, <2>1, <2>3, FileFacts DEF TypeOK
    <2> QED
        BY <1>1, <1>2, <2>2, <2>4 DEF Open, Path
<1> QED
    BY <1>3, <1>4

LEMMA FileStepKeeps ==
    ASSUME TypeOK, NeverDangles, NEW f \in Files, FileStep(f)
    PROVE  NeverDangles'
<1> SUFFICES ASSUME NEW p \in Paths, gOpenFiles'[p] # NoFile
             PROVE  (Open(gOpenFiles[p]) /\ Path(gOpenFiles[p]) = p)'
    BY DEF NeverDangles
<1> DEFINE h == gOpenFiles[p]
<1>1. database' = database
    BY DEF FileStep, XOpenMaps, XOpenFails, XOpenRegisters, XCloseErases, XCloseDestroys
<1>2. CASE h # NoFile /\ gOpenFiles' = gOpenFiles /\ phase[f] # "open"
    <2>1. h \in Files /\ phase[h] = "open" /\ Path(h) = p
        BY <1>2 DEF NeverDangles, TypeOK, Open
    <2>2. phase'[h] = "open"
        BY <1>2, <2>1 DEF FileStep, XOpenMaps, XOpenFails, XOpenRegisters, XCloseErases,
              XCloseDestroys, TypeOK, Open
    <2> QED
        BY <1>1, <1>2, <2>1, <2>2 DEF Open, Path
<1>3. CASE XOpenRegisters(f)
    <2>1. Path(f) \in Paths
        BY PathType
    <2>2. gOpenFiles'[p] = IF p = Path(f) THEN f ELSE h
        BY <1>3, <2>1 DEF XOpenRegisters, TypeOK
    <2>3. phase'[f] = "open"
        BY <1>3 DEF XOpenRegisters, TypeOK
    <2>4. CASE p = Path(f)
        BY <1>1, <2>2, <2>3, <2>4 DEF Open, Path
    <2>5. CASE p # Path(f)
        <3>1. h \in Files /\ phase[h] = "open" /\ Path(h) = p
            BY <2>2, <2>5 DEF NeverDangles, TypeOK, Open
        <3>2. phase'[h] = "open"
            BY <1>3, <3>1 DEF XOpenRegisters, TypeOK
        <3> QED
            BY <1>1, <2>2, <2>5, <3>1, <3>2 DEF Open, Path
    <2> QED
        BY <2>4, <2>5
<1>4. CASE XCloseErases(f)
    <2>1. Path(f) \in Paths
        BY PathType
    <2>2. gOpenFiles'[p] = IF p = Path(f) THEN NoFile ELSE h
        BY <1>4, <2>1 DEF XCloseErases, TypeOK
    <2>3. h \in Files /\ phase[h] = "open" /\ Path(h) = p /\ p # Path(f)
        BY <2>2 DEF NeverDangles, TypeOK, Open
    <2>4. phase'[h] = "open"
        BY <1>4, <2>3 DEF XCloseErases, TypeOK
    <2> QED
        BY <1>1, <2>2, <2>3, <2>4 DEF Open, Path
<1>5. CASE XOpenMaps(f) \/ XOpenFails(f) \/ XCloseDestroys(f)
    BY <1>2, <1>5 DEF XOpenMaps, XOpenFails, XCloseDestroys
<1> QED
    BY <1>3, <1>4, <1>5 DEF FileStep

LEMMA NeverDanglesStep == TypeOK /\ NeverDangles /\ [Next]_vars => NeverDangles'
<1> SUFFICES ASSUME TypeOK, NeverDangles, [Next]_vars
             PROVE  NeverDangles'
    OBVIOUS
<1>1. ASSUME NEW c \in Connections, XOpenJournal(c) \/ \E d \in Databases : XOpenDatabase(c, d)
      PROVE  NeverDangles'
    BY <1>1, OpenChecksKeeps
<1>2. ASSUME NEW c \in Connections, XSync(c) \/ XDelete(c)
      PROVE  NeverDangles'
    BY <1>2 DEF XSync, XDelete, NeverDangles, Open, Path
<1>3. ASSUME NEW f \in Files, FileStep(f)
      PROVE  NeverDangles'
    BY <1>3, FileStepKeeps
<1>4. CASE UNCHANGED vars
    BY <1>4 DEF vars, NeverDangles, Open, Path
<1> QED
    BY <1>1, <1>2, <1>3, <1>4 DEF Next

(* No entry of g_open_files outlives the file it points to, however the    *)
(* opens and closes of any number of connections overlap.                  *)
THEOREM NoDanglingEntry == Spec => []NeverDangles
<1>1. Init => NeverDangles
    BY DEF Init, NeverDangles
<1> QED
    BY <1>1, TypeInit, TypeStep, NeverDanglesStep, PTL DEF Spec

-----------------------------------------------------------------------------
(* One owner.                                                              *)

Active(f) == phase[f] # "closed"

MayShare(p) == p[1] \in Overlapping

OwnPath ==
    \A f, g \in Files :
        f # g /\ Active(f) /\ Active(g) => Path(f) # Path(g) \/ MayShare(Path(f))

Registered ==
    \A f \in Files : Open(f) => gOpenFiles[Path(f)] = f \/ MayShare(Path(f))

JournalOfOpen ==
    \A c \in Connections : Active(<<c, "journal">>) => Open(<<c, "database">>)

(* The inductive invariant: files on their way in or out count as owners,  *)
(* an open one has its entry, and a journal is only open under its         *)
(* database, so that two journals of one path would mean two databases.    *)
SerialInv == OwnPath /\ Registered /\ JournalOfOpen /\ KnowsTheLog /\ JournalReported

(* A path that passes both checks of OpenChecks has no active file.        *)
LEMMA FreePath ==
    ASSUME TypeOK, SerialInv, NEW p \in Paths, MayOpen(p), NotBusy(p), ~MayShare(p)
    PROVE  \A g \in Files : Active(g) => Path(g) # p
<1> SUFFICES ASSUME NEW g \in Files, Active(g), Path(g) = p
             PROVE  FALSE
    OBVIOUS
<1>1. ~BetweenSteps(g)
    BY DEF MayOpen, MayShare
<1>2. phase[g] \in {"closed", "checked", "mapped", "open", "erased"}
    BY DEF TypeOK
<1>3. Open(g)
    BY <1>1, <1>2 DEF BetweenSteps, Open, Active
<1>4. gOpenFiles[p] = g
    BY <1>3 DEF SerialInv, Registered
<1> QED
    BY <1>4, FileFacts DEF NotBusy

LEMMA SerialOpensDatabase ==
    ASSUME TypeOK, SerialInv, NEW c \in Connections, NEW d \in Databases,
           XOpenDatabase(c, d)
    PROVE  SerialInv'
<1> DEFINE f == <<c, "database">>
           j == <<c, "journal">>
           p == <<d, "database">>
<1>1. /\ phase[f] = "closed" /\ phase[j] = "closed" /\ MayOpen(p) /\ NotBusy(p)
      /\ phase' = [phase EXCEPT ![f] = "checked"]
      /\ database' = [database EXCEPT ![c] = d]
      /\ UNCHANGED <<gOpenFiles, gJournalPaths, log, known>>
    BY DEF XOpenDatabase, OpenChecks
<1>2. f \in Files /\ j \in Files /\ f # j /\ p \in Paths
    BY FileFacts
<1>3. ~MayShare(p) => \A g \in Files : Active(g) => Path(g) # p
    BY <1>1, <1>2, FreePath
<1>4. ASSUME NEW g \in Files, g # f
      PROVE  /\ phase'[g] = phase[g]
             /\ Active(g) => g[1] # c /\ Path(g)' = Path(g) /\ database'[g[1]] = database[g[1]]
    <2>1. phase'[g] = phase[g]
        BY <1>1, <1>2, <1>4 DEF TypeOK
    <2>2. Active(g) => g[1] # c
        BY <1>1, <1>4, FileFacts DEF Active, Kinds
    <2>3. g[1] # c => database'[g[1]] = database[g[1]]
        BY <1>1, FileFacts DEF TypeOK
    <2> QED
        BY <2>1, <2>2, <2>3 DEF Path
<1>5. phase'[f] = "checked" /\ Path(f)' = p
    BY <1>1, <1>2 DEF Path, TypeOK
<1> HIDE DEF f, j, p
<1>6. OwnPath'
    BY <1>2, <1>3, <1>4, <1>5 DEF SerialInv, OwnPath, Active
<1>7. Registered'
    BY <1>1, <1>4, <1>5 DEF SerialInv, Registered, Open, Active
<1>8. ASSUME NEW x \in Connections
      PROVE  /\ (Active(<<x, "journal">>) => Open(<<x, "database">>))'
             /\ (Serial(x) /\ HasMapper(<<x, "database">>) => known[x] = log[database[x]])'
             /\ (Serial(x) /\ HasMapper(<<x, "journal">>)
                    => XAccess(<<database[x], "journal">>))'
    <2> DEFINE xf == <<x, "database">>
               xj == <<x, "journal">>
    <2>1. xf \in Files /\ xj \in Files /\ xf[1] = x /\ xj[1] = x /\ xj # f /\ (xf = f <=> x = c)
        BY FileFacts DEF f
    <2>2. phase'[xj] = phase[xj]
        BY <1>4, <2>1
    <2>3. CASE x = c
        <3>1. phase'[xf] = "checked" /\ phase'[xj] = "closed"
            BY <1>1, <1>5, <2>1, <2>2, <2>3 DEF j
        <3> QED
            BY <3>1 DEF Active, HasMapper
    <2>4. CASE x # c
        <3>1. phase'[xf] = phase[xf] /\ database'[x] = database[x]
            BY <1>1, <1>4, <2>1, <2>4 DEF TypeOK
        <3> QED
            BY <1>1, <2>2, <3>1 DEF SerialInv, JournalOfOpen, KnowsTheLog, JournalReported,
                  Active, Open, HasMapper, XAccess, Serial
    <2> QED
        BY <2>3, <2>4
<1> QED
    BY <1>6, <1>7, <1>8 DEF SerialInv, JournalOfOpen, KnowsTheLog, JournalReported

(* The other steps leave the database of every connection alone.           *)
LEMMA SerialOpensJournal ==
    ASSUME TypeOK, SerialInv, NEW c \in Connections, XOpenJournal(c)
    PROVE  SerialInv'
<1> DEFINE f == <<c, "journal">>
           p == <<database[c], "journal">>
<1>1. /\ phase[f] = "closed" /\ Open(<<c, "database">>) /\ MayOpen(p) /\ NotBusy(p)
      /\ phase' = [phase EXCEPT ![f] = "checked"]
      /\ UNCHANGED <<database, gOpenFiles, gJournalPaths, log, known>>
    BY DEF XOpenJournal, OpenChecks
<1>2. f \in Files /\ p \in Paths /\ Path(f) = p
    BY FileFacts DEF TypeOK, Path
<1>3. ~MayShare(p) => \A g \in Files : Active(g) => Path(g) # p
    BY <1>1, <1>2, FreePath
<1>4. \A g \in Files : Path(g)' = Path(g) /\ (g # f => phase'[g] = phase[g])
    BY <1>1, <1>2 DEF Path, TypeOK
<1>5. phase'[f] = "checked"
    BY <1>1, <1>2 DEF TypeOK
<1>6. \A x \in Connections : /\ <<x, "database">> \in Files /\ <<x, "journal">> \in Files
                             /\ <<x, "database">> # f /\ (<<x, "journal">> = f <=> x = c)
    BY FileFacts
<1> HIDE DEF f, p
<1>7. OwnPath'
    BY <1>2, <1>3, <1>4, <1>5 DEF SerialInv, OwnPath, Active
<1>8. Registered'
    BY <1>1, <1>4, <1>5 DEF SerialInv, Registered, Open
<1>9. JournalOfOpen'
    BY <1>1, <1>4, <1>6 DEF SerialInv, JournalOfOpen, Active, Open
<1>10. KnowsTheLog'
    BY <1>1, <1>4, <1>6 DEF SerialInv, KnowsTheLog, HasMapper, Serial
<1>11. JournalReported'
    BY <1>1, <1>4, <1>5, <1>6 DEF SerialInv, JournalReported, HasMapper, XAccess,
          Serial
<1> QED
    BY <1>7, <1>8, <1>9, <1>10, <1>11 DEF SerialInv

LEMMA SerialFileStep ==
    ASSUME TypeOK, SerialInv, NEW f \in Files, FileStep(f)
    PROVE  SerialInv'
<1>1. database' = database /\ log' = log /\ Active(f)
    BY DEF FileStep, XOpenMaps, XOpenFails, XOpenRegisters, XCloseErases, XCloseDestroys,
          Active, Open
<1>2. \A g \in Files : Path(g)' = Path(g) /\ (g # f => phase'[g] = phase[g])
    BY <1>1 DEF FileStep, XOpenMaps, XOpenFails, XOpenRegisters, XCloseErases,
          XCloseDestroys, Path, TypeOK
<1>3. OwnPath'
    BY <1>1, <1>2 DEF SerialInv, OwnPath, Active
<1>4. \A x \in Connections : <<x, "database">> \in Files /\ <<x, "journal">> \in Files
    BY FileFacts
<1>5. Registered'
    <2> SUFFICES ASSUME NEW g \in Files, Open(g)', ~MayShare(Path(g))'
                 PROVE  (gOpenFiles[Path(g)] = g)'
        BY DEF Registered
    <2>4. ~MayShare(Path(g))
        BY <1>2 DEF MayShare
    <2>1. Path(f) \in Paths /\ Path(g) \in Paths
        BY PathType
    <2>2. CASE g = f
        <3>1. XOpenRegisters(f)
            BY <2>2 DEF FileStep, XOpenMaps, XOpenFails, XCloseErases, XCloseDestroys,
                  Open, TypeOK
        <3> QED
            BY <1>2, <2>1, <2>2, <3>1 DEF XOpenRegisters, TypeOK
    <2>3. CASE g # f
        <3>1. Open(g)
            BY <1>2, <2>3 DEF Open
        <3>2. gOpenFiles[Path(g)] = g /\ Path(g) # Path(f)
            BY <1>1, <2>3, <2>4, <3>1 DEF SerialInv, Registered, OwnPath, Open, Active
        <3>3. gOpenFiles'[Path(g)] = gOpenFiles[Path(g)]
            BY <2>1, <3>2 DEF FileStep, XOpenMaps, XOpenFails, XOpenRegisters,
                  XCloseErases, XCloseDestroys, TypeOK
        <3> QED
            BY <1>2, <3>2, <3>3
    <2> QED
        BY <2>2, <2>3
<1>6. ASSUME NEW x \in Connections, Active(<<x, "journal">>)'
      PROVE  Open(<<x, "database">>)'
    <2> DEFINE xf == <<x, "database">>
               xj == <<x, "journal">>
    <2>1. xf \in Files /\ xj \in Files /\ xf # xj /\ xf[1] = x /\ xf[2] = "database"
        BY <1>4
    <2>2. Active(xj)
        BY <1>1, <1>2, <1>6, <2>1 DEF Active
    <2>3. Open(xf)
        BY <2>2 DEF SerialInv, JournalOfOpen
    <2>4. CASE xf # f
        BY <1>2, <2>1, <2>3, <2>4 DEF Open
    <2>5. CASE xf = f
        <3>1. XCloseErases(f)
            BY <2>3, <2>5 DEF FileStep, XOpenMaps, XOpenFails, XOpenRegisters,
                  XCloseDestroys, Open
        <3>2. phase[xj] = "closed"
            BY <2>1, <2>5, <3>1 DEF XCloseErases
        <3> QED
            BY <2>2, <3>2 DEF Active
    <2> QED
        BY <2>4, <2>5
<1>7. ASSUME NEW x \in Connections, Serial(x)', HasMapper(<<x, "database">>)'
      PROVE  (known[x] = log[database[x]])'
    <2> DEFINE xf == <<x, "database">>
    <2>1. xf \in Files /\ xf[1] = x /\ xf[2] = "database"
        BY <1>4
    <2>2. CASE xf = f /\ XOpenMaps(f)
        BY <1>1, <2>1, <2>2 DEF XOpenMaps, TypeOK
    <2>3. CASE ~(xf = f /\ XOpenMaps(f))
        <3>1. known'[x] = known[x]
            <4>1. CASE XOpenMaps(f)
                <5>1. f[1] # x \/ f[2] = "journal"
                    BY <2>3, <4>1, FileFacts DEF Kinds
                <5>2. f[2] = "database" => f[1] # x
                    BY <5>1
                <5> QED
                    BY <4>1, <5>2 DEF XOpenMaps, TypeOK
            <4>2. CASE ~XOpenMaps(f)
                BY <4>2 DEF FileStep, XOpenFails, XOpenRegisters, XCloseErases,
                      XCloseDestroys
            <4> QED
                BY <4>1, <4>2
        <3>2. HasMapper(xf)
            <4>1. CASE xf # f
                BY <1>2, <1>7, <2>1, <4>1 DEF HasMapper
            <4>2. CASE xf = f
                BY <1>7, <2>1, <2>3, <4>2 DEF FileStep, XOpenFails, XOpenRegisters,
                      XCloseErases, XCloseDestroys, HasMapper, Open, TypeOK
            <4> QED
                BY <4>1, <4>2
        <3> QED
            BY <1>1, <1>7, <3>1, <3>2 DEF SerialInv, KnowsTheLog, Serial
    <2> QED
        BY <2>2, <2>3
<1>8. ASSUME NEW x \in Connections, Serial(x)', HasMapper(<<x, "journal">>)'
      PROVE  XAccess(<<database[x], "journal">>)'
    <2> DEFINE xj == <<x, "journal">>
    <2>1. xj \in Files /\ xj[1] = x /\ xj[2] = "journal" /\ Path(xj) = <<database[x], "journal">>
        BY <1>4 DEF Path
    <2>2. gJournalPaths \subseteq gJournalPaths'
        BY DEF FileStep, XOpenMaps, XOpenFails, XOpenRegisters, XCloseErases, XCloseDestroys
    <2>3. CASE xj = f /\ XOpenMaps(f)
        BY <1>1, <2>1, <2>3 DEF XOpenMaps, XAccess
    <2>4. CASE ~(xj = f /\ XOpenMaps(f))
        <3>1. HasMapper(xj)
            <4>1. CASE xj # f
                BY <1>2, <1>8, <2>1, <4>1 DEF HasMapper
            <4>2. CASE xj = f
                BY <1>8, <2>1, <2>4, <4>2 DEF FileStep, XOpenFails, XOpenRegisters,
                      XCloseErases, XCloseDestroys, HasMapper, Open, TypeOK
            <4> QED
                BY <4>1, <4>2
        <3> QED
            BY <1>1, <1>8, <2>2, <3>1 DEF SerialInv, JournalReported, XAccess, Serial
    <2> QED
        BY <2>3, <2>4
<1> QED
    BY <1>3, <1>5, <1>6, <1>7, <1>8 DEF SerialInv, JournalOfOpen, KnowsTheLog, JournalReported

LEMMA SerialSync ==
    ASSUME TypeOK, SerialInv, NEW c \in Connections, XSync(c)
    PROVE  SerialInv'
<1>1. UNCHANGED <<phase, database, gOpenFiles, gJournalPaths>>
    BY DEF XSync
<1>2. OwnPath' /\ Registered' /\ JournalOfOpen' /\ JournalReported'
    BY <1>1 DEF SerialInv, OwnPath, Registered, JournalOfOpen, JournalReported, Active,
          Open, HasMapper, XAccess, Path, Serial
<1>3. ASSUME NEW x \in Connections, Serial(x)', HasMapper(<<x, "database">>)'
      PROVE  (known[x] = log[database[x]])'
    <2>1. HasMapper(<<x, "database">>) /\ known[x] = log[database[x]] /\ Serial(x)
        BY <1>1, <1>3 DEF SerialInv, KnowsTheLog, HasMapper, Serial
    <2>2. CASE x = c
        BY <2>1, <2>2 DEF XSync, TypeOK
    <2>3. CASE x # c
        <3>1. <<x, "database">> \in Files /\ <<c, "database">> \in Files
              /\ <<x, "database">> # <<c, "database">>
            BY <2>3, FileFacts
        <3>2. Active(<<x, "database">>) /\ Active(<<c, "database">>)
            BY <2>1 DEF XSync, Open, HasMapper, Active
        <3>3. Path(<<x, "database">>) # Path(<<c, "database">>)
            BY <2>1, <3>1, <3>2 DEF SerialInv, OwnPath, MayShare, Serial, Path
        <3>4. database[x] # database[c]
            BY <3>3 DEF Path
        <3> QED
            BY <2>1, <2>3, <3>4 DEF XSync, TypeOK
    <2> QED
        BY <2>2, <2>3
<1> QED
    BY <1>2, <1>3 DEF SerialInv, KnowsTheLog

LEMMA SerialDelete ==
    ASSUME TypeOK, SerialInv, NEW c \in Connections, XDelete(c)
    PROVE  SerialInv'
<1>1. UNCHANGED <<phase, database, gOpenFiles, log, known>>
    BY DEF XDelete
<1>2. OwnPath' /\ Registered' /\ JournalOfOpen' /\ KnowsTheLog'
    BY <1>1 DEF SerialInv, OwnPath, Registered, JournalOfOpen, KnowsTheLog, Active,
          Open, HasMapper, Path, Serial
<1>3. ASSUME NEW x \in Connections, Serial(x)', HasMapper(<<x, "journal">>)'
      PROVE  XAccess(<<database[x], "journal">>)'
    <2>1. HasMapper(<<x, "journal">>) /\ XAccess(<<database[x], "journal">>) /\ Serial(x)
        BY <1>1, <1>3 DEF SerialInv, JournalReported, HasMapper, Serial
    <2>2. x # c
        BY <2>1 DEF XDelete, HasMapper
    <2>3. Open(<<x, "database">>) /\ Open(<<c, "database">>)
        BY <2>1 DEF SerialInv, JournalOfOpen, XDelete, HasMapper, Active
    <2>4. <<x, "database">> \in Files /\ <<c, "database">> \in Files
          /\ <<x, "database">> # <<c, "database">>
        BY <2>2, FileFacts
    <2>5. Path(<<x, "database">>) # Path(<<c, "database">>)
        BY <2>1, <2>3, <2>4 DEF SerialInv, OwnPath, Open, Active, MayShare, Serial, Path
    <2>6. database[x] # database[c]
        BY <2>5 DEF Path
    <2> QED
        BY <1>1, <2>1, <2>6 DEF XDelete, XAccess
<1> QED
    BY <1>2, <1>3 DEF SerialInv, JournalReported

LEMMA SerialStep == TypeOK /\ SerialInv /\ [Next]_vars => SerialInv'
<1> SUFFICES ASSUME TypeOK, SerialInv, [Next]_vars
             PROVE  SerialInv'
    OBVIOUS
<1>1. ASSUME NEW c \in Connections, NEW d \in Databases, XOpenDatabase(c, d)
      PROVE  SerialInv'
    BY <1>1, SerialOpensDatabase
<1>2. ASSUME NEW c \in Connections, XOpenJournal(c)
      PROVE  SerialInv'
    BY <1>2, SerialOpensJournal
<1>3. ASSUME NEW c \in Connections, XSync(c) \/ XDelete(c)
      PROVE  SerialInv'
    BY <1>3, SerialSync, SerialDelete
<1>4. ASSUME NEW f \in Files, FileStep(f)
      PROVE  SerialInv'
    BY <1>4, SerialFileStep
<1>5. CASE UNCHANGED vars
    BY <1>5 DEF vars, SerialInv, OwnPath, Registered, JournalOfOpen, KnowsTheLog,
          JournalReported, Active, Open, HasMapper, XAccess, Path, Serial
<1> QED
    BY <1>1, <1>2, <1>3, <1>4, <1>5 DEF Next

LEMMA SerialInit == Init => SerialInv
<1> SUFFICES ASSUME Init
             PROVE  SerialInv
    OBVIOUS
<1>1. \A f \in Files : phase[f] = "closed"
    BY DEF Init
<1> QED
    BY <1>1, FileFacts DEF SerialInv, OwnPath, Registered, JournalOfOpen, KnowsTheLog,
          JournalReported, Active, Open, HasMapper

LEMMA SerialAlways == Spec => []SerialInv
    BY SerialStep, TypeInit, TypeStep, SerialInit, PTL DEF Spec

(* A database of which no xOpen runs between the steps of another xOpen or *)
(* xClose has one live mapper, whatever the connections of other databases *)
(* do.                                                                     *)
THEOREM SerialOwner == Spec => []ExclusiveOwner
<1>1. SerialInv => ExclusiveOwner
    BY DEF SerialInv, OwnPath, ExclusiveOwner, Active, HasMapper, MayShare, Serial, Path
<1> QED
    BY <1>1, SerialAlways, PTL

(* The one mapper of such a database has every batch that is in its log    *)
(* (batches are appended through it alone, and it began with those that    *)
(* were there).                                                            *)
THEOREM OwnerKnowsTheLog == Spec => []KnowsTheLog
<1>1. SerialInv => KnowsTheLog
    BY DEF SerialInv
<1> QED
    BY <1>1, SerialAlways, PTL

(* While a connection of such a database has its journal open, xAccess     *)
(* reports that journal: no other connection's close or delete removed it  *)
(* from the registry.                                                      *)
THEOREM OpenJournalReported == Spec => []JournalReported
<1>1. SerialInv => JournalReported
    BY DEF SerialInv
<1> QED
    BY <1>1, SerialAlways, PTL
=============================================================================
