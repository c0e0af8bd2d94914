--------------------------- MODULE CatalogProofs ---------------------------
(***************************************************************************)
(* Proofs about Catalog, for every set of table ids, of handles and of     *)
(* records, and every size of the plugin registry.                         *)
(*                                                                         *)
(* CatInv is inductive.  Its parts say how the registry keeps a plugin at  *)
(* the ids of its kind, what the disk holds, which thread holds which      *)
(* directory, and, for an application that is not careless, that it and    *)
(* the redoer never have their hands on the same table.                    *)
(***************************************************************************)
EXTENDS Catalog, TLAPS

(***************************************************************************)
(* The inductive invariant                                                 *)
(***************************************************************************)
\* The kind that nldb_init adds at an id: it adds the three kinds in one order,
\* from an id that is a multiple of three.
KindAt(i) == CASE i % 3 = 0 -> "leveldb" [] i % 3 = 1 -> "array_tree" [] i % 3 = 2 -> "tc"

Registry == [plugins : [0 .. MaxPlugins - 1 -> Kinds \cup {NoPlugin}],
             next : 0 .. MaxPlugins, ids : [Kinds -> 0 .. MaxPlugins - 1]]
Handle == [table : TableIds \cup {0}, kind : Kinds \cup {"none"}, asked : Kinds \cup {"none"}]
Thread == [at : {"idle", "created", "meta_put"}, table : TableIds \cup {0},
           kind : Kinds \cup {"none"}, id : 0 .. MaxPlugins - 1]
Redoer == [at : {"none", "idle", "open"}, table : TableIds \cup {0},
           id : 0 .. MaxPlugins - 1, db : BOOLEAN]
Meta == [TableIds -> NoEntry .. MaxPlugins - 1]
Dirs == [TableIds -> (SUBSET Records) \cup {NoDir}]
Faults == {"none", "locked", "null_plugin", "null_table", "use_after_close"}

DiskTypes == (meta = NoDir \/ meta \in Meta) /\ dirs \in Dirs
SystemTypes == reg \in Registry /\ inits \in 0 .. MaxInits
ProcessTypes ==
  /\ locks \subseteq TableIds \cup {META_TABLE_ID}
  /\ db \in BOOLEAN
  /\ handles \in [Handles -> Handle]
ThreadTypes == app \in Thread /\ redo \in Redoer /\ fault \in Faults
HistoryTypes ==
  /\ asked \in [TableIds -> Kinds \cup {"none"}]
  /\ stored \in [TableIds -> SUBSET Records]
  /\ careless \in BOOLEAN
Types == DiskTypes /\ SystemTypes /\ ProcessTypes /\ ThreadTypes /\ HistoryTypes

\* Every plugin is at an id of its kind, and the id of a kind leads to it, except
\* before the first nldb_init, when every id leads to no plugin.
PluginsPlaced(r) ==
  /\ \A i \in 0 .. MaxPlugins - 1 : r.plugins[i] \in {NoPlugin, KindAt(i)}
  /\ r.next < MaxPlugins => r.next % 3 = 0
  /\ \/ r.next = 0 /\ \A i \in 0 .. MaxPlugins - 1 : r.plugins[i] = NoPlugin
     \/ \A k \in Kinds : KindAt(r.ids[k]) = k

RegistryInv == PluginsPlaced(reg)

\* The catalog says for each table the kind that was asked for, and a persistent
\* table in it has a directory, which holds what was stored.
DiskInv ==
  /\ \A t \in TableIds : InCatalog(t) => asked[t] = KindAt(meta[t])
  /\ CatalogBacked
  /\ RecordsSurvive

\* What is open: handles, the database under them, and the table being created.
OpenInv ==
  /\ db => meta \in Meta /\ meta # NoDir
  /\ redo.db => db
  /\ \A h \in Handles :
       /\ handles[h].table = 0 => handles[h] = Closed /\ handles[h].kind = "none"
       /\ handles[h].kind = "leveldb" => dirs[handles[h].table] # NoDir
  /\ \A t \in TableIds : handles[<<"redo", t>>].table \in {0, t}
  /\ redo.at = "open" =>
       redo.table \in TableIds /\ handles[<<"redo", redo.table>>].table = 0
  /\ app.at # "idle" =>
       /\ db
       /\ app.table \in TableIds
       /\ app.kind = KindAt(app.id)
       /\ app.kind = "leveldb" => dirs[app.table] # NoDir

HasOpen(h, t) == handles[h].kind = "leveldb" /\ handles[h].table = t
Creating(t) == app.at = "created" /\ app.table = t

\* A directory is locked by exactly one of its users.
LockInv ==
  /\ META_TABLE_ID \in locks <=> db
  /\ \A t \in TableIds : t \in locks <=> Creating(t) \/ \E h \in Handles : HasOpen(h, t)
  /\ \A t \in TableIds, g \in Handles, h \in Handles :
       HasOpen(g, t) /\ HasOpen(h, t) => g = h
  /\ \A t \in TableIds, h \in Handles : ~(Creating(t) /\ HasOpen(h, t))

\* While the application is careful, a table the redoer has or may open is not in
\* the application's hands, and the redoer opens it with the plugin it was made by.
CareInv ==
  /\ fault = "locked" => careless
  /\ ~careless =>
       /\ redo.db => \A a \in AppHandles : handles[<<"app", a>>].table = 0
       /\ redo.db /\ app.at # "idle" => meta[app.table] = NoEntry
       /\ redo.at = "open" =>
            /\ \A a \in AppHandles : handles[<<"app", a>>].table # redo.table
            /\ app.at # "idle" => app.table # redo.table
            /\ asked[redo.table] = KindAt(redo.id)
       /\ \A h \in Handles : handles[h].table # 0 => handles[h].kind = handles[h].asked

CatInv == Types /\ RegistryInv /\ DiskInv /\ OpenInv /\ LockInv /\ CareInv

-----------------------------------------------------------------------------
(***************************************************************************)
(* The registry and the constants                                          *)
(***************************************************************************)
\* What nldb_plugin_add does to a registry with a slot left.
LEMMA AddPluginFacts ==
  ASSUME NEW r \in Registry, NEW kind \in Kinds
  PROVE  LET s == AddPlugin(r, kind) IN
           /\ s \in Registry
           /\ r.next >= MaxPlugins => s = r
           /\ r.next < MaxPlugins =>
                /\ s.next = r.next + 1
                /\ s.ids[kind] = r.next
                /\ \A k \in Kinds \ {kind} : s.ids[k] = r.ids[k]
                /\ s.plugins[r.next] = kind
                /\ \A i \in 0 .. MaxPlugins - 1 : i # r.next => s.plugins[i] = r.plugins[i]
BY MaxPluginsAssumption DEF AddPlugin, Registry

\* nldb_init keeps the kinds apart, whether it finds three slots or fewer.
LEMMA InitPlaces ==
  ASSUME NEW r \in Registry, PluginsPlaced(r)
  PROVE  LET s == AddPlugin(AddPlugin(AddPlugin(r, "leveldb"), "array_tree"), "tc") IN
           s \in Registry /\ PluginsPlaced(s)
<1>  DEFINE r1 == AddPlugin(r, "leveldb")
            r2 == AddPlugin(r1, "array_tree")
            r3 == AddPlugin(r2, "tc")
<1>  SUFFICES r3 \in Registry /\ PluginsPlaced(r3)
  OBVIOUS
<1>k. {"leveldb", "array_tree", "tc"} \subseteq Kinds
  BY DEF Kinds
<1>1. r1 \in Registry /\ r2 \in Registry /\ r3 \in Registry
  BY AddPluginFacts, <1>k
<1>n. r.next \in Nat /\ r.next <= MaxPlugins /\ r.ids \in [Kinds -> 0 .. MaxPlugins - 1]
  BY MaxPluginsAssumption DEF Registry
<1>2. CASE r.next >= MaxPlugins
  <2>1. r3 = r
    BY AddPluginFacts, <1>1, <1>2, <1>k
  <2>  QED
    BY <2>1, <1>1
<1>3. CASE r.next < MaxPlugins
  <2>  DEFINE n == r.next
  <2>1. n % 3 = 0
    BY <1>3 DEF PluginsPlaced
  <2>2. KindAt(n) = "leveldb" /\ KindAt(n + 1) = "array_tree" /\ KindAt(n + 2) = "tc"
    BY <2>1, <1>n DEF KindAt
  <2>3. /\ r1.next = n + 1 /\ r1.ids["leveldb"] = n
        /\ r1.ids["array_tree"] = r.ids["array_tree"] /\ r1.ids["tc"] = r.ids["tc"]
        /\ r1.plugins[n] = "leveldb"
        /\ \A i \in 0 .. MaxPlugins - 1 : i # n => r1.plugins[i] = r.plugins[i]
    BY <1>3, <1>k, AddPluginFacts
  <2>  HIDE DEF r1
  <2>4. CASE n + 1 >= MaxPlugins
    <3>1. r3 = r1
      BY <2>3, <2>4, <1>1, <1>k, <1>n, AddPluginFacts
    <3>2. n # 0
      BY <2>4, MaxPluginsAssumption
    <3>3. \A k \in Kinds : KindAt(r1.ids[k]) = k
      BY <3>2, <2>2, <2>3 DEF PluginsPlaced, Kinds
    <3>4. r1.next >= MaxPlugins
      BY <2>3, <2>4
    <3>  HIDE DEF r3, n
    <3>5. \A i \in 0 .. MaxPlugins - 1 : r1.plugins[i] \in {NoPlugin, KindAt(i)}
      BY <2>2, <2>3 DEF PluginsPlaced
    <3>  QED
      BY <3>1, <3>3, <3>4, <3>5, <1>1, MaxPluginsAssumption
         DEF PluginsPlaced, Registry
  <2>5. CASE n + 1 < MaxPlugins
    <3>1. /\ r2.next = n + 2 /\ r2.ids["array_tree"] = n + 1
          /\ r2.ids["leveldb"] = n /\ r2.ids["tc"] = r.ids["tc"]
          /\ r2.plugins[n + 1] = "array_tree"
          /\ \A i \in 0 .. MaxPlugins - 1 : i # n + 1 => r2.plugins[i] = r1.plugins[i]
      BY <2>3, <2>5, <1>1, <1>k, <1>n, AddPluginFacts
    <3>  HIDE DEF r2
    <3>2. CASE n + 2 >= MaxPlugins
      <4>1. r3 = r2
        BY <3>1, <3>2, <1>1, <1>k, <1>n, AddPluginFacts
      <4>2. n # 0
        BY <3>2, MaxPluginsAssumption
      <4>3. \A k \in Kinds : KindAt(r2.ids[k]) = k
        BY <4>2, <2>2, <3>1 DEF PluginsPlaced, Kinds
      <4>4. r2.next >= MaxPlugins
        BY <3>1, <3>2
      <4>  HIDE DEF r3, n
      <4>5. \A i \in 0 .. MaxPlugins - 1 : r2.plugins[i] \in {NoPlugin, KindAt(i)}
        BY <2>2, <2>3, <3>1 DEF PluginsPlaced
      <4>  QED
        BY <4>1, <4>3, <4>4, <4>5, <1>1, MaxPluginsAssumption
           DEF PluginsPlaced, Registry
    <3>3. CASE n + 2 < MaxPlugins
      <4>1. /\ r3.next = n + 3 /\ r3.ids["tc"] = n + 2
            /\ r3.ids["leveldb"] = n /\ r3.ids["array_tree"] = n + 1
            /\ r3.plugins[n + 2] = "tc"
            /\ \A i \in 0 .. MaxPlugins - 1 : i # n + 2 => r3.plugins[i] = r2.plugins[i]
        BY <3>1, <3>3, <1>1, <1>k, <1>n, AddPluginFacts
      <4>  HIDE DEF r3
      <4>2. \A k \in Kinds : KindAt(r3.ids[k]) = k
        BY <4>1, <2>2 DEF Kinds
      <4>3. r3.next % 3 = 0
        BY <4>1, <2>1, <1>n
      <4>  HIDE DEF n
      <4>4. \A i \in 0 .. MaxPlugins - 1 : r3.plugins[i] \in {NoPlugin, KindAt(i)}
        BY <2>2, <2>3, <3>1, <4>1 DEF PluginsPlaced
      <4>  QED
        BY <4>2, <4>3, <4>4, <1>1 DEF PluginsPlaced
    <3>  QED
      BY <3>2, <3>3, <1>n, MaxPluginsAssumption
  <2>  QED
    BY <2>4, <2>5, <1>n, MaxPluginsAssumption
<1>  QED
  BY <1>2, <1>3, <1>n, MaxPluginsAssumption

-----------------------------------------------------------------------------
(***************************************************************************)
(* One lemma per action                                                    *)
(***************************************************************************)
\* Where the threads and the handles begin.
LEMMA Records0 ==
  /\ [at |-> "idle", table |-> 0, id |-> 0, db |-> TRUE] \in Redoer
  /\ NoThread \in Redoer /\ Idle \in Thread /\ Closed \in Handle /\ NoRegistry \in Registry
<1>1. 0 \in 0 .. MaxPlugins - 1 /\ 0 \in 0 .. MaxPlugins
  BY MaxPluginsAssumption
<1>2. NoThread \in Redoer /\ [at |-> "idle", table |-> 0, id |-> 0, db |-> TRUE] \in Redoer
  BY <1>1 DEF NoThread, Redoer
<1>3. Idle \in Thread /\ Closed \in Handle
  BY <1>1 DEF Idle, Thread, Closed, Handle
<1>4. NoRegistry \in Registry
  BY <1>1 DEF NoRegistry, Registry
<1>  QED
  BY <1>2, <1>3, <1>4

\* What a step that leaves some of the state alone keeps.
LEMMA Frames ==
  /\ RegistryInv /\ UNCHANGED reg => RegistryInv'
  /\ DiskInv /\ UNCHANGED <<meta, dirs, asked, stored>> => DiskInv'
  /\ OpenInv /\ UNCHANGED <<meta, dirs, db, handles, app, redo>> => OpenInv'
  /\ LockInv /\ UNCHANGED <<locks, db, handles, app>> => LockInv'
  /\ CareInv /\ UNCHANGED <<meta, handles, app, redo, fault, asked, careless>> => CareInv'
<1>1. RegistryInv /\ UNCHANGED reg => RegistryInv'
  BY DEF RegistryInv
<1>2. DiskInv /\ UNCHANGED <<meta, dirs, asked, stored>> => DiskInv'
  BY DEF DiskInv, CatalogBacked, RecordsSurvive, InCatalog
<1>3. OpenInv /\ UNCHANGED <<meta, dirs, db, handles, app, redo>> => OpenInv'
  BY DEF OpenInv
<1>4. LockInv /\ UNCHANGED <<locks, db, handles, app>> => LockInv'
  BY DEF LockInv, HasOpen, Creating
<1>5. CareInv /\ UNCHANGED <<meta, handles, app, redo, fault, asked,
                             careless>> => CareInv'
  BY DEF CareInv
<1>  QED
  BY <1>1, <1>2, <1>3, <1>4, <1>5

\* nldb_init
LEMMA InitSystemCat ==
  ASSUME CatInv, InitSystem
  PROVE  CatInv'
<1>  USE DEF CatInv, InitSystem, disk, system, process, history
<1>1. Types'
  BY InitPlaces, MaxInitsAssumption
     DEF RegistryInv, Types, DiskTypes, SystemTypes, ProcessTypes, ThreadTypes,
         HistoryTypes
<1>2. RegistryInv'
  BY InitPlaces DEF RegistryInv, Types, SystemTypes
<1>3. DiskInv'
  BY Frames
<1>4. OpenInv'
  BY Frames
<1>5. LockInv'
  BY Frames
<1>6. CareInv'
  BY Frames
<1>  QED
  BY <1>1, <1>2, <1>3, <1>4, <1>5, <1>6

\* nldb_destroy
LEMMA DestroySystemCat ==
  ASSUME CatInv, DestroySystem
  PROVE  CatInv'
<1>  USE DEF CatInv, DestroySystem, disk, system, process, history
<1>1. Types'
  <2>1. reg' \in Registry
    BY MaxPluginsAssumption DEF Registry, Types, SystemTypes
  <2>  QED
    BY <2>1, MaxInitsAssumption
       DEF Types, DiskTypes, SystemTypes, ProcessTypes, ThreadTypes, HistoryTypes
<1>2. RegistryInv'
  BY MaxPluginsAssumption DEF RegistryInv, PluginsPlaced
<1>3. DiskInv'
  BY Frames
<1>4. OpenInv'
  BY Frames
<1>5. LockInv'
  BY Frames
<1>6. CareInv'
  BY Frames
<1>  QED
  BY <1>1, <1>2, <1>3, <1>4, <1>5, <1>6

\* nldb_db_create
LEMMA CreateDbCat ==
  ASSUME CatInv, CreateDb
  PROVE  CatInv'
<1>  USE DEF CatInv, CreateDb, Fail, MetaExists, LocksAfterProbe, AppReady,
             Running, disk, system, process, history
<1>1. Types'
  BY MaxPluginsAssumption
     DEF Meta, NoEntry, Faults, Types, DiskTypes, SystemTypes, ProcessTypes,
         ThreadTypes, HistoryTypes
<1>2. RegistryInv'
  BY Frames
<1>3. DiskInv'
  BY NoDirAssumption DEF DiskInv, CatalogBacked, RecordsSurvive, InCatalog
<1>4. OpenInv'
  BY NoDirAssumption DEF OpenInv
<1>5. LockInv'
  BY Frames
<1>6. CareInv'
  BY DEF LockInv, OpenInv, CareInv
<1>  QED
  BY <1>1, <1>2, <1>3, <1>4, <1>5, <1>6

\* nldb_db_drop
LEMMA DropDbCat ==
  ASSUME CatInv, DropDb
  PROVE  CatInv'
<1>  USE DEF CatInv, DropDb, MetaExists, LocksAfterProbe, AppReady, Running,
             disk, system, process, history
<1>1. Types'
  BY DEF Types, DiskTypes, SystemTypes, ProcessTypes, ThreadTypes, HistoryTypes
<1>2. RegistryInv'
  BY Frames
<1>3. DiskInv'
  BY DEF DiskInv, CatalogBacked, RecordsSurvive, InCatalog
<1>4. OpenInv'
  BY DEF LockInv, OpenInv
<1>5. LockInv'
  BY Frames
<1>6. CareInv'
  BY DEF LockInv, OpenInv, CareInv
<1>  QED
  BY <1>1, <1>2, <1>3, <1>4, <1>5, <1>6

\* nldb_db_close
LEMMA CloseDbCat ==
  ASSUME CatInv, CloseDb
  PROVE  CatInv'
<1>  USE DEF CatInv, CloseDb, AppReady, Running, disk, system, process, history
<1>1. Types'
  BY TableIdsAssumption
     DEF Redoer, Types, DiskTypes, SystemTypes, ProcessTypes, ThreadTypes,
         HistoryTypes
<1>2. RegistryInv'
  BY Frames
<1>3. DiskInv'
  BY Frames
<1>4. OpenInv'
  BY DEF Idle, OpenInv
<1>5. LockInv'
  BY TableIdsAssumption DEF META_TABLE_ID, LockInv, HasOpen, Creating
<1>6. CareInv'
  BY DEF CareInv
<1>  QED
  BY <1>1, <1>2, <1>3, <1>4, <1>5, <1>6

\* nldb_db_open
LEMMA OpenDbCat ==
  ASSUME NEW slave \in BOOLEAN, CatInv, OpenDb(slave)
  PROVE  CatInv'
<1>  USE DEF CatInv, OpenDb, MetaExists, LocksAfterProbe, NoThread, AppReady,
             Running, disk, system, process, history
<1>1. Types'
  <2>1. redo' \in {redo, [at |-> "idle", table |-> 0, id |-> 0, db |-> TRUE]}
    OBVIOUS
  <2>2. redo' \in Redoer
    BY <2>1, Records0 DEF Types, ThreadTypes
  <2>3. locks' \subseteq TableIds \cup {META_TABLE_ID} /\ db' \in BOOLEAN /\ careless' \in BOOLEAN
    BY DEF Types, ProcessTypes, HistoryTypes
  <2>  QED
    BY <2>2, <2>3
       DEF Types, DiskTypes, SystemTypes, ProcessTypes, ThreadTypes, HistoryTypes
<1>2. RegistryInv'
  BY Frames
<1>3. DiskInv'
  BY Frames
<1>4. OpenInv'
  BY DEF OpenInv, Types, DiskTypes
<1>5. LockInv'
  BY TableIdsAssumption DEF META_TABLE_ID, LockInv, HasOpen, Creating
<1>6. CareInv'
  BY DEF Idle, AppTables, CareInv
<1>  QED
  BY <1>1, <1>2, <1>3, <1>4, <1>5, <1>6

\* A step that stops the process: only a locked directory needs a careless user.
LEMMA FailCat ==
  ASSUME CatInv, NEW why \in Faults \ {"none"}, Fail(why), careless' \in BOOLEAN,
         careless => careless', why = "locked" => careless'
  PROVE  CatInv'
<1>  USE DEF CatInv, Fail, disk, system, process, history
<1>1. Types'
  BY DEF Types, DiskTypes, SystemTypes, ProcessTypes, ThreadTypes, HistoryTypes
<1>2. CareInv'
  BY DEF CareInv
<1>  QED
  BY <1>1, <1>2, Frames

\* The plugin that nldb_table_create finds is the one of the kind asked for.
LEMMA PluginOfKind ==
  ASSUME CatInv, NEW kind \in Kinds, reg.plugins[reg.ids[kind]] # NoPlugin
  PROVE  /\ reg.ids[kind] \in 0 .. MaxPlugins - 1
         /\ reg.plugins[reg.ids[kind]] = kind
         /\ KindAt(reg.ids[kind]) = kind
BY DEF CatInv, Types, SystemTypes, Registry, RegistryInv, PluginsPlaced

\* A directory that is locked while the application is between two calls belongs to
\* an open table.
LEMMA LockedIsOpen ==
  ASSUME CatInv, app = Idle, NEW t \in TableIds, t \in locks
  PROVE  t \in OpenTables
<1>1. PICK h \in Handles : HasOpen(h, t)
  BY DEF CatInv, LockInv, Creating, Idle
<1>  QED
  BY <1>1, TableIdsAssumption DEF HasOpen, OpenTables

\* The first step of nldb_table_create.
LEMMA CreateTableCat ==
  ASSUME NEW t \in TableIds, NEW kind \in Kinds, CatInv, CreateTable(t, kind)
  PROVE  CatInv'
<1>  DEFINE plugin == reg.plugins[reg.ids[kind]]
<1>1. careless' = (careless \/ t \in OpenTables \/ RedoerMayUse(t)) /\ Running /\ app = Idle /\ db
  BY DEF CreateTable, AppReady
<1>2. careless' \in BOOLEAN /\ (careless => careless')
  BY <1>1
<1>3. CASE plugin = NoPlugin
  <2>1. Fail("null_plugin")
    BY <1>3 DEF CreateTable, NoPlugin
  <2>  QED
    BY <2>1, <1>2, FailCat DEF Faults
<1>4. CASE plugin = "leveldb" /\ t \in locks
  <2>1. Fail("locked")
    BY <1>4 DEF CreateTable
  <2>2. careless'
    BY <1>1, <1>4, LockedIsOpen
  <2>  QED
    BY <2>1, <2>2, <1>2, FailCat DEF Faults
<1>5. CASE plugin # NoPlugin /\ ~(plugin = "leveldb" /\ t \in locks)
  <2>0. /\ reg.ids[kind] \in 0 .. MaxPlugins - 1 /\ plugin = kind
        /\ KindAt(reg.ids[kind]) = kind
    BY <1>5, PluginOfKind
  <2>1. CASE plugin = "leveldb"
    <3>1. /\ app' = [at |-> "created", table |-> t, kind |-> kind, id |-> reg.ids[kind]]
          /\ dirs' = [dirs EXCEPT ![t] = Created(@)]
          /\ locks' = locks \cup {t}
          /\ UNCHANGED <<meta, reg, inits, db, handles, redo, fault, asked, stored>>
      BY <1>5, <2>1 DEF CreateTable, system
    <3>2. dirs' \in Dirs /\ \A u \in TableIds : dirs[u] # NoDir => dirs'[u] = dirs[u]
      BY <3>1 DEF Dirs, Created, CatInv, Types, DiskTypes
    <3>3. dirs'[t] # NoDir
      BY <3>1, NoDirAssumption DEF Dirs, Created, CatInv, Types, DiskTypes
    <3>4. app' \in Thread
      BY <3>1, <2>0 DEF Thread
    <3>5. Types'
      BY <3>1, <3>2, <3>4, <1>2
         DEF CatInv, Types, DiskTypes, SystemTypes, ProcessTypes, ThreadTypes,
             HistoryTypes
    <3>6. DiskInv'
      BY <3>1, <3>2, <3>3
         DEF CatInv, DiskInv, CatalogBacked, RecordsSurvive, InCatalog
    <3>7. OpenInv'
      BY <3>1, <3>2, <3>3, <2>0, <1>1 DEF CatInv, OpenInv
    <3>8. LockInv'
      <4>1. /\ t \notin locks /\ t # META_TABLE_ID /\ app.at # "created"
            /\ app'.at = "created" /\ app'.table = t
        BY <3>1, <1>1, <1>5, <2>1, TableIdsAssumption DEF Idle, META_TABLE_ID
      <4>2. \A u \in TableIds : ~Creating(u) /\ (Creating(u)' <=> u = t)
        BY <4>1 DEF Creating
      <4>3. \A u \in TableIds, h \in Handles : HasOpen(h, u)' <=> HasOpen(h, u)
        BY <3>1 DEF HasOpen
      <4>  HIDE DEF plugin
      <4>  QED
        BY <3>1, <4>1, <4>2, <4>3 DEF CatInv, LockInv
    <3>9. CareInv'
      BY <3>1, <1>1, <1>2 DEF CatInv, CareInv, RedoerMayUse
    <3>  QED
      BY <3>1, <3>5, <3>6, <3>7, <3>8, <3>9, Frames DEF CatInv
  <2>2. CASE plugin # "leveldb"
    <3>1. /\ app' = [at |-> "meta_put", table |-> t, kind |-> kind, id |-> reg.ids[kind]]
          /\ UNCHANGED <<meta, dirs, reg, inits, locks, db, handles, redo,
                         fault, asked, stored>>
      BY <1>5, <2>2 DEF CreateTable, system, disk, process
    <3>4. app' \in Thread
      BY <3>1, <2>0 DEF Thread
    <3>5. Types'
      BY <3>1, <3>4, <1>2
         DEF CatInv, Types, DiskTypes, SystemTypes, ProcessTypes, ThreadTypes,
             HistoryTypes
    <3>7. OpenInv'
      BY <3>1, <2>0, <2>2, <1>1 DEF CatInv, OpenInv
    <3>8. LockInv'
      BY <3>1, <1>1 DEF CatInv, LockInv, HasOpen, Creating, Idle
    <3>9. CareInv'
      BY <3>1, <1>1, <1>2 DEF CatInv, CareInv, RedoerMayUse
    <3>  QED
      BY <3>1, <3>5, <3>7, <3>8, <3>9, Frames DEF CatInv
  <2>  QED
    BY <2>1, <2>2
<1>  QED
  BY <1>3, <1>4, <1>5

\* table_create of the LevelDB plugin deletes the leveldb::DB.
LEMMA CloseCreatedCat ==
  ASSUME CatInv, CloseCreated
  PROVE  CatInv'
<1>  USE DEF CatInv, CloseCreated, Running, disk, system, process, history
<1>1. Types'
  BY DEF Thread, Types, DiskTypes, SystemTypes, ProcessTypes, ThreadTypes,
         HistoryTypes
<1>2. RegistryInv'
  BY Frames
<1>3. DiskInv'
  BY Frames
<1>4. OpenInv'
  BY DEF OpenInv
<1>5. LockInv'
  BY TableIdsAssumption DEF OpenInv, META_TABLE_ID, LockInv, HasOpen, Creating
<1>6. CareInv'
  BY DEF CareInv
<1>  QED
  BY <1>1, <1>2, <1>3, <1>4, <1>5, <1>6

\* meta_put
LEMMA MetaPutCat ==
  ASSUME CatInv, MetaPut
  PROVE  CatInv'
<1>  USE DEF CatInv, MetaPut, Running, disk, system, process, history
<1>1. Types'
  <2>1. meta' \in Meta
    BY MaxPluginsAssumption DEF Meta, Types, ThreadTypes, Thread, OpenInv, NoEntry
  <2>2. asked' \in [TableIds -> Kinds \cup {"none"}]
    BY DEF Types, HistoryTypes, ThreadTypes, Thread
  <2>  QED
    BY <2>1, <2>2, Records0
       DEF Types, DiskTypes, SystemTypes, ProcessTypes, ThreadTypes, HistoryTypes
<1>2. RegistryInv'
  BY Frames
<1>3. DiskInv'
  BY DEF OpenInv, Meta, DiskInv, CatalogBacked, RecordsSurvive, InCatalog, Types,
         HistoryTypes
<1>4. OpenInv'
  <2>1. meta' \in Meta /\ meta' # NoDir
    BY NoDirAssumption, MaxPluginsAssumption
       DEF Meta, Types, ThreadTypes, Thread, OpenInv, NoEntry
  <2>  QED
    BY <2>1 DEF OpenInv, Idle
<1>5. LockInv'
  BY DEF Idle, LockInv, HasOpen, Creating
<1>6. CareInv'
  BY DEF Idle, CareInv
<1>  QED
  BY <1>1, <1>2, <1>3, <1>4, <1>5, <1>6

\* nldb_table_drop
LEMMA DropTableCat ==
  ASSUME NEW t \in TableIds, CatInv, DropTable(t)
  PROVE  CatInv'
<1>  USE DEF CatInv, DropTable, AppReady, Running, disk, system, process, history
<1>1. Types'
  <2>1. meta' \in Meta
    BY MaxPluginsAssumption DEF Meta, OpenInv, NoEntry
  <2>  QED
    BY <2>1
       DEF Types, DiskTypes, SystemTypes, ProcessTypes, ThreadTypes, HistoryTypes
<1>2. RegistryInv'
  BY Frames
<1>3. DiskInv'
  BY DEF OpenInv, DiskInv, CatalogBacked, RecordsSurvive, InCatalog
<1>4. OpenInv'
  BY <1>1, NoDirAssumption, MaxPluginsAssumption DEF Meta, NoEntry, OpenInv
<1>5. LockInv'
  BY Frames
<1>6. CareInv'
  BY DEF CareInv
<1>  QED
  BY <1>1, <1>2, <1>3, <1>4, <1>5, <1>6

\* table_open of a plugin, by the application or by the redoer.
LEMMA PluginOpenCat ==
  ASSUME CatInv, Running, careless' \in BOOLEAN, careless => careless',
         NEW h \in Handles, NEW t \in TableIds, NEW id \in 0 .. MaxPlugins - 1,
         handles[h].table = 0,
         PluginOpen(h, t, id),
         \/ h[1] = "app" /\ h[2] \in AppHandles /\ app = Idle
         \/ h = <<"redo", t>> /\ redo.at = "open" /\ redo.table = t,
         ~careless' =>
           /\ t \notin locks
           /\ asked[t] = KindAt(id)
           /\ h[1] = "app" => ~redo.db /\ ~(redo.at = "open" /\ redo.table = t)
  PROVE  CatInv'
<1>  DEFINE plugin == reg.plugins[id]
            opened == [table |-> t, kind |-> plugin, asked |-> asked[t]]
<1>1. CASE plugin = NoPlugin
  BY <1>1, FailCat DEF PluginOpen, Faults
<1>2. CASE plugin = "leveldb" /\ t \in locks
  BY <1>2, FailCat DEF PluginOpen, Faults
<1>3. CASE plugin # NoPlugin /\ ~(plugin = "leveldb" /\ t \in locks)
  <2>1. /\ handles' = [handles EXCEPT ![h] = opened]
        /\ dirs' = IF plugin = "leveldb" THEN [dirs EXCEPT ![t] = Created(@)] ELSE dirs
        /\ locks' = IF plugin = "leveldb" THEN locks \cup {t} ELSE locks
        /\ redo' = IF h[1] = "redo" THEN [redo EXCEPT !.at = "idle"] ELSE redo
        /\ UNCHANGED <<meta, reg, inits, db, app, fault, asked, stored>>
    BY <1>3 DEF PluginOpen, system
  <2>2. plugin \in Kinds /\ plugin = KindAt(id)
    BY <1>3 DEF CatInv, Types, SystemTypes, Registry, RegistryInv, PluginsPlaced
  <2>3. opened \in Handle /\ opened.table = t /\ opened.kind = plugin
    BY <2>2 DEF Handle, CatInv, Types, HistoryTypes
  <2>  HIDE DEF opened, plugin
  <2>4. handles' \in [Handles -> Handle] /\ handles'[h] = opened
        /\ \A g \in Handles : g # h => handles'[g] = handles[g]
    BY <2>1, <2>3 DEF CatInv, Types, ProcessTypes
  <2>5. dirs' \in Dirs /\ \A u \in TableIds : dirs[u] # NoDir => dirs'[u] = dirs[u]
    BY <2>1 DEF Dirs, Created, CatInv, Types, DiskTypes
  <2>6. \A u \in TableIds : dirs[u] = NoDir => dirs'[u] \in {NoDir, {}}
    BY <2>1 DEF Created
  <2>7. plugin = "leveldb" => dirs'[t] # NoDir
    BY <2>1, NoDirAssumption DEF Dirs, Created, CatInv, Types, DiskTypes
  <2>8. redo' \in Redoer /\ redo'.table = redo.table /\ redo'.db = redo.db /\ redo'.id = redo.id
        /\ (redo'.at = "open" => redo.at = "open" /\ h[1] = "app")
    BY <2>1 DEF CatInv, Types, ThreadTypes, Redoer
  <2>9. Types'
    BY <2>1, <2>4, <2>5, <2>8
       DEF CatInv, Types, DiskTypes, SystemTypes, ProcessTypes, ThreadTypes,
           HistoryTypes
  <2>10. DiskInv'
    BY <2>1, <2>5, <2>6
       DEF CatInv, DiskInv, CatalogBacked, RecordsSurvive, InCatalog
  <2>11. OpenInv'
    <3>1. \A g \in Handles :
            /\ handles'[g].table = 0 => handles'[g] = Closed /\ handles'[g].kind = "none"
            /\ handles'[g].kind = "leveldb" => dirs'[handles'[g].table] # NoDir
      <4>  SUFFICES ASSUME NEW g \in Handles
                    PROVE  /\ handles'[g].table = 0 => handles'[g] = Closed /\ handles'[g].kind = "none"
                           /\ handles'[g].kind = "leveldb" => dirs'[handles'[g].table] # NoDir
        OBVIOUS
      <4>1. CASE g = h
        BY <4>1, <2>3, <2>4, <2>7, TableIdsAssumption
      <4>2. CASE g # h
        BY <4>2, <2>4, <2>5 DEF CatInv, OpenInv, Handle
      <4>  QED
        BY <4>1, <4>2
    <3>2. \A u \in TableIds : handles'[<<"redo", u>>].table \in {0, u}
      <4>  SUFFICES ASSUME NEW u \in TableIds, <<"redo", u>> = h
                    PROVE  handles'[<<"redo", u>>].table \in {0, u}
        BY <2>4 DEF CatInv, OpenInv, Handles
      <4>1. u = t
        OBVIOUS
      <4>  QED
        BY <4>1, <2>3, <2>4
    <3>3. redo'.at = "open" =>
            redo'.table \in TableIds /\ handles'[<<"redo", redo'.table>>].table = 0
      BY <2>4, <2>8 DEF CatInv, OpenInv, Handles
    <3>4. app'.at # "idle" =>
            /\ db' /\ app'.table \in TableIds /\ app'.kind = KindAt(app'.id)
            /\ app'.kind = "leveldb" => dirs'[app'.table] # NoDir
      BY <2>1, <2>5 DEF CatInv, OpenInv
    <3>  QED
      BY <3>1, <3>2, <3>3, <3>4, <2>1, <2>8 DEF CatInv, OpenInv
  <2>12. LockInv'
    <3>  USE DEF HasOpen, Creating
    <3>1. \A g \in Handles, u \in TableIds : HasOpen(g, u)' <=>
            HasOpen(g, u) \/ (g = h /\ u = t /\ plugin = "leveldb")
      <4>1. ~HasOpen(h, t) /\ \A u \in TableIds : ~HasOpen(h, u)
        BY TableIdsAssumption
      <4>  QED
        BY <4>1, <2>3, <2>4
    <3>2. plugin = "leveldb" => t \notin locks /\ ~Creating(t) /\ \A g \in Handles : ~HasOpen(g, t)
      BY <1>3 DEF CatInv, LockInv
    <3>3. \A u \in TableIds : Creating(u)' <=> Creating(u)
      BY <2>1
    <3>4. \A u \in TableIds : u \in locks' <=> u \in locks \/ (u = t /\ plugin = "leveldb")
      BY <2>1
    <3>5. META_TABLE_ID \in locks' <=> META_TABLE_ID \in locks
      BY <2>1, TableIdsAssumption DEF META_TABLE_ID
    <3>6. \A u \in TableIds : u \in locks' <=> Creating(u)' \/ \E g \in Handles : HasOpen(g, u)'
      BY <3>1, <3>3, <3>4 DEF CatInv, LockInv
    <3>7. \A u \in TableIds, f \in Handles, g \in Handles :
            HasOpen(f, u)' /\ HasOpen(g, u)' => f = g
      BY <3>1, <3>2 DEF CatInv, LockInv
    <3>8. \A u \in TableIds, g \in Handles : ~(Creating(u)' /\ HasOpen(g, u)')
      BY <3>1, <3>2, <3>3 DEF CatInv, LockInv
    <3>  QED
      BY <3>5, <3>6, <3>7, <3>8, <2>1 DEF CatInv, LockInv
  <2>13. CareInv'
    <3>1. fault' # "locked"
      BY <2>1 DEF Running
    <3>  SUFFICES ASSUME ~careless' PROVE
            /\ redo'.db => \A a \in AppHandles : handles'[<<"app", a>>].table = 0
            /\ redo'.db /\ app'.at # "idle" => meta'[app'.table] = NoEntry
            /\ redo'.at = "open" =>
                 /\ \A a \in AppHandles : handles'[<<"app", a>>].table # redo'.table
                 /\ app'.at # "idle" => app'.table # redo'.table
                 /\ asked'[redo'.table] = KindAt(redo'.id)
            /\ \A g \in Handles : handles'[g].table # 0 => handles'[g].kind = handles'[g].asked
      BY <3>1 DEF CareInv
    <3>2. redo'.db => \A a \in AppHandles : handles'[<<"app", a>>].table = 0
      <4>1. \A a \in AppHandles : <<"app", a>> \in Handles
        BY DEF Handles
      <4>2. redo.db => \A a \in AppHandles : <<"app", a>> # h
        OBVIOUS
      <4>  QED
        BY <4>1, <4>2, <2>4, <2>8 DEF CatInv, CareInv
    <3>3. redo'.db /\ app'.at # "idle" => meta'[app'.table] = NoEntry
      BY <2>1, <2>8 DEF CatInv, CareInv
    <3>4. redo'.at = "open" =>
                 /\ \A a \in AppHandles : handles'[<<"app", a>>].table # redo'.table
                 /\ app'.at # "idle" => app'.table # redo'.table
                 /\ asked'[redo'.table] = KindAt(redo'.id)
      BY <2>1, <2>3, <2>4, <2>8 DEF CatInv, CareInv
    <3>5. opened.asked = asked[t]
      BY DEF opened
    <3>6. \A g \in Handles : handles'[g].table # 0 => handles'[g].kind = handles'[g].asked
      BY <2>2, <2>3, <2>4, <3>5 DEF CatInv, CareInv
    <3>  QED
      BY <3>2, <3>3, <3>4, <3>6
  <2>  QED
    BY <2>1, <2>9, <2>10, <2>11, <2>12, <2>13, Frames DEF CatInv
<1>  QED
  BY <1>1, <1>2, <1>3

\* nldb_table_open
LEMMA OpenTableCat ==
  ASSUME NEW h \in {"app"} \X AppHandles, NEW t \in TableIds, CatInv, OpenTable(h, t)
  PROVE  CatInv'
<1>1. /\ Running /\ app = Idle /\ db /\ handles[h] = Closed /\ meta[t] # NoEntry
      /\ careless' = (careless \/ t \in OpenTables \/ RedoerMayUse(t))
      /\ PluginOpen(h, t, meta[t])
  BY DEF OpenTable, AppReady
<1>2. h \in Handles /\ h[1] = "app" /\ h[2] \in AppHandles
  BY DEF Handles
<1>3. meta[t] \in 0 .. MaxPlugins - 1 /\ asked[t] = KindAt(meta[t])
  BY <1>1, MaxPluginsAssumption
     DEF CatInv, OpenInv, Meta, NoEntry, DiskInv, InCatalog
<1>4. ~careless' => t \notin locks /\ ~redo.db /\ ~(redo.at = "open" /\ redo.table = t)
  BY <1>1, LockedIsOpen DEF RedoerMayUse
<1>5. handles[h].table = 0
  BY <1>1 DEF Closed
<1>6. careless' \in BOOLEAN /\ (careless => careless')
  BY <1>1
<1>  QED
  BY <1>1, <1>2, <1>3, <1>4, <1>5, <1>6, PluginOpenCat

\* getOpenTable goes on to the plugin.
LEMMA RedoOpenCat ==
  ASSUME CatInv, RedoOpen
  PROVE  CatInv'
<1>  DEFINE t == redo.table
            h == <<"redo", t>>
<1>1. Running /\ redo.at = "open" /\ PluginOpen(h, t, redo.id) /\ careless' = careless
  BY DEF RedoOpen
<1>2. /\ t \in TableIds /\ h \in Handles /\ handles[h].table = 0
      /\ redo.id \in 0 .. MaxPlugins - 1 /\ careless' \in BOOLEAN
  BY <1>1 DEF CatInv, OpenInv, Types, ThreadTypes, Redoer, HistoryTypes, Handles
<1>3. ~careless' => asked[t] = KindAt(redo.id)
  BY <1>1 DEF CatInv, CareInv
<1>4. ~careless' => t \notin locks
  <2>  SUFFICES ASSUME ~careless', t \in locks PROVE FALSE
    OBVIOUS
  <2>1. ~Creating(t)
    BY <1>1 DEF CatInv, CareInv, Creating
  <2>2. PICK g \in Handles : HasOpen(g, t)
    BY <2>1, <1>2 DEF CatInv, LockInv
  <2>3. CASE g \in {"app"} \X AppHandles
    BY <2>2, <2>3, <1>1 DEF CatInv, CareInv, HasOpen
  <2>4. CASE g \in {"redo"} \X TableIds
    <3>1. PICK u \in TableIds : g = <<"redo", u>>
      BY <2>4
    <3>2. u = t
      BY <3>1, <2>2, TableIdsAssumption DEF CatInv, OpenInv, HasOpen
    <3>  QED
      BY <3>1, <3>2, <2>2, <1>2, TableIdsAssumption DEF HasOpen
  <2>  QED
    BY <2>2, <2>3, <2>4 DEF Handles
<1>  QED
  BY <1>1, <1>2, <1>3, <1>4, PluginOpenCat

\* nldb_table_close
LEMMA CloseTableCat ==
  ASSUME NEW h \in Handles, CatInv, CloseTable(h)
  PROVE  CatInv'
<1>  USE DEF CatInv, CloseTable, LocksAfterClose, AppReady, Running, disk,
             system, process, history
<1>1. Types'
  BY Records0
     DEF Types, DiskTypes, SystemTypes, ProcessTypes, ThreadTypes, HistoryTypes
<1>2. RegistryInv'
  BY Frames
<1>3. DiskInv'
  BY Frames
<1>4. OpenInv'
  BY DEF Closed, OpenInv
<1>5. LockInv'
  BY TableIdsAssumption
     DEF OpenInv, META_TABLE_ID, Closed, LockInv, HasOpen, Creating, Types,
         ProcessTypes
<1>6. CareInv'
  <2>1. \A g \in Handles : handles'[g] = handles[g] \/ handles'[g] = Closed
    OBVIOUS
  <2>2. Closed.table = 0
    BY DEF Closed
  <2>3. \A a \in AppHandles : <<"app", a>> \in Handles
    BY DEF Handles
  <2>4. redo.at = "open" => redo.table # 0
    BY TableIdsAssumption DEF OpenInv
  <2>  QED
    BY <2>1, <2>2, <2>3, <2>4 DEF CareInv
<1>  QED
  BY <1>1, <1>2, <1>3, <1>4, <1>5, <1>6

\* table_put of the LevelDB plugin
LEMMA PutCat ==
  ASSUME NEW h \in Handles, NEW r \in Records, CatInv, Put(h, r)
  PROVE  CatInv'
<1>  DEFINE t == handles[h].table
<1>1. /\ handles[h].kind = "leveldb"
      /\ dirs' = [dirs EXCEPT ![t] = @ \cup {r}]
      /\ stored' = [stored EXCEPT ![t] = @ \cup {r}]
      /\ UNCHANGED <<meta, reg, inits, locks, db, handles, app, redo, fault,
                     asked, careless>>
  BY DEF Put, MayWrite, system, process
<1>2. t \in TableIds /\ dirs[t] # NoDir
  BY <1>1 DEF CatInv, OpenInv, Types, ProcessTypes, Handle
<1>  HIDE DEF t
<1>3. dirs[t] \subseteq Records /\ stored[t] \subseteq Records
  BY <1>2 DEF CatInv, Types, DiskTypes, HistoryTypes, Dirs
<1>4. dirs'[t] = dirs[t] \cup {r} /\ stored'[t] = stored[t] \cup {r}
  BY <1>1, <1>2 DEF CatInv, Types, DiskTypes, HistoryTypes, Dirs
<1>5. dirs'[t] # NoDir /\ dirs'[t] \subseteq Records
  BY <1>3, <1>4, NoDirAssumption
<1>6. \A u \in TableIds : u # t => dirs'[u] = dirs[u] /\ stored'[u] = stored[u]
  BY <1>1
<1>7. Types'
  <2>1. dirs' \in Dirs
    BY <1>1, <1>3 DEF CatInv, Types, DiskTypes, Dirs
  <2>2. stored' \in [TableIds -> SUBSET Records]
    BY <1>1, <1>3 DEF CatInv, Types, HistoryTypes
  <2>  QED
    BY <1>1, <2>1, <2>2
       DEF CatInv, Types, DiskTypes, SystemTypes, ProcessTypes, ThreadTypes,
           HistoryTypes
<1>8. \A u \in TableIds : dirs[u] # NoDir => dirs'[u] # NoDir
  BY <1>5, <1>6
<1>9. \A u \in TableIds : stored'[u] # {} => dirs'[u] # NoDir /\ stored'[u] \subseteq dirs'[u]
  <2>  SUFFICES ASSUME NEW u \in TableIds, stored'[u] # {}
                PROVE  dirs'[u] # NoDir /\ stored'[u] \subseteq dirs'[u]
    OBVIOUS
  <2>0. stored[u] # {} => dirs[u] # NoDir /\ stored[u] \subseteq dirs[u]
    BY DEF CatInv, DiskInv, RecordsSurvive
  <2>1. CASE u = t
    BY <2>0, <2>1, <1>4, <1>5
  <2>2. CASE u # t
    BY <2>0, <2>2, <1>6
  <2>  QED
    BY <2>1, <2>2
<1>10. DiskInv'
  BY <1>1, <1>8, <1>9
     DEF CatInv, DiskInv, CatalogBacked, RecordsSurvive, InCatalog
<1>11. OpenInv'
  BY <1>1, <1>8, TableIdsAssumption
     DEF CatInv, OpenInv, Types, ProcessTypes, Handle
<1>  QED
  BY <1>1, <1>7, <1>10, <1>11, Frames DEF CatInv

\* table_del of the LevelDB plugin
LEMMA DelCat ==
  ASSUME NEW h \in Handles, NEW r \in Records, CatInv, Del(h, r)
  PROVE  CatInv'
<1>  DEFINE t == handles[h].table
<1>1. /\ handles[h].kind = "leveldb"
      /\ dirs' = [dirs EXCEPT ![t] = @ \ {r}]
      /\ stored' = [stored EXCEPT ![t] = @ \ {r}]
      /\ UNCHANGED <<meta, reg, inits, locks, db, handles, app, redo, fault,
                     asked, careless>>
  BY DEF Del, MayWrite, system, process
<1>2. t \in TableIds /\ dirs[t] # NoDir
  BY <1>1 DEF CatInv, OpenInv, Types, ProcessTypes, Handle
<1>  HIDE DEF t
<1>3. dirs[t] \subseteq Records /\ stored[t] \subseteq Records
  BY <1>2 DEF CatInv, Types, DiskTypes, HistoryTypes, Dirs
<1>4. dirs'[t] = dirs[t] \ {r} /\ stored'[t] = stored[t] \ {r}
  BY <1>1, <1>2 DEF CatInv, Types, DiskTypes, HistoryTypes, Dirs
<1>5. dirs'[t] # NoDir /\ dirs'[t] \subseteq Records
  BY <1>3, <1>4, NoDirAssumption
<1>6. \A u \in TableIds : u # t => dirs'[u] = dirs[u] /\ stored'[u] = stored[u]
  BY <1>1
<1>7. Types'
  <2>1. dirs' \in Dirs
    BY <1>1, <1>3 DEF CatInv, Types, DiskTypes, Dirs
  <2>2. stored' \in [TableIds -> SUBSET Records]
    BY <1>1, <1>3 DEF CatInv, Types, HistoryTypes
  <2>  QED
    BY <1>1, <2>1, <2>2
       DEF CatInv, Types, DiskTypes, SystemTypes, ProcessTypes, ThreadTypes,
           HistoryTypes
<1>8. \A u \in TableIds : dirs[u] # NoDir => dirs'[u] # NoDir
  BY <1>5, <1>6
<1>9. \A u \in TableIds : stored'[u] # {} => dirs'[u] # NoDir /\ stored'[u] \subseteq dirs'[u]
  <2>  SUFFICES ASSUME NEW u \in TableIds, stored'[u] # {}
                PROVE  dirs'[u] # NoDir /\ stored'[u] \subseteq dirs'[u]
    OBVIOUS
  <2>0. stored[u] # {} => dirs[u] # NoDir /\ stored[u] \subseteq dirs[u]
    BY DEF CatInv, DiskInv, RecordsSurvive
  <2>1. CASE u = t
    BY <2>0, <2>1, <1>4, <1>5
  <2>2. CASE u # t
    BY <2>0, <2>2, <1>6
  <2>  QED
    BY <2>1, <2>2
<1>10. DiskInv'
  BY <1>1, <1>8, <1>9
     DEF CatInv, DiskInv, CatalogBacked, RecordsSurvive, InCatalog
<1>11. OpenInv'
  BY <1>1, <1>8, TableIdsAssumption
     DEF CatInv, OpenInv, Types, ProcessTypes, Handle
<1>  QED
  BY <1>1, <1>7, <1>10, <1>11, Frames DEF CatInv

\* getOpenTable reads the catalog.
LEMMA RedoGetCat ==
  ASSUME NEW t \in TableIds, CatInv, RedoGet(t)
  PROVE  CatInv'
<1>0. /\ redo.at = "idle" /\ redo.db /\ db /\ handles[<<"redo", t>>] = Closed
      /\ careless' = careless /\ careless' \in BOOLEAN
  BY DEF RedoGet, CatInv, OpenInv, Types, HistoryTypes
<1>1. CASE meta[t] = NoEntry
  BY <1>0, <1>1, FailCat DEF RedoGet, Faults
<1>2. CASE meta[t] # NoEntry
  <2>1. /\ redo' = [redo EXCEPT !.at = "open", !.table = t, !.id = meta[t]]
        /\ UNCHANGED <<meta, dirs, reg, inits, locks, db, handles, app, fault,
                       asked, stored>>
    BY <1>2 DEF RedoGet, disk, system, process
  <2>2. meta[t] \in 0 .. MaxPlugins - 1 /\ asked[t] = KindAt(meta[t])
    BY <1>0, <1>2, MaxPluginsAssumption
       DEF CatInv, OpenInv, Meta, NoEntry, DiskInv, InCatalog
  <2>3. /\ redo' \in Redoer /\ redo'.at = "open" /\ redo'.table = t
        /\ redo'.id = meta[t] /\ redo'.db = redo.db
    BY <2>1, <2>2 DEF CatInv, Types, ThreadTypes, Redoer
  <2>4. Types'
    BY <1>0, <2>1, <2>3
       DEF CatInv, Types, DiskTypes, SystemTypes, ProcessTypes, ThreadTypes,
           HistoryTypes
  <2>5. OpenInv'
    BY <1>0, <2>1, <2>3 DEF CatInv, OpenInv, Closed
  <2>6. CareInv'
    BY <1>0, <1>2, <2>1, <2>2, <2>3, TableIdsAssumption DEF CatInv, CareInv
  <2>  QED
    BY <2>1, <2>4, <2>5, <2>6, Frames DEF CatInv
<1>  QED
  BY <1>1, <1>2

\* A registry without a plugin.
LEMMA NoRegistryPlaced == PluginsPlaced(NoRegistry)
BY MaxPluginsAssumption DEF NoRegistry, PluginsPlaced

\* The process dies and is started again.
LEMMA CrashCat ==
  ASSUME CatInv, Crash
  PROVE  CatInv'
<1>1. /\ reg' = NoRegistry /\ inits' = 0
      /\ locks' = {} /\ db' = FALSE /\ handles' = [h \in Handles |-> Closed]
      /\ app' = Idle /\ redo' = NoThread
      /\ fault' = "none" /\ careless' = FALSE
      /\ UNCHANGED <<meta, dirs, asked, stored>>
  BY DEF Crash, disk
<1>2. app'.at = "idle" /\ redo'.at = "none" /\ ~redo'.db
  BY <1>1 DEF Idle, NoThread
<1>3. \A h \in Handles :
        /\ handles'[h] = Closed /\ handles'[h].table = 0
        /\ handles'[h].kind = "none"
  BY <1>1 DEF Closed
<1>4. Types'
  <2>1. DiskTypes' /\ HistoryTypes'
    BY <1>1 DEF CatInv, Types, DiskTypes, HistoryTypes
  <2>2. SystemTypes' /\ ThreadTypes'
    BY <1>1, Records0, MaxInitsAssumption DEF SystemTypes, ThreadTypes, Faults
  <2>3. ProcessTypes'
    BY <1>1, Records0 DEF ProcessTypes
  <2>  QED
    BY <2>1, <2>2, <2>3 DEF Types
<1>5. RegistryInv'
  BY <1>1, NoRegistryPlaced DEF RegistryInv
<1>6. OpenInv'
  BY <1>1, <1>2, <1>3 DEF OpenInv, Handles
<1>7. LockInv'
  BY <1>1, <1>2, <1>3 DEF LockInv, HasOpen, Creating
<1>8. CareInv'
  BY <1>1, <1>2, <1>3 DEF CareInv
<1>  QED
  BY <1>1, <1>4, <1>5, <1>6, <1>7, <1>8, Frames DEF CatInv

\* In a new process, on an empty disk, the invariant holds.
LEMMA CatInit == Init => CatInv
<1>  SUFFICES ASSUME Init PROVE CatInv
  OBVIOUS
<1>  USE DEF Init
<1>2. app.at = "idle" /\ redo.at = "none" /\ ~redo.db
  BY DEF Idle, NoThread
<1>3. \A h \in Handles :
        /\ handles[h] = Closed /\ handles[h].table = 0
        /\ handles[h].kind = "none"
  BY DEF Closed
<1>4. Types
  <2>1. DiskTypes /\ HistoryTypes
    BY DEF DiskTypes, HistoryTypes, Dirs
  <2>2. SystemTypes /\ ThreadTypes
    BY Records0, MaxInitsAssumption DEF SystemTypes, ThreadTypes, Faults
  <2>3. ProcessTypes
    BY Records0 DEF ProcessTypes
  <2>  QED
    BY <2>1, <2>2, <2>3 DEF Types
<1>5. RegistryInv
  BY NoRegistryPlaced DEF RegistryInv
<1>6. OpenInv
  BY <1>2, <1>3 DEF OpenInv, Handles
<1>7. LockInv
  BY <1>2, <1>3 DEF LockInv, HasOpen, Creating
<1>8. CareInv
  BY <1>2, <1>3 DEF CareInv
<1>9. DiskInv
  BY DEF DiskInv, CatalogBacked, RecordsSurvive, InCatalog
<1>  QED
  BY <1>4, <1>5, <1>6, <1>7, <1>8, <1>9 DEF CatInv

\* Every operation of the application and of the redoer keeps the invariant.
LEMMA CatStep == CatInv /\ [Next]_vars => CatInv'
<1>  SUFFICES ASSUME CatInv, [Next]_vars PROVE CatInv'
  OBVIOUS
<1>1. CASE UNCHANGED vars
  <2>1. UNCHANGED <<meta, dirs, reg, inits, locks, db, handles, app, redo,
                    fault, asked, stored, careless>>
    BY <1>1 DEF vars, disk, system, process, history
  <2>2. Types'
    BY <2>1
       DEF CatInv, Types, DiskTypes, SystemTypes, ProcessTypes, ThreadTypes,
           HistoryTypes
  <2>  QED
    BY <2>1, <2>2, Frames DEF CatInv
<1>2. CASE InitSystem \/ DestroySystem
  BY <1>2, InitSystemCat, DestroySystemCat
<1>3. CASE CreateDb \/ DropDb \/ CloseDb \/ \E slave \in BOOLEAN : OpenDb(slave)
  BY <1>3, CreateDbCat, DropDbCat, CloseDbCat, OpenDbCat
<1>4. CASE \E t \in TableIds, kind \in Kinds : CreateTable(t, kind)
  BY <1>4, CreateTableCat
<1>5. CASE CloseCreated \/ MetaPut \/ \E t \in TableIds : DropTable(t) \/ RedoGet(t)
  BY <1>5, CloseCreatedCat, MetaPutCat, DropTableCat, RedoGetCat
<1>6. CASE \E h \in {"app"} \X AppHandles :
             CloseTable(h) \/ \E t \in TableIds : OpenTable(h, t)
  <2>1. {"app"} \X AppHandles \subseteq Handles
    BY DEF Handles
  <2>  QED
    BY <1>6, <2>1, CloseTableCat, OpenTableCat
<1>7. CASE \E h \in Handles, r \in Records : Put(h, r) \/ Del(h, r)
  BY <1>7, PutCat, DelCat
<1>8. CASE RedoOpen
  BY <1>8, RedoOpenCat
<1>9. CASE RedoAfterClose
  <2>1. Fail("use_after_close") /\ careless' = careless
    BY <1>9 DEF RedoAfterClose
  <2>  QED
    BY <2>1, FailCat DEF Faults, CatInv, Types, HistoryTypes
<1>10. CASE Crash
  BY <1>10, CrashCat
<1>  QED
  BY <1>1, <1>2, <1>3, <1>4, <1>5, <1>6, <1>7, <1>8, <1>9, <1>10 DEF Next

-----------------------------------------------------------------------------
(***************************************************************************)
(* The theorems                                                            *)
(***************************************************************************)
\* The inductive invariant holds in every state, over any number of crashes.
THEOREM CatalogInvariant == Spec => []CatInv
BY CatInit, CatStep, PTL DEF Spec

\* The catalog, the registry, the locks and the threads keep their types: no id of
\* a plugin and no slot of the registry is ever out of bounds.
THEOREM CatalogTypeCorrect == Spec => []CatalogTypeOK
<1>1. CatInv => CatalogTypeOK
  BY DEF CatInv, Types, DiskTypes, SystemTypes, ProcessTypes, ThreadTypes,
         HistoryTypes, CatalogTypeOK, Meta, Dirs, Registry, Handle, Thread,
         Redoer, Faults
<1>  QED
  BY <1>1, CatalogInvariant, PTL

\* nldb_table_create lists a persistent table only once its directory is there,
\* wherever the process dies.
THEOREM CatalogBackedHolds == Spec => []CatalogBacked
<1>1. CatInv => CatalogBacked
  BY DEF CatInv, DiskInv
<1>  QED
  BY <1>1, CatalogInvariant, PTL

\* No probe, create, close or error path leaves a LevelDB directory open.
THEOREM LocksAreHandlesHolds == Spec => []LocksAreHandles
<1>1. ASSUME CatInv PROVE LocksAreHandles
  <2>  DEFINE held == {t \in {META_TABLE_ID} : db}
                      \cup {handles[h].table : h \in {g \in Handles : handles[g].kind = "leveldb"}}
                      \cup {t \in {app.table} : app.at = "created"}
  <2>1. \A h \in Handles : handles[h].kind = "leveldb" => handles[h].table \in TableIds
    BY <1>1 DEF CatInv, OpenInv, Types, ProcessTypes, Handle
  <2>2. app.at = "created" => app.table \in TableIds
    BY <1>1 DEF CatInv, OpenInv
  <2>3. held \subseteq TableIds \cup {META_TABLE_ID}
    BY <2>1, <2>2
  <2>4. META_TABLE_ID \in held <=> META_TABLE_ID \in locks
    BY <1>1, <2>1, <2>2, TableIdsAssumption DEF CatInv, LockInv, META_TABLE_ID
  <2>5. \A t \in TableIds : t \in held <=> t \in locks
    BY <1>1, TableIdsAssumption
       DEF CatInv, LockInv, HasOpen, Creating, META_TABLE_ID
  <2>6. locks \subseteq TableIds \cup {META_TABLE_ID}
    BY <1>1 DEF CatInv, Types, ProcessTypes
  <2>  HIDE DEF held
  <2>7. locks = held
    BY <2>3, <2>4, <2>5, <2>6
  <2>  QED
    BY <2>7 DEF LocksAreHandles, held
<1>  QED
  BY <1>1, CatalogInvariant, PTL

\* An application that uses each table in one way at a time is never stopped by a
\* locked directory, whatever the redoer does.
THEOREM LockedOnlyIfCarelessHolds == Spec => []LockedOnlyIfCareless
<1>1. CatInv => LockedOnlyIfCareless
  BY DEF CatInv, CareInv, LockedOnlyIfCareless
<1>  QED
  BY <1>1, CatalogInvariant, PTL

\* A table is driven by the kind of plugin it was created with, although the
\* catalog keeps only the number that nldb_plugin_add gave it.
THEOREM RightPluginHolds == Spec => []RightPlugin
<1>1. CatInv => RightPlugin
  BY DEF CatInv, OpenInv, CareInv, RightPlugin
<1>  QED
  BY <1>1, CatalogInvariant, PTL

\* What is stored in a persistent table survives crashes, reopening and creating
\* the table again.
THEOREM RecordsSurviveHolds == Spec => []RecordsSurvive
<1>1. CatInv => RecordsSurvive
  BY DEF CatInv, DiskInv
<1>  QED
  BY <1>1, CatalogInvariant, PTL
=============================================================================
