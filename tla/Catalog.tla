------------------------------ MODULE Catalog ------------------------------
(***************************************************************************)
(* The plugin registry, and the creation, opening, closing and dropping of *)
(* a database and of its tables (nldb.cpp), over the LevelDB plugin's      *)
(* directories and the tables in memory.                                   *)
(*                                                                         *)
(* The catalog of a database is itself a LevelDB directory, the meta table,*)
(* which maps a table id to the plugin id the table was created with.  A   *)
(* LevelDB directory can be open once (external): a second open fails, and *)
(* the plugin then runs into tx_assert(0).  Two threads of one process use *)
(* the tables: the application, and on a slave the log redoer, which opens *)
(* a table at the first record for it.  The process may crash at any step: *)
(* its locks are gone, its directories stay.                               *)
(***************************************************************************)
EXTENDS Integers, FiniteSets, Sequences

CONSTANTS
  TableIds,    \* table ids, which begin from 1
  AppHandles,  \* the nldb_table_t variables of the application
  Records,     \* what is put into a persistent table
  MaxPlugins,  \* NLDB_PLUGIN_MAX_COUNT
  MaxInits,    \* bound on nldb_init without nldb_destroy
  NoDir        \* a directory that is not there

ASSUME MaxPluginsAssumption == MaxPlugins \in Nat \ {0, 1, 2}
ASSUME MaxInitsAssumption == MaxInits \in Nat
ASSUME TableIdsAssumption == TableIds \subseteq Nat \ {0}
ASSUME NoDirAssumption == (\A s \in SUBSET Records : NoDir # s) /\ NoDir \notin [TableIds -> Int]

Kinds == {"leveldb", "array_tree", "tc"}
Handles == ({"app"} \X AppHandles) \cup ({"redo"} \X TableIds)
META_TABLE_ID == 0
NoEntry == -1         \* a table id without a record in the meta table
NoPlugin == "null"    \* a slot of plugins that was never filled

VARIABLES
  \* on disk
  meta,     \* the meta table of the database: NoDir, or plugin ids by table id
  dirs,     \* the directories of persistent tables: NoDir, or their records
  \* in the process
  reg,      \* plugins, next_plugin_id, and NLDB_TABLE_PERSISTENT, _VOLATILE, _TC
  inits,    \* calls of nldb_init not undone by nldb_destroy
  locks,    \* the table ids whose directories this process has open
  db,       \* is the database open?
  handles,  \* the open tables
  app,      \* the application thread: where it is in nldb_table_create
  redo,     \* the redoer thread: "none", "idle", or opening a table
  fault,    \* why the process stopped
  \* history
  asked,    \* the kind that the application gave to the last create of a table
  stored,   \* the records put into a persistent table and not deleted since
  careless  \* has the application used a table in two ways at once?

disk == <<meta, dirs>>
system == <<reg, inits>>
process == <<locks, db, handles>>
history == <<asked, stored, careless>>
vars == <<disk, system, process, app, redo, fault, history>>

Closed == [table |-> 0, kind |-> "none", asked |-> "none"]
NoThread == [at |-> "none", table |-> 0, id |-> 0, db |-> FALSE]
Idle == [at |-> "idle", table |-> 0, kind |-> "none", id |-> 0]
NoRegistry == [plugins |-> [i \in 0 .. MaxPlugins - 1 |-> NoPlugin], next |-> 0,
               ids |-> [k \in Kinds |-> 0]]

Init ==
  /\ meta = NoDir
  /\ dirs = [t \in TableIds |-> NoDir]
  /\ reg = NoRegistry /\ inits = 0
  /\ locks = {} /\ db = FALSE /\ handles = [h \in Handles |-> Closed]
  /\ app = Idle
  /\ redo = NoThread
  /\ fault = "none"
  /\ asked = [t \in TableIds |-> "none"]
  /\ stored = [t \in TableIds |-> {}]
  /\ careless = FALSE

Running == fault = "none"
AppReady == Running /\ app = Idle

Fail(why) == fault' = why /\ UNCHANGED <<disk, system, process, app, redo, asked, stored>>

(***************************************************************************)
(* The plugin registry                                                     *)
(***************************************************************************)
\* A plugin put where next_plugin_id points after it was incremented.
AddPluginNextSlot(r, kind) ==
  IF r.next >= MaxPlugins THEN r
  ELSE [plugins |-> [r.plugins EXCEPT ![r.next + 1] = kind], next |-> r.next + 1,
        ids |-> [r.ids EXCEPT ![kind] = r.next]]

\* A limit that lets one plugin too many in.
AddPluginLate(r, kind) ==
  IF r.next > MaxPlugins THEN r
  ELSE [plugins |-> [r.plugins EXCEPT ![r.next] = kind], next |-> r.next + 1,
        ids |-> [r.ids EXCEPT ![kind] = r.next]]

\* nldb_plugin_add; with no slot left it returns an error.
AddPlugin(r, kind) ==
  IF r.next >= MaxPlugins THEN r
  ELSE [plugins |-> [r.plugins EXCEPT ![r.next] = kind], next |-> r.next + 1,
        ids |-> [r.ids EXCEPT ![kind] = r.next]]

\* nldb_init, which stops at the first plugin that finds no slot
InitSystem ==
  /\ AppReady
  /\ inits < MaxInits
  /\ reg' = AddPlugin(AddPlugin(AddPlugin(reg, "leveldb"), "array_tree"), "tc")
  /\ inits' = inits + 1
  /\ UNCHANGED <<disk, process, app, redo, fault, history>>

\* nldb_destroy: plugins and the ids of the kinds stay as they are.
DestroySystem ==
  /\ AppReady
  /\ inits > 0
  /\ reg' = [reg EXCEPT !.next = 0]
  /\ inits' = 0
  /\ UNCHANGED <<disk, process, app, redo, fault, history>>

(***************************************************************************)
(* Databases: nldb_db_create, nldb_db_drop, nldb_db_open, nldb_db_close    *)
(***************************************************************************)
\* leveldb::DB::Open with create_if_missing, and without the records kept.
CreatedAfresh(dir) == {}

\* leveldb::DB::Open with create_if_missing: what is there is kept.
Created(dir) == IF dir = NoDir THEN {} ELSE dir

\* meta_exists: the meta table exists if it can be opened, so one that is open
\* does not.
MetaExists == meta # NoDir /\ META_TABLE_ID \notin locks

\* A probe that does not delete the leveldb::DB it opened.
LocksAfterProbeLeaked == IF MetaExists THEN locks \cup {META_TABLE_ID} ELSE locks

\* The probe of meta_exists deletes the leveldb::DB it opened.
LocksAfterProbe == locks

\* nldb_db_create.  On a database that is open the probe says that there is none,
\* and meta_create fails on the lock.
CreateDb ==
  /\ AppReady
  /\ careless' = (careless \/ db)
  /\ IF META_TABLE_ID \in locks THEN Fail("locked")
     ELSE /\ locks' = LocksAfterProbe
          /\ meta' = IF MetaExists THEN meta ELSE [t \in TableIds |-> NoEntry]
          /\ UNCHANGED <<dirs, system, db, handles, app, redo, fault, asked, stored>>

\* nldb_db_drop removes the meta table, and no table of the database.
DropDb ==
  /\ AppReady
  /\ locks' = LocksAfterProbe
  /\ meta' = IF MetaExists THEN NoDir ELSE meta
  /\ stored' = IF MetaExists THEN [t \in TableIds |-> {}] ELSE stored
  /\ UNCHANGED <<dirs, system, db, handles, app, redo, fault, asked, careless>>

AppTables == {handles[h].table : h \in {"app"} \X AppHandles} \ {0}
OpenTables == {handles[h].table : h \in Handles} \ {0}

\* nldb_db_open; a slave_op starts the redoer's thread, which nothing ever joins.
OpenDb(slave) ==
  /\ AppReady
  /\ slave => redo = NoThread
  /\ IF MetaExists
       THEN /\ locks' = LocksAfterProbe \cup {META_TABLE_ID}
            /\ db' = TRUE
            /\ redo' = IF slave THEN [NoThread EXCEPT !.at = "idle", !.db = TRUE] ELSE redo
            /\ careless' = (careless \/ (slave /\ AppTables # {}))
       ELSE UNCHANGED <<locks, db, redo, careless>>
  /\ UNCHANGED <<disk, system, handles, app, fault, asked, stored>>

\* nldb_db_close closes the meta table and frees the database, also under the
\* redoer.  The tables stay open.
CloseDb ==
  /\ AppReady
  /\ db
  /\ db' = FALSE
  /\ redo' = [redo EXCEPT !.db = FALSE]
  /\ locks' = locks \ {META_TABLE_ID}
  /\ UNCHANGED <<disk, system, handles, app, fault, history>>

(***************************************************************************)
(* Tables: nldb_table_create, nldb_table_drop                              *)
(***************************************************************************)
\* Is the redoer using the table, or could it at any moment?
RedoerMayUse(t) ==
  \/ redo.at = "open" /\ redo.table = t
  \/ redo.db /\ meta[t] # NoEntry

\* A create that writes the catalog before it has asked the plugin.
CreateTableMetaFirst(t, kind) ==
  /\ AppReady /\ db
  /\ careless' = (careless \/ t \in OpenTables \/ RedoerMayUse(t))
  /\ reg.plugins[reg.ids[kind]] # NoPlugin
  /\ meta' = [meta EXCEPT ![t] = reg.ids[kind]]
  /\ asked' = [asked EXCEPT ![t] = kind]
  /\ app' = [at |-> "create", table |-> t, kind |-> kind, id |-> reg.ids[kind]]
  /\ UNCHANGED <<dirs, system, process, redo, fault, stored>>

\* nldb_table_create calls table_create of the plugin.  The one of LevelDB opens
\* the directory; the other two have nothing to do.
CreateTable(t, kind) ==
  /\ AppReady /\ db
  /\ careless' = (careless \/ t \in OpenTables \/ RedoerMayUse(t))
  /\ LET plugin == reg.plugins[reg.ids[kind]]
         next(at) == app' = [at |-> at, table |-> t, kind |-> kind, id |-> reg.ids[kind]]
     IN  CASE plugin = NoPlugin -> Fail("null_plugin")
           [] plugin = "leveldb" /\ t \in locks -> Fail("locked")
           [] plugin = "leveldb" /\ t \notin locks ->
                /\ next("created")
                /\ dirs' = [dirs EXCEPT ![t] = Created(@)]
                /\ locks' = locks \cup {t}
                /\ UNCHANGED <<meta, system, db, handles, redo, fault, asked, stored>>
           [] OTHER ->
                /\ next("meta_put")
                /\ UNCHANGED <<disk, system, process, redo, fault, asked, stored>>

\* The plugin's table_create deletes the leveldb::DB.
CloseCreated ==
  /\ Running /\ app.at = "created"
  /\ locks' = locks \ {app.table}
  /\ app' = [app EXCEPT !.at = "meta_put"]
  /\ UNCHANGED <<disk, system, db, handles, redo, fault, history>>

\* meta_put: the table is in the catalog from here on.
MetaPut ==
  /\ Running /\ app.at = "meta_put"
  /\ meta' = [meta EXCEPT ![app.table] = app.id]
  /\ asked' = [asked EXCEPT ![app.table] = app.kind]
  /\ app' = Idle
  /\ UNCHANGED <<dirs, system, process, redo, fault, stored, careless>>

\* nldb_table_drop: meta_del.  The directory of the table stays.
DropTable(t) ==
  /\ AppReady /\ db
  /\ meta' = [meta EXCEPT ![t] = NoEntry]
  /\ stored' = [stored EXCEPT ![t] = {}]
  /\ UNCHANGED <<dirs, system, process, app, redo, fault, asked, careless>>

(***************************************************************************)
(* Open tables: nldb_table_open, nldb_table_close, put and del             *)
(***************************************************************************)
\* table_open of the plugin with this id.
PluginOpen(h, t, id) ==
  LET plugin == reg.plugins[id]
      opened == [table |-> t, kind |-> plugin, asked |-> asked[t]]
  IN  CASE plugin = NoPlugin -> Fail("null_plugin")
        [] plugin = "leveldb" /\ t \in locks -> Fail("locked")
        [] OTHER ->
             /\ handles' = [handles EXCEPT ![h] = opened]
             /\ dirs' = IF plugin = "leveldb" THEN [dirs EXCEPT ![t] = Created(@)] ELSE dirs
             /\ locks' = IF plugin = "leveldb" THEN locks \cup {t} ELSE locks
             /\ redo' = IF h[1] = "redo" THEN [redo EXCEPT !.at = "idle"] ELSE redo
             /\ UNCHANGED <<meta, system, db, app, fault, asked, stored>>

\* nldb_table_open by the application: meta_get and the plugin's table_open.  The
\* application alone changes the catalog, so nothing is lost by taking them as one.
OpenTable(h, t) ==
  /\ AppReady /\ db
  /\ handles[h] = Closed
  /\ meta[t] # NoEntry
  /\ careless' = (careless \/ t \in OpenTables \/ RedoerMayUse(t))
  /\ PluginOpen(h, t, meta[t])

\* A close that leaves the leveldb::DB open.
LocksAfterCloseKept(h) == locks

\* table_close: deleting the leveldb::DB closes the directory.
LocksAfterClose(h) ==
  IF handles[h].kind = "leveldb" THEN locks \ {handles[h].table} ELSE locks

\* nldb_table_close; the redoer never closes its tables.
CloseTable(h) ==
  /\ AppReady
  /\ handles[h] # Closed
  /\ locks' = LocksAfterClose(h)
  /\ handles' = [handles EXCEPT ![h] = Closed]
  /\ UNCHANGED <<disk, system, db, app, redo, fault, history>>

\* May the owner of this handle write with it now?
MayWrite(h) ==
  /\ handles[h].kind = "leveldb"
  /\ IF h[1] = "app" THEN AppReady /\ db ELSE Running /\ redo.at = "idle" /\ redo.db

\* table_put of the LevelDB plugin
Put(h, r) ==
  /\ MayWrite(h)
  /\ dirs' = [dirs EXCEPT ![handles[h].table] = @ \cup {r}]
  /\ stored' = [stored EXCEPT ![handles[h].table] = @ \cup {r}]
  /\ UNCHANGED <<meta, system, process, app, redo, fault, asked, careless>>

\* table_del of the LevelDB plugin, of a record that is there
Del(h, r) ==
  /\ MayWrite(h)
  /\ r \in dirs[handles[h].table]
  /\ dirs' = [dirs EXCEPT ![handles[h].table] = @ \ {r}]
  /\ stored' = [stored EXCEPT ![handles[h].table] = @ \ {r}]
  /\ UNCHANGED <<meta, system, process, app, redo, fault, asked, careless>>

(***************************************************************************)
(* The redoer's thread: getOpenTable                                       *)
(***************************************************************************)
\* A record for a table that is not open yet: nldb_table_open reads the catalog.
\* Its error is ignored, and the record is redone on a null table.
RedoGet(t) ==
  /\ Running
  /\ redo.at = "idle" /\ redo.db
  /\ handles[<<"redo", t>>] = Closed
  /\ IF meta[t] = NoEntry THEN Fail("null_table")
     ELSE /\ redo' = [redo EXCEPT !.at = "open", !.table = t, !.id = meta[t]]
          /\ UNCHANGED <<disk, system, process, app, fault, asked, stored>>
  /\ UNCHANGED careless

\* nldb_table_open goes on to the plugin.
RedoOpen ==
  /\ Running
  /\ redo.at = "open"
  /\ PluginOpen(<<"redo", redo.table>>, redo.table, redo.id)
  /\ UNCHANGED careless

\* A message that comes after nldb_db_close is redone on a database that is freed.
RedoAfterClose ==
  /\ Running
  /\ redo.at = "idle" /\ ~redo.db
  /\ Fail("use_after_close")
  /\ UNCHANGED careless

\* The process dies, by a failed assertion or otherwise, and is started again.
Crash ==
  /\ reg' = NoRegistry /\ inits' = 0
  /\ locks' = {} /\ db' = FALSE /\ handles' = [h \in Handles |-> Closed]
  /\ app' = Idle /\ redo' = NoThread
  /\ fault' = "none" /\ careless' = FALSE
  /\ UNCHANGED <<disk, asked, stored>>

Next ==
  \/ InitSystem \/ DestroySystem
  \/ CreateDb \/ DropDb \/ CloseDb
  \/ \E slave \in BOOLEAN : OpenDb(slave)
  \/ \E t \in TableIds, kind \in Kinds : CreateTable(t, kind)
  \/ CloseCreated \/ MetaPut
  \/ \E t \in TableIds : DropTable(t) \/ RedoGet(t)
  \/ \E h \in {"app"} \X AppHandles : CloseTable(h) \/ \E t \in TableIds : OpenTable(h, t)
  \/ \E h \in Handles, r \in Records : Put(h, r) \/ Del(h, r)
  \/ RedoOpen \/ RedoAfterClose
  \/ Crash

Spec == Init /\ [][Next]_vars

(***************************************************************************)
(* Properties                                                              *)
(***************************************************************************)
CatalogTypeOK ==
  /\ meta = NoDir \/ meta \in [TableIds -> NoEntry .. MaxPlugins - 1]
  /\ \A t \in TableIds : dirs[t] = NoDir \/ dirs[t] \subseteq Records
  /\ reg.plugins \in [0 .. MaxPlugins - 1 -> Kinds \cup {NoPlugin}]
  /\ reg.next \in 0 .. MaxPlugins
  /\ reg.ids \in [Kinds -> 0 .. MaxPlugins - 1]
  /\ inits \in 0 .. MaxInits
  /\ locks \subseteq TableIds \cup {META_TABLE_ID}
  /\ db \in BOOLEAN
  /\ handles \in [Handles -> [table : TableIds \cup {0}, kind : Kinds \cup {"none"},
                              asked : Kinds \cup {"none"}]]
  /\ app \in [at : {"idle", "created", "meta_put"}, table : TableIds \cup {0},
              kind : Kinds \cup {"none"}, id : 0 .. MaxPlugins - 1]
  /\ redo \in [at : {"none", "idle", "open"}, table : TableIds \cup {0},
               id : 0 .. MaxPlugins - 1, db : BOOLEAN]
  /\ fault \in {"none", "locked", "null_plugin", "null_table", "use_after_close"}
  /\ asked \in [TableIds -> Kinds \cup {"none"}]
  /\ stored \in [TableIds -> SUBSET Records]
  /\ careless \in BOOLEAN

InCatalog(t) == meta # NoDir /\ meta[t] # NoEntry

\* A persistent table that is in the catalog has its directory, whenever the
\* process dies: nldb_table_create makes the directory first and lists it then.
CatalogBacked ==
  \A t \in TableIds : InCatalog(t) /\ asked[t] = "leveldb" => dirs[t] # NoDir

\* What this process has locked is what it has open: the meta table of an open
\* database, the persistent tables with a handle, and the one being created.  A
\* directory left open, by a probe or an error path, could not be opened again
\* until the process ends.
LocksAreHandles ==
  locks = {t \in {META_TABLE_ID} : db}
          \cup {handles[h].table : h \in {g \in Handles : handles[g].kind = "leveldb"}}
          \cup {t \in {app.table} : app.at = "created"}

\* An application that uses each table in one way at a time (it does not create a
\* table that is open or that the redoer may be opening, nor open one twice) never
\* runs into the assertion on a locked directory, whatever the redoer does: a table
\* shows up in the catalog only when its creation has let go of the directory.
LockedOnlyIfCareless == fault = "locked" => careless

\* A handle is driven by the kind of plugin its table was created with, although
\* only the plugin's id is kept, through restarts and repeated initialisations.  (A
\* table created again while the redoer is opening it may be opened as it was.)
RightPlugin ==
  ~careless =>
    \A h \in Handles : handles[h] # Closed => handles[h].kind = handles[h].asked

\* Records put into a persistent table stay there until they are deleted or the
\* table is dropped: over crashes, reopening and creating the table again.
RecordsSurvive ==
  \A t \in TableIds : stored[t] # {} => dirs[t] # NoDir /\ stored[t] \subseteq dirs[t]
=============================================================================
