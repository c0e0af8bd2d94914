----------------------------- MODULE LevelTable -----------------------------
(***************************************************************************)
(* A table of nldb_plugin_leveldb_t: table_put, table_del and a cursor, in *)
(* whatever order one thread calls them (a directory can be opened once, so*)
(* nobody else has the table).  The cursor is a leveldb iterator, which    *)
(* sees the table as it was when the cursor was opened.  leveldb itself is *)
(* external.                                                               *)
(***************************************************************************)
EXTENDS Integers, Sequences, FiniteSetsExt

CONSTANTS Keys, Vals, Absent

ASSUME LevelAssumption ==
  /\ Keys \subseteq Nat \ {0}
  /\ Absent \notin Vals

VARIABLES
  db,        \* the records of the leveldb database
  cur,       \* leveldb_cursor_context_t: what iter_ sees, its place and dir_
  \* history
  opened,    \* the records when the cursor was opened
  sought,    \* the key of the last cursor_seek, or 0
  got,       \* the entries fetched since then
  atEnd      \* has a fetch returned NLDB_ERROR_END_OF_ITERATION?

scanVars == <<opened, sought, got, atEnd>>
levelVars == <<db, cur, scanVars>>

Directions == {"forward", "backward"}

NoRecords == [k \in Keys |-> Absent]

KeysIn(records) == {k \in Keys : records[k] # Absent}

Closed == [open |-> FALSE, sees |-> NoRecords, at |-> 0, dir |-> "none"]

LevelInit ==
  /\ db = NoRecords
  /\ cur = Closed
  /\ opened = NoRecords /\ sought = 0 /\ got = <<>> /\ atEnd = FALSE

(***************************************************************************)
(* Writes                                                                  *)
(***************************************************************************)
table_put(k, v) ==
  /\ db' = [db EXCEPT ![k] = v]
  /\ UNCHANGED <<cur, scanVars>>

\* NLDB_ERROR_KEY_NOT_FOUND changes nothing.
table_del(k) ==
  /\ db[k] # Absent
  /\ db' = [db EXCEPT ![k] = Absent]
  /\ UNCHANGED <<cur, scanVars>>

(***************************************************************************)
(* The cursor                                                              *)
(***************************************************************************)
\* A new iterator is not valid until it seeks.
cursor_open ==
  /\ ~cur.open
  /\ cur' = [Closed EXCEPT !.open = TRUE, !.sees = db]
  /\ opened' = db
  /\ UNCHANGED <<db, sought, got, atEnd>>

\* A Seek that takes the key to be there.
SeekUnchecked(records, k) == k

\* Iterator::Seek: the first key at or above k, or not valid (0).
Seek(records, k) ==
  LET above == {j \in KeysIn(records) : j >= k}
  IN  IF above = {} THEN 0 ELSE Min(above)

\* cursor_seek by key positions the iterator the same way for both directions.
\* By order it is NLDB_ERROR_UNSUPPORTED_FEATURE and changes nothing.
cursor_seek(dir, k) ==
  /\ cur.open
  /\ cur' = [cur EXCEPT !.dir = dir, !.at = Seek(cur.sees, k)]
  /\ sought' = k /\ got' = <<>> /\ atEnd' = FALSE
  /\ UNCHANGED <<db, opened>>

\* Iterator::Next and Prev.
Step(records, at, dir) ==
  LET beyond == {j \in KeysIn(records) : IF dir = "forward" THEN j > at ELSE j < at}
  IN  IF beyond = {} THEN 0
      ELSE IF dir = "forward" THEN Min(beyond) ELSE Max(beyond)

\* A fetch whose iterator returns the value the table has now.
FetchLive ==
  /\ cur.open
  /\ IF cur.at = 0
       THEN atEnd' = TRUE /\ UNCHANGED <<cur, got>>
       ELSE /\ got' = Append(got, [key |-> cur.at, val |-> db[cur.at]])
            /\ cur' = [cur EXCEPT !.at = Step(cur.sees, cur.at, cur.dir)]
            /\ UNCHANGED atEnd
  /\ UNCHANGED <<db, opened, sought>>

\* cursor_fetch without an order: the entry the iterator is at, and then Next or Prev.
cursor_fetch ==
  /\ cur.open
  /\ IF cur.at = 0
       THEN atEnd' = TRUE /\ UNCHANGED <<cur, got>>
       ELSE /\ got' = Append(got, [key |-> cur.at, val |-> cur.sees[cur.at]])
            /\ cur' = [cur EXCEPT !.at = Step(cur.sees, cur.at, cur.dir)]
            /\ UNCHANGED atEnd
  /\ UNCHANGED <<db, opened, sought>>

cursor_close ==
  /\ cur.open
  /\ cur' = Closed
  /\ opened' = NoRecords /\ sought' = 0 /\ got' = <<>> /\ atEnd' = FALSE
  /\ UNCHANGED db

LevelNext ==
  \/ \E k \in Keys : table_del(k) \/ \E v \in Vals : table_put(k, v)
  \/ cursor_open
  \/ \E dir \in Directions, k \in Keys : cursor_seek(dir, k)
  \/ cursor_fetch
  \/ cursor_close

LevelSpec == LevelInit /\ [][LevelNext]_levelVars

(***************************************************************************)
(* Properties                                                              *)
(***************************************************************************)
\* Types; and an iterator that is valid is at a key it sees.
LevelTypeOK ==
  /\ db \in [Keys -> Vals \cup {Absent}]
  /\ cur.dir \in Directions \cup {"none"}
  /\ cur.at \in KeysIn(cur.sees) \cup {0}

\* The keys a scan owes: from the one sought, in the direction of the seek.
Due ==
  {j \in KeysIn(opened) : IF cur.dir = "forward" THEN j >= sought ELSE j <= sought}

\* Does i come before j in the direction of the scan?
Before(i, j) == IF cur.dir = "forward" THEN i < j ELSE i > j

Got(k) == \E i \in DOMAIN got : got[i].key = k

\* What a cursor returns after cursor_seek is the table as it was at cursor_open:
\* records of then, in the direction of the seek, each once, whatever is put and
\* deleted between the fetches and however often the cursor is sought again.  After
\* a seek forward, and a seek backward to a key that is there, they are those from
\* the key sought, none is left out, and NLDB_ERROR_END_OF_ITERATION comes only when
\* all have been returned.
SnapshotScan ==
  sought # 0 =>
    /\ \A i, j \in DOMAIN got : i < j => Before(got[i].key, got[j].key)
    /\ \A i \in DOMAIN got :
         got[i].key \in KeysIn(opened) /\ got[i].val = opened[got[i].key]
    /\ cur.dir = "forward" \/ sought \in KeysIn(opened) =>
         /\ \A i \in DOMAIN got :
              got[i].key \in Due /\ \A k \in Due : Before(k, got[i].key) => Got(k)
         /\ atEnd => \A k \in Due : Got(k)
=============================================================================
