-------------------------- MODULE LevelTableProofs --------------------------
(***************************************************************************)
(* Proofs about LevelTable, for any set of keys and values: a scan returns *)
(* the records of the moment the cursor was opened.                        *)
(*                                                                         *)
(* LevelInv is inductive.  Its last part relates the place of the iterator *)
(* to what has been fetched, for any seek: the keys fetched are the ones   *)
(* that the iterator passed.                                               *)
(***************************************************************************)
EXTENDS LevelTable, MinMaxProofs, TLAPS

Records == [Keys -> Vals \cup {Absent}]

Iterator == [open : BOOLEAN, sees : Records, at : Keys \cup {0},
             dir : Directions \cup {"none"}]

Types ==
  /\ db \in Records
  /\ cur \in Iterator
  /\ opened \in Records
  /\ sought \in Keys \cup {0}
  /\ got \in Seq([key : Keys, val : Vals \cup {Absent}])
  /\ atEnd \in BOOLEAN

\* The iterator: it sees what the table was, and is at a key of that or nowhere.
CursorInv ==
  /\ cur.at \in KeysIn(cur.sees) \cup {0}
  /\ cur.open => cur.sees = opened
  /\ sought = 0 => cur.at = 0
  /\ sought # 0 => cur.open /\ cur.dir \in Directions

\* The keys that a scan reaches: from the first at or above the one sought, in both
\* directions.  It is what is due when the seek is forward or the key is there.
Reached ==
  LET above == {j \in KeysIn(opened) : j >= sought}
  IN  IF above = {} THEN {}
      ELSE IF cur.dir = "forward" THEN above
      ELSE {j \in KeysIn(opened) : \A i \in above : j <= i}

\* What has been fetched is what is reached before the place of the iterator.
ScanInv ==
  sought # 0 =>
    /\ \A i, j \in DOMAIN got : i < j => Before(got[i].key, got[j].key)
    /\ \A i \in DOMAIN got : got[i].key \in Reached /\ got[i].val = opened[got[i].key]
    /\ \A k \in Reached : Got(k) <=> cur.at = 0 \/ Before(k, cur.at)
    /\ cur.at # 0 => cur.at \in Reached
    /\ atEnd => cur.at = 0

LevelInv == Types /\ CursorInv /\ ScanInv

-----------------------------------------------------------------------------
(***************************************************************************)
(* The iterator                                                            *)
(***************************************************************************)
\* Keys are numbers, and 0 is none of them.
LEMMA KeysAreIntegers ==
  ASSUME NEW r
  PROVE  KeysIn(r) \subseteq Keys /\ KeysIn(r) \subseteq Int /\ 0 \notin KeysIn(r)
<1>1. \A k \in Keys : k \in Int /\ k # 0
  BY LevelAssumption
<1>2. KeysIn(r) \subseteq Keys
  BY DEF KeysIn
<1>  QED
  BY <1>1, <1>2

\* Iterator::Seek finds the first key at or above the one sought.
LEMMA SeekFacts ==
  ASSUME NEW r \in Records, NEW k \in Keys
  PROVE  LET s == Seek(r, k)  above == {j \in KeysIn(r) : j >= k} IN
           \/ s = 0 /\ above = {}
           \/ s \in above /\ \A j \in above : s <= j
<1>  DEFINE above == {j \in KeysIn(r) : j >= k}
<1>0. k \in Int
  BY LevelAssumption
<1>1. CASE above = {}
  BY <1>1 DEF Seek
<1>2. CASE above # {}
  <2>1. above \in SUBSET Int /\ \A x \in above : x >= k
    BY KeysAreIntegers
  <2>2. Seek(r, k) = Min(above)
    BY <1>2 DEF Seek
  <2>  HIDE DEF above
  <2>3. Min(above) \in above /\ \A j \in above : Min(above) <= j
    BY <1>0, <1>2, <2>1, MinOfIntegers
  <2>  QED
    BY <2>2, <2>3 DEF above
<1>  QED
  BY <1>1, <1>2

\* Iterator::Next and Prev go to the next key in their direction, and past none.
LEMMA StepFacts ==
  ASSUME NEW r \in Records, NEW at \in KeysIn(r), NEW dir \in Directions
  PROVE  LET s == Step(r, at, dir)
             beyond == {j \in KeysIn(r) : IF dir = "forward" THEN j > at ELSE j < at}
         IN  \/ s = 0 /\ beyond = {}
             \/ s \in beyond /\ \A j \in beyond : IF dir = "forward" THEN s <= j ELSE j <= s
<1>  DEFINE beyond == {j \in KeysIn(r) : IF dir = "forward" THEN j > at ELSE j < at}
<1>0. at \in Int /\ beyond \in SUBSET Int
  BY KeysAreIntegers
<1>1. CASE beyond = {}
  BY <1>1 DEF Step
<1>2. CASE beyond # {} /\ dir = "forward"
  <2>1. \A x \in beyond : x >= at
    BY <1>0, <1>2
  <2>2. Step(r, at, dir) = Min(beyond)
    BY <1>2 DEF Step
  <2>  HIDE DEF beyond
  <2>3. Min(beyond) \in beyond /\ \A j \in beyond : Min(beyond) <= j
    BY <1>0, <1>2, <2>1, MinOfIntegers
  <2>  QED
    BY <1>2, <2>2, <2>3 DEF beyond
<1>3. CASE beyond # {} /\ dir # "forward"
  <2>1. \A x \in beyond : x <= at
    BY <1>0, <1>3
  <2>2. Step(r, at, dir) = Max(beyond)
    BY <1>3 DEF Step
  <2>  HIDE DEF beyond
  <2>3. Max(beyond) \in beyond /\ \A j \in beyond : j <= Max(beyond)
    BY <1>0, <1>3, <2>1, MaxOfIntegers
  <2>  QED
    BY <1>3, <2>2, <2>3 DEF beyond
<1>  QED
  BY <1>1, <1>2, <1>3

-----------------------------------------------------------------------------
(***************************************************************************)
(* One lemma per kind of step                                              *)
(***************************************************************************)
\* Steps that leave the cursor and what it has fetched alone keep the scan.
LEMMA CursorFrame ==
  CursorInv /\ ScanInv /\ UNCHANGED <<cur, scanVars>> => CursorInv' /\ ScanInv'
<1>  SUFFICES ASSUME CursorInv, ScanInv, UNCHANGED <<cur, scanVars>>
              PROVE  CursorInv' /\ ScanInv'
  OBVIOUS
<1>1. CursorInv'
  BY DEF CursorInv, scanVars
<1>2. Reached' = Reached /\ \A i, j : (Before(i, j)' <=> Before(i, j)) /\ (Got(i)' <=> Got(i))
  BY DEF Reached, Before, Got, scanVars
<1>3. ScanInv'
  BY <1>2 DEF ScanInv, scanVars
<1>  QED
  BY <1>1, <1>3

\* table_put and table_del
LEMMA WriteLevel ==
  ASSUME LevelInv, NEW k \in Keys, table_del(k) \/ \E v \in Vals : table_put(k, v)
  PROVE  LevelInv'
<1>1. db' \in Records /\ UNCHANGED <<cur, scanVars>>
  BY DEF LevelInv, Types, Records, table_del, table_put
<1>2. Types'
  BY <1>1 DEF LevelInv, Types, scanVars
<1>  QED
  BY <1>1, <1>2, CursorFrame DEF LevelInv

\* A cursor that is opened or closed has fetched nothing.
LEMMA OpenCloseLevel ==
  ASSUME LevelInv, cursor_open \/ cursor_close
  PROVE  LevelInv'
<1>0. /\ <<>> \in Seq([key : Keys, val : Vals \cup {Absent}])
      /\ NoRecords \in Records /\ Closed \in Iterator /\ Closed.at = 0 /\ ~Closed.open
  BY DEF NoRecords, Records, Closed, Iterator
<1>1. CASE cursor_open
  <2>1. /\ ~cur.open /\ cur' = [Closed EXCEPT !.open = TRUE, !.sees = db] /\ opened' = db
        /\ UNCHANGED <<db, sought, got, atEnd>>
    BY <1>1 DEF cursor_open
  <2>2. cur' \in Iterator /\ cur'.at = 0 /\ cur'.sees = db
    BY <2>1 DEF LevelInv, Types, Closed, Iterator
  <2>3. sought' = 0
    BY <2>1 DEF LevelInv, CursorInv
  <2>4. Types'
    BY <2>1, <2>2 DEF LevelInv, Types
  <2>  QED
    BY <2>1, <2>2, <2>3, <2>4 DEF LevelInv, CursorInv, ScanInv
<1>2. CASE cursor_close
  <2>1. /\ cur' = Closed /\ opened' = NoRecords /\ sought' = 0 /\ got' = <<>> /\ atEnd' = FALSE
        /\ UNCHANGED db
    BY <1>2 DEF cursor_close
  <2>2. Types'
    BY <1>0, <2>1 DEF LevelInv, Types
  <2>3. CursorInv' /\ ScanInv'
    BY <1>0, <2>1 DEF CursorInv, ScanInv
  <2>  QED
    BY <2>2, <2>3 DEF LevelInv
<1>  QED
  BY <1>1, <1>2

\* cursor_seek goes to the first key that is reached.
LEMMA SeekLevel ==
  ASSUME LevelInv, NEW dir \in Directions, NEW k \in Keys, cursor_seek(dir, k)
  PROVE  LevelInv'
<1>0. k \in Int /\ k # 0
  BY LevelAssumption
<1>1. /\ cur.open /\ cur.sees = opened /\ opened \in Records /\ opened' = opened
      /\ sought' = k /\ got' = <<>> /\ atEnd' = FALSE /\ UNCHANGED db
  BY DEF LevelInv, cursor_seek, CursorInv, Types
<1>  DEFINE above == {j \in KeysIn(opened) : j >= k}
<1>s. PICK s : s = Seek(opened, k)
  OBVIOUS
<1>2. cur' = [cur EXCEPT !.dir = dir, !.at = s]
  BY <1>1, <1>s DEF cursor_seek
<1>3. \/ s = 0 /\ above = {}
      \/ s \in above /\ \A j \in above : s <= j
  BY <1>1, <1>s, SeekFacts
<1>4. s \in KeysIn(opened) \cup {0}
  BY <1>3
<1>5. /\ cur' \in Iterator /\ cur'.open = cur.open /\ cur'.sees = opened /\ cur'.at = s
      /\ cur'.dir = dir
  BY <1>1, <1>2, <1>4 DEF LevelInv, Types, Iterator, KeysIn
<1>6. Types'
  <2>1. <<>> \in Seq([key : Keys, val : Vals \cup {Absent}])
    OBVIOUS
  <2>  QED
    BY <1>1, <1>5, <2>1 DEF LevelInv, Types
<1>7. CursorInv'
  BY <1>0, <1>1, <1>4, <1>5 DEF CursorInv
<1>8. /\ Reached' = IF above = {} THEN {} ELSE IF dir = "forward" THEN above
                ELSE {j \in KeysIn(opened) : \A i \in above : j <= i}
      /\ \A i, j : Before(i, j)' <=> IF dir = "forward" THEN i < j ELSE i > j
      /\ \A i : ~Got(i)'
  BY <1>1, <1>5 DEF Reached, Before, Got
<1>9. \A j \in Reached' : j \in Int
  BY <1>8, KeysAreIntegers
<1>10. s # 0 => s \in Reached' /\ \A j \in Reached' : ~Before(j, s)'
  <2>  SUFFICES ASSUME s # 0 PROVE s \in Reached' /\ \A j \in Reached' : ~Before(j, s)'
    OBVIOUS
  <2>1. s \in above /\ s \in KeysIn(opened) /\ s \in Int /\ \A j \in above : s <= j
    BY <1>3, KeysAreIntegers
  <2>2. CASE dir = "forward"
    BY <1>8, <1>9, <2>1, <2>2
  <2>3. CASE dir # "forward"
    BY <1>8, <1>9, <2>1, <2>3
  <2>  QED
    BY <2>2, <2>3
<1>11. s = 0 => Reached' = {}
  BY <1>3, <1>8, KeysAreIntegers
<1>12. ScanInv'
  <2>1. /\ \A j \in Reached' : Got(j)' <=> cur'.at = 0 \/ Before(j, cur.at)'
        /\ cur'.at # 0 => cur'.at \in Reached'
    BY <1>5, <1>8, <1>10, <1>11
  <2>2. DOMAIN got' = {}
    BY <1>1
  <2>  QED
    BY <1>1, <2>1, <2>2 DEF ScanInv
<1>  QED
  BY <1>6, <1>7, <1>12 DEF LevelInv

\* cursor_fetch returns the key the iterator is at and goes to the next one.
LEMMA FetchLevel ==
  ASSUME LevelInv, cursor_fetch
  PROVE  LevelInv'
<1>0. cur.open /\ cur.sees = opened /\ UNCHANGED <<db, opened, sought>>
  BY DEF LevelInv, CursorInv, cursor_fetch
<1>1. CASE cur.at = 0
  <2>1. atEnd' = TRUE /\ UNCHANGED <<cur, got>>
    BY <1>1 DEF cursor_fetch
  <2>2. Types' /\ CursorInv'
    BY <1>0, <2>1 DEF LevelInv, Types, CursorInv
  <2>3. Reached' = Reached /\ \A i, j : (Before(i, j)' <=> Before(i, j)) /\ (Got(i)' <=> Got(i))
    BY <1>0, <2>1 DEF Reached, Before, Got
  <2>4. ScanInv'
    BY <1>0, <1>1, <2>1, <2>3 DEF LevelInv, ScanInv
  <2>  QED
    BY <2>2, <2>4 DEF LevelInv
<1>2. CASE cur.at # 0
  <2>a. PICK at : at = cur.at
    OBVIOUS
  <2>s. PICK s : s = Step(opened, at, cur.dir)
    OBVIOUS
  <2>e. PICK entry : entry = [key |-> at, val |-> opened[at]]
    OBVIOUS
  <2>1. got' = Append(got, entry) /\ cur' = [cur EXCEPT !.at = s] /\ UNCHANGED atEnd
    BY <1>0, <1>2, <2>a, <2>s, <2>e DEF cursor_fetch
  <2>2. at \in KeysIn(opened) /\ at \in Keys /\ at \in Int /\ opened \in Records
    BY <1>0, <1>2, <2>a, KeysAreIntegers DEF LevelInv, CursorInv, Types
  <2>3. /\ entry \in [key : Keys, val : Vals \cup {Absent}]
        /\ entry.key = at /\ entry.val = opened[at]
    BY <2>2, <2>e DEF Records
  <2>4. got \in Seq([key : Keys, val : Vals \cup {Absent}])
    BY DEF LevelInv, Types
  <2>5. /\ got' \in Seq([key : Keys, val : Vals \cup {Absent}])
        /\ DOMAIN got' = DOMAIN got \cup {Len(got) + 1} /\ got'[Len(got) + 1] = entry
        /\ \A i \in DOMAIN got : got'[i] = got[i] /\ i \in Nat /\ i < Len(got) + 1
        /\ Len(got) \in Nat
    BY <2>1, <2>3, <2>4
  <2>6. sought # 0 /\ cur.dir \in Directions
    BY <1>2 DEF LevelInv, CursorInv
  <2>7. /\ \A i, j \in DOMAIN got : i < j => Before(got[i].key, got[j].key)
        /\ \A i \in DOMAIN got : got[i].key \in Reached /\ got[i].val = opened[got[i].key]
        /\ \A k \in Reached : Got(k) <=> Before(k, at)
        /\ at \in Reached
        /\ ~atEnd
    BY <1>2, <2>6, <2>a DEF LevelInv, ScanInv
  <2>8. \/ s = 0 /\ {j \in KeysIn(opened) : Before(at, j)} = {}
        \/ /\ s \in KeysIn(opened) /\ Before(at, s)
           /\ \A j \in KeysIn(opened) : Before(at, j) => j = s \/ Before(s, j)
    <3>1. \A j \in KeysIn(opened) : j \in Int
      BY KeysAreIntegers
    <3>  DEFINE beyond == {j \in KeysIn(opened) : IF cur.dir = "forward" THEN j > at ELSE j < at}
    <3>2. \/ s = 0 /\ beyond = {}
          \/ s \in beyond /\ \A j \in beyond : IF cur.dir = "forward" THEN s <= j ELSE j <= s
      BY <2>s, <2>2, <2>6, StepFacts
    <3>3. \A j \in KeysIn(opened) : j \in beyond <=> Before(at, j)
      BY <2>2, <3>1 DEF Before
    <3>  HIDE DEF beyond
    <3>4. beyond \subseteq KeysIn(opened)
      BY DEF beyond
    <3>5. CASE s = 0 /\ beyond = {}
      BY <3>3, <3>5
    <3>6. CASE s \in beyond /\ \A j \in beyond : IF cur.dir = "forward" THEN s <= j ELSE j <= s
      <4>1. s \in KeysIn(opened) /\ s \in Int /\ Before(at, s)
        BY <3>1, <3>3, <3>4, <3>6
      <4>2. \A j \in beyond : j = s \/ Before(s, j)
        BY <3>1, <3>4, <3>6, <4>1 DEF Before
      <4>  QED
        BY <3>3, <4>1, <4>2
    <3>  QED
      BY <3>2, <3>5, <3>6
  <2>9. /\ cur' \in Iterator /\ cur'.open = cur.open /\ cur'.sees = opened /\ cur'.at = s
        /\ cur'.dir = cur.dir
    BY <1>0, <2>1, <2>2, <2>8, KeysAreIntegers DEF LevelInv, Types, Iterator
  <2>10. Types'
    BY <1>0, <2>1, <2>5, <2>9 DEF LevelInv, Types
  <2>11. CursorInv'
    BY <1>0, <2>6, <2>8, <2>9 DEF CursorInv
  <2>12. Reached' = Reached /\ \A i, j : Before(i, j)' <=> Before(i, j)
    BY <1>0, <2>9 DEF Reached, Before
  <2>13. \A k : Got(k)' <=> Got(k) \/ k = at
    BY <2>3, <2>5 DEF Got
  <2>14. Reached \subseteq KeysIn(opened) /\ \A j \in KeysIn(opened) : Before(at, j) => j \in Reached
    <3>1. \A j \in KeysIn(opened) : j \in Int
      BY KeysAreIntegers
    <3>2. sought \in Int
      BY LevelAssumption DEF LevelInv, Types
    <3>3. CASE cur.dir = "forward"
      BY <2>2, <2>7, <3>1, <3>2, <3>3 DEF Reached, Before
    <3>4. CASE cur.dir # "forward"
      <4>  DEFINE above == {j \in KeysIn(opened) : j >= sought}
      <4>1. above # {} /\ Reached = {j \in KeysIn(opened) : \A i \in above : j <= i}
        BY <2>7, <3>4 DEF Reached
      <4>2. \A i \in above : i \in Int /\ at <= i
        BY <2>7, <3>1, <4>1
      <4>  HIDE DEF above
      <4>3. \A j \in KeysIn(opened) : j < at => \A i \in above : j <= i
        BY <2>2, <3>1, <4>2
      <4>  QED
        BY <3>4, <4>1, <4>3, <2>2, <3>1 DEF Before
    <3>  QED
      BY <3>3, <3>4
  <2>15. \A k \in Reached : Got(k)' <=> s = 0 \/ Before(k, s)
    <3>1. \A j \in Reached : j \in Int
      BY <2>14, KeysAreIntegers
    <3>2. s \in Int
      BY <2>8, KeysAreIntegers
    <3>  SUFFICES ASSUME NEW k \in Reached
                  PROVE  Before(k, at) \/ k = at <=> s = 0 \/ Before(k, s)
      BY <2>7, <2>13
    <3>3. Before(k, at) \/ k = at \/ Before(at, k)
      BY <2>2, <3>1 DEF Before
    <3>4. ~(Before(at, k) /\ Before(k, at)) /\ ~(Before(at, k) /\ k = at)
      BY <2>2, <3>1 DEF Before
    <3>5. CASE s = 0 /\ {j \in KeysIn(opened) : Before(at, j)} = {}
      BY <2>14, <3>3, <3>5
    <3>6. CASE /\ s \in KeysIn(opened) /\ Before(at, s)
               /\ \A j \in KeysIn(opened) : Before(at, j) => j = s \/ Before(s, j)
      <4>1. s # 0
        BY <3>6, KeysAreIntegers
      <4>2. Before(k, at) \/ k = at => Before(k, s)
        BY <3>1, <3>2, <3>6, <2>2 DEF Before
      <4>3. Before(at, k) => ~Before(k, s)
        <5>1. k \in KeysIn(opened)
          BY <2>14
        <5>2. Before(at, k) => k = s \/ Before(s, k)
          BY <5>1, <3>6
        <5>  QED
          BY <5>2, <3>1, <3>2 DEF Before
      <4>  QED
        BY <3>3, <3>4, <4>1, <4>2, <4>3
    <3>  QED
      BY <2>8, <3>5, <3>6
  <2>16. \A i, j \in DOMAIN got' : i < j => Before(got'[i].key, got'[j].key)
    <3>  SUFFICES ASSUME NEW i \in DOMAIN got', NEW j \in DOMAIN got', i < j
                  PROVE  Before(got'[i].key, got'[j].key)
      OBVIOUS
    <3>1. i \in DOMAIN got
      BY <2>5
    <3>2. Got(got[i].key)
      BY <3>1 DEF Got
    <3>  QED
      BY <2>3, <2>5, <2>7, <3>1, <3>2
  <2>17. \A i \in DOMAIN got' : got'[i].key \in Reached /\ got'[i].val = opened[got'[i].key]
    BY <2>3, <2>5, <2>7
  <2>18. s # 0 => s \in Reached
    BY <2>8, <2>14
  <2>19. /\ \A i, j \in DOMAIN got' : i < j => Before(got[i].key, got[j].key)'
         /\ \A k \in Reached' : Got(k)' <=> cur'.at = 0 \/ Before(k, cur.at)'
    BY <2>9, <2>12, <2>15, <2>16
  <2>20. ScanInv'
    BY <1>0, <2>1, <2>7, <2>9, <2>12, <2>17, <2>18, <2>19 DEF ScanInv
  <2>  QED
    BY <2>10, <2>11, <2>20 DEF LevelInv
<1>  QED
  BY <1>1, <1>2

-----------------------------------------------------------------------------
(***************************************************************************)
(* The theorems                                                            *)
(***************************************************************************)
\* The table starts empty and without a cursor.
LEMMA LevelStart == LevelInit => LevelInv
<1>  SUFFICES ASSUME LevelInit PROVE LevelInv
  OBVIOUS
<1>1. /\ <<>> \in Seq([key : Keys, val : Vals \cup {Absent}])
      /\ NoRecords \in Records /\ Closed \in Iterator /\ Closed.at = 0 /\ ~Closed.open
  BY DEF NoRecords, Records, Closed, Iterator
<1>2. Types
  BY <1>1 DEF LevelInit, Types
<1>3. CursorInv /\ ScanInv
  BY <1>1 DEF LevelInit, CursorInv, ScanInv
<1>  QED
  BY <1>2, <1>3 DEF LevelInv

\* Every write and every step of the cursor keeps the invariant.
LEMMA LevelStep == LevelInv /\ [LevelNext]_levelVars => LevelInv'
<1>  SUFFICES ASSUME LevelInv, [LevelNext]_levelVars PROVE LevelInv'
  OBVIOUS
<1>1. CASE \E k \in Keys : table_del(k) \/ \E v \in Vals : table_put(k, v)
  BY <1>1, WriteLevel
<1>2. CASE cursor_open \/ cursor_close
  BY <1>2, OpenCloseLevel
<1>3. CASE \E dir \in Directions, k \in Keys : cursor_seek(dir, k)
  BY <1>3, SeekLevel
<1>4. CASE cursor_fetch
  BY <1>4, FetchLevel
<1>5. CASE UNCHANGED levelVars
  <2>1. Types'
    BY <1>5 DEF LevelInv, Types, levelVars, scanVars
  <2>  QED
    BY <1>5, <2>1, CursorFrame DEF LevelInv, levelVars
<1>  QED
  BY <1>1, <1>2, <1>3, <1>4, <1>5 DEF LevelNext

\* The inductive invariant: what was fetched is what the iterator has passed.
THEOREM LevelInvariant == LevelSpec => []LevelInv
BY LevelStart, LevelStep, PTL DEF LevelSpec

\* A valid iterator is at a key of the records it sees.
THEOREM LevelTypeCorrect == LevelSpec => []LevelTypeOK
<1>1. LevelInv => LevelTypeOK
  BY DEF LevelInv, Types, Iterator, Records, CursorInv, LevelTypeOK
<1>  QED
  BY <1>1, LevelInvariant, PTL

\* Where the code and its tests agree on what is due, it is what is reached.
LEMMA ReachedIsDue ==
  ASSUME Types, sought # 0, cur.dir = "forward" \/ sought \in KeysIn(opened)
  PROVE  Due = Reached
<1>1. sought \in Int /\ KeysIn(opened) \subseteq Int
  BY LevelAssumption, KeysAreIntegers DEF Types
<1>  DEFINE above == {j \in KeysIn(opened) : j >= sought}
<1>2. CASE cur.dir = "forward"
  BY <1>2 DEF Due, Reached
<1>3. CASE cur.dir # "forward"
  <2>1. sought \in above /\ \A i \in above : sought <= i /\ i \in Int
    BY <1>1, <1>3
  <2>2. Reached = {j \in KeysIn(opened) : \A i \in above : j <= i}
    BY <1>3, <2>1 DEF Reached
  <2>3. Due = {j \in KeysIn(opened) : j <= sought}
    BY <1>3 DEF Due
  <2>  HIDE DEF above
  <2>4. \A j \in KeysIn(opened) : (\A i \in above : j <= i) <=> j <= sought
    BY <1>1, <2>1
  <2>  QED
    BY <2>2, <2>3, <2>4
<1>  QED
  BY <1>2, <1>3

\* A scan returns records of cursor_open, in order and each once, whatever is written
\* meanwhile; and from the key sought none is left out, when the seek is forward or
\* the key is there.
THEOREM SnapshotScanHolds == LevelSpec => []SnapshotScan
<1>1. ASSUME LevelInv, sought # 0 PROVE SnapshotScan
  <2>1. \A k \in Reached : Got(k) <=> cur.at = 0 \/ Before(k, cur.at)
    BY <1>1 DEF LevelInv, ScanInv
  <2>2. Reached \subseteq Int /\ cur.at \in Int
    <3>1. Reached \subseteq KeysIn(opened)
      BY DEF Reached
    <3>2. cur.at \in Keys \cup {0}
      BY <1>1 DEF LevelInv, Types, Iterator
    <3>3. \A k \in Keys : k \in Int
      BY LevelAssumption
    <3>4. cur.at \in Int
      BY <3>2, <3>3
    <3>5. KeysIn(opened) \subseteq Int
      BY KeysAreIntegers
    <3>  QED
      BY <3>1, <3>4, <3>5
  <2>3. \A i \in DOMAIN got : \A k \in Reached : Before(k, got[i].key) => Got(k)
    <3>  SUFFICES ASSUME NEW i \in DOMAIN got, NEW k \in Reached, Before(k, got[i].key) PROVE Got(k)
      OBVIOUS
    <3>1. got[i].key \in Reached /\ Got(got[i].key)
      BY <1>1 DEF LevelInv, ScanInv, Got
    <3>2. cur.at = 0 \/ Before(got[i].key, cur.at)
      BY <2>1, <3>1
    <3>3. cur.at = 0 \/ Before(k, cur.at)
      <4>1. k \in Int /\ got[i].key \in Int /\ cur.at \in Int
        BY <2>2, <3>1
      <4>  QED
        BY <3>2, <4>1 DEF Before
    <3>  QED
      BY <2>1, <3>3
  <2>4. \A i \in DOMAIN got : got[i].key \in Reached /\ got[i].val = opened[got[i].key]
    BY <1>1 DEF LevelInv, ScanInv
  <2>5. Reached \subseteq KeysIn(opened)
    BY DEF Reached
  <2>6. cur.dir = "forward" \/ sought \in KeysIn(opened) => Due = Reached
    BY <1>1, ReachedIsDue DEF LevelInv
  <2>7. /\ \A i, j \in DOMAIN got : i < j => Before(got[i].key, got[j].key)
        /\ atEnd => \A k \in Reached : Got(k)
    BY <1>1, <2>1 DEF LevelInv, ScanInv
  <2>  QED
    BY <2>3, <2>4, <2>5, <2>6, <2>7 DEF SnapshotScan
<1>2. LevelInv => SnapshotScan
  BY <1>1 DEF SnapshotScan
<1>  QED
  BY <1>2, LevelInvariant, PTL
=============================================================================
