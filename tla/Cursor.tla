------------------------------- MODULE Cursor -------------------------------
(***************************************************************************)
(* A cursor on an array tree table: cursor_open, cursor_seek by key or by  *)
(* order, cursor_fetch and cursor_close of nldb_plugin_array_tree_t over   *)
(* seek_forward / seek_backward and move_forward / move_backward of the    *)
(* tree.  An iterator is a leaf and a position in it, which a write to the *)
(* table while the cursor is open leaves stale.  The application stops     *)
(* fetching at NLDB_ERROR_END_OF_ITERATION.  The debug assertions are on.  *)
(***************************************************************************)
EXTENDS TreeQueries

CONSTANT MaxWrites   \* bound: the writes between a seek and the end of the scan

ASSUME CursorAssumption == MaxWrites \in Nat

VARIABLES
  tree,
  cur,    \* the cursor context: direction, leaf, position and key_order_
  sound,  \* FALSE once a debug assertion on an iterator has failed
  \* history
  exact,  \* did the cursor seek an order, or a key that is there?
  due,    \* what the table held from where the cursor was sought
  got,    \* what was fetched, with the orders returned
  atEnd,  \* has a fetch returned NLDB_ERROR_END_OF_ITERATION?
  writes  \* the writes since the cursor was sought: "put" or "del"

scanVars == <<exact, due, got, atEnd, writes>>

Directions == {"forward", "backward"}

NoCursor == [dir |-> "none", leaf |-> 0, pos |-> 0, order |-> 0]

CursorInit ==
  /\ tree = NoTree
  /\ cur = NoCursor /\ sound = TRUE
  /\ exact = FALSE /\ due = <<>> /\ got = <<>> /\ atEnd = FALSE /\ writes = <<>>

(***************************************************************************)
(* seek                                                                    *)
(***************************************************************************)
\* The state after a seek has put the cursor at c.
Sought(c, isExact, entries) ==
  /\ cur' = c
  /\ exact' = isExact /\ due' = entries
  /\ got' = <<>> /\ atEnd' = FALSE /\ writes' = <<>>
  /\ UNCHANGED <<tree, sound>>

KeysFrom(k, dir) ==
  IF dir = "forward" THEN SelectSeq(AllEntries(tree), LAMBDA e : e.key >= k)
  ELSE Reverse(SelectSeq(AllEntries(tree), LAMBDA e : e.key <= k))

\* cursor_seek by key.  On a table that has no tree yet it does nothing, and a
\* fetch finds nothing.  key_order_ is what get returns for the key, found or not.
SeekKey(dir, k) ==
  IF tree = NoTree
    THEN Sought([NoCursor EXCEPT !.dir = dir], FALSE, <<>>)
    ELSE LET leaf == find_leaf_node(tree, tree.root, k).leaf
             arr  == tree.node[leaf].arr
             pos  == IF dir = "forward" THEN iter_forward(arr, k)
                                        ELSE iter_backward(arr, k)
         IN  Sought([dir |-> dir, leaf |-> leaf, pos |-> pos,
                     order |-> GetByKey(tree, k).order],
                    Has(arr, k), KeysFrom(k, dir))

KeysFromOrder(order, dir) ==
  IF dir = "forward" THEN SubSeq(AllEntries(tree), order, Len(AllEntries(tree)))
  ELSE Reverse(SubSeq(AllEntries(tree), 1, order))

\* cursor_seek by order; an order that is out of range returns an error and leaves
\* the cursor alone.
SeekOrder(dir, order) ==
  /\ tree # NoTree
  /\ order \in 1 .. get_key_count(tree)
  /\ LET f == find_leaf_node_by_order(tree, tree.root, order) IN
       Sought([dir |-> dir, leaf |-> f.leaf, pos |-> order - f.before,
               order |-> order],
              TRUE, KeysFromOrder(order, dir))

(***************************************************************************)
(* fetch                                                                   *)
(***************************************************************************)
Toward(dir) == IF dir = "forward" THEN 1 ELSE -1

\* An entry at the first key also when moving backward.
FirstPositionForward(c, arr) == 1

\* iter_forward / iter_backward without a key: where a leaf is entered.
FirstPosition(c, arr) == IF c.dir = "forward" THEN 1 ELSE Len(arr)

\* A move that takes a position past the end of the leaf for its last entry.
MoveClamped(c) ==
  IF c.leaf = 0 THEN [found |-> FALSE, leaf |-> 0, pos |-> 0]
  ELSE LET node  == tree.node[c.leaf]
           other == IF c.dir = "forward" THEN node.next ELSE node.prev
           arr   == tree.node[other].arr
           pos   == IF c.pos > Len(node.arr) + 1 THEN Len(node.arr) ELSE c.pos
       IN  IF pos \in DOMAIN node.arr
             THEN [found |-> TRUE, leaf |-> c.leaf, pos |-> pos]
           ELSE IF other = 0 THEN [found |-> FALSE, leaf |-> 0, pos |-> 0]
           ELSE [found |-> arr # <<>>, leaf |-> other, pos |-> FirstPosition(c, arr)]

\* move_forward / move_backward: "found" when there is an entry at "pos" of "leaf".
\* At the end of a leaf it looks at one more leaf, and ends when that is empty.
Move(c) ==
  IF c.leaf = 0 THEN [found |-> FALSE, leaf |-> 0, pos |-> 0]
  ELSE LET node  == tree.node[c.leaf]
           other == IF c.dir = "forward" THEN node.next ELSE node.prev
           arr   == tree.node[other].arr
       IN  IF c.pos \in DOMAIN node.arr
             THEN [found |-> TRUE, leaf |-> c.leaf, pos |-> c.pos]
           ELSE IF other = 0 THEN [found |-> FALSE, leaf |-> 0, pos |-> 0]
           ELSE [found |-> arr # <<>>, leaf |-> other, pos |-> FirstPosition(c, arr)]

\* A key_order_ that counts up in both directions.
NextOrderUpward(c) == c.order + 1

NextOrder(c) == c.order + Toward(c.dir)

\* iter_prev asserts that the position is within the leaf, which a write may have
\* moved the end of; without the assertion it returns what the memory behind the
\* end still holds.
PositionStale ==
  cur.dir = "backward" /\ cur.leaf # 0 /\ cur.pos > Len(tree.node[cur.leaf].arr)

FetchFails ==
  /\ cur # NoCursor /\ ~atEnd /\ PositionStale
  /\ sound' = FALSE
  /\ UNCHANGED <<tree, cur, scanVars>>

\* cursor_fetch
Fetch ==
  /\ cur # NoCursor /\ ~atEnd /\ ~PositionStale
  /\ LET m == Move(cur) IN
       IF m.found
         THEN /\ got' = Append(got, [entry |-> tree.node[m.leaf].arr[m.pos],
                                     order |-> cur.order])
              /\ cur' = [cur EXCEPT !.leaf = m.leaf,
                                    !.pos = m.pos + Toward(cur.dir),
                                    !.order = NextOrder(cur)]
              /\ UNCHANGED atEnd
         ELSE /\ cur' = [cur EXCEPT !.leaf = m.leaf, !.pos = m.pos]
              /\ atEnd' = TRUE
              /\ UNCHANGED got
  /\ UNCHANGED <<tree, sound, exact, due, writes>>

\* cursor_close
CloseCursor ==
  /\ cur # NoCursor
  /\ cur' = NoCursor
  /\ exact' = FALSE /\ due' = <<>> /\ got' = <<>> /\ atEnd' = FALSE /\ writes' = <<>>
  /\ UNCHANGED <<tree, sound>>

\* table_put makes the tree when it is the first.
Put(k, v) == tree' = TreePut(IF tree = NoTree THEN NewTree ELSE tree, k, v)

\* table_del of a table without a tree returns early.
Del(k) ==
  /\ tree # NoTree
  /\ DelsMissing \/ GetByKey(tree, k).val # Absent
  /\ tree' = TreeDel(tree, k)

\* A write between two scans.
Write ==
  /\ cur = NoCursor
  /\ \E k \in Keys : Del(k) \/ \E v \in Vals : Put(k, v)
  /\ UNCHANGED <<cur, sound, scanVars>>

\* A write in the middle of a scan.
WriteDuringScan ==
  /\ cur # NoCursor /\ tree # NoTree /\ ~atEnd
  /\ Len(writes) < MaxWrites
  /\ \E k \in Keys :
       \/ Del(k) /\ writes' = Append(writes, "del")
       \/ \E v \in Vals : Put(k, v) /\ writes' = Append(writes, "put")
  /\ UNCHANGED <<cur, sound, exact, due, got, atEnd>>

CursorNext ==
  /\ sound
  /\ \/ Write \/ WriteDuringScan
     \/ \E dir \in Directions :
          \/ \E k \in Keys : SeekKey(dir, k)
          \/ \E order \in 1 .. Cardinality(Keys) : SeekOrder(dir, order)
     \/ Fetch \/ FetchFails
     \/ CloseCursor

CursorSpec == CursorInit /\ [][CursorNext]_<<tree, cur, sound, scanVars>>

(***************************************************************************)
(* Properties                                                              *)
(***************************************************************************)
CursorTypeOK ==
  /\ tree.sane
  /\ \A i \in Addresses(tree) :
       LET n == tree.node[i] IN
         /\ Len(n.arr) <= MaxKeys /\ tree.count[i] \in Int
         /\ {n.left, n.parent, n.prev, n.next} \subseteq 0 .. Len(tree.node)
         /\ \A e \in ToSet(n.arr) :
              e.key \in Keys /\ e.data \in IF n.leaf THEN Vals ELSE Addresses(tree)
  /\ cur = NoCursor \/ cur.dir \in Directions
  /\ cur.leaf \in Leaves(tree) \cup {0}
  /\ cur.pos \in 0 .. MaxKeys + 1
  /\ cur.order \in Int

Fetched == [i \in DOMAIN got |-> got[i].entry]

EmptyLeaf == \E i \in Leaves(tree) : tree.node[i].arr = <<>>

\* A scan returns every key from the one sought on, once, in order and without
\* skipping any at the seams between leaves, wherever it starts: at a key that is
\* there or not, or at an order.  With no emptied leaf in the way it ends only when
\* the keys do.  No assertion fails.
ScanFollowsKeys ==
  writes = <<>> =>
    /\ IsPrefix(Fetched, due)
    /\ atEnd => EmptyLeaf \/ Fetched = due
    /\ sound

\* The order returned with a fetched key is the key's rank, whichever way the scan
\* runs, when the cursor was sought by order or at a key that is there.
OrdersAreRanks ==
  exact /\ writes = <<>> =>
    \A i \in DOMAIN got :
      /\ got[i].order \in DOMAIN AllEntries(tree)
      /\ AllEntries(tree)[got[i].order] = got[i].entry

OnlyWrites(kind) == ToSet(writes) \subseteq {kind}

KeysOf(entries) == {e.key : e \in ToSet(entries)}

\* What is left of a scan whose table is written meanwhile: an iterator that was
\* overtaken by the keys it has passed moving on (puts, seen forward; deletes, seen
\* backward) returns keys again but misses none that is still there, and one that
\* was overtaken by the keys ahead (deletes, forward; puts, backward) may miss keys
\* but returns none twice and none out of order.  A forward scan never fails an
\* assertion.
ScanUnderWrites ==
  /\ cur.dir = "forward" =>
       /\ sound
       /\ OnlyWrites("del") => Ascending(Fetched)
       /\ OnlyWrites("put") /\ atEnd =>
            EmptyLeaf \/ KeysOf(due) \subseteq KeysOf(Fetched)
  /\ cur.dir = "backward" =>
       /\ OnlyWrites("put") => Ascending(Reverse(Fetched))
       /\ OnlyWrites("del") /\ atEnd =>
            EmptyLeaf \/ KeysOf(due) \cap KeysOf(AllEntries(tree)) \subseteq KeysOf(Fetched)

\* "Search all keys keys >= KEY" (nldb_sorted_array.h): END_OF_ITERATION means
\* that there are "no more nodes to iterate".
EndMeansEnd == atEnd /\ writes = <<>> => Fetched = due
=============================================================================
