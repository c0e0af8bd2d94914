----------------------------- MODULE MCTallTree -----------------------------
(***************************************************************************)
(* An instance of ArrayTree with tall trees.  The application first puts   *)
(* ascending or descending keys, as many as it takes for the next puts to  *)
(* split an internal node below the root, or the root; then it puts, gets  *)
(* and deletes what it likes around the places that are about to split.    *)
(***************************************************************************)
EXTENDS ArrayTree, TreeQueries

CONSTANTS
  v, w,
  HotKeys,   \* the keys used after loading
  MaxLoad    \* bound: the keys loaded first

VARIABLE load   \* the keys still to be loaded

MCKeys == {2 * i : i \in 1 .. MaxLoad} \cup HotKeys

Upward(n)   == [i \in 1 .. n |-> 2 * i]
Downward(n) == Reverse(Upward(n))

TallInit ==
  /\ Init
  /\ \E n \in {MaxLoad \div 3, MaxLoad - MaxLoad \div 3, MaxLoad} :
       load \in {Upward(n), Downward(n)}

Load ==
  /\ load # <<>>
  /\ Put(Head(load), v)
  /\ load' = Tail(load)

HotPut(k) == load = <<>> /\ (\E val \in Vals : Put(k, val)) /\ UNCHANGED load

HotDel(k) == load = <<>> /\ Del(k) /\ UNCHANGED load

HotGet(k) == Get(k) /\ UNCHANGED load

LetRun == Step /\ UNCHANGED load

TallNext == Load \/ LetRun \/ \E k \in HotKeys : HotPut(k) \/ HotDel(k) \/ HotGet(k)

TallSpec == TallInit /\ [][TallNext]_<<vars, load>>

\* The trees that a call leaves behind.
AtRest == call = NoCall /\ tree # NoTree

\* What put asserts of the counts in a debug build: of a leaf before its split and its
\* halves, and of a root that splits, whose halves do not count the new leaf yet.
SplitCounts ==
  /\ AtLeaf(tree, call, "put") /\ ~HasRoom(tree, call.at) =>
       tree.count[call.at] = Len(tree.node[call.at].arr)
  /\ call.pc = "climb" /\ ~HasRoom(tree, Top(call).node) =>
       LET n == Top(call).node
           r == Len(tree.node) + 1
           halves == InternalSplit(tree, n, r).count
       IN  tree.node[n].parent = 0 => tree.count[n] > halves[n] + halves[r]

\* "An internal node has total number of keys in all leaf nodes under it", and
\* so do the root and every leaf, once a call has returned; and in the middle of a
\* put its assertions on the counts hold.
KeyCountsRight ==
  /\ AtRest => \A i \in Addresses(tree) : tree.count[i] = Cardinality(Under(tree, i))
  /\ SplitCounts

\* The leaves chained from the left end hold the keys of the table in order.
\* Searching finds what the table holds, by key and by rank, and the two agree:
\* the order a key is returned with is its rank.
QueriesRight ==
  LET all == AllEntries(tree) IN
    AtRest =>
      /\ Ascending(all) /\ ToSet(all) = LeafEntries(tree)
      /\ \A k \in Keys : GetByKey(tree, k).val = Contents(tree)[k]
      /\ get_key_count(tree) = Len(all)
      /\ \A i \in DOMAIN all :
           /\ GetByKey(tree, all[i].key).order = i
           /\ GetByOrder(tree, i) = all[i]

\* The assertions of the tree's own checks, print_tree and check_consistency, hold
\* whenever table_close runs them on a table that has been written
\* (__check_consistency_on_table_close).  On one that has not, they have no root.
DebugChecksPass == AtRest => print_tree(tree) /\ check_consistency(tree)
=============================================================================
