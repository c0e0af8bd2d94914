----------------------------- MODULE TreeNodes -----------------------------
(***************************************************************************)
(* nldb_array_tree: a B+-tree whose leaves hold the keys and values and are*)
(* chained in both directions, whose internal nodes map keys to right      *)
(* children, and in which every node counts the keys under it so that a key*)
(* can be found by rank.  Nodes are never merged or freed.                 *)
(*                                                                         *)
(* A tree is a record: its nodes in the order they were allocated (a node's*)
(* address is its index, 0 is NULL), their key counts, its root, and       *)
(* "sane", FALSE once a tx_assert of put has failed.                       *)
(*                                                                         *)
(* A call of put, del or get is a record too: the step it is at and its    *)
(* local variables, with the activations of put_to_internal_node on a      *)
(* stack.  A step takes a tree and a call to the next tree and call; it is *)
(* one round of a loop or one level of the recursion.                      *)
(***************************************************************************)
EXTENDS SortedArray

CONSTANTS
  Keys,        \* set of integers
  Vals,
  Absent,      \* the value of a key that is not in the table
  DelsMissing  \* does the application delete keys that are not there?

ASSUME TreeAssumption ==
  /\ Keys \subseteq Int
  /\ Absent \notin Vals
  /\ DelsMissing \in BOOLEAN

(***************************************************************************)
(* Nodes                                                                   *)
(***************************************************************************)
Leaf(arr, prev, next) ==
  [leaf |-> TRUE, arr |-> arr, left |-> 0, parent |-> 0, prev |-> prev, next |-> next]

Internal(left, arr) ==
  [leaf |-> FALSE, arr |-> arr, left |-> left, parent |-> 0, prev |-> 0, next |-> 0]

\* init: an internal root whose left child is an empty leaf.
NewTree ==
  [node |-> << Internal(2, <<>>), [Leaf(<<>>, 0, 0) EXCEPT !.parent = 1] >>,
   count |-> <<0, 0>>, root |-> 1, sane |-> TRUE]

\* The table context before the first put.
NoTree == [node |-> <<>>, count |-> <<>>, root |-> 0, sane |-> TRUE]

Addresses(T) == DOMAIN T.node

Leaves(T) == {i \in Addresses(T) : T.node[i].leaf}

SetParent(nodes, set, p) ==
  [i \in DOMAIN nodes |-> [nodes[i] EXCEPT !.parent = IF i \in set THEN p ELSE @]]

\* A count that forgets the left child.
count_without_left_child(count, n, p) ==
  FoldLeft(LAMBDA sum, e : sum + count[e.data], 0, SubSeq(n.arr, 1, p - 1))

\* count_all_keys_before_position: the keys under the children left of position
\* p of node n, where position 0 is the left child.
count_all_keys_before_position(count, n, p) ==
  IF p = 0 THEN 0
  ELSE count[n.left] + FoldLeft(LAMBDA sum, e : sum + count[e.data], 0,
                                SubSeq(n.arr, 1, p - 1))

count_all_keys_in_leaf_nodes(count, n) ==
  count_all_keys_before_position(count, n, Len(n.arr) + 1)

\* internal_node_t::put: the key's node becomes a child.
Adopt(T, n, k, child) ==
  [T EXCEPT
     !.node = SetParent([T.node EXCEPT ![n].arr = put(@, k, child)], {child}, n)]

\* find_serving_node_by_key: the child that serves the key.
ServingChild(n, k) ==
  LET p == search_forward(n.arr, k) IN IF p = 0 THEN n.left ELSE n.arr[p].data

(***************************************************************************)
(* Splitting                                                               *)
(***************************************************************************)
\* A leaf split that does not relink the leaf behind.
LeafSplitOneWay(T, n) ==
  LET r   == Len(T.node) + 1
      old == T.node[n]
  IN  [T EXCEPT
         !.node = Append([@ EXCEPT ![n].arr = LeftHalf(@), ![n].next = r],
                         Leaf(RightHalf(old.arr), n, old.next)),
         !.count = Append([@ EXCEPT ![n] = Len(LeftHalf(old.arr))],
                          Len(RightHalf(old.arr)))]

\* leaf_node_t::split: the new leaf comes behind this one in the chain.  Its
\* parent is set later.
LeafSplit(T, n) ==
  LET r      == Len(T.node) + 1
      old    == T.node[n]
      linked == [i \in DOMAIN T.node |->
                   IF i = n THEN [old EXCEPT !.arr = LeftHalf(@), !.next = r]
                   ELSE IF i = old.next THEN [T.node[i] EXCEPT !.prev = r]
                   ELSE T.node[i]]
  IN  [T EXCEPT
         !.node = Append(linked, Leaf(RightHalf(old.arr), n, old.next)),
         !.count = Append([@ EXCEPT ![n] = Len(LeftHalf(old.arr))],
                          Len(RightHalf(old.arr)))]

\* internal_node_t::split hands the child of the last key of the lower half to the
\* new node, as its left child, together with the upper half.
Moved(arr) == {Last(LeftHalf(arr)).data} \cup {e.data : e \in ToSet(RightHalf(arr))}

Recount(nodes, count, i) ==
  [count EXCEPT ![i] = count_all_keys_in_leaf_nodes(count, nodes[i])]

\* The nodes of an internal split that leaves the moved children with their old
\* parent.
HalvedKeepingParents(nodes, n, r) ==
  Append([nodes EXCEPT ![n].arr = Front(LeftHalf(@))],
         Internal(Last(LeftHalf(nodes[n].arr)).data, RightHalf(nodes[n].arr)))

\* The nodes of an internal split: the moved children get their new parent.
Halved(nodes, n, r) ==
  SetParent(Append([nodes EXCEPT ![n].arr = Front(LeftHalf(@))],
                   Internal(Last(LeftHalf(nodes[n].arr)).data, RightHalf(nodes[n].arr))),
            Moved(nodes[n].arr), r)

\* internal_node_t::split: both nodes are counted anew.
InternalSplit(T, n, r) ==
  LET nodes == Halved(T.node, n, r) IN
    [T EXCEPT
       !.node = nodes,
       !.count = Recount(nodes, Recount(nodes, Append(@, 0), r), n),
       !.sane = @ /\ Len(LeftHalf(T.node[n].arr)) > 1]

\* The first key of the upper half, which stays.
MidKeyTooFar(arr) == Head(RightHalf(arr)).key

\* The key between the halves, which goes up.
MidKey(arr) == Last(LeftHalf(arr)).key

\* put_to_internal_node when the root splits: a new root over the two halves.
NewRoot(T, n, k, r) ==
  LET top == Len(T.node) + 1 IN
    [T EXCEPT
       !.node  = SetParent(Append(@, Internal(n, <<Entry(k, r)>>)), {n, r}, top),
       !.count = Append(@, T.count[n] + T.count[r]),
       !.root  = top]

(***************************************************************************)
(* Calls                                                                   *)
(***************************************************************************)
\* An activation of put_to_internal_node(node, key, key_node).  "right" and "mid"
\* are set once the node was split.
Frame(node, key, child) ==
  [node |-> node, key |-> key, child |-> child, right |-> 0, mid |-> 0]

\* The node that the frame's key goes to.
Half(f) == IF f.right = 0 \/ f.key < f.mid THEN f.node ELSE f.right

\* "at" is the node that find_leaf_node or the propagation of key counts has come
\* to, "leaf" is key_existing_node, "owed" says that the new key has still to be
\* counted, "fence" is o_unsplit_top_node and "add" the increment.
Call(op, k, v, at) ==
  [op |-> op, key |-> k, val |-> v, pc |-> "find", at |-> at, stack |-> <<>>,
   leaf |-> 0, owed |-> FALSE, fence |-> 0, add |-> 0]

NoCall == [Call("none", 0, Absent, 0) EXCEPT !.pc = "idle"]

Becomes(T, c) == [tree |-> T, call |-> c]

\* propagate_key_count_increment / _decrement: start at node i.
CountFrom(c, i, fence, add) ==
  [c EXCEPT !.pc = "count", !.at = i, !.fence = fence, !.add = add]

(***************************************************************************)
(* The steps                                                               *)
(***************************************************************************)
\* find_leaf_node, one level down.
AtInternal(T, c) == c.pc = "find" /\ ~T.node[c.at].leaf

Descend(T, c) ==
  Becomes(T, [c EXCEPT !.at = ServingChild(T.node[c.at], c.key)])

AtLeaf(T, c, op) == c.pc = "find" /\ c.op = op /\ T.node[c.at].leaf

\* get, at the leaf.
Value(arr, k) ==
  IF Has(arr, k) THEN arr[search_forward(arr, k)].data ELSE Absent

\* A del that forgets the counters.
DelUncounted(T, c) == Becomes([T EXCEPT !.node[c.at].arr = del(@, c.key)], NoCall)

\* del, at the leaf: the counters go down whether or not the key was there.
DelFromLeaf(T, c) ==
  Becomes([T EXCEPT !.node[c.at].arr = del(@, c.key)], CountFrom(c, c.at, 0, -1))

HasRoom(T, i) == ~is_full(T.node[i].arr)

\* put_to_leaf_node without a split: one key more from the leaf to the root, unless
\* it was replaced.
PutToLeaf(T, c) ==
  Becomes([T EXCEPT !.node[c.at].arr = put(@, c.key, c.val)],
          IF Has(T.node[c.at].arr, c.key) THEN NoCall ELSE CountFrom(c, c.at, 0, 1))

\* put_to_leaf_node with a split, which a key that is only replaced makes too: put
\* the key in its half, then go on to the parent with the new leaf.
SplitLeaf(T, c) ==
  LET S   == LeafSplit(T, c.at)
      r   == Len(T.node) + 1
      mid == S.node[r].arr[1].key
      at  == IF c.key < mid THEN c.at ELSE r
  IN  Becomes([S EXCEPT !.node[at].arr = put(@, c.key, c.val)],
              [c EXCEPT !.pc = "climb", !.leaf = at,
                        !.owed = ~Has(S.node[at].arr, c.key),
                        !.stack = <<Frame(T.node[c.at].parent, mid, r)>>])

Top(c) == c.stack[Len(c.stack)]

\* The frame returns.  Its caller adds the keys of the new node, which were not
\* counted, from the node's parent up to the fence.
Return(T, c, f, fence) ==
  CountFrom([c EXCEPT !.stack = Front(@)], T.node[f.child].parent, fence,
            T.count[f.child])

\* put_to_internal_node without a split: the node is the topmost that was not.
PutToInternal(T, c) ==
  LET f == Top(c)
      A == Adopt(T, f.node, f.key, f.child)
  IN  Becomes(A, Return(A, c, f, f.node))

\* The frame after its node was split.
Split(c, r, mid) ==
  [c EXCEPT !.stack[Len(c.stack)] = [@ EXCEPT !.right = r, !.mid = mid]]

\* put_to_internal_node with a split below the root: go on to the parent first.
SplitInternal(T, c) ==
  LET n   == Top(c).node
      r   == Len(T.node) + 1
      mid == MidKey(T.node[n].arr)
  IN  Becomes(InternalSplit(T, n, r),
              [Split(c, r, mid) EXCEPT
                 !.stack = Append(@, Frame(T.node[n].parent, mid, r))])

\* put_to_internal_node with a split of the root.
SplitRoot(T, c) ==
  LET n   == Top(c).node
      r   == Len(T.node) + 1
      mid == MidKey(T.node[n].arr)
  IN  Becomes(NewRoot(InternalSplit(T, n, r), n, mid, r),
              [Split(c, r, mid) EXCEPT !.pc = "adopt", !.fence = 0])

\* put_to_internal_node after a split: the key goes to the half it belongs to, and
\* is never the one in between.
PutToHalf(T, c) ==
  LET f == Top(c)
      A == [Adopt(T, Half(f), f.key, f.child) EXCEPT !.sane = @ /\ f.key # f.mid]
  IN  Becomes(A, Return(A, c, f, c.fence))

\* propagate_key_count_increment / _decrement, one node.
CountNode(T, c) ==
  Becomes([T EXCEPT !.count[c.at] = @ + c.add], [c EXCEPT !.at = T.node[@].parent])

\* At the fence.  The frame below puts its key; the last one leaves the new key to
\* be counted.
Counted(T, c) ==
  Becomes(T, IF c.stack # <<>> THEN [c EXCEPT !.pc = "adopt"]
             ELSE IF c.owed THEN CountFrom([c EXCEPT !.owed = FALSE], c.leaf, 0, 1)
             ELSE NoCall)

(***************************************************************************)
(* The table a tree stands for                                             *)
(***************************************************************************)
LeafEntries(T) == UNION {ToSet(T.node[i].arr) : i \in Leaves(T)}

Contents(T) ==
  [k \in Keys |-> IF \E e \in LeafEntries(T) : e.key = k
                    THEN (CHOOSE e \in LeafEntries(T) : e.key = k).data
                    ELSE Absent]
=============================================================================
