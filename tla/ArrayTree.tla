----------------------------- MODULE ArrayTree -----------------------------
(***************************************************************************)
(* An array tree under calls of put, del and get, step by step.  One thread*)
(* uses a table, so one call is made at a time.                            *)
(*                                                                         *)
(* Four variables are history.  "want" is the table as the application has *)
(* written it and "answer" what the last get returned.  A node serves a    *)
(* range of keys and stands at a level, 0 for a leaf: a split leaves the   *)
(* keys from the middle one on to the new node, and a root serves all keys.*)
(***************************************************************************)
EXTENDS TreeNodes

VARIABLES tree, call, want, answer, range, level

history == <<want, answer, range, level>>

vars == <<tree, call, history>>

NoAnswer == [key |-> 0, val |-> "none"]

Init ==
  /\ tree = NoTree /\ call = NoCall
  /\ want = [k \in Keys |-> Absent] /\ answer = NoAnswer
  /\ range = <<>> /\ level = <<>>

(***************************************************************************)
(* Calls of the plugin                                                     *)
(***************************************************************************)
\* table_put makes the tree when it is the first.
Put(k, v) ==
  /\ call = NoCall
  /\ IF tree = NoTree
       THEN tree' = NewTree /\ range' = <<Keys, Keys>> /\ level' = <<1, 0>>
       ELSE UNCHANGED <<tree, range, level>>
  /\ call' = Call("put", k, v, tree'.root)
  /\ want' = [want EXCEPT ![k] = v] /\ answer' = NoAnswer

\* table_del of a table without a tree returns early.
Del(k) ==
  /\ call = NoCall /\ tree # NoTree
  /\ DelsMissing \/ want[k] # Absent
  /\ call' = Call("del", k, Absent, tree.root)
  /\ want' = [want EXCEPT ![k] = Absent] /\ answer' = NoAnswer
  /\ UNCHANGED <<tree, range, level>>

\* table_get of a table without a tree finds nothing.
Get(k) ==
  /\ call = NoCall
  /\ IF tree = NoTree
       THEN answer' = [key |-> k, val |-> Absent] /\ UNCHANGED call
       ELSE answer' = NoAnswer /\ call' = Call("get", k, Absent, tree.root)
  /\ UNCHANGED <<tree, want, range, level>>

(***************************************************************************)
(* Their steps                                                             *)
(***************************************************************************)
Steps(next) == tree' = next.tree /\ call' = next.call

Find ==
  /\ AtInternal(tree, call)
  /\ Steps(Descend(tree, call))
  /\ UNCHANGED history

GetAtLeaf ==
  /\ AtLeaf(tree, call, "get")
  /\ answer' = [key |-> call.key, val |-> Value(tree.node[call.at].arr, call.key)]
  /\ call' = NoCall
  /\ UNCHANGED <<tree, want, range, level>>

DelAtLeaf ==
  /\ AtLeaf(tree, call, "del")
  /\ Steps(DelFromLeaf(tree, call))
  /\ UNCHANGED history

PutAtLeaf ==
  /\ AtLeaf(tree, call, "put") /\ HasRoom(tree, call.at)
  /\ Steps(PutToLeaf(tree, call))
  /\ UNCHANGED history

\* Node n was split at key mid.
RangeSplit(n, mid) ==
  Append([range EXCEPT ![n] = {k \in @ : k < mid}], {k \in range[n] : k >= mid})

SplitAtLeaf ==
  /\ AtLeaf(tree, call, "put") /\ ~HasRoom(tree, call.at)
  /\ Steps(SplitLeaf(tree, call))
  /\ range' = RangeSplit(call.at, Top(call').key) /\ level' = Append(level, 0)
  /\ UNCHANGED <<want, answer>>

PutAtInternal ==
  /\ call.pc = "climb" /\ HasRoom(tree, Top(call).node)
  /\ Steps(PutToInternal(tree, call))
  /\ UNCHANGED history

SplitAtInternal ==
  LET n == Top(call).node IN
    /\ call.pc = "climb" /\ ~HasRoom(tree, n) /\ tree.node[n].parent # 0
    /\ Steps(SplitInternal(tree, call))
    /\ range' = RangeSplit(n, MidKey(tree.node[n].arr))
    /\ level' = Append(level, level[n])
    /\ UNCHANGED <<want, answer>>

SplitAtRoot ==
  LET n == Top(call).node IN
    /\ call.pc = "climb" /\ ~HasRoom(tree, n) /\ tree.node[n].parent = 0
    /\ Steps(SplitRoot(tree, call))
    /\ range' = Append(RangeSplit(n, MidKey(tree.node[n].arr)), Keys)
    /\ level' = level \o <<level[n], level[n] + 1>>
    /\ UNCHANGED <<want, answer>>

PutAtHalf ==
  /\ call.pc = "adopt"
  /\ Steps(PutToHalf(tree, call))
  /\ UNCHANGED history

Count ==
  /\ call.pc = "count" /\ call.at # call.fence
  /\ Steps(CountNode(tree, call))
  /\ UNCHANGED history

EndCount ==
  /\ call.pc = "count" /\ call.at = call.fence
  /\ Steps(Counted(tree, call))
  /\ UNCHANGED history

Step ==
  \/ Find \/ GetAtLeaf \/ DelAtLeaf \/ PutAtLeaf \/ SplitAtLeaf
  \/ PutAtInternal \/ SplitAtInternal \/ SplitAtRoot \/ PutAtHalf
  \/ Count \/ EndCount

Next ==
  \/ \E k \in Keys : Del(k) \/ Get(k) \/ \E v \in Vals : Put(k, v)
  \/ Step

Spec == Init /\ [][Next]_vars

(***************************************************************************)
(* Properties                                                              *)
(***************************************************************************)
Frames == ToSet(call.stack)

\* The keys and children that the calls in progress have still to put into node i.
Pending(i) == {Entry(f.key, f.child) : f \in {g \in Frames : Half(g) = i}}

\* The keys of a node with their children, the ones it is about to get included.
Entries(i) == ToSet(tree.node[i].arr) \cup Pending(i)

\* The keys that node i serves through the child of entry e, and through its left
\* child.
Served(i, e) ==
  {k \in range[i] : e.key <= k /\ \A f \in Entries(i) : f.key <= k => f.key <= e.key}

ServedLeft(i) == {k \in range[i] : \A f \in Entries(i) : k < f.key}

\* Node c serves the given keys, one level below node i.
ChildServes(i, c, keys) ==
  c \in Addresses(tree) /\ range[c] = keys /\ level[c] = level[i] - 1

\* The tree is a search tree of which all leaves are equally deep, and stays one in
\* the middle of a put that splits its way up: the keys of a node divide what it
\* serves among its children, where a child that was split off and not yet put into
\* its parent counts as its child; every child that was knows its parent; no node
\* overflows, and no tx_assert of put fails.
WellFormed ==
  /\ tree.sane
  /\ tree # NoTree => range[tree.root] = Keys /\ tree.node[tree.root].parent = 0
  /\ \A i \in Addresses(tree) :
       LET n == tree.node[i] IN
         /\ Ascending(n.arr) /\ Len(n.arr) <= MaxKeys
         /\ \A e \in Entries(i) : e.key \in range[i]
         /\ n.leaf <=> level[i] = 0
         /\ n.leaf => ToSet(n.arr) \subseteq [key : Keys, data : Vals]
         /\ ~n.leaf =>
              /\ ChildServes(i, n.left, ServedLeft(i))
              /\ \A e \in Entries(i) : ChildServes(i, e.data, Served(i, e))
              /\ tree.node[n.left].parent = i
              /\ \A e \in ToSet(n.arr) : tree.node[e.data].parent = i

\* All keys that leaf i serves are less than those of leaf j.
Before(i, j) == \A k \in range[i], m \in range[j] : k < m

\* The chain of leaves leads from each leaf to the one with the next greater keys,
\* over no other and to the last, and back: a scan along it meets every key of the
\* table in its order, whatever was split.
ChainComplete ==
  \A i \in Leaves(tree) :
    LET n == tree.node[i] IN
      /\ \A j \in Leaves(tree) \ {i} : Before(i, j) \/ Before(j, i)
      /\ IF n.next = 0 THEN \A j \in Leaves(tree) \ {i} : Before(j, i)
         ELSE /\ n.next \in Leaves(tree) /\ tree.node[n.next].prev = i
              /\ Before(i, n.next)
              /\ \A j \in Leaves(tree) \ {i, n.next} : Before(j, i) \/ Before(n.next, j)
      /\ IF n.prev = 0 THEN \A j \in Leaves(tree) \ {i} : Before(i, j)
         ELSE n.prev \in Leaves(tree) /\ tree.node[n.prev].next = i

Map == INSTANCE OrderedMap WITH map <- Contents(tree)

\* Between two calls the tree holds what the application has written, no more and no
\* less, and a get has returned it.
TableAsWanted ==
  /\ call = NoCall => Contents(tree) = want
  /\ answer # NoAnswer => answer.val = want[answer.key]

\* A table is a map: whatever splits on the way, a put or del changes one key and no
\* other, in one step (the refinement of OrderedMap), and none is lost.
IsOrderedMap == Map!Spec /\ []TableAsWanted
=============================================================================
