---------------------------- MODULE TreeQueries ----------------------------
(***************************************************************************)
(* What is read from an array tree between two calls of put and del: get by*)
(* key and by order, the walk along the leaves, the checks of the debug    *)
(* build.  put and del themselves, as the cursor sees them: run to the end.*)
(***************************************************************************)
EXTENDS TreeNodes

(***************************************************************************)
(* put and del                                                             *)
(***************************************************************************)
\* The next step of a put or del.
NextStep(T, c) ==
  CASE AtInternal(T, c) -> Descend(T, c)
    [] AtLeaf(T, c, "del") -> DelFromLeaf(T, c)
    [] AtLeaf(T, c, "put") -> IF HasRoom(T, c.at) THEN PutToLeaf(T, c)
                                                  ELSE SplitLeaf(T, c)
    [] c.pc = "climb" -> IF HasRoom(T, Top(c).node) THEN PutToInternal(T, c)
                         ELSE IF T.node[Top(c).node].parent # 0 THEN SplitInternal(T, c)
                         ELSE SplitRoot(T, c)
    [] c.pc = "adopt" -> PutToHalf(T, c)
    [] c.pc = "count" -> IF c.at # c.fence THEN CountNode(T, c) ELSE Counted(T, c)

RECURSIVE Run(_)
Run(s) == IF s.call = NoCall THEN s.tree ELSE Run(NextStep(s.tree, s.call))

TreePut(T, k, v) == Run(Becomes(T, Call("put", k, v, T.root)))

TreeDel(T, k) == Run(Becomes(T, Call("del", k, Absent, T.root)))

(***************************************************************************)
(* Searching                                                               *)
(***************************************************************************)
\* find_leaf_node by key, from node n down: the leaf that serves the key and the
\* number of keys in the leaves before it.
RECURSIVE find_leaf_node(_, _, _)
find_leaf_node(T, n, k) ==
  IF T.node[n].leaf THEN [leaf |-> n, before |-> 0]
  ELSE LET node  == T.node[n]
           below == find_leaf_node(T, ServingChild(node, k), k)
       IN  [leaf |-> below.leaf,
            before |-> below.before
              + count_all_keys_before_position(T.count, node, search_forward(node.arr, k))]

\* find_leaf_node by order: the first child whose keys reach the order.
RECURSIVE find_leaf_node_by_order(_, _, _)
find_leaf_node_by_order(T, n, order) ==
  IF T.node[n].leaf THEN [leaf |-> n, before |-> 0]
  ELSE LET node == T.node[n]
           Child(p)  == IF p = 0 THEN node.left ELSE node.arr[p].data
           Prior(p)  == count_all_keys_before_position(T.count, node, p)
           p == Min({q \in 0 .. Len(node.arr) : order <= Prior(q) + T.count[Child(q)]})
           below == find_leaf_node_by_order(T, Child(p), order - Prior(p))
       IN  [leaf |-> below.leaf, before |-> below.before + Prior(p)]

\* get by key: the value and the order, (Absent, _) when the key is not there.
\* find_leaf_node's count is used as it is when the leaf has no such key.
GetByKey(T, k) ==
  LET f   == find_leaf_node(T, T.root, k)
      arr == T.node[f.leaf].arr
  IN  [val |-> Value(arr, k),
       order |-> f.before + IF Has(arr, k) THEN search_forward(arr, k) ELSE 0]

\* get by order, within 1 .. the root's key count.
GetByOrder(T, order) ==
  LET f == find_leaf_node_by_order(T, T.root, order) IN
    T.node[f.leaf].arr[order - f.before]

get_key_count(T) == IF T = NoTree THEN 0 ELSE T.count[T.root]

(***************************************************************************)
(* The checks of nldb_debuggable_array_tree                                *)
(***************************************************************************)
\* print_tree: the keys of a node and its children, depth first.
RECURSIVE print_node(_, _)
print_node(T, i) ==
  LET n == T.node[i] IN
    IF n.leaf THEN [p \in DOMAIN n.arr |-> n.arr[p].key]
    ELSE FoldLeft(LAMBDA keys, e : Append(keys, e.key) \o print_node(T, e.data),
                  print_node(T, n.left), n.arr)

\* The assertions of print_tree: no key is less than the one printed before it.
print_tree(T) ==
  LET keys == print_node(T, T.root) IN
    \A i \in 1 .. Len(keys) - 1 : keys[i] <= keys[i + 1]

\* The entries that move_forward returns from the start of leaf i: it looks past the
\* end of a leaf at one more, and ends there when that is empty.
RECURSIVE WalkForward(_, _)
WalkForward(T, i) ==
  LET n == T.node[i] IN
    n.arr \o IF n.next = 0 \/ T.node[n.next].arr = <<>> THEN <<>>
             ELSE WalkForward(T, n.next)

\* The assertions of check_consistency.  It seeks the smallest key there can be.
check_consistency(T) ==
  Ascending(WalkForward(T, find_leaf_node(T, T.root, Min(Keys)).leaf))

(***************************************************************************)
(* What the counts and the chain stand for                                 *)
(***************************************************************************)
Children(n) == {n.left} \cup {n.arr[i].data : i \in DOMAIN n.arr}

\* The entries under a node.
RECURSIVE Under(_, _)
Under(T, i) ==
  IF T.node[i].leaf THEN ToSet(T.node[i].arr)
  ELSE UNION {Under(T, c) : c \in Children(T.node[i])}

\* The entries of the leaf chain from leaf i on.
RECURSIVE Chain(_, _)
Chain(T, i) == IF i = 0 THEN <<>> ELSE T.node[i].arr \o Chain(T, T.node[i].next)

\* The leaf at the left end.
RECURSIVE Leftmost(_, _)
Leftmost(T, i) == IF T.node[i].leaf THEN i ELSE Leftmost(T, T.node[i].left)

AllEntries(T) == IF T = NoTree THEN <<>> ELSE Chain(T, Leftmost(T, T.root))
=============================================================================
