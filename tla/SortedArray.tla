----------------------------- MODULE SortedArray -----------------------------
(***************************************************************************)
(* nldb_sorted_array: the keys of a tree node in ascending order, each with*)
(* a data pointer.  key_space_ and data_ always hold the same number of    *)
(* entries in the same order, so an array is a sequence of entries;        *)
(* key_count_ is its length, and max_key_count_ = key_space_size /         *)
(* key_length_ is MaxKeys.  Keys are compared by memcmp, here as integers. *)
(* Positions are 1-based: data_pos + 1 of the code.                        *)
(***************************************************************************)
EXTENDS Integers, Sequences, SequencesExt

CONSTANT MaxKeys   \* keys that fit in one node

\* A node must hold three keys to be split in two and a key between them.
ASSUME SortedArrayAssumption == MaxKeys \in Nat /\ MaxKeys >= 3

Entry(k, d) == [key |-> k, data |-> d]

\* The keys strictly ascend.
Ascending(arr) ==
  \A i, j \in DOMAIN arr : i < j => arr[i].key < arr[j].key

\* An is_full that lets one more key in than there is space for.
is_full_late(arr) == Len(arr) > MaxKeys

is_full(arr) == Len(arr) >= MaxKeys

\* search_forward: the position of the last key that is at most k, 0 if none.
\* The scan stops at the first key greater than k.
search_forward(arr, k) ==
  LET greater == {i \in DOMAIN arr : arr[i].key > k} IN
    IF greater = {} THEN Len(arr) ELSE Min(greater) - 1

\* search_backward: the position of the first key that is at least k, one past
\* the end if none.  The scan runs from the end.
search_backward(arr, k) ==
  LET less == {i \in DOMAIN arr : arr[i].key < k} IN
    IF less = {} THEN 1 ELSE Max(less) + 1

\* out_key_found of the two searches.
FoundAt(arr, p, k) == p \in DOMAIN arr /\ arr[p].key = k

Has(arr, k) == FoundAt(arr, search_forward(arr, k), k)

\* put replaces the data of a key it finds, and inserts the key otherwise.
put(arr, k, d) ==
  LET p == search_forward(arr, k) IN
    IF FoundAt(arr, p, k) THEN [arr EXCEPT ![p].data = d]
                          ELSE InsertAt(arr, p + 1, Entry(k, d))

\* del removes the key if it finds it.
del(arr, k) ==
  LET p == search_forward(arr, k) IN
    IF FoundAt(arr, p, k) THEN RemoveAt(arr, p) ELSE arr

\* split moves the upper half to a new array; the lower half keeps the odd key.
SplitAt(arr) == Len(arr) - Len(arr) \div 2

\* A lower half that loses the key before the middle.
LeftHalfTooShort(arr) == SubSeq(arr, 1, SplitAt(arr) - 1)

LeftHalf(arr)  == SubSeq(arr, 1, SplitAt(arr))
RightHalf(arr) == SubSeq(arr, SplitAt(arr) + 1, Len(arr))

\* iter_forward / iter_backward from a key: skip to the next one when the key
\* itself is not there.
iter_forward(arr, k) ==
  LET p == search_forward(arr, k) IN IF FoundAt(arr, p, k) THEN p ELSE p + 1

iter_backward(arr, k) ==
  LET p == search_backward(arr, k) IN IF FoundAt(arr, p, k) THEN p ELSE p - 1
=============================================================================
