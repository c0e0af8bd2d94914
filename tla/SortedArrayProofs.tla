------------------------ MODULE SortedArrayProofs ------------------------
(***************************************************************************)
(* Proofs about the operations of SortedArray, for arrays of any length,   *)
(* integer keys and any data: what the two searches find, that put and del *)
(* change one key and keep the order, that split keeps both halves usable, *)
(* and where an iteration starts.                                          *)
(***************************************************************************)
EXTENDS SortedArray, MinMaxProofs

\* Arrays of entries whose data are in D.
Arrays(D) == Seq([key : Int, data : D])

\* The entries of an array with a key other than k.
Others(arr, k) == {e \in ToSet(arr) : e.key # k}

-----------------------------------------------------------------------------
(***************************************************************************)
(* Searching                                                               *)
(***************************************************************************)
\* An array is a function on 1 .. key_count.
LEMMA ArrayFacts ==
  ASSUME NEW D, NEW arr \in Arrays(D)
  PROVE  /\ Len(arr) \in Nat /\ DOMAIN arr = 1 .. Len(arr)
         /\ \A i \in 1 .. Len(arr) : arr[i].key \in Int /\ arr[i].data \in D
                                     /\ arr[i] = Entry(arr[i].key, arr[i].data)
<1>1. PICK R : R = [key : Int, data : D]
  OBVIOUS
<1>2. arr \in Seq(R)
  BY <1>1 DEF Arrays
<1>3. /\ Len(arr) \in Nat /\ DOMAIN arr = 1 .. Len(arr)
      /\ \A i \in 1 .. Len(arr) : arr[i] \in R
  BY <1>2
<1>4. \A e \in R : e.key \in Int /\ e.data \in D /\ e = Entry(e.key, e.data)
  BY <1>1 DEF Entry
<1>  QED
  BY <1>3, <1>4

\* search_forward splits an ascending array: up to the position it returns the keys
\* are at most the key sought, behind it they are greater.
THEOREM SearchForwardSplits ==
  ASSUME NEW D, NEW arr \in Arrays(D), Ascending(arr), NEW k \in Int
  PROVE  /\ search_forward(arr, k) \in 0 .. Len(arr)
         /\ \A i \in 1 .. search_forward(arr, k) : arr[i].key <= k
         /\ \A i \in search_forward(arr, k) + 1 .. Len(arr) : arr[i].key > k
<1>  DEFINE greater == {i \in DOMAIN arr : arr[i].key > k}
<1>1. /\ Len(arr) \in Nat /\ DOMAIN arr = 1 .. Len(arr)
      /\ \A i \in 1 .. Len(arr) : arr[i].key \in Int
  BY ArrayFacts
<1>2. CASE greater = {}
  <2>1. search_forward(arr, k) = Len(arr)
    BY <1>2 DEF search_forward
  <2>  QED
    BY <1>1, <1>2, <2>1
<1>3. CASE greater # {}
  <2>1. search_forward(arr, k) = Min(greater) - 1
    BY <1>3 DEF search_forward
  <2>2. greater \in SUBSET Int /\ \A x \in greater : x >= 1
    BY <1>1
  <2>3. Min(greater) \in greater /\ \A y \in greater : Min(greater) <= y
    <3>  HIDE DEF greater
    <3>  QED
      BY <1>3, <2>2, MinOfIntegers
  <2>4. PICK m \in 1 .. Len(arr) : m = Min(greater) /\ arr[m].key > k
    BY <1>1, <2>3
  <2>5. \A i \in 1 .. m - 1 : arr[i].key <= k
    <3>  SUFFICES ASSUME NEW i \in 1 .. m - 1 PROVE arr[i].key <= k
      OBVIOUS
    <3>1. i \in 1 .. Len(arr) /\ i < m
      BY <1>1
    <3>2. i \notin greater
      <4>  HIDE DEF greater
      <4>  QED
        BY <1>1, <2>3, <2>4, <3>1
    <3>  QED
      BY <1>1, <3>1, <3>2
  <2>6. \A i \in m .. Len(arr) : arr[i].key > k
    <3>  SUFFICES ASSUME NEW i \in m .. Len(arr), i # m PROVE arr[i].key > k
      BY <2>4
    <3>1. i \in DOMAIN arr /\ m \in DOMAIN arr /\ m < i
      BY <1>1
    <3>2. arr[m].key < arr[i].key
      BY <3>1 DEF Ascending
    <3>  QED
      BY <1>1, <2>4, <3>1, <3>2
  <2>7. search_forward(arr, k) = m - 1 /\ (m - 1) + 1 = m /\ m - 1 \in 0 .. Len(arr)
    BY <1>1, <2>1, <2>4
  <2>  QED
    BY <2>5, <2>6, <2>7
<1>  QED
  BY <1>2, <1>3

\* search_backward splits it the other way: before the position it returns the keys
\* are less than the key sought, from it on at least the key.
THEOREM SearchBackwardSplits ==
  ASSUME NEW D, NEW arr \in Arrays(D), Ascending(arr), NEW k \in Int
  PROVE  /\ search_backward(arr, k) \in 1 .. Len(arr) + 1
         /\ \A i \in 1 .. search_backward(arr, k) - 1 : arr[i].key < k
         /\ \A i \in search_backward(arr, k) .. Len(arr) : arr[i].key >= k
<1>  DEFINE less == {i \in DOMAIN arr : arr[i].key < k}
<1>1. /\ Len(arr) \in Nat /\ DOMAIN arr = 1 .. Len(arr)
      /\ \A i \in 1 .. Len(arr) : arr[i].key \in Int
  BY ArrayFacts
<1>2. CASE less = {}
  <2>1. search_backward(arr, k) = 1
    BY <1>2 DEF search_backward
  <2>  QED
    BY <1>1, <1>2, <2>1
<1>3. CASE less # {}
  <2>1. search_backward(arr, k) = Max(less) + 1
    BY <1>3 DEF search_backward
  <2>2. less \in SUBSET Int /\ \A x \in less : x <= Len(arr)
    BY <1>1
  <2>3. Max(less) \in less /\ \A y \in less : y <= Max(less)
    <3>  HIDE DEF less
    <3>1. Len(arr) \in Int
      BY <1>1
    <3>  QED
      BY <1>3, <2>2, <3>1, MaxOfIntegers
  <2>4. PICK m \in 1 .. Len(arr) : m = Max(less) /\ arr[m].key < k
    BY <1>1, <2>3
  <2>5. \A i \in m + 1 .. Len(arr) : arr[i].key >= k
    <3>  SUFFICES ASSUME NEW i \in m + 1 .. Len(arr) PROVE arr[i].key >= k
      OBVIOUS
    <3>1. i \in 1 .. Len(arr) /\ m < i
      BY <1>1
    <3>2. i \notin less
      <4>  HIDE DEF less
      <4>  QED
        BY <1>1, <2>3, <2>4, <3>1
    <3>  QED
      BY <1>1, <3>1, <3>2
  <2>6. \A i \in 1 .. m : arr[i].key < k
    <3>  SUFFICES ASSUME NEW i \in 1 .. m, i # m PROVE arr[i].key < k
      BY <2>4
    <3>1. i \in DOMAIN arr /\ m \in DOMAIN arr /\ i < m
      BY <1>1
    <3>2. arr[i].key < arr[m].key
      BY <3>1 DEF Ascending
    <3>  QED
      BY <1>1, <2>4, <3>1, <3>2
  <2>7. /\ search_backward(arr, k) = m + 1 /\ (m + 1) - 1 = m
        /\ m + 1 \in 1 .. Len(arr) + 1
    BY <1>1, <2>1, <2>4
  <2>  QED
    BY <2>5, <2>6, <2>7
<1>  QED
  BY <1>2, <1>3

\* Has is right: the key is found exactly when it is there.
THEOREM HasIsThere ==
  ASSUME NEW D, NEW arr \in Arrays(D), Ascending(arr), NEW k \in Int
  PROVE  Has(arr, k) <=> \E e \in ToSet(arr) : e.key = k
<1>1. PICK p : p = search_forward(arr, k)
  OBVIOUS
<1>2. /\ p \in 0 .. Len(arr) /\ \A i \in 1 .. p : arr[i].key <= k
      /\ \A i \in p + 1 .. Len(arr) : arr[i].key > k
  BY <1>1, SearchForwardSplits
<1>3. /\ Len(arr) \in Nat /\ DOMAIN arr = 1 .. Len(arr)
      /\ \A i \in 1 .. Len(arr) : arr[i].key \in Int
  BY ArrayFacts
<1>4. ASSUME NEW i \in DOMAIN arr, arr[i].key = k PROVE i = p
  <2>1. i <= p
    BY <1>2, <1>3, <1>4
  <2>2. CASE i < p
    <3>1. p \in DOMAIN arr /\ arr[p].key <= k
      BY <1>2, <1>3, <2>2
    <3>2. arr[i].key < arr[p].key
      BY <2>2, <3>1 DEF Ascending
    <3>  QED
      BY <1>3, <1>4, <3>1, <3>2
  <2>  QED
    BY <1>2, <1>3, <2>1, <2>2
<1>  QED
  BY <1>1, <1>4 DEF Has, FoundAt, ToSet

-----------------------------------------------------------------------------
(***************************************************************************)
(* Writing                                                                 *)
(***************************************************************************)
\* The positions of a sequence after an element was inserted.
LEMMA InsertAtFacts ==
  ASSUME NEW R, NEW s \in Seq(R), NEW e \in R, NEW p \in 1 .. Len(s) + 1
  PROVE  InsertAt(s, p, e) = [i \in 1 .. Len(s) + 1 |->
                                IF i < p THEN s[i] ELSE IF i = p THEN e ELSE s[i - 1]]
<1>  DEFINE a == SubSeq(s, 1, p - 1)
            c == SubSeq(s, p, Len(s))
<1>1. Len(s) \in Nat /\ p \in Nat /\ 1 <= p /\ p <= Len(s) + 1
  OBVIOUS
<1>2. /\ a \in Seq(R) /\ Len(a) = p - 1 /\ \A i \in 1 .. p - 1 : a[i] = s[i]
  BY <1>1
<1>3. /\ c \in Seq(R) /\ Len(c) = Len(s) - p + 1
      /\ \A i \in 1 .. Len(s) - p + 1 : c[i] = s[i + p - 1]
  BY <1>1
<1>4. InsertAt(s, p, e) = (a \o <<e>>) \o c
  BY DEF InsertAt
<1>  HIDE DEF a, c
<1>5. /\ a \o <<e>> \in Seq(R) /\ Len(a \o <<e>>) = p
      /\ \A i \in 1 .. p - 1 : (a \o <<e>>)[i] = s[i]
      /\ (a \o <<e>>)[p] = e
  BY <1>1, <1>2
<1>6. PICK f : f = a \o <<e>>
  OBVIOUS
<1>7. /\ f \o c \in Seq(R) /\ Len(f \o c) = Len(s) + 1
      /\ \A i \in 1 .. p : (f \o c)[i] = f[i]
      /\ \A i \in p + 1 .. Len(s) + 1 : (f \o c)[i] = c[i - p]
  <2>1. f \in Seq(R) /\ c \in Seq(R)
    BY <1>3, <1>5, <1>6
  <2>2. f \o c \in Seq(R) /\ Len(f \o c) = Len(f) + Len(c)
    BY <2>1
  <2>3. \A i \in 1 .. Len(f) + Len(c) :
          (f \o c)[i] = IF i <= Len(f) THEN f[i] ELSE c[i - Len(f)]
    BY <2>1
  <2>4. Len(f) = p /\ Len(f) + Len(c) = Len(s) + 1
    <3>1. Len(f) = p
      BY <1>5, <1>6
    <3>2. p \in Int /\ Len(s) \in Int /\ Len(c) = Len(s) - p + 1
      BY <1>1, <1>3
    <3>  QED
      BY <3>1, <3>2
  <2>  QED
    BY <1>1, <2>2, <2>3, <2>4
<1>8. ASSUME NEW i \in p + 1 .. Len(s) + 1 PROVE c[i - p] = s[i - 1]
  <2>1. i - p \in 1 .. Len(s) - p + 1 /\ (i - p) + p - 1 = i - 1
    BY <1>1
  <2>  QED
    BY <1>3, <2>1
<1>9. PICK g : g = f \o c
  OBVIOUS
<1>10. InsertAt(s, p, e) = g
  BY <1>4, <1>6, <1>9
<1>11. /\ g \in Seq(R) /\ Len(g) = Len(s) + 1
       /\ \A i \in p + 1 .. Len(s) + 1 : g[i] = s[i - 1]
  BY <1>7, <1>8, <1>9
<1>12. p \in 1 .. p /\ \A i \in 1 .. p - 1 : i \in 1 .. p
  BY <1>1
<1>13. g[p] = e /\ \A i \in 1 .. p - 1 : g[i] = s[i]
  BY <1>5, <1>6, <1>7, <1>9, <1>12
<1>14. g = [i \in 1 .. Len(s) + 1 |-> g[i]]
  BY <1>11
<1>15. ASSUME NEW i \in 1 .. Len(s) + 1
       PROVE  g[i] = IF i < p THEN s[i] ELSE IF i = p THEN e ELSE s[i - 1]
  <2>1. \/ i < p /\ i \in 1 .. p - 1
        \/ i = p
        \/ i > p /\ i \in p + 1 .. Len(s) + 1
    BY <1>1
  <2>  QED
    BY <1>1, <1>11, <1>13, <2>1
<1>  QED
  BY <1>10, <1>14, <1>15

\* The positions of a sequence after an element was removed.
LEMMA RemoveAtFacts ==
  ASSUME NEW R, NEW s \in Seq(R), NEW p \in 1 .. Len(s)
  PROVE  /\ RemoveAt(s, p) \in Seq(R) /\ Len(RemoveAt(s, p)) = Len(s) - 1
         /\ \A i \in 1 .. p - 1 : RemoveAt(s, p)[i] = s[i]
         /\ \A i \in p .. Len(s) - 1 : RemoveAt(s, p)[i] = s[i + 1]
<1>  DEFINE a == SubSeq(s, 1, p - 1)
            c == SubSeq(s, p + 1, Len(s))
<1>1. Len(s) \in Nat /\ p \in Nat /\ 1 <= p /\ p <= Len(s)
  OBVIOUS
<1>2. /\ a \in Seq(R) /\ Len(a) = p - 1 /\ \A i \in 1 .. p - 1 : a[i] = s[i]
  BY <1>1
<1>3. /\ c \in Seq(R) /\ Len(c) = Len(s) - p
      /\ \A i \in 1 .. Len(s) - p : c[i] = s[i + p]
  BY <1>1
<1>4. RemoveAt(s, p) = a \o c
  BY DEF RemoveAt
<1>  HIDE DEF a, c
<1>5. /\ a \o c \in Seq(R) /\ Len(a \o c) = Len(s) - 1
      /\ \A i \in 1 .. p - 1 : (a \o c)[i] = a[i]
      /\ \A i \in p .. Len(s) - 1 : (a \o c)[i] = c[i - (p - 1)]
  <2>0. a \in Seq(R) /\ c \in Seq(R)
    BY <1>2, <1>3
  <2>1. a \o c \in Seq(R) /\ Len(a \o c) = Len(a) + Len(c)
    BY <2>0
  <2>2. \A i \in 1 .. Len(a) + Len(c) :
          (a \o c)[i] = IF i <= Len(a) THEN a[i] ELSE c[i - Len(a)]
    BY <1>2, <1>3
  <2>3. Len(a) + Len(c) = Len(s) - 1
    BY <1>1, <1>2, <1>3
  <2>4. ASSUME NEW i \in 1 .. p - 1 PROVE (a \o c)[i] = a[i]
    BY <1>1, <1>2, <2>2, <2>3
  <2>5. ASSUME NEW i \in p .. Len(s) - 1 PROVE (a \o c)[i] = c[i - (p - 1)]
    <3>1. i \in 1 .. Len(a) + Len(c) /\ ~(i <= Len(a))
      BY <1>1, <1>2, <2>3
    <3>  QED
      BY <1>2, <2>2, <3>1
  <2>  QED
    BY <2>1, <2>3, <2>4, <2>5
<1>6. ASSUME NEW i \in p .. Len(s) - 1 PROVE c[i - (p - 1)] = s[i + 1]
  <2>1. i - (p - 1) \in 1 .. Len(s) - p /\ (i - (p - 1)) + p = i + 1
    BY <1>1
  <2>  QED
    BY <1>3, <2>1
<1>  QED
  BY <1>2, <1>4, <1>5, <1>6

\* put writes one entry and no other, and the keys still ascend.
THEOREM PutRight ==
  ASSUME NEW D, NEW arr \in Arrays(D), Ascending(arr), NEW k \in Int, NEW d \in D
  PROVE  /\ put(arr, k, d) \in Arrays(D)
         /\ Ascending(put(arr, k, d))
         /\ ToSet(put(arr, k, d)) = Others(arr, k) \cup {Entry(k, d)}
         /\ Len(put(arr, k, d)) = IF Has(arr, k) THEN Len(arr) ELSE Len(arr) + 1
<1>1. PICK p : p = search_forward(arr, k)
  OBVIOUS
<1>2. /\ p \in 0 .. Len(arr) /\ \A i \in 1 .. p : arr[i].key <= k
      /\ \A i \in p + 1 .. Len(arr) : arr[i].key > k
  BY <1>1, SearchForwardSplits
<1>3. /\ Len(arr) \in Nat /\ DOMAIN arr = 1 .. Len(arr)
      /\ \A i \in 1 .. Len(arr) : arr[i].key \in Int
  BY ArrayFacts
<1>4. PICK R : R = [key : Int, data : D]
  OBVIOUS
<1>5. arr \in Seq(R) /\ Arrays(D) = Seq(R)
  BY <1>4 DEF Arrays
<1>6. PICK e \in R : e = Entry(k, d) /\ e.key = k
  <2>1. Entry(k, d) \in R
    BY <1>4 DEF Entry
  <2>2. Entry(k, d).key = k
    BY DEF Entry
  <2>  QED
    BY <2>1, <2>2
<1>7. \A i, j \in 1 .. Len(arr) : i < j => arr[i].key < arr[j].key
  BY <1>3 DEF Ascending
<1>8. PICK new : new = put(arr, k, d)
  OBVIOUS
<1>9. CASE FoundAt(arr, p, k)
  <2>1. p \in 1 .. Len(arr) /\ arr[p].key = k
    BY <1>3, <1>9 DEF FoundAt
  <2>2. arr[p] \in R
    BY <1>5, <2>1
  <2>3. [arr[p] EXCEPT !.data = d] = e
    BY <1>4, <1>6, <2>1, <2>2 DEF Entry
  <2>4. new = [arr EXCEPT ![p] = e]
    BY <1>1, <1>8, <1>9, <2>3 DEF put
  <2>5. new \in Seq(R) /\ Len(new) = Len(arr)
    BY <1>5, <1>6, <2>1, <2>4
  <2>6. DOMAIN new = 1 .. Len(arr) /\ new[p] = e
        /\ \A i \in 1 .. Len(arr) : i # p => new[i] = arr[i]
    BY <1>3, <1>5, <2>1, <2>4
  <2>7. \A i \in 1 .. Len(arr) : new[i].key = arr[i].key
    BY <1>6, <2>1, <2>6
  <2>8. Ascending(new)
    BY <1>7, <2>6, <2>7 DEF Ascending
  <2>9. \A i \in 1 .. Len(arr) : i # p => arr[i].key # k
    BY <1>3, <1>7, <2>1
  <2>10. ToSet(new) = Others(arr, k) \cup {e}
    BY <1>3, <2>1, <2>6, <2>9 DEF ToSet, Others
  <2>  QED
    BY <1>1, <1>5, <1>6, <1>8, <1>9, <2>5, <2>8, <2>10 DEF Has
<1>10. CASE ~FoundAt(arr, p, k)
  <2>0. PICK q \in 1 .. Len(arr) + 1 : q = p + 1
    BY <1>2, <1>3
  <2>1. new = InsertAt(arr, q, e)
    BY <1>1, <1>6, <1>8, <1>10, <2>0 DEF put
  <2>2. /\ new \in Seq(R) /\ Len(new) = Len(arr) + 1
        /\ \A i \in 1 .. q - 1 : new[i] = arr[i]
        /\ new[q] = e
        /\ \A i \in q + 1 .. Len(arr) + 1 : new[i] = arr[i - 1]
    <3>1. arr \in Seq(R) /\ e \in R /\ q \in 1 .. Len(arr) + 1
      BY <1>5
    <3>2. new = [i \in 1 .. Len(arr) + 1 |->
                   IF i < q THEN arr[i] ELSE IF i = q THEN e ELSE arr[i - 1]]
      BY <2>1, <3>1, InsertAtFacts
    <3>3. Len(arr) \in Nat /\ q \in Nat
      BY <1>3
    <3>4. ASSUME NEW i \in 1 .. Len(arr) + 1 PROVE new[i] \in R
      BY <3>1, <3>2, <3>3
    <3>5. new \in Seq(R) /\ Len(new) = Len(arr) + 1
      BY <3>2, <3>3, <3>4
    <3>6. new[q] = e /\ \A i \in 1 .. q - 1 : new[i] = arr[i]
      BY <3>2, <3>3
    <3>7. \A i \in q + 1 .. Len(arr) + 1 : new[i] = arr[i - 1]
      BY <3>2, <3>3
    <3>  QED
      BY <3>5, <3>6, <3>7
  <2>3. DOMAIN new = 1 .. Len(arr) + 1
    BY <2>2
  <2>4. \A i \in 1 .. q - 1 : arr[i].key < k
    <3>  SUFFICES ASSUME NEW i \in 1 .. q - 1 PROVE arr[i].key < k
      OBVIOUS
    <3>1. i \in 1 .. p /\ p \in 1 .. Len(arr) /\ i \in 1 .. Len(arr)
      BY <1>2, <1>3, <2>0
    <3>2. arr[p].key # k /\ arr[p].key <= k /\ arr[i].key <= k
      BY <1>2, <1>3, <1>10, <3>1 DEF FoundAt
    <3>3. i = p \/ arr[i].key < arr[p].key
      BY <1>7, <3>1
    <3>  QED
      BY <1>3, <3>1, <3>2, <3>3
  <2>5. \A i \in q .. Len(arr) : arr[i].key > k
    BY <1>2, <2>0
  <2>6. ASSUME NEW i \in 1 .. Len(arr) + 1
        PROVE  \/ i \in 1 .. q - 1 /\ i \in 1 .. Len(arr) /\ new[i] = arr[i]
                  /\ new[i].key < k
               \/ i = q /\ new[i] = e /\ new[i].key = k
               \/ i \in q + 1 .. Len(arr) + 1 /\ i - 1 \in 1 .. Len(arr)
                  /\ new[i] = arr[i - 1] /\ new[i].key > k
    <3>1. CASE i < q
      <4>1. i \in 1 .. q - 1 /\ i \in 1 .. Len(arr)
        BY <1>3, <2>0, <3>1
      <4>  QED
        BY <2>2, <2>4, <4>1
    <3>2. CASE i = q
      BY <1>6, <2>2, <3>2
    <3>3. CASE i > q
      <4>1. i \in q + 1 .. Len(arr) + 1 /\ i - 1 \in q .. Len(arr)
            /\ i - 1 \in 1 .. Len(arr)
        BY <1>3, <2>0, <3>3
      <4>  QED
        BY <2>2, <2>5, <4>1
    <3>  QED
      BY <1>3, <3>1, <3>2, <3>3
  <2>7. Ascending(new)
    <3>  SUFFICES ASSUME NEW i \in 1 .. Len(arr) + 1, NEW j \in 1 .. Len(arr) + 1, i < j
                  PROVE  new[i].key < new[j].key
      BY <2>3 DEF Ascending
    <3>1. CASE i < q /\ j < q
      <4>1. i \in 1 .. Len(arr) /\ j \in 1 .. Len(arr) /\ new[i] = arr[i] /\ new[j] = arr[j]
        BY <1>3, <2>0, <2>6, <3>1
      <4>  QED
        BY <1>7, <4>1
    <3>2. CASE i > q /\ j > q
      <4>1. /\ i - 1 \in 1 .. Len(arr) /\ j - 1 \in 1 .. Len(arr) /\ i - 1 < j - 1
            /\ new[i] = arr[i - 1] /\ new[j] = arr[j - 1]
        BY <1>3, <2>0, <2>6, <3>2
      <4>  QED
        BY <1>7, <4>1
    <3>3. CASE i <= q /\ q <= j
      <4>1. \/ new[i].key < k /\ new[j].key >= k
            \/ new[i].key <= k /\ new[j].key > k
        BY <1>3, <2>0, <2>6, <3>3
      <4>2. new[i].key \in Int /\ new[j].key \in Int
        BY <1>3, <2>6
      <4>  QED
        BY <4>1, <4>2
    <3>  QED
      BY <1>3, <2>0, <3>1, <3>2, <3>3
  <2>8. \A i \in 1 .. Len(arr) : arr[i].key # k
    <3>  SUFFICES ASSUME NEW i \in 1 .. Len(arr) PROVE arr[i].key # k
      OBVIOUS
    <3>1. i \in 1 .. q - 1 \/ i \in q .. Len(arr)
      BY <1>3, <2>0
    <3>  QED
      BY <1>3, <2>4, <2>5, <3>1
  <2>9. ToSet(new) = ToSet(arr) \cup {e}
    <3>1. ASSUME NEW i \in 1 .. Len(arr) PROVE \E j \in 1 .. Len(arr) + 1 : new[j] = arr[i]
      <4>1. CASE i < q
        <5>1. i \in 1 .. q - 1 /\ i \in 1 .. Len(arr) + 1
          BY <1>3, <2>0, <4>1
        <5>  QED
          BY <2>2, <5>1
      <4>2. CASE i >= q
        <5>1. /\ i + 1 \in q + 1 .. Len(arr) + 1 /\ i + 1 \in 1 .. Len(arr) + 1
              /\ (i + 1) - 1 = i
          BY <1>3, <2>0, <4>2
        <5>  QED
          BY <2>2, <5>1
      <4>  QED
        BY <1>3, <2>0, <4>1, <4>2
    <3>2. ToSet(arr) \subseteq ToSet(new)
      BY <1>3, <2>3, <3>1 DEF ToSet
    <3>3. ToSet(new) \subseteq ToSet(arr) \cup {e}
      BY <1>3, <2>3, <2>6 DEF ToSet
    <3>4. e \in ToSet(new)
      BY <2>0, <2>2, <2>3 DEF ToSet
    <3>  QED
      BY <3>2, <3>3, <3>4
  <2>10. Others(arr, k) = ToSet(arr)
    BY <1>3, <2>8 DEF Others, ToSet
  <2>  QED
    BY <1>1, <1>5, <1>6, <1>8, <1>10, <2>2, <2>7, <2>9, <2>10 DEF Has
<1>  QED
  BY <1>9, <1>10

\* del removes the key's entry and no other, and the keys still ascend.
THEOREM DelRight ==
  ASSUME NEW D, NEW arr \in Arrays(D), Ascending(arr), NEW k \in Int
  PROVE  /\ del(arr, k) \in Arrays(D)
         /\ Ascending(del(arr, k))
         /\ ToSet(del(arr, k)) = Others(arr, k)
         /\ Len(del(arr, k)) = IF Has(arr, k) THEN Len(arr) - 1 ELSE Len(arr)
<1>1. PICK p : p = search_forward(arr, k)
  OBVIOUS
<1>3. /\ Len(arr) \in Nat /\ DOMAIN arr = 1 .. Len(arr)
      /\ \A i \in 1 .. Len(arr) : arr[i].key \in Int
  BY ArrayFacts
<1>4. PICK R : R = [key : Int, data : D]
  OBVIOUS
<1>5. arr \in Seq(R) /\ Arrays(D) = Seq(R)
  BY <1>4 DEF Arrays
<1>7. \A i, j \in 1 .. Len(arr) : i < j => arr[i].key < arr[j].key
  BY <1>3 DEF Ascending
<1>9. CASE ~FoundAt(arr, p, k)
  <2>1. del(arr, k) = arr /\ ~Has(arr, k)
    BY <1>1, <1>9 DEF del, Has
  <2>2. Others(arr, k) = ToSet(arr)
    BY <2>1, HasIsThere DEF Others
  <2>  QED
    BY <2>1, <2>2
<1>10. CASE FoundAt(arr, p, k)
  <2>1. p \in 1 .. Len(arr) /\ arr[p].key = k
    BY <1>3, <1>10 DEF FoundAt
  <2>2. PICK new : new = RemoveAt(arr, p)
    OBVIOUS
  <2>3. del(arr, k) = new /\ Has(arr, k)
    BY <1>1, <1>10, <2>2 DEF del, Has
  <2>4. /\ new \in Seq(R) /\ Len(new) = Len(arr) - 1
        /\ \A i \in 1 .. p - 1 : new[i] = arr[i]
        /\ \A i \in p .. Len(arr) - 1 : new[i] = arr[i + 1]
    BY <1>5, <2>1, <2>2, RemoveAtFacts
  <2>5. DOMAIN new = 1 .. Len(arr) - 1
    BY <2>4
  <2>6. ASSUME NEW i \in 1 .. Len(arr) - 1
        PROVE  \E a \in 1 .. Len(arr) :
                  /\ new[i] = arr[a]
                  /\ \/ i < p /\ a = i
                     \/ i >= p /\ a = i + 1
    <3>1. CASE i < p
      <4>1. i \in 1 .. p - 1 /\ i \in 1 .. Len(arr)
        BY <1>3, <2>1, <3>1
      <4>2. new[i] = arr[i]
        BY <2>4, <4>1
      <4>  QED
        BY <3>1, <4>1, <4>2
    <3>2. CASE i >= p
      <4>1. PICK a \in 1 .. Len(arr) : a = i + 1
        BY <1>3, <2>1, <3>2
      <4>2. i \in p .. Len(arr) - 1
        BY <1>3, <2>1, <3>2
      <4>3. new[i] = arr[a]
        BY <2>4, <4>1, <4>2
      <4>  QED
        BY <3>2, <4>1, <4>3
    <3>  QED
      BY <1>3, <2>1, <3>1, <3>2
  <2>7. Ascending(new)
    <3>  SUFFICES ASSUME NEW i \in 1 .. Len(arr) - 1, NEW j \in 1 .. Len(arr) - 1, i < j
                  PROVE  new[i].key < new[j].key
      BY <2>5 DEF Ascending
    <3>1. PICK a \in 1 .. Len(arr) :
             new[i] = arr[a] /\ ((i < p /\ a = i) \/ (i >= p /\ a = i + 1))
      BY <2>6
    <3>2. PICK c \in 1 .. Len(arr) :
             new[j] = arr[c] /\ ((j < p /\ c = j) \/ (j >= p /\ c = j + 1))
      BY <2>6
    <3>3. a < c
      BY <1>3, <2>1, <3>1, <3>2
    <3>  QED
      BY <1>7, <3>1, <3>2, <3>3
  <2>8. \A i \in 1 .. Len(arr) : arr[i].key = k <=> i = p
    BY <1>3, <1>7, <2>1
  <2>9. ASSUME NEW i \in 1 .. Len(arr), i # p
        PROVE  \E j \in 1 .. Len(arr) - 1 : new[j] = arr[i]
    <3>1. CASE i < p
      <4>1. i \in 1 .. p - 1 /\ i \in 1 .. Len(arr) - 1
        BY <1>3, <2>1, <3>1
      <4>  QED
        BY <2>4, <4>1
    <3>2. CASE i > p
      <4>1. i - 1 \in p .. Len(arr) - 1 /\ i - 1 \in 1 .. Len(arr) - 1 /\ (i - 1) + 1 = i
        BY <1>3, <2>1, <3>2
      <4>  QED
        BY <2>4, <4>1
    <3>  QED
      BY <1>3, <2>1, <2>9, <3>1, <3>2
  <2>10. Others(arr, k) \subseteq ToSet(new)
    BY <1>3, <2>5, <2>8, <2>9 DEF Others, ToSet
  <2>11. ASSUME NEW i \in 1 .. Len(arr) - 1 PROVE new[i] \in Others(arr, k)
    <3>1. PICK a \in 1 .. Len(arr) :
             new[i] = arr[a] /\ ((i < p /\ a = i) \/ (i >= p /\ a = i + 1))
      BY <2>6
    <3>2. a # p
      BY <1>3, <2>1, <3>1
    <3>  QED
      BY <1>3, <2>8, <3>1, <3>2 DEF Others, ToSet
  <2>12. ToSet(new) = Others(arr, k)
    BY <2>5, <2>10, <2>11 DEF ToSet
  <2>  QED
    BY <1>5, <2>3, <2>4, <2>7, <2>12
<1>  QED
  BY <1>9, <1>10

-----------------------------------------------------------------------------
(***************************************************************************)
(* Splitting and iterating                                                 *)
(***************************************************************************)
\* A full array splits into two that ascend, neither of them empty or full, with
\* all keys of the left half before all keys of the right: no entry is lost, and
\* each half has room for the key that made the split necessary.
THEOREM SplitRight ==
  ASSUME NEW D, NEW arr \in Arrays(D), Ascending(arr), is_full(arr)
  PROVE  /\ LeftHalf(arr) \in Arrays(D) /\ RightHalf(arr) \in Arrays(D)
         /\ LeftHalf(arr) \o RightHalf(arr) = arr
         /\ Ascending(LeftHalf(arr)) /\ Ascending(RightHalf(arr))
         /\ \A i \in DOMAIN LeftHalf(arr), j \in DOMAIN RightHalf(arr) :
               LeftHalf(arr)[i].key < RightHalf(arr)[j].key
         /\ Len(LeftHalf(arr)) \in 2 .. Len(arr) - 1
         /\ Len(RightHalf(arr)) \in 1 .. Len(arr) - 1
<1>1. /\ Len(arr) \in Nat /\ DOMAIN arr = 1 .. Len(arr)
      /\ \A i \in 1 .. Len(arr) : arr[i].key \in Int
  BY ArrayFacts
<1>2. PICK R : R = [key : Int, data : D]
  OBVIOUS
<1>3. arr \in Seq(R) /\ Arrays(D) = Seq(R)
  BY <1>2 DEF Arrays
<1>4. PICK n \in Nat : n = Len(arr)
  BY <1>1
<1>5. n >= 3
  BY <1>4, SortedArrayAssumption DEF is_full
<1>6. PICK m : m = SplitAt(arr)
  OBVIOUS
<1>7. m = n - n \div 2
  BY <1>4, <1>6 DEF SplitAt
<1>8. m \in 2 .. n - 1
  BY <1>5, <1>7
<1>9. PICK L : L = SubSeq(arr, 1, m)
  OBVIOUS
<1>10. PICK U : U = SubSeq(arr, m + 1, n)
  OBVIOUS
<1>11. LeftHalf(arr) = L /\ RightHalf(arr) = U
  BY <1>4, <1>6, <1>9, <1>10 DEF LeftHalf, RightHalf
<1>12. L \in Seq(R) /\ Len(L) = m /\ DOMAIN L = 1 .. m /\ \A i \in 1 .. m : L[i] = arr[i]
  BY <1>3, <1>4, <1>8, <1>9
<1>13. /\ U \in Seq(R) /\ Len(U) = n - m /\ DOMAIN U = 1 .. n - m
       /\ \A i \in 1 .. n - m : U[i] = arr[i + m]
  BY <1>3, <1>4, <1>8, <1>10
<1>14. \A i, j \in 1 .. n : i < j => arr[i].key < arr[j].key
  BY <1>1, <1>4 DEF Ascending
<1>15. \A i \in 1 .. m : i \in 1 .. n
  BY <1>8
<1>16. \A i \in 1 .. n - m : i + m \in 1 .. n /\ i + m > m
  BY <1>8
<1>17. Ascending(L)
  BY <1>12, <1>14, <1>15 DEF Ascending
<1>18. Ascending(U)
  <2>  SUFFICES ASSUME NEW i \in 1 .. n - m, NEW j \in 1 .. n - m, i < j
                PROVE  U[i].key < U[j].key
    BY <1>13 DEF Ascending
  <2>1. i + m < j + m
    BY <1>8
  <2>  QED
    BY <1>13, <1>14, <1>16, <2>1
<1>19. ASSUME NEW i \in 1 .. m, NEW j \in 1 .. n - m PROVE L[i].key < U[j].key
  <2>1. i < j + m
    BY <1>8
  <2>  QED
    BY <1>12, <1>13, <1>14, <1>15, <1>16, <2>1
<1>20. L \o U = arr
  <2>1. PICK w : w = L \o U
    OBVIOUS
  <2>2. /\ w \in Seq(R) /\ Len(w) = Len(L) + Len(U)
        /\ \A i \in 1 .. Len(L) + Len(U) :
              w[i] = IF i <= Len(L) THEN L[i] ELSE U[i - Len(L)]
    <3>1. L \in Seq(R) /\ U \in Seq(R)
      BY <1>12, <1>13
    <3>  QED
      BY <2>1, <3>1
  <2>3. m \in Int /\ n \in Int /\ m + (n - m) = n
    BY <1>8
  <2>4. /\ Len(w) = n
        /\ \A i \in 1 .. n : w[i] = IF i <= m THEN L[i] ELSE U[i - m]
    BY <1>12, <1>13, <2>2, <2>3
  <2>5. ASSUME NEW i \in 1 .. n PROVE w[i] = arr[i]
    <3>1. CASE i <= m
      <4>1. i \in 1 .. m
        BY <2>3, <3>1
      <4>  QED
        BY <1>12, <2>4, <3>1, <4>1
    <3>2. CASE i > m
      <4>1. i - m \in 1 .. n - m /\ (i - m) + m = i /\ ~(i <= m)
        BY <1>8, <3>2
      <4>2. w[i] = U[i - m]
        BY <2>4, <4>1
      <4>  QED
        BY <1>13, <4>1, <4>2
    <3>  QED
      BY <2>3, <3>1, <3>2
  <2>6. w = [i \in 1 .. n |-> w[i]] /\ arr = [i \in 1 .. n |-> arr[i]]
    BY <1>3, <1>4, <2>2, <2>4
  <2>  QED
    BY <2>1, <2>5, <2>6
<1>21. n - m \in 1 .. n - 1
  BY <1>8
<1>  QED
  BY <1>3, <1>4, <1>8, <1>11, <1>12, <1>13, <1>17, <1>18, <1>19, <1>20, <1>21

\* iter_forward starts at the first key that is at least the key sought, and
\* iter_backward at the last that is at most it, whether or not the key is there.
THEOREM IterationStart ==
  ASSUME NEW D, NEW arr \in Arrays(D), Ascending(arr), NEW k \in Int
  PROVE  /\ \A i \in DOMAIN arr : i >= iter_forward(arr, k) <=> arr[i].key >= k
         /\ \A i \in DOMAIN arr : i <= iter_backward(arr, k) <=> arr[i].key <= k
<1>1. /\ Len(arr) \in Nat /\ DOMAIN arr = 1 .. Len(arr)
      /\ \A i \in 1 .. Len(arr) : arr[i].key \in Int
  BY ArrayFacts
<1>2. \A i, j \in 1 .. Len(arr) : i < j => arr[i].key < arr[j].key
  BY <1>1 DEF Ascending
<1>3. ASSUME NEW i \in 1 .. Len(arr)
      PROVE  i >= iter_forward(arr, k) <=> arr[i].key >= k
  <2>1. PICK p : p = search_forward(arr, k)
    OBVIOUS
  <2>2. /\ p \in 0 .. Len(arr) /\ \A j \in 1 .. p : arr[j].key <= k
        /\ \A j \in p + 1 .. Len(arr) : arr[j].key > k
    BY <2>1, SearchForwardSplits
  <2>3. CASE FoundAt(arr, p, k)
    <3>1. iter_forward(arr, k) = p /\ p \in 1 .. Len(arr) /\ arr[p].key = k
      BY <1>1, <2>1, <2>3 DEF iter_forward, FoundAt
    <3>  QED
      BY <1>1, <1>2, <3>1
  <2>4. CASE ~FoundAt(arr, p, k)
    <3>1. iter_forward(arr, k) = p + 1 /\ (p \in 1 .. Len(arr) => arr[p].key # k)
      BY <1>1, <2>1, <2>4 DEF iter_forward, FoundAt
    <3>2. i <= p => arr[i].key < k
      <4>  SUFFICES ASSUME i <= p PROVE arr[i].key < k
        OBVIOUS
      <4>1. p \in 1 .. Len(arr) /\ p \in 1 .. p
        BY <1>1, <2>2
      <4>2. arr[p].key < k
        BY <1>1, <2>2, <3>1, <4>1
      <4>  QED
        BY <1>1, <1>2, <4>1, <4>2
    <3>3. i > p => arr[i].key > k
      BY <1>1, <2>2
    <3>  QED
      BY <1>1, <2>2, <3>1, <3>2, <3>3
  <2>  QED
    BY <2>3, <2>4
<1>4. ASSUME NEW i \in 1 .. Len(arr)
      PROVE  i <= iter_backward(arr, k) <=> arr[i].key <= k
  <2>1. PICK p : p = search_backward(arr, k)
    OBVIOUS
  <2>2. /\ p \in 1 .. Len(arr) + 1 /\ \A j \in 1 .. p - 1 : arr[j].key < k
        /\ \A j \in p .. Len(arr) : arr[j].key >= k
    BY <2>1, SearchBackwardSplits
  <2>3. CASE FoundAt(arr, p, k)
    <3>1. iter_backward(arr, k) = p /\ p \in 1 .. Len(arr) /\ arr[p].key = k
      BY <1>1, <2>1, <2>3 DEF iter_backward, FoundAt
    <3>  QED
      BY <1>1, <1>2, <3>1
  <2>4. CASE ~FoundAt(arr, p, k)
    <3>1. iter_backward(arr, k) = p - 1 /\ (p \in 1 .. Len(arr) => arr[p].key # k)
      BY <1>1, <2>1, <2>4 DEF iter_backward, FoundAt
    <3>2. i >= p => arr[i].key > k
      <4>  SUFFICES ASSUME i >= p PROVE arr[i].key > k
        OBVIOUS
      <4>1. p \in 1 .. Len(arr) /\ p \in p .. Len(arr)
        BY <1>1, <2>2
      <4>2. arr[p].key > k
        BY <1>1, <2>2, <3>1, <4>1
      <4>  QED
        BY <1>1, <1>2, <4>1, <4>2
    <3>3. i < p => arr[i].key < k
      BY <1>1, <2>2
    <3>  QED
      BY <1>1, <2>2, <3>1, <3>2, <3>3
  <2>  QED
    BY <2>3, <2>4
<1>  QED
  BY <1>1, <1>3, <1>4
=============================================================================
