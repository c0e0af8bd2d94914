-------------------------- MODULE ArrayTreeProofs --------------------------
(***************************************************************************)
(* Proofs about ArrayTree, for trees of any size and any number of keys.   *)
(***************************************************************************)
EXTENDS ArrayTree, SortedArrayProofs, TLAPS

(***************************************************************************)
(* The shape of a tree                                                     *)
(***************************************************************************)
\* The keys of R that a node with the entries E serves through the child of entry
\* e, and through its left child.
ServedIn(R, E, e) ==
  {k \in R : e.key <= k /\ \A f \in E : f.key <= k => f.key <= e.key}

LeftIn(R, E) == {k \in R : \A f \in E : k < f.key}

\* Node i of the nodes D serves its keys through its children.
Divides(D, left, ents, rg, lv, i) ==
  /\ left[i] \in D /\ lv[left[i]] = lv[i] - 1
  /\ rg[left[i]] = LeftIn(rg[i], ents[i])
  /\ \A e \in ents[i] :
       e.data \in D /\ lv[e.data] = lv[i] - 1 /\ rg[e.data] = ServedIn(rg[i], ents[i], e)

Apart(R, S) == (\A k \in R, m \in S : k < m) \/ (\A k \in S, m \in R : k < m)

\* The nodes D: which are leaves, their left children, entries, ranges and levels.
Shape(D, leaf, left, ents, rg, lv) ==
  /\ \A i \in D :
       /\ lv[i] \in Nat /\ (leaf[i] <=> lv[i] = 0)
       /\ rg[i] \subseteq Keys /\ rg[i] # {}
       /\ \A e \in ents[i] : e.key \in rg[i]
       /\ \A e, f \in ents[i] : e.key = f.key => e = f
       /\ ~leaf[i] => Divides(D, left, ents, rg, lv, i)
  /\ \A i, j \in D : i # j /\ lv[i] = lv[j] => Apart(rg[i], rg[j])

\* Two entries of a node have different children, and neither is the left one.
LEMMA ChildrenDiffer ==
  ASSUME NEW D, NEW leaf, NEW left, NEW ents, NEW rg, NEW lv,
         Shape(D, leaf, left, ents, rg, lv), NEW i \in D, ~leaf[i],
         NEW e \in ents[i]
  PROVE  /\ e.data # left[i]
         /\ \A f \in ents[i] : e.data = f.data => e = f
<1>1. /\ Keys \subseteq Int /\ rg[i] \subseteq Keys /\ Divides(D, left, ents, rg, lv, i)
  BY TreeAssumption DEF Shape
<1>2. e.data \in D /\ rg[e.data] = ServedIn(rg[i], ents[i], e)
  BY <1>1 DEF Divides
<1>3. PICK k \in rg[e.data] : TRUE
  BY <1>2 DEF Shape
<1>4. k \in Int /\ e.key \in Int /\ e.key <= k
      /\ \A f \in ents[i] : f.key \in Int /\ (f.key <= k => f.key <= e.key)
  BY <1>1, <1>2, <1>3 DEF ServedIn, Shape
<1>5. e.data # left[i]
  <2>  SUFFICES ASSUME e.data = left[i] PROVE FALSE
    OBVIOUS
  <2>1. k < e.key
    BY <1>1, <1>3 DEF Divides, LeftIn
  <2>  QED
    BY <2>1, <1>4
<1>6. ASSUME NEW f \in ents[i], e.data = f.data PROVE e = f
  <2>1. k \in ServedIn(rg[i], ents[i], f)
    BY <1>1, <1>3, <1>6 DEF Divides
  <2>2. f.key <= k /\ e.key <= f.key
    BY <1>4, <2>1 DEF ServedIn
  <2>3. e.key = f.key
    BY <1>4, <2>2
  <2>  QED
    BY <2>3 DEF Shape
<1>  QED
  BY <1>5, <1>6

\* Dividing a node at one of its keys leaves each child its range: in the lower half
LEMMA DivideLow ==
  ASSUME NEW R \in SUBSET Int, NEW E, \A e \in E : e.key \in Int, NEW m \in E,
         NEW lo, lo = {e \in E : e.key < m.key}, NEW RL, RL = {k \in R : k < m.key}
  PROVE  /\ LeftIn(RL, lo) = LeftIn(R, E)
         /\ \A e \in lo : ServedIn(RL, lo, e) = ServedIn(R, E, e)
<1>1. ASSUME NEW k \in R PROVE k \in LeftIn(RL, lo) <=> k \in LeftIn(R, E)
  BY DEF LeftIn
<1>2. LeftIn(RL, lo) \subseteq R /\ LeftIn(R, E) \subseteq R
  BY DEF LeftIn
<1>3. ASSUME NEW e \in lo, NEW k \in R
      PROVE  k \in ServedIn(RL, lo, e) <=> k \in ServedIn(R, E, e)
  BY DEF ServedIn
<1>4. \A e \in lo : ServedIn(RL, lo, e) \subseteq R /\ ServedIn(R, E, e) \subseteq R
  BY DEF ServedIn
<1>5. LeftIn(RL, lo) = LeftIn(R, E)
  BY <1>1, <1>2
<1>6. ASSUME NEW e \in lo PROVE ServedIn(RL, lo, e) = ServedIn(R, E, e)
  BY <1>3, <1>4
<1>  QED
  BY <1>5, <1>6

\* and in the upper half, whose left child is the one of the key in between.
ServesHigh(R, E, m, RH, hi) ==
  /\ LeftIn(RH, hi) = ServedIn(R, E, m)
  /\ \A e \in hi : ServedIn(RH, hi, e) = ServedIn(R, E, e)

\* The upper half of a node that was divided at one of its keys.
LEMMA DivideHigh ==
  ASSUME NEW R \in SUBSET Int, NEW E, \A e \in E : e.key \in Int, NEW m \in E,
         NEW hi, hi = {e \in E : e.key > m.key}, NEW RH, RH = {k \in R : k >= m.key}
  PROVE  ServesHigh(R, E, m, RH, hi)
<1>1. ASSUME NEW k \in R PROVE k \in LeftIn(RH, hi) <=> k \in ServedIn(R, E, m)
  BY DEF LeftIn, ServedIn
<1>2. LeftIn(RH, hi) \subseteq R /\ ServedIn(R, E, m) \subseteq R
  BY DEF LeftIn, ServedIn
<1>3. ASSUME NEW e \in hi, NEW k \in R
      PROVE  k \in ServedIn(RH, hi, e) <=> k \in ServedIn(R, E, e)
  BY DEF ServedIn
<1>4. \A e \in hi : ServedIn(RH, hi, e) \subseteq R /\ ServedIn(R, E, e) \subseteq R
  BY DEF ServedIn
<1>5. LeftIn(RH, hi) = ServedIn(R, E, m)
  BY <1>1, <1>2
<1>6. ASSUME NEW e \in hi PROVE ServedIn(RH, hi, e) = ServedIn(R, E, e)
  BY <1>3, <1>4
<1>  QED
  BY <1>5, <1>6 DEF ServesHigh

\* A key added in the range of the left child divides that range and no other.
LEMMA AddAtLeft ==
  ASSUME NEW R \in SUBSET Int, NEW E, \A e \in E : e.key \in Int, NEW x,
         x.key \in LeftIn(R, E)
  PROVE  /\ LeftIn(R, E \cup {x}) = {k \in LeftIn(R, E) : k < x.key}
         /\ ServedIn(R, E \cup {x}, x) = {k \in LeftIn(R, E) : k >= x.key}
         /\ \A e \in E : ServedIn(R, E \cup {x}, e) = ServedIn(R, E, e)
<1>1. x.key \in R /\ x.key \in Int /\ \A f \in E : x.key < f.key
  BY DEF LeftIn
<1>2. ASSUME NEW k \in R
      PROVE  k \in LeftIn(R, E \cup {x}) <=> k \in LeftIn(R, E) /\ k < x.key
  BY DEF LeftIn
<1>3. ASSUME NEW k \in R
      PROVE  k \in ServedIn(R, E \cup {x}, x) <=> k \in LeftIn(R, E) /\ k >= x.key
  BY <1>1 DEF LeftIn, ServedIn
<1>4. ASSUME NEW e \in E, NEW k \in R
      PROVE  k \in ServedIn(R, E \cup {x}, e) <=> k \in ServedIn(R, E, e)
  BY <1>1 DEF ServedIn
<1>5. /\ LeftIn(R, E \cup {x}) \subseteq R /\ LeftIn(R, E) \subseteq R
      /\ \A e \in E \cup {x} : ServedIn(R, E \cup {x}, e) \subseteq R
      /\ \A e \in E : ServedIn(R, E, e) \subseteq R
  BY DEF LeftIn, ServedIn
<1>6. LeftIn(R, E \cup {x}) = {k \in LeftIn(R, E) : k < x.key}
  BY <1>2, <1>5
<1>7. ServedIn(R, E \cup {x}, x) = {k \in LeftIn(R, E) : k >= x.key}
  BY <1>3, <1>5
<1>8. ASSUME NEW e \in E PROVE ServedIn(R, E \cup {x}, e) = ServedIn(R, E, e)
  BY <1>4, <1>5
<1>  QED
  BY <1>6, <1>7, <1>8

\* A key added in the range of another child divides that range and no other.
ServesNewKey(R, E, d, x) ==
  /\ LeftIn(R, E \cup {x}) = LeftIn(R, E)
  /\ ServedIn(R, E \cup {x}, d) = {k \in ServedIn(R, E, d) : k < x.key}
  /\ ServedIn(R, E \cup {x}, x) = {k \in ServedIn(R, E, d) : k >= x.key}
  /\ \A e \in E \ {d} : ServedIn(R, E \cup {x}, e) = ServedIn(R, E, e)

\* A key added behind another is served by a part of what that one served.
LEMMA AddAtEntry ==
  ASSUME NEW R \in SUBSET Int, NEW E, \A e \in E : e.key \in Int,
         \A e, f \in E : e.key = f.key => e = f, NEW x, NEW d \in E,
         x.key \in ServedIn(R, E, d), d.key < x.key
  PROVE  ServesNewKey(R, E, d, x)
<1>1. /\ x.key \in R /\ x.key \in Int /\ d.key \in Int
      /\ \A f \in E : f.key \in Int /\ (f.key <= x.key => f.key <= d.key)
  BY DEF ServedIn
<1>2. ASSUME NEW k \in R PROVE k \in LeftIn(R, E \cup {x}) <=> k \in LeftIn(R, E)
  <2>1. k \in LeftIn(R, E) => k < x.key
    BY <1>1 DEF LeftIn
  <2>  QED
    BY <2>1 DEF LeftIn
<1>3. ASSUME NEW k \in R
      PROVE  k \in ServedIn(R, E \cup {x}, d) <=> k \in ServedIn(R, E, d) /\ k < x.key
  BY <1>1 DEF ServedIn
<1>4. ASSUME NEW k \in R
      PROVE  k \in ServedIn(R, E \cup {x}, x) <=> k \in ServedIn(R, E, d) /\ k >= x.key
  <2>1. ASSUME k \in ServedIn(R, E \cup {x}, x)
        PROVE  k \in ServedIn(R, E, d) /\ k >= x.key
    <3>1. k >= x.key /\ \A f \in E : f.key <= k => f.key <= x.key
      BY <2>1 DEF ServedIn
    <3>2. \A f \in E : f.key <= k => f.key <= d.key
      BY <1>1, <3>1
    <3>  QED
      BY <1>1, <3>1, <3>2 DEF ServedIn
  <2>2. ASSUME k \in ServedIn(R, E, d), k >= x.key
        PROVE  k \in ServedIn(R, E \cup {x}, x)
    <3>1. \A f \in E : f.key <= k => f.key <= d.key
      BY <2>2 DEF ServedIn
    <3>2. \A f \in E \cup {x} : f.key <= k => f.key <= x.key
      BY <1>1, <3>1
    <3>  QED
      BY <2>2, <1>1, <3>2 DEF ServedIn
  <2>  QED
    BY <2>1, <2>2
<1>5. ASSUME NEW e \in E \ {d}, NEW k \in R
      PROVE  k \in ServedIn(R, E \cup {x}, e) <=> k \in ServedIn(R, E, e)
  <2>  SUFFICES ASSUME k \in ServedIn(R, E, e), x.key <= k PROVE x.key <= e.key
    BY DEF ServedIn
  <2>1. d.key <= e.key
    BY <1>1 DEF ServedIn
  <2>2. d.key # e.key
    OBVIOUS
  <2>  QED
    BY <1>1, <2>1, <2>2
<1>6. /\ LeftIn(R, E \cup {x}) \subseteq R /\ LeftIn(R, E) \subseteq R
      /\ \A e \in E \cup {x} : ServedIn(R, E \cup {x}, e) \subseteq R
      /\ \A e \in E : ServedIn(R, E, e) \subseteq R
  BY DEF LeftIn, ServedIn
<1>7. LeftIn(R, E \cup {x}) = LeftIn(R, E)
  BY <1>2, <1>6
<1>8. ServedIn(R, E \cup {x}, d) = {k \in ServedIn(R, E, d) : k < x.key}
  BY <1>3, <1>6
<1>9. ServedIn(R, E \cup {x}, x) = {k \in ServedIn(R, E, d) : k >= x.key}
  BY <1>4, <1>6
<1>10. ASSUME NEW e \in E \ {d} PROVE ServedIn(R, E \cup {x}, e) = ServedIn(R, E, e)
  BY <1>5, <1>6
<1>  QED
  BY <1>7, <1>8, <1>9, <1>10 DEF ServesNewKey

\* Node n is split at key "mid": the keys from there on go to the new node r, which
\* becomes a child of n's parent p.
SplitsInto(D, leaf, left, ents, rg, lv, leaf2, left2, ents2, rg2, lv2, n, r, p, mid) ==
  /\ \A i \in D : leaf2[i] = leaf[i] /\ left2[i] = left[i] /\ lv2[i] = lv[i]
  /\ leaf2[r] = leaf[n] /\ lv2[r] = lv[n]
  /\ \A i \in D \ {n} : rg2[i] = rg[i]
  /\ rg2[n] = {k \in rg[n] : k < mid} /\ rg2[r] = {k \in rg[n] : k >= mid}
  /\ \A i \in D \ {n, p} : ents2[i] = ents[i]
  /\ ents2[p] = ents[p] \cup {Entry(mid, r)}
  /\ ents2[n] = {e \in ents[n] : e.key < mid}
  /\ leaf[n] => ents2[r] = {e \in ents[n] : e.key >= mid}
  /\ ~leaf[n] => /\ ents2[r] = {e \in ents[n] : e.key > mid}
                 /\ \E m \in ents[n] : m.key = mid /\ left2[r] = m.data

\* A split keeps the shape, and the key that goes up is new to the parent.
SplitKeepsShape(D, leaf, left, ents, rg, lv, leaf2, left2, ents2, rg2, lv2, n, r, p, mid) ==
  /\ Shape(D \cup {r}, leaf2, left2, ents2, rg2, lv2)
  /\ \A e \in ents[p] : e.key # mid
  /\ lv[p] = lv[n] + 1

\* Splitting a node, with the new node pending at its parent, keeps the shape.
LEMMA SplitShape ==
  ASSUME NEW D, NEW leaf, NEW left, NEW ents, NEW rg, NEW lv,
         NEW leaf2, NEW left2, NEW ents2, NEW rg2, NEW lv2,
         NEW n \in D, NEW r, r \notin D, NEW p \in D, ~leaf[p],
         NEW mid \in rg[n], \E low \in rg[n] : low < mid,
         n = left[p] \/ \E e \in ents[p] : e.data = n,
         Shape(D, leaf, left, ents, rg, lv),
         SplitsInto(D, leaf, left, ents, rg, lv, leaf2, left2, ents2, rg2, lv2,
                    n, r, p, mid)
  PROVE  SplitKeepsShape(D, leaf, left, ents, rg, lv, leaf2, left2, ents2, rg2, lv2,
                         n, r, p, mid)
<1>  DEFINE x == Entry(mid, r)
<1>0. PICK low \in rg[n] : low < mid
  OBVIOUS
<1>1. /\ Keys \subseteq Int
      /\ \A i \in D : /\ lv[i] \in Nat /\ (leaf[i] <=> lv[i] = 0)
                      /\ rg[i] \subseteq Keys /\ rg[i] \in SUBSET Int /\ rg[i] # {}
                      /\ \A e \in ents[i] : e.key \in rg[i] /\ e.key \in Int
                      /\ \A e, f \in ents[i] : e.key = f.key => e = f
                      /\ ~leaf[i] => Divides(D, left, ents, rg, lv, i)
  BY TreeAssumption DEF Shape
<1>2. mid \in Int /\ low \in Int /\ mid \in Keys
  BY <1>1
<1>3. x.key = mid /\ x.data = r
  BY DEF Entry
<1>  HIDE DEF x
<1>4. /\ \A i \in D : leaf2[i] = leaf[i] /\ left2[i] = left[i] /\ lv2[i] = lv[i]
      /\ leaf2[r] = leaf[n] /\ lv2[r] = lv[n]
      /\ \A i \in D \ {n} : rg2[i] = rg[i]
      /\ rg2[n] = {k \in rg[n] : k < mid} /\ rg2[r] = {k \in rg[n] : k >= mid}
  BY DEF SplitsInto
<1>5. /\ \A i \in D \ {n, p} : ents2[i] = ents[i]
      /\ ents2[p] = ents[p] \cup {x}
      /\ ents2[n] = {e \in ents[n] : e.key < mid}
      /\ leaf[n] => ents2[r] = {e \in ents[n] : e.key >= mid}
  BY DEF SplitsInto, x
<1>6. ASSUME ~leaf[n]
      PROVE  /\ ents2[r] = {e \in ents[n] : e.key > mid}
             /\ \E m \in ents[n] : m.key = mid /\ left2[r] = m.data
  BY <1>6 DEF SplitsInto
<1>7. Divides(D, left, ents, rg, lv, p)
  BY <1>1
<1>8. lv[p] = lv[n] + 1 /\ p # n
  <2>1. lv[n] = lv[p] - 1
    BY <1>7 DEF Divides
  <2>  QED
    BY <1>1, <2>1
\* Only p has n for a child.
<1>9. ASSUME NEW i \in D \ {p}, ~leaf[i]
      PROVE  left[i] # n /\ \A e \in ents[i] : e.data # n
  <2>  SUFFICES ASSUME left[i] = n \/ \E e \in ents[i] : e.data = n PROVE FALSE
    OBVIOUS
  <2>1. Divides(D, left, ents, rg, lv, i)
    BY <1>1, <1>9
  <2>2. rg[n] \subseteq rg[i] /\ rg[n] \subseteq rg[p]
    BY <2>1, <1>7 DEF Divides, LeftIn, ServedIn
  <2>3. lv[n] = lv[i] - 1
    BY <2>1 DEF Divides
  <2>4. lv[i] = lv[p]
    BY <2>3, <1>1, <1>8
  <2>5. Apart(rg[i], rg[p])
    BY <2>4 DEF Shape
  <2>6. mid < mid
    BY <2>2, <2>5 DEF Apart
  <2>  QED
    BY <1>2, <2>6
<1>10. /\ mid \in rg2[r] /\ low \in rg2[n]
       /\ rg2[n] \subseteq rg[n] /\ rg2[r] \subseteq rg[n]
  BY <1>0, <1>1, <1>2, <1>4
<1>11. \A e \in ents[p] : e.key # mid
  <2>1. CASE n = left[p]
    <3>1. \A e \in ents[p] : mid < e.key
      BY <2>1, <1>7 DEF Divides, LeftIn
    <3>  QED
      BY <1>1, <1>2, <3>1
  <2>2. CASE \E e \in ents[p] : e.data = n
    <3>1. PICK d \in ents[p] : d.data = n
      BY <2>2
    <3>2. rg[n] = ServedIn(rg[p], ents[p], d)
      BY <3>1, <1>7 DEF Divides
    <3>3. d.key <= low /\ \A f \in ents[p] : f.key <= mid => f.key <= d.key
      BY <3>2 DEF ServedIn
    <3>  QED
      BY <1>0, <1>1, <1>2, <3>3
  <2>  QED
    BY <2>1, <2>2
<1>12. mid \in rg[p]
  BY <1>7 DEF Divides, LeftIn, ServedIn
<1>13. ASSUME NEW i \in D \cup {r}
       PROVE  /\ lv2[i] \in Nat /\ (leaf2[i] <=> lv2[i] = 0)
              /\ rg2[i] \subseteq Keys /\ rg2[i] # {}
  BY <1>1, <1>4, <1>10
<1>14. ASSUME NEW i \in D \cup {r}
       PROVE  /\ \A e \in ents2[i] : e.key \in rg2[i]
              /\ \A e, f \in ents2[i] : e.key = f.key => e = f
  <2>1. CASE i \in D \ {n, p}
    BY <2>1, <1>1, <1>4, <1>5
  <2>2. CASE i = p
    <3>1. ents2[i] = ents[p] \cup {x} /\ rg2[i] = rg[p]
      BY <2>2, <1>4, <1>5, <1>8
    <3>  QED
      BY <3>1, <1>1, <1>3, <1>11, <1>12
  <2>3. CASE i = n
    BY <2>3, <1>1, <1>4, <1>5
  <2>4. CASE i = r
    <3>1. \A e \in ents2[r] : e \in ents[n] /\ e.key >= mid
      BY <1>1, <1>2, <1>5, <1>6
    <3>  QED
      BY <2>4, <3>1, <1>1, <1>4
  <2>  QED
    BY <2>1, <2>2, <2>3, <2>4
<1>15. ASSUME NEW i \in D \cup {r}, ~leaf2[i]
       PROVE  Divides(D \cup {r}, left2, ents2, rg2, lv2, i)
  <2>1. CASE i \in D \ {n, p}
    <3>1. Divides(D, left, ents, rg, lv, i) /\ ents2[i] = ents[i] /\ rg2[i] = rg[i]
          /\ left2[i] = left[i] /\ lv2[i] = lv[i]
      BY <2>1, <1>1, <1>4, <1>5, <1>15
    <3>2. left[i] # n /\ \A e \in ents[i] : e.data # n
      BY <2>1, <1>4, <1>9, <1>15
    <3>3. left[i] \in D \ {n} /\ \A e \in ents[i] : e.data \in D \ {n}
      BY <3>1, <3>2 DEF Divides
    <3>4. /\ rg2[left[i]] = rg[left[i]] /\ lv2[left[i]] = lv[left[i]]
          /\ \A e \in ents[i] : rg2[e.data] = rg[e.data] /\ lv2[e.data] = lv[e.data]
      BY <3>3, <1>4
    <3>  QED
      BY <3>1, <3>3, <3>4 DEF Divides
  <2>2. CASE i = n
    <3>1. ~leaf[n] /\ Divides(D, left, ents, rg, lv, n) /\ left2[n] = left[n]
          /\ lv2[n] = lv[n]
      BY <2>2, <1>1, <1>4, <1>15
    <3>2. PICK m \in ents[n] : m.key = mid
      BY <3>1, <1>6
    <3>3. /\ LeftIn(rg2[n], ents2[n]) = LeftIn(rg[n], ents[n])
          /\ \A e \in ents2[n] : ServedIn(rg2[n], ents2[n], e) = ServedIn(rg[n], ents[n], e)
      <4>1. /\ rg[n] \in SUBSET Int /\ \A e \in ents[n] : e.key \in Int
            /\ ents2[n] = {e \in ents[n] : e.key < m.key}
            /\ rg2[n] = {k \in rg[n] : k < m.key}
        BY <1>1, <1>4, <1>5, <3>2
      <4>  QED
        BY <4>1, DivideLow
    <3>4. left[n] \in D \ {n} /\ \A e \in ents2[n] : e \in ents[n] /\ e.data \in D \ {n}
      BY <3>1, <1>5, <1>8, <1>9
         DEF Divides
    <3>5. /\ rg2[left[n]] = rg[left[n]] /\ lv2[left[n]] = lv[left[n]]
          /\ \A e \in ents2[n] : rg2[e.data] = rg[e.data] /\ lv2[e.data] = lv[e.data]
      BY <3>4, <1>4
    <3>6. Divides(D \cup {r}, left2, ents2, rg2, lv2, n)
      BY <3>1, <3>3, <3>4, <3>5 DEF Divides
    <3>  QED
      BY <2>2, <3>6
  <2>3. CASE i = r
    <3>1. ~leaf[n] /\ Divides(D, left, ents, rg, lv, n)
      BY <2>3, <1>1, <1>4, <1>15
    <3>2. PICK m \in ents[n] : m.key = mid /\ left2[r] = m.data
      BY <3>1, <1>6
    <3>3. /\ LeftIn(rg2[r], ents2[r]) = ServedIn(rg[n], ents[n], m)
          /\ \A e \in ents2[r] : ServedIn(rg2[r], ents2[r], e) = ServedIn(rg[n], ents[n], e)
      <4>1. /\ rg[n] \in SUBSET Int /\ \A e \in ents[n] : e.key \in Int
            /\ ents2[r] = {e \in ents[n] : e.key > m.key}
            /\ rg2[r] = {k \in rg[n] : k >= m.key}
        BY <1>1, <1>4, <1>6, <3>1, <3>2
      <4>2. ServesHigh(rg[n], ents[n], m, rg2[r], ents2[r])
        BY <4>1, DivideHigh
      <4>  QED
        BY <4>2 DEF ServesHigh
    <3>4. m.data \in D \ {n} /\ \A e \in ents2[r] : e \in ents[n] /\ e.data \in D \ {n}
      BY <3>1, <1>6, <1>8, <1>9 DEF Divides
    <3>5. /\ rg2[m.data] = rg[m.data] /\ lv2[m.data] = lv[m.data]
          /\ \A e \in ents2[r] : rg2[e.data] = rg[e.data] /\ lv2[e.data] = lv[e.data]
      BY <3>4, <1>4
    <3>6. Divides(D \cup {r}, left2, ents2, rg2, lv2, r)
      BY <3>1, <3>2, <3>3, <3>4, <3>5, <1>4 DEF Divides
    <3>  QED
      BY <2>3, <3>6
  <2>4. CASE i = p
    <3>1. rg2[p] = rg[p] /\ ents2[p] = ents[p] \cup {x} /\ left2[p] = left[p]
          /\ lv2[p] = lv[p]
      BY <1>4, <1>5, <1>8
    <3>2. /\ rg[p] \in SUBSET Int /\ \A e \in ents[p] : e.key \in Int
          /\ \A e, f \in ents[p] : e.key = f.key => e = f
      BY <1>1
    <3>3. CASE n = left[p]
      <4>1. rg[n] = LeftIn(rg[p], ents[p])
        BY <3>3, <1>7 DEF Divides
      <4>2. /\ LeftIn(rg[p], ents2[p]) = rg2[n] /\ ServedIn(rg[p], ents2[p], x) = rg2[r]
            /\ \A e \in ents[p] : ServedIn(rg[p], ents2[p], e) = ServedIn(rg[p], ents[p], e)
        <5>1. x.key \in LeftIn(rg[p], ents[p])
          BY <4>1, <1>3
        <5>2. /\ LeftIn(rg[p], ents[p] \cup {x}) = {k \in LeftIn(rg[p], ents[p]) : k < x.key}
              /\ ServedIn(rg[p], ents[p] \cup {x}, x)
                   = {k \in LeftIn(rg[p], ents[p]) : k >= x.key}
              /\ \A e \in ents[p] :
                   ServedIn(rg[p], ents[p] \cup {x}, e) = ServedIn(rg[p], ents[p], e)
          BY <5>1, <3>2, AddAtLeft
        <5>  QED
          BY <5>2, <4>1, <3>1, <1>3, <1>4
      <4>3. \A e \in ents[p] : e.data \in D \ {n}
        BY <3>3, <1>7, ChildrenDiffer DEF Divides
      <4>4. \A e \in ents[p] : rg2[e.data] = rg[e.data] /\ lv2[e.data] = lv[e.data]
        BY <4>3, <1>4
      <4>5. ASSUME NEW e \in ents2[p]
            PROVE  /\ e.data \in D \cup {r} /\ lv2[e.data] = lv2[p] - 1
                   /\ rg2[e.data] = ServedIn(rg2[p], ents2[p], e)
        <5>1. CASE e = x
          BY <5>1, <1>3, <1>4, <1>7, <3>1, <3>3, <4>2 DEF Divides
        <5>2. CASE e \in ents[p]
          BY <5>2, <1>7, <3>1, <4>2, <4>3, <4>4 DEF Divides
        <5>  QED
          BY <3>1, <5>1, <5>2
      <4>6. Divides(D \cup {r}, left2, ents2, rg2, lv2, p)
        BY <3>1, <3>3, <4>2, <4>5, <1>4, <1>7 DEF Divides
      <4>  QED
        BY <2>4, <4>6
    <3>4. CASE \E e \in ents[p] : e.data = n
      <4>1. PICK d \in ents[p] : d.data = n
        BY <3>4
      <4>2. rg[n] = ServedIn(rg[p], ents[p], d)
        BY <4>1, <1>7 DEF Divides
      <4>3. d.key < x.key
        <5>1. d.key <= low
          BY <4>2 DEF ServedIn
        <5>  QED
          BY <5>1, <1>0, <1>1, <1>2, <1>3
      <4>4. /\ LeftIn(rg[p], ents2[p]) = LeftIn(rg[p], ents[p])
            /\ ServedIn(rg[p], ents2[p], d) = rg2[n]
            /\ ServedIn(rg[p], ents2[p], x) = rg2[r]
            /\ \A e \in ents[p] \ {d} :
                 ServedIn(rg[p], ents2[p], e) = ServedIn(rg[p], ents[p], e)
        <5>1. x.key \in ServedIn(rg[p], ents[p], d)
          BY <4>2, <1>3
        <5>2. ServesNewKey(rg[p], ents[p], d, x)
          BY <5>1, <4>3, <3>2, AddAtEntry
        <5>  QED
          BY <5>2, <4>2, <3>1, <1>3, <1>4 DEF ServesNewKey
      <4>5. left[p] \in D \ {n} /\ \A e \in ents[p] \ {d} : e.data \in D \ {n}
        BY <4>1, <1>7, ChildrenDiffer DEF Divides
      <4>6. /\ rg2[left[p]] = rg[left[p]] /\ lv2[left[p]] = lv[left[p]]
            /\ \A e \in ents[p] \ {d} : rg2[e.data] = rg[e.data] /\ lv2[e.data] = lv[e.data]
        BY <4>5, <1>4
      <4>7. ASSUME NEW e \in ents2[p]
            PROVE  /\ e.data \in D \cup {r} /\ lv2[e.data] = lv2[p] - 1
                   /\ rg2[e.data] = ServedIn(rg2[p], ents2[p], e)
        <5>1. CASE e = x
          BY <5>1, <1>3, <1>4, <1>7, <1>8, <3>1, <4>1, <4>4 DEF Divides
        <5>2. CASE e = d
          BY <5>2, <1>4, <1>7, <3>1, <4>1, <4>4 DEF Divides
        <5>3. CASE e \in ents[p] \ {d}
          BY <5>3, <1>7, <3>1, <4>4, <4>5, <4>6 DEF Divides
        <5>  QED
          BY <3>1, <5>1, <5>2, <5>3
      <4>8. Divides(D \cup {r}, left2, ents2, rg2, lv2, p)
        BY <3>1, <4>4, <4>5, <4>6, <4>7, <1>7 DEF Divides
      <4>  QED
        BY <2>4, <4>8
    <3>  QED
      BY <3>3, <3>4
  <2>  QED
    BY <2>1, <2>2, <2>3, <2>4
<1>16. ASSUME NEW i \in D \cup {r}, NEW j \in D \cup {r}, i # j, lv2[i] = lv2[j]
       PROVE  Apart(rg2[i], rg2[j])
  <2>  DEFINE Old(a) == IF a = r THEN n ELSE a
  <2>1. \A a \in D \cup {r} : Old(a) \in D /\ rg2[a] \subseteq rg[Old(a)] /\ lv2[a] = lv[Old(a)]
    BY <1>4, <1>10
  <2>2. CASE Old(i) # Old(j)
    <3>1. Apart(rg[Old(i)], rg[Old(j)])
      BY <2>1, <2>2, <1>16 DEF Shape
    <3>  QED
      BY <2>1, <3>1 DEF Apart
  <2>3. CASE Old(i) = Old(j)
    <3>1. (i = n /\ j = r) \/ (i = r /\ j = n)
      BY <2>3, <1>16
    <3>2. \A k \in rg2[n], m \in rg2[r] : k < m
      BY <1>1, <1>2, <1>4
    <3>  QED
      BY <3>1, <3>2 DEF Apart
  <2>  QED
    BY <2>2, <2>3
<1>17. Shape(D \cup {r}, leaf2, left2, ents2, rg2, lv2)
  BY <1>13, <1>14, <1>15, <1>16 DEF Shape
<1>  QED
  BY <1>8, <1>11, <1>17 DEF SplitKeepsShape
-----------------------------------------------------------------------------
(***************************************************************************)
(* The inductive invariant, of a tree T, a stack s of put_to_internal_node *)
(* activations, the ranges R and the levels L of the nodes                 *)
(***************************************************************************)
Nodes ==
  [leaf : BOOLEAN, arr : Arrays(Vals \cup Nat), left : Nat, parent : Nat, prev : Nat,
   next : Nat]

FrameSet == [node : Nat, key : Int, child : Nat, right : Nat, mid : Int]

TreeTypes(T, R, L) ==
  /\ T = [node |-> T.node, count |-> T.count, root |-> T.root, sane |-> T.sane]
  /\ T.node \in Seq(Nodes) /\ R \in Seq(SUBSET Keys) /\ L \in Seq(Nat)
  /\ Len(R) = Len(T.node) /\ Len(L) = Len(T.node)
  /\ T.sane = TRUE

\* The arrays of the nodes.
ArraysOK(T) ==
  \A i \in DOMAIN T.node :
    /\ Ascending(T.node[i].arr) /\ Len(T.node[i].arr) <= MaxKeys
    /\ T.node[i].leaf => ToSet(T.node[i].arr) \subseteq [key : Keys, data : Vals]

PendingOf(s, i) == {Entry(f.key, f.child) : f \in {g \in ToSet(s) : Half(g) = i}}

LeafOf(T) == [i \in DOMAIN T.node |-> T.node[i].leaf]
LeftOf(T) == [i \in DOMAIN T.node |-> T.node[i].left]
EntriesOf(T, s) == [i \in DOMAIN T.node |-> ToSet(T.node[i].arr) \cup PendingOf(s, i)]

\* The nodes are a search tree, pending children included.
ShapeOK(T, s, R, L) ==
  Shape(DOMAIN T.node, LeafOf(T), LeftOf(T), EntriesOf(T, s), R, L)

RootOK(T, R, L) ==
  /\ T.root \in DOMAIN T.node /\ R[T.root] = Keys
  /\ L[T.root] >= 1 /\ \A i \in DOMAIN T.node : L[i] <= L[T.root]

\* Node i is a child of node p, and not a pending one.
HangsIn(T, p, i) ==
  T.node[p].left = i \/ \E e \in ToSet(T.node[p].arr) : e.data = i

\* A node other than the root has for its parent the node it hangs in, or is pending.
LinksOK(T, s) ==
  /\ \A p \in DOMAIN T.node, i \in DOMAIN T.node :
       ~T.node[p].leaf /\ HangsIn(T, p, i) => T.node[i].parent = p
  /\ \A i \in DOMAIN T.node : T.node[i].parent # 0 =>
       LET p == T.node[i].parent IN
         p \in DOMAIN T.node /\ ~T.node[p].leaf /\ HangsIn(T, p, i)
  /\ \A i \in DOMAIN T.node :
       T.node[i].parent = 0 <=> i = T.root \/ \E f \in ToSet(s) : f.child = i

\* The chain of leaves, as ChainComplete says it.
BeforeIn(R, i, j) == \A k \in R[i], m \in R[j] : k < m

ChainOK(T, R) ==
  \A i \in Leaves(T) :
    /\ IF T.node[i].next = 0 THEN \A j \in Leaves(T) \ {i} : BeforeIn(R, j, i)
       ELSE /\ T.node[i].next \in Leaves(T) /\ T.node[T.node[i].next].prev = i
            /\ BeforeIn(R, i, T.node[i].next)
            /\ \A j \in Leaves(T) \ {i, T.node[i].next} :
                 BeforeIn(R, j, i) \/ BeforeIn(R, T.node[i].next, j)
    /\ IF T.node[i].prev = 0 THEN \A j \in Leaves(T) \ {i} : BeforeIn(R, i, j)
       ELSE T.node[i].prev \in Leaves(T) /\ T.node[T.node[i].prev].next = i

\* The activation at depth j is for a node of level j whose child was split off one
\* level below.  All but the last have split their node, at a key other than their
\* own, and there is room in the half it goes to.
FramesOK(T, s, L) ==
  /\ s \in Seq(FrameSet)
  /\ \A j \in 1 .. Len(s) :
       /\ s[j].node \in DOMAIN T.node /\ L[s[j].node] = j
       /\ s[j].child \in DOMAIN T.node /\ L[s[j].child] = j - 1
       /\ j # Len(s) => s[j].right # 0
       /\ s[j].right # 0 =>
            /\ s[j].right \in DOMAIN T.node /\ L[s[j].right] = j
            /\ s[j].key # s[j].mid /\ Len(T.node[Half(s[j])].arr) < MaxKeys

TreeOK(T, s, R, L) ==
  /\ TreeTypes(T, R, L) /\ ArraysOK(T) /\ ShapeOK(T, s, R, L) /\ RootOK(T, R, L)
  /\ LinksOK(T, s) /\ ChainOK(T, R) /\ FramesOK(T, s, L)

IsCall(c) ==
  c = [op |-> c.op, key |-> c.key, val |-> c.val, pc |-> c.pc, at |-> c.at,
       stack |-> c.stack, leaf |-> c.leaf, owed |-> c.owed, fence |-> c.fence,
       add |-> c.add]

\* The call: what it is about to do, and the node it has come to.
CallOK(T, c, R) ==
  /\ IsCall(c)
  /\ c.pc \in {"idle", "find", "climb", "adopt", "count"}
  /\ c.pc = "idle" => c = NoCall
  /\ c.pc \in {"idle", "find"} => c.stack = <<>>
  /\ c.pc = "find" =>
       /\ c.at \in DOMAIN T.node /\ c.key \in R[c.at]
       /\ c.op \in {"put", "del", "get"} /\ (c.op = "put" => c.val \in Vals)
  /\ c.pc = "climb" => c.stack # <<>> /\ Top(c).right = 0
  /\ c.pc = "adopt" => c.stack # <<>>
  /\ c.pc \in {"adopt", "count"} => \A j \in 1 .. Len(c.stack) : c.stack[j].right # 0

\* The table that the application asked for: while a put or del looks for its leaf,
\* the tree is one key behind.
WantOK(T, c, w) ==
  w = IF c.pc = "find" /\ c.op = "put" THEN [Contents(T) EXCEPT ![c.key] = c.val]
      ELSE IF c.pc = "find" /\ c.op = "del" THEN [Contents(T) EXCEPT ![c.key] = Absent]
      ELSE Contents(T)

TreeInv ==
  /\ \/ tree = NoTree /\ call = NoCall /\ range = <<>> /\ level = <<>>
     \/ TreeOK(tree, call.stack, range, level)
  /\ CallOK(tree, call, range)
  /\ WantOK(tree, call, want)
  /\ answer # NoAnswer => answer.val = want[answer.key]

-----------------------------------------------------------------------------
(***************************************************************************)
(* The arrays of split nodes                                               *)
(***************************************************************************)
\* The two halves of a full array, key by key.
LEMMA HalfFacts ==
  ASSUME NEW D, NEW arr \in Arrays(D), is_full(arr)
  PROVE  /\ Len(arr) \in Nat /\ SplitAt(arr) \in 2 .. Len(arr) - 1
         /\ LeftHalf(arr) \in Arrays(D) /\ Len(LeftHalf(arr)) = SplitAt(arr)
         /\ DOMAIN LeftHalf(arr) = 1 .. SplitAt(arr)
         /\ \A i \in 1 .. SplitAt(arr) : LeftHalf(arr)[i] = arr[i]
         /\ RightHalf(arr) \in Arrays(D) /\ Len(RightHalf(arr)) = Len(arr) - SplitAt(arr)
         /\ DOMAIN RightHalf(arr) = 1 .. Len(arr) - SplitAt(arr)
         /\ \A i \in 1 .. Len(arr) - SplitAt(arr) : RightHalf(arr)[i] = arr[i + SplitAt(arr)]
<1>1. Len(arr) \in Nat
  BY ArrayFacts
<1>2. PICK R : R = [key : Int, data : D]
  OBVIOUS
<1>3. arr \in Seq(R) /\ Arrays(D) = Seq(R)
  BY <1>2 DEF Arrays
<1>4. PICK n \in Nat : n = Len(arr)
  BY <1>1
<1>5. n >= 3
  BY <1>4, SortedArrayAssumption DEF is_full
<1>6. PICK m : m = SplitAt(arr)
  OBVIOUS
<1>7. m = n - n \div 2
  BY <1>4, <1>6 DEF SplitAt
<1>8. m \in 2 .. n - 1
  BY <1>5, <1>7
<1>9. PICK L : L = SubSeq(arr, 1, m)
  OBVIOUS
<1>10. PICK U : U = SubSeq(arr, m + 1, n)
  OBVIOUS
<1>11. LeftHalf(arr) = L /\ RightHalf(arr) = U
  BY <1>4, <1>6, <1>9, <1>10 DEF LeftHalf, RightHalf
<1>12. L \in Seq(R) /\ Len(L) = m /\ DOMAIN L = 1 .. m /\ \A i \in 1 .. m : L[i] = arr[i]
  BY <1>3, <1>4, <1>8, <1>9
<1>13. /\ U \in Seq(R) /\ Len(U) = n - m /\ DOMAIN U = 1 .. n - m
       /\ \A i \in 1 .. n - m : U[i] = arr[i + m]
  BY <1>3, <1>4, <1>8, <1>10
<1>  QED
  BY <1>3, <1>4, <1>6, <1>8, <1>11, <1>12, <1>13

\* leaf_node_t::split divides the keys of a leaf at the first key of the upper half.
LeafHalvesRight(arr, mid) ==
  /\ mid \in Int /\ Ascending(LeftHalf(arr)) /\ Ascending(RightHalf(arr))
  /\ Len(LeftHalf(arr)) < Len(arr) /\ Len(RightHalf(arr)) < Len(arr)
  /\ ToSet(LeftHalf(arr)) = {e \in ToSet(arr) : e.key < mid}
  /\ ToSet(RightHalf(arr)) = {e \in ToSet(arr) : e.key >= mid}
  /\ \E e \in ToSet(arr) : e.key = mid
  /\ \E e \in ToSet(arr) : e.key < mid

\* The halves of a full leaf's array are as LeafHalvesRight says.
LEMMA HalvesOfLeaf ==
  ASSUME NEW D, NEW arr \in Arrays(D), Ascending(arr), is_full(arr)
  PROVE  LeafHalvesRight(arr, RightHalf(arr)[1].key)
<1>1. PICK a, n, L, U : /\ a = SplitAt(arr) /\ n = Len(arr)
                        /\ L = LeftHalf(arr) /\ U = RightHalf(arr)
  OBVIOUS
<1>2. /\ n \in Nat /\ a \in 2 .. n - 1
      /\ Len(L) = a /\ DOMAIN L = 1 .. a /\ \A i \in 1 .. a : L[i] = arr[i]
      /\ Len(U) = n - a /\ DOMAIN U = 1 .. n - a /\ \A i \in 1 .. n - a : U[i] = arr[i + a]
  BY <1>1, HalfFacts
<1>3. DOMAIN arr = 1 .. n /\ \A i \in 1 .. n : arr[i].key \in Int
  BY <1>1, ArrayFacts
<1>4. \A i, j \in 1 .. n : i < j => arr[i].key < arr[j].key
  BY <1>3 DEF Ascending
<1>5. PICK mid : mid = U[1].key
  OBVIOUS
<1>6. a + 1 \in 1 .. n /\ 1 \in 1 .. n - a /\ 1 \in 1 .. n /\ 1 < a + 1 /\ 1 + a = a + 1
  BY <1>2
<1>7. mid = arr[a + 1].key /\ mid \in Int /\ arr[1].key < mid
  BY <1>2, <1>3, <1>4, <1>5, <1>6
<1>8. ASSUME NEW i \in 1 .. n
      PROVE  /\ i <= a => arr[i].key < mid
             /\ i > a => arr[i].key >= mid
  <2>1. CASE i <= a
    BY <2>1, <1>2, <1>4, <1>6, <1>7
  <2>2. CASE i = a + 1
    BY <2>2, <1>2, <1>7
  <2>3. CASE i > a + 1
    <3>1. mid < arr[i].key
      BY <2>3, <1>2, <1>4, <1>6, <1>7
    <3>  QED
      BY <3>1, <2>3, <1>2, <1>3, <1>7
  <2>  QED
    BY <2>1, <2>2, <2>3, <1>2
<1>9. ToSet(L) = {e \in ToSet(arr) : e.key < mid}
  <2>1. ASSUME NEW e \in ToSet(L) PROVE e \in ToSet(arr) /\ e.key < mid
    <3>1. PICK i \in 1 .. a : e = arr[i]
      BY <1>2 DEF ToSet
    <3>  QED
      BY <3>1, <1>2, <1>3, <1>8 DEF ToSet
  <2>2. ASSUME NEW e \in ToSet(arr), e.key < mid PROVE e \in ToSet(L)
    <3>1. PICK i \in 1 .. n : e = arr[i]
      BY <1>3 DEF ToSet
    <3>2. i \in 1 .. a
      BY <2>2, <3>1, <1>2, <1>3, <1>7, <1>8
    <3>  QED
      BY <3>1, <3>2, <1>2 DEF ToSet
  <2>  QED
    BY <2>1, <2>2
<1>10. ToSet(U) = {e \in ToSet(arr) : e.key >= mid}
  <2>1. ASSUME NEW e \in ToSet(U) PROVE e \in ToSet(arr) /\ e.key >= mid
    <3>1. PICK i \in 1 .. n - a : e = arr[i + a]
      BY <1>2 DEF ToSet
    <3>2. i + a \in 1 .. n /\ i + a > a
      BY <1>2
    <3>  QED
      BY <3>1, <3>2, <1>3, <1>8 DEF ToSet
  <2>2. ASSUME NEW e \in ToSet(arr), e.key >= mid PROVE e \in ToSet(U)
    <3>1. PICK i \in 1 .. n : e = arr[i]
      BY <1>3 DEF ToSet
    <3>2. i - a \in 1 .. n - a /\ (i - a) + a = i
      BY <2>2, <3>1, <1>2, <1>3, <1>7, <1>8
    <3>3. U[i - a] = arr[i]
      BY <3>2, <1>2
    <3>  QED
      BY <3>1, <3>2, <3>3, <1>2 DEF ToSet
  <2>  QED
    BY <2>1, <2>2
<1>11. Ascending(L) /\ Ascending(U)
  BY <1>1, SplitRight
<1>12. arr[a + 1] \in ToSet(arr) /\ arr[1] \in ToSet(arr)
  BY <1>3, <1>6 DEF ToSet
<1>13. Len(L) < n /\ Len(U) < n
  BY <1>2
<1>  QED
  BY <1>1, <1>5, <1>7, <1>9, <1>10, <1>11, <1>12, <1>13 DEF LeafHalvesRight

\* internal_node_t::split divides the keys of a node at the one that goes up.
InternalHalvesRight(arr, mid) ==
  /\ mid \in Int
  /\ Ascending(Front(LeftHalf(arr))) /\ Ascending(RightHalf(arr))
  /\ Len(Front(LeftHalf(arr))) < Len(arr) /\ Len(RightHalf(arr)) < Len(arr)
  /\ ToSet(Front(LeftHalf(arr))) = {e \in ToSet(arr) : e.key < mid}
  /\ ToSet(RightHalf(arr)) = {e \in ToSet(arr) : e.key > mid}
  /\ Last(LeftHalf(arr)) \in ToSet(arr) /\ Last(LeftHalf(arr)).key = mid
  /\ \E e \in ToSet(arr) : e.key < mid
  /\ Len(LeftHalf(arr)) > 1

\* The halves of a full internal node's array are as InternalHalvesRight says.
LEMMA HalvesOfInternal ==
  ASSUME NEW D, NEW arr \in Arrays(D), Ascending(arr), is_full(arr)
  PROVE  /\ InternalHalvesRight(arr, MidKey(arr)) /\ Front(LeftHalf(arr)) \in Arrays(D)
<1>1. PICK a, n, L, U, F : /\ a = SplitAt(arr) /\ n = Len(arr) /\ L = LeftHalf(arr)
                           /\ U = RightHalf(arr) /\ F = Front(L)
  OBVIOUS
<1>2. /\ n \in Nat /\ a \in 2 .. n - 1
      /\ L \in Arrays(D) /\ Len(L) = a /\ DOMAIN L = 1 .. a /\ \A i \in 1 .. a : L[i] = arr[i]
      /\ Len(U) = n - a /\ DOMAIN U = 1 .. n - a /\ \A i \in 1 .. n - a : U[i] = arr[i + a]
  BY <1>1, HalfFacts
<1>3. DOMAIN arr = 1 .. n /\ \A i \in 1 .. n : arr[i].key \in Int
  BY <1>1, ArrayFacts
<1>4. \A i, j \in 1 .. n : i < j => arr[i].key < arr[j].key
  BY <1>3 DEF Ascending
<1>5. /\ F \in Arrays(D) /\ Len(F) = a - 1 /\ DOMAIN F = 1 .. a - 1
      /\ \A i \in 1 .. a - 1 : F[i] = arr[i]
  <2>1. PICK R : R = [key : Int, data : D]
    OBVIOUS
  <2>2. L \in Seq(R) /\ Arrays(D) = Seq(R)
    BY <1>2, <2>1 DEF Arrays
  <2>3. F = SubSeq(L, 1, a - 1)
    BY <1>1, <1>2 DEF Front
  <2>4. F \in Seq(R) /\ Len(F) = a - 1 /\ DOMAIN F = 1 .. a - 1 /\ \A i \in 1 .. a - 1 : F[i] = L[i]
    BY <1>2, <2>2, <2>3
  <2>5. \A i \in 1 .. a - 1 : i \in 1 .. a
    BY <1>2
  <2>  QED
    BY <1>2, <2>2, <2>4, <2>5
<1>6. PICK mid : mid = MidKey(arr)
  OBVIOUS
<1>7. a \in 1 .. n /\ a \in 1 .. a /\ 1 \in 1 .. n /\ 1 < a
  BY <1>2
<1>8. Last(L) = arr[a] /\ mid = arr[a].key /\ mid \in Int /\ arr[1].key < mid
  BY <1>1, <1>2, <1>3, <1>4, <1>6, <1>7 DEF MidKey, Last
<1>9. ASSUME NEW i \in 1 .. n
      PROVE  (i < a => arr[i].key < mid) /\ (i > a => arr[i].key > mid)
  <2>1. i < a => arr[i].key < mid
    BY <1>4, <1>7, <1>8
  <2>2. i > a => mid < arr[i].key
    BY <1>2, <1>4, <1>7, <1>8
  <2>  QED
    BY <2>1, <2>2, <1>3, <1>8
<1>10. ToSet(F) = {e \in ToSet(arr) : e.key < mid}
  <2>1. ASSUME NEW e \in ToSet(F) PROVE e \in ToSet(arr) /\ e.key < mid
    <3>1. PICK i \in 1 .. a - 1 : e = arr[i]
      BY <1>5 DEF ToSet
    <3>2. i \in 1 .. n /\ i < a
      BY <1>2
    <3>  QED
      BY <3>1, <3>2, <1>3, <1>9 DEF ToSet
  <2>2. ASSUME NEW e \in ToSet(arr), e.key < mid PROVE e \in ToSet(F)
    <3>1. PICK i \in 1 .. n : e = arr[i]
      BY <1>3 DEF ToSet
    <3>2. i \in 1 .. a - 1
      BY <2>2, <3>1, <1>2, <1>3, <1>8, <1>9
    <3>  QED
      BY <3>1, <3>2, <1>5 DEF ToSet
  <2>  QED
    BY <2>1, <2>2
<1>11. ToSet(U) = {e \in ToSet(arr) : e.key > mid}
  <2>1. ASSUME NEW e \in ToSet(U) PROVE e \in ToSet(arr) /\ e.key > mid
    <3>1. PICK i \in 1 .. n - a : e = arr[i + a]
      BY <1>2 DEF ToSet
    <3>2. i + a \in 1 .. n /\ i + a > a
      BY <1>2
    <3>  QED
      BY <3>1, <3>2, <1>3, <1>9 DEF ToSet
  <2>2. ASSUME NEW e \in ToSet(arr), e.key > mid PROVE e \in ToSet(U)
    <3>1. PICK i \in 1 .. n : e = arr[i]
      BY <1>3 DEF ToSet
    <3>2. i - a \in 1 .. n - a /\ (i - a) + a = i
      BY <2>2, <3>1, <1>2, <1>3, <1>8, <1>9
    <3>3. U[i - a] = arr[i]
      BY <3>2, <1>2
    <3>  QED
      BY <3>1, <3>2, <3>3, <1>2 DEF ToSet
  <2>  QED
    BY <2>1, <2>2
<1>12. Ascending(F) /\ Ascending(U)
  <2>1. \A i \in 1 .. a - 1 : i \in 1 .. n
    BY <1>2
  <2>2. Ascending(F)
    BY <1>4, <1>5, <2>1 DEF Ascending
  <2>  QED
    BY <1>1, <2>2, SplitRight
<1>13. arr[a] \in ToSet(arr) /\ arr[1] \in ToSet(arr)
  BY <1>3, <1>7 DEF ToSet
<1>14. Len(F) < n /\ Len(U) < n /\ Len(L) > 1
  BY <1>2, <1>5
<1>15. InternalHalvesRight(arr, mid)
  BY <1>1, <1>8, <1>10, <1>11, <1>12, <1>13, <1>14 DEF InternalHalvesRight
<1>  QED
  BY <1>1, <1>5, <1>6, <1>15

\* find_serving_node_by_key takes the child of the greatest key that is at most k, or
\* the left child.
LEMMA ServingRight ==
  ASSUME NEW D, NEW n, n.arr \in Arrays(D), Ascending(n.arr), NEW k \in Int
  PROVE  \/ (\A e \in ToSet(n.arr) : k < e.key) /\ ServingChild(n, k) = n.left
         \/ \E e \in ToSet(n.arr) :
              /\ e.key <= k /\ \A f \in ToSet(n.arr) : f.key <= k => f.key <= e.key
              /\ ServingChild(n, k) = e.data
<1>1. PICK arr, p : arr = n.arr /\ p = search_forward(arr, k)
  OBVIOUS
<1>2. /\ Len(arr) \in Nat /\ DOMAIN arr = 1 .. Len(arr)
      /\ \A i \in 1 .. Len(arr) : arr[i].key \in Int
  BY <1>1, ArrayFacts
<1>3. /\ p \in 0 .. Len(arr) /\ \A i \in 1 .. p : arr[i].key <= k
      /\ \A i \in p + 1 .. Len(arr) : arr[i].key > k
  BY <1>1, SearchForwardSplits
<1>4. CASE p = 0
  <2>1. ASSUME NEW i \in 1 .. Len(arr) PROVE k < arr[i].key
    BY <1>2, <1>3, <1>4
  <2>2. \A e \in ToSet(arr) : k < e.key
    BY <2>1, <1>2 DEF ToSet
  <2>  QED
    BY <2>2, <1>1, <1>4 DEF ServingChild
<1>5. CASE p # 0
  <2>1. p \in 1 .. Len(arr) /\ p \in 1 .. p
    BY <1>2, <1>3, <1>5
  <2>2. arr[p] \in ToSet(arr) /\ arr[p].key <= k
    BY <2>1, <1>2, <1>3 DEF ToSet
  <2>3. ASSUME NEW i \in 1 .. Len(arr), arr[i].key <= k PROVE arr[i].key <= arr[p].key
    <3>1. i <= p
      BY <2>3, <1>2, <1>3
    <3>2. i < p => arr[i].key < arr[p].key
      BY <2>1, <1>1, <1>2 DEF Ascending
    <3>  QED
      BY <3>1, <3>2, <2>1, <1>2, <1>3
  <2>4. \A f \in ToSet(arr) : f.key <= k => f.key <= arr[p].key
    BY <2>3, <1>2 DEF ToSet
  <2>5. ServingChild(n, k) = arr[p].data
    BY <1>1, <1>5 DEF ServingChild
  <2>  QED
    BY <2>2, <2>4, <2>5, <1>1
<1>  QED
  BY <1>4, <1>5

\* get returns the data of the key, if it is there.
ValueIs(arr, k) ==
  /\ \A e \in ToSet(arr) : e.key = k => Value(arr, k) = e.data
  /\ (\A e \in ToSet(arr) : e.key # k) => Value(arr, k) = Absent

\* Value finds the data of a key that is there, and Absent otherwise.
LEMMA ValueRight ==
  ASSUME NEW D, NEW arr \in Arrays(D), Ascending(arr), NEW k \in Int
  PROVE  ValueIs(arr, k)
<1>1. PICK p : p = search_forward(arr, k)
  OBVIOUS
<1>2. /\ Len(arr) \in Nat /\ DOMAIN arr = 1 .. Len(arr)
      /\ \A i \in 1 .. Len(arr) : arr[i].key \in Int
  BY ArrayFacts
<1>3. /\ \A i, j \in 1 .. Len(arr) : i < j => arr[i].key < arr[j].key
  BY <1>2 DEF Ascending
<1>4. Has(arr, k) <=> \E e \in ToSet(arr) : e.key = k
  BY HasIsThere
<1>5. ASSUME NEW e \in ToSet(arr), e.key = k PROVE Value(arr, k) = e.data
  <2>1. Has(arr, k)
    BY <1>4, <1>5
  <2>2. p \in 1 .. Len(arr) /\ arr[p].key = k
    BY <2>1, <1>1, <1>2 DEF Has, FoundAt
  <2>3. PICK i \in 1 .. Len(arr) : e = arr[i]
    BY <1>2 DEF ToSet
  <2>4. i = p
    <3>1. ~(i < p) /\ ~(p < i)
      BY <2>2, <2>3, <1>2, <1>3, <1>5
    <3>  QED
      BY <3>1, <2>2
  <2>  QED
    BY <2>1, <2>3, <2>4, <1>1 DEF Value
<1>6. ASSUME \A e \in ToSet(arr) : e.key # k PROVE Value(arr, k) = Absent
  BY <1>4, <1>6 DEF Value
<1>  QED
  BY <1>5, <1>6 DEF ValueIs

-----------------------------------------------------------------------------
(***************************************************************************)
(* Other changes of the shape                                              *)
(***************************************************************************)
\* The entries of a leaf may change within its range.
LEMMA LeafShape ==
  ASSUME NEW D, NEW leaf, NEW left, NEW ents, NEW ents2, NEW rg, NEW lv,
         Shape(D, leaf, left, ents, rg, lv), NEW n \in D, leaf[n],
         \A i \in D \ {n} : ents2[i] = ents[i],
         \A e \in ents2[n] : e.key \in rg[n],
         \A e, f \in ents2[n] : e.key = f.key => e = f
  PROVE  Shape(D, leaf, left, ents2, rg, lv)
<1>1. ASSUME NEW i \in D
      PROVE  /\ lv[i] \in Nat /\ (leaf[i] <=> lv[i] = 0)
             /\ rg[i] \subseteq Keys /\ rg[i] # {}
             /\ \A e \in ents2[i] : e.key \in rg[i]
             /\ \A e, f \in ents2[i] : e.key = f.key => e = f
  <2>1. CASE i = n
    BY <2>1 DEF Shape
  <2>2. CASE i # n
    <3>1. ents2[i] = ents[i]
      BY <2>2
    <3>  QED
      BY <3>1 DEF Shape
  <2>  QED
    BY <2>1, <2>2
<1>2. ASSUME NEW i \in D, ~leaf[i] PROVE Divides(D, left, ents2, rg, lv, i)
  <2>1. ents2[i] = ents[i] /\ Divides(D, left, ents, rg, lv, i)
    BY <1>2 DEF Shape
  <2>  QED
    BY <2>1 DEF Divides
<1>3. \A i, j \in D : i # j /\ lv[i] = lv[j] => Apart(rg[i], rg[j])
  BY DEF Shape
<1>  QED
  BY <1>1, <1>2, <1>3 DEF Shape

\* A new root without keys over the old one.
RootKeepsShape(D, leaf, left, ents, rg, lv, leaf2, left2, ents2, rg2, lv2, root, t) ==
  Shape(D \cup {t}, leaf2, left2, ents2, rg2, lv2)

\* A new root over the two halves of the old one keeps the shape.
LEMMA RootShape ==
  ASSUME NEW D, NEW leaf, NEW left, NEW ents, NEW rg, NEW lv,
         NEW leaf2, NEW left2, NEW ents2, NEW rg2, NEW lv2,
         Shape(D, leaf, left, ents, rg, lv), NEW root \in D, rg[root] = Keys,
         \A i \in D : lv[i] <= lv[root], NEW t, t \notin D,
         \A i \in D : /\ leaf2[i] = leaf[i] /\ left2[i] = left[i] /\ lv2[i] = lv[i]
                      /\ rg2[i] = rg[i] /\ ents2[i] = ents[i],
         ~leaf2[t], left2[t] = root, ents2[t] = {}, rg2[t] = Keys, lv2[t] = lv[root] + 1
  PROVE  RootKeepsShape(D, leaf, left, ents, rg, lv, leaf2, left2, ents2, rg2, lv2, root, t)
<1>1. ASSUME NEW i \in D \cup {t}
      PROVE  /\ lv2[i] \in Nat /\ (leaf2[i] <=> lv2[i] = 0)
             /\ rg2[i] \subseteq Keys /\ rg2[i] # {}
             /\ \A e \in ents2[i] : e.key \in rg2[i]
             /\ \A e, f \in ents2[i] : e.key = f.key => e = f
  <2>1. CASE i \in D
    BY <2>1 DEF Shape
  <2>2. CASE i = t
    BY <2>2 DEF Shape
  <2>  QED
    BY <2>1, <2>2
<1>2. ASSUME NEW i \in D \cup {t}, ~leaf2[i]
      PROVE  Divides(D \cup {t}, left2, ents2, rg2, lv2, i)
  <2>1. CASE i \in D
    <3>1. /\ Divides(D, left, ents, rg, lv, i) /\ leaf2[i] = leaf[i] /\ left2[i] = left[i]
          /\ lv2[i] = lv[i] /\ rg2[i] = rg[i] /\ ents2[i] = ents[i]
      BY <2>1, <1>2 DEF Shape
    <3>2. left[i] \in D /\ \A e \in ents[i] : e.data \in D
      BY <3>1 DEF Divides
    <3>3. /\ rg2[left[i]] = rg[left[i]] /\ lv2[left[i]] = lv[left[i]]
          /\ \A e \in ents[i] : rg2[e.data] = rg[e.data] /\ lv2[e.data] = lv[e.data]
      BY <3>2
    <3>  QED
      BY <3>1, <3>2, <3>3 DEF Divides
  <2>2. CASE i = t
    <3>1. LeftIn(Keys, {}) = Keys
      BY DEF LeftIn
    <3>2. lv[root] = lv2[t] - 1
      BY DEF Shape
    <3>3. Divides(D \cup {t}, left2, ents2, rg2, lv2, t)
      BY <3>1, <3>2 DEF Divides
    <3>  QED
      BY <2>2, <3>3
  <2>  QED
    BY <2>1, <2>2
<1>3. ASSUME NEW i \in D \cup {t}, NEW j \in D \cup {t}, i # j, lv2[i] = lv2[j]
      PROVE  Apart(rg2[i], rg2[j])
  <2>1. \A a \in D : lv[a] \in Nat
    BY DEF Shape
  <2>2. \A a \in D : lv2[a] # lv2[t]
    BY <2>1
  <2>3. i \in D /\ j \in D
    BY <2>2, <1>3
  <2>  QED
    BY <2>3, <1>3 DEF Shape
<1>  QED
  BY <1>1, <1>2, <1>3 DEF Shape, RootKeepsShape

-----------------------------------------------------------------------------
(***************************************************************************)
(* The table that a set of entries stands for                              *)
(***************************************************************************)
Keyed(S) == \A e, f \in S : e.key = f.key => e = f

Table(S) ==
  [k \in Keys |-> IF \E e \in S : e.key = k THEN (CHOOSE e \in S : e.key = k).data
                                            ELSE Absent]

\* What the table of a set of entries holds at a key.
LEMMA TableIs ==
  ASSUME NEW S, Keyed(S), NEW k \in Keys
  PROVE  /\ \A e \in S : e.key = k => Table(S)[k] = e.data
         /\ (\A e \in S : e.key # k) => Table(S)[k] = Absent
<1>1. ASSUME NEW e \in S, e.key = k PROVE Table(S)[k] = e.data
  <2>1. PICK c : c = CHOOSE f \in S : f.key = k
    OBVIOUS
  <2>2. c \in S /\ c.key = k
    BY <1>1, <2>1
  <2>3. c = e
    BY <1>1, <2>2 DEF Keyed
  <2>  QED
    BY <1>1, <2>1, <2>3 DEF Table
<1>2. ASSUME \A e \in S : e.key # k PROVE Table(S)[k] = Absent
  BY <1>2 DEF Table
<1>  QED
  BY <1>1, <1>2

\* Putting an entry changes the table at its key.
LEMMA TablePut ==
  ASSUME NEW S, Keyed(S), NEW k \in Keys, NEW d, NEW S2,
         S2 = {e \in S : e.key # k} \cup {Entry(k, d)}
  PROVE  Keyed(S2) /\ Table(S2) = [Table(S) EXCEPT ![k] = d]
<1>1. PICK x : x = Entry(k, d)
  OBVIOUS
<1>2. x.key = k /\ x.data = d /\ S2 = {e \in S : e.key # k} \cup {x}
  BY <1>1 DEF Entry
<1>3. Keyed(S2)
  BY <1>2 DEF Keyed
<1>4. ASSUME NEW j \in Keys PROVE Table(S2)[j] = [Table(S) EXCEPT ![k] = d][j]
  <2>1. DOMAIN Table(S) = Keys
    BY DEF Table
  <2>2. CASE j = k
    BY <2>1, <2>2, <1>2, <1>3, TableIs
  <2>3. CASE j # k
    <3>1. [Table(S) EXCEPT ![k] = d][j] = Table(S)[j]
      BY <2>1, <2>3
    <3>2. CASE \E e \in S : e.key = j
      <4>1. PICK e \in S : e.key = j
        BY <3>2
      <4>2. e \in S2
        BY <4>1, <2>3, <1>2
      <4>3. Table(S)[j] = e.data
        BY <4>1, TableIs
      <4>4. Table(S2)[j] = e.data
        BY <4>1, <4>2, <1>3, TableIs
      <4>  QED
        BY <3>1, <4>3, <4>4
    <3>3. CASE \A e \in S : e.key # j
      <4>1. \A e \in S2 : e.key # j
        BY <3>3, <2>3, <1>2
      <4>2. Table(S)[j] = Absent
        BY <3>3, TableIs
      <4>3. Table(S2)[j] = Absent
        BY <4>1, <1>3, TableIs
      <4>  QED
        BY <3>1, <4>2, <4>3
    <3>  QED
      BY <3>2, <3>3
  <2>  QED
    BY <2>2, <2>3
<1>5. /\ Table(S2) = [j \in Keys |-> Table(S2)[j]]
      /\ [Table(S) EXCEPT ![k] = d] = [j \in Keys |-> [Table(S) EXCEPT ![k] = d][j]]
  BY DEF Table
<1>  QED
  BY <1>3, <1>4, <1>5

\* Removing the entries of a key makes it absent.
LEMMA TableDel ==
  ASSUME NEW S, Keyed(S), NEW k \in Keys, NEW S2, S2 = {e \in S : e.key # k}
  PROVE  Keyed(S2) /\ Table(S2) = [Table(S) EXCEPT ![k] = Absent]
<1>1. Keyed(S2)
  BY DEF Keyed
<1>2. ASSUME NEW j \in Keys PROVE Table(S2)[j] = [Table(S) EXCEPT ![k] = Absent][j]
  <2>1. DOMAIN Table(S) = Keys
    BY DEF Table
  <2>2. CASE j = k
    BY <2>1, <2>2, <1>1, TableIs
  <2>3. CASE j # k
    <3>1. [Table(S) EXCEPT ![k] = Absent][j] = Table(S)[j]
      BY <2>1, <2>3
    <3>2. CASE \E e \in S : e.key = j
      <4>1. PICK e \in S : e.key = j
        BY <3>2
      <4>2. e \in S2
        BY <4>1, <2>3
      <4>3. Table(S)[j] = e.data
        BY <4>1, TableIs
      <4>4. Table(S2)[j] = e.data
        BY <4>1, <4>2, <1>1, TableIs
      <4>  QED
        BY <3>1, <4>3, <4>4
    <3>3. CASE \A e \in S : e.key # j
      <4>1. \A e \in S2 : e.key # j
        BY <3>3
      <4>2. Table(S)[j] = Absent
        BY <3>3, TableIs
      <4>3. Table(S2)[j] = Absent
        BY <4>1, <1>1, TableIs
      <4>  QED
        BY <3>1, <4>2, <4>3
    <3>  QED
      BY <3>2, <3>3
  <2>  QED
    BY <2>2, <2>3
<1>3. /\ Table(S2) = [j \in Keys |-> Table(S2)[j]]
      /\ [Table(S) EXCEPT ![k] = Absent] = [j \in Keys |-> [Table(S) EXCEPT ![k] = Absent][j]]
  BY DEF Table
<1>  QED
  BY <1>1, <1>2, <1>3

\* A table maps keys to values.
LEMMA TableType ==
  ASSUME NEW S, Keyed(S), S \subseteq [key : Keys, data : Vals]
  PROVE  Table(S) \in [Keys -> Vals \cup {Absent}]
<1>1. ASSUME NEW k \in Keys PROVE Table(S)[k] \in Vals \cup {Absent}
  <2>1. CASE \E e \in S : e.key = k
    <3>1. PICK e \in S : e.key = k
      BY <2>1
    <3>2. Table(S)[k] = e.data
      BY <3>1, TableIs
    <3>  QED
      BY <3>2
  <2>2. CASE \A e \in S : e.key # k
    BY <2>2, TableIs
  <2>  QED
    BY <2>1, <2>2
<1>2. Table(S) = [k \in Keys |-> Table(S)[k]]
  BY DEF Table
<1>  QED
  BY <1>1, <1>2

\* What the tree holds is the table of the entries of its leaves.
LEMMA ContentsTable ==
  ASSUME NEW T PROVE Contents(T) = Table(LeafEntries(T))
BY DEF Contents, Table

\* A key is in the leaf that serves it, once, or nowhere.
LEMMA KeyInItsLeaf ==
  ASSUME NEW T, NEW s, NEW R, NEW L, TreeOK(T, s, R, L)
  PROVE  /\ Keyed(LeafEntries(T)) /\ LeafEntries(T) \subseteq [key : Keys, data : Vals]
         /\ \A i \in Leaves(T), e \in LeafEntries(T) :
              e.key \in R[i] => e \in ToSet(T.node[i].arr)
         /\ \A i, j \in Leaves(T) : \A e \in ToSet(T.node[j].arr) : e.key \in R[i] => i = j
<1>  DEFINE D == DOMAIN T.node
            E == EntriesOf(T, s)
<1>1. /\ Shape(D, LeafOf(T), LeftOf(T), E, R, L) /\ ArraysOK(T)
      /\ \A i \in D : LeafOf(T)[i] = T.node[i].leaf /\ ToSet(T.node[i].arr) \subseteq E[i]
      /\ Keys \subseteq Int
  BY TreeAssumption DEF TreeOK, ShapeOK, LeafOf, EntriesOf
<1>  HIDE DEF D, E
<1>2. Leaves(T) = {i \in D : T.node[i].leaf}
  BY DEF Leaves, Addresses, D
<1>3. ASSUME NEW i \in Leaves(T), NEW e \in ToSet(T.node[i].arr)
      PROVE  e.key \in R[i] /\ e \in [key : Keys, data : Vals]
  BY <1>1, <1>2, <1>3 DEF Shape, ArraysOK, D
<1>4. ASSUME NEW i \in Leaves(T), NEW j \in Leaves(T), NEW k \in R[i], k \in R[j] PROVE i = j
  <2>  SUFFICES ASSUME i # j PROVE FALSE
    OBVIOUS
  <2>1. L[i] = 0 /\ L[j] = 0 /\ R[i] \subseteq Keys
    BY <1>1, <1>2 DEF Shape
  <2>2. Apart(R[i], R[j])
    BY <2>1, <1>1, <1>2 DEF Shape
  <2>3. k < k
    BY <2>2, <1>4 DEF Apart
  <2>4. k \in Int
    BY <2>1, TreeAssumption
  <2>  QED
    BY <2>3, <2>4
<1>5. \A e \in LeafEntries(T) : \E i \in Leaves(T) : e \in ToSet(T.node[i].arr)
  BY DEF LeafEntries
<1>6. ASSUME NEW i \in Leaves(T), NEW e \in LeafEntries(T), e.key \in R[i]
      PROVE  e \in ToSet(T.node[i].arr)
  <2>1. PICK j \in Leaves(T) : e \in ToSet(T.node[j].arr)
    BY <1>5
  <2>  QED
    BY <2>1, <1>3, <1>4, <1>6
<1>7. LeafEntries(T) \subseteq [key : Keys, data : Vals]
  BY <1>3, <1>5
<1>8. ASSUME NEW e \in LeafEntries(T), NEW f \in LeafEntries(T), e.key = f.key PROVE e = f
  <2>1. PICK j \in Leaves(T) : e \in ToSet(T.node[j].arr)
    BY <1>5
  <2>2. f \in ToSet(T.node[j].arr)
    BY <2>1, <1>3, <1>6, <1>8
  <2>  QED
    <3>1. j \in D /\ e \in E[j] /\ f \in E[j]
      BY <2>1, <2>2, <1>1, <1>2
    <3>2. \A a, b \in E[j] : a.key = b.key => a = b
      BY <3>1, <1>1 DEF Shape
    <3>  QED
      BY <3>1, <3>2, <1>8
<1>9. ASSUME NEW i \in Leaves(T), NEW j \in Leaves(T), NEW e \in ToSet(T.node[j].arr),
             e.key \in R[i]
      PROVE  i = j
  BY <1>3, <1>4, <1>9
<1>  QED
  BY <1>6, <1>7, <1>8, <1>9 DEF Keyed

-----------------------------------------------------------------------------
(***************************************************************************)
(* Changing the keys of one node                                           *)
(***************************************************************************)
\* Two lists of nodes that differ in their arrays at most.
ArraysApart(ns, ms) ==
  /\ ms \in Seq(Nodes) /\ Len(ms) = Len(ns) /\ DOMAIN ms = DOMAIN ns
  /\ \A i \in DOMAIN ns :
       /\ ms[i].leaf = ns[i].leaf /\ ms[i].left = ns[i].left
       /\ ms[i].parent = ns[i].parent /\ ms[i].prev = ns[i].prev /\ ms[i].next = ns[i].next

\* A node is its fields.
LEMMA NodeFields ==
  ASSUME NEW n \in Nodes
  PROVE  /\ n.leaf \in BOOLEAN /\ n.arr \in Arrays(Vals \cup Nat) /\ n.left \in Nat
         /\ n.parent \in Nat /\ n.prev \in Nat /\ n.next \in Nat
         /\ n = [leaf |-> n.leaf, arr |-> n.arr, left |-> n.left, parent |-> n.parent,
                 prev |-> n.prev, next |-> n.next]
<1>1. PICK A : A = Arrays(Vals \cup Nat)
  OBVIOUS
<1>2. n \in [leaf : BOOLEAN, arr : A, left : Nat, parent : Nat, prev : Nat, next : Nat]
  BY <1>1 DEF Nodes
<1>  QED
  BY <1>1, <1>2

\* A list given node by node.
LEMMA NodeList ==
  ASSUME NEW N \in Nat, NEW f, NEW S, f = [i \in 1 .. N |-> f[i]],
         \A i \in 1 .. N : f[i] \in S
  PROVE  f \in Seq(S) /\ Len(f) = N /\ DOMAIN f = 1 .. N
<1>1. f \in [1 .. N -> S]
  OBVIOUS
<1>  QED
  BY <1>1

\* The array of node n has become a.
ArraySet(ns, n, a, ms) ==
  /\ ArraysApart(ns, ms) /\ ms[n].arr = a
  /\ \A i \in DOMAIN ns \ {n} : ms[i].arr = ns[i].arr

\* Replacing the array of one node.
LEMMA SetArr ==
  ASSUME NEW ns \in Seq(Nodes), NEW n \in DOMAIN ns, NEW a \in Arrays(Vals \cup Nat),
         NEW ms, ms = [ns EXCEPT ![n].arr = a]
  PROVE  ArraySet(ns, n, a, ms)
<1>1. Len(ns) \in Nat /\ DOMAIN ns = 1 .. Len(ns) /\ \A i \in 1 .. Len(ns) : ns[i] \in Nodes
  OBVIOUS
<1>2. PICK x : x = [ns[n] EXCEPT !.arr = a]
  OBVIOUS
<1>3. x = [leaf |-> ns[n].leaf, arr |-> a, left |-> ns[n].left, parent |-> ns[n].parent,
           prev |-> ns[n].prev, next |-> ns[n].next]
  <2>1. ns[n] = [leaf |-> ns[n].leaf, arr |-> ns[n].arr, left |-> ns[n].left,
                 parent |-> ns[n].parent, prev |-> ns[n].prev, next |-> ns[n].next]
    BY <1>1, NodeFields
  <2>  QED
    BY <2>1, <1>2
<1>4. x \in Nodes
  BY <1>1, <1>3, NodeFields DEF Nodes
<1>5. /\ x.leaf = ns[n].leaf /\ x.arr = a /\ x.left = ns[n].left
      /\ x.parent = ns[n].parent /\ x.prev = ns[n].prev /\ x.next = ns[n].next
  BY <1>3
<1>6. ms = [i \in 1 .. Len(ns) |-> IF i = n THEN x ELSE ns[i]]
  BY <1>1, <1>2
<1>7. ms = [i \in 1 .. Len(ns) |-> ms[i]] /\ \A i \in 1 .. Len(ns) : ms[i] \in Nodes
  BY <1>1, <1>4, <1>6
<1>8. ms \in Seq(Nodes) /\ Len(ms) = Len(ns) /\ DOMAIN ms = 1 .. Len(ns)
  BY <1>1, <1>7, NodeList
<1>9. ms[n] = x /\ \A i \in DOMAIN ns \ {n} : ms[i] = ns[i]
  BY <1>1, <1>6
<1>10. ASSUME NEW i \in DOMAIN ns
       PROVE  /\ ms[i].leaf = ns[i].leaf /\ ms[i].left = ns[i].left
              /\ ms[i].parent = ns[i].parent /\ ms[i].prev = ns[i].prev
              /\ ms[i].next = ns[i].next
  BY <1>5, <1>9
<1>11. ArraysApart(ns, ms)
  BY <1>1, <1>8, <1>10 DEF ArraysApart
<1>  QED
  BY <1>5, <1>9, <1>11 DEF ArraySet

\* The tree with array a in node n.
WithArr(T, n, a) == [T EXCEPT !.node[n].arr = a]

\* The tree with the array of one node replaced.
LEMMA WithArrFacts ==
  ASSUME NEW T, NEW R, NEW L, TreeTypes(T, R, L), NEW n \in DOMAIN T.node,
         NEW a \in Arrays(Vals \cup Nat)
  PROVE  /\ TreeTypes(WithArr(T, n, a), R, L)
         /\ WithArr(T, n, a).root = T.root
         /\ ArraySet(T.node, n, a, WithArr(T, n, a).node)
<1>1. PICK U, ms : U = WithArr(T, n, a) /\ ms = [T.node EXCEPT ![n].arr = a]
  OBVIOUS
<1>2. U = [node |-> ms, count |-> T.count, root |-> T.root, sane |-> T.sane]
  BY <1>1 DEF TreeTypes, WithArr
<1>3. U.node = ms /\ U.count = T.count /\ U.root = T.root /\ U.sane = T.sane
  BY <1>2
<1>4. ArraySet(T.node, n, a, ms)
  <2>1. T.node \in Seq(Nodes)
    BY DEF TreeTypes
  <2>  QED
    BY <2>1, <1>1, SetArr
<1>5. TreeTypes(U, R, L)
  BY <1>2, <1>3, <1>4 DEF TreeTypes, ArraySet, ArraysApart
<1>  QED
  BY <1>1, <1>3, <1>4, <1>5

\* No two entries of an array have the same key.
LEMMA AscendingKeyed ==
  ASSUME NEW D, NEW arr \in Arrays(D), Ascending(arr) PROVE Keyed(ToSet(arr))
<1>1. /\ Len(arr) \in Nat /\ DOMAIN arr = 1 .. Len(arr)
      /\ \A i \in 1 .. Len(arr) : arr[i].key \in Int
  BY ArrayFacts
<1>  SUFFICES ASSUME NEW i \in 1 .. Len(arr), NEW j \in 1 .. Len(arr),
                     arr[i].key = arr[j].key
              PROVE  i = j
  BY <1>1 DEF Keyed, ToSet
<1>2. ~(i < j) /\ ~(j < i)
  BY <1>1 DEF Ascending
<1>  QED
  BY <1>2

\* An activation's key goes to a node of the activation's level.
LEMMA HalfLevel ==
  ASSUME NEW T, NEW s, NEW L, FramesOK(T, s, L)
  PROVE  /\ Len(s) \in Nat /\ DOMAIN s = 1 .. Len(s)
         /\ \A j \in 1 .. Len(s) : Half(s[j]) \in DOMAIN T.node /\ L[Half(s[j])] = j
         /\ \A f \in ToSet(s) : \E j \in 1 .. Len(s) : f = s[j]
         /\ \A j \in 1 .. Len(s) : s[j] \in ToSet(s)
<1>1. Len(s) \in Nat /\ DOMAIN s = 1 .. Len(s)
  BY DEF FramesOK
<1>2. ASSUME NEW j \in 1 .. Len(s)
      PROVE  Half(s[j]) \in DOMAIN T.node /\ L[Half(s[j])] = j
  BY <1>2 DEF FramesOK, Half
<1>  QED
  BY <1>1, <1>2 DEF ToSet

\* Nothing is pending at a leaf.
LEMMA NonePendingAtLeaf ==
  ASSUME NEW T, NEW s, NEW L, FramesOK(T, s, L), NEW i, L[i] = 0
  PROVE  PendingOf(s, i) = {} /\ \A j \in 1 .. Len(s) : Half(s[j]) # i
<1>1. \A j \in 1 .. Len(s) : Half(s[j]) # i
  BY HalfLevel
<1>2. \A f \in ToSet(s) : Half(f) # i
  BY <1>1, HalfLevel
<1>  QED
  BY <1>1, <1>2 DEF PendingOf

\* The entries of the leaves other than i.
OtherEntries(T, i) == UNION {ToSet(T.node[j].arr) : j \in Leaves(T) \ {i}}

LeafChanged(T, s, R, L, at, a) ==
  /\ TreeOK(WithArr(T, at, a), s, R, L)
  /\ LeafEntries(WithArr(T, at, a)) = OtherEntries(T, at) \cup ToSet(a)

\* The keys of a leaf may change within its range.
LEMMA ChangeLeaf ==
  ASSUME NEW T, NEW s, NEW R, NEW L, TreeOK(T, s, R, L), NEW at \in Leaves(T),
         NEW a \in Arrays(Vals \cup Nat), Ascending(a), Len(a) <= MaxKeys,
         ToSet(a) \subseteq [key : Keys, data : Vals], \A e \in ToSet(a) : e.key \in R[at]
  PROVE  LeafChanged(T, s, R, L, at, a)
<1>1. PICK U, D : U = WithArr(T, at, a) /\ D = DOMAIN T.node
  OBVIOUS
<1>2. at \in D /\ T.node[at].leaf
  BY <1>1 DEF Leaves, Addresses
<1>3. /\ TreeTypes(T, R, L) /\ ArraysOK(T) /\ ShapeOK(T, s, R, L) /\ RootOK(T, R, L)
      /\ LinksOK(T, s) /\ ChainOK(T, R) /\ FramesOK(T, s, L)
  BY DEF TreeOK
<1>4. TreeTypes(U, R, L) /\ U.root = T.root /\ ArraySet(T.node, at, a, U.node)
  BY <1>1, <1>2, <1>3, WithArrFacts
<1>5. /\ DOMAIN U.node = D
      /\ \A i \in D : /\ U.node[i].leaf = T.node[i].leaf /\ U.node[i].left = T.node[i].left
                      /\ U.node[i].parent = T.node[i].parent
                      /\ U.node[i].prev = T.node[i].prev /\ U.node[i].next = T.node[i].next
      /\ U.node[at].arr = a /\ \A i \in D \ {at} : U.node[i].arr = T.node[i].arr
  BY <1>1, <1>4 DEF ArraySet, ArraysApart
<1>6. Leaves(U) = Leaves(T)
  BY <1>1, <1>5 DEF Leaves, Addresses
<1>7. L[at] = 0
  BY <1>1, <1>2, <1>3 DEF ShapeOK, Shape, LeafOf
<1>8. PendingOf(s, at) = {} /\ \A j \in 1 .. Len(s) : Half(s[j]) # at
  BY <1>3, <1>7, NonePendingAtLeaf
<1>9. ArraysOK(U)
  <2>  SUFFICES ASSUME NEW i \in D
                PROVE  /\ Ascending(U.node[i].arr) /\ Len(U.node[i].arr) <= MaxKeys
                       /\ U.node[i].leaf => ToSet(U.node[i].arr) \subseteq [key : Keys, data : Vals]
    BY <1>5 DEF ArraysOK
  <2>1. CASE i = at
    BY <2>1, <1>5
  <2>2. CASE i # at
    <3>1. U.node[i].arr = T.node[i].arr /\ U.node[i].leaf = T.node[i].leaf
      BY <2>2, <1>5
    <3>  QED
      BY <3>1, <1>1, <1>3 DEF ArraysOK
  <2>  QED
    BY <2>1, <2>2
<1>10. ShapeOK(U, s, R, L)
  <2>1. LeafOf(U) = LeafOf(T) /\ LeftOf(U) = LeftOf(T)
    BY <1>1, <1>5 DEF LeafOf, LeftOf
  <2>2. PICK E, F : E = EntriesOf(T, s) /\ F = EntriesOf(U, s)
    OBVIOUS
  <2>3. Shape(D, LeafOf(T), LeftOf(T), E, R, L)
    BY <2>2, <1>1, <1>3 DEF ShapeOK
  <2>4. (\A i \in D \ {at} : F[i] = E[i]) /\ F[at] = ToSet(a)
    BY <2>2, <1>1, <1>2, <1>5, <1>8 DEF EntriesOf
  <2>5. Keyed(ToSet(a))
    BY AscendingKeyed
  <2>6. /\ \A e \in F[at] : e.key \in R[at]
        /\ \A e, f \in F[at] : e.key = f.key => e = f
    BY <2>4, <2>5 DEF Keyed
  <2>7. LeafOf(T)[at]
    BY <1>1, <1>2 DEF LeafOf
  <2>8. Shape(D, LeafOf(T), LeftOf(T), F, R, L)
    BY <2>3, <2>4, <2>6, <2>7, <1>2, LeafShape
  <2>  QED
    BY <2>1, <2>2, <2>8, <1>5 DEF ShapeOK
<1>11. RootOK(U, R, L)
  BY <1>1, <1>3, <1>4, <1>5 DEF RootOK
<1>12. LinksOK(U, s)
  <2>1. ASSUME NEW p \in D, ~U.node[p].leaf, NEW i
        PROVE  HangsIn(U, p, i) <=> HangsIn(T, p, i)
    <3>1. p # at
      BY <2>1, <1>2, <1>5
    <3>  QED
      BY <3>1, <2>1, <1>5 DEF HangsIn
  <2>2. ASSUME NEW p \in D, NEW i \in D, ~U.node[p].leaf, HangsIn(U, p, i)
        PROVE  U.node[i].parent = p
    BY <2>1, <2>2, <1>1, <1>3, <1>5 DEF LinksOK
  <2>3. ASSUME NEW i \in D, U.node[i].parent # 0
        PROVE  LET p == U.node[i].parent IN p \in D /\ ~U.node[p].leaf /\ HangsIn(U, p, i)
    <3>1. PICK p : p = U.node[i].parent
      OBVIOUS
    <3>2. p \in D /\ ~T.node[p].leaf /\ HangsIn(T, p, i)
      BY <3>1, <2>3, <1>1, <1>3, <1>5 DEF LinksOK
    <3>  QED
      BY <3>1, <3>2, <2>1, <1>5
  <2>4. ASSUME NEW i \in D
        PROVE  U.node[i].parent = 0 <=> i = U.root \/ \E f \in ToSet(s) : f.child = i
    BY <1>1, <1>3, <1>4, <1>5 DEF LinksOK
  <2>  QED
    BY <2>2, <2>3, <2>4, <1>5 DEF LinksOK
<1>13. ChainOK(U, R)
  <2>1. \A i \in Leaves(T) : i \in D
    BY <1>1 DEF Leaves, Addresses
  <2>  SUFFICES ASSUME NEW i \in Leaves(T)
                PROVE  /\ IF T.node[i].next = 0 THEN \A j \in Leaves(T) \ {i} : BeforeIn(R, j, i)
                          ELSE /\ T.node[i].next \in Leaves(T) /\ T.node[T.node[i].next].prev = i
                               /\ BeforeIn(R, i, T.node[i].next)
                               /\ \A j \in Leaves(T) \ {i, T.node[i].next} :
                                    BeforeIn(R, j, i) \/ BeforeIn(R, T.node[i].next, j)
                       /\ IF T.node[i].prev = 0 THEN \A j \in Leaves(T) \ {i} : BeforeIn(R, i, j)
                          ELSE T.node[i].prev \in Leaves(T) /\ T.node[T.node[i].prev].next = i
    BY <2>1, <1>5, <1>6 DEF ChainOK
  <2>  QED
    BY <1>3 DEF ChainOK
<1>14. FramesOK(U, s, L)
  <2>1. \A j \in 1 .. Len(s) : U.node[Half(s[j])].arr = T.node[Half(s[j])].arr
    BY <1>1, <1>3, <1>5, <1>8, HalfLevel
  <2>  QED
    BY <2>1, <1>1, <1>3, <1>5 DEF FramesOK
<1>15. LeafEntries(U) = OtherEntries(T, at) \cup ToSet(a)
  <2>1. \A j \in Leaves(T) : j \in D
    BY <1>1 DEF Leaves, Addresses
  <2>2. \A j \in Leaves(T) \ {at} : U.node[j].arr = T.node[j].arr
    BY <2>1, <1>5
  <2>  QED
    BY <2>2, <1>5, <1>6 DEF LeafEntries, OtherEntries
<1>  QED
  BY <1>1, <1>4, <1>9, <1>10, <1>11, <1>12, <1>13, <1>14, <1>15 DEF TreeOK, LeafChanged

\* The entries of the tree are those of one leaf and of the others, which hold no key
\* that the leaf serves.
LEMMA EntriesOfLeaf ==
  ASSUME NEW T, NEW s, NEW R, NEW L, TreeOK(T, s, R, L), NEW at \in Leaves(T)
  PROVE  /\ LeafEntries(T) = OtherEntries(T, at) \cup ToSet(T.node[at].arr)
         /\ \A e \in OtherEntries(T, at) : e.key \notin R[at]
         /\ R[at] \subseteq Keys /\ R[at] \subseteq Int
         /\ T.node[at].arr \in Arrays(Vals \cup Nat) /\ Ascending(T.node[at].arr)
         /\ ToSet(T.node[at].arr) \subseteq [key : Keys, data : Vals]
         /\ \A e \in ToSet(T.node[at].arr) : e.key \in R[at]
<1>1. LeafEntries(T) = OtherEntries(T, at) \cup ToSet(T.node[at].arr)
  BY DEF LeafEntries, OtherEntries
<1>2. \A i, j \in Leaves(T) : \A e \in ToSet(T.node[j].arr) : e.key \in R[i] => i = j
  BY KeyInItsLeaf
<1>3. \A e \in OtherEntries(T, at) : e.key \notin R[at]
  BY <1>2 DEF OtherEntries
<1>4. at \in DOMAIN T.node /\ T.node[at].leaf
  BY DEF Leaves, Addresses
<1>5. Shape(DOMAIN T.node, LeafOf(T), LeftOf(T), EntriesOf(T, s), R, L)
  BY DEF TreeOK, ShapeOK
<1>6. R[at] \subseteq Keys /\ \A e \in EntriesOf(T, s)[at] : e.key \in R[at]
  BY <1>4, <1>5 DEF Shape
<1>7. R[at] \subseteq Int
  BY <1>6, TreeAssumption
<1>8. ToSet(T.node[at].arr) \subseteq EntriesOf(T, s)[at]
  BY <1>4 DEF EntriesOf
<1>9. /\ Ascending(T.node[at].arr)
      /\ ToSet(T.node[at].arr) \subseteq [key : Keys, data : Vals]
  BY <1>4 DEF TreeOK, ArraysOK
<1>10. T.node[at].arr \in Arrays(Vals \cup Nat)
  <2>1. T.node \in Seq(Nodes)
    BY DEF TreeOK, TreeTypes
  <2>2. T.node[at] \in Nodes
    BY <2>1, <1>4
  <2>  QED
    BY <2>2, NodeFields
<1>  QED
  BY <1>1, <1>3, <1>6, <1>7, <1>8, <1>9, <1>10

LeafPut(T, s, R, L, at, k, d) ==
  /\ TreeOK(WithArr(T, at, put(T.node[at].arr, k, d)), s, R, L)
  /\ Contents(WithArr(T, at, put(T.node[at].arr, k, d))) = [Contents(T) EXCEPT ![k] = d]

\* A put at the leaf that serves the key changes one key of the table.
LEMMA PutInLeaf ==
  ASSUME NEW T, NEW s, NEW R, NEW L, TreeOK(T, s, R, L), NEW at \in Leaves(T),
         NEW k \in R[at], NEW d \in Vals, HasRoom(T, at)
  PROVE  LeafPut(T, s, R, L, at, k, d)
<1>1. PICK a, b : a = T.node[at].arr /\ b = put(a, k, d)
  OBVIOUS
<1>2. /\ LeafEntries(T) = OtherEntries(T, at) \cup ToSet(a)
      /\ \A e \in OtherEntries(T, at) : e.key \notin R[at]
      /\ k \in Keys /\ k \in Int
      /\ a \in Arrays(Vals \cup Nat) /\ Ascending(a)
      /\ ToSet(a) \subseteq [key : Keys, data : Vals]
      /\ \A e \in ToSet(a) : e.key \in R[at]
  BY <1>1, EntriesOfLeaf
<1>3. /\ b \in Arrays(Vals \cup Nat) /\ Ascending(b)
      /\ ToSet(b) = Others(a, k) \cup {Entry(k, d)}
      /\ Len(b) = IF Has(a, k) THEN Len(a) ELSE Len(a) + 1
  <2>1. PICK V : V = Vals \cup Nat
    OBVIOUS
  <2>2. d \in V /\ a \in Arrays(V) /\ Ascending(a) /\ k \in Int
    BY <2>1, <1>2
  <2>3. /\ put(a, k, d) \in Arrays(V) /\ Ascending(put(a, k, d))
        /\ ToSet(put(a, k, d)) = Others(a, k) \cup {Entry(k, d)}
        /\ Len(put(a, k, d)) = IF Has(a, k) THEN Len(a) ELSE Len(a) + 1
    BY <2>2, PutRight
  <2>  QED
    BY <2>1, <2>3, <1>1
<1>4. Len(b) <= MaxKeys
  <2>1. Len(a) < MaxKeys /\ Len(a) \in Nat
    <3>1. Len(a) \in Nat
      BY <1>2, ArrayFacts
    <3>  QED
      BY <3>1, <1>1, SortedArrayAssumption DEF HasRoom, is_full
  <2>  QED
    BY <2>1, <1>3, SortedArrayAssumption
<1>5. Entry(k, d) \in [key : Keys, data : Vals] /\ Entry(k, d).key = k
  BY <1>2 DEF Entry
<1>6. Others(a, k) \subseteq ToSet(a)
  BY DEF Others
<1>7. /\ ToSet(b) \subseteq [key : Keys, data : Vals]
      /\ \A e \in ToSet(b) : e.key \in R[at]
  BY <1>2, <1>3, <1>5, <1>6
<1>8. LeafChanged(T, s, R, L, at, b)
  BY <1>3, <1>4, <1>7, ChangeLeaf
<1>9. LeafEntries(WithArr(T, at, b)) = {e \in LeafEntries(T) : e.key # k} \cup {Entry(k, d)}
  BY <1>2, <1>3, <1>8 DEF LeafChanged, Others
<1>10. Keyed(LeafEntries(T))
  BY KeyInItsLeaf
<1>11. Table(LeafEntries(WithArr(T, at, b))) = [Table(LeafEntries(T)) EXCEPT ![k] = d]
  BY <1>2, <1>9, <1>10, TablePut
<1>  QED
  BY <1>1, <1>8, <1>11, ContentsTable DEF LeafChanged, LeafPut

LeafDel(T, s, R, L, at, k) ==
  /\ TreeOK(WithArr(T, at, del(T.node[at].arr, k)), s, R, L)
  /\ Contents(WithArr(T, at, del(T.node[at].arr, k))) = [Contents(T) EXCEPT ![k] = Absent]

\* So does a del.
LEMMA DelInLeaf ==
  ASSUME NEW T, NEW s, NEW R, NEW L, TreeOK(T, s, R, L), NEW at \in Leaves(T),
         NEW k \in R[at]
  PROVE  LeafDel(T, s, R, L, at, k)
<1>1. PICK a, b : a = T.node[at].arr /\ b = del(a, k)
  OBVIOUS
<1>2. /\ LeafEntries(T) = OtherEntries(T, at) \cup ToSet(a)
      /\ \A e \in OtherEntries(T, at) : e.key \notin R[at]
      /\ k \in Keys /\ k \in Int
      /\ a \in Arrays(Vals \cup Nat) /\ Ascending(a)
      /\ ToSet(a) \subseteq [key : Keys, data : Vals]
      /\ \A e \in ToSet(a) : e.key \in R[at]
  BY <1>1, EntriesOfLeaf
<1>3. /\ b \in Arrays(Vals \cup Nat) /\ Ascending(b) /\ ToSet(b) = Others(a, k)
      /\ Len(b) = IF Has(a, k) THEN Len(a) - 1 ELSE Len(a)
  BY <1>1, <1>2, DelRight
<1>4. Len(b) <= MaxKeys
  <2>1. Len(a) <= MaxKeys
    BY <1>1 DEF TreeOK, ArraysOK, Leaves, Addresses
  <2>2. Len(a) \in Nat
    BY <1>2, ArrayFacts
  <2>  QED
    BY <2>1, <2>2, <1>3, SortedArrayAssumption
<1>5. ToSet(b) \subseteq ToSet(a)
  BY <1>3 DEF Others
<1>6. /\ ToSet(b) \subseteq [key : Keys, data : Vals]
      /\ \A e \in ToSet(b) : e.key \in R[at]
  BY <1>2, <1>5
<1>7. LeafChanged(T, s, R, L, at, b)
  BY <1>3, <1>4, <1>6, ChangeLeaf
<1>8. LeafEntries(WithArr(T, at, b)) = {e \in LeafEntries(T) : e.key # k}
  BY <1>2, <1>3, <1>7 DEF LeafChanged, Others
<1>9. Keyed(LeafEntries(T))
  BY KeyInItsLeaf
<1>10. Table(LeafEntries(WithArr(T, at, b))) = [Table(LeafEntries(T)) EXCEPT ![k] = Absent]
  BY <1>2, <1>8, <1>9, TableDel
<1>  QED
  BY <1>1, <1>7, <1>10, ContentsTable DEF LeafChanged, LeafDel

-----------------------------------------------------------------------------
(***************************************************************************)
(* internal_node_t::put                                                    *)
(***************************************************************************)
\* The nodes of S have got parent p.
ParentSet(ns, S, p, ms) ==
  /\ ms \in Seq(Nodes) /\ Len(ms) = Len(ns) /\ DOMAIN ms = DOMAIN ns
  /\ \A i \in DOMAIN ns :
       /\ ms[i].leaf = ns[i].leaf /\ ms[i].arr = ns[i].arr /\ ms[i].left = ns[i].left
       /\ ms[i].prev = ns[i].prev /\ ms[i].next = ns[i].next
       /\ ms[i].parent = IF i \in S THEN p ELSE ns[i].parent

\* SetParent changes the parents of a set of nodes and nothing else.
LEMMA SetParentRight ==
  ASSUME NEW ns \in Seq(Nodes), NEW S, NEW p \in Nat
  PROVE  ParentSet(ns, S, p, SetParent(ns, S, p))
<1>1. Len(ns) \in Nat /\ DOMAIN ns = 1 .. Len(ns) /\ \A i \in 1 .. Len(ns) : ns[i] \in Nodes
  OBVIOUS
<1>2. PICK ms : ms = SetParent(ns, S, p)
  OBVIOUS
<1>3. ASSUME NEW i \in 1 .. Len(ns)
      PROVE  /\ ms[i] \in Nodes
             /\ ms[i].leaf = ns[i].leaf /\ ms[i].arr = ns[i].arr /\ ms[i].left = ns[i].left
             /\ ms[i].prev = ns[i].prev /\ ms[i].next = ns[i].next
             /\ ms[i].parent = IF i \in S THEN p ELSE ns[i].parent
  <2>1. PICK q : q = IF i \in S THEN p ELSE ns[i].parent
    OBVIOUS
  <2>2. ns[i] = [leaf |-> ns[i].leaf, arr |-> ns[i].arr, left |-> ns[i].left,
                 parent |-> ns[i].parent, prev |-> ns[i].prev, next |-> ns[i].next]
    BY <1>1, NodeFields
  <2>3. ms[i] = [ns[i] EXCEPT !.parent = q]
    BY <2>1, <1>1, <1>2 DEF SetParent
  <2>4. ms[i] = [leaf |-> ns[i].leaf, arr |-> ns[i].arr, left |-> ns[i].left,
                 parent |-> q, prev |-> ns[i].prev, next |-> ns[i].next]
    BY <2>2, <2>3
  <2>5. /\ ns[i].leaf \in BOOLEAN /\ ns[i].arr \in Arrays(Vals \cup Nat)
        /\ ns[i].left \in Nat /\ ns[i].prev \in Nat /\ ns[i].next \in Nat
        /\ ns[i].parent \in Nat
    BY <1>1, NodeFields
  <2>6. q \in Nat
    BY <2>1, <2>5
  <2>7. ms[i] \in Nodes
    BY <2>4, <2>5, <2>6 DEF Nodes
  <2>8. /\ ms[i].leaf = ns[i].leaf /\ ms[i].arr = ns[i].arr /\ ms[i].left = ns[i].left
        /\ ms[i].prev = ns[i].prev /\ ms[i].next = ns[i].next /\ ms[i].parent = q
    BY <2>4
  <2>  QED
    BY <2>1, <2>7, <2>8
<1>4. ms = [i \in 1 .. Len(ns) |-> ms[i]]
  BY <1>1, <1>2 DEF SetParent
<1>5. ms \in Seq(Nodes) /\ Len(ms) = Len(ns) /\ DOMAIN ms = 1 .. Len(ns)
  BY <1>1, <1>3, <1>4, NodeList
<1>  QED
  BY <1>1, <1>2, <1>3, <1>5 DEF ParentSet

\* The tree U is T with node "child" under key k of node n.
Adopted(T, n, k, child, U) ==
  /\ U = [node |-> U.node, count |-> T.count, root |-> T.root, sane |-> T.sane]
  /\ U.node \in Seq(Nodes) /\ Len(U.node) = Len(T.node) /\ DOMAIN U.node = DOMAIN T.node
  /\ \A i \in DOMAIN T.node :
       /\ U.node[i].leaf = T.node[i].leaf /\ U.node[i].left = T.node[i].left
       /\ U.node[i].prev = T.node[i].prev /\ U.node[i].next = T.node[i].next
       /\ U.node[i].parent = IF i = child THEN n ELSE T.node[i].parent
       /\ U.node[i].arr = IF i = n THEN put(T.node[n].arr, k, child) ELSE T.node[i].arr

\* internal_node_t::put changes one array and one parent.
LEMMA AdoptRight ==
  ASSUME NEW T, NEW R, NEW L, TreeTypes(T, R, L), NEW n \in DOMAIN T.node, NEW k \in Int,
         NEW child \in Nat, Ascending(T.node[n].arr)
  PROVE  Adopted(T, n, k, child, Adopt(T, n, k, child))
<1>1. PICK ns, a : ns = T.node /\ a = put(ns[n].arr, k, child)
  OBVIOUS
<1>2. ns \in Seq(Nodes) /\ n \in DOMAIN ns
  BY <1>1 DEF TreeTypes
<1>3. Len(ns) \in Nat /\ DOMAIN ns = 1 .. Len(ns) /\ ns[n] \in Nodes
  BY <1>2
<1>4. n \in Nat
  BY <1>2, <1>3
<1>5. a \in Arrays(Vals \cup Nat)
  BY <1>1, <1>3, NodeFields, PutRight
<1>6. PICK ms : ms = [ns EXCEPT ![n].arr = a]
  OBVIOUS
<1>7. ArraySet(ns, n, a, ms)
  BY <1>2, <1>5, <1>6, SetArr
<1>8. ms \in Seq(Nodes)
  BY <1>7 DEF ArraySet, ArraysApart
<1>9. PICK qs : qs = SetParent(ms, {child}, n)
  OBVIOUS
<1>10. ParentSet(ms, {child}, n, qs)
  BY <1>4, <1>8, <1>9, SetParentRight
<1>11. PICK U : U = Adopt(T, n, k, child)
  OBVIOUS
<1>12. U = [node |-> qs, count |-> T.count, root |-> T.root, sane |-> T.sane]
  <2>1. T = [node |-> T.node, count |-> T.count, root |-> T.root, sane |-> T.sane]
    BY DEF TreeTypes
  <2>2. U = [T EXCEPT !.node = qs]
    BY <1>1, <1>6, <1>9, <1>11 DEF Adopt
  <2>  QED
    BY <2>1, <2>2
<1>13. U.node = qs
  BY <1>12
<1>14. qs \in Seq(Nodes) /\ Len(qs) = Len(ns) /\ DOMAIN qs = DOMAIN ns
  BY <1>7, <1>10 DEF ArraySet, ArraysApart, ParentSet
<1>15. ASSUME NEW i \in DOMAIN ns
       PROVE  /\ qs[i].leaf = ns[i].leaf /\ qs[i].left = ns[i].left
              /\ qs[i].prev = ns[i].prev /\ qs[i].next = ns[i].next
              /\ qs[i].parent = IF i = child THEN n ELSE ns[i].parent
              /\ qs[i].arr = IF i = n THEN a ELSE ns[i].arr
  BY <1>7, <1>10 DEF ArraySet, ArraysApart, ParentSet
<1>  QED
  BY <1>1, <1>11, <1>12, <1>13, <1>14, <1>15 DEF Adopted

\* The stack without its last activation.
LEMMA FrontRight ==
  ASSUME NEW F, NEW s \in Seq(F), s # <<>>
  PROVE  /\ Len(s) \in Nat /\ Len(s) >= 1 /\ DOMAIN s = 1 .. Len(s)
         /\ Front(s) \in Seq(F) /\ Len(Front(s)) = Len(s) - 1
         /\ \A j \in 1 .. Len(s) - 1 : Front(s)[j] = s[j]
         /\ ToSet(s) = ToSet(Front(s)) \cup {s[Len(s)]}
<1>1. Len(s) \in Nat /\ Len(s) >= 1 /\ DOMAIN s = 1 .. Len(s)
  OBVIOUS
<1>2. PICK t, m : t = Front(s) /\ m = Len(s) - 1
  OBVIOUS
<1>3. m \in Nat /\ m <= Len(s) /\ m + 1 = Len(s) /\ t = SubSeq(s, 1, m)
  BY <1>1, <1>2 DEF Front
<1>4. t \in Seq(F) /\ Len(t) = m /\ DOMAIN t = 1 .. m /\ \A j \in 1 .. m : t[j] = s[j]
  BY <1>3
<1>5. 1 .. Len(s) = (1 .. m) \cup {Len(s)}
  BY <1>1, <1>3
<1>6. ToSet(s) = ToSet(t) \cup {s[Len(s)]}
  BY <1>1, <1>4, <1>5 DEF ToSet
<1>  QED
  BY <1>1, <1>2, <1>4, <1>6

\* The chain and the entries of the leaves depend on the leaves only.
LeavesKept(T, U, R, R2) ==
  (ChainOK(T, R) => ChainOK(U, R2)) /\ LeafEntries(U) = LeafEntries(T)

\* Steps that leave the leaves alone keep the chain and the table.
LEMMA SameLeaves ==
  ASSUME NEW T, NEW U, NEW R, NEW R2, Leaves(U) = Leaves(T),
         \A i \in Leaves(T) : /\ U.node[i].next = T.node[i].next
                              /\ U.node[i].prev = T.node[i].prev
                              /\ U.node[i].arr = T.node[i].arr
                              /\ R2[i] = R[i]
  PROVE  LeavesKept(T, U, R, R2)
<1>1. ASSUME ChainOK(T, R) PROVE ChainOK(U, R2)
  <2>1. \A i, j \in Leaves(T) : BeforeIn(R2, i, j) <=> BeforeIn(R, i, j)
    BY DEF BeforeIn
  <2>  SUFFICES ASSUME NEW i \in Leaves(T)
                PROVE  /\ IF T.node[i].next = 0 THEN \A j \in Leaves(T) \ {i} : BeforeIn(R, j, i)
                          ELSE /\ T.node[i].next \in Leaves(T) /\ T.node[T.node[i].next].prev = i
                               /\ BeforeIn(R, i, T.node[i].next)
                               /\ \A j \in Leaves(T) \ {i, T.node[i].next} :
                                    BeforeIn(R, j, i) \/ BeforeIn(R, T.node[i].next, j)
                       /\ IF T.node[i].prev = 0 THEN \A j \in Leaves(T) \ {i} : BeforeIn(R, i, j)
                          ELSE T.node[i].prev \in Leaves(T) /\ T.node[T.node[i].prev].next = i
    BY <2>1 DEF ChainOK
  <2>  QED
    BY <1>1 DEF ChainOK
<1>2. LeafEntries(U) = LeafEntries(T)
  BY DEF LeafEntries
<1>  QED
  BY <1>1, <1>2 DEF LeavesKept

\* An activation puts its key and child into the node they were pending at: the
\* search tree stays as it is.
LEMMA AdoptOK ==
  ASSUME NEW T, NEW s, NEW R, NEW L, TreeOK(T, s, R, L), s # <<>>,
         NEW f, f = s[Len(s)], NEW h, h = Half(f), Len(T.node[h].arr) < MaxKeys,
         NEW U, U = Adopt(T, h, f.key, f.child)
  PROVE  /\ TreeOK(U, Front(s), R, L) /\ LeafEntries(U) = LeafEntries(T)
         /\ f.child \in DOMAIN U.node
<1>1. PICK D, t, x, m : D = DOMAIN T.node /\ t = Front(s) /\ x = Entry(f.key, f.child) /\ m = Len(s)
  OBVIOUS
<1>2. /\ TreeTypes(T, R, L) /\ ArraysOK(T) /\ ShapeOK(T, s, R, L) /\ RootOK(T, R, L)
      /\ LinksOK(T, s) /\ ChainOK(T, R) /\ FramesOK(T, s, L)
  BY DEF TreeOK
<1>3. s \in Seq(FrameSet)
  BY <1>2 DEF FramesOK
<1>4. /\ m \in Nat /\ m >= 1 /\ DOMAIN s = 1 .. m
      /\ t \in Seq(FrameSet) /\ Len(t) = m - 1
      /\ \A j \in 1 .. m - 1 : t[j] = s[j]
      /\ ToSet(s) = ToSet(t) \cup {f}
  BY <1>1, <1>3, FrontRight
<1>5. /\ \A j \in 1 .. m : Half(s[j]) \in D /\ L[Half(s[j])] = j
      /\ \A g \in ToSet(s) : \E j \in 1 .. m : g = s[j]
      /\ \A j \in 1 .. m : s[j] \in ToSet(s)
  BY <1>1, <1>2, HalfLevel
<1>6. m \in 1 .. m /\ f = s[m] /\ h \in D /\ L[h] = m /\ f \in ToSet(s)
  BY <1>1, <1>4, <1>5
<1>7. f \in FrameSet /\ f.child \in D /\ L[f.child] = m - 1
  BY <1>1, <1>3, <1>6, <1>2 DEF FramesOK
<1>8. f.key \in Int /\ f.child \in Nat
  BY <1>7 DEF FrameSet
<1>9. T.node \in Seq(Nodes) /\ D = 1 .. Len(T.node) /\ Len(T.node) \in Nat
  BY <1>1, <1>2 DEF TreeTypes
<1>10. h # 0 /\ T.node[h] \in Nodes
  BY <1>6, <1>9
<1>11. T.node[h].arr \in Arrays(Vals \cup Nat) /\ Ascending(T.node[h].arr)
  BY <1>1, <1>2, <1>6, <1>10, NodeFields DEF ArraysOK
<1>12. Adopted(T, h, f.key, f.child, U)
  BY <1>1, <1>2, <1>6, <1>8, <1>11, AdoptRight
<1>13. /\ U = [node |-> U.node, count |-> T.count, root |-> T.root, sane |-> T.sane]
       /\ U.node \in Seq(Nodes) /\ Len(U.node) = Len(T.node) /\ DOMAIN U.node = D
       /\ \A i \in D :
            /\ U.node[i].leaf = T.node[i].leaf /\ U.node[i].left = T.node[i].left
            /\ U.node[i].prev = T.node[i].prev /\ U.node[i].next = T.node[i].next
            /\ U.node[i].parent = IF i = f.child THEN h ELSE T.node[i].parent
            /\ U.node[i].arr = IF i = h THEN put(T.node[h].arr, f.key, f.child)
                                        ELSE T.node[i].arr
  BY <1>1, <1>12 DEF Adopted
<1>14. U.root = T.root /\ U.sane = T.sane /\ U.count = T.count
  BY <1>13
<1>15. Shape(D, LeafOf(T), LeftOf(T), EntriesOf(T, s), R, L)
  BY <1>1, <1>2 DEF ShapeOK
<1>16. LeafOf(T)[h] = T.node[h].leaf /\ EntriesOf(T, s)[h] = ToSet(T.node[h].arr) \cup PendingOf(s, h)
  BY <1>1, <1>6 DEF LeafOf, EntriesOf
<1>17. ~T.node[h].leaf
  BY <1>4, <1>6, <1>15, <1>16 DEF Shape
<1>18. T.node[f.child].parent = 0
  BY <1>1, <1>2, <1>6, <1>7 DEF LinksOK
\* The key is new to the node.
<1>19. x.key = f.key /\ x.data = f.child
  BY <1>1 DEF Entry
<1>20. x \in PendingOf(s, h)
  BY <1>1, <1>6 DEF PendingOf
<1>21. \A e \in ToSet(T.node[h].arr) : e.key # f.key
  <2>  SUFFICES ASSUME NEW e \in ToSet(T.node[h].arr), e.key = f.key PROVE FALSE
    OBVIOUS
  <2>1. \A a, b \in EntriesOf(T, s)[h] : a.key = b.key => a = b
    BY <1>6, <1>15 DEF Shape
  <2>2. e = x
    BY <2>1, <1>16, <1>19, <1>20
  <2>3. HangsIn(T, h, f.child)
    BY <2>2, <1>19 DEF HangsIn
  <2>4. T.node[f.child].parent = h
    BY <2>3, <1>1, <1>2, <1>6, <1>7, <1>17 DEF LinksOK
  <2>  QED
    BY <2>4, <1>10, <1>18
<1>22. PICK b : b = put(T.node[h].arr, f.key, f.child)
  OBVIOUS
<1>23. /\ Ascending(b) /\ ToSet(b) = Others(T.node[h].arr, f.key) \cup {x}
       /\ Len(b) = IF Has(T.node[h].arr, f.key) THEN Len(T.node[h].arr)
                                               ELSE Len(T.node[h].arr) + 1
  <2>1. PICK V, a, k, d : V = Vals \cup Nat /\ a = T.node[h].arr /\ k = f.key /\ d = f.child
    OBVIOUS
  <2>2. d \in V /\ a \in Arrays(V) /\ Ascending(a) /\ k \in Int
    BY <2>1, <1>8, <1>11
  <2>3. /\ Ascending(put(a, k, d)) /\ ToSet(put(a, k, d)) = Others(a, k) \cup {Entry(k, d)}
        /\ Len(put(a, k, d)) = IF Has(a, k) THEN Len(a) ELSE Len(a) + 1
    BY <2>2, PutRight
  <2>  QED
    BY <2>1, <2>3, <1>1, <1>22
<1>24. ToSet(b) = ToSet(T.node[h].arr) \cup {x}
  BY <1>21, <1>23 DEF Others
<1>25. Len(b) <= MaxKeys
  <2>1. Len(T.node[h].arr) \in Nat
    BY <1>11, ArrayFacts
  <2>  QED
    BY <2>1, <1>23, SortedArrayAssumption
\* Only this activation was for node h.
<1>26. ASSUME NEW g \in ToSet(t) PROVE Half(g) # h /\ g.child # f.child /\ g \in ToSet(s)
  <2>1. PICK j \in 1 .. m - 1 : g = s[j]
    <3>1. DOMAIN t = 1 .. m - 1
      BY <1>4
    <3>  QED
      BY <3>1, <1>4 DEF ToSet
  <2>2. j \in 1 .. m /\ j # m
    BY <1>4
  <2>3. Half(g) # h
    BY <2>1, <2>2, <1>5, <1>6
  <2>4. L[g.child] = j - 1
    BY <2>1, <2>2, <1>1, <1>2 DEF FramesOK
  <2>5. g.child # f.child
    BY <2>2, <2>4, <1>4, <1>7
  <2>  QED
    BY <2>3, <2>5, <1>4
<1>27. /\ PendingOf(s, h) = {x} /\ PendingOf(t, h) = {}
       /\ \A i \in D \ {h} : PendingOf(t, i) = PendingOf(s, i)
  <2>1. PendingOf(s, h) = {x}
    BY <1>1, <1>4, <1>6, <1>26 DEF PendingOf
  <2>2. PendingOf(t, h) = {}
    BY <1>26 DEF PendingOf
  <2>3. ASSUME NEW i \in D \ {h} PROVE {g \in ToSet(t) : Half(g) = i} = {g \in ToSet(s) : Half(g) = i}
    BY <1>4
  <2>  QED
    BY <2>1, <2>2, <2>3 DEF PendingOf
<1>28. ASSUME NEW i \in D
       PROVE  ToSet(U.node[i].arr) \cup PendingOf(t, i) = ToSet(T.node[i].arr) \cup PendingOf(s, i)
  <2>1. CASE i = h
    BY <2>1, <1>13, <1>22, <1>24, <1>27
  <2>2. CASE i # h
    BY <2>2, <1>13, <1>27
  <2>  QED
    BY <2>1, <2>2
<1>29. TreeTypes(U, R, L)
  BY <1>2, <1>13, <1>14 DEF TreeTypes
<1>30. ArraysOK(U)
  <2>  SUFFICES ASSUME NEW i \in D
                PROVE  /\ Ascending(U.node[i].arr) /\ Len(U.node[i].arr) <= MaxKeys
                       /\ U.node[i].leaf => ToSet(U.node[i].arr) \subseteq [key : Keys, data : Vals]
    BY <1>13 DEF ArraysOK
  <2>1. CASE i = h
    BY <2>1, <1>13, <1>17, <1>22, <1>23, <1>25
  <2>2. CASE i # h
    <3>1. U.node[i].arr = T.node[i].arr /\ U.node[i].leaf = T.node[i].leaf
      BY <2>2, <1>13
    <3>  QED
      BY <3>1, <1>1, <1>2 DEF ArraysOK
  <2>  QED
    BY <2>1, <2>2
<1>31. ShapeOK(U, t, R, L)
  <2>1. /\ LeafOf(U) = LeafOf(T) /\ LeftOf(U) = LeftOf(T)
        /\ EntriesOf(U, t) = EntriesOf(T, s)
    <3>1. LeafOf(U) = LeafOf(T) /\ LeftOf(U) = LeftOf(T)
      BY <1>1, <1>13 DEF LeafOf, LeftOf
    <3>2. EntriesOf(U, t) = [i \in D |-> ToSet(U.node[i].arr) \cup PendingOf(t, i)]
      BY <1>13 DEF EntriesOf
    <3>3. EntriesOf(T, s) = [i \in D |-> ToSet(T.node[i].arr) \cup PendingOf(s, i)]
      BY <1>1 DEF EntriesOf
    <3>  QED
      BY <3>1, <3>2, <3>3, <1>28
  <2>  QED
    BY <2>1, <1>13, <1>15 DEF ShapeOK
<1>32. RootOK(U, R, L)
  BY <1>1, <1>2, <1>13, <1>14 DEF RootOK
<1>33. LinksOK(U, t)
  <2>1. ASSUME NEW p \in D, NEW i \in D
        PROVE  HangsIn(U, p, i) <=> HangsIn(T, p, i) \/ (p = h /\ i = f.child)
    <3>1. CASE p = h
      <4>1. U.node[h].left = T.node[h].left /\ ToSet(U.node[h].arr) = ToSet(T.node[h].arr) \cup {x}
        BY <1>6, <1>13, <1>22, <1>24
      <4>  QED
        BY <3>1, <4>1, <1>19 DEF HangsIn
    <3>2. CASE p # h
      <4>1. U.node[p].left = T.node[p].left /\ U.node[p].arr = T.node[p].arr
        BY <3>2, <1>13
      <4>  QED
        BY <3>2, <4>1 DEF HangsIn
    <3>  QED
      BY <3>1, <3>2
  <2>2. ASSUME NEW p \in D, NEW i \in D, ~U.node[p].leaf, HangsIn(U, p, i)
        PROVE  U.node[i].parent = p
    <3>1. CASE p = h /\ i = f.child
      BY <3>1, <1>13
    <3>2. CASE HangsIn(T, p, i)
      <4>1. T.node[i].parent = p
        BY <3>2, <2>2, <1>1, <1>2, <1>13 DEF LinksOK
      <4>2. p # 0
        BY <1>9
      <4>3. i # f.child
        BY <4>1, <4>2, <1>18
      <4>  QED
        BY <4>1, <4>3, <1>13
    <3>  QED
      BY <2>1, <2>2, <3>1, <3>2
  <2>3. ASSUME NEW i \in D, U.node[i].parent # 0
        PROVE  LET p == U.node[i].parent IN p \in D /\ ~U.node[p].leaf /\ HangsIn(U, p, i)
    <3>1. CASE i = f.child
      BY <3>1, <2>1, <1>6, <1>13, <1>17
    <3>2. CASE i # f.child
      <4>1. PICK p : p = T.node[i].parent
        OBVIOUS
      <4>2. U.node[i].parent = p /\ p # 0
        BY <3>2, <4>1, <2>3, <1>13
      <4>3. p \in D /\ ~T.node[p].leaf /\ HangsIn(T, p, i)
        BY <4>1, <4>2, <1>1, <1>2 DEF LinksOK
      <4>  QED
        BY <4>2, <4>3, <2>1, <1>13
    <3>  QED
      BY <3>1, <3>2
  <2>4. ASSUME NEW i \in D
        PROVE  U.node[i].parent = 0 <=> i = U.root \/ \E g \in ToSet(t) : g.child = i
    <3>1. CASE i = f.child
      <4>1. U.node[i].parent # 0
        BY <3>1, <1>10, <1>13
      <4>2. i # T.root
        <5>1. L[h] <= L[T.root] /\ L[f.child] # L[T.root]
          BY <1>1, <1>2, <1>4, <1>6, <1>7 DEF RootOK
        <5>  QED
          BY <5>1, <3>1
      <4>  QED
        BY <4>1, <4>2, <3>1, <1>14, <1>26
    <3>2. CASE i # f.child
      <4>1. U.node[i].parent = T.node[i].parent
        BY <3>2, <1>13
      <4>2. (\E g \in ToSet(t) : g.child = i) <=> (\E g \in ToSet(s) : g.child = i)
        BY <3>2, <1>4
      <4>3. T.node[i].parent = 0 <=> i = T.root \/ \E g \in ToSet(s) : g.child = i
        BY <1>1, <1>2 DEF LinksOK
      <4>  QED
        BY <4>1, <4>2, <4>3, <1>14
    <3>  QED
      BY <3>1, <3>2
  <2>5. DOMAIN U.node = D
    BY <1>13
  <2>  QED
    BY <2>2, <2>3, <2>4, <2>5 DEF LinksOK
<1>34. ChainOK(U, R) /\ LeafEntries(U) = LeafEntries(T)
  <2>1. Leaves(U) = Leaves(T)
    BY <1>1, <1>13 DEF Leaves, Addresses
  <2>2. \A i \in Leaves(T) : i \in D /\ i # h
    BY <1>1, <1>17 DEF Leaves, Addresses
  <2>3. \A i \in Leaves(T) : /\ U.node[i].next = T.node[i].next
                             /\ U.node[i].prev = T.node[i].prev
                             /\ U.node[i].arr = T.node[i].arr
    BY <2>2, <1>13
  <2>4. LeavesKept(T, U, R, R)
    BY <2>1, <2>3, SameLeaves
  <2>  QED
    BY <2>4, <1>2 DEF LeavesKept
<1>35. FramesOK(U, t, L)
  <2>  SUFFICES ASSUME NEW j \in 1 .. m - 1
                PROVE  /\ t[j].node \in D /\ L[t[j].node] = j
                       /\ t[j].child \in D /\ L[t[j].child] = j - 1
                       /\ t[j].right # 0
                       /\ t[j].right \in D /\ L[t[j].right] = j
                       /\ t[j].key # t[j].mid /\ Len(U.node[Half(t[j])].arr) < MaxKeys
    BY <1>4, <1>13 DEF FramesOK
  <2>1. t[j] = s[j] /\ j \in 1 .. m /\ j # m
    BY <1>4
  <2>2. Half(s[j]) \in D /\ Half(s[j]) # h
    BY <2>1, <1>5, <1>6
  <2>3. U.node[Half(s[j])].arr = T.node[Half(s[j])].arr
    BY <2>2, <1>13
  <2>4. /\ s[j].node \in D /\ L[s[j].node] = j
        /\ s[j].child \in D /\ L[s[j].child] = j - 1 /\ s[j].right # 0
    BY <2>1, <1>1, <1>2 DEF FramesOK
  <2>5. /\ s[j].right \in D /\ L[s[j].right] = j
        /\ s[j].key # s[j].mid /\ Len(T.node[Half(s[j])].arr) < MaxKeys
    BY <2>1, <2>4, <1>1, <1>2 DEF FramesOK
  <2>  QED
    BY <2>1, <2>3, <2>4, <2>5
<1>  QED
  BY <1>1, <1>7, <1>13, <1>29, <1>30, <1>31, <1>32, <1>33, <1>34, <1>35 DEF TreeOK

-----------------------------------------------------------------------------
(***************************************************************************)
(* leaf_node_t::split                                                      *)
(***************************************************************************)
\* Appending an element keeps the others.
LEMMA AppendRight ==
  ASSUME NEW S, NEW s \in Seq(S), NEW e \in S
  PROVE  /\ Len(s) \in Nat /\ DOMAIN s = 1 .. Len(s) /\ Len(s) + 1 \notin DOMAIN s
         /\ Append(s, e) \in Seq(S) /\ Len(Append(s, e)) = Len(s) + 1
         /\ DOMAIN Append(s, e) = DOMAIN s \cup {Len(s) + 1}
         /\ \A i \in DOMAIN s : Append(s, e)[i] = s[i]
         /\ Append(s, e)[Len(s) + 1] = e
<1>1. Len(s) \in Nat /\ DOMAIN s = 1 .. Len(s)
  OBVIOUS
<1>2. /\ Append(s, e) \in Seq(S) /\ Len(Append(s, e)) = Len(s) + 1
      /\ DOMAIN Append(s, e) = 1 .. Len(s) + 1
      /\ Append(s, e)[Len(s) + 1] = e /\ \A i \in 1 .. Len(s) : Append(s, e)[i] = s[i]
  BY <1>1
<1>3. 1 .. Len(s) + 1 = (1 .. Len(s)) \cup {Len(s) + 1} /\ Len(s) + 1 \notin 1 .. Len(s)
  BY <1>1
<1>  QED
  BY <1>1, <1>2, <1>3

\* The ranges after node n was split at key mid, and r is the new node.
RangesSplit(R, n, mid, r, R2) ==
  /\ R2 \in Seq(SUBSET Keys) /\ Len(R2) = Len(R) + 1 /\ DOMAIN R2 = DOMAIN R \cup {r}
  /\ R2[n] = {k \in R[n] : k < mid} /\ R2[r] = {k \in R[n] : k >= mid}
  /\ \A i \in DOMAIN R \ {n} : R2[i] = R[i]

\* RangeSplit divides a range as RangesSplit says.
LEMMA RangeSplitRight ==
  ASSUME NEW R \in Seq(SUBSET Keys), NEW n \in DOMAIN R, NEW mid, NEW R2,
         R2 = Append([R EXCEPT ![n] = {k \in R[n] : k < mid}], {k \in R[n] : k >= mid})
  PROVE  RangesSplit(R, n, mid, Len(R) + 1, R2)
<1>1. PICK A, lo, hi : A = SUBSET Keys /\ lo = {k \in R[n] : k < mid} /\ hi = {k \in R[n] : k >= mid}
  OBVIOUS
<1>2. /\ R \in Seq(A) /\ Len(R) \in Nat /\ DOMAIN R = 1 .. Len(R)
      /\ \A i \in 1 .. Len(R) : R[i] \in A
  BY <1>1
<1>3. R[n] \in A
  BY <1>2
<1>4. lo \in A /\ hi \in A
  BY <1>1, <1>3
<1>5. PICK Q : Q = [R EXCEPT ![n] = lo]
  OBVIOUS
<1>6. Q = [i \in 1 .. Len(R) |-> IF i = n THEN lo ELSE R[i]]
  BY <1>2, <1>5
<1>7. Q = [i \in 1 .. Len(R) |-> Q[i]] /\ \A i \in 1 .. Len(R) : Q[i] \in A
  BY <1>2, <1>4, <1>6
<1>8. Q \in Seq(A) /\ Len(Q) = Len(R) /\ DOMAIN Q = 1 .. Len(R)
  BY <1>2, <1>7, NodeList
<1>9. R2 = Append(Q, hi)
  BY <1>1, <1>5
<1>10. /\ R2 \in Seq(A) /\ Len(R2) = Len(Q) + 1 /\ Len(Q) + 1 \notin DOMAIN Q
       /\ DOMAIN R2 = DOMAIN Q \cup {Len(Q) + 1}
       /\ (\A i \in DOMAIN Q : R2[i] = Q[i]) /\ R2[Len(Q) + 1] = hi
  <2>1. hi \in A /\ Q \in Seq(A)
    BY <1>4, <1>8
  <2>2. /\ Append(Q, hi) \in Seq(A) /\ Len(Append(Q, hi)) = Len(Q) + 1
        /\ Len(Q) + 1 \notin DOMAIN Q /\ DOMAIN Append(Q, hi) = DOMAIN Q \cup {Len(Q) + 1}
        /\ (\A i \in DOMAIN Q : Append(Q, hi)[i] = Q[i]) /\ Append(Q, hi)[Len(Q) + 1] = hi
    BY <2>1, AppendRight
  <2>  QED
    BY <2>2, <1>9
<1>11. Q[n] = lo /\ \A i \in DOMAIN R \ {n} : Q[i] = R[i]
  BY <1>2, <1>6
<1>12. R2[n] = lo /\ R2[Len(R) + 1] = hi /\ \A i \in DOMAIN R \ {n} : R2[i] = R[i]
  BY <1>2, <1>8, <1>10, <1>11
<1>  QED
  BY <1>1, <1>2, <1>8, <1>10, <1>12 DEF RangesSplit

\* The tree U is T after leaf n was split and leaf r came behind it.
LeafWasSplit(T, n, r, U) ==
  /\ U = [node |-> U.node, count |-> U.count, root |-> T.root, sane |-> T.sane]
  /\ U.node \in Seq(Nodes) /\ Len(U.node) = Len(T.node) + 1
  /\ DOMAIN U.node = DOMAIN T.node \cup {r} /\ r \notin DOMAIN T.node
  /\ r \in Nat /\ r # 0
  /\ \A i \in DOMAIN T.node :
       /\ U.node[i].leaf = T.node[i].leaf /\ U.node[i].left = T.node[i].left
       /\ U.node[i].parent = T.node[i].parent
       /\ U.node[i].arr = IF i = n THEN LeftHalf(T.node[n].arr) ELSE T.node[i].arr
       /\ U.node[i].next = IF i = n THEN r ELSE T.node[i].next
       /\ U.node[i].prev = IF i # n /\ i = T.node[n].next THEN r ELSE T.node[i].prev
  /\ U.node[r].leaf = TRUE /\ U.node[r].left = 0 /\ U.node[r].parent = 0
  /\ U.node[r].arr = RightHalf(T.node[n].arr)
  /\ U.node[r].next = T.node[n].next /\ U.node[r].prev = n

\* leaf_node_t::split makes the nodes that LeafWasSplit describes.
LEMMA LeafSplitRight ==
  ASSUME NEW T, NEW R, NEW L, TreeTypes(T, R, L), NEW n \in DOMAIN T.node,
         is_full(T.node[n].arr)
  PROVE  LeafWasSplit(T, n, Len(T.node) + 1, LeafSplit(T, n))
<1>1. PICK ns, r, old : ns = T.node /\ r = Len(T.node) + 1 /\ old = T.node[n]
  OBVIOUS
<1>2. ns \in Seq(Nodes) /\ n \in DOMAIN ns
  BY <1>1 DEF TreeTypes
<1>3. Len(ns) \in Nat /\ DOMAIN ns = 1 .. Len(ns) /\ \A i \in 1 .. Len(ns) : ns[i] \in Nodes
  BY <1>2
<1>4. n \in Nat /\ r \in Nat /\ r # 0 /\ old \in Nodes /\ r = Len(ns) + 1
  BY <1>1, <1>2, <1>3
<1>5. PICK lo, hi : lo = LeftHalf(old.arr) /\ hi = RightHalf(old.arr)
  OBVIOUS
<1>6. lo \in Arrays(Vals \cup Nat) /\ hi \in Arrays(Vals \cup Nat)
  BY <1>1, <1>4, <1>5, NodeFields, HalfFacts
<1>7. PICK x, y : x = [old EXCEPT !.arr = lo, !.next = r] /\ y = Leaf(hi, n, old.next)
  OBVIOUS
<1>8. /\ old = [leaf |-> old.leaf, arr |-> old.arr, left |-> old.left, parent |-> old.parent,
                prev |-> old.prev, next |-> old.next]
      /\ old.leaf \in BOOLEAN /\ old.left \in Nat /\ old.parent \in Nat
      /\ old.prev \in Nat /\ old.next \in Nat
  BY <1>4, NodeFields
<1>9. x = [leaf |-> old.leaf, arr |-> lo, left |-> old.left, parent |-> old.parent,
           prev |-> old.prev, next |-> r]
  BY <1>7, <1>8
<1>10. y = [leaf |-> TRUE, arr |-> hi, left |-> 0, parent |-> 0, prev |-> n,
            next |-> old.next]
  BY <1>7 DEF Leaf
<1>11. x \in Nodes /\ y \in Nodes
  BY <1>4, <1>6, <1>8, <1>9, <1>10 DEF Nodes
<1>12. PICK ms : ms = [i \in DOMAIN ns |->
                         IF i = n THEN x
                         ELSE IF i = old.next THEN [ns[i] EXCEPT !.prev = r] ELSE ns[i]]
  OBVIOUS
<1>13. ASSUME NEW i \in 1 .. Len(ns)
       PROVE  /\ ms[i] \in Nodes
              /\ ms[i].leaf = ns[i].leaf /\ ms[i].left = ns[i].left
              /\ ms[i].parent = ns[i].parent
              /\ ms[i].arr = IF i = n THEN lo ELSE ns[i].arr
              /\ ms[i].next = IF i = n THEN r ELSE ns[i].next
              /\ ms[i].prev = IF i # n /\ i = old.next THEN r ELSE ns[i].prev
  <2>1. CASE i = n
    <3>1. ms[i] = x /\ ns[i] = old
      BY <2>1, <1>1, <1>3, <1>12
    <3>  QED
      BY <2>1, <3>1, <1>9, <1>11
  <2>2. CASE i # n /\ i # old.next
    <3>1. ms[i] = ns[i]
      BY <2>2, <1>3, <1>12
    <3>  QED
      BY <2>2, <3>1, <1>3
  <2>3. CASE i # n /\ i = old.next
    <3>1. ms[i] = [ns[i] EXCEPT !.prev = r]
      BY <2>3, <1>3, <1>12
    <3>2. /\ ns[i] = [leaf |-> ns[i].leaf, arr |-> ns[i].arr, left |-> ns[i].left,
                      parent |-> ns[i].parent, prev |-> ns[i].prev, next |-> ns[i].next]
          /\ ns[i].leaf \in BOOLEAN /\ ns[i].arr \in Arrays(Vals \cup Nat)
          /\ ns[i].left \in Nat /\ ns[i].parent \in Nat /\ ns[i].next \in Nat
      BY <1>3, NodeFields
    <3>3. ms[i] = [leaf |-> ns[i].leaf, arr |-> ns[i].arr, left |-> ns[i].left,
                   parent |-> ns[i].parent, prev |-> r, next |-> ns[i].next]
      BY <3>1, <3>2
    <3>4. ms[i] \in Nodes
      BY <3>2, <3>3, <1>4 DEF Nodes
    <3>  QED
      BY <2>3, <3>3, <3>4
  <2>  QED
    BY <2>1, <2>2, <2>3
<1>14. ms = [i \in 1 .. Len(ns) |-> ms[i]]
  BY <1>3, <1>12
<1>15. ms \in Seq(Nodes) /\ Len(ms) = Len(ns) /\ DOMAIN ms = 1 .. Len(ns)
  BY <1>3, <1>13, <1>14, NodeList
<1>16. PICK qs : qs = Append(ms, y)
  OBVIOUS
<1>17. /\ qs \in Seq(Nodes) /\ Len(qs) = r /\ DOMAIN qs = DOMAIN ms \cup {r}
       /\ r \notin DOMAIN ms /\ (\A i \in DOMAIN ms : qs[i] = ms[i]) /\ qs[r] = y
  BY <1>4, <1>11, <1>15, <1>16, AppendRight
<1>18. PICK U : U = LeafSplit(T, n)
  OBVIOUS
<1>19. U.node = qs /\ U = [node |-> U.node, count |-> U.count, root |-> T.root, sane |-> T.sane]
  <2>1. T = [node |-> T.node, count |-> T.count, root |-> T.root, sane |-> T.sane]
    BY DEF TreeTypes
  <2>2. PICK c : U = [T EXCEPT !.node = qs, !.count = c]
    <3>1. PICK c : c = Append([T.count EXCEPT ![n] = Len(LeftHalf(T.node[n].arr))],
                              Len(RightHalf(T.node[n].arr)))
      OBVIOUS
    <3>2. U = [T EXCEPT !.node = qs, !.count = c]
      BY <3>1, <1>1, <1>5, <1>7, <1>12, <1>16, <1>18 DEF LeafSplit
    <3>  QED
      BY <3>2
  <2>3. U = [node |-> qs, count |-> c, root |-> T.root, sane |-> T.sane]
    BY <2>1, <2>2
  <2>  QED
    BY <2>3
<1>20. /\ qs[r].leaf = TRUE /\ qs[r].left = 0 /\ qs[r].parent = 0 /\ qs[r].arr = hi
       /\ qs[r].next = old.next /\ qs[r].prev = n
  BY <1>10, <1>17
<1>21. ASSUME NEW i \in DOMAIN ns
       PROVE  /\ qs[i].leaf = ns[i].leaf /\ qs[i].left = ns[i].left
              /\ qs[i].parent = ns[i].parent
              /\ qs[i].arr = IF i = n THEN lo ELSE ns[i].arr
              /\ qs[i].next = IF i = n THEN r ELSE ns[i].next
              /\ qs[i].prev = IF i # n /\ i = old.next THEN r ELSE ns[i].prev
  BY <1>3, <1>13, <1>15, <1>17
<1>22. /\ U.node \in Seq(Nodes) /\ Len(U.node) = Len(T.node) + 1
       /\ DOMAIN U.node = DOMAIN T.node \cup {r} /\ r \notin DOMAIN T.node
  BY <1>1, <1>3, <1>15, <1>17, <1>19
<1>23. LeafWasSplit(T, n, r, U)
  BY <1>1, <1>4, <1>5, <1>19, <1>20, <1>21, <1>22 DEF LeafWasSplit
<1>  QED
  BY <1>1, <1>18, <1>23

\* The new leaf is linked in behind the one that was split.
LEMMA SplitChain ==
  ASSUME NEW T, NEW R, NEW n \in Leaves(T), NEW r, NEW U, LeafWasSplit(T, n, r, U),
         ChainOK(T, R), NEW mid \in Int, NEW R2, RangesSplit(R, n, mid, r, R2),
         DOMAIN R = DOMAIN T.node, \A i \in Leaves(T) : R[i] \subseteq Int /\ R[i] # {},
         \A i, j \in Leaves(T) : i # j => BeforeIn(R, i, j) \/ BeforeIn(R, j, i)
  PROVE  ChainOK(U, R2)
<1>1. PICK ls, D, nx : ls = Leaves(T) /\ D = DOMAIN T.node /\ nx = T.node[n].next
  OBVIOUS
<1>2. n \in ls /\ ls \subseteq D /\ T.node[n].leaf /\ r \notin D /\ r \notin ls /\ r # 0 /\ n # r
  BY <1>1 DEF Leaves, Addresses, LeafWasSplit
<1>3. Leaves(U) = ls \cup {r}
  BY <1>1 DEF Leaves, Addresses, LeafWasSplit
<1>4. /\ U.node[n].next = r /\ U.node[n].prev = T.node[n].prev
      /\ U.node[r].next = nx /\ U.node[r].prev = n
      /\ \A i \in ls \ {n} : /\ U.node[i].next = T.node[i].next
                             /\ U.node[i].prev = IF i = nx THEN r ELSE T.node[i].prev
  BY <1>1, <1>2 DEF LeafWasSplit
<1>5. ASSUME NEW i \in ls
      PROVE  /\ IF T.node[i].next = 0 THEN \A j \in ls \ {i} : BeforeIn(R, j, i)
                ELSE /\ T.node[i].next \in ls /\ T.node[T.node[i].next].prev = i
                     /\ BeforeIn(R, i, T.node[i].next)
                     /\ \A j \in ls \ {i, T.node[i].next} :
                          BeforeIn(R, j, i) \/ BeforeIn(R, T.node[i].next, j)
             /\ IF T.node[i].prev = 0 THEN \A j \in ls \ {i} : BeforeIn(R, i, j)
                ELSE T.node[i].prev \in ls /\ T.node[T.node[i].prev].next = i
  BY <1>1 DEF ChainOK
\* The order of the leaves.
<1>6. /\ \A i \in ls \ {n} : R2[i] = R[i]
      /\ R2[n] = {k \in R[n] : k < mid} /\ R2[r] = {k \in R[n] : k >= mid}
  BY <1>1, <1>2 DEF RangesSplit
<1>7. BeforeIn(R2, n, r)
  BY <1>1, <1>2, <1>6 DEF BeforeIn
<1>8. \A i, j \in ls : BeforeIn(R, i, j) => BeforeIn(R2, i, j)
  <2>1. \A i \in ls : R2[i] \subseteq R[i]
    BY <1>6
  <2>  QED
    BY <2>1 DEF BeforeIn
<1>9. \A j \in ls : /\ BeforeIn(R, n, j) => BeforeIn(R2, r, j)
                    /\ BeforeIn(R, j, n) => BeforeIn(R2, j, r)
  <2>1. (\A i \in ls : R2[i] \subseteq R[i]) /\ R2[r] \subseteq R[n]
    BY <1>6
  <2>  QED
    BY <2>1 DEF BeforeIn
<1>10. ASSUME NEW i \in ls PROVE ~BeforeIn(R, i, i)
  <2>1. PICK k \in R[i] : k \in Int
    BY <1>1
  <2>  QED
    BY <2>1 DEF BeforeIn
<1>11. nx # n /\ T.node[n].prev # n
  <2>1. nx # n
    <3>1. nx # 0 => BeforeIn(R, n, nx)
      BY <1>1, <1>2, <1>5
    <3>2. CASE nx = 0
      <4>1. n # 0
        BY <1>2, <1>1 DEF LeafWasSplit
      <4>  QED
        BY <3>2, <4>1
    <3>  QED
      BY <3>1, <3>2, <1>2, <1>10
  <2>2. T.node[n].prev # 0 => T.node[T.node[n].prev].next = n
    BY <1>1, <1>2, <1>5
  <2>3. n # 0
    BY <1>2, <1>1 DEF LeafWasSplit
  <2>  QED
    BY <2>1, <2>2, <2>3, <1>1
<1>12. ASSUME NEW i \in Leaves(U)
       PROVE  IF U.node[i].next = 0 THEN \A j \in Leaves(U) \ {i} : BeforeIn(R2, j, i)
              ELSE /\ U.node[i].next \in Leaves(U) /\ U.node[U.node[i].next].prev = i
                   /\ BeforeIn(R2, i, U.node[i].next)
                   /\ \A j \in Leaves(U) \ {i, U.node[i].next} :
                        BeforeIn(R2, j, i) \/ BeforeIn(R2, U.node[i].next, j)
  <2>1. CASE i = n
    <3>1. U.node[i].next = r /\ r # 0 /\ r \in Leaves(U) /\ U.node[r].prev = i
          /\ BeforeIn(R2, i, r)
      BY <2>1, <1>2, <1>3, <1>4, <1>7
    <3>2. ASSUME NEW j \in Leaves(U) \ {i, r} PROVE BeforeIn(R2, j, i) \/ BeforeIn(R2, r, j)
      <4>1. j \in ls /\ j # n
        BY <2>1, <1>3
      <4>2. BeforeIn(R, n, j) \/ BeforeIn(R, j, n)
        BY <4>1, <1>1, <1>2
      <4>  QED
        BY <4>1, <4>2, <2>1, <1>2, <1>8, <1>9
    <3>  QED
      BY <3>1, <3>2
  <2>2. CASE i = r /\ nx = 0
    <3>1. U.node[i].next = 0
      BY <2>2, <1>4
    <3>2. \A j \in ls \ {n} : BeforeIn(R, j, n)
      BY <2>2, <1>1, <1>2, <1>5
    <3>3. \A j \in ls \ {n} : BeforeIn(R2, j, r)
      BY <3>2, <1>9
    <3>  QED
      BY <2>2, <3>1, <3>3, <1>3, <1>7
  <2>3. CASE i = r /\ nx # 0
    <3>1. /\ nx \in ls /\ BeforeIn(R, n, nx)
          /\ \A j \in ls \ {n, nx} : BeforeIn(R, j, n) \/ BeforeIn(R, nx, j)
      BY <2>3, <1>1, <1>2, <1>5
    <3>2. U.node[i].next = nx /\ nx \in Leaves(U) /\ U.node[nx].prev = r /\ BeforeIn(R2, r, nx)
      BY <2>3, <3>1, <1>3, <1>4, <1>9, <1>11
    <3>3. ASSUME NEW j \in Leaves(U) \ {r, nx} PROVE BeforeIn(R2, j, r) \/ BeforeIn(R2, nx, j)
      <4>1. CASE j = n
        BY <4>1, <1>7
      <4>2. CASE j # n
        <5>1. j \in ls \ {n, nx}
          BY <4>2, <1>3
        <5>  QED
          BY <5>1, <3>1, <1>8, <1>9
      <4>  QED
        BY <4>1, <4>2
    <3>  QED
      BY <2>3, <3>2, <3>3
  <2>4. CASE i \in ls \ {n} /\ T.node[i].next = 0
    <3>1. U.node[i].next = 0 /\ \A j \in ls \ {i} : BeforeIn(R, j, i)
      BY <2>4, <1>4, <1>5
    <3>2. BeforeIn(R2, r, i)
      BY <2>4, <3>1, <1>2, <1>9
    <3>3. \A j \in ls \ {i} : BeforeIn(R2, j, i)
      BY <2>4, <3>1, <1>8
    <3>  QED
      BY <3>1, <3>2, <3>3, <1>3
  <2>5. CASE i \in ls \ {n} /\ T.node[i].next # 0
    <3>1. PICK m : m = T.node[i].next
      OBVIOUS
    <3>2. /\ m \in ls /\ T.node[m].prev = i /\ BeforeIn(R, i, m)
          /\ \A j \in ls \ {i, m} : BeforeIn(R, j, i) \/ BeforeIn(R, m, j)
      BY <2>5, <3>1, <1>5
    <3>3. m # nx
      <4>1. nx # 0 => T.node[nx].prev = n
        BY <1>1, <1>2, <1>5
      <4>  QED
        BY <4>1, <2>5, <3>1, <3>2
    <3>4. U.node[i].next = m /\ m # 0 /\ m \in Leaves(U) /\ U.node[m].prev = i
          /\ BeforeIn(R2, i, m)
      <4>1. U.node[m].prev = T.node[m].prev
        BY <3>2, <3>3, <1>4
      <4>  QED
        BY <4>1, <2>5, <3>1, <3>2, <1>3, <1>4, <1>8
    <3>5. ASSUME NEW j \in Leaves(U) \ {i, m} PROVE BeforeIn(R2, j, i) \/ BeforeIn(R2, m, j)
      <4>1. CASE j \in ls
        BY <4>1, <2>5, <3>2, <1>8
      <4>2. CASE j = r /\ m = n
        BY <4>2, <1>7
      <4>3. CASE j = r /\ m # n
        <5>1. BeforeIn(R, n, i) \/ BeforeIn(R, m, n)
          BY <4>3, <2>5, <3>2, <1>2
        <5>  QED
          BY <4>3, <5>1, <2>5, <3>2, <1>9
      <4>  QED
        BY <4>1, <4>2, <4>3, <1>3
    <3>  QED
      BY <3>4, <3>5
  <2>  QED
    BY <2>1, <2>2, <2>3, <2>4, <2>5, <1>3
<1>13. ASSUME NEW i \in Leaves(U)
       PROVE  IF U.node[i].prev = 0 THEN \A j \in Leaves(U) \ {i} : BeforeIn(R2, i, j)
              ELSE U.node[i].prev \in Leaves(U) /\ U.node[U.node[i].prev].next = i
  <2>1. CASE i = r
    <3>1. n # 0
      BY <1>1, <1>2 DEF LeafWasSplit
    <3>  QED
      BY <3>1, <2>1, <1>2, <1>3, <1>4
  <2>2. CASE i = nx /\ i # r
    <3>1. i \in ls \ {n}
      BY <2>2, <1>3, <1>11
    <3>2. U.node[i].prev = r /\ U.node[r].next = i
      BY <2>2, <3>1, <1>4
    <3>  QED
      BY <3>2, <1>2, <1>3
  <2>3. CASE i \in ls /\ i # nx /\ T.node[i].prev = 0
    <3>1. U.node[i].prev = 0
      BY <2>3, <1>4
    <3>2. \A j \in ls \ {i} : BeforeIn(R, i, j)
      BY <2>3, <1>5
    <3>3. \A j \in ls \ {i} : BeforeIn(R2, i, j)
      BY <2>3, <3>2, <1>8
    <3>4. BeforeIn(R2, i, r)
      BY <2>3, <3>2, <1>2, <1>7, <1>9
    <3>  QED
      BY <3>1, <3>3, <3>4, <1>3
  <2>4. CASE i \in ls /\ i # nx /\ T.node[i].prev # 0
    <3>1. PICK m : m = T.node[i].prev
      OBVIOUS
    <3>2. m \in ls /\ T.node[m].next = i /\ U.node[i].prev = m
      BY <2>4, <3>1, <1>4, <1>5
    <3>3. m # n
      BY <3>2, <2>4, <1>1
    <3>  QED
      BY <2>4, <3>1, <3>2, <3>3, <1>3, <1>4
  <2>  QED
    BY <2>1, <2>2, <2>3, <2>4, <1>3
<1>  QED
  BY <1>12, <1>13 DEF ChainOK

\* A frame for a node that was not split yet.
FrameIsFresh(f, n, k, c) ==
  /\ f \in FrameSet /\ Half(f) = n
  /\ f.node = n /\ f.key = k /\ f.child = c /\ f.right = 0

\* A new activation has not split its node.
LEMMA FreshFrame ==
  ASSUME NEW n \in Nat, NEW k \in Int, NEW c \in Nat
  PROVE  FrameIsFresh(Frame(n, k, c), n, k, c)
<1>1. PICK f : f = Frame(n, k, c)
  OBVIOUS
<1>2. f = [node |-> n, key |-> k, child |-> c, right |-> 0, mid |-> 0]
  BY <1>1 DEF Frame
<1>3. FrameIsFresh(f, n, k, c)
  BY <1>2 DEF FrameSet, Half, FrameIsFresh
<1>  QED
  BY <1>1, <1>3

\* The ranges of different leaves are ordered.
LEMMA LeavesOrdered ==
  ASSUME NEW T, NEW s, NEW R, NEW L, TreeOK(T, s, R, L)
  PROVE  /\ \A i \in Leaves(T) : R[i] \subseteq Int /\ R[i] # {} /\ L[i] = 0 /\ i \in DOMAIN T.node
         /\ \A i, j \in Leaves(T) : i # j => BeforeIn(R, i, j) \/ BeforeIn(R, j, i)
<1>1. Shape(DOMAIN T.node, LeafOf(T), LeftOf(T), EntriesOf(T, s), R, L)
  BY DEF TreeOK, ShapeOK
<1>2. ASSUME NEW i \in Leaves(T)
      PROVE  R[i] \subseteq Keys /\ R[i] # {} /\ L[i] = 0 /\ i \in DOMAIN T.node
  <2>1. i \in DOMAIN T.node /\ LeafOf(T)[i]
    BY DEF Leaves, Addresses, LeafOf
  <2>  QED
    BY <2>1, <1>1 DEF Shape
<1>3. ASSUME NEW i \in Leaves(T), NEW j \in Leaves(T), i # j
      PROVE  BeforeIn(R, i, j) \/ BeforeIn(R, j, i)
  <2>1. Apart(R[i], R[j])
    BY <1>1, <1>2, <1>3 DEF Shape
  <2>  QED
    BY <2>1 DEF Apart, BeforeIn
<1>  QED
  BY <1>2, <1>3, TreeAssumption

\* The levels with one of a new node r.
LevelsGrown(L, r, l, L2) ==
  L2 \in Seq(Nat) /\ Len(L2) = Len(L) + 1 /\ L2[r] = l /\ \A i \in DOMAIN L : L2[i] = L[i]

\* Appending a level.
LEMMA GrowLevels ==
  ASSUME NEW L \in Seq(Nat), NEW l \in Nat
  PROVE  LevelsGrown(L, Len(L) + 1, l, Append(L, l))
BY AppendRight DEF LevelsGrown

\* What the split of leaf n at key mid leaves behind.
LeafSplitDone(T, n, mid, R, L, U, R2, L2) ==
  /\ TreeOK(U, <<Frame(T.node[n].parent, mid, Len(T.node) + 1)>>, R2, L2)
  /\ LeafEntries(U) = LeafEntries(T)
  /\ n \in Leaves(U) /\ Len(T.node) + 1 \in Leaves(U)
  /\ HasRoom(U, n) /\ HasRoom(U, Len(T.node) + 1)
  /\ R2[n] = {k \in R[n] : k < mid} /\ R2[Len(T.node) + 1] = {k \in R[n] : k >= mid}
  /\ mid \in Int

\* The split of a leaf, of which the parts are as described, keeps the tree in order.
LEMMA LeafSplitKeeps ==
  ASSUME NEW T, NEW R, NEW L, TreeOK(T, <<>>, R, L), NEW n \in Leaves(T), ~HasRoom(T, n),
         NEW U, LeafWasSplit(T, n, Len(T.node) + 1, U),
         NEW mid, LeafHalvesRight(T.node[n].arr, mid),
         NEW R2, RangesSplit(R, n, mid, Len(T.node) + 1, R2),
         NEW L2, LevelsGrown(L, Len(T.node) + 1, 0, L2)
  PROVE  LeafSplitDone(T, n, mid, R, L, U, R2, L2)
<1>1. PICK D, r, p, a, s2 : /\ D = DOMAIN T.node /\ r = Len(T.node) + 1
                            /\ p = T.node[n].parent /\ a = T.node[n].arr
                            /\ s2 = <<Frame(p, mid, r)>>
  OBVIOUS
<1>2. /\ TreeTypes(T, R, L) /\ ArraysOK(T) /\ ShapeOK(T, <<>>, R, L) /\ RootOK(T, R, L)
      /\ LinksOK(T, <<>>) /\ ChainOK(T, R)
  BY DEF TreeOK
<1>3. /\ T.node \in Seq(Nodes) /\ R \in Seq(SUBSET Keys) /\ L \in Seq(Nat)
      /\ Len(R) = Len(T.node) /\ Len(L) = Len(T.node)
  BY <1>2 DEF TreeTypes
<1>4. Len(T.node) \in Nat /\ D = 1 .. Len(T.node) /\ DOMAIN R = D /\ DOMAIN L = D /\ r \in Nat
  BY <1>1, <1>3
<1>5. n \in D /\ T.node[n].leaf /\ L[n] = 0
  BY <1>1, LeavesOrdered DEF Leaves, Addresses
<1>6. a \in Arrays(Vals \cup Nat) /\ Ascending(a) /\ is_full(a)
      /\ ToSet(a) \subseteq [key : Keys, data : Vals] /\ \A e \in ToSet(a) : e.key \in R[n]
  BY <1>1, EntriesOfLeaf DEF HasRoom
<1>7. LeafHalvesRight(a, mid)
  BY <1>1
<1>8. LeafWasSplit(T, n, r, U)
  BY <1>1
<1>9. RangesSplit(R, n, mid, r, R2)
  BY <1>1
<1>10. /\ L2 \in Seq(Nat) /\ Len(L2) = Len(L) + 1 /\ L2[r] = 0 /\ \A i \in D : L2[i] = L[i]
  BY <1>1, <1>4 DEF LevelsGrown
<1>11. /\ U = [node |-> U.node, count |-> U.count, root |-> T.root, sane |-> T.sane]
       /\ U.node \in Seq(Nodes) /\ Len(U.node) = Len(T.node) + 1
       /\ DOMAIN U.node = D \cup {r} /\ r \notin D /\ r # 0
  BY <1>1, <1>8 DEF LeafWasSplit
<1>12. /\ \A i \in D :
            /\ U.node[i].leaf = T.node[i].leaf /\ U.node[i].left = T.node[i].left
            /\ U.node[i].parent = T.node[i].parent
            /\ U.node[i].arr = IF i = n THEN LeftHalf(a) ELSE T.node[i].arr
       /\ U.node[r].leaf = TRUE /\ U.node[r].parent = 0 /\ U.node[r].arr = RightHalf(a)
  BY <1>1, <1>8 DEF LeafWasSplit
<1>13. U.root = T.root /\ U.sane = T.sane
  BY <1>11
\* The parent.
<1>14. T.root \in D /\ R[T.root] = Keys /\ L[T.root] >= 1 /\ \A i \in D : L[i] <= L[T.root]
  BY <1>1, <1>2 DEF RootOK
<1>15. n # T.root
  BY <1>5, <1>14
<1>16. ToSet(<<>>) = {}
  BY DEF ToSet
<1>17. p # 0 /\ p \in D /\ ~T.node[p].leaf /\ HangsIn(T, p, n)
  BY <1>1, <1>2, <1>5, <1>15, <1>16 DEF LinksOK
<1>18. n # p
  BY <1>5, <1>17
<1>19. mid \in Int
  BY <1>7 DEF LeafHalvesRight
\* The new frame.
<1>20. PICK f : f = Frame(p, mid, r)
  OBVIOUS
<1>21. f \in FrameSet /\ Half(f) = p /\ f.node = p /\ f.key = mid /\ f.child = r /\ f.right = 0
  <2>1. p \in Nat
    BY <1>4, <1>17
  <2>2. FrameIsFresh(Frame(p, mid, r), p, mid, r)
    BY <2>1, <1>4, <1>19, FreshFrame
  <2>  QED
    BY <2>2, <1>20 DEF FrameIsFresh
<1>22. /\ s2 = <<f>> /\ s2 \in Seq(FrameSet) /\ Len(s2) = 1 /\ s2[1] = f /\ DOMAIN s2 = {1}
       /\ ToSet(s2) = {f}
  <2>1. s2 = <<f>>
    BY <1>1, <1>20
  <2>2. s2 \in Seq(FrameSet) /\ Len(s2) = 1 /\ s2[1] = f /\ DOMAIN s2 = 1 .. 1
    BY <2>1, <1>21
  <2>3. 1 .. 1 = {1}
    OBVIOUS
  <2>  QED
    BY <2>1, <2>2, <2>3 DEF ToSet
<1>23. PendingOf(s2, p) = {Entry(mid, r)} /\ \A i \in (D \cup {r}) \ {p} : PendingOf(s2, i) = {}
  BY <1>21, <1>22 DEF PendingOf
<1>24. \A i : PendingOf(<<>>, i) = {}
  BY <1>16 DEF PendingOf
\* The shape.
<1>25. PICK lf, lt, E, lf2, lt2, E2 :
         /\ lf = LeafOf(T) /\ lt = LeftOf(T) /\ E = EntriesOf(T, <<>>)
         /\ lf2 = LeafOf(U) /\ lt2 = LeftOf(U) /\ E2 = EntriesOf(U, s2)
  OBVIOUS
<1>26. \A i \in D : lf[i] = T.node[i].leaf /\ lt[i] = T.node[i].left /\ E[i] = ToSet(T.node[i].arr)
  BY <1>1, <1>24, <1>25 DEF LeafOf, LeftOf, EntriesOf
<1>27. /\ \A i \in D \cup {r} : /\ lf2[i] = U.node[i].leaf /\ lt2[i] = U.node[i].left
                               /\ E2[i] = ToSet(U.node[i].arr) \cup PendingOf(s2, i)
  BY <1>11, <1>25 DEF LeafOf, LeftOf, EntriesOf
<1>28. Shape(D, lf, lt, E, R, L)
  BY <1>1, <1>2, <1>25 DEF ShapeOK
<1>29. SplitsInto(D, lf, lt, E, R, L, lf2, lt2, E2, R2, L2, n, r, p, mid)
  <2>1. \A i \in D : lf2[i] = lf[i] /\ lt2[i] = lt[i] /\ L2[i] = L[i]
    BY <1>10, <1>12, <1>26, <1>27
  <2>2. lf2[r] = lf[n] /\ L2[r] = L[n] /\ lf[n]
    BY <1>5, <1>10, <1>12, <1>26, <1>27
  <2>3. /\ \A i \in D \ {n} : R2[i] = R[i]
        /\ R2[n] = {k \in R[n] : k < mid} /\ R2[r] = {k \in R[n] : k >= mid}
    BY <1>4, <1>9 DEF RangesSplit
  <2>4. ASSUME NEW i \in D \ {n, p} PROVE E2[i] = E[i]
    <3>1. U.node[i].arr = T.node[i].arr /\ PendingOf(s2, i) = {}
      BY <1>12, <1>23
    <3>  QED
      BY <3>1, <1>26, <1>27
  <2>5. E2[p] = E[p] \cup {Entry(mid, r)}
    BY <1>12, <1>17, <1>18, <1>23, <1>26, <1>27
  <2>6. E2[n] = {e \in E[n] : e.key < mid}
    <3>1. E2[n] = ToSet(LeftHalf(a))
      BY <1>5, <1>12, <1>18, <1>23, <1>27
    <3>2. E[n] = ToSet(a)
      BY <1>1, <1>5, <1>26
    <3>  QED
      BY <3>1, <3>2, <1>7 DEF LeafHalvesRight
  <2>7. E2[r] = {e \in E[n] : e.key >= mid}
    <3>1. E2[r] = ToSet(RightHalf(a))
      <4>1. U.node[r].arr = RightHalf(a) /\ PendingOf(s2, r) = {}
        BY <1>11, <1>12, <1>17, <1>23
      <4>  QED
        BY <4>1, <1>27
    <3>2. E[n] = ToSet(a)
      BY <1>1, <1>5, <1>26
    <3>  QED
      BY <3>1, <3>2, <1>7 DEF LeafHalvesRight
  <2>  QED
    BY <2>1, <2>2, <2>3, <2>4, <2>5, <2>6, <2>7 DEF SplitsInto
<1>30. \E low \in R[n] : low < mid
  BY <1>6, <1>7 DEF LeafHalvesRight
<1>31. mid \in R[n]
  BY <1>6, <1>7 DEF LeafHalvesRight
<1>32. n = lt[p] \/ \E e \in E[p] : e.data = n
  BY <1>17, <1>26 DEF HangsIn
<1>33. ~lf[p]
  BY <1>17, <1>26
<1>34. Shape(D \cup {r}, lf2, lt2, E2, R2, L2) /\ L[p] = L[n] + 1
  <2>1. n \in D /\ r \notin D /\ p \in D
    BY <1>5, <1>11, <1>17
  <2>2. SplitKeepsShape(D, lf, lt, E, R, L, lf2, lt2, E2, R2, L2, n, r, p, mid)
    BY <2>1, <1>28, <1>29, <1>30, <1>31, <1>32, <1>33, SplitShape
  <2>  QED
    BY <2>2 DEF SplitKeepsShape
<1>35. ShapeOK(U, s2, R2, L2)
  BY <1>11, <1>25, <1>34 DEF ShapeOK
<1>36. TreeTypes(U, R2, L2)
  <2>1. R2 \in Seq(SUBSET Keys) /\ Len(R2) = Len(R) + 1
    BY <1>9 DEF RangesSplit
  <2>2. T.sane = TRUE
    BY <1>2 DEF TreeTypes
  <2>3. U.node \in Seq(Nodes) /\ Len(U.node) = Len(T.node) + 1
        /\ U = [node |-> U.node, count |-> U.count, root |-> U.root, sane |-> U.sane]
    BY <1>11, <1>13
  <2>  QED
    BY <2>1, <2>2, <2>3, <1>3, <1>10, <1>13 DEF TreeTypes
<1>37. /\ Len(LeftHalf(a)) < MaxKeys /\ Len(RightHalf(a)) < MaxKeys
       /\ Len(LeftHalf(a)) \in Nat /\ Len(RightHalf(a)) \in Nat
  <2>1. Len(a) <= MaxKeys
    BY <1>1, <1>2, <1>5 DEF ArraysOK
  <2>2. LeftHalf(a) \in Arrays(Vals \cup Nat) /\ RightHalf(a) \in Arrays(Vals \cup Nat)
    BY <1>6, HalfFacts
  <2>3. Len(a) \in Nat /\ Len(LeftHalf(a)) \in Nat /\ Len(RightHalf(a)) \in Nat
    BY <1>6, <2>2, ArrayFacts
  <2>4. Len(LeftHalf(a)) < Len(a) /\ Len(RightHalf(a)) < Len(a)
    BY <1>7 DEF LeafHalvesRight
  <2>  QED
    BY <2>1, <2>3, <2>4, SortedArrayAssumption
<1>38. ArraysOK(U)
  <2>  SUFFICES ASSUME NEW i \in D \cup {r}
                PROVE  /\ Ascending(U.node[i].arr) /\ Len(U.node[i].arr) <= MaxKeys
                       /\ U.node[i].leaf => ToSet(U.node[i].arr) \subseteq [key : Keys, data : Vals]
    BY <1>11 DEF ArraysOK
  <2>1. CASE i \in D \ {n}
    <3>1. U.node[i].arr = T.node[i].arr /\ U.node[i].leaf = T.node[i].leaf
      BY <2>1, <1>12
    <3>  QED
      BY <2>1, <3>1, <1>1, <1>2 DEF ArraysOK
  <2>2. ToSet(LeftHalf(a)) \subseteq ToSet(a) /\ ToSet(RightHalf(a)) \subseteq ToSet(a)
        /\ Ascending(LeftHalf(a)) /\ Ascending(RightHalf(a))
    BY <1>7 DEF LeafHalvesRight
  <2>3. CASE i = n
    BY <2>2, <2>3, <1>5, <1>6, <1>12, <1>37, SortedArrayAssumption
  <2>4. CASE i = r
    BY <2>2, <2>4, <1>6, <1>12, <1>37, SortedArrayAssumption
  <2>  QED
    BY <2>1, <2>3, <2>4
<1>39. RootOK(U, R2, L2)
  <2>1. R2[T.root] = Keys
    BY <1>4, <1>9, <1>14, <1>15 DEF RangesSplit
  <2>2. L2[T.root] >= 1 /\ \A i \in D \cup {r} : L2[i] <= L2[T.root]
    <3>1. L2[T.root] = L[T.root] /\ L[T.root] \in Nat
      BY <1>3, <1>4, <1>10, <1>14
    <3>2. \A i \in D : L2[i] <= L2[T.root]
      BY <3>1, <1>10, <1>14
    <3>  QED
      BY <3>1, <3>2, <1>10, <1>14
  <2>  QED
    BY <2>1, <2>2, <1>11, <1>13, <1>14 DEF RootOK
<1>40. LinksOK(U, s2)
  <2>1. ASSUME NEW q \in D, ~U.node[q].leaf
        PROVE  \A i : HangsIn(U, q, i) <=> HangsIn(T, q, i)
    <3>1. q # n
      BY <2>1, <1>5, <1>12
    <3>2. U.node[q].left = T.node[q].left /\ U.node[q].arr = T.node[q].arr
      BY <3>1, <1>12
    <3>  QED
      BY <3>2 DEF HangsIn
  <2>2. ASSUME NEW q \in D, ~U.node[q].leaf PROVE ~HangsIn(T, q, r)
    <3>1. Divides(D, lt, E, R, L, q)
      BY <2>2, <1>12, <1>26, <1>28 DEF Shape
    <3>2. T.node[q].left \in D /\ \A e \in ToSet(T.node[q].arr) : e.data \in D
      BY <3>1, <1>26 DEF Divides
    <3>  QED
      BY <3>2, <1>11 DEF HangsIn
  <2>3. ASSUME NEW q \in D \cup {r}, NEW i \in D \cup {r}, ~U.node[q].leaf, HangsIn(U, q, i)
        PROVE  U.node[i].parent = q
    <3>1. q \in D
      BY <2>3, <1>12
    <3>2. HangsIn(T, q, i) /\ i # r
      BY <3>1, <2>1, <2>2, <2>3
    <3>3. T.node[i].parent = q
      BY <3>1, <3>2, <2>3, <1>1, <1>2, <1>12 DEF LinksOK
    <3>  QED
      BY <3>2, <3>3, <1>12
  <2>4. ASSUME NEW i \in D \cup {r}, U.node[i].parent # 0
        PROVE  LET q == U.node[i].parent IN
                 q \in D \cup {r} /\ ~U.node[q].leaf /\ HangsIn(U, q, i)
    <3>1. i \in D
      BY <2>4, <1>12
    <3>2. PICK q : q = T.node[i].parent
      OBVIOUS
    <3>3. U.node[i].parent = q /\ q # 0
      BY <3>1, <3>2, <2>4, <1>12
    <3>4. q \in D /\ ~T.node[q].leaf /\ HangsIn(T, q, i)
      BY <3>1, <3>2, <3>3, <1>1, <1>2 DEF LinksOK
    <3>  QED
      BY <3>3, <3>4, <2>1, <1>12
  <2>5. ASSUME NEW i \in D \cup {r}
        PROVE  U.node[i].parent = 0 <=> i = U.root \/ \E g \in ToSet(s2) : g.child = i
    <3>1. CASE i = r
      BY <3>1, <1>12, <1>21, <1>22
    <3>2. CASE i \in D
      <4>1. T.node[i].parent = 0 <=> i = T.root
        BY <3>2, <1>1, <1>2, <1>16 DEF LinksOK
      <4>2. ~\E g \in ToSet(s2) : g.child = i
        BY <3>2, <1>11, <1>21, <1>22
      <4>  QED
        BY <3>2, <4>1, <4>2, <1>12, <1>13
    <3>  QED
      BY <3>1, <3>2
  <2>6. DOMAIN U.node = D \cup {r}
    BY <1>11
  <2>  QED
    BY <2>3, <2>4, <2>5, <2>6 DEF LinksOK
<1>41. ChainOK(U, R2)
  <2>1. /\ \A i \in Leaves(T) : R[i] \subseteq Int /\ R[i] # {}
        /\ \A i, j \in Leaves(T) : i # j => BeforeIn(R, i, j) \/ BeforeIn(R, j, i)
    BY LeavesOrdered
  <2>2. DOMAIN R = DOMAIN T.node
    BY <1>1, <1>4
  <2>  QED
    BY <2>1, <2>2, <1>2, <1>8, <1>9, <1>19, SplitChain
<1>42. FramesOK(U, s2, L2)
  <2>1. L2[p] = 1 /\ L2[r] = 0
    <3>1. L[p] = L[n] + 1
      BY <1>34
    <3>  QED
      BY <3>1, <1>5, <1>10, <1>17
  <2>  SUFFICES ASSUME NEW j \in 1 .. Len(s2)
                PROVE  /\ s2[j].node \in DOMAIN U.node /\ L2[s2[j].node] = j
                       /\ s2[j].child \in DOMAIN U.node /\ L2[s2[j].child] = j - 1
                       /\ j = Len(s2) /\ s2[j].right = 0
    BY <1>22 DEF FramesOK
  <2>2. j = 1 /\ s2[j] = f /\ Len(s2) = 1 /\ j - 1 = 0
    BY <1>22
  <2>3. p \in DOMAIN U.node /\ r \in DOMAIN U.node
    BY <1>11, <1>17
  <2>  QED
    BY <2>1, <2>2, <2>3, <1>21
<1>43. LeafEntries(U) = LeafEntries(T)
  <2>1. Leaves(U) = Leaves(T) \cup {r}
    BY <1>1, <1>11, <1>12 DEF Leaves, Addresses
  <2>2. \A i \in Leaves(T) \ {n} : U.node[i].arr = T.node[i].arr
    BY <1>1, <1>12 DEF Leaves, Addresses
  <2>3. ToSet(LeftHalf(a)) \cup ToSet(RightHalf(a)) = ToSet(a)
    <3>1. \A e \in ToSet(a) : e.key \in Int
      BY <1>6, TreeAssumption
    <3>2. \A e \in ToSet(a) : e.key < mid \/ e.key >= mid
      BY <3>1, <1>19
    <3>  QED
      BY <3>2, <1>7 DEF LeafHalvesRight
  <2>4. U.node[n].arr = LeftHalf(a) /\ U.node[r].arr = RightHalf(a)
    BY <1>5, <1>12
  <2>5. ASSUME NEW e PROVE e \in LeafEntries(U) <=> e \in LeafEntries(T)
    <3>1. e \in LeafEntries(T) <=> \E i \in Leaves(T) : e \in ToSet(T.node[i].arr)
      BY DEF LeafEntries
    <3>2. e \in LeafEntries(U) <=> \E i \in Leaves(U) : e \in ToSet(U.node[i].arr)
      BY DEF LeafEntries
    <3>3. ASSUME NEW i \in Leaves(U), e \in ToSet(U.node[i].arr)
          PROVE  \E j \in Leaves(T) : e \in ToSet(T.node[j].arr)
      <4>1. CASE i \in Leaves(T) \ {n}
        BY <4>1, <3>3, <2>2
      <4>2. CASE i = n \/ i = r
        BY <4>2, <3>3, <2>3, <2>4, <1>1
      <4>  QED
        BY <4>1, <4>2, <2>1
    <3>4. ASSUME NEW i \in Leaves(T), e \in ToSet(T.node[i].arr)
          PROVE  \E j \in Leaves(U) : e \in ToSet(U.node[j].arr)
      <4>1. CASE i # n
        BY <4>1, <3>4, <2>1, <2>2
      <4>2. CASE i = n
        <5>1. e \in ToSet(U.node[n].arr) \/ e \in ToSet(U.node[r].arr)
          BY <4>2, <3>4, <2>3, <2>4, <1>1
        <5>  QED
          BY <5>1, <2>1
      <4>  QED
        BY <4>1, <4>2
    <3>  QED
      BY <3>1, <3>2, <3>3, <3>4
  <2>  QED
    BY <2>5
<1>44. n \in Leaves(U) /\ r \in Leaves(U) /\ HasRoom(U, n) /\ HasRoom(U, r)
  <2>1. n \in Leaves(U) /\ r \in Leaves(U)
    BY <1>5, <1>11, <1>12 DEF Leaves, Addresses
  <2>2. U.node[n].arr = LeftHalf(a) /\ U.node[r].arr = RightHalf(a)
    BY <1>5, <1>12
  <2>  QED
    BY <2>1, <2>2, <1>37, SortedArrayAssumption DEF HasRoom, is_full
<1>45. R2[n] = {k \in R[n] : k < mid} /\ R2[r] = {k \in R[n] : k >= mid}
  BY <1>9 DEF RangesSplit
<1>46. TreeOK(U, s2, R2, L2)
  BY <1>35, <1>36, <1>38, <1>39, <1>40, <1>41, <1>42 DEF TreeOK
<1>  QED
  BY <1>1, <1>19, <1>43, <1>44, <1>45, <1>46 DEF LeafSplitDone

\* Splitting a full leaf keeps the tree in order, with the new leaf pending at the
\* parent, and moves no key out of the table.
LEMMA LeafSplitOK ==
  ASSUME NEW T, NEW R, NEW L, TreeOK(T, <<>>, R, L), NEW n \in Leaves(T), ~HasRoom(T, n),
         NEW mid, mid = RightHalf(T.node[n].arr)[1].key,
         NEW R2, R2 = Append([R EXCEPT ![n] = {k \in R[n] : k < mid}], {k \in R[n] : k >= mid})
  PROVE  LeafSplitDone(T, n, mid, R, L, LeafSplit(T, n), R2, Append(L, 0))
<1>1. /\ TreeTypes(T, R, L) /\ R \in Seq(SUBSET Keys) /\ L \in Seq(Nat)
      /\ Len(R) = Len(T.node) /\ Len(L) = Len(T.node) /\ T.node \in Seq(Nodes)
  BY DEF TreeOK, TreeTypes
<1>2. n \in DOMAIN T.node /\ n \in DOMAIN R
  <2>1. n \in DOMAIN T.node
    BY DEF Leaves, Addresses
  <2>2. DOMAIN T.node = 1 .. Len(T.node) /\ DOMAIN R = 1 .. Len(R)
    BY <1>1
  <2>  QED
    BY <2>1, <2>2, <1>1
<1>3. /\ T.node[n].arr \in Arrays(Vals \cup Nat) /\ Ascending(T.node[n].arr)
      /\ is_full(T.node[n].arr)
  BY EntriesOfLeaf DEF HasRoom
<1>4. LeafHalvesRight(T.node[n].arr, mid)
  BY <1>3, HalvesOfLeaf
<1>5. LeafWasSplit(T, n, Len(T.node) + 1, LeafSplit(T, n))
  BY <1>1, <1>2, <1>3, LeafSplitRight
<1>6. RangesSplit(R, n, mid, Len(T.node) + 1, R2)
  <2>1. RangesSplit(R, n, mid, Len(R) + 1, R2)
    BY <1>1, <1>2, RangeSplitRight
  <2>  QED
    BY <2>1, <1>1
<1>7. LevelsGrown(L, Len(T.node) + 1, 0, Append(L, 0))
  <2>1. LevelsGrown(L, Len(L) + 1, 0, Append(L, 0))
    BY <1>1, GrowLevels
  <2>  QED
    BY <2>1, <1>1
<1>  QED
  BY <1>4, <1>5, <1>6, <1>7, LeafSplitKeeps

-----------------------------------------------------------------------------
(***************************************************************************)
(* internal_node_t::split                                                  *)
(***************************************************************************)
\* The tree U is T after internal node n was split and node r got the upper half.
InternalWasSplit(T, n, r, U) ==
  /\ U = [node |-> U.node, count |-> U.count, root |-> T.root, sane |-> U.sane]
  /\ U.sane = (T.sane /\ Len(LeftHalf(T.node[n].arr)) > 1)
  /\ U.node \in Seq(Nodes) /\ Len(U.node) = Len(T.node) + 1
  /\ DOMAIN U.node = DOMAIN T.node \cup {r} /\ r \notin DOMAIN T.node
  /\ r \in Nat /\ r # 0
  /\ \A i \in DOMAIN T.node :
       /\ U.node[i].leaf = T.node[i].leaf /\ U.node[i].left = T.node[i].left
       /\ U.node[i].prev = T.node[i].prev /\ U.node[i].next = T.node[i].next
       /\ U.node[i].arr = IF i = n THEN Front(LeftHalf(T.node[n].arr)) ELSE T.node[i].arr
       /\ U.node[i].parent = IF i \in Moved(T.node[n].arr) THEN r ELSE T.node[i].parent
  /\ U.node[r].leaf = FALSE /\ U.node[r].left = Last(LeftHalf(T.node[n].arr)).data
  /\ U.node[r].arr = RightHalf(T.node[n].arr)
  /\ U.node[r].parent = IF r \in Moved(T.node[n].arr) THEN r ELSE 0

\* internal_node_t::split makes the nodes that InternalWasSplit describes.
LEMMA InternalSplitRight ==
  ASSUME NEW T, NEW R, NEW L, TreeTypes(T, R, L), NEW n \in DOMAIN T.node,
         is_full(T.node[n].arr), Ascending(T.node[n].arr),
         Last(LeftHalf(T.node[n].arr)).data \in Nat
  PROVE  InternalWasSplit(T, n, Len(T.node) + 1, InternalSplit(T, n, Len(T.node) + 1))
<1>1. PICK ns, r, a : ns = T.node /\ r = Len(T.node) + 1 /\ a = T.node[n].arr
  OBVIOUS
<1>2. ns \in Seq(Nodes) /\ n \in DOMAIN ns
  BY <1>1 DEF TreeTypes
<1>3. Len(ns) \in Nat /\ DOMAIN ns = 1 .. Len(ns) /\ ns[n] \in Nodes
  BY <1>2
<1>4. n \in Nat /\ r \in Nat /\ r # 0 /\ r = Len(ns) + 1
  BY <1>1, <1>2, <1>3
<1>5. PICK lo, hi, x, S : /\ lo = Front(LeftHalf(a)) /\ hi = RightHalf(a)
                          /\ x = Last(LeftHalf(a)).data /\ S = Moved(a)
  OBVIOUS
<1>6. a \in Arrays(Vals \cup Nat) /\ is_full(a) /\ Ascending(a) /\ x \in Nat
  BY <1>1, <1>3, <1>5, NodeFields
<1>7. lo \in Arrays(Vals \cup Nat) /\ hi \in Arrays(Vals \cup Nat)
  BY <1>5, <1>6, HalfFacts, HalvesOfInternal
<1>8. PICK ms : ms = [ns EXCEPT ![n].arr = lo]
  OBVIOUS
<1>9. ArraySet(ns, n, lo, ms)
  BY <1>2, <1>7, <1>8, SetArr
<1>10. ms \in Seq(Nodes) /\ Len(ms) = Len(ns) /\ DOMAIN ms = DOMAIN ns
  BY <1>9 DEF ArraySet, ArraysApart
<1>11. PICK y : y = Internal(x, hi)
  OBVIOUS
<1>12. y = [leaf |-> FALSE, arr |-> hi, left |-> x, parent |-> 0, prev |-> 0, next |-> 0]
  BY <1>11 DEF Internal
<1>13. y \in Nodes
  BY <1>6, <1>7, <1>12 DEF Nodes
<1>14. PICK qs : qs = Append(ms, y)
  OBVIOUS
<1>15. /\ qs \in Seq(Nodes) /\ Len(qs) = r /\ DOMAIN qs = DOMAIN ns \cup {r}
       /\ r \notin DOMAIN ns /\ (\A i \in DOMAIN ns : qs[i] = ms[i]) /\ qs[r] = y
  BY <1>4, <1>10, <1>13, <1>14, AppendRight
<1>16. PICK ws : ws = SetParent(qs, S, r)
  OBVIOUS
<1>17. ParentSet(qs, S, r, ws)
  BY <1>4, <1>15, <1>16, SetParentRight
<1>18. PICK U : U = InternalSplit(T, n, r)
  OBVIOUS
<1>19. /\ U.node = ws /\ U.sane = (T.sane /\ Len(LeftHalf(a)) > 1)
       /\ U = [node |-> U.node, count |-> U.count, root |-> T.root, sane |-> U.sane]
  <2>1. T = [node |-> T.node, count |-> T.count, root |-> T.root, sane |-> T.sane]
    BY DEF TreeTypes
  <2>2. Halved(T.node, n, r) = ws
    BY <1>1, <1>5, <1>8, <1>11, <1>14, <1>16 DEF Halved
  <2>3. PICK c : c = Recount(ws, Recount(ws, Append(T.count, 0), r), n)
    OBVIOUS
  <2>4. U = [T EXCEPT !.node = ws, !.count = c,
                      !.sane = T.sane /\ Len(LeftHalf(T.node[n].arr)) > 1]
    BY <2>2, <2>3, <1>18 DEF InternalSplit
  <2>5. U = [node |-> ws, count |-> c, root |-> T.root,
             sane |-> T.sane /\ Len(LeftHalf(T.node[n].arr)) > 1]
    BY <2>1, <2>4
  <2>  QED
    BY <2>5, <1>1
<1>20. ws \in Seq(Nodes) /\ Len(ws) = r /\ DOMAIN ws = DOMAIN ns \cup {r}
  BY <1>15, <1>17 DEF ParentSet
<1>21. /\ ws[r].leaf = FALSE /\ ws[r].left = x /\ ws[r].arr = hi
       /\ ws[r].parent = IF r \in S THEN r ELSE 0
  BY <1>12, <1>15, <1>17 DEF ParentSet
<1>22. ASSUME NEW i \in DOMAIN ns
       PROVE  /\ ws[i].leaf = ns[i].leaf /\ ws[i].left = ns[i].left
              /\ ws[i].prev = ns[i].prev /\ ws[i].next = ns[i].next
              /\ ws[i].arr = IF i = n THEN lo ELSE ns[i].arr
              /\ ws[i].parent = IF i \in S THEN r ELSE ns[i].parent
  <2>1. qs[i] = ms[i] /\ i \in DOMAIN qs
    BY <1>15
  <2>2. /\ ms[i].leaf = ns[i].leaf /\ ms[i].left = ns[i].left /\ ms[i].parent = ns[i].parent
        /\ ms[i].prev = ns[i].prev /\ ms[i].next = ns[i].next
        /\ ms[i].arr = IF i = n THEN lo ELSE ns[i].arr
    BY <1>9 DEF ArraySet, ArraysApart
  <2>3. /\ ws[i].leaf = qs[i].leaf /\ ws[i].arr = qs[i].arr /\ ws[i].left = qs[i].left
        /\ ws[i].prev = qs[i].prev /\ ws[i].next = qs[i].next
        /\ ws[i].parent = IF i \in S THEN r ELSE qs[i].parent
    BY <2>1, <1>17 DEF ParentSet
  <2>  QED
    BY <2>1, <2>2, <2>3
<1>23. /\ U.node \in Seq(Nodes) /\ Len(U.node) = Len(T.node) + 1
       /\ DOMAIN U.node = DOMAIN T.node \cup {r} /\ r \notin DOMAIN T.node
  BY <1>1, <1>4, <1>15, <1>19, <1>20
<1>24. InternalWasSplit(T, n, r, U)
  BY <1>1, <1>4, <1>5, <1>19, <1>21, <1>22, <1>23 DEF InternalWasSplit
<1>  QED
  BY <1>1, <1>18, <1>24

\* The full node n of the last activation of stack s, which is split at key mid.
SplitSituation(T, s, R, L, n, mid) ==
  /\ Len(s) \in Nat /\ Len(s) >= 1 /\ n \in DOMAIN T.node /\ L[n] = Len(s)
  /\ ~T.node[n].leaf
  /\ mid \in R[n] /\ \E low \in R[n] : low < mid
  /\ s[Len(s)].key # mid /\ s[Len(s)].key \in Int
  /\ \E e \in ToSet(T.node[n].arr) : e.key = mid /\ e = Last(LeftHalf(T.node[n].arr))
  /\ T.node[n].left \in DOMAIN T.node /\ T.node[n].left \notin Moved(T.node[n].arr)
  /\ n \notin Moved(T.node[n].arr) /\ Moved(T.node[n].arr) \subseteq DOMAIN T.node
  /\ \A i \in Moved(T.node[n].arr) : T.node[i].parent = n
  /\ \A e \in ToSet(T.node[n].arr) : e.data \in DOMAIN T.node /\ e.key \in Int
  /\ \A e \in ToSet(T.node[n].arr) : e.data \in Moved(T.node[n].arr) <=> e.key >= mid

\* A full node at the top of the stack is ready to be split.
LEMMA SplitMeets ==
  ASSUME NEW T, NEW s, NEW R, NEW L, TreeOK(T, s, R, L), s # <<>>,
         s[Len(s)].right = 0, NEW n, n = s[Len(s)].node,
         NEW mid, InternalHalvesRight(T.node[n].arr, mid)
  PROVE  SplitSituation(T, s, R, L, n, mid)
<1>1. PICK D, a, m, f, S : /\ D = DOMAIN T.node /\ a = T.node[n].arr /\ m = Len(s)
                           /\ f = s[Len(s)] /\ S = Moved(T.node[n].arr)
  OBVIOUS
<1>2. /\ TreeTypes(T, R, L) /\ ShapeOK(T, s, R, L) /\ LinksOK(T, s) /\ FramesOK(T, s, L)
  BY DEF TreeOK
<1>3. s \in Seq(FrameSet)
  BY <1>2 DEF FramesOK
<1>4. m \in Nat /\ m >= 1 /\ m \in 1 .. m
  BY <1>1, <1>3, FrontRight
<1>5. /\ n \in D /\ L[n] = m /\ f.child \in D /\ Half(f) = n /\ f \in ToSet(s)
  <2>1. n \in D /\ L[n] = m /\ f.child \in D
    BY <1>1, <1>2, <1>4 DEF FramesOK
  <2>2. Half(f) = n
    BY <1>1 DEF Half
  <2>3. f \in ToSet(s)
    BY <1>1, <1>2, <1>4, HalfLevel
  <2>  QED
    BY <2>1, <2>2, <2>3
<1>6. PICK lf, lt, E : lf = LeafOf(T) /\ lt = LeftOf(T) /\ E = EntriesOf(T, s)
  OBVIOUS
<1>7. Shape(D, lf, lt, E, R, L)
  BY <1>1, <1>2, <1>6 DEF ShapeOK
<1>8. lf[n] = T.node[n].leaf /\ lt[n] = T.node[n].left /\ E[n] = ToSet(a) \cup PendingOf(s, n)
  BY <1>1, <1>5, <1>6 DEF LeafOf, LeftOf, EntriesOf
<1>9. ~lf[n]
  BY <1>4, <1>5, <1>7 DEF Shape
<1>10. Divides(D, lt, E, R, L, n) /\ R[n] \subseteq Int /\ \A e \in E[n] : e.key \in R[n]
  BY <1>5, <1>7, <1>9, TreeAssumption DEF Shape
<1>11. /\ lt[n] \in D /\ \A e \in E[n] : e.data \in D /\ L[e.data] = L[n] - 1
  BY <1>10 DEF Divides
<1>12. /\ mid \in Int /\ ToSet(RightHalf(a)) = {e \in ToSet(a) : e.key > mid}
       /\ Last(LeftHalf(a)) \in ToSet(a) /\ Last(LeftHalf(a)).key = mid
       /\ \E e \in ToSet(a) : e.key < mid
  BY <1>1 DEF InternalHalvesRight
<1>13. ToSet(a) \subseteq E[n]
  BY <1>8
<1>14. mid \in R[n] /\ \E low \in R[n] : low < mid
  BY <1>10, <1>12, <1>13
<1>15. PICK z \in ToSet(a) : z = Last(LeftHalf(a)) /\ z.key = mid
  BY <1>12
<1>16. \A e, g \in E[n] : e.key = g.key => e = g
  BY <1>5, <1>7 DEF Shape
<1>17. \A e \in ToSet(a) : e.key = mid => e = z
  BY <1>13, <1>15, <1>16
<1>18. \A e \in ToSet(a) : T.node[e.data].parent = n
  <2>  SUFFICES ASSUME NEW e \in ToSet(a) PROVE T.node[e.data].parent = n
    OBVIOUS
  <2>1. HangsIn(T, n, e.data)
    BY <1>1 DEF HangsIn
  <2>2. e.data \in D
    BY <1>11, <1>13
  <2>  QED
    BY <2>1, <2>2, <1>1, <1>2, <1>5, <1>8, <1>9 DEF LinksOK
<1>19. S = {e.data : e \in {g \in ToSet(a) : g.key >= mid}}
  <2>1. S = {z.data} \cup {e.data : e \in ToSet(RightHalf(a))}
    BY <1>1, <1>15 DEF Moved
  <2>2. \A e \in ToSet(a) : e.key \in Int
    BY <1>10, <1>13
  <2>3. {g \in ToSet(a) : g.key >= mid} = {z} \cup ToSet(RightHalf(a))
    BY <2>2, <1>12, <1>15, <1>17
  <2>  QED
    BY <2>1, <2>3
<1>20. /\ S \subseteq D /\ \A i \in S : T.node[i].parent = n
  BY <1>11, <1>13, <1>18, <1>19
<1>21. n \notin S
  <2>1. \A i \in S : L[i] = L[n] - 1
    BY <1>11, <1>13, <1>19
  <2>  QED
    BY <2>1, <1>4, <1>5
<1>22. \A e, g \in E[n] : e.data # lt[n] /\ (e.data = g.data => e = g)
  BY <1>5, <1>7, <1>9, ChildrenDiffer
<1>23. T.node[n].left \notin S
  BY <1>8, <1>13, <1>19, <1>22
<1>24. \A e \in ToSet(a) : e.data \in S <=> e.key >= mid
  BY <1>13, <1>19, <1>22
<1>25. f.key # mid /\ f.key \in Int
  <2>1. PICK x : x = Entry(f.key, f.child)
    OBVIOUS
  <2>2. x \in E[n] /\ x.key = f.key /\ x.data = f.child
    BY <2>1, <1>5, <1>8 DEF PendingOf, Entry
  <2>3. f.key \in Int
    BY <2>2, <1>10
  <2>4. T.node[f.child].parent = 0
    BY <1>1, <1>2, <1>5 DEF LinksOK
  <2>5. n # 0
    BY <1>1, <1>2, <1>5 DEF TreeTypes
  <2>6. f.key # mid
    <3>  SUFFICES ASSUME f.key = mid PROVE FALSE
      OBVIOUS
    <3>1. x = z
      BY <2>2, <1>13, <1>15, <1>16
    <3>2. T.node[f.child].parent = n
      BY <3>1, <2>2, <1>18
    <3>  QED
      BY <3>2, <2>4, <2>5
  <2>  QED
    BY <2>3, <2>6
<1>26. \A e \in ToSet(a) : e.data \in D /\ e.key \in Int
  BY <1>10, <1>11, <1>13
<1>  QED
  BY <1>1, <1>4, <1>5, <1>8, <1>9, <1>11, <1>14, <1>15, <1>20, <1>21, <1>23, <1>24, <1>25,
     <1>26 DEF SplitSituation

\* The stack s2 is s after its last activation has split its node at key mid, and r is
\* the new node.
TopSplit(s, r, mid, s2) ==
  /\ s2 \in Seq(FrameSet) /\ Len(s2) = Len(s)
  /\ \A j \in 1 .. Len(s) : j # Len(s) => s2[j] = s[j]
  /\ s2[Len(s)].node = s[Len(s)].node /\ s2[Len(s)].key = s[Len(s)].key
  /\ s2[Len(s)].child = s[Len(s)].child /\ s2[Len(s)].right = r /\ s2[Len(s)].mid = mid

\* Split changes the activation on top.
LEMMA TopSplitRight ==
  ASSUME NEW s \in Seq(FrameSet), s # <<>>, NEW r \in Nat, NEW mid \in Int, NEW s2,
         s2 = [s EXCEPT ![Len(s)] = [s[Len(s)] EXCEPT !.right = r, !.mid = mid]]
  PROVE  TopSplit(s, r, mid, s2)
<1>1. PICK m, f, g : m = Len(s) /\ f = s[m] /\ g = [f EXCEPT !.right = r, !.mid = mid]
  OBVIOUS
<1>2. m \in Nat /\ m >= 1 /\ DOMAIN s = 1 .. m
  BY <1>1
<1>3. m \in 1 .. m /\ \A j \in 1 .. m : s[j] \in FrameSet
  BY <1>1, <1>2
<1>4. f \in [node : Nat, key : Int, child : Nat, right : Nat, mid : Int]
  BY <1>1, <1>3 DEF FrameSet
<1>5. g = [node |-> f.node, key |-> f.key, child |-> f.child, right |-> r, mid |-> mid]
  BY <1>1, <1>4
<1>6. g \in FrameSet
  BY <1>4, <1>5 DEF FrameSet
<1>7. s2 = [j \in 1 .. m |-> IF j = m THEN g ELSE s[j]]
  BY <1>1, <1>2
<1>8. s2 = [j \in 1 .. m |-> s2[j]] /\ \A j \in 1 .. m : s2[j] \in FrameSet
  BY <1>3, <1>6, <1>7
<1>9. s2 \in Seq(FrameSet) /\ Len(s2) = m
  BY <1>2, <1>8, NodeList
<1>10. s2[m] = g /\ \A j \in 1 .. m : j # m => s2[j] = s[j]
  BY <1>3, <1>7
<1>11. /\ s2[m].node = f.node /\ s2[m].key = f.key /\ s2[m].child = f.child
       /\ s2[m].right = r /\ s2[m].mid = mid
  <2>1. s2[m] = g
    BY <1>10
  <2>2. /\ g.node = f.node /\ g.key = f.key /\ g.child = f.child
        /\ g.right = r /\ g.mid = mid
    BY <1>5
  <2>  QED
    BY <2>1, <2>2
<1>  QED
  BY <1>1, <1>9, <1>10, <1>11 DEF TopSplit

\* The key of the last activation is pending at one half of its node.
PendingHalved(T, s, n, r, mid, s2) ==
  /\ PendingOf(s2, n) = {e \in PendingOf(s, n) : e.key < mid}
  /\ PendingOf(s2, r) = {e \in PendingOf(s, n) : e.key > mid}
  /\ \A i \in DOMAIN T.node \ {n} : PendingOf(s2, i) = PendingOf(s, i)
  /\ \A i : (\E g \in ToSet(s2) : g.child = i) <=> (\E g \in ToSet(s) : g.child = i)

\* The split divides the pending entries of the node between the halves.
LEMMA HalvePending ==
  ASSUME NEW T, NEW s, NEW L, FramesOK(T, s, L), s # <<>>, s[Len(s)].right = 0,
         NEW n, n = s[Len(s)].node, NEW r, r \notin DOMAIN T.node, r # 0,
         NEW mid \in Int, s[Len(s)].key # mid, s[Len(s)].key \in Int,
         NEW s2, TopSplit(s, r, mid, s2)
  PROVE  PendingHalved(T, s, n, r, mid, s2)
<1>1. PICK D, m, f, g : D = DOMAIN T.node /\ m = Len(s) /\ f = s[m] /\ g = s2[m]
  OBVIOUS
<1>2. m \in Nat /\ m >= 1 /\ DOMAIN s = 1 .. m /\ m \in 1 .. m
  <2>1. s \in Seq(FrameSet)
    BY DEF FramesOK
  <2>2. m \in Nat /\ m >= 1 /\ DOMAIN s = 1 .. m
    BY <2>1, <1>1, FrontRight
  <2>  QED
    BY <2>2
<1>3. /\ DOMAIN s2 = 1 .. m /\ \A j \in 1 .. m : j # m => s2[j] = s[j]
  <2>1. s2 \in Seq(FrameSet) /\ Len(s2) = m /\ \A j \in 1 .. m : j # m => s2[j] = s[j]
    BY <1>1 DEF TopSplit
  <2>  QED
    BY <2>1
<1>4. /\ g.node = n /\ g.key = f.key /\ g.child = f.child /\ g.right = r /\ g.mid = mid
      /\ f.right = 0 /\ f.node = n /\ f.key # mid /\ f.key \in Int
  BY <1>1 DEF TopSplit
<1>5. Half(f) = n /\ Half(g) = IF f.key < mid THEN n ELSE r
  BY <1>4 DEF Half
<1>6. \A j \in 1 .. m : Half(s[j]) \in D /\ L[Half(s[j])] = j
  BY <1>1, HalfLevel
<1>7. n \in D /\ n # r
  BY <1>1, <1>2, <1>5, <1>6
<1>8. \A j \in 1 .. m : j # m => Half(s[j]) # n /\ Half(s[j]) # r
  BY <1>1, <1>2, <1>5, <1>6
<1>9. PICK Q : Q = {s[j] : j \in {k \in 1 .. m : k # m}}
  OBVIOUS
<1>10. ToSet(s) = Q \cup {f} /\ ToSet(s2) = Q \cup {g}
  BY <1>1, <1>2, <1>3, <1>9 DEF ToSet
<1>11. \A q \in Q : Half(q) # n /\ Half(q) # r
  BY <1>8, <1>9
<1>12. PICK x : x = Entry(f.key, f.child)
  OBVIOUS
<1>13. x.key = f.key /\ Entry(g.key, g.child) = x
  BY <1>4, <1>12 DEF Entry
<1>14. PendingOf(s, n) = {x}
  <2>1. {q \in ToSet(s) : Half(q) = n} = {f}
    BY <1>5, <1>10, <1>11
  <2>  QED
    BY <2>1, <1>12 DEF PendingOf
<1>15. CASE f.key < mid
  <2>1. {q \in ToSet(s2) : Half(q) = n} = {g} /\ {q \in ToSet(s2) : Half(q) = r} = {}
    BY <1>5, <1>7, <1>10, <1>11, <1>15
  <2>2. PendingOf(s2, n) = {x} /\ PendingOf(s2, r) = {}
    BY <2>1, <1>13 DEF PendingOf
  <2>3. {x} = {e \in {x} : e.key < mid} /\ {} = {e \in {x} : e.key > mid}
    BY <1>13, <1>15, <1>4
  <2>4. ASSUME NEW i \in D \ {n}
        PROVE  {q \in ToSet(s2) : Half(q) = i} = {q \in ToSet(s) : Half(q) = i}
    BY <1>5, <1>10, <1>15
  <2>5. \A i \in D \ {n} : PendingOf(s2, i) = PendingOf(s, i)
    BY <2>4 DEF PendingOf
  <2>6. \A i : (\E q \in ToSet(s2) : q.child = i) <=> (\E q \in ToSet(s) : q.child = i)
    BY <1>4, <1>10
  <2>  QED
    BY <2>2, <2>3, <2>5, <2>6, <1>1, <1>14 DEF PendingHalved
<1>16. CASE ~(f.key < mid)
  <2>1. {q \in ToSet(s2) : Half(q) = n} = {} /\ {q \in ToSet(s2) : Half(q) = r} = {g}
    BY <1>5, <1>7, <1>10, <1>11, <1>16
  <2>2. PendingOf(s2, n) = {} /\ PendingOf(s2, r) = {x}
    BY <2>1, <1>13 DEF PendingOf
  <2>3. {} = {e \in {x} : e.key < mid} /\ {x} = {e \in {x} : e.key > mid}
    BY <1>13, <1>16, <1>4
  <2>4. ASSUME NEW i \in D \ {n}
        PROVE  {q \in ToSet(s2) : Half(q) = i} = {q \in ToSet(s) : Half(q) = i}
    BY <1>1, <1>5, <1>10, <1>16
  <2>5. \A i \in D \ {n} : PendingOf(s2, i) = PendingOf(s, i)
    BY <2>4 DEF PendingOf
  <2>6. \A i : (\E q \in ToSet(s2) : q.child = i) <=> (\E q \in ToSet(s) : q.child = i)
    BY <1>4, <1>10
  <2>  QED
    BY <2>2, <2>3, <2>5, <2>6, <1>1, <1>14 DEF PendingHalved
<1>  QED
  BY <1>15, <1>16

\* Every entry of the node goes to the half it belongs to, the pending one included,
\* but for the one in between.
EntriesHalved(T, s, n, r, mid, U, s2) ==
  /\ \A i \in DOMAIN T.node \ {n} : EntriesOf(U, s2)[i] = EntriesOf(T, s)[i]
  /\ EntriesOf(U, s2)[n] = {e \in EntriesOf(T, s)[n] : e.key < mid}
  /\ EntriesOf(U, s2)[r] = {e \in EntriesOf(T, s)[n] : e.key > mid}

\* So it does with all its entries.
LEMMA HalveEntries ==
  ASSUME NEW T, NEW s, NEW n \in DOMAIN T.node, NEW r, NEW mid, NEW U, NEW s2,
         InternalWasSplit(T, n, r, U), PendingHalved(T, s, n, r, mid, s2),
         InternalHalvesRight(T.node[n].arr, mid)
  PROVE  EntriesHalved(T, s, n, r, mid, U, s2)
<1>1. PICK D, a : D = DOMAIN T.node /\ a = T.node[n].arr
  OBVIOUS
<1>2. /\ DOMAIN U.node = D \cup {r} /\ r \notin D
      /\ U.node[n].arr = Front(LeftHalf(a)) /\ U.node[r].arr = RightHalf(a)
      /\ \A i \in D \ {n} : U.node[i].arr = T.node[i].arr
  BY <1>1 DEF InternalWasSplit
<1>3. PICK E, F : E = EntriesOf(T, s) /\ F = EntriesOf(U, s2)
  OBVIOUS
<1>4. \A i \in D : E[i] = ToSet(T.node[i].arr) \cup PendingOf(s, i)
  BY <1>1, <1>3 DEF EntriesOf
<1>5. \A i \in D \cup {r} : F[i] = ToSet(U.node[i].arr) \cup PendingOf(s2, i)
  BY <1>2, <1>3 DEF EntriesOf
<1>6. ASSUME NEW i \in D \ {n} PROVE F[i] = E[i]
  <2>1. PendingOf(s2, i) = PendingOf(s, i)
    BY <1>1 DEF PendingHalved
  <2>2. U.node[i].arr = T.node[i].arr
    BY <1>2
  <2>  QED
    BY <2>1, <2>2, <1>4, <1>5
<1>7. F[n] = ToSet(Front(LeftHalf(a))) \cup PendingOf(s2, n) /\ F[r] = ToSet(RightHalf(a)) \cup PendingOf(s2, r)
  BY <1>1, <1>2, <1>5
<1>8. E[n] = ToSet(a) \cup PendingOf(s, n)
  BY <1>1, <1>4
<1>9. /\ ToSet(Front(LeftHalf(a))) = {e \in ToSet(a) : e.key < mid}
      /\ ToSet(RightHalf(a)) = {e \in ToSet(a) : e.key > mid}
  BY <1>1 DEF InternalHalvesRight
<1>10. F[n] = {e \in E[n] : e.key < mid} /\ F[r] = {e \in E[n] : e.key > mid}
  BY <1>7, <1>8, <1>9 DEF PendingHalved
<1>  QED
  BY <1>1, <1>3, <1>6, <1>10 DEF EntriesHalved

\* The moved children hang in the new node and know it.
HalvesLinked(T, r, U) ==
  /\ \A q \in DOMAIN U.node, i \in DOMAIN U.node :
       ~U.node[q].leaf /\ HangsIn(U, q, i) => i # r /\ U.node[i].parent = q
  /\ \A i \in DOMAIN U.node : U.node[i].parent # 0 =>
       LET q == U.node[i].parent IN
         q \in DOMAIN U.node /\ ~U.node[q].leaf /\ HangsIn(U, q, i)
  /\ \A i \in DOMAIN T.node : U.node[i].parent = 0 <=> T.node[i].parent = 0
  /\ U.node[r].parent = 0

\* Every child of the halves knows its parent.
LEMMA HalveLinks ==
  ASSUME NEW T, NEW s, NEW R, NEW L, TreeOK(T, s, R, L), NEW n, NEW mid \in Int,
         SplitSituation(T, s, R, L, n, mid), NEW r, NEW U, InternalWasSplit(T, n, r, U),
         InternalHalvesRight(T.node[n].arr, mid)
  PROVE  HalvesLinked(T, r, U)
<1>1. PICK D, a, S : D = DOMAIN T.node /\ a = T.node[n].arr /\ S = Moved(T.node[n].arr)
  OBVIOUS
<1>2. ShapeOK(T, s, R, L) /\ LinksOK(T, s) /\ TreeTypes(T, R, L)
  BY DEF TreeOK
<1>3. D = 1 .. Len(T.node)
  BY <1>1, <1>2 DEF TreeTypes
<1>4. /\ n \in D /\ ~T.node[n].leaf /\ T.node[n].left \notin S /\ S \subseteq D
      /\ \A i \in S : T.node[i].parent = n
      /\ \A e \in ToSet(a) : e.key \in Int /\ (e.data \in S <=> e.key >= mid)
  BY <1>1 DEF SplitSituation
<1>5. n # 0
  BY <1>3, <1>4
<1>6. /\ DOMAIN U.node = D \cup {r} /\ r \notin D /\ r # 0
      /\ \A i \in D : /\ U.node[i].leaf = T.node[i].leaf /\ U.node[i].left = T.node[i].left
                      /\ U.node[i].parent = IF i \in S THEN r ELSE T.node[i].parent
      /\ U.node[n].arr = Front(LeftHalf(a)) /\ \A i \in D \ {n} : U.node[i].arr = T.node[i].arr
  BY <1>1, <1>4 DEF InternalWasSplit
<1>7. /\ U.node[r].leaf = FALSE /\ U.node[r].left = Last(LeftHalf(a)).data
      /\ U.node[r].arr = RightHalf(a) /\ U.node[r].parent = IF r \in S THEN r ELSE 0
  BY <1>1 DEF InternalWasSplit
<1>8. ASSUME NEW i PROVE HangsIn(U, n, i) <=> HangsIn(T, n, i) /\ i \notin S
  <2>1. ToSet(U.node[n].arr) = {e \in ToSet(a) : e.key < mid}
    BY <1>1, <1>6 DEF InternalHalvesRight
  <2>2. \A e \in ToSet(a) : e.key < mid <=> e.data \notin S
    BY <1>4
  <2>3. U.node[n].left = T.node[n].left
    BY <1>4, <1>6
  <2>  QED
    BY <2>1, <2>2, <2>3, <1>1, <1>4 DEF HangsIn
<1>9. ASSUME NEW i PROVE HangsIn(U, r, i) <=> i \in S
  BY <1>1, <1>7 DEF HangsIn, Moved
<1>10. ASSUME NEW q \in D \ {n}, NEW i PROVE HangsIn(U, q, i) <=> HangsIn(T, q, i)
  BY <1>6 DEF HangsIn
<1>11. ASSUME NEW q \in D, ~T.node[q].leaf, NEW i, HangsIn(T, q, i) PROVE i \in D
  <2>1. PICK lf, lt, E : lf = LeafOf(T) /\ lt = LeftOf(T) /\ E = EntriesOf(T, s)
    OBVIOUS
  <2>2. Shape(D, lf, lt, E, R, L)
    BY <1>1, <1>2, <2>1 DEF ShapeOK
  <2>3. /\ lf[q] = T.node[q].leaf /\ lt[q] = T.node[q].left
        /\ E[q] = ToSet(T.node[q].arr) \cup PendingOf(s, q)
    BY <1>1, <2>1 DEF LeafOf, LeftOf, EntriesOf
  <2>4. Divides(D, lt, E, R, L, q)
    BY <2>2, <2>3, <1>11 DEF Shape
  <2>  QED
    BY <2>3, <2>4, <1>11 DEF HangsIn, Divides
<1>12. \A q \in D, i \in D : ~T.node[q].leaf /\ HangsIn(T, q, i) => T.node[i].parent = q
  BY <1>1, <1>2 DEF LinksOK
<1>13. ASSUME NEW q \in D \cup {r}, NEW i \in D \cup {r}, ~U.node[q].leaf, HangsIn(U, q, i)
       PROVE  i # r /\ U.node[i].parent = q
  <2>1. CASE q = r
    BY <2>1, <1>4, <1>6, <1>9, <1>13
  <2>2. CASE q \in D
    <3>1. ~T.node[q].leaf
      BY <2>2, <1>6, <1>13
    <3>2. HangsIn(T, q, i) /\ (q = n => i \notin S)
      BY <2>2, <1>8, <1>10, <1>13
    <3>3. i \in D
      BY <2>2, <3>1, <3>2, <1>11
    <3>4. T.node[i].parent = q
      BY <2>2, <3>1, <3>2, <3>3, <1>12
    <3>5. i \notin S
      BY <3>2, <3>4, <1>4
    <3>  QED
      BY <3>3, <3>4, <3>5, <1>6
  <2>  QED
    BY <2>1, <2>2
<1>14. ASSUME NEW i \in D \cup {r}, U.node[i].parent # 0
       PROVE  LET q == U.node[i].parent IN
                q \in D \cup {r} /\ ~U.node[q].leaf /\ HangsIn(U, q, i)
  <2>1. i # r
    BY <1>4, <1>6, <1>7, <1>14
  <2>2. CASE i \in S
    BY <2>2, <1>4, <1>6, <1>7, <1>9
  <2>3. CASE i \notin S
    <3>1. PICK q : q = T.node[i].parent
      OBVIOUS
    <3>2. U.node[i].parent = q /\ q # 0 /\ i \in D
      BY <2>1, <2>3, <3>1, <1>6, <1>14
    <3>3. q \in D /\ ~T.node[q].leaf /\ HangsIn(T, q, i)
      BY <3>1, <3>2, <1>1, <1>2 DEF LinksOK
    <3>4. HangsIn(U, q, i)
      BY <2>3, <3>3, <1>8, <1>10
    <3>  QED
      BY <3>2, <3>3, <3>4, <1>6
  <2>  QED
    BY <2>2, <2>3
<1>15. \A i \in D : U.node[i].parent = 0 <=> T.node[i].parent = 0
  BY <1>4, <1>5, <1>6
<1>16. U.node[r].parent = 0
  BY <1>4, <1>6, <1>7
<1>17. DOMAIN U.node = D \cup {r}
  BY <1>6
<1>  QED
  BY <1>1, <1>13, <1>14, <1>15, <1>16, <1>17 DEF HalvesLinked

\* There is room in the half that the pending key goes to.
FramesHalved(T, s, L, n, mid, r, U, s2, L2) ==
  FramesOK(U, s2, L2) /\ \A j \in 1 .. Len(s2) : s2[j].right # 0

\* The activations still fit the levels they climb.
LEMMA HalveFrames ==
  ASSUME NEW T, NEW s, NEW L, FramesOK(T, s, L), s # <<>>, NEW n, n = s[Len(s)].node,
         NEW mid \in Int, s[Len(s)].key # mid, NEW r, NEW U, InternalWasSplit(T, n, r, U),
         Len(Front(LeftHalf(T.node[n].arr))) < MaxKeys, Len(RightHalf(T.node[n].arr)) < MaxKeys,
         NEW s2, TopSplit(s, r, mid, s2), NEW L2, L2[r] = L[n],
         \A i \in DOMAIN T.node : L2[i] = L[i]
  PROVE  FramesHalved(T, s, L, n, mid, r, U, s2, L2)
<1>1. PICK D, m, f, g : D = DOMAIN T.node /\ m = Len(s) /\ f = s[m] /\ g = s2[m]
  OBVIOUS
<1>2. m \in Nat /\ m >= 1 /\ m \in 1 .. m
  <2>1. s \in Seq(FrameSet)
    BY DEF FramesOK
  <2>2. m \in Nat /\ m >= 1
    BY <2>1, <1>1, FrontRight
  <2>  QED
    BY <2>2
<1>3. s2 \in Seq(FrameSet) /\ Len(s2) = m /\ \A j \in 1 .. m : j # m => s2[j] = s[j]
  BY <1>1 DEF TopSplit
<1>4. /\ g.node = n /\ g.key = f.key /\ g.child = f.child /\ g.right = r /\ g.mid = mid
      /\ f.node = n /\ f.key # mid
  BY <1>1 DEF TopSplit
<1>5. /\ DOMAIN U.node = D \cup {r} /\ r \notin D /\ r # 0
      /\ \A i \in D \ {n} : U.node[i].arr = T.node[i].arr
  BY <1>1 DEF InternalWasSplit
<1>6. \A j \in 1 .. m : Half(s[j]) \in D /\ L[Half(s[j])] = j
  BY <1>1, HalfLevel
<1>7. n \in D /\ L[n] = m /\ f.child \in D /\ L[f.child] = m - 1
  BY <1>1, <1>2, <1>4 DEF FramesOK
<1>8. Len(U.node[Half(g)].arr) < MaxKeys
  <2>1. U.node[n].arr = Front(LeftHalf(T.node[n].arr)) /\ U.node[r].arr = RightHalf(T.node[n].arr)
    BY <1>1, <1>7 DEF InternalWasSplit
  <2>2. Half(g) = n \/ Half(g) = r
    BY <1>4 DEF Half
  <2>  QED
    BY <2>1, <2>2
<1>9. ASSUME NEW j \in 1 .. m
      PROVE  /\ s2[j].node \in D \cup {r} /\ L2[s2[j].node] = j
             /\ s2[j].child \in D \cup {r} /\ L2[s2[j].child] = j - 1
             /\ s2[j].right # 0 /\ s2[j].right \in D \cup {r} /\ L2[s2[j].right] = j
             /\ s2[j].key # s2[j].mid /\ Len(U.node[Half(s2[j])].arr) < MaxKeys
  <2>1. CASE j = m
    BY <2>1, <1>1, <1>4, <1>5, <1>7, <1>8
  <2>2. CASE j # m
    <3>1. s2[j] = s[j]
      BY <2>2, <1>3
    <3>2. /\ s[j].node \in D /\ L[s[j].node] = j /\ s[j].child \in D /\ L[s[j].child] = j - 1
          /\ s[j].right # 0
      BY <2>2, <1>1 DEF FramesOK
    <3>3. /\ s[j].right \in D /\ L[s[j].right] = j
          /\ s[j].key # s[j].mid /\ Len(T.node[Half(s[j])].arr) < MaxKeys
      BY <3>2, <1>1 DEF FramesOK
    <3>4. Half(s[j]) \in D /\ Half(s[j]) # n
      BY <2>2, <1>6, <1>7
    <3>5. U.node[Half(s[j])].arr = T.node[Half(s[j])].arr
      BY <3>4, <1>5
    <3>6. L2[s[j].node] = j /\ L2[s[j].child] = j - 1 /\ L2[s[j].right] = j
      BY <3>2, <3>3, <1>1
    <3>  QED
      BY <3>1, <3>2, <3>3, <3>5, <3>6
  <2>  QED
    BY <2>1, <2>2
<1>  QED
  BY <1>3, <1>5, <1>9 DEF FramesOK, FramesHalved

\* What a split of an internal node leaves behind, before the parent is looked at.
HalvesDone(T, s, n, r, mid, R, U, s2, R2, L2) ==
  /\ TreeTypes(U, R2, L2) /\ ArraysOK(U) /\ FramesOK(U, s2, L2)
  /\ \A j \in 1 .. Len(s2) : s2[j].right # 0
  /\ ChainOK(U, R2) /\ LeafEntries(U) = LeafEntries(T)
  /\ HalvesLinked(T, r, U) /\ EntriesHalved(T, s, n, r, mid, U, s2)
  /\ PendingHalved(T, s, n, r, mid, s2)

\* What holds after the split, wherever the new node is then put.
LEMMA HalvesKept ==
  ASSUME NEW T, NEW s, NEW R, NEW L, TreeOK(T, s, R, L), s # <<>>, s[Len(s)].right = 0,
         NEW n, n = s[Len(s)].node, NEW mid, InternalHalvesRight(T.node[n].arr, mid),
         SplitSituation(T, s, R, L, n, mid), NEW r, NEW U, InternalWasSplit(T, n, r, U),
         NEW s2, TopSplit(s, r, mid, s2), NEW R2, RangesSplit(R, n, mid, r, R2),
         NEW L2, LevelsGrown(L, r, L[n], L2)
  PROVE  HalvesDone(T, s, n, r, mid, R, U, s2, R2, L2)
<1>1. PICK D, a : D = DOMAIN T.node /\ a = T.node[n].arr
  OBVIOUS
<1>2. TreeTypes(T, R, L) /\ ArraysOK(T) /\ ChainOK(T, R) /\ FramesOK(T, s, L)
  BY DEF TreeOK
<1>3. /\ T.node \in Seq(Nodes) /\ R \in Seq(SUBSET Keys) /\ L \in Seq(Nat) /\ T.sane = TRUE
      /\ Len(R) = Len(T.node) /\ Len(L) = Len(T.node)
  BY <1>2 DEF TreeTypes
<1>4. D = 1 .. Len(T.node) /\ DOMAIN R = D /\ DOMAIN L = D
  BY <1>1, <1>3
<1>5. n \in D /\ ~T.node[n].leaf /\ s[Len(s)].key # mid /\ s[Len(s)].key \in Int
  BY <1>1 DEF SplitSituation
<1>6. /\ mid \in Int /\ Ascending(Front(LeftHalf(a))) /\ Ascending(RightHalf(a))
      /\ Len(Front(LeftHalf(a))) < Len(a) /\ Len(RightHalf(a)) < Len(a) /\ Len(LeftHalf(a)) > 1
  BY <1>1 DEF InternalHalvesRight
<1>7. /\ U = [node |-> U.node, count |-> U.count, root |-> T.root, sane |-> U.sane]
      /\ U.sane = (T.sane /\ Len(LeftHalf(a)) > 1)
      /\ U.node \in Seq(Nodes) /\ Len(U.node) = Len(T.node) + 1
      /\ DOMAIN U.node = D \cup {r} /\ r \notin D /\ r # 0
  BY <1>1 DEF InternalWasSplit
<1>8. U.root = T.root /\ U.sane = TRUE
  <2>1. U.root = T.root
    BY <1>7
  <2>2. (T.sane /\ Len(LeftHalf(a)) > 1) = TRUE
    BY <1>3, <1>6
  <2>  QED
    BY <2>1, <2>2, <1>7
<1>9. U.node[r].arr = RightHalf(a) /\ U.node[r].leaf = FALSE /\ U.node[n].arr = Front(LeftHalf(a))
  BY <1>1, <1>5 DEF InternalWasSplit
<1>10. \A i \in D : /\ U.node[i].leaf = T.node[i].leaf
                    /\ U.node[i].prev = T.node[i].prev /\ U.node[i].next = T.node[i].next
  BY <1>1 DEF InternalWasSplit
<1>11. \A i \in D \ {n} : U.node[i].arr = T.node[i].arr
  BY <1>1 DEF InternalWasSplit
<1>12. L2 \in Seq(Nat) /\ Len(L2) = Len(L) + 1 /\ L2[r] = L[n] /\ \A i \in D : L2[i] = L[i]
  BY <1>4 DEF LevelsGrown
<1>13. R2 \in Seq(SUBSET Keys) /\ Len(R2) = Len(R) + 1 /\ \A i \in D \ {n} : R2[i] = R[i]
  BY <1>4 DEF RangesSplit
<1>14. TreeTypes(U, R2, L2)
  <2>1. U = [node |-> U.node, count |-> U.count, root |-> U.root, sane |-> U.sane]
    BY <1>7, <1>8
  <2>2. Len(R2) = Len(U.node) /\ Len(L2) = Len(U.node)
    BY <1>3, <1>7, <1>12, <1>13
  <2>  QED
    BY <2>1, <2>2, <1>7, <1>8, <1>12, <1>13 DEF TreeTypes
\* Both halves have room.
<1>15. Len(Front(LeftHalf(a))) < MaxKeys /\ Len(RightHalf(a)) < MaxKeys
       /\ Len(Front(LeftHalf(a))) <= MaxKeys /\ Len(RightHalf(a)) <= MaxKeys
  <2>1. Len(a) <= MaxKeys
    BY <1>1, <1>2, <1>5 DEF ArraysOK
  <2>2. a \in Arrays(Vals \cup Nat)
    <3>1. T.node[n] \in Nodes
      BY <1>3, <1>4, <1>5
    <3>  QED
      BY <3>1, <1>1, NodeFields
  <2>3. Len(a) \in Nat
    BY <2>2, ArrayFacts
  <2>4. U.node[n] \in Nodes /\ U.node[r] \in Nodes
    BY <1>5, <1>7
  <2>5. Front(LeftHalf(a)) \in Arrays(Vals \cup Nat) /\ RightHalf(a) \in Arrays(Vals \cup Nat)
    BY <2>4, <1>9, NodeFields
  <2>6. Len(Front(LeftHalf(a))) \in Nat /\ Len(RightHalf(a)) \in Nat
    BY <2>5, ArrayFacts
  <2>  QED
    BY <2>1, <2>3, <2>6, <1>6, SortedArrayAssumption
<1>16. ArraysOK(U)
  <2>  SUFFICES ASSUME NEW i \in D \cup {r}
                PROVE  /\ Ascending(U.node[i].arr) /\ Len(U.node[i].arr) <= MaxKeys
                       /\ U.node[i].leaf => ToSet(U.node[i].arr) \subseteq [key : Keys, data : Vals]
    BY <1>7 DEF ArraysOK
  <2>1. CASE i \in D \ {n}
    <3>1. U.node[i].arr = T.node[i].arr /\ U.node[i].leaf = T.node[i].leaf
      BY <2>1, <1>10, <1>11
    <3>  QED
      BY <2>1, <3>1, <1>1, <1>2 DEF ArraysOK
  <2>2. CASE i = n
    <3>1. ~U.node[n].leaf
      BY <1>5, <1>10
    <3>  QED
      BY <2>2, <3>1, <1>6, <1>9, <1>15
  <2>3. CASE i = r
    BY <2>3, <1>6, <1>9, <1>15
  <2>  QED
    BY <2>1, <2>2, <2>3
<1>17. FramesOK(U, s2, L2) /\ \A j \in 1 .. Len(s2) : s2[j].right # 0
  <2>1. \A i \in DOMAIN T.node : L2[i] = L[i]
    BY <1>1, <1>12
  <2>2. Len(Front(LeftHalf(T.node[n].arr))) < MaxKeys /\ Len(RightHalf(T.node[n].arr)) < MaxKeys
    BY <1>1, <1>15
  <2>3. L2[r] = L[n]
    BY <1>12
  <2>4. s[Len(s)].key # mid /\ mid \in Int
    BY <1>5, <1>6
  <2>5. FramesHalved(T, s, L, n, mid, r, U, s2, L2)
    BY <2>1, <2>2, <2>3, <2>4, <1>2, HalveFrames
  <2>  QED
    BY <2>5 DEF FramesHalved
<1>18. PendingHalved(T, s, n, r, mid, s2)
  <2>1. r \notin DOMAIN T.node /\ r # 0
    BY <1>1, <1>7
  <2>  QED
    BY <2>1, <1>2, <1>5, <1>6, HalvePending
<1>19. EntriesHalved(T, s, n, r, mid, U, s2)
  BY <1>1, <1>5, <1>18, HalveEntries
<1>20. HalvesLinked(T, r, U)
  BY <1>6, HalveLinks
<1>21. ChainOK(U, R2) /\ LeafEntries(U) = LeafEntries(T)
  <2>1. Leaves(U) = Leaves(T)
    BY <1>1, <1>7, <1>9, <1>10 DEF Leaves, Addresses
  <2>2. \A i \in Leaves(T) : i \in D \ {n}
    BY <1>1, <1>5 DEF Leaves, Addresses
  <2>3. \A i \in Leaves(T) : /\ U.node[i].next = T.node[i].next
                             /\ U.node[i].prev = T.node[i].prev
                             /\ U.node[i].arr = T.node[i].arr
                             /\ R2[i] = R[i]
    BY <2>2, <1>10, <1>11, <1>13
  <2>4. LeavesKept(T, U, R, R2)
    BY <2>1, <2>3, SameLeaves
  <2>  QED
    BY <2>4, <1>2 DEF LeavesKept
<1>  QED
  BY <1>14, <1>16, <1>17, <1>18, <1>19, <1>20, <1>21 DEF HalvesDone

\* The split of a node below the root: the new node is pending at the parent.
InternalSplitDone(T, s, n, r, mid, U, s2, R2, L2) ==
  /\ TreeOK(U, Append(s2, Frame(T.node[n].parent, mid, r)), R2, L2)
  /\ LeafEntries(U) = LeafEntries(T)

\* The split of a node below the root keeps the tree in order.
LEMMA InternalSplitKeeps ==
  ASSUME NEW T, NEW s, NEW R, NEW L, TreeOK(T, s, R, L), s # <<>>, s[Len(s)].right = 0,
         NEW n, n = s[Len(s)].node, NEW mid, InternalHalvesRight(T.node[n].arr, mid),
         SplitSituation(T, s, R, L, n, mid), T.node[n].parent # 0,
         NEW r, NEW U, InternalWasSplit(T, n, r, U),
         NEW s2, TopSplit(s, r, mid, s2), NEW R2, RangesSplit(R, n, mid, r, R2),
         NEW L2, LevelsGrown(L, r, L[n], L2)
  PROVE  InternalSplitDone(T, s, n, r, mid, U, s2, R2, L2)
<1>1. PICK D, p, g, s3, m : /\ D = DOMAIN T.node /\ p = T.node[n].parent
                            /\ g = Frame(p, mid, r) /\ s3 = Append(s2, g) /\ m = Len(s)
  OBVIOUS
<1>2. HalvesDone(T, s, n, r, mid, R, U, s2, R2, L2)
  BY HalvesKept
<1>3. TreeTypes(T, R, L) /\ ShapeOK(T, s, R, L) /\ RootOK(T, R, L) /\ LinksOK(T, s)
  BY DEF TreeOK
<1>4. T.node \in Seq(Nodes) /\ Len(R) = Len(T.node) /\ Len(L) = Len(T.node)
      /\ R \in Seq(SUBSET Keys) /\ L \in Seq(Nat)
  BY <1>3 DEF TreeTypes
<1>5. D = 1 .. Len(T.node) /\ DOMAIN R = D /\ DOMAIN L = D
  BY <1>1, <1>4
<1>6. /\ m \in Nat /\ n \in D /\ L[n] = m /\ ~T.node[n].leaf /\ mid \in R[n]
      /\ \E low \in R[n] : low < mid
  BY <1>1 DEF SplitSituation
<1>7. p \in D /\ p # 0 /\ ~T.node[p].leaf /\ HangsIn(T, p, n)
  BY <1>1, <1>3, <1>6 DEF LinksOK
<1>8. p \in Nat /\ r \in Nat /\ mid \in Int
  <2>1. p \in Nat
    BY <1>5, <1>7
  <2>2. r \in Nat
    BY DEF InternalWasSplit
  <2>3. mid \in Int
    BY DEF InternalHalvesRight
  <2>  QED
    BY <2>1, <2>2, <2>3
<1>9. DOMAIN U.node = D \cup {r} /\ r \notin D /\ r # 0
  BY <1>1 DEF InternalWasSplit
<1>10. /\ g \in FrameSet /\ Half(g) = p
       /\ g.node = p /\ g.key = mid /\ g.child = r /\ g.right = 0
  <2>1. FrameIsFresh(Frame(p, mid, r), p, mid, r)
    BY <1>8, FreshFrame
  <2>  QED
    BY <2>1, <1>1 DEF FrameIsFresh
\* The stack.
<1>11. s2 \in Seq(FrameSet) /\ Len(s2) = m
  BY <1>1 DEF TopSplit
<1>12. /\ s3 \in Seq(FrameSet) /\ Len(s3) = m + 1 /\ DOMAIN s2 = 1 .. m
       /\ DOMAIN s3 = DOMAIN s2 \cup {m + 1}
       /\ (\A j \in 1 .. m : s3[j] = s2[j]) /\ s3[m + 1] = g
  BY <1>1, <1>10, <1>11, AppendRight
<1>13. ToSet(s3) = ToSet(s2) \cup {g}
  BY <1>12 DEF ToSet
<1>14. /\ PendingOf(s3, p) = PendingOf(s2, p) \cup {Entry(mid, r)}
       /\ \A i \in (D \cup {r}) \ {p} : PendingOf(s3, i) = PendingOf(s2, i)
  <2>1. {q \in ToSet(s3) : Half(q) = p} = {q \in ToSet(s2) : Half(q) = p} \cup {g}
    BY <1>10, <1>13
  <2>2. ASSUME NEW i \in (D \cup {r}) \ {p}
        PROVE  {q \in ToSet(s3) : Half(q) = i} = {q \in ToSet(s2) : Half(q) = i}
    BY <1>10, <1>13
  <2>3. PendingOf(s3, p) = PendingOf(s2, p) \cup {Entry(g.key, g.child)}
    BY <2>1 DEF PendingOf
  <2>4. \A i \in (D \cup {r}) \ {p} : PendingOf(s3, i) = PendingOf(s2, i)
    BY <2>2 DEF PendingOf
  <2>  QED
    BY <2>3, <2>4, <1>10
\* The shape.
<1>15. PICK lf, lt, E, lf2, lt2, E2, F :
         /\ lf = LeafOf(T) /\ lt = LeftOf(T) /\ E = EntriesOf(T, s)
         /\ lf2 = LeafOf(U) /\ lt2 = LeftOf(U) /\ E2 = EntriesOf(U, s3)
         /\ F = EntriesOf(U, s2)
  OBVIOUS
<1>16. \A i \in D : /\ lf[i] = T.node[i].leaf /\ lt[i] = T.node[i].left
                    /\ E[i] = ToSet(T.node[i].arr) \cup PendingOf(s, i)
  BY <1>1, <1>15 DEF LeafOf, LeftOf, EntriesOf
<1>17. \A i \in D \cup {r} : lf2[i] = U.node[i].leaf /\ lt2[i] = U.node[i].left
  BY <1>9, <1>15 DEF LeafOf, LeftOf
<1>18. \A i \in D \cup {r} : /\ E2[i] = ToSet(U.node[i].arr) \cup PendingOf(s3, i)
                             /\ F[i] = ToSet(U.node[i].arr) \cup PendingOf(s2, i)
  BY <1>9, <1>15 DEF EntriesOf
<1>19. E2[p] = F[p] \cup {Entry(mid, r)} /\ \A i \in (D \cup {r}) \ {p} : E2[i] = F[i]
  BY <1>7, <1>14, <1>18
<1>20. /\ \A i \in D \ {n} : F[i] = E[i]
       /\ F[n] = {e \in E[n] : e.key < mid} /\ F[r] = {e \in E[n] : e.key > mid}
  BY <1>1, <1>2, <1>15 DEF HalvesDone, EntriesHalved
<1>21. Shape(D, lf, lt, E, R, L)
  BY <1>1, <1>3, <1>15 DEF ShapeOK
<1>22. /\ n = lt[p] \/ \E e \in E[p] : e.data = n
       /\ ~lf[p] /\ ~lf[n]
  BY <1>6, <1>7, <1>16 DEF HangsIn
<1>23. p # n
  <2>1. Divides(D, lt, E, R, L, p)
    BY <1>7, <1>21, <1>22 DEF Shape
  <2>2. L[n] = L[p] - 1
    BY <2>1, <1>22 DEF Divides
  <2>  QED
    BY <2>2, <1>6
<1>24. SplitsInto(D, lf, lt, E, R, L, lf2, lt2, E2, R2, L2, n, r, p, mid)
  <2>1. /\ \A i \in D : L2[i] = L[i]
        /\ L2[r] = L[n]
    BY <1>5 DEF LevelsGrown
  <2>2. \A i \in D : U.node[i].leaf = T.node[i].leaf /\ U.node[i].left = T.node[i].left
    BY <1>1 DEF InternalWasSplit
  <2>3. \A i \in D : lf2[i] = lf[i] /\ lt2[i] = lt[i]
    BY <2>2, <1>16, <1>17
  <2>4. U.node[r].leaf = FALSE /\ U.node[r].left = Last(LeftHalf(T.node[n].arr)).data
    BY DEF InternalWasSplit
  <2>5. lf2[r] = lf[n]
    <3>1. T.node[n].leaf \in BOOLEAN
      <4>1. T.node[n] \in Nodes
        BY <1>4, <1>5, <1>6
      <4>  QED
        BY <4>1, NodeFields
    <3>  QED
      BY <3>1, <2>4, <1>6, <1>16, <1>17
  <2>6. /\ \A i \in D \ {n} : R2[i] = R[i]
        /\ R2[n] = {k \in R[n] : k < mid} /\ R2[r] = {k \in R[n] : k >= mid}
    BY <1>5 DEF RangesSplit
  <2>7. \A i \in D \ {n, p} : E2[i] = E[i]
    BY <1>19, <1>20
  <2>8. E2[p] = E[p] \cup {Entry(mid, r)}
    BY <1>7, <1>19, <1>20, <1>23
  <2>9. E2[n] = {e \in E[n] : e.key < mid} /\ E2[r] = {e \in E[n] : e.key > mid}
    BY <1>6, <1>7, <1>9, <1>19, <1>20, <1>23
  <2>10. \E z \in E[n] : z.key = mid /\ lt2[r] = z.data
    <3>1. PICK z \in ToSet(T.node[n].arr) : z.key = mid /\ z = Last(LeftHalf(T.node[n].arr))
      BY DEF SplitSituation
    <3>2. z \in E[n] /\ lt2[r] = z.data
      BY <3>1, <2>4, <1>6, <1>16, <1>17
    <3>  QED
      BY <3>1, <3>2
  <2>  QED
    BY <2>1, <2>3, <2>5, <2>6, <2>7, <2>8, <2>9, <2>10, <1>22 DEF SplitsInto
<1>25. Shape(D \cup {r}, lf2, lt2, E2, R2, L2) /\ L[p] = L[n] + 1
  <2>1. SplitKeepsShape(D, lf, lt, E, R, L, lf2, lt2, E2, R2, L2, n, r, p, mid)
    BY <1>6, <1>7, <1>9, <1>21, <1>22, <1>24, SplitShape
  <2>  QED
    BY <2>1 DEF SplitKeepsShape
<1>26. ShapeOK(U, s3, R2, L2)
  BY <1>9, <1>15, <1>25 DEF ShapeOK
<1>27. U.root = T.root
  <2>1. U = [node |-> U.node, count |-> U.count, root |-> T.root, sane |-> U.sane]
    BY DEF InternalWasSplit
  <2>  QED
    BY <2>1
<1>28. /\ T.root \in D /\ R[T.root] = Keys /\ L[T.root] >= 1 /\ \A i \in D : L[i] <= L[T.root]
       /\ T.root # n
  BY <1>1, <1>3 DEF RootOK, LinksOK
<1>29. RootOK(U, R2, L2)
  <2>1. R2[T.root] = Keys
    BY <1>5, <1>28 DEF RangesSplit
  <2>2. L2[r] = L[n] /\ \A i \in D : L2[i] = L[i]
    BY <1>5 DEF LevelsGrown
  <2>3. L2[T.root] >= 1 /\ \A i \in D \cup {r} : L2[i] <= L2[T.root]
    BY <2>2, <1>6, <1>28
  <2>  QED
    BY <2>1, <2>3, <1>9, <1>27, <1>28 DEF RootOK
<1>30. LinksOK(U, s3)
  <2>1. /\ \A q \in D \cup {r}, i \in D \cup {r} :
             ~U.node[q].leaf /\ HangsIn(U, q, i) => U.node[i].parent = q
        /\ \A i \in D \cup {r} : U.node[i].parent # 0 =>
             LET q == U.node[i].parent IN
               q \in D \cup {r} /\ ~U.node[q].leaf /\ HangsIn(U, q, i)
    BY <1>2, <1>9 DEF HalvesDone, HalvesLinked
  <2>2. /\ \A i \in D : U.node[i].parent = 0 <=> T.node[i].parent = 0
        /\ U.node[r].parent = 0
    BY <1>1, <1>2 DEF HalvesDone, HalvesLinked
  <2>3. \A i : (\E q \in ToSet(s2) : q.child = i) <=> (\E q \in ToSet(s) : q.child = i)
    BY <1>2 DEF HalvesDone, PendingHalved
  <2>4. \A i \in D : T.node[i].parent = 0 <=> i = T.root \/ \E q \in ToSet(s) : q.child = i
    BY <1>1, <1>3 DEF LinksOK
  <2>5. ASSUME NEW i \in D \cup {r}
        PROVE  U.node[i].parent = 0 <=> i = U.root \/ \E q \in ToSet(s3) : q.child = i
    <3>1. (\E q \in ToSet(s3) : q.child = i) <=> i = r \/ \E q \in ToSet(s2) : q.child = i
      BY <1>10, <1>13
    <3>2. CASE i = r
      BY <3>1, <3>2, <2>2
    <3>3. CASE i \in D
      BY <3>1, <3>3, <2>2, <2>3, <2>4, <1>9, <1>27
    <3>  QED
      BY <3>2, <3>3
  <2>6. DOMAIN U.node = D \cup {r}
    BY <1>9
  <2>  QED
    BY <2>1, <2>5, <2>6 DEF LinksOK
<1>31. FramesOK(U, s3, L2)
  <2>1. FramesOK(U, s2, L2) /\ \A j \in 1 .. m : s2[j].right # 0
    BY <1>2, <1>11 DEF HalvesDone
  <2>2. L2[r] = m /\ L2[p] = m + 1
    <3>1. L2[r] = L[n] /\ L2[p] = L[p]
      BY <1>5, <1>7 DEF LevelsGrown
    <3>  QED
      BY <3>1, <1>6, <1>25
  <2>3. ASSUME NEW j \in 1 .. m + 1
        PROVE  /\ s3[j].node \in DOMAIN U.node /\ L2[s3[j].node] = j
               /\ s3[j].child \in DOMAIN U.node /\ L2[s3[j].child] = j - 1
               /\ j # m + 1 => s3[j].right # 0
               /\ s3[j].right # 0 =>
                    /\ s3[j].right \in DOMAIN U.node /\ L2[s3[j].right] = j
                    /\ s3[j].key # s3[j].mid /\ Len(U.node[Half(s3[j])].arr) < MaxKeys
    <3>1. CASE j = m + 1
      <4>1. s3[j] = g /\ j - 1 = m
        BY <3>1, <1>6, <1>12
      <4>2. p \in DOMAIN U.node /\ r \in DOMAIN U.node
        BY <1>7, <1>9
      <4>  QED
        BY <3>1, <4>1, <4>2, <2>2, <1>10
    <3>2. CASE j # m + 1
      <4>1. j \in 1 .. m
        BY <3>2, <1>6
      <4>2. s3[j] = s2[j]
        BY <4>1, <1>12
      <4>  QED
        BY <4>1, <4>2, <2>1, <1>11 DEF FramesOK
    <3>  QED
      BY <3>1, <3>2
  <2>  QED
    BY <2>3, <1>12 DEF FramesOK
<1>32. TreeOK(U, s3, R2, L2)
  BY <1>2, <1>26, <1>29, <1>30, <1>31 DEF TreeOK, HalvesDone
<1>  QED
  BY <1>1, <1>2, <1>32 DEF InternalSplitDone, HalvesDone

\* The split that put_to_internal_node makes is one.
InternalSplitMade(T, s, R, L, n, mid, r, s2, R2) ==
  /\ InternalHalvesRight(T.node[n].arr, mid) /\ SplitSituation(T, s, R, L, n, mid)
  /\ InternalWasSplit(T, n, r, InternalSplit(T, n, r)) /\ TopSplit(s, r, mid, s2)
  /\ RangesSplit(R, n, mid, r, R2) /\ LevelsGrown(L, r, L[n], Append(L, L[n]))

\* InternalSplit, Split and RangeSplit are the parts of such a split.
LEMMA InternalSplitFacts ==
  ASSUME NEW T, NEW s, NEW R, NEW L, TreeOK(T, s, R, L), s # <<>>, s[Len(s)].right = 0,
         NEW n, n = s[Len(s)].node, ~HasRoom(T, n), NEW mid, mid = MidKey(T.node[n].arr),
         NEW r, r = Len(T.node) + 1, NEW s2,
         s2 = [s EXCEPT ![Len(s)] = [s[Len(s)] EXCEPT !.right = r, !.mid = mid]],
         NEW R2, R2 = Append([R EXCEPT ![n] = {k \in R[n] : k < mid}], {k \in R[n] : k >= mid})
  PROVE  InternalSplitMade(T, s, R, L, n, mid, r, s2, R2)
<1>1. PICK D, a, m : D = DOMAIN T.node /\ a = T.node[n].arr /\ m = Len(s)
  OBVIOUS
<1>2. TreeTypes(T, R, L) /\ ArraysOK(T) /\ FramesOK(T, s, L)
  BY DEF TreeOK
<1>3. /\ R \in Seq(SUBSET Keys) /\ L \in Seq(Nat)
      /\ Len(R) = Len(T.node) /\ Len(L) = Len(T.node) /\ T.node \in Seq(Nodes)
  BY <1>2 DEF TreeTypes
<1>4. s \in Seq(FrameSet)
  BY <1>2 DEF FramesOK
<1>5. m \in 1 .. m
  <2>1. m \in Nat /\ m >= 1
    BY <1>1, <1>4, FrontRight
  <2>  QED
    BY <2>1
<1>6. n \in D /\ Len(T.node) \in Nat /\ D = 1 .. Len(T.node)
  BY <1>1, <1>2, <1>3, <1>5 DEF FramesOK
<1>7. a \in Arrays(Vals \cup Nat) /\ Ascending(a) /\ is_full(a)
  <2>1. T.node[n] \in Nodes
    BY <1>3, <1>6
  <2>2. Ascending(a)
    BY <1>1, <1>2, <1>6 DEF ArraysOK
  <2>  QED
    BY <2>1, <2>2, <1>1, NodeFields DEF HasRoom
<1>8. InternalHalvesRight(a, mid)
  BY <1>1, <1>7, HalvesOfInternal
<1>9. SplitSituation(T, s, R, L, n, mid)
  BY <1>1, <1>8, SplitMeets
<1>10. Last(LeftHalf(a)).data \in Nat
  <2>1. Last(LeftHalf(a)).data \in D
    BY <1>1, <1>9 DEF SplitSituation
  <2>  QED
    BY <2>1, <1>6
<1>11. InternalWasSplit(T, n, r, InternalSplit(T, n, r))
  BY <1>1, <1>2, <1>6, <1>7, <1>10, InternalSplitRight
<1>12. r \in Nat /\ mid \in Int
  <2>1. mid \in Int
    BY <1>8 DEF InternalHalvesRight
  <2>  QED
    BY <2>1, <1>6
<1>13. TopSplit(s, r, mid, s2)
  BY <1>4, <1>12, TopSplitRight
<1>14. RangesSplit(R, n, mid, r, R2)
  <2>1. n \in DOMAIN R
    BY <1>3, <1>6
  <2>2. RangesSplit(R, n, mid, Len(R) + 1, R2)
    BY <2>1, <1>3, RangeSplitRight
  <2>  QED
    BY <2>2, <1>3
<1>15. LevelsGrown(L, r, L[n], Append(L, L[n]))
  <2>1. L[n] \in Nat
    BY <1>3, <1>6
  <2>2. LevelsGrown(L, Len(L) + 1, L[n], Append(L, L[n]))
    BY <2>1, <1>3, GrowLevels
  <2>  QED
    BY <2>2, <1>3
<1>  QED
  BY <1>1, <1>8, <1>9, <1>11, <1>13, <1>14, <1>15 DEF InternalSplitMade

-----------------------------------------------------------------------------
(***************************************************************************)
(* put_to_internal_node when the root splits                               *)
(***************************************************************************)
\* The tree V is U with a new root t over nodes n and r.
RootAdded(U, n, mid, r, t, V) ==
  /\ V = [node |-> V.node, count |-> V.count, root |-> t, sane |-> U.sane]
  /\ V.node \in Seq(Nodes) /\ Len(V.node) = Len(U.node) + 1
  /\ DOMAIN V.node = DOMAIN U.node \cup {t} /\ t \notin DOMAIN U.node
  /\ t \in Nat /\ t # 0
  /\ \A i \in DOMAIN U.node :
       /\ V.node[i].leaf = U.node[i].leaf /\ V.node[i].left = U.node[i].left
       /\ V.node[i].prev = U.node[i].prev /\ V.node[i].next = U.node[i].next
       /\ V.node[i].arr = U.node[i].arr
       /\ V.node[i].parent = IF i \in {n, r} THEN t ELSE U.node[i].parent
  /\ V.node[t].leaf = FALSE /\ V.node[t].left = n /\ V.node[t].arr = <<Entry(mid, r)>>
  /\ V.node[t].parent = 0

\* NewRoot makes the nodes that RootAdded describes.
LEMMA NewRootRight ==
  ASSUME NEW U, NEW R, NEW L, TreeTypes(U, R, L), NEW n \in DOMAIN U.node, NEW mid \in Int,
         NEW r \in DOMAIN U.node, NEW t, t = Len(U.node) + 1
  PROVE  RootAdded(U, n, mid, r, t, NewRoot(U, n, mid, r))
<1>1. PICK ns : ns = U.node
  OBVIOUS
<1>2. ns \in Seq(Nodes) /\ n \in DOMAIN ns /\ r \in DOMAIN ns
  BY <1>1 DEF TreeTypes
<1>3. Len(ns) \in Nat /\ DOMAIN ns = 1 .. Len(ns)
  BY <1>2
<1>4. n \in Nat /\ r \in Nat /\ t \in Nat /\ t # 0 /\ t = Len(ns) + 1
  BY <1>1, <1>2, <1>3
<1>5. PICK x, arr, y : x = Entry(mid, r) /\ arr = <<x>> /\ y = Internal(n, arr)
  OBVIOUS
<1>6. arr \in Arrays(Vals \cup Nat)
  <2>1. x \in [key : Int, data : Vals \cup Nat]
    BY <1>4, <1>5 DEF Entry
  <2>2. arr \in Seq([key : Int, data : Vals \cup Nat])
    BY <2>1, <1>5
  <2>  QED
    BY <2>2 DEF Arrays
<1>7. y = [leaf |-> FALSE, arr |-> arr, left |-> n, parent |-> 0, prev |-> 0, next |-> 0]
  BY <1>5 DEF Internal
<1>8. y \in Nodes
  BY <1>4, <1>6, <1>7 DEF Nodes
<1>9. PICK qs : qs = Append(ns, y)
  OBVIOUS
<1>10. /\ qs \in Seq(Nodes) /\ Len(qs) = t /\ DOMAIN qs = DOMAIN ns \cup {t}
       /\ t \notin DOMAIN ns /\ (\A i \in DOMAIN ns : qs[i] = ns[i]) /\ qs[t] = y
  BY <1>2, <1>4, <1>8, <1>9, AppendRight
<1>11. PICK ws : ws = SetParent(qs, {n, r}, t)
  OBVIOUS
<1>12. ParentSet(qs, {n, r}, t, ws)
  BY <1>4, <1>10, <1>11, SetParentRight
<1>13. PICK V : V = NewRoot(U, n, mid, r)
  OBVIOUS
<1>14. /\ V.node = ws /\ V = [node |-> V.node, count |-> V.count, root |-> t, sane |-> U.sane]
  <2>1. U = [node |-> U.node, count |-> U.count, root |-> U.root, sane |-> U.sane]
    BY DEF TreeTypes
  <2>2. PICK c : c = Append(U.count, U.count[n] + U.count[r])
    OBVIOUS
  <2>3. V = [U EXCEPT !.node = ws, !.count = c, !.root = t]
    BY <2>2, <1>1, <1>5, <1>9, <1>11, <1>13 DEF NewRoot
  <2>4. V = [node |-> ws, count |-> c, root |-> t, sane |-> U.sane]
    BY <2>1, <2>3
  <2>  QED
    BY <2>4
<1>15. ws \in Seq(Nodes) /\ Len(ws) = t /\ DOMAIN ws = DOMAIN ns \cup {t}
  BY <1>10, <1>12 DEF ParentSet
<1>16. /\ ws[t].leaf = FALSE /\ ws[t].left = n /\ ws[t].arr = arr /\ ws[t].parent = 0
  <2>1. t \notin {n, r}
    BY <1>2, <1>10
  <2>  QED
    BY <2>1, <1>7, <1>10, <1>12 DEF ParentSet
<1>17. ASSUME NEW i \in DOMAIN ns
       PROVE  /\ ws[i].leaf = ns[i].leaf /\ ws[i].left = ns[i].left
              /\ ws[i].prev = ns[i].prev /\ ws[i].next = ns[i].next
              /\ ws[i].arr = ns[i].arr
              /\ ws[i].parent = IF i \in {n, r} THEN t ELSE ns[i].parent
  <2>1. qs[i] = ns[i] /\ i \in DOMAIN qs
    BY <1>10
  <2>2. /\ ws[i].leaf = qs[i].leaf /\ ws[i].arr = qs[i].arr /\ ws[i].left = qs[i].left
        /\ ws[i].prev = qs[i].prev /\ ws[i].next = qs[i].next
        /\ ws[i].parent = IF i \in {n, r} THEN t ELSE qs[i].parent
    BY <2>1, <1>12 DEF ParentSet
  <2>  QED
    BY <2>1, <2>2
<1>18. /\ V.node \in Seq(Nodes) /\ Len(V.node) = Len(U.node) + 1
       /\ DOMAIN V.node = DOMAIN U.node \cup {t} /\ t \notin DOMAIN U.node
  BY <1>1, <1>4, <1>10, <1>14, <1>15
<1>19. RootAdded(U, n, mid, r, t, V)
  BY <1>1, <1>4, <1>5, <1>14, <1>16, <1>17, <1>18 DEF RootAdded
<1>  QED
  BY <1>13, <1>19

\* The ranges with the one of a new root t, which serves all keys.
RootRange(R, t, R2) ==
  /\ R2 \in Seq(SUBSET Keys) /\ Len(R2) = Len(R) + 1 /\ R2[t] = Keys
  /\ \A i \in DOMAIN R : R2[i] = R[i]

\* The split of the root: the halves are the children of a new one.
RootSplitDone(T, s, n, r, mid, U, V, s2, R3, L3) ==
  /\ TreeOK(V, s2, R3, L3) /\ LeafEntries(V) = LeafEntries(T)
  /\ \A j \in 1 .. Len(s2) : s2[j].right # 0

\* The split of the root keeps the tree in order.
LEMMA RootSplitKeeps ==
  ASSUME NEW T, NEW s, NEW R, NEW L, TreeOK(T, s, R, L), s # <<>>, s[Len(s)].right = 0,
         NEW n, n = s[Len(s)].node, NEW mid, InternalHalvesRight(T.node[n].arr, mid),
         SplitSituation(T, s, R, L, n, mid), T.node[n].parent = 0,
         NEW r, NEW U, InternalWasSplit(T, n, r, U),
         NEW s2, TopSplit(s, r, mid, s2), NEW R2, RangesSplit(R, n, mid, r, R2),
         NEW L2, LevelsGrown(L, r, L[n], L2),
         NEW t, NEW V, RootAdded(U, n, mid, r, t, V),
         NEW R3, RootRange(R2, t, R3), NEW L3, LevelsGrown(L2, t, L[n] + 1, L3)
  PROVE  RootSplitDone(T, s, n, r, mid, U, V, s2, R3, L3)
<1>1. PICK D, B, m : D = DOMAIN T.node /\ B = DOMAIN U.node /\ m = Len(s)
  OBVIOUS
<1>2. HalvesDone(T, s, n, r, mid, R, U, s2, R2, L2)
  BY HalvesKept
<1>3. /\ TreeTypes(T, R, L) /\ ShapeOK(T, s, R, L) /\ RootOK(T, R, L) /\ LinksOK(T, s)
      /\ FramesOK(T, s, L)
  BY DEF TreeOK
<1>4. T.node \in Seq(Nodes) /\ Len(R) = Len(T.node) /\ Len(L) = Len(T.node)
      /\ R \in Seq(SUBSET Keys) /\ L \in Seq(Nat)
  BY <1>3 DEF TreeTypes
<1>5. D = 1 .. Len(T.node) /\ DOMAIN R = D /\ DOMAIN L = D
  BY <1>1, <1>4
<1>6. /\ m \in Nat /\ n \in D /\ L[n] = m /\ ~T.node[n].leaf /\ mid \in R[n]
      /\ \E low \in R[n] : low < mid
  BY <1>1 DEF SplitSituation
<1>7. B = D \cup {r} /\ r \notin D /\ r # 0
  BY <1>1 DEF InternalWasSplit
<1>8. /\ TreeTypes(U, R2, L2) /\ ArraysOK(U) /\ FramesOK(U, s2, L2) /\ ChainOK(U, R2)
      /\ LeafEntries(U) = LeafEntries(T) /\ HalvesLinked(T, r, U)
      /\ \A j \in 1 .. Len(s2) : s2[j].right # 0
  BY <1>2 DEF HalvesDone
<1>9. /\ Len(R2) = Len(U.node) /\ Len(L2) = Len(U.node) /\ U.sane = TRUE
      /\ U.node \in Seq(Nodes) /\ R2 \in Seq(SUBSET Keys) /\ L2 \in Seq(Nat)
  BY <1>8 DEF TreeTypes
<1>10. DOMAIN R2 = B /\ DOMAIN L2 = B
  BY <1>1, <1>9
<1>11. /\ V = [node |-> V.node, count |-> V.count, root |-> t, sane |-> U.sane]
       /\ V.node \in Seq(Nodes) /\ Len(V.node) = Len(U.node) + 1
       /\ DOMAIN V.node = B \cup {t} /\ t \notin B /\ t # 0
  BY <1>1 DEF RootAdded
<1>12. \A i \in B : /\ V.node[i].leaf = U.node[i].leaf /\ V.node[i].left = U.node[i].left
                    /\ V.node[i].prev = U.node[i].prev /\ V.node[i].next = U.node[i].next
                    /\ V.node[i].arr = U.node[i].arr
                    /\ V.node[i].parent = IF i \in {n, r} THEN t ELSE U.node[i].parent
  BY <1>1 DEF RootAdded
<1>13. /\ V.node[t].leaf = FALSE /\ V.node[t].left = n /\ V.node[t].arr = <<Entry(mid, r)>>
       /\ V.node[t].parent = 0
  BY DEF RootAdded
<1>14. V.root = t /\ V.sane = TRUE
  BY <1>9, <1>11
<1>15. ToSet(<<Entry(mid, r)>>) = {Entry(mid, r)} /\ Entry(mid, r).data = r
  BY DEF ToSet, Entry
<1>16. t # r /\ t \notin D /\ t # n /\ n # r
  BY <1>6, <1>7, <1>11
\* Ranges and levels.
<1>17. /\ R3 \in Seq(SUBSET Keys) /\ Len(R3) = Len(R2) + 1 /\ R3[t] = Keys
       /\ \A i \in B : R3[i] = R2[i]
  BY <1>10 DEF RootRange
<1>18. /\ R2[n] = {k \in R[n] : k < mid} /\ R2[r] = {k \in R[n] : k >= mid}
       /\ \A i \in D \ {n} : R2[i] = R[i]
  BY <1>5 DEF RangesSplit
<1>19. L3 \in Seq(Nat) /\ Len(L3) = Len(L2) + 1 /\ L3[t] = m + 1 /\ \A i \in B : L3[i] = L2[i]
  BY <1>6, <1>10 DEF LevelsGrown
<1>20. L2[r] = m /\ \A i \in D : L2[i] = L[i]
  BY <1>5, <1>6 DEF LevelsGrown
<1>21. L3[t] = m + 1 /\ L3[r] = m /\ \A i \in D : L3[i] = L[i]
  BY <1>7, <1>19, <1>20
\* The node is the root.
<1>22. \A i \in D : (\E g \in ToSet(s) : g.child = i) => L[i] < m
  <2>1. ASSUME NEW i \in D, NEW g \in ToSet(s), g.child = i PROVE L[i] < m
    <3>1. PICK j \in 1 .. m : g = s[j]
      BY <1>1, <1>3, HalfLevel
    <3>2. L[i] = j - 1
      BY <3>1, <2>1, <1>1, <1>3 DEF FramesOK
    <3>  QED
      BY <3>2, <1>6
  <2>  QED
    BY <2>1
<1>23. n = T.root
  <2>1. n = T.root \/ \E g \in ToSet(s) : g.child = n
    BY <1>1, <1>3, <1>6 DEF LinksOK
  <2>2. ~(L[n] < m)
    BY <1>6
  <2>  QED
    BY <2>1, <2>2, <1>6, <1>22
<1>24. R[n] = Keys /\ m >= 1 /\ \A i \in D : L[i] <= m
  <2>1. L[n] >= 1 /\ R[n] = Keys /\ \A i \in D : L[i] <= L[n]
    BY <1>1, <1>3, <1>23 DEF RootOK
  <2>  QED
    BY <2>1, <1>6
\* The shape, with the new root still empty.
<1>25. PICK lf, lt, E, lf1, lt1, E1, R1, L1 :
         /\ lf = LeafOf(T) /\ lt = LeftOf(T) /\ E = EntriesOf(T, s)
         /\ lf1 = [i \in D \cup {t} |-> IF i = t THEN FALSE ELSE lf[i]]
         /\ lt1 = [i \in D \cup {t} |-> IF i = t THEN n ELSE lt[i]]
         /\ E1 = [i \in D \cup {t} |-> IF i = t THEN {} ELSE E[i]]
         /\ R1 = [i \in D \cup {t} |-> IF i = t THEN Keys ELSE R[i]]
         /\ L1 = [i \in D \cup {t} |-> IF i = t THEN m + 1 ELSE L[i]]
  OBVIOUS
<1>26. \A i \in D : /\ lf[i] = T.node[i].leaf /\ lt[i] = T.node[i].left
                    /\ E[i] = ToSet(T.node[i].arr) \cup PendingOf(s, i)
  BY <1>1, <1>25 DEF LeafOf, LeftOf, EntriesOf
<1>27. /\ \A i \in D : /\ lf1[i] = lf[i] /\ lt1[i] = lt[i] /\ E1[i] = E[i]
                       /\ R1[i] = R[i] /\ L1[i] = L[i]
       /\ ~lf1[t] /\ lt1[t] = n /\ E1[t] = {} /\ R1[t] = Keys /\ L1[t] = m + 1
  BY <1>16, <1>25
<1>28. Shape(D, lf, lt, E, R, L)
  BY <1>1, <1>3, <1>25 DEF ShapeOK
<1>29. Shape(D \cup {t}, lf1, lt1, E1, R1, L1)
  <2>1. L1[t] = L[n] + 1 /\ \A i \in D : L[i] <= L[n]
    BY <1>6, <1>24, <1>27
  <2>2. \A i \in D : /\ lf1[i] = lf[i] /\ lt1[i] = lt[i] /\ L1[i] = L[i]
                     /\ R1[i] = R[i] /\ E1[i] = E[i]
    BY <1>27
  <2>3. ~lf1[t] /\ lt1[t] = n /\ E1[t] = {} /\ R1[t] = Keys
    BY <1>27
  <2>4. t \notin D /\ n \in D /\ R[n] = Keys
    BY <1>6, <1>16, <1>24
  <2>5. RootKeepsShape(D, lf, lt, E, R, L, lf1, lt1, E1, R1, L1, n, t)
    BY <2>1, <2>2, <2>3, <2>4, <1>28, RootShape
  <2>  QED
    BY <2>5 DEF RootKeepsShape
\* The split below it.
<1>30. PICK lf3, lt3, E3, F : /\ lf3 = LeafOf(V) /\ lt3 = LeftOf(V)
                              /\ E3 = EntriesOf(V, s2) /\ F = EntriesOf(U, s2)
  OBVIOUS
<1>31. \A i \in B \cup {t} : lf3[i] = V.node[i].leaf /\ lt3[i] = V.node[i].left
  BY <1>11, <1>30 DEF LeafOf, LeftOf
<1>32. \A i \in B \cup {t} : E3[i] = ToSet(V.node[i].arr) \cup PendingOf(s2, i)
  BY <1>11, <1>30 DEF EntriesOf
<1>33. \A i \in B : E3[i] = F[i]
  <2>  SUFFICES ASSUME NEW i \in B PROVE E3[i] = F[i]
    OBVIOUS
  <2>1. F[i] = ToSet(U.node[i].arr) \cup PendingOf(s2, i)
    BY <1>1, <1>30 DEF EntriesOf
  <2>2. E3[i] = ToSet(V.node[i].arr) \cup PendingOf(s2, i)
    BY <1>32
  <2>3. V.node[i].arr = U.node[i].arr
    BY <1>12
  <2>  QED
    BY <2>1, <2>2, <2>3
<1>34. /\ \A i \in D \ {n} : F[i] = E[i]
       /\ F[n] = {e \in E[n] : e.key < mid} /\ F[r] = {e \in E[n] : e.key > mid}
  BY <1>1, <1>2, <1>25, <1>30 DEF HalvesDone, EntriesHalved
<1>35. PendingOf(s2, t) = {}
  <2>1. \A q \in ToSet(s2) : Half(q) \in B
    BY <1>1, <1>8, HalfLevel
  <2>  QED
    BY <2>1, <1>11 DEF PendingOf
<1>36. E3[t] = {Entry(mid, r)}
  BY <1>13, <1>15, <1>32, <1>35
<1>37. SplitsInto(D \cup {t}, lf1, lt1, E1, R1, L1, lf3, lt3, E3, R3, L3, n, r, t, mid)
  <2>1. \A i \in D : U.node[i].leaf = T.node[i].leaf /\ U.node[i].left = T.node[i].left
    BY <1>1 DEF InternalWasSplit
  <2>2. \A i \in D \cup {t} : lf3[i] = lf1[i] /\ lt3[i] = lt1[i]
    <3>1. ASSUME NEW i \in D PROVE lf3[i] = lf1[i] /\ lt3[i] = lt1[i]
      BY <2>1, <1>7, <1>12, <1>26, <1>27, <1>31
    <3>2. lf3[t] = FALSE /\ lt3[t] = n
      BY <1>13, <1>31
    <3>3. lf1[t] = FALSE /\ lt1[t] = n
      BY <1>25
    <3>  QED
      BY <3>1, <3>2, <3>3
  <2>3. U.node[r].leaf = FALSE /\ U.node[r].left = Last(LeftHalf(T.node[n].arr)).data
    BY DEF InternalWasSplit
  <2>4. lf3[r] = FALSE /\ lt3[r] = Last(LeftHalf(T.node[n].arr)).data
    BY <2>3, <1>7, <1>12, <1>31
  <2>5. lf3[r] = lf1[n] /\ ~lf1[n]
    <3>1. T.node[n] \in Nodes
      BY <1>4, <1>5, <1>6
    <3>2. T.node[n].leaf \in BOOLEAN
      BY <3>1, NodeFields
    <3>  QED
      BY <3>2, <2>4, <1>6, <1>26, <1>27
  <2>6. L3[r] = L1[n] /\ \A i \in D \cup {t} : L3[i] = L1[i]
    BY <1>6, <1>21, <1>27
  <2>7. /\ \A i \in (D \cup {t}) \ {n} : R3[i] = R1[i]
        /\ R3[n] = {k \in R1[n] : k < mid} /\ R3[r] = {k \in R1[n] : k >= mid}
    BY <1>6, <1>7, <1>17, <1>18, <1>27
  <2>8. \A i \in (D \cup {t}) \ {n, t} : E3[i] = E1[i]
    BY <1>7, <1>27, <1>33, <1>34
  <2>9. E3[t] = E1[t] \cup {Entry(mid, r)}
    BY <1>27, <1>36
  <2>10. E3[n] = {e \in E1[n] : e.key < mid} /\ E3[r] = {e \in E1[n] : e.key > mid}
    BY <1>6, <1>7, <1>27, <1>33, <1>34
  <2>11. \E z \in E1[n] : z.key = mid /\ lt3[r] = z.data
    <3>1. PICK z \in ToSet(T.node[n].arr) : z.key = mid /\ z = Last(LeftHalf(T.node[n].arr))
      BY DEF SplitSituation
    <3>2. z \in E1[n] /\ lt3[r] = z.data
      BY <3>1, <2>4, <1>6, <1>26, <1>27
    <3>  QED
      BY <3>1, <3>2
  <2>  QED
    BY <2>2, <2>5, <2>6, <2>7, <2>8, <2>9, <2>10, <2>11 DEF SplitsInto
<1>38. Shape(B \cup {t}, lf3, lt3, E3, R3, L3)
  <2>1. n \in D \cup {t} /\ r \notin D \cup {t} /\ t \in D \cup {t} /\ ~lf1[t] /\ n = lt1[t]
    BY <1>6, <1>7, <1>16, <1>27
  <2>2. mid \in R1[n] /\ \E low \in R1[n] : low < mid
    BY <1>6, <1>27
  <2>3. SplitKeepsShape(D \cup {t}, lf1, lt1, E1, R1, L1, lf3, lt3, E3, R3, L3, n, r, t, mid)
    BY <2>1, <2>2, <1>29, <1>37, SplitShape
  <2>4. (D \cup {t}) \cup {r} = B \cup {t}
    BY <1>7
  <2>  QED
    BY <2>3, <2>4 DEF SplitKeepsShape
<1>39. ShapeOK(V, s2, R3, L3)
  BY <1>11, <1>30, <1>38 DEF ShapeOK
<1>40. TreeTypes(V, R3, L3)
  <2>1. V = [node |-> V.node, count |-> V.count, root |-> V.root, sane |-> V.sane]
    <3>1. V.root = t /\ V.sane = U.sane
      BY <1>11
    <3>  QED
      BY <3>1, <1>11
  <2>2. Len(R3) = Len(V.node) /\ Len(L3) = Len(V.node)
    BY <1>9, <1>11, <1>17, <1>19
  <2>  QED
    BY <2>1, <2>2, <1>11, <1>14, <1>17, <1>19 DEF TreeTypes
<1>41. ArraysOK(V)
  <2>  SUFFICES ASSUME NEW i \in B \cup {t}
                PROVE  /\ Ascending(V.node[i].arr) /\ Len(V.node[i].arr) <= MaxKeys
                       /\ V.node[i].leaf => ToSet(V.node[i].arr) \subseteq [key : Keys, data : Vals]
    BY <1>11 DEF ArraysOK
  <2>1. CASE i \in B
    <3>1. V.node[i].arr = U.node[i].arr /\ V.node[i].leaf = U.node[i].leaf
      BY <2>1, <1>12
    <3>  QED
      BY <2>1, <3>1, <1>1, <1>8 DEF ArraysOK
  <2>2. CASE i = t
    <3>1. PICK a : a = <<Entry(mid, r)>>
      OBVIOUS
    <3>2. Len(a) = 1 /\ DOMAIN a = 1 .. 1
      BY <3>1
    <3>3. Ascending(a)
      BY <3>2 DEF Ascending
    <3>4. Len(a) <= MaxKeys
      BY <3>2, SortedArrayAssumption
    <3>  QED
      BY <2>2, <3>1, <3>3, <3>4, <1>13
  <2>  QED
    BY <2>1, <2>2
<1>42. RootOK(V, R3, L3)
  <2>1. \A i \in B \cup {t} : L3[i] <= m + 1
    <3>1. \A i \in D : L[i] \in Nat
      BY <1>4, <1>5
    <3>  QED
      BY <3>1, <1>6, <1>7, <1>21, <1>24
  <2>2. L3[V.root] = m + 1 /\ m + 1 >= 1 /\ V.root \in B \cup {t} /\ R3[V.root] = Keys
    BY <1>6, <1>14, <1>17, <1>21
  <2>  QED
    BY <2>1, <2>2, <1>11 DEF RootOK
<1>43. LinksOK(V, s2)
  <2>1. ASSUME NEW q \in B, NEW i PROVE HangsIn(V, q, i) <=> HangsIn(U, q, i)
    BY <1>12 DEF HangsIn
  <2>2. ASSUME NEW i PROVE HangsIn(V, t, i) <=> i = n \/ i = r
    BY <1>13, <1>15 DEF HangsIn
  <2>3. U.node[n].parent = 0 /\ U.node[r].parent = 0
    BY <1>1, <1>6, <1>8 DEF HalvesLinked
  <2>4. ASSUME NEW q \in B, ~V.node[q].leaf PROVE ~HangsIn(V, q, t)
    <3>1. ~lf3[q]
      BY <2>4, <1>31
    <3>2. Divides(B \cup {t}, lt3, E3, R3, L3, q)
      BY <3>1, <1>38 DEF Shape
    <3>3. \A i : HangsIn(V, q, i) => L3[i] = L3[q] - 1
      BY <3>2, <1>31, <1>32 DEF HangsIn, Divides
    <3>4. L3[q] <= L3[t] /\ L3[q] \in Nat /\ L3[t] \in Nat
      <4>1. L3[q] \in Nat /\ L3[t] \in Nat
        BY <1>38 DEF Shape
      <4>  QED
        BY <4>1, <1>11, <1>14, <1>42 DEF RootOK
    <3>  QED
      BY <3>3, <3>4
  <2>5. ASSUME NEW q \in B \cup {t}, NEW i \in B \cup {t}, ~V.node[q].leaf, HangsIn(V, q, i)
        PROVE  V.node[i].parent = q
    <3>1. CASE q = t
      BY <3>1, <2>2, <2>5, <1>6, <1>7, <1>12
    <3>2. CASE q \in B
      <4>1. i \in B
        BY <3>2, <2>4, <2>5
      <4>2. ~U.node[q].leaf /\ HangsIn(U, q, i)
        BY <3>2, <2>1, <2>5, <1>12
      <4>3. U.node[i].parent = q
        BY <3>2, <4>1, <4>2, <1>1, <1>8 DEF HalvesLinked
      <4>4. q # 0
        BY <3>2, <1>5, <1>7
      <4>5. i # n /\ i # r
        BY <4>3, <4>4, <2>3
      <4>  QED
        BY <4>1, <4>3, <4>5, <1>12
    <3>  QED
      BY <3>1, <3>2
  <2>6. ASSUME NEW i \in B \cup {t}, V.node[i].parent # 0
        PROVE  LET q == V.node[i].parent IN
                 q \in B \cup {t} /\ ~V.node[q].leaf /\ HangsIn(V, q, i)
    <3>1. i \in B
      BY <2>6, <1>13
    <3>2. CASE i = n \/ i = r
      BY <3>1, <3>2, <2>2, <1>12, <1>13
    <3>3. CASE i # n /\ i # r
      <4>1. PICK q : q = U.node[i].parent
        OBVIOUS
      <4>2. V.node[i].parent = q /\ q # 0
        BY <3>1, <3>3, <4>1, <2>6, <1>12
      <4>3. q \in B /\ ~U.node[q].leaf /\ HangsIn(U, q, i)
        BY <3>1, <4>1, <4>2, <1>1, <1>8 DEF HalvesLinked
      <4>  QED
        BY <4>2, <4>3, <2>1, <1>12
    <3>  QED
      BY <3>2, <3>3
  <2>7. \A i : (\E q \in ToSet(s2) : q.child = i) <=> (\E q \in ToSet(s) : q.child = i)
    BY <1>2 DEF HalvesDone, PendingHalved
  <2>8. \A i : (\E q \in ToSet(s) : q.child = i) => i \in D /\ i # n
    <3>1. \A q \in ToSet(s) : q.child \in D
      <4>  SUFFICES ASSUME NEW q \in ToSet(s) PROVE q.child \in D
        OBVIOUS
      <4>1. PICK j \in 1 .. m : q = s[j]
        BY <1>1, <1>3, HalfLevel
      <4>  QED
        BY <4>1, <1>1, <1>3 DEF FramesOK
    <3>2. ~(L[n] < m)
      BY <1>6
    <3>  QED
      BY <3>1, <3>2, <1>6, <1>22
  <2>9. ASSUME NEW i \in B \cup {t}
        PROVE  V.node[i].parent = 0 <=> i = V.root \/ \E q \in ToSet(s2) : q.child = i
    <3>1. CASE i = t
      BY <3>1, <1>13, <1>14
    <3>2. CASE i = n \/ i = r
      <4>1. V.node[i].parent = t
        BY <3>2, <1>6, <1>7, <1>12
      <4>2. ~\E q \in ToSet(s2) : q.child = i
        BY <3>2, <2>7, <2>8, <1>7
      <4>  QED
        BY <3>2, <4>1, <4>2, <1>11, <1>14, <1>16
    <3>3. CASE i # t /\ i # n /\ i # r
      <4>1. i \in D
        BY <3>3, <1>7
      <4>2. V.node[i].parent = U.node[i].parent
        BY <3>3, <4>1, <1>7, <1>12
      <4>3. U.node[i].parent = 0 <=> T.node[i].parent = 0
        BY <4>1, <1>1, <1>8 DEF HalvesLinked
      <4>4. T.node[i].parent = 0 <=> i = T.root \/ \E q \in ToSet(s) : q.child = i
        BY <4>1, <1>1, <1>3 DEF LinksOK
      <4>  QED
        BY <3>3, <4>2, <4>3, <4>4, <2>7, <1>14, <1>23
    <3>  QED
      BY <3>1, <3>2, <3>3
  <2>10. DOMAIN V.node = B \cup {t}
    BY <1>11
  <2>  QED
    BY <2>5, <2>6, <2>9, <2>10 DEF LinksOK
<1>44. ChainOK(V, R3) /\ LeafEntries(V) = LeafEntries(U)
  <2>1. Leaves(V) = Leaves(U)
    BY <1>1, <1>11, <1>12, <1>13 DEF Leaves, Addresses
  <2>2. \A i \in Leaves(U) : i \in B
    BY <1>1 DEF Leaves, Addresses
  <2>3. \A i \in Leaves(U) : /\ V.node[i].next = U.node[i].next
                             /\ V.node[i].prev = U.node[i].prev
                             /\ V.node[i].arr = U.node[i].arr
                             /\ R3[i] = R2[i]
    BY <2>2, <1>12, <1>17
  <2>4. LeavesKept(U, V, R2, R3)
    BY <2>1, <2>3, SameLeaves
  <2>  QED
    BY <2>4, <1>8 DEF LeavesKept
<1>45. FramesOK(V, s2, L3)
  <2>1. s2 \in Seq(FrameSet)
    BY <1>8 DEF FramesOK
  <2>2. ASSUME NEW j \in 1 .. Len(s2)
        PROVE  /\ s2[j].node \in B /\ L3[s2[j].node] = j
               /\ s2[j].child \in B /\ L3[s2[j].child] = j - 1 /\ s2[j].right # 0
               /\ s2[j].right \in B /\ L3[s2[j].right] = j
               /\ s2[j].key # s2[j].mid /\ Len(V.node[Half(s2[j])].arr) < MaxKeys
    <3>1. s2[j].right # 0
      BY <1>8
    <3>2. /\ s2[j].node \in B /\ L2[s2[j].node] = j
          /\ s2[j].child \in B /\ L2[s2[j].child] = j - 1
          /\ s2[j].right \in B /\ L2[s2[j].right] = j
          /\ s2[j].key # s2[j].mid /\ Len(U.node[Half(s2[j])].arr) < MaxKeys
      BY <3>1, <1>1, <1>8 DEF FramesOK
    <3>3. Half(s2[j]) \in B
      BY <1>1, <1>8, HalfLevel
    <3>4. V.node[Half(s2[j])].arr = U.node[Half(s2[j])].arr
      BY <3>3, <1>12
    <3>5. L3[s2[j].node] = j /\ L3[s2[j].child] = j - 1 /\ L3[s2[j].right] = j
      BY <3>2, <1>19
    <3>  QED
      BY <3>1, <3>2, <3>4, <3>5
  <2>  QED
    BY <2>1, <2>2, <1>11 DEF FramesOK
<1>46. TreeOK(V, s2, R3, L3)
  BY <1>39, <1>40, <1>41, <1>42, <1>43, <1>44, <1>45 DEF TreeOK
<1>  QED
  BY <1>8, <1>44, <1>46 DEF RootSplitDone

-----------------------------------------------------------------------------
(***************************************************************************)
(* Steps that leave the nodes alone                                        *)
(***************************************************************************)
\* The invariant does not look at the key counts.
SameNodes(T, U, s, R, L) == TreeOK(U, s, R, L) /\ Contents(U) = Contents(T)

\* A step that changes key counts only keeps the tree in order.
LEMMA SameNodesOK ==
  ASSUME NEW T, NEW s, NEW R, NEW L, TreeOK(T, s, R, L), NEW U, NEW c,
         U = [node |-> T.node, count |-> c, root |-> T.root, sane |-> TRUE]
  PROVE  SameNodes(T, U, s, R, L)
<1>1. U.node = T.node /\ U.root = T.root /\ U.sane = TRUE /\ U.count = c
  OBVIOUS
<1>2. TreeTypes(U, R, L)
  <2>1. U = [node |-> U.node, count |-> U.count, root |-> U.root, sane |-> U.sane]
    BY <1>1
  <2>2. TreeTypes(T, R, L)
    BY DEF TreeOK
  <2>  QED
    BY <2>1, <2>2, <1>1 DEF TreeTypes
<1>3. ArraysOK(U)
  BY <1>1 DEF TreeOK, ArraysOK
<1>4. ShapeOK(U, s, R, L)
  <2>1. LeafOf(U) = LeafOf(T) /\ LeftOf(U) = LeftOf(T) /\ EntriesOf(U, s) = EntriesOf(T, s)
    BY <1>1 DEF LeafOf, LeftOf, EntriesOf
  <2>2. ShapeOK(T, s, R, L)
    BY DEF TreeOK
  <2>  QED
    BY <2>1, <2>2, <1>1 DEF ShapeOK
<1>5. RootOK(U, R, L)
  BY <1>1 DEF TreeOK, RootOK
<1>6. LinksOK(U, s)
  BY <1>1 DEF TreeOK, LinksOK, HangsIn
<1>7. Leaves(U) = Leaves(T)
  BY <1>1 DEF Leaves, Addresses
<1>8. ChainOK(U, R) /\ LeafEntries(U) = LeafEntries(T)
  <2>1. LeavesKept(T, U, R, R)
    BY <1>1, <1>7, SameLeaves
  <2>  QED
    BY <2>1 DEF LeavesKept, TreeOK
<1>9. FramesOK(U, s, L)
  BY <1>1 DEF TreeOK, FramesOK
<1>10. Contents(U) = Contents(T)
  BY <1>8, ContentsTable
<1>  QED
  BY <1>2, <1>3, <1>4, <1>5, <1>6, <1>8, <1>9, <1>10 DEF TreeOK, SameNodes

\* find_leaf_node: the child it goes to serves the key.
Descends(T, R, i, k, c) == c \in DOMAIN T.node /\ k \in R[c]

\* ServingChild is a child that serves the key.
LEMMA DescendOK ==
  ASSUME NEW T, NEW R, NEW L, TreeOK(T, <<>>, R, L), NEW i \in DOMAIN T.node,
         ~T.node[i].leaf, NEW k \in R[i]
  PROVE  Descends(T, R, i, k, ServingChild(T.node[i], k))
<1>1. PICK D, E, n : D = DOMAIN T.node /\ E = EntriesOf(T, <<>>) /\ n = T.node[i]
  OBVIOUS
<1>2. TreeTypes(T, R, L) /\ ArraysOK(T) /\ Shape(D, LeafOf(T), LeftOf(T), E, R, L)
  BY <1>1 DEF TreeOK, ShapeOK
<1>3. LeafOf(T)[i] = n.leaf /\ LeftOf(T)[i] = n.left /\ E[i] = ToSet(n.arr)
  <2>1. PendingOf(<<>>, i) = {}
    BY DEF PendingOf, ToSet
  <2>  QED
    BY <2>1, <1>1 DEF LeafOf, LeftOf, EntriesOf
<1>4. Divides(D, LeftOf(T), E, R, L, i) /\ R[i] \subseteq Keys
  BY <1>1, <1>2, <1>3 DEF Shape
<1>5. k \in Int
  BY <1>4, TreeAssumption
<1>6. n.arr \in Arrays(Vals \cup Nat) /\ Ascending(n.arr)
  <2>1. T.node \in Seq(Nodes)
    BY <1>2 DEF TreeTypes
  <2>2. n \in Nodes
    BY <2>1, <1>1
  <2>  QED
    BY <2>2, <1>1, <1>2, NodeFields DEF ArraysOK
<1>7. \/ (\A e \in ToSet(n.arr) : k < e.key) /\ ServingChild(n, k) = n.left
      \/ \E e \in ToSet(n.arr) :
           /\ e.key <= k /\ \A f \in ToSet(n.arr) : f.key <= k => f.key <= e.key
           /\ ServingChild(n, k) = e.data
  BY <1>5, <1>6, ServingRight
<1>8. CASE (\A e \in ToSet(n.arr) : k < e.key) /\ ServingChild(n, k) = n.left
  <2>1. k \in LeftIn(R[i], E[i])
    BY <1>3, <1>8 DEF LeftIn
  <2>2. n.left \in D /\ R[n.left] = LeftIn(R[i], E[i])
    BY <1>3, <1>4 DEF Divides
  <2>  QED
    BY <2>1, <2>2, <1>1, <1>8 DEF Descends
<1>9. ASSUME NEW e \in ToSet(n.arr), e.key <= k,
             \A f \in ToSet(n.arr) : f.key <= k => f.key <= e.key,
             ServingChild(n, k) = e.data
      PROVE  Descends(T, R, i, k, ServingChild(n, k))
  <2>1. k \in ServedIn(R[i], E[i], e)
    BY <1>3, <1>9 DEF ServedIn
  <2>2. e.data \in D /\ R[e.data] = ServedIn(R[i], E[i], e)
    BY <1>3, <1>4 DEF Divides
  <2>  QED
    BY <2>1, <2>2, <1>1, <1>9 DEF Descends
<1>  QED
  BY <1>1, <1>7, <1>8, <1>9

\* get at the leaf that serves the key returns what the table holds.
LEMMA ValueOK ==
  ASSUME NEW T, NEW s, NEW R, NEW L, TreeOK(T, s, R, L), NEW at \in Leaves(T), NEW k \in R[at]
  PROVE  k \in Keys /\ Value(T.node[at].arr, k) = Contents(T)[k]
<1>1. PICK a, S : a = T.node[at].arr /\ S = LeafEntries(T)
  OBVIOUS
<1>2. /\ S = OtherEntries(T, at) \cup ToSet(a) /\ k \in Keys /\ k \in Int
      /\ \A e \in OtherEntries(T, at) : e.key \notin R[at]
      /\ a \in Arrays(Vals \cup Nat) /\ Ascending(a)
  BY <1>1, EntriesOfLeaf
<1>3. ValueIs(a, k)
  BY <1>2, ValueRight
<1>4. Keyed(S)
  BY <1>1, KeyInItsLeaf
<1>5. /\ \A e \in S : e.key = k => Table(S)[k] = e.data
      /\ (\A e \in S : e.key # k) => Table(S)[k] = Absent
  BY <1>2, <1>4, TableIs
<1>6. \A e \in S : e.key = k => e \in ToSet(a)
  BY <1>2
<1>7. Value(a, k) = Table(S)[k]
  <2>1. CASE \E e \in ToSet(a) : e.key = k
    <3>1. PICK e \in ToSet(a) : e.key = k
      BY <2>1
    <3>2. Value(a, k) = e.data
      BY <3>1, <1>3 DEF ValueIs
    <3>3. Table(S)[k] = e.data
      BY <3>1, <1>2, <1>5
    <3>  QED
      BY <3>2, <3>3
  <2>2. CASE \A e \in ToSet(a) : e.key # k
    <3>1. Value(a, k) = Absent
      BY <2>2, <1>3 DEF ValueIs
    <3>2. Table(S)[k] = Absent
      BY <2>2, <1>5, <1>6
    <3>  QED
      BY <3>1, <3>2
  <2>  QED
    BY <2>1, <2>2
<1>  QED
  BY <1>1, <1>2, <1>7, ContentsTable

\* A table without a tree is empty,
LEMMA NoTreeContents == Contents(NoTree) = [k \in Keys |-> Absent] /\ Addresses(NoTree) = {}
<1>1. NoTree.node = <<>>
  BY DEF NoTree
<1>2. DOMAIN <<>> = {}
  OBVIOUS
<1>3. Addresses(NoTree) = {}
  BY <1>1, <1>2 DEF Addresses
<1>4. LeafEntries(NoTree) = {}
  BY <1>3 DEF LeafEntries, Leaves
<1>  QED
  BY <1>3, <1>4 DEF Contents

\* and so is a new tree.
LEMMA NewTreeOK ==
  ASSUME Keys # {}
  PROVE  TreeOK(NewTree, <<>>, <<Keys, Keys>>, <<1, 0>>) /\ Contents(NewTree) = Contents(NoTree)
<1>1. PICK T, R, L, x, y : /\ T = NewTree /\ R = <<Keys, Keys>> /\ L = <<1, 0>>
                           /\ x = Internal(2, <<>>)
                           /\ y = [Leaf(<<>>, 0, 0) EXCEPT !.parent = 1]
  OBVIOUS
<1>2. x = [leaf |-> FALSE, arr |-> <<>>, left |-> 2, parent |-> 0, prev |-> 0, next |-> 0]
  BY <1>1 DEF Internal
<1>3. y = [leaf |-> TRUE, arr |-> <<>>, left |-> 0, parent |-> 1, prev |-> 0, next |-> 0]
  BY <1>1 DEF Leaf
<1>4. T = [node |-> <<x, y>>, count |-> <<0, 0>>, root |-> 1, sane |-> TRUE]
  BY <1>1 DEF NewTree
<1>5. T.node = <<x, y>> /\ T.root = 1 /\ T.sane = TRUE /\ T.count = <<0, 0>>
  BY <1>4
<1>6. <<>> \in Arrays(Vals \cup Nat)
  BY DEF Arrays
<1>7. x \in Nodes /\ y \in Nodes
  BY <1>2, <1>3, <1>6 DEF Nodes
<1>8. T.node \in Seq(Nodes) /\ Len(T.node) = 2 /\ T.node[1] = x /\ T.node[2] = y
  BY <1>5, <1>7
<1>9. DOMAIN T.node = {1, 2}
  <2>1. DOMAIN T.node = 1 .. 2
    BY <1>8
  <2>  QED
    BY <2>1
<1>10. R \in Seq(SUBSET Keys) /\ Len(R) = 2 /\ R[1] = Keys /\ R[2] = Keys
  <2>1. Keys \in SUBSET Keys
    OBVIOUS
  <2>  QED
    BY <2>1, <1>1
<1>11. L \in Seq(Nat) /\ Len(L) = 2 /\ L[1] = 1 /\ L[2] = 0
  BY <1>1
<1>12. ToSet(<<>>) = {} /\ Len(<<>>) = 0 /\ DOMAIN <<>> = {}
  BY DEF ToSet
<1>13. TreeTypes(T, R, L)
  BY <1>4, <1>5, <1>8, <1>10, <1>11 DEF TreeTypes
<1>14. ArraysOK(T)
  <2>1. Ascending(<<>>) /\ Len(<<>>) <= MaxKeys
    BY <1>12, SortedArrayAssumption DEF Ascending
  <2>2. T.node[1].arr = <<>> /\ T.node[2].arr = <<>>
    BY <1>2, <1>3, <1>8
  <2>  QED
    BY <2>1, <2>2, <1>9, <1>12 DEF ArraysOK
<1>15. PICK lf, lt, E : lf = LeafOf(T) /\ lt = LeftOf(T) /\ E = EntriesOf(T, <<>>)
  OBVIOUS
<1>16. /\ lf[1] = FALSE /\ lf[2] = TRUE /\ lt[1] = 2 /\ E[1] = {} /\ E[2] = {}
  <2>1. \A i : PendingOf(<<>>, i) = {}
    BY <1>12 DEF PendingOf
  <2>2. T.node[1].arr = <<>> /\ T.node[2].arr = <<>>
    BY <1>2, <1>3, <1>8
  <2>3. E[1] = {} /\ E[2] = {}
    BY <2>1, <2>2, <1>9, <1>12, <1>15 DEF EntriesOf
  <2>4. lf[1] = FALSE /\ lf[2] = TRUE /\ lt[1] = 2
    BY <1>2, <1>3, <1>8, <1>9, <1>15 DEF LeafOf, LeftOf
  <2>  QED
    BY <2>3, <2>4
<1>17. Divides({1, 2}, lt, E, R, L, 1)
  <2>1. LeftIn(Keys, {}) = Keys
    BY DEF LeftIn
  <2>  QED
    BY <2>1, <1>10, <1>11, <1>16 DEF Divides
<1>18. Shape({1, 2}, lf, lt, E, R, L)
  BY <1>10, <1>11, <1>16, <1>17 DEF Shape
<1>19. ShapeOK(T, <<>>, R, L)
  BY <1>9, <1>15, <1>18 DEF ShapeOK
<1>20. RootOK(T, R, L)
  BY <1>5, <1>9, <1>10, <1>11 DEF RootOK
<1>21. /\ T.node[1].leaf = FALSE /\ T.node[2].leaf = TRUE /\ T.node[1].arr = <<>>
       /\ T.node[2].arr = <<>> /\ T.node[1].left = 2
       /\ T.node[1].parent = 0 /\ T.node[2].parent = 1
       /\ T.node[2].prev = 0 /\ T.node[2].next = 0
  BY <1>2, <1>3, <1>8
<1>22. LinksOK(T, <<>>)
  <2>1. \A i : HangsIn(T, 1, i) <=> i = 2
    BY <1>12, <1>21 DEF HangsIn
  <2>  QED
    BY <2>1, <1>5, <1>9, <1>12, <1>21 DEF LinksOK
<1>23. Leaves(T) = {2}
  BY <1>9, <1>21 DEF Leaves, Addresses
<1>24. ChainOK(T, R)
  BY <1>21, <1>23 DEF ChainOK
<1>25. FramesOK(T, <<>>, L)
  BY <1>12 DEF FramesOK
<1>26. LeafEntries(T) = {}
  BY <1>12, <1>21, <1>23 DEF LeafEntries
<1>27. Contents(T) = [k \in Keys |-> Absent]
  BY <1>26 DEF Contents
<1>  QED
  BY <1>1, <1>13, <1>14, <1>19, <1>20, <1>22, <1>24, <1>25, <1>27, NoTreeContents DEF TreeOK

-----------------------------------------------------------------------------
(***************************************************************************)
(* Calls                                                                   *)
(***************************************************************************)
\* A call that is made.
CallMade(op, k, v, at, c) ==
  /\ IsCall(c) /\ c.op = op /\ c.key = k /\ c.val = v /\ c.at = at
  /\ c.pc = "find" /\ c.stack = <<>>

\* Call makes one.
LEMMA CallRight ==
  ASSUME NEW op, NEW k, NEW v, NEW at
  PROVE  CallMade(op, k, v, at, Call(op, k, v, at))
BY DEF CallMade, Call, IsCall

\* No call is in progress.
LEMMA NoCallRight == IsCall(NoCall) /\ NoCall.pc = "idle" /\ NoCall.stack = <<>>
<1>1. PICK c : c = Call("none", 0, Absent, 0)
  OBVIOUS
<1>2. CallMade("none", 0, Absent, 0, c)
  BY <1>1, CallRight
<1>3. NoCall = [c EXCEPT !.pc = "idle"]
  BY <1>1 DEF NoCall
<1>  QED
  BY <1>2, <1>3 DEF CallMade, IsCall

\* A call whose frames have the stack s, at the step pc.
CallAt(c, pc, s) == IsCall(c) /\ c.pc = pc /\ c.stack = s

\* A call that counts keys,
LEMMA CountFromRight ==
  ASSUME NEW c, IsCall(c), NEW i, NEW fence, NEW add
  PROVE  CallAt(CountFrom(c, i, fence, add), "count", c.stack)
<1>1. PICK d : d = CountFrom(c, i, fence, add)
  OBVIOUS
<1>2. d = [op |-> c.op, key |-> c.key, val |-> c.val, pc |-> "count", at |-> i,
           stack |-> c.stack, leaf |-> c.leaf, owed |-> c.owed, fence |-> fence,
           add |-> add]
  BY <1>1 DEF CountFrom, IsCall
<1>3. IsCall(d) /\ d.pc = "count" /\ d.stack = c.stack
  BY <1>2 DEF IsCall
<1>  QED
  BY <1>1, <1>3 DEF CallAt

\* that returns from a frame,
LEMMA ReturnRight ==
  ASSUME NEW T, NEW c, IsCall(c), NEW f, NEW fence
  PROVE  CallAt(Return(T, c, f, fence), "count", Front(c.stack))
<1>1. PICK d, s : s = Front(c.stack) /\ d = [c EXCEPT !.stack = s]
  OBVIOUS
<1>2. IsCall(d) /\ d.stack = s
  BY <1>1 DEF IsCall
<1>3. Return(T, c, f, fence) = CountFrom(d, T.node[f.child].parent, fence, T.count[f.child])
  BY <1>1 DEF Return
<1>  QED
  BY <1>1, <1>2, <1>3, CountFromRight

\* that goes one level down,
LEMMA MovedCall ==
  ASSUME NEW c, IsCall(c), NEW x
  PROVE  /\ CallAt([c EXCEPT !.at = x], c.pc, c.stack)
         /\ [c EXCEPT !.at = x].at = x /\ [c EXCEPT !.at = x].op = c.op
         /\ [c EXCEPT !.at = x].key = c.key /\ [c EXCEPT !.at = x].val = c.val
BY DEF CallAt, IsCall

\* that has split a leaf,
LEMMA ClimbingCall ==
  ASSUME NEW c, IsCall(c), NEW at, NEW o, NEW s
  PROVE  CallAt([c EXCEPT !.pc = "climb", !.leaf = at, !.owed = o, !.stack = s], "climb", s)
<1>1. PICK d : d = [c EXCEPT !.pc = "climb", !.leaf = at, !.owed = o, !.stack = s]
  OBVIOUS
<1>2. d = [op |-> c.op, key |-> c.key, val |-> c.val, pc |-> "climb", at |-> c.at,
           stack |-> s, leaf |-> at, owed |-> o, fence |-> c.fence, add |-> c.add]
  BY <1>1 DEF IsCall
<1>3. IsCall(d) /\ d.pc = "climb" /\ d.stack = s
  BY <1>2 DEF IsCall
<1>  QED
  BY <1>1, <1>3 DEF CallAt

\* and that has split an internal node.
LEMMA SplitCall ==
  ASSUME NEW c, IsCall(c), NEW r, NEW mid, NEW s2,
         s2 = [c.stack EXCEPT ![Len(c.stack)] =
                 [c.stack[Len(c.stack)] EXCEPT !.right = r, !.mid = mid]]
  PROVE  CallAt(Split(c, r, mid), c.pc, s2)
BY DEF CallAt, IsCall, Split

\* Levels and ranges after the split of a root.
LEMMA GrowTwice ==
  ASSUME NEW L \in Seq(Nat), NEW l \in Nat
  PROVE  LevelsGrown(Append(L, l), Len(L) + 2, l + 1, L \o <<l, l + 1>>)
<1>1. PICK m : m = l + 1
  OBVIOUS
<1>2. m \in Nat /\ Len(L) \in Nat
  BY <1>1
<1>3. L \o <<l, m>> = Append(Append(L, l), m)
  BY <1>2
<1>4. Append(L, l) \in Seq(Nat) /\ Len(Append(L, l)) = Len(L) + 1
  BY AppendRight
<1>5. LevelsGrown(Append(L, l), Len(Append(L, l)) + 1, m, Append(Append(L, l), m))
  BY <1>2, <1>4, GrowLevels
<1>6. (Len(L) + 1) + 1 = Len(L) + 2
  BY <1>2
<1>  QED
  BY <1>1, <1>3, <1>4, <1>5, <1>6

\* Appending the range of a new root.
LEMMA GrowRange ==
  ASSUME NEW R \in Seq(SUBSET Keys)
  PROVE  RootRange(R, Len(R) + 1, Append(R, Keys))
<1>1. Keys \in SUBSET Keys
  OBVIOUS
<1>2. PICK A : A = SUBSET Keys
  OBVIOUS
<1>3. Keys \in A /\ R \in Seq(A)
  BY <1>1, <1>2
<1>4. /\ Append(R, Keys) \in Seq(A) /\ Len(Append(R, Keys)) = Len(R) + 1
      /\ \A i \in DOMAIN R : Append(R, Keys)[i] = R[i]
      /\ Append(R, Keys)[Len(R) + 1] = Keys
  BY <1>3, AppendRight
<1>  QED
  BY <1>2, <1>4 DEF RootRange

-----------------------------------------------------------------------------
(***************************************************************************)
(* The steps of a call                                                     *)
(***************************************************************************)
\* What CallOK asks of a call at each step: when there is none,
LEMMA IdleOK == ASSUME NEW T, NEW R PROVE CallOK(T, NoCall, R)
BY NoCallRight DEF CallOK

\* when it looks for its leaf,
LEMMA FindingOK ==
  ASSUME NEW T, NEW R, NEW c, CallAt(c, "find", <<>>), c.at \in DOMAIN T.node,
         c.key \in R[c.at], c.op \in {"put", "del", "get"}, c.op = "put" => c.val \in Vals
  PROVE  CallOK(T, c, R)
BY DEF CallAt, CallOK

\* when it goes up to the parent of a split node,
LEMMA ClimbingOK ==
  ASSUME NEW T, NEW R, NEW s, NEW c, CallAt(c, "climb", s), s # <<>>, s[Len(s)].right = 0
  PROVE  CallOK(T, c, R)
BY DEF CallAt, CallOK, Top

\* when it puts a key into one of the halves of a split node,
LEMMA AdoptingOK ==
  ASSUME NEW T, NEW R, NEW s, NEW c, CallAt(c, "adopt", s), s # <<>>,
         \A j \in 1 .. Len(s) : s[j].right # 0
  PROVE  CallOK(T, c, R)
BY DEF CallAt, CallOK

\* and when it counts keys.
LEMMA CountingOK ==
  ASSUME NEW T, NEW R, NEW s, NEW c, CallAt(c, "count", s),
         \A j \in 1 .. Len(s) : s[j].right # 0
  PROVE  CallOK(T, c, R)
BY DEF CallAt, CallOK

\* The invariant once there is a tree.
Good(T, c, R, L, w, a) ==
  /\ TreeOK(T, c.stack, R, L) /\ CallOK(T, c, R) /\ WantOK(T, c, w)
  /\ a # NoAnswer => a.val = w[a.key]

GoodNow == Good(tree, call, range, level, want, answer)

\* A step of the table, or none.
OneKeyChanged(T, U) ==
  \/ Contents(U) = Contents(T)
  \/ \E k \in Keys, d \in Vals \cup {Absent} : Contents(U) = [Contents(T) EXCEPT ![k] = d]

Kept == GoodNow' /\ OneKeyChanged(tree, tree')

\* A step after which the call has a stack s and looks for nothing, and the table is
\* the one that is wanted.
LEMMA Keeping ==
  ASSUME GoodNow, UNCHANGED <<want, answer>>, NEW pc \in {"climb", "adopt", "count"}, NEW s,
         CallAt(call', pc, s), CallOK(tree', call', range'),
         TreeOK(tree', s, range', level'), Contents(tree') = want,
         OneKeyChanged(tree, tree')
  PROVE  Kept
<1>1. call'.stack = s /\ call'.pc = pc
  BY DEF CallAt
<1>2. WantOK(tree', call', want')
  BY <1>1 DEF WantOK
<1>3. answer' # NoAnswer => answer'.val = want'[answer'.key]
  BY DEF GoodNow, Good
<1>4. Good(tree', call', range', level', want', answer')
  BY <1>1, <1>2, <1>3 DEF Good
<1>  QED
  BY <1>4 DEF Kept, GoodNow

\* find_leaf_node, one level down.
LEMMA FindKeeps ==
  ASSUME GoodNow, Find PROVE Kept
<1>1. PICK x : x = ServingChild(tree.node[call.at], call.key)
  OBVIOUS
<1>2. /\ call.pc = "find" /\ ~tree.node[call.at].leaf
      /\ tree' = tree /\ call' = [call EXCEPT !.at = x] /\ UNCHANGED history
  BY <1>1 DEF Find, AtInternal, Steps, Descend, Becomes
<1>3. UNCHANGED <<want, answer, range, level>>
  BY <1>2 DEF history
<1>4. /\ TreeOK(tree, call.stack, range, level) /\ CallOK(tree, call, range)
      /\ WantOK(tree, call, want) /\ (answer # NoAnswer => answer.val = want[answer.key])
  BY DEF GoodNow, Good
<1>5. /\ IsCall(call) /\ call.stack = <<>> /\ call.at \in DOMAIN tree.node
      /\ call.key \in range[call.at] /\ call.op \in {"put", "del", "get"}
      /\ (call.op = "put" => call.val \in Vals)
  BY <1>2, <1>4 DEF CallOK
<1>6. Descends(tree, range, call.at, call.key, x)
  BY <1>1, <1>2, <1>4, <1>5, DescendOK
<1>7. /\ CallAt(call', "find", <<>>) /\ call'.at = x /\ call'.op = call.op
      /\ call'.key = call.key /\ call'.val = call.val
  BY <1>2, <1>5, MovedCall
<1>8. CallOK(tree', call', range')
  BY <1>2, <1>3, <1>5, <1>6, <1>7, FindingOK DEF Descends
<1>9. WantOK(tree', call', want')
  BY <1>2, <1>3, <1>4, <1>7 DEF WantOK, CallAt
<1>10. TreeOK(tree', call'.stack, range', level')
  BY <1>2, <1>3, <1>4, <1>5, <1>7 DEF CallAt
<1>11. Good(tree', call', range', level', want', answer')
  BY <1>3, <1>4, <1>8, <1>9, <1>10 DEF Good
<1>  QED
  BY <1>2, <1>11 DEF Kept, GoodNow, OneKeyChanged

\* At its leaf, a call knows that the leaf serves the key.
LEMMA AtLeafFacts ==
  ASSUME GoodNow, NEW op, AtLeaf(tree, call, op)
  PROVE  /\ TreeOK(tree, <<>>, range, level) /\ IsCall(call) /\ call.stack = <<>>
         /\ call.pc = "find" /\ call.op = op
         /\ call.at \in Leaves(tree) /\ call.key \in range[call.at] /\ call.key \in Keys
         /\ (op = "put" => call.val \in Vals)
         /\ WantOK(tree, call, want) /\ (answer # NoAnswer => answer.val = want[answer.key])
<1>1. /\ TreeOK(tree, call.stack, range, level) /\ CallOK(tree, call, range)
      /\ WantOK(tree, call, want) /\ (answer # NoAnswer => answer.val = want[answer.key])
  BY DEF GoodNow, Good
<1>2. call.pc = "find" /\ call.op = op /\ tree.node[call.at].leaf
  BY DEF AtLeaf
<1>3. /\ IsCall(call) /\ call.stack = <<>> /\ call.at \in DOMAIN tree.node
      /\ call.key \in range[call.at] /\ (call.op = "put" => call.val \in Vals)
  BY <1>1, <1>2 DEF CallOK
<1>4. call.at \in Leaves(tree)
  BY <1>2, <1>3 DEF Leaves, Addresses
<1>5. TreeOK(tree, <<>>, range, level)
  BY <1>1, <1>3
<1>6. call.key \in Keys
  BY <1>3, <1>4, <1>5, ValueOK
<1>  QED
  BY <1>1, <1>2, <1>3, <1>4, <1>5, <1>6

\* get at its leaf.
LEMMA GetAtLeafKeeps ==
  ASSUME GoodNow, GetAtLeaf PROVE Kept
<1>1. /\ AtLeaf(tree, call, "get") /\ call' = NoCall /\ UNCHANGED <<tree, want, range, level>>
      /\ answer' = [key |-> call.key, val |-> Value(tree.node[call.at].arr, call.key)]
  BY DEF GetAtLeaf
<1>2. /\ TreeOK(tree, <<>>, range, level) /\ call.op = "get" /\ call.at \in Leaves(tree)
      /\ call.key \in range[call.at] /\ WantOK(tree, call, want)
  BY <1>1, AtLeafFacts
<1>3. want = Contents(tree)
  BY <1>2 DEF WantOK
<1>4. Value(tree.node[call.at].arr, call.key) = Contents(tree)[call.key]
  BY <1>2, ValueOK
<1>5. answer'.val = want'[answer'.key]
  BY <1>1, <1>3, <1>4
<1>6. TreeOK(tree', call'.stack, range', level') /\ CallOK(tree', call', range')
  BY <1>1, <1>2, NoCallRight, IdleOK
<1>7. WantOK(tree', call', want')
  BY <1>1, <1>3, NoCallRight DEF WantOK
<1>8. Good(tree', call', range', level', want', answer')
  BY <1>5, <1>6, <1>7 DEF Good
<1>  QED
  BY <1>1, <1>8 DEF Kept, GoodNow, OneKeyChanged

\* del at its leaf, where the table changes.
LEMMA DelAtLeafKeeps ==
  ASSUME GoodNow, DelAtLeaf PROVE Kept
<1>1. PICK U : U = WithArr(tree, call.at, del(tree.node[call.at].arr, call.key))
  OBVIOUS
<1>2. /\ AtLeaf(tree, call, "del") /\ tree' = U /\ call' = CountFrom(call, call.at, 0, -1)
      /\ UNCHANGED <<want, answer, range, level>>
  BY <1>1 DEF DelAtLeaf, Steps, DelFromLeaf, Becomes, history, WithArr
<1>3. /\ TreeOK(tree, <<>>, range, level) /\ call.op = "del" /\ call.at \in Leaves(tree)
      /\ call.key \in range[call.at] /\ WantOK(tree, call, want) /\ call.key \in Keys
      /\ IsCall(call) /\ call.stack = <<>> /\ call.pc = "find"
  BY <1>2, AtLeafFacts
<1>4. LeafDel(tree, <<>>, range, level, call.at, call.key)
  BY <1>3, DelInLeaf
<1>5. TreeOK(U, <<>>, range, level) /\ Contents(U) = [Contents(tree) EXCEPT ![call.key] = Absent]
  BY <1>1, <1>4 DEF LeafDel
<1>6. CallAt(call', "count", <<>>)
  BY <1>2, <1>3, CountFromRight
<1>7. want = [Contents(tree) EXCEPT ![call.key] = Absent]
  BY <1>3 DEF WantOK
<1>8. OneKeyChanged(tree, tree')
  BY <1>2, <1>3, <1>5 DEF OneKeyChanged
<1>9. CallOK(tree', call', range')
  BY <1>6, CountingOK
<1>  QED
  BY <1>2, <1>5, <1>6, <1>7, <1>8, <1>9, Keeping

\* put at its leaf, where the table changes.
LEMMA PutAtLeafKeeps ==
  ASSUME GoodNow, PutAtLeaf PROVE Kept
<1>1. PICK U : U = WithArr(tree, call.at, put(tree.node[call.at].arr, call.key, call.val))
  OBVIOUS
<1>2. /\ AtLeaf(tree, call, "put") /\ HasRoom(tree, call.at) /\ tree' = U
      /\ UNCHANGED <<want, answer, range, level>>
      /\ call' = NoCall \/ call' = CountFrom(call, call.at, 0, 1)
  BY <1>1 DEF PutAtLeaf, Steps, PutToLeaf, Becomes, history, WithArr
<1>3. /\ TreeOK(tree, <<>>, range, level) /\ call.op = "put" /\ call.at \in Leaves(tree)
      /\ call.key \in range[call.at] /\ WantOK(tree, call, want) /\ call.key \in Keys
      /\ IsCall(call) /\ call.stack = <<>> /\ call.pc = "find" /\ call.val \in Vals
      /\ (answer # NoAnswer => answer.val = want[answer.key])
  BY <1>2, AtLeafFacts
<1>4. LeafPut(tree, <<>>, range, level, call.at, call.key, call.val)
  BY <1>2, <1>3, PutInLeaf
<1>5. TreeOK(U, <<>>, range, level) /\ Contents(U) = [Contents(tree) EXCEPT ![call.key] = call.val]
  BY <1>1, <1>4 DEF LeafPut
<1>6. want = [Contents(tree) EXCEPT ![call.key] = call.val]
  BY <1>3 DEF WantOK
<1>7. OneKeyChanged(tree, tree')
  BY <1>2, <1>3, <1>5 DEF OneKeyChanged
<1>8. CASE call' = CountFrom(call, call.at, 0, 1)
  <2>1. CallAt(call', "count", <<>>)
    BY <1>8, <1>3, CountFromRight
  <2>2. CallOK(tree', call', range')
    BY <2>1, CountingOK
  <2>  QED
    BY <2>1, <2>2, <1>2, <1>5, <1>6, <1>7, Keeping
<1>9. CASE call' = NoCall
  <2>1. TreeOK(tree', call'.stack, range', level') /\ CallOK(tree', call', range')
    BY <1>2, <1>5, <1>9, NoCallRight, IdleOK
  <2>2. WantOK(tree', call', want')
    BY <1>2, <1>5, <1>6, <1>9, NoCallRight DEF WantOK
  <2>3. Good(tree', call', range', level', want', answer')
    BY <2>1, <2>2, <1>2, <1>3 DEF Good
  <2>  QED
    BY <2>3, <1>7 DEF Kept, GoodNow
<1>  QED
  BY <1>2, <1>8, <1>9

\* put at a full leaf, which it splits: the key goes into one half.
LEMMA SplitAtLeafKeeps ==
  ASSUME GoodNow, SplitAtLeaf PROVE Kept
<1>1. PICK T, n, k, v, r, mid, S, s :
        /\ T = tree /\ n = call.at /\ k = call.key /\ v = call.val /\ r = Len(tree.node) + 1
        /\ mid = RightHalf(tree.node[n].arr)[1].key /\ S = LeafSplit(tree, n)
        /\ s = <<Frame(tree.node[n].parent, mid, r)>>
  OBVIOUS
<1>2. PICK at, U, o : /\ at = IF k < mid THEN n ELSE r
                      /\ U = WithArr(S, at, put(S.node[at].arr, k, v))
                      /\ o = ~Has(S.node[at].arr, k)
  OBVIOUS
<1>3. /\ AtLeaf(tree, call, "put") /\ ~HasRoom(tree, n) /\ UNCHANGED <<want, answer>>
      /\ range' = RangeSplit(n, Top(call').key) /\ level' = Append(level, 0)
      /\ Steps(SplitLeaf(tree, call))
  BY <1>1 DEF SplitAtLeaf
<1>4. /\ TreeOK(T, <<>>, range, level) /\ call.op = "put" /\ n \in Leaves(T)
      /\ k \in range[n] /\ WantOK(T, call, want) /\ k \in Keys
      /\ IsCall(call) /\ call.stack = <<>> /\ call.pc = "find" /\ v \in Vals
  BY <1>1, <1>3, AtLeafFacts
<1>5. S.node[r].arr = RightHalf(T.node[n].arr)
  <2>1. TreeTypes(T, range, level)
    BY <1>4 DEF TreeOK
  <2>2. n \in DOMAIN T.node /\ is_full(T.node[n].arr)
    BY <1>1, <1>3, <1>4 DEF Leaves, Addresses, HasRoom
  <2>3. LeafWasSplit(T, n, r, S)
    BY <2>1, <2>2, <1>1, LeafSplitRight
  <2>  QED
    BY <2>3 DEF LeafWasSplit
<1>6. /\ tree' = U
      /\ call' = [call EXCEPT !.pc = "climb", !.leaf = at, !.owed = o, !.stack = s]
  BY <1>1, <1>2, <1>3, <1>5 DEF Steps, SplitLeaf, Becomes, WithArr
<1>7. CallAt(call', "climb", s)
  BY <1>4, <1>6, ClimbingCall
<1>8. s # <<>> /\ Len(s) = 1 /\ s[Len(s)] = Frame(tree.node[n].parent, mid, r)
  BY <1>1
<1>9. s[Len(s)].right = 0 /\ Top(call').key = mid
  BY <1>7, <1>8 DEF CallAt, Top, Frame
<1>10. range' = Append([range EXCEPT ![n] = {j \in range[n] : j < mid}],
                       {j \in range[n] : j >= mid})
  BY <1>3, <1>9 DEF RangeSplit
<1>11. LeafSplitDone(T, n, mid, range, level, S, range', level')
  BY <1>1, <1>3, <1>4, <1>10, LeafSplitOK
<1>12. /\ TreeOK(S, s, range', level') /\ LeafEntries(S) = LeafEntries(T)
       /\ at \in Leaves(S) /\ HasRoom(S, at)
       /\ range'[n] = {j \in range[n] : j < mid} /\ range'[r] = {j \in range[n] : j >= mid}
       /\ mid \in Int
  BY <1>1, <1>2, <1>11 DEF LeafSplitDone
<1>13. k \in Int
  BY <1>4, TreeAssumption
<1>14. k \in range'[at]
  BY <1>2, <1>4, <1>12, <1>13
<1>15. LeafPut(S, s, range', level', at, k, v)
  BY <1>4, <1>12, <1>14, PutInLeaf
<1>16. TreeOK(U, s, range', level') /\ Contents(U) = [Contents(S) EXCEPT ![k] = v]
  BY <1>2, <1>15 DEF LeafPut
<1>17. Contents(U) = [Contents(T) EXCEPT ![k] = v]
  BY <1>12, <1>16, ContentsTable
<1>18. want = [Contents(T) EXCEPT ![k] = v]
  BY <1>1, <1>4 DEF WantOK
<1>19. OneKeyChanged(tree, tree')
  BY <1>1, <1>4, <1>6, <1>17 DEF OneKeyChanged
<1>20. CallOK(tree', call', range')
  BY <1>7, <1>8, <1>9, ClimbingOK
<1>  QED
  BY <1>3, <1>6, <1>7, <1>16, <1>17, <1>18, <1>19, <1>20, Keeping

\* A call that puts keys into internal nodes has the table as it is wanted.
LEMMA UpFacts ==
  ASSUME GoodNow, call.pc \in {"climb", "adopt", "count"}
  PROVE  /\ TreeOK(tree, call.stack, range, level) /\ IsCall(call) /\ want = Contents(tree)
         /\ call.stack \in Seq(FrameSet)
         /\ call.pc = "climb" => call.stack # <<>> /\ call.stack[Len(call.stack)].right = 0
         /\ call.pc = "adopt" => call.stack # <<>>
         /\ \A j \in 1 .. Len(call.stack) :
              j # Len(call.stack) \/ call.pc # "climb" => call.stack[j].right # 0
<1>1. /\ TreeOK(tree, call.stack, range, level) /\ CallOK(tree, call, range)
      /\ WantOK(tree, call, want)
  BY DEF GoodNow, Good
<1>2. FramesOK(tree, call.stack, level)
  BY <1>1 DEF TreeOK
<1>3. want = Contents(tree)
  BY <1>1 DEF WantOK
<1>4. /\ IsCall(call)
      /\ call.pc = "climb" => call.stack # <<>> /\ call.stack[Len(call.stack)].right = 0
      /\ call.pc = "adopt" => call.stack # <<>>
      /\ call.pc # "climb" => \A j \in 1 .. Len(call.stack) : call.stack[j].right # 0
  BY <1>1 DEF CallOK, Top
<1>  QED
  BY <1>1, <1>2, <1>3, <1>4 DEF FramesOK

\* The frame that returns: the ones below have split their nodes.
LEMMA BelowTop ==
  ASSUME NEW s \in Seq(FrameSet), s # <<>>,
         \A j \in 1 .. Len(s) : j # Len(s) => s[j].right # 0
  PROVE  \A j \in 1 .. Len(Front(s)) : Front(s)[j].right # 0
<1>1. /\ Len(s) \in Nat /\ Len(s) >= 1 /\ Len(Front(s)) = Len(s) - 1
      /\ \A j \in 1 .. Len(s) - 1 : Front(s)[j] = s[j]
  BY FrontRight
<1>  QED
  BY <1>1

\* put_to_internal_node at a node with room.
LEMMA PutAtInternalKeeps ==
  ASSUME GoodNow, PutAtInternal PROVE Kept
<1>1. PICK s, f, U : /\ s = call.stack /\ f = s[Len(s)]
                     /\ U = Adopt(tree, f.node, f.key, f.child)
  OBVIOUS
<1>2. /\ call.pc = "climb" /\ HasRoom(tree, f.node) /\ tree' = U
      /\ call' = Return(U, call, f, f.node) /\ UNCHANGED <<want, answer, range, level>>
  BY <1>1 DEF PutAtInternal, Steps, PutToInternal, Becomes, history, Top
<1>3. /\ TreeOK(tree, s, range, level) /\ IsCall(call) /\ want = Contents(tree)
      /\ s \in Seq(FrameSet) /\ s # <<>> /\ f.right = 0
      /\ \A j \in 1 .. Len(s) : j # Len(s) => s[j].right # 0
  BY <1>1, <1>2, UpFacts
<1>4. f.node = Half(f)
  BY <1>3 DEF Half
<1>5. Len(tree.node[f.node].arr) < MaxKeys
  <2>1. FramesOK(tree, s, level) /\ TreeTypes(tree, range, level)
    BY <1>3 DEF TreeOK
  <2>2. Len(s) \in 1 .. Len(s)
    <3>1. Len(s) \in Nat /\ Len(s) >= 1
      BY <1>3, FrontRight
    <3>  QED
      BY <3>1
  <2>3. f.node \in DOMAIN tree.node
    BY <2>1, <2>2, <1>1 DEF FramesOK
  <2>4. tree.node \in Seq(Nodes)
    BY <2>1 DEF TreeTypes
  <2>5. tree.node[f.node] \in Nodes
    BY <2>3, <2>4
  <2>6. Len(tree.node[f.node].arr) \in Nat
    BY <2>5, NodeFields, ArrayFacts
  <2>  QED
    BY <2>6, <1>2, SortedArrayAssumption DEF HasRoom, is_full
<1>6. TreeOK(U, Front(s), range, level) /\ LeafEntries(U) = LeafEntries(tree)
  BY <1>1, <1>3, <1>4, <1>5, AdoptOK
<1>7. CallAt(call', "count", Front(s))
  BY <1>1, <1>2, <1>3, ReturnRight
<1>8. \A j \in 1 .. Len(Front(s)) : Front(s)[j].right # 0
  BY <1>3, BelowTop
<1>9. CallOK(tree', call', range')
  BY <1>7, <1>8, CountingOK
<1>10. Contents(U) = Contents(tree)
  BY <1>6, ContentsTable
<1>11. OneKeyChanged(tree, tree')
  BY <1>2, <1>10 DEF OneKeyChanged
<1>  QED
  BY <1>2, <1>3, <1>6, <1>7, <1>9, <1>10, <1>11, Keeping

\* put_to_internal_node at one of the halves, which has room and another key.
LEMMA PutAtHalfKeeps ==
  ASSUME GoodNow, PutAtHalf PROVE Kept
<1>1. PICK s, f, U, V : /\ s = call.stack /\ f = s[Len(s)]
                        /\ U = Adopt(tree, Half(f), f.key, f.child)
                        /\ V = [U EXCEPT !.sane = U.sane /\ f.key # f.mid]
  OBVIOUS
<1>2. /\ call.pc = "adopt" /\ tree' = V
      /\ call' = Return(V, call, f, call.fence) /\ UNCHANGED <<want, answer, range, level>>
  BY <1>1 DEF PutAtHalf, Steps, PutToHalf, Becomes, history, Top
<1>3. /\ TreeOK(tree, s, range, level) /\ IsCall(call) /\ want = Contents(tree)
      /\ s \in Seq(FrameSet) /\ s # <<>>
      /\ \A j \in 1 .. Len(s) : s[j].right # 0
  BY <1>1, <1>2, UpFacts
<1>4. Len(s) \in 1 .. Len(s)
  <2>1. Len(s) \in Nat /\ Len(s) >= 1
    BY <1>3, FrontRight
  <2>  QED
    BY <2>1
<1>5. Len(tree.node[Half(f)].arr) < MaxKeys /\ f.key # f.mid
  <2>1. FramesOK(tree, s, level)
    BY <1>3 DEF TreeOK
  <2>2. f.right # 0
    BY <1>1, <1>3, <1>4
  <2>  QED
    BY <2>1, <2>2, <1>1, <1>4 DEF FramesOK
<1>6. TreeOK(U, Front(s), range, level) /\ LeafEntries(U) = LeafEntries(tree)
  BY <1>1, <1>3, <1>5, AdoptOK
<1>7. V = [node |-> U.node, count |-> U.count, root |-> U.root, sane |-> TRUE]
  <2>1. TreeTypes(U, range, level)
    BY <1>6 DEF TreeOK
  <2>2. /\ U = [node |-> U.node, count |-> U.count, root |-> U.root, sane |-> U.sane]
        /\ U.sane = TRUE
    BY <2>1 DEF TreeTypes
  <2>3. (U.sane /\ f.key # f.mid) = TRUE
    BY <2>2, <1>5
  <2>4. V = [U EXCEPT !.sane = TRUE]
    BY <2>3, <1>1
  <2>  QED
    BY <2>2, <2>4
<1>8. TreeOK(V, Front(s), range, level) /\ Contents(V) = Contents(tree)
  <2>1. SameNodes(U, V, Front(s), range, level)
    BY <1>6, <1>7, SameNodesOK
  <2>2. Contents(U) = Contents(tree)
    BY <1>6, ContentsTable
  <2>  QED
    BY <2>1, <2>2 DEF SameNodes
<1>9. CallAt(call', "count", Front(s))
  BY <1>1, <1>2, <1>3, ReturnRight
<1>10. \A j \in 1 .. Len(Front(s)) : Front(s)[j].right # 0
  BY <1>3, BelowTop
<1>11. CallOK(tree', call', range')
  BY <1>9, <1>10, CountingOK
<1>12. OneKeyChanged(tree, tree')
  BY <1>2, <1>8 DEF OneKeyChanged
<1>  QED
  BY <1>2, <1>3, <1>8, <1>9, <1>11, <1>12, Keeping

\* put_to_internal_node at a full node below the root.
LEMMA SplitAtInternalKeeps ==
  ASSUME GoodNow, SplitAtInternal PROVE Kept
<1>1. PICK T, s, n, r, mid, g :
        /\ T = tree /\ s = call.stack /\ n = s[Len(s)].node /\ r = Len(tree.node) + 1
        /\ mid = MidKey(tree.node[n].arr) /\ g = Frame(tree.node[n].parent, mid, r)
  OBVIOUS
<1>2. PICK U, s2, d : /\ U = InternalSplit(T, n, r) /\ d = Split(call, r, mid)
                      /\ s2 = [s EXCEPT ![Len(s)] = [s[Len(s)] EXCEPT !.right = r, !.mid = mid]]
  OBVIOUS
<1>3. /\ call.pc = "climb" /\ ~HasRoom(T, n) /\ T.node[n].parent # 0
      /\ tree' = U /\ call' = [d EXCEPT !.stack = Append(d.stack, g)]
      /\ range' = RangeSplit(n, mid) /\ level' = Append(level, level[n])
      /\ UNCHANGED <<want, answer>>
  BY <1>1, <1>2 DEF SplitAtInternal, Steps, SplitInternal, Becomes, Top
<1>4. /\ TreeOK(T, s, range, level) /\ IsCall(call) /\ want = Contents(T)
      /\ s \in Seq(FrameSet) /\ s # <<>> /\ s[Len(s)].right = 0
  BY <1>1, <1>3, UpFacts
<1>5. range' = Append([range EXCEPT ![n] = {j \in range[n] : j < mid}],
                      {j \in range[n] : j >= mid})
  BY <1>3 DEF RangeSplit
<1>6. /\ InternalHalvesRight(T.node[n].arr, mid) /\ SplitSituation(T, s, range, level, n, mid)
      /\ InternalWasSplit(T, n, r, U) /\ TopSplit(s, r, mid, s2)
      /\ RangesSplit(range, n, mid, r, range') /\ LevelsGrown(level, r, level[n], level')
  <2>1. PICK R2 : R2 = range'
    OBVIOUS
  <2>2. InternalSplitMade(T, s, range, level, n, mid, r, s2, R2)
    BY <2>1, <1>1, <1>2, <1>3, <1>4, <1>5, InternalSplitFacts
  <2>  QED
    BY <2>1, <2>2, <1>2, <1>3 DEF InternalSplitMade
<1>7. InternalSplitDone(T, s, n, r, mid, U, s2, range', level')
  BY <1>1, <1>3, <1>4, <1>6, InternalSplitKeeps
<1>8. TreeOK(U, Append(s2, g), range', level') /\ LeafEntries(U) = LeafEntries(T)
  BY <1>1, <1>7 DEF InternalSplitDone
<1>9. CallAt(d, "climb", s2)
  BY <1>1, <1>2, <1>3, <1>4, SplitCall
<1>10. CallAt(call', "climb", Append(s2, g))
  BY <1>3, <1>9 DEF CallAt, IsCall
<1>11. /\ Append(s2, g) # <<>> /\ Append(s2, g)[Len(Append(s2, g))].right = 0
  <2>1. s2 \in Seq(FrameSet)
    BY <1>6 DEF TopSplit
  <2>2. Append(s2, g) # <<>> /\ Append(s2, g)[Len(Append(s2, g))] = g
    BY <2>1
  <2>  QED
    BY <2>2, <1>1 DEF Frame
<1>12. CallOK(tree', call', range')
  BY <1>10, <1>11, ClimbingOK
<1>13. Contents(U) = Contents(T)
  BY <1>8, ContentsTable
<1>14. OneKeyChanged(tree, tree')
  BY <1>1, <1>3, <1>13 DEF OneKeyChanged
<1>  QED
  BY <1>3, <1>4, <1>8, <1>10, <1>12, <1>13, <1>14, Keeping

\* put_to_internal_node at a full root.
LEMMA SplitAtRootKeeps ==
  ASSUME GoodNow, SplitAtRoot PROVE Kept
<1>1. PICK T, s, n, r, mid, t :
        /\ T = tree /\ s = call.stack /\ n = s[Len(s)].node /\ r = Len(tree.node) + 1
        /\ mid = MidKey(tree.node[n].arr) /\ t = Len(tree.node) + 2
  OBVIOUS
<1>2. PICK U, V, s2, d : /\ U = InternalSplit(T, n, r) /\ V = NewRoot(U, n, mid, r)
                         /\ d = Split(call, r, mid)
                         /\ s2 = [s EXCEPT ![Len(s)] = [s[Len(s)] EXCEPT !.right = r, !.mid = mid]]
  OBVIOUS
<1>3. PICK R2, L2 : R2 = RangeSplit(n, mid) /\ L2 = Append(level, level[n])
  OBVIOUS
<1>4. /\ call.pc = "climb" /\ ~HasRoom(T, n) /\ T.node[n].parent = 0
      /\ tree' = V /\ call' = [d EXCEPT !.pc = "adopt", !.fence = 0]
      /\ range' = Append(R2, Keys) /\ level' = level \o <<level[n], level[n] + 1>>
      /\ UNCHANGED <<want, answer>>
  BY <1>1, <1>2, <1>3 DEF SplitAtRoot, Steps, SplitRoot, Becomes, Top
<1>5. /\ TreeOK(T, s, range, level) /\ IsCall(call) /\ want = Contents(T)
      /\ s \in Seq(FrameSet) /\ s # <<>> /\ s[Len(s)].right = 0
  BY <1>1, <1>4, UpFacts
<1>6. R2 = Append([range EXCEPT ![n] = {j \in range[n] : j < mid}],
                  {j \in range[n] : j >= mid})
  BY <1>3 DEF RangeSplit
<1>7. /\ InternalHalvesRight(T.node[n].arr, mid) /\ SplitSituation(T, s, range, level, n, mid)
      /\ InternalWasSplit(T, n, r, U) /\ TopSplit(s, r, mid, s2)
      /\ RangesSplit(range, n, mid, r, R2) /\ LevelsGrown(level, r, level[n], L2)
  <2>1. InternalSplitMade(T, s, range, level, n, mid, r, s2, R2)
    BY <1>1, <1>2, <1>4, <1>5, <1>6, InternalSplitFacts
  <2>  QED
    BY <2>1, <1>2, <1>3 DEF InternalSplitMade
<1>8. TreeTypes(T, range, level)
  BY <1>5 DEF TreeOK
<1>9. /\ level \in Seq(Nat) /\ Len(level) = Len(T.node) /\ Len(T.node) \in Nat
      /\ Len(range) = Len(T.node) /\ T.node \in Seq(Nodes) /\ T.sane = TRUE
  BY <1>8 DEF TreeTypes
<1>10. n \in DOMAIN T.node /\ mid \in Int
  BY <1>7 DEF SplitSituation, InternalHalvesRight
<1>11. level[n] \in Nat
  BY <1>9, <1>10
<1>12. LevelsGrown(L2, t, level[n] + 1, level')
  BY <1>1, <1>3, <1>4, <1>9, <1>11, GrowTwice
<1>13. /\ R2 \in Seq(SUBSET Keys) /\ Len(R2) = Len(range) + 1 /\ L2 \in Seq(Nat)
       /\ Len(L2) = Len(level) + 1
  BY <1>7 DEF RangesSplit, LevelsGrown
<1>14. (Len(T.node) + 1) + 1 = Len(T.node) + 2
  BY <1>9
<1>15. RootRange(R2, t, range')
  BY <1>1, <1>4, <1>9, <1>13, <1>14, GrowRange
<1>16. TreeTypes(U, R2, L2)
  <2>1. /\ U = [node |-> U.node, count |-> U.count, root |-> T.root, sane |-> U.sane]
        /\ U.sane = (T.sane /\ Len(LeftHalf(T.node[n].arr)) > 1)
        /\ U.node \in Seq(Nodes) /\ Len(U.node) = Len(T.node) + 1
    BY <1>7 DEF InternalWasSplit
  <2>2. Len(LeftHalf(T.node[n].arr)) > 1
    BY <1>7 DEF InternalHalvesRight
  <2>3. U.sane = TRUE
    BY <2>1, <2>2, <1>9
  <2>4. U.root = T.root
    BY <2>1
  <2>  QED
    BY <2>1, <2>3, <2>4, <1>9, <1>13 DEF TreeTypes
<1>17. RootAdded(U, n, mid, r, t, V)
  <2>1. Len(U.node) = Len(T.node) + 1 /\ n \in DOMAIN U.node /\ r \in DOMAIN U.node
    BY <1>7, <1>10 DEF InternalWasSplit
  <2>2. t = Len(U.node) + 1
    BY <2>1, <1>1, <1>14
  <2>  QED
    BY <2>1, <2>2, <1>2, <1>10, <1>16, NewRootRight
<1>18. RootSplitDone(T, s, n, r, mid, U, V, s2, range', level')
  BY <1>1, <1>4, <1>5, <1>7, <1>12, <1>15, <1>17, RootSplitKeeps
<1>19. /\ TreeOK(V, s2, range', level') /\ LeafEntries(V) = LeafEntries(T)
       /\ \A j \in 1 .. Len(s2) : s2[j].right # 0
  BY <1>18 DEF RootSplitDone
<1>20. CallAt(d, "climb", s2)
  BY <1>1, <1>2, <1>4, <1>5, SplitCall
<1>21. CallAt(call', "adopt", s2)
  BY <1>4, <1>20 DEF CallAt, IsCall
<1>22. s2 # <<>>
  BY <1>2, <1>5
<1>23. CallOK(tree', call', range')
  BY <1>19, <1>21, <1>22, AdoptingOK
<1>24. Contents(V) = Contents(T)
  BY <1>19, ContentsTable
<1>25. OneKeyChanged(tree, tree')
  BY <1>1, <1>4, <1>24 DEF OneKeyChanged
<1>  QED
  BY <1>4, <1>5, <1>19, <1>21, <1>23, <1>24, <1>25, Keeping

\* The propagation of key counts, one node,
LEMMA CountKeeps ==
  ASSUME GoodNow, Count PROVE Kept
<1>1. PICK s, x, cnt : /\ s = call.stack /\ x = tree.node[call.at].parent
                       /\ cnt = [tree.count EXCEPT ![call.at] = tree.count[call.at] + call.add]
  OBVIOUS
<1>2. /\ call.pc = "count" /\ tree' = [tree EXCEPT !.count = cnt]
      /\ call' = [call EXCEPT !.at = x] /\ UNCHANGED <<want, answer, range, level>>
  BY <1>1 DEF Count, Steps, CountNode, Becomes, history
<1>3. /\ TreeOK(tree, s, range, level) /\ IsCall(call) /\ want = Contents(tree)
      /\ \A j \in 1 .. Len(s) : s[j].right # 0
  BY <1>1, <1>2, UpFacts
<1>4. tree' = [node |-> tree.node, count |-> cnt, root |-> tree.root, sane |-> TRUE]
  <2>1. /\ tree = [node |-> tree.node, count |-> tree.count, root |-> tree.root,
                   sane |-> tree.sane]
        /\ tree.sane = TRUE
    BY <1>3 DEF TreeOK, TreeTypes
  <2>  QED
    BY <2>1, <1>2
<1>5. SameNodes(tree, tree', s, range, level)
  BY <1>3, <1>4, SameNodesOK
<1>6. TreeOK(tree', s, range', level') /\ Contents(tree') = Contents(tree)
  BY <1>2, <1>5 DEF SameNodes
<1>7. CallAt(call', "count", s)
  BY <1>1, <1>2, <1>3, MovedCall
<1>8. CallOK(tree', call', range')
  BY <1>3, <1>7, CountingOK
<1>9. OneKeyChanged(tree, tree')
  BY <1>6 DEF OneKeyChanged
<1>  QED
  BY <1>2, <1>3, <1>6, <1>7, <1>8, <1>9, Keeping

\* and at its end.
LEMMA EndCountKeeps ==
  ASSUME GoodNow, EndCount PROVE Kept
<1>1. PICK s : s = call.stack
  OBVIOUS
<1>2. /\ call.pc = "count" /\ tree' = tree /\ UNCHANGED <<want, answer, range, level>>
      /\ \/ s # <<>> /\ call' = [call EXCEPT !.pc = "adopt"]
         \/ s = <<>> /\ call' = CountFrom([call EXCEPT !.owed = FALSE], call.leaf, 0, 1)
         \/ s = <<>> /\ call' = NoCall
  BY <1>1 DEF EndCount, Steps, Counted, Becomes, history
<1>3. /\ TreeOK(tree, s, range, level) /\ IsCall(call) /\ want = Contents(tree)
      /\ \A j \in 1 .. Len(s) : s[j].right # 0
  BY <1>1, <1>2, UpFacts
<1>4. OneKeyChanged(tree, tree') /\ TreeOK(tree', s, range', level') /\ Contents(tree') = want
  BY <1>2, <1>3 DEF OneKeyChanged
<1>5. CASE s # <<>> /\ call' = [call EXCEPT !.pc = "adopt"]
  <2>1. CallAt(call', "adopt", s)
    BY <1>1, <1>3, <1>5 DEF CallAt, IsCall
  <2>2. CallOK(tree', call', range')
    BY <2>1, <1>3, <1>5, AdoptingOK
  <2>  QED
    BY <2>1, <2>2, <1>2, <1>4, Keeping
<1>6. CASE s = <<>> /\ call' = CountFrom([call EXCEPT !.owed = FALSE], call.leaf, 0, 1)
  <2>1. PICK d : d = [call EXCEPT !.owed = FALSE]
    OBVIOUS
  <2>2. IsCall(d) /\ d.stack = s
    BY <2>1, <1>1, <1>3 DEF IsCall
  <2>3. CallAt(call', "count", s)
    BY <2>1, <2>2, <1>6, CountFromRight
  <2>4. CallOK(tree', call', range')
    BY <2>3, <1>3, CountingOK
  <2>  QED
    BY <2>3, <2>4, <1>2, <1>4, Keeping
<1>7. CASE s = <<>> /\ call' = NoCall
  <2>1. TreeOK(tree', call'.stack, range', level') /\ CallOK(tree', call', range')
    BY <1>4, <1>7, NoCallRight, IdleOK
  <2>2. WantOK(tree', call', want')
    BY <1>2, <1>4, <1>7, NoCallRight DEF WantOK
  <2>3. answer' # NoAnswer => answer'.val = want'[answer'.key]
    BY <1>2 DEF GoodNow, Good
  <2>4. Good(tree', call', range', level', want', answer')
    BY <2>1, <2>2, <2>3 DEF Good
  <2>  QED
    BY <2>4, <1>4 DEF Kept, GoodNow
<1>  QED
  BY <1>2, <1>5, <1>6, <1>7

-----------------------------------------------------------------------------
(***************************************************************************)
(* The invariant                                                           *)
(***************************************************************************)
\* A table without a tree.
NoTreeNow ==
  /\ tree = NoTree /\ call = NoCall /\ range = <<>> /\ level = <<>>
  /\ want = [k \in Keys |-> Absent]
  /\ answer # NoAnswer => answer.val = want[answer.key]

\* The invariant of a table with and without a tree.
LEMMA InvCases == TreeInv <=> NoTreeNow \/ GoodNow
<1>1. CallOK(NoTree, NoCall, <<>>)
  BY IdleOK
<1>2. ASSUME tree = NoTree, call = NoCall
      PROVE  WantOK(tree, call, want) <=> want = [k \in Keys |-> Absent]
  BY <1>2, NoCallRight, NoTreeContents DEF WantOK
<1>3. TreeInv => NoTreeNow \/ GoodNow
  BY <1>2 DEF TreeInv, NoTreeNow, GoodNow, Good
<1>4. NoTreeNow => TreeInv
  BY <1>1, <1>2 DEF TreeInv, NoTreeNow
<1>5. GoodNow => TreeInv
  BY DEF TreeInv, GoodNow, Good
<1>  QED
  BY <1>3, <1>4, <1>5

\* Once there is a tree, its root serves all keys.
LEMMA GoodHasTree == ASSUME GoodNow PROVE tree # NoTree /\ tree.root \in DOMAIN tree.node
                                          /\ range[tree.root] = Keys
<1>1. tree.root \in DOMAIN tree.node /\ range[tree.root] = Keys
  BY DEF GoodNow, Good, TreeOK, RootOK
<1>2. DOMAIN NoTree.node = {}
  BY NoTreeContents DEF Addresses
<1>  QED
  BY <1>1, <1>2

\* A call that is made: the table is as wanted, and one key apart from then on.
LEMMA IdleGood ==
  ASSUME GoodNow, call = NoCall
  PROVE  TreeOK(tree, <<>>, range, level) /\ want = Contents(tree)
BY NoCallRight DEF GoodNow, Good, WantOK

\* table_put, which makes the tree when it is the first.
LEMMA PutKeeps ==
  ASSUME TreeInv, NEW k \in Keys, NEW v \in Vals, Put(k, v)
  PROVE  Kept
<1>1. PICK c : c = Call("put", k, v, tree'.root)
  OBVIOUS
<1>2. /\ call = NoCall /\ call' = c /\ want' = [want EXCEPT ![k] = v] /\ answer' = NoAnswer
      /\ \/ /\ tree = NoTree /\ tree' = NewTree /\ range' = <<Keys, Keys>>
            /\ level' = <<1, 0>>
         \/ tree # NoTree /\ UNCHANGED <<tree, range, level>>
  BY <1>1 DEF Put
<1>3. CallMade("put", k, v, tree'.root, c)
  BY <1>1, CallRight
<1>4. /\ TreeOK(tree', <<>>, range', level') /\ want = Contents(tree')
      /\ Contents(tree') = Contents(tree)
      /\ tree'.root \in DOMAIN tree'.node /\ range'[tree'.root] = Keys
  <2>1. CASE tree = NoTree /\ tree' = NewTree /\ range' = <<Keys, Keys>> /\ level' = <<1, 0>>
    <3>1. TreeOK(NewTree, <<>>, <<Keys, Keys>>, <<1, 0>>) /\ Contents(NewTree) = Contents(NoTree)
      BY NewTreeOK
    <3>2. want = Contents(NoTree)
      BY <2>1, InvCases, GoodHasTree, NoTreeContents DEF NoTreeNow
    <3>3. TreeOK(tree', <<>>, range', level') /\ Contents(tree') = Contents(tree)
      BY <3>1, <2>1
    <3>4. tree'.root \in DOMAIN tree'.node /\ range'[tree'.root] = Keys
      BY <3>3 DEF TreeOK, RootOK
    <3>  QED
      BY <3>1, <3>2, <3>3, <3>4, <2>1
  <2>2. CASE tree # NoTree /\ UNCHANGED <<tree, range, level>>
    <3>1. GoodNow
      BY <2>2, InvCases DEF NoTreeNow
    <3>2. TreeOK(tree, <<>>, range, level) /\ want = Contents(tree)
      BY <3>1, <1>2, IdleGood
    <3>3. tree.root \in DOMAIN tree.node /\ range[tree.root] = Keys
      BY <3>1, GoodHasTree
    <3>  QED
      BY <3>2, <3>3, <2>2
  <2>  QED
    BY <2>1, <2>2, <1>2
<1>5. CallOK(tree', call', range')
  <2>1. CallAt(c, "find", <<>>) /\ c.at = tree'.root /\ c.key = k /\ c.op = "put" /\ c.val = v
    BY <1>3 DEF CallMade, CallAt
  <2>  QED
    BY <2>1, <1>2, <1>4, FindingOK
<1>6. WantOK(tree', call', want')
  BY <1>2, <1>3, <1>4 DEF WantOK, CallMade
<1>7. Good(tree', call', range', level', want', answer')
  BY <1>2, <1>3, <1>4, <1>5, <1>6 DEF Good, CallMade
<1>  QED
  BY <1>4, <1>7 DEF Kept, GoodNow, OneKeyChanged

\* table_del.
LEMMA DelKeeps ==
  ASSUME TreeInv, NEW k \in Keys, Del(k)
  PROVE  Kept
<1>1. PICK c : c = Call("del", k, Absent, tree.root)
  OBVIOUS
<1>2. /\ call = NoCall /\ tree # NoTree /\ call' = c /\ want' = [want EXCEPT ![k] = Absent]
      /\ answer' = NoAnswer /\ UNCHANGED <<tree, range, level>>
  BY <1>1 DEF Del
<1>3. CallMade("del", k, Absent, tree.root, c)
  BY <1>1, CallRight
<1>4. GoodNow
  BY <1>2, InvCases DEF NoTreeNow
<1>5. TreeOK(tree, <<>>, range, level) /\ want = Contents(tree)
  BY <1>2, <1>4, IdleGood
<1>6. tree.root \in DOMAIN tree.node /\ range[tree.root] = Keys
  BY <1>4, GoodHasTree
<1>7. CallOK(tree', call', range')
  <2>1. CallAt(c, "find", <<>>) /\ c.at = tree.root /\ c.key = k /\ c.op = "del"
    BY <1>3 DEF CallMade, CallAt
  <2>  QED
    BY <2>1, <1>2, <1>6, FindingOK
<1>8. WantOK(tree', call', want')
  BY <1>2, <1>3, <1>5 DEF WantOK, CallMade
<1>9. Good(tree', call', range', level', want', answer')
  BY <1>2, <1>3, <1>5, <1>7, <1>8 DEF Good, CallMade
<1>  QED
  BY <1>2, <1>9 DEF Kept, GoodNow, OneKeyChanged

\* table_get.
LEMMA GetKeeps ==
  ASSUME TreeInv, NEW k \in Keys, Get(k)
  PROVE  TreeInv' /\ OneKeyChanged(tree, tree')
<1>1. PICK c : c = Call("get", k, Absent, tree.root)
  OBVIOUS
<1>2. /\ call = NoCall /\ UNCHANGED <<tree, want, range, level>>
      /\ \/ tree = NoTree /\ answer' = [key |-> k, val |-> Absent] /\ call' = call
         \/ tree # NoTree /\ answer' = NoAnswer /\ call' = c
  BY <1>1 DEF Get
<1>3. OneKeyChanged(tree, tree')
  BY <1>2 DEF OneKeyChanged
<1>4. CASE tree = NoTree /\ answer' = [key |-> k, val |-> Absent] /\ call' = call
  <2>1. NoTreeNow
    BY <1>4, InvCases, GoodHasTree
  <2>2. answer'.val = want'[answer'.key]
    BY <2>1, <1>2, <1>4 DEF NoTreeNow
  <2>3. NoTreeNow'
    BY <2>1, <2>2, <1>2, <1>4 DEF NoTreeNow
  <2>4. CallOK(NoTree, NoCall, <<>>)
    BY IdleOK
  <2>5. WantOK(tree', call', want')
    BY <2>3, NoCallRight, NoTreeContents DEF NoTreeNow, WantOK
  <2>6. TreeInv'
    BY <2>3, <2>4, <2>5 DEF TreeInv, NoTreeNow
  <2>  QED
    BY <2>6, <1>3
<1>5. CASE tree # NoTree /\ answer' = NoAnswer /\ call' = c
  <2>1. CallMade("get", k, Absent, tree.root, c)
    BY <1>1, CallRight
  <2>2. GoodNow
    BY <1>5, InvCases DEF NoTreeNow
  <2>3. TreeOK(tree, <<>>, range, level) /\ want = Contents(tree)
    BY <1>2, <2>2, IdleGood
  <2>4. tree.root \in DOMAIN tree.node /\ range[tree.root] = Keys
    BY <2>2, GoodHasTree
  <2>5. CallOK(tree', call', range')
    <3>1. CallAt(c, "find", <<>>) /\ c.at = tree.root /\ c.key = k /\ c.op = "get"
      BY <2>1 DEF CallMade, CallAt
    <3>  QED
      BY <3>1, <2>4, <1>2, <1>5, FindingOK
  <2>6. WantOK(tree', call', want')
    BY <2>1, <2>3, <1>2, <1>5 DEF WantOK, CallMade
  <2>7. TreeOK(tree', call'.stack, range', level')
    BY <2>1, <2>3, <1>2, <1>5 DEF CallMade
  <2>8. TreeInv'
    BY <2>5, <2>6, <2>7, <1>5 DEF TreeInv
  <2>  QED
    BY <2>8, <1>3
<1>  QED
  BY <1>2, <1>4, <1>5

\* What the lemmas about steps establish.
LEMMA KeptInv == ASSUME Kept PROVE TreeInv' /\ OneKeyChanged(tree, tree')
BY DEF Kept, GoodNow, Good, TreeInv

\* Every step of a call.
LEMMA StepKeeps ==
  ASSUME TreeInv, Step PROVE Kept
<1>1. call.pc \in {"find", "climb", "adopt", "count"}
  BY DEF Step, Find, GetAtLeaf, DelAtLeaf, PutAtLeaf, SplitAtLeaf, PutAtInternal,
         SplitAtInternal, SplitAtRoot, PutAtHalf, Count, EndCount, AtInternal, AtLeaf
<1>2. GoodNow
  BY <1>1, InvCases, NoCallRight DEF NoTreeNow
<1>  QED
  BY <1>2, FindKeeps, GetAtLeafKeeps, DelAtLeafKeeps, PutAtLeafKeeps, SplitAtLeafKeeps,
     PutAtInternalKeeps, SplitAtInternalKeeps, SplitAtRootKeeps, PutAtHalfKeeps, CountKeeps,
     EndCountKeeps DEF Step

\* The initial state satisfies the invariant,
LEMMA InitInv == Init => TreeInv
<1>1. SUFFICES ASSUME Init PROVE TreeInv
  OBVIOUS
<1>2. NoTreeNow
  BY <1>1 DEF Init, NoTreeNow
<1>  QED
  BY <1>2, InvCases

\* and every step keeps it and changes the table in one key at most.
LEMMA NextInv == TreeInv /\ [Next]_vars => TreeInv' /\ OneKeyChanged(tree, tree')
<1>1. SUFFICES ASSUME TreeInv, [Next]_vars PROVE TreeInv' /\ OneKeyChanged(tree, tree')
  OBVIOUS
<1>2. CASE UNCHANGED vars
  <2>1. UNCHANGED <<tree, call, want, answer, range, level>>
    BY <1>2 DEF vars, history
  <2>  QED
    BY <2>1, <1>1 DEF TreeInv, OneKeyChanged
<1>3. CASE Step
  BY <1>1, <1>3, StepKeeps, KeptInv
<1>4. ASSUME NEW k \in Keys, Del(k) PROVE TreeInv' /\ OneKeyChanged(tree, tree')
  BY <1>1, <1>4, DelKeeps, KeptInv
<1>5. ASSUME NEW k \in Keys, Get(k) PROVE TreeInv' /\ OneKeyChanged(tree, tree')
  BY <1>1, <1>5, GetKeeps
<1>6. ASSUME NEW k \in Keys, NEW v \in Vals, Put(k, v)
      PROVE  TreeInv' /\ OneKeyChanged(tree, tree')
  BY <1>1, <1>6, PutKeeps, KeptInv
<1>  QED
  BY <1>1, <1>2, <1>3, <1>4, <1>5, <1>6 DEF Next

\* The inductive invariant: between any two steps of a call, the nodes are a search
\* tree with its pending children, linked to their parents and chained, the frames of
\* put_to_internal_node fit the levels they climb, and the table is the one that is
\* wanted, but for the key whose leaf is still looked for.
THEOREM TreeInvariant == Spec => []TreeInv
<1>1. Init => TreeInv
  BY InitInv
<1>2. TreeInv /\ [Next]_vars => TreeInv'
  BY NextInv
<1>  QED
  BY <1>1, <1>2, PTL DEF Spec

\* A node serves its keys through the children of its entries, and knows them.
LEMMA GoodNode ==
  ASSUME GoodNow, NEW i \in Addresses(tree)
  PROVE  LET n == tree.node[i] IN
           /\ Ascending(n.arr) /\ Len(n.arr) <= MaxKeys
           /\ \A e \in Entries(i) : e.key \in range[i]
           /\ n.leaf <=> level[i] = 0
           /\ n.leaf => ToSet(n.arr) \subseteq [key : Keys, data : Vals]
           /\ ~n.leaf =>
                /\ ChildServes(i, n.left, ServedLeft(i))
                /\ \A e \in Entries(i) : ChildServes(i, e.data, Served(i, e))
                /\ tree.node[n.left].parent = i
                /\ \A e \in ToSet(n.arr) : tree.node[e.data].parent = i
<1>1. PICK D, s, E, n : /\ D = DOMAIN tree.node /\ s = call.stack /\ E = EntriesOf(tree, s)
                        /\ n = tree.node[i]
  OBVIOUS
<1>2. /\ ArraysOK(tree) /\ Shape(D, LeafOf(tree), LeftOf(tree), E, range, level)
      /\ LinksOK(tree, s)
  BY <1>1 DEF GoodNow, Good, TreeOK, ShapeOK
<1>3. i \in D
  BY <1>1 DEF Addresses
<1>4. /\ LeafOf(tree)[i] = n.leaf /\ LeftOf(tree)[i] = n.left /\ E[i] = Entries(i)
      /\ ToSet(n.arr) \subseteq E[i]
  BY <1>1, <1>3 DEF LeafOf, LeftOf, EntriesOf, PendingOf, Entries, Pending, Frames
<1>5. /\ Ascending(n.arr) /\ Len(n.arr) <= MaxKeys
      /\ n.leaf => ToSet(n.arr) \subseteq [key : Keys, data : Vals]
  BY <1>1, <1>2, <1>3 DEF ArraysOK
<1>6. /\ \A e \in Entries(i) : e.key \in range[i]
      /\ n.leaf <=> level[i] = 0
      /\ ~n.leaf => Divides(D, LeftOf(tree), E, range, level, i)
  BY <1>2, <1>3, <1>4 DEF Shape
<1>7. ASSUME ~n.leaf
      PROVE  /\ ChildServes(i, n.left, ServedLeft(i))
             /\ \A e \in Entries(i) : ChildServes(i, e.data, Served(i, e))
             /\ tree.node[n.left].parent = i
             /\ \A e \in ToSet(n.arr) : tree.node[e.data].parent = i
  <2>1. /\ n.left \in D /\ level[n.left] = level[i] - 1
        /\ range[n.left] = LeftIn(range[i], E[i])
        /\ \A e \in E[i] : /\ e.data \in D /\ level[e.data] = level[i] - 1
                           /\ range[e.data] = ServedIn(range[i], E[i], e)
    BY <1>4, <1>6, <1>7 DEF Divides
  <2>2. ServedLeft(i) = LeftIn(range[i], E[i])
    BY <1>4 DEF ServedLeft, LeftIn
  <2>3. \A e \in E[i] : Served(i, e) = ServedIn(range[i], E[i], e)
    BY <1>4 DEF Served, ServedIn
  <2>4. ChildServes(i, n.left, ServedLeft(i))
    BY <2>1, <2>2, <1>1 DEF ChildServes, Addresses
  <2>5. \A e \in Entries(i) : ChildServes(i, e.data, Served(i, e))
    BY <2>1, <2>3, <1>1, <1>4 DEF ChildServes, Addresses
  <2>6. \A c \in D : HangsIn(tree, i, c) => tree.node[c].parent = i
    BY <1>1, <1>2, <1>3, <1>7 DEF LinksOK
  <2>7. tree.node[n.left].parent = i
    BY <2>1, <2>6, <1>1 DEF HangsIn
  <2>8. \A e \in ToSet(n.arr) : tree.node[e.data].parent = i
    BY <2>1, <2>6, <1>1, <1>4 DEF HangsIn
  <2>  QED
    BY <2>4, <2>5, <2>7, <2>8
<1>  QED
  BY <1>1, <1>5, <1>6, <1>7

\* The invariant implies WellFormed.
LEMMA InvWellFormed == TreeInv => WellFormed
<1>1. SUFFICES ASSUME TreeInv PROVE WellFormed
  OBVIOUS
<1>2. CASE NoTreeNow
  <2>1. tree = NoTree /\ tree.sane /\ Addresses(tree) = {}
    BY <1>2, NoTreeContents DEF NoTreeNow, NoTree
  <2>  QED
    BY <2>1 DEF WellFormed
<1>3. CASE GoodNow
  <2>1. tree.sane = TRUE
    BY <1>3 DEF GoodNow, Good, TreeOK, TreeTypes
  <2>2. range[tree.root] = Keys /\ tree.root \in DOMAIN tree.node
    BY <1>3, GoodHasTree
  <2>3. tree.node[tree.root].parent = 0
    BY <1>3, <2>2 DEF GoodNow, Good, TreeOK, LinksOK
  <2>  QED
    BY <2>1, <2>2, <2>3, <1>3, GoodNode DEF WellFormed
<1>  QED
  BY <1>1, <1>2, <1>3, InvCases

\* Every put, get and del, at each of its steps and however far its splits have
\* climbed, leaves the nodes of array_tree a search tree of equally deep leaves, in
\* which no node overflows and no tx_assert of put fails: for any set of keys, any
\* number of calls and any size of the nodes.
THEOREM WellFormedHolds == Spec => []WellFormed
BY TreeInvariant, InvWellFormed, PTL

\* The invariant implies ChainComplete.
LEMMA InvChainComplete == TreeInv => ChainComplete
<1>1. SUFFICES ASSUME TreeInv PROVE ChainComplete
  OBVIOUS
<1>2. CASE NoTreeNow
  <2>1. Leaves(tree) = {}
    BY <1>2, NoTreeContents DEF NoTreeNow, Leaves
  <2>  QED
    BY <2>1 DEF ChainComplete
<1>3. CASE GoodNow
  <2>1. TreeOK(tree, call.stack, range, level)
    BY <1>3 DEF GoodNow, Good
  <2>2. \A i, j \in Leaves(tree) : i # j => BeforeIn(range, i, j) \/ BeforeIn(range, j, i)
    BY <2>1, LeavesOrdered
  <2>3. ChainOK(tree, range)
    BY <2>1 DEF TreeOK
  <2>4. \A i, j : BeforeIn(range, i, j) <=> Before(i, j)
    BY DEF BeforeIn, Before
  <2>  SUFFICES ASSUME NEW i \in Leaves(tree), NEW n, n = tree.node[i]
                PROVE  /\ \A j \in Leaves(tree) \ {i} : Before(i, j) \/ Before(j, i)
                       /\ IF n.next = 0 THEN \A j \in Leaves(tree) \ {i} : Before(j, i)
                          ELSE /\ n.next \in Leaves(tree) /\ tree.node[n.next].prev = i
                               /\ Before(i, n.next)
                               /\ \A j \in Leaves(tree) \ {i, n.next} :
                                    Before(j, i) \/ Before(n.next, j)
                       /\ IF n.prev = 0 THEN \A j \in Leaves(tree) \ {i} : Before(i, j)
                          ELSE n.prev \in Leaves(tree) /\ tree.node[n.prev].next = i
    BY DEF ChainComplete
  <2>  QED
    BY <2>2, <2>3, <2>4 DEF ChainOK
<1>  QED
  BY <1>1, <1>2, <1>3, InvCases

\* leaf_node_t::split keeps the chain of leaves complete and in order in both
\* directions, at every step of every call.
THEOREM ChainCompleteHolds == Spec => []ChainComplete
BY TreeInvariant, InvChainComplete, PTL

\* The invariant implies that the table is a map and as it is wanted.
LEMMA InvTable ==
  TreeInv => TableAsWanted /\ Contents(tree) \in [Keys -> Vals \cup {Absent}]
<1>1. SUFFICES ASSUME TreeInv
               PROVE  TableAsWanted /\ Contents(tree) \in [Keys -> Vals \cup {Absent}]
  OBVIOUS
<1>2. CASE NoTreeNow
  BY <1>2, NoTreeContents DEF NoTreeNow, TableAsWanted
<1>3. CASE GoodNow
  <2>1. TreeOK(tree, call.stack, range, level) /\ (answer # NoAnswer => answer.val = want[answer.key])
    BY <1>3 DEF GoodNow, Good
  <2>2. call = NoCall => Contents(tree) = want
    BY <1>3, IdleGood
  <2>3. Keyed(LeafEntries(tree)) /\ LeafEntries(tree) \subseteq [key : Keys, data : Vals]
    BY <2>1, KeyInItsLeaf
  <2>4. Contents(tree) \in [Keys -> Vals \cup {Absent}]
    BY <2>3, TableType, ContentsTable
  <2>  QED
    BY <2>1, <2>2, <2>4 DEF TableAsWanted
<1>  QED
  BY <1>1, <1>2, <1>3, InvCases

\* A step of the tree is a step of the map.
LEMMA StepRefines ==
  ASSUME TreeInv, TreeInv', OneKeyChanged(tree, tree') PROVE [Map!Next]_(Contents(tree))
<1>1. CASE Contents(tree') = Contents(tree)
  BY <1>1
<1>2. ASSUME NEW k \in Keys, NEW d \in Vals \cup {Absent},
             Contents(tree') = [Contents(tree) EXCEPT ![k] = d]
      PROVE  Map!Next
  <2>1. PICK A, B : A = Contents(tree) /\ B = Contents(tree')
    OBVIOUS
  <2>2. A \in [Keys -> Vals \cup {Absent}]
    BY <2>1, InvTable
  <2>3. B \in [Keys -> Vals \cup {Absent}] /\ B[k] = d /\ \A j \in Keys \ {k} : B[j] = A[j]
    BY <2>1, <2>2, <1>2
  <2>4. Map!Del(k) \/ \E v \in Vals : Map!Put(k, v)
    BY <2>1, <2>3 DEF Map!Del, Map!Put, Map!OthersKept
  <2>  QED
    BY <2>1, <2>3, <2>4 DEF Map!Next
<1>  QED
  BY <1>1, <1>2 DEF OneKeyChanged

\* A table is a map.  The steps of a put or del, find_leaf_node, the splits and the
\* propagation of key counts included, implement one step of OrderedMap; no split loses,
\* moves or doubles a key; and a get returns what was put last.
THEOREM IsOrderedMapHolds == Spec => IsOrderedMap
<1>1. Init => Map!Init
  BY NoTreeContents DEF Init, Map!Init
<1>2. TreeInv /\ TreeInv' /\ [Next]_vars => [Map!Next]_(Contents(tree))
  BY NextInv, StepRefines
<1>3. TreeInv => TableAsWanted
  BY InvTable
<1>  QED
  BY <1>1, <1>2, <1>3, TreeInvariant, PTL DEF Spec, IsOrderedMap, Map!Spec
=============================================================================
