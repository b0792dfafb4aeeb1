----------------------------- MODULE MerkleProofs -----------------------------
(***************************************************************************)
(* Lemmas about the trees of MerkleTree, for any number of leaves and any  *)
(* leaves: paths made for a leaf lead from that leaf to the root and from  *)
(* nothing else.                                                           *)
(***************************************************************************)
EXTENDS MerkleTree, FiniteSums

-----------------------------------------------------------------------------
(* The recursions have solutions.                                          *)

\* t holds the levels up to the one that many above the leaves.
Levels(leaves, height, t) == t = [h \in 0 .. height |-> IF h = 0 THEN leaves ELSE Above(t[h - 1])]

LEMMA LevelsOf ==
  ASSUME NEW leaves, NEW height \in Nat, NEW t, Levels(leaves, height, t)
  PROVE  t[0] = leaves /\ \A h \in 1 .. height : t[h] = Above(t[h - 1])
BY DEF Levels

LEMMA LevelsExist ==
  ASSUME NEW leaves, NEW height \in Nat
  PROVE  \E t : Levels(leaves, height, t)
<1> DEFINE T == {h \in Nat : \E t : Levels(leaves, h, t)}
<1>1. 0 \in T
  <2>1. Levels(leaves, 0, [h \in 0 .. 0 |-> leaves])
    BY DEF Levels
  <2> QED
    BY <2>1
<1>2. \A n \in Nat : n \in T => n + 1 \in T
  <2> SUFFICES ASSUME NEW n \in Nat, n \in T PROVE \E t : Levels(leaves, n + 1, t)
    OBVIOUS
  <2>1. PICK t : Levels(leaves, n, t)
    OBVIOUS
  <2>2. PICK u : u = [h \in 0 .. n + 1 |-> IF h = n + 1 THEN Above(t[n]) ELSE t[h]]
    OBVIOUS
  <2>3. \A h \in 0 .. n : u[h] = t[h]
    BY <2>2
  <2>8. t[0] = leaves /\ \A h \in 1 .. n : t[h] = Above(t[h - 1])
    BY <2>1, LevelsOf
  <2>4. u[n + 1] = Above(u[n]) /\ u[0] = leaves
    BY <2>2, <2>3, <2>8
  <2>5. \A h \in 1 .. n : u[h] = Above(u[h - 1])
    BY <2>3, <2>8
  <2>6. \A h \in 0 .. n + 1 : u[h] = IF h = 0 THEN leaves ELSE Above(u[h - 1])
    BY <2>4, <2>5
  <2>7. Levels(leaves, n + 1, u)
    BY <2>2, <2>6 DEF Levels
  <2> QED
    BY <2>7
<1>3. \A n \in Nat : n \in T
  <2> HIDE DEF T
  <2> QED
    BY <1>1, <1>2, Induct
<1> QED
  BY <1>3

\* What the recursion of an operator over heights is, from that of its tables.
LEMMA LevelsAgree ==
  ASSUME NEW leaves, NEW m \in Nat, NEW n \in Nat, m <= n,
         NEW t, Levels(leaves, m, t), NEW u, Levels(leaves, n, u)
  PROVE  \A h \in 0 .. m : t[h] = u[h]
<1>1. t[0] = leaves /\ \A h \in 1 .. m : t[h] = Above(t[h - 1])
  BY DEF Levels
<1>4. u[0] = leaves /\ \A h \in 1 .. n : u[h] = Above(u[h - 1])
  BY DEF Levels
<1> DEFINE T == {h \in Nat : h <= m => t[h] = u[h]}
<1>5. 0 \in T
  BY <1>1, <1>4
<1>2. \A h \in Nat : h \in T => h + 1 \in T
  <2> SUFFICES ASSUME NEW h \in Nat, h \in T, h + 1 <= m PROVE t[h + 1] = u[h + 1]
    OBVIOUS
  <2>1. t[h + 1] = Above(t[h]) /\ u[h + 1] = Above(u[h])
    <3>1. h + 1 \in 1 .. m /\ h + 1 \in 1 .. n /\ (h + 1) - 1 = h
      OBVIOUS
    <3> HIDE DEF T
    <3> QED
      BY <1>1, <1>4, <3>1
  <2> QED
    BY <2>1
<1>3. \A h \in Nat : h \in T
  <2> HIDE DEF T
  <2> QED
    BY <1>5, <1>2, Induct
<1> QED
  BY <1>3

LEMMA LevelIs ==
  ASSUME NEW leaves, NEW height \in Nat
  PROVE  \E t : Levels(leaves, height, t) /\ LevelAbove(leaves, height) = t[height]
<1> DEFINE Solves(t) == t = [h \in 0 .. height |-> IF h = 0 THEN leaves ELSE Above(t[h - 1])]
           level == CHOOSE t : Solves(t)
<1>1. LevelAbove(leaves, height) = level[height]
  BY DEF LevelAbove
<1>2. \A t : Solves(t) <=> Levels(leaves, height, t)
  BY DEF Levels
<1>3. Solves(level)
  <2>1. \E t : Solves(t)
    <3> HIDE DEF Solves
    <3> QED
      BY <1>2, LevelsExist
  <2> HIDE DEF Solves
  <2> QED
    BY <2>1
<1> QED
  <2> HIDE DEF Solves, level
  <2> QED
    BY <1>1, <1>2, <1>3

LEMMA LevelStep ==
  ASSUME NEW leaves
  PROVE  /\ LevelAbove(leaves, 0) = leaves
         /\ \A h \in Nat : LevelAbove(leaves, h + 1) = Above(LevelAbove(leaves, h))
<1>1. LevelAbove(leaves, 0) = leaves
  BY LevelIs, LevelsOf
<1>2. ASSUME NEW h \in Nat
      PROVE  LevelAbove(leaves, h + 1) = Above(LevelAbove(leaves, h))
  <2>1. PICK t : Levels(leaves, h, t) /\ LevelAbove(leaves, h) = t[h]
    BY LevelIs
  <2>2. PICK u : Levels(leaves, h + 1, u) /\ LevelAbove(leaves, h + 1) = u[h + 1]
    BY LevelIs
  <2>3. h + 1 \in 1 .. h + 1 /\ (h + 1) - 1 = h /\ h \in 0 .. h /\ h <= h + 1 /\ h + 1 \in Nat
    OBVIOUS
  <2>4. t[h] = u[h]
    BY <2>1, <2>2, <2>3, LevelsAgree
  <2>6. \A g \in 1 .. h + 1 : u[g] = Above(u[g - 1])
    BY <2>2, <2>3 DEF Levels
  <2>5. u[h + 1] = Above(u[h])
    BY <2>3, <2>6
  <2> QED
    BY <2>1, <2>2, <2>4, <2>5
<1> QED
  BY <1>1, <1>2
\* The same for the place a leaf is below.
Places(index, height, t) == t = [h \in 0 .. height |-> IF h = 0 THEN index ELSE t[h - 1] \div 2]

LEMMA PlacesOf ==
  ASSUME NEW index, NEW height \in Nat, NEW t, Places(index, height, t)
  PROVE  t[0] = index /\ \A h \in 1 .. height : t[h] = t[h - 1] \div 2
BY DEF Places

LEMMA PlacesExist ==
  ASSUME NEW index, NEW height \in Nat
  PROVE  \E t : Places(index, height, t)
<1> DEFINE T == {h \in Nat : \E t : Places(index, h, t)}
<1>1. 0 \in T
  <2>1. Places(index, 0, [h \in 0 .. 0 |-> index])
    BY DEF Places
  <2> QED
    BY <2>1
<1>2. \A n \in Nat : n \in T => n + 1 \in T
  <2> SUFFICES ASSUME NEW n \in Nat, n \in T PROVE \E t : Places(index, n + 1, t)
    OBVIOUS
  <2>1. PICK t : Places(index, n, t)
    OBVIOUS
  <2>2. PICK u : u = [h \in 0 .. n + 1 |-> IF h = n + 1 THEN t[n] \div 2 ELSE t[h]]
    OBVIOUS
  <2>3. \A h \in 0 .. n : u[h] = t[h]
    BY <2>2
  <2>8. t[0] = index /\ \A h \in 1 .. n : t[h] = t[h - 1] \div 2
    BY <2>1, PlacesOf
  <2>4. u[n + 1] = u[n] \div 2 /\ u[0] = index
    BY <2>2, <2>3, <2>8
  <2>5. \A h \in 1 .. n : u[h] = u[h - 1] \div 2
    BY <2>3, <2>8
  <2>6. \A h \in 0 .. n + 1 : u[h] = IF h = 0 THEN index ELSE u[h - 1] \div 2
    BY <2>4, <2>5
  <2>7. Places(index, n + 1, u)
    BY <2>2, <2>6 DEF Places
  <2> QED
    BY <2>7
<1>3. \A n \in Nat : n \in T
  <2> HIDE DEF T
  <2> QED
    BY <1>1, <1>2, Induct
<1> QED
  BY <1>3

LEMMA PlacesAgree ==
  ASSUME NEW index, NEW m \in Nat, NEW n \in Nat, m <= n,
         NEW t, Places(index, m, t), NEW u, Places(index, n, u)
  PROVE  \A h \in 0 .. m : t[h] = u[h]
<1>1. t[0] = index /\ \A h \in 1 .. m : t[h] = t[h - 1] \div 2
  BY DEF Places
<1>4. u[0] = index /\ \A h \in 1 .. n : u[h] = u[h - 1] \div 2
  BY DEF Places
<1> DEFINE T == {h \in Nat : h <= m => t[h] = u[h]}
<1>5. 0 \in T
  BY <1>1, <1>4
<1>2. \A h \in Nat : h \in T => h + 1 \in T
  <2> SUFFICES ASSUME NEW h \in Nat, h \in T, h + 1 <= m PROVE t[h + 1] = u[h + 1]
    OBVIOUS
  <2>1. t[h + 1] = t[h] \div 2 /\ u[h + 1] = u[h] \div 2
    <3>1. h + 1 \in 1 .. m /\ h + 1 \in 1 .. n /\ (h + 1) - 1 = h
      OBVIOUS
    <3> HIDE DEF T
    <3> QED
      BY <1>1, <1>4, <3>1
  <2> QED
    BY <2>1
<1>3. \A h \in Nat : h \in T
  <2> HIDE DEF T
  <2> QED
    BY <1>5, <1>2, Induct
<1> QED
  BY <1>3

LEMMA PlaceIs ==
  ASSUME NEW index, NEW height \in Nat
  PROVE  \E t : Places(index, height, t) /\ Place(index, height) = t[height]
<1> DEFINE Solves(t) == t = [h \in 0 .. height |-> IF h = 0 THEN index ELSE t[h - 1] \div 2]
           place == CHOOSE t : Solves(t)
<1>1. Place(index, height) = place[height]
  BY DEF Place
<1>2. \A t : Solves(t) <=> Places(index, height, t)
  BY DEF Places
<1>3. Solves(place)
  <2>1. \E t : Solves(t)
    <3> HIDE DEF Solves
    <3> QED
      BY <1>2, PlacesExist
  <2> HIDE DEF Solves
  <2> QED
    BY <2>1
<1> QED
  <2> HIDE DEF Solves, place
  <2> QED
    BY <1>1, <1>2, <1>3

LEMMA PlaceStep ==
  ASSUME NEW index
  PROVE  /\ Place(index, 0) = index
         /\ \A h \in Nat : Place(index, h + 1) = Place(index, h) \div 2
<1>1. Place(index, 0) = index
  BY PlaceIs, PlacesOf
<1>2. ASSUME NEW h \in Nat
      PROVE  Place(index, h + 1) = Place(index, h) \div 2
  <2>1. PICK t : Places(index, h, t) /\ Place(index, h) = t[h]
    BY PlaceIs
  <2>2. PICK u : Places(index, h + 1, u) /\ Place(index, h + 1) = u[h + 1]
    BY PlaceIs
  <2>3. h + 1 \in 1 .. h + 1 /\ (h + 1) - 1 = h /\ h \in 0 .. h /\ h <= h + 1 /\ h + 1 \in Nat
    OBVIOUS
  <2>4. t[h] = u[h]
    BY <2>1, <2>2, <2>3, PlacesAgree
  <2>6. \A g \in 1 .. h + 1 : u[g] = u[g - 1] \div 2
    BY <2>2, <2>3 DEF Places
  <2>5. u[h + 1] = u[h] \div 2
    BY <2>3, <2>6
  <2> QED
    BY <2>1, <2>2, <2>4, <2>5
<1> QED
  BY <1>1, <1>2
-----------------------------------------------------------------------------
(* Levels                                                                  *)

IsLevel(level) == Len(level) \in Nat /\ DOMAIN level = 1 .. Len(level)

LEMMA ListIsLevel ==
  ASSUME NEW S, NEW s \in Seq(S)
  PROVE  IsLevel(s)
BY DEF IsLevel

LEMMA LevelWithDomain ==
  ASSUME NEW n \in Nat, NEW s, DOMAIN s = 1 .. n, s = [i \in DOMAIN s |-> s[i]]
  PROVE  IsLevel(s) /\ Len(s) = n
<1>1. s \in Seq({s[i] : i \in DOMAIN s})
  OBVIOUS
<1> QED
  BY <1>1 DEF IsLevel

\* Below a node are two, or an odd last one twice.
LEMMA AboveIs ==
  ASSUME NEW level, IsLevel(level)
  PROVE  /\ IsLevel(Above(level)) /\ Len(Above(level)) = (Len(level) + 1) \div 2
         /\ \A q \in 0 .. Len(Above(level)) - 1 :
              Above(level)[q + 1] =
                Node(level[2 * q + 1],
                     IF 2 * q + 2 <= Len(level) THEN level[2 * q + 2] ELSE level[2 * q + 1])
<1>1. PICK k \in Nat : k = Len(level)
  BY DEF IsLevel
<1>2. PICK n \in Nat : n = (k + 1) \div 2
  OBVIOUS
<1>3. PICK a : a = Above(level)
  OBVIOUS
<1>4. a = [i \in 1 .. n |-> Node(level[2 * i - 1],
                                 IF 2 * i <= k THEN level[2 * i] ELSE level[2 * i - 1])]
  BY <1>1, <1>2, <1>3 DEF Above
<1>5. DOMAIN a = 1 .. n /\ a = [i \in DOMAIN a |-> a[i]]
  BY <1>4
<1>6. IsLevel(a) /\ Len(a) = n
  BY <1>5, LevelWithDomain
<1>7. ASSUME NEW q \in 0 .. n - 1
      PROVE  a[q + 1] = Node(level[2 * q + 1],
                             IF 2 * q + 2 <= k THEN level[2 * q + 2] ELSE level[2 * q + 1])
  <2>1. q + 1 \in 1 .. n /\ 2 * (q + 1) - 1 = 2 * q + 1 /\ 2 * (q + 1) = 2 * q + 2
    OBVIOUS
  <2>2. a[q + 1] = Node(level[2 * (q + 1) - 1],
                        IF 2 * (q + 1) <= k THEN level[2 * (q + 1)] ELSE level[2 * (q + 1) - 1])
    BY <1>4, <2>1
  <2> QED
    BY <2>1, <2>2
<1> QED
  BY <1>1, <1>2, <1>3, <1>6, <1>7

LEMMA LevelsAreLevels ==
  ASSUME NEW leaves, IsLevel(leaves), Len(leaves) >= 1
  PROVE  \A h \in Nat : IsLevel(LevelAbove(leaves, h)) /\ Len(LevelAbove(leaves, h)) >= 1
<1> DEFINE T == {h \in Nat : IsLevel(LevelAbove(leaves, h)) /\ Len(LevelAbove(leaves, h)) >= 1}
<1>1. 0 \in T
  BY LevelStep
<1>2. ASSUME NEW h \in Nat, h \in T
      PROVE  h + 1 \in T
  <2>1. PICK level : level = LevelAbove(leaves, h)
    OBVIOUS
  <2>2. IsLevel(level) /\ Len(level) >= 1 /\ Len(level) \in Nat
    BY <1>2, <2>1 DEF IsLevel
  <2>3. IsLevel(Above(level)) /\ Len(Above(level)) = (Len(level) + 1) \div 2
    BY <2>2, AboveIs
  <2>4. LevelAbove(leaves, h + 1) = Above(level)
    BY <2>1, LevelStep
  <2>5. Len(Above(level)) >= 1
    BY <2>2, <2>3
  <2> QED
    BY <2>3, <2>4, <2>5
<1>3. \A h \in Nat : h \in T
  <2> HIDE DEF T
  <2> QED
    BY <1>1, <1>2, Induct
<1> QED
  BY <1>3

\* The loop ends, with the root alone.
LEMMA HeightIs ==
  ASSUME NEW leaves, IsLevel(leaves), Len(leaves) >= 1
  PROVE  Height(leaves) \in Nat /\ Len(LevelAbove(leaves, Height(leaves))) = 1
<1> DEFINE T == {h \in 0 .. Len(leaves) : Len(LevelAbove(leaves, h)) <= 1}
           Shrinks == {h \in Nat : (\A g \in 0 .. h - 1 : Len(LevelAbove(leaves, g)) > 1)
                                     => Len(LevelAbove(leaves, h)) + h <= Len(leaves)}
<1>1. Len(leaves) \in Nat /\ LevelAbove(leaves, 0) = leaves
  BY LevelStep DEF IsLevel
<1>2. \A h \in Nat : Len(LevelAbove(leaves, h)) \in Nat /\ Len(LevelAbove(leaves, h)) >= 1
  BY LevelsAreLevels DEF IsLevel
<1>3. \A h \in Nat : Len(LevelAbove(leaves, h + 1)) = (Len(LevelAbove(leaves, h)) + 1) \div 2
  BY LevelStep, AboveIs, LevelsAreLevels
<1>4. 0 \in Shrinks
  BY <1>1
<1>5. ASSUME NEW h \in Nat, h \in Shrinks
      PROVE  h + 1 \in Shrinks
  <2> SUFFICES ASSUME \A g \in 0 .. h : Len(LevelAbove(leaves, g)) > 1
               PROVE  Len(LevelAbove(leaves, h + 1)) + (h + 1) <= Len(leaves)
    OBVIOUS
  <2>1. PICK a \in Nat : a = Len(LevelAbove(leaves, h))
    BY <1>2
  <2>2. a > 1
    BY <2>1
  <2>3. a + h <= Len(leaves)
    BY <1>5, <2>1
  <2>4. Len(LevelAbove(leaves, h + 1)) = (a + 1) \div 2
    BY <1>3, <2>1
  <2> QED
    BY <1>1, <2>2, <2>3, <2>4
<1>6. \A h \in Nat : h \in Shrinks
  <2> HIDE DEF Shrinks
  <2> QED
    BY <1>4, <1>5, Induct
<1>7. T # {}
  <2> SUFFICES ASSUME T = {} PROVE FALSE
    OBVIOUS
  <2>2. \A h \in 0 .. Len(leaves) : ~(Len(LevelAbove(leaves, h)) <= 1) /\ h \in Nat
    BY <1>1
  <2>3. \A h \in 0 .. Len(leaves) : Len(LevelAbove(leaves, h)) > 1
    BY <1>2, <2>2
  <2>1. Len(LevelAbove(leaves, Len(leaves))) + Len(leaves) <= Len(leaves)
    BY <1>1, <1>6, <2>3
  <2> QED
    BY <1>1, <1>2, <2>1
<1>8. PICK h \in T : \A g \in T : h <= g
  <2>1. T \in SUBSET Nat
    BY <1>1
  <2> HIDE DEF T
  <2> QED
    BY <1>7, <2>1, Least
<1> DEFINE Ends(n) == /\ Len(LevelAbove(leaves, n)) <= 1
                      /\ \A g \in 0 .. n - 1 : Len(LevelAbove(leaves, g)) > 1
<1>9. h \in 0 .. Len(leaves) /\ Ends(h)
  BY <1>1, <1>2, <1>8
<1>10. Height(leaves) = CHOOSE n \in 0 .. Len(leaves) : Ends(n)
  BY DEF Height
<1>11. Height(leaves) \in 0 .. Len(leaves) /\ Ends(Height(leaves))
  <2> HIDE DEF Ends, T
  <2> QED
    BY <1>9, <1>10
<1>12. PICK n : n = Height(leaves)
  OBVIOUS
<1>13. n \in Nat /\ Len(LevelAbove(leaves, n)) <= 1
  BY <1>1, <1>11, <1>12
<1>14. PICK a \in Nat : a = Len(LevelAbove(leaves, n))
  BY <1>2, <1>13
<1>15. a >= 1 /\ a <= 1
  BY <1>2, <1>13, <1>14
<1>16. a = 1
  BY <1>15
<1> QED
  BY <1>12, <1>13, <1>14, <1>16

LEMMA PlaceType ==
  ASSUME NEW index \in Nat
  PROVE  \A h \in Nat : Place(index, h) \in Nat
<1> DEFINE T == {h \in Nat : Place(index, h) \in Nat}
<1>1. 0 \in T
  BY PlaceStep
<1>2. ASSUME NEW h \in Nat, h \in T
      PROVE  h + 1 \in T
  <2>1. Place(index, h + 1) = Place(index, h) \div 2
    BY PlaceStep
  <2> QED
    BY <1>2, <2>1
<1>3. \A h \in Nat : h \in T
  <2> HIDE DEF T
  <2> QED
    BY <1>1, <1>2, Induct
<1> QED
  BY <1>3

\* The place a leaf is below is one of the level.
LEMMA PlaceInLevel ==
  ASSUME NEW leaves, IsLevel(leaves), Len(leaves) >= 1, NEW index \in 0 .. Len(leaves) - 1
  PROVE  \A h \in Nat : Place(index, h) \in 0 .. Len(LevelAbove(leaves, h)) - 1
<1> DEFINE T == {h \in Nat : Place(index, h) \in 0 .. Len(LevelAbove(leaves, h)) - 1}
<1>1. 0 \in T
  BY LevelStep, PlaceStep
<1>2. ASSUME NEW h \in Nat, h \in T
      PROVE  h + 1 \in T
  <2>1. IsLevel(LevelAbove(leaves, h))
    BY LevelsAreLevels
  <2>2. PICK a \in Nat : a = Len(LevelAbove(leaves, h))
    BY <2>1 DEF IsLevel
  <2>3. Len(LevelAbove(leaves, h + 1)) = (a + 1) \div 2
    BY <2>1, <2>2, LevelStep, AboveIs
  <2>4. Place(index, h + 1) = Place(index, h) \div 2
    <3>1. index \in Nat
      BY DEF IsLevel
    <3> QED
      BY <3>1, PlaceStep
  <2>5. PICK p \in 0 .. a - 1 : p = Place(index, h)
    BY <1>2, <2>2
  <2>6. p \div 2 \in 0 .. (a + 1) \div 2 - 1
    BY <2>5
  <2> QED
    BY <2>3, <2>4, <2>5, <2>6
<1>3. \A h \in Nat : h \in T
  <2> HIDE DEF T
  <2> QED
    BY <1>1, <1>2, Induct
<1> QED
  BY <1>3

-----------------------------------------------------------------------------
(* One level                                                               *)

Up(step, x) == IF step.left THEN Node(step.node, x) ELSE Node(x, step.node)

\* Together with the sibling only the node itself makes the node above.
LEMMA UpFromPlace ==
  ASSUME NEW level, IsLevel(level), NEW p \in 0 .. Len(level) - 1, NEW x, NEW step,
         step.node = level[Beside(level, p) + 1], step.left <=> p % 2 = 1
  PROVE  Up(step, x) = Above(level)[p \div 2 + 1] <=> x = level[p + 1]
<1>1. PICK a \in Nat : a = Len(level)
  BY DEF IsLevel
<1>2. PICK q \in Nat : q = p \div 2
  <2>1. p \in Nat
    BY <1>1
  <2> QED
    BY <2>1
<1>3. q \in 0 .. Len(Above(level)) - 1
  BY <1>1, <1>2, AboveIs
<1>4. Above(level)[q + 1] =
        Node(level[2 * q + 1], IF 2 * q + 2 <= a THEN level[2 * q + 2] ELSE level[2 * q + 1])
  BY <1>1, <1>3, AboveIs
<1>5. CASE p % 2 = 1
  <2>1. p = 2 * q + 1 /\ 2 * q + 2 <= a
    BY <1>1, <1>2, <1>5
  <2>2. step.node = level[2 * q + 1] /\ p + 1 = 2 * q + 2
    BY <1>5, <2>1 DEF Beside
  <2> QED
    BY <1>2, <1>4, <1>5, <2>1, <2>2 DEF Up, Node
<1>6. CASE p % 2 # 1
  <2>1. p = 2 * q
    BY <1>1, <1>2, <1>6
  <2>2. step.node = IF 2 * q + 2 <= a THEN level[2 * q + 2] ELSE level[2 * q + 1]
    BY <1>1, <1>6, <2>1 DEF Beside
  <2> QED
    BY <1>2, <1>4, <1>6, <2>1, <2>2 DEF Up, Node
<1> QED
  BY <1>5, <1>6

\* x is a node below that place; if it was hashed on its side, then with its sibling.
FromBelow(level, q, step, x) ==
  \E p \in 0 .. Len(level) - 1 :
    /\ p \div 2 = q /\ x = level[p + 1]
    /\ (step.left <=> p % 2 = 1) => step.node = level[Beside(level, p) + 1]

\* Whatever was hashed to a node was a node below it.
LEMMA DownFromPlace ==
  ASSUME NEW level, IsLevel(level), NEW q \in 0 .. Len(Above(level)) - 1, NEW x, NEW step,
         Up(step, x) = Above(level)[q + 1]
  PROVE  FromBelow(level, q, step, x)
<1>1. PICK a \in Nat : a = Len(level)
  BY DEF IsLevel
<1>2. Len(Above(level)) = (a + 1) \div 2 /\ q \in Nat /\ 2 * q + 1 <= a
  BY <1>1, AboveIs
<1>3. Above(level)[q + 1] =
        Node(level[2 * q + 1], IF 2 * q + 2 <= a THEN level[2 * q + 2] ELSE level[2 * q + 1])
  BY <1>1, AboveIs
<1>4. CASE step.left /\ 2 * q + 2 <= a
  <2>1. step.node = level[2 * q + 1] /\ x = level[2 * q + 2]
    BY <1>3, <1>4 DEF Up, Node
  <2>2. /\ 2 * q + 1 \in 0 .. a - 1 /\ (2 * q + 1) \div 2 = q
        /\ (2 * q + 1) + 1 = 2 * q + 2 /\ Beside(level, 2 * q + 1) + 1 = 2 * q + 1
    BY <1>2, <1>4 DEF Beside
  <2> QED
    BY <1>1, <2>1, <2>2 DEF FromBelow
<1>5. CASE step.left /\ ~(2 * q + 2 <= a)
  <2>1. x = level[2 * q + 1]
    BY <1>3, <1>5 DEF Up, Node
  <2>2. 2 * q \in 0 .. a - 1 /\ (2 * q) \div 2 = q /\ (2 * q) % 2 # 1
    BY <1>2
  <2> QED
    BY <1>1, <1>5, <2>1, <2>2 DEF FromBelow
<1>6. CASE ~step.left
  <2>1. /\ x = level[2 * q + 1]
        /\ step.node = IF 2 * q + 2 <= a THEN level[2 * q + 2] ELSE level[2 * q + 1]
    BY <1>3, <1>6 DEF Up, Node
  <2>2. 2 * q \in 0 .. a - 1 /\ (2 * q) \div 2 = q /\ (2 * q) % 2 # 1
    BY <1>2
  <2>3. Beside(level, 2 * q) + 1 = IF 2 * q + 2 <= a THEN 2 * q + 2 ELSE 2 * q + 1
    BY <1>1, <1>2, <2>2 DEF Beside
  <2> QED
    BY <1>1, <2>1, <2>2, <2>3 DEF FromBelow
<1> QED
  BY <1>4, <1>5, <1>6

-----------------------------------------------------------------------------
(* Paths                                                                   *)

Climbs(leaf, steps, n, t) ==
  t = [h \in 0 .. n |-> IF h = 0 THEN leaf
                        ELSE IF steps[h].left THEN Node(steps[h].node, t[h - 1])
                        ELSE Node(t[h - 1], steps[h].node)]

StepByStep(leaf, steps, n, t) ==
  t[0] = leaf /\ \A h \in 1 .. n : t[h] = Up(steps[h], t[h - 1])

LEMMA ClimbsUp ==
  ASSUME NEW leaf, NEW steps, NEW n \in Nat, NEW t, Climbs(leaf, steps, n, t)
  PROVE  StepByStep(leaf, steps, n, t)
BY DEF Climbs, Up, StepByStep

LEMMA ClimbsExist ==
  ASSUME NEW leaf, NEW steps, NEW n \in Nat
  PROVE  \E t : Climbs(leaf, steps, n, t)
<1> DEFINE T == {h \in Nat : \E t : Climbs(leaf, steps, h, t)}
<1>1. 0 \in T
  <2>1. Climbs(leaf, steps, 0, [h \in 0 .. 0 |-> leaf])
    BY DEF Climbs
  <2> QED
    BY <2>1
<1>2. \A m \in Nat : m \in T => m + 1 \in T
  <2> SUFFICES ASSUME NEW m \in Nat, m \in T PROVE \E t : Climbs(leaf, steps, m + 1, t)
    OBVIOUS
  <2>1. PICK t : Climbs(leaf, steps, m, t)
    OBVIOUS
  <2>2. PICK u : u = [h \in 0 .. m + 1 |-> IF h = m + 1 THEN Up(steps[h], t[m]) ELSE t[h]]
    OBVIOUS
  <2>3. \A h \in 0 .. m : u[h] = t[h]
    BY <2>2
  <2>4. t[0] = leaf /\ \A h \in 1 .. m : t[h] = Up(steps[h], t[h - 1])
    <3>1. StepByStep(leaf, steps, m, t)
      BY <2>1, ClimbsUp
    <3> QED
      BY <3>1 DEF StepByStep
  <2>5. u[m + 1] = Up(steps[m + 1], u[m]) /\ u[0] = leaf
    BY <2>2, <2>3, <2>4
  <2>6. \A h \in 1 .. m : u[h] = Up(steps[h], u[h - 1])
    BY <2>3, <2>4
  <2>7. \A h \in 0 .. m + 1 : u[h] = IF h = 0 THEN leaf ELSE Up(steps[h], u[h - 1])
    BY <2>5, <2>6
  <2>8. Climbs(leaf, steps, m + 1, u)
    BY <2>2, <2>7 DEF Climbs, Up
  <2> QED
    BY <2>8
<1>3. \A m \in Nat : m \in T
  <2> HIDE DEF T
  <2> QED
    BY <1>1, <1>2, Induct
<1> QED
  BY <1>3

LEMMA ClimbIs ==
  ASSUME NEW leaf, NEW steps, Len(steps) \in Nat
  PROVE  \E t : Climbs(leaf, steps, Len(steps), t) /\ Climb(leaf, steps) = t[Len(steps)]
<1> DEFINE Solves(t) == t = [h \in 0 .. Len(steps) |->
                              IF h = 0 THEN leaf
                              ELSE IF steps[h].left THEN Node(steps[h].node, t[h - 1])
                              ELSE Node(t[h - 1], steps[h].node)]
           node == CHOOSE t : Solves(t)
<1>1. Climb(leaf, steps) = node[Len(steps)]
  BY DEF Climb
<1>2. \A t : Solves(t) <=> Climbs(leaf, steps, Len(steps), t)
  BY DEF Climbs
<1>3. Solves(node)
  <2>1. \E t : Solves(t)
    <3> HIDE DEF Solves
    <3> QED
      BY <1>2, ClimbsExist
  <2> HIDE DEF Solves
  <2> QED
    BY <2>1
<1> QED
  <2> HIDE DEF Solves, node
  <2> QED
    BY <1>1, <1>2, <1>3

Sibling(leaves, index, height) ==
  LevelAbove(leaves, height)[Beside(LevelAbove(leaves, height), Place(index, height)) + 1]

\* At that height a step gives the sibling of the place of leaf index, and its side.
Follows(leaves, index, height, step) ==
  /\ step.node = Sibling(leaves, index, height)
  /\ step.left <=> Place(index, height) % 2 = 1

IsPathOf(leaves, index, steps) ==
  /\ Len(steps) = Height(leaves)
  /\ \A h \in 1 .. Len(steps) : Follows(leaves, index, h - 1, steps[h])

\* The path of a leaf leads to the root from this leaf, and from nothing else.
LEMMA PathLeadsUp ==
  ASSUME NEW leaves, IsLevel(leaves), Len(leaves) >= 1, NEW index \in 0 .. Len(leaves) - 1,
         NEW steps, IsPathOf(leaves, index, steps), NEW leaf
  PROVE  Climb(leaf, steps) = RootOf(leaves) <=> leaf = leaves[index + 1]
<1>1. PICK n \in Nat : n = Height(leaves) /\ n = Len(steps)
  BY HeightIs DEF IsPathOf
<1>2. PICK t : Climbs(leaf, steps, n, t) /\ Climb(leaf, steps) = t[n]
  BY <1>1, ClimbIs
<1>3. t[0] = leaf /\ \A h \in 1 .. n : t[h] = Up(steps[h], t[h - 1])
  <2>1. StepByStep(leaf, steps, n, t)
    BY <1>2, ClimbsUp
  <2> QED
    BY <2>1 DEF StepByStep
<1>4. index \in Nat
  BY DEF IsLevel
<1> DEFINE T == {h \in Nat : h <= n => (t[h] = LevelAbove(leaves, h)[Place(index, h) + 1]
                                          <=> leaf = leaves[index + 1])}
<1>5. 0 \in T
  BY <1>3, <1>4, LevelStep, PlaceStep
<1>6. ASSUME NEW h \in Nat, h \in T
      PROVE  h + 1 \in T
  <2> SUFFICES ASSUME h + 1 <= n
               PROVE  t[h + 1] = LevelAbove(leaves, h + 1)[Place(index, h + 1) + 1]
                        <=> leaf = leaves[index + 1]
    OBVIOUS
  <2>1. h + 1 \in 1 .. n /\ (h + 1) - 1 = h /\ h <= n
    BY <1>1
  <2>2. t[h] = LevelAbove(leaves, h)[Place(index, h) + 1] <=> leaf = leaves[index + 1]
    BY <1>6, <2>1
  <2>3. t[h + 1] = Up(steps[h + 1], t[h])
    BY <1>3, <2>1
  <2>4. Follows(leaves, index, h, steps[h + 1])
    BY <1>1, <2>1 DEF IsPathOf
  <2>5. PICK level : level = LevelAbove(leaves, h)
    OBVIOUS
  <2>6. PICK p : p = Place(index, h)
    OBVIOUS
  <2>7. IsLevel(level) /\ p \in 0 .. Len(level) - 1
    BY <2>5, <2>6, LevelsAreLevels, PlaceInLevel
  <2>8. LevelAbove(leaves, h + 1) = Above(level) /\ Place(index, h + 1) = p \div 2
    BY <1>4, <2>5, <2>6, LevelStep, PlaceStep
  <2>9. /\ steps[h + 1].node = level[Beside(level, p) + 1]
        /\ steps[h + 1].left <=> p % 2 = 1
    BY <2>4, <2>5, <2>6 DEF Follows, Sibling
  <2>10. Up(steps[h + 1], t[h]) = Above(level)[p \div 2 + 1] <=> t[h] = level[p + 1]
    <3>1. PICK x : x = t[h]
      OBVIOUS
    <3>2. PICK step : step = steps[h + 1]
      OBVIOUS
    <3>3. step.node = level[Beside(level, p) + 1] /\ (step.left <=> p % 2 = 1)
      BY <2>9, <3>2
    <3>4. Up(step, x) = Above(level)[p \div 2 + 1] <=> x = level[p + 1]
      BY <2>7, <3>3, UpFromPlace
    <3> QED
      BY <3>1, <3>2, <3>4
  <2> QED
    BY <2>2, <2>3, <2>5, <2>6, <2>8, <2>10
<1>7. \A h \in Nat : h \in T
  <2> HIDE DEF T
  <2> QED
    BY <1>5, <1>6, Induct
<1>8. t[n] = LevelAbove(leaves, n)[Place(index, n) + 1] <=> leaf = leaves[index + 1]
  BY <1>1, <1>7
<1>9. Place(index, n) = 0
  <2>1. Len(LevelAbove(leaves, n)) = 1
    BY <1>1, HeightIs
  <2>2. Place(index, n) \in 0 .. Len(LevelAbove(leaves, n)) - 1
    BY <1>1, PlaceInLevel
  <2> QED
    BY <2>1, <2>2
<1> QED
  BY <1>1, <1>2, <1>8, <1>9 DEF RootOf

NamesALeaf(leaves, leaf, steps) ==
  \E index \in 0 .. Len(leaves) - 1 :
    /\ leaf = leaves[index + 1]
    /\ \A h \in 1 .. Len(steps) :
         (steps[h].left <=> Place(index, h - 1) % 2 = 1)
           => steps[h].node = Sibling(leaves, index, h - 1)

\* What leads to the root along any steps, as many as there are levels, is a leaf; where the
\* steps are on the sides of its siblings they name its siblings.
LEMMA OnlyLeavesLeadUp ==
  ASSUME NEW leaves, IsLevel(leaves), Len(leaves) >= 1,
         NEW steps, Len(steps) = Height(leaves), NEW leaf,
         Climb(leaf, steps) = RootOf(leaves)
  PROVE  NamesALeaf(leaves, leaf, steps)
<1>1. PICK n \in Nat : n = Height(leaves) /\ n = Len(steps)
  BY HeightIs
<1>2. PICK t : Climbs(leaf, steps, n, t) /\ Climb(leaf, steps) = t[n]
  BY <1>1, ClimbIs
<1>3. t[0] = leaf /\ \A h \in 1 .. n : t[h] = Up(steps[h], t[h - 1])
  <2>1. StepByStep(leaf, steps, n, t)
    BY <1>2, ClimbsUp
  <2> QED
    BY <2>1 DEF StepByStep
<1> DEFINE Named(i, h) == (steps[h].left <=> Place(i, h - 1) % 2 = 1)
                            => steps[h].node = Sibling(leaves, i, h - 1)
           Below(h, q) == \E i \in 0 .. Len(leaves) - 1 :
                             /\ leaf = leaves[i + 1] /\ Place(i, h) = q
                             /\ \A g \in 1 .. h : Named(i, g)
           T == {h \in Nat : h <= n => \A q \in 0 .. Len(LevelAbove(leaves, h)) - 1 :
                                t[h] = LevelAbove(leaves, h)[q + 1] => Below(h, q)}
<1>4. \A i \in 0 .. Len(leaves) - 1 : i \in Nat
  BY DEF IsLevel
<1>5. 0 \in T
  <2> SUFFICES ASSUME NEW q \in 0 .. Len(leaves) - 1, leaf = leaves[q + 1]
               PROVE  Below(0, q)
    <3> HIDE DEF Below
    <3> QED
      BY <1>3, LevelStep
  <2>1. Place(q, 0) = q
    BY <1>4, PlaceStep
  <2> QED
    BY <2>1
<1>6. ASSUME NEW h \in Nat, h \in T
      PROVE  h + 1 \in T
  <2> SUFFICES ASSUME h + 1 <= n, NEW q \in 0 .. Len(LevelAbove(leaves, h + 1)) - 1,
                      t[h + 1] = LevelAbove(leaves, h + 1)[q + 1]
               PROVE  Below(h + 1, q)
    <3> HIDE DEF Below
    <3> QED
      OBVIOUS
  <2>1. h + 1 \in 1 .. n /\ (h + 1) - 1 = h /\ h <= n
    BY <1>1
  <2>2. PICK level : level = LevelAbove(leaves, h)
    OBVIOUS
  <2>3. IsLevel(level) /\ LevelAbove(leaves, h + 1) = Above(level)
    BY <2>2, LevelsAreLevels, LevelStep
  <2>4. Up(steps[h + 1], t[h]) = Above(level)[q + 1] /\ q \in 0 .. Len(Above(level)) - 1
    BY <1>3, <2>1, <2>3
  <2>5. PICK p \in 0 .. Len(level) - 1 :
          /\ p \div 2 = q /\ t[h] = level[p + 1]
          /\ (steps[h + 1].left <=> p % 2 = 1)
               => steps[h + 1].node = level[Beside(level, p) + 1]
    <3>1. PICK x : x = t[h]
      OBVIOUS
    <3>2. PICK step : step = steps[h + 1]
      OBVIOUS
    <3>3. Up(step, x) = Above(level)[q + 1]
      BY <2>4, <3>1, <3>2
    <3>4. FromBelow(level, q, step, x)
      BY <2>3, <2>4, <3>3, DownFromPlace
    <3> HIDE DEF T, Below, Named
    <3> QED
      BY <3>1, <3>2, <3>4 DEF FromBelow
  <2>6. Below(h, p)
    <3>1. \A r \in 0 .. Len(LevelAbove(leaves, h)) - 1 :
            t[h] = LevelAbove(leaves, h)[r + 1] => Below(h, r)
      <4> HIDE DEF Below
      <4> QED
        BY <1>6, <2>1
    <3> HIDE DEF Below
    <3> QED
      BY <2>2, <2>5, <3>1
  <2>7. PICK i \in 0 .. Len(leaves) - 1 :
          leaf = leaves[i + 1] /\ Place(i, h) = p /\ \A g \in 1 .. h : Named(i, g)
    BY <2>6
  <2>8. Place(i, h + 1) = q
    BY <1>4, <2>5, <2>7, PlaceStep
  <2>9. Named(i, h + 1)
    BY <2>1, <2>2, <2>5, <2>7 DEF Sibling
  <2>10. \A g \in 1 .. h + 1 : Named(i, g)
    <3> HIDE DEF Named
    <3> QED
      BY <2>7, <2>9
  <2> HIDE DEF Named
  <2> QED
    BY <2>7, <2>8, <2>10
<1>7. \A h \in Nat : h \in T
  <2> HIDE DEF T
  <2> QED
    BY <1>5, <1>6, Induct
<1>8. Below(n, 0)
  <2>1. Len(LevelAbove(leaves, n)) = 1 /\ t[n] = LevelAbove(leaves, n)[1]
    BY <1>1, <1>2, HeightIs DEF RootOf
  <2> HIDE DEF Below
  <2>2. \A q \in 0 .. Len(LevelAbove(leaves, n)) - 1 :
          t[n] = LevelAbove(leaves, n)[q + 1] => Below(n, q)
    BY <1>1, <1>7
  <2> QED
    BY <2>1, <2>2
<1> QED
  BY <1>1, <1>8 DEF NamesALeaf

=============================================================================
