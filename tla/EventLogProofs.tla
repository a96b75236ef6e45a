--------------------------- MODULE EventLogProofs ---------------------------
(***************************************************************************)
(* Proofs about EventLog, for any threads, any rotation cap, lines of any  *)
(* length and any number of records and of writes cut short: the type      *)
(* invariant, what a file keeps and in which order, the size bound, and    *)
(* what a read and a tail --follow that run without the lock return.       *)
(*                                                                         *)
(* First what By and Pick return, then what appending does to a file, then *)
(* the inductive invariant LogInv, stated part by part over a state's      *)
(* values, one lemma per action, and the theorems.                         *)
(***************************************************************************)
EXTENDS EventLog, FiniteSetTheorems, SequenceTheorems, TLAPS

(***************************************************************************)
(* Places: the positions K in some order.                                  *)
(***************************************************************************)

Places(place, K) ==
    /\ IsFiniteSet(K) /\ Cardinality(K) \in Nat
    /\ place \in [K -> 1..Cardinality(K)]
    /\ \A k, l \in K : place[k] = place[l] => k = l
    /\ \A i \in 1..Cardinality(K) : \E k \in K : place[k] = i

\* If what lies at or below each position is a chain, counting it places the
\* positions one after the other.
LEMMA ChainPlaces ==
    ASSUME NEW K, IsFiniteSet(K), NEW below \in [K -> SUBSET K],
           \A k \in K : k \in below[k],
           \A k, l \in K : k # l => \/ below[k] \subseteq below[l] /\ l \notin below[k]
                                    \/ below[l] \subseteq below[k] /\ k \notin below[l]
    PROVE  LET place == [k \in K |-> Cardinality(below[k])]
           IN  /\ Places(place, K)
               /\ \A k, l \in K : below[k] \subseteq below[l] => place[k] <= place[l]
               /\ \A k, l \in K : below[k] \subseteq below[l] /\ l \notin below[k]
                                     => place[k] < place[l]
  <1> DEFINE place == [k \in K |-> Cardinality(below[k])]
  <1>1. Cardinality(K) \in Nat
    BY FS_CardinalityType
  <1>2. \A k \in K : /\ IsFiniteSet(below[k]) /\ Cardinality(below[k]) \in Nat
                     /\ Cardinality(below[k]) <= Cardinality(K)
    BY FS_Subset, FS_CardinalityType
  <1>3. \A k \in K : Cardinality(below[k]) # 0
    BY <1>2, FS_EmptySet
  <1>4. place \in [K -> 1..Cardinality(K)]
    BY <1>1, <1>2, <1>3
  <1>5. ASSUME NEW k \in K, NEW l \in K, below[k] \subseteq below[l]
        PROVE  /\ Cardinality(below[k]) <= Cardinality(below[l])
               /\ l \notin below[k] => Cardinality(below[k]) # Cardinality(below[l])
    <2>1. IsFiniteSet(below[l]) /\ below[k] \in SUBSET below[l]
      BY <1>2, <1>5
    <2>2. /\ Cardinality(below[k]) <= Cardinality(below[l])
          /\ Cardinality(below[l]) = Cardinality(below[k]) => below[l] = below[k]
      BY <2>1, FS_Subset
    <2> QED BY <2>2
  <1>6. \A k, l \in K : below[k] \subseteq below[l] => place[k] <= place[l]
    BY <1>5
  <1>7. \A k, l \in K : below[k] \subseteq below[l] /\ l \notin below[k] => place[k] < place[l]
    BY <1>5, <1>2
  <1>8. \A k, l \in K : place[k] = place[l] => k = l
    <2> SUFFICES ASSUME NEW k \in K, NEW l \in K, k # l PROVE place[k] # place[l]
      OBVIOUS
    <2>1. place[k] \in Nat /\ place[l] \in Nat
      BY <1>2
    <2>2. place[k] < place[l] \/ place[l] < place[k]
      BY <1>7
    <2> HIDE DEF place
    <2> QED BY <2>1, <2>2
  <1>9. \A i \in 1..Cardinality(K) : \E k \in K : place[k] = i
    <2> DEFINE T == 1..Cardinality(K)
    <2>1. IsFiniteSet(T) /\ Cardinality(T) = Cardinality(K)
      BY <1>1, FS_Interval
    <2>2. place \in Injection(K, T)
      BY <1>4, <1>8 DEF Injection, IsInjective
    <2> HIDE DEF place, T
    <2>3. place \in Surjection(K, T)
      BY <2>1, <2>2, FS_Injection
    <2> QED BY <2>3 DEF Surjection, T
  <1> HIDE DEF place
  <1>10. Places(place, K)
    BY <1>1, <1>4, <1>8, <1>9 DEF Places
  <1> QED BY <1>10, <1>6, <1>7 DEF place

\* By puts the element of position k at its place.
LEMMA ByPlaces ==
    ASSUME NEW X, NEW s \in Seq(X), NEW K \in SUBSET DOMAIN s, NEW place, Places(place, K)
    PROVE  /\ By(s, place) \in Seq(X) /\ Len(By(s, place)) = Cardinality(K)
           /\ \A k \in K : place[k] \in 1..Cardinality(K) /\ By(s, place)[place[k]] = s[k]
           /\ \A i \in 1..Cardinality(K) : \E k \in K : place[k] = i /\ By(s, place)[i] = s[k]
  <1> DEFINE b == By(s, place)
             n == Cardinality(K)
             at(i) == CHOOSE k \in K : place[k] = i
  <1>1. n \in Nat /\ DOMAIN place = K
    BY DEF Places
  <1>2. b = [i \in 1..n |-> s[at(i)]]
    BY <1>1 DEF By
  <1>3. \A i \in 1..n : at(i) \in K /\ place[at(i)] = i
    BY DEF Places
  <1>4. \A k \in K : place[k] \in 1..n /\ at(place[k]) = k
    <2> TAKE k \in K
    <2>1. place[k] \in 1..n
      BY DEF Places
    <2>2. at(place[k]) \in K /\ place[at(place[k])] = place[k]
      BY <2>1, <1>3
    <2> QED BY <2>1, <2>2 DEF Places
  <1>5. \A k \in K : s[k] \in X
    OBVIOUS
  <1> HIDE DEF b, n, at
  <1>6. \A i \in 1..n : b[i] \in X /\ b[i] = s[at(i)]
    BY <1>2, <1>3, <1>5
  <1>7. b \in Seq(X) /\ Len(b) = n
    BY <1>1, <1>2, <1>6
  <1>8. \A k \in K : place[k] \in 1..n /\ b[place[k]] = s[k]
    BY <1>2, <1>4
  <1>9. \A i \in 1..n : \E k \in K : place[k] = i /\ b[i] = s[k]
    BY <1>6, <1>3
  <1> QED BY <1>7, <1>8, <1>9 DEF b, n

\* The place of a position among those of K, from left to right.
LeftToRight(K) == [k \in K |-> Cardinality({j \in K : j <= k})]

LEMMA LeftToRightPlaces ==
    ASSUME NEW K \in SUBSET Nat, IsFiniteSet(K)
    PROVE  /\ Places(LeftToRight(K), K)
           /\ \A k, l \in K : k < l => LeftToRight(K)[k] < LeftToRight(K)[l]
  <1> DEFINE below == [k \in K |-> {j \in K : j <= k}]
  <1>1. below \in [K -> SUBSET K] /\ \A k \in K : k \in below[k]
    OBVIOUS
  <1>2. ASSUME NEW k \in K, NEW l \in K, k < l
        PROVE  below[k] \subseteq below[l] /\ l \notin below[k]
    <2>1. k \in Int /\ l \in Int /\ \A j \in K : j \in Int
      OBVIOUS
    <2>2. \A j \in K : j <= k => j <= l
      BY <2>1, <1>2
    <2>3. ~ (l <= k)
      BY <2>1, <1>2
    <2> QED BY <2>2, <2>3
  <1>3. \A k, l \in K : k # l => k < l \/ l < k
    OBVIOUS
  <1>4. LeftToRight(K) = [k \in K |-> Cardinality(below[k])]
    BY DEF LeftToRight
  <1> HIDE DEF below
  <1>5. \A k, l \in K : k # l => \/ below[k] \subseteq below[l] /\ l \notin below[k]
                                 \/ below[l] \subseteq below[k] /\ k \notin below[l]
    BY <1>2, <1>3
  <1>6. LET place == [k \in K |-> Cardinality(below[k])]
        IN  /\ Places(place, K)
            /\ \A k, l \in K : below[k] \subseteq below[l] /\ l \notin below[k]
                                  => place[k] < place[l]
    BY <1>1, <1>5, ChainPlaces
  <1> QED BY <1>2, <1>4, <1>6

\* What Pick returns, and where each of its elements comes from.
LEMMA PickPlaces ==
    ASSUME NEW X, NEW s \in Seq(X), NEW K \in SUBSET DOMAIN s
    PROVE  /\ IsFiniteSet(K) /\ Cardinality(K) \in Nat
           /\ Pick(s, K) \in Seq(X) /\ Len(Pick(s, K)) = Cardinality(K)
           /\ \A k \in K : /\ LeftToRight(K)[k] \in 1..Cardinality(K)
                           /\ Pick(s, K)[LeftToRight(K)[k]] = s[k]
           /\ \A i \in 1..Cardinality(K) :
                 \E k \in K : LeftToRight(K)[k] = i /\ Pick(s, K)[i] = s[k]
           /\ \A k, l \in K : k < l => LeftToRight(K)[k] < LeftToRight(K)[l]
  <1>1. IsFiniteSet(1..Len(s))
    BY FS_Interval
  <1>2. IsFiniteSet(K) /\ Cardinality(K) \in Nat
    BY <1>1, FS_Subset, FS_CardinalityType
  <1>3. K \in SUBSET Nat
    OBVIOUS
  <1>4. /\ Places(LeftToRight(K), K)
        /\ \A k, l \in K : k < l => LeftToRight(K)[k] < LeftToRight(K)[l]
    BY <1>2, <1>3, LeftToRightPlaces
  <1>5. Pick(s, K) = By(s, LeftToRight(K))
    BY DEF Pick, LeftToRight
  <1> QED BY <1>2, <1>4, <1>5, ByPlaces

\* Nothing is picked from no positions.
LEMMA PickNone ==
    ASSUME NEW s
    PROVE  Pick(s, {}) = <<>>
  <1>1. Cardinality({}) = 0
    BY FS_EmptySet
  <1>2. DOMAIN [k \in {} |-> Cardinality({j \in {} : j <= k})] = {}
    OBVIOUS
  <1>3. Pick(s, {}) = [i \in 1..0 |-> s[CHOOSE k \in {} : [j \in {} |-> Cardinality({m \in {} : m <= j})][k] = i]]
    BY <1>1, <1>2 DEF Pick, By
  <1> QED BY <1>3

\* Only the picked elements matter.
LEMMA PickSame ==
    ASSUME NEW X, NEW s \in Seq(X), NEW t \in Seq(X),
           NEW K \in SUBSET DOMAIN s, K \subseteq DOMAIN t, \A k \in K : s[k] = t[k]
    PROVE  Pick(s, K) = Pick(t, K)
  <1> DEFINE p == Pick(s, K)
             q == Pick(t, K)
             n == Cardinality(K)
  <1>1. /\ p \in Seq(X) /\ Len(p) = n /\ n \in Nat
        /\ \A i \in 1..n : \E k \in K : LeftToRight(K)[k] = i /\ p[i] = s[k]
    BY PickPlaces
  <1>2. q \in Seq(X) /\ Len(q) = n /\ \A k \in K : q[LeftToRight(K)[k]] = t[k]
    BY PickPlaces
  <1> HIDE DEF p, q, n
  <1>3. ASSUME NEW i \in 1..Len(p)
        PROVE  p[i] = q[i]
    <2>1. PICK k \in K : LeftToRight(K)[k] = i /\ p[i] = s[k]
      BY <1>1
    <2>2. q[i] = t[k] /\ s[k] = t[k]
      BY <2>1, <1>2
    <2> QED BY <2>1, <2>2
  <1>4. p = q
    BY <1>1, <1>2, <1>3, SeqEqual
  <1> QED BY <1>4 DEF p, q

\* A position to the right of the others adds its element at the end.
LEMMA PickOneMore ==
    ASSUME NEW X, NEW s \in Seq(X), NEW K \in SUBSET DOMAIN s, NEW n \in DOMAIN s,
           \A k \in K : k < n
    PROVE  Pick(s, K \cup {n}) = Append(Pick(s, K), s[n])
  <1> DEFINE L == K \cup {n}
             c == Cardinality(K)
             p == Pick(s, K)
             q == Pick(s, L)
             a == Append(p, s[n])
  <1>0. K \subseteq Int /\ n \in Int /\ L \in SUBSET DOMAIN s /\ n \notin K /\ s[n] \in X
    OBVIOUS
  <1>1. /\ IsFiniteSet(K) /\ c \in Nat /\ p \in Seq(X) /\ Len(p) = c
        /\ \A i \in 1..c : \E k \in K : LeftToRight(K)[k] = i /\ p[i] = s[k]
    BY PickPlaces
  <1>2. Cardinality(L) = c + 1
    BY <1>0, <1>1, FS_AddElement
  <1> HIDE DEF L
  <1>3. q \in Seq(X) /\ Len(q) = c + 1 /\ \A k \in L : q[LeftToRight(L)[k]] = s[k]
    BY <1>0, <1>2, PickPlaces
  <1> USE DEF L
  <1>4. ASSUME NEW k \in K
        PROVE  LeftToRight(L)[k] = LeftToRight(K)[k]
    <2>1. {j \in L : j <= k} = {j \in K : j <= k}
      BY <1>0
    <2> QED BY <2>1 DEF LeftToRight
  <1>5. LeftToRight(L)[n] = c + 1
    <2>1. {j \in L : j <= n} = L
      BY <1>0
    <2> QED BY <2>1, <1>2 DEF LeftToRight
  <1> HIDE DEF p, q, c
  <1>6. a \in Seq(X) /\ Len(a) = c + 1 /\ a[c + 1] = s[n] /\ \A i \in 1..c : a[i] = p[i]
    BY <1>0, <1>1, AppendProperties
  <1> HIDE DEF a
  <1>7. ASSUME NEW i \in 1..Len(a)
        PROVE  a[i] = q[i]
    <2>1. CASE i = c + 1
      BY <2>1, <1>3, <1>5, <1>6
    <2>2. CASE i \in 1..c
      <3>1. PICK k \in K : LeftToRight(K)[k] = i /\ p[i] = s[k]
        BY <2>2, <1>1
      <3> QED BY <3>1, <2>2, <1>3, <1>4, <1>6
    <2> QED BY <2>1, <2>2, <1>1, <1>6
  <1>8. a = q
    BY <1>3, <1>6, <1>7, SeqEqual
  <1> QED BY <1>8 DEF a, q, p, L

(***************************************************************************)
(* Files.                                                                  *)
(***************************************************************************)

Records(f) == {k \in DOMAIN f.data : f.data[k] \notin Pieces}

LEMMA PiecesAreNoRecords ==
    /\ Pieces \cap Nat = {}
    /\ \A x \in Nat \cup Pieces : x \notin Pieces <=> x \in Nat
  BY LogAssumption DEF Pieces

LEMMA NoFileFacts ==
    /\ NoFile \in File /\ NoFile.size = 0 /\ NoFile.data = <<>> /\ ~NoFile.exists
    /\ Parse(NoFile) = <<>> /\ Kept(NoFile) = <<>>
  <1>1. /\ <<>> \in Seq(Nat \cup Pieces)
        /\ NoFile.data = <<>> /\ NoFile.size = 0 /\ ~NoFile.exists
    BY EmptySeq DEF NoFile
  <1>2. DOMAIN NoFile.data = {}
    BY <1>1
  <1>3. Whole(NoFile) = {} /\ Records(NoFile) = {}
    BY <1>2 DEF Whole, Records
  <1>4. NoFile \in File
    BY <1>1 DEF NoFile, File
  <1> QED BY <1>1, <1>3, <1>4, PickNone DEF Parse, Kept, Records

LEMMA FileFacts ==
    ASSUME NEW f \in File
    PROVE  /\ f.data \in Seq(Nat \cup Pieces) /\ f.size \in Nat
           /\ Whole(f) \in SUBSET DOMAIN f.data /\ Records(f) \in SUBSET DOMAIN f.data
           /\ Whole(f) \subseteq Records(f)
           /\ Kept(f) = Pick(f.data, Records(f))
  BY DEF File, Whole, Records, Kept

\* What a file keeps and what _read_file returns of it are records.
LEMMA RecordsAreNumbers ==
    ASSUME NEW f \in File
    PROVE  Parse(f) \in Seq(Nat) /\ Kept(f) \in Seq(Nat)
  <1> DEFINE X == Nat \cup Pieces
  <1>1. /\ f.data \in Seq(X)
        /\ Whole(f) \in SUBSET DOMAIN f.data /\ Records(f) \in SUBSET DOMAIN f.data
        /\ Whole(f) \subseteq Records(f)
        /\ Kept(f) = Pick(f.data, Records(f))
    BY FileFacts
  <1>2. \A k \in Records(f) : f.data[k] \in Nat
    BY <1>1, PiecesAreNoRecords DEF Records
  <1>3. ASSUME NEW K \in SUBSET DOMAIN f.data, K \subseteq Records(f)
        PROVE  Pick(f.data, K) \in Seq(Nat)
    <2> DEFINE p == Pick(f.data, K)
    <2>1. /\ p \in Seq(X)
          /\ Len(p) = Cardinality(K)
          /\ \A i \in 1..Cardinality(K) : \E k \in K : LeftToRight(K)[k] = i /\ p[i] = f.data[k]
      BY <1>1, PickPlaces
    <2> HIDE DEF p, X
    <2>2. \A i \in 1..Len(p) : p[i] \in Nat
      BY <2>1, <1>2, <1>3
    <2>3. p \in Seq(Nat)
      BY <2>1, <2>2, LenProperties
    <2> QED BY <2>3 DEF p
  <1> QED BY <1>1, <1>3 DEF Parse

\* What appending to a file does to what it keeps and to what is read of it.
LEMMA ExtendFacts ==
    ASSUME NEW f \in File, NEW x \in Nat \cup Pieces, NEW b \in Nat
    PROVE  LET g == Extend(f, x, b)
           IN  /\ g \in File /\ g.size = f.size + b
               /\ g.exists /\ Len(g.data) = Len(f.data) + 1 /\ Len(f.data) \in Nat
               /\ x \in Pieces => Kept(g) = Kept(f) /\ Parse(g) = Parse(f)
               /\ x \in Nat => /\ Kept(g) = Append(Kept(f), x)
                               /\ Parse(g) \in {Parse(f), Append(Parse(f), x)}
  <1> DEFINE X == Nat \cup Pieces
             g == Extend(f, x, b)
             n == Len(f.data)
  <1>1. /\ f.data \in Seq(X) /\ f.size \in Nat
        /\ Whole(f) \in SUBSET DOMAIN f.data /\ Records(f) \in SUBSET DOMAIN f.data
        /\ Kept(f) = Pick(f.data, Records(f))
    BY FileFacts
  <1>2. g.data = Append(f.data, x) /\ g.size = f.size + b /\ g.exists
    BY DEF Extend
  <1>3. n \in Nat /\ DOMAIN f.data = 1..n
    BY <1>1
  <1>4. /\ g.data \in Seq(X) /\ Len(g.data) = n + 1 /\ DOMAIN g.data = 1..(n + 1)
        /\ \A k \in 1..n : g.data[k] = f.data[k]
        /\ g.data[n + 1] = x
    BY <1>1, <1>2, AppendProperties
  <1>5. g \in File
    BY <1>1, <1>2, <1>4 DEF Extend, File
  <1>6. Kept(g) = Pick(g.data, Records(g))
    BY <1>5, FileFacts
  <1> HIDE DEF g, n
  <1>7. x \notin Pieces <=> x \in Nat
    BY PiecesAreNoRecords
  <1>8. /\ x \in Pieces => Records(g) = Records(f)
        /\ x \in Nat => Records(g) = Records(f) \cup {n + 1}
    BY <1>3, <1>4, <1>7 DEF Records
  <1>9. Whole(g) \cap 1..n = Whole(f)
    <2>1. ASSUME NEW k \in 1..n PROVE k \in Whole(g) <=> k \in Whole(f)
      BY <1>3, <1>4 DEF Whole
    <2>2. Whole(f) \subseteq 1..n
      BY <1>3 DEF Whole
    <2> QED BY <2>1, <2>2
  <1>10. /\ x \in Pieces => Whole(g) = Whole(f)
         /\ Whole(g) \in {Whole(f), Whole(f) \cup {n + 1}}
    <2>1. Whole(g) \subseteq 1..(n + 1)
      BY <1>4 DEF Whole
    <2>2. x \in Pieces => n + 1 \notin Whole(g)
      BY <1>4 DEF Whole
    <2>0. \A k \in Whole(g) : k \in 1..n \/ k = n + 1
      BY <1>3, <2>1
    <2>3. n + 1 \notin Whole(g) => Whole(g) = Whole(f)
      BY <1>9, <2>0, Zenon
    <2>4. n + 1 \in Whole(g) => Whole(g) = Whole(f) \cup {n + 1}
      BY <1>9, <2>0, Zenon
    <2> QED BY <2>2, <2>3, <2>4
  <1>11. ASSUME NEW K \in SUBSET 1..n
         PROVE  /\ Pick(g.data, K) = Pick(f.data, K)
                /\ Pick(g.data, K \cup {n + 1}) = Append(Pick(f.data, K), x)
    <2>1. K \in SUBSET DOMAIN f.data /\ K \in SUBSET DOMAIN g.data
      BY <1>3, <1>4
    <2>2. \A k \in K : f.data[k] = g.data[k]
      BY <1>4
    <2>3. Pick(f.data, K) = Pick(g.data, K)
      BY <1>1, <1>4, <2>1, <2>2, PickSame
    <2>4. n + 1 \in DOMAIN g.data /\ \A k \in K : k < n + 1
      BY <1>3, <1>4
    <2>5. Pick(g.data, K \cup {n + 1}) = Append(Pick(g.data, K), g.data[n + 1])
      BY <1>4, <2>1, <2>4, PickOneMore
    <2> QED BY <1>4, <2>3, <2>5
  <1>12. x \in Pieces => Kept(g) = Kept(f) /\ Parse(g) = Parse(f)
    BY <1>1, <1>3, <1>6, <1>8, <1>10, <1>11 DEF Parse
  <1>13. x \in Nat => Kept(g) = Append(Kept(f), x)
    BY <1>1, <1>3, <1>6, <1>8, <1>11
  <1>14. Parse(g) \in {Parse(f), Append(Parse(f), x)}
    BY <1>1, <1>3, <1>10, <1>11 DEF Parse
  <1> QED BY <1>2, <1>3, <1>4, <1>5, <1>12, <1>13, <1>14 DEF g, n

\* To open a file changes nothing of what is in it.
Opened(f) == [f EXCEPT !.exists = TRUE]

LEMMA OpenedFacts ==
    ASSUME NEW f \in File
    PROVE  /\ Opened(f) \in File /\ Opened(f).exists
           /\ Opened(f).data = f.data /\ Opened(f).size = f.size
           /\ Kept(Opened(f)) = Kept(f) /\ Parse(Opened(f)) = Parse(f)
  <1> DEFINE g == Opened(f)
  <1>1. g \in File /\ g.exists /\ g.data = f.data /\ g.size = f.size
    BY DEF File, Opened
  <1> HIDE DEF g
  <1> QED BY <1>1 DEF g, Kept, Parse, Whole

\* What is read of a file are records that it keeps, in the order in which it
\* keeps them.
LEMMA ReadFromKept ==
    ASSUME NEW f \in File
    PROVE  /\ \A i \in 1..Len(Parse(f)) : \E k \in 1..Len(Kept(f)) : Kept(f)[k] = Parse(f)[i]
           /\ \A i, j \in 1..Len(Parse(f)) :
                 i < j => \E k, l \in 1..Len(Kept(f)) :
                              k < l /\ Kept(f)[k] = Parse(f)[i] /\ Kept(f)[l] = Parse(f)[j]
  <1> DEFINE X == Nat \cup Pieces
             W == Whole(f)
             R == Records(f)
             p == Parse(f)
             q == Kept(f)
  <1>1. /\ f.data \in Seq(X) /\ W \in SUBSET DOMAIN f.data /\ R \in SUBSET DOMAIN f.data
        /\ W \subseteq R /\ q = Pick(f.data, R)
    BY FileFacts
  <1>2. p = Pick(f.data, W)
    BY DEF Parse
  <1> HIDE DEF W, R, p, q
  <1>3. /\ Len(p) = Cardinality(W)
        /\ \A k \in W : LeftToRight(W)[k] \in 1..Cardinality(W)
        /\ \A i \in 1..Cardinality(W) :
              \E k \in W : LeftToRight(W)[k] = i /\ p[i] = f.data[k]
        /\ \A k, l \in W : k < l => LeftToRight(W)[k] < LeftToRight(W)[l]
    <2>1. W \in SUBSET DOMAIN f.data /\ f.data \in Seq(X)
      BY <1>1
    <2> HIDE DEF X
    <2>2. /\ Len(Pick(f.data, W)) = Cardinality(W)
          /\ \A k \in W : LeftToRight(W)[k] \in 1..Cardinality(W)
          /\ \A i \in 1..Cardinality(W) :
                \E k \in W : LeftToRight(W)[k] = i /\ Pick(f.data, W)[i] = f.data[k]
          /\ \A k, l \in W : k < l => LeftToRight(W)[k] < LeftToRight(W)[l]
      BY <2>1, PickPlaces
    <2> QED BY <2>2, <1>2
  <1>4. /\ Len(q) = Cardinality(R)
        /\ \A k \in R : /\ LeftToRight(R)[k] \in 1..Cardinality(R)
                        /\ q[LeftToRight(R)[k]] = f.data[k]
        /\ \A k, l \in R : k < l => LeftToRight(R)[k] < LeftToRight(R)[l]
    BY <1>1, PickPlaces
  <1>5. ASSUME NEW i \in 1..Len(p)
        PROVE  \E k \in 1..Len(q) : q[k] = p[i]
    <2>1. PICK k \in W : LeftToRight(W)[k] = i /\ p[i] = f.data[k]
      BY <1>3
    <2> QED BY <2>1, <1>1, <1>4
  <1>6. ASSUME NEW i \in 1..Len(p), NEW j \in 1..Len(p), i < j
        PROVE  \E k, l \in 1..Len(q) : k < l /\ q[k] = p[i] /\ q[l] = p[j]
    <2>1. PICK k \in W : LeftToRight(W)[k] = i /\ p[i] = f.data[k]
      BY <1>3
    <2>2. PICK l \in W : LeftToRight(W)[l] = j /\ p[j] = f.data[l]
      BY <1>3
    <2>3. k \in Nat /\ l \in Nat
      BY <1>1
    <2>4. k < l
      <3>1. CASE k = l
        BY <3>1, <2>1, <2>2, <1>6
      <3>2. CASE l < k
        BY <3>2, <2>1, <2>2, <1>6, <1>3
      <3> QED BY <2>3, <3>1, <3>2
    <2>5. /\ LeftToRight(R)[k] < LeftToRight(R)[l]
          /\ LeftToRight(R)[k] \in 1..Len(q) /\ LeftToRight(R)[l] \in 1..Len(q)
          /\ q[LeftToRight(R)[k]] = p[i] /\ q[LeftToRight(R)[l]] = p[j]
      BY <2>1, <2>2, <2>4, <1>1, <1>4
    <2> QED BY <2>5
  <1> QED BY <1>5, <1>6 DEF p, q

\* The pieces in a file.
Cuts(f) == {k \in DOMAIN f.data : f.data[k] \in Pieces}

LEMMA CutsOfExtend ==
    ASSUME NEW f \in File, NEW x \in Nat \cup Pieces, NEW b \in Nat
    PROVE  LET g == Extend(f, x, b)
           IN  /\ Cardinality(Cuts(f)) \in Nat /\ Cardinality(Cuts(g)) \in Nat
               /\ x \in Nat => Cardinality(Cuts(g)) = Cardinality(Cuts(f))
               /\ Cardinality(Cuts(g)) <= Cardinality(Cuts(f)) + 1
  <1> DEFINE X == Nat \cup Pieces
             g == Extend(f, x, b)
             n == Len(f.data)
  <1>1. f.data \in Seq(X)
    BY FileFacts
  <1>2. g.data = Append(f.data, x)
    BY DEF Extend
  <1>3. n \in Nat /\ DOMAIN f.data = 1..n
    BY <1>1
  <1>4. /\ DOMAIN g.data = 1..(n + 1) /\ g.data[n + 1] = x
        /\ \A k \in 1..n : g.data[k] = f.data[k]
    BY <1>1, <1>2, AppendProperties
  <1> HIDE DEF g, n
  <1>5. Cuts(f) \subseteq 1..n /\ Cuts(g) \in {Cuts(f), Cuts(f) \cup {n + 1}}
    BY <1>3, <1>4 DEF Cuts
  <1>6. x \in Nat => Cuts(g) = Cuts(f)
    <2>1. x \in Nat => n + 1 \notin Cuts(g)
      BY <1>4, PiecesAreNoRecords DEF Cuts
    <2> QED BY <2>1, <1>5, <1>3
  <1>7. IsFiniteSet(Cuts(f)) /\ Cardinality(Cuts(f)) \in Nat
    <2>1. IsFiniteSet(1..n)
      BY <1>3, FS_Interval
    <2>2. IsFiniteSet(Cuts(f))
      BY <1>5, <2>1, FS_Subset
    <2> QED BY <2>2, FS_CardinalityType
  <1>8. n + 1 \notin Cuts(f)
    BY <1>3, <1>5
  <1>9. Cardinality(Cuts(f) \cup {n + 1}) = Cardinality(Cuts(f)) + 1
    BY <1>7, <1>8, FS_AddElement
  <1>10. Cardinality(Cuts(g)) \in {Cardinality(Cuts(f)), Cardinality(Cuts(f)) + 1}
    BY <1>5, <1>9
  <1> QED BY <1>6, <1>7, <1>10 DEF g

LEMMA CutsOfEmpty ==
    Cardinality(Cuts(NoFile)) = 0
  <1>1. DOMAIN NoFile.data = {}
    BY DEF NoFile
  <1>2. Cuts(NoFile) = {}
    BY <1>1 DEF Cuts
  <1> QED BY <1>2, FS_EmptySet

\* Each record that a file keeps and that is not read of it follows a piece
\* of its own.
LEMMA OneLostPerCut ==
    ASSUME NEW f \in File
    PROVE  /\ Len(Kept(f)) \in Nat /\ Len(Parse(f)) \in Nat /\ Cardinality(Cuts(f)) \in Nat
           /\ Len(Kept(f)) - Len(Parse(f)) <= Cardinality(Cuts(f))
  <1> DEFINE X == Nat \cup Pieces
             W == Whole(f)
             R == Records(f)
             C == Cuts(f)
             G == R \ W
             n == Len(f.data)
  <1>1. /\ f.data \in Seq(X) /\ W \in SUBSET DOMAIN f.data /\ R \in SUBSET DOMAIN f.data
        /\ W \subseteq R /\ Kept(f) = Pick(f.data, R)
    BY FileFacts
  <1>2. n \in Nat /\ DOMAIN f.data = 1..n
    BY <1>1
  <1>3. Len(Kept(f)) = Cardinality(R) /\ IsFiniteSet(R) /\ Cardinality(R) \in Nat
    BY <1>1, PickPlaces
  <1>4. Len(Parse(f)) = Cardinality(W) /\ IsFiniteSet(W) /\ Cardinality(W) \in Nat
    BY <1>1, PickPlaces DEF Parse
  <1>5. C \in SUBSET 1..n
    BY <1>2 DEF Cuts
  <1>6. IsFiniteSet(C) /\ Cardinality(C) \in Nat
    <2> HIDE DEF C
    <2>1. IsFiniteSet(1..n)
      BY <1>2, FS_Interval
    <2>2. IsFiniteSet(C)
      BY <1>5, <2>1, FS_Subset
    <2> QED BY <2>2, FS_CardinalityType
  <1>7. \A k \in G : k > 1 /\ k - 1 \in C /\ k \in Nat
    BY <1>2 DEF Records, Whole, Cuts
  <1>8. [k \in G |-> k - 1] \in Injection(G, C)
    <2> DEFINE h == [k \in G |-> k - 1]
    <2>1. h \in [G -> C]
      BY <1>7
    <2>2. \A k, l \in G : k - 1 = l - 1 => k = l
      BY <1>7
    <2>3. \A k, l \in G : h[k] = h[l] => k = l
      BY <2>2
    <2> QED BY <2>1, <2>3 DEF Injection, IsInjective
  <1>9. Cardinality(G) <= Cardinality(C)
    BY <1>8, <1>6, FS_Injection
  <1>10. Cardinality(G) = Cardinality(R) - Cardinality(R \cap W)
    BY <1>3, FS_Difference
  <1>11. R \cap W = W
    BY <1>1
  <1> HIDE DEF W, R, C, G
  <1>12. Len(Kept(f)) - Len(Parse(f)) <= Cardinality(C)
    BY <1>3, <1>4, <1>6, <1>9, <1>10, <1>11
  <1> QED BY <1>3, <1>4, <1>6, <1>12 DEF C

(***************************************************************************)
(* The order of (ts, seq).                                                 *)
(***************************************************************************)

\* Sorting loses nothing, moves a record that is nowhere below one to its left
\* to the right, if at all, and leaves what is in order alone.
LEMMA SortedFacts ==
    ASSUME NEW got \in Seq(Nat)
    PROVE  /\ Sorted(got) \in Seq(Nat) /\ Len(Sorted(got)) = Len(got)
           /\ \A i \in 1..Len(got) :
                 (\A j \in 1..i : got[j] <= got[i])
                     => \E m \in i..Len(got) : Sorted(got)[m] = got[i]
           /\ (\A i, j \in 1..Len(got) : i < j => got[i] <= got[j]) => Sorted(got) = got
  <1> DEFINE n == Len(got)
             D == DOMAIN got
             below == [k \in D |-> {j \in D : got[j] < got[k] \/ (got[j] = got[k] /\ j <= k)}]
             place == [k \in D |-> Cardinality(below[k])]
             b == Sorted(got)
  <1>1. n \in Nat /\ D = 1..n /\ \A k \in D : got[k] \in Nat
    OBVIOUS
  <1>2. IsFiniteSet(D) /\ Cardinality(D) = n
    <2>1. IsFiniteSet(1..n) /\ Cardinality(1..n) = n
      <3> HIDE DEF n, D
      <3> QED BY <1>1, FS_Interval
    <2> QED BY <2>1, <1>1
  <1>3. b = By(got, place)
    BY DEF Sorted
  <1>4. below \in [D -> SUBSET D] /\ \A k \in D : k \in below[k]
    BY <1>1
  <1>5. ASSUME NEW k \in D, NEW l \in D, got[k] < got[l] \/ (got[k] = got[l] /\ k < l)
        PROVE  below[k] \subseteq below[l] /\ l \notin below[k]
    <2>1. /\ k \in Nat /\ l \in Nat /\ got[k] \in Nat /\ got[l] \in Nat
          /\ \A j \in D : j \in Nat /\ got[j] \in Nat
      BY <1>1
    <2>2. \A j \in D : got[j] < got[k] \/ (got[j] = got[k] /\ j <= k)
                          => got[j] < got[l] \/ (got[j] = got[l] /\ j <= l)
      BY <2>1, <1>5
    <2>3. ~ (got[l] < got[k] \/ (got[l] = got[k] /\ l <= k))
      BY <2>1, <1>5
    <2> QED BY <2>2, <2>3
  <1>6. \A k, l \in D : k # l => \/ got[k] < got[l] \/ (got[k] = got[l] /\ k < l)
                                 \/ got[l] < got[k] \/ (got[l] = got[k] /\ l < k)
    BY <1>1
  <1>7. \A k, l \in D : k # l => \/ below[k] \subseteq below[l] /\ l \notin below[k]
                                 \/ below[l] \subseteq below[k] /\ k \notin below[l]
    BY <1>5, <1>6
  <1> HIDE DEF below
  <1>8. Places(place, D)
    BY <1>2, <1>4, <1>7, ChainPlaces
  <1> HIDE DEF place, b
  <1>9. /\ b \in Seq(Nat) /\ Len(b) = n
        /\ \A k \in D : place[k] \in 1..n /\ b[place[k]] = got[k]
    <2>1. D \in SUBSET DOMAIN got
      OBVIOUS
    <2>2. /\ By(got, place) \in Seq(Nat) /\ Len(By(got, place)) = Cardinality(D)
          /\ \A k \in D : place[k] \in 1..Cardinality(D) /\ By(got, place)[place[k]] = got[k]
      BY <2>1, <1>8, ByPlaces
    <2> QED BY <2>2, <1>2, <1>3
  <1> HIDE DEF D, n
  <1>10. ASSUME NEW k \in D
         PROVE  IsFiniteSet(below[k]) /\ Cardinality(below[k]) \in Nat
    <2>1. below[k] \in SUBSET D
      BY <1>4
    <2>2. IsFiniteSet(below[k])
      BY <2>1, <1>2, FS_Subset
    <2> QED BY <2>2, FS_CardinalityType
  <1>11. ASSUME NEW i \in 1..n, \A j \in 1..i : got[j] <= got[i]
         PROVE  \E m \in i..n : b[m] = got[i]
    <2>1. i \in Nat /\ i \in D /\ \A j \in 1..i : j \in D /\ j \in Nat
      BY <1>1
    <2>2. \A j \in 1..i : got[j] < got[i] \/ (got[j] = got[i] /\ j <= i)
      BY <2>1, <1>1, <1>11
    <2>3. (1..i) \in SUBSET below[i]
      BY <2>1, <2>2 DEF below
    <2>4. Cardinality(1..i) = i
      BY <2>1, FS_Interval
    <2>5. Cardinality(1..i) <= Cardinality(below[i])
      BY <2>1, <2>3, <1>10, FS_Subset
    <2>6. i <= place[i]
      BY <2>1, <2>4, <2>5 DEF place
    <2>7. place[i] \in i..n /\ b[place[i]] = got[i]
      BY <2>1, <2>6, <1>1, <1>9
    <2> QED BY <2>7
  <1>12. ASSUME \A i, j \in 1..n : i < j => got[i] <= got[j]
         PROVE  b = got
    <2>1. ASSUME NEW i \in 1..n
          PROVE  b[i] = got[i]
      <3>1. i \in Nat /\ i \in D /\ \A j \in D : j \in Nat /\ got[j] \in Nat
        BY <1>1
      <3>2. ASSUME NEW j \in D
            PROVE  (got[j] < got[i] \/ (got[j] = got[i] /\ j <= i)) <=> j <= i
        <4>1. j \in Nat /\ got[j] \in Nat /\ got[i] \in Nat /\ j \in 1..n
          BY <3>1, <1>1
        <4>2. CASE j < i
          BY <4>1, <4>2, <3>1, <1>12
        <4>3. CASE j = i
          BY <4>1, <4>3, <3>1
        <4>4. CASE i < j
          BY <4>1, <4>4, <3>1, <1>12
        <4> QED BY <4>1, <4>2, <4>3, <4>4, <3>1
      <3>3. below[i] = 1..i
        <4>1. below[i] = {j \in D : j <= i}
          BY <3>1, <3>2 DEF below
        <4> QED BY <4>1, <3>1, <1>1
      <3>4. place[i] = i
        BY <3>1, <3>3, FS_Interval DEF place
      <3> QED BY <3>1, <3>4, <1>9
    <2> QED BY <2>1, <1>9, SeqEqual DEF n
  <1> QED BY <1>9, <1>11, <1>12 DEF b, n

(***************************************************************************)
(* The invariant.                                                          *)
(***************************************************************************)

FitsIn(c, f) == (\E extra \in Extras : f.size <= c + extra) \/ OneLine(f)

\* A thread that rolls does so for a file without room for its line, and one
\* that writes has room or makes the file.
MeasureHolds(c, f, wr) ==
    \A w \in Writers :
        /\ wr[w].pc # "idle" => wr[w].chars \in Lengths
        /\ wr[w].pc = "roll" => c # 0 /\ f.size + wr[w].chars > c
        /\ wr[w].pc = "write" /\ c # 0 => ~f.exists \/ f.size + wr[w].chars <= c

\* Only the thread that holds the lock rolls or writes, so that what it
\* measured still holds when it does, and both files fit or are one line.
LockInv(c, o, f, lk, wr) ==
    /\ \A w \in Writers : wr[w].pc \in {"roll", "write"} => lk = w
    /\ MeasureHolds(c, f, wr)
    /\ ~f.exists => f = NoFile
    /\ c # 0 => FitsIn(c, o) /\ FitsIn(c, f)

\* The files keep the end of what was written, and audit.jsonl all of it; each
\* piece in them is of a write that was cut short.
DiskInv(c, o, f, wn, tr) ==
    /\ c = 0 => o = NoFile
    /\ \E u \in Seq(Nat) : wn = u \o (Kept(o) \o Kept(f)) /\ (c = 0 => u = <<>>)
    /\ Cardinality(Cuts(o)) + Cardinality(Cuts(f)) <= tr

\* Between the two generations, what a read has is older than all that the
\* current file keeps.  On the audit trail it is nothing, and all that was there
\* is in the current file.
ReadInv(c, f, wn, rd) ==
    /\ \A i, j \in 1..Len(rd.got) :
          i < j => \E k, l \in 1..Len(wn) : k < l /\ wn[k] = rd.got[i] /\ wn[l] = rd.got[j]
    /\ rd.pc = "half" =>
          /\ \A i \in 1..Len(rd.got) : \E k \in 1..(Len(wn) - Len(Kept(f))) : wn[k] = rd.got[i]
          /\ c = 0 => rd.got = <<>> /\ rd.there \subseteq ToSet(Parse(f))
    /\ rd.pc = "done" /\ c = 0 => rd.there \subseteq ToSet(rd.got)

LateIn(wn) ==
    {wn[k] : k \in {j \in 1..Len(wn) : \E i \in 1..(j - 1) : wn[i] > wn[j]}}

\* On the audit trail, what tail --follow has seen is the beginning of what can
\* be read.  It has printed as many records, all of these but the late ones.
FollowInv(c, f, wn, rd) ==
    c = 0 =>
        /\ rd.seen = Len(rd.printed) /\ rd.seen <= Len(Parse(f))
        /\ \A i \in 1..rd.seen : Parse(f)[i] \in ToSet(rd.printed) \cup LateIn(wn)
        /\ LateIn(wn) = {} => rd.printed = SubSeq(Parse(f), 1, rd.seen)
        /\ rd.pc = "done" => rd.got = SubSeq(Parse(f), 1, rd.seen)

LogInv ==
    /\ TypeOK
    /\ LockInv(cap, old, current, lock, writer)
    /\ DiskInv(cap, old, current, written, tears)
    /\ ReadInv(cap, current, written, reader)
    /\ FollowInv(cap, current, written, reader)

LEMMA ConcatRegroups ==
    ASSUME NEW s \in Seq(Nat), NEW t \in Seq(Nat), NEW v \in Seq(Nat)
    PROVE  (s \o t) \o v = s \o (t \o v)
  <1> DEFINE X == Nat
  <1>1. s \in Seq(X) /\ t \in Seq(X) /\ v \in Seq(X)
    OBVIOUS
  <1> HIDE DEF X
  <1> QED BY ONLY <1>1, ConcatAssociative, SMTT(30)

LEMMA AppendToConcat ==
    ASSUME NEW s \in Seq(Nat), NEW t \in Seq(Nat), NEW x \in Nat
    PROVE  s \o Append(t, x) = Append(s \o t, x)
  <1>1. Append(t, x) = t \o <<x>> /\ <<x>> \in Seq(Nat)
    BY AppendIsConcat
  <1>2. s \o t \in Seq(Nat)
    BY ConcatProperties
  <1>3. Append(s \o t, x) = (s \o t) \o <<x>>
    BY <1>2, AppendIsConcat
  <1> QED BY <1>1, <1>3, ConcatAssociative

\* A record is appended.
LEMMA DiskGrows ==
    ASSUME NEW c \in Nat, NEW o \in File, NEW f \in File, NEW wn \in Seq(Nat), NEW tr \in Nat,
           DiskInv(c, o, f, wn, tr), NEW x \in Nat, NEW b \in Nat
    PROVE  DiskInv(c, o, Extend(f, x, b), Append(wn, x), tr)
  <1> DEFINE g == Extend(f, x, b)
             wx == Append(wn, x)
  <1>1. /\ g \in File /\ Kept(g) = Append(Kept(f), x)
    BY ExtendFacts
  <1>2. Cardinality(Cuts(g)) = Cardinality(Cuts(f))
    BY CutsOfExtend
  <1>3. Kept(o) \in Seq(Nat) /\ Kept(f) \in Seq(Nat)
    BY RecordsAreNumbers
  <1>4. PICK u \in Seq(Nat) : wn = u \o (Kept(o) \o Kept(f)) /\ (c = 0 => u = <<>>)
    BY DEF DiskInv
  <1> HIDE DEF g
  <1>5. wx = u \o (Kept(o) \o Kept(g))
    <2>1. Kept(o) \o Kept(g) = Append(Kept(o) \o Kept(f), x)
      <3>1. Kept(o) \o Append(Kept(f), x) = Append(Kept(o) \o Kept(f), x)
        BY <1>3, AppendToConcat
      <3> QED BY <1>1, <3>1
    <2>2. Kept(o) \o Kept(f) \in Seq(Nat)
      BY <1>3, ConcatProperties
    <2>3. u \o Append(Kept(o) \o Kept(f), x) = Append(u \o (Kept(o) \o Kept(f)), x)
      BY <2>2, AppendToConcat
    <2> QED BY <1>4, <2>1, <2>3
  <1> QED BY <1>2, <1>4, <1>5 DEF DiskInv, g

\* A piece is appended.
LEMMA DiskTears ==
    ASSUME NEW c \in Nat, NEW o \in File, NEW f \in File, NEW wn \in Seq(Nat), NEW tr \in Nat,
           DiskInv(c, o, f, wn, tr), NEW x \in Pieces, NEW b \in Nat
    PROVE  DiskInv(c, o, Extend(f, x, b), wn, tr + 1)
  <1> DEFINE g == Extend(f, x, b)
  <1>1. x \in Nat \cup Pieces
    OBVIOUS
  <1>2. Kept(g) = Kept(f)
    BY <1>1, ExtendFacts
  <1>3. /\ Cardinality(Cuts(g)) <= Cardinality(Cuts(f)) + 1
        /\ Cardinality(Cuts(g)) \in Nat /\ Cardinality(Cuts(f)) \in Nat
    BY <1>1, CutsOfExtend
  <1>4. Cardinality(Cuts(o)) \in Nat
    BY OneLostPerCut
  <1> HIDE DEF g
  <1>5. Cardinality(Cuts(o)) + Cardinality(Cuts(g)) <= tr + 1
    BY <1>3, <1>4 DEF DiskInv
  <1> QED BY <1>2, <1>5 DEF DiskInv, g

\* The file replaces the older generation.
LEMMA DiskRolls ==
    ASSUME NEW c \in Nat, c # 0, NEW o \in File, NEW f \in File, NEW wn \in Seq(Nat),
           NEW tr \in Nat, DiskInv(c, o, f, wn, tr)
    PROVE  DiskInv(c, f, NoFile, wn, tr)
  <1>1. Kept(o) \in Seq(Nat) /\ Kept(f) \in Seq(Nat) /\ Kept(NoFile) = <<>>
    BY RecordsAreNumbers, NoFileFacts
  <1>2. PICK u \in Seq(Nat) : wn = u \o (Kept(o) \o Kept(f))
    BY DEF DiskInv
  <1>3. u \o Kept(o) \in Seq(Nat)
    BY <1>1, ConcatProperties
  <1>4. Kept(f) \o Kept(NoFile) = Kept(f)
    BY <1>1
  <1>5. wn = (u \o Kept(o)) \o (Kept(f) \o Kept(NoFile))
    <2>1. Kept(o) \in Seq(Nat) /\ Kept(f) \in Seq(Nat) /\ u \in Seq(Nat)
      BY <1>1
    <2>2. (u \o Kept(o)) \o Kept(f) = u \o (Kept(o) \o Kept(f))
      BY <2>1, ConcatRegroups
    <2> QED BY <1>2, <1>4, <2>2
  <1>6. /\ Cardinality(Cuts(o)) \in Nat /\ Cardinality(Cuts(f)) \in Nat
        /\ Cardinality(Cuts(NoFile)) = 0
    BY OneLostPerCut, CutsOfEmpty
  <1>7. Cardinality(Cuts(f)) + Cardinality(Cuts(NoFile)) <= tr
    BY <1>6 DEF DiskInv
  <1> QED BY <1>3, <1>5, <1>7 DEF DiskInv

Begins(s, t) == Len(s) <= Len(t) /\ \A i \in 1..Len(s) : t[i] = s[i]

LEMMA BeginsContained ==
    ASSUME NEW s \in Seq(Nat), NEW t \in Seq(Nat), Begins(s, t)
    PROVE  ToSet(s) \subseteq ToSet(t)
  <1>1. Len(s) \in Nat /\ Len(t) \in Nat /\ DOMAIN s = 1..Len(s) /\ DOMAIN t = 1..Len(t)
    BY LenProperties
  <1>2. \A i \in DOMAIN s : i \in DOMAIN t /\ t[i] = s[i]
    BY <1>1 DEF Begins
  <1> HIDE DEF Begins
  <1> QED BY <1>2 DEF ToSet

\* What could be read of a file is still read, first, after an append.
LEMMA ParseGrows ==
    ASSUME NEW f \in File, NEW x \in Nat \cup Pieces, NEW b \in Nat
    PROVE  Begins(Parse(f), Parse(Extend(f, x, b)))
  <1> DEFINE p == Parse(f)
             q == Parse(Extend(f, x, b))
  <1>1. p \in Seq(Nat)
    BY RecordsAreNumbers
  <1>2. q = p \/ (x \in Nat /\ q = Append(p, x))
    BY ExtendFacts, PiecesAreNoRecords
  <1> HIDE DEF p, q
  <1>3. ASSUME q = p
        PROVE  Begins(p, q)
    BY <1>1, <1>3 DEF Begins
  <1>4. ASSUME x \in Nat, q = Append(p, x)
        PROVE  Begins(p, q)
    BY <1>1, <1>4, AppendProperties DEF Begins
  <1>5. Begins(p, q)
    BY <1>2, <1>3, <1>4
  <1> QED BY <1>5 DEF p, q

\* A read in progress is not disturbed by what is written or rolled meanwhile.
LEMMA ReadGoesOn ==
    ASSUME NEW c \in Nat, NEW f \in File, NEW g \in File,
           NEW wn \in Seq(Nat), NEW wx \in Seq(Nat), NEW rd, rd.got \in Seq(Nat),
           ReadInv(c, f, wn, rd), Begins(wn, wx),
           Len(wn) - Len(Kept(f)) <= Len(wx) - Len(Kept(g)),
           c = 0 => Begins(Parse(f), Parse(g))
    PROVE  ReadInv(c, g, wx, rd)
  <1>1. /\ Kept(f) \in Seq(Nat) /\ Kept(g) \in Seq(Nat)
        /\ Parse(f) \in Seq(Nat) /\ Parse(g) \in Seq(Nat)
    BY RecordsAreNumbers
  <1>2. /\ Len(wn) \in Nat /\ Len(wx) \in Nat /\ Len(wn) <= Len(wx)
        /\ Len(Kept(f)) \in Nat /\ Len(Kept(g)) \in Nat
        /\ \A k \in 1..Len(wn) : k \in 1..Len(wx) /\ wx[k] = wn[k]
    BY <1>1 DEF Begins
  <1>3. ASSUME NEW i \in 1..Len(rd.got), NEW j \in 1..Len(rd.got), i < j
        PROVE  \E k, l \in 1..Len(wx) : k < l /\ wx[k] = rd.got[i] /\ wx[l] = rd.got[j]
    BY <1>2, <1>3 DEF ReadInv
  <1>4. ASSUME rd.pc = "half", NEW i \in 1..Len(rd.got)
        PROVE  \E k \in 1..(Len(wx) - Len(Kept(g))) : wx[k] = rd.got[i]
    <2>1. PICK k \in 1..(Len(wn) - Len(Kept(f))) : wn[k] = rd.got[i]
      BY <1>4 DEF ReadInv
    <2> DEFINE m == Len(wn) - Len(Kept(f))
               n == Len(wx) - Len(Kept(g))
    <2>3. m \in Int /\ n \in Int /\ m <= n /\ m <= Len(wn)
      BY <1>2
    <2>4. k \in 1..m
      OBVIOUS
    <2> HIDE DEF m, n
    <2>5. k \in 1..Len(wn) /\ k \in 1..n
      BY <1>2, <2>3, <2>4
    <2>2. k \in 1..Len(wn) /\ k \in 1..(Len(wx) - Len(Kept(g)))
      BY <2>5 DEF n
    <2> QED BY <2>1, <2>2, <1>2
  <1>5. ASSUME rd.pc = "half", c = 0
        PROVE  rd.got = <<>> /\ rd.there \subseteq ToSet(Parse(g))
    <2>0. Begins(Parse(f), Parse(g))
      BY <1>5
    <2>2. ToSet(Parse(f)) \subseteq ToSet(Parse(g))
      BY <1>1, <2>0, BeginsContained
    <2> QED BY <1>5, <2>2 DEF ReadInv
  <1>6. rd.pc = "done" /\ c = 0 => rd.there \subseteq ToSet(rd.got)
    BY DEF ReadInv
  <1> QED BY <1>3, <1>4, <1>5, <1>6 DEF ReadInv

\* What is late stays late.
LEMMA LateGrows ==
    ASSUME NEW wn \in Seq(Nat), NEW wx \in Seq(Nat), Begins(wn, wx)
    PROVE  LateIn(wn) \subseteq LateIn(wx)
  <1> SUFFICES ASSUME NEW k \in 1..Len(wn), NEW i \in 1..(k - 1), wn[i] > wn[k]
               PROVE  wn[k] \in LateIn(wx)
    BY DEF LateIn
  <1>1. /\ k \in 1..Len(wx) /\ wx[k] = wn[k] /\ i \in 1..Len(wn) /\ wx[i] = wn[i]
    BY DEF Begins
  <1> QED BY <1>1 DEF LateIn

\* SubSeqProperties, for numbers and for a piece that need not be checked for
\* emptiness.
LEMMA SubSeqFacts ==
    ASSUME NEW s, NEW m \in Nat, NEW n \in Nat, m <= n + 1, \A i \in m..n : s[i] \in Nat
    PROVE  /\ SubSeq(s, m, n) \in Seq(Nat) /\ Len(SubSeq(s, m, n)) = n - m + 1
           /\ \A i \in 1..(n - m + 1) : SubSeq(s, m, n)[i] = s[m + i - 1]
  <1>1. m \in Int /\ n \in Int
    OBVIOUS
  <1>2. /\ SubSeq(s, m, n) \in Seq(Nat)
        /\ Len(SubSeq(s, m, n)) = IF m <= n THEN n - m + 1 ELSE 0
        /\ \A i \in 1..(n - m + 1) : SubSeq(s, m, n)[i] = s[m + i - 1]
    BY <1>1, SubSeqProperties
  <1> QED BY <1>2

LEMMA SubSeqOfBeginning ==
    ASSUME NEW s \in Seq(Nat), NEW t \in Seq(Nat), Begins(s, t), NEW n \in 0..Len(s)
    PROVE  SubSeq(s, 1, n) = SubSeq(t, 1, n)
  <1>1. \A i \in 1..n : s[i] \in Nat /\ t[i] \in Nat /\ t[i] = s[i]
    BY DEF Begins
  <1> DEFINE a == SubSeq(s, 1, n)
             b == SubSeq(t, 1, n)
  <1>2. n \in Int /\ 1 \in Int /\ n \in Nat
    OBVIOUS
  <1>3. a \in Seq(Nat) /\ Len(a) = n /\ \A i \in 1..n : a[i] = s[i]
    BY <1>1, <1>2, SubSeqProperties
  <1>4. b \in Seq(Nat) /\ Len(b) = n /\ \A i \in 1..n : b[i] = t[i]
    BY <1>1, <1>2, SubSeqProperties
  <1> HIDE DEF a, b
  <1>5. a = b
    BY <1>1, <1>3, <1>4, SeqEqual
  <1> QED BY <1>5 DEF a, b

\* What tail --follow has seen is still the beginning of what can be read.
LEMMA FollowGoesOn ==
    ASSUME NEW c \in Nat, NEW f \in File, NEW g \in File,
           NEW wn \in Seq(Nat), NEW wx \in Seq(Nat), NEW rd, rd.seen \in Nat,
           FollowInv(c, f, wn, rd), Begins(wn, wx),
           c = 0 => Begins(Parse(f), Parse(g))
    PROVE  FollowInv(c, g, wx, rd)
  <1> SUFFICES ASSUME c = 0
               PROVE  /\ rd.seen = Len(rd.printed) /\ rd.seen <= Len(Parse(g))
                      /\ \A i \in 1..rd.seen : Parse(g)[i] \in ToSet(rd.printed) \cup LateIn(wx)
                      /\ LateIn(wx) = {} => rd.printed = SubSeq(Parse(g), 1, rd.seen)
                      /\ rd.pc = "done" => rd.got = SubSeq(Parse(g), 1, rd.seen)
    BY DEF FollowInv
  <1> DEFINE p == Parse(f)
             q == Parse(g)
             n == rd.seen
  <1>1. p \in Seq(Nat) /\ q \in Seq(Nat) /\ Begins(p, q)
    BY RecordsAreNumbers
  <1>2. /\ n = Len(rd.printed) /\ n <= Len(p)
        /\ \A i \in 1..n : p[i] \in ToSet(rd.printed) \cup LateIn(wn)
        /\ LateIn(wn) = {} => rd.printed = SubSeq(p, 1, n)
        /\ rd.pc = "done" => rd.got = SubSeq(p, 1, n)
    BY DEF FollowInv
  <1>3. LateIn(wn) \subseteq LateIn(wx)
    BY LateGrows
  <1> HIDE DEF p, q
  <1>4. n \in 0..Len(p) /\ n <= Len(q) /\ \A i \in 1..n : q[i] = p[i]
    BY <1>1, <1>2 DEF Begins
  <1>5. SubSeq(p, 1, n) = SubSeq(q, 1, n)
    BY <1>1, <1>4, SubSeqOfBeginning
  <1>6. \A i \in 1..n : q[i] \in ToSet(rd.printed) \cup LateIn(wx)
    BY <1>2, <1>3, <1>4
  <1>7. /\ LateIn(wx) = {} => rd.printed = SubSeq(q, 1, n)
        /\ rd.pc = "done" => rd.got = SubSeq(q, 1, n)
    BY <1>2, <1>3, <1>5
  <1> QED BY <1>2, <1>4, <1>6, <1>7 DEF p, q

\* After the first m records that were written come those of a and then those
\* of b, which are the last.
LiesFrom(wn, m, a, b) ==
    /\ Len(wn) = m + Len(a) + Len(b) /\ Len(a) \in Nat /\ Len(b) \in Nat
    /\ \A k \in 1..Len(a) : wn[m + k] = a[k]
    /\ \A k \in 1..Len(b) : wn[m + Len(a) + k] = b[k]

\* Where in what was written the records are that the files keep.
LEMMA KeptAtTheEnd ==
    ASSUME NEW c \in Nat, NEW o \in File, NEW f \in File, NEW wn \in Seq(Nat), NEW tr \in Nat,
           DiskInv(c, o, f, wn, tr)
    PROVE  \E m \in Nat : LiesFrom(wn, m, Kept(o), Kept(f))
  <1> DEFINE a == Kept(o)
             b == Kept(f)
  <1>1. a \in Seq(Nat) /\ b \in Seq(Nat)
    BY RecordsAreNumbers
  <1>2. PICK u \in Seq(Nat) : wn = u \o (a \o b)
    BY DEF DiskInv
  <1> HIDE DEF a, b
  <1>3. Len(u) \in Nat /\ Len(a) \in Nat /\ Len(b) \in Nat
    BY <1>1
  <1>4. /\ a \o b \in Seq(Nat) /\ Len(a \o b) = Len(a) + Len(b)
        /\ \A i \in 1..(Len(a) + Len(b)) :
              (a \o b)[i] = IF i <= Len(a) THEN a[i] ELSE b[i - Len(a)]
    BY <1>1, ConcatProperties
  <1> DEFINE ab == a \o b
  <1> HIDE DEF ab
  <1>5. /\ ab \in Seq(Nat) /\ Len(ab) = Len(a) + Len(b)
        /\ \A i \in 1..(Len(a) + Len(b)) : ab[i] = IF i <= Len(a) THEN a[i] ELSE b[i - Len(a)]
        /\ wn = u \o ab
    BY <1>2, <1>4 DEF ab
  <1>6. /\ Len(wn) = Len(u) + Len(ab)
        /\ \A i \in 1..(Len(u) + Len(ab)) :
              wn[i] = IF i <= Len(u) THEN u[i] ELSE ab[i - Len(u)]
    <2>1. /\ Len(u \o ab) = Len(u) + Len(ab)
          /\ \A i \in 1..(Len(u) + Len(ab)) :
                (u \o ab)[i] = IF i <= Len(u) THEN u[i] ELSE ab[i - Len(u)]
      <3>1. u \in Seq(Nat) /\ ab \in Seq(Nat)
        BY <1>5
      <3> QED BY <3>1, ConcatProperties
    <2> QED BY <1>5, <2>1
  <1>7. ASSUME NEW k \in 1..(Len(a) + Len(b))
        PROVE  wn[Len(u) + k] = ab[k]
    <2>1. /\ Len(u) + k \in 1..(Len(u) + Len(ab)) /\ ~ (Len(u) + k <= Len(u))
          /\ (Len(u) + k) - Len(u) = k
      BY <1>3, <1>5
    <2> QED BY <2>1, <1>6
  <1>8. ASSUME NEW k \in 1..Len(a)
        PROVE  k \in 1..(Len(a) + Len(b)) /\ wn[Len(u) + k] = a[k]
    <2>1. k \in 1..(Len(a) + Len(b)) /\ k <= Len(a)
      BY <1>3
    <2> QED BY <2>1, <1>5, <1>7
  <1>9. ASSUME NEW k \in 1..Len(b)
        PROVE  wn[Len(u) + Len(a) + k] = b[k]
    <2>1. /\ Len(a) + k \in 1..(Len(a) + Len(b)) /\ ~ (Len(a) + k <= Len(a))
          /\ (Len(a) + k) - Len(a) = k /\ Len(u) + Len(a) + k = Len(u) + (Len(a) + k)
      BY <1>3
    <2> QED BY <2>1, <1>5, <1>7
  <1>10. Len(wn) = Len(u) + Len(a) + Len(b)
    BY <1>3, <1>5, <1>6
  <1>11. LiesFrom(wn, Len(u), a, b)
    BY <1>3, <1>8, <1>9, <1>10 DEF LiesFrom
  <1> QED BY <1>3, <1>11 DEF a, b

InOrder(wn, got) ==
    \A i, j \in 1..Len(got) :
        i < j => \E k, l \in 1..Len(wn) : k < l /\ wn[k] = got[i] /\ wn[l] = got[j]

\* What f keeps was written after the first m records.
KeptFrom(wn, m, f) == \A k \in 1..Len(Kept(f)) : wn[m + k] = Kept(f)[k]

\* What can be read of a file is in order, and in what was written it is where
\* the records are that the file keeps.
LEMMA FileIsInOrder ==
    ASSUME NEW f \in File, NEW wn \in Seq(Nat), NEW m \in Nat, NEW e \in Nat,
           e = m + Len(Kept(f)), e <= Len(wn), KeptFrom(wn, m, f)
    PROVE  /\ InOrder(wn, Parse(f))
           /\ \A i \in 1..Len(Parse(f)) : \E k \in (m + 1)..e : wn[k] = Parse(f)[i]
  <1> DEFINE p == Parse(f)
             q == Kept(f)
  <1>1. p \in Seq(Nat) /\ q \in Seq(Nat)
    BY RecordsAreNumbers
  <1>2. /\ \A i \in 1..Len(p) : \E k \in 1..Len(q) : q[k] = p[i]
        /\ \A i, j \in 1..Len(p) :
              i < j => \E k, l \in 1..Len(q) : k < l /\ q[k] = p[i] /\ q[l] = p[j]
    BY ReadFromKept
  <1> HIDE DEF p
  <1>3. Len(q) \in Nat /\ Len(wn) \in Nat /\ m + Len(q) <= Len(wn) /\ e = m + Len(q)
    BY <1>1
  <1>4. \A k \in 1..Len(q) : wn[m + k] = q[k]
    BY DEF KeptFrom
  <1> HIDE DEF q
  <1>5. \A k \in 1..Len(q) : m + k \in 1..Len(wn) /\ m + k \in (m + 1)..e
    BY <1>3
  <1>6. ASSUME NEW i \in 1..Len(p), NEW j \in 1..Len(p), i < j
        PROVE  \E k, l \in 1..Len(wn) : k < l /\ wn[k] = p[i] /\ wn[l] = p[j]
    <2>1. PICK k \in 1..Len(q), l \in 1..Len(q) : k < l /\ q[k] = p[i] /\ q[l] = p[j]
      BY <1>2, <1>6
    <2>2. /\ m + k \in 1..Len(wn) /\ m + l \in 1..Len(wn) /\ m + k < m + l
          /\ wn[m + k] = p[i] /\ wn[m + l] = p[j]
      BY <1>3, <1>4, <1>5, <2>1
    <2> QED BY <2>2
  <1>7. ASSUME NEW i \in 1..Len(p)
        PROVE  \E k \in (m + 1)..e : wn[k] = p[i]
    <2>1. PICK k \in 1..Len(q) : q[k] = p[i]
      BY <1>2
    <2>2. m + k \in (m + 1)..e /\ wn[m + k] = p[i]
      BY <2>1, <1>4, <1>5
    <2> QED BY <2>2
  <1> QED BY <1>6, <1>7 DEF InOrder, p, q

\* A read begins with the older generation.
LEMMA ReadBegins ==
    ASSUME NEW c \in Nat, NEW o \in File, NEW f \in File, NEW wn \in Seq(Nat), NEW tr \in Nat,
           DiskInv(c, o, f, wn, tr), NEW rd,
           rd.pc = "half", rd.got = Parse(o), rd.there = ToSet(Parse(o) \o Parse(f))
    PROVE  ReadInv(c, f, wn, rd)
  <1> DEFINE a == Kept(o)
             b == Kept(f)
             e == Len(wn) - Len(b)
  <1>1. PICK m \in Nat : LiesFrom(wn, m, a, b)
    BY KeptAtTheEnd
  <1> HIDE DEF b
  <1>2. e \in Nat /\ e = m + Len(a) /\ e <= Len(wn) /\ KeptFrom(wn, m, o)
    BY <1>1 DEF LiesFrom, KeptFrom
  <1> HIDE DEF e
  <1>3. /\ InOrder(wn, Parse(o))
        /\ \A i \in 1..Len(Parse(o)) : \E k \in (m + 1)..e : wn[k] = Parse(o)[i]
    BY <1>2, FileIsInOrder
  <1>4. (m + 1)..e \subseteq 1..e
    BY <1>2
  <1>5. \A i \in 1..Len(rd.got) : \E k \in 1..e : wn[k] = rd.got[i]
    BY <1>3, <1>4
  <1>6. ASSUME c = 0
        PROVE  rd.got = <<>> /\ rd.there \subseteq ToSet(Parse(f))
    <2>1. Parse(o) = <<>>
      BY <1>6, NoFileFacts DEF DiskInv
    <2>2. Parse(f) \in Seq(Nat)
      BY RecordsAreNumbers
    <2>3. Parse(o) \o Parse(f) = Parse(f)
      BY <2>1, <2>2
    <2> QED BY <2>1, <2>3
  <1> QED BY <1>3, <1>5, <1>6 DEF ReadInv, InOrder, e, b

\* Two sequences in order, the second after the first, make one in order.
LEMMA InOrderConcat ==
    ASSUME NEW wn \in Seq(Nat), NEW e \in Nat, e <= Len(wn),
           NEW g \in Seq(Nat), NEW p \in Seq(Nat), InOrder(wn, g), InOrder(wn, p),
           \A i \in 1..Len(g) : \E k \in 1..e : wn[k] = g[i],
           \A i \in 1..Len(p) : \E k \in (e + 1)..Len(wn) : wn[k] = p[i]
    PROVE  g \o p \in Seq(Nat) /\ InOrder(wn, g \o p)
  <1> DEFINE got == g \o p
             a == Len(g)
             b == Len(p)
  <1>1. a \in Nat /\ b \in Nat
    OBVIOUS
  <1>2. /\ got \in Seq(Nat) /\ Len(got) = a + b
        /\ \A i \in 1..(a + b) : got[i] = IF i <= a THEN g[i] ELSE p[i - a]
    BY ConcatProperties
  <1> HIDE DEF got
  <1>3. /\ \A i, j \in 1..a : i < j => \E k, l \in 1..Len(wn) : k < l /\ wn[k] = g[i] /\ wn[l] = g[j]
        /\ \A i, j \in 1..b : i < j => \E k, l \in 1..Len(wn) : k < l /\ wn[k] = p[i] /\ wn[l] = p[j]
        /\ \A i \in 1..a : \E k \in 1..e : wn[k] = g[i]
        /\ \A i \in 1..b : \E k \in (e + 1)..Len(wn) : wn[k] = p[i]
    BY DEF InOrder
  <1> HIDE DEF a, b
  <1>4. ASSUME NEW i \in 1..Len(got), NEW j \in 1..Len(got), i < j
        PROVE  \E k, l \in 1..Len(wn) : k < l /\ wn[k] = got[i] /\ wn[l] = got[j]
    <2>4. /\ i \in Nat /\ j \in Nat /\ 1 <= i /\ 1 <= j /\ i <= a + b /\ j <= a + b /\ i < j
          /\ got[i] = IF i <= a THEN g[i] ELSE p[i - a]
          /\ got[j] = IF j <= a THEN g[j] ELSE p[j - a]
      <3>1. i \in 1..(a + b) /\ j \in 1..(a + b)
        BY <1>2
      <3>2. /\ got[i] = IF i <= a THEN g[i] ELSE p[i - a]
            /\ got[j] = IF j <= a THEN g[j] ELSE p[j - a]
        BY ONLY <1>2, <3>1
      <3>3. i \in Nat /\ j \in Nat /\ 1 <= i /\ 1 <= j /\ i <= a + b /\ j <= a + b
        BY ONLY <1>1, <3>1
      <3> QED BY <1>4, <3>2, <3>3
    <2>1. CASE j <= a
      <3>1. i \in 1..a /\ j \in 1..a /\ i < j /\ got[i] = g[i] /\ got[j] = g[j]
        BY <2>1, <2>4, <1>1
      <3>2. \A x, y \in 1..a : x < y => \E k, l \in 1..Len(wn) : k < l /\ wn[k] = g[x] /\ wn[l] = g[y]
        BY <1>3
      <3>3. PICK k \in 1..Len(wn), l \in 1..Len(wn) : k < l /\ wn[k] = g[i] /\ wn[l] = g[j]
        BY ONLY <3>1, <3>2
      <3> QED BY ONLY <3>1, <3>3
    <2>2. CASE a < i
      <3>1. /\ i - a \in 1..b /\ j - a \in 1..b /\ i - a < j - a
            /\ got[i] = p[i - a] /\ got[j] = p[j - a]
        BY <2>2, <2>4, <1>1
      <3>2. PICK x \in 1..b, y \in 1..b : x < y /\ got[i] = p[x] /\ got[j] = p[y]
        BY <3>1
      <3>3. PICK k \in 1..Len(wn), l \in 1..Len(wn) : k < l /\ wn[k] = p[x] /\ wn[l] = p[y]
        BY <3>2, <1>3
      <3> QED BY <3>2, <3>3
    <2>3. CASE i <= a /\ a < j
      <3>1. i \in 1..a /\ j - a \in 1..b /\ got[i] = g[i] /\ got[j] = p[j - a]
        BY <2>3, <2>4, <1>1
      <3>2. PICK k \in 1..e : wn[k] = got[i]
        BY <3>1, <1>3
      <3>3. PICK l \in (e + 1)..Len(wn) : wn[l] = got[j]
        BY <3>1, <1>3
      <3>4. k \in 1..Len(wn) /\ l \in 1..Len(wn) /\ k < l
        OBVIOUS
      <3> QED BY <3>2, <3>3, <3>4
    <2> QED BY <2>1, <2>2, <2>3, <1>1
  <1> QED BY <1>2, <1>4 DEF InOrder, got

\* A read ends with the current file, whatever happened since it began.
LEMMA ReadEnds ==
    ASSUME NEW c \in Nat, NEW o \in File, NEW f \in File, NEW wn \in Seq(Nat), NEW tr \in Nat,
           DiskInv(c, o, f, wn, tr), NEW rd, rd.got \in Seq(Nat), ReadInv(c, f, wn, rd),
           rd.pc = "half"
    PROVE  LET got == rd.got \o Parse(f)
           IN  /\ got \in Seq(Nat) /\ InOrder(wn, got) /\ InOrder(wn, Parse(f))
               /\ c = 0 => got = Parse(f) /\ rd.there \subseteq ToSet(got)
  <1> DEFINE p == Parse(f)
             g == rd.got
             b == Kept(f)
             n == Len(wn)
             e == n - Len(b)
  <1>1. p \in Seq(Nat) /\ g \in Seq(Nat)
    BY RecordsAreNumbers
  <1>2. PICK m \in Nat : LiesFrom(wn, m, Kept(o), b)
    BY KeptAtTheEnd
  <1>3. /\ e \in Nat /\ n \in Nat /\ e <= n /\ n = e + Len(b)
        /\ \A k \in 1..Len(b) : wn[e + k] = b[k]
    <2> HIDE DEF b
    <2>1. e = m + Len(Kept(o))
      BY <1>2 DEF LiesFrom
    <2> QED BY <1>2, <2>1 DEF LiesFrom
  <1>4. /\ InOrder(wn, g)
        /\ \A i \in 1..Len(g) : \E k \in 1..e : wn[k] = g[i]
        /\ c = 0 => g = <<>> /\ rd.there \subseteq ToSet(p)
    BY DEF ReadInv, InOrder
  <1> HIDE DEF e
  <1>5. InOrder(wn, p) /\ \A i \in 1..Len(p) : \E k \in (e + 1)..n : wn[k] = p[i]
    <2>1. n <= Len(wn) /\ n = e + Len(Kept(f)) /\ KeptFrom(wn, e, f)
      BY <1>3 DEF KeptFrom
    <2> HIDE DEF n, p
    <2>2. InOrder(wn, Parse(f)) /\ \A i \in 1..Len(Parse(f)) : \E k \in (e + 1)..n : wn[k] = Parse(f)[i]
      BY ONLY <1>3, <2>1, f \in File, wn \in Seq(Nat), FileIsInOrder
    <2> QED BY <2>2 DEF p
  <1> HIDE DEF p, g, n
  <1>6. g \o p \in Seq(Nat) /\ InOrder(wn, g \o p)
    BY <1>1, <1>3, <1>4, <1>5, InOrderConcat DEF n
  <1>7. c = 0 => g \o p = p /\ rd.there \subseteq ToSet(g \o p)
    BY <1>1, <1>4
  <1> QED BY <1>5, <1>6, <1>7 DEF p, g

Readers == [pc : {"idle", "half", "done", "raised"}, got : Seq(Nat), there : SUBSET Nat,
            seen : Nat, printed : Seq(Nat)]

\* What a round of tail --follow leaves, in which it read got.
LEMMA FollowFacts ==
    ASSUME reader \in Readers, NEW got \in Seq(Nat)
    PROVE  LET r == Follow(got)
           IN  /\ r \in Readers /\ r.pc = "done" /\ r.got = got /\ r.there = reader.there
               /\ Len(got) > reader.seen =>
                     /\ r.seen = Len(got)
                     /\ r.printed = reader.printed
                                    \o SubSeq(Sorted(got), reader.seen + 1, Len(got))
               /\ ~ (Len(got) > reader.seen) =>
                     r.seen = reader.seen /\ r.printed = reader.printed
  <1> DEFINE n == Len(got)
             s == Sorted(got)
             new == SubSeq(s, reader.seen + 1, n)
  <1>1. /\ reader.there \in SUBSET Nat /\ reader.seen \in Nat /\ reader.printed \in Seq(Nat)
        /\ n \in Nat
    BY DEF Readers
  <1>2. s \in Seq(Nat) /\ Len(s) = n
    BY SortedFacts
  <1> HIDE DEF s
  <1>3. new \in Seq(Nat)
    <2>1. \A i \in (reader.seen + 1)..n : s[i] \in Nat
      BY <1>1, <1>2
    <2> QED BY <2>1, <1>1, SubSeqProperties
  <1> HIDE DEF new
  <1>4. reader.printed \o new \in Seq(Nat)
    BY <1>1, <1>3, ConcatProperties
  <1>5. CASE n > reader.seen
    <2>1. Follow(got) = [pc |-> "done", got |-> got, there |-> reader.there,
                         seen |-> n, printed |-> reader.printed \o new]
      BY <1>2, <1>5 DEF Follow, Unseen, new, s
    <2>2. /\ Follow(got) \in Readers /\ Follow(got).pc = "done" /\ Follow(got).got = got
          /\ Follow(got).there = reader.there /\ Follow(got).seen = n
          /\ Follow(got).printed = reader.printed \o new
      BY <2>1, <1>1, <1>4 DEF Readers
    <2> QED BY <2>2, <1>5 DEF new, s
  <1>6. CASE ~ (n > reader.seen)
    <2>1. Follow(got) = [reader EXCEPT !.pc = "done", !.got = got]
      BY <1>2, <1>6 DEF Follow, s
    <2>2. /\ Follow(got) \in Readers /\ Follow(got).pc = "done" /\ Follow(got).got = got
          /\ Follow(got).there = reader.there /\ Follow(got).seen = reader.seen
          /\ Follow(got).printed = reader.printed
      BY <2>1 DEF Readers
    <2> QED BY <2>2, <1>6
  <1> QED BY <1>5, <1>6

\* On the audit trail a round prints what it reads for the first time, but for
\* records that are late.
LEMMA FollowPrints ==
    ASSUME reader \in Readers, NEW c \in Nat, NEW f \in File, NEW wn \in Seq(Nat),
           FollowInv(c, f, wn, reader), InOrder(wn, Parse(f)), NEW got \in Seq(Nat),
           c = 0 => got = Parse(f)
    PROVE  FollowInv(c, f, wn, Follow(got))
  <1> SUFFICES ASSUME c = 0
               PROVE  FollowInv(c, f, wn, Follow(got))
    BY DEF FollowInv
  <1> DEFINE r == Follow(got)
             p == Parse(f)
             n == Len(p)
             a == reader.seen
             s == Sorted(p)
             new == SubSeq(s, a + 1, n)
             late == LateIn(wn)
  <1>1. p \in Seq(Nat) /\ n \in Nat /\ got = p /\ a \in Nat /\ reader.printed \in Seq(Nat)
    BY RecordsAreNumbers DEF Readers
  <1>2. /\ r.pc = "done" /\ r.got = p
        /\ n > a => r.seen = n /\ r.printed = reader.printed \o new
        /\ ~ (n > a) => r.seen = a /\ r.printed = reader.printed
    BY <1>1, FollowFacts
  <1>3. /\ a = Len(reader.printed) /\ a <= n
        /\ \A i \in 1..a : p[i] \in ToSet(reader.printed) \cup late
        /\ late = {} => reader.printed = SubSeq(p, 1, a)
    BY DEF FollowInv
  <1>4. \A i, j \in 1..n : i < j /\ p[i] > p[j] => p[j] \in late
    <2> SUFFICES ASSUME NEW i \in 1..n, NEW j \in 1..n, i < j, p[i] > p[j]
                 PROVE  p[j] \in late
      OBVIOUS
    <2>1. PICK k \in 1..Len(wn), l \in 1..Len(wn) : k < l /\ wn[k] = p[i] /\ wn[l] = p[j]
      BY DEF InOrder
    <2>2. k \in 1..(l - 1) /\ wn[k] > wn[l]
      BY <2>1
    <2> QED BY <2>1, <2>2 DEF LateIn
  <1>5. /\ s \in Seq(Nat) /\ Len(s) = n
        /\ \A i \in 1..n : (\A j \in 1..i : p[j] <= p[i]) => \E m \in i..n : s[m] = p[i]
        /\ (\A i, j \in 1..n : i < j => p[i] <= p[j]) => s = p
    BY <1>1, SortedFacts
  <1> HIDE DEF p, s, late, r
  <1>6. \A i \in 1..n : p[i] \in Nat
    BY <1>1
  <1>7. SubSeq(p, 1, n) = p
    BY <1>1, SubSeqFull
  <1> HIDE DEF n
  <1>8. CASE ~ (n > a)
    <2>1. a = n
      BY <1>1, <1>3, <1>8
    <2> QED BY <1>2, <1>3, <1>7, <1>8, <2>1 DEF FollowInv, p, n, late, r
  <1>9. CASE n > a
    <2>1. /\ new \in Seq(Nat) /\ Len(new) = n - a
          /\ \A i \in 1..(n - a) : new[i] = s[a + i]
      <3>1. \A i \in (a + 1)..n : s[i] \in Nat
        <4>1. \A i \in (a + 1)..n : i \in 1..Len(s)
          BY <1>1, <1>5
        <4> QED BY <4>1, <1>5, ElementOfSeq
      <3> DEFINE m == a + 1
      <3>2. m \in Nat /\ n \in Nat /\ m <= n + 1 /\ \A i \in m..n : s[i] \in Nat
        BY <1>1, <1>9, <3>1
      <3>3. n - m + 1 = n - a /\ \A i \in 1..(n - a) : m + i - 1 = a + i
        BY <1>1
      <3> HIDE DEF m
      <3>4. /\ SubSeq(s, m, n) \in Seq(Nat) /\ Len(SubSeq(s, m, n)) = n - m + 1
            /\ \A i \in 1..(n - m + 1) : SubSeq(s, m, n)[i] = s[m + i - 1]
        BY ONLY <3>2, SubSeqFacts
      <3> QED BY <3>3, <3>4 DEF m
    <2> HIDE DEF new
    <2> DEFINE pr == reader.printed \o new
    <2>2. /\ pr \in Seq(Nat) /\ Len(pr) = n
          /\ \A i \in 1..a : pr[i] = reader.printed[i]
          /\ \A i \in 1..(n - a) : pr[a + i] = new[i]
      <3>1. /\ pr \in Seq(Nat) /\ Len(pr) = a + (n - a)
            /\ \A i \in 1..(a + (n - a)) :
                  pr[i] = IF i <= a THEN reader.printed[i] ELSE new[i - a]
        <4>1. reader.printed \in Seq(Nat) /\ new \in Seq(Nat)
          BY <1>1, <2>1
        <4>2. /\ pr \in Seq(Nat) /\ Len(pr) = Len(reader.printed) + Len(new)
              /\ \A i \in 1..(Len(reader.printed) + Len(new)) :
                    pr[i] = IF i <= Len(reader.printed) THEN reader.printed[i]
                            ELSE new[i - Len(reader.printed)]
          BY <4>1, ConcatProperties
        <4>3. Len(reader.printed) = a /\ Len(new) = n - a
          BY <1>3, <2>1
        <4> QED BY <4>2, <4>3
      <3>2. a + (n - a) = n
        BY <1>1
      <3> HIDE DEF pr
      <3>3. ASSUME NEW i \in 1..(n - a)
            PROVE  pr[a + i] = new[i]
        <4>1. a + i \in 1..n /\ ~ (a + i <= a) /\ (a + i) - a = i
          BY <1>1
        <4> QED BY <4>1, <3>1, <3>2
      <3>4. \A i \in 1..a : i \in 1..n /\ i <= a
        BY <1>1, <1>3
      <3> QED BY <3>1, <3>2, <3>3, <3>4
    <2> HIDE DEF pr
    <2>3. ToSet(reader.printed) \subseteq ToSet(pr)
      <3>1. DOMAIN pr = 1..n /\ DOMAIN reader.printed = 1..a
        BY <1>1, <1>3, <2>2
      <3>2. \A i \in 1..a : i \in 1..n /\ pr[i] = reader.printed[i]
        BY <1>1, <1>3, <2>2
      <3> QED BY <3>1, <3>2 DEF ToSet
    <2>4. ASSUME NEW i \in 1..n
          PROVE  p[i] \in ToSet(pr) \cup late
      <3>1. CASE i \in 1..a
        BY <3>1, <1>3, <2>3
      <3>2. CASE i \notin 1..a /\ p[i] \notin late
        <4>1. ASSUME NEW j \in 1..i
              PROVE  p[j] <= p[i]
          <5>1. j \in 1..n /\ p[j] \in Nat /\ p[i] \in Nat
            BY <1>1, <1>6
          <5>2. CASE j = i
            BY <5>1, <5>2
          <5>3. CASE j < i
            BY <5>1, <5>3, <1>4, <3>2
          <5> QED BY <5>2, <5>3
        <4>2. PICK m \in i..n : s[m] = p[i]
          BY <4>1, <1>5
        <4>3. m - a \in 1..(n - a) /\ a + (m - a) = m /\ m \in 1..n
          BY <1>1, <3>2
        <4>4. new[m - a] = p[i]
          BY <4>2, <4>3, <2>1
        <4>5. pr[m] = p[i]
          BY <4>3, <4>4, <2>2
        <4>6. m \in DOMAIN pr
          BY <4>3, <2>2
        <4> QED BY <4>5, <4>6 DEF ToSet
      <3> QED BY <3>1, <3>2
    <2>5. ASSUME late = {}
          PROVE  pr = p
      <3>1. s = p
        BY <1>4, <1>5, <1>6, <2>5
      <3>2. ASSUME NEW i \in 1..a
            PROVE  reader.printed[i] = p[i]
        <4>1. \A j \in 1..a : p[j] \in Nat
          BY <1>1, <1>3, <1>6
        <4>2. a \in Nat /\ i \in 1..a
          BY <1>1
        <4>3. SubSeq(p, 1, a)[i] = p[i]
          <5>1. \A k \in 1..(a - 1 + 1) : SubSeq(p, 1, a)[k] = p[1 + k - 1]
            BY ONLY <4>1, <4>2, SubSeqFacts
          <5> QED BY ONLY <4>2, <5>1
        <4> QED BY <4>3, <1>3, <2>5
      <3>3. ASSUME NEW i \in 1..n
            PROVE  pr[i] = p[i]
        <4>1. CASE i \in 1..a
          BY <4>1, <2>2, <3>2
        <4>2. CASE i \notin 1..a
          <5> DEFINE j == i - a
          <5>1. j \in 1..(n - a) /\ a + j = i
            BY <4>2, <1>1
          <5> HIDE DEF j, pr
          <5>2. pr[a + j] = new[j] /\ new[j] = s[a + j]
            BY ONLY <5>1, <2>1, <2>2
          <5> QED BY ONLY <5>1, <5>2, <3>1
        <4> QED BY <4>1, <4>2
      <3> QED BY <3>3, <2>2, <1>1, SeqEqual DEF n
    <2>6. /\ r.seen = n /\ r.printed = pr /\ r.got = p
      BY <1>2, <1>9 DEF pr
    <2> QED BY <2>2, <2>4, <2>5, <2>6, <1>1, <1>7 DEF FollowInv, p, n, late, r
  <1> QED BY <1>1, <1>8, <1>9

(***************************************************************************)
(* The invariant holds at first, and every action keeps it.                *)
(***************************************************************************)

Emits == [pc : {"idle", "stamped", "roll", "write"}, id : Nat,
          chars : Lengths \cup {0}, extra : Extras]

LEMMA EmitFacts ==
    /\ IdleWriter \in Emits /\ IdleWriter.pc = "idle"
    /\ \A e \in Emits : e.id \in Nat /\ e.chars \in Nat /\ e.extra \in Nat /\ e.extra \in Extras
    /\ 0 \in Extras
  BY LogAssumption DEF IdleWriter, Emits

LEMMA LogFacts ==
    ASSUME LogInv
    PROVE  /\ cap \in Nat /\ cap \in Caps /\ old \in File /\ current \in File
           /\ written \in Seq(Nat) /\ tears \in Nat /\ tears \in 0..MaxTears
           /\ emitted \in 0..MaxRecords /\ emitted \in Nat /\ MaxRecords \in Nat
           /\ lock \in Writers \cup {None} /\ None \notin Writers
           /\ writer \in [Writers -> Emits]
           /\ reader \in Readers /\ reader.got \in Seq(Nat) /\ reader.seen \in Nat
  BY LogAssumption DEF LogInv, TypeOK, Emits, Readers

LEMMA LogStarts ==
    Init => LogInv
  <1> SUFFICES ASSUME Init PROVE LogInv
    OBVIOUS
  <1> USE DEF Init
  <1>1. /\ NoFile \in File /\ NoFile.size = 0
        /\ Parse(NoFile) = <<>> /\ Kept(NoFile) = <<>>
    BY NoFileFacts
  <1>2. cap \in Nat
    BY LogAssumption
  <1>3. <<>> \in Seq(Nat) /\ Len(<<>>) = 0
    BY EmptySeq
  <1>4. TypeOK
    <2>1. IdleWriter \in Emits
      BY EmitFacts
    <2>2. IdleReader \in Readers
      BY <1>3 DEF IdleReader, Readers
    <2>3. 0 \in 0..MaxRecords /\ 0 \in 0..MaxTears
      BY LogAssumption
    <2>4. writer \in [Writers -> Emits] /\ lock \in Writers \cup {None}
      BY <2>1
    <2> QED BY <1>1, <1>3, <2>2, <2>3, <2>4 DEF TypeOK, Emits, Readers
  <1>5. LockInv(cap, old, current, lock, writer)
    <2>1. FitsIn(cap, NoFile)
      BY <1>1, <1>2, EmitFacts DEF FitsIn
    <2> QED BY <2>1 DEF LockInv, MeasureHolds, IdleWriter
  <1>6. DiskInv(cap, old, current, written, tears)
    <2>1. written = <<>> \o (Kept(old) \o Kept(current))
      BY <1>1, <1>3
    <2>2. Cardinality(Cuts(old)) + Cardinality(Cuts(current)) <= tears
      BY CutsOfEmpty
    <2> QED BY <1>3, <2>1, <2>2 DEF DiskInv
  <1>7. ReadInv(cap, current, written, reader)
    BY <1>3 DEF ReadInv, IdleReader
  <1>8. FollowInv(cap, current, written, reader)
    <2>1. /\ reader.seen = 0 /\ reader.printed = <<>> /\ reader.pc = "idle"
          /\ Parse(current) = <<>>
      BY <1>1 DEF IdleReader
    <2>2. SubSeq(<<>>, 1, 0) = <<>>
      BY <1>3, SubSeqFull
    <2> QED BY <2>1, <2>2, <1>3 DEF FollowInv
  <1> QED BY <1>4, <1>5, <1>6, <1>7, <1>8 DEF LogInv

\* A step that writes nothing and leaves the read alone need only keep the
\* lock.
LEMMA LockStep ==
    ASSUME LogInv, TypeOK', UNCHANGED <<cap, old, written, tears, reader>>,
           current' = current \/ current' = Opened(current),
           \A w \in Writers : writer'[w].pc \in {"roll", "write"} => lock' = w,
           MeasureHolds(cap, current, writer)'
    PROVE  LogInv'
  <1>1. current \in File /\ current' \in File
    BY LogFacts DEF TypeOK
  <1>2. /\ current'.data = current.data /\ current'.size = current.size
        /\ ~current'.exists => current' = current
        /\ Kept(current') = Kept(current) /\ Parse(current') = Parse(current)
    BY <1>1, OpenedFacts
  <1>3. Cuts(current') = Cuts(current)
    BY <1>2 DEF Cuts
  <1>4. OneLine(current) => OneLine(current')
    BY <1>2 DEF OneLine
  <1>5. LockInv(cap, old, current, lock, writer)'
    BY <1>2, <1>4 DEF LogInv, LockInv, FitsIn
  <1>6. DiskInv(cap, old, current, written, tears)'
    BY <1>2, <1>3 DEF LogInv, DiskInv
  <1>7. ReadInv(cap, current, written, reader)'
    BY <1>2 DEF LogInv, ReadInv
  <1>8. FollowInv(cap, current, written, reader)'
    BY <1>2 DEF LogInv, FollowInv
  <1> QED BY <1>5, <1>6, <1>7, <1>8 DEF LogInv

LEMMA StampKeeps ==
    ASSUME LogInv, NEW w \in Writers, NEW chars \in Lengths, NEW extra \in Extras,
           Stamp(w, chars, extra)
    PROVE  LogInv'
  <1> USE DEF Stamp
  <1>1. /\ cap \in Caps /\ old \in File /\ current \in File /\ written \in Seq(Nat)
        /\ tears \in 0..MaxTears /\ lock \in Writers \cup {None}
        /\ emitted \in Nat /\ MaxRecords \in Nat
        /\ writer \in [Writers -> Emits] /\ reader \in Readers
    BY LogFacts
  <1>2. emitted' \in 0..MaxRecords /\ emitted + 1 \in Nat
    BY <1>1
  <1> DEFINE e == [pc |-> "stamped", id |-> emitted + 1, chars |-> chars, extra |-> extra]
  <1>3. e \in Emits /\ e.pc = "stamped" /\ e.chars \in Lengths
    BY <1>2 DEF Emits
  <1> HIDE DEF e
  <1>4. writer' = [writer EXCEPT ![w] = e]
    BY DEF e
  <1>5. writer' \in [Writers -> Emits]
    BY <1>1, <1>3, <1>4
  <1>6. TypeOK'
    BY <1>1, <1>2, <1>5 DEF TypeOK, Emits, Readers
  <1>7. \A v \in Writers : \/ writer'[v].pc = "stamped" /\ writer'[v].chars \in Lengths
                           \/ writer'[v] = writer[v]
    BY <1>1, <1>3, <1>4
  <1>8. LockInv(cap, old, current, lock, writer)
    BY DEF LogInv
  <1>9. MeasureHolds(cap, current, writer)'
    BY <1>7, <1>8 DEF LockInv, MeasureHolds
  <1> QED BY <1>6, <1>7, <1>8, <1>9, LockStep DEF LockInv

LEMMA MeasureKeeps ==
    ASSUME LogInv, NEW w \in Writers, Measure(w)
    PROVE  LogInv'
  <1> USE DEF Measure
  <1>1. /\ cap \in Caps /\ old \in File /\ current \in File /\ written \in Seq(Nat)
        /\ tears \in 0..MaxTears /\ emitted \in 0..MaxRecords
        /\ writer \in [Writers -> Emits] /\ reader \in Readers
        /\ cap \in Nat /\ None \notin Writers
    BY LogFacts
  <1>2. current.size \in Nat
    BY <1>1, FileFacts
  <1> DEFINE e == [writer[w] EXCEPT !.pc = IF MustRoll(w) THEN "roll" ELSE "write"]
  <1>3. /\ e \in Emits /\ e.pc = IF MustRoll(w) THEN "roll" ELSE "write"
        /\ e.chars = writer[w].chars /\ e.chars \in Nat
    BY <1>1, EmitFacts DEF Emits
  <1> HIDE DEF e
  <1>4. writer' = [writer EXCEPT ![w] = e]
    BY DEF e
  <1>5. writer' \in [Writers -> Emits] /\ lock' \in Writers \cup {None}
    BY <1>1, <1>3, <1>4
  <1>6. TypeOK'
    BY <1>1, <1>5 DEF TypeOK, Emits, Readers
  <1>7. \A v \in Writers : writer[v].pc \notin {"roll", "write"}
    BY <1>1 DEF LogInv, LockInv
  <1>8. /\ writer'[w] = e
        /\ \A v \in Writers : v # w => writer'[v] = writer[v]
    BY <1>1, <1>4
  <1>9. /\ e.pc = "roll" => cap # 0 /\ current.size + e.chars > cap
        /\ e.pc = "write" /\ cap # 0 => ~current.exists \/ current.size + e.chars <= cap
        /\ e.chars \in Lengths
    BY <1>1, <1>2, <1>3 DEF MustRoll, LogInv, LockInv, MeasureHolds
  <1>10. MeasureHolds(cap, current, writer)'
    BY <1>7, <1>8, <1>9 DEF LogInv, LockInv, MeasureHolds
  <1> QED BY <1>6, <1>7, <1>8, <1>10, LockStep

\* The thread that rolls or writes is the only one.
LEMMA OthersWait ==
    ASSUME LogInv, NEW w \in Writers, writer[w].pc \in {"roll", "write"}
    PROVE  \A v \in Writers : v # w => writer[v].pc \notin {"roll", "write"}
  BY DEF LogInv, LockInv

\* The record is lost with the lock given back.
LEMMA EmitFailsKeeps ==
    ASSUME LogInv, NEW w \in Writers, EmitFails(w)
    PROVE  LogInv'
  <1> USE DEF EmitFails
  <1>1. /\ cap \in Caps /\ old \in File /\ current \in File /\ written \in Seq(Nat)
        /\ tears \in 0..MaxTears /\ emitted \in 0..MaxRecords
        /\ writer \in [Writers -> Emits] /\ reader \in Readers
    BY LogFacts
  <1>2. IdleWriter \in Emits /\ IdleWriter.pc = "idle"
    BY EmitFacts
  <1>3. writer' \in [Writers -> Emits] /\ lock' \in Writers \cup {None}
    BY <1>1, <1>2
  <1>4. current' = current \/ current' = Opened(current)
    BY DEF Open, Opened
  <1>5. current' \in File
    BY <1>1, <1>4, OpenedFacts
  <1>6. TypeOK'
    BY <1>1, <1>3, <1>5 DEF TypeOK, Emits, Readers
  <1>7. \A v \in Writers : writer'[v] = IF v = w THEN IdleWriter ELSE writer[v]
    BY <1>1
  <1>8. \A v \in Writers : writer'[v].pc \notin {"roll", "write"}
    BY <1>2, <1>7, OthersWait
  <1>9. MeasureHolds(cap, current, writer)'
    BY <1>2, <1>7, <1>8 DEF LogInv, LockInv, MeasureHolds
  <1> QED BY <1>4, <1>6, <1>8, <1>9, LockStep

LEMMA RollKeeps ==
    ASSUME LogInv, NEW w \in Writers, Roll(w)
    PROVE  LogInv'
  <1> USE DEF Roll
  <1>1. /\ cap \in Caps /\ cap \in Nat /\ old \in File /\ current \in File
        /\ written \in Seq(Nat) /\ tears \in 0..MaxTears /\ tears \in Nat
        /\ emitted \in 0..MaxRecords /\ lock \in Writers \cup {None}
        /\ writer \in [Writers -> Emits] /\ reader \in Readers /\ reader.got \in Seq(Nat)
    BY LogFacts
  <1>2. /\ LockInv(cap, old, current, lock, writer) /\ DiskInv(cap, old, current, written, tears)
        /\ ReadInv(cap, current, written, reader) /\ FollowInv(cap, current, written, reader)
    BY DEF LogInv
  <1>3. /\ NoFile \in File /\ NoFile.size = 0 /\ ~NoFile.exists /\ Len(Kept(NoFile)) = 0
        /\ FitsIn(cap, NoFile)
    BY <1>1, NoFileFacts, EmptySeq, EmitFacts DEF FitsIn
  <1>4. cap # 0 /\ lock = w /\ FitsIn(cap, current)
    BY <1>2 DEF LockInv, MeasureHolds
  <1> DEFINE e == [writer[w] EXCEPT !.pc = "write"]
  <1>5. e \in Emits /\ e.pc = "write" /\ e.chars = writer[w].chars
    BY <1>1 DEF Emits
  <1> HIDE DEF e
  <1>6. writer' = [writer EXCEPT ![w] = e]
    BY DEF e
  <1>7. writer' \in [Writers -> Emits]
    BY <1>1, <1>5, <1>6
  <1>8. TypeOK'
    BY <1>1, <1>3, <1>7 DEF TypeOK, Emits, Readers
  <1>9. /\ writer'[w] = e
        /\ \A v \in Writers : v # w => /\ writer'[v] = writer[v]
                                       /\ writer[v].pc \notin {"roll", "write"}
    BY <1>1, <1>6, OthersWait
  <1>10. LockInv(cap, old, current, lock, writer)'
    <2>1. MeasureHolds(cap, current, writer)'
      BY <1>2, <1>3, <1>5, <1>9 DEF LockInv, MeasureHolds
    <2>2. FitsIn(cap, old)' /\ FitsIn(cap, current)'
      BY <1>3, <1>4 DEF FitsIn, OneLine
    <2> QED BY <1>3, <1>4, <1>5, <1>9, <2>1, <2>2 DEF LockInv
  <1>11. DiskInv(cap, old, current, written, tears)'
    BY <1>1, <1>2, <1>4, DiskRolls
  <1>12. ReadInv(cap, NoFile, written, reader)
    <2>1. Begins(written, written)
      BY <1>1 DEF Begins
    <2>2. Len(Kept(current)) \in Nat /\ Len(written) \in Nat
      BY <1>1, OneLostPerCut
    <2>3. Len(written) - Len(Kept(current)) <= Len(written) - Len(Kept(NoFile))
      BY <1>3, <2>2
    <2> QED BY <1>1, <1>2, <1>3, <1>4, <2>1, <2>3, ReadGoesOn
  <1>13. ReadInv(cap, current, written, reader)'
    BY <1>12 DEF ReadInv
  <1>14. FollowInv(cap, current, written, reader)'
    BY <1>4 DEF FollowInv
  <1> QED BY <1>8, <1>10, <1>11, <1>13, <1>14 DEF LogInv

\* What the thread that writes appends leaves a file that fits or is one line.
LEMMA WriteFits ==
    ASSUME LogInv, NEW w \in Writers, writer[w].pc = "write", NEW b \in Nat, b <= Bytes(w),
           cap' = cap, old' = old, lock' = None,
           current'.size = current.size + b, current'.exists,
           Len(current'.data) = Len(current.data) + 1,
           \A v \in Writers : \/ writer'[v] = IdleWriter
                              \/ writer'[v] = writer[v] /\ writer[v].pc \notin {"roll", "write"}
    PROVE  LockInv(cap, old, current, lock, writer)'
  <1>1. cap \in Nat /\ current.size \in Nat /\ writer[w] \in Emits
    BY LogFacts, FileFacts
  <1> DEFINE chars == writer[w].chars
             extra == writer[w].extra
  <1>2. chars \in Nat /\ extra \in Nat /\ extra \in Extras /\ b <= chars + extra
    BY <1>1, EmitFacts DEF Bytes
  <1>3. /\ chars \in Lengths
        /\ ~current.exists => current = NoFile
        /\ cap # 0 => /\ ~current.exists \/ current.size + chars <= cap
                     /\ FitsIn(cap, old)
    BY DEF LogInv, LockInv, MeasureHolds
  <1> HIDE DEF chars, extra
  <1>4. CASE ~current.exists
    <2>1. current'.size = b /\ Len(current'.data) = 1
      BY <1>3, <1>4, NoFileFacts, EmptySeq
    <2>2. OneLine(current')
      BY <1>2, <1>3, <2>1 DEF OneLine
    <2> QED BY <1>3, <2>2, EmitFacts DEF LogInv, LockInv, MeasureHolds, FitsIn, OneLine
  <1>5. CASE current.exists
    <2>1. cap # 0 => current'.size <= cap + extra
      BY <1>1, <1>2, <1>3, <1>5
    <2> QED BY <1>2, <1>3, <2>1, EmitFacts DEF LogInv, LockInv, MeasureHolds, FitsIn, OneLine
  <1> QED BY <1>4, <1>5

LEMMA WriteKeeps ==
    ASSUME LogInv, NEW w \in Writers, Write(w)
    PROVE  LogInv'
  <1> USE DEF Write
  <1>1. /\ cap \in Caps /\ cap \in Nat /\ old \in File /\ current \in File
        /\ written \in Seq(Nat) /\ tears \in 0..MaxTears /\ tears \in Nat
        /\ emitted \in 0..MaxRecords /\ lock \in Writers \cup {None}
        /\ writer \in [Writers -> Emits]
        /\ reader \in Readers /\ reader.got \in Seq(Nat) /\ reader.seen \in Nat
    BY LogFacts
  <1>2. /\ DiskInv(cap, old, current, written, tears)
        /\ ReadInv(cap, current, written, reader) /\ FollowInv(cap, current, written, reader)
    BY DEF LogInv
  <1> DEFINE x == writer[w].id
             b == Bytes(w)
             g == Extend(current, x, b)
             wx == Append(written, x)
  <1>3. x \in Nat /\ x \in Nat \cup Pieces /\ b \in Nat
    BY <1>1, EmitFacts DEF Bytes
  <1> HIDE DEF x, b
  <1>4. /\ g \in File /\ g.size = current.size + b /\ Kept(g) = Append(Kept(current), x)
        /\ g.exists /\ Len(g.data) = Len(current.data) + 1
    BY <1>1, <1>3, ExtendFacts
  <1>5. Begins(Parse(current), Parse(g))
    BY <1>1, <1>3, ParseGrows
  <1>6. DiskInv(cap, old, g, wx, tears)
    BY <1>1, <1>2, <1>3, DiskGrows
  <1> HIDE DEF g
  <1>7. wx \in Seq(Nat) /\ Len(wx) = Len(written) + 1 /\ Begins(written, wx)
    BY <1>1, <1>3, AppendProperties DEF Begins
  <1> HIDE DEF wx
  <1>8. Len(written) - Len(Kept(current)) <= Len(wx) - Len(Kept(g))
    <2>1. Kept(current) \in Seq(Nat)
      BY <1>1, RecordsAreNumbers
    <2>2. Len(Kept(g)) = Len(Kept(current)) + 1
      BY <1>3, <1>4, <2>1, AppendProperties
    <2>3. Len(Kept(current)) \in Nat /\ Len(written) \in Nat
      BY <1>1, <2>1
    <2> QED BY <1>7, <2>2, <2>3
  <1>9. ReadInv(cap, g, wx, reader)
    BY <1>1, <1>2, <1>4, <1>5, <1>7, <1>8, ReadGoesOn
  <1>10. FollowInv(cap, g, wx, reader)
    BY <1>1, <1>2, <1>4, <1>5, <1>7, FollowGoesOn
  <1>11. current' = g /\ written' = wx /\ cap' = cap /\ reader' = reader
    BY DEF g, wx, x, b
  <1>12. IdleWriter \in Emits /\ IdleWriter.pc = "idle"
    BY EmitFacts
  <1>13. writer' \in [Writers -> Emits] /\ lock' \in Writers \cup {None}
    BY <1>1, <1>12
  <1>14. TypeOK'
    BY <1>1, <1>4, <1>7, <1>11, <1>13 DEF TypeOK, Emits, Readers
  <1>15. \A v \in Writers : \/ writer'[v] = IdleWriter
                            \/ writer'[v] = writer[v] /\ writer[v].pc \notin {"roll", "write"}
    <2>1. writer'[w] = IdleWriter /\ \A v \in Writers : v # w => writer'[v] = writer[v]
      BY <1>1
    <2>2. \A v \in Writers : v # w => writer[v].pc \notin {"roll", "write"}
      BY OthersWait
    <2> QED BY <2>1, <2>2
  <1>16. LockInv(cap, old, current, lock, writer)'
    <2>1. b <= Bytes(w)
      BY <1>3 DEF b
    <2>2. writer[w].pc = "write" /\ old' = old /\ lock' = None
      OBVIOUS
    <2> HIDE DEF Write
    <2> QED BY <1>3, <1>4, <1>11, <1>15, <2>1, <2>2, WriteFits
  <1>17. DiskInv(cap, old, current, written, tears)'
    BY <1>6, <1>11
  <1>18. ReadInv(cap, current, written, reader)'
    BY <1>9, <1>11
  <1>19. FollowInv(cap, current, written, reader)'
    BY <1>10, <1>11
  <1> QED BY <1>14, <1>16, <1>17, <1>18, <1>19 DEF LogInv

\* A write is cut short, by an error or by the end of the process.
LEMMA TearStep ==
    ASSUME LogInv, NEW w \in Writers, Tear(w),
           UNCHANGED <<cap, old, emitted, written, reader>>, lock' = None,
           writer' \in [Writers -> Emits],
           \A v \in Writers : \/ writer'[v] = IdleWriter
                              \/ writer'[v] = writer[v] /\ writer[v].pc \notin {"roll", "write"}
    PROVE  LogInv'
  <1>1. /\ cap \in Caps /\ cap \in Nat /\ old \in File /\ current \in File
        /\ written \in Seq(Nat) /\ tears \in 0..MaxTears /\ tears \in Nat
        /\ emitted \in 0..MaxRecords /\ lock \in Writers \cup {None}
        /\ reader \in Readers /\ reader.got \in Seq(Nat) /\ reader.seen \in Nat
    BY LogFacts
  <1>2. /\ DiskInv(cap, old, current, written, tears)
        /\ ReadInv(cap, current, written, reader) /\ FollowInv(cap, current, written, reader)
    BY DEF LogInv
  <1>3. PICK x \in Pieces, b \in 1..(Bytes(w) - 2) : current' = Extend(current, x, b)
    BY DEF Tear, Pieces
  <1>4. tears' = tears + 1 /\ tears' \in 0..MaxTears /\ writer[w].pc = "write"
    BY <1>1, LogAssumption DEF Tear
  <1> DEFINE g == Extend(current, x, b)
  <1>5. x \in Nat \cup Pieces /\ b \in Nat /\ b <= Bytes(w)
    <2>1. Bytes(w) \in Nat
      BY LogFacts, EmitFacts DEF Bytes
    <2> QED BY <2>1
  <1>6. /\ g \in File /\ g.size = current.size + b /\ Kept(g) = Kept(current)
        /\ g.exists /\ Len(g.data) = Len(current.data) + 1
    BY <1>1, <1>5, ExtendFacts
  <1>7. Begins(Parse(current), Parse(g))
    BY <1>1, <1>5, ParseGrows
  <1>8. DiskInv(cap, old, g, written, tears + 1)
    BY <1>1, <1>2, <1>5, DiskTears
  <1> HIDE DEF g
  <1>9. Begins(written, written)
    BY <1>1 DEF Begins
  <1>10. Len(written) - Len(Kept(current)) <= Len(written) - Len(Kept(g))
    <2>1. Len(Kept(current)) \in Nat /\ Len(written) \in Nat
      BY <1>1, OneLostPerCut
    <2> QED BY <1>6, <2>1
  <1>11. ReadInv(cap, g, written, reader)
    BY <1>1, <1>2, <1>6, <1>7, <1>9, <1>10, ReadGoesOn
  <1>12. FollowInv(cap, g, written, reader)
    BY <1>1, <1>2, <1>6, <1>7, <1>9, FollowGoesOn
  <1>13. current' = g /\ written' = written /\ cap' = cap /\ reader' = reader /\ old' = old
    BY <1>3 DEF g
  <1>14. TypeOK'
    BY <1>1, <1>4, <1>6, <1>13 DEF TypeOK, Emits, Readers
  <1>15. LockInv(cap, old, current, lock, writer)'
    BY <1>4, <1>5, <1>6, <1>13, WriteFits
  <1>16. DiskInv(cap, old, current, written, tears)'
    BY <1>4, <1>8, <1>13
  <1>17. ReadInv(cap, current, written, reader)'
    BY <1>11, <1>13
  <1>18. FollowInv(cap, current, written, reader)'
    BY <1>12, <1>13
  <1> QED BY <1>14, <1>15, <1>16, <1>17, <1>18 DEF LogInv

LEMMA WriteTearsKeeps ==
    ASSUME LogInv, NEW w \in Writers, WriteTears(w)
    PROVE  LogInv'
  <1>1. writer \in [Writers -> Emits] /\ writer[w].pc = "write"
    BY LogFacts DEF WriteTears, Tear
  <1>2. IdleWriter \in Emits /\ IdleWriter.pc = "idle"
    BY EmitFacts
  <1>3. writer' = [writer EXCEPT ![w] = IdleWriter]
    BY DEF WriteTears
  <1>4. writer' \in [Writers -> Emits]
    BY <1>1, <1>2, <1>3
  <1>5. \A v \in Writers : \/ writer'[v] = IdleWriter
                           \/ writer'[v] = writer[v] /\ writer[v].pc \notin {"roll", "write"}
    <2>1. writer'[w] = IdleWriter /\ \A v \in Writers : v # w => writer'[v] = writer[v]
      BY <1>1, <1>3
    <2>2. \A v \in Writers : v # w => writer[v].pc \notin {"roll", "write"}
      BY <1>1, OthersWait
    <2> QED BY <2>1, <2>2
  <1> QED BY <1>4, <1>5, TearStep DEF WriteTears

LEMMA KillKeeps ==
    ASSUME LogInv, Kill
    PROVE  LogInv'
  <1>1. IdleWriter \in Emits /\ IdleWriter.pc = "idle"
    BY EmitFacts
  <1>2. /\ writer' = [w \in Writers |-> IdleWriter] /\ lock' = None
        /\ UNCHANGED <<cap, old, emitted, written, reader>>
    BY DEF Kill
  <1>3. /\ writer' \in [Writers -> Emits] /\ lock' \in Writers \cup {None}
        /\ \A v \in Writers : writer'[v] = IdleWriter
    BY <1>1, <1>2
  <1>4. MeasureHolds(cap, current, writer)'
    BY <1>1, <1>3 DEF MeasureHolds
  <1>5. ASSUME current' = current \/ current' = Opened(current), tears' = tears
        PROVE  LogInv'
    <2>1. current' \in File
      BY <1>5, LogFacts, OpenedFacts
    <2>2. TypeOK'
      BY <1>2, <1>3, <1>5, <2>1 DEF LogInv, TypeOK, Emits
    <2> QED BY <1>1, <1>2, <1>3, <1>4, <1>5, <2>2, LockStep
  <1>6. ASSUME NEW w \in Writers, Tear(w)
        PROVE  LogInv'
    BY <1>2, <1>3, <1>6, TearStep
  <1> QED BY <1>5, <1>6 DEF Kill, Open, Opened

\* A step of the reader.
LEMMA ReaderStep ==
    ASSUME LogInv, UNCHANGED <<cap, old, current, lock, writer, emitted, written, tears>>,
           NEW r, reader' = r, r \in Readers,
           ReadInv(cap, current, written, r), FollowInv(cap, current, written, r)
    PROVE  LogInv'
  <1>1. TypeOK'
    BY DEF LogInv, TypeOK, Readers
  <1>2. LockInv(cap, old, current, lock, writer)'
    BY DEF LogInv, LockInv
  <1>3. DiskInv(cap, old, current, written, tears)'
    BY DEF LogInv, DiskInv
  <1>4. ReadInv(cap, current, written, reader)'
    OBVIOUS
  <1>5. FollowInv(cap, current, written, reader)'
    OBVIOUS
  <1> QED BY <1>1, <1>2, <1>3, <1>4, <1>5 DEF LogInv

LEMMA ReadFirstKeeps ==
    ASSUME LogInv, ReadFirst
    PROVE  LogInv'
  <1>1. /\ cap \in Nat /\ old \in File /\ current \in File /\ written \in Seq(Nat)
        /\ tears \in Nat /\ reader \in Readers
    BY LogFacts
  <1>2. /\ DiskInv(cap, old, current, written, tears)
        /\ FollowInv(cap, current, written, reader)
    BY DEF LogInv
  <1> DEFINE r == [reader EXCEPT !.pc = "half", !.got = Parse(old), !.there = ToSet(OnDisk)]
  <1>3. Parse(old) \in Seq(Nat) /\ Parse(current) \in Seq(Nat)
    BY <1>1, RecordsAreNumbers
  <1>4. OnDisk \in Seq(Nat)
    BY <1>3, ConcatProperties DEF OnDisk
  <1>5. ToSet(OnDisk) \in SUBSET Nat
    BY <1>4 DEF ToSet
  <1>6. /\ r \in Readers /\ r.pc = "half" /\ r.got = Parse(old) /\ r.there = ToSet(OnDisk)
        /\ r.seen = reader.seen /\ r.printed = reader.printed
    BY <1>1, <1>3, <1>5 DEF Readers
  <1>7. reader' = r /\ UNCHANGED <<cap, old, current, lock, writer, emitted, written, tears>>
    BY DEF ReadFirst, Generation
  <1> HIDE DEF r
  <1>8. ReadInv(cap, current, written, r)
    BY <1>1, <1>2, <1>6, ReadBegins DEF OnDisk
  <1>9. FollowInv(cap, current, written, r)
    BY <1>2, <1>6 DEF FollowInv
  <1> QED BY <1>6, <1>7, <1>8, <1>9, ReaderStep

LEMMA ReadSecondKeeps ==
    ASSUME LogInv, ReadSecond
    PROVE  LogInv'
  <1>1. /\ cap \in Nat /\ old \in File /\ current \in File /\ written \in Seq(Nat)
        /\ tears \in Nat /\ reader \in Readers /\ reader.got \in Seq(Nat)
    BY LogFacts
  <1>2. /\ DiskInv(cap, old, current, written, tears)
        /\ ReadInv(cap, current, written, reader) /\ FollowInv(cap, current, written, reader)
    BY DEF LogInv
  <1> DEFINE got == reader.got \o Parse(current)
             r == Follow(got)
  <1>3. /\ reader.pc = "half" /\ reader' = r
        /\ UNCHANGED <<cap, old, current, lock, writer, emitted, written, tears>>
    BY DEF ReadSecond, Generation
  <1>4. /\ got \in Seq(Nat) /\ InOrder(written, got) /\ InOrder(written, Parse(current))
        /\ cap = 0 => got = Parse(current) /\ reader.there \subseteq ToSet(got)
    BY <1>1, <1>2, <1>3, ReadEnds
  <1> HIDE DEF got
  <1>5. r \in Readers /\ r.pc = "done" /\ r.got = got /\ r.there = reader.there
    BY <1>1, <1>4, FollowFacts
  <1>6. FollowInv(cap, current, written, r)
    BY <1>1, <1>2, <1>4, FollowPrints
  <1> HIDE DEF r
  <1>7. ReadInv(cap, current, written, r)
    BY <1>4, <1>5 DEF ReadInv, InOrder
  <1> QED BY <1>3, <1>5, <1>6, <1>7, ReaderStep

LEMMA ReadRaisesKeeps ==
    ASSUME LogInv, ReadRaises
    PROVE  LogInv'
  <1> DEFINE r == [IdleReader EXCEPT !.pc = "raised"]
  <1>1. <<>> \in Seq(Nat) /\ Len(<<>>) = 0
    BY EmptySeq
  <1>2. /\ r \in Readers /\ r.pc = "raised" /\ r.got = <<>> /\ r.seen = 0 /\ r.printed = <<>>
    BY <1>1 DEF IdleReader, Readers
  <1>3. reader' = r /\ UNCHANGED <<cap, old, current, lock, writer, emitted, written, tears>>
    BY DEF ReadRaises
  <1> HIDE DEF r
  <1>4. ReadInv(cap, current, written, r)
    BY <1>1, <1>2 DEF ReadInv
  <1>5. Parse(current) \in Seq(Nat) /\ Len(Parse(current)) \in Nat
    BY LogFacts, RecordsAreNumbers
  <1>6. SubSeq(Parse(current), 1, 0) = <<>>
    BY SubSeqEmpty
  <1>7. FollowInv(cap, current, written, r)
    BY <1>1, <1>2, <1>5, <1>6 DEF FollowInv
  <1> QED BY <1>2, <1>3, <1>4, <1>7, ReaderStep

LEMMA LogStuttering ==
    ASSUME LogInv, UNCHANGED vars
    PROVE  LogInv'
  <1>1. TypeOK'
    BY DEF LogInv, TypeOK, vars
  <1>2. /\ UNCHANGED <<cap, old, current, lock, writer, emitted, written, tears>>
        /\ reader' = reader /\ reader \in Readers
    BY LogFacts DEF vars
  <1> QED BY <1>2, ReaderStep DEF LogInv

LEMMA LogSteps ==
    LogInv /\ [Next]_vars => LogInv'
  <1> SUFFICES ASSUME LogInv, [Next]_vars PROVE LogInv'
    OBVIOUS
  <1>1. ASSUME NEW w \in Writers, NEW chars \in Lengths, NEW extra \in Extras,
               Stamp(w, chars, extra)
        PROVE  LogInv'
    BY <1>1, StampKeeps
  <1>2. ASSUME NEW w \in Writers, Measure(w) PROVE LogInv'
    BY <1>2, MeasureKeeps
  <1>3. ASSUME NEW w \in Writers, Roll(w) PROVE LogInv'
    BY <1>3, RollKeeps
  <1>4. ASSUME NEW w \in Writers, Write(w) PROVE LogInv'
    BY <1>4, WriteKeeps
  <1>5. ASSUME NEW w \in Writers, EmitFails(w) PROVE LogInv'
    BY <1>5, EmitFailsKeeps
  <1>6. ASSUME NEW w \in Writers, WriteTears(w) PROVE LogInv'
    BY <1>6, WriteTearsKeeps
  <1>7. CASE Kill
    BY <1>7, KillKeeps
  <1>8. CASE ReadFirst
    BY <1>8, ReadFirstKeeps
  <1>9. CASE ReadSecond
    BY <1>9, ReadSecondKeeps
  <1>10. CASE ReadRaises
    BY <1>10, ReadRaisesKeeps
  <1>11. CASE UNCHANGED vars
    BY <1>11, LogStuttering
  <1> QED BY <1>1, <1>2, <1>3, <1>4, <1>5, <1>6, <1>7, <1>8, <1>9, <1>10, <1>11 DEF Next

(***************************************************************************)
(* Theorems.                                                               *)
(***************************************************************************)

\* LogInv holds in every reachable state.
THEOREM LogInvariant == Spec => []LogInv
  BY LogStarts, LogSteps, PTL DEF Spec

\* Every variable stays in the shape the code gives it: above all, what read
\* returns and tail --follow prints are records, never pieces of one.
THEOREM LogTypeCorrect == Spec => []TypeOK
  BY LogInvariant, PTL DEF LogInv

\* A rotation throws a generation away only for a file without room for the
\* line to come, however many threads emit at once: what _maybe_rotate measured
\* still holds when it replaces the file.
THEOREM RollsAreForFull == Spec => RollsOnlyFull
  <1>1. LogInv /\ [Next]_vars
           => [old' # old => \E w \in Writers :
                                /\ writer[w].pc = "roll" /\ writer'[w].pc = "write"
                                /\ old'.size + writer[w].chars > cap]_vars
    <2> SUFFICES ASSUME LogInv, Next, old' # old
                 PROVE  \E w \in Writers : /\ writer[w].pc = "roll" /\ writer'[w].pc = "write"
                                           /\ old'.size + writer[w].chars > cap
      BY DEF vars
    <2>1. PICK w \in Writers : Roll(w)
      BY DEF Next, Stamp, Measure, Roll, Write, EmitFails, WriteTears, Tear, Kill,
             ReadFirst, ReadSecond, ReadRaises
    <2>2. writer \in [Writers -> Emits]
      BY LogFacts
    <2>3. writer'[w].pc = "write"
      BY <2>1, <2>2 DEF Roll, Emits
    <2> QED BY <2>1, <2>3 DEF Roll, LogInv, LockInv, MeasureHolds
  <1> QED BY <1>1, LogInvariant, PTL DEF Spec, RollsOnlyFull

\* diagnostic.jsonl and its older generation take no more than the cap, but for
\* the bytes that the characters of one line take beyond their number, unless
\* they are one line that is itself too long.
THEOREM DiskBounded == Spec => []DiskIsBounded
  <1>1. LogInv => DiskIsBounded
    BY DEF LogInv, LockInv, FitsIn, DiskIsBounded, Fits
  <1> QED BY <1>1, LogInvariant, PTL

LEMMA EndIsSuffix ==
    ASSUME NEW u \in Seq(Nat), NEW s \in Seq(Nat)
    PROVE  IsSuffix(s, u \o s)
  <1> DEFINE t == u \o s
             rs == Reverse(s)
             rt == Reverse(t)
             a == Len(u)
             n == Len(s)
  <1>1. a \in Nat /\ n \in Nat /\ \A i \in 1..n : s[i] \in Nat
    OBVIOUS
  <1>2. /\ t \in Seq(Nat) /\ Len(t) = a + n
        /\ \A i \in 1..(a + n) : t[i] = IF i <= a THEN u[i] ELSE s[i - a]
    BY ConcatProperties
  <1> HIDE DEF t, n, a
  <1>3. ASSUME NEW i \in 1..n
        PROVE  t[(a + n) - i + 1] = s[n - i + 1] /\ s[n - i + 1] \in Nat
    <2>1. /\ (a + n) - i + 1 \in 1..(a + n) /\ ~ ((a + n) - i + 1 <= a)
          /\ ((a + n) - i + 1) - a = n - i + 1 /\ n - i + 1 \in 1..n
      BY <1>1
    <2> QED BY <2>1, <1>1, <1>2
  <1>4. /\ rs = [i \in 1..n |-> s[n - i + 1]] /\ rt = [i \in 1..(a + n) |-> t[(a + n) - i + 1]]
    BY <1>2 DEF Reverse, n
  <1> HIDE DEF rs, rt
  <1>5. Len(rs) = n /\ Len(rt) = a + n
    BY <1>1, <1>4
  <1>6. ASSUME NEW i \in 1..n
        PROVE  rs[i] \in Nat /\ rt[i] = rs[i]
    <2>1. i \in 1..(a + n)
      BY <1>1
    <2> QED BY <2>1, <1>3, <1>4
  <1>7. n \in Int /\ 1 \in Int /\ \A i \in 1..n : rs[i] \in Nat /\ rt[i] \in Nat
    BY <1>1, <1>6
  <1> DEFINE x == SubSeq(rs, 1, n)
             y == SubSeq(rt, 1, n)
  <1>8. x \in Seq(Nat) /\ Len(x) = n /\ \A i \in 1..n : x[i] = rs[i]
    BY <1>1, <1>7, SubSeqProperties
  <1>9. y \in Seq(Nat) /\ Len(y) = n /\ \A i \in 1..n : y[i] = rt[i]
    BY <1>1, <1>7, SubSeqProperties
  <1> HIDE DEF x, y
  <1>10. x = y
    BY <1>6, <1>8, <1>9, SeqEqual
  <1>11. n <= a + n
    BY <1>1
  <1> QED BY <1>5, <1>10, <1>11 DEF IsSuffix, IsPrefix, x, y, rs, rt, t

\* What is on disk is the end of what was written, in its order and without a
\* gap; of the audit trail it is all, whatever fails and whenever the process
\* dies.
THEOREM DiskRecent == Spec => []DiskIsRecent
  <1>1. ASSUME LogInv
        PROVE  DiskIsRecent
    <2>1. Kept(old) \in Seq(Nat) /\ Kept(current) \in Seq(Nat)
      BY <1>1, LogFacts, RecordsAreNumbers
    <2> DEFINE kept == Kept(old) \o Kept(current)
    <2>2. kept \in Seq(Nat)
      BY <2>1, ConcatProperties
    <2>3. PICK u \in Seq(Nat) : written = u \o kept /\ (cap = 0 => u = <<>>)
      BY <1>1 DEF LogInv, DiskInv
    <2> HIDE DEF kept
    <2>4. IsSuffix(kept, written)
      BY <2>2, <2>3, EndIsSuffix
    <2>5. cap = 0 => kept = written
      BY <2>2, <2>3
    <2> QED BY <2>4, <2>5 DEF DiskIsRecent, kept
  <1> QED BY <1>1, LogInvariant, PTL

\* A read returns records in the order in which they were written, each once,
\* whatever is written and rotated while it goes from one file to the other.
THEOREM ReadsOrdered == Spec => []ReadIsOrdered
  <1>1. LogInv => ReadIsOrdered
    BY DEF LogInv, ReadInv, ReadIsOrdered
  <1> QED BY <1>1, LogInvariant, PTL

\* A read of the audit trail misses nothing that could be read when it began.
THEOREM AuditReadsComplete == Spec => []AuditReadIsComplete
  <1>1. LogInv => AuditReadIsComplete
    BY DEF LogInv, ReadInv, AuditReadIsComplete, ReadIsComplete
  <1> QED BY <1>1, LogInvariant, PTL

\* Each write that was cut short costs one record besides its own at most.
THEOREM TearsCostOne == Spec => []TearCostsOne
  <1>1. ASSUME LogInv
        PROVE  TearCostsOne
    <2>1. old \in File /\ current \in File /\ tears \in Nat
      BY <1>1, LogFacts
    <2>2. /\ Kept(old) \in Seq(Nat) /\ Kept(current) \in Seq(Nat)
          /\ Parse(old) \in Seq(Nat) /\ Parse(current) \in Seq(Nat)
      BY <2>1, RecordsAreNumbers
    <2>3. /\ Len(Kept(old) \o Kept(current)) = Len(Kept(old)) + Len(Kept(current))
          /\ Len(OnDisk) = Len(Parse(old)) + Len(Parse(current))
      BY <2>2, ConcatProperties DEF OnDisk
    <2>4. /\ Len(Kept(old)) \in Nat /\ Len(Parse(old)) \in Nat
          /\ Cardinality(Cuts(old)) \in Nat
          /\ Len(Kept(old)) - Len(Parse(old)) <= Cardinality(Cuts(old))
      BY <2>1, OneLostPerCut
    <2>5. /\ Len(Kept(current)) \in Nat /\ Len(Parse(current)) \in Nat
          /\ Cardinality(Cuts(current)) \in Nat
          /\ Len(Kept(current)) - Len(Parse(current)) <= Cardinality(Cuts(current))
      BY <2>1, OneLostPerCut
    <2>6. Cardinality(Cuts(old)) + Cardinality(Cuts(current)) <= tears
      BY <1>1 DEF LogInv, DiskInv
    <2>7. Len(Kept(old) \o Kept(current)) - Len(OnDisk) <= tears
      BY <2>1, <2>3, <2>4, <2>5, <2>6
    <2> QED BY <2>7 DEF TearCostsOne
  <1> QED BY <1>1, LogInvariant, PTL

\* On the audit trail, tail --follow has printed as many records as it has
\* read, all of them but late ones, and the very same if none was late.
THEOREM FollowMissesLate == Spec => []FollowMissesOnlyLate
  <1>1. ASSUME LogInv, cap = 0, reader.pc = "done"
        PROVE  /\ ToSet(reader.got) \ ToSet(reader.printed) \subseteq Late
               /\ Len(reader.printed) = Len(reader.got)
               /\ Late = {} => reader.printed = reader.got
    <2> DEFINE p == Parse(current)
               n == reader.seen
    <2>1. p \in Seq(Nat) /\ n \in Nat
      BY <1>1, LogFacts, RecordsAreNumbers
    <2>2. /\ n = Len(reader.printed) /\ n <= Len(p)
          /\ \A i \in 1..n : p[i] \in ToSet(reader.printed) \cup Late
          /\ Late = {} => reader.printed = SubSeq(p, 1, n)
          /\ reader.got = SubSeq(p, 1, n)
      BY <1>1 DEF LogInv, FollowInv, Late, LateIn
    <2> HIDE DEF p
    <2>3. /\ reader.got \in Seq(Nat) /\ Len(reader.got) = n
          /\ \A i \in 1..n : reader.got[i] = p[i]
      <3>1. \A i \in 1..n : p[i] \in Nat
        BY <2>1, <2>2
      <3>2. /\ SubSeq(p, 1, n) \in Seq(Nat) /\ Len(SubSeq(p, 1, n)) = n
            /\ \A i \in 1..n : SubSeq(p, 1, n)[i] = p[i]
        BY <3>1, <2>1, SubSeqProperties
      <3> QED BY <3>2, <2>2
    <2>4. DOMAIN reader.got = 1..n
      BY <2>3
    <2>5. ToSet(reader.got) \subseteq ToSet(reader.printed) \cup Late
      BY <2>2, <2>3, <2>4 DEF ToSet
    <2> QED BY <2>2, <2>3, <2>5
  <1>2. LogInv => FollowMissesOnlyLate
    BY <1>1 DEF FollowMissesOnlyLate
  <1> QED BY <1>2, LogInvariant, PTL

=============================================================================
