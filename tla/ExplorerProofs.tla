--------------------------- MODULE ExplorerProofs ----------------------------
(***************************************************************************)
(* The explorer over any bucket, any views and any number of late answers: *)
(* it shows what belongs to the view, and scrolling skips nothing.         *)
(***************************************************************************)
EXTENDS Explorer, FiniteSetTheorems, SequenceTheorems, TLAPS

(***************************************************************************)
(* Ranks.                                                                  *)
(***************************************************************************)

\* The places of a sequence that are up to some place are finitely many.
LEMMA UpTo ==
    ASSUME NEW P, IsFiniteSet(P), NEW n
    PROVE  /\ IsFiniteSet({m \in P : m <= n})
           /\ Rank(P, n) \in Nat /\ Rank(P, n) <= Cardinality(P)
<1>1. {m \in P : m <= n} \in SUBSET P
  OBVIOUS
<1>2. /\ IsFiniteSet({m \in P : m <= n})
      /\ Cardinality({m \in P : m <= n}) <= Cardinality(P)
  BY <1>1, FS_Subset
<1> QED BY <1>2, FS_CardinalityType DEF Rank

\* Places further on have higher ranks.
LEMMA RankIncreases ==
    ASSUME NEW P \in SUBSET Int, IsFiniteSet(P), NEW m \in P, NEW n \in P, m < n
    PROVE  Rank(P, m) < Rank(P, n)
<1> DEFINE M == {i \in P : i <= m}
           N == {i \in P : i <= n}
<1>0. m \in Int /\ n \in Int /\ \A i \in P : i \in Int
  OBVIOUS
<1>a. \A i \in P : i <= m => i <= n
  BY <1>0
<1>b. n <= n /\ ~ (n <= m)
  BY <1>0
<1>1. M \in SUBSET N /\ n \in N /\ n \notin M
  BY <1>a, <1>b
<1>2. M # N
  BY <1>1
<1>3. IsFiniteSet(N) /\ Rank(P, m) \in Nat /\ Rank(P, n) \in Nat
  BY UpTo
<1>4. Rank(P, m) = Cardinality(M) /\ Rank(P, n) = Cardinality(N)
  BY DEF Rank
<1> HIDE DEF M, N
<1>5. Cardinality(M) <= Cardinality(N) /\ Cardinality(M) # Cardinality(N)
  BY <1>1, <1>2, <1>3, FS_Subset
<1> QED BY <1>3, <1>4, <1>5

\* So no two places have the same.
LEMMA RankInjective ==
    ASSUME NEW P \in SUBSET Int, IsFiniteSet(P), NEW m \in P, NEW n \in P, Rank(P, m) = Rank(P, n)
    PROVE  m = n
<1>0. /\ m \in Int /\ n \in Int
      /\ Rank(P, m) \in Nat /\ Rank(P, n) \in Nat
  BY UpTo
<1>1. CASE m < n
  <2>1. Rank(P, m) < Rank(P, n)
    BY <1>1, RankIncreases
  <2> QED BY <1>0, <2>1
<1>2. CASE n < m
  <2>1. Rank(P, n) < Rank(P, m)
    BY <1>2, RankIncreases
  <2> QED BY <1>0, <2>1
<1> QED BY <1>0, <1>1, <1>2

\* A place of P is of rank 1 at least.
LEMMA RankPositive ==
    ASSUME NEW P \in SUBSET Int, IsFiniteSet(P), NEW n \in P
    PROVE  Rank(P, n) \in 1 .. Cardinality(P)
<1>1. n \in {m \in P : m <= n}
  OBVIOUS
<1>2. IsFiniteSet({m \in P : m <= n}) /\ Rank(P, n) \in Nat /\ Rank(P, n) <= Cardinality(P)
  BY UpTo
<1>3. Cardinality({m \in P : m <= n}) # 0
  BY <1>1, <1>2, FS_EmptySet
<1>4. Rank(P, n) # 0
  BY <1>3 DEF Rank
<1>5. Cardinality(P) \in Nat
  BY FS_CardinalityType
<1> QED BY <1>2, <1>4, <1>5

\* Every rank up to the number of places is taken, by Nth.
LEMMA NthRank ==
    ASSUME NEW P \in SUBSET Int, IsFiniteSet(P), NEW n \in 1 .. Cardinality(P)
    PROVE  Nth(P, n) \in P /\ Rank(P, Nth(P, n)) = n
<1>0. Cardinality(P) \in Nat
  BY FS_CardinalityType
<1> DEFINE f == [m \in P |-> Rank(P, m)]
<1>1. f \in [P -> 1 .. Cardinality(P)]
  BY RankPositive
<1>2. \A i, j \in P : f[i] = f[j] => i = j
  BY RankInjective
<1>3. f \in Injection(P, 1 .. Cardinality(P))
  <2> HIDE DEF f
  <2> QED BY <1>1, <1>2 DEF Injection, IsInjective
<1>4. IsFiniteSet(1 .. Cardinality(P)) /\ Cardinality(1 .. Cardinality(P)) = Cardinality(P)
  BY <1>0, FS_Interval
<1>5. f \in Surjection(P, 1 .. Cardinality(P))
  BY <1>3, <1>4, FS_Injection
<1>6. \E m \in P : f[m] = n
  <2> HIDE DEF f
  <2> QED BY <1>5 DEF Surjection
<1>7. \E m \in P : Rank(P, m) = n
  BY <1>6
<1> QED BY <1>7 DEF Nth

\* A place has the more before it the more there are.
LEMMA RankGrows ==
    ASSUME NEW P, NEW Q, IsFiniteSet(Q), P \subseteq Q, NEW n
    PROVE  Rank(P, n) <= Rank(Q, n)
<1>1. {m \in P : m <= n} \in SUBSET {m \in Q : m <= n}
  OBVIOUS
<1>2. IsFiniteSet({m \in Q : m <= n})
  BY UpTo
<1> QED BY <1>1, <1>2, FS_Subset DEF Rank
-----------------------------------------------------------------------------
(***************************************************************************)
(* Sorted lists.                                                           *)
(***************************************************************************)

\* The places of a finite sequence.
LEMMA PlacesFinite ==
    ASSUME NEW D, NEW order \in Seq(D), NEW T
    PROVE  /\ Places(order, T) \in SUBSET Int /\ IsFiniteSet(Places(order, T))
           /\ Cardinality(Places(order, T)) \in Nat
<1>1. DOMAIN order = 1 .. Len(order) /\ Len(order) \in Nat
  BY LenProperties
<1>2. IsFiniteSet(1 .. Len(order))
  BY <1>1, FS_Interval
<1>3. Places(order, T) \in SUBSET (1 .. Len(order))
  BY <1>1 DEF Places
<1>4. IsFiniteSet(Places(order, T))
  BY <1>2, <1>3, FS_Subset
<1> QED BY <1>3, <1>4, FS_CardinalityType

\* A sorted list has the elements asked for, and only those.
LEMMA SortedList ==
    ASSUME NEW D, NEW order \in Seq(D), NEW T
    PROVE  /\ Sorted(order, T) \in Seq(D)
           /\ Len(Sorted(order, T)) = Cardinality(Places(order, T))
           /\ \A n \in 1 .. Len(Sorted(order, T)) : Sorted(order, T)[n] \in T
           /\ \A p \in Places(order, T) :
                 /\ Rank(Places(order, T), p) \in 1 .. Len(Sorted(order, T))
                 /\ Sorted(order, T)[Rank(Places(order, T), p)] = order[p]
<1>0. PICK P : P = Places(order, T)
  OBVIOUS
<1>1. P \in SUBSET Int /\ IsFiniteSet(P) /\ Cardinality(P) \in Nat
  BY <1>0, PlacesFinite
<1>2. DOMAIN order = 1 .. Len(order) /\ Len(order) \in Nat /\ \A n \in 1 .. Len(order) : order[n] \in D
  BY LenProperties, ElementOfSeq
<1>3. \A p \in P : order[p] \in D /\ order[p] \in T
  BY <1>0, <1>2 DEF Places
<1>4. \A n \in 1 .. Cardinality(P) : Nth(P, n) \in P /\ Rank(P, Nth(P, n)) = n
  BY <1>1, NthRank
<1>5. PICK s : s = [n \in 1 .. Cardinality(P) |-> order[Nth(P, n)]]
  OBVIOUS
<1>6. s = Sorted(order, T)
  BY <1>0, <1>5 DEF Sorted
<1>7. s \in [1 .. Cardinality(P) -> D] /\ \A n \in 1 .. Cardinality(P) : s[n] \in T
  BY <1>3, <1>4, <1>5
<1>8. s \in Seq(D) /\ Len(s) = Cardinality(P)
  BY <1>1, <1>7
<1>9. ASSUME NEW p \in P PROVE Rank(P, p) \in 1 .. Cardinality(P) /\ s[Rank(P, p)] = order[p]
  <2>1. Rank(P, p) \in 1 .. Cardinality(P)
    BY <1>1, RankPositive
  <2>2. PICK q : q = Nth(P, Rank(P, p))
    OBVIOUS
  <2>3. q \in P /\ Rank(P, q) = Rank(P, p)
    BY <1>4, <2>1, <2>2
  <2>4. q = p
    BY <1>1, <2>3, RankInjective
  <2> QED BY <1>5, <2>1, <2>2, <2>4
<1> QED BY <1>0, <1>6, <1>7, <1>8, <1>9

\* When there is more to list, nothing moves to the front.
LEMMA SortedGrows ==
    ASSUME NEW D, NEW order \in Seq(D), NEW T, NEW U, Places(order, T) \subseteq Places(order, U)
    PROVE  /\ Len(Sorted(order, T)) <= Len(Sorted(order, U))
           /\ \A n \in 1 .. Len(Sorted(order, U)) : Sorted(order, U)[n] \in T =>
                 \E m \in 1 .. Len(Sorted(order, T)) :
                     m <= n /\ Sorted(order, T)[m] = Sorted(order, U)[n]
<1>0. PICK P, Q : P = Places(order, T) /\ Q = Places(order, U)
  OBVIOUS
<1>1. /\ P \in SUBSET Int /\ IsFiniteSet(P) /\ Cardinality(P) \in Nat
      /\ Q \in SUBSET Int /\ IsFiniteSet(Q) /\ Cardinality(Q) \in Nat /\ P \subseteq Q
  BY <1>0, PlacesFinite
<1>2. Len(Sorted(order, T)) = Cardinality(P) /\ Len(Sorted(order, U)) = Cardinality(Q)
  BY <1>0, SortedList
<1>3. Cardinality(P) <= Cardinality(Q)
  BY <1>1, FS_Subset
<1>4. ASSUME NEW n \in 1 .. Cardinality(Q), Sorted(order, U)[n] \in T
      PROVE  \E m \in 1 .. Cardinality(P) : m <= n /\ Sorted(order, T)[m] = Sorted(order, U)[n]
  <2>1. Nth(Q, n) \in Q /\ Rank(Q, Nth(Q, n)) = n
    BY <1>1, NthRank
  <2>2. Sorted(order, U)[n] = order[Nth(Q, n)]
    BY <1>0 DEF Sorted
  <2>3. Nth(Q, n) \in P
    BY <1>0, <1>4, <2>1, <2>2 DEF Places
  <2>4. Rank(P, Nth(Q, n)) <= n
    BY <1>1, <2>1, RankGrows
  <2>5. /\ Rank(P, Nth(Q, n)) \in 1 .. Cardinality(P)
        /\ Sorted(order, T)[Rank(P, Nth(Q, n))] = order[Nth(Q, n)]
    BY <1>0, <1>2, <2>3, SortedList
  <2> QED BY <2>2, <2>4, <2>5
<1> QED BY <1>2, <1>3, <1>4
-----------------------------------------------------------------------------
(***************************************************************************)
(* Listings.                                                               *)
(***************************************************************************)

AnyFolder == FolderPrefixes \cup {<<>>}

\* Marking changes neither the number nor the order.
LEMMA MarkedList ==
    ASSUME NEW D, NEW list \in Seq(D), NEW mark
    PROVE  /\ Marked(mark, list) \in Seq({mark} \X D)
           /\ Len(Marked(mark, list)) = Len(list)
           /\ \A n \in 1 .. Len(list) : Marked(mark, list)[n] = <<mark, list[n]>>
<1>1. DOMAIN list = 1 .. Len(list) /\ Len(list) \in Nat
  BY LenProperties
<1>2. \A n \in 1 .. Len(list) : list[n] \in D
  BY ElementOfSeq
<1>3. PICK s : s = [n \in 1 .. Len(list) |-> <<mark, list[n]>>]
  OBVIOUS
<1>4. s = Marked(mark, list)
  BY <1>1, <1>3 DEF Marked
<1>5. s \in [1 .. Len(list) -> {mark} \X D]
  BY <1>2, <1>3
<1>6. s \in Seq({mark} \X D) /\ Len(s) = Len(list)
  BY <1>1, <1>5
<1> QED BY <1>3, <1>4, <1>6

\* The two parts of a listing.
LEMMA PartsOfListing ==
    ASSUME NEW v, NEW S
    PROVE  /\ FolderList(v, S) \in Seq(Row) /\ ObjectList(v, S) \in Seq(Row)
           /\ Len(FolderList(v, S)) = Len(Sorted(FolderOrder, FoldersOf(v, S)))
           /\ Len(ObjectList(v, S)) = Len(Sorted(KeyOrder, ObjectsOf(v, S)))
           /\ \A n \in 1 .. Len(FolderList(v, S)) :
                 FolderList(v, S)[n] = <<"folder", Sorted(FolderOrder, FoldersOf(v, S))[n]>>
           /\ \A n \in 1 .. Len(ObjectList(v, S)) :
                 ObjectList(v, S)[n] = <<"object", Sorted(KeyOrder, ObjectsOf(v, S))[n]>>
<1>0. KeyOrder \in Seq(Keys) /\ FolderOrder \in Seq(AnyFolder)
  BY ExplorerAssumption DEF AnyFolder
<1>1. PICK f, k : f = Sorted(FolderOrder, FoldersOf(v, S)) /\ k = Sorted(KeyOrder, ObjectsOf(v, S))
  OBVIOUS
<1>2. f \in Seq(AnyFolder) /\ k \in Seq(Keys)
  BY <1>0, <1>1, SortedList
<1>3. FolderList(v, S) = Marked("folder", f) /\ ObjectList(v, S) = Marked("object", k)
  BY <1>1 DEF FolderList, ObjectList
<1>4. /\ FolderList(v, S) \in Seq({"folder"} \X AnyFolder) /\ Len(FolderList(v, S)) = Len(f)
      /\ \A n \in 1 .. Len(f) : FolderList(v, S)[n] = <<"folder", f[n]>>
  <2>1. /\ Marked("folder", f) \in Seq({"folder"} \X AnyFolder) /\ Len(Marked("folder", f)) = Len(f)
        /\ \A n \in 1 .. Len(f) : Marked("folder", f)[n] = <<"folder", f[n]>>
    BY <1>2, MarkedList
  <2> QED BY <1>3, <2>1
<1>5. /\ ObjectList(v, S) \in Seq({"object"} \X Keys) /\ Len(ObjectList(v, S)) = Len(k)
      /\ \A n \in 1 .. Len(k) : ObjectList(v, S)[n] = <<"object", k[n]>>
  <2>1. /\ Marked("object", k) \in Seq({"object"} \X Keys) /\ Len(Marked("object", k)) = Len(k)
        /\ \A n \in 1 .. Len(k) : Marked("object", k)[n] = <<"object", k[n]>>
    BY <1>2, MarkedList
  <2> QED BY <1>3, <2>1
<1>6. {"folder"} \X AnyFolder \subseteq Row /\ {"object"} \X Keys \subseteq Row
  BY DEF Row, AnyFolder
<1>7. FolderList(v, S) \in Seq(Row)
  BY <1>4, <1>6, SeqMonotonic
<1>8. ObjectList(v, S) \in Seq(Row)
  BY <1>5, <1>6, SeqMonotonic
<1> QED BY <1>1, <1>4, <1>5, <1>7, <1>8

\* Folders first, then objects.
LEMMA ListingIsList ==
    ASSUME NEW v, NEW S
    PROVE  /\ Listing(v, S) \in Seq(Row)
           /\ Len(FolderList(v, S)) \in Nat /\ Len(ObjectList(v, S)) \in Nat
           /\ Len(Listing(v, S)) = Len(FolderList(v, S)) + Len(ObjectList(v, S))
           /\ \A n \in 1 .. Len(Listing(v, S)) :
                 Listing(v, S)[n] = IF n <= Len(FolderList(v, S)) THEN FolderList(v, S)[n]
                                    ELSE ObjectList(v, S)[n - Len(FolderList(v, S))]
<1>1. PICK F, O : F = FolderList(v, S) /\ O = ObjectList(v, S)
  OBVIOUS
<1>2. F \in Seq(Row) /\ O \in Seq(Row)
  BY <1>1, PartsOfListing
<1>3. Len(F) \in Nat /\ Len(O) \in Nat
  BY <1>2, LenProperties
<1>4. /\ F \o O \in Seq(Row) /\ Len(F \o O) = Len(F) + Len(O)
      /\ \A n \in 1 .. Len(F) + Len(O) : (F \o O)[n] = IF n <= Len(F) THEN F[n] ELSE O[n - Len(F)]
  BY <1>2, ConcatProperties
<1>5. Listing(v, S) = F \o O
  BY <1>1 DEF Listing
<1> QED BY <1>1, <1>3, <1>4, <1>5

\* What the set of a listing's entries says of its two parts.
LEMMA ListingHas ==
    ASSUME NEW v, NEW S
    PROVE  /\ \A p \in Places(FolderOrder, FoldersOf(v, S)) :
                 <<"folder", FolderOrder[p]>> \in ToSet(Listing(v, S))
           /\ \A p \in Places(KeyOrder, ObjectsOf(v, S)) :
                 <<"object", KeyOrder[p]>> \in ToSet(Listing(v, S))
           /\ \A f : <<"folder", f>> \in ToSet(Listing(v, S)) => f \in FoldersOf(v, S)
           /\ \A k : <<"object", k>> \in ToSet(Listing(v, S)) => k \in ObjectsOf(v, S)
<1>0. KeyOrder \in Seq(Keys) /\ FolderOrder \in Seq(AnyFolder)
  BY ExplorerAssumption DEF AnyFolder
<1>1. PICK f, k : f = Sorted(FolderOrder, FoldersOf(v, S)) /\ k = Sorted(KeyOrder, ObjectsOf(v, S))
  OBVIOUS
<1>2. PICK F, O, L : F = FolderList(v, S) /\ O = ObjectList(v, S) /\ L = Listing(v, S)
  OBVIOUS
<1>3. /\ f \in Seq(AnyFolder) /\ \A n \in 1 .. Len(f) : f[n] \in FoldersOf(v, S)
      /\ \A p \in Places(FolderOrder, FoldersOf(v, S)) :
            \E n \in 1 .. Len(f) : f[n] = FolderOrder[p]
  <2>1. PICK T : T = FoldersOf(v, S)
    OBVIOUS
  <2>2. /\ Sorted(FolderOrder, T) \in Seq(AnyFolder)
        /\ \A n \in 1 .. Len(Sorted(FolderOrder, T)) : Sorted(FolderOrder, T)[n] \in T
        /\ \A p \in Places(FolderOrder, T) :
              \E n \in 1 .. Len(Sorted(FolderOrder, T)) : Sorted(FolderOrder, T)[n] = FolderOrder[p]
    BY <1>0, SortedList
  <2> QED BY <1>1, <2>1, <2>2
<1>4. /\ k \in Seq(Keys) /\ \A n \in 1 .. Len(k) : k[n] \in ObjectsOf(v, S)
      /\ \A p \in Places(KeyOrder, ObjectsOf(v, S)) :
            \E n \in 1 .. Len(k) : k[n] = KeyOrder[p]
  <2>1. PICK T : T = ObjectsOf(v, S)
    OBVIOUS
  <2>2. /\ Sorted(KeyOrder, T) \in Seq(Keys)
        /\ \A n \in 1 .. Len(Sorted(KeyOrder, T)) : Sorted(KeyOrder, T)[n] \in T
        /\ \A p \in Places(KeyOrder, T) :
              \E n \in 1 .. Len(Sorted(KeyOrder, T)) : Sorted(KeyOrder, T)[n] = KeyOrder[p]
    BY <1>0, SortedList
  <2> QED BY <1>1, <2>1, <2>2
<1>5. /\ Len(F) = Len(f) /\ Len(O) = Len(k)
      /\ \A n \in 1 .. Len(F) : F[n] = <<"folder", f[n]>>
      /\ \A n \in 1 .. Len(O) : O[n] = <<"object", k[n]>>
  BY <1>1, <1>2, PartsOfListing
<1>6. /\ L \in Seq(Row) /\ Len(F) \in Nat /\ Len(O) \in Nat /\ Len(L) = Len(F) + Len(O)
      /\ \A n \in 1 .. Len(L) : L[n] = IF n <= Len(F) THEN F[n] ELSE O[n - Len(F)]
  BY <1>2, ListingIsList
<1>7. DOMAIN L = 1 .. Len(L)
  BY <1>6, LenProperties
<1>8. ASSUME NEW n \in 1 .. Len(f) PROVE <<"folder", f[n]>> \in ToSet(L)
  <2>1. n \in 1 .. Len(L) /\ L[n] = <<"folder", f[n]>>
    BY <1>5, <1>6
  <2> QED BY <1>7, <2>1 DEF ToSet
<1>9. ASSUME NEW n \in 1 .. Len(k) PROVE <<"object", k[n]>> \in ToSet(L)
  <2>1. Len(F) + n \in 1 .. Len(L) /\ ~ (Len(F) + n <= Len(F)) /\ (Len(F) + n) - Len(F) = n
    BY <1>5, <1>6
  <2>2. L[Len(F) + n] = O[n]
    BY <1>6, <2>1
  <2>3. L[Len(F) + n] = <<"object", k[n]>>
    BY <1>5, <2>2
  <2> QED BY <1>7, <2>1, <2>3 DEF ToSet
<1>10. ASSUME NEW e \in ToSet(L)
       PROVE  \/ \E n \in 1 .. Len(f) : e = <<"folder", f[n]>>
              \/ \E n \in 1 .. Len(k) : e = <<"object", k[n]>>
  <2>1. PICK n \in 1 .. Len(L) : e = L[n]
    BY <1>7 DEF ToSet
  <2>2. CASE n <= Len(F)
    <3>1. n \in 1 .. Len(f) /\ L[n] = <<"folder", f[n]>>
      BY <1>5, <1>6, <2>2
    <3> QED BY <2>1, <3>1
  <2>3. CASE ~ (n <= Len(F))
    <3>1. n - Len(F) \in 1 .. Len(k)
      BY <1>5, <1>6, <2>3
    <3>2. L[n] = O[n - Len(F)]
      BY <1>6, <2>3
    <3>3. L[n] = <<"object", k[n - Len(F)]>>
      BY <1>5, <3>1, <3>2
    <3> QED BY <2>1, <3>1, <3>3
  <2> QED BY <2>2, <2>3
<1>11. ASSUME NEW g, <<"folder", g>> \in ToSet(L) PROVE g \in FoldersOf(v, S)
  BY <1>3, <1>10, <1>11
<1>12. ASSUME NEW g, <<"object", g>> \in ToSet(L) PROVE g \in ObjectsOf(v, S)
  BY <1>4, <1>10, <1>12
<1> QED BY <1>2, <1>3, <1>4, <1>8, <1>9, <1>11, <1>12

\* A bucket with all the entries of another has them at all their places.
LEMMA PlacesGrow ==
    ASSUME NEW v, NEW S, NEW T, ToSet(Listing(v, S)) \subseteq ToSet(Listing(v, T))
    PROVE  /\ Places(FolderOrder, FoldersOf(v, S)) \subseteq Places(FolderOrder, FoldersOf(v, T))
           /\ Places(KeyOrder, ObjectsOf(v, S)) \subseteq Places(KeyOrder, ObjectsOf(v, T))
<1>1. ASSUME NEW p \in Places(FolderOrder, FoldersOf(v, S))
      PROVE  p \in Places(FolderOrder, FoldersOf(v, T))
  <2>1. p \in DOMAIN FolderOrder
    BY DEF Places
  <2>2. <<"folder", FolderOrder[p]>> \in ToSet(Listing(v, T))
    BY ListingHas
  <2>3. FolderOrder[p] \in FoldersOf(v, T)
    BY <2>2, ListingHas
  <2> QED BY <2>1, <2>3 DEF Places
<1>2. ASSUME NEW p \in Places(KeyOrder, ObjectsOf(v, S))
      PROVE  p \in Places(KeyOrder, ObjectsOf(v, T))
  <2>1. p \in DOMAIN KeyOrder
    BY DEF Places
  <2>2. <<"object", KeyOrder[p]>> \in ToSet(Listing(v, T))
    BY ListingHas
  <2>3. KeyOrder[p] \in ObjectsOf(v, T)
    BY <2>2, ListingHas
  <2> QED BY <2>1, <2>3 DEF Places
<1> QED BY <1>1, <1>2

\* The entries determine the listing.
LEMMA SameEntries ==
    ASSUME NEW v, NEW S, NEW T, ToSet(Listing(v, S)) = ToSet(Listing(v, T))
    PROVE  Listing(v, S) = Listing(v, T)
<1>a. /\ Places(FolderOrder, FoldersOf(v, S)) \subseteq Places(FolderOrder, FoldersOf(v, T))
      /\ Places(KeyOrder, ObjectsOf(v, S)) \subseteq Places(KeyOrder, ObjectsOf(v, T))
  <2>1. ToSet(Listing(v, S)) \subseteq ToSet(Listing(v, T))
    OBVIOUS
  <2> QED BY <2>1, PlacesGrow
<1>b. /\ Places(FolderOrder, FoldersOf(v, T)) \subseteq Places(FolderOrder, FoldersOf(v, S))
      /\ Places(KeyOrder, ObjectsOf(v, T)) \subseteq Places(KeyOrder, ObjectsOf(v, S))
  <2>1. ToSet(Listing(v, T)) \subseteq ToSet(Listing(v, S))
    OBVIOUS
  <2> QED BY <2>1, PlacesGrow
<1>1. /\ Places(FolderOrder, FoldersOf(v, S)) = Places(FolderOrder, FoldersOf(v, T))
      /\ Places(KeyOrder, ObjectsOf(v, S)) = Places(KeyOrder, ObjectsOf(v, T))
  BY <1>a, <1>b
<1>2. /\ Sorted(FolderOrder, FoldersOf(v, S)) = Sorted(FolderOrder, FoldersOf(v, T))
      /\ Sorted(KeyOrder, ObjectsOf(v, S)) = Sorted(KeyOrder, ObjectsOf(v, T))
  BY <1>1 DEF Sorted
<1> QED BY <1>2 DEF Listing, FolderList, ObjectList

\* When no entry goes, none of the old ones is nearer to the start than before.
LEMMA ListingGrows ==
    ASSUME NEW v, NEW S, NEW T, ToSet(Listing(v, S)) \subseteq ToSet(Listing(v, T))
    PROVE  /\ Len(Listing(v, S)) <= Len(Listing(v, T))
           /\ \A n \in 1 .. Len(Listing(v, T)) : Listing(v, T)[n] \in ToSet(Listing(v, S)) =>
                 \E m \in 1 .. Len(Listing(v, S)) : m <= n /\ Listing(v, S)[m] = Listing(v, T)[n]
<1>0. KeyOrder \in Seq(Keys) /\ FolderOrder \in Seq(AnyFolder)
  BY ExplorerAssumption DEF AnyFolder
<1>1. PICK f, k, g, j : /\ f = Sorted(FolderOrder, FoldersOf(v, S)) /\ k = Sorted(KeyOrder, ObjectsOf(v, S))
                        /\ g = Sorted(FolderOrder, FoldersOf(v, T)) /\ j = Sorted(KeyOrder, ObjectsOf(v, T))
  OBVIOUS
<1>2. PICK F, O, L : F = FolderList(v, S) /\ O = ObjectList(v, S) /\ L = Listing(v, S)
  OBVIOUS
<1>3. PICK G, P, M : G = FolderList(v, T) /\ P = ObjectList(v, T) /\ M = Listing(v, T)
  OBVIOUS
<1>4. /\ Len(f) <= Len(g)
      /\ \A n \in 1 .. Len(g) : g[n] \in FoldersOf(v, S) =>
            \E m \in 1 .. Len(f) : m <= n /\ f[m] = g[n]
  <2>1. PICK X, Y : X = FoldersOf(v, S) /\ Y = FoldersOf(v, T)
    OBVIOUS
  <2>2. Places(FolderOrder, X) \subseteq Places(FolderOrder, Y)
    BY <2>1, PlacesGrow
  <2>3. /\ Len(Sorted(FolderOrder, X)) <= Len(Sorted(FolderOrder, Y))
        /\ \A n \in 1 .. Len(Sorted(FolderOrder, Y)) : Sorted(FolderOrder, Y)[n] \in X =>
              \E m \in 1 .. Len(Sorted(FolderOrder, X)) :
                  m <= n /\ Sorted(FolderOrder, X)[m] = Sorted(FolderOrder, Y)[n]
    BY <1>0, <2>2, SortedGrows
  <2> QED BY <1>1, <2>1, <2>3
<1>5. /\ Len(k) <= Len(j)
      /\ \A n \in 1 .. Len(j) : j[n] \in ObjectsOf(v, S) =>
            \E m \in 1 .. Len(k) : m <= n /\ k[m] = j[n]
  <2>1. PICK X, Y : X = ObjectsOf(v, S) /\ Y = ObjectsOf(v, T)
    OBVIOUS
  <2>2. Places(KeyOrder, X) \subseteq Places(KeyOrder, Y)
    BY <2>1, PlacesGrow
  <2>3. /\ Len(Sorted(KeyOrder, X)) <= Len(Sorted(KeyOrder, Y))
        /\ \A n \in 1 .. Len(Sorted(KeyOrder, Y)) : Sorted(KeyOrder, Y)[n] \in X =>
              \E m \in 1 .. Len(Sorted(KeyOrder, X)) :
                  m <= n /\ Sorted(KeyOrder, X)[m] = Sorted(KeyOrder, Y)[n]
    BY <1>0, <2>2, SortedGrows
  <2> QED BY <1>1, <2>1, <2>3
<1>6. /\ Len(F) = Len(f) /\ Len(O) = Len(k)
      /\ \A n \in 1 .. Len(F) : F[n] = <<"folder", f[n]>>
      /\ \A n \in 1 .. Len(O) : O[n] = <<"object", k[n]>>
  BY <1>1, <1>2, PartsOfListing
<1>7. /\ Len(G) = Len(g) /\ Len(P) = Len(j)
      /\ \A n \in 1 .. Len(G) : G[n] = <<"folder", g[n]>>
      /\ \A n \in 1 .. Len(P) : P[n] = <<"object", j[n]>>
  BY <1>1, <1>3, PartsOfListing
<1>8. /\ Len(F) \in Nat /\ Len(O) \in Nat /\ Len(L) = Len(F) + Len(O)
      /\ \A n \in 1 .. Len(L) : L[n] = IF n <= Len(F) THEN F[n] ELSE O[n - Len(F)]
  BY <1>2, ListingIsList
<1>9. /\ Len(G) \in Nat /\ Len(P) \in Nat /\ Len(M) = Len(G) + Len(P)
      /\ \A n \in 1 .. Len(M) : M[n] = IF n <= Len(G) THEN G[n] ELSE P[n - Len(G)]
  BY <1>3, ListingIsList
<1>10. Len(L) <= Len(M)
  BY <1>4, <1>5, <1>6, <1>7, <1>8, <1>9
<1>11. ASSUME NEW n \in 1 .. Len(M), M[n] \in ToSet(L)
       PROVE  \E m \in 1 .. Len(L) : m <= n /\ L[m] = M[n]
  <2>1. CASE n <= Len(G)
    <3>1. n \in 1 .. Len(g) /\ M[n] = <<"folder", g[n]>>
      BY <1>7, <1>9, <2>1
    <3>2. g[n] \in FoldersOf(v, S)
      BY <1>2, <1>11, <3>1, ListingHas
    <3>3. PICK m \in 1 .. Len(f) : m <= n /\ f[m] = g[n]
      BY <1>4, <3>1, <3>2
    <3>4. m \in 1 .. Len(L) /\ L[m] = <<"folder", f[m]>>
      BY <1>6, <1>8, <3>3
    <3> QED BY <3>1, <3>3, <3>4
  <2>2. CASE ~ (n <= Len(G))
    <3>1. n - Len(G) \in 1 .. Len(j) /\ M[n] = P[n - Len(G)]
      BY <1>7, <1>9, <2>2
    <3>2. M[n] = <<"object", j[n - Len(G)]>>
      BY <1>7, <3>1
    <3>3. j[n - Len(G)] \in ObjectsOf(v, S)
      BY <1>2, <1>11, <3>2, ListingHas
    <3>4. PICK m \in 1 .. Len(k) : m <= n - Len(G) /\ k[m] = j[n - Len(G)]
      BY <1>5, <3>1, <3>3
    <3>5. /\ Len(F) + m \in 1 .. Len(L) /\ ~ (Len(F) + m <= Len(F))
          /\ (Len(F) + m) - Len(F) = m /\ Len(F) + m <= n
      BY <1>4, <1>6, <1>7, <1>8, <1>9, <3>4
    <3>6. L[Len(F) + m] = O[m]
      BY <1>8, <3>5
    <3>7. L[Len(F) + m] = <<"object", k[m]>>
      BY <1>6, <3>4, <3>6
    <3> QED BY <3>2, <3>4, <3>5, <3>7
  <2> QED BY <2>1, <2>2
<1> QED BY <1>2, <1>3, <1>10, <1>11
-----------------------------------------------------------------------------
(***************************************************************************)
(* Pages.                                                                  *)
(***************************************************************************)

\* w has the entries of s that come after the first at ones.
IsWindow(w, s, at) == \A i \in 1 .. Len(w) : w[i] = s[at + i]

\* The part of a list after the first at entries, up to the n-th.
LEMMA Slice ==
    ASSUME NEW R, NEW s \in Seq(R), NEW at \in Nat, NEW n \in Nat, n <= Len(s)
    PROVE  /\ SubSeq(s, at + 1, n) \in Seq(R)
           /\ Len(SubSeq(s, at + 1, n)) = IF at < n THEN n - at ELSE 0
           /\ IsWindow(SubSeq(s, at + 1, n), s, at)
<1>1. at + 1 \in Int /\ n \in Int /\ Len(s) \in Nat
  BY LenProperties
<1>2. \A i \in at + 1 .. n : s[i] \in R
  <2>1. \A i \in at + 1 .. n : i \in 1 .. Len(s)
    BY <1>1
  <2> QED BY <2>1, ElementOfSeq
<1>3. PICK m : m = at + 1
  OBVIOUS
<1>4. /\ SubSeq(s, m, n) \in Seq(R)
      /\ Len(SubSeq(s, m, n)) = IF m <= n THEN n - m + 1 ELSE 0
      /\ \A i \in 1 .. n - m + 1 : SubSeq(s, m, n)[i] = s[m + i - 1]
  BY <1>1, <1>2, <1>3, SubSeqProperties
<1>5. PICK t : t = SubSeq(s, m, n)
  OBVIOUS
<1>6. /\ t \in Seq(R)
      /\ Len(t) = IF m <= n THEN n - m + 1 ELSE 0
      /\ \A i \in 1 .. n - m + 1 : t[i] = s[m + i - 1]
  BY <1>4, <1>5
<1>7. Len(t) = IF at < n THEN n - at ELSE 0
  BY <1>3, <1>6
<1>8. ASSUME NEW i \in 1 .. Len(t) PROVE t[i] = s[at + i]
  <2>1. i \in 1 .. n - m + 1 /\ m + i - 1 = at + i
    BY <1>3, <1>7
  <2> QED BY <1>6, <2>1
<1>9. IsWindow(t, s, at)
  BY <1>8 DEF IsWindow
<1> QED BY <1>3, <1>5, <1>6, <1>7, <1>9

\* A window of one list and then one of a second list is a window of the two
\* together, if the second starts where the first ends.
Adjoin(R, F, O, some, others, whole, at, b) ==
    /\ {F, O, some, others, whole} \subseteq Seq(R) /\ at \in Nat /\ b \in Nat
    /\ Len(whole) = Len(some) + Len(others) /\ at + Len(whole) <= Len(F) + Len(O)
    /\ Len(some) # 0 => at + Len(some) <= Len(F)
    /\ Len(others) # 0 => at + Len(some) = Len(F) + b
    /\ IsWindow(some, F, at) /\ IsWindow(others, O, b) /\ IsWindow(whole, F \o O, at)

LEMMA WindowsJoin ==
    ASSUME NEW R, NEW F, NEW O, NEW some, NEW others, NEW whole, NEW at, NEW b,
           Adjoin(R, F, O, some, others, whole, at, b)
    PROVE  whole = some \o others
<1>a. /\ F \in Seq(R) /\ O \in Seq(R) /\ some \in Seq(R) /\ others \in Seq(R) /\ whole \in Seq(R)
      /\ at \in Nat /\ b \in Nat
  BY DEF Adjoin
<1>0. /\ Len(whole) = Len(some) + Len(others) /\ at + Len(whole) <= Len(F) + Len(O)
      /\ Len(some) # 0 => at + Len(some) <= Len(F)
      /\ Len(others) # 0 => at + Len(some) = Len(F) + b
      /\ IsWindow(some, F, at) /\ IsWindow(others, O, b) /\ IsWindow(whole, F \o O, at)
  BY DEF Adjoin
<1>1. Len(F) \in Nat /\ Len(O) \in Nat /\ Len(some) \in Nat /\ Len(others) \in Nat
  BY <1>a, LenProperties
<1>2. \A i \in 1 .. Len(F) + Len(O) : (F \o O)[i] = IF i <= Len(F) THEN F[i] ELSE O[i - Len(F)]
  BY <1>a, ConcatProperties
<1>3. PICK both : both = some \o others
  OBVIOUS
<1>4. /\ both \in Seq(R) /\ Len(both) = Len(some) + Len(others)
      /\ \A i \in 1 .. Len(some) + Len(others) :
            both[i] = IF i <= Len(some) THEN some[i] ELSE others[i - Len(some)]
  BY <1>a, <1>3, ConcatProperties
<1>5. ASSUME NEW i \in 1 .. Len(whole) PROVE whole[i] = both[i]
  <2>1. at + i \in 1 .. Len(F) + Len(O) /\ i \in 1 .. Len(some) + Len(others)
    BY <1>a, <1>0, <1>1
  <2>2. whole[i] = IF at + i <= Len(F) THEN F[at + i] ELSE O[(at + i) - Len(F)]
    BY <1>0, <1>2, <2>1 DEF IsWindow
  <2>3. both[i] = IF i <= Len(some) THEN some[i] ELSE others[i - Len(some)]
    BY <1>4, <2>1
  <2>4. CASE i <= Len(some)
    <3>1. i \in 1 .. Len(some)
      BY <1>1, <2>4
    <3>2. some[i] = F[at + i]
      BY <1>0, <3>1 DEF IsWindow
    <3>3. Len(some) # 0 => at + Len(some) <= Len(F)
      BY <1>0
    <3>4. at + i <= Len(F)
      BY <1>a, <1>1, <3>1, <3>3
    <3> QED BY <2>2, <2>3, <2>4, <3>2, <3>4
  <2>5. CASE ~ (i <= Len(some))
    <3>1. i - Len(some) \in 1 .. Len(others) /\ Len(others) # 0
      BY <1>1, <2>1, <2>5
    <3>2. others[i - Len(some)] = O[b + (i - Len(some))]
      BY <1>0, <3>1 DEF IsWindow
    <3>3. at + Len(some) = Len(F) + b
      BY <1>0, <3>1
    <3>4. b + (i - Len(some)) = (at + i) - Len(F) /\ ~ (at + i <= Len(F))
      <4>1. PICK m, n : m = Len(some) /\ n = Len(F)
        OBVIOUS
      <4>2. i \in Nat /\ m \in Nat /\ n \in Nat /\ at + m = n + b /\ ~ (i <= m)
        BY <1>a, <1>1, <2>1, <2>5, <3>3, <4>1
      <4>3. b + (i - m) = (at + i) - n /\ ~ (at + i <= n)
        BY <1>a, <4>2
      <4> QED BY <4>1, <4>3
    <3> QED BY <2>2, <2>3, <2>5, <3>2, <3>4
  <2> QED BY <2>4, <2>5
<1>6. whole = both
  BY <1>a, <1>0, <1>4, <1>5, SeqEqual
<1> QED BY <1>3, <1>6

\* The two slices of a page.
SomeOf(F, at, size) == SubSeq(F, at + 1, Least(at + size, Len(F)))
OthersOf(F, O, at, size) ==
    IF at + size <= Len(F) THEN <<>>
    ELSE SubSeq(O, ObjectStart(at, Len(F)) + 1, Least((at + size) - Len(F), Len(O)))

BothOf(F, O, at, size) == SomeOf(F, at, size) \o OthersOf(F, O, at, size)

\* page_folder_object_lists cuts the folders and the objects each at an offset
\* of its own: together that is one window of the whole listing.
LEMMA PageOfLists ==
    ASSUME NEW R, NEW F \in Seq(R), NEW O \in Seq(R), NEW at \in Nat, NEW size \in Nat
    PROVE  /\ BothOf(F, O, at, size) \in Seq(R)
           /\ at <= Len(F \o O) =>
                /\ BothOf(F, O, at, size) = SubSeq(F \o O, at + 1, Least(at + size, Len(F \o O)))
                /\ at + Len(BothOf(F, O, at, size)) = Least(at + size, Len(F \o O))
           /\ at > Len(F \o O) => Len(BothOf(F, O, at, size)) = 0
<1>1. Len(F) \in Nat /\ Len(O) \in Nat
  BY LenProperties
<1>2. F \o O \in Seq(R) /\ Len(F \o O) = Len(F) + Len(O)
  BY ConcatProperties
<1>3. PICK p : p = Least(at + size, Len(F))
  OBVIOUS
<1>4. p \in Nat /\ p <= Len(F) /\ p <= at + size /\ (p = Len(F) \/ p = at + size)
  BY <1>1, <1>3 DEF Least
<1>a. PICK some : some = SubSeq(F, at + 1, p)
  OBVIOUS
<1>5. /\ some \in Seq(R)
      /\ Len(some) = IF at < p THEN p - at ELSE 0
      /\ IsWindow(some, F, at)
  BY <1>4, <1>a, Slice
<1>6. PICK b : b = ObjectStart(at, Len(F))
  OBVIOUS
<1>7. b \in Nat /\ b = IF at <= Len(F) THEN 0 ELSE at - Len(F)
  BY <1>1, <1>6 DEF ObjectStart
<1>8. PICK q : q = IF at + size <= Len(F) THEN 0 ELSE Least((at + size) - Len(F), Len(O))
  OBVIOUS
<1>9. /\ q \in Nat /\ q <= Len(O)
      /\ at + size <= Len(F) => q = 0
      /\ at + size > Len(F) => q <= (at + size) - Len(F) /\ (q = Len(O) \/ q = (at + size) - Len(F))
  BY <1>1, <1>8 DEF Least
<1>b. PICK others : others = IF at + size <= Len(F) THEN <<>>
                             ELSE SubSeq(O, ObjectStart(at, Len(F)) + 1,
                                         Least((at + size) - Len(F), Len(O)))
  OBVIOUS
<1>10. /\ others \in Seq(R)
       /\ Len(others) = IF b < q THEN q - b ELSE 0
       /\ IsWindow(others, O, b)
  <2>1. CASE at + size <= Len(F)
    <3>1. q = 0 /\ ~ (b < q)
      BY <1>7, <1>9, <2>1
    <3>2. others = <<>>
      BY <1>b, <2>1
    <3>3. others \in Seq(R) /\ Len(others) = 0
      BY <3>2, EmptySeq
    <3>4. IsWindow(others, O, b)
      BY <3>3 DEF IsWindow
    <3> QED BY <3>1, <3>3, <3>4
  <2>2. CASE ~ (at + size <= Len(F))
    <3>1. others = SubSeq(O, b + 1, q)
      BY <1>b, <1>6, <1>8, <2>2
    <3>2. b \in Nat /\ q \in Nat /\ q <= Len(O)
      BY <1>7, <1>9
    <3>3. /\ SubSeq(O, b + 1, q) \in Seq(R)
          /\ Len(SubSeq(O, b + 1, q)) = IF b < q THEN q - b ELSE 0
          /\ IsWindow(SubSeq(O, b + 1, q), O, b)
      BY <3>2, Slice
    <3> QED BY <3>1, <3>3
  <2> QED BY <2>1, <2>2
<1>11. PICK lf, lo, ls, lt : lf = Len(F) /\ lo = Len(O) /\ ls = Len(some) /\ lt = Len(others)
  OBVIOUS
<1>12. /\ lf \in Nat /\ lo \in Nat
       /\ ls = (IF at < p THEN p - at ELSE 0) /\ lt = (IF b < q THEN q - b ELSE 0)
       /\ p \in Nat /\ p <= lf /\ p <= at + size /\ (p = lf \/ p = at + size)
       /\ b \in Nat /\ b = (IF at <= lf THEN 0 ELSE at - lf)
       /\ q \in Nat /\ q <= lo
       /\ at + size <= lf => q = 0
       /\ at + size > lf => q <= (at + size) - lf /\ (q = lo \/ q = (at + size) - lf)
  BY <1>1, <1>4, <1>5, <1>7, <1>9, <1>10, <1>11
<1>13. some \o others \in Seq(R) /\ Len(some \o others) = ls + lt
  BY <1>5, <1>10, <1>11, ConcatProperties
<1>14. ASSUME at <= Len(F \o O)
       PROVE  /\ some \o others = SubSeq(F \o O, at + 1, Least(at + size, Len(F \o O)))
              /\ at + Len(some \o others) = Least(at + size, Len(F \o O))
  <2>1. PICK r : r = Least(at + size, lf + lo)
    OBVIOUS
  <2>2. at <= lf + lo
    BY <1>2, <1>11, <1>14
  <2>3. r \in Nat /\ r <= lf + lo /\ at <= r /\ (r = at + size \/ (r = lf + lo /\ lf + lo < at + size))
    BY <1>12, <2>1, <2>2 DEF Least
  <2>4. at + ls + lt = r
    BY <1>12, <2>2, <2>3
  <2>5. lt # 0 => at + ls = lf + b
    BY <1>12, <2>2, <2>3
  <2>6. ls # 0 => at + ls <= lf
    BY <1>12
  <2>7. Len(F \o O) = lf + lo
    BY <1>2, <1>11
  <2>a. PICK L, whole : L = F \o O /\ whole = SubSeq(L, at + 1, r)
    OBVIOUS
  <2>b. L \in Seq(R) /\ r <= Len(L)
    BY <1>2, <2>3, <2>7, <2>a
  <2>8. /\ whole \in Seq(R)
        /\ Len(whole) = IF at < r THEN r - at ELSE 0
        /\ IsWindow(whole, L, at)
    <3>1. /\ SubSeq(L, at + 1, r) \in Seq(R)
          /\ Len(SubSeq(L, at + 1, r)) = IF at < r THEN r - at ELSE 0
          /\ IsWindow(SubSeq(L, at + 1, r), L, at)
      BY <2>3, <2>b, Slice
    <3> QED BY <2>a, <3>1
  <2>9. Len(whole) = ls + lt /\ at + Len(whole) <= lf + lo
    BY <1>12, <2>3, <2>4, <2>8
  <2>10. whole = some \o others
    <3>1. /\ Len(whole) = Len(some) + Len(others) /\ at + Len(whole) <= Len(F) + Len(O)
          /\ Len(others) # 0 => at + Len(some) = Len(F) + b
          /\ Len(some) # 0 => at + Len(some) <= Len(F)
      BY <1>11, <2>5, <2>6, <2>9
    <3>2. IsWindow(whole, F \o O, at)
      BY <2>8, <2>a
    <3>3. some \in Seq(R) /\ others \in Seq(R) /\ whole \in Seq(R) /\ b \in Nat
      BY <1>5, <1>7, <1>10, <2>8
    <3>4. Adjoin(R, F, O, some, others, whole, at, b)
      BY <1>5, <1>10, <3>1, <3>2, <3>3 DEF Adjoin
    <3> QED BY <3>4, WindowsJoin, Zenon
  <2>11. at + (ls + lt) = r
    <3>1. ls \in Nat /\ lt \in Nat
      BY <1>12
    <3> QED BY <2>4, <3>1
  <2> QED BY <1>13, <2>1, <2>7, <2>a, <2>10, <2>11
<1>15. BothOf(F, O, at, size) = some \o others
  BY <1>a, <1>b, <1>3 DEF BothOf, SomeOf, OthersOf
<1>16. ASSUME at > Len(F \o O) PROVE Len(some \o others) = 0
  <2>1. Len(F \o O) = lf + lo
    BY <1>2, <1>11
  <2>2. ls = 0 /\ lt = 0
    BY <1>12, <1>16, <2>1
  <2> QED BY <1>13, <2>2
<1> QED BY <1>13, <1>14, <1>15, <1>16

\* Whatever the offset, a page has entries of a listing; one within the listing
\* is its next PageSize entries, or those that are left.
LEMMA PageIsList ==
    ASSUME NEW v, NEW S, NEW at \in Nat
    PROVE  /\ Page(v, S, at).entries \in Seq(Row)
           /\ Page(v, S, at).more <=> at + Len(Page(v, S, at).entries) < Len(Listing(v, S))
           /\ at <= Len(Listing(v, S)) =>
                /\ Page(v, S, at).entries =
                      SubSeq(Listing(v, S), at + 1, Least(at + PageSize, Len(Listing(v, S))))
                /\ at + Len(Page(v, S, at).entries) = Least(at + PageSize, Len(Listing(v, S)))
           /\ at > Len(Listing(v, S)) => Len(Page(v, S, at).entries) = 0
<1>1. PICK F, O : F = FolderList(v, S) /\ O = ObjectList(v, S)
  OBVIOUS
<1>a. F \in Seq(Row) /\ O \in Seq(Row)
  BY <1>1, PartsOfListing
<1>b. PageSize \in Nat
  BY ExplorerAssumption
<1>2. F \in Seq(Row) /\ O \in Seq(Row) /\ PageSize \in Nat
  BY <1>a, <1>b
<1>3. PICK L : L = F \o O
  OBVIOUS
<1>4. Listing(v, S) = L /\ Len(L) = Len(F) + Len(O)
  BY <1>1, <1>3, ListingIsList DEF Listing
<1>5. PICK e : e = BothOf(F, O, at, PageSize)
  OBVIOUS
<1>6. /\ e \in Seq(Row)
      /\ at <= Len(L) => /\ e = SubSeq(L, at + 1, Least(at + PageSize, Len(L)))
                         /\ at + Len(e) = Least(at + PageSize, Len(L))
      /\ at > Len(L) => Len(e) = 0
  <2>1. /\ BothOf(F, O, at, PageSize) \in Seq(Row)
        /\ at <= Len(F \o O) =>
             /\ BothOf(F, O, at, PageSize) = SubSeq(F \o O, at + 1, Least(at + PageSize, Len(F \o O)))
             /\ at + Len(BothOf(F, O, at, PageSize)) = Least(at + PageSize, Len(F \o O))
        /\ at > Len(F \o O) => Len(BothOf(F, O, at, PageSize)) = 0
    BY <1>2, PageOfLists
  <2> QED BY <1>3, <1>5, <2>1
<1>7. PICK more : more = (at + Len(e) < Len(F) + Len(O))
  OBVIOUS
<1>8. Page(v, S, at) = [entries |-> e, more |-> more]
  BY <1>1, <1>5, <1>7 DEF Page, BothOf, SomeOf, OthersOf
<1>9. Page(v, S, at).entries = e /\ Page(v, S, at).more = more
  BY <1>8
<1> QED BY <1>4, <1>6, <1>7, <1>9

\* Every entry of a page is one of the listing.
LEMMA PageHas ==
    ASSUME NEW v, NEW S, NEW at \in Nat
    PROVE  \A n \in 1 .. Len(Page(v, S, at).entries) : Page(v, S, at).entries[n] \in ToSet(Listing(v, S))
<1>1. PICK L, e : L = Listing(v, S) /\ e = Page(v, S, at).entries
  OBVIOUS
<1>2. L \in Seq(Row) /\ Len(L) \in Nat /\ DOMAIN L = 1 .. Len(L)
  BY <1>1, ListingIsList, LenProperties
<1>3. PageSize \in Nat
  BY ExplorerAssumption
<1>4. CASE at <= Len(L)
  <2>1. PICK r : r = Least(at + PageSize, Len(L))
    OBVIOUS
  <2>2. r \in Nat /\ r <= Len(L)
    <3>1. PICK m : m = Len(L)
      OBVIOUS
    <3>2. m \in Nat /\ r = Least(at + PageSize, m)
      BY <1>2, <2>1, <3>1
    <3>3. r \in Nat /\ r <= m
      BY <1>3, <3>2 DEF Least
    <3> QED BY <3>1, <3>3
  <2>3. e = SubSeq(L, at + 1, r)
    BY <1>1, <1>4, <2>1, PageIsList
  <2>4. /\ Len(SubSeq(L, at + 1, r)) = IF at < r THEN r - at ELSE 0
        /\ IsWindow(SubSeq(L, at + 1, r), L, at)
    BY <1>2, <2>2, Slice
  <2>5. Len(e) = (IF at < r THEN r - at ELSE 0) /\ IsWindow(e, L, at)
    BY <2>3, <2>4
  <2>6. ASSUME NEW n \in 1 .. Len(e) PROVE e[n] \in ToSet(L)
    <3>1. at + n \in 1 .. Len(L)
      BY <1>2, <2>2, <2>5
    <3>2. e[n] = L[at + n]
      BY <2>5 DEF IsWindow
    <3> QED BY <1>2, <3>1, <3>2 DEF ToSet
  <2> QED BY <1>1, <2>6
<1>5. CASE ~ (at <= Len(L))
  <2>1. Len(e) = 0
    BY <1>1, <1>2, <1>5, PageIsList
  <2> QED BY <1>1, <2>1
<1> QED BY <1>4, <1>5
-----------------------------------------------------------------------------
(***************************************************************************)
(* What belongs to a view.                                                 *)
(***************************************************************************)

\* The start of a key.
LEMMA StartOf ==
    ASSUME NEW k \in Seq(Segments), NEW n \in Nat, n <= Len(k)
    PROVE  /\ SubSeq(k, 1, n) \in Seq(Segments) /\ Len(SubSeq(k, 1, n)) = n
           /\ \A i \in 1 .. n : SubSeq(k, 1, n)[i] = k[i]
<1>1. /\ SubSeq(k, 0 + 1, n) \in Seq(Segments)
      /\ Len(SubSeq(k, 0 + 1, n)) = IF 0 < n THEN n - 0 ELSE 0
      /\ IsWindow(SubSeq(k, 0 + 1, n), k, 0)
  BY Slice
<1>2. 0 + 1 = 1 /\ \A i \in 1 .. n : 0 + i = i
  OBVIOUS
<1>3. /\ SubSeq(k, 1, n) \in Seq(Segments) /\ Len(SubSeq(k, 1, n)) = n
      /\ IsWindow(SubSeq(k, 1, n), k, 0)
  BY <1>1, <1>2
<1> QED BY <1>2, <1>3 DEF IsWindow

\* The folders of a level are one segment longer than it, and under it.
LEMMA LevelFolderInPlace ==
    ASSUME NEW p \in Seq(Segments), NEW k \in Keys, Under(p, k), Len(k) > Len(p) + 1
    PROVE  Len(SubSeq(k, 1, Len(p) + 1)) = Len(p) + 1 /\ Under(p, SubSeq(k, 1, Len(p) + 1))
<1>1. k \in Seq(Segments) /\ Len(k) \in Nat /\ Len(p) \in Nat
  BY PathsAssumption, LenProperties
<1>2. PICK f : f = SubSeq(k, 1, Len(p) + 1)
  OBVIOUS
<1>3. Len(p) + 1 \in Nat /\ Len(p) + 1 <= Len(k) /\ Len(p) <= Len(k) /\ Len(p) < Len(p) + 1
  BY <1>1
<1>4. f \in Seq(Segments) /\ Len(f) = Len(p) + 1 /\ \A i \in 1 .. Len(p) + 1 : f[i] = k[i]
  BY <1>1, <1>2, <1>3, StartOf
<1>5. PICK g, h : g = SubSeq(f, 1, Len(p)) /\ h = SubSeq(k, 1, Len(p))
  OBVIOUS
<1>6. g \in Seq(Segments) /\ Len(g) = Len(p) /\ \A i \in 1 .. Len(p) : g[i] = f[i]
  <2>1. Len(p) <= Len(f)
    BY <1>1, <1>4
  <2> QED BY <1>1, <1>4, <1>5, <2>1, StartOf
<1>7. h \in Seq(Segments) /\ Len(h) = Len(p) /\ \A i \in 1 .. Len(p) : h[i] = k[i]
  BY <1>1, <1>3, <1>5, StartOf
<1>8. \A i \in 1 .. Len(p) : i \in 1 .. Len(p) + 1
  BY <1>1
<1>9. \A i \in 1 .. Len(g) : g[i] = h[i]
  BY <1>4, <1>6, <1>7, <1>8
<1>10. g = h
  BY <1>6, <1>7, <1>9, SeqEqual
<1>11. h = p
  BY <1>5 DEF Under
<1> QED BY <1>2, <1>3, <1>4, <1>5, <1>10, <1>11 DEF Under

\* A marker found by its folder: unless the search is for markers, it is the
\* folder's name that matches.
LEMMA MarkedFolderFound ==
    ASSUME NEW s, NEW k \in Keys, Found(s, k), Leaf(k) = Keep, Fold[s] # Fold[Keep]
    PROVE  Found(s, Front(k))
<1>1. k \in Seq(Segments) /\ k # <<>>
  BY PathsAssumption
<1>2. Len(k) \in Nat \ {0} /\ DOMAIN k = 1 .. Len(k)
  BY <1>1, EmptySeq, LenProperties
<1>3. PICK m : m = Len(k) - 1
  OBVIOUS
<1>4. m \in Nat /\ m <= Len(k)
  BY <1>2, <1>3
<1>5. PICK n \in 1 .. Len(k) : Fold[k[n]] = Fold[s]
  BY <1>2 DEF Found
<1>6. n # Len(k)
  BY <1>5 DEF Leaf
<1>7. n \in 1 .. m
  <2>1. PICK l : l = Len(k)
    OBVIOUS
  <2>2. l \in Nat /\ m = l - 1 /\ n \in 1 .. l /\ n # l
    BY <1>2, <1>3, <1>6, <2>1
  <2> QED BY <2>2
<1>8. PICK f : f = SubSeq(k, 1, m)
  OBVIOUS
<1>9. f \in Seq(Segments) /\ Len(f) = m /\ \A i \in 1 .. m : f[i] = k[i]
  BY <1>1, <1>4, <1>8, StartOf
<1>10. n \in DOMAIN f /\ f[n] = k[n]
  BY <1>7, <1>9, LenProperties
<1>11. Found(s, f)
  BY <1>5, <1>10 DEF Found
<1> QED BY <1>3, <1>8, <1>11 DEF Front

\* A folder that a key lies in is found by its own name.
LEMMA AncestorFound ==
    ASSUME NEW s, NEW k \in Keys, NEW f \in Ancestors(k), Fold[Leaf(f)] = Fold[s]
    PROVE  Found(s, f)
<1>1. k \in Seq(Segments) /\ Len(k) \in Nat
  BY PathsAssumption, LenProperties
<1>2. PICK n \in 1 .. Len(k) - 1 : f = SubSeq(k, 1, n)
  BY DEF Ancestors
<1>3. n \in Nat /\ n >= 1 /\ n <= Len(k)
  BY <1>1, <1>2
<1>4. f \in Seq(Segments) /\ Len(f) = n
  BY <1>1, <1>2, <1>3, StartOf
<1>5. Len(f) \in DOMAIN f
  BY <1>3, <1>4, LenProperties
<1> QED BY <1>5 DEF Found, Leaf

\* Every entry of a listing belongs to the view.
LEMMA EntriesInPlace ==
    ASSUME NEW v \in Views, NEW S \in SUBSET Keys, NEW e \in ToSet(Listing(v, S))
    PROVE  InPlace(v, e)
<1>1. Listing(v, S) \in Seq(Row) /\ DOMAIN Listing(v, S) = 1 .. Len(Listing(v, S))
  BY ListingIsList, LenProperties
<1>2. e \in Row
  BY <1>1, ElementOfSeq DEF ToSet
<1>3. CASE e \in {"folder"} \X AnyFolder
  <2>1. PICK f : e = <<"folder", f>>
    BY <1>3
  <2>2. f \in FoldersOf(v, S)
    BY <2>1, ListingHas
  <2>3. CASE v[1] = "level"
    <3>1. v[2] \in Seq(Segments)
      BY <2>3, ExplorerAssumption
    <3>2. PICK k \in S : Under(v[2], k) /\ Len(k) > Len(v[2]) + 1 /\ f = SubSeq(k, 1, Len(v[2]) + 1)
      BY <2>2, <2>3 DEF FoldersOf, LevelFolders, AtLevel
    <3>3. Len(f) = Len(v[2]) + 1 /\ Under(v[2], f)
      BY <3>1, <3>2, LevelFolderInPlace
    <3> QED BY <2>1, <2>3, <3>3 DEF InPlace
  <2>4. CASE v[1] # "level"
    <3>1. f \in SearchFolders(v[2], S)
      BY <2>2, <2>4 DEF FoldersOf
    <3>2. PICK k \in S : /\ Found(v[2], k)
                         /\ f \in IF Leaf(k) = Keep THEN {Front(k)}
                                  ELSE {g \in Ancestors(k) : Fold[Leaf(g)] = Fold[v[2]]}
      BY <3>1 DEF SearchFolders
    <3>3. CASE Leaf(k) = Keep
      <4>1. f = Front(k)
        BY <3>2, <3>3
      <4>2. Fold[v[2]] # Fold[Keep] => Found(v[2], f)
        BY <3>2, <3>3, <4>1, MarkedFolderFound
      <4> QED BY <2>1, <2>4, <4>2 DEF InPlace
    <3>4. CASE Leaf(k) # Keep
      <4>1. f \in Ancestors(k) /\ Fold[Leaf(f)] = Fold[v[2]]
        BY <3>2, <3>4
      <4>2. Found(v[2], f)
        BY <3>2, <4>1, AncestorFound
      <4> QED BY <2>1, <2>4, <4>2 DEF InPlace
    <3> QED BY <3>3, <3>4
  <2> QED BY <2>3, <2>4
<1>4. CASE e \in {"object"} \X Keys
  <2>1. PICK k : e = <<"object", k>>
    BY <1>4
  <2>2. k \in ObjectsOf(v, S)
    BY <2>1, ListingHas
  <2> QED BY <2>1, <2>2 DEF ObjectsOf, LevelObjects, SearchObjects, AtLevel, InPlace
<1> QED BY <1>2, <1>3, <1>4 DEF Row, AnyFolder
-----------------------------------------------------------------------------
(***************************************************************************)
(* What the screen has of a listing.                                       *)
(***************************************************************************)

\* The rows have the first at entries of the list except for new ones; without
\* new ones they are these entries.
Fits(list, rows, at, new) ==
    /\ at <= Len(list)
    /\ \A n \in 1 .. at : list[n] \in ToSet(rows) \cup new
    /\ new = {} => rows = SubSeq(list, 1, at)

\* Nothing has been asked for yet.
LEMMA FitsEmpty ==
    ASSUME NEW v, NEW S, NEW new
    PROVE  Fits(Listing(v, S), <<>>, 0, new)
<1>1. Listing(v, S) \in Seq(Row) /\ Len(Listing(v, S)) \in Nat
  BY ListingIsList, LenProperties
<1>2. SubSeq(Listing(v, S), 1, 0) = <<>>
  BY SubSeqEmpty
<1>3. 0 <= Len(Listing(v, S)) /\ 1 .. 0 = {}
  BY <1>1
<1> QED BY <1>2, <1>3 DEF Fits

\* Appending a page.
LEMMA ToSetOfConcat ==
    ASSUME NEW s \in Seq(Row), NEW t \in Seq(Row)
    PROVE  ToSet(s) \subseteq ToSet(s \o t) /\ ToSet(t) \subseteq ToSet(s \o t)
<1>1. Len(s) \in Nat /\ Len(t) \in Nat /\ DOMAIN s = 1 .. Len(s) /\ DOMAIN t = 1 .. Len(t)
  BY LenProperties
<1>2. PICK u : u = s \o t
  OBVIOUS
<1>3. /\ u \in Seq(Row) /\ Len(u) = Len(s) + Len(t)
      /\ \A i \in 1 .. Len(s) + Len(t) : u[i] = IF i <= Len(s) THEN s[i] ELSE t[i - Len(s)]
  BY <1>2, ConcatProperties
<1>4. DOMAIN u = 1 .. Len(s) + Len(t)
  BY <1>3, LenProperties
<1>5. PICK l, m : l = Len(s) /\ m = Len(t)
  OBVIOUS
<1>6. ASSUME NEW i \in 1 .. l PROVE s[i] \in ToSet(u)
  <2>1. i \in 1 .. l + m /\ i <= l
    BY <1>1, <1>5
  <2>2. u[i] = s[i]
    BY <1>3, <1>5, <2>1
  <2> QED BY <1>4, <1>5, <2>1, <2>2 DEF ToSet
<1>7. ASSUME NEW i \in 1 .. m PROVE t[i] \in ToSet(u)
  <2>1. l + i \in 1 .. l + m /\ ~ (l + i <= l) /\ (l + i) - l = i
    BY <1>1, <1>5
  <2>2. u[l + i] = t[i]
    BY <1>3, <1>5, <2>1
  <2> QED BY <1>4, <1>5, <2>1, <2>2 DEF ToSet
<1>8. ASSUME NEW x \in ToSet(s) PROVE x \in ToSet(u)
  <2>1. PICK i \in 1 .. l : x = s[i]
    BY <1>1, <1>5 DEF ToSet
  <2> QED BY <1>6, <2>1
<1>9. ASSUME NEW x \in ToSet(t) PROVE x \in ToSet(u)
  <2>1. PICK i \in 1 .. m : x = t[i]
    BY <1>1, <1>5 DEF ToSet
  <2> QED BY <1>7, <2>1
<1> QED BY <1>2, <1>8, <1>9

\* The page at the offset continues the rows.
LEMMA FitsNextPage ==
    ASSUME NEW v, NEW S, NEW rows \in Seq(Row), NEW at \in Nat, NEW new,
           Fits(Listing(v, S), rows, at, new)
    PROVE  Fits(Listing(v, S), rows \o Page(v, S, at).entries,
                at + Len(Page(v, S, at).entries), new)
<1>1. PICK L, e : L = Listing(v, S) /\ e = Page(v, S, at).entries
  OBVIOUS
<1>2. L \in Seq(Row) /\ Len(L) \in Nat
  BY <1>1, ListingIsList, LenProperties
<1>3. /\ at <= Len(L)
      /\ \A n \in 1 .. at : L[n] \in ToSet(rows) \cup new
      /\ new = {} => rows = SubSeq(L, 1, at)
  BY <1>1 DEF Fits
<1>4. PICK r : r = Least(at + PageSize, Len(L))
  OBVIOUS
<1>5. e \in Seq(Row) /\ e = SubSeq(L, at + 1, r) /\ at + Len(e) = r
  BY <1>1, <1>3, <1>4, PageIsList
<1>6. r \in Nat /\ r <= Len(L) /\ at <= r
  <2>1. PICK m : m = Len(L)
    OBVIOUS
  <2>2. m \in Nat /\ r = Least(at + PageSize, m) /\ at <= m
    BY <1>2, <1>3, <1>4, <2>1
  <2>3. PageSize \in Nat
    BY ExplorerAssumption
  <2>4. r \in Nat /\ r <= m /\ at <= r
    BY <2>2, <2>3 DEF Least
  <2> QED BY <2>1, <2>4
<1>7. /\ Len(SubSeq(L, at + 1, r)) = IF at < r THEN r - at ELSE 0
      /\ IsWindow(SubSeq(L, at + 1, r), L, at)
  BY <1>2, <1>6, Slice
<1>8. Len(e) = (IF at < r THEN r - at ELSE 0) /\ IsWindow(e, L, at) /\ DOMAIN e = 1 .. Len(e)
  BY <1>5, <1>7, LenProperties
<1>9. ToSet(rows) \subseteq ToSet(rows \o e) /\ ToSet(e) \subseteq ToSet(rows \o e)
  BY <1>5, ToSetOfConcat
<1>10. ASSUME NEW n \in 1 .. r PROVE L[n] \in ToSet(rows \o e) \cup new
  <2>1. CASE n <= at
    <3>1. n \in 1 .. at
      BY <1>6, <2>1
    <3> QED BY <1>3, <1>9, <3>1
  <2>2. CASE ~ (n <= at)
    <3>1. n - at \in 1 .. Len(e) /\ at + (n - at) = n
      BY <1>6, <1>8, <2>2
    <3>2. e[n - at] = L[n]
      BY <1>8, <3>1 DEF IsWindow
    <3>3. L[n] \in ToSet(e)
      BY <1>8, <3>1, <3>2 DEF ToSet
    <3> QED BY <1>9, <3>3
  <2> QED BY <2>1, <2>2
<1>11. ASSUME new = {} PROVE rows \o e = SubSeq(L, 1, r)
  <2>1. rows = SubSeq(L, 1, at)
    BY <1>3, <1>11
  <2>2. 1 \in 1 .. Len(L) + 1 /\ at \in 1 - 1 .. Len(L) /\ r \in at .. Len(L)
    BY <1>2, <1>3, <1>6
  <2>3. SubSeq(L, 1, at) \o SubSeq(L, at + 1, r) = SubSeq(L, 1, r)
    BY <1>2, <2>2, ConcatAdjacentSubSeq
  <2> QED BY <1>5, <2>1, <2>3
<1>12. Fits(L, rows \o e, r, new)
  BY <1>6, <1>10, <1>11 DEF Fits
<1> QED BY <1>1, <1>5, <1>12

\* When no entry goes from the bucket, the rows still fit, with what has come.
LEMMA FitsGrows ==
    ASSUME NEW v, NEW S, NEW T, ToSet(Listing(v, S)) \subseteq ToSet(Listing(v, T)),
           NEW rows, NEW at \in Nat, NEW new, Fits(Listing(v, S), rows, at, new)
    PROVE  Fits(Listing(v, T), rows, at, new \cup (ToSet(Listing(v, T)) \ ToSet(Listing(v, S))))
<1>1. PICK L, M : L = Listing(v, S) /\ M = Listing(v, T)
  OBVIOUS
<1>2. /\ Len(L) \in Nat /\ Len(M) \in Nat
      /\ DOMAIN M = 1 .. Len(M)
  BY <1>1, ListingIsList, LenProperties
<1>3. /\ Len(L) <= Len(M)
      /\ \A n \in 1 .. Len(M) : M[n] \in ToSet(L) => \E m \in 1 .. Len(L) : m <= n /\ L[m] = M[n]
  BY <1>1, ListingGrows
<1>4. /\ at <= Len(L)
      /\ \A n \in 1 .. at : L[n] \in ToSet(rows) \cup new
      /\ new = {} => rows = SubSeq(L, 1, at)
  BY <1>1 DEF Fits
<1>5. PICK more : more = new \cup (ToSet(M) \ ToSet(L))
  OBVIOUS
<1>6. ASSUME NEW n \in 1 .. at PROVE M[n] \in ToSet(rows) \cup more
  <2>1. n \in 1 .. Len(M)
    BY <1>2, <1>3, <1>4
  <2>2. M[n] \in ToSet(M)
    BY <1>2, <2>1 DEF ToSet
  <2>3. CASE M[n] \in ToSet(L)
    <3>1. PICK m \in 1 .. Len(L) : m <= n /\ L[m] = M[n]
      BY <1>3, <2>1, <2>3
    <3>2. m \in 1 .. at
      BY <1>2, <3>1
    <3>3. L[m] \in ToSet(rows) \cup new
      BY <1>4, <3>2
    <3> QED BY <1>5, <3>1, <3>3
  <2>4. CASE M[n] \notin ToSet(L)
    BY <1>5, <2>2, <2>4
  <2> QED BY <2>3, <2>4
<1>7. ASSUME more = {} PROVE rows = SubSeq(M, 1, at)
  <2>1. new = {} /\ ToSet(L) = ToSet(M)
    BY <1>1, <1>5, <1>7
  <2>2. L = M
    BY <1>1, <2>1, SameEntries
  <2> QED BY <1>4, <2>1, <2>2
<1>8. at <= Len(M)
  BY <1>2, <1>3, <1>4
<1>9. Fits(M, rows, at, more)
  BY <1>6, <1>7, <1>8 DEF Fits
<1> QED BY <1>1, <1>5, <1>9
-----------------------------------------------------------------------------
(***************************************************************************)
(* Types.                                                                  *)
(***************************************************************************)

\* Entries of a listing are rows.
LEMMA EntriesAreRows ==
    ASSUME NEW v \in Views, NEW S \in SUBSET Keys
    PROVE  Entries[v][S] = ToSet(Listing(v, S)) /\ Entries[v][S] \subseteq Row
<1>1. Entries[v][S] = ToSet(Listing(v, S))
  BY DEF Entries
<1>2. Listing(v, S) \in Seq(Row) /\ DOMAIN Listing(v, S) = 1 .. Len(Listing(v, S))
  BY ListingIsList, LenProperties
<1>3. \A e \in ToSet(Listing(v, S)) : e \in Row
  BY <1>2, ElementOfSeq DEF ToSet
<1> QED BY <1>1, <1>3

\* The answer to a request.
LEMMA AnswerType ==
    ASSUME NEW call \in Requests, NEW S
    PROVE  /\ Answered(call, Page(call.view, S, call.at)) \in Answers
           /\ Answered(call, Page(call.view, S, call.at)).append = call.append
           /\ Answered(call, Page(call.view, S, call.at)).entries = Page(call.view, S, call.at).entries
           /\ Answered(call, Page(call.view, S, call.at)).more <=>
                 call.at + Len(Page(call.view, S, call.at).entries) < Len(Listing(call.view, S))
<1>1. call.at \in Nat /\ call.append \in BOOLEAN
  BY DEF Requests
<1>2. PICK page : page = Page(call.view, S, call.at)
  OBVIOUS
<1>3. page.entries \in Seq(Row)
  BY <1>1, <1>2, PageIsList
<1>4. page.more <=> call.at + Len(page.entries) < Len(Listing(call.view, S))
  BY <1>1, <1>2, PageIsList
<1>5. page.more \in BOOLEAN
  BY <1>2 DEF Page
<1>6. PICK answer : answer = Answered(call, page)
  OBVIOUS
<1>7. answer = [step |-> "answered", append |-> call.append, entries |-> page.entries, more |-> page.more]
  BY <1>6 DEF Answered
<1>8. answer \in Answers
  BY <1>1, <1>3, <1>5, <1>7 DEF Answers
<1>9. answer.append = call.append /\ answer.entries = page.entries /\ answer.more = page.more
  BY <1>7
<1> QED BY <1>2, <1>4, <1>6, <1>8, <1>9

\* The three kinds of slots.
LEMMA SlotKinds ==
    ASSUME TypeOK, NEW c \in Calls
    PROVE  /\ calls[c] = Idle => calls[c].step = "idle"
           /\ calls[c].step = "sent" => calls[c] \in Requests /\ calls[c] # Idle
           /\ calls[c].step = "answered" => calls[c] \in Answers /\ calls[c] # Idle
  BY DEF TypeOK, Idle, Requests, Answers

LEMMA StepTypes ==
    ASSUME TypeOK, [Next]_vars
    PROVE  TypeOK'
<1> USE DEF TypeOK
<1>1. ASSUME NEW c \in Calls, NEW v \in Views, Refresh(c, v) PROVE TypeOK'
  <2>1. Sent(v, FALSE, 0) \in Requests
    BY DEF Sent, Requests
  <2>2. <<>> \in Seq(Row)
    BY EmptySeq
  <2> QED BY <1>1, <2>1, <2>2 DEF Refresh
<1>2. ASSUME NEW c \in Calls, LoadMore(c) PROVE TypeOK'
  <2>1. Sent(view, TRUE, offset) \in Requests
    BY DEF Sent, Requests
  <2> QED BY <1>2, <2>1 DEF LoadMore, history
<1>3. ASSUME NEW c \in Calls, Serve(c) PROVE TypeOK'
  <2>1. calls[c] \in Requests
    BY <1>3, SlotKinds DEF Serve
  <2>2. PICK answer : answer = Answered(calls[c], Page(calls[c].view, live, calls[c].at))
    OBVIOUS
  <2>3. answer \in Answers
    BY <2>1, <2>2, AnswerType
  <2>4. calls' = [calls EXCEPT ![c] = answer]
    BY <1>3, <2>2 DEF Serve
  <2> QED BY <1>3, <2>3, <2>4 DEF Serve, history
<1>4. ASSUME NEW c \in Calls, Receive(c) PROVE TypeOK'
  <2>1. calls[c] \in Answers
    BY <1>4, SlotKinds DEF Receive
  <2>2. calls[c].entries \in Seq(Row) /\ calls[c].append \in BOOLEAN /\ calls[c].more \in BOOLEAN
    BY <2>1 DEF Answers
  <2>3. shown \o calls[c].entries \in Seq(Row) /\ Len(calls[c].entries) \in Nat
    BY <2>2, ConcatProperties, LenProperties
  <2>4. Advance(calls[c]) \in Nat
    <3>1. PICK m : m = Len(calls[c].entries)
      OBVIOUS
    <3>2. offset \in Nat /\ m \in Nat
      BY <2>3, <3>1
    <3>3. Advance(calls[c]) = IF calls[c].append THEN offset + m ELSE 0 + m
      BY <3>1 DEF Advance
    <3> HIDE DEF TypeOK
    <3> QED BY <3>2, <3>3
  <2> QED BY <1>4, <2>2, <2>3, <2>4 DEF Receive
<1>5. ASSUME NEW c \in Calls, Fail(c) PROVE TypeOK'
  BY <1>5 DEF Fail, history
<1>6. ASSUME NEW S \in SUBSET Keys, Change(S) PROVE TypeOK'
  <2>1. Entries[view][S] \subseteq Row
    BY EntriesAreRows
  <2>2. left' \in BOOLEAN /\ came' \subseteq Row
    BY <1>6, <2>1 DEF Change
  <2> QED BY <1>6, <2>2 DEF Change, client
<1>7. CASE UNCHANGED vars
  BY <1>7 DEF vars
<1> QED BY <1>1, <1>2, <1>3, <1>4, <1>5, <1>6, <1>7 DEF Next
-----------------------------------------------------------------------------
(***************************************************************************)
(* The inductive invariant.                                                *)
(***************************************************************************)

\* The screen, as long as no entry has gone from the bucket.
ScreenOK ==
    ~ left => /\ Fits(Listing(view, live), shown, offset, came)
              /\ ~ failed /\ came = {} => (hasMore <=> offset < Len(Listing(view, live)))

\* What is on its way is the only call and belongs to this listing.
OnlyCall(c) ==
    calls[c] # Idle => /\ loading
                       /\ calls[c].append <=> ~ failed
                       /\ \A d \in Calls : calls[d] # Idle => d = c

RequestOK(c) == calls[c].step = "sent" => calls[c].view = view /\ calls[c].at = offset

\* An answer continues the screen.
AnswerInPlace(c) ==
    calls[c].step = "answered" =>
        \A n \in 1 .. Len(calls[c].entries) : InPlace(view, calls[c].entries[n])
AnswerOK(c) ==
    calls[c].step = "answered" /\ ~ left =>
        /\ Fits(Listing(view, live), shown \o calls[c].entries,
                offset + Len(calls[c].entries), came)
        /\ came = {} =>
              (calls[c].more <=> offset + Len(calls[c].entries) < Len(Listing(view, live)))

NothingYet == failed => shown = <<>> /\ offset = 0 /\ ~ hasMore

ScreenInPlace == \A n \in 1 .. Len(shown) : InPlace(view, shown[n])

\* As long as no earlier call can still be answered.
EInv == ~ overtaken =>
    /\ NothingYet /\ ScreenInPlace /\ ScreenOK
    /\ \A c \in Calls : OnlyCall(c) /\ RequestOK(c) /\ AnswerInPlace(c) /\ AnswerOK(c)

LEMMA InitInv ==
    ASSUME Init
    PROVE  TypeOK /\ EInv
<1>1. TypeOK
  <2>1. <<>> \in Seq(Row)
    BY EmptySeq
  <2> QED BY <2>1 DEF Init, TypeOK
<1>2. Fits(Listing(view, live), shown, offset, came)
  BY FitsEmpty DEF Init
<1>3. \A c \in Calls : calls[c] = Idle /\ calls[c].step = "idle"
  BY DEF Init, Idle
<1>4. ScreenInPlace
  <2>1. shown = <<>> /\ Len(shown) = 0
    BY EmptySeq DEF Init
  <2> QED BY <2>1 DEF ScreenInPlace
<1>5. \A c \in Calls : OnlyCall(c) /\ RequestOK(c) /\ AnswerInPlace(c) /\ AnswerOK(c)
  BY <1>3 DEF OnlyCall, RequestOK, AnswerInPlace, AnswerOK
<1>6. NothingYet /\ ScreenOK
  BY <1>2 DEF Init, NothingYet, ScreenOK
<1> QED BY <1>1, <1>4, <1>5, <1>6 DEF EInv

\* Refresh: the listing starts again.
LEMMA RefreshInv ==
    ASSUME TypeOK, NEW c \in Calls, NEW v \in Views, Refresh(c, v)
    PROVE  EInv'
<1> SUFFICES ASSUME ~ overtaken' PROVE EInv'
  BY DEF EInv
<1>1. \A d \in Calls : calls[d] = Idle
  BY DEF Refresh, InFlight
<1>2. /\ calls'[c] = Sent(v, FALSE, 0) /\ \A d \in Calls : d # c => calls'[d] = Idle
      /\ view' = v /\ shown' = <<>> /\ offset' = 0 /\ ~ hasMore' /\ loading' /\ failed' /\ came' = {}
  BY <1>1 DEF Refresh, TypeOK
<1>3. /\ calls'[c].step = "sent" /\ calls'[c].view = v /\ calls'[c].at = 0 /\ ~ calls'[c].append
      /\ \A d \in Calls : d # c => calls'[d].step = "idle"
  BY <1>2 DEF Sent, Idle
<1>4. Fits(Listing(view', live'), shown', offset', came')
  BY <1>2, FitsEmpty
<1>5. Len(shown') = 0
  BY <1>2, EmptySeq
<1>6. NothingYet' /\ ScreenInPlace' /\ ScreenOK'
  BY <1>2, <1>4, <1>5 DEF NothingYet, ScreenInPlace, ScreenOK
<1>7. ASSUME NEW d \in Calls PROVE (OnlyCall(d) /\ RequestOK(d) /\ AnswerInPlace(d) /\ AnswerOK(d))'
  BY <1>2, <1>3 DEF OnlyCall, RequestOK, AnswerInPlace, AnswerOK
<1> QED BY <1>6, <1>7 DEF EInv

\* LoadMore: there is a screen, and nothing else on its way.
LEMMA LoadMoreInv ==
    ASSUME TypeOK, EInv, NEW c \in Calls, LoadMore(c)
    PROVE  EInv'
<1> SUFFICES ASSUME ~ overtaken' PROVE EInv'
  BY DEF EInv
<1>0. UNCHANGED <<live, view, shown, offset, hasMore, overtaken, failed, came, left>>
  BY DEF LoadMore, history
<1>1. /\ NothingYet /\ ScreenInPlace /\ ScreenOK
      /\ \A d \in Calls : OnlyCall(d) /\ RequestOK(d) /\ AnswerInPlace(d) /\ AnswerOK(d)
  BY <1>0 DEF EInv
<1>2. ~ loading /\ hasMore /\ ~ failed
  BY <1>1 DEF LoadMore, MayLoadMore, NothingYet
<1>3. \A d \in Calls : calls[d] = Idle
  BY <1>1, <1>2 DEF OnlyCall
<1>4. calls'[c] = Sent(view, TRUE, offset) /\ loading' /\ \A d \in Calls : d # c => calls'[d] = Idle
  BY <1>3 DEF LoadMore, TypeOK
<1>5. /\ calls'[c].step = "sent" /\ calls'[c].view = view /\ calls'[c].at = offset /\ calls'[c].append
      /\ \A d \in Calls : d # c => calls'[d].step = "idle"
  BY <1>4 DEF Sent, Idle
<1>6. NothingYet' /\ ScreenInPlace' /\ ScreenOK'
  BY <1>0, <1>1 DEF NothingYet, ScreenInPlace, ScreenOK
<1>7. ASSUME NEW d \in Calls PROVE (OnlyCall(d) /\ RequestOK(d) /\ AnswerInPlace(d) /\ AnswerOK(d))'
  BY <1>0, <1>2, <1>4, <1>5 DEF OnlyCall, RequestOK, AnswerInPlace, AnswerOK
<1> QED BY <1>6, <1>7 DEF EInv

\* Serve: the page at the offset, of the listing as it is now.
LEMMA ServeInv ==
    ASSUME TypeOK, EInv, NEW c \in Calls, Serve(c)
    PROVE  EInv'
<1> SUFFICES ASSUME ~ overtaken' PROVE EInv'
  BY DEF EInv
<1>0. UNCHANGED <<live, view, shown, offset, hasMore, loading, overtaken, failed, came, left>>
  BY DEF Serve, history
<1>1. /\ NothingYet /\ ScreenInPlace /\ ScreenOK
      /\ \A d \in Calls : OnlyCall(d) /\ RequestOK(d) /\ AnswerInPlace(d) /\ AnswerOK(d)
  BY <1>0 DEF EInv
<1>2. calls[c] \in Requests /\ calls[c] # Idle /\ calls[c].view = view /\ calls[c].at = offset
  BY <1>1, SlotKinds DEF Serve, RequestOK
<1>3. /\ live \in SUBSET Keys /\ view \in Views /\ shown \in Seq(Row) /\ offset \in Nat
  BY DEF TypeOK
<1>4. PICK page : page = Page(view, live, offset)
  OBVIOUS
<1>5. PICK answer : answer = Answered(calls[c], page)
  OBVIOUS
<1>6. /\ answer \in Answers /\ answer.append = calls[c].append /\ answer.entries = page.entries
      /\ answer.more <=> offset + Len(page.entries) < Len(Listing(view, live))
  BY <1>2, <1>4, <1>5, AnswerType
<1>7. calls'[c] = answer /\ \A d \in Calls : d # c => calls'[d] = calls[d]
  BY <1>2, <1>4, <1>5 DEF Serve, TypeOK
<1>8. calls'[c].step = "answered" /\ calls'[c] # Idle
  BY <1>6, <1>7 DEF Answers, Idle
<1>9. \A d \in Calls : d # c => calls[d] = Idle /\ calls[d].step = "idle"
  BY <1>1, <1>2, SlotKinds DEF OnlyCall
<1>10. \A n \in 1 .. Len(page.entries) : InPlace(view, page.entries[n])
  <2>1. \A n \in 1 .. Len(page.entries) : page.entries[n] \in ToSet(Listing(view, live))
    BY <1>3, <1>4, PageHas
  <2> QED BY <1>3, <2>1, EntriesInPlace
<1>11. ~ left => Fits(Listing(view, live), shown \o page.entries, offset + Len(page.entries), came)
  <2>1. ~ left => Fits(Listing(view, live), shown, offset, came)
    BY <1>1 DEF ScreenOK
  <2> QED BY <1>3, <1>4, <2>1, FitsNextPage
<1>12. NothingYet' /\ ScreenInPlace' /\ ScreenOK'
  BY <1>0, <1>1 DEF NothingYet, ScreenInPlace, ScreenOK
<1>13. OnlyCall(c)' /\ RequestOK(c)'
  BY <1>0, <1>1, <1>2, <1>6, <1>7, <1>8, <1>9 DEF OnlyCall, RequestOK
<1>14. AnswerInPlace(c)'
  BY <1>0, <1>6, <1>7, <1>10 DEF AnswerInPlace
<1>15. AnswerOK(c)'
  BY <1>0, <1>6, <1>7, <1>11 DEF AnswerOK
<1>16. ASSUME NEW d \in Calls, d # c
       PROVE  (OnlyCall(d) /\ RequestOK(d) /\ AnswerInPlace(d) /\ AnswerOK(d))'
  BY <1>7, <1>9, <1>16 DEF OnlyCall, RequestOK, AnswerInPlace, AnswerOK
<1> QED BY <1>12, <1>13, <1>14, <1>15, <1>16 DEF EInv

\* Receive: the answer is appended, and the offset is behind it.
LEMMA ReceiveInv ==
    ASSUME TypeOK, EInv, NEW c \in Calls, Receive(c)
    PROVE  EInv'
<1> SUFFICES ASSUME ~ overtaken' PROVE EInv'
  BY DEF EInv
<1>0. UNCHANGED <<live, view, overtaken, came, left>>
  BY DEF Receive
<1>1. /\ NothingYet /\ ScreenInPlace /\ ScreenOK
      /\ \A d \in Calls : OnlyCall(d) /\ RequestOK(d) /\ AnswerInPlace(d) /\ AnswerOK(d)
  BY <1>0 DEF EInv
<1>2. calls[c] \in Answers /\ calls[c] # Idle /\ calls[c].step = "answered"
  BY SlotKinds DEF Receive
<1>3. PICK e : e = calls[c].entries
  OBVIOUS
<1>4. e \in Seq(Row) /\ Len(e) \in Nat /\ shown \in Seq(Row) /\ Len(shown) \in Nat /\ offset \in Nat
  BY <1>2, <1>3, LenProperties DEF Answers, TypeOK
<1>5. calls[c].append <=> ~ failed
  BY <1>1, <1>2 DEF OnlyCall
<1>6. offset' = offset + Len(e) /\ ~ failed' /\ shown' = shown \o e /\ hasMore' = calls[c].more
  <2>1. calls[c].append \/ offset = 0
    BY <1>1, <1>5 DEF NothingYet
  <2>2. Advance(calls[c]) = offset + Len(e)
    BY <1>3, <2>1 DEF Advance
  <2> QED BY <1>3, <1>5, <2>2 DEF Receive
<1>7. \A d \in Calls : calls'[d] = Idle /\ calls'[d].step = "idle"
  <2>1. calls'[c] = Idle
    BY DEF Receive, TypeOK
  <2>2. \A d \in Calls : d # c => calls'[d] = calls[d]
    BY DEF Receive, TypeOK
  <2>3. \A d \in Calls : d # c => calls[d] = Idle
    BY <1>1, <1>2 DEF OnlyCall
  <2>4. \A d \in Calls : calls'[d] = Idle
    BY <2>1, <2>2, <2>3
  <2> QED BY <2>4 DEF Idle
<1>8. ScreenInPlace'
  <2>1. \A n \in 1 .. Len(shown) : InPlace(view, shown[n])
    BY <1>1 DEF ScreenInPlace
  <2>2. \A n \in 1 .. Len(e) : InPlace(view, e[n])
    BY <1>1, <1>2, <1>3 DEF AnswerInPlace
  <2>3. PICK u : u = shown \o e
    OBVIOUS
  <2>4. /\ Len(u) = Len(shown) + Len(e)
        /\ \A n \in 1 .. Len(shown) + Len(e) :
              u[n] = IF n <= Len(shown) THEN shown[n] ELSE e[n - Len(shown)]
    BY <1>4, <2>3, ConcatProperties
  <2>5. ASSUME NEW n \in 1 .. Len(u) PROVE InPlace(view, u[n])
    <3>1. CASE n <= Len(shown)
      <4>1. n \in 1 .. Len(shown) /\ n \in 1 .. Len(shown) + Len(e)
        BY <1>4, <2>4, <3>1
      <4>2. u[n] = shown[n]
        BY <2>4, <3>1, <4>1
      <4> QED BY <2>1, <4>1, <4>2
    <3>2. CASE ~ (n <= Len(shown))
      <4>1. n - Len(shown) \in 1 .. Len(e) /\ n \in 1 .. Len(shown) + Len(e)
        BY <1>4, <2>4, <3>2
      <4>2. u[n] = e[n - Len(shown)]
        BY <2>4, <3>2, <4>1
      <4> QED BY <2>2, <4>1, <4>2
    <3> QED BY <3>1, <3>2
  <2> QED BY <1>0, <1>6, <2>3, <2>5 DEF ScreenInPlace
<1>9. ScreenOK'
  <2>1. ~ left => /\ Fits(Listing(view, live), shown \o e, offset + Len(e), came)
                  /\ came = {} => (calls[c].more <=> offset + Len(e) < Len(Listing(view, live)))
    BY <1>1, <1>2, <1>3 DEF AnswerOK
  <2> QED BY <1>0, <1>6, <2>1 DEF ScreenOK
<1>10. NothingYet'
  BY <1>6 DEF NothingYet
<1>11. ASSUME NEW d \in Calls PROVE (OnlyCall(d) /\ RequestOK(d) /\ AnswerInPlace(d) /\ AnswerOK(d))'
  BY <1>7 DEF OnlyCall, RequestOK, AnswerInPlace, AnswerOK
<1> QED BY <1>8, <1>9, <1>10, <1>11 DEF EInv

\* Fail: the screen stays, and the page can be asked for again.
LEMMA FailInv ==
    ASSUME TypeOK, EInv, NEW c \in Calls, Fail(c)
    PROVE  EInv'
<1> SUFFICES ASSUME ~ overtaken' PROVE EInv'
  BY DEF EInv
<1>0. UNCHANGED <<live, view, shown, offset, hasMore, overtaken, failed, came, left>>
  BY DEF Fail, history
<1>1. /\ NothingYet /\ ScreenInPlace /\ ScreenOK
      /\ \A d \in Calls : OnlyCall(d) /\ RequestOK(d) /\ AnswerInPlace(d) /\ AnswerOK(d)
  BY <1>0 DEF EInv
<1>2. \A d \in Calls : calls'[d] = Idle
  <2>1. calls'[c] = Idle /\ \A d \in Calls : d # c => calls'[d] = calls[d]
    BY DEF Fail, TypeOK
  <2>2. \A d \in Calls : d # c => calls[d] = Idle
    BY <1>1 DEF OnlyCall, Fail
  <2> QED BY <2>1, <2>2
<1>3. \A d \in Calls : calls'[d].step = "idle"
  BY <1>2 DEF Idle
<1>4. NothingYet' /\ ScreenInPlace' /\ ScreenOK'
  BY <1>0, <1>1 DEF NothingYet, ScreenInPlace, ScreenOK
<1>5. ASSUME NEW d \in Calls PROVE (OnlyCall(d) /\ RequestOK(d) /\ AnswerInPlace(d) /\ AnswerOK(d))'
  BY <1>2, <1>3 DEF OnlyCall, RequestOK, AnswerInPlace, AnswerOK
<1> QED BY <1>4, <1>5 DEF EInv

\* Change: as long as no entry goes, old ones are only pushed back.
LEMMA ChangeInv ==
    ASSUME TypeOK, EInv, NEW S \in SUBSET Keys, Change(S)
    PROVE  EInv'
<1> SUFFICES ASSUME ~ overtaken' PROVE EInv'
  BY DEF EInv
<1>0. UNCHANGED <<view, shown, offset, hasMore, loading, calls, overtaken, failed>> /\ live' = S
  BY DEF Change, client
<1>1. /\ NothingYet /\ ScreenInPlace /\ ScreenOK
      /\ \A d \in Calls : OnlyCall(d) /\ RequestOK(d) /\ AnswerInPlace(d) /\ AnswerOK(d)
  BY <1>0 DEF EInv
<1>2. live \in SUBSET Keys /\ view \in Views /\ offset \in Nat /\ left \in BOOLEAN
  BY DEF TypeOK
<1>3. PICK L, M : L = Listing(view, live) /\ M = Listing(view, S)
  OBVIOUS
<1>4. Entries[view][live] = ToSet(L) /\ Entries[view][S] = ToSet(M)
  BY <1>2, <1>3, EntriesAreRows
<1>5. ASSUME ~ left'
      PROVE  ~ left /\ ToSet(L) \subseteq ToSet(M) /\ came' = came \cup (ToSet(M) \ ToSet(L))
  <2>1. left' = (left \/ ~ (overtaken \/ ToSet(L) \subseteq ToSet(M)))
    BY <1>4 DEF Change
  <2>2. came' = IF left' \/ overtaken THEN {} ELSE came \cup (ToSet(M) \ ToSet(L))
    BY <1>4 DEF Change
  <2>3. ~ overtaken
    BY <1>0
  <2>4. ~ left /\ ToSet(L) \subseteq ToSet(M)
    BY <1>5, <2>1, <2>3, Zenon
  <2>5. came' = came \cup (ToSet(M) \ ToSet(L))
    BY <1>5, <2>2, <2>3, Zenon
  <2> QED BY <2>4, <2>5
<1>6. ASSUME ~ left', came' = {} PROVE L = M /\ came = {}
  <2>1. came = {} /\ ToSet(L) = ToSet(M)
    BY <1>5, <1>6
  <2> QED BY <1>3, <2>1, SameEntries
<1>7. ASSUME NEW rows, NEW at \in Nat, ~ left', Fits(L, rows, at, came)
      PROVE  Fits(M, rows, at, came')
  BY <1>3, <1>5, <1>7, FitsGrows
<1>8. NothingYet' /\ ScreenInPlace'
  BY <1>0, <1>1 DEF NothingYet, ScreenInPlace
<1>9. ScreenOK'
  <2>1. ASSUME ~ left'
        PROVE  /\ Fits(M, shown, offset, came')
               /\ ~ failed /\ came' = {} => (hasMore <=> offset < Len(M))
    <3>1. /\ Fits(L, shown, offset, came)
          /\ ~ failed /\ came = {} => (hasMore <=> offset < Len(L))
      BY <1>1, <1>3, <1>5, <2>1 DEF ScreenOK
    <3>2. Fits(M, shown, offset, came')
      BY <1>2, <1>7, <2>1, <3>1
    <3>3. came' = {} => L = M /\ came = {}
      BY <1>6, <2>1
    <3> QED BY <3>1, <3>2, <3>3
  <2> QED BY <1>0, <1>3, <2>1 DEF ScreenOK
<1>10. ASSUME NEW c \in Calls PROVE AnswerOK(c)'
  <2>1. ASSUME calls[c].step = "answered", ~ left'
        PROVE  /\ Fits(M, shown \o calls[c].entries, offset + Len(calls[c].entries), came')
               /\ came' = {} => (calls[c].more <=> offset + Len(calls[c].entries) < Len(M))
    <3>1. PICK rows, at : rows = shown \o calls[c].entries /\ at = offset + Len(calls[c].entries)
      OBVIOUS
    <3>2. at \in Nat
      <4>1. calls[c].entries \in Seq(Row)
        BY <2>1, SlotKinds DEF Answers
      <4>2. Len(calls[c].entries) \in Nat
        BY <4>1, LenProperties
      <4> QED BY <1>2, <3>1, <4>2
    <3>3. /\ Fits(L, rows, at, came)
          /\ came = {} => (calls[c].more <=> at < Len(L))
      BY <1>1, <1>3, <1>5, <2>1, <3>1 DEF AnswerOK
    <3>4. Fits(M, rows, at, came')
      BY <1>7, <2>1, <3>2, <3>3
    <3>5. came' = {} => L = M /\ came = {}
      BY <1>6, <2>1
    <3> QED BY <3>1, <3>3, <3>4, <3>5
  <2> QED BY <1>0, <1>3, <2>1 DEF AnswerOK
<1>11. ASSUME NEW c \in Calls PROVE (OnlyCall(c) /\ RequestOK(c) /\ AnswerInPlace(c))'
  BY <1>0, <1>1 DEF OnlyCall, RequestOK, AnswerInPlace
<1> QED BY <1>8, <1>9, <1>10, <1>11 DEF EInv

LEMMA StepInv ==
    ASSUME TypeOK, EInv, [Next]_vars
    PROVE  EInv'
<1>1. CASE UNCHANGED vars
  BY <1>1 DEF vars, EInv, NothingYet, ScreenInPlace, ScreenOK, OnlyCall, RequestOK, AnswerInPlace, AnswerOK
<1> QED BY <1>1, RefreshInv, LoadMoreInv, ServeInv, ReceiveInv, FailInv, ChangeInv DEF Next

LEMMA ExplorerInvariant == Spec => [](TypeOK /\ EInv)
<1>1. Init => TypeOK /\ EInv
  BY InitInv
<1>2. TypeOK /\ EInv /\ [Next]_vars => (TypeOK /\ EInv)'
  BY StepTypes, StepInv
<1> QED BY <1>1, <1>2, PTL DEF Spec
-----------------------------------------------------------------------------
(***************************************************************************)
(* The theorems.                                                           *)
(***************************************************************************)

\* The pages that page_folder_object_lists cuts out of the folders and out of
\* the objects, each with an offset of its own, are those of the one listing
\* that the explorer scrolls through: the page at an offset is the next PageSize
\* entries, or all that are left, and it says that there is more exactly if it
\* does not reach the end.
THEOREM PagingIsSlicing ==
    ASSUME NEW v \in Views, NEW S \in SUBSET Keys, NEW at \in 0 .. Len(Listing(v, S))
    PROVE  LET end == Least(at + PageSize, Len(Listing(v, S)))
           IN /\ Page(v, S, at).entries = SubSeq(Listing(v, S), at + 1, end)
              /\ Page(v, S, at).more <=> end < Len(Listing(v, S))
<1>1. at \in Nat /\ at <= Len(Listing(v, S))
  BY ListingIsList, LenProperties
<1> QED BY <1>1, PageIsList

\* An entry that is in two listings of a view, in the bucket and in the bucket
\* with more in it, is never nearer to the start in the second: what comes while
\* the user scrolls pushes entries back into pages still to come, so that it
\* makes the explorer show one twice and never skip one.
THEOREM ComingOnlyPushesBack ==
    ASSUME NEW v \in Views, NEW S \in SUBSET Keys, NEW T \in SUBSET Keys,
           Entries[v][S] \subseteq Entries[v][T]
    PROVE  \A n \in 1 .. Len(Listing(v, T)) : Listing(v, T)[n] \in Entries[v][S] =>
              \E m \in 1 .. Len(Listing(v, S)) : m <= n /\ Listing(v, S)[m] = Listing(v, T)[n]
<1>1. Entries[v][S] = ToSet(Listing(v, S)) /\ Entries[v][T] = ToSet(Listing(v, T))
  BY EntriesAreRows
<1> QED BY <1>1, ListingGrows

\* The explorer shows entries of the open folder only, unless an answer for the
\* folder before was on its way when it was opened: for any bucket, views, page
\* size and number of calls.
THEOREM ShownBelongs == Spec => []ShownInPlace
<1>1. TypeOK /\ EInv => ShownInPlace
  <2>1. TypeOK => DOMAIN shown = 1 .. Len(shown)
    BY LenProperties DEF TypeOK
  <2> QED BY <2>1 DEF EInv, ScreenInPlace, ShownInPlace
<1> QED BY <1>1, ExplorerInvariant, PTL

\* Scrolling skips nothing as long as no entry goes away, and shows each entry
\* once and in order as long as none comes either; more is offered exactly if
\* there is more, and loading it brings something.
THEOREM ScrollingSkipsNothing == Spec => []ScrollComplete
<1>1. TypeOK /\ EInv => ScrollComplete
  <2> SUFFICES ASSUME TypeOK, EInv, ~ overtaken, ~ failed, ~ left
               PROVE  LET list == Listing(view, live)
                      IN /\ \A n \in 1 .. Least(offset, Len(list)) : list[n] \in ToSet(shown) \cup came
                         /\ came = {} => /\ shown = SubSeq(list, 1, offset)
                                         /\ hasMore <=> offset < Len(list)
                                         /\ hasMore => Page(view, live, offset).entries # <<>>
    BY DEF ScrollComplete
  <2>1. PICK L : L = Listing(view, live)
    OBVIOUS
  <2>2. /\ offset <= Len(L)
        /\ \A n \in 1 .. offset : L[n] \in ToSet(shown) \cup came
        /\ came = {} => shown = SubSeq(L, 1, offset) /\ (hasMore <=> offset < Len(L))
    BY <2>1 DEF EInv, ScreenOK, Fits
  <2>3. Least(offset, Len(L)) = offset
    BY <2>2 DEF Least
  <2>4. ASSUME offset < Len(L) PROVE Page(view, live, offset).entries # <<>>
    <3>1. offset \in Nat /\ PageSize \in Nat \ {0}
      BY ExplorerAssumption DEF TypeOK
    <3>2. PICK e : e = Page(view, live, offset).entries
      OBVIOUS
    <3>3. offset + Len(e) = Least(offset + PageSize, Len(L))
      BY <2>1, <2>2, <3>1, <3>2, PageIsList
    <3>4. offset < Least(offset + PageSize, Len(L))
      BY <2>4, <3>1 DEF Least
    <3>5. Len(e) # 0
      BY <3>1, <3>3, <3>4
    <3> QED BY <3>2, <3>5, EmptySeq
  <2> QED BY <2>1, <2>2, <2>3, <2>4
<1> QED BY <1>1, ExplorerInvariant, PTL
=============================================================================
