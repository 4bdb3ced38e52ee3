----------------------------- MODULE ListingProofs -----------------------------
(***************************************************************************)
(* The properties of Listing, for any number of publications, purchases    *)
(* and users and any size of a page.  The first part is about the order    *)
(* of the records: what Sorted and WindowOf give.                          *)
(***************************************************************************)
EXTENDS Listing, FiniteSetTheorems, SequenceTheorems, TLAPS

\* The rank of a record is a number below the number of the records; in a larger set it
\* is not smaller, and a later record has a larger one.
LEMMA RankIs ==
  ASSUME NEW s \in SUBSET Nat, IsFiniteSet(s), NEW x \in Nat
  PROVE  /\ Rank(s, x) \in Nat /\ Cardinality(s) \in Nat
         /\ x \in s => Rank(s, x) < Cardinality(s)
         /\ \A r \in SUBSET s : Rank(r, x) \in Nat /\ Rank(r, x) <= Rank(s, x)
         /\ \A y \in s : y < x => Rank(s, y) \in Nat /\ Rank(s, y) < Rank(s, x)
<1> DEFINE B(r, z) == {y \in r : y < z}
<1>1. \A r \in SUBSET s, z \in Nat : IsFiniteSet(B(r, z)) /\ Cardinality(B(r, z)) \in Nat
  <2> SUFFICES ASSUME NEW r \in SUBSET s, NEW z \in Nat
               PROVE  IsFiniteSet(B(r, z)) /\ Cardinality(B(r, z)) \in Nat
    OBVIOUS
  <2>1. B(r, z) \in SUBSET s
    OBVIOUS
  <2> HIDE DEF B
  <2> QED BY <2>1, FS_Subset, FS_CardinalityType
<1>2. Cardinality(s) \in Nat
  BY FS_CardinalityType
<1>3. ASSUME NEW a, NEW b, IsFiniteSet(b), a \subseteq b, NEW e \in b, e \notin a
      PROVE  Cardinality(a) < Cardinality(b)
  <2>1. a \in SUBSET b /\ a # b
    BY <1>3
  <2>2. IsFiniteSet(a) /\ Cardinality(a) <= Cardinality(b) /\ (Cardinality(b) = Cardinality(a) => b = a)
    BY <1>3, <2>1, FS_Subset
  <2>3. Cardinality(a) \in Nat /\ Cardinality(b) \in Nat
    BY <1>3, <2>2, FS_CardinalityType
  <2> QED BY <2>1, <2>2, <2>3
<1>4. x \in s => Cardinality(B(s, x)) < Cardinality(s)
  <2> SUFFICES ASSUME x \in s PROVE Cardinality(B(s, x)) < Cardinality(s)
    OBVIOUS
  <2>1. B(s, x) \subseteq s /\ x \notin B(s, x)
    OBVIOUS
  <2> HIDE DEF B
  <2> QED BY <1>3, <2>1
<1>5. ASSUME NEW r \in SUBSET s PROVE Cardinality(B(r, x)) <= Cardinality(B(s, x))
  <2>1. B(r, x) \in SUBSET B(s, x)
    OBVIOUS
  <2> HIDE DEF B
  <2> QED BY <1>1, <2>1, FS_Subset
<1>6. ASSUME NEW y \in s, y < x PROVE Cardinality(B(s, y)) < Cardinality(B(s, x))
  <2>0. \A z \in s : z \in Nat
    OBVIOUS
  <2>1. (\A z \in s : z < y => z < x) /\ y \in Nat /\ ~ (y < y)
    BY <1>6, <2>0
  <2>2. B(s, y) \subseteq B(s, x) /\ y \in B(s, x) /\ y \notin B(s, y)
    BY <1>6, <2>1
  <2> HIDE DEF B
  <2> QED BY <1>1, <1>3, <2>2
<1> QED BY <1>1, <1>2, <1>4, <1>5, <1>6 DEF Rank

\* A finite set of identifiers can be sorted: the ranks are the places.
LEMMA SortedExists ==
  ASSUME NEW s \in SUBSET Nat, IsFiniteSet(s)
  PROVE  \E q \in [1 .. Cardinality(s) -> s] : \A i, j \in DOMAIN q : i < j => q[i] < q[j]
<1> DEFINE n == Cardinality(s)
           f == [x \in s |-> Rank(s, x) + 1]
<1>1. n \in Nat /\ \A x \in s : Rank(s, x) \in Nat /\ Rank(s, x) < n
  BY RankIs
<1>2. \A x, y \in s : y < x => Rank(s, y) < Rank(s, x)
  BY RankIs
<1>3. IsFiniteSet(1 .. n) /\ Cardinality(1 .. n) = n
  BY <1>1, FS_Interval
<1> HIDE DEF n
<1>4. f \in [s -> 1 .. n]
  BY <1>1
<1>5. \A x, y \in s : f[x] < f[y] => x < y
  BY <1>1, <1>2
<1>6. \A x, y \in s : f[x] = f[y] => x = y
  BY <1>1, <1>2
<1>7. f \in Injection(s, 1 .. n)
  BY <1>4, <1>6 DEF Injection, IsInjective
<1>8. f \in Surjection(s, 1 .. n)
  BY <1>3, <1>7, FS_Injection DEF n
<1>9. \A i \in 1 .. n : \E x \in s : f[x] = i
  BY <1>8 DEF Surjection
<1> HIDE DEF f
<1> DEFINE q == [i \in 1 .. n |-> CHOOSE x \in s : f[x] = i]
<1>10. \A i \in 1 .. n : q[i] \in s /\ f[q[i]] = i
  BY <1>9
<1>11. q \in [1 .. n -> s] /\ DOMAIN q = 1 .. n
  BY <1>10
<1> HIDE DEF q
<1>12. \A i, j \in DOMAIN q : i < j => q[i] < q[j]
  BY <1>5, <1>10, <1>11
<1> QED BY <1>11, <1>12 DEF n

\* Sorted gives every record once; at place i stands the one of rank i - 1.
LEMMA SortedIs ==
  ASSUME NEW s \in SUBSET Nat, IsFiniteSet(s)
  PROVE  /\ Cardinality(s) \in Nat
         /\ Sorted(s) \in [1 .. Cardinality(s) -> s]
         /\ \A i, j \in 1 .. Cardinality(s) : i < j => Sorted(s)[i] < Sorted(s)[j]
         /\ \A x \in s : \E i \in 1 .. Cardinality(s) : Sorted(s)[i] = x
         /\ \A i \in 1 .. Cardinality(s) : Rank(s, Sorted(s)[i]) = i - 1
<1> DEFINE n == Cardinality(s)
           q == Sorted(s)
<1>1. n \in Nat /\ IsFiniteSet(1 .. n) /\ Cardinality(1 .. n) = n
  BY FS_CardinalityType, FS_Interval
<1>2. q \in [1 .. n -> s] /\ \A i, j \in DOMAIN q : i < j => q[i] < q[j]
  BY SortedExists DEF Sorted
<1> HIDE DEF n, q
<1>3. \A i, j \in 1 .. n : i < j => q[i] < q[j]
  BY <1>2
<1>4. \A i \in 1 .. n : q[i] \in s /\ q[i] \in Nat
  BY <1>2
<1>5. q \in Injection(1 .. n, s)
  <2>1. \A i, j \in 1 .. n : q[i] = q[j] => i = j
    BY <1>1, <1>3, <1>4
  <2> QED BY <1>2, <2>1 DEF Injection, IsInjective
<1>6. \A x \in s : \E i \in 1 .. n : q[i] = x
  <2>1. q \in Surjection(1 .. n, s)
    BY <1>1, <1>5, FS_Injection DEF n
  <2> QED BY <2>1 DEF Surjection
<1>7. ASSUME NEW i \in 1 .. n PROVE Rank(s, q[i]) = i - 1
  <2> DEFINE B == {y \in s : y < q[i]}
             g == [j \in 1 .. (i - 1) |-> q[j]]
  <2>1. i - 1 \in Nat /\ \A j \in 1 .. (i - 1) : j \in 1 .. n /\ j < i
    BY <1>1
  <2>2. g \in [1 .. (i - 1) -> B]
    BY <1>3, <1>4, <2>1
  <2>3. \A j, l \in 1 .. (i - 1) : g[j] = g[l] => j = l
    BY <1>3, <1>4, <2>1
  <2>4. \A y \in B : \E j \in 1 .. (i - 1) : g[j] = y
    <3> SUFFICES ASSUME NEW y \in B PROVE \E j \in 1 .. (i - 1) : g[j] = y
      OBVIOUS
    <3>1. PICK j \in 1 .. n : q[j] = y
      BY <1>6
    <3>2. j < i
      BY <1>1, <1>3, <1>4, <3>1
    <3>3. j \in 1 .. (i - 1)
      BY <1>1, <3>2
    <3> QED BY <3>1, <3>3
  <2>5. g \in Bijection(1 .. (i - 1), B)
    <3> HIDE DEF g, B
    <3> QED BY <2>2, <2>3, <2>4 DEF Bijection, Injection, Surjection, IsInjective
  <2>6. Cardinality(B) = i - 1
    <3> HIDE DEF g, B
    <3>1. ExistsBijection(1 .. (i - 1), B)
      BY <2>5 DEF ExistsBijection
    <3> QED BY <2>1, <3>1, FS_CountingElements
  <2> QED BY <2>6 DEF Rank
<1> QED BY <1>1, <1>2, <1>3, <1>6, <1>7 DEF n, q

\* window_of: the page has the records from the offset on, up to the limit, in their order.
LEMMA WindowIs ==
  ASSUME NEW s \in SUBSET Nat, IsFiniteSet(s), NEW from \in Nat, NEW limit \in Nat,
         NEW p, p = WindowOf(Sorted(s), from, limit)
  PROVE  /\ p \in Seq(s)
         /\ \A i, j \in DOMAIN p : i < j => p[i] < p[j]
         /\ Elements(p) = Window(s, from, limit)
<1> DEFINE n == Cardinality(s)
           q == Sorted(s)
           to == IF from + limit < n THEN from + limit ELSE n
<1>1. /\ n \in Nat /\ q \in [1 .. n -> s]
      /\ \A i, j \in 1 .. n : i < j => q[i] < q[j]
      /\ \A x \in s : \E i \in 1 .. n : q[i] = x
      /\ \A i \in 1 .. n : Rank(s, q[i]) = i - 1
  BY SortedIs
<1> HIDE DEF n, q
<1>2. q \in Seq(s) /\ Len(q) = n
  BY <1>1
<1>3. p = SubSeq(q, from + 1, to)
  BY <1>2 DEF WindowOf, q
<1>4. to \in Nat /\ to <= n /\ \A i \in (from + 1) .. to : i \in 1 .. n /\ q[i] \in s
  BY <1>1
<1>5. /\ p \in Seq(s)
      /\ Len(p) = IF from + 1 <= to THEN to - from ELSE 0
      /\ \A i \in 1 .. (to - from) : p[i] = q[from + i]
  <2> HIDE DEF to
  <2>1. /\ SubSeq(q, from + 1, to) \in Seq(s)
        /\ Len(SubSeq(q, from + 1, to)) = IF from + 1 <= to THEN to - (from + 1) + 1 ELSE 0
        /\ \A i \in 1 .. (to - (from + 1) + 1) : SubSeq(q, from + 1, to)[i] = q[from + 1 + i - 1]
    BY <1>4, SubSeqProperties
  <2>2. to - (from + 1) + 1 = to - from /\ \A i \in Int : from + 1 + i - 1 = from + i
    BY <1>4
  <2> QED BY <1>3, <1>4, <2>1, <2>2
<1>6. DOMAIN p = 1 .. Len(p) /\ DOMAIN p = 1 .. (to - from)
  <2>1. DOMAIN p = 1 .. Len(p)
    BY <1>5, LenProperties
  <2> HIDE DEF to
  <2> QED BY <1>4, <1>5, <2>1
<1>7. ASSUME NEW i \in DOMAIN p
      PROVE  /\ i \in Nat \ {0} /\ from + i \in 1 .. n /\ from + i <= to
             /\ p[i] = q[from + i] /\ p[i] \in s
             /\ Rank(s, p[i]) = from + i - 1
  <2>1. i \in 1 .. (to - from)
    BY <1>6
  <2>2. i \in Nat \ {0} /\ from + i \in 1 .. n /\ from + i <= to
    BY <1>4, <2>1
  <2> HIDE DEF to
  <2> QED BY <1>1, <1>5, <2>1, <2>2
<1>8. ASSUME NEW i \in DOMAIN p, NEW j \in DOMAIN p, i < j PROVE p[i] < p[j]
  <2>1. from + i < from + j
    BY <1>7, <1>8
  <2> QED BY <1>1, <1>7, <2>1
<1>9. ASSUME NEW i \in DOMAIN p PROVE Rank(s, p[i]) \in from .. (from + limit - 1)
  <2>1. i \in Nat \ {0} /\ from + i <= to /\ Rank(s, p[i]) = from + i - 1
    BY <1>7
  <2>2. to <= from + limit
    BY <1>1
  <2> HIDE DEF to
  <2> QED BY <1>1, <1>4, <2>1, <2>2
<1>10. ASSUME NEW x \in s, Rank(s, x) \in from .. (from + limit - 1)
       PROVE  \E i \in DOMAIN p : p[i] = x
  <2>1. PICK j \in 1 .. n : q[j] = x /\ Rank(s, x) = j - 1
    BY <1>1
  <2>2. j - from \in 1 .. (to - from) /\ from + (j - from) = j
    BY <1>1, <1>10, <2>1
  <2>3. j - from \in DOMAIN p /\ p[j - from] = q[j]
    BY <1>5, <1>6, <2>2
  <2> QED BY <2>1, <2>3
<1>11. Elements(p) = Window(s, from, limit)
  <2>1. \A x \in Elements(p) : x \in Window(s, from, limit)
    BY <1>7, <1>9 DEF Elements, Window
  <2>2. ASSUME NEW x \in Window(s, from, limit) PROVE x \in Elements(p)
    <3>1. x \in s /\ Rank(s, x) \in from .. (from + limit - 1)
      BY <2>2 DEF Window
    <3>2. PICK i \in DOMAIN p : p[i] = x
      BY <1>10, <3>1
    <3> QED BY <3>2 DEF Elements
  <2> QED BY <2>1, <2>2
<1> QED BY <1>5, <1>8, <1>11

--------------------------------------------------------------------------------
(***************************************************************************)
(* The records.                                                            *)
(***************************************************************************)
\* The identifiers are numbers, finitely many.
LEMMA IdsKnown ==
  /\ Pubs \cup Ids \subseteq Nat /\ IsFiniteSet(Pubs \cup Ids)
  /\ \A s \in SUBSET (Pubs \cup Ids) : s \in SUBSET Nat /\ IsFiniteSet(s) /\ Cardinality(s) \in Nat
<1>1. Pubs \cup Ids \subseteq Nat /\ IsFiniteSet(Pubs \cup Ids)
  BY IdsAssumption
<1> QED BY <1>1, FS_Subset, FS_CardinalityType

\* A question has its fields and a limit.
LEMMA AskIs ==
  /\ None \notin Asks
  /\ \A a \in Asks : /\ a.listing \in Listings /\ a.user \in Users
                     /\ Limit(a) \in Nat
<1>1. ASSUME NEW a \in Asks PROVE Limit(a) \in Nat
  <2>1. a.limit \in Limits \cup {None} /\ DefaultPage \in Nat /\ Limits \subseteq Nat
    BY PagesAssumption DEF Asks
  <2> QED BY <2>1 DEF Limit
<1> QED BY <1>1, NoneAssumption DEF Asks

\* What a listing selects among the files, for each of the listings.
LEMMA SelectedIs ==
  ASSUME NEW a \in Asks, NEW files
  PROVE  /\ a.listing \in {"catalog", "author_publications", "purchases"}
         /\ a.listing = "catalog" => Selected(a, files) = files
         /\ a.listing = "author_publications" => Selected(a, files) = {i \in files : pubs[i] = a.user}
         /\ a.listing = "purchases" => Selected(a, files) = {i \in files : purchases[i].user = a.user}
BY DEF Selected, Asks, Listings

LEMMA SelectedGrows ==
  ASSUME NEW a \in Asks, NEW files, NEW more, files \subseteq more
  PROVE  Selected(a, files) \subseteq Selected(a, more) /\ Selected(a, files) \subseteq files
BY SelectedIs

LEMMA FilesIs ==
  ASSUME TypeOK
  PROVE  /\ \A l \in Listings : Files(l) \in SUBSET (Pubs \cup Ids)
         /\ \A i \in Files("purchases") : i \in Ids /\ purchases[i] \in Purchase
         /\ \A l \in Listings \ {"purchases"} : Files(l) \subseteq Pubs
         /\ "purchases" \in Listings
BY DEF Files, TypeOK, Listings

\* The purchases of a publication among those there are.
LEMMA CountIs ==
  ASSUME TypeOK, NEW p \in Pubs
  PROVE  /\ CountOf(p) \in Nat
         /\ CountOf(p) = Cardinality(PurchasesOf(p, Files("purchases")))
         /\ \A files \in SUBSET Files("purchases") :
              Cardinality(PurchasesOf(p, files)) \in Nat /\ Cardinality(PurchasesOf(p, files)) <= CountOf(p)
         /\ \A more \in SUBSET Files("purchases") : \A files \in SUBSET more :
              Cardinality(PurchasesOf(p, files)) <= Cardinality(PurchasesOf(p, more))
<1>1. PurchasesOf(p, Files("purchases")) = {i \in Ids : purchases[i] # None /\ purchases[i].pub = p}
  BY DEF PurchasesOf, Files
<1>2. Files("purchases") \in SUBSET (Pubs \cup Ids)
  BY FilesIs
<1>3. ASSUME NEW more \in SUBSET Files("purchases"), NEW files \in SUBSET more
      PROVE  /\ Cardinality(PurchasesOf(p, files)) \in Nat
             /\ Cardinality(PurchasesOf(p, files)) <= Cardinality(PurchasesOf(p, more))
  <2>1. PurchasesOf(p, files) \in SUBSET PurchasesOf(p, more)
    BY DEF PurchasesOf
  <2>2. PurchasesOf(p, more) \in SUBSET (Pubs \cup Ids)
    BY <1>2 DEF PurchasesOf
  <2>3. IsFiniteSet(PurchasesOf(p, more))
    BY <2>2, IdsKnown
  <2> QED BY <2>1, <2>3, FS_Subset, FS_CardinalityType
<1>4. CountOf(p) = Cardinality(PurchasesOf(p, Files("purchases")))
  BY <1>1 DEF CountOf
<1> QED BY <1>3, <1>4

\* Publishing and buying add records and change none.
LEMMA RecordsStay ==
  ASSUME TypeOK, Publish \/ Buy
  PROVE  /\ \A i \in Pubs : pubs[i] # None => pubs'[i] = pubs[i]
         /\ \A i \in Ids : purchases[i] # None => purchases'[i] = purchases[i]
         /\ \A l \in Listings : Files(l) \subseteq Files(l)'
<1>1. \A i \in Pubs : pubs[i] # None => pubs'[i] = pubs[i]
  BY DEF Publish, Buy, TypeOK
<1>2. \A i \in Ids : purchases[i] # None => purchases'[i] = purchases[i]
  BY DEF Publish, Buy, TypeOK
<1> QED BY <1>1, <1>2 DEF Files

LEMMA SelectedStays ==
  ASSUME TypeOK, Publish \/ Buy, NEW a \in Asks, NEW files \in SUBSET Files(a.listing)
  PROVE  Selected(a, files)' = Selected(a, files)
<1>1. CASE a.listing = "catalog"
  BY <1>1 DEF Selected
<1>2. CASE a.listing = "author_publications"
  <2>1. \A i \in files : pubs'[i] = pubs[i]
    BY <1>2, RecordsStay DEF Files
  <2> QED BY <1>2, <2>1 DEF Selected
<1>3. CASE a.listing = "purchases"
  <2>1. \A i \in files : purchases'[i] = purchases[i]
    BY <1>3, RecordsStay DEF Files
  <2> QED BY <1>3, <2>1 DEF Selected
<1> QED BY <1>1, <1>2, <1>3, SelectedIs

LEMMA CountGrows ==
  ASSUME TypeOK, TypeOK', Publish \/ Buy, NEW p \in Pubs
  PROVE  /\ CountOf(p) <= CountOf(p)'
         /\ \A files \in SUBSET Files("purchases") : PurchasesOf(p, files)' = PurchasesOf(p, files)
<1>1. ASSUME NEW files \in SUBSET Files("purchases") PROVE PurchasesOf(p, files)' = PurchasesOf(p, files)
  <2>1. \A i \in files : purchases'[i] = purchases[i]
    BY RecordsStay DEF Files
  <2> QED BY <2>1 DEF PurchasesOf
<1>3. {i \in Ids : purchases[i] # None /\ purchases[i].pub = p} \subseteq
        {i \in Ids : purchases'[i] # None /\ purchases'[i].pub = p}
  BY RecordsStay
<1>4. {i \in Ids : purchases'[i] # None /\ purchases'[i].pub = p} \in SUBSET (Pubs \cup Ids)
  OBVIOUS
<1>5. Cardinality({i \in Ids : purchases[i] # None /\ purchases[i].pub = p}) <=
        Cardinality({i \in Ids : purchases'[i] # None /\ purchases'[i].pub = p})
  BY <1>3, <1>4, IdsKnown, FS_Subset
<1> QED BY <1>1, <1>5 DEF CountOf

--------------------------------------------------------------------------------
(***************************************************************************)
(* The steps.                                                              *)
(***************************************************************************)
\* What List finds: some files between those of the opened directory and those there are.
LEMMA ListIs ==
  ASSUME TypeOK, AskKnown, List
  PROVE  /\ ask \in Asks /\ Limit(ask) \in Nat
         /\ \E files \in SUBSET Files(ask.listing) :
              LET s == Selected(ask, files)
              IN /\ begun \subseteq files
                 /\ s \in SUBSET Files(ask.listing) /\ s \in SUBSET (Pubs \cup Ids)
                 /\ s \subseteq Selected(ask, Files(ask.listing))
                 /\ total' = Cardinality(s) /\ total' \in Nat
                 /\ page' \in Seq(s)
                 /\ \A i, j \in DOMAIN page' : i < j => page'[i] < page'[j]
                 /\ Elements(page') = Window(s, offset, Limit(ask))
<1>1. ask \in Asks /\ Limit(ask) \in Nat /\ offset \in Nat /\ ask.listing \in Listings
  BY AskIs DEF List, AskKnown, TypeOK
<1>2. PICK files \in SUBSET Files(ask.listing) :
        /\ begun \subseteq files
        /\ page' = WindowOf(Sorted(Selected(ask, files)), offset, Limit(ask))
        /\ total' = Cardinality(Selected(ask, files))
  BY DEF List
<1> DEFINE s == Selected(ask, files)
<1>3. s \subseteq files /\ s \subseteq Selected(ask, Files(ask.listing))
  BY <1>1, SelectedGrows
<1>4. s \in SUBSET Files(ask.listing) /\ s \in SUBSET (Pubs \cup Ids)
  BY <1>1, <1>3, FilesIs
<1> HIDE DEF s
<1>5. s \in SUBSET Nat /\ IsFiniteSet(s) /\ Cardinality(s) \in Nat
  BY <1>4, IdsKnown
<1>6. page' = WindowOf(Sorted(s), offset, Limit(ask)) /\ total' = Cardinality(s)
  BY <1>2 DEF s
<1>7. /\ page' \in Seq(s)
      /\ \A i, j \in DOMAIN page' : i < j => page'[i] < page'[j]
      /\ Elements(page') = Window(s, offset, Limit(ask))
  <2> DEFINE limit == Limit(ask)
  <2>1. limit \in Nat /\ page' = WindowOf(Sorted(s), offset, limit)
    BY <1>1, <1>6
  <2> HIDE DEF limit
  <2>2. ASSUME NEW p, p = WindowOf(Sorted(s), offset, limit)
        PROVE  /\ p \in Seq(s)
               /\ \A i, j \in DOMAIN p : i < j => p[i] < p[j]
               /\ Elements(p) = Window(s, offset, limit)
    <3>1. s \in SUBSET Nat /\ IsFiniteSet(s) /\ offset \in Nat /\ limit \in Nat
      BY <1>1, <1>5, <2>1
    <3> QED BY <2>2, <3>1, WindowIs
  <2> QED BY <2>1, <2>2 DEF limit
<1> QED BY <1>1, <1>2, <1>3, <1>4, <1>5, <1>6, <1>7 DEF s

\* What a question for a page does.
LEMMA AskStep ==
  ASSUME TypeOK, NEW a \in Asks, Ask(a)
  PROVE  /\ ask' = a
         /\ \/ /\ Limit(a) > MaxPage /\ pc' = "idle" /\ UNCHANGED <<begun, least, bought>>
            \/ /\ Limit(a) <= MaxPage /\ pc' = "list"
               /\ begun' = Files(a.listing) /\ least' = Selected(a, Files(a.listing))
               /\ bought' \in [Pubs -> Nat] /\ \A p \in Pubs : bought'[p] = CountOf(p)
         /\ Files(a.listing) \in SUBSET (Pubs \cup Ids)
         /\ Selected(a, Files(a.listing)) \in SUBSET (Pubs \cup Ids)
<1>1. Limit(a) \in Nat /\ MaxPage \in Nat /\ a.listing \in Listings
  BY AskIs, PagesAssumption
<1>2. Files(a.listing) \in SUBSET (Pubs \cup Ids) /\ Selected(a, Files(a.listing)) \subseteq Files(a.listing)
  BY <1>1, FilesIs, SelectedGrows
<1>3. CASE Limit(a) > MaxPage
  BY <1>2, <1>3 DEF Ask
<1>4. CASE ~ (Limit(a) > MaxPage)
  <2>1. bought' = [p \in Pubs |-> CountOf(p)] /\ \A p \in Pubs : CountOf(p) \in Nat
    BY <1>4, CountIs DEF Ask
  <2> QED BY <1>1, <1>2, <1>4, <2>1 DEF Ask
<1> QED BY <1>3, <1>4

\* Every step keeps the types.
LEMMA TypeStep == IInv /\ [Next]_vars => TypeOK'
<1> SUFFICES ASSUME IInv, [Next]_vars PROVE TypeOK'
  OBVIOUS
<1>0. TypeOK /\ AskKnown /\ CountsKnown
  BY DEF IInv
<1>e. <<>> \in Seq(Pubs \cup Ids) /\ <<>> \in Seq(Nat) /\ NoCounts \in [Pubs -> Nat]
  BY EmptySeq DEF NoCounts
<1> USE DEF stored, history
<1>1. CASE Begin
  <2>1. PICK l \in Listings, u \in Users, n \in Limits \cup {None} :
          LET a == [listing |-> l, user |-> u, limit |-> n]
          IN Ask(a) /\ before' = Selected(a, Files(l))
    BY <1>1 DEF Begin
  <2> DEFINE a == [listing |-> l, user |-> u, limit |-> n]
  <2>2. a \in Asks /\ a.listing = l /\ Ask(a) /\ before' = Selected(a, Files(a.listing))
    BY <2>1 DEF Asks
  <2> HIDE DEF a
  <2> QED BY <1>0, <1>1, <2>2, AskStep DEF Begin, TypeOK, Steps
<1>2. CASE Continue
  <2>1. ask \in Asks /\ Ask(ask)
    BY <1>0, <1>2 DEF Continue, AskKnown, TypeOK
  <2> QED BY <1>0, <1>2, <2>1, AskStep DEF Continue, TypeOK, Steps
<1>3. CASE List
  <2>1. PICK s \in SUBSET (Pubs \cup Ids) : page' \in Seq(s)
    BY <1>0, <1>3, ListIs
  <2>2. page' \in Seq(Pubs \cup Ids)
    BY <2>1, SeqMonotonic
  <2>3. total' \in Nat
    BY <1>0, <1>3, ListIs
  <2>4. begun' \in SUBSET (Pubs \cup Ids)
    BY <1>0, <1>3, FilesIs DEF List
  <2>5. pc' \in Steps
    BY <1>3 DEF List, Steps
  <2> QED BY <1>0, <1>3, <2>2, <2>3, <2>4, <2>5 DEF List, TypeOK
<1>4. CASE Count
  <2>1. CASE Len(counts) < Len(page)
    <3>1. PICK files \in SUBSET Files("purchases") :
            counts' = Append(counts, Cardinality(PurchasesOf(page[Len(counts) + 1], files)))
      BY <1>4, <2>1 DEF Count
    <3>2. PurchasesOf(page[Len(counts) + 1], files) \in SUBSET (Pubs \cup Ids)
      BY <1>0, FilesIs DEF PurchasesOf
    <3>3. Cardinality(PurchasesOf(page[Len(counts) + 1], files)) \in Nat
      BY <3>2, IdsKnown
    <3>4. counts' \in Seq(Nat)
      BY <1>0, <3>1, <3>3 DEF TypeOK
    <3>5. begun' \in SUBSET (Pubs \cup Ids)
      BY <1>0, <1>4, <2>1, FilesIs DEF Count
    <3> QED BY <1>0, <1>4, <2>1, <3>4, <3>5 DEF Count, TypeOK
  <2>2. CASE ~ (Len(counts) < Len(page))
    BY <1>0, <1>4, <2>2 DEF Count, TypeOK, Steps
  <2> QED BY <2>1, <2>2
<1>5. CASE Join
  BY <1>0, <1>5 DEF Join, TypeOK, Steps
<1>6. CASE Receive
  <2>1. ask \in Asks
    BY <1>0, <1>6 DEF Receive, AskKnown, TypeOK
  <2>2. offset' \in Nat
    BY <1>0, <1>6, <2>1, AskIs DEF Receive, TypeOK
  <2>3. \A i \in DOMAIN page : page[i] \in Pubs \cup Ids
    BY <1>0, LenProperties, ElementOfSeq DEF TypeOK
  <2>4. collected' \subseteq Pubs \cup Ids
    BY <1>0, <1>6, <2>3 DEF Receive, TypeOK, Elements
  <2>5. pc' \in Steps
    BY <1>6 DEF Receive, Steps
  <2> QED BY <1>0, <1>e, <1>6, <2>2, <2>4, <2>5 DEF Receive, Forget, TypeOK
<1>7. CASE Fail
  BY <1>0, <1>e, <1>7 DEF Fail, Forget, TypeOK, Steps
<1>8. CASE Publish
  BY <1>0, <1>8 DEF Publish, TypeOK
<1>9. CASE Buy
  <2>1. PICK i \in Ids, p \in Pubs, u \in Users : purchases' = [purchases EXCEPT ![i] = [user |-> u, pub |-> p]]
    BY <1>9 DEF Buy
  <2>2. purchases' \in [Ids -> Purchase \cup {None}]
    BY <1>0, <2>1 DEF TypeOK, Purchase
  <2> QED BY <1>0, <1>9, <2>2 DEF Buy, TypeOK
<1>10. CASE UNCHANGED vars
  BY <1>0, <1>10 DEF vars, TypeOK
<1> QED BY <1>1, <1>2, <1>3, <1>4, <1>5, <1>6, <1>7, <1>8, <1>9, <1>10 DEF Next

\* While nothing is stored, the records that a question is about are the same.
LEMMA NothingStored ==
  ASSUME UNCHANGED stored, NEW a, ask' = a
  PROVE  /\ Present' = Selected(a, Files(a.listing)) /\ Files(ask.listing)' = Files(a.listing)
         /\ Limit(ask)' = Limit(a)
         /\ Files("purchases")' = Files("purchases")
         /\ \A files : Selected(ask, files)' = Selected(a, files)
         /\ \A p : CountOf(p)' = CountOf(p)
         /\ \A p, files : PurchasesOf(p, files)' = PurchasesOf(p, files)
<1>1. pubs' = pubs /\ purchases' = purchases
  BY DEF stored
<1>2. Files(ask.listing)' = Files(a.listing) /\ Files("purchases")' = Files("purchases")
  BY <1>1 DEF Files
<1>3. \A files : Selected(ask, files)' = Selected(a, files)
  BY <1>1 DEF Selected
<1>4. Present' = Selected(a, Files(a.listing))
  BY <1>1 DEF Present, Selected, Files
<1>5. \A p : CountOf(p)' = CountOf(p)
  BY <1>1 DEF CountOf
<1>6. \A p, files : PurchasesOf(p, files)' = PurchasesOf(p, files)
  BY <1>1 DEF PurchasesOf
<1>7. Limit(ask)' = Limit(a)
  BY DEF Limit
<1> QED BY <1>2, <1>3, <1>4, <1>5, <1>6, <1>7

\* When a record is stored, those that were there stay.
LEMMA SomethingStored ==
  ASSUME TypeOK, TypeOK', Publish \/ Buy, ask \in Asks
  PROVE  /\ Present \subseteq Present' /\ Files(ask.listing) \subseteq Files(ask.listing)'
         /\ Present \in SUBSET (Pubs \cup Ids) /\ Present' \in SUBSET (Pubs \cup Ids)
         /\ Limit(ask)' = Limit(ask)
         /\ \A files \in SUBSET Files(ask.listing) : Selected(ask, files)' = Selected(ask, files)
<1>1. ask' = ask
  BY DEF Publish, Buy
<1>2. PICK a \in Asks : a = ask
  OBVIOUS
<1>3. a.listing \in Listings /\ a.listing = ask.listing
  BY <1>2, AskIs
<1>4. Files(ask.listing)' = Files(a.listing)' /\ Files(a.listing) \subseteq Files(a.listing)'
  BY <1>1, <1>2, <1>3, RecordsStay DEF Files
<1>5. ASSUME NEW files \in SUBSET Files(ask.listing) PROVE Selected(ask, files)' = Selected(ask, files)
  <2>1. Selected(ask, files)' = Selected(a, files)'
    BY <1>1, <1>2 DEF Selected
  <2> QED BY <1>2, <2>1, SelectedStays
<1>6. Present \in SUBSET (Pubs \cup Ids)
  <2>1. Present \subseteq Files(a.listing)
    BY <1>2, SelectedGrows DEF Present
  <2> QED BY <1>3, <2>1, FilesIs
<1>7. Limit(ask)' = Limit(ask)
  BY <1>1 DEF Limit
<1>8. Present' \in SUBSET (Pubs \cup Ids)
  <2>1. Files(ask.listing)' \in SUBSET (Pubs \cup Ids)
    BY DEF Files, TypeOK
  <2>2. Present' \subseteq Files(ask.listing)'
    BY DEF Present, Selected
  <2> QED BY <2>1, <2>2
<1>9. Present \subseteq Present'
  <2>1. CASE ask.listing = "catalog"
    BY <1>1, <1>4, <1>2, <2>1 DEF Present, Selected
  <2>2. CASE ask.listing = "author_publications"
    <3>1. \A i \in Files("author_publications") : i \in Files("author_publications")' /\ pubs'[i] = pubs[i]
      BY RecordsStay DEF Files
    <3> QED BY <1>1, <2>2, <3>1 DEF Present, Selected
  <2>3. CASE ask.listing = "purchases"
    <3>1. \A i \in Files("purchases") : i \in Files("purchases")' /\ purchases'[i] = purchases[i]
      BY RecordsStay DEF Files
    <3> QED BY <1>1, <2>3, <3>1 DEF Present, Selected
  <2> QED BY <1>3, <2>1, <2>2, <2>3 DEF Listings
<1> QED BY <1>2, <1>4, <1>5, <1>6, <1>7, <1>8, <1>9

--------------------------------------------------------------------------------
\* A question for a page: the directory is opened, or the question refused.
LEMMA AskedKnown ==
  ASSUME IInv, NEW a \in Asks, Ask(a), pc \in {"idle", "next"}, UNCHANGED <<stored, page, total, counts>>
  PROVE  AskKnown' /\ LeastKnown' /\ BoughtKnown' /\ CountsKnown' /\ PageKnown'
<1>0. TypeOK /\ CountsKnown
  BY DEF IInv
<1>1. counts' = <<>> /\ page' = page /\ DOMAIN counts' = {} /\ Len(counts') <= Len(page')
  <2>1. counts = <<>>
    BY <1>0 DEF CountsKnown
  <2> QED BY <1>0, <2>1 DEF CountsKnown
<1>2. /\ ask' = a /\ pc' \in {"idle", "list"} /\ a # None
      /\ pc' = "list" => /\ begun' = Files(a.listing) /\ least' = Selected(a, Files(a.listing))
                         /\ Limit(a) <= MaxPage /\ \A p \in Pubs : bought'[p] = CountOf(p)
  BY <1>0, AskStep, AskIs
<1>3. /\ Files(ask.listing)' = Files(a.listing) /\ Limit(ask)' = Limit(a)
      /\ \A files : Selected(ask, files)' = Selected(a, files)
      /\ \A p : CountOf(p)' = CountOf(p)
  BY <1>2, NothingStored DEF stored
<1>4. AskKnown'
  BY <1>2, <1>3 DEF AskKnown
<1>5. LeastKnown'
  <2>1. pc' = "list" => begun' \subseteq Files(ask.listing)' /\ least' = Selected(ask, Files(a.listing))'
    BY <1>2, <1>3
  <2> QED BY <1>2, <2>1 DEF LeastKnown, Selected
<1>6. BoughtKnown'
  <2>1. pc' = "list" => \A p \in Pubs : bought'[p] <= CountOf(p)'
    BY <1>0, <1>2, <1>3, CountIs
  <2> QED BY <1>2, <2>1 DEF BoughtKnown, Serving
<1>7. CountsKnown'
  BY <1>1, <1>2 DEF CountsKnown
<1>8. PageKnown'
  BY <1>2 DEF PageKnown, Serving
<1> QED BY <1>4, <1>5, <1>6, <1>7, <1>8

LEMMA BeginKnown == IInv /\ Begin => IInv'
<1> SUFFICES ASSUME IInv, Begin PROVE IInv'
  OBVIOUS
<1>0. TypeOK /\ TypeOK'
  BY TypeStep DEF IInv, Next
<1>1. PICK l \in Listings, u \in Users, n \in Limits \cup {None} :
        LET a == [listing |-> l, user |-> u, limit |-> n]
        IN Ask(a) /\ before' = Selected(a, Files(l))
  BY DEF Begin
<1> DEFINE a == [listing |-> l, user |-> u, limit |-> n]
<1>2. a \in Asks /\ a.listing = l /\ Ask(a) /\ before' = Selected(a, Files(a.listing))
  BY <1>1 DEF Asks
<1> HIDE DEF a
<1>3. AskKnown' /\ LeastKnown' /\ BoughtKnown' /\ CountsKnown' /\ PageKnown'
  BY <1>2, AskedKnown DEF Begin, stored
<1>4. /\ ask' = a /\ pc' \in {"idle", "list"} /\ offset' = 0
      /\ pc' = "list" => least' = Selected(a, Files(a.listing))
      /\ pc' = "idle" => Limit(a) > MaxPage
  BY <1>0, <1>2, AskStep DEF Begin
<1>5. Present' = Selected(a, Files(a.listing)) /\ Limit(ask)' = Limit(a) /\ Limit(a) \in Nat /\ MaxPage \in Nat
  BY <1>2, <1>4, NothingStored, AskIs, PagesAssumption DEF Begin
<1>6. ASSUME pc' = "list" PROVE \A x \in before' : Rank(least, x)' \in Nat
  <2>1. least' \in SUBSET (Pubs \cup Ids) /\ before' \in SUBSET (Pubs \cup Ids)
    BY <1>0 DEF TypeOK
  <2>2. \A x \in before' : Rank(least', x) \in Nat
    BY <2>1, IdsKnown, RankIs
  <2> QED BY <2>2 DEF Rank
<1>7. WalkKnown'
  <2>1. WalkComplete'
    BY <1>4, <1>5 DEF WalkComplete
  <2>2. ASSUME pc' = "list" PROVE \A x \in before' : ~ (Rank(least, x)' < offset')
    BY <1>4, <1>6, <2>2
  <2> QED BY <1>2, <1>4, <1>5, <2>1, <2>2 DEF WalkKnown, Serving
<1> QED BY <1>0, <1>3, <1>7 DEF IInv

LEMMA ContinueKnown == IInv /\ Continue => IInv'
<1> SUFFICES ASSUME IInv, Continue PROVE IInv'
  OBVIOUS
<1>0. TypeOK /\ TypeOK' /\ AskKnown /\ WalkKnown /\ pc = "next"
  BY TypeStep DEF IInv, Next, Continue
<1>1. ask \in Asks /\ Limit(ask) <= MaxPage /\ Limit(ask) \in Nat /\ MaxPage \in Nat
  BY <1>0, AskIs, PagesAssumption DEF AskKnown, TypeOK
<1>2. Ask(ask) /\ UNCHANGED <<stored, page, total, counts>> /\ offset' = offset /\ before' = before /\ collected' = collected
  BY DEF Continue
<1>3. AskKnown' /\ LeastKnown' /\ BoughtKnown' /\ CountsKnown' /\ PageKnown'
  BY <1>0, <1>1, <1>2, AskedKnown
<1>4. ask' = ask /\ pc' = "list" /\ least' = Present
  <2>1. ask' = ask /\ (pc' = "list" => least' = Present) /\ (pc' = "idle" => Limit(ask) > MaxPage) /\ pc' \in {"idle", "list"}
    BY <1>0, <1>1, <1>2, AskStep DEF Present
  <2> QED BY <1>1, <2>1
<1>5. Present' = Present
  BY <1>2, <1>4, NothingStored DEF Present
<1>6. \A x : Rank(least, x)' = Rank(Present, x)
  BY <1>4 DEF Rank
<1>7. WalkKnown'
  BY <1>0, <1>2, <1>4, <1>5, <1>6 DEF WalkKnown, WalkComplete, Serving
<1> QED BY <1>0, <1>3, <1>7 DEF IInv

\* The directory has been read: the page is a window of what was found.
LEMMA ListKnown == IInv /\ List => IInv'
<1> SUFFICES ASSUME IInv, List PROVE IInv'
  OBVIOUS
<1>0. /\ TypeOK /\ TypeOK' /\ AskKnown /\ LeastKnown /\ BoughtKnown /\ CountsKnown /\ WalkKnown /\ pc = "list"
  BY TypeStep DEF IInv, Next, List
<1>1. /\ ask' = ask /\ offset' = offset /\ counts' = counts /\ collected' = collected
      /\ before' = before /\ least' = least /\ bought' = bought /\ begun' = Files("purchases")
      /\ pc' \in {"count", "join", "answered"}
      /\ pc' = "count" => ask.listing = "author_publications"
  BY DEF List, history
<1>2. /\ Present' = Present /\ Files("purchases")' = Files("purchases") /\ Limit(ask)' = Limit(ask)
      /\ \A p : CountOf(p)' = CountOf(p)
      /\ \A p, files : PurchasesOf(p, files)' = PurchasesOf(p, files)
  BY <1>1, NothingStored DEF Present, List
<1>3. ask \in Asks
  BY <1>0, ListIs
<1>4. PICK files \in SUBSET Files(ask.listing) :
        LET s == Selected(ask, files)
        IN /\ begun \subseteq files
           /\ s \in SUBSET Files(ask.listing)
           /\ s \subseteq Selected(ask, Files(ask.listing))
           /\ total' = Cardinality(s)
           /\ page' \in Seq(s)
           /\ \A i, j \in DOMAIN page' : i < j => page'[i] < page'[j]
           /\ Elements(page') = Window(s, offset, Limit(ask))
  BY <1>0, ListIs
<1>5. PICK s :
        /\ s = Selected(ask, files)
        /\ s \in SUBSET Files(ask.listing) /\ s \in SUBSET Present'
        /\ total' = Cardinality(s) /\ page' \in Seq(s)
        /\ \A i, j \in DOMAIN page' : i < j => page'[i] < page'[j]
        /\ Elements(page') = Window(s, offset, Limit(ask))
  BY <1>2, <1>4 DEF Present
<1>6. least' \subseteq s
  BY <1>0, <1>1, <1>3, <1>4, <1>5, SelectedGrows DEF LeastKnown
<1>7. AskKnown'
  BY <1>0, <1>1, <1>2 DEF AskKnown
<1>8. LeastKnown'
  BY <1>1 DEF LeastKnown
<1>9. BoughtKnown'
  <2>1. \A p \in Pubs : bought'[p] <= CountOf(p)'
    BY <1>0, <1>1, <1>2 DEF BoughtKnown, Serving
  <2>2. \A p \in Pubs : Cardinality(PurchasesOf(p, begun))' = CountOf(p)'
    <3> SUFFICES ASSUME NEW p \in Pubs PROVE Cardinality(PurchasesOf(p, begun))' = CountOf(p)'
      OBVIOUS
    <3>1. PurchasesOf(p, begun)' = PurchasesOf(p, Files("purchases"))
      BY <1>1, <1>2 DEF PurchasesOf, List, stored
    <3> QED BY <1>0, <1>2, <3>1, CountIs
  <2> QED BY <1>1, <1>2, <2>1, <2>2 DEF BoughtKnown
<1>10. CountsKnown'
  <2>1. counts' = <<>> /\ DOMAIN counts' = {} /\ Len(counts') = 0
    BY <1>0, <1>1 DEF CountsKnown
  <2>2. Len(counts') <= Len(page')
    BY <1>0, <2>1 DEF TypeOK
  <2>3. ASSUME pc' = "count", NEW i \in DOMAIN page' PROVE page'[i] \in Pubs
    <3>1. s \subseteq Pubs
      BY <1>0, <1>1, <1>5, <2>3, FilesIs DEF Listings
    <3>2. page'[i] \in s
      BY <1>5, <2>3, LenProperties, ElementOfSeq
    <3> QED BY <3>1, <3>2
  <2> QED BY <2>1, <2>2, <2>3 DEF CountsKnown
<1>11. PageKnown'
  <2>1. PageOf(s)'
    BY <1>1, <1>2, <1>5 DEF PageOf
  <2>2. PageSorted'
    BY <1>5 DEF PageSorted
  <2> QED BY <1>5, <1>6, <2>1, <2>2 DEF PageKnown
<1>12. WalkKnown'
  <2>1. \A x : Rank(least, x)' = Rank(least, x)
    BY <1>1 DEF Rank
  <2> QED BY <1>0, <1>1, <1>2, <2>1 DEF WalkKnown, WalkComplete, Serving
<1> QED BY <1>0, <1>7, <1>8, <1>9, <1>10, <1>11, <1>12 DEF IInv

\* A step that leaves the page, the reader and the records as they are.
LEMMA PageStays ==
  ASSUME IInv, pc \in {"count", "join"}, pc' \in {"count", "answered"}, UNCHANGED stored,
         UNCHANGED <<ask, offset, page, total, collected, before, least, bought>>
  PROVE  AskKnown' /\ LeastKnown' /\ PageKnown' /\ WalkKnown'
<1>0. AskKnown /\ PageKnown /\ WalkKnown
  BY DEF IInv
<1>1. Present' = Present /\ Limit(ask)' = Limit(ask)
  BY NothingStored DEF Present
<1>2. \A x : Rank(least, x)' = Rank(least, x)
  BY DEF Rank
<1>3. AskKnown' /\ LeastKnown'
  BY <1>0, <1>1 DEF AskKnown, LeastKnown
<1>4. PageKnown'
  <2>1. PICK s \in SUBSET Present : least \subseteq s /\ Cardinality(s) = total /\ PageOf(s)
    BY <1>0 DEF PageKnown, Serving
  <2>2. PageOf(s)'
    BY <1>1, <2>1 DEF PageOf
  <2>3. PageSorted'
    BY <1>0 DEF PageKnown, PageSorted, Serving
  <2> QED BY <1>1, <2>1, <2>2, <2>3 DEF PageKnown
<1>5. WalkKnown'
  BY <1>0, <1>1, <1>2 DEF WalkKnown, WalkComplete, Serving
<1> QED BY <1>3, <1>4, <1>5

\* purchase_count finds no fewer purchases than at the request and no more than now.
LEMMA CountKnown == IInv /\ Count => IInv'
<1> SUFFICES ASSUME IInv, Count PROVE IInv'
  OBVIOUS
<1>0. TypeOK /\ TypeOK' /\ BoughtKnown /\ CountsKnown /\ pc = "count"
  BY TypeStep DEF IInv, Next, Count
<1>1. /\ UNCHANGED stored /\ UNCHANGED <<ask, offset, page, total, collected, before, least, bought>>
      /\ pc' \in {"count", "answered"}
  BY DEF Count, history
<1>2. AskKnown' /\ LeastKnown' /\ PageKnown' /\ WalkKnown'
  BY <1>0, <1>1, PageStays
<1>3. /\ Files("purchases")' = Files("purchases") /\ \A p : CountOf(p)' = CountOf(p)
      /\ \A p, files : PurchasesOf(p, files)' = PurchasesOf(p, files)
  BY <1>1, NothingStored
<1>4. /\ \A p \in Pubs : bought[p] <= CountOf(p)
      /\ begun \subseteq Files("purchases")
      /\ \A p \in Pubs : bought[p] <= Cardinality(PurchasesOf(p, begun))
      /\ Len(counts) <= Len(page) /\ \A i \in DOMAIN page : page[i] \in Pubs
      /\ \A i \in DOMAIN counts : page[i] \in Pubs /\ counts[i] \in bought[page[i]] .. CountOf(page[i])
  BY <1>0 DEF BoughtKnown, CountsKnown, Serving
<1>5. counts \in Seq(Nat) /\ page \in Seq(Pubs \cup Ids) /\ bought \in [Pubs -> Nat]
  BY <1>0 DEF TypeOK
<1>6. CASE Len(counts) < Len(page)
  <2> DEFINE k == Len(counts) + 1
             p == page[k]
  <2>1. PICK files \in SUBSET Files("purchases") :
          begun \subseteq files /\ counts' = Append(counts, Cardinality(PurchasesOf(p, files)))
    BY <1>6 DEF Count
  <2>2. begun' = Files("purchases") /\ pc' = pc
    BY <1>6 DEF Count
  <2>3. p \in Pubs
    BY <1>4, <1>5, <1>6
  <2> DEFINE c == Cardinality(PurchasesOf(p, files))
  <2> HIDE DEF p
  <2>4. /\ c \in Nat /\ c <= CountOf(p) /\ CountOf(p) \in Nat
        /\ Cardinality(PurchasesOf(p, begun)) \in Nat /\ Cardinality(PurchasesOf(p, begun)) <= c
    BY <1>0, <1>4, <2>1, <2>3, CountIs
  <2>5. c \in bought[p] .. CountOf(p)
    BY <1>4, <1>5, <2>3, <2>4
  <2> HIDE DEF c
  <2>6. /\ Len(counts') = k /\ DOMAIN counts' = 1 .. k /\ counts'[k] = c
        /\ \A i \in 1 .. k : i # k => i \in DOMAIN counts /\ counts'[i] = counts[i]
    BY <1>5, <2>1 DEF c
  <2>7. CountsKnown'
    <3>1. \A i \in 1 .. k : page[i] \in Pubs /\ counts'[i] \in bought[page[i]] .. CountOf(page[i])
      BY <1>4, <2>3, <2>5, <2>6 DEF p
    <3>2. \A i : CountOf(page[i])' = CountOf(page[i])
      BY <1>1 DEF CountOf, stored
    <3>3. \A i \in 1 .. k : page'[i] \in Pubs /\ counts'[i] \in bought'[page'[i]] .. CountOf(page[i])'
      BY <1>1, <3>1, <3>2
    <3>4. Len(counts') <= Len(page')
      BY <1>1, <1>5, <1>6, <2>6
    <3> QED BY <1>0, <1>1, <1>4, <2>2, <2>6, <3>3, <3>4 DEF CountsKnown
  <2>8. BoughtKnown'
    <3>1. \A q \in Pubs : Cardinality(PurchasesOf(q, begun))' = CountOf(q)'
      <4> SUFFICES ASSUME NEW q \in Pubs PROVE Cardinality(PurchasesOf(q, begun))' = CountOf(q)'
        OBVIOUS
      <4>1. PurchasesOf(q, begun)' = PurchasesOf(q, Files("purchases"))
        BY <1>1, <2>2 DEF PurchasesOf, stored
      <4> QED BY <1>0, <1>3, <4>1, CountIs
    <3> QED BY <1>1, <1>3, <1>4, <2>2, <3>1 DEF BoughtKnown
  <2> QED BY <1>0, <1>2, <2>7, <2>8 DEF IInv
<1>7. CASE ~ (Len(counts) < Len(page))
  <2>1. pc' = "answered" /\ counts' = counts /\ begun' = begun
    BY <1>7 DEF Count
  <2>2. CountsKnown'
    BY <1>1, <1>3, <1>4, <2>1 DEF CountsKnown
  <2>3. BoughtKnown'
    BY <1>1, <1>3, <1>4, <2>1 DEF BoughtKnown
  <2> QED BY <1>0, <1>2, <2>2, <2>3 DEF IInv
<1> QED BY <1>6, <1>7

LEMMA JoinKnown == IInv /\ Join => IInv'
<1> SUFFICES ASSUME IInv, Join PROVE IInv'
  OBVIOUS
<1>0. TypeOK' /\ BoughtKnown /\ CountsKnown /\ pc = "join"
  BY TypeStep DEF IInv, Next, Join
<1>1. /\ UNCHANGED stored /\ UNCHANGED <<ask, offset, page, total, collected, before, least, bought>>
      /\ pc' = "answered" /\ counts' = counts
  BY DEF Join, history
<1>2. AskKnown' /\ LeastKnown' /\ PageKnown' /\ WalkKnown'
  BY <1>0, <1>1, PageStays
<1>3. \A p : CountOf(p)' = CountOf(p)
  BY <1>1, NothingStored
<1>4. CountsKnown' /\ BoughtKnown'
  <2>1. counts = <<>> /\ DOMAIN counts = {} /\ Len(counts) <= Len(page)
    BY <1>0 DEF CountsKnown
  <2>2. CountsKnown'
    BY <1>1, <2>1 DEF CountsKnown
  <2> QED BY <1>0, <1>1, <1>3, <2>2 DEF BoughtKnown, Serving
<1> QED BY <1>0, <1>2, <1>4 DEF IInv

\* The reader takes the page.  Of the records that were there when it began, it now has
\* all that come before the new offset in the records the page was taken from: those
\* before the old one it had, the others are on the page.
LEMMA ReceiveKnown == IInv /\ Receive => IInv'
<1> SUFFICES ASSUME IInv, Receive PROVE IInv'
  OBVIOUS
<1>0. TypeOK /\ TypeOK' /\ AskKnown /\ PageKnown /\ WalkKnown /\ pc = "answered"
  BY TypeStep DEF IInv, Next, Receive
<1>1. /\ ask' = ask /\ before' = before /\ UNCHANGED stored
      /\ collected' = collected \cup Elements(page) /\ offset' = offset + Limit(ask)
      /\ pc' = IF offset' < total THEN "next" ELSE "idle"
      /\ counts' = <<>> /\ page' = <<>>
  BY DEF Receive, Forget
<1>2. ask \in Asks /\ ask # None /\ Limit(ask) <= MaxPage /\ Limit(ask) \in Nat
  BY <1>0, AskIs DEF AskKnown, TypeOK
<1>3. Present' = Present /\ Limit(ask)' = Limit(ask)
  BY <1>1, NothingStored DEF Present
<1>4. Present \in SUBSET (Pubs \cup Ids)
  <2>1. Present \subseteq Files(ask.listing) /\ ask.listing \in Listings
    BY <1>2, SelectedGrows, AskIs DEF Present
  <2> QED BY <1>0, <2>1, FilesIs
<1>5. PICK s \in SUBSET Present :
        least \subseteq s /\ Cardinality(s) = total /\ Elements(page) = Window(s, offset, Limit(ask))
  BY <1>0 DEF PageKnown, PageOf, Serving
<1>6. /\ Present \in SUBSET Nat /\ IsFiniteSet(Present) /\ s \in SUBSET Nat /\ IsFiniteSet(s)
      /\ offset \in Nat /\ total \in Nat
  BY <1>0, <1>4, IdsKnown DEF TypeOK
<1>7. ASSUME NEW x \in before
      PROVE  /\ x \in Present /\ Rank(s, x) \in Nat /\ Rank(s, x) < total
             /\ Rank(Present, x) \in Nat /\ Rank(s, x) <= Rank(Present, x)
             /\ Rank(s, x) < offset' => x \in collected'
  <2>1. x \in least /\ x \in s /\ x \in Present /\ x \in Nat /\ least \in SUBSET s
    BY <1>0, <1>5, <1>6, <1>7 DEF WalkKnown, Serving
  <2>2. /\ Rank(s, x) \in Nat /\ Rank(s, x) < Cardinality(s)
        /\ Rank(least, x) \in Nat /\ Rank(least, x) <= Rank(s, x)
    BY <1>6, <2>1, RankIs
  <2>3. Rank(Present, x) \in Nat /\ Rank(s, x) <= Rank(Present, x)
    BY <1>5, <1>6, <2>1, RankIs
  <2>4. CASE Rank(s, x) < offset
    <3>1. Rank(least, x) < offset
      BY <1>6, <2>2, <2>4
    <3>2. x \in collected
      BY <1>0, <1>7, <3>1 DEF WalkKnown, Serving
    <3> QED BY <1>1, <1>5, <2>1, <2>2, <2>3, <3>2
  <2>5. CASE ~ (Rank(s, x) < offset)
    <3>1. ASSUME Rank(s, x) < offset' PROVE Rank(s, x) \in offset .. (offset + Limit(ask) - 1)
      BY <1>1, <1>2, <1>6, <2>2, <2>5, <3>1
    <3>2. ASSUME Rank(s, x) < offset' PROVE x \in Elements(page)
      BY <1>5, <2>1, <3>1, <3>2 DEF Window
    <3> QED BY <1>1, <1>5, <2>1, <2>2, <2>3, <3>2
  <2> QED BY <2>4, <2>5
<1>8. offset' \in Nat
  BY <1>0 DEF TypeOK
<1>9. WalkKnown'
  <2>1. ASSUME pc' = "next", NEW x \in before, Rank(Present, x) < offset' PROVE x \in collected'
    BY <1>7, <1>8, <2>1
  <2>2. ASSUME pc' = "idle" PROVE before \subseteq collected'
    <3>1. total <= offset'
      BY <1>1, <1>6, <1>8, <2>2
    <3> QED BY <1>6, <1>7, <1>8, <3>1
  <2>3. \A x : Rank(Present, x)' = Rank(Present, x)
    BY <1>3 DEF Rank
  <2>4. WalkComplete'
    BY <1>1, <2>2 DEF WalkComplete
  <2>5. pc' \in {"next", "idle"}
    BY <1>1
  <2> QED BY <1>1, <1>3, <1>7, <2>1, <2>3, <2>4, <2>5 DEF WalkKnown, Serving
<1>10. AskKnown' /\ LeastKnown' /\ BoughtKnown' /\ PageKnown'
  BY <1>1, <1>2, <1>3 DEF AskKnown, LeastKnown, BoughtKnown, PageKnown, Serving
<1>11. CountsKnown'
  BY <1>1 DEF CountsKnown
<1> QED BY <1>0, <1>9, <1>10, <1>11 DEF IInv

LEMMA FailKnown == IInv /\ Fail => IInv'
<1> SUFFICES ASSUME IInv, Fail PROVE IInv'
  OBVIOUS
<1>0. TypeOK'
  BY TypeStep DEF Next
<1>1. pc' = "idle" /\ ask' = None /\ counts' = <<>> /\ page' = <<>>
  BY DEF Fail, Forget
<1>2. AskKnown' /\ LeastKnown' /\ BoughtKnown' /\ PageKnown' /\ WalkKnown'
  BY <1>1 DEF AskKnown, LeastKnown, BoughtKnown, PageKnown, WalkKnown, WalkComplete, Serving
<1>3. CountsKnown'
  BY <1>1 DEF CountsKnown
<1> QED BY <1>0, <1>2, <1>3 DEF IInv

\* A record is added: no other loses its place to an earlier one.
LEMMA StoreKnown == IInv /\ (Publish \/ Buy) => IInv'
<1> SUFFICES ASSUME IInv, Publish \/ Buy PROVE IInv'
  OBVIOUS
<1>0. /\ TypeOK /\ TypeOK' /\ AskKnown /\ LeastKnown /\ BoughtKnown /\ CountsKnown /\ PageKnown /\ WalkKnown
  BY TypeStep DEF IInv, Next
<1>1. UNCHANGED <<pc, ask, offset, begun, page, total, counts, collected, before, least, bought>>
  BY DEF Publish, Buy, history
<1>2. CASE pc = "idle"
  <2>1. counts = <<>> /\ DOMAIN counts = {}
    BY <1>0, <1>2 DEF CountsKnown
  <2>2. CountsKnown'
    BY <1>0, <1>1, <1>2, <2>1 DEF CountsKnown
  <2>3. Limit(ask)' = Limit(ask)
    BY <1>1 DEF Limit
  <2>4. AskKnown' /\ LeastKnown' /\ BoughtKnown' /\ PageKnown' /\ WalkKnown'
    BY <1>0, <1>1, <1>2, <2>3 DEF AskKnown, LeastKnown, BoughtKnown, PageKnown, WalkKnown, WalkComplete, Serving
  <2> QED BY <1>0, <2>2, <2>4 DEF IInv
<1>3. CASE pc # "idle"
  <2>1. ask \in Asks /\ ask # None /\ Limit(ask) <= MaxPage
    BY <1>0, <1>3 DEF AskKnown, TypeOK
  <2>2. /\ Present \subseteq Present' /\ Files(ask.listing) \subseteq Files(ask.listing)'
        /\ Present \in SUBSET (Pubs \cup Ids) /\ Present' \in SUBSET (Pubs \cup Ids)
        /\ Limit(ask)' = Limit(ask)
        /\ \A files \in SUBSET Files(ask.listing) : Selected(ask, files)' = Selected(ask, files)
    BY <1>0, <2>1, SomethingStored
  <2>3. Files("purchases") \subseteq Files("purchases")'
    BY <1>0, RecordsStay DEF Listings
  <2>4. \A p \in Pubs : CountOf(p) <= CountOf(p)' /\ CountOf(p) \in Nat /\ CountOf(p)' \in Nat
    <3> SUFFICES ASSUME NEW p \in Pubs
                 PROVE  CountOf(p) <= CountOf(p)' /\ CountOf(p) \in Nat /\ CountOf(p)' \in Nat
      OBVIOUS
    <3>1. {i \in Ids : purchases'[i] # None /\ purchases'[i].pub = p} \in SUBSET (Pubs \cup Ids)
      OBVIOUS
    <3>2. Cardinality({i \in Ids : purchases'[i] # None /\ purchases'[i].pub = p}) \in Nat
      BY <3>1, IdsKnown
    <3> QED BY <1>0, <3>2, CountIs, CountGrows DEF CountOf
  <2>5. AskKnown'
    BY <1>1, <2>1, <2>2 DEF AskKnown
  <2>6. LeastKnown'
    <3>1. ASSUME pc = "list"
          PROVE  begun \subseteq Files(ask.listing) /\ least = Selected(ask, begun)
      BY <1>0, <3>1 DEF LeastKnown
    <3>2. ASSUME NEW b, b = begun, b \subseteq Files(ask.listing)
          PROVE  Selected(ask, begun)' = Selected(ask, begun)
      <4>1. Selected(ask, b)' = Selected(ask, b)
        BY <2>2, <3>2
      <4>2. Selected(ask, begun)' = Selected(ask, b)'
        BY <1>1, <3>2 DEF Selected
      <4> QED BY <3>2, <4>1, <4>2
    <3> QED BY <1>1, <2>2, <3>1, <3>2 DEF LeastKnown
  <2>7. BoughtKnown'
    <3>1. pc \in Serving => \A p \in Pubs : bought[p] <= CountOf(p)'
      BY <1>0, <2>4 DEF BoughtKnown, TypeOK
    <3>2. ASSUME pc = "count", NEW p \in Pubs
          PROVE  Cardinality(PurchasesOf(p, begun))' = Cardinality(PurchasesOf(p, begun))
      <4>1. begun \subseteq Files("purchases")
        BY <1>0, <3>2 DEF BoughtKnown
      <4>2. PICK b : b = begun
        OBVIOUS
      <4>3. PurchasesOf(p, b)' = PurchasesOf(p, b)
        BY <1>0, <4>1, <4>2, CountGrows
      <4>4. PurchasesOf(p, begun)' = PurchasesOf(p, b)'
        BY <1>1, <4>2 DEF PurchasesOf
      <4> QED BY <4>2, <4>3, <4>4
    <3> QED BY <1>0, <1>1, <2>3, <3>1, <3>2 DEF BoughtKnown
  <2>8. CountsKnown'
    <3>1. ASSUME NEW i \in DOMAIN counts
          PROVE  page[i] \in Pubs /\ counts[i] \in bought[page[i]] .. CountOf(page[i])'
      <4>1. page[i] \in Pubs /\ counts[i] \in bought[page[i]] .. CountOf(page[i])
        BY <1>0, <3>1 DEF CountsKnown
      <4>2. PICK p \in Pubs : p = page[i]
        BY <4>1
      <4>3. CountOf(page[i])' = CountOf(p)'
        BY <1>1, <4>2 DEF CountOf
      <4>4. bought[p] \in Nat
        BY <1>0 DEF TypeOK
      <4> QED BY <2>4, <4>1, <4>2, <4>3, <4>4
    <3> QED BY <1>0, <1>1, <3>1 DEF CountsKnown
  <2>9. PageKnown'
    <3> SUFFICES ASSUME pc \in Serving \ {"list"} PROVE PageKnown'
      BY <1>1 DEF PageKnown, Serving
    <3>1. PICK s \in SUBSET Present : least \subseteq s /\ Cardinality(s) = total /\ PageOf(s)
      BY <1>0 DEF PageKnown
    <3>2. PageOf(s)'
      BY <1>1, <2>2, <3>1 DEF PageOf
    <3>3. PageSorted'
      BY <1>0, <1>1 DEF PageKnown, PageSorted
    <3> QED BY <1>1, <2>2, <3>1, <3>2, <3>3 DEF PageKnown
  <2>10. WalkKnown'
    <3>1. \A x : Rank(least, x)' = Rank(least, x)
      BY <1>1 DEF Rank
    <3>2. ASSUME pc = "next", NEW x \in before, Rank(Present, x)' < offset PROVE x \in collected
      <4>1. x \in Nat /\ Present \in SUBSET Present' /\ Present' \in SUBSET Nat /\ IsFiniteSet(Present')
        BY <1>0, <2>2, IdsKnown DEF TypeOK
      <4>2. PICK now : now = Present'
        OBVIOUS
      <4>3. Rank(now, x) \in Nat /\ Rank(Present, x) \in Nat /\ Rank(Present, x) <= Rank(now, x)
        BY <4>1, <4>2, RankIs
      <4>4. Rank(Present, x)' = Rank(now, x)
        BY <4>2 DEF Rank
      <4>5. Rank(Present, x) < offset
        BY <1>0, <3>2, <4>3, <4>4 DEF TypeOK
      <4> QED BY <1>0, <3>2, <4>5 DEF WalkKnown
    <3>3. WalkComplete'
      BY <1>1, <1>3 DEF WalkComplete
    <3> QED BY <1>0, <1>1, <2>2, <3>1, <3>2, <3>3 DEF WalkKnown
  <2> QED BY <1>0, <2>5, <2>6, <2>7, <2>8, <2>9, <2>10 DEF IInv
<1> QED BY <1>2, <1>3

--------------------------------------------------------------------------------
\* The directories are empty and no reader has begun.
LEMMA InitKnown == Init => IInv
<1> SUFFICES ASSUME Init PROVE IInv
  OBVIOUS
<1>1. pc = "idle" /\ ask = None /\ counts = <<>> /\ page = <<>>
  BY DEF Init
<1>2. TypeOK
  <2>1. <<>> \in Seq(Pubs \cup Ids) /\ <<>> \in Seq(Nat) /\ NoCounts \in [Pubs -> Nat]
    BY EmptySeq DEF NoCounts
  <2> QED BY <2>1 DEF Init, TypeOK, Steps
<1>3. AskKnown /\ LeastKnown /\ BoughtKnown /\ PageKnown /\ WalkKnown
  BY <1>1 DEF AskKnown, LeastKnown, BoughtKnown, PageKnown, WalkKnown, WalkComplete, Serving
<1>4. CountsKnown
  BY <1>1 DEF CountsKnown
<1> QED BY <1>2, <1>3, <1>4 DEF IInv

LEMMA StutterKnown == IInv /\ UNCHANGED vars => IInv'
<1> SUFFICES ASSUME IInv, UNCHANGED vars PROVE IInv'
  OBVIOUS
<1> USE DEF vars
<1>1. /\ TypeOK /\ AskKnown /\ LeastKnown /\ BoughtKnown /\ CountsKnown /\ PageKnown /\ WalkKnown
  BY DEF IInv
<1>2. TypeOK'
  BY TypeStep
<1>3. AskKnown' /\ LeastKnown'
  BY <1>1 DEF AskKnown, LeastKnown, Limit, Selected, Files
<1>4. BoughtKnown'
  BY <1>1 DEF BoughtKnown, Serving, CountOf, PurchasesOf, Files
<1>5. CountsKnown'
  BY <1>1 DEF CountsKnown, CountOf
<1>6. Present' = Present /\ Limit(ask)' = Limit(ask)
  BY DEF Present, Selected, Files, Limit
<1>7. PageKnown'
  <2>1. \A s : PageOf(s)' = PageOf(s)
    BY <1>6 DEF PageOf
  <2>2. PageSorted' = PageSorted
    BY DEF PageSorted
  <2> QED BY <1>1, <1>6, <2>1, <2>2 DEF PageKnown
<1>8. WalkKnown'
  <2>1. \A x : Rank(least, x)' = Rank(least, x) /\ Rank(Present, x)' = Rank(Present, x)
    BY <1>6 DEF Rank
  <2> QED BY <1>1, <1>6, <2>1 DEF WalkKnown, WalkComplete
<1> QED BY <1>2, <1>3, <1>4, <1>5, <1>7, <1>8 DEF IInv

\* The invariant holds throughout, whatever is published and bought between the steps of a
\* listing.
THEOREM Invariance == Spec => []IInv
<1>1. Init => IInv
  BY InitKnown
<1>2. IInv /\ [Next]_vars => IInv'
  BY BeginKnown, ContinueKnown, ListKnown, CountKnown, JoinKnown, ReceiveKnown, FailKnown,
     StoreKnown, StutterKnown DEF Next
<1> QED BY <1>1, <1>2, PTL DEF Spec

\* The directories, the page and the reader keep their types.
THEOREM TypeCorrect == Spec => []TypeOK
<1>1. IInv => TypeOK
  BY DEF IInv
<1> QED BY <1>1, Invariance, PTL

\* A reader that pages through publications, publications_of_author or purchases_of_user
\* to the end misses no record that was there when it began.
THEOREM WalkCompleteCorrect == Spec => []WalkComplete
<1>1. IInv => WalkComplete
  BY DEF IInv, WalkKnown
<1> QED BY <1>1, Invariance, PTL

\* Every answered page is the window of one set of records, with the size of that set as
\* its total; each purchase_count lies between the purchases at the request and those at the
\* answer.
THEOREM PageExactCorrect == Spec => []PageExact
<1>1. IInv => PageExact
  BY DEF IInv, PageKnown, CountsKnown, PageExact, Serving
<1> QED BY <1>1, Invariance, PTL
================================================================================
