---------------------- MODULE ObservationQueriesProofs ----------------------
(***************************************************************************)
(* Proofs about ObservationQueries, for every set of observations, order   *)
(* of them, page size, number of writers and bound on the clock.           *)
(***************************************************************************)
EXTENDS ObservationQueries, ObservationVersionsProofs, FiniteSetTheorems, SequenceTheorems

-----------------------------------------------------------------------------
(***************************************************************************)
(* The store under the client, and what stays visible.                     *)
(***************************************************************************)
LEMMA StoreStep == [QueryNext]_queryVars => [Next]_vars
  BY DEF QueryNext, queryVars, StartListing, RequestPage

\* A client that only reads keeps the invariant of the store.
THEOREM StoreInvariance == QuerySpec => []IInv
<1>1. QueryInit => IInv
  BY InitIInv DEF QueryInit
<1>2. IInv /\ [QueryNext]_queryVars => IInv'
  BY StoreStep, NextIInv
<1> QED
  BY <1>1, <1>2, PTL DEF QuerySpec

LEMMA TypeFacts ==
    ASSUME IInv
    PROVE  /\ clock \in Instants
           /\ \A k \in Keys : versions[k] \in SUBSET Version
  BY DEF IInv, TypeOK

LEMMA ClockAdvances ==
    ASSUME IInv, [Next]_vars
    PROVE  clock \in Instants /\ clock' \in Instants /\ clock <= clock'
<1>1. clock \in Instants
  BY TypeFacts
<1>2. clock' = clock \/ (clock < MaxInstant /\ clock' = clock + 1)
  BY DEF Next, vars, Tick, Retrieve, LockOrCreate, Insert, Unchanged, Revise, Commit,
         RejectOutOfOrder, Finish, Crash
<1> QED
  BY <1>1, <1>2, ConstantsAssumption DEF Instants

\* An observation that can be read as of t can be read as of every later
\* instant, in this state and the next.
LEMMA VisibleStays ==
    ASSUME IInv, IInv', [Next]_vars, NEW k \in Keys, NEW t \in Instants, NEW u \in Instants,
           t <= u, AsOf(k, t) # {}
    PROVE  AsOf(k, u)' # {}
<1>1. PICK v \in versions[k] : v.from <= t /\ ObservedOn[k] <= t
  BY DEF AsOf, KnownAt
<1>2. PICK x \in versions'[k] : SameRow(x, v)
  BY RowsKept
<1>3. v \in Version
  BY TypeFacts
<1>4. x.from <= u /\ ObservedOn[k] <= u
  BY <1>1, <1>2, <1>3, ConstantsAssumption DEF SameRow, Version, Instants
<1>5. \E y \in versions'[k] : Covers(y, u)'
  BY <1>4, <1>2 DEF IInv, CoverInv
<1> QED
  BY <1>4, <1>5 DEF AsOf, KnownAt, Covers

LEMMA VisibleStaysNow ==
    ASSUME IInv, NEW k \in Keys, NEW t \in Instants, NEW u \in Instants,
           t <= u, AsOf(k, t) # {}
    PROVE  AsOf(k, u) # {}
<1>1. PICK v \in versions[k] : v.from <= t /\ ObservedOn[k] <= t
  BY DEF AsOf, KnownAt
<1>2. v \in Version
  BY TypeFacts
<1>3. v.from <= u /\ ObservedOn[k] <= u
  BY <1>1, <1>2, ConstantsAssumption DEF Version, Instants
<1>4. \E y \in versions[k] : Covers(y, u)
  BY <1>3 DEF IInv, CoverInv
<1> QED
  BY <1>3, <1>4 DEF AsOf, KnownAt, Covers

\* Whoever asks for the latest observation never gets an older date than
\* before, however long the store has been written to.
THEOREM LatestOnlyAdvances == QuerySpec => LatestNeverRegresses
<1>1. ASSUME IInv, IInv', [Next]_vars, NEW d \in LatestDates(clock)
      PROVE  \E e \in LatestDates(clock)' : d <= e
  <2>1. PICK k \in Keys : AsOf(k, clock) # {} /\ d = ObservedOn[k]
    BY <1>1 DEF LatestDates
  <2>2. \A u \in Instants : clock <= u => AsOf(k, u)' # {}
    BY <1>1, <2>1, ClockAdvances, VisibleStays
  <2>3. clock' \in Instants /\ clock <= clock'
    BY <1>1, ClockAdvances
  <2>4. AsOf(k, clock)' # {}
    BY <2>2, <2>3 DEF AsOf, KnownAt
  <2>5. d \in LatestDates(clock)' /\ d <= d
    BY <2>1, <2>4, ConstantsAssumption DEF LatestDates
  <2> QED
    BY <2>5
<1>2. IInv /\ IInv' /\ [QueryNext]_queryVars =>
        [\A d \in LatestDates(clock) : \E e \in LatestDates(clock)' : d <= e]_queryVars
  BY <1>1, StoreStep
<1> QED
  BY <1>2, StoreInvariance, PTL DEF QuerySpec, LatestNeverRegresses

-----------------------------------------------------------------------------
(***************************************************************************)
(* The rows of a page.                                                     *)
(***************************************************************************)
\* A store that has been written to finitely often has finitely many rows.
Known == {k \in Keys : versions[k] # {}}

FiniteInv == IsFiniteSet(Known)

LEMMA StepFinite ==
    ASSUME IInv, FiniteInv, [Next]_vars
    PROVE  FiniteInv'
<1>1. CASE \A k \in Keys : versions'[k] = versions[k]
  <2>1. Known' = Known
    BY <1>1 DEF Known
  <2> QED
    BY <2>1 DEF FiniteInv
<1>2. ASSUME NEW k \in Keys, versions'[k] # versions[k] PROVE FiniteInv'
  <2>1. PICK w \in Writers : Commits(w, k)
    BY <1>2, StepOnKey
  <2>2. \A j \in Keys : j # k => versions'[j] = versions[j]
    BY <2>1, OneKeyAtATime
  <2>3. Known' \subseteq Known \cup {k}
    BY <2>2 DEF Known
  <2>4. IsFiniteSet(Known \cup {k})
    BY FS_AddElement DEF FiniteInv
  <2>5. IsFiniteSet(Known')
    BY <2>3, <2>4, FS_Subset
  <2> QED
    BY <2>5 DEF FiniteInv
<1> QED
  BY <1>1, <1>2

Rows(t, cursor) ==
    {x \in Keys \X UNION {AsOf(k, t) : k \in Keys} :
        After(x[1], cursor) /\ x[2] \in AsOf(x[1], t)}

LEMMA RowFacts ==
    ASSUME IInv, NEW t \in Instants, NEW c \in Nat, NEW x \in Rows(t, c)
    PROVE  /\ x = <<x[1], x[2]>>
           /\ x[1] \in Keys /\ x[2] \in AsOf(x[1], t) /\ x[2] \in Version
           /\ Position[x[1]] \in Nat /\ c < Position[x[1]]
           /\ AsOf(x[1], t) = {x[2]}
<1>1. x[1] \in Keys /\ x[2] \in AsOf(x[1], t) /\ Position[x[1]] > c /\ x = <<x[1], x[2]>>
  BY DEF Rows, After
<1>2. x[2] \in versions[x[1]] /\ AsOf(x[1], t) = KnownAt(x[1], t)
  BY <1>1 DEF AsOf, KnownAt
<1>3. x[2] \in Version
  BY <1>1, <1>2, TypeFacts
<1>4. KnownAt(x[1], t) = {x[2]}
  BY <1>1, <1>2, KnownIsUnique
<1> QED
  BY <1>1, <1>2, <1>3, <1>4, QueryAssumption

\* At one instant a row is determined by its position.
LEMMA RowsByPosition ==
    ASSUME IInv, NEW t \in Instants, NEW c \in Nat, NEW x \in Rows(t, c), NEW y \in Rows(t, c),
           Position[x[1]] = Position[y[1]]
    PROVE  x = y
<1>1. x[1] = y[1]
  BY RowFacts, QueryAssumption
<1>2. AsOf(x[1], t) = {x[2]} /\ AsOf(x[1], t) = {y[2]}
  BY <1>1, RowFacts
<1>3. x = <<x[1], x[2]>> /\ y = <<y[1], y[2]>>
  BY RowFacts
<1> QED
  BY <1>1, <1>2, <1>3

LEMMA RowsFinite ==
    ASSUME IInv, FiniteInv, NEW t \in Instants, NEW c \in Nat
    PROVE  IsFiniteSet(Rows(t, c)) /\ Cardinality(Rows(t, c)) \in Nat
<1> DEFINE R == Rows(t, c)
           f == [x \in R |-> x[1]]
<1>1. ASSUME NEW x \in R PROVE x[1] \in Known
  <2>1. x[1] \in Keys /\ x[2] \in AsOf(x[1], t)
    BY RowFacts
  <2> QED
    BY <2>1 DEF Known, AsOf, KnownAt
<1>2. f \in [R -> Known]
  BY <1>1
<1>3. \A x, y \in R : f[x] = f[y] => x = y
  BY RowsByPosition
<1>4. f \in Injection(R, Known)
  BY <1>2, <1>3 DEF Injection, IsInjective
<1> HIDE DEF R, f
<1>5. IsFiniteSet(R)
  BY <1>4, FS_Injection DEF FiniteInv
<1> QED
  BY <1>5, FS_CardinalityType DEF R

\* The rows can be put in order: a row comes where the number of rows up to it
\* says.
LEMMA RowsCanBeOrdered ==
    ASSUME IInv, FiniteInv, NEW t \in Instants, NEW c \in Nat
    PROVE  \E s \in [1..Cardinality(Rows(t, c)) -> Rows(t, c)] :
                \A i, j \in DOMAIN s : i < j => Precedes(s[i], s[j])
<1> DEFINE R == Rows(t, c)
           n == Cardinality(R)
           P(x) == Position[x[1]]
           UpTo(x) == {y \in R : P(y) <= P(x)}
           rank == [x \in R |-> Cardinality(UpTo(x))]
<1>1. IsFiniteSet(R) /\ n \in Nat
  BY RowsFinite
<1>2. \A x \in R : P(x) \in Nat
  BY RowFacts
<1>3. \A x, y \in R : P(x) = P(y) => x = y
  BY RowsByPosition
<1> HIDE DEF R, n, P
<1>4. ASSUME NEW x \in R PROVE IsFiniteSet(UpTo(x)) /\ Cardinality(UpTo(x)) \in 1..n
  <2>1. UpTo(x) \in SUBSET R /\ x \in UpTo(x)
    BY <1>2
  <2>2. IsFiniteSet(UpTo(x)) /\ Cardinality(UpTo(x)) <= n
    BY <1>1, <2>1, FS_Subset DEF n
  <2>3. Cardinality(UpTo(x)) \in Nat
    BY <2>2, FS_CardinalityType
  <2>4. Cardinality(UpTo(x)) # 0
    BY <2>1, <2>2, FS_EmptySet
  <2> QED
    BY <1>1, <2>2, <2>3, <2>4
<1>5. ASSUME NEW x \in R, NEW y \in R, P(x) < P(y)
      PROVE  Cardinality(UpTo(x)) < Cardinality(UpTo(y))
  <2>1. UpTo(x) \in SUBSET UpTo(y) /\ y \in UpTo(y) /\ y \notin UpTo(x)
    BY <1>2, <1>5
  <2>2. IsFiniteSet(UpTo(y)) /\ Cardinality(UpTo(x)) \in Nat /\ Cardinality(UpTo(y)) \in Nat
    BY <1>1, <1>4
  <2>3. UpTo(x) # UpTo(y)
    BY <2>1
  <2>4. Cardinality(UpTo(x)) <= Cardinality(UpTo(y)) /\ Cardinality(UpTo(x)) # Cardinality(UpTo(y))
    BY <2>1, <2>2, <2>3, FS_Subset
  <2> QED
    BY <2>2, <2>4
<1>6. rank \in [R -> 1..n]
  BY <1>4
<1>7. \A x, y \in R : rank[x] = rank[y] => x = y
  <2> SUFFICES ASSUME NEW x \in R, NEW y \in R, rank[x] = rank[y] PROVE x = y
    OBVIOUS
  <2>1. P(x) < P(y) \/ P(y) < P(x) \/ P(x) = P(y)
    BY <1>2
  <2>2. rank[x] \in Int /\ rank[y] \in Int
    BY <1>6
  <2>3. rank[x] = Cardinality(UpTo(x)) /\ rank[y] = Cardinality(UpTo(y))
    OBVIOUS
  <2> HIDE DEF rank, UpTo
  <2>4. ASSUME P(x) < P(y) PROVE FALSE
    <3>1. rank[x] < rank[y]
      BY <1>5, <2>3, <2>4
    <3> QED
      BY <2>2, <3>1
  <2>5. ASSUME P(y) < P(x) PROVE FALSE
    <3>1. rank[y] < rank[x]
      BY <1>5, <2>3, <2>5
    <3> QED
      BY <2>2, <3>1
  <2> QED
    BY <1>3, <2>1, <2>4, <2>5
<1>8. rank \in Injection(R, 1..n)
  BY <1>6, <1>7 DEF Injection, IsInjective
<1>9. ASSUME NEW x \in R, NEW y \in R, rank[x] < rank[y] PROVE P(x) < P(y)
  <2>1. P(x) < P(y) \/ P(y) < P(x) \/ P(x) = P(y)
    BY <1>2
  <2>2. rank[x] \in Int /\ rank[y] \in Int
    BY <1>6
  <2>3. rank[x] = Cardinality(UpTo(x)) /\ rank[y] = Cardinality(UpTo(y))
    OBVIOUS
  <2> HIDE DEF rank, UpTo
  <2> QED
    BY <1>3, <1>5, <1>9, <2>1, <2>2, <2>3
<1> HIDE DEF rank, UpTo
<1>10. IsFiniteSet(1..n) /\ Cardinality(1..n) = n
  BY <1>1, FS_Interval
<1>11. rank \in Surjection(R, 1..n)
  BY <1>8, <1>10, FS_Injection DEF n
<1>12. \A i \in 1..n : \E x \in R : rank[x] = i
  BY <1>11 DEF Surjection
<1> DEFINE s == [i \in 1..n |-> CHOOSE x \in R : rank[x] = i]
<1>13. s \in [1..n -> R] /\ \A i \in 1..n : rank[s[i]] = i
  BY <1>12
<1> HIDE DEF s
<1>14. \A i, j \in DOMAIN s : i < j => Precedes(s[i], s[j])
  BY <1>9, <1>13 DEF Precedes, P
<1> QED
  BY <1>13, <1>14 DEF R, n

\* A page selects every row past the cursor, once, in order of position.
LEMMA SelectedFacts ==
    ASSUME IInv, FiniteInv, NEW t \in Instants, NEW c \in Nat
    PROVE  /\ Selected(t, c) \in Seq(Rows(t, c))
           /\ \A i, j \in 1..Len(Selected(t, c)) :
                i < j => Position[Selected(t, c)[i][1]] < Position[Selected(t, c)[j][1]]
           /\ \A x \in Rows(t, c) : \E i \in 1..Len(Selected(t, c)) : Selected(t, c)[i] = x
<1> DEFINE R == Rows(t, c)
           n == Cardinality(R)
           s == Selected(t, c)
<1>1. IsFiniteSet(R) /\ n \in Nat
  BY RowsFinite
<1>2. s = CHOOSE r \in [1..n -> R] : \A i, j \in DOMAIN r : i < j => Precedes(r[i], r[j])
  BY DEF Selected, Rows
<1>3. s \in [1..n -> R] /\ \A i, j \in DOMAIN s : i < j => Precedes(s[i], s[j])
  BY <1>2, RowsCanBeOrdered
<1> HIDE DEF R, n, s
<1>4. s \in Seq(R) /\ Len(s) = n /\ DOMAIN s = 1..n
  <2>1. s \in Seq(R)
    BY <1>1, <1>3, SeqDef
  <2>2. DOMAIN s = 1..n /\ DOMAIN s = 1..Len(s) /\ Len(s) \in Nat
    BY <1>3, <2>1, LenProperties
  <2> QED
    BY <1>1, <2>1, <2>2
<1>5. ASSUME NEW i \in 1..n, NEW j \in 1..n, i < j
      PROVE  Position[s[i][1]] < Position[s[j][1]]
  <2>1. s[i] \in R /\ s[j] \in R /\ Precedes(s[i], s[j])
    BY <1>3, <1>5
  <2>2. s[i][2].number \in Nat /\ s[j][2].number \in Nat
    BY <2>1, RowFacts DEF R, Version
  <2>3. s[i][1] = s[j][1] => s[i] = s[j]
    BY <2>1, RowsByPosition DEF R
  <2> QED
    BY <2>1, <2>2, <2>3 DEF Precedes
<1>6. s \in Injection(1..n, R)
  <2>1. \A i \in 1..n : Position[s[i][1]] \in Nat
    BY <1>3, RowFacts DEF R
  <2>2. \A i, j \in 1..n : s[i] = s[j] => i = j
    BY <1>1, <1>5, <2>1
  <2> QED
    BY <1>3, <2>2 DEF Injection, IsInjective
<1>7. IsFiniteSet(1..n) /\ Cardinality(1..n) = n
  BY <1>1, FS_Interval
<1>8. s \in Surjection(1..n, R)
  BY <1>1, <1>6, <1>7, FS_Injection DEF n
<1>9. \A x \in R : \E i \in 1..n : s[i] = x
  BY <1>8 DEF Surjection
<1> QED
  BY <1>4, <1>5, <1>9 DEF R, s


-----------------------------------------------------------------------------
(***************************************************************************)
(* A listing.                                                              *)
(***************************************************************************)
\* The part of the listing that has been covered.
Covered(k) == listing.more => Position[k] <= listing.cursor

Listed(k) == \E i \in DOMAIN listing.items : listing.items[i].key = k

\* Items are in order and not past the cursor; what was known at the first
\* request can still be read, and is an item once the cursor has passed it.
ListInv ==
    listing # NoListing =>
        /\ listing \in Listing
        /\ \A i, j \in DOMAIN listing.items :
                i < j => Position[listing.items[i].key] < Position[listing.items[j].key]
        /\ \A i \in DOMAIN listing.items : Covered(listing.items[i].key)
        /\ \A k \in listing.known :
                /\ AsOf(k, InstantOf(listing.asOf)) # {}
                /\ Covered(k) => Listed(k)

\* A listing of a settled instant has answers of that instant for items, of
\* every observation the cursor has passed.
SnapInv ==
    listing # NoListing /\ listing.settled =>
        /\ listing.asOf \in Instants /\ Settled(listing.asOf)
        /\ \A i \in DOMAIN listing.items :
                <<listing.items[i].number, listing.items[i].fingerprint>>
                    \in Answer(listing.items[i].key, listing.asOf)
        /\ \A k \in Keys : AsOf(k, listing.asOf) # {} /\ Covered(k) => Listed(k)

QueryInv == IInv /\ FiniteInv /\ ListInv /\ SnapInv

\* The rows selected for the next page, and how many of them it takes.
Page == Selected(InstantOf(listing.asOf), listing.cursor)

Taken == IF Len(Page) < PageSize THEN Len(Page) ELSE PageSize

LEMMA PageRows ==
    ASSUME IInv, FiniteInv, listing \in Listing
    PROVE  /\ InstantOf(listing.asOf) \in Instants /\ listing.cursor \in Nat
           /\ Page \in Seq(Rows(InstantOf(listing.asOf), listing.cursor))
           /\ Len(Page) \in Nat /\ Taken \in Nat /\ Taken <= Len(Page) /\ PageSize \in Nat \ {0}
           /\ \A i \in 1..Len(Page) :
                /\ Page[i] \in Rows(InstantOf(listing.asOf), listing.cursor)
                /\ Page[i][1] \in Keys /\ Page[i][2] \in Version /\ Position[Page[i][1]] \in Nat
           /\ Len(Page) > PageSize => Taken = PageSize /\ Taken \in 1..Len(Page)
<1> DEFINE t == InstantOf(listing.asOf)
           R == Rows(t, listing.cursor)
<1>1. t \in Instants /\ listing.cursor \in Nat
  BY TypeFacts DEF InstantOf, Listing
<1>2. Page \in Seq(R)
  BY <1>1, SelectedFacts DEF Page
<1>3. \A x \in R : x[1] \in Keys /\ x[2] \in Version /\ Position[x[1]] \in Nat
  BY <1>1, RowFacts
<1> HIDE DEF t, R
<1>4. Len(Page) \in Nat /\ PageSize \in Nat \ {0} /\ \A i \in 1..Len(Page) : Page[i] \in R
  BY <1>2, LenProperties, ElementOfSeq, QueryAssumption
<1>5. Taken \in Nat /\ Taken <= Len(Page)
  BY <1>4 DEF Taken
<1>6. Len(Page) > PageSize => Taken = PageSize /\ Taken \in 1..Len(Page)
  BY <1>4 DEF Taken
<1> QED
  BY <1>1, <1>2, <1>3, <1>4, <1>5, <1>6 DEF t, R

LEMMA PageItems ==
    ASSUME IInv, FiniteInv, listing \in Listing
    PROVE  /\ Views(Visible(Page)) \in Seq(View)
           /\ Len(Views(Visible(Page))) = Taken
           /\ \A i \in 1..Taken :
                /\ Views(Visible(Page))[i].key = Page[i][1]
                /\ Views(Visible(Page))[i].number = Page[i][2].number
                /\ Views(Visible(Page))[i].fingerprint = Page[i][2].fingerprint
<1> DEFINE page == Views(Visible(Page))
<1>1. /\ Visible(Page) \in Seq(Rows(InstantOf(listing.asOf), listing.cursor))
      /\ Len(Visible(Page)) = Taken /\ \A i \in 1..Taken : Visible(Page)[i] = Page[i]
  <2>1. Visible(Page) = SubSeq(Page, 1, Taken)
    BY DEF Visible, Taken
  <2> QED
    BY <2>1, PageRows, SubSeqProperties
<1>2. DOMAIN Visible(Page) = 1..Taken
  BY <1>1, LenProperties
<1>3. page = [i \in 1..Taken |->
          [key |-> Page[i][1], number |-> Page[i][2].number,
           fingerprint |-> Page[i][2].fingerprint]]
  BY <1>1, <1>2 DEF Views
<1> HIDE DEF page
<1>4. page \in [1..Taken -> View]
  <2>1. \A i \in 1..Taken : Page[i][1] \in Keys /\ Page[i][2] \in Version
    BY PageRows
  <2> QED
    BY <1>3, <2>1 DEF View, Version
<1>5. page \in Seq(View)
  BY <1>4, PageRows, SeqDef
<1>6. Len(page) = Taken
  <2>1. DOMAIN page = 1..Len(page) /\ Len(page) \in Nat /\ DOMAIN page = 1..Taken
    BY <1>4, <1>5, LenProperties
  <2> QED
    BY <2>1, PageRows
<1>7. \A i \in 1..Taken :
        /\ page[i].key = Page[i][1] /\ page[i].number = Page[i][2].number
        /\ page[i].fingerprint = Page[i][2].fingerprint
  BY <1>3
<1> QED
  BY <1>5, <1>6, <1>7 DEF page

\* What a page appends, and how it moves the cursor.
LEMMA PageFacts ==
    ASSUME IInv, FiniteInv, listing \in Listing, RequestPage
    PROVE  /\ listing' \in Listing
           /\ listing'.asOf = listing.asOf /\ listing'.settled = listing.settled
           /\ listing'.known = listing.known
           /\ DOMAIN listing.items = 1..Len(listing.items) /\ Len(listing.items) \in Nat
           /\ DOMAIN listing'.items = 1..(Len(listing.items) + Taken)
           /\ \A i \in 1..Len(listing.items) : listing'.items[i] = listing.items[i]
           /\ \A i \in 1..Taken :
                /\ listing'.items[Len(listing.items) + i].key = Page[i][1]
                /\ listing'.items[Len(listing.items) + i].number = Page[i][2].number
                /\ listing'.items[Len(listing.items) + i].fingerprint = Page[i][2].fingerprint
           /\ listing'.more <=> Len(Page) > PageSize
           /\ listing'.more => listing'.cursor = Position[Page[PageSize][1]]
<1> DEFINE page == Views(Visible(Page))
           all == listing.items \o page
           more == Len(Page) > PageSize
           cursor == IF more THEN Position[Page[PageSize][1]] ELSE listing.cursor
<1>1. listing' = [listing EXCEPT !.items = all, !.more = more, !.cursor = cursor]
  BY DEF RequestPage, NextCursor, Page
<1>0. more \in BOOLEAN
  OBVIOUS
<1>2. /\ page \in Seq(View) /\ Len(page) = Taken
      /\ \A i \in 1..Taken :
            /\ page[i].key = Page[i][1] /\ page[i].number = Page[i][2].number
            /\ page[i].fingerprint = Page[i][2].fingerprint
  BY PageItems
<1>3. cursor \in Nat
  BY PageRows DEF Listing
<1> HIDE DEF page, more, cursor
<1>4. /\ listing.items \in Seq(View) /\ Len(listing.items) \in Nat
      /\ DOMAIN listing.items = 1..Len(listing.items)
  BY LenProperties DEF Listing
<1>5. /\ all \in Seq(View) /\ Len(all) = Len(listing.items) + Taken
      /\ \A i \in 1..Len(all) :
            all[i] = IF i <= Len(listing.items) THEN listing.items[i]
                     ELSE page[i - Len(listing.items)]
  <2>1. /\ all \in Seq(View) /\ Len(all) = Len(listing.items) + Len(page)
        /\ \A i \in 1..(Len(listing.items) + Len(page)) :
              all[i] = IF i <= Len(listing.items) THEN listing.items[i]
                       ELSE page[i - Len(listing.items)]
    BY <1>2, <1>4, ConcatProperties
  <2> QED
    BY <1>2, <2>1
<1>6. Taken \in Nat
  BY PageRows
<1>7. listing'.items = all
  BY <1>1 DEF Listing
<1> HIDE DEF all
<1>8. \A i \in 1..Len(listing.items) : all[i] = listing.items[i]
  BY <1>4, <1>5, <1>6
<1>9. \A i \in 1..Taken : all[Len(listing.items) + i] = page[i]
  BY <1>4, <1>5, <1>6
<1>10. /\ listing'.more = more /\ listing'.cursor = cursor
       /\ listing'.asOf = listing.asOf /\ listing'.settled = listing.settled
       /\ listing'.known = listing.known
  BY <1>1 DEF Listing
<1>11. listing' \in Listing
  BY <1>0, <1>1, <1>3, <1>5 DEF Listing
<1>12. DOMAIN all = 1..Len(all)
  BY <1>5, LenProperties
<1>13. \A i \in 1..Taken :
            /\ all[Len(listing.items) + i].key = Page[i][1]
            /\ all[Len(listing.items) + i].number = Page[i][2].number
            /\ all[Len(listing.items) + i].fingerprint = Page[i][2].fingerprint
  BY <1>2, <1>9
<1>14. listing'.more => listing'.cursor = Position[Page[PageSize][1]]
  BY <1>10 DEF cursor
<1>15. listing'.more <=> Len(Page) > PageSize
  BY <1>10 DEF more
<1> QED
  BY <1>4, <1>5, <1>7, <1>8, <1>10, <1>11, <1>12, <1>13, <1>14, <1>15

\* A page lists whatever it moves the cursor past.
LEMMA PageLists ==
    ASSUME IInv, FiniteInv, listing \in Listing, listing.more, RequestPage,
           NEW k \in Keys, AsOf(k, InstantOf(listing.asOf)) # {}, Covered(k) => Listed(k),
           Covered(k)'
    PROVE  Listed(k)'
<1> DEFINE t == InstantOf(listing.asOf)
           c == listing.cursor
<1>1. t \in Instants /\ c \in Nat /\ Position[k] \in Nat
  BY PageRows, QueryAssumption
<1>2. CASE Position[k] <= c
  <2>1. PICK i \in 1..Len(listing.items) : listing.items[i].key = k
    BY <1>2, PageFacts DEF Covered, Listed
  <2>2. listing'.items[i].key = k /\ i \in DOMAIN listing'.items
    BY <2>1, PageFacts, PageRows
  <2> QED
    BY <2>2 DEF Listed
<1>3. CASE ~(Position[k] <= c)
  <2>1. PICK v \in AsOf(k, t) : TRUE
    OBVIOUS
  <2>2. <<k, v>> \in Rows(t, c)
    BY <1>1, <1>3, <2>1 DEF Rows, After
  <2>3. PICK p \in 1..Len(Page) : Page[p] = <<k, v>>
    BY <1>1, <2>2, SelectedFacts DEF Page
  <2>4. CASE p <= Taken
    <3>1. p \in 1..Taken
      BY <2>3, <2>4, PageRows
    <3>2. listing'.items[Len(listing.items) + p].key = k
      BY <2>3, <3>1, PageFacts
    <3>3. Len(listing.items) + p \in DOMAIN listing'.items
      BY <3>1, PageFacts, PageRows
    <3> QED
      BY <3>2, <3>3 DEF Listed
  <2>5. CASE ~(p <= Taken)
    <3>1. Len(Page) > PageSize /\ Taken = PageSize /\ PageSize \in 1..Len(Page) /\ PageSize < p
      BY <2>3, <2>5, PageRows DEF Taken
    <3>2. Position[Page[PageSize][1]] < Position[Page[p][1]]
      BY <1>1, <3>1, SelectedFacts DEF Page
    <3>3. Position[k] <= Position[Page[PageSize][1]]
      BY <3>1, PageFacts DEF Covered
    <3>4. Position[Page[PageSize][1]] \in Nat
      BY <3>1, PageRows
    <3> QED
      BY <1>1, <2>3, <3>2, <3>3, <3>4
  <2> QED
    BY <2>4, <2>5
<1> QED
  BY <1>2, <1>3

\* Every item of the listing after a page is an earlier item or a row.
LEMMA NewItem ==
    ASSUME IInv, FiniteInv, listing \in Listing, RequestPage, NEW i \in DOMAIN listing'.items
    PROVE  \/ i \in DOMAIN listing.items /\ listing'.items[i] = listing.items[i]
           \/ \E p \in 1..Taken : i = Len(listing.items) + p
<1>1. i \in 1..(Len(listing.items) + Taken) /\ Len(listing.items) \in Nat /\ Taken \in Nat
  BY PageFacts, PageRows
<1>2. CASE i <= Len(listing.items)
  BY <1>1, <1>2, PageFacts
<1>3. CASE i > Len(listing.items)
  <2>1. i - Len(listing.items) \in 1..Taken /\ i = Len(listing.items) + (i - Len(listing.items))
    BY <1>1, <1>3
  <2> QED
    BY <2>1
<1> QED
  BY <1>1, <1>2, <1>3

LEMMA PageInOrder ==
    ASSUME IInv, FiniteInv, ListInv, listing # NoListing, listing.more, RequestPage,
           NEW i \in DOMAIN listing'.items, NEW j \in DOMAIN listing'.items, i < j
    PROVE  Position[listing'.items[i].key] < Position[listing'.items[j].key]
<1> DEFINE n == Len(listing.items)
<1>0. listing \in Listing
  BY DEF ListInv
<1>1. n \in Nat /\ DOMAIN listing.items = 1..n
  BY <1>0, PageFacts
<1>2. ASSUME NEW p \in 1..Taken
      PROVE  /\ listing'.items[n + p].key = Page[p][1] /\ p \in 1..Len(Page)
             /\ Position[Page[p][1]] \in Nat /\ listing.cursor < Position[Page[p][1]]
  <2>1. listing'.items[n + p].key = Page[p][1]
    BY <1>0, PageFacts
  <2>2. p \in 1..Len(Page)
    BY <1>0, PageRows
  <2>3. Page[p] \in Rows(InstantOf(listing.asOf), listing.cursor)
    BY <1>0, <2>2, PageRows
  <2>4. InstantOf(listing.asOf) \in Instants /\ listing.cursor \in Nat
    BY <1>0, PageRows
  <2>5. Position[Page[p][1]] \in Nat /\ listing.cursor < Position[Page[p][1]]
    BY <2>3, <2>4, RowFacts
  <2> QED
    BY <2>1, <2>2, <2>5
<1>3. \A m \in 1..n : /\ Position[listing.items[m].key] <= listing.cursor
                      /\ Position[listing.items[m].key] \in Nat
  <2> TAKE m \in 1..n
  <2>1. listing.items[m] \in View
    BY <1>0, <1>1, ElementOfSeq DEF Listing
  <2> QED
    BY <1>1, <2>1, QueryAssumption DEF ListInv, Covered, View
<1>4. listing.cursor \in Nat
  BY <1>0, PageRows
<1>5. CASE i \in 1..n /\ j \in 1..n
  BY <1>0, <1>1, <1>5, PageFacts DEF ListInv
<1>6. ASSUME i \in 1..n, NEW q \in 1..Taken, j = n + q
      PROVE  Position[listing'.items[i].key] < Position[listing'.items[j].key]
  <2>1. listing'.items[i] = listing.items[i]
    BY <1>0, <1>6, PageFacts
  <2>2. Position[listing.items[i].key] <= listing.cursor /\ Position[listing.items[i].key] \in Nat
    BY <1>3, <1>6
  <2> QED
    BY <1>2, <1>4, <1>6, <2>1, <2>2
<1>7. ASSUME NEW p \in 1..Taken, NEW q \in 1..Taken, i = n + p, j = n + q
      PROVE  Position[listing'.items[i].key] < Position[listing'.items[j].key]
  <2>1. p < q
    BY <1>1, <1>7
  <2>2. p \in 1..Len(Page) /\ q \in 1..Len(Page)
    BY <1>2
  <2>3. InstantOf(listing.asOf) \in Instants
    BY <1>0, PageRows
  <2>4. Position[Page[p][1]] < Position[Page[q][1]]
    BY <1>4, <2>1, <2>2, <2>3, SelectedFacts DEF Page
  <2> QED
    BY <1>2, <1>7, <2>4
<1>8. ASSUME NEW p \in 1..Taken, i = n + p, j \in 1..n PROVE FALSE
  BY <1>1, <1>8
<1>9. /\ i \in 1..n \/ \E p \in 1..Taken : i = n + p
      /\ j \in 1..n \/ \E p \in 1..Taken : j = n + p
  BY <1>0, <1>1, NewItem
<1> HIDE DEF n
<1> QED
  BY <1>5, <1>6, <1>7, <1>8, <1>9

LEMMA PageCovers ==
    ASSUME IInv, FiniteInv, ListInv, listing # NoListing, listing.more, RequestPage,
           NEW i \in DOMAIN listing'.items
    PROVE  Covered(listing.items[i].key)'
<1> SUFFICES ASSUME listing'.more PROVE Position[listing'.items[i].key] <= listing'.cursor
  BY DEF Covered
<1> DEFINE n == Len(listing.items)
<1>0. listing \in Listing
  BY DEF ListInv
<1>1. Len(Page) > PageSize /\ listing'.cursor = Position[Page[PageSize][1]]
  BY <1>0, PageFacts
<1>2. PageSize \in Nat /\ Taken = PageSize /\ PageSize \in 1..Taken /\ PageSize \in 1..Len(Page)
  BY <1>0, <1>1, PageRows
<1>3. n \in Nat /\ DOMAIN listing.items = 1..n
  BY <1>0, PageFacts
<1>4. ASSUME i \in 1..n PROVE Position[listing'.items[i].key] <= listing'.cursor
  <2>1. listing'.items[i] = listing.items[i] /\ listing.items[i] \in View
    BY <1>0, <1>4, PageFacts, ElementOfSeq DEF Listing
  <2>2. Position[listing.items[i].key] <= listing.cursor /\ Position[listing.items[i].key] \in Nat
    BY <1>3, <1>4, <2>1, QueryAssumption DEF ListInv, Covered, View
  <2>3. Page[PageSize] \in Rows(InstantOf(listing.asOf), listing.cursor)
    BY <1>0, <1>2, PageRows
  <2>4. /\ InstantOf(listing.asOf) \in Instants /\ listing.cursor \in Nat
    BY <1>0, PageRows
  <2>5. listing.cursor < Position[Page[PageSize][1]] /\ Position[Page[PageSize][1]] \in Nat
    BY <2>3, <2>4, RowFacts
  <2> QED
    BY <1>1, <2>1, <2>2, <2>4, <2>5
<1>5. ASSUME NEW p \in 1..Taken, i = n + p
      PROVE  Position[listing'.items[i].key] <= listing'.cursor
  <2>1. listing'.items[i].key = Page[p][1] /\ p \in 1..Len(Page) /\ p <= PageSize
    BY <1>0, <1>2, <1>5, PageFacts, PageRows
  <2>2. InstantOf(listing.asOf) \in Instants /\ listing.cursor \in Nat
    BY <1>0, PageRows
  <2>3. p < PageSize => Position[Page[p][1]] < Position[Page[PageSize][1]]
    BY <1>2, <2>1, <2>2, SelectedFacts DEF Page
  <2>4. Position[Page[p][1]] \in Nat /\ Position[Page[PageSize][1]] \in Nat
    BY <1>0, <1>2, <2>1, PageRows
  <2>5. p = PageSize \/ p < PageSize
    BY <1>2, <1>5, <2>1
  <2> QED
    BY <1>1, <2>1, <2>3, <2>4, <2>5
<1> QED
  BY <1>0, <1>3, <1>4, <1>5, NewItem


\* A page leaves the store alone.
LEMMA PageStore ==
    ASSUME RequestPage
    PROVE  /\ UNCHANGED vars /\ listing # NoListing /\ listing.more
           /\ \A k \in Keys, t \in Instants :
                AsOf(k, t)' = AsOf(k, t) /\ Answer(k, t)' = Answer(k, t)
           /\ \A t \in Instants : Settled(t) => Settled(t)'
  BY DEF RequestPage, vars, AsOf, KnownAt, Answer, Settled

LEMMA PageListInv ==
    ASSUME IInv, FiniteInv, ListInv, RequestPage
    PROVE  ListInv'
<1>0. listing # NoListing /\ listing \in Listing /\ listing.more
  BY PageStore DEF ListInv
<1>1. InstantOf(listing.asOf) \in Instants /\ InstantOf(listing.asOf)' = InstantOf(listing.asOf)
  BY <1>0, PageRows, PageFacts, PageStore DEF InstantOf, vars
<1>2. ASSUME NEW k \in listing'.known
      PROVE  /\ AsOf(k, InstantOf(listing.asOf))' # {}
             /\ Covered(k)' => Listed(k)'
  <2>1. k \in listing.known /\ k \in Keys
    BY <1>0, <1>2, PageFacts DEF Listing
  <2>2. AsOf(k, InstantOf(listing.asOf)) # {} /\ (Covered(k) => Listed(k))
    BY <1>0, <2>1 DEF ListInv
  <2>3. AsOf(k, InstantOf(listing.asOf))' = AsOf(k, InstantOf(listing.asOf))
    BY <1>0, PageFacts, PageStore DEF AsOf, KnownAt, InstantOf, vars
  <2> QED
    BY <1>0, <2>1, <2>2, <2>3, PageLists
<1>3. \A i \in DOMAIN listing'.items : Covered(listing.items[i].key)'
  BY <1>0, PageCovers
<1>4. \A i, j \in DOMAIN listing'.items :
            i < j => Position[listing'.items[i].key] < Position[listing'.items[j].key]
  BY <1>0, PageInOrder
<1>5. listing' \in Listing
  BY <1>0, PageFacts
<1> QED
  BY <1>2, <1>3, <1>4, <1>5 DEF ListInv

LEMMA PageSnapInv ==
    ASSUME IInv, FiniteInv, ListInv, SnapInv, RequestPage
    PROVE  SnapInv'
<1> SUFFICES ASSUME listing'.settled
             PROVE  /\ listing'.asOf \in Instants /\ Settled(listing.asOf)'
                    /\ \A i \in DOMAIN listing'.items :
                            <<listing'.items[i].number, listing'.items[i].fingerprint>>
                                \in Answer(listing.items[i].key, listing.asOf)'
                    /\ \A k \in Keys : AsOf(k, listing.asOf)' # {} /\ Covered(k)' => Listed(k)'
  BY DEF SnapInv
<1> DEFINE t == listing.asOf
<1>0. listing # NoListing /\ listing \in Listing /\ listing.more
  BY PageStore DEF ListInv
<1>1. listing'.asOf = t /\ listing.settled
  BY <1>0, PageFacts
<1>2. t \in Instants /\ Settled(t) /\ InstantOf(t) = t
  BY <1>0, <1>1 DEF SnapInv, InstantOf, Instants, Null
<1>3. Settled(listing.asOf)'
  BY <1>1, <1>2, PageStore DEF Settled, vars
<1>4. ASSUME NEW i \in DOMAIN listing'.items
      PROVE  <<listing'.items[i].number, listing'.items[i].fingerprint>>
                \in Answer(listing'.items[i].key, t)
  <2>1. CASE i \in DOMAIN listing.items /\ listing'.items[i] = listing.items[i]
    BY <1>0, <1>1, <2>1 DEF SnapInv
  <2>2. ASSUME NEW p \in 1..Taken, i = Len(listing.items) + p
        PROVE  <<listing'.items[i].number, listing'.items[i].fingerprint>>
                \in Answer(listing'.items[i].key, t)
    <3>1. /\ listing'.items[i].key = Page[p][1] /\ listing'.items[i].number = Page[p][2].number
          /\ listing'.items[i].fingerprint = Page[p][2].fingerprint
      BY <1>0, <2>2, PageFacts
    <3>2. Page[p] \in Rows(t, listing.cursor)
      BY <1>0, <1>2, PageRows
    <3>3. Page[p][2] \in AsOf(Page[p][1], t)
      BY <1>0, <1>2, <3>2, PageRows, RowFacts
    <3> QED
      BY <3>1, <3>3 DEF Answer
  <2> QED
    BY <1>0, <2>1, <2>2, NewItem
<1>5. ASSUME NEW k \in Keys, AsOf(k, t) # {}, Covered(k)' PROVE Listed(k)'
  <2>1. Covered(k) => Listed(k)
    BY <1>0, <1>1, <1>5 DEF SnapInv
  <2> QED
    BY <1>0, <1>2, <1>5, <2>1, PageLists
<1>6. \A i : Answer(listing.items[i].key, listing.asOf)' = Answer(listing'.items[i].key, t)
  BY <1>1, PageStore DEF Answer, AsOf, KnownAt, vars
<1>7. \A k \in Keys : AsOf(k, listing.asOf)' = AsOf(k, t)
  BY <1>1, PageStore DEF AsOf, KnownAt, vars
<1> QED
  BY <1>1, <1>2, <1>3, <1>4, <1>5, <1>6, <1>7

\* The first request.
LEMMA StartInv ==
    ASSUME IInv, NEW asOf \in Instants \cup {Null}, StartListing(asOf)
    PROVE  ListInv' /\ SnapInv'
<1>1. /\ UNCHANGED vars
      /\ listing' = [asOf |-> asOf, items |-> <<>>, cursor |-> Null, more |-> TRUE,
                     settled |-> asOf # Null /\ Settled(asOf),
                     known |-> {k \in Keys : AsOf(k, InstantOf(asOf)) # {}}]
  BY DEF StartListing
<1>2. listing' \in Listing /\ DOMAIN listing'.items = {}
  <2>1. <<>> \in Seq(View) /\ Null \in Nat /\ DOMAIN <<>> = {}
    BY EmptySeq DEF Null
  <2>2. \A x, y \in BOOLEAN :
            [asOf |-> asOf, items |-> <<>>, cursor |-> Null, more |-> TRUE, settled |-> x,
             known |-> {k \in Keys : AsOf(k, InstantOf(asOf)) # {}}] \in Listing
    BY <2>1 DEF Listing
  <2> QED
    BY <1>1, <2>1, <2>2
<1>3. \A k \in Keys : Covered(k)' => FALSE
  BY <1>1, QueryAssumption DEF Covered, Null
<1>4. \A k \in listing'.known : k \in Keys /\ AsOf(k, InstantOf(listing.asOf))' # {}
  BY <1>1 DEF AsOf, KnownAt, InstantOf, vars
<1>5. ListInv'
  BY <1>2, <1>3, <1>4 DEF ListInv
<1>6. listing'.settled => asOf \in Instants /\ Settled(asOf)
  BY <1>1
<1>7. listing'.settled => listing'.asOf \in Instants /\ Settled(listing.asOf)'
  BY <1>1, <1>6 DEF Settled, vars
<1>8. SnapInv'
  BY <1>2, <1>3, <1>7 DEF SnapInv
<1> QED
  BY <1>5, <1>8

\* Writers and the passing of time take nothing away from a listing.
LEMMA StoreStepInv ==
    ASSUME IInv, IInv', ListInv, SnapInv, [Next]_vars, UNCHANGED listing
    PROVE  ListInv' /\ SnapInv'
<1>1. \A k : (Covered(k)' <=> Covered(k)) /\ (Listed(k)' <=> Listed(k))
  BY DEF Covered, Listed
<1>2. ASSUME listing # NoListing, NEW k \in listing.known
      PROVE  AsOf(k, InstantOf(listing.asOf))' # {}
  <2>1. k \in Keys /\ listing.asOf \in Instants \cup {Null}
    BY <1>2 DEF ListInv, Listing
  <2>2. /\ InstantOf(listing.asOf) \in Instants /\ InstantOf(listing.asOf)' \in Instants
        /\ InstantOf(listing.asOf) <= InstantOf(listing.asOf)'
    BY <2>1, ClockAdvances DEF InstantOf, Instants
  <2>3. AsOf(k, InstantOf(listing.asOf)) # {}
    BY <1>2 DEF ListInv
  <2>4. \A u \in Instants : InstantOf(listing.asOf) <= u => AsOf(k, u)' # {}
    BY <2>1, <2>2, <2>3, VisibleStays
  <2> QED
    BY <2>2, <2>4 DEF AsOf, KnownAt
<1>3. ListInv'
  BY <1>1, <1>2 DEF ListInv, Covered
<1>4. ASSUME listing # NoListing, listing.settled PROVE SnapInv'
  <2>1. listing.asOf \in Instants /\ Settled(listing.asOf)
    BY <1>4 DEF SnapInv
  <2>2. \A k \in Keys : Answer(k, listing.asOf)' = Answer(k, listing.asOf)
    <3>1. \A k \in Keys, t \in Instants : Settled(t) => Answer(k, t)' = Answer(k, t)
      BY SettledAnswerKept
    <3>2. listing'.asOf = listing.asOf
      OBVIOUS
    <3> QED
      BY <2>1, <3>1, <3>2 DEF Answer, AsOf, KnownAt
  <2>3. Settled(listing.asOf)'
    <3>1. \A t \in Instants : Settled(t) => Settled(t)'
      BY SettledStays
    <3> QED
      BY <2>1, <3>1 DEF Settled
  <2>4. \A k \in Keys : AsOf(k, listing.asOf)' # {} => AsOf(k, listing.asOf) # {}
    <3>1. \A k \in Keys : AsOf(k, listing.asOf)' # {} => Answer(k, listing.asOf)' # {}
      BY DEF Answer
    <3>2. \A k \in Keys : Answer(k, listing.asOf) # {} => AsOf(k, listing.asOf) # {}
      BY DEF Answer
    <3> QED
      BY <2>2, <3>1, <3>2
  <2>5. \A i \in DOMAIN listing.items : listing.items[i].key \in Keys
    <3> TAKE i \in DOMAIN listing.items
    <3>1. listing.items \in Seq(View)
      BY <1>4 DEF ListInv, Listing
    <3>2. listing.items[i] \in View
      BY <3>1, LenProperties, ElementOfSeq
    <3> QED
      BY <3>2 DEF View
  <2>6. \A i \in DOMAIN listing.items :
            Answer(listing.items[i].key, listing.asOf)' = Answer(listing.items[i].key, listing.asOf)
    BY <2>2, <2>5 DEF Answer, AsOf, KnownAt
  <2> QED
    BY <1>1, <1>4, <2>1, <2>3, <2>4, <2>6 DEF SnapInv
<1>5. ASSUME ~(listing # NoListing /\ listing.settled) PROVE SnapInv'
  BY <1>5 DEF SnapInv
<1> QED
  BY <1>3, <1>4, <1>5

\* A listing keeps its order, its cursor and what it owes its client, whatever
\* is committed between two of its pages.
THEOREM QueryInvariance == QuerySpec => []QueryInv
<1>1. QueryInit => QueryInv
  <2> SUFFICES ASSUME QueryInit PROVE QueryInv
    OBVIOUS
  <2>1. Known = {}
    BY DEF QueryInit, Init, Known
  <2> QED
    BY <2>1, InitIInv, FS_EmptySet DEF QueryInit, QueryInv, FiniteInv, ListInv, SnapInv
<1>2. QueryInv /\ [QueryNext]_queryVars => QueryInv'
  <2> SUFFICES ASSUME QueryInv, [QueryNext]_queryVars PROVE QueryInv'
    OBVIOUS
  <2>0. IInv /\ FiniteInv /\ ListInv /\ SnapInv /\ [Next]_vars
    BY StoreStep DEF QueryInv
  <2>1. IInv' /\ FiniteInv'
    BY <2>0, NextIInv, StepFinite
  <2>2. CASE UNCHANGED listing
    BY <2>0, <2>1, <2>2, StoreStepInv DEF QueryInv
  <2>3. CASE RequestPage
    BY <2>0, <2>1, <2>3, PageListInv, PageSnapInv DEF QueryInv
  <2>4. ASSUME NEW asOf \in Instants \cup {Null}, StartListing(asOf) PROVE QueryInv'
    BY <2>0, <2>1, <2>4, StartInv DEF QueryInv
  <2> QED
    BY <2>2, <2>3, <2>4 DEF QueryNext, queryVars
<1> QED
  BY <1>1, <1>2, PTL DEF QuerySpec

\* Revising observations between two pages makes no client see one of them
\* twice, go back, or miss what was there when it started.
THEOREM PagesAreComplete == QuerySpec => []PagesNeitherRepeatNorDrop
<1>1. QueryInv => PagesNeitherRepeatNorDrop
  BY DEF QueryInv, ListInv, PagesNeitherRepeatNorDrop, Covered, Listed
<1> QED
  BY <1>1, QueryInvariance, PTL


-----------------------------------------------------------------------------
(***************************************************************************)
(* A settled listing is a prefix of one snapshot.                          *)
(***************************************************************************)
LEMMA LeastNat ==
    ASSUME NEW S \in SUBSET Nat, S # {}
    PROVE  \E x \in S : \A y \in S : x <= y
<1>1. PICK x \in S : \A y \in S : ~(<<y, x>> \in OpToRel(<, Nat))
  BY NatLessThanWellFounded, WFMin
<1>2. \A y \in S : ~(y < x)
  BY <1>1 DEF OpToRel
<1> QED
  BY <1>2

LEMMA SameInterval ==
    ASSUME NEW m \in Nat, NEW n \in Nat, 1..m = 1..n
    PROVE  m = n
  OBVIOUS

Snapshot == Selected(listing.asOf, Null)

\* The two sequences the theorem compares.
LEMMA SnapshotFacts ==
    ASSUME QueryInv, listing # NoListing, listing.settled
    PROVE  /\ listing.asOf \in Instants /\ Len(Snapshot) \in Nat /\ Len(listing.items) \in Nat
           /\ DOMAIN listing.items = 1..Len(listing.items) /\ listing.items \in Seq(View)
           /\ Snapshot \in Seq(Rows(listing.asOf, Null))
           /\ \A i \in 1..Len(listing.items) :
                /\ listing.items[i] \in View
                /\ <<listing.items[i].number, listing.items[i].fingerprint>>
                        \in Answer(listing.items[i].key, listing.asOf)
                /\ AsOf(listing.items[i].key, listing.asOf) # {}
                /\ Covered(listing.items[i].key)
           /\ \A k \in Keys : AsOf(k, listing.asOf) # {} => \E p \in 1..Len(Snapshot) :
                Snapshot[p][1] = k
           /\ \A i \in 1..Len(Snapshot) :
                /\ Snapshot[i][1] \in Keys /\ Snapshot[i][2] \in Version
                /\ AsOf(Snapshot[i][1], listing.asOf) = {Snapshot[i][2]}
<1> DEFINE t == listing.asOf
<1>1. t \in Instants /\ listing \in Listing /\ Null \in Nat
  BY DEF QueryInv, SnapInv, ListInv, Null
<1>2. /\ Snapshot \in Seq(Rows(t, Null))
      /\ \A x \in Rows(t, Null) : \E i \in 1..Len(Snapshot) : Snapshot[i] = x
  BY <1>1, SelectedFacts DEF Snapshot, QueryInv
<1>3. /\ listing.items \in Seq(View) /\ Len(listing.items) \in Nat
      /\ DOMAIN listing.items = 1..Len(listing.items) /\ Len(Snapshot) \in Nat
  BY <1>1, <1>2, LenProperties DEF Listing
<1>4. ASSUME NEW k \in Keys, AsOf(k, t) # {}
      PROVE  \E p \in 1..Len(Snapshot) : Snapshot[p][1] = k
  <2>1. PICK v \in AsOf(k, t) : TRUE
    BY <1>4
  <2>2. <<k, v>> \in Rows(t, Null)
    BY <2>1, QueryAssumption DEF Rows, After, Null
  <2> QED
    BY <1>2, <2>2
<1>5. ASSUME NEW i \in 1..Len(Snapshot)
      PROVE  /\ Snapshot[i][1] \in Keys /\ Snapshot[i][2] \in Version
             /\ AsOf(Snapshot[i][1], t) = {Snapshot[i][2]}
  <2>1. Snapshot[i] \in Rows(t, Null)
    BY <1>2, ElementOfSeq
  <2> QED
    BY <1>1, <2>1, RowFacts DEF QueryInv
<1>6. ASSUME NEW i \in 1..Len(listing.items)
      PROVE  /\ listing.items[i] \in View
             /\ <<listing.items[i].number, listing.items[i].fingerprint>>
                    \in Answer(listing.items[i].key, t)
             /\ AsOf(listing.items[i].key, t) # {}
             /\ Covered(listing.items[i].key)
  <2>1. /\ <<listing.items[i].number, listing.items[i].fingerprint>>
                    \in Answer(listing.items[i].key, t)
        /\ Covered(listing.items[i].key)
    BY <1>3 DEF QueryInv, SnapInv, ListInv
  <2>2. AsOf(listing.items[i].key, t) # {}
    BY <2>1 DEF Answer
  <2>3. listing.items[i] \in View
    BY <1>3, ElementOfSeq
  <2> QED
    BY <2>1, <2>2, <2>3
<1> QED
  BY <1>1, <1>2, <1>3, <1>4, <1>5, <1>6

\* Both are in the order of the positions.
LEMMA SnapshotOrder ==
    ASSUME QueryInv, listing # NoListing, listing.settled
    PROVE  /\ \A i, j \in 1..Len(Snapshot) :
                Position[Snapshot[i][1]] <= Position[Snapshot[j][1]] => i <= j
           /\ \A i, j \in 1..Len(listing.items) :
                Position[listing.items[i].key] <= Position[listing.items[j].key] => i <= j
<1>1. listing.asOf \in Instants /\ Null \in Nat
  BY SnapshotFacts DEF Null
<1>2. \A i, j \in 1..Len(Snapshot) :
            i < j => Position[Snapshot[i][1]] < Position[Snapshot[j][1]]
  BY <1>1, SelectedFacts DEF Snapshot, QueryInv
<1>3. \A i \in 1..Len(Snapshot) : Position[Snapshot[i][1]] \in Nat
  BY SnapshotFacts, QueryAssumption
<1>4. \A i, j \in 1..Len(Snapshot) :
            Position[Snapshot[i][1]] <= Position[Snapshot[j][1]] => i <= j
  <2> SUFFICES ASSUME NEW i \in 1..Len(Snapshot), NEW j \in 1..Len(Snapshot),
                      Position[Snapshot[i][1]] <= Position[Snapshot[j][1]], j < i
               PROVE  FALSE
    BY SnapshotFacts
  <2>1. Position[Snapshot[j][1]] < Position[Snapshot[i][1]]
    BY <1>2
  <2> QED
    BY <1>3, <2>1
<1>5. \A i, j \in 1..Len(listing.items) :
            i < j => Position[listing.items[i].key] < Position[listing.items[j].key]
  BY SnapshotFacts DEF QueryInv, ListInv
<1>6. \A i \in 1..Len(listing.items) : Position[listing.items[i].key] \in Nat
  BY SnapshotFacts, QueryAssumption DEF View
<1>7. \A i, j \in 1..Len(listing.items) :
            Position[listing.items[i].key] <= Position[listing.items[j].key] => i <= j
  <2> SUFFICES ASSUME NEW i \in 1..Len(listing.items), NEW j \in 1..Len(listing.items),
                      Position[listing.items[i].key] <= Position[listing.items[j].key], j < i
               PROVE  FALSE
    BY SnapshotFacts
  <2>1. Position[listing.items[j].key] < Position[listing.items[i].key]
    BY <1>5
  <2> QED
    BY <1>6, <2>1
<1> QED
  BY <1>4, <1>7

\* An item and a row of the same observation show the same version of it.
SameView(i) ==
    /\ i <= Len(Snapshot)
    /\ listing.items[i].key = Snapshot[i][1]
    /\ listing.items[i].number = Snapshot[i][2].number
    /\ listing.items[i].fingerprint = Snapshot[i][2].fingerprint

LEMMA SameKeySameView ==
    ASSUME QueryInv, listing # NoListing, listing.settled,
           NEW i \in 1..Len(listing.items), i \in 1..Len(Snapshot),
           listing.items[i].key = Snapshot[i][1]
    PROVE  SameView(i)
<1>1. AsOf(listing.items[i].key, listing.asOf) = {Snapshot[i][2]}
  BY SnapshotFacts
<1>2. <<listing.items[i].number, listing.items[i].fingerprint>>
            = <<Snapshot[i][2].number, Snapshot[i][2].fingerprint>>
  BY <1>1, SnapshotFacts DEF Answer
<1> QED
  BY <1>2 DEF SameView

\* Up to the first difference, which there is not, the two are the same.
LEMMA ItemsAreSnapshot ==
    ASSUME QueryInv, listing # NoListing, listing.settled
    PROVE  \A i \in 1..Len(listing.items) : SameView(i)
<1> DEFINE D == {i \in 1..Len(listing.items) : ~SameView(i)}
<1> SUFFICES ASSUME D # {} PROVE FALSE
  OBVIOUS
<1>1. D \in SUBSET Nat
  BY SnapshotFacts
<1>2. PICK i \in D : \A j \in D : i <= j
  BY <1>1, LeastNat
<1>3. i \in 1..Len(listing.items) /\ ~SameView(i)
  OBVIOUS
<1>4. \A j \in 1..Len(listing.items) : j < i => SameView(j)
  <2> TAKE j \in 1..Len(listing.items)
  <2>1. j \in Nat /\ i \in Nat
    BY <1>1, SnapshotFacts
  <2> QED
    BY <1>2, <2>1
<1> HIDE DEF D
<1> DEFINE k == listing.items[i].key
<1>5. k \in Keys /\ AsOf(k, listing.asOf) # {} /\ Covered(k)
  BY <1>3, SnapshotFacts DEF View
<1>6. PICK p \in 1..Len(Snapshot) : Snapshot[p][1] = k
  BY <1>5, SnapshotFacts
<1>7. ~(p < i)
  <2> SUFFICES ASSUME p < i PROVE FALSE
    OBVIOUS
  <2>1. p \in 1..Len(listing.items)
    BY <1>3, SnapshotFacts
  <2>2. listing.items[p].key = k
    BY <1>4, <1>6, <2>1 DEF SameView
  <2>3. Position[listing.items[i].key] <= Position[listing.items[p].key]
    BY <1>5, <2>2, QueryAssumption
  <2>4. i <= p
    BY <1>3, <2>1, <2>3, SnapshotOrder
  <2> QED
    BY <1>3, <2>1, <2>4, SnapshotFacts
<1>8. i \in 1..Len(Snapshot)
  BY <1>3, <1>6, <1>7, SnapshotFacts
<1> DEFINE j == Snapshot[i][1]
<1>9. j \in Keys /\ AsOf(j, listing.asOf) # {} /\ Position[j] <= Position[k]
  <2>1. j \in Keys /\ AsOf(j, listing.asOf) # {} /\ Position[j] \in Nat /\ Position[k] \in Nat
    BY <1>5, <1>8, SnapshotFacts, QueryAssumption
  <2>2. Position[j] > Position[k] => p <= i
    BY <1>6, <1>8, <2>1, SnapshotOrder
  <2>3. p = i => j = k
    BY <1>6
  <2> QED
    BY <1>3, <1>7, <2>1, <2>2, <2>3, SnapshotFacts
<1>10. Covered(j)
  BY <1>5, <1>9, QueryAssumption DEF Covered, QueryInv, ListInv, Listing
<1>11. PICK q \in 1..Len(listing.items) : listing.items[q].key = j
  BY <1>9, <1>10, SnapshotFacts DEF QueryInv, SnapInv, Listed
<1>12. q <= i
  BY <1>3, <1>9, <1>11, SnapshotOrder
<1>13. q = i
  <2> SUFFICES ASSUME q < i PROVE FALSE
    BY <1>3, <1>11, <1>12, SnapshotFacts
  <2>1. Snapshot[q][1] = j /\ q \in 1..Len(Snapshot)
    BY <1>4, <1>8, <1>11, SnapshotFacts DEF SameView
  <2>2. Position[Snapshot[i][1]] <= Position[Snapshot[q][1]]
    BY <1>9, <2>1, QueryAssumption
  <2>3. i <= q
    BY <1>8, <2>1, <2>2, SnapshotOrder
  <2> QED
    BY <1>3, <2>1, <2>3, SnapshotFacts
<1> QED
  BY <1>3, <1>8, <1>11, <1>13, SameKeySameView

\* Revisions committed between two pages do not show: the pages received so
\* far are the beginning of what one query at the settled as_of returns, and
\* the last page completes it.
THEOREM SettledListing == QuerySpec => []SettledListingIsSnapshot
<1>1. ASSUME QueryInv, listing # NoListing, listing.settled
      PROVE  LET snapshot == Views(Selected(listing.asOf, Null))
             IN  /\ IsPrefix(listing.items, snapshot)
                 /\ ~listing.more => listing.items = snapshot
  <2> DEFINE all == Views(Snapshot)
             n == Len(listing.items)
  <2>1. /\ n \in Nat /\ Len(Snapshot) \in Nat /\ listing.items \in Seq(View)
        /\ DOMAIN Snapshot = 1..Len(Snapshot)
    BY <1>1, SnapshotFacts, LenProperties
  <2>2. all = [i \in 1..Len(Snapshot) |->
            [key |-> Snapshot[i][1], number |-> Snapshot[i][2].number,
             fingerprint |-> Snapshot[i][2].fingerprint]]
    BY <2>1 DEF Views
  <2>3. all \in [1..Len(Snapshot) -> View]
    BY <1>1, <2>2, SnapshotFacts DEF View, Version
  <2> HIDE DEF all
  <2>4. all \in Seq(View) /\ Len(all) = Len(Snapshot)
    <3>1. all \in Seq(View)
      BY <2>1, <2>3, SeqDef
    <3>2. DOMAIN all = 1..Len(all) /\ Len(all) \in Nat /\ DOMAIN all = 1..Len(Snapshot)
      BY <2>3, <3>1, LenProperties
    <3>3. Len(all) = Len(Snapshot)
      BY <2>1, <3>2, SameInterval
    <3> QED
      BY <3>1, <3>3
  <2>5. \A i \in 1..n : i <= Len(all) /\ listing.items[i] = all[i]
    <3> TAKE i \in 1..n
    <3>1. SameView(i) /\ listing.items[i] \in View
      BY <1>1, ItemsAreSnapshot, SnapshotFacts
    <3>2. i \in 1..Len(Snapshot)
      BY <2>1, <3>1 DEF SameView
    <3>3. all[i] = [key |-> Snapshot[i][1], number |-> Snapshot[i][2].number,
                    fingerprint |-> Snapshot[i][2].fingerprint]
      BY <2>2, <3>2
    <3> QED
      BY <2>1, <2>4, <3>1, <3>2, <3>3 DEF SameView, View
  <2>6. n <= Len(all)
    BY <2>1, <2>4, <2>5
  <2>7. IsPrefix(listing.items, all)
    <3>1. SubSeq(listing.items, 1, n) \in Seq(View) /\ SubSeq(all, 1, n) \in Seq(View)
      BY <2>1, <2>4, <2>6, SubSeqProperties
    <3>2. Len(SubSeq(listing.items, 1, n)) = n /\ Len(SubSeq(all, 1, n)) = n
      BY <2>1, <2>4, <2>6, SubSeqProperties
    <3>3. \A i \in 1..n : SubSeq(listing.items, 1, n)[i] = listing.items[i]
                          /\ SubSeq(all, 1, n)[i] = all[i]
      BY <2>1, <2>4, <2>6, SubSeqProperties
    <3>4. SubSeq(listing.items, 1, n) = SubSeq(all, 1, n)
      BY <2>5, <3>1, <3>2, <3>3, SeqEqual
    <3> QED
      BY <2>6, <3>4 DEF IsPrefix
  <2>8. ASSUME ~listing.more PROVE listing.items = all
    <3>1. ASSUME n < Len(all) PROVE FALSE
      <4> DEFINE k == Snapshot[n + 1][1]
      <4>1. n + 1 \in 1..Len(Snapshot)
        BY <2>1, <2>4, <3>1
      <4>2. k \in Keys /\ AsOf(k, listing.asOf) # {} /\ Covered(k)
        BY <1>1, <2>8, <4>1, SnapshotFacts DEF Covered
      <4>3. PICK q \in 1..n : listing.items[q].key = k
        BY <1>1, <4>2, SnapshotFacts DEF QueryInv, SnapInv, Listed
      <4>4. Snapshot[q][1] = k /\ q \in 1..Len(Snapshot)
        BY <1>1, <2>1, <4>1, <4>3, ItemsAreSnapshot DEF SameView
      <4>5. Position[Snapshot[n + 1][1]] <= Position[Snapshot[q][1]]
        BY <4>2, <4>4, QueryAssumption
      <4>6. n + 1 <= q
        BY <1>1, <4>1, <4>4, <4>5, SnapshotOrder
      <4> QED
        BY <2>1, <4>3, <4>6
    <3>2. n = Len(all)
      BY <2>1, <2>4, <2>6, <3>1
    <3> QED
      BY <2>1, <2>4, <2>5, <3>2, SeqEqual
  <2> QED
    BY <2>7, <2>8 DEF all, Snapshot
<1>2. QueryInv => SettledListingIsSnapshot
  BY <1>1 DEF SettledListingIsSnapshot
<1> QED
  BY <1>2, QueryInvariance, PTL

=============================================================================
