--------------------------- MODULE ListingsProofs ---------------------------
(***************************************************************************)
(* Theorems about Listings, for any clients, pages and sizes, and tables   *)
(* of any length.  What a client has seen of a walk is related to the set  *)
(* "kept" of the rows that its filter lets through, and to their ranks.    *)
(***************************************************************************)
EXTENDS Listings, FiniteSetTheorems, FunctionTheorems, TLAPS

\* The rank of row i among the rows of "kept".
RankIn(kept, i) == Cardinality({j \in 1..i : j \in kept})

\* How far the pages that have been read go.
Reached(a) == IF a.phase = "read" THEN a.page * a.size ELSE (a.page - 1) * a.size

\* An undisturbed walk has seen, of the rows it began with, those whose rank it
\* has reached, nothing beyond, and nothing twice.
WalkFits(a, kept) ==
    Walks(a) /\ ~a.disturbed /\ a.phase \in {"count", "rows", "read"} =>
        /\ a.page >= 1
        /\ a.seen \subseteq kept /\ a.start \subseteq kept /\ a.again = {}
        /\ \A i \in a.seen : RankIn(kept, i) <= Reached(a)
        /\ \A i \in a.start : RankIn(kept, i) <= Reached(a) => i \in a.seen
        /\ a.phase \in {"rows", "read"} => \A i \in a.start : RankIn(kept, i) <= a.total

\* The directory's page is a slice, and of a valid page; nothing is counted.
SliceFits(a) ==
    /\ a.phase # "rows"
    /\ a.phase \in {"count", "read"} => a.page >= 1 /\ a.size >= 1
    /\ a.phase = "read" => a.items = Slice(a.page, a.size)

Fits(a) == WalkFits(a, Matching(a.filter)) /\ (endpoint = "users" => SliceFits(a))

IInv == TypeOK /\ \A c \in Clients : Fits(ask[c])

-----------------------------------------------------------------------------
(***************************************************************************)
(* Ranks                                                                   *)
(***************************************************************************)

\* A rank is a natural number, and no more than there are rows.
LEMMA RankBound ==
    ASSUME NEW n \in Nat, NEW kept \in SUBSET (1..n), NEW i \in kept
    PROVE  RankIn(kept, i) \in Nat /\ RankIn(kept, i) <= Cardinality(kept)
<1>1. IsFiniteSet(1..n)
  BY FS_Interval
<1>2. IsFiniteSet(kept) /\ Cardinality(kept) \in Nat
  BY <1>1, FS_Subset, FS_CardinalityType
<1> DEFINE S == {j \in 1..i : j \in kept}
<1>3. S \subseteq kept
  OBVIOUS
<1>4. IsFiniteSet(S) /\ Cardinality(S) <= Cardinality(kept)
  BY <1>2, <1>3, FS_Subset
<1>5. Cardinality(S) \in Nat
  BY <1>4, FS_CardinalityType
<1> QED  BY <1>4, <1>5 DEF RankIn

\* Where all rows are kept, the rank of a row is its place.
LEMMA RankOfAll ==
    ASSUME NEW n \in Nat, NEW i \in 1..n
    PROVE  RankIn(1..n, i) = i
<1>1. {j \in 1..i : j \in 1..n} = 1..i
  OBVIOUS
<1>2. Cardinality(1..i) = i
  BY FS_Interval
<1> QED  BY <1>1, <1>2 DEF RankIn

\* Rows that are added at the end do not change the rank of others.
LEMMA RankKept ==
    ASSUME NEW n \in Nat, NEW kept \in SUBSET (1..n), NEW more,
           more \cap (1..n) = kept, NEW i \in 1..n
    PROVE  RankIn(more, i) = RankIn(kept, i)
<1>1. {j \in 1..i : j \in more} = {j \in 1..i : j \in kept}
  OBVIOUS
<1> QED  BY <1>1 DEF RankIn

\* Matching and Rank, in these terms.
LEMMA MatchingRows ==
    ASSUME TypeOK, NEW f
    PROVE  /\ Len(rows) \in Nat /\ DOMAIN rows = 1..Len(rows)
           /\ Matching(f) \in SUBSET (1..Len(rows))
           /\ \A i \in DOMAIN rows : Rank(i, f) = RankIn(Matching(f), i)
<1>1. Len(rows) \in Nat /\ DOMAIN rows = 1..Len(rows)
  BY DEF TypeOK
<1>2. Matching(f) \in SUBSET (1..Len(rows))
  BY <1>1 DEF Matching
<1>3. ASSUME NEW i \in DOMAIN rows PROVE Rank(i, f) = RankIn(Matching(f), i)
  <2>1. {j \in 1..i : Listed(j, f)} = {j \in 1..i : j \in Matching(f)}
    BY <1>1 DEF Matching
  <2> QED  BY <2>1 DEF Rank, RankIn
<1> QED  BY <1>1, <1>2, <1>3

-----------------------------------------------------------------------------
(***************************************************************************)
(* The steps of a client                                                   *)
(***************************************************************************)

\* A step of one client keeps the invariant if what it leaves the client with
\* fits the rows, which have not changed.
LEMMA NowStep ==
    ASSUME IInv, NEW c \in Clients, NEW new \in Asks, Now(c, new),
           new.filter \in DOMAIN Kept[endpoint], Fits(new)
    PROVE  IInv'
<1>1. /\ endpoint' = endpoint /\ rows' = rows /\ moves' = moves
      /\ ask' = [ask EXCEPT ![c] = new] /\ ask \in [Clients -> Asks]
  BY DEF Now, IInv, TypeOK
<1>2. \A d \in Clients : ask'[d] = IF d = c THEN new ELSE ask[d]
  BY <1>1
<1>3. TypeOK'
  <2>1. ask' \in [Clients -> Asks]
    BY <1>1
  <2>2. \A d \in Clients : ask'[d].filter \in DOMAIN Kept[endpoint']
    BY <1>1, <1>2 DEF IInv, TypeOK
  <2>3. endpoint' \in Endpoints /\ rows' \in Seq(Values') /\ moves' \in Nat
    BY <1>1 DEF IInv, TypeOK, Values
  <2> QED  BY <2>1, <2>2, <2>3 DEF TypeOK
<1>4. ASSUME NEW d \in Clients PROVE Fits(ask[d])'
  <2>1. Fits(ask'[d])
    BY <1>2 DEF IInv
  <2> QED  BY <2>1, <1>1 DEF Fits, SliceFits, Matching, Listed, Slice
<1> QED  BY <1>3, <1>4 DEF IInv

\* What is known of a client before a step.
LEMMA Known ==
    ASSUME IInv, NEW c \in Clients
    PROVE  /\ ask[c] \in Asks /\ ask[c].filter \in DOMAIN Kept[endpoint] /\ Fits(ask[c])
           /\ TypeOK
BY DEF IInv, TypeOK

\* A walk begins with page 1 and nothing seen.
LEMMA RequestStep == ASSUME IInv, NEW c \in Clients, Request(c) PROVE IInv'
<1>0. TypeOK
  BY DEF IInv
<1>1. PICK f \in DOMAIN Kept[endpoint] \cup {"other"}, p \in Pages, s \in Sizes :
        IF Valid(f, p, s) THEN Now(c, NewAsk("count", f, p, s, Matching(f)))
        ELSE Now(c, NewAsk("refused", "none", 1, 1, {}))
  BY DEF Request
<1>2. CASE Valid(f, p, s)
  <2> DEFINE new == NewAsk("count", f, p, s, Matching(f))
  <2>1. f \in DOMAIN Kept[endpoint] /\ p \in Int /\ s \in Int
    BY <1>2, ListingsAssumption DEF Valid
  <2>2. Matching(f) \in SUBSET (1..Len(rows)) /\ Len(rows) \in Nat
    BY <1>0, MatchingRows
  <2>3. new \in Asks
    BY <2>1, <2>2, <1>0 DEF NewAsk, Asks, TypeOK
  <2>4. \A i \in Matching(f) : RankIn(Matching(f), i) > 0
    <3> SUFFICES ASSUME NEW i \in Matching(f) PROVE RankIn(Matching(f), i) > 0
      OBVIOUS
    <3> DEFINE S == {j \in 1..i : j \in Matching(f)}
    <3>1. i \in S
      BY <2>2
    <3>2. IsFiniteSet(S)
      <4>1. IsFiniteSet(1..Len(rows))
        BY <2>2, FS_Interval
      <4>2. S \subseteq 1..Len(rows)
        BY <2>2
      <4> QED  BY <4>1, <4>2, FS_Subset
    <3>3. Cardinality(S) # 0 /\ Cardinality(S) \in Nat
      BY <3>1, <3>2, FS_EmptySet, FS_CardinalityType
    <3> QED  BY <3>3 DEF RankIn
  <2>5. WalkFits(new, Matching(f))
    <3>1. /\ new.page = p /\ new.first = p /\ new.size = s /\ new.seen = {} /\ new.again = {}
          /\ new.start = Matching(f) /\ new.phase = "count"
      BY DEF NewAsk
    <3>2. Walks(new) => p = 1 /\ Reached(new) = 0
      BY <3>1, <2>1 DEF Walks, Reached
    <3>3. \A i \in Matching(f) : RankIn(Matching(f), i) \in Nat
      BY <2>2, RankBound
    <3> HIDE DEF new
    <3> QED  BY <3>1, <3>2, <3>3, <2>4 DEF WalkFits
  <2>6. endpoint = "users" => SliceFits(new)
    BY <1>2, <2>1 DEF Valid, SliceFits, NewAsk
  <2>7. Fits(new) /\ new.filter = f
    BY <2>5, <2>6 DEF Fits, NewAsk
  <2> HIDE DEF new
  <2> QED  BY <1>1, <1>2, <2>1, <2>3, <2>7, NowStep DEF new
<1>3. CASE ~Valid(f, p, s)
  <2> DEFINE new == NewAsk("refused", "none", 1, 1, {})
  <2>1. "none" \in DOMAIN Kept[endpoint]
    BY <1>0 DEF TypeOK, Endpoints, Kept
  <2>2. new \in Asks /\ new.phase = "refused" /\ new.filter = "none"
    BY <2>1, <1>0 DEF NewAsk, Asks, TypeOK
  <2>3. Fits(new)
    BY <2>2 DEF Fits, WalkFits, SliceFits
  <2> QED  BY <1>1, <1>3, <2>1, <2>2, <2>3, NowStep
<1> QED  BY <1>2, <1>3

\* The total counts every row that the walk is to show.
LEMMA CountStep == ASSUME IInv, NEW c \in Clients, CountRows(c) PROVE IInv'
<1> DEFINE a == ask[c]
           kept == Matching(a.filter)
           new == [a EXCEPT !.phase = "rows", !.counted = Len(rows),
                            !.total = Cardinality(kept)]
<1>0. a \in Asks /\ a.filter \in DOMAIN Kept[endpoint] /\ Fits(a) /\ TypeOK
  BY Known
<1>1. kept \in SUBSET (1..Len(rows)) /\ Len(rows) \in Nat
  BY <1>0, MatchingRows
<1>2. Cardinality(kept) \in Nat
  <2>1. IsFiniteSet(1..Len(rows))
    BY <1>1, FS_Interval
  <2> QED  BY <1>1, <2>1, FS_Subset, FS_CardinalityType
<1>3. a.phase = "count" /\ endpoint # "users" /\ Now(c, new)
  BY DEF CountRows
<1>4. /\ new \in Asks /\ new.phase = "rows" /\ new.total = Cardinality(kept)
      /\ new.filter = a.filter /\ new.page = a.page /\ new.size = a.size
      /\ new.first = a.first /\ new.start = a.start /\ new.seen = a.seen
      /\ new.again = a.again /\ new.disturbed = a.disturbed
  BY <1>0, <1>1, <1>2 DEF Asks
<1>5. \A i \in kept : RankIn(kept, i) <= Cardinality(kept)
  BY <1>1, RankBound
<1>6. WalkFits(a, kept)
  BY <1>0 DEF Fits
<1> HIDE DEF kept, new, a
<1>7. Walks(new) <=> Walks(a)
  BY <1>4 DEF Walks
<1>8. Reached(new) = Reached(a)
  BY <1>3, <1>4 DEF Reached
<1>9. WalkFits(new, kept)
  BY <1>3, <1>4, <1>5, <1>6, <1>7, <1>8 DEF WalkFits
<1>10. Fits(new)
  BY <1>3, <1>4, <1>9 DEF Fits, kept
<1> QED  BY <1>0, <1>3, <1>4, <1>10, NowStep DEF a

\* A page shows, of the rows kept, those whose rank is beyond what was reached
\* and within a page's size of it.
LEMMA PageExtends ==
    ASSUME NEW a \in Asks, NEW n \in Nat, NEW kept \in SUBSET (1..n), WalkFits(a, kept),
           a.phase \in {"count", "rows"},
           NEW items \in SUBSET Nat,
           Walks(a) /\ ~a.disturbed =>
               items = {i \in kept : /\ RankIn(kept, i) > (a.page - 1) * a.size
                                     /\ RankIn(kept, i) <= (a.page - 1) * a.size + a.size},
           NEW new \in Asks, new.phase = "read", new.page = a.page, new.size = a.size,
           new.first = a.first, new.start = a.start, new.seen = a.seen \cup items,
           new.again = a.again \cup (a.seen \cap items), new.disturbed = a.disturbed,
           \A i \in a.start : Walks(a) /\ ~a.disturbed => RankIn(kept, i) <= new.total
    PROVE  WalkFits(new, kept)
<1> SUFFICES ASSUME Walks(new), ~new.disturbed
             PROVE  /\ new.page >= 1
                    /\ new.seen \subseteq kept /\ new.start \subseteq kept /\ new.again = {}
                    /\ \A i \in new.seen : RankIn(kept, i) <= Reached(new)
                    /\ \A i \in new.start : RankIn(kept, i) <= Reached(new) => i \in new.seen
                    /\ \A i \in new.start : RankIn(kept, i) <= new.total
  BY DEF WalkFits
<1> DEFINE b == (a.page - 1) * a.size
<1>1. Walks(a) /\ ~a.disturbed /\ a.page \in Int /\ a.size \in Int /\ a.size >= 1
  BY DEF Walks, Asks
<1>2. /\ a.page >= 1 /\ a.seen \subseteq kept /\ a.start \subseteq kept /\ a.again = {}
      /\ \A i \in a.seen : RankIn(kept, i) <= b
      /\ \A i \in a.start : RankIn(kept, i) <= b => i \in a.seen
  BY <1>1 DEF WalkFits, Reached
<1>3. b \in Int /\ Reached(new) = b + a.size
  BY <1>1 DEF Reached
<1>4. \A i \in kept : RankIn(kept, i) \in Nat
  BY RankBound
<1> HIDE DEF b
<1>5. items = {i \in kept : RankIn(kept, i) > b /\ RankIn(kept, i) <= b + a.size}
  BY <1>1 DEF b
<1>6. new.again = {}
  BY <1>2, <1>3, <1>4, <1>5
<1>7. ASSUME NEW i \in new.seen PROVE RankIn(kept, i) <= Reached(new)
  <2>1. i \in kept /\ RankIn(kept, i) \in Nat
    BY <1>2, <1>4, <1>5
  <2>2. CASE i \in a.seen
    <3>1. RankIn(kept, i) <= b
      BY <1>2, <2>2
    <3> QED  BY <3>1, <2>1, <1>1, <1>3
  <2>3. CASE i \in items
    BY <2>3, <1>3, <1>5
  <2> QED  BY <2>2, <2>3
<1>8. ASSUME NEW i \in new.start, RankIn(kept, i) <= Reached(new) PROVE i \in new.seen
  <2>1. i \in kept /\ i \in a.start /\ RankIn(kept, i) \in Nat
    BY <1>2, <1>4
  <2>2. RankIn(kept, i) <= b \/ (RankIn(kept, i) > b /\ RankIn(kept, i) <= b + a.size)
    BY <1>3, <1>8, <2>1
  <2> QED  BY <2>1, <2>2, <1>2, <1>5
<1> QED  BY <1>1, <1>2, <1>5, <1>6, <1>7, <1>8

\* The fields of an answer.
LEMMA AnsweredFields ==
    ASSUME NEW a \in Asks, NEW items \in SUBSET Nat
    PROVE  /\ Answered(a, items) \in Asks
           /\ Answered(a, items).phase = "read" /\ Answered(a, items).items = items
           /\ Answered(a, items).filter = a.filter /\ Answered(a, items).page = a.page
           /\ Answered(a, items).size = a.size /\ Answered(a, items).first = a.first
           /\ Answered(a, items).total = a.total
           /\ Answered(a, items).start = a.start /\ Answered(a, items).seen = a.seen \cup items
           /\ Answered(a, items).again = a.again \cup (a.seen \cap items)
           /\ Answered(a, items).disturbed = a.disturbed
<1>1. a.seen \in SUBSET Nat /\ a.again \in SUBSET Nat
  BY DEF Asks
<1>2. a.seen \cup items \in SUBSET Nat /\ a.again \cup (a.seen \cap items) \in SUBSET Nat
  BY <1>1
<1> QED  BY <1>2 DEF Answered, Asks

LEMMA ReadStep == ASSUME IInv, NEW c \in Clients, ReadRows(c) PROVE IInv'
<1> DEFINE a == ask[c]
           kept == Matching(a.filter)
           items == PageRows(a.filter, a.page, a.size)
           new == Answered(a, items)
<1>0. a \in Asks /\ a.filter \in DOMAIN Kept[endpoint] /\ Fits(a) /\ TypeOK
  BY Known
<1>1. /\ kept \in SUBSET (1..Len(rows)) /\ Len(rows) \in Nat
      /\ \A i \in kept : Rank(i, a.filter) = RankIn(kept, i)
  BY <1>0, MatchingRows
<1>2. a.phase = "rows" /\ Now(c, new)
  BY DEF ReadRows
<1>3. items \in SUBSET Nat
  BY <1>1 DEF PageRows
<1>4. WalkFits(a, kept)
  BY <1>0 DEF Fits
<1>5. Walks(a) /\ ~a.disturbed =>
        items = {i \in kept : /\ RankIn(kept, i) > (a.page - 1) * a.size
                              /\ RankIn(kept, i) <= (a.page - 1) * a.size + a.size}
  <2> SUFFICES ASSUME Walks(a), ~a.disturbed
               PROVE  items = {i \in kept : /\ RankIn(kept, i) > (a.page - 1) * a.size
                                            /\ RankIn(kept, i) <= (a.page - 1) * a.size + a.size}
    OBVIOUS
  <2>1. a.page \in Int /\ a.size \in Int /\ a.page >= 1 /\ a.size >= 1
    BY <1>0, <1>2, <1>4 DEF WalkFits, Walks, Asks
  <2>2. (a.page - 1) * a.size >= 0
    BY <2>1
  <2>3. Offset(a.page, a.size) = (a.page - 1) * a.size
    BY <2>1, <2>2 DEF Offset
  <2>4. \A i \in kept : InWindow(Rank(i, a.filter), a.page, a.size) <=>
            /\ RankIn(kept, i) > (a.page - 1) * a.size
            /\ RankIn(kept, i) <= (a.page - 1) * a.size + a.size
    BY <1>1, <2>1, <2>3 DEF InWindow
  <2> QED  BY <2>4 DEF PageRows
<1>6. \A i \in a.start : Walks(a) /\ ~a.disturbed => RankIn(kept, i) <= a.total
  BY <1>2, <1>4 DEF WalkFits
<1> HIDE DEF a, kept, items, new
<1>7. /\ new \in Asks /\ new.phase = "read" /\ new.items = items /\ new.filter = a.filter
      /\ new.page = a.page /\ new.size = a.size /\ new.first = a.first /\ new.total = a.total
      /\ new.start = a.start /\ new.seen = a.seen \cup items
      /\ new.again = a.again \cup (a.seen \cap items) /\ new.disturbed = a.disturbed
  BY <1>0, <1>3, AnsweredFields DEF new
<1>8. WalkFits(new, kept)
  BY <1>0, <1>1, <1>2, <1>3, <1>4, <1>5, <1>6, <1>7, PageExtends
<1>9. endpoint # "users"
  BY <1>0, <1>2 DEF Fits, SliceFits
<1>10. Fits(new)
  BY <1>7, <1>8, <1>9 DEF Fits, kept
<1> QED  BY <1>0, <1>2, <1>7, <1>10, NowStep

\* The directory has one filter, which lets everything through.
LEMMA DirectoryMatching ==
    ASSUME TypeOK, endpoint = "users", NEW f \in DOMAIN Kept[endpoint]
    PROVE  f = "none" /\ Matching(f) = 1..Len(rows)
<1>1. f = "none" /\ Kept[endpoint][f] = {"user"} /\ Values = {"user"}
  BY DEF Kept, Values
<1>2. rows \in Seq({"user"}) /\ Len(rows) \in Nat /\ DOMAIN rows = 1..Len(rows)
  BY <1>1 DEF TypeOK
<1>3. \A i \in 1..Len(rows) : rows[i] = "user"
  BY <1>2
<1> QED  BY <1>1, <1>2, <1>3 DEF Matching, Listed

\* The slice is the page that LIMIT and OFFSET would select.
LEMMA SliceOfAll ==
    ASSUME TypeOK, endpoint = "users", NEW page \in Int, NEW size \in Int,
           page >= 1, size >= 1
    PROVE  Slice(page, size) = PageRows("none", page, size)
<1>1. "none" \in DOMAIN Kept[endpoint]
  BY DEF Kept
<1>2. Matching("none") = 1..Len(rows)
  BY <1>1, DirectoryMatching
<1>3. /\ Len(rows) \in Nat /\ DOMAIN rows = 1..Len(rows)
      /\ \A i \in DOMAIN rows : Rank(i, "none") = RankIn(Matching("none"), i)
  BY MatchingRows
<1>4. \A i \in 1..Len(rows) : Rank(i, "none") = i
  BY <1>2, <1>3, RankOfAll
<1>5. (page - 1) * size >= 0 /\ (page - 1) * size \in Int
  OBVIOUS
<1>6. Offset(page, size) = (page - 1) * size
  BY <1>5 DEF Offset
<1> DEFINE b == (page - 1) * size
<1>7. Slice(page, size) = {i \in 1..Len(rows) : i > b /\ i <= b + size}
  BY <1>3 DEF Slice
<1>8. PageRows("none", page, size) =
        {i \in 1..Len(rows) : Rank(i, "none") > b /\ Rank(i, "none") <= b + size}
  BY <1>2, <1>6 DEF PageRows, InWindow
<1> HIDE DEF b
<1> QED  BY <1>4, <1>7, <1>8

LEMMA DirectoryStep == ASSUME IInv, NEW c \in Clients, ReadDirectory(c) PROVE IInv'
<1> DEFINE a == ask[c]
           items == Slice(a.page, a.size)
           answer == Answered(a, items)
           new == [answer EXCEPT !.total = Len(rows), !.counted = Len(rows)]
           n == Len(rows)
<1>0. a \in Asks /\ a.filter \in DOMAIN Kept[endpoint] /\ Fits(a) /\ TypeOK
  BY Known
<1>1. a.phase = "count" /\ endpoint = "users" /\ Now(c, new)
  BY DEF ReadDirectory
<1>2. n \in Nat /\ DOMAIN rows = 1..n
  BY <1>0, MatchingRows
<1>3. Matching(a.filter) = 1..n
  BY <1>0, <1>1, DirectoryMatching
<1>4. WalkFits(a, 1..n) /\ SliceFits(a)
  BY <1>0, <1>1, <1>3 DEF Fits
<1>5. items \in SUBSET Nat
  BY <1>2 DEF Slice
<1>6. \A i \in 1..n : RankIn(1..n, i) = i
  BY <1>2, RankOfAll
<1> DEFINE b == (a.page - 1) * a.size
<1>7. items = {i \in 1..n : i > b /\ i <= b + a.size}
  BY <1>2 DEF Slice
<1> HIDE DEF b, items, n
<1>8. items = {i \in 1..n : RankIn(1..n, i) > b /\ RankIn(1..n, i) <= b + a.size}
  BY <1>6, <1>7
<1>9. /\ answer \in Asks /\ answer.phase = "read" /\ answer.items = items
      /\ answer.filter = a.filter /\ answer.page = a.page
      /\ answer.size = a.size /\ answer.first = a.first
      /\ answer.start = a.start /\ answer.seen = a.seen \cup items
      /\ answer.again = a.again \cup (a.seen \cap items) /\ answer.disturbed = a.disturbed
  BY <1>0, <1>5, AnsweredFields
<1> HIDE DEF answer
<1>10. /\ new \in Asks /\ new.phase = "read" /\ new.items = items
       /\ new.filter = a.filter /\ new.page = a.page /\ new.total = n
       /\ new.size = a.size /\ new.first = a.first
       /\ new.start = a.start /\ new.seen = a.seen \cup items
       /\ new.again = a.again \cup (a.seen \cap items) /\ new.disturbed = a.disturbed
  BY <1>2, <1>9 DEF Asks, n
<1> HIDE DEF new, a
<1>11. \A i \in a.start : Walks(a) /\ ~a.disturbed => RankIn(1..n, i) <= n
  BY <1>1, <1>2, <1>4, <1>6 DEF WalkFits
<1>12. WalkFits(new, 1..n)
  BY <1>0, <1>1, <1>2, <1>4, <1>5, <1>8, <1>10, <1>11, PageExtends DEF b
<1>13. SliceFits(new)
  BY <1>1, <1>4, <1>10 DEF SliceFits, items
<1>14. Fits(new)
  BY <1>3, <1>10, <1>12, <1>13 DEF Fits
<1> QED  BY <1>0, <1>1, <1>10, <1>14, NowStep DEF new, a, answer, items, n

\* Turning the page reaches no further: (page + 1 - 1) * size is page * size.
LEMMA TurnStep == ASSUME IInv, NEW c \in Clients, NextPage(c) PROVE IInv'
<1> DEFINE a == ask[c]
           kept == Matching(a.filter)
           new == [a EXCEPT !.phase = "count", !.page = @ + 1]
<1>0. a \in Asks /\ a.filter \in DOMAIN Kept[endpoint] /\ Fits(a) /\ TypeOK
  BY Known
<1>1. a.phase = "read" /\ Walks(a) /\ Now(c, new)
  BY DEF NextPage
<1>2. /\ new \in Asks /\ new.phase = "count" /\ new.page = a.page + 1
      /\ new.filter = a.filter /\ new.size = a.size /\ new.first = a.first
      /\ new.start = a.start /\ new.seen = a.seen /\ new.again = a.again
      /\ new.disturbed = a.disturbed /\ a.page \in Int /\ a.size \in Int
  <2>1. a.page \in Int /\ a.size \in Int /\ a.page + 1 \in Int
    BY <1>0 DEF Asks
  <2> DEFINE next == a.page + 1
  <2>2. new = [a EXCEPT !.phase = "count", !.page = next]
    OBVIOUS
  <2>3. next \in Int
    BY <2>1
  <2> HIDE DEF next, a, new
  <2>4. new \in Asks /\ new.phase = "count" /\ new.page = next
    BY <1>0, <2>2, <2>3 DEF Asks
  <2>5. /\ new.filter = a.filter /\ new.size = a.size /\ new.first = a.first
        /\ new.start = a.start /\ new.seen = a.seen /\ new.again = a.again
        /\ new.disturbed = a.disturbed
    BY <1>0, <2>2 DEF Asks
  <2> QED  BY <2>1, <2>4, <2>5 DEF next
<1>3. WalkFits(a, kept) /\ (endpoint = "users" => SliceFits(a))
  BY <1>0 DEF Fits
<1> HIDE DEF kept, new, a
<1>4. Walks(new) <=> Walks(a)
  BY <1>2 DEF Walks
<1>5. (a.page + 1 - 1) * a.size = a.page * a.size
  <2>1. a.page + 1 - 1 = a.page
    BY <1>2
  <2> QED  BY <2>1
<1>6. Reached(new) = Reached(a)
  BY <1>1, <1>2, <1>5 DEF Reached
<1>7. WalkFits(new, kept)
  BY <1>1, <1>2, <1>3, <1>4, <1>6 DEF WalkFits
<1>8. endpoint = "users" => SliceFits(new)
  BY <1>1, <1>2, <1>3 DEF SliceFits
<1>9. Fits(new)
  BY <1>2, <1>7, <1>8 DEF Fits, kept
<1> QED  BY <1>0, <1>1, <1>2, <1>9, NowStep DEF new, a

-----------------------------------------------------------------------------
(***************************************************************************)
(* The steps of the table.  The users and the SLA records do not change.   *)
(***************************************************************************)

\* What fits a set of rows fits it when rows are added at the end.
LEMMA FitsMore ==
    ASSUME NEW a \in Asks, NEW n \in Nat, NEW kept \in SUBSET (1..n), NEW more,
           more \cap (1..n) = kept, WalkFits(a, kept)
    PROVE  WalkFits(a, more)
<1>1. kept \subseteq more /\ \A i \in kept : i \in 1..n
  OBVIOUS
<1>2. \A i \in kept : RankIn(more, i) = RankIn(kept, i)
  BY <1>1, RankKept
<1> QED  BY <1>1, <1>2 DEF WalkFits

LEMMA InsertStep == ASSUME IInv, NEW v \in Values, Insert(v) PROVE IInv'
<1> DEFINE n == Len(rows)
<1>0. TypeOK
  BY DEF IInv
<1>1. /\ endpoint # "users" /\ rows' = Append(rows, v)
      /\ UNCHANGED <<endpoint, moves, ask>>
  BY DEF Insert
<1>2. /\ n \in Nat /\ DOMAIN rows = 1..n /\ rows \in Seq(Values)
      /\ rows' \in Seq(Values) /\ DOMAIN rows' = 1..(n + 1)
      /\ \A i \in 1..n : rows'[i] = rows[i]
  BY <1>0, <1>1 DEF TypeOK
<1>3. TypeOK'
  BY <1>0, <1>1, <1>2 DEF TypeOK, Values
<1>4. ASSUME NEW c \in Clients PROVE Fits(ask[c])'
  <2> DEFINE f == ask[c].filter
             kept == Matching(f)
             more == Matching(f)'
  <2>1. ask[c] \in Asks /\ Fits(ask[c])
    BY Known
  <2>2. kept \in SUBSET (1..n)
    BY <1>0, MatchingRows
  <2>3. more \cap (1..n) = kept
    BY <1>1, <1>2 DEF Matching, Listed
  <2>4. WalkFits(ask[c], kept)
    BY <2>1 DEF Fits
  <2> HIDE DEF n, kept
  <2>5. WalkFits(ask[c], more)
    BY <1>2, <2>1, <2>2, <2>3, <2>4, FitsMore
  <2>6. ask' = ask /\ endpoint' # "users"
    BY <1>1
  <2> QED  BY <2>5, <2>6 DEF Fits
<1> QED  BY <1>3, <1>4 DEF IInv

\* A row that is patched disturbs the walks whose filter tells the difference.
LEMMA MoveEffect ==
    ASSUME IInv, NEW i \in DOMAIN rows, NEW v \in Values, Move(i, v)
    PROVE  /\ TypeOK' /\ endpoint # "users" /\ endpoint' = endpoint /\ DOMAIN rows' = DOMAIN rows
           /\ \A c \in Clients :
                /\ ask'[c] \in Asks /\ ask'[c].filter = ask[c].filter
                /\ ask'[c].phase = ask[c].phase /\ ask'[c].page = ask[c].page
                /\ ask'[c].size = ask[c].size /\ ask'[c].first = ask[c].first
                /\ ask'[c].total = ask[c].total /\ ask'[c].counted = ask[c].counted
                /\ ask'[c].items = ask[c].items /\ ask'[c].start = ask[c].start
                /\ ask'[c].seen = ask[c].seen /\ ask'[c].again = ask[c].again
                /\ ~ask'[c].disturbed =>
                     ~ask[c].disturbed /\ Matching(ask[c].filter)' = Matching(ask[c].filter)
<1>0. TypeOK
  BY DEF IInv
<1> DEFINE disturbs(f) == Listed(i, f) # (v \in Kept[endpoint][f])
           moved == [c \in Clients |->
                       [ask[c] EXCEPT !.disturbed = @ \/ disturbs(ask[c].filter)]]
<1>1. /\ endpoint # "users" /\ endpoint' = endpoint /\ rows' = [rows EXCEPT ![i] = v]
      /\ moves' = moves + 1 /\ ask' = moved
  BY DEF Move
<1>2. Len(rows) \in Nat /\ DOMAIN rows = 1..Len(rows)
  BY <1>0, MatchingRows
<1>3. DOMAIN rows' = DOMAIN rows /\ rows' \in Seq(Values) /\ rows'[i] = v
  BY <1>0, <1>1, <1>2 DEF TypeOK
<1>4. \A j \in DOMAIN rows : j # i => rows'[j] = rows[j]
  BY <1>1, <1>2
<1>5. ASSUME NEW c \in Clients
      PROVE  /\ ask[c] \in Asks /\ ask'[c] = [ask[c] EXCEPT !.disturbed = @ \/ disturbs(ask[c].filter)]
  BY <1>1, Known
<1>6. ASSUME NEW c \in Clients
      PROVE  /\ ask'[c] \in Asks /\ ask'[c].filter = ask[c].filter
             /\ ask'[c].phase = ask[c].phase /\ ask'[c].page = ask[c].page
             /\ ask'[c].size = ask[c].size /\ ask'[c].first = ask[c].first
             /\ ask'[c].total = ask[c].total /\ ask'[c].counted = ask[c].counted
             /\ ask'[c].items = ask[c].items /\ ask'[c].start = ask[c].start
             /\ ask'[c].seen = ask[c].seen /\ ask'[c].again = ask[c].again
             /\ ask'[c].disturbed = (ask[c].disturbed \/ disturbs(ask[c].filter))
  <2> DEFINE d == ask[c].disturbed \/ disturbs(ask[c].filter)
  <2>1. ask[c] \in Asks /\ ask'[c] = [ask[c] EXCEPT !.disturbed = d]
    BY <1>5
  <2>2. d \in BOOLEAN
    OBVIOUS
  <2> HIDE DEF d
  <2>3. ask'[c] \in Asks /\ ask'[c].disturbed = d
    BY <2>1, <2>2 DEF Asks
  <2>4. /\ ask'[c].filter = ask[c].filter
        /\ ask'[c].phase = ask[c].phase /\ ask'[c].page = ask[c].page
        /\ ask'[c].size = ask[c].size /\ ask'[c].first = ask[c].first
        /\ ask'[c].total = ask[c].total /\ ask'[c].counted = ask[c].counted
        /\ ask'[c].items = ask[c].items /\ ask'[c].start = ask[c].start
        /\ ask'[c].seen = ask[c].seen /\ ask'[c].again = ask[c].again
    BY <2>1 DEF Asks
  <2> QED  BY <2>3, <2>4 DEF d
<1> HIDE DEF moved, disturbs
<1>7. TypeOK'
  <2>1. ask' \in [Clients -> Asks]
    <3>1. ask' = [c \in Clients |-> ask'[c]]
      BY <1>1 DEF moved
    <3> QED  BY <3>1, <1>6
  <2>2. \A c \in Clients : ask'[c].filter \in DOMAIN Kept[endpoint']
    BY <1>0, <1>1, <1>6 DEF TypeOK
  <2>3. endpoint' \in Endpoints /\ moves' \in Nat /\ rows' \in Seq(Values')
    BY <1>0, <1>1, <1>3 DEF TypeOK, Values
  <2> QED  BY <2>1, <2>2, <2>3 DEF TypeOK
<1>8. ASSUME NEW c \in Clients, ~ask'[c].disturbed
      PROVE  ~ask[c].disturbed /\ Matching(ask[c].filter)' = Matching(ask[c].filter)
  <2>1. ~disturbs(ask[c].filter) /\ ~ask[c].disturbed
    BY <1>6, <1>8
  <2>2. Listed(i, ask[c].filter) = Listed(i, ask[c].filter)'
    BY <2>1, <1>1, <1>3, <1>6 DEF disturbs, Listed
  <2>3. \A j \in DOMAIN rows : Listed(j, ask[c].filter) = Listed(j, ask[c].filter)'
    BY <2>2, <1>1, <1>4, <1>6 DEF Listed
  <2> QED  BY <2>1, <2>3, <1>3 DEF Matching
<1> QED  BY <1>1, <1>3, <1>6, <1>7, <1>8

LEMMA MoveStep == ASSUME IInv, NEW i \in DOMAIN rows, NEW v \in Values, Move(i, v) PROVE IInv'
<1>1. TypeOK' /\ endpoint # "users" /\ endpoint' = endpoint
  BY MoveEffect
<1>2. ASSUME NEW c \in Clients PROVE Fits(ask[c])'
  <2>1. WalkFits(ask[c], Matching(ask[c].filter))
    BY Known DEF Fits
  <2>2. CASE ask'[c].disturbed
    BY <1>1, <2>2 DEF Fits, WalkFits
  <2>3. CASE ~ask'[c].disturbed
    <3> DEFINE kept == Matching(ask[c].filter)
    <3>1. ~ask[c].disturbed /\ Matching(ask[c].filter)' = kept
      BY <2>3, MoveEffect
    <3>2. /\ ask'[c].phase = ask[c].phase /\ ask'[c].page = ask[c].page
          /\ ask'[c].size = ask[c].size /\ ask'[c].first = ask[c].first
          /\ ask'[c].total = ask[c].total /\ ask'[c].start = ask[c].start
          /\ ask'[c].seen = ask[c].seen /\ ask'[c].again = ask[c].again
      BY MoveEffect
    <3> HIDE DEF kept
    <3>3. WalkFits(ask'[c], kept)
      BY <2>1, <3>1, <3>2 DEF WalkFits, Walks, Reached, kept
    <3> QED  BY <1>1, <3>1, <3>3 DEF Fits
  <2> QED  BY <2>2, <2>3
<1> QED  BY <1>1, <1>2 DEF IInv

-----------------------------------------------------------------------------
(***************************************************************************)
(* The invariant and the theorems                                          *)
(***************************************************************************)

LEMMA InitIInv == Init => IInv
<1> SUFFICES ASSUME Init PROVE IInv
  OBVIOUS
<1> DEFINE idle == NewAsk("idle", "none", 1, 1, {})
<1>1. endpoint \in Endpoints /\ moves = 0 /\ ask = [c \in Clients |-> idle]
  BY DEF Init
<1>2. "none" \in DOMAIN Kept[endpoint] /\ "none" \in UNION {DOMAIN Kept[e] : e \in Endpoints}
  BY <1>1 DEF Endpoints, Kept
<1>3. idle \in Asks /\ idle.phase = "idle" /\ idle.filter = "none"
  BY <1>2 DEF NewAsk, Asks
<1>4. rows \in Seq(Values)
  <2>1. PICK n \in 0..MaxRows : rows \in [1..n -> Values]
    BY DEF Init
  <2> QED  BY <2>1, ListingsAssumption
<1>5. TypeOK
  BY <1>1, <1>2, <1>3, <1>4 DEF TypeOK
<1>6. \A c \in Clients : Fits(ask[c])
  BY <1>1, <1>3 DEF Fits, WalkFits, SliceFits
<1> QED  BY <1>5, <1>6 DEF IInv

LEMMA NextIInv == IInv /\ [Next]_vars => IInv'
<1> SUFFICES ASSUME IInv, [Next]_vars PROVE IInv'
  OBVIOUS
<1>1. ASSUME NEW v \in Values, Insert(v) PROVE IInv'
  BY <1>1, InsertStep
<1>2. ASSUME NEW i \in DOMAIN rows, NEW v \in Values, Move(i, v) PROVE IInv'
  BY <1>2, MoveStep
<1>3. ASSUME NEW c \in Clients, Request(c) PROVE IInv'
  BY <1>3, RequestStep
<1>4. ASSUME NEW c \in Clients, CountRows(c) PROVE IInv'
  BY <1>4, CountStep
<1>5. ASSUME NEW c \in Clients, ReadRows(c) PROVE IInv'
  BY <1>5, ReadStep
<1>6. ASSUME NEW c \in Clients, ReadDirectory(c) PROVE IInv'
  BY <1>6, DirectoryStep
<1>7. ASSUME NEW c \in Clients, NextPage(c) PROVE IInv'
  BY <1>7, TurnStep
<1>8. CASE UNCHANGED vars
  BY <1>8 DEF IInv, TypeOK, vars, Fits, WalkFits, SliceFits, Matching, Listed, Slice, Values,
              Walks, Reached
<1> QED  BY <1>1, <1>2, <1>3, <1>4, <1>5, <1>6, <1>7, <1>8 DEF Next

LEMMA Invariant == Spec => []IInv
BY InitIInv, NextIInv, PTL DEF Spec

\* The variables have their types.
THEOREM TypeCorrect == Spec => []TypeOK
<1>1. IInv => TypeOK
  BY DEF IInv
<1> QED  BY <1>1, Invariant, PTL

\* A client that turns the pages of a list to the end, with no patch across its
\* filter, has seen every row that was there when it began, and none twice.
THEOREM WalksAreComplete == Spec => []WalkIsComplete
<1>1. IInv => WalkIsComplete
  <2> SUFFICES ASSUME IInv, NEW c \in Clients,
                      ask[c].phase = "read", Walks(ask[c]), ~ask[c].disturbed
               PROVE  /\ ask[c].again = {}
                      /\ AtEnd(ask[c]) => ask[c].start \subseteq ask[c].seen
    BY DEF WalkIsComplete
  <2> DEFINE a == ask[c]
             kept == Matching(a.filter)
  <2>1. a \in Asks /\ WalkFits(a, kept) /\ TypeOK
    BY Known DEF Fits
  <2>2. kept \in SUBSET (1..Len(rows)) /\ Len(rows) \in Nat
    BY <2>1, MatchingRows
  <2> HIDE DEF kept
  <2>3. /\ a.again = {} /\ a.start \subseteq kept
        /\ \A i \in a.start : RankIn(kept, i) <= a.page * a.size => i \in a.seen
        /\ \A i \in a.start : RankIn(kept, i) <= a.total
    BY <2>1 DEF WalkFits, Reached
  <2>4. ASSUME AtEnd(a), NEW i \in a.start PROVE i \in a.seen
    <3>1. a.page * a.size \in Int /\ a.total \in Nat
      BY <2>1 DEF Asks
    <3>2. a.page * a.size >= a.total
      BY <2>4 DEF AtEnd
    <3>3. RankIn(kept, i) \in Nat
      BY <2>2, <2>3, RankBound
    <3>4. RankIn(kept, i) <= a.total
      BY <2>3
    <3>5. RankIn(kept, i) <= a.page * a.size
      BY <3>1, <3>2, <3>3, <3>4
    <3> QED  BY <2>3, <3>5
  <2> QED  BY <2>3, <2>4
<1> QED  BY <1>1, Invariant, PTL

-----------------------------------------------------------------------------
(***************************************************************************)
(* A total and a page.                                                     *)
(***************************************************************************)

\* The ranks of the rows kept are the numbers up to how many there are.
LEMMA RankBijection ==
    ASSUME NEW n \in Nat, NEW kept \in SUBSET (1..n)
    PROVE  /\ IsFiniteSet(kept) /\ Cardinality(kept) \in Nat
           /\ [i \in kept |-> RankIn(kept, i)] \in Bijection(kept, 1..Cardinality(kept))
<1> DEFINE size == Cardinality(kept)
           upTo(i) == {j \in 1..i : j \in kept}
           rank == [i \in kept |-> RankIn(kept, i)]
<1>1. IsFiniteSet(1..n)
  BY FS_Interval
<1>2. IsFiniteSet(kept) /\ size \in Nat
  BY <1>1, FS_Subset, FS_CardinalityType
<1>3. ASSUME NEW i \in kept PROVE IsFiniteSet(upTo(i)) /\ i \in upTo(i)
  BY <1>2, FS_Subset
<1>4. ASSUME NEW i \in kept, NEW j \in kept, i < j PROVE RankIn(kept, i) < RankIn(kept, j)
  <2>1. upTo(i) \subseteq upTo(j) /\ j \notin upTo(i) /\ j \in upTo(j)
    BY <1>4
  <2>2. Cardinality(upTo(i)) <= Cardinality(upTo(j)) /\ Cardinality(upTo(i)) # Cardinality(upTo(j))
    BY <1>3, <2>1, FS_Subset
  <2>3. Cardinality(upTo(i)) \in Nat /\ Cardinality(upTo(j)) \in Nat
    BY <1>3, FS_CardinalityType
  <2> QED  BY <2>2, <2>3 DEF RankIn
<1>5. ASSUME NEW i \in kept PROVE RankIn(kept, i) \in 1..size
  <2>1. Cardinality(upTo(i)) \in Nat /\ Cardinality(upTo(i)) # 0
    BY <1>3, FS_CardinalityType, FS_EmptySet
  <2>2. RankIn(kept, i) <= size
    BY RankBound
  <2> QED  BY <1>2, <2>1, <2>2 DEF RankIn
<1> HIDE DEF upTo, size
<1>6. rank \in [kept -> 1..size]
  BY <1>5
<1>7. \A i, j \in kept : rank[i] = rank[j] => i = j
  <2> SUFFICES ASSUME NEW i \in kept, NEW j \in kept, rank[i] = rank[j], i # j PROVE FALSE
    OBVIOUS
  <2>1. i < j \/ j < i
    OBVIOUS
  <2>2. RankIn(kept, i) = RankIn(kept, j) /\ RankIn(kept, i) \in Nat /\ RankIn(kept, j) \in Nat
    BY <1>5
  <2>3. RankIn(kept, i) < RankIn(kept, j) \/ RankIn(kept, j) < RankIn(kept, i)
    BY <1>4, <2>1
  <2> QED  BY <2>2, <2>3
<1> HIDE DEF rank
<1>8. rank \in Injection(kept, 1..size)
  BY <1>6, <1>7, Fun_IsInj
<1>9. IsFiniteSet(1..size) /\ Cardinality(1..size) = size
  BY <1>2, FS_Interval
<1>10. rank \in Surjection(kept, 1..size)
  BY <1>8, <1>9, FS_Injection DEF size
<1>11. rank \in Bijection(kept, 1..size)
  BY <1>8, <1>10, Fun_IsBij
<1> QED  BY <1>2, <1>11 DEF rank, size

\* A window of ranks has as many rows as ranks, if there are so many.
LEMMA WindowIsFull ==
    ASSUME NEW n \in Nat, NEW kept \in SUBSET (1..n), NEW b \in Nat, NEW s \in Nat,
           b + s <= Cardinality(kept)
    PROVE  Cardinality({i \in kept : RankIn(kept, i) > b /\ RankIn(kept, i) <= b + s}) = s
<1> DEFINE window == {i \in kept : RankIn(kept, i) > b /\ RankIn(kept, i) <= b + s}
           ranks == (b + 1)..(b + s)
           all == [i \in kept |-> RankIn(kept, i)]
           rank == [i \in window |-> RankIn(kept, i)]
           size == Cardinality(kept)
<1>1. size \in Nat /\ all \in Bijection(kept, 1..size) /\ IsFiniteSet(kept)
  BY RankBijection
<1> HIDE DEF size, all
<1>2. /\ all \in [kept -> 1..size]
      /\ \A i, j \in kept : all[i] = all[j] => i = j
      /\ \A r \in 1..size : \E i \in kept : all[i] = r
  BY <1>1 DEF Bijection, Injection, Surjection, IsInjective
<1>3. \A i \in kept : RankIn(kept, i) \in 1..size
  BY <1>2 DEF all
<1>4. rank \in [window -> ranks]
  <2>1. \A i \in window : RankIn(kept, i) \in ranks
    BY <1>1, <1>3
  <2> HIDE DEF window, ranks
  <2> QED  BY <2>1
<1>5. \A i, j \in window : rank[i] = rank[j] => i = j
  BY <1>2 DEF all
<1>6. \A r \in ranks : \E i \in window : rank[i] = r
  <2> SUFFICES ASSUME NEW r \in ranks PROVE \E i \in window : rank[i] = r
    OBVIOUS
  <2>1. r \in 1..size
    BY <1>1 DEF size
  <2>2. PICK i \in kept : RankIn(kept, i) = r
    BY <1>2, <2>1 DEF all
  <2>3. i \in window
    BY <2>2
  <2> QED  BY <2>2, <2>3
<1> HIDE DEF rank, window, ranks
<1>7. rank \in Bijection(window, ranks)
  BY <1>4, <1>5, <1>6, Fun_IsBij
<1>8. window \subseteq kept
  BY DEF window
<1>9. IsFiniteSet(window)
  BY <1>1, <1>8, FS_Subset
<1>10. Cardinality(ranks) = Cardinality(window)
  BY <1>7, <1>9, FS_Bijection DEF ExistsBijection
<1>11. Cardinality(ranks) = s
  <2>1. Cardinality(ranks) = IF b + 1 > b + s THEN 0 ELSE (b + s) - (b + 1) + 1
    BY FS_Interval DEF ranks
  <2> QED  BY <2>1
<1> QED  BY <1>10, <1>11 DEF window

\* Of the first m rows, those ranked beyond b are at most what is left of them.
LEMMA WindowIsWithin ==
    ASSUME NEW n \in Nat, NEW kept \in SUBSET (1..n), NEW m \in 0..n, NEW b \in Nat,
           NEW old \in SUBSET (kept \cap (1..m)), \A i \in old : RankIn(kept, i) > b,
           old # {}
    PROVE  b + Cardinality(old) <= Cardinality(kept \cap (1..m))
<1> DEFINE counted == kept \cap (1..m)
           total == Cardinality(counted)
           rank == [i \in old |-> RankIn(counted, i)]
           ranks == (b + 1)..total
           all == [i \in counted |-> RankIn(counted, i)]
<1>1. m \in Nat /\ counted \in SUBSET (1..m)
  OBVIOUS
<1>2. /\ total \in Nat /\ IsFiniteSet(counted)
      /\ all \in Bijection(counted, 1..total)
  BY <1>1, RankBijection
<1> HIDE DEF total, all
<1>3. /\ all \in [counted -> 1..total]
      /\ \A i, j \in counted : all[i] = all[j] => i = j
  BY <1>2, Fun_BijectionProperties
<1>4. \A i \in counted : RankIn(counted, i) = RankIn(kept, i)
  <2> SUFFICES ASSUME NEW i \in counted PROVE RankIn(counted, i) = RankIn(kept, i)
    OBVIOUS
  <2>1. {j \in 1..i : j \in counted} = {j \in 1..i : j \in kept}
    OBVIOUS
  <2> QED  BY <2>1 DEF RankIn
<1>5. \A i \in counted : RankIn(counted, i) \in 1..total
  BY <1>3 DEF all
<1>6. rank \in [old -> ranks]
  <2>1. ASSUME NEW i \in old PROVE RankIn(counted, i) \in ranks
    <3>1. i \in kept \cap (1..m) /\ RankIn(kept, i) > b
      OBVIOUS
    <3>2. RankIn(counted, i) = RankIn(kept, i) /\ RankIn(counted, i) \in 1..total
      BY <1>4, <1>5, <3>1
    <3> QED  BY <1>2, <3>1, <3>2
  <2> HIDE DEF ranks
  <2> QED  BY <2>1
<1>7. \A i, j \in old : rank[i] = rank[j] => i = j
  BY <1>3 DEF all
<1> HIDE DEF rank
<1> HIDE DEF ranks
<1>8. rank \in Injection(old, ranks)
  BY <1>6, <1>7, Fun_IsInj
<1>9. IsFiniteSet(ranks) /\ Cardinality(ranks) = IF b + 1 > total THEN 0 ELSE total - (b + 1) + 1
  <2>1. b + 1 \in Int /\ total \in Int
    BY <1>2
  <2> QED  BY <2>1, FS_Interval DEF ranks
<1>10. Cardinality(old) <= Cardinality(ranks) /\ IsFiniteSet(old)
  BY <1>8, <1>9, FS_Injection
<1>11. Cardinality(old) \in Nat
  BY <1>10, FS_CardinalityType
<1>12. PICK i \in old : TRUE
  OBVIOUS
<1>13. rank[i] \in ranks
  BY <1>6
<1>14. b + 1 <= total
  BY <1>2, <1>13 DEF ranks
<1> QED  BY <1>2, <1>9, <1>10, <1>11, <1>14 DEF total

\* A page that was read, and the total that was counted before it, of a client
\* whose filter no patch has crossed since.
AgreesWithTotal(a) ==
    LET offset == Offset(a.page, a.size)
        old == {i \in a.items : i <= a.counted}
    IN  a.phase = "read" /\ ~a.disturbed =>
            /\ old # {} => offset + Cardinality(old) <= a.total
            /\ a.size >= 0 /\ offset + a.size <= a.total => Cardinality(a.items) = a.size

\* The total is of the rows that were there when they were counted.
TotalFits(a) ==
    a.phase = "rows" /\ ~a.disturbed =>
        /\ a.counted \in 0..Len(rows)
        /\ a.total = Cardinality(Matching(a.filter) \cap (1..a.counted))

Counted == \A c \in Clients : TotalFits(ask[c]) /\ AgreesWithTotal(ask[c])

\* What a page shows of the rows kept agrees with the count of the first m.
LEMMA PageAgrees ==
    ASSUME NEW a \in Asks, NEW n \in Nat, NEW kept \in SUBSET (1..n),
           a.items = {i \in kept : InWindow(RankIn(kept, i), a.page, a.size)},
           a.counted \in 0..n, a.total = Cardinality(kept \cap (1..a.counted))
    PROVE  AgreesWithTotal(a)
<1> DEFINE b == Offset(a.page, a.size)
           m == a.counted
           old == {i \in a.items : i <= m}
<1>1. b \in Nat /\ a.size \in Int
  <2>1. a.page \in Int /\ a.size \in Int
    BY DEF Asks
  <2>2. (a.page - 1) * a.size \in Int
    BY <2>1
  <2> QED  BY <2>1, <2>2 DEF Offset
<1> HIDE DEF b
<1>2. a.items = {i \in kept : /\ RankIn(kept, i) > b
                              /\ a.size >= 0 => RankIn(kept, i) <= b + a.size}
  BY DEF InWindow, b
<1>3. ASSUME old # {} PROVE b + Cardinality(old) <= a.total
  <2>1. m \in 0..n /\ a.total = Cardinality(kept \cap (1..m))
    OBVIOUS
  <2>2. ASSUME NEW i \in old PROVE i \in kept \cap (1..m) /\ RankIn(kept, i) > b
    <3>1. i \in a.items /\ i <= m /\ m \in Int
      BY <2>1
    <3>2. i \in kept /\ RankIn(kept, i) > b
      BY <1>2, <3>1
    <3>3. i \in 1..n
      BY <3>2
    <3> HIDE DEF old
    <3> QED  BY <3>1, <3>2, <3>3
  <2> HIDE DEF old, m
  <2>3. old \in SUBSET (kept \cap (1..m)) /\ \A i \in old : RankIn(kept, i) > b
    BY <2>2
  <2>4. b + Cardinality(old) <= Cardinality(kept \cap (1..m))
    BY <1>1, <1>3, <2>1, <2>3, WindowIsWithin
  <2> QED  BY <2>1, <2>4
<1>4. ASSUME a.size >= 0, b + a.size <= a.total PROVE Cardinality(a.items) = a.size
  <2>1. a.size \in Nat
    BY <1>1, <1>4
  <2>2. IsFiniteSet(kept) /\ Cardinality(kept) \in Nat
    BY RankBijection
  <2>3. a.total <= Cardinality(kept)
    BY <2>2, FS_Subset
  <2>4. a.total \in Nat
    BY DEF Asks
  <2>5. b + a.size <= Cardinality(kept)
    BY <1>1, <1>4, <2>1, <2>2, <2>3, <2>4
  <2>6. a.items = {i \in kept : RankIn(kept, i) > b /\ RankIn(kept, i) <= b + a.size}
    BY <1>2, <1>4
  <2> DEFINE s == a.size
  <2>7. s \in Nat /\ b + s <= Cardinality(kept)
    BY <2>1, <2>5
  <2> HIDE DEF s
  <2>8. Cardinality({i \in kept : RankIn(kept, i) > b /\ RankIn(kept, i) <= b + s}) = s
    BY <1>1, <2>7, WindowIsFull
  <2> QED  BY <2>6, <2>8 DEF s
<1> QED  BY <1>3, <1>4 DEF AgreesWithTotal, b

\* A step of one client leaves the totals of the others as they are.
LEMMA NowCounted ==
    ASSUME TypeOK, Counted, NEW c \in Clients, NEW new, Now(c, new),
           TotalFits(new), AgreesWithTotal(new)
    PROVE  Counted'
<1>1. /\ endpoint' = endpoint /\ rows' = rows
      /\ \A d \in Clients : ask'[d] = IF d = c THEN new ELSE ask[d]
  BY DEF Now, TypeOK
<1>2. ASSUME NEW d \in Clients PROVE TotalFits(ask[d])' /\ AgreesWithTotal(ask[d])'
  <2>1. TotalFits(ask'[d]) /\ AgreesWithTotal(ask'[d])
    BY <1>1 DEF Counted
  <2> QED  BY <1>1, <2>1 DEF TotalFits, AgreesWithTotal, Matching, Listed
<1> QED  BY <1>2 DEF Counted

LEMMA CountedStep ==
    ASSUME IInv, Counted, [Next]_vars
    PROVE  Counted'
<1>0. TypeOK
  BY DEF IInv
<1>1. ASSUME NEW c \in Clients, Request(c) \/ NextPage(c) PROVE Counted'
  <2>1. PICK new : Now(c, new) /\ new.phase \in {"count", "refused"}
    <3>1. CASE Request(c)
      BY <3>1 DEF Request, NewAsk
    <3>2. CASE NextPage(c)
      <4> DEFINE new == [ask[c] EXCEPT !.phase = "count", !.page = @ + 1]
      <4>1. Now(c, new)
        BY <3>2 DEF NextPage
      <4>2. new.phase = "count"
        BY Known DEF Asks
      <4> QED  BY <4>1, <4>2
    <3> QED  BY <1>1, <3>1, <3>2
  <2> QED  BY <1>0, <2>1, NowCounted DEF TotalFits, AgreesWithTotal
<1>2. ASSUME NEW c \in Clients, CountRows(c) PROVE Counted'
  <2> DEFINE kept == Matching(ask[c].filter)
             new == [ask[c] EXCEPT !.phase = "rows", !.counted = Len(rows),
                                   !.total = Cardinality(kept)]
  <2>1. Now(c, new)
    BY <1>2 DEF CountRows
  <2>2. ask[c] \in Asks
    BY Known
  <2>3. /\ new.phase = "rows" /\ new.counted = Len(rows) /\ new.total = Cardinality(kept)
        /\ new.filter = ask[c].filter
    BY <2>2 DEF Asks
  <2>4. kept \in SUBSET (1..Len(rows)) /\ Len(rows) \in Nat
    BY <1>0, MatchingRows
  <2>5. kept \cap (1..Len(rows)) = kept /\ Len(rows) \in 0..Len(rows)
    BY <2>4
  <2> HIDE DEF new
  <2>6. Matching(new.filter) = kept
    BY <2>3
  <2> HIDE DEF kept
  <2>7. TotalFits(new) /\ AgreesWithTotal(new)
    BY <2>3, <2>5, <2>6 DEF TotalFits, AgreesWithTotal
  <2> QED  BY <1>0, <2>1, <2>7, NowCounted
<1>3. ASSUME NEW c \in Clients, ReadRows(c) PROVE Counted'
  <2> DEFINE a == ask[c]
             kept == Matching(a.filter)
             items == PageRows(a.filter, a.page, a.size)
             new == Answered(a, items)
  <2>1. a.phase = "rows" /\ Now(c, new) /\ a \in Asks /\ TotalFits(a)
    BY <1>3, Known DEF ReadRows, Counted
  <2>2. /\ kept \in SUBSET (1..Len(rows)) /\ Len(rows) \in Nat
        /\ \A i \in kept : Rank(i, a.filter) = RankIn(kept, i)
    BY <1>0, MatchingRows
  <2>3. items = {i \in kept : InWindow(RankIn(kept, i), a.page, a.size)} /\ items \in SUBSET Nat
    BY <2>2 DEF PageRows
  <2> HIDE DEF a, kept, items
  <2>4. /\ new \in Asks /\ new.phase = "read" /\ new.items = items
        /\ new.page = a.page /\ new.size = a.size /\ new.total = a.total
        /\ new.disturbed = a.disturbed
    BY <2>1, <2>3, AnsweredFields
  <2>5. new.counted = a.counted
    BY <2>1 DEF Answered, Asks
  <2> HIDE DEF new
  <2>6. CASE a.disturbed
    BY <1>0, <2>1, <2>4, <2>6, NowCounted DEF TotalFits, AgreesWithTotal
  <2>7. CASE ~a.disturbed
    <3>1. a.counted \in 0..Len(rows) /\ a.total = Cardinality(kept \cap (1..a.counted))
      BY <2>1, <2>7 DEF TotalFits, kept
    <3>2. AgreesWithTotal(new)
      BY <2>2, <2>3, <2>4, <2>5, <3>1, PageAgrees
    <3>3. TotalFits(new)
      BY <2>4 DEF TotalFits
    <3> QED  BY <1>0, <2>1, <3>2, <3>3, NowCounted
  <2> QED  BY <2>6, <2>7
<1>4. ASSUME NEW c \in Clients, ReadDirectory(c) PROVE Counted'
  <2> DEFINE a == ask[c]
             items == Slice(a.page, a.size)
             answer == Answered(a, items)
             n == Len(rows)
             new == [answer EXCEPT !.total = n, !.counted = n]
  <2>1. /\ a.phase = "count" /\ endpoint = "users" /\ Now(c, new)
        /\ a \in Asks /\ a.filter \in DOMAIN Kept[endpoint] /\ SliceFits(a)
    BY <1>4, Known DEF ReadDirectory, Fits
  <2>2. a.page \in Int /\ a.size \in Int /\ a.page >= 1 /\ a.size >= 1
    BY <2>1 DEF SliceFits, Asks
  <2>3. items = PageRows("none", a.page, a.size)
    BY <1>0, <2>1, <2>2, SliceOfAll
  <2>4. n \in Nat /\ DOMAIN rows = 1..n /\ Matching("none") = 1..n
    <3>1. "none" \in DOMAIN Kept[endpoint]
      BY <2>1 DEF Kept
    <3> QED  BY <1>0, <2>1, <3>1, DirectoryMatching, MatchingRows
  <2>5. \A i \in 1..n : Rank(i, "none") = RankIn(1..n, i)
    BY <1>0, <2>4, MatchingRows
  <2>6. items = {i \in 1..n : InWindow(RankIn(1..n, i), a.page, a.size)}
    BY <2>3, <2>4, <2>5 DEF PageRows
  <2>7. items \in SUBSET Nat
    BY <2>4, <2>6
  <2> HIDE DEF a, items, n
  <2>8. /\ answer \in Asks /\ answer.phase = "read" /\ answer.items = items
        /\ answer.page = a.page /\ answer.size = a.size
    BY <2>1, <2>7, AnsweredFields
  <2> HIDE DEF answer
  <2>9. /\ new \in Asks /\ new.phase = "read" /\ new.items = items /\ new.page = a.page
        /\ new.size = a.size /\ new.total = n /\ new.counted = n
    BY <2>4, <2>8 DEF Asks
  <2> HIDE DEF new
  <2>10. Cardinality((1..n) \cap (1..n)) = n
    <3>1. (1..n) \cap (1..n) = 1..n
      OBVIOUS
    <3>2. Cardinality(1..n) = n
      BY <2>4, FS_Interval
    <3> QED  BY <3>1, <3>2
  <2> DEFINE everything == 1..n
  <2>11. /\ everything \in SUBSET (1..n) /\ new.counted \in 0..n
         /\ new.total = Cardinality(everything \cap (1..new.counted))
         /\ new.items = {i \in everything : InWindow(RankIn(everything, i), new.page, new.size)}
    BY <2>4, <2>6, <2>9, <2>10
  <2> HIDE DEF everything
  <2>13. AgreesWithTotal(new)
    BY <2>4, <2>9, <2>11, PageAgrees
  <2>12. TotalFits(new)
    BY <2>9 DEF TotalFits
  <2> QED
    BY <1>0, <2>1, <2>13, <2>12, NowCounted DEF new, answer, n, items, a
<1>5. ASSUME NEW v \in Values, Insert(v) PROVE Counted'
  <2> DEFINE n == Len(rows)
  <2>1. /\ rows' = Append(rows, v) /\ endpoint' = endpoint /\ ask' = ask
        /\ rows \in Seq(Values) /\ n \in Nat /\ DOMAIN rows = 1..n
    BY <1>0, <1>5 DEF Insert, TypeOK
  <2>2. Len(rows') = n + 1 /\ DOMAIN rows' = 1..(n + 1) /\ \A i \in 1..n : rows'[i] = rows[i]
    BY <2>1
  <2>3. ASSUME NEW c \in Clients PROVE TotalFits(ask[c])'
    <3> DEFINE f == ask[c].filter
               m == ask[c].counted
    <3> SUFFICES ASSUME ask[c].phase = "rows", ~ask[c].disturbed
                 PROVE  /\ m \in 0..(n + 1)
                        /\ ask[c].total = Cardinality(Matching(f)' \cap (1..m))
      BY <2>1, <2>2 DEF TotalFits
    <3>1. m \in 0..n /\ ask[c].total = Cardinality(Matching(f) \cap (1..m))
      BY DEF Counted, TotalFits
    <3>2. Matching(f)' \cap (1..m) = Matching(f) \cap (1..m)
      BY <2>1, <2>2, <3>1 DEF Matching, Listed
    <3>3. m \in 0..(n + 1)
      BY <2>1, <3>1
    <3> HIDE DEF m, f
    <3> QED  BY <3>1, <3>2, <3>3
  <2>4. ASSUME NEW c \in Clients PROVE AgreesWithTotal(ask[c])'
    BY <2>1 DEF Counted, AgreesWithTotal
  <2> QED  BY <2>3, <2>4 DEF Counted
<1>6. ASSUME NEW i \in DOMAIN rows, NEW v \in Values, Move(i, v) PROVE Counted'
  <2>1. ASSUME NEW c \in Clients PROVE TotalFits(ask[c])' /\ AgreesWithTotal(ask[c])'
    <3>1. /\ ask'[c].phase = ask[c].phase /\ ask'[c].page = ask[c].page
          /\ ask'[c].size = ask[c].size /\ ask'[c].total = ask[c].total
          /\ ask'[c].counted = ask[c].counted /\ ask'[c].items = ask[c].items
      BY <1>6, MoveEffect
    <3>2. CASE ask'[c].disturbed
      BY <3>2 DEF TotalFits, AgreesWithTotal
    <3>3. CASE ~ask'[c].disturbed
      <4>1. ~ask[c].disturbed /\ Matching(ask[c].filter)' = Matching(ask[c].filter)
        BY <1>6, <3>3, MoveEffect
      <4>2. DOMAIN rows' = DOMAIN rows /\ TypeOK'
        BY <1>6, MoveEffect
      <4>3. Len(rows') = Len(rows)
        BY <1>0, <4>2 DEF TypeOK
      <4>4. TotalFits(ask[c])'
        BY <3>1, <4>1, <4>3 DEF Counted, TotalFits
      <4>5. AgreesWithTotal(ask[c])'
        BY <3>1, <4>1 DEF Counted, AgreesWithTotal
      <4> QED  BY <4>4, <4>5
    <3> QED  BY <3>2, <3>3
  <2> QED  BY <2>1 DEF Counted
<1>7. CASE UNCHANGED vars
  BY <1>7 DEF vars, Counted, TotalFits, AgreesWithTotal, Matching, Listed
<1> QED  BY <1>1, <1>2, <1>3, <1>4, <1>5, <1>6, <1>7 DEF Next

\* The total and the page of one answer agree but for rows that came in between
\* the two statements.
THEOREM TotalsAgree == Spec => []PageAgreesWithTotal
<1>1. Init => Counted
  BY DEF Init, NewAsk, Counted, TotalFits, AgreesWithTotal
<1>2. IInv /\ Counted /\ [Next]_vars => Counted'
  BY CountedStep
<1>3. Counted => PageAgreesWithTotal
  BY DEF Counted, AgreesWithTotal, PageAgreesWithTotal
<1> QED  BY <1>1, <1>2, <1>3, Invariant, PTL DEF Spec
=============================================================================
