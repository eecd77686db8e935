---------------------------- MODULE MemoryProofs ----------------------------
(***************************************************************************)
(* Proofs about what hands out memory.  The page manager of module         *)
(* PageList, for every page size, every size of the bookkeeping pages,     *)
(* every set of request sizes and every amount of memory: its types, the   *)
(* order of its entries, that every page has one use, that callers and     *)
(* entries agree, and that the list keeps the promise of module PageStore. *)
(* The heap of module Alloc, for every header, size and request: its       *)
(* blocks lie one behind the other and each is held or free.  The vectors  *)
(* of module Vector: what they hold, and that they give back what they     *)
(* take.                                                                   *)
(***************************************************************************)
EXTENDS PageList, Containers, SequenceTheorems, FiniteSetTheorems, FunctionTheorems,
        WellFoundedInduction, TLAPS

(* What putting an entry behind the first k entries of a list gives.       *)
LEMMA PlaceAfterFacts ==
    ASSUME NEW l \in Seq(Entry), NEW e \in Entry, NEW k \in 0..Len(l)
    PROVE  /\ PlaceAfter(l, k, e) \in Seq(Entry)
           /\ Len(PlaceAfter(l, k, e)) = Len(l) + 1
           /\ \A i \in 1..k : PlaceAfter(l, k, e)[i] = l[i]
           /\ PlaceAfter(l, k, e)[k + 1] = e
           /\ \A i \in k + 1 .. Len(l) : PlaceAfter(l, k, e)[i + 1] = l[i]
<1> DEFINE n == Len(l) + 1
           m == PlaceAfter(l, k, e)
           body == [i \in 1..n |-> IF i <= k THEN l[i]
                                   ELSE IF i = k + 1 THEN e ELSE l[i - 1]]
<1>1. Len(l) \in Nat /\ n \in Nat
  BY LenProperties
<1>2. m = body
  BY DEF PlaceAfter
<1>3. \A i \in 1..n : /\ i <= k => i \in 1..Len(l)
                      /\ ~(i <= k) /\ i # k + 1 => i - 1 \in 1..Len(l)
  BY <1>1
<1>4. \A i \in 1..Len(l) : l[i] \in Entry
  BY ElementOfSeq
<1>5. body \in [1..n -> Entry]
  BY <1>3, <1>4
<1>6. m \in Seq(Entry)
  BY <1>1, <1>2, <1>5
<1>7. Len(m) = n
  BY <1>1, <1>2, <1>5, <1>6, LenProperties
<1>8. \A i \in 1..n : m[i] = IF i <= k THEN l[i]
                             ELSE IF i = k + 1 THEN e ELSE l[i - 1]
  BY <1>2
<1> HIDE DEF m, body
<1>9. ASSUME NEW i \in 1..k
      PROVE  m[i] = l[i]
  <2>1. i \in 1..n /\ i <= k
    BY <1>1
  <2> QED  BY <1>8, <2>1
<1>10. m[k + 1] = e
  <2>1. k + 1 \in 1..n /\ ~(k + 1 <= k)
    BY <1>1
  <2> QED  BY <1>8, <2>1
<1>11. ASSUME NEW i \in k + 1 .. Len(l)
       PROVE  m[i + 1] = l[i]
  <2>1. i + 1 \in 1..n /\ ~(i + 1 <= k) /\ i + 1 # k + 1 /\ (i + 1) - 1 = i
    BY <1>1
  <2> QED  BY <1>8, <2>1
<1> QED
  BY <1>6, <1>7, <1>9, <1>10, <1>11 DEF m

(* A request is served with at least one page, and with more bytes than    *)
(* were asked for.                                                         *)
LEMMA PageCountFits ==
    ASSUME NEW size \in Sizes
    PROVE  /\ PageCount(size) \in Nat \ {0}
           /\ size < PageCount(size) * PageSize
<1> DEFINE q == size \div PageSize
<1>1. size \in Nat /\ PageSize \in Nat /\ PageSize > 0
  BY PageListAssumption
<1>2. q \in Nat /\ size < (q + 1) * PageSize
  BY <1>1, Z3
<1> QED
  BY <1>2 DEF PageCount

(* The numbers behind the allocators that take pages for good.             *)
LEMMA TakenNumbers ==
    /\ \A size \in Sizes : LargePages(size) \in Nat \ {0}
    /\ \A k \in Kinds, page \in Nat :
          /\ PerPage[k] \in Nat \ {0}
          /\ FirstBlock(k, page) \in Nat
          /\ FirstBlock(k, page + 1) = FirstBlock(k, page) + PerPage[k]
<1>1. ASSUME NEW size \in Sizes
      PROVE  LargePages(size) \in Nat \ {0}
  <2>1. size \div PageSize \in Nat
    BY PageCountFits, PageListAssumption
  <2> QED  BY <2>1 DEF LargePages
<1>2. ASSUME NEW k \in Kinds, NEW page \in Nat
      PROVE  /\ PerPage[k] \in Nat \ {0}
             /\ FirstBlock(k, page) \in Nat
             /\ FirstBlock(k, page + 1) = FirstBlock(k, page) + PerPage[k]
  BY PageListAssumption DEF FirstBlock
<1> QED  BY <1>1, <1>2

----------------------------------------------------------------------------

(* Entries of a well-typed list.                                           *)
LEMMA EntryTypes ==
    ASSUME TypeOK
    PROVE  /\ Len(list) \in Nat
           /\ DOMAIN list = 1..Len(list)
           /\ \A i \in 1..Len(list) :
                 /\ list[i] \in Entry
                 /\ list[i].location \in Nat
                 /\ list[i].free \in BOOLEAN
                 /\ list[i].size \in Nat \ {0}
                 /\ End(list[i]) \in Nat
                 /\ list[i].location < End(list[i])
<1>1. list \in Seq(Entry)
  BY DEF TypeOK
<1>2. Len(list) \in Nat /\ DOMAIN list = 1..Len(list)
  BY <1>1, LenProperties
<1>3. \A i \in 1..Len(list) : list[i] \in Entry
  BY <1>1, ElementOfSeq
<1> QED
  BY <1>2, <1>3 DEF Entry, End

(* Preparing an entry takes at most the pages asked for and one more, and  *)
(* stays within memory.                                                    *)
LEMMA PrepareTypes ==
    ASSUME TypeOK, NEW used \in Nat, PrepareEntry(used)
    PROVE  /\ heapPos' \in 0..Limit
           /\ \/ heapPos' = heapPos + used /\ taken' = taken
              \/ /\ heapPos' = heapPos + used + 1
                 /\ taken' = taken \cup {heapPos + used}
           /\ taken' \in SUBSET Nat
           /\ pageEntriesCount' \in 0..MaxEntries
<1>1. heapPos \in Nat /\ pageEntriesCount \in Nat /\ taken \in SUBSET Nat
  BY DEF TypeOK
<1>2. MaxEntries \in Nat \ {0} /\ Limit \in Nat
  BY PageListAssumption
<1>3. \/ /\ heapPos' = heapPos + used /\ taken' = taken
         /\ heapPos + used <= Limit
      \/ /\ heapPos' = heapPos + used + 1
         /\ taken' = taken \cup {heapPos + used}
         /\ heapPos + used + 1 <= Limit
  BY <1>1 DEF PrepareEntry, Room
<1>4. heapPos' \in 0..Limit
  BY <1>1, <1>2, <1>3
<1>5. taken' \in SUBSET Nat
  <2>1. heapPos + used \in Nat
    BY <1>1
  <2>2. taken' = taken \/ taken' = taken \cup {heapPos + used}
    BY <1>3
  <2> QED  BY <1>1, <2>1, <2>2
<1>6. pageEntriesCount' \in 0..MaxEntries
  BY <1>1, <1>2 DEF PrepareEntry, PageFull
<1> QED
  BY <1>3, <1>4, <1>5, <1>6

(* Splitting, entry by entry: the first n pages of entry i become used,    *)
(* the rest follows as a free entry of its own, all others stay.           *)
LEMMA SplitFacts ==
    ASSUME TypeOK, NEW i \in 1..Len(list), NEW n \in Nat \ {0},
           Fits(i, n), list[i].size # n, Split(i, n)
    PROVE  /\ list' \in Seq(Entry)
           /\ Len(list') = Len(list) + 1
           /\ \A j \in 1 .. i - 1 : list'[j] = list[j]
           /\ list'[i] = Kept(i, n)
           /\ list'[i + 1] = Rest(i, n)
           /\ \A j \in i + 1 .. Len(list) : list'[j + 1] = list[j]
           /\ PrepareEntry(0)
<1>0. PICK kept : kept = [list EXCEPT ![i] = Kept(i, n)]
  OBVIOUS
<1>1. list \in Seq(Entry) /\ Len(list) \in Nat
  BY EntryTypes DEF TypeOK
<1>2. list[i].size > n /\ list[i].size - n \in Nat \ {0}
  BY EntryTypes DEF Fits
<1>3. Kept(i, n) \in Entry /\ Rest(i, n) \in Entry
  <2>1. list[i].location \in Nat /\ list[i].location + n \in Nat
    BY EntryTypes
  <2> QED  BY <1>2, <2>1 DEF Kept, Rest, Entry
<1>4. /\ kept \in Seq(Entry)
      /\ Len(kept) = Len(list)
      /\ \A j \in 1..Len(list) : kept[j] = IF j = i THEN Kept(i, n) ELSE list[j]
  BY <1>0, <1>1, <1>3, ExceptSeq
<1>5. list' = PlaceAfter(kept, i, Rest(i, n)) /\ PrepareEntry(0)
  BY <1>0 DEF Split
<1>6. /\ list' \in Seq(Entry)
      /\ Len(list') = Len(list) + 1
      /\ \A j \in 1..i : list'[j] = kept[j]
      /\ list'[i + 1] = Rest(i, n)
      /\ \A j \in i + 1 .. Len(list) : list'[j + 1] = kept[j]
  <2>1. kept \in Seq(Entry) /\ i \in 0..Len(kept) /\ Rest(i, n) \in Entry
    BY <1>1, <1>3, <1>4
  <2>2. list' = PlaceAfter(kept, i, Rest(i, n))
    BY <1>5
  <2>3. Len(kept) = Len(list)
    BY <1>4
  <2>4. list' \in Seq(Entry) /\ Len(list') = Len(kept) + 1
    BY <2>1, <2>2, PlaceAfterFacts
  <2>5. ASSUME NEW j \in 1..i
        PROVE  list'[j] = kept[j]
    <3>1. PlaceAfter(kept, i, Rest(i, n))[j] = kept[j]
      BY <2>1, PlaceAfterFacts
    <3> QED  BY <2>2, <3>1
  <2>6. list'[i + 1] = Rest(i, n)
    <3>1. PlaceAfter(kept, i, Rest(i, n))[i + 1] = Rest(i, n)
      BY <2>1, PlaceAfterFacts
    <3> QED  BY <2>2, <3>1
  <2>7. ASSUME NEW j \in i + 1 .. Len(kept)
        PROVE  list'[j + 1] = kept[j]
    <3>1. PlaceAfter(kept, i, Rest(i, n))[j + 1] = kept[j]
      BY <2>1, PlaceAfterFacts
    <3> QED  BY <2>2, <3>1
  <2> QED  BY <2>3, <2>4, <2>5, <2>6, <2>7
<1>7. \A j \in 1 .. i - 1 : list'[j] = list[j]
  <2> SUFFICES ASSUME NEW j \in 1 .. i - 1
               PROVE  list'[j] = list[j]
    OBVIOUS
  <2>1. j \in 1..i /\ j \in 1..Len(list) /\ j # i
    BY <1>1
  <2> QED  BY <1>4, <1>6, <2>1
<1>8. list'[i] = Kept(i, n)
  BY <1>1, <1>4, <1>6
<1>9. \A j \in i + 1 .. Len(list) : list'[j + 1] = list[j]
  <2> SUFFICES ASSUME NEW j \in i + 1 .. Len(list)
               PROVE  list'[j + 1] = list[j]
    OBVIOUS
  <2>1. j \in 1..Len(list) /\ j # i
    BY <1>1
  <2> QED  BY <1>4, <1>6, <2>1
<1> QED
  BY <1>5, <1>6, <1>7, <1>8, <1>9

(* A request of exactly an entry's size only marks the entry.              *)
LEMMA MarkFacts ==
    ASSUME TypeOK, NEW i \in 1..Len(list), NEW f \in BOOLEAN,
           list' = [list EXCEPT ![i].free = f]
    PROVE  /\ list' \in Seq(Entry)
           /\ Len(list') = Len(list)
           /\ \A j \in 1..Len(list) :
                 list'[j] = IF j = i THEN [list[i] EXCEPT !.free = f]
                                     ELSE list[j]
<1>1. list \in Seq(Entry)
  BY DEF TypeOK
<1>2. [list[i] EXCEPT !.free = f] \in Entry
  BY EntryTypes DEF Entry
<1>3. list' = [list EXCEPT ![i] = [list[i] EXCEPT !.free = f]]
  OBVIOUS
<1> QED
  BY <1>1, <1>2, <1>3, ExceptSeq

(* The entry a fresh block gets.                                           *)
FreshEntry(n) == [location |-> heapPos, free |-> FALSE, size |-> n]

(* Adding the entry of a fresh block, entry by entry.                      *)
LEMMA AddFacts ==
    ASSUME TypeOK, NEW n \in Nat \ {0}, AddEntry(heapPos, n)
    PROVE  \E k \in 0..Len(list) :
              /\ \A j \in 1..k : list[j].location < heapPos
              /\ k < Len(list) => list[k + 1].location >= heapPos
              /\ list' \in Seq(Entry)
              /\ Len(list') = Len(list) + 1
              /\ \A j \in 1..k : list'[j] = list[j]
              /\ list'[k + 1] = FreshEntry(n)
              /\ \A j \in k + 1 .. Len(list) : list'[j + 1] = list[j]
<1>1. list \in Seq(Entry) /\ FreshEntry(n) \in Entry
  BY DEF TypeOK, FreshEntry, Entry
<1>2. PICK k \in 0..Len(list) :
         /\ \A j \in 1..k : list[j].location < heapPos
         /\ k < Len(list) => list[k + 1].location >= heapPos
         /\ list' = PlaceAfter(list, k, FreshEntry(n))
  BY DEF AddEntry, FreshEntry
<1>3. list' \in Seq(Entry) /\ Len(list') = Len(list) + 1
  BY <1>1, <1>2, PlaceAfterFacts
<1>4. ASSUME NEW j \in 1..k
      PROVE  list'[j] = list[j]
  <2>1. PlaceAfter(list, k, FreshEntry(n))[j] = list[j]
    BY <1>1, PlaceAfterFacts
  <2> QED  BY <1>2, <2>1
<1>5. list'[k + 1] = FreshEntry(n)
  <2>1. PlaceAfter(list, k, FreshEntry(n))[k + 1] = FreshEntry(n)
    BY <1>1, PlaceAfterFacts
  <2> QED  BY <1>2, <2>1
<1>6. ASSUME NEW j \in k + 1 .. Len(list)
      PROVE  list'[j + 1] = list[j]
  <2>1. \A h \in k + 1 .. Len(list) :
           PlaceAfter(list, k, FreshEntry(n))[h + 1] = list[h]
    BY <1>1, PlaceAfterFacts
  <2> QED  BY <1>2, <2>1
<1> QED
  BY <1>2, <1>3, <1>4, <1>5, <1>6

----------------------------------------------------------------------------

(* Every step keeps the variables in their types; in particular the heap   *)
(* stays within memory and the bookkeeping page never holds more than      *)
(* MaxEntries entries.                                                     *)
LEMMA TypeStep == TypeOK /\ [Next]_vars => TypeOK'
<1> SUFFICES ASSUME TypeOK, [Next]_vars
             PROVE  TypeOK'
  OBVIOUS
<1> USE DEF TypeOK
<1>1. ASSUME NEW size \in Sizes, MallocReuse(size)
      PROVE  TypeOK'
  <2> DEFINE n == PageCount(size)
  <2>1. n \in Nat \ {0}
    BY PageCountFits
  <2>2. PICK i \in 1..Len(list) :
           /\ Fits(i, n)
           /\ Split(i, n)
           /\ held' = held \cup {[location |-> list[i].location, bytes |-> size]}
           /\ UNCHANGED carved
    BY <1>1 DEF MallocReuse
  <2>3. held' \in SUBSET [location : Nat, bytes : Sizes]
    BY <2>2, EntryTypes
  <2> HIDE DEF n
  <2>4. CASE list[i].size = n
    <3>1. list' = [list EXCEPT ![i].free = FALSE]
      BY <2>2, <2>4 DEF Split
    <3>2. UNCHANGED <<heapPos, taken, pageEntriesCount>>
      BY <2>2, <2>4 DEF Split
    <3>3. list' \in Seq(Entry)
      BY <3>1, MarkFacts
    <3> QED  BY <2>2, <2>3, <3>2, <3>3
  <2>5. CASE list[i].size # n
    <3>1. list' \in Seq(Entry) /\ PrepareEntry(0)
      BY <2>1, <2>2, <2>5, SplitFacts
    <3> QED  BY <2>2, <2>3, <3>1, PrepareTypes
  <2> QED  BY <2>4, <2>5
<1>2. ASSUME NEW size \in Sizes, MallocFresh(size)
      PROVE  TypeOK'
  <2> DEFINE n == PageCount(size)
  <2>1. n \in Nat \ {0}
    BY PageCountFits
  <2>2. PrepareEntry(n) /\ AddEntry(heapPos, n)
    BY <1>2 DEF MallocFresh
  <2>3. list' \in Seq(Entry)
    BY <2>1, <2>2, AddFacts
  <2>4. held' \in SUBSET [location : Nat, bytes : Sizes] /\ UNCHANGED carved
    BY <1>2 DEF MallocFresh
  <2> QED  BY <2>1, <2>2, <2>3, <2>4, PrepareTypes
<1>3. ASSUME NEW h \in held, Free(h)
      PROVE  TypeOK'
  <2>1. PICK i \in 1..Len(list) : list' = [list EXCEPT ![i].free = TRUE]
    BY <1>3 DEF Free
  <2>2. list' \in Seq(Entry)
    BY <2>1, MarkFacts
  <2> QED  BY <1>3, <2>2 DEF Free
<1>4. ASSUME NEW n \in Nat, TakePages(n)
      PROVE  TypeOK'
  <2>1. heapPos' \in 0..Limit /\ taken' \in SUBSET Nat
    BY <1>4, PageListAssumption DEF TakePages, Room
  <2> QED  BY <1>4, <2>1 DEF TakePages
<1>5. ASSUME NEW kind \in Kinds, CarveNewPage(kind)
      PROVE  TypeOK'
  <2>1. heapPos \in Nat /\ heapPos + 1 \in 0..Limit
    BY <1>5, PageListAssumption DEF CarveNewPage, Room
  <2>2. FirstBlock(kind, heapPos) \in Nat /\ PerPage[kind] \in Nat \ {0}
    BY <2>1, TakenNumbers
  <2>3. [pointer |-> FirstBlock(kind, heapPos) + 1, left |-> PerPage[kind] - 1]
           \in [pointer : Nat, left : Nat]
    BY <2>2
  <2>4. carved' \in [Kinds -> [pointer : Nat, left : Nat]]
    BY <1>5, <2>3 DEF CarveNewPage
  <2>5. taken' \in SUBSET Nat
    BY <1>5, <2>1 DEF CarveNewPage
  <2> QED  BY <1>5, <2>1, <2>4, <2>5 DEF CarveNewPage
<1>8. ASSUME NEW kind \in Kinds, CarveNextBlock(kind)
      PROVE  TypeOK'
  <2>1. carved[kind] \in [pointer : Nat, left : Nat]
    OBVIOUS
  <2>2. [pointer |-> carved[kind].pointer + 1, left |-> carved[kind].left - 1]
           \in [pointer : Nat, left : Nat]
    BY <1>8, <2>1 DEF CarveNextBlock
  <2>3. carved' \in [Kinds -> [pointer : Nat, left : Nat]]
    BY <1>8, <2>2 DEF CarveNextBlock
  <2> QED  BY <1>8, <2>3 DEF CarveNextBlock
<1>6. CASE UNCHANGED vars
  BY <1>6 DEF vars
<1>7. \A size \in Sizes : LargePages(size) \in Nat
  BY TakenNumbers
<1> QED
  BY <1>1, <1>2, <1>3, <1>4, <1>5, <1>6, <1>7, <1>8
     DEF Next, CreateBlock4k, MallocLarge

(* Behind memory_init every part has its type.                             *)
LEMMA InitTypes == Init => TypeOK
<1> SUFFICES ASSUME Init
             PROVE  TypeOK
  OBVIOUS
<1>1. <<>> \in Seq(Entry)
  BY EmptySeq
<1> QED
  BY <1>1, PageListAssumption DEF Init, TypeOK

(* Type correctness of the page manager.                                   *)
THEOREM TypeCorrect == Spec => []TypeOK
BY InitTypes, TypeStep, PTL DEF Spec

----------------------------------------------------------------------------

(* A number is at most itself.                                             *)
LEMMA LeqSelf == \A a \in Nat : a <= a
  OBVIOUS

(* Three comparisons in a row.                                             *)
LEMMA LeqChain ==
    \A a, b, c, d \in Nat : a <= b /\ b <= c /\ c <= d => a <= d
  OBVIOUS

(* A page carries a label iff it lies in the range of some entry.          *)
LEMMA PagesOfMember ==
    ASSUME NEW l \in Seq(Entry), NEW p
    PROVE  p \in PagesOf(l) <=>
              /\ p \in Int
              /\ \E i \in 1..Len(l) :
                    l[i].location <= p /\ p < End(l[i])
<1>1. \A i \in 1..Len(l) : l[i].location \in Nat /\ l[i].size \in Nat
  <2>1. \A i \in 1..Len(l) : l[i] \in Entry
    BY ElementOfSeq
  <2> QED  BY <2>1 DEF Entry
<1>2. ASSUME NEW i \in 1..Len(l)
      PROVE  p \in Pages(l[i]) <=>
                p \in Int /\ l[i].location <= p /\ p < End(l[i])
  BY <1>1 DEF Pages, End
<1> QED
  BY <1>2 DEF PagesOf

(* In an ordered list a location identifies its entry.                     *)
LEMMA LocationsDistinct ==
    ASSUME TypeOK, Ordered,
           NEW i \in 1..Len(list), NEW j \in 1..Len(list),
           list[i].location = list[j].location
    PROVE  i = j
<1>1. i \in Int /\ j \in Int
  BY EntryTypes
<1>2. CASE i < j
  BY <1>2, EntryTypes DEF Ordered
<1>3. CASE j < i
  BY <1>3, EntryTypes DEF Ordered
<1> QED
  BY <1>1, <1>2, <1>3

(* All entries lie below the end of the pages handed out.                  *)
LEMMA EntriesBelow ==
    ASSUME TypeOK, EveryPageOnce, NEW i \in 1..Len(list)
    PROVE  End(list[i]) <= heapPos
<1> DEFINE last == End(list[i]) - 1
<1>1. /\ list[i].location \in Nat /\ End(list[i]) \in Nat
      /\ list[i].location < End(list[i])
      /\ heapPos \in Nat
  BY EntryTypes DEF TypeOK
<1>2. /\ last \in Int
      /\ list[i].location <= last
      /\ last < End(list[i])
  BY <1>1
<1>3. last \in EntryPages
  <2>1. list \in Seq(Entry)
    BY DEF TypeOK
  <2> HIDE DEF last
  <2> QED  BY <1>2, <2>1, PagesOfMember DEF EntryPages
<1>4. last \in 0 .. heapPos - 1
  BY <1>3 DEF EveryPageOnce
<1> QED
  BY <1>1, <1>4

(* The entry of a fresh block therefore goes to the end of the list.       *)
LEMMA FreshIsLast ==
    ASSUME TypeOK, EveryPageOnce,
           NEW n \in Nat \ {0}, AddEntry(heapPos, n)
    PROVE  /\ list' \in Seq(Entry)
           /\ Len(list') = Len(list) + 1
           /\ \A j \in 1..Len(list) : list'[j] = list[j]
           /\ list'[Len(list) + 1] = FreshEntry(n)
<1>1. PICK k \in 0..Len(list) :
         /\ k < Len(list) => list[k + 1].location >= heapPos
         /\ list' \in Seq(Entry)
         /\ Len(list') = Len(list) + 1
         /\ \A j \in 1..k : list'[j] = list[j]
         /\ list'[k + 1] = FreshEntry(n)
  BY AddFacts
<1>2. Len(list) \in Nat /\ heapPos \in Nat
  BY EntryTypes DEF TypeOK
<1>3. ~(k < Len(list))
  <2> SUFFICES ASSUME k < Len(list)
               PROVE  FALSE
    OBVIOUS
  <2>1. k + 1 \in 1..Len(list)
    BY <1>2
  <2>2. /\ End(list[k + 1]) <= heapPos
        /\ list[k + 1].location \in Nat /\ End(list[k + 1]) \in Nat
        /\ list[k + 1].location < End(list[k + 1])
    BY <2>1, EntriesBelow, EntryTypes
  <2> QED  BY <1>1, <1>2, <2>2
<1>4. k = Len(list)
  BY <1>2, <1>3
<1> QED
  BY <1>1, <1>4

----------------------------------------------------------------------------
(* What the three ways the list changes do to the order of the entries and *)
(* to the pages they label.                                                *)

(* Setting or clearing one entry's free bit changes neither the order nor  *)
(* the pages labelled.                                                     *)
LEMMA MarkKeepsOrder ==
    ASSUME TypeOK, Ordered, NEW i \in 1..Len(list), NEW f \in BOOLEAN,
           list' = [list EXCEPT ![i].free = f]
    PROVE  Ordered' /\ EntryPages' = EntryPages
<1>1. /\ list \in Seq(Entry)
      /\ list' \in Seq(Entry)
      /\ Len(list') = Len(list)
      /\ \A j \in 1..Len(list) :
            list'[j] = IF j = i THEN [list[i] EXCEPT !.free = f] ELSE list[j]
  BY MarkFacts DEF TypeOK
<1>4. ASSUME NEW j \in 1..Len(list)
      PROVE  /\ list'[j].location = list[j].location
             /\ End(list'[j]) = End(list[j])
  <2>1. [list[i] EXCEPT !.free = f].location = list[i].location
    BY EntryTypes DEF Entry
  <2>2. [list[i] EXCEPT !.free = f].size = list[i].size
    BY EntryTypes DEF Entry
  <2> QED  BY <1>1, <2>1, <2>2 DEF End
<1>2. Ordered'
  BY <1>1, <1>4 DEF Ordered
<1>3. ASSUME NEW p
      PROVE  p \in PagesOf(list') <=> p \in PagesOf(list)
  <2>1. p \in PagesOf(list') <=>
           /\ p \in Int
           /\ \E j \in 1..Len(list') :
                list'[j].location <= p /\ p < End(list'[j])
    BY <1>1, PagesOfMember
  <2>2. p \in PagesOf(list) <=>
           /\ p \in Int
           /\ \E j \in 1..Len(list) :
                list[j].location <= p /\ p < End(list[j])
    BY <1>1, PagesOfMember
  <2> QED  BY <1>1, <1>4, <2>1, <2>2
<1> QED
  BY <1>2, <1>3 DEF EntryPages

\* Every entry after a split lies inside the entry it was, or was cut from.
LEMMA SplitKeepsOrder ==
    ASSUME TypeOK, Ordered, NEW i \in 1..Len(list), NEW n \in Nat \ {0},
           Fits(i, n), list[i].size # n, Split(i, n)
    PROVE  Ordered' /\ EntryPages' = EntryPages
<1> DEFINE Inside(j, o) ==
              /\ list'[j].location \in Nat /\ End(list'[j]) \in Nat
              /\ list[o].location <= list'[j].location
              /\ End(list'[j]) <= End(list[o])
<1>1. /\ Len(list) \in Nat
      /\ list \in Seq(Entry)
      /\ \A j \in 1..Len(list) : /\ list[j].location \in Nat
                                 /\ list[j].size \in Nat \ {0}
                                 /\ End(list[j]) \in Nat
  BY EntryTypes DEF TypeOK
<1>2. list[i].size > n
  BY <1>1 DEF Fits
<1>3. /\ list' \in Seq(Entry)
      /\ Len(list') = Len(list) + 1
      /\ \A j \in 1 .. i - 1 : list'[j] = list[j]
      /\ list'[i] = Kept(i, n)
      /\ list'[i + 1] = Rest(i, n)
      /\ \A j \in i + 1 .. Len(list) : list'[j + 1] = list[j]
  BY SplitFacts
<1>4. /\ list'[i].location = list[i].location
      /\ End(list'[i]) = list[i].location + n
      /\ list'[i + 1].location = list[i].location + n
      /\ End(list'[i + 1]) = End(list[i])
      /\ list[i].location + n < End(list[i])
  <2>1. /\ list'[i].location = list[i].location
        /\ list'[i].size = n
        /\ list'[i + 1].location = list[i].location + n
        /\ list'[i + 1].size = list[i].size - n
    BY <1>3 DEF Kept, Rest
  <2>2. /\ End(list[i]) = list[i].location + list[i].size
        /\ End(list'[i]) = list[i].location + n
        /\ End(list'[i + 1]) = (list[i].location + n) + (list[i].size - n)
    BY <2>1 DEF End
  <2>3. /\ list[i].location \in Nat
        /\ list[i].size \in Nat
    BY <1>1
  <2>4. (list[i].location + n) + (list[i].size - n)
           = list[i].location + list[i].size
    BY <2>3
  <2>5. list[i].location + n < list[i].location + list[i].size
    BY <1>2, <2>3
  <2>6. End(list'[i + 1]) = End(list[i])
    BY <2>2, <2>4
  <2>7. list[i].location + n < End(list[i])
    BY <2>2, <2>5
  <2> HIDE DEF Inside
  <2> QED  BY <2>1, <2>2, <2>6, <2>7
<1>5. ASSUME NEW j \in 1..i
      PROVE  Inside(j, j)
  <2>1. CASE j = i
    BY <1>1, <1>2, <1>4, <2>1
  <2>2. CASE j # i
    <3>1. j \in 1 .. i - 1 /\ j \in 1..Len(list)
      BY <1>1, <2>2
    <3> QED  BY <1>1, <1>3, <3>1
  <2> QED  BY <2>1, <2>2
<1>6. ASSUME NEW j \in i + 1 .. Len(list')
      PROVE  Inside(j, j - 1)
  <2>1. CASE j = i + 1
    <3>1. j - 1 = i
      BY <1>1, <2>1
    <3> QED  BY <1>1, <1>2, <1>4, <2>1, <3>1
  <2>2. CASE j # i + 1
    <3>1. j - 1 \in i + 1 .. Len(list) /\ j - 1 \in 1..Len(list) /\ (j - 1) + 1 = j
      BY <1>1, <1>3, <2>2
    <3>2. list'[j] = list[j - 1]
      BY <1>3, <3>1
    <3>3. list[j - 1].location \in Nat /\ End(list[j - 1]) \in Nat
      BY <1>1, <3>1, Zenon
    <3> QED  BY <3>2, <3>3, LeqSelf, Zenon
  <2> QED  BY <2>1, <2>2
<1>7. Ordered'
  <2> SUFFICES ASSUME NEW a \in 1..Len(list'), NEW b \in 1..Len(list'), a < b
               PROVE  End(list'[a]) <= list'[b].location
    BY DEF Ordered
  <2>1. CASE a = i /\ b = i + 1
    BY <1>1, <1>4, <2>1
  <2>2. CASE ~(a = i /\ b = i + 1)
    <3>1. PICK c \in 1..Len(list), d \in 1..Len(list) :
             c < d /\ Inside(a, c) /\ Inside(b, d)
      <4>1. CASE b <= i
        <5>1. /\ a \in 1..i /\ b \in 1..i
              /\ a \in 1..Len(list) /\ b \in 1..Len(list)
          BY <1>1, <4>1
        <5> QED  BY <1>5, <5>1
      <4>2. CASE a <= i /\ b > i
        <5>1. /\ a \in 1..i /\ b \in i + 1 .. Len(list') /\ a < b - 1
              /\ a \in 1..Len(list) /\ b - 1 \in 1..Len(list)
          BY <1>1, <1>3, <2>2, <4>2
        <5> QED  BY <1>5, <1>6, <5>1
      <4>3. CASE a > i
        <5>1. /\ a \in i + 1 .. Len(list') /\ b \in i + 1 .. Len(list')
              /\ a - 1 \in 1..Len(list) /\ b - 1 \in 1..Len(list)
              /\ a - 1 < b - 1
          BY <1>1, <1>3, <4>3
        <5> QED  BY <1>6, <5>1
      <4> QED  BY <1>1, <4>1, <4>2, <4>3
    <3>2. End(list[c]) <= list[d].location
      BY <3>1 DEF Ordered
    <3>3. End(list[c]) \in Nat /\ list[d].location \in Nat
      BY <1>1
    <3>4. /\ End(list'[a]) \in Nat /\ End(list'[a]) <= End(list[c])
          /\ list'[b].location \in Nat /\ list[d].location <= list'[b].location
      BY <3>1
    <3> QED  BY <3>2, <3>3, <3>4, LeqChain, Zenon
  <2> QED  BY <2>1, <2>2
<1>8. ASSUME NEW p \in PagesOf(list)
      PROVE  p \in PagesOf(list')
  <2>1. PICK j \in 1..Len(list) :
           p \in Int /\ list[j].location <= p /\ p < End(list[j])
    BY <1>1, PagesOfMember
  <2>2. \E m \in 1..Len(list') :
           list'[m].location <= p /\ p < End(list'[m])
    <3>1. CASE j < i
      <4>1. j \in 1 .. i - 1 /\ j \in 1..Len(list')
        BY <1>1, <1>3, <3>1
      <4> QED  BY <1>3, <2>1, <4>1
    <3>2. CASE j = i /\ p < list[i].location + n
      <4>1. i \in 1..Len(list')
        BY <1>1, <1>3
      <4> QED  BY <1>4, <2>1, <3>2, <4>1
    <3>3. CASE j = i /\ ~(p < list[i].location + n)
      <4>1. i + 1 \in 1..Len(list')
        BY <1>1, <1>3
      <4>2. /\ list'[i + 1].location <= p
            /\ p < End(list'[i + 1])
        BY <1>1, <1>4, <2>1, <3>3
      <4> QED  BY <4>1, <4>2
    <3>4. CASE j > i
      <4>1. j \in i + 1 .. Len(list) /\ j + 1 \in 1..Len(list')
        BY <1>1, <1>3, <3>4
      <4>2. list'[j + 1] = list[j]
        BY <1>3, <4>1
      <4> QED  BY <2>1, <4>1, <4>2
    <3> QED  BY <1>1, <3>1, <3>2, <3>3, <3>4
  <2> QED  BY <1>3, <2>1, <2>2, PagesOfMember
<1>9. ASSUME NEW p \in PagesOf(list')
      PROVE  p \in PagesOf(list)
  <2>1. PICK j \in 1..Len(list') :
           p \in Int /\ list'[j].location <= p /\ p < End(list'[j])
    BY <1>3, PagesOfMember
  <2>2. PICK o \in 1..Len(list) : Inside(j, o)
    <3>1. CASE j <= i
      <4>1. j \in 1..i /\ j \in 1..Len(list)
        BY <1>1, <3>1
      <4> QED  BY <1>5, <4>1
    <3>2. CASE j > i
      <4>1. j \in i + 1 .. Len(list') /\ j - 1 \in 1..Len(list)
        BY <1>1, <1>3, <3>2
      <4> QED  BY <1>6, <4>1
    <3> QED  BY <1>1, <3>1, <3>2
  <2>3. list[o].location <= p /\ p < End(list[o])
    <3>1. /\ list'[j].location \in Nat /\ End(list'[j]) \in Nat
          /\ list[o].location <= list'[j].location
          /\ End(list'[j]) <= End(list[o])
      BY <2>2
    <3>2. list[o].location \in Nat /\ End(list[o]) \in Nat
      BY <1>1, Zenon
    <3> HIDE DEF Inside
    <3> QED  BY <2>1, <3>1, <3>2, SMTT(30)
  <2>4. list \in Seq(Entry) /\ p \in Int
    BY <1>1, <2>1
  <2> QED  BY <2>3, <2>4, PagesOfMember
<1> QED
  BY <1>7, <1>8, <1>9 DEF EntryPages

(* addNode keeps the entries in address order and labels the new pages, no *)
(* others.                                                                 *)
LEMMA AddKeepsOrder ==
    ASSUME TypeOK, Ordered, EveryPageOnce,
           NEW n \in Nat \ {0}, AddEntry(heapPos, n)
    PROVE  /\ Ordered'
           /\ EntryPages' = EntryPages \cup (heapPos .. heapPos + n - 1)
<1>1. /\ Len(list) \in Nat
      /\ heapPos \in Nat
      /\ list \in Seq(Entry)
      /\ \A j \in 1..Len(list) : /\ list[j].location \in Nat
                                 /\ End(list[j]) \in Nat
                                 /\ End(list[j]) <= heapPos
  BY EntryTypes, EntriesBelow DEF TypeOK
<1>2. /\ list' \in Seq(Entry)
      /\ Len(list') = Len(list) + 1
      /\ \A j \in 1..Len(list) : list'[j] = list[j]
      /\ list'[Len(list) + 1].location = heapPos
      /\ End(list'[Len(list) + 1]) = heapPos + n
  <2>1. /\ list' \in Seq(Entry)
        /\ Len(list') = Len(list) + 1
        /\ \A j \in 1..Len(list) : list'[j] = list[j]
        /\ list'[Len(list) + 1] = FreshEntry(n)
    BY FreshIsLast
  <2> QED  BY <2>1 DEF FreshEntry, End
<1>3. \A j \in 1..Len(list') : j \in 1..Len(list) \/ j = Len(list) + 1
  BY <1>1, <1>2
<1>4. Ordered'
  <2> SUFFICES ASSUME NEW a \in 1..Len(list'), NEW b \in 1..Len(list'), a < b
               PROVE  End(list'[a]) <= list'[b].location
    BY DEF Ordered
  <2>1. a \in 1..Len(list)
    BY <1>1, <1>2
  <2> QED  BY <1>1, <1>2, <1>3, <2>1 DEF Ordered
<1>5. \A p : p \in PagesOf(list') <=>
               p \in PagesOf(list) \/ p \in heapPos .. heapPos + n - 1
  <2> SUFFICES ASSUME NEW p
               PROVE  p \in PagesOf(list') <=>
                        p \in PagesOf(list) \/ p \in heapPos .. heapPos + n - 1
    OBVIOUS
  <2>1. p \in PagesOf(list') <=>
           /\ p \in Int
           /\ \E j \in 1..Len(list') :
                list'[j].location <= p /\ p < End(list'[j])
    BY <1>2, PagesOfMember
  <2>2. p \in PagesOf(list) <=>
           /\ p \in Int
           /\ \E j \in 1..Len(list) :
                list[j].location <= p /\ p < End(list[j])
    BY <1>1, PagesOfMember
  <2>3. /\ 1..Len(list) \subseteq 1..Len(list')
        /\ Len(list) + 1 \in 1..Len(list')
    BY <1>1, <1>2
  <2>4. p \in heapPos .. heapPos + n - 1 <=>
           p \in Int /\ heapPos <= p /\ p < heapPos + n
    BY <1>1
  <2>5. ASSUME p \in PagesOf(list')
        PROVE  p \in PagesOf(list) \/ p \in heapPos .. heapPos + n - 1
    <3>1. PICK j \in 1..Len(list') :
             list'[j].location <= p /\ p < End(list'[j])
      BY <2>1, <2>5
    <3>2. CASE j \in 1..Len(list)
      BY <1>2, <2>1, <2>2, <2>5, <3>1, <3>2
    <3>3. CASE j = Len(list) + 1
      BY <1>2, <2>1, <2>4, <2>5, <3>1, <3>3
    <3> QED  BY <1>3, <3>2, <3>3
  <2>6. ASSUME p \in PagesOf(list)
        PROVE  p \in PagesOf(list')
    BY <1>2, <2>1, <2>2, <2>3, <2>6
  <2>7. ASSUME p \in heapPos .. heapPos + n - 1
        PROVE  p \in PagesOf(list')
    BY <1>2, <2>1, <2>3, <2>4, <2>7
  <2> QED  BY <2>5, <2>6, <2>7
<1> QED
  BY <1>4, <1>5 DEF EntryPages

----------------------------------------------------------------------------
(* Every page has one use.  What callers are given is then settled by the  *)
(* entries alone, so who holds what is left to the second half.            *)

(* The inductive invariant of the pages: an entry can only be added at     *)
(* heapPos without overlap because every entry lies below it, and that     *)
(* follows from the pages being accounted for.                             *)
PageInv == TypeOK /\ Ordered /\ EveryPageOnce

(* A step that leaves the labels alone and takes the next pages for good.  *)
LEMMA TakeKeepsPages ==
    ASSUME TypeOK, EveryPageOnce, EntryPages' = EntryPages,
           NEW n \in Nat,
           heapPos' = heapPos + n,
           taken' = taken \cup (heapPos .. heapPos + n - 1)
    PROVE  EveryPageOnce'
<1>1. heapPos \in Nat
  BY DEF TypeOK
<1>2. 0 .. heapPos' - 1 = (0 .. heapPos - 1) \cup (heapPos .. heapPos + n - 1)
  BY <1>1
<1>3. (0 .. heapPos - 1) \cap (heapPos .. heapPos + n - 1) = {}
  BY <1>1
<1> QED
  BY <1>2, <1>3 DEF EveryPageOnce

(* The same for the page a full bookkeeping page is replaced by, behind    *)
(* the n pages of a fresh block.                                           *)
LEMMA PrepareKeepsPages ==
    ASSUME TypeOK, EveryPageOnce, NEW n \in Nat, PrepareEntry(n),
           EntryPages' = EntryPages \cup (heapPos .. heapPos + n - 1)
    PROVE  EveryPageOnce'
<1>1. heapPos \in Nat
  BY DEF TypeOK
<1>2. \/ heapPos' = heapPos + n /\ taken' = taken
      \/ heapPos' = heapPos + n + 1 /\ taken' = taken \cup {heapPos + n}
  BY PrepareTypes
<1>3. 0 .. heapPos + n - 1 = (0 .. heapPos - 1) \cup (heapPos .. heapPos + n - 1)
  BY <1>1
<1>4. 0 .. heapPos + n = (0 .. heapPos + n - 1) \cup {heapPos + n}
  BY <1>1
<1>5. /\ (0 .. heapPos - 1) \cap (heapPos .. heapPos + n - 1) = {}
      /\ heapPos + n \notin 0 .. heapPos + n - 1
  BY <1>1
<1>6. CASE heapPos' = heapPos + n /\ taken' = taken
  <2>1. EntryPages' \cup taken' = 0 .. heapPos + n - 1
    BY <1>3, <1>6 DEF EveryPageOnce
  <2>2. EntryPages' \cap taken' = {}
    BY <1>5, <1>6 DEF EveryPageOnce
  <2>3. 0 .. heapPos' - 1 = 0 .. heapPos + n - 1
    BY <1>1, <1>6
  <2> QED  BY <2>1, <2>2, <2>3 DEF EveryPageOnce
<1>7. CASE heapPos' = heapPos + n + 1 /\ taken' = taken \cup {heapPos + n}
  <2>1. heapPos' - 1 = heapPos + n
    BY <1>1, <1>7
  <2>2. 0 .. heapPos' - 1 = 0 .. heapPos + n
    BY <2>1
  <2> QED  BY <1>3, <1>4, <1>5, <1>7, <2>2 DEF EveryPageOnce
<1> QED
  BY <1>2, <1>6, <1>7

(* Every step keeps the order of the entries and the use of every page.    *)
LEMMA PageStep == PageInv /\ [Next]_vars => PageInv'
<1> SUFFICES ASSUME PageInv, [Next]_vars
             PROVE  Ordered' /\ EveryPageOnce'
  BY TypeStep DEF PageInv
<1> USE DEF PageInv
<1>0. heapPos \in Nat
  BY DEF TypeOK
<1>1. ASSUME NEW size \in Sizes, MallocReuse(size)
      PROVE  Ordered' /\ EveryPageOnce'
  <2>1. PageCount(size) \in Nat \ {0}
    BY PageCountFits
  <2>2. PICK i \in 1..Len(list) :
           Fits(i, PageCount(size)) /\ Split(i, PageCount(size))
    BY <1>1 DEF MallocReuse
  <2>3. CASE list[i].size = PageCount(size)
    <3>1. list' = [list EXCEPT ![i].free = FALSE]
      BY <2>2, <2>3 DEF Split
    <3>2. Ordered' /\ EntryPages' = EntryPages
      BY <3>1, MarkKeepsOrder
    <3>3. UNCHANGED <<heapPos, taken>>
      BY <2>2, <2>3 DEF Split
    <3> QED  BY <3>2, <3>3 DEF EveryPageOnce
  <2>4. CASE list[i].size # PageCount(size)
    <3>1. Ordered' /\ EntryPages' = EntryPages
      BY <2>1, <2>2, <2>4, SplitKeepsOrder
    <3>2. PrepareEntry(0)
      BY <2>1, <2>2, <2>4, SplitFacts
    <3>3. heapPos .. heapPos + 0 - 1 = {}
      BY <1>0
    <3> QED  BY <3>1, <3>2, <3>3, PrepareKeepsPages
  <2> QED  BY <2>3, <2>4
<1>2. ASSUME NEW size \in Sizes, MallocFresh(size)
      PROVE  Ordered' /\ EveryPageOnce'
  <2>1. PageCount(size) \in Nat \ {0}
    BY PageCountFits
  <2>2. PrepareEntry(PageCount(size)) /\ AddEntry(heapPos, PageCount(size))
    BY <1>2 DEF MallocFresh
  <2> QED  BY <2>1, <2>2, AddKeepsOrder, PrepareKeepsPages
<1>3. ASSUME NEW h \in held, Free(h)
      PROVE  Ordered' /\ EveryPageOnce'
  <2>1. PICK i \in 1..Len(list) : list' = [list EXCEPT ![i].free = TRUE]
    BY <1>3 DEF Free
  <2>2. Ordered' /\ EntryPages' = EntryPages
    BY <2>1, MarkKeepsOrder
  <2> QED  BY <1>3, <2>2 DEF Free, EveryPageOnce
<1>4. ASSUME NEW n \in Nat, TakePages(n)
      PROVE  Ordered' /\ EveryPageOnce'
  <2>1. list' = list
    BY <1>4 DEF TakePages
  <2>2. Ordered' /\ EntryPages' = EntryPages
    BY <2>1 DEF Ordered, EntryPages
  <2> QED  BY <1>4, <2>2, TakeKeepsPages DEF TakePages
<1>5. ASSUME NEW kind \in Kinds, CarveNewPage(kind)
      PROVE  Ordered' /\ EveryPageOnce'
  <2>1. list' = list /\ heapPos' = heapPos + 1 /\ taken' = taken \cup {heapPos}
    BY <1>5 DEF CarveNewPage
  <2>2. Ordered' /\ EntryPages' = EntryPages
    BY <2>1 DEF Ordered, EntryPages
  <2>3. heapPos .. heapPos + 1 - 1 = {heapPos}
    BY <1>0
  <2> QED  BY <2>1, <2>2, <2>3, TakeKeepsPages
<1>6. CASE \/ \E kind \in Kinds : CarveNextBlock(kind)
           \/ UNCHANGED vars
  <2>1. UNCHANGED <<list, heapPos, taken>>
    BY <1>6 DEF CarveNextBlock, vars
  <2> QED  BY <2>1 DEF Ordered, EveryPageOnce, EntryPages
<1>7. \A size \in Sizes : LargePages(size) \in Nat
  BY TakenNumbers
<1> QED
  BY <1>1, <1>2, <1>3, <1>4, <1>5, <1>6, <1>7
     DEF Next, CreateBlock4k, MallocLarge

(* Behind memory_init the pages below heapPos are all taken.               *)
LEMMA InitPages == Init => PageInv
<1> SUFFICES ASSUME Init
             PROVE  Ordered /\ EveryPageOnce
  BY InitTypes DEF PageInv
<1>1. list = <<>> /\ Len(list) = 0 /\ EntryPages = {}
  BY DEF Init, EntryPages, PagesOf
<1>2. heapPos - 1 = Boot + 1
  BY PageListAssumption DEF Init
<1> QED
  BY <1>1, <1>2 DEF Init, Ordered, EveryPageOnce

(* Every page handed out by the end of memory has exactly one use: it      *)
(* carries the label of one entry or was taken for good.                   *)
THEOREM PagesHaveOneUse == Spec => []EveryPageOnce
<1>1. PageInv => EveryPageOnce
  BY DEF PageInv
<1> QED
  BY <1>1, InitPages, PageStep, PTL DEF Spec

(* The entries are in address order and do not overlap.                    *)
THEOREM EntriesInOrder == Spec => []Ordered
<1>1. PageInv => Ordered
  BY DEF PageInv
<1> QED
  BY <1>1, InitPages, PageStep, PTL DEF Spec
----------------------------------------------------------------------------

(* A used entry is one of the list.                                        *)
LEMMA UsedMember ==
    \A e : e \in UsedEntries <=>
              \E i \in 1..Len(list) : ~list[i].free /\ e = list[i]
BY DEF UsedEntries

(* A free entry is one of the list.                                        *)
LEMMA FreeMember ==
    \A e : e \in FreeEntries <=>
              \E i \in 1..Len(list) : list[i].free /\ e = list[i]
BY DEF FreeEntries

(* An entry is its three fields.                                           *)
LEMMA EntryEqual ==
    ASSUME NEW a \in Entry, NEW b \in Entry,
           a.location = b.location, a.free = b.free, a.size = b.size
    PROVE  a = b
BY DEF Entry

(* Two different entries label different pages.                            *)
LEMMA EntriesApart ==
    ASSUME TypeOK, Ordered,
           NEW i \in 1..Len(list), NEW j \in 1..Len(list), i # j
    PROVE  Pages(list[i]) \cap Pages(list[j]) = {}
<1>1. /\ list[i].location \in Nat /\ End(list[i]) \in Nat
      /\ list[j].location \in Nat /\ End(list[j]) \in Nat
  BY EntryTypes
<1>2. End(list[i]) <= list[j].location \/ End(list[j]) <= list[i].location
  <2>1. i < j \/ j < i
    BY EntryTypes
  <2> QED  BY <2>1 DEF Ordered
<1> QED
  BY <1>1, <1>2 DEF Pages

----------------------------------------------------------------------------
(* What the list changes do to the entries that are used and to those that *)
(* are free.                                                               *)

(* Which entries are used and free after malloc has found a free entry.    *)
LEMMA ReuseEntries ==
    ASSUME TypeOK, Ordered, NEW i \in 1..Len(list), NEW n \in Nat \ {0},
           Fits(i, n), Split(i, n)
    PROVE  /\ UsedEntries' = UsedEntries \cup {Kept(i, n)}
           /\ FreeEntries' = (FreeEntries \ {list[i]}) \cup
                  (IF list[i].size = n THEN {} ELSE {Rest(i, n)})
<1>1. /\ Len(list) \in Nat
      /\ list[i].free
      /\ \A j \in 1..Len(list) : list[j] = list[i] => j = i
  BY EntryTypes, LocationsDistinct DEF Fits
<1>2. ~Kept(i, n).free /\ Rest(i, n).free
  BY DEF Kept, Rest
<1>3. CASE list[i].size = n
  <2>1. /\ Len(list') = Len(list)
        /\ \A j \in 1..Len(list) :
              list'[j] = IF j = i THEN [list[i] EXCEPT !.free = FALSE] ELSE list[j]
    BY <1>3, MarkFacts DEF Split
  <2>2. [list[i] EXCEPT !.free = FALSE] = Kept(i, n)
    <3>1. [list[i] EXCEPT !.free = FALSE] \in Entry /\ Kept(i, n) \in Entry
      BY EntryTypes DEF Kept, Entry
    <3>2. /\ [list[i] EXCEPT !.free = FALSE].location = list[i].location
          /\ [list[i] EXCEPT !.free = FALSE].free = FALSE
          /\ [list[i] EXCEPT !.free = FALSE].size = list[i].size
      BY EntryTypes DEF Entry
    <3>3. /\ Kept(i, n).location = list[i].location
          /\ Kept(i, n).free = FALSE
          /\ Kept(i, n).size = list[i].size
      BY <1>3 DEF Kept
    <3> QED  BY <3>1, <3>2, <3>3, EntryEqual
  <2>3. \A j \in 1..Len(list) : list'[j] = IF j = i THEN Kept(i, n) ELSE list[j]
    BY <2>1, <2>2
  <2>4. \A e : e \in UsedEntries' <=>
                  \E j \in 1..Len(list') : ~list'[j].free /\ e = list'[j]
    BY DEF UsedEntries
  <2>5. \A e : e \in FreeEntries' <=>
                  \E j \in 1..Len(list') : list'[j].free /\ e = list'[j]
    BY DEF FreeEntries
  <2>6. UsedEntries' = UsedEntries \cup {Kept(i, n)}
    BY <1>1, <1>2, <2>1, <2>3, <2>4, UsedMember
  <2>7. FreeEntries' = FreeEntries \ {list[i]}
    BY <1>1, <1>2, <2>1, <2>3, <2>5, FreeMember
  <2> QED  BY <1>3, <2>6, <2>7
<1>4. CASE list[i].size # n
  <2>1. /\ Len(list') = Len(list) + 1
        /\ \A j \in 1 .. i - 1 : list'[j] = list[j]
        /\ list'[i] = Kept(i, n)
        /\ list'[i + 1] = Rest(i, n)
        /\ \A j \in i + 1 .. Len(list) : list'[j + 1] = list[j]
    BY <1>4, SplitFacts
  <2>2. \A e : (\E j \in 1..Len(list') : e = list'[j]) <=>
               \/ e = Kept(i, n) \/ e = Rest(i, n)
               \/ \E j \in 1..Len(list) : j # i /\ e = list[j]
    <3> SUFFICES ASSUME NEW e
                 PROVE  (\E j \in 1..Len(list') : e = list'[j]) <=>
                           \/ e = Kept(i, n) \/ e = Rest(i, n)
                           \/ \E j \in 1..Len(list) : j # i /\ e = list[j]
      OBVIOUS
    <3>1. ASSUME NEW j \in 1..Len(list'), e = list'[j]
          PROVE  \/ e = Kept(i, n) \/ e = Rest(i, n)
                 \/ \E m \in 1..Len(list) : m # i /\ e = list[m]
      <4>1. CASE j < i
        <5>1. j \in 1 .. i - 1 /\ j \in 1..Len(list) /\ j # i
          BY <1>1, <4>1
        <5> QED  BY <2>1, <3>1, <5>1
      <4>2. CASE j = i \/ j = i + 1
        BY <2>1, <3>1, <4>2
      <4>3. CASE j > i + 1
        <5>1. /\ j - 1 \in i + 1 .. Len(list) /\ j - 1 \in 1..Len(list)
              /\ j - 1 # i /\ (j - 1) + 1 = j
          BY <1>1, <2>1, <4>3
        <5>2. list'[j] = list[j - 1]
          BY <2>1, <5>1
        <5> QED  BY <3>1, <5>1, <5>2
      <4> QED  BY <1>1, <2>1, <4>1, <4>2, <4>3
    <3>2. ASSUME NEW m \in 1..Len(list), m # i, e = list[m]
          PROVE  \E j \in 1..Len(list') : e = list'[j]
      <4>1. CASE m < i
        <5>1. m \in 1 .. i - 1 /\ m \in 1..Len(list')
          BY <1>1, <2>1, <4>1
        <5> QED  BY <2>1, <3>2, <5>1
      <4>2. CASE m > i
        <5>1. m \in i + 1 .. Len(list) /\ m + 1 \in 1..Len(list')
          BY <1>1, <2>1, <4>2
        <5>2. list'[m + 1] = list[m]
          BY <2>1, <5>1
        <5> QED  BY <3>2, <5>1, <5>2
      <4> QED  BY <1>1, <3>2, <4>1, <4>2
    <3>3. i \in 1..Len(list') /\ i + 1 \in 1..Len(list')
      BY <1>1, <2>1
    <3> QED  BY <2>1, <3>1, <3>2, <3>3
  <2>3. \A e : e \in UsedEntries' <=>
                  ~e.free /\ \E j \in 1..Len(list') : e = list'[j]
    BY DEF UsedEntries
  <2>4. \A e : e \in FreeEntries' <=>
                  e.free /\ \E j \in 1..Len(list') : e = list'[j]
    BY DEF FreeEntries
  <2>5. ASSUME NEW e
        PROVE  e \in UsedEntries' <=> e \in UsedEntries \/ e = Kept(i, n)
    <3>1. e \in UsedEntries <=> ~e.free /\ \E j \in 1..Len(list) : j # i /\ e = list[j]
      BY <1>1, UsedMember
    <3> QED  BY <1>2, <2>2, <2>3, <3>1
  <2>6. ASSUME NEW e
        PROVE  e \in FreeEntries' <=>
                  (e \in FreeEntries /\ e # list[i]) \/ e = Rest(i, n)
    <3>1. e \in FreeEntries /\ e # list[i] <=>
             e.free /\ \E j \in 1..Len(list) : j # i /\ e = list[j]
      BY <1>1, FreeMember
    <3> QED  BY <1>2, <2>2, <2>4, <3>1
  <2> QED  BY <1>4, <2>5, <2>6
<1> QED
  BY <1>3, <1>4

(* Which entries are used and free after malloc has grown the list.        *)
LEMMA FreshEntries ==
    ASSUME TypeOK, EveryPageOnce, NEW n \in Nat \ {0}, AddEntry(heapPos, n)
    PROVE  /\ UsedEntries' = UsedEntries \cup {FreshEntry(n)}
           /\ FreeEntries' = FreeEntries
<1>1. /\ Len(list) \in Nat
      /\ Len(list') = Len(list) + 1
      /\ \A j \in 1..Len(list) : list'[j] = list[j]
      /\ list'[Len(list) + 1] = FreshEntry(n)
  BY EntryTypes, FreshIsLast
<1>2. \A e : (\E j \in 1..Len(list') : e = list'[j]) <=>
               e = FreshEntry(n) \/ \E j \in 1..Len(list) : e = list[j]
  <2>1. /\ 1..Len(list) \subseteq 1..Len(list')
        /\ Len(list) + 1 \in 1..Len(list')
        /\ \A j \in 1..Len(list') : j \in 1..Len(list) \/ j = Len(list) + 1
    BY <1>1
  <2> QED  BY <1>1, <2>1
<1>3. ~FreshEntry(n).free
  BY DEF FreshEntry
<1>4. \A e : e \in UsedEntries' <=>
                ~e.free /\ \E j \in 1..Len(list') : e = list'[j]
  BY DEF UsedEntries
<1>5. \A e : e \in FreeEntries' <=>
                e.free /\ \E j \in 1..Len(list') : e = list'[j]
  BY DEF FreeEntries
<1>6. ASSUME NEW e
      PROVE  e \in UsedEntries' <=> e \in UsedEntries \/ e = FreshEntry(n)
  <2>1. e \in UsedEntries <=> ~e.free /\ \E j \in 1..Len(list) : e = list[j]
    BY UsedMember
  <2>2. e \in UsedEntries' <=>
           ~e.free /\ (e = FreshEntry(n) \/ \E j \in 1..Len(list) : e = list[j])
    BY <1>2, <1>4
  <2>3. e = FreshEntry(n) => ~e.free
    BY <1>3
  <2> HIDE DEF FreshEntry, UsedEntries
  <2> QED  BY <2>1, <2>2, <2>3
<1>7. ASSUME NEW e
      PROVE  e \in FreeEntries' <=> e \in FreeEntries
  <2>1. e \in FreeEntries <=> e.free /\ \E j \in 1..Len(list) : e = list[j]
    BY FreeMember
  <2> QED  BY <1>2, <1>3, <1>5, <2>1
<1> QED
  BY <1>6, <1>7

(* An entry marked free.                                                   *)
Freed(i) == [location |-> list[i].location, free |-> TRUE, size |-> list[i].size]

(* Which entries are used and free after a block was given back.           *)
LEMMA ReleasedEntries ==
    ASSUME TypeOK, Ordered, NEW i \in 1..Len(list), ~list[i].free,
           list' = [list EXCEPT ![i].free = TRUE]
    PROVE  /\ UsedEntries' = UsedEntries \ {list[i]}
           /\ FreeEntries' = FreeEntries \cup {Freed(i)}
<1>1. /\ Len(list) \in Nat
      /\ \A j \in 1..Len(list) : list[j] = list[i] => j = i
  BY EntryTypes, LocationsDistinct
<1>2. /\ Len(list') = Len(list)
      /\ \A j \in 1..Len(list) :
            list'[j] = IF j = i THEN [list[i] EXCEPT !.free = TRUE] ELSE list[j]
  BY MarkFacts
<1>3. [list[i] EXCEPT !.free = TRUE] = Freed(i)
  <2>1. [list[i] EXCEPT !.free = TRUE] \in Entry /\ Freed(i) \in Entry
    BY EntryTypes DEF Freed, Entry
  <2>2. /\ [list[i] EXCEPT !.free = TRUE].location = list[i].location
        /\ [list[i] EXCEPT !.free = TRUE].free = TRUE
        /\ [list[i] EXCEPT !.free = TRUE].size = list[i].size
    BY EntryTypes DEF Entry
  <2>3. /\ Freed(i).location = list[i].location
        /\ Freed(i).free = TRUE
        /\ Freed(i).size = list[i].size
    BY DEF Freed
  <2> QED  BY <2>1, <2>2, <2>3, EntryEqual
<1>4. \A j \in 1..Len(list) : list'[j] = IF j = i THEN Freed(i) ELSE list[j]
  BY <1>2, <1>3
<1>5. Freed(i).free
  BY DEF Freed
<1>6. \A e : e \in UsedEntries' <=>
                \E j \in 1..Len(list') : ~list'[j].free /\ e = list'[j]
  BY DEF UsedEntries
<1>7. \A e : e \in FreeEntries' <=>
                \E j \in 1..Len(list') : list'[j].free /\ e = list'[j]
  BY DEF FreeEntries
<1>8. UsedEntries' = UsedEntries \ {list[i]}
  BY <1>1, <1>2, <1>4, <1>5, <1>6, UsedMember
<1>9. ASSUME NEW e
      PROVE  e \in FreeEntries' <=> e \in FreeEntries \/ e = Freed(i)
  <2>1. ASSUME e \in FreeEntries'
        PROVE  e \in FreeEntries \/ e = Freed(i)
    <3>1. PICK j \in 1..Len(list') : list'[j].free /\ e = list'[j]
      BY <1>7, <2>1
    <3>2. j \in 1..Len(list)
      BY <1>2, <3>1
    <3>3. CASE j = i
      BY <1>4, <3>1, <3>2, <3>3
    <3>4. CASE j # i
      BY <1>4, <3>1, <3>2, <3>4, FreeMember
    <3> QED  BY <3>3, <3>4
  <2>2. ASSUME e \in FreeEntries
        PROVE  e \in FreeEntries'
    <3>1. PICK j \in 1..Len(list) : list[j].free /\ e = list[j]
      BY <2>2, FreeMember
    <3>2. j # i /\ list'[j] = list[j] /\ j \in 1..Len(list')
      BY <1>2, <1>4, <3>1
    <3> QED  BY <1>7, <3>1, <3>2
  <2>3. Freed(i) \in FreeEntries'
    BY <1>2, <1>4, <1>5, <1>7
  <2> QED  BY <2>1, <2>2, <2>3
<1> QED
  BY <1>8, <1>9

(* The used entries by location.                                           *)
LEMMA UsedFacts ==
    ASSUME TypeOK, Ordered, EveryPageOnce
    PROVE  /\ \A e \in UsedEntries : /\ e \in Entry /\ ~e.free
                                     /\ e.location < heapPos
           /\ \A e \in FreeEntries : e \in Entry /\ e.free
           /\ \A e, f \in UsedEntries : e.location = f.location => e = f
           /\ \A e \in UsedEntries, f \in FreeEntries :
                 e.location # f.location
<1>1. heapPos \in Nat
  BY DEF TypeOK
<1>2. \A i \in 1..Len(list) : list[i] \in Entry /\ list[i].location < heapPos
  BY <1>1, EntryTypes, EntriesBelow
<1>3. \A i, j \in 1..Len(list) : list[i].location = list[j].location => i = j
  BY LocationsDistinct
<1> QED
  BY <1>2, <1>3, UsedMember, FreeMember

----------------------------------------------------------------------------

(* Callers and used entries agree.  Freeing one block keeps the others     *)
(* backed because no two callers hold the same location.                   *)
HeldInv == HeldIsBacked /\ UsedIsHeld

\* A block that is given out: its entry becomes used, its caller new.
LEMMA GivingKeepsHeld ==
    ASSUME TypeOK, Ordered, EveryPageOnce, HeldInv,
           NEW e \in Entry, NEW size \in Sizes,
           size < e.size * PageSize,
           \A f \in UsedEntries : f.location # e.location,
           UsedEntries' = UsedEntries \cup {e},
           held' = held \cup {[location |-> e.location, bytes |-> size]}
    PROVE  HeldInv'
<1> DEFINE h == [location |-> e.location, bytes |-> size]
<1>1. h.location = e.location /\ h.bytes = size
  OBVIOUS
<1>2. held' = held \cup {h}
  OBVIOUS
<1> HIDE DEF h
<1>3. \A g \in held : g.location # e.location
  BY DEF HeldInv, HeldIsBacked
<1>4. HeldIsBacked'
  BY <1>1, <1>2 DEF HeldInv, HeldIsBacked
<1>5. UsedIsHeld'
  <2> SUFFICES ASSUME NEW f \in UsedEntries \cup {e}
               PROVE  \E g \in held \cup {h} :
                         /\ g.location = f.location
                         /\ \A k \in held \cup {h} : k.location = g.location => k = g
    BY <1>2 DEF UsedIsHeld
  <2>1. CASE f = e
    BY <1>1, <1>3, <2>1
  <2>2. CASE f \in UsedEntries
    BY <1>1, <2>2 DEF HeldInv, UsedIsHeld
  <2> QED  BY <2>1, <2>2
<1> QED
  BY <1>4, <1>5 DEF HeldInv

(* Every step keeps what callers hold and the used entries in agreement.   *)
LEMMA HeldStep == PageInv /\ HeldInv /\ [Next]_vars => HeldInv'
<1> SUFFICES ASSUME PageInv, HeldInv, [Next]_vars
             PROVE  HeldInv'
  OBVIOUS
<1> USE DEF PageInv
<1>0. heapPos \in Nat
  BY DEF TypeOK
<1>1. ASSUME NEW size \in Sizes, MallocReuse(size)
      PROVE  HeldInv'
  <2>1. PageCount(size) \in Nat \ {0} /\ size < PageCount(size) * PageSize
    BY PageCountFits
  <2>2. PICK i \in 1..Len(list) :
           /\ Fits(i, PageCount(size))
           /\ Split(i, PageCount(size))
           /\ held' = held \cup {[location |-> list[i].location, bytes |-> size]}
    BY <1>1 DEF MallocReuse
  <2>3. PICK e : e = Kept(i, PageCount(size))
    OBVIOUS
  <2>4. /\ e \in Entry
        /\ e.location = list[i].location
        /\ e.size = PageCount(size)
    BY <2>1, <2>3, EntryTypes DEF Kept, Entry
  <2>5. UsedEntries' = UsedEntries \cup {e}
    BY <2>1, <2>2, <2>3, ReuseEntries
  <2>6. \A f \in UsedEntries : f.location # e.location
    BY <2>2, <2>4, UsedFacts, FreeMember DEF Fits
  <2> QED  BY <2>1, <2>2, <2>4, <2>5, <2>6, GivingKeepsHeld
<1>2. ASSUME NEW size \in Sizes, MallocFresh(size)
      PROVE  HeldInv'
  <2>1. PageCount(size) \in Nat \ {0} /\ size < PageCount(size) * PageSize
    BY PageCountFits
  <2>2. /\ AddEntry(heapPos, PageCount(size))
        /\ held' = held \cup {[location |-> heapPos, bytes |-> size]}
    BY <1>2 DEF MallocFresh
  <2>3. PICK e : e = FreshEntry(PageCount(size))
    OBVIOUS
  <2>4. e \in Entry /\ e.location = heapPos /\ e.size = PageCount(size)
    BY <1>0, <2>1, <2>3 DEF FreshEntry, Entry
  <2>5. UsedEntries' = UsedEntries \cup {e}
    BY <2>1, <2>2, <2>3, FreshEntries
  <2>6. \A f \in UsedEntries : f.location # e.location
    <3>1. \A f \in UsedEntries : f.location \in Nat /\ f.location < heapPos
      BY UsedFacts DEF Entry
    <3> QED  BY <1>0, <2>4, <3>1
  <2> QED  BY <2>1, <2>2, <2>4, <2>5, <2>6, GivingKeepsHeld
<1>3. ASSUME NEW h \in held, Free(h)
      PROVE  HeldInv'
  <2>1. PICK i \in 1..Len(list) :
           /\ ~list[i].free
           /\ list[i].location = h.location
           /\ list' = [list EXCEPT ![i].free = TRUE]
    BY <1>3 DEF Free
  <2>2. held' = held \ {h}
    BY <1>3 DEF Free
  <2>3. UsedEntries' = UsedEntries \ {list[i]} /\ list[i] \in UsedEntries
    BY <2>1, ReleasedEntries, UsedMember
  <2>4. \A g \in held : g.location = h.location => g = h
    BY <1>3, <2>1, <2>3 DEF HeldInv, UsedIsHeld
  <2>5. HeldIsBacked'
    BY <2>1, <2>2, <2>3, <2>4 DEF HeldInv, HeldIsBacked
  <2>6. UsedIsHeld'
    <3> SUFFICES ASSUME NEW f \in UsedEntries, f # list[i]
                 PROVE  \E g \in held \ {h} :
                           /\ g.location = f.location
                           /\ \A k \in held \ {h} : k.location = g.location => k = g
      BY <2>2, <2>3 DEF UsedIsHeld
    <3>1. f.location # h.location
      BY <2>1, <2>3, UsedFacts
    <3> QED  BY <3>1 DEF HeldInv, UsedIsHeld
  <2> QED  BY <2>5, <2>6 DEF HeldInv
<1>4. ASSUME UNCHANGED <<list, held>>
      PROVE  HeldInv'
  BY <1>4 DEF HeldInv, HeldIsBacked, UsedIsHeld, UsedEntries
<1> QED
  BY <1>1, <1>2, <1>3, <1>4
     DEF Next, CreateBlock4k, MallocLarge, TakePages, CarveNewPage,
         CarveNextBlock, vars

(* What a caller holds is labelled by a used entry of sufficient size at   *)
(* its address.                                                            *)
THEOREM CallersAreBacked == Spec => []HeldIsBacked
<1>1. Init => PageInv /\ HeldInv
  BY InitPages DEF Init, HeldInv, HeldIsBacked, UsedIsHeld, UsedEntries
<1>2. HeldInv => HeldIsBacked
  BY DEF HeldInv
<1> QED
  BY <1>1, <1>2, PageStep, HeldStep, PTL DEF Spec

(* Every used entry is held by one caller, who alone can free it.          *)
THEOREM NothingIsLeaked == Spec => []UsedIsHeld
<1>1. Init => PageInv /\ HeldInv
  BY InitPages DEF Init, HeldInv, HeldIsBacked, UsedIsHeld, UsedEntries
<1>2. HeldInv => UsedIsHeld
  BY DEF HeldInv
<1> QED
  BY <1>1, <1>2, PageStep, HeldStep, PTL DEF Spec

(* No step moves or resizes a used entry that its caller keeps.            *)
LEMMA StaysStep == PageInv /\ HeldInv /\ [Next]_vars => BlocksStay
<1> SUFFICES ASSUME PageInv, HeldInv, [Next]_vars
             PROVE  BlocksStay
  OBVIOUS
<1> USE DEF PageInv
<1>1. SUFFICES \A h \in held \cap held', e \in UsedEntries :
                  e.location = h.location => e \in UsedEntries'
  <2>1. \A e : e \in UsedEntries' =>
                  \E j \in 1..Len(list') : e = list'[j]
    BY DEF UsedEntries
  <2> QED  BY <2>1, UsedMember DEF BlocksStay
<1>2. ASSUME NEW size \in Sizes, MallocReuse(size)
      PROVE  UsedEntries \subseteq UsedEntries'
  <2>1. PageCount(size) \in Nat \ {0}
    BY PageCountFits
  <2>2. PICK i \in 1..Len(list) :
           Fits(i, PageCount(size)) /\ Split(i, PageCount(size))
    BY <1>2 DEF MallocReuse
  <2> QED  BY <2>1, <2>2, ReuseEntries
<1>3. ASSUME NEW size \in Sizes, MallocFresh(size)
      PROVE  UsedEntries \subseteq UsedEntries'
  <2>1. PageCount(size) \in Nat \ {0} /\ AddEntry(heapPos, PageCount(size))
    BY <1>3, PageCountFits DEF MallocFresh
  <2> QED  BY <2>1, FreshEntries
<1>4. ASSUME NEW g \in held, Free(g),
             NEW h \in held \cap held', NEW e \in UsedEntries,
             e.location = h.location
      PROVE  e \in UsedEntries'
  <2>1. PICK i \in 1..Len(list) :
           /\ ~list[i].free
           /\ list[i].location = g.location
           /\ list' = [list EXCEPT ![i].free = TRUE]
    BY <1>4 DEF Free
  <2>2. h # g
    BY <1>4 DEF Free
  <2>3. UsedEntries' = UsedEntries \ {list[i]} /\ list[i] \in UsedEntries
    BY <2>1, ReleasedEntries, UsedMember
  <2>4. h.location # g.location
    BY <2>1, <2>2, <2>3 DEF HeldInv, UsedIsHeld
  <2> QED  BY <1>4, <2>1, <2>3, <2>4
<1>5. ASSUME UNCHANGED list
      PROVE  UsedEntries' = UsedEntries
  BY <1>5 DEF UsedEntries
<1> QED
  BY <1>2, <1>3, <1>4, <1>5
     DEF Next, CreateBlock4k, MallocLarge, TakePages, CarveNewPage,
         CarveNextBlock, vars

(* A block stays where it is, at its size, for as long as its caller holds *)
(* it, whatever the others allocate and free.                              *)
THEOREM HeldBlocksStay == Spec => HeldStays
<1>1. Init => PageInv /\ HeldInv
  BY InitPages DEF Init, HeldInv, HeldIsBacked, UsedIsHeld, UsedEntries
<1> QED
  BY <1>1, PageStep, HeldStep, StaysStep, PTL DEF Spec, HeldStays

----------------------------------------------------------------------------
(* The pages that blocks are carved from.                                  *)

(* A page that still has blocks to carve was taken for its kind alone.     *)
CarvedPage(k) == carved[k].pointer \div PerPage[k]

CarveInv ==
    \A k \in Kinds : carved[k].left > 0 =>
        /\ CarvedPage(k) \in taken
        /\ carved[k].pointer > FirstBlock(k, CarvedPage(k))
        /\ carved[k].pointer + carved[k].left = FirstBlock(k, CarvedPage(k) + 1)
        /\ \A j \in Kinds \ {k} :
              carved[j].left > 0 => CarvedPage(j) # CarvedPage(k)

(* The page of a block that lies inside it.                                *)
LEMMA PageOfBlock ==
    ASSUME NEW p \in Nat, NEW c \in Nat \ {0}, NEW b \in Nat,
           p * c <= b, b < (p + 1) * c
    PROVE  b \div c = p
<1>1. PICK q, r : q = b \div c /\ r = b % c
  OBVIOUS
<1>2. q \in Int /\ r \in 0 .. c - 1 /\ b = c * q + r
  BY <1>1
<1>3. ~ q < p
  <2> SUFFICES ASSUME q < p PROVE FALSE
    OBVIOUS
  <2>1. c * (q + 1) <= c * p
    BY <1>2
  <2>2. c * (q + 1) = c * q + c
    BY <1>2
  <2> QED  BY <1>2, <2>1, <2>2
<1>4. ~ q > p
  <2> SUFFICES ASSUME q > p PROVE FALSE
    OBVIOUS
  <2>1. c * (p + 1) <= c * q
    BY <1>2
  <2> QED  BY <1>2, <2>1
<1> QED
  BY <1>1, <1>2, <1>3, <1>4

(* A page number times the blocks of a page.                               *)
LEMMA FirstBlockFacts ==
    ASSUME NEW k \in Kinds, NEW p \in Nat
    PROVE  /\ PerPage[k] \in Nat \ {0}
           /\ FirstBlock(k, p) \in Nat
           /\ FirstBlock(k, p) = p * PerPage[k]
           /\ FirstBlock(k, p + 1) = (p + 1) * PerPage[k]
           /\ FirstBlock(k, p + 1) = FirstBlock(k, p) + PerPage[k]
<1>1. PerPage[k] \in Nat \ {0}
  BY PageListAssumption
<1> QED
  BY <1>1 DEF FirstBlock

(* Every step keeps the carved blocks inside their pages.                  *)
LEMMA CarveStep == PageInv /\ CarveInv /\ [Next]_vars => CarveInv'
<1> SUFFICES ASSUME PageInv, CarveInv, [Next]_vars
             PROVE  CarveInv'
  OBVIOUS
<1> USE DEF PageInv
<1>0. /\ heapPos \in Nat
      /\ carved \in [Kinds -> [pointer : Nat, left : Nat]]
      /\ \A p \in taken : p < heapPos /\ p \in Nat
  BY DEF TypeOK, EveryPageOnce
<1>1. ASSUME UNCHANGED carved, taken \subseteq taken'
      PROVE  CarveInv'
  BY <1>1 DEF CarveInv, CarvedPage
<1>2. ASSUME NEW n \in Nat, PrepareEntry(n)
      PROVE  taken \subseteq taken'
  BY <1>2 DEF PrepareEntry
<1>3. ASSUME NEW size \in Sizes, MallocReuse(size)
      PROVE  CarveInv'
  <2>1. UNCHANGED carved /\ taken \subseteq taken'
    BY <1>2, <1>3 DEF MallocReuse, Split
  <2> QED  BY <1>1, <2>1
<1>4. ASSUME NEW size \in Sizes, MallocFresh(size)
      PROVE  CarveInv'
  <2>1. PageCount(size) \in Nat
    BY PageCountFits
  <2>2. UNCHANGED carved /\ taken \subseteq taken'
    BY <1>2, <1>4, <2>1 DEF MallocFresh
  <2> QED  BY <1>1, <2>2
<1>5. ASSUME NEW k \in Kinds, CarveNewPage(k)
      PROVE  CarveInv'
  <2>1. /\ carved' = [carved EXCEPT ![k] =
                        [pointer |-> FirstBlock(k, heapPos) + 1,
                         left    |-> PerPage[k] - 1]]
        /\ taken' = taken \cup {heapPos}
    BY <1>5 DEF CarveNewPage
  <2>2. \A j \in Kinds \ {k} : carved'[j] = carved[j]
    BY <1>0, <2>1
  <2>3. /\ carved'[k].pointer = FirstBlock(k, heapPos) + 1
        /\ carved'[k].left = PerPage[k] - 1
    BY <1>0, <2>1
  <2>4. ASSUME carved'[k].left > 0
        PROVE  /\ CarvedPage(k)' = heapPos
               /\ carved'[k].pointer > FirstBlock(k, heapPos)
               /\ carved'[k].pointer + carved'[k].left
                     = FirstBlock(k, heapPos + 1)
    <3>1. /\ PerPage[k] \in Nat \ {0}
          /\ FirstBlock(k, heapPos) \in Nat
          /\ FirstBlock(k, heapPos) = heapPos * PerPage[k]
          /\ FirstBlock(k, heapPos + 1) = (heapPos + 1) * PerPage[k]
          /\ FirstBlock(k, heapPos + 1) = FirstBlock(k, heapPos) + PerPage[k]
      BY <1>0, FirstBlockFacts
    <3>2. PICK b \in Nat : b = FirstBlock(k, heapPos) + 1
      BY <3>1
    <3>3. heapPos * PerPage[k] <= b /\ b < (heapPos + 1) * PerPage[k]
      BY <2>3, <2>4, <3>1, <3>2
    <3>4. b \div PerPage[k] = heapPos
      BY <1>0, <3>1, <3>3, PageOfBlock
    <3> QED  BY <2>3, <3>1, <3>2, <3>4 DEF CarvedPage
  <2>5. \A j \in Kinds \ {k} : CarvedPage(j)' = CarvedPage(j)
    BY <2>2 DEF CarvedPage
  <2>6. \A j \in Kinds \ {k} : carved[j].left > 0 => CarvedPage(j) # heapPos
    BY <1>0 DEF CarveInv
  <2>7. \A j \in Kinds \ {k} : carved'[j].left > 0 =>
           /\ CarvedPage(j)' \in taken'
           /\ carved'[j].pointer > FirstBlock(j, CarvedPage(j)')
           /\ carved'[j].pointer + carved'[j].left
                 = FirstBlock(j, CarvedPage(j)' + 1)
           /\ \A i \in Kinds \ {j} :
                 carved'[i].left > 0 => CarvedPage(i)' # CarvedPage(j)'
    BY <2>1, <2>2, <2>4, <2>5, <2>6 DEF CarveInv
  <2>8. carved'[k].left > 0 =>
           /\ CarvedPage(k)' \in taken'
           /\ carved'[k].pointer > FirstBlock(k, CarvedPage(k)')
           /\ carved'[k].pointer + carved'[k].left
                 = FirstBlock(k, CarvedPage(k)' + 1)
           /\ \A i \in Kinds \ {k} :
                 carved'[i].left > 0 => CarvedPage(i)' # CarvedPage(k)'
    BY <2>1, <2>2, <2>4, <2>5, <2>6
  <2>9. \A j \in Kinds : FirstBlock(j, CarvedPage(j))' = FirstBlock(j, CarvedPage(j)')
                      /\ FirstBlock(j, CarvedPage(j) + 1)'
                            = FirstBlock(j, CarvedPage(j)' + 1)
    BY DEF FirstBlock
  <2> QED  BY <2>7, <2>8, <2>9 DEF CarveInv
<1>6. ASSUME NEW k \in Kinds, CarveNextBlock(k)
      PROVE  CarveInv'
  <2>1. /\ carved[k].left > 0
        /\ carved' = [carved EXCEPT ![k] =
                        [pointer |-> carved[k].pointer + 1,
                         left    |-> carved[k].left - 1]]
        /\ taken' = taken
    BY <1>6 DEF CarveNextBlock
  <2>2. \A j \in Kinds \ {k} : carved'[j] = carved[j]
    BY <1>0, <2>1
  <2>3. /\ carved'[k].pointer = carved[k].pointer + 1
        /\ carved'[k].left = carved[k].left - 1
    BY <1>0, <2>1
  <2>4. ASSUME carved'[k].left > 0
        PROVE  CarvedPage(k)' = CarvedPage(k)
    <3>1. PICK p \in Nat : p = CarvedPage(k)
      BY <1>0, <2>1 DEF CarveInv
    <3>2. /\ PerPage[k] \in Nat \ {0}
          /\ FirstBlock(k, p) = p * PerPage[k]
          /\ FirstBlock(k, p + 1) = (p + 1) * PerPage[k]
          /\ FirstBlock(k, p) \in Nat
      BY <3>1, FirstBlockFacts
    <3>3. /\ carved[k].pointer \in Nat /\ carved[k].left \in Nat
          /\ carved[k].pointer > FirstBlock(k, p)
          /\ carved[k].pointer + carved[k].left = FirstBlock(k, p + 1)
      BY <1>0, <2>1, <3>1 DEF CarveInv
    <3>4. PICK b \in Nat : b = carved[k].pointer + 1
      BY <3>3
    <3>5. p * PerPage[k] <= b /\ b < (p + 1) * PerPage[k]
      BY <2>3, <2>4, <3>2, <3>3, <3>4
    <3>6. b \div PerPage[k] = p
      BY <3>2, <3>5, PageOfBlock
    <3> QED  BY <2>3, <3>1, <3>4, <3>6 DEF CarvedPage
  <2>5. \A j \in Kinds \ {k} : CarvedPage(j)' = CarvedPage(j)
    BY <2>2 DEF CarvedPage
  <2>6. ASSUME carved'[k].left > 0
        PROVE  /\ carved'[k].pointer > FirstBlock(k, CarvedPage(k))
               /\ carved'[k].pointer + carved'[k].left
                     = FirstBlock(k, CarvedPage(k) + 1)
    <3>1. /\ carved[k].pointer \in Nat /\ carved[k].left \in Nat
          /\ CarvedPage(k) \in Nat
          /\ carved[k].pointer > FirstBlock(k, CarvedPage(k))
          /\ carved[k].pointer + carved[k].left = FirstBlock(k, CarvedPage(k) + 1)
      BY <1>0, <2>1 DEF CarveInv
    <3>2. FirstBlock(k, CarvedPage(k)) \in Nat
      BY <3>1, FirstBlockFacts
    <3> QED  BY <2>3, <3>1, <3>2
  <2>7. \A j \in Kinds : FirstBlock(j, CarvedPage(j))' = FirstBlock(j, CarvedPage(j)')
                      /\ FirstBlock(j, CarvedPage(j) + 1)'
                            = FirstBlock(j, CarvedPage(j)' + 1)
    BY DEF FirstBlock
  <2>8. \A j \in Kinds : carved'[j].left > 0 =>
           /\ CarvedPage(j)' = CarvedPage(j)
           /\ carved[j].left > 0
    BY <2>1, <2>2, <2>4, <2>5
  <2> QED  BY <2>1, <2>2, <2>6, <2>7, <2>8 DEF CarveInv
<1>7. ASSUME NEW n \in Nat, TakePages(n)
      PROVE  CarveInv'
  BY <1>1, <1>7 DEF TakePages
<1>8. \A size \in Sizes : LargePages(size) \in Nat
  BY PageListAssumption DEF LargePages
<1>9. ASSUME NEW h \in held, Free(h)
      PROVE  CarveInv'
  BY <1>1, <1>9 DEF Free
<1> QED
  BY <1>1, <1>3, <1>4, <1>5, <1>6, <1>7, <1>8, <1>9
     DEF Next, CreateBlock4k, MallocLarge, vars

(* The blocks still to be carved are the rest of one page, which was taken *)
(* for their kind.                                                         *)
THEOREM BlocksCarvedInside == Spec => []CarvedInside
<1>1. Init => PageInv /\ CarveInv
  BY InitPages DEF Init, CarveInv
<1>2. CarveInv => CarvedInside
  <2>1. \A k \in Kinds : CarvedPage(k) = carved[k].pointer \div PerPage[k]
    BY DEF CarvedPage
  <2> QED  BY <2>1 DEF CarveInv, CarvedInside
<1> QED
  BY <1>1, <1>2, PageStep, CarveStep, PTL DEF Spec

----------------------------------------------------------------------------
(* The list as a page store.                                               *)

(* The block of an entry has the entry's pages.                            *)
LEMMA BlockFacts ==
    ASSUME NEW e \in Entry
    PROVE  /\ Block(e).first = e.location /\ Block(e).size = e.size
           /\ Store!Run(Block(e)) = Pages(e)
           /\ Pages(e) = e.location .. e.location + e.size - 1
<1>1. Block(e).first = e.location /\ Block(e).size = e.size
  BY DEF Block
<1>2. Pages(e) = e.location .. e.location + e.size - 1
  <2>1. e.location \in Nat /\ e.size \in Nat
    BY DEF Entry
  <2>2. (e.location + e.size) - 1 = e.location + e.size - 1
    BY <2>1
  <2> QED  BY <2>2 DEF Pages, End
<1>3. \A b : b.first = e.location /\ b.size = e.size =>
                Store!Run(b) = e.location .. e.location + e.size - 1
  BY DEF Store!Run
<1> QED
  BY <1>1, <1>2, <1>3

(* A live block is the block of a used entry.                              *)
LEMMA LiveMember ==
    \A b : b \in LiveBlocks <=> \E e \in UsedEntries : b = Block(e)
BY DEF LiveBlocks

(* A reusable page lies in a free entry.                                   *)
LEMMA FreePageMember ==
    \A p : p \in FreePages <=> \E e \in FreeEntries : p \in Pages(e)
BY DEF FreePages

(* The pages of two free entries do not meet.                              *)
LEMMA FreeApart ==
    ASSUME TypeOK, Ordered, NEW e \in FreeEntries, NEW f \in FreeEntries,
           e # f
    PROVE  Pages(e) \cap Pages(f) = {}
<1>1. PICK i \in 1..Len(list) : e = list[i]
  BY FreeMember
<1>2. PICK j \in 1..Len(list) : f = list[j]
  BY FreeMember
<1>3. i # j
  BY <1>1, <1>2
<1> QED
  BY <1>1, <1>2, <1>3, EntriesApart

(* malloc of a free entry is the store's AllocateReused.                   *)
LEMMA ReuseRefines ==
    ASSUME PageInv, NEW size \in Sizes, MallocReuse(size)
    PROVE  Store!Next
<1> USE DEF PageInv
<1>1. PICK n \in Nat \ {0} : n = PageCount(size)
  BY PageCountFits
<1>2. PICK i \in 1..Len(list) : Fits(i, n) /\ Split(i, n)
  BY <1>1 DEF MallocReuse
<1>3. PICK e \in Entry : e = list[i]
  BY EntryTypes
<1>4. /\ e \in FreeEntries /\ e.size >= n /\ e.size \in Nat
      /\ e.location \in Nat /\ heapPos \in Nat /\ Limit \in Nat
      /\ e.location + e.size <= heapPos /\ heapPos <= Limit
  BY <1>2, <1>3, FreeMember, EntryTypes, EntriesBelow, PageListAssumption
     DEF Fits, TypeOK, End, Entry
<1>5. PICK k \in Entry : k = Kept(i, n)
  BY <1>2, <1>3 DEF Kept, Entry
<1>6. k.location = e.location /\ k.size = n
  BY <1>3, <1>5 DEF Kept
<1>7. UsedEntries' = UsedEntries \cup {k}
  BY <1>2, <1>5, ReuseEntries
<1>8. LiveBlocks' = LiveBlocks \cup {Block(k)}
  <2>1. ASSUME NEW b
        PROVE  b \in LiveBlocks' <=> b \in LiveBlocks \/ b = Block(k)
    <3>1. b \in LiveBlocks' <=> \E f \in UsedEntries' : b = Block(f)
      BY DEF LiveBlocks
    <3> QED  BY <1>7, <3>1, LiveMember
  <2> QED  BY <2>1
<1>9. Block(k) = [first |-> e.location, size |-> n]
  BY <1>6 DEF Block
<1>10. /\ Pages(k) = e.location .. e.location + n - 1
       /\ Pages(e) = e.location .. e.location + e.size - 1
       /\ Store!Run(Block(k)) = Pages(k)
  BY <1>6, BlockFacts
<1>11. Pages(k) \subseteq Pages(e) /\ e.location \in Pages(e)
  BY <1>4, <1>10
<1>12. Pages(e) \subseteq FreePages
  BY <1>4, FreePageMember
<1>13. FreePages' = FreePages \ Pages(k)
  <2> DEFINE New == IF e.size = n THEN {} ELSE {Rest(i, n)}
  <2>1. FreeEntries' = (FreeEntries \ {e}) \cup New
    BY <1>2, <1>3, ReuseEntries
  <2>2. ASSUME NEW p, e.size # n
        PROVE  p \in Pages(Rest(i, n)) <=> p \in Pages(e) /\ p \notin Pages(k)
    <3>1. PICK r : r = Rest(i, n)
      OBVIOUS
    <3>2. /\ r.location = e.location + n /\ r.size = e.size - n
          /\ r.location \in Nat /\ r.size \in Nat
          /\ r.location + r.size = e.location + e.size
      BY <1>3, <1>4, <2>2, <3>1 DEF Rest
    <3>3. r \in Entry
      BY <1>3, <1>4, <2>2, <3>1, <3>2 DEF Rest, Entry
    <3>4. Pages(r) = r.location .. r.location + r.size - 1
      BY <3>3, BlockFacts
    <3>5. p \in Pages(r) <=> p \in Int /\ e.location + n <= p /\ p <= e.location + e.size - 1
      <4>1. p \in Pages(r) <=> p \in Int /\ r.location <= p /\ p <= r.location + r.size - 1
        BY <3>2, <3>4
      <4>2. r.location + r.size - 1 = (r.location + r.size) - 1
        BY <3>2
      <4>3. e.location + e.size - 1 = (e.location + e.size) - 1
        BY <1>4
      <4> QED  BY <3>2, <4>1, <4>2, <4>3
    <3>6. p \in Pages(e) <=> p \in Int /\ e.location <= p /\ p <= e.location + e.size - 1
      BY <1>4, <1>10
    <3>7. p \in Pages(k) <=> p \in Int /\ e.location <= p /\ p <= e.location + n - 1
      BY <1>4, <1>10
    <3> QED  BY <1>4, <3>1, <3>5, <3>6, <3>7
  <2>3. e.size = n => Pages(k) = Pages(e)
    BY <1>10
  <2>4. ASSUME NEW p
        PROVE  (\E f \in New : p \in Pages(f)) <=> p \in Pages(e) /\ p \notin Pages(k)
    BY <2>2, <2>3
  <2>5. ASSUME NEW p, NEW f \in FreeEntries \ {e}, p \in Pages(f)
        PROVE  p \notin Pages(k)
    BY <1>4, <1>11, <2>5, FreeApart
  <2>6. ASSUME NEW p
        PROVE  p \in FreePages' <=> p \in FreePages /\ p \notin Pages(k)
    <3>1. p \in FreePages' <=> \E f \in FreeEntries' : p \in Pages(f)
      BY DEF FreePages
    <3>2. (\E f \in FreeEntries' : p \in Pages(f)) <=>
             \/ \E f \in FreeEntries \ {e} : p \in Pages(f)
             \/ \E f \in New : p \in Pages(f)
      BY <2>1
    <3>3. p \in FreePages <=>
             \/ \E f \in FreeEntries \ {e} : p \in Pages(f)
             \/ p \in Pages(e)
      BY <1>4, FreePageMember
    <3> HIDE DEF New
    <3> QED  BY <2>4, <2>5, <3>1, <3>2, <3>3
  <2> QED  BY <2>6
<1>14. heapPos' \in heapPos .. Limit
  BY <1>2, <1>4, PrepareTypes DEF Split
<1>15. Store!AllocateReused(n)
  BY <1>8, <1>9, <1>10, <1>11, <1>12, <1>13, <1>14 DEF Store!AllocateReused
<1>16. n \in 1..Limit
  BY <1>4
<1> QED
  BY <1>15, <1>16 DEF Store!Next

(* malloc of new pages is the store's AllocateFresh.                       *)
LEMMA FreshRefines ==
    ASSUME PageInv, NEW size \in Sizes, MallocFresh(size)
    PROVE  Store!Next
<1> USE DEF PageInv
<1>1. PICK n \in Nat \ {0} : n = PageCount(size)
  BY PageCountFits
<1>2. PrepareEntry(n) /\ AddEntry(heapPos, n)
  BY <1>1 DEF MallocFresh
<1>3. heapPos \in Nat /\ Limit \in Nat
  BY PageListAssumption DEF TypeOK
<1>4. heapPos' \in heapPos + n .. Limit
  BY <1>2, <1>3, PrepareTypes
<1>5. PICK e \in Entry : e = FreshEntry(n)
  BY <1>3 DEF FreshEntry, Entry
<1>6. e.location = heapPos /\ e.size = n
  BY <1>5 DEF FreshEntry
<1>7. /\ UsedEntries' = UsedEntries \cup {e}
      /\ FreeEntries' = FreeEntries
  BY <1>2, <1>5, FreshEntries
<1>8. LiveBlocks' = LiveBlocks \cup {Block(e)}
  <2>1. ASSUME NEW b
        PROVE  b \in LiveBlocks' <=> b \in LiveBlocks \/ b = Block(e)
    <3>1. b \in LiveBlocks' <=> \E f \in UsedEntries' : b = Block(f)
      BY DEF LiveBlocks
    <3> QED  BY <1>7, <3>1, LiveMember
  <2> QED  BY <2>1
<1>9. Block(e) = [first |-> heapPos, size |-> n]
  BY <1>6 DEF Block
<1>10. FreePages' = FreePages
  BY <1>7 DEF FreePages
<1>11. Store!AllocateFresh(n) /\ n \in 1..Limit
  BY <1>3, <1>4, <1>8, <1>9, <1>10 DEF Store!AllocateFresh
<1> QED
  BY <1>11 DEF Store!Next

(* free is the store's Release.                                            *)
LEMMA FreeRefines ==
    ASSUME PageInv, NEW h \in held, Free(h)
    PROVE  Store!Next
<1> USE DEF PageInv
<1>1. PICK i \in 1..Len(list) :
         ~list[i].free /\ list' = [list EXCEPT ![i].free = TRUE]
  BY DEF Free
<1>2. UNCHANGED heapPos
  BY DEF Free
<1>3. PICK e \in Entry : e = list[i]
  BY EntryTypes
<1>4. PICK f : f = Freed(i)
  OBVIOUS
<1>5. /\ UsedEntries' = UsedEntries \ {e}
      /\ FreeEntries' = FreeEntries \cup {f}
      /\ e \in UsedEntries
  BY <1>1, <1>3, <1>4, ReleasedEntries, UsedMember
<1>6. Pages(f) = Pages(e)
  BY <1>3, <1>4 DEF Freed, Pages, End
<1>7. LiveBlocks' = LiveBlocks \ {Block(e)}
  <2>1. ASSUME NEW g \in UsedEntries, Block(g) = Block(e)
        PROVE  g = e
    <3>1. g \in Entry
      BY UsedFacts
    <3> QED  BY <1>5, <2>1, <3>1, BlockFacts, UsedFacts
  <2>2. ASSUME NEW b
        PROVE  b \in LiveBlocks' <=> b \in LiveBlocks /\ b # Block(e)
    <3>1. b \in LiveBlocks' <=> \E g \in UsedEntries' : b = Block(g)
      BY DEF LiveBlocks
    <3> QED  BY <1>5, <2>1, <3>1, LiveMember
  <2> QED  BY <2>2
<1>8. FreePages' = FreePages \cup Pages(e)
  <2>1. ASSUME NEW p
        PROVE  p \in FreePages' <=> p \in FreePages \/ p \in Pages(e)
    <3>1. p \in FreePages' <=> \E g \in FreeEntries' : p \in Pages(g)
      BY DEF FreePages
    <3> QED  BY <1>5, <1>6, <3>1, FreePageMember
  <2> QED  BY <2>1
<1>9. Store!Release(Block(e)) /\ Block(e) \in LiveBlocks
  BY <1>2, <1>5, <1>7, <1>8, BlockFacts, LiveMember DEF Store!Release
<1> QED
  BY <1>9 DEF Store!Next

(* Pages taken for good are the store's Reserve.                           *)
LEMMA TakeRefines ==
    ASSUME PageInv, NEW n \in Nat \ {0}, Room(n), heapPos' = heapPos + n,
           UNCHANGED list
    PROVE  Store!Next
<1>1. heapPos \in Nat /\ Limit \in Nat
  BY PageListAssumption DEF PageInv, TypeOK
<1>2. heapPos' \in heapPos + 1 .. Limit
  BY <1>1 DEF Room
<1>3. UNCHANGED <<LiveBlocks, FreePages>>
  BY DEF LiveBlocks, FreePages, UsedEntries, FreeEntries
<1>4. Store!Reserve
  BY <1>2, <1>3 DEF Store!Reserve
<1> QED
  BY <1>4 DEF Store!Next

(* The linked list keeps the page store's promise: what is given out comes *)
(* from the end of memory or from pages given back, and is nobody else's.  *)
THEOREM ListIsStore == Spec => StoreSpec
<1>1. Init => Store!Init
  <2> SUFFICES ASSUME Init PROVE Store!Init
    OBVIOUS
  <2>1. UsedEntries = {} /\ FreeEntries = {}
    BY DEF Init, UsedEntries, FreeEntries
  <2>2. LiveBlocks = {} /\ FreePages = {}
    BY <2>1, LiveMember, FreePageMember
  <2>3. heapPos \in 0..Limit
    BY PageListAssumption DEF Init
  <2> QED  BY <2>2, <2>3 DEF Store!Init
<1>2. PageInv /\ [Next]_vars => [Store!Next]_(Store!vars)
  <2> SUFFICES ASSUME PageInv, [Next]_vars
               PROVE  Store!Next \/ UNCHANGED Store!vars
    OBVIOUS
  <2>1. ASSUME UNCHANGED <<list, heapPos>>
        PROVE  UNCHANGED Store!vars
    BY <2>1 DEF Store!vars, LiveBlocks, FreePages, UsedEntries, FreeEntries
  <2>2. CASE \E size \in Sizes : MallocReuse(size) \/ MallocFresh(size)
    BY <2>2, ReuseRefines, FreshRefines
  <2>3. CASE \E h \in held : Free(h)
    BY <2>3, FreeRefines
  <2>4. CASE CreateBlock4k
    BY <2>4, TakeRefines DEF CreateBlock4k, TakePages
  <2>5. CASE \E size \in Sizes : MallocLarge(size)
    BY <2>5, TakenNumbers, TakeRefines DEF MallocLarge, TakePages
  <2>6. CASE \E kind \in Kinds : CarveNewPage(kind)
    BY <2>6, TakeRefines DEF CarveNewPage
  <2>7. CASE \/ \E kind \in Kinds : CarveNextBlock(kind)
             \/ UNCHANGED vars
    BY <2>1, <2>7 DEF CarveNextBlock, vars
  <2> QED
    BY <2>2, <2>3, <2>4, <2>5, <2>6, <2>7 DEF Next
<1> QED
  BY <1>1, <1>2, InitPages, PageStep, PTL DEF Spec, StoreSpec, Store!Spec
----------------------------------------------------------------------------

(***************************************************************************)
(* What module PageStore promises it keeps itself: it never shares a page, *)
(* on a machine of any size.                                               *)
(***************************************************************************)

StoreInv == Store!TypeOK /\ Store!Exclusive /\ Store!BelowBreak

(* A page lies in a block's run iff it lies between its ends.              *)
LEMMA RunMember ==
    ASSUME NEW b \in Store!Block
    PROVE  /\ b.first \in Nat /\ b.size \in Nat \ {0}
           /\ \A p \in Nat : p \in Store!Run(b) <=> b.first <= p /\ p < b.first + b.size
           /\ Store!Run(b) \subseteq Nat
BY DEF Store!Block, Store!Run

(* A first page and a size make a block.                                   *)
LEMMA NewEntryIsBlock ==
    ASSUME NEW first \in Nat, NEW n \in Nat \ {0}
    PROVE  /\ [first |-> first, size |-> n] \in Store!Block
           /\ [first |-> first, size |-> n].first = first
           /\ [first |-> first, size |-> n].size = n
BY DEF Store!Block

(* Every step of the store keeps blocks apart and below the break.         *)
LEMMA StoreStep ==
    ASSUME Limit \in Nat, StoreInv, [Store!Next]_(Store!vars)
    PROVE  StoreInv'
<1> USE DEF StoreInv
<1>0. heapPos \in Nat /\ Limit \in Nat
  BY DEF Store!TypeOK
<1>1. ASSUME NEW n \in 1..Limit, Store!AllocateReused(n)
      PROVE  StoreInv'
  <2>1. n \in Nat \ {0}
    BY <1>0
  <2>2. PICK p \in FreePages :
           /\ Store!Run([first |-> p, size |-> n]) \subseteq FreePages
           /\ LiveBlocks' = LiveBlocks \cup {[first |-> p, size |-> n]}
           /\ FreePages' = FreePages \ Store!Run([first |-> p, size |-> n])
           /\ heapPos' \in heapPos..Limit
    BY <1>1 DEF Store!AllocateReused
  <2>3. PICK b \in Store!Block : b = [first |-> p, size |-> n] /\ b.first = p /\ b.size = n
    BY <2>1, NewEntryIsBlock DEF Store!TypeOK
  <2>4. /\ Store!Run(b) \subseteq FreePages /\ LiveBlocks' = LiveBlocks \cup {b}
        /\ FreePages' = FreePages \ Store!Run(b)
    BY <2>2, <2>3
  <2>5. heapPos' \in Nat /\ heapPos <= heapPos'
    BY <1>0, <2>2
  <2>6. b.first + b.size <= heapPos
    <3>1. b.first + b.size - 1 \in Nat /\ b.first + b.size - 1 \in Store!Run(b)
      BY <2>1, <2>3, RunMember
    <3>2. b.first + b.size - 1 < heapPos
      BY <2>4, <3>1 DEF Store!BelowBreak
    <3> QED  BY <1>0, <2>3, <2>1, <3>1, <3>2, RunMember
  <2>7. Store!TypeOK'
    BY <2>4, <2>5 DEF Store!TypeOK
  <2>8. Store!Exclusive'
    BY <2>4 DEF Store!Exclusive
  <2>9. Store!BelowBreak'
    <3>1. ASSUME NEW a \in LiveBlocks'
          PROVE  a.first + a.size <= heapPos'
      <4>1. a \in Store!Block /\ a.first + a.size <= heapPos
        BY <2>4, <2>6, <2>7, <3>1 DEF Store!BelowBreak, Store!TypeOK
      <4> QED  BY <1>0, <2>5, <4>1, RunMember
    <3>2. ASSUME NEW q \in FreePages'
          PROVE  q < heapPos'
      <4>1. q \in Nat /\ q < heapPos
        BY <2>4, <3>2 DEF Store!BelowBreak, Store!TypeOK
      <4> QED  BY <1>0, <2>5, <4>1
    <3> QED  BY <3>1, <3>2 DEF Store!BelowBreak
  <2> QED  BY <2>7, <2>8, <2>9
<1>2. ASSUME NEW n \in 1..Limit, Store!AllocateFresh(n)
      PROVE  StoreInv'
  <2>1. n \in Nat \ {0}
    BY <1>0
  <2>2. PICK b \in Store!Block : b = [first |-> heapPos, size |-> n] /\ b.first = heapPos /\ b.size = n
    BY <1>0, <2>1, NewEntryIsBlock
  <2>3. LiveBlocks' = LiveBlocks \cup {b} /\ heapPos' \in heapPos + n .. Limit /\ UNCHANGED FreePages
    BY <1>2, <2>2 DEF Store!AllocateFresh
  <2>4. heapPos' \in Nat /\ heapPos + n <= heapPos'
    BY <1>0, <2>1, <2>3
  <2>5. Store!TypeOK'
    BY <2>3, <2>4 DEF Store!TypeOK
  <2>6. /\ \A a \in LiveBlocks : Store!Run(a) \cap Store!Run(b) = {}
        /\ Store!Run(b) \cap FreePages = {}
    <3>1. ASSUME NEW p \in Store!Run(b) PROVE p \in Nat /\ p >= heapPos
      BY <2>2, <3>1, RunMember
    <3>2. ASSUME NEW a \in LiveBlocks, NEW p \in Store!Run(a) PROVE p \in Nat /\ p < heapPos
      <4>1. a \in Store!Block /\ a.first + a.size <= heapPos
        BY DEF Store!TypeOK, Store!BelowBreak
      <4> QED  BY <1>0, <3>2, <4>1, RunMember
    <3>3. ASSUME NEW p \in FreePages PROVE p \in Nat /\ p < heapPos
      BY DEF Store!TypeOK, Store!BelowBreak
    <3> QED  BY <1>0, <3>1, <3>2, <3>3
  <2>7. Store!Exclusive'
    BY <2>3, <2>6 DEF Store!Exclusive
  <2>8. Store!BelowBreak'
    <3>1. ASSUME NEW a \in LiveBlocks'
          PROVE  a.first + a.size <= heapPos'
      <4>1. CASE a = b
        BY <2>2, <2>4, <4>1
      <4>2. CASE a \in LiveBlocks
        <5>1. a \in Store!Block /\ a.first + a.size <= heapPos
          BY <4>2 DEF Store!TypeOK, Store!BelowBreak
        <5> QED  BY <1>0, <2>1, <2>4, <5>1, RunMember
      <4> QED  BY <2>3, <4>1, <4>2
    <3>2. ASSUME NEW q \in FreePages
          PROVE  q < heapPos'
      <4>1. q \in Nat /\ q < heapPos
        BY DEF Store!BelowBreak, Store!TypeOK
      <4> QED  BY <1>0, <2>1, <2>4, <4>1
    <3> QED  BY <2>3, <3>1, <3>2 DEF Store!BelowBreak
  <2> QED  BY <2>5, <2>7, <2>8
<1>3. ASSUME Store!Reserve
      PROVE  StoreInv'
  <2>1. heapPos' \in Nat /\ heapPos < heapPos' /\ UNCHANGED <<LiveBlocks, FreePages>>
    BY <1>0, <1>3 DEF Store!Reserve
  <2>2. ASSUME NEW a \in LiveBlocks PROVE a.first + a.size <= heapPos'
    <3>1. a \in Store!Block /\ a.first + a.size <= heapPos
      BY DEF Store!TypeOK, Store!BelowBreak
    <3> QED  BY <1>0, <2>1, <3>1, RunMember
  <2>3. ASSUME NEW q \in FreePages PROVE q < heapPos'
    <3>1. q \in Nat /\ q < heapPos
      BY DEF Store!TypeOK, Store!BelowBreak
    <3> QED  BY <1>0, <2>1, <3>1
  <2> QED  BY <2>1, <2>2, <2>3 DEF Store!TypeOK, Store!Exclusive, Store!BelowBreak
<1>4. ASSUME NEW b \in LiveBlocks, Store!Release(b)
      PROVE  StoreInv'
  <2>1. /\ LiveBlocks' = LiveBlocks \ {b} /\ FreePages' = FreePages \cup Store!Run(b)
        /\ UNCHANGED heapPos
    BY <1>4 DEF Store!Release
  <2>2. b \in Store!Block /\ b.first + b.size <= heapPos
    BY DEF Store!TypeOK, Store!BelowBreak
  <2>3. ASSUME NEW p \in Store!Run(b) PROVE p \in Nat /\ p < heapPos
    BY <1>0, <2>2, <2>3, RunMember
  <2>4. Store!TypeOK'
    BY <2>1, <2>3 DEF Store!TypeOK
  <2>5. Store!Exclusive'
    BY <2>1 DEF Store!Exclusive
  <2>6. Store!BelowBreak'
    BY <2>1, <2>3 DEF Store!BelowBreak
  <2> QED  BY <2>4, <2>5, <2>6
<1>5. CASE UNCHANGED Store!vars
  BY <1>5 DEF Store!vars, Store!TypeOK, Store!Exclusive, Store!BelowBreak
<1> QED
  BY <1>1, <1>2, <1>3, <1>4, <1>5 DEF Store!Next

(* No page is in two blocks, none is offered while it is held, and all lie *)
(* below the end of memory.                                                *)
THEOREM StoreIsSafe ==
    ASSUME Limit \in Nat PROVE Store!Spec => [](Store!TypeOK /\ Store!Exclusive /\ Store!BelowBreak)
<1>1. Store!Init => StoreInv
  BY DEF Store!Init, StoreInv, Store!TypeOK, Store!Exclusive, Store!BelowBreak
<1>2. StoreInv /\ [Store!Next]_(Store!vars) => StoreInv'
  BY StoreStep
<1> QED
  BY <1>1, <1>2, PTL DEF Store!Spec, StoreInv
(* The corollary for the list itself: with entries split, reused and added *)
(* in any order, no page is labelled for two holders or offered while it   *)
(* is held.                                                                *)
THEOREM ListIsSafe == Spec => [](Store!Exclusive /\ Store!BelowBreak)
<1>1. Limit \in Nat
  BY PageListAssumption
<1> QED
  BY <1>1, ListIsStore, StoreIsSafe, PTL DEF StoreSpec

-----------------------------------------------------------------------------
(* Induction over numbers, from their being well-founded.                  *)

(* What holds of 0 and, if of a number, of the next one, holds of all.     *)
LEMMA NatsAreIn ==
    ASSUME NEW T, 0 \in T, \A n \in Nat : n \in T => n + 1 \in T
    PROVE  Nat \subseteq T
<1> DEFINE R == OpToRel(<, Nat)
           U == Nat \ T
<1>1. IsWellFoundedOn(R, Nat)
  BY NatLessThanWellFounded, Zenon
<1>2. ASSUME U # {} PROVE FALSE
  <2>1. U \subseteq Nat
    OBVIOUS
  <2>2. PICK x \in U : \A y \in U : ~(<<y, x>> \in R)
    <3> HIDE DEF R, U
    <3> QED  BY <1>1, <1>2, <2>1, WFMin
  <2>3. x # 0 /\ x - 1 \in Nat /\ (x - 1) + 1 = x
    OBVIOUS
  <2>4. x - 1 \in U
    BY <2>3
  <2>5. x - 1 \in Nat /\ x \in Nat /\ x - 1 < x
    BY <2>3
  <2>6. <<x - 1, x>> \in R
    BY <2>5, Zenon DEF OpToRel
  <2> QED  BY <2>2, <2>4, <2>6
<1> QED
  BY <1>2

-----------------------------------------------------------------------------
(* The heap.                                                               *)

HeapNode == [at : Nat, size : Nat, free : BOOLEAN]
Behind(m) == m.at + HEADER_SIZE + m.size

TiledTo(l, end) ==
    \A k \in 1..Len(l) : Behind(l[k]) = IF k = Len(l) THEN end ELSE l[k + 1].at

(* A list of nodes from the head on.                                       *)
IsList(l) == l \in Seq(HeapNode) /\ Len(l) \in Nat \ {0} /\ ~l[1].free

(* cleanMemoryList goes through the list once: what it has when it is at   *)
(* node n.                                                                 *)
DoneAt(d, l, n) == d = [i \in 1..n |-> IF i = 1 THEN <<l[1]>> ELSE Join(d[i - 1], l[i])]

(* There is such a function for any length.                                *)
LEMMA DoneExists ==
    ASSUME NEW l, NEW n \in Nat
    PROVE  \E d : DoneAt(d, l, n)
<1> DEFINE T == {i \in Nat : \E d : DoneAt(d, l, i)}
<1>1. 0 \in T
  <2>1. DoneAt([i \in {} |-> 0], l, 0)
    BY DEF DoneAt
  <2> QED  BY <2>1
<1>2. ASSUME NEW i \in Nat, i \in T
      PROVE  i + 1 \in T
  <2>1. PICK d : DoneAt(d, l, i)
    BY <1>2
  <2> DEFINE e == [j \in 1..i + 1 |->
                     IF j <= i THEN d[j] ELSE IF j = 1 THEN <<l[1]>> ELSE Join(d[j - 1], l[j])]
  <2>2. \A j \in 1..i + 1 : e[j] = IF j = 1 THEN <<l[1]>> ELSE Join(e[j - 1], l[j])
    <3> SUFFICES ASSUME NEW j \in 1..i + 1
                 PROVE  e[j] = IF j = 1 THEN <<l[1]>> ELSE Join(e[j - 1], l[j])
      OBVIOUS
    <3>1. j # 1 => j - 1 \in 1..i + 1 /\ e[j - 1] = d[j - 1]
      OBVIOUS
    <3>2. j <= i => j \in 1..i /\ d[j] = IF j = 1 THEN <<l[1]>> ELSE Join(d[j - 1], l[j])
      BY <2>1 DEF DoneAt
    <3>3. e[j] = IF j = 1 THEN <<l[1]>> ELSE Join(d[j - 1], l[j])
      BY <3>2
    <3> QED  BY <3>1, <3>3
  <2>3. e = [j \in 1..i + 1 |-> IF j = 1 THEN <<l[1]>> ELSE Join(e[j - 1], l[j])]
    <3>1. e = [j \in 1..i + 1 |-> e[j]]
      OBVIOUS
    <3> HIDE DEF e
    <3> QED  BY <2>2, <3>1
  <2>4. DoneAt(e, l, i + 1)
    <3> HIDE DEF e
    <3> QED  BY <2>3 DEF DoneAt
  <2> QED  BY <2>4
<1>3. n \in T
  <2> HIDE DEF T
  <2> QED  BY <1>1, <1>2, NatsAreIn
<1> QED
  BY <1>3

(* What cleanMemoryList leaves is what it has at the last node.            *)
LEMMA CleanedIsDone ==
    ASSUME NEW l, Len(l) \in Nat
    PROVE  \E d : DoneAt(d, l, Len(l)) /\ Cleaned(l) = d[Len(l)]
<1>1. Cleaned(l) = (CHOOSE d : d = [n \in 1..Len(l) |->
                        IF n = 1 THEN <<l[1]>> ELSE Join(d[n - 1], l[n])])[Len(l)]
  BY DEF Cleaned
<1>2. \E d : d = [n \in 1..Len(l) |-> IF n = 1 THEN <<l[1]>> ELSE Join(d[n - 1], l[n])]
  BY DoneExists DEF DoneAt
<1> QED
  BY <1>1, <1>2 DEF DoneAt

(* The headers of a tiled list lie in its order.                           *)
LEMMA TiledIsOrdered ==
    ASSUME NEW l, NEW end, IsList(l), TiledTo(l, end)
    PROVE  \A i, j \in 1..Len(l) : i < j => l[i].at < l[j].at
<1> SUFFICES ASSUME NEW i \in 1..Len(l), NEW j \in 1..Len(l), i < j
             PROVE  l[i].at < l[j].at
  OBVIOUS
<1>1. Len(l) \in Nat /\ HEADER_SIZE \in Nat \ {0} /\ \A k \in 1..Len(l) : l[k] \in HeapNode
  BY AllocAssumption, ElementOfSeq DEF IsList
<1>2. \A k \in 1..Len(l) : l[k].at \in Nat /\ l[k].size \in Nat
  BY <1>1 DEF HeapNode
<1>3. \A k \in 1..Len(l) : k + 1 \in 1..Len(l) => l[k].at < l[k + 1].at
  BY <1>1, <1>2 DEF TiledTo, Behind
<1> DEFINE T == {n \in Nat : i + n + 1 \in 1..Len(l) => l[i].at < l[i + n + 1].at}
<1>4. 0 \in T
  BY <1>1, <1>3
<1>5. ASSUME NEW n \in Nat, n \in T
      PROVE  n + 1 \in T
  <2>1. ASSUME i + (n + 1) + 1 \in 1..Len(l) PROVE l[i].at < l[i + (n + 1) + 1].at
    <3>1. i + n + 1 \in 1..Len(l) /\ (i + n + 1) + 1 = i + (n + 1) + 1
      BY <1>1, <2>1
    <3>2. l[i].at < l[i + n + 1].at
      BY <1>5, <3>1
    <3>3. l[i + n + 1].at < l[i + (n + 1) + 1].at
      BY <1>3, <2>1, <3>1
    <3> QED  BY <1>2, <2>1, <3>1, <3>2, <3>3
  <2> QED  BY <2>1
<1>6. j - i - 1 \in T
  <2>1. j - i - 1 \in Nat
    BY <1>1
  <2> HIDE DEF T
  <2> QED  BY <1>4, <1>5, <2>1, NatsAreIn
<1> QED
  BY <1>1, <1>6

(* Each block that is lent lies behind the header of a used node, each     *)
(* used node but the head has one, and no two are in the same place.       *)
Backs(m, b) == ~m.free /\ b.at = m.at + HEADER_SIZE /\ b.size <= m.size

LentFrom(l, blocksLent) ==
    /\ blocksLent \subseteq [at : Nat, size : Nat]
    /\ \A b \in blocksLent : \E k \in 2..Len(l) : Backs(l[k], b)
    /\ \A k \in 2..Len(l) : ~l[k].free => \E b \in blocksLent : Backs(l[k], b)
    /\ \A b, c \in blocksLent : b.at = c.at => b = c

HeapOf(l, end, blocksLent) == IsList(l) /\ TiledTo(l, end) /\ LentFrom(l, blocksLent)

(* What a pass of cleanMemoryList has done up to node n.                   *)
DoneTo(d, l, n) ==
    /\ IsList(d) /\ d[1] = l[1]
    /\ TiledTo(d, Behind(l[n]))
    /\ \A k \in 2..n : ~l[k].free => \E j \in 2..Len(d) : d[j] = l[k]
    /\ \A j \in 2..Len(d) : ~d[j].free => \E k \in 2..n : l[k] = d[j]

(* A step of the pass: node n + 1 is joined to the free one before it or   *)
(* put behind it.                                                          *)
LEMMA JoinKeeps ==
    ASSUME NEW l, NEW d, NEW n \in Nat \ {0}, IsList(l), n + 1 <= Len(l),
           l[n + 1].at = Behind(l[n]), DoneTo(d, l, n)
    PROVE  DoneTo(Join(d, l[n + 1]), l, n + 1)
<1> DEFINE m == l[n + 1]
           L == Len(d)
           e == Join(d, m)
<1>1. /\ L \in Nat \ {0} /\ d \in Seq(HeapNode) /\ d[L] \in HeapNode
      /\ m \in HeapNode /\ HEADER_SIZE \in Nat /\ l[n] \in HeapNode
  BY AllocAssumption, ElementOfSeq DEF IsList, DoneTo
<1>2. \A j \in 1..L : d[j] \in HeapNode
  BY <1>1, ElementOfSeq
<1>3. Last(d) = d[L]
  BY DEF Last
<1>4. Behind(d[L]) = m.at
  BY <1>1 DEF DoneTo, TiledTo
<1>5. CASE d[L].free /\ m.free
  <2> DEFINE x == [d[L] EXCEPT !.size = d[L].size + m.size + HEADER_SIZE]
  <2>1. e = [d EXCEPT ![L] = x]
    BY <1>3, <1>5 DEF Join, Merged
  <2>2. /\ x \in HeapNode /\ x.free = TRUE /\ x.at = d[L].at
        /\ Behind(x) = Behind(m)
    <3>1. PICK p : p = d[L]
      OBVIOUS
    <3>2. /\ p \in HeapNode /\ p.at \in Nat /\ p.size \in Nat /\ p.free = TRUE
          /\ m.at \in Nat /\ m.size \in Nat
      BY <1>1, <1>5, <3>1 DEF HeapNode
    <3>3. m.at = p.at + HEADER_SIZE + p.size
      BY <1>4, <3>1 DEF Behind
    <3>4. x = [p EXCEPT !.size = p.size + m.size + HEADER_SIZE]
      BY <3>1
    <3>5. x = [at |-> p.at, size |-> p.size + m.size + HEADER_SIZE, free |-> TRUE]
      <4>1. p = [at |-> p.at, size |-> p.size, free |-> TRUE]
        BY <3>2 DEF HeapNode
      <4> HIDE DEF x, m
      <4>2. PICK a, s : a = p.at /\ s = p.size
        OBVIOUS
      <4>3. p = [at |-> a, size |-> s, free |-> TRUE]
        BY <4>1, <4>2
      <4>4. x = [[at |-> a, size |-> s, free |-> TRUE]
                    EXCEPT !.size = p.size + m.size + HEADER_SIZE]
        BY <3>4, <4>3
      <4>5. x = [at |-> a, size |-> p.size + m.size + HEADER_SIZE, free |-> TRUE]
        BY <4>4
      <4> QED  BY <4>2, <4>5
    <3>6. x.at = p.at /\ x.size = p.size + m.size + HEADER_SIZE /\ x.free = TRUE
      BY <3>5
    <3> HIDE DEF x, m
    <3>7. x \in HeapNode
      BY <1>1, <3>2, <3>5 DEF HeapNode
    <3>8. x.at + HEADER_SIZE + x.size = m.at + HEADER_SIZE + m.size
      BY <1>1, <3>2, <3>3, <3>6
    <3> QED  BY <3>1, <3>6, <3>7, <3>8 DEF Behind
  <2>3. L # 1
    BY <1>5 DEF DoneTo, IsList
  <2> HIDE DEF e, x
  <2>4. e \in Seq(HeapNode) /\ Len(e) = L
    BY <1>1, <2>1, <2>2, ExceptSeq
  <2>5. e[L] = x /\ \A j \in 1..L - 1 : e[j] = d[j]
    BY <1>1, <2>1
  <2>6. IsList(e) /\ e[1] = d[1]
    BY <1>1, <2>3, <2>4, <2>5 DEF IsList, DoneTo
  <2>7. TiledTo(e, Behind(m))
    <3> SUFFICES ASSUME NEW k \in 1..L
                 PROVE  Behind(e[k]) = IF k = L THEN Behind(m) ELSE e[k + 1].at
      BY <2>4 DEF TiledTo
    <3>1. CASE k = L
      BY <2>2, <2>5, <3>1
    <3>2. CASE k # L
      <4>1. Behind(d[k]) = d[k + 1].at /\ k \in 1..L - 1
        BY <1>1, <3>2 DEF DoneTo, TiledTo
      <4>2. e[k + 1].at = d[k + 1].at
        BY <1>1, <2>2, <2>5, <4>1
      <4> QED  BY <2>5, <3>2, <4>1, <4>2
    <3> QED  BY <3>1, <3>2
  <2>8. ASSUME NEW k \in 2..n + 1, ~l[k].free
        PROVE  \E j \in 2..Len(e) : e[j] = l[k]
    <3>1. k \in 2..n
      BY <1>5, <2>8
    <3>2. PICK j \in 2..L : d[j] = l[k]
      BY <2>8, <3>1 DEF DoneTo
    <3>3. j # L
      BY <1>5, <2>8, <3>2
    <3> QED  BY <1>1, <2>4, <2>5, <3>2, <3>3
  <2>9. ASSUME NEW j \in 2..Len(e), ~e[j].free
        PROVE  \E k \in 2..n + 1 : l[k] = e[j]
    <3>1. j \in 2..L /\ j # L /\ e[j] = d[j]
      BY <1>1, <2>2, <2>4, <2>5, <2>9
    <3>2. PICK k \in 2..n : l[k] = d[j]
      BY <2>9, <3>1 DEF DoneTo
    <3> QED  BY <3>1, <3>2
  <2>10. e[1] = l[1]
    BY <2>6 DEF DoneTo
  <2> QED  BY <2>6, <2>7, <2>8, <2>9, <2>10 DEF DoneTo, e
<1>6. CASE ~(d[L].free /\ m.free)
  <2>1. e = Append(d, m)
    BY <1>3, <1>6 DEF Join
  <2> HIDE DEF e
  <2>2. e \in Seq(HeapNode) /\ Len(e) = L + 1 /\ e[L + 1] = m /\ \A j \in 1..L : e[j] = d[j]
    BY <1>1, <2>1, AppendProperties
  <2>3. IsList(e) /\ e[1] = d[1]
    BY <1>1, <2>2 DEF IsList, DoneTo
  <2>4. TiledTo(e, Behind(m))
    <3> SUFFICES ASSUME NEW k \in 1..L + 1
                 PROVE  Behind(e[k]) = IF k = L + 1 THEN Behind(m) ELSE e[k + 1].at
      BY <2>2 DEF TiledTo
    <3>1. CASE k = L + 1
      BY <2>2, <3>1
    <3>2. CASE k = L
      BY <1>1, <1>4, <2>2, <3>2
    <3>3. CASE k \in 1..L - 1
      BY <1>1, <2>2, <3>3 DEF DoneTo, TiledTo
    <3> QED  BY <1>1, <3>1, <3>2, <3>3
  <2>5. ASSUME NEW k \in 2..n + 1, ~l[k].free
        PROVE  \E j \in 2..Len(e) : e[j] = l[k]
    <3>1. CASE k = n + 1
      BY <1>1, <2>2, <3>1
    <3>2. CASE k \in 2..n
      <4>1. PICK j \in 2..L : d[j] = l[k]
        BY <2>5, <3>2 DEF DoneTo
      <4> QED  BY <1>1, <2>2, <4>1
    <3> QED  BY <3>1, <3>2
  <2>6. ASSUME NEW j \in 2..Len(e), ~e[j].free
        PROVE  \E k \in 2..n + 1 : l[k] = e[j]
    <3>1. CASE j = L + 1
      BY <1>1, <2>2, <3>1
    <3>2. CASE j \in 2..L
      <4>1. ~d[j].free /\ e[j] = d[j]
        BY <1>1, <2>2, <2>6, <3>2
      <4>2. PICK k \in 2..n : l[k] = d[j]
        BY <3>2, <4>1 DEF DoneTo
      <4> QED  BY <4>1, <4>2
    <3> QED  BY <1>1, <2>2, <3>1, <3>2
  <2>7. e[1] = l[1]
    BY <2>3 DEF DoneTo
  <2> QED  BY <2>3, <2>4, <2>5, <2>6, <2>7 DEF DoneTo, e
<1> QED
  BY <1>5, <1>6

(* A heap's list is one after cleanMemoryList, too: only free nodes have   *)
(* become others.                                                          *)
LEMMA CleanedKeeps ==
    ASSUME NEW l, NEW end, NEW given, HeapOf(l, end, given)
    PROVE  HeapOf(Cleaned(l), end, given)
<1>1. Len(l) \in Nat \ {0} /\ l \in Seq(HeapNode)
  BY DEF HeapOf, IsList
<1>2. PICK d : DoneAt(d, l, Len(l)) /\ Cleaned(l) = d[Len(l)]
  BY <1>1, CleanedIsDone
<1>3. \A i \in 1..Len(l) : d[i] = IF i = 1 THEN <<l[1]>> ELSE Join(d[i - 1], l[i])
  BY <1>2 DEF DoneAt
<1> DEFINE T == {n \in Nat : n + 1 <= Len(l) => DoneTo(d[n + 1], l, n + 1)}
<1>4. 0 \in T
  <2>1. d[1] = <<l[1]>> /\ l[1] \in HeapNode
    BY <1>1, <1>3, ElementOfSeq
  <2>2. IsList(d[1]) /\ Len(d[1]) = 1 /\ d[1][1] = l[1]
    BY <2>1 DEF HeapOf, IsList
  <2>3. DoneTo(d[1], l, 1)
    BY <2>2 DEF DoneTo, TiledTo
  <2> QED  BY <2>3
<1>5. ASSUME NEW n \in Nat, n \in T
      PROVE  n + 1 \in T
  <2>1. ASSUME (n + 1) + 1 <= Len(l) PROVE DoneTo(d[(n + 1) + 1], l, (n + 1) + 1)
    <3>1. n + 1 \in Nat \ {0} /\ n + 1 <= Len(l) /\ n + 1 # Len(l) /\ (n + 1) + 1 \in 1..Len(l)
          /\ (n + 1) + 1 # 1 /\ ((n + 1) + 1) - 1 = n + 1
      BY <1>1, <2>1
    <3>2. DoneTo(d[n + 1], l, n + 1)
      BY <1>5, <3>1
    <3>3. l[(n + 1) + 1].at = Behind(l[n + 1])
      BY <3>1 DEF HeapOf, TiledTo
    <3>4. d[(n + 1) + 1] = Join(d[n + 1], l[(n + 1) + 1])
      BY <1>3, <3>1
    <3> QED  BY <2>1, <3>1, <3>2, <3>3, <3>4, JoinKeeps DEF HeapOf
  <2> QED  BY <2>1
<1>6. Len(l) - 1 \in T
  <2> HIDE DEF T
  <2> QED  BY <1>1, <1>4, <1>5, NatsAreIn
<1>7. DoneTo(Cleaned(l), l, Len(l))
  <2>1. (Len(l) - 1) + 1 = Len(l)
    BY <1>1
  <2> QED  BY <1>1, <1>2, <1>6, <2>1
<1> DEFINE c == Cleaned(l)
<1> HIDE DEF c
<1>8. IsList(c) /\ TiledTo(c, end)
  BY <1>1, <1>7 DEF DoneTo, HeapOf, TiledTo, c
<1>9. ASSUME NEW b \in given PROVE \E k \in 2..Len(c) : Backs(c[k], b)
  <2>1. PICK k \in 2..Len(l) : Backs(l[k], b)
    BY DEF HeapOf, LentFrom
  <2>2. PICK j \in 2..Len(c) : c[j] = l[k]
    BY <1>7, <2>1 DEF DoneTo, Backs, c
  <2> QED  BY <2>1, <2>2
<1>10. ASSUME NEW j \in 2..Len(c), ~c[j].free PROVE \E b \in given : Backs(c[j], b)
  <2>1. PICK k \in 2..Len(l) : l[k] = c[j]
    BY <1>7, <1>10 DEF DoneTo, c
  <2>2. PICK b \in given : Backs(l[k], b)
    BY <1>10, <2>1 DEF HeapOf, LentFrom
  <2> QED  BY <2>1, <2>2
<1> QED
  BY <1>8, <1>9, <1>10 DEF HeapOf, LentFrom, c

(* One more block, behind a node that has become used.                     *)
LEMMA LentWith ==
    ASSUME NEW l, NEW given, NEW m, NEW i \in Nat, NEW asked \in Nat, NEW new, NEW end,
           LentFrom(l, given), IsList(m), TiledTo(m, end), i \in 2..Len(m),
           ~m[i].free, asked <= m[i].size, new = [at |-> m[i].at + HEADER_SIZE, size |-> asked],
           \A k \in 2..Len(l) : ~l[k].free => \E j \in 2..Len(m) : j # i /\ m[j] = l[k],
           \A j \in 2..Len(m) : j # i /\ ~m[j].free => \E k \in 2..Len(l) : l[k] = m[j]
    PROVE  LentFrom(m, given \cup {new})
<1>1. /\ Len(m) \in Nat /\ HEADER_SIZE \in Nat
      /\ \A j \in 1..Len(m) : m[j].at \in Nat /\ m[j].size \in Nat
  <2>1. m \in Seq(HeapNode) /\ Len(m) \in Nat /\ HEADER_SIZE \in Nat
    BY AllocAssumption DEF IsList
  <2>2. \A j \in 1..Len(m) : m[j] \in HeapNode
    BY <2>1, ElementOfSeq
  <2> QED  BY <2>1, <2>2 DEF HeapNode
<1>2. new.at = m[i].at + HEADER_SIZE /\ new.size = asked /\ new \in [at : Nat, size : Nat]
  BY <1>1
<1>3. Backs(m[i], new)
  BY <1>2 DEF Backs
<1>4. ASSUME NEW b \in given
      PROVE  \E j \in 2..Len(m) : j # i /\ Backs(m[j], b)
  <2>1. PICK k \in 2..Len(l) : Backs(l[k], b)
    BY DEF LentFrom
  <2>2. PICK j \in 2..Len(m) : j # i /\ m[j] = l[k]
    BY <2>1 DEF Backs
  <2> QED  BY <2>1, <2>2
<1>5. ASSUME NEW b \in given PROVE b.at # new.at
  <2>1. PICK j \in 2..Len(m) : j # i /\ Backs(m[j], b)
    BY <1>4
  <2>2. m[j].at # m[i].at
    <3>1. j \in 1..Len(m) /\ i \in 1..Len(m) /\ (i < j \/ j < i)
      BY <1>1, <2>1
    <3> QED  BY <1>1, <3>1, TiledIsOrdered
  <2>3. j \in 1..Len(m) /\ i \in 1..Len(m)
    BY <1>1
  <2> QED  BY <1>1, <1>2, <2>1, <2>2, <2>3 DEF Backs
<1>6. ASSUME NEW j \in 2..Len(m), ~m[j].free
      PROVE  \E b \in given \cup {new} : Backs(m[j], b)
  <2>1. CASE j = i
    BY <1>3, <2>1
  <2>2. CASE j # i
    <3>1. PICK k \in 2..Len(l) : l[k] = m[j]
      BY <1>6, <2>2
    <3>2. PICK b \in given : Backs(l[k], b)
      BY <1>6, <3>1 DEF LentFrom
    <3> QED  BY <3>1, <3>2
  <2> QED  BY <2>1, <2>2
<1>7. \A b, c \in given \cup {new} : b.at = c.at => b = c
  BY <1>5 DEF LentFrom
<1>8. given \cup {new} \subseteq [at : Nat, size : Nat]
  BY <1>2 DEF LentFrom
<1>9. \A b \in given \cup {new} : \E j \in 2..Len(m) : Backs(m[j], b)
  BY <1>3, <1>4
<1> HIDE DEF LentFrom
<1> QED
  BY <1>6, <1>7, <1>8, <1>9 DEF LentFrom

(* The fields of a node.                                                   *)
LEMMA NodeFields ==
    /\ \A m \in HeapNode : m.at \in Nat /\ m.size \in Nat /\ m.free \in BOOLEAN
    /\ \A a, s \in Nat : \A f \in BOOLEAN : [at |-> a, size |-> s, free |-> f] \in HeapNode
  BY DEF HeapNode

(* A free node cut in two: the first part is used, the rest free.          *)
UsedPart(l, k, size) == [at |-> l[k].at, size |-> size, free |-> FALSE]
FreePart(l, k, size) ==
    [at |-> l[k].at + HEADER_SIZE + size, size |-> l[k].size - HEADER_SIZE - size, free |-> TRUE]

(* They lie where the node was, and the others where they were.            *)
LEMMA CutFacts ==
    ASSUME NEW l, NEW k, NEW size \in Nat, IsList(l), k \in Cuts(l, size)
    PROVE  /\ k \in 2..(Len(l) - 1) /\ l[k].free
           /\ UsedPart(l, k, size) \in HeapNode /\ FreePart(l, k, size) \in HeapNode
           /\ Behind(UsedPart(l, k, size)) = FreePart(l, k, size).at
           /\ Behind(FreePart(l, k, size)) = Behind(l[k])
           /\ Cut(l, k, size) \in Seq(HeapNode) /\ Len(Cut(l, k, size)) = Len(l) + 1
           /\ \A j \in 1..(k - 1) : Cut(l, k, size)[j] = l[j]
           /\ Cut(l, k, size)[k] = UsedPart(l, k, size)
           /\ Cut(l, k, size)[k + 1] = FreePart(l, k, size)
           /\ \A j \in (k + 1)..Len(l) : Cut(l, k, size)[j + 1] = l[j]
<1> DEFINE used == [at |-> l[k].at, size |-> size, free |-> FALSE]
           rest == [at |-> l[k].at + HEADER_SIZE + size,
                    size |-> l[k].size - HEADER_SIZE - size, free |-> TRUE]
           L == Len(l)
           first == SubSeq(l, 1, k - 1)
           last == SubSeq(l, k + 1, Len(l))
           mid == <<used, rest>>
<1>1. /\ L \in Nat \ {0} /\ l \in Seq(HeapNode) /\ HEADER_SIZE \in Nat /\ minMemSize \in Nat
      /\ \A j \in 1..L : l[j] \in HeapNode
  BY AllocAssumption, ElementOfSeq DEF IsList
<1>2. k \in 2..(L - 1) /\ l[k].free /\ HEADER_SIZE + minMemSize + size < l[k].size
  BY <1>1 DEF Cuts, IsList
<1>3. l[k].at \in Nat /\ l[k].size \in Nat
  <2>1. k \in 1..L
    BY <1>1, <1>2
  <2> QED  BY <1>1, <2>1, NodeFields
<1>4. PICK a, s : a = l[k].at /\ s = l[k].size
  OBVIOUS
<1>5. used \in HeapNode /\ rest \in HeapNode
  <2>1. a \in Nat /\ s - HEADER_SIZE - size \in Nat /\ a + HEADER_SIZE + size \in Nat
    BY <1>1, <1>2, <1>3, <1>4
  <2> QED  BY <1>4, <2>1, NodeFields
<1>6. used.at + HEADER_SIZE + used.size = rest.at
      /\ rest.at + HEADER_SIZE + rest.size = l[k].at + HEADER_SIZE + l[k].size
  <2>1. /\ used.at = a /\ used.size = size
        /\ rest.at = a + HEADER_SIZE + size /\ rest.size = s - HEADER_SIZE - size
    BY <1>4
  <2> HIDE DEF used, rest
  <2> QED  BY <1>1, <1>3, <1>4, <2>1
<1>7. Cut(l, k, size) = (first \o mid) \o last
  <2>1. Cut(l, k, size) = first \o mid \o last
    BY DEF Cut
  <2> QED  BY <2>1
<1> HIDE DEF used, rest
<1>8. mid \in Seq(HeapNode) /\ Len(mid) = 2 /\ mid[1] = used /\ mid[2] = rest
  BY <1>5
<1>9. first \in Seq(HeapNode) /\ Len(first) = k - 1 /\ \A j \in 1..(k - 1) : first[j] = l[j]
  <2>1. 1 \in Int /\ k - 1 \in Int /\ \A j \in 1..(k - 1) : l[j] \in HeapNode
    BY <1>1, <1>2
  <2> QED  BY <1>1, <1>2, <2>1, SubSeqProperties
<1>10. last \in Seq(HeapNode) /\ Len(last) = L - k
       /\ \A j \in 1..(L - k) : last[j] = l[k + j]
  <2>1. L \in Int /\ k + 1 \in Int /\ \A j \in (k + 1)..L : l[j] \in HeapNode
    BY <1>1, <1>2
  <2>2. /\ last \in Seq(HeapNode) /\ Len(last) = IF k + 1 <= L THEN L - (k + 1) + 1 ELSE 0
        /\ \A j \in 1..(L - (k + 1) + 1) : last[j] = l[(k + 1) + j - 1]
    BY <2>1, SubSeqProperties
  <2>3. L - (k + 1) + 1 = L - k /\ k + 1 <= L /\ \A j \in 1..(L - k) : (k + 1) + j - 1 = k + j
    BY <1>1, <1>2
  <2> QED  BY <2>2, <2>3
<1> HIDE DEF first, mid, last
<1> DEFINE front == first \o mid
<1>11. front \in Seq(HeapNode) /\ Len(front) = k + 1
       /\ (\A j \in 1..(k - 1) : front[j] = l[j]) /\ front[k] = used /\ front[k + 1] = rest
  <2>1. /\ front \in Seq(HeapNode) /\ Len(front) = Len(first) + Len(mid)
        /\ \A i \in 1..(Len(first) + Len(mid)) :
              front[i] = IF i <= Len(first) THEN first[i] ELSE mid[i - Len(first)]
    BY <1>8, <1>9, ConcatProperties
  <2>2. Len(first) = k - 1 /\ Len(mid) = 2 /\ (k - 1) + 2 = k + 1
    BY <1>2, <1>8, <1>9
  <2>3. \A j \in 1..(k - 1) : front[j] = l[j]
    BY <1>2, <1>9, <2>1, <2>2
  <2>4. front[k] = mid[1]
    BY <1>2, <2>1, <2>2
  <2>5. front[k + 1] = mid[2]
    BY <1>2, <2>1, <2>2
  <2> QED  BY <1>8, <2>1, <2>2, <2>3, <2>4, <2>5
<1> HIDE DEF front
<1> DEFINE m == front \o last
<1>12. m \in Seq(HeapNode) /\ Len(m) = L + 1
       /\ (\A j \in 1..(k + 1) : m[j] = front[j])
       /\ (\A j \in (k + 1)..L : m[j + 1] = l[j])
  <2>1. /\ m \in Seq(HeapNode) /\ Len(m) = Len(front) + Len(last)
        /\ \A i \in 1..(Len(front) + Len(last)) :
              m[i] = IF i <= Len(front) THEN front[i] ELSE last[i - Len(front)]
    BY <1>10, <1>11, ConcatProperties
  <2>2. Len(front) = k + 1 /\ Len(last) = L - k /\ (k + 1) + (L - k) = L + 1
    BY <1>1, <1>2, <1>10, <1>11
  <2>3. \A j \in 1..(k + 1) : m[j] = front[j]
    BY <1>1, <1>2, <2>1, <2>2
  <2>4. ASSUME NEW j \in (k + 1)..L PROVE m[j + 1] = l[j]
    <3>1. j + 1 \in 1..(L + 1) /\ ~(j + 1 <= k + 1) /\ (j + 1) - (k + 1) = j - k
          /\ j - k \in 1..(L - k) /\ k + (j - k) = j
      BY <1>1, <1>2
    <3> QED  BY <1>10, <2>1, <2>2, <3>1
  <2> QED  BY <2>1, <2>2, <2>3, <2>4
<1>13. (\A j \in 1..(k - 1) : m[j] = l[j]) /\ m[k] = used /\ m[k + 1] = rest
  <2>1. k \in 1..(k + 1) /\ k + 1 \in 1..(k + 1) /\ \A j \in 1..(k - 1) : j \in 1..(k + 1)
    BY <1>2
  <2> QED  BY <1>11, <1>12, <2>1
<1>14. Cut(l, k, size) = m
  BY <1>7 DEF front
<1>15. used.at + HEADER_SIZE + used.size = rest.at
       /\ rest.at + HEADER_SIZE + rest.size = l[k].at + HEADER_SIZE + l[k].size
  BY <1>6
<1>16. used = UsedPart(l, k, size) /\ rest = FreePart(l, k, size)
  BY DEF used, rest, UsedPart, FreePart
<1> HIDE DEF m
<1> QED
  BY <1>2, <1>5, <1>12, <1>13, <1>14, <1>15, <1>16 DEF Behind

(* Cutting a node lends its first part.                                    *)
LEMMA CutKeeps ==
    ASSUME NEW l, NEW end, NEW given, NEW k, NEW size \in Nat, NEW asked \in Nat,
           HeapOf(l, end, given), k \in Cuts(l, size), asked <= size
    PROVE  HeapOf(Cut(l, k, size), end,
                  given \cup {[at |-> l[k].at + HEADER_SIZE, size |-> asked]})
<1> DEFINE m == Cut(l, k, size)
           L == Len(l)
           used == UsedPart(l, k, size)
           rest == FreePart(l, k, size)
<1>1. IsList(l) /\ L \in Nat \ {0} /\ TiledTo(l, end) /\ LentFrom(l, given)
  BY DEF HeapOf, IsList
<1>2. /\ k \in 2..(L - 1) /\ l[k].free
      /\ Behind(used) = rest.at /\ Behind(rest) = Behind(l[k])
      /\ m \in Seq(HeapNode) /\ Len(m) = L + 1
      /\ \A j \in 1..(k - 1) : m[j] = l[j]
      /\ m[k] = used /\ m[k + 1] = rest
      /\ \A j \in (k + 1)..L : m[j + 1] = l[j]
  BY <1>1, CutFacts
<1>3. used.at = l[k].at /\ used.size = size /\ ~used.free /\ rest.free
  BY DEF UsedPart, FreePart
<1> HIDE DEF m, used, rest
<1>4. IsList(m)
  <2>1. m[1] = l[1]
    BY <1>1, <1>2
  <2> QED  BY <1>1, <1>2, <2>1 DEF IsList
<1>5. TiledTo(m, end)
  <2> SUFFICES ASSUME NEW j \in 1..L + 1
               PROVE  Behind(m[j]) = IF j = L + 1 THEN end ELSE m[j + 1].at
    BY <1>2 DEF TiledTo
  <2>1. CASE j \in 1..(k - 2)
    <3>1. m[j] = l[j] /\ m[j + 1] = l[j + 1] /\ Behind(l[j]) = l[j + 1].at
      BY <1>1, <1>2, <2>1 DEF TiledTo
    <3> QED  BY <1>1, <1>2, <2>1, <3>1
  <2>2. CASE j = k - 1
    <3>1. m[j] = l[j] /\ m[j + 1] = used /\ Behind(l[j]) = l[k].at /\ j # L + 1
      BY <1>1, <1>2, <2>2 DEF TiledTo
    <3> QED  BY <1>3, <3>1
  <2>3. CASE j = k
    <3>1. j # L + 1
      BY <1>1, <1>2, <2>3
    <3> QED  BY <1>2, <2>3, <3>1
  <2>4. CASE j = k + 1
    <3>1. j # L + 1 /\ m[j + 1] = l[k + 1] /\ Behind(l[k]) = l[k + 1].at
      BY <1>1, <1>2, <2>4 DEF TiledTo
    <3> QED  BY <1>2, <2>4, <3>1
  <2>5. CASE j \in (k + 2)..L
    <3>1. /\ j - 1 \in (k + 1)..L /\ (j - 1) + 1 = j /\ j \in (k + 1)..L /\ j # L + 1
          /\ j - 1 \in 1..L /\ j - 1 # L
      BY <1>1, <1>2, <2>5
    <3>2. m[j] = l[j - 1] /\ m[j + 1] = l[j] /\ Behind(l[j - 1]) = l[j].at
      BY <1>1, <1>2, <3>1 DEF TiledTo
    <3> QED  BY <3>1, <3>2
  <2>6. CASE j = L + 1
    <3>1. L \in (k + 1)..L /\ m[j] = l[L]
      BY <1>1, <1>2, <2>6
    <3>2. Behind(l[L]) = end
      BY <1>1 DEF TiledTo
    <3> QED  BY <2>6, <3>1, <3>2
  <2>7. \/ j \in 1..(k - 2) \/ j = k - 1 \/ j = k
        \/ j = k + 1 \/ j \in (k + 2)..L \/ j = L + 1
    <3>1. L \in Nat /\ k \in 2..(L - 1)
      BY <1>1, <1>2
    <3> HIDE DEF L
    <3> QED  BY <3>1
  <2> QED  BY <2>1, <2>2, <2>3, <2>4, <2>5, <2>6, <2>7
<1>6. ASSUME NEW i \in 2..L, ~l[i].free
      PROVE  \E j \in 2..Len(m) : j # k /\ m[j] = l[i]
  <2>1. i # k
    BY <1>2, <1>6
  <2>2. CASE i < k
    <3>1. i \in 1..(k - 1) /\ i \in 2..Len(m)
      BY <1>1, <1>2, <2>2
    <3> QED  BY <1>2, <2>1, <3>1
  <2>3. CASE i > k
    <3>1. i \in (k + 1)..L /\ i + 1 \in 2..Len(m) /\ i + 1 # k
      BY <1>1, <1>2, <2>3
    <3> QED  BY <1>2, <3>1
  <2> QED  BY <1>2, <2>1, <2>2, <2>3
<1>7. ASSUME NEW j \in 2..Len(m), j # k, ~m[j].free
      PROVE  \E i \in 2..L : l[i] = m[j]
  <2>1. j # k + 1
    BY <1>2, <1>3, <1>7
  <2>2. CASE j < k
    <3>1. j \in 1..(k - 1) /\ j \in 2..L
      BY <1>1, <1>2, <2>2
    <3> QED  BY <1>2, <3>1
  <2>3. CASE j > k
    <3>1. j - 1 \in (k + 1)..L /\ j - 1 \in 2..L /\ (j - 1) + 1 = j
      BY <1>1, <1>2, <2>1, <2>3
    <3> QED  BY <1>2, <3>1
  <2> QED  BY <1>2, <1>7, <2>2, <2>3
<1>8. k \in 2..Len(m) /\ k \in Nat /\ ~m[k].free /\ asked <= m[k].size /\ m[k].at = l[k].at
  BY <1>1, <1>2, <1>3
<1>9. LentFrom(m, given \cup {[at |-> l[k].at + HEADER_SIZE, size |-> asked]})
  BY <1>1, <1>4, <1>5, <1>6, <1>7, <1>8, LentWith
<1> QED
  BY <1>4, <1>5, <1>9 DEF HeapOf, m

(* So does a node put at the list's end.                                   *)
LEMMA AppendLends ==
    ASSUME NEW l, NEW end \in Nat, NEW given, NEW size \in Nat, NEW asked \in Nat,
           HeapOf(l, end, given), asked <= size
    PROVE  HeapOf(Append(l, [at |-> end, size |-> size, free |-> FALSE]),
                  end + HEADER_SIZE + size,
                  given \cup {[at |-> end + HEADER_SIZE, size |-> asked]})
<1> DEFINE new == [at |-> end, size |-> size, free |-> FALSE]
           m == Append(l, new)
           L == Len(l)
<1>1. IsList(l) /\ l \in Seq(HeapNode) /\ L \in Nat \ {0} /\ TiledTo(l, end) /\ LentFrom(l, given)
  BY DEF HeapOf, IsList
<1>2. /\ new \in HeapNode /\ new.at = end /\ new.size = size /\ ~new.free
      /\ Behind(new) = end + HEADER_SIZE + size
  BY NodeFields DEF Behind
<1> HIDE DEF new
<1>3. m \in Seq(HeapNode) /\ Len(m) = L + 1 /\ m[L + 1] = new /\ \A j \in 1..L : m[j] = l[j]
  BY <1>1, <1>2, AppendProperties
<1> HIDE DEF m
<1>4. IsList(m)
  BY <1>1, <1>3 DEF IsList
<1>5. TiledTo(m, end + HEADER_SIZE + size)
  <2> SUFFICES ASSUME NEW j \in 1..L + 1
               PROVE  Behind(m[j]) = IF j = L + 1 THEN end + HEADER_SIZE + size ELSE m[j + 1].at
    BY <1>3 DEF TiledTo
  <2>1. CASE j \in 1..L - 1
    <3>1. m[j] = l[j] /\ m[j + 1] = l[j + 1] /\ Behind(l[j]) = l[j + 1].at /\ j # L + 1
      BY <1>1, <1>3, <2>1 DEF TiledTo
    <3> QED  BY <3>1
  <2>2. CASE j = L
    <3>1. m[j] = l[L] /\ m[j + 1] = new /\ Behind(l[L]) = end /\ j # L + 1
      BY <1>1, <1>3, <2>2 DEF TiledTo
    <3> QED  BY <1>2, <3>1
  <2>3. CASE j = L + 1
    BY <1>2, <1>3, <2>3
  <2> QED  BY <1>1, <2>1, <2>2, <2>3
<1>6. ASSUME NEW i \in 2..L, ~l[i].free
      PROVE  \E j \in 2..Len(m) : j # L + 1 /\ m[j] = l[i]
  BY <1>1, <1>3
<1>7. ASSUME NEW j \in 2..Len(m), j # L + 1, ~m[j].free
      PROVE  \E i \in 2..L : l[i] = m[j]
  <2>1. j \in 2..L /\ j \in 1..L
    BY <1>1, <1>3, <1>7
  <2> QED  BY <1>3, <2>1
<1>8. L + 1 \in 2..Len(m) /\ L + 1 \in Nat /\ ~m[L + 1].free /\ asked <= m[L + 1].size
      /\ m[L + 1].at = end
  BY <1>1, <1>2, <1>3
<1>9. LentFrom(m, given \cup {[at |-> end + HEADER_SIZE, size |-> asked]})
  BY <1>1, <1>4, <1>5, <1>6, <1>7, <1>8, LentWith
<1> QED
  BY <1>4, <1>5, <1>9 DEF HeapOf, m, new

(* A block that comes back: its node is marked free, in its place.         *)
LEMMA FreeKeeps ==
    ASSUME NEW l, NEW end, NEW given, NEW b \in given, HeapOf(l, end, given)
    PROVE  HeapOf([k \in DOMAIN l |-> IF l[k].at + HEADER_SIZE = b.at
                                      THEN [l[k] EXCEPT !.free = TRUE] ELSE l[k]],
                  end, given \ {b})
<1> DEFINE m == [k \in DOMAIN l |-> IF l[k].at + HEADER_SIZE = b.at
                                    THEN [l[k] EXCEPT !.free = TRUE] ELSE l[k]]
           L == Len(l)
<1>1. /\ IsList(l) /\ l \in Seq(HeapNode) /\ L \in Nat \ {0} /\ DOMAIN l = 1..L
      /\ TiledTo(l, end) /\ LentFrom(l, given) /\ HEADER_SIZE \in Nat \ {0}
      /\ \A k \in 1..L : l[k] \in HeapNode
  BY AllocAssumption, LenProperties, ElementOfSeq DEF HeapOf, IsList
<1>2. \A k \in 1..L : l[k].at \in Nat /\ l[k].size \in Nat
  BY <1>1, NodeFields
<1>3. PICK i \in 2..L : Backs(l[i], b)
  BY <1>1 DEF LentFrom
<1>4. \A k \in 1..L : l[k].at + HEADER_SIZE = b.at <=> k = i
  <2> SUFFICES ASSUME NEW k \in 1..L, k # i PROVE l[k].at + HEADER_SIZE # b.at
    BY <1>3 DEF Backs
  <2>1. i \in 1..L /\ (k < i \/ i < k)
    BY <1>1
  <2>2. l[k].at # l[i].at
    BY <1>1, <1>2, <2>1, TiledIsOrdered
  <2> QED  BY <1>1, <1>2, <1>3, <2>1, <2>2 DEF Backs
<1>5. m = [k \in 1..L |-> m[k]]
      /\ \A k \in 1..L : m[k] = IF k = i THEN [l[k] EXCEPT !.free = TRUE] ELSE l[k]
  BY <1>1, <1>4
<1> HIDE DEF m
<1>6. PICK new : new = [l[i] EXCEPT !.free = TRUE]
  OBVIOUS
<1>7. new \in HeapNode /\ new.at = l[i].at /\ new.size = l[i].size /\ new.free
  <2>1. i \in 1..L
    BY <1>1
  <2>2. l[i] \in HeapNode
    BY <1>1, <2>1
  <2>3. PICK p : p = l[i]
    OBVIOUS
  <2>4. p = [at |-> p.at, size |-> p.size, free |-> p.free]
    BY <2>2, <2>3 DEF HeapNode
  <2>5. new = [at |-> p.at, size |-> p.size, free |-> TRUE]
    BY <1>6, <2>3, <2>4
  <2>6. new.at = p.at /\ new.size = p.size /\ new.free = TRUE
    BY <2>5
  <2>7. new \in HeapNode
    BY <2>2, <2>3, <2>5, NodeFields
  <2> QED  BY <2>3, <2>6, <2>7
<1>8. m[i] = new /\ \A k \in 1..L : k # i => m[k] = l[k]
  <2>1. i \in 1..L
    BY <1>1
  <2> QED  BY <1>5, <1>6, <2>1
<1>9. m \in Seq(HeapNode) /\ Len(m) = L
  <2>2. \A k \in 1..L : m[k] \in HeapNode
    BY <1>1, <1>7, <1>8
  <2>3. m \in [1..L -> HeapNode]
    BY <1>5, <2>2
  <2>4. m \in Seq(HeapNode)
    BY <1>1, <2>3
  <2>5. L \in Nat
    BY <1>1
  <2>6. Len(m) = L
    BY <2>3, <2>4, <2>5, LenProperties
  <2> QED  BY <2>4, <2>6
<1>10. IsList(m)
  <2>1. m[1] = l[1]
    BY <1>1, <1>8
  <2> QED  BY <1>1, <1>9, <2>1 DEF IsList
<1>11. \A k \in 1..L : m[k].at = l[k].at /\ Behind(m[k]) = Behind(l[k])
  BY <1>7, <1>8 DEF Behind
<1>12. TiledTo(m, end)
  <2> SUFFICES ASSUME NEW k \in 1..L
               PROVE  Behind(m[k]) = IF k = L THEN end ELSE m[k + 1].at
    BY <1>9 DEF TiledTo
  <2>1. Behind(l[k]) = IF k = L THEN end ELSE l[k + 1].at
    BY <1>1 DEF TiledTo
  <2>2. L \in Nat
    BY <1>1
  <2>3. k # L => k + 1 \in 1..L
    BY <2>2
  <2> QED  BY <1>11, <2>1, <2>3
<1>13. ASSUME NEW c \in given \ {b} PROVE \E k \in 2..L : Backs(m[k], c)
  <2>1. PICK k \in 2..L : Backs(l[k], c)
    BY <1>1 DEF LentFrom
  <2>2. k # i
    BY <1>1, <1>3, <2>1 DEF Backs, LentFrom
  <2>3. m[k] = l[k]
    BY <1>1, <1>8, <2>2
  <2> QED  BY <2>1, <2>3
<1>14. ASSUME NEW k \in 2..L, ~m[k].free PROVE \E c \in given \ {b} : Backs(m[k], c)
  <2>1. k # i /\ m[k] = l[k] /\ k \in 1..L
    BY <1>1, <1>7, <1>8, <1>14
  <2>2. PICK c \in given : Backs(l[k], c)
    BY <1>1, <1>14, <2>1 DEF LentFrom
  <2>3. c # b
    BY <1>4, <2>1, <2>2 DEF Backs
  <2> QED  BY <2>1, <2>2, <2>3
<1>15. LentFrom(m, given \ {b})
  <2>1. given \ {b} \subseteq [at : Nat, size : Nat]
    BY <1>1 DEF LentFrom
  <2>2. \A c, d \in given \ {b} : c.at = d.at => c = d
    BY <1>1 DEF LentFrom
  <2> QED  BY <1>9, <1>13, <1>14, <2>1, <2>2 DEF LentFrom
<1> QED
  BY <1>10, <1>12, <1>15 DEF HeapOf, m

(* The heap's list and blocks after any steps.                             *)
HeapInv ==
    /\ HeapOf(nodes, heapPointer, lent)
    /\ heapPointer \in Nat /\ heapPointer <= maxHeapSize

(* The head alone is a list.                                               *)
LEMMA HeapStarts == HeapInit => HeapInv
<1> SUFFICES ASSUME HeapInit PROVE HeapInv
  OBVIOUS
<1> DEFINE head == [at |-> 0, size |-> 0, free |-> FALSE]
<1>1. head \in HeapNode /\ head.at = 0 /\ head.size = 0 /\ ~head.free
  BY NodeFields
<1>2. nodes = <<head>> /\ heapPointer = HEADER_SIZE /\ lent = {}
  BY DEF HeapInit
<1> HIDE DEF head
<1>3. nodes \in Seq(HeapNode) /\ Len(nodes) = 1 /\ nodes[1] = head
  BY <1>1, <1>2
<1>4. HEADER_SIZE \in Nat /\ HEADER_SIZE <= maxHeapSize
  BY AllocAssumption
<1>5. IsList(nodes)
  BY <1>1, <1>3 DEF IsList
<1>6. TiledTo(nodes, heapPointer)
  BY <1>1, <1>2, <1>3, <1>4 DEF TiledTo, Behind
<1>7. LentFrom(nodes, lent)
  BY <1>2, <1>3 DEF LentFrom
<1> QED
  BY <1>2, <1>4, <1>5, <1>6, <1>7 DEF HeapInv, HeapOf

(* malloc, whether it cuts a node, puts one at the end or gives up.        *)
LEMMA MallocKeeps ==
    ASSUME NEW asked \in Asked, HeapInv, malloc(asked)
    PROVE  HeapInv'
<1> DEFINE size == IF asked <= minMemSize THEN minMemSize ELSE asked
           clean == Cleaned(nodes)
<1>1. /\ size \in Nat /\ asked \in Nat /\ asked <= size /\ HEADER_SIZE \in Nat
      /\ maxHeapSize \in Nat
  BY AllocAssumption
<1>2. HeapOf(clean, heapPointer, lent) /\ heapPointer \in Nat /\ heapPointer <= maxHeapSize
  BY CleanedKeeps DEF HeapInv
<1>3. \/ \E k \in Cuts(clean, size) :
           /\ nodes' = Cut(clean, k, size) /\ Holds(clean[k].at, asked)
           /\ UNCHANGED heapPointer
      \/ /\ size + HEADER_SIZE < maxHeapSize - heapPointer
         /\ nodes' = Append(clean, [at |-> heapPointer, size |-> size, free |-> FALSE])
         /\ Holds(heapPointer, asked)
         /\ heapPointer' = heapPointer + HEADER_SIZE + size
      \/ nodes' = clean /\ UNCHANGED <<heapPointer, lent>>
  BY DEF malloc
<1> HIDE DEF size, clean
<1>4. ASSUME NEW k \in Cuts(clean, size), nodes' = Cut(clean, k, size),
             Holds(clean[k].at, asked), UNCHANGED heapPointer
      PROVE  HeapInv'
  BY <1>1, <1>2, <1>4, CutKeeps DEF HeapInv, Holds
<1>5. ASSUME size + HEADER_SIZE < maxHeapSize - heapPointer,
             nodes' = Append(clean, [at |-> heapPointer, size |-> size, free |-> FALSE]),
             Holds(heapPointer, asked), heapPointer' = heapPointer + HEADER_SIZE + size
      PROVE  HeapInv'
  <2>1. HeapOf(nodes', heapPointer', lent')
    BY <1>1, <1>2, <1>5, AppendLends DEF Holds
  <2>2. heapPointer' \in Nat /\ heapPointer' <= maxHeapSize
    BY <1>1, <1>2, <1>5
  <2> QED  BY <2>1, <2>2 DEF HeapInv
<1>6. ASSUME nodes' = clean, UNCHANGED <<heapPointer, lent>> PROVE HeapInv'
  BY <1>2, <1>6 DEF HeapInv
<1> QED
  BY <1>3, <1>4, <1>5, <1>6

(* Every step of the heap keeps it.                                        *)
LEMMA HeapStepKeeps ==
    ASSUME HeapInv, HeapStep
    PROVE  HeapInv'
<1>1. ASSUME NEW block \in lent, free(block) PROVE HeapInv'
  <2>1. HeapOf(nodes, heapPointer, lent)
    BY DEF HeapInv
  <2>2. /\ nodes' = [k \in DOMAIN nodes |->
                        IF nodes[k].at + HEADER_SIZE = block.at
                        THEN [nodes[k] EXCEPT !.free = TRUE] ELSE nodes[k]]
        /\ lent' = lent \ {block} /\ heapPointer' = heapPointer
    BY <1>1 DEF free
  <2>3. HeapOf(nodes', heapPointer, lent')
    BY <2>1, <2>2, FreeKeeps
  <2> QED  BY <2>2, <2>3 DEF HeapInv
<1> QED
  BY <1>1, MallocKeeps DEF HeapStep

(* The invariant tells what the runs check: there are as many blocks as    *)
(* used nodes, each behind one.                                            *)
LEMMA HeapInvTells == HeapInv => BlocksOfTheHeap
<1> SUFFICES ASSUME HeapInv PROVE BlocksOfTheHeap
  OBVIOUS
<1>1. /\ IsList(nodes) /\ TiledTo(nodes, heapPointer) /\ LentFrom(nodes, lent)
      /\ Len(nodes) \in Nat /\ HEADER_SIZE \in Nat
  BY AllocAssumption DEF HeapInv, HeapOf, IsList
<1>2. Tiled
  BY <1>1 DEF Tiled, HeapInv, TiledTo, Behind
<1> DEFINE usedNodes == {k \in 2..Len(nodes) : ~nodes[k].free}
           node == [b \in lent |-> CHOOSE k \in usedNodes : Backs(nodes[k], b)]
<1>3. \A b \in lent : \E k \in usedNodes : Backs(nodes[k], b)
  BY <1>1 DEF LentFrom, Backs
<1>4. \A b \in lent : node[b] \in usedNodes /\ Backs(nodes[node[b]], b)
  BY <1>3
<1>5. node \in [lent -> usedNodes]
  BY <1>4
<1>6. \A b, c \in lent : node[b] = node[c] => b = c
  <2> HIDE DEF node
  <2> QED  BY <1>1, <1>4 DEF LentFrom, Backs
<1>7. ASSUME NEW k \in usedNodes PROVE \E b \in lent : node[b] = k
  <2>1. PICK b \in lent : Backs(nodes[k], b)
    BY <1>1 DEF LentFrom
  <2>2. node[b] \in usedNodes /\ Backs(nodes[node[b]], b)
    BY <1>4
  <2>3. PICK j : j = node[b]
    OBVIOUS
  <2>4. j \in 1..Len(nodes) /\ k \in 1..Len(nodes)
    BY <1>1, <2>2, <2>3
  <2>5. nodes[j].at \in Nat /\ nodes[k].at \in Nat
    <3>1. nodes[j] \in HeapNode /\ nodes[k] \in HeapNode
      BY <1>1, <2>4, ElementOfSeq DEF IsList
    <3> QED  BY <3>1, NodeFields
  <2>6. nodes[j].at = nodes[k].at
    BY <1>1, <2>1, <2>2, <2>3, <2>5 DEF Backs
  <2>7. ~(j < k) /\ ~(k < j)
    BY <1>1, <2>4, <2>5, <2>6, TiledIsOrdered
  <2>8. j = k
    BY <2>4, <2>7
  <2> QED  BY <2>3, <2>8
<1> HIDE DEF node
<1>8. node \in Bijection(lent, usedNodes)
  <2>1. DOMAIN node = lent
    BY <1>5
  <2>2. node \in Injection(lent, usedNodes)
    BY <1>5, <1>6, <2>1 DEF Injection, IsInjective
  <2>3. node \in Surjection(lent, usedNodes)
    BY <1>5, <1>7 DEF Surjection
  <2> QED  BY <2>2, <2>3 DEF Bijection
<1>9. IsFiniteSet(usedNodes)
  <2>1. IsFiniteSet(2..Len(nodes))
    BY <1>1, FS_Interval
  <2> QED  BY <2>1, FS_Subset
<1>10. Cardinality(lent) = Cardinality(usedNodes)
  <2> HIDE DEF usedNodes
  <2>1. ExistsBijection(lent, usedNodes)
    BY <1>8 DEF ExistsBijection
  <2>2. ExistsBijection(usedNodes, lent)
    BY <2>1, Fun_ExistsBijSymmetric
  <2> QED  BY <1>9, <2>2, FS_Bijection
<1>11. HeldHasRoom
  BY <1>1, <1>10 DEF HeldHasRoom, LentFrom, Backs
<1> QED
  BY <1>2, <1>11 DEF BlocksOfTheHeap
-----------------------------------------------------------------------------
(* Vectors and strings.                                                    *)

Elements == (UNION {Range(text) : text \in Texts}) \cup {NUL, junk}

Vec == [block : Nat, pages : Nat, data : Seq(Elements)]

(* What operator= of a text and of a string keep.                          *)
Copy ==
    {Idle} \cup [on : {TRUE}, to : Strings, text : Seq(Elements), i : Nat]
           \cup [on : {TRUE}, to : Strings, from : Strings, i : Nat]

VectorTypes ==
    /\ vecs \in [Strings -> Vec]
    /\ \A s \in Strings : vecs[s].block # 0 => vecs[s].pages \in Nat \ {0}
    /\ blocks = [b \in DOMAIN blocks |-> blocks[b]]
    /\ pushed \in [Strings -> Seq(Elements)]
    /\ copying \in Copy
    /\ copying.on => /\ vecs[copying.to].block # 0
                     /\ "from" \in DOMAIN copying => vecs[copying.from].block # 0

VectorInv == VectorTypes /\ PushedIsKept /\ BlocksAreStrings

(* There is a number for a new block: each string has one at most.         *)
LEMMA NewBlockIsNew ==
    ASSUME VectorInv
    PROVE  NewBlock \in Nat \ {0} /\ NewBlock \notin DOMAIN blocks
<1> DEFINE n == Cardinality(Strings)
           T == {vecs[s].block : s \in Strings}
           f == [s \in Strings |-> vecs[s].block]
<1>1. IsFiniteSet(Strings) /\ n \in Nat
  BY VectorAssumption, FS_CardinalityType
<1>2. f \in Surjection(Strings, T)
  BY DEF Surjection
<1>3. IsFiniteSet(T) /\ Cardinality(T) <= n /\ Cardinality(T) \in Nat
  <2> HIDE DEF f, T
  <2> QED  BY <1>1, <1>2, FS_Surjection, FS_CardinalityType
<1>4. DOMAIN blocks \subseteq T
  BY DEF VectorInv, BlocksAreStrings
<1> HIDE DEF T, n
<1>5. ASSUME 1..(n + 1) \subseteq DOMAIN blocks PROVE FALSE
  <2>1. 1..(n + 1) \in SUBSET T
    BY <1>4, <1>5
  <2>2. Cardinality(1..(n + 1)) <= Cardinality(T)
    BY <1>3, <2>1, FS_Subset
  <2>3. 1 \in Int /\ n + 1 \in Int /\ ~(1 > n + 1)
    BY <1>1
  <2>4. Cardinality(1..(n + 1)) = (n + 1) - 1 + 1
    BY <2>3, FS_Interval
  <2> QED  BY <1>1, <1>3, <2>2, <2>4
<1>6. \E b \in 1..(n + 1) : b \notin DOMAIN blocks
  BY <1>5
<1>7. NewBlock \in 1..(n + 1) /\ NewBlock \notin DOMAIN blocks
  BY <1>6 DEF NewBlock, n
<1> QED
  BY <1>1, <1>7

(* The source of a copy is a sequence of elements.                         *)
LEMMA SourceType ==
    ASSUME VectorTypes, copying.on
    PROVE  Source \in Seq(Elements) /\ copying.to \in Strings /\ copying.i \in Nat
<1>1. CASE copying \in [on : {TRUE}, to : Strings, text : Seq(Elements), i : Nat]
  <2>1. copying.text \in Seq(Elements) /\ copying.to \in Strings /\ copying.i \in Nat
        /\ "text" \in DOMAIN copying
    BY <1>1
  <2> QED  BY <2>1 DEF Source
<1>2. CASE copying \in [on : {TRUE}, to : Strings, from : Strings, i : Nat]
  <2>1. copying.from \in Strings /\ copying.to \in Strings /\ copying.i \in Nat
        /\ "text" \notin DOMAIN copying
    BY <1>2
  <2>2. vecs[copying.from].data \in Seq(Elements)
    BY <2>1 DEF VectorTypes, Vec
  <2> QED  BY <2>1, <2>2 DEF Source
<1>3. copying # Idle
  BY DEF Idle
<1> QED
  BY <1>1, <1>2, <1>3 DEF VectorTypes, Copy

(* The string that is copied is one.                                       *)
LEMMA FromType ==
    ASSUME VectorTypes, "from" \in DOMAIN copying
    PROVE  copying.from \in Strings
<1>1. PICK a : a = copying
  OBVIOUS
<1>2. a \notin [on : {TRUE}, to : Strings, text : Seq(Elements), i : Nat]
  <2>1. ASSUME a \in [on : {TRUE}, to : Strings, text : Seq(Elements), i : Nat] PROVE FALSE
    <3>1. DOMAIN a = {"on", "to", "text", "i"}
      BY <2>1
    <3> QED  BY <1>1, <3>1
  <2> QED  BY <2>1
<1>3. a # Idle
  BY <1>1 DEF Idle
<1>4. a \in [on : {TRUE}, to : Strings, from : Strings, i : Nat]
  BY <1>1, <1>2, <1>3 DEF VectorTypes, Copy
<1> QED
  BY <1>1, <1>4

(* A string has a vector now, with an empty page.                          *)
LEMMA ConstructKeeps ==
    ASSUME VectorInv, NEW s \in Strings, Construct(s)
    PROVE  VectorInv'
<1> DEFINE b == NewBlock
           v == [block |-> b, pages |-> 1, data |-> <<>>]
<1>1. b \in Nat \ {0} /\ b \notin DOMAIN blocks
  BY NewBlockIsNew
<1>2. v \in Vec /\ v.block = b /\ v.pages = 1 /\ v.data = <<>> /\ Len(v.data) = 0
  BY <1>1 DEF Vec
<1>3. /\ ~copying.on /\ vecs[s].block = 0 /\ pushed[s] = <<>>
      /\ vecs' = [vecs EXCEPT ![s] = v]
      /\ blocks' = [x \in DOMAIN blocks \cup {b} |-> IF x = b THEN 1 ELSE blocks[x]]
      /\ pushed' = pushed /\ copying' = copying
  BY DEF Construct, With
<1> HIDE DEF b, v
<1>4. vecs' \in [Strings -> Vec] /\ vecs'[s] = v /\ \A t \in Strings : t # s => vecs'[t] = vecs[t]
  BY <1>2, <1>3 DEF VectorInv, VectorTypes
<1>5. VectorTypes'
  BY <1>2, <1>3, <1>4 DEF VectorInv, VectorTypes
<1>6. PushedIsKept'
  BY <1>2, <1>3, <1>4, VectorAssumption DEF VectorInv, PushedIsKept, Grown
<1>7. BlocksAreStrings'
  <2>1. \A t \in Strings : vecs[t].block # 0 => vecs[t].block \in DOMAIN blocks
    BY DEF VectorInv, BlocksAreStrings
  <2>2. DOMAIN blocks' = DOMAIN blocks \cup {b}
    BY <1>3
  <2>3. DOMAIN blocks' = {vecs'[t].block : t \in Strings} \ {0}
    BY <1>1, <1>2, <1>3, <1>4, <2>2 DEF VectorInv, BlocksAreStrings
  <2>4. ASSUME NEW t \in Strings, vecs'[t].block # 0
        PROVE  blocks'[vecs'[t].block] = vecs'[t].pages
    BY <1>1, <1>2, <1>3, <1>4, <2>1, <2>4 DEF VectorInv, BlocksAreStrings
  <2>5. ASSUME NEW t \in Strings, NEW r \in Strings, vecs'[t].block = vecs'[r].block,
               vecs'[t].block # 0
        PROVE  t = r
    BY <1>1, <1>2, <1>4, <2>1, <2>5 DEF VectorInv, BlocksAreStrings
  <2> QED  BY <2>3, <2>4, <2>5 DEF BlocksAreStrings
<1> QED
  BY <1>5, <1>6, <1>7 DEF VectorInv

(* A string that is freed hands its block back.                            *)
LEMMA FreeStringKeeps ==
    ASSUME VectorInv, NEW s \in Strings, FreeString(s)
    PROVE  VectorInv'
<1> DEFINE b == vecs[s].block
<1>1. /\ ~copying.on /\ b # 0
      /\ vecs' = [vecs EXCEPT ![s] = Unused]
      /\ blocks' = [x \in DOMAIN blocks \ {b} |-> blocks[x]]
      /\ pushed' = [pushed EXCEPT ![s] = <<junk>>] /\ copying' = copying
  BY DEF FreeString, Without
<1>2. Unused \in Vec /\ Unused.block = 0 /\ Len(Unused.data) = 0 /\ <<junk>> \in Seq(Elements)
  BY DEF Unused, Vec, Elements
<1>3. /\ vecs' \in [Strings -> Vec] /\ vecs'[s] = Unused
      /\ \A t \in Strings : t # s => vecs'[t] = vecs[t]
  BY <1>1, <1>2 DEF VectorInv, VectorTypes
<1>4. pushed' \in [Strings -> Seq(Elements)] /\ \A t \in Strings : t # s => pushed'[t] = pushed[t]
  BY <1>1, <1>2 DEF VectorInv, VectorTypes
<1> HIDE DEF b
<1>5. VectorTypes'
  BY <1>1, <1>2, <1>3, <1>4 DEF VectorInv, VectorTypes
<1>6. PushedIsKept'
  BY <1>2, <1>3, <1>4, VectorAssumption DEF VectorInv, PushedIsKept, Grown
<1>7. BlocksAreStrings'
  <2>1. \A t \in Strings : t # s => vecs[t].block # b
    BY <1>1 DEF VectorInv, BlocksAreStrings, b
  <2>2. DOMAIN blocks' = DOMAIN blocks \ {b}
    BY <1>1
  <2>3. DOMAIN blocks' = {vecs'[t].block : t \in Strings} \ {0}
    BY <1>1, <1>2, <1>3, <2>1, <2>2 DEF VectorInv, BlocksAreStrings, b
  <2>4. ASSUME NEW t \in Strings, vecs'[t].block # 0
        PROVE  blocks'[vecs'[t].block] = vecs'[t].pages
    <3>1. t # s /\ vecs'[t] = vecs[t]
      BY <1>2, <1>3, <2>4
    <3>2. vecs[t].block \in DOMAIN blocks \ {b}
      BY <2>1, <2>4, <3>1 DEF VectorInv, BlocksAreStrings
    <3> QED  BY <1>1, <2>4, <3>1, <3>2 DEF VectorInv, BlocksAreStrings
  <2>5. ASSUME NEW t \in Strings, NEW r \in Strings, vecs'[t].block = vecs'[r].block,
               vecs'[t].block # 0
        PROVE  t = r
    BY <1>2, <1>3, <2>5 DEF VectorInv, BlocksAreStrings
  <2> QED  BY <2>3, <2>4, <2>5 DEF BlocksAreStrings
<1> QED
  BY <1>5, <1>6, <1>7 DEF VectorInv

(* A push into a vector that has room stores the element.                  *)
LEMMA PutKeeps ==
    ASSUME VectorInv, NEW s \in Strings, NEW c \in Elements, vecs[s].block # 0,
           HasRoom(vecs[s]), Put(s, c), pushed' = [pushed EXCEPT ![s] = Append(@, c)]
    PROVE  /\ vecs' \in [Strings -> Vec] /\ pushed' \in [Strings -> Seq(Elements)]
           /\ \A t \in Strings : vecs'[t].block = vecs[t].block /\ vecs'[t].pages = vecs[t].pages
           /\ blocks' = blocks
           /\ PushedIsKept'
<1> DEFINE v == vecs[s]
           d == Append(v.data, c)
<1>1. PICK p, b, x : p = v.pages /\ b = v.block /\ x = v.data
  OBVIOUS
<1>2. /\ p \in Nat /\ b \in Nat /\ x \in Seq(Elements) /\ Len(x) \in Nat
      /\ v = [block |-> b, pages |-> p, data |-> x]
  BY <1>1, LenProperties DEF VectorInv, VectorTypes, Vec
<1>3. Append(x, c) \in Seq(Elements) /\ Len(Append(x, c)) = Len(x) + 1
  BY <1>2, AppendProperties
<1>4. Len(x) < maxData /\ maxData \in Nat
  BY <1>1, VectorAssumption DEF HasRoom
<1>5. blocks' = blocks /\ vecs' = [vecs EXCEPT ![s] = [block |-> b, pages |-> p, data |-> Append(x, c)]]
  <2>1. vecs' = [vecs EXCEPT ![s].data = Append(@, c)] /\ blocks' = blocks
    BY DEF Put
  <2>2. vecs' = [vecs EXCEPT ![s] = [v EXCEPT !.data = Append(x, c)]]
    BY <1>1, <2>1
  <2>3. [[block |-> b, pages |-> p, data |-> x] EXCEPT !.data = Append(x, c)]
            = [block |-> b, pages |-> p, data |-> Append(x, c)]
    <3>1. PICK e : e = Append(x, c)
      OBVIOUS
    <3>2. [[block |-> b, pages |-> p, data |-> x] EXCEPT !.data = e]
              = [block |-> b, pages |-> p, data |-> e]
      OBVIOUS
    <3> QED  BY <3>1, <3>2
  <2> QED  BY <1>2, <2>1, <2>2, <2>3
<1>6. /\ vecs'[s] = [block |-> b, pages |-> p, data |-> Append(x, c)]
      /\ \A t \in Strings : t # s => vecs'[t] = vecs[t]
  BY <1>5 DEF VectorInv, VectorTypes
<1>7. vecs' \in [Strings -> Vec]
  <2>1. [block |-> b, pages |-> p, data |-> Append(x, c)] \in Vec
    BY <1>2, <1>3 DEF Vec
  <2> QED  BY <1>5, <2>1 DEF VectorInv, VectorTypes
<1>8. /\ pushed' \in [Strings -> Seq(Elements)] /\ pushed'[s] = Append(pushed[s], c)
      /\ \A t \in Strings : t # s => pushed'[t] = pushed[t]
  <2>1. pushed \in [Strings -> Seq(Elements)] /\ pushed[s] \in Seq(Elements)
    BY DEF VectorInv, VectorTypes
  <2>2. Append(pushed[s], c) \in Seq(Elements)
    BY <2>1, AppendProperties
  <2> QED  BY <2>1, <2>2
<1>9. PushedIsKept'
  <2> SUFFICES ASSUME NEW t \in Strings
               PROVE  /\ Len(vecs'[t].data) <= maxData
                      /\ vecs'[t].block # 0 /\ ~(vecs'[t].pages > 1) => vecs'[t].data = pushed'[t]
    BY DEF PushedIsKept, Grown
  <2>1. CASE t = s
    <3>1. ~(p > 1) => x = pushed[s]
      BY <1>1 DEF VectorInv, PushedIsKept, Grown
    <3> QED  BY <1>2, <1>3, <1>4, <1>6, <1>8, <2>1, <3>1
  <2>2. CASE t # s
    BY <1>6, <1>8, <2>2 DEF VectorInv, PushedIsKept, Grown
  <2> QED  BY <2>1, <2>2
<1> QED
  BY <1>1, <1>5, <1>6, <1>7, <1>8, <1>9

(* A push into a full one moves it to a block of twice the pages.          *)
LEMMA GrowKeeps ==
    ASSUME VectorInv, NEW s \in Strings, NEW c \in Elements, vecs[s].block # 0,
           Grow(s), pushed' = [pushed EXCEPT ![s] = Append(@, c)]
    PROVE  /\ vecs' \in [Strings -> Vec] /\ pushed' \in [Strings -> Seq(Elements)]
           /\ \A t \in Strings : vecs[t].block # 0 =>
                 vecs'[t].block # 0 /\ vecs'[t].pages \in Nat \ {0}
           /\ \A t \in Strings : vecs[t].block = 0 => vecs'[t].block = 0
           /\ blocks' = [b \in DOMAIN blocks' |-> blocks'[b]]
           /\ PushedIsKept' /\ BlocksAreStrings'
<1>1. PICK p, b, x, n : p = vecs[s].pages /\ b = vecs[s].block /\ x = vecs[s].data /\ n = NewBlock
  OBVIOUS
<1>2. p \in Nat \ {0} /\ b \in Nat \ {0} /\ x \in Seq(Elements) /\ DOMAIN x = 1..Len(x)
      /\ Len(x) \in Nat /\ Len(x) <= maxData
  BY <1>1, LenProperties DEF VectorInv, VectorTypes, Vec, PushedIsKept
<1>3. n \in Nat \ {0} /\ n \notin DOMAIN blocks
  BY <1>1, NewBlockIsNew
<1>4. b \in DOMAIN blocks
  BY <1>1, <1>2 DEF VectorInv, BlocksAreStrings
<1> DEFINE y == [k \in DOMAIN x |-> junk]
           w == [block |-> n, pages |-> 2 * p, data |-> y]
<1>5. y \in Seq(Elements) /\ Len(y) = Len(x)
  <2>1. junk \in Elements
    BY DEF Elements
  <2>2. y \in [1..Len(x) -> Elements]
    BY <1>2, <2>1
  <2>3. y \in Seq(Elements)
    BY <1>2, <2>2
  <2> QED  BY <1>2, <2>2, <2>3, LenProperties
<1> HIDE DEF y
<1>6. w \in Vec /\ w.block = n /\ w.pages = 2 * p /\ w.data = y /\ 2 * p > 1 /\ 2 * p \in Nat \ {0}
  BY <1>2, <1>3, <1>5 DEF Vec
<1>7. /\ vecs' = [vecs EXCEPT ![s] = w]
      /\ blocks' = [z \in (DOMAIN blocks \cup {n}) \ {b} |->
                        IF z = n THEN 2 * p ELSE blocks[z]]
  <2>1. vecs' = [vecs EXCEPT ![s] = w]
    BY <1>1 DEF Grow, y
  <2>2. blocks' = Without(b, With(n, 2 * p, blocks))
    BY <1>1 DEF Grow
  <2> QED  BY <2>1, <2>2 DEF With, Without
<1> HIDE DEF w
<1>8. vecs' \in [Strings -> Vec] /\ vecs'[s] = w /\ \A t \in Strings : t # s => vecs'[t] = vecs[t]
  BY <1>6, <1>7 DEF VectorInv, VectorTypes
<1>9. /\ pushed' \in [Strings -> Seq(Elements)]
      /\ \A t \in Strings : t # s => pushed'[t] = pushed[t]
  <2>1. pushed \in [Strings -> Seq(Elements)] /\ pushed[s] \in Seq(Elements)
    BY DEF VectorInv, VectorTypes
  <2>2. Append(pushed[s], c) \in Seq(Elements)
    BY <2>1, AppendProperties
  <2> QED  BY <2>1, <2>2
<1>10. PushedIsKept'
  <2> SUFFICES ASSUME NEW t \in Strings
               PROVE  /\ Len(vecs'[t].data) <= maxData
                      /\ vecs'[t].block # 0 /\ ~(vecs'[t].pages > 1) => vecs'[t].data = pushed'[t]
    BY DEF PushedIsKept, Grown
  <2>1. CASE t = s
    BY <1>2, <1>5, <1>6, <1>8, <2>1
  <2>2. CASE t # s
    BY <1>8, <1>9, <2>2 DEF VectorInv, PushedIsKept, Grown
  <2> QED  BY <2>1, <2>2
<1>11. \A t \in Strings : t # s => vecs[t].block # b /\ vecs[t].block # n
  BY <1>1, <1>2, <1>3 DEF VectorInv, BlocksAreStrings
<1>12. BlocksAreStrings'
  <2>1. DOMAIN blocks' = (DOMAIN blocks \cup {n}) \ {b} /\ n # b
    BY <1>3, <1>4, <1>7
  <2>2. DOMAIN blocks' = {vecs'[t].block : t \in Strings} \ {0}
    BY <1>1, <1>3, <1>6, <1>8, <1>11, <2>1 DEF VectorInv, BlocksAreStrings
  <2>3. ASSUME NEW t \in Strings, vecs'[t].block # 0
        PROVE  blocks'[vecs'[t].block] = vecs'[t].pages
    <3>1. CASE t = s
      BY <1>6, <1>7, <1>8, <2>1, <3>1
    <3>2. CASE t # s
      <4>1. vecs[t].block \in DOMAIN blocks /\ blocks[vecs[t].block] = vecs[t].pages
        BY <1>8, <2>3, <3>2 DEF VectorInv, BlocksAreStrings
      <4> QED  BY <1>7, <1>8, <1>11, <3>2, <4>1
    <3> QED  BY <3>1, <3>2
  <2>4. ASSUME NEW t \in Strings, NEW r \in Strings, vecs'[t].block = vecs'[r].block,
               vecs'[t].block # 0
        PROVE  t = r
    BY <1>6, <1>8, <1>11, <2>4 DEF VectorInv, BlocksAreStrings
  <2> QED  BY <2>2, <2>3, <2>4 DEF BlocksAreStrings
<1>13. \A t \in Strings : vecs[t].block # 0 => vecs'[t].block # 0 /\ vecs'[t].pages \in Nat \ {0}
  BY <1>3, <1>6, <1>8 DEF VectorInv, VectorTypes
<1>14. \A t \in Strings : vecs[t].block = 0 => vecs'[t].block = 0
  BY <1>1, <1>2, <1>8
<1>15. blocks' = [z \in DOMAIN blocks' |-> blocks'[z]]
  BY <1>7
<1> QED
  BY <1>8, <1>9, <1>10, <1>12, <1>13, <1>14, <1>15

(* An element that is copied is pushed, and the copy goes on.              *)
LEMMA CopyElementKeeps ==
    ASSUME VectorInv, CopyElement
    PROVE  VectorInv'
<1> DEFINE s == copying.to
           c == Source[copying.i + 1]
<1>1. /\ copying.on /\ copying.i < Len(Source) /\ PushBack(s, c)
      /\ copying' = [copying EXCEPT !.i = @ + 1]
  BY DEF CopyElement
<1>2. Source \in Seq(Elements) /\ s \in Strings /\ copying.i \in Nat /\ vecs[s].block # 0
  BY <1>1, SourceType DEF VectorInv, VectorTypes
<1>3. c \in Elements
  <2>1. copying.i + 1 \in 1..Len(Source)
    BY <1>1, <1>2, LenProperties
  <2> QED  BY <1>2, <2>1, ElementOfSeq
<1>4. /\ copying' \in Copy /\ copying'.on = copying.on /\ copying'.to = copying.to
      /\ DOMAIN copying' = DOMAIN copying
      /\ "from" \in DOMAIN copying => copying'.from = copying.from
  <2>1. PICK a : a = copying
    OBVIOUS
  <2>2. CASE a \in [on : {TRUE}, to : Strings, text : Seq(Elements), i : Nat]
    <3>1. a = [on |-> TRUE, to |-> a.to, text |-> a.text, i |-> a.i]
      BY <2>2
    <3>2. copying' = [on |-> TRUE, to |-> a.to, text |-> a.text, i |-> a.i + 1]
      BY <1>1, <2>1, <3>1
    <3>3. copying' \in [on : {TRUE}, to : Strings, text : Seq(Elements), i : Nat]
      BY <2>2, <3>2
    <3>4. "from" \notin DOMAIN a /\ DOMAIN a = DOMAIN copying'
      BY <3>1, <3>2
    <3>5. copying'.on = a.on /\ copying'.to = a.to
      <4>1. a.on = TRUE
        BY <2>2
      <4> QED  BY <3>2, <4>1
    <3>6. copying' \in Copy
      BY <3>3 DEF Copy
    <3> HIDE DEF s, c
    <3> QED  BY <2>1, <3>4, <3>5, <3>6
  <2>3. CASE a \in [on : {TRUE}, to : Strings, from : Strings, i : Nat]
    <3>1. a = [on |-> TRUE, to |-> a.to, from |-> a.from, i |-> a.i]
      BY <2>3
    <3>2. copying' = [on |-> TRUE, to |-> a.to, from |-> a.from, i |-> a.i + 1]
      BY <1>1, <2>1, <3>1
    <3>3. copying' \in [on : {TRUE}, to : Strings, from : Strings, i : Nat]
      BY <2>3, <3>2
    <3>4. DOMAIN a = DOMAIN copying'
      BY <3>1, <3>2
    <3>5. copying'.on = a.on /\ copying'.to = a.to /\ copying'.from = a.from
      <4>1. a.on = TRUE
        BY <2>3
      <4> QED  BY <3>2, <4>1
    <3>6. copying' \in Copy
      BY <3>3 DEF Copy
    <3> HIDE DEF s, c
    <3> QED  BY <2>1, <3>4, <3>5, <3>6
  <2>4. copying # Idle
    BY <1>1 DEF Idle
  <2> QED  BY <2>1, <2>2, <2>3, <2>4 DEF VectorInv, VectorTypes, Copy
<1> HIDE DEF s, c
<1>5. pushed' = [pushed EXCEPT ![s] = Append(@, c)]
  BY <1>1 DEF PushBack
<1>6. CASE HasRoom(vecs[s])
  <2>1. Put(s, c)
    BY <1>1, <1>6 DEF PushBack
  <2>2. /\ vecs' \in [Strings -> Vec] /\ pushed' \in [Strings -> Seq(Elements)]
        /\ \A t \in Strings : vecs'[t].block = vecs[t].block /\ vecs'[t].pages = vecs[t].pages
        /\ blocks' = blocks
        /\ PushedIsKept'
    BY <1>2, <1>3, <1>5, <1>6, <2>1, PutKeeps
  <2>3. VectorTypes'
    <3>1. "from" \in DOMAIN copying => copying.from \in Strings
      BY FromType DEF VectorInv
    <3> QED  BY <1>2, <1>4, <2>2, <3>1 DEF VectorInv, VectorTypes, s
  <2>4. BlocksAreStrings'
    <3>1. {vecs'[t].block : t \in Strings} = {vecs[t].block : t \in Strings}
      BY <2>2
    <3> QED  BY <2>2, <3>1 DEF VectorInv, BlocksAreStrings
  <2> QED  BY <2>2, <2>3, <2>4 DEF VectorInv
<1>7. CASE ~HasRoom(vecs[s])
  <2>1. Grow(s)
    BY <1>1, <1>7 DEF PushBack
  <2>2. /\ vecs' \in [Strings -> Vec] /\ pushed' \in [Strings -> Seq(Elements)]
        /\ \A t \in Strings : vecs[t].block # 0 =>
              vecs'[t].block # 0 /\ vecs'[t].pages \in Nat \ {0}
        /\ \A t \in Strings : vecs[t].block = 0 => vecs'[t].block = 0
        /\ blocks' = [b \in DOMAIN blocks' |-> blocks'[b]]
        /\ PushedIsKept' /\ BlocksAreStrings'
    BY <1>2, <1>3, <1>5, <2>1, GrowKeeps
  <2>3. VectorTypes'
    <3>1. "from" \in DOMAIN copying => copying.from \in Strings
      BY FromType DEF VectorInv
    <3> QED  BY <1>2, <1>4, <2>2, <3>1 DEF VectorInv, VectorTypes, s
  <2> QED  BY <2>2, <2>3 DEF VectorInv
<1> QED
  BY <1>6, <1>7

(* Every step of the strings keeps the invariant.                          *)
LEMMA VectorStepKeeps ==
    ASSUME VectorInv, VectorStep
    PROVE  VectorInv'
<1>1. ASSUME NEW c \in Copy, copying' = c, UNCHANGED <<vecs, blocks, pushed>>,
             c.on => /\ vecs[c.to].block # 0
                     /\ "from" \in DOMAIN c => vecs[c.from].block # 0
      PROVE  VectorInv'
  <2>1. VectorTypes'
    BY <1>1 DEF VectorInv, VectorTypes
  <2>2. PushedIsKept' /\ BlocksAreStrings'
    BY <1>1 DEF VectorInv, PushedIsKept, BlocksAreStrings
  <2> QED  BY <2>1, <2>2 DEF VectorInv
<1>2. ASSUME NEW s \in Strings, NEW text \in Texts, StartText(s, text)
      PROVE  VectorInv'
  <2> DEFINE c == [on |-> TRUE, to |-> s, text |-> Append(text, NUL), i |-> 0]
  <2>1. Append(text, NUL) \in Seq(Elements)
    <3>1. text \in Seq(UNION {Range(t) : t \in Texts})
      BY VectorAssumption
    <3>2. text \in Seq(Elements) /\ NUL \in Elements
      BY <3>1, SeqMonotonic DEF Elements
    <3> QED  BY <3>2, AppendProperties
  <2>2. c \in Copy /\ c.to = s /\ "from" \notin DOMAIN c
    BY <2>1 DEF Copy
  <2>3. copying' = c /\ UNCHANGED <<vecs, blocks, pushed>> /\ vecs[s].block # 0
    BY <1>2 DEF StartText
  <2> HIDE DEF c
  <2> QED  BY <1>1, <2>2, <2>3
<1>3. ASSUME NEW s \in Strings, NEW from \in Strings, StartCopy(s, from)
      PROVE  VectorInv'
  <2> DEFINE c == [on |-> TRUE, to |-> s, from |-> from, i |-> 0]
  <2>1. c \in Copy /\ c.to = s /\ c.from = from
    BY DEF Copy
  <2>2. /\ copying' = c /\ UNCHANGED <<vecs, blocks, pushed>>
        /\ vecs[s].block # 0 /\ vecs[from].block # 0
    BY <1>3 DEF StartCopy
  <2> HIDE DEF c
  <2> QED  BY <1>1, <2>1, <2>2
<1>4. ASSUME CopyDone PROVE VectorInv'
  <2>1. copying' = Idle /\ UNCHANGED <<vecs, blocks, pushed>>
    BY <1>4 DEF CopyDone
  <2>2. Idle \in Copy /\ ~Idle.on
    BY DEF Copy, Idle
  <2> QED  BY <1>1, <2>1, <2>2
<1> QED
  BY <1>2, <1>3, <1>4, ConstructKeeps, FreeStringKeeps, CopyElementKeeps DEF VectorStep

(* No string has a block at the start.                                     *)
LEMMA VectorStarts == VectorInit => VectorInv
<1> SUFFICES ASSUME VectorInit PROVE VectorInv
  OBVIOUS
<1>1. Unused \in Vec /\ Unused.block = 0 /\ Len(Unused.data) = 0
  BY DEF Unused, Vec
<1>2. /\ vecs = [s \in Strings |-> Unused] /\ pushed = [s \in Strings |-> <<>>]
      /\ blocks = [b \in {} |-> 0] /\ DOMAIN blocks = {} /\ copying = Idle
  BY DEF VectorInit
<1>3. VectorTypes
  <2>1. Idle \in Copy /\ ~Idle.on
    BY DEF Copy, Idle
  <2>2. <<>> \in Seq(Elements)
    OBVIOUS
  <2> QED  BY <1>1, <1>2, <2>1, <2>2 DEF VectorTypes
<1>4. PushedIsKept
  BY <1>1, <1>2, VectorAssumption DEF PushedIsKept
<1>5. BlocksAreStrings
  BY <1>1, <1>2 DEF BlocksAreStrings
<1> QED
  BY <1>3, <1>4, <1>5 DEF VectorInv

(* A program uses the one or the other, and neither disturbs the other.    *)
LEMMA ContainersKeep ==
    ASSUME HeapInv, VectorInv, [ContainersNext]_containerVars
    PROVE  HeapInv' /\ VectorInv'
<1>1. ASSUME UNCHANGED heapVars PROVE HeapInv'
  BY <1>1 DEF heapVars, HeapInv
<1>2. ASSUME UNCHANGED vectorVars PROVE VectorInv'
  <2>1. UNCHANGED <<vecs, blocks, pushed, copying>>
    BY <1>2 DEF vectorVars
  <2> QED  BY <2>1 DEF VectorInv, VectorTypes, PushedIsKept, BlocksAreStrings
<1> QED
  BY <1>1, <1>2, HeapStepKeeps, VectorStepKeeps DEF ContainersNext, containerVars

(* Both invariants hold from the start on.                                 *)
LEMMA ContainersInvs == ContainersSpec => [](HeapInv /\ VectorInv)
<1>1. ContainersInit => HeapInv /\ VectorInv
  BY HeapStarts, VectorStarts DEF ContainersInit
<1>2. HeapInv /\ VectorInv /\ [ContainersNext]_containerVars => (HeapInv /\ VectorInv)'
  BY ContainersKeep
<1> QED
  BY <1>1, <1>2, PTL DEF ContainersSpec

(* The heap's blocks lie one behind the other through every order of       *)
(* cutting, merging and appending, and each that is held has its node, for *)
(* any sizes asked for.                                                    *)
THEOREM HeapIsTiled == ContainersSpec => []BlocksOfTheHeap
  BY ContainersInvs, HeapInvTells, PTL

(* A vector holds what was pushed until it is full, for any page size.     *)
THEOREM PushesAreKept == ContainersSpec => []PushedIsKept
<1>1. VectorInv => PushedIsKept
  BY DEF VectorInv
<1> QED
  BY <1>1, ContainersInvs, PTL

(* The blocks that are taken are those the strings have, however often     *)
(* vectors grow.                                                           *)
THEOREM BlocksComeBack == ContainersSpec => []BlocksAreStrings
<1>1. VectorInv => BlocksAreStrings
  BY DEF VectorInv
<1> QED
  BY <1>1, ContainersInvs, PTL
=============================================================================
