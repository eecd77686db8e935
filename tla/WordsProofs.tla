---------------------------- MODULE WordsProofs ----------------------------
(***************************************************************************)
(* Proofs about module PageWords, for every page size, every set of page   *)
(* counts and every amount of memory: until shrinkList is called the words *)
(* linked by address are the sequence of module PageList, and every        *)
(* operation on them is that module's.  The argument: there is a list of   *)
(* entries, no two of which share a word, that lie in the pages taken for  *)
(* them and lead from one to the next to the null pointer; each names a    *)
(* page and a size; they are in address order; and every block held begins *)
(* where a used entry does (ListIs).                                       *)
(*                                                                         *)
(* And the first call of shrinkList leaves every entry in use as it is:    *)
(* each round of its walk changes nothing but which of the list's entries  *)
(* are linked, and a free one's size (WalkIs), because the words it stores *)
(* recycled places in are no entry's (OffStack).                           *)
(***************************************************************************)
EXTENDS PageWords, SequenceTheorems, FiniteSetTheorems, WellFoundedInduction, TLAPS

(* What holds of 0 and, if of a number, of the next one, holds of all.     *)
LEMMA NatsAreIn ==
    ASSUME NEW T, 0 \in T, \A n \in Nat : n \in T => n + 1 \in T
    PROVE  Nat \subseteq T
<1> DEFINE R == OpToRel(<, Nat)
           U == Nat \ T
<1>1. IsWellFoundedOn(R, Nat)
  BY NatLessThanWellFounded, Zenon
<1>2. ASSUME U # {} PROVE FALSE
  <2>1. U \subseteq Nat
    OBVIOUS
  <2>2. PICK x \in U : \A y \in U : ~(<<y, x>> \in R)
    <3> HIDE DEF R, U
    <3> QED  BY <1>1, <1>2, <2>1, WFMin
  <2>3. x # 0 /\ x - 1 \in Nat /\ (x - 1) + 1 = x
    OBVIOUS
  <2>4. x - 1 \in U
    BY <2>3
  <2>5. x - 1 \in Nat /\ x \in Nat /\ x - 1 < x
    BY <2>3
  <2>6. <<x - 1, x>> \in R
    BY <2>5, Zenon DEF OpToRel
  <2> QED  BY <2>2, <2>4, <2>6
<1> QED
  BY <1>2

-----------------------------------------------------------------------------
(* The list in memory.                                                     *)

(* A page's first word, the words behind it, and the page of a word.       *)
LEMMA Addresses ==
    /\ PageWordCount \in Nat /\ PageWordCount >= 3
    /\ \A p \in Nat : Address(p) \in Nat
    /\ \A p, q \in Nat : p < q => Address(p) + PageWordCount <= Address(q)
    /\ \A p, q \in Nat : p <= q => Address(p) <= Address(q)
    /\ \A p, q \in Nat : Address(p + q) = Address(p) + q * PageWordCount
    /\ Address(0) = 0 /\ Address(1) = PageWordCount
<1>1. PageWordCount \in Nat /\ PageWordCount >= 3
  BY PageWordsAssumption
<1>2. \A p \in Nat : Address(p) \in Nat
  BY <1>1 DEF Address
<1>3. ASSUME NEW p \in Nat, NEW q \in Nat
      PROVE  Address(p + q) = Address(p) + q * PageWordCount
  BY <1>1 DEF Address
<1>4. ASSUME NEW p \in Nat, NEW d \in Nat \ {0}
      PROVE  Address(p) + PageWordCount <= Address(p + d)
  <2>1. PICK w \in Nat : w = PageWordCount
    BY <1>1
  <2>2. w <= d * w
    BY Z3
  <2>3. Address(p + d) = Address(p) + d * w
    BY <1>3, <2>1
  <2>4. Address(p) \in Nat /\ d * w \in Nat
    BY <1>2
  <2> HIDE DEF Address
  <2> QED  BY <2>1, <2>2, <2>3, <2>4
<1>5. ASSUME NEW p \in Nat, NEW q \in Nat, p < q
      PROVE  Address(p) + PageWordCount <= Address(q)
  <2>1. q - p \in Nat \ {0} /\ p + (q - p) = q
    BY <1>5
  <2> QED  BY <1>4, <2>1
<1>6. ASSUME NEW p \in Nat, NEW q \in Nat, p <= q
      PROVE  Address(p) <= Address(q)
  <2>1. CASE p < q
    BY <1>1, <1>2, <1>5, <2>1
  <2>2. CASE p = q
    BY <1>2, <2>2
  <2> QED  BY <1>6, <2>1, <2>2
<1> QED
  BY <1>1, <1>2, <1>3, <1>5, <1>6 DEF Address

(* The end of memory has an address.                                       *)
LEMMA LimitAddress == Address(Limit) \in Nat /\ Limit \in Nat
BY Addresses, PageWordsAssumption

(* The entries in list order lead from head to the null pointer and no two *)
(* are the same.                                                           *)
IsChain(m, l) ==
    /\ l \in Seq(Nat) /\ Len(l) \in Nat \ {0}
    /\ l[1] = head
    /\ \A i \in 1..Len(l) :
          NextOf(m, l[i]) = IF i = Len(l) THEN NULL ELSE l[i + 1]
    /\ \A i, j \in 1..Len(l) : l[i] = l[j] => i = j
    /\ Len(l) <= Address(Limit) + 1

(* The entries passed in so many steps.                                    *)
PassedIn(m, f, b) ==
    f = [n \in 0..b |-> IF n = 0 THEN head ELSE NextOf(m, f[n - 1])]

(* From any memory the walk has a next entry to pass, over and over.       *)
LEMMA PassedExists ==
    ASSUME NEW m, NEW b \in Nat
    PROVE  \E f : PassedIn(m, f, b)
<1> DEFINE T == {n \in Nat : \E f : PassedIn(m, f, n)}
<1>1. 0 \in T
  <2> DEFINE f == [n \in 0..0 |-> head]
  <2>1. f = [n \in 0..0 |-> IF n = 0 THEN head ELSE NextOf(m, f[n - 1])]
    OBVIOUS
  <2> QED  BY <2>1 DEF PassedIn
<1>2. ASSUME NEW n \in Nat, n \in T PROVE n + 1 \in T
  <2>1. PICK f : PassedIn(m, f, n)
    BY <1>2
  <2> DEFINE g == [k \in 0..n + 1 |-> IF k <= n THEN f[k] ELSE NextOf(m, f[n])]
  <2>2. \A k \in 0..n + 1 : g[k] = IF k = 0 THEN head ELSE NextOf(m, g[k - 1])
    <3> SUFFICES ASSUME NEW k \in 0..n + 1
                 PROVE  g[k] = IF k = 0 THEN head ELSE NextOf(m, g[k - 1])
      OBVIOUS
    <3>1. k # 0 => k - 1 \in 0..n + 1 /\ k - 1 <= n /\ g[k - 1] = f[k - 1]
      OBVIOUS
    <3>2. k <= n => k \in 0..n /\ f[k] = IF k = 0 THEN head ELSE NextOf(m, f[k - 1])
      BY <2>1 DEF PassedIn
    <3>3. ~(k <= n) => k # 0 /\ k - 1 = n
      OBVIOUS
    <3>4. g[k] = IF k <= n THEN f[k] ELSE NextOf(m, f[n])
      OBVIOUS
    <3> HIDE DEF g
    <3> QED  BY <3>1, <3>2, <3>3, <3>4
  <2>3. g = [k \in 0..n + 1 |-> IF k = 0 THEN head ELSE NextOf(m, g[k - 1])]
    <3>1. g = [k \in 0..n + 1 |-> g[k]]
      OBVIOUS
    <3> HIDE DEF g
    <3> QED  BY <2>2, <3>1
  <2>4. PassedIn(m, g, n + 1)
    <3> HIDE DEF g
    <3> QED  BY <2>3 DEF PassedIn
  <2> QED  BY <2>4
<1>3. b \in T
  <2> HIDE DEF T
  <2> QED  BY <1>1, <1>2, NatsAreIn
<1> QED
  BY <1>3

(* What Chain picks is cut out of that walk.                               *)
LEMMA ChainIsPassed ==
    ASSUME NEW m
    PROVE  \E f : /\ PassedIn(m, f, Address(Limit))
                  /\ Chain(m) =
                       LET Ends(n) == \E k \in 0..n : NextOf(m, f[n]) = f[k]
                           last == CHOOSE n \in 0..Address(Limit) :
                                       Ends(n) /\ \A k \in 0..n - 1 : ~Ends(k)
                       IN  [i \in 1..last + 1 |-> f[i - 1]]
<1> DEFINE f == CHOOSE f : f = [n \in 0..Address(Limit) |->
                                  IF n = 0 THEN head ELSE NextOf(m, f[n - 1])]
<1>1. \E g : g = [n \in 0..Address(Limit) |->
                    IF n = 0 THEN head ELSE NextOf(m, g[n - 1])]
  BY LimitAddress, PassedExists DEF PassedIn
<1>2. f = [n \in 0..Address(Limit) |-> IF n = 0 THEN head ELSE NextOf(m, f[n - 1])]
  BY <1>1
<1>3. PassedIn(m, f, Address(Limit))
  BY <1>2 DEF PassedIn
<1> QED
  BY <1>3 DEF Chain

(* In a list that ends, Chain is the list.                                 *)
LEMMA ChainIs ==
    ASSUME NEW m, NEW l, IsChain(m, l)
    PROVE  Chain(m) = l
<1> DEFINE B == Address(Limit)
           L == Len(l)
<1>1. B \in Nat /\ L \in Nat \ {0} /\ L - 1 \in 0..B /\ l \in Seq(Nat)
  BY LimitAddress DEF IsChain
<1>2. PICK f : /\ PassedIn(m, f, B)
               /\ Chain(m) =
                    LET Ends(n) == \E k \in 0..n : NextOf(m, f[n]) = f[k]
                        last == CHOOSE n \in 0..B :
                                    Ends(n) /\ \A k \in 0..n - 1 : ~Ends(k)
                    IN  [i \in 1..last + 1 |-> f[i - 1]]
  BY ChainIsPassed
<1> DEFINE Ends(n) == \E k \in 0..n : NextOf(m, f[n]) = f[k]
           last == CHOOSE n \in 0..B : Ends(n) /\ \A k \in 0..n - 1 : ~Ends(k)
<1>3. Chain(m) = [i \in 1..last + 1 |-> f[i - 1]]
  BY <1>2
<1>4. \A n \in 0..B : f[n] = IF n = 0 THEN head ELSE NextOf(m, f[n - 1])
  <2> HIDE DEF B
  <2> QED  BY <1>2 DEF PassedIn
<1> HIDE DEF B
<1> DEFINE T == {n \in Nat : n < L => f[n] = l[n + 1]}
<1>5. 0 \in T
  BY <1>1, <1>4 DEF IsChain
<1>6. ASSUME NEW n \in Nat, n \in T PROVE n + 1 \in T
  <2> SUFFICES ASSUME n + 1 < L PROVE f[n + 1] = l[(n + 1) + 1]
    OBVIOUS
  <2>1. n + 1 \in 0..B /\ n + 1 # 0 /\ (n + 1) - 1 = n /\ n + 1 \in 1..L /\ n + 1 # L
    BY <1>1
  <2>2. f[n] = l[n + 1]
    BY <1>6, <2>1
  <2>3. f[n + 1] = NextOf(m, f[n])
    BY <1>4, <2>1
  <2> QED  BY <2>1, <2>2, <2>3 DEF IsChain
<1>7. Nat \subseteq T
  <2> HIDE DEF T
  <2> QED  BY <1>5, <1>6, NatsAreIn
<1>8. \A n \in 0..L - 1 : f[n] = l[n + 1]
  BY <1>1, <1>7
<1> HIDE DEF T
<1>9. Ends(L - 1)
  <2>1. f[L - 1] = l[L] /\ f[0] = head
    BY <1>1, <1>8 DEF IsChain
  <2>2. NextOf(m, l[L]) = NULL
    BY <1>1 DEF IsChain
  <2> QED  BY <1>1, <2>1, <2>2 DEF head, NULL
<1>10. ASSUME NEW n \in 0..L - 1, n # L - 1 PROVE ~Ends(n)
  <2> SUFFICES ASSUME NEW k \in 0..n, NextOf(m, f[n]) = f[k] PROVE FALSE
    OBVIOUS
  <2>1. n + 1 \in 1..L /\ n + 1 # L /\ (n + 1) + 1 \in 1..L /\ k + 1 \in 1..L
        /\ k \in 0..L - 1 /\ k + 1 # (n + 1) + 1
    BY <1>1, <1>10
  <2>2. NextOf(m, f[n]) = l[(n + 1) + 1]
    BY <1>8, <1>10, <2>1 DEF IsChain
  <2>3. f[k] = l[k + 1]
    BY <1>8, <2>1
  <2> QED  BY <2>1, <2>2, <2>3 DEF IsChain
<1>11. last = L - 1
  <2>1. \A k \in 0..(L - 1) - 1 : ~Ends(k)
    BY <1>1, <1>10
  <2>2. ASSUME NEW n \in 0..B, Ends(n), \A k \in 0..n - 1 : ~Ends(k)
        PROVE  n = L - 1
    <3>1. n < L - 1 => FALSE
      <4>1. n < L - 1 => n \in 0..L - 1 /\ n # L - 1
        BY <1>1
      <4> HIDE DEF Ends
      <4> QED  BY <1>10, <2>2, <4>1
    <3>2. L - 1 < n => FALSE
      <4>1. L - 1 < n => L - 1 \in 0..n - 1
        BY <1>1
      <4> QED  BY <1>9, <2>2, <4>1
    <3> QED  BY <1>1, <3>1, <3>2
  <2> HIDE DEF Ends
  <2> QED  BY <1>1, <1>9, <2>1, <2>2
<1>12. Chain(m) = [i \in 1..L |-> l[i]]
  <2>1. last + 1 = L
    <3> HIDE DEF last, L
    <3> QED  BY <1>1, <1>11
  <2>2. \A i \in 1..L : f[i - 1] = l[i]
    <3>1. \A i \in 1..L : i - 1 \in 0..L - 1 /\ (i - 1) + 1 = i
      BY <1>1
    <3> QED  BY <1>8, <3>1
  <2> HIDE DEF last
  <2> QED  BY <1>3, <2>1, <2>2
<1> QED
  BY <1>1, <1>12, SeqDef

-----------------------------------------------------------------------------
(* Words and entries.                                                      *)

(* What is stored in a word is there, and the others stay.                 *)
LEMMA StoreWord ==
    ASSUME NEW m, NEW a \in Nat, NEW b \in Nat, NEW w
    PROVE  Word(Store(m, a, w), b) = IF b = a THEN w ELSE Word(m, b)
<1> DEFINE n == Store(m, a, w)
<1>1. n = [c \in DOMAIN m \cup {a} |-> IF c = a THEN w ELSE m[c]]
  BY DEF Store
<1>2. DOMAIN n = DOMAIN m \cup {a} /\ (b \in DOMAIN n => n[b] = IF b = a THEN w ELSE m[b])
  BY <1>1
<1> HIDE DEF n
<1>3. Word(n, b) = IF b \in DOMAIN n THEN n[b] ELSE 0
  BY DEF Word
<1>4. Word(m, b) = IF b \in DOMAIN m THEN m[b] ELSE 0
  BY DEF Word
<1> QED
  BY <1>2, <1>3, <1>4 DEF n

(* Two entries share no word.                                              *)
Apart(a, b) == a + 3 <= b \/ b + 3 <= a

(* A field of an entry is stored: the other fields and entries stay.       *)
LEMMA FieldStored ==
    ASSUME NEW m, NEW e \in Nat, NEW g \in Nat, NEW w, g = e \/ Apart(e, g)
    PROVE  /\ Location(SetLocation(m, e, w), g) = IF g = e THEN w ELSE Location(m, g)
           /\ Size(SetLocation(m, e, w), g) = Size(m, g)
           /\ NextOf(SetLocation(m, e, w), g) = NextOf(m, g)
           /\ Location(SetSize(m, e, w), g) = Location(m, g)
           /\ Size(SetSize(m, e, w), g) = IF g = e THEN w ELSE Size(m, g)
           /\ NextOf(SetSize(m, e, w), g) = NextOf(m, g)
           /\ Location(SetNext(m, e, w), g) = Location(m, g)
           /\ Size(SetNext(m, e, w), g) = Size(m, g)
           /\ NextOf(SetNext(m, e, w), g) = IF g = e THEN w ELSE NextOf(m, g)
<1>1. /\ e + 1 \in Nat /\ e + 2 \in Nat /\ g + 1 \in Nat /\ g + 2 \in Nat
      /\ g # e => g # e + 1 /\ g # e + 2 /\ g + 1 # e /\ g + 1 # e + 1 /\ g + 1 # e + 2
                  /\ g + 2 # e /\ g + 2 # e + 1 /\ g + 2 # e + 2
      /\ g = e => g # e + 1 /\ g # e + 2 /\ g + 1 # e /\ g + 1 = e + 1 /\ g + 1 # e + 2
                  /\ g + 2 # e /\ g + 2 # e + 1 /\ g + 2 = e + 2
  BY DEF Apart
<1>2. \A a \in Nat, b \in Nat :
          Word(Store(m, a, w), b) = IF b = a THEN w ELSE Word(m, b)
  BY StoreWord
<1>3. /\ Location(SetLocation(m, e, w), g) = IF g = e THEN w ELSE Location(m, g)
      /\ Size(SetLocation(m, e, w), g) = Size(m, g)
      /\ NextOf(SetLocation(m, e, w), g) = NextOf(m, g)
  BY <1>1, <1>2 DEF SetLocation, Location, Size, NextOf
<1>4. /\ Location(SetSize(m, e, w), g) = Location(m, g)
      /\ Size(SetSize(m, e, w), g) = IF g = e THEN w ELSE Size(m, g)
      /\ NextOf(SetSize(m, e, w), g) = NextOf(m, g)
  BY <1>1, <1>2 DEF SetSize, Location, Size, NextOf
<1>5. /\ Location(SetNext(m, e, w), g) = Location(m, g)
      /\ Size(SetNext(m, e, w), g) = Size(m, g)
      /\ NextOf(SetNext(m, e, w), g) = IF g = e THEN w ELSE NextOf(m, g)
  BY <1>1, <1>2 DEF SetNext, Location, Size, NextOf
<1> QED
  BY <1>3, <1>4, <1>5

(* An entry as module PageList writes it.                                  *)
EntryAt(m, e) == [location |-> PageAt(Location(m, e) \div 2) - 1,
                  free     |-> IsFree(m, e),
                  size     |-> Size(m, e)]
EntriesOf(m, l) == [i \in 1 .. Len(l) - 1 |-> EntryAt(m, l[i + 1])]

(* A location word: twice the address of a page, and the free bit.         *)
Labels(m, e, p, b) ==
    p \in Nat \ {0} /\ b \in 0..1 /\ Location(m, e) = 2 * Address(p) + b
Labelled(m, e) == Size(m, e) \in Nat \ {0} /\ \E p, b : Labels(m, e, p, b)

(* What a location word tells: the page and the free bit.                  *)
LEMMA AddressAndBit ==
    ASSUME NEW p \in Nat, NEW b \in 0..1, NEW w, w = 2 * Address(p) + b
    PROVE  /\ w \in Nat
           /\ w \div 2 = Address(p) /\ w % 2 = b /\ PageAt(w \div 2) = p
           /\ w - (w % 2) = 2 * Address(p)
           /\ w - (w % 2) + 1 = 2 * Address(p) + 1
<1>1. PICK a \in Nat : a = Address(p)
  BY Addresses
<1>2. w \in Nat /\ w \div 2 = a /\ w % 2 = b
  BY <1>1
<1>3. PageAt(Address(p)) = p
  <2>1. PICK n \in Nat : n = PageWordCount /\ n >= 3
    BY Addresses
  <2>2. (p * n) \div n = p
    BY <2>1, Z3
  <2> QED  BY <2>1, <2>2 DEF PageAt, Address
<1> QED
  BY <1>1, <1>2, <1>3

(* What an entry with such a word is for module PageList.                  *)
LEMMA EntryFields ==
    ASSUME NEW m, NEW e, NEW p, NEW b, Labels(m, e, p, b)
    PROVE  /\ IsFree(m, e) <=> b = 1
           /\ EntryAt(m, e).location = p - 1
           /\ EntryAt(m, e).free = (b = 1)
           /\ EntryAt(m, e).size = Size(m, e)
           /\ Size(m, e) \in Nat \ {0} => EntryAt(m, e) \in Lists!Entry
<1>1. p \in Nat /\ p # 0 /\ b \in 0..1 /\ Location(m, e) % 2 = b /\ PageAt(Location(m, e) \div 2) = p
  BY AddressAndBit DEF Labels
<1>2. IsFree(m, e) = (b = 1)
  BY <1>1 DEF IsFree
<1>3. p - 1 \in Nat
  BY <1>1
<1> QED
  BY <1>1, <1>2, <1>3 DEF EntryAt, Lists!Entry

(* The same as one record.                                                 *)
LEMMA EntryIs ==
    ASSUME NEW m, NEW e, NEW p
    PROVE  /\ Labels(m, e, p, 0) =>
                EntryAt(m, e) = [location |-> p - 1, free |-> FALSE, size |-> Size(m, e)]
           /\ Labels(m, e, p, 1) =>
                EntryAt(m, e) = [location |-> p - 1, free |-> TRUE, size |-> Size(m, e)]
<1>1. ASSUME Labels(m, e, p, 0)
      PROVE  EntryAt(m, e) = [location |-> p - 1, free |-> FALSE, size |-> Size(m, e)]
  <2>1. EntryAt(m, e).location = p - 1 /\ (IsFree(m, e) <=> 0 = 1)
    BY <1>1, EntryFields
  <2>2. IsFree(m, e) = FALSE
    BY <2>1 DEF IsFree
  <2> QED  BY <2>1, <2>2 DEF EntryAt
<1>2. ASSUME Labels(m, e, p, 1)
      PROVE  EntryAt(m, e) = [location |-> p - 1, free |-> TRUE, size |-> Size(m, e)]
  <2>1. EntryAt(m, e).location = p - 1 /\ (IsFree(m, e) <=> 1 = 1)
    BY <1>2, EntryFields
  <2>2. IsFree(m, e) = TRUE
    BY <2>1 DEF IsFree
  <2> QED  BY <2>1, <2>2 DEF EntryAt
<1> QED
  BY <1>1, <1>2

(* What putting an element behind the first k of a sequence gives.         *)
LEMMA PlacedFacts ==
    ASSUME NEW S, NEW l \in Seq(S), NEW e \in S, NEW k \in 0..Len(l)
    PROVE  /\ Len(l) \in Nat
           /\ Lists!PlaceAfter(l, k, e) \in Seq(S)
           /\ Len(Lists!PlaceAfter(l, k, e)) = Len(l) + 1
           /\ \A i \in 1 .. Len(l) + 1 :
                 Lists!PlaceAfter(l, k, e)[i] =
                    IF i <= k THEN l[i] ELSE IF i = k + 1 THEN e ELSE l[i - 1]
<1> DEFINE n == Len(l) + 1
           m == Lists!PlaceAfter(l, k, e)
           body == [i \in 1..n |-> IF i <= k THEN l[i]
                                   ELSE IF i = k + 1 THEN e ELSE l[i - 1]]
<1>1. Len(l) \in Nat /\ n \in Nat
  BY LenProperties
<1>2. m = body
  BY DEF Lists!PlaceAfter
<1>3. \A i \in 1..n : /\ i <= k => i \in 1..Len(l)
                      /\ ~(i <= k) /\ i # k + 1 => i - 1 \in 1..Len(l)
  BY <1>1
<1>4. \A i \in 1..Len(l) : l[i] \in S
  BY ElementOfSeq
<1>5. body \in [1..n -> S]
  BY <1>3, <1>4
<1>6. m \in Seq(S)
  BY <1>1, <1>2, <1>5, SeqDef
<1>7. Len(m) = n
  BY <1>1, <1>2, <1>5, <1>6, LenProperties
<1>8. \A i \in 1..n : m[i] = IF i <= k THEN l[i]
                             ELSE IF i = k + 1 THEN e ELSE l[i - 1]
  BY <1>2
<1> QED
  BY <1>1, <1>6, <1>7, <1>8

-----------------------------------------------------------------------------
(* Links.                                                                  *)

(* Where no link changes the list is the same.                             *)
LEMMA SameChain ==
    ASSUME NEW m, NEW l, IsChain(m, l), NEW m1,
           \A i \in 1..Len(l) : NextOf(m1, l[i]) = NextOf(m, l[i])
    PROVE  IsChain(m1, l)
BY DEF IsChain

(* An entry is linked in behind the k-th.                                  *)
LEMMA LinkedIn ==
    ASSUME NEW m, NEW l, IsChain(m, l), NEW m1, NEW k \in 1..Len(l), NEW new \in Nat,
           \A i \in 1..Len(l) : l[i] # new,
           Len(l) <= Address(Limit),
           \A i \in 1..Len(l) : i # k => NextOf(m1, l[i]) = NextOf(m, l[i]),
           NextOf(m1, l[k]) = new,
           NextOf(m1, new) = NextOf(m, l[k])
    PROVE  IsChain(m1, Lists!PlaceAfter(l, k, new))
<1> DEFINE c == Lists!PlaceAfter(l, k, new)
           L == Len(l)
<1>1. l \in Seq(Nat) /\ L \in Nat \ {0} /\ k \in 0..L
  BY DEF IsChain
<1>2. /\ c \in Seq(Nat) /\ Len(c) = L + 1
      /\ \A i \in 1 .. L + 1 :
            c[i] = IF i <= k THEN l[i] ELSE IF i = k + 1 THEN new ELSE l[i - 1]
  <2>1. k \in 0..Len(l) /\ l \in Seq(Nat)
    BY <1>1
  <2>2. Lists!PlaceAfter(l, k, new) \in Seq(Nat)
    <3> HIDE DEF c, L
    <3> QED  BY <2>1, PlacedFacts
  <2>3. Len(Lists!PlaceAfter(l, k, new)) = Len(l) + 1
    <3>1. Len(l) + 1 \in Nat
      BY <1>1
    <3> HIDE DEF c, L
    <3> QED  BY <3>1 DEF Lists!PlaceAfter
  <2> QED  BY <2>2, <2>3 DEF Lists!PlaceAfter
<1> HIDE DEF c
<1>3. Len(c) \in Nat \ {0} /\ Len(c) <= Address(Limit) + 1
  BY <1>1, <1>2, LimitAddress
<1>4. c[1] = head
  <2>1. 1 <= k /\ 1 \in 1..L + 1
    BY <1>1
  <2> QED  BY <1>2, <2>1 DEF IsChain
<1>5. \A i \in 1..L : NextOf(m, l[i]) = IF i = L THEN NULL ELSE l[i + 1]
  BY DEF IsChain
<1>6. ASSUME NEW i \in 1..Len(c)
      PROVE  NextOf(m1, c[i]) = IF i = Len(c) THEN NULL ELSE c[i + 1]
  <2>1. CASE i < k
    <3>1. i \in 1..L /\ i + 1 \in 1..L + 1 /\ i + 1 <= k /\ i # L /\ i # Len(c) /\ i # k /\ i <= k
      BY <1>1, <1>2, <2>1
    <3>2. c[i] = l[i] /\ c[i + 1] = l[i + 1]
      BY <1>2, <3>1
    <3> QED  BY <1>5, <3>1, <3>2
  <2>2. CASE i = k
    <3>1. k \in 1..L + 1 /\ k + 1 \in 1..L + 1 /\ ~(k + 1 <= k) /\ k <= k /\ k # Len(c)
      BY <1>1, <1>2
    <3>2. c[k] = l[k] /\ c[k + 1] = new
      BY <1>2, <3>1
    <3> QED  BY <2>2, <3>1, <3>2
  <2>3. CASE i = k + 1
    <3>1. k + 1 \in 1..L + 1 /\ ~(k + 1 <= k) /\ (k + 1 = Len(c) <=> k = L)
      BY <1>1, <1>2, <2>3
    <3>2. c[k + 1] = new
      BY <1>2, <3>1
    <3>3. k # L => c[(k + 1) + 1] = l[k + 1]
      <4>1. k # L => (k + 1) + 1 \in 1..L + 1 /\ ~((k + 1) + 1 <= k) /\ (k + 1) + 1 # k + 1
                     /\ ((k + 1) + 1) - 1 = k + 1
        BY <1>1
      <4> QED  BY <1>2, <4>1
    <3> QED  BY <1>5, <2>3, <3>1, <3>2, <3>3
  <2>4. CASE k + 1 < i
    <3>1. /\ i - 1 \in 1..L /\ ~(i <= k) /\ i # k + 1 /\ i \in 1..L + 1 /\ i - 1 # k
          /\ (i = Len(c) <=> i - 1 = L) /\ (i - 1) + 1 = i
      <4>1. Len(c) = L + 1 /\ L \in Nat /\ k \in Nat /\ k \in 1..L
        BY <1>1, <1>2
      <4> HIDE DEF L
      <4> QED  BY <2>4, <4>1
    <3>2. c[i] = l[i - 1]
      BY <1>2, <3>1
    <3>3. i # Len(c) => c[i + 1] = l[i]
      <4>1. i # Len(c) => i + 1 \in 1..L + 1 /\ ~(i + 1 <= k) /\ i + 1 # k + 1
                          /\ (i + 1) - 1 = i
        <5>1. Len(c) = L + 1 /\ L \in Nat /\ k \in Nat /\ k \in 1..L
          BY <1>1, <1>2
        <5> HIDE DEF L
        <5> QED  BY <2>4, <5>1
      <4> QED  BY <1>2, <4>1
    <3> QED  BY <1>5, <3>1, <3>2, <3>3
  <2>5. i < k \/ i = k \/ i = k + 1 \/ k + 1 < i
    BY <1>1, <1>2
  <2> QED  BY <2>1, <2>2, <2>3, <2>4, <2>5
<1>7. ASSUME NEW i \in 1..Len(c), NEW j \in 1..Len(c), c[i] = c[j]
      PROVE  i = j
  <2> DEFINE At(a) == IF a <= k THEN a ELSE a - 1
  <2>1. \A a \in 1..L + 1 : a # k + 1 => At(a) \in 1..L /\ c[a] = l[At(a)]
    <3>1. L \in Nat /\ k \in 1..L
      BY <1>1
    <3> HIDE DEF L
    <3>2. \A a \in 1..L + 1 : a # k + 1 => At(a) \in 1..L
      BY <3>1
    <3>3. \A a \in 1..L + 1 : a # k + 1 => c[a] = l[At(a)]
      BY <1>2
    <3> QED  BY <3>2, <3>3
  <2>2. c[k + 1] = new
    <3>1. k + 1 \in 1..L + 1 /\ ~(k + 1 <= k)
      BY <1>1
    <3> QED  BY <1>2, <3>1
  <2>3. i \in 1..L + 1 /\ j \in 1..L + 1
    BY <1>2
  <2>4. i = k + 1 <=> j = k + 1
    <3>1. \A a \in 1..L + 1 : a # k + 1 => c[a] # new
      <4> HIDE DEF At, L
      <4> QED  BY <2>1 DEF L
    <3> HIDE DEF At, L
    <3> QED  BY <1>7, <2>2, <2>3, <3>1
  <2>5. CASE i # k + 1
    <3>1. At(i) \in 1..L /\ At(j) \in 1..L /\ l[At(i)] = l[At(j)]
      <4> HIDE DEF At, L
      <4> QED  BY <1>7, <2>1, <2>3, <2>4, <2>5
    <3>2. At(i) = At(j)
      <4> HIDE DEF At
      <4> QED  BY <3>1 DEF IsChain
    <3>3. j # k + 1 /\ k \in Int /\ i \in Int /\ j \in Int
      BY <1>1, <2>3, <2>4, <2>5
    <3> QED  BY <2>5, <3>2, <3>3
  <2> QED  BY <2>4, <2>5
<1> QED
  BY <1>2, <1>3, <1>4, <1>6, <1>7 DEF IsChain, c

(* Entries of memory are few.                                              *)
LEMMA ChainShort ==
    ASSUME NEW m, NEW l, IsChain(m, l), \A i \in 1..Len(l) : l[i] < Address(Limit)
    PROVE  Len(l) <= Address(Limit)
<1> DEFINE B == Address(Limit)
           L == Len(l)
           T == 0..B - 1
           f == [i \in 1..L |-> l[i]]
<1>1. l \in Seq(Nat) /\ L \in Nat \ {0} /\ B \in Nat
  BY LimitAddress DEF IsChain
<1>2. \A i \in 1..L : l[i] \in Nat
  BY <1>1, ElementOfSeq
<1>3. f \in Injection(1..L, T)
  <2> HIDE DEF B, L
  <2>1. \A i \in 1..L : l[i] \in T
    BY <1>1, <1>2 DEF B, L
  <2>2. f \in [1..L -> T]
    BY <2>1
  <2>3. \A i, j \in 1..L : f[i] = f[j] => i = j
    BY DEF IsChain, L
  <2> HIDE DEF f, T
  <2> QED  BY <2>2, <2>3 DEF Injection, IsInjective
<1>4. IsFiniteSet(T) /\ Cardinality(T) = B /\ IsFiniteSet(1..L) /\ Cardinality(1..L) = L
  <2> HIDE DEF B, L
  <2> QED  BY <1>1, FS_Interval
<1>5. Cardinality(1..L) <= Cardinality(T)
  <2> HIDE DEF f, T
  <2> QED  BY <1>3, <1>4, FS_Injection
<1> QED
  BY <1>4, <1>5

(* The entries of a list that has grown, ...                               *)
LEMMA EntriesLinkedIn ==
    ASSUME NEW m, NEW l \in Seq(Nat), Len(l) \in Nat \ {0}, NEW k \in 1..Len(l), NEW new \in Nat
    PROVE  EntriesOf(m, Lists!PlaceAfter(l, k, new)) =
               Lists!PlaceAfter(EntriesOf(m, l), k - 1, EntryAt(m, new))
<1> DEFINE c == Lists!PlaceAfter(l, k, new)
           L == Len(l)
           E == EntriesOf(m, l)
<1>1. /\ Len(c) = L + 1
      /\ \A i \in 1 .. L + 1 :
            c[i] = IF i <= k THEN l[i] ELSE IF i = k + 1 THEN new ELSE l[i - 1]
  <2>1. k \in 0..Len(l)
    OBVIOUS
  <2>2. Len(Lists!PlaceAfter(l, k, new)) = Len(l) + 1
    <3> HIDE DEF c, L
    <3> QED  BY <2>1, PlacedFacts
  <2> QED  BY <2>2 DEF Lists!PlaceAfter
<1> HIDE DEF c
<1>2. EntriesOf(m, c) = [i \in 1..L |-> EntryAt(m, c[i + 1])]
  <2>1. Len(c) - 1 = L
    BY <1>1
  <2> QED  BY <2>1 DEF EntriesOf
<1>3. E = [i \in 1..L - 1 |-> EntryAt(m, l[i + 1])]
  BY DEF EntriesOf
<1>4. Len(E) = L - 1
  <2>1. L - 1 \in Nat
    OBVIOUS
  <2> HIDE DEF E, L
  <2> QED  BY <1>3, <2>1
<1>5. Lists!PlaceAfter(E, k - 1, EntryAt(m, new)) =
         [i \in 1..L |-> IF i <= k - 1 THEN E[i]
                         ELSE IF i = (k - 1) + 1 THEN EntryAt(m, new) ELSE E[i - 1]]
  <2>1. Len(E) + 1 = L
    BY <1>4
  <2> HIDE DEF E, L
  <2> QED  BY <2>1 DEF Lists!PlaceAfter
<1>6. ASSUME NEW i \in 1..L
      PROVE  EntryAt(m, c[i + 1]) =
                IF i <= k - 1 THEN E[i]
                ELSE IF i = (k - 1) + 1 THEN EntryAt(m, new) ELSE E[i - 1]
  <2>1. CASE i <= k - 1
    <3>1. i + 1 \in 1..L + 1 /\ i + 1 <= k /\ i \in 1..L - 1
      BY <2>1
    <3>2. c[i + 1] = l[i + 1] /\ E[i] = EntryAt(m, l[i + 1])
      BY <1>1, <1>3, <3>1
    <3> QED  BY <2>1, <3>2
  <2>2. CASE i = k
    <3>1. i + 1 \in 1..L + 1 /\ ~(i + 1 <= k) /\ i + 1 = k + 1 /\ ~(i <= k - 1) /\ i = (k - 1) + 1
      BY <2>2
    <3>2. c[i + 1] = new
      BY <1>1, <3>1
    <3> QED  BY <3>1, <3>2
  <2>3. CASE k < i
    <3>1. /\ i + 1 \in 1..L + 1 /\ ~(i + 1 <= k) /\ i + 1 # k + 1 /\ ~(i <= k - 1) /\ i # (k - 1) + 1
          /\ i - 1 \in 1..L - 1 /\ (i - 1) + 1 = i /\ (i + 1) - 1 = i
      BY <2>3
    <3>2. c[i + 1] = l[i] /\ E[i - 1] = EntryAt(m, l[i])
      BY <1>1, <1>3, <3>1
    <3> QED  BY <3>1, <3>2
  <2> QED  BY <2>1, <2>2, <2>3
<1>7. EntriesOf(m, c) = Lists!PlaceAfter(E, k - 1, EntryAt(m, new))
  <2> HIDE DEF E, L
  <2> QED  BY <1>2, <1>5, <1>6
<1> QED
  BY <1>7 DEF c

(* ... and of one where an entry has changed.                              *)
LEMMA EntryChanged ==
    ASSUME NEW m, NEW m1, NEW l, Len(l) \in Nat, NEW k \in 2..Len(l),
           \A i \in 2..Len(l) : i # k => EntryAt(m1, l[i]) = EntryAt(m, l[i])
    PROVE  EntriesOf(m1, l) = [EntriesOf(m, l) EXCEPT ![k - 1] = EntryAt(m1, l[k])]
<1>1. \A i \in 1..Len(l) - 1 : i + 1 \in 2..Len(l) /\ (i + 1 = k <=> i = k - 1)
  OBVIOUS
<1> QED
  BY <1>1 DEF EntriesOf

-----------------------------------------------------------------------------
(* The pages of the entries.                                               *)

(* The bookkeeping, as long as no entry was recycled.                      *)
BookInv ==
    /\ heapPos \in Nat /\ 3 <= heapPos /\ heapPos <= Limit
    /\ pageEntriesCount \in 0..MaxEntries
    /\ nodeLocStack = nodeLocStackTop
    /\ listPages \subseteq 1..heapPos - 1
    /\ \E q \in listPages : pageEntryStart = Address(q)

(* An entry lies in one page for entries; in the current one it is among   *)
(* those that were placed.                                                 *)
InPage(a, p) ==
    /\ a \in Nat /\ p \in listPages
    /\ Address(p) <= a /\ a + 3 <= Address(p) + PageWordCount
    /\ Address(p) = pageEntryStart => a + 3 <= pageEntryStart + 3 * pageEntriesCount
InPages(a) == \E p \in listPages : InPage(a, p)

(* The entries that are counted into a page fit into it.                   *)
LEMMA EntriesPerPage ==
    /\ MaxEntries \in Nat \ {0}
    /\ 3 * MaxEntries <= PageWordCount
BY PageWordsAssumption DEF MaxEntries

(* Entries come after the null pointer's and before the end of memory.     *)
LEMMA InPagesRange ==
    ASSUME BookInv, NEW a, InPages(a)
    PROVE  a \in Nat /\ 3 <= a /\ a + 3 <= Address(heapPos) /\ a < Address(Limit)
<1>1. PICK p \in listPages : InPage(a, p)
  BY DEF InPages
<1>2. p \in Nat /\ 1 <= p /\ p < heapPos /\ heapPos \in Nat /\ heapPos <= Limit /\ Limit \in Nat
  BY PageWordsAssumption DEF BookInv
<1>3. /\ Address(1) <= Address(p) /\ Address(p) + PageWordCount <= Address(heapPos)
      /\ Address(heapPos) <= Address(Limit) /\ Address(1) = PageWordCount
      /\ Address(p) \in Nat /\ Address(heapPos) \in Nat /\ Address(Limit) \in Nat
      /\ PageWordCount \in Nat /\ PageWordCount >= 3
  BY <1>2, Addresses
<1> QED
  BY <1>1, <1>3 DEF InPage

(* A page is not full: the new entry lies behind those placed in it.       *)
LEMMA PlacedInPage ==
    ASSUME BookInv, NEW used \in Nat, Prepare(used), ~BookkeepingFull,
           otherPages' = otherPages
    PROVE  /\ Lists!PrepareEntry(used)
           /\ BookInv'
           /\ Prepared(used).at \in Nat
           /\ \A a : a = Prepared(used).at => InPages(a)'
           /\ \A a : InPages(a) => InPages(a)' /\ Apart(a, Prepared(used).at)
<1> DEFINE at == pageEntryStart + 3 * pageEntriesCount
<1>1. Prepared(used) = [at |-> at, stack |-> nodeLocStack, start |-> pageEntryStart,
                        count |-> pageEntriesCount + 1, pages |-> {}]
  BY DEF Prepared, BookInv
<1>2. /\ heapPos + used <= Limit /\ heapPos' = heapPos + used
      /\ nodeLocStack' = nodeLocStack /\ pageEntryStart' = pageEntryStart
      /\ pageEntriesCount' = pageEntriesCount + 1 /\ listPages' = listPages
  <2>1. Cardinality({}) = 0
    BY FS_EmptySet
  <2>2. /\ heapPos + used + 0 <= Limit /\ heapPos' = heapPos + used + 0
        /\ nodeLocStack' = nodeLocStack /\ pageEntryStart' = pageEntryStart
        /\ pageEntriesCount' = pageEntriesCount + 1 /\ listPages' = listPages \cup {}
    <3> HIDE DEF at
    <3> QED  BY <1>1, <2>1 DEF Prepare
  <2>3. heapPos + used + 0 = heapPos + used
    BY DEF BookInv
  <2> QED  BY <2>2, <2>3
<1>3. /\ heapPos \in Nat /\ heapPos >= 3 /\ listPages \subseteq 1..heapPos - 1
      /\ pageEntriesCount \in Nat /\ pageEntriesCount + 1 <= MaxEntries
  BY EntriesPerPage DEF BookInv, BookkeepingFull
<1>4. PICK q \in listPages : pageEntryStart = Address(q)
  BY DEF BookInv
<1>5. /\ q \in Nat /\ Address(q) \in Nat /\ at = Address(q) + 3 * pageEntriesCount /\ at \in Nat
      /\ at + 3 <= Address(q) + PageWordCount /\ Address(q) <= at
      /\ PageWordCount \in Nat
  BY <1>3, <1>4, Addresses, EntriesPerPage
<1>6. Lists!PrepareEntry(used)
  <2>1. ~Lists!PageFull
    BY DEF Lists!PageFull, BookkeepingFull
  <2>2. Lists!Room(used)
    BY <1>2, <1>3, PageWordsAssumption DEF Lists!Room
  <2>3. heapPos' - 1 = heapPos - 1 + used
    BY <1>2, <1>3
  <2>4. {p - 1 : p \in listPages \cup otherPages}' = {p - 1 : p \in listPages \cup otherPages}
    BY <1>2
  <2> QED  BY <1>2, <2>1, <2>2, <2>3, <2>4 DEF Lists!PrepareEntry
<1>7. BookInv'
  <2>1. \E p \in listPages' : pageEntryStart' = Address(p)
    BY <1>2, <1>4
  <2>2. listPages' \subseteq 1..heapPos' - 1
    BY <1>2, <1>3
  <2>3. nodeLocStack' = nodeLocStackTop
    BY <1>2 DEF BookInv
  <2>4. /\ heapPos' \in Nat /\ 3 <= heapPos' /\ heapPos' <= Limit
        /\ pageEntriesCount' \in 0..MaxEntries
    BY <1>2, <1>3, EntriesPerPage
  <2> QED  BY <2>1, <2>2, <2>3, <2>4 DEF BookInv
<1>8. Prepared(used).at = at
  <2> HIDE DEF at
  <2> QED  BY <1>1
<1>9. ASSUME NEW a, a = at PROVE InPages(a)'
  <2>1. /\ at \in Nat /\ q \in listPages'
        /\ Address(q) <= at /\ at + 3 <= Address(q) + PageWordCount
        /\ Address(q) = pageEntryStart' => at + 3 <= pageEntryStart' + 3 * pageEntriesCount'
    <3>1. at + 3 <= pageEntryStart + 3 * (pageEntriesCount + 1)
      BY <1>3, <1>4, <1>5
    <3> HIDE DEF at
    <3> QED  BY <1>2, <1>5, <3>1
  <2> HIDE DEF at
  <2> QED  BY <1>9, <2>1 DEF InPages, InPage
<1>10. ASSUME NEW a, InPages(a)
       PROVE  InPages(a)' /\ Apart(a, at)
  <2>1. PICK p \in listPages : InPage(a, p)
    BY <1>10 DEF InPages
  <2>2. p \in Nat /\ Address(p) \in Nat /\ a \in Nat
    BY <1>3, <2>1, Addresses DEF InPage
  <2>3. Address(p) = pageEntryStart => a + 3 <= at
    BY <2>1 DEF InPage
  <2>4. InPages(a)'
    <3>1. Address(p) = pageEntryStart' => a + 3 <= pageEntryStart' + 3 * pageEntriesCount'
      <4>1. Address(p) = pageEntryStart => a + 3 <= pageEntryStart + 3 * (pageEntriesCount + 1)
        BY <1>3, <1>4, <1>5, <2>2, <2>3
      <4> QED  BY <1>2, <4>1
    <3>2. p \in listPages'
      BY <1>2
    <3> QED  BY <2>1, <3>1, <3>2 DEF InPages, InPage
  <2>5. Apart(a, at)
    <3>1. CASE p = q
      BY <1>4, <2>3, <3>1 DEF Apart
    <3>2. CASE p < q
      <4>1. Address(p) + PageWordCount <= Address(q)
        BY <1>5, <2>2, <3>2, Addresses
      <4>2. a + 3 <= Address(p) + PageWordCount
        BY <2>1 DEF InPage
      <4> HIDE DEF at
      <4> QED  BY <1>5, <2>2, <4>1, <4>2 DEF Apart
    <3>3. CASE q < p
      <4>1. Address(q) + PageWordCount <= Address(p)
        BY <1>5, <2>2, <3>3, Addresses
      <4>2. Address(p) <= a
        BY <2>1 DEF InPage
      <4> HIDE DEF at
      <4> QED  BY <1>5, <2>2, <4>1, <4>2 DEF Apart
    <3> QED  BY <1>5, <2>2, <3>1, <3>2, <3>3
  <2> QED  BY <2>4, <2>5
<1> QED
  <2> HIDE DEF at
  <2> QED  BY <1>5, <1>6, <1>7, <1>8, <1>9, <1>10 DEF at

(* The page is full: the new entry begins a page behind all others.        *)
LEMMA PlacedInNewPage ==
    ASSUME BookInv, NEW used \in Nat, Prepare(used), BookkeepingFull,
           otherPages' = otherPages
    PROVE  /\ Lists!PrepareEntry(used)
           /\ BookInv'
           /\ Prepared(used).at \in Nat
           /\ \A a : a = Prepared(used).at => InPages(a)'
           /\ \A a : InPages(a) => InPages(a)' /\ Apart(a, Prepared(used).at)
<1> DEFINE P == heapPos + used
           at == Address(P)
<1>1. Prepared(used) = [at |-> at, stack |-> nodeLocStack, start |-> at,
                        count |-> 1, pages |-> {P}]
  BY DEF Prepared, BookInv
<1>2. /\ P + 1 <= Limit /\ heapPos' = P + 1
      /\ nodeLocStack' = nodeLocStack /\ pageEntryStart' = at
      /\ pageEntriesCount' = 1 /\ listPages' = listPages \cup {P}
  <2>1. Cardinality({P}) = 1
    BY FS_Singleton
  <2> HIDE DEF at
  <2> QED  BY <1>1, <2>1 DEF Prepare
<1>3. /\ heapPos \in Nat /\ heapPos >= 3 /\ listPages \subseteq 1..heapPos - 1
      /\ P \in Nat /\ heapPos <= P /\ Limit \in Nat
  BY PageWordsAssumption DEF BookInv
<1>4. /\ at \in Nat /\ PageWordCount \in Nat /\ PageWordCount >= 3 /\ MaxEntries \in Nat
      /\ MaxEntries >= 1 /\ at + 3 <= at + 3 * 1
  BY <1>3, Addresses, EntriesPerPage
<1>5. Lists!PrepareEntry(used)
  <2>1. Lists!PageFull
    BY DEF Lists!PageFull, BookkeepingFull
  <2>2. Lists!Room(used + 1)
    BY <1>2, <1>3 DEF Lists!Room
  <2>3. heapPos' - 1 = heapPos - 1 + used + 1
    BY <1>2, <1>3
  <2>4. {p - 1 : p \in listPages \cup otherPages}'
          = {p - 1 : p \in listPages \cup otherPages} \cup {heapPos - 1 + used}
    <3>1. heapPos - 1 + used = P - 1
      BY <1>3
    <3>2. {p - 1 : p \in (listPages \cup {P}) \cup otherPages}
            = {p - 1 : p \in listPages \cup otherPages} \cup {P - 1}
      <4> HIDE DEF P
      <4> QED  OBVIOUS
    <3> HIDE DEF P
    <3> QED  BY <1>2, <3>1, <3>2
  <2> QED  BY <1>2, <2>1, <2>2, <2>3, <2>4 DEF Lists!PrepareEntry
<1>6. BookInv'
  <2>1. \E p \in listPages' : pageEntryStart' = Address(p)
    BY <1>2
  <2>2. listPages' \subseteq 1..heapPos' - 1
    BY <1>2, <1>3
  <2>3. nodeLocStack' = nodeLocStackTop
    BY <1>2 DEF BookInv
  <2>4. /\ heapPos' \in Nat /\ 3 <= heapPos' /\ heapPos' <= Limit
        /\ pageEntriesCount' \in 0..MaxEntries
    BY <1>2, <1>3, <1>4
  <2> QED  BY <2>1, <2>2, <2>3, <2>4 DEF BookInv
<1>7. Prepared(used).at = at
  <2> HIDE DEF at
  <2> QED  BY <1>1
<1>8. ASSUME NEW a, a = at PROVE InPages(a)'
  <2>1. /\ at \in Nat /\ P \in listPages'
        /\ Address(P) <= at /\ at + 3 <= Address(P) + PageWordCount
        /\ Address(P) = pageEntryStart' => at + 3 <= pageEntryStart' + 3 * pageEntriesCount'
    <3> HIDE DEF P
    <3>1. at \in Nat /\ Address(P) = at
      BY <1>4
    <3> HIDE DEF at
    <3> QED  BY <1>2, <1>4, <3>1
  <2> HIDE DEF at, P
  <2> QED  BY <1>8, <2>1 DEF InPages, InPage
<1>9. ASSUME NEW a, InPages(a)
      PROVE  InPages(a)' /\ Apart(a, at)
  <2>1. PICK p \in listPages : InPage(a, p)
    BY <1>9 DEF InPages
  <2>2. p \in Nat /\ Address(p) \in Nat /\ a \in Nat /\ p < P
    BY <1>3, <2>1, Addresses DEF InPage
  <2>3. Address(p) + PageWordCount <= at
    <3> HIDE DEF P
    <3> QED  BY <1>3, <2>2, Addresses
  <2>4. InPages(a)'
    <3>1. Address(p) # pageEntryStart'
      <4> HIDE DEF at
      <4> QED  BY <1>2, <1>4, <2>2, <2>3
    <3>2. p \in listPages'
      BY <1>2
    <3> QED  BY <2>1, <3>1, <3>2 DEF InPages, InPage
  <2>5. Apart(a, at)
    <3>1. a + 3 <= Address(p) + PageWordCount
      BY <2>1 DEF InPage
    <3> HIDE DEF at
    <3> QED  BY <1>4, <2>2, <2>3, <3>1 DEF Apart
  <2> QED  BY <2>4, <2>5
<1> QED
  <2> HIDE DEF at
  <2> QED  BY <1>4, <1>5, <1>6, <1>7, <1>8, <1>9 DEF at

(* Where the next entry goes no other lies, and the bookkeeping is that of *)
(* module PageList.                                                        *)
LEMMA PlacePrepared ==
    ASSUME BookInv, NEW used \in Nat, Prepare(used), otherPages' = otherPages
    PROVE  /\ Lists!PrepareEntry(used)
           /\ BookInv'
           /\ Prepared(used).at \in Nat
           /\ \A a : a = Prepared(used).at => InPages(a)'
           /\ \A a : InPages(a) => InPages(a)' /\ Apart(a, Prepared(used).at)
BY PlacedInPage, PlacedInNewPage
-----------------------------------------------------------------------------
(* Entries as module PageList writes them.                                 *)

(* They lie in address order, below the given page.                        *)
SortedTo(E, top) ==
    /\ E \in Seq(Lists!Entry)
    /\ \A i \in 1..Len(E) : Lists!End(E[i]) <= top
    /\ \A i, j \in 1..Len(E) : i < j => Lists!End(E[i]) <= E[j].location

(* The caller's block has a used entry where it begins, in a list that     *)
(* begins at page 1.                                                       *)
UsedAt(E, x) == \E i \in 1..Len(E) : ~E[i].free /\ E[i].location = x
BackedBy(h, E) ==
    /\ h.count \in Nat \ {0}
    /\ \E p \in Nat \ {0} : h.location = Address(p) /\ UsedAt(E, p - 1)

(* The used entries of the one are among those of the other.               *)
UsedStay(E, F) == \A i \in 1..Len(E) : ~E[i].free => \E a \in 1..Len(F) : F[a] = E[i]

(* The entries after the i-th has been split and its first part is used.   *)
SplitEntries(E, i, n) ==
    Lists!PlaceAfter(
        [E EXCEPT ![i] = [location |-> E[i].location, free |-> FALSE, size |-> n]], i,
        [location |-> E[i].location + n, free |-> TRUE, size |-> E[i].size - n])

(* An entry's fields, and that it labels a page at least.                  *)
LEMMA EntryNumbers ==
    ASSUME NEW e \in Lists!Entry
    PROVE  /\ e.location \in Nat /\ e.size \in Nat \ {0} /\ e.free \in BOOLEAN
           /\ Lists!End(e) = e.location + e.size
           /\ Lists!End(e) \in Nat /\ e.location < Lists!End(e)
BY DEF Lists!Entry, Lists!End

(* The same of the entries of a list.                                      *)
LEMMA SortedNumbers ==
    ASSUME NEW E, NEW top, SortedTo(E, top)
    PROVE  /\ Len(E) \in Nat
           /\ \A i \in 1..Len(E) :
                 /\ E[i] \in Lists!Entry /\ E[i].location \in Nat /\ E[i].size \in Nat \ {0}
                 /\ Lists!End(E[i]) = E[i].location + E[i].size
                 /\ Lists!End(E[i]) \in Nat /\ E[i].location < Lists!End(E[i])
<1>1. E \in Seq(Lists!Entry)
  BY DEF SortedTo
<1>2. Len(E) \in Nat /\ \A i \in 1..Len(E) : E[i] \in Lists!Entry
  BY <1>1, LenProperties, ElementOfSeq
<1> QED
  BY <1>2, EntryNumbers

(* No two begin at the same page.                                          *)
LEMMA SortedDistinct ==
    ASSUME NEW E, NEW top, SortedTo(E, top), NEW i \in 1..Len(E), NEW j \in 1..Len(E),
           E[i].location = E[j].location
    PROVE  i = j
<1>1. /\ E[i].location \in Nat /\ E[j].location \in Nat
      /\ Lists!End(E[i]) \in Nat /\ Lists!End(E[j]) \in Nat
      /\ E[i].location < Lists!End(E[i]) /\ E[j].location < Lists!End(E[j])
  BY SortedNumbers
<1>2. /\ i < j => Lists!End(E[i]) <= E[j].location
      /\ j < i => Lists!End(E[j]) <= E[i].location
  BY DEF SortedTo
<1>3. ~(i < j) /\ ~(j < i)
  BY <1>1, <1>2
<1>4. i \in Int /\ j \in Int
  OBVIOUS
<1> QED
  BY <1>3, <1>4

(* The bound may rise.                                                     *)
LEMMA SortedHigher ==
    ASSUME NEW E, NEW low \in Nat, NEW top \in Nat, SortedTo(E, low), low <= top
    PROVE  SortedTo(E, top)
<1>1. ASSUME NEW i \in 1..Len(E) PROVE Lists!End(E[i]) <= top
  <2>1. Lists!End(E[i]) \in Nat /\ Lists!End(E[i]) <= low
    BY SortedNumbers DEF SortedTo
  <2> QED  BY <2>1
<1> QED
  BY <1>1 DEF SortedTo

(* A free bit changes.                                                     *)
WithBit(E, k, f) == [E EXCEPT ![k].free = f]

(* Setting or clearing a free bit moves no entry.                          *)
LEMMA SortedMarked ==
    ASSUME NEW E, NEW top, SortedTo(E, top), NEW i \in 1..Len(E), NEW f \in BOOLEAN,
           NEW F, F = WithBit(E, i, f)
    PROVE  /\ SortedTo(F, top) /\ Len(F) = Len(E)
           /\ \A j \in 1..Len(E) : (j # i => F[j] = E[j]) /\ F[j].location = E[j].location
           /\ F[i].free = f
<1> DEFINE e == [E[i] EXCEPT !.free = f]
<1>1. /\ E \in Seq(Lists!Entry) /\ Len(E) \in Nat /\ E = [j \in 1..Len(E) |-> E[j]]
      /\ \A j \in 1..Len(E) : E[j] \in Lists!Entry
  BY SortedNumbers, SeqDef DEF SortedTo
<1>2. /\ e \in Lists!Entry /\ e.location = E[i].location /\ e.size = E[i].size
      /\ e.free = f
  <2>1. E[i] \in Lists!Entry
    BY <1>1
  <2> QED  BY <2>1 DEF Lists!Entry
<1>3. F = [j \in 1..Len(E) |-> IF j = i THEN e ELSE E[j]]
  BY <1>1 DEF WithBit
<1> HIDE DEF e
<1>4. /\ F \in [1..Len(E) -> Lists!Entry]
      /\ \A j \in 1..Len(E) : F[j] = IF j = i THEN e ELSE E[j]
  BY <1>1, <1>2, <1>3
<1>5. F \in Seq(Lists!Entry) /\ Len(F) = Len(E)
  <2>1. F \in Seq(Lists!Entry)
    BY <1>1, <1>4, SeqDef
  <2> QED  BY <1>1, <1>4, <2>1, LenProperties
<1>6. \A j \in 1..Len(E) : F[j].location = E[j].location /\ Lists!End(F[j]) = Lists!End(E[j])
  BY <1>2, <1>4 DEF Lists!End
<1>7. SortedTo(F, top)
  BY <1>5, <1>6 DEF SortedTo
<1> QED
  BY <1>2, <1>4, <1>5, <1>6, <1>7

(* An entry is put behind the others.                                      *)
LEMMA SortedAppended ==
    ASSUME NEW E, NEW low \in Nat, SortedTo(E, low), NEW e \in Lists!Entry,
           NEW top \in Nat, e.location = low, Lists!End(e) <= top
    PROVE  /\ SortedTo(Lists!PlaceAfter(E, Len(E), e), top)
           /\ Len(Lists!PlaceAfter(E, Len(E), e)) = Len(E) + 1
           /\ \A j \in 1..Len(E) : Lists!PlaceAfter(E, Len(E), e)[j] = E[j]
           /\ Lists!PlaceAfter(E, Len(E), e)[Len(E) + 1] = e
<1> DEFINE F == Lists!PlaceAfter(E, Len(E), e)
           n == Len(E)
<1>1. /\ E \in Seq(Lists!Entry) /\ n \in Nat /\ n \in 0..n
      /\ \A j \in 1..n : E[j] \in Lists!Entry /\ Lists!End(E[j]) \in Nat
  <2>1. E \in Seq(Lists!Entry)
    BY DEF SortedTo
  <2>2. n \in Nat /\ \A j \in 1..n : E[j] \in Lists!Entry /\ Lists!End(E[j]) \in Nat
    BY SortedNumbers
  <2> QED  BY <2>1, <2>2
<1>2. F \in Seq(Lists!Entry)
  <2> HIDE DEF F, n
  <2> QED  BY <1>1, PlacedFacts DEF F, n
<1>3. Len(F) = n + 1
  <2>1. n + 1 \in Nat
    BY <1>1
  <2> QED  BY <2>1 DEF Lists!PlaceAfter
<1>4. \A j \in 1..n + 1 : F[j] = IF j <= n THEN E[j] ELSE IF j = n + 1 THEN e ELSE E[j - 1]
  BY DEF Lists!PlaceAfter
<1> HIDE DEF F
<1>5. (\A j \in 1..n : F[j] = E[j]) /\ F[n + 1] = e
  <2>1. \A j \in 1..n : j \in 1..n + 1 /\ j <= n
    BY <1>1
  <2>2. n + 1 \in 1..n + 1 /\ ~(n + 1 <= n)
    BY <1>1
  <2> HIDE DEF n
  <2> QED  BY <1>4, <2>1, <2>2
<1>6. low <= top
  <2>1. Lists!End(e) \in Nat /\ e.location < Lists!End(e)
    BY EntryNumbers
  <2> QED  BY <2>1
<1>7. ASSUME NEW j \in 1..n + 1 PROVE Lists!End(F[j]) <= top
  <2>1. CASE j \in 1..n
    <3>1. Lists!End(E[j]) <= low
      BY <2>1 DEF SortedTo
    <3>2. Lists!End(F[j]) = Lists!End(E[j]) /\ Lists!End(E[j]) \in Nat
      BY <1>1, <1>5, <2>1
    <3> QED  BY <1>6, <3>1, <3>2
  <2>2. CASE j = n + 1
    BY <1>5, <2>2
  <2>3. j \in 1..n \/ j = n + 1
    BY <1>1
  <2> QED  BY <2>1, <2>2, <2>3
<1>8. ASSUME NEW i \in 1..n + 1, NEW j \in 1..n + 1, i < j
      PROVE  Lists!End(F[i]) <= F[j].location
  <2>1. i \in 1..n /\ (j \in 1..n \/ j = n + 1)
    <3> HIDE DEF n
    <3> QED  BY <1>1, <1>8
  <2>2. CASE j \in 1..n
    BY <1>5, <1>8, <2>1, <2>2 DEF SortedTo
  <2>3. CASE j = n + 1
    BY <1>5, <2>1, <2>3 DEF SortedTo
  <2> QED  BY <2>1, <2>2, <2>3
<1>9. SortedTo(F, top)
  <2> HIDE DEF n
  <2> QED  BY <1>2, <1>3, <1>7, <1>8 DEF SortedTo
<1> QED
  BY <1>3, <1>5, <1>9 DEF F

(* Where the second part of a split entry ends.                            *)
LEMMA Regroup == \A a, b, c \in Nat : (a + b) + (c - b) = a + c
OBVIOUS

(* An entry is split in two.                                               *)
LEMMA SortedSplit ==
    ASSUME NEW E, NEW top \in Nat, SortedTo(E, top), NEW i \in 1..Len(E),
           NEW n \in Nat \ {0}, n < E[i].size, E[i].free,
           NEW F, F = SplitEntries(E, i, n)
    PROVE  SortedTo(F, top) /\ UsedStay(E, F) /\ UsedAt(F, E[i].location)
<1>0. PICK K, R :
         /\ K = [location |-> E[i].location, free |-> FALSE, size |-> n]
         /\ R = [location |-> E[i].location + n, free |-> TRUE, size |-> E[i].size - n]
  OBVIOUS
<1> DEFINE N == Len(E)
           G == [E EXCEPT ![i] = K]
           Inside(j, o) ==
              /\ F[j].location \in Nat /\ Lists!End(F[j]) \in Nat
              /\ E[o].location <= F[j].location
              /\ Lists!End(F[j]) <= Lists!End(E[o])
<1>1. N \in Nat /\ i \in 1..N
  BY SortedNumbers
<1>2. \A j \in 1..N : /\ E[j] \in Lists!Entry /\ E[j].location \in Nat
                      /\ Lists!End(E[j]) \in Nat /\ Lists!End(E[j]) <= top
                      /\ E[j].location < Lists!End(E[j])
  BY SortedNumbers DEF SortedTo
<1>3. PICK loc \in Nat, size \in Nat : loc = E[i].location /\ size = E[i].size /\ n < size
  BY SortedNumbers
<1>4. /\ K.location = loc /\ K.size = n /\ ~K.free /\ K \in Lists!Entry
      /\ R.location = loc + n /\ R.size = size - n /\ R \in Lists!Entry
  <2>1. size - n \in Nat \ {0} /\ loc + n \in Nat
    BY <1>3
  <2> QED  BY <1>0, <1>3, <2>1 DEF Lists!Entry
<1>5. /\ Lists!End(E[i]) = loc + size /\ Lists!End(K) = loc + n /\ Lists!End(R) = loc + size
  <2>1. (loc + n) + (size - n) = loc + size
    BY Regroup, Zenon
  <2> QED  BY <1>3, <1>4, <2>1 DEF Lists!End
<1>6. /\ Len(G) = N /\ G \in [1..N -> Lists!Entry]
      /\ \A j \in 1..N : G[j] = IF j = i THEN K ELSE E[j]
  <2>1. E \in [1..N -> Lists!Entry]
    BY <1>1, SeqDef, LenProperties DEF SortedTo
  <2>2. G \in [1..N -> Lists!Entry]
    BY <1>4, <2>1
  <2>3. G \in Seq(Lists!Entry)
    BY <1>1, <2>2, SeqDef
  <2> HIDE DEF N
  <2> QED  BY <1>1, <2>1, <2>2, <2>3, LenProperties
<1>7. F = [j \in 1..N + 1 |-> IF j <= i THEN G[j] ELSE IF j = i + 1 THEN R ELSE G[j - 1]]
  <2>1. F = Lists!PlaceAfter(G, i, R)
    BY <1>0 DEF SplitEntries
  <2> HIDE DEF G
  <2> QED  BY <1>6, <2>1 DEF Lists!PlaceAfter
<1>8. /\ F[i] = K /\ F[i + 1] = R
      /\ \A j \in 1..i - 1 : F[j] = E[j]
      /\ \A j \in i + 2..N + 1 : F[j] = E[j - 1]
  <2> HIDE DEF G
  <2>1. F[i] = G[i]
    <3>1. i \in 1..N + 1 /\ i <= i
      BY <1>1
    <3> QED  BY <1>7, <3>1
  <2>2. F[i + 1] = R
    <3>1. i + 1 \in 1..N + 1 /\ ~(i + 1 <= i)
      BY <1>1
    <3> QED  BY <1>7, <3>1
  <2>3. ASSUME NEW j \in 1..i - 1 PROVE F[j] = E[j]
    <3>1. j \in 1..N + 1 /\ j <= i /\ j \in 1..N /\ j # i
      BY <1>1
    <3> HIDE DEF N
    <3> QED  BY <1>6, <1>7, <3>1
  <2>4. ASSUME NEW j \in i + 2..N + 1 PROVE F[j] = E[j - 1]
    <3>1. j \in 1..N + 1 /\ ~(j <= i) /\ j # i + 1 /\ j - 1 \in 1..N /\ j - 1 # i
      BY <1>1
    <3> HIDE DEF N
    <3> QED  BY <1>6, <1>7, <3>1
  <2> HIDE DEF N
  <2> QED  BY <1>1, <1>6, <2>1, <2>2, <2>3, <2>4
<1> HIDE DEF G, N
<1>9. Len(F) = N + 1 /\ F \in Seq(Lists!Entry)
  <2>1. ASSUME NEW j \in 1..N + 1 PROVE F[j] \in Lists!Entry
    <3>1. j \in 1..i - 1 \/ j = i \/ j = i + 1 \/ j \in i + 2..N + 1
      BY <1>1
    <3>2. j \in 1..i - 1 => j \in 1..N
      BY <1>1
    <3>3. j \in i + 2..N + 1 => j - 1 \in 1..N
      BY <1>1
    <3> QED  BY <1>2, <1>4, <1>8, <3>1, <3>2, <3>3
  <2>2. F \in [1..N + 1 -> Lists!Entry] /\ N + 1 \in Nat
    <3>1. F = [j \in 1..N + 1 |-> F[j]]
      BY <1>7
    <3>2. N + 1 \in Nat
      BY <1>1
    <3> QED  BY <2>1, <3>1, <3>2, Zenon
  <2>3. F \in Seq(Lists!Entry)
    BY <2>2, SeqDef
  <2> QED  BY <2>2, <2>3, LenProperties
<1>10. ASSUME NEW j \in 1..i PROVE Inside(j, j)
  <2>1. CASE j = i
    <3>1. loc <= loc /\ loc + n <= loc + size /\ loc + n \in Nat
      BY <1>3
    <3> QED  BY <1>3, <1>4, <1>5, <1>8, <2>1, <3>1
  <2>2. CASE j # i
    <3>1. j \in 1..i - 1 /\ j \in 1..N
      BY <1>1, <2>2
    <3>2. F[j] = E[j] /\ E[j].location \in Nat /\ Lists!End(E[j]) \in Nat
      BY <1>2, <1>8, <3>1
    <3> QED  BY <3>2
  <2> QED  BY <2>1, <2>2
<1>11. ASSUME NEW j \in i + 1..N + 1 PROVE Inside(j, j - 1)
  <2>1. CASE j = i + 1
    <3>1. loc <= loc + n /\ loc + n \in Nat /\ loc + size \in Nat /\ loc + size <= loc + size /\ j - 1 = i
      BY <1>1, <1>3, <2>1
    <3>2. F[j].location = loc + n /\ Lists!End(F[j]) = loc + size
      BY <1>4, <1>5, <1>8, <2>1
    <3> QED  BY <1>3, <1>5, <3>1, <3>2
  <2>2. CASE j # i + 1
    <3>1. j \in i + 2..N + 1 /\ j - 1 \in 1..N
      BY <1>1, <2>2
    <3>2. F[j] = E[j - 1] /\ E[j - 1].location \in Nat /\ Lists!End(E[j - 1]) \in Nat
      BY <1>2, <1>8, <3>1
    <3> QED  BY <3>2
  <2> QED  BY <2>1, <2>2
<1>12. ASSUME NEW a \in 1..N + 1, NEW b \in 1..N + 1, a < b
       PROVE  Lists!End(F[a]) <= F[b].location
  <2>1. CASE a = i /\ b = i + 1
    <3>1. loc + n <= loc + n
      BY <1>3
    <3> QED  BY <1>4, <1>5, <1>8, <2>1, <3>1
  <2>2. CASE ~(a = i /\ b = i + 1)
    <3>1. PICK c \in 1..N, d \in 1..N : c < d /\ Inside(a, c) /\ Inside(b, d)
      <4> HIDE DEF Inside
      <4>1. CASE b <= i
        <5>1. a \in 1..i /\ b \in 1..i /\ a \in 1..N /\ b \in 1..N
          BY <1>1, <1>12, <4>1
        <5> QED  BY <1>10, <1>12, <5>1
      <4>2. CASE a <= i /\ b > i
        <5>1. /\ a \in 1..i /\ b \in i + 1..N + 1 /\ a < b - 1
              /\ a \in 1..N /\ b - 1 \in 1..N
          BY <1>1, <2>2, <4>2
        <5> QED  BY <1>10, <1>11, <5>1
      <4>3. CASE a > i
        <5>1. /\ a \in i + 1..N + 1 /\ b \in i + 1..N + 1
              /\ a - 1 \in 1..N /\ b - 1 \in 1..N /\ a - 1 < b - 1
          BY <1>1, <1>12, <4>3
        <5> QED  BY <1>11, <5>1
      <4> QED  BY <1>1, <4>1, <4>2, <4>3
    <3>2. Lists!End(E[c]) <= E[d].location
      BY <3>1 DEF SortedTo, N
    <3>3. Lists!End(E[c]) \in Nat /\ E[d].location \in Nat
      BY <1>2
    <3>4. /\ Lists!End(F[a]) \in Nat /\ Lists!End(F[a]) <= Lists!End(E[c])
          /\ F[b].location \in Nat /\ E[d].location <= F[b].location
      BY <3>1
    <3> HIDE DEF Inside
    <3> QED  BY <3>2, <3>3, <3>4
  <2> QED  BY <2>1, <2>2
<1>13. ASSUME NEW j \in 1..N + 1 PROVE Lists!End(F[j]) <= top
  <2>1. Lists!End(F[j]) \in Nat /\ \E o \in 1..N : Lists!End(F[j]) <= Lists!End(E[o])
    <3>1. CASE j <= i
      <4>1. j \in 1..i /\ j \in 1..N
        BY <1>1, <3>1
      <4> QED  BY <1>10, <4>1
    <3>2. CASE j > i
      <4>1. j \in i + 1..N + 1 /\ j - 1 \in 1..N
        BY <1>1, <3>2
      <4> QED  BY <1>11, <4>1
    <3>3. j <= i \/ j > i
      BY <1>1
    <3> HIDE DEF Inside
    <3> QED  BY <3>1, <3>2, <3>3
  <2> QED  BY <1>2, <2>1
<1>14. ASSUME NEW j \in 1..N, j # i PROVE \E a \in 1..N + 1 : F[a] = E[j]
  <2>1. CASE j < i
    <3>1. j \in 1..i - 1 /\ j \in 1..N + 1
      BY <1>1, <2>1
    <3> QED  BY <1>8, <3>1
  <2>2. CASE i < j
    <3>1. j + 1 \in i + 2..N + 1 /\ j + 1 \in 1..N + 1 /\ (j + 1) - 1 = j
      BY <1>1, <2>2
    <3> QED  BY <1>8, <3>1
  <2>3. j < i \/ i < j
    BY <1>1, <1>14
  <2> QED  BY <2>1, <2>2, <2>3
<1>15. i \in 1..N + 1
  BY <1>1
<1>16. SortedTo(F, top)
  BY <1>9, <1>12, <1>13 DEF SortedTo
<1>17. UsedStay(E, F)
  <2>1. Len(F) = N + 1 /\ Len(E) = N
    BY <1>9 DEF N
  <2>2. \A j \in 1..N : ~E[j].free => j # i
    OBVIOUS
  <2> QED  BY <1>14, <2>1, <2>2 DEF UsedStay
<1>18. UsedAt(F, E[i].location)
  <2>1. ~F[i].free /\ F[i].location = E[i].location
    BY <1>3, <1>4, <1>8
  <2> QED  BY <1>9, <1>15, <2>1 DEF UsedAt
<1> QED
  BY <1>16, <1>17, <1>18
-----------------------------------------------------------------------------
(* The list in memory and what is stored in it.                            *)

WordsOK(m, l) ==
    /\ IsChain(m, l)
    /\ Location(m, head) = 0
    /\ \A i \in 2..Len(l) : Labelled(m, l[i])
    /\ \A i, j \in 1..Len(l) : i # j => Apart(l[i], l[j])

(* What a list in memory is made of.                                       *)
LEMMA EntriesAre ==
    ASSUME NEW m, NEW l, WordsOK(m, l)
    PROVE  /\ l \in Seq(Nat) /\ Len(l) \in Nat \ {0} /\ l[1] = head
           /\ \A i \in 1..Len(l) : l[i] \in Nat
           /\ Len(EntriesOf(m, l)) = Len(l) - 1
           /\ \A i \in 1..Len(l) - 1 : EntriesOf(m, l)[i] = EntryAt(m, l[i + 1])
<1>1. l \in Seq(Nat) /\ Len(l) \in Nat \ {0} /\ l[1] = head
  BY DEF WordsOK, IsChain
<1>2. \A i \in 1..Len(l) : l[i] \in Nat
  BY <1>1, ElementOfSeq
<1>3. EntriesOf(m, l) = [i \in 1..Len(l) - 1 |-> EntryAt(m, l[i + 1])]
  BY DEF EntriesOf
<1>4. Len(EntriesOf(m, l)) = Len(l) - 1
  <2>1. Len(l) - 1 \in Nat
    BY <1>1
  <2> QED  BY <1>3, <2>1
<1> QED
  BY <1>1, <1>2, <1>3, <1>4

GrownBy(c, l, new) ==
    \A i \in 2..Len(c) : c[i] = new \/ \E j \in 2..Len(l) : c[i] = l[j]

(* A list has grown by an entry.                                           *)
LEMMA Grown ==
    ASSUME NEW m, NEW l, WordsOK(m, l), NEW m1, NEW k \in 1..Len(l), NEW new \in Nat,
           \A i \in 1..Len(l) : Apart(l[i], new),
           Len(l) <= Address(Limit),
           Location(m1, head) = 0,
           \A i \in 1..Len(l) : i # k => NextOf(m1, l[i]) = NextOf(m, l[i]),
           NextOf(m1, l[k]) = new,
           NextOf(m1, new) = NextOf(m, l[k]),
           \A i \in 2..Len(l) : Labelled(m1, l[i]),
           Labelled(m1, new),
           NEW c, c = Lists!PlaceAfter(l, k, new)
    PROVE  /\ WordsOK(m1, c)
           /\ EntriesOf(m1, c) =
                 Lists!PlaceAfter(EntriesOf(m1, l), k - 1, EntryAt(m1, new))
           /\ Len(c) = Len(l) + 1
           /\ GrownBy(c, l, new)
<1> DEFINE L == Len(l)
<1>1. /\ l \in Seq(Nat) /\ L \in Nat \ {0} /\ \A i \in 1..L : l[i] \in Nat
      /\ k \in 1..L /\ k \in Nat
  BY EntriesAre
<1>2. IsChain(m1, c)
  <2>1. \A i \in 1..L : l[i] # new
    BY <1>1 DEF Apart
  <2> QED  BY <2>1, LinkedIn DEF WordsOK
<1>3. Len(c) = L + 1
  <2>1. L + 1 \in Nat
    BY <1>1
  <2> QED  BY <2>1 DEF Lists!PlaceAfter
<1>4. \A i \in 1..L + 1 : c[i] = IF i <= k THEN l[i] ELSE IF i = k + 1 THEN new ELSE l[i - 1]
  BY DEF Lists!PlaceAfter
<1> DEFINE From(i) == IF i <= k THEN i ELSE i - 1
<1>5. ASSUME NEW i \in 1..L + 1
      PROVE  /\ i = k + 1 => c[i] = new
             /\ i # k + 1 => From(i) \in 1..L /\ c[i] = l[From(i)]
             /\ i # k + 1 /\ i \in 2..L + 1 => From(i) \in 2..L
  <2>1. k + 1 \in 1..L + 1 /\ ~(k + 1 <= k)
    BY <1>1
  <2>2. /\ i # k + 1 => From(i) \in 1..L
        /\ i # k + 1 /\ i \in 2..L + 1 => From(i) \in 2..L
    <3> HIDE DEF L
    <3> QED  BY <1>1
  <2> QED  BY <1>4, <2>1, <2>2
<1>6. \A i \in 2..L + 1 : c[i] = new \/ \E j \in 2..L : c[i] = l[j]
  <2>1. \A i \in 2..L + 1 : i \in 1..L + 1
    BY <1>1
  <2> HIDE DEF From
  <2> QED  BY <1>5, <2>1
<1>7. \A i \in 2..L + 1 : Labelled(m1, c[i])
  BY <1>6
<1>8. ASSUME NEW i \in 1..L + 1, NEW j \in 1..L + 1, i # j PROVE Apart(c[i], c[j])
  <2>1. CASE i # k + 1 /\ j # k + 1
    <3>1. From(i) # From(j)
      <4>1. i \in Int /\ j \in Int /\ k \in Int
        BY <1>1
      <4> QED  BY <1>8, <2>1, <4>1
    <3>2. c[i] = l[From(i)] /\ c[j] = l[From(j)] /\ From(i) \in 1..L /\ From(j) \in 1..L
      <4> HIDE DEF From
      <4> QED  BY <1>5, <2>1
    <3> HIDE DEF From
    <3> QED  BY <3>1, <3>2 DEF WordsOK
  <2>2. CASE i = k + 1
    <3>1. c[i] = new /\ c[j] = l[From(j)] /\ From(j) \in 1..L
      <4> HIDE DEF From
      <4> QED  BY <1>5, <1>8, <2>2
    <3> HIDE DEF From
    <3>2. Apart(c[j], c[i])
      BY <3>1
    <3> QED  BY <3>2 DEF Apart
  <2>3. CASE j = k + 1
    <3>1. c[j] = new /\ c[i] = l[From(i)] /\ From(i) \in 1..L
      <4> HIDE DEF From
      <4> QED  BY <1>5, <1>8, <2>3
    <3> HIDE DEF From
    <3> QED  BY <3>1
  <2> QED  BY <2>1, <2>2, <2>3
<1>9. WordsOK(m1, c)
  <2> HIDE DEF L
  <2> QED  BY <1>2, <1>3, <1>7, <1>8 DEF WordsOK
<1>10. EntriesOf(m1, c) = Lists!PlaceAfter(EntriesOf(m1, l), k - 1, EntryAt(m1, new))
  BY <1>1, EntriesLinkedIn
<1> QED
  BY <1>3, <1>6, <1>9, <1>10 DEF GrownBy

WithFree(r, g) == [r EXCEPT !.free = g]

(* Only the free bit of the record changes.                                *)
LEMMA FreeExcept ==
    ASSUME NEW r, NEW a, NEW f, NEW s, NEW g, r = [location |-> a, free |-> f, size |-> s]
    PROVE  WithFree(r, g) = [location |-> a, free |-> g, size |-> s]
BY DEF WithFree

\* The list l is stored in m, and these are its entries.
StoredAs(m, l, F) == WordsOK(m, l) /\ EntriesOf(m, l) = F

IsBit(c, f) == (c = 0 /\ f = FALSE) \/ (c = 1 /\ f = TRUE)

\* The entry at e, which labels page p, gets free bit c.
BitStore(m1, m, e, p, c) == m1 = SetLocation(m, e, 2 * Address(p) + c)

\* The entries with the free bit of the one at l[k] changed, or with that
\* one split.
BitGives(F, E, k, f) == F = WithBit(E, k - 1, f)
SplitGives(F, E, k, n) == F = SplitEntries(E, k - 1, n)

(* An entry's free bit is set or cleared.                                  *)
LEMMA BitStored ==
    ASSUME NEW m, NEW l, WordsOK(m, l), NEW k \in 2..Len(l),
           NEW p, NEW b, Labels(m, l[k], p, b), NEW c \in 0..1,
           NEW f, IsBit(c, f),
           NEW m1, BitStore(m1, m, l[k], p, c),
           NEW F, BitGives(F, EntriesOf(m, l), k, f)
    PROVE  /\ StoredAs(m1, l, F)
           /\ Labels(m1, l[k], p, c)
<1> DEFINE w == 2 * Address(p) + c
           L == Len(l)
<1>0. /\ (c = 0 /\ f = FALSE) \/ (c = 1 /\ f = TRUE)
      /\ m1 = SetLocation(m, l[k], w)
  BY DEF IsBit, BitStore
<1>1. L \in Nat \ {0} /\ l[1] = head /\ k \in 1..L /\ \A i \in 1..L : l[i] \in Nat
  BY EntriesAre
<1>2. ASSUME NEW i \in 1..L
      PROVE  /\ Location(m1, l[i]) = IF l[i] = l[k] THEN w ELSE Location(m, l[i])
             /\ Size(m1, l[i]) = Size(m, l[i])
             /\ NextOf(m1, l[i]) = NextOf(m, l[i])
  <2>1. l[i] = l[k] \/ Apart(l[k], l[i])
    BY <1>1 DEF WordsOK
  <2>2. l[k] \in Nat /\ l[i] \in Nat
    BY <1>1
  <2> HIDE DEF w
  <2> QED  BY <1>0, <2>1, <2>2, FieldStored
<1>3. \A i \in 1..L : l[i] = l[k] <=> i = k
  BY <1>1 DEF WordsOK, IsChain
<1>4. IsChain(m1, l)
  BY <1>2, SameChain DEF WordsOK
<1>5. Location(m1, head) = 0
  <2>1. 1 \in 1..L /\ 1 # k
    BY <1>1
  <2> QED  BY <1>1, <1>2, <1>3, <2>1 DEF WordsOK
<1>6. Labels(m1, l[k], p, c)
  BY <1>1, <1>2 DEF Labels
<1>7. \A i \in 2..L : Labelled(m1, l[i])
  <2> SUFFICES ASSUME NEW i \in 2..L PROVE Labelled(m1, l[i])
    OBVIOUS
  <2>1. i \in 1..L /\ Labelled(m, l[i]) /\ Size(m1, l[i]) = Size(m, l[i])
    BY <1>1, <1>2 DEF WordsOK
  <2>2. CASE i = k
    BY <1>6, <2>1, <2>2 DEF Labelled
  <2>3. CASE i # k
    <3>1. Location(m1, l[i]) = Location(m, l[i])
      BY <1>2, <1>3, <2>1, <2>3
    <3> QED  BY <2>1, <3>1 DEF Labelled, Labels
  <2> QED  BY <2>2, <2>3
<1>8. WordsOK(m1, l)
  BY <1>4, <1>5, <1>7 DEF WordsOK
<1>9. \A i \in 2..L : i # k => EntryAt(m1, l[i]) = EntryAt(m, l[i])
  <2> SUFFICES ASSUME NEW i \in 2..L, i # k PROVE EntryAt(m1, l[i]) = EntryAt(m, l[i])
    OBVIOUS
  <2>1. i \in 1..L
    BY <1>1
  <2>2. Location(m1, l[i]) = Location(m, l[i]) /\ Size(m1, l[i]) = Size(m, l[i])
    BY <1>2, <1>3, <2>1
  <2> QED  BY <2>2 DEF EntryAt, IsFree
<1>10. EntryAt(m1, l[k]) = WithFree(EntryAt(m, l[k]), f)
  <2>1. /\ EntryAt(m, l[k]).location = p - 1 /\ EntryAt(m, l[k]).size = Size(m, l[k])
        /\ Size(m1, l[k]) = Size(m, l[k])
    BY <1>1, <1>2, EntryFields
  <2>2. PICK s : s = Size(m, l[k])
    OBVIOUS
  <2>3. PICK g : EntryAt(m, l[k]) = [location |-> p - 1, free |-> g, size |-> s]
    <3>1. PICK q, g : EntryAt(m, l[k]) = [location |-> q, free |-> g, size |-> s]
      BY <2>2 DEF EntryAt
    <3>2. EntryAt(m, l[k]).location = q
      BY <3>1
    <3> QED  BY <2>1, <3>1, <3>2
  <2>4. EntryAt(m1, l[k]) = [location |-> p - 1, free |-> f, size |-> Size(m1, l[k])]
    <3>1. EntryAt(m1, l[k]).location = p - 1 /\ (IsFree(m1, l[k]) <=> c = 1)
      BY <1>6, EntryFields
    <3>2. IsFree(m1, l[k]) = f
      <4>1. c = 0 => IsFree(m1, l[k]) = FALSE
        BY <3>1 DEF IsFree
      <4>2. c = 1 => IsFree(m1, l[k]) = TRUE
        BY <3>1 DEF IsFree
      <4> QED  BY <1>0, <4>1, <4>2, Zenon
    <3>3. PICK q : EntryAt(m1, l[k]) = [location |-> q, free |-> f, size |-> Size(m1, l[k])]
      <4>1. PICK q, s1 : q = PageAt(Location(m1, l[k]) \div 2) - 1 /\ s1 = Size(m1, l[k])
        OBVIOUS
      <4>2. EntryAt(m1, l[k]) = [location |-> q, free |-> IsFree(m1, l[k]), size |-> s1]
        BY <4>1 DEF EntryAt
      <4> QED  BY <3>2, <4>1, <4>2
    <3>4. EntryAt(m1, l[k]).location = q
      BY <3>3
    <3> QED  BY <3>1, <3>3, <3>4
  <2>5. EntryAt(m1, l[k]) = [location |-> p - 1, free |-> f, size |-> s]
    BY <2>1, <2>2, <2>4
  <2> QED  BY <2>3, <2>5, FreeExcept
<1>11. EntriesOf(m1, l) = [EntriesOf(m, l) EXCEPT ![k - 1] = EntryAt(m1, l[k])]
  BY <1>1, <1>9, EntryChanged
<1>12. k - 1 \in 1..L - 1 /\ EntriesOf(m, l)[k - 1] = EntryAt(m, l[k])
  <2>1. k - 1 \in 1..L - 1 /\ (k - 1) + 1 = k
    BY <1>1
  <2> QED  BY <2>1, EntriesAre
<1>13. EntriesOf(m1, l) = WithBit(EntriesOf(m, l), k - 1, f)
  BY <1>10, <1>11, <1>12 DEF WithFree, WithBit
<1> QED
  BY <1>6, <1>8, <1>13 DEF BitGives, StoredAs
-----------------------------------------------------------------------------
(* The stores of splitNode and addNode.                                    *)

(* What splitNode, and the clearing of the free bit behind it, leave in    *)
(* the entry, in the new one and in another.                               *)
LEMMA SplitStores ==
    ASSUME NEW e \in Nat, NEW new \in Nat, Apart(e, new), NEW p, Labels(mem, e, p, 1),
           NEW n \in Nat \ {0},
           NEW m1, m1 = MarkUsed(SplitWords(e, n, new), e)
    PROVE  /\ Labels(m1, e, p, 0) /\ Size(m1, e) = n /\ NextOf(m1, e) = new
           /\ Labels(m1, new, p + n, 1) /\ Size(m1, new) = Size(mem, e) - n
           /\ NextOf(m1, new) = NextOf(mem, e)
           /\ \A g \in Nat : Apart(e, g) /\ Apart(new, g) =>
                 /\ Location(m1, g) = Location(mem, g)
                 /\ Size(m1, g) = Size(mem, g)
                 /\ NextOf(m1, g) = NextOf(mem, g)
<1> DEFINE a == SetNext(mem, new, NextOf(mem, e))
           b == SetSize(a, new, Size(a, e) - n)
           c == SetLocation(b, new, Location(b, e) + 2 * n * PageWordCount)
           d == SetNext(c, e, new)
           f == SetSize(d, e, n)
           Same(x, y, g) == /\ Location(x, g) = Location(y, g)
                            /\ Size(x, g) = Size(y, g)
                            /\ NextOf(x, g) = NextOf(y, g)
<1>1. m1 = SetLocation(f, e, Location(f, e) - (Location(f, e) % 2))
  BY DEF MarkUsed, SplitWords
<1>2. Apart(e, new) /\ Apart(new, e) /\ e # new
  BY DEF Apart
<1>3. /\ Same(a, mem, e) /\ NextOf(a, new) = NextOf(mem, e)
  BY <1>2, FieldStored
<1>4. /\ Same(b, a, e) /\ Size(b, new) = Size(a, e) - n /\ NextOf(b, new) = NextOf(a, new)
  <2> HIDE DEF a
  <2> QED  BY <1>2, FieldStored
<1>5. /\ Same(c, b, e) /\ Size(c, new) = Size(b, new) /\ NextOf(c, new) = NextOf(b, new)
      /\ Location(c, new) = Location(b, e) + 2 * n * PageWordCount
  <2> HIDE DEF b
  <2> QED  BY <1>2, FieldStored
<1>6. /\ Same(d, c, new) /\ Location(d, e) = Location(c, e) /\ Size(d, e) = Size(c, e)
      /\ NextOf(d, e) = new
  <2> HIDE DEF c
  <2> QED  BY <1>2, FieldStored
<1>7. /\ Same(f, d, new) /\ Location(f, e) = Location(d, e) /\ Size(f, e) = n
      /\ NextOf(f, e) = NextOf(d, e)
  <2> HIDE DEF d
  <2> QED  BY <1>2, FieldStored
<1> DEFINE w == Location(f, e) - (Location(f, e) % 2)
<1>8. /\ Same(m1, f, new) /\ Location(m1, e) = w /\ Size(m1, e) = Size(f, e)
      /\ NextOf(m1, e) = NextOf(f, e)
  <2>1. m1 = SetLocation(f, e, w)
    BY <1>1
  <2> HIDE DEF f, w
  <2> QED  BY <1>2, <2>1, FieldStored
<1>9. ASSUME NEW g \in Nat, Apart(e, g), Apart(new, g)
      PROVE  Same(m1, mem, g)
  <2>1. g # e /\ g # new
    BY <1>9 DEF Apart
  <2>2. Same(a, mem, g)
    BY <1>9, <2>1, FieldStored
  <2>3. Same(b, a, g)
    <3> HIDE DEF a
    <3> QED  BY <1>9, <2>1, FieldStored
  <2>4. Same(c, b, g)
    <3> HIDE DEF b
    <3> QED  BY <1>9, <2>1, FieldStored
  <2>5. Same(d, c, g)
    <3> HIDE DEF c
    <3> QED  BY <1>9, <2>1, FieldStored
  <2>6. Same(f, d, g)
    <3> HIDE DEF d
    <3> QED  BY <1>9, <2>1, FieldStored
  <2>7. Same(m1, f, g)
    <3> HIDE DEF f
    <3> QED  BY <1>1, <1>9, <2>1, FieldStored
  <2> HIDE DEF a, b, c, d, f
  <2> QED  BY <2>2, <2>3, <2>4, <2>5, <2>6, <2>7
<1> HIDE DEF a, b, c, d, f
<1>10. /\ Location(f, e) = Location(mem, e) /\ Location(b, e) = Location(mem, e)
       /\ Size(m1, e) = n /\ NextOf(m1, e) = new
       /\ Size(m1, new) = Size(mem, e) - n /\ NextOf(m1, new) = NextOf(mem, e)
       /\ Location(m1, new) = Location(mem, e) + 2 * n * PageWordCount
  BY <1>3, <1>4, <1>5, <1>6, <1>7, <1>8
<1>11. p \in Nat \ {0} /\ Location(mem, e) = 2 * Address(p) + 1 /\ 1 \in 0..1 /\ 0 \in 0..1
  BY DEF Labels
<1>12. Labels(m1, e, p, 0)
  <2>1. w = 2 * Address(p)
    BY <1>10, <1>11, AddressAndBit
  <2>2. 2 * Address(p) + 0 = 2 * Address(p)
    BY <1>11, Addresses
  <2> QED  BY <1>8, <1>11, <2>1, <2>2 DEF Labels
<1>13. Labels(m1, new, p + n, 1)
  <2>1. Address(p + n) = Address(p) + n * PageWordCount
    BY <1>11, Addresses
  <2>2. PICK x \in Nat : x = Address(p)
    BY <1>11, Addresses
  <2>3. PICK y \in Nat : y = n * PageWordCount
    BY Addresses
  <2>4. 2 * n * PageWordCount = 2 * y
    <3>1. PICK z \in Nat : z = PageWordCount
      BY Addresses
    <3>2. 2 * n * z = 2 * (n * z)
      BY Z3
    <3> QED  BY <2>3, <3>1, <3>2
  <2>5. Location(m1, new) = 2 * Address(p + n) + 1
    <3>1. Location(m1, new) = 2 * x + 1 + 2 * y
      BY <1>10, <1>11, <2>2, <2>4
    <3>2. Address(p + n) = x + y
      BY <2>1, <2>2, <2>3
    <3> QED  BY <3>1, <3>2
  <2>6. p + n \in Nat \ {0}
    BY <1>11
  <2> QED  BY <1>11, <2>5, <2>6 DEF Labels
<1> QED
  BY <1>9, <1>10, <1>12, <1>13

(* What addNode leaves in the last entry, in the new one and in another.   *)
LEMMA AddStores ==
    ASSUME NEW e \in Nat, NEW new \in Nat, Apart(e, new), NEW p \in Nat \ {0},
           NEW n, NEW next,
           NEW m1, m1 = SetNext(SetSize(SetLocation(SetNext(mem, e, new), new,
                                                    2 * Address(p)), new, n), new, next)
    PROVE  /\ Location(m1, e) = Location(mem, e) /\ Size(m1, e) = Size(mem, e)
           /\ NextOf(m1, e) = new
           /\ Labels(m1, new, p, 0) /\ Size(m1, new) = n /\ NextOf(m1, new) = next
           /\ \A g \in Nat : Apart(e, g) /\ Apart(new, g) =>
                 /\ Location(m1, g) = Location(mem, g)
                 /\ Size(m1, g) = Size(mem, g)
                 /\ NextOf(m1, g) = NextOf(mem, g)
<1> DEFINE w == 2 * Address(p)
           a == SetNext(mem, e, new)
           b == SetLocation(a, new, w)
           c == SetSize(b, new, n)
           Same(x, y, g) == /\ Location(x, g) = Location(y, g)
                            /\ Size(x, g) = Size(y, g)
                            /\ NextOf(x, g) = NextOf(y, g)
<1>1. m1 = SetNext(c, new, next)
  OBVIOUS
<1>2. Apart(e, new) /\ Apart(new, e) /\ e # new
  BY DEF Apart
<1>3. Location(a, e) = Location(mem, e) /\ Size(a, e) = Size(mem, e) /\ NextOf(a, e) = new
  BY <1>2, FieldStored
<1>4. Same(b, a, e) /\ Location(b, new) = w
  <2> HIDE DEF a, w
  <2> QED  BY <1>2, FieldStored
<1>5. Same(c, b, e) /\ Location(c, new) = Location(b, new) /\ Size(c, new) = n
  <2> HIDE DEF b
  <2> QED  BY <1>2, FieldStored
<1>6. /\ Same(m1, c, e) /\ Location(m1, new) = Location(c, new) /\ Size(m1, new) = Size(c, new)
      /\ NextOf(m1, new) = next
  <2> HIDE DEF c
  <2> QED  BY <1>1, <1>2, FieldStored
<1>7. ASSUME NEW g \in Nat, Apart(e, g), Apart(new, g)
      PROVE  Same(m1, mem, g)
  <2>1. g # e /\ g # new
    BY <1>7 DEF Apart
  <2>2. Same(a, mem, g)
    BY <1>7, <2>1, FieldStored
  <2>3. Same(b, a, g)
    <3> HIDE DEF a
    <3> QED  BY <1>7, <2>1, FieldStored
  <2>4. Same(c, b, g)
    <3> HIDE DEF b
    <3> QED  BY <1>7, <2>1, FieldStored
  <2>5. Same(m1, c, g)
    <3> HIDE DEF c
    <3> QED  BY <1>1, <1>7, <2>1, FieldStored
  <2> HIDE DEF a, b, c
  <2> QED  BY <2>2, <2>3, <2>4, <2>5
<1>8. Labels(m1, new, p, 0)
  <2>1. 2 * Address(p) + 0 = 2 * Address(p) /\ 0 \in 0..1
    BY Addresses
  <2>2. Location(m1, new) = 2 * Address(p)
    <3> HIDE DEF a, b, c
    <3> QED  BY <1>4, <1>5, <1>6
  <2> QED  BY <2>1, <2>2 DEF Labels
<1> HIDE DEF a, b, c
<1> QED
  BY <1>3, <1>4, <1>5, <1>6, <1>7, <1>8

(* Splitting the entry at l[k] links the rest in behind it.                *)
LEMMA SplitGrows ==
    ASSUME NEW l, WordsOK(mem, l), NEW k \in 2..Len(l), NEW p, Labels(mem, l[k], p, 1),
           NEW n \in Nat \ {0}, n < Size(mem, l[k]),
           NEW new \in Nat, \A i \in 1..Len(l) : Apart(l[i], new),
           Len(l) <= Address(Limit),
           NEW m1, m1 = MarkUsed(SplitWords(l[k], n, new), l[k]),
           NEW c, c = Lists!PlaceAfter(l, k, new),
           NEW E, E = EntriesOf(mem, l),
           NEW F, SplitGives(F, E, k, n)
    PROVE  /\ WordsOK(m1, c)
           /\ EntriesOf(m1, c) = F
           /\ Labels(m1, l[k], p, 0)
           /\ GrownBy(c, l, new)
<1>0. PICK K, R :
         /\ K = [location |-> E[k - 1].location, free |-> FALSE, size |-> n]
         /\ R = [location |-> E[k - 1].location + n, free |-> TRUE,
                 size |-> E[k - 1].size - n]
  OBVIOUS
<1> DEFINE L == Len(l)
           e == l[k]
<1>1. /\ L \in Nat \ {0} /\ l[1] = head /\ k \in 1..L /\ \A i \in 1..L : l[i] \in Nat
      /\ \A i \in 2..L : i \in 1..L
  BY EntriesAre
<1>2. e \in Nat /\ Apart(e, new)
  BY <1>1
<1>3. /\ Labels(m1, e, p, 0) /\ Size(m1, e) = n /\ NextOf(m1, e) = new
      /\ Labels(m1, new, p + n, 1) /\ Size(m1, new) = Size(mem, e) - n
      /\ NextOf(m1, new) = NextOf(mem, e)
      /\ \A g \in Nat : Apart(e, g) /\ Apart(new, g) =>
            /\ Location(m1, g) = Location(mem, g)
            /\ Size(m1, g) = Size(mem, g)
            /\ NextOf(m1, g) = NextOf(mem, g)
  BY <1>2, SplitStores
<1>4. ASSUME NEW i \in 1..L, i # k
      PROVE  /\ Location(m1, l[i]) = Location(mem, l[i])
             /\ Size(m1, l[i]) = Size(mem, l[i])
             /\ NextOf(m1, l[i]) = NextOf(mem, l[i])
  <2>1. l[i] \in Nat /\ Apart(e, l[i]) /\ Apart(new, l[i])
    <3>1. Apart(e, l[i]) /\ Apart(l[i], new)
      BY <1>1, <1>4 DEF WordsOK
    <3> QED  BY <1>1, <3>1 DEF Apart
  <2> QED  BY <1>3, <2>1
<1>5. p \in Nat \ {0} /\ Size(mem, e) \in Nat \ {0}
  <2>1. Labelled(mem, e)
    BY DEF WordsOK
  <2> QED  BY <2>1 DEF Labelled, Labels
<1>6. Labelled(m1, e) /\ Labelled(m1, new)
  BY <1>3, <1>5 DEF Labelled
<1>7. ASSUME NEW i \in 2..L PROVE Labelled(m1, l[i])
  <2>1. CASE i = k
    BY <1>6, <2>1
  <2>2. CASE i # k
    <3>1. Location(m1, l[i]) = Location(mem, l[i]) /\ Size(m1, l[i]) = Size(mem, l[i])
      BY <1>1, <1>4, <2>2
    <3>2. Labelled(mem, l[i])
      BY DEF WordsOK
    <3> QED  BY <3>1, <3>2 DEF Labelled, Labels
  <2> QED  BY <2>1, <2>2
<1>8. Location(m1, head) = 0
  <2>1. 1 \in 1..L /\ 1 # k
    BY <1>1
  <2> QED  BY <1>1, <1>4, <2>1 DEF WordsOK
<1>9. /\ WordsOK(m1, c)
      /\ EntriesOf(m1, c) =
            Lists!PlaceAfter(EntriesOf(m1, l), k - 1, EntryAt(m1, new))
      /\ GrownBy(c, l, new)
  <2>1. /\ \A i \in 1..L : i # k => NextOf(m1, l[i]) = NextOf(mem, l[i])
        /\ \A i \in 2..L : Labelled(m1, l[i])
        /\ NextOf(m1, l[k]) = new /\ NextOf(m1, new) = NextOf(mem, l[k])
        /\ Labelled(m1, new)
    BY <1>3, <1>4, <1>6, <1>7
  <2> QED  BY <1>1, <1>8, <2>1, Grown
<1>10. /\ E[k - 1].location = p - 1 /\ E[k - 1].size = Size(mem, e)
       /\ E[k - 1] = EntryAt(mem, e)
  <2>1. k - 1 \in 1..L - 1 /\ (k - 1) + 1 = k
    BY <1>1
  <2>2. E[k - 1] = EntryAt(mem, e)
    BY <2>1, EntriesAre
  <2> QED  BY <2>2, EntryFields
<1>11. EntryAt(m1, e) = K
  <2>1. EntryAt(m1, e) = [location |-> p - 1, free |-> FALSE, size |-> Size(m1, e)]
    <3>1. Labels(m1, e, p, 0)
      BY <1>3
    <3> HIDE DEF e
    <3> QED  BY <3>1, EntryIs
  <2>2. Size(m1, e) = n
    BY <1>3
  <2> QED  BY <1>0, <1>10, <2>1, <2>2
<1>12. EntryAt(m1, new) = R
  <2>1. EntryAt(m1, new) = [location |-> (p + n) - 1, free |-> TRUE, size |-> Size(m1, new)]
    <3>1. Labels(m1, new, p + n, 1)
      BY <1>3
    <3> QED  BY <3>1, EntryIs
  <2>2. (p + n) - 1 = p - 1 + n
    BY <1>5
  <2>3. Size(m1, new) = Size(mem, e) - n
    BY <1>3
  <2> QED  BY <1>0, <1>10, <2>1, <2>2, <2>3
<1>13. EntriesOf(m1, l) = [E EXCEPT ![k - 1] = K]
  <2>1. ASSUME NEW i \in 2..L, i # k PROVE EntryAt(m1, l[i]) = EntryAt(mem, l[i])
    <3>1. Location(m1, l[i]) = Location(mem, l[i]) /\ Size(m1, l[i]) = Size(mem, l[i])
      BY <1>1, <1>4, <2>1
    <3> QED  BY <3>1 DEF EntryAt, IsFree
  <2>2. EntriesOf(m1, l) = [EntriesOf(mem, l) EXCEPT ![k - 1] = EntryAt(m1, l[k])]
    BY <1>1, <2>1, EntryChanged
  <2> QED  BY <1>11, <2>2
<1>14. EntriesOf(m1, c) = SplitEntries(E, k - 1, n)
  <2>1. EntriesOf(m1, c) = Lists!PlaceAfter([E EXCEPT ![k - 1] = K], k - 1, R)
    BY <1>9, <1>12, <1>13
  <2> QED  BY <1>0, <2>1 DEF SplitEntries
<1> QED
  BY <1>3, <1>9, <1>14 DEF SplitGives

(* Adding an entry for new pages links it in behind the last.              *)
LEMMA AddGrows ==
    ASSUME NEW l, WordsOK(mem, l), NEW p \in Nat \ {0}, NEW n \in Nat \ {0},
           NEW new \in Nat, \A i \in 1..Len(l) : Apart(l[i], new),
           Len(l) <= Address(Limit),
           NEW w, w = 2 * Address(p),
           NEW m1, m1 = SetNext(SetSize(SetLocation(SetNext(mem, l[Len(l)], new), new, w),
                                        new, n), new, NextOf(mem, l[Len(l)])),
           NEW c, c = Lists!PlaceAfter(l, Len(l), new),
           NEW E, E = EntriesOf(mem, l), NEW f, f = FALSE,
           NEW x, x = [location |-> p - 1, free |-> f, size |-> n],
           NEW F, F = Lists!PlaceAfter(E, Len(E), x)
    PROVE  /\ StoredAs(m1, c, F)
           /\ GrownBy(c, l, new)
<1> DEFINE L == Len(l)
           e == l[L]
<1>1. /\ L \in Nat \ {0} /\ l[1] = head /\ L \in 1..L /\ \A i \in 1..L : l[i] \in Nat
      /\ \A i \in 2..L : i \in 1..L
  BY EntriesAre
<1>2. e \in Nat /\ Apart(e, new)
  BY <1>1
<1>3. /\ Location(m1, e) = Location(mem, e) /\ Size(m1, e) = Size(mem, e)
      /\ NextOf(m1, e) = new
      /\ Labels(m1, new, p, 0) /\ Size(m1, new) = n /\ NextOf(m1, new) = NextOf(mem, e)
      /\ \A g \in Nat : Apart(e, g) /\ Apart(new, g) =>
            /\ Location(m1, g) = Location(mem, g)
            /\ Size(m1, g) = Size(mem, g)
            /\ NextOf(m1, g) = NextOf(mem, g)
  <2> HIDE DEF L
  <2> QED  BY <1>2, AddStores DEF L
<1>4. ASSUME NEW i \in 1..L
      PROVE  /\ Location(m1, l[i]) = Location(mem, l[i])
             /\ Size(m1, l[i]) = Size(mem, l[i])
             /\ i # L => NextOf(m1, l[i]) = NextOf(mem, l[i])
  <2>1. CASE i = L
    BY <1>3, <2>1
  <2>2. CASE i # L
    <3>1. l[i] \in Nat /\ Apart(e, l[i]) /\ Apart(new, l[i])
      <4>1. Apart(e, l[i]) /\ Apart(l[i], new)
        BY <1>1, <1>4, <2>2 DEF WordsOK
      <4> QED  BY <1>1, <4>1 DEF Apart
    <3> QED  BY <1>3, <3>1
  <2> QED  BY <2>1, <2>2
<1>5. Labelled(m1, new)
  BY <1>3 DEF Labelled
<1>6. ASSUME NEW i \in 2..L PROVE Labelled(m1, l[i])
  <2>1. Location(m1, l[i]) = Location(mem, l[i]) /\ Size(m1, l[i]) = Size(mem, l[i])
    BY <1>1, <1>4
  <2>2. Labelled(mem, l[i])
    BY DEF WordsOK
  <2> QED  BY <2>1, <2>2 DEF Labelled, Labels
<1>7. Location(m1, head) = 0
  <2>1. 1 \in 1..L
    BY <1>1
  <2> QED  BY <1>1, <1>4, <2>1 DEF WordsOK
<1>8. /\ WordsOK(m1, c)
      /\ EntriesOf(m1, c) =
            Lists!PlaceAfter(EntriesOf(m1, l), L - 1, EntryAt(m1, new))
      /\ Len(c) = L + 1
      /\ GrownBy(c, l, new)
  <2>1. /\ \A i \in 1..L : i # L => NextOf(m1, l[i]) = NextOf(mem, l[i])
        /\ \A i \in 2..L : Labelled(m1, l[i])
        /\ NextOf(m1, l[L]) = new /\ NextOf(m1, new) = NextOf(mem, l[L])
    BY <1>3, <1>4, <1>6
  <2> QED  BY <1>1, <1>5, <1>7, <2>1, Grown
<1>9. EntryAt(m1, new) = [location |-> p - 1, free |-> FALSE, size |-> n]
  <2>1. EntryAt(m1, new) = [location |-> p - 1, free |-> FALSE, size |-> Size(m1, new)]
    <3>1. Labels(m1, new, p, 0)
      BY <1>3
    <3> QED  BY <3>1, EntryIs
  <2>2. Size(m1, new) = n
    BY <1>3
  <2> QED  BY <2>1, <2>2
<1>10. EntriesOf(m1, l) = E /\ Len(E) = L - 1
  <2>1. ASSUME NEW i \in 1..L - 1 PROVE EntryAt(m1, l[i + 1]) = EntryAt(mem, l[i + 1])
    <3>1. i + 1 \in 1..L
      BY <1>1
    <3>2. Location(m1, l[i + 1]) = Location(mem, l[i + 1]) /\ Size(m1, l[i + 1]) = Size(mem, l[i + 1])
      BY <1>4, <3>1
    <3> QED  BY <3>2 DEF EntryAt, IsFree
  <2>2. Len(E) = L - 1
    BY EntriesAre
  <2> HIDE DEF L
  <2> QED  BY <2>1, <2>2 DEF EntriesOf, L
<1> QED
  BY <1>8, <1>9, <1>10 DEF StoredAs
-----------------------------------------------------------------------------
(* What holds until shrinkList is called.                                  *)

(* Callers hold blocks that begin where a used entry does, and no two the  *)
(* same.                                                                   *)
HeldOK(H, E) ==
    /\ \A h \in H : h \in [location : Nat, count : Nat] /\ BackedBy(h, E)
    /\ \A g, h \in H : g.location = h.location => g = h

ListIs(l) ==
    /\ BookInv
    /\ WordsOK(mem, l)
    /\ \A i \in 2..Len(l) : InPages(l[i])
    /\ SortedTo(EntriesOf(mem, l), heapPos - 1)
    /\ HeldOK(held, EntriesOf(mem, l))

WordsInv ==
    /\ shrinks \in Nat
    /\ shrinks = 0 => \E l : ListIs(l)

(* Of some numbers one is the least.                                       *)
LEMMA LeastExists ==
    ASSUME NEW S, S \subseteq Nat, S # {}
    PROVE  \E x \in S : \A y \in S : x <= y
<1> DEFINE R == OpToRel(<, Nat)
<1>1. IsWellFoundedOn(R, Nat)
  BY NatLessThanWellFounded, Zenon
<1>2. PICK x \in S : \A y \in S : ~(<<y, x>> \in R)
  <2> HIDE DEF R
  <2> QED  BY <1>1, WFMin
<1>3. ASSUME NEW y \in S PROVE x <= y
  <2>1. x \in Nat /\ y \in Nat /\ ~(<<y, x>> \in R)
    BY <1>2
  <2>2. y < x => <<y, x>> \in R
    BY <2>1, Zenon DEF OpToRel
  <2> HIDE DEF R
  <2> QED  BY <2>1, <2>2
<1> QED
  BY <1>2, <1>3

(* A search finds the first entry there is.                                *)
LEMMA FirstIs ==
    ASSUME NEW l, NEW S, S \subseteq Nat
    PROVE  /\ S # {} => First(l, S) # {}
           /\ \A e \in First(l, S) : \E i \in S : e = l[i] /\ \A j \in S : i <= j
<1>1. S # {} => First(l, S) # {}
  <2> SUFFICES ASSUME S # {} PROVE First(l, S) # {}
    OBVIOUS
  <2>1. PICK x \in S : \A y \in S : x <= y
    BY LeastExists
  <2> QED  BY <2>1 DEF First
<1>2. ASSUME NEW e \in First(l, S)
      PROVE  \E i \in S : e = l[i] /\ \A j \in S : i <= j
  BY <1>2 DEF First
<1> QED
  BY <1>1, <1>2

(* The entries of the refinement are those of the list.                    *)
LEMMA EntriesNow ==
    ASSUME NEW l, IsChain(mem, l)
    PROVE  Chain(mem) = l /\ Entries = EntriesOf(mem, l)
<1>1. Chain(mem) = l
  BY ChainIs
<1> QED
  BY <1>1 DEF Entries, EntriesOf, EntryAt

(* The same after a step.                                                  *)
LEMMA EntriesNext ==
    ASSUME NEW l, IsChain(mem', l)
    PROVE  Chain(mem)' = l /\ Entries' = EntriesOf(mem', l)
<1>1. Chain(mem') = l
  BY ChainIs
<1> QED
  BY <1>1 DEF Entries, EntriesOf, EntryAt

(* There is room for one more entry.                                       *)
LEMMA ListIsShort ==
    ASSUME NEW l, ListIs(l)
    PROVE  Len(l) <= Address(Limit)
<1>1. IsChain(mem, l) /\ Len(l) \in Nat \ {0} /\ l[1] = head
  BY EntriesAre DEF ListIs, WordsOK
<1>2. ASSUME NEW i \in 1..Len(l) PROVE l[i] < Address(Limit)
  <2>1. CASE i = 1
    <3>1. 0 < Address(Limit)
      <4>1. Address(1) <= Address(Limit) /\ Address(1) = PageWordCount /\ PageWordCount >= 3
        BY Addresses, PageWordsAssumption
      <4> QED  BY <4>1, LimitAddress, Addresses
    <3> QED  BY <1>1, <2>1, <3>1 DEF head
  <2>2. CASE i # 1
    <3>1. i \in 2..Len(l)
      BY <1>1, <2>2
    <3> QED  BY <3>1, InPagesRange DEF ListIs
  <2> QED  BY <2>1, <2>2
<1> QED
  BY <1>1, <1>2, ChainShort

(* A new place is apart from every entry, and those stay in their pages.   *)
LEMMA ListPrepared ==
    ASSUME NEW l, ListIs(l), NEW used \in Nat, Prepare(used), otherPages' = otherPages,
           NEW new, new = Prepared(used).at
    PROVE  /\ Lists!PrepareEntry(used) /\ BookInv'
           /\ new \in Nat /\ InPages(new)'
           /\ \A i \in 1..Len(l) : Apart(l[i], new)
           /\ \A i \in 2..Len(l) : InPages(l[i])'
<1>1. /\ Lists!PrepareEntry(used) /\ BookInv' /\ new \in Nat /\ InPages(new)'
      /\ \A a : InPages(a) => InPages(a)' /\ Apart(a, new)
  BY PlacePrepared DEF ListIs
<1>2. \A i \in 2..Len(l) : InPages(l[i])' /\ Apart(l[i], new)
  BY <1>1 DEF ListIs
<1>3. Apart(l[1], new)
  <2>1. l[1] = 0
    BY EntriesAre DEF ListIs, head
  <2>2. new \in Nat /\ 3 <= new
    <3>1. PICK p \in listPages' : InPage(new, p)'
      BY <1>1 DEF InPages
    <3>2. p \in Nat /\ 1 <= p /\ Address(p) <= new
      <4>1. listPages' \subseteq 1..heapPos' - 1 /\ heapPos' \in Nat
        BY <1>1 DEF BookInv
      <4>2. p \in Nat /\ 1 <= p
        <5>1. p \in 1..heapPos' - 1
          BY <3>1, <4>1
        <5> QED  BY <4>1, <5>1
      <4>3. Address(p) <= new
        BY <3>1 DEF InPage
      <4> QED  BY <4>2, <4>3
    <3>3. Address(1) <= Address(p) /\ Address(1) = PageWordCount /\ Address(p) \in Nat
      BY <3>2, Addresses
    <3> QED  BY <1>1, <3>2, <3>3, Addresses
  <2> QED  BY <2>1, <2>2 DEF Apart
<1>4. ASSUME NEW i \in 1..Len(l) PROVE Apart(l[i], new)
  <2>1. i = 1 \/ i \in 2..Len(l)
    OBVIOUS
  <2> QED  BY <1>2, <1>3, <2>1
<1> QED
  BY <1>1, <1>2, <1>4

(* A caller is given a block.                                              *)
LEMMA HeldGrows ==
    ASSUME NEW H, NEW E, NEW F, HeldOK(H, E), UsedStay(E, F),
           NEW p \in Nat \ {0}, NEW n \in Nat \ {0}, ~UsedAt(E, p - 1), UsedAt(F, p - 1),
           NEW G, G = H \cup {[location |-> Address(p), count |-> n]}
    PROVE  HeldOK(G, F)
<1>0. PICK x : x = [location |-> Address(p), count |-> n]
  OBVIOUS
<1>1. x \in [location : Nat, count : Nat] /\ BackedBy(x, F) /\ x.location = Address(p)
  <2>1. x.location = Address(p) /\ x.count = n /\ Address(p) \in Nat
    BY <1>0, Addresses
  <2>2. x \in [location : Nat, count : Nat]
    BY <1>0, <2>1
  <2> QED  BY <2>1, <2>2 DEF BackedBy
<1>2. ASSUME NEW h \in H PROVE BackedBy(h, F) /\ h.location # Address(p)
  <2>1. h.count \in Nat \ {0} /\ \E q \in Nat \ {0} : h.location = Address(q) /\ UsedAt(E, q - 1)
    BY DEF HeldOK, BackedBy
  <2>2. PICK q \in Nat \ {0} : h.location = Address(q) /\ UsedAt(E, q - 1)
    BY <2>1
  <2>3. UsedAt(F, q - 1)
    <3>1. PICK i \in 1..Len(E) : ~E[i].free /\ E[i].location = q - 1
      BY <2>2 DEF UsedAt
    <3>2. PICK a \in 1..Len(F) : F[a] = E[i]
      BY <3>1 DEF UsedStay
    <3> QED  BY <3>1, <3>2 DEF UsedAt
  <2>4. BackedBy(h, F)
    BY <2>1, <2>2, <2>3 DEF BackedBy
  <2>5. q # p
    BY <2>2
  <2>6. Address(q) # Address(p)
    <3>1. q < p => Address(q) + PageWordCount <= Address(p)
      BY Addresses
    <3>2. p < q => Address(p) + PageWordCount <= Address(q)
      BY Addresses
    <3>3. Address(p) \in Nat /\ Address(q) \in Nat /\ PageWordCount >= 3 /\ PageWordCount \in Nat
      BY Addresses
    <3> QED  BY <2>5, <3>1, <3>2, <3>3
  <2> QED  BY <2>2, <2>4, <2>6
<1>3. G = H \cup {x}
  BY <1>0
<1> QED
  BY <1>1, <1>2, <1>3 DEF HeldOK
-----------------------------------------------------------------------------
(* The steps.                                                              *)

(* A block held, as module PageList writes it.                             *)
Mapped(h) == [location |-> PageAt(h.location) - 1, bytes |-> h.count - 1]

(* A block given is one block more for module PageList.                    *)
LEMMA MappedGrows ==
    ASSUME NEW H, NEW p \in Nat \ {0}, NEW n,
           NEW G, G = H \cup {[location |-> Address(p), count |-> n]}
    PROVE  {[location |-> PageAt(h.location) - 1, bytes |-> h.count - 1] : h \in G} =
              {[location |-> PageAt(h.location) - 1, bytes |-> h.count - 1] : h \in H}
                 \cup {[location |-> p - 1, bytes |-> n - 1]}
<1> DEFINE x == [location |-> Address(p), count |-> n]
<1>1. PageAt(Address(p)) = p
  <2>1. PICK a \in Nat : a = Address(p)
    BY Addresses
  <2>2. 0 \in 0..1 /\ 2 * a = 2 * a + 0 /\ (2 * a) \div 2 = a
    BY <2>1
  <2> QED  BY <2>1, <2>2, AddressAndBit
<1>2. x.location = Address(p) /\ x.count = n
  OBVIOUS
<1> HIDE DEF x
<1>3. {[location |-> PageAt(h.location) - 1, bytes |-> h.count - 1] : h \in H \cup {x}} =
         {[location |-> PageAt(h.location) - 1, bytes |-> h.count - 1] : h \in H}
            \cup {[location |-> p - 1, bytes |-> n - 1]}
  BY <1>1, <1>2
<1> QED
  BY <1>3 DEF x

(* The pages a caller needs, as a size in bytes and back.                  *)
LEMMA CountOf ==
    ASSUME NEW n \in Counts
    PROVE  n \in Nat \ {0} /\ n - 1 \in {k - 1 : k \in Counts} /\ Lists!PageCount(n - 1) = n
<1>1. n \in Nat \ {0}
  BY PageWordsAssumption
<1>2. (n - 1) \div 1 + 1 = n
  BY <1>1
<1> QED
  BY <1>1, <1>2 DEF Lists!PageCount

(* malloc_page_aligned finds an entry.                                     *)
LEMMA FittingFound ==
    ASSUME NEW l, ListIs(l), NEW n \in Counts, NEW e \in Fitting(n)
    PROVE  \E k \in 2..Len(l) : \E p :
              /\ e = l[k] /\ Labels(mem, l[k], p, 1) /\ Size(mem, l[k]) >= n
              /\ Size(mem, l[k]) \in Nat
              /\ k - 1 \in 1..Len(EntriesOf(mem, l))
              /\ EntriesOf(mem, l)[k - 1] = [location |-> p - 1, free |-> TRUE,
                                             size |-> Size(mem, l[k])]
              /\ \A j \in 1..(k - 1) - 1 :
                    ~(EntriesOf(mem, l)[j].free /\ EntriesOf(mem, l)[j].size >= n)
<1> DEFINE E == EntriesOf(mem, l)
           L == Len(l)
           S == {i \in 1..L : IsFree(mem, l[i]) /\ Size(mem, l[i]) >= n}
<1>1. /\ L \in Nat \ {0} /\ l[1] = head /\ Len(E) = L - 1
      /\ \A i \in 1..L - 1 : E[i] = EntryAt(mem, l[i + 1])
  BY EntriesAre DEF ListIs
<1>2. PICK k \in S : e = l[k] /\ \A j \in S : k <= j
  <2>1. Chain(mem) = l
    BY EntriesNow DEF ListIs, WordsOK
  <2>2. Fitting(n) = First(l, S)
    BY <2>1 DEF Fitting
  <2>3. S \subseteq Nat
    BY <1>1
  <2> HIDE DEF S
  <2> QED  BY <2>2, <2>3, FirstIs
<1>3. k # 1
  <2>1. ~IsFree(mem, head)
    BY DEF ListIs, WordsOK, IsFree
  <2> QED  BY <1>1, <1>2, <2>1
<1>4. k \in 2..L
  BY <1>1, <1>2, <1>3
<1>5. PICK p, b : Labels(mem, l[k], p, b)
  BY <1>4 DEF ListIs, WordsOK, Labelled
<1>6. b = 1
  BY <1>2, <1>5, EntryFields
<1>7. Labels(mem, l[k], p, 1) /\ Size(mem, l[k]) >= n /\ Size(mem, l[k]) \in Nat
  <2>1. Size(mem, l[k]) \in Nat
    BY <1>4 DEF ListIs, WordsOK, Labelled
  <2> QED  BY <1>2, <1>5, <1>6, <2>1
<1>8. k - 1 \in 1..Len(E) /\ E[k - 1] = EntryAt(mem, l[k])
  <2>1. k - 1 \in 1..L - 1 /\ (k - 1) + 1 = k
    BY <1>1, <1>4
  <2> QED  BY <1>1, <2>1
<1>9. EntryAt(mem, l[k]) = [location |-> p - 1, free |-> TRUE, size |-> Size(mem, l[k])]
  BY <1>7, EntryIs
<1>10. ASSUME NEW j \in 1..(k - 1) - 1 PROVE ~(E[j].free /\ E[j].size >= n)
  <2>1. j \in 1..L - 1 /\ j + 1 \in 1..L /\ ~(k <= j + 1)
    BY <1>1, <1>4
  <2>2. j + 1 \notin S
    BY <1>2, <2>1
  <2>3. ~(IsFree(mem, l[j + 1]) /\ Size(mem, l[j + 1]) >= n)
    BY <2>1, <2>2
  <2>4. E[j].free = IsFree(mem, l[j + 1]) /\ E[j].size = Size(mem, l[j + 1])
    <3>1. E[j] = EntryAt(mem, l[j + 1])
      BY <1>1, <2>1
    <3> HIDE DEF E
    <3> QED  BY <3>1 DEF EntryAt
  <2> QED  BY <2>3, <2>4
<1> QED
  BY <1>2, <1>4, <1>7, <1>8, <1>9, <1>10

(* Where a free entry begins no used one does.                             *)
LEMMA FreeNotUsed ==
    ASSUME NEW E, NEW top, SortedTo(E, top), NEW i \in 1..Len(E), E[i].free
    PROVE  ~UsedAt(E, E[i].location)
<1> SUFFICES ASSUME NEW j \in 1..Len(E), ~E[j].free, E[j].location = E[i].location
             PROVE  FALSE
  BY DEF UsedAt
<1>1. j = i
  BY SortedDistinct
<1> QED
  BY <1>1

\* What is left of a reuse: the list, its entries, and one block more.
ReusedWhole(l, E, k, p, n) ==
    /\ ListIs(l)'
    /\ \E f : f = FALSE /\ EntriesOf(mem', l) = WithBit(E, k - 1, f)
    /\ held' = held \cup {[location |-> Address(p), count |-> n]}
ReusedPart(E, k, p, n) ==
    \E c : /\ ListIs(c)'
           /\ EntriesOf(mem', c) = SplitEntries(E, k - 1, n)
           /\ held' = held \cup {[location |-> Address(p), count |-> n]}
           /\ Lists!PrepareEntry(0)

(* It fits exactly: only its free bit changes.                             *)
LEMMA ReuseWhole ==
    ASSUME NEW l, ListIs(l), NEW n \in Nat \ {0},
           NEW k \in 2..Len(l), NEW p, Labels(mem, l[k], p, 1),
           NEW E, E = EntriesOf(mem, l),
           k - 1 \in 1..Len(E), E[k - 1].location = p - 1, E[k - 1].free,
           mem' = MarkUsed(mem, l[k]),
           UNCHANGED <<heapPos, nodeLocStack, pageEntryStart, pageEntriesCount, listPages>>,
           Give(Location(mem', l[k]), n)
    PROVE  ReusedWhole(l, E, k, p, n)
<1>1. /\ p \in Nat \ {0} /\ Location(mem, l[k]) = 2 * Address(p) + 1
      /\ 0 \in 0..1
  BY DEF Labels
<1>2. mem' = SetLocation(mem, l[k], 2 * Address(p) + 0)
  <2>1. Location(mem, l[k]) - (Location(mem, l[k]) % 2) = 2 * Address(p)
    BY <1>1, AddressAndBit
  <2>2. 2 * Address(p) = 2 * Address(p) + 0
    BY <1>1, Addresses
  <2> QED  BY <2>1, <2>2 DEF MarkUsed
<1>3. PICK f : f = FALSE
  OBVIOUS
<1>4. PICK F : F = WithBit(E, k - 1, f)
  OBVIOUS
<1>5. WordsOK(mem', l) /\ Labels(mem', l[k], p, 0) /\ EntriesOf(mem', l) = F
  <2>1. WordsOK(mem, l)
    BY DEF ListIs
  <2>2. BitGives(F, EntriesOf(mem, l), k, f) /\ IsBit(0, f)
       /\ BitStore(mem', mem, l[k], p, 0)
    BY <1>2, <1>3, <1>4 DEF BitGives, IsBit, BitStore
  <2>3. StoredAs(mem', l, F)
    BY <1>1, <2>1, <2>2, BitStored
  <2>4. Labels(mem', l[k], p, 0)
    BY <1>1, <2>1, <2>2, BitStored
  <2> QED  BY <2>3, <2>4 DEF StoredAs
<1>6. held' = held \cup {[location |-> Address(p), count |-> n]}
  <2>1. Location(mem', l[k]) \div 2 = Address(p)
    BY <1>1, <1>5, AddressAndBit DEF Labels
  <2> QED  BY <2>1 DEF Give
<1>7. SortedTo(E, heapPos - 1)
  BY DEF ListIs
<1>8. /\ SortedTo(F, heapPos - 1) /\ Len(F) = Len(E)
      /\ \A j \in 1..Len(E) : (j # k - 1 => F[j] = E[j]) /\ F[j].location = E[j].location
      /\ F[k - 1].free = f
  <2>1. f \in BOOLEAN
    BY <1>3
  <2>2. SortedTo(F, heapPos - 1)
    <3>1. PICK top : top = heapPos - 1
      OBVIOUS
    <3> QED  BY <1>4, <1>7, <2>1, <3>1, SortedMarked
  <2>3. Len(F) = Len(E)
    BY <1>4, <1>7, <2>1, SortedMarked
  <2>4. \A j \in 1..Len(E) : (j # k - 1 => F[j] = E[j]) /\ F[j].location = E[j].location
    <3> SUFFICES ASSUME NEW j \in 1..Len(E)
                 PROVE  (j # k - 1 => F[j] = E[j]) /\ F[j].location = E[j].location
      OBVIOUS
    <3>1. PICK i \in 1..Len(E) : i = k - 1
      OBVIOUS
    <3>2. F = WithBit(E, i, f)
      BY <1>4, <3>1
    <3>3. j # i => F[j] = E[j]
      BY <1>7, <2>1, <3>2, SortedMarked
    <3>4. F[j].location = E[j].location
      BY <1>7, <2>1, <3>2, SortedMarked
    <3> QED  BY <3>1, <3>3, <3>4
  <2>5. F[k - 1].free = f
    BY <1>4, <1>7, <2>1, SortedMarked
  <2> QED  BY <2>2, <2>3, <2>4, <2>5
<1>9. HeldOK(held', F)
  <2>1. HeldOK(held, E)
    BY DEF ListIs
  <2>2. UsedStay(E, F)
    BY <1>8 DEF UsedStay
  <2>3. ~UsedAt(E, p - 1)
    BY <1>7, FreeNotUsed
  <2>4. UsedAt(F, p - 1)
    BY <1>3, <1>8 DEF UsedAt
  <2> QED  BY <1>1, <1>6, <2>1, <2>2, <2>3, <2>4, HeldGrows
<1>10. BookInv'
  BY DEF ListIs, BookInv
<1>11. \A i \in 2..Len(l) : InPages(l[i])'
  BY DEF ListIs, InPages, InPage
<1>12. heapPos' = heapPos
  OBVIOUS
<1>13. ListIs(l)'
  BY <1>5, <1>8, <1>9, <1>10, <1>11, <1>12 DEF ListIs
<1> QED
  BY <1>3, <1>4, <1>5, <1>6, <1>13 DEF ReusedWhole

(* It is larger: it is split.                                              *)
LEMMA ReusePart ==
    ASSUME NEW l, ListIs(l), NEW n \in Nat \ {0},
           NEW k \in 2..Len(l), NEW p, Labels(mem, l[k], p, 1),
           NEW E, E = EntriesOf(mem, l),
           k - 1 \in 1..Len(E), E[k - 1].location = p - 1, E[k - 1].free,
           E[k - 1].size = Size(mem, l[k]), n < Size(mem, l[k]),
           Prepare(0), mem' = MarkUsed(SplitWords(l[k], n, Prepared(0).at), l[k]),
           Give(Location(mem', l[k]), n), otherPages' = otherPages
    PROVE  ReusedPart(E, k, p, n)
<1>1. /\ p \in Nat \ {0} /\ Location(mem, l[k]) = 2 * Address(p) + 1
      /\ 0 \in 0..1
  BY DEF Labels
<1>2. PICK new : new = Prepared(0).at
  OBVIOUS
<1>3. PICK c : c = Lists!PlaceAfter(l, k, new)
  OBVIOUS
<1>4. PICK F : F = SplitEntries(E, k - 1, n)
  OBVIOUS
<1>5. /\ Lists!PrepareEntry(0) /\ BookInv'
      /\ new \in Nat /\ InPages(new)'
      /\ \A i \in 1..Len(l) : Apart(l[i], new)
      /\ \A i \in 2..Len(l) : InPages(l[i])'
  <2>1. 0 \in Nat
    OBVIOUS
  <2> QED  BY <1>2, <2>1, ListPrepared
<1>6. /\ WordsOK(mem', c) /\ EntriesOf(mem', c) = F /\ Labels(mem', l[k], p, 0)
      /\ GrownBy(c, l, new)
  <2>0. SplitGives(F, E, k, n)
    BY <1>4 DEF SplitGives
  <2>1. Len(l) <= Address(Limit)
    BY ListIsShort
  <2>2. mem' = MarkUsed(SplitWords(l[k], n, new), l[k])
    BY <1>2
  <2>3. WordsOK(mem, l)
    BY DEF ListIs
  <2>4. new \in Nat /\ \A i \in 1..Len(l) : Apart(l[i], new)
    BY <1>5
  <2>5. WordsOK(mem', c)
    BY <1>3, <2>0, <2>1, <2>2, <2>3, <2>4, SplitGrows
  <2>6. EntriesOf(mem', c) = F
    BY <1>3, <2>0, <2>1, <2>2, <2>3, <2>4, SplitGrows
  <2>7. Labels(mem', l[k], p, 0)
    BY <1>3, <2>0, <2>1, <2>2, <2>3, <2>4, SplitGrows
  <2>8. GrownBy(c, l, new)
    BY <1>3, <2>0, <2>1, <2>2, <2>3, <2>4, SplitGrows
  <2> QED  BY <2>5, <2>6, <2>7, <2>8
<1>7. held' = held \cup {[location |-> Address(p), count |-> n]}
  <2>1. Location(mem', l[k]) \div 2 = Address(p)
    BY <1>1, <1>6, AddressAndBit DEF Labels
  <2> QED  BY <2>1 DEF Give
<1>8. SortedTo(E, heapPos - 1) /\ heapPos - 1 \in Nat
  BY DEF ListIs, BookInv
<1>9. SortedTo(F, heapPos - 1) /\ UsedStay(E, F) /\ UsedAt(F, p - 1)
  BY <1>4, <1>8, SortedSplit
<1>10. SortedTo(F, heapPos' - 1)
  <2>1. heapPos' - 1 \in Nat /\ heapPos - 1 <= heapPos' - 1
    <3>1. heapPos \in Nat /\ heapPos' \in Nat /\ heapPos' >= 3
      BY <1>5 DEF ListIs, BookInv
    <3>2. heapPos' = heapPos + 0 + Cardinality(Prepared(0).pages)
      BY DEF Prepare
    <3>3. Cardinality(Prepared(0).pages) \in Nat
      <4>1. Prepared(0).pages = {} \/ Prepared(0).pages = {heapPos + 0}
        BY DEF Prepared
      <4>2. Cardinality({}) \in Nat
        BY FS_EmptySet
      <4>3. Cardinality({heapPos + 0}) \in Nat
        <5>1. PICK x : x = heapPos + 0
          OBVIOUS
        <5>2. Cardinality({x}) = 1
          BY FS_Singleton, Zenon
        <5> QED  BY <5>1, <5>2
      <4>4. CASE Prepared(0).pages = {}
        BY <4>2, <4>4
      <4>5. CASE Prepared(0).pages = {heapPos + 0}
        BY <4>3, <4>5
      <4> QED  BY <4>1, <4>4, <4>5
    <3> QED  BY <3>1, <3>2, <3>3
  <2> QED  BY <1>8, <1>9, <2>1, SortedHigher
<1>11. HeldOK(held', F)
  <2>1. HeldOK(held, E)
    BY DEF ListIs
  <2>2. ~UsedAt(E, p - 1)
    BY <1>8, FreeNotUsed
  <2> QED  BY <1>1, <1>7, <1>9, <2>1, <2>2, HeldGrows
<1>12. \A i \in 2..Len(c) : InPages(c[i])'
  <2> SUFFICES ASSUME NEW i \in 2..Len(c) PROVE InPages(c[i])'
    OBVIOUS
  <2>1. c[i] = new \/ \E j \in 2..Len(l) : c[i] = l[j]
    BY <1>6 DEF GrownBy
  <2> QED  BY <1>5, <2>1
<1>13. ListIs(c)'
  BY <1>5, <1>6, <1>10, <1>11, <1>12 DEF ListIs
<1> QED
  BY <1>4, <1>5, <1>6, <1>7, <1>13 DEF ReusedPart

(* An entry found and split is a step of module PageList.                  *)
LEMMA ReuseMaps ==
    ASSUME NEW n \in Counts, NEW i \in 1..Len(Entries), NEW p \in Nat \ {0},
           Entries[i].location = p - 1, Lists!Fits(i, n),
           \A j \in 1..i - 1 : ~Lists!Fits(j, n),
           Lists!Split(i, n),
           held' = held \cup {[location |-> Address(p), count |-> n]}
    PROVE  Lists!MallocReuse(n - 1)
<1>1. Lists!PageCount(n - 1) = n
  BY CountOf
<1>2. {[location |-> PageAt(h.location) - 1, bytes |-> h.count - 1] : h \in held'} =
         {[location |-> PageAt(h.location) - 1, bytes |-> h.count - 1] : h \in held}
            \cup {[location |-> p - 1, bytes |-> n - 1]}
  BY MappedGrows
<1>3. PICK H, G : /\ H = {[location |-> PageAt(h.location) - 1, bytes |-> h.count - 1] : h \in held}
                  /\ G = {[location |-> PageAt(h.location) - 1, bytes |-> h.count - 1] : h \in held'}
  OBVIOUS
<1>4. G = H \cup {[location |-> Entries[i].location, bytes |-> n - 1]}
  BY <1>2, <1>3
<1> QED
  BY <1>1, <1>3, <1>4 DEF Lists!MallocReuse

(* An entry that fits exactly is split as module PageList says,            *)
LEMMA SplitWhole ==
    ASSUME NEW E, Entries = E, NEW i, NEW f, f = FALSE, Entries' = WithBit(E, i, f),
           NEW n, E[i].size = n,
           UNCHANGED <<heapPos, listPages, otherPages, pageEntriesCount>>
    PROVE  Lists!Split(i, n)
<1>1. Entries' = [Entries EXCEPT ![i].free = FALSE]
  BY DEF WithBit
<1> QED
  BY <1>1 DEF Lists!Split

(* and so is one that is larger.                                           *)
LEMMA SplitPart ==
    ASSUME NEW E, Entries = E, NEW i, NEW n, E[i].size # n,
           Entries' = SplitEntries(E, i, n), Lists!PrepareEntry(0)
    PROVE  Lists!Split(i, n)
<1>1. Entries' = Lists!PlaceAfter([Entries EXCEPT ![i] = Lists!Kept(i, n)], i, Lists!Rest(i, n))
  BY DEF SplitEntries, Lists!Kept, Lists!Rest
<1> QED
  BY <1>1 DEF Lists!Split

(* malloc_page_aligned, with a free entry to be had, does what it does     *)
(* there.                                                                  *)
LEMMA ReuseSteps ==
    ASSUME NEW l, ListIs(l), NEW n \in Counts, MallocReuse(n)
    PROVE  (\E c : ListIs(c)') /\ Lists!MallocReuse(n - 1)
<1>1. PICK e \in Fitting(n) :
        /\ IF Size(mem, e) = n
           THEN /\ mem' = MarkUsed(mem, e)
                /\ UNCHANGED <<heapPos, nodeLocStack, pageEntryStart,
                               pageEntriesCount, listPages>>
           ELSE /\ Prepare(0)
                /\ mem' = MarkUsed(SplitWords(e, n, Prepared(0).at), e)
        /\ Give(Location(mem', e), n)
        /\ UNCHANGED <<otherPages, shrinks>>
  BY DEF MallocReuse
<1>2. PICK E : E = EntriesOf(mem, l)
  OBVIOUS
<1>3a. PICK k \in 2..Len(l) : \E p :
         /\ e = l[k] /\ Labels(mem, l[k], p, 1) /\ Size(mem, l[k]) >= n
         /\ Size(mem, l[k]) \in Nat
         /\ k - 1 \in 1..Len(E)
         /\ E[k - 1] = [location |-> p - 1, free |-> TRUE, size |-> Size(mem, l[k])]
         /\ \A j \in 1..(k - 1) - 1 : ~(E[j].free /\ E[j].size >= n)
  BY <1>2, FittingFound
<1>3. PICK p :
         /\ e = l[k] /\ Labels(mem, l[k], p, 1) /\ Size(mem, l[k]) >= n
         /\ Size(mem, l[k]) \in Nat
         /\ k - 1 \in 1..Len(E)
         /\ E[k - 1] = [location |-> p - 1, free |-> TRUE, size |-> Size(mem, l[k])]
         /\ \A j \in 1..(k - 1) - 1 : ~(E[j].free /\ E[j].size >= n)
  BY <1>3a
<1>4. /\ E[k - 1].location = p - 1 /\ E[k - 1].free /\ E[k - 1].size = Size(mem, l[k])
      /\ n \in Nat \ {0} /\ p \in Nat \ {0}
  BY <1>3, CountOf DEF Labels
<1>5. Entries = E
  BY <1>2, EntriesNow DEF ListIs, WordsOK
<1>6. /\ k - 1 \in 1..Len(Entries) /\ Entries[k - 1].location = p - 1
      /\ Lists!Fits(k - 1, n) /\ \A j \in 1..(k - 1) - 1 : ~Lists!Fits(j, n)
  BY <1>3, <1>4, <1>5 DEF Lists!Fits
<1>7. CASE Size(mem, e) = n
  <2>1. /\ mem' = MarkUsed(mem, l[k])
        /\ UNCHANGED <<heapPos, nodeLocStack, pageEntryStart, pageEntriesCount, listPages>>
        /\ Give(Location(mem', l[k]), n)
    BY <1>1, <1>3, <1>7
  <2>2. /\ ListIs(l)'
        /\ \E f : f = FALSE /\ EntriesOf(mem', l) = WithBit(E, k - 1, f)
        /\ held' = held \cup {[location |-> Address(p), count |-> n]}
    <3>1. ReusedWhole(l, E, k, p, n)
      BY <1>2, <1>3, <1>4, <2>1, ReuseWhole
    <3> QED  BY <3>1 DEF ReusedWhole
  <2>3. PICK f : f = FALSE /\ EntriesOf(mem', l) = WithBit(E, k - 1, f)
    BY <2>2
  <2>4. Entries' = WithBit(E, k - 1, f)
    BY <2>2, <2>3, EntriesNext DEF ListIs, WordsOK
  <2>5. Lists!Split(k - 1, n)
    BY <1>1, <1>3, <1>4, <1>5, <1>7, <2>1, <2>3, <2>4, SplitWhole
  <2> QED  BY <1>4, <1>6, <2>2, <2>5, ReuseMaps
<1>8. CASE Size(mem, e) # n
  <2>1. /\ Prepare(0) /\ mem' = MarkUsed(SplitWords(l[k], n, Prepared(0).at), l[k])
        /\ Give(Location(mem', l[k]), n) /\ otherPages' = otherPages
    BY <1>1, <1>3, <1>8
  <2>2. n < Size(mem, l[k])
    BY <1>3, <1>4, <1>8
  <2>3. PICK c : /\ ListIs(c)'
                 /\ EntriesOf(mem', c) = SplitEntries(E, k - 1, n)
                 /\ held' = held \cup {[location |-> Address(p), count |-> n]}
                 /\ Lists!PrepareEntry(0)
    <3>1. ReusedPart(E, k, p, n)
      BY <1>2, <1>3, <1>4, <2>1, <2>2, ReusePart
    <3> QED  BY <3>1 DEF ReusedPart
  <2>4. Entries' = SplitEntries(E, k - 1, n)
    BY <2>3, EntriesNext DEF ListIs, WordsOK
  <2>5. Lists!Split(k - 1, n)
    BY <1>3, <1>4, <1>5, <1>8, <2>3, <2>4, SplitPart
  <2> QED  BY <1>4, <1>6, <2>3, <2>5, ReuseMaps
<1> QED
  BY <1>7, <1>8

(* An entry of the list and what module PageList has for it.               *)
LEMMA EntryBehind ==
    ASSUME NEW l, ListIs(l), NEW i \in 2..Len(l), NEW E, E = EntriesOf(mem, l)
    PROVE  /\ i - 1 \in 1..Len(E) /\ E[i - 1] = EntryAt(mem, l[i])
           /\ \E p, b : /\ Labels(mem, l[i], p, b) /\ p < heapPos
                        /\ E[i - 1].location = p - 1
                        /\ E[i - 1].free <=> b = 1
                        /\ E[i - 1].size = Size(mem, l[i])
<1>1. /\ Len(l) \in Nat \ {0} /\ Len(E) = Len(l) - 1
      /\ \A j \in 1..Len(l) - 1 : E[j] = EntryAt(mem, l[j + 1])
  BY EntriesAre DEF ListIs
<1>2. i - 1 \in 1..Len(l) - 1 /\ (i - 1) + 1 = i
  BY <1>1
<1>3. i - 1 \in 1..Len(E) /\ E[i - 1] = EntryAt(mem, l[i])
  BY <1>1, <1>2
<1>4. PICK p, b : Labels(mem, l[i], p, b)
  BY DEF ListIs, WordsOK, Labelled
<1>5. /\ E[i - 1].location = p - 1 /\ E[i - 1].size = Size(mem, l[i])
      /\ E[i - 1].free = (b = 1)
  BY <1>3, <1>4, EntryFields
<1>6. p < heapPos
  <2>1. SortedTo(E, heapPos - 1) /\ heapPos \in Nat
    BY DEF ListIs, BookInv
  <2>2. PICK x : x = E[i - 1]
    OBVIOUS
  <2>3. /\ x.location \in Nat /\ Lists!End(x) \in Nat /\ x.location < Lists!End(x)
        /\ Lists!End(x) <= heapPos - 1
    <3>1. PICK top : top = heapPos - 1
      OBVIOUS
    <3>2. SortedTo(E, top)
      BY <2>1, <3>1
    <3>3. x.location \in Nat /\ Lists!End(x) \in Nat /\ x.location < Lists!End(x)
      BY <1>3, <2>2, <3>2, SortedNumbers
    <3>4. Lists!End(x) <= top
      BY <1>3, <2>2, <3>2 DEF SortedTo
    <3> QED  BY <3>1, <3>3, <3>4
  <2>4. p \in Nat /\ x.location = p - 1
    BY <1>4, <1>5, <2>2 DEF Labels
  <2> QED  BY <2>1, <2>3, <2>4
<1> QED
  BY <1>3, <1>4, <1>5, <1>6

(* Every entry lies below a page never handed out.                         *)
LEMMA AllBelow ==
    ASSUME NEW l, ListIs(l), NEW i \in 1..Len(l)
    PROVE  Location(mem, l[i]) \in Nat /\ Location(mem, l[i]) < 2 * Address(heapPos)
<1>1. heapPos \in Nat /\ 3 <= heapPos /\ Len(l) \in Nat \ {0} /\ l[1] = head
  BY EntriesAre DEF ListIs, BookInv
<1>2. PICK top \in Nat : top = Address(heapPos)
  BY <1>1, Addresses
<1>3. CASE i = 1
  <2>1. Address(0) + PageWordCount <= Address(heapPos)
    BY <1>1, Addresses
  <2>2. 0 < top
    BY <1>2, <2>1, Addresses
  <2>3. Location(mem, l[i]) = 0
    BY <1>1, <1>3 DEF ListIs, WordsOK
  <2> QED  BY <1>2, <2>2, <2>3
<1>4. CASE i # 1
  <2>1. i \in 2..Len(l)
    BY <1>1, <1>4
  <2>2. PICK p, b : Labels(mem, l[i], p, b) /\ p < heapPos
    BY <2>1, EntryBehind
  <2>3. p \in Nat /\ b \in 0..1 /\ Location(mem, l[i]) = 2 * Address(p) + b
    BY <2>2 DEF Labels
  <2>4. PICK a \in Nat : a = Address(p)
    BY <2>3, Addresses
  <2>5. PICK w \in Nat : w = PageWordCount /\ w >= 3
    BY Addresses
  <2>6. a + w <= top
    BY <1>1, <1>2, <2>2, <2>3, <2>4, <2>5, Addresses
  <2>7. Location(mem, l[i]) = 2 * a + b
    BY <2>3, <2>4
  <2> QED  BY <1>2, <2>3, <2>5, <2>6, <2>7
<1> QED
  BY <1>3, <1>4

(* So addNode walks to the end.                                            *)
LEMMA AddedLast ==
    ASSUME NEW l, ListIs(l), NEW n, NEW new, NEW w, w = 2 * Address(heapPos)
    PROVE  AddWords(w, n, new) =
              SetNext(SetSize(SetLocation(SetNext(mem, l[Len(l)], new), new, w), new, n),
                      new, NextOf(mem, l[Len(l)]))
<1>1. Chain(mem) = l
  BY EntriesNow DEF ListIs, WordsOK
<1>2. heapPos \in Nat /\ w \in Nat
  <2>1. heapPos \in Nat
    BY DEF ListIs, BookInv
  <2> QED  BY <2>1, Addresses
<1>3. ASSUME NEW i \in 1..Len(l) PROVE ~(Location(mem, l[i]) >= w)
  BY <1>2, AllBelow
<1>4. {i \in 1..Len(l) : Location(mem, l[i]) >= w} = {}
  BY <1>3
<1> QED
  BY <1>1, <1>4 DEF AddWords

(* malloc_page_aligned finds none.                                         *)
LEMMA NoneFits ==
    ASSUME NEW l, ListIs(l), NEW n, Fitting(n) = {}, NEW E, E = EntriesOf(mem, l),
           NEW i \in 1..Len(E)
    PROVE  ~(E[i].free /\ E[i].size >= n)
<1> DEFINE S == {j \in 1..Len(l) : IsFree(mem, l[j]) /\ Size(mem, l[j]) >= n}
<1>1. Len(l) \in Nat \ {0} /\ Len(E) = Len(l) - 1
  BY EntriesAre DEF ListIs
<1>2. S = {}
  <2>1. Chain(mem) = l
    BY EntriesNow DEF ListIs, WordsOK
  <2>2. Fitting(n) = First(l, S)
    BY <2>1 DEF Fitting
  <2>3. S \subseteq Nat
    BY <1>1
  <2> HIDE DEF S
  <2> QED  BY <2>2, <2>3, FirstIs
<1>3. i + 1 \in 2..Len(l) /\ i + 1 \in 1..Len(l) /\ (i + 1) - 1 = i
  BY <1>1
<1>4. ~(IsFree(mem, l[i + 1]) /\ Size(mem, l[i + 1]) >= n)
  BY <1>2, <1>3
<1>5. E[i] = EntryAt(mem, l[i + 1])
  BY <1>3, EntryBehind
<1>6. E[i].free = IsFree(mem, l[i + 1]) /\ E[i].size = Size(mem, l[i + 1])
  BY <1>5 DEF EntryAt
<1> QED
  BY <1>4, <1>6

(* An entry for the pages taken is put behind the others.                  *)
LEMMA FreshSorted ==
    ASSUME NEW l, ListIs(l), NEW n \in Nat \ {0}, Prepare(n), otherPages' = otherPages,
           BookInv', NEW E, E = EntriesOf(mem, l),
           NEW f, f = FALSE,
           NEW e, e = [location |-> heapPos - 1, free |-> f, size |-> n],
           NEW F, F = Lists!PlaceAfter(E, Len(E), e)
    PROVE  /\ SortedTo(F, heapPos' - 1) /\ UsedStay(E, F)
           /\ UsedAt(F, heapPos - 1) /\ ~UsedAt(E, heapPos - 1)
<1>1. PICK low \in Nat : low = heapPos - 1 /\ low \in Nat
  BY DEF ListIs, BookInv
<1>2. PICK top \in Nat : top = heapPos' - 1 /\ low + n <= top
  <2>1. heapPos \in Nat /\ heapPos' \in Nat /\ heapPos' >= 3
    BY DEF ListIs, BookInv
  <2>2. heapPos' = heapPos + n + Cardinality(Prepared(n).pages)
    BY DEF Prepare
  <2>3. Cardinality(Prepared(n).pages) \in Nat
    <3>1. PICK x : x = heapPos + n
      OBVIOUS
    <3>2. Prepared(n).pages = {} \/ Prepared(n).pages = {x}
      BY <3>1 DEF Prepared
    <3>3. Cardinality({}) = 0
      BY FS_EmptySet
    <3>4. Cardinality({x}) = 1
      BY FS_Singleton, Zenon
    <3>5. CASE Prepared(n).pages = {}
      BY <3>3, <3>5
    <3>6. CASE Prepared(n).pages = {x}
      BY <3>4, <3>6
    <3> QED  BY <3>2, <3>5, <3>6
  <2>4. PICK c \in Nat : c = Cardinality(Prepared(n).pages)
    BY <2>3
  <2> QED  BY <1>1, <2>1, <2>2, <2>4
<1>3. SortedTo(E, low)
  BY <1>1 DEF ListIs
<1>4. /\ e \in Lists!Entry /\ e.location = low /\ Lists!End(e) <= top /\ ~e.free
      /\ Len(E) \in Nat
  <2>1. e.location = low /\ e.size = n /\ e.free = FALSE
    BY <1>1
  <2>2. e \in Lists!Entry
    BY <1>1 DEF Lists!Entry
  <2>3. Len(E) \in Nat
    BY <1>3, SortedNumbers
  <2> QED  BY <1>2, <2>1, <2>2, <2>3 DEF Lists!End
<1>5. SortedTo(F, top)
  BY <1>2, <1>3, <1>4, SortedAppended
<1>6. Len(F) = Len(E) + 1
  BY <1>2, <1>3, <1>4, SortedAppended
<1>7. ASSUME NEW j \in 1..Len(E) PROVE F[j] = E[j] /\ j \in 1..Len(F)
  <2>1. F[j] = E[j]
    BY <1>2, <1>3, <1>4, SortedAppended
  <2> QED  BY <1>4, <1>6, <2>1
<1>8. F[Len(E) + 1] = e /\ Len(E) + 1 \in 1..Len(F)
  <2>1. F[Len(E) + 1] = e
    BY <1>2, <1>3, <1>4, SortedAppended
  <2> QED  BY <1>4, <1>6, <2>1
<1>9. UsedAt(F, low)
  BY <1>4, <1>8 DEF UsedAt
<1>10. ~UsedAt(E, low)
  <2> SUFFICES ASSUME NEW i \in 1..Len(E), E[i].location = low PROVE FALSE
    BY DEF UsedAt
  <2>1. E[i].location \in Nat /\ Lists!End(E[i]) \in Nat /\ E[i].location < Lists!End(E[i])
    BY <1>3, SortedNumbers
  <2>2. Lists!End(E[i]) <= low
    BY <1>3 DEF SortedTo
  <2> QED  BY <2>1, <2>2
<1>11. UsedStay(E, F)
  BY <1>7 DEF UsedStay
<1> QED
  BY <1>1, <1>2, <1>5, <1>9, <1>10, <1>11

\* What is left of pages taken: the list, its entries, and one block more.
FreshDone(E, n) ==
    /\ \E c : /\ ListIs(c)'
              /\ \E f, e : /\ f = FALSE
                           /\ e = [location |-> heapPos - 1, free |-> f, size |-> n]
                           /\ EntriesOf(mem', c) = Lists!PlaceAfter(E, Len(E), e)
    /\ held' = held \cup {[location |-> Address(heapPos), count |-> n]}
    /\ Lists!PrepareEntry(n)

(* The new entry leaves a list, and the caller has its block.              *)
LEMMA FreshGrows ==
    ASSUME NEW l, ListIs(l), NEW n \in Counts, MallocFresh(n), NEW E, E = EntriesOf(mem, l)
    PROVE  FreshDone(E, n)
<1>1. n \in Nat \ {0} /\ heapPos \in Nat \ {0}
  BY CountOf DEF ListIs, BookInv
<1>2. PICK new : new = Prepared(n).at
  OBVIOUS
<1>3. PICK c : c = Lists!PlaceAfter(l, Len(l), new)
  OBVIOUS
<1>4. PICK f : f = FALSE
  OBVIOUS
<1>5. PICK e : e = [location |-> heapPos - 1, free |-> f, size |-> n]
  OBVIOUS
<1>6. PICK F : F = Lists!PlaceAfter(E, Len(E), e)
  OBVIOUS
<1>7. Prepare(n) /\ otherPages' = otherPages
  BY DEF MallocFresh
<1>8. /\ Lists!PrepareEntry(n) /\ BookInv'
      /\ new \in Nat /\ InPages(new)'
      /\ \A i \in 1..Len(l) : Apart(l[i], new)
      /\ \A i \in 2..Len(l) : InPages(l[i])'
  BY <1>1, <1>2, <1>7, ListPrepared
<1>9. PICK w : w = 2 * Address(heapPos)
  OBVIOUS
<1>10. mem' = SetNext(SetSize(SetLocation(SetNext(mem, l[Len(l)], new), new, w), new, n),
                      new, NextOf(mem, l[Len(l)]))
  <2>1. mem' = AddWords(w, n, new)
    BY <1>2, <1>9 DEF MallocFresh
  <2> QED  BY <1>9, <2>1, AddedLast
<1>11. StoredAs(mem', c, F) /\ GrownBy(c, l, new)
  <2>1. Len(l) <= Address(Limit)
    BY ListIsShort
  <2>2. WordsOK(mem, l)
    BY DEF ListIs
  <2>3. new \in Nat /\ \A i \in 1..Len(l) : Apart(l[i], new)
    BY <1>8
  <2> QED  BY <1>1, <1>3, <1>4, <1>5, <1>6, <1>9, <1>10, <2>1, <2>2, <2>3, AddGrows
<1>12. /\ SortedTo(F, heapPos' - 1) /\ UsedStay(E, F)
       /\ UsedAt(F, heapPos - 1) /\ ~UsedAt(E, heapPos - 1)
  BY <1>1, <1>4, <1>5, <1>6, <1>7, <1>8, FreshSorted
<1>13. held' = held \cup {[location |-> Address(heapPos), count |-> n]}
  <2>1. w \div 2 = Address(heapPos)
    <3>1. 0 \in 0..1 /\ heapPos \in Nat /\ w = 2 * Address(heapPos) + 0
      BY <1>1, <1>9, Addresses
    <3> QED  BY <3>1, AddressAndBit
  <2> QED  BY <1>9, <2>1 DEF MallocFresh, Give
<1>14. HeldOK(held', F)
  <2>1. HeldOK(held, E)
    BY DEF ListIs
  <2> QED  BY <1>1, <1>12, <1>13, <2>1, HeldGrows
<1>15. \A i \in 2..Len(c) : InPages(c[i])'
  <2> SUFFICES ASSUME NEW i \in 2..Len(c) PROVE InPages(c[i])'
    OBVIOUS
  <2>1. c[i] = new \/ \E j \in 2..Len(l) : c[i] = l[j]
    BY <1>11 DEF GrownBy
  <2> QED  BY <1>8, <2>1
<1>16. ListIs(c)'
  BY <1>8, <1>11, <1>12, <1>14, <1>15 DEF ListIs, StoredAs
<1> QED
  BY <1>4, <1>5, <1>6, <1>8, <1>11, <1>13, <1>16 DEF FreshDone, StoredAs

(* malloc_page_aligned, with no entry to be had, does what it does there.  *)
LEMMA FreshSteps ==
    ASSUME NEW l, ListIs(l), NEW n \in Counts, MallocFresh(n)
    PROVE  (\E c : ListIs(c)') /\ Lists!MallocFresh(n - 1)
<1>1. PICK E : E = EntriesOf(mem, l)
  OBVIOUS
<1>2. FreshDone(E, n)
  BY <1>1, FreshGrows
<1>3. PICK c : /\ ListIs(c)'
               /\ \E f, e : /\ f = FALSE
                            /\ e = [location |-> heapPos - 1, free |-> f, size |-> n]
                            /\ EntriesOf(mem', c) = Lists!PlaceAfter(E, Len(E), e)
  BY <1>2 DEF FreshDone
<1>4. PICK f, e : /\ f = FALSE
                  /\ e = [location |-> heapPos - 1, free |-> f, size |-> n]
                  /\ EntriesOf(mem', c) = Lists!PlaceAfter(E, Len(E), e)
  BY <1>3
<1>5. Entries = E /\ Entries' = Lists!PlaceAfter(E, Len(E), e)
  <2>1. Entries = E
    BY <1>1, EntriesNow DEF ListIs, WordsOK
  <2>2. Entries' = EntriesOf(mem', c)
    BY <1>3, EntriesNext DEF ListIs, WordsOK
  <2> QED  BY <1>4, <2>1, <2>2
<1>6. /\ Len(E) \in Nat /\ heapPos - 1 \in Nat /\ heapPos \in Nat \ {0}
      /\ \A j \in 1..Len(E) : E[j].location < heapPos - 1
  <2>1. PICK low \in Nat : low = heapPos - 1
    BY DEF ListIs, BookInv
  <2>2. SortedTo(E, low)
    BY <1>1, <2>1 DEF ListIs
  <2>3. ASSUME NEW j \in 1..Len(E) PROVE E[j].location < low
    <3>1. E[j].location \in Nat /\ Lists!End(E[j]) \in Nat /\ E[j].location < Lists!End(E[j])
      BY <2>2, SortedNumbers
    <3>2. Lists!End(E[j]) <= low
      BY <2>2 DEF SortedTo
    <3> QED  BY <3>1, <3>2
  <2>4. Len(E) \in Nat
    BY <2>2, SortedNumbers
  <2> QED  BY <2>1, <2>3, <2>4 DEF ListIs, BookInv
<1>7. Lists!AddEntry(heapPos - 1, n)
  <2>1. Len(Entries) \in 0..Len(Entries) /\ ~(Len(Entries) < Len(Entries))
    BY <1>5, <1>6
  <2>2. \A j \in 1..Len(Entries) : Entries[j].location < heapPos - 1
    BY <1>5, <1>6
  <2>3. Entries' = Lists!PlaceAfter(Entries, Len(Entries),
                      [location |-> heapPos - 1, free |-> FALSE, size |-> n])
    BY <1>4, <1>5
  <2> QED  BY <2>1, <2>2, <2>3 DEF Lists!AddEntry
<1>8. \A i \in 1..Len(Entries) : ~Lists!Fits(i, n)
  <2>1. Fitting(n) = {}
    BY DEF MallocFresh
  <2> QED  BY <1>1, <1>5, <2>1, NoneFits DEF Lists!Fits
<1>9. Lists!PageCount(n - 1) = n /\ Lists!PrepareEntry(n)
  BY <1>2, CountOf DEF FreshDone
<1>10. PICK p \in Nat \ {0} : p = heapPos
  BY <1>6
<1>11. held' = held \cup {[location |-> Address(p), count |-> n]}
  BY <1>2, <1>10 DEF FreshDone
<1>12. {[location |-> PageAt(h.location) - 1, bytes |-> h.count - 1] : h \in held'} =
          {[location |-> PageAt(h.location) - 1, bytes |-> h.count - 1] : h \in held}
             \cup {[location |-> p - 1, bytes |-> n - 1]}
  BY <1>11, MappedGrows
<1>13. PICK H, G : /\ H = {[location |-> PageAt(h.location) - 1, bytes |-> h.count - 1] : h \in held}
                   /\ G = {[location |-> PageAt(h.location) - 1, bytes |-> h.count - 1] : h \in held'}
  OBVIOUS
<1>14. G = H \cup {[location |-> heapPos - 1, bytes |-> n - 1]}
  BY <1>10, <1>12, <1>13
<1>15. Lists!MallocFresh(n - 1)
  BY <1>7, <1>8, <1>9, <1>13, <1>14 DEF Lists!MallocFresh
<1> QED
  BY <1>3, <1>15

(* The page of an address a caller holds.                                  *)
LEMMA HeldPage ==
    ASSUME NEW p \in Nat
    PROVE  PageAt(Address(p)) = p
<1>1. PICK a \in Nat : a = Address(p)
  BY Addresses
<1>2. 0 \in 0..1 /\ 2 * a = 2 * a + 0 /\ (2 * a) \div 2 = a
  BY <1>1
<1> QED
  BY <1>1, <1>2, AddressAndBit

(* No two pages begin at the same address.                                 *)
LEMMA AddressesDiffer ==
    ASSUME NEW p \in Nat, NEW q \in Nat, Address(p) = Address(q)
    PROVE  p = q
BY HeldPage

\* The entry at e is the list's used one for page q.
UsedEntry(l, E, q, e) ==
    \E k \in 2..Len(l) :
        /\ e = l[k] /\ Labels(mem, l[k], q, 0)
        /\ k - 1 \in 1..Len(E) /\ E[k - 1].location = q - 1 /\ ~E[k - 1].free

(* The search of free finds the used entry at that location.               *)
LEMMA UsedFound ==
    ASSUME NEW l, ListIs(l), NEW q \in Nat \ {0}, NEW E, E = EntriesOf(mem, l),
           UsedAt(E, q - 1)
    PROVE  /\ AtLocation(Address(q)) # {}
           /\ \A e \in AtLocation(Address(q)) : UsedEntry(l, E, q, e)
<1> DEFINE S == {i \in 1..Len(l) : Location(mem, l[i]) = 2 * Address(q)}
<1>1. AtLocation(Address(q)) = First(l, S) /\ S \subseteq Nat
  <2>1. Chain(mem) = l
    BY EntriesNow DEF ListIs, WordsOK
  <2> QED  BY <2>1 DEF AtLocation
<1>2. Len(l) \in Nat \ {0} /\ Len(E) = Len(l) - 1 /\ l[1] = head
  BY EntriesAre DEF ListIs
<1>3. PICK a \in Nat : a = Address(q) /\ a > 0
  <2>1. Address(0) + PageWordCount <= Address(q)
    BY Addresses
  <2> QED  BY <2>1, Addresses
<1>4. S # {}
  <2>1. PICK i \in 1..Len(E) : ~E[i].free /\ E[i].location = q - 1
    BY DEF UsedAt
  <2>2. i + 1 \in 2..Len(l) /\ i + 1 \in 1..Len(l) /\ (i + 1) - 1 = i
    BY <1>2
  <2>3. PICK p, b : /\ Labels(mem, l[i + 1], p, b) /\ E[i].location = p - 1
                    /\ E[i].free <=> b = 1
    BY <2>2, EntryBehind
  <2>4. p = q /\ b = 0
    BY <2>1, <2>3 DEF Labels
  <2>5. Location(mem, l[i + 1]) = 2 * Address(q)
    BY <1>3, <2>3, <2>4 DEF Labels
  <2> QED  BY <2>2, <2>5
<1>5. ASSUME NEW k \in S
      PROVE  /\ k \in 2..Len(l) /\ Labels(mem, l[k], q, 0)
             /\ k - 1 \in 1..Len(E) /\ E[k - 1].location = q - 1 /\ ~E[k - 1].free
  <2>1. k \in 1..Len(l) /\ Location(mem, l[k]) = 2 * a
    BY <1>3
  <2>2. k # 1
    BY <1>2, <1>3, <2>1 DEF ListIs, WordsOK
  <2>3. k \in 2..Len(l)
    BY <1>2, <2>1, <2>2
  <2>4. PICK p, b : /\ Labels(mem, l[k], p, b) /\ E[k - 1].location = p - 1
                    /\ E[k - 1].free <=> b = 1
    BY <2>3, EntryBehind
  <2>5. PICK c \in Nat : c = Address(p)
    BY <2>4, Addresses DEF Labels
  <2>6. b \in 0..1 /\ 2 * a = 2 * c + b
    BY <2>1, <2>4, <2>5 DEF Labels
  <2>7. b = 0 /\ a = c
    BY <2>6
  <2>8. p = q
    BY <1>3, <2>4, <2>5, <2>7, AddressesDiffer DEF Labels
  <2>9. k - 1 \in 1..Len(E)
    BY <2>3, EntryBehind
  <2> QED  BY <2>3, <2>4, <2>7, <2>8, <2>9
<1> HIDE DEF S
<1>6. ASSUME NEW e \in AtLocation(Address(q))
      PROVE  UsedEntry(l, E, q, e)
  <2>1. e \in First(l, S)
    BY <1>1
  <2>2. \E i \in S : e = l[i] /\ \A j \in S : i <= j
    BY <1>1, <2>1, FirstIs
  <2>3. PICK k \in S : e = l[k]
    BY <2>2
  <2> QED  BY <1>5, <2>3 DEF UsedEntry
<1>7. AtLocation(Address(q)) # {}
  BY <1>1, <1>4, FirstIs
<1> QED
  BY <1>6, <1>7

\* What is left of a block given back.
FreeDone(l, E, h) ==
    /\ ListIs(l)'
    /\ \E q \in Nat \ {0}, i \in 1..Len(E) : \E f :
          /\ h.location = Address(q) /\ E[i].location = q - 1 /\ ~E[i].free
          /\ f = TRUE /\ EntriesOf(mem', l) = WithBit(E, i, f)

(* free_page_aligned marks the entry of the block and no other.            *)
LEMMA FreeMarks ==
    ASSUME NEW l, ListIs(l), NEW h \in held, Free(h), NEW E, E = EntriesOf(mem, l)
    PROVE  FreeDone(l, E, h)
<1>1. HeldOK(held, E) /\ SortedTo(E, heapPos - 1)
  BY DEF ListIs
<1>2. PICK q \in Nat \ {0} : h.location = Address(q) /\ UsedAt(E, q - 1)
  BY <1>1 DEF HeldOK, BackedBy
<1>3. PICK e \in AtLocation(Address(q)) : mem' = MarkFree(mem, e)
  <2>1. AtLocation(h.location) # {}
    BY <1>2, UsedFound
  <2> QED  BY <1>2, <2>1 DEF Free
<1>4. PICK k \in 2..Len(l) :
         /\ e = l[k] /\ Labels(mem, l[k], q, 0)
         /\ k - 1 \in 1..Len(E) /\ E[k - 1].location = q - 1 /\ ~E[k - 1].free
  <2>1. UsedEntry(l, E, q, e)
    BY <1>2, UsedFound
  <2> QED  BY <2>1 DEF UsedEntry
<1>5. PICK f : f = TRUE
  OBVIOUS
<1>6. PICK i \in 1..Len(E) : i = k - 1
  BY <1>4
<1>7. PICK F : F = WithBit(E, i, f)
  OBVIOUS
<1>8. BitStore(mem', mem, l[k], q, 1)
  <2>1. Location(mem, l[k]) = 2 * Address(q) + 0 /\ 0 \in 0..1
    BY <1>4 DEF Labels
  <2>2. Location(mem, l[k]) - (Location(mem, l[k]) % 2) + 1 = 2 * Address(q) + 1
    BY <2>1, AddressAndBit
  <2> QED  BY <1>3, <1>4, <2>2 DEF MarkFree, BitStore
<1>9. StoredAs(mem', l, F)
  <2>1. WordsOK(mem, l)
    BY DEF ListIs
  <2>2. BitGives(F, EntriesOf(mem, l), k, f) /\ IsBit(1, f) /\ 1 \in 0..1
    BY <1>5, <1>6, <1>7 DEF BitGives, IsBit
  <2> QED  BY <1>4, <1>8, <2>1, <2>2, BitStored
<1>10. PICK top : top = heapPos - 1 /\ f \in BOOLEAN
  BY <1>5
<1>11. SortedTo(F, top)
  BY <1>1, <1>7, <1>10, SortedMarked
<1>12. Len(F) = Len(E)
  BY <1>1, <1>7, <1>10, SortedMarked
<1>13. ASSUME NEW j \in 1..Len(E), j # i PROVE F[j] = E[j]
  BY <1>1, <1>7, <1>10, <1>13, SortedMarked
<1>14. held' = held \ {h}
  BY DEF Free
<1>15. HeldOK(held', F)
  <2>1. ASSUME NEW g \in held' PROVE g \in [location : Nat, count : Nat] /\ BackedBy(g, F)
    <3>1. g \in held /\ g.location # h.location
      BY <1>1, <1>14 DEF HeldOK
    <3>2. /\ g \in [location : Nat, count : Nat] /\ g.count \in Nat \ {0}
          /\ \E p \in Nat \ {0} : g.location = Address(p) /\ UsedAt(E, p - 1)
      BY <1>1, <3>1 DEF HeldOK, BackedBy
    <3>3. PICK p \in Nat \ {0} : g.location = Address(p) /\ UsedAt(E, p - 1)
      BY <3>2
    <3>4. PICK j \in 1..Len(E) : ~E[j].free /\ E[j].location = p - 1
      BY <3>3 DEF UsedAt
    <3>5. p # q
      BY <1>2, <3>1, <3>3
    <3>6. j # i
      BY <1>4, <1>6, <3>4, <3>5
    <3>7. F[j] = E[j] /\ j \in 1..Len(F)
      BY <1>12, <1>13, <3>6
    <3>8. UsedAt(F, p - 1)
      BY <3>4, <3>7 DEF UsedAt
    <3> QED  BY <3>2, <3>3, <3>8 DEF BackedBy
  <2>2. \A g, j \in held' : g.location = j.location => g = j
    BY <1>1, <1>14 DEF HeldOK
  <2> QED  BY <2>1, <2>2 DEF HeldOK
<1>16. BookInv' /\ heapPos' = heapPos
  BY DEF ListIs, BookInv, Free
<1>17. \A j \in 2..Len(l) : InPages(l[j])'
  BY DEF ListIs, InPages, InPage, Free
<1>18. ListIs(l)'
  BY <1>9, <1>10, <1>11, <1>15, <1>16, <1>17 DEF ListIs, StoredAs
<1> QED
  BY <1>2, <1>4, <1>5, <1>6, <1>7, <1>9, <1>18 DEF FreeDone, StoredAs

(* One block is given back and no other.                                   *)
LEMMA MappedShrinks ==
    ASSUME NEW E, HeldOK(held, E), NEW h \in held
    PROVE  {Mapped(g) : g \in held \ {h}} = {Mapped(g) : g \in held} \ {Mapped(h)}
<1>1. ASSUME NEW g \in held, Mapped(g) = Mapped(h) PROVE g = h
  <2>1. PICK p \in Nat \ {0} : g.location = Address(p)
    BY DEF HeldOK, BackedBy
  <2>2. PICK q \in Nat \ {0} : h.location = Address(q)
    BY DEF HeldOK, BackedBy
  <2>3. PageAt(g.location) - 1 = PageAt(h.location) - 1
    BY <1>1 DEF Mapped
  <2>4. PageAt(g.location) = p /\ PageAt(h.location) = q
    BY <2>1, <2>2, HeldPage
  <2>5. p = q
    BY <2>3, <2>4
  <2> QED  BY <2>1, <2>2, <2>5 DEF HeldOK
<1> QED
  BY <1>1

(* free_page_aligned does what it does there.                              *)
LEMMA FreeSteps ==
    ASSUME NEW l, ListIs(l), NEW h \in held, Free(h)
    PROVE  (\E c : ListIs(c)') /\ Lists!Free(Mapped(h)) /\ Mapped(h) \in {Mapped(g) : g \in held}
<1>1. PICK E : E = EntriesOf(mem, l)
  OBVIOUS
<1>2. FreeDone(l, E, h)
  BY <1>1, FreeMarks
<1>3. ListIs(l)' /\ Entries = E /\ Entries' = EntriesOf(mem', l)
  <2>1. ListIs(l)'
    BY <1>2 DEF FreeDone
  <2>2. Entries = E
    BY <1>1, EntriesNow DEF ListIs, WordsOK
  <2> QED  BY <2>1, <2>2, EntriesNext DEF ListIs, WordsOK
<1>4a. PICK q \in Nat \ {0}, i \in 1..Len(E) : \E f :
          /\ h.location = Address(q) /\ E[i].location = q - 1 /\ ~E[i].free
          /\ f = TRUE /\ EntriesOf(mem', l) = WithBit(E, i, f)
  BY <1>2 DEF FreeDone
<1>4. PICK f :
          /\ h.location = Address(q) /\ E[i].location = q - 1 /\ ~E[i].free
          /\ f = TRUE /\ EntriesOf(mem', l) = WithBit(E, i, f)
  BY <1>4a
<1>5. Mapped(h).location = q - 1
  BY <1>4, HeldPage DEF Mapped
<1>6. SortedTo(E, heapPos - 1) /\ HeldOK(held, E)
  BY <1>1 DEF ListIs
<1>7. PICK top : SortedTo(E, top)
  BY <1>6
<1>8. \A j \in 1..i - 1 : Entries[j].free \/ Entries[j].location # q - 1
  <2> SUFFICES ASSUME NEW j \in 1..i - 1, E[j].location = q - 1 PROVE FALSE
    BY <1>3
  <2>1. Len(E) \in Nat
    BY <1>7, SortedNumbers
  <2>2. j \in 1..Len(E) /\ j # i
    BY <2>1
  <2> QED  BY <1>4, <1>7, <2>2, SortedDistinct
<1>9. Entries' = [Entries EXCEPT ![i].free = TRUE]
  BY <1>3, <1>4 DEF WithBit
<1>10. {Mapped(g) : g \in held'} = {Mapped(g) : g \in held} \ {Mapped(h)}
  <2>1. held' = held \ {h}
    BY DEF Free
  <2> QED  BY <1>6, <2>1, MappedShrinks
<1>11. Mapped(h) \in {Mapped(g) : g \in held}
  OBVIOUS
<1>12. UNCHANGED <<heapPos, pageEntriesCount, listPages, otherPages>>
  BY DEF Free
<1>13. Lists!Free(Mapped(h))
  BY <1>3, <1>4, <1>5, <1>8, <1>9, <1>10, <1>11, <1>12 DEF Lists!Free, Mapped
<1> QED
  BY <1>3, <1>11, <1>13

(* k_create_4k_block                                                       *)
LEMMA BlockSteps ==
    ASSUME NEW l, ListIs(l), CreateBlock4k
    PROVE  ListIs(l)' /\ Lists!CreateBlock4k
<1>1. /\ heapPos + 1 <= Limit /\ heapPos' = heapPos + 1 /\ mem' = mem /\ held' = held
      /\ pageEntryStart' = pageEntryStart /\ pageEntriesCount' = pageEntriesCount
      /\ nodeLocStack' = nodeLocStack /\ listPages' = listPages
      /\ otherPages' = otherPages \cup {heapPos}
  BY DEF CreateBlock4k
<1>2. PICK x \in Nat : x = heapPos /\ 3 <= x /\ Limit \in Nat
  BY PageWordsAssumption DEF ListIs, BookInv
<1>3. BookInv'
  <2>1. listPages' \subseteq 1..heapPos' - 1
    <3>1. \A p \in 1..x - 1 : p \in 1..(x + 1) - 1
      OBVIOUS
    <3>2. listPages \subseteq 1..x - 1
      BY <1>2 DEF ListIs, BookInv
    <3>3. heapPos' = x + 1
      BY <1>1, <1>2
    <3> QED  BY <1>1, <3>1, <3>2, <3>3
  <2>2. heapPos' \in Nat /\ 3 <= heapPos' /\ heapPos' <= Limit
    BY <1>1, <1>2
  <2> QED  BY <1>1, <2>1, <2>2 DEF ListIs, BookInv
<1>4. SortedTo(EntriesOf(mem', l), heapPos' - 1)
  <2>1. PICK low \in Nat, top \in Nat :
           low = heapPos - 1 /\ top = heapPos' - 1 /\ low <= top
    BY <1>1, <1>2
  <2>2. PICK E : E = EntriesOf(mem, l)
    OBVIOUS
  <2>3. SortedTo(E, low)
    BY <2>1, <2>2 DEF ListIs
  <2>4. SortedTo(E, top)
    BY <2>1, <2>3, SortedHigher
  <2> QED  BY <1>1, <2>1, <2>2, <2>4
<1>5. \A j \in 2..Len(l) : InPages(l[j])'
  BY <1>1 DEF ListIs, InPages, InPage
<1>6. ListIs(l)'
  BY <1>1, <1>3, <1>4, <1>5 DEF ListIs
<1>7. Entries' = Entries
  <2>1. Entries = EntriesOf(mem, l)
    BY EntriesNow DEF ListIs, WordsOK
  <2>2. Entries' = EntriesOf(mem', l)
    BY <1>6, EntriesNext DEF ListIs, WordsOK
  <2> QED  BY <1>1, <2>1, <2>2
<1>8. {p - 1 : p \in listPages' \cup otherPages'} =
         {p - 1 : p \in listPages \cup otherPages} \cup (heapPos - 1 .. heapPos - 1 + 1 - 1)
  <2>1. heapPos - 1 .. heapPos - 1 + 1 - 1 = {heapPos - 1}
    BY <1>2
  <2> QED  BY <1>1, <2>1
<1>9. Lists!Room(1) /\ heapPos' - 1 = heapPos - 1 + 1
  BY <1>1, <1>2 DEF Lists!Room
<1>10. Lists!CreateBlock4k
  BY <1>1, <1>7, <1>8, <1>9 DEF Lists!CreateBlock4k, Lists!TakePages
<1> QED
  BY <1>6, <1>10

(* One step of the words is one of the list or none.                       *)
LEMMA StepMaps ==
    ASSUME WordsInv, [Next]_vars
    PROVE  WordsInv' /\ (shrinks' = 0 => [Lists!Next]_(Lists!vars))
<1>1. CASE UNCHANGED vars
  <2>1. shrinks' = shrinks /\ shrinks \in Nat /\ Entries' = Entries
    BY <1>1 DEF vars, WordsInv, Entries
  <2>2. WordsInv'
    BY <1>1 DEF vars, WordsInv, ListIs, BookInv, InPages, InPage
  <2>3. UNCHANGED Lists!vars
    BY <1>1, <2>1 DEF vars, Lists!vars
  <2> QED  BY <2>2, <2>3
<1>2. CASE ShrinkList
  <2>1. shrinks \in Nat /\ shrinks' = shrinks + 1
    BY <1>2 DEF WordsInv, ShrinkList
  <2> QED  BY <2>1 DEF WordsInv
<1>3. CASE shrinks' = shrinks /\ Next /\ ~ShrinkList
  <2>1. CASE shrinks # 0
    BY <1>3, <2>1 DEF WordsInv
  <2>2. CASE shrinks = 0
    <3>1. PICK l : ListIs(l)
      BY <2>2 DEF WordsInv
    <3>2. ASSUME NEW n \in Counts, MallocReuse(n) \/ MallocFresh(n)
          PROVE  (\E c : ListIs(c)') /\ Lists!Next
      <4>1. n - 1 \in {k - 1 : k \in Counts}
        OBVIOUS
      <4>2. /\ \E c : ListIs(c)'
            /\ Lists!MallocReuse(n - 1) \/ Lists!MallocFresh(n - 1)
        BY <3>1, <3>2, ReuseSteps, FreshSteps
      <4> QED  BY <4>1, <4>2 DEF Lists!Next
    <3>3. ASSUME NEW h \in held, Free(h)
          PROVE  (\E c : ListIs(c)') /\ Lists!Next
      <4>1. /\ \E c : ListIs(c)'
            /\ Lists!Free(Mapped(h)) /\ Mapped(h) \in {Mapped(g) : g \in held}
        BY <3>1, <3>3, FreeSteps
      <4>2. PICK g \in {Mapped(k) : k \in held} : Lists!Free(g)
        BY <4>1
      <4> QED  BY <4>1, <4>2 DEF Lists!Next, Mapped
    <3>4. ASSUME CreateBlock4k
          PROVE  (\E c : ListIs(c)') /\ Lists!Next
      <4>1. ListIs(l)' /\ Lists!CreateBlock4k
        BY <3>1, <3>4, BlockSteps
      <4>2. Lists!Next
        BY <4>1 DEF Lists!Next
      <4> QED  BY <4>1, <4>2
    <3>5. (\E c : ListIs(c)') /\ Lists!Next
      BY <1>3, <3>2, <3>3, <3>4 DEF Next
    <3>6. WordsInv'
      <4>1. \E c : ListIs(c)'
        BY <3>5
      <4> QED  BY <1>3, <4>1 DEF WordsInv
    <3> QED  BY <3>5, <3>6
  <2> QED  BY <2>1, <2>2
<1>4. shrinks' = shrinks \/ ShrinkList \/ UNCHANGED vars
  BY DEF Next, MallocReuse, MallocFresh, Free, CreateBlock4k
<1> QED
  BY <1>1, <1>2, <1>3, <1>4

(* The list after memory_init is empty.                                    *)
LEMMA InitMaps ==
    ASSUME Init
    PROVE  WordsInv /\ Lists!Init
<1>1. \A a \in Nat : Word(mem, a) = 0
  <2>1. \A a \in Nat : Word(mem, a) = IF a \in DOMAIN mem THEN mem[a] ELSE 0
    BY DEF Word
  <2>2. \A a \in DOMAIN mem : mem[a] = 0
    BY DEF Init, NULL
  <2> QED  BY <2>1, <2>2
<1>2. PICK l : l = <<0>>
  OBVIOUS
<1>3. l \in Seq(Nat) /\ Len(l) = 1 /\ l[1] = 0 /\ \A i \in 1..Len(l) : i = 1
  BY <1>2
<1>4. BookInv
  <2>1. heapPos = 3 /\ 3 \in Nat /\ 3 <= 3 /\ 3 <= Limit
    BY PageWordsAssumption DEF Init
  <2>2. pageEntriesCount \in 0..MaxEntries
    <3>1. MaxEntries \in Nat
      <4>1. PICK n \in Nat : n = PageWordCount
        BY PageWordsAssumption
      <4>2. n \div 3 \in Nat
        OBVIOUS
      <4> QED  BY <4>1, <4>2 DEF MaxEntries
    <3> QED  BY <3>1 DEF Init
  <2>3. listPages \subseteq 1..heapPos - 1
    BY <2>1 DEF Init
  <2>4. \E q \in listPages : pageEntryStart = Address(q)
    BY DEF Init
  <2> QED  BY <2>1, <2>2, <2>3, <2>4 DEF BookInv, Init
<1>5. WordsOK(mem, l)
  <2>1. Location(mem, 0) = 0 /\ NextOf(mem, 0) = 0
    BY <1>1 DEF Location, NextOf
  <2>2. Len(l) <= Address(Limit) + 1
    BY <1>3, LimitAddress
  <2>3. \A i, j \in 1..Len(l) : l[i] = l[j] => i = j
    BY <1>3
  <2>4. IsChain(mem, l)
    BY <1>3, <2>1, <2>2, <2>3 DEF IsChain, head, NULL
  <2>5. 2..Len(l) = {}
    BY <1>3
  <2>6. \A i, j \in 1..Len(l) : i = j
    BY <1>3
  <2> QED  BY <2>1, <2>4, <2>5, <2>6 DEF WordsOK, head
<1>6. EntriesOf(mem, l) = <<>>
  <2>1. 1..Len(l) - 1 = {}
    BY <1>3
  <2>2. EntriesOf(mem, l) = [i \in {} |-> EntryAt(mem, l[i + 1])]
    BY <2>1 DEF EntriesOf
  <2>3. [i \in {} |-> EntryAt(mem, l[i + 1])] = <<>>
    OBVIOUS
  <2> QED  BY <2>2, <2>3
<1>7. SortedTo(EntriesOf(mem, l), heapPos - 1)
  <2>1. <<>> \in Seq(Lists!Entry) /\ 1..Len(<<>>) = {}
    OBVIOUS
  <2> QED  BY <1>6, <2>1 DEF SortedTo
<1>8. HeldOK(held, EntriesOf(mem, l))
  BY DEF Init, HeldOK
<1>9. 2..Len(l) = {}
  BY <1>3
<1>10. ListIs(l)
  BY <1>4, <1>5, <1>7, <1>8, <1>9 DEF ListIs
<1>11. WordsInv
  BY <1>10 DEF WordsInv, Init
<1>12. Entries = <<>>
  BY <1>5, <1>6, EntriesNow DEF WordsOK
<1>13. {p - 1 : p \in listPages \cup otherPages} = 0 .. 0 + 1
  BY DEF Init
<1>14. <<>> = [k \in {} |-> [pointer |-> 0, left |-> 0]]
  OBVIOUS
<1>15. {[location |-> PageAt(h.location) - 1, bytes |-> h.count - 1] : h \in held} = {}
  BY DEF Init
<1>16. Lists!Init
  BY <1>12, <1>13, <1>14, <1>15 DEF Lists!Init, Init
<1> QED
  BY <1>11, <1>16

(* Until shrinkList is called the words linked by address are the list of  *)
(* module PageList, and every operation on them is its operation there.    *)
THEOREM WordsAreList == Spec => ListSpec
<1>1. Init => WordsInv /\ Lists!Init
  BY InitMaps
<1>2. WordsInv /\ [Next]_vars => WordsInv' /\ (shrinks' = 0 => [Lists!Next]_(Lists!vars))
  BY StepMaps
<1>3. Spec => []WordsInv
  BY <1>1, <1>2, PTL DEF Spec
<1> QED
  BY <1>1, <1>2, <1>3, PTL DEF Spec, ListSpec

-----------------------------------------------------------------------------
(* The first call of shrinkList.                                           *)

UsedOf(E) == {E[i] : i \in {j \in 1..Len(E) : ~E[j].free}}
FreeOf(E) == UNION {Lists!Pages(e) : e \in {E[i] : i \in {j \in 1..Len(E) : E[j].free}}}
NearOf(E) ==
    \A i \in 1 .. Len(E) - 1 :
        E[i].free /\ E[i + 1].free => E[i].location + E[i].size = E[i + 1].location

(* What shrinkList may do to the entries.                                  *)
Keeps(F, E) ==
    /\ UsedOf(F) = UsedOf(E)
    /\ NearOf(E) => NearOf(F) /\ FreeOf(F) = FreeOf(E)

(* The k-th and the next entry have become one.                            *)
Joined(a, b) == [location |-> a.location, free |-> TRUE, size |-> a.size + b.size]
MergedAt(F, E, k) ==
    /\ Len(F) = Len(E) - 1
    /\ \A j \in 1..Len(F) :
          F[j] = IF j < k THEN E[j] ELSE IF j = k THEN Joined(E[k], E[k + 1]) ELSE E[j + 1]

(* Entries in use keep, and the free pages as well if the two entries are  *)
(* neighbours.                                                             *)
LEMMA MergedKeeps ==
    ASSUME NEW E, Len(E) \in Nat, \A i \in 1..Len(E) : E[i] \in Lists!Entry,
           NEW k \in 1 .. Len(E) - 1, E[k].free, E[k + 1].free,
           NEW F, MergedAt(F, E, k)
    PROVE  Keeps(F, E)
<1> DEFINE L == Len(E)
           both == Joined(E[k], E[k + 1])
           Fr(i) == IF i < k THEN i ELSE i + 1
           To(i) == IF i < k THEN i ELSE i - 1
<1>1. /\ L \in Nat /\ k \in 1..L /\ k + 1 \in 1..L /\ Len(F) = L - 1 /\ k \in 1..Len(F)
      /\ 1..Len(F) = 1..L - 1
  BY DEF MergedAt
<1>2. /\ F[k] = both /\ both.free = TRUE
  <2>1. ~(k < k)
    BY <1>1
  <2> QED  BY <1>1, <2>1 DEF MergedAt, Joined
<1>3. \A j \in 1..L - 1 : j # k => Fr(j) \in 1..L /\ F[j] = E[Fr(j)] /\ Fr(j) # k /\ Fr(j) # k + 1
  <2> SUFFICES ASSUME NEW j \in 1..L - 1, j # k
               PROVE  Fr(j) \in 1..L /\ F[j] = E[Fr(j)] /\ Fr(j) # k /\ Fr(j) # k + 1
    OBVIOUS
  <2>1. F[j] = IF j < k THEN E[j] ELSE IF j = k THEN Joined(E[k], E[k + 1]) ELSE E[j + 1]
    BY <1>1 DEF MergedAt
  <2> HIDE DEF L, both
  <2>2. CASE j < k
    BY <1>1, <2>1, <2>2
  <2>3. CASE ~(j < k)
    BY <1>1, <2>1, <2>3
  <2> QED  BY <2>2, <2>3
<1>4. \A i \in 1..L : i # k /\ i # k + 1 =>
         To(i) \in 1..L - 1 /\ To(i) # k /\ F[To(i)] = E[i]
  <2> SUFFICES ASSUME NEW i \in 1..L, i # k, i # k + 1
               PROVE  To(i) \in 1..L - 1 /\ To(i) # k /\ F[To(i)] = E[i]
    OBVIOUS
  <2>1. /\ To(i) \in 1..L - 1 /\ To(i) # k
        /\ i < k => To(i) = i
        /\ ~(i < k) => To(i) + 1 = i /\ ~(To(i) < k)
    <3> HIDE DEF L
    <3> QED  BY <1>1
  <2>2. \A j \in 1..L - 1 :
           F[j] = IF j < k THEN E[j] ELSE IF j = k THEN Joined(E[k], E[k + 1]) ELSE E[j + 1]
    BY <1>1 DEF MergedAt
  <2> HIDE DEF To, L
  <2> QED  BY <2>1, <2>2
<1>5. UsedOf(F) = UsedOf(E)
  <2>1. ASSUME NEW e \in UsedOf(F) PROVE e \in UsedOf(E)
    <3>1. PICK j \in 1..L - 1 : ~F[j].free /\ e = F[j]
      BY <1>1, <2>1 DEF UsedOf
    <3>2. j # k
      BY <1>2, <3>1
    <3>3. Fr(j) \in 1..L /\ F[j] = E[Fr(j)]
      BY <1>3, <3>2
    <3> HIDE DEF Fr
    <3> QED  BY <3>1, <3>3 DEF UsedOf
  <2>2. ASSUME NEW e \in UsedOf(E) PROVE e \in UsedOf(F)
    <3>1. PICK i \in 1..L : ~E[i].free /\ e = E[i]
      BY <2>2 DEF UsedOf
    <3>2. i # k /\ i # k + 1
      BY <3>1
    <3>3. To(i) \in 1..Len(F) /\ F[To(i)] = E[i]
      BY <1>1, <1>4, <3>2
    <3> HIDE DEF To
    <3> QED  BY <3>1, <3>3 DEF UsedOf
  <2> QED  BY <2>1, <2>2
<1>6. ASSUME NearOf(E) PROVE FreeOf(F) = FreeOf(E)
  <2>1. E[k].location + E[k].size = E[k + 1].location
    BY <1>6 DEF NearOf
  <2>2. /\ E[k].location \in Nat /\ E[k].size \in Nat
        /\ E[k + 1].location \in Nat /\ E[k + 1].size \in Nat
    <3>1. E[k] \in Lists!Entry /\ E[k + 1] \in Lists!Entry
      BY <1>1
    <3> QED  BY <3>1, EntryNumbers
  <2>3. Lists!Pages(both) = Lists!Pages(E[k]) \cup Lists!Pages(E[k + 1])
    <3>1. both.location = E[k].location /\ both.size = E[k].size + E[k + 1].size
      BY DEF Joined
    <3> HIDE DEF both
    <3> QED  BY <2>1, <2>2, <3>1 DEF Lists!Pages, Lists!End
  <2>4. ASSUME NEW x \in FreeOf(F) PROVE x \in FreeOf(E)
    <3>1. PICK j \in 1..L - 1 : F[j].free /\ x \in Lists!Pages(F[j])
      BY <1>1, <2>4 DEF FreeOf
    <3>2. CASE j = k
      <4>1. x \in Lists!Pages(E[k]) \/ x \in Lists!Pages(E[k + 1])
        <5> HIDE DEF both
        <5> QED  BY <1>2, <2>3, <3>1, <3>2
      <4> QED  BY <1>1, <4>1 DEF FreeOf
    <3>3. CASE j # k
      <4>1. Fr(j) \in 1..L /\ F[j] = E[Fr(j)]
        BY <1>3, <3>3
      <4> HIDE DEF Fr
      <4> QED  BY <3>1, <4>1 DEF FreeOf
    <3> QED  BY <3>2, <3>3
  <2>5. ASSUME NEW x \in FreeOf(E) PROVE x \in FreeOf(F)
    <3>1. PICK i \in 1..L : E[i].free /\ x \in Lists!Pages(E[i])
      BY <2>5 DEF FreeOf
    <3>2. CASE i = k \/ i = k + 1
      <4>1. x \in Lists!Pages(F[k]) /\ F[k].free
        <5> HIDE DEF both
        <5> QED  BY <1>2, <2>3, <3>1, <3>2
      <4> HIDE DEF both
      <4> QED  BY <1>1, <4>1 DEF FreeOf
    <3>3. CASE i # k /\ i # k + 1
      <4>1. To(i) \in 1..Len(F) /\ F[To(i)] = E[i]
        BY <1>1, <1>4, <3>3
      <4> HIDE DEF To
      <4> QED  BY <3>1, <4>1 DEF FreeOf
    <3> QED  BY <3>2, <3>3
  <2> QED  BY <2>4, <2>5
<1>7. ASSUME NearOf(E) PROVE NearOf(F)
  <2> SUFFICES ASSUME NEW j \in 1 .. Len(F) - 1, F[j].free, F[j + 1].free
               PROVE  F[j].location + F[j].size = F[j + 1].location
    BY DEF NearOf
  <2> DEFINE Ends(a, b) == a.location + a.size = b.location
  <2>1. j \in 1..L - 2 /\ j \in 1..L - 1 /\ j + 1 \in 1..L - 1
    BY <1>1
  <2>2. \A i \in 1..L - 1 : E[i].free /\ E[i + 1].free => Ends(E[i], E[i + 1])
    BY <1>7 DEF NearOf
  <2>3. both.location = E[k].location /\ both.size = E[k].size + E[k + 1].size
    BY DEF Joined
  <2>4. CASE j = k
    <3>1. k + 1 \in 1..L - 1 /\ ~(k + 1 < k) /\ k + 1 # k /\ (k + 1) + 1 = k + 2
      BY <1>1, <2>1, <2>4
    <3>2. F[k + 1] = E[(k + 1) + 1]
      BY <1>3, <3>1
    <3>3. Ends(E[k], E[k + 1]) /\ Ends(E[k + 1], E[(k + 1) + 1])
      <4> HIDE DEF Ends
      <4> QED  BY <1>1, <2>2, <2>4, <3>1, <3>2
    <3>4. /\ E[k].location \in Nat /\ E[k].size \in Nat
          /\ E[k + 1].location \in Nat /\ E[k + 1].size \in Nat
      <4>1. E[k] \in Lists!Entry /\ E[k + 1] \in Lists!Entry
        BY <1>1
      <4> QED  BY <4>1, EntryNumbers
    <3> HIDE DEF both
    <3> QED  BY <1>2, <2>3, <2>4, <3>2, <3>3, <3>4
  <2>5. CASE j + 1 = k
    <3>1. j # k /\ j < k /\ Fr(j) = j /\ j \in 1..L - 1
      BY <1>1, <2>1, <2>5
    <3>2. F[j] = E[j] /\ E[j + 1].free
      BY <1>3, <2>5, <3>1
    <3>3. Ends(E[j], E[j + 1])
      <4> HIDE DEF Ends
      <4> QED  BY <2>2, <3>1, <3>2
    <3> HIDE DEF both
    <3> QED  BY <1>2, <2>3, <2>5, <3>2, <3>3
  <2>6. CASE j # k /\ j + 1 # k
    <3>1. Fr(j + 1) = Fr(j) + 1 /\ Fr(j) \in 1..L - 1
      <4> HIDE DEF L
      <4> QED  BY <1>1, <2>1, <2>6
    <3>2. F[j] = E[Fr(j)] /\ F[j + 1] = E[Fr(j) + 1]
      <4>1. F[j] = E[Fr(j)] /\ F[j + 1] = E[Fr(j + 1)]
        <5> HIDE DEF Fr
        <5> QED  BY <1>3, <2>1, <2>6
      <4> HIDE DEF Fr
      <4> QED  BY <3>1, <4>1
    <3>3. Ends(E[Fr(j)], E[Fr(j) + 1])
      <4> HIDE DEF Ends, Fr
      <4> QED  BY <2>2, <3>1, <3>2
    <3> QED  BY <3>2, <3>3
  <2> QED  BY <2>4, <2>5, <2>6
<1> QED
  BY <1>5, <1>6, <1>7 DEF Keeps

(* One combination after the other keeps what all of them are to keep.     *)
LEMMA KeepsAfter ==
    ASSUME NEW E, NEW F, NEW G, Keeps(F, E), Keeps(G, F)
    PROVE  Keeps(G, E)
BY DEF Keeps

\* d is the sequence c without the element behind the k-th.
Without(d, c, k) == d = [j \in 1 .. Len(c) - 1 |-> IF j <= k THEN c[j] ELSE c[j + 1]]

(* What is left of a list without the entry behind the k-th.               *)
LEMMA WithoutFacts ==
    ASSUME NEW c \in Seq(Nat), NEW k \in 1 .. Len(c) - 1,
           NEW d, Without(d, c, k)
    PROVE  /\ d \in Seq(Nat) /\ Len(d) = Len(c) - 1 /\ Len(d) \in Nat \ {0}
           /\ k \in 1..Len(d)
           /\ \A j \in 1..Len(d) : d[j] = IF j <= k THEN c[j] ELSE c[j + 1]
           /\ \A j \in 1..Len(d) : \E i \in 1..Len(c) : i # k + 1 /\ d[j] = c[i]
<1>1. PICK L \in Nat : L = Len(c)
  BY LenProperties
<1>2. /\ L \in Nat \ {0, 1} /\ k \in 1..L - 1
      /\ L - 1 \in Nat \ {0}
      /\ \A j \in 1..L - 1 : j \in 1..L /\ j + 1 \in 1..L 
  BY <1>1
<1>3. \A i \in 1..L : c[i] \in Nat
  BY <1>1, ElementOfSeq
<1>4. d = [j \in 1..L - 1 |-> IF j <= k THEN c[j] ELSE c[j + 1]]
  BY <1>1 DEF Without
<1>5. d \in [1..L - 1 -> Nat]
  BY <1>2, <1>3, <1>4
<1>6. d \in Seq(Nat)
  BY <1>2, <1>5, SeqDef
<1>7. Len(d) = L - 1
  BY <1>2, <1>4
<1>8. \A j \in 1..L - 1 : d[j] = IF j <= k THEN c[j] ELSE c[j + 1]
  BY <1>2, <1>4
<1>9. ASSUME NEW j \in 1..L - 1 PROVE \E i \in 1..L : i # k + 1 /\ d[j] = c[i]
  <2>1. CASE j <= k
    <3>1. j \in 1..L /\ j # k + 1 /\ d[j] = c[j]
      BY <1>2, <1>8, <2>1
    <3> QED  BY <3>1
  <2>2. CASE ~(j <= k)
    <3>1. j + 1 \in 1..L /\ j + 1 # k + 1 /\ d[j] = c[j + 1]
      BY <1>2, <1>8, <2>2
    <3> QED  BY <3>1
  <2> QED  BY <2>1, <2>2
<1> QED
  BY <1>1, <1>2, <1>6, <1>7, <1>8, <1>9

(* The entry behind the k-th is linked out.                                *)
LEMMA LinkedOut ==
    ASSUME NEW m, NEW c, IsChain(m, c), NEW k \in 1 .. Len(c) - 1, NEW m1,
           \A i \in 1..Len(c) : i # k /\ i # k + 1 => NextOf(m1, c[i]) = NextOf(m, c[i]),
           NextOf(m1, c[k]) = NextOf(m, c[k + 1]),
           NEW d, Without(d, c, k)
    PROVE  IsChain(m1, d)
<1> DEFINE L == Len(c)
<1>1. c \in Seq(Nat) /\ L \in Nat \ {0} /\ c[1] = head /\ L <= Address(Limit) + 1
  BY DEF IsChain
<1>2. /\ d \in Seq(Nat) /\ Len(d) = L - 1 /\ Len(d) \in Nat \ {0}
      /\ k \in 1..L - 1 /\ k + 1 \in 1..L
      /\ \A j \in 1..L - 1 : d[j] = IF j <= k THEN c[j] ELSE c[j + 1]
  <2>1. /\ d \in Seq(Nat) /\ Len(d) = Len(c) - 1 /\ Len(d) \in Nat \ {0} /\ k \in 1..Len(d)
        /\ \A j \in 1..Len(d) : d[j] = IF j <= k THEN c[j] ELSE c[j + 1]
    BY <1>1, WithoutFacts
  <2> QED  BY <1>1, <2>1
<1>3. \A i \in 1..L : NextOf(m, c[i]) = IF i = L THEN NULL ELSE c[i + 1]
  BY DEF IsChain
<1>4. d[1] = head
  <2>1. 1 \in 1..L - 1 /\ 1 <= k
    BY <1>1, <1>2
  <2> QED  BY <1>1, <1>2, <2>1
<1>5. ASSUME NEW j \in 1..L - 1
      PROVE  NextOf(m1, d[j]) = IF j = L - 1 THEN NULL ELSE d[j + 1]
  <2> HIDE DEF L
  <2>0. L \in Nat /\ k \in 1..L - 1
    BY <1>1, <1>2
  <2>1. CASE j < k
    <3>1. j \in 1..L /\ j # L - 1 /\ j # L /\ j + 1 \in 1..L - 1 /\ j <= k /\ j + 1 <= k
          /\ j # k /\ j # k + 1
      BY <2>0, <2>1
    <3>2. d[j] = c[j] /\ d[j + 1] = c[j + 1]
      BY <1>2, <3>1
    <3>3. NextOf(m1, c[j]) = NextOf(m, c[j])
      BY <3>1 DEF L
    <3> QED  BY <1>3, <3>1, <3>2, <3>3
  <2>2. CASE j = k
    <3>1. /\ k + 1 \in 1..L /\ k <= k /\ (k = L - 1 <=> k + 1 = L)
          /\ k # L - 1 => k + 1 \in 1..L - 1 /\ ~(k + 1 <= k)
      BY <2>0
    <3>2. d[k] = c[k] /\ (k # L - 1 => d[k + 1] = c[(k + 1) + 1])
      BY <1>2, <2>2, <3>1
    <3>3. NextOf(m, c[k + 1]) = IF k + 1 = L THEN NULL ELSE c[(k + 1) + 1]
      BY <1>3, <3>1
    <3> QED  BY <2>2, <3>1, <3>2, <3>3
  <2>3. CASE k < j
    <3>1. /\ ~(j <= k) /\ j + 1 \in 1..L /\ j + 1 # k /\ j + 1 # k + 1
          /\ (j = L - 1 <=> j + 1 = L)
          /\ j # L - 1 => j + 1 \in 1..L - 1 /\ ~(j + 1 <= k)
      BY <2>0, <2>3
    <3>2. d[j] = c[j + 1] /\ (j # L - 1 => d[j + 1] = c[(j + 1) + 1])
      BY <1>2, <3>1
    <3>3. NextOf(m1, c[j + 1]) = NextOf(m, c[j + 1])
      BY <3>1 DEF L
    <3>4. NextOf(m, c[j + 1]) = IF j + 1 = L THEN NULL ELSE c[(j + 1) + 1]
      BY <1>3, <3>1
    <3> QED  BY <3>1, <3>2, <3>3, <3>4
  <2> QED  BY <1>2, <2>1, <2>2, <2>3
<1>6. ASSUME NEW i \in 1..L - 1, NEW j \in 1..L - 1, d[i] = d[j] PROVE i = j
  <2> DEFINE Fr(a) == IF a <= k THEN a ELSE a + 1
  <2>1. \A a \in 1..L - 1 : Fr(a) \in 1..L /\ d[a] = c[Fr(a)]
    <3> HIDE DEF L
    <3> QED  BY <1>1, <1>2
  <2>2. Fr(i) = Fr(j)
    <3>1. Fr(i) \in 1..L /\ Fr(j) \in 1..L /\ c[Fr(i)] = c[Fr(j)]
      <4> HIDE DEF Fr, L
      <4> QED  BY <1>6, <2>1
    <3> HIDE DEF Fr
    <3> QED  BY <3>1 DEF IsChain
  <2>3. i \in Int /\ j \in Int /\ k \in Int
    BY <1>1
  <2> HIDE DEF L
  <2> QED  BY <2>2, <2>3
<1>7. Len(d) <= Address(Limit) + 1
  BY <1>1, <1>2, LimitAddress
<1> QED
  BY <1>1, <1>2, <1>4, <1>5, <1>6, <1>7 DEF IsChain

(* Storing in a word of no entry.                                          *)
LEMMA StoredElsewhere ==
    ASSUME NEW m, NEW a \in Nat, NEW w, NEW g \in Nat, g + 3 <= a \/ a < g,
           NEW m1, m1 = SetLocation(m, a, w)
    PROVE  /\ Location(m1, g) = Location(m, g) /\ Size(m1, g) = Size(m, g)
           /\ NextOf(m1, g) = NextOf(m, g) /\ EntryAt(m1, g) = EntryAt(m, g)
<1>1. g + 1 \in Nat /\ g + 2 \in Nat /\ g # a /\ g + 1 # a /\ g + 2 # a
  OBVIOUS
<1>2. \A b \in Nat : b # a => Word(m1, b) = Word(m, b)
  BY StoreWord DEF SetLocation
<1>3. /\ Location(m1, g) = Location(m, g) /\ Size(m1, g) = Size(m, g)
      /\ NextOf(m1, g) = NextOf(m, g)
  BY <1>1, <1>2 DEF Location, Size, NextOf
<1> QED
  BY <1>3 DEF EntryAt, IsFree

(* A word of no entry is stored: the list is the same.                     *)
LEMMA StackStored ==
    ASSUME NEW m, NEW c, WordsOK(m, c), NEW a \in Nat, NEW w,
           \A i \in 1..Len(c) : c[i] + 3 <= a \/ a < c[i],
           NEW m1, m1 = SetLocation(m, a, w)
    PROVE  WordsOK(m1, c) /\ EntriesOf(m1, c) = EntriesOf(m, c)
<1>1. /\ Len(c) \in Nat \ {0} /\ c[1] = head /\ \A i \in 1..Len(c) : c[i] \in Nat
  BY EntriesAre
<1>2. ASSUME NEW i \in 1..Len(c)
      PROVE  /\ Location(m1, c[i]) = Location(m, c[i]) /\ Size(m1, c[i]) = Size(m, c[i])
             /\ NextOf(m1, c[i]) = NextOf(m, c[i]) /\ EntryAt(m1, c[i]) = EntryAt(m, c[i])
  <2>1. c[i] \in Nat /\ (c[i] + 3 <= a \/ a < c[i])
    BY <1>1
  <2> QED  BY <2>1, StoredElsewhere
<1>3. IsChain(m1, c)
  BY <1>2, SameChain DEF WordsOK
<1>4. Location(m1, head) = 0
  <2>1. 1 \in 1..Len(c)
    BY <1>1
  <2> QED  BY <1>1, <1>2, <2>1 DEF WordsOK
<1>5. ASSUME NEW i \in 2..Len(c) PROVE Labelled(m1, c[i])
  <2>1. i \in 1..Len(c) /\ Labelled(m, c[i])
    BY DEF WordsOK
  <2> QED  BY <1>2, <2>1 DEF Labelled, Labels
<1>6. WordsOK(m1, c)
  BY <1>3, <1>4, <1>5 DEF WordsOK
<1>7. EntriesOf(m1, c) = EntriesOf(m, c)
  <2>1. \A i \in 1 .. Len(c) - 1 : i + 1 \in 1..Len(c)
    BY <1>1
  <2> QED  BY <1>2, <2>1 DEF EntriesOf
<1> QED
  BY <1>6, <1>7

(* What swallowing does to the entries' words.                             *)
LEMMA SwallowedWords ==
    ASSUME NEW m, NEW c, WordsOK(m, c), NEW k \in 2 .. Len(c) - 1,
           NEW m1, m1 = Swallowed(m, c[k])
    PROVE  /\ Location(m1, c[k]) = Location(m, c[k])
           /\ Size(m1, c[k]) = Size(m, c[k]) + Size(m, c[k + 1])
           /\ NextOf(m1, c[k]) = NextOf(m, c[k + 1])
           /\ \A i \in 1..Len(c) : i # k =>
                 /\ Location(m1, c[i]) = Location(m, c[i]) /\ Size(m1, c[i]) = Size(m, c[i])
                 /\ NextOf(m1, c[i]) = NextOf(m, c[i])
<1>1. /\ Len(c) \in Nat \ {0} /\ k \in 1..Len(c) /\ k + 1 \in 1..Len(c) /\ k # k + 1 /\ k # Len(c)
      /\ \A i \in 1..Len(c) : c[i] \in Nat
  BY EntriesAre
<1>2. NextOf(m, c[k]) = c[k + 1]
  BY <1>1 DEF WordsOK, IsChain
<1>3. PICK e \in Nat, n \in Nat : e = c[k] /\ n = c[k + 1]
  BY <1>1
<1>4. \A i \in 1..Len(c) : i # k => c[i] \in Nat /\ Apart(e, c[i])
  BY <1>1, <1>3 DEF WordsOK
<1>5. PICK x : x = NextOf(m, n)
  OBVIOUS
<1>6. PICK ma : ma = SetNext(m, e, x)
  OBVIOUS
<1>7. PICK s : s = Size(ma, e) + Size(ma, n)
  OBVIOUS
<1>8. m1 = SetSize(ma, e, s)
  BY <1>2, <1>3, <1>5, <1>6, <1>7 DEF Swallowed
<1>9. /\ Location(ma, e) = Location(m, e) /\ Size(ma, e) = Size(m, e) /\ NextOf(ma, e) = x
      /\ Location(m1, e) = Location(ma, e) /\ Size(m1, e) = s /\ NextOf(m1, e) = NextOf(ma, e)
  BY <1>6, <1>8, FieldStored
<1>10. ASSUME NEW i \in 1..Len(c), i # k
       PROVE  /\ Location(ma, c[i]) = Location(m, c[i]) /\ Size(ma, c[i]) = Size(m, c[i])
              /\ NextOf(ma, c[i]) = NextOf(m, c[i])
              /\ Location(m1, c[i]) = Location(m, c[i]) /\ Size(m1, c[i]) = Size(m, c[i])
              /\ NextOf(m1, c[i]) = NextOf(m, c[i])
  <2>1. PICK g \in Nat : g = c[i] /\ Apart(e, g)
    BY <1>4, <1>10
  <2>2. g # e
    BY <1>3, <2>1 DEF Apart
  <2>3. /\ Location(ma, g) = Location(m, g) /\ Size(ma, g) = Size(m, g)
        /\ NextOf(ma, g) = NextOf(m, g)
    BY <1>6, <2>1, <2>2, FieldStored
  <2>4. /\ Location(m1, g) = Location(ma, g) /\ Size(m1, g) = Size(ma, g)
        /\ NextOf(m1, g) = NextOf(ma, g)
    BY <1>8, <2>1, <2>2, FieldStored
  <2> QED  BY <2>1, <2>3, <2>4
<1>11. Size(ma, n) = Size(m, n)
  BY <1>1, <1>3, <1>10
<1> QED
  BY <1>3, <1>5, <1>7, <1>9, <1>10, <1>11

(* A free entry swallows the free one behind it: the list has lost that    *)
(* one, and the two entries have become one.                               *)
LEMMA SwallowGives ==
    ASSUME NEW m, NEW c, WordsOK(m, c), NEW k \in 2 .. Len(c) - 1,
           IsFree(m, c[k]), IsFree(m, c[k + 1]),
           NEW m1, m1 = Swallowed(m, c[k]), NEW d, Without(d, c, k)
    PROVE  /\ WordsOK(m1, d)
           /\ Keeps(EntriesOf(m1, d), EntriesOf(m, c))
<1>1. /\ Len(c) \in Nat \ {0} /\ k \in 1..Len(c) - 1 /\ k + 1 \in 2..Len(c) /\ c[1] = head
      /\ k \in Nat /\ c \in Seq(Nat) /\ IsChain(m, c)
      /\ \A i \in 1..Len(c) : c[i] \in Nat
  BY EntriesAre DEF WordsOK
<1>2. /\ Location(m1, c[k]) = Location(m, c[k])
      /\ Size(m1, c[k]) = Size(m, c[k]) + Size(m, c[k + 1])
      /\ NextOf(m1, c[k]) = NextOf(m, c[k + 1])
      /\ \A i \in 1..Len(c) : i # k =>
            /\ Location(m1, c[i]) = Location(m, c[i]) /\ Size(m1, c[i]) = Size(m, c[i])
            /\ NextOf(m1, c[i]) = NextOf(m, c[i])
  BY SwallowedWords
<1>3. /\ d \in Seq(Nat) /\ Len(d) = Len(c) - 1 /\ Len(d) \in Nat \ {0} /\ k \in 1..Len(d)
      /\ \A j \in 1..Len(d) : d[j] = IF j <= k THEN c[j] ELSE c[j + 1]
  BY <1>1, WithoutFacts
<1>4. IsChain(m1, d)
  BY <1>1, <1>2, LinkedOut
<1>5. Location(m1, head) = 0
  <2>1. 1 \in 1..Len(c) /\ 1 # k
    BY <1>1
  <2> QED  BY <1>1, <1>2, <2>1 DEF WordsOK
<1> DEFINE Fr(j) == IF j <= k THEN j ELSE j + 1
<1>6. \A j \in 1..Len(d) : Fr(j) \in 1..Len(c) /\ d[j] = c[Fr(j)] /\ (j >= 2 => Fr(j) \in 2..Len(c))
  <2>1. PICK n \in Nat : n = Len(c) /\ n = Len(d) + 1 /\ k \in 1..n - 1
    BY <1>1, <1>3
  <2>2. \A j \in 1..n - 1 : Fr(j) \in 1..n /\ (j >= 2 => Fr(j) \in 2..n)
    BY <2>1
  <2>3. \A j \in 1..Len(d) : d[j] = c[Fr(j)]
    BY <1>3
  <2>4. 1..Len(d) = 1..n - 1
    BY <1>3, <2>1
  <2> HIDE DEF Fr
  <2> QED  BY <2>1, <2>2, <2>3, <2>4
<1>7. Size(m, c[k]) \in Nat \ {0} /\ Size(m, c[k + 1]) \in Nat \ {0}
  BY <1>1 DEF WordsOK, Labelled
<1>8. ASSUME NEW j \in 2..Len(d) PROVE Labelled(m1, d[j])
  <2>1. PICK i \in 2..Len(c) : d[j] = c[i]
    <3>1. j \in 1..Len(d) /\ j >= 2
      OBVIOUS
    <3> HIDE DEF Fr
    <3> QED  BY <1>6, <3>1
  <2>2. Labelled(m, c[i]) /\ i \in 1..Len(c)
    BY DEF WordsOK
  <2>3. Location(m1, c[i]) = Location(m, c[i])
    BY <1>2, <2>2
  <2>4. Size(m1, c[i]) \in Nat \ {0}
    <3>1. CASE i = k
      <4>1. PICK x \in Nat \ {0}, y \in Nat \ {0} : x = Size(m, c[k]) /\ y = Size(m, c[k + 1])
        BY <1>7
      <4>2. x + y \in Nat \ {0}
        OBVIOUS
      <4> QED  BY <1>2, <3>1, <4>1, <4>2
    <3>2. CASE i # k
      BY <1>2, <2>2, <3>2 DEF Labelled
    <3> QED  BY <3>1, <3>2
  <2> QED  BY <2>1, <2>2, <2>3, <2>4 DEF Labelled, Labels
<1>9. ASSUME NEW i \in 1..Len(d), NEW j \in 1..Len(d), i # j PROVE Apart(d[i], d[j])
  <2>1. Fr(i) # Fr(j)
    BY <1>1, <1>9
  <2>2. /\ Fr(i) \in 1..Len(c) /\ d[i] = c[Fr(i)]
        /\ Fr(j) \in 1..Len(c) /\ d[j] = c[Fr(j)]
    <3> HIDE DEF Fr
    <3> QED  BY <1>6
  <2> HIDE DEF Fr
  <2> QED  BY <2>1, <2>2 DEF WordsOK
<1>10. WordsOK(m1, d)
  BY <1>4, <1>5, <1>8, <1>9 DEF WordsOK
<1>11a. PICK E : E = EntriesOf(m, c)
  OBVIOUS
<1>11b. PICK F : F = EntriesOf(m1, d)
  OBVIOUS
<1>11c. PICK x \in Nat : x = k - 1
  <2>1. k - 1 \in Nat
    BY <1>1
  <2> QED  BY <2>1
<1>11. E = EntriesOf(m, c) /\ F = EntriesOf(m1, d) /\ x = k - 1
  BY <1>11a, <1>11b, <1>11c
<1>12. /\ Len(E) = Len(c) - 1 /\ Len(F) = Len(d) - 1 /\ x \in 1 .. Len(E) - 1
       /\ k = x + 1 /\ k + 1 = (x + 1) + 1
       /\ \A i \in 1 .. Len(c) - 1 : E[i] = EntryAt(m, c[i + 1])
       /\ \A i \in 1 .. Len(d) - 1 : F[i] = EntryAt(m1, d[i + 1])
  <2>1. /\ Len(E) = Len(c) - 1 /\ \A i \in 1 .. Len(c) - 1 : E[i] = EntryAt(m, c[i + 1])
    BY <1>11, EntriesAre
  <2>2. /\ Len(F) = Len(d) - 1 /\ \A i \in 1 .. Len(d) - 1 : F[i] = EntryAt(m1, d[i + 1])
    BY <1>10, <1>11, EntriesAre
  <2>3. x \in 1 .. Len(E) - 1 /\ k = x + 1 /\ k + 1 = (x + 1) + 1
    BY <1>1, <1>11, <2>1
  <2> QED  BY <2>1, <2>2, <2>3
<1>13. /\ Len(E) \in Nat /\ \A i \in 1..Len(E) : E[i] \in Lists!Entry
  <2>1. Len(E) \in Nat
    BY <1>1, <1>12
  <2>2. ASSUME NEW i \in 1..Len(E) PROVE E[i] \in Lists!Entry
    <3>1. i \in 1 .. Len(c) - 1 /\ i + 1 \in 2..Len(c)
      BY <1>1, <1>12
    <3>2. Labelled(m, c[i + 1])
      BY <3>1 DEF WordsOK
    <3>3. EntryAt(m, c[i + 1]) \in Lists!Entry
      BY <3>2, EntryFields DEF Labelled
    <3> QED  BY <1>12, <3>1, <3>3
  <2> QED  BY <2>1, <2>2
<1>14. E[x] = EntryAt(m, c[k]) /\ E[x + 1] = EntryAt(m, c[k + 1])
  <2>1. x \in 1 .. Len(c) - 1 /\ x + 1 \in 1 .. Len(c) - 1
    <3>1. PICK n \in Nat : n = Len(c)
      BY <1>1
    <3> QED  BY <1>1, <1>12, <3>1
  <2>2. E[x] = EntryAt(m, c[x + 1]) /\ E[x + 1] = EntryAt(m, c[(x + 1) + 1])
    BY <1>12, <2>1
  <2> QED  BY <1>12, <2>2
<1>15. E[x].free /\ E[x + 1].free
  BY <1>14 DEF EntryAt
<1>16. EntryAt(m1, c[k]) = Joined(E[x], E[x + 1])
  <2>1. IsFree(m, c[k]) = TRUE /\ IsFree(m1, c[k]) = TRUE
    BY <1>2 DEF IsFree
  <2>2. /\ E[x].location = PageAt(Location(m, c[k]) \div 2) - 1
        /\ E[x].size = Size(m, c[k]) /\ E[x + 1].size = Size(m, c[k + 1])
    BY <1>14 DEF EntryAt
  <2>3. EntryAt(m1, c[k]) = [location |-> PageAt(Location(m1, c[k]) \div 2) - 1,
                             free |-> TRUE, size |-> Size(m1, c[k])]
    BY <2>1 DEF EntryAt
  <2> QED  BY <1>2, <2>2, <2>3 DEF Joined
<1>17. ASSUME NEW j \in 1..Len(F)
       PROVE  F[j] = IF j < x THEN E[j] ELSE IF j = x THEN Joined(E[x], E[x + 1]) ELSE E[j + 1]
  <2>1. j \in 1 .. Len(d) - 1 /\ j + 1 \in 1..Len(d) /\ j \in 1 .. Len(c) - 1
        /\ j + 1 \in 1 .. Len(c)
    BY <1>1, <1>3, <1>12
  <2>2. F[j] = EntryAt(m1, d[j + 1])
    BY <1>12, <2>1
  <2>3. \A i \in 1..Len(c) : i # k => EntryAt(m1, c[i]) = EntryAt(m, c[i])
    BY <1>2 DEF EntryAt, IsFree
  <2>4. CASE j < x
    <3>1. j + 1 <= k /\ j + 1 # k
      BY <1>12, <2>4
    <3>2. d[j + 1] = c[j + 1] /\ E[j] = EntryAt(m, c[j + 1])
      BY <1>3, <1>12, <2>1, <3>1
    <3> QED  BY <2>1, <2>2, <2>3, <2>4, <3>1, <3>2
  <2>5. CASE j = x
    <3>1. d[k] = c[k]
      BY <1>1, <1>3
    <3> QED  BY <1>12, <1>16, <2>2, <2>5, <3>1
  <2>6. CASE x < j
    <3>1. ~(j + 1 <= k) /\ (j + 1) + 1 \in 1..Len(c) /\ (j + 1) + 1 # k
          /\ j + 1 \in 1 .. Len(c) - 1 /\ ~(j < x) /\ j # x
      BY <1>1, <1>3, <1>12, <2>1, <2>6
    <3>2. d[j + 1] = c[(j + 1) + 1] /\ E[j + 1] = EntryAt(m, c[(j + 1) + 1])
      BY <1>3, <1>12, <2>1, <3>1
    <3> QED  BY <2>2, <2>3, <3>1, <3>2
  <2>7. j < x \/ j = x \/ x < j
    BY <2>1
  <2> QED  BY <2>4, <2>5, <2>6, <2>7
<1>18. Len(F) = Len(E) - 1
  BY <1>3, <1>12
<1>19. MergedAt(F, E, x)
  BY <1>17, <1>18 DEF MergedAt
<1>20. Keeps(F, E)
  BY <1>12, <1>13, <1>15, <1>19, MergedKeeps
<1> QED
  BY <1>10, <1>11, <1>20

\* An entry shares no word with the page of the stack of recycled entries.
OffStack(a) == a + 3 <= Address(2) \/ Address(2) + PageWordCount <= a

(* As long as that page is none of the list's, no entry does.              *)
LEMMA ListOffStack ==
    ASSUME NEW l, ListIs(l), 2 \notin listPages
    PROVE  \A i \in 1..Len(l) : OffStack(l[i])
<1> SUFFICES ASSUME NEW i \in 1..Len(l) PROVE OffStack(l[i])
  OBVIOUS
<1>1. Len(l) \in Nat \ {0} /\ l[1] = 0
  BY EntriesAre DEF ListIs, head
<1>2. CASE i = 1
  <2>1. Address(1) + PageWordCount <= Address(2) /\ Address(1) = PageWordCount
    BY Addresses
  <2>2. Address(2) \in Nat /\ PageWordCount \in Nat /\ PageWordCount >= 3
    BY Addresses
  <2>3. 0 + 3 <= Address(2)
    BY <2>1, <2>2
  <2> QED  BY <1>1, <1>2, <2>3 DEF OffStack
<1>3. CASE i # 1
  <2>1. i \in 2..Len(l)
    BY <1>1, <1>3
  <2>2. PICK p : InPage(l[i], p)
    BY <2>1 DEF ListIs, InPages
  <2>3. p \in Nat /\ p # 2
    BY <2>2 DEF InPage, ListIs, BookInv
  <2>4. PICK a \in Nat, w \in Nat, s \in Nat, g \in Nat :
           a = Address(p) /\ w = PageWordCount /\ s = Address(2) /\ g = l[i]
    BY <2>2, <2>3, Addresses DEF InPage
  <2>5. a <= g /\ g + 3 <= a + w
    BY <2>2, <2>4 DEF InPage
  <2>6. a + w <= s \/ s + w <= a
    <3>1. p < 2 \/ 2 < p
      BY <2>3
    <3> QED  BY <2>3, <2>4, <3>1, Addresses
  <2>7. g + 3 <= s \/ s + w <= g
    BY <2>5, <2>6
  <2> QED  BY <2>4, <2>7 DEF OffStack
<1> QED
  BY <1>2, <1>3

(* The state of shrinkList's walk: in its memory m the list is c, what has *)
(* become of the list l.                                                   *)
WalkState(s) ==
    /\ s = [mem |-> s.mem, stack |-> s.stack, at |-> s.at, done |-> s.done]
    /\ s.stack \in Nat
    /\ Address(2) <= s.stack /\ s.stack <= Address(2) + PageWordCount
WalkIs(m, c, m0, l) ==
    /\ WordsOK(m, c)
    /\ \A i \in 1..Len(c) : OffStack(c[i])
    /\ Len(c) <= Len(l)
    /\ Keeps(EntriesOf(m, c), EntriesOf(m0, l))
WalkAt(s, m0, l) ==
    /\ WalkState(s)
    /\ \E c : WalkIs(s.mem, c, m0, l) /\ \E i \in 1..Len(c) : s.at = c[i]

(* One entry is gone from the list.                                        *)
LEMMA WalkShorter ==
    ASSUME NEW m0, NEW l, Len(l) \in Nat, NEW m, NEW c, WalkIs(m, c, m0, l),
           NEW k \in 2 .. Len(c) - 1, IsFree(m, c[k]), IsFree(m, c[k + 1]),
           NEW m1, m1 = Swallowed(m, c[k]), NEW d, Without(d, c, k)
    PROVE  /\ WalkIs(m1, d, m0, l)
           /\ k \in 1..Len(d) /\ d[k] = c[k]
<1>1. WordsOK(m, c)
  BY DEF WalkIs
<1>2. WordsOK(m1, d) /\ Keeps(EntriesOf(m1, d), EntriesOf(m, c))
  BY <1>1, SwallowGives
<1>3. Keeps(EntriesOf(m1, d), EntriesOf(m0, l))
  BY <1>2, KeepsAfter DEF WalkIs
<1>4. /\ Len(d) = Len(c) - 1 /\ Len(d) \in Nat \ {0} /\ k \in 1..Len(d)
      /\ \A j \in 1..Len(d) : d[j] = IF j <= k THEN c[j] ELSE c[j + 1]
      /\ \A j \in 1..Len(d) : \E i \in 1..Len(c) : i # k + 1 /\ d[j] = c[i]
  <2>1. c \in Seq(Nat) /\ k \in 1 .. Len(c) - 1
    BY <1>1, EntriesAre
  <2>2. /\ Len(d) = Len(c) - 1 /\ Len(d) \in Nat \ {0} /\ k \in 1..Len(d)
        /\ \A j \in 1..Len(d) : d[j] = IF j <= k THEN c[j] ELSE c[j + 1]
    BY <2>1, WithoutFacts
  <2>3. \A j \in 1..Len(d) : \E i \in 1..Len(c) : i # k + 1 /\ d[j] = c[i]
    BY <2>1, WithoutFacts
  <2> QED  BY <2>2, <2>3
<1>5. \A j \in 1..Len(d) : OffStack(d[j])
  <2> SUFFICES ASSUME NEW j \in 1..Len(d) PROVE OffStack(d[j])
    OBVIOUS
  <2>1. PICK i \in 1..Len(c) : d[j] = c[i]
    BY <1>4
  <2> QED  BY <2>1 DEF WalkIs
<1>6. Len(d) <= Len(l)
  <2>1. Len(c) \in Nat /\ Len(c) <= Len(l)
    BY <1>1, EntriesAre DEF WalkIs
  <2> QED  BY <1>4, <2>1
<1>7. d[k] = c[k]
  BY <1>4
<1> QED
  BY <1>2, <1>3, <1>4, <1>5, <1>6, <1>7 DEF WalkIs

(* The swallowed entry's address goes on the stack.                        *)
LEMMA WalkPushes ==
    ASSUME NEW m0, NEW l, NEW m, NEW c, WalkIs(m, c, m0, l),
           NEW a \in Nat, Address(2) <= a, a < Address(2) + PageWordCount,
           NEW w, NEW m1, m1 = SetLocation(m, a, w)
    PROVE  WalkIs(m1, c, m0, l)
<1>1. WordsOK(m, c) /\ \A i \in 1..Len(c) : c[i] \in Nat
  BY EntriesAre DEF WalkIs
<1>2. ASSUME NEW i \in 1..Len(c) PROVE c[i] + 3 <= a \/ a < c[i]
  <2>1. PICK g \in Nat, s \in Nat, p \in Nat :
           g = c[i] /\ s = Address(2) /\ p = PageWordCount
    BY <1>1, Addresses
  <2>2. g + 3 <= s \/ s + p <= g
    BY <2>1 DEF WalkIs, OffStack
  <2>3. s <= a /\ a < s + p
    BY <2>1
  <2>4. g + 3 <= a \/ a < g
    BY <2>2, <2>3
  <2> QED  BY <2>1, <2>4
<1>3. WordsOK(m1, c) /\ EntriesOf(m1, c) = EntriesOf(m, c)
  BY <1>1, <1>2, StackStored
<1> QED
  BY <1>3 DEF WalkIs

(* Behind an entry of the list comes the next one or the null pointer,     *)
(* which is the head.                                                      *)
LEMMA NextInList ==
    ASSUME NEW m, NEW c, WordsOK(m, c), NEW k \in 1..Len(c)
    PROVE  /\ \E i \in 1..Len(c) : NextOf(m, c[k]) = c[i]
           /\ NextOf(m, c[k]) # NULL => k \in 1 .. Len(c) - 1 /\ NextOf(m, c[k]) = c[k + 1]
<1>1. Len(c) \in Nat \ {0} /\ c[1] = 0
  BY EntriesAre DEF head
<1>2. NextOf(m, c[k]) = IF k = Len(c) THEN 0 ELSE c[k + 1]
  BY DEF WordsOK, IsChain, NULL
<1>3. CASE k = Len(c)
  <2>1. 1 \in 1..Len(c)
    BY <1>1
  <2> QED  BY <1>1, <1>2, <1>3, <2>1 DEF NULL
<1>4. CASE k # Len(c)
  <2>1. k \in 1 .. Len(c) - 1 /\ k + 1 \in 1..Len(c)
    BY <1>1, <1>4
  <2> QED  BY <1>2, <1>4, <2>1
<1> QED
  BY <1>3, <1>4

(* The head is not free.                                                   *)
LEMMA HeadNotFree ==
    ASSUME NEW m, NEW c, WordsOK(m, c), NEW k \in 1..Len(c), IsFree(m, c[k])
    PROVE  k # 1
<1>1. c[1] = head /\ Location(m, head) = 0
  BY EntriesAre DEF WordsOK
<1> QED
  BY <1>1 DEF IsFree

(* A round of the loop that finds no free entry in front of a free one, or *)
(* the end of the list.                                                    *)
LEMMA RoundGoesOn ==
    ASSUME NEW m0, NEW l, NEW s, WalkAt(s, m0, l),
           NEW next, next = NextOf(s.mem, s.at),
           NEW t, \/ t = s
                  \/ t = [s EXCEPT !.done = TRUE]
                  \/ t = [s EXCEPT !.at = next]
    PROVE  WalkAt(t, m0, l)
<1>1. PICK m, n, a, b : s = [mem |-> m, stack |-> n, at |-> a, done |-> b]
  BY DEF WalkAt, WalkState
<1>2. s.mem = m /\ s.stack = n /\ s.at = a /\ s.done = b
  BY <1>1
<1>3. n \in Nat /\ Address(2) <= n /\ n <= Address(2) + PageWordCount
  BY <1>2 DEF WalkAt, WalkState
<1>4. PICK c : WalkIs(m, c, m0, l) /\ \E i \in 1..Len(c) : a = c[i]
  BY <1>2 DEF WalkAt
<1>5. \E i \in 1..Len(c) : next = c[i]
  <2>1. PICK k \in 1..Len(c) : a = c[k]
    BY <1>4
  <2>2. WordsOK(m, c) /\ next = NextOf(m, c[k])
    BY <1>2, <1>4, <2>1 DEF WalkIs
  <2> QED  BY <2>2, NextInList
<1>6. PICK x, y : /\ t = [mem |-> m, stack |-> n, at |-> x, done |-> y]
                  /\ x = a \/ x = next
  <2>1. CASE t = s
    BY <1>1, <2>1
  <2>2. CASE t = [s EXCEPT !.done = TRUE]
    <3>1. t = [mem |-> m, stack |-> n, at |-> a, done |-> TRUE]
      BY <1>1, <2>2
    <3> QED  BY <3>1
  <2>3. CASE t = [s EXCEPT !.at = next]
    <3>1. t = [mem |-> m, stack |-> n, at |-> next, done |-> b]
      BY <1>1, <2>3
    <3> QED  BY <3>1
  <2> QED  BY <2>1, <2>2, <2>3
<1>7. t.mem = m /\ t.stack = n /\ t.at = x /\ t.done = y
  BY <1>6
<1>8. WalkState(t)
  BY <1>3, <1>6, <1>7 DEF WalkState
<1>9. \E i \in 1..Len(c) : t.at = c[i]
  BY <1>4, <1>5, <1>6, <1>7
<1> QED
  BY <1>4, <1>7, <1>8, <1>9 DEF WalkAt

(* A round that combines two entries.                                      *)
LEMMA RoundCombines ==
    ASSUME NEW m0, NEW l, Len(l) \in Nat, NEW s, WalkAt(s, m0, l),
           NEW next, next = NextOf(s.mem, s.at), next # NULL, Combinable(s.mem, s.at),
           NEW m1, m1 = Swallowed(s.mem, s.at)
    PROVE  /\ WalkAt([s EXCEPT !.mem = m1, !.done = TRUE], m0, l)
           /\ ~(s.stack >= nodeLocStackTop + PageWordCount) =>
                 \A m2 : m2 = SetLocation(m1, s.stack, next) =>
                    WalkAt([mem |-> m2, stack |-> s.stack + 1,
                            at |-> NextOf(m2, s.at), done |-> FALSE], m0, l)
<1>1. PICK m, n, a, b : s = [mem |-> m, stack |-> n, at |-> a, done |-> b]
  BY DEF WalkAt, WalkState
<1>2. s.mem = m /\ s.stack = n /\ s.at = a /\ s.done = b
  BY <1>1
<1>3. n \in Nat /\ Address(2) <= n /\ n <= Address(2) + PageWordCount
  BY <1>2 DEF WalkAt, WalkState
<1>4. PICK c : WalkIs(m, c, m0, l) /\ \E i \in 1..Len(c) : a = c[i]
  BY <1>2 DEF WalkAt
<1>5. PICK k \in 1..Len(c) : a = c[k]
  BY <1>4
<1>6. WordsOK(m, c) /\ Len(c) \in Nat \ {0}
  BY <1>4, EntriesAre DEF WalkIs
<1>7. IsFree(m, c[k]) /\ IsFree(m, next)
  BY <1>2, <1>5 DEF Combinable
<1>8. k \in 1 .. Len(c) - 1 /\ next = c[k + 1] /\ k # 1
  <2>1. next = NextOf(m, c[k])
    BY <1>2, <1>5
  <2>2. k \in 1 .. Len(c) - 1 /\ next = c[k + 1]
    BY <1>6, <2>1, NextInList
  <2>3. k # 1
    BY <1>6, <1>7, HeadNotFree
  <2> QED  BY <2>2, <2>3
<1>9. k \in 2 .. Len(c) - 1
  BY <1>8
<1>10. m1 = Swallowed(m, c[k]) /\ IsFree(m, c[k + 1])
  BY <1>2, <1>5, <1>7, <1>8
<1>11. PICK d : Without(d, c, k)
  BY DEF Without
<1>12. WalkIs(m1, d, m0, l) /\ k \in 1..Len(d) /\ d[k] = c[k]
  BY <1>4, <1>7, <1>9, <1>10, <1>11, WalkShorter
<1>13. WalkAt([s EXCEPT !.mem = m1, !.done = TRUE], m0, l)
  <2>1. PICK t : t = [s EXCEPT !.mem = m1, !.done = TRUE]
    OBVIOUS
  <2>2. t = [mem |-> m1, stack |-> n, at |-> a, done |-> TRUE]
    BY <1>1, <2>1
  <2>3. t.mem = m1 /\ t.stack = n /\ t.at = a /\ t.done = TRUE
    BY <2>2
  <2>4. WalkState(t)
    BY <1>3, <2>2, <2>3 DEF WalkState
  <2>5. \E i \in 1..Len(d) : t.at = d[i]
    BY <1>5, <1>12, <2>3
  <2>6. WalkAt(t, m0, l)
    BY <1>12, <2>3, <2>4, <2>5 DEF WalkAt
  <2> QED  BY <2>1, <2>6
<1>14. ASSUME ~(n >= nodeLocStackTop + PageWordCount), NEW m2, m2 = SetLocation(m1, n, next)
       PROVE  WalkAt([mem |-> m2, stack |-> n + 1, at |-> NextOf(m2, a), done |-> FALSE], m0, l)
  <2>1. PICK t : t = [mem |-> m2, stack |-> n + 1, at |-> NextOf(m2, a), done |-> FALSE]
    OBVIOUS
  <2>2. t.mem = m2 /\ t.stack = n + 1 /\ t.at = NextOf(m2, a) /\ t.done = FALSE
    BY <2>1
  <2>3. PICK g \in Nat, w \in Nat : g = Address(2) /\ w = PageWordCount
    BY Addresses
  <2>4. n < g + w /\ g <= n
    BY <1>3, <1>14, <2>3 DEF nodeLocStackTop
  <2>5. n + 1 \in Nat /\ g <= n + 1 /\ n + 1 <= g + w
    BY <1>3, <2>3, <2>4
  <2>6. WalkState(t)
    BY <2>1, <2>2, <2>3, <2>5 DEF WalkState
  <2>7. WalkIs(m2, d, m0, l)
    <3>1. n \in Nat /\ Address(2) <= n /\ n < Address(2) + PageWordCount
      BY <1>3, <2>3, <2>4
    <3> QED  BY <1>12, <1>14, <3>1, WalkPushes
  <2>8. \E i \in 1..Len(d) : NextOf(m2, d[k]) = d[i]
    <3>1. WordsOK(m2, d)
      BY <2>7 DEF WalkIs
    <3> QED  BY <1>12, <3>1, NextInList
  <2>9. \E i \in 1..Len(d) : t.at = d[i]
    BY <1>5, <1>12, <2>2, <2>8
  <2>10. WalkAt(t, m0, l)
    BY <2>2, <2>6, <2>7, <2>9 DEF WalkAt
  <2> QED  BY <2>1, <2>10
<1> QED
  BY <1>2, <1>13, <1>14

(* A round of shrinkList's loop keeps what has become of the list.         *)
LEMMA RoundKeeps ==
    ASSUME NEW m0, NEW l, Len(l) \in Nat, NEW s, WalkAt(s, m0, l)
    PROVE  WalkAt(ShrinkRound(s), m0, l)
<1>1. PICK next : next = NextOf(s.mem, s.at)
  OBVIOUS
<1>2. PICK m1 : m1 = Swallowed(s.mem, s.at)
  OBVIOUS
<1>3. PICK m2 : m2 = SetLocation(m1, s.stack, next)
  OBVIOUS
<1>4. PICK r : r = [mem |-> m2, stack |-> s.stack + 1, at |-> NextOf(m2, s.at), done |-> FALSE]
  OBVIOUS
<1>5. PICK x, y, z : /\ x = [s EXCEPT !.done = TRUE]
                     /\ y = [s EXCEPT !.at = next]
                     /\ z = [s EXCEPT !.mem = m1, !.done = TRUE]
  OBVIOUS
<1>6. ShrinkRound(s) =
        CASE s.done -> s
          [] ~s.done /\ next = NULL -> x
          [] ~s.done /\ next # NULL /\ ~Combinable(s.mem, s.at) -> y
          [] OTHER -> IF s.stack >= nodeLocStackTop + PageWordCount THEN z ELSE r
  BY <1>1, <1>2, <1>3, <1>4, <1>5 DEF ShrinkRound
<1>7. /\ WalkAt(s, m0, l) /\ WalkAt(x, m0, l) /\ WalkAt(y, m0, l)
  BY <1>1, <1>5, RoundGoesOn
<1>8. ASSUME next # NULL, Combinable(s.mem, s.at)
      PROVE  /\ WalkAt(z, m0, l)
             /\ ~(s.stack >= nodeLocStackTop + PageWordCount) => WalkAt(r, m0, l)
  BY <1>1, <1>2, <1>3, <1>4, <1>5, <1>8, RoundCombines
<1>9. CASE next # NULL /\ Combinable(s.mem, s.at) /\ ~s.done
  <2>1. ShrinkRound(s) = IF s.stack >= nodeLocStackTop + PageWordCount THEN z ELSE r
    BY <1>6, <1>9
  <2> QED  BY <1>8, <1>9, <2>1
<1>10. CASE ~(next # NULL /\ Combinable(s.mem, s.at) /\ ~s.done)
  <2>1. ShrinkRound(s) = s \/ ShrinkRound(s) = x \/ ShrinkRound(s) = y
    BY <1>6, <1>10
  <2> QED  BY <1>7, <2>1
<1> QED
  BY <1>9, <1>10

\* The states of the walk, one behind the other.
RoundsIn(s, f, b) ==
    f = [n \in 0..b |-> IF n = 0 THEN s ELSE ShrinkRound(f[n - 1])]

(* From any state the walk has a next one, over and over.                  *)
LEMMA RoundsExist ==
    ASSUME NEW s, NEW b \in Nat
    PROVE  \E f : RoundsIn(s, f, b)
<1> DEFINE T == {n \in Nat : \E f : RoundsIn(s, f, n)}
<1>1. 0 \in T
  <2> DEFINE f == [n \in 0..0 |-> s]
  <2>1. f = [n \in 0..0 |-> IF n = 0 THEN s ELSE ShrinkRound(f[n - 1])]
    OBVIOUS
  <2> QED  BY <2>1 DEF RoundsIn
<1>2. ASSUME NEW n \in Nat, n \in T PROVE n + 1 \in T
  <2>1. PICK f : RoundsIn(s, f, n)
    BY <1>2
  <2> DEFINE g == [k \in 0..n + 1 |-> IF k <= n THEN f[k] ELSE ShrinkRound(f[n])]
  <2>2. \A k \in 0..n + 1 : g[k] = IF k = 0 THEN s ELSE ShrinkRound(g[k - 1])
    <3> SUFFICES ASSUME NEW k \in 0..n + 1
                 PROVE  g[k] = IF k = 0 THEN s ELSE ShrinkRound(g[k - 1])
      OBVIOUS
    <3>1. k # 0 => k - 1 \in 0..n + 1 /\ k - 1 <= n /\ g[k - 1] = f[k - 1]
      OBVIOUS
    <3>2. k <= n => k \in 0..n /\ f[k] = IF k = 0 THEN s ELSE ShrinkRound(f[k - 1])
      BY <2>1 DEF RoundsIn
    <3>3. ~(k <= n) => k # 0 /\ k - 1 = n
      OBVIOUS
    <3>4. g[k] = IF k <= n THEN f[k] ELSE ShrinkRound(f[n])
      OBVIOUS
    <3> HIDE DEF g
    <3> QED  BY <3>1, <3>2, <3>3, <3>4
  <2>3. g = [k \in 0..n + 1 |-> IF k = 0 THEN s ELSE ShrinkRound(g[k - 1])]
    <3>1. g = [k \in 0..n + 1 |-> g[k]]
      OBVIOUS
    <3> HIDE DEF g
    <3> QED  BY <2>2, <3>1
  <2>4. RoundsIn(s, g, n + 1)
    <3> HIDE DEF g
    <3> QED  BY <2>3 DEF RoundsIn
  <2> QED  BY <2>4
<1>3. b \in T
  <2> HIDE DEF T
  <2> QED  BY <1>1, <1>2, NatsAreIn
<1> QED
  BY <1>3

(* After any number of rounds the list has become one like that.           *)
LEMMA RoundsKeep ==
    ASSUME NEW m0, NEW l, Len(l) \in Nat, NEW s, WalkAt(s, m0, l),
           NEW b \in Nat, NEW f, RoundsIn(s, f, b)
    PROVE  WalkAt(f[b], m0, l)
<1> DEFINE T == {n \in Nat : n <= b => WalkAt(f[n], m0, l)}
<1>1. \A n \in 0..b : f[n] = IF n = 0 THEN s ELSE ShrinkRound(f[n - 1])
  BY DEF RoundsIn
<1>2. 0 \in T
  BY <1>1
<1>3. ASSUME NEW n \in Nat, n \in T PROVE n + 1 \in T
  <2> SUFFICES ASSUME n + 1 <= b PROVE WalkAt(f[n + 1], m0, l)
    OBVIOUS
  <2>1. n + 1 \in 0..b /\ n + 1 # 0 /\ (n + 1) - 1 = n /\ n <= b
    OBVIOUS
  <2>2. f[n + 1] = ShrinkRound(f[n])
    BY <1>1, <2>1
  <2>3. WalkAt(f[n], m0, l)
    BY <1>3, <2>1
  <2> QED  BY <2>2, <2>3, RoundKeeps
<1>4. b \in T
  <2> HIDE DEF T
  <2> QED  BY <1>2, <1>3, NatsAreIn
<1> QED
  BY <1>4

(* shrinkList's first call leaves a list like that.                        *)
LEMMA ShrinkWalk ==
    ASSUME NEW l, ListIs(l), 2 \notin listPages, ShrinkList
    PROVE  \E c : WalkIs(mem', c, mem, l)
<1>1. Len(l) \in Nat \ {0} /\ l[1] = head /\ IsChain(mem, l) /\ WordsOK(mem, l)
  BY EntriesAre DEF ListIs, WordsOK
<1>2. Chain(mem) = l
  BY <1>1, ChainIs
<1>3. PICK b \in Nat : b = Len(l) * Len(l) + 1
  <2>1. Len(l) * Len(l) + 1 \in Nat
    BY <1>1
  <2> QED  BY <2>1
<1>4. PICK s : s = [mem |-> mem, stack |-> nodeLocStack, at |-> head, done |-> FALSE]
  OBVIOUS
<1> DEFINE walk == CHOOSE f : f = [n \in 0..b |-> IF n = 0 THEN s ELSE ShrinkRound(f[n - 1])]
<1>5. RoundsIn(s, walk, b)
  <2>1. \E f : f = [n \in 0..b |-> IF n = 0 THEN s ELSE ShrinkRound(f[n - 1])]
    BY RoundsExist DEF RoundsIn
  <2>2. walk = [n \in 0..b |-> IF n = 0 THEN s ELSE ShrinkRound(walk[n - 1])]
    BY <2>1
  <2> QED  BY <2>2 DEF RoundsIn
<1>6. mem' = walk[b].mem
  BY <1>2, <1>3, <1>4 DEF ShrinkList
<1> HIDE DEF walk
<1>7. WalkAt(s, mem, l)
  <2>1. s.mem = mem /\ s.stack = nodeLocStack /\ s.at = head /\ s.done = FALSE
    BY <1>4
  <2>2. WalkState(s)
    <3>1. nodeLocStack = Address(2)
      BY DEF ListIs, BookInv, nodeLocStackTop
    <3>2. PICK a \in Nat, w \in Nat : a = Address(2) /\ w = PageWordCount
      BY Addresses
    <3>3. a <= a + w
      OBVIOUS
    <3> QED  BY <1>4, <2>1, <3>1, <3>2, <3>3 DEF WalkState
  <2>3. WalkIs(mem, l, mem, l)
    <3>1. Keeps(EntriesOf(mem, l), EntriesOf(mem, l))
      BY DEF Keeps
    <3>2. Len(l) <= Len(l)
      BY <1>1
    <3> QED  BY <1>1, <3>1, <3>2, ListOffStack DEF WalkIs
  <2>4. \E i \in 1..Len(l) : s.at = l[i]
    <3>1. 1 \in 1..Len(l)
      BY <1>1
    <3> QED  BY <1>1, <2>1, <3>1
  <2> QED  BY <2>1, <2>2, <2>3, <2>4 DEF WalkAt
<1>8. WalkAt(walk[b], mem, l)
  BY <1>1, <1>5, <1>7, RoundsKeep
<1> QED
  BY <1>6, <1>8 DEF WalkAt

(* What the property says of the entries, in the words used here.          *)
LEMMA UsedIs ==
    ASSUME NEW E, Entries = E, DOMAIN E = 1..Len(E)
    PROVE  /\ Used = UsedOf(E)
           /\ Lists!FreePages = FreeOf(E)
           /\ NearBy <=> NearOf(E)
<1>1. Used = UsedOf(E)
  BY DEF UsedOf, Used, Range
<1>2. Lists!FreePages = FreeOf(E)
  BY DEF FreeOf, Lists!FreePages, Lists!FreeEntries
<1>3. NearBy <=> NearOf(E)
  BY DEF NearBy, NearOf
<1> QED
  BY <1>1, <1>2, <1>3

(* The same after a step.                                                  *)
LEMMA UsedNext ==
    ASSUME NEW F, Entries' = F, DOMAIN F = 1..Len(F)
    PROVE  /\ Used' = UsedOf(F)
           /\ Lists!FreePages' = FreeOf(F)
<1>1. Used' = UsedOf(F)
  BY DEF UsedOf, Used, Range
<1>2. Lists!FreePages' = FreeOf(F)
  BY DEF FreeOf, Lists!FreePages, Lists!FreeEntries
<1> QED
  BY <1>1, <1>2

(* The entries are counted from 1.                                         *)
LEMMA EntriesCounted ==
    ASSUME NEW m, NEW l, WordsOK(m, l), NEW E, E = EntriesOf(m, l)
    PROVE  DOMAIN E = 1..Len(E)
<1>1. Len(E) = Len(l) - 1
  BY EntriesAre
<1>2. DOMAIN E = 1 .. Len(l) - 1
  BY DEF EntriesOf
<1> QED
  BY <1>1, <1>2

\* The stack's page is none of the list's until shrinkList is called.
StackApart == shrinks = 0 => 2 \notin listPages

(* No operation makes it one.                                              *)
LEMMA StackStaysApart ==
    ASSUME WordsInv, StackApart, [Next]_vars
    PROVE  StackApart'
<1> SUFFICES ASSUME shrinks' = 0 PROVE 2 \notin listPages'
  BY DEF StackApart
<1>1. shrinks \in Nat
  BY DEF WordsInv
<1>2. shrinks' = shrinks
  <2>1. ShrinkList => FALSE
    <3>1. shrinks + 1 # 0
      BY <1>1
    <3> QED  BY <3>1 DEF ShrinkList
  <2> QED  BY <2>1 DEF Next, vars, MallocReuse, MallocFresh, Free, CreateBlock4k
<1>3. 2 \notin listPages
  BY <1>2 DEF StackApart
<1>4. heapPos \in Nat /\ 3 <= heapPos
  BY <1>2 DEF WordsInv, ListIs, BookInv
<1>5. ASSUME NEW used \in Nat, Prepare(used) PROVE 2 \notin listPages'
  <2>1. Prepared(used).pages \subseteq {heapPos + used}
    BY DEF Prepared
  <2>2. listPages' = listPages \cup Prepared(used).pages
    BY <1>5 DEF Prepare
  <2>3. heapPos + used # 2
    BY <1>4
  <2> QED  BY <1>3, <2>1, <2>2, <2>3
<1>6. \A n \in Counts : n \in Nat
  BY PageWordsAssumption
<1>7. listPages' = listPages \/ \E used \in Nat : Prepare(used)
  <2>1. ASSUME NEW n \in Counts, MallocReuse(n)
        PROVE  listPages' = listPages \/ Prepare(0)
    BY <2>1 DEF MallocReuse
  <2>2. ASSUME NEW n \in Counts, MallocFresh(n)
        PROVE  Prepare(n)
    BY <2>2 DEF MallocFresh
  <2>3. ASSUME NEW h \in held, Free(h) PROVE listPages' = listPages
    BY <2>3 DEF Free
  <2>4. CreateBlock4k \/ ShrinkList \/ UNCHANGED vars => listPages' = listPages
    BY DEF CreateBlock4k, ShrinkList, vars
  <2>5. 0 \in Nat
    OBVIOUS
  <2> QED  BY <1>6, <2>1, <2>2, <2>3, <2>4, <2>5 DEF Next
<1> QED
  BY <1>3, <1>5, <1>7

(* A list from which entries are gone in that way keeps what is to stay.   *)
LEMMA ShrinkKeeps ==
    ASSUME WordsInv, StackApart, ShrinkList, shrinks = 0
    PROVE  /\ Used' = Used
           /\ Len(Chain(mem')) <= Len(Chain(mem))
           /\ NearBy => Lists!FreePages' = Lists!FreePages
<1>1. PICK l : ListIs(l)
  BY DEF WordsInv
<1>2. PICK c : WalkIs(mem', c, mem, l)
  BY <1>1, ShrinkWalk DEF StackApart
<1>3. Chain(mem) = l /\ Entries = EntriesOf(mem, l)
  BY <1>1, EntriesNow DEF ListIs, WordsOK
<1>4. Chain(mem') = c /\ Entries' = EntriesOf(mem', c)
  <2>1. IsChain(mem', c)
    BY <1>2 DEF WalkIs, WordsOK
  <2> QED  BY <2>1, ChainIs, EntriesNext
<1>5. PICK E : E = EntriesOf(mem, l)
  OBVIOUS
<1>6. PICK F : F = EntriesOf(mem', c)
  OBVIOUS
<1>7. Keeps(F, E) /\ Len(c) <= Len(l)
  BY <1>2, <1>5, <1>6 DEF WalkIs
<1>8. Used = UsedOf(E) /\ Lists!FreePages = FreeOf(E) /\ (NearBy <=> NearOf(E))
  <2>1. DOMAIN E = 1..Len(E)
    BY <1>1, <1>5, EntriesCounted DEF ListIs
  <2> QED  BY <1>3, <1>5, <2>1, UsedIs
<1>9. Used' = UsedOf(F) /\ Lists!FreePages' = FreeOf(F)
  <2>1. DOMAIN F = 1..Len(F)
    BY <1>2, <1>6, EntriesCounted DEF WalkIs
  <2> QED  BY <1>4, <1>6, <2>1, UsedNext
<1> QED
  BY <1>3, <1>4, <1>7, <1>8, <1>9 DEF Keeps

(* The first call of shrinkList leaves every entry in use as it is and the *)
(* list no longer; where what is free lies side by side, every free page   *)
(* stays free.                                                             *)
THEOREM FirstShrinkKeepsUsed ==
    ASSUME MaxShrinks <= 1
    PROVE  Spec => ShrinkKeepsUsed
<1>1. Init => StackApart
  BY DEF Init, StackApart
<1>2. WordsInv /\ StackApart /\ [Next]_vars => StackApart'
  BY StackStaysApart
<1>3. Init => WordsInv
  BY InitMaps
<1>4. WordsInv /\ [Next]_vars => WordsInv'
  BY StepMaps
<1>5. WordsInv /\ StackApart /\ [Next]_vars =>
         [shrinks' # shrinks /\ ListInItsPages =>
            /\ Used' = Used
            /\ Len(Chain(mem')) <= Len(Chain(mem))
            /\ NearBy => Lists!FreePages' = Lists!FreePages]_vars
  <2> SUFFICES ASSUME WordsInv, StackApart, [Next]_vars, shrinks' # shrinks
               PROVE  /\ Used' = Used
                      /\ Len(Chain(mem')) <= Len(Chain(mem))
                      /\ NearBy => Lists!FreePages' = Lists!FreePages
    OBVIOUS
  <2>1. ShrinkList
    BY DEF Next, vars, MallocReuse, MallocFresh, Free, CreateBlock4k
  <2>2. shrinks = 0
    <3>1. shrinks < MaxShrinks /\ shrinks \in Nat /\ MaxShrinks \in Nat
      BY <2>1, PageWordsAssumption DEF ShrinkList, WordsInv
    <3> QED  BY <3>1
  <2> QED  BY <2>1, <2>2, ShrinkKeeps
<1> QED
  BY <1>1, <1>2, <1>3, <1>4, <1>5, PTL DEF Spec, ShrinkKeepsUsed
=============================================================================
