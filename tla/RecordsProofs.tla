--------------------------- MODULE RecordsProofs ----------------------------
(***************************************************************************)
(* Proofs about Records, for every size of arena, texts, lists and vault   *)
(* and every number of commands.  First, how many bytes of an arena each   *)
(* copy takes, and that everything which begins a multiple of the          *)
(* alignment later ends no more than that later: so, by induction on the   *)
(* records, a vault in which one record has changed can be loaded with so  *)
(* much more arena as the change had cost.  The inductive invariant says   *)
(* that an open vault is what a load of the file gives, and that what is   *)
(* about to be saved follows the file and fits.                            *)
(***************************************************************************)
EXTENDS Records, WellFoundedInduction, TLAPS

(***************************************************************************)
(* Numbers.                                                                *)
(***************************************************************************)
LEMMA LeastNumber ==
    ASSUME NEW S, S \subseteq Nat, S # {}
    PROVE  \E m \in S : \A n \in S : m <= n
<1>1. PICK m \in S : \A n \in S : ~(<<n, m>> \in OpToRel(<, Nat))
    BY Zenon, WFMin, NatLessThanWellFounded
<1>2. \A n \in S : ~(n < m)
    BY Zenon, <1>1 DEF OpToRel
<1>3. \A n \in S : m <= n
    BY ONLY <1>2, m \in S, S \subseteq Nat
<1> QED BY ONLY Zenon, <1>3, m \in S

LEMMA Positive ==
    /\ Capacity \in Nat \ {0} /\ Align \in Nat \ {0} /\ SlotSize \in Nat \ {0}
    /\ ItemSize \in Nat \ {0} /\ InitialSlots \in Nat \ {0} /\ MaxText \in Nat \ {0}
    /\ MaxItems \in Nat \ {0} /\ MaxRev \in Nat \ {0} /\ MaxRecords \in Nat \ {0}
    /\ MaxSessions \in Nat \ {0} /\ InitialSlots * SlotSize <= Capacity
BY Zenon, RecordsAssumption

LEMMA Products == ASSUME NEW m \in Nat, NEW n \in Nat PROVE m * n \in Nat
OBVIOUS

LEMMA NextMultiple ==
    ASSUME NEW a \in Nat, NEW p \in Nat, NEW q \in Nat, p < q
    PROVE  p * a + a <= q * a
<1>1. PICK k \in Nat : q = p + 1 + k
  <2>1. q - p - 1 \in Nat /\ q = p + 1 + (q - p - 1)
      OBVIOUS
  <2> QED BY ONLY Zenon, <2>1
<1>2. q * a = p * a + a + k * a
    BY <1>1
<1>3. k * a \in Nat /\ p * a \in Nat
    OBVIOUS
<1> QED BY ONLY <1>2, <1>3, a \in Nat

\* RoundUp gives the least multiple that is not smaller.
LEMMA Rounded ==
    ASSUME NEW n \in Nat, NEW a \in Nat \ {0}
    PROVE  /\ RoundUp(n, a) \in Nat
           /\ n <= RoundUp(n, a) /\ RoundUp(n, a) <= n + a - 1
           /\ \E q \in Nat : RoundUp(n, a) = q * a
           /\ \A m \in Nat : n <= m * a => RoundUp(n, a) <= m * a
<1>1. PICK q : q = (n + a - 1) \div a
    BY Zenon
<1>2. q \in Nat /\ a * q <= n + a - 1 /\ n + a - 1 < a * q + a
    BY <1>1
<1>3. RoundUp(n, a) = q * a /\ a * q = q * a
    BY <1>1, <1>2 DEF RoundUp
<1>4. q * a \in Nat
    BY <1>2
<1>5. ASSUME NEW m \in Nat, n <= m * a PROVE q * a <= m * a
  <2>1. SUFFICES ASSUME m < q PROVE FALSE
    <3>1. m = q \/ m < q \/ q < m
        BY <1>2
    <3>2. q < m => q * a + a <= m * a
        BY Zenon, <1>2, NextMultiple
    <3>3. m * a \in Nat
        OBVIOUS
    <3> QED BY <3>1, <3>2, <3>3, <1>4
  <2>2. m * a + a <= q * a
      BY Zenon, <2>1, <1>2, NextMultiple
  <2>3. m * a \in Nat
      OBVIOUS
  <2> QED BY ONLY <2>2, <2>3, <1>2, <1>3, <1>4, <1>5, n \in Nat, a \in Nat \ {0}
<1>6. n <= q * a /\ q * a <= n + a - 1
    BY ONLY <1>2, <1>3, <1>4, n \in Nat, a \in Nat \ {0}
<1> QED BY ONLY Zenon, <1>2, <1>3, <1>4, <1>5, <1>6

LEMMA RoundedByOne == ASSUME NEW n \in Nat PROVE RoundUp(n, 1) = n
BY DEF RoundUp

\* What moves by a multiple of the alignment is padded by no more than before.
LEMMA Shifted ==
    ASSUME NEW u \in Nat, NEW v \in Nat, NEW k \in Nat, v <= u + k * Align
    PROVE  RoundUp(v, Align) <= RoundUp(u, Align) + k * Align
<1>1. PICK q \in Nat : RoundUp(u, Align) = q * Align
    BY Zenon, Positive, Rounded
<1>2. u <= q * Align
    BY Zenon, <1>1, Positive, Rounded
<1>3. (q + k) * Align = q * Align + k * Align /\ q + k \in Nat
    BY Positive
<1>4. k * Align \in Nat /\ q * Align \in Nat
    BY Positive
<1>5. v <= (q + k) * Align
    BY ONLY <1>2, <1>3, <1>4, u \in Nat, v \in Nat, v <= u + k * Align
<1>6. RoundUp(v, Align) <= (q + k) * Align
    BY Zenon, <1>3, <1>5, Positive, Rounded
<1> QED BY ONLY Zenon, <1>1, <1>3, <1>6

\* A multiple of the alignment not far above n.
LEMMA Multiple ==
    ASSUME NEW n \in Nat
    PROVE  \E k \in Nat : n <= k * Align /\ k * Align <= n + Align - 1
<1>1. PICK q \in Nat : RoundUp(n, Align) = q * Align
    BY Zenon, Positive, Rounded
<1>2. n <= RoundUp(n, Align) /\ RoundUp(n, Align) <= n + Align - 1
    BY Zenon, Positive, Rounded
<1> QED BY Zenon, <1>1, <1>2

-----------------------------------------------------------------------------
(***************************************************************************)
(* Where an arena of unlimited size would end.                             *)
(***************************************************************************)
ArenaType == [used : Nat, ok : BOOLEAN]

\* The arena a after allocations that need end bytes: they were made if end is
\* within the capacity.
Result(cap, end, a) ==
    /\ a \in ArenaType /\ a.used <= cap
    /\ a.ok <=> end <= cap
    /\ a.ok => a.used = end

LEMMA NewArena == ASSUME NEW cap \in Nat, NEW u \in Nat, u <= cap PROVE Result(cap, u, Arena(u))
BY Zenon DEF Result, Arena, ArenaType

LEMMA AllocResult ==
    ASSUME NEW cap \in Nat, NEW e \in Nat, NEW a, NEW size \in Nat, NEW align \in Nat \ {0},
           Result(cap, e, a)
    PROVE  Result(cap, RoundUp(e, align) + size, Alloc(cap, a, size, align))
<1>1. RoundUp(e, align) \in Nat /\ e <= RoundUp(e, align)
    BY Zenon, Rounded
<1>2. CASE ~a.ok
  <2>1. Alloc(cap, a, size, align) = [a EXCEPT !.ok = FALSE]
      BY Zenon, <1>2 DEF Alloc
  <2>2. ~(RoundUp(e, align) + size <= cap)
      BY ONLY <1>1, <1>2, Result(cap, e, a), cap \in Nat, e \in Nat, size \in Nat DEF Result
  <2> QED BY Zenon, <2>1, <2>2 DEF Result, ArenaType
<1>3. CASE a.ok
  <2>1. a.used = e
      BY Zenon, <1>3 DEF Result
  <2> DEFINE end == RoundUp(e, align) + size
  <2>2. end \in Nat
      BY <1>1
  <2>3. CASE end > cap
    <3>1. Alloc(cap, a, size, align) = [a EXCEPT !.ok = FALSE] /\ ~(end <= cap)
        BY <2>1, <2>2, <2>3, <1>3 DEF Alloc
    <3> HIDE DEF end
    <3>2. Result(cap, end, Alloc(cap, a, size, align))
        BY Zenon, <3>1 DEF Result, ArenaType
    <3> QED BY Zenon, <3>2 DEF end
  <2>4. CASE end <= cap
    <3>1. Alloc(cap, a, size, align) = [a EXCEPT !.used = end]
        BY <2>1, <2>2, <2>4, <1>3 DEF Alloc
    <3> HIDE DEF end
    <3>2. Result(cap, end, Alloc(cap, a, size, align))
        BY Zenon, <3>1, <2>2, <2>4, <1>3 DEF Result, ArenaType
    <3> QED BY Zenon, <3>2 DEF end
  <2> HIDE DEF end
  <2>5. end > cap \/ end <= cap
      BY <2>2
  <2> QED BY Zenon, <2>3, <2>4, <2>5
<1> QED BY Zenon, <1>2, <1>3

TextEnd(u, len) == IF len = 0 THEN u ELSE u + len + 1

LEMMA TextResult ==
    ASSUME NEW cap \in Nat, NEW e \in Nat, NEW a, NEW len \in Nat, Result(cap, e, a)
    PROVE  Result(cap, TextEnd(e, len), CopyText(cap, a, len))
<1>1. Result(cap, RoundUp(e, 1) + (len + 1), Alloc(cap, a, len + 1, 1))
  <2>1. len + 1 \in Nat /\ 1 \in Nat \ {0}
      OBVIOUS
  <2> QED BY Zenon, <2>1, AllocResult
<1>2. RoundUp(e, 1) + (len + 1) = e + len + 1
  <2>1. RoundUp(e, 1) = e
      BY Zenon, RoundedByOne
  <2> QED BY <2>1
<1> QED BY Zenon, <1>1, <1>2 DEF TextEnd, CopyText

\* The recursive function of CopyList exists.
Item(cap, a, l, f, n) ==
    IF n = 0 THEN Alloc(cap, a, Len(l) * ItemSize, Align) ELSE CopyText(cap, f[n - 1], l[n])
Items(cap, a, l, f, m) == f = [n \in 0..m |-> Item(cap, a, l, f, n)]
Copied(cap, a, l) == CHOOSE f : Items(cap, a, l, f, Len(l))

LEMMA ItemsExist ==
    ASSUME NEW cap, NEW a, NEW l, NEW m \in Nat
    PROVE  \E f : Items(cap, a, l, f, m)
<1> DEFINE S == {n \in Nat : ~ \E f : Items(cap, a, l, f, n)}
<1> SUFFICES ASSUME S # {} PROVE FALSE
    BY Zenon
<1>1. PICK n \in S : \A i \in S : n <= i
  <2>1. S \subseteq Nat
      BY Zenon
  <2> QED BY Zenon, <2>1, LeastNumber
<1>2. n \in Nat /\ ~ \E f : Items(cap, a, l, f, n)
    BY Zenon
<1>3. n # 0
  <2>1. SUFFICES ASSUME n = 0 PROVE FALSE
      BY Zenon
  <2> DEFINE f == [i \in 0..0 |-> Alloc(cap, a, Len(l) * ItemSize, Align)]
  <2>2. f = [i \in 0..0 |-> Item(cap, a, l, f, i)]
      BY DEF Item
  <2> QED BY Zenon, <1>2, <2>1, <2>2 DEF Items
<1>4. n - 1 \in Nat /\ n - 1 \notin S
    BY <1>1, <1>2, <1>3
<1>5. PICK f : Items(cap, a, l, f, n - 1)
    BY Zenon, <1>4
<1> DEFINE g == [i \in 0..n |-> IF i < n THEN f[i] ELSE Item(cap, a, l, f, n)]
<1>6. \A i \in 0..n : g[i] = Item(cap, a, l, g, i)
  <2> TAKE i \in 0..n
  <2>1. CASE i < n
    <3>1. i \in 0..(n - 1) /\ g[i] = f[i]
        BY <2>1, <1>2
    <3>2. f[i] = Item(cap, a, l, f, i)
        BY Zenon, <3>1, <1>5 DEF Items
    <3>3. i # 0 => g[i - 1] = f[i - 1]
        BY <3>1, <1>2
    <3> QED BY Zenon, <3>1, <3>2, <3>3 DEF Item
  <2>2. CASE i = n
    <3>1. g[i] = Item(cap, a, l, f, n)
        BY <2>2
    <3>2. g[n - 1] = f[n - 1]
        BY <1>2, <1>3
    <3> QED BY Zenon, <3>1, <3>2, <2>2, <1>3 DEF Item
  <2> QED BY <2>1, <2>2, <1>2
<1>7. g = [i \in 0..n |-> Item(cap, a, l, g, i)]
    BY ONLY Zenon, <1>6
<1> HIDE DEF g
<1> QED BY Zenon, <1>2, <1>7 DEF Items

LEMMA CopiedIs ==
    ASSUME NEW cap, NEW a, NEW l, Len(l) \in Nat
    PROVE  /\ \A n \in 0..Len(l) : Copied(cap, a, l)[n] = Item(cap, a, l, Copied(cap, a, l), n)
           /\ l # <<>> => CopyList(cap, a, l) = Copied(cap, a, l)[Len(l)]
<1>1. Items(cap, a, l, Copied(cap, a, l), Len(l))
    BY Zenon, ItemsExist DEF Copied
<1>2. l # <<>> => CopyList(cap, a, l) = Copied(cap, a, l)[Len(l)]
    BY Zenon DEF CopyList, Copied, Items, Item
<1> QED BY Zenon, <1>1, <1>2 DEF Items

LEMMA ListTyped ==
    ASSUME NEW l \in Lists
    PROVE  Len(l) \in Nat /\ \A n \in 1..Len(l) : l[n] \in Nat
<1>1. PICK m \in 0..MaxItems : l \in [1..m -> 1..MaxText]
    BY Zenon DEF Lists
<1>2. l \in Seq(1..MaxText) /\ Len(l) = m
    BY <1>1, Positive
<1> QED BY <1>1, <1>2, Positive

\* A list needs the padding of its array and a number of bytes of its own.
Takes(l, K, n) ==
    \A cap \in Nat, e \in Nat, a \in ArenaType :
        Result(cap, e, a) => Result(cap, RoundUp(e, Align) + K, Copied(cap, a, l)[n])

LEMMA ListTakes == ASSUME NEW l \in Lists PROVE \E K \in Nat : Takes(l, K, Len(l))
<1>1. Len(l) \in Nat /\ \A n \in 1..Len(l) : l[n] \in Nat
    BY Zenon, ListTyped
<1> DEFINE S == {n \in 0..Len(l) : ~ \E K \in Nat : Takes(l, K, n)}
<1>2. ASSUME S # {} PROVE FALSE
  <2>1. PICK n \in S : \A i \in S : n <= i
    <3>1. S \subseteq Nat
        BY <1>1
    <3> QED BY Zenon, <1>2, <3>1, LeastNumber
  <2>2. n \in 0..Len(l) /\ ~ \E K \in Nat : Takes(l, K, n)
      BY Zenon
  <2>3. n # 0
    <3>1. SUFFICES ASSUME n = 0 PROVE FALSE
        BY Zenon
    <3>2. Len(l) * ItemSize \in Nat
        BY <1>1, Positive
    <3>3. ASSUME NEW cap \in Nat, NEW e \in Nat, NEW a \in ArenaType, Result(cap, e, a)
          PROVE  Result(cap, RoundUp(e, Align) + Len(l) * ItemSize, Copied(cap, a, l)[n])
      <4>1. Copied(cap, a, l)[n] = Alloc(cap, a, Len(l) * ItemSize, Align)
          BY Zenon, <1>1, <2>2, <3>1, CopiedIs DEF Item
      <4> QED BY ZenonT(30), <4>1, <3>2, <3>3, Positive, AllocResult
    <3> QED BY Zenon, <2>2, <3>2, <3>3 DEF Takes
  <2>4. n - 1 \in 0..Len(l) /\ n - 1 \notin S /\ l[n] \in Nat
      BY <1>1, <2>1, <2>2, <2>3
  <2>5. PICK K \in Nat : Takes(l, K, n - 1)
      BY Zenon, <2>4
  <2>6. TextEnd(K, l[n]) \in Nat
      BY <2>4 DEF TextEnd
  <2>7. ASSUME NEW cap \in Nat, NEW e \in Nat, NEW a \in ArenaType, Result(cap, e, a)
        PROVE  Result(cap, RoundUp(e, Align) + TextEnd(K, l[n]), Copied(cap, a, l)[n])
    <3>1. Copied(cap, a, l)[n] = CopyText(cap, Copied(cap, a, l)[n - 1], l[n])
      <4>1. Copied(cap, a, l)[n] = Item(cap, a, l, Copied(cap, a, l), n)
          BY Zenon, <1>1, <2>2, CopiedIs
      <4> QED BY ONLY Zenon, <4>1, <2>3 DEF Item
    <3>2. Result(cap, RoundUp(e, Align) + K, Copied(cap, a, l)[n - 1])
        BY Zenon, <2>5, <2>7 DEF Takes
    <3>3. RoundUp(e, Align) \in Nat
        BY Zenon, Rounded, Positive
    <3>4. /\ RoundUp(e, Align) + K \in Nat
          /\ TextEnd(RoundUp(e, Align) + K, l[n]) = RoundUp(e, Align) + TextEnd(K, l[n])
        BY <3>3, <2>4 DEF TextEnd
    <3> QED BY Zenon, <3>1, <3>2, <3>4, <2>4, TextResult
  <2> QED BY Zenon, <2>2, <2>6, <2>7 DEF Takes
<1>3. Len(l) \in 0..Len(l)
    BY <1>1
<1> QED BY Zenon, <1>2, <1>3

Bytes(l) == CHOOSE K \in Nat : Takes(l, K, Len(l))
ListEnd(u, l) == IF l = <<>> THEN u ELSE RoundUp(u, Align) + Bytes(l)
RecordEnd(u, r) == ListEnd(TextEnd(TextEnd(u, r.title), r.text), r.list)
GrowEnd(u, n, slots) == IF n < slots THEN u ELSE RoundUp(u, Align) + 2 * slots * SlotSize

LEMMA BytesNat == ASSUME NEW l \in Lists PROVE Bytes(l) \in Nat /\ Takes(l, Bytes(l), Len(l))
BY Zenon, ListTakes DEF Bytes

LEMMA ListResult ==
    ASSUME NEW cap \in Nat, NEW e \in Nat, NEW a, NEW l \in Lists, Result(cap, e, a)
    PROVE  Result(cap, ListEnd(e, l), CopyList(cap, a, l))
<1>1. CASE l = <<>>
    BY Zenon, <1>1 DEF ListEnd, CopyList
<1>2. CASE l # <<>>
  <2>1. a \in ArenaType /\ Len(l) \in Nat
      BY Zenon, ListTyped DEF Result
  <2>2. Result(cap, RoundUp(e, Align) + Bytes(l), Copied(cap, a, l)[Len(l)])
      BY Zenon, <2>1, BytesNat DEF Takes
  <2> QED BY Zenon, <1>2, <2>1, <2>2, CopiedIs DEF ListEnd
<1> QED BY Zenon, <1>1, <1>2

LEMMA TextEndNat ==
    ASSUME NEW u \in Nat, NEW len \in Nat
    PROVE  TextEnd(u, len) \in Nat /\ u <= TextEnd(u, len)
BY DEF TextEnd

LEMMA ListEndNat ==
    ASSUME NEW u \in Nat, NEW l \in Lists
    PROVE  ListEnd(u, l) \in Nat /\ u <= ListEnd(u, l)
<1>1. RoundUp(u, Align) \in Nat /\ u <= RoundUp(u, Align)
    BY Zenon, Rounded, Positive
<1>2. Bytes(l) \in Nat
    BY Zenon, BytesNat
<1> QED BY <1>1, <1>2 DEF ListEnd

LEMMA RecordTyped ==
    ASSUME NEW r \in Record
    PROVE  r.title \in Nat /\ r.text \in Nat /\ r.list \in Lists
<1>1. r.title \in 1..MaxText /\ r.text \in 0..MaxText /\ r.list \in Lists
    BY Zenon DEF Record
<1> QED BY <1>1, Positive

LEMMA RecordEndNat ==
    ASSUME NEW u \in Nat, NEW r \in Record
    PROVE  RecordEnd(u, r) \in Nat /\ u <= RecordEnd(u, r)
<1>1. r.title \in Nat /\ r.text \in Nat /\ r.list \in Lists
    BY Zenon, RecordTyped
<1> DEFINE v == TextEnd(u, r.title)
           w == TextEnd(v, r.text)
<1>2. v \in Nat /\ u <= v
    BY Zenon, <1>1, TextEndNat
<1> HIDE DEF v
<1>3. w \in Nat /\ v <= w
    BY Zenon, <1>1, <1>2, TextEndNat
<1> HIDE DEF w
<1>4. ListEnd(w, r.list) \in Nat /\ w <= ListEnd(w, r.list)
    BY Zenon, <1>1, <1>3, ListEndNat
<1>5. RecordEnd(u, r) = ListEnd(w, r.list)
    BY Zenon DEF RecordEnd, v, w
<1> QED BY <1>2, <1>3, <1>4, <1>5

LEMMA RecordResult ==
    ASSUME NEW cap \in Nat, NEW e \in Nat, NEW a, NEW r \in Record, Result(cap, e, a)
    PROVE  Result(cap, RecordEnd(e, r), CopyRecord(cap, a, r))
<1>1. r.title \in Nat /\ r.text \in Nat /\ r.list \in Lists
    BY Zenon, RecordTyped
<1> DEFINE v == TextEnd(e, r.title)
           w == TextEnd(v, r.text)
<1>2. v \in Nat /\ w \in Nat
    BY Zenon, <1>1, TextEndNat
<1>3. Result(cap, v, CopyText(cap, a, r.title))
    BY Zenon, <1>1, TextResult
<1>4. Result(cap, w, CopyText(cap, CopyText(cap, a, r.title), r.text))
    BY Zenon, <1>1, <1>2, <1>3, TextResult
<1>5. Result(cap, ListEnd(w, r.list), CopyRecord(cap, a, r))
    BY Zenon, <1>1, <1>2, <1>4, ListResult DEF CopyRecord
<1> QED BY Zenon, <1>5 DEF RecordEnd

\* If everything before moves by at most a multiple of the alignment, so does the end.
LEMMA TextShift ==
    ASSUME NEW u \in Nat, NEW v \in Nat, NEW d \in Nat, NEW len \in Nat, v <= u + d
    PROVE  TextEnd(v, len) <= TextEnd(u, len) + d
BY DEF TextEnd

LEMMA ListShift ==
    ASSUME NEW u \in Nat, NEW v \in Nat, NEW k \in Nat, NEW l \in Lists, v <= u + k * Align
    PROVE  ListEnd(v, l) <= ListEnd(u, l) + k * Align
<1>1. RoundUp(u, Align) \in Nat /\ RoundUp(v, Align) \in Nat /\ Bytes(l) \in Nat
    BY Zenon, Rounded, BytesNat, Positive
<1>2. RoundUp(v, Align) <= RoundUp(u, Align) + k * Align
    BY Zenon, Shifted
<1>3. k * Align \in Nat
    BY Positive
<1> QED BY <1>1, <1>2, <1>3 DEF ListEnd

LEMMA RecordShift ==
    ASSUME NEW u \in Nat, NEW v \in Nat, NEW k \in Nat, NEW r \in Record, v <= u + k * Align
    PROVE  RecordEnd(v, r) <= RecordEnd(u, r) + k * Align
<1>1. r.title \in Nat /\ r.text \in Nat /\ r.list \in Lists /\ k * Align \in Nat
    BY RecordTyped, Positive
<1>2. /\ TextEnd(v, r.title) \in Nat /\ TextEnd(u, r.title) \in Nat
      /\ TextEnd(v, r.title) <= TextEnd(u, r.title) + k * Align
    BY Zenon, <1>1, TextEndNat, TextShift
<1>3. /\ TextEnd(TextEnd(v, r.title), r.text) \in Nat
      /\ TextEnd(TextEnd(u, r.title), r.text) \in Nat
      /\ TextEnd(TextEnd(v, r.title), r.text) <= TextEnd(TextEnd(u, r.title), r.text) + k * Align
    BY Zenon, <1>1, <1>2, TextEndNat, TextShift
<1> QED BY Zenon, <1>1, <1>3, ListShift DEF RecordEnd

LEMMA GrowShift ==
    ASSUME NEW u \in Nat, NEW v \in Nat, NEW k \in Nat, NEW n \in Nat, NEW s \in Nat,
           v <= u + k * Align
    PROVE  /\ GrowEnd(u, n, s) \in Nat /\ u <= GrowEnd(u, n, s)
           /\ GrowEnd(v, n, s) \in Nat
           /\ GrowEnd(v, n, s) <= GrowEnd(u, n, s) + k * Align
<1>1. RoundUp(u, Align) \in Nat /\ RoundUp(v, Align) \in Nat /\ u <= RoundUp(u, Align)
    BY Zenon, Rounded, Positive
<1>2. RoundUp(v, Align) <= RoundUp(u, Align) + k * Align
    BY Zenon, Shifted
<1>3. k * Align \in Nat /\ 2 * s * SlotSize \in Nat
    BY Positive
<1> QED BY <1>1, <1>2, <1>3 DEF GrowEnd

-----------------------------------------------------------------------------
(***************************************************************************)
(* pv_model_add_record.                                                    *)
(***************************************************************************)
VaultType == [records : Seq(Record), slots : Nat, readonly : BOOLEAN, used : Nat]
Sound(cap, v) ==
    v \in VaultType /\ v.used <= cap /\ Len(v.records) <= v.slots /\ v.slots # 0

AddEnd(v, r) == RecordEnd(GrowEnd(v.used, Len(v.records), v.slots), r)
NextSlots(n, slots) == IF n < slots THEN slots ELSE 2 * slots

LEMMA SoundParts ==
    ASSUME NEW cap \in Nat, NEW v, Sound(cap, v)
    PROVE  /\ v.records \in Seq(Record) /\ v.slots \in Nat \ {0} /\ v.readonly \in BOOLEAN
           /\ v.used \in Nat /\ v.used <= cap /\ Len(v.records) \in Nat
           /\ Len(v.records) <= v.slots
<1>1. v.records \in Seq(Record) /\ v.slots \in Nat /\ v.readonly \in BOOLEAN /\ v.used \in Nat
    BY Zenon DEF Sound, VaultType
<1>2. Len(v.records) \in Nat
    BY <1>1
<1> QED BY Zenon, <1>1, <1>2 DEF Sound

LEMMA GrowResult ==
    ASSUME NEW cap \in Nat, NEW v, Sound(cap, v)
    PROVE  /\ GrowEnd(v.used, Len(v.records), v.slots) \in Nat
           /\ v.used <= GrowEnd(v.used, Len(v.records), v.slots)
           /\ Result(cap, GrowEnd(v.used, Len(v.records), v.slots), Grow(cap, v))
<1>1. v.slots \in Nat /\ v.used \in Nat /\ v.used <= cap /\ Len(v.records) \in Nat
    BY Zenon, SoundParts
<1>2. /\ GrowEnd(v.used, Len(v.records), v.slots) \in Nat
      /\ v.used <= GrowEnd(v.used, Len(v.records), v.slots)
  <2>1. v.used <= v.used + 0 * Align
      BY <1>1, Positive
  <2>2. 0 \in Nat
      BY Zenon
  <2> QED BY Zenon, <1>1, <2>1, <2>2, GrowShift
<1>3. Result(cap, v.used, Arena(v.used))
    BY Zenon, <1>1, NewArena
<1>4. 2 * v.slots * SlotSize \in Nat
    BY <1>1, Positive
<1>5. Result(cap, RoundUp(v.used, Align) + 2 * v.slots * SlotSize,
             Alloc(cap, Arena(v.used), 2 * v.slots * SlotSize, Align))
    BY Zenon, <1>1, <1>3, <1>4, Positive, AllocResult
<1> QED BY Zenon, <1>2, <1>3, <1>5 DEF Grow, GrowEnd, Slots

LEMMA AddEndNat ==
    ASSUME NEW cap \in Nat, NEW v, Sound(cap, v), NEW r \in Record
    PROVE  AddEnd(v, r) \in Nat /\ v.used <= AddEnd(v, r)
<1> DEFINE g == GrowEnd(v.used, Len(v.records), v.slots)
<1>1. g \in Nat /\ v.used <= g
    BY Zenon, GrowResult
<1> HIDE DEF g
<1>2. RecordEnd(g, r) \in Nat /\ g <= RecordEnd(g, r)
    BY Zenon, <1>1, RecordEndNat
<1>3. v.used \in Nat
    BY Zenon, SoundParts
<1>4. AddEnd(v, r) = RecordEnd(g, r)
    BY Zenon DEF AddEnd, g
<1> QED BY <1>1, <1>2, <1>3, <1>4

Shaped(x) == x = [vault |-> x.vault, status |-> x.status]

\* A record is added if it is valid, new and fits; otherwise the records stay.
Added(cap, v, r, x) ==
    /\ Shaped(x)
    /\ Sound(cap, x.vault)
    /\ x.status \in {"OK", "LIMIT", "FORMAT", "EXISTS"}
    /\ x.status = "OK" <=> r.utf8 /\ ~FindId(v, r.id) /\ AddEnd(v, r) <= cap
    /\ x.status = "OK" =>
          /\ x.vault.records = Append(v.records, r) /\ x.vault.used = AddEnd(v, r)
          /\ x.vault.slots = NextSlots(Len(v.records), v.slots)
    /\ x.status # "OK" => x.vault.records = v.records

LEMMA AddResult ==
    ASSUME NEW cap \in Nat, NEW v, Sound(cap, v), NEW r \in Record
    PROVE  Added(cap, v, r, AddRecord(cap, v, r))
<1> DEFINE x == AddRecord(cap, v, r)
           grown == Grow(cap, v)
           end == GrowEnd(v.used, Len(v.records), v.slots)
           all == CopyRecord(cap, grown, r)
           slots == IF Len(v.records) < v.slots \/ ~grown.ok THEN v.slots ELSE 2 * v.slots
           w == [v EXCEPT !.readonly = FALSE, !.used = grown.used, !.slots = slots]
           done == [w EXCEPT !.used = all.used,
                             !.records = IF all.ok THEN Append(v.records, r) ELSE v.records]
<1>1. /\ v.records \in Seq(Record) /\ v.slots \in Nat \ {0} /\ v.used \in Nat
      /\ v.used <= cap /\ Len(v.records) \in Nat /\ Len(v.records) <= v.slots
      /\ v \in VaultType /\ r.utf8 \in BOOLEAN
    BY Zenon, SoundParts DEF Sound, Record
<1>2. end \in Nat /\ Result(cap, end, grown)
    BY Zenon, GrowResult
<1>3. Result(cap, AddEnd(v, r), all)
  <2>1. AddEnd(v, r) = RecordEnd(end, r)
      BY Zenon DEF AddEnd
  <2> QED BY Zenon, <2>1, <1>2, RecordResult
<1>4. AddEnd(v, r) \in Nat /\ end <= AddEnd(v, r)
  <2>1. AddEnd(v, r) = RecordEnd(end, r)
      BY Zenon DEF AddEnd
  <2> QED BY Zenon, <2>1, <1>2, RecordEndNat
<1>5. /\ ~r.utf8 => x = [vault |-> v, status |-> "FORMAT"]
      /\ r.utf8 /\ ~grown.ok => x = [vault |-> w, status |-> "LIMIT"]
      /\ r.utf8 /\ grown.ok /\ FindId(v, r.id) => x = [vault |-> w, status |-> "EXISTS"]
      /\ r.utf8 /\ grown.ok /\ ~FindId(v, r.id) =>
            x = [vault |-> done, status |-> IF all.ok THEN "OK" ELSE "LIMIT"]
    BY Zenon, <1>1 DEF AddRecord, VaultType
<1>6. grown.used \in Nat /\ grown.used <= cap /\ grown.ok \in BOOLEAN
    BY Zenon, <1>2 DEF Result, ArenaType
<1>7. all.used \in Nat /\ all.used <= cap /\ all.ok \in BOOLEAN
    BY Zenon, <1>3 DEF Result, ArenaType
<1>8. all.ok => grown.ok /\ all.used = AddEnd(v, r)
  <2>1. AddEnd(v, r) <= cap => end <= cap
      BY <1>2, <1>4
  <2> QED BY Zenon, <2>1, <1>2, <1>3 DEF Result
<1>9. all.ok <=> AddEnd(v, r) <= cap
    BY Zenon, <1>3 DEF Result
<1> HIDE DEF x, grown, end, all
<1>10. slots \in Nat \ {0} /\ Len(v.records) <= slots
    BY <1>1
<1>11. grown.ok => slots = NextSlots(Len(v.records), v.slots) /\ Len(v.records) + 1 <= slots
    BY <1>1 DEF NextSlots
<1> HIDE DEF slots
<1>12. w = [records |-> v.records, slots |-> slots, readonly |-> FALSE, used |-> grown.used]
  <2>1. w \in [records : Seq(Record), slots : Nat, readonly : BOOLEAN, used : Nat]
      BY Zenon, <1>1, <1>6, <1>10 DEF VaultType
  <2>2. /\ w.records = v.records /\ w.slots = slots /\ w.readonly = FALSE
        /\ w.used = grown.used
      BY Zenon, <1>1 DEF VaultType
  <2> HIDE DEF w
  <2> QED BY Zenon, <2>1, <2>2
<1>13. done = [records |-> IF all.ok THEN Append(v.records, r) ELSE v.records,
               slots |-> slots, readonly |-> FALSE, used |-> all.used]
  <2> DEFINE recs == IF all.ok THEN Append(v.records, r) ELSE v.records
  <2>1. recs \in Seq(Record)
      BY <1>1
  <2>2. w \in VaultType /\ w.slots = slots /\ w.readonly = FALSE
      BY Zenon, <1>1, <1>6, <1>10, <1>12 DEF VaultType
  <2> HIDE DEF recs, w
  <2>3. [w EXCEPT !.used = all.used, !.records = recs] \in VaultType
      BY Zenon, <2>1, <2>2, <1>7 DEF VaultType
  <2>4. PICK d : d = [w EXCEPT !.used = all.used, !.records = recs]
      BY Zenon
  <2>5. d.records = recs /\ d.slots = slots /\ d.readonly = FALSE /\ d.used = all.used
      BY Zenon, <2>2, <2>4 DEF VaultType
  <2>6. d = [records |-> recs, slots |-> slots, readonly |-> FALSE, used |-> all.used]
      BY Zenon, <2>3, <2>4, <2>5 DEF VaultType
  <2> QED BY Zenon, <2>4, <2>6 DEF recs
<1>14. Sound(cap, w)
    BY Zenon, <1>1, <1>6, <1>10, <1>12 DEF Sound, VaultType
<1>15. grown.ok => Sound(cap, done)
  <2>1. Append(v.records, r) \in Seq(Record) /\ Len(Append(v.records, r)) = Len(v.records) + 1
      BY <1>1
  <2> QED BY Zenon, <2>1, <1>1, <1>7, <1>10, <1>11, <1>13 DEF Sound, VaultType
<1> HIDE DEF w, done
<1> SUFFICES Added(cap, v, r, x)
    BY Zenon DEF x
<1>16. CASE ~r.utf8
  <2>1. x = [vault |-> v, status |-> "FORMAT"]
      BY Zenon, <1>16, <1>5
  <2> QED BY Zenon, <2>1, <1>16 DEF Added, Shaped
<1>17. CASE r.utf8 /\ ~grown.ok
  <2>1. x = [vault |-> w, status |-> "LIMIT"] /\ w.records = v.records
      BY Zenon, <1>17, <1>5, <1>12
  <2> QED BY Zenon, <2>1, <1>17, <1>8, <1>9, <1>14 DEF Added, Shaped
<1>18. CASE r.utf8 /\ grown.ok /\ FindId(v, r.id)
  <2>1. x = [vault |-> w, status |-> "EXISTS"] /\ w.records = v.records
      BY Zenon, <1>18, <1>5, <1>12
  <2> QED BY Zenon, <2>1, <1>18, <1>14 DEF Added, Shaped
<1>19. CASE r.utf8 /\ grown.ok /\ ~FindId(v, r.id)
  <2>1. x = [vault |-> done, status |-> IF all.ok THEN "OK" ELSE "LIMIT"]
      BY Zenon, <1>19, <1>5
  <2>2. CASE all.ok
    <3>1. x = [vault |-> done, status |-> "OK"]
        BY Zenon, <2>1, <2>2
    <3>2. /\ done.records = Append(v.records, r) /\ done.used = AddEnd(v, r)
          /\ done.slots = NextSlots(Len(v.records), v.slots)
        BY Zenon, <2>2, <1>8, <1>11, <1>13
    <3> QED BY Zenon, <3>1, <3>2, <2>2, <1>19, <1>9, <1>15 DEF Added, Shaped
  <2>3. CASE ~all.ok
    <3>1. x = [vault |-> done, status |-> "LIMIT"] /\ done.records = v.records
        BY Zenon, <2>1, <2>3, <1>13
    <3> QED BY Zenon, <3>1, <2>3, <1>19, <1>9, <1>15 DEF Added, Shaped
  <2> QED BY Zenon, <2>2, <2>3
<1> QED BY Zenon, <1>1, <1>6, <1>16, <1>17, <1>18, <1>19

-----------------------------------------------------------------------------
(***************************************************************************)
(* The decoder: Load.                                                      *)
(***************************************************************************)
LoadStep(cap, recs, f, n) ==
    IF n = 0 THEN [vault |-> EmptyVault(cap), status |-> "OK"]
    ELSE IF f[n - 1].status = "OK" THEN AddRecord(cap, f[n - 1].vault, recs[n]) ELSE f[n - 1]
LoadSteps(cap, recs, f, m) == f = [n \in 0..m |-> LoadStep(cap, recs, f, n)]
Loaded(cap, recs) == CHOOSE f : LoadSteps(cap, recs, f, Len(recs))

LEMMA LoadStepsExist ==
    ASSUME NEW cap, NEW recs, NEW m \in Nat
    PROVE  \E f : LoadSteps(cap, recs, f, m)
<1> DEFINE S == {n \in Nat : ~ \E f : LoadSteps(cap, recs, f, n)}
<1> SUFFICES ASSUME S # {} PROVE FALSE
    BY Zenon
<1>1. PICK n \in S : \A i \in S : n <= i
  <2>1. S \subseteq Nat
      BY Zenon
  <2> QED BY Zenon, <2>1, LeastNumber
<1>2. n \in Nat /\ ~ \E f : LoadSteps(cap, recs, f, n)
    BY Zenon
<1>3. n # 0
  <2>1. SUFFICES ASSUME n = 0 PROVE FALSE
      BY Zenon
  <2> DEFINE f == [i \in 0..0 |-> [vault |-> EmptyVault(cap), status |-> "OK"]]
  <2>2. f = [i \in 0..0 |-> LoadStep(cap, recs, f, i)]
      BY DEF LoadStep
  <2> QED BY Zenon, <1>2, <2>1, <2>2 DEF LoadSteps
<1>4. n - 1 \in Nat /\ n - 1 \notin S
    BY <1>1, <1>2, <1>3
<1>5. PICK f : LoadSteps(cap, recs, f, n - 1)
    BY Zenon, <1>4
<1> DEFINE g == [i \in 0..n |-> IF i < n THEN f[i] ELSE LoadStep(cap, recs, f, n)]
<1>6. \A i \in 0..n : g[i] = LoadStep(cap, recs, g, i)
  <2> TAKE i \in 0..n
  <2>1. CASE i < n
    <3>1. i \in 0..(n - 1) /\ g[i] = f[i]
        BY <2>1, <1>2
    <3>2. f[i] = LoadStep(cap, recs, f, i)
        BY Zenon, <3>1, <1>5 DEF LoadSteps
    <3>3. i # 0 => g[i - 1] = f[i - 1]
        BY <3>1, <1>2
    <3> QED BY Zenon, <3>1, <3>2, <3>3 DEF LoadStep
  <2>2. CASE i = n
    <3>1. g[i] = LoadStep(cap, recs, f, n)
        BY <2>2
    <3>2. g[n - 1] = f[n - 1]
        BY <1>2, <1>3
    <3> QED BY Zenon, <3>1, <3>2, <2>2, <1>3 DEF LoadStep
  <2> QED BY <2>1, <2>2, <1>2
<1>7. g = [i \in 0..n |-> LoadStep(cap, recs, g, i)]
    BY ONLY Zenon, <1>6
<1> HIDE DEF g
<1> QED BY Zenon, <1>2, <1>7 DEF LoadSteps

LEMMA LoadedIs ==
    ASSUME NEW cap, NEW recs, Len(recs) \in Nat, NEW n \in 0..Len(recs)
    PROVE  Loaded(cap, recs)[n] = LoadStep(cap, recs, Loaded(cap, recs), n)
<1>1. LoadSteps(cap, recs, Loaded(cap, recs), Len(recs))
    BY Zenon, LoadStepsExist DEF Loaded
<1> QED BY Zenon, <1>1 DEF LoadSteps

LEMMA LoadIs ==
    ASSUME NEW cap, NEW recs
    PROVE  LET end == Loaded(cap, recs)[Len(recs)] IN
           Load(cap, recs) = [end EXCEPT !.vault.readonly = (end.status = "OK")]
BY Zenon DEF Load, Loaded, LoadSteps, LoadStep

LEMMA EmptyVaultIs ==
    ASSUME NEW cap \in Nat
    PROVE  /\ Sound(cap, EmptyVault(cap))
           /\ EmptyVault(cap).records = <<>> /\ EmptyVault(cap).slots = InitialSlots
           /\ InitialSlots * SlotSize <= cap => EmptyVault(cap).used = InitialSlots * SlotSize
           /\ EmptyVault(cap).used <= InitialSlots * SlotSize
<1> DEFINE a == Slots(cap, Arena(0), InitialSlots)
<1>1. InitialSlots * SlotSize \in Nat
    BY Positive
<1>2. Result(cap, 0, Arena(0))
  <2>1. 0 \in Nat /\ 0 <= cap
      OBVIOUS
  <2> QED BY Zenon, <2>1, NewArena
<1>3. RoundUp(0, Align) = 0
  <2>1. 0 \in Nat /\ 0 <= 0 * Align /\ 0 * Align = 0
      BY Positive
  <2>2. RoundUp(0, Align) \in Nat /\ RoundUp(0, Align) <= 0 * Align
      BY Zenon, <2>1, Positive, Rounded
  <2> QED BY <2>1, <2>2
<1>4. Result(cap, RoundUp(0, Align) + InitialSlots * SlotSize, a)
  <2>1. 0 \in Nat
      BY Zenon
  <2> QED BY Zenon, <2>1, <1>1, <1>2, Positive, AllocResult DEF Slots
<1>5. RoundUp(0, Align) + InitialSlots * SlotSize = InitialSlots * SlotSize
    BY <1>1, <1>3
<1>6. a.used \in Nat /\ a.used <= cap /\ (InitialSlots * SlotSize <= cap => a.used = InitialSlots * SlotSize)
    BY Zenon, <1>4, <1>5 DEF Result, ArenaType
<1>7. a.used <= InitialSlots * SlotSize
  <2>1. CASE InitialSlots * SlotSize <= cap
      BY <2>1, <1>1, <1>6
  <2>2. CASE ~(InitialSlots * SlotSize <= cap)
      BY <2>2, <1>1, <1>6
  <2> QED BY Zenon, <2>1, <2>2
<1> HIDE DEF a
<1>8. EmptyVault(cap) = [records |-> <<>>, slots |-> InitialSlots, readonly |-> FALSE, used |-> a.used]
    BY Zenon DEF EmptyVault, a
<1>9. <<>> \in Seq(Record) /\ Len(<<>>) <= InitialSlots /\ InitialSlots \in Nat /\ InitialSlots # 0
    BY Positive
<1>10. EmptyVault(cap) \in VaultType
    BY <1>6, <1>8, <1>9 DEF VaultType
<1>11. /\ EmptyVault(cap).records = <<>> /\ EmptyVault(cap).slots = InitialSlots
       /\ EmptyVault(cap).used = a.used
    BY <1>8
<1> QED BY Zenon, <1>6, <1>7, <1>9, <1>10, <1>11 DEF Sound

\* n records have been read into x: they are the first n, if the status is OK.
Holding(cap, recs, n, x) ==
    /\ Shaped(x)
    /\ Sound(cap, x.vault) /\ x.status \in {"OK", "LIMIT", "FORMAT", "EXISTS"}
    /\ x.status = "OK" =>
          Len(x.vault.records) = n /\ \A i \in 1..n : x.vault.records[i] = recs[i]

LEMMA LoadedHolds ==
    ASSUME NEW cap \in Nat, NEW recs \in Seq(Record)
    PROVE  \A n \in 0..Len(recs) : Holding(cap, recs, n, Loaded(cap, recs)[n])
<1> DEFINE L == Loaded(cap, recs)
           S == {n \in 0..Len(recs) : ~Holding(cap, recs, n, L[n])}
<1>1. Len(recs) \in Nat /\ \A n \in 1..Len(recs) : recs[n] \in Record
    OBVIOUS
<1>2. ASSUME S # {} PROVE FALSE
  <2>1. PICK n \in S : \A i \in S : n <= i
    <3>1. S \subseteq Nat
        BY <1>1
    <3> QED BY Zenon, <1>2, <3>1, LeastNumber
  <2>2. n \in 0..Len(recs) /\ ~Holding(cap, recs, n, L[n])
      BY Zenon
  <2>3. L[n] = LoadStep(cap, recs, L, n)
      BY Zenon, <1>1, <2>2, LoadedIs
  <2> HIDE DEF L
  <2>4. n # 0
    <3>1. SUFFICES ASSUME n = 0 PROVE FALSE
        BY Zenon
    <3>2. L[n] = [vault |-> EmptyVault(cap), status |-> "OK"]
        BY Zenon, <2>3, <3>1 DEF LoadStep
    <3>3. Len(<<>>) = n /\ 1..n = {}
        BY <3>1
    <3>4. Holding(cap, recs, n, L[n])
      <4>1. L[n].vault = EmptyVault(cap) /\ L[n].status = "OK" /\ Shaped(L[n])
          BY <3>2 DEF Shaped
      <4>2. Sound(cap, EmptyVault(cap)) /\ EmptyVault(cap).records = <<>>
          BY Zenon, EmptyVaultIs
      <4>3. \A i \in 1..n : FALSE
          BY Zenon, <3>3
      <4> QED BY Zenon, <4>1, <4>2, <4>3, <3>3 DEF Holding
    <3> QED BY Zenon, <3>4, <2>2
  <2>5. n - 1 \in 0..Len(recs) /\ n - 1 \notin S /\ recs[n] \in Record /\ n \in Nat
      BY <1>1, <2>1, <2>2, <2>4
  <2>6. Holding(cap, recs, n - 1, L[n - 1])
      BY Zenon, <2>5
  <2>7. CASE L[n - 1].status # "OK"
    <3>1. L[n] = L[n - 1]
        BY Zenon, <2>3, <2>4, <2>7 DEF LoadStep
    <3>2. Holding(cap, recs, n, L[n])
        BY Zenon, <3>1, <2>6, <2>7 DEF Holding
    <3> QED BY Zenon, <3>2, <2>2
  <2>8. CASE L[n - 1].status = "OK"
    <3> DEFINE v == L[n - 1].vault
    <3>1. L[n] = AddRecord(cap, v, recs[n])
        BY Zenon, <2>3, <2>4, <2>8 DEF LoadStep
    <3>2. Sound(cap, v) /\ Len(v.records) = n - 1 /\ \A i \in 1..(n - 1) : v.records[i] = recs[i]
        BY Zenon, <2>6, <2>8 DEF Holding
    <3> HIDE DEF v
    <3>3. Added(cap, v, recs[n], L[n])
        BY Zenon, <3>1, <3>2, <2>5, AddResult
    <3>4. v.records \in Seq(Record)
        BY Zenon, <3>2, SoundParts
    <3>5. LET s == Append(v.records, recs[n]) IN Len(s) = n /\ \A i \in 1..n : s[i] = recs[i]
        BY ONLY <3>2, <3>4, <2>4, <2>5
    <3>6. L[n].status = "OK" => L[n].vault.records = Append(v.records, recs[n])
        BY Zenon, <3>3 DEF Added
    <3>7. Holding(cap, recs, n, L[n])
        BY Zenon, <3>3, <3>5, <3>6 DEF Holding, Added
    <3> QED BY Zenon, <3>7, <2>2
  <2> QED BY Zenon, <2>7, <2>8
<1> QED BY Zenon, <1>2

\* A load that succeeds gives the records.
LEMMA LoadGives ==
    ASSUME NEW cap \in Nat, NEW recs \in Seq(Record)
    PROVE  /\ Load(cap, recs).status = Loaded(cap, recs)[Len(recs)].status
           /\ Load(cap, recs).status \in {"OK", "LIMIT", "FORMAT", "EXISTS"}
           /\ Sound(cap, Load(cap, recs).vault)
           /\ Load(cap, recs).vault.used = Loaded(cap, recs)[Len(recs)].vault.used
           /\ Load(cap, recs).vault.slots = Loaded(cap, recs)[Len(recs)].vault.slots
           /\ Load(cap, recs).status = "OK" => Load(cap, recs).vault.records = recs
<1> DEFINE x == Load(cap, recs)
           end == Loaded(cap, recs)[Len(recs)]
<1>1. Len(recs) \in Nat /\ Len(recs) \in 0..Len(recs)
    OBVIOUS
<1>2. Holding(cap, recs, Len(recs), end)
    BY Zenon, <1>1, LoadedHolds
<1>3. x = [end EXCEPT !.vault.readonly = (end.status = "OK")]
    BY Zenon, LoadIs
<1> HIDE DEF x, end
<1>4. x.status = end.status /\ x.vault = [end.vault EXCEPT !.readonly = (end.status = "OK")]
  <2>1. end = [vault |-> end.vault, status |-> end.status]
      BY Zenon, <1>2 DEF Holding, Shaped
  <2>2. DOMAIN end = {"vault", "status"}
      BY Zenon, <2>1
  <2> QED BY Zenon, <1>3, <2>2
<1>5. end.vault \in VaultType /\ (end.status = "OK") \in BOOLEAN
    BY Zenon, <1>2 DEF Holding, Sound
<1>6. /\ x.vault \in VaultType /\ x.vault.records = end.vault.records
      /\ x.vault.used = end.vault.used /\ x.vault.slots = end.vault.slots
    BY Zenon, <1>4, <1>5 DEF VaultType
<1>7. Sound(cap, x.vault)
    BY Zenon, <1>2, <1>6 DEF Sound, Holding
<1>8. end.status = "OK" => end.vault.records = recs
  <2>1. end.vault.records \in Seq(Record)
      BY Zenon, <1>5 DEF VaultType
  <2>2. end.status = "OK" =>
           /\ Len(end.vault.records) = Len(recs)
           /\ \A i \in 1..Len(recs) : end.vault.records[i] = recs[i]
      BY Zenon, <1>2 DEF Holding
  <2> QED BY <2>1, <2>2
<1> QED BY Zenon, <1>2, <1>4, <1>6, <1>7, <1>8 DEF Holding, x, end

\* Loading one record more begins with loading the others.
LEMMA LoadPrefix ==
    ASSUME NEW cap \in Nat, NEW recs \in Seq(Record), NEW r \in Record
    PROVE  \A n \in 0..Len(recs) : Loaded(cap, Append(recs, r))[n] = Loaded(cap, recs)[n]
<1> DEFINE more == Append(recs, r)
           L == Loaded(cap, recs)
           M == Loaded(cap, more)
           S == {n \in 0..Len(recs) : M[n] # L[n]}
<1>1. /\ Len(recs) \in Nat /\ Len(more) = Len(recs) + 1 /\ Len(more) \in Nat
      /\ \A n \in 1..Len(recs) : more[n] = recs[n]
    OBVIOUS
<1> HIDE DEF more
<1>2. ASSUME S # {} PROVE FALSE
  <2>1. PICK n \in S : \A i \in S : n <= i
    <3>1. S \subseteq Nat
        BY <1>1
    <3> QED BY Zenon, <1>2, <3>1, LeastNumber
  <2>2. n \in 0..Len(recs) /\ n \in 0..Len(more) /\ M[n] # L[n]
      BY <1>1
  <2>3. L[n] = LoadStep(cap, recs, L, n) /\ M[n] = LoadStep(cap, more, M, n)
      BY Zenon, <1>1, <2>2, LoadedIs
  <2> HIDE DEF L, M
  <2>4. n # 0
      BY Zenon, <2>2, <2>3 DEF LoadStep
  <2>5. n - 1 \in 0..Len(recs) /\ n - 1 \notin S /\ n \in 1..Len(recs)
      BY <1>1, <2>1, <2>2, <2>4
  <2>6. M[n - 1] = L[n - 1] /\ more[n] = recs[n]
      BY Zenon, <2>5, <1>1
  <2> QED BY Zenon, <2>2, <2>3, <2>6 DEF LoadStep
<1> QED BY Zenon, <1>2 DEF more

\* Two lists of records that differ in record i only, which needs k * Align bytes
\* more, at most, wherever it begins.
Similar(recs, new, i, k) ==
    /\ Len(new) = Len(recs)
    /\ \A n \in 1..Len(recs) : n # i => new[n] = recs[n]
    /\ \A n \in 1..Len(recs) : n = i =>
          \A u \in Nat : RecordEnd(u, new[n]) <= RecordEnd(u, recs[n]) + k * Align

Valid(recs) == \A n \in 1..Len(recs) : recs[n].utf8
Distinct(recs) == \A m, n \in 1..Len(recs) : recs[m].id = recs[n].id => m = n
Fine(recs) == Valid(recs) /\ Distinct(recs)

Moved(n, i, k) == IF n < i THEN 0 ELSE k

\* y has the records of x, and has used at most d bytes more.
Within(x, y, d) ==
    y.status = "OK" /\ y.vault.slots = x.vault.slots /\ y.vault.used <= x.vault.used + d * Align

LEMMA LoadSimilarStep ==
    ASSUME NEW cap \in Nat, NEW recs \in Seq(Record), NEW new \in Seq(Record),
           NEW i \in Nat, NEW k \in Nat, Similar(recs, new, i, k), Fine(new),
           NEW n \in 1..Len(recs),
           LET L == Loaded(Capacity, recs)
               M == Loaded(cap, new)
           IN /\ L[n].status = "OK" /\ L[n].vault.used + k * Align <= cap
              /\ L[n - 1].status = "OK" /\ L[n - 1].vault.used + k * Align <= cap =>
                    Within(L[n - 1], M[n - 1], Moved(n - 1, i, k))
    PROVE  Within(Loaded(Capacity, recs)[n], Loaded(cap, new)[n], Moved(n, i, k))
<1> DEFINE L == Loaded(Capacity, recs)
           M == Loaded(cap, new)
           v == L[n - 1].vault
           w == M[n - 1].vault
           d == Moved(n - 1, i, k)
<1>1. /\ Len(recs) \in Nat /\ Len(new) = Len(recs) /\ n \in 0..Len(recs)
      /\ n - 1 \in 0..Len(recs) /\ n # 0 /\ n \in Nat /\ Capacity \in Nat
      /\ recs[n] \in Record /\ new[n] \in Record /\ k * Align \in Nat
    BY Positive DEF Similar
<1>2. L[n] = LoadStep(Capacity, recs, L, n) /\ M[n] = LoadStep(cap, new, M, n)
    BY Zenon, <1>1, LoadedIs
<1>3. Holding(Capacity, recs, n - 1, L[n - 1]) /\ Holding(cap, new, n - 1, M[n - 1])
    BY Zenon, <1>1, LoadedHolds
<1>4. L[n].status = "OK" /\ L[n].vault.used + k * Align <= cap
    BY Zenon
<1>5. L[n - 1].status = "OK" /\ L[n - 1].vault.used + k * Align <= cap => Within(L[n - 1], M[n - 1], d)
    BY Zenon
<1> HIDE DEF L, M
<1>6. L[n - 1].status = "OK"
    BY Zenon, <1>1, <1>2, <1>4 DEF LoadStep
<1>7. L[n] = AddRecord(Capacity, v, recs[n])
    BY Zenon, <1>1, <1>2, <1>6 DEF LoadStep
<1>8. Sound(Capacity, v) /\ Sound(cap, w)
    BY Zenon, <1>3 DEF Holding
<1>9. Added(Capacity, v, recs[n], L[n])
    BY Zenon, <1>1, <1>7, <1>8, AddResult
<1>10. /\ v.used \in Nat /\ v.slots \in Nat /\ w.used \in Nat
       /\ AddEnd(v, recs[n]) \in Nat /\ v.used <= AddEnd(v, recs[n])
    BY Zenon, <1>1, <1>8, SoundParts, AddEndNat
<1>11. L[n].vault.used = AddEnd(v, recs[n]) /\ L[n].vault.slots = NextSlots(Len(v.records), v.slots)
    BY Zenon, <1>4, <1>9 DEF Added
<1>12. Within(L[n - 1], M[n - 1], d)
  <2>1. v.used + k * Align <= cap
      BY SMTT(30), <1>1, <1>4, <1>10, <1>11
  <2> QED BY Zenon, <2>1, <1>5, <1>6
<1>13. M[n - 1].status = "OK" /\ w.slots = v.slots /\ w.used <= v.used + d * Align
    BY Zenon, <1>12 DEF Within
<1>14. M[n] = AddRecord(cap, w, new[n])
    BY Zenon, <1>1, <1>2, <1>13 DEF LoadStep
<1>15. Added(cap, w, new[n], M[n])
    BY Zenon, <1>1, <1>8, <1>14, AddResult
<1>16. Len(v.records) = n - 1 /\ Len(w.records) = n - 1 /\ \A m \in 1..(n - 1) : w.records[m] = new[m]
    BY Zenon, <1>3, <1>6, <1>13 DEF Holding
<1>17. ~FindId(w, new[n].id)
  <2>1. w.records \in Seq(Record)
      BY Zenon, <1>8, SoundParts
  <2>2. DOMAIN w.records = 1..(n - 1)
      BY <2>1, <1>16
  <2>3. \A m \in 1..(n - 1) : m \in 1..Len(new) /\ m # n
      BY <1>1
  <2>4. n \in 1..Len(new)
      BY Zenon, <1>1
  <2> QED BY Zenon, <2>2, <2>3, <2>4, <1>16 DEF FindId, Fine, Distinct
<1> DEFINE e == Moved(n, i, k)
<1>18. d \in Nat /\ e \in Nat
    BY Zenon DEF Moved
<1>19. AddEnd(w, new[n]) \in Nat /\ AddEnd(w, new[n]) <= AddEnd(v, recs[n]) + e * Align
  <2> DEFINE g == GrowEnd(v.used, n - 1, v.slots)
             h == GrowEnd(w.used, n - 1, v.slots)
  <2>1. g \in Nat /\ h \in Nat /\ h <= g + d * Align
    <3>1. n - 1 \in Nat
        BY <1>1
    <3>2. v.used \in Nat /\ v.slots \in Nat /\ w.used \in Nat /\ w.used <= v.used + d * Align
        BY ONLY Zenon, <1>10, <1>13
    <3>3. d \in Nat
        BY ONLY Zenon, <1>18
    <3>4. PICK a, b, s, m \in Nat : a = v.used /\ b = w.used /\ s = v.slots /\ m = n - 1
        BY ONLY Zenon, <3>1, <3>2
    <3>5. b <= a + d * Align
        BY ONLY Zenon, <3>2, <3>4
    <3> HIDE DEF d, v, w
    <3>6. /\ GrowEnd(a, m, s) \in Nat /\ GrowEnd(b, m, s) \in Nat
          /\ GrowEnd(b, m, s) <= GrowEnd(a, m, s) + d * Align
        BY ONLY Zenon, <3>3, <3>5, GrowShift
    <3> QED BY ONLY Zenon, <3>4, <3>6
  <2>2. AddEnd(v, recs[n]) = RecordEnd(g, recs[n]) /\ AddEnd(w, new[n]) = RecordEnd(h, new[n])
      BY Zenon, <1>13, <1>16 DEF AddEnd
  <2> HIDE DEF g, h
  <2>3. RecordEnd(h, recs[n]) <= RecordEnd(g, recs[n]) + d * Align
      BY Zenon, <1>1, <1>18, <2>1, RecordShift
  <2>4. RecordEnd(h, new[n]) \in Nat /\ RecordEnd(h, recs[n]) \in Nat /\ RecordEnd(g, recs[n]) \in Nat
      BY Zenon, <1>1, <2>1, RecordEndNat
  <2>5. CASE n # i
    <3>1. new[n] = recs[n]
        BY Zenon, <2>5 DEF Similar
    <3>2. d = e
        BY <2>5, <1>1 DEF Moved
    <3> QED BY Zenon, <3>1, <3>2, <2>2, <2>3, <2>4
  <2>6. CASE n = i
    <3>1. RecordEnd(h, new[n]) <= RecordEnd(h, recs[n]) + k * Align
        BY Zenon, <2>1, <2>6 DEF Similar
    <3>2. d = 0 /\ e = k
        BY <2>6, <1>1 DEF Moved
    <3>3. RecordEnd(h, recs[n]) <= RecordEnd(g, recs[n])
      <4>1. d * Align = 0
          BY <3>2, Positive
      <4> QED BY <4>1, <2>3, <2>4
    <3> QED BY <3>1, <3>2, <3>3, <2>2, <2>4, <1>1
  <2> QED BY Zenon, <2>5, <2>6
<1> HIDE DEF d
<1>20. e * Align <= k * Align /\ e * Align \in Nat
    BY <1>1, Positive DEF Moved
<1> HIDE DEF e
<1>21. AddEnd(w, new[n]) <= cap
    BY <1>1, <1>4, <1>10, <1>11, <1>19, <1>20
<1>22. new[n].utf8
    BY Zenon, <1>1 DEF Fine, Valid
<1>23. M[n].status = "OK"
    BY Zenon, <1>15, <1>17, <1>21, <1>22 DEF Added
<1>24. M[n].vault.used = AddEnd(w, new[n]) /\ M[n].vault.slots = NextSlots(Len(w.records), w.slots)
    BY Zenon, <1>15, <1>23 DEF Added
<1>25. Within(L[n], M[n], e)
    BY Zenon, <1>11, <1>13, <1>16, <1>19, <1>23, <1>24 DEF Within
<1> QED BY Zenon, <1>25 DEF L, M, e

\* If one can be loaded, so can the other, into an arena larger by k * Align.
LEMMA LoadSimilar ==
    ASSUME NEW cap \in Nat, NEW recs \in Seq(Record), NEW new \in Seq(Record),
           NEW i \in Nat, NEW k \in Nat, Similar(recs, new, i, k), Fine(new),
           Load(Capacity, recs).status = "OK",
           Load(Capacity, recs).vault.used + k * Align <= cap
    PROVE  Load(cap, new).status = "OK" /\ Load(cap, new).vault.records = new
<1> DEFINE L == Loaded(Capacity, recs)
           M == Loaded(cap, new)
           N == Len(recs)
           S == {n \in 0..N : /\ L[n].status = "OK" /\ L[n].vault.used + k * Align <= cap
                               /\ ~Within(L[n], M[n], Moved(n, i, k))}
<1>1. N \in Nat /\ Len(new) = N /\ N \in 0..N /\ Capacity \in Nat /\ 0 \in 0..N
    BY Positive DEF Similar
<1>2. ASSUME S # {} PROVE FALSE
  <2>1. PICK n \in S : \A m \in S : n <= m
    <3>1. S \subseteq Nat
        BY <1>1
    <3> QED BY Zenon, <1>2, <3>1, LeastNumber
  <2>2. /\ n \in 0..N /\ L[n].status = "OK" /\ L[n].vault.used + k * Align <= cap
        /\ ~Within(L[n], M[n], Moved(n, i, k))
      BY Zenon
  <2>3. n # 0
    <3>1. SUFFICES ASSUME n = 0 PROVE FALSE
        BY Zenon
    <3>2. L[0] = LoadStep(Capacity, recs, L, 0) /\ M[0] = LoadStep(cap, new, M, 0)
        BY Zenon, <1>1, LoadedIs
    <3> HIDE DEF L, M
    <3>3. /\ L[0] = [vault |-> EmptyVault(Capacity), status |-> "OK"]
          /\ M[0] = [vault |-> EmptyVault(cap), status |-> "OK"]
        BY Zenon, <3>2 DEF LoadStep
    <3>4. /\ L[0].vault = EmptyVault(Capacity)
          /\ M[0].vault = EmptyVault(cap) /\ M[0].status = "OK"
        BY <3>3
    <3>5. /\ EmptyVault(Capacity).used = InitialSlots * SlotSize
          /\ EmptyVault(cap).used <= InitialSlots * SlotSize
          /\ EmptyVault(cap).slots = EmptyVault(Capacity).slots
        BY Zenon, <1>1, EmptyVaultIs, Positive
    <3>6. InitialSlots * SlotSize \in Nat /\ Moved(0, i, k) * Align \in Nat
        BY SMTT(30), Positive DEF Moved
    <3>7. EmptyVault(cap).used \in Nat
        BY Zenon, EmptyVaultIs, SoundParts
    <3>8. EmptyVault(cap).used <= EmptyVault(Capacity).used + Moved(0, i, k) * Align
        BY <3>5, <3>6, <3>7
    <3> QED BY Zenon, <3>1, <3>4, <3>5, <3>8, <2>2 DEF Within
  <2>4. n \in 1..N /\ n - 1 \in 0..N /\ n - 1 \notin S
      BY <1>1, <2>1, <2>2, <2>3
  <2>5. L[n - 1].status = "OK" /\ L[n - 1].vault.used + k * Align <= cap =>
            Within(L[n - 1], M[n - 1], Moved(n - 1, i, k))
      BY Zenon, <2>4
  <2>6. Within(L[n], M[n], Moved(n, i, k))
      BY Zenon, <2>2, <2>4, <2>5, LoadSimilarStep
  <2> QED BY Zenon, <2>2, <2>6
<1>3. L[N].status = "OK" /\ L[N].vault.used + k * Align <= cap
    BY Zenon, <1>1, LoadGives
<1>4. M[N].status = "OK"
    BY Zenon, <1>1, <1>2, <1>3 DEF Within
<1>5. Load(cap, new).status = "OK"
  <2>1. Load(cap, new).status = Loaded(cap, new)[Len(new)].status
      BY Zenon, LoadGives
  <2> QED BY Zenon, <2>1, <1>1, <1>4
<1> QED BY Zenon, <1>5, LoadGives

-----------------------------------------------------------------------------
(***************************************************************************)
(* The inductive invariant.                                                *)
(***************************************************************************)

\* The records can be loaded by a session with little more than used bytes.
Fits(used, recs) ==
    LET again == Load(used + 2 * (Align - 1), recs)
    IN again.status = "OK" /\ again.vault.records = recs

\* The records of one command, old, and what it has made of them.
Follows(old, new) ==
    \A i \in DOMAIN old :
        /\ i \in DOMAIN new /\ new[i].id = old[i].id
        /\ old[i].deleted => new[i] = old[i]
        /\ new[i] # old[i] => new[i].rev = old[i].rev + 1

Bare(recs) == \A n \in 1..Len(recs) : recs[n].deleted => recs[n].text = 0 /\ recs[n].list = <<>>

Types ==
    /\ pc \in {"closed", "open", "changed", "failed", "saved"}
    /\ status \in {"OK", "USAGE", "LIMIT", "FORMAT", "EXISTS", "SECURE_MEMORY", "IO", "DURABILITY"}
    /\ mem \in VaultType /\ mem.used <= Capacity /\ Len(mem.records) <= mem.slots
    /\ disk \in Seq(Record)
    /\ sessions \in 0..MaxSessions /\ needed \in 0..Capacity

\* What is on the disk can be loaded; a command that has opened the vault has
\* what a load gives.
OnDisk ==
    /\ Valid(disk) /\ Distinct(disk) /\ Bare(disk)
    /\ disk # <<>> => Fits(needed, disk)
Opened == pc = "open" => Load(Capacity, disk).status = "OK" /\ mem = Load(Capacity, disk).vault

\* What a command is about to save, if the encoder takes it.
Changed ==
    pc = "changed" =>
        /\ Follows(disk, mem.records) /\ Distinct(mem.records)
        /\ Valid(mem.records) => Fits(mem.used, mem.records)

Inv == Types /\ OnDisk /\ Bare(mem.records) /\ Opened /\ Changed

-----------------------------------------------------------------------------
(***************************************************************************)
(* What a changed record costs: r needs at most k * Align bytes more than  *)
(* old, wherever it begins.                                                *)
(***************************************************************************)

Costs(old, r, k) == \A u \in Nat : RecordEnd(u, r) <= RecordEnd(u, old) + k * Align

\* The record texts and list that a record with other flags shares.
SameTexts(old, r) == r.title = old.title /\ r.text = old.text /\ r.list = old.list

LEMMA SameCosts ==
    ASSUME NEW old \in Record, NEW r \in Record, SameTexts(old, r)
    PROVE  Costs(old, r, 0)
<1> SUFFICES ASSUME NEW u \in Nat PROVE RecordEnd(u, r) <= RecordEnd(u, old) + 0 * Align
    BY Zenon DEF Costs
<1>1. RecordEnd(u, r) = RecordEnd(u, old) /\ RecordEnd(u, old) \in Nat
    BY Zenon, RecordEndNat DEF SameTexts, RecordEnd
<1> QED BY <1>1, Positive

LEMMA BareCosts ==
    ASSUME NEW old \in Record, NEW r \in Record,
           r.title = old.title, r.text = 0, r.list = <<>>
    PROVE  Costs(old, r, 0)
<1> SUFFICES ASSUME NEW u \in Nat PROVE RecordEnd(u, r) <= RecordEnd(u, old) + 0 * Align
    BY Zenon DEF Costs
<1> DEFINE t == TextEnd(u, old.title)
           s == TextEnd(t, old.text)
<1>1. old.title \in Nat /\ old.text \in Nat /\ old.list \in Lists
    BY Zenon, RecordTyped
<1>2. t \in Nat
    BY Zenon, <1>1, TextEndNat
<1>3. RecordEnd(u, r) = t /\ RecordEnd(u, old) = ListEnd(s, old.list)
    BY Zenon DEF RecordEnd, ListEnd, TextEnd
<1> HIDE DEF t
<1>4. s \in Nat /\ t <= s
    BY Zenon, <1>1, <1>2, TextEndNat
<1> HIDE DEF s
<1>5. ListEnd(s, old.list) \in Nat /\ s <= ListEnd(s, old.list)
    BY Zenon, <1>1, <1>4, ListEndNat
<1> QED BY <1>2, <1>3, <1>4, <1>5, Positive

LEMMA TextFrom ==
    ASSUME NEW u \in Nat, NEW n \in Nat
    PROVE  TextEnd(0, n) \in Nat /\ TextEnd(u, n) = u + TextEnd(0, n)
BY DEF TextEnd

LEMMA TitleCosts ==
    ASSUME NEW old \in Record, NEW r \in Record, r.text = old.text, r.list = old.list,
           NEW k \in Nat, TextEnd(0, r.title) <= k * Align
    PROVE  Costs(old, r, k)
<1> SUFFICES ASSUME NEW u \in Nat PROVE RecordEnd(u, r) <= RecordEnd(u, old) + k * Align
    BY Zenon DEF Costs
<1>1. old.title \in Nat /\ old.text \in Nat /\ old.list \in Lists /\ r.title \in Nat
    BY Zenon, RecordTyped
<1>2. k * Align \in Nat
    BY Positive
<1> DEFINE a == TextEnd(u, old.title)
           b == TextEnd(u, r.title)
<1>3. a \in Nat /\ b \in Nat /\ u <= a
    BY Zenon, <1>1, TextEndNat
<1>4. TextEnd(0, r.title) \in Nat /\ b = u + TextEnd(0, r.title)
    BY Zenon, <1>1, TextFrom
<1>5. b <= a + k * Align
    BY <1>2, <1>3, <1>4
<1>6. /\ RecordEnd(u, r) = ListEnd(TextEnd(b, old.text), old.list)
      /\ RecordEnd(u, old) = ListEnd(TextEnd(a, old.text), old.list)
    BY Zenon DEF RecordEnd
<1> HIDE DEF a, b
<1>7. TextEnd(a, old.text) \in Nat /\ TextEnd(b, old.text) \in Nat
    BY Zenon, <1>1, <1>3, TextEndNat
<1>8. TextEnd(b, old.text) <= TextEnd(a, old.text) + k * Align
    BY Zenon, <1>1, <1>2, <1>3, <1>5, TextShift
<1> QED BY Zenon, <1>1, <1>6, <1>7, <1>8, ListShift

LEMMA TextCosts ==
    ASSUME NEW old \in Record, NEW r \in Record, r.title = old.title, r.list = old.list,
           NEW k \in Nat, TextEnd(0, r.text) <= k * Align
    PROVE  Costs(old, r, k)
<1> SUFFICES ASSUME NEW u \in Nat PROVE RecordEnd(u, r) <= RecordEnd(u, old) + k * Align
    BY Zenon DEF Costs
<1>1. old.title \in Nat /\ old.text \in Nat /\ old.list \in Lists /\ r.text \in Nat
    BY Zenon, RecordTyped
<1>2. k * Align \in Nat
    BY Positive
<1> DEFINE t == TextEnd(u, old.title)
<1>3. t \in Nat
    BY Zenon, <1>1, TextEndNat
<1>4. /\ RecordEnd(u, r) = ListEnd(TextEnd(t, r.text), old.list)
      /\ RecordEnd(u, old) = ListEnd(TextEnd(t, old.text), old.list)
    BY Zenon DEF RecordEnd
<1> HIDE DEF t
<1> DEFINE a == TextEnd(t, old.text)
           b == TextEnd(t, r.text)
<1>5. a \in Nat /\ b \in Nat /\ t <= a
    BY Zenon, <1>1, <1>3, TextEndNat
<1>6. TextEnd(0, r.text) \in Nat /\ b = t + TextEnd(0, r.text)
    BY Zenon, <1>1, <1>3, TextFrom
<1>7. b <= a + k * Align
    BY <1>2, <1>3, <1>5, <1>6
<1> HIDE DEF a, b
<1> QED BY Zenon, <1>1, <1>4, <1>5, <1>7, ListShift DEF a, b

LEMMA ListCosts ==
    ASSUME NEW old \in Record, NEW r \in Record, r.title = old.title, r.text = old.text,
           NEW k \in Nat, r.list # <<>> => Align - 1 + Bytes(r.list) <= k * Align
    PROVE  Costs(old, r, k)
<1> SUFFICES ASSUME NEW u \in Nat PROVE RecordEnd(u, r) <= RecordEnd(u, old) + k * Align
    BY Zenon DEF Costs
<1>1. old.title \in Nat /\ old.text \in Nat /\ old.list \in Lists /\ r.list \in Lists
    BY Zenon, RecordTyped
<1>2. k * Align \in Nat
    BY Positive
<1> DEFINE t == TextEnd(TextEnd(u, old.title), old.text)
<1>3. t \in Nat
    BY Zenon, <1>1, TextEndNat
<1>4. RecordEnd(u, r) = ListEnd(t, r.list) /\ RecordEnd(u, old) = ListEnd(t, old.list)
    BY Zenon DEF RecordEnd
<1> HIDE DEF t
<1>5. ListEnd(t, old.list) \in Nat /\ t <= ListEnd(t, old.list)
    BY Zenon, <1>1, <1>3, ListEndNat
<1>6. CASE r.list = <<>>
    BY <1>2, <1>3, <1>4, <1>5, <1>6 DEF ListEnd
<1>7. CASE r.list # <<>>
  <2>1. ListEnd(t, r.list) = RoundUp(t, Align) + Bytes(r.list)
      BY Zenon, <1>7 DEF ListEnd
  <2>2. RoundUp(t, Align) \in Nat /\ RoundUp(t, Align) <= t + Align - 1 /\ Bytes(r.list) \in Nat
      BY Zenon, <1>1, <1>3, Rounded, Positive, BytesNat
  <2>3. Align - 1 + Bytes(r.list) <= k * Align
      BY Zenon, <1>7
  <2> QED BY <1>2, <1>3, <1>4, <1>5, <2>1, <2>2, <2>3, Positive
<1> QED BY Zenon, <1>6, <1>7

LEMMA ReplacedFits ==
    ASSUME NEW recs \in Seq(Record), Load(Capacity, recs).status = "OK",
           NEW i \in 1..Len(recs), NEW r \in Record, NEW k \in Nat, Costs(recs[i], r, k),
           NEW used \in Nat,
           Load(Capacity, recs).vault.used + k * Align <= used + 2 * (Align - 1),
           Fine([recs EXCEPT ![i] = r])
    PROVE  Fits(used, [recs EXCEPT ![i] = r])
<1> DEFINE new == [recs EXCEPT ![i] = r]
<1>1. new \in Seq(Record) /\ Len(new) = Len(recs) /\ i \in Nat
    OBVIOUS
<1>2. new[i] = r /\ \A n \in 1..Len(recs) : n # i => new[n] = recs[n]
    OBVIOUS
<1>3. Fine(new)
    BY Zenon
<1> HIDE DEF new
<1>4. Similar(recs, new, i, k)
    BY Zenon, <1>1, <1>2 DEF Similar, Costs
<1>5. used + 2 * (Align - 1) \in Nat
    BY Positive
<1>6. /\ Load(used + 2 * (Align - 1), new).status = "OK"
      /\ Load(used + 2 * (Align - 1), new).vault.records = new
    BY Zenon, <1>1, <1>3, <1>4, <1>5, LoadSimilar
<1>7. Fits(used, new)
    BY Zenon, <1>6 DEF Fits
<1> QED BY Zenon, <1>7 DEF new

\* The vault after a record has been added uses what a load of its records does.
LEMMA AddedLoads ==
    ASSUME NEW recs \in Seq(Record), Load(Capacity, recs).status = "OK", NEW r \in Record,
           NEW x, x = AddRecord(Capacity, Load(Capacity, recs).vault, r), x.status = "OK"
    PROVE  /\ Load(Capacity, Append(recs, r)).status = "OK"
           /\ Load(Capacity, Append(recs, r)).vault.used = x.vault.used
<1> DEFINE N == Len(recs)
           new == Append(recs, r)
           v == Load(Capacity, recs).vault
           b == Loaded(Capacity, recs)[N]
           c == Loaded(Capacity, new)[N]
           y == Loaded(Capacity, new)[N + 1]
<1>1. /\ N \in Nat /\ Len(new) = N + 1 /\ N + 1 \in 0..Len(new) /\ N \in 0..N /\ N + 1 # 0
      /\ (N + 1) - 1 = N /\ new[N + 1] = r /\ new \in Seq(Record) /\ Capacity \in Nat
    BY Positive
<1>2. /\ b.status = "OK" /\ v.used = b.vault.used /\ v.slots = b.vault.slots
      /\ v.records = recs /\ Sound(Capacity, v)
    BY Zenon, <1>1, LoadGives
<1>3. Holding(Capacity, recs, N, b)
    BY Zenon, <1>1, LoadedHolds
<1>4. Sound(Capacity, b.vault) /\ Len(b.vault.records) = N /\ \A n \in 1..N : b.vault.records[n] = recs[n]
    BY Zenon, <1>2, <1>3 DEF Holding
<1>5. b.vault.records = recs
  <2>1. b.vault.records \in Seq(Record)
      BY Zenon, <1>1, <1>4, SoundParts
  <2> HIDE DEF b
  <2> QED BY <1>4, <2>1
<1>6. c = b
    BY Zenon, <1>1, LoadPrefix
<1>7. y = LoadStep(Capacity, new, Loaded(Capacity, new), N + 1)
  <2> DEFINE m == N + 1
  <2>1. Len(new) \in Nat /\ m \in 0..Len(new)
      BY <1>1
  <2> HIDE DEF new, m
  <2>2. Loaded(Capacity, new)[m] = LoadStep(Capacity, new, Loaded(Capacity, new), m)
      BY Zenon, <2>1, LoadedIs
  <2> QED BY Zenon, <2>2 DEF m
<1>8. y = AddRecord(Capacity, b.vault, r)
  <2> HIDE DEF new, b
  <2>1. Loaded(Capacity, new)[(N + 1) - 1] = b
      BY Zenon, <1>1, <1>6
  <2>2. N + 1 # 0 /\ b.status = "OK" /\ new[N + 1] = r
      BY Zenon, <1>1, <1>2
  <2> DEFINE m == N + 1
             f == Loaded(Capacity, new)
  <2>3. f[m] = LoadStep(Capacity, new, f, m) /\ m # 0 /\ f[m - 1] = b /\ new[m] = r
      BY Zenon, <1>7, <2>1, <2>2
  <2> HIDE DEF m, f
  <2>4. f[m] = AddRecord(Capacity, b.vault, r)
      BY ONLY Zenon, <2>2, <2>3 DEF LoadStep
  <2> QED BY ONLY Zenon, <2>4 DEF m, f
<1> HIDE DEF v, b, y
<1>9. Added(Capacity, v, r, x) /\ Added(Capacity, b.vault, r, y)
    BY Zenon, <1>1, <1>2, <1>4, <1>8, AddResult DEF v
<1>10. AddEnd(v, r) = AddEnd(b.vault, r) /\ (FindId(v, r.id) <=> FindId(b.vault, r.id))
    BY Zenon, <1>2, <1>5 DEF AddEnd, FindId
<1>11. y.status = "OK"
    BY Zenon, <1>9, <1>10 DEF Added
<1>12. y.vault.used = x.vault.used
    BY Zenon, <1>9, <1>10, <1>11 DEF Added
<1>13. /\ Load(Capacity, new).status = Loaded(Capacity, new)[Len(new)].status
       /\ Load(Capacity, new).vault.used = Loaded(Capacity, new)[Len(new)].vault.used
    BY Zenon, <1>1, LoadGives
<1>14. Loaded(Capacity, new)[Len(new)] = y
    BY Zenon, <1>1 DEF y
<1> QED BY Zenon, <1>11, <1>12, <1>13, <1>14

LEMMA AddedFits ==
    ASSUME NEW recs \in Seq(Record), Load(Capacity, recs).status = "OK", NEW r \in Record,
           NEW x, x = AddRecord(Capacity, Load(Capacity, recs).vault, r), x.status = "OK",
           x.vault.used \in Nat, Fine(Append(recs, r))
    PROVE  Fits(x.vault.used, Append(recs, r))
<1> DEFINE new == Append(recs, r)
           cap == x.vault.used + 2 * (Align - 1)
           load == Load(Capacity, new)
<1>1. new \in Seq(Record) /\ cap \in Nat /\ 0 \in Nat
    BY Positive
<1>2. Fine(new) /\ load.status = "OK" /\ load.vault.used = x.vault.used
    BY Zenon, AddedLoads
<1>3. load.vault.used + 0 * Align <= cap
    BY <1>1, <1>2, Positive
<1>4. \A n \in 1..Len(new) : n # 0
    BY <1>1
<1> HIDE DEF new
<1>5. Similar(new, new, 0, 0)
    BY Zenon, <1>4 DEF Similar
<1>6. Load(cap, new).status = "OK" /\ Load(cap, new).vault.records = new
    BY ZenonT(30), <1>1, <1>2, <1>3, <1>5, LoadSimilar
<1>7. Fits(x.vault.used, new)
    BY Zenon, <1>6 DEF Fits
<1> QED BY Zenon, <1>7 DEF new

-----------------------------------------------------------------------------
(***************************************************************************)
(* The steps.  Every one keeps the invariant and the history.              *)
(***************************************************************************)

Told ==
    /\ status' \notin {"OK", "DURABILITY"} => disk' = disk
    /\ pc' = "failed" => mem'.records = mem.records
    /\ disk' # disk => Follows(disk, disk')

Kept == UNCHANGED <<disk, sessions, needed>>

LEMMA NoVaultTyped ==
    /\ NoVault \in VaultType /\ NoVault.used = 0 /\ NoVault.used <= Capacity
    /\ NoVault.records = <<>> /\ Len(NoVault.records) <= NoVault.slots
    /\ Bare(NoVault.records)
<1>1. <<>> \in Seq(Record) /\ Len(<<>>) = 0 /\ 0 \in Nat /\ 0 <= Capacity
    BY Positive
<1>2. \A n \in 1..0 : FALSE
    OBVIOUS
<1>3. /\ NoVault.used = 0 /\ NoVault.slots = 0 /\ NoVault.records = <<>>
      /\ NoVault \in VaultType
    BY Zenon, <1>1 DEF NoVault, VaultType
<1>4. Bare(NoVault.records)
    BY Zenon, <1>1, <1>2, <1>3 DEF Bare
<1> QED BY <1>1, <1>3, <1>4

LEMMA InitInv == Init => Inv
<1> SUFFICES ASSUME Init PROVE Inv
    BY Zenon
<1>1. pc = "closed" /\ status = "OK" /\ mem = NoVault /\ disk = <<>> /\ sessions = 0 /\ needed = 0
    BY Zenon DEF Init
<1>2. \A n \in 1..Len(<<>>) : FALSE
    OBVIOUS
<1>3. OnDisk
    BY Zenon, <1>1, <1>2 DEF OnDisk, Valid, Distinct, Bare
<1>4. <<>> \in Seq(Record) /\ 0 \in 0..MaxSessions /\ 0 \in 0..Capacity
    BY Positive
<1>5. Types
    BY Zenon, <1>1, <1>4, NoVaultTyped DEF Types
<1>6. Opened /\ Changed
    BY Zenon, <1>1 DEF Opened, Changed
<1> QED BY Zenon, <1>1, <1>3, <1>5, <1>6, NoVaultTyped DEF Inv

\* Whoever leaves file and history alone keeps what is said of them.
LEMMA DiskKept ==
    ASSUME Inv, Kept
    PROVE  /\ OnDisk' /\ disk' \in Seq(Record) /\ disk' = disk
           /\ sessions' \in 0..MaxSessions /\ needed' \in 0..Capacity
<1>1. disk' = disk /\ sessions' = sessions /\ needed' = needed
    BY Zenon DEF Kept
<1> QED BY Zenon, <1>1 DEF Inv, Types, OnDisk, Valid, Distinct, Bare

\* A command that fails: the vault may have less room, its records are the same.
LEMMA FailedStep ==
    ASSUME Inv, Kept, pc' = "failed",
           status' \in {"USAGE", "LIMIT", "FORMAT", "EXISTS", "SECURE_MEMORY", "IO"},
           mem' \in VaultType, mem'.used <= Capacity, Len(mem'.records) <= mem'.slots,
           mem'.records = mem.records
    PROVE  Inv' /\ Told
<1>1. OnDisk' /\ disk' = disk
    BY Zenon, DiskKept
<1>2. Types'
    BY Zenon, DiskKept DEF Types
<1>3. Bare(mem'.records)
    BY Zenon DEF Inv
<1>4. Opened' /\ Changed'
    BY Zenon DEF Opened, Changed
<1>5. Inv'
    BY Zenon, <1>1, <1>2, <1>3, <1>4 DEF Inv
<1> QED BY Zenon, <1>1, <1>5 DEF Told

\* What the vault of an open session is.
LEMMA OpenVault ==
    ASSUME Inv, pc = "open"
    PROVE  /\ Load(Capacity, disk).status = "OK" /\ mem = Load(Capacity, disk).vault
           /\ mem.records = disk /\ disk \in Seq(Record) /\ Sound(Capacity, mem)
           /\ Valid(disk) /\ Distinct(disk) /\ Bare(disk)
<1>1. /\ Load(Capacity, disk).status = "OK" /\ mem = Load(Capacity, disk).vault
      /\ disk \in Seq(Record) /\ Valid(disk) /\ Distinct(disk) /\ Bare(disk)
    BY Zenon DEF Inv, Opened, Types, OnDisk
<1>2. Capacity \in Nat
    BY Zenon, Positive
<1> QED BY Zenon, <1>1, <1>2, LoadGives

\* A record of an open vault gives way to its next revision, for at most
\* k * Align bytes more in the file's next load.
LEMMA ReplacedStep ==
    ASSUME Inv, pc = "open", Kept, pc' = "changed", status' = "OK",
           NEW i \in DOMAIN mem.records, ~mem.records[i].deleted,
           NEW r \in Record, r.id = mem.records[i].id, r.rev = mem.records[i].rev + 1,
           r.deleted => r.text = 0 /\ r.list = <<>>,
           NEW k \in Nat, Costs(mem.records[i], r, k),
           mem' \in VaultType, mem'.used <= Capacity, mem'.slots = mem.slots,
           mem'.records = [mem.records EXCEPT ![i] = r],
           mem.used + k * Align <= mem'.used + 2 * (Align - 1)
    PROVE  Inv' /\ Told
<1> DEFINE new == [disk EXCEPT ![i] = r]
<1>1. OnDisk' /\ disk' = disk
    BY Zenon, DiskKept
<1>2. /\ mem.records = disk /\ disk \in Seq(Record) /\ Valid(disk) /\ Distinct(disk) /\ Bare(disk)
      /\ Load(Capacity, disk).status = "OK" /\ mem = Load(Capacity, disk).vault
    BY Zenon, OpenVault
<1>3. mem'.records = new /\ i \in DOMAIN disk /\ ~disk[i].deleted /\ Costs(disk[i], r, k)
    BY Zenon, <1>2
<1>4. r.id = disk[i].id /\ r.rev = disk[i].rev + 1
    BY Zenon, <1>2
<1>5. i \in 1..Len(disk) /\ DOMAIN disk = 1..Len(disk)
    BY <1>2, <1>3
<1>6. /\ new[i] = r /\ Len(new) = Len(disk) /\ DOMAIN new = DOMAIN disk
      /\ \A n \in 1..Len(disk) : n # i => new[n] = disk[n]
    BY <1>2, <1>5
<1>7. Len(mem'.records) <= mem'.slots
  <2>1. Len(mem.records) <= mem.slots
      BY Zenon DEF Inv, Types
  <2> QED BY Zenon, <2>1, <1>2, <1>3, <1>6
<1> HIDE DEF new
<1>8. Follows(disk, new)
    BY Zenon, <1>3, <1>4, <1>5, <1>6 DEF Follows
<1>9. Distinct(new)
  <2>1. \A n \in 1..Len(disk) : new[n].id = disk[n].id
      BY Zenon, <1>4, <1>6
  <2> QED BY Zenon, <1>2, <1>6, <2>1 DEF Distinct
<1>10. Bare(new)
    BY ZenonT(30), <1>2, <1>6 DEF Bare
<1>11. ASSUME Valid(new) PROVE Fits(mem'.used, new)
  <2>1. Fine(new)
      BY Zenon, <1>9, <1>11 DEF Fine
  <2>2. mem'.used \in Nat
      BY Zenon DEF VaultType
  <2> QED BY Zenon, <1>2, <1>3, <1>5, <2>1, <2>2, ReplacedFits DEF new
<1>12. Types'
    BY Zenon, <1>7, DiskKept DEF Types
<1>13. Changed'
    BY Zenon, <1>1, <1>3, <1>8, <1>9, <1>11 DEF Changed
<1>14. Opened'
    BY Zenon DEF Opened
<1>15. Bare(mem'.records)
    BY Zenon, <1>3, <1>10
<1>16. Inv'
    BY Zenon, <1>1, <1>12, <1>13, <1>14, <1>15 DEF Inv
<1> QED BY Zenon, <1>1, <1>16 DEF Told

\* command_edit: the new value is copied to the end of the arena.
LEMMA EditStep ==
    ASSUME Inv, NEW i \in DOMAIN mem.records, NEW copied, NEW r \in Record, Edit(i, copied, r),
           r.id = mem.records[i].id, r.rev = mem.records[i].rev,
           r.deleted = mem.records[i].deleted,
           NEW end \in Nat, Result(Capacity, end, copied),
           NEW k \in Nat, Costs(mem.records[i], r, k),
           mem.used + k * Align <= end + 2 * (Align - 1)
    PROVE  Inv' /\ Told
<1> DEFINE old == mem.records[i]
           writable == [mem EXCEPT !.readonly = FALSE, !.used = copied.used]
           done == [writable EXCEPT !.records[i] = Bump(r)]
<1>1. pc = "open" /\ ~old.deleted
    BY Zenon DEF Edit, Select
<1>2. mem \in VaultType /\ mem.used <= Capacity /\ Len(mem.records) <= mem.slots
    BY Zenon DEF Inv, Types
<1>3. copied.used \in Nat /\ copied.used <= Capacity /\ (copied.ok => copied.used = end)
    BY Zenon DEF Result, ArenaType
<1>4. old \in Record /\ mem.records \in Seq(Record)
    BY <1>2 DEF VaultType
<1>5. old.rev \in Nat /\ old.rev <= MaxRev
    BY SMTT(30), <1>4, Positive DEF Record
<1>6. /\ writable \in VaultType /\ writable.used = copied.used
      /\ writable.records = mem.records /\ writable.slots = mem.slots
    BY Zenon, <1>2, <1>3 DEF VaultType
<1>7. CASE old.rev = MaxRev
  <2>1. mem' = mem /\ status' = "LIMIT" /\ pc' = "failed" /\ Kept
      BY <1>5, <1>7, Positive DEF Edit, Apply, Kept
  <2> QED BY Zenon, <1>2, <2>1, FailedStep
<1>8. CASE old.rev < MaxRev /\ ~copied.ok
  <2>1. mem' = writable /\ status' = "LIMIT" /\ pc' = "failed" /\ Kept
      BY <1>5, <1>8 DEF Edit, Apply, Kept
  <2> HIDE DEF writable
  <2> QED BY Zenon, <1>2, <1>3, <1>6, <2>1, FailedStep
<1>9. CASE old.rev < MaxRev /\ copied.ok
  <2>1. mem' = done /\ status' = "OK" /\ pc' = "changed" /\ Kept
      BY <1>5, <1>9 DEF Edit, Apply, Kept
  <2>2. /\ Bump(r) \in Record /\ Bump(r).id = old.id /\ Bump(r).rev = old.rev + 1
        /\ Bump(r).deleted = old.deleted
        /\ Bump(r).title = r.title /\ Bump(r).text = r.text /\ Bump(r).list = r.list
      BY <1>5, <1>9, Positive DEF Bump, Record
  <2>3. Costs(old, Bump(r), k)
      BY Zenon, <2>2 DEF Costs, RecordEnd
  <2> HIDE DEF writable
  <2>4. /\ done \in VaultType /\ done.used = writable.used /\ done.slots = writable.slots
        /\ done.records = [writable.records EXCEPT ![i] = Bump(r)]
      BY SMTT(30), <1>4, <1>6, <2>2 DEF VaultType
  <2>5. /\ mem' \in VaultType /\ mem'.used <= Capacity /\ mem'.slots = mem.slots
        /\ mem'.records = [mem.records EXCEPT ![i] = Bump(r)]
        /\ mem.used + k * Align <= mem'.used + 2 * (Align - 1)
    <3> HIDE DEF done
    <3> QED BY Zenon, <1>3, <1>6, <1>9, <2>1, <2>4
  <2> QED BY Zenon, <1>1, <2>1, <2>2, <2>3, <2>5, ReplacedStep
<1> QED BY <1>5, <1>7, <1>8, <1>9, Positive

LEMMA EditTitleStep ==
    ASSUME Inv, NEW i \in DOMAIN mem.records, EditTitle(i) PROVE Inv' /\ Told
<1>1. PICK n \in 1..MaxText, valid \in BOOLEAN :
          Edit(i, CopyText(Capacity, Arena(mem.used), n),
                  [mem.records[i] EXCEPT !.title = n, !.utf8 = valid])
    BY Zenon DEF EditTitle
<1> DEFINE old == mem.records[i]
           r == [old EXCEPT !.title = n, !.utf8 = valid]
<1>2. /\ n \in Nat /\ Capacity \in Nat /\ mem.used \in Nat /\ mem.used <= Capacity
      /\ old \in Record
    BY Positive DEF Inv, Types, VaultType
<1>3. /\ r \in Record /\ r.id = old.id /\ r.rev = old.rev /\ r.deleted = old.deleted
      /\ r.title = n /\ r.text = old.text /\ r.list = old.list
    BY Zenon, <1>2 DEF Record
<1>4. TextEnd(mem.used, n) = mem.used + TextEnd(0, n) /\ TextEnd(0, n) \in Nat
    BY Zenon, <1>2, TextFrom
<1>5. PICK k \in Nat : TextEnd(0, n) <= k * Align /\ k * Align <= TextEnd(0, n) + Align - 1
    BY Zenon, <1>4, Multiple
<1>6. TextEnd(mem.used, n) \in Nat /\ mem.used + k * Align <= TextEnd(mem.used, n) + 2 * (Align - 1)
    BY <1>2, <1>4, <1>5, Positive
<1>7. Result(Capacity, TextEnd(mem.used, n), CopyText(Capacity, Arena(mem.used), n))
    BY Zenon, <1>2, NewArena, TextResult
<1>8. Edit(i, CopyText(Capacity, Arena(mem.used), n), r)
    BY Zenon, <1>1
<1> HIDE DEF r
<1>9. Costs(old, r, k)
    BY Zenon, <1>2, <1>3, <1>5, TitleCosts
<1> QED BY Zenon, <1>3, <1>6, <1>7, <1>8, <1>9, EditStep

LEMMA EditTextStep ==
    ASSUME Inv, NEW i \in DOMAIN mem.records, EditText(i) PROVE Inv' /\ Told
<1>1. PICK n \in 0..MaxText, valid \in BOOLEAN :
          Edit(i, CopyText(Capacity, Arena(mem.used), n),
                  [mem.records[i] EXCEPT !.text = n, !.utf8 = valid])
    BY Zenon DEF EditText
<1> DEFINE old == mem.records[i]
           r == [old EXCEPT !.text = n, !.utf8 = valid]
<1>2. /\ n \in Nat /\ Capacity \in Nat /\ mem.used \in Nat /\ mem.used <= Capacity
      /\ old \in Record
    BY Positive DEF Inv, Types, VaultType
<1>3. /\ r \in Record /\ r.id = old.id /\ r.rev = old.rev /\ r.deleted = old.deleted
      /\ r.text = n /\ r.title = old.title /\ r.list = old.list
    BY Zenon, <1>2 DEF Record
<1>4. TextEnd(mem.used, n) = mem.used + TextEnd(0, n) /\ TextEnd(0, n) \in Nat
    BY Zenon, <1>2, TextFrom
<1>5. PICK k \in Nat : TextEnd(0, n) <= k * Align /\ k * Align <= TextEnd(0, n) + Align - 1
    BY Zenon, <1>4, Multiple
<1>6. TextEnd(mem.used, n) \in Nat /\ mem.used + k * Align <= TextEnd(mem.used, n) + 2 * (Align - 1)
    BY <1>2, <1>4, <1>5, Positive
<1>7. Result(Capacity, TextEnd(mem.used, n), CopyText(Capacity, Arena(mem.used), n))
    BY Zenon, <1>2, NewArena, TextResult
<1>8. Edit(i, CopyText(Capacity, Arena(mem.used), n), r)
    BY Zenon, <1>1
<1> HIDE DEF r
<1>9. Costs(old, r, k)
    BY Zenon, <1>2, <1>3, <1>5, TextCosts
<1> QED BY Zenon, <1>3, <1>6, <1>7, <1>8, <1>9, EditStep

LEMMA EditListStep ==
    ASSUME Inv, NEW i \in DOMAIN mem.records, EditList(i) PROVE Inv' /\ Told
<1>1. PICK l \in Lists, valid \in BOOLEAN :
          Edit(i, CopyList(Capacity, Arena(mem.used), l),
                  [mem.records[i] EXCEPT !.list = l, !.utf8 = valid])
    BY Zenon DEF EditList
<1> DEFINE old == mem.records[i]
           r == [old EXCEPT !.list = l, !.utf8 = valid]
<1>2. Capacity \in Nat /\ mem.used \in Nat /\ mem.used <= Capacity /\ old \in Record
    BY Positive DEF Inv, Types, VaultType
<1>3. /\ r \in Record /\ r.id = old.id /\ r.rev = old.rev /\ r.deleted = old.deleted
      /\ r.list = l /\ r.title = old.title /\ r.text = old.text
    BY Zenon, <1>2 DEF Record
<1>4. PICK k \in Nat : /\ l # <<>> => Align - 1 + Bytes(l) <= k * Align
                       /\ mem.used + k * Align <= ListEnd(mem.used, l) + 2 * (Align - 1)
  <2>1. CASE l = <<>>
    <3>1. ListEnd(mem.used, l) = mem.used
        BY Zenon, <2>1 DEF ListEnd
    <3>2. mem.used + 0 * Align <= ListEnd(mem.used, l) + 2 * (Align - 1) /\ 0 \in Nat
        BY <1>2, <3>1, Positive
    <3> QED BY Zenon, <2>1, <3>2
  <2>2. CASE l # <<>>
    <3>1. ListEnd(mem.used, l) = RoundUp(mem.used, Align) + Bytes(l)
        BY Zenon, <2>2 DEF ListEnd
    <3>2. RoundUp(mem.used, Align) \in Nat /\ mem.used <= RoundUp(mem.used, Align) /\ Bytes(l) \in Nat
        BY Zenon, <1>2, Rounded, Positive, BytesNat
    <3> DEFINE m == Align - 1 + Bytes(l)
    <3>3. m \in Nat
        BY <3>2, Positive
    <3>4. PICK k \in Nat : m <= k * Align /\ k * Align <= m + Align - 1
      <4> HIDE DEF m
      <4> QED BY Zenon, <3>3, Multiple
    <3>5. mem.used + k * Align <= ListEnd(mem.used, l) + 2 * (Align - 1)
        BY <1>2, <3>1, <3>2, <3>4, Positive
    <3> QED BY Zenon, <3>4, <3>5
  <2> QED BY Zenon, <2>1, <2>2
<1>5. Result(Capacity, ListEnd(mem.used, l), CopyList(Capacity, Arena(mem.used), l))
    BY Zenon, <1>2, NewArena, ListResult
<1>6. ListEnd(mem.used, l) \in Nat
    BY Zenon, <1>2, ListEndNat
<1>7. Edit(i, CopyList(Capacity, Arena(mem.used), l), r)
    BY Zenon, <1>1
<1> HIDE DEF r
<1>8. Costs(old, r, k)
    BY Zenon, <1>2, <1>3, <1>4, ListCosts
<1> QED BY Zenon, <1>3, <1>4, <1>5, <1>6, <1>7, <1>8, EditStep

LEMMA EditFavoriteStep ==
    ASSUME Inv, NEW i \in DOMAIN mem.records, EditFavorite(i) PROVE Inv' /\ Told
<1> DEFINE old == mem.records[i]
           r == [old EXCEPT !.favorite = ~@]
<1>1. Edit(i, Arena(mem.used), r)
    BY Zenon DEF EditFavorite
<1>2. Capacity \in Nat /\ mem.used \in Nat /\ mem.used <= Capacity /\ old \in Record
    BY Positive DEF Inv, Types, VaultType
<1>3. /\ r \in Record /\ r.id = old.id /\ r.rev = old.rev /\ r.deleted = old.deleted
      /\ r.title = old.title /\ r.text = old.text /\ r.list = old.list
    BY Zenon, <1>2 DEF Record
<1>4. Result(Capacity, mem.used, Arena(mem.used))
    BY Zenon, <1>2, NewArena
<1>5. 0 \in Nat /\ mem.used + 0 * Align <= mem.used + 2 * (Align - 1)
    BY <1>2, Positive
<1> HIDE DEF r
<1>6. Costs(old, r, 0)
    BY Zenon, <1>2, <1>3, SameCosts DEF SameTexts
<1> QED BY Zenon, <1>1, <1>2, <1>3, <1>4, <1>5, <1>6, EditStep

LEMMA DeleteStep ==
    ASSUME Inv, NEW i \in DOMAIN mem.records, Delete(i) PROVE Inv' /\ Told
<1> DEFINE old == mem.records[i]
           r == Tombstone(old)
           writable == [mem EXCEPT !.readonly = FALSE]
           done == [writable EXCEPT !.records[i] = r]
<1>1. pc = "open" /\ ~old.deleted
    BY Zenon DEF Delete, Select
<1>2. /\ mem \in VaultType /\ mem.used \in Nat /\ mem.used <= Capacity
      /\ Len(mem.records) <= mem.slots
      /\ mem.records \in Seq(Record) /\ old \in Record
    BY DEF Inv, Types, VaultType
<1>3. old.rev \in Nat /\ old.rev <= MaxRev
    BY <1>2, Positive DEF Record
<1>4. CASE old.rev = MaxRev
  <2>1. mem' = mem /\ status' = "LIMIT" /\ pc' = "failed" /\ Kept
      BY Zenon, <1>4 DEF Delete, Apply, Kept
  <2> QED BY Zenon, <1>2, <2>1, FailedStep
<1>5. CASE old.rev # MaxRev
  <2>1. mem' = done /\ status' = "OK" /\ pc' = "changed" /\ Kept
      BY Zenon, <1>5 DEF Delete, Apply, Kept
  <2>2. <<>> \in Lists
    <3>1. 0 \in 0..MaxItems /\ <<>> \in [1..0 -> 1..MaxText]
        BY Positive
    <3> QED BY Zenon, <3>1 DEF Lists
  <2>3. /\ r \in Record /\ r.id = old.id /\ r.rev = old.rev + 1
        /\ r.title = old.title /\ r.text = 0 /\ r.list = <<>>
    <3> DEFINE c == [old EXCEPT !.rev = @ + 1]
               a == [c EXCEPT !.deleted = TRUE]
               b == [a EXCEPT !.text = 0]
    <3>1. r = [b EXCEPT !.list = <<>>]
        BY Zenon DEF Tombstone
    <3>2. /\ a \in Record /\ a.id = old.id /\ a.rev = old.rev + 1
          /\ a.title = old.title
      <4>1. old.rev + 1 \in 1..MaxRev
          BY <1>3, <1>5, Positive
      <4>2. c \in Record /\ c.id = old.id /\ c.rev = old.rev + 1 /\ c.title = old.title
          BY Zenon, <1>2, <4>1 DEF Record
      <4> HIDE DEF c
      <4> QED BY Zenon, <4>2 DEF Record
    <3> HIDE DEF a
    <3>3. b \in Record /\ b.id = a.id /\ b.rev = a.rev /\ b.title = a.title /\ b.text = 0
        BY <3>2, Positive DEF Record
    <3> HIDE DEF b, r
    <3>4. /\ r \in Record /\ r.id = b.id /\ r.rev = b.rev
          /\ r.title = b.title /\ r.text = b.text /\ r.list = <<>>
        BY Zenon, <3>1, <3>3, <2>2 DEF Record
    <3> QED BY Zenon, <3>2, <3>3, <3>4
  <2>4. 0 \in Nat /\ mem.used + 0 * Align <= mem.used + 2 * (Align - 1)
      BY <1>2, Positive
  <2> HIDE DEF r
  <2>5. Costs(old, r, 0)
      BY Zenon, <1>2, <2>3, BareCosts
  <2>6. /\ done \in VaultType /\ done.used = mem.used /\ done.slots = mem.slots
        /\ done.records = [mem.records EXCEPT ![i] = r]
    <3>1. /\ writable \in VaultType /\ writable.used = mem.used
          /\ writable.records = mem.records /\ writable.slots = mem.slots
        BY Zenon, <1>2 DEF VaultType
    <3> HIDE DEF writable
    <3>2. /\ done \in VaultType /\ done.used = writable.used /\ done.slots = writable.slots
          /\ done.records = [writable.records EXCEPT ![i] = r]
        BY SMTT(30), <1>2, <2>3, <3>1 DEF VaultType
    <3> QED BY Zenon, <3>1, <3>2
  <2> HIDE DEF done
  <2>7. /\ mem' \in VaultType /\ mem'.used <= Capacity /\ mem'.slots = mem.slots
        /\ mem'.records = [mem.records EXCEPT ![i] = r]
        /\ mem.used + 0 * Align <= mem'.used + 2 * (Align - 1)
      BY Zenon, <1>2, <2>1, <2>4, <2>6
  <2> QED BY Zenon, <1>1, <2>1, <2>3, <2>4, <2>5, <2>7, ReplacedStep
<1> QED BY Zenon, <1>4, <1>5

LEMMA AddStep ==
    ASSUME Inv, NEW form \in Forms, NEW id \in Ids, Add(form, id) PROVE Inv' /\ Told
<1> DEFINE r == [id |-> id, rev |-> 1, deleted |-> FALSE, favorite |-> FALSE,
                 title |-> form.title, text |-> form.text, list |-> form.list,
                 utf8 |-> form.utf8]
           x == AddRecord(Capacity, mem, r)
           new == Append(disk, r)
<1>1. pc = "open" /\ ~FindId(mem, id) /\ Apply(x)
    BY Zenon DEF Add
<1>2. /\ mem.records = disk /\ disk \in Seq(Record) /\ Valid(disk) /\ Distinct(disk) /\ Bare(disk)
      /\ Load(Capacity, disk).status = "OK" /\ mem = Load(Capacity, disk).vault
      /\ Sound(Capacity, mem)
    BY Zenon, <1>1, OpenVault
<1>3. r \in Record /\ r.id = id /\ ~r.deleted
    BY Positive DEF Forms, Record
<1> HIDE DEF r
<1>4. Capacity \in Nat
    BY Zenon, Positive
<1>5. Added(Capacity, mem, r, x)
    BY Zenon, <1>2, <1>3, <1>4, AddResult
<1>6. mem' = x.vault /\ status' = x.status /\ Kept
    BY Zenon, <1>1 DEF Apply, Kept
<1>7. /\ x.vault \in VaultType /\ x.vault.used <= Capacity
      /\ Len(x.vault.records) <= x.vault.slots /\ x.vault.used \in Nat
    BY Zenon, <1>4, <1>5, SoundParts DEF Added, Sound
<1>8. CASE x.status # "OK"
  <2>1. pc' = "failed" /\ status' \in {"LIMIT", "FORMAT", "EXISTS"} /\ x.vault.records = mem.records
      BY Zenon, <1>1, <1>5, <1>6, <1>8 DEF Apply, Added
  <2> HIDE DEF x
  <2> QED BY Zenon, <1>6, <1>7, <2>1, FailedStep
<1>9. CASE x.status = "OK"
  <2>1. pc' = "changed" /\ status' = "OK"
      BY Zenon, <1>1, <1>9 DEF Apply
  <2>2. OnDisk' /\ disk' = disk
      BY Zenon, <1>6, DiskKept
  <2>3. mem'.records = new
      BY Zenon, <1>2, <1>5, <1>6, <1>9 DEF Added
  <2>4. /\ Len(disk) \in Nat /\ DOMAIN disk = 1..Len(disk) /\ DOMAIN new = 1..Len(new)
        /\ \A n \in 1..Len(new) : (n \in 1..Len(disk) /\ new[n] = disk[n]) \/ (n \notin 1..Len(disk) /\ new[n] = r)
        /\ \A n \in 1..Len(disk) : n \in 1..Len(new) /\ new[n] = disk[n]
    <3>1. /\ Len(disk) \in Nat /\ DOMAIN disk = 1..Len(disk) /\ DOMAIN new = 1..Len(new)
          /\ Len(new) = Len(disk) + 1 /\ new[Len(disk) + 1] = r
          /\ \A n \in 1..Len(disk) : new[n] = disk[n]
        BY <1>2, <1>3
    <3> HIDE DEF new
    <3>2. \A n \in 1..Len(new) : n \in 1..Len(disk) \/ n = Len(disk) + 1
        BY <3>1
    <3>3. Len(disk) + 1 \notin 1..Len(disk) /\ \A n \in 1..Len(disk) : n \in 1..Len(new)
        BY <3>1
    <3>4. ASSUME NEW n \in 1..Len(new)
          PROVE  (n \in 1..Len(disk) /\ new[n] = disk[n]) \/ (n \notin 1..Len(disk) /\ new[n] = r)
      <4>1. CASE n \in 1..Len(disk)
          BY Zenon, <3>1, <4>1
      <4>2. CASE n = Len(disk) + 1
          BY Zenon, <3>1, <3>3, <4>2
      <4> QED BY Zenon, <3>2, <4>1, <4>2
    <3> QED BY Zenon, <3>1, <3>3, <3>4
  <2>5. \A m, n \in 1..Len(new) : m \notin 1..Len(disk) /\ n \notin 1..Len(disk) => m = n
      BY <1>2, <1>3
  <2>6. \A n \in 1..Len(disk) : disk[n].id # r.id
      BY Zenon, <1>1, <1>2, <1>3, <2>4 DEF FindId
  <2>7. Distinct(new)
    <3> HIDE DEF new
    <3> SUFFICES ASSUME NEW m \in 1..Len(new), NEW n \in 1..Len(new), new[m].id = new[n].id PROVE m = n
        BY Zenon DEF Distinct
    <3>1. CASE m \in 1..Len(disk) /\ n \in 1..Len(disk)
        BY Zenon, <3>1, <1>2, <2>4 DEF Distinct
    <3>2. CASE m \in 1..Len(disk) /\ n \notin 1..Len(disk)
        BY Zenon, <3>2, <2>4, <2>6
    <3>3. CASE m \notin 1..Len(disk) /\ n \in 1..Len(disk)
        BY Zenon, <3>3, <2>4, <2>6
    <3>4. CASE m \notin 1..Len(disk) /\ n \notin 1..Len(disk)
        BY Zenon, <3>4, <2>5
    <3> QED BY Zenon, <3>1, <3>2, <3>3, <3>4
  <2>8. Valid(new) => Fits(mem'.used, new)
    <3>1. Distinct(new) /\ Valid(new) => Fits(mem'.used, new)
        BY Zenon, <1>2, <1>3, <1>6, <1>7, <1>9, AddedFits DEF Fine
    <3> QED BY Zenon, <3>1, <2>7
  <2> HIDE DEF new, x
  <2>9. Bare(new)
    <3>1. \A n \in 1..Len(new) : new[n].deleted => n \in 1..Len(disk) /\ new[n] = disk[n]
        BY Zenon, <1>3, <2>4
    <3>2. Bare(disk)
        BY Zenon, <1>2
    <3> QED BY Zenon, <3>1, <3>2 DEF Bare
  <2>10. Follows(disk, new)
      BY Zenon, <2>4 DEF Follows
  <2>11. Types'
      BY Zenon, <1>6, <1>7, <2>1, DiskKept DEF Types
  <2>12. Opened'
      BY Zenon, <2>1 DEF Opened
  <2>13. Changed'
      BY Zenon, <2>2, <2>3, <2>7, <2>8, <2>10 DEF Changed
  <2>14. Inv'
      BY Zenon, <2>2, <2>3, <2>9, <2>11, <2>12, <2>13 DEF Inv
  <2> QED BY Zenon, <2>1, <2>2, <2>14 DEF Told
<1> QED BY Zenon, <1>8, <1>9

\* A command that is refused before it reaches a record.
LEMMA RefusedStep == ASSUME Inv, Refused PROVE Inv' /\ Told
<1> DEFINE writable == [mem EXCEPT !.readonly = FALSE]
<1>1. /\ mem \in VaultType /\ mem.used <= Capacity /\ Len(mem.records) <= mem.slots
    BY Zenon DEF Inv, Types
<1>2. /\ writable \in VaultType /\ writable.used = mem.used
      /\ writable.records = mem.records /\ writable.slots = mem.slots
    BY Zenon, <1>1 DEF VaultType
<1>3. ASSUME NEW s \in {"IO", "LIMIT", "SECURE_MEMORY"}, Refuse(s, mem) PROVE Inv' /\ Told
  <2>1. mem' = mem /\ status' = s /\ pc' = "failed" /\ Kept
      BY Zenon, <1>3 DEF Refuse, Apply, Kept
  <2> QED BY Zenon, <1>1, <2>1, FailedStep
<1>4. ASSUME NEW s \in {"IO", "LIMIT", "USAGE"}, Refuse(s, writable) PROVE Inv' /\ Told
  <2>1. mem' = writable /\ status' = s /\ pc' = "failed" /\ Kept
      BY Zenon, <1>4 DEF Refuse, Apply, Kept
  <2> HIDE DEF writable
  <2> QED BY Zenon, <1>1, <1>2, <2>1, FailedStep
<1> QED BY Zenon, <1>3, <1>4 DEF Refused

\* The vault cannot be opened for a reason other than its records.
LEMMA UnopenedStep ==
    ASSUME Inv, pc = "closed", sessions < MaxSessions, sessions' = sessions + 1,
           status' \in {"IO", "SECURE_MEMORY"}, UNCHANGED <<pc, mem, disk, needed>>
    PROVE  Inv' /\ Told
<1>1. pc' = pc /\ mem' = mem /\ disk' = disk /\ needed' = needed
    OBVIOUS
<1>2. sessions' \in 0..MaxSessions
    BY Positive DEF Inv, Types
<1>3. OnDisk' /\ Bare(mem'.records)
    BY Zenon, <1>1 DEF Inv, OnDisk, Valid, Distinct, Bare
<1>4. Types'
    BY Zenon, <1>1, <1>2 DEF Inv, Types
<1>5. pc' # "changed" /\ pc' # "open" /\ pc' # "failed"
    BY Zenon, <1>1
<1>6. Opened' /\ Changed'
    BY Zenon, <1>5 DEF Opened, Changed
<1> QED BY Zenon, <1>1, <1>3, <1>4, <1>5, <1>6 DEF Inv, Told

LEMMA OpenedStep ==
    ASSUME Inv, pc = "closed", sessions < MaxSessions, sessions' = sessions + 1,
           status' = Load(Capacity, disk).status,
           pc' = IF Load(Capacity, disk).status = "OK" THEN "open" ELSE "closed",
           mem' = IF Load(Capacity, disk).status = "OK" THEN Load(Capacity, disk).vault ELSE NoVault,
           UNCHANGED <<disk, needed>>
    PROVE  Inv' /\ Told
<1> DEFINE result == Load(Capacity, disk)
<1>1. /\ status' = result.status
      /\ pc' = IF result.status = "OK" THEN "open" ELSE "closed"
      /\ mem' = IF result.status = "OK" THEN result.vault ELSE NoVault
      /\ disk' = disk /\ needed' = needed /\ sessions < MaxSessions /\ sessions' = sessions + 1
    BY Zenon
<1>2. Types /\ OnDisk /\ disk \in Seq(Record) /\ Capacity \in Nat
    BY Zenon, Positive DEF Inv, Types
<1>3. /\ result.status \in {"OK", "LIMIT", "FORMAT", "EXISTS"}
      /\ Sound(Capacity, result.vault)
      /\ result.status = "OK" => result.vault.records = disk
    BY Zenon, <1>2, LoadGives
<1>4. OnDisk'
    BY Zenon, <1>1, <1>2 DEF OnDisk, Valid, Distinct, Bare
<1>5. sessions' \in 0..MaxSessions
    BY <1>1, <1>2, Positive DEF Types
<1> HIDE DEF result
<1>6. mem' \in VaultType /\ mem'.used <= Capacity /\ Len(mem'.records) <= mem'.slots
    BY Zenon, <1>1, <1>3, NoVaultTyped DEF Sound
<1>7. Bare(mem'.records)
    BY Zenon, <1>1, <1>2, <1>3, NoVaultTyped DEF OnDisk
<1>8. Types'
    BY Zenon, <1>1, <1>2, <1>3, <1>5, <1>6 DEF Types
<1>9. pc' # "changed" /\ pc' # "failed" /\ (pc' = "open" => result.status = "OK")
    BY Zenon, <1>1
<1>10. Opened' /\ Changed'
    BY Zenon, <1>1, <1>9 DEF Opened, Changed, result
<1>11. Inv'
    BY Zenon, <1>4, <1>7, <1>8, <1>10 DEF Inv
<1> QED BY Zenon, <1>1, <1>9, <1>11 DEF Told

LEMMA OpenStep == ASSUME Inv, Open PROVE Inv' /\ Told
<1>1. pc = "closed" /\ sessions < MaxSessions /\ sessions' = sessions + 1 /\ UNCHANGED <<disk, needed>>
    BY Zenon DEF Open
<1>2. CASE status' \in {"IO", "SECURE_MEMORY"} /\ UNCHANGED <<pc, mem>>
  <2>1. UNCHANGED <<pc, mem, disk, needed>>
      BY Zenon, <1>1, <1>2
  <2> QED BY Zenon, <1>1, <1>2, <2>1, UnopenedStep
<1>3. CASE /\ status' = Load(Capacity, disk).status
           /\ pc' = IF Load(Capacity, disk).status = "OK" THEN "open" ELSE "closed"
           /\ mem' = IF Load(Capacity, disk).status = "OK" THEN Load(Capacity, disk).vault ELSE NoVault
    BY Zenon, <1>1, <1>3, OpenedStep
<1> QED BY Zenon, <1>2, <1>3 DEF Open

LEMMA SaveStep == ASSUME Inv, Save PROVE Inv' /\ Told
<1>1. pc = "changed" /\ pc' = "saved" /\ sessions' = sessions
    BY Zenon DEF Save
<1>2. /\ Types /\ OnDisk /\ Bare(mem.records) /\ Follows(disk, mem.records)
      /\ Distinct(mem.records) /\ (Valid(mem.records) => Fits(mem.used, mem.records))
    BY Zenon, <1>1 DEF Inv, Changed
<1>3. /\ mem \in VaultType /\ mem.used \in 0..Capacity /\ Len(mem.records) <= mem.slots
      /\ mem.records \in Seq(Record) /\ DOMAIN mem.records = 1..Len(mem.records)
    BY <1>2, Positive DEF Types, VaultType
<1>4. pc' # "changed" /\ pc' # "open" /\ pc' # "failed"
    BY Zenon, <1>1
<1>5. Opened' /\ Changed'
    BY Zenon, <1>4 DEF Opened, Changed
<1>6. CASE /\ Encode(mem.records) = "OK"
           /\ disk' = mem.records /\ status' \in {"OK", "DURABILITY"} /\ needed' = mem.used
           /\ mem' = [mem EXCEPT !.readonly = TRUE]
  <2>1. /\ mem' \in VaultType /\ mem'.used = mem.used
        /\ mem'.records = mem.records /\ mem'.slots = mem.slots
      BY Zenon, <1>3, <1>6 DEF VaultType
  <2>2. Valid(mem.records)
      BY Zenon, <1>3, <1>6 DEF Encode, Valid
  <2>3. OnDisk'
      BY Zenon, <1>2, <1>6, <2>2 DEF OnDisk, Valid, Distinct, Bare
  <2>4. Types'
    <3>1. mem'.used <= Capacity /\ Len(mem'.records) <= mem'.slots
        BY Zenon, <1>2, <2>1 DEF Types
    <3> QED BY Zenon, <1>1, <1>2, <1>3, <1>6, <2>1, <3>1 DEF Types
  <2>5. Inv'
      BY Zenon, <1>2, <1>5, <2>1, <2>3, <2>4 DEF Inv
  <2> QED BY Zenon, <1>2, <1>4, <1>6, <2>5 DEF Told
<1>7. CASE /\ status' \in IF Encode(mem.records) = "OK" THEN {"IO", "SECURE_MEMORY"}
                          ELSE {Encode(mem.records)}
           /\ UNCHANGED <<disk, needed, mem>>
  <2>1. disk' = disk /\ needed' = needed /\ mem' = mem
      BY Zenon, <1>7
  <2>2. status' \in {"IO", "SECURE_MEMORY", "FORMAT", "LIMIT"}
      BY Zenon, <1>7 DEF Encode
  <2>3. OnDisk'
      BY Zenon, <1>2, <2>1 DEF OnDisk, Valid, Distinct, Bare
  <2>4. Types'
      BY Zenon, <1>1, <1>2, <2>1, <2>2 DEF Types
  <2>5. Inv'
      BY Zenon, <1>2, <1>5, <2>1, <2>3, <2>4 DEF Inv
  <2> QED BY Zenon, <1>4, <2>1, <2>5 DEF Told
<1> QED BY Zenon, <1>6, <1>7 DEF Save

LEMMA CloseStep == ASSUME Inv, Close PROVE Inv' /\ Told
<1>1. pc' = "closed" /\ mem' = NoVault /\ status' = status /\ Kept
    BY Zenon DEF Close, Kept
<1>2. pc' # "changed" /\ pc' # "open" /\ pc' # "failed"
    BY Zenon, <1>1
<1>3. Opened' /\ Changed'
    BY Zenon, <1>2 DEF Opened, Changed
<1>4. OnDisk' /\ disk' = disk
    BY Zenon, <1>1, DiskKept
<1>5. Types'
    BY Zenon, <1>1, DiskKept, NoVaultTyped DEF Inv, Types
<1>6. Inv'
    BY Zenon, <1>1, <1>3, <1>4, <1>5, NoVaultTyped DEF Inv
<1> QED BY Zenon, <1>2, <1>4, <1>6 DEF Told

LEMMA SameStep == ASSUME Inv, UNCHANGED vars PROVE Inv' /\ Told
<1>1. pc' = pc /\ status' = status /\ mem' = mem /\ disk' = disk /\ sessions' = sessions /\ needed' = needed
    BY Zenon DEF vars
<1>2. OnDisk' /\ Types'
    BY Zenon, <1>1 DEF Inv, OnDisk, Types, Valid, Distinct, Bare
<1>3. Opened' /\ Changed' /\ Bare(mem'.records)
    BY Zenon, <1>1 DEF Inv, Opened, Changed
<1> QED BY Zenon, <1>1, <1>2, <1>3 DEF Inv, Told

LEMMA NextInv == ASSUME Inv, [Next]_vars PROVE Inv' /\ Told
<1>1. ASSUME NEW form \in Forms, NEW id \in Ids, Add(form, id) PROVE Inv' /\ Told
    BY Zenon, <1>1, AddStep
<1>2. ASSUME NEW i \in DOMAIN mem.records,
             EditTitle(i) \/ EditText(i) \/ EditList(i) \/ EditFavorite(i) \/ Delete(i)
      PROVE  Inv' /\ Told
    BY Zenon, <1>2, EditTitleStep, EditTextStep, EditListStep, EditFavoriteStep, DeleteStep
<1> QED BY Zenon, <1>1, <1>2, OpenStep, RefusedStep, SaveStep, CloseStep, SameStep DEF Next, Rest

-----------------------------------------------------------------------------
LEMMA InvAlways == Spec => []Inv
<1>1. Init => Inv
    BY Zenon, InitInv
<1>2. Inv /\ [Next]_vars => Inv'
    BY Zenon, NextInv
<1> QED BY <1>1, <1>2, PTL DEF Spec

\* The memory of a command is typed, and the arena is never used beyond its
\* capacity, whatever is added, edited and deleted.
THEOREM RecordsTyped == Spec => []TypeOK
<1>1. Inv => TypeOK
    BY Positive DEF Inv, Types, VaultType, TypeOK
<1> QED BY <1>1, InvAlways, PTL

\* What pv_store_save has written holds no secret of a deleted record, and can
\* be loaded into an arena 2 * (Align - 1) bytes larger than what the session
\* that saved it had used.
THEOREM SavedIsAlwaysSound == Spec => []SavedIsSound
<1>1. ASSUME Inv PROVE SavedIsSound
  <2>1. SavedCanBeLoaded
      BY Zenon, <1>1 DEF Inv, OnDisk, Fits, SavedCanBeLoaded
  <2>2. Bare(mem.records) /\ Bare(disk) /\ mem.records \in Seq(Record) /\ disk \in Seq(Record)
      BY Zenon, <1>1 DEF Inv, OnDisk, Types, VaultType
  <2>3. TombstonesAreEmpty
      BY <2>2 DEF Bare, TombstonesAreEmpty, Range
  <2> QED BY Zenon, <2>1, <2>3 DEF SavedIsSound
<1>2. Inv => SavedIsSound
    BY Zenon, <1>1
<1> QED BY <1>2, InvAlways, PTL

\* A command that fails changes neither the file nor the records, no record
\* vanishes, a deleted one stays as it is, and every change of a record moves
\* its revision on by one.
THEOREM HistoryIsKept == Spec => HistoryKept
<1> DEFINE Failed == /\ status' \notin {"OK", "DURABILITY"} => disk' = disk
                     /\ pc' = "failed" => mem'.records = mem.records
           Revised == Follows(disk, disk')
<1>1. Inv /\ [Next]_vars => [Failed]_vars
    BY Zenon, NextInv DEF Told
<1>2. Inv /\ [Next]_vars => [Revised]_disk
    BY Zenon, NextInv DEF Told
<1>3. Spec => [][Failed]_vars
    BY <1>1, InvAlways, PTL DEF Spec
<1>4. Spec => [][Revised]_disk
    BY <1>2, InvAlways, PTL DEF Spec
<1> QED BY Zenon, <1>3, <1>4 DEF HistoryKept, FailureChangesNothing, RevisionsTell, Follows
=============================================================================
