------------------------ MODULE RingVisibilityProofs ------------------------
(***************************************************************************)
(* Proofs about the layout of any ring, and about the visibility of any    *)
(* slot of it.                                                             *)
(***************************************************************************)
EXTENDS RingVisibility, TLAPS

(* --- lines ------------------------------------------------------------- *)

LEMMA ProductsAreOrdered ==
  ASSUME NEW a \in Nat, NEW b \in Nat, NEW c \in Nat
  PROVE  /\ a * c \in Nat /\ b * c \in Nat
         /\ (a + 1) * c = a * c + c /\ (a + b) * c = a * c + b * c
         /\ a <= b => a * c <= b * c
OBVIOUS

LEMMA LinesAreOrdered ==
  ASSUME NEW a \in Nat, NEW b \in Nat
  PROVE  /\ a * LineBytes < b * LineBytes => a < b
         /\ a <= a * LineBytes
<1>1. LineBytes \in Nat /\ LineBytes >= 1
  BY LayoutAssumption
<1>2. ASSUME b <= a PROVE b * LineBytes <= a * LineBytes
  BY <1>1, <1>2, ProductsAreOrdered
<1>3. a <= a * LineBytes
  BY <1>1
<1>4. a * LineBytes \in Nat /\ b * LineBytes \in Nat
  BY <1>1
<1> QED
  BY <1>2, <1>3, <1>4

\* Slot i of an accepted ring begins with a line, and ends before the next one.
LEMMA SlotsLieInOrder ==
  ASSUME NEW base \in Nat, NEW total \in Nat, NEW count \in Nat, NEW stride \in Nat,
         FromRawParts(base, total, count, stride), NEW i \in 0 .. count - 1
  PROVE  /\ Times(i, stride) = i * stride
         /\ i * stride \in Nat /\ i * stride + stride <= count * stride
         /\ count * stride \in Nat /\ count * stride <= total
         /\ \A j \in 0 .. count - 1 : i < j => i * stride + stride <= j * stride
         /\ Plus(Times(i, stride), HeaderBytes) = i * stride + LineBytes
<1>0. LineBytes \in Nat /\ LineBytes >= 1 /\ Word \in Nat
  BY LayoutAssumption
<1>1. i \in Nat /\ i + 1 <= count
  OBVIOUS
<1>2. i * stride \in Nat /\ count * stride \in Nat /\ (i + 1) * stride = i * stride + stride
  BY <1>1, ProductsAreOrdered
<1>3. i * stride + stride <= count * stride
  <2>1. (i + 1) * stride <= count * stride
    BY <1>1, ProductsAreOrdered
  <2> QED
    BY <1>2, <2>1
<1>4. /\ count * stride < Word /\ count * stride <= total
      /\ stride >= LineBytes /\ (stride % LineBytes) = 0
  BY DEF FromRawParts, HeaderBytes
<1>5. Times(i, stride) = i * stride
  <2>1. i * stride < Word
    BY <1>2, <1>3, <1>4, <1>0
  <2> DEFINE x == i * stride
  <2>2. x \in Nat /\ x < Word
    BY <2>1, <1>2
  <2> HIDE DEF x
  <2>3. (x % Word) = x
    BY <2>2, <1>0
  <2> QED
    BY <2>3 DEF x, Times
<1>6. Plus(Times(i, stride), HeaderBytes) = i * stride + LineBytes
  <2> DEFINE x == i * stride + LineBytes
  <2>1. x \in Nat /\ x < Word
    BY <1>0, <1>2, <1>3, <1>4
  <2> HIDE DEF x
  <2>2. (x % Word) = x
    BY <2>1, <1>0
  <2> QED
    BY <1>5, <2>2 DEF x, Plus, HeaderBytes
<1>7. \A j \in 0 .. count - 1 : i < j => i * stride + stride <= j * stride
  <2> SUFFICES ASSUME NEW j \in 0 .. count - 1, i < j
               PROVE  i * stride + stride <= j * stride
    OBVIOUS
  <2>1. (i + 1) * stride <= j * stride
    <3>1. i + 1 \in Nat /\ j \in Nat /\ i + 1 <= j
      OBVIOUS
    <3> QED
      BY <3>1, ProductsAreOrdered
  <2> QED
    BY <1>2, <2>1
<1> QED
  BY <1>2, <1>3, <1>4, <1>5, <1>6, <1>7

LEMMA SlotsBeginWithLines ==
  ASSUME NEW base, NEW total, NEW count \in Nat, NEW stride \in Nat,
         FromRawParts(base, total, count, stride), NEW i \in Nat
  PROVE  \E a, s \in Nat : i * stride = a * LineBytes /\ stride = s * LineBytes
<1>1. LineBytes \in Nat /\ LineBytes >= 1 /\ (stride % LineBytes) = 0
  BY LayoutAssumption DEF FromRawParts
<1> DEFINE s == stride \div LineBytes
<1>2. s \in Nat /\ stride = LineBytes * s
  BY <1>1
<1> HIDE DEF s
<1>3. i * s \in Nat /\ stride = s * LineBytes
  BY <1>1, <1>2
<1>4. i * (s * LineBytes) = (i * s) * LineBytes
  BY <1>1, <1>2
<1> QED
  BY <1>2, <1>3, <1>4

\* A range that begins with line a and ends within line b - 1 covers no others.
LEMMA CoveredLines ==
  ASSUME NEW range, range.byte_length \in Nat, NEW a \in Nat, NEW b \in Nat,
         range.offset = a * LineBytes, End(range) <= b * LineBytes,
         NEW line \in Nat, Covers(range, line)
  PROVE  a <= line /\ line < b
<1>0. LineBytes \in Nat /\ a * LineBytes \in Nat /\ b * LineBytes \in Nat
      /\ line * LineBytes \in Nat /\ (line + 1) * LineBytes \in Nat
  BY LayoutAssumption
<1>1. a * LineBytes < (line + 1) * LineBytes /\ line * LineBytes < End(range)
  BY DEF Covers
<1>2. End(range) \in Nat
  BY <1>0 DEF End
<1>3. line * LineBytes < b * LineBytes
  BY <1>0, <1>1, <1>2
<1>4. a < line + 1 /\ line < b
  BY <1>1, <1>3, LinesAreOrdered
<1> QED
  BY <1>4

\* What from_raw_parts checks is enough for every slot, whatever the base, the size of
\* the mapping, the count and the stride: the ranges that publish and retire hand to
\* VisibilityOps stay inside the mapping, and off the cache lines of other slots.
THEOREM SlotsAlwaysStayApart ==
  ASSUME NEW base \in Nat, NEW total \in Nat, NEW count \in Nat, NEW stride \in Nat
  PROVE  SlotsStayApart(base, total, count, stride)
<1> SUFFICES ASSUME FromRawParts(base, total, count, stride),
                    NEW i \in 0 .. count - 1, NEW n \in 0 .. Capacity(stride)
             PROVE  /\ End(SlotRange(stride, i, n)) <= total
                    /\ End(PayloadRange(stride, i, n)) = End(SlotRange(stride, i, n))
                    /\ \A j \in 0 .. count - 1, m \in 0 .. Capacity(stride), line \in Nat :
                         /\ Covers(SlotRange(stride, i, n), line)
                         /\ Covers(SlotRange(stride, j, m), line)
                         => i = j
                    /\ \A line \in Nat : ~(Covers(HeaderRange(stride, i), line)
                                           /\ Covers(PayloadRange(stride, i, n), line))
  BY DEF SlotsStayApart
<1>0. LineBytes \in Nat /\ LineBytes >= 1 /\ stride >= LineBytes
  BY LayoutAssumption DEF FromRawParts, HeaderBytes
<1>a. ASSUME NEW k \in 0 .. count - 1
      PROVE  /\ Times(k, stride) = k * stride /\ k * stride \in Nat
             /\ k * stride + stride <= total
             /\ Plus(Times(k, stride), HeaderBytes) = k * stride + LineBytes
  <2>1. /\ Times(k, stride) = k * stride /\ k * stride \in Nat /\ count * stride \in Nat
        /\ k * stride + stride <= count * stride /\ count * stride <= total
        /\ Plus(Times(k, stride), HeaderBytes) = k * stride + LineBytes
    BY SlotsLieInOrder
  <2> QED
    BY <2>1
<1>b. ASSUME NEW j \in 0 .. count - 1, NEW k \in 0 .. count - 1, j < k
      PROVE  j * stride + stride <= k * stride
  <2>1. \A l \in 0 .. count - 1 : j < l => j * stride + stride <= l * stride
    BY SlotsLieInOrder
  <2> QED
    BY <1>b, <2>1
<1>c. ASSUME NEW k \in 0 .. count - 1
      PROVE  \E a, s \in Nat : k * stride = a * LineBytes /\ stride = s * LineBytes
  <2>1. k \in Nat
    OBVIOUS
  <2> QED
    BY <2>1, SlotsBeginWithLines
\* The range of a slot lies between two lines.
<1>1. ASSUME NEW k \in 0 .. count - 1, NEW m \in 0 .. Capacity(stride)
      PROVE  /\ SlotRange(stride, k, m).offset = k * stride
             /\ SlotRange(stride, k, m).byte_length \in Nat
             /\ End(SlotRange(stride, k, m)) \in Nat
             /\ End(SlotRange(stride, k, m)) <= k * stride + stride
  <2>1. m \in Nat /\ m + LineBytes <= stride
    BY <1>0 DEF Capacity, HeaderBytes
  <2>2. k * stride \in Nat /\ Times(k, stride) = k * stride
    BY <1>a
  <2>3. SlotRange(stride, k, m).offset = k * stride
        /\ SlotRange(stride, k, m).byte_length = LineBytes + m
    BY <2>2 DEF SlotRange, HeaderBytes
  <2> QED
    BY <1>0, <2>1, <2>2, <2>3 DEF End
<1>2. End(SlotRange(stride, i, n)) <= total
  BY <1>1, <1>a
<1>3. End(PayloadRange(stride, i, n)) = End(SlotRange(stride, i, n))
  <2>1. i * stride \in Nat /\ n \in Nat
    BY <1>0, <1>a DEF Capacity, HeaderBytes
  <2>2. /\ Times(i, stride) = i * stride
        /\ Plus(Times(i, stride), HeaderBytes) = i * stride + LineBytes
    BY <1>a
  <2> QED
    BY <1>0, <2>1, <2>2 DEF End, PayloadRange, SlotRange, HeaderBytes
\* Two slots in order have no line in common.
<1>4. ASSUME NEW j \in 0 .. count - 1, NEW k \in 0 .. count - 1, j < k,
             NEW p \in 0 .. Capacity(stride), NEW m \in 0 .. Capacity(stride),
             NEW line \in Nat,
             Covers(SlotRange(stride, j, p), line), Covers(SlotRange(stride, k, m), line)
      PROVE  FALSE
  <2>1. PICK a \in Nat, s \in Nat : j * stride = a * LineBytes /\ stride = s * LineBytes
    BY <1>c
  <2>2. PICK b \in Nat : k * stride = b * LineBytes
    BY <1>c
  <2>3. (a + s) * LineBytes = j * stride + stride
    BY <2>1, <1>0, ProductsAreOrdered
  <2>4. (a + s) * LineBytes <= b * LineBytes
    BY <1>4, <1>b, <2>2, <2>3
  <2>5. a + s <= b
    BY <2>4, <2>1, <2>2, <1>0, ProductsAreOrdered, LinesAreOrdered
  <2>6. line < a + s
    BY <1>1, <1>4, <2>1, <2>3, CoveredLines
  <2>7. b <= line
    <3>1. /\ SlotRange(stride, k, m).offset = b * LineBytes
          /\ SlotRange(stride, k, m).byte_length \in Nat
      BY <1>1, <2>2
    <3>2. (b + s) * LineBytes = k * stride + stride
      BY <2>1, <2>2, <1>0, ProductsAreOrdered
    <3>3. End(SlotRange(stride, k, m)) <= (b + s) * LineBytes
      BY <1>1, <3>2
    <3> QED
      BY <1>4, <3>1, <3>3, CoveredLines
  <2> QED
    BY <2>5, <2>6, <2>7
<1>5. ASSUME NEW line \in Nat, Covers(HeaderRange(stride, i), line),
             Covers(PayloadRange(stride, i, n), line)
      PROVE  FALSE
  <2>1. PICK a \in Nat : i * stride = a * LineBytes
    BY <1>c
  <2>2. (a + 1) * LineBytes = a * LineBytes + LineBytes /\ a * LineBytes \in Nat
    BY <1>0, ProductsAreOrdered
  <2>3. /\ Times(i, stride) = a * LineBytes
        /\ Plus(Times(i, stride), HeaderBytes) = (a + 1) * LineBytes
    BY <1>a, <2>1, <2>2
  <2>4. line * LineBytes < (a + 1) * LineBytes
    BY <1>0, <1>5, <2>2, <2>3 DEF Covers, End, HeaderRange, SlotRange, HeaderBytes
  <2>5. (a + 1) * LineBytes < (line + 1) * LineBytes
    BY <1>5, <2>3 DEF Covers, PayloadRange
  <2> QED
    BY <2>4, <2>5, LinesAreOrdered
<1>6. ASSUME NEW j \in 0 .. count - 1, NEW m \in 0 .. Capacity(stride), NEW line \in Nat,
             Covers(SlotRange(stride, i, n), line), Covers(SlotRange(stride, j, m), line)
      PROVE  i = j
  <2>1. ~(i < j) /\ ~(j < i)
    BY <1>4, <1>6
  <2> QED
    BY <2>1
<1> QED
  BY <1>2, <1>3, <1>5, <1>6

(* --- the lines of the slot --------------------------------------------- *)

LEMMA RangesOfTheSlot ==
  /\ Header \in Nat /\ Header <= SlotCount * SlotStride /\ SlotCount * SlotStride \in Nat
  /\ \A n \in Nat : /\ SlotRange(SlotStride, Slot, n) =
                         [offset |-> Header * LineBytes, byte_length |-> LineBytes + n]
                    /\ PayloadRange(SlotStride, Slot, n) =
                         [offset |-> Header * LineBytes + LineBytes, byte_length |-> n]
<1>0. LineBytes \in Nat /\ LineBytes >= 1
  BY LayoutAssumption
<1>1. /\ SlotCount \in Nat /\ SlotStride \in Nat /\ Slot \in 0 .. SlotCount - 1
      /\ FromRawParts(LineBytes, SlotCount * SlotStride, SlotCount, SlotStride)
      /\ SlotCount * SlotStride \in Nat /\ Slot \in Nat
  BY VisibilityAssumption
<1>2. /\ Times(Slot, SlotStride) = Slot * SlotStride
      /\ Plus(Times(Slot, SlotStride), HeaderBytes) = Slot * SlotStride + LineBytes
      /\ Slot * SlotStride \in Nat
      /\ Slot * SlotStride + SlotStride <= SlotCount * SlotStride
  BY <1>0, <1>1, SlotsLieInOrder
<1>3. PICK a \in Nat : Slot * SlotStride = a * LineBytes
  BY <1>1, SlotsBeginWithLines
<1>4. a * LineBytes \in Nat /\ (a * LineBytes) \div LineBytes = a
  BY <1>0
<1>5. Header = a
  BY <1>2, <1>3, <1>4 DEF Header, HeaderRange, SlotRange
<1>6. a <= SlotCount * SlotStride
  <2>1. a <= a * LineBytes
    BY LinesAreOrdered
  <2> QED
    BY <1>1, <1>2, <1>3, <2>1
<1> QED
  BY <1>1, <1>2, <1>3, <1>5, <1>6 DEF SlotRange, PayloadRange, HeaderBytes

\* The header has a line of its own, and the flush of a slot covers it with the
\* payload.
LEMMA LinesOfTheSlot ==
  /\ LinesOf(HeaderRange(SlotStride, Slot)) = {Header}
  /\ \A n \in Sizes \cup {0} :
       /\ LinesOf(SlotRange(SlotStride, Slot, n)) = {Header} \cup PayloadLines(n)
       /\ PayloadLines(n) \subseteq Payload
  /\ Header \notin Payload
<1>0. LineBytes \in Nat /\ LineBytes >= 1
  BY LayoutAssumption
<1> DEFINE a == Header
           x == Header * LineBytes
<1>1. /\ a \in Nat /\ a <= SlotCount * SlotStride /\ SlotCount * SlotStride \in Nat
      /\ x \in Nat /\ (a + 1) * LineBytes = x + LineBytes
  BY <1>0, RangesOfTheSlot, ProductsAreOrdered
<1>2. ASSUME NEW n \in Nat, NEW l \in Nat
      PROVE  /\ Covers(SlotRange(SlotStride, Slot, n), l) <=>
                  x < (l + 1) * LineBytes /\ l * LineBytes < x + (LineBytes + n)
             /\ Covers(PayloadRange(SlotStride, Slot, n), l) <=>
                  /\ n > 0 /\ x + LineBytes < (l + 1) * LineBytes
                  /\ l * LineBytes < x + LineBytes + n
  BY <1>0, RangesOfTheSlot DEF Covers, End
<1> HIDE DEF a, x
<1>3. ASSUME NEW l \in Nat
      PROVE  /\ l * LineBytes \in Nat /\ (l + 1) * LineBytes = l * LineBytes + LineBytes
             /\ x < (l + 1) * LineBytes <=> a <= l
             /\ x + LineBytes < (l + 1) * LineBytes <=> a + 1 <= l
             /\ l * LineBytes < x + LineBytes <=> l <= a
  <2>1. l * LineBytes \in Nat /\ (l + 1) * LineBytes = l * LineBytes + LineBytes
    BY <1>0, ProductsAreOrdered
  <2>2. ASSUME a <= l PROVE x <= l * LineBytes
    BY <1>0, <1>1, <2>2, ProductsAreOrdered DEF x, a
  <2>3. ASSUME l <= a PROVE l * LineBytes <= x
    BY <1>0, <1>1, <2>3, ProductsAreOrdered DEF x, a
  <2>4. ASSUME l + 1 <= a PROVE (l + 1) * LineBytes <= x
    <3>1. l + 1 \in Nat
      OBVIOUS
    <3> QED
      BY <1>0, <1>1, <2>4, <3>1, ProductsAreOrdered DEF x, a
  <2>5. ASSUME a + 1 <= l PROVE (a + 1) * LineBytes <= l * LineBytes
    <3>1. a + 1 \in Nat
      BY <1>1
    <3> QED
      BY <1>0, <2>5, <3>1, ProductsAreOrdered
  <2> QED
    BY <1>0, <1>1, <2>1, <2>2, <2>3, <2>4, <2>5
<1>4. Capacity(SlotStride) \in Nat /\ \A n \in Sizes \cup {0} : n \in 0 .. Capacity(SlotStride)
  BY <1>0, VisibilityAssumption DEF Capacity, FromRawParts, HeaderBytes
<1>5. ASSUME NEW l \in Nat
      PROVE  Covers(HeaderRange(SlotStride, Slot), l) <=> l = a
  BY <1>0, <1>1, <1>2, <1>3 DEF HeaderRange
<1>6. LinesOf(HeaderRange(SlotStride, Slot)) = {a}
  BY <1>1, <1>5 DEF LinesOf
<1>7. ASSUME NEW n \in Sizes \cup {0}, NEW l \in Nat
      PROVE  /\ Covers(SlotRange(SlotStride, Slot, n), l) <=>
                  l = a \/ Covers(PayloadRange(SlotStride, Slot, n), l)
             /\ Covers(PayloadRange(SlotStride, Slot, n), l) =>
                  /\ l # a
                  /\ Covers(PayloadRange(SlotStride, Slot, Capacity(SlotStride)), l)
  <2>1. n \in Nat /\ Capacity(SlotStride) \in Nat /\ n <= Capacity(SlotStride)
    BY <1>4
  <2>2. /\ Covers(SlotRange(SlotStride, Slot, n), l) <=>
             a <= l /\ l * LineBytes < x + (LineBytes + n)
        /\ Covers(PayloadRange(SlotStride, Slot, n), l) <=>
             n > 0 /\ a + 1 <= l /\ l * LineBytes < x + LineBytes + n
        /\ Covers(PayloadRange(SlotStride, Slot, Capacity(SlotStride)), l) <=>
             /\ Capacity(SlotStride) > 0 /\ a + 1 <= l
             /\ l * LineBytes < x + LineBytes + Capacity(SlotStride)
    BY <1>2, <1>3, <2>1
  <2> QED
    BY <1>0, <1>1, <1>3, <2>1, <2>2
<1>8. ASSUME NEW n \in Sizes \cup {0}
      PROVE  /\ LinesOf(SlotRange(SlotStride, Slot, n)) = {a} \cup PayloadLines(n)
             /\ PayloadLines(n) \subseteq Payload
  BY <1>1, <1>7 DEF LinesOf, PayloadLines, Payload
<1>9. a \notin Payload
  BY <1>1, <1>2, <1>3, <1>4 DEF LinesOf, PayloadLines, Payload
<1> QED
  BY <1>6, <1>8, <1>9 DEF a

(* --- the inductive invariant ------------------------------------------- *)

LEMMA HeaderViewed ==
  ASSUME TypeOK
  PROVE  /\ View(Header) \in Headers /\ memory[Header] \in Headers
         /\ View(Header).sequence \in Nat /\ memory[Header].sequence \in Nat
         /\ generation \in Nat
BY VisibilityAssumption DEF TypeOK, View, Headers

\* The CPU's store of a header reaches its cache only.
LEMMA HeaderStored ==
  ASSUME TypeOK, NEW h \in Headers, StoreHeader(h)
  PROVE  /\ memory' = memory /\ ours' = ours /\ View(Header)' = h
         /\ cache' = [l \in SlotLines |-> cache'[l]] /\ cache'[Header] = h
         /\ \A l \in Payload : cache'[l] = cache[l]
         /\ dirty' = dirty \cup {Header}
         /\ dirty' \subseteq {l \in SlotLines : cache'[l] # Absent}
<1>1. /\ cache' = [cache EXCEPT ![Header] = h] /\ dirty' = dirty \cup {Header}
      /\ memory' = memory /\ ours' = ours
  BY DEF StoreHeader, Store, ram
<1>2. cache = [l \in SlotLines |-> cache[l]] /\ Header \in SlotLines
  BY DEF TypeOK, SlotLines
<1>3. cache'[Header] = h /\ \A l \in SlotLines \ {Header} : cache'[l] = cache[l]
  BY <1>1, <1>2
<1>4. h # Absent
  BY AbsentAssumption
<1>5. \A l \in Payload : l \in SlotLines \ {Header}
  BY LinesOfTheSlot DEF SlotLines
<1>6. cache' = [l \in SlotLines |-> cache'[l]]
  BY <1>1, <1>2
<1>7. dirty' \subseteq {l \in SlotLines : cache'[l] # Absent}
  BY <1>1, <1>2, <1>3, <1>4 DEF TypeOK
<1>8. View(Header)' = h
  BY <1>3, <1>4 DEF View
<1> QED
  BY <1>1, <1>3, <1>5, <1>6, <1>7, <1>8

\* A header written back is what the CPU saw.
LEMMA HeaderWrittenBack ==
  ASSUME VisibilityInvariant, NEW lines, Clean(lines)
  PROVE  IF Header \in lines THEN memory'[Header] = View(Header)
         ELSE memory'[Header] = memory[Header] /\ ours' = ours
<1>1. cache[Header] \in {Absent, memory[Header]} \/ Header \in dirty
  BY LinesOfTheSlot
     DEF VisibilityInvariant, CacheClear, Clear, SlotLines, TypeOK
<1>2. Header \in dirty => cache[Header] # Absent
  BY DEF VisibilityInvariant, TypeOK
<1>3. memory'[Header] = IF Header \in lines \cap dirty THEN cache[Header] ELSE memory[Header]
  BY DEF Clean, SlotLines
<1>4. CASE Header \in lines
  BY <1>1, <1>2, <1>3, <1>4 DEF View
<1>5. CASE Header \notin lines
  <2>1. ours' = ours
    BY <1>5 DEF Clean, VisibilityInvariant, TypeOK
  <2> QED
    BY <1>3, <1>5, <2>1
<1> QED
  BY <1>4, <1>5

LEMMA ViewStays ==
  ASSUME VisibilityInvariant, NEW lines, Clean(lines),
         cache'[Header] = cache[Header] \/ (Header \in lines /\ cache'[Header] = Absent)
  PROVE  View(Header)' = View(Header)
<1>1. CASE cache'[Header] = Absent
  <2>1. CASE Header \in lines
    BY <1>1, <2>1, HeaderWrittenBack DEF View
  <2>2. CASE Header \notin lines
    BY <1>1, <2>2, HeaderWrittenBack DEF View
  <2> QED
    BY <2>1, <2>2
<1>2. CASE cache'[Header] # Absent
  BY <1>2 DEF View
<1> QED
  BY <1>1, <1>2

LEMMA FetchKeeps ==
  ASSUME VisibilityInvariant, NEW l \in SlotLines, Fetch(l)
  PROVE  VisibilityInvariant'
<1> USE LinesOfTheSlot, VisibilityAssumption, AbsentAssumption
    DEF VisibilityInvariant, TypeOK, CacheClear, Invalidated, GpuInTurn, Opened, PayloadClean,
        SequenceFollows, SizeFollows, HeaderArrives, Fetch, ram, slot, Goto, View,
        Store, StoreHeader, Clean, Discard, Clear, SlotLines, Retirable, Headers,
        Values, Published
<1>1. TypeOK'
  OBVIOUS
<1>2. CacheClear'
  OBVIOUS
<1>3. GpuInTurn'
  OBVIOUS
<1>4. PayloadClean'
  OBVIOUS
<1>5. SequenceFollows'
  OBVIOUS
<1>6. SizeFollows'
  OBVIOUS
<1>7. HeaderArrives'
  OBVIOUS
<1> QED
  BY <1>1, <1>2, <1>3, <1>4, <1>5, <1>6, <1>7 DEF VisibilityInvariant

LEMMA EvictKeeps ==
  ASSUME VisibilityInvariant, NEW l \in SlotLines, Evict(l)
  PROVE  VisibilityInvariant'
<1> DEFINE lines == {l}
<1>a. Clean(lines)
  BY LinesOfTheSlot DEF Evict, VisibilityInvariant, TypeOK
<1>b. cache'[Header] = cache[Header] \/ (Header \in lines /\ cache'[Header] = Absent)
  <2>1. cache' = [cache EXCEPT ![l] = Absent] /\ cache = [k \in SlotLines |-> cache[k]]
    BY DEF Evict, VisibilityInvariant, TypeOK
  <2>2. Header \in SlotLines
    BY DEF SlotLines
  <2>3. CASE l = Header
    BY <2>1, <2>2, <2>3
  <2>4. CASE l # Header
    BY <2>1, <2>2, <2>4
  <2> QED
    BY <2>3, <2>4
<1>c. View(Header)' = View(Header) /\ View(Header).sequence \in Nat
  <2> HIDE DEF lines
  <2>1. View(Header)' = View(Header)
    BY <1>a, <1>b, ViewStays
  <2> QED
    BY <2>1, HeaderViewed DEF VisibilityInvariant
<1>d. IF l = Header THEN memory'[Header] = View(Header)
      ELSE memory'[Header] = memory[Header] /\ ours' = ours
  BY <1>a, HeaderWrittenBack
<1>1. SequenceFollows'
  BY <1>c, <1>d, HeaderViewed
     DEF VisibilityInvariant, TypeOK, CacheClear, Invalidated, GpuInTurn, Opened, PayloadClean,
         SequenceFollows, SizeFollows, HeaderArrives, Evict, slot, Goto
<1>2. SizeFollows'
  BY <1>c, <1>d, HeaderViewed
     DEF VisibilityInvariant, TypeOK, CacheClear, Invalidated, GpuInTurn, Opened, PayloadClean,
         SequenceFollows, SizeFollows, HeaderArrives, Evict, slot, Goto
<1> USE LinesOfTheSlot, VisibilityAssumption, AbsentAssumption
    DEF VisibilityInvariant, TypeOK, CacheClear, Invalidated, GpuInTurn, Opened, PayloadClean,
        SequenceFollows, SizeFollows, HeaderArrives, Evict, ram, slot, Goto, View,
        Store, StoreHeader, Clean, Discard, Clear, SlotLines, Retirable, Headers,
        Values, Published
<1>3. TypeOK'
  OBVIOUS
<1>4. CacheClear'
  OBVIOUS
<1>5. GpuInTurn'
  OBVIOUS
<1>6. PayloadClean'
  OBVIOUS
<1>7. HeaderArrives'
  OBVIOUS
<1> QED
  BY <1>1, <1>2, <1>3, <1>4, <1>5, <1>6, <1>7 DEF VisibilityInvariant

LEMMA TryAcquireKeeps ==
  ASSUME VisibilityInvariant, TryAcquire
  PROVE  VisibilityInvariant'
<1> DEFINE h == View(Header)
<1>a. TypeOK /\ View(Header) \in Headers
  BY HeaderViewed DEF VisibilityInvariant
<1>b. h \in Headers /\ h.sequence \in Nat
  BY <1>a, VisibilityAssumption DEF Headers, TypeOK, Published, TryAcquire
<1>c. h.sequence = View(Header).sequence /\ h.payload_bytes = View(Header).payload_bytes
  BY <1>a DEF Headers
<1>d. StoreHeader(h)
  BY DEF TryAcquire
<1> HIDE DEF h
<1>e. /\ memory' = memory /\ ours' = ours /\ View(Header)' = h
      /\ cache' = [l \in SlotLines |-> cache'[l]] /\ cache'[Header] = h
      /\ \A l \in Payload : cache'[l] = cache[l]
      /\ dirty' = dirty \cup {Header} /\ dirty' \subseteq {l \in SlotLines : cache'[l] # Absent}
  BY <1>a, <1>b, <1>d, HeaderStored
<1> USE <1>a, <1>b, <1>c, <1>e, HeaderViewed, LinesOfTheSlot, VisibilityAssumption
    DEF VisibilityInvariant, TypeOK, CacheClear, Invalidated, GpuInTurn, Opened, PayloadClean,
        SequenceFollows, SizeFollows, HeaderArrives, TryAcquire, slot, Goto, Clear,
        SlotLines, Headers, Published
<1>1. TypeOK'
  OBVIOUS
<1>2. CacheClear'
  OBVIOUS
<1>3. GpuInTurn'
  OBVIOUS
<1>4. PayloadClean'
  OBVIOUS
<1>5. SequenceFollows'
  OBVIOUS
<1>6. SizeFollows'
  OBVIOUS
<1>7. HeaderArrives'
  OBVIOUS
<1> QED
  BY <1>1, <1>2, <1>3, <1>4, <1>5, <1>6, <1>7 DEF VisibilityInvariant

LEMMA PayloadMutKeeps ==
  ASSUME VisibilityInvariant, NEW l \in Payload, PayloadMut(l)
  PROVE  VisibilityInvariant'
<1>1. TypeOK'
  <2> DEFINE v == [by |-> "cpu", at |-> generation]
  <2>1. v \in Values /\ v # Absent
    BY AbsentAssumption DEF VisibilityInvariant, TypeOK, Values
  <2>2. /\ cache' = [cache EXCEPT ![l] = v] /\ dirty' = dirty \cup {l}
        /\ memory' = memory /\ UNCHANGED <<phase, generation, size, gpu, ours>>
    BY DEF PayloadMut, Store, ram, slot
  <2> HIDE DEF v
  <2>3. TypeOK /\ l \in SlotLines /\ l # Header
    BY LinesOfTheSlot DEF VisibilityInvariant, SlotLines
  <2>4. /\ cache' = [k \in SlotLines |-> cache'[k]] /\ cache'[l] = v
        /\ \A k \in SlotLines \ {l} : cache'[k] = cache[k]
    BY <2>2, <2>3 DEF TypeOK
  <2>5. Header \in SlotLines /\ Payload \subseteq SlotLines
    BY DEF SlotLines
  <2> QED
    BY <2>1, <2>2, <2>3, <2>4, <2>5 DEF TypeOK
<1> USE LinesOfTheSlot, VisibilityAssumption, AbsentAssumption
    DEF VisibilityInvariant, TypeOK, CacheClear, Invalidated, GpuInTurn, Opened, PayloadClean,
        SequenceFollows, SizeFollows, HeaderArrives, PayloadMut, ram, slot, Goto,
        View, Store, StoreHeader, Clean, Discard, Clear, SlotLines, Retirable,
        Headers, Values, Published
<1>2. CacheClear'
  OBVIOUS
<1>3. GpuInTurn'
  OBVIOUS
<1>4. PayloadClean'
  OBVIOUS
<1>5. SequenceFollows'
  OBVIOUS
<1>6. SizeFollows'
  OBVIOUS
<1>7. HeaderArrives'
  OBVIOUS
<1> QED
  BY <1>1, <1>2, <1>3, <1>4, <1>5, <1>6, <1>7 DEF VisibilityInvariant

LEMMA DescribeKeeps ==
  ASSUME VisibilityInvariant, NEW n \in Sizes, Describe(n)
  PROVE  VisibilityInvariant'
<1> DEFINE h == [View(Header) EXCEPT !.payload_bytes = n, !.gpu_timeline = 0]
<1>a. TypeOK /\ View(Header) \in Headers
  BY HeaderViewed DEF VisibilityInvariant
<1> DEFINE described == [View(Header) EXCEPT !.payload_bytes = n]
<1>b. h \in Headers /\ h.sequence \in Nat
  <2>1. described \in Headers
    BY <1>a DEF Headers
  <2>2. h = [described EXCEPT !.gpu_timeline = 0]
    BY <1>a DEF Headers
  <2> HIDE DEF described, h
  <2>3. h \in Headers
    BY <2>1, <2>2 DEF Headers
  <2> QED
    BY <2>3, VisibilityAssumption DEF Headers
<1>c. h.sequence = View(Header).sequence /\ h.payload_bytes = n
  BY <1>a DEF Headers
<1>d. StoreHeader(h)
  BY DEF Describe
<1> HIDE DEF h
<1>e. /\ memory' = memory /\ ours' = ours /\ View(Header)' = h
      /\ cache' = [l \in SlotLines |-> cache'[l]] /\ cache'[Header] = h
      /\ \A l \in Payload : cache'[l] = cache[l]
      /\ dirty' = dirty \cup {Header} /\ dirty' \subseteq {l \in SlotLines : cache'[l] # Absent}
  BY <1>a, <1>b, <1>d, HeaderStored
<1> USE <1>a, <1>b, <1>c, <1>e, HeaderViewed, LinesOfTheSlot, VisibilityAssumption
    DEF VisibilityInvariant, TypeOK, CacheClear, Invalidated, GpuInTurn, Opened, PayloadClean,
        SequenceFollows, SizeFollows, HeaderArrives, Describe, slot, Goto, Clear,
        SlotLines, Headers, Published
<1>1. TypeOK'
  OBVIOUS
<1>2. CacheClear'
  OBVIOUS
<1>3. GpuInTurn'
  OBVIOUS
<1>4. PayloadClean'
  OBVIOUS
<1>5. SequenceFollows'
  OBVIOUS
<1>6. SizeFollows'
  OBVIOUS
<1>7. HeaderArrives'
  OBVIOUS
<1> QED
  BY <1>1, <1>2, <1>3, <1>4, <1>5, <1>6, <1>7 DEF VisibilityInvariant

LEMMA MakeGpuVisibleKeeps ==
  ASSUME VisibilityInvariant, MakeGpuVisible
  PROVE  VisibilityInvariant'
<1> DEFINE lines == {Header} \cup PayloadLines(size)
<1>a. Clean(lines)
  BY LinesOfTheSlot DEF MakeGpuVisible, VisibilityInvariant, TypeOK
<1>b. cache'[Header] = cache[Header] \/ (Header \in lines /\ cache'[Header] = Absent)
  BY DEF MakeGpuVisible
<1>l. Header \in lines
  OBVIOUS
<1>c. View(Header)' = View(Header) /\ View(Header).sequence \in Nat
  <2> HIDE DEF lines
  <2>1. View(Header)' = View(Header)
    BY <1>a, <1>b, ViewStays
  <2> QED
    BY <2>1, HeaderViewed DEF VisibilityInvariant
<1>d. memory'[Header] = View(Header)
  BY <1>a, <1>l, HeaderWrittenBack
<1>1. SequenceFollows'
  BY <1>c, <1>d, HeaderViewed
     DEF VisibilityInvariant, TypeOK, CacheClear, Invalidated, GpuInTurn, Opened, PayloadClean,
         SequenceFollows, SizeFollows, HeaderArrives, MakeGpuVisible, slot, Goto
<1>2. SizeFollows'
  BY <1>c, <1>d, HeaderViewed
     DEF VisibilityInvariant, TypeOK, CacheClear, Invalidated, GpuInTurn, Opened, PayloadClean,
         SequenceFollows, SizeFollows, HeaderArrives, MakeGpuVisible, slot, Goto
<1> USE LinesOfTheSlot, VisibilityAssumption, AbsentAssumption
    DEF VisibilityInvariant, TypeOK, CacheClear, Invalidated, GpuInTurn, Opened, PayloadClean,
        SequenceFollows, SizeFollows, HeaderArrives, MakeGpuVisible, ram, slot, Goto,
        View, Store, StoreHeader, Clean, Discard, Clear, SlotLines, Retirable,
        Headers, Values, Published
<1>3. TypeOK'
  OBVIOUS
<1>4. CacheClear'
  OBVIOUS
<1>5. GpuInTurn'
  OBVIOUS
<1>6. PayloadClean'
  OBVIOUS
<1>7. HeaderArrives'
  OBVIOUS
<1> QED
  BY <1>1, <1>2, <1>3, <1>4, <1>5, <1>6, <1>7 DEF VisibilityInvariant

LEMMA SealKeeps ==
  ASSUME VisibilityInvariant, Seal
  PROVE  VisibilityInvariant'
<1> DEFINE h == [View(Header) EXCEPT !.sequence = Published(generation)]
<1>a. TypeOK /\ View(Header) \in Headers
  BY HeaderViewed DEF VisibilityInvariant
<1>b. h \in Headers /\ h.sequence \in Nat
  BY <1>a, VisibilityAssumption DEF Headers, TypeOK, Published, Seal
<1>c. h.sequence = Published(generation) /\ h.payload_bytes = View(Header).payload_bytes
  BY <1>a DEF Headers
<1>d. StoreHeader(h)
  BY DEF Seal
<1> HIDE DEF h
<1>e. /\ memory' = memory /\ ours' = ours /\ View(Header)' = h
      /\ cache' = [l \in SlotLines |-> cache'[l]] /\ cache'[Header] = h
      /\ \A l \in Payload : cache'[l] = cache[l]
      /\ dirty' = dirty \cup {Header} /\ dirty' \subseteq {l \in SlotLines : cache'[l] # Absent}
  BY <1>a, <1>b, <1>d, HeaderStored
<1> USE <1>a, <1>b, <1>c, <1>e, HeaderViewed, LinesOfTheSlot, VisibilityAssumption
    DEF VisibilityInvariant, TypeOK, CacheClear, Invalidated, GpuInTurn, Opened, PayloadClean,
        SequenceFollows, SizeFollows, HeaderArrives, Seal, slot, Goto, Clear,
        SlotLines, Headers, Published
<1>1. TypeOK'
  OBVIOUS
<1>2. CacheClear'
  OBVIOUS
<1>3. GpuInTurn'
  OBVIOUS
<1>4. PayloadClean'
  OBVIOUS
<1>5. SequenceFollows'
  OBVIOUS
<1>6. SizeFollows'
  OBVIOUS
<1>7. HeaderArrives'
  OBVIOUS
<1> QED
  BY <1>1, <1>2, <1>3, <1>4, <1>5, <1>6, <1>7 DEF VisibilityInvariant

LEMMA PublishSlotKeeps ==
  ASSUME VisibilityInvariant, PublishSlot
  PROVE  VisibilityInvariant'
<1> DEFINE lines == {Header}
<1>a. Clean(lines)
  BY LinesOfTheSlot DEF PublishSlot, VisibilityInvariant, TypeOK
<1>b. cache'[Header] = cache[Header] \/ (Header \in lines /\ cache'[Header] = Absent)
  BY DEF PublishSlot
<1>l. Header \in lines
  OBVIOUS
<1>c. View(Header)' = View(Header) /\ View(Header).sequence \in Nat
  <2> HIDE DEF lines
  <2>1. View(Header)' = View(Header)
    BY <1>a, <1>b, ViewStays
  <2> QED
    BY <2>1, HeaderViewed DEF VisibilityInvariant
<1>d. memory'[Header] = View(Header)
  BY <1>a, <1>l, HeaderWrittenBack
<1>1. SequenceFollows'
  BY <1>c, <1>d, HeaderViewed
     DEF VisibilityInvariant, TypeOK, CacheClear, Invalidated, GpuInTurn, Opened, PayloadClean,
         SequenceFollows, SizeFollows, HeaderArrives, PublishSlot, slot, Goto
<1>2. SizeFollows'
  BY <1>c, <1>d, HeaderViewed
     DEF VisibilityInvariant, TypeOK, CacheClear, Invalidated, GpuInTurn, Opened, PayloadClean,
         SequenceFollows, SizeFollows, HeaderArrives, PublishSlot, slot, Goto
<1> USE LinesOfTheSlot, VisibilityAssumption, AbsentAssumption
    DEF VisibilityInvariant, TypeOK, CacheClear, Invalidated, GpuInTurn, Opened, PayloadClean,
        SequenceFollows, SizeFollows, HeaderArrives, PublishSlot, ram, slot, Goto,
        View, Store, StoreHeader, Clean, Discard, Clear, SlotLines, Retirable,
        Headers, Values, Published
<1>3. TypeOK'
  OBVIOUS
<1>4. CacheClear'
  OBVIOUS
<1>5. GpuInTurn'
  OBVIOUS
<1>6. PayloadClean'
  OBVIOUS
<1>7. HeaderArrives'
  OBVIOUS
<1> QED
  BY <1>1, <1>2, <1>3, <1>4, <1>5, <1>6, <1>7 DEF VisibilityInvariant

LEMMA DropKeeps ==
  ASSUME VisibilityInvariant, Drop
  PROVE  VisibilityInvariant'
<1> DEFINE h == [View(Header) EXCEPT !.payload_bytes = 0, !.gpu_timeline = 0]
<1>a. TypeOK /\ View(Header) \in Headers
  BY HeaderViewed DEF VisibilityInvariant
<1> DEFINE described == [View(Header) EXCEPT !.payload_bytes = 0]
<1>b. h \in Headers /\ h.sequence \in Nat
  <2>1. described \in Headers
    BY <1>a DEF Headers
  <2>2. h = [described EXCEPT !.gpu_timeline = 0]
    BY <1>a DEF Headers
  <2> HIDE DEF described, h
  <2>3. h \in Headers
    BY <2>1, <2>2 DEF Headers
  <2> QED
    BY <2>3, VisibilityAssumption DEF Headers
<1>c. h.sequence = View(Header).sequence /\ h.payload_bytes = 0
  BY <1>a DEF Headers
<1>d. StoreHeader(h)
  BY DEF Drop
<1> HIDE DEF h
<1>e. /\ memory' = memory /\ ours' = ours /\ View(Header)' = h
      /\ cache' = [l \in SlotLines |-> cache'[l]] /\ cache'[Header] = h
      /\ \A l \in Payload : cache'[l] = cache[l]
      /\ dirty' = dirty \cup {Header} /\ dirty' \subseteq {l \in SlotLines : cache'[l] # Absent}
  BY <1>a, <1>b, <1>d, HeaderStored
<1> USE <1>a, <1>b, <1>c, <1>e, HeaderViewed, LinesOfTheSlot, VisibilityAssumption
    DEF VisibilityInvariant, TypeOK, CacheClear, Invalidated, GpuInTurn, Opened, PayloadClean,
        SequenceFollows, SizeFollows, HeaderArrives, Drop, slot, Goto, Clear,
        SlotLines, Headers, Published
<1>1. TypeOK'
  OBVIOUS
<1>2. CacheClear'
  OBVIOUS
<1>3. GpuInTurn'
  OBVIOUS
<1>4. PayloadClean'
  OBVIOUS
<1>5. SequenceFollows'
  OBVIOUS
<1>6. SizeFollows'
  OBVIOUS
<1>7. HeaderArrives'
  OBVIOUS
<1> QED
  BY <1>1, <1>2, <1>3, <1>4, <1>5, <1>6, <1>7 DEF VisibilityInvariant

LEMMA GpuStartsKeeps ==
  ASSUME VisibilityInvariant, GpuStarts
  PROVE  VisibilityInvariant'
<1> USE LinesOfTheSlot, VisibilityAssumption, AbsentAssumption
    DEF VisibilityInvariant, TypeOK, CacheClear, Invalidated, GpuInTurn, Opened, PayloadClean,
        SequenceFollows, SizeFollows, HeaderArrives, GpuStarts, ram, slot, Goto,
        View, Store, StoreHeader, Clean, Discard, Clear, SlotLines, Retirable,
        Headers, Values, Published
<1>1. TypeOK'
  OBVIOUS
<1>2. CacheClear'
  OBVIOUS
<1>3. GpuInTurn'
  OBVIOUS
<1>4. PayloadClean'
  OBVIOUS
<1>5. SequenceFollows'
  OBVIOUS
<1>6. SizeFollows'
  OBVIOUS
<1>7. HeaderArrives'
  OBVIOUS
<1> QED
  BY <1>1, <1>2, <1>3, <1>4, <1>5, <1>6, <1>7 DEF VisibilityInvariant

LEMMA GpuFinishesKeeps ==
  ASSUME VisibilityInvariant, GpuFinishes
  PROVE  VisibilityInvariant'
<1> USE LinesOfTheSlot, VisibilityAssumption, AbsentAssumption
    DEF VisibilityInvariant, TypeOK, CacheClear, Invalidated, GpuInTurn, Opened, PayloadClean,
        SequenceFollows, SizeFollows, HeaderArrives, GpuFinishes, ram, slot, Goto,
        View, Store, StoreHeader, Clean, Discard, Clear, SlotLines, Retirable,
        Headers, Values, Published
<1>1. TypeOK'
  OBVIOUS
<1>2. CacheClear'
  OBVIOUS
<1>3. GpuInTurn'
  OBVIOUS
<1>4. PayloadClean'
  OBVIOUS
<1>5. SequenceFollows'
  OBVIOUS
<1>6. SizeFollows'
  OBVIOUS
<1>7. HeaderArrives'
  OBVIOUS
<1> QED
  BY <1>1, <1>2, <1>3, <1>4, <1>5, <1>6, <1>7 DEF VisibilityInvariant

\* The GPU writes only what it was given, also in a slot that publish has lost.
LEMMA GpuKeepsToSize ==
  ASSUME VisibilityInvariant, NEW l \in Payload, GpuWrites(l)
  PROVE  Opened /\ l \in PayloadLines(size)
<1>1. Opened
  BY DEF GpuWrites, VisibilityInvariant, GpuInTurn, Invalidated
<1>2. memory[Header].payload_bytes \in {0, size}
  BY <1>1 DEF Opened, VisibilityInvariant, SizeFollows
<1>3. PayloadLines(0) = {}
  BY DEF PayloadLines, LinesOf, Covers, PayloadRange
<1> QED
  BY <1>1, <1>2, <1>3 DEF GpuWrites

LEMMA GpuWritesKeeps ==
  ASSUME VisibilityInvariant, NEW l \in Payload, GpuWrites(l)
  PROVE  VisibilityInvariant'
<1> USE GpuKeepsToSize, LinesOfTheSlot, VisibilityAssumption, AbsentAssumption
    DEF VisibilityInvariant, TypeOK, CacheClear, Invalidated, GpuInTurn, Opened, PayloadClean,
        SequenceFollows, SizeFollows, HeaderArrives, GpuWrites, ram, slot, Goto,
        View, Store, StoreHeader, Clean, Discard, Clear, SlotLines, Retirable,
        Headers, Values, Published
<1>1. TypeOK'
  OBVIOUS
<1>2. CacheClear'
  OBVIOUS
<1>3. GpuInTurn'
  OBVIOUS
<1>4. PayloadClean'
  OBVIOUS
<1>5. SequenceFollows'
  OBVIOUS
<1>6. SizeFollows'
  OBVIOUS
<1>7. HeaderArrives'
  OBVIOUS
<1> QED
  BY <1>1, <1>2, <1>3, <1>4, <1>5, <1>6, <1>7 DEF VisibilityInvariant

LEMMA MarkInFlightKeeps ==
  ASSUME VisibilityInvariant, MarkInFlight
  PROVE  VisibilityInvariant'
<1> DEFINE h == [View(Header) EXCEPT !.gpu_timeline = 1]
<1>a. TypeOK /\ View(Header) \in Headers
  BY HeaderViewed DEF VisibilityInvariant
<1>b. h \in Headers /\ h.sequence \in Nat
  BY <1>a, VisibilityAssumption DEF Headers, TypeOK, Published, MarkInFlight
<1>c. h.sequence = View(Header).sequence /\ h.payload_bytes = View(Header).payload_bytes
  BY <1>a DEF Headers
<1>d. StoreHeader(h)
  BY DEF MarkInFlight
<1> HIDE DEF h
<1>e. /\ memory' = memory /\ ours' = ours /\ View(Header)' = h
      /\ cache' = [l \in SlotLines |-> cache'[l]] /\ cache'[Header] = h
      /\ \A l \in Payload : cache'[l] = cache[l]
      /\ dirty' = dirty \cup {Header} /\ dirty' \subseteq {l \in SlotLines : cache'[l] # Absent}
  BY <1>a, <1>b, <1>d, HeaderStored
<1> USE <1>a, <1>b, <1>c, <1>e, HeaderViewed, LinesOfTheSlot, VisibilityAssumption
    DEF VisibilityInvariant, TypeOK, CacheClear, Invalidated, GpuInTurn, Opened, PayloadClean,
        SequenceFollows, SizeFollows, HeaderArrives, MarkInFlight, slot, Goto, Clear,
        SlotLines, Headers, Published
<1>1. TypeOK'
  OBVIOUS
<1>2. CacheClear'
  OBVIOUS
<1>3. GpuInTurn'
  OBVIOUS
<1>4. PayloadClean'
  OBVIOUS
<1>5. SequenceFollows'
  OBVIOUS
<1>6. SizeFollows'
  OBVIOUS
<1>7. HeaderArrives'
  OBVIOUS
<1> QED
  BY <1>1, <1>2, <1>3, <1>4, <1>5, <1>6, <1>7 DEF VisibilityInvariant

LEMMA MakeCpuVisibleKeeps ==
  ASSUME VisibilityInvariant, MakeCpuVisible
  PROVE  VisibilityInvariant'
<1> USE LinesOfTheSlot, VisibilityAssumption, AbsentAssumption
    DEF VisibilityInvariant, TypeOK, CacheClear, Invalidated, GpuInTurn, Opened, PayloadClean,
        SequenceFollows, SizeFollows, HeaderArrives, MakeCpuVisible, ram, slot, Goto,
        View, Store, StoreHeader, Clean, Discard, Clear, SlotLines, Retirable,
        Headers, Values, Published
<1>1. TypeOK'
  OBVIOUS
<1>2. CacheClear'
  OBVIOUS
<1>3. GpuInTurn'
  OBVIOUS
<1>4. PayloadClean'
  OBVIOUS
<1>5. SequenceFollows'
  OBVIOUS
<1>6. SizeFollows'
  OBVIOUS
<1>7. HeaderArrives'
  OBVIOUS
<1> QED
  BY <1>1, <1>2, <1>3, <1>4, <1>5, <1>6, <1>7 DEF VisibilityInvariant

LEMMA MakeCpuVisibleFailsKeeps ==
  ASSUME VisibilityInvariant, MakeCpuVisibleFails
  PROVE  VisibilityInvariant'
<1>p. PICK lines \in SUBSET PayloadLines(View(Header).payload_bytes) :
        Retirable /\ Discard(lines) /\ UNCHANGED <<ram, slot, gpu>>
  BY DEF MakeCpuVisibleFails
<1>q. Header \notin lines
  BY LinesOfTheSlot, HeaderViewed DEF VisibilityInvariant, Headers
<1> USE <1>p, <1>q, LinesOfTheSlot, VisibilityAssumption, AbsentAssumption
    DEF VisibilityInvariant, TypeOK, CacheClear, Invalidated, GpuInTurn, Opened, PayloadClean,
        SequenceFollows, SizeFollows, HeaderArrives, ram, slot, Goto, View, Store,
        StoreHeader, Clean, Discard, Clear, SlotLines, Retirable, Headers, Values,
        Published
<1>1. TypeOK'
  OBVIOUS
<1>2. CacheClear'
  OBVIOUS
<1>3. GpuInTurn'
  OBVIOUS
<1>4. PayloadClean'
  OBVIOUS
<1>5. SequenceFollows'
  OBVIOUS
<1>6. SizeFollows'
  OBVIOUS
<1>7. HeaderArrives'
  OBVIOUS
<1> QED
  BY <1>1, <1>2, <1>3, <1>4, <1>5, <1>6, <1>7 DEF VisibilityInvariant

LEMMA RetireClearsKeeps ==
  ASSUME VisibilityInvariant, RetireClears
  PROVE  VisibilityInvariant'
<1> DEFINE h == [View(Header) EXCEPT !.payload_bytes = 0, !.gpu_timeline = 0]
<1>a. TypeOK /\ View(Header) \in Headers
  BY HeaderViewed DEF VisibilityInvariant
<1> DEFINE described == [View(Header) EXCEPT !.payload_bytes = 0]
<1>b. h \in Headers /\ h.sequence \in Nat
  <2>1. described \in Headers
    BY <1>a DEF Headers
  <2>2. h = [described EXCEPT !.gpu_timeline = 0]
    BY <1>a DEF Headers
  <2> HIDE DEF described, h
  <2>3. h \in Headers
    BY <2>1, <2>2 DEF Headers
  <2> QED
    BY <2>3, VisibilityAssumption DEF Headers
<1>c. h.sequence = View(Header).sequence /\ h.payload_bytes = 0
  BY <1>a DEF Headers
<1>d. StoreHeader(h)
  BY DEF RetireClears
<1> HIDE DEF h
<1>e. /\ memory' = memory /\ ours' = ours /\ View(Header)' = h
      /\ cache' = [l \in SlotLines |-> cache'[l]] /\ cache'[Header] = h
      /\ \A l \in Payload : cache'[l] = cache[l]
      /\ dirty' = dirty \cup {Header} /\ dirty' \subseteq {l \in SlotLines : cache'[l] # Absent}
  BY <1>a, <1>b, <1>d, HeaderStored
<1> USE <1>a, <1>b, <1>c, <1>e, HeaderViewed, LinesOfTheSlot, VisibilityAssumption
    DEF VisibilityInvariant, TypeOK, CacheClear, Invalidated, GpuInTurn, Opened, PayloadClean,
        SequenceFollows, SizeFollows, HeaderArrives, RetireClears, slot, Goto, Clear,
        SlotLines, Headers, Published
<1>1. TypeOK'
  OBVIOUS
<1>2. CacheClear'
  OBVIOUS
<1>3. GpuInTurn'
  OBVIOUS
<1>4. PayloadClean'
  OBVIOUS
<1>5. SequenceFollows'
  OBVIOUS
<1>6. SizeFollows'
  OBVIOUS
<1>7. HeaderArrives'
  OBVIOUS
<1> QED
  BY <1>1, <1>2, <1>3, <1>4, <1>5, <1>6, <1>7 DEF VisibilityInvariant

LEMMA FreeKeeps ==
  ASSUME VisibilityInvariant, Free
  PROVE  VisibilityInvariant'
<1> DEFINE h == [View(Header) EXCEPT !.sequence = 2 * (generation + 1)]
<1>a. TypeOK /\ View(Header) \in Headers
  BY HeaderViewed DEF VisibilityInvariant
<1>b. h \in Headers /\ h.sequence \in Nat
  BY <1>a, VisibilityAssumption DEF Headers, TypeOK, Published, Free
<1>c. h.sequence = 2 * (generation + 1) /\ h.payload_bytes = View(Header).payload_bytes
  BY <1>a DEF Headers
<1>d. StoreHeader(h)
  BY DEF Free
<1> HIDE DEF h
<1>e. /\ memory' = memory /\ ours' = ours /\ View(Header)' = h
      /\ cache' = [l \in SlotLines |-> cache'[l]] /\ cache'[Header] = h
      /\ \A l \in Payload : cache'[l] = cache[l]
      /\ dirty' = dirty \cup {Header} /\ dirty' \subseteq {l \in SlotLines : cache'[l] # Absent}
  BY <1>a, <1>b, <1>d, HeaderStored
<1> USE <1>a, <1>b, <1>c, <1>e, HeaderViewed, LinesOfTheSlot, VisibilityAssumption
    DEF VisibilityInvariant, TypeOK, CacheClear, Invalidated, GpuInTurn, Opened, PayloadClean,
        SequenceFollows, SizeFollows, HeaderArrives, Free, slot, Goto, Clear,
        SlotLines, Headers, Published
<1>1. TypeOK'
  OBVIOUS
<1>2. CacheClear'
  OBVIOUS
<1>3. GpuInTurn'
  OBVIOUS
<1>4. PayloadClean'
  OBVIOUS
<1>5. SequenceFollows'
  OBVIOUS
<1>6. SizeFollows'
  OBVIOUS
<1>7. HeaderArrives'
  OBVIOUS
<1> QED
  BY <1>1, <1>2, <1>3, <1>4, <1>5, <1>6, <1>7 DEF VisibilityInvariant

LEMMA VisibilityAtFirst == Init => VisibilityInvariant
<1> SUFFICES ASSUME Init PROVE VisibilityInvariant
  OBVIOUS
<1>1. Header \in SlotLines /\ Payload \subseteq SlotLines /\ Header \notin Payload
      /\ PayloadLines(size) \subseteq Payload
  BY LinesOfTheSlot DEF SlotLines, Init
<1>2. PICK h \in Headers : memory = [l \in SlotLines |-> IF l = Header THEN h ELSE Blank]
  BY DEF Init
<1>3. cache = [l \in SlotLines |-> IF l = Header THEN Fresh ELSE Absent] /\ dirty = {Header}
  BY DEF Init
<1>4. Fresh \in Headers /\ Blank \in Values /\ Fresh # Absent
  BY AbsentAssumption, VisibilityAssumption DEF Fresh, Blank, Headers, Values
<1>5. memory[Header] = h /\ cache[Header] = Fresh /\ View(Header) = Fresh
  BY <1>1, <1>2, <1>3, <1>4 DEF View
<1>6. \A l \in Payload : memory[l] = Blank /\ cache[l] = Absent /\ l \notin dirty
  BY <1>1, <1>2, <1>3
<1>7. TypeOK
  <2>1. memory = [l \in SlotLines |-> memory[l]] /\ cache = [l \in SlotLines |-> cache[l]]
    BY <1>2, <1>3
  <2>2. dirty \subseteq {l \in SlotLines : cache[l] # Absent}
    BY <1>1, <1>3, <1>4, <1>5
  <2>3. generation \in 0 .. MaxGeneration /\ size \in Sizes \cup {0}
    BY VisibilityAssumption DEF Init
  <2> QED
    BY <1>4, <1>5, <1>6, <2>1, <2>2, <2>3 DEF TypeOK, Init
<1>8. CacheClear
  BY <1>3, <1>6 DEF CacheClear, Clear, SlotLines
<1>9. GpuInTurn /\ PayloadClean /\ SizeFollows /\ HeaderArrives
  BY DEF Init, GpuInTurn, Opened, PayloadClean, SizeFollows, HeaderArrives, Invalidated
<1>10. SequenceFollows
  BY DEF Init, SequenceFollows
<1> QED
  BY <1>7, <1>8, <1>9, <1>10 DEF VisibilityInvariant

LEMMA VisibilityStutters ==
  VisibilityInvariant /\ UNCHANGED vars => VisibilityInvariant'
BY DEF vars, ram, slot, VisibilityInvariant, TypeOK, CacheClear, Invalidated, Clear, GpuInTurn,
       Opened, PayloadClean, SequenceFollows, SizeFollows, HeaderArrives, View

LEMMA VisibilityKept == VisibilityInvariant /\ [Next]_vars => VisibilityInvariant'
<1> SUFFICES ASSUME VisibilityInvariant, [Next]_vars PROVE VisibilityInvariant'
  OBVIOUS
<1>1. CASE \E l \in SlotLines : Fetch(l) \/ Evict(l)
  BY <1>1, FetchKeeps, EvictKeeps
<1>2. CASE TryAcquire \/ Drop
  BY <1>2, TryAcquireKeeps, DropKeeps
<1>3. CASE \E l \in Payload : PayloadMut(l) \/ GpuWrites(l)
  BY <1>3, PayloadMutKeeps, GpuWritesKeeps
<1>4. CASE \E n \in Sizes : Describe(n)
  BY <1>4, DescribeKeeps
<1>5. CASE MakeGpuVisible \/ Seal \/ PublishSlot
  BY <1>5, MakeGpuVisibleKeeps, SealKeeps, PublishSlotKeeps
<1>6. CASE GpuStarts \/ GpuFinishes \/ MarkInFlight
  BY <1>6, GpuStartsKeeps, GpuFinishesKeeps, MarkInFlightKeeps
<1>7. CASE MakeCpuVisible \/ MakeCpuVisibleFails \/ RetireClears \/ Free
  BY <1>7, MakeCpuVisibleKeeps, MakeCpuVisibleFailsKeeps, RetireClearsKeeps, FreeKeeps
<1>8. CASE UNCHANGED vars
  BY <1>8, VisibilityStutters
<1> QED
  BY <1>1, <1>2, <1>3, <1>4, <1>5, <1>6, <1>7, <1>8 DEF Next

\* In every state, whatever the cache wrote back, dropped or loaded: what the CPU reads
\* and what memory shows differ only by what the CPU has yet to write back, and the
\* header follows the steps of publish and retire on both sides.
THEOREM VisibilityIsInductive == Spec => []VisibilityInvariant
BY VisibilityAtFirst, VisibilityKept, PTL DEF Spec

\* From the moment publish returns, the GPU finds the header of this publication.
THEOREM HeaderAlwaysArrives == Spec => []HeaderArrives
<1>1. VisibilityInvariant => HeaderArrives
  BY DEF VisibilityInvariant
<1> QED
  BY <1>1, VisibilityIsInductive, PTL

\* The ownership marker that reaches memory never runs ahead of the payload.
THEOREM SequenceNeverAhead == Spec => []SequenceNeverAheadOfData
<1>1. VisibilityInvariant => SequenceNeverAheadOfData
  <2> SUFFICES ASSUME VisibilityInvariant, ours, phase \notin {"free", "invalidated", "cleared"},
                      gpu = "idle", memory[Header].sequence = Published(generation),
                      NEW l \in PayloadLines(memory[Header].payload_bytes)
               PROVE  memory[l] = View(l)
    BY DEF SequenceNeverAheadOfData
  <2>1. generation \in Nat /\ View(Header).sequence \in Nat
    BY HeaderViewed DEF VisibilityInvariant
  <2>2. phase \in {"sealed", "lost", "published"}
    <3>1. Published(generation) <= View(Header).sequence
      BY DEF VisibilityInvariant, SequenceFollows
    <3>2. phase \notin {"writing", "described", "visible"}
      BY <2>1, <3>1 DEF VisibilityInvariant, SequenceFollows, Published
    <3> QED
      BY <3>2 DEF VisibilityInvariant, TypeOK
  <2>3. memory[Header].payload_bytes \in {0, size}
    BY <2>2 DEF VisibilityInvariant, SizeFollows
  <2>4. PayloadLines(0) = {}
    BY DEF PayloadLines, LinesOf, Covers, PayloadRange
  <2>5. l \in PayloadLines(size) /\ l \in SlotLines
    BY <2>3, <2>4, LinesOfTheSlot DEF VisibilityInvariant, TypeOK, SlotLines
  <2>6. Clear(l) /\ l \notin dirty
    BY <2>2, <2>5 DEF VisibilityInvariant, CacheClear, PayloadClean
  <2> QED
    BY <2>6 DEF Clear, View
<1> QED
  BY <1>1, VisibilityIsInductive, PTL

(* --- the slot as its users see it -------------------------------------- *)

LEMMA ContentTyped ==
  ASSUME VisibilityInvariant
  PROVE  /\ Content \in [Payload -> Values] /\ Handed \subseteq Payload
         /\ Owner \in {"cpu", "gpu"} /\ PayloadLines(size) \subseteq Payload
<1>1. PayloadLines(size) \subseteq Payload
  BY LinesOfTheSlot DEF VisibilityInvariant, TypeOK
<1>2. \A l \in Payload : memory[l] \in Values /\ View(l) \in Values
  BY DEF VisibilityInvariant, TypeOK, View
<1> QED
  BY <1>1, <1>2 DEF Content, Handed, Owner, Opened, Invalidated

\* What its owner reads in a line depends on memory and, unless the line is handed
\* to the GPU, on the CPU's view.
LEMMA ContentStays ==
  ASSUME \A l \in Payload : IF l \in Handed THEN memory'[l] = memory[l]
                                            ELSE View(l)' = View(l),
         Handed' = Handed
  PROVE  Content' = Content
BY DEF Content

LEMMA HeaderStoreKeepsContent ==
  ASSUME VisibilityInvariant, NEW h \in Headers, StoreHeader(h), Handed' = Handed
  PROVE  Content' = Content
<1>1. memory' = memory /\ \A l \in Payload : cache'[l] = cache[l]
  BY HeaderStored DEF VisibilityInvariant
<1>2. \A l \in Payload : View(l)' = View(l)
  BY <1>1 DEF View
<1> QED
  BY <1>1, <1>2, ContentStays

\* A line that is clean or written back reads the same from memory as before.
LEMMA ClearLineReads ==
  ASSUME VisibilityInvariant, NEW l \in Payload, Clear(l), l \notin dirty
  PROVE  memory[l] = View(l)
BY DEF Clear, View

LEMMA WriteBackKeepsContent ==
  ASSUME VisibilityInvariant, NEW lines, Clean(lines), Handed' = Handed,
         \A l \in Payload : cache'[l] = cache[l] \/ (l \in lines /\ cache'[l] = Absent)
  PROVE  Content' = Content
<1> SUFFICES ASSUME NEW l \in Payload
             PROVE  IF l \in Handed THEN memory'[l] = memory[l] ELSE View(l)' = View(l)
  BY ContentStays
<1>1. memory'[l] = IF l \in lines \cap dirty THEN cache[l] ELSE memory[l]
  BY DEF Clean, SlotLines
<1>2. CASE l \in Handed
  BY <1>1, <1>2 DEF Handed, Owner, Opened, Invalidated, VisibilityInvariant, PayloadClean
<1>3. CASE l \notin Handed
  <2>1. l \in dirty \/ cache[l] \in {Absent, memory[l]}
    BY <1>3 DEF Handed, Owner, Opened, Invalidated, VisibilityInvariant, CacheClear, Clear,
                GpuInTurn, SlotLines
  <2>2. l \in dirty => cache[l] # Absent
    BY DEF VisibilityInvariant, TypeOK
  <2> QED
    BY <1>1, <1>3, <2>1, <2>2 DEF View
<1> QED
  BY <1>2, <1>3

\* No step of the cache changes what the owner of a line reads in it.
LEMMA CacheIsUnseen ==
  ASSUME VisibilityInvariant, NEW l \in SlotLines, Fetch(l) \/ Evict(l)
  PROVE  UNCHANGED <<Owner, Handed, Content>>
<1>1. UNCHANGED <<Owner, Handed>>
  BY DEF Fetch, Evict, slot, Owner, Handed, Opened, Invalidated
<1>2. cache = [k \in SlotLines |-> cache[k]] /\ Payload \subseteq SlotLines
  BY DEF VisibilityInvariant, TypeOK, SlotLines
<1>3. CASE Fetch(l)
  <2>1. memory' = memory /\ \A k \in Payload : View(k)' = View(k)
    BY <1>2, <1>3 DEF Fetch, ram, View
  <2> QED
    BY <1>1, <2>1, ContentStays
<1>4. CASE Evict(l)
  <2> DEFINE lines == {l}
  <2>1. /\ Clean(lines)
        /\ \A k \in Payload : cache'[k] = cache[k] \/ (k \in lines /\ cache'[k] = Absent)
    BY <1>2, <1>4 DEF Evict
  <2> HIDE DEF lines
  <2> QED
    BY <1>1, <2>1, WriteBackKeepsContent
<1> QED
  BY <1>1, <1>3, <1>4

\* The producer's other steps on the header and its flushes change nothing for either.
LEMMA ProducerIsUnseen ==
  ASSUME VisibilityInvariant,
         \/ TryAcquire \/ Drop \/ (\E n \in Sizes : Describe(n))
         \/ MakeGpuVisible \/ PublishSlot
  PROVE  UNCHANGED <<Owner, Handed, Content>>
<1>1. UNCHANGED <<Owner, Handed>>
  BY DEF TryAcquire, Drop, Describe, MakeGpuVisible, PublishSlot, Goto, Owner, Handed,
         Opened, Invalidated
<1>2. View(Header) \in Headers /\ generation \in 0 .. MaxGeneration
  BY HeaderViewed DEF VisibilityInvariant, TypeOK
<1>3. CASE TryAcquire
  BY <1>1, <1>2, <1>3, HeaderStoreKeepsContent DEF TryAcquire
<1>4. CASE Drop
  <2>1. [View(Header) EXCEPT !.payload_bytes = 0, !.gpu_timeline = 0] \in Headers
    BY <1>2 DEF Headers
  <2> QED
    BY <1>1, <1>4, <2>1, HeaderStoreKeepsContent DEF Drop
<1>5. ASSUME NEW n \in Sizes, Describe(n) PROVE Content' = Content
  <2>1. [View(Header) EXCEPT !.payload_bytes = n, !.gpu_timeline = 0] \in Headers
    BY <1>2 DEF Headers
  <2> QED
    BY <1>1, <1>5, <2>1, HeaderStoreKeepsContent DEF Describe
<1>6. CASE PublishSlot
  BY <1>1, <1>6, WriteBackKeepsContent DEF PublishSlot
<1>7. CASE MakeGpuVisible
  BY <1>1, <1>7, WriteBackKeepsContent DEF MakeGpuVisible
<1> QED
  BY <1>1, <1>3, <1>4, <1>5, <1>6, <1>7

\* The payload is in memory when the odd sequence is stored.
LEMMA SealHandsOver ==
  ASSUME VisibilityInvariant, Seal
  PROVE  Shared!HandOver
<1>1. Owner = "cpu" /\ Owner' = "gpu" /\ Handed' = PayloadLines(size) /\ Handed = {}
  BY DEF Seal, Goto, Owner, Handed, Opened, Invalidated
<1>2. gpu = "idle"
  BY DEF Seal, VisibilityInvariant, GpuInTurn, Opened, Invalidated
<1> DEFINE h == [View(Header) EXCEPT !.sequence = Published(generation)]
<1>3. h \in Headers
  <2>1. View(Header) \in Headers /\ generation \in 0 .. MaxGeneration
    BY HeaderViewed DEF VisibilityInvariant, TypeOK
  <2> QED
    BY <2>1, VisibilityAssumption DEF Headers, Published
<1>4. StoreHeader(h)
  BY DEF Seal
<1>5. memory' = memory /\ \A l \in Payload : cache'[l] = cache[l]
  <2> HIDE DEF h
  <2> QED
    BY <1>3, <1>4, HeaderStored DEF VisibilityInvariant
<1>6. ASSUME NEW l \in Payload
      PROVE  /\ View(l)' = View(l)
             /\ l \in PayloadLines(size) => memory'[l] = View(l)
  <2>1. l \in PayloadLines(size) => Clear(l) /\ l \notin dirty
    BY <1>2 DEF Seal, VisibilityInvariant, CacheClear, PayloadClean, SlotLines
  <2> QED
    BY <1>5, <2>1, ClearLineReads DEF View
<1>7. Content' = Content
  BY <1>1, <1>6 DEF Content
<1> QED
  BY <1>1, <1>7, ContentTyped DEF Shared!HandOver

LEMMA RetireTakesBack ==
  ASSUME VisibilityInvariant, Free
  PROVE  Shared!TakeBack
<1>1. Owner = "gpu" /\ Owner' = "cpu" /\ Handed = PayloadLines(size) /\ Handed' = {}
  BY DEF Free, Goto, Owner, Handed, Opened, Invalidated
<1>2. ASSUME NEW l \in Payload
      PROVE  /\ View(l)' = View(l)
             /\ l \in PayloadLines(size) => memory[l] = View(l)
  <2> DEFINE h == [View(Header) EXCEPT !.sequence = 2 * (generation + 1)]
  <2> DEFINE s == 2 * (generation + 1)
  <2>0. View(Header) \in Headers /\ s \in 0 .. 2 * MaxGeneration + 2
    <3>1. View(Header) \in Headers /\ generation \in 0 .. MaxGeneration
      BY HeaderViewed DEF VisibilityInvariant, TypeOK
    <3>2. MaxGeneration \in Nat
      BY VisibilityAssumption
    <3> QED
      BY <3>1, <3>2
  <2>1. h \in Headers
    <3> HIDE DEF s
    <3>1. [View(Header) EXCEPT !.sequence = s] \in Headers
      BY <2>0 DEF Headers
    <3> QED
      BY <3>1 DEF s
  <2>2. StoreHeader(h)
    BY DEF Free
  <2> HIDE DEF h
  <2>3. memory' = memory /\ cache'[l] = cache[l]
    BY <2>1, <2>2, HeaderStored DEF VisibilityInvariant
  <2>4. Clear(l) /\ (l \in PayloadLines(size) => l \notin dirty)
    BY DEF Free, VisibilityInvariant, CacheClear, Invalidated, PayloadClean, SlotLines
  <2> QED
    BY <2>3, <2>4, ClearLineReads DEF View
<1>3. Content' = Content
  BY <1>1, <1>2 DEF Content
<1> QED
  BY <1>1, <1>3 DEF Shared!TakeBack

LEMMA PayloadMutWrites ==
  ASSUME VisibilityInvariant, NEW l \in Payload, PayloadMut(l)
  PROVE  Shared!CpuWrites
<1> DEFINE v == [by |-> "cpu", at |-> generation]
<1>1. v \in Values /\ v # Absent
  BY AbsentAssumption DEF VisibilityInvariant, TypeOK, Values
<1>2. /\ cache' = [cache EXCEPT ![l] = v] /\ memory' = memory
      /\ UNCHANGED <<phase, size>> /\ phase = "writing"
  BY DEF PayloadMut, Store, ram, slot
<1> HIDE DEF v
<1>3. Owner = "cpu" /\ Handed = {} /\ UNCHANGED <<Owner, Handed>>
  BY <1>2 DEF Owner, Handed, Opened, Invalidated
<1>4. cache = [k \in SlotLines |-> cache[k]] /\ Payload \subseteq SlotLines
  BY DEF VisibilityInvariant, TypeOK, SlotLines
<1>5. View(l)' = v /\ \A k \in Payload \ {l} : View(k)' = View(k)
  BY <1>1, <1>2, <1>4 DEF View
<1>6. Content' = [Content EXCEPT ![l] = v]
  BY <1>3, <1>5 DEF Content
<1> QED
  BY <1>1, <1>3, <1>6 DEF Shared!CpuWrites, Shared!Write

LEMMA GpuStepIsGpuWrite ==
  ASSUME VisibilityInvariant, NEW l \in Payload, GpuWrites(l)
  PROVE  Shared!GpuWrites
<1> DEFINE v == [by |-> "gpu", at |-> generation]
<1>1. v \in Values
  BY DEF VisibilityInvariant, TypeOK, Values
<1>2. memory' = [memory EXCEPT ![l] = v] /\ cache' = cache /\ UNCHANGED <<phase, size>>
  BY DEF GpuWrites, slot
<1> HIDE DEF v
<1>3. Opened /\ l \in PayloadLines(size)
  BY GpuKeepsToSize
<1>4. /\ Owner = "gpu" /\ Handed = PayloadLines(size) /\ UNCHANGED <<Owner, Handed>>
      /\ l \in Handed
  BY <1>2, <1>3 DEF Owner, Handed, Opened
<1>5. memory = [k \in SlotLines |-> memory[k]] /\ Payload \subseteq SlotLines
  BY DEF VisibilityInvariant, TypeOK, SlotLines
<1>6. memory'[l] = v /\ \A k \in Payload \ {l} : memory'[k] = memory[k] /\ View(k)' = View(k)
  BY <1>2, <1>5 DEF View
<1>7. Content' = [Content EXCEPT ![l] = v]
  BY <1>4, <1>6 DEF Content
<1> QED
  BY <1>1, <1>4, <1>7 DEF Shared!GpuWrites, Shared!Write

\* The lines that retire invalidates are the GPU's: nobody reads them in the cache.
LEMMA DiscardKeepsContent ==
  ASSUME VisibilityInvariant, Retirable, memory' = memory, Handed' = Handed,
         NEW lines \in SUBSET PayloadLines(View(Header).payload_bytes), Discard(lines)
  PROVE  Content' = Content
<1>1. lines \subseteq Handed
  BY DEF Retirable, VisibilityInvariant, SizeFollows, Handed, Owner, Opened, Invalidated
<1>2. \A l \in Payload \ lines : cache'[l] = cache[l]
  BY DEF Discard, SlotLines
<1>3. \A l \in Payload : IF l \in Handed THEN memory'[l] = memory[l] ELSE View(l)' = View(l)
  BY <1>1, <1>2 DEF View
<1> QED
  BY <1>3, ContentStays

\* While the slot is published, only GpuWrites changes what the GPU reads.
LEMMA ExecutorIsUnseen ==
  ASSUME VisibilityInvariant,
         \/ GpuStarts \/ GpuFinishes \/ MarkInFlight
         \/ MakeCpuVisible \/ MakeCpuVisibleFails \/ RetireClears
  PROVE  UNCHANGED <<Owner, Handed, Content>>
<1>1. UNCHANGED <<Owner, Handed>>
  BY DEF GpuStarts, GpuFinishes, MarkInFlight, MakeCpuVisible, MakeCpuVisibleFails,
         RetireClears, Retirable, slot, Goto, Owner, Handed, Opened, Invalidated
<1>2. CASE GpuStarts \/ GpuFinishes
  BY <1>1, <1>2, ContentStays DEF GpuStarts, GpuFinishes, ram, View
<1>3. CASE MarkInFlight
  <2>1. [View(Header) EXCEPT !.gpu_timeline = 1] \in Headers
    BY HeaderViewed DEF VisibilityInvariant, Headers
  <2> QED
    BY <1>1, <1>3, <2>1, HeaderStoreKeepsContent DEF MarkInFlight
<1>4. CASE MakeCpuVisible
  BY <1>1, <1>4, DiscardKeepsContent DEF MakeCpuVisible, ram
<1>5. CASE MakeCpuVisibleFails
  <2>1. PICK lines \in SUBSET PayloadLines(View(Header).payload_bytes) : Discard(lines)
    BY <1>5 DEF MakeCpuVisibleFails
  <2> QED
    BY <1>1, <1>5, <2>1, DiscardKeepsContent DEF MakeCpuVisibleFails, ram
<1>6. CASE RetireClears
  <2>1. [View(Header) EXCEPT !.payload_bytes = 0, !.gpu_timeline = 0] \in Headers
    BY HeaderViewed DEF VisibilityInvariant, Headers
  <2> QED
    BY <1>1, <1>6, <2>1, HeaderStoreKeepsContent DEF RetireClears
<1> QED
  BY <1>1, <1>2, <1>3, <1>4, <1>5, <1>6

\* With the flushes and invalidations of publish and retire, a slot on a mapping that
\* is not coherent is, for those who use it, memory passed back and forth.
THEOREM RingImplementsSharedSlot == Spec => ImplementsSharedSlot
<1>1. Init => Shared!Init
  <2> SUFFICES ASSUME Init PROVE Shared!Init
    OBVIOUS
  <2>1. Owner = "cpu" /\ Handed = {}
    BY DEF Init, Owner, Handed, Opened, Invalidated
  <2> QED
    BY <2>1, VisibilityAtFirst, ContentTyped DEF Shared!Init, Shared!TypeOK
<1>2. VisibilityInvariant /\ [Next]_vars => [Shared!Next]_(Shared!vars)
  <2> SUFFICES ASSUME VisibilityInvariant, [Next]_vars
               PROVE  Shared!Next \/ UNCHANGED <<Owner, Handed, Content>>
    BY DEF Shared!vars
  <2>1. CASE \E l \in SlotLines : Fetch(l) \/ Evict(l)
    BY <2>1, CacheIsUnseen
  <2>2. CASE \/ TryAcquire \/ Drop \/ (\E n \in Sizes : Describe(n))
             \/ MakeGpuVisible \/ PublishSlot
    BY <2>2, ProducerIsUnseen
  <2>3. CASE \E l \in Payload : PayloadMut(l) \/ GpuWrites(l)
    BY <2>3, PayloadMutWrites, GpuStepIsGpuWrite DEF Shared!Next
  <2>4. CASE Seal
    BY <2>4, SealHandsOver DEF Shared!Next
  <2>5. CASE \/ GpuStarts \/ GpuFinishes \/ MarkInFlight
             \/ MakeCpuVisible \/ MakeCpuVisibleFails \/ RetireClears
    BY <2>5, ExecutorIsUnseen
  <2>6. CASE Free
    BY <2>6, RetireTakesBack DEF Shared!Next
  <2>7. CASE UNCHANGED vars
    BY <2>7 DEF vars, ram, slot, Owner, Handed, Opened, Content, View
  <2> QED
    BY <2>1, <2>2, <2>3, <2>4, <2>5, <2>6, <2>7 DEF Next
<1> QED
  BY <1>1, <1>2, VisibilityIsInductive, PTL DEF Spec, ImplementsSharedSlot, Shared!Spec
=============================================================================
