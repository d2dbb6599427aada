-------------------------- MODULE RegionScanProofs --------------------------
(***************************************************************************)
(* For any mappings, chunk, page and value sizes, and whatever the reads   *)
(* return: no address is listed twice, and what is compared lies inside a  *)
(* region.  The regions are in the order of their addresses, and what has  *)
(* been compared lies in earlier ones, or before the base.                 *)
(* Every read starts at a page, so that no value straddles two, and what   *)
(* has been passed is compared or lies behind a failed read.               *)
(*                                                                         *)
(* For any memory and bound on the keys, the first key that scan_xor_keys  *)
(* returns makes a scan find the known number most often: a scan with a    *)
(* key finds exactly the slots that vote for the key.                      *)
(***************************************************************************)
EXTENDS XorKeys, ValueMatchProofs, FiniteSetTheorems, NumberFacts

\* Where the slots compared so far are.
Placed == \A a \in compared : \E i \in Regions :
              /\ i <= region
              /\ Maps[i].start <= a /\ a + Size <= Maps[i].end
              /\ i = region => a < base

IInv == /\ TypeOK
        /\ ~Done => Cur.start <= base
        /\ Placed
        /\ found \subseteq compared
        /\ IsFiniteSet(compared)
        /\ EachOnce

\* Mappings have bounds.
LEMMA MapsBounds == /\ Len(Maps) \in Nat
                    /\ \A i \in 1 .. Len(Maps) : Maps[i].start \in Nat /\ Maps[i].end \in Nat
<1>1. Len(Maps) \in Nat /\ \A i \in 1 .. Len(Maps) : Maps[i] \in Mapping
  BY MapsAssumption
<1> QED
  BY <1>1 DEF Mapping

\* The next region is one behind, and none is when there is no other.
LEMMA RegionAfterIn == ASSUME NEW i \in Int
                       PROVE  /\ RegionAfter(i) \in Behind(i) \cup {Len(Maps) + 1}
                              /\ RegionAfter(i) \in Regions \cup {Len(Maps) + 1}
<1>1. CASE Behind(i) = {}
  BY <1>1 DEF RegionAfter
<1>2. CASE Behind(i) # {}
  <2>1. Behind(i) \in SUBSET Nat
    BY MapsBounds DEF Behind, Regions
  <2>2. \E j \in Behind(i) : \A k \in Behind(i) : j <= k
    BY <1>2, <2>1, LeastOne
  <2> QED
    BY <1>2, <2>2 DEF RegionAfter, Behind
<1> QED
  BY <1>1, <1>2

\* While a region is scanned, everything compared lies before the base.
LEMMA ComparedBehind == ASSUME IInv, ~Done
                        PROVE  /\ region \in Regions /\ region \in 1 .. Len(Maps)
                               /\ Cur.start \in Nat /\ Cur.end \in Nat
                               /\ \A a \in compared : a < base
<1>1. region \in Regions /\ region \in 1 .. Len(Maps)
  BY MapsBounds DEF IInv, TypeOK, Done, Regions
<1>2. ASSUME NEW a \in compared PROVE a < base
  <2>1. PICK i \in Regions : /\ i <= region
                             /\ Maps[i].start <= a /\ a + Size <= Maps[i].end
                             /\ i = region => a < base
    BY DEF IInv, Placed
  <2>2. /\ i \in 1 .. Len(Maps) /\ a \in Nat /\ base \in Nat /\ Cur.start <= base
        /\ Maps[i].end \in Nat /\ Cur.start \in Nat /\ Size \in Nat \ {0}
    BY <1>1, MapsBounds, SizesAssumption DEF IInv, TypeOK, Done, Cur, Regions
  <2>3. i < region => Maps[i].end <= Cur.start
    BY <1>1, <2>2, PagesAssumption DEF Cur
  <2> QED
    BY <1>1, <2>1, <2>2, <2>3, MapsBounds
<1> QED
  BY <1>1, <1>2, MapsBounds DEF Cur

\* A buffer's slots lie in it, and they are finitely many.
LEMMA SlotsIn == ASSUME base \in Nat, NEW n \in Nat
                 PROVE  /\ \A a \in Slots(n) : a \in Nat /\ base <= a /\ a + Size <= base + n
                        /\ IsFiniteSet(Slots(n))
<1>1. Align \in Nat \ {0} /\ Size \in Nat \ {0}
  BY SizesAssumption
<1>2. OffStart \in Nat
  <2>1. base % Align \in 0 .. Align - 1
    BY <1>1
  <2> QED
    BY <1>1, <2>1 DEF OffStart
<1>3. Slots(n) \subseteq base + OffStart .. base + n - Size
  BY DEF Slots
<1>4. IsFiniteSet(base + OffStart .. base + n - Size)
  BY <1>1, <1>2, FS_Interval
<1>5. IsFiniteSet(Slots(n))
  BY <1>3, <1>4, FS_Subset
<1> QED
  BY <1>1, <1>2, <1>3, <1>5

\* Init establishes the invariant.
LEMMA InitIInv == Init => IInv
<1> SUFFICES ASSUME Init PROVE IInv
  OBVIOUS
<1>1. region \in Regions \cup {Len(Maps) + 1}
  BY RegionAfterIn DEF Init
<1>2. ~Done => region \in 1 .. Len(Maps)
  BY <1>1, MapsBounds DEF Done, Regions
<1>3. base \in Nat /\ (~Done => Cur.start <= base)
  <2>1. base = FirstBase(region)
    BY DEF Init
  <2>2. CASE Done
    BY <1>1, <2>1, <2>2, MapsBounds DEF FirstBase, Done, Regions
  <2>3. CASE ~Done
    <3>1. region \in 1 .. Len(Maps) /\ Maps[region].start \in Nat
      BY <1>2, <2>3, MapsBounds
    <3> QED
      BY <2>1, <2>3, <3>1, MapsBounds DEF FirstBase, Cur
  <2> QED
    BY <2>2, <2>3
<1>4. TypeOK
  BY <1>1, <1>3 DEF Init, TypeOK
<1>5. IsFiniteSet(compared) /\ EachOnce
  BY FS_EmptySet DEF Init, EachOnce
<1> QED
  BY <1>3, <1>4, <1>5 DEF IInv, Placed, Init

\* The choice of regions does not change while they are scanned.
LEMMA SameRegions == ASSUME writable' = writable
                     PROVE  /\ Regions' = Regions
                            /\ \A i : RegionAfter(i)' = RegionAfter(i)
BY DEF Regions, RegionAfter, Behind, Listed

\* At the end of a region everything compared lies in an earlier one.
LEMMA NextRegionIInv == IInv /\ NextRegion => IInv'
<1> SUFFICES ASSUME IInv, NextRegion PROVE IInv'
  OBVIOUS
<1>1. Regions' = Regions /\ UNCHANGED <<writable, compared, found, reported, failed>>
  BY SameRegions DEF NextRegion
<1>2. ~Done /\ region \in 1 .. Len(Maps) /\ Len(Maps) \in Nat
  BY ComparedBehind, MapsBounds DEF NextRegion
<1>3. region' = RegionAfter(region) /\ base' = FirstBase(region')
  BY DEF NextRegion, NextIndex
<1>4. /\ region' \in Behind(region) \cup {Len(Maps) + 1}
      /\ region' \in Regions \cup {Len(Maps) + 1}
  BY <1>2, <1>3, RegionAfterIn
<1>5. region < region'
  BY <1>2, <1>4 DEF Behind
<1>6. base' \in Nat /\ (~Done' => Cur'.start <= base')
  BY <1>3, <1>4, MapsBounds DEF FirstBase, Done, Cur, Regions
<1>7. TypeOK'
  BY <1>1, <1>4, <1>6 DEF IInv, TypeOK
<1>8. Placed'
  <2> SUFFICES ASSUME NEW a \in compared
               PROVE  \E i \in Regions : /\ i <= region'
                                         /\ Maps[i].start <= a /\ a + Size <= Maps[i].end
                                         /\ i = region' => a < base'
    BY <1>1 DEF Placed
  <2>1. PICK i \in Regions : /\ i <= region
                             /\ Maps[i].start <= a /\ a + Size <= Maps[i].end
    BY DEF IInv, Placed
  <2>2. i <= region' /\ i # region'
    BY <1>2, <1>4, <1>5, <2>1 DEF Regions
  <2> QED
    BY <2>1, <2>2
<1> QED
  BY <1>1, <1>6, <1>7, <1>8 DEF IInv, EachOnce

\* A failed read moves the base on.
LEMMA ReadFailsIInv == IInv /\ ReadFails => IInv'
<1> SUFFICES ASSUME IInv, ReadFails PROVE IInv'
  OBVIOUS
<1>1. Regions' = Regions /\ UNCHANGED <<writable, region, compared, found, reported>>
  BY SameRegions DEF ReadFails
<1>2. /\ base \in Nat /\ base' \in Nat /\ base < base'
      /\ Cur.start \in Nat /\ Cur.start <= base
  BY SizesAssumption, ComparedBehind DEF ReadFails, IInv, TypeOK
<1>3. TypeOK'
  BY <1>1, <1>2 DEF IInv, TypeOK, ReadFails
<1>4. Placed'
  <2> SUFFICES ASSUME NEW a \in compared
               PROVE  \E i \in Regions : /\ i <= region
                                         /\ Maps[i].start <= a /\ a + Size <= Maps[i].end
                                         /\ i = region => a < base'
    BY <1>1 DEF Placed
  <2>1. a < base /\ a \in Nat
    BY ComparedBehind DEF ReadFails, IInv, TypeOK
  <2> QED
    BY <1>2, <2>1 DEF IInv, Placed
<1> QED
  BY <1>1, <1>2, <1>3, <1>4 DEF IInv, EachOnce, Done, Cur

\* A chunk adds slots of the region that lie between the base and the next.
LEMMA ReadChunkIInv == ASSUME IInv, NEW got \in Gots, NEW hits \in SUBSET Slots(got),
                              ReadChunk(got, hits)
                       PROVE  IInv'
<1>1. Regions' = Regions /\ UNCHANGED <<writable, region, failed>>
  BY SameRegions DEF ReadChunk
<1>2. /\ region \in Regions /\ region \in 1 .. Len(Maps)
      /\ Cur.start \in Nat /\ Cur.end \in Nat /\ Cur.start <= base
      /\ \A a \in compared : a < base
  BY ComparedBehind DEF ReadChunk, IInv
<1>3. /\ base \in Nat /\ got \in Nat /\ Size \in Nat \ {0} /\ Chunk \in Nat
      /\ base' = base + got /\ base + got <= Cur.end
  <2>1. base \in Nat /\ Chunk \in Nat \ {0} /\ Size \in Nat \ {0} /\ got \in 1 .. Chunk
    BY SizesAssumption DEF IInv, TypeOK, Gots
  <2> QED
    BY <1>2, <2>1 DEF ReadChunk, After, ToRead
<1>4. /\ \A a \in Slots(got) : a \in Nat /\ base <= a /\ a + Size <= Cur.end /\ a < base'
      /\ IsFiniteSet(Slots(got))
  BY <1>2, <1>3, SlotsIn
<1>5. IsFiniteSet(hits) /\ Cardinality(hits) \in Nat
  BY <1>4, FS_Subset, FS_CardinalityType
<1>6. IsFiniteSet(found) /\ found \cap hits = {}
  <2>1. \A a \in found : a \in Nat /\ a < base
    BY <1>2 DEF IInv, TypeOK
  <2> QED
    BY <1>3, <1>4, <2>1, FS_Subset DEF IInv
<1>7. TypeOK'
  <2>1. base' \in Nat /\ reported' \in Nat
    BY <1>3, <1>5 DEF IInv, TypeOK, ReadChunk
  <2>2. compared' \subseteq Nat /\ found' \subseteq Nat
    BY <1>4 DEF IInv, TypeOK, ReadChunk
  <2> QED
    BY <1>1, <2>1, <2>2 DEF IInv, TypeOK
<1>8. Placed'
  <2> SUFFICES ASSUME NEW a \in compared \cup Slots(got)
               PROVE  \E i \in Regions : /\ i <= region
                                         /\ Maps[i].start <= a /\ a + Size <= Maps[i].end
                                         /\ i = region => a < base'
    BY <1>1 DEF Placed, ReadChunk
  <2>1. CASE a \in compared
    <3>1. a \in Nat /\ a < base'
      BY <1>2, <1>3, <2>1 DEF IInv, TypeOK
    <3> QED
      BY <2>1, <3>1 DEF IInv, Placed
  <2>2. CASE a \in Slots(got)
    <3>1. Cur.start <= a /\ a + Size <= Cur.end /\ a < base'
      BY <1>2, <1>3, <1>4, <2>2
    <3> QED
      BY <1>2, <3>1 DEF Cur
  <2> QED
    BY <2>1, <2>2
<1>9. found' \subseteq compared' /\ IsFiniteSet(compared')
  BY <1>4, FS_Union DEF IInv, ReadChunk
<1>10. EachOnce'
  <2>1. Cardinality(found \cup hits)
            = Cardinality(found) + Cardinality(hits) - Cardinality(found \cap hits)
    BY <1>5, <1>6, FS_Union, Zenon
  <2>2. Cardinality(found) \in Nat /\ Cardinality(found \cap hits) = 0
    BY <1>6, FS_CardinalityType, FS_EmptySet, Zenon
  <2> QED
    BY <1>5, <2>1, <2>2 DEF IInv, EachOnce, ReadChunk
<1>11. (~Done => Cur.start <= base)'
  BY <1>1, <1>2, <1>3 DEF Cur
<1> QED
  BY <1>7, <1>8, <1>9, <1>10, <1>11 DEF IInv

\* Every step keeps the invariant.
THEOREM ScanInductive == Spec => []IInv
<1>1. ASSUME IInv, [Next]_vars PROVE IInv'
  <2>1. CASE NextRegion
    BY <1>1, <2>1, NextRegionIInv
  <2>2. CASE ReadFails
    BY <1>1, <2>2, ReadFailsIInv
  <2>3. ASSUME NEW got \in Gots, NEW hits \in SUBSET Slots(got), ReadChunk(got, hits)
        PROVE  IInv'
    BY <1>1, <2>3, ReadChunkIInv
  <2>4. CASE UNCHANGED vars
    BY <1>1, <2>4 DEF vars, IInv, TypeOK, Placed, EachOnce, Done, Cur, Regions, Listed
  <2> QED
    BY <1>1, <2>1, <2>2, <2>3, <2>4 DEF Next
<1> QED
  BY <1>1, InitIInv, PTL DEF Spec

\* The region scanned is one that get_maps returned, for any mappings and sizes.
THEOREM ScanTypes == Spec => []TypeOK
<1>1. IInv => TypeOK
  BY DEF IInv
<1> QED
  BY <1>1, ScanInductive, PTL

\* The results of a first scan list no address twice, whatever the reads return.
THEOREM ListedOnce == Spec => []EachOnce
<1>1. IInv => EachOnce
  BY DEF IInv
<1> QED
  BY <1>1, ScanInductive, PTL

\* Nothing outside one readable mapping of the process itself is compared.
THEOREM ComparedInside == Spec => []InsideRegions
<1>1. IInv => InsideRegions
  BY DEF IInv, Placed, InsideRegions, Regions, Listed
<1> QED
  BY <1>1, ScanInductive, PTL

-----------------------------------------------------------------------------
(* The slots that the scan has passed *)

\* Every read starts at a page: mappings, chunks and short reads are of pages.
AtPage == ~Done => base % Page = 0

\* What the next step needs: the invariant, the alignment and the claim.
LostInv == IInv /\ AtPage /\ NothingLost

\* There is no region between two that follow each other.
LEMMA NoneBetween == ASSUME NEW i \in Int, NEW j \in Regions, i < j
                     PROVE  RegionAfter(i) <= j
<1>1. j \in Behind(i)
  BY DEF Behind
<1>2. Behind(i) \in SUBSET Nat
  BY MapsBounds DEF Behind, Regions
<1>3. \E n \in Behind(i) : \A k \in Behind(i) : n <= k
  BY <1>1, <1>2, LeastOne
<1> QED
  BY <1>1, <1>3 DEF RegionAfter

\* Every region starts at a page.
LEMMA FirstAtPage == ASSUME NEW i \in Regions PROVE FirstBase(i) % Page = 0
BY PagesAssumption, MapsBounds DEF Regions, FirstBase

\* A slot between the base and the end of what was read is in the buffer.
LEMMA SlotRead == ASSUME base \in Nat, base % Page = 0, NEW got \in Gots,
                         NEW a \in base .. base + got - 1, a % Align = 0
                  PROVE  a \in Slots(got)
<1>1. /\ Align \in Nat \ {0} /\ Page \in Nat \ {0} /\ Size \in Nat \ {0} /\ Size <= Align
      /\ Page % Align = 0 /\ got \in Nat /\ got % Page = 0 /\ a \in Nat /\ base <= a
      /\ a < base + got
  BY SizesAssumption DEF Gots
<1>2. base % Align = 0 /\ got % Align = 0
  BY <1>1, MultipleOfMultiple
<1>3. OffStart = 0
  BY <1>2 DEF OffStart
<1>4. a + Align <= base + got
  <2>1. (base + got) % Align = 0
    BY <1>1, <1>2, SumOfMultiples
  <2>2. base + got \in Nat
    BY <1>1
  <2> QED
    BY <1>1, <2>1, <2>2, NextMultiple
<1>5. (a - base) % Align = 0
  BY <1>1, <1>2, DifferenceOfMultiples
<1>6. a \in base .. base + got - Size /\ a - base - 0 = a - base
  BY <1>1, <1>4
<1> QED
  BY <1>3, <1>5, <1>6 DEF Slots

\* Before the first read nothing has been passed.
LEMMA InitLost == Init => LostInv
<1> SUFFICES ASSUME Init PROVE LostInv
  OBVIOUS
<1>1. IInv
  BY InitIInv
<1>2. AtPage
  BY <1>1, FirstAtPage DEF IInv, TypeOK, Init, AtPage, Done
<1>3. NothingLost
  <2>1. ASSUME NEW i \in Regions PROVE Passed(i) = Maps[i].start
    <3>1. i \in 1 .. Len(Maps) /\ region <= i
      BY NoneBetween DEF Init, Regions
    <3>2. region = RegionAfter(0) /\ RegionAfter(0) \in Int
      BY RegionAfterIn, MapsBounds DEF Init, Regions
    <3> QED
      BY <3>1, <3>2 DEF Passed, Init, FirstBase
  <2>2. ASSUME NEW i \in Regions PROVE Maps[i].start .. Passed(i) - 1 = {}
    BY <2>1, <2>2, MapsBounds DEF Regions
  <2> QED
    BY <2>2 DEF NothingLost
<1> QED
  BY <1>1, <1>2, <1>3 DEF LostInv

\* A region that ends has been passed whole, and the next one not at all.
LEMMA NextRegionLost == LostInv /\ NextRegion => LostInv'
<1> SUFFICES ASSUME LostInv, NextRegion PROVE LostInv'
  OBVIOUS
<1>1. IInv /\ IInv'
  BY NextRegionIInv DEF LostInv
<1>2. Regions' = Regions /\ UNCHANGED <<writable, compared, failed>>
  BY SameRegions DEF NextRegion
<1>3. /\ region \in 1 .. Len(Maps) /\ region \in Regions /\ Len(Maps) \in Nat
      /\ base \in Nat /\ Cur.end <= base
  BY <1>1, ComparedBehind, MapsBounds DEF NextRegion, AtEnd, IInv, TypeOK
<1>4. region' = RegionAfter(region) /\ base' = FirstBase(region')
  BY DEF NextRegion, NextIndex
<1>5. region' \in Regions \cup {Len(Maps) + 1} /\ region < region'
  BY <1>3, <1>4, RegionAfterIn DEF Behind
<1>6. AtPage'
  BY <1>4, <1>5, FirstAtPage DEF AtPage, Done
<1>7. NothingLost'
  <2> SUFFICES ASSUME NEW i \in Regions, NEW a \in Maps[i].start .. Passed(i)' - 1,
                      a % Align = 0, a + Size <= Maps[i].end
               PROVE  a \in compared \/ \E f \in failed : f <= a /\ a < f + Chunk
    BY <1>2 DEF NothingLost
  <2>1. i \in 1 .. Len(Maps) /\ Maps[i].start \in Nat /\ Maps[i].end \in Nat
    BY MapsBounds DEF Regions
  <2>2. i <= region \/ region' <= i
    BY <1>3, <1>4, <2>1, NoneBetween
  <2>3. CASE i <= region
    <3>1. Passed(i)' = Maps[i].end
      BY <1>3, <1>5, <2>1, <2>3 DEF Passed, Regions
    <3>2. Maps[i].end <= Passed(i) /\ Passed(i) \in Nat
      BY <1>3, <2>1, <2>3 DEF Passed, Cur
    <3>3. a \in Maps[i].start .. Passed(i) - 1
      BY <2>1, <3>1, <3>2
    <3> QED
      BY <3>3 DEF LostInv, NothingLost
  <2>4. CASE region' <= i
    <3>1. Passed(i)' = Maps[i].start
      BY <1>4, <1>5, <2>1, <2>4 DEF Passed, FirstBase, Regions
    <3> QED
      BY <2>1, <3>1
  <2> QED
    BY <2>2, <2>3, <2>4
<1> QED
  BY <1>1, <1>6, <1>7 DEF LostInv

\* A chunk that is skipped began at a page that could not be read.
LEMMA ReadFailsLost == LostInv /\ ReadFails => LostInv'
<1> SUFFICES ASSUME LostInv, ReadFails PROVE LostInv'
  OBVIOUS
<1>1. IInv /\ IInv'
  BY ReadFailsIInv DEF LostInv
<1>2. Regions' = Regions /\ UNCHANGED <<writable, region, compared>>
  BY SameRegions DEF ReadFails
<1>3. /\ region \in Nat /\ base \in Nat /\ Chunk \in Nat \ {0} /\ Page \in Nat \ {0}
      /\ base' = base + Chunk /\ failed' = failed \cup {base}
  BY <1>1, SizesAssumption, MapsBounds DEF ReadFails, IInv, TypeOK, Regions
<1>4. AtPage'
  BY <1>2, <1>3, SizesAssumption, SumOfMultiples DEF LostInv, AtPage, Done
<1>5. NothingLost'
  <2> SUFFICES ASSUME NEW i \in Regions, NEW a \in Maps[i].start .. Passed(i)' - 1,
                      a % Align = 0, a + Size <= Maps[i].end
               PROVE  \/ a \in compared
                      \/ \E f \in failed \cup {base} : f <= a /\ a < f + Chunk
    BY <1>2, <1>3 DEF NothingLost
  <2>1. i \in Nat /\ Maps[i].start \in Nat /\ Maps[i].end \in Nat
    BY MapsBounds DEF Regions
  <2>2. CASE a \in Maps[i].start .. Passed(i) - 1
    BY <2>2 DEF LostInv, NothingLost
  <2>3. CASE a \notin Maps[i].start .. Passed(i) - 1
    <3>1. i = region
      BY <1>2, <1>3, <2>1, <2>3 DEF Passed
    <3>2. Passed(i) = base /\ Passed(i)' = base + Chunk
      BY <1>2, <1>3, <3>1 DEF Passed
    <3>3. a \in Nat /\ a < base + Chunk
      BY <1>3, <2>1, <3>2
    <3>4. base <= a
      BY <1>3, <2>1, <2>3, <3>2, <3>3
    <3> QED
      BY <3>3, <3>4
  <2> QED
    BY <2>2, <2>3
<1> QED
  BY <1>1, <1>4, <1>5 DEF LostInv

\* Of a chunk, whole or short, every slot that is passed is compared.
LEMMA ReadChunkLost == ASSUME LostInv, NEW got \in Gots, NEW hits \in SUBSET Slots(got),
                              ReadChunk(got, hits)
                       PROVE  LostInv'
<1>1. IInv /\ IInv'
  BY ReadChunkIInv DEF LostInv
<1>2. Regions' = Regions /\ UNCHANGED <<writable, region, failed>>
  BY SameRegions DEF ReadChunk
<1>3. /\ region \in Nat /\ base \in Nat /\ got \in Nat /\ got % Page = 0
      /\ Page \in Nat \ {0} /\ base % Page = 0
      /\ base' = base + got /\ compared' = compared \cup Slots(got)
  BY <1>1, SizesAssumption, MapsBounds
     DEF ReadChunk, After, Gots, IInv, TypeOK, Regions, LostInv, AtPage
<1>4. AtPage'
  BY <1>2, <1>3, SumOfMultiples DEF AtPage, Done
<1>5. NothingLost'
  <2> SUFFICES ASSUME NEW i \in Regions, NEW a \in Maps[i].start .. Passed(i)' - 1,
                      a % Align = 0, a + Size <= Maps[i].end
               PROVE  \/ a \in compared \cup Slots(got)
                      \/ \E f \in failed : f <= a /\ a < f + Chunk
    BY <1>2, <1>3 DEF NothingLost
  <2>1. i \in Nat /\ Maps[i].start \in Nat /\ Maps[i].end \in Nat
    BY MapsBounds DEF Regions
  <2>2. CASE a \in Maps[i].start .. Passed(i) - 1
    BY <2>2 DEF LostInv, NothingLost
  <2>3. CASE a \notin Maps[i].start .. Passed(i) - 1
    <3>1. i = region
      BY <1>2, <1>3, <2>1, <2>3 DEF Passed
    <3>2. Passed(i) = base /\ Passed(i)' = base + got
      BY <1>2, <1>3, <3>1 DEF Passed
    <3>3. a \in base .. base + got - 1
      BY <1>3, <2>1, <2>3, <3>2
    <3> QED
      BY <1>3, <3>3, SlotRead
  <2> QED
    BY <2>2, <2>3
<1> QED
  BY <1>1, <1>4, <1>5 DEF LostInv

\* A slot that was passed is compared, unless the chunk it is in began with a
\* page that could not be read: for any mappings, chunk, page and value sizes.
THEOREM NothingIsLost == Spec => []NothingLost
<1>1. ASSUME LostInv, [Next]_vars PROVE LostInv'
  <2>1. CASE NextRegion
    BY <1>1, <2>1, NextRegionLost
  <2>2. CASE ReadFails
    BY <1>1, <2>2, ReadFailsLost
  <2>3. ASSUME NEW got \in Gots, NEW hits \in SUBSET Slots(got), ReadChunk(got, hits)
        PROVE  LostInv'
    BY <1>1, <2>3, ReadChunkLost
  <2>4. CASE UNCHANGED vars
    <3>1. IInv'
      BY <1>1, <2>4 DEF LostInv, vars, IInv, TypeOK, Placed, EachOnce, Done, Cur, Regions, Listed
    <3>2. AtPage' /\ NothingLost'
      BY <1>1, <2>4 DEF LostInv, vars, AtPage, NothingLost, Done, Passed, Regions, Listed
    <3> QED
      BY <3>1, <3>2 DEF LostInv
  <2> QED
    BY <1>1, <2>1, <2>2, <2>3, <2>4 DEF Next
<1>2. LostInv => NothingLost
  BY DEF LostInv
<1> QED
  BY <1>1, <1>2, InitLost, PTL DEF Spec

-----------------------------------------------------------------------------
(* The keys that are counted over the compared slots *)

\* Patterns of numbers of the XOR type differ when the numbers do.
LEMMA NumberInjective == ASSUME NEW r \in Raw, NEW s \in Raw
                         PROVE  /\ Number("XOR", r) = Number("XOR", s) <=> r = s
                                /\ Number("XOR", r) # Infinite
BY HalfAssumption DEF Number, Raw, Span, Infinite, Floats

\* A slot decodes to the known number under the key it votes for, only.
LEMMA KeyOrNumber == ASSUME NEW r \in Raw, NEW e \in Raw, NEW key \in Raw
                     PROVE  Xored(r, key) = e <=> Xored(r, e) = key
<1>1. Xored(Xored(key, r), r) = key /\ Xored(Xored(e, r), r) = e
  BY XorAssumption
<1>2. /\ Xored(key, r) = Xored(r, key) /\ Xored(e, r) = Xored(r, e)
      /\ Xored(r, key) \in Raw /\ Xored(r, e) \in Raw
  BY XorAssumption
<1> QED
  BY <1>1, <1>2

\* The scan asks for the known number under the key, and nothing else.
LEMMA AutoMatches == ASSUME NEW known \in Numbers("XOR"), NEW key \in Raw, NEW r \in Raw
                     PROVE  TRUE \in Outcomes(AutoQuery(key, known), r, NoPrevious)
                                <=> Xored(r, Encode(known)) = key
<1> DEFINE q == AutoQuery(key, known)
           c == Decoded(q, r)
<1>1. /\ q.type = "XOR" /\ q.mode = "EXACT" /\ q.key = key /\ q.s1 = <<known>>
      /\ q.s1 # Blank /\ q.s1[1] = known
  BY DEF AutoQuery, Blank
<1>2. known \in Int /\ Encode(known) \in Raw
  BY NumberOfEncoded, EncodeInRaw
<1>3. First(q) = Encode(known)
  <2>1. Typeable(q.type, q.s1) /\ q.mode \notin TwoFold
    BY <1>1 DEF Typeable, TwoFold
  <2>2. ~NoTarget(q)
    BY <2>1 DEF NoTarget, Parses, Typeable
  <2> QED
    BY <1>1, <2>2 DEF First
<1>4. Xored(r, key) \in Raw /\ c = Number("XOR", Xored(r, key))
  BY <1>1, XorAssumption DEF Decoded
<1>5. c # Infinite
  BY <1>4, NumberInjective
<1>6. Plain(q, First(q)) = Number("XOR", Encode(known))
  BY <1>1, <1>3 DEF Plain
<1>7. Outcomes(q, r, NoPrevious) = {c = Number("XOR", Encode(known))}
  <2> HIDE DEF q
  <2>1. Outcomes(q, r, NoPrevious)
            = Compared(q, c, 0, Plain(q, First(q)), {Plain(q, s) : s \in Seconds(q)})
    BY <1>5 DEF Outcomes
  <2>2. @ = {c = Plain(q, First(q))}
    BY <1>1 DEF Compared
  <2> QED
    BY <1>6, <2>1, <2>2
<1>8. c = Number("XOR", Encode(known)) <=> Xored(r, key) = Encode(known)
  BY <1>2, <1>4, NumberInjective
<1>9. Xored(r, key) = Encode(known) <=> Xored(r, Encode(known)) = key
  BY <1>2, KeyOrNumber
<1> QED
  BY ONLY <1>7, <1>8, <1>9

\* The slots found with a key are those that vote for it.
LEMMA MatchingIsFreq == ASSUME NEW slots, \A a \in slots : Content(a) \in Raw,
                               NEW known \in Numbers("XOR"), NEW key \in Raw
                        PROVE  Cardinality(Matching(AutoQuery(key, known), slots))
                                   = Freq(key, slots, known)
<1>1. \A a \in slots : TRUE \in Outcomes(AutoQuery(key, known), Content(a), NoPrevious)
                           <=> KeyOf(a, known) = key
  BY AutoMatches DEF KeyOf
<1>2. Matching(AutoQuery(key, known), slots) = {a \in slots : KeyOf(a, known) = key}
  BY <1>1 DEF Matching
<1> QED
  BY <1>2 DEF Freq

\* The first key of a ranking is as frequent as any other.
LEMMA FirstIsMostFrequent ==
    ASSUME NEW slots, IsFiniteSet(slots), NEW known,
           NEW keys \in Rankings(slots, known), keys # <<>>,
           NEW key \in Raw \ {0, Span - 1}
    PROVE  /\ keys[1] \in KeysOf(slots, known)
           /\ Freq(key, slots, known) <= Freq(keys[1], slots, known)
<1>1. Freq(key, slots, known) \in Nat /\ Freq(keys[1], slots, known) \in Nat
  BY FS_Subset, FS_CardinalityType DEF Freq
<1>2. Count(slots, known) \in Nat
  <2> DEFINE vote == [a \in slots |-> KeyOf(a, known)]
  <2>1. KeysOf(slots, known) \subseteq {vote[a] : a \in slots}
    BY DEF KeysOf
  <2>2. IsFiniteSet(KeysOf(slots, known))
    <3>1. vote \in Surjection(slots, {vote[a] : a \in slots})
      BY DEF Surjection
    <3>2. IsFiniteSet({vote[a] : a \in slots})
      BY <3>1, FS_Surjection
    <3> QED
      BY <2>1, <3>2, FS_Subset
  <2> QED
    BY <2>2, FS_CardinalityType, KeysAssumption DEF Count
<1>3. 1 \in 1 .. Count(slots, known) /\ keys \in [1 .. Count(slots, known) -> KeysOf(slots, known)]
  BY <1>2 DEF Rankings
<1>4. CASE key \in KeysOf(slots, known)
  <2>1. CASE Before(keys[1], key, slots, known)
    BY <1>1, <1>3, <2>1 DEF Before
  <2>2. CASE ~Before(keys[1], key, slots, known)
    <3>1. PICK j \in 1 .. Count(slots, known) : keys[j] = key
      BY <1>3, <1>4, <2>2 DEF Rankings
    <3>2. j # 1 => Before(keys[1], keys[j], slots, known)
      BY <1>2, <1>3, <3>1 DEF Rankings
    <3> QED
      BY <1>1, <1>3, <3>1, <3>2 DEF Before
  <2> QED
    BY <1>3, <2>1, <2>2
<1>5. CASE key \notin KeysOf(slots, known)
  <2>1. {a \in slots : KeyOf(a, known) = key} = {}
    BY <1>5 DEF KeysOf
  <2>2. Freq(key, slots, known) = 0
    BY <2>1, FS_EmptySet DEF Freq
  <2> QED
    BY <1>1, <1>3, <2>2
<1> QED
  BY <1>4, <1>5

\* Whatever the loop has compared so far, its best key finds most.
THEOREM BestKeyAlways == Spec => []BestKeyFindsMost
<1>1. IInv => BestKeyFindsMost
  <2> SUFFICES ASSUME IInv, NEW known \in Numbers("XOR"),
                      NEW keys \in Rankings(compared, known), keys # <<>>,
                      NEW key \in Raw \ {0, Span - 1}
               PROVE  Cardinality(Matching(AutoQuery(key, known), compared))
                          <= Cardinality(Matching(AutoQuery(keys[1], known), compared))
    BY DEF BestKeyFindsMost
  <2>1. IsFiniteSet(compared)
    BY DEF IInv
  <2>2. \A a \in compared : Content(a) \in Raw
    <3> SUFFICES ASSUME NEW a \in compared PROVE Content(a) \in Raw
      OBVIOUS
    <3>1. PICK i \in Regions : Maps[i].start <= a /\ a + Size <= Maps[i].end
      BY DEF IInv, Placed
    <3>2. i \in 1 .. Len(Maps) /\ a \in Nat
      BY DEF IInv, TypeOK, Regions
    <3>3. a \in Maps[i].start .. Maps[i].end - 1
      BY <3>1, <3>2, MapsBounds, SizesAssumption
    <3> QED
      BY <3>2, <3>3, ContentAssumption
  <2>3. /\ keys[1] \in KeysOf(compared, known)
        /\ Freq(key, compared, known) <= Freq(keys[1], compared, known)
    BY <2>1, FirstIsMostFrequent
  <2>4. keys[1] \in Raw
    BY <2>2, <2>3, NumberOfEncoded, EncodeInRaw, XorAssumption DEF KeysOf, KeyOf
  <2> QED
    BY <2>2, <2>3, <2>4, MatchingIsFreq
<1> QED
  BY <1>1, ScanInductive, PTL

-----------------------------------------------------------------------------
(* Every step gets on *)

\* A step goes to a region behind, or on within a region: there are finitely
\* many regions, and a step is taken in one only below its end.
GetsOn == \/ region' > region
          \/ region' = region /\ base' > base /\ base < Cur.end

\* No step of a scan is for nothing, for any maps, sizes and reads: the half of
\* termination that needs no fairness.
THEOREM ScanGetsOn == Spec => [][GetsOn]_vars
<1>1. ASSUME IInv, Next PROVE GetsOn
  <2>1. /\ base \in Nat /\ Chunk \in Nat \ {0} /\ region \in Nat /\ Len(Maps) \in Nat
    <3>1. Len(Maps) \in Nat /\ base \in Nat /\ region \in Regions \cup {Len(Maps) + 1}
      BY <1>1, MapsBounds DEF IInv, TypeOK
    <3>2. region \in Nat
      BY <3>1 DEF Regions
    <3> QED
      BY <3>1, <3>2, SizesAssumption
  <2>2. ~Done /\ Cur.end \in Nat
    BY <1>1, ComparedBehind DEF Next, NextRegion, ReadFails, ReadChunk
  <2>3. CASE NextRegion
    <3>1. RegionAfter(region) \in Behind(region) \cup {Len(Maps) + 1}
      BY <2>1, RegionAfterIn
    <3>2. RegionAfter(region) > region
      BY <2>1, <2>2, <3>1 DEF Behind, Done
    <3> QED
      BY <2>3, <3>2 DEF NextRegion, NextIndex, GetsOn
  <2>4. CASE ReadFails
    BY <2>1, <2>2, <2>4 DEF ReadFails, AtEnd, GetsOn
  <2>5. ASSUME NEW got \in Gots, NEW hits \in SUBSET Slots(got), ReadChunk(got, hits)
        PROVE  GetsOn
    <3>1. got \in Nat \ {0}
      BY <2>1 DEF Gots
    <3> QED
      BY <2>1, <2>2, <2>5, <3>1 DEF ReadChunk, After, AtEnd, GetsOn
  <2> QED
    BY <1>1, <2>3, <2>4, <2>5 DEF Next
<1> QED
  BY <1>1, ScanInductive, PTL DEF Spec
=============================================================================
