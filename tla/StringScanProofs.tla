-------------------------- MODULE StringScanProofs --------------------------
(***************************************************************************)
(* For any memory, needle, region, chunk and reads: the buffer of a string *)
(* scan holds the memory up to the cursor and is never overrun, and what   *)
(* is reported lies in the region.  The first occurrence in each buffer is *)
(* reported; a wrong address comes from a later round, and only where the  *)
(* needle is.                                                              *)
(***************************************************************************)
EXTENDS StringScan, NumberFacts

\* The arguments do not change.
Arguments == /\ memory \in [Addresses -> Bytes]
             /\ needle \in Seq(Bytes) /\ Len(needle) \in Nat \ {0}

\* What is carried over ends at the cursor, inside the region.
CarryInv == /\ Len(carry) <= Overlap
            /\ Start <= base - Len(carry)
            /\ \A i \in 1 .. Len(carry) : carry[i] = memory[base - Len(carry) + i - 1]

\* A buffer that is searched is memory of the region as a whole.
BufferInv == pc = "search" => /\ Len(carry) <= Len(buf)
                              /\ Len(buf) - Len(carry) <= Chunk
                              /\ base - Len(carry) + Len(buf) <= End
                              /\ \A i \in 1 .. Len(buf) :
                                     buf[i] = memory[base - Len(carry) + i - 1]

IInv == /\ TypeOK /\ Arguments
        /\ CarryInv /\ BufferInv
        /\ FitsBuffer /\ NoUnderflow
        /\ InsideRegion

\* Constants and lengths are numbers.
LEMMA Lengths == ASSUME TypeOK, Arguments
                 PROVE  /\ Start \in Nat /\ End \in Nat /\ Chunk \in Nat \ {0}
                        /\ Len(carry) \in Nat /\ Len(buf) \in Nat
                        /\ Overlap \in Nat /\ Overlap = Len(needle) - 1
                        /\ base \in Nat /\ searchOff \in Nat /\ Start <= End
BY SizesAssumption DEF TypeOK, Arguments, Overlap

LEMMA InitIInv == Init => IInv
<1> SUFFICES ASSUME Init PROVE IInv
  OBVIOUS
<1>1. Arguments
  BY NeedlesAssumption DEF Init, Arguments
<1>2. TypeOK
  BY <1>1, SizesAssumption DEF Init, TypeOK, Arguments, Overlap
<1>3. Len(carry) = 0 /\ Len(buf) = 0
  BY DEF Init
<1>4. CarryInv /\ BufferInv
  BY <1>1, <1>2, <1>3, Lengths DEF Init, CarryInv, BufferInv
<1>5. FitsBuffer /\ NoUnderflow /\ InsideRegion
  BY <1>1, <1>2, <1>3, Lengths DEF Init, FitsBuffer, NoUnderflow, InsideRegion
<1> QED
  BY <1>1, <1>2, <1>4, <1>5 DEF IInv

\* What is read is put behind the carry.
LEMMA ReadIInv == ASSUME IInv, NEW got \in Gots, Read(got) PROVE IInv'
<1> DEFINE fresh == [i \in 1 .. got |-> memory[base + i - 1]]
<1>1. /\ UNCHANGED <<memory, needle, caseSensitive, base, carry, reported>>
      /\ base < End /\ buf' = carry \o fresh /\ searchOff' = 0 /\ pc' = "search"
  BY DEF Read, input
<1>2. /\ Start \in Nat /\ End \in Nat /\ Chunk \in Nat \ {0}
      /\ Len(carry) \in Nat /\ Overlap \in Nat /\ base \in Nat
  BY Lengths DEF IInv, TypeOK
<1>3. got \in Nat /\ got <= Chunk /\ base + got <= End
  BY <1>1, <1>2 DEF Gots, ToRead
<1>4. Len(carry) <= Overlap /\ Start <= base - Len(carry) /\ Start <= base
  BY <1>2 DEF IInv, CarryInv
<1>5. \A i \in 1 .. got : base + i - 1 \in Addresses
  BY <1>2, <1>3, <1>4 DEF Addresses
<1>6. fresh \in Seq(Bytes) /\ Len(fresh) = got
  BY <1>3, <1>5 DEF IInv, Arguments
<1>7. carry \in Seq(Bytes)
  BY DEF IInv, TypeOK
<1>8. /\ buf' \in Seq(Bytes) /\ Len(buf') = Len(carry) + got
      /\ \A i \in 1 .. Len(carry) : buf'[i] = carry[i]
      /\ \A i \in Len(carry) + 1 .. Len(carry) + got : buf'[i] = fresh[i - Len(carry)]
  BY <1>1, <1>2, <1>3, <1>6, <1>7
<1>9. TypeOK' /\ Arguments' /\ CarryInv' /\ InsideRegion'
  BY <1>1, <1>2, <1>8 DEF IInv, TypeOK, Arguments, CarryInv, InsideRegion, Overlap, Addresses
<1>10. BufferInv'
  <2>1. ASSUME NEW i \in 1 .. Len(buf')
        PROVE  buf'[i] = memory[base - Len(carry) + i - 1]
    <3>1. CASE i <= Len(carry)
      BY <1>2, <1>8, <3>1 DEF IInv, CarryInv
    <3>2. CASE i > Len(carry)
      <4>1. i - Len(carry) \in 1 .. got /\ i \in Len(carry) + 1 .. Len(carry) + got
        BY <1>2, <1>3, <1>8, <3>2
      <4>2. buf'[i] = memory[base + (i - Len(carry)) - 1]
        BY <1>8, <4>1
      <4>3. base + (i - Len(carry)) - 1 = base - Len(carry) + i - 1
        BY <1>2
      <4> QED
        BY <4>2, <4>3
    <3> QED
      BY <1>2, <3>1, <3>2
  <2>2. /\ Len(carry) <= Len(buf') /\ Len(buf') - Len(carry) <= Chunk
        /\ base - Len(carry) + Len(buf') <= End
    BY <1>2, <1>3, <1>8
  <2> QED
    BY ONLY <1>1, <2>1, <2>2 DEF BufferInv
<1>11. FitsBuffer' /\ NoUnderflow'
  BY <1>1, <1>2, <1>3, <1>4, <1>8 DEF FitsBuffer, NoUnderflow, Overlap
<1> QED
  BY <1>9, <1>10, <1>11 DEF IInv

\* A failed read empties the carry.
LEMMA ReadFailsIInv == IInv /\ ReadFails => IInv'
<1> SUFFICES ASSUME IInv, ReadFails PROVE IInv'
  OBVIOUS
<1>1. /\ UNCHANGED <<memory, needle, caseSensitive, pc, buf, searchOff, reported>>
      /\ pc = "read" /\ carry' = <<>> /\ Len(carry') = 0 /\ base' = base + Chunk
      /\ base < End
  BY DEF ReadFails, input
<1>2. /\ Start \in Nat /\ End \in Nat /\ Chunk \in Nat /\ Overlap \in Nat
      /\ base \in Nat /\ Start <= base /\ Len(carry) \in Nat
  BY Lengths DEF IInv, TypeOK
<1>3. TypeOK' /\ Arguments'
  BY <1>1, <1>2 DEF IInv, TypeOK, Arguments, Overlap, Addresses
<1>4. CarryInv' /\ BufferInv'
  BY <1>1, <1>2 DEF IInv, CarryInv, BufferInv, Overlap
<1>5. FitsBuffer' /\ NoUnderflow' /\ InsideRegion'
  BY <1>1 DEF IInv, FitsBuffer, NoUnderflow, InsideRegion, Overlap
<1> QED
  BY <1>3, <1>4, <1>5 DEF IInv

\* The place of an occurrence is in the part of the buffer that is searched.
LEMMA FirstOccurs == ASSUME NEW n \in Int, OccursAt(n) # {}, Len(needle) \in Nat
                     PROVE  FirstIn(n) \in 0 .. n - Len(needle)
<1>1. OccursAt(n) \in SUBSET Nat
  BY DEF OccursAt
<1>2. FirstIn(n) \in OccursAt(n)
  BY <1>1, LeastOne DEF FirstIn
<1> QED
  BY <1>2 DEF OccursAt

\* What is reported begins and ends in the buffer, and so in the region.
LEMMA ReportIInv == IInv /\ Report => IInv'
<1> SUFFICES ASSUME IInv, Report PROVE IInv'
  OBVIOUS
<1> DEFINE n == Len(buf) - searchOff
           rel == FirstIn(n)
           match == AddressOf(searchOff + rel)
<1>1. /\ UNCHANGED <<memory, needle, caseSensitive, pc, base, carry, buf>>
      /\ pc = "search" /\ OccursAt(n) # {}
      /\ reported' \subseteq reported \cup {match}
      /\ searchOff' = searchOff + rel + 1
  BY DEF Report, input, After
<1>2. /\ Start \in Nat /\ End \in Nat /\ Len(carry) \in Nat /\ Len(buf) \in Nat
      /\ Len(needle) \in Nat \ {0} /\ base \in Nat /\ searchOff \in Nat
  BY Lengths DEF IInv, TypeOK, Arguments
<1>3. rel \in Nat /\ rel + Len(needle) <= n
  BY <1>1, <1>2, FirstOccurs
<1>4. /\ match = base - Len(carry) + (searchOff + rel)
      /\ Start <= base - Len(carry) /\ base - Len(carry) + Len(buf) <= End
  BY <1>1 DEF IInv, CarryInv, BufferInv, AddressOf
<1>5. match \in Addresses /\ Start <= match /\ match + Len(needle) <= End
  BY <1>2, <1>3, <1>4 DEF Addresses
<1>6. searchOff' \in Nat /\ searchOff' <= Len(buf)
  BY <1>1, <1>2, <1>3
<1>7. TypeOK' /\ Arguments'
  <2>1. Len(buf) <= Chunk + Overlap /\ Chunk + Overlap \in Nat
    BY Lengths DEF IInv, FitsBuffer
  <2>2. searchOff' \in 0 .. Chunk + Overlap /\ Overlap' = Overlap
    BY <1>1, <1>2, <1>6, <2>1 DEF Overlap
  <2>3. reported' \subseteq Addresses
    BY <1>1, <1>5 DEF IInv, TypeOK
  <2> QED
    BY <1>1, <2>2, <2>3 DEF IInv, TypeOK, Arguments, Addresses
<1>8. CarryInv' /\ BufferInv' /\ FitsBuffer' /\ NoUnderflow'
  BY <1>1, <1>6 DEF IInv, CarryInv, BufferInv, FitsBuffer, NoUnderflow, Overlap
<1>9. InsideRegion'
  BY <1>1, <1>5 DEF IInv, InsideRegion
<1> QED
  BY <1>7, <1>8, <1>9 DEF IInv

\* The tail of the buffer is the memory before the next cursor.
LEMMA NextChunkIInv == IInv /\ NextChunk => IInv'
<1> SUFFICES ASSUME IInv, NextChunk PROVE IInv'
  OBVIOUS
<1> DEFINE got == Len(buf) - Len(carry)
<1>1. /\ UNCHANGED <<memory, needle, caseSensitive, buf, searchOff, reported>>
      /\ pc = "search" /\ pc' = "read"
      /\ carry' = IF got >= Overlap THEN Kept ELSE <<>>
      /\ base' = base + got
  BY DEF NextChunk, input
<1>2. /\ Start \in Nat /\ Len(carry) \in Nat /\ Len(buf) \in Nat /\ Overlap \in Nat
      /\ base \in Nat /\ Len(carry) <= Len(buf) /\ got \in Nat
      /\ Start <= base - Len(carry) /\ buf \in Seq(Bytes)
  BY <1>1, Lengths DEF IInv, TypeOK, CarryInv, BufferInv
<1>3. carry' \in Seq(Bytes) /\ CarryInv'
  <2>1. CASE got >= Overlap
    <3>1. /\ Kept \in Seq(Bytes) /\ Len(Kept) = Overlap
          /\ \A i \in 1 .. Overlap : Kept[i] = buf[Len(buf) - Overlap + i]
      BY <1>2, <2>1 DEF Kept
    <3>2. ASSUME NEW i \in 1 .. Overlap
          PROVE  Kept[i] = memory[base' - Overlap + i - 1]
      <4>1. Len(buf) - Overlap + i \in 1 .. Len(buf)
        BY <1>2, <2>1
      <4>2. Kept[i] = memory[base - Len(carry) + (Len(buf) - Overlap + i) - 1]
        BY <1>1, <3>1, <4>1 DEF IInv, BufferInv
      <4>3. base - Len(carry) + (Len(buf) - Overlap + i) - 1 = base' - Overlap + i - 1
        BY <1>1, <1>2
      <4> QED
        BY <4>2, <4>3
    <3>3. Start <= base' - Overlap
      BY <1>1, <1>2, <2>1
    <3>4. carry' = Kept /\ Len(carry') = Overlap /\ Overlap' = Overlap
      BY <1>1, <2>1, <3>1 DEF Overlap
    <3>5. \A i \in 1 .. Overlap : carry'[i] = memory'[base' - Overlap + i - 1]
      BY <1>1, <3>2, <3>4
    <3>6. Overlap <= Overlap
      BY <1>2
    <3>7. CarryInv'
      BY ONLY <3>3, <3>4, <3>5, <3>6 DEF CarryInv
    <3> QED
      BY <3>1, <3>4, <3>7
  <2>2. CASE ~(got >= Overlap)
    <3>1. carry' = <<>> /\ Len(carry') = 0 /\ Overlap' = Overlap
      BY <1>1, <2>2 DEF Overlap
    <3>2. 0 <= Overlap /\ Start <= base' - 0
      BY <1>1, <1>2
    <3>3. carry' \in Seq(Bytes)
      BY <3>1
    <3>4. CarryInv'
      BY ONLY <3>1, <3>2 DEF CarryInv
    <3> QED
      BY <3>3, <3>4
  <2> QED
    BY <2>1, <2>2
<1>4. TypeOK' /\ Arguments'
  <2>1. base - Len(carry) + Len(buf) <= End /\ End \in Nat /\ Chunk \in Nat \ {0}
    BY <1>1, Lengths DEF IInv, BufferInv
  <2>2. base' \in Start .. End + Chunk - 1
    BY <1>1, <1>2, <2>1
  <2> QED
    BY <1>1, <1>2, <1>3, <2>2 DEF IInv, TypeOK, Arguments, Overlap, Addresses
<1>5. BufferInv' /\ FitsBuffer' /\ NoUnderflow' /\ InsideRegion'
  BY <1>1 DEF IInv, BufferInv, FitsBuffer, NoUnderflow, InsideRegion, Overlap
<1> QED
  BY <1>3, <1>4, <1>5 DEF IInv

\* Every step keeps the invariant.
THEOREM StringInductive == Spec => []IInv
<1>1. ASSUME IInv, [Next]_vars PROVE IInv'
  <2>1. ASSUME NEW got \in Gots, Read(got) PROVE IInv'
    BY <1>1, <2>1, ReadIInv
  <2>2. CASE Finish \/ UNCHANGED vars
    BY <1>1, <2>2 DEF Finish, vars, input, IInv, TypeOK, Arguments, CarryInv, BufferInv,
                      FitsBuffer, NoUnderflow, InsideRegion, Overlap, Addresses
  <2> QED
    BY <1>1, <2>1, <2>2, ReadFailsIInv, ReportIInv, NextChunkIInv DEF Next
<1> QED
  BY <1>1, InitIInv, PTL DEF Spec

\* The cursor passes the end of the region by less than a chunk, search_off never
\* the capacity of the buffer, and every reported address is one of the region.
THEOREM StringTypes == Spec => []TypeOK
<1>1. IInv => TypeOK
  BY DEF IInv
<1> QED
  BY <1>1, StringInductive, PTL

\* The buffer is the memory up to the cursor, and no index leaves it.
THEOREM BufferStaysSound == Spec => []BufferIsSound
<1>1. IInv => BufferIsSound
  BY DEF IInv, CarryInv, BufferIsSound, CarryIsTail
<1> QED
  BY <1>1, StringInductive, PTL

\* No reported string leaves the region, not even by its last byte.
THEOREM ReportedInside == Spec => []InsideRegion
<1>1. IInv => InsideRegion
  BY DEF IInv
<1> QED
  BY <1>1, StringInductive, PTL
-----------------------------------------------------------------------------
(* The first occurrence in a buffer *)

\* The first occurrence in the buffer is reported, unless it reaches back.
FirstKnown ==
    OccursAt(Len(buf)) # {} /\ FirstIn(Len(buf)) >= Len(carry)
        => AddressOf(FirstIn(Len(buf))) \in reported

\* It is the one that the first round finds.
FirstRound == pc = "search" /\ searchOff # 0 => FirstKnown

LEMMA FirstRoundStep == ASSUME IInv, FirstRound, [Next]_vars PROVE FirstRound'
<1>1. ASSUME NEW got \in Gots, Read(got) PROVE FirstRound'
  BY <1>1 DEF Read, FirstRound
<1>2. CASE ReadFails \/ NextChunk \/ Finish
  BY <1>2 DEF ReadFails, NextChunk, Finish, input, FirstRound
<1>3. CASE Report
  <2>1. /\ UNCHANGED <<needle, caseSensitive, base, carry, buf>>
        /\ pc = "search" /\ reported \subseteq reported'
    BY <1>3 DEF Report, input
  <2>2. /\ OccursAt(Len(buf))' = OccursAt(Len(buf))
        /\ FirstIn(Len(buf))' = FirstIn(Len(buf))
        /\ AddressOf(FirstIn(Len(buf)))' = AddressOf(FirstIn(Len(buf)))
    BY <2>1 DEF OccursAt, SameByte, FirstIn, AddressOf
  <2>3. CASE searchOff # 0
    BY <2>1, <2>2, <2>3 DEF FirstRound, FirstKnown
  <2>4. CASE searchOff = 0
    <3>1. /\ Len(buf) \in Nat /\ Len(carry) \in Nat /\ base \in Nat
          /\ Len(needle) \in Nat
      BY Lengths DEF IInv, TypeOK, Arguments
    <3>2. Len(buf) - searchOff = Len(buf)
      BY <2>4, <3>1
    <3>3. OccursAt(Len(buf)) # {} /\ FirstIn(Len(buf)) \in Nat
      BY <1>3, <3>1, <3>2, FirstOccurs DEF Report
    <3>4. searchOff + FirstIn(Len(buf)) = FirstIn(Len(buf))
      BY <2>4, <3>3
    <3>5. FirstIn(Len(buf)) >= Len(carry) => IsNew(AddressOf(FirstIn(Len(buf))))
      BY <3>1, <3>3 DEF IsNew, AddressOf
    <3>6. IsNew(AddressOf(FirstIn(Len(buf)))) => AddressOf(FirstIn(Len(buf))) \in reported'
      BY <1>3, <3>2, <3>4 DEF Report
    <3> QED
      BY <2>1, <2>2, <3>5, <3>6 DEF FirstRound, FirstKnown
  <2> QED
    BY <2>3, <2>4
<1>4. CASE UNCHANGED vars
  <2>1. UNCHANGED <<needle, caseSensitive, pc, base, carry, buf, searchOff, reported>>
    BY <1>4 DEF vars, input
  <2>2. /\ OccursAt(Len(buf))' = OccursAt(Len(buf))
        /\ FirstIn(Len(buf))' = FirstIn(Len(buf))
        /\ AddressOf(FirstIn(Len(buf)))' = AddressOf(FirstIn(Len(buf)))
    BY <2>1 DEF OccursAt, SameByte, FirstIn, AddressOf
  <2> QED
    BY <2>1, <2>2 DEF FirstRound, FirstKnown
<1> QED
  BY <1>1, <1>2, <1>3, <1>4 DEF Next

\* When the search of a buffer is over, its first occurrence is reported, unless
\* it begins in what was carried over, for any memory and needle.
THEOREM FirstAlwaysFound == Spec => []FirstOfChunkFound
<1>1. Init => FirstRound
  BY DEF Init, FirstRound
<1>2. IInv /\ FirstRound /\ [Next]_vars => FirstRound'
  BY FirstRoundStep
<1>3. IInv /\ FirstRound => FirstOfChunkFound
  <2> SUFFICES ASSUME IInv, FirstRound, pc = "search",
                      OccursAt(Len(buf) - searchOff) = {}, OccursAt(Len(buf)) # {},
                      FirstIn(Len(buf)) >= Len(carry)
               PROVE  AddressOf(FirstIn(Len(buf))) \in reported
    BY DEF FirstOfChunkFound
  <2>1. searchOff = 0 => Len(buf) - searchOff = Len(buf)
    BY Lengths DEF IInv
  <2> QED
    BY <2>1 DEF FirstRound, FirstKnown
<1> QED
  BY <1>1, <1>2, <1>3, StringInductive, PTL DEF Spec
-----------------------------------------------------------------------------
(* What a round reports *)

\* A place found in the first n bytes of the buffer is an occurrence in memory,
\* at the address the buffer's front has plus that place.
LEMMA OccursIsOccurrence ==
    ASSUME IInv, pc = "search", NEW n \in Int, n <= Len(buf), NEW i \in OccursAt(n)
    PROVE  AddressOf(i) \in Occurrences
<1>1. /\ Start \in Nat /\ End \in Nat /\ Len(carry) \in Nat /\ Len(buf) \in Nat
      /\ Len(needle) \in Nat \ {0} /\ base \in Nat
  BY Lengths DEF IInv, TypeOK, Arguments
<1>2. /\ i \in Nat /\ i + Len(needle) <= Len(buf)
      /\ \A j \in 1 .. Len(needle) : SameByte(buf[i + j], needle[j])
  BY <1>1 DEF OccursAt
<1>3. /\ Start <= base - Len(carry) /\ base - Len(carry) + Len(buf) <= End
      /\ \A k \in 1 .. Len(buf) : buf[k] = memory[base - Len(carry) + k - 1]
  BY DEF IInv, CarryInv, BufferInv
<1>4. AddressOf(i) \in Start .. End - Len(needle)
  BY <1>1, <1>2, <1>3 DEF AddressOf
<1>5. ASSUME NEW j \in 1 .. Len(needle)
      PROVE  SameByte(memory[AddressOf(i) + j - 1], needle[j])
  <2>1. i + j \in 1 .. Len(buf)
    BY <1>1, <1>2
  <2>2. base - Len(carry) + (i + j) - 1 = AddressOf(i) + j - 1
    BY <1>1, <1>2 DEF AddressOf
  <2>3. buf[i + j] = memory[AddressOf(i) + j - 1]
    BY <1>3, <2>1, <2>2
  <2> QED
    BY <1>2, <2>3
<1> QED
  BY <1>4, <1>5 DEF Occurrences

\* The place a round finds, before search_off is added to it, is an occurrence.
LEMMA FoundIsOccurrence ==
    ASSUME IInv, Report
    PROVE  AddressOf(FirstIn(Len(buf) - searchOff)) \in Occurrences
<1>1. /\ pc = "search" /\ OccursAt(Len(buf) - searchOff) # {}
      /\ Len(buf) \in Nat /\ searchOff \in Nat /\ Len(needle) \in Nat
  BY Lengths DEF Report, IInv, TypeOK, Arguments
<1>2. OccursAt(Len(buf) - searchOff) \in SUBSET Nat
  BY DEF OccursAt
<1>3. FirstIn(Len(buf) - searchOff) \in OccursAt(Len(buf) - searchOff)
  BY <1>1, <1>2, LeastOne DEF FirstIn
<1>4. Len(buf) - searchOff \in Int /\ Len(buf) - searchOff <= Len(buf)
  BY <1>1
<1> QED
  BY <1>1, <1>3, <1>4, OccursIsOccurrence

\* What the first round of a buffer reports is really there: only the rounds
\* after it, which add search_off to a place counted from the front, can report
\* an address at which the needle is not.
FirstRoundsReportReal ==
    Report /\ searchOff = 0 => reported' \subseteq reported \cup Occurrences

\* For any memory, needle and reads, first rounds report real occurrences only.
THEOREM FirstReportsAreReal == Spec => [][FirstRoundsReportReal]_vars
<1>1. ASSUME IInv PROVE FirstRoundsReportReal
  <2> SUFFICES ASSUME Report, searchOff = 0
               PROVE  reported' \subseteq reported \cup Occurrences
    BY DEF FirstRoundsReportReal
  <2> DEFINE rel == FirstIn(Len(buf) - searchOff)
  <2>1. OccursAt(Len(buf) - searchOff) # {} /\ Len(buf) \in Nat /\ Len(needle) \in Nat
    BY <1>1, Lengths DEF Report, IInv, Arguments
  <2>2. rel \in Nat
    BY <2>1, FirstOccurs
  <2>3. searchOff + rel = rel
    BY <2>2
  <2>4. reported' \subseteq reported \cup {AddressOf(rel)}
    BY <2>3 DEF Report
  <2>5. AddressOf(rel) \in Occurrences
    BY <1>1, FoundIsOccurrence
  <2> QED
    BY <2>4, <2>5
<1> QED
  BY <1>1, StringInductive, PTL DEF Spec

\* Nothing is reported in a region that does not hold the needle at all.
NothingInvented == reported # {} => Occurrences # {}

\* A region without the needle stays without results, whatever the reads return.
THEOREM AbsentIsNotReported == Spec => []NothingInvented
<1>1. Init => NothingInvented
  BY DEF Init, NothingInvented
<1>2. ASSUME IInv, NothingInvented, [Next]_vars PROVE NothingInvented'
  <2>1. Occurrences' = Occurrences
    BY <1>2 DEF Next, Read, ReadFails, Report, NextChunk, Finish, vars, input,
                Occurrences, SameByte
  <2>2. CASE Report
    BY <1>2, <2>1, <2>2, FoundIsOccurrence DEF NothingInvented
  <2>3. CASE ~Report
    BY <1>2, <2>1, <2>3 DEF Next, Read, ReadFails, NextChunk, Finish, vars, NothingInvented
  <2> QED
    BY <2>2, <2>3
<1> QED
  BY <1>1, <1>2, StringInductive, PTL DEF Spec

-----------------------------------------------------------------------------
(* Every step gets on *)

\* A buffer that is searched holds more than was carried over.
ReadSomething == pc = "search" => Len(carry) < Len(buf)

\* A step moves the cursor on, or leaves the reading state where it is, or moves
\* search_off on within the buffer: none of these can go on for ever.
GetsOn ==
    \/ base' > base /\ base < End
    \/ base' = base /\ pc = "read" /\ pc' \in {"search", "done"}
    \/ base' = base /\ pc = "search" /\ pc' = "search" /\ buf' = buf
       /\ searchOff < searchOff' /\ searchOff' <= Len(buf)

LEMMA NextGetsOn == ASSUME IInv, ReadSomething, Next
                    PROVE  GetsOn /\ ReadSomething'
<1>1. /\ End \in Nat /\ Chunk \in Nat \ {0} /\ base \in Nat /\ searchOff \in Nat
      /\ Len(carry) \in Nat /\ Len(buf) \in Nat /\ Len(needle) \in Nat \ {0}
      /\ carry \in Seq(Bytes)
  BY Lengths DEF IInv, TypeOK, Arguments
<1>2. ASSUME NEW got \in Gots, Read(got) PROVE GetsOn /\ ReadSomething'
  <2>1. got \in Nat \ {0}
    BY <1>1 DEF Gots, ToRead
  <2>2. Len(buf') = Len(carry) + got /\ carry' = carry
    BY <1>1, <1>2, <2>1 DEF Read
  <2> QED
    BY <1>1, <1>2, <2>1, <2>2 DEF Read, GetsOn, ReadSomething
<1>3. CASE ReadFails
  BY <1>1, <1>3 DEF ReadFails, GetsOn, ReadSomething
<1>4. CASE Report
  <2> DEFINE n == Len(buf) - searchOff
             rel == FirstIn(n)
  <2>1. /\ UNCHANGED <<pc, base, carry, buf>> /\ pc = "search"
        /\ OccursAt(n) # {} /\ searchOff' = searchOff + rel + 1
    BY <1>4 DEF Report, After
  <2>2. rel \in Nat /\ rel + Len(needle) <= n
    BY <1>1, <2>1, FirstOccurs
  <2>3. searchOff < searchOff' /\ searchOff' <= Len(buf)
    BY <1>1, <2>1, <2>2
  <2> QED
    BY <2>1, <2>3 DEF GetsOn, ReadSomething
<1>5. CASE NextChunk
  <2>1. /\ pc = "search" /\ pc' = "read" /\ base' = base + (Len(buf) - Len(carry))
    BY <1>5 DEF NextChunk
  <2>2. Len(carry) < Len(buf) /\ base - Len(carry) + Len(buf) <= End
    BY <2>1 DEF IInv, BufferInv, ReadSomething
  <2>3. base' > base /\ base < End
    BY <1>1, <2>1, <2>2
  <2> QED
    BY <2>1, <2>3 DEF GetsOn, ReadSomething
<1>6. CASE Finish
  BY <1>6 DEF Finish, GetsOn, ReadSomething
<1> QED
  BY <1>2, <1>3, <1>4, <1>5, <1>6 DEF Next

\* No step of a scan is for nothing, for any memory, needle, chunk and reads: the
\* half of termination that needs no fairness.
THEOREM ScanGetsOn == Spec => [][GetsOn]_vars
<1>1. Init => ReadSomething
  BY DEF Init, ReadSomething
<1>2. IInv /\ ReadSomething /\ Next => GetsOn /\ ReadSomething'
  BY NextGetsOn
<1>3. ReadSomething /\ UNCHANGED vars => ReadSomething'
  BY DEF vars, ReadSomething
<1> QED
  BY <1>1, <1>2, <1>3, StringInductive, PTL DEF Spec
=============================================================================
