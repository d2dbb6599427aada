----------------------------- MODULE RegionScan -----------------------------
(***************************************************************************)
(* The region and chunk loop of src/core/mem_scan.cpp (scan_first;         *)
(* scan_fuzzy_first and scan_xor_keys run the same loop).  A chunk is read *)
(* into a private buffer by one process_vm_readv, then every aligned slot  *)
(* of the buffer is compared.                                              *)
(*                                                                         *)
(* The scanned process runs on: which pages can be read, and which slots   *)
(* match, is up to it at each read.                                        *)
(***************************************************************************)
EXTENDS Integers, Sequences, FiniteSets

CONSTANTS Maps,         \* /proc/<pid>/maps: a sequence of mappings
          Chunk,        \* CHUNK
          Page,         \* a read stops at the first page that cannot be read
          Size,         \* value_size(type)
          Align         \* value_align(type)

\* kernel: [vdso] or [vsyscall].
Mapping == [start : Nat, end : Nat, r : BOOLEAN, w : BOOLEAN, kernel : BOOLEAN]

ASSUME MapsAssumption    == Maps \in Seq(Mapping)
ASSUME SizesAssumption   == /\ {Chunk, Page, Size, Align} \subseteq Nat \ {0}
                            /\ Chunk % Page = 0
                            /\ Page % Align = 0
                            /\ Size <= Align    \* they are the same for every type
\* The kernel lists whole pages, in order.
ASSUME PagesAssumption ==
    \A i, j \in 1 .. Len(Maps) :
        /\ Maps[i].start % Page = 0 /\ Maps[i].end % Page = 0
        /\ i < j => Maps[i].end <= Maps[j].start

VARIABLES writable,     \* writable_only
          region,       \* the region being scanned, by its place in Maps
          base,         \* next address to read in it
          compared,     \* addresses given to value_match so far
          found,        \* addresses in results
          reported,     \* results.size()
          failed        \* bases at which the read returned nothing

vars == <<writable, region, base, compared, found, reported, failed>>

\* The lines of the maps that get_maps returns; it sets readable in each.
Listed(m) == /\ m.start < m.end /\ m.r
             /\ ~m.kernel
             /\ writable => m.w

\* The regions, by their place in Maps, and the first of them from i on.
Regions == {i \in 1 .. Len(Maps) : Listed(Maps[i])}
Behind(i) == {j \in Regions : i < j}
RegionAfter(i) == IF Behind(i) = {} THEN Len(Maps) + 1
                  ELSE CHOOSE j \in Behind(i) : \A k \in Behind(i) : j <= k

Done == region > Len(Maps)
Cur  == Maps[region]

\* The base a region starts at; past the last one there is nothing to scan.
FirstBase(i) == IF i <= Len(Maps) THEN Maps[i].start ELSE 0

Init == /\ writable \in BOOLEAN
        /\ region = RegionAfter(0)
        /\ base = FirstBase(region)
        /\ compared = {}
        /\ found = {}
        /\ reported = 0
        /\ failed = {}

\* Mutant: the end of the region is not looked at.
ToReadChunk == Chunk

\* How much the next read asks for.
ToRead == IF Cur.end - base < Chunk THEN Cur.end - base ELSE Chunk

\* off_start, and the addresses of the slots of a buffer of n bytes.
OffStart == IF base % Align = 0 THEN 0 ELSE Align - (base % Align)
Slots(n) == {a \in base + OffStart .. base + n - Size :
                (a - base - OffStart) % Align = 0}

AtEnd == base >= Cur.end

\* Mutants: the next line is taken, listed or not; a region is started over.
NextLine      == region + 1
NextIndexSame == region

NextIndex == RegionAfter(region)

\* The end of a region; none is skipped, as all of them are readable.
NextRegion ==
    /\ ~Done
    /\ AtEnd
    /\ region' = NextIndex
    /\ base' = FirstBase(NextIndex)
    /\ UNCHANGED <<writable, compared, found, reported, failed>>

\* process_vm_readv fails on the first page: skip a whole chunk.
ReadFails ==
    /\ ~Done
    /\ ~AtEnd
    /\ base' = base + Chunk
    /\ failed' = failed \cup {base}
    /\ UNCHANGED <<writable, region, compared, found, reported>>

\* Mutants: a short read is taken for a whole one; chunks overlap by a value.
AfterWhole(got)   == base + Chunk
AfterOverlap(got) == base + got - Size

\* base += readable
After(got) == base + got

\* got bytes are read, possibly fewer than asked for; any slots may match.
ReadChunk(got, hits) ==
    /\ ~Done
    /\ ~AtEnd
    /\ got <= ToRead
    /\ hits \subseteq Slots(got)
    /\ compared' = compared \cup Slots(got)
    /\ found' = found \cup hits
    /\ reported' = reported + Cardinality(hits)
    /\ base' = After(got)
    /\ UNCHANGED <<writable, region, failed>>

\* Whole pages from base on, at least one.
Gots == {n \in 1 .. Chunk : n % Page = 0}

Next == \/ NextRegion
        \/ ReadFails
        \/ \E got \in Gots : \E hits \in SUBSET Slots(got) : ReadChunk(got, hits)

Spec == Init /\ [][Next]_vars

\* The scan is a plain loop: it keeps running.
FairSpec == Spec /\ WF_vars(Next)

-----------------------------------------------------------------------------
(* Properties *)

TypeOK == /\ writable \in BOOLEAN
          /\ region \in Regions \cup {Len(Maps) + 1}
          /\ base \in Nat
          /\ compared \subseteq Nat /\ found \subseteq Nat /\ failed \subseteq Nat
          /\ reported \in Nat

\* results never lists an address twice, across chunks and short reads: the
\* count shown and the number of addresses are the same.
EachOnce == reported = Cardinality(found)

\* What is compared is a whole value inside one mapping of the process itself,
\* which may be read and, if that was asked for, written.
InsideRegions ==
    \A a \in compared : \E i \in 1 .. Len(Maps) :
        /\ Maps[i].r /\ ~Maps[i].kernel /\ (writable => Maps[i].w)
        /\ Maps[i].start <= a /\ a + Size <= Maps[i].end

\* Slots of a region that the scan has passed are compared, unless the chunk
\* they are in began with a page that could not be read: neither a short read
\* nor a chunk boundary loses a value.
Passed(i) == IF i < region THEN Maps[i].end
             ELSE IF i = region THEN base ELSE Maps[i].start
NothingLost ==
    \A i \in Regions :
        \A a \in Maps[i].start .. Passed(i) - 1 :
            a % Align = 0 /\ a + Size <= Maps[i].end =>
                a \in compared \/ \E f \in failed : f <= a /\ a < f + Chunk

\* The loop ends, whatever the reads return.
Terminates == <>Done
=============================================================================
