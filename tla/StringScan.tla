----------------------------- MODULE StringScan -----------------------------
(***************************************************************************)
(* scan_string of src/core/string_scan.cpp over one readable region.  The  *)
(* region is read chunk by chunk; the last overlap bytes of a chunk are    *)
(* carried to the front of the buffer the next one is read into.           *)
(* Regions are independent: the carry starts empty in each of them.        *)
(***************************************************************************)
EXTENDS Integers, Sequences

CONSTANTS Bytes,        \* contents of one address
          Lower(_),     \* ascii_lower
          Needles,      \* strings to look for, as sequences of bytes
          Start, End,   \* the region
          Chunk,        \* STR_CHUNK
          Page,         \* a read stops at the first page that cannot be read
          Faults        \* whether the region has pages that cannot be read

ASSUME BytesAssumption   == \A b \in Bytes : Lower(b) \in Bytes
ASSUME NeedlesAssumption == /\ Needles \subseteq Seq(Bytes)
                            /\ << >> \notin Needles
ASSUME SizesAssumption   == /\ {Start, End} \subseteq Nat /\ Start <= End
                            /\ {Chunk, Page} \subseteq Nat \ {0}
                            /\ Faults \in BOOLEAN

VARIABLES memory,       \* the bytes of the region
          needle, caseSensitive,        \* the arguments
          pc,           \* "read" a chunk, "search" the buffer, or "done"
          base,         \* next address to read
          carry,        \* bytes kept from the previous chunk
          buf,          \* carry followed by what was read
          searchOff,    \* search_off
          reported      \* addresses in results

input == <<memory, needle, caseSensitive>>
vars  == <<input, pc, base, carry, buf, searchOff, reported>>

Addresses == Start .. End - 1

Init == /\ memory \in [Addresses -> Bytes]
        /\ needle \in Needles
        /\ caseSensitive \in BOOLEAN
        /\ pc = "read"
        /\ base = Start
        /\ carry = << >>
        /\ buf = << >>
        /\ searchOff = 0
        /\ reported = {}

Overlap == Len(needle) - 1

-----------------------------------------------------------------------------
\* Two bytes compare equal under the chosen case sensitivity.
SameByte(a, b) == IF caseSensitive THEN a = b ELSE Lower(a) = Lower(b)

\* Offsets, from 0, at which the first n bytes of the buffer hold the needle.
OccursAt(n) == {i \in 0 .. n - Len(needle) :
                   \A j \in 1 .. Len(needle) : SameByte(buf[i + j], needle[j])}

\* find_in_chunk: the first of them.
FirstIn(n) == CHOOSE i \in OccursAt(n) : \A k \in OccursAt(n) : i <= k

\* Mutant: the carry in front of the chunk is forgotten.
AddressInChunk(off) == base + off

\* The address of the byte at an offset of the buffer.
AddressOf(off) == base - Len(carry) + off

-----------------------------------------------------------------------------
\* How much the next read asks for.
ToRead == IF End - base < Chunk THEN End - base ELSE Chunk

\* Whole pages from base on, as far as asked for.
Gots == {n \in 1 .. ToRead : n = ToRead \/ (Faults /\ n % Page = 0)}

\* process_vm_readv behind the carry.
Read(got) ==
    /\ pc = "read" /\ base < End
    /\ buf' = carry \o [i \in 1 .. got |-> memory[base + i - 1]]
    /\ searchOff' = 0
    /\ pc' = "search"
    /\ UNCHANGED <<input, base, carry, reported>>

ReadFails ==
    /\ Faults
    /\ pc = "read" /\ base < End
    /\ carry' = << >>
    /\ base' = base + Chunk
    /\ UNCHANGED <<input, pc, buf, searchOff, reported>>

\* Mutant: an occurrence at the very start of a chunk counts as old.
IsNewer(match) == carry = << >> \/ match > base

\* An occurrence that begins in the carry counts as found already.
IsNew(match) == carry = << >> \/ match >= base

\* Mutants: search_off does not move, moves back.
AfterSame(rel) == searchOff + rel
AfterBack(rel) == searchOff + rel - 1

\* search_off += rel + 1
After(rel) == searchOff + rel + 1

\* One round of the loop over the occurrences: the buffer is searched from its
\* front, shortened by search_off, and the offset found is added to it.
Report ==
    /\ pc = "search"
    /\ OccursAt(Len(buf) - searchOff) # {}
    /\ LET rel   == FirstIn(Len(buf) - searchOff)
           match == AddressOf(searchOff + rel)
       IN  /\ reported' = reported \cup {a \in {match} : IsNew(a)}
           /\ searchOff' = After(rel)
    /\ UNCHANGED <<input, pc, base, carry, buf>>

\* Mutant: the front of the buffer is carried over.
KeptFront == SubSeq(buf, 1, Overlap)

\* The last overlap bytes of the buffer.
Kept == SubSeq(buf, Len(buf) - Overlap + 1, Len(buf))

\* No more: keep the overlap for the next chunk, unless too little was read.
NextChunk ==
    /\ pc = "search"
    /\ OccursAt(Len(buf) - searchOff) = {}
    /\ LET got == Len(buf) - Len(carry)
       IN  /\ carry' = IF got >= Overlap THEN Kept ELSE << >>
           /\ base' = base + got
    /\ pc' = "read"
    /\ UNCHANGED <<input, buf, searchOff, reported>>

Finish == /\ pc = "read" /\ base >= End
          /\ pc' = "done"
          /\ UNCHANGED <<input, base, carry, buf, searchOff, reported>>

Next == \/ \E got \in Gots : Read(got)
        \/ ReadFails \/ Report \/ NextChunk \/ Finish

Spec == Init /\ [][Next]_vars

\* The scan is a plain loop: it keeps running.
FairSpec == Spec /\ WF_vars(Next)

-----------------------------------------------------------------------------
(* Properties *)

\* A failed read may carry the cursor past the region, by less than a chunk;
\* search_off never leaves the buffer of STR_CHUNK + overlap bytes.
TypeOK == /\ pc \in {"read", "search", "done"}
          /\ base \in Start .. End + Chunk - 1
          /\ searchOff \in 0 .. Chunk + Overlap
          /\ carry \in Seq(Bytes) /\ buf \in Seq(Bytes)
          /\ reported \subseteq Addresses

\* What is carried over is the memory just before the next chunk.
CarryIsTail ==
    pc # "done" => \A i \in 1 .. Len(carry) :
                       carry[i] = memory[base - Len(carry) + i - 1]

\* The buffer of STR_CHUNK + overlap bytes is never overrun.
FitsBuffer == Len(buf) <= Chunk + Overlap

\* hay_len = total - search_off is a size_t: it never wraps below zero.
NoUnderflow == pc = "search" => searchOff <= Len(buf)

\* However reads fall short, what is searched is the memory up to the cursor:
\* nothing overruns the buffer, no length wraps, and an offset into the buffer
\* is turned into the address it came from.
BufferIsSound == CarryIsTail /\ FitsBuffer /\ NoUnderflow

\* A reported string lies in the region as a whole.
InsideRegion == \A a \in reported : Start <= a /\ a + Len(needle) <= End

\* The first occurrence in a buffer is reported when the search of the buffer
\* is over, unless it reaches back into the previous chunk.
FirstOfChunkFound ==
    /\ pc = "search" /\ OccursAt(Len(buf) - searchOff) = {}
    /\ OccursAt(Len(buf)) # {} /\ FirstIn(Len(buf)) >= Len(carry)
    => AddressOf(FirstIn(Len(buf))) \in reported

\* The search of a chunk ends however often the needle occurs, and so does the
\* scan however the reads go.
Terminates == <>(pc = "done")

\* Addresses of the region at which the needle really is.
Occurrences == {a \in Start .. End - Len(needle) :
                   \A j \in 1 .. Len(needle) :
                       SameByte(memory[a + j - 1], needle[j])}

\* "Retourne les adresses ou needle a ete trouve": the needle is there.
ReportsAreOccurrences == reported \subseteq Occurrences

\* "chevauchement (needle.size()-1) pour eviter les coupures aux frontieres de
\* blocs": occurrences cut by a boundary are found (Faults is FALSE).
Cut(a) == \E k \in 1 .. End : /\ a < Start + k * Chunk
                              /\ a + Len(needle) > Start + k * Chunk
CutOccurrencesFound ==
    pc = "done" => \A a \in Occurrences : Cut(a) => a \in reported
=============================================================================
