----------------------------- MODULE GroupScan ------------------------------
(***************************************************************************)
(* scan_group of src/core/mem_scan.cpp over one readable region: a pivot   *)
(* item followed by further items within a window.  The tail of a buffer,  *)
(* wide enough for a whole group, is carried to the front of the next one. *)
(*                                                                         *)
(* Every value type is aligned to its size (value_align), so the length of *)
(* an item's value is its size and its alignment.                          *)
(***************************************************************************)
EXTENDS Integers, Sequences, FiniteSets, FiniteSetsExt

CONSTANTS Bytes,        \* contents of one address
          ItemLists,    \* arguments: sequences of values, the pivot first
          Gap,          \* max_gap
          Margin,       \* the 64 bytes added to max_span
          Chunk,        \* CHUNK
          Start, End,   \* the region
          Page          \* a read stops at the first page that cannot be read

ASSUME ItemsAssumption == \A list \in ItemLists :
                              /\ list \in Seq(Seq(Bytes)) /\ list # << >>
                              /\ \A i \in 1 .. Len(list) : list[i] # << >>
ASSUME SizesAssumption == /\ {Gap, Margin, Start, End} \subseteq Nat
                          /\ {Chunk, Page} \subseteq Nat \ {0}
                          /\ Start <= End

\* Regions and chunks begin at pages, values are aligned within a page, and
\* what is carried over has room for a pivot.
ASSUME PagesAssumption == /\ Start % Page = 0 /\ Chunk % Page = 0
                          /\ \A list \in ItemLists :
                                /\ \A i \in 1 .. Len(list) : Page % Len(list[i]) = 0
                                /\ Len(list[1]) <= Gap * Len(list) + Margin

VARIABLES memory, items,        \* the region and the arguments
          base,                 \* next address to read
          carry,                \* bytes kept in front of the buffer
          groups,               \* the groups in results, by item_addresses
          reported,             \* results.size()
          failed                \* bases at which the read returned nothing

vars == <<memory, items, base, carry, groups, reported, failed>>

Addresses == Start .. End - 1
Sz(i)     == Len(items[i])

Init == /\ memory \in [Addresses -> Bytes]
        /\ items \in ItemLists
        /\ base = Start
        /\ carry = << >>
        /\ groups = {} /\ reported = 0
        /\ failed = {}

\* max_span and buf_size
Span    == Gap * Len(items) + Margin
BufSize == Max({Chunk, 2 * Span})

-----------------------------------------------------------------------------
(* The search of one buffer, at offsets from 0 *)

\* memcmp of an item with the bytes at an offset.
Holds(buf, off, i) == SubSeq(buf, off + 1, off + Sz(i)) = items[i]

\* win_end: from the pivot on, as far as the buffer is filled.
WinEnd(buf, off, i) == Min({off + Gap * i, Len(buf)})

\* Offsets in the window of item i that hold it, at its alignment in the
\* buffer and behind the item before.
Hits(buf, off, from, i) ==
    {w \in from .. WinEnd(buf, off, i) - Sz(i) :
        w % Sz(i) = 0 /\ Holds(buf, w, i)}

\* off_start and off += align0: the pivot is aligned to the address.
Pivots(buf, at) == {off \in 0 .. Len(buf) - Sz(1) : (at + off) % Sz(1) = 0}

\* A pivot that holds the first item, and the items behind it, each at the
\* first hit in its window, by their offsets.
Chains(buf, at) ==
    {chain \in [1 .. Len(items) -> 0 .. Len(buf)] :
        /\ chain[1] \in Pivots(buf, at) /\ Holds(buf, chain[1], 1)
        /\ \A i \in 2 .. Len(items) :
              LET hits == Hits(buf, chain[1], chain[i - 1] + Sz(i - 1), i)
              IN  chain[i] \in hits /\ \A w \in hits : chain[i] <= w}

\* Mutant: addresses are counted from the bytes just read.
AddressesFromBase(at, chain) ==
    [i \in 1 .. Len(items) |-> base + chain[i]]

\* The address of an offset, the buffer beginning at address at.
AddressesOf(at, chain) == [i \in 1 .. Len(items) |-> at + chain[i]]

\* item_addresses of the groups in a buffer that begins at address at.
GroupsIn(buf, at) == {AddressesOf(at, chain) : chain \in Chains(buf, at)}

-----------------------------------------------------------------------------
ToRead == Min({End - base, BufSize})

\* Whole pages from base on, as far as asked for.
Gots == {n \in 1 .. ToRead : n = ToRead \/ (base + n) % Page = 0}

\* Mutants: too little for a group is kept; the whole buffer is.
KeptShort(buf) == SubSeq(buf, Len(buf) - Min({Gap, Len(buf)}) + 1, Len(buf))
KeptAll(buf)   == buf

\* The last max_span bytes, or all there is.
Kept(buf) == SubSeq(buf, Len(buf) - Min({Span, Len(buf)}) + 1, Len(buf))

\* Mutant: the cursor does not move.
AfterSame(got) == base

\* base += got
After(got) == base + got

\* One round of the loop: read behind the carry, search, keep the tail.
ReadChunk(got) ==
    /\ base < End
    /\ LET buf   == carry \o [i \in 1 .. got |-> memory[base + i - 1]]
           found == GroupsIn(buf, base - Len(carry))
       IN  /\ groups' = groups \cup found
           /\ reported' = reported + Cardinality(found)
           /\ carry' = Kept(buf)
    /\ base' = After(got)
    /\ UNCHANGED <<memory, items, failed>>

ReadFails ==
    /\ base < End
    /\ carry' = << >>
    /\ base' = base + BufSize
    /\ failed' = failed \cup {base}
    /\ UNCHANGED <<memory, items, groups, reported>>

Next == ReadFails \/ \E got \in Gots : ReadChunk(got)

Spec == Init /\ [][Next]_vars

\* The scan is a plain loop: it keeps running.
FairSpec == Spec /\ WF_vars(Next)

-----------------------------------------------------------------------------
(* Properties *)

\* Groups are given by addresses of the region.
TypeOK == /\ base \in Start .. End + BufSize /\ reported \in Nat
          /\ carry \in Seq(Bytes)
          /\ groups \subseteq [1 .. Len(items) -> Addresses]
          /\ failed \subseteq Addresses

\* The buffer of buf_size + max_span bytes has room for the carry and the
\* largest read behind it.
FitsBuffer == Len(carry) + ToRead <= BufSize + Span

\* The memory at a holds item i.
HeldAt(a, i) == /\ a \in Start .. End - Sz(i)
                /\ \A j \in 1 .. Sz(i) : memory[a + j - 1] = items[i][j]

\* A group by its addresses: its items are in the memory there, one behind
\* the other, each inside the window that begins at the pivot.
IsGroup(g) == /\ g[1] % Sz(1) = 0
              /\ \A i \in 1 .. Len(items) : HeldAt(g[i], i)
              /\ \A i \in 2 .. Len(items) : /\ g[i] >= g[i - 1] + Sz(i - 1)
                                            /\ g[i] + Sz(i) <= g[1] + Gap * i

\* Whatever was carried over, a reported group is a group.
GroupsAreReal == \A g \in groups : IsGroup(g)

\* A group with every item where the code would look first if it had the
\* whole region in one buffer.
IsFirstGroup(g) ==
    /\ IsGroup(g)
    /\ \A i \in 2 .. Len(items) :
          /\ g[i] % Sz(i) = 0
          /\ \A a \in g[i - 1] + Sz(i - 1) .. g[i] - 1 :
                ~(a % Sz(i) = 0 /\ HeldAt(a, i))

\* Behind the last item.
GroupEnd(g) == g[Len(items)] + Sz(Len(items))

\* Such a group is reported wherever reads and chunks cut it, unless it meets
\* a chunk that could not be read.  The pivot is aligned to the address, so any
\* span will do for it; the items behind it are aligned to the buffer, and
\* the span carried over has to keep their alignment.
SpanIsAligned == \A i \in 2 .. Len(items) : Span % Sz(i) = 0
GroupsFound ==
    base >= End /\ SpanIsAligned =>
        \A g \in [1 .. Len(items) -> Addresses] :
            IsFirstGroup(g) =>
                \/ g \in groups
                \/ \E f \in failed : f < GroupEnd(g) /\ g[1] < f + BufSize

\* The loop ends, whatever the reads return.
Terminates == <>(base >= End)

\* "@return Nombre de groupes trouves.": each group is counted once.
EachGroupOnce == reported = Cardinality(groups)
=============================================================================
