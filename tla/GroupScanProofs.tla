-------------------------- MODULE GroupScanProofs ---------------------------
(***************************************************************************)
(* For any region, items, chunk, gap and reads of scan_group: the buffer   *)
(* has room for what was carried over and the next read behind it, what is *)
(* reported is a group, and a group is reported unless it meets a chunk    *)
(* that could not be read.  A group counts twice only if it was carried.   *)
(***************************************************************************)
EXTENDS GroupScan, FiniteSetTheorems, NumberFacts

\* The bytes of memory that are searched next, and where they begin.
At          == base - Len(carry)
Buffer(got) == carry \o [i \in 1 .. got |-> memory[base + i - 1]]

\* The arguments do not change.
Arguments == memory \in [Addresses -> Bytes] /\ items \in ItemLists

\* What is carried over is the memory before the cursor, at most max_span of it.
CarryInv == /\ carry \in Seq(Bytes)
            /\ Len(carry) <= Span
            /\ base < End => /\ Start <= At
                             /\ \A i \in 1 .. Len(carry) : carry[i] = memory[At + i - 1]

IInv == Arguments /\ TypeOK /\ CarryInv /\ GroupsAreReal

\* The lesser and the greater of two numbers.
LEMMA MinOfTwo == ASSUME NEW a \in Int, NEW b \in Int
                  PROVE  /\ Min({a, b}) \in {a, b}
                         /\ Min({a, b}) <= a /\ Min({a, b}) <= b
<1>1. \E x \in {a, b} : \A y \in {a, b} : x <= y
  OBVIOUS
<1> QED
  BY <1>1 DEF Min

LEMMA MaxOfTwo == ASSUME NEW a \in Int, NEW b \in Int
                  PROVE  Max({a, b}) \in {a, b} /\ Max({a, b}) >= a
<1>1. \E x \in {a, b} : \A y \in {a, b} : x >= y
  OBVIOUS
<1> QED
  BY <1>1 DEF Max

\* The items, max_span and buf_size in numbers.
LEMMA SizesAreNumbers ==
    ASSUME items \in ItemLists
    PROVE  /\ Start \in Nat /\ End \in Nat /\ Start <= End
           /\ Gap \in Nat /\ Page \in Nat \ {0}
           /\ Span \in Nat /\ BufSize \in {Chunk, 2 * Span}
           /\ BufSize \in Nat \ {0}
           /\ Len(items) \in Nat \ {0}
           /\ \A i \in 1 .. Len(items) : /\ items[i] \in Seq(Bytes)
                                         /\ Sz(i) \in Nat \ {0}
                                         /\ Page % Sz(i) = 0
           /\ Gap * Len(items) \in Nat /\ Gap * Len(items) <= Span
           /\ Sz(1) <= Span
<1>1. items \in Seq(Seq(Bytes)) /\ items # << >>
  BY ItemsAssumption
<1>2. Len(items) \in Nat \ {0}
  BY <1>1
<1>3. \A i \in 1 .. Len(items) : /\ items[i] \in Seq(Bytes)
                                /\ Sz(i) \in Nat \ {0}
                                /\ Page % Sz(i) = 0
  <2> SUFFICES ASSUME NEW i \in 1 .. Len(items)
               PROVE  items[i] \in Seq(Bytes) /\ Sz(i) \in Nat \ {0} /\ Page % Sz(i) = 0
    OBVIOUS
  <2>1. items[i] \in Seq(Bytes)
    BY <1>1
  <2>2. items[i] # << >> /\ Page % Len(items[i]) = 0
    BY ItemsAssumption, PagesAssumption
  <2> QED
    BY <2>1, <2>2 DEF Sz
<1>4. /\ Gap \in Nat /\ Margin \in Nat /\ Chunk \in Nat \ {0} /\ Page \in Nat \ {0}
      /\ Start \in Nat /\ End \in Nat /\ Start <= End
  BY SizesAssumption
<1>5. Gap * Len(items) \in Nat
  BY <1>2, <1>4
<1>6. Span \in Nat /\ Gap * Len(items) <= Span
  BY <1>4, <1>5 DEF Span
<1>7. Sz(1) <= Span
  BY PagesAssumption DEF Sz, Span
<1>8. BufSize \in {Chunk, 2 * Span} /\ BufSize >= Chunk
  BY <1>4, <1>6, MaxOfTwo DEF BufSize
<1>9. BufSize \in Nat \ {0}
  BY <1>4, <1>6, <1>8
<1> QED
  BY <1>2, <1>3, <1>4, <1>5, <1>6, <1>7, <1>8, <1>9

\* The last max_span bytes of a buffer, or all of it.
LEMMA KeptIsTail ==
    ASSUME NEW buf \in Seq(Bytes), Span \in Nat
    PROVE  /\ Kept(buf) \in Seq(Bytes)
           /\ Len(Kept(buf)) <= Span /\ Len(Kept(buf)) <= Len(buf)
           /\ Len(Kept(buf)) \in {Span, Len(buf)}
           /\ \A i \in 1 .. Len(Kept(buf)) :
                  Kept(buf)[i] = buf[Len(buf) - Len(Kept(buf)) + i]
<1> DEFINE n == Min({Span, Len(buf)})
<1>1. n \in Nat /\ n <= Span /\ n <= Len(buf) /\ Len(buf) \in Nat /\ n \in {Span, Len(buf)}
  <2>1. Span \in Int /\ Len(buf) \in Int /\ Len(buf) \in Nat
    OBVIOUS
  <2>2. n \in {Span, Len(buf)} /\ n <= Span /\ n <= Len(buf)
    BY <2>1, MinOfTwo, Zenon
  <2> HIDE DEF n
  <2> QED
    BY <2>1, <2>2
<1> HIDE DEF n
<1>2. Kept(buf) = SubSeq(buf, Len(buf) - n + 1, Len(buf))
  BY DEF Kept, n
<1>3. Len(Kept(buf)) = n /\ Kept(buf) \in Seq(Bytes)
  BY <1>1, <1>2
<1>4. ASSUME NEW i \in 1 .. n PROVE Kept(buf)[i] = buf[Len(buf) - n + i]
  BY <1>1, <1>2, <1>4
<1> QED
  BY <1>1, <1>3, <1>4

\* A buffer is the memory from the carry on.
LEMMA BufferIsMemory ==
    ASSUME IInv, base < End, NEW got \in Gots
    PROVE  /\ got \in Nat \ {0} /\ base + got <= End
           /\ base \in Nat /\ Len(carry) \in Nat
           /\ At \in Nat /\ Start <= At /\ At + Len(carry) = base
           /\ Buffer(got) \in Seq(Bytes) /\ Len(Buffer(got)) = Len(carry) + got
           /\ At + Len(Buffer(got)) = base + got
           /\ \A i \in 1 .. Len(Buffer(got)) : Buffer(got)[i] = memory[At + i - 1]
<1> DEFINE fresh == [i \in 1 .. got |-> memory[base + i - 1]]
<1>1. /\ Start \in Nat /\ End \in Nat /\ Span \in Nat /\ BufSize \in Nat \ {0}
      /\ base \in Nat /\ Start <= base
  BY SizesAreNumbers DEF IInv, Arguments, TypeOK
<1>2. got \in Nat \ {0} /\ base + got <= End
  <2>1. End - base \in Int /\ BufSize \in Int
    BY <1>1
  <2>2. ToRead \in {End - base, BufSize} /\ ToRead <= End - base
    BY <2>1, MinOfTwo, Zenon DEF ToRead
  <2>3. got \in 1 .. ToRead
    BY DEF Gots
  <2> QED
    BY <1>1, <2>1, <2>2, <2>3
<1>3. /\ carry \in Seq(Bytes) /\ Len(carry) \in Nat /\ Start <= At
      /\ \A i \in 1 .. Len(carry) : carry[i] = memory[At + i - 1]
  BY DEF IInv, CarryInv
<1>4. At \in Nat /\ At + Len(carry) = base
  BY <1>1, <1>3 DEF At
<1>5. \A i \in 1 .. got : base + i - 1 \in Addresses
  BY <1>1, <1>2 DEF Addresses
<1>6. fresh \in Seq(Bytes) /\ Len(fresh) = got
  BY <1>2, <1>5 DEF IInv, Arguments
<1>7. Buffer(got) = carry \o fresh
  BY DEF Buffer
<1> HIDE DEF fresh
<1>8. /\ Buffer(got) \in Seq(Bytes) /\ Len(Buffer(got)) = Len(carry) + got
      /\ \A i \in 1 .. Len(carry) : Buffer(got)[i] = carry[i]
      /\ \A i \in Len(carry) + 1 .. Len(carry) + got :
             Buffer(got)[i] = fresh[i - Len(carry)]
  <2>1. carry \in Seq(Bytes) /\ fresh \in Seq(Bytes) /\ Len(fresh) = got
    BY <1>3, <1>6
  <2>2. carry \o fresh \in Seq(Bytes) /\ Len(carry \o fresh) = Len(carry) + got
    BY <2>1
  <2>3. \A i \in 1 .. Len(carry) : (carry \o fresh)[i] = carry[i]
    BY <2>1
  <2>4. \A i \in Len(carry) + 1 .. Len(carry) + got :
            (carry \o fresh)[i] = fresh[i - Len(carry)]
    BY <1>2, <2>1
  <2> QED
    BY <1>7, <2>2, <2>3, <2>4, Zenon
<1>9. ASSUME NEW i \in 1 .. Len(Buffer(got)) PROVE Buffer(got)[i] = memory[At + i - 1]
  <2>1. CASE i <= Len(carry)
    BY <1>3, <1>8, <2>1
  <2>2. CASE i > Len(carry)
    <3>1. i - Len(carry) \in 1 .. got /\ i \in Len(carry) + 1 .. Len(carry) + got
      BY <1>2, <1>3, <1>8, <2>2
    <3>2. Buffer(got)[i] = memory[base + (i - Len(carry)) - 1]
      BY <1>8, <3>1 DEF fresh
    <3>3. base + (i - Len(carry)) - 1 = At + i - 1
      BY <1>1, <1>3 DEF At
    <3> QED
      BY <3>2, <3>3
  <2> QED
    BY <1>3, <1>8, <2>1, <2>2
<1>10. At + Len(Buffer(got)) = base + got
  <2>1. Len(Buffer(got)) = Len(carry) + got
    BY <1>8
  <2>2. At + (Len(carry) + got) = (At + Len(carry)) + got
    BY <1>2, <1>3, <1>4
  <2> QED
    BY <1>4, <2>1, <2>2
<1> QED
  BY <1>1, <1>2, <1>3, <1>4, <1>8, <1>9, <1>10
-----------------------------------------------------------------------------
(* The search of a buffer *)

\* The bytes of a part of a sequence are those of the sequence.
LEMMA BytesOfPart ==
    ASSUME NEW s \in Seq(Bytes), NEW off \in Nat, NEW size \in Nat, off + size <= Len(s),
           NEW j \in 1 .. size
    PROVE  SubSeq(s, off + 1, off + size)[j] = s[off + j]
<1>1. Len(s) \in Nat /\ j \in Nat
  OBVIOUS
<1>2. (off + 1) + j - 1 = off + j
  BY <1>1
<1>3. j \in 1 .. (off + size) - (off + 1) + 1
  BY <1>1
<1>4. SubSeq(s, off + 1, off + size)
        = [k \in 1 .. (off + size) - (off + 1) + 1 |-> s[(off + 1) + k - 1]]
  BY <1>1
<1> QED
  BY <1>2, <1>3, <1>4

\* The buffer holds an item at an offset when the memory does at its address.
LEMMA HoldsIsHeld ==
    ASSUME IInv, base < End, NEW got \in Gots,
           NEW i \in 1 .. Len(items),
           NEW off \in Nat, off + Sz(i) <= Len(Buffer(got))
    PROVE  Holds(Buffer(got), off, i) <=> HeldAt(At + off, i)
<1> DEFINE buf == Buffer(got)
           sub == SubSeq(buf, off + 1, off + Sz(i))
<1>1. items[i] \in Seq(Bytes) /\ Sz(i) \in Nat \ {0} /\ End \in Nat /\ Start \in Nat
  BY SizesAreNumbers DEF IInv, Arguments
<1>2. /\ buf \in Seq(Bytes) /\ Len(buf) \in Nat /\ At \in Nat /\ Start <= At
      /\ At + Len(buf) <= End
      /\ \A j \in 1 .. Len(buf) : buf[j] = memory[At + j - 1]
  BY BufferIsMemory
<1> HIDE DEF buf
<1>3. off + Sz(i) <= Len(buf)
  BY DEF buf
<1>4. sub \in Seq(Bytes) /\ Len(sub) = Sz(i) /\ \A j \in 1 .. Sz(i) : sub[j] = buf[off + j]
  <2>1. off + 1 \in 1 .. Len(buf) + 1 /\ off + Sz(i) \in off .. Len(buf)
    BY <1>1, <1>2, <1>3
  <2>2. sub \in Seq(Bytes)
    BY <1>2, <2>1
  <2>3. Len(sub) = Sz(i)
    BY <1>1, <1>2, <2>1, SMTT(30)
  <2>4. ASSUME NEW j \in 1 .. Sz(i) PROVE sub[j] = buf[off + j]
    <3>1. Sz(i) \in Nat
      BY <1>1
    <3> QED
      BY <1>2, <1>3, <2>4, <3>1, BytesOfPart
  <2> QED
    BY <2>2, <2>3, <2>4
<1>5. ASSUME NEW j \in 1 .. Sz(i) PROVE sub[j] = memory[(At + off) + j - 1]
  <2>1. off + j \in 1 .. Len(buf)
    BY <1>1, <1>2, <1>3
  <2>2. At + (off + j) - 1 = (At + off) + j - 1
    BY <1>1, <1>2
  <2> HIDE DEF sub
  <2>3. sub[j] = buf[off + j]
    BY <1>4
  <2>4. buf[off + j] = memory[At + (off + j) - 1]
    BY <1>2, <2>1
  <2> QED
    BY <2>2, <2>3, <2>4
<1> HIDE DEF sub
<1>6. At + off \in Start .. End - Sz(i)
  BY <1>1, <1>2, <1>3
<1>7. sub = items[i] <=> \A j \in 1 .. Sz(i) : sub[j] = items[i][j]
  <2>1. Len(items[i]) = Sz(i)
    BY DEF Sz
  <2> QED
    BY <1>1, <1>4, <2>1
<1>8. Holds(buf, off, i) <=> sub = items[i]
  BY DEF Holds, sub
<1>9. HeldAt(At + off, i) <=> \A j \in 1 .. Sz(i) : memory[(At + off) + j - 1] = items[i][j]
  BY <1>6 DEF HeldAt
<1> QED
  BY <1>5, <1>7, <1>8, <1>9 DEF buf

\* The window of an item ends within the gaps and within the buffer.
LEMMA WinEndIs == ASSUME items \in ItemLists, NEW buf \in Seq(Bytes), NEW off \in Int,
                         NEW i \in 1 .. Len(items)
                  PROVE  /\ Gap * i \in Nat
                         /\ WinEnd(buf, off, i) \in {off + Gap * i, Len(buf)}
                         /\ WinEnd(buf, off, i) <= off + Gap * i
                         /\ WinEnd(buf, off, i) <= Len(buf)
<1>1. Gap \in Nat /\ i \in Nat /\ Len(buf) \in Int
  BY SizesAreNumbers
<1>2. Gap * i \in Nat
  BY <1>1
<1>3. off + Gap * i \in Int
  BY <1>2
<1> QED
  BY <1>1, <1>2, <1>3, MinOfTwo, Zenon DEF WinEnd

\* What the search of a buffer finds are groups of the memory.
LEMMA ChainIsGroup ==
    ASSUME IInv, base < End, NEW got \in Gots, NEW g \in GroupsIn(Buffer(got), At)
    PROVE  g \in [1 .. Len(items) -> Addresses] /\ IsGroup(g)
<1> DEFINE buf == Buffer(got)
<1>1. PICK chain \in Chains(buf, At) : g = AddressesOf(At, chain)
  BY DEF GroupsIn
<1>2. /\ buf \in Seq(Bytes) /\ Len(buf) \in Nat /\ At \in Nat /\ Start <= At
      /\ At + Len(buf) <= End
  BY BufferIsMemory
<1>3. /\ items \in ItemLists /\ Len(items) \in Nat \ {0} /\ Start \in Nat /\ End \in Nat
      /\ \A i \in 1 .. Len(items) : Sz(i) \in Nat \ {0}
  BY SizesAreNumbers DEF IInv, Arguments
<1>4. \A i \in 1 .. Len(items) : chain[i] \in Nat /\ g[i] = At + chain[i]
  BY <1>1, <1>2 DEF Chains, AddressesOf
<1>5. ASSUME NEW i \in 2 .. Len(items)
      PROVE  /\ g[i] >= g[i - 1] + Sz(i - 1) /\ g[i] + Sz(i) <= g[1] + Gap * i
             /\ HeldAt(g[i], i) /\ g[i] \in Addresses
  <2>1. i \in 1 .. Len(items) /\ i - 1 \in 1 .. Len(items) /\ 1 \in 1 .. Len(items)
    BY <1>3
  <2>2. chain[i] \in Hits(buf, chain[1], chain[i - 1] + Sz(i - 1), i)
    BY <1>1 DEF Chains
  <2>3. /\ WinEnd(buf, chain[1], i) \in Int
        /\ WinEnd(buf, chain[1], i) <= chain[1] + Gap * i
        /\ WinEnd(buf, chain[1], i) <= Len(buf)
        /\ Gap * i \in Nat
    <3>1. /\ WinEnd(buf, chain[1], i) \in {chain[1] + Gap * i, Len(buf)}
          /\ WinEnd(buf, chain[1], i) <= chain[1] + Gap * i
          /\ WinEnd(buf, chain[1], i) <= Len(buf)
          /\ Gap * i \in Nat /\ chain[1] \in Nat
      BY <1>2, <1>3, <1>4, <2>1, WinEndIs
    <3> QED
      BY <1>2, <3>1
  <2>4. /\ chain[i] >= chain[i - 1] + Sz(i - 1)
        /\ chain[i] + Sz(i) <= WinEnd(buf, chain[1], i)
        /\ Holds(buf, chain[i], i)
    BY <1>3, <1>4, <2>1, <2>2, <2>3 DEF Hits
  <2>5. HeldAt(g[i], i)
    BY <1>2, <1>3, <1>4, <2>1, <2>3, <2>4, HoldsIsHeld
  <2>6. g[i] \in Addresses
    BY <1>3, <2>1, <2>5 DEF Addresses, HeldAt
  <2>7. g[i] >= g[i - 1] + Sz(i - 1) /\ g[i] + Sz(i) <= g[1] + Gap * i
    <3>1. /\ g[i] = At + chain[i] /\ g[i - 1] = At + chain[i - 1] /\ g[1] = At + chain[1]
          /\ chain[i] \in Nat /\ chain[i - 1] \in Nat /\ chain[1] \in Nat
          /\ Sz(i) \in Nat /\ Sz(i - 1) \in Nat
      BY <1>3, <1>4, <2>1
    <3> DEFINE win == WinEnd(buf, chain[1], i)
               reach == Gap * i
    <3>2. win \in Int /\ reach \in Nat /\ win <= chain[1] + reach /\ chain[i] + Sz(i) <= win
      BY <2>3, <2>4
    <3> HIDE DEF win, reach
    <3>3. g[i] + Sz(i) <= g[1] + reach
      <4>1. chain[i] + Sz(i) <= chain[1] + reach
        BY <3>1, <3>2
      <4>2. At \in Nat
        BY <1>2
      <4> QED
        BY <3>1, <3>2, <4>1, <4>2, SMTT(30)
    <3>4. g[i] >= g[i - 1] + Sz(i - 1)
      BY <1>2, <2>4, <3>1
    <3> QED
      BY <3>3, <3>4 DEF reach
  <2> QED
    BY <2>5, <2>6, <2>7
<1>6. /\ HeldAt(g[1], 1) /\ g[1] % Sz(1) = 0 /\ g[1] \in Addresses
  <2>1. 1 \in 1 .. Len(items) /\ chain[1] \in Pivots(buf, At) /\ Holds(buf, chain[1], 1)
    BY <1>1, <1>3 DEF Chains
  <2>2. chain[1] + Sz(1) <= Len(buf) /\ (At + chain[1]) % Sz(1) = 0
    BY <1>2, <1>3, <1>4, <2>1 DEF Pivots
  <2>3. HeldAt(g[1], 1)
    BY <1>4, <2>1, <2>2, HoldsIsHeld
  <2>4. g[1] \in Addresses
    BY <1>3, <2>1, <2>3 DEF Addresses, HeldAt
  <2> QED
    BY <1>4, <2>1, <2>2, <2>3, <2>4
<1>7. \A i \in 1 .. Len(items) : HeldAt(g[i], i) /\ g[i] \in Addresses
  BY <1>3, <1>5, <1>6
<1>8. g \in [1 .. Len(items) -> Addresses]
  BY <1>1, <1>7 DEF AddressesOf
<1> QED
  BY <1>5, <1>6, <1>7, <1>8 DEF IsGroup

\* A chain is given by its pivot.
LEMMA ChainOfPivot == ASSUME items \in ItemLists, NEW buf \in Seq(Bytes), NEW at,
                             NEW c \in Chains(buf, at), NEW d \in Chains(buf, at),
                             c[1] = d[1]
                      PROVE  c = d
<1> DEFINE Differ == {i \in 1 .. Len(items) : c[i] # d[i]}
<1>1. Len(items) \in Nat \ {0}
  BY SizesAreNumbers
<1>2. /\ c \in [1 .. Len(items) -> 0 .. Len(buf)] /\ d \in [1 .. Len(items) -> 0 .. Len(buf)]
  BY DEF Chains
<1>3. SUFFICES ASSUME Differ # {} PROVE FALSE
  BY <1>2, <1>3
<1>4. PICK i \in Differ : \A j \in Differ : i <= j
  <2>1. Differ \in SUBSET Nat
    BY <1>1
  <2> QED
    BY <1>3, <2>1, LeastOne
<1>5. i \in 2 .. Len(items) /\ i - 1 \in 1 .. Len(items)
  BY <1>1, <1>4
<1>6. i - 1 \notin Differ
  BY <1>1, <1>4, <1>5
<1>7. c[i - 1] = d[i - 1]
  BY <1>5, <1>6
<1> DEFINE hits == Hits(buf, c[1], c[i - 1] + Sz(i - 1), i)
<1>8. /\ c[i] \in hits /\ \A w \in hits : c[i] <= w
      /\ d[i] \in hits /\ \A w \in hits : d[i] <= w
  BY <1>5, <1>7 DEF Chains
<1> HIDE DEF hits
<1>9. c[i] <= d[i] /\ d[i] <= c[i]
  BY <1>8
<1>10. c[i] \in Int /\ d[i] \in Int
  BY <1>2, <1>4
<1> QED
  BY <1>4, <1>9, <1>10

\* A buffer has finitely many groups.
LEMMA GroupsFinite == ASSUME items \in ItemLists, NEW buf \in Seq(Bytes), NEW at
                      PROVE  IsFiniteSet(GroupsIn(buf, at))
<1> DEFINE pivot == [c \in Chains(buf, at) |-> c[1]]
           group == [c \in Chains(buf, at) |-> AddressesOf(at, c)]
<1>1. Len(items) \in Nat \ {0} /\ Len(buf) \in Nat
  BY SizesAreNumbers
<1>2. pivot \in Injection(Chains(buf, at), 0 .. Len(buf))
  <2>1. \A c \in Chains(buf, at) : c[1] \in 0 .. Len(buf)
    BY <1>1 DEF Chains
  <2> QED
    BY <2>1, ChainOfPivot DEF Injection, IsInjective
<1>3. IsFiniteSet(0 .. Len(buf))
  BY <1>1, FS_Interval
<1>4. IsFiniteSet(Chains(buf, at))
  BY <1>2, <1>3, FS_Injection
<1>5. group \in Surjection(Chains(buf, at), GroupsIn(buf, at))
  BY DEF Surjection, GroupsIn
<1> QED
  BY <1>4, <1>5, FS_Surjection
-----------------------------------------------------------------------------
(* The invariant *)

LEMMA InitIInv == Init => IInv
<1> SUFFICES ASSUME Init PROVE IInv
  OBVIOUS
<1>1. Arguments /\ Span \in Nat /\ Start \in Nat /\ End \in Nat /\ Start <= End /\ BufSize \in Nat
  BY SizesAreNumbers DEF Init, Arguments
<1>2. base = Start /\ carry = << >> /\ groups = {} /\ failed = {} /\ reported = 0
  BY DEF Init
<1>3. TypeOK /\ GroupsAreReal
  BY <1>1, <1>2 DEF TypeOK, GroupsAreReal
<1> QED
  BY <1>1, <1>2, <1>3 DEF IInv, CarryInv, At

\* What depends on the arguments alone stays.
LEMMA SameArguments ==
    ASSUME UNCHANGED <<memory, items>>
    PROVE  /\ Span' = Span /\ BufSize' = BufSize /\ Arguments' = Arguments
           /\ \A i : Sz(i)' = Sz(i)
           /\ \A g : IsGroup(g)' = IsGroup(g)
           /\ \A g : IsFirstGroup(g)' = IsFirstGroup(g)
           /\ \A g : GroupEnd(g)' = GroupEnd(g)
           /\ SpanIsAligned' = SpanIsAligned
BY DEF Span, BufSize, Arguments, Sz, IsGroup, IsFirstGroup, HeldAt, GroupEnd, SpanIsAligned

\* The cursor, the carry and the results after a buffer was searched.
LEMMA ReadChunkIs ==
    ASSUME IInv, NEW got \in Gots, ReadChunk(got)
    PROVE  /\ base < End /\ UNCHANGED <<memory, items, failed>>
           /\ groups' = groups \cup GroupsIn(Buffer(got), At)
           /\ reported' = reported + Cardinality(GroupsIn(Buffer(got), At))
           /\ carry' = Kept(Buffer(got)) /\ base' = base + got
BY DEF ReadChunk, After, Buffer, At

\* The carry is the tail of what was carried over before and what was read.
LEMMA ReadChunkIInv == ASSUME IInv, NEW got \in Gots, ReadChunk(got) PROVE IInv'
<1> DEFINE buf == Buffer(got)
<1>1. /\ base < End /\ UNCHANGED <<memory, items, failed>>
      /\ groups' = groups \cup GroupsIn(buf, At)
      /\ reported' = reported + Cardinality(GroupsIn(buf, At))
      /\ carry' = Kept(buf) /\ base' = base + got
  BY ReadChunkIs
<1>2. /\ Start \in Nat /\ End \in Nat /\ Span \in Nat /\ BufSize \in Nat
      /\ items \in ItemLists /\ base >= Start
  BY SizesAreNumbers DEF IInv, Arguments, TypeOK
<1>3. /\ got \in Nat \ {0} /\ base + got <= End
      /\ base \in Nat /\ Len(carry) \in Nat
      /\ At \in Nat /\ Start <= At /\ At + Len(carry) = base
      /\ buf \in Seq(Bytes) /\ Len(buf) = Len(carry) + got
      /\ At + Len(buf) = base + got
      /\ \A i \in 1 .. Len(buf) : buf[i] = memory[At + i - 1]
  BY <1>1, BufferIsMemory
<1> HIDE DEF buf
<1>4. /\ carry' \in Seq(Bytes) /\ Len(carry') \in Nat
      /\ Len(carry') <= Span /\ Len(carry') <= Len(buf)
      /\ \A i \in 1 .. Len(carry') : carry'[i] = buf[Len(buf) - Len(carry') + i]
  <2>1. Kept(buf) \in Seq(Bytes) /\ Len(Kept(buf)) \in Nat
    BY <1>2, <1>3, KeptIsTail
  <2> QED
    BY <1>1, <1>2, <1>3, <2>1, KeptIsTail, Zenon
<1>5. Start <= At' /\ At' = At + (Len(buf) - Len(carry'))
  <2>1. At' = base' - Len(carry')
    BY DEF At
  <2>2. At' = (base + got) - Len(carry')
    BY <1>1, <2>1
  <2> QED
    BY ONLY <1>2, <1>3, <1>4, <2>2, SMTT(30)
<1>6. ASSUME NEW i \in 1 .. Len(carry') PROVE carry'[i] = memory'[At' + i - 1]
  <2>1. Len(buf) - Len(carry') + i \in 1 .. Len(buf)
    BY <1>3, <1>4
  <2>2. carry'[i] = memory[At + (Len(buf) - Len(carry') + i) - 1]
    BY <1>3, <1>4, <2>1
  <2>3. At + (Len(buf) - Len(carry') + i) - 1 = At' + i - 1
    BY <1>3, <1>4, <1>5
  <2> QED
    BY <1>1, <2>2, <2>3
<1>7. CarryInv'
  BY <1>1, <1>4, <1>5, <1>6, SameArguments DEF CarryInv
<1>8. \A g \in GroupsIn(buf, At) : g \in [1 .. Len(items) -> Addresses] /\ IsGroup(g)
  BY <1>1, ChainIsGroup DEF buf
<1>9. TypeOK'
  <2>1. Cardinality(GroupsIn(buf, At)) \in Nat
    BY <1>2, <1>3, GroupsFinite, FS_CardinalityType
  <2>2. base' \in Start .. End + BufSize
    BY <1>1, <1>2, <1>3
  <2>3. reported' \in Nat
    BY <1>1, <2>1 DEF IInv, TypeOK
  <2>4. groups' \subseteq [1 .. Len(items) -> Addresses]
    BY <1>1, <1>8 DEF IInv, TypeOK
  <2> QED
    BY <1>1, <1>4, <2>2, <2>3, <2>4, SameArguments DEF IInv, TypeOK, Addresses
<1>10. GroupsAreReal'
  BY <1>1, <1>8, SameArguments DEF IInv, GroupsAreReal
<1> QED
  BY <1>1, <1>7, <1>9, <1>10, SameArguments DEF IInv

\* A failed read empties the carry.
LEMMA ReadFailsIInv == IInv /\ ReadFails => IInv'
<1> SUFFICES ASSUME IInv, ReadFails PROVE IInv'
  OBVIOUS
<1>1. /\ UNCHANGED <<memory, items, groups, reported>> /\ carry' = << >>
      /\ base < End /\ base' = base + BufSize /\ failed' = failed \cup {base}
  BY DEF ReadFails
<1>2. /\ Start \in Nat /\ End \in Nat /\ Span \in Nat /\ BufSize \in Nat
      /\ base \in Nat /\ Start <= base
  BY SizesAreNumbers DEF IInv, Arguments, TypeOK
<1>3. TypeOK'
  <2>1. base' \in Start .. End + BufSize /\ base \in Addresses
    BY <1>1, <1>2 DEF Addresses
  <2> QED
    BY <1>1, <2>1, SameArguments DEF IInv, TypeOK, Addresses
<1>4. CarryInv'
  BY <1>1, <1>2, SameArguments DEF CarryInv, At
<1> QED
  BY <1>1, <1>3, <1>4, SameArguments DEF IInv, GroupsAreReal

\* Every step keeps the invariant.
THEOREM GroupInductive == Spec => []IInv
<1>1. IInv /\ [Next]_vars => IInv'
  <2> SUFFICES ASSUME IInv, [Next]_vars PROVE IInv'
    OBVIOUS
  <2>1. CASE UNCHANGED vars
    <3>1. UNCHANGED <<memory, items, base, carry, groups, reported, failed>>
      BY <2>1 DEF vars
    <3> QED
      BY <3>1, SameArguments DEF IInv, TypeOK, Addresses, CarryInv, At, GroupsAreReal
  <2> QED
    BY <2>1, ReadFailsIInv, ReadChunkIInv DEF Next
<1> QED
  BY <1>1, InitIInv, PTL DEF Spec

\* The cursor stays near the region, and groups are given by its addresses.
THEOREM GroupTypes == Spec => []TypeOK
<1>1. IInv => TypeOK
  BY DEF IInv
<1> QED
  BY <1>1, GroupInductive, PTL

\* What scan_group reports is in the memory, in order and inside the windows,
\* for any items and region, wherever the reads cut it.
THEOREM ReportedAreGroups == Spec => []GroupsAreReal
<1>1. IInv => GroupsAreReal
  BY DEF IInv
<1> QED
  BY <1>1, GroupInductive, PTL

\* No read of scan_group goes past the end of its buffer, however many items
\* there are and however the reads before it fell short.
THEOREM GroupFitsBuffer == Spec => []FitsBuffer
<1>1. IInv => FitsBuffer
  <2> SUFFICES ASSUME IInv PROVE FitsBuffer
    OBVIOUS
  <2>1. End \in Nat /\ Span \in Nat /\ BufSize \in Nat /\ base \in Nat
    BY SizesAreNumbers DEF IInv, Arguments, TypeOK
  <2>2. ToRead \in Int /\ ToRead <= BufSize
    BY <2>1, MinOfTwo DEF ToRead
  <2>3. Len(carry) \in Nat /\ Len(carry) <= Span
    BY DEF IInv, CarryInv
  <2> QED
    BY <2>1, <2>2, <2>3 DEF FitsBuffer
<1> QED
  BY <1>1, GroupInductive, PTL
-----------------------------------------------------------------------------
(* The groups that are found *)

\* A carry of less than max_span bytes begins where the scan began, or where
\* it went on after a failed read.
CarryBegins == base < End /\ Len(carry) < Span =>
                   At = Start \/ \E f \in failed : At = f + BufSize

\* The cursor and the buffer keep the alignment of the items behind the pivot.
Aligned == base < End /\ SpanIsAligned =>
               \A i \in 2 .. Len(items) : base % Sz(i) = 0 /\ At % Sz(i) = 0

\* A group that meets a chunk that could not be read.
Lost(g) == \E f \in failed : f < GroupEnd(g) /\ g[1] < f + BufSize

\* The groups before the cursor are found.
Covered == SpanIsAligned =>
               \A g \in [1 .. Len(items) -> Addresses] :
                   IsFirstGroup(g) /\ GroupEnd(g) <= base => g \in groups \/ Lost(g)

FoundInv == IInv /\ CarryBegins /\ Aligned /\ Covered

\* The items of a group lie between its pivot and its end, and max_span bytes
\* hold it.
LEMMA GroupExtends ==
    ASSUME items \in ItemLists, NEW g \in [1 .. Len(items) -> Addresses], IsGroup(g)
    PROVE  /\ \A i \in 1 .. Len(items) : /\ g[i] \in Nat /\ g[1] <= g[i]
                                         /\ g[i] + Sz(i) <= GroupEnd(g)
           /\ GroupEnd(g) \in Nat /\ g[1] < GroupEnd(g)
           /\ GroupEnd(g) <= g[1] + Span /\ GroupEnd(g) <= End
<1> DEFINE n == Len(items)
<1>1. /\ n \in Nat \ {0} /\ Start \in Nat /\ End \in Nat /\ Span \in Nat
      /\ \A i \in 1 .. n : Sz(i) \in Nat \ {0}
  BY SizesAreNumbers
<1>2. \A i \in 1 .. n : g[i] \in Nat
  BY <1>1 DEF Addresses
<1>3. \A i \in 2 .. n : g[i] >= g[i - 1] + Sz(i - 1)
  BY DEF IsGroup
<1> HIDE DEF n
<1>4. \A i \in 1 .. n : g[1] <= g[i]
  <2> DEFINE Before == {i \in 1 .. n : ~(g[1] <= g[i])}
  <2> SUFFICES ASSUME Before # {} PROVE FALSE
    OBVIOUS
  <2>1. Before \in SUBSET Nat
    BY <1>1
  <2>2. PICK i \in Before : \A j \in Before : i <= j
    BY <2>1, LeastOne
  <2>3. i \in 2 .. n /\ i - 1 \in 1 .. n /\ i - 1 \notin Before
    BY <1>1, <1>2, <2>2, SMTT(30)
  <2>4. g[1] <= g[i - 1] /\ g[i - 1] + Sz(i - 1) <= g[i]
    BY <1>3, <2>3
  <2>5. /\ g[1] \in Nat /\ g[i - 1] \in Nat /\ g[i] \in Nat /\ Sz(i - 1) \in Nat
        /\ ~(g[1] <= g[i])
    BY <1>1, <1>2, <2>2, <2>3
  <2> QED
    BY <2>4, <2>5
<1>5. \A i \in 1 .. n : g[i] + Sz(i) <= GroupEnd(g)
  <2> DEFINE Behind == {k \in 0 .. n - 1 : ~(g[n - k] + Sz(n - k) <= GroupEnd(g))}
  <2>1. Behind = {}
    <3> SUFFICES ASSUME Behind # {} PROVE FALSE
      OBVIOUS
    <3>1. Behind \in SUBSET Nat
      BY <1>1
    <3>2. PICK k \in Behind : \A j \in Behind : k <= j
      BY <3>1, LeastOne
    <3>3. GroupEnd(g) = g[n] + Sz(n) /\ n \in 1 .. n /\ n - 0 = n
      BY <1>1 DEF GroupEnd, n
    <3>4. k # 0
      BY <1>1, <1>2, <3>2, <3>3
    <3> DEFINE i == n - (k - 1)
    <3>5. k - 1 \in 0 .. n - 1 /\ k - 1 \notin Behind /\ i \in 2 .. n /\ i - 1 = n - k
      <4>1. k \in 1 .. n - 1
        BY <1>1, <3>2, <3>4
      <4>2. k - 1 \in 0 .. n - 1 /\ i \in 2 .. n /\ i - 1 = n - k
        BY <1>1, <4>1
      <4>3. ~(k <= k - 1)
        BY <1>1, <4>1
      <4>4. k - 1 \notin Behind
        BY <3>2, <4>3
      <4> QED
        BY <4>2, <4>4
    <3>6. g[i] + Sz(i) <= GroupEnd(g)
      BY <3>5
    <3> HIDE DEF i
    <3>7. ~(g[i - 1] + Sz(i - 1) <= GroupEnd(g)) /\ g[i - 1] + Sz(i - 1) <= g[i]
      BY <1>3, <3>2, <3>5
    <3>8. /\ g[i] \in Nat /\ Sz(i) \in Nat /\ g[i - 1] \in Nat /\ Sz(i - 1) \in Nat
          /\ GroupEnd(g) \in Nat
      <4>1. i \in 1 .. n /\ i - 1 \in 1 .. n
        BY <1>1, <3>5
      <4>2. g[n] \in Nat /\ Sz(n) \in Nat
        BY <1>1, <1>2, <3>3
      <4>3. GroupEnd(g) \in Nat
        BY <3>3, <4>2
      <4>4. g[i] \in Nat /\ g[i - 1] \in Nat
        BY <1>2, <4>1
      <4>5. Sz(i) \in Nat /\ Sz(i - 1) \in Nat
        BY <1>1, <4>1
      <4> QED
        BY <4>3, <4>4, <4>5
    <3> QED
      BY <3>6, <3>7, <3>8
  <2> SUFFICES ASSUME NEW i \in 1 .. n PROVE g[i] + Sz(i) <= GroupEnd(g)
    OBVIOUS
  <2>2. n - i \in 0 .. n - 1 /\ n - (n - i) = i
    BY <1>1
  <2> QED
    BY <2>1, <2>2
<1>6. /\ GroupEnd(g) = g[n] + Sz(n) /\ n \in 1 .. n /\ 1 \in 1 .. n
      /\ HeldAt(g[n], n)
  BY <1>1 DEF GroupEnd, IsGroup, n
<1>7. GroupEnd(g) \in Nat /\ g[1] < GroupEnd(g) /\ GroupEnd(g) <= End
  <2>1. g[n] \in Start .. End - Sz(n)
    BY <1>6 DEF HeldAt
  <2>2. g[1] \in Nat /\ g[n] \in Nat /\ Sz(n) \in Nat \ {0} /\ g[1] <= g[n]
    BY <1>1, <1>2, <1>4, <1>6
  <2> QED
    BY <1>1, <1>6, <2>1, <2>2
<1>8. GroupEnd(g) <= g[1] + Span
  <2>1. CASE n = 1
    BY <1>1, <1>2, <1>6, <2>1, SizesAreNumbers
  <2>2. CASE n # 1
    <3> DEFINE reach == Gap * n
    <3>1. g[n] + Sz(n) <= g[1] + reach
      <4>1. n \in 2 .. n
        BY <1>1, <2>2
      <4>2. \A i \in 2 .. n : g[i] + Sz(i) <= g[1] + Gap * i
        BY DEF IsGroup, n
      <4> QED
        BY <4>1, <4>2
    <3>2. reach \in Nat /\ reach <= Span
      BY SizesAreNumbers DEF n
    <3> HIDE DEF reach
    <3>3. g[1] \in Nat
      BY <1>2, <1>6
    <3> QED
      BY <1>1, <1>6, <1>7, <3>1, <3>2, <3>3
  <2> QED
    BY <2>1, <2>2
<1> QED
  BY <1>2, <1>4, <1>5, <1>7, <1>8 DEF n

\* The search finds each group that is in its buffer as a whole.
LEMMA GroupIsFound ==
    ASSUME IInv, base < End, NEW got \in Gots,
           \A i \in 2 .. Len(items) : At % Sz(i) = 0,
           NEW g \in [1 .. Len(items) -> Addresses], IsFirstGroup(g),
           At <= g[1], GroupEnd(g) <= base + got
    PROVE  g \in GroupsIn(Buffer(got), At)
<1> DEFINE buf   == Buffer(got)
           chain == [i \in 1 .. Len(items) |-> g[i] - At]
<1>1. /\ buf \in Seq(Bytes) /\ Len(buf) \in Nat /\ At \in Nat
      /\ At + Len(buf) = base + got
  BY BufferIsMemory
<1>2. /\ items \in ItemLists /\ Len(items) \in Nat \ {0}
      /\ \A i \in 1 .. Len(items) : Sz(i) \in Nat \ {0}
  BY SizesAreNumbers DEF IInv, Arguments
<1>3. IsGroup(g)
  BY DEF IsFirstGroup
<1> HIDE DEF buf
<1>4. ASSUME NEW i \in 1 .. Len(items)
      PROVE  /\ g[i] \in Nat /\ At <= g[i] /\ chain[i] = g[i] - At /\ chain[i] \in Nat
             /\ At + chain[i] = g[i] /\ Sz(i) \in Nat \ {0}
             /\ chain[i] + Sz(i) <= Len(buf) /\ Holds(buf, chain[i], i)
  <2>1. /\ g[i] \in Nat /\ g[1] <= g[i] /\ g[i] + Sz(i) <= GroupEnd(g)
        /\ GroupEnd(g) \in Nat
    BY <1>2, <1>3, GroupExtends
  <2>2. g[1] \in Nat /\ Sz(i) \in Nat \ {0}
    BY <1>2, <1>3, GroupExtends
  <2>3. chain[i] = g[i] - At
    OBVIOUS
  <2> HIDE DEF chain
  <2>4. At <= g[i] /\ chain[i] \in Nat /\ At + chain[i] = g[i]
    BY <1>1, <2>1, <2>2, <2>3
  <2>5. chain[i] + Sz(i) <= Len(buf)
    <3>1. g[i] + Sz(i) <= At + Len(buf)
      BY <1>1, <2>1, <2>2
    <3> QED
      BY <1>1, <2>1, <2>2, <2>4, <3>1
  <2>6. HeldAt(At + chain[i], i)
    BY <1>3, <2>4 DEF IsGroup
  <2>7. Holds(buf, chain[i], i)
    BY <2>4, <2>5, <2>6, HoldsIsHeld DEF buf
  <2> QED
    BY <2>1, <2>2, <2>3, <2>4, <2>5, <2>7
<1>5. chain \in [1 .. Len(items) -> 0 .. Len(buf)]
  <2>1. ASSUME NEW i \in 1 .. Len(items) PROVE g[i] - At \in 0 .. Len(buf)
    BY <1>1, <1>4
  <2> QED
    BY <2>1
<1> HIDE DEF chain
<1>6. chain[1] \in Pivots(buf, At) /\ Holds(buf, chain[1], 1)
  <2>1. /\ 1 \in 1 .. Len(items) /\ Sz(1) \in Nat \ {0} /\ chain[1] \in Nat
        /\ chain[1] + Sz(1) <= Len(buf) /\ At + chain[1] = g[1] /\ Holds(buf, chain[1], 1)
    BY <1>2, <1>4
  <2>2. chain[1] \in 0 .. Len(buf) - Sz(1)
    BY <1>1, <2>1
  <2>3. (At + chain[1]) % Sz(1) = 0
    BY <1>3, <2>1 DEF IsGroup
  <2> QED
    BY <2>1, <2>2, <2>3 DEF Pivots
<1>7. ASSUME NEW i \in 2 .. Len(items)
      PROVE  LET hits == Hits(buf, chain[1], chain[i - 1] + Sz(i - 1), i)
             IN  chain[i] \in hits /\ \A w \in hits : chain[i] <= w
  <2> DEFINE from == chain[i - 1] + Sz(i - 1)
             win  == WinEnd(buf, chain[1], i)
  <2>1. i \in 1 .. Len(items) /\ i - 1 \in 1 .. Len(items) /\ 1 \in 1 .. Len(items)
    BY <1>2
  <2>2. /\ chain[i] \in Nat /\ chain[i - 1] \in Nat /\ chain[1] \in Nat
        /\ At + chain[i] = g[i] /\ At + chain[i - 1] = g[i - 1] /\ At + chain[1] = g[1]
        /\ Sz(i) \in Nat \ {0} /\ Sz(i - 1) \in Nat \ {0}
        /\ chain[i] = g[i] - At /\ At <= g[i] /\ g[i] \in Nat
    BY <1>4, <2>1
  <2>3. from \in Nat /\ At + from = g[i - 1] + Sz(i - 1)
    BY <1>1, <2>2, SMTT(30)
  <2>4. from <= chain[i]
    <3>1. g[i - 1] + Sz(i - 1) <= g[i]
      BY <1>3 DEF IsGroup
    <3> HIDE DEF from
    <3> QED
      BY <1>1, <2>2, <2>3, <3>1
  <2>5. win \in Int /\ win <= Len(buf) /\ chain[i] + Sz(i) <= win
    <3> DEFINE reach == Gap * i
    <3>1. reach \in Nat /\ win \in {chain[1] + reach, Len(buf)} /\ win <= Len(buf)
      <4>1. chain[1] \in Int
        BY <2>2
      <4> QED
        BY <1>1, <1>2, <2>1, <4>1, WinEndIs
    <3>2. g[i] + Sz(i) <= g[1] + reach
      BY <1>3 DEF IsGroup
    <3>3. chain[i] + Sz(i) <= Len(buf)
      BY <1>4, <2>1
    <3> HIDE DEF reach, win
    <3>4. chain[i] + Sz(i) <= chain[1] + reach
      <4>1. (At + chain[i]) + Sz(i) <= (At + chain[1]) + reach
        BY <2>2, <3>2
      <4>2. /\ At \in Nat /\ reach \in Nat /\ Sz(i) \in Nat
            /\ chain[i] \in Nat /\ chain[1] \in Nat
        BY <1>1, <2>2, <3>1
      <4> QED
        BY <4>1, <4>2
    <3> QED
      BY <1>1, <2>2, <3>1, <3>3, <3>4, SMTT(30)
  <2>6. chain[i] % Sz(i) = 0
    <3>1. At % Sz(i) = 0 /\ g[i] % Sz(i) = 0
      BY <2>1 DEF IsFirstGroup
    <3> QED
      BY <1>1, <2>2, <3>1, DifferenceOfMultiples, SMTT(30)
  <2>7. Holds(buf, chain[i], i)
    BY <1>4, <2>1
  <2> HIDE DEF from, win
  <2>8. chain[i] \in from .. win - Sz(i)
    BY <2>2, <2>3, <2>4, <2>5
  <2>9. chain[i] \in Hits(buf, chain[1], from, i)
    BY <2>6, <2>7, <2>8 DEF Hits, win
  <2>10. ASSUME NEW w \in Hits(buf, chain[1], from, i) PROVE chain[i] <= w
    <3>1. w \in from .. win - Sz(i) /\ w % Sz(i) = 0 /\ Holds(buf, w, i)
      BY DEF Hits, win
    <3>2. w \in Nat /\ from <= w /\ w + Sz(i) <= win /\ w + Sz(i) <= Len(buf)
      <4>1. /\ Sz(i) \in Nat /\ from \in Nat /\ win \in Int /\ win <= Len(buf)
            /\ Len(buf) \in Int
        BY <1>1, <2>2, <2>3, <2>5
      <4> QED
        BY <3>1, <4>1
    <3>3. SUFFICES ASSUME w < chain[i] PROVE FALSE
      BY <2>2, <3>2
    <3>4. At + w \in g[i - 1] + Sz(i - 1) .. g[i] - 1
      <4>1. At + from <= At + w /\ At + w < At + chain[i]
        BY <1>1, <2>2, <2>3, <3>2, <3>3, SMTT(30)
      <4>2. At + w \in Nat /\ At + from \in Nat
        BY <1>1, <2>3, <3>2
      <4> QED
        BY <2>2, <2>3, <4>1, <4>2
    <3>5. (At + w) % Sz(i) = 0
      BY <1>1, <2>1, <2>2, <3>1, <3>2, SumOfMultiples
    <3>6. HeldAt(At + w, i)
      BY <2>1, <3>1, <3>2, HoldsIsHeld DEF buf
    <3> QED
      BY <3>4, <3>5, <3>6 DEF IsFirstGroup
  <2> QED
    BY <2>9, <2>10 DEF from
<1>8. chain \in Chains(buf, At)
  BY <1>5, <1>6, <1>7 DEF Chains
<1>9. AddressesOf(At, chain) = g
  <2>1. \A i \in 1 .. Len(items) : At + chain[i] = g[i]
    BY <1>4
  <2> QED
    BY <2>1 DEF AddressesOf
<1> QED
  BY <1>8, <1>9 DEF GroupsIn, buf

\* What is aligned to the values of the items.
LEMMA SizesAlign ==
    ASSUME items \in ItemLists, NEW i \in 1 .. Len(items)
    PROVE  /\ Start % Sz(i) = 0
           /\ \A a \in Nat : a % Page = 0 => a % Sz(i) = 0
           /\ SpanIsAligned /\ i # 1 => Span % Sz(i) = 0 /\ BufSize % Sz(i) = 0
<1>1. /\ Sz(i) \in Nat \ {0} /\ Page \in Nat \ {0} /\ Page % Sz(i) = 0
      /\ Span \in Nat /\ BufSize \in {Chunk, 2 * Span} /\ Start \in Nat
  BY SizesAreNumbers
<1>2. \A a \in Nat : a % Page = 0 => a % Sz(i) = 0
  BY <1>1, MultipleOfMultiple
<1>3. Start % Sz(i) = 0 /\ Chunk % Sz(i) = 0
  <2>1. Start % Page = 0 /\ Chunk % Page = 0 /\ Chunk \in Nat
    BY PagesAssumption, SizesAssumption
  <2> QED
    BY <1>1, <1>2, <2>1
<1>4. ASSUME SpanIsAligned, i # 1 PROVE Span % Sz(i) = 0 /\ BufSize % Sz(i) = 0
  <2>1. Span % Sz(i) = 0
    <3>1. i \in 2 .. Len(items)
      BY <1>4, SizesAreNumbers
    <3> QED
      BY <1>4, <3>1 DEF SpanIsAligned
  <2>2. (Span + Span) % Sz(i) = 0
    BY <1>1, <2>1, SumOfMultiples
  <2>3. 2 * Span = Span + Span
    BY <1>1
  <2> QED
    BY <1>1, <1>3, <2>1, <2>2, <2>3
<1> QED
  BY <1>2, <1>3, <1>4

LEMMA InitFound == Init => FoundInv
<1> SUFFICES ASSUME Init PROVE FoundInv
  OBVIOUS
<1>1. /\ IInv /\ base = Start /\ carry = << >> /\ items \in ItemLists
  BY InitIInv DEF Init
<1>2. At = Start /\ Start \in Nat
  BY <1>1, SizesAreNumbers DEF At
<1>3. CarryBegins
  BY <1>2 DEF CarryBegins
<1>4. Aligned
  <2>1. \A i \in 2 .. Len(items) : i \in 1 .. Len(items)
    BY <1>1, SizesAreNumbers
  <2> QED
    BY <1>1, <1>2, <2>1, SizesAlign DEF Aligned
<1>5. ASSUME NEW g \in [1 .. Len(items) -> Addresses], IsFirstGroup(g)
      PROVE  ~(GroupEnd(g) <= base)
  <2>1. IsGroup(g)
    BY <1>5 DEF IsFirstGroup
  <2>2. GroupEnd(g) \in Nat /\ g[1] < GroupEnd(g)
    BY <1>1, <2>1, GroupExtends
  <2>3. 1 \in 1 .. Len(items)
    BY <1>1, SizesAreNumbers
  <2>4. g[1] \in Int /\ Start <= g[1]
    BY <1>2, <2>3, SizesAssumption DEF Addresses
  <2> QED
    BY <1>1, <1>2, <2>2, <2>4
<1> QED
  BY <1>1, <1>3, <1>4, <1>5 DEF FoundInv, Covered

\* After a failed read the scan begins anew, and the groups that it skips
\* meet the chunk that could not be read.
LEMMA ReadFailsFound == FoundInv /\ ReadFails => FoundInv'
<1> SUFFICES ASSUME FoundInv, ReadFails PROVE FoundInv'
  OBVIOUS
<1>1. /\ UNCHANGED <<memory, items, groups, reported>> /\ carry' = << >>
      /\ base < End /\ base' = base + BufSize /\ failed' = failed \cup {base}
  BY DEF ReadFails
<1>2. IInv /\ IInv' /\ items \in ItemLists
  BY ReadFailsIInv DEF FoundInv, IInv, Arguments
<1>3. /\ Start \in Nat /\ End \in Nat /\ Span \in Nat /\ BufSize \in Nat
      /\ base \in Nat /\ Start <= base /\ Len(items) \in Nat \ {0}
  BY <1>2, SizesAreNumbers DEF IInv, TypeOK
<1>4. At' = base + BufSize
  BY <1>1, <1>3 DEF At
<1>5. CarryBegins'
  BY <1>1, <1>4, SameArguments DEF CarryBegins
<1>6. Aligned'
  <2> SUFFICES ASSUME SpanIsAligned, NEW i \in 2 .. Len(items)
               PROVE  (base + BufSize) % Sz(i) = 0
    BY <1>1, <1>4, SameArguments DEF Aligned
  <2> i \in 1 .. Len(items) /\ i # 1
    BY <1>3
  <2>1. base % Sz(i) = 0
    BY <1>1 DEF FoundInv, Aligned
  <2>2. BufSize % Sz(i) = 0 /\ Sz(i) \in Nat \ {0}
    BY <1>2, SizesAlign, SizesAreNumbers
  <2> QED
    BY <1>3, <2>1, <2>2, SumOfMultiples
<1>7. ASSUME SpanIsAligned, NEW g \in [1 .. Len(items) -> Addresses],
             IsFirstGroup(g), GroupEnd(g) <= base + BufSize
      PROVE  g \in groups \/ \E f \in failed' : f < GroupEnd(g) /\ g[1] < f + BufSize
  <2>1. CASE GroupEnd(g) <= base
    BY <1>1, <1>7, <2>1 DEF FoundInv, Covered, Lost
  <2>2. CASE ~(GroupEnd(g) <= base)
    <3>1. IsGroup(g)
      BY <1>7 DEF IsFirstGroup
    <3>2. GroupEnd(g) \in Nat /\ g[1] < GroupEnd(g) /\ 1 \in 1 .. Len(items)
      BY <1>2, <1>3, <3>1, GroupExtends
    <3>3. g[1] \in Nat
      BY <1>2, <3>1, <3>2, GroupExtends
    <3>4. base < GroupEnd(g) /\ g[1] < base + BufSize
      BY <1>3, <1>7, <2>2, <3>2, <3>3
    <3> QED
      BY <1>1, <3>4
  <2> QED
    BY <2>1, <2>2
<1>8. Covered'
  BY <1>1, <1>7, SameArguments DEF Covered, Lost, Addresses
<1> QED
  BY <1>2, <1>5, <1>6, <1>8 DEF FoundInv

\* A group that ends in what was read begins in the buffer, because as much as
\* a group needs is carried over; or it began before a read that failed.
LEMMA ReadChunkFound == ASSUME FoundInv, NEW got \in Gots, ReadChunk(got)
                        PROVE  FoundInv'
<1> DEFINE buf == Buffer(got)
<1>1. /\ base < End /\ UNCHANGED <<memory, items, failed>>
      /\ groups' = groups \cup GroupsIn(buf, At)
      /\ carry' = Kept(buf) /\ base' = base + got
  BY ReadChunkIs DEF FoundInv
<1>2. IInv /\ IInv' /\ items \in ItemLists
  BY ReadChunkIInv DEF FoundInv, IInv, Arguments
<1>3. /\ Start \in Nat /\ End \in Nat /\ Span \in Nat /\ BufSize \in Nat
      /\ Len(items) \in Nat \ {0} /\ Page \in Nat \ {0}
  BY <1>2, SizesAreNumbers
<1>4. /\ got \in Nat \ {0} /\ base + got <= End
      /\ base \in Nat /\ Len(carry) \in Nat
      /\ At \in Nat /\ Start <= At /\ At + Len(carry) = base
      /\ buf \in Seq(Bytes) /\ Len(buf) = Len(carry) + got
      /\ At + Len(buf) = base + got
  BY <1>1, <1>2, BufferIsMemory
<1>5. Len(carry) <= Span
  BY <1>2 DEF IInv, CarryInv
<1> HIDE DEF buf
<1>6. Len(carry') \in {Span, Len(buf)} /\ Len(carry') <= Span /\ Len(carry') \in Nat
  <2>1. Kept(buf) \in Seq(Bytes)
    BY <1>3, <1>4, KeptIsTail
  <2>2. Len(Kept(buf)) \in Nat
    BY <2>1
  <2> QED
    BY <1>1, <1>3, <1>4, <2>2, KeptIsTail
<1>7. At' = (base + got) - Len(carry')
  BY <1>1 DEF At
<1>8. \/ Len(carry') = Span /\ At' = (base + got) - Span
      \/ Len(carry') = Len(buf) /\ At' = At
  BY <1>3, <1>4, <1>6, <1>7, SMTT(30)
<1>9. CarryBegins'
  <2> SUFFICES ASSUME Len(carry') < Span
               PROVE  At' = Start \/ \E f \in failed : At' = f + BufSize
    BY <1>1, SameArguments DEF CarryBegins
  <2>1. Len(carry') = Len(buf) /\ At' = At
    BY <1>3, <1>8
  <2>2. Len(carry) < Span
    BY <1>3, <1>4, <2>1
  <2> QED
    BY <1>1, <2>1, <2>2 DEF FoundInv, CarryBegins
<1>10. Aligned'
  <2> SUFFICES ASSUME base' < End, SpanIsAligned, NEW i \in 2 .. Len(items)
               PROVE  (base + got) % Sz(i) = 0 /\ At' % Sz(i) = 0
    BY <1>1, SameArguments DEF Aligned
  <2> i \in 1 .. Len(items) /\ i # 1
    BY <1>3
  <2>1. base % Sz(i) = 0 /\ At % Sz(i) = 0
    BY <1>1 DEF FoundInv, Aligned
  <2>2. /\ BufSize % Sz(i) = 0 /\ Span % Sz(i) = 0 /\ Sz(i) \in Nat \ {0}
        /\ \A a \in Nat : a % Page = 0 => a % Sz(i) = 0
    BY <1>2, SizesAlign, SizesAreNumbers
  <2>3. got = BufSize \/ (base + got) % Page = 0
    <3>1. got = ToRead \/ (base + got) % Page = 0
      BY DEF Gots
    <3>2. ToRead \in {End - base, BufSize}
      <4>1. End - base \in Int /\ BufSize \in Int
        BY <1>3, <1>4
      <4> QED
        BY <4>1, MinOfTwo DEF ToRead
    <3>3. got # End - base
      BY <1>1, <1>3, <1>4
    <3> QED
      BY <3>1, <3>2, <3>3
  <2>4. (base + got) % Sz(i) = 0
    <3>1. base + got \in Nat
      BY <1>4
    <3>2. (base + BufSize) % Sz(i) = 0
      BY <1>3, <1>4, <2>1, <2>2, SumOfMultiples, SMTT(30)
    <3> QED
      BY <2>2, <2>3, <3>1, <3>2
  <2>5. At' % Sz(i) = 0
    <3>1. CASE Len(carry') = Span /\ At' = (base + got) - Span
      <4>1. Span <= base + got
        <5>1. Len(carry') <= Len(buf)
          BY <1>1, <1>3, <1>4, KeptIsTail
        <5> QED
          BY <1>3, <1>4, <3>1, <5>1
      <4>2. base + got \in Nat
        BY <1>4
      <4>3. ((base + got) - Span) % Sz(i) = 0
        <5>1. Span \in Nat /\ Sz(i) \in Nat \ {0} /\ Span % Sz(i) = 0
          BY <1>3, <2>2
        <5> QED
          BY <2>4, <4>1, <4>2, <5>1, DifferenceOfMultiples
      <4> QED
        BY <3>1, <4>3
    <3>2. CASE At' = At
      BY <2>1, <3>2
    <3> QED
      BY <1>8, <3>1, <3>2
  <2> QED
    BY <2>4, <2>5
<1>11. ASSUME SpanIsAligned, NEW g \in [1 .. Len(items) -> Addresses],
              IsFirstGroup(g), GroupEnd(g) <= base + got
       PROVE  g \in groups' \/ Lost(g)
  <2>1. IsGroup(g)
    BY <1>11 DEF IsFirstGroup
  <2>2. /\ GroupEnd(g) \in Nat /\ g[1] < GroupEnd(g) /\ 1 \in 1 .. Len(items)
        /\ GroupEnd(g) <= g[1] + Span
    BY <1>2, <1>3, <2>1, GroupExtends
  <2>3. g[1] \in Nat /\ Start <= g[1]
    BY <1>3, <2>2 DEF Addresses
  <2>4. CASE GroupEnd(g) <= base
    BY <1>1, <1>11, <2>4 DEF FoundInv, Covered
  <2>5. CASE At <= g[1]
    <3>1. \A i \in 2 .. Len(items) : At % Sz(i) = 0
      BY <1>1, <1>11 DEF FoundInv, Aligned
    <3>2. g \in GroupsIn(buf, At)
      BY <1>1, <1>2, <1>11, <2>5, <3>1, GroupIsFound DEF buf
    <3> QED
      BY <1>1, <3>2
  <2>6. CASE base < GroupEnd(g) /\ g[1] < At
    <3>1. Len(carry) < Span
      BY <1>3, <1>4, <1>5, <2>2, <2>3, <2>6
    <3>2. At # Start
      BY <1>3, <1>4, <2>3, <2>6
    <3>3. PICK f \in failed : At = f + BufSize
      BY <1>1, <3>1, <3>2 DEF FoundInv, CarryBegins
    <3>4. f \in Int
      BY <1>2, <1>3 DEF IInv, TypeOK, Addresses
    <3>5. f < GroupEnd(g) /\ g[1] < f + BufSize
      BY <1>3, <1>4, <2>2, <2>6, <3>3, <3>4
    <3> QED
      BY <3>5 DEF Lost
  <2> QED
    BY <1>4, <2>2, <2>3, <2>4, <2>5, <2>6
<1>12. Covered'
  BY <1>1, <1>11, SameArguments DEF Covered, Lost, Addresses
<1> QED
  BY <1>2, <1>9, <1>10, <1>12 DEF FoundInv

\* Every step keeps the account of what was found.
THEOREM FoundInductive == Spec => []FoundInv
<1>1. FoundInv /\ [Next]_vars => FoundInv'
  <2> SUFFICES ASSUME FoundInv, [Next]_vars PROVE FoundInv'
    OBVIOUS
  <2>1. CASE UNCHANGED vars
    <3>1. UNCHANGED <<memory, items, base, carry, groups, reported, failed>>
      BY <2>1 DEF vars
    <3>2. IInv'
      BY <3>1, SameArguments
         DEF FoundInv, IInv, TypeOK, Addresses, CarryInv, At, GroupsAreReal
    <3>3. CarryBegins' /\ Aligned'
      BY <3>1, SameArguments DEF FoundInv, CarryBegins, Aligned, At
    <3>4. Covered'
      BY <3>1, SameArguments DEF FoundInv, Covered, Lost, Addresses
    <3> QED
      BY <3>2, <3>3, <3>4 DEF FoundInv
  <2> QED
    BY <2>1, ReadFailsFound, ReadChunkFound DEF Next
<1> QED
  BY <1>1, InitFound, PTL DEF Spec

\* However the chunks and the reads that fall short cut a group, scan_group
\* reports it, unless it meets a chunk that could not be read: what it carries
\* over has room for a group and keeps the alignment of the items.
THEOREM GroupsAreFound == Spec => []GroupsFound
<1>1. FoundInv => GroupsFound
  <2> SUFFICES ASSUME FoundInv, base >= End, SpanIsAligned,
                      NEW g \in [1 .. Len(items) -> Addresses], IsFirstGroup(g)
               PROVE  g \in groups \/ Lost(g)
    BY DEF GroupsFound, Lost
  <2>1. IsGroup(g) /\ items \in ItemLists
    BY DEF IsFirstGroup, FoundInv, IInv, Arguments
  <2>2. GroupEnd(g) \in Nat /\ GroupEnd(g) <= End /\ End \in Nat /\ base \in Int
    BY <2>1, GroupExtends, SizesAreNumbers DEF FoundInv, IInv, TypeOK
  <2>3. GroupEnd(g) <= base
    BY <2>2
  <2> QED
    BY <2>3 DEF FoundInv, Covered
<1> QED
  BY <1>1, FoundInductive, PTL

-----------------------------------------------------------------------------
(* The count *)

\* What was reported ends before the cursor, and all of it is in the count.
CountInv == /\ IInv
            /\ IsFiniteSet(groups) /\ Cardinality(groups) <= reported
            /\ \A g \in groups : GroupEnd(g) <= base

\* A group that is found begins in the buffer and ends in it.
LEMMA FoundInBuffer ==
    ASSUME IInv, base < End, NEW got \in Gots, NEW g \in GroupsIn(Buffer(got), At)
    PROVE  At <= g[1] /\ GroupEnd(g) <= base + got
<1> DEFINE buf == Buffer(got)
           n == Len(items)
<1>1. PICK chain \in Chains(buf, At) : g = AddressesOf(At, chain)
  BY DEF GroupsIn
<1>2. /\ buf \in Seq(Bytes) /\ Len(buf) \in Nat /\ At \in Nat
      /\ At + Len(buf) = base + got
  BY BufferIsMemory
<1>3. /\ items \in ItemLists /\ n \in Nat \ {0}
      /\ 1 \in 1 .. n /\ n \in 1 .. n /\ Sz(1) \in Nat \ {0} /\ Sz(n) \in Nat \ {0}
  BY SizesAreNumbers DEF IInv, Arguments
<1>4. \A i \in 1 .. n : chain[i] \in Nat /\ g[i] = At + chain[i]
  BY <1>1, <1>2 DEF Chains, AddressesOf
<1>5. chain[n] + Sz(n) <= Len(buf)
  <2>1. CASE n = 1
    <3>1. chain[1] \in 0 .. Len(buf) - Sz(1)
      BY <1>1 DEF Chains, Pivots
    <3> QED
      BY <1>2, <1>3, <2>1, <3>1
  <2>2. CASE n # 1
    <3>1. n \in 2 .. n /\ n - 1 \in 1 .. n
      <4> HIDE DEF n
      <4>1. n \in Nat /\ n > 1
        BY <1>3, <2>2
      <4> QED
        BY <4>1
    <3>2. chain[n] \in Hits(buf, chain[1], chain[n - 1] + Sz(n - 1), n)
      BY <1>1, <3>1 DEF Chains
    <3>3. chain[1] \in Int
      BY <1>3, <1>4
    <3>4. /\ WinEnd(buf, chain[1], n) \in {chain[1] + Gap * n, Len(buf)}
          /\ WinEnd(buf, chain[1], n) <= Len(buf) /\ Gap * n \in Nat
      BY <1>2, <1>3, <3>3, WinEndIs
    <3>5. WinEnd(buf, chain[1], n) \in Int
      BY <1>2, <3>3, <3>4
    <3>6. chain[n] <= WinEnd(buf, chain[1], n) - Sz(n)
      BY <3>2 DEF Hits
    <3> QED
      BY <1>2, <1>3, <1>4, <3>4, <3>5, <3>6
  <2> QED
    BY <2>1, <2>2
<1> HIDE DEF buf, n
<1>6. At <= g[1] /\ g[n] + Sz(n) <= base + got
  BY <1>2, <1>3, <1>4, <1>5
<1> QED
  BY <1>6 DEF GroupEnd, n

LEMMA CountStep == ASSUME CountInv, [Next]_vars PROVE CountInv'
<1>1. IInv
  BY DEF CountInv
<1>2. CASE UNCHANGED vars
  <2>1. UNCHANGED <<memory, items, base, carry, groups, reported, failed>>
    BY <1>2 DEF vars
  <2>2. IInv'
    BY <1>1, <2>1, SameArguments DEF IInv, TypeOK, Addresses, CarryInv, At, GroupsAreReal
  <2> QED
    BY <2>1, <2>2, SameArguments DEF CountInv
<1>3. CASE ReadFails
  <2>1. /\ UNCHANGED <<memory, items, groups, reported>> /\ base' = base + BufSize
    BY <1>3 DEF ReadFails
  <2>2. IInv' /\ base \in Int /\ BufSize \in Nat
    BY <1>1, <1>3, ReadFailsIInv, SizesAreNumbers DEF IInv, Arguments, TypeOK
  <2>3. ASSUME NEW g \in groups PROVE GroupEnd(g) <= base'
    <3>1. GroupEnd(g) \in Nat /\ GroupEnd(g) <= base
      BY <1>1, GroupExtends DEF CountInv, IInv, Arguments, TypeOK, GroupsAreReal
    <3> QED
      BY <2>1, <2>2, <3>1
  <2> QED
    BY <2>1, <2>2, <2>3, SameArguments DEF CountInv
<1>4. ASSUME NEW got \in Gots, ReadChunk(got) PROVE CountInv'
  <2> DEFINE new == GroupsIn(Buffer(got), At)
  <2>1. /\ base < End /\ UNCHANGED <<memory, items>>
        /\ groups' = groups \cup new /\ base' = base + got
        /\ reported' = reported + Cardinality(new)
    BY <1>1, <1>4, ReadChunkIs
  <2>2. IInv' /\ base \in Nat /\ got \in Nat /\ Buffer(got) \in Seq(Bytes)
    BY <1>1, <1>4, <2>1, ReadChunkIInv, BufferIsMemory
  <2>3. IsFiniteSet(new) /\ IsFiniteSet(groups)
    BY <1>1, <2>2, GroupsFinite DEF CountInv, IInv, Arguments
  <2>4. ASSUME NEW g \in groups' PROVE GroupEnd(g) <= base'
    <3>1. CASE g \in groups
      <4>1. GroupEnd(g) \in Nat /\ GroupEnd(g) <= base
        BY <1>1, <3>1, GroupExtends DEF CountInv, IInv, Arguments, TypeOK, GroupsAreReal
      <4> QED
        BY <2>1, <2>2, <4>1
    <3>2. CASE g \in new
      BY <1>1, <2>1, <3>2, FoundInBuffer
    <3> QED
      BY <2>1, <3>1, <3>2
  <2> HIDE DEF new
  <2>5. /\ IsFiniteSet(groups \cup new) /\ IsFiniteSet(groups \cap new)
        /\ Cardinality(groups \cup new)
              = Cardinality(groups) + Cardinality(new) - Cardinality(groups \cap new)
    BY <2>3, FS_Union, FS_Intersection
  <2>6. /\ Cardinality(groups) \in Nat /\ Cardinality(new) \in Nat
        /\ Cardinality(groups \cap new) \in Nat
    BY <2>3, <2>5, FS_CardinalityType
  <2>7. Cardinality(groups) <= reported /\ reported \in Nat
    BY <1>1 DEF CountInv, IInv, TypeOK
  <2>8. Cardinality(groups') <= reported'
    BY <2>1, <2>5, <2>6, <2>7
  <2> QED
    BY <2>1, <2>2, <2>4, <2>5, <2>8, SameArguments DEF CountInv
<1> QED
  BY <1>2, <1>3, <1>4 DEF Next

\* The groups of the next buffer that were reported before.
Repeats(got) == GroupsIn(Buffer(got), At) \cap groups

\* A group is counted again only when it lies as a whole in what was carried
\* over, and the count grows by the groups that are new and those repeats.
CountsCarriedAgain ==
    \A got \in Gots : ReadChunk(got) =>
        /\ \A g \in Repeats(got) : At <= g[1] /\ GroupEnd(g) <= base
        /\ reported' = reported + Cardinality(groups' \ groups) + Cardinality(Repeats(got))

LEMMA CountInductive == Spec => []CountInv
<1>1. Init => CountInv
  <2> SUFFICES ASSUME Init PROVE CountInv
    OBVIOUS
  <2>1. IInv /\ groups = {} /\ reported = 0
    BY InitIInv DEF Init
  <2> QED
    BY <2>1, FS_EmptySet DEF CountInv
<1> QED
  BY <1>1, CountStep, PTL DEF Spec

\* The number scan_group returns is never below the number of its groups.
THEOREM CountNeverLess == Spec => [](Cardinality(groups) <= reported)
<1>1. CountInv => Cardinality(groups) <= reported
  BY DEF CountInv
<1> QED
  BY <1>1, CountInductive, PTL

\* It is above it exactly by the groups that were carried over whole.
THEOREM OnlyCarriedRepeat == Spec => [][CountsCarriedAgain]_vars
<1>1. ASSUME CountInv PROVE CountsCarriedAgain
  <2> SUFFICES ASSUME NEW got \in Gots, ReadChunk(got)
               PROVE  /\ \A g \in Repeats(got) : At <= g[1] /\ GroupEnd(g) <= base
                      /\ reported' = reported + Cardinality(groups' \ groups)
                                              + Cardinality(Repeats(got))
    BY DEF CountsCarriedAgain
  <2> DEFINE new == GroupsIn(Buffer(got), At)
  <2>1. /\ IInv /\ base < End /\ groups' = groups \cup new
        /\ reported' = reported + Cardinality(new)
    BY <1>1, ReadChunkIs DEF CountInv
  <2>2. \A g \in Repeats(got) : At <= g[1] /\ GroupEnd(g) <= base
    BY <1>1, <2>1, FoundInBuffer DEF CountInv, Repeats
  <2>3. IsFiniteSet(new) /\ Buffer(got) \in Seq(Bytes) /\ reported \in Nat
    BY <2>1, BufferIsMemory, GroupsFinite DEF IInv, Arguments, TypeOK
  <2> DEFINE again == new \cap groups
             first == new \ groups
  <2>4. Repeats(got) = again /\ groups' \ groups = first
    BY <2>1 DEF Repeats
  <2> HIDE DEF new
  <2>5. /\ IsFiniteSet(again) /\ IsFiniteSet(first)
        /\ again \cup first = new /\ again \cap first = {}
    BY <2>3, FS_Subset
  <2> HIDE DEF again, first
  <2>6. Cardinality(again \cup first)
           = Cardinality(again) + Cardinality(first) - Cardinality(again \cap first)
    BY <2>5, FS_Union
  <2>7. /\ Cardinality(again) \in Nat /\ Cardinality(first) \in Nat
        /\ Cardinality(again \cap first) = 0
    BY <2>5, FS_CardinalityType, FS_EmptySet
  <2>8. Cardinality(new) = Cardinality(again) + Cardinality(first)
    <3>1. Cardinality(new) = Cardinality(again) + Cardinality(first) - 0
      BY <2>5, <2>6, <2>7
    <3> QED
      BY <2>7, <3>1
  <2>9. reported' = reported + Cardinality(groups' \ groups) + Cardinality(Repeats(got))
    <3>1. reported' = reported + (Cardinality(again) + Cardinality(first))
      BY ONLY <2>1, <2>8
    <3>2. reported' = reported + Cardinality(first) + Cardinality(again)
      BY ONLY <2>3, <2>7, <3>1
    <3> QED
      BY ONLY <2>4, <3>2
  <2> QED
    BY <2>2, <2>9
<1> QED
  BY <1>1, CountInductive, PTL DEF Spec
=============================================================================
