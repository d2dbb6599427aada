------------------------------ MODULE XorKeys -------------------------------
(***************************************************************************)
(* The search for an XOR key (scan_xor_keys of src/core/mem_scan.cpp) and  *)
(* the scan NativeCore.scanXorAuto makes with the best one.  Both run the  *)
(* loop of RegionScan; here they meet the same memory in both.             *)
(***************************************************************************)
EXTENDS RegionScan, ValueMatch

CONSTANTS Content(_),   \* the pattern at an address
          MaxKeys       \* max_keys

ASSUME ContentAssumption == \A i \in 1 .. Len(Maps) :
    \A a \in Maps[i].start .. Maps[i].end - 1 : Content(a) \in Raw
ASSUME KeysAssumption == MaxKeys \in Nat

\* raw ^ known_value, counted unless it is 0 or 0xFFFFFFFF.
KeyOf(a, known) == Xored(Content(a), Encode(known))
KeysOf(slots, known) == {KeyOf(a, known) : a \in slots} \ {0, Span - 1}

\* freq[key]
Freq(key, slots, known) == Cardinality({a \in slots : KeyOf(a, known) = key})

\* Mutant: the rarest keys come first.
Rarer(key, other, slots, known) == Freq(key, slots, known) <= Freq(other, slots, known)

\* The order std::sort establishes; what it does with equals is open.
Before(key, other, slots, known) == Freq(key, slots, known) >= Freq(other, slots, known)

Count(slots, known) == LET n == Cardinality(KeysOf(slots, known))
                       IN  IF n < MaxKeys THEN n ELSE MaxKeys

\* The sequences scan_xor_keys may return.
Rankings(slots, known) ==
    {keys \in [1 .. Count(slots, known) -> KeysOf(slots, known)] :
        /\ \A i, j \in DOMAIN keys : i < j => /\ keys[i] # keys[j]
                                              /\ Before(keys[i], keys[j], slots, known)
        /\ \A i \in DOMAIN keys, other \in KeysOf(slots, known) :
               \/ Before(keys[i], other, slots, known)
               \/ \E j \in DOMAIN keys : keys[j] = other}

\* What scanXorAuto asks for with a key.
AutoQuery(key, known) == [type |-> "XOR", mode |-> "EXACT", key |-> key,
                          s1 |-> <<known>>, s2 |-> Blank]

\* The slots that scan_first lists.
Matching(q, slots) == {a \in slots : TRUE \in Outcomes(q, Content(a), NoPrevious)}

-----------------------------------------------------------------------------
(* Properties *)

\* "La cle la plus frequente sera selectionnee": of the keys that are not
\* trivial, the first one returned makes the scan find the known number most
\* often, at any point of the loop and whatever reads fail.
BestKeyFindsMost ==
    \A known \in Numbers("XOR") : \A keys \in Rankings(compared, known) :
        keys # <<>> =>
            \A key \in Raw \ {0, Span - 1} :
                Cardinality(Matching(AutoQuery(key, known), compared))
                    <= Cardinality(Matching(AutoQuery(keys[1], known), compared))
=============================================================================
