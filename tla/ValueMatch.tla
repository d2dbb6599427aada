----------------------------- MODULE ValueMatch -----------------------------
(***************************************************************************)
(* How src/core/mem_scan.cpp compares a value (value_match, decode_xor and *)
(* the test of the fuzzy scans), with the target the overlay builds from   *)
(* what was typed.  No state: the scans of ScanCache use it.               *)
(*                                                                         *)
(* A value is its bit pattern, a number of Raw; every type is taken at the *)
(* same width.  Floats are whole numbers here, their sums exact, and the   *)
(* pattern Half stands for the ones that are not finite.                   *)
(***************************************************************************)
EXTENDS Integers, Sequences, FiniteSets

CONSTANTS Half,         \* 2 * Half patterns: 2^31 for DWORD
          Xored(_, _),    \* ^ of two patterns
          Typed         \* numbers that can be typed

Span == 2 * Half
Raw  == 0 .. Span - 1

ASSUME HalfAssumption  == Half \in Nat \ {0}
ASSUME TypedAssumption == Typed \subseteq Int
ASSUME XorAssumption   == \A a, b \in Raw : /\ Xored(a, b) \in Raw
                                            /\ Xored(a, b) = Xored(b, a)
                                            /\ Xored(Xored(a, b), b) = a

Floats == {"FLOAT", "DOUBLE"}
Types  == {"BYTE", "WORD", "DWORD", "QWORD", "XOR"} \cup Floats

\* value_size
SizeOf == [BYTE |-> 1, WORD |-> 2, DWORD |-> 4, QWORD |-> 8,
           FLOAT |-> 4, DOUBLE |-> 8, XOR |-> 4]

\* The scan modes; FUZZY is scan_fuzzy_first and scan_fuzzy_refine.
Deltas   == {"INCREASED_BY", "DECREASED_BY"}
Relative == Deltas \cup {"INCREASED", "DECREASED", "CHANGED", "UNCHANGED"}
Targeted == Deltas \cup {"EXACT", "GREATER", "LESS", "BETWEEN", "FUZZY"}
AllModes == Relative \cup Targeted \cup {"UNKNOWN"}

\* A field of the overlay: empty, or a number.
Blank == <<>>
Texts == {Blank} \cup {<<n>> : n \in Typed}

\* The numbers of a type.
Numbers(type) == CASE type = "BYTE"    -> Raw
                   [] type \in Floats  -> 1 - Half .. Half - 1
                   [] OTHER            -> -Half .. Half - 1

\* A field that holds a number of the type.
Typeable(type, s) == s # Blank /\ s[1] \in Numbers(type)

\* What a scan is asked for.  What is typed as a float is one; a fuzzy scan is
\* called with two numbers.
Query == {q \in [type : Types, mode : AllModes, key : Raw, s1 : Texts, s2 : Texts] :
             /\ q.type \in Floats => \A s \in {q.s1, q.s2} :
                                        s = Blank \/ Typeable(q.type, s)
             /\ q.mode = "FUZZY" => q.s1 # Blank /\ q.s2 # Blank}

-----------------------------------------------------------------------------
(* Targets: buildTarget, NativeCore.encodeByte .. encodeBetweenFloat *)

\* The low bytes of a number.
Encode(n) == n % Span

\* Types narrower than an int: parsed as ints, and cut; their sums are ints.
\* The second target of BETWEEN is not appended for them, nor parsed.
Narrow == {"BYTE", "WORD"}

\* parseInt and parseLong take the numbers of their type only.
Parses(type, s) == s # Blank /\ (type \in Narrow \/ Typeable(type, s))

\* Two targets are asked for.
TwoFold == {"BETWEEN", "FUZZY"}

\* buildTarget gives null: a field is empty or not a number.
NoTarget(q) == \/ ~Parses(q.type, q.s1)
               \/ q.mode \in TwoFold /\ (q.s2 = Blank \/ ~Parses(q.type, q.s2))

First(q) == IF NoTarget(q) THEN 0 ELSE Encode(q.s1[1])

\* What t2 may be: zero without a target, and whatever is behind the target
\* when there is only one.
Seconds(q) == IF NoTarget(q) \/ q.mode \notin TwoFold THEN {0}
              ELSE IF q.type \in Narrow THEN Raw
              ELSE {Encode(q.s2[1])}

-----------------------------------------------------------------------------
(* Comparison: value_match, decode_xor, scan_fuzzy_first, scan_fuzzy_refine *)

Infinite == 4 * Span        \* beyond any sum

\* memcpy to a T
Number(type, r) == IF type = "BYTE" \/ r < Half THEN r
                   ELSE IF type \in Floats /\ r = Half THEN Infinite
                   ELSE r - Span

Decoded(q, r) == Number(q.type, IF q.type = "XOR" THEN Xored(r, q.key) ELSE r)

\* p + t and p - t are exact for BYTE and WORD, computed in int; an overflow of
\* the wider types is undefined.
Sums(type, n) == IF type \in Narrow \cup Floats THEN {n}
                 ELSE {n, Number(type, n % Span)}

Abs(n) == IF n < 0 THEN -n ELSE n

\* The results value_match may return for cur, with prev behind the pointer;
\* without a previous value prev is 0, and so is its decoded form.
Compared(q, c, p, t, seconds) ==
    CASE q.mode = "EXACT"        -> {c = t}
      [] q.mode = "UNKNOWN"      -> {TRUE}
      [] q.mode = "INCREASED"    -> {c > p}
      [] q.mode = "DECREASED"    -> {c < p}
      [] q.mode = "CHANGED"      -> {c # p}
      [] q.mode = "UNCHANGED"    -> {c = p}
      [] q.mode = "GREATER"      -> {c > t}
      [] q.mode = "LESS"         -> {c < t}
      [] q.mode = "BETWEEN"      -> {c >= t /\ c <= u : u \in seconds}
      [] q.mode = "INCREASED_BY" -> {c = n : n \in Sums(q.type, p + t)}
      [] q.mode = "DECREASED_BY" -> {c = n : n \in Sums(q.type, p - t)}
      [] q.mode = "FUZZY"        -> {/\ q.type \in Floats
                                     /\ c >= t - Abs(u)
                                     /\ c <= t + Abs(u) : u \in seconds}

\* Targets are plain numbers: only what is in memory is encoded with the key.
Plain(q, r) == Number(q.type, r)

\* cur and prev are patterns; prev is none when it is NoPrevious.
NoPrevious == -1

Outcomes(q, cur, prev) ==
    LET c == Decoded(q, cur)
        p == IF prev = NoPrevious THEN 0 ELSE Decoded(q, prev)
    IN  IF c = Infinite THEN {FALSE}
        ELSE Compared(q, c, p, Plain(q, First(q)), {Plain(q, r) : r \in Seconds(q)})

-----------------------------------------------------------------------------
(* Properties *)

\* The scan modes as src/include/mi_core.h:59-69 describes them: cible is the
\* first number typed, cible_max the second.
Documented(q, valeur, precedent) ==
    \/ q.mode = "EXACT"        /\ <<valeur>> = q.s1
    \/ q.mode = "UNKNOWN"
    \/ q.mode = "INCREASED"    /\ precedent < valeur
    \/ q.mode = "DECREASED"    /\ valeur < precedent
    \/ q.mode = "CHANGED"      /\ valeur # precedent
    \/ q.mode = "UNCHANGED"    /\ valeur = precedent
    \/ q.mode = "GREATER"      /\ q.s1[1] < valeur
    \/ q.mode = "LESS"         /\ valeur < q.s1[1]
    \/ q.mode = "BETWEEN"      /\ valeur \in q.s1[1] .. q.s2[1]
    \/ q.mode = "INCREASED_BY" /\ valeur - precedent = q.s1[1]
    \/ q.mode = "DECREASED_BY" /\ precedent - valeur = q.s1[1]
    \/ q.mode = "FUZZY"        /\ Abs(valeur - q.s1[1]) <= Abs(q.s2[1])

\* What a process that keeps n at an address has there: the XOR type stands
\* for numbers kept under a key.
Stored(q, n) == IF q.type = "XOR" THEN Xored(Encode(n), q.key) ELSE Encode(n)

\* A sum that its type holds, or that differs from valeur in the low bytes.
SumSettles(q, valeur, sum) ==
    sum \in Numbers(q.type) \/ Encode(valeur) # Encode(sum)

\* The answers the comparison gives as documented.  The others are, of a target
\* that was not typed or is no number of the type, all but that an exact scan
\* without one keeps zeros only; of BETWEEN without its second target, all from
\* the first one on; those of a fuzzy scan of integers; and of a sum that
\* overflows the wider types, the one about the number it wraps to.
Settled(q, valeur, precedent) ==
    /\ q.mode \in Targeted => \/ Typeable(q.type, q.s1)
                              \/ q.mode = "EXACT" /\ q.s1 = Blank /\ valeur # 0
    /\ q.mode \in TwoFold => Typeable(q.type, q.s2)
    /\ q.mode = "BETWEEN" => q.type \notin Narrow \/ valeur < q.s1[1]
    /\ q.mode = "FUZZY" => q.type \in Floats
    /\ q.type \notin Narrow \cup Floats =>
           /\ q.mode = "INCREASED_BY" => SumSettles(q, valeur, precedent + q.s1[1])
           /\ q.mode = "DECREASED_BY" => SumSettles(q, valeur, precedent - q.s1[1])

\* Every settled question about numbers a process keeps is answered as
\* documented, whatever the type, its sign, the width and the key: nothing is
\* lost or invented between the field, the encoded target and the compared bytes.
MatchIsDocumented ==
    \A q \in Query : \A c, p \in Numbers(q.type) :
        Settled(q, c, p) => Outcomes(q, Stored(q, c), Stored(q, p)) = {Documented(q, c, p)}
=============================================================================
