-------------------------- MODULE ValueMatchProofs --------------------------
(***************************************************************************)
(* For every width, key and typed number: what is encoded is decoded to    *)
(* the same number, and comparisons answer as documented.                  *)
(***************************************************************************)
EXTENDS ValueMatch, TLAPS

\* The low bytes of a number are a pattern.
LEMMA EncodeInRaw == \A n \in Int : Encode(n) \in Raw
BY HalfAssumption DEF Encode, Raw, Span

\* The low bytes of a small number: itself, or its two's complement.
LEMMA EncodeSmall == ASSUME NEW n \in Int, -Half <= n, n < Span
                     PROVE  Encode(n) = IF n < 0 THEN n + Span ELSE n
BY HalfAssumption DEF Encode, Span

\* A number of a type is read back from its low bytes.
LEMMA NumberOfEncoded == ASSUME NEW type, NEW n \in Numbers(type)
                         PROVE  /\ n \in Int
                                /\ Number(type, Encode(n)) = n
                                /\ n # Infinite
<1>1. n \in Int /\ -Half <= n /\ n < Span /\ n # Infinite
  BY HalfAssumption DEF Numbers, Raw, Span, Infinite
<1>2. CASE type = "BYTE"
  <2>1. n \in Raw
    BY <1>2 DEF Numbers, Floats
  <2>2. Encode(n) = n
    BY <2>1, <1>1, EncodeSmall, HalfAssumption DEF Raw, Span
  <2> QED
    BY <1>1, <1>2, <2>2 DEF Number
<1>3. CASE type # "BYTE"
  <2>1. n < Half /\ (type \in Floats => n # -Half)
    BY <1>3, <1>1, HalfAssumption DEF Numbers
  <2>2. CASE n < 0
    <3>1. Encode(n) = n + Span
      BY <1>1, <2>2, EncodeSmall
    <3>2. /\ ~(Encode(n) < Half) /\ Encode(n) - Span = n
          /\ ~(type \in Floats /\ Encode(n) = Half)
      BY <1>1, <2>1, <3>1, HalfAssumption DEF Span
    <3> QED
      BY ONLY <1>1, <1>3, <3>2 DEF Number
  <2>3. CASE ~(n < 0)
    <3>1. Encode(n) = n
      BY <1>1, <2>3, EncodeSmall
    <3> QED
      BY <1>1, <3>1, <2>1 DEF Number
  <2> QED
    BY <2>2, <2>3
<1> QED
  BY <1>2, <1>3

\* What a process keeps, under the key or not, is decoded.
LEMMA DecodedStored == ASSUME NEW q, q.key \in Raw, NEW n \in Numbers(q.type)
                       PROVE  Decoded(q, Stored(q, n)) = n
<1>1. n \in Int /\ Number(q.type, Encode(n)) = n
  BY NumberOfEncoded
<1>2. CASE q.type = "XOR"
  <2>1. Xored(Xored(Encode(n), q.key), q.key) = Encode(n)
    BY <1>1, EncodeInRaw, XorAssumption
  <2> QED
    BY <1>1, <1>2, <2>1 DEF Decoded, Stored
<1>3. CASE q.type # "XOR"
  BY <1>1, <1>3 DEF Decoded, Stored
<1> QED
  BY <1>2, <1>3

\* A target that is a number of its type reaches the comparison.
LEMMA TargetArrives ==
    ASSUME NEW q, Typeable(q.type, q.s1), q.mode \in TwoFold => Typeable(q.type, q.s2)
    PROVE  /\ Plain(q, First(q)) = q.s1[1]
           /\ q.s1[1] \in Int
           /\ q.mode \in TwoFold /\ q.type \notin Narrow =>
                 /\ {Plain(q, r) : r \in Seconds(q)} = {q.s2[1]}
                 /\ q.s2[1] \in Int
<1>1. ~NoTarget(q)
  BY DEF NoTarget, Parses, Typeable
<1>2. Plain(q, First(q)) = q.s1[1] /\ q.s1[1] \in Int
  BY <1>1, NumberOfEncoded DEF First, Plain, Typeable
<1>3. ASSUME q.mode \in TwoFold, q.type \notin Narrow
      PROVE  {Plain(q, r) : r \in Seconds(q)} = {q.s2[1]} /\ q.s2[1] \in Int
  <2>1. Seconds(q) = {Encode(q.s2[1])}
    BY <1>1, <1>3 DEF Seconds
  <2>2. Number(q.type, Encode(q.s2[1])) = q.s2[1] /\ q.s2[1] \in Int
    BY <1>3, NumberOfEncoded DEF Typeable
  <2> QED
    BY <2>1, <2>2 DEF Plain
<1> QED
  BY <1>2, <1>3

\* Sums are the exact ones.
LEMMA SumsInRange == ASSUME NEW type, NEW n \in Int,
                            type \notin Narrow \cup Floats => n \in Numbers(type)
                     PROVE  Sums(type, n) = {n}
<1>1. CASE type \in Narrow \cup Floats
  BY <1>1 DEF Sums
<1>2. CASE type \notin Narrow \cup Floats
  BY <1>2, NumberOfEncoded DEF Sums, Encode
<1> QED
  BY <1>1, <1>2

\* Low bytes that are read as a number are its own.
LEMMA EncodedNumber == ASSUME NEW type, type \notin Floats, NEW n \in Int
                       PROVE  Encode(Number(type, Encode(n))) = Encode(n)
<1> DEFINE r == Encode(n)
<1>1. r \in Int /\ 0 <= r /\ r < Span
  BY EncodeInRaw, HalfAssumption DEF Raw, Span
<1> SUFFICES Encode(Number(type, r)) = r
  OBVIOUS
<1> HIDE DEF r
<1>2. CASE type = "BYTE" \/ r < Half
  <2>1. Number(type, r) = r
    BY <1>2 DEF Number
  <2>2. Encode(r) = r
    BY <1>1, EncodeSmall, HalfAssumption
  <2> QED
    BY <2>1, <2>2
<1>3. CASE ~(type = "BYTE" \/ r < Half)
  <2>1. Number(type, r) = r - Span
    BY <1>3 DEF Number
  <2>2. /\ r - Span \in Int /\ -Half <= r - Span /\ r - Span < 0 /\ r - Span < Span
        /\ (r - Span) + Span = r
    BY <1>1, <1>3, HalfAssumption DEF Span
  <2>3. Encode(r - Span) = (r - Span) + Span
    BY <2>2, EncodeSmall
  <2> QED
    BY <2>1, <2>2, <2>3
<1> QED
  BY <1>2, <1>3

\* A settled sum is compared as the exact one.
LEMMA SumIsExact ==
    ASSUME NEW q, NEW c \in Numbers(q.type), NEW n \in Int,
           q.type \notin Narrow \cup Floats => SumSettles(q, c, n)
    PROVE  {c = m : m \in Sums(q.type, n)} = {c = n}
<1>1. CASE q.type \in Narrow \cup Floats \/ n \in Numbers(q.type)
  BY <1>1, SumsInRange
<1>2. CASE q.type \notin Narrow \cup Floats /\ n \notin Numbers(q.type)
  <2>1. Encode(c) # Encode(n)
    BY <1>2 DEF SumSettles
  <2>2. c # n /\ c # Number(q.type, Encode(n))
    BY <1>2, <2>1, EncodedNumber
  <2>3. Sums(q.type, n) = {n, Number(q.type, Encode(n))}
    BY <1>2 DEF Sums, Encode
  <2> QED
    BY <2>2, <2>3
<1> QED
  BY <1>1, <1>2

\* MatchIsDocumented: the question is answered as mi_core.h documents it, for
\* any type, mode, width, key and numbers, as long as it is a settled one.
THEOREM MatchDocumented == MatchIsDocumented
<1> SUFFICES ASSUME NEW q \in Query, NEW c \in Numbers(q.type), NEW p \in Numbers(q.type),
                    Settled(q, c, p)
             PROVE  Outcomes(q, Stored(q, c), Stored(q, p)) = {Documented(q, c, p)}
  BY DEF MatchIsDocumented
<1> DEFINE t == Plain(q, First(q))
           U == {Plain(q, r) : r \in Seconds(q)}
<1>1. /\ q.key \in Raw /\ q.type \in Types /\ q.mode \in AllModes
      /\ c \in Int /\ p \in Int /\ c # Infinite /\ q.s1 \in Texts
  BY NumberOfEncoded DEF Query
<1>2. Stored(q, p) # NoPrevious
  <2>1. Stored(q, p) \in Raw
    BY <1>1, EncodeInRaw, XorAssumption DEF Stored
  <2> QED
    BY <2>1, HalfAssumption DEF NoPrevious, Raw, Span
<1>3. Outcomes(q, Stored(q, c), Stored(q, p)) = Compared(q, c, p, t, U)
  BY <1>1, <1>2, DecodedStored DEF Outcomes
<1>4. q.mode \in Targeted \ {"EXACT"} => t = q.s1[1] /\ q.s1[1] \in Int
  BY TargetArrives DEF Settled
<1>5. q.mode \in TwoFold /\ q.type \notin Narrow => U = {q.s2[1]} /\ q.s2[1] \in Int
  BY TargetArrives DEF Settled, Targeted, TwoFold
<1>6. q.mode \in TwoFold => q.s2[1] \in Int
  BY NumberOfEncoded DEF Settled, Typeable
<1>7. U # {}
  <2>1. 0 \in Raw
    BY HalfAssumption DEF Raw, Span
  <2>2. Seconds(q) # {}
    BY <2>1 DEF Seconds
  <2> QED
    BY <2>2
<1> HIDE DEF t, U
<1>8. Documented(q, c, p) \in BOOLEAN
  BY ONLY DEF Documented
<1>9. Compared(q, c, p, t, U) = {Documented(q, c, p)}
  <2>1. CASE q.mode = "UNKNOWN"
    BY ONLY <2>1 DEF Compared, Documented
  <2>2. CASE q.mode = "EXACT"
    <3>1. Compared(q, c, p, t, U) = {c = t}
      BY ONLY <2>2 DEF Compared
    <3>2. Documented(q, c, p) <=> c = t
      <4>1. CASE Typeable(q.type, q.s1)
        <5>1. t = q.s1[1]
          BY <2>2, <4>1, TargetArrives DEF t, TwoFold
        <5> QED
          BY ONLY <1>1, <2>2, <4>1, <5>1 DEF Documented, Typeable, Texts, Blank
      <4>2. CASE q.s1 = Blank /\ c # 0
        <5>1. t = 0
          BY <4>2, HalfAssumption DEF t, First, NoTarget, Parses, Plain, Number
        <5>2. <<c>> # <<>>
          OBVIOUS
        <5> QED
          BY ONLY <2>2, <4>2, <5>1, <5>2 DEF Documented, Blank
      <4> QED
        BY <2>2, <4>1, <4>2 DEF Settled, Targeted
    <3> QED
      BY ONLY <3>1, <3>2, <1>8
  <2>3. CASE q.mode = "INCREASED"
    <3>1. Compared(q, c, p, t, U) = {c > p}
      BY ONLY <2>3 DEF Compared
    <3>2. Documented(q, c, p) <=> c > p
      BY ONLY <1>1, <2>3 DEF Documented
    <3> QED
      BY ONLY <3>1, <3>2, <1>8
  <2>4. CASE q.mode = "DECREASED"
    <3>1. Compared(q, c, p, t, U) = {c < p}
      BY ONLY <2>4 DEF Compared
    <3>2. Documented(q, c, p) <=> c < p
      BY ONLY <1>1, <2>4 DEF Documented
    <3> QED
      BY ONLY <3>1, <3>2, <1>8
  <2>5. CASE q.mode = "CHANGED"
    <3>1. Compared(q, c, p, t, U) = {c # p}
      BY ONLY <2>5 DEF Compared
    <3>2. Documented(q, c, p) <=> c # p
      BY ONLY <1>1, <2>5 DEF Documented
    <3> QED
      BY ONLY <3>1, <3>2, <1>8
  <2>6. CASE q.mode = "UNCHANGED"
    <3>1. Compared(q, c, p, t, U) = {c = p}
      BY ONLY <2>6 DEF Compared
    <3>2. Documented(q, c, p) <=> c = p
      BY ONLY <1>1, <2>6 DEF Documented
    <3> QED
      BY ONLY <3>1, <3>2, <1>8
  <2>7. CASE q.mode = "GREATER"
    <3>1. Compared(q, c, p, t, U) = {c > t}
      BY ONLY <2>7 DEF Compared
    <3>2. Documented(q, c, p) <=> c > t
      BY ONLY <1>1, <1>4, <2>7 DEF Documented, Targeted
    <3> QED
      BY ONLY <3>1, <3>2, <1>8
  <2>8. CASE q.mode = "LESS"
    <3>1. Compared(q, c, p, t, U) = {c < t}
      BY ONLY <2>8 DEF Compared
    <3>2. Documented(q, c, p) <=> c < t
      BY ONLY <1>1, <1>4, <2>8 DEF Documented, Targeted
    <3> QED
      BY ONLY <3>1, <3>2, <1>8
  <2>9. CASE q.mode = "BETWEEN"
    <3>1. t = q.s1[1] /\ t \in Int /\ q.s2[1] \in Int
      BY <1>4, <1>6, <2>9 DEF Targeted, TwoFold
    <3>2. Documented(q, c, p) <=> c >= t /\ c <= q.s2[1]
      BY ONLY <1>1, <2>9, <3>1 DEF Documented
    <3>3. CASE q.type \notin Narrow
      <4>1. Compared(q, c, p, t, U) = {c >= t /\ c <= q.s2[1]}
        BY ONLY <1>5, <2>9, <3>3 DEF Compared, TwoFold
      <4> QED
        BY ONLY <1>8, <3>2, <4>1
    <3>4. CASE q.type \in Narrow
      <4>1. c < t
        BY <2>9, <3>1, <3>4 DEF Settled
      <4>2. Compared(q, c, p, t, U) = {c >= t /\ c <= u : u \in U}
        BY ONLY <2>9 DEF Compared
      <4>3. ~(c >= t) /\ ~Documented(q, c, p)
        BY ONLY <1>1, <3>1, <3>2, <4>1
      <4> QED
        BY ONLY <1>8, <1>7, <4>2, <4>3
    <3> QED
      BY <3>3, <3>4
  <2>10. CASE q.mode = "FUZZY"
    <3> q.type \in Floats /\ q.type \notin Narrow
      BY <2>10 DEF Settled, Floats, Narrow
    <3>1. Compared(q, c, p, t, U) = {/\ q.type \in Floats /\ c >= t - Abs(q.s2[1]) /\ c <= t + Abs(q.s2[1])}
      BY ONLY <2>10, <1>5, q.type \notin Narrow DEF Compared, TwoFold
    <3>2. Documented(q, c, p) <=> /\ q.type \in Floats /\ c >= t - Abs(q.s2[1]) /\ c <= t + Abs(q.s2[1])
      BY ONLY <1>1, <1>4, <1>6, q.type \in Floats, <2>10 DEF Documented, Targeted, TwoFold, Abs
    <3> QED
      BY ONLY <3>1, <3>2, <1>8
  <2>11. CASE q.mode = "INCREASED_BY"
    <3>1. t = q.s1[1] /\ p + t \in Int
      BY <1>1, <1>4, <2>11 DEF Targeted, Deltas
    <3>2. {c = n : n \in Sums(q.type, p + t)} = {c = p + t}
      <4> DEFINE sum == p + t
      <4>1. q.type \notin Narrow \cup Floats => SumSettles(q, c, sum)
        BY <2>11, <3>1 DEF Settled
      <4>2. sum \in Int
        BY <3>1
      <4> HIDE DEF sum
      <4>3. {c = n : n \in Sums(q.type, sum)} = {c = sum}
        BY ONLY <4>1, <4>2, c \in Numbers(q.type), SumIsExact
      <4> QED
        BY <4>3 DEF sum
    <3>3. Compared(q, c, p, t, U) = {c = p + t}
      BY ONLY <2>11, <3>2 DEF Compared
    <3>4. Documented(q, c, p) <=> c = p + t
      BY ONLY <1>1, <1>4, <2>11 DEF Documented, Targeted, Deltas
    <3> QED
      BY ONLY <3>3, <3>4, <1>8
  <2>12. CASE q.mode = "DECREASED_BY"
    <3>1. t = q.s1[1] /\ p - t \in Int
      BY <1>1, <1>4, <2>12 DEF Targeted, Deltas
    <3>2. {c = n : n \in Sums(q.type, p - t)} = {c = p - t}
      <4> DEFINE sum == p - t
      <4>1. q.type \notin Narrow \cup Floats => SumSettles(q, c, sum)
        BY <2>12, <3>1 DEF Settled
      <4>2. sum \in Int
        BY <3>1
      <4> HIDE DEF sum
      <4>3. {c = n : n \in Sums(q.type, sum)} = {c = sum}
        BY ONLY <4>1, <4>2, c \in Numbers(q.type), SumIsExact
      <4> QED
        BY <4>3 DEF sum
    <3>3. Compared(q, c, p, t, U) = {c = p - t}
      BY ONLY <2>12, <3>2 DEF Compared
    <3>4. Documented(q, c, p) <=> c = p - t
      BY ONLY <1>1, <1>4, <2>12 DEF Documented, Targeted, Deltas
    <3> QED
      BY ONLY <3>3, <3>4, <1>8
  <2> QED
    BY <1>1, <2>1, <2>2, <2>3, <2>4, <2>5, <2>6, <2>7, <2>8, <2>9, <2>10, <2>11, <2>12
       DEF AllModes, Relative, Targeted, Deltas
<1> QED
  BY <1>3, <1>9
=============================================================================
