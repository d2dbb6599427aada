-------------------------- MODULE NativeCoreProofs --------------------------
(***************************************************************************)
(* For any callers, queries, values and addresses: refinements and bulk    *)
(* writes exclude each other and every replacement of the results, so that *)
(* both go through the results that are listed; a scan keeps the addresses *)
(* it is asked for; an id of a watch stands for one address; and the pages *)
(* of the results list each address once.                                  *)
(***************************************************************************)
EXTENDS NativeCore, ValueMatchProofs, NumberFacts, FiniteSetTheorems

\* The mutex is held by whoever refines or writes.
Exclusion == \A c \in Callers : call[c].op \in {"refine", "write"} <=> c \in lock

\* A refinement keeps addresses of the list it filters.
KeptAreListed == \A c \in Callers :
                     call[c].op = "refine" => Listed(out[c]) \subseteq Listed(cache)

\* The bytes of an entry are what the scan saw.
EntriesTrue == \A a \in Addrs : /\ cache[a].value = cache[a].was
                                /\ \A c \in Callers : out[c][a].value = out[c][a].was

\* Nothing is kept of an address that has still to be looked at.
LeftIsOpen == \A c \in Callers : \A a \in left[c] : out[c][a] = None

CacheInv == /\ TypeOK
            /\ Exclusion
            /\ WritesGoToListed
            /\ KeptAreListed
            /\ EntriesTrue
            /\ LeftIsOpen

-----------------------------------------------------------------------------
(* Entries, calls, and the parts that actions share *)

\* Every type has a size, so that an entry is never taken for none.
LEMMA Sizes == /\ \A type \in Types : SizeOf[type] \in Nat \ {0}
               /\ Widths \subseteq Nat
<1>1. \A type \in Types : SizeOf[type] \in Nat \ {0}
  BY DEF SizeOf, Types, Floats
<1> QED
  BY <1>1 DEF Widths

\* What is listed has an entry, and what is not has none.
LEMMA Entries == /\ None \notin Entry
                 /\ \A v \in Values : /\ Result(0, v) \in Entry
                                      /\ \A type \in Types : Result(SizeOf[type], v) \in Entry
                 /\ Empty \in Lists /\ Listed(Empty) = {}
<1>1. None \notin Entry
  BY Sizes DEF None, Entry
<1>2. \A v \in Values : /\ Result(0, v) \in Entry
                        /\ \A type \in Types : Result(SizeOf[type], v) \in Entry
  BY DEF Result, Entry, Widths
<1>3. Empty \in Lists /\ Listed(Empty) = {}
  BY DEF Empty, Lists, Listed
<1> QED
  BY <1>1, <1>2, <1>3

\* A comparison answers yes or no.
LEMMA OutcomesBoolean == ASSUME NEW q \in Query, NEW cur, NEW prev
                         PROVE  Outcomes(q, cur, prev) \subseteq BOOLEAN
<1>1. ASSUME NEW c, NEW p, NEW t, NEW seconds
      PROVE  Compared(q, c, p, t, seconds) \subseteq BOOLEAN
  <2>1. q.mode \in AllModes
    BY DEF Query
  <2>2. CASE q.mode = "EXACT"
    BY <2>2 DEF Compared
  <2>3. CASE q.mode = "UNKNOWN"
    BY <2>3 DEF Compared
  <2>4. CASE q.mode = "INCREASED"
    BY <2>4 DEF Compared
  <2>5. CASE q.mode = "DECREASED"
    BY <2>5 DEF Compared
  <2>6. CASE q.mode = "CHANGED"
    BY <2>6 DEF Compared
  <2>7. CASE q.mode = "UNCHANGED"
    BY <2>7 DEF Compared
  <2>8. CASE q.mode = "GREATER"
    BY <2>8 DEF Compared
  <2>9. CASE q.mode = "LESS"
    BY <2>9 DEF Compared
  <2>10. CASE q.mode = "BETWEEN"
    BY <2>10 DEF Compared
  <2>11. CASE q.mode = "INCREASED_BY"
    BY <2>11 DEF Compared
  <2>12. CASE q.mode = "DECREASED_BY"
    BY <2>12 DEF Compared
  <2>13. CASE q.mode = "FUZZY"
    BY <2>13 DEF Compared
  <2> QED
    BY <2>1, <2>2, <2>3, <2>4, <2>5, <2>6, <2>7, <2>8, <2>9, <2>10, <2>11, <2>12, <2>13
       DEF AllModes, Relative, Targeted, Deltas
<1> QED
  BY <1>1 DEF Outcomes

\* The arguments of a call, by its operation.
LEMMA Arguments ==
    ASSUME TypeOK, NEW c \in Callers
    PROVE  /\ call[c].op = "first" => call[c].query \in FirstQueries
           /\ call[c].op = "refine" => call[c].query \in RefineQueries
           /\ call[c].op = "write" => call[c].offset \in Offsets /\ call[c].value \in Values
BY DEF TypeOK, Calls, Group, Idle

\* A caller who looks at its lowest address has it to look at.
LEMMA LowestIn == ASSUME TypeOK, NEW c \in Callers, left[c] # {}
                  PROVE  Lowest(c) \in left[c] /\ Lowest(c) \in Addrs
<1>1. left[c] \in SUBSET Addrs /\ left[c] \in SUBSET Nat
  BY BoundsAssumption DEF TypeOK, Addrs
<1>2. \E a \in left[c] : \A b \in left[c] : a <= b
  BY <1>1, LeastOne
<1> QED
  BY <1>1, <1>2 DEF Lowest

\* A call begins: the caller, and nobody else, has something to do.
LEMMA BeginCall ==
    ASSUME CacheInv, NEW c \in Callers, NEW k \in Calls, NEW addrs \in SUBSET Addrs,
           Begin(c, k, addrs)
    PROVE  /\ call' \in [Callers -> Calls \cup {Idle}]
           /\ left' \in [Callers -> SUBSET Addrs]
           /\ out' \in [Callers -> Lists]
           /\ c \notin lock
           /\ call'[c] = k /\ left'[c] = addrs /\ out'[c] = Empty
           /\ \A d \in Callers \ {c} : /\ call'[d] = call[d]
                                       /\ left'[d] = left[d] /\ out'[d] = out[d]
<1>1. call[c].op = "idle"
  BY DEF Begin, Idle
<1>2. c \notin lock
  BY <1>1 DEF CacheInv, Exclusion
<1> QED
  BY <1>2, Entries DEF Begin, CacheInv, TypeOK

\* A call ends: the caller is idle again.
LEMMA ReturnCall ==
    ASSUME TypeOK, NEW c \in Callers, Return(c)
    PROVE  /\ call' \in [Callers -> Calls \cup {Idle}]
           /\ left' \in [Callers -> SUBSET Addrs]
           /\ out' \in [Callers -> Lists]
           /\ call'[c] = Idle /\ left'[c] = {} /\ out'[c] = Empty
           /\ \A d \in Callers \ {c} : /\ call'[d] = call[d]
                                       /\ left'[d] = left[d] /\ out'[d] = out[d]
BY Entries DEF Return, TypeOK

\* An address is looked at, and perhaps kept.
LEMMA LookCall ==
    ASSUME TypeOK, NEW c \in Callers, left[c] # {}, NEW hit \in BOOLEAN,
           NEW result, hit => result \in Entry, Look(c, hit, result)
    PROVE  /\ left' \in [Callers -> SUBSET Addrs]
           /\ out' \in [Callers -> Lists]
           /\ left'[c] = left[c] \ {Lowest(c)}
           /\ \A a \in Addrs : out'[c][a] = IF hit /\ a = Lowest(c) THEN result ELSE out[c][a]
           /\ \A d \in Callers \ {c} : left'[d] = left[d] /\ out'[d] = out[d]
<1>1. Lowest(c) \in Addrs
  BY LowestIn
<1>2. /\ left' \in [Callers -> SUBSET Addrs]
      /\ left'[c] = left[c] \ {Lowest(c)}
      /\ \A d \in Callers \ {c} : left'[d] = left[d]
  BY DEF Look, TypeOK
<1>3. CASE ~hit
  BY <1>2, <1>3 DEF Look, TypeOK
<1>4. CASE hit
  <2>1. out' = [out EXCEPT ![c] = [out[c] EXCEPT ![Lowest(c)] = result]]
    BY <1>4 DEF Look
  <2>2. out[c] \in Lists /\ result \in Entry \cup {None}
    BY <1>4 DEF TypeOK
  <2>3. [out[c] EXCEPT ![Lowest(c)] = result] \in Lists
    BY <1>1, <2>2 DEF Lists
  <2>4. \A a \in Addrs : [out[c] EXCEPT ![Lowest(c)] = result][a]
                             = IF a = Lowest(c) THEN result ELSE out[c][a]
    BY <1>1, <2>2 DEF Lists
  <2>5. out' \in [Callers -> Lists] /\ out'[c] = [out[c] EXCEPT ![Lowest(c)] = result]
    BY <2>1, <2>3 DEF TypeOK
  <2>6. \A d \in Callers \ {c} : out'[d] = out[d]
    BY <2>1 DEF TypeOK
  <2> QED
    BY <1>2, <1>4, <2>4, <2>5, <2>6
<1> QED
  BY <1>3, <1>4

-----------------------------------------------------------------------------
(* The results: one lemma per action *)

LEMMA CacheInit == Init => CacheInv
<1> SUFFICES ASSUME Init PROVE CacheInv
  OBVIOUS
<1>1. TypeOK
  BY Entries DEF Init, TypeOK, Lists
<1>2. Exclusion /\ WritesGoToListed /\ KeptAreListed
  BY DEF Init, Exclusion, WritesGoToListed, KeptAreListed, Idle, Free
<1>3. EntriesTrue
  BY DEF Init, EntriesTrue, Empty, None
<1>4. LeftIsOpen
  BY DEF Init, LeftIsOpen
<1> QED
  BY <1>1, <1>2, <1>3, <1>4 DEF CacheInv

\* A first scan begins without the mutex.
LEMMA BeginFirstInv ==
    ASSUME CacheInv, NEW c \in Callers, NEW k \in Calls, k.op \in {"first", "group"},
           BeginFirst(c, k)
    PROVE  CacheInv'
<1>1. Begin(c, k, Addrs) /\ UNCHANGED <<memory, lock, cache>>
  BY DEF BeginFirst
<1>2. /\ call' \in [Callers -> Calls \cup {Idle}]
      /\ left' \in [Callers -> SUBSET Addrs]
      /\ out' \in [Callers -> Lists]
      /\ c \notin lock
      /\ call'[c] = k /\ left'[c] = Addrs /\ out'[c] = Empty
      /\ \A d \in Callers \ {c} : /\ call'[d] = call[d]
                                  /\ left'[d] = left[d] /\ out'[d] = out[d]
  BY <1>1, BeginCall
<1>3. TypeOK'
  BY <1>1, <1>2 DEF CacheInv, TypeOK
<1>4. Exclusion'
  BY <1>1, <1>2 DEF CacheInv, Exclusion
<1>5. WritesGoToListed' /\ KeptAreListed'
  BY <1>1, <1>2 DEF CacheInv, WritesGoToListed, KeptAreListed, Listed
<1>6. EntriesTrue'
  BY <1>1, <1>2 DEF CacheInv, EntriesTrue, Empty, None
<1>7. LeftIsOpen'
  BY <1>2 DEF CacheInv, LeftIsOpen, Empty
<1> QED
  BY <1>3, <1>4, <1>5, <1>6, <1>7 DEF CacheInv

\* A refinement or a bulk write begins with the mutex, and with what is listed.
LEMMA BeginLockedInv ==
    ASSUME CacheInv, NEW c \in Callers, NEW k \in Calls, k.op \in {"refine", "write"},
           Acquire(c), Begin(c, k, Listed(cache)), UNCHANGED <<memory, cache>>
    PROVE  CacheInv'
<1>1. lock = {} /\ lock' = {c}
  BY DEF Acquire, Free
<1>2. Listed(cache) \in SUBSET Addrs
  BY DEF Listed
<1>3. /\ call' \in [Callers -> Calls \cup {Idle}]
      /\ left' \in [Callers -> SUBSET Addrs]
      /\ out' \in [Callers -> Lists]
      /\ call'[c] = k /\ left'[c] = Listed(cache) /\ out'[c] = Empty
      /\ \A d \in Callers \ {c} : /\ call'[d] = call[d]
                                  /\ left'[d] = left[d] /\ out'[d] = out[d]
  BY <1>2, BeginCall
<1>4. TypeOK'
  BY <1>1, <1>3 DEF CacheInv, TypeOK
<1>5. Exclusion'
  BY <1>1, <1>3 DEF CacheInv, Exclusion
<1>6. WritesGoToListed' /\ KeptAreListed'
  BY <1>3, Entries DEF CacheInv, WritesGoToListed, KeptAreListed, Listed
<1>7. EntriesTrue'
  BY <1>3 DEF CacheInv, EntriesTrue, Empty, None
<1>8. LeftIsOpen'
  BY <1>2, <1>3 DEF CacheInv, LeftIsOpen, Empty
<1> QED
  BY <1>4, <1>5, <1>6, <1>7, <1>8 DEF CacheInv

\* Looking at an address keeps it only from what is left.
LEMMA LookInv ==
    ASSUME CacheInv, NEW c \in Callers, left[c] # {}, NEW hit \in BOOLEAN, NEW result,
           hit => result \in Entry /\ result.value = result.was, Look(c, hit, result)
    PROVE  CacheInv'
<1>1. UNCHANGED <<memory, lock, cache, call>>
  BY DEF Look
<1>2. /\ left' \in [Callers -> SUBSET Addrs]
      /\ out' \in [Callers -> Lists]
      /\ left'[c] = left[c] \ {Lowest(c)}
      /\ \A a \in Addrs : out'[c][a] = IF hit /\ a = Lowest(c) THEN result ELSE out[c][a]
      /\ \A d \in Callers \ {c} : left'[d] = left[d] /\ out'[d] = out[d]
  BY LookCall DEF CacheInv
<1>3. Lowest(c) \in left[c]
  BY LowestIn DEF CacheInv
<1>4. TypeOK'
  BY <1>1, <1>2 DEF CacheInv, TypeOK
<1>5. Exclusion'
  BY <1>1 DEF CacheInv, Exclusion
<1>6. WritesGoToListed'
  BY <1>1, <1>2 DEF CacheInv, WritesGoToListed, Listed
<1>7. KeptAreListed'
  <2> SUFFICES ASSUME NEW d \in Callers, call[d].op = "refine"
               PROVE  Listed(out'[d]) \subseteq Listed(cache)
    BY <1>1 DEF KeptAreListed, Listed
  <2>1. Listed(out[d]) \subseteq Listed(cache) /\ left[d] \subseteq Listed(cache)
    BY DEF CacheInv, KeptAreListed, WritesGoToListed
  <2>2. CASE d = c
    BY <1>2, <1>3, <2>1, <2>2 DEF Listed
  <2>3. CASE d # c
    BY <1>2, <2>1, <2>3
  <2> QED
    BY <2>2, <2>3
<1>8. EntriesTrue'
  BY <1>1, <1>2 DEF CacheInv, EntriesTrue
<1>9. LeftIsOpen'
  BY <1>2 DEF CacheInv, TypeOK, LeftIsOpen
<1> QED
  BY <1>4, <1>5, <1>6, <1>7, <1>8, <1>9 DEF CacheInv

\* A first scan looks at a slot; a group begins there or not.
LEMMA ScanSlotInv == ASSUME CacheInv, NEW c \in Callers, ScanSlot(c) \/ GroupSlot(c)
                     PROVE  CacheInv'
<1>1. CASE ScanSlot(c)
  <2>1. call[c].query \in FirstQueries /\ left[c] # {}
    BY <1>1, Arguments DEF ScanSlot, CacheInv
  <2>2. call[c].query.type \in Types
    BY <2>1, QueriesAssumption DEF Query
  <2>3. memory[Lowest(c)] \in Values
    BY <2>1, LowestIn DEF CacheInv, TypeOK
  <2>4. PICK hit \in Outcomes(call[c].query, memory[Lowest(c)], NoPrevious) :
            Look(c, hit, Result(SizeOf[call[c].query.type], memory[Lowest(c)]))
    BY <1>1 DEF ScanSlot
  <2>5. hit \in BOOLEAN
    BY <2>1, <2>4, OutcomesBoolean, QueriesAssumption
  <2>6. /\ Result(SizeOf[call[c].query.type], memory[Lowest(c)]) \in Entry
        /\ Result(SizeOf[call[c].query.type], memory[Lowest(c)]).value
               = Result(SizeOf[call[c].query.type], memory[Lowest(c)]).was
    BY <2>2, <2>3, Entries DEF Result
  <2> QED
    BY <2>1, <2>4, <2>5, <2>6, LookInv
<1>2. CASE GroupSlot(c)
  <2>1. PICK hit \in BOOLEAN : Look(c, hit, Result(0, 0))
    BY <1>2 DEF GroupSlot
  <2>2. Result(0, 0) \in Entry /\ Result(0, 0).value = Result(0, 0).was
    BY Entries, ValuesAssumption DEF Result
  <2>3. left[c] # {}
    BY <1>2 DEF GroupSlot
  <2> QED
    BY <2>1, <2>2, <2>3, LookInv
<1> QED
  BY <1>1, <1>2

\* A refinement looks at an entry; an address cannot be read.
LEMMA RefineEntryInv == ASSUME CacheInv, NEW c \in Callers, RefineEntry(c) \/ ReadFails(c)
                        PROVE  CacheInv'
<1>1. CASE RefineEntry(c)
  <2>1. call[c].query \in RefineQueries /\ left[c] # {}
    BY <1>1, Arguments DEF RefineEntry, CacheInv
  <2>2. call[c].query.type \in Types
    BY <2>1, QueriesAssumption DEF Query
  <2>3. memory[Lowest(c)] \in Values
    BY <2>1, LowestIn DEF CacheInv, TypeOK
  <2> DEFINE size == SizeOf[call[c].query.type]
             v == memory[Lowest(c)]
  <2>4. PICK hit \in Outcomes(call[c].query, v, Previous(cache[Lowest(c)], size)) :
            Look(c, hit, Result(size, v))
    BY <1>1 DEF RefineEntry
  <2>5. hit \in BOOLEAN
    BY <2>1, <2>4, OutcomesBoolean, QueriesAssumption
  <2>6. Result(size, v) \in Entry /\ Result(size, v).value = Result(size, v).was
    BY <2>2, <2>3, Entries DEF Result
  <2> QED
    BY <2>1, <2>4, <2>5, <2>6, LookInv
<1>2. CASE ReadFails(c)
  BY <1>2, LookInv DEF ReadFails
<1> QED
  BY <1>1, <1>2

\* A first scan stores its results while nobody holds the mutex.
LEMMA StoreFirstInv == ASSUME CacheInv, NEW c \in Callers, StoreFirst(c)
                       PROVE  CacheInv'
<1>1. /\ lock = {} /\ lock' = lock /\ memory' = memory
      /\ cache' = out[c] /\ Return(c)
  BY DEF StoreFirst, LockFree, Free
<1>2. /\ call' \in [Callers -> Calls \cup {Idle}]
      /\ left' \in [Callers -> SUBSET Addrs]
      /\ out' \in [Callers -> Lists]
      /\ call'[c] = Idle /\ left'[c] = {} /\ out'[c] = Empty
      /\ \A d \in Callers \ {c} : /\ call'[d] = call[d]
                                  /\ left'[d] = left[d] /\ out'[d] = out[d]
  BY <1>1, ReturnCall DEF CacheInv
<1>3. TypeOK'
  BY <1>1, <1>2 DEF CacheInv, TypeOK
<1>4. \A d \in Callers : call'[d].op \notin {"refine", "write"}
  BY <1>1, <1>2 DEF CacheInv, Exclusion, Idle
<1>5. Exclusion' /\ WritesGoToListed' /\ KeptAreListed'
  BY <1>1, <1>4 DEF Exclusion, WritesGoToListed, KeptAreListed
<1>6. EntriesTrue'
  BY <1>1, <1>2 DEF CacheInv, EntriesTrue, Empty, None
<1>7. LeftIsOpen'
  BY <1>2 DEF CacheInv, LeftIsOpen
<1> QED
  BY <1>3, <1>5, <1>6, <1>7 DEF CacheInv

\* A refinement or a bulk write ends, with the results it may have filtered.
LEMMA EndLockedInv ==
    ASSUME CacheInv, NEW c \in Callers, call[c].op \in {"refine", "write"},
           cache' \in {cache, out[c]}, Release, Return(c), UNCHANGED memory
    PROVE  CacheInv'
<1>1. lock = {c} /\ lock' = {}
  BY DEF CacheInv, TypeOK, Exclusion, Release, Free
<1>2. /\ call' \in [Callers -> Calls \cup {Idle}]
      /\ left' \in [Callers -> SUBSET Addrs]
      /\ out' \in [Callers -> Lists]
      /\ call'[c] = Idle /\ left'[c] = {} /\ out'[c] = Empty
      /\ \A d \in Callers \ {c} : /\ call'[d] = call[d]
                                  /\ left'[d] = left[d] /\ out'[d] = out[d]
  BY ReturnCall DEF CacheInv
<1>3. TypeOK'
  <2>1. cache' \in Lists
    BY DEF CacheInv, TypeOK
  <2>2. memory' \in [Addrs -> Values] /\ lock' \in {Free} \cup {{d} : d \in Callers}
    BY <1>1 DEF CacheInv, TypeOK, Free
  <2> QED
    BY <1>2, <2>1, <2>2 DEF TypeOK
<1>4. \A d \in Callers : call'[d].op \notin {"refine", "write"}
  BY <1>1, <1>2 DEF CacheInv, Exclusion, Idle
<1>5. Exclusion' /\ WritesGoToListed' /\ KeptAreListed'
  BY <1>1, <1>4 DEF Exclusion, WritesGoToListed, KeptAreListed
<1>6. EntriesTrue'
  BY <1>2 DEF CacheInv, EntriesTrue, Empty, None
<1>7. LeftIsOpen'
  BY <1>2 DEF CacheInv, LeftIsOpen
<1> QED
  BY <1>3, <1>5, <1>6, <1>7 DEF CacheInv

\* One address is written.
LEMMA WriteEntryInv == ASSUME CacheInv, NEW c \in Callers, WriteEntry(c)
                       PROVE  CacheInv'
<1>1. /\ UNCHANGED <<lock, cache, call, out>>
      /\ left' = [left EXCEPT ![c] = @ \ {Lowest(c)}]
  BY DEF WriteEntry
<1>2. call[c].value \in Values
  BY Arguments DEF CacheInv, WriteEntry
<1>3. memory' \in [Addrs -> Values]
  BY <1>2 DEF CacheInv, TypeOK, WriteEntry, WriteMem
<1>4. TypeOK'
  BY <1>1, <1>3 DEF CacheInv, TypeOK
<1>5. \A d \in Callers : left'[d] \subseteq left[d]
  BY <1>1 DEF CacheInv, TypeOK
<1>6. WritesGoToListed'
  BY <1>1, <1>5 DEF CacheInv, WritesGoToListed, Listed
<1>7. Exclusion' /\ KeptAreListed' /\ EntriesTrue'
  BY <1>1 DEF CacheInv, Exclusion, KeptAreListed, EntriesTrue, Listed
<1>8. LeftIsOpen'
  BY <1>1, <1>5 DEF CacheInv, LeftIsOpen
<1> QED
  BY <1>4, <1>6, <1>7, <1>8 DEF CacheInv

\* The results are cleared while nobody holds the mutex.
LEMMA ScanClearInv == ASSUME CacheInv, NEW c \in Callers, ScanClear(c)
                      PROVE  CacheInv'
<1>1. /\ lock = {} /\ cache' = Empty
      /\ UNCHANGED <<memory, lock, call, left, out>>
  BY DEF ScanClear, LockFree, Free
<1>2. TypeOK'
  BY <1>1, Entries DEF CacheInv, TypeOK
<1>3. \A d \in Callers : call[d].op \notin {"refine", "write"}
  BY <1>1 DEF CacheInv, Exclusion
<1>4. Exclusion' /\ WritesGoToListed' /\ KeptAreListed'
  BY <1>1, <1>3 DEF CacheInv, Exclusion, WritesGoToListed, KeptAreListed
<1>5. EntriesTrue'
  BY <1>1 DEF CacheInv, EntriesTrue, Empty, None
<1>6. LeftIsOpen'
  BY <1>1 DEF CacheInv, LeftIsOpen
<1> QED
  BY <1>2, <1>4, <1>5, <1>6 DEF CacheInv

\* Whoever does whatever to the results, the invariant is kept.
LEMMA CacheStep == CacheInv /\ [Next]_vars => CacheInv'
<1> SUFFICES ASSUME CacheInv, [Next]_vars PROVE CacheInv'
  OBVIOUS
<1>1. ASSUME NEW c \in Callers, Call(c) PROVE CacheInv'
  <2>1. ASSUME NEW query \in FirstQueries, BeginFirst(c, [op |-> "first", query |-> query])
        PROVE  CacheInv'
    <3>1. [op |-> "first", query |-> query] \in Calls
      BY DEF Calls
    <3> QED
      BY <2>1, <3>1, BeginFirstInv
  <2>2. CASE BeginFirst(c, Group)
    <3>1. Group \in Calls /\ Group.op = "group"
      BY DEF Calls, Group
    <3> QED
      BY <2>2, <3>1, BeginFirstInv
  <2>3. ASSUME NEW query \in RefineQueries, BeginRefine(c, query) PROVE CacheInv'
    <3>1. [op |-> "refine", query |-> query] \in Calls
      BY DEF Calls
    <3> QED
      BY <2>3, <3>1, BeginLockedInv DEF BeginRefine
  <2>4. ASSUME NEW offset \in Offsets, NEW value \in Values, BeginWrite(c, offset, value)
        PROVE  CacheInv'
    <3>1. [op |-> "write", offset |-> offset, value |-> value] \in Calls
      BY DEF Calls
    <3> QED
      BY <2>4, <3>1, BeginLockedInv DEF BeginWrite
  <2> QED
    BY <1>1, <2>1, <2>2, <2>3, <2>4, ScanClearInv DEF Call
<1>2. ASSUME NEW c \in Callers, Proceed(c) PROVE CacheInv'
  <2>1. CASE ScanSlot(c) \/ GroupSlot(c)
    BY <2>1, ScanSlotInv
  <2>2. CASE RefineEntry(c) \/ ReadFails(c)
    BY <2>2, RefineEntryInv
  <2>3. CASE StoreFirst(c)
    BY <2>3, StoreFirstInv
  <2>4. CASE StoreRefined(c)
    BY <2>4, EndLockedInv DEF StoreRefined
  <2>5. CASE WriteEntry(c)
    BY <2>5, WriteEntryInv
  <2>6. CASE EndWrite(c)
    BY <2>6, EndLockedInv DEF EndWrite
  <2> QED
    BY <1>2, <2>1, <2>2, <2>3, <2>4, <2>5, <2>6 DEF Proceed
<1>3. ASSUME NEW a \in Addrs, NEW v \in Values, Mutate(a, v) PROVE CacheInv'
  BY <1>3 DEF Mutate, CacheInv, TypeOK, Exclusion, WritesGoToListed, KeptAreListed,
              EntriesTrue, LeftIsOpen, Listed
<1>4. CASE UNCHANGED vars
  BY <1>4 DEF vars, CacheInv, TypeOK, Exclusion, WritesGoToListed, KeptAreListed,
              EntriesTrue, LeftIsOpen, Listed
<1> QED
  BY <1>1, <1>2, <1>3, <1>4 DEF Next

-----------------------------------------------------------------------------
(* The watch list *)

\* An id is filed once: by whom it was drawn for.
DrawnOnce ==
    /\ \A id \in WatchIds : id >= nextWatch => given[id] = Nowhere
    /\ \A c \in Callers : watching[c].op = "add" =>
           /\ watching[c].id < nextWatch
           /\ given[watching[c].id] = Nowhere
           /\ \A d \in Callers \ {c} :
                  watching[d].op = "add" => watching[d].id # watching[c].id

WatchInv == /\ watches \in [WatchIds -> Addrs \cup {Nowhere}]
            /\ nextWatch \in 0 .. MaxWatches
            /\ watching \in [Callers -> InWatch("add") \cup InWatch("read") \cup {Idle}]
            /\ given \in [WatchIds -> Addrs \cup {Nowhere}]
            /\ ReadsOwnWatch
            /\ DrawnOnce

\* One call at a time.
OneCall == \A c \in Callers : watching[c] # Idle => call[c] = Idle

CoreInv == CacheInv /\ WatchInv /\ OneCall

\* What a caller does in the watch list, by its operation.
LEMMA WatchArguments ==
    ASSUME WatchInv, NEW c \in Callers, watching[c].op \in {"add", "read"}
    PROVE  watching[c].id \in WatchIds /\ watching[c].addr \in Addrs
BY DEF WatchInv, InWatch, Idle

LEMMA WatchDrawInv == ASSUME WatchInv, NEW c \in Callers, NEW addr \in Addrs,
                             WatchDraw(c, addr)
                      PROVE  WatchInv'
<1>1. /\ nextWatch \in WatchIds /\ nextWatch' = nextWatch + 1 /\ nextWatch' \in 0 .. MaxWatches
      /\ watching' = [watching EXCEPT ![c] = [op |-> "add", id |-> nextWatch, addr |-> addr]]
      /\ UNCHANGED <<watches, given>>
  BY WatchesAssumption DEF WatchDraw, NewId, WatchInv, WatchIds
<1>2. watching' \in [Callers -> InWatch("add") \cup InWatch("read") \cup {Idle}]
  BY <1>1 DEF WatchInv, InWatch
<1>3. ReadsOwnWatch'
  BY <1>1 DEF WatchInv, ReadsOwnWatch
<1>4. DrawnOnce'
  <2>1. \A id \in WatchIds : id >= nextWatch' => given'[id] = Nowhere
    BY <1>1 DEF WatchInv, DrawnOnce, WatchIds
  <2>2. \A d \in Callers \ {c} : watching'[d] = watching[d]
    BY <1>1 DEF WatchInv
  <2>3. watching'[c].op = "add" /\ watching'[c].id = nextWatch
    BY <1>1 DEF WatchInv
  <2>4. given[nextWatch] = Nowhere
    BY <1>1 DEF WatchInv, DrawnOnce, WatchIds
  <2>5. \A d \in Callers \ {c} : watching[d].op = "add" =>
            watching[d].id < nextWatch /\ watching[d].id \in WatchIds
    BY WatchArguments DEF WatchInv, DrawnOnce
  <2> QED
    BY <1>1, <2>1, <2>2, <2>3, <2>4, <2>5 DEF WatchInv, DrawnOnce, WatchIds
<1> QED
  BY <1>1, <1>2, <1>3, <1>4 DEF WatchInv

LEMMA WatchFileInv == ASSUME WatchInv, NEW c \in Callers, WatchFile(c)
                      PROVE  WatchInv'
<1> DEFINE id == watching[c].id
<1>1. /\ id \in WatchIds /\ watching[c].addr \in Addrs
      /\ given[id] = Nowhere
      /\ given' = [given EXCEPT ![id] = watching[c].addr]
      /\ watches' = [watches EXCEPT ![id] = watching[c].addr]
      /\ watching' = [watching EXCEPT ![c] = Idle]
      /\ nextWatch' = nextWatch
  BY WatchArguments DEF WatchFile, WatchInv, DrawnOnce
<1>2. \A d \in Callers \ {c} : watching'[d] = watching[d]
  BY <1>1 DEF WatchInv
<1>3. watching'[c].op = "idle"
  BY <1>1 DEF WatchInv, Idle
<1>4. ReadsOwnWatch'
  <2>1. \A other \in WatchIds : watches'[other] \in {given'[other], Nowhere}
    BY <1>1 DEF WatchInv, ReadsOwnWatch
  <2>2. ASSUME NEW d \in Callers, watching'[d].op = "read"
        PROVE  watching'[d].addr = given'[watching'[d].id]
    <3>1. d # c /\ watching'[d] = watching[d]
      BY <1>2, <1>3, <2>2
    <3>2. watching[d].id \in WatchIds /\ watching[d].addr \in Addrs
      BY <2>2, <3>1, WatchArguments
    <3>3. watching[d].addr = given[watching[d].id]
      BY <2>2, <3>1 DEF WatchInv, ReadsOwnWatch
    <3>4. watching[d].id # id
      BY <1>1, <3>2, <3>3, BoundsAssumption DEF Addrs, Nowhere
    <3> QED
      BY <1>1, <3>1, <3>2, <3>3, <3>4 DEF WatchInv
  <2> QED
    BY <2>1, <2>2 DEF ReadsOwnWatch
<1>5. DrawnOnce'
  <2>1. \A other \in WatchIds : other >= nextWatch' => given'[other] = Nowhere
    BY <1>1 DEF WatchInv, DrawnOnce, WatchFile, WatchIds
  <2>2. ASSUME NEW d \in Callers, watching'[d].op = "add"
        PROVE  /\ watching'[d].id < nextWatch'
               /\ given'[watching'[d].id] = Nowhere
               /\ \A e \in Callers \ {d} :
                      watching'[e].op = "add" => watching'[e].id # watching'[d].id
    <3>1. d # c /\ watching'[d] = watching[d]
      BY <1>2, <1>3, <2>2
    <3>2. watching[d].id # id /\ watching[d].id \in WatchIds
      BY <2>2, <3>1, WatchArguments DEF WatchInv, DrawnOnce, WatchFile
    <3> QED
      BY <1>1, <1>2, <1>3, <2>2, <3>1, <3>2 DEF WatchInv, DrawnOnce
  <2> QED
    BY <2>1, <2>2 DEF DrawnOnce
<1> QED
  BY <1>1, <1>4, <1>5 DEF WatchInv

LEMMA WatchRemoveInv == ASSUME WatchInv, NEW c \in Callers, NEW id \in WatchIds,
                               WatchRemove(c, id)
                        PROVE  WatchInv'
BY DEF WatchRemove, WatchInv, ReadsOwnWatch, DrawnOnce

LEMMA WatchCopyInv == ASSUME WatchInv, NEW c \in Callers, NEW id \in WatchIds,
                             WatchCopy(c, id)
                      PROVE  WatchInv'
<1>1. /\ watches[id] \in Addrs /\ watches[id] = given[id]
      /\ watching' = [watching EXCEPT ![c] = [op |-> "read", id |-> id, addr |-> watches[id]]]
      /\ UNCHANGED <<watches, nextWatch, given>>
  BY DEF WatchCopy, WatchInv, ReadsOwnWatch
<1>2. /\ watching' \in [Callers -> InWatch("add") \cup InWatch("read") \cup {Idle}]
      /\ watching'[c].op = "read" /\ watching'[c].addr = given[id] /\ watching'[c].id = id
      /\ \A d \in Callers \ {c} : watching'[d] = watching[d]
  BY <1>1 DEF WatchInv, InWatch
<1>3. ReadsOwnWatch'
  BY <1>1, <1>2 DEF WatchInv, ReadsOwnWatch
<1>4. DrawnOnce'
  BY <1>1, <1>2 DEF WatchInv, DrawnOnce
<1> QED
  BY <1>1, <1>2, <1>3, <1>4 DEF WatchInv

LEMMA WatchReadEndInv == ASSUME WatchInv, NEW c \in Callers, WatchReadEnd(c)
                         PROVE  WatchInv'
<1>1. /\ watching' = [watching EXCEPT ![c] = Idle]
      /\ UNCHANGED <<watches, nextWatch, given>>
  BY DEF WatchReadEnd
<1>2. /\ watching' \in [Callers -> InWatch("add") \cup InWatch("read") \cup {Idle}]
      /\ watching'[c].op = "idle"
      /\ \A d \in Callers \ {c} : watching'[d] = watching[d]
  BY <1>1 DEF WatchInv, Idle
<1>3. ReadsOwnWatch' /\ DrawnOnce'
  BY <1>1, <1>2 DEF WatchInv, ReadsOwnWatch, DrawnOnce
<1> QED
  BY <1>1, <1>2, <1>3 DEF WatchInv

-----------------------------------------------------------------------------
(* Results and watches together *)

\* A step of the core is one of the results, or leaves them alone.
LEMMA CoreSimulates == [CoreNext]_coreVars => [Next]_vars
<1> SUFFICES ASSUME [CoreNext]_coreVars PROVE [Next]_vars
  OBVIOUS
<1>1. ASSUME NEW c \in Callers, Call(c) \/ Proceed(c) PROVE Next
  BY <1>1 DEF Next
<1>2. ASSUME NEW c \in Callers, WatchProceed(c) PROVE UNCHANGED vars
  BY <1>2 DEF WatchProceed, WatchFile, WatchReadEnd
<1>3. ASSUME NEW c \in Callers, NEW addr \in Addrs, WatchDraw(c, addr) PROVE UNCHANGED vars
  BY <1>3 DEF WatchDraw
<1>4. ASSUME NEW c \in Callers, NEW id \in WatchIds, WatchRemove(c, id) \/ WatchCopy(c, id)
      PROVE  UNCHANGED vars
  BY <1>4 DEF WatchRemove, WatchCopy
<1>5. ASSUME NEW a \in Addrs, NEW v \in Values, Mutate(a, v) PROVE Next
  BY <1>5 DEF Next
<1>6. CASE UNCHANGED coreVars
  BY <1>6 DEF coreVars
<1> QED
  BY <1>1, <1>2, <1>3, <1>4, <1>5, <1>6 DEF CoreNext

\* The watch list changes by its own operations only.
LEMMA WatchStep == WatchInv /\ [CoreNext]_coreVars => WatchInv'
<1> SUFFICES ASSUME WatchInv, [CoreNext]_coreVars PROVE WatchInv'
  OBVIOUS
<1>1. CASE UNCHANGED watchVars
  BY <1>1 DEF watchVars, WatchInv, ReadsOwnWatch, DrawnOnce
<1>2. ASSUME NEW c \in Callers, WatchProceed(c) PROVE WatchInv'
  BY <1>2, WatchFileInv, WatchReadEndInv DEF WatchProceed
<1>3. ASSUME NEW c \in Callers, NEW addr \in Addrs, WatchDraw(c, addr) PROVE WatchInv'
  BY <1>3, WatchDrawInv
<1>4. ASSUME NEW c \in Callers, NEW id \in WatchIds, WatchRemove(c, id) \/ WatchCopy(c, id)
      PROVE  WatchInv'
  BY <1>4, WatchRemoveInv, WatchCopyInv
<1>5. UNCHANGED coreVars => UNCHANGED watchVars
  BY DEF coreVars
<1> QED
  BY <1>1, <1>2, <1>3, <1>4, <1>5 DEF CoreNext

\* Nobody is in two calls.
LEMMA OneCallStep == CacheInv /\ WatchInv /\ OneCall /\ [CoreNext]_coreVars => OneCall'
<1> SUFFICES ASSUME CacheInv, WatchInv, OneCall, [CoreNext]_coreVars PROVE OneCall'
  OBVIOUS
<1> USE DEF OneCall
<1>1. ASSUME NEW c \in Callers, watching[c] = Idle, Call(c), UNCHANGED watchVars
      PROVE  OneCall'
  <2>1. watching' = watching
    BY <1>1 DEF watchVars
  <2>2. \A d \in Callers \ {c} : call'[d] = call[d]
    BY <1>1 DEF Call, BeginFirst, BeginRefine, BeginWrite, ScanClear, Begin, CacheInv, TypeOK
  <2> QED
    BY <1>1, <2>1, <2>2
<1>2. ASSUME NEW c \in Callers, Proceed(c), UNCHANGED watchVars PROVE OneCall'
  <2>1. watching' = watching
    BY <1>2 DEF watchVars
  <2>2. \A d \in Callers : call'[d] \in {call[d], Idle}
    BY <1>2 DEF Proceed, ScanSlot, GroupSlot, StoreFirst, RefineEntry, ReadFails, StoreRefined,
                WriteEntry, EndWrite, Look, Return, CacheInv, TypeOK
  <2> QED
    BY <2>1, <2>2
<1>3. ASSUME NEW c \in Callers, WatchProceed(c) PROVE OneCall'
  BY <1>3 DEF WatchProceed, WatchFile, WatchReadEnd, vars, WatchInv
<1>4. ASSUME NEW c \in Callers, NEW addr \in Addrs, WatchDraw(c, addr) PROVE OneCall'
  BY <1>4 DEF WatchDraw, Rests, vars, WatchInv
<1>5. ASSUME NEW c \in Callers, NEW id \in WatchIds, WatchRemove(c, id) \/ WatchCopy(c, id)
      PROVE  OneCall'
  BY <1>5 DEF WatchRemove, WatchCopy, Rests, vars, WatchInv
<1>6. ASSUME NEW a \in Addrs, NEW v \in Values, Mutate(a, v), UNCHANGED watchVars
      PROVE  OneCall'
  BY <1>6 DEF Mutate, watchVars
<1>7. CASE UNCHANGED coreVars
  BY <1>7 DEF coreVars, vars, watchVars
<1> QED
  BY <1>1, <1>2, <1>3, <1>4, <1>5, <1>6, <1>7 DEF CoreNext

\* The invariant holds from the beginning and is kept.
THEOREM CoreInductive == CoreSpec => []CoreInv
<1>1. CoreInit => CoreInv
  <2> SUFFICES ASSUME CoreInit PROVE CoreInv
    OBVIOUS
  <2>1. CacheInv
    BY CacheInit DEF CoreInit
  <2>2. WatchInv
    BY WatchesAssumption DEF CoreInit, WatchInv, ReadsOwnWatch, DrawnOnce, Idle
  <2> QED
    BY <2>1, <2>2 DEF CoreInv, OneCall, CoreInit
<1>2. CoreInv /\ [CoreNext]_coreVars => CoreInv'
  BY CoreSimulates, CacheStep, WatchStep, OneCallStep DEF CoreInv
<1> QED
  BY <1>1, <1>2, PTL DEF CoreSpec

\* What the threads share keeps its types, and nobody is in two calls.
THEOREM CoreTypes == CoreSpec => []CoreTypeOK
<1>1. CoreInv => CoreTypeOK
  BY DEF CoreInv, CacheInv, WatchInv, OneCall, CoreTypeOK
<1> QED
  BY <1>1, CoreInductive, PTL

\* No bulk write and no refinement goes through results that were replaced.
THEOREM WritesStayListed == CoreSpec => []WritesGoToListed
<1>1. CoreInv => WritesGoToListed
  BY DEF CoreInv, CacheInv
<1> QED
  BY <1>1, CoreInductive, PTL

\* A watch_read that has unlocked reads the address of its own watch.
THEOREM ReadsStayOwn == CoreSpec => []ReadsOwnWatch
<1>1. CoreInv => ReadsOwnWatch
  BY DEF CoreInv, WatchInv
<1> QED
  BY <1>1, CoreInductive, PTL

\* No refinement loses the scan of another thread, or brings back what it cleared.
THEOREM RefinesFilter == CoreSpec => RefineOnlyFilters
<1>1. ASSUME CacheInv, Next, NEW c \in Callers, call[c].op = "refine", call'[c] = Idle
      PROVE  Listed(cache') \subseteq Listed(cache)
  <2>1. c \in lock /\ lock # {}
    BY <1>1 DEF CacheInv, Exclusion
  <2>2. ASSUME NEW d \in Callers, Call(d) PROVE Listed(cache') \subseteq Listed(cache)
    BY <2>1, <2>2 DEF Call, BeginFirst, BeginRefine, BeginWrite, ScanClear, LockFree, Free
  <2>3. ASSUME NEW d \in Callers, Proceed(d) PROVE Listed(cache') \subseteq Listed(cache)
    <3>1. CASE StoreRefined(d)
      <4>1. call[d].op = "refine" /\ cache' = out[d]
        BY <3>1 DEF StoreRefined
      <4> QED
        BY <1>1, <4>1 DEF CacheInv, KeptAreListed
    <3>2. ~StoreFirst(d)
      BY <2>1 DEF StoreFirst, LockFree, Free
    <3>3. CASE ~StoreRefined(d)
      BY <2>3, <3>2, <3>3 DEF Proceed, ScanSlot, GroupSlot, RefineEntry, ReadFails, WriteEntry,
                              EndWrite, Look
    <3> QED
      BY <3>1, <3>3
  <2>4. ASSUME NEW a \in Addrs, NEW v \in Values, Mutate(a, v)
        PROVE  Listed(cache') \subseteq Listed(cache)
    BY <2>4 DEF Mutate
  <2> QED
    BY <1>1, <2>2, <2>3, <2>4 DEF Next
<1>2. CacheInv /\ [Next]_vars =>
          [\A c \in Callers : call[c].op = "refine" /\ call'[c] = Idle
                                  => Listed(cache') \subseteq Listed(cache)]_vars
  BY <1>1
<1>3. CoreInv => CacheInv
  BY DEF CoreInv
<1> QED
  BY <1>2, <1>3, CoreInductive, CoreSimulates, PTL DEF CoreSpec, RefineOnlyFilters

-----------------------------------------------------------------------------
(* What scans keep *)

\* A comparison that is not relative does not depend on the previous value.
LEMMA PreviousUnused == ASSUME NEW q \in Query, q.mode \notin Relative,
                               NEW cur, NEW prev, NEW other
                        PROVE  Outcomes(q, cur, prev) = Outcomes(q, cur, other)
<1>1. ASSUME NEW c, NEW p, NEW o, NEW t, NEW seconds
      PROVE  Compared(q, c, p, t, seconds) = Compared(q, c, o, t, seconds)
  <2>1. q.mode \in {"EXACT", "UNKNOWN", "GREATER", "LESS", "BETWEEN", "FUZZY"}
    BY DEF Query, AllModes, Relative, Targeted, Deltas
  <2>2. CASE q.mode = "EXACT"
    BY <2>2 DEF Compared
  <2>3. CASE q.mode = "UNKNOWN"
    BY <2>3 DEF Compared
  <2>4. CASE q.mode = "GREATER"
    BY <2>4 DEF Compared
  <2>5. CASE q.mode = "LESS"
    BY <2>5 DEF Compared
  <2>6. CASE q.mode = "BETWEEN"
    BY <2>6 DEF Compared
  <2>7. CASE q.mode = "FUZZY"
    BY <2>7 DEF Compared
  <2> QED
    BY <2>1, <2>2, <2>3, <2>4, <2>5, <2>6, <2>7
<1> QED
  BY <1>1 DEF Outcomes

\* An address whose slot is looked at is kept if the documented relation holds.
LEMMA LookAnswers ==
    ASSUME CacheInv, NEW c \in Callers, left[c] # {}, NEW hit \in BOOLEAN,
           NEW result \in Entry, Look(c, hit, result)
    PROVE  out'[c][Lowest(c)] # None <=> hit
<1>1. Lowest(c) \in left[c] /\ Lowest(c) \in Addrs
  BY LowestIn DEF CacheInv
<1>2. out'[c][Lowest(c)] = IF hit THEN result ELSE out[c][Lowest(c)]
  BY <1>1, LookCall DEF CacheInv
<1>3. out[c][Lowest(c)] = None
  BY <1>1 DEF CacheInv, LeftIsOpen
<1> QED
  BY <1>2, <1>3, Entries

\* A first scan keeps a slot exactly if it holds what was asked for.
LEMMA ScanSlotKeeps ==
    ASSUME CacheInv, NEW c \in Callers, ScanSlot(c),
           NEW n \in Numbers(call[c].query.type), NEW p \in Numbers(call[c].query.type)
    PROVE  AnsweredAs(c, Lowest(c), n, p)
<1> DEFINE q == call[c].query
           a == Lowest(c)
<1> SUFFICES ASSUME memory[a] = Stored(q, n), q.mode \notin Relative, Settled(q, n, p)
             PROVE  out'[c][a] # None <=> Documented(q, n, p)
  BY DEF AnsweredAs, ScanSlot
<1>1. q \in Query /\ left[c] # {}
  BY Arguments, QueriesAssumption DEF ScanSlot, CacheInv
<1>2. Outcomes(q, memory[a], NoPrevious) = {Documented(q, n, p)}
  <2>1. Outcomes(q, memory[a], Stored(q, p)) = {Documented(q, n, p)}
    BY <1>1, MatchDocumented DEF MatchIsDocumented
  <2>2. Outcomes(q, memory[a], NoPrevious) = Outcomes(q, memory[a], Stored(q, p))
    BY <1>1, PreviousUnused
  <2> QED
    BY <2>1, <2>2
<1>3. PICK hit \in Outcomes(q, memory[a], NoPrevious) :
          Look(c, hit, Result(SizeOf[q.type], memory[a]))
  BY DEF ScanSlot
<1>4. hit \in BOOLEAN
  BY <1>1, <1>3, OutcomesBoolean
<1>5. Result(SizeOf[q.type], memory[a]) \in Entry
  BY <1>1, LowestIn, Entries DEF Query, CacheInv, TypeOK
<1>6. out'[c][a] # None <=> hit
  BY <1>1, <1>3, <1>4, <1>5, LookAnswers
<1>7. hit = Documented(q, n, p)
  BY <1>2, <1>3
<1> QED
  BY <1>6, <1>7

\* A refinement does, by comparing with what the last scan saw.
LEMMA RefineEntryKeeps ==
    ASSUME CacheInv, NEW c \in Callers, RefineEntry(c),
           NEW n \in Numbers(call[c].query.type), NEW p \in Numbers(call[c].query.type)
    PROVE  AnsweredAs(c, Lowest(c), n, p)
<1> DEFINE q == call[c].query
           a == Lowest(c)
           size == SizeOf[q.type]
<1> SUFFICES ASSUME memory[a] = Stored(q, n), cache[a].width >= size,
                    cache[a].was = Stored(q, p), Settled(q, n, p)
             PROVE  out'[c][a] # None <=> Documented(q, n, p)
  BY DEF AnsweredAs, RefineEntry
<1>1. q \in Query /\ left[c] # {}
  BY Arguments, QueriesAssumption DEF RefineEntry, CacheInv
<1>2. a \in Addrs
  BY <1>1, LowestIn DEF CacheInv
<1>3. Previous(cache[a], size) = Stored(q, p)
  BY <1>2 DEF Previous, CacheInv, EntriesTrue
<1>4. Outcomes(q, memory[a], Previous(cache[a], size)) = {Documented(q, n, p)}
  BY <1>1, <1>3, MatchDocumented DEF MatchIsDocumented
<1>5. PICK hit \in Outcomes(q, memory[a], Previous(cache[a], size)) :
          Look(c, hit, Result(size, memory[a]))
  BY DEF RefineEntry
<1>6. hit \in BOOLEAN
  BY <1>1, <1>5, OutcomesBoolean
<1>7. Result(size, memory[a]) \in Entry
  BY <1>1, <1>2, Entries DEF Query, CacheInv, TypeOK
<1>8. out'[c][a] # None <=> hit
  BY <1>1, <1>5, <1>6, <1>7, LookAnswers
<1>9. hit = Documented(q, n, p)
  BY <1>4, <1>5
<1> QED
  BY <1>8, <1>9

\* Whatever threads and the scanned process do: a scan keeps exactly the addresses
\* it is asked for, for any width of values, type, mode, key and target.
THEOREM KeepsAsAsked == CoreSpec => KeepsExactly
<1>1. CacheInv =>
          \A c \in Callers : ScanSlot(c) \/ RefineEntry(c) =>
              \A n, p \in Numbers(call[c].query.type) : AnsweredAs(c, Lowest(c), n, p)
  BY ScanSlotKeeps, RefineEntryKeeps
<1>2. CoreInv => CacheInv
  BY DEF CoreInv
<1> QED
  BY <1>1, <1>2, CoreInductive, PTL DEF KeepsExactly

-----------------------------------------------------------------------------
(* Pages *)

\* The number of results before an address.
Rank(list, a) == Cardinality({b \in Listed(list) : b < a})

\* Results are finitely many, and each has its place among them.
LEMMA RanksAreNumbers ==
    ASSUME NEW list
    PROVE  /\ Cardinality(Listed(list)) \in 0 .. Last + 1
           /\ \A a \in Listed(list) :
                  Rank(list, a) \in 0 .. Cardinality(Listed(list)) - 1
<1>1. Last \in Nat /\ Listed(list) \in SUBSET Addrs
  BY BoundsAssumption DEF Listed
<1>2. IsFiniteSet(Addrs) /\ Cardinality(Addrs) = Last + 1
  BY <1>1, FS_Interval DEF Addrs
<1>3. /\ IsFiniteSet(Listed(list)) /\ Cardinality(Listed(list)) <= Last + 1
  BY <1>1, <1>2, FS_Subset
<1>4. Cardinality(Listed(list)) \in Nat
  BY <1>3, FS_CardinalityType
<1>5. ASSUME NEW a \in Listed(list)
      PROVE  Rank(list, a) \in 0 .. Cardinality(Listed(list)) - 1
  <2> DEFINE before == {b \in Listed(list) : b < a}
  <2>1. /\ IsFiniteSet(Listed(list) \ {a})
        /\ Cardinality(Listed(list) \ {a}) = Cardinality(Listed(list)) - 1
    BY <1>3, FS_RemoveElement
  <2>2. a \in Nat
    BY <1>1 DEF Addrs
  <2>3. before \in SUBSET (Listed(list) \ {a})
    BY <2>2
  <2> HIDE DEF before
  <2>4. IsFiniteSet(before) /\ Cardinality(before) <= Cardinality(Listed(list)) - 1
    BY <2>1, <2>3, FS_Subset
  <2>5. Cardinality(before) \in Nat
    BY <2>4, FS_CardinalityType
  <2>6. Rank(list, a) = Cardinality(before)
    BY DEF Rank, before
  <2> QED
    BY <1>4, <2>4, <2>5, <2>6
<1> QED
  BY <1>1, <1>3, <1>4, <1>5

\* A page holds the results of its stretch, and nothing wraps.
LEMMA PageIsStretch ==
    ASSUME NEW list, NEW i \in 0 .. Last + 1, NEW count \in 1 .. Last + 2
    PROVE  Page(list, i * count, count) =
               {a \in Listed(list) : /\ i * count <= Rank(list, a)
                                     /\ Rank(list, a) < i * count + count}
<1> DEFINE offset == i * count
           total  == Cardinality(Listed(list))
           start  == PageStart(total, offset)
           end    == PageEnd(total, start, count)
<1>1. /\ Last \in Nat /\ SizeSpan \in Nat \ {0} /\ total \in 0 .. Last + 1
      /\ i \in Nat /\ count \in Nat \ {0} /\ i <= Last + 1 /\ count <= Last + 2
  BY BoundsAssumption, RanksAreNumbers
<1>2. offset \in Nat /\ offset < SizeSpan /\ 2 * (Last + 2) <= SizeSpan
  <2> DEFINE n    == Last + 2
             most == n * n
  <2>1. n \in Nat /\ i <= n /\ 2 <= n /\ count <= n
    BY <1>1
  <2>2. most < SizeSpan
    BY PagingAssumption
  <2> HIDE DEF n
  <2>3. most \in Nat
    BY <2>1
  <2>4. offset \in Nat /\ offset <= most
    BY <1>1, <2>1, ProductsGrow
  <2>5. 2 * n <= most
    BY <2>1, ProductsGrow
  <2> HIDE DEF most, offset
  <2>6. 2 * n <= SizeSpan /\ offset < SizeSpan
    BY <1>1, <2>1, <2>2, <2>3, <2>4, <2>5
  <2> QED
    BY <2>4, <2>6 DEF n
<1> HIDE DEF offset, total
<1>3. start = IF offset < total THEN offset ELSE total
  <2>1. offset % SizeSpan = offset
    BY <1>1, <1>2
  <2> QED
    BY <2>1 DEF PageStart, Least, Unsigned
<1>4. start \in Nat /\ start <= total
  BY <1>1, <1>2, <1>3
<1> HIDE DEF start
<1>5. end = IF start + count < total THEN start + count ELSE total
  <2>1. /\ count \in 0 .. SizeSpan - 1 /\ start + count \in 0 .. SizeSpan - 1
    BY <1>1, <1>2, <1>4
  <2>2. count % SizeSpan = count /\ (start + count) % SizeSpan = start + count
    BY <1>1, <2>1
  <2> QED
    BY <2>2 DEF PageEnd, Least, Unsigned
<1> HIDE DEF end
<1>6. ASSUME NEW a \in Listed(list)
      PROVE  Rank(list, a) \in start .. end - 1 <=>
                 offset <= Rank(list, a) /\ Rank(list, a) < offset + count
  <2>1. Rank(list, a) \in 0 .. total - 1
    BY RanksAreNumbers DEF total
  <2> QED
    BY <1>1, <1>2, <1>3, <1>4, <1>5, <2>1
<1>7. Page(list, offset, count) = {a \in Listed(list) : Rank(list, a) \in start .. end - 1}
  BY DEF Page, Rank, start, end, total
<1> QED
  BY <1>6, <1>7 DEF offset

\* Whoever pages through any results, by any number at a time, gets each once,
\* and at last an empty page: no sum or product wraps on the way.
THEOREM PagesAreComplete == CoreSpec => []PagesListEachOnce
<1>1. PagesListEachOnce
  <2> SUFFICES ASSUME NEW count \in 1 .. Last + 2
               PROVE  LET Nth(i) == Page(cache, i * count, count)
                      IN  /\ UNION {Nth(i) : i \in 0 .. Last} = Listed(cache)
                          /\ \A i, j \in 0 .. Last + 1 : i # j => Nth(i) \cap Nth(j) = {}
                          /\ Nth(Last + 1) = {}
    BY DEF PagesListEachOnce
  <2> DEFINE Nth(i) == Page(cache, i * count, count)
  <2>1. Last \in Nat /\ count \in Nat \ {0}
    BY BoundsAssumption
  <2>2. ASSUME NEW a \in Listed(cache)
        PROVE  \E home \in 0 .. Last :
                   \A i \in 0 .. Last + 1 : a \in Nth(i) <=> i = home
    <3>1. Rank(cache, a) \in Nat /\ Rank(cache, a) <= Last
      <4>1. /\ Cardinality(Listed(cache)) \in 0 .. Last + 1
            /\ Rank(cache, a) \in 0 .. Cardinality(Listed(cache)) - 1
        BY RanksAreNumbers
      <4> QED
        BY <2>1, <4>1
    <3>2. PICK home \in 0 .. Rank(cache, a) :
              \A i \in Nat : i * count <= Rank(cache, a) /\ Rank(cache, a) < i * count + count
                                 <=> i = home
      BY <2>1, <3>1, InOneStretch
    <3>3. ASSUME NEW i \in 0 .. Last + 1 PROVE a \in Nth(i) <=> i = home
      <4>1. i \in Nat
        BY <2>1
      <4>2. a \in Nth(i) <=> i * count <= Rank(cache, a) /\ Rank(cache, a) < i * count + count
        BY PageIsStretch
      <4> QED
        BY <3>2, <4>1, <4>2
    <3>4. home \in 0 .. Last
      BY <2>1, <3>1, <3>2
    <3> QED
      BY <3>3, <3>4
  <2>3. \A i \in 0 .. Last + 1 : Nth(i) \subseteq Listed(cache)
    BY DEF Page
  <2> HIDE DEF Nth
  <2>4. UNION {Nth(i) : i \in 0 .. Last} = Listed(cache)
    <3>1. \A i \in 0 .. Last : i \in 0 .. Last + 1
      BY <2>1
    <3> QED
      BY <2>2, <2>3, <3>1
  <2>5. \A i, j \in 0 .. Last + 1 : i # j => Nth(i) \cap Nth(j) = {}
    BY <2>2, <2>3
  <2>6. Nth(Last + 1) = {}
    <3>1. Last + 1 \in 0 .. Last + 1 /\ Last + 1 \notin 0 .. Last
      BY <2>1
    <3> QED
      BY <2>2, <2>3, <3>1
  <2> QED
    BY <2>4, <2>5, <2>6 DEF Nth
<1> QED
  BY <1>1, PTL

-----------------------------------------------------------------------------
(* The mutex *)

\* Whoever holds the mutex keeps it, with its call, until it returns: nobody
\* else takes the mutex or releases it, and each step of the holder leaves it
\* fewer addresses to look at, or is its return once there is none.
HolderGoesOn ==
    \A h \in Callers : lock = {h} =>
        \/ /\ Proceed(h) /\ lock' = {h} /\ call'[h] = call[h]
           /\ left'[h] = left[h] \ {Lowest(h)} /\ Lowest(h) \in left[h]
        \/ Proceed(h) /\ left[h] = {} /\ lock' = Free /\ call'[h] = Idle
        \/ lock' = {h} /\ call'[h] = call[h] /\ left'[h] = left[h]

\* Its own step.
LEMMA HolderSteps ==
    ASSUME CacheInv, NEW h \in Callers, lock = {h}, Proceed(h)
    PROVE  \/ /\ lock' = {h} /\ call'[h] = call[h]
              /\ left'[h] = left[h] \ {Lowest(h)} /\ Lowest(h) \in left[h]
           \/ left[h] = {} /\ lock' = Free /\ call'[h] = Idle
<1>1. /\ call[h].op \in {"refine", "write"} /\ lock # Free
      /\ left \in [Callers -> SUBSET Addrs] /\ TypeOK
  BY DEF CacheInv, Exclusion, Free, TypeOK
<1>2. CASE RefineEntry(h) \/ ReadFails(h) \/ WriteEntry(h)
  <2>1. left[h] # {}
    BY <1>2 DEF RefineEntry, ReadFails, WriteEntry
  <2>2. /\ lock' = {h} /\ call'[h] = call[h]
        /\ left' = [left EXCEPT ![h] = left[h] \ {Lowest(h)}]
    BY <1>2 DEF RefineEntry, ReadFails, WriteEntry, Look
  <2>3. Lowest(h) \in left[h]
    BY <1>1, <2>1, LowestIn
  <2> QED
    BY <1>1, <2>2, <2>3
<1>3. CASE StoreRefined(h) \/ EndWrite(h)
  <2>1. left[h] = {} /\ lock' = Free /\ Return(h)
    BY <1>3 DEF StoreRefined, EndWrite, Release
  <2> QED
    BY <1>1, <2>1, ReturnCall
<1>4. ~(ScanSlot(h) \/ GroupSlot(h) \/ StoreFirst(h))
  BY <1>1 DEF ScanSlot, GroupSlot, StoreFirst
<1> QED
  BY <1>2, <1>3, <1>4 DEF Proceed

\* The step of another caller.
LEMMA OthersStep ==
    ASSUME CacheInv, NEW h \in Callers, lock = {h}, NEW d \in Callers, d # h,
           Call(d) \/ Proceed(d)
    PROVE  lock' = {h} /\ call'[h] = call[h] /\ left'[h] = left[h]
<1>1. /\ lock # Free /\ call[d].op \notin {"refine", "write"}
      /\ left \in [Callers -> SUBSET Addrs] /\ call \in [Callers -> Calls \cup {Idle}]
  BY DEF CacheInv, Exclusion, Free, TypeOK
<1>2. CASE Call(d)
  <2>1. \E k : BeginFirst(d, k)
    BY <1>1, <1>2 DEF Call, BeginRefine, BeginWrite, Acquire, ScanClear, LockFree
  <2> QED
    BY <1>1, <2>1 DEF BeginFirst, Begin
<1>3. CASE Proceed(d)
  <2>1. ScanSlot(d) \/ GroupSlot(d) \/ ReadFails(d)
    BY <1>1, <1>3 DEF Proceed, StoreFirst, LockFree, RefineEntry, StoreRefined, WriteEntry,
                      EndWrite
  <2>2. UNCHANGED <<lock, call>> /\ left' = [left EXCEPT ![d] = @ \ {Lowest(d)}]
    BY <2>1 DEF ScanSlot, GroupSlot, ReadFails, Look
  <2> QED
    BY <1>1, <2>2
<1> QED
  BY <1>2, <1>3

\* The mutex is not taken from whoever holds it, and its steps are as many as it
\* has addresses left, whatever the others do: the half of LockIsReleased that
\* needs no fairness.
THEOREM HoldersGoOn == CoreSpec => [][HolderGoesOn]_coreVars
<1>1. ASSUME CoreInv, [Next]_vars PROVE HolderGoesOn
  <2> SUFFICES ASSUME NEW h \in Callers, lock = {h}
               PROVE  \/ /\ Proceed(h) /\ lock' = {h} /\ call'[h] = call[h]
                         /\ left'[h] = left[h] \ {Lowest(h)} /\ Lowest(h) \in left[h]
                      \/ Proceed(h) /\ left[h] = {} /\ lock' = Free /\ call'[h] = Idle
                      \/ lock' = {h} /\ call'[h] = call[h] /\ left'[h] = left[h]
    BY DEF HolderGoesOn
  <2>1. CacheInv /\ call[h].op \in {"refine", "write"}
    BY <1>1 DEF CoreInv, CacheInv, Exclusion
  <2>2. CASE Proceed(h)
    BY <2>1, <2>2, HolderSteps
  <2>3. ~Call(h)
    BY <2>1 DEF Call, BeginFirst, BeginRefine, BeginWrite, Begin, ScanClear, Idle
  <2>4. ASSUME NEW d \in Callers, d # h, Call(d) \/ Proceed(d)
        PROVE  lock' = {h} /\ call'[h] = call[h] /\ left'[h] = left[h]
    BY <2>1, <2>4, OthersStep
  <2>5. CASE UNCHANGED vars
    BY <2>5 DEF vars
  <2>6. ASSUME NEW a \in Addrs, NEW v \in Values, Mutate(a, v)
        PROVE  lock' = {h} /\ call'[h] = call[h] /\ left'[h] = left[h]
    BY <2>6 DEF Mutate
  <2> QED
    BY <1>1, <2>2, <2>3, <2>4, <2>5, <2>6 DEF Next
<1>2. [CoreNext]_coreVars => [Next]_vars
  BY CoreSimulates
<1> QED
  BY <1>1, <1>2, CoreInductive, PTL DEF CoreSpec
=============================================================================
