------------------------------ MODULE ScanCache -----------------------------
(***************************************************************************)
(* The cache of scan results in src/jni/jni_entry.cpp (s_scan_results      *)
(* under s_scan_mutex), shared by every thread that calls NativeCore:      *)
(* first scans fill it, refinements filter it, and bulk writes go to the   *)
(* addresses it lists.  The scanned process changes its memory meanwhile.  *)
(*                                                                         *)
(* A first scan works on private results and locks only to store them.  A  *)
(* refinement and a bulk write hold the lock from beginning to end, one    *)
(* read or write of the other process per step.                            *)
(***************************************************************************)
EXTENDS ValueMatch

CONSTANTS Callers,        \* threads that call NativeCore
          Last,           \* addresses are 0 .. Last
          Values,         \* what the scanned process keeps there, and writes
          FirstQueries,   \* of scanFirst and scanFuzzyFirst
          RefineQueries,  \* of scanRefine and scanFuzzyRefine
          Offsets,        \* addrOffset arguments of writeAllOffset, 0: writeAll
          SizeSpan        \* number of values of a size_t

ASSUME BoundsAssumption  == Last \in Nat /\ SizeSpan \in Nat \ {0}
ASSUME ValuesAssumption  == Values \subseteq Raw /\ 0 \in Values
ASSUME QueriesAssumption == FirstQueries \subseteq Query /\ RefineQueries \subseteq Query
ASSUME OffsetsAssumption == Offsets \subseteq Int

\* Whoever pages through the results counts in jints: no offset wraps a size_t.
ASSUME PagingAssumption  == (Last + 2) * (Last + 2) < SizeSpan

Addrs  == 0 .. Last
Widths == {0} \cup {SizeOf[type] : type \in Types}

\* A ScanResult: value.size() and the value in these bytes; group results have
\* none.  What the scan found there (was) is kept for the properties only.
\* A number has the same pattern at every width.
Entry == [width : Widths, value : Values, was : Values]
None  == [width |-> -1, value |-> 0, was |-> 0]
Lists == [Addrs -> Entry \cup {None}]
Empty == [a \in Addrs |-> None]

Idle    == [op |-> "idle"]
Group   == [op |-> "group"]
Calls   == [op : {"first"}, query : FirstQueries] \cup {Group}
           \cup [op : {"refine"}, query : RefineQueries]
           \cup [op : {"write"}, offset : Offsets, value : Values]

Free == {}      \* the mutex is held by the callers in lock, at most one

VARIABLES memory,       \* the memory of the scanned process
          lock,         \* who holds s_scan_mutex
          cache,        \* s_scan_results, by address
          call,         \* the call each caller is in
          left,         \* addresses it has still to look at
          out           \* its results so far

vars == <<memory, lock, cache, call, left, out>>

Listed(list) == {a \in Addrs : list[a] # None}

Init == /\ memory \in [Addrs -> Values]
        /\ lock = Free
        /\ cache = Empty
        /\ call = [c \in Callers |-> Idle]
        /\ left = [c \in Callers |-> {}]
        /\ out = [c \in Callers |-> Empty]

\* Mutant: the bytes of the value are not copied.
ResultUnfilled(size, v) == [width |-> size, value |-> 0, was |-> v]

\* The ScanResult of a slot that holds v.
Result(size, v) == [width |-> size, value |-> v, was |-> v]

\* results are visited in the order of their addresses
Lowest(c) == CHOOSE a \in left[c] : \A b \in left[c] : a <= b

\* Mutant: short critical sections do without the lock.
LockIgnored == TRUE

\* The lock can be had, for a critical section of one step.
LockFree == lock = Free

\* Mutant: the lock is taken without waiting for it.
AcquireAnyway(c) == lock' = lock \cup {c}

Acquire(c) == /\ lock = Free
              /\ lock' = {c}

\* Mutant: a return that does not unlock.
ReleaseNot == lock' = lock

Release == lock' = Free

Begin(c, k, addrs) ==
    /\ call[c] = Idle
    /\ call' = [call EXCEPT ![c] = k]
    /\ left' = [left EXCEPT ![c] = addrs]
    /\ out'  = [out EXCEPT ![c] = Empty]

Return(c) == /\ call' = [call EXCEPT ![c] = Idle]
             /\ left' = [left EXCEPT ![c] = {}]
             /\ out'  = [out EXCEPT ![c] = Empty]

-----------------------------------------------------------------------------
(* First scans: scanFirst, scanFuzzyFirst, scanGroup *)

BeginFirst(c, k) ==
    /\ Begin(c, k, Addrs)
    /\ UNCHANGED <<memory, lock, cache>>

\* One slot is read, and kept if it matches.
Look(c, hit, result) ==
    /\ out' = IF hit THEN [out EXCEPT ![c][Lowest(c)] = result] ELSE out
    /\ left' = [left EXCEPT ![c] = @ \ {Lowest(c)}]
    /\ UNCHANGED <<memory, lock, cache, call>>

ScanSlot(c) ==
    /\ call[c].op = "first" /\ left[c] # {}
    /\ LET q == call[c].query
           v == memory[Lowest(c)]
       IN  \E hit \in Outcomes(q, v, NoPrevious) : Look(c, hit, Result(SizeOf[q.type], v))

\* A group begins here or not: see GroupScan.
GroupSlot(c) ==
    /\ call[c].op = "group" /\ left[c] # {}
    /\ \E hit \in BOOLEAN : Look(c, hit, Result(0, 0))

\* The slot or the entry cannot be read: it is passed over, or dropped.
ReadFails(c) ==
    /\ call[c].op \in {"first", "refine"} /\ left[c] # {}
    /\ Look(c, FALSE, None)

\* s_scan_results = std::move(results) under the lock.
StoreFirst(c) ==
    /\ call[c].op \in {"first", "group"} /\ left[c] = {}
    /\ LockFree
    /\ cache' = out[c]
    /\ Return(c)
    /\ UNCHANGED <<memory, lock>>

-----------------------------------------------------------------------------
(* Refinements: scanRefine, scanFuzzyRefine *)

BeginRefine(c, query) ==
    /\ Acquire(c)
    /\ Begin(c, [op |-> "refine", query |-> query], Listed(cache))
    /\ UNCHANGED <<memory, cache>>

\* prev_val: the stored value, when it has enough bytes.
Previous(entry, size) == IF entry.width >= size THEN entry.value ELSE NoPrevious

\* One entry is read again, and kept with its new value if it matches.
RefineEntry(c) ==
    /\ call[c].op = "refine" /\ left[c] # {}
    /\ LET q == call[c].query
           v == memory[Lowest(c)]
           size == SizeOf[q.type]
       IN  \E hit \in Outcomes(q, v, Previous(cache[Lowest(c)], size)) :
               Look(c, hit, Result(size, v))

StoreRefined(c) ==
    /\ call[c].op = "refine" /\ left[c] = {}
    /\ cache' = out[c]
    /\ Release
    /\ Return(c)
    /\ UNCHANGED memory

-----------------------------------------------------------------------------
(* Bulk writes: writeAll, writeAllOffset *)

\* The lock is taken and the results are gone through.
BeginWrite(c, offset, value) ==
    /\ Acquire(c)
    /\ Begin(c, [op |-> "write", offset |-> offset, value |-> value],
             Listed(cache))
    /\ UNCHANGED <<memory, cache>>

\* write_mem: it may be refused, as it is outside the memory of the process.
WriteMem(a, v) == \/ UNCHANGED memory
                  \/ a \in Addrs /\ memory' = [memory EXCEPT ![a] = v]

\* One address is written; the others follow whether that succeeds or not.
WriteEntry(c) ==
    /\ call[c].op = "write" /\ left[c] # {}
    /\ WriteMem(Lowest(c) + call[c].offset, call[c].value)
    /\ left' = [left EXCEPT ![c] = @ \ {Lowest(c)}]
    /\ UNCHANGED <<lock, cache, call, out>>

\* The number of writes is returned.
EndWrite(c) ==
    /\ call[c].op = "write" /\ left[c] = {}
    /\ Release
    /\ Return(c)
    /\ UNCHANGED <<memory, cache>>

-----------------------------------------------------------------------------
(* Pages: getScanResults, as often as there are results by getScanCount *)

\* static_cast<size_t>, std::min
Unsigned(n) == n % SizeSpan
Least(m, n) == IF m < n THEN m ELSE n

\* Mutant: count is taken for the end.
PageEndCount(total, start, count) == Least(Unsigned(count), total)

PageStart(total, offset) == Least(Unsigned(offset), total)
PageEnd(total, start, count) == Least(Unsigned(start + Unsigned(count)), total)

\* The addresses copied out: results start to end - 1.
Page(list, offset, count) ==
    LET total == Cardinality(Listed(list))
        start == PageStart(total, offset)
    IN  {a \in Listed(list) : Cardinality({b \in Listed(list) : b < a})
                                 \in start .. PageEnd(total, start, count) - 1}

-----------------------------------------------------------------------------
ScanClear(c) == /\ call[c] = Idle
                /\ LockFree
                /\ cache' = Empty
                /\ UNCHANGED <<memory, lock, call, left, out>>

\* The scanned process changes one of its values.
Mutate(a, v) == /\ memory' = [memory EXCEPT ![a] = v]
                /\ UNCHANGED <<lock, cache, call, left, out>>

Call(c) == \/ \E query \in FirstQueries : BeginFirst(c, [op |-> "first", query |-> query])
           \/ BeginFirst(c, Group)
           \/ \E query \in RefineQueries : BeginRefine(c, query)
           \/ \E offset \in Offsets, value \in Values : BeginWrite(c, offset, value)
           \/ ScanClear(c)

Proceed(c) == \/ ScanSlot(c) \/ GroupSlot(c) \/ StoreFirst(c)
              \/ RefineEntry(c) \/ StoreRefined(c) \/ ReadFails(c)
              \/ WriteEntry(c) \/ EndWrite(c)

Next == \/ \E c \in Callers : Call(c) \/ Proceed(c)
        \/ \E a \in Addrs, v \in Values : Mutate(a, v)

Spec == Init /\ [][Next]_vars

\* A thread that holds the mutex, or does not need it, runs on.  Nothing is
\* assumed of who gets a free mutex.
FairSpec == Spec /\ \A c \in Callers : WF_vars(Proceed(c))

-----------------------------------------------------------------------------
(* Properties *)

TypeOK == /\ memory \in [Addrs -> Values]
          /\ lock \in {Free} \cup {{c} : c \in Callers}
          /\ cache \in Lists
          /\ call \in [Callers -> Calls \cup {Idle}]
          /\ left \in [Callers -> SUBSET Addrs]
          /\ out \in [Callers -> Lists]

\* A refinement filters the list that is there when it stores its results: no
\* scan that another thread stored meanwhile is overwritten by a filtered
\* older list, and no cleared address comes back.
RefineOnlyFilters ==
    [][\A c \in Callers :
          call[c].op = "refine" /\ call'[c] = Idle
              => Listed(cache') \subseteq Listed(cache)]_vars

\* As long as a bulk write runs, the addresses it is going to write are the
\* ones the cache lists: it never writes to results that were replaced.
WritesGoToListed ==
    \A c \in Callers : call[c].op \in {"write", "refine"}
                           => left[c] \subseteq Listed(cache)

\* Whoever pages through the results, by any number at a time, gets each address
\* once, and the page behind the last one is empty.
PagesListEachOnce ==
    \A count \in 1 .. Last + 2 :
        LET Nth(i) == Page(cache, i * count, count)
        IN  /\ UNION {Nth(i) : i \in 0 .. Last} = Listed(cache)
            /\ \A i, j \in 0 .. Last + 1 : i # j => Nth(i) \cap Nth(j) = {}
            /\ Nth(Last + 1) = {}

\* Whatever the reads and writes do, the mutex becomes free again.
LockIsReleased == []<>(lock = Free)

\* What caller c found out about a: when the process kept n there, and p when
\* the last scan saw it, and that scan stored bytes enough, the address is
\* listed or dropped as the question says.
AnsweredAs(c, a, n, p) ==
    LET q == call[c].query
    IN  /\ memory[a] = Stored(q, n)
        /\ IF call[c].op = "first" THEN q.mode \notin Relative
           ELSE cache[a].width >= SizeOf[q.type] /\ cache[a].was = Stored(q, p)
        /\ Settled(q, n, p)
        => (out'[c][a] # None <=> Documented(q, n, p))

\* Scans keep exactly the addresses they are asked for, over any chain of scans
\* of other types and threads, while the process goes on changing its memory:
\* every comparison is with what the last scan saw.
KeepsExactly ==
    [][\A c \in Callers :
          ScanSlot(c) \/ RefineEntry(c) =>
              \A n, p \in Numbers(call[c].query.type) : AnsweredAs(c, Lowest(c), n, p)]_vars
=============================================================================
