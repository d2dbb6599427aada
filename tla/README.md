# Angels: specifications, checks and proofs

Angels is an Android memory tool: a native engine (C++, `src/core`) that lists
the memory maps of another process, scans its memory for values or strings,
writes to it, keeps values written ("freezes"), watches addresses and scales the
clock of the process; a JNI layer (`src/jni`) that holds the results of the last
scan; and a Java overlay service that drives both. This directory holds TLA+
models of the parts with interesting control flow, TLC instances that check
them, and TLAPS proofs about most of them.

Paths below are relative to the repository.

## 1. The system

| Component | State it keeps | Operations | What is hard, and what makes it correct |
|---|---|---|---|
| Freeze manager, `src/core/mem_freeze.cpp` | `s_freezes` (id to heap entry), `s_next_id`, one thread per entry with the flags `active` and `finished` | `freeze_add`, `freeze_all_results`, `freeze_remove`, `freeze_clear` | Any number of callers; workers hold a raw pointer to an entry that callers delete; the join is bounded by 2000 ms. Each entry has one owner and is deleted once; no worker outlives its entry; a removed freeze writes no more; ids stop what they were given for. |
| Numeric scanner, `src/core/mem_scan.cpp` | none between calls | `scan_first`, `scan_fuzzy_first`, `scan_refine`, `scan_xor_keys`, `scan_group`, `write_all`, `write_all_offset` | Reads of a running process fall short or fail. Every slot is compared once, none outside a region, the loop ends; what is typed arrives at the comparison, at every width and sign; refinements compare with the right previous value; the best XOR key comes first. |
| String scanner, `src/core/string_scan.cpp` | none between calls | `scan_string` | The overlap carried between blocks and the arithmetic of the buffer. What is reported is an occurrence, every occurrence is reported. |
| Scan result cache, `src/jni/jni_entry.cpp` | `s_scan_results` under `s_scan_mutex` | `scanFirst`, `scanRefine`, fuzzy and group variants, paging, `scanClear`, `writeAll`, `writeAllOffset`, `freezeAllResults` | First scans run without the lock and store under it; refinements and bulk writes hold it through thousands of reads. No update is lost, no write goes to results that were replaced, chains of scans keep exactly what was asked for, pages list each result once, the lock is released. |
| Memory access and maps, `src/core/mem_rw.cpp`, `src/core/mem_maps.cpp` | none | `read_mem`, `write_mem`, `get_maps` | System calls: only their outcomes matter. |
| Watch list, `src/core/watch_list.cpp` | watched addresses by id, under a mutex | `watch_add`, `watch_remove`, `watch_read`, `watch_list` | Ids are drawn before the lock is taken; an entry is copied, the lock dropped, and memory read for a watch that may be gone. An id never reads another address than its own. |
| Speed hack, `src/core/speed_hack.cpp` | a factor by pid | `speed_hack_set`, `speed_hack_reset` | A reset must reach the process that was set. |
| Panel state, `src/ui/panel_state.cpp`, `src/jni/jni_panel.cpp` | settings, display counters, log of 32 lines | getters, clamped setters, log | What it shows must be what the engine does; a full log drops a line for each that comes. |
| Overlay service, `src/java/.../AngelsOverlayService.java` | the session: ids of freezes and watches, pages, target | button handlers, refresh tasks, the service life cycle | Native state outlives the service and dies with the process; change of target. What is shown agrees with the engine. |

Interactions. Everything in the overlay runs on the main looper, the refresh
task included. `NativeCore` may be called from any thread, and the mutexes of
the native side are there for that. The JNI layer calls the engine, holding `s_scan_mutex`
over the calls that use the cached results. A freeze worker is a thread of the
engine that shares only its `FreezeEntry` with the callers. All of them read and
write the memory of a process that runs on.

`PROJECT.json` lists the hazards of the code line by line with the properties
that cover them, and the components that are not modelled with the reason.

## 2. Modules

| Module | Models | Kind |
|---|---|---|
| `FreezePromise` | what the freeze API promises: a freeze is started once, passes of writes begin only before it was told to stop, and a stop is complete only when no pass is under way | abstract specification |
| `Freeze` | `mem_freeze.cpp`: callers, entries, workers, time | detailed specification, implements `FreezePromise` |
| `FreezeHandles` | the ids the calls return (`-1` and `0` on failure), and callers that hand them back, late or not | extends `Freeze` |
| `RegionScan` | `get_maps` and the region and chunk loop of the first scans | algorithm as a state machine |
| `ValueMatch` | targets as the overlay builds them, `value_match`, `decode_xor`, the fuzzy test | operators |
| `XorKeys` | `scan_xor_keys` and `scanXorAuto` | composes `RegionScan` and `ValueMatch` |
| `GroupScan` | `scan_group` over one region, with the carry between buffers | algorithm as a state machine |
| `StringScan` | `scan_string` with `find_in_chunk` | algorithm as a state machine |
| `ScanCache` | `s_scan_results`, `s_scan_mutex`, the operations of several threads on them, and paging | specification over `ValueMatch` |
| `NativeCore` | the watch list next to the results: all that the threads calling `NativeCore` share | composes `ScanCache` and the watch list |
| `Session` | the overlay service over panel state, watch list, speed hack, freezes and results | specification |
| `PanelLog` | the log of the panel and its view, under every handler of `Session` | composes `Session` and the log |
| `FreezeProofs`, `RegionScanProofs`, `ValueMatchProofs`, `StringScanProofs`, `GroupScanProofs`, `NativeCoreProofs`, `SessionProofs` | theorems about the module they are named after; `FreezeProofs` also about `FreezeHandles`, `RegionScanProofs` about `XorKeys`, `NativeCoreProofs` about `ScanCache`, `SessionProofs` about `PanelLog` | proofs |
| `NumberFacts` | least members of sets of numbers, and multiples | lemmas of three proof modules |
| `MC*` | instances for TLC; the `.cfg` files give the constants | |

Operators whose comment begins with "Mutant" are not part of a model: each is a
plausible bug in the operator defined after it. Swapping it in must make a run
fail, which shows that the property of the run depends on that line of the code.

### Freeze

`heap[id]` says whether the `FreezeEntry` created for `id` is allocated;
`registry` is the set of keys of `s_freezes`; `active` and `finished` are the two
atomics; `wpc`/`wtimer` are the worker of an id and the time to its next step;
`cpc`, `target`, `todo`, `waited` are the locals of a call. One critical section
of `s_mutex` is one action, because nothing in it waits. Fetching the counter,
allocating and starting the thread are one action (`Add`), because the entry is
private to the call and its thread until it is published; `Publish` is apart,
so that a worker runs, and a `freeze_clear` passes by, before the entry is
listed. `freeze_remove` and `freeze_clear` share the actions `Deactivate`,
`Poll`, `Clock`, `Join`, `Delete`, `Return`, which are the loop of `freeze_clear`
with one iteration for `freeze_remove`.

Time is discrete. A worker that does not sleep takes its next step within `Lag`
units, which stands for scheduling and for a whole pass of `write_mem`; callers
may be delayed without limit. After `delete entry` the model does not stop: a
load of `active` from the freed entry returns anything, and the store to
`finished` is lost or hits a later entry that was given the memory.

### FreezeHandles

Adds what a caller does with an id. The callers in `GroupCallers` use
`freeze_all_results`, whose failure value is 0; the others use `freeze_add`,
whose failure value is -1. The JNI layer and the overlay pass ids through.

### RegionScan

`Maps` is `/proc/<pid>/maps`: whole pages in ascending order, with rights and
whether the line is one of the kernel's; `Listed` is the filter of `get_maps`, with
or without `writable_only`, and `RegionAfter` the next line it lets through. The
scans test `readable` again, which `get_maps` has already made sure of. A read
returns a whole-page prefix of what was asked for, all of it, or nothing, anew
at each read. Which slots match is left open, so the module is the loop of
`scan_first`, of `scan_fuzzy_first` and of `scan_xor_keys` alike.

### ValueMatch

A value is its bit pattern. All types are taken at one width of `2 * Half`
patterns; what tells them apart is modelled: the sign of a BYTE, the `int` that
BYTE and WORD are added in, the overflow of the wider types (undefined: either
outcome), floats that are not finite, the key of XOR. Floats are whole numbers.
`NoTarget` is the null of `buildTarget`, after which the scan compares with 0;
`Seconds` is what `t2` may be, which is anything where the overlay appends no
second target. `Documented` translates the comments on the modes in
`mi_core.h:59-69`, and `Settled` names the answers these settle, question by
question and number by number. An exact scan without a target must keep zeros
only; a BETWEEN of BYTE or WORD must keep nothing below its first target; a sum
that overflows must be answered for every number but the one it wraps to. The other
answers about such questions are left open, because the code gives them by what
happens to lie in memory, or no comment says what they should be.

### XorKeys

The keys are counted over the slots that the loop has compared (`Freq`), sorted,
cut at `MaxKeys`, and the first is used by `scanXorAuto`. The order of equally
frequent keys is left open, as `std::sort` leaves it: `Rankings` is the set of
all outcomes. Both scans meet the same memory.

### StringScan

One region, its bytes, and the buffer. All memories over a three-letter alphabet
with two letters that differ in case, all needles of `MCNeedles`, and all
outcomes of the reads (`Faults`) are explored. `Report` is one round of the inner loop: the
search always starts at the front of the buffer, which is what the code does,
and adds `search_off` afterwards.

### GroupScan

One readable region, all its contents, every outcome of the reads. One buffer is
read and searched in one step, because the loop works on a private copy. `Chains`
are what the search behind the pivots finds: each item at the first aligned offset
in its window. Items are aligned to the buffer and the pivot to the address, as in
the code; where the span carried over breaks the alignment of the further items, the
code misses some, and `GroupsFound` asks for none (`SpanIsAligned`); for the pivot
any span will do. `search_window` is always 0 and the code ignores it.
`PagesAssumption` says that regions and chunks begin at pages, that value sizes
divide the page, and that what is carried over has room for a pivot, which the 64
bytes of `Margin` see to. A group counts as met by a failed read (`GroupsFound`)
only when it reaches into the bytes that were skipped.

### ScanCache and NativeCore

`memory` is the scanned process, which changes at any time (`Mutate`). An entry
of the cache has the number of bytes that were stored (`width`) and the value in
them; `was` repeats the scanned value for the properties alone, and so does
`given` in `NativeCore`. A call goes through its addresses one step at a time,
each of which may fail (`ReadFails`, `WriteMem`); a first scan does so without
the lock and takes it to store. `Call` is what a thread may begin, `Proceed` what
carries a call on. A refinement asks `ValueMatch` about the value in memory and
the stored one. `Page` is the slice that `getScanResults` returns, with the
conversions of its arguments to `size_t`; `PagingAssumption` says that a caller who
goes from page to page in `jint`s never wraps one.

The watch list has a mutex of its own, held for one step only, and so its
critical sections are single actions. The id is drawn before (`WatchDraw`,
`WatchFile`), and the entry is copied before the read (`WatchCopy`,
`WatchReadEnd`). A thread is in one call at a time, of either kind.

### Session

Native state (`targetPid` to `speedActive`) belongs to the process: `Destroy`
keeps it, `Kill` loses it. The other variables are the fields and views of one
instance of the service. A handler is one action, because it runs to its end on
the main looper; for the same reason the busy flags are never found set. The
engine appears by what its calls promise: a freeze is an id (see
`FreezePromise`), the results are their number. Factors are counted in 1/200,
the unit of the slider. `inherited` records what an instance found when it was
created; the properties need it because nothing in the overlay lists what an
earlier instance left running.

### PanelLog

`lines` is the length of the log and `behind` says that the view does not show
what the log holds. Each handler of `Session` is taken up with the lines it
writes; the handlers that change nothing of the session but write a line are
`Noted`, and `ClearLog` is the button next to the view. The refresh task brings
the view up to date, unless the log is empty.

## 3. Runs

| Run | Question | Bounds |
|---|---|---|
| `freeze` | ownership, use after free, the inductive invariant, `FreezePromise`, the end of stopped workers and the progress of active ones | 2 callers, 2 ids, intervals 1 and 2, timeout 4, lag 1 |
| `freeze_slow` | the same code when a worker sleeps longer than the join waits: every call returns, ids stop only one's own | 2 callers, 2 ids, interval 3, timeout 1 |
| `freeze_removed` | (violated) a removed freeze writes no more | 1 caller, 1 id, interval 4, timeout 2 |
| `region_scan` | each slot compared once, inside its region, lost only behind a failed read; the first XOR key finds the known number most often; the loop ends | 5 mappings of 1 to 3 pages with different rights, chunk of 2 pages, values of 2 bits, 2 keys |
| `string_scan` | buffer arithmetic, carried bytes, first occurrence in a chunk, termination | 6 bytes, chunk 4, page 2, needles of 1 to 4 bytes |
| `string_bogus` | (violated) reported addresses hold the string | one chunk, no faults |
| `string_cut` | (violated) occurrences across a boundary are reported | two chunks, no faults |
| `scan_cache` | lost updates, bulk writes to replaced results, what chains of scans keep, pages, reads of removed watches, release of the mutex | 2 threads, 2 addresses, values of 2 bits of which the process keeps 0 and -2, 4 questions of 4 types, 2 watches |
| `group_scan` | the carry fits the buffer; what is reported is a group; a group is found wherever it is cut; the loop ends | 10 bytes, chunk 4, gap 2, margin 1, page 2, groups of 1 to 3 items |
| `group_twice` | (violated) each group is counted once | the same, margin 0 |
| `session` | what the overlay shows and remembers agrees with the engine and the panel; count and log catch up | 2 pids, 2 freezes, 2 watches, 1 result, 2 slider positions, a log of 1 line |
| `session_status` | (violated) the freeze shown as active is running | 1 freeze id, 1 result |

Why the bounds are enough. Two callers reach every pair of overlapping calls, and
two ids a clear that stops several entries while one of them is removed, or
published, by the other caller. With intervals up to 2, lag 1 and timeout 4 the join
just outlasts the slowest worker (`i + 2*Lag <= Timeout` is tight), so that one unit
less breaks the invariant, and the proofs lift the result to all constants. The
code's own numbers are 2000 ms and an interval that the overlay passes on as typed,
at least 10 ms (only the copy in the panel is cut to 5000 ms): `freeze_slow`, which
needs no invariant of ownership because that is proved for all delays, and
`freeze_removed` are the side of the border on which an interval outlasts the join.
In `region_scan` regions are shorter than, equal to and longer than a chunk, and a
chunk holds two pages, so that a read can end in the middle of it; one pattern is
twice as frequent as the others, so that keys differ in rank. In `scan_cache` the
first scan stores one byte, so that the first refinement finds no previous value of
its width and the later ones do. The refinements are an INCREASED_BY under a key,
where -2 + -2 overflows and wraps to 0 at two bits, a BETWEEN of a WORD, which lacks
its upper bound, and an exact scan of a DWORD without a target. Two addresses let a
scan, a refinement or a bulk write be overtaken between them; `KeepsExactly` is
proved for the other questions and widths. In `string_scan` the needles are shorter
than a chunk, can occur twice in it, and can straddle the boundary. In `group_scan`
a group may lie in one read, be cut by the next, or lie wholly in the carry, and
with an odd margin a pivot of two bytes stands at odd offsets of a buffer that
begins with a carry. In `session` two watches and two freezes allow one of each to
be inherited and one to be new, and two pids a reset for another process than the
one that was set; a log of one line is full at once and overflows with the next.

Deadlock is checked except for the scans, which end.

Fairness. `Freeze`: weak fairness of each worker, of the steps that carry a call on,
and of time: the operating system runs threads that can run, and none of these steps
waits for a lock that is held across a wait. Nobody is obliged to call.
`NativeCore`: a thread that holds the mutex, or needs none, runs on; nothing is
assumed of who gets a free mutex. `PanelLog`: only the refresh task, which the
looper runs after its delay; users need not do anything. The scans are plain loops:
weak fairness of their next step.

## 4. What the checks found

Five of the runs exhibit a disagreement between the code and what the repository
says of it; each is quoted under `findings` in `PROJECT.json`.

- A freeze removed while its worker sleeps past the 2000 ms join is deleted under
  the worker, which reads freed memory and may go on writing.
- `freeze_all_results` fails with 0, which is also the id of the first freeze: the
  overlay then shows an active freeze with id 0, and its message for a failure is
  never shown.
- `scan_string` reports wrong addresses after the first occurrence in a block: the
  search restarts at the front of the buffer.
- `scan_string` misses occurrences cut by a block boundary, in spite of the
  overlap.
- `scan_group` counts a group twice when it lies in the bytes carried over.

## 5. What is proved

`FreezeProofs`, for every set of callers, bound on ids, set of intervals, timeout
and lag that satisfy the named assumptions of `Freeze`:

| Theorem | States |
|---|---|
| `TypeCorrect` | `Spec => []TypeOK` |
| `OwnedOnceAlways` | `Spec => []SingleOwner`: no leak, no double deletion |
| `ListedRuns` | `Spec => []ListedIsRunning` |
| `InductiveInvariant` | `Prompt` implies `Spec => []IInv` |
| `WorkersDieFirst` | `Prompt` implies `Spec => []NoUseAfterFree` |
| `WorkersAreJoined` | `Prompt` implies `Spec => []NoneDetached`: no join gives up |
| `RemovedStaysRemoved` | `Prompt` implies `Spec => []RemovedWritesNoMore` |
| `StoppedForGood` | `Spec => StopIsFinal`, whatever the delays |
| `FreezeImplementsPromise` | `Prompt` implies `Spec => KeepsPromise` |
| `AddersHarmNoOthers` | `HSpec => AddersStopTheirOwn`, whatever the delays |

`SessionProofs`, for every set of pids, slider positions, bounds and log:

| Theorem | States |
|---|---|
| `SessionTypes` | `Spec => []TypeOK` |
| `WatchesStayListed` | `Spec => []WatchesAreListed` |
| `FreezesStayKnown` | `Spec => []FreezesAreKnown` |
| `ShownFreezesRun` | `Spec => []ShownFreezeRuns`: an id above 0 that is shown runs |
| `SpeedStaysShown` | `Spec => []FactorIsShown` |
| `ActiveStaysSet` | `Spec => []ActiveIsSet` |
| `LogDisturbsNothing` | `LogSpec => Spec`: the results above hold of `PanelLog` |
| `LogTypes` | `LogSpec => []LogTypeOK` |

`NativeCoreProofs`, for every set of threads, number of addresses and watches,
width, exclusive-or, sets of questions and values:

| Theorem | States |
|---|---|
| `CoreInductive` | `CoreSpec => []CoreInv` |
| `CoreTypes` | `CoreSpec => []CoreTypeOK` |
| `WritesStayListed` | `CoreSpec => []WritesGoToListed` |
| `RefinesFilter` | `CoreSpec => RefineOnlyFilters` |
| `KeepsAsAsked` | `CoreSpec => KeepsExactly` |
| `ReadsStayOwn` | `CoreSpec => []ReadsOwnWatch` |
| `PagesAreComplete` | `CoreSpec => []PagesListEachOnce` |
| `HoldersGoOn` | `CoreSpec => [][HolderGoesOn]_coreVars`: a holder keeps the mutex and gets on |

The scans, for every list of mappings, sizes of chunk, page and value, memory,
needle and group:

| Module | Theorem | States |
|---|---|---|
| `ValueMatchProofs` | `MatchDocumented` | `MatchIsDocumented` |
| `RegionScanProofs` | `ScanInductive` | `Spec => []IInv` |
| | `ScanTypes` | `Spec => []TypeOK` |
| | `ListedOnce` | `Spec => []EachOnce` |
| | `ComparedInside` | `Spec => []InsideRegions` |
| | `NothingIsLost` | `Spec => []NothingLost` |
| | `BestKeyAlways` | `Spec => []BestKeyFindsMost` |
| | `ScanGetsOn` | `Spec => [][GetsOn]_vars` |
| `StringScanProofs` | `StringInductive` | `Spec => []IInv` |
| | `StringTypes` | `Spec => []TypeOK` |
| | `BufferStaysSound` | `Spec => []BufferIsSound` |
| | `ReportedInside` | `Spec => []InsideRegion` |
| | `FirstAlwaysFound` | `Spec => []FirstOfChunkFound` |
| | `FirstReportsAreReal` | `Spec => [][FirstRoundsReportReal]_vars` |
| | `AbsentIsNotReported` | `Spec => []NothingInvented` |
| | `ScanGetsOn` | `Spec => [][GetsOn]_vars` |
| `GroupScanProofs` | `GroupInductive` | `Spec => []IInv` |
| | `GroupTypes` | `Spec => []TypeOK` |
| | `ReportedAreGroups` | `Spec => []GroupsAreReal` |
| | `GroupFitsBuffer` | `Spec => []FitsBuffer` |
| | `FoundInductive` | `Spec => []FoundInv` |
| | `GroupsAreFound` | `Spec => []GroupsFound` |
| | `CountNeverLess` | `Spec => [](Cardinality(groups) <= reported)` |
| | `OnlyCarriedRepeat` | `Spec => [][CountsCarriedAgain]_vars` |

Five theorems say how far a finding of section 4 goes. `RemovedStaysRemoved`: a
removed freeze writes again only when an interval and two delays exceed the join
timeout. `ShownFreezesRun`: only the id 0 can be shown without a freeze.
`FirstReportsAreReal` and `AbsentIsNotReported`: a wrong address is reported only by
a round after the first of a buffer, and only in a region that holds the string.
`OnlyCarriedRepeat`: the count of `scan_group` is too high exactly by the groups
that lay whole in the carried bytes, and never too low.

`NumberFacts` holds the lemmas about numbers that several proofs need: the least of
a set, multiples, and that each number lies in one stretch of a given length.

The argument for the freezes. The invariant `OwnInv` holds whatever the delays: ids below
`nextId` are spent (`Fresh`), each allocated entry has one owner (`SingleOwner`),
callers hold what they hold at each point of their call (`InHand`), and a worker
leaves its loop only after its entry was deactivated (`Looping`). `SingleOwner`
is not inductive alone: `Publish` needs that the id in hand is not listed,
`Delete` that it is allocated, and both come from `InHand` and `Fresh`.

`NoUseAfterFree` needs time. `Prompt` says that an interval and two delays fit in
the join timeout; it is a hypothesis of the theorems and not an assumption of
the module, because the code does not enforce it (the panel allows 5000 ms). The
invariant `Timing` carries the budget of a join: the time waited plus the time
the worker still needs at most (`Remaining`) never exceeds an interval and two
delays. So when the clock runs out the worker is through, and `Delete` never
meets a live one. `IInv` is the conjunction, checked by TLC in the run `freeze`
and proved inductive step by step. The same budget shows that no join gives up
(`NoneDetached`). `StopIsFinal` needs none: an entry is switched on once, under an
id that was never in use.

The refinement maps `heap` and `active` to the phase of a freeze, and a worker at
`write_mem` to `writing`. Each action is one step of `FreezePromise` or a stutter.

`FreezeHandles` only adds to `Freeze` (`HandlesSimulate`), so `OwnInv` holds of it.
An id that a caller of `freeze_add` holds was drawn by that caller alone
(`HandleInv`), and -1, its failure, is no id: what it stops is its own. Callers
of `freeze_all_results` hold 0 after a failure, and the theorem is not about them.

The argument for the session. `WatchesAreListed` needs that ids in use are spent
(`WatchesSpent`): only then is the id of a new watch no inherited one. The pairs
about freezes and about the factor are inductive with the types: a freeze that
fails shows 0 and not "none", and `setProgress` leaves the panel's factor alone
only if the slider does not move.

The log only adds to the session: each of its steps is one of `Session` or leaves
the session alone, so that nothing has to be proved twice.

The argument for the shared results. `CacheInv` says that a thread is in a
refinement or a bulk write only when it holds the mutex (`Exclusion`), that what a
refinement keeps is listed (`KeptAreListed`), and that the value stored with an
address is the one the scan saw there, as far as it has the bytes (`EntriesTrue`).
`WritesGoToListed` and `RefineOnlyFilters` follow, because all actions that replace
the list wait for the mutex. For `KeepsExactly` an address still to be looked at
must have no outcome yet (`LeftIsOpen`); what one look decides is then the theorem
`MatchDocumented`, with the stored value for the previous one, for the answers that
are `Settled`. `NativeCore` adds that an id is filed once, by whom it was drawn for
(`DrawnOnce`): without it, two threads could file different addresses under one id.
A page is the set of addresses whose rank, the number of listed addresses before
them, lies in a stretch (`PageIsStretch`); a rank lies in exactly one stretch
(`InOneStretch`), so each address is on one page. `HolderGoesOn` is the half of
`LockIsReleased` that needs no fairness: with the mutex, each step of the holder
takes an address off its list, and no one else's touches it.

`MatchDocumented` goes through the encoding: a number that is cut to the low bytes
of its pattern and read back at its type is itself (`NumberOfEncoded`), and a key is
undone by itself (`DecodedStored`). A sum that wraps is read as a number with the
low bytes of the sum (`EncodedNumber`), so that the comparison can only be wrong
about a value that has these bytes too (`SumIsExact`). Exclusive-or is a constant
with three laws (`XorAssumption`), which TLC evaluates for `^^`.

The loop of the first scans. `EachOnce` needs that what is compared next was not
compared before: all earlier slots lie in regions before this one, or below the
base (`Placed`), and mappings do not overlap. `NothingLost` needs that every read
starts at a page (`AtPage`): then no value straddles two reads, as an aligned
address before the end of a read leaves room for a whole value (`NextMultiple`),
and that no region lies between two that follow each other (`NoneBetween`). For
strings, the carry ends at
the cursor, is no longer than the overlap, and equals the memory there
(`CarryInv`); a searched buffer is memory of the region as a whole (`BufferInv`).
The first round of the inner loop searches it from its front, so that its first
occurrence is settled by then (`FirstRound`). `TypeOK` bounds `search_off` by the
capacity of the buffer and the cursor by less than a chunk behind the end, which
a failed read may reach. What is found in the buffer is in
memory at the same distance from the cursor (`OccursIsOccurrence`); only the
address reported for it in a later round is not. `GetsOn` names what each step
brings nearer to the end, and in `StringScan` rests on `ReadSomething`.

The groups. `IInv` says that the carry is the memory before the cursor, at most
`max_span` bytes of it, for which the buffer has room next to a whole read; so a
chain of offsets is a group of the memory (`ChainIsGroup`). That none is missed
needs three more facts (`FoundInv`): a carry shorter than `max_span` begins where
the scan began or went on after a failed read (`CarryBegins`), the cursor and the
carry keep the alignment of the items behind the pivot (`Aligned`), and the groups
that end before the cursor are found (`Covered`). A group that ends in what was just
read then begins in the buffer, or meets a failed read, and the search finds its
items one by one (`GroupIsFound`). Where an argument goes through the items in
order, it takes the least item at which it fails (`LeastOne`): the library's
induction theorems are out of reach, and the search is written as a set of chains
rather than a fold for that reason. For the count, each group reported ends before
the cursor (`CountInv`), so that one found again began and ended in the carry.

The keys. A slot is found with a key exactly when it votes for it
(`MatchingIsFreq`), so the most frequent key finds most.

Only model-checked: all liveness (`CallsReturn`, `StoppedWorkersEnd`,
`KeepsWriting`, `LockIsReleased`, `CountCatchesUp`, `LogCatchesUp`, `Terminates`),
which the prover does not reach under fairness. For the scans and the mutex,
`GetsOn` and `HolderGoesOn` prove what a step does; that steps are taken, and that
finitely many suffice, is left to TLC. Every safety property of a run that is
expected to pass is proved.

## 6. Not modelled

- System calls on `/proc` and on other processes: their outcomes are inputs.
- JNI array conversions, logging to the console, layout and drawing: no state.
- `watch_list`, which nothing calls, and the decoders of `NativeCore` for display.
- The active tab, the scan settings and the XOR key of the panel. They are stored
  and read by the tabs alone. The key is an argument of each question of
  `ValueMatch`; which key the panel should hold after an automatic scan no
  document says.
- The pid the results were scanned in. The code does not keep it, and nothing in
  the repository says what writes and freezes after a change of target should do.
- Real widths and fractions of floats: `Half` is a parameter, and the proofs hold
  for each.
- The patched bytes of the speed hack, which this code never sets, and the build
  files.

## 7. Plan

1. `FreezePromise`, `Freeze`, `FreezeHandles`, `FreezeProofs`: threads and raw
   pointers, the most delicate part. Done.
2. `RegionScan`, `StringScan`, `ScanCache`: what scans find and what their
   results are used for. Done.
3. `GroupScan`: the carry of `scan_group`. Done.
4. `Session`, `SessionProofs`: the overlay over panel, freezes, watches, speed hack
   and results, with destruction and re-creation. Done.
5. `ValueMatch` and `XorKeys`, with the refinements of `ScanCache` asking real
   questions; `NativeCore` with the watch list; `PanelLog`. Done.
6. Proofs about the scans, the shared results, the watch list and the log. Done.
7. The ids callers hold, the buffer of `GroupScan`, the first occurrence in a
   block and the slots that were passed, as theorems. Done.
8. The groups that `scan_group` finds and counts, the pages of the results, the
   holder of the mutex, and how far the findings go, as theorems. Done.
9. Left: fractions of floats; more regions in one `StringScan` and `GroupScan`,
   whose buffers start anew in each.
