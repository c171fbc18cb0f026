# TLA+ model of vmalloc's best-fit method (vmbest.c) and sfpeek

This directory holds TLC-checkable models of two parts of libast:

- the best-fit allocation method of vmalloc,
  `src/src/lib/libast/vmalloc/vmbest.c`, and the raw-memory discipline in
  the same file (`getmemory`, `sbrkmem`, `mmapmem`);
- `sfpeek`, `src/src/lib/libast/sfio/sfpeek.c`, on a file stream
  opened for reading or for writing.

vmalloc and sfpeek do not call each other. The method calls the
discipline only through `_vmextend` and `_vmtruncate`, which are not in
this repository. `VmBest.tla` therefore sees the discipline as
nondeterministic answers, and `Provider.tla` models the discipline on its
own, with the region as its caller.

## The system

A vmalloc region (`Vmdata_t vd`) owns a list of **segments**. Each
segment is raw memory obtained from a **memory provider** (the
discipline's `memoryf`: sbrk, mmap, malloc, ...). A segment is tiled by
**blocks**. Each block has a header (`Head_t`: SEG word, SIZE word) and a
body. The low bits of SIZE are tags:

- `BUSY`: the block is allocated or junk;
- `PFREE`: the previous block is free;
- `JUNK`: the block is freed but not yet reclaimed.

The last block of every segment is a busy **sentinel** of size 0.

Free memory lives in exactly one of these places:

- `vd->free`: the most recently freed block. It is junk.
- The **cache** lists `CACHE(vd)[0..S_CACHE]`: other junk blocks.
- The **tiny** lists `TINY(vd)[0..S_TINY-1]`: free blocks under `MAXTINY`.
  The tiniest list links through the TLEFT field of the SEG word.
- The **free tree** `vd->root`: a splay tree of larger free blocks.
  Blocks of equal size hang on a LINK chain; `RIGHT(b)==b` marks a chain
  member.
- `vd->wild`: the free block ending the bottom segment.

Each operation runs while holding the region lock:

- `bestalloc` (malloc);
- `bestfree`;
- `bestresize` (realloc with the `VM_RSMOVE|VM_RSCOPY|VM_RSZERO` flags);
- `bestalign` (memalign);
- `bestcompact`;
- `bestaddr` and `bestsize` (queries).

Those operations call:

- `bestreclaim`: turns junk into free blocks, coalescing neighbours and
  filing each block in its home.
- `bestsearch`: a top-down splay that removes a best-fit block.
- `_vmextend` / `_vmtruncate` (vmprivate.c): grow or shrink a segment
  through the provider.

## Modules

| Module | Models |
|---|---|
| `VmBest.tla` | The whole method. It is parameterised by the size constants, the provider's slots and the request sets. |
| `Allocator.tla` | The abstract specification of a region: a map `live` from body address to usable size. Each step hands out one body (`Get`), takes one back (`Put`), resizes one in place (`Change`) or moves one (`Move`), keeps every other body as it was, and leaves no two live bodies overlapping. |
| `MCVmBest.tla` | Small instantiations for TLC: request sets, provider slots and the operation subsets each run enables. |
| `Provider.tla` | The raw-memory discipline on an address space with a program break and a mapping area. It is parameterised by the pointer width, the heap and mapping bases, the page size, the build's backends and `VM_break`. |
| `SfPeek.tla` | `sfpeek` on a read or a write stream, with the sfio routines it calls. It is parameterised by the width of `size_t`, the buffer size, the file length, the sizes callers pass and the modes the stream may be opened in (`WRITES`). Its cfgs give the constants directly. |

### State

- `mem`: the words of every segment. It is a function from word addresses
  to naturals. It holds every header and link word, so word aliasing in
  merges is visible.
- `vd`: the `Vmdata_t` fields. These are `seg` (the segment list, sorted,
  bottom first), `free`, `wild`, `root`, `tiny`, `cache`, `incr` and `pool`.
  The operators work on `St`, which is `mem` and `vd` in one record; each
  action commits the result back to both.
- `held`: the caller's live blocks, mapping data address to requested size.
- `ret`: the last answer: `[op, addr, saw, al]`. `saw` records whether
  bestresize saw its wanted block reclaimed.
- `freed`: a history variable. It holds the bodies callers freed, that
  were not handed again and whose old header's SIZE word no caller has
  written over since. Only the double-free runs keep it; elsewhere it
  stays empty, so the other runs' state spaces are unchanged.
- `live`: the region's own view of the live bodies after each call. It is
  `LiveOf(St)`: every address at which `bestaddr` answers 0 ("the start of
  a busy block"), mapped to `bestsize` there. It is an auxiliary variable
  kept so that the refinement mapping is not re-evaluated at every
  reference; it is a function of `mem` and `vd`, so it adds no states.

`Next` is `Call`, the disjunction of the entry points of the `_Vmbest`
method table (lines 1238-1248), with `live' = LiveOf(St')`.

A caller writes one word of `UserWords` over every requested word of a
block it is handed. The core, resize, align and segment runs use
`{USERWORD}`, a word with BUSY and JUNK clear, so that `ContentsKept`
notices any other word. The double-free runs also use `USERWORD + BUSY`,
a word with BUSY set and JUNK clear, which passes the guard of bestfree
line 729. Pages given back to the provider read as zero.

### Actions

Each action is one entry point, taken whole.

| Action | Entry point | What the action covers |
|---|---|---|
| `Alloc` | bestalloc (543-646) | reclaim; the cache search; bestsearch; the wilderness; `_vmextend`; the split |
| `Free` | bestfree (695-758) | push on `vd->free`; the old free goes to the cache |
| `Resize` | bestresize (760-874) | `GrowLoop` (merge forward), `GrowSeg` (extend the segment), move/copy/zero, the shrink split |
| `Align` | bestalign (913-992) | over-allocate; carve the front and back slack into junk |
| `Compact` | bestcompact (465-541) | reclaim everything; `Trim`s the tail of each segment through `_vmtruncate` |
| `FreeAgain` | bestfree (695-758) | a second free of a body in `freed`, whose header word still lies inside a segment and was not written over by a caller |

The provider is the environment. Each action takes a provider answer
`pv = [grow, base, shrink]` from `Provider`:

- whether growth is granted;
- at which slot a new segment is placed;
- for each slot, whether a release is accepted.

Free and Compact never grow, so they draw from `Releaser`.

Internal steps are operators, named after the code:

- `bestsearch`: `SplayLoop`, `LeftSpine`, `SearchIsolate`, `SearchReroot`,
  `TiniestDetach`, `SegOfBlock`;
- `bestreclaim`: `ReclaimFrom`, `ReclaimList`, `ReclaimMerged`,
  `ReclaimSettled`, `BackMerge`, `ForwardMerge`, `Settle`, `Home`,
  `TinyPush`, `LeafInsert`;
- `bestalloc`: `SearchCache`, `AllocSearched`, `AllocExtended`, `GotBlock`,
  `LastFreeFits`;
- `bestfree`: `FreePush` (the filing of lines 731-741), `FreeCompact`;
- `bestresize`: `GrowLoop`, `GrowTake`, `GrowMerged`, `GrowSeg`,
  `ResizeSplit`, `ResizeMove`, `ResizeZeroed`, `ResizeFree`;
- `bestalign`: `AlignCarve`;
- `bestcompact`: `CompactAll`, `CompactSegs`, `CompactSeg`, `Trim`, `Trimmed`;
- `bestaddr`: `AddrSeg`, `AddrWalk`;
- `bestsize`: `SizeSegs`, `SizeWalk`;
- `_vmbestcheck`: `vmintree`, `vmisfree`, `vmisjunk`, `vmchktree`,
  `BlockChecks`.

The operators are split where the code hands one phase's result to the
next. Each phase's result is a parameter of the operator for the next
phase. A LET name is never used for this, because TLC's coverage
profiler expands every reference to a LET name again.

`PROJECT.json`'s `map` gives the lines each one translates. Definitions
taken from vmhdr.h and vmprivate.c are marked `spec_modelled`:

- the layout macros;
- `REMOVE`;
- `_vmextend` and `_vmtruncate`.

## Properties

| Property | Kind | What it says |
|---|---|---|
| `TypeOK` | type | Every variable has its type. |
| `Tiling` | safety | Segments are sorted and disjoint, with the bottom segment first. Each segment's blocks tile it exactly, end in a size-0 busy sentinel, and carry the segment's SEG word. |
| `HeapAudit` | safety | vmbest's own `_vmbestcheck` holds after every operation. It checks the free-tree shape, the tag bits, the PFREE and SELF words, and that every free block is known to a list and every junk block to a cache. |
| `AddrCheck` | safety | `bestaddr` answers 0 exactly for the caller's live blocks, and `bestsize` is at least the requested size. |
| `ContentsKept` | safety | Every requested word of every held block still holds the caller's data, across moves, merges and carving. |
| `OneHome` | safety | The junk blocks are exactly `vd->free` plus the cache lists, each on one list once. The free blocks are exactly the tiny lists, the tree and wild, disjointly. |
| `WildInBottom` | safety | `vd->wild` is a free block ending the bottom segment. |
| `ResizeSawWanted` | safety | The block that bestresize asks bestreclaim to keep free is seen, so its merge is sound. |
| `RefinesAllocator` | refinement | `VmBest` implements `Allocator` under the mapping `live <- LiveOf(St)`: every call changes the set of bodies vmaddr calls live by at most one hand-out, take-back, resize or move, never changes another caller's body, and live bodies never overlap. It catches a merge that swallows a busy neighbour, or a body that vmaddr stops recognising. |
| `RefreeTolerated` | action | A second free of a body whose old header only the allocator has written since changes no word of memory and nothing in `vd` except `pool` (spec §4.8: double frees are silently tolerated). |

## Runs

All runs use these constants:

- `ALIGN=16`, so a header is 16 bytes and a word is 8;
- `S_TINY=2` and `S_CACHE=3`;
- `COMPACT=1`, `INCR0=64` and `PAGE=32`.

| Run | Cfg | Operations | Shows |
|---|---|---|---|
| core | MCVmBest.cfg | alloc, free, compact; one slot of 64 bytes, growable to 128 | Any sequence keeps the structures and vmaddr right. Growth is granted or refused, and release is accepted or refused. |
| resize_moving | MCResize.cfg | resize with MOVE/COPY/ZERO, free, compact; up to 3 held blocks | Moves copy the caller's bytes. The wanted block is never lost. The region implements `Allocator` (`RefinesAllocator`). |
| resize_in_place | MCResizeInPlace.cfg | resize type 0 only, of sizes 0/40/72 and of NULL | Failed in-place growth leaves the block intact and correctly filed. |
| align | MCAlign.cfg | memalign to 32 in an 80-byte slot, free | The carving passes the audit. The region implements `Allocator`: the carved parts are not live bodies. |
| segments | MCSegs.cfg | alloc, free, compact with two slots (64 and 192) | New segments are inserted in order, and wild stays in the bottom segment. |
| refree | MCRefree.cfg | alloc, free, and a second free of a freed body whose header no caller wrote over; no vmcompact; callers write words with BUSY set or clear | While no segment is given back, the guard of line 729 skips every such double free: of a junk block, of a reclaimed one, of one merged into a neighbour, of one whose header a split or merge rewrote. It checks `RefreeTolerated` alone; the heap properties are checked by the runs above. |
| refree_after_release | MCRefreeRelease.cfg | the same with vmcompact | **Violation** of `RefreeTolerated`; see Findings. |

For each property of each run, `PROJECT.json` lists a mutant. A mutant
is a plausible bug in the mapped code, for example:

- a dropped split guard;
- PFREE not cleared;
- `c` not lowered in a forward merge;
- a copy from the header;
- a segment appended instead of inserted in order.

Each mutant is written as a `fault model` operator next to its target.
TLC finds its property violated.

### Bounds

The slots are sized so that the interesting cases occur:

- a block is split and its remainder cached;
- a junk block is merged forward into the next cache list;
- the wilderness grows and is later truncated;
- a resize grows in place, by extension and by moving.

Request sets are two or three sizes: one tiny, one cached and one that
forces growth. `MAXHELD` (2 or 3 live blocks) bounds the caller. The
memory size `SLOTCAP` bounds every segment. Each bound names what it
caps.

## sfpeek (`SfPeek.tla`)

`sfpeek(f, bp, size)` hands the caller a pointer into the stream's
buffer.

- With `bp` NULL it only reports the buffered count.
- With size 0 it hands out what is buffered.
- With a size past `SSIZE_MAX` (a negative `sz`) it locks the stream
  (`SFIO_PEEK`) over what is buffered.
- Otherwise it reserves `size` bytes and moves past them.

### State

- `f`: the `Sfio_t` fields sfpeek reads and writes:
  - `wr`: the stream was opened for writing, chosen in `Init` from
    `WRITES`;
  - `mode`: the flags `init`, `read` (or `write`) and `peek`;
  - `next`, `endb`, `endr` and `endw`: indexes into the buffer, where
    `data` is 0;
  - `here`: on a read stream the file offset of `endb`, on a write
    stream the file offset of `data` (bytes `0 .. next-1` are written
    but not yet flushed, and `endb = SIZE`);
  - `val`: the value `sfvalue` reports.
- `ret`: the last call: the `sz` it computed, its answer `r`, and `*bp`.

`Pos(f)` is the file offset of the next byte not yet taken:
`here - (endb - next)` when reading, `here + next` when writing.

### Operators and actions

The function is split along its code:

| Operator | Lines |
|---|---|
| `sfpeek` | 27-36: the `size_t` to `ssize_t` conversion `SSIZE`, then the query/size-0 path or the fill path |
| `PeekQuery` | 42-51 |
| `PeekFill` | 53-58 |
| `PeekReserve` | 58-61 |
| `PeekValue` | 63-76 |

`Peek` is one whole call. `Getc` is another reader of a read stream
using the `sfgetc` fast path (`next < endr`); `Putc` is another writer
of a write stream using the `sfputc` fast path (`next < endw`).

The routines sfpeek calls are not in this repository. They are modelled
by the sfio contract sfpeek relies on, and are marked `spec_modelled`:

- `_sfmode`: sets up an `SFIO_INIT` stream, and refuses a peek-locked one;
- `sfreserve` (type 0): hands out and moves past `r` bytes, refilling
  from the file first. It fails with the rest still buffered.
  `sfvalue` then reports that count.
- the read inside the refill may deliver any number of bytes up to the
  room left and the file's remainder (`Deliverable`). On a write stream
  the refill is a flush (`Flushed`): `write(2)` takes any number of the
  pending bytes, none when it fails, and the rest move to the front of
  the buffer (`Refill` picks the one the mode calls for).
- `_sfmode` on a write stream sets `endb = endw = SIZE`, so the whole
  buffer is space `sfputc` may fill.

### Properties

| Property | Kind | What it says |
|---|---|---|
| `TypeOK` | type | The buffer indexes are ordered inside the buffer. |
| `PeekInBuffer` | action | A peek answering `r >= 0` with a pointer points at `r` buffered bytes. |
| `AnswerConsumed` | action | A peek moves the stream past exactly the bytes it answers. A lock peek or a query moves it past none. |
| `LockedStays` | action | While the stream is peek-locked, no step moves `next`. |

### Runs

Both runs use `W = 4`, `WRITES = {FALSE, TRUE}` (every behaviour of a
read stream and of a write stream), so `size_t` is 0..15 and a size of 8 or more is
a negative `sz`. They also use `SIZE = 3` and `FILELEN = 5`.

| Run | Cfg | Sizes | Shows |
|---|---|---|---|
| peek | MCSfPeek.cfg | 0, 1, 3, 8 (sz -8), 15 (sz -1) | Every peek up to `f->size`, every query and every lock peek, interleaved with `sfgetc` on a read stream and with `sfputc` and flushes of any length on a write stream, keeps the three properties (1192 states). |
| peek_past_buffer | MCSfPeekLarge.cfg | 0, 2, 4 | **Violation** of `PeekInBuffer`; see Findings. |

The file is longer than the buffer, so refills, partial reads, a
failing reservation clamped to `n`, and the end of the file all happen.
The mutants drop one of three lines:

- the clamp of line 71;
- the move of line 72;
- the `endr`/`endw` reset of line 67.

## The raw-memory discipline (`Provider.tla`)

`getmemory` (vmbest.c 1194-1229) tries its backends in a fixed order.
The model takes a Linux build that has both `_mem_sbrk` and one mapping
backend. The order is:

1. `sbrkmem`, first only when `VM_break` is set (`BREAK`);
2. `mmapmem`, with anonymous mappings or with `/dev/zero` (`ZEROMAP`);
3. `sbrkmem` again, when `VM_break` is not set.

A backend that fails may already have changed the kernel. For example, a
probe that faults makes `sbrkmem` move the break back. So each of `TrySbrkFirst`, `TryMmap` and
`TrySbrkLast` starts from the kernel the backend before it left behind.

### State

- `k`: the kernel's view of the address space:
  - `brk`: the program break;
  - `holes`: addresses below the break that were munmapped;
  - `mapped`: the addresses of the mapping area that are mapped;
  - `fd`: the state of `/dev/zero`'s descriptor (`FD_INIT`, open or
    `FD_NONE`).
  `/dev/zero`'s offset is left out. With `MAP_PRIVATE` it only selects
  which zeros are mapped.
- `segs`: the region's segments, mapping base to size, as the region
  records them from the answers.
- `fgn`: the ranges that other code of the program took with `sbrk`,
  newest last.
- `ret`: the last call, `[caddr, csize, nsize, r]`.

Addresses are `0 .. 2^W-1`. Pointer sums wrap at `2^W`, as `addr +=
nsize-csize` does in the code. `NULL` is 0 and `MAP_FAILED` is `2^W-1`.

### Operators and actions

- `sbrkmem` (1065-1090): the contiguity check, the wrap check, `brk`, and
  the refund when the probe faults.
- `mmapmem` (1117-1171): it is built from three parts.
  - `ZeroFd`: the one-time open of `/dev/zero`.
  - `MmapFresh`: `ROUND` to the page, the `NULL`/`MAP_FAILED` test, and
    the `munmap` when the probe faults.
  - `MmapRelease`: the release path, guarded by `sbrk(0) < caddr`.
  - A resize of a mapping is always refused.
- The `chkaddr`/`sigsegv` probe (1018-1038): a choice in `Kernel`,
  alongside where `mmap` places a range and whether `open` succeeds.
- The region's calls, in the four forms of spec §6:
  - `Acquire`: `csize` = 0;
  - `Resize`: both `csize` and `nsize` greater than 0;
  - `Release`: `nsize` = 0.
  The region records what `getmemory` answers.
- `ForeignGrow` and `ForeignShrink`: other code of the program moving the
  break with `sbrk` between calls. It gives back only its newest range,
  and only while that range ends the heap.

### Properties

| Property | Kind | What it says |
|---|---|---|
| `TypeOK` | type | The variables have their types, and every segment lies inside the address space. |
| `OwnedOnce` | safety | Every held range (the region's segments and the foreign ranges) is backed by the kernel, and no two overlap. |
| `NoLeak` | safety | Every backed byte lies in some held range. |
| `BreakBacked` | safety | No memory below the break was unmapped. This is what the comment "in sbrk space" (line 1163) says the release guard ensures. |

### Runs

All runs use these bounds:

- `W=4`, so there are 16 addresses;
- the heap runs from 2 up to the mapping area at 8, and `PAGE=2`;
- sizes 2, 4 and 14. The size 14 makes `addr += nsize-csize` wrap;
- the foreign user takes 2 bytes at a time;
- at most 2 segments and 2 foreign ranges.

These bounds are enough for a grow, a foreign range and a wrap to happen
in one behaviour.

| Run | Cfg | Configuration | Shows |
|---|---|---|---|
| provider_break | MCProviderBreak.cfg | `VM_break`, anonymous mappings, a probe that may fault | The three checks of `sbrkmem` keep segments backed and owned once. No memory leaks. |
| provider_default | MCProviderZero.cfg | default order, `/dev/zero` whose open may fail | `OwnedOnce` and `NoLeak`, with mapping failing over to `sbrk`. |
| provider_release | MCProviderRelease.cfg | default order, anonymous mappings | **Violation** of `BreakBacked`; see Findings. |

## Findings

1. **Double free after a segment is released (vmbest.c:728).**
   Spec §4.8 says double frees are silently tolerated. The code
   tolerates one only while the old block header survives. In the
   `refree_after_release` run, this sequence happens:
   1. A body at 128 is freed.
   2. vmcompact gives the whole segment back.
   3. A new, smaller segment is placed at the same base. Its sentinel
      header lies at 112, the old block's header.
   4. A second free of 128 reads `SIZE` = BUSY. The guard of line 728
      passes.
   5. The sentinel is marked JUNK, so its segment's block walk no longer
      ends at a busy sentinel.
   6. The sentinel is filed under `CACHE(vd)[INDEX(1)]`. `INDEX(1)`
      wraps past the array, so the model treats those writes as
      landing outside the region.

   Without vmcompact (the `refree` run) a double free is harmless as
   long as no caller has written over the old header. Once the header
   word lies inside another caller's block, the guard tests that
   caller's data. A word with BUSY set and JUNK clear passes it, and
   bestfree then writes JUNK into the other caller's data and files a
   block whose size is that data. The model stops offering `FreeAgain`
   at that point (see Not modelled).
2. **sfpeek over-reports a request larger than the buffer
   (sfpeek.c:61).** Line 58 asks `sfreserve` for `min(sz, f->size)`
   bytes. When that succeeds, line 61 returns `sz`. `sfpeek(f, &bp, 4)`
   on a 3-byte buffer answers 4. The stream has moved past 3 bytes, and
   only 3 are at `bp`. This contradicts the function's own description
   as safe access to the buffer (line 21). On a write stream
   (the same step from `wr = TRUE`, which the run also explores) it is worse: the caller is told it may
   write 4 bytes at `data` into a 3-byte buffer, a buffer overflow.
3. **mmapmem's release guard is inverted (vmbest.c:1163).** The early
   return is commented "in sbrk space". Its condition, `sbrk(0) < caddr`,
   is true for memory *above* the break. In `provider_release`, this
   happens in three steps:
   1. `mmap` fails.
   2. `sbrk` supplies the segment at 2-3. The break moves to 4.
   3. The release of that segment is munmapped. This leaves a hole below
      a break that does not move.

   The other way round, a mapped segment lies above the break. Its
   release is refused here, and refused again by `sbrkmem`'s contiguity
   check. So vmcompact can never give a mapping back to the system.

## Fairness

None, in any module. Each vmbest entry point runs under the region lock (`SETLOCK` /
`CLRLOCK`), so it is one atomic step. The library promises nothing about
progress beyond returning. The properties are safety properties.
Deadlock is checked: the caller can always act, because `Alloc` with a
refused provider is enabled. In `SfPeek` a peek is always enabled. In `Provider` the region can always call `getmemory` or give a segment back.

## Not modelled

- **Memory providers not on Linux.** `win32mem` is built only on
  Windows. `mallocmem` is built only without mmap. `VmBest` does not
  compose with `Provider`: its callers `_vmextend` and `_vmtruncate` are
  not in this repository. `VmBest` instead takes the provider's answers
  nondeterministically.
- **`sbrk(0)` failing (line 1069).** Linux does not fail it.
- **Concurrency inside the method.** The lock makes each call atomic.
  Interleavings are therefore interleavings of whole calls, and every run
  explores those.
- **Tracing and DEBUG counters.** These are logging only.
- **Double free of a body whose header lies in released memory.** That
  read faults, or reads whatever the provider maps there next.
  `FreeAgain` requires the header word to lie in a live segment.
- **Double free of a body whose header a caller has written over.**
  bestfree then walks a block of whatever size the caller's data gives,
  out of the region. The model cannot represent that, so `FreeAgain`
  is only offered before it happens. With that restriction lifted, TLC
  stops with an out-of-domain read in the `refree` run, not with a
  property violation.
- **sfpeek on string streams.** The `SFIO_RDWRSTR` branch (lines
  38-40, `SFSTRSIZE`) needs sfio's string-stream buffering, which is
  not in this repository. Read and write errors that leave a negative
  `sfvalue` are also not modelled; a failed `write(2)` is modelled as
  flushing nothing.

## Plan for later sittings

1. Add a run where the tree holds more than one size, and equal-size
   chains, so that the splay rotations do more.
2. `RefinesAllocator` holds on the segments run as well (141 s with
   coverage). It is not checked there: no plausible fault in the segment
   code breaks it. The refinement allows stuttering, so a call that fails
   to hand out or take back a body only stutters. Faults that do move a
   body show up first as `Tiling` or `AddrCheck` failures. A stronger
   abstract specification would relate `live` to `held`.
3. Model the string-stream branch of sfpeek if sfio's `sfstr` sources
   are added to the tree.
