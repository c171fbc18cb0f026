------------------------------ MODULE Provider ------------------------------
(***************************************************************************)
(* The raw-memory discipline of vmbest.c (lines 993-1236): getmemory and   *)
(* the backends it tries, sbrkmem, mmapmem and the chkaddr probe, on a     *)
(* Linux build that has both the program break and anonymous or /dev/zero  *)
(* mappings (_mem_sbrk with _mem_mmap_anon or _mem_mmap_zero).             *)
(*                                                                         *)
(* The address space is 0 .. 2^W - 1 in units of bytes; pointer sums wrap  *)
(* at 2^W.  The heap grows from HEAP0 and may not reach MMAPBASE, where    *)
(* the kernel places mappings.  A region calls getmemory under its own     *)
(* lock (spec 6: "mutual exclusion is provided by the caller"); a foreign  *)
(* user of sbrk in the same program moves the break between those calls.  *)
(* The kernel's answers (where mmap places a range, whether open of        *)
(* /dev/zero and the chkaddr probe succeed) are nondeterministic.          *)
(***************************************************************************)
EXTENDS Integers, FiniteSets, Sequences

CONSTANTS
    W,          \* bits of a pointer and of size_t
    HEAP0,      \* the first address of the heap (the initial break)
    MMAPBASE,   \* the first address of the mapping area; the break stays below
    PAGE,       \* _Vmpagesize
    BREAK,      \* VM_break is set in _Vmassert
    ZEROMAP,    \* _mem_mmap_zero is the mapping backend (else _mem_mmap_anon)
    FAULTS,     \* the chkaddr probe may fault
    Sizes,      \* the sizes a region asks for
    Deltas,     \* the increments the foreign sbrk user asks for
    MAXSEGS     \* the most segments a region holds

M == 2^W
NULL == 0
ASSUME 0 < HEAP0 /\ HEAP0 < MMAPBASE /\ MMAPBASE < M /\ PAGE > 0
ASSUME Sizes \subseteq 1 .. M - 1 /\ Deltas \subseteq 1 .. M - 1

Range(b, n) == {a \in 0 .. M - 1 : a >= b /\ a < b + n}
ROUND(x, y) == ((x + y - 1) \div y) * y

VARIABLES
    k,          \* the kernel: brk, the holes unmapped below it, the mapped
                \* addresses of the mapping area, the state of /dev/zero's fd
    segs,       \* the region's segments: base -> size
    fgn,        \* the foreign sbrk user's ranges, newest last: <<base, size>>
    ret         \* the last getmemory call: caddr, csize, nsize and its answer

vars == <<k, segs, fgn, ret>>

Init ==
  /\ k = [brk |-> HEAP0, holes |-> {}, mapped |-> {}, fd |-> "init"]
  /\ segs = [b \in {} |-> 0]
  /\ fgn = <<>>
  /\ ret = [caddr |-> NULL, csize |-> 0, nsize |-> 0, r |-> NULL]

(***************************************************************************)
(* The kernel.                                                             *)
(***************************************************************************)
\* brk(x): the break moves to x unless x leaves the heap; shrinking it
\* unmaps what lies above, growing it maps fresh pages
BrkOk(x) == x >= HEAP0 /\ x <= MMAPBASE
Brk(K, x) == [K EXCEPT !.brk = x, !.holes = {a \in @ : a < x}]

\* munmap(caddr, csize)
Munmap(K, b, n) ==
  [K EXCEPT !.mapped = @ \ Range(b, n),
            !.holes = @ \cup {a \in Range(b, n) : a >= HEAP0 /\ a < K.brk}]

\* mmap(0, n, ...) at the place the kernel chose, or MAP_FAILED
MmapOk(K, b, n) == n > 0 /\ b >= MMAPBASE /\ b + n <= M /\ Range(b, n) \cap K.mapped = {}

\* a result: the kernel after the call and the address answered
Res(K, r) == [k |-> K, r |-> r]

(***************************************************************************)
(* sbrkmem(caddr, csize, nsize), lines 1065-1090.  ok: the chkaddr probe   *)
(* of lines 1018-1037 reads the new tail without a fault.                  *)
(***************************************************************************)
\* fault model: growth without the contiguity check of line 1072
sbrkmemNoContig(K, caddr, csize, nsize, ok) ==
  LET addr == K.brk
      c == IF csize = 0 THEN addr ELSE caddr
      a2 == IF nsize < csize THEN (addr - (csize - nsize)) % M ELSE (addr + (nsize - csize)) % M
  IN IF nsize >= csize /\ a2 < c THEN Res(K, NULL)
     ELSE IF ~BrkOk(a2) THEN Res(K, NULL)
     ELSE IF nsize > csize /\ ~ok THEN Res(Brk(Brk(K, a2), (c + csize) % M), NULL)
     ELSE Res(Brk(K, a2), c)

\* fault model: no wrap-around check on the new break (line 1080)
sbrkmemNoWrap(K, caddr, csize, nsize, ok) ==
  LET addr == K.brk
      c == IF csize = 0 THEN addr ELSE caddr
      a2 == IF nsize < csize THEN (addr - (csize - nsize)) % M ELSE (addr + (nsize - csize)) % M
  IN IF csize > 0 /\ addr # (caddr + csize) % M THEN Res(K, NULL)
     ELSE IF ~BrkOk(a2) THEN Res(K, NULL)
     ELSE IF nsize > csize /\ ~ok THEN Res(Brk(Brk(K, a2), (c + csize) % M), NULL)
     ELSE Res(Brk(K, a2), c)

\* fault model: a failed probe keeps the grown break (line 1086)
sbrkmemNoRefund(K, caddr, csize, nsize, ok) ==
  LET addr == K.brk
      c == IF csize = 0 THEN addr ELSE caddr
      a2 == IF nsize < csize THEN (addr - (csize - nsize)) % M ELSE (addr + (nsize - csize)) % M
  IN IF csize > 0 /\ addr # (caddr + csize) % M THEN Res(K, NULL)
     ELSE IF nsize >= csize /\ a2 < c THEN Res(K, NULL)
     ELSE IF ~BrkOk(a2) THEN Res(K, NULL)
     ELSE IF nsize > csize /\ ~ok THEN Res(Brk(K, a2), NULL)
     ELSE Res(Brk(K, a2), c)

sbrkmem(K, caddr, csize, nsize, ok) ==
  LET addr == K.brk
      c == IF csize = 0 THEN addr ELSE caddr
      a2 == IF nsize < csize THEN (addr - (csize - nsize)) % M ELSE (addr + (nsize - csize)) % M
  IN IF csize > 0 /\ addr # (caddr + csize) % M THEN Res(K, NULL)
     ELSE IF nsize >= csize /\ a2 < c THEN Res(K, NULL)
     ELSE IF ~BrkOk(a2) THEN Res(K, NULL)
     ELSE IF nsize > csize /\ ~ok THEN Res(Brk(Brk(K, a2), (c + csize) % M), NULL)
     ELSE Res(Brk(K, a2), c)
(***************************************************************************)
(* mmapmem(caddr, csize, nsize, mmdc), lines 1117-1171.  o is the kernel's *)
(* answer: the place mmap chose (NULL: MAP_FAILED), whether open of        *)
(* /dev/zero succeeds and whether the chkaddr probe reads the tail.        *)
(***************************************************************************)
\* lines 1119-1132: /dev/zero is opened once; a failed open is final
ZeroFd(K, o) ==
  IF ~ZEROMAP \/ K.fd # "init" THEN K
  ELSE [K EXCEPT !.fd = IF o.open THEN "open" ELSE "none"]

\* lines 1136-1158: a fresh mapping, given back when the probe faults;
\* mmap answers MAP_FAILED, (void*)-1, when it cannot place the range
MAPFAILED == M - 1
Mmap(K, b, n) == IF MmapOk(K, b, n) THEN b ELSE MAPFAILED

\* fault model: MAP_FAILED taken for an address (line 1147 without its -1 test)
MmapFreshNoFailCheck(K, nsize, o) ==
  LET n == ROUND(nsize, PAGE) % M
      caddr == Mmap(K, o.base, n)
  IN IF caddr = NULL THEN Res(K, NULL)
     ELSE IF ~o.ok THEN Res(K, NULL)
     ELSE Res([K EXCEPT !.mapped = @ \cup Range(caddr, n)], caddr)

MmapFresh(K, nsize, o) ==
  LET n == ROUND(nsize, PAGE) % M
      caddr == Mmap(K, o.base, n)
  IN IF caddr = NULL \/ caddr = MAPFAILED THEN Res(K, NULL)
     ELSE IF ~o.ok THEN Res(Munmap(K, caddr, n), NULL)
     ELSE Res([K EXCEPT !.mapped = @ \cup Range(caddr, n)], caddr)

\* lines 1159-1170: a release; the early return is commented "in sbrk space"

MmapRelease(K, caddr, csize) ==
  IF K.brk < caddr THEN Res(K, NULL) ELSE Res(Munmap(K, caddr, csize), caddr)

mmapmem(K0, caddr, csize, nsize, o) ==
  LET K == ZeroFd(K0, o)
  IN IF ZEROMAP /\ K.fd = "none" THEN Res(K, NULL)
     ELSE IF csize = 0 THEN MmapFresh(K, nsize, o)
     ELSE IF nsize = 0 THEN MmapRelease(K, caddr, csize)
     ELSE Res(K, NULL)

(***************************************************************************)
(* getmemory(vm, caddr, csize, nsize, disc), lines 1194-1229: the backends *)
(* in their order; each one that fails may still have changed the kernel. *)
(***************************************************************************)
\* lines 1205-1211: sbrk first, only when VM_break is set
TrySbrkFirst(K, caddr, csize, nsize, o) ==
  IF BREAK THEN sbrkmem(K, caddr, csize, nsize, o.ok) ELSE Res(K, NULL)

\* lines 1213-1220: the mapping backend, unless an earlier one answered
TryMmap(R, caddr, csize, nsize, o) ==
  IF R.r # NULL THEN R ELSE mmapmem(R.k, caddr, csize, nsize, o)

\* lines 1221-1224: sbrk as the fallback when VM_break is not set
TrySbrkLast(R, caddr, csize, nsize, o) ==
  IF R.r # NULL \/ BREAK THEN R ELSE sbrkmem(R.k, caddr, csize, nsize, o.ok)

getmemory(K, caddr, csize, nsize, o) ==
  IF (csize > 0 /\ caddr = NULL) \/ (csize = 0 /\ nsize = 0) THEN Res(K, NULL)
  ELSE TrySbrkLast(TryMmap(TrySbrkFirst(K, caddr, csize, nsize, o), caddr, csize, nsize, o),
                   caddr, csize, nsize, o)

(***************************************************************************)
(* The region: _vmextend and _vmtruncate call the discipline with one of   *)
(* the four (csize, nsize) forms of spec 6 and keep the segment it        *)
(* answers.  These callers are not in this repository.                     *)
(***************************************************************************)
\* the kernel's answers a call may meet
Kernel == [base : {NULL} \cup MMAPBASE .. M - 2,
           ok : IF FAULTS THEN BOOLEAN ELSE {TRUE},
           open : IF ZEROMAP THEN BOOLEAN ELSE {TRUE}]

\* the getmemory call R answered, and the segments the caller keeps
Call(R, caddr, csize, nsize, kept) ==
  /\ k' = R.k
  /\ segs' = IF R.r = NULL THEN segs ELSE kept
  /\ ret' = [caddr |-> caddr, csize |-> csize, nsize |-> nsize, r |-> R.r]
  /\ UNCHANGED fgn

\* a new segment (csize = 0)
Acquired(n, R) ==
  Call(R, NULL, 0, n, [b \in DOMAIN segs \cup {R.r} |-> IF b = R.r THEN n ELSE segs[b]])

Acquire(n, o) ==
  /\ Cardinality(DOMAIN segs) < MAXSEGS
  /\ Acquired(n, getmemory(k, NULL, 0, n, o))

\* a segment grown or shrunk in place (csize, nsize > 0)
Resize(b, n, o) ==
  /\ n # segs[b]
  /\ Call(getmemory(k, b, segs[b], n, o), b, segs[b], n, [segs EXCEPT ![b] = n])

\* a segment given back (nsize = 0)
Release(b, o) ==
  Call(getmemory(k, b, segs[b], 0, o), b, segs[b], 0, [a \in DOMAIN segs \ {b} |-> segs[a]])

(***************************************************************************)
(* The foreign user of sbrk: it takes the break's next bytes and gives     *)
(* back only its own newest range, and only while that ends the heap.     *)
(***************************************************************************)
ForeignGrow(d) ==
  /\ Len(fgn) < MAXSEGS
  /\ BrkOk(k.brk + d)
  /\ fgn' = Append(fgn, <<k.brk, d>>)
  /\ k' = Brk(k, k.brk + d)
  /\ UNCHANGED <<segs, ret>>

ForeignShrink ==
  /\ fgn # <<>>
  /\ fgn[Len(fgn)][1] + fgn[Len(fgn)][2] = k.brk
  /\ k' = Brk(k, fgn[Len(fgn)][1])
  /\ fgn' = SubSeq(fgn, 1, Len(fgn) - 1)
  /\ UNCHANGED <<segs, ret>>

Next ==
  \/ \E n \in Sizes, o \in Kernel : Acquire(n, o)
  \/ \E b \in DOMAIN segs, n \in Sizes, o \in Kernel : Resize(b, n, o)
  \/ \E b \in DOMAIN segs, o \in Kernel : Release(b, o)
  \/ \E d \in Deltas : ForeignGrow(d)
  \/ ForeignShrink

Spec == Init /\ [][Next]_vars

(***************************************************************************)
(* Properties.                                                             *)
(***************************************************************************)
\* every range someone in the program believes it owns
Holdings ==
  {[who |-> "region", b |-> b, n |-> segs[b]] : b \in DOMAIN segs} \cup
  {[who |-> i, b |-> fgn[i][1], n |-> fgn[i][2]] : i \in 1 .. Len(fgn)}

\* an address the kernel backs: below the break and not unmapped, or mapped
Backed(a) == (a >= HEAP0 /\ a < k.brk /\ a \notin k.holes) \/ a \in k.mapped

\* the extent a holding occupies; mmap rounds a mapping to whole pages
Extent(h) == Range(h.b, IF h.b >= MMAPBASE THEN ROUND(h.n, PAGE) ELSE h.n)

TypeOK ==
  /\ k.brk \in HEAP0 .. MMAPBASE
  /\ k.holes \subseteq HEAP0 .. k.brk - 1
  /\ k.mapped \subseteq MMAPBASE .. M - 1
  /\ k.fd \in {"init", "open", "none"}
  /\ DOMAIN segs \subseteq HEAP0 .. M - 1
  /\ \A b \in DOMAIN segs : segs[b] \in Sizes /\ b + segs[b] <= M
  /\ fgn \in Seq((HEAP0 .. MMAPBASE) \X Deltas)

\* Every segment getmemory handed to the region, as the region now sizes
\* it after its grows and shrinks, is memory the kernel backs, and no
\* byte of it is also the foreign sbrk user's or another segment's: the
\* contiguity check of sbrkmem (line 1072), the wrap check (line 1080)
\* and the refund after a faulting probe (line 1086) keep a foreign move
\* of the break, a size past the address space and a failed growth from
\* handing out memory twice or memory that is not there.
OwnedOnce ==
  /\ \A h \in Holdings : \A a \in Range(h.b, h.n) : Backed(a)
  /\ \A h1, h2 \in Holdings : h1 # h2 => Extent(h1) \cap Extent(h2) = {}

\* No memory the kernel backs is lost to the program: every backed byte
\* lies in some holding.  A growth of the break that is answered NULL must
\* be undone (line 1086), or the bytes stay mapped and nobody owns them.
NoLeak ==
  \A a \in 0 .. M - 1 : Backed(a) => \E h \in Holdings : a \in Extent(h)

\* The release path of mmapmem returns early for memory "in sbrk space"
\* (line 1163), so a release through getmemory never unmaps memory below
\* the break: the heap the break delimits stays contiguous.
BreakBacked == k.holes = {}
=============================================================================
