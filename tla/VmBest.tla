------------------------------- MODULE VmBest -------------------------------
(***************************************************************************)
(* The best-fit method of vmalloc (src/lib/libast/vmalloc/vmbest.c).       *)
(*                                                                         *)
(* Memory is a function from word addresses to words, so the headers, the  *)
(* free-list pointers and the self pointers live where the code puts them  *)
(* and alias the way the code lets them alias (a TLEFT in a tiniest        *)
(* block's SEG word, the RIGHT of a tiniest block in the next block's SEG  *)
(* word, a merged junk block's stale header inside its new owner).  The    *)
(* region descriptor (Vmdata_t) is a record.  Each public entry point runs *)
(* under the region lock, so it is one atomic step; the internal           *)
(* procedures (bestsearch, bestreclaim, bestcompact, ...) are operators    *)
(* from a machine state M = [w |-> memory, seg, free, wild, root, tiny,    *)
(* cache, incr, pool] to the next one, composed in the order the code      *)
(* calls them.  The raw-memory provider is the environment: its answers    *)
(* are chosen per step (see Provider).                                     *)
(***************************************************************************)
EXTENDS Integers, Sequences, FiniteSets, SequencesExt, TLC

CONSTANTS
    ALIGN,      \* the granule; sizeof(Head_t) = BODYSIZE = ALIGN
    S_TINY,     \* number of tiny lists
    S_CACHE,    \* index of the catch-all cache list
    COMPACT,    \* wilderness retention factor (the code's #define is 8)
    Slots,      \* base addresses the provider may hand out for a segment
    SLOTCAP,    \* bytes a segment may span from its base
    INCR0,      \* the first value _Vmextend gives vd->incr
    PAGE        \* the discipline's rounding factor (disc->round)

ASSUME ALIGN % 8 = 0 /\ ALIGN >= 16
ASSUME \A a \in Slots : a >= 4 * ALIGN /\ a % ALIGN = 0
ASSUME \A a, b \in Slots : a < b => a + SLOTCAP <= b

NIL == 0
WORD == ALIGN \div 2                  \* a pointer or a size word
HEAD == ALIGN                         \* sizeof(Head_t): seg word, size word
BODYSIZE == ALIGN                     \* sizeof(Body_t)
TINYSIZE == BODYSIZE
BLOCKSIZE == HEAD + BODYSIZE          \* sizeof(Block_t)
SEGHEAD == ALIGN                      \* ROUND(sizeof(Seg_t),ALIGN), abstracted
MAXTINY == S_TINY * ALIGN + TINYSIZE
MAXCACHE == S_CACHE * ALIGN + TINYSIZE
MEMTOP == SLOTCAP + (CHOOSE a \in Slots : \A b \in Slots : a >= b)
Addr == {a \in 0 .. MEMTOP : a % WORD = 0}
LINKBLK == ALIGN                      \* the local "Block_t link" of bestsearch

ROUND(x, y) == ((x + y - 1) \div y) * y
MinOf(a, b) == IF a < b THEN a ELSE b

(* The three tag bits of a size word. *)
BUSY == 1
PFREE == 2
JUNK == 4
BITS == 7
Has(s, bit) == (s \div bit) % 2 = 1
Set(s, bit) == IF Has(s, bit) THEN s ELSE s + bit
Clr(s, bit) == IF Has(s, bit) THEN s - bit ELSE s
CLRBITS(s) == s - (s % 8)
ISBUSY(s) == Has(s, BUSY)
ISPFREE(s) == Has(s, PFREE)
ISJUNK(s) == Has(s, JUNK)

INDEX(s) == (s - TINYSIZE) \div ALIGN
C_INDEX(s) == IF s < MAXCACHE THEN INDEX(s) ELSE S_CACHE

(***************************************************************************)
(* Block layout: the words a block header pointer b designates.            *)
(***************************************************************************)
DATA(b) == b + HEAD
BLOCK(d) == d - HEAD
W(M, a) == M.w[a]
Put(M, a, v) == [M EXCEPT !.w[a] = v]
SEG(M, b) == W(M, b)
SIZE(M, b) == W(M, b + WORD)
LINK(M, b) == W(M, b + HEAD)
LEFT(M, b) == W(M, b + HEAD + WORD)
RIGHT(M, b) == W(M, b + HEAD + 2 * WORD)
TLEFT(M, b) == SEG(M, b)
NEXT(M, b) == DATA(b) + CLRBITS(SIZE(M, b))
LAST(M, b) == W(M, b - WORD)
ISLINK(M, b) == RIGHT(M, b) = b
SetSEG(M, b, v) == Put(M, b, v)
SetSIZE(M, b, v) == Put(M, b + WORD, v)
SetLINK(M, b, v) == Put(M, b + HEAD, v)
SetLEFT(M, b, v) == Put(M, b + HEAD + WORD, v)
SetRIGHT(M, b, v) == Put(M, b + HEAD + 2 * WORD, v)
SetTLEFT(M, b, v) == SetSEG(M, b, v)
SETLINK(M, b) == SetRIGHT(M, b, b)
SetSELF(M, b) == Put(M, NEXT(M, b) - WORD, b)
SetBit(M, b, bit) == SetSIZE(M, b, Set(SIZE(M, b), bit))
ClrBit(M, b, bit) == SetSIZE(M, b, Clr(SIZE(M, b), bit))

(***************************************************************************)
(* Segments: vd->seg is a list ordered by decreasing address, so its head, *)
(* the "bottom" segment, is the one whose last block may be the wild one.  *)
(***************************************************************************)
SegIds(M) == {M.seg[i].addr : i \in 1 .. Len(M.seg)}
SegIx(M, a) == CHOOSE i \in 1 .. Len(M.seg) : M.seg[i].addr = a
SegRec(M, a) == M.seg[SegIx(M, a)]
SEGBLOCK(s) == s.addr + SEGHEAD
Sentinel(s) == BLOCK(s.baddr)
Bottom(M) == Head(M.seg)
\* VMWILD(vd,b): the block after b is the bottom segment's sentinel
VMWILD(M, b) == NEXT(M, b) + HEAD >= Bottom(M).baddr
\* SEGWILD(b): the block after b is its own segment's sentinel
SEGWILD(M, b) == NEXT(M, b) + HEAD >= SegRec(M, SEG(M, b)).baddr
PushCache(M, b, i) == [SetLINK(M, b, M.cache[i]) EXCEPT !.cache[i] = b]
(***************************************************************************)
(* bestsearch(vd,size,wanted): find and delete a block of the free tree    *)
(* (top-down splay, lines 233-307), or unlink a tiniest block from TINY[0] *)
(* when wanted is one (lines 209-231).  Result: [m, r], r the block.       *)
(***************************************************************************)
RROTATE(M, x, y) == SetRIGHT(SetLEFT(M, x, RIGHT(M, y)), y, x)
LROTATE(M, x, y) == SetLEFT(SetRIGHT(M, x, LEFT(M, y)), y, x)
Splayed(M, root, l, r) == [m |-> M, root |-> root, l |-> l, r |-> r]

\* the do { ... } while((root = t)) loop of lines 237-272
RECURSIVE SplayLoop(_, _, _, _, _)
SplayLoop(M, size, root, l, r) ==
  LET Continue(m, t, ll, rr) ==
        IF t = NIL THEN Splayed(m, NIL, ll, rr) ELSE SplayLoop(m, size, t, ll, rr)
      s == SIZE(M, root)
  IN
  IF size = s THEN Splayed(M, root, l, r)
  ELSE IF size < s THEN
    LET t == LEFT(M, root) IN
    IF t # NIL /\ size <= SIZE(M, t) THEN
      LET M1 == RROTATE(M, root, t) IN
      IF size = SIZE(M, t) THEN Splayed(M1, t, l, r)
      ELSE Continue(SetLEFT(M1, r, t), LEFT(M1, t), l, t)
    ELSE IF t # NIL THEN
      LET M1 == SetRIGHT(M, l, t) IN
      Continue(SetLEFT(M1, r, root), RIGHT(M1, t), t, root)
    ELSE Continue(SetLEFT(M, r, root), NIL, l, root)
  ELSE
    LET t == RIGHT(M, root) IN
    IF t # NIL /\ size >= SIZE(M, t) THEN
      LET M1 == LROTATE(M, root, t) IN
      IF size = SIZE(M, t) THEN Splayed(M1, t, l, r)
      ELSE Continue(SetRIGHT(M1, l, t), RIGHT(M1, t), t, r)
    ELSE IF t # NIL THEN
      LET M1 == SetLEFT(M, r, t) IN
      Continue(SetRIGHT(M1, l, root), LEFT(M1, t), root, t)
    ELSE Continue(SetRIGHT(M, l, root), NIL, root, r)

\* while((t = LEFT(root))) RROTATE(root,t): bring the least node to the top
RECURSIVE LeftSpine(_, _)
LeftSpine(M, root) ==
  IF LEFT(M, root) = NIL THEN [m |-> M, root |-> root]
  ELSE LeftSpine(RROTATE(M, root, LEFT(M, root)), LEFT(M, root))

\* the segment whose range holds b (lines 219-228)
SegOfBlock(M, b) ==
  IF Len(M.seg) = 1 THEN Bottom(M).addr
  ELSE LET ix == SelectInSeq(M.seg, LAMBDA s : b > s.addr /\ b < s.baddr)
       IN IF ix = 0 THEN Assert(FALSE, "bestsearch: tiniest block in no segment")
          ELSE M.seg[ix].addr

TiniestDetach(M, root) ==
  LET l == TLEFT(M, root)
      r == LINK(M, root)
      M1 == IF r # NIL THEN SetTLEFT(M, r, l) ELSE M
      M2 == IF l # NIL THEN SetLINK(M1, l, r) ELSE [M1 EXCEPT !.tiny[0] = r]
  IN [m |-> SetSEG(M2, root, SegOfBlock(M2, root)), r |-> root]

\* lines 274-288: isolate the found node; when nothing fits exactly, take
\* the least node of the right tree
LeastTaken(g) == [m |-> SetLEFT(g.m, LINKBLK, RIGHT(g.m, g.root)), root |-> g.root]

SearchIsolate(S) ==
  IF S.root # NIL
  THEN [m |-> SetLEFT(SetRIGHT(S.m, S.l, LEFT(S.m, S.root)), S.r, RIGHT(S.m, S.root)),
        root |-> S.root]
  ELSE LET m1 == SetRIGHT(SetLEFT(S.m, S.r, NIL), S.l, NIL) IN
       IF LEFT(m1, LINKBLK) = NIL THEN [m |-> m1, root |-> NIL]
       ELSE LeastTaken(LeftSpine(m1, LEFT(m1, LINKBLK)))

\* lines 290-307: the new root is the next of an equal-size chain, or the
\* left tree grafted under the least of the right tree
LeastGrafted(g) == [m |-> SetLEFT(g.m, g.root, RIGHT(g.m, LINKBLK)), root |-> g.root]
Rooted(R, r) == [m |-> [R.m EXCEPT !.root = R.root], r |-> r]

SearchReroot(A) ==
  Rooted(IF A.root # NIL /\ LINK(A.m, A.root) # NIL
         THEN LET r == LINK(A.m, A.root)
                  m1 == SetLEFT(A.m, r, RIGHT(A.m, LINKBLK))
              IN [m |-> SetRIGHT(m1, r, LEFT(m1, LINKBLK)), root |-> r]
         ELSE IF LEFT(A.m, LINKBLK) = NIL
         THEN [m |-> A.m, root |-> RIGHT(A.m, LINKBLK)]
         ELSE LeastGrafted(LeftSpine(A.m, LEFT(A.m, LINKBLK))),
         A.root)

bestsearch(M, size, wanted) ==
  IF wanted # NIL /\ size = TINYSIZE THEN TiniestDetach(M, wanted)
  ELSE
  LET L0 == SetRIGHT(SetLEFT(M, LINKBLK, NIL), LINKBLK, NIL)
  IN SearchReroot(SearchIsolate(
       IF M.root # NIL THEN SplayLoop(L0, size, M.root, LINKBLK, LINKBLK)
       ELSE Splayed(L0, NIL, LINKBLK, LINKBLK)))

(***************************************************************************)
(* REMOVE(vd,b,i,t,bestsearch) (vmhdr.h): take free block b off its list. *)
(* A block marked with the LINK bit (RIGHT(b) == b) is a member of a tiny *)
(* list or of an equal-size chain and is unlinked through LEFT and LINK;  *)
(* a tiniest block or a tree node goes through bestsearch.                *)
(***************************************************************************)
REMOVE(M, b, i) ==
  IF i = 0 \/ ~ISLINK(M, b) THEN bestsearch(M, SIZE(M, b), b).m
  ELSE LET t == LINK(M, b)
           M1 == IF t # NIL THEN SetLEFT(M, t, LEFT(M, b)) ELSE M
       IN IF LEFT(M1, b) # NIL THEN SetLINK(M1, LEFT(M1, b), LINK(M1, b))
          ELSE [M1 EXCEPT !.tiny[i] = LINK(M1, b)]
(***************************************************************************)
(* bestreclaim(vd,wanted,c) (lines 311-463): coalesce the delayed frees of *)
(* cache lists S_CACHE down to c, lowering c when a forward merge swallows *)
(* a junk block of a lower list.  Result: [m, saw], saw = saw_wanted.      *)
(***************************************************************************)
\* lines 351-357: merge with a free block before fp
BackMerge(M, fp, size) ==
  IF ISPFREE(size)
  THEN LET p == LAST(M, fp)
           s == SIZE(M, p)
       IN [m |-> REMOVE(M, p, INDEX(s)), fp |-> p, size |-> CLRBITS(size) + s + HEAD]
  ELSE [m |-> M, fp |-> fp, size |-> CLRBITS(size)]

\* lines 359-377: absorb free and junk blocks after fp
\* fault model: c not lowered to a swallowed junk block's list (line 370)
RECURSIVE ForwardMergeNoLower(_,_,_,_)
ForwardMergeNoLower(M, fp, size, c) ==
  LET np == fp + size + HEAD
      s == SIZE(M, np)
  IN IF ~ISBUSY(s)
     THEN ForwardMergeNoLower(IF np = M.wild THEN [M EXCEPT !.wild = NIL]
                       ELSE REMOVE(M, np, INDEX(s)),
                       fp, size + s + HEAD, c)
     ELSE IF ISJUNK(s)
     THEN ForwardMergeNoLower(SetSIZE(M, np, 0), fp, size + CLRBITS(s) + HEAD,
                       c)
     ELSE [m |-> M, size |-> size, c |-> c]

RECURSIVE ForwardMerge(_, _, _, _)
ForwardMerge(M, fp, size, c) ==
  LET np == fp + size + HEAD
      s == SIZE(M, np)
  IN IF ~ISBUSY(s)
     THEN ForwardMerge(IF np = M.wild THEN [M EXCEPT !.wild = NIL]
                       ELSE REMOVE(M, np, INDEX(s)),
                       fp, size + s + HEAD, c)
     ELSE IF ISJUNK(s)
     THEN ForwardMerge(SetSIZE(M, np, 0), fp, size + CLRBITS(s) + HEAD,
                       MinOf(c, C_INDEX(s)))
     ELSE [m |-> M, size |-> size, c |-> c]

\* lines 378-384: fp becomes a free block
Settle(M, fp, size) ==
  LET M1 == SetSIZE(M, fp, size)
  IN SetSELF(SetBit(M1, NEXT(M1, fp), PFREE), fp)

\* lines 399-414: push fp on its tiny list
TinyPush(M, fp, s) ==
  LET np == M.tiny[s]
      M1 == SetLINK(M, fp, np)
      M2 == IF s = 0
            THEN SetTLEFT(IF np # NIL THEN SetTLEFT(M1, np, fp) ELSE M1, fp, NIL)
            ELSE SETLINK(SetLEFT(IF np # NIL THEN SetLEFT(M1, np, fp) ELSE M1, fp, NIL), fp)
  IN [M2 EXCEPT !.tiny[s] = fp]

\* lines 424-456: leaf insertion, or onto the chain of an equal-size node
RECURSIVE LeafInsert(_, _, _, _)
LeafInsert(M, fp, np, size) ==
  LET s == SIZE(M, np) IN
  IF s > size THEN
    IF LEFT(M, np) # NIL THEN LeafInsert(M, fp, LEFT(M, np), size)
    ELSE SetLEFT(M, np, fp)
  ELSE IF s < size THEN
    IF RIGHT(M, np) # NIL THEN LeafInsert(M, fp, RIGHT(M, np), size)
    ELSE SetRIGHT(M, np, fp)
  ELSE LET t == LINK(M, np)
           M1 == IF t # NIL THEN SetLEFT(SetLINK(M, fp, t), t, fp) ELSE M
       IN SETLINK(SetLEFT(SetLINK(M1, np, fp), fp, np), fp)

\* fault model: wilderness tested against fp's own segment (line 392)
HomeSegWild(M, fp) ==
  LET size == SIZE(M, fp) IN
  IF DATA(NEXT(M, fp)) >= SegRec(M, SEG(M, fp)).baddr THEN [M EXCEPT !.wild = fp]
  ELSE IF size < MAXTINY THEN TinyPush(M, fp, INDEX(size))
  ELSE LET M1 == SetLEFT(SetRIGHT(SetLINK(M, fp, NIL), fp, NIL), fp, NIL) IN
       IF M1.root = NIL THEN [M1 EXCEPT !.root = fp]
       ELSE LeafInsert(M1, fp, M1.root, size)

\* lines 392-456: the home of a reclaimed block
Home(M, fp) ==
  LET size == SIZE(M, fp) IN
  IF DATA(NEXT(M, fp)) >= Bottom(M).baddr THEN [M EXCEPT !.wild = fp]
  ELSE IF size < MAXTINY THEN TinyPush(M, fp, INDEX(size))
  ELSE LET M1 == SetLEFT(SetRIGHT(SetLINK(M, fp, NIL), fp, NIL), fp, NIL) IN
       IF M1.root = NIL THEN [M1 EXCEPT !.root = fp]
       ELSE LeafInsert(M1, fp, M1.root, size)

\* the while((fp = list)) loop of lines 328-457; next is read before fp
\* is merged (line 345)
RECURSIVE ReclaimList(_, _, _, _, _), ReclaimMerged(_, _, _, _, _),
          ReclaimSettled(_, _, _, _, _)
ReclaimList(M, wanted, c, list, saw) ==
  IF list = NIL THEN [m |-> M, c |-> c, saw |-> saw]
  ELSE IF ~ISJUNK(SIZE(M, list)) THEN ReclaimList(M, wanted, c, LINK(M, list), saw)
  ELSE ReclaimMerged(BackMerge(M, list, SIZE(M, list)), wanted, c, LINK(M, list), saw)

ReclaimMerged(B, wanted, c, next, saw) ==
  ReclaimSettled(ForwardMerge(B.m, B.fp, B.size, c), B.fp, wanted, next, saw)

\* lines 378-390: the wanted block is left off every list
ReclaimSettled(F, fp, wanted, next, saw) ==
  IF fp = wanted THEN ReclaimList(Settle(F.m, fp, F.size), wanted, F.c, next, TRUE)
  ELSE ReclaimList(Home(Settle(F.m, fp, F.size), fp), wanted, F.c, next, saw)

\* for(n = S_CACHE; n >= c; --n), c lowered on the way
RECURSIVE ReclaimFrom(_, _, _, _, _), ReclaimNext(_, _, _)
ReclaimFrom(M, wanted, c, n, saw) ==
  IF n < c THEN [m |-> M, saw |-> saw]
  ELSE ReclaimNext(ReclaimList([M EXCEPT !.cache[n] = NIL], wanted, c, M.cache[n], saw),
                   wanted, n)

ReclaimNext(R, wanted, n) == ReclaimFrom(R.m, wanted, R.c, n - 1, R.saw)

bestreclaim(M, wanted, c) ==
  LET M0 == IF M.free # NIL
            THEN [PushCache(M, M.free, S_CACHE) EXCEPT !.free = NIL]
            ELSE M
  IN ReclaimFrom(M0, wanted, c, S_CACHE, wanted = NIL)
(***************************************************************************)
(* The raw-memory side (vmprivate.c, not part of this file): _Vmextend and *)
(* _Vmtruncate as the spec (sections 4.7, 4.11, 6) describes them.  The    *)
(* provider's answers come in pv = [grow, base, shrink]: whether it grows  *)
(* the bottom segment in place, the base of a fresh segment (NIL: out of   *)
(* memory), and per segment whether it accepts a shrink or a release.      *)
(***************************************************************************)
\* pages handed back to the system read as zero when handed out again
Zero(M, lo, hi) == [M EXCEPT !.w = [a \in Addr |-> IF a >= lo /\ a < hi THEN 0 ELSE @[a]]]

\* fault model: a new segment always linked at the tail
InsertSegAtTail(segs, sg) == Append(segs, sg)

InsertSeg(segs, sg) ==
  LET ix == SelectInSeq(segs, LAMBDA x : sg.addr > x.addr)
  IN IF ix = 0 THEN Append(segs, sg) ELSE InsertAt(segs, ix, sg)

\* the tail of _Vmextend: sentinel, and the wild block re-homed if the
\* bottom segment changed
ExtendTail(M, bp) ==
  LET tp == NEXT(M, bp)
      M1 == SetSIZE(SetSEG(M, tp, SEG(M, bp)), tp, BUSY)
      w == M1.wild
  IN IF w # NIL /\ SEG(M1, w) # Bottom(M1).addr
     THEN LET M2 == SetBit(SetBit(ClrBit(M1, NEXT(M1, w), PFREE), w, BUSY), w, JUNK)
          IN [PushCache(M2, w, C_INDEX(SIZE(M2, w))) EXCEPT !.wild = NIL]
     ELSE M1

\* the bottom segment grown in place by ext bytes: the block that ends it
\* (the old sentinel, or the free block before it) takes the new bytes
ExtendGrown(M, bp, ext) ==
  [m |-> ExtendTail([M EXCEPT !.seg[1] = [@ EXCEPT !.size = @ + ext, !.extent = @ + ext,
                                                  !.baddr = @ + ext]], bp),
   bp |-> bp]

AddSIZE(M, b, n) == SetSIZE(M, b, SIZE(M, b) + n)

ExtendFreeLast(M, bp, ext) ==
  ExtendGrown(AddSIZE(IF bp = M.wild THEN [M EXCEPT !.wild = NIL]
                      ELSE REMOVE(M, bp, INDEX(SIZE(M, bp))), bp, ext), bp, ext)

\* fault model: the old sentinel grown by the whole extension, its header included
ExtendBottomSentinelOff(M, ext) ==
  LET sn == Sentinel(Bottom(M)) IN
  IF ~ISPFREE(SIZE(M, sn)) THEN ExtendGrown(SetSIZE(M, sn, ext), sn, ext)
  ELSE ExtendFreeLast(M, LAST(M, sn), ext)

ExtendBottom(M, ext) ==
  LET sn == Sentinel(Bottom(M)) IN
  IF ~ISPFREE(SIZE(M, sn)) THEN ExtendGrown(SetSIZE(M, sn, ext - HEAD), sn, ext)
  ELSE ExtendFreeLast(M, LAST(M, sn), ext)

\* a fresh segment at base a, linked into the list by address
ExtendFresh(M, a, ext) ==
  LET bp == a + SEGHEAD
      body == (a + ext) - bp - 2 * HEAD
      sg == [addr |-> a, extent |-> ext, baddr |-> a + ext, size |-> body]
      M1 == SetSIZE(SetSEG(M, bp, a), bp, body)
  IN [m |-> ExtendTail([M1 EXCEPT !.seg = InsertSeg(M.seg, sg)], bp), bp |-> bp]

Vmextend(M, size, pv) ==
  LET incr0 == IF M.incr <= 0 THEN INCR0 ELSE M.incr
      ext == ROUND(size + SEGHEAD + 2 * HEAD, incr0)
      M0 == [M EXCEPT !.incr = IF ext > 2 * incr0 /\ PAGE < incr0 THEN 2 * incr0 ELSE incr0]
  IN
  IF M.seg # <<>> /\ pv.grow /\ Bottom(M).extent + ext <= SLOTCAP THEN ExtendBottom(M0, ext)
  ELSE IF pv.base # NIL /\ pv.base \notin SegIds(M) /\ ext <= SLOTCAP
  THEN ExtendFresh(M0, pv.base, ext)
  ELSE [m |-> M0, bp |-> NIL]

Vmtruncate(M, a, size, pv) ==
  LET sg == SegRec(M, a)
      i == SegIx(M, a)
      q == (size \div M.incr) * M.incr
      less == IF q > 0 /\ size > q /\ size - q < BLOCKSIZE
              THEN (IF q <= M.incr THEN 0 ELSE q - M.incr) ELSE q
  IN IF size < sg.size THEN
       IF less <= 0 \/ ~pv.shrink[a] THEN [m |-> M, r |-> 0]
       ELSE LET nb == sg.baddr - less
                M1 == SetSIZE(SetSEG(Zero(M, nb, sg.baddr), BLOCK(nb), a), BLOCK(nb), BUSY)
            IN [m |-> [M1 EXCEPT !.seg[i] = [sg EXCEPT !.extent = @ - less,
                                               !.size = @ - less, !.baddr = nb]],
                r |-> less]
     ELSE IF pv.shrink[a]
     THEN [m |-> [Zero(M, a, sg.baddr) EXCEPT !.seg = RemoveAt(@, i)], r |-> size]
     ELSE [m |-> M, r |-> 0]

(***************************************************************************)
(* bestcompact(vm,local) (lines 465-541).                                  *)
(***************************************************************************)
\* lines 509-532: give the trailing free block bp of segment a back; what
\* _vmtruncate leaves of it is re-headed and cached as junk
Trimmed(T, a, bp, segsize) ==
  LET rest == IF T.r > 0 THEN SegRec(T.m, a).baddr - bp - HEAD ELSE 0
      M2 == IF T.r > 0 THEN SetSIZE(T.m, bp, rest - HEAD) ELSE T.m
      M3 == SetBit(SetBit(M2, bp, BUSY), bp, JUNK)
  IN IF T.r > 0 /\ T.r >= segsize THEN T.m
     ELSE IF T.r > 0 /\ rest <= 0 THEN T.m
     ELSE PushCache(M3, bp, C_INDEX(SIZE(M3, bp)))

Trim(M, pv, a, bp, size) ==
  LET M1 == ClrBit(M, NEXT(M, bp), PFREE)
      segsize == SegRec(M1, a).size
  IN Trimmed(Vmtruncate(M1, a, IF size < segsize THEN size + HEAD ELSE size, pv),
             a, bp, segsize)

CompactSeg(M, pv, a) ==
  LET sn == Sentinel(SegRec(M, a))
      bp == LAST(M, sn)
      size == SIZE(M, bp)
      incr == IF size > COMPACT * M.incr /\ M.incr > PAGE THEN M.incr \div 2 ELSE M.incr
  IN IF ~ISPFREE(SIZE(M, sn)) THEN M
     ELSE IF bp = M.wild /\ (size <= COMPACT * incr \/ size <= COMPACT * M.pool)
     THEN [M EXCEPT !.incr = incr]
     ELSE Trim(IF bp = M.wild THEN [M EXCEPT !.incr = incr, !.wild = NIL, !.pool = 0]
               ELSE REMOVE(M, bp, INDEX(size)),
               pv, a, bp, size)

\* for(seg = vd->seg; seg; seg = next): next is read before seg is trimmed
RECURSIVE CompactSegs(_, _, _)
CompactSegs(M, pv, as) ==
  IF as = <<>> THEN M ELSE CompactSegs(CompactSeg(M, pv, Head(as)), pv, Tail(as))

CompactAll(M, pv) == CompactSegs(M, pv, [i \in 1 .. Len(M.seg) |-> M.seg[i].addr])

bestcompact(M, pv) == CompactAll(bestreclaim(M, NIL, 0).m, pv)

(***************************************************************************)
(* bestalloc(vm,size,local) (lines 543-646).  Result: [m, tp].             *)
(***************************************************************************)
\* lines 609-636: shave the surplus off tp into the wild block or vd->free
\* fault model: the surplus is split off however small it is
GotBlockNoSplitGuard(M, tp, size) ==
  LET M1 == ClrBit(M, NEXT(M, tp), PFREE)
      s == SIZE(M1, tp) - size
      Ma == SetSIZE(M1, tp, size)
      np == NEXT(Ma, tp)
      Mc == SetSIZE(SetSEG(Ma, np, SEG(Ma, tp)), np, (s - HEAD) + BUSY + JUNK)
      Md == SetSELF(SetSIZE(Mc, np, CLRBITS(SIZE(Mc, np))), np)
      M2 == IF VMWILD(Mc, np)
            THEN [SetBit(Md, NEXT(Md, np), PFREE) EXCEPT !.wild = np]
            ELSE [Mc EXCEPT !.free = np]
  IN [m |-> SetBit(M2, tp, BUSY), tp |-> tp]

\* fault model: CLRPFREE of the next block forgotten (line 617)
GotBlockKeepPfree(M, tp, size) ==
  LET M1 == M
      s == SIZE(M1, tp) - size
      Ma == SetSIZE(M1, tp, size)
      np == NEXT(Ma, tp)
      Mc == SetSIZE(SetSEG(Ma, np, SEG(Ma, tp)), np, (s - HEAD) + BUSY + JUNK)
      Md == SetSELF(SetSIZE(Mc, np, CLRBITS(SIZE(Mc, np))), np)
      M2 == IF s < HEAD + BODYSIZE THEN M1
            ELSE IF VMWILD(Mc, np)
            THEN [SetBit(Md, NEXT(Md, np), PFREE) EXCEPT !.wild = np]
            ELSE [Mc EXCEPT !.free = np]
  IN [m |-> SetBit(M2, tp, BUSY), tp |-> tp]

GotBlock(M, tp, size) ==
  LET M1 == ClrBit(M, NEXT(M, tp), PFREE)
      s == SIZE(M1, tp) - size
      Ma == SetSIZE(M1, tp, size)
      np == NEXT(Ma, tp)
      Mc == SetSIZE(SetSEG(Ma, np, SEG(Ma, tp)), np, (s - HEAD) + BUSY + JUNK)
      Md == SetSELF(SetSIZE(Mc, np, CLRBITS(SIZE(Mc, np))), np)
      M2 == IF s < HEAD + BODYSIZE THEN M1
            ELSE IF VMWILD(Mc, np)
            THEN [SetBit(Md, NEXT(Md, np), PFREE) EXCEPT !.wild = np]
            ELSE [Mc EXCEPT !.free = np]
  IN [m |-> SetBit(M2, tp, BUSY), tp |-> tp]

\* lines 593-597: reclaim list by list, trying the tree after each
RECURSIVE SearchCache(_, _, _), SearchReclaimed(_, _, _), SearchFound(_, _, _)
SearchCache(M, size, n) ==
  IF n < 0 THEN [m |-> M, tp |-> NIL]
  ELSE SearchReclaimed(bestreclaim(M, NIL, n).m, size, n)

SearchReclaimed(R, size, n) ==
  IF R.root = NIL THEN SearchCache(R, size, n - 1)
  ELSE SearchFound(bestsearch(R, size, NIL), size, n)

SearchFound(S, size, n) ==
  IF S.r # NIL THEN [m |-> S.m, tp |-> S.r] ELSE SearchCache(S.m, size, n - 1)

\* lines 576-586: carve the request off the last freed block
LastFreeFits(M, tp, size) ==
  LET s == SIZE(M, tp)
      Ma == SetSIZE(M, tp, size)
      np == NEXT(Ma, tp)
      Mb == SetSIZE(SetSEG(Ma, np, SEG(Ma, tp)), np,
                    (CLRBITS(s) - (size + HEAD)) + JUNK + BUSY)
      M1 == IF s >= size + (HEAD + BODYSIZE)
            THEN [SetSIZE(Mb, tp, size + (s % 8)) EXCEPT !.free = np]
            ELSE M
  IN [m |-> ClrBit(M1, tp, JUNK), tp |-> tp]

\* lines 599-608: the wild block, else compact and extend the arena
AllocExtended(E, size) ==
  IF E.bp # NIL THEN GotBlock(E.m, E.bp, size) ELSE [m |-> E.m, tp |-> NIL]

AllocSearched(S, size, pv) ==
  LET w == S.m.wild IN
  IF S.tp # NIL THEN GotBlock(S.m, S.tp, size)
  ELSE IF w # NIL /\ SIZE(S.m, w) >= size THEN GotBlock([S.m EXCEPT !.wild = NIL], w, size)
  ELSE AllocExtended(Vmextend(bestcompact(S.m, pv), size, pv), size)

\* fault model: vd->free not cleared before reuse (line 575)
bestallocKeepFree(M, req, pv) ==
  LET size == IF req <= BODYSIZE THEN BODYSIZE ELSE ROUND(req, ALIGN)
      tp == M.free
      M0 == [M EXCEPT !.free = NIL]
  IN IF tp # NIL /\ SIZE(M, tp) >= size /\ SIZE(M, tp) < 2 * size
     THEN LastFreeFits(M, tp, size)
     ELSE AllocSearched(SearchCache(IF tp # NIL THEN PushCache(M0, tp, S_CACHE) ELSE M0,
                                    size, S_CACHE), size, pv)

bestalloc(M, req, pv) ==
  LET size == IF req <= BODYSIZE THEN BODYSIZE ELSE ROUND(req, ALIGN)
      tp == M.free
      M0 == [M EXCEPT !.free = NIL]
  IN IF tp # NIL /\ SIZE(M, tp) >= size /\ SIZE(M, tp) < 2 * size
     THEN LastFreeFits(M0, tp, size)
     ELSE AllocSearched(SearchCache(IF tp # NIL THEN PushCache(M0, tp, S_CACHE) ELSE M0,
                                    size, S_CACHE), size, pv)

(***************************************************************************)
(* bestfree(vm,data,local) (lines 695-758).                                *)
(***************************************************************************)
\* lines 747-753: a large free reclaims at once, and compacts when the
\* wild block has grown past COMPACT increments
FreeCompact(R, pv) ==
  IF R.wild # NIL /\ SIZE(R, R.wild) >= COMPACT * R.incr THEN bestcompact(R, pv) ELSE R

\* lines 731-741: file bp, whose size word read s, in its cache list, in
\* vd->free, or in the catch-all list.  A busy size word below TINYSIZE is
\* a sentinel's; INDEX of it wraps (size_t) past CACHE(vd)[], and the
\* two writes of lines 733-734 land outside the region's state: the
\* outcome modelled is that they change nothing modelled.
FreePush(M, bp, s) ==
  IF s < MAXCACHE /\ INDEX(s) \notin DOMAIN M.cache THEN M
  ELSE IF s < MAXCACHE THEN PushCache(M, bp, INDEX(s))
  ELSE IF M.free = NIL THEN [M EXCEPT !.free = bp]
  ELSE PushCache(M, bp, S_CACHE)

\* fault model: SETJUNK forgotten (line 730)
bestfreeNoJunk(M, data, pv) ==
  LET bp == BLOCK(data)
      s == SIZE(M, bp)
      M0 == [M EXCEPT !.pool = (M.pool + CLRBITS(s)) \div 2]
      M2 == FreePush(M0, bp, s)
  IN IF data = NIL THEN M
     ELSE IF ~(ISBUSY(s) /\ ~ISJUNK(s)) THEN M0
     ELSE IF SIZE(M2, bp) < 2 * M2.incr THEN M2
     ELSE FreeCompact(bestreclaim(M2, NIL, 0).m, pv)

\* fault model: the guard of line 728 without !ISJUNK(s)
bestfreeRefiles(M, data, pv) ==
  LET bp == BLOCK(data)
      s == SIZE(M, bp)
      M0 == [M EXCEPT !.pool = (M.pool + CLRBITS(s)) \div 2]
      M2 == FreePush(SetBit(M0, bp, JUNK), bp, s)
  IN IF data = NIL THEN M
     ELSE IF ~ISBUSY(s) THEN M0
     ELSE IF SIZE(M2, bp) < 2 * M2.incr THEN M2
     ELSE FreeCompact(bestreclaim(M2, NIL, 0).m, pv)

bestfree(M, data, pv) ==
  LET bp == BLOCK(data)
      s == SIZE(M, bp)
      M0 == [M EXCEPT !.pool = (M.pool + CLRBITS(s)) \div 2]
      M2 == FreePush(SetBit(M0, bp, JUNK), bp, s)
  IN IF data = NIL THEN M
     ELSE IF ~(ISBUSY(s) /\ ~ISJUNK(s)) THEN M0
     ELSE IF SIZE(M2, bp) < 2 * M2.incr THEN M2
     ELSE FreeCompact(bestreclaim(M2, NIL, 0).m, pv)
(***************************************************************************)
(* bestresize(vm,data,size,type,local) (lines 760-874).  type is a set of  *)
(* the flags "MOVE", "COPY", "ZERO".  Result: [m, data, saw], saw FALSE    *)
(* when the reclaim of line 803 did not see np (the ASSERT(0) of 804).     *)
(***************************************************************************)
\* memset and memcpy on the words of a body
\* fault model: memcpy from the old block header instead of its body
CopyFromHeader(M, to, from, n) ==
  [M EXCEPT !.w = [a \in Addr |-> IF a >= to /\ a < to + n THEN @[BLOCK(from) + (a - to)] ELSE @[a]]]

Copy(M, to, from, n) ==
  [M EXCEPT !.w = [a \in Addr |-> IF a >= to /\ a < to + n THEN @[from + (a - to)] ELSE @[a]]]

\* the do { ... } while(SIZE(rp) < size) loop of lines 795-817
RECURSIVE GrowLoop(_, _, _, _, _)

\* lines 803-805: the junk np is reclaimed, told to keep np off the lists
GrowReclaimed(J, np, saw) == [m |-> J.m, s |-> SIZE(J.m, np), saw |-> saw /\ J.saw]

\* lines 798-813: take np, a free or junk block, off wherever it is
\* fault model: the reclaim of line 803 starts one list above np's
GrowTakePastList(M, np, s, saw) ==
  IF np = M.free THEN [m |-> [M EXCEPT !.free = NIL], s |-> CLRBITS(s), saw |-> saw]
  ELSE IF ISJUNK(s) THEN GrowReclaimed(bestreclaim(M, np, C_INDEX(s) + 1), np, saw)
  ELSE IF np = M.wild THEN [m |-> [M EXCEPT !.wild = NIL], s |-> s, saw |-> saw]
  ELSE [m |-> REMOVE(M, np, INDEX(s)), s |-> s, saw |-> saw]

\* fault model: vd->wild not cleared when rp swallows it (line 809)
GrowTakeKeepWild(M, np, s, saw) ==
  IF np = M.free THEN [m |-> [M EXCEPT !.free = NIL], s |-> CLRBITS(s), saw |-> saw]
  ELSE IF ISJUNK(s) THEN GrowReclaimed(bestreclaim(M, np, C_INDEX(s)), np, saw)
  ELSE IF np = M.wild THEN [m |-> M, s |-> s, saw |-> saw]
  ELSE [m |-> REMOVE(M, np, INDEX(s)), s |-> s, saw |-> saw]

GrowTake(M, np, s, saw) ==
  IF np = M.free THEN [m |-> [M EXCEPT !.free = NIL], s |-> CLRBITS(s), saw |-> saw]
  ELSE IF ISJUNK(s) THEN GrowReclaimed(bestreclaim(M, np, C_INDEX(s)), np, saw)
  ELSE IF np = M.wild THEN [m |-> [M EXCEPT !.wild = NIL], s |-> s, saw |-> saw]
  ELSE [m |-> REMOVE(M, np, INDEX(s)), s |-> s, saw |-> saw]

\* lines 814-817: rp absorbs it, and the loop goes on while rp is short
\* fault model: CLRPFREE of the new next block forgotten (line 816)
GrowMergedKeepPfree(P, rp, np, size) ==
  LET np1 == np + P.s + HEAD
      M2 == AddSIZE(P.m, rp, P.s + HEAD)
  IN IF SIZE(M2, rp) < size THEN GrowLoop(M2, rp, np1, size, P.saw)
     ELSE [m |-> M2, saw |-> P.saw]

GrowMerged(P, rp, np, size) ==
  LET np1 == np + P.s + HEAD
      M2 == ClrBit(AddSIZE(P.m, rp, P.s + HEAD), np1, PFREE)
  IN IF SIZE(M2, rp) < size THEN GrowLoop(M2, rp, np1, size, P.saw)
     ELSE [m |-> M2, saw |-> P.saw]

GrowLoop(M, rp, np, size, saw) ==
  LET s == SIZE(M, np) IN
  IF ISBUSY(s) /\ ~ISJUNK(s) /\ np # M.free THEN [m |-> M, saw |-> saw]
  ELSE GrowMerged(GrowTake(M, np, s, saw), rp, np, size)

\* lines 819-835: grow rp's segment in place when rp is its last block
GrowSeg(M, rp, size, pv) ==
  LET s == ROUND((size - SIZE(M, rp)) + HEAD, M.incr)
      sg == SegRec(M, SEG(M, rp))
      M1 == SetSIZE(M, rp, SIZE(M, rp) + s)
      np == rp + CLRBITS(SIZE(M1, rp)) + HEAD
      M2 == SetSIZE(SetSEG(M1, np, sg.addr), np, BUSY)
  IN IF SIZE(M, rp) < size /\ size > M.incr /\ SEGWILD(M, rp)
        /\ pv.grow /\ sg.extent + s <= SLOTCAP
     THEN [M2 EXCEPT !.seg[SegIx(M, sg.addr)] =
             [sg EXCEPT !.extent = @ + s, !.size = @ + s, !.baddr = @ + s]]
     ELSE M

\* do_free (lines 856-860): rp goes on the catch-all list and is reclaimed
ResizeFree(M, rp) ==
  bestreclaim(PushCache(SetBit(M, rp, JUNK), rp, S_CACHE), NIL, S_CACHE).m

\* lines 865-866: VM_RSZERO clears what the block gained
ResizeZeroed(R, oldz, type, saw) ==
  LET nz == IF R.d # NIL THEN CLRBITS(SIZE(R.m, BLOCK(R.d))) ELSE 0
  IN [m |-> IF R.d # NIL /\ "ZERO" \in type /\ nz > oldz
            THEN Zero(R.m, R.d + oldz, R.d + nz) ELSE R.m,
      d |-> R.d, saw |-> saw]

\* lines 847-863: move to the block A that bestalloc found, if allowed
ResizeMove(A, Mg, data, s, type) ==
  LET moveable == type \cap {"MOVE", "COPY"} # {} IN
  IF ~moveable \/ A.tp = NIL THEN [m |-> IF moveable THEN A.m ELSE Mg, d |-> NIL]
  ELSE [m |-> ResizeFree(IF "COPY" \in type THEN Copy(A.m, DATA(A.tp), data, CLRBITS(s))
                         ELSE A.m, BLOCK(data)),
        d |-> DATA(A.tp)]

\* lines 838-846: split off the surplus of the grown block, or move it
\* fault model: the surplus header written one header too low (line 840)
ResizeSplitShortHeader(Mg, data, size, oldz, type, pv, saw) ==
  LET rp == BLOCK(data)
      s == SIZE(Mg, rp)
      Ms == SetSIZE(Mg, rp, size)
      np == NEXT(Ms, rp) - HEAD
      Mt == SetSIZE(SetSEG(Ms, np, SEG(Ms, rp)), np, ((CLRBITS(s) - size) - HEAD) + BUSY + JUNK)
  IN ResizeZeroed(
       IF s >= size + (BODYSIZE + HEAD)
       THEN [m |-> ResizeFree(SetSIZE(Mt, rp, size + (s % 8)), np), d |-> data]
       ELSE IF CLRBITS(s) >= size THEN [m |-> Mg, d |-> data]
       ELSE ResizeMove(bestalloc(Mg, size, pv), Mg, data, s, type),
       oldz, type, saw)

ResizeSplit(Mg, data, size, oldz, type, pv, saw) ==
  LET rp == BLOCK(data)
      s == SIZE(Mg, rp)
      Ms == SetSIZE(Mg, rp, size)
      np == NEXT(Ms, rp)
      Mt == SetSIZE(SetSEG(Ms, np, SEG(Ms, rp)), np, ((CLRBITS(s) - size) - HEAD) + BUSY + JUNK)
  IN ResizeZeroed(
       IF s >= size + (BODYSIZE + HEAD)
       THEN [m |-> ResizeFree(SetSIZE(Mt, rp, size + (s % 8)), np), d |-> data]
       ELSE IF CLRBITS(s) >= size THEN [m |-> Mg, d |-> data]
       ELSE ResizeMove(bestalloc(Mg, size, pv), Mg, data, s, type),
       oldz, type, saw)

\* lines 818-836: after the merge loop, grow the segment if still short
ResizeGrown(G, data, size, oldz, type, pv) ==
  ResizeSplit(GrowSeg(G.m, BLOCK(data), size, pv), data, size, oldz, type, pv, G.saw)

\* lines 775-783: resize of NULL allocates
ResizeNew(N, req, type) ==
  [m |-> IF N.tp # NIL /\ "ZERO" \in type THEN Zero(N.m, DATA(N.tp), DATA(N.tp) + req) ELSE N.m,
   d |-> IF N.tp = NIL THEN NIL ELSE DATA(N.tp), saw |-> TRUE]

bestresize(M, data, req, type, pv) ==
  LET size == IF req <= BODYSIZE THEN BODYSIZE ELSE ROUND(req, ALIGN)
      rp == BLOCK(data)
      oldz == CLRBITS(SIZE(M, rp))
  IN IF data = NIL THEN ResizeNew(bestalloc(M, req, pv), req, type)
     ELSE IF req = 0 THEN [m |-> bestfree(M, data, pv), d |-> NIL, saw |-> TRUE]
     ELSE IF oldz < size
     THEN ResizeGrown(GrowLoop(M, rp, rp + oldz + HEAD, size, TRUE), data, size, oldz, type, pv)
     ELSE ResizeSplit(M, data, size, oldz, type, pv, TRUE)

(***************************************************************************)
(* bestalign(vm,size,align,local) (lines 913-992), for a region that is   *)
(* not a debug region (extra = 0).  Result: [m, d].                        *)
(***************************************************************************)
\* lines 940-988: carve an aligned block out of the block A.tp that
\* bestalloc returned
\* fault model: the bits of np not copied back (line 980)
AlignCarveDropBits(A, size, align) ==
  LET tp == A.tp
      seg == SEG(A.m, tp)
      d0 == DATA(tp)
      d1 == IF d0 % align # 0 THEN d0 + align - (d0 % align) ELSE d0
      d2 == IF BLOCK(d1) # tp /\ BLOCK(d1) - tp < BLOCKSIZE THEN d1 + align ELSE d1
      np == BLOCK(d2)
      gap == np - tp
      \* lines 954-968: the leading part goes to the cache
      Ml == IF np = tp THEN A.m
            ELSE LET m1 == SetSEG(SetSIZE(A.m, np, (CLRBITS(SIZE(A.m, tp)) - gap) + BUSY), np, seg)
                     m2 == SetSIZE(m1, tp, (gap - HEAD) + (SIZE(A.m, tp) % 8) + JUNK)
                 IN PushCache(m2, tp, C_INDEX(SIZE(m2, tp)))
      \* lines 970-981: so does the trailing part
      s == SIZE(Ml, np) - size
      Mn == SetSIZE(Ml, np, size)
      t2 == NEXT(Mn, np)
      Mr == LET m1 == SetSEG(SetSIZE(Mn, t2, (CLRBITS(s) - HEAD) + BUSY + JUNK), t2, seg)
                m2 == PushCache(m1, t2, C_INDEX(SIZE(m1, t2)))
            IN SetSIZE(m2, np, size)
  IN IF tp = NIL THEN [m |-> A.m, d |-> NIL]
     ELSE [m |-> bestreclaim(IF s >= BLOCKSIZE THEN Mr ELSE Ml, NIL, 0).m, d |-> d2]

\* fault model: the leading part is filed without JUNK (line 964)
AlignCarveLeadBusy(A, size, align) ==
  LET tp == A.tp
      seg == SEG(A.m, tp)
      d0 == DATA(tp)
      d1 == IF d0 % align # 0 THEN d0 + align - (d0 % align) ELSE d0
      d2 == IF BLOCK(d1) # tp /\ BLOCK(d1) - tp < BLOCKSIZE THEN d1 + align ELSE d1
      np == BLOCK(d2)
      gap == np - tp
      \* lines 954-968: the leading part goes to the cache
      Ml == IF np = tp THEN A.m
            ELSE LET m1 == SetSEG(SetSIZE(A.m, np, (CLRBITS(SIZE(A.m, tp)) - gap) + BUSY), np, seg)
                     m2 == SetSIZE(m1, tp, (gap - HEAD) + (SIZE(A.m, tp) % 8))
                 IN PushCache(m2, tp, C_INDEX(SIZE(m2, tp)))
      \* lines 970-981: so does the trailing part
      s == SIZE(Ml, np) - size
      Mn == SetSIZE(Ml, np, size)
      t2 == NEXT(Mn, np)
      Mr == LET m1 == SetSEG(SetSIZE(Mn, t2, (CLRBITS(s) - HEAD) + BUSY + JUNK), t2, seg)
                m2 == PushCache(m1, t2, C_INDEX(SIZE(m1, t2)))
            IN SetSIZE(m2, np, size + (s % 8))
  IN IF tp = NIL THEN [m |-> A.m, d |-> NIL]
     ELSE [m |-> bestreclaim(IF s >= BLOCKSIZE THEN Mr ELSE Ml, NIL, 0).m, d |-> d2]

AlignCarve(A, size, align) ==
  LET tp == A.tp
      seg == SEG(A.m, tp)
      d0 == DATA(tp)
      d1 == IF d0 % align # 0 THEN d0 + align - (d0 % align) ELSE d0
      d2 == IF BLOCK(d1) # tp /\ BLOCK(d1) - tp < BLOCKSIZE THEN d1 + align ELSE d1
      np == BLOCK(d2)
      gap == np - tp
      \* lines 954-968: the leading part goes to the cache
      Ml == IF np = tp THEN A.m
            ELSE LET m1 == SetSEG(SetSIZE(A.m, np, (CLRBITS(SIZE(A.m, tp)) - gap) + BUSY), np, seg)
                     m2 == SetSIZE(m1, tp, (gap - HEAD) + (SIZE(A.m, tp) % 8) + JUNK)
                 IN PushCache(m2, tp, C_INDEX(SIZE(m2, tp)))
      \* lines 970-981: so does the trailing part
      s == SIZE(Ml, np) - size
      Mn == SetSIZE(Ml, np, size)
      t2 == NEXT(Mn, np)
      Mr == LET m1 == SetSEG(SetSIZE(Mn, t2, (CLRBITS(s) - HEAD) + BUSY + JUNK), t2, seg)
                m2 == PushCache(m1, t2, C_INDEX(SIZE(m1, t2)))
            IN SetSIZE(m2, np, size + (s % 8))
  IN IF tp = NIL THEN [m |-> A.m, d |-> NIL]
     ELSE [m |-> bestreclaim(IF s >= BLOCKSIZE THEN Mr ELSE Ml, NIL, 0).m, d |-> d2]

bestalign(M, req, align, pv) ==
  LET size == IF req <= BODYSIZE THEN BODYSIZE ELSE ROUND(req, ALIGN)
  IN IF req <= 0 \/ align <= 0 THEN [m |-> M, d |-> NIL]
     ELSE AlignCarve(bestalloc(bestreclaim(M, NIL, 0).m, size + 2 * (align + HEAD), pv),
                     size, align)
(***************************************************************************)
(* The region and its callers.                                             *)
(***************************************************************************)
CONSTANTS
    Req,        \* request sizes a caller passes
    MAXHELD,    \* the most blocks callers hold at once
    Ops,        \* the entry points callers use in this model
    RszTypes,   \* the flag sets callers pass to resize
    Aligns,     \* the alignments callers pass to align (multiples of ALIGN)
    UserWords   \* the words a caller may write into the bytes it asked for

\* a word a caller writes into its block with BUSY and JUNK clear; no
\* address, so a pointer read from a body leaves the address space
USERWORD == MEMTOP + WORD
\* the caller writes the word uw over the bytes [lo, hi) of its block
Fill(w, lo, hi, uw) == [a \in Addr |-> IF a >= lo /\ a < hi THEN uw ELSE w[a]]

VARIABLES
    mem,        \* the words of every segment
    vd,         \* Vmdata_t: seg, free, wild, root, tiny[], cache[], incr, pool
    held,       \* body address -> size the caller asked for
    ret,        \* the operation just performed and what it returned
    freed,      \* history: bodies freed, not handed again, header not written over
    live        \* the bodies bestaddr accepts, with their bestsize

vars == <<mem, vd, held, ret, freed, live>>

St == [w |-> mem, seg |-> vd.seg, free |-> vd.free, wild |-> vd.wild,
       root |-> vd.root, tiny |-> vd.tiny, cache |-> vd.cache,
       incr |-> vd.incr, pool |-> vd.pool]

Commit(M) ==
  /\ vd' = [seg |-> M.seg, free |-> M.free, wild |-> M.wild, root |-> M.root,
            tiny |-> M.tiny, cache |-> M.cache, incr |-> M.incr, pool |-> M.pool]

Provider == [grow : BOOLEAN, base : Slots \cup {NIL}, shrink : [Slots -> BOOLEAN]]
\* bestfree and bestcompact only ever give memory back, so of the
\* provider's answers only shrink is read on their paths
Releaser == {pv \in Provider : ~pv.grow /\ pv.base = NIL}

Drop(f, x) == [y \in DOMAIN f \ {x} |-> f[y]]
Give(f, x, n) == [y \in DOMAIN f \cup {x} |-> IF y = x THEN n ELSE f[y]]

Init ==
  /\ mem = [a \in Addr |-> 0]
  /\ vd = [seg |-> <<>>, free |-> NIL, wild |-> NIL, root |-> NIL,
           tiny |-> [i \in 0 .. S_TINY - 1 |-> NIL],
           cache |-> [i \in 0 .. S_CACHE |-> NIL], incr |-> 0, pool |-> 0]
  /\ held = [x \in {} |-> 0]
  /\ ret = [op |-> "none", addr |-> NIL, saw |-> TRUE, al |-> 0]
  /\ freed = {}
  /\ live = [x \in {} |-> 0]

\* the region after a step, and a block d (NIL: none) of n bytes handed to
\* the caller, who fills it
Store(M) == Commit(M) /\ mem' = M.w

\* the history of freed bodies is kept only where a run frees twice: a
\* body leaves it when it is handed out again, or when a caller writes
\* the bytes [lo, hi) over the SIZE word of its old header
Refreeing == "refree" \in Ops
Freeing(out, in, lo, hi) ==
  freed' = IF Refreeing
             THEN {x \in (freed \cup out) \ in : BLOCK(x) + WORD < lo \/ BLOCK(x) + WORD >= hi}
             ELSE freed

Handout(M, d, n, op, al) ==
  /\ Commit(M)
  /\ \E uw \in UserWords : mem' = IF d = NIL THEN M.w ELSE Fill(M.w, d, d + n, uw)
  /\ held' = IF d = NIL THEN held ELSE Give(held, d, n)
  /\ ret' = [op |-> op, addr |-> d, saw |-> TRUE, al |-> al]
  /\ Freeing({}, {d}, IF d = NIL THEN 0 ELSE d, IF d = NIL THEN 0 ELSE d + n)

AllocDone(R, n) == Handout(R.m, IF R.tp = NIL THEN NIL ELSE DATA(R.tp), n, "alloc", 0)

\* a caller asks for n bytes and fills them
Alloc(n, pv) ==
  /\ "alloc" \in Ops
  /\ Cardinality(DOMAIN held) < MAXHELD
  /\ AllocDone(bestalloc(St, n, pv), n)

\* a caller frees a block it holds
Free(d, pv) ==
  /\ "free" \in Ops
  /\ Store(bestfree(St, d, pv))
  /\ held' = Drop(held, d)
  /\ ret' = [op |-> "free", addr |-> NIL, saw |-> TRUE, al |-> 0]
  /\ Freeing({d}, {}, 0, 0)

\* a caller frees again a body it freed before, that nobody was handed
\* since and whose header's SIZE word no caller has written over since
\* (only the ASSERT of line 718, a DEBUG check, looks at it first); the
\* SIZE word bestfree reads is still inside a segment
FreeAgain(d, pv) ==
  /\ Refreeing
  /\ d \in freed
  /\ \E i \in 1 .. Len(vd.seg) : BLOCK(d) >= SEGBLOCK(vd.seg[i]) /\ BLOCK(d) < vd.seg[i].baddr
  /\ Store(bestfree(St, d, pv))
  /\ UNCHANGED <<held, freed>>
  /\ ret' = [op |-> "refree", addr |-> NIL, saw |-> TRUE, al |-> 0]

\* an explicit vmcompact()
Compact(pv) ==
  /\ "compact" \in Ops
  /\ Store(bestcompact(St, pv))
  /\ UNCHANGED <<held, freed>>
  /\ ret' = [op |-> "compact", addr |-> NIL, saw |-> TRUE, al |-> 0]

\* the caller keeps its old block when the answer is NIL, and writes the
\* bytes it did not have before (all of them when the block moved
\* without COPY)
ResizeDone(R, d, n, type) ==
  LET old == IF d = NIL THEN 0 ELSE held[d]
      kept == IF R.d = d \/ "COPY" \in type THEN MinOf(old, n) ELSE 0
  IN /\ Commit(R.m)
     /\ \E uw \in UserWords :
          mem' = IF R.d = NIL THEN R.m.w ELSE Fill(R.m.w, R.d + kept, R.d + n, uw)
     /\ held' = IF R.d # NIL THEN Give(IF d = NIL THEN held ELSE Drop(held, d), R.d, n)
                ELSE IF n = 0 /\ d # NIL THEN Drop(held, d)
                ELSE held
     /\ ret' = [op |-> IF R.d # d THEN "alloc" ELSE "resize", addr |-> R.d, saw |-> R.saw, al |-> 0]
     /\ Freeing(IF d # NIL /\ R.d # d /\ (R.d # NIL \/ n = 0) THEN {d} ELSE {}, {R.d},
                 IF R.d = NIL THEN 0 ELSE R.d + kept, IF R.d = NIL THEN 0 ELSE R.d + n)

\* a caller resizes block d (NIL: none) to n bytes
Resize(d, n, type, pv) ==
  /\ "resize" \in Ops
  /\ d = NIL => Cardinality(DOMAIN held) < MAXHELD
  /\ ResizeDone(bestresize(St, d, n, type, pv), d, n, type)

AlignDone(R, n, al) == Handout(R.m, R.d, n, "align", al)

\* a caller asks for n bytes aligned to al
Align(n, al, pv) ==
  /\ "align" \in Ops
  /\ Cardinality(DOMAIN held) < MAXHELD
  /\ AlignDone(bestalign(St, n, al, pv), n, al)

Call ==
  \/ \E n \in Req, pv \in Provider : Alloc(n, pv)
  \/ \E d \in DOMAIN held, pv \in Releaser : Free(d, pv)
  \/ \E pv \in Releaser : Compact(pv)
  \/ \E d \in freed, pv \in Releaser : FreeAgain(d, pv)
  \/ \E d \in DOMAIN held \cup {NIL}, n \in Req, type \in RszTypes, pv \in Provider :
       Resize(d, n, type, pv)
  \/ \E n \in Req, al \in Aligns, pv \in Provider : Align(n, al, pv)


(***************************************************************************)
(* Views used by the properties.                                           *)
(***************************************************************************)
Fuel == Cardinality(Addr)

\* the blocks of a segment, walked from its first block to its sentinel
RECURSIVE WalkFrom(_, _, _)
WalkFrom(M, b, endb) ==
  IF b >= endb THEN {} ELSE {b} \cup WalkFrom(M, NEXT(M, b), endb)
RECURSIVE Reaches(_, _, _)
Reaches(M, b, endb) ==
  IF b >= endb THEN b = endb ELSE Reaches(M, NEXT(M, b), endb)
Blocks(M, sg) == WalkFrom(M, SEGBLOCK(sg), Sentinel(sg))
AllBlocks(M) == UNION {Blocks(M, M.seg[i]) : i \in 1 .. Len(M.seg)}
SegOfAddr(M, b) == CHOOSE a \in SegIds(M) : b \in Blocks(M, SegRec(M, a))

RECURSIVE OnList(_, _, _, _)
OnList(M, l, b, k) == l # NIL /\ k > 0 /\ (l = b \/ OnList(M, LINK(M, l), b, k - 1))
RECURSIVE ListOf(_, _, _)
ListOf(M, l, k) == IF l = NIL \/ k = 0 THEN {} ELSE {l} \cup ListOf(M, LINK(M, l), k - 1)

\* vmintree (lines 42-53)
RECURSIVE vmintree(_, _, _, _)
vmintree(M, node, b, k) ==
  /\ k > 0
  /\ \/ OnList(M, node, b, Fuel)
     \/ LEFT(M, node) # NIL /\ vmintree(M, LEFT(M, node), b, k - 1)
     \/ RIGHT(M, node) # NIL /\ vmintree(M, RIGHT(M, node), b, k - 1)

\* vmisfree (lines 64-79)
vmisfree(M, b) ==
  LET s == SIZE(M, b) IN
  /\ s % 8 = 0
  /\ \/ b = M.wild
     \/ s < MAXTINY /\ OnList(M, M.tiny[INDEX(s)], b, Fuel)
     \/ s >= MAXTINY /\ M.root # NIL /\ vmintree(M, M.root, b, Fuel)

\* vmisjunk (lines 82-104)
vmisjunk(M, b) ==
  LET s == SIZE(M, b) IN
  /\ ISBUSY(s) /\ ISJUNK(s)
  /\ \/ b = M.free
     \/ OnList(M, M.cache[C_INDEX(s)], b, Fuel)
     \/ C_INDEX(s) < S_CACHE /\ OnList(M, M.cache[S_CACHE], b, Fuel)

\* vmchktree (lines 107-129), early returns included
RECURSIVE vmchktree(_, _)
vmchktree(M, node) ==
  LET t == LEFT(M, node)
      u == RIGHT(M, node)
  IN /\ SIZE(M, node) % 8 = 0
     /\ \A c \in ListOf(M, LINK(M, node), Fuel) : SIZE(M, c) = SIZE(M, node)
     /\ IF t # NIL THEN SIZE(M, t) < SIZE(M, node) /\ vmchktree(M, t)
        ELSE IF u # NIL THEN SIZE(M, u) > SIZE(M, node) /\ vmchktree(M, u)
        ELSE TRUE

\* the per-block checks of _vmbestcheck (lines 144-189)
BlockChecks(M, sg, b) ==
  LET s == SIZE(M, b)
      nextb == NEXT(M, b)
  IN IF ~ISBUSY(s)
     THEN /\ s % 8 = 0
          /\ ISBUSY(SIZE(M, nextb)) /\ ISPFREE(SIZE(M, nextb))
          /\ W(M, nextb - WORD) = b
          /\ (s # TINYSIZE => SEG(M, b) = sg.addr)
          /\ vmisfree(M, b)
     ELSE /\ SEG(M, b) = sg.addr
          /\ ~ISPFREE(SIZE(M, nextb))
          /\ (ISPFREE(s) => vmisfree(M, LAST(M, b)))
          /\ (ISJUNK(s) => vmisjunk(M, b))

_vmbestcheck(M) ==
  /\ M.root # NIL => vmchktree(M, M.root)
  /\ \A i \in 1 .. Len(M.seg) : \A b \in Blocks(M, M.seg[i]) : BlockChecks(M, M.seg[i], b)
\* the members of a list as a sequence, cut off after Fuel steps
RECURSIVE ListSeq(_, _, _)
ListSeq(M, l, k) == IF l = NIL \/ k = 0 THEN <<>> ELSE <<l>> \o ListSeq(M, LINK(M, l), k - 1)

\* the nodes of the free tree and of their equal-size chains
RECURSIVE TreeSet(_, _, _)
TreeSet(M, node, k) ==
  IF node = NIL \/ k = 0 THEN {}
  ELSE {node} \cup ListOf(M, LINK(M, node), Fuel)
       \cup TreeSet(M, LEFT(M, node), k - 1) \cup TreeSet(M, RIGHT(M, node), k - 1)

CacheSeq(M) ==
  FoldFunction(LAMBDA h, acc : ListSeq(M, h, Fuel) \o acc, <<>>, M.cache)
  \o (IF M.free # NIL THEN <<M.free>> ELSE <<>>)
TinySeq(M) ==
  FoldFunction(LAMBDA h, acc : ListSeq(M, h, Fuel) \o acc, <<>>, M.tiny)
WildSet(M) == IF M.wild = NIL THEN {} ELSE {M.wild}

(***************************************************************************)
(* bestaddr and bestsize (lines 648-693, 876-911): queries, no change of   *)
(* state beyond the lock, so operators on a machine state.                 *)
(***************************************************************************)
\* the first segment (in list order) whose blocks bracket addr, or NIL
\* fault model: only the first segment searched
AddrSegBottomOnly(M, addr) ==
  LET ix == SelectInSeq(SubSeq(M.seg, 1, MinOf(1, Len(M.seg))), LAMBDA sg : addr > SEGBLOCK(sg) /\ addr < Sentinel(sg))
  IN IF ix = 0 THEN NIL ELSE M.seg[ix].addr

AddrSeg(M, addr) ==
  LET ix == SelectInSeq(M.seg, LAMBDA sg : addr > SEGBLOCK(sg) /\ addr < Sentinel(sg))
  IN IF ix = 0 THEN NIL ELSE M.seg[ix].addr

\* the while(b < endb) walk of lines 675-687
\* fault model: a junk block accepted as a live one (line 680)
RECURSIVE AddrWalkJunkOk(_,_,_,_)
AddrWalkJunkOk(M, addr, b, endb) ==
  LET data == DATA(b)
      size == CLRBITS(SIZE(M, b))
  IN IF b >= endb THEN -1
     ELSE IF addr >= data /\ addr < data + size
     THEN IF ~ISBUSY(SIZE(M, b)) THEN -1 ELSE addr - data
     ELSE AddrWalkJunkOk(M, addr, data + size, endb)

RECURSIVE AddrWalk(_, _, _, _)
AddrWalk(M, addr, b, endb) ==
  LET data == DATA(b)
      size == CLRBITS(SIZE(M, b))
  IN IF b >= endb THEN -1
     ELSE IF addr >= data /\ addr < data + size
     THEN IF ISJUNK(SIZE(M, b)) \/ ~ISBUSY(SIZE(M, b)) THEN -1 ELSE addr - data
     ELSE AddrWalk(M, addr, data + size, endb)

bestaddr(M, addr, local) ==
  LET a == AddrSeg(M, addr)
      b == BLOCK(addr)
  IN IF local
     THEN IF a # NIL /\ SEG(M, b) = a /\ ISBUSY(SIZE(M, b)) /\ ~ISJUNK(SIZE(M, b))
          THEN 0 ELSE -1
     ELSE IF a = NIL THEN -1
     ELSE AddrWalk(M, addr, SEGBLOCK(SegRec(M, a)), Sentinel(SegRec(M, a)))

\* the walk of lines 894-905
RECURSIVE SizeWalk(_, _, _, _)
SizeWalk(M, addr, b, endb) ==
  IF b >= endb \/ (addr # DATA(b) /\ addr <= b) THEN -1
  ELSE IF addr = DATA(b)
  THEN IF ~ISBUSY(SIZE(M, b)) \/ ISJUNK(SIZE(M, b)) THEN -1 ELSE CLRBITS(SIZE(M, b))
  ELSE SizeWalk(M, addr, DATA(b) + CLRBITS(SIZE(M, b)), endb)

\* the for loop of lines 888-906: segments that do not bracket addr are
\* skipped, and a walk that passes addr goes on with the next segment
RECURSIVE SizeSegs(_, _, _)
SizeSegs(M, addr, i) ==
  IF i > Len(M.seg) THEN -1
  ELSE LET sg == M.seg[i]
           r == IF addr <= SEGBLOCK(sg) \/ addr >= Sentinel(sg) THEN -1
                ELSE SizeWalk(M, addr, SEGBLOCK(sg), Sentinel(sg))
       IN IF r # -1 THEN r ELSE SizeSegs(M, addr, i + 1)

bestsize(M, addr) == SizeSegs(M, addr, 1)

\* The bodies the region's own queries call live (bestaddr answers 0),
\* each with the size bestsize reports.
LiveOf(M) == [d \in {a \in Addr : bestaddr(M, a, FALSE) = 0} |-> bestsize(M, d)]

(***************************************************************************)
(* The specification: a call, with the region's view of the live bodies   *)
(* after it.                                                               *)
(***************************************************************************)
Next == Call /\ live' = LiveOf(St')

Spec == Init /\ [][Next]_vars
(***************************************************************************)
(* Properties.                                                             *)
(***************************************************************************)
Ptr == Addr \cup {NIL}
TypeOK ==
  /\ mem \in [Addr -> Nat]
  /\ vd.free \in Ptr /\ vd.wild \in Ptr /\ vd.root \in Ptr
  /\ vd.tiny \in [0 .. S_TINY - 1 -> Ptr]
  /\ vd.cache \in [0 .. S_CACHE -> Ptr]
  /\ vd.incr \in Nat /\ vd.pool \in Nat
  /\ \A i \in 1 .. Len(vd.seg) : vd.seg[i].addr \in Slots
  /\ DOMAIN held \subseteq Addr /\ \A d \in DOMAIN held : held[d] \in Req
  /\ ret.saw \in BOOLEAN /\ ret.addr \in Ptr /\ ret.al \in Aligns \cup {0}

\* At every rest point the heap passes the code's own audit _vmbestcheck
\* (asserted in DEBUG builds at the end of every bestalloc, bestfree,
\* bestresize, bestcompact and bestalign): free blocks carry no tag bits,
\* are followed by a busy PFREE block, point to themselves and are on their
\* list; busy blocks with PFREE follow a listed free block; junk blocks
\* are on the cache; the free tree is in order.
HeapAudit == _vmbestcheck(St)

\* Every segment is tiled exactly: walking the blocks from SEGBLOCK by
\* their sizes lands on the segment's sentinel, a BUSY block of size 0
\* that belongs to the segment, and segments never overlap.
Tiling ==
  \A i \in 1 .. Len(vd.seg) :
    LET sg == vd.seg[i] IN
    /\ Reaches(St, SEGBLOCK(sg), Sentinel(sg))
    /\ SIZE(St, Sentinel(sg)) \in {BUSY, BUSY + PFREE}
    /\ SEG(St, Sentinel(sg)) = sg.addr
    /\ sg.baddr = sg.addr + sg.extent
    /\ sg.extent <= SLOTCAP
    /\ i < Len(vd.seg) => vd.seg[i + 1].addr < sg.addr

\* The region's own address check (bestaddr with local = 0, the walk of
\* lines 661-688) accepts exactly the bodies callers hold: no block a
\* caller holds is lost or taken back, and no block nobody holds is left
\* busy (a leak); bestsize (lines 887-907) reports each held block at
\* least as large as its request.
AddrCheck ==
  /\ \A a \in Addr : bestaddr(St, a, FALSE) = 0 <=> a \in DOMAIN held
  /\ \A d \in DOMAIN held : bestsize(St, d) >= held[d]

\* What a caller wrote into the bytes it asked for is still there: no step
\* of the allocator (splits, merges, list links, the copy of a moving
\* resize, the zeroing of ZERO) writes into the requested part of a held
\* block, and a resize keeps the first min(old, new) bytes.
ContentsKept ==
  \A d \in DOMAIN held : \A a \in Addr : a >= d /\ a < d + held[d] => mem[a] \in UserWords

\* Every free block has exactly one home and every home holds a block of
\* its kind: the cache lists and vd->free hold each junk block once and
\* nothing else (no merged remnant left behind when bestreclaim swallows
\* a junk block of a list it has not swept, line 370), and the tiny
\* lists, the tree with its chains, and vd->wild hold each free block
\* once and nothing else (_vmbestcheck only checks the converse).
OneHome ==
  LET M == St
      cs == CacheSeq(M)
      ts == TinySeq(M)
      tr == TreeSet(M, M.root, Fuel)
      blocks == AllBlocks(M)
  IN /\ IsInjective(cs)
     /\ ToSet(cs) = {b \in blocks : ISBUSY(SIZE(M, b)) /\ ISJUNK(SIZE(M, b))}
     /\ IsInjective(ts)
     /\ ToSet(ts) \cap tr = {} /\ (ToSet(ts) \cup tr) \cap WildSet(M) = {}
     /\ ToSet(ts) \cup tr \cup WildSet(M) = {b \in blocks : ~ISBUSY(SIZE(M, b))}

\* The wild block, when there is one, is the last block of the bottom
\* segment: _Vmextend re-homes it when a new bottom segment arrives, and
\* bestreclaim and bestalloc only make a block wild when it abuts the
\* bottom segment's sentinel.
WildInBottom ==
  vd.wild # NIL =>
    /\ vd.seg # <<>>
    /\ vd.wild \in Blocks(St, Bottom(St))
    /\ NEXT(St, vd.wild) = Sentinel(Bottom(St))

\* The reclaim bestresize runs on a junk neighbour (line 803) always
\* finds that neighbour (the code's ASSERT(0) of line 804 never fires).
ResizeSawWanted == ret.saw

\* The refinement mapping to Allocator is the variable live, which Next
\* keeps equal to LiveOf of the state.
Abs == INSTANCE Allocator WITH live <- live

\* Every step of the region is a step of the abstract allocator: the live
\* bodies never overlap, and each call (an alloc, free, resize, align or
\* compact, with every reclaim, merge, split and trim inside it) hands
\* out, takes back, resizes or moves one body and leaves the size of every
\* other live body as it was.
RefinesAllocator == Abs!Spec

\* A second free of a body freed before is silently tolerated (spec 4.8;
\* the guard of bestfree line 729 skips a block already junk or free) as
\* long as only the allocator has written its old header since, whatever
\* the callers write elsewhere and whatever the splits, merges and
\* compactions did to that word: the step writes no word of memory and
\* changes no list or pointer of the region, only the pool estimate that
\* line 726 updates before the guard.
RefreeTolerated ==
  [][ret'.op = "refree" => mem' = mem /\ [vd' EXCEPT !.pool = 0] = [vd EXCEPT !.pool = 0]]_vars
=============================================================================
