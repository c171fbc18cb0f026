------------------------------ MODULE MCVmBest ------------------------------
(* One segment slot of 128 bytes, a 16-byte granule, one tiny list besides *)
(* the tiniest one, three cache lists and the catch-all; callers allocate  *)
(* 0 or 40 bytes (the tiniest size, and a size that splits into tiny and  *)
(* tree blocks), free and compact.                                         *)
EXTENDS VmBest

MCSlots == {64}
MCReq == {0, 40}

(* With one slot the provider is asked to grow the bottom segment only     *)
(* when a segment exists, and for a fresh one only when none does (the     *)
(* slot is taken otherwise), so one answer serves both questions.          *)
OneSlotProvider ==
  {pv \in [grow : BOOLEAN, base : Slots \cup {NIL}, shrink : [Slots -> BOOLEAN]] :
     pv.grow = (pv.base # NIL)}
MCOps == {"alloc", "free", "compact"}
MCRszTypes == {}
MCAligns == {}
\* callers write one word, so that ContentsKept sees any other word
MCUserWords == {USERWORD}

(* resize with MOVE, COPY and ZERO: requests of 40 and 72 bytes (72 only  *)
(* fits by growing in place or moving), three callers, free and compact,  *)
(* in a slot of 192 bytes so that a moved block fits beside the old one.  *)
RszReq == {40, 72}
RszOps == {"resize", "free", "compact"}
\* the provider of the resize run accepts every shrink (refusals are
\* explored by the run of the core operations)
RszProvider == {pv \in OneSlotProvider : \A a \in Slots : pv.shrink[a]}
RszMoving == {{"MOVE", "COPY", "ZERO"}}
RszInPlace == {{}}
\* resize without flags: every request size, 0 (a free) included
InpReq == {0, 40, 72}
InpOps == {"resize"}

(* segments: two slots, so a second segment is made when the first cannot *)
(* grow, the wild block of a segment that stops being the bottom one goes  *)
(* to the cache, and compaction may release either segment.                *)
TwoSlots == {64, 192}
SegReq == {40, 72}
\* within one step the provider answers every shrink of the step alike
UniformShrinkProvider ==
  {pv \in [grow : BOOLEAN, base : Slots \cup {NIL}, shrink : [Slots -> BOOLEAN]] :
     \A a, b \in Slots : pv.shrink[a] = pv.shrink[b]}

(* align: 32-byte alignment of 0 (refused), 16 and 40 bytes, a slot of    *)
(* 192 bytes, enough for one request plus its two alignment margins.       *)
AlnReq == {0, 16, 40}
AlnOps == {"align", "free"}
AlnAligns == {32}
\* a base that puts the first body 16 bytes off a 32-byte boundary
AlnSlots == {80}

(* double free: the core operations plus a second free of a body freed    *)
(* before and not handed out since.                                        *)
RefOps == {"alloc", "free", "refree"}
\* callers write words with BUSY clear (USERWORD) or set and JUNK clear,
\* the kind of data that passes the guard of bestfree line 729
RefUserWords == {USERWORD, USERWORD + BUSY}
\* the same with vmcompact(), which may give a segment back
RefCompactOps == {"alloc", "free", "compact", "refree"}
=============================================================================
