------------------------------- MODULE SfPeek -------------------------------
(***************************************************************************)
(* sfpeek (src/lib/libast/sfio/sfpeek.c) on a file stream opened for      *)
(* reading or (wr) for writing.  The buffer  is data[0 .. SIZE-1]        *)
(* (f->data is 0).  Reading, the bytes next .. endb-1 were read from the   *)
(* file and not yet taken by the caller, and here is the file offset endb  *)
(* corresponds to.  Writing, endb is the buffer's end, the bytes 0 ..      *)
(* next-1 were put by the caller and not yet written, and here is the file *)
(* offset of data.  Either way the caller has taken or put Pos bytes.     *)
(* The routines of sfio that sfpeek calls (_sfmode, sfreserve, sfvalue)   *)
(* and the sfgetc and sfputc macros are not in this repository: they are  *)
(* modelled by the sfio contract sfpeek relies on, with the read(2) or    *)
(* write(2) inside sfreserve moving any number of the bytes it is asked   *)
(* to, FILELEN being the file's length or the device's capacity.          *)
(***************************************************************************)
EXTENDS Integers

CONSTANTS
    W,          \* bits of size_t and ssize_t
    SIZE,       \* f->size, the buffer's capacity
    FILELEN,    \* bytes the file holds, or can take
    Sizes,      \* the size_t values callers pass as size
    WRITES      \* TRUE: a stream opened for writing only (no SFIO_READ)

ASSUME W >= 2 /\ SIZE \in 1 .. 2^(W-1) - 1 /\ FILELEN \in Nat
ASSUME Sizes \subseteq 0 .. 2^W - 1 /\ WRITES \subseteq BOOLEAN /\ WRITES # {}

NULL == -1                        \* a null pointer; data is 0

\* lines 53-54: the mode sfpeek puts the stream in
MODE(F) == IF F.wr THEN "write" ELSE "read"

(* size_t -> ssize_t (sz = size, line 34): wraps at 2^(W-1) *)
SSIZE(x) == IF x < 2^(W-1) THEN x ELSE x - 2^W

VARIABLES
    f,          \* Sfio_t: wr (opened for writing), mode, next, endb, endr, endw, here, val
    ret         \* the last call: op, the sz it computed, answer r, *bp

vars == <<f, ret>>

\* the file offset of the next byte the caller takes or puts
Pos(F) == IF F.wr THEN F.here + F.next ELSE F.here - (F.endb - F.next)

Init ==
  /\ \E wr \in WRITES :
       f = [wr |-> wr, mode |-> {"init", IF wr THEN "write" ELSE "read"},
            next |-> 0, endb |-> 0, endr |-> 0, endw |-> 0, here |-> 0, val |-> 0]
  /\ ret = [op |-> "none", sz |-> 0, r |-> 0, bp |-> NULL]

(***************************************************************************)
(* The sfio routines sfpeek calls, by their contract.                      *)
(***************************************************************************)
\* _sfmode(f, mode, 0): a stream still to be set up (SFIO_INIT) gets its
\* empty buffer, a write buffer whose whole space sfputc may fill; a
\* peek-locked stream (SFIO_PEEK) is frozen and refuses the switch.
\* Result [f, rc].
_sfmode(F) ==
  IF "peek" \in F.mode THEN [f |-> F, rc |-> -1]
  ELSE IF F.wr THEN [f |-> [F EXCEPT !.mode = {MODE(F)}, !.endb = SIZE, !.endw = SIZE], rc |-> 0]
  ELSE [f |-> [F EXCEPT !.mode = {MODE(F)}], rc |-> 0]

\* sfreserve(f, r, 0): hand out r bytes at next and move past them (r = 0:
\* hand out what there is, move nowhere).  Reading, these are buffered
\* bytes; writing, free space.  When there are too few, first read k more
\* bytes from the file behind the rest, moved to the front, or write k of
\* the pending bytes to the file and move the rest to the front; fail
\* (NULL) when there still are too few.  sfvalue(f) is then the count
\* there is.  Result [f, p].
Reserved(F, r) ==
  IF r > 0 THEN [f |-> [F EXCEPT !.next = @ + r, !.val = r], p |-> F.next]
  ELSE [f |-> [F EXCEPT !.val = F.endb - F.next], p |-> F.next]

Enough(F, r) == IF r > 0 THEN F.endb - F.next >= r ELSE F.endb > F.next

Filled(F, k) ==
  [F EXCEPT !.next = 0, !.endb = F.endb - F.next + k,
            !.endr = F.endb - F.next + k, !.here = @ + k]

Flushed(F, k) == [F EXCEPT !.next = @ - k, !.here = @ + k]

Refill(F, k) == IF F.wr THEN Flushed(F, k) ELSE Filled(F, k)

sfreserve(F, r, k) ==
  IF Enough(F, r) THEN Reserved(F, r)
  ELSE IF Enough(Refill(F, k), r) THEN Reserved(Refill(F, k), r)
  ELSE [f |-> [Refill(F, k) EXCEPT !.val = Refill(F, k).endb - Refill(F, k).next], p |-> NULL]

\* the bytes the read(2) or write(2) inside sfreserve may move
Deliverable(F) ==
  0 .. LET room == IF F.wr THEN F.next ELSE SIZE - (F.endb - F.next)
       IN IF FILELEN - F.here < room THEN FILELEN - F.here ELSE room

(***************************************************************************)
(* sfpeek(f, bp, size), lines 27-77.  bpnull: the caller passes bp = NULL. *)
(* Result [f, sz, r, bp].                                                  *)
(***************************************************************************)
Answer(F, sz, r, bp) == [f |-> F, sz |-> sz, r |-> r, bp |-> bp]

\* fault model: no clamp of sz to n (lines 70-71)
PeekValueNoClamp(F, sz) ==
  LET n == F.val IN
  IF n > 0 /\ sz < 0
    THEN Answer([F EXCEPT !.mode = @ \cup {"peek"}, !.endr = 0, !.endw = 0], sz, n, F.next)
  ELSE IF n > 0 THEN Answer([F EXCEPT !.next = @ + sz], sz, sz, F.next)
  ELSE Answer(F, sz, IF sz >= 0 /\ n >= sz THEN sz ELSE n, NULL)

\* fault model: the answer is clamped but next is not moved (line 72)
PeekValueNoAdvance(F, sz) ==
  LET n == F.val IN
  IF n > 0 /\ sz < 0
    THEN Answer([F EXCEPT !.mode = @ \cup {"peek"}, !.endr = 0, !.endw = 0], sz, n, F.next)
  ELSE IF n > 0 THEN Answer(F, sz, IF sz > n THEN n ELSE sz, F.next)
  ELSE Answer(F, sz, IF sz >= 0 /\ n >= sz THEN sz ELSE n, NULL)

\* fault model: the lock leaves endr and endw alone (line 67)
PeekValueKeepEndr(F, sz) ==
  LET n == F.val IN
  IF n > 0 /\ sz < 0
    THEN Answer([F EXCEPT !.mode = @ \cup {"peek"}], sz, n, F.next)
  ELSE IF n > 0
    THEN Answer([F EXCEPT !.next = @ + (IF sz > n THEN n ELSE sz)], sz,
                IF sz > n THEN n ELSE sz, F.next)
  ELSE Answer(F, sz, IF sz >= 0 /\ n >= sz THEN sz ELSE n, NULL)

\* lines 63-76, after sfreserve failed or was a peek of sz < 0
PeekValue(F, sz) ==
  LET n == F.val IN
  IF n > 0 /\ sz < 0
    THEN Answer([F EXCEPT !.mode = @ \cup {"peek"}, !.endr = 0, !.endw = 0], sz, n, F.next)
  ELSE IF n > 0
    THEN Answer([F EXCEPT !.next = @ + (IF sz > n THEN n ELSE sz)], sz,
                IF sz > n THEN n ELSE sz, F.next)
  ELSE Answer(F, sz, IF sz >= 0 /\ n >= sz THEN sz ELSE n, NULL)

\* lines 58-61: reserve at most f->size bytes
PeekReserve(R, sz) ==
  IF R.p # NULL /\ sz >= 0 THEN Answer(R.f, sz, sz, R.p)
  ELSE PeekValue(R.f, sz)

\* lines 53-58
PeekFill(F, sz, k) ==
  IF F.mode # {MODE(F)} /\ _sfmode(F).rc < 0 THEN Answer(F, sz, -1, NULL)
  ELSE PeekReserve(sfreserve(_sfmode(F).f, IF sz <= 0 THEN 0 ELSE IF sz > SIZE THEN SIZE ELSE sz, k), sz)

\* lines 34-51: the extent of the buffer, for a query or size 0
PeekQuery(F, sz, bpnull, k) ==
  LET n == F.endb - F.next IN
  IF bpnull THEN Answer(F, sz, n, NULL)
  ELSE IF n > 0 THEN Answer(F, sz, 0, F.next)
  ELSE PeekFill(F, sz, k)

sfpeek(F, size, bpnull, k) ==
  IF SSIZE(size) = 0 \/ bpnull
    THEN PeekQuery(IF "init" \in F.mode THEN _sfmode(F).f ELSE F, SSIZE(size), bpnull, k)
  ELSE PeekFill(F, SSIZE(size), k)

(***************************************************************************)
(* Actions.                                                                *)
(***************************************************************************)
Done(A) ==
  /\ f' = A.f
  /\ ret' = [op |-> "peek", sz |-> A.sz, r |-> A.r, bp |-> A.bp]

\* a caller peeks with size, passing a bp or NULL
Peek(size, bpnull, k) == Done(sfpeek(f, size, bpnull, k))

\* a caller takes a byte through sfgetc's fast path (next < endr)
Getc ==
  /\ ~f.wr
  /\ f.next < f.endr
  /\ f' = [f EXCEPT !.next = @ + 1]
  /\ ret' = [op |-> "getc", sz |-> 0, r |-> 1, bp |-> f.next]

\* a caller puts a byte through sfputc's fast path (next < endw)
Putc ==
  /\ f.wr
  /\ f.next < f.endw
  /\ f' = [f EXCEPT !.next = @ + 1]
  /\ ret' = [op |-> "putc", sz |-> 0, r |-> 1, bp |-> f.next]

Next ==
  \/ \E size \in Sizes, bpnull \in BOOLEAN, k \in Deliverable(f) : Peek(size, bpnull, k)
  \/ Getc
  \/ Putc

Spec == Init /\ [][Next]_vars

(***************************************************************************)
(* Properties.                                                             *)
(***************************************************************************)
TypeOK ==
  /\ f.mode \subseteq {"init", MODE(f), "peek"}
  /\ 0 <= f.next /\ f.next <= f.endb /\ f.endb <= SIZE
  /\ f.endr \in 0 .. f.endb /\ f.endw \in 0 .. f.endb
  /\ f.here \in (IF f.wr THEN 0 ELSE f.endb) .. FILELEN
  /\ f.wr \in WRITES
  /\ ret.bp \in {NULL} \cup 0 .. SIZE

\* sfpeek is "safe access to the internal stream buffer" (line 21): when it
\* answers r >= 0 with a pointer, the r bytes at the pointer are bytes of
\* the buffer that were read from the file.
PeekInBuffer ==
  [][ret'.op = "peek" /\ ret'.bp # NULL /\ ret'.r >= 0 =>
       ret'.bp + ret'.r <= f'.endb]_vars

\* A peek moves the stream past exactly the bytes its answer hands over:
\* a peek of size >= 0 takes the r bytes it answers (line 72 after the
\* clamp of line 71, or sfreserve's own move), a peek of a negative size
\* (a size_t past SSIZE_MAX) or a query takes none.
AnswerConsumed ==
  [][ret'.op = "peek" =>
       Pos(f') - Pos(f) = IF ret'.bp # NULL /\ ret'.sz >= 0 /\ ret'.r > 0 THEN ret'.r ELSE 0]_vars

\* Once a peek of negative size has locked the stream (line 66), no byte
\* is taken from or put under the caller's pointer: the sfgetc and sfputc
\* fast paths are shut by endr = endw = data (line 67) and sfreserve by
\* _sfmode's refusal.
LockedStays ==
  [][("peek" \in f.mode => Pos(f') = Pos(f) /\ f'.next = f.next)]_vars
=============================================================================
