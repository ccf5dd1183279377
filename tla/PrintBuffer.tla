----------------------------- MODULE PrintBuffer -----------------------------
(***************************************************************************)
(* The buffer that cJSON prints into (src/cjson/cJSON.c, printbuffer).     *)
(* Before it writes, a printing function asks for room with ensure, which  *)
(* grows the buffer, or refuses when that is the caller's, would become    *)
(* too large, or cannot be reallocated.                                    *)
(***************************************************************************)
EXTENDS Integers

CONSTANT INT_MAX

ASSUME IntAssumption == INT_MAX \in Nat \ {0}

\* ok is FALSE once a request was refused.  memory is the size of the largest
\* buffer that can be allocated: each is larger than the one before, so the
\* reallocation that fails may be any.  The pointer to the buffer is not NULL
\* as long as it is held, and the buffer was freed so many times.
Buffer == [length : Nat, offset : Nat, noalloc : BOOLEAN, ok : BOOLEAN,
           memory : Nat, held : BOOLEAN, freed : Nat]

Refused(p) == [p EXCEPT !.ok = FALSE]

\* deallocate(p->buffer) and p->buffer = NULL.  NULL may be deallocated.
Deallocated(p) == IF p.held THEN [p EXCEPT !.held = FALSE, !.freed = @ + 1] ELSE p

\* The size of the new buffer, or 0 if it would be too large.
NewSize(wanted) ==
  IF wanted <= INT_MAX \div 2 THEN 2 * wanted
  ELSE IF wanted <= INT_MAX THEN INT_MAX ELSE 0

\* Reallocated, had the pointer been kept when the buffer is freed.
ReallocatedDangling(p, size) ==
  IF size <= p.memory THEN [p EXCEPT !.length = size]
  ELSE [Refused(p) EXCEPT !.length = 0, !.freed = @ + 1]

Reallocated(p, size) ==
  IF size <= p.memory THEN [p EXCEPT !.length = size]
  ELSE [Refused(Deallocated(p)) EXCEPT !.length = 0]

\* ensure: room for needed bytes from the offset on, and one more.
Ensure(p, needed) ==
  LET wanted == needed + p.offset + 1 IN
  IF ~p.held \/ (p.length > 0 /\ p.offset >= p.length) \/ needed > INT_MAX THEN Refused(p)
  ELSE IF wanted <= p.length THEN p
  ELSE IF p.noalloc \/ NewSize(wanted) = 0 THEN Refused(p)
  ELSE Reallocated(p, NewSize(wanted))
=============================================================================
