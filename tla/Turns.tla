------------------------------- MODULE Turns -------------------------------
(***************************************************************************)
(* Turn taking shared by the two schedulers of the repository: the core    *)
(* Director (packages/core/src/director.ts) and the desktop room service   *)
(* (src/runtime/room-service.ts).  A persona is its position in the roster *)
(* (the index in #personas, or the rank by sort_order), so a roster of N   *)
(* personas is 0 .. N-1 and "nobody" stands for a null speaker.            *)
(***************************************************************************)
EXTENDS Integers

CONSTANT N      \* number of personas in the roster

ASSUME NAssumption == N \in Nat \ {0}

Personas == 0 .. (N - 1)

Nobody == -1

\* How far the scan that begins at start walks before it meets p.
Offset(start, p) == (p - start) % N

\* The first candidate met by a scan of the roster that begins at start and
\* wraps around; Nobody when there is none.
FirstFrom(start, candidates) ==
    IF candidates = {}
    THEN Nobody
    ELSE CHOOSE p \in candidates :
            \A q \in candidates : Offset(start, p) <= Offset(start, q)

\* The position after p, where the next scan begins.
After(p) == (p + 1) % N
=============================================================================
