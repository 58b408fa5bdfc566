----------------------------- MODULE AtomicRead -----------------------------
(***************************************************************************)
(* What a vectored stream read promises its caller: in one step it either  *)
(* hands over the next n bytes of the stream, scattered over the buffers   *)
(* in order, with min_bytes <= n <= what the buffers hold; or it fails,    *)
(* and then fewer than min_bytes bytes were taken off the stream (they are *)
(* lost to the caller: it is never told how many there were).              *)
(***************************************************************************)
EXTENDS Integers

CONSTANTS Layouts, MinBytes, MaxEntries, MaxOffset, MaxStream

VARIABLES arrived, position, busy, layout, min_bytes, buffers, result

vars == <<arrived, position, busy, layout, min_bytes, buffers, result>>

Unset == -1

Cells == (0 .. MaxEntries) \X (0 .. 2 * MaxOffset)

Blank == [c \in Cells |-> Unset]

Size(l, i) == l.start[i + 1] - l.start[i]

Total(l) == l.start[l.cnt]

Filled(l, p, n) ==
  [c \in Cells |->
     IF c[1] < l.cnt /\ c[2] < Size(l, c[1]) /\ l.start[c[1]] + c[2] < n
     THEN p + l.start[c[1]] + c[2]
     ELSE Unset]

Init ==
  /\ arrived = 0
  /\ position = 0
  /\ busy = FALSE
  /\ layout \in Layouts
  /\ min_bytes \in MinBytes
  /\ min_bytes <= Total(layout)
  /\ buffers = Blank
  /\ result = -1

Arrive ==
  /\ arrived < MaxStream
  /\ arrived' = arrived + 1
  /\ UNCHANGED <<position, busy, layout, min_bytes, buffers, result>>

Begin(l, m) ==
  /\ ~busy
  /\ m <= Total(l)
  /\ busy' = TRUE
  /\ layout' = l
  /\ min_bytes' = m
  /\ buffers' = Blank
  /\ UNCHANGED <<arrived, position, result>>

Deliver(n) ==
  /\ busy
  /\ n >= min_bytes
  /\ n <= Total(layout)
  /\ n <= arrived - position
  /\ busy' = FALSE
  /\ position' = position + n
  /\ buffers' = Filled(layout, position, n)
  /\ result' = n
  /\ UNCHANGED <<arrived, layout, min_bytes>>

Fail(n) ==
  /\ busy
  /\ n < min_bytes
  /\ n <= arrived - position
  /\ busy' = FALSE
  /\ position' = position + n
  /\ buffers' = Blank
  /\ result' = -1
  /\ UNCHANGED <<arrived, layout, min_bytes>>

Next ==
  \/ Arrive
  \/ \E l \in Layouts, m \in MinBytes : Begin(l, m)
  \/ \E n \in 0 .. MaxStream : Deliver(n) \/ Fail(n)

Spec == Init /\ [][Next]_vars

=============================================================================
