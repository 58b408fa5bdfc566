----------------------------- MODULE StreamRead -----------------------------
(***************************************************************************)
(* phongo_stream_readv (php_phongo.c): the driver's vectored read on top   *)
(* of php_stream_read, called by libmongoc for every reply it receives.    *)
(*                                                                         *)
(* The caller hands over an array of buffers (iov) and the least number of *)
(* bytes it can use.  The function fills the buffers one after the other,  *)
(* from as many reads of the PHP stream as it takes; between two reads the *)
(* peer may send more, or nothing until the stream's timeout or its end.   *)
(*                                                                         *)
(* A byte of the stream is its position in the stream.  iov_base is an     *)
(* offset into the buffer the entry was given, so a write that runs over   *)
(* the end of a buffer is visible as a write beyond the buffer's size.     *)
(***************************************************************************)
EXTENDS Integers

CONSTANTS
  Layouts,    (* The iov arrays a caller may pass, see LayoutAssumption.   *)
  MinBytes,   (* The values of min_bytes a caller may pass.                *)
  MaxEntries, (* Bound on iovcnt.                                          *)
  MaxOffset,  (* Bound on the offsets of a buffer the model looks at.      *)
  MaxStream   (* Bound on the bytes the peer sends.                        *)

(***************************************************************************)
(* A layout has cnt entries, numbered from 0 as in C; start[i] is the      *)
(* number of bytes the entries before i hold together, so entry i holds    *)
(* start[i+1] - start[i] bytes.  An entry may hold none.  libmongoc never  *)
(* calls with iovcnt = 0.                                                  *)
(***************************************************************************)
IsLayout(l) ==
  /\ l.cnt \in 1 .. MaxEntries
  /\ l.start \in [0 .. l.cnt -> Nat]
  /\ l.start[0] = 0
  /\ \A i \in 0 .. l.cnt : \A j \in i .. l.cnt : l.start[i] <= l.start[j]
  /\ \A i \in 0 .. l.cnt - 1 : l.start[i + 1] - l.start[i] <= MaxOffset

ASSUME BoundAssumption ==
  /\ MaxEntries \in Nat
  /\ MaxOffset \in Nat
  /\ MaxStream \in Nat

ASSUME LayoutAssumption == \A l \in Layouts : IsLayout(l)

ASSUME MinBytesAssumption == MinBytes \subseteq Nat

VARIABLES
  arrived,    (* Bytes the peer has sent on this stream.                   *)
  consumed,   (* Bytes php_stream_read has taken off the stream.           *)
  pc,         (* Where the function is: see PC.                            *)
  layout,     (* The iov array as the caller passed it ...                 *)
  min_bytes,  (* ... and how many bytes it wants at least.                 *)
  iov,        (* The iov array as the function has changed it.             *)
  cur,        (* Index of the entry being filled.                          *)
  read,       (* Bytes of the last read not yet accounted to an entry.     *)
  ret,        (* Bytes read by this call.                                  *)
  mem,        (* Contents of the caller's buffers: mem[i, o].              *)
  first,      (* History: consumed when the call began.                    *)
  result      (* What the last call returned; -1 before the first.         *)

vars == <<arrived, consumed, pc, layout, min_bytes, iov, cur, read, ret, mem,
          first, result>>

(* "idle": no call in progress.  "read": about to call php_stream_read.    *)
(* "account": in the while loop that charges the bytes to the entries.     *)
PC == {"idle", "read", "account"}

Unset == -1  \* a byte of a buffer the call has not written

Cells == (0 .. MaxEntries) \X (0 .. 2 * MaxOffset)

Blank == [c \in Cells |-> Unset]

Size(l, i) == l.start[i + 1] - l.start[i]

Total(l) == l.start[l.cnt]

Entries(l) == [i \in 0 .. l.cnt - 1 |-> [base |-> 0, len |-> Size(l, i)]]

(* The buffers of l when the n bytes from position p fill them in order.   *)
Scatter(l, p, n) ==
  [c \in Cells |->
     IF c[1] < l.cnt /\ c[2] < Size(l, c[1]) /\ l.start[c[1]] + c[2] < n
     THEN p + l.start[c[1]] + c[2]
     ELSE Unset]

Init ==
  /\ arrived = 0
  /\ consumed = 0
  /\ pc = "idle"
  /\ layout \in Layouts
  /\ min_bytes \in MinBytes
  /\ min_bytes <= Total(layout)
  /\ iov = Entries(layout)
  /\ cur = 0
  /\ read = 0
  /\ ret = 0
  /\ mem = Blank
  /\ first = 0
  /\ result = -1

-----------------------------------------------------------------------------
(* The peer.                                                               *)

PeerSends ==
  /\ arrived < MaxStream
  /\ arrived' = arrived + 1
  /\ UNCHANGED <<consumed, pc, layout, min_bytes, iov, cur, read, ret, mem,
                 first, result>>

-----------------------------------------------------------------------------
(* The call.                                                               *)

BeginReadv(l, m) ==
  /\ pc = "idle"
  /\ m <= Total(l)  \* no caller wants more than its buffers hold
  /\ pc' = "read"
  /\ layout' = l
  /\ min_bytes' = m
  /\ iov' = Entries(l)
  /\ cur' = 0
  /\ ret' = 0
  /\ read' = 0
  /\ mem' = Blank
  /\ first' = consumed
  /\ UNCHANGED <<arrived, consumed, result>>

Return(r) ==
  /\ pc' = "idle"
  /\ result' = r

(* php_stream_read put n > 0 bytes at iov[cur].iov_base.                   *)
ReadSome(n) ==
  /\ pc = "read"
  /\ n \in 1 .. iov[cur].len
  /\ n <= arrived - consumed
  /\ mem' = [c \in Cells |->
               IF /\ c[1] = cur
                  /\ c[2] >= iov[cur].base
                  /\ c[2] < iov[cur].base + n
               THEN consumed + (c[2] - iov[cur].base)
               ELSE mem[c]]
  /\ consumed' = consumed + n
  /\ read' = n
  /\ ret' = ret + n
  /\ pc' = "account"
  /\ UNCHANGED <<arrived, layout, min_bytes, iov, cur, first, result>>

(* Defect: what was read is returned even when it is not enough.           *)
ReadNothingReturnsShort ==
  /\ pc = "read"
  /\ iov[cur].len = 0 \/ arrived = consumed
  /\ Return(ret)
  /\ UNCHANGED <<arrived, consumed, layout, min_bytes, iov, cur, read, ret,
                 mem, first>>

(* Defect: the call waits for the rest without end.                        *)
ReadNothingRetries ==
  /\ pc = "read"
  /\ iov[cur].len = 0 \/ arrived = consumed
  /\ UNCHANGED vars

(* php_stream_read returned 0: the entry is empty, or the stream is at its *)
(* end or timed out with nothing to read.                                  *)
ReadNothing ==
  /\ pc = "read"
  /\ iov[cur].len = 0 \/ arrived = consumed
  /\ Return(IF ret >= min_bytes THEN ret ELSE -1)
  /\ UNCHANGED <<arrived, consumed, layout, min_bytes, iov, cur, read, ret,
                 mem, first>>

EntryFull == cur < layout.cnt /\ read >= iov[cur].len

(* Defect: what an entry took is not charged to it.                        *)
NextEntryKeepsRead ==
  /\ pc = "account"
  /\ EntryFull
  /\ cur' = cur + 1
  /\ UNCHANGED <<arrived, consumed, pc, layout, min_bytes, iov, read, ret, mem,
                 first, result>>

NextEntry ==
  /\ pc = "account"
  /\ EntryFull
  /\ read' = read - iov[cur].len
  /\ cur' = cur + 1
  /\ UNCHANGED <<arrived, consumed, pc, layout, min_bytes, iov, ret, mem,
                 first, result>>

Satisfied == cur = layout.cnt \/ ret >= min_bytes

ReturnBytes ==
  /\ pc = "account"
  /\ ~EntryFull
  /\ Satisfied
  /\ Return(ret)
  /\ UNCHANGED <<arrived, consumed, layout, min_bytes, iov, cur, read, ret,
                 mem, first>>

(* Defect: only the length is adjusted, not the base.                      *)
ReadOnKeepsBase ==
  /\ pc = "account"
  /\ ~EntryFull
  /\ ~Satisfied
  /\ iov' = [iov EXCEPT ![cur].len = @ - read]
  /\ pc' = "read"
  /\ UNCHANGED <<arrived, consumed, layout, min_bytes, cur, read, ret, mem,
                 first, result>>

(* Defect: the entry is moved by all that was read, not by the last read.  *)
ReadOnByTotal ==
  /\ pc = "account"
  /\ ~EntryFull
  /\ ~Satisfied
  /\ iov' = [iov EXCEPT ![cur].base = @ + ret, ![cur].len = @ - ret]
  /\ pc' = "read"
  /\ UNCHANGED <<arrived, consumed, layout, min_bytes, cur, read, ret, mem,
                 first, result>>

(* Not enough yet: move the entry's base past what it holds and read on.   *)
ReadOn ==
  /\ pc = "account"
  /\ ~EntryFull
  /\ ~Satisfied
  /\ iov' = [iov EXCEPT ![cur].base = @ + read, ![cur].len = @ - read]
  /\ pc' = "read"
  /\ UNCHANGED <<arrived, consumed, layout, min_bytes, cur, read, ret, mem,
                 first, result>>

-----------------------------------------------------------------------------

Step ==
  \/ \E n \in 1 .. MaxOffset : ReadSome(n)
  \/ ReadNothing
  \/ NextEntry
  \/ ReturnBytes
  \/ ReadOn

Next ==
  \/ PeerSends
  \/ \E l \in Layouts, m \in MinBytes : BeginReadv(l, m)
  \/ Step

Spec == Init /\ [][Next]_vars

(* The function never waits for anything but php_stream_read, and that     *)
(* returns when the stream times out, ends or has bytes.                   *)
FairSpec == Spec /\ WF_vars(Step)

-----------------------------------------------------------------------------
(* Properties.                                                             *)

TypeOK ==
  /\ arrived \in 0 .. MaxStream
  /\ consumed \in 0 .. arrived
  /\ pc \in PC
  /\ layout \in Layouts
  /\ min_bytes \in MinBytes
  /\ iov \in [0 .. layout.cnt - 1 -> [base : 0 .. MaxOffset, len : 0 .. MaxOffset]]
  /\ cur \in 0 .. layout.cnt
  /\ read \in 0 .. MaxOffset
  /\ ret \in Nat
  /\ mem \in [Cells -> Int]
  /\ first \in Nat
  /\ result \in Int

(* The bytes the call has taken off the stream are in the caller's         *)
(* buffers, in stream order, with no gap, no byte twice and no byte beyond *)
(* the end of a buffer, however the peer's sends split the reads: the      *)
(* pointer arithmetic of phongo_stream_readv after every partial read.     *)
BuffersHoldTheStream ==
  /\ ret = consumed - first
  /\ mem = Scatter(layout, first, ret)

(* When it is about to read again, the entry it reads into is exactly the  *)
(* first one with room, and the target is exactly the room that is left.   *)
ReadsIntoTheFirstGap ==
  pc = "read" =>
    /\ cur < layout.cnt
    /\ layout.start[cur] + iov[cur].base = ret
    /\ iov[cur].base + iov[cur].len = Size(layout, cur)
    /\ \A j \in cur + 1 .. layout.cnt - 1 :
         iov[j] = [base |-> 0, len |-> Size(layout, j)]

(* While the bytes of a read are charged to the entries: the entry and the *)
(* bytes left over say how far the call has got.                           *)
AccountsForEveryByte ==
  pc = "account" =>
    IF cur = layout.cnt
    THEN read = 0 /\ ret = Total(layout)
    ELSE /\ layout.start[cur] + iov[cur].base + read = ret
         /\ iov[cur].base + iov[cur].len = Size(layout, cur)
         /\ read <= iov[cur].len
         /\ \A j \in cur + 1 .. layout.cnt - 1 :
              iov[j] = [base |-> 0, len |-> Size(layout, j)]

(* The abstract read this loop implements.  Its buffers are those of a     *)
(* call that returned bytes; what a running or failed call has put there   *)
(* is not promised to anybody.                                             *)
Abstract == INSTANCE AtomicRead WITH
  position <- IF pc = "idle" THEN consumed ELSE first,
  busy     <- pc # "idle",
  buffers  <- IF pc = "idle" /\ result # -1 THEN mem ELSE Blank

ImplementsAtomicRead == Abstract!Spec

(* Every call returns, whatever the peer does.                             *)
CallReturns == pc # "idle" ~> pc = "idle"

=============================================================================
