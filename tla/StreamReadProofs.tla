--------------------------- MODULE StreamReadProofs ---------------------------
(***************************************************************************)
(* Proofs about StreamRead: for every iov layout and every interleaving of *)
(* the peer's bytes with the reads, and with no bound on either.           *)
(***************************************************************************)
EXTENDS StreamRead, TLAPS

(* The inductive invariant.  The two middle conjuncts tie the current      *)
(* entry, its base and the bytes not yet charged to the count of bytes     *)
(* read; BuffersHoldTheStream alone does not say where the next read goes. *)
IInv ==
  /\ TypeOK
  /\ min_bytes <= Total(layout)
  /\ ReadsIntoTheFirstGap
  /\ AccountsForEveryByte
  /\ BuffersHoldTheStream

(* The offsets of one entry of a layout.                                   *)
LEMMA EntryFacts ==
  ASSUME NEW l \in Layouts, NEW i \in 0 .. l.cnt - 1
  PROVE  /\ l.cnt \in 1 .. MaxEntries
         /\ l.cnt \in Nat
         /\ i \in Nat
         /\ l.start[0] = 0
         /\ l.start[i] \in Nat
         /\ Size(l, i) \in 0 .. MaxOffset
         /\ Size(l, i) \in Nat
         /\ l.start[i] + Size(l, i) = l.start[i + 1]
         /\ l.start[i + 1] <= Total(l)
         /\ Total(l) \in Nat
<1>1. IsLayout(l)
  BY LayoutAssumption
<1>2. l.cnt \in 1 .. MaxEntries /\ l.cnt \in Nat /\ i \in Nat
  BY <1>1, BoundAssumption DEF IsLayout
<1>3. l.start \in [0 .. l.cnt -> Nat] /\ l.start[0] = 0
  BY <1>1 DEF IsLayout
<1>4. /\ i \in 0 .. l.cnt
      /\ i + 1 \in i .. l.cnt
      /\ i + 1 \in 0 .. l.cnt
      /\ l.cnt \in i + 1 .. l.cnt
      /\ l.cnt \in 0 .. l.cnt
  BY <1>2
<1>5. l.start[i] \in Nat /\ l.start[i + 1] \in Nat /\ l.start[l.cnt] \in Nat
  BY <1>3, <1>4
<1>6. l.start[i] <= l.start[i + 1] /\ l.start[i + 1] <= l.start[l.cnt]
  BY <1>1, <1>4 DEF IsLayout
<1>7. l.start[i + 1] - l.start[i] <= MaxOffset
  BY <1>1 DEF IsLayout
<1>8. Size(l, i) = l.start[i + 1] - l.start[i]
  BY DEF Size
<1>9. Size(l, i) \in Nat /\ l.start[i] + Size(l, i) = l.start[i + 1]
  BY <1>5, <1>6, <1>8
<1>10. Size(l, i) \in 0 .. MaxOffset
  BY <1>7, <1>8, <1>9, BoundAssumption
<1>11. l.start[i + 1] <= Total(l) /\ Total(l) \in Nat
  BY <1>5, <1>6 DEF Total
<1>. QED
  BY <1>2, <1>3, <1>5, <1>9, <1>10, <1>11

(* An entry ends where or before a later one starts.                       *)
LEMMA EntryOrder ==
  ASSUME NEW l \in Layouts, NEW i \in 0 .. l.cnt - 1, NEW j \in 0 .. l.cnt - 1, i < j
  PROVE  l.start[i] + Size(l, i) <= l.start[j]
<1>1. i + 1 \in 0 .. l.cnt /\ j \in i + 1 .. l.cnt
  BY EntryFacts
<1>2. l.start[i + 1] <= l.start[j]
  BY <1>1, LayoutAssumption DEF IsLayout
<1>. QED
  BY <1>2, EntryFacts

(* Taking n more bytes into the first gap extends the scattered prefix.    *)
LEMMA ScatterExtends ==
  ASSUME NEW l \in Layouts, NEW i \in 0 .. l.cnt - 1, NEW p \in Nat,
         NEW b \in Nat, NEW n \in Nat, b + n <= Size(l, i),
         NEW r \in Nat, r = l.start[i] + b
  PROVE  Scatter(l, p, r + n) =
           [c \in Cells |->
              IF c[1] = i /\ c[2] >= b /\ c[2] < b + n
              THEN p + r + (c[2] - b)
              ELSE Scatter(l, p, r)[c]]
<1>1. SUFFICES ASSUME NEW c \in Cells
               PROVE  Scatter(l, p, r + n)[c] =
                        IF c[1] = i /\ c[2] >= b /\ c[2] < b + n
                        THEN p + r + (c[2] - b)
                        ELSE Scatter(l, p, r)[c]
  BY DEF Scatter
<1>2. c[1] \in 0 .. MaxEntries /\ c[2] \in Nat
  BY BoundAssumption DEF Cells
<1>3. l.start[i] \in Nat /\ Size(l, i) \in Nat /\ l.cnt \in Nat /\ i \in Nat
  BY EntryFacts
<1>4. CASE c[1] = i
  BY <1>2, <1>3, <1>4 DEF Scatter
<1>5. CASE c[1] < i /\ c[2] < Size(l, c[1])
  <2>1. c[1] \in 0 .. l.cnt - 1
    BY <1>2, <1>3, <1>5
  <2>2. l.start[c[1]] + Size(l, c[1]) <= l.start[i]
    BY <1>5, <2>1, EntryOrder
  <2>3. l.start[c[1]] \in Nat /\ Size(l, c[1]) \in Nat
    BY <2>1, EntryFacts
  <2>. QED
    BY <1>2, <1>3, <1>5, <2>2, <2>3 DEF Scatter
<1>6. CASE c[1] > i /\ c[1] < l.cnt
  <2>1. c[1] \in 0 .. l.cnt - 1
    BY <1>2, <1>3, <1>6
  <2>2. l.start[i] + Size(l, i) <= l.start[c[1]] /\ l.start[c[1]] \in Nat
    BY <1>6, <2>1, EntryFacts, EntryOrder
  <2>. QED
    BY <1>2, <1>3, <1>6, <2>2 DEF Scatter
<1>7. CASE c[1] >= l.cnt \/ (c[1] # i /\ ~(c[2] < Size(l, c[1])))
  BY <1>2, <1>3, <1>7 DEF Scatter
<1>. QED
  BY <1>2, <1>3, <1>4, <1>5, <1>6, <1>7

(* A call starts with nothing read and every entry as the caller gave it.  *)
LEMMA FreshCall ==
  ASSUME NEW l \in Layouts, NEW p \in Nat
  PROVE  /\ Entries(l) \in [0 .. l.cnt - 1 -> [base : 0 .. MaxOffset, len : 0 .. MaxOffset]]
         /\ Blank = Scatter(l, p, 0)
         /\ Blank \in [Cells -> Int]
         /\ l.cnt \in Nat
         /\ 0 \in 0 .. l.cnt - 1
         /\ l.start[0] = 0
         /\ Size(l, 0) \in Nat
         /\ Total(l) \in Nat
<1>1. l.cnt \in Nat /\ 0 \in 0 .. l.cnt - 1
  BY LayoutAssumption, BoundAssumption DEF IsLayout
<1>2. l.start[0] = 0 /\ Size(l, 0) \in Nat /\ Total(l) \in Nat
  BY <1>1, EntryFacts
<1>3. Entries(l) \in [0 .. l.cnt - 1 -> [base : 0 .. MaxOffset, len : 0 .. MaxOffset]]
  BY EntryFacts, BoundAssumption DEF Entries
<1>4. ASSUME NEW c \in Cells
      PROVE  Scatter(l, p, 0)[c] = Unset
  <2>1. c[1] \in Nat /\ c[2] \in Nat
    BY BoundAssumption DEF Cells
  <2>2. CASE c[1] < l.cnt
    <3>1. c[1] \in 0 .. l.cnt - 1
      BY <1>1, <2>1, <2>2
    <3>2. l.start[c[1]] \in Nat
      BY <3>1, EntryFacts
    <3>. QED
      BY <2>1, <3>2 DEF Scatter
  <2>. QED
    BY <2>2 DEF Scatter
<1>5. Blank = Scatter(l, p, 0)
  BY <1>4 DEF Blank, Scatter
<1>. QED
  BY <1>1, <1>2, <1>3, <1>5 DEF Blank, Unset

LEMMA InitEstablishes == Init => IInv
<1> SUFFICES ASSUME Init PROVE IInv
  OBVIOUS
<1>1. layout \in Layouts
  BY DEF Init
<1>2. TypeOK
  BY <1>1, FreshCall, BoundAssumption, MinBytesAssumption DEF Init, TypeOK, PC
<1>3. BuffersHoldTheStream
  BY <1>1, FreshCall DEF Init, BuffersHoldTheStream
<1>. QED
  BY <1>2, <1>3 DEF Init, IInv, ReadsIntoTheFirstGap, AccountsForEveryByte

(* What the invariant says of the entry being filled.                      *)
LEMMA CurrentEntry ==
  ASSUME IInv, pc = "read" \/ (pc = "account" /\ cur # layout.cnt)
  PROVE  /\ cur \in 0 .. layout.cnt - 1
         /\ layout \in Layouts
         /\ layout.cnt \in Nat
         /\ iov[cur].base \in Nat
         /\ iov[cur].len \in Nat
         /\ iov[cur].base <= MaxOffset
         /\ iov[cur].len <= MaxOffset
         /\ iov[cur].base + iov[cur].len = Size(layout, cur)
         /\ layout.start[cur] \in Nat
         /\ Total(layout) \in Nat
         /\ min_bytes \in Nat
<1>1. layout \in Layouts /\ cur \in 0 .. layout.cnt /\ min_bytes \in Nat
  BY MinBytesAssumption DEF IInv, TypeOK
<1>2. layout.cnt \in Nat
  BY <1>1, FreshCall
<1>3. cur \in 0 .. layout.cnt - 1
  BY <1>1, <1>2 DEF IInv, ReadsIntoTheFirstGap
<1>4. iov[cur] \in [base : 0 .. MaxOffset, len : 0 .. MaxOffset]
  BY <1>3 DEF IInv, TypeOK
<1>5. iov[cur].base + iov[cur].len = Size(layout, cur)
  BY <1>3 DEF IInv, ReadsIntoTheFirstGap, AccountsForEveryByte
<1>. QED
  BY <1>1, <1>2, <1>3, <1>4, <1>5, EntryFacts, BoundAssumption

-----------------------------------------------------------------------------
(* One lemma per action: the action preserves the invariant.               *)

LEMMA PeerSendsPreserves == IInv /\ PeerSends => IInv'
  BY BoundAssumption
  DEF IInv, PeerSends, TypeOK, ReadsIntoTheFirstGap, AccountsForEveryByte,
      BuffersHoldTheStream

LEMMA BeginReadvPreserves ==
  ASSUME IInv, NEW l \in Layouts, NEW m \in MinBytes, BeginReadv(l, m)
  PROVE  IInv'
<1>1. consumed \in Nat /\ arrived \in Nat
  BY BoundAssumption DEF IInv, TypeOK
<1>2. TypeOK'
  BY <1>1, FreshCall, BoundAssumption DEF IInv, TypeOK, BeginReadv, PC
<1>3. BuffersHoldTheStream'
  <2>1. Blank = Scatter(l, consumed, 0)
    BY <1>1, FreshCall
  <2>. QED
    BY <1>1, <2>1 DEF BeginReadv, BuffersHoldTheStream
<1>4. ReadsIntoTheFirstGap'
  BY FreshCall DEF BeginReadv, ReadsIntoTheFirstGap, Entries
<1>5. AccountsForEveryByte' /\ (min_bytes <= Total(layout))'
  BY DEF BeginReadv, AccountsForEveryByte
<1>. QED
  BY <1>2, <1>3, <1>4, <1>5 DEF IInv

LEMMA ReadSomePreserves ==
  ASSUME IInv, NEW n \in 1 .. MaxOffset, ReadSome(n)
  PROVE  IInv'
<1>1. pc = "read" /\ n <= iov[cur].len /\ n <= arrived - consumed
  BY CurrentEntry DEF ReadSome
<1>2. consumed \in Nat /\ first \in Nat /\ arrived \in Nat /\ ret \in Nat /\ n \in Nat
  BY BoundAssumption DEF IInv, TypeOK
<1>3. ret = consumed - first /\ mem = Scatter(layout, first, ret)
  BY DEF IInv, BuffersHoldTheStream
<1>4. layout.start[cur] + iov[cur].base = ret
  BY <1>1 DEF IInv, ReadsIntoTheFirstGap
<1>5. BuffersHoldTheStream'
  <2>1. Scatter(layout, first, ret + n) =
          [c \in Cells |->
             IF c[1] = cur /\ c[2] >= iov[cur].base /\ c[2] < iov[cur].base + n
             THEN first + ret + (c[2] - iov[cur].base)
             ELSE Scatter(layout, first, ret)[c]]
    <3>1. /\ cur \in 0 .. layout.cnt - 1
          /\ layout \in Layouts
          /\ iov[cur].base \in Nat
          /\ iov[cur].base + n <= Size(layout, cur)
      BY <1>1, <1>2, CurrentEntry
    <3>. QED
      BY <1>2, <1>4, <3>1, ScatterExtends
  <2>2. first + ret = consumed
    BY <1>2, <1>3
  <2>3. mem' = Scatter(layout, first, ret + n)
    BY <1>3, <2>1, <2>2 DEF ReadSome
  <2>. QED
    BY <1>2, <1>3, <2>3 DEF ReadSome, BuffersHoldTheStream
<1>6. mem' \in [Cells -> Int]
  <2>1. ASSUME NEW c \in Cells PROVE c[2] \in Nat
    BY BoundAssumption DEF Cells
  <2>2. iov[cur].base \in Nat
    BY <1>1, CurrentEntry
  <2>3. \A c \in Cells : mem[c] \in Int /\ consumed + (c[2] - iov[cur].base) \in Int
    BY <1>2, <2>1, <2>2 DEF IInv, TypeOK
  <2>. QED
    BY <2>3 DEF ReadSome
<1>7. TypeOK'
  BY <1>1, <1>2, <1>6, BoundAssumption DEF ReadSome, IInv, TypeOK, PC
<1>8. AccountsForEveryByte'
  BY <1>1, <1>2, <1>4, CurrentEntry
  DEF ReadSome, IInv, ReadsIntoTheFirstGap, AccountsForEveryByte
<1>. QED
  BY <1>5, <1>7, <1>8 DEF ReadSome, IInv, ReadsIntoTheFirstGap

LEMMA ReadNothingPreserves == IInv /\ ReadNothing => IInv'
  BY DEF IInv, ReadNothing, Return, TypeOK, PC, ReadsIntoTheFirstGap,
         AccountsForEveryByte, BuffersHoldTheStream

LEMMA ReturnBytesPreserves == IInv /\ ReturnBytes => IInv'
  BY DEF IInv, ReturnBytes, Return, TypeOK, PC, ReadsIntoTheFirstGap,
         AccountsForEveryByte, BuffersHoldTheStream

LEMMA NextEntryPreserves ==
  ASSUME IInv, NextEntry
  PROVE  IInv'
<1>1. pc = "account" /\ cur # layout.cnt /\ read >= iov[cur].len
  <2>1. layout \in Layouts
    BY DEF IInv, TypeOK
  <2>2. layout.cnt \in Nat
    BY <2>1, FreshCall
  <2>. QED
    BY <2>2 DEF NextEntry, EntryFull
<1>2. layout.start[cur] + iov[cur].base + read = ret /\ read = iov[cur].len
  BY <1>1, CurrentEntry DEF IInv, TypeOK, AccountsForEveryByte
<1>3. layout.start[cur + 1] = ret
  BY <1>1, <1>2, CurrentEntry, EntryFacts
<1>4. read' = 0 /\ cur' = cur + 1
  BY <1>1, <1>2, CurrentEntry DEF NextEntry
<1>5. TypeOK'
  <2>1. cur + 1 \in 0 .. layout.cnt
    BY <1>1, CurrentEntry
  <2>2. 0 \in 0 .. MaxOffset
    BY BoundAssumption
  <2>. QED
    BY <1>4, <2>1, <2>2 DEF NextEntry, IInv, TypeOK
<1>6. AccountsForEveryByte'
  <2>1. CASE cur + 1 = layout.cnt
    BY <1>3, <1>4, <2>1 DEF NextEntry, AccountsForEveryByte, Total
  <2>2. CASE cur + 1 # layout.cnt
    <3>1. cur + 1 \in 0 .. layout.cnt - 1
      BY <1>1, <2>2, CurrentEntry
    <3>2. iov[cur + 1] = [base |-> 0, len |-> Size(layout, cur + 1)]
      BY <1>1, <3>1, CurrentEntry DEF IInv, AccountsForEveryByte
    <3>3. Size(layout, cur + 1) \in Nat /\ layout.start[cur + 1] \in Nat
      BY <1>1, <3>1, CurrentEntry, EntryFacts
    <3>4. \A j \in (cur + 1) + 1 .. layout.cnt - 1 :
            iov[j] = [base |-> 0, len |-> Size(layout, j)]
      BY <1>1, <3>1, CurrentEntry DEF IInv, AccountsForEveryByte
    <3>. QED
      BY <1>3, <1>4, <2>2, <3>2, <3>3, <3>4 DEF NextEntry, AccountsForEveryByte
  <2>. QED
    BY <2>1, <2>2
<1>7. ReadsIntoTheFirstGap'
  <2>1. pc' = "account"
    BY <1>1 DEF NextEntry
  <2>. QED
    BY <2>1 DEF ReadsIntoTheFirstGap
<1>8. BuffersHoldTheStream'
  BY <1>1 DEF NextEntry, IInv, BuffersHoldTheStream
<1>9. (min_bytes <= Total(layout))'
  BY DEF NextEntry, IInv, Total
<1>. QED
  BY <1>5, <1>6, <1>7, <1>8, <1>9 DEF IInv

LEMMA ReadOnPreserves ==
  ASSUME IInv, ReadOn
  PROVE  IInv'
<1>1. pc = "account" /\ cur # layout.cnt /\ pc' = "read"
  BY DEF ReadOn, Satisfied
<1>2. read < iov[cur].len /\ read \in Nat
  BY <1>1, CurrentEntry, SMTT(60) DEF ReadOn, EntryFull, IInv, TypeOK
<1>3. iov[cur] \in [base : 0 .. MaxOffset, len : 0 .. MaxOffset]
  BY <1>1, CurrentEntry DEF IInv, TypeOK
<1>4. DOMAIN iov = 0 .. layout.cnt - 1
  BY DEF IInv, TypeOK
<1>5. iov'[cur] = [base |-> iov[cur].base + read, len |-> iov[cur].len - read]
  BY <1>1, <1>3, <1>4, CurrentEntry DEF ReadOn
<1>6. \A j \in 0 .. layout.cnt - 1 : j # cur => iov'[j] = iov[j]
  BY <1>4 DEF ReadOn
<1>7. /\ iov[cur].base + read <= MaxOffset
      /\ iov'[cur] \in [base : 0 .. MaxOffset, len : 0 .. MaxOffset]
  <2>1. iov[cur].base + iov[cur].len <= MaxOffset
    BY <1>1, CurrentEntry, EntryFacts, BoundAssumption
  <2>. QED
    BY <1>1, <1>2, <1>5, <2>1, CurrentEntry, BoundAssumption
<1>8. iov' \in [0 .. layout.cnt - 1 -> [base : 0 .. MaxOffset, len : 0 .. MaxOffset]]
  BY <1>4, <1>6, <1>7 DEF ReadOn, IInv, TypeOK
<1>9. TypeOK'
  BY <1>8 DEF ReadOn, IInv, TypeOK, PC
<1>10. ReadsIntoTheFirstGap'
  <2>1. layout.start[cur] + iov[cur].base + read = ret
    BY <1>1 DEF IInv, AccountsForEveryByte
  <2>2. \A j \in cur + 1 .. layout.cnt - 1 :
          iov'[j] = [base |-> 0, len |-> Size(layout, j)]
    BY <1>1, <1>6, CurrentEntry DEF IInv, AccountsForEveryByte
  <2>3. /\ cur < layout.cnt
        /\ layout.start[cur] + iov'[cur].base = ret
        /\ iov'[cur].base + iov'[cur].len = Size(layout, cur)
    BY <1>1, <1>2, <1>5, <2>1, CurrentEntry
  <2>. QED
    BY <2>2, <2>3 DEF ReadOn, ReadsIntoTheFirstGap, Size
<1>. QED
  BY <1>1, <1>9, <1>10 DEF ReadOn, IInv, AccountsForEveryByte, BuffersHoldTheStream

-----------------------------------------------------------------------------
(* The theorems.                                                           *)

LEMMA NextPreserves == IInv /\ [Next]_vars => IInv'
<1> SUFFICES ASSUME IInv, [Next]_vars PROVE IInv'
  OBVIOUS
<1>1. CASE PeerSends
  BY <1>1, PeerSendsPreserves
<1>2. CASE \E l \in Layouts, m \in MinBytes : BeginReadv(l, m)
  BY <1>2, BeginReadvPreserves
<1>3. CASE \E n \in 1 .. MaxOffset : ReadSome(n)
  BY <1>3, ReadSomePreserves
<1>4. CASE ReadNothing
  BY <1>4, ReadNothingPreserves
<1>5. CASE NextEntry
  BY <1>5, NextEntryPreserves
<1>6. CASE ReturnBytes
  BY <1>6, ReturnBytesPreserves
<1>7. CASE ReadOn
  BY <1>7, ReadOnPreserves
<1>8. CASE UNCHANGED vars
  BY <1>8 DEF vars, IInv, TypeOK, ReadsIntoTheFirstGap, AccountsForEveryByte,
              BuffersHoldTheStream
<1>. QED
  BY <1>1, <1>2, <1>3, <1>4, <1>5, <1>6, <1>7, <1>8 DEF Next, Step

(* phongo_stream_readv keeps its variables consistent in every state: the  *)
(* type invariant and the three facts about the current entry hold.        *)
THEOREM Invariance == Spec => []IInv
  BY InitEstablishes, NextPreserves, PTL DEF Spec

(* The state variables of phongo_stream_readv keep their types; cur never  *)
(* leaves the iov array and no length or base leaves its buffer.           *)
THEOREM TypeCorrect == Spec => []TypeOK
<1>1. IInv => TypeOK
  BY DEF IInv
<1>. QED
  BY <1>1, Invariance, PTL

(* At every moment of a call the caller's buffers hold exactly the bytes   *)
(* phongo_stream_readv has taken off the stream, in order.                 *)
THEOREM BuffersAlwaysHoldTheStream == Spec => []BuffersHoldTheStream
<1>1. IInv => BuffersHoldTheStream
  BY DEF IInv
<1>. QED
  BY <1>1, Invariance, PTL

(* Every read of phongo_stream_readv goes into the first gap of the        *)
(* caller's buffers and has exactly the room that is left there.           *)
THEOREM AlwaysReadsIntoTheFirstGap == Spec => []ReadsIntoTheFirstGap
<1>1. IInv => ReadsIntoTheFirstGap
  BY DEF IInv
<1>. QED
  BY <1>1, Invariance, PTL

(* The loop of phongo_stream_readv implements one atomic read.             *)
THEOREM Refinement == Spec => ImplementsAtomicRead
<1>1. Init => Abstract!Init
  BY DEF Init, Abstract!Init, Blank, Abstract!Blank, Cells, Abstract!Cells,
         Unset, Abstract!Unset, Total, Abstract!Total
<1>2. IInv /\ IInv' /\ [Next]_vars => [Abstract!Next]_(Abstract!vars)
  <2> SUFFICES ASSUME IInv, IInv', [Next]_vars
               PROVE  [Abstract!Next]_(Abstract!vars)
    OBVIOUS
  <2> USE DEF Abstract!Next, Abstract!vars
  <2>1. CASE PeerSends
    <3>1. Abstract!Arrive
      BY <2>1 DEF PeerSends, Abstract!Arrive
    <3>. QED
      BY <3>1
  <2>2. ASSUME NEW l \in Layouts, NEW m \in MinBytes, BeginReadv(l, m)
        PROVE  [Abstract!Next]_(Abstract!vars)
    <3>1. Abstract!Begin(l, m)
      BY <2>2 DEF BeginReadv, Abstract!Begin, Blank, Abstract!Blank, Cells,
                  Abstract!Cells, Unset, Abstract!Unset, Total, Abstract!Total
    <3>. QED
      BY <3>1
  <2>3. ASSUME NEW n \in 1 .. MaxOffset, ReadSome(n)
        PROVE  [Abstract!Next]_(Abstract!vars)
    BY <2>3 DEF ReadSome
  <2>4. CASE NextEntry
    BY <2>4 DEF NextEntry
  <2>5. CASE ReadOn
    BY <2>5 DEF ReadOn
  <2>6. CASE UNCHANGED vars
    BY <2>6 DEF vars
  <2>7. /\ ret = consumed - first /\ ret \in Nat /\ first \in Nat
        /\ consumed \in 0 .. arrived /\ arrived \in 0 .. MaxStream
        /\ ret <= arrived - first /\ ret \in 0 .. MaxStream
    BY BoundAssumption DEF IInv, TypeOK, BuffersHoldTheStream
  <2>8. pc = "read" \/ pc = "account" => ret <= Total(layout)
    <3>1. CASE pc = "account" /\ cur = layout.cnt
      <4>1. layout \in Layouts
        BY DEF IInv, TypeOK
      <4>. QED
        BY <3>1, <4>1, FreshCall DEF IInv, AccountsForEveryByte
    <3>2. CASE pc = "read" \/ (pc = "account" /\ cur # layout.cnt)
      <4>1. layout.start[cur] + Size(layout, cur) <= Total(layout)
        BY <3>2, CurrentEntry, EntryFacts
      <4>2. ret <= layout.start[cur] + Size(layout, cur)
        <5>1. CASE pc = "read"
          BY <5>1, <2>7, CurrentEntry DEF IInv, ReadsIntoTheFirstGap
        <5>2. CASE pc = "account" /\ cur # layout.cnt
          <6>1. read \in Nat /\ read <= iov[cur].len
            BY <5>2, BoundAssumption DEF IInv, TypeOK, AccountsForEveryByte
          <6>2. layout.start[cur] + iov[cur].base + read = ret
            BY <5>2 DEF IInv, AccountsForEveryByte
          <6>. QED
            BY <5>2, <6>1, <6>2, CurrentEntry
        <5>. QED
          BY <3>2, <5>1, <5>2
      <4>. QED
        BY <3>2, <4>1, <4>2, <2>7, CurrentEntry, EntryFacts
    <3>. QED
      BY <3>1, <3>2
  <2>9. mem = Abstract!Filled(layout, first, ret)
    BY DEF IInv, BuffersHoldTheStream, Scatter, Abstract!Filled, Cells,
           Abstract!Cells, Unset, Abstract!Unset, Size, Abstract!Size
  <2>10. ASSUME pc # "idle", pc' = "idle", ret >= min_bytes, result' = ret,
                ret <= Total(layout),
                UNCHANGED <<arrived, consumed, layout, min_bytes, mem>>
         PROVE  [Abstract!Next]_(Abstract!vars)
    <3>1. Abstract!Deliver(ret)
      BY <2>7, <2>9, <2>10 DEF Abstract!Deliver, Total, Abstract!Total
    <3>. QED
      BY <2>7, <3>1
  <2>11. CASE ReturnBytes
    <3>1. pc = "account" /\ ret <= Total(layout)
      BY <2>8, <2>11 DEF ReturnBytes
    <3>2. ret >= min_bytes
      <4>1. CASE cur = layout.cnt
        BY <3>1, <4>1 DEF IInv, AccountsForEveryByte
      <4>. QED
        BY <2>11, <4>1 DEF ReturnBytes, Satisfied
    <3>. QED
      BY <2>10, <2>11, <3>1, <3>2 DEF ReturnBytes, Return
  <2>12. CASE ReadNothing
    <3>1. CASE ret >= min_bytes
      BY <2>8, <2>10, <2>12, <3>1 DEF ReadNothing, Return
    <3>2. CASE ~(ret >= min_bytes)
      <4>1. min_bytes \in Nat
        BY MinBytesAssumption DEF IInv, TypeOK
      <4>2. Abstract!Fail(ret)
        BY <2>7, <2>12, <3>2, <4>1
        DEF ReadNothing, Return, Abstract!Fail, Blank, Abstract!Blank, Cells,
            Abstract!Cells, Unset, Abstract!Unset
      <4>. QED
        BY <2>7, <4>2
    <3>. QED
      BY <3>1, <3>2
  <2>. QED
    BY <2>1, <2>2, <2>3, <2>4, <2>5, <2>6, <2>11, <2>12 DEF Next, Step
<1>. QED
  BY <1>1, <1>2, Invariance, PTL DEF Spec, ImplementsAtomicRead, Abstract!Spec

=============================================================================
