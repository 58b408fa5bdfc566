--------------------------- MODULE ConnectionProofs ---------------------------
(***************************************************************************)
(* Proofs about Connection: for any nodes and hosts, any lengths of the    *)
(* buffers and any timeouts, and with no bound on streams and messages     *)
(* but that there is one.                                                  *)
(***************************************************************************)
EXTENDS Connection, LeastNaturals, SequenceTheorems, TLAPS

-----------------------------------------------------------------------------
(* The inductive invariant, in named parts.                                *)

(* Every stream but the persistent one has been freed, and that one not.   *)
OnlyThePersistentIsLeft ==
  /\ \A i \in 1..opened : stream[i].state # "freed" => i = persistent
  /\ persistent # 0 => stream[persistent].state \in {"open", "dead"}

(* Nobody has asked for a stream since the last node that did.             *)
LastTryHasItsStream == lastTry # None => ~IsDangling(lastTry)

CrashHasACause ==
  call.phase = "crashed" => call.timeout = 0 \/ lastTry # call.node

InCall == call.phase \in {"writing", "reading"}

(* A call in progress works on a stream that PHP has not freed.            *)
CallHasItsStream ==
  InCall => base[call.node] # 0 /\ stream[base[call.node]].state # "freed"

(* As long as no write was short, the message is written up to the buffer  *)
(* that is next; after a short write the count can not catch up.           *)
WrittenInOrder ==
  call # Idle =>
    /\ Len(call.written) = call.sent
    /\ call.sent <= Offset[call.buffer]
    /\ call.sent = Offset[call.buffer] => call.written = [p \in 1..call.sent |-> p]
    /\ call.phase = "reading" => call.sent = MessageLength

OnCall(i) == InCall /\ base[call.node] = i

(* On a stream on which no call ended early there is nothing between two   *)
(* calls, and during one its message or the reply to it.                   *)
HoldsOnlyTheCall ==
  \A i \in 1..MaxStreams : ~stream[i].abandoned =>
    IF OnCall(i)
    THEN \/ /\ stream[i].wire = [p \in 1..call.sent |-> <<call.request, call.written[p]>>]
            /\ stream[i].replies = <<>>
         \/ /\ call.sent = MessageLength
            /\ stream[i].wire = <<>>
            /\ stream[i].replies = <<call.request>>
    ELSE stream[i].wire = <<>> /\ stream[i].replies = <<>>

(* The timeout of a stream is the one last asked for on it, and PHP's      *)
(* default before there was one.                                           *)
TimeoutIsAsked(s) ==
  InMicroseconds(s.timeout) =
    IF s.asked > 0 THEN s.asked * 1000 ELSE InMicroseconds(DefaultTimeout)

TimeoutsAreAsked == \A i \in 1..MaxStreams : TimeoutIsAsked(stream[i])

IInv ==
  /\ TypeOK
  /\ OnlyThePersistentIsLeft
  /\ LastTryHasItsStream
  /\ CrashHasACause
  /\ CallHasItsStream
  /\ WrittenInOrder
  /\ HoldsOnlyTheCall
  /\ RepliesStayInStep

-----------------------------------------------------------------------------
(* Where the buffers start in the message.                                 *)

(* f sums the lengths of the first n buffers as Offset does.               *)
Sums(f, n) ==
  f = [k \in 1..n + 1 |-> IF k = 1 THEN 0 ELSE f[k - 1] + Buffers[k - 1]]

LEMMA BufferFacts ==
  /\ Len(Buffers) \in Nat
  /\ Len(Buffers) >= 1
  /\ \A k \in 1..Len(Buffers) : Buffers[k] \in Nat /\ Buffers[k] > 0
  BY BufferAssumption

(* There are such sums for any n, so Offset is what it says.               *)
LEMMA OffsetSums == Sums(Offset, Len(Buffers))
<1> DEFINE L == Len(Buffers)
           T == {n \in 0..L : ~ \E f : Sums(f, n)}
<1>1. T = {}
  <2>1. SUFFICES ASSUME T # {} PROVE FALSE
    OBVIOUS
  <2>2. PICK n \in T : \A k \in T : n <= k
    <3>1. T \subseteq Nat
      BY BufferFacts
    <3>. QED
      BY <2>1, <3>1, LeastNatural
  <2>3. n \in 0..L /\ n \in Nat /\ L \in Nat
    BY BufferFacts
  <2>4. n # 0
    <3> DEFINE f == [k \in 1..0 + 1 |-> 0]
    <3>1. Sums(f, 0)
      BY DEF Sums
    <3>. QED
      BY <3>1
  <2>5. n - 1 \in 0..L /\ n - 1 \notin T
    BY <2>2, <2>3, <2>4
  <2>6. PICK f : Sums(f, n - 1)
    BY <2>5
  <2>7. /\ f = [k \in 1..n |-> IF k = 1 THEN 0 ELSE f[k - 1] + Buffers[k - 1]]
    BY <2>3, <2>6 DEF Sums
  <2> DEFINE g == [k \in 1..n + 1 |-> IF k = n + 1 THEN f[n] + Buffers[n] ELSE f[k]]
  <2>8. ASSUME NEW k \in 1..n + 1
        PROVE  g[k] = IF k = 1 THEN 0 ELSE g[k - 1] + Buffers[k - 1]
    <3>1. CASE k = n + 1
      BY <2>3, <2>4, <3>1
    <3>2. CASE k = 1
      BY <2>3, <2>4, <2>7, <3>2
    <3>3. CASE k # 1 /\ k # n + 1
      <4>1. k \in 1..n /\ k - 1 \in 1..n
        BY <2>3, <3>3
      <4>2. g[k] = f[k] /\ g[k - 1] = f[k - 1]
        BY <2>3, <3>3, <4>1
      <4>3. f[k] = f[k - 1] + Buffers[k - 1]
        BY <2>7, <3>3, <4>1
      <4>. QED
        BY <3>3, <4>2, <4>3
    <3>. QED
      BY <3>1, <3>2, <3>3
  <2>9. Sums(g, n)
    BY <2>8 DEF Sums
  <2>. QED
    BY <2>9
<1>2. L \in 0..L
  BY BufferFacts
<1>3. \E f : Sums(f, L)
  BY <1>1, <1>2
<1>4. Offset = CHOOSE f : Sums(f, L)
  BY DEF Offset, Sums
<1>. QED
  BY <1>3, <1>4

(* The offsets are numbers, each buffer starts where the one before ends,  *)
(* and none after the end of the message.                                  *)
LEMMA OffsetFacts ==
  /\ Offset[1] = 0
  /\ \A k \in 1..Len(Buffers) : Offset[k + 1] = Offset[k] + Buffers[k]
  /\ \A k \in 1..Len(Buffers) + 1 : Offset[k] \in Nat /\ Offset[k] <= MessageLength
  /\ MessageLength \in Nat
  /\ MessageLength >= 1
<1> DEFINE L == Len(Buffers)
<1>1. Offset = [k \in 1..L + 1 |-> IF k = 1 THEN 0 ELSE Offset[k - 1] + Buffers[k - 1]]
  BY OffsetSums DEF Sums
<1>2. L \in Nat /\ L >= 1
  BY BufferFacts
<1>3. Offset[1] = 0
  BY <1>1, <1>2
<1>4. \A k \in 1..L : Offset[k + 1] = Offset[k] + Buffers[k]
  <2>1. SUFFICES ASSUME NEW k \in 1..L PROVE Offset[k + 1] = Offset[k] + Buffers[k]
    OBVIOUS
  <2>2. k + 1 \in 1..L + 1 /\ k + 1 # 1 /\ (k + 1) - 1 = k
    BY <1>2
  <2>. QED
    BY <1>1, <2>2
<1>5. \A k \in 1..L + 1 : Offset[k] \in Nat
  <2> DEFINE T == {k \in 1..L + 1 : Offset[k] \notin Nat}
  <2>1. SUFFICES ASSUME T # {} PROVE FALSE
    OBVIOUS
  <2>2. PICK m \in T : \A k \in T : m <= k
    <3>1. T \subseteq Nat
      BY <1>2
    <3>. QED
      BY <2>1, <3>1, LeastNatural
  <2>3. m # 1 /\ m \in 1..L + 1
    BY <1>3
  <2>4. m - 1 \in 1..L /\ m - 1 \in 1..L + 1 /\ (m - 1) + 1 = m
    BY <1>2, <2>3
  <2>5. Offset[m - 1] \in Nat
    BY <1>2, <2>2, <2>4
  <2>6. Offset[m] = Offset[m - 1] + Buffers[m - 1]
    BY <1>4, <2>4
  <2>. QED
    BY <2>4, <2>5, <2>6, BufferFacts
<1>6. \A k \in 1..L + 1 : Offset[k] <= Offset[L + 1]
  <2> DEFINE T == {d \in 0..L : ~(Offset[L + 1 - d] <= Offset[L + 1])}
  <2>1. T = {}
    <3>1. SUFFICES ASSUME T # {} PROVE FALSE
      OBVIOUS
    <3>2. PICK d \in T : \A k \in T : d <= k
      <4>1. T \subseteq Nat
        BY <1>2
      <4>. QED
        BY <3>1, <4>1, LeastNatural
    <3>3. d \in 0..L /\ d # 0
      <4>1. Offset[L + 1] \in Nat /\ L + 1 - 0 = L + 1
        BY <1>2, <1>5
      <4>. QED
        BY <4>1
    <3>4. d - 1 \in 0..L /\ d - 1 \notin T
      BY <1>2, <3>2, <3>3
    <3>5. Offset[L + 1 - (d - 1)] <= Offset[L + 1]
      BY <3>4
    <3>6. /\ L + 1 - d \in 1..L
          /\ (L + 1 - d) + 1 = L + 1 - (d - 1)
          /\ L + 1 - d \in 1..L + 1
          /\ L + 1 - (d - 1) \in 1..L + 1
          /\ L + 1 \in 1..L + 1
      BY <1>2, <3>3
    <3>7. Offset[L + 1 - (d - 1)] = Offset[L + 1 - d] + Buffers[L + 1 - d]
      BY <1>4, <3>6
    <3>8. /\ Offset[L + 1 - d] \in Nat
          /\ Offset[L + 1 - (d - 1)] \in Nat
          /\ Offset[L + 1] \in Nat
          /\ Buffers[L + 1 - d] \in Nat
      BY <1>5, <3>6, BufferFacts
    <3>9. Offset[L + 1 - d] <= Offset[L + 1]
      BY <3>5, <3>7, <3>8
    <3>. QED
      BY <3>9
  <2>2. SUFFICES ASSUME NEW k \in 1..L + 1 PROVE Offset[k] <= Offset[L + 1]
    OBVIOUS
  <2>3. L + 1 - k \in 0..L /\ L + 1 - (L + 1 - k) = k
    BY <1>2
  <2>. QED
    BY <2>1, <2>3
<1>7. MessageLength \in Nat /\ MessageLength >= 1
  <2>1. L \in 1..L /\ L \in 1..L + 1 /\ L + 1 \in 1..L + 1
    BY <1>2
  <2>2. MessageLength = Offset[L] + Buffers[L]
    BY <1>4, <2>1 DEF MessageLength
  <2>. QED
    BY <1>5, <2>1, <2>2, BufferFacts
<1>. QED
  BY <1>3, <1>4, <1>5, <1>6, <1>7 DEF MessageLength

-----------------------------------------------------------------------------
(* What the types say.                                                     *)

LEMMA StreamFacts ==
  ASSUME TypeOK, NEW i \in 1..MaxStreams
  PROVE  /\ stream[i] \in Streams
         /\ stream[i].state \in {"none", "open", "dead", "freed"}
         /\ stream[i].host \in Hosts \cup {None}
         /\ stream[i].timeout \in Timevals
         /\ stream[i].asked \in Timeouts \cup {0}
         /\ stream[i].wire \in Seq(Requests \X (1..MessageLength))
         /\ stream[i].replies \in Seq(Requests)
         /\ stream[i].abandoned \in BOOLEAN
  BY DEF TypeOK, Streams

LEMMA CountFacts ==
  ASSUME TypeOK
  PROVE  /\ opened \in Nat /\ opened <= MaxStreams /\ MaxStreams \in Nat
         /\ persistent \in Nat /\ persistent <= opened
         /\ persistent # 0 => persistent \in 1..MaxStreams /\ persistent \in 1..opened
         /\ \A n \in Nodes : /\ base[n] \in Nat /\ base[n] <= opened
                            /\ base[n] # 0 => base[n] \in 1..MaxStreams /\ base[n] \in 1..opened
         /\ requests \in Nat /\ MaxRequests \in Nat
  BY BoundAssumption DEF TypeOK

(* A call in progress has all its fields.                                  *)
LEMMA CallFacts ==
  ASSUME TypeOK, call # Idle
  PROVE  /\ call \in Calls
         /\ call.phase \in {"writing", "reading", "crashed"}
         /\ call.node \in Nodes
         /\ call.timeout \in Timeouts
         /\ call.wait \in Timeouts \cup {0}
         /\ call.request \in Requests
         /\ call.buffer \in 1..Len(Buffers) + 1
         /\ call.sent \in 0..MessageLength
         /\ call.written \in Seq(1..MessageLength)
  BY DEF TypeOK, Calls

LEMMA IdleHasNoFields ==
  ASSUME call.phase \in {"writing", "reading", "crashed"}
  PROVE  call # Idle
  BY DEF Idle

(* The stream of a call in progress.                                       *)
LEMMA CallStreamFacts ==
  ASSUME IInv, InCall
  PROVE  /\ call # Idle
         /\ call.node \in Nodes
         /\ base[call.node] \in 1..MaxStreams
         /\ base[call.node] \in 1..opened
         /\ stream[base[call.node]].state # "freed"
<1>1. TypeOK /\ call # Idle
  BY IdleHasNoFields DEF IInv, InCall
<1>2. call.node \in Nodes
  BY <1>1, CallFacts
<1>3. base[call.node] # 0 /\ stream[base[call.node]].state # "freed"
  BY DEF IInv, CallHasItsStream
<1>4. PICK i \in 0..opened : i = base[call.node]
  BY <1>1, <1>2 DEF TypeOK
<1>5. opened \in Nat /\ MaxStreams \in Nat /\ opened <= MaxStreams
  BY <1>1, CountFacts
<1>6. i \in 1..MaxStreams /\ i \in 1..opened
  BY <1>3, <1>4, <1>5
<1>. QED
  BY <1>1, <1>2, <1>3, <1>4, <1>6

(* There is no call on any stream unless there is one.                     *)
LEMMA NoCallWhenIdle == call = Idle => ~InCall /\ \A i : ~OnCall(i)
  BY DEF Idle, InCall, OnCall

(* The arithmetic of php_phongo_set_timeout.                               *)
LEMMA TimevalOfMilliseconds ==
  ASSUME NEW msec \in Int, msec > 0
  PROVE  /\ <<msec \div 1000, (msec % 1000) * 1000>> \in Timevals
         /\ InMicroseconds(<<msec \div 1000, (msec % 1000) * 1000>>) = msec * 1000
<1>1. LastMicrosecond \in Nat /\ LastMicrosecond >= 999000
  BY SMT DEF LastMicrosecond
<1>2. msec \div 1000 \in Nat /\ msec % 1000 \in 0..999
  BY SMT
<1>3. (msec % 1000) * 1000 \in 0..LastMicrosecond
  BY <1>1, <1>2, SMT
<1>4. (msec \div 1000) * 1000000 + (msec % 1000) * 1000 = msec * 1000
  BY SMT
<1>. QED
  BY <1>2, <1>3, <1>4, SMT DEF Timevals, InMicroseconds

LEMMA NoStreamType == NoStream \in Streams
<1>1. LastMicrosecond \in Nat
  BY SMT DEF LastMicrosecond
<1>2. <<60, 0>> \in Timevals
  BY <1>1 DEF Timevals
<1>. QED
  BY <1>2 DEF NoStream, DefaultTimeout, Streams

LEMMA InitEstablishes == Init => IInv
<1> SUFFICES ASSUME Init PROVE IInv
  OBVIOUS
<1>1. NoStream \in Streams
  BY NoStreamType
<1>2. TypeOK
  BY <1>1, BoundAssumption DEF Init, TypeOK
<1>3. ~InCall /\ (\A i : ~OnCall(i)) /\ call.phase = "idle"
  BY NoCallWhenIdle DEF Init, Idle
<1>4. OnlyThePersistentIsLeft /\ LastTryHasItsStream /\ CrashHasACause
  BY <1>3 DEF Init, OnlyThePersistentIsLeft, LastTryHasItsStream, CrashHasACause
<1>5. CallHasItsStream /\ WrittenInOrder
  BY <1>3 DEF Init, CallHasItsStream, WrittenInOrder
<1>6. HoldsOnlyTheCall
  BY <1>3 DEF Init, HoldsOnlyTheCall, NoStream
<1>7. RepliesStayInStep
  BY DEF Init, RepliesStayInStep
<1>. QED
  BY <1>2, <1>4, <1>5, <1>6, <1>7 DEF IInv

-----------------------------------------------------------------------------
(* One lemma per action: the action preserves the invariant.               *)

(* Freeing the persistent stream leaves everything else as it is.          *)
LEMMA PcloseFacts ==
  ASSUME TypeOK
  PROVE  /\ Pclose \in [1..MaxStreams -> Streams]
         /\ \A i \in 1..MaxStreams :
              /\ Pclose[i].state = IF i = persistent THEN "freed" ELSE stream[i].state
              /\ Pclose[i].wire = stream[i].wire
              /\ Pclose[i].replies = stream[i].replies
              /\ Pclose[i].abandoned = stream[i].abandoned
<1>1. CASE persistent = 0
  BY <1>1 DEF Pclose, TypeOK
<1>2. CASE persistent # 0
  <2>1. persistent \in 1..MaxStreams
    BY <1>2, CountFacts
  <2>2. Pclose = [stream EXCEPT ![persistent] = [stream[persistent] EXCEPT !.state = "freed"]]
    BY <1>2 DEF Pclose
  <2>3. stream \in [1..MaxStreams -> Streams]
    BY DEF TypeOK
  <2>4. [stream[persistent] EXCEPT !.state = "freed"] \in Streams
    BY <2>1, <2>3 DEF Streams
  <2>5. ASSUME NEW i \in 1..MaxStreams
        PROVE  /\ Pclose[i].state = IF i = persistent THEN "freed" ELSE stream[i].state
               /\ Pclose[i].wire = stream[i].wire
               /\ Pclose[i].replies = stream[i].replies
               /\ Pclose[i].abandoned = stream[i].abandoned
    BY <2>1, <2>2, <2>3 DEF Streams
  <2>. QED
    BY <2>1, <2>2, <2>3, <2>4, <2>5
<1>. QED
  BY <1>1, <1>2

LEMMA InitiatePreserves ==
  ASSUME IInv, NEW n \in Nodes, Initiate(n)
  PROVE  IInv'
<1>1. /\ call = Idle /\ base[n] = 0 /\ lastTry' = n
      /\ UNCHANGED <<call, requests, answer>>
      /\ Reuse(n) \/ Open(n) \/ OpenFails
      /\ TypeOK
  BY DEF Initiate, IInv
<1>2. (\A i : ~OnCall(i)) /\ ~InCall /\ ~InCall' /\ (\A i \in Nat : ~OnCall(i)')
  BY <1>1, NoCallWhenIdle DEF InCall, OnCall
<1>3. CallHasItsStream' /\ WrittenInOrder' /\ CrashHasACause' /\ RepliesStayInStep'
  BY <1>1, <1>2
  DEF IInv, CallHasItsStream, WrittenInOrder, CrashHasACause, RepliesStayInStep, Idle
<1>4. \A i \in 1..MaxStreams : ~stream[i].abandoned =>
        stream[i].wire = <<>> /\ stream[i].replies = <<>>
  BY <1>2 DEF IInv, HoldsOnlyTheCall
<1>5. CASE Reuse(n)
  <2>1. /\ persistent # 0 /\ IsLive(stream[persistent])
        /\ base' = [base EXCEPT ![n] = persistent]
        /\ UNCHANGED <<stream, opened, persistent>>
    BY <1>5 DEF Reuse, Reusable
  <2>2. TypeOK'
    BY <1>1, <2>1, CountFacts DEF TypeOK
  <2>3. OnlyThePersistentIsLeft'
    BY <2>1 DEF IInv, OnlyThePersistentIsLeft
  <2>4. LastTryHasItsStream'
    <3>1. base'[n] = persistent
      BY <1>1, <2>1 DEF TypeOK
    <3>. QED
      BY <1>1, <2>1, <3>1 DEF LastTryHasItsStream, IsDangling, IsLive
  <2>5. HoldsOnlyTheCall'
    BY <1>2, <1>4, <2>1 DEF HoldsOnlyTheCall
  <2>. QED
    BY <1>3, <2>2, <2>3, <2>4, <2>5 DEF IInv
<1>6. CASE Open(n)
  <2> DEFINE fresh == [NoStream EXCEPT !.state = "open", !.host = HostOf[n]]
  <2>1. /\ opened < MaxStreams /\ opened' = opened + 1 /\ persistent' = opened + 1
        /\ stream' = [Pclose EXCEPT ![opened + 1] = fresh]
        /\ base' = [base EXCEPT ![n] = opened + 1]
    BY <1>6 DEF Open
  <2>2. /\ fresh \in Streams
        /\ fresh.state = "open" /\ fresh.wire = <<>> /\ fresh.replies = <<>>
    BY NodeAssumption, NoStreamType DEF NoStream, Streams
  <2>3. /\ opened + 1 \in 1..MaxStreams
        /\ persistent <= opened
        /\ opened \in Nat /\ persistent \in Nat
    BY <1>1, <2>1, CountFacts
  <2> HIDE DEF fresh
  <2>4. /\ stream' \in [1..MaxStreams -> Streams]
        /\ stream'[opened + 1] = fresh
        /\ \A i \in 1..MaxStreams : i # opened + 1 => stream'[i] = Pclose[i]
    BY <1>1, <2>1, <2>2, <2>3, PcloseFacts
  <2>5. TypeOK'
    <3>1. base' \in [Nodes -> 0..opened + 1] /\ opened + 1 \in 0..MaxStreams
      BY <1>1, <2>1, <2>3, CountFacts DEF TypeOK
    <3>. QED
      BY <1>1, <2>1, <2>3, <2>4, <3>1 DEF TypeOK
  <2>6. OnlyThePersistentIsLeft'
    <3>1. ASSUME NEW i \in 1..opened + 1, i # opened + 1
          PROVE  stream'[i].state = "freed"
      <4>1. i \in 1..opened /\ i \in 1..MaxStreams
        BY <1>1, <2>1, <2>3, <3>1, CountFacts
      <4>2. stream'[i].state = IF i = persistent THEN "freed" ELSE stream[i].state
        BY <1>1, <2>4, <3>1, <4>1, PcloseFacts
      <4>. QED
        BY <4>1, <4>2 DEF IInv, OnlyThePersistentIsLeft
    <3>. QED
      BY <2>1, <2>2, <2>4, <3>1 DEF OnlyThePersistentIsLeft
  <2>7. LastTryHasItsStream'
    <3>1. base'[n] = opened + 1
      BY <1>1, <2>1 DEF TypeOK
    <3>. QED
      BY <1>1, <2>2, <2>4, <3>1 DEF LastTryHasItsStream, IsDangling
  <2>8. HoldsOnlyTheCall'
    <3>1. ASSUME NEW i \in 1..MaxStreams, ~stream'[i].abandoned
          PROVE  stream'[i].wire = <<>> /\ stream'[i].replies = <<>>
      BY <1>1, <1>4, <2>2, <2>4, <3>1, PcloseFacts
    <3>. QED
      BY <1>2, <3>1 DEF HoldsOnlyTheCall
  <2>. QED
    BY <1>3, <2>5, <2>6, <2>7, <2>8 DEF IInv
<1>7. CASE OpenFails
  <2>1. stream' = Pclose /\ persistent' = 0 /\ UNCHANGED <<opened, base>>
    BY <1>7 DEF OpenFails
  <2>2. TypeOK'
    BY <1>1, <2>1, PcloseFacts, CountFacts DEF TypeOK
  <2>3. OnlyThePersistentIsLeft'
    <3>1. ASSUME NEW i \in 1..opened
          PROVE  stream'[i].state = "freed"
      <4>1. i \in 1..MaxStreams
        BY <1>1, CountFacts
      <4>2. stream'[i].state = IF i = persistent THEN "freed" ELSE stream[i].state
        BY <1>1, <2>1, <4>1, PcloseFacts
      <4>. QED
        BY <4>2 DEF IInv, OnlyThePersistentIsLeft
    <3>. QED
      BY <2>1, <3>1 DEF OnlyThePersistentIsLeft
  <2>4. LastTryHasItsStream'
    BY <1>1, <2>1 DEF LastTryHasItsStream, IsDangling
  <2>5. HoldsOnlyTheCall'
    BY <1>1, <1>2, <1>4, <2>1, PcloseFacts DEF HoldsOnlyTheCall
  <2>. QED
    BY <1>3, <2>2, <2>3, <2>4, <2>5 DEF IInv
<1>. QED
  BY <1>1, <1>5, <1>6, <1>7

LEMMA DanglingFindsAnotherPreserves ==
  ASSUME IInv, NEW n \in Nodes, DanglingFindsAnother(n)
  PROVE  IInv'
<1>1. /\ call = Idle /\ IsDangling(n) /\ persistent # 0
      /\ base' = [base EXCEPT ![n] = persistent]
      /\ UNCHANGED <<stream, opened, persistent, call, requests, lastTry, answer>>
      /\ TypeOK
  BY DEF DanglingFindsAnother, IInv
<1>2. ~InCall /\ ~InCall' /\ \A i \in Nat : ~OnCall(i) /\ ~OnCall(i)'
  BY <1>1, NoCallWhenIdle DEF InCall, OnCall
<1>3. CallHasItsStream' /\ WrittenInOrder' /\ CrashHasACause' /\ RepliesStayInStep'
  BY <1>1, <1>2
  DEF IInv, CallHasItsStream, WrittenInOrder, CrashHasACause, RepliesStayInStep, Idle
<1>4. TypeOK'
  BY <1>1, CountFacts DEF TypeOK
<1>5. OnlyThePersistentIsLeft'
  BY <1>1 DEF IInv, OnlyThePersistentIsLeft
<1>6. LastTryHasItsStream'
  <2>1. lastTry # None => lastTry \in Nodes /\ lastTry # n
    BY <1>1 DEF IInv, LastTryHasItsStream, TypeOK
  <2>2. lastTry # None => base'[lastTry] = base[lastTry]
    BY <1>1, <2>1 DEF TypeOK
  <2>. QED
    BY <1>1, <2>2 DEF IInv, LastTryHasItsStream, IsDangling
<1>7. HoldsOnlyTheCall'
  BY <1>1, <1>2 DEF IInv, HoldsOnlyTheCall
<1>. QED
  BY <1>3, <1>4, <1>5, <1>6, <1>7 DEF IInv

(* Setting the timeout changes nothing else of a stream, and nothing at    *)
(* all if it is not positive.                                              *)
LEMMA SetTimeoutFacts ==
  ASSUME NEW s \in Streams, NEW msec \in Timeouts
  PROVE  /\ WithTimeout(s, msec) \in Streams
         /\ WithTimeout(s, msec).state = s.state
         /\ WithTimeout(s, msec).wire = s.wire
         /\ WithTimeout(s, msec).replies = s.replies
         /\ WithTimeout(s, msec).abandoned = s.abandoned
         /\ TimeoutIsAsked(s) => TimeoutIsAsked(WithTimeout(s, msec))
<1>1. msec \in Int
  BY BoundAssumption
<1>2. CASE msec > 0
  <2> DEFINE t == <<msec \div 1000, (msec % 1000) * 1000>>
  <2>1. SetTimeout(s, msec) = [s EXCEPT !.timeout = t]
    BY <1>2 DEF SetTimeout
  <2>2. t \in Timevals /\ InMicroseconds(t) = msec * 1000
    BY <1>1, <1>2, TimevalOfMilliseconds
  <2> HIDE DEF t
  <2>3. WithTimeout(s, msec) = [s EXCEPT !.timeout = t, !.asked = msec]
    BY <1>2, <2>1 DEF WithTimeout
  <2>4. TimeoutIsAsked(WithTimeout(s, msec))
    BY <1>2, <2>2, <2>3 DEF TimeoutIsAsked, Streams
  <2>. QED
    BY <2>2, <2>3, <2>4 DEF Streams
<1>3. CASE ~(msec > 0)
  <2>1. WithTimeout(s, msec) = s
    BY <1>3 DEF WithTimeout, SetTimeout, Streams
  <2>. QED
    BY <2>1
<1>. QED
  BY <1>2, <1>3

LEMMA NewCallFacts ==
  ASSUME TypeOK, NEW n \in Nodes, NEW msec \in Timeouts, requests < MaxRequests
  PROVE  /\ NewCall(n, msec) \in Calls
         /\ requests + 1 \in 0..MaxRequests
         /\ Offset[1] = 0
         /\ <<>> = [p \in 1..0 |-> p]
<1>1. requests + 1 \in Requests /\ requests + 1 \in 0..MaxRequests
  BY CountFacts DEF Requests
<1>2. 1 \in 1..Len(Buffers) + 1 /\ 0 \in 0..MessageLength
  BY BufferFacts, OffsetFacts
<1>3. <<>> \in Seq(1..MessageLength)
  OBVIOUS
<1>. QED
  BY <1>1, <1>2, <1>3, OffsetFacts DEF NewCall, Calls

LEMMA WritevPreserves ==
  ASSUME IInv, NEW n \in Nodes, NEW msec \in Timeouts, Writev(n, msec)
  PROVE  IInv'
<1>1. /\ call = Idle /\ base[n] # 0 /\ requests < MaxRequests /\ ~IsDangling(n)
      /\ stream' = [stream EXCEPT ![base[n]] = WithTimeout(stream[base[n]], msec)]
      /\ call' = NewCall(n, msec)
      /\ requests' = requests + 1
      /\ UNCHANGED <<opened, persistent, base, lastTry, answer>>
      /\ TypeOK
  BY DEF Writev, IInv
<1>2. PICK b \in 1..MaxStreams : b = base[n]
  <2>1. PICK i \in 0..opened : i = base[n]
    BY <1>1 DEF TypeOK
  <2>2. i \in 1..MaxStreams
    BY <1>1, <2>1, CountFacts
  <2>. QED
    BY <2>1, <2>2
<1>3. PICK s \in Streams : s = WithTimeout(stream[b], msec)
  BY <1>1, SetTimeoutFacts, StreamFacts
<1>4. /\ s \in Streams
      /\ s.state = stream[b].state
      /\ s.wire = stream[b].wire
      /\ s.replies = stream[b].replies
      /\ s.abandoned = stream[b].abandoned
  BY <1>1, <1>3, SetTimeoutFacts, StreamFacts
<1>5. /\ stream' \in [1..MaxStreams -> Streams]
      /\ stream'[b] = s
      /\ \A i \in 1..MaxStreams : i # b => stream'[i] = stream[i]
  BY <1>1, <1>2, <1>3, <1>4 DEF TypeOK
<1>6. \A i \in 1..MaxStreams :
        /\ stream'[i].state = stream[i].state
        /\ stream'[i].wire = stream[i].wire
        /\ stream'[i].replies = stream[i].replies
        /\ stream'[i].abandoned = stream[i].abandoned
  BY <1>4, <1>5
<1>7. /\ call'.phase = "writing" /\ call'.node = n /\ call'.timeout = msec
      /\ call'.buffer = 1 /\ call'.sent = 0 /\ call'.written = <<>>
  BY <1>1 DEF NewCall
<1>8. TypeOK'
  BY <1>1, <1>5, NewCallFacts DEF TypeOK
<1>9. OnlyThePersistentIsLeft'
  BY <1>1, <1>6, CountFacts DEF IInv, OnlyThePersistentIsLeft
<1>10. LastTryHasItsStream'
  <2>1. lastTry # None => base[lastTry] = 0 \/ base[lastTry] \in 1..MaxStreams
    BY <1>1, CountFacts DEF TypeOK
  <2>. QED
    BY <1>1, <1>6, <2>1 DEF IInv, LastTryHasItsStream, IsDangling
<1>11. CrashHasACause'
  BY <1>7 DEF CrashHasACause
<1>12. CallHasItsStream'
  BY <1>1, <1>2, <1>4, <1>5, <1>7 DEF CallHasItsStream, IsDangling
<1>13. WrittenInOrder'
  BY <1>1, <1>7, NewCallFacts DEF WrittenInOrder
<1>14. HoldsOnlyTheCall'
  <2>1. ASSUME NEW i \in 1..MaxStreams, ~stream[i].abandoned
        PROVE  stream[i].wire = <<>> /\ stream[i].replies = <<>>
    BY <1>1, <2>1, NoCallWhenIdle DEF IInv, HoldsOnlyTheCall
  <2>2. [p \in 1..call'.sent |-> <<call'.request, call'.written[p]>>] = <<>>
    BY <1>7
  <2>. QED
    BY <1>6, <2>1, <2>2 DEF HoldsOnlyTheCall
<1>15. RepliesStayInStep'
  BY <1>1 DEF IInv, RepliesStayInStep
<1>. QED
  BY <1>8, <1>9, <1>10, <1>11, <1>12, <1>13, <1>14, <1>15 DEF IInv

LEMMA WritevCrashesPreserves ==
  ASSUME IInv, NEW n \in Nodes, NEW msec \in Timeouts, WritevCrashes(n, msec)
  PROVE  IInv'
<1>1. /\ call = Idle /\ requests < MaxRequests
      /\ IsDangling(n) \/ msec = 0
      /\ call' = [NewCall(n, msec) EXCEPT !.phase = "crashed"]
      /\ requests' = requests + 1
      /\ UNCHANGED <<stream, opened, persistent, base, lastTry, answer>>
      /\ TypeOK
  BY DEF WritevCrashes, IInv
<1>2. /\ call' \in Calls
      /\ call'.phase = "crashed" /\ call'.node = n /\ call'.timeout = msec
      /\ call'.buffer = 1 /\ call'.sent = 0 /\ call'.written = <<>>
  BY <1>1, NewCallFacts DEF NewCall, Calls
<1>3. ~InCall' /\ (\A i : ~OnCall(i)) /\ (\A i \in Nat : ~OnCall(i)')
  BY <1>1, <1>2, NoCallWhenIdle DEF InCall, OnCall
<1>4. TypeOK'
  BY <1>1, <1>2, NewCallFacts DEF TypeOK
<1>5. OnlyThePersistentIsLeft' /\ LastTryHasItsStream' /\ RepliesStayInStep'
  BY <1>1
  DEF IInv, OnlyThePersistentIsLeft, LastTryHasItsStream, IsDangling, RepliesStayInStep
<1>6. CrashHasACause'
  BY <1>1, <1>2, NodeAssumption DEF IInv, CrashHasACause, LastTryHasItsStream
<1>7. CallHasItsStream'
  BY <1>3 DEF CallHasItsStream
<1>8. WrittenInOrder'
  BY <1>1, <1>2, NewCallFacts DEF WrittenInOrder
<1>9. HoldsOnlyTheCall'
  <2>1. \A i \in 1..MaxStreams : ~stream[i].abandoned =>
          stream[i].wire = <<>> /\ stream[i].replies = <<>>
    BY <1>3 DEF IInv, HoldsOnlyTheCall
  <2>2. stream' = stream /\ \A i \in 1..MaxStreams : ~OnCall(i)'
    BY <1>1, <1>3
  <2>. QED
    BY <2>1, <2>2 DEF HoldsOnlyTheCall
<1>. QED
  BY <1>4, <1>5, <1>6, <1>7, <1>8, <1>9 DEF IInv

(* A step that changes one stream, and not from or to one that was freed,  *)
(* and neither counts nor who has which stream.                            *)
LEMMA OneStreamChanges ==
  ASSUME IInv, NEW b \in 1..MaxStreams, NEW s \in Streams,
         stream' = [stream EXCEPT ![b] = s],
         s.state = "freed" <=> stream[b].state = "freed",
         s.state = "none" <=> stream[b].state = "none",
         UNCHANGED <<opened, persistent, lastTry>>
  PROVE  /\ stream' \in [1..MaxStreams -> Streams]
         /\ stream'[b] = s
         /\ \A i \in 1..MaxStreams : i # b => stream'[i] = stream[i]
         /\ OnlyThePersistentIsLeft'
         /\ base' = base => LastTryHasItsStream'
<1>1. TypeOK
  BY DEF IInv
<1>2. /\ stream' \in [1..MaxStreams -> Streams]
      /\ stream'[b] = s
      /\ \A i \in 1..MaxStreams : i # b => stream'[i] = stream[i]
  BY <1>1 DEF TypeOK
<1>3. \A i \in 1..MaxStreams :
        /\ stream'[i].state = "freed" <=> stream[i].state = "freed"
        /\ stream'[i].state = "none" <=> stream[i].state = "none"
        /\ stream'[i].state \in {"none", "open", "dead", "freed"}
  BY <1>2 DEF Streams
<1>4. OnlyThePersistentIsLeft'
  BY <1>1, <1>3, CountFacts DEF IInv, OnlyThePersistentIsLeft
<1>5. ASSUME base' = base PROVE LastTryHasItsStream'
  <2>1. SUFFICES ASSUME lastTry # None, base[lastTry] # 0
                 PROVE  stream'[base[lastTry]].state # "freed"
    BY <1>5 DEF LastTryHasItsStream, IsDangling
  <2>2. lastTry \in Nodes
    BY <1>1, <2>1 DEF TypeOK
  <2>3. PICK i \in 0..opened : i = base[lastTry]
    BY <1>1, <2>2 DEF TypeOK
  <2>4. i \in 1..MaxStreams
    BY <1>1, <2>1, <2>3, CountFacts
  <2>5. stream[i].state # "freed"
    BY <2>1, <2>3 DEF IInv, LastTryHasItsStream, IsDangling
  <2>. QED
    BY <1>3, <2>3, <2>4, <2>5
<1>. QED
  BY <1>2, <1>4, <1>5

(* Two sequences, one after the other.                                     *)
LEMMA ConcatFacts ==
  ASSUME NEW S, NEW s \in Seq(S), NEW t \in Seq(S),
         NEW m \in Nat, m = Len(s), NEW n \in Nat, n = Len(t)
  PROVE  /\ s \o t \in Seq(S)
         /\ Len(s \o t) = m + n
         /\ \A p \in 1..m + n : (s \o t)[p] = IF p <= m THEN s[p] ELSE t[p - m]
         /\ s \o t = [p \in 1..m + n |-> (s \o t)[p]]
<1>1. s \o t \in Seq(S) /\ Len(s \o t) = Len(s) + Len(t)
  BY ConcatProperties
<1>2. \A p \in 1..m + n : (s \o t)[p] = IF p <= m THEN s[p] ELSE t[p - m]
  BY ConcatProperties
<1>3. PICK u : u = s \o t
  OBVIOUS
<1>4. u \in [1..Len(u) -> S]
  BY <1>1, <1>3, LenProperties
<1>5. u = [p \in 1..Len(u) |-> u[p]]
  BY <1>4, Zenon
<1>. QED
  BY <1>1, <1>2, <1>3, <1>5

(* n bytes of buffer k are bytes of the message.                           *)
LEMMA PositionFacts ==
  ASSUME NEW k \in 1..Len(Buffers), NEW n \in 0..Buffers[k]
  PROVE  /\ Offset[k] \in Nat /\ Offset[k + 1] \in Nat /\ MessageLength \in Nat
         /\ n \in Nat /\ Buffers[k] \in Nat /\ n <= Buffers[k] /\ Buffers[k] > 0
         /\ Offset[k + 1] = Offset[k] + Buffers[k] /\ Offset[k + 1] <= MessageLength
         /\ Positions(k, n) \in Seq(1..MessageLength) /\ Len(Positions(k, n)) = n
         /\ \A p \in 1..n : Positions(k, n)[p] = Offset[k] + p
<1>1. /\ Offset[k] \in Nat /\ Offset[k + 1] \in Nat
      /\ Offset[k + 1] = Offset[k] + Buffers[k]
      /\ Offset[k + 1] <= MessageLength /\ MessageLength \in Nat
  <2>1. k \in 1..Len(Buffers) + 1 /\ k + 1 \in 1..Len(Buffers) + 1
    BY BufferFacts
  <2>. QED
    BY <2>1, OffsetFacts
<1>2. Buffers[k] \in Nat /\ Buffers[k] > 0
  BY BufferFacts
<1>3. n \in Nat /\ n <= Buffers[k]
  BY <1>2
<1>4. \A p \in 1..n : Offset[k] + p \in 1..MessageLength
  BY <1>1, <1>2, <1>3
<1>5. Positions(k, n) = [p \in 1..n |-> Offset[k] + p]
  BY DEF Positions
<1>6. Positions(k, n) \in Seq(1..MessageLength) /\ Len(Positions(k, n)) = n
  BY <1>3, <1>4, <1>5
<1>. QED
  BY <1>1, <1>2, <1>3, <1>5, <1>6

(* How bytes of a message are seen on the wire.                            *)
OnWire(r, w, c) == [p \in 1..c |-> <<r, w[p]>>]

LEMMA OnWireFacts ==
  ASSUME NEW r \in Requests, NEW c \in Nat, NEW w \in Seq(1..MessageLength), c = Len(w)
  PROVE  /\ OnWire(r, w, c) \in Seq(Requests \X (1..MessageLength))
         /\ Len(OnWire(r, w, c)) = c
         /\ \A p \in 1..c : OnWire(r, w, c)[p] = <<r, w[p]>>
<1>1. w \in [1..c -> 1..MessageLength]
  BY LenProperties
<1>2. \A p \in 1..c : <<r, w[p]>> \in Requests \X (1..MessageLength)
  BY <1>1
<1>. QED
  BY <1>2 DEF OnWire

LEMMA OnWireConcat ==
  ASSUME NEW r \in Requests,
         NEW w \in Seq(1..MessageLength), NEW c \in Nat, c = Len(w),
         NEW bytes \in Seq(1..MessageLength), NEW n \in Nat, n = Len(bytes)
  PROVE  OnWire(r, w, c) \o OnWire(r, bytes, n) = OnWire(r, w \o bytes, c + n)
<1>0. PICK S : S = Requests \X (1..MessageLength)
  OBVIOUS
<1>1. PICK before \in Seq(S) :
        /\ before = OnWire(r, w, c) /\ Len(before) = c
        /\ \A p \in 1..c : before[p] = <<r, w[p]>>
  BY <1>0, OnWireFacts
<1>2. PICK after \in Seq(S) :
        /\ after = OnWire(r, bytes, n) /\ Len(after) = n
        /\ \A p \in 1..n : after[p] = <<r, bytes[p]>>
  BY <1>0, OnWireFacts
<1>3. \A p \in 1..c + n : (w \o bytes)[p] = IF p <= c THEN w[p] ELSE bytes[p - c]
  BY ConcatFacts
<1>4. /\ before \o after \in Seq(S) /\ Len(before \o after) = c + n
      /\ \A p \in 1..c + n :
           (before \o after)[p] = IF p <= c THEN before[p] ELSE after[p - c]
  <2>1. c = Len(before) /\ n = Len(after)
    BY <1>1, <1>2
  <2>. QED
    BY <2>1, ConcatFacts
<1>5. ASSUME NEW p \in 1..c + n
      PROVE  (before \o after)[p] = <<r, (w \o bytes)[p]>>
  <2>1. CASE p <= c
    <3>1. p \in 1..c
      BY <2>1
    <3>. QED
      BY <1>1, <1>3, <1>4, <2>1, <3>1
  <2>2. CASE ~(p <= c)
    <3>1. p - c \in 1..n
      BY <2>2
    <3>. QED
      BY <1>2, <1>3, <1>4, <2>2, <3>1
  <2>. QED
    BY <2>1, <2>2
<1>6. PICK whole \in Seq(S) :
        /\ whole = OnWire(r, w \o bytes, c + n) /\ Len(whole) = c + n
        /\ \A p \in 1..c + n : whole[p] = <<r, (w \o bytes)[p]>>
  <2>1. PICK v \in Seq(1..MessageLength), d \in Nat : v = w \o bytes /\ d = c + n
    <3>1. w \o bytes \in Seq(1..MessageLength) /\ c + n \in Nat
      BY ConcatProperties
    <3>. QED
      BY <3>1
  <2>2. d = Len(v)
    BY <2>1, ConcatFacts
  <2>3. /\ OnWire(r, v, d) \in Seq(S) /\ Len(OnWire(r, v, d)) = d
        /\ \A p \in 1..d : OnWire(r, v, d)[p] = <<r, v[p]>>
    BY <1>0, <2>2, OnWireFacts
  <2>. QED
    BY <2>1, <2>3
<1>7. before \o after = whole
  <2>1. Len(before \o after) = Len(whole)
    BY <1>4, <1>6
  <2>2. \A p \in 1..Len(before \o after) : (before \o after)[p] = whole[p]
    BY <1>4, <1>5, <1>6
  <2>. QED
    BY <1>4, <2>1, <2>2, SeqEqual
<1>. QED
  BY <1>1, <1>2, <1>6, <1>7

(* n bytes of buffer k after the first c bytes of the message.             *)
LEMMA InOrderGrows ==
  ASSUME NEW k \in 1..Len(Buffers), NEW n \in 0..Buffers[k],
         NEW c \in Nat, c = Offset[k],
         NEW w \in Seq(1..MessageLength), c = Len(w), w = [p \in 1..c |-> p]
  PROVE  w \o Positions(k, n) = [p \in 1..c + n |-> p]
<1>1. PICK bytes \in Seq(1..MessageLength) :
        /\ bytes = Positions(k, n) /\ Len(bytes) = n /\ n \in Nat
        /\ \A p \in 1..n : bytes[p] = c + p
  <2>1. n \in Nat /\ Positions(k, n) \in Seq(1..MessageLength) /\ Len(Positions(k, n)) = n
    BY PositionFacts
  <2>2. \A p \in 1..n : Positions(k, n)[p] = Offset[k] + p
    BY PositionFacts
  <2>. QED
    BY <2>1, <2>2
<1>2. /\ \A p \in 1..c + n : (w \o bytes)[p] = IF p <= c THEN w[p] ELSE bytes[p - c]
      /\ w \o bytes = [p \in 1..c + n |-> (w \o bytes)[p]]
  <2>1. n = Len(bytes) /\ n \in Nat
    BY <1>1
  <2>. QED
    BY <2>1, ConcatFacts, SMTT(60)
<1>3. ASSUME NEW p \in 1..c + n PROVE (w \o bytes)[p] = p
  <2>1. CASE p <= c
    <3>1. p \in 1..c
      BY <1>1, <2>1
    <3>. QED
      BY <1>2, <2>1, <3>1
  <2>2. CASE ~(p <= c)
    <3>1. p - c \in 1..n /\ c + (p - c) = p
      BY <1>1, <2>2
    <3>2. bytes[p - c] = c + (p - c)
      BY <1>1, <3>1
    <3>. QED
      BY <1>2, <2>2, <3>1, <3>2
  <2>. QED
    BY <2>1, <2>2
<1>. QED
  BY <1>1, <1>2, <1>3

LEMMA WriteBufferPreserves ==
  ASSUME IInv, WriteBuffer
  PROVE  IInv'
<1>1. /\ call.phase = "writing" /\ call.buffer <= Len(Buffers)
      /\ UNCHANGED <<opened, persistent, base, requests, lastTry, answer>>
      /\ TypeOK /\ InCall
  BY DEF WriteBuffer, IInv, InCall
<1>2. /\ call \in Calls /\ call # Idle
      /\ call.sent \in 0..MessageLength /\ call.buffer \in 1..Len(Buffers) + 1
  BY <1>1, CallFacts, CallStreamFacts
<1>3. PICK b \in 1..MaxStreams : b = base[call.node]
  BY <1>1, CallStreamFacts
<1>4. PICK k \in 1..Len(Buffers) : k = call.buffer
  BY <1>1, <1>2, BufferFacts
<1>5. PICK w \in Seq(1..MessageLength) : w = call.written
  BY <1>1, <1>2, CallFacts
<1>6. PICK r \in Requests : r = call.request
  BY <1>1, <1>2, CallFacts
<1>7. PICK sent \in Nat :
        /\ sent = call.sent /\ sent = Len(w) /\ sent <= Offset[k]
        /\ sent = Offset[k] => w = [p \in 1..sent |-> p]
  <2>1. call.sent \in Nat
    BY <1>2, OffsetFacts
  <2>2. /\ call.sent = Len(w) /\ call.sent <= Offset[k]
        /\ call.sent = Offset[k] => w = [p \in 1..call.sent |-> p]
    BY <1>2, <1>4, <1>5 DEF IInv, WrittenInOrder
  <2>. QED
    BY <2>1, <2>2
<1>8. PICK n \in 0..Buffers[k] :
        LET bytes == Positions(k, n)
        IN  /\ call' = [call EXCEPT !.buffer = k + 1, !.sent = sent + n,
                                    !.written = w \o bytes]
            /\ stream' = [stream EXCEPT ![b].wire =
                            stream[b].wire \o [p \in 1..n |-> <<r, bytes[p]>>]]
  <2>1. PICK n \in 0..Buffers[k] :
          LET bytes == Positions(call.buffer, n)
          IN  /\ call' = [call EXCEPT !.buffer = @ + 1, !.sent = @ + n,
                                      !.written = @ \o bytes]
              /\ stream' = [stream EXCEPT ![base[call.node]].wire =
                              @ \o [p \in 1..n |-> <<call.request, bytes[p]>>]]
    BY <1>4 DEF WriteBuffer
  <2>. QED
    BY <1>2, <1>3, <1>4, <1>5, <1>6, <1>7, <2>1 DEF Calls
<1>9. PICK bytes \in Seq(1..MessageLength) : bytes = Positions(k, n) /\ Len(bytes) = n
  BY PositionFacts
<1>10. PICK tail \in Seq(Requests \X (1..MessageLength)) : tail = OnWire(r, bytes, n)
  BY <1>9, PositionFacts, OnWireFacts
<1>11. PICK c, w2 : c = sent + n /\ w2 = w \o bytes
  OBVIOUS
<1>12. /\ w2 \in Seq(1..MessageLength) /\ Len(w2) = c
       /\ c \in 0..MessageLength /\ c <= Offset[k + 1]
       /\ sent # MessageLength
       /\ c = Offset[k + 1] => w2 = [p \in 1..c |-> p]
       /\ OnWire(r, w, sent) \o tail = OnWire(r, w2, c)
  <2>1. /\ Offset[k] \in Nat /\ Offset[k + 1] \in Nat /\ MessageLength \in Nat
        /\ n \in Nat /\ Buffers[k] \in Nat /\ n <= Buffers[k] /\ Buffers[k] > 0
        /\ Offset[k + 1] = Offset[k] + Buffers[k] /\ Offset[k + 1] <= MessageLength
    BY PositionFacts
  <2>2. /\ sent \in Nat /\ sent <= Offset[k] /\ c = sent + n
        /\ sent = Len(w) /\ n = Len(bytes) /\ w2 = w \o bytes
    BY <1>7, <1>9, <1>11
  <2>3. c \in 0..MessageLength /\ c <= Offset[k + 1] /\ sent # MessageLength
    <3>1. PICK o \in Nat, u \in Nat, m \in Nat :
            /\ o = Offset[k] /\ u = Buffers[k] /\ m = MessageLength
            /\ Offset[k + 1] = o + u
      BY <2>1
    <3>2. /\ sent \in Nat /\ sent <= o /\ c = sent + n
          /\ n \in Nat /\ n <= u /\ u > 0 /\ o + u <= m
      BY <2>1, <2>2, <3>1
    <3>3. c \in 0..m /\ c <= o + u /\ sent # m
      BY <3>2
    <3>. QED
      BY <3>1, <3>3
  <2>4. w2 \in Seq(1..MessageLength) /\ Len(w2) = c
    BY <2>2, ConcatProperties
  <2>5. ASSUME c = Offset[k + 1] PROVE w2 = [p \in 1..c |-> p]
    <3>1. sent = Offset[k]
      <4>1. c = Offset[k] + Buffers[k]
        BY <2>1, <2>5
      <4>. QED
        BY <2>1, <2>2, <4>1
    <3>2. w = [p \in 1..sent |-> p]
      BY <1>7, <3>1
    <3>3. w \o Positions(k, n) = [p \in 1..sent + n |-> p]
      BY <1>7, <3>1, <3>2, InOrderGrows
    <3>. QED
      BY <1>9, <1>11, <3>3
  <2>6. OnWire(r, w, sent) \o tail = OnWire(r, w2, c)
    <3>1. n \in Nat /\ n = Len(bytes) /\ sent \in Nat /\ sent = Len(w)
      BY <2>1, <2>2
    <3>2. OnWire(r, w, sent) \o OnWire(r, bytes, n) = OnWire(r, w \o bytes, sent + n)
      BY <3>1, OnWireConcat, ZenonT(60)
    <3>. QED
      BY <1>10, <2>2, <3>2
  <2>. QED
    BY <2>3, <2>4, <2>5, <2>6
<1>13. PICK s : s = [stream[b] EXCEPT !.wire = stream[b].wire \o tail]
  OBVIOUS
<1>14. /\ s \in Streams
       /\ s.state = stream[b].state /\ s.timeout = stream[b].timeout
       /\ s.replies = stream[b].replies /\ s.abandoned = stream[b].abandoned
       /\ s.wire = stream[b].wire \o tail
  <2>1. stream[b] \in Streams
    BY <1>1, StreamFacts
  <2>2. stream[b].wire \o tail \in Seq(Requests \X (1..MessageLength))
    BY <1>1, <1>12, StreamFacts, ConcatProperties
  <2>. QED
    BY <1>13, <2>1, <2>2 DEF Streams
<1>15. stream' = [stream EXCEPT ![b] = s]
  BY <1>8, <1>9, <1>10, <1>13 DEF OnWire
<1>16. call' = [call EXCEPT !.buffer = k + 1, !.sent = c, !.written = w2]
  BY <1>8, <1>9, <1>11
<1>17. /\ call'.phase = "writing" /\ call'.node = call.node
       /\ call'.timeout = call.timeout /\ call'.request = r
       /\ call'.buffer = k + 1 /\ call'.sent = c /\ call'.written = w2
  BY <1>1, <1>2, <1>6, <1>16 DEF Calls
<1>18. TypeOK'
  <2>1. k + 1 \in 1..Len(Buffers) + 1
    BY BufferFacts
  <2>2. call' \in Calls
    BY <1>2, <1>12, <1>16, <2>1 DEF Calls
  <2>. QED
    BY <1>1, <1>14, <1>15, <2>2 DEF TypeOK
<1>19. OnlyThePersistentIsLeft' /\ LastTryHasItsStream'
  BY <1>1, <1>14, <1>15, OneStreamChanges
<1>20. CrashHasACause'
  BY <1>17 DEF CrashHasACause
<1>21. stream'[b] = s /\ \A i \in 1..MaxStreams : i # b => stream'[i] = stream[i]
  BY <1>1, <1>14, <1>15, OneStreamChanges
<1>22. CallHasItsStream'
  <2>1. base[call.node] # 0 /\ stream[b].state # "freed"
    BY <1>1, <1>3 DEF IInv, CallHasItsStream
  <2>2. base'[call'.node] = b
    BY <1>1, <1>3, <1>17
  <2>3. stream'[b].state = stream[b].state
    BY <1>14, <1>21
  <2>4. b # 0 /\ stream'[b].state # "freed"
    BY <1>3, <2>1, <2>2, <2>3
  <2>. QED
    BY <2>2, <2>4 DEF CallHasItsStream
<1>23. WrittenInOrder'
  BY <1>12, <1>17 DEF WrittenInOrder
<1>24. HoldsOnlyTheCall'
  <2>1. ASSUME NEW i \in 1..MaxStreams, ~stream'[i].abandoned, i # b
        PROVE  stream'[i].wire = <<>> /\ stream'[i].replies = <<>> /\ ~OnCall(i)'
    BY <1>1, <1>3, <1>17, <1>21, <2>1 DEF IInv, HoldsOnlyTheCall, OnCall
  <2>2. ASSUME ~stream'[b].abandoned
        PROVE  /\ OnCall(b)'
               /\ stream'[b].wire =
                    [p \in 1..call'.sent |-> <<call'.request, call'.written[p]>>]
               /\ stream'[b].replies = <<>>
    <3>1. OnCall(b) /\ OnCall(b)'
      BY <1>1, <1>3, <1>17 DEF OnCall, InCall
    <3>2. ~stream[b].abandoned /\ call.sent # MessageLength
      BY <1>7, <1>12, <1>14, <1>21, <2>2
    <3>3. /\ stream[b].wire = [p \in 1..call.sent |-> <<call.request, call.written[p]>>]
          /\ stream[b].replies = <<>>
      BY <3>1, <3>2 DEF IInv, HoldsOnlyTheCall
    <3>4. stream[b].wire = OnWire(r, w, sent)
      BY <1>5, <1>6, <1>7, <3>3 DEF OnWire
    <3>. QED
      BY <1>12, <1>14, <1>17, <1>21, <3>1, <3>3, <3>4 DEF OnWire
  <2>. QED
    BY <2>1, <2>2 DEF HoldsOnlyTheCall
<1>25. RepliesStayInStep'
  BY <1>1 DEF IInv, RepliesStayInStep
<1>. QED
  BY <1>18, <1>19, <1>20, <1>22, <1>23, <1>24, <1>25 DEF IInv

(* Giving up, whether the write or the read has failed.                    *)
LEMMA GiveUpPreserves ==
  ASSUME IInv, InCall, GiveUp
  PROVE  IInv'
<1>1. PICK m \in Nodes, b \in 1..MaxStreams :
        m = call.node /\ b = base[m] /\ stream[b].state # "freed"
  BY CallStreamFacts
<1>2. PICK s : s = [stream[b] EXCEPT !.abandoned = TRUE]
  OBVIOUS
<1>3. /\ stream' = [stream EXCEPT ![b] = s]
      /\ base' = [base EXCEPT ![m] = 0]
      /\ call' = Idle
      /\ UNCHANGED <<opened, persistent, requests, lastTry, answer>>
      /\ TypeOK
  BY <1>1, <1>2 DEF GiveUp, Destroy, IInv
<1>4. s \in Streams /\ s.state = stream[b].state /\ s.abandoned
  BY <1>2, <1>3, StreamFacts DEF Streams
<1>5. /\ stream' \in [1..MaxStreams -> Streams]
      /\ stream'[b] = s
      /\ \A i \in 1..MaxStreams : i # b => stream'[i] = stream[i]
      /\ OnlyThePersistentIsLeft'
  BY <1>3, <1>4, OneStreamChanges
<1>6. ~InCall' /\ \A i \in 1..MaxStreams : ~OnCall(i)'
  BY <1>3 DEF InCall, OnCall, Idle
<1>7. TypeOK'
  <2>1. base' \in [Nodes -> 0..opened]
    BY <1>3, CountFacts DEF TypeOK
  <2>. QED
    BY <1>3, <1>5, <2>1 DEF TypeOK
<1>8. LastTryHasItsStream'
  <2>1. SUFFICES ASSUME lastTry # None, base'[lastTry] # 0
                 PROVE  stream'[base'[lastTry]].state # "freed"
    BY <1>3 DEF LastTryHasItsStream, IsDangling
  <2>2. lastTry \in Nodes
    BY <1>3, <2>1 DEF TypeOK
  <2>3. base'[lastTry] = base[lastTry]
    BY <1>3, <2>1, <2>2 DEF TypeOK
  <2>4. PICK i \in 1..MaxStreams : i = base[lastTry]
    <3>1. PICK i \in 0..opened : i = base[lastTry]
      BY <1>3, <2>2 DEF TypeOK
    <3>2. i \in 1..MaxStreams
      BY <1>3, <2>1, <2>3, <3>1, CountFacts
    <3>. QED
      BY <3>1, <3>2
  <2>5. stream[i].state # "freed"
    BY <2>1, <2>3, <2>4 DEF IInv, LastTryHasItsStream, IsDangling
  <2>. QED
    BY <1>4, <1>5, <2>3, <2>4, <2>5
<1>9. CrashHasACause' /\ CallHasItsStream' /\ WrittenInOrder'
  BY <1>3, <1>6 DEF CrashHasACause, CallHasItsStream, WrittenInOrder, Idle
<1>10. HoldsOnlyTheCall'
  <2>1. ASSUME NEW i \in 1..MaxStreams, ~stream'[i].abandoned
        PROVE  stream'[i].wire = <<>> /\ stream'[i].replies = <<>>
    <3>1. i # b /\ stream'[i] = stream[i]
      BY <1>4, <1>5, <2>1
    <3>2. ~OnCall(i)
      BY <1>1, <3>1 DEF OnCall
    <3>. QED
      BY <2>1, <3>1, <3>2 DEF IInv, HoldsOnlyTheCall
  <2>. QED
    BY <1>6, <2>1 DEF HoldsOnlyTheCall
<1>11. RepliesStayInStep'
  BY <1>3 DEF IInv, RepliesStayInStep
<1>. QED
  BY <1>5, <1>7, <1>8, <1>9, <1>10, <1>11 DEF IInv

LEMMA WritevReturnsPreserves ==
  ASSUME IInv, WritevReturns
  PROVE  IInv'
<1>1. call.phase = "writing" /\ call.buffer = Len(Buffers) + 1 /\ InCall /\ TypeOK
  BY DEF WritevReturns, IInv, InCall
<1>2. CASE call.sent # MessageLength /\ GiveUp
  BY <1>1, <1>2, GiveUpPreserves
<1>3. CASE /\ call.sent = MessageLength
           /\ \E msec \in Timeouts : call' = [call EXCEPT !.phase = "reading", !.wait = msec]
           /\ UNCHANGED <<stream, opened, persistent, base, requests, lastTry, answer>>
  <2>1. call \in Calls /\ call # Idle
    BY <1>1, CallFacts, CallStreamFacts
  <2>0. PICK msec \in Timeouts : call' = [call EXCEPT !.phase = "reading", !.wait = msec]
    BY <1>3
  <2>2. /\ call' \in Calls
        /\ call'.phase = "reading" /\ call'.node = call.node
        /\ call'.timeout = call.timeout /\ call'.request = call.request
        /\ call'.buffer = call.buffer /\ call'.sent = call.sent
        /\ call'.written = call.written
    BY <2>0, <2>1 DEF Calls
  <2>3. InCall' /\ \A i \in 1..MaxStreams : OnCall(i)' <=> OnCall(i)
    BY <1>1, <1>3, <2>2 DEF InCall, OnCall
  <2>4. TypeOK'
    BY <1>1, <1>3, <2>2 DEF TypeOK
  <2>5. OnlyThePersistentIsLeft' /\ LastTryHasItsStream' /\ RepliesStayInStep'
    BY <1>3
    DEF IInv, OnlyThePersistentIsLeft, LastTryHasItsStream, IsDangling, RepliesStayInStep
  <2>6. CrashHasACause'
    BY <2>2 DEF CrashHasACause
  <2>7. CallHasItsStream'
    BY <1>1, <1>3, <2>2 DEF IInv, CallHasItsStream
  <2>8. WrittenInOrder'
    BY <1>3, <2>1, <2>2 DEF IInv, WrittenInOrder
  <2>9. HoldsOnlyTheCall'
    <3>1. ASSUME NEW i \in 1..MaxStreams, ~stream[i].abandoned, OnCall(i)
          PROVE  \/ /\ stream[i].wire =
                         [p \in 1..call.sent |-> <<call.request, call.written[p]>>]
                    /\ stream[i].replies = <<>>
                 \/ /\ call.sent = MessageLength
                    /\ stream[i].wire = <<>>
                    /\ stream[i].replies = <<call.request>>
      BY <3>1 DEF IInv, HoldsOnlyTheCall
    <3>2. ASSUME NEW i \in 1..MaxStreams, ~stream[i].abandoned, ~OnCall(i)
          PROVE  stream[i].wire = <<>> /\ stream[i].replies = <<>>
      BY <3>2 DEF IInv, HoldsOnlyTheCall
    <3>. QED
      BY <1>3, <2>2, <2>3, <3>1, <3>2 DEF HoldsOnlyTheCall
  <2>. QED
    BY <2>4, <2>5, <2>6, <2>7, <2>8, <2>9 DEF IInv
<1>. QED
  BY <1>2, <1>3 DEF WritevReturns

LEMMA ReadReplyPreserves ==
  ASSUME IInv, ReadReply
  PROVE  IInv'
<1>1. call.phase = "reading" /\ InCall /\ TypeOK
  BY DEF ReadReply, IInv, InCall
<1>2. PICK b \in 1..MaxStreams : b = base[call.node]
  BY <1>1, CallStreamFacts
<1>3. PICK s : s = [stream[b] EXCEPT !.replies = Tail(stream[b].replies)]
  OBVIOUS
<1>4. /\ stream[b].replies # <<>>
      /\ answer' = [request |-> call.request, reply |-> Head(stream[b].replies),
                    abandoned |-> stream[b].abandoned]
      /\ stream' = [stream EXCEPT ![b] = s]
      /\ call' = Idle
      /\ UNCHANGED <<opened, persistent, base, requests, lastTry>>
  BY <1>2, <1>3 DEF ReadReply
<1>5. stream[b] \in Streams /\ stream[b].replies \in Seq(Requests)
      /\ stream[b].abandoned \in BOOLEAN
  BY <1>1, StreamFacts
<1>6. Tail(stream[b].replies) \in Seq(Requests) /\ Head(stream[b].replies) \in Requests
  BY <1>4, <1>5, HeadTailProperties
<1>7. /\ s \in Streams /\ s.state = stream[b].state
      /\ s.wire = stream[b].wire /\ s.abandoned = stream[b].abandoned
      /\ s.replies = Tail(stream[b].replies)
  BY <1>3, <1>5, <1>6 DEF Streams
<1>8. /\ stream' \in [1..MaxStreams -> Streams]
      /\ stream'[b] = s
      /\ \A i \in 1..MaxStreams : i # b => stream'[i] = stream[i]
      /\ OnlyThePersistentIsLeft' /\ LastTryHasItsStream'
  BY <1>4, <1>7, OneStreamChanges
<1>9. ~InCall' /\ \A i \in 1..MaxStreams : ~OnCall(i)'
  BY <1>4 DEF InCall, OnCall, Idle
<1>10. OnCall(b) /\ \A i \in 1..MaxStreams : i # b => ~OnCall(i)
  BY <1>1, <1>2 DEF OnCall
<1>11. ~stream[b].abandoned => stream[b].wire = <<>> /\ stream[b].replies = <<call.request>>
  BY <1>4, <1>10 DEF IInv, HoldsOnlyTheCall
<1>12. TypeOK'
  <2>1. answer' \in Answers
    <3>1. call.request \in Requests
      BY <1>1, CallFacts, CallStreamFacts
    <3>. QED
      BY <1>4, <1>5, <1>6, <3>1 DEF Answers
  <2>. QED
    BY <1>1, <1>4, <1>8, <2>1 DEF TypeOK
<1>13. CrashHasACause' /\ CallHasItsStream' /\ WrittenInOrder'
  BY <1>4, <1>9 DEF CrashHasACause, CallHasItsStream, WrittenInOrder, Idle
<1>14. HoldsOnlyTheCall'
  <2>1. ASSUME NEW i \in 1..MaxStreams, ~stream'[i].abandoned
        PROVE  stream'[i].wire = <<>> /\ stream'[i].replies = <<>>
    <3>1. CASE i = b
      <4>1. stream[b].wire = <<>> /\ stream[b].replies = <<call.request>>
        BY <1>7, <1>8, <1>11, <2>1, <3>1
      <4>2. Tail(stream[b].replies) = <<>>
        BY <4>1
      <4>. QED
        BY <1>7, <1>8, <3>1, <4>1, <4>2
    <3>2. CASE i # b
      BY <1>8, <1>10, <2>1, <3>2 DEF IInv, HoldsOnlyTheCall
    <3>. QED
      BY <3>1, <3>2
  <2>. QED
    BY <1>9, <2>1 DEF HoldsOnlyTheCall
<1>15. RepliesStayInStep'
  BY <1>4, <1>11 DEF RepliesStayInStep
<1>. QED
  BY <1>8, <1>12, <1>13, <1>14, <1>15 DEF IInv

LEMMA ReadFailsPreserves ==
  ASSUME IInv, ReadFails
  PROVE  IInv'
  BY GiveUpPreserves DEF ReadFails, InCall

(* A step of the peer: it changes one stream, and no call.                 *)
LEMMA PeerPreserves ==
  ASSUME IInv, NEW b \in 1..MaxStreams, NEW s \in Streams,
         stream' = [stream EXCEPT ![b] = s],
         stream[b].state = "open", s.state \in {"open", "dead"},
         s.abandoned = stream[b].abandoned,
         ~s.abandoned =>
           IF OnCall(b)
           THEN \/ s.wire = stream[b].wire /\ s.replies = stream[b].replies
                \/ /\ call.sent = MessageLength
                   /\ s.wire = <<>>
                   /\ s.replies = <<call.request>>
           ELSE s.wire = <<>> /\ s.replies = <<>>,
         UNCHANGED <<opened, persistent, base, call, requests, lastTry, answer>>
  PROVE  IInv'
<1>1. TypeOK
  BY DEF IInv
<1>2. /\ stream' \in [1..MaxStreams -> Streams]
      /\ stream'[b] = s
      /\ \A i \in 1..MaxStreams : i # b => stream'[i] = stream[i]
      /\ OnlyThePersistentIsLeft' /\ LastTryHasItsStream'
  BY OneStreamChanges
<1>3. (InCall' <=> InCall) /\ \A i \in 1..MaxStreams : OnCall(i)' <=> OnCall(i)
  BY DEF InCall, OnCall
<1>4. TypeOK'
  BY <1>1, <1>2 DEF TypeOK
<1>5. CrashHasACause' /\ WrittenInOrder' /\ RepliesStayInStep'
  BY DEF IInv, CrashHasACause, WrittenInOrder, RepliesStayInStep
<1>6. CallHasItsStream'
  <2>1. SUFFICES ASSUME InCall
                 PROVE  /\ base[call.node] # 0
                        /\ stream'[base[call.node]].state # "freed"
    BY DEF CallHasItsStream, InCall
  <2>2. PICK k \in 1..MaxStreams : k = base[call.node]
    BY <2>1, CallStreamFacts
  <2>3. base[call.node] # 0 /\ stream[k].state # "freed"
    BY <2>1, <2>2 DEF IInv, CallHasItsStream
  <2>4. stream'[k].state # "freed"
    BY <1>2, <2>3
  <2>. QED
    BY <2>2, <2>3, <2>4
<1>7. HoldsOnlyTheCall'
  <2>1. ASSUME NEW i \in 1..MaxStreams, ~stream'[i].abandoned, OnCall(i)
        PROVE  \/ /\ stream'[i].wire =
                       [p \in 1..call.sent |-> <<call.request, call.written[p]>>]
                  /\ stream'[i].replies = <<>>
               \/ /\ call.sent = MessageLength
                  /\ stream'[i].wire = <<>>
                  /\ stream'[i].replies = <<call.request>>
    BY <1>2, <2>1 DEF IInv, HoldsOnlyTheCall
  <2>2. ASSUME NEW i \in 1..MaxStreams, ~stream'[i].abandoned, ~OnCall(i)
        PROVE  stream'[i].wire = <<>> /\ stream'[i].replies = <<>>
    BY <1>2, <2>2 DEF IInv, HoldsOnlyTheCall
  <2>3. call' = call /\ \A i \in 1..MaxStreams : OnCall(i)' <=> OnCall(i)
    BY <1>3
  <2>. QED
    BY <2>1, <2>2, <2>3 DEF HoldsOnlyTheCall
<1>. QED
  BY <1>2, <1>4, <1>5, <1>6, <1>7 DEF IInv

LEMMA PeerClosesPreserves ==
  ASSUME IInv, NEW i \in 1..MaxStreams, PeerCloses(i)
  PROVE  IInv'
<1>1. PICK s : s = [stream[i] EXCEPT !.state = "dead"]
  OBVIOUS
<1>2. /\ stream[i].state = "open" /\ stream' = [stream EXCEPT ![i] = s] /\ TypeOK
      /\ UNCHANGED <<opened, persistent, base, call, requests, lastTry, answer>>
  BY <1>1 DEF PeerCloses, IInv
<1>3. /\ s \in Streams /\ s.state = "dead"
      /\ s.abandoned = stream[i].abandoned
      /\ s.wire = stream[i].wire /\ s.replies = stream[i].replies
  BY <1>1, <1>2, StreamFacts DEF Streams
<1>4. ~OnCall(i) /\ ~s.abandoned => s.wire = <<>> /\ s.replies = <<>>
  BY <1>3 DEF IInv, HoldsOnlyTheCall
<1>. QED
  BY <1>2, <1>3, <1>4, PeerPreserves

(* A stream on which no call ended early and that holds as much as a       *)
(* message holds the message of the call, whole and in order.              *)
LEMMA WholeMessageIsTheCalls ==
  ASSUME IInv, NEW i \in 1..MaxStreams, ~stream[i].abandoned,
         Len(stream[i].wire) >= MessageLength
  PROVE  /\ OnCall(i) /\ call.sent = MessageLength
         /\ stream[i].wire = Message(call.request) /\ stream[i].replies = <<>>
<1>1. MessageLength \in Nat /\ MessageLength >= 1 /\ TypeOK
  BY OffsetFacts DEF IInv
<1>2. stream[i].wire # <<>>
  BY <1>1
<1>3. /\ OnCall(i)
      /\ stream[i].wire = [p \in 1..call.sent |-> <<call.request, call.written[p]>>]
      /\ stream[i].replies = <<>>
  BY <1>2 DEF IInv, HoldsOnlyTheCall
<1>4. call # Idle /\ call.sent \in 0..MessageLength /\ call.buffer \in 1..Len(Buffers) + 1
  BY <1>1, <1>3, CallStreamFacts, CallFacts DEF OnCall
<1>5. Len(stream[i].wire) = call.sent
  BY <1>1, <1>3, <1>4
<1>6. call.sent = MessageLength
  BY <1>1, <1>4, <1>5
<1>7. call.written = [p \in 1..call.sent |-> p]
  <2>1. call.sent <= Offset[call.buffer]
    BY <1>4 DEF IInv, WrittenInOrder
  <2>2. Offset[call.buffer] \in Nat /\ Offset[call.buffer] <= MessageLength
    BY <1>4, OffsetFacts
  <2>3. call.sent = Offset[call.buffer]
    BY <1>1, <1>6, <2>1, <2>2
  <2>. QED
    BY <1>4, <2>3 DEF IInv, WrittenInOrder
<1>. QED
  BY <1>3, <1>6, <1>7 DEF Message

LEMMA ServerTakesPreserves ==
  ASSUME IInv, NEW i \in 1..MaxStreams, ServerTakes(i)
  PROVE  IInv'
<1>1. /\ TypeOK /\ stream[i] \in Streams
      /\ stream[i].wire \in Seq(Requests \X (1..MessageLength))
      /\ stream[i].replies \in Seq(Requests)
      /\ stream[i].state = "open" /\ Len(stream[i].wire) >= MessageLength
      /\ UNCHANGED <<opened, persistent, base, call, requests, lastTry, answer>>
  BY StreamFacts DEF ServerTakes, IInv
<1>2. MessageLength \in Nat /\ MessageLength >= 1
  BY OffsetFacts
<1>3. PICK w \in Seq(Requests \X (1..MessageLength)) : w = stream[i].wire
  BY <1>1
<1>4. PICK r \in Requests : r = w[1][1]
  <2>1. 1 \in 1..Len(w)
    BY <1>1, <1>2, <1>3
  <2>2. w[1] \in Requests \X (1..MessageLength)
    BY <2>1, ElementOfSeq
  <2>. QED
    BY <2>2
<1>5. PICK rest \in Seq(Requests \X (1..MessageLength)) :
        rest = SubSeq(w, MessageLength + 1, Len(w))
  <2>1. \A k \in MessageLength + 1..Len(w) : k \in 1..Len(w)
    BY <1>2
  <2>2. SubSeq(w, MessageLength + 1, Len(w)) \in Seq(Requests \X (1..MessageLength))
    BY <1>1, <1>2, <1>3, <2>1, SubSeqProperties
  <2>. QED
    BY <2>2
<1>6. PICK more \in Seq(Requests) : more = Append(stream[i].replies, r)
  BY <1>1, AppendProperties
<1>7. PICK s : s = IF SubSeq(w, 1, MessageLength) = Message(r)
                   THEN [stream[i] EXCEPT !.wire = rest, !.replies = more]
                   ELSE [stream[i] EXCEPT !.wire = rest, !.state = "dead"]
  OBVIOUS
<1>8. stream' = [stream EXCEPT ![i] = s]
  BY <1>1, <1>3, <1>4, <1>5, <1>6, <1>7 DEF ServerTakes, Streams
<1>9. /\ s \in Streams /\ s.state \in {"open", "dead"}
      /\ s.abandoned = stream[i].abandoned
      /\ s.wire = rest
      /\ SubSeq(w, 1, MessageLength) = Message(r) => s.replies = more
  BY <1>1, <1>7 DEF Streams
<1>10. ASSUME ~s.abandoned
       PROVE  /\ OnCall(i) /\ call.sent = MessageLength
              /\ s.wire = <<>> /\ s.replies = <<call.request>>
  <2>1. /\ OnCall(i) /\ call.sent = MessageLength
        /\ w = Message(call.request) /\ stream[i].replies = <<>>
    BY <1>1, <1>3, <1>9, <1>10, WholeMessageIsTheCalls
  <2>2. Len(w) = MessageLength /\ r = call.request
    BY <1>2, <1>4, <2>1 DEF Message
  <2>3. SubSeq(w, 1, MessageLength) = w
    BY <1>2, <2>2, SubSeqFull
  <2>4. rest = <<>>
    BY <1>2, <1>5, <2>2
  <2>5. more = <<r>>
    BY <1>6, <2>1
  <2>. QED
    BY <1>9, <2>1, <2>2, <2>3, <2>4, <2>5
<1>. QED
  BY <1>1, <1>8, <1>9, <1>10, PeerPreserves

LEMMA EndRequestPreserves ==
  ASSUME IInv, EndRequest
  PROVE  IInv'
<1>1. /\ call.phase # "crashed" /\ TypeOK
      /\ base' = [n \in Nodes |-> 0]
      /\ call' = Idle /\ lastTry' = None /\ answer' = None
      /\ UNCHANGED <<opened, persistent, requests>>
  BY DEF EndRequest, IInv
<1>2. /\ stream' \in [1..MaxStreams -> Streams]
      /\ OnlyThePersistentIsLeft'
      /\ \A i \in 1..MaxStreams :
           /\ stream'[i].wire = stream[i].wire /\ stream'[i].replies = stream[i].replies
           /\ ~stream'[i].abandoned => ~stream[i].abandoned /\ ~OnCall(i)
  <2>1. CASE call = Idle
    <3>1. stream' = stream
      BY <2>1 DEF EndRequest
    <3>2. \A i : ~OnCall(i)
      BY <2>1, NoCallWhenIdle
    <3>. QED
      BY <1>1, <3>1, <3>2 DEF IInv, OnlyThePersistentIsLeft, TypeOK
  <2>2. CASE call # Idle
    <3>1. InCall
      BY <1>1, <2>2, CallFacts DEF InCall
    <3>2. PICK b \in 1..MaxStreams : b = base[call.node] /\ stream[b].state # "freed"
      BY <3>1, CallStreamFacts
    <3>3. PICK s : s = [stream[b] EXCEPT !.abandoned = TRUE]
      OBVIOUS
    <3>4. stream' = [stream EXCEPT ![b] = s]
      BY <2>2, <3>2, <3>3 DEF EndRequest
    <3>5. /\ s \in Streams /\ s.state = stream[b].state /\ s.abandoned
          /\ s.wire = stream[b].wire /\ s.replies = stream[b].replies
      BY <1>1, <3>3, StreamFacts DEF Streams
    <3>6. stream \in [1..MaxStreams -> Streams]
      BY <1>1 DEF TypeOK
    <3>7. /\ stream' \in [1..MaxStreams -> Streams]
          /\ stream'[b] = s
          /\ \A i \in 1..MaxStreams : i # b => stream'[i] = stream[i]
      BY <3>4, <3>5, <3>6
    <3>8. OnlyThePersistentIsLeft'
      BY <1>1, <3>5, <3>7, CountFacts DEF IInv, OnlyThePersistentIsLeft
    <3>. QED
      BY <3>2, <3>5, <3>7, <3>8 DEF OnCall
  <2>. QED
    BY <2>1, <2>2
<1>3. ~InCall' /\ \A i \in 1..MaxStreams : ~OnCall(i)'
  BY <1>1 DEF InCall, OnCall, Idle
<1>4. TypeOK'
  BY <1>1, <1>2, CountFacts DEF TypeOK
<1>5. LastTryHasItsStream' /\ CrashHasACause' /\ CallHasItsStream' /\ WrittenInOrder'
  BY <1>1, <1>3
  DEF LastTryHasItsStream, CrashHasACause, CallHasItsStream, WrittenInOrder, Idle
<1>6. HoldsOnlyTheCall'
  <2>1. ASSUME NEW i \in 1..MaxStreams, ~stream'[i].abandoned
        PROVE  stream'[i].wire = <<>> /\ stream'[i].replies = <<>>
    BY <1>2, <2>1 DEF IInv, HoldsOnlyTheCall
  <2>. QED
    BY <1>3, <2>1 DEF HoldsOnlyTheCall
<1>7. RepliesStayInStep'
  BY <1>1 DEF RepliesStayInStep
<1>. QED
  BY <1>2, <1>4, <1>5, <1>6, <1>7 DEF IInv

LEMMA StepPreserves == IInv /\ [Next]_vars => IInv'
<1>1. SUFFICES ASSUME IInv, [Next]_vars PROVE IInv'
  OBVIOUS
<1>2. CASE UNCHANGED vars
  <2>1. UNCHANGED <<stream, opened, persistent, base, call, requests, lastTry, answer>>
    BY <1>2 DEF vars
  <2>2. (InCall' <=> InCall) /\ \A i : OnCall(i)' <=> OnCall(i)
    BY <2>1 DEF InCall, OnCall
  <2>3. TypeOK' /\ OnlyThePersistentIsLeft'
    BY <1>1, <2>1 DEF IInv, TypeOK, OnlyThePersistentIsLeft
  <2>4. LastTryHasItsStream' /\ CrashHasACause' /\ RepliesStayInStep'
    BY <1>1, <2>1
    DEF IInv, LastTryHasItsStream, IsDangling, CrashHasACause, RepliesStayInStep
  <2>5. CallHasItsStream' /\ WrittenInOrder'
    BY <1>1, <2>1 DEF IInv, CallHasItsStream, InCall, WrittenInOrder
  <2>6. HoldsOnlyTheCall'
    BY <1>1, <2>1 DEF IInv, HoldsOnlyTheCall, OnCall, InCall
  <2>. QED
    BY <2>3, <2>4, <2>5, <2>6 DEF IInv
<1>3. ASSUME NEW n \in Nodes, Initiate(n) PROVE IInv'
  BY <1>1, <1>3, InitiatePreserves
<1>4. ASSUME NEW n \in Nodes, DanglingFindsAnother(n) PROVE IInv'
  BY <1>1, <1>4, DanglingFindsAnotherPreserves
<1>5. ASSUME NEW n \in Nodes, NEW msec \in Timeouts, Writev(n, msec) PROVE IInv'
  BY <1>1, <1>5, WritevPreserves
<1>6. ASSUME NEW n \in Nodes, NEW msec \in Timeouts, WritevCrashes(n, msec) PROVE IInv'
  BY <1>1, <1>6, WritevCrashesPreserves
<1>7. CASE WriteBuffer
  BY <1>1, <1>7, WriteBufferPreserves
<1>8. CASE WritevReturns
  BY <1>1, <1>8, WritevReturnsPreserves
<1>9. CASE ReadReply
  BY <1>1, <1>9, ReadReplyPreserves
<1>10. CASE ReadFails
  BY <1>1, <1>10, ReadFailsPreserves
<1>11. ASSUME NEW i \in 1..MaxStreams, ServerTakes(i) PROVE IInv'
  BY <1>1, <1>11, ServerTakesPreserves
<1>12. ASSUME NEW i \in 1..MaxStreams, PeerCloses(i) PROVE IInv'
  BY <1>1, <1>12, PeerClosesPreserves
<1>13. CASE EndRequest
  BY <1>1, <1>13, EndRequestPreserves
<1>. QED
  BY <1>1, <1>2, <1>3, <1>4, <1>5, <1>6, <1>7, <1>8, <1>9, <1>10, <1>11, <1>12, <1>13
  DEF Next

(* The inductive invariant holds in every reachable state, whatever the    *)
(* nodes, the hosts, the buffers and the timeouts.                         *)
THEOREM Invariance == Spec => []IInv
<1>1. Init => IInv
  BY InitEstablishes
<1>2. IInv /\ [Next]_vars => IInv'
  BY StepPreserves
<1>. QED
  BY <1>1, <1>2, PTL DEF Spec

-----------------------------------------------------------------------------
(* Timeouts.                                                               *)

(* A step that changes neither a timeout nor what was asked.               *)
TimeoutsKept ==
  \A i \in 1..MaxStreams :
    stream'[i].timeout = stream[i].timeout /\ stream'[i].asked = stream[i].asked

LEMMA KeptTimeoutsAreAsked ==
  ASSUME TimeoutsAreAsked, TimeoutsKept
  PROVE  TimeoutsAreAsked'
  BY DEF TimeoutsAreAsked, TimeoutsKept, TimeoutIsAsked

(* Only the write and the opening of a stream touch them.                  *)
LEMMA CallsKeepTimeouts ==
  ASSUME TypeOK, WriteBuffer \/ GiveUp \/ ReadReply
  PROVE  TimeoutsKept
<1>1. stream \in [1..MaxStreams -> Streams]
  BY DEF TypeOK
<1>2. CASE WriteBuffer
  <2>1. PICK bytes : stream' = [stream EXCEPT ![base[call.node]].wire = stream[base[call.node]].wire \o bytes]
    BY <1>2 DEF WriteBuffer
  <2>. QED
    BY <1>1, <2>1 DEF TimeoutsKept, Streams
<1>3. CASE GiveUp
  BY <1>1, <1>3 DEF GiveUp, Destroy, TimeoutsKept, Streams
<1>4. CASE ReadReply
  BY <1>1, <1>4 DEF ReadReply, TimeoutsKept, Streams
<1>. QED
  BY <1>2, <1>3, <1>4

LEMMA PeerKeepsTimeouts ==
  ASSUME TypeOK, NEW i \in 1..MaxStreams, ServerTakes(i) \/ PeerCloses(i)
  PROVE  TimeoutsKept
<1>1. stream \in [1..MaxStreams -> Streams] /\ stream[i] \in Streams
  BY DEF TypeOK
<1>2. CASE ServerTakes(i)
  <2>1. PICK w, rest, more : /\ rest = [stream[i] EXCEPT !.wire = w]
                             /\ w = SubSeq(stream[i].wire, MessageLength + 1, Len(stream[i].wire))
                             /\ more = Append(rest.replies, stream[i].wire[1][1])
    OBVIOUS
  <2>2. PICK s : s = IF SubSeq(stream[i].wire, 1, MessageLength) = Message(stream[i].wire[1][1])
                     THEN [rest EXCEPT !.replies = more]
                     ELSE [rest EXCEPT !.state = "dead"]
    OBVIOUS
  <2>3. stream' = [stream EXCEPT ![i] = s]
    BY <1>2, <2>1, <2>2 DEF ServerTakes
  <2>4. s.timeout = stream[i].timeout /\ s.asked = stream[i].asked
    BY <1>1, <2>1, <2>2 DEF Streams
  <2>. QED
    BY <1>1, <2>3, <2>4 DEF TimeoutsKept
<1>3. CASE PeerCloses(i)
  BY <1>1, <1>3 DEF PeerCloses, TimeoutsKept, Streams
<1>. QED
  BY <1>2, <1>3

LEMMA EndKeepsTimeouts ==
  ASSUME TypeOK, EndRequest
  PROVE  TimeoutsKept
<1>1. stream \in [1..MaxStreams -> Streams]
  BY DEF TypeOK
<1>. QED
  BY <1>1 DEF EndRequest, TimeoutsKept, Streams

(* A stream that is opened has PHP's default.                              *)
LEMMA InitiateTimeouts ==
  ASSUME TypeOK, TimeoutsAreAsked, NEW n \in Nodes, Initiate(n)
  PROVE  TimeoutsAreAsked'
<1>1. stream \in [1..MaxStreams -> Streams]
  BY DEF TypeOK
<1>2. /\ Pclose \in [1..MaxStreams -> Streams]
      /\ \A i \in 1..MaxStreams :
           Pclose[i].timeout = stream[i].timeout /\ Pclose[i].asked = stream[i].asked
  <2>1. CASE persistent = 0
    BY <1>1, <2>1 DEF Pclose
  <2>2. CASE persistent # 0
    BY <1>1, <2>2, PcloseFacts DEF Pclose, Streams
  <2>. QED
    BY <2>1, <2>2
<1>3. CASE Reuse(n)
  BY <1>3 DEF Reuse, TimeoutsAreAsked, TimeoutIsAsked
<1>4. CASE Open(n)
  <2> DEFINE fresh == [NoStream EXCEPT !.state = "open", !.host = HostOf[n]]
  <2>1. /\ stream' = [Pclose EXCEPT ![opened + 1] = fresh]
        /\ fresh.timeout = DefaultTimeout /\ fresh.asked = 0
    BY <1>4 DEF Open, NoStream
  <2> HIDE DEF fresh
  <2>2. ASSUME NEW i \in 1..MaxStreams PROVE TimeoutIsAsked(stream'[i])
    <3>1. CASE i = opened + 1
      <4>1. stream'[i] = fresh
        BY <1>2, <2>1, <3>1
      <4>. QED
        BY <2>1, <4>1 DEF TimeoutIsAsked
    <3>2. CASE i # opened + 1
      <4>1. stream'[i].timeout = stream[i].timeout /\ stream'[i].asked = stream[i].asked
        BY <1>2, <2>1, <3>2
      <4>. QED
        BY <4>1 DEF TimeoutsAreAsked, TimeoutIsAsked
    <3>. QED
      BY <3>1, <3>2
  <2>. QED
    BY <2>2 DEF TimeoutsAreAsked
<1>5. CASE OpenFails
  BY <1>2, <1>5, KeptTimeoutsAreAsked DEF OpenFails, TimeoutsKept
<1>. QED
  BY <1>3, <1>4, <1>5 DEF Initiate

LEMMA WritevTimeouts ==
  ASSUME TypeOK, TimeoutsAreAsked, NEW n \in Nodes, NEW msec \in Timeouts, Writev(n, msec)
  PROVE  TimeoutsAreAsked'
<1>1. /\ stream \in [1..MaxStreams -> Streams]
      /\ stream' = [stream EXCEPT ![base[n]] = WithTimeout(stream[base[n]], msec)]
  BY DEF TypeOK, Writev
<1>2. ASSUME NEW i \in 1..MaxStreams PROVE TimeoutIsAsked(stream'[i])
  <2>1. stream[i] \in Streams /\ TimeoutIsAsked(stream[i])
    BY <1>1 DEF TimeoutsAreAsked
  <2>2. stream'[i] = stream[i] \/ stream'[i] = WithTimeout(stream[i], msec)
    BY <1>1
  <2>. QED
    BY <2>1, <2>2, SetTimeoutFacts
<1>. QED
  BY <1>2 DEF TimeoutsAreAsked

LEMMA StepKeepsTimeouts == TypeOK /\ TimeoutsAreAsked /\ [Next]_vars => TimeoutsAreAsked'
<1>1. SUFFICES ASSUME TypeOK, TimeoutsAreAsked, [Next]_vars PROVE TimeoutsAreAsked'
  OBVIOUS
<1>2. CASE stream' = stream
  BY <1>1, <1>2 DEF TimeoutsAreAsked, TimeoutIsAsked
<1>3. ASSUME NEW n \in Nodes, Initiate(n) PROVE TimeoutsAreAsked'
  BY <1>1, <1>3, InitiateTimeouts
<1>4. ASSUME NEW n \in Nodes, NEW msec \in Timeouts, Writev(n, msec) PROVE TimeoutsAreAsked'
  BY <1>1, <1>4, WritevTimeouts
<1>5. CASE WriteBuffer \/ GiveUp \/ ReadReply
  BY <1>1, <1>5, CallsKeepTimeouts, KeptTimeoutsAreAsked
<1>6. ASSUME NEW i \in 1..MaxStreams, ServerTakes(i) \/ PeerCloses(i) PROVE TimeoutsAreAsked'
  BY <1>1, <1>6, PeerKeepsTimeouts, KeptTimeoutsAreAsked
<1>7. CASE EndRequest
  BY <1>1, <1>7, EndKeepsTimeouts, KeptTimeoutsAreAsked
<1>8. ASSUME NEW n \in Nodes, NEW msec \in Timeouts,
             DanglingFindsAnother(n) \/ WritevCrashes(n, msec)
      PROVE  stream' = stream
  BY <1>8 DEF DanglingFindsAnother, WritevCrashes
<1>9. WritevReturns => stream' = stream \/ GiveUp
  BY DEF WritevReturns
<1>10. ReadFails => GiveUp
  BY DEF ReadFails
<1>11. ASSUME NEW n \in Nodes, DanglingFindsAnother(n) PROVE stream' = stream
  BY <1>11 DEF DanglingFindsAnother
<1>. QED
  BY <1>1, <1>2, <1>3, <1>4, <1>5, <1>6, <1>7, <1>8, <1>9, <1>10, <1>11 DEF Next, vars

LEMMA TimeoutInvariance == Spec => []TimeoutsAreAsked
<1>1. Init => TimeoutsAreAsked
  BY DEF Init, TimeoutsAreAsked, TimeoutIsAsked, NoStream
<1>2. IInv => TypeOK
  BY DEF IInv
<1>. QED
  BY <1>1, <1>2, StepKeepsTimeouts, Invariance, PTL DEF Spec

-----------------------------------------------------------------------------
(* What follows from it.                                                   *)

(* Every variable has its type, in every reachable state.                  *)
THEOREM TypeCorrect == Spec => []TypeOK
<1>1. IInv => TypeOK
  BY DEF IInv
<1>. QED
  BY <1>1, Invariance, PTL

(* A node loses its stream only by the reconnect of another node, and a    *)
(* write crashes only after that or with a timeout of 0.                   *)
THEOREM StreamsAreTakenByOthers == Spec => []OnlyOthersTakeTheStream
<1>1. ASSUME IInv PROVE OnlyOthersTakeTheStream
  <2>1. ASSUME NEW n \in Nodes, IsDangling(n) PROVE lastTry # n
    BY <1>1, <2>1, NodeAssumption DEF IInv, LastTryHasItsStream
  <2>2. call.phase = "crashed" => call.timeout = 0 \/ lastTry # call.node
    BY <1>1 DEF IInv, CrashHasACause
  <2>. QED
    BY <2>1, <2>2 DEF OnlyOthersTakeTheStream
<1>. QED
  BY <1>1, Invariance, PTL

(* A call that is writing or reading works on a stream that PHP still has, *)
(* whatever happens to the other nodes: only between two calls is a        *)
(* stream freed.                                                           *)
THEOREM CallsKeepTheirStream ==
  Spec => [](InCall => stream[base[call.node]].state # "freed")
<1>1. IInv => (InCall => stream[base[call.node]].state # "freed")
  BY DEF IInv, CallHasItsStream
<1>. QED
  BY <1>1, Invariance, PTL

(* The timeout of a stream that a call reads from is the last one that a   *)
(* write on it asked for, whatever nodes, calls and requests came between. *)
THEOREM TimeoutIsLastAsked == Spec => []WaitsAsLastAsked
<1>1. ASSUME IInv, TimeoutsAreAsked PROVE WaitsAsLastAsked
  <2>1. SUFFICES ASSUME call.phase = "reading"
                 PROVE  TimeoutIsAsked(stream[base[call.node]])
    BY DEF WaitsAsLastAsked, TimeoutIsAsked
  <2>2. base[call.node] \in 1..MaxStreams
    BY <1>1, <2>1, CallStreamFacts DEF InCall
  <2>. QED
    BY <1>1, <2>2 DEF TimeoutsAreAsked
<1>. QED
  BY <1>1, Invariance, TimeoutInvariance, PTL

(* A message that mongoc takes for sent was written whole and in order.    *)
THEOREM SentIsWhole == Spec => []SentMeansWhole
<1>1. ASSUME IInv, call.phase = "reading"
      PROVE  call.written = [p \in 1..MessageLength |-> p]
  <2>1. TypeOK /\ call # Idle
    BY <1>1, IdleHasNoFields DEF IInv
  <2>2. call.buffer \in 1..Len(Buffers) + 1
    BY <2>1, CallFacts
  <2>3. /\ call.sent = MessageLength /\ call.sent <= Offset[call.buffer]
        /\ call.sent = Offset[call.buffer] => call.written = [p \in 1..call.sent |-> p]
    BY <1>1, <2>1 DEF IInv, WrittenInOrder
  <2>4. /\ MessageLength \in Nat
        /\ Offset[call.buffer] \in Nat /\ Offset[call.buffer] <= MessageLength
    BY <2>2, OffsetFacts
  <2>5. call.sent = Offset[call.buffer]
    BY <2>3, <2>4
  <2>. QED
    BY <2>3, <2>5
<1>2. IInv => SentMeansWhole
  BY <1>1 DEF SentMeansWhole
<1>. QED
  BY <1>2, Invariance, PTL

(* Where no call ended early, every reply answers the message just sent.   *)
THEOREM RepliesAreTheCalls == Spec => []RepliesStayInStep
<1>1. IInv => RepliesStayInStep
  BY DEF IInv
<1>. QED
  BY <1>1, Invariance, PTL

=============================================================================
