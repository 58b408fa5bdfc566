----------------------------- MODULE Connection -----------------------------
(***************************************************************************)
(* Connections: the stream initiator, php_phongo_set_timeout and           *)
(* phongo_stream_writev (php_phongo.c), over PHP's persistent streams.     *)
(*                                                                         *)
(* A node is one server as one mongoc client sees it; a script has a       *)
(* client for every Manager and every Server it constructs.  mongoc asks   *)
(* the initiator for a stream per node, writes a message to it as an array *)
(* of buffers, reads the reply, and forgets the stream when either fails.  *)
(* All of that is synchronous: there is one call at a time, and the peer   *)
(* acts between its steps.                                                 *)
(*                                                                         *)
(* The initiator asks PHP for the persistent stream of one fixed id.  PHP  *)
(* keeps persistent streams from one request to the next, so two nodes     *)
(* share a stream, and a request finds what an earlier one left in it.     *)
(* Reading is one step here: StreamRead and AtomicRead have its detail.    *)
(* mongoc passes a timeout to the write and another to the read, and only  *)
(* the write looks at its own.                                             *)
(*                                                                         *)
(* Left out: addresses of an unknown family, which mongoc does not make;   *)
(* setsockopt, whose failure is only logged; what is logged.               *)
(***************************************************************************)
EXTENDS Integers, Sequences

CONSTANTS
  Nodes,       (* The servers of all clients of a script.                  *)
  Hosts,       (* Where they are.                                          *)
  HostOf,      (* Which is where.                                          *)
  Buffers,     (* The lengths of the buffers a message is written from.    *)
  Timeouts,    (* The timeouts mongoc passes, in milliseconds.             *)
  None,        (* No node, no stream's host, no answer.                    *)
  MaxStreams,  (* Bound on the streams opened.                             *)
  MaxRequests  (* Bound on the messages written.                           *)

ASSUME NodeAssumption == HostOf \in [Nodes -> Hosts] /\ None \notin Nodes \cup Hosts

ASSUME BufferAssumption == Buffers \in Seq(Nat \ {0}) /\ Buffers # <<>>

ASSUME BoundAssumption ==
  Timeouts \subseteq Int /\ MaxStreams \in Nat /\ MaxRequests \in Nat

VARIABLES
  stream,      (* The PHP streams, numbered as they were opened.           *)
  opened,      (* How many there are.                                      *)
  persistent,  (* The one in PHP's list under the fixed id; 0 is none.     *)
  base,        (* The stream in a node's php_phongo_stream_socket, 0 when  *)
               (* mongoc has no stream for it.                             *)
  call,        (* The call in progress.                                    *)
  requests,    (* How many messages mongoc has made.                       *)
  lastTry,     (* History: the node that last asked for a stream.          *)
  answer       (* History: the last reply read.                            *)

vars == <<stream, opened, persistent, base, call, requests, lastTry, answer>>

Requests == 1..MaxRequests

(* Where a buffer starts in the message, and how long the message is.      *)
Offset[k \in 1..Len(Buffers) + 1] ==
  IF k = 1 THEN 0 ELSE Offset[k - 1] + Buffers[k - 1]

MessageLength == Offset[Len(Buffers) + 1]

Message(r) == [p \in 1..MessageLength |-> <<r, p>>]

(* A stream.  "dead" is closed by the peer, "freed" by PHP.  "wire" is     *)
(* what was written and the peer has not taken, "replies" what it sent and *)
(* is not read.  Two are histories: "asked" is the last positive timeout   *)
(* of a write on it, 0 before there was one, and "abandoned" tells whether *)
(* a call on it ended early.  PHP's default timeout is a minute.           *)
DefaultTimeout == <<60, 0>>

NoStream == [state |-> "none", host |-> None, timeout |-> DefaultTimeout, asked |-> 0,
             wire |-> <<>>, replies |-> <<>>, abandoned |-> FALSE]

LastMicrosecond == 999999

Timevals == Nat \X (0..LastMicrosecond)

Streams ==
  [state : {"none", "open", "dead", "freed"}, host : Hosts \cup {None},
   timeout : Timevals, asked : Timeouts \cup {0}, wire : Seq(Requests \X (1..MessageLength)),
   replies : Seq(Requests), abandoned : BOOLEAN]

Idle == [phase |-> "idle"]

(* The call of phongo_stream_writev in progress and the read of its reply: *)
(* "timeout" and "wait" are what mongoc passed to the one and the other.   *)
Calls ==
  [phase : {"writing", "reading", "crashed"}, node : Nodes, timeout : Timeouts,
   wait : Timeouts \cup {0}, request : Requests, buffer : 1..Len(Buffers) + 1, sent : 0..MessageLength,
   written : Seq(1..MessageLength)]

Answers == [request : Requests, reply : Requests, abandoned : BOOLEAN]

(* Every variable has its type.                                            *)
TypeOK ==
  /\ opened \in 0..MaxStreams
  /\ stream \in [1..MaxStreams -> Streams]
  /\ persistent \in 0..opened
  /\ base \in [Nodes -> 0..opened]
  /\ call \in Calls \cup {Idle}
  /\ requests \in 0..MaxRequests
  /\ lastTry \in Nodes \cup {None}
  /\ answer \in Answers \cup {None}

Init ==
  /\ stream = [i \in 1..MaxStreams |-> NoStream] /\ opened = 0 /\ persistent = 0
  /\ base = [n \in Nodes |-> 0]
  /\ call = Idle /\ requests = 0 /\ lastTry = None /\ answer = None

-----------------------------------------------------------------------------
(* The initiator.                                                          *)

(* PHP's test of a persistent stream: one that the peer has closed passes  *)
(* as long as there is something to read.                                  *)
IsLive(s) == s.state = "open" \/ (s.state = "dead" /\ s.replies # <<>>)

Reusable == persistent # 0 /\ IsLive(stream[persistent])

Reuse(n) ==
  /\ Reusable
  /\ base' = [base EXCEPT ![n] = persistent]
  /\ UNCHANGED <<stream, opened, persistent>>

(* A persistent stream that is dead is freed, whoever else points to it.   *)
Pclose ==
  IF persistent = 0 THEN stream ELSE [stream EXCEPT ![persistent].state = "freed"]

Open(n) ==
  /\ ~Reusable
  /\ opened < MaxStreams
  /\ opened' = opened + 1 /\ persistent' = opened + 1
  /\ stream' = [Pclose EXCEPT ![opened + 1] =
                  [NoStream EXCEPT !.state = "open", !.host = HostOf[n]]]
  /\ base' = [base EXCEPT ![n] = opened + 1]

OpenFails ==
  /\ ~Reusable
  /\ stream' = Pclose /\ persistent' = 0
  /\ UNCHANGED <<opened, base>>

(* Whatever the node, the same id is asked for.                            *)
Initiate(n) ==
  /\ call = Idle /\ base[n] = 0
  /\ Reuse(n) \/ Open(n) \/ OpenFails
  /\ lastTry' = n
  /\ UNCHANGED <<call, requests, answer>>

-----------------------------------------------------------------------------
(* phongo_stream_writev.                                                   *)

(* Defect: the whole seconds are left in the microseconds.                 *)
SetTimeoutUnreduced(s, msec) ==
  IF msec > 0 THEN [s EXCEPT !.timeout = <<msec \div 1000, msec * 1000>>] ELSE s

(* Defect: milliseconds where the stream layer takes microseconds.         *)
SetTimeoutInMsec(s, msec) ==
  IF msec > 0 THEN [s EXCEPT !.timeout = <<msec \div 1000, msec % 1000>>] ELSE s

(* php_phongo_set_timeout: a struct timeval for a positive timeout, NULL   *)
(* for 0, which PHP dereferences, and nothing at all for a negative one.   *)
SetTimeout(s, msec) ==
  IF msec > 0 THEN [s EXCEPT !.timeout = <<msec \div 1000, (msec % 1000) * 1000>>] ELSE s

(* The history goes along.                                                 *)
WithTimeout(s, msec) ==
  [SetTimeout(s, msec) EXCEPT !.asked = IF msec > 0 THEN msec ELSE @]

IsDangling(n) == base[n] # 0 /\ stream[base[n]].state = "freed"

NewCall(n, msec) ==
  [phase |-> "writing", node |-> n, timeout |-> msec, wait |-> 0, request |-> requests + 1,
   buffer |-> 1, sent |-> 0, written |-> <<>>]

Writev(n, msec) ==
  /\ call = Idle /\ base[n] # 0 /\ requests < MaxRequests
  /\ ~IsDangling(n) /\ msec # 0
  /\ stream' = [stream EXCEPT ![base[n]] = WithTimeout(@, msec)]
  /\ call' = NewCall(n, msec)
  /\ requests' = requests + 1
  /\ UNCHANGED <<opened, persistent, base, lastTry, answer>>

(* A NULL timeout crashes, and so may a stream that was freed.             *)
WritevCrashes(n, msec) ==
  /\ call = Idle /\ base[n] # 0 /\ requests < MaxRequests
  /\ IsDangling(n) \/ msec = 0
  /\ call' = [NewCall(n, msec) EXCEPT !.phase = "crashed"]
  /\ requests' = requests + 1
  /\ UNCHANGED <<stream, opened, persistent, base, lastTry, answer>>

(* The memory of a stream that was freed may also hold the stream that was *)
(* opened next, and the node works on with that one.                       *)
DanglingFindsAnother(n) ==
  /\ call = Idle /\ IsDangling(n) /\ persistent # 0
  /\ base' = [base EXCEPT ![n] = persistent]
  /\ UNCHANGED <<stream, opened, persistent, call, requests, lastTry, answer>>

Positions(k, n) == [p \in 1..n |-> Offset[k] + p]

(* Defect: the length of the buffer is counted, not what was written.      *)
WriteBufferCountsLength ==
  /\ call.phase = "writing" /\ call.buffer <= Len(Buffers)
  /\ \E n \in 0..Buffers[call.buffer] :
       LET bytes == Positions(call.buffer, n)
       IN  /\ call' = [call EXCEPT !.buffer = @ + 1, !.sent = @ + Buffers[call.buffer],
                                   !.written = @ \o bytes]
           /\ stream' = [stream EXCEPT ![base[call.node]].wire =
                           @ \o [p \in 1..n |-> <<call.request, bytes[p]>>]]
  /\ UNCHANGED <<opened, persistent, base, requests, lastTry, answer>>

(* Defect: a buffer is tried again until the peer has taken all of it.     *)
WriteBufferRetries ==
  /\ call.phase = "writing" /\ call.buffer <= Len(Buffers)
  /\ stream[base[call.node]].state = "open"
  /\ LET bytes == Positions(call.buffer, Buffers[call.buffer])
     IN  /\ call' = [call EXCEPT !.buffer = @ + 1, !.sent = @ + Buffers[call.buffer],
                                 !.written = @ \o bytes]
         /\ stream' = [stream EXCEPT ![base[call.node]].wire =
                         @ \o [p \in DOMAIN bytes |-> <<call.request, bytes[p]>>]]
  /\ UNCHANGED <<opened, persistent, base, requests, lastTry, answer>>

(* One turn of the loop: php_stream_write takes any part of the buffer,    *)
(* none if it fails, and the next turn goes on with the next buffer.       *)
WriteBuffer ==
  /\ call.phase = "writing" /\ call.buffer <= Len(Buffers)
  /\ \E n \in 0..Buffers[call.buffer] :
       LET bytes == Positions(call.buffer, n)
       IN  /\ call' = [call EXCEPT !.buffer = @ + 1, !.sent = @ + n, !.written = @ \o bytes]
           /\ stream' = [stream EXCEPT ![base[call.node]].wire =
                           @ \o [p \in 1..n |-> <<call.request, bytes[p]>>]]
  /\ UNCHANGED <<opened, persistent, base, requests, lastTry, answer>>

(* Defect: the stream is freed with the connection that gives it up.       *)
DestroyFrees(i) == [stream EXCEPT ![i].state = "freed"]

(* phongo_stream_destroy and phongo_stream_close do nothing: PHP's stream  *)
(* is not mongoc's to close.                                               *)
Destroy(i) == stream

(* mongoc gives the connection of a failed call up.                        *)
GiveUp ==
  /\ stream' = [Destroy(base[call.node]) EXCEPT ![base[call.node]].abandoned = TRUE]
  /\ base' = [base EXCEPT ![call.node] = 0]
  /\ call' = Idle
  /\ UNCHANGED <<opened, persistent, requests, lastTry, answer>>

(* It takes any count but that of the whole message for a failure.  Else   *)
(* it goes on to read, with a timeout of the read's own.                   *)
WritevReturns ==
  /\ call.phase = "writing" /\ call.buffer = Len(Buffers) + 1
  /\ \/ /\ call.sent = MessageLength
        /\ \E msec \in Timeouts : call' = [call EXCEPT !.phase = "reading", !.wait = msec]
        /\ UNCHANGED <<stream, opened, persistent, base, requests, lastTry, answer>>
     \/ call.sent # MessageLength /\ GiveUp

-----------------------------------------------------------------------------
(* phongo_stream_readv, as one step: how long it may last is the stream's  *)
(* matter, since call.wait is not looked at.                               *)

ReadReply ==
  /\ call.phase = "reading" /\ stream[base[call.node]].replies # <<>>
  /\ LET s == stream[base[call.node]]
     IN  /\ answer' = [request |-> call.request, reply |-> Head(s.replies),
                       abandoned |-> s.abandoned]
         /\ stream' = [stream EXCEPT ![base[call.node]].replies = Tail(@)]
  /\ call' = Idle
  /\ UNCHANGED <<opened, persistent, base, requests, lastTry>>

(* Defect: a read that got nothing does not say so, and the connection is  *)
(* kept.                                                                   *)
ReadFailsSilently ==
  /\ call.phase = "reading" /\ stream[base[call.node]].replies = <<>>
  /\ call' = Idle
  /\ UNCHANGED <<stream, opened, persistent, base, requests, lastTry, answer>>

(* Nothing came within the stream's timeout, or the peer has closed it.    *)
ReadFails ==
  /\ call.phase = "reading" /\ stream[base[call.node]].replies = <<>>
  /\ GiveUp

-----------------------------------------------------------------------------
(* What happens around a call.                                             *)

(* The server takes as many bytes as its first bytes announce, answers if  *)
(* they are a message, and otherwise closes the connection.                *)
ServerTakes(i) ==
  LET s == stream[i] IN
  /\ s.state = "open" /\ Len(s.wire) >= MessageLength
  /\ stream' = [stream EXCEPT ![i] =
       LET rest == [s EXCEPT !.wire = SubSeq(@, MessageLength + 1, Len(@))]
       IN  IF SubSeq(s.wire, 1, MessageLength) = Message(s.wire[1][1])
           THEN [rest EXCEPT !.replies = Append(@, s.wire[1][1])]
           ELSE [rest EXCEPT !.state = "dead"]]
  /\ UNCHANGED <<opened, persistent, base, call, requests, lastTry, answer>>

PeerCloses(i) ==
  /\ stream[i].state = "open"
  /\ stream' = [stream EXCEPT ![i].state = "dead"]
  /\ UNCHANGED <<opened, persistent, base, call, requests, lastTry, answer>>

(* A PHP request ends, maybe in the middle of a call (a fatal error, the   *)
(* execution time limit).  Its memory is gone, the stream is not.          *)
EndRequest ==
  /\ call.phase # "crashed"
  /\ stream' = IF call = Idle THEN stream
               ELSE [stream EXCEPT ![base[call.node]].abandoned = TRUE]
  /\ base' = [n \in Nodes |-> 0]
  /\ call' = Idle /\ lastTry' = None /\ answer' = None
  /\ UNCHANGED <<opened, persistent, requests>>

Next ==
  \/ \E n \in Nodes : Initiate(n) \/ DanglingFindsAnother(n)
  \/ \E n \in Nodes, msec \in Timeouts : Writev(n, msec) \/ WritevCrashes(n, msec)
  \/ WriteBuffer \/ WritevReturns \/ ReadReply \/ ReadFails
  \/ \E i \in 1..MaxStreams : ServerTakes(i) \/ PeerCloses(i)
  \/ EndRequest

(* A loop over buffers goes on, and a read ends: the stream has a timeout. *)
Fairness == WF_vars(WriteBuffer) /\ WF_vars(WritevReturns) /\ WF_vars(ReadReply \/ ReadFails)

Spec == Init /\ [][Next]_vars /\ Fairness

-----------------------------------------------------------------------------
(* Properties.                                                             *)

(* A script with a single connection is never left with a freed stream:    *)
(* only a reconnect of another node takes a node's stream away, and only   *)
(* that or a timeout of 0 crashes a write (phongo_stream_writev,           *)
(* php_phongo_set_timeout).                                                *)
OnlyOthersTakeTheStream ==
  /\ \A n \in Nodes : IsDangling(n) => lastTry # n
  /\ call.phase = "crashed" => call.timeout = 0 \/ lastTry # call.node

InMicroseconds(timeval) == timeval[1] * 1000000 + timeval[2]

(* The timeout of a stream outlives calls, nodes and requests, and a write *)
(* without a positive one leaves it as it is.  A read then waits as long   *)
(* as it was asked to, or as the last write on this very stream that named *)
(* a timeout, whichever node it was of; and PHP's default if none did: not *)
(* as an earlier write or one on a stream closed since.  The code as it is *)
(* never does the first (php_phongo_set_timeout, phongo_stream_readv).     *)
WaitsAsLastAsked ==
  call.phase = "reading" =>
    LET s == stream[base[call.node]] IN
    InMicroseconds(s.timeout) \in
      {call.wait * 1000,
       IF s.asked > 0 THEN s.asked * 1000 ELSE InMicroseconds(DefaultTimeout)}

(* When mongoc takes a message for sent it was written whole and in order, *)
(* although the loop goes on after a short write (phongo_stream_writev).   *)
SentMeansWhole ==
  call.phase = "reading" => call.written = [p \in 1..MessageLength |-> p]

(* On a stream on which no call ended early, in this request or in an      *)
(* earlier one, every reply that is read answers the message that was      *)
(* just written, whichever nodes share the stream.                         *)
RepliesStayInStep ==
  answer # None /\ ~answer.abandoned => answer.reply = answer.request

(* Every call ends, whatever the peer does and however short the writes    *)
(* (the loops of phongo_stream_writev and phongo_stream_readv).            *)
CallsEnd == (call.phase \in {"writing", "reading"}) ~> (call = Idle)

(* src/src/MongoDB/Server.c:330: "there is only a single single socket on  *)
(* which to send a command, query, or write", a socket connection to that  *)
(* server.                                                                 *)
SingleSocketToItsServer ==
  call.phase = "writing" => stream[base[call.node]].host = HostOf[call.node]

=============================================================================
