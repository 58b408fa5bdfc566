------------------------- MODULE WriteExecutionProofs -------------------------
(***************************************************************************)
(* Proofs about WriteExecution: for any batches, servers and documents,    *)
(* and with no bound on operations and executions but that there is one.   *)
(***************************************************************************)
EXTENDS WriteExecution, FiniteSetTheorems, SequenceTheorems, TLAPS

-----------------------------------------------------------------------------
(* The inductive invariant, in named parts.                                *)

(* A document is stored at most once per execution, and not before it is   *)
(* in the batch.                                                           *)
CopiesAreCounted ==
  \A b \in Batches, k \in 1..MaxOps :
    copies[b][k] <= runs /\ (k > Len(ops[b]) => copies[b][k] = 0)

(* The _id is chosen when the document is added, and kept.                 *)
InsertsKeepTheirIds ==
  \A b \in Batches : \A k \in 1..Len(ops[b]) :
    ops[b][k].kind = "insert" => ops[b][k].id = IdAdded(ops[b][k].doc)

(* A document with an _id of the script or of the driver is stored once.   *)
IdsAreStoredOnce ==
  \A b \in Batches : \A k \in 1..Len(ops[b]) :
    ops[b][k].kind = "insert" /\ ops[b][k].id # "server" => copies[b][k] <= 1

(* An update or a delete is one of a single document if the limit is set,  *)
(* and otherwise one of many.                                              *)
ObeysLimit(os) ==
  \A k \in DOMAIN os : os[k].kind # "insert" =>
    ("limit" \in os[k].options <=> os[k].kind \in {"update_one", "remove_one"})

LimitIsObeyed == (\A b \in Batches : ObeysLimit(ops[b])) /\ ObeysLimit(last.added)

(* A batch has a hint only of a Server that it was executed through.       *)
HintsCameThrough == \A b \in Batches : hint[b] \in through[b] \cup {0}

IInv ==
  /\ TypeOK
  /\ CopiesAreCounted
  /\ InsertsKeepTheirIds
  /\ IdsAreStoredOnce
  /\ HintsCameThrough
  /\ NoExceptionMeansAllDone
  /\ PartialFailureIsReported
  /\ ResultNamesTheServer
  /\ OnlyAHintLeadsAstray
  /\ LimitIsObeyed

-----------------------------------------------------------------------------
(* What is sent.                                                           *)

LEMMA HandleFacts ==
  /\ Handles \subseteq Nat
  /\ 0 \in Handles /\ 1 \in Handles /\ Primary \in Handles /\ Primary # 0
  BY ServerAssumption DEF Handles

(* Every operation that a script can ask for is one, obeys its limit, and  *)
(* has the _id that its document calls for.                                *)
LEMMA OperationFacts ==
  /\ \A doc \in Documents :
       /\ BatchInsert(doc) \in Operations /\ SingleInsert(doc) \in Operations
       /\ BatchInsert(doc).kind = "insert" /\ SingleInsert(doc).kind = "insert"
       /\ BatchInsert(doc).id = IdAdded(BatchInsert(doc).doc)
  /\ \A options \in UpdateOptions :
       \A op \in {BatchUpdate(options), SingleUpdate(options), BatchDelete(options),
                  SingleDelete(options)} :
         /\ op \in Operations /\ op.kind # "insert"
         /\ "limit" \in op.options <=> op.kind \in {"update_one", "remove_one"}
<1>1. ASSUME NEW doc \in Documents
      PROVE  /\ BatchInsert(doc) \in Operations /\ SingleInsert(doc) \in Operations
             /\ BatchInsert(doc).kind = "insert" /\ SingleInsert(doc).kind = "insert"
             /\ BatchInsert(doc).id = IdAdded(BatchInsert(doc).doc)
  <2>1. doc \in DocumentKinds
    BY DocumentAssumption
  <2>2. IdAdded(doc) \in Ids /\ IdKept(doc) \in Ids
    BY <2>1 DEF DocumentKinds, IdAdded, IdKept, Ids
  <2>. QED
    BY <2>1, <2>2 DEF BatchInsert, SingleInsert, Operations
<1>2. ASSUME NEW options \in UpdateOptions,
             NEW op \in {BatchUpdate(options), SingleUpdate(options), BatchDelete(options),
                        SingleDelete(options)}
      PROVE  /\ op \in Operations /\ op.kind # "insert"
             /\ "limit" \in op.options <=> op.kind \in {"update_one", "remove_one"}
  <2>1. PICK limit \in BOOLEAN : limit <=> "limit" \in options
    OBVIOUS
  <2>2. /\ "MULTI_UPDATE" \in UpdateFlags(options) <=> limit
        /\ "SINGLE_REMOVE" \in DeleteFlags(options) <=> limit
    BY <2>1 DEF UpdateFlags, DeleteFlags
  <2>3. \/ op = [kind |-> IF limit THEN "update_one" ELSE "update", options |-> options]
        \/ op = [kind |-> IF limit THEN "remove_one" ELSE "remove", options |-> options]
    BY <2>1, <2>2 DEF BatchUpdate, SingleUpdate, BatchDelete, SingleDelete
  <2>4. \/ op.kind = IF limit THEN "update_one" ELSE "update"
        \/ op.kind = IF limit THEN "remove_one" ELSE "remove"
    BY <2>3
  <2>5. op.options = options
    BY <2>3
  <2>6. op \in Operations
    BY <2>3 DEF Operations, UpdateKinds, RemoveKinds
  <2>. QED
    BY <2>1, <2>4, <2>5, <2>6
<1>. QED
  BY <1>1, <1>2

-----------------------------------------------------------------------------
(* What mongoc can answer.                                                 *)

(* What is true of every answer: only operations that are not refused are  *)
(* done, nothing is both done and an error, and no more is reported than   *)
(* was done; and success means that all was done.                          *)
IsAnswer(o, os, duplicates) ==
  /\ o \in [ok : BOOLEAN, server : {0}, done : SUBSET DOMAIN os, reply : Replies]
  /\ o.done \cap duplicates = {}
  /\ o.reply.errors \cap o.done = {}
  /\ o.reply.applied <= Cardinality(o.done)
  /\ o.ok => o.done = DOMAIN os

LEMMA CountOfDone ==
  ASSUME NEW os \in Seq(Operations), NEW done \in SUBSET DOMAIN os
  PROVE  Cardinality(done) \in Nat
<1>1. IsFiniteSet(DOMAIN os)
  <2>1. DOMAIN os = 1..Len(os) /\ Len(os) \in Nat
    BY LenProperties
  <2>. QED
    BY <2>1, FS_Interval
<1>. QED
  BY <1>1, FS_Subset, FS_CardinalityType

LEMMA AnswersAreAnswers ==
  ASSUME NEW os \in Seq(Operations), NEW ord \in BOOLEAN, NEW duplicates,
         NEW o \in Answers(os, ord, duplicates)
  PROVE  IsAnswer(o, os, duplicates)
<1>1. PICK a \in [ok : BOOLEAN, done : SUBSET DOMAIN os,
                  errors : SUBSET DOMAIN os, concern : Concerns] :
        /\ a.done \cap duplicates = {}
        /\ a.done = IF ord THEN {k \in DOMAIN os : \A e \in a.errors : k < e}
                    ELSE DOMAIN os \ a.errors
        /\ a.ok => a.errors = {}
        /\ o = [ok |-> a.ok, server |-> 0, done |-> a.done,
                reply |-> [applied |-> Cardinality(a.done), errors |-> a.errors,
                           concern |-> a.concern]]
  BY DEF Answers
<1>2. DOMAIN os = 1..Len(os) /\ Len(os) \in Nat
  BY LenProperties
<1>3. a.errors \cap a.done = {}
  <2>1. \A e \in a.errors : e \in Int /\ ~(e < e)
    BY <1>2
  <2>. QED
    BY <1>1, <2>1
<1>4. Cardinality(a.done) \in Nat
  BY CountOfDone
<1>5. a.errors \subseteq Nat
  BY <1>2
<1>6. [applied |-> Cardinality(a.done), errors |-> a.errors, concern |-> a.concern] \in Replies
  BY <1>4, <1>5 DEF Replies
<1>7. a.ok => a.done = DOMAIN os
  BY <1>1
<1>. QED
  BY <1>1, <1>3, <1>4, <1>6, <1>7 DEF IsAnswer

LEMMA LossesAreAnswers ==
  ASSUME NEW os \in Seq(Operations), NEW ord \in BOOLEAN, NEW duplicates,
         NEW o \in Losses(os, ord, duplicates)
  PROVE  IsAnswer(o, os, duplicates)
<1>1. PICK l \in [done : SUBSET DOMAIN os, applied : 0 .. Len(os)] :
        /\ l.done \cap duplicates = {}
        /\ l.applied <= Cardinality(l.done)
        /\ o = [ok |-> FALSE, server |-> 0, done |-> l.done,
                reply |-> [EmptyReply EXCEPT !.applied = l.applied]]
  BY DEF Losses
<1>2. l.applied \in Nat
  BY LenProperties
<1>3. EmptyReply \in Replies /\ EmptyReply.errors = {}
  BY DEF EmptyReply, Replies, Concerns
<1>4. PICK n \in Nat : n = l.applied
  BY <1>2
<1>5. PICK reply : reply = [EmptyReply EXCEPT !.applied = n]
  OBVIOUS
<1>6. reply \in Replies /\ reply.errors = {} /\ reply.applied = n
  BY <1>3, <1>5 DEF Replies
<1>. QED
  BY <1>1, <1>4, <1>5, <1>6 DEF IsAnswer

LEMMA RefusalIsAnswer ==
  ASSUME NEW os \in Seq(Operations), NEW duplicates
  PROVE  IsAnswer(Refusal, os, duplicates)
<1>1. Cardinality({}) = 0
  BY FS_EmptySet
<1>. QED
  BY <1>1 DEF IsAnswer, Refusal, EmptyReply, Replies, Concerns

(* An execution is answered by a server that the hint or the kind of       *)
(* object leads to, or by none, and successfully only by a server.         *)
LEMMA ExecutionIsAnswered ==
  ASSUME NEW via \in {"manager", "server", "handle"}, NEW h \in Handles,
         NEW os \in Seq(Operations), NEW ord \in BOOLEAN, NEW duplicates,
         NEW m \in MongocExecute(via, h, os, ord, duplicates)
  PROVE  \E o : \E s \in Handles :
           /\ IsAnswer(o, os, duplicates)
           /\ m = [o EXCEPT !.server = s]
           /\ via = "manager" => s \in {0, Primary, h}
           /\ o.ok => s # 0 /\ os # <<>>
<1> DEFINE writes == Answers(os, ord, duplicates) \cup Losses(os, ord, duplicates)
           refused(s) == s = 0 \/ os = <<>> \/ (via = "manager" /\ s # Primary)
           outcomes(s) == IF refused(s) THEN {Refusal}
                          ELSE IF via = "manager" THEN writes ELSE writes \cup {Refusal}
<1>1. PICK s \in Targets(via, h) :
        m \in {[o EXCEPT !.server = IF os = <<>> THEN 0 ELSE s] : o \in outcomes(s)}
  BY DEF MongocExecute
<1>2. PICK o \in outcomes(s) : m = [o EXCEPT !.server = IF os = <<>> THEN 0 ELSE s]
  BY <1>1
<1> HIDE DEF outcomes
<1>3. s \in Handles /\ (via = "manager" => s \in {0, Primary, h}) /\ (via = "handle" => s = 0)
  BY HandleFacts DEF Targets
<1>4. o = Refusal \/ o \in writes
  BY <1>2 DEF outcomes
<1>5. IsAnswer(o, os, duplicates)
  BY <1>4, AnswersAreAnswers, LossesAreAnswers, RefusalIsAnswer
<1>6. o.ok => s # 0 /\ os # <<>>
  <2>1. ASSUME s = 0 \/ os = <<>> PROVE o = Refusal
    BY <1>2, <2>1 DEF outcomes
  <2>. QED
    BY <2>1 DEF Refusal
<1>7. (IF os = <<>> THEN 0 ELSE s) \in Handles
  BY <1>3, HandleFacts
<1>. QED
  BY <1>2, <1>3, <1>5, <1>6, <1>7

-----------------------------------------------------------------------------
(* What an execution leaves in "last".                                     *)

(* All that is said of the last execution but what led it to its server.   *)
IsConcluded(r) ==
  /\ r \in Runs
  /\ r.outcome = "return" => r.done = DOMAIN r.added /\ r.added # <<>>
  /\ r.outcome = "exception" /\ r.used /\ r.reply.concern = "none" =>
       /\ r.result.made
       /\ r.result.errors = r.reply.errors
       /\ r.result.errors \cap r.done = {}
       /\ r.result.applied <= Cardinality(r.done)
  /\ r.result.made => r.result.hint = IF r.outcome = "return" THEN r.server ELSE 0

LEMMA ExecuteConcludes ==
  ASSUME NEW via \in {"manager", "server", "handle"}, NEW h \in Handles,
         NEW bs \in SUBSET Batches, NEW os \in Seq(Operations), NEW ord \in BOOLEAN,
         NEW duplicates, NEW used \in BOOLEAN,
         Execute(via, bs, h, os, ord, duplicates, used)
  PROVE  /\ IsConcluded(last')
         /\ last'.batch = bs /\ last'.added = os /\ last'.via = via
         /\ last'.done \subseteq DOMAIN os /\ last'.done \cap duplicates = {}
         /\ via = "manager" => last'.server \in {0, Primary, h}
<1> DEFINE Run(m) == [NoRun EXCEPT !.via = via, !.batch = bs, !.added = os,
                                   !.server = m.server, !.done = m.done,
                                   !.reply = m.reply, !.used = used]
<1>1. PICK m \in MongocExecute(via, h, os, ord, duplicates) : last' = Conclude(Run(m), m)
  BY DEF Execute
<1>2. PICK o : \E s \in Handles :
        /\ IsAnswer(o, os, duplicates)
        /\ m = [o EXCEPT !.server = s]
        /\ via = "manager" => s \in {0, Primary, h}
        /\ o.ok => s # 0 /\ os # <<>>
  BY ExecutionIsAnswered
<1>3. PICK s \in Handles :
        /\ IsAnswer(o, os, duplicates)
        /\ m = [o EXCEPT !.server = s]
        /\ via = "manager" => s \in {0, Primary, h}
        /\ o.ok => s # 0 /\ os # <<>>
  BY <1>2
<1>4. /\ m.ok \in BOOLEAN /\ m.server = s /\ m.done \in SUBSET DOMAIN os
      /\ m.reply \in Replies
      /\ m.done \cap duplicates = {}
      /\ m.reply.errors \cap m.done = {}
      /\ m.reply.applied <= Cardinality(m.done)
      /\ m.ok => m.done = DOMAIN os /\ s # 0 /\ os # <<>>
  BY <1>3 DEF IsAnswer
<1>5. PICK run : run = Run(m)
  OBVIOUS
<1>6. /\ run = [via |-> via, batch |-> bs, added |-> os, server |-> s, done |-> m.done,
                reply |-> m.reply, used |-> used, outcome |-> "-", result |-> NoResult]
  BY <1>4, <1>5 DEF NoRun
<1>7. PICK result : result = WriteResult(m.reply, ReturnedHint(m))
  OBVIOUS
<1>8. /\ result \in [hint : Handles, applied : Nat, errors : SUBSET Nat, made : BOOLEAN]
      /\ result.made /\ result.applied = m.reply.applied
      /\ result.hint = IF m.ok THEN s ELSE 0
      /\ m.reply.concern = "none" => result.errors = m.reply.errors
  BY <1>4, <1>7, HandleFacts DEF WriteResult, ReturnedHint, Replies
<1>9. NoResult \in [hint : Handles, applied : Nat, errors : SUBSET Nat, made : BOOLEAN]
      /\ ~NoResult.made
  BY HandleFacts DEF NoResult
<1>10. DOMAIN os \subseteq Nat
  BY LenProperties
<1>11. run \in Runs
  BY <1>4, <1>6, <1>9, <1>10 DEF Runs
<1>12. (ReturnedHint(m) = 0) <=> ~m.ok
  BY <1>4 DEF ReturnedHint
<1> HIDE DEF Run
<1>13. CASE used /\ InitCrashes(m.reply)
  <2>1. last' = [run EXCEPT !.outcome = "crash"]
    BY <1>1, <1>5, <1>6, <1>13 DEF Conclude
  <2>2. /\ last' \in Runs /\ last'.outcome = "crash" /\ ~last'.result.made
        /\ last'.batch = bs /\ last'.added = os /\ last'.via = via /\ last'.server = s
        /\ last'.done = m.done
    BY <1>6, <1>9, <1>11, <2>1 DEF Runs
  <2>. QED
    BY <1>3, <1>4, <2>2 DEF IsConcluded
<1>14. CASE ~(used /\ InitCrashes(m.reply))
  <2>1. PICK outcome : outcome = IF ReturnedHint(m) = 0 THEN "exception" ELSE "return"
    OBVIOUS
  <2>2. PICK got : got = IF run.used THEN result ELSE NoResult
    OBVIOUS
  <2>3. last' = [run EXCEPT !.outcome = outcome, !.result = got]
    <3>1. last' = Conclude(run, m) /\ run.used = used
      BY <1>1, <1>5, <1>6
    <3>. QED
      BY <1>7, <1>14, <2>1, <2>2, <3>1 DEF Conclude
  <2>4. /\ got \in [hint : Handles, applied : Nat, errors : SUBSET Nat, made : BOOLEAN]
        /\ got.made => used
        /\ used => got = result
    BY <1>6, <1>8, <1>9, <2>2
  <2>5. last' \in Runs
    BY <1>6, <1>11, <2>1, <2>3, <2>4 DEF Runs
  <2>6. /\ last'.outcome = outcome /\ last'.result = got /\ last'.used = used
        /\ last'.batch = bs /\ last'.added = os /\ last'.via = via /\ last'.server = s
        /\ last'.done = m.done /\ last'.reply = m.reply
    BY <1>6, <2>3
  <2>7. outcome = "return" => m.done = DOMAIN os /\ os # <<>>
    BY <1>4, <1>12, <2>1
  <2>8. outcome = "exception" /\ used /\ m.reply.concern = "none" =>
          /\ got.made /\ got.errors = m.reply.errors
          /\ got.errors \cap m.done = {}
          /\ got.applied <= Cardinality(m.done)
    BY <1>4, <1>8, <2>4
  <2>9. got.made => got.hint = IF outcome = "return" THEN s ELSE 0
    BY <1>8, <1>12, <2>1, <2>4
  <2>. QED
    BY <1>3, <1>4, <2>5, <2>6, <2>7, <2>8, <2>9 DEF IsConcluded
<1>. QED
  BY <1>13, <1>14

(* The properties of the last execution, said of "last".                   *)
LEMMA ConcludedIsSafe ==
  ASSUME IsConcluded(last)
  PROVE  NoExceptionMeansAllDone /\ PartialFailureIsReported /\ ResultNamesTheServer
  BY DEF IsConcluded, NoExceptionMeansAllDone, PartialFailureIsReported,
         ResultNamesTheServer

-----------------------------------------------------------------------------
(* Batches.                                                                *)

(* A batch with one operation more.                                        *)
LEMMA AppendFacts ==
  ASSUME NEW os \in Seq(Operations), NEW op \in Operations, NEW n \in Nat, n = Len(os)
  PROVE  /\ Append(os, op) \in Seq(Operations) /\ Len(Append(os, op)) = n + 1
         /\ DOMAIN Append(os, op) = 1..n + 1 /\ DOMAIN os = 1..n
         /\ \A k \in 1..n : Append(os, op)[k] = os[k]
         /\ Append(os, op)[n + 1] = op
  BY AppendProperties, LenProperties

-----------------------------------------------------------------------------
(* One lemma per action: the action preserves the invariant.               *)

LEMMA BatchFacts ==
  ASSUME TypeOK, NEW b \in Batches
  PROVE  /\ ops[b] \in Seq(Operations) /\ Len(ops[b]) \in Nat /\ DOMAIN ops[b] = 1..Len(ops[b])
         /\ Len(ops[b]) <= MaxOps /\ MaxOps \in Nat
         /\ hint[b] \in Handles /\ through[b] \in SUBSET Handles
         /\ copies[b] \in [1..MaxOps -> 0..MaxRuns]
         /\ ordered[b] \in BOOLEAN
         /\ runs \in Nat /\ MaxRuns \in Nat
<1>1. ops[b] \in Seq(Operations)
  BY DEF TypeOK
<1>. QED
  BY <1>1, LenProperties, BoundAssumption DEF TypeOK

LEMMA InitEstablishes == Init => IInv
<1> SUFFICES ASSUME Init PROVE IInv
  OBVIOUS
<1>1. IsConcluded(NoRun)
  <2>1. EmptyReply \in Replies
    BY DEF EmptyReply, Replies, Concerns
  <2>2. NoResult \in [hint : Handles, applied : Nat, errors : SUBSET Nat, made : BOOLEAN]
        /\ ~NoResult.made
    BY HandleFacts DEF NoResult
  <2>3. <<>> \in Seq(Operations)
    BY EmptySeq
  <2>4. NoRun \in Runs
    BY <2>1, <2>2, <2>3, HandleFacts DEF NoRun, Runs
  <2>. QED
    BY <2>2, <2>4 DEF IsConcluded, NoRun
<1>2. \A b \in Batches : /\ ops[b] = <<>> /\ hint[b] = 0
                         /\ copies[b] = [k \in 1..MaxOps |-> 0]
  BY DEF Init
<1>3. Len(<<>>) = 0 /\ <<>> \in Seq(Operations) /\ MaxOps \in Nat /\ MaxRuns \in Nat
  BY BoundAssumption, EmptySeq
<1>4. TypeOK
  BY <1>1, <1>2, <1>3, HandleFacts DEF Init, TypeOK, IsConcluded
<1>5. CopiesAreCounted
  BY <1>2 DEF Init, CopiesAreCounted
<1>6. InsertsKeepTheirIds /\ IdsAreStoredOnce
  BY <1>2, <1>3 DEF InsertsKeepTheirIds, IdsAreStoredOnce
<1>7. HintsCameThrough
  BY <1>2 DEF HintsCameThrough
<1>8. OnlyAHintLeadsAstray
  BY DEF Init, NoRun, OnlyAHintLeadsAstray
<1>9. LimitIsObeyed
  <2>1. ObeysLimit(<<>>)
    BY DEF ObeysLimit
  <2>. QED
    BY <1>2, <2>1 DEF Init, NoRun, LimitIsObeyed
<1>10. NoExceptionMeansAllDone /\ PartialFailureIsReported /\ ResultNamesTheServer
  BY <1>1, ConcludedIsSafe DEF Init
<1>. QED
  BY <1>4, <1>5, <1>6, <1>7, <1>8, <1>9, <1>10 DEF IInv

(* Adding an operation to a batch.                                         *)
LEMMA AddPreserves ==
  ASSUME IInv, NEW b \in Batches, NEW op \in Operations, Add(b, op),
         op.kind = "insert" => op.id = IdAdded(op.doc),
         op.kind # "insert" => ("limit" \in op.options <=> op.kind \in {"update_one", "remove_one"})
  PROVE  IInv'
<1>1. /\ TypeOK /\ Len(ops[b]) < MaxOps
      /\ ops' = [ops EXCEPT ![b] = Append(@, op)]
      /\ UNCHANGED <<ordered, hint, through, copies, last, runs>>
  BY DEF IInv, Add
<1>2. PICK os \in Seq(Operations) : os = ops[b]
  BY <1>1, BatchFacts
<1>3. PICK n \in Nat : n = Len(os)
  BY LenProperties
<1>4. PICK more : more = Append(os, op)
  OBVIOUS
<1>5. /\ more \in Seq(Operations) /\ Len(more) = n + 1
      /\ DOMAIN more = 1..n + 1 /\ DOMAIN os = 1..n
      /\ \A k \in 1..n : more[k] = os[k]
      /\ more[n + 1] = op
  BY <1>3, <1>4, AppendFacts
<1>6. ops' = [ops EXCEPT ![b] = more] /\ ops'[b] = more
      /\ \A c \in Batches : c # b => ops'[c] = ops[c]
  BY <1>1, <1>2, <1>4 DEF TypeOK
<1>7. n < MaxOps /\ MaxOps \in Nat /\ n + 1 \in 1..MaxOps
  BY <1>1, <1>2, <1>3, BatchFacts
<1>8. TypeOK'
  <2>1. ops' \in [Batches -> Seq(Operations)]
    BY <1>1, <1>5, <1>6 DEF TypeOK
  <2>2. \A c \in Batches : Len(ops'[c]) <= MaxOps
    BY <1>1, <1>5, <1>6, <1>7 DEF TypeOK
  <2>. QED
    BY <1>1, <2>1, <2>2 DEF TypeOK
<1>9. CopiesAreCounted'
  <2>1. ASSUME NEW c \in Batches, NEW k \in 1..MaxOps
        PROVE  copies[c][k] <= runs /\ (k > Len(ops'[c]) => copies[c][k] = 0)
    <3>1. copies[c][k] <= runs /\ (k > Len(ops[c]) => copies[c][k] = 0)
      BY DEF IInv, CopiesAreCounted
    <3>2. CASE c = b
      BY <1>2, <1>3, <1>5, <1>6, <3>1, <3>2
    <3>3. CASE c # b
      BY <1>6, <3>1, <3>3
    <3>. QED
      BY <3>2, <3>3
  <2>. QED
    BY <1>1, <2>1 DEF CopiesAreCounted
<1>10. InsertsKeepTheirIds'
  <2>1. ASSUME NEW c \in Batches, NEW k \in 1..Len(ops'[c]), ops'[c][k].kind = "insert"
        PROVE  ops'[c][k].id = IdAdded(ops'[c][k].doc)
    <3>1. CASE c # b
      BY <1>6, <2>1, <3>1 DEF IInv, InsertsKeepTheirIds
    <3>2. CASE c = b /\ k = n + 1
      BY <1>5, <1>6, <2>1, <3>2
    <3>3. CASE c = b /\ k # n + 1
      <4>1. k \in 1..n
        BY <1>5, <1>6, <3>3
      <4>. QED
        BY <1>2, <1>3, <1>5, <1>6, <2>1, <3>3, <4>1 DEF IInv, InsertsKeepTheirIds
    <3>. QED
      BY <3>1, <3>2, <3>3
  <2>. QED
    BY <2>1 DEF InsertsKeepTheirIds
<1>11. IdsAreStoredOnce'
  <2>1. ASSUME NEW c \in Batches, NEW k \in 1..Len(ops'[c]),
               ops'[c][k].kind = "insert", ops'[c][k].id # "server"
        PROVE  copies[c][k] <= 1
    <3>1. CASE c # b
      BY <1>6, <2>1, <3>1 DEF IInv, IdsAreStoredOnce
    <3>2. CASE c = b /\ k = n + 1
      <4>1. k > Len(ops[b]) /\ k \in 1..MaxOps
        BY <1>2, <1>3, <1>7, <3>2
      <4>2. copies[b][k] = 0
        BY <4>1 DEF IInv, CopiesAreCounted
      <4>. QED
        BY <3>2, <4>2
    <3>3. CASE c = b /\ k # n + 1
      <4>1. k \in 1..n
        BY <1>5, <1>6, <3>3
      <4>. QED
        BY <1>2, <1>3, <1>5, <1>6, <2>1, <3>3, <4>1 DEF IInv, IdsAreStoredOnce
    <3>. QED
      BY <3>1, <3>2, <3>3
  <2>. QED
    BY <1>1, <2>1 DEF IdsAreStoredOnce
<1>12. HintsCameThrough' /\ OnlyAHintLeadsAstray'
  BY <1>1 DEF IInv, HintsCameThrough, OnlyAHintLeadsAstray
<1>13. NoExceptionMeansAllDone' /\ PartialFailureIsReported' /\ ResultNamesTheServer'
  BY <1>1 DEF IInv, NoExceptionMeansAllDone, PartialFailureIsReported, ResultNamesTheServer
<1>14. LimitIsObeyed'
  <2>1. (\A c \in Batches : ObeysLimit(ops[c])) /\ ObeysLimit(last.added)
    BY DEF IInv, LimitIsObeyed
  <2>2. ObeysLimit(more)
    <3>1. ASSUME NEW k \in 1..n + 1, more[k].kind # "insert"
          PROVE  "limit" \in more[k].options <=> more[k].kind \in {"update_one", "remove_one"}
      <4>1. CASE k = n + 1
        BY <1>5, <3>1, <4>1
      <4>2. CASE k # n + 1
        <5>1. k \in 1..n
          BY <4>2
        <5>2. ObeysLimit(os)
          BY <1>2, <2>1
        <5>. QED
          BY <1>5, <3>1, <5>1, <5>2 DEF ObeysLimit
      <4>. QED
        BY <4>1, <4>2
    <3>. QED
      BY <1>5, <3>1 DEF ObeysLimit
  <2>3. \A c \in Batches : ObeysLimit(ops'[c])
    BY <1>6, <2>1, <2>2
  <2>. QED
    BY <1>1, <2>1, <2>3 DEF LimitIsObeyed
<1>. QED
  BY <1>8, <1>9, <1>10, <1>11, <1>12, <1>13, <1>14 DEF IInv

LEMMA FillPreserves ==
  ASSUME IInv, NEW b \in Batches, Fill(b)
  PROVE  IInv'
<1>1. ASSUME NEW doc \in Documents, Insert(b, doc) PROVE IInv'
  BY <1>1, OperationFacts, AddPreserves DEF Insert
<1>2. ASSUME NEW options \in Options, Update(b, options) PROVE IInv'
  <2>0. options \in UpdateOptions
    BY OptionAssumption
  <2>1. PICK op : op = BatchUpdate(options)
    OBVIOUS
  <2>2. /\ op \in Operations /\ op.kind # "insert"
        /\ "limit" \in op.options <=> op.kind \in {"update_one", "remove_one"}
    BY <2>0, <2>1, OperationFacts
  <2>. QED
    BY <1>2, <2>1, <2>2, AddPreserves DEF Update
<1>3. ASSUME NEW options \in DeleteOptions, Delete(b, options) PROVE IInv'
  <2>0. options \in UpdateOptions
    BY DEF DeleteOptions, UpdateOptions
  <2>1. PICK op : op = BatchDelete(options)
    OBVIOUS
  <2>2. /\ op \in Operations /\ op.kind # "insert"
        /\ "limit" \in op.options <=> op.kind \in {"update_one", "remove_one"}
    BY <2>0, <2>1, OperationFacts
  <2>. QED
    BY <1>3, <2>1, <2>2, AddPreserves DEF Delete
<1>. QED
  BY <1>1, <1>2, <1>3 DEF Fill

(* What was stored before is refused, and the rest is counted.             *)
LEMMA ExecuteBatchPreserves ==
  ASSUME IInv, NEW via \in {"manager", "server", "handle"}, NEW b \in Batches,
         NEW server_hint \in Handles, via # "handle" => server_hint = 0,
         NEW used \in BOOLEAN, ExecuteBatch(via, b, server_hint, used)
  PROVE  IInv'
<1>1. PICK h : h = IF server_hint # 0 THEN server_hint ELSE hint[b]
  OBVIOUS
<1>2. /\ TypeOK /\ runs < MaxRuns /\ runs' = runs + 1
      /\ hint' = [hint EXCEPT ![b] = h]
      /\ Execute(via, {b}, h, ops[b], ordered[b], Duplicates(b), used)
      /\ copies' = [copies EXCEPT ![b] = [k \in 1..MaxOps |->
                      IF k \in last'.done /\ ops[b][k].kind = "insert"
                      THEN copies[b][k] + 1 ELSE copies[b][k]]]
      /\ through' = [through EXCEPT ![b] =
                       IF via = "handle" THEN @ \cup {server_hint} ELSE @]
      /\ UNCHANGED <<ordered, ops>>
  BY <1>1 DEF ExecuteBatch, Begin, IInv
<1>3. h \in Handles
  BY <1>1, <1>2, BatchFacts
<1>4. /\ IsConcluded(last')
      /\ last'.batch = {b} /\ last'.added = ops[b] /\ last'.via = via
      /\ last'.done \subseteq DOMAIN ops[b] /\ last'.done \cap Duplicates(b) = {}
      /\ via = "manager" => last'.server \in {0, Primary, h}
  <2>1. PICK os \in Seq(Operations), ord \in BOOLEAN : os = ops[b] /\ ord = ordered[b]
    BY <1>2, BatchFacts
  <2>2. PICK duplicates : duplicates = Duplicates(b)
    OBVIOUS
  <2>3. PICK bs \in SUBSET Batches : bs = {b}
    OBVIOUS
  <2>4. Execute(via, bs, h, os, ord, duplicates, used)
    BY <1>2, <2>1, <2>2, <2>3
  <2>5. /\ IsConcluded(last')
        /\ last'.batch = bs /\ last'.added = os /\ last'.via = via
        /\ last'.done \subseteq DOMAIN os /\ last'.done \cap duplicates = {}
        /\ via = "manager" => last'.server \in {0, Primary, h}
    BY <1>3, <2>4, ExecuteConcludes
  <2>. QED
    BY <2>1, <2>2, <2>3, <2>5
<1>5. PICK done : done = last'.done
  OBVIOUS
<1>6. PICK row : row = [k \in 1..MaxOps |-> IF k \in done /\ ops[b][k].kind = "insert"
                                            THEN copies[b][k] + 1 ELSE copies[b][k]]
  OBVIOUS
<1>7. copies' = [copies EXCEPT ![b] = row]
  BY <1>2, <1>5, <1>6
<1>8. ASSUME NEW k \in 1..MaxOps
      PROVE  /\ copies[b][k] \in Nat /\ row[k] \in Nat
             /\ row[k] = IF k \in done /\ ops[b][k].kind = "insert"
                         THEN copies[b][k] + 1 ELSE copies[b][k]
             /\ row[k] <= runs + 1
             /\ k > Len(ops[b]) => row[k] = 0
  <2>1. copies[b][k] \in Nat
    <3>1. TypeOK
      BY <1>2
    <3>2. copies[b] \in [1..MaxOps -> 0..MaxRuns] /\ MaxRuns \in Nat
      BY <3>1, BatchFacts
    <3>3. copies[b][k] \in 0..MaxRuns
      BY <3>2
    <3>. QED
      BY <3>2, <3>3
  <2>2. copies[b][k] <= runs /\ (k > Len(ops[b]) => copies[b][k] = 0)
    BY DEF IInv, CopiesAreCounted
  <2>3. row[k] = IF k \in done /\ ops[b][k].kind = "insert"
                 THEN copies[b][k] + 1 ELSE copies[b][k]
    BY <1>6
  <2>4. k > Len(ops[b]) => k \notin done
    <3>1. done \subseteq DOMAIN ops[b]
      BY <1>4, <1>5
    <3>. QED
      BY <1>2, <3>1, BatchFacts
  <2>5. runs \in Nat
    BY <1>2, BatchFacts
  <2>. QED
    BY <2>1, <2>2, <2>3, <2>4, <2>5
<1>9. /\ copies'[b] = row
      /\ \A c \in Batches : c # b => copies'[c] = copies[c]
  BY <1>2, <1>7 DEF TypeOK
<1>10. TypeOK'
  <2>1. runs' \in 0..MaxRuns /\ runs + 1 <= MaxRuns /\ MaxRuns \in Nat /\ runs \in Nat
    BY <1>2, BatchFacts
  <2>2. row \in [1..MaxOps -> 0..MaxRuns]
    <3>1. \A k \in 1..MaxOps : row[k] \in 0..MaxRuns
      BY <1>8, <2>1
    <3>. QED
      BY <1>6, <3>1
  <2>3. copies' \in [Batches -> [1..MaxOps -> 0..MaxRuns]]
    BY <1>2, <1>7, <2>2 DEF TypeOK
  <2>4. hint' \in [Batches -> Handles] /\ through' \in [Batches -> SUBSET Handles]
    BY <1>2, <1>3 DEF TypeOK
  <2>. QED
    BY <1>2, <1>4, <2>1, <2>3, <2>4 DEF TypeOK, IsConcluded
<1>11. CopiesAreCounted'
  <2>1. ASSUME NEW c \in Batches, NEW k \in 1..MaxOps
        PROVE  copies'[c][k] <= runs + 1 /\ (k > Len(ops[c]) => copies'[c][k] = 0)
    <3>1. CASE c = b
      BY <1>8, <1>9, <3>1
    <3>2. CASE c # b
      <4>1. copies[c][k] \in Nat /\ runs \in Nat
        BY <1>2, BatchFacts
      <4>. QED
        BY <1>9, <3>2, <4>1 DEF IInv, CopiesAreCounted
    <3>. QED
      BY <3>1, <3>2
  <2>. QED
    BY <1>2, <2>1 DEF CopiesAreCounted
<1>12. InsertsKeepTheirIds'
  BY <1>2 DEF IInv, InsertsKeepTheirIds
<1>13. IdsAreStoredOnce'
  <2>1. ASSUME NEW c \in Batches, NEW k \in 1..Len(ops[c]),
               ops[c][k].kind = "insert", ops[c][k].id # "server"
        PROVE  copies'[c][k] <= 1
    <3>1. copies[c][k] <= 1
      BY <2>1 DEF IInv, IdsAreStoredOnce
    <3>2. CASE c # b
      BY <1>9, <3>1, <3>2
    <3>3. CASE c = b
      <4>1. k \in 1..MaxOps /\ k \in DOMAIN ops[b]
        BY <1>2, <3>3, BatchFacts
      <4>2. copies[b][k] > 0 => k \notin done
        BY <1>4, <1>5, <2>1, <3>3, <4>1 DEF Duplicates
      <4>3. copies[b][k] \in Nat
        BY <1>8, <4>1
      <4>4. row[k] <= 1
        BY <1>8, <3>1, <3>3, <4>1, <4>2, <4>3
      <4>. QED
        BY <1>9, <3>3, <4>4
    <3>. QED
      BY <3>2, <3>3
  <2>. QED
    BY <1>2, <2>1 DEF IdsAreStoredOnce
<1>14. HintsCameThrough'
  <2>1. ASSUME NEW c \in Batches
        PROVE  hint'[c] \in through'[c] \cup {0}
    <3>1. hint[c] \in through[c] \cup {0}
      BY DEF IInv, HintsCameThrough
    <3>2. CASE c # b
      BY <1>2, <3>1, <3>2 DEF TypeOK
    <3>3. CASE c = b /\ server_hint = 0
      BY <1>1, <1>2, <3>1, <3>3 DEF TypeOK
    <3>4. CASE c = b /\ server_hint # 0
      BY <1>1, <1>2, <3>4 DEF TypeOK
    <3>. QED
      BY <3>2, <3>3, <3>4
  <2>. QED
    BY <2>1 DEF HintsCameThrough
<1>15. NoExceptionMeansAllDone' /\ PartialFailureIsReported' /\ ResultNamesTheServer'
  BY <1>4
  DEF IsConcluded, NoExceptionMeansAllDone, PartialFailureIsReported, ResultNamesTheServer
<1>16. OnlyAHintLeadsAstray'
  <2>1. ASSUME via = "manager", last'.server \notin {0, Primary}
        PROVE  last'.server \in through'[b]
    <3>1. last'.server = hint[b] /\ hint[b] # 0
      BY <1>1, <1>4, <2>1
    <3>2. hint[b] \in through[b]
      BY <3>1 DEF IInv, HintsCameThrough
    <3>. QED
      BY <1>2, <2>1, <3>1, <3>2 DEF TypeOK
  <2>. QED
    BY <1>4, <2>1 DEF OnlyAHintLeadsAstray
<1>17. LimitIsObeyed'
  <2>1. \A c \in Batches : ObeysLimit(ops[c])
    BY DEF IInv, LimitIsObeyed
  <2>. QED
    BY <1>2, <1>4, <2>1 DEF LimitIsObeyed
<1>. QED
  BY <1>10, <1>11, <1>12, <1>13, <1>14, <1>15, <1>16, <1>17 DEF IInv

(* A step that touches no batch.                                           *)
LEMMA SparingTheBatchesPreserves ==
  ASSUME IInv, Begin, UNCHANGED <<ordered, ops, hint, through, copies>>,
         IsConcluded(last'), ObeysLimit(last'.added),
         last'.via = "manager" => last'.server \in {0, Primary}
  PROVE  IInv'
<1>1. TypeOK /\ runs' = runs + 1 /\ runs < MaxRuns
  BY DEF IInv, Begin
<1>2. runs \in Nat /\ MaxRuns \in Nat
  BY <1>1, BoundAssumption DEF TypeOK
<1>3. TypeOK'
  BY <1>1, <1>2 DEF TypeOK, IsConcluded
<1>4. CopiesAreCounted'
  <2>1. ASSUME NEW b \in Batches, NEW k \in 1..MaxOps
        PROVE  copies[b][k] <= runs + 1 /\ (k > Len(ops[b]) => copies[b][k] = 0)
    <3>1. copies[b][k] \in Nat
      BY <1>1, BatchFacts
    <3>. QED
      BY <1>2, <3>1 DEF IInv, CopiesAreCounted
  <2>. QED
    BY <1>1, <2>1 DEF CopiesAreCounted
<1>5. InsertsKeepTheirIds' /\ IdsAreStoredOnce' /\ HintsCameThrough'
  BY DEF IInv, InsertsKeepTheirIds, IdsAreStoredOnce, HintsCameThrough
<1>6. NoExceptionMeansAllDone' /\ PartialFailureIsReported' /\ ResultNamesTheServer'
  BY DEF IsConcluded, NoExceptionMeansAllDone, PartialFailureIsReported,
         ResultNamesTheServer
<1>7. OnlyAHintLeadsAstray'
  BY DEF OnlyAHintLeadsAstray
<1>8. LimitIsObeyed'
  <2>1. \A b \in Batches : ObeysLimit(ops[b])
    BY DEF IInv, LimitIsObeyed
  <2>. QED
    BY <2>1 DEF LimitIsObeyed
<1>. QED
  BY <1>3, <1>4, <1>5, <1>6, <1>7, <1>8 DEF IInv

(* What is known of a single operation once it is executed.                *)
LEMMA SingleConcludes ==
  ASSUME NEW op \in Operations, NEW used \in BOOLEAN,
         Execute("manager", {}, 0, <<op>>, TRUE, {}, used)
  PROVE  /\ IsConcluded(last')
         /\ last'.added = <<op>> /\ last'.via = "manager"
         /\ last'.server \in {0, Primary}
<1>1. <<op>> \in Seq(Operations)
  OBVIOUS
<1>2. 0 \in Handles /\ {} \in SUBSET Batches /\ TRUE \in BOOLEAN
  BY HandleFacts
<1>3. PICK os \in Seq(Operations), bs \in SUBSET Batches, h \in Handles, ord \in BOOLEAN,
           via \in {"manager", "server", "handle"} :
        os = <<op>> /\ bs = {} /\ h = 0 /\ ord = TRUE /\ via = "manager"
  BY <1>1, <1>2
<1>4. Execute(via, bs, h, os, ord, bs, used)
  BY <1>3
<1>5. /\ IsConcluded(last')
      /\ last'.batch = bs /\ last'.added = os /\ last'.via = via
      /\ last'.done \subseteq DOMAIN os /\ last'.done \cap bs = {}
      /\ via = "manager" => last'.server \in {0, Primary, h}
  BY <1>4, ExecuteConcludes
<1>. QED
  BY <1>3, <1>5

LEMMA ExecuteSinglePreserves ==
  ASSUME IInv, NEW op \in Operations, NEW used \in BOOLEAN, Begin, ExecuteSingle(op, used),
         op.kind # "insert" => ("limit" \in op.options <=> op.kind \in {"update_one", "remove_one"})
  PROVE  IInv'
<1>1. /\ Execute("manager", {}, 0, <<op>>, TRUE, {}, used)
      /\ UNCHANGED <<ordered, ops, hint, through, copies>>
  BY DEF ExecuteSingle
<1>2. <<op>> \in Seq(Operations) /\ DOMAIN <<op>> = {1} /\ <<op>>[1] = op
  OBVIOUS
<1>4. /\ IsConcluded(last')
      /\ last'.added = <<op>> /\ last'.via = "manager"
      /\ last'.server \in {0, Primary}
  BY <1>1, SingleConcludes
<1>5. ObeysLimit(<<op>>)
  BY <1>2 DEF ObeysLimit
<1>. QED
  BY <1>1, <1>4, <1>5, SparingTheBatchesPreserves

LEMMA ExecuteOnePreserves ==
  ASSUME IInv, ExecuteOne
  PROVE  IInv'
<1>1. ASSUME NEW used \in BOOLEAN, NEW doc \in Documents, ExecuteInsert(doc, used)
      PROVE  IInv'
  BY <1>1, OperationFacts, ExecuteSinglePreserves DEF ExecuteInsert
<1>2. ASSUME NEW used \in BOOLEAN, NEW options \in Options, ExecuteUpdate(options, used)
      PROVE  IInv'
  <2>0. options \in UpdateOptions
    BY OptionAssumption
  <2>1. PICK op : op = SingleUpdate(options)
    OBVIOUS
  <2>2. op \in Operations /\ ("limit" \in op.options <=> op.kind \in {"update_one", "remove_one"})
    BY <2>0, <2>1, OperationFacts
  <2>. QED
    BY <1>2, <2>1, <2>2, ExecuteSinglePreserves DEF ExecuteUpdate
<1>3. ASSUME NEW used \in BOOLEAN, NEW options \in DeleteOptions, ExecuteDelete(options, used)
      PROVE  IInv'
  <2>0. options \in UpdateOptions
    BY DEF DeleteOptions, UpdateOptions
  <2>1. PICK op : op = SingleDelete(options)
    OBVIOUS
  <2>2. op \in Operations /\ ("limit" \in op.options <=> op.kind \in {"update_one", "remove_one"})
    BY <2>0, <2>1, OperationFacts
  <2>. QED
    BY <1>3, <2>1, <2>2, ExecuteSinglePreserves DEF ExecuteDelete
<1>. QED
  BY <1>1, <1>2, <1>3 DEF ExecuteOne

LEMMA InvalidNamespacePreserves ==
  ASSUME IInv, InvalidNamespace
  PROVE  IInv'
<1>1. /\ Begin /\ UNCHANGED <<ordered, ops, hint, through, copies>>
      /\ last' = [NoRun EXCEPT !.outcome = "invalid"]
  BY DEF InvalidNamespace
<1>2. EmptyReply \in Replies
  BY DEF EmptyReply, Replies, Concerns
<1>3. NoResult \in [hint : Handles, applied : Nat, errors : SUBSET Nat, made : BOOLEAN]
      /\ ~NoResult.made
  BY HandleFacts DEF NoResult
<1>4. <<>> \in Seq(Operations)
  BY EmptySeq
<1>5. NoRun \in Runs
  BY <1>2, <1>3, <1>4, HandleFacts DEF NoRun, Runs
<1>6. /\ last' \in Runs /\ last'.outcome = "invalid" /\ ~last'.result.made
      /\ last'.added = <<>> /\ last'.via = "-"
  BY <1>1, <1>3, <1>5 DEF NoRun, Runs
<1>7. IsConcluded(last') /\ ObeysLimit(last'.added)
  BY <1>6 DEF IsConcluded, ObeysLimit
<1>. QED
  BY <1>1, <1>6, <1>7, SparingTheBatchesPreserves

LEMMA StepPreserves == IInv /\ [Next]_vars => IInv'
<1>1. SUFFICES ASSUME IInv, [Next]_vars PROVE IInv'
  OBVIOUS
<1>2. CASE UNCHANGED vars
  BY <1>1, <1>2
  DEF vars, IInv, TypeOK, CopiesAreCounted, InsertsKeepTheirIds, IdsAreStoredOnce,
      HintsCameThrough, NoExceptionMeansAllDone, PartialFailureIsReported,
      ResultNamesTheServer, OnlyAHintLeadsAstray, LimitIsObeyed, ObeysLimit
<1>3. ASSUME NEW b \in Batches, Fill(b) PROVE IInv'
  BY <1>1, <1>3, FillPreserves
<1>4. ASSUME NEW b \in Batches, ExecuteWriteBatch(b) PROVE IInv'
  BY <1>1, <1>4, HandleFacts, ExecuteBatchPreserves DEF ExecuteWriteBatch
<1>5. CASE ExecuteOne
  BY <1>1, <1>5, ExecuteOnePreserves
<1>6. CASE InvalidNamespace
  BY <1>1, <1>6, InvalidNamespacePreserves
<1>. QED
  BY <1>1, <1>2, <1>3, <1>4, <1>5, <1>6 DEF Next

(* The inductive invariant holds in every reachable state, whatever the    *)
(* batches, the servers and the bounds on executions.                      *)
THEOREM Invariance == Spec => []IInv
<1>1. Init => IInv
  BY InitEstablishes
<1>2. IInv /\ [Next]_vars => IInv'
  BY StepPreserves
<1>. QED
  BY <1>1, <1>2, PTL DEF Spec

-----------------------------------------------------------------------------
(* What follows from it.                                                   *)

(* Every variable has its type, in every reachable state.                  *)
THEOREM TypeCorrect == Spec => []TypeOK
<1>1. IInv => TypeOK
  BY DEF IInv
<1>. QED
  BY <1>1, Invariance, PTL

(* An execution that throws nothing has carried everything out.            *)
THEOREM SilenceIsSuccess == Spec => []NoExceptionMeansAllDone
<1>1. IInv => NoExceptionMeansAllDone
  BY DEF IInv
<1>. QED
  BY <1>1, Invariance, PTL

(* The exception of a partial failure reports it, and no more was claimed  *)
(* than was done.                                                          *)
THEOREM ExceptionsReport == Spec => []PartialFailureIsReported
<1>1. IInv => PartialFailureIsReported
  BY DEF IInv
<1>. QED
  BY <1>1, Invariance, PTL

(* A WriteResult names the server that executed the batch.                 *)
THEOREM ResultsNameTheirServer == Spec => []ResultNamesTheServer
<1>1. IInv => ResultNamesTheServer
  BY DEF IInv
<1>. QED
  BY <1>1, Invariance, PTL

(* Only the hint of a Server the batch was executed through can take a     *)
(* Manager's write away from the writeable server.                         *)
THEOREM ManagersWriteToThePrimary == Spec => []OnlyAHintLeadsAstray
<1>1. IInv => OnlyAHintLeadsAstray
  BY DEF IInv
<1>. QED
  BY <1>1, Invariance, PTL

(* However often and whichever way a batch is executed, and whatever was   *)
(* lost, a document with an _id of its own or of the driver's is stored at *)
(* most once.                                                              *)
THEOREM RetriesStoreOnce == Spec => []RetryStoresOnce
<1>1. ASSUME IInv PROVE RetryStoresOnce
  <2>1. ASSUME NEW b \in Batches, NEW k \in DOMAIN ops[b],
               ops[b][k].kind = "insert", ops[b][k].doc \in {"plain", "id"}
        PROVE  copies[b][k] <= 1
    <3>1. k \in 1..Len(ops[b])
      BY <1>1, BatchFacts DEF IInv
    <3>2. ops[b][k].id = IdAdded(ops[b][k].doc)
      BY <1>1, <2>1, <3>1 DEF IInv, InsertsKeepTheirIds
    <3>3. ops[b][k].id # "server"
      BY <2>1, <3>2 DEF IdAdded
    <3>. QED
      BY <1>1, <2>1, <3>1, <3>3 DEF IInv, IdsAreStoredOnce
  <2>. QED
    BY <2>1 DEF RetryStoresOnce
<1>. QED
  BY <1>1, Invariance, PTL

(* Two updates, or two deletes, that are made of the same options are of   *)
(* the same kind, in whatever batches or single operations they are.       *)
THEOREM SameOptionsSameKind == Spec => []OptionsMeanTheSame
<1>1. IInv => OptionsMeanTheSame
  <2>1. SUFFICES ASSUME IInv, NEW kinds \in {UpdateKinds, RemoveKinds},
                        NEW os \in {ops[b] : b \in Batches} \cup {last.added},
                        NEW qs \in {ops[b] : b \in Batches} \cup {last.added},
                        NEW k \in DOMAIN os, NEW j \in DOMAIN qs,
                        {os[k].kind, qs[j].kind} \subseteq kinds,
                        os[k].options = qs[j].options
                 PROVE  os[k].kind = qs[j].kind
    BY DEF OptionsMeanTheSame
  <2>2. ObeysLimit(os) /\ ObeysLimit(qs)
    BY <2>1 DEF IInv, LimitIsObeyed
  <2>3. os[k].kind # "insert" /\ qs[j].kind # "insert"
    BY <2>1 DEF UpdateKinds, RemoveKinds
  <2>4. os[k].kind \in {"update_one", "remove_one"} <=> qs[j].kind \in {"update_one", "remove_one"}
    BY <2>1, <2>2, <2>3 DEF ObeysLimit
  <2>5. CASE kinds = UpdateKinds
    BY <2>1, <2>4, <2>5 DEF UpdateKinds
  <2>6. CASE kinds = RemoveKinds
    BY <2>1, <2>4, <2>6 DEF RemoveKinds
  <2>. QED
    BY <2>5, <2>6
<1>. QED
  BY <1>1, Invariance, PTL

=============================================================================
