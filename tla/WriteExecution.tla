--------------------------- MODULE WriteExecution ---------------------------
(***************************************************************************)
(* Write batches and their execution (WriteBatch.c, Manager.c, Server.c    *)
(* and phongo_execute_write in php_phongo.c).                              *)
(*                                                                         *)
(* A script fills WriteBatch objects and executes them any number of times *)
(* and in any order: through its Manager, through a Server it constructed  *)
(* (which has a client of its own and no hint), or through a Server it got *)
(* from a result (which has the hint of the server the result came from,   *)
(* and no client).  It gets a WriteResult, a WriteException, or nothing if *)
(* it ignores the return value.                                            *)
(*                                                                         *)
(* The bulk operation behind a batch is libmongoc's, and it is modelled    *)
(* from its use here.  It keeps its operations and its hint from one       *)
(* execution to the next.  Executing it without a client or without        *)
(* operations fails.  Otherwise it goes to the hinted server, if any, else *)
(* to the writeable one; the server may refuse it, or the connection may   *)
(* fail after some of it was done.  A hint is the number of a server in    *)
(* the client's own list, so a constructed Server knows its one as 1.      *)
(***************************************************************************)
EXTENDS Integers, Sequences, FiniteSets

CONSTANTS
  Batches,    (* The WriteBatch objects of the script.                     *)
  Servers,    (* The numbers of the servers the Manager knows.             *)
  Primary,    (* The one of them that accepts writes.                      *)
  Documents,  (* Kinds of documents the script inserts: see DocumentKinds. *)
  Options,    (* The options it gives to updates: see UpdateOptions.       *)
  MaxOps,     (* Bound on the operations of a batch.                       *)
  MaxRuns     (* Bound on the executions.                                  *)

(* What zval_to_bson tells apart: "id" has a field _id, "prefix" has none  *)
(* but a field whose name starts with _id, "plain" has neither.            *)
DocumentKinds == {"id", "prefix", "plain"}

(* The options that are true in the array a script gives to an update or a *)
(* delete: "multi" is the one the documentation names for updates, "limit" *)
(* the one the code reads.  The others have no bearing on the kind.        *)
UpdateOptions == SUBSET {"limit", "multi"}

DeleteOptions == SUBSET {"limit"}

ASSUME DocumentAssumption == Documents \subseteq DocumentKinds

ASSUME OptionAssumption == Options \subseteq UpdateOptions

ASSUME ServerAssumption == Servers \subseteq Nat \ {0} /\ Primary \in Servers

ASSUME BoundAssumption == MaxOps \in Nat /\ MaxRuns \in Nat

VARIABLES
  ordered,  (* Whether a batch is ordered.                                 *)
  ops,      (* The operations in a batch's bulk operation.                 *)
  hint,     (* The hint in a batch's bulk operation; 0 is none.            *)
  through,  (* History: the hints of the Server objects a batch was        *)
            (* executed through.                                           *)
  copies,   (* How many documents an insert of a batch has stored.         *)
  last,     (* History: the last execution.                                *)
  runs      (* Number of executions.                                       *)

vars == <<ordered, ops, hint, through, copies, last, runs>>

(* The hints of the Server objects a script can get: those of the servers, *)
(* as any may have answered a query, 0 from the result of an exception     *)
(* (getServer, phongo_server_init), and 1 from the result of a constructed *)
(* Server, whose client knows one server.                                  *)
Handles == Servers \cup {0, 1}

(* Whose _id the document that is sent has: the script's, the driver's, or *)
(* none, in which case the server makes one.                               *)
Ids == {"own", "generated", "server"}

UpdateKinds == {"update", "update_one"}

RemoveKinds == {"remove", "remove_one"}

(* What the script asked for, and what is sent for it.                     *)
Operations ==
  [kind : {"insert"}, doc : DocumentKinds, id : Ids]
    \cup [kind : UpdateKinds \cup RemoveKinds, options : UpdateOptions]

Concerns == {"none", "decodable", "undecodable"}

(* The reply of an execution: operations it reports applied, operations it *)
(* reports as errors, and whether it lists write concern errors.           *)
Replies == [applied : Nat, errors : SUBSET Nat, concern : Concerns]

EmptyReply == [applied |-> 0, errors |-> {}, concern |-> "none"]

NoResult == [hint |-> 0, applied |-> 0, errors |-> {}, made |-> FALSE]

NoRun == [via     |-> "-",     (* through what the script executed it      *)
          batch   |-> {},      (* the batch, {} for a single operation     *)
          added   |-> <<>>,    (* the operations it should execute         *)
          server  |-> 0,       (* the server that executed it, 0 for none  *)
          done    |-> {},      (* the operations the server carried out    *)
          reply   |-> EmptyReply,
          used    |-> FALSE,   (* whether the script looks at the result   *)
          outcome |-> "-",     (* what the script got                      *)
          result  |-> NoResult]

Runs ==
  [via : {"-", "manager", "server", "handle"}, batch : SUBSET Batches,
   added : Seq(Operations), server : Handles, done : SUBSET Nat, reply : Replies,
   used : BOOLEAN, outcome : {"-", "invalid", "return", "exception", "crash"},
   result : [hint : Handles, applied : Nat, errors : SUBSET Nat, made : BOOLEAN]]

Init ==
  /\ ordered \in [Batches -> BOOLEAN]
  /\ ops = [b \in Batches |-> <<>>]
  /\ hint = [b \in Batches |-> 0]
  /\ through = [b \in Batches |-> {}]
  /\ copies = [b \in Batches |-> [k \in 1 .. MaxOps |-> 0]]
  /\ last = NoRun
  /\ runs = 0

Alive == last.outcome # "crash"

-----------------------------------------------------------------------------
(* The operations as they are sent.                                        *)

(* Defect: the flag PHONGO_BSON_ADD_ID is not passed on.                   *)
IdNotAdded(doc) == IF doc = "id" THEN "own" ELSE "server"

(* zval_to_bson with PHONGO_BSON_ADD_ID: any name that starts with _id     *)
(* keeps it from adding an _id ...                                         *)
IdAdded(doc) == CASE doc = "id"     -> "own"
                  [] doc = "prefix" -> "server"
                  [] doc = "plain"  -> "generated"

(* ... and without the flag.                                               *)
IdKept(doc) == IF doc = "id" THEN "own" ELSE "server"

BatchInsert(doc) == [kind |-> "insert", doc |-> doc, id |-> IdAdded(doc)]

SingleInsert(doc) == [kind |-> "insert", doc |-> doc, id |-> IdKept(doc)]

BatchUpdate(options) ==
  [kind |-> IF "limit" \in options THEN "update_one" ELSE "update", options |-> options]

(* executeUpdate turns limit into MONGOC_UPDATE_MULTI_UPDATE ...           *)
UpdateFlags(options) == IF "limit" \in options THEN {"MULTI_UPDATE"} ELSE {}

(* Defect: one of the two that mistake the flag is corrected alone.        *)
SingleUpdateHalfCorrected(options) ==
  [kind |-> IF "MULTI_UPDATE" \in UpdateFlags(options) THEN "update" ELSE "update_one",
   options |-> options]

(* ... and phongo_execute_single_update takes that flag for "one".         *)
SingleUpdate(options) ==
  [kind |-> IF "MULTI_UPDATE" \in UpdateFlags(options) THEN "update_one" ELSE "update",
   options |-> options]

BatchDelete(options) ==
  [kind |-> IF "limit" \in options THEN "remove_one" ELSE "remove", options |-> options]

DeleteFlags(options) == IF "limit" \in options THEN {"SINGLE_REMOVE"} ELSE {}

SingleDelete(options) ==
  [kind |-> IF "SINGLE_REMOVE" \in DeleteFlags(options) THEN "remove_one" ELSE "remove",
   options |-> options]

Add(b, op) ==
  /\ Len(ops[b]) < MaxOps
  /\ ops' = [ops EXCEPT ![b] = Append(@, op)]
  /\ UNCHANGED <<ordered, hint, through, copies, last, runs>>

(* WriteBatch::insert, update and delete.                                  *)
Insert(b, doc) == Alive /\ Add(b, BatchInsert(doc))

Update(b, options) == Alive /\ Add(b, BatchUpdate(options))

Delete(b, options) == Alive /\ Add(b, BatchDelete(options))

-----------------------------------------------------------------------------
(* mongoc_bulk_operation_execute (external): what the server carries out   *)
(* of the operations os and what the caller hears of it.                   *)

(* An ordered batch stops at its first error; an unordered one goes on.    *)
Answers(os, ord, duplicates) ==
  {[ok |-> a.ok, server |-> 0, done |-> a.done,
    reply |-> [applied |-> Cardinality(a.done), errors |-> a.errors,
               concern |-> a.concern]] :
     a \in {x \in [ok : BOOLEAN, done : SUBSET DOMAIN os,
                   errors : SUBSET DOMAIN os, concern : Concerns] :
              /\ x.done \cap duplicates = {}
              /\ x.done = IF ord
                          THEN {k \in DOMAIN os : \A e \in x.errors : k < e}
                          ELSE DOMAIN os \ x.errors
              /\ ord => Cardinality(x.errors) <= 1
              /\ x.ok => x.errors = {}
              /\ ~x.ok => x.errors # {} \/ x.concern # "none"}}

(* The connection fails: some of it may have been done and not reported.   *)
Losses(os, ord, duplicates) ==
  {[ok |-> FALSE, server |-> 0, done |-> l.done,
    reply |-> [EmptyReply EXCEPT !.applied = l.applied]] :
     l \in {x \in [done : SUBSET DOMAIN os, applied : 0 .. Len(os)] :
              /\ x.done \cap duplicates = {}
              /\ ord => \A k \in x.done : 1 .. k \subseteq x.done
              /\ x.applied <= Cardinality(x.done)}}

Refusal == [ok |-> FALSE, server |-> 0, done |-> {}, reply |-> EmptyReply]

(* The server the execution goes to, 0 if there is none to go to.          *)
Targets(via, h) ==
  CASE via = "manager" -> IF h = 0 THEN {Primary, 0} ELSE {h}
    [] via = "server"  -> IF h \in {0, 1} THEN {1, 0} ELSE {0}
    [] via = "handle"  -> {0}

MongocExecute(via, h, os, ord, duplicates) ==
  UNION {
    LET writes == Answers(os, ord, duplicates) \cup Losses(os, ord, duplicates)
        refused == s = 0 \/ os = <<>> \/ (via = "manager" /\ s # Primary)
        outcomes == IF refused THEN {Refusal}
                    ELSE IF via = "manager" THEN writes ELSE writes \cup {Refusal}
    IN {[o EXCEPT !.server = IF os = <<>> THEN 0 ELSE s] : o \in outcomes}
    : s \in Targets(via, h)}

-----------------------------------------------------------------------------
(* phongo_execute_write.                                                   *)

(* Defect: the result does not get the hint.                               *)
WriteResultNoHint(reply, h) ==
  [hint    |-> 0,
   applied |-> reply.applied,
   errors  |-> IF reply.concern = "none" THEN reply.errors ELSE {},
   made    |-> TRUE]

(* phongo_writeresult_init copies the counters and the write errors; if    *)
(* the reply lists write concern errors, writeErrors is then replaced by   *)
(* an empty array ...                                                      *)
WriteResult(reply, h) ==
  [hint    |-> h,
   applied |-> reply.applied,
   errors  |-> IF reply.concern = "none" THEN reply.errors ELSE {},
   made    |-> TRUE]

(* ... and each error that can be decoded is appended to                   *)
(* writeConcernErrors, which is still NULL.                                *)
InitCrashes(reply) == reply.concern = "decodable"

(* Defect: a failure is expected to be told by -1, as the stream does.     *)
ReturnedHintMinusOne(m) == IF m.ok THEN m.server ELSE -1

(* mongoc's return value is the hint of the server, or 0 for a failure.    *)
ReturnedHint(m) == IF m.ok THEN m.server ELSE 0

(* Defect: an unused return value is taken for success before the return   *)
(* value of mongoc is looked at.                                           *)
ConcludeUnusedFirst(run, m) ==
  LET result == WriteResult(m.reply, ReturnedHint(m))
      Got(outcome) == [run EXCEPT !.outcome = outcome,
                                  !.result = IF run.used THEN result ELSE NoResult]
  IN IF run.used /\ InitCrashes(m.reply)
     THEN [run EXCEPT !.outcome = "crash"]
     ELSE Got(IF run.used /\ ReturnedHint(m) = 0 THEN "exception" ELSE "return")

(* Defect: the exception does not get the result.                          *)
ConcludeBareException(run, m) ==
  IF ReturnedHint(m) = 0
  THEN [run EXCEPT !.outcome = "exception"]
  ELSE [run EXCEPT !.outcome = "return",
                   !.result = IF run.used
                              THEN WriteResult(m.reply, ReturnedHint(m))
                              ELSE NoResult]

(* A result is made only of a reply, and there is one only if it is used.  *)
Conclude(run, m) ==
  LET result == WriteResult(m.reply, ReturnedHint(m))
      Got(outcome) == [run EXCEPT !.outcome = outcome,
                                  !.result = IF run.used THEN result ELSE NoResult]
  IN IF run.used /\ InitCrashes(m.reply)
     THEN [run EXCEPT !.outcome = "crash"]
     ELSE Got(IF ReturnedHint(m) = 0 THEN "exception" ELSE "return")

Begin ==
  /\ Alive
  /\ runs < MaxRuns
  /\ runs' = runs + 1

Execute(via, bs, h, os, ord, duplicates, used) ==
  \E m \in MongocExecute(via, h, os, ord, duplicates) :
    last' = Conclude([NoRun EXCEPT !.via = via, !.batch = bs, !.added = os,
                                   !.server = m.server, !.done = m.done,
                                   !.reply = m.reply, !.used = used],
                     m)

(* A namespace without a dot is refused before the batch is touched.       *)
InvalidNamespace ==
  /\ Begin
  /\ last' = [NoRun EXCEPT !.outcome = "invalid"]
  /\ UNCHANGED <<ordered, ops, hint, through, copies>>

(* The server refuses a second document with the same _id.                 *)
Duplicates(b) ==
  {k \in DOMAIN ops[b] :
     /\ ops[b][k].kind = "insert"
     /\ ops[b][k].id # "server"
     /\ copies[b][k] > 0}

(* Defect: the batch keeps the number of the server that executed it.      *)
ExecuteBatchPins(via, b, server_hint, used) ==
  LET h == IF server_hint # 0 THEN server_hint ELSE hint[b] IN
  /\ Begin
  /\ Execute(via, {b}, h, ops[b], ordered[b], Duplicates(b), used)
  /\ hint' = [hint EXCEPT ![b] = IF last'.server # 0 THEN last'.server ELSE h]
  /\ through' = [through EXCEPT ![b] = IF via = "handle" THEN @ \cup {server_hint} ELSE @]
  /\ UNCHANGED <<ordered, ops, copies>>

(* A server hint goes into the batch; no hint leaves what is there.        *)
ExecuteBatch(via, b, server_hint, used) ==
  LET h == IF server_hint # 0 THEN server_hint ELSE hint[b] IN
  /\ Begin
  /\ hint' = [hint EXCEPT ![b] = h]
  /\ Execute(via, {b}, h, ops[b], ordered[b], Duplicates(b), used)
  /\ copies' = [copies EXCEPT ![b] = [k \in 1 .. MaxOps |->
                  IF k \in last'.done /\ ops[b][k].kind = "insert"
                  THEN @[k] + 1
                  ELSE @[k]]]
  /\ through' = [through EXCEPT ![b] = IF via = "handle" THEN @ \cup {server_hint} ELSE @]
  /\ UNCHANGED <<ordered, ops>>

(* phongo_execute_single_insert, _update and _delete: an ordered batch of  *)
(* its own with the one operation.                                         *)
ExecuteSingle(op, used) ==
  /\ Execute("manager", {}, 0, <<op>>, TRUE, {}, used)
  /\ UNCHANGED <<ordered, ops, hint, through, copies>>

(* Manager::executeInsert, executeUpdate and executeDelete.                *)
ExecuteInsert(doc, used) == Begin /\ ExecuteSingle(SingleInsert(doc), used)

ExecuteUpdate(options, used) == Begin /\ ExecuteSingle(SingleUpdate(options), used)

ExecuteDelete(options, used) == Begin /\ ExecuteSingle(SingleDelete(options), used)

-----------------------------------------------------------------------------

Fill(b) ==
  \/ \E doc \in Documents : Insert(b, doc)
  \/ \E options \in Options : Update(b, options)
  \/ \E options \in DeleteOptions : Delete(b, options)

(* Manager::executeWriteBatch, and Server::executeWriteBatch with the      *)
(* hint of the Server object.                                              *)
ExecuteWriteBatch(b) ==
  \E used \in BOOLEAN :
    \/ ExecuteBatch("manager", b, 0, used)
    \/ ExecuteBatch("server", b, 0, used)
    \/ \E h \in Handles : ExecuteBatch("handle", b, h, used)

ExecuteOne ==
  \E used \in BOOLEAN :
    \/ \E doc \in Documents : ExecuteInsert(doc, used)
    \/ \E options \in Options : ExecuteUpdate(options, used)
    \/ \E options \in DeleteOptions : ExecuteDelete(options, used)

Next ==
  \/ \E b \in Batches : Fill(b) \/ ExecuteWriteBatch(b)
  \/ ExecuteOne
  \/ InvalidNamespace

Spec == Init /\ [][Next]_vars

-----------------------------------------------------------------------------
(* Properties.                                                             *)

TypeOK ==
  /\ ordered \in [Batches -> BOOLEAN]
  /\ ops \in [Batches -> Seq(Operations)]
  /\ \A b \in Batches : Len(ops[b]) <= MaxOps
  /\ hint \in [Batches -> Handles]
  /\ through \in [Batches -> SUBSET Handles]
  /\ copies \in [Batches -> [1 .. MaxOps -> 0 .. MaxRuns]]
  /\ last \in Runs
  /\ runs \in 0 .. MaxRuns

(* If executing a batch or a single write throws nothing then the server   *)
(* has carried out every operation the script had added, whether the       *)
(* script looks at the result or not (phongo_execute_write).               *)
NoExceptionMeansAllDone ==
  last.outcome = "return" => last.done = DOMAIN last.added /\ last.added # <<>>

(* When only a part of a batch is carried out, the WriteException has a    *)
(* result that reports what the reply reported, and never more than was    *)
(* done, provided the script uses the return value and the reply lists no  *)
(* write concern error.                                                    *)
PartialFailureIsReported ==
  last.outcome = "exception" /\ last.used /\ last.reply.concern = "none" =>
    /\ last.result.made
    /\ last.result.errors = last.reply.errors
    /\ last.result.errors \cap last.done = {}
    /\ last.result.applied <= Cardinality(last.done)

(* The Server of a WriteResult is the one that executed the batch; the     *)
(* result of an exception names no server.                                 *)
ResultNamesTheServer ==
  last.result.made =>
    last.result.hint = IF last.outcome = "return" THEN last.server ELSE 0

(* A hint stays in a batch after the Server it came from has executed it.  *)
(* It is the only thing that can take a write away from the writeable      *)
(* server: without it, and for the single operations, a Manager's writes   *)
(* go to the writeable server or nowhere.                                  *)
OnlyAHintLeadsAstray ==
  last.via = "manager" /\ last.server \notin {0, Primary} =>
    \E b \in last.batch : last.server \in through[b]

(* The _id of a document without one is generated when it is added to the  *)
(* batch, not when the batch is executed: so a batch that is executed      *)
(* again after a lost reply or an error stores the document at most once,  *)
(* like a document that came with an _id.                                  *)
RetryStoresOnce ==
  \A b \in Batches : \A k \in DOMAIN ops[b] :
    ops[b][k].kind = "insert" /\ ops[b][k].doc \in {"plain", "id"} => copies[b][k] <= 1

(* The same options ask for the same, in a batch or in a single operation  *)
(* of the Manager: whichever two updates, or two deletes, a script makes   *)
(* of one array of options, both may change many documents or both one.    *)
(* The Manager's go through mongoc's flags, with two mistakes in the way   *)
(* (Manager::executeUpdate, phongo_execute_single_update).                 *)
OptionsMeanTheSame ==
  \A kinds \in {UpdateKinds, RemoveKinds} :
    \A os, qs \in {ops[b] : b \in Batches} \cup {last.added} :
      \A k \in DOMAIN os, j \in DOMAIN qs :
        {os[k].kind, qs[j].kind} \subseteq kinds /\ os[k].options = qs[j].options =>
          os[k].kind = qs[j].kind

(* What docs/api/MongoDB/Manager.php says of executeWriteBatch: it selects *)
(* a writeable server.                                                     *)
SelectsWriteableServer == last.via = "manager" => last.server \in {0, Primary}

(* What docs/api/MongoDB/Manager.php says of a failed write: the result in *)
(* the WriteException may have write errors and write concern errors.      *)
(* The script then gets that result, with the write errors in it.          *)
WriteConcernErrorsAreDelivered ==
  last.used /\ last.reply.concern # "none" =>
    last.result.made /\ last.result.errors = last.reply.errors

(* What docs/api/MongoDB/WriteBatch.php and Manager.php say of updates:    *)
(* the option multi is false by default, and without it an update changes  *)
(* one document.                                                           *)
UpdatesOneUnlessMulti ==
  \A os \in {ops[b] : b \in Batches} \cup {last.added} : \A k \in DOMAIN os :
    os[k].kind = "update" => "multi" \in os[k].options

(* What docs/api/MongoDB/WriteException.php says of getWriteResult: it     *)
(* returns the WriteResult of the failed write.                            *)
ExceptionCarriesResult == last.outcome = "exception" => last.result.made

=============================================================================
