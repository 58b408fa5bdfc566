--------------------------- MODULE ResultIteration ---------------------------
(***************************************************************************)
(* Query and command results and the foreach loops over them               *)
(* (php_phongo.c, QueryResult.c, CommandResult.c).                         *)
(*                                                                         *)
(* Executing a query opens a mongoc cursor, takes its first document and   *)
(* keeps a pointer to it, firstBatch, in the result object.  Every foreach *)
(* loop over the result gets an iterator of its own, but all of them share *)
(* the result's one cursor and its one firstBatch pointer.  PHP can have   *)
(* several loops over one result at a time: nested ones, and ones in       *)
(* generators, which advance in any order.                                 *)
(*                                                                         *)
(* The mongoc cursor is external.  It is modelled from its use here: next  *)
(* hands out the documents in the server's order, one each, until there    *)
(* are none or a getMore fails; a document it handed out stays in memory   *)
(* only until the following call.  A read through firstBatch after that    *)
(* finds whatever is there.  Without a document it leaves NULL in the      *)
(* caller's pointer, which is what phongo_execute_command relies on.       *)
(***************************************************************************)
EXTENDS Integers, Sequences

CONSTANTS
  Results,  (* The results a script creates.                               *)
  Loops,    (* The foreach loops a script runs, each once.                 *)
  MaxDocs   (* Bound on the documents of a result.                         *)

ASSUME MaxDocsAssumption == MaxDocs \in Nat

VARIABLES
  size,       (* Documents the server has for the result.                  *)
  cursor,     (* The state of the mongoc cursor.                           *)
  taken,      (* Documents mongoc_cursor_next has handed out.              *)
  object,     (* The PHP result object.                                    *)
  refs,       (* Its reference count.                                      *)
  variable,   (* Whether the script still holds the result.                *)
  firstBatch, (* What the result's pointer to the first document is worth. *)
  phase,      (* Where a loop is.                                          *)
  over,       (* The result a loop iterates.                               *)
  current,    (* The document its iterator holds.                          *)
  shown       (* History: the documents the loops over a result were       *)
              (* given, in order, with the loop and the call they came by. *)

vars == <<size, cursor, taken, object, refs, variable, firstBatch, phase, over,
          current, shown>>

Docs == 1 .. MaxDocs

None == 0              \* no document
Garbage == MaxDocs + 1 \* what a stale pointer may yield

CursorStates == {"none", "open", "exhausted", "failed"}

(* "none" NULL, the query found nothing.  "valid" the document is there.   *)
(* "stale" mongoc_cursor_next has been called since.                       *)
FirstBatchStates == {"none", "valid", "stale"}

(* "new": the loop has not run.  "reset": it has its iterator.  "body": it *)
(* has a document.  "end": its iterator ran out.  "done": left.            *)
Phases == {"new", "reset", "body", "end", "done"}

Running(i) == phase[i] \in {"reset", "body", "end"}

LoopsOver(r) == {i \in Loops : Running(i) /\ over[i] = r}

Init ==
  /\ size \in [Results -> 0 .. MaxDocs]
  /\ cursor = [r \in Results |-> "none"]
  /\ taken = [r \in Results |-> 0]
  /\ object = [r \in Results |-> "none"]
  /\ refs = [r \in Results |-> 0]
  /\ variable = [r \in Results |-> FALSE]
  /\ firstBatch = [r \in Results |-> "none"]
  /\ phase = [i \in Loops |-> "new"]
  /\ over \in [Loops -> Results]
  /\ current = [i \in Loops |-> None]
  /\ shown = [r \in Results |-> <<>>]

-----------------------------------------------------------------------------
(* mongoc_cursor_next: the three ways a call ends.  A call on a cursor     *)
(* that is exhausted or failed returns no document again.                  *)

NextYields(r) ==
  /\ cursor[r] \in {"none", "open"}
  /\ taken[r] < size[r]
  /\ taken' = [taken EXCEPT ![r] = @ + 1]
  /\ cursor' = [cursor EXCEPT ![r] = "open"]

NextEnds(r) ==
  /\ cursor[r] \in {"none", "open", "exhausted"}
  /\ taken[r] = size[r]
  /\ cursor' = [cursor EXCEPT ![r] = "exhausted"]
  /\ UNCHANGED taken

NextFails(r) ==
  /\ cursor[r] # "exhausted"
  /\ cursor' = [cursor EXCEPT ![r] = "failed"]
  /\ UNCHANGED taken

-----------------------------------------------------------------------------
(* Executing a query or a command, and the result object.                  *)

(* Defect: the document pointer is not NULL when there is no document.     *)
ResultInitKeepsPointer(r, doc) ==
  /\ object' = [object EXCEPT ![r] = "live"]
  /\ refs' = [refs EXCEPT ![r] = 1]
  /\ variable' = [variable EXCEPT ![r] = TRUE]
  /\ firstBatch' = [firstBatch EXCEPT ![r] = "valid"]

(* Defect: the document is not stored.                                     *)
ResultInitForgets(r, doc) ==
  /\ object' = [object EXCEPT ![r] = "live"]
  /\ refs' = [refs EXCEPT ![r] = 1]
  /\ variable' = [variable EXCEPT ![r] = TRUE]
  /\ firstBatch' = [firstBatch EXCEPT ![r] = "none"]

(* Defect: the document is destroyed as soon as the result has it, the way *)
(* phongo_execute_write destroys the reply.                                *)
ResultInitDestroys(r, doc) ==
  /\ object' = [object EXCEPT ![r] = "live"]
  /\ refs' = [refs EXCEPT ![r] = 1]
  /\ variable' = [variable EXCEPT ![r] = TRUE]
  /\ firstBatch' = [firstBatch EXCEPT ![r] = IF doc = "none" THEN doc ELSE "stale"]

(* phongo_result_init: the result gets the cursor and the document.        *)
ResultInit(r, doc) ==
  /\ object' = [object EXCEPT ![r] = "live"]
  /\ refs' = [refs EXCEPT ![r] = 1]
  /\ variable' = [variable EXCEPT ![r] = TRUE]
  /\ firstBatch' = [firstBatch EXCEPT ![r] = doc]

(* What the pointer to the first document is worth before the cursor is    *)
(* asked: phongo_execute_query sets it to NULL, phongo_execute_command     *)
(* does not initialise it.                                                 *)
Pointers == [query |-> "none", command |-> "stale"]

(* mongoc_cursor_next sets the pointer to NULL before it looks for a       *)
(* document, whatever it was.                                              *)
PointerAtEnd(pointer) == "none"

(* phongo_execute_query or phongo_execute_command, its result used.        *)
Execute(r) ==
  /\ cursor[r] = "none"
  /\ \/ NextYields(r) /\ ResultInit(r, "valid")
     \/ \E kind \in DOMAIN Pointers : NextEnds(r) /\ ResultInit(r, PointerAtEnd(Pointers[kind]))
  /\ UNCHANGED <<size, phase, over, current, shown>>

(* mongoc_cursor_error: an exception is thrown and there is no result.     *)
ExecuteThrows(r) ==
  /\ cursor[r] = "none"
  /\ NextFails(r)
  /\ UNCHANGED <<size, object, refs, variable, firstBatch, phase, over,
                 current, shown>>

(* A script that ignores the return value gets no result.                  *)
ExecuteIgnored(r) ==
  /\ cursor[r] = "none"
  /\ NextYields(r) \/ NextEnds(r)
  /\ UNCHANGED <<size, object, refs, variable, firstBatch, phase, over,
                 current, shown>>

Release(r) ==
  /\ refs' = [refs EXCEPT ![r] = @ - 1]
  /\ object' = [object EXCEPT ![r] = IF refs[r] = 1 THEN "freed" ELSE @]

(* The script lets go of the result: the variable is unset, or a temporary *)
(* once foreach has its iterator.                                          *)
DropVariable(r) ==
  /\ variable[r]
  /\ variable' = [variable EXCEPT ![r] = FALSE]
  /\ Release(r)
  /\ UNCHANGED <<size, cursor, taken, firstBatch, phase, over, current, shown>>

-----------------------------------------------------------------------------
(* The iterator functions, in the order foreach calls them.                *)

(* Defect: an iterator that has run out stays valid.                       *)
ValidAlways(i, doc) ==
  phase' = [phase EXCEPT ![i] = IF doc # None \/ @ = "body" THEN "body" ELSE "end"]

(* phongo_cursor_it_valid decides whether the loop has a document.         *)
Valid(i, doc) ==
  phase' = [phase EXCEPT ![i] = IF doc # None THEN "body" ELSE "end"]

Show(i, doc, call) ==
  shown' = [shown EXCEPT ![over[i]] =
              IF doc = None THEN @
              ELSE Append(@, [loop |-> i, doc |-> doc, by |-> call])]

(* Defect: the iterator takes no reference.                                *)
GetIteratorNoReference(i, r) ==
  /\ phase[i] = "new"
  /\ variable[r]
  /\ phase' = [phase EXCEPT ![i] = "reset"]
  /\ over' = [over EXCEPT ![i] = r]
  /\ UNCHANGED <<size, cursor, taken, object, refs, variable, firstBatch,
                 current, shown>>

(* phongo_result_get_iterator: the iterator takes a reference.             *)
GetIterator(i, r) ==
  /\ phase[i] = "new"
  /\ variable[r]
  /\ phase' = [phase EXCEPT ![i] = "reset"]
  /\ over' = [over EXCEPT ![i] = r]
  /\ refs' = [refs EXCEPT ![r] = @ + 1]
  /\ UNCHANGED <<size, cursor, taken, object, variable, firstBatch, current,
                 shown>>

(* What a read through firstBatch yields: NULL is not read.                *)
FirstBatchReads(r) ==
  CASE firstBatch[r] = "none"  -> {None}
    [] firstBatch[r] = "valid" -> {1}
    [] firstBatch[r] = "stale" -> 1 .. taken[r] \cup {Garbage}

(* phongo_cursor_it_rewind.                                                *)
Rewind(i) ==
  /\ phase[i] = "reset"
  /\ \E doc \in FirstBatchReads(over[i]) :
       /\ current' = [current EXCEPT ![i] = doc]
       /\ Valid(i, doc)
       /\ Show(i, doc, "rewind")
  /\ UNCHANGED <<size, cursor, taken, object, refs, variable, firstBatch, over>>

Advance(i, doc) ==
  /\ current' = [current EXCEPT ![i] = doc]
  /\ Valid(i, doc)
  /\ Show(i, doc, "next")

(* Any call of mongoc_cursor_next ends the life of the document before.    *)
Outdate(r) ==
  firstBatch' = [firstBatch EXCEPT ![r] = IF @ = "none" THEN @ ELSE "stale"]

(* Defect: an iterator counts its own documents.                           *)
MoveForwardOwnPosition(i) ==
  LET r == over[i] IN
  /\ phase[i] = "body"
  /\ \/ NextYields(r) /\ Advance(i, current[i] + 1)
     \/ NextEnds(r) /\ Advance(i, None)
     \/ NextFails(r) /\ Advance(i, None)
  /\ Outdate(r)
  /\ UNCHANGED <<size, object, refs, variable, over>>

(* phongo_cursor_it_move_forward: a failed getMore ends the loop like the  *)
(* end of the documents does.                                              *)
MoveForward(i) ==
  LET r == over[i] IN
  /\ phase[i] = "body"
  /\ \/ NextYields(r) /\ Advance(i, taken[r] + 1)
     \/ NextEnds(r) /\ Advance(i, None)
     \/ NextFails(r) /\ Advance(i, None)
  /\ Outdate(r)
  /\ UNCHANGED <<size, object, refs, variable, over>>

(* Defect: the reference is not given back.                                *)
DestroyKeepsReference(i) ==
  /\ phase[i] \in {"body", "end"}
  /\ phase' = [phase EXCEPT ![i] = "done"]
  /\ current' = [current EXCEPT ![i] = None]
  /\ UNCHANGED <<size, cursor, taken, object, refs, variable, firstBatch, over,
                 shown>>

(* Defect: the reference is given back twice.                              *)
DestroyReleasesTwice(i) ==
  /\ phase[i] \in {"body", "end"}
  /\ phase' = [phase EXCEPT ![i] = "done"]
  /\ current' = [current EXCEPT ![i] = None]
  /\ refs' = [refs EXCEPT ![over[i]] = @ - 2]
  /\ object' = [object EXCEPT ![over[i]] = IF refs[over[i]] <= 2 THEN "freed" ELSE @]
  /\ UNCHANGED <<size, cursor, taken, variable, firstBatch, over, shown>>

(* phongo_cursor_it_dtor, when the loop ends or its body breaks out.       *)
Destroy(i) ==
  /\ phase[i] \in {"body", "end"}
  /\ phase' = [phase EXCEPT ![i] = "done"]
  /\ current' = [current EXCEPT ![i] = None]
  /\ Release(over[i])
  /\ UNCHANGED <<size, cursor, taken, variable, firstBatch, over, shown>>

-----------------------------------------------------------------------------

Script ==
  \/ \E r \in Results :
       Execute(r) \/ ExecuteThrows(r) \/ ExecuteIgnored(r) \/ DropVariable(r)
  \/ \E i \in Loops, r \in Results : GetIterator(i, r)

LoopStep(i) == Rewind(i) \/ MoveForward(i) \/ Destroy(i)

Next == Script \/ \E i \in Loops : LoopStep(i)

Spec == Init /\ [][Next]_vars

(* A loop, once entered, goes on: PHP runs its body and comes back.  It    *)
(* need not break out of it.                                               *)
Continue(i) == Rewind(i) \/ MoveForward(i) \/ (phase[i] = "end" /\ Destroy(i))

FairSpec == Spec /\ \A i \in Loops : WF_vars(Continue(i))

-----------------------------------------------------------------------------
(* Properties.                                                             *)

Entry == [loop : Loops, doc : Docs \cup {Garbage}, by : {"rewind", "next"}]

TypeOK ==
  /\ size \in [Results -> 0 .. MaxDocs]
  /\ cursor \in [Results -> CursorStates]
  /\ taken \in [Results -> 0 .. MaxDocs]
  /\ \A r \in Results : taken[r] <= size[r]
  /\ object \in [Results -> {"none", "live", "freed"}]
  /\ refs \in [Results -> Nat]
  /\ variable \in [Results -> BOOLEAN]
  /\ firstBatch \in [Results -> FirstBatchStates]
  /\ phase \in [Loops -> Phases]
  /\ over \in [Loops -> Results]
  /\ current \in [Loops -> Docs \cup {None, Garbage}]
  /\ shown \in [Results -> Seq(Entry)]

(* No iterator outlives the result it points into: the reference that      *)
(* phongo_result_get_iterator takes and phongo_cursor_it_dtor gives back   *)
(* keeps the result alive, also when the script has dropped it (foreach    *)
(* over a temporary) and with any number of loops, left in any order.      *)
ResultOutlivesItsLoops ==
  \A i \in Loops : Running(i) => object[over[i]] = "live"

(* ... and the last of them to go frees it.                                *)
FreedWithItsLastUser ==
  \A r \in Results :
    object[r] = "live" => variable[r] \/ LoopsOver(r) # {}

IsShown(r, d) == \E k \in DOMAIN shown[r] : shown[r][k].doc = d

(* phongo_execute_query takes the first document off the cursor before any *)
(* loop runs and every move_forward takes one: none of them is lost.  Each *)
(* document taken has been given to some loop, or it is the first one and  *)
(* firstBatch still has it for the loop to come.                           *)
NothingLost ==
  \A r \in Results : object[r] # "none" =>
    \A d \in 1 .. taken[r] :
      IsShown(r, d) \/ (d = 1 /\ firstBatch[r] = "valid")

(* However the loops over one result interleave, a document reaches at     *)
(* most one of them by next, and they come in the server's order.          *)
NextGivesEachDocumentOnce ==
  \A r \in Results : \A j, k \in DOMAIN shown[r] :
    /\ j < k
    /\ shown[r][j].by = "next"
    /\ shown[r][k].by = "next"
    => shown[r][j].doc < shown[r][k].doc

(* A loop that has its result to itself and comes to its end without an    *)
(* error has been given every document, in order, the first one included.  *)
SoleLoopSeesEverything ==
  \A i \in Loops :
    LET r == over[i] IN
    /\ phase[i] = "end"
    /\ cursor[r] = "exhausted"
    /\ \A k \in DOMAIN shown[r] : shown[r][k].loop = i
    => [k \in DOMAIN shown[r] |-> shown[r][k].doc] = [k \in 1 .. size[r] |-> k]

(* The stale pointer is harmless as long as no loop has moved on: every    *)
(* loop entered before that starts at the first document.                  *)
EarlyLoopsStartAtTheFirst ==
  \A r \in Results : \A k \in DOMAIN shown[r] :
    \/ shown[r][k].by = "next"
    \/ shown[r][k].doc = 1
    \/ taken[r] > 1
    \/ cursor[r] \in {"exhausted", "failed"}

(* Every foreach loop ends, nested ones over the same result included.     *)
LoopsEnd == \A i \in Loops : Running(i) ~> phase[i] = "done"

(* What docs/api/MongoDB/Cursor.php says of next(): it throws a            *)
(* RuntimeException when a getMore fails.  A loop that comes to its end    *)
(* without one has then iterated a cursor that did not fail.               *)
EndMeansNoError ==
  \A i \in Loops : phase[i] = "end" => cursor[over[i]] # "failed"

=============================================================================
