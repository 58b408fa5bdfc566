------------------------ MODULE ResultIterationProofs ------------------------
(***************************************************************************)
(* Proofs about ResultIteration: for any number of results, of loops over  *)
(* them and of documents, and for every order in which the loops advance.  *)
(***************************************************************************)
EXTENDS ResultIteration, FiniteSetTheorems, SequenceTheorems, TLAPS

-----------------------------------------------------------------------------
(* The inductive invariant, in named parts.                                *)

(* The users of a result: the script's variable and the running loops.     *)
Users(r) == (IF variable[r] THEN 1 ELSE 0) + Cardinality(LoopsOver(r))

(* The reference count counts them, and the object lives while it has one. *)
CountsItsUsers ==
  \A r \in Results :
    /\ IsFiniteSet(LoopsOver(r))
    /\ refs[r] = Users(r)
    /\ object[r] = "live" <=> refs[r] > 0

(* How far the cursor is, from what it last returned.                      *)
CursorIsInStep ==
  \A r \in Results :
    /\ cursor[r] = "none" => object[r] = "none" /\ taken[r] = 0
    /\ cursor[r] = "open" => taken[r] > 0
    /\ cursor[r] = "exhausted" => taken[r] = size[r]
    /\ object[r] = "none" => shown[r] = <<>>

(* What firstBatch says of the documents taken and shown.                  *)
BatchIsInStep ==
  \A r \in Results :
    /\ object[r] = "none" => firstBatch[r] = "none"
    /\ firstBatch[r] = "valid" => taken[r] = 1
    /\ firstBatch[r] = "none" /\ object[r] # "none" =>
         taken[r] = 0 /\ shown[r] = <<>>
    /\ firstBatch[r] = "stale" =>
         /\ IsShown(r, 1)
         /\ taken[r] > 1 \/ cursor[r] \in {"exhausted", "failed"}

(* A loop in its body has started, so the first document has been shown.   *)
BodiesComeAfterTheFirst ==
  \A i \in Loops : phase[i] = "body" => IsShown(over[i], 1)

(* What next showed was taken; what a loop was shown, it has asked for.    *)
ShownWasTaken ==
  \A r \in Results : \A k \in DOMAIN shown[r] :
    /\ shown[r][k].by = "next" => shown[r][k].doc <= taken[r]
    /\ phase[shown[r][k].loop] \notin {"new", "reset"}

(* A loop that alone was shown documents was shown all that were taken.    *)
SoleLoopIsInStep ==
  \A i \in Loops :
    /\ phase[i] \in {"body", "end"}
    /\ \A k \in DOMAIN shown[over[i]] : shown[over[i]][k].loop = i
    => /\ Len(shown[over[i]]) = taken[over[i]]
       /\ \A k \in DOMAIN shown[over[i]] : shown[over[i]][k].doc = k

IInv ==
  /\ TypeOK
  /\ CountsItsUsers
  /\ CursorIsInStep
  /\ BatchIsInStep
  /\ BodiesComeAfterTheFirst
  /\ ShownWasTaken
  /\ SoleLoopIsInStep
  /\ NothingLost
  /\ NextGivesEachDocumentOnce
  /\ EarlyLoopsStartAtTheFirst

-----------------------------------------------------------------------------
(* Lemmas about the operators.                                             *)

(* What Append does to a sequence of entries.                              *)
LEMMA AppendEntry ==
  ASSUME NEW s \in Seq(Entry), NEW e \in Entry
  PROVE  /\ Append(s, e) \in Seq(Entry)
         /\ Len(s) \in Nat
         /\ DOMAIN s = 1 .. Len(s)
         /\ Len(Append(s, e)) = Len(s) + 1
         /\ DOMAIN Append(s, e) = 1 .. Len(s) + 1
         /\ \A k \in 1 .. Len(s) : Append(s, e)[k] = s[k]
         /\ Append(s, e)[Len(s) + 1] = e
  OBVIOUS

(* What loops were shown, entry by entry.                                  *)
LEMMA ShownEntries ==
  ASSUME TypeOK, NEW r \in Results
  PROVE  /\ Len(shown[r]) \in Nat
         /\ DOMAIN shown[r] = 1 .. Len(shown[r])
         /\ \A k \in DOMAIN shown[r] :
              /\ shown[r][k] \in Entry
              /\ shown[r][k].loop \in Loops
              /\ shown[r][k].by \in {"rewind", "next"}
<1>1. shown[r] \in Seq(Entry)
  BY DEF TypeOK
<1>2. \A k \in DOMAIN shown[r] : shown[r][k] \in Entry
  BY <1>1
<1>. QED
  BY <1>1, <1>2 DEF Entry

(* What the read through firstBatch yields is a document or none.          *)
LEMMA FirstBatchReadsType ==
  ASSUME TypeOK, BatchIsInStep, NEW r \in Results, NEW doc \in FirstBatchReads(r)
  PROVE  /\ doc \in Docs \cup {None, Garbage}
         /\ firstBatch[r] = "none" <=> doc = None
         /\ firstBatch[r] = "valid" => doc = 1
<1>1. /\ firstBatch[r] \in FirstBatchStates
      /\ taken[r] \in 0 .. MaxDocs
  BY DEF TypeOK
<1>2. CASE firstBatch[r] = "none"
  BY <1>2 DEF FirstBatchReads
<1>3. CASE firstBatch[r] = "valid"
  BY <1>1, <1>3, MaxDocsAssumption DEF FirstBatchReads, BatchIsInStep, Docs, None
<1>4. CASE firstBatch[r] = "stale"
  BY <1>1, <1>4, MaxDocsAssumption DEF FirstBatchReads, Docs, None, Garbage
<1>. QED
  BY <1>1, <1>2, <1>3, <1>4 DEF FirstBatchStates

(* The value of a document a call of mongoc_cursor_next takes.             *)
LEMMA TakenType ==
  ASSUME TypeOK, NEW r \in Results
  PROVE  /\ taken[r] \in Nat
         /\ taken[r] <= size[r]
         /\ taken[r] # size[r] => taken[r] + 1 \in Docs
         /\ taken[r] # size[r] => taken[r] + 1 <= size[r]
         /\ taken[r] # size[r] => taken[r] + 1 \in 0 .. MaxDocs
         /\ taken[r] + 1 # None
  BY MaxDocsAssumption DEF TypeOK, Docs, None

(* The three ways a call of mongoc_cursor_next ends.                       *)
LEMMA CursorCall ==
  ASSUME TypeOK, NEW r \in Results, NextYields(r) \/ NextEnds(r) \/ NextFails(r)
  PROVE  /\ cursor' \in [Results -> CursorStates]
         /\ taken' \in [Results -> 0 .. MaxDocs]
         /\ \A s \in Results : taken'[s] <= size[s]
         /\ \A s \in Results : s # r => taken'[s] = taken[s] /\ cursor'[s] = cursor[s]
         /\ \/ /\ NextYields(r)
               /\ taken'[r] = taken[r] + 1
               /\ cursor'[r] = "open"
            \/ /\ NextEnds(r)
               /\ taken'[r] = taken[r]
               /\ cursor'[r] = "exhausted"
            \/ /\ NextFails(r)
               /\ taken'[r] = taken[r]
               /\ cursor'[r] = "failed"
<1>1. /\ cursor \in [Results -> CursorStates]
      /\ taken \in [Results -> 0 .. MaxDocs]
      /\ \A s \in Results : taken[s] <= size[s]
      /\ \A s \in Results : size[s] \in 0 .. MaxDocs
  BY DEF TypeOK
<1>2. {"open", "exhausted", "failed"} \subseteq CursorStates
  BY DEF CursorStates
<1>3. CASE NextYields(r)
  <2>1. taken[r] + 1 \in 0 .. MaxDocs /\ taken[r] + 1 <= size[r]
    BY <1>1, <1>3, MaxDocsAssumption DEF NextYields
  <2>2. /\ taken' = [taken EXCEPT ![r] = taken[r] + 1]
        /\ cursor' = [cursor EXCEPT ![r] = "open"]
    BY <1>3 DEF NextYields
  <2>. QED
    BY <1>1, <1>2, <1>3, <2>1, <2>2
<1>4. CASE NextEnds(r)
  BY <1>1, <1>2, <1>4 DEF NextEnds
<1>5. CASE NextFails(r)
  BY <1>1, <1>2, <1>5 DEF NextFails
<1>. QED
  BY <1>3, <1>4, <1>5

(* Showing a document appends it to what the loop's result has shown and   *)
(* touches nothing else; None shows nothing.                               *)
LEMMA ShowAppends ==
  ASSUME TypeOK, NEW i \in Loops, NEW doc \in Docs \cup {None, Garbage},
         NEW call \in {"rewind", "next"}, Show(i, doc, call)
  PROVE  LET e == [loop |-> i, doc |-> doc, by |-> call] IN
         /\ shown' \in [Results -> Seq(Entry)]
         /\ \A r \in Results : r # over[i] => shown'[r] = shown[r]
         /\ doc = None => shown' = shown
         /\ doc # None => e \in Entry
         /\ doc # None => shown'[over[i]] = Append(shown[over[i]], e)
<1> DEFINE e == [loop |-> i, doc |-> doc, by |-> call]
<1>1. over[i] \in Results /\ shown \in [Results -> Seq(Entry)]
  BY DEF TypeOK
<1>2. CASE doc = None
  <2>1. shown' = shown
    BY <1>1, <1>2 DEF Show
  <2>. QED
    BY <1>1, <1>2, <2>1
<1>3. CASE doc # None
  <2>1. e \in Entry
    BY <1>3 DEF Entry
  <2>2. shown' = [shown EXCEPT ![over[i]] = Append(@, e)]
    BY <1>3 DEF Show
  <2>3. Append(shown[over[i]], e) \in Seq(Entry)
    BY <1>1, <2>1, AppendEntry
  <2>. QED
    BY <1>1, <1>3, <2>1, <2>2, <2>3
<1>. QED
  BY <1>2, <1>3

-----------------------------------------------------------------------------
(* What the invariant says of results and their users.                     *)

(* A running loop's result is alive and has been executed.                 *)
LEMMA RunningLoopsHoldTheResult ==
  ASSUME IInv, NEW i \in Loops, Running(i)
  PROVE  /\ over[i] \in Results
         /\ object[over[i]] = "live"
         /\ cursor[over[i]] \in {"open", "exhausted", "failed"}
<1>1. over[i] \in Results /\ i \in LoopsOver(over[i])
  BY DEF IInv, TypeOK, LoopsOver
<1>2. IsFiniteSet(LoopsOver(over[i])) /\ refs[over[i]] = Users(over[i])
  BY <1>1 DEF IInv, CountsItsUsers
<1>3. Cardinality(LoopsOver(over[i])) \in Nat /\ Cardinality(LoopsOver(over[i])) # 0
  BY <1>1, <1>2, FS_CardinalityType, FS_EmptySet
<1>4. refs[over[i]] > 0
  BY <1>2, <1>3 DEF Users
<1>5. object[over[i]] = "live"
  BY <1>1, <1>4 DEF IInv, CountsItsUsers
<1>. QED
  BY <1>1, <1>5 DEF IInv, CursorIsInStep, TypeOK, CursorStates

(* A result without an object has no users yet.                            *)
LEMMA NoUsersWithoutAnObject ==
  ASSUME IInv, NEW r \in Results, object[r] # "live"
  PROVE  LoopsOver(r) = {} /\ ~variable[r] /\ refs[r] = 0
<1>1. /\ IsFiniteSet(LoopsOver(r))
      /\ refs[r] = Users(r)
      /\ ~(refs[r] > 0)
      /\ refs[r] \in Nat
  BY DEF IInv, CountsItsUsers, TypeOK
<1>2. Cardinality(LoopsOver(r)) \in Nat
  BY <1>1, FS_CardinalityType
<1>3. ~variable[r] /\ Cardinality(LoopsOver(r)) = 0
  BY <1>1, <1>2 DEF Users
<1>. QED
  BY <1>1, <1>3, FS_EmptySet

(* A result the script or a loop uses is alive.                            *)
LEMMA UsersKeepTheObject ==
  ASSUME IInv, NEW r \in Results, variable[r] \/ LoopsOver(r) # {}
  PROVE  object[r] = "live" /\ refs[r] \in Nat /\ refs[r] > 0
<1>1. /\ object[r] \in {"none", "live", "freed"}
      /\ refs[r] \in Nat
      /\ object[r] = "live" <=> refs[r] > 0
  BY DEF IInv, TypeOK, CountsItsUsers
<1>. QED
  BY <1>1, NoUsersWithoutAnObject

LEMMA InitEstablishes == Init => IInv
<1> SUFFICES ASSUME Init PROVE IInv
  OBVIOUS
<1>1. TypeOK
  BY MaxDocsAssumption
  DEF Init, TypeOK, CursorStates, FirstBatchStates, Phases, Docs, None
<1>2. CountsItsUsers
  <2>1. \A r \in Results : LoopsOver(r) = {}
    BY DEF Init, LoopsOver, Running
  <2>2. IsFiniteSet({}) /\ Cardinality({}) = 0
    BY FS_EmptySet
  <2>3. \A r \in Results : ~variable[r] /\ refs[r] = 0 /\ object[r] = "none"
    BY DEF Init
  <2>4. ASSUME NEW r \in Results
        PROVE  /\ IsFiniteSet(LoopsOver(r))
               /\ refs[r] = Users(r)
               /\ object[r] = "live" <=> refs[r] > 0
    <3>1. Users(r) = 0
      <4>1. Users(r) = (IF variable[r] THEN 1 ELSE 0) + 0
        BY <2>1, <2>2 DEF Users
      <4>. QED
        BY <2>3, <4>1
    <3>. QED
      BY <2>1, <2>2, <2>3, <3>1
  <2>. QED
    BY <2>4 DEF CountsItsUsers
<1>3. CursorIsInStep /\ BatchIsInStep
  BY DEF Init, CursorIsInStep, BatchIsInStep
<1>4. BodiesComeAfterTheFirst /\ ShownWasTaken /\ SoleLoopIsInStep
  BY DEF Init, BodiesComeAfterTheFirst, ShownWasTaken, SoleLoopIsInStep
<1>5. NothingLost /\ NextGivesEachDocumentOnce /\ EarlyLoopsStartAtTheFirst
  BY DEF Init, NothingLost, NextGivesEachDocumentOnce, EarlyLoopsStartAtTheFirst
<1>. QED
  BY <1>1, <1>2, <1>3, <1>4, <1>5 DEF IInv

-----------------------------------------------------------------------------
(* One lemma per action: the action preserves the invariant.               *)

(* The loops over every result are the same after a step that moves no     *)
(* loop into or out of the running phases.                                 *)
LEMMA SameLoopsSameCount ==
  ASSUME IInv, NEW r \in Results, LoopsOver(r)' = LoopsOver(r),
         variable'[r] = variable[r], refs'[r] = refs[r], object'[r] = object[r]
  PROVE  /\ IsFiniteSet(LoopsOver(r))'
         /\ (refs[r] = Users(r))'
         /\ (object[r] = "live" <=> refs[r] > 0)'
  BY DEF IInv, CountsItsUsers, Users

(* A result that has just got its object has one user, the variable.       *)
LEMMA FirstUser ==
  ASSUME IInv, NEW r \in Results, object[r] # "live", LoopsOver(r)' = LoopsOver(r),
         variable'[r], refs'[r] = 1, object'[r] = "live"
  PROVE  /\ IsFiniteSet(LoopsOver(r))'
         /\ (refs[r] = Users(r))'
         /\ (object[r] = "live" <=> refs[r] > 0)'
<1>1. LoopsOver(r)' = {}
  BY NoUsersWithoutAnObject
<1>2. IsFiniteSet({}) /\ Cardinality({}) = 0
  BY FS_EmptySet
<1>. QED
  BY <1>1, <1>2 DEF Users

(* A step that leaves what loops were shown alone keeps what has been      *)
(* shown of each result.                                                   *)
LEMMA SameShown ==
  ASSUME UNCHANGED shown, NEW r \in Results, NEW d
  PROVE  IsShown(r, d)' <=> IsShown(r, d)
  BY DEF IsShown

LEMMA ExecutePreserves ==
  ASSUME IInv, NEW r \in Results, Execute(r)
  PROVE  IInv'
<1> USE DEF Execute, ResultInit, PointerAtEnd
<1>1. /\ object[r] = "none" /\ taken[r] = 0 /\ shown[r] = <<>>
      /\ LoopsOver(r) = {}
  BY NoUsersWithoutAnObject DEF IInv, CursorIsInStep
<1>2. NextYields(r) \/ NextEnds(r)
  OBVIOUS
<1>3. /\ cursor' \in [Results -> CursorStates]
      /\ taken' \in [Results -> 0 .. MaxDocs]
      /\ \A s \in Results : taken'[s] <= size[s]
  BY <1>2, CursorCall DEF IInv
<1>4. \A s \in Results : s # r =>
        /\ taken'[s] = taken[s]
        /\ cursor'[s] = cursor[s]
        /\ object'[s] = object[s]
        /\ refs'[s] = refs[s]
        /\ variable'[s] = variable[s]
        /\ firstBatch'[s] = firstBatch[s]
  BY CursorCall DEF IInv, TypeOK
<1>5. object'[r] = "live" /\ refs'[r] = 1 /\ variable'[r]
  BY DEF IInv, TypeOK
<1>6. \/ cursor'[r] = "open" /\ taken'[r] = 1 /\ firstBatch'[r] = "valid"
      \/ /\ cursor'[r] = "exhausted" /\ taken'[r] = 0 /\ size[r] = 0
         /\ firstBatch'[r] = "none"
  BY <1>1 DEF IInv, TypeOK, NextYields, NextEnds
<1>7. TypeOK'
  <2>1. PICK doc \in FirstBatchStates : ResultInit(r, doc)
    BY DEF FirstBatchStates
  <2>2. /\ object' \in [Results -> {"none", "live", "freed"}]
        /\ refs' \in [Results -> Nat]
    BY <2>1 DEF IInv, TypeOK
  <2>3. variable' \in [Results -> BOOLEAN]
    BY <2>1 DEF IInv, TypeOK
  <2>4. firstBatch' \in [Results -> FirstBatchStates]
    BY <2>1 DEF IInv, TypeOK
  <2>. QED
    BY <1>3, <2>2, <2>3, <2>4 DEF IInv, TypeOK
<1>8. CountsItsUsers'
  <2>1. \A s \in Results : LoopsOver(s)' = LoopsOver(s)
    BY DEF LoopsOver, Running
  <2>. QED
    BY <1>1, <1>4, <1>5, <2>1, SameLoopsSameCount, FirstUser DEF CountsItsUsers
<1>9. CursorIsInStep'
  BY <1>1, <1>4, <1>5, <1>6 DEF IInv, CursorIsInStep
<1>10. BatchIsInStep'
  BY <1>1, <1>4, <1>5, <1>6, SameShown DEF IInv, BatchIsInStep
<1>11. BodiesComeAfterTheFirst'
  BY DEF IInv, BodiesComeAfterTheFirst, IsShown
<1>12. ShownWasTaken'
  BY <1>1, <1>4, <1>6 DEF IInv, ShownWasTaken
<1>13. SoleLoopIsInStep'
  <2>1. \A i \in Loops : phase[i] \in {"body", "end"} => over[i] # r /\ over[i] \in Results
    BY <1>1, RunningLoopsHoldTheResult DEF Running
  <2>. QED
    BY <1>4, <2>1 DEF IInv, SoleLoopIsInStep
<1>14. NothingLost'
  BY <1>1, <1>4, <1>5, <1>6, SameShown DEF IInv, NothingLost
<1>15. NextGivesEachDocumentOnce'
  BY DEF IInv, NextGivesEachDocumentOnce
<1>16. EarlyLoopsStartAtTheFirst'
  BY <1>1, <1>4, <1>6 DEF IInv, EarlyLoopsStartAtTheFirst
<1>. QED
  BY <1>7, <1>8, <1>9, <1>10, <1>11, <1>12, <1>13, <1>14, <1>15, <1>16 DEF IInv

(* The two executions that leave no result object.                         *)
LEMMA ExecuteWithoutResultPreserves ==
  ASSUME IInv, NEW r \in Results, ExecuteThrows(r) \/ ExecuteIgnored(r)
  PROVE  IInv'
<1>1. /\ NextYields(r) \/ NextEnds(r) \/ NextFails(r)
      /\ UNCHANGED <<size, object, refs, variable, firstBatch, phase, over, current,
                     shown>>
      /\ cursor[r] = "none"
  BY DEF ExecuteThrows, ExecuteIgnored
<1>2. object[r] = "none" /\ taken[r] = 0 /\ shown[r] = <<>>
  BY <1>1 DEF IInv, CursorIsInStep
<1>3. /\ cursor' \in [Results -> CursorStates]
      /\ taken' \in [Results -> 0 .. MaxDocs]
      /\ \A s \in Results : taken'[s] <= size[s]
      /\ \A s \in Results : s # r => taken'[s] = taken[s] /\ cursor'[s] = cursor[s]
      /\ \/ cursor'[r] = "open" /\ taken'[r] = 1
         \/ cursor'[r] = "exhausted" /\ taken'[r] = 0 /\ size[r] = 0
         \/ cursor'[r] = "failed" /\ taken'[r] = 0
  BY <1>1, <1>2, CursorCall DEF IInv, NextEnds
<1>4. TypeOK'
  BY <1>1, <1>3 DEF IInv, TypeOK
<1>5. CountsItsUsers'
  <2>1. \A s \in Results : LoopsOver(s)' = LoopsOver(s)
    BY <1>1 DEF LoopsOver, Running
  <2>. QED
    BY <1>1, <2>1, SameLoopsSameCount DEF CountsItsUsers
<1>6. CursorIsInStep'
  BY <1>1, <1>2, <1>3 DEF IInv, CursorIsInStep
<1>7. BatchIsInStep'
  <2>1. firstBatch[r] = "none"
    BY <1>2 DEF IInv, BatchIsInStep
  <2>. QED
    BY <1>1, <1>2, <1>3, <2>1, SameShown DEF IInv, BatchIsInStep
<1>8. BodiesComeAfterTheFirst'
  BY <1>1 DEF IInv, BodiesComeAfterTheFirst, IsShown
<1>9. ShownWasTaken'
  BY <1>1, <1>2, <1>3 DEF IInv, ShownWasTaken
<1>10. SoleLoopIsInStep'
  <2>1. \A i \in Loops : phase[i] \in {"body", "end"} => over[i] # r /\ over[i] \in Results
    BY <1>2, RunningLoopsHoldTheResult DEF Running
  <2>. QED
    BY <1>1, <1>3, <2>1 DEF IInv, SoleLoopIsInStep
<1>11. NothingLost'
  BY <1>1, <1>2, <1>3, SameShown DEF IInv, NothingLost
<1>12. NextGivesEachDocumentOnce'
  BY <1>1 DEF IInv, NextGivesEachDocumentOnce
<1>13. EarlyLoopsStartAtTheFirst'
  BY <1>1, <1>2, <1>3 DEF IInv, EarlyLoopsStartAtTheFirst
<1>. QED
  BY <1>4, <1>5, <1>6, <1>7, <1>8, <1>9, <1>10, <1>11, <1>12, <1>13 DEF IInv

(* One user of a live result leaves: the count and the object follow.      *)
LEMMA ReleaseCounts ==
  ASSUME IInv, NEW r \in Results, Release(r), object[r] = "live",
         IsFiniteSet(LoopsOver(r))', Users(r)' = Users(r) - 1
  PROVE  /\ refs' \in [Results -> Nat]
         /\ object' \in [Results -> {"none", "live", "freed"}]
         /\ (refs[r] = Users(r))'
         /\ (object[r] = "live" <=> refs[r] > 0)'
         /\ \A s \in Results : s # r => refs'[s] = refs[s] /\ object'[s] = object[s]
         /\ \A s \in Results : object'[s] = "none" <=> object[s] = "none"
<1>1. /\ refs \in [Results -> Nat]
      /\ object \in [Results -> {"none", "live", "freed"}]
      /\ refs[r] = Users(r)
      /\ refs[r] > 0
  BY DEF IInv, TypeOK, CountsItsUsers
<1>2. refs[r] - 1 \in Nat
  BY <1>1
<1>3. /\ refs' = [refs EXCEPT ![r] = refs[r] - 1]
      /\ object' = [object EXCEPT ![r] = IF refs[r] = 1 THEN "freed" ELSE object[r]]
  BY DEF Release
<1>. QED
  BY <1>1, <1>2, <1>3

LEMMA DropVariablePreserves ==
  ASSUME IInv, NEW r \in Results, DropVariable(r)
  PROVE  IInv'
<1> USE DEF DropVariable
<1>1. object[r] = "live"
  BY UsersKeepTheObject
<1>2. \A s \in Results : LoopsOver(s)' = LoopsOver(s)
  BY DEF LoopsOver, Running
<1>3. IsFiniteSet(LoopsOver(r)) /\ Cardinality(LoopsOver(r)) \in Nat
  BY FS_CardinalityType DEF IInv, CountsItsUsers
<1>4. Users(r)' = Users(r) - 1
  <2>1. variable'[r] = FALSE /\ variable[r]
    BY DEF IInv, TypeOK
  <2>. QED
    BY <1>2, <1>3, <2>1 DEF Users
<1>5. /\ refs' \in [Results -> Nat]
      /\ object' \in [Results -> {"none", "live", "freed"}]
      /\ (refs[r] = Users(r))'
      /\ (object[r] = "live" <=> refs[r] > 0)'
      /\ \A s \in Results : s # r => refs'[s] = refs[s] /\ object'[s] = object[s]
      /\ \A s \in Results : object'[s] = "none" <=> object[s] = "none"
  BY <1>1, <1>2, <1>3, <1>4, ReleaseCounts
<1>6. TypeOK'
  <2>1. variable' \in [Results -> BOOLEAN]
    BY DEF IInv, TypeOK
  <2>. QED
    BY <1>5, <2>1 DEF IInv, TypeOK
<1>7. CountsItsUsers'
  <2>1. \A s \in Results : s # r => variable'[s] = variable[s]
    BY DEF IInv, TypeOK
  <2>. QED
    BY <1>2, <1>3, <1>5, <2>1, SameLoopsSameCount, ZenonT(60) DEF CountsItsUsers
<1>8. CursorIsInStep' /\ BatchIsInStep' /\ NothingLost'
  BY <1>5 DEF IInv, CursorIsInStep, BatchIsInStep, NothingLost, IsShown
<1>9. BodiesComeAfterTheFirst' /\ ShownWasTaken' /\ SoleLoopIsInStep'
  BY DEF IInv, BodiesComeAfterTheFirst, ShownWasTaken, SoleLoopIsInStep, IsShown
<1>10. NextGivesEachDocumentOnce' /\ EarlyLoopsStartAtTheFirst'
  BY DEF IInv, NextGivesEachDocumentOnce, EarlyLoopsStartAtTheFirst
<1>. QED
  BY <1>6, <1>7, <1>8, <1>9, <1>10 DEF IInv

LEMMA GetIteratorPreserves ==
  ASSUME IInv, NEW i \in Loops, NEW r \in Results, GetIterator(i, r)
  PROVE  IInv'
<1> USE DEF GetIterator
<1>1. object[r] = "live" /\ refs[r] \in Nat /\ refs[r] > 0
  BY UsersKeepTheObject
<1>2. /\ phase[i] = "new" /\ phase'[i] = "reset" /\ over'[i] = r
      /\ \A j \in Loops : j # i => phase'[j] = phase[j] /\ over'[j] = over[j]
  BY DEF IInv, TypeOK
<1>3. /\ LoopsOver(r)' = LoopsOver(r) \cup {i}
      /\ i \notin LoopsOver(r)
      /\ \A s \in Results : s # r => LoopsOver(s)' = LoopsOver(s)
  BY <1>2 DEF LoopsOver, Running
<1>4. /\ IsFiniteSet(LoopsOver(r))'
      /\ Users(r)' = Users(r) + 1
  <2>1. IsFiniteSet(LoopsOver(r)) /\ Cardinality(LoopsOver(r)) \in Nat
    BY FS_CardinalityType DEF IInv, CountsItsUsers
  <2>2. Cardinality(LoopsOver(r)') = Cardinality(LoopsOver(r)) + 1
    BY <1>3, <2>1, FS_AddElement
  <2>. QED
    BY <1>3, <2>1, <2>2, FS_AddElement DEF Users
<1>5. /\ refs' \in [Results -> Nat]
      /\ refs'[r] = refs[r] + 1
      /\ \A s \in Results : s # r => refs'[s] = refs[s]
  BY <1>1 DEF IInv, TypeOK
<1>6. TypeOK'
  BY <1>5 DEF IInv, TypeOK, Phases
<1>7. CountsItsUsers'
  <2>1. refs[r] = Users(r)
    BY DEF IInv, CountsItsUsers
  <2>2. /\ (refs[r] = Users(r))'
        /\ (object[r] = "live" <=> refs[r] > 0)'
    BY <1>1, <1>4, <1>5, <2>1
  <2>. QED
    BY <1>3, <1>4, <1>5, <2>2, SameLoopsSameCount DEF CountsItsUsers
<1>8. CursorIsInStep' /\ BatchIsInStep' /\ NothingLost'
  BY DEF IInv, CursorIsInStep, BatchIsInStep, NothingLost, IsShown
<1>9. BodiesComeAfterTheFirst'
  BY <1>2 DEF IInv, BodiesComeAfterTheFirst, IsShown
<1>10. ShownWasTaken'
  <2>1. \A s \in Results : \A k \in DOMAIN shown[s] : shown[s][k].loop \in Loops
    BY ShownEntries DEF IInv
  <2>. QED
    BY <1>2, <2>1 DEF IInv, ShownWasTaken
<1>11. SoleLoopIsInStep'
  BY <1>2 DEF IInv, SoleLoopIsInStep
<1>12. NextGivesEachDocumentOnce' /\ EarlyLoopsStartAtTheFirst'
  BY DEF IInv, NextGivesEachDocumentOnce, EarlyLoopsStartAtTheFirst
<1>. QED
  BY <1>6, <1>7, <1>8, <1>9, <1>10, <1>11, <1>12 DEF IInv

LEMMA DestroyPreserves ==
  ASSUME IInv, NEW i \in Loops, Destroy(i)
  PROVE  IInv'
<1> USE DEF Destroy
<1>0. PICK r \in Results : r = over[i]
  BY DEF IInv, TypeOK
<1>1. object[r] = "live" /\ Release(r)
  BY <1>0, RunningLoopsHoldTheResult DEF Running
<1>2. /\ phase[i] \in {"body", "end"} /\ phase'[i] = "done"
      /\ \A j \in Loops : j # i => phase'[j] = phase[j]
  BY DEF IInv, TypeOK
<1>3. /\ LoopsOver(r)' = LoopsOver(r) \ {i}
      /\ i \in LoopsOver(r)
      /\ \A s \in Results : s # r => LoopsOver(s)' = LoopsOver(s)
  BY <1>0, <1>2 DEF LoopsOver, Running
<1>4. /\ IsFiniteSet(LoopsOver(r))'
      /\ Users(r)' = Users(r) - 1
  <2>1. IsFiniteSet(LoopsOver(r)) /\ Cardinality(LoopsOver(r)) \in Nat
    BY <1>1, FS_CardinalityType DEF IInv, CountsItsUsers
  <2>2. /\ IsFiniteSet(LoopsOver(r) \ {i})
        /\ Cardinality(LoopsOver(r) \ {i}) = Cardinality(LoopsOver(r)) - 1
    BY <1>3, <2>1, FS_RemoveElement
  <2>3. variable' = variable
    OBVIOUS
  <2>. QED
    BY <1>3, <2>1, <2>2, <2>3 DEF Users
<1>5. /\ refs' \in [Results -> Nat]
      /\ object' \in [Results -> {"none", "live", "freed"}]
      /\ (refs[r] = Users(r))'
      /\ (object[r] = "live" <=> refs[r] > 0)'
      /\ \A s \in Results : s # r => refs'[s] = refs[s] /\ object'[s] = object[s]
      /\ \A s \in Results : object'[s] = "none" <=> object[s] = "none"
  BY <1>1, <1>4, ReleaseCounts
<1>6. TypeOK'
  BY <1>5 DEF IInv, TypeOK, Phases
<1>7. CountsItsUsers'
  BY <1>3, <1>4, <1>5, SameLoopsSameCount DEF CountsItsUsers
<1>8. CursorIsInStep' /\ BatchIsInStep' /\ NothingLost'
  <2>1. UNCHANGED <<size, cursor, taken, firstBatch, shown>>
    OBVIOUS
  <2>2. CursorIsInStep'
    BY <1>5, <2>1 DEF IInv, CursorIsInStep
  <2>3. BatchIsInStep'
    BY <1>5, <2>1, SameShown DEF IInv, BatchIsInStep
  <2>4. NothingLost'
    BY <1>5, <2>1, SameShown DEF IInv, NothingLost
  <2>. QED
    BY <2>2, <2>3, <2>4
<1>9. BodiesComeAfterTheFirst'
  BY <1>2 DEF IInv, BodiesComeAfterTheFirst, IsShown
<1>10. ShownWasTaken'
  <2>1. \A s \in Results : \A k \in DOMAIN shown[s] : shown[s][k].loop \in Loops
    BY ShownEntries DEF IInv
  <2>. QED
    BY <1>2, <2>1 DEF IInv, ShownWasTaken
<1>11. SoleLoopIsInStep'
  BY <1>2 DEF IInv, SoleLoopIsInStep
<1>12. NextGivesEachDocumentOnce' /\ EarlyLoopsStartAtTheFirst'
  BY DEF IInv, NextGivesEachDocumentOnce, EarlyLoopsStartAtTheFirst
<1>. QED
  BY <1>6, <1>7, <1>8, <1>9, <1>10, <1>11, <1>12 DEF IInv

(* The history of r has one more entry, the last, and no other changes.    *)
ShownOneMore(i, r, doc, call) ==
  /\ shown' \in [Results -> Seq(Entry)]
  /\ \A s \in Results : s # r => shown'[s] = shown[s]
  /\ Len(shown[r]) \in Nat
  /\ Len(shown'[r]) = Len(shown[r]) + 1
  /\ DOMAIN shown[r] = 1 .. Len(shown[r])
  /\ DOMAIN shown'[r] = 1 .. Len(shown[r]) + 1
  /\ \A k \in 1 .. Len(shown[r]) : shown'[r][k] = shown[r][k]
  /\ shown'[r][Len(shown[r]) + 1] = [loop |-> i, doc |-> doc, by |-> call]
  /\ \A s \in Results : \A d : IsShown(s, d) => IsShown(s, d)'
  /\ IsShown(r, doc)'

(* What a step that shows a document to a loop does to the history.        *)
LEMMA ShownGrows ==
  ASSUME TypeOK, NEW i \in Loops, NEW doc \in Docs \cup {None, Garbage},
         NEW call \in {"rewind", "next"}, Show(i, doc, call),
         NEW r \in Results, r = over[i], doc # None
  PROVE  ShownOneMore(i, r, doc, call)
<1> DEFINE e == [loop |-> i, doc |-> doc, by |-> call]
<1>1. /\ shown' \in [Results -> Seq(Entry)]
      /\ \A s \in Results : s # r => shown'[s] = shown[s]
      /\ e \in Entry
      /\ shown'[r] = Append(shown[r], e)
  BY ShowAppends
<1>2. shown[r] \in Seq(Entry)
  BY DEF TypeOK
<1>3. /\ Len(shown[r]) \in Nat
      /\ Len(shown'[r]) = Len(shown[r]) + 1
      /\ DOMAIN shown[r] = 1 .. Len(shown[r])
      /\ DOMAIN shown'[r] = 1 .. Len(shown[r]) + 1
      /\ \A k \in 1 .. Len(shown[r]) : shown'[r][k] = shown[r][k]
      /\ shown'[r][Len(shown[r]) + 1] = e
  BY <1>1, <1>2, AppendEntry
<1>4. IsShown(r, doc)'
  BY <1>3 DEF IsShown
<1>5. ASSUME NEW s \in Results, NEW d, IsShown(s, d)
      PROVE  IsShown(s, d)'
  <2>1. CASE s = r
    <3>1. PICK k \in 1 .. Len(shown[r]) : shown[r][k].doc = d
      BY <1>3, <1>5, <2>1 DEF IsShown
    <3>2. k \in DOMAIN shown'[r] /\ shown'[r][k].doc = d
      BY <1>3, <3>1
    <3>. QED
      BY <2>1, <3>2 DEF IsShown
  <2>2. CASE s # r
    BY <1>1, <1>5, <2>2 DEF IsShown
  <2>. QED
    BY <2>1, <2>2
<1>. QED
  BY <1>1, <1>3, <1>4, <1>5 DEF ShownOneMore

(* The parts of the invariant a step of loop i with a document preserves,  *)
(* whichever of the two calls the document came by: the new entry is the   *)
(* last one, and where the loop is alone it is the document taken last.    *)
LEMMA ShowPreserves ==
  ASSUME IInv, NEW i \in Loops, NEW r \in Results, r = over[i],
         NEW doc \in Docs \cup {Garbage}, doc # None,
         NEW call \in {"rewind", "next"}, Show(i, doc, call),
         Running(i), phase' = [phase EXCEPT ![i] = "body"], UNCHANGED over,
         \A s \in Results : s # r => taken'[s] = taken[s],
         taken'[r] \in Nat, taken[r] <= taken'[r],
         call = "next" => taken[r] < doc /\ doc <= taken'[r],
         IsShown(r, 1) \/ doc = 1,
         (\A k \in DOMAIN shown[r] : shown[r][k].loop = i)
           => doc = Len(shown[r]) + 1 /\ taken'[r] = doc
  PROVE  /\ BodiesComeAfterTheFirst'
         /\ ShownWasTaken'
         /\ SoleLoopIsInStep'
         /\ NextGivesEachDocumentOnce'
<1> DEFINE n == Len(shown[r])
<1>1. /\ \A s \in Results : s # r => shown'[s] = shown[s]
      /\ n \in Nat
      /\ Len(shown'[r]) = n + 1
      /\ DOMAIN shown[r] = 1 .. n
      /\ DOMAIN shown'[r] = 1 .. n + 1
      /\ \A k \in 1 .. n : shown'[r][k] = shown[r][k]
      /\ shown'[r][n + 1] = [loop |-> i, doc |-> doc, by |-> call]
      /\ \A s \in Results : \A d : IsShown(s, d) => IsShown(s, d)'
      /\ IsShown(r, doc)'
  <2>1. TypeOK /\ doc \in Docs \cup {None, Garbage}
    BY DEF IInv
  <2>2. ShownOneMore(i, r, doc, call)
    BY <2>1, ShownGrows
  <2>. QED
    BY <2>2 DEF ShownOneMore
<1>2. /\ phase'[i] = "body"
      /\ \A j \in Loops : j # i => phase'[j] = phase[j]
      /\ over \in [Loops -> Results]
  BY DEF IInv, TypeOK
<1>3. taken[r] \in Nat
  BY TakenType DEF IInv
<1>4. BodiesComeAfterTheFirst'
  BY <1>1, <1>2 DEF IInv, BodiesComeAfterTheFirst
<1>5. ShownWasTaken'
  <2>1. ASSUME NEW s \in Results, NEW k \in DOMAIN shown'[s]
        PROVE  /\ shown'[s][k].by = "next" => shown'[s][k].doc <= taken'[s]
               /\ phase'[shown'[s][k].loop] \notin {"new", "reset"}
    <3>1. CASE s = r /\ k = n + 1
      BY <1>1, <1>2, <3>1
    <3>2. CASE s = r /\ k # n + 1
      <4>1. k \in DOMAIN shown[r] /\ shown'[r][k] = shown[r][k]
        <5>1. k \in 1 .. n + 1
          BY <1>1, <3>2
        <5>2. k \in 1 .. n
          BY <1>1, <3>2, <5>1
        <5>. QED
          BY <1>1, <5>2
      <4>2. /\ shown[r][k].by = "next" => shown[r][k].doc <= taken[r]
            /\ phase[shown[r][k].loop] \notin {"new", "reset"}
        BY <4>1 DEF IInv, ShownWasTaken
      <4>3. shown[r][k].loop \in Loops /\ shown[r][k].doc \in Int
        BY <4>1, ShownEntries, MaxDocsAssumption DEF IInv, Entry, Docs, Garbage
      <4>. QED
        BY <1>2, <1>3, <3>2, <4>1, <4>2, <4>3, SMTT(60)
    <3>3. CASE s # r
      <4>1. k \in DOMAIN shown[s] /\ shown'[s] = shown[s]
        BY <1>1, <3>3
      <4>2. shown[s][k].loop \in Loops
        BY <4>1, ShownEntries DEF IInv
      <4>. QED
        BY <1>2, <3>3, <4>1, <4>2 DEF IInv, ShownWasTaken
    <3>. QED
      BY <3>1, <3>2, <3>3
  <2>. QED
    BY <2>1 DEF ShownWasTaken
<1>6. SoleLoopIsInStep'
  <2>1. SUFFICES
          ASSUME NEW j \in Loops, phase'[j] \in {"body", "end"},
                 \A k \in DOMAIN shown'[over[j]] : shown'[over[j]][k].loop = j
          PROVE  /\ Len(shown'[over[j]]) = taken'[over[j]]
                 /\ \A k \in DOMAIN shown'[over[j]] : shown'[over[j]][k].doc = k
    BY DEF SoleLoopIsInStep
  <2>2. CASE over[j] # r
    BY <1>1, <1>2, <2>1, <2>2 DEF IInv, SoleLoopIsInStep
  <2>3. CASE over[j] = r
    <3>1. j = i
      BY <1>1, <2>1, <2>3
    <3>2. ASSUME NEW k \in DOMAIN shown[r]
          PROVE  shown[r][k].loop = i
      <4>1. k \in 1 .. n /\ shown'[r][k] = shown[r][k]
        BY <1>1
      <4>2. k \in 1 .. n + 1
        BY <1>1, <4>1
      <4>3. k \in DOMAIN shown'[over[j]]
        BY <1>1, <2>3, <4>2
      <4>4. shown'[over[j]][k].loop = j
        BY <2>1, <4>3
      <4>. QED
        BY <2>3, <3>1, <4>1, <4>4
    <3>3. doc = n + 1 /\ taken'[r] = doc
      BY <3>2
    <3>4. \A k \in 1 .. n : shown[r][k].doc = k
      <4>1. CASE phase[i] \in {"body", "end"}
        BY <1>1, <3>2, <4>1 DEF IInv, SoleLoopIsInStep
      <4>2. CASE phase[i] = "reset"
        <5>1. \A k \in DOMAIN shown[r] : phase[shown[r][k].loop] # "reset"
          BY DEF IInv, ShownWasTaken
        <5>2. DOMAIN shown[r] = {}
          BY <3>2, <4>2, <5>1
        <5>. QED
          BY <1>1, <5>2
      <4>. QED
        BY <4>1, <4>2 DEF Running
    <3>5. ASSUME NEW k \in 1 .. n + 1
          PROVE  shown'[r][k].doc = k
      <4>1. CASE k = n + 1
        BY <1>1, <3>3, <4>1
      <4>2. CASE k # n + 1
        <5>1. k \in 1 .. n
          BY <1>1, <4>2
        <5>. QED
          BY <1>1, <3>4, <5>1
      <4>. QED
        BY <4>1, <4>2
    <3>. QED
      BY <1>1, <2>3, <3>3, <3>5
  <2>. QED
    BY <2>2, <2>3
<1>7. NextGivesEachDocumentOnce'
  <2>1. SUFFICES
          ASSUME NEW s \in Results, NEW j \in DOMAIN shown'[s], NEW k \in DOMAIN shown'[s],
                 j < k, shown'[s][j].by = "next", shown'[s][k].by = "next"
          PROVE  shown'[s][j].doc < shown'[s][k].doc
    BY DEF NextGivesEachDocumentOnce
  <2>2. CASE s # r
    BY <1>1, <2>1, <2>2 DEF IInv, NextGivesEachDocumentOnce
  <2>3. CASE s = r /\ k # n + 1
    <3>1. j \in 1 .. n /\ k \in 1 .. n
      BY <1>1, <2>1, <2>3
    <3>2. shown'[r][j] = shown[r][j] /\ shown'[r][k] = shown[r][k]
      BY <1>1, <3>1
    <3>. QED
      BY <1>1, <2>1, <2>3, <3>1, <3>2 DEF IInv, NextGivesEachDocumentOnce
  <2>4. CASE s = r /\ k = n + 1
    <3>0. j \in 1 .. n
      BY <1>1, <2>1, <2>4
    <3>1. j \in DOMAIN shown[r] /\ shown'[r][j] = shown[r][j] /\ call = "next"
      BY <1>1, <2>1, <2>4, <3>0
    <3>2. shown[r][j].doc <= taken[r]
      BY <2>1, <2>4, <3>1 DEF IInv, ShownWasTaken
    <3>3. shown[r][j].doc \in Int /\ doc \in Int
      BY <3>1, ShownEntries, MaxDocsAssumption DEF IInv, Entry, Docs, Garbage
    <3>4. shown'[s][k].doc = doc /\ shown'[s][j].doc = shown[r][j].doc
      BY <1>1, <2>4, <3>1
    <3>. QED
      BY <1>3, <3>1, <3>2, <3>3, <3>4
  <2>. QED
    BY <1>1, <2>2, <2>3, <2>4
<1>. QED
  BY <1>4, <1>5, <1>6, <1>7

(* A step of a loop that stays in the running phases changes no count.     *)
LEMMA LoopStepKeepsCounts ==
  ASSUME IInv, NEW i \in Loops, Running(i), NEW to \in {"body", "end"},
         phase' = [phase EXCEPT ![i] = to],
         UNCHANGED <<object, refs, variable, over>>
  PROVE  CountsItsUsers'
<1>1. /\ phase'[i] \in {"body", "end"}
      /\ \A j \in Loops : j # i => phase'[j] = phase[j]
  BY DEF IInv, TypeOK
<1>2. \A s \in Results : LoopsOver(s)' = LoopsOver(s)
  BY <1>1 DEF LoopsOver, Running
<1>. QED
  BY <1>2, SameLoopsSameCount DEF CountsItsUsers

LEMMA RewindPreserves ==
  ASSUME IInv, NEW i \in Loops, Rewind(i)
  PROVE  IInv'
<1>1. PICK r \in Results : r = over[i]
  BY DEF IInv, TypeOK
<1>2. PICK doc \in FirstBatchReads(r) :
        /\ current' = [current EXCEPT ![i] = doc]
        /\ Valid(i, doc)
        /\ Show(i, doc, "rewind")
  BY <1>1 DEF Rewind
<1>3. /\ phase[i] = "reset" /\ Running(i)
      /\ UNCHANGED <<size, cursor, taken, object, refs, variable, firstBatch, over>>
  BY DEF Rewind, Running
<1>4. /\ TypeOK
      /\ doc \in Docs \cup {None, Garbage}
      /\ firstBatch[r] = "none" <=> doc = None
      /\ firstBatch[r] = "valid" => doc = 1
  BY FirstBatchReadsType DEF IInv
<1>5. object[r] = "live" /\ taken[r] \in Nat
  BY <1>1, <1>3, RunningLoopsHoldTheResult, TakenType DEF IInv
<1>6. TypeOK'
  <2>1. /\ current' \in [Loops -> Docs \cup {None, Garbage}]
        /\ phase' \in [Loops -> Phases]
    BY <1>2, <1>4 DEF TypeOK, Valid, Phases
  <2>2. shown' \in [Results -> Seq(Entry)]
    BY <1>2, <1>4, ShowAppends
  <2>. QED
    BY <1>3, <2>1, <2>2 DEF IInv, TypeOK
<1>7. CountsItsUsers'
  BY <1>2, <1>3, LoopStepKeepsCounts DEF Valid
<1>8. CASE doc = None
  <2>1. /\ UNCHANGED shown
        /\ phase'[i] = "end"
        /\ \A j \in Loops : j # i => phase'[j] = phase[j]
    BY <1>2, <1>4, <1>8, ShowAppends DEF TypeOK, Valid
  <2>2. taken[r] = 0 /\ shown[r] = <<>>
    BY <1>4, <1>5, <1>8 DEF IInv, BatchIsInStep
  <2>3. CursorIsInStep' /\ BatchIsInStep' /\ NothingLost'
    BY <1>3, <2>1 DEF IInv, CursorIsInStep, BatchIsInStep, NothingLost, IsShown
  <2>4. NextGivesEachDocumentOnce' /\ EarlyLoopsStartAtTheFirst'
    BY <1>3, <2>1 DEF IInv, NextGivesEachDocumentOnce, EarlyLoopsStartAtTheFirst
  <2>5. BodiesComeAfterTheFirst'
    BY <1>3, <2>1 DEF IInv, BodiesComeAfterTheFirst, IsShown
  <2>6. ShownWasTaken'
    BY <1>3, <1>4, <2>1, ShownEntries DEF IInv, ShownWasTaken
  <2>7. SoleLoopIsInStep'
    BY <1>1, <1>3, <2>1, <2>2 DEF IInv, SoleLoopIsInStep
  <2>. QED
    BY <1>6, <1>7, <2>3, <2>4, <2>5, <2>6, <2>7 DEF IInv
<1>9. CASE doc # None
  <2>1. phase' = [phase EXCEPT ![i] = "body"]
    BY <1>2, <1>9 DEF Valid
  <2>2. ShownOneMore(i, r, doc, "rewind")
    BY <1>1, <1>2, <1>4, <1>9, ShownGrows
  <2>3. firstBatch[r] \in {"valid", "stale"}
    BY <1>4, <1>9 DEF TypeOK, FirstBatchStates
  <2>4. IsShown(r, 1) \/ doc = 1
    BY <1>4, <2>3 DEF IInv, BatchIsInStep
  <2>5. ASSUME \A k \in DOMAIN shown[r] : shown[r][k].loop = i
        PROVE  doc = Len(shown[r]) + 1 /\ taken[r] = doc
    <3>1. DOMAIN shown[r] = {}
      BY <1>3, <2>5 DEF IInv, ShownWasTaken
    <3>2. Len(shown[r]) = 0
      BY <2>2, <3>1 DEF ShownOneMore
    <3>3. firstBatch[r] = "valid"
      BY <2>3, <3>1 DEF IInv, BatchIsInStep, IsShown
    <3>. QED
      BY <1>4, <3>2, <3>3 DEF IInv, BatchIsInStep
  <2>6. /\ BodiesComeAfterTheFirst'
        /\ ShownWasTaken'
        /\ SoleLoopIsInStep'
        /\ NextGivesEachDocumentOnce'
    <3>1. doc \in Docs \cup {Garbage} /\ Show(i, doc, "rewind")
      BY <1>2, <1>4, <1>9
    <3>2. /\ \A s \in Results : s # r => taken'[s] = taken[s]
          /\ taken'[r] \in Nat
          /\ taken[r] <= taken'[r]
          /\ UNCHANGED over
          /\ Running(i)
      BY <1>3, <1>5
    <3>3. (\A k \in DOMAIN shown[r] : shown[r][k].loop = i)
            => doc = Len(shown[r]) + 1 /\ taken'[r] = doc
      BY <1>3, <2>5
    <3>. QED
      BY <1>1, <1>9, <2>1, <2>4, <3>1, <3>2, <3>3, ShowPreserves
  <2>7. CursorIsInStep'
    BY <1>3, <1>5, <2>2 DEF IInv, CursorIsInStep, ShownOneMore
  <2>8. BatchIsInStep'
    BY <1>3, <2>2, <2>3 DEF IInv, BatchIsInStep, ShownOneMore
  <2>9. NothingLost'
    BY <1>3, <2>2 DEF IInv, NothingLost, ShownOneMore
  <2>10. EarlyLoopsStartAtTheFirst'
    <3>1. doc = 1 \/ taken[r] > 1 \/ cursor[r] \in {"exhausted", "failed"}
      BY <1>4, <2>3 DEF IInv, BatchIsInStep
    <3>2. ASSUME NEW s \in Results, NEW k \in DOMAIN shown'[s]
          PROVE  \/ shown'[s][k].by = "next"
                 \/ shown'[s][k].doc = 1
                 \/ taken[s] > 1
                 \/ cursor[s] \in {"exhausted", "failed"}
      <4>1. CASE s = r /\ k = Len(shown[r]) + 1
        BY <2>2, <3>1, <4>1 DEF ShownOneMore
      <4>2. CASE ~(s = r /\ k = Len(shown[r]) + 1)
        <5>1. k \in DOMAIN shown[s] /\ shown'[s][k] = shown[s][k]
          BY <2>2, <4>2 DEF ShownOneMore
        <5>. QED
          BY <5>1 DEF IInv, EarlyLoopsStartAtTheFirst
      <4>. QED
        BY <4>1, <4>2
    <3>. QED
      BY <1>3, <3>2 DEF EarlyLoopsStartAtTheFirst
  <2>. QED
    BY <1>6, <1>7, <2>6, <2>7, <2>8, <2>9, <2>10 DEF IInv
<1>. QED
  BY <1>8, <1>9

LEMMA MoveForwardPreserves ==
  ASSUME IInv, NEW i \in Loops, MoveForward(i)
  PROVE  IInv'
<1>1. PICK r \in Results : r = over[i]
  BY DEF IInv, TypeOK
<1>2. /\ phase[i] = "body" /\ Running(i)
      /\ Outdate(r)
      /\ UNCHANGED <<size, object, refs, variable, over>>
      /\ \/ NextYields(r) /\ Advance(i, taken[r] + 1)
         \/ NextEnds(r) /\ Advance(i, None)
         \/ NextFails(r) /\ Advance(i, None)
  BY <1>1 DEF MoveForward, Running
<1>3. /\ TypeOK
      /\ taken[r] \in Nat
      /\ object[r] = "live"
      /\ cursor[r] # "none"
      /\ IsShown(r, 1)
  BY <1>1, <1>2, RunningLoopsHoldTheResult, TakenType
  DEF IInv, BodiesComeAfterTheFirst
<1>4. /\ cursor' \in [Results -> CursorStates]
      /\ taken' \in [Results -> 0 .. MaxDocs]
      /\ \A s \in Results : taken'[s] <= size[s]
      /\ \A s \in Results : s # r => taken'[s] = taken[s] /\ cursor'[s] = cursor[s]
  BY <1>2, <1>3, CursorCall
<1>5. /\ firstBatch' \in [Results -> FirstBatchStates]
      /\ firstBatch'[r] = "stale"
      /\ \A s \in Results : s # r => firstBatch'[s] = firstBatch[s]
  <2>1. firstBatch[r] # "none"
    BY <1>3 DEF IInv, BatchIsInStep, IsShown
  <2>. QED
    BY <1>2, <1>3, <2>1 DEF Outdate, TypeOK, FirstBatchStates
<1>6. CASE NextYields(r) /\ Advance(i, taken[r] + 1)
  <2>0. PICK doc \in Docs : doc = taken[r] + 1
    BY <1>3, <1>6, TakenType DEF NextYields, TypeOK
  <2>1. /\ doc # None
        /\ taken'[r] = doc
        /\ cursor'[r] = "open"
        /\ taken'[r] > 1
    BY <1>3, <1>6, <2>0, TakenType DEF IInv, TypeOK, NextYields, CursorIsInStep
  <2>2. /\ current' = [current EXCEPT ![i] = doc]
        /\ phase' = [phase EXCEPT ![i] = "body"]
        /\ Show(i, doc, "next")
    BY <1>6, <2>0, <2>1 DEF Advance, Valid
  <2>3. ShownOneMore(i, r, doc, "next")
    BY <1>1, <1>3, <2>1, <2>2, ShownGrows
  <2>4. TypeOK'
    <3>1. /\ current' \in [Loops -> Docs \cup {None, Garbage}]
          /\ phase' \in [Loops -> Phases]
      BY <1>3, <2>1, <2>2 DEF TypeOK, Phases
    <3>. QED
      BY <1>2, <1>4, <1>5, <2>3, <3>1 DEF IInv, TypeOK, ShownOneMore
  <2>5. CountsItsUsers'
    BY <1>2, <2>2, LoopStepKeepsCounts
  <2>6. ASSUME \A k \in DOMAIN shown[r] : shown[r][k].loop = i
        PROVE  doc = Len(shown[r]) + 1 /\ taken'[r] = doc
    BY <1>1, <1>2, <2>0, <2>1, <2>6 DEF IInv, SoleLoopIsInStep
  <2>7. /\ BodiesComeAfterTheFirst'
        /\ ShownWasTaken'
        /\ SoleLoopIsInStep'
        /\ NextGivesEachDocumentOnce'
    <3>1. /\ doc \in Docs \cup {Garbage}
          /\ \A s \in Results : s # r => taken'[s] = taken[s]
          /\ taken'[r] \in Nat
          /\ taken[r] <= taken'[r]
          /\ taken[r] < doc /\ doc <= taken'[r]
          /\ UNCHANGED over
      BY <1>2, <1>3, <1>4, <2>0, <2>1
    <3>2. (\A k \in DOMAIN shown[r] : shown[r][k].loop = i)
            => doc = Len(shown[r]) + 1 /\ taken'[r] = doc
      BY <2>6
    <3>. QED
      BY <1>1, <1>2, <1>3, <2>1, <2>2, <3>1, <3>2, ShowPreserves
  <2>8. CursorIsInStep'
    <3>1. /\ UNCHANGED <<object, size>>
          /\ taken'[r] > 0
          /\ \A s \in Results : s # r => shown'[s] = shown[s]
      BY <1>2, <2>1, <2>3, <1>4 DEF ShownOneMore, IInv, TypeOK
    <3>. QED
      BY <1>3, <1>4, <2>1, <3>1 DEF IInv, CursorIsInStep
  <2>9. BatchIsInStep'
    <3>1. /\ object' = object /\ taken'[r] > 1 /\ firstBatch'[r] = "stale" /\ IsShown(r, 1)'
      BY <1>2, <1>3, <1>5, <2>1, <2>3 DEF ShownOneMore
    <3>2. ASSUME NEW s \in Results, s # r
          PROVE  /\ taken'[s] = taken[s] /\ cursor'[s] = cursor[s]
                 /\ firstBatch'[s] = firstBatch[s] /\ shown'[s] = shown[s]
                 /\ IsShown(s, 1) => IsShown(s, 1)'
      BY <1>4, <1>5, <2>3, <3>2 DEF ShownOneMore
    <3>3. object[r] # "none"
      BY <1>3
    <3>. QED
      BY <3>1, <3>2, <3>3 DEF IInv, BatchIsInStep
  <2>10. NothingLost'
    <3>1. ASSUME NEW s \in Results, object[s] # "none", NEW d \in 1 .. taken'[s]
          PROVE  IsShown(s, d)' \/ (d = 1 /\ firstBatch'[s] = "valid")
      <4>1. CASE s # r
        BY <1>4, <1>5, <2>3, <3>1, <4>1 DEF IInv, NothingLost, ShownOneMore
      <4>2. CASE s = r /\ d = doc
        BY <2>3, <4>2 DEF ShownOneMore
      <4>3. CASE s = r /\ d # doc
        <5>1. d \in 1 .. taken[r]
          BY <1>3, <2>0, <2>1, <3>1, <4>3
        <5>2. IsShown(r, d)
          BY <1>3, <5>1 DEF IInv, NothingLost
        <5>. QED
          BY <2>3, <4>3, <5>2 DEF ShownOneMore
      <4>. QED
        BY <4>1, <4>2, <4>3
    <3>. QED
      BY <1>2, <3>1 DEF NothingLost
  <2>11. EarlyLoopsStartAtTheFirst'
    BY <1>4, <2>1, <2>3 DEF IInv, EarlyLoopsStartAtTheFirst, ShownOneMore
  <2>. QED
    BY <2>4, <2>5, <2>7, <2>8, <2>9, <2>10, <2>11 DEF IInv
<1>7. CASE (NextEnds(r) \/ NextFails(r)) /\ Advance(i, None)
  <2>1. /\ taken'[r] = taken[r]
        /\ cursor'[r] \in {"exhausted", "failed"}
        /\ cursor'[r] = "exhausted" => taken[r] = size[r]
    BY <1>3, <1>7, CursorCall DEF NextEnds, NextFails
  <2>2. /\ current' = [current EXCEPT ![i] = None]
        /\ phase' = [phase EXCEPT ![i] = "end"]
        /\ Show(i, None, "next")
    BY <1>7 DEF Advance, Valid
  <2>3. UNCHANGED shown
    BY <1>3, <2>2, ShowAppends
  <2>4. /\ phase'[i] = "end"
        /\ \A j \in Loops : j # i => phase'[j] = phase[j]
    BY <1>3, <2>2 DEF TypeOK
  <2>5. TypeOK'
    <3>1. /\ current' \in [Loops -> Docs \cup {None, Garbage}]
          /\ phase' \in [Loops -> Phases]
      BY <1>3, <2>2 DEF TypeOK, Phases
    <3>. QED
      BY <1>2, <1>4, <1>5, <2>3, <3>1 DEF IInv, TypeOK
  <2>6. CountsItsUsers'
    BY <1>2, <2>2, LoopStepKeepsCounts
  <2>7. CursorIsInStep'
    BY <1>2, <1>3, <1>4, <2>1, <2>3 DEF IInv, CursorIsInStep
  <2>8. BatchIsInStep'
    BY <1>2, <1>3, <1>4, <1>5, <2>1, <2>3, SameShown DEF IInv, BatchIsInStep
  <2>9. NothingLost'
    BY <1>2, <1>3, <1>4, <1>5, <2>1, <2>3, SameShown DEF IInv, NothingLost
  <2>10. NextGivesEachDocumentOnce' /\ EarlyLoopsStartAtTheFirst'
    BY <1>4, <2>1, <2>3 DEF IInv, NextGivesEachDocumentOnce, EarlyLoopsStartAtTheFirst
  <2>11. BodiesComeAfterTheFirst'
    BY <1>2, <2>3, <2>4 DEF IInv, BodiesComeAfterTheFirst, IsShown
  <2>12. ShownWasTaken'
    BY <1>3, <1>4, <2>1, <2>3, <2>4, ShownEntries DEF IInv, ShownWasTaken
  <2>13. SoleLoopIsInStep'
    <3>1. ASSUME NEW j \in Loops, phase'[j] \in {"body", "end"}
          PROVE  over'[j] = over[j] /\ phase[j] \in {"body", "end"} /\ over[j] \in Results
      BY <1>2, <1>3, <2>4, <3>1 DEF TypeOK
    <3>2. shown' = shown /\ \A s \in Results : taken'[s] = taken[s]
      BY <1>3, <1>4, <2>1, <2>3
    <3>. QED
      BY <3>1, <3>2 DEF IInv, SoleLoopIsInStep
  <2>. QED
    BY <2>5, <2>6, <2>7, <2>8, <2>9, <2>10, <2>11, <2>12, <2>13 DEF IInv
<1>. QED
  BY <1>2, <1>6, <1>7

-----------------------------------------------------------------------------
(* The theorems.                                                           *)

LEMMA StepPreserves == IInv /\ [Next]_vars => IInv'
<1> SUFFICES ASSUME IInv, [Next]_vars PROVE IInv'
  OBVIOUS
<1>1. ASSUME NEW r \in Results,
             Execute(r) \/ ExecuteThrows(r) \/ ExecuteIgnored(r) \/ DropVariable(r)
      PROVE  IInv'
  BY <1>1, ExecutePreserves, ExecuteWithoutResultPreserves, DropVariablePreserves
<1>2. ASSUME NEW i \in Loops, NEW r \in Results, GetIterator(i, r)
      PROVE  IInv'
  BY <1>2, GetIteratorPreserves
<1>3. ASSUME NEW i \in Loops, LoopStep(i)
      PROVE  IInv'
  BY <1>3, RewindPreserves, MoveForwardPreserves, DestroyPreserves DEF LoopStep
<1>4. CASE UNCHANGED vars
  <2> USE <1>4 DEF vars
  <2>1. TypeOK' /\ CursorIsInStep' /\ SoleLoopIsInStep' /\ ShownWasTaken'
    BY DEF IInv, TypeOK, CursorIsInStep, SoleLoopIsInStep, ShownWasTaken
  <2>2. CountsItsUsers'
    BY DEF IInv, CountsItsUsers, Users, LoopsOver, Running
  <2>3. BatchIsInStep' /\ BodiesComeAfterTheFirst' /\ NothingLost'
    BY DEF IInv, BatchIsInStep, BodiesComeAfterTheFirst, NothingLost, IsShown
  <2>4. NextGivesEachDocumentOnce' /\ EarlyLoopsStartAtTheFirst'
    BY DEF IInv, NextGivesEachDocumentOnce, EarlyLoopsStartAtTheFirst
  <2>. QED
    BY <2>1, <2>2, <2>3, <2>4 DEF IInv
<1>. QED
  BY <1>1, <1>2, <1>3, <1>4 DEF Next, Script

(* The invariant holds in every reachable state.                           *)
THEOREM Invariance == Spec => []IInv
<1>1. Init => IInv
  BY InitEstablishes
<1>2. IInv /\ [Next]_vars => IInv'
  BY StepPreserves
<1>. QED
  BY <1>1, <1>2, PTL DEF Spec

(* Every variable keeps its type.                                          *)
THEOREM TypeCorrect == Spec => []TypeOK
<1>1. IInv => TypeOK
  BY DEF IInv
<1>. QED
  BY <1>1, Invariance, PTL

(* The reference count is exactly the number of users: the variable and    *)
(* the loops between their get_iterator and their dtor.                    *)
THEOREM ReferencesAreTheUsers == Spec => []CountsItsUsers
<1>1. IInv => CountsItsUsers
  BY DEF IInv
<1>. QED
  BY <1>1, Invariance, PTL

(* No iterator outlives the result it points into, whatever the script     *)
(* drops and in whatever order the loops are left.                         *)
THEOREM IteratorsKeepTheirResult == Spec => []ResultOutlivesItsLoops
<1>1. IInv => ResultOutlivesItsLoops
  BY RunningLoopsHoldTheResult DEF ResultOutlivesItsLoops
<1>. QED
  BY <1>1, Invariance, PTL

(* ... and the last user to go frees the result.                           *)
THEOREM NoResultLeaks == Spec => []FreedWithItsLastUser
<1>1. IInv => FreedWithItsLastUser
  <2> SUFFICES ASSUME IInv, NEW r \in Results, object[r] = "live",
                      ~variable[r], LoopsOver(r) = {}
               PROVE  FALSE
    BY DEF FreedWithItsLastUser
  <2>1. Cardinality(LoopsOver(r)) = 0
    BY FS_EmptySet
  <2>2. Users(r) = 0
    BY <2>1 DEF Users
  <2>. QED
    BY <2>2 DEF IInv, CountsItsUsers
<1>. QED
  BY <1>1, Invariance, PTL

(* No document the cursor handed out is lost between the execution and the *)
(* loops, the first one included.                                          *)
THEOREM NoDocumentIsLost == Spec => []NothingLost
<1>1. IInv => NothingLost
  BY DEF IInv
<1>. QED
  BY <1>1, Invariance, PTL

(* Interleaved loops over one result share its documents out: next gives   *)
(* each to one loop, in the server's order.                                *)
THEOREM LoopsShareTheDocuments == Spec => []NextGivesEachDocumentOnce
<1>1. IInv => NextGivesEachDocumentOnce
  BY DEF IInv
<1>. QED
  BY <1>1, Invariance, PTL

(* The pointer to the first document is only read stale after a loop has   *)
(* moved on.                                                               *)
THEOREM LoopsStartAtTheFirst == Spec => []EarlyLoopsStartAtTheFirst
<1>1. IInv => EarlyLoopsStartAtTheFirst
  BY DEF IInv
<1>. QED
  BY <1>1, Invariance, PTL

(* A loop that has a result to itself and ends without an error was given  *)
(* every document of the result, in order.                                 *)
THEOREM AloneSeesAll == Spec => []SoleLoopSeesEverything
<1>1. IInv => SoleLoopSeesEverything
  <2> SUFFICES ASSUME IInv, NEW i \in Loops, NEW r \in Results, r = over[i],
                      phase[i] = "end", cursor[r] = "exhausted",
                      \A k \in DOMAIN shown[r] : shown[r][k].loop = i
               PROVE  [k \in DOMAIN shown[r] |-> shown[r][k].doc] = [k \in 1 .. size[r] |-> k]
    BY DEF SoleLoopSeesEverything, IInv, TypeOK
  <2>1. /\ Len(shown[r]) = taken[r]
        /\ \A k \in DOMAIN shown[r] : shown[r][k].doc = k
    BY DEF IInv, SoleLoopIsInStep
  <2>2. taken[r] = size[r]
    BY DEF IInv, CursorIsInStep
  <2>3. DOMAIN shown[r] = 1 .. size[r]
    BY <2>1, <2>2, ShownEntries DEF IInv
  <2>. QED
    BY <2>1, <2>3
<1>. QED
  BY <1>1, Invariance, PTL

=============================================================================
