------------------------------ MODULE Encoder -------------------------------
(***************************************************************************)
(* zval_to_bson (bson.c): an array or object is encoded to a document.     *)
(* "frames" is the stack of its recursive calls.                           *)
(***************************************************************************)
EXTENDS BsonCodec

VARIABLES
  from,     (* The node that is encoded, or was last; 0 is none.           *)
  frames,   (* The calls: the node of each, its next entry, and the        *)
            (* element whose document it writes.                           *)
  out,      (* The elements that are written.                              *)
  origins,  (* History: the node and entry of each, and what it is in.     *)
  overflow  (* The C stack has overflowed: PHP is gone.                    *)

encoder == <<from, frames, out, origins, overflow>>

EncoderInit ==
  from = 0 /\ frames = <<>> /\ out = <<>> /\ origins = <<>> /\ overflow = FALSE

(* More than any path without a cycle of uncounted nodes needs: between    *)
(* two lists, and each is counted once, it takes other nodes at most once. *)
StackSize == (Len(heap) + 1) * (Len(heap) + 1)

Frame == frames[Len(frames)]

Encoding == frames # <<>> /\ ~overflow

(* zend_hash_get_current_data_ex succeeds.                                 *)
AtEntry == Encoding /\ Frame.next <= Len(heap[Frame.node].entries)

Entry == heap[Frame.node].entries[Frame.next]

(* zend_hash_move_forward_ex.                                              *)
Advanced == [frames EXCEPT ![Len(frames)].next = @ + 1]

(* bson_append_* to the document of the frame.                             *)
Write(type) ==
  /\ out' = Append(out, Element(BsonName(Entry.key), type, Frame.at))
  /\ origins' = Append(origins, [node |-> Frame.node, entry |-> Frame.next,
                                 within |-> {frames[k].at : k \in DOMAIN frames} \ {0}])

(* A call of zval_to_bson from "calls", which have raised the counts to    *)
(* "counts": it returns at once when a node is applied too often, and the  *)
(* count is lowered again.                                                 *)
ZvalToBson(calls, n, at, counts) ==
  IF counts[n] > 1 THEN frames' = calls /\ UNCHANGED <<applied, overflow>>
  ELSE /\ applied' = counts
       /\ overflow' = (Len(calls) = StackSize)
       /\ frames' = IF Len(calls) = StackSize THEN calls
                    ELSE Append(calls, [node |-> n, next |-> 1, at |-> at])

StartEncoding(n) ==
  /\ from' = n /\ out' = <<>> /\ origins' = <<>>
  /\ ZvalToBson(<<>>, n, 0, applied)

(* phongo_bson_append: null, bool, long, double, string, ObjectID.         *)
AppendLeaf ==
  /\ AtEntry /\ Entry.value.kind \in Encodable
  /\ Write(Entry.value.kind)
  /\ frames' = Advanced
  /\ UNCHANGED <<applied, from, overflow>>

(* Objects of other classes, strings that are not UTF-8 and resources      *)
(* leave nothing behind.                                                   *)
SkipLeaf ==
  /\ AtEntry /\ Entry.value.kind \in LeafKinds \ Encodable
  /\ frames' = Advanced
  /\ UNCHANGED <<applied, from, out, origins, overflow>>

(* Defect: the guard against recursion is not raised.                      *)
ListToBsonUnguarded ==
  /\ AtEntry /\ Entry.value.kind = "node" /\ IsList(heap[Entry.value.node])
  /\ Write("array")
  /\ ZvalToBson(Advanced, Entry.value.node, Len(out) + 1, applied)
  /\ UNCHANGED from

(* The case IS_ARRAY of phongo_bson_append.                                *)
ListToBson ==
  /\ AtEntry /\ Entry.value.kind = "node" /\ IsList(heap[Entry.value.node])
  /\ Write("array")
  /\ ZvalToBson(Advanced, Entry.value.node, Len(out) + 1,
                [applied EXCEPT ![Entry.value.node] = @ + 1])
  /\ UNCHANGED from

(* Defect: arrays that are no list do not fall through to the objects.     *)
ObjectToBsonNoArrays ==
  /\ AtEntry /\ Entry.value.kind = "node" /\ ~IsList(heap[Entry.value.node])
  /\ IF heap[Entry.value.node].class = "array"
     THEN frames' = Advanced /\ UNCHANGED <<applied, out, origins, overflow>>
     ELSE Write("document") /\ ZvalToBson(Advanced, Entry.value.node, Len(out) + 1, applied)
  /\ UNCHANGED from

(* object_to_bson for what is not written as an array: arrays that are no  *)
(* list, and objects.                                                      *)
ObjectToBson ==
  /\ AtEntry /\ Entry.value.kind = "node" /\ ~IsList(heap[Entry.value.node])
  /\ Write("document")
  /\ ZvalToBson(Advanced, Entry.value.node, Len(out) + 1, applied)
  /\ UNCHANGED from

(* zval_to_bson returns, and phongo_bson_append lowers the count.          *)
Return ==
  /\ Encoding /\ ~AtEntry
  /\ frames' = Pop(frames)
  /\ applied' = IF Frame.at # 0 /\ out[Frame.at].type = "array"
                THEN [applied EXCEPT ![Frame.node] = @ - 1] ELSE applied
  /\ UNCHANGED <<from, out, origins, overflow>>

EncoderNext == AppendLeaf \/ SkipLeaf \/ ListToBson \/ ObjectToBson \/ Return

=============================================================================
