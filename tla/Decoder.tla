------------------------------ MODULE Decoder -------------------------------
(***************************************************************************)
(* bson_to_zval (bson.c): the documents of a string are decoded.  "iters"  *)
(* is the stack of the calls of bson_iter_visit_all, which the visitors of *)
(* nested documents make.                                                  *)
(***************************************************************************)
EXTENDS BsonCodec

VARIABLES
  bytes,   (* A BSON string: its documents, and whether it ends badly.     *)
  read,    (* The document that is read, or was last; 0 is none.           *)
  iters,   (* The calls: the element whose document is visited, the last   *)
           (* element that was, and the array or object that is made.      *)
  value,   (* What decoding returned.                                      *)
  made,    (* History: the node that was made for an element; 0 is none.   *)
  placed   (* History: the entry that was; 0 is none.                      *)

decoder == <<bytes, read, iters, value, made, placed>>

NoBytes == [docs |-> <<>>, invalid |-> FALSE]
NoValue == [kind |-> "none"]
Null == [kind |-> "null"]
Fatal == [kind |-> "fatal"]

DecoderInit ==
  /\ bytes = NoBytes /\ read = 0 /\ iters = <<>> /\ value = NoValue
  /\ made = <<>> /\ placed = <<>>

Doc == bytes.docs[read]

Iter == iters[Len(iters)]

(* bson_iter_next.                                                         *)
After(p) == Doc[p].in = Iter.at /\ p > Iter.pos
IsNext(p) == iters # <<>> /\ After(p) /\ \A q \in DOMAIN Doc : After(q) => p <= q

Moved(p) == [iters EXCEPT ![Len(iters)].pos = p]

(* add_assoc_* and add_property_*: the last of two elements of one name    *)
(* wins, in the place of the first.                                        *)
Same(entries, key) == {i \in DOMAIN entries : entries[i].key = key}

Place(entries, key) ==
  IF Same(entries, key) = {} THEN Len(entries) + 1 ELSE CHOOSE i \in Same(entries, key) : TRUE

Put(entries, key, v) ==
  IF Same(entries, key) = {} THEN Append(entries, [key |-> key, value |-> v])
  ELSE [entries EXCEPT ![Place(entries, key)] = [key |-> key, value |-> v]]

(* The visitor of p adds a value to what the last of "calls" makes.  A     *)
(* property cannot have an empty name: PHP ends the script.                *)
AddField(calls, p, v) ==
  LET n == calls[Len(calls)].node
      key == PhpKey(heap[n].class, Doc[p].name)
  IN  IF heap[n].class # "array" /\ Doc[p].name = Str("")
      THEN value' = Fatal /\ iters' = <<>> /\ UNCHANGED <<heap, placed>>
      ELSE /\ heap' = [heap EXCEPT ![n].entries = Put(@, key, v)]
           /\ placed' = [placed EXCEPT ![p] = Place(heap[n].entries, key)]
           /\ iters' = calls
           /\ UNCHANGED value

(* array_init, object_init.                                                *)
Make(class) == heap' = Append(heap, Node(class)) /\ applied' = Append(applied, 0)

(* Defect: the array is made once, before the loop over the documents.     *)
ReadDocumentIntoOne(k) ==
  /\ read' = k
  /\ IF k = 1 THEN Make("array") ELSE UNCHANGED <<heap, applied>>
  /\ LET n == IF k = 1 THEN Len(heap) + 1 ELSE made[0]
     IN  /\ iters' = <<[at |-> 0, pos |-> 0, node |-> n]>>
         /\ made' = [p \in 0 .. Len(bytes.docs[k]) |-> IF p = 0 THEN n ELSE 0]
         /\ placed' = [p \in DOMAIN bytes.docs[k] |-> 0]

(* The loop of bson_to_zval over the documents of a string: each starts    *)
(* over with a new array.                                                  *)
ReadDocument(k) ==
  /\ read' = k
  /\ Make("array")
  /\ iters' = <<[at |-> 0, pos |-> 0, node |-> Len(heap) + 1]>>
  /\ made' = [p \in 0 .. Len(bytes.docs[k]) |-> IF p = 0 THEN Len(heap) + 1 ELSE 0]
  /\ placed' = [p \in DOMAIN bytes.docs[k] |-> 0]

(* Nothing, with a warning, when the string does not start with a document.*)
StartDecoding ==
  \/ /\ bytes.docs = <<>>
     /\ value' = Null
     /\ UNCHANGED <<heap, applied, read, iters, made, placed>>
  \/ bytes.docs # <<>> /\ ReadDocument(1) /\ UNCHANGED value

(* Numbers, strings, booleans and null, and ObjectIDs, which are made.     *)
VisitLeaf(p) ==
  /\ IsNext(p) /\ Doc[p].type \in Encodable
  /\ AddField(Moved(p), p, Leaf(Doc[p].type))
  /\ UNCHANGED <<applied, bytes, read, made>>

(* php_phongo_bson_visit_document and _array: both make an object.         *)
VisitNested(p) ==
  /\ IsNext(p) /\ Doc[p].type \in Nested
  /\ Make("stdClass")
  /\ iters' = Append(Moved(p), [at |-> p, pos |-> p, node |-> Len(heap) + 1])
  /\ made' = [made EXCEPT ![p] = Len(heap) + 1]
  /\ UNCHANGED <<bytes, read, value, placed>>

(* php_bson_visitors: types without a visitor are skipped.                 *)
VisitOther(p) ==
  /\ IsNext(p) /\ Doc[p].type = "unsupported"
  /\ iters' = Moved(p)
  /\ UNCHANGED <<heap, applied, bytes, read, value, made, placed>>

(* bson_iter_visit_all returns to the visitor that called it, which keeps  *)
(* the object unless it says TRUE; bson_to_zval does not ask, and goes on  *)
(* with the next document, or fails when the string ends badly.            *)
VisitAllReturns(says) ==
  IF Len(iters) > 1
  THEN /\ IF says THEN iters' = Pop(iters) /\ UNCHANGED <<heap, value, placed>>
          ELSE AddField(Pop(iters), Iter.at, Reference(Iter.node))
       /\ UNCHANGED <<applied, bytes, read, made>>
  ELSE IF read < Len(bytes.docs) THEN ReadDocument(read + 1) /\ UNCHANGED <<bytes, value>>
  ELSE /\ value' = IF bytes.invalid THEN Null ELSE Reference(Iter.node)
       /\ iters' = <<>>
       /\ UNCHANGED <<heap, applied, bytes, read, made, placed>>

(* Defect: what is corrupt is reported like a string that is not UTF-8.    *)
VisitCorruptDropping(p) == IsNext(p) /\ Doc[p].type = "corrupt" /\ VisitAllReturns(TRUE)

VisitCorrupt(p) == IsNext(p) /\ Doc[p].type = "corrupt" /\ VisitAllReturns(FALSE)

VisitInvalid(p) == IsNext(p) /\ Doc[p].type = "invalid_utf8" /\ VisitAllReturns(TRUE)

EndOfDocument == iters # <<>> /\ (\A p \in DOMAIN Doc : ~After(p)) /\ VisitAllReturns(FALSE)

DecoderNext ==
  \/ iters # <<>> /\ \E p \in DOMAIN Doc :
       VisitLeaf(p) \/ VisitNested(p) \/ VisitOther(p) \/ VisitCorrupt(p) \/ VisitInvalid(p)
  \/ EndOfDocument

=============================================================================
