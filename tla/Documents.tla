----------------------------- MODULE Documents ------------------------------
(***************************************************************************)
(* A script that works with documents: it builds arrays and objects,       *)
(* encodes one with BSON\fromArray, gets documents from a server or from   *)
(* JSON, joins and decodes them with BSON\toArray and BSON\toJSON, encodes *)
(* what it got, and constructs queries.  Encoder, Decoder and Queries say  *)
(* what these calls do; this module checks them on everything the script   *)
(* can build.                                                              *)
(***************************************************************************)
EXTENDS Encoder, Decoder, Queries

CONSTANTS
  Classes,     (* The classes the script's nodes can have: Classes[n].      *)
  Roots,       (* The nodes that are encoded.                               *)
  Keys,        (* The keys and property names the script uses.              *)
  Leaves,      (* The kinds of leaves it uses.                              *)
  Received,    (* The documents a server sends.                             *)
  MaxEntries   (* Bound on the entries of all nodes.                        *)

ClassNames == {"array", "stdClass"}

ASSUME ScriptAssumption ==
  /\ Classes \in Seq(SUBSET ClassNames) /\ Roots \subseteq DOMAIN Classes
  /\ Keys \subseteq PhpKeys /\ Leaves \subseteq LeafKinds /\ MaxEntries \in Nat

ASSUME ReceivedAssumption == \A doc \in Received : IsBson(doc)

VARIABLE json  (* The document a JSON string stands for, or none.          *)

vars == <<heap, applied, encoder, decoder, json, query, given>>

Frames == [node : DOMAIN heap, next : Nat \ {0}, at : 0 .. Len(out)]
Origins == [node : DOMAIN heap, entry : Nat \ {0}, within : SUBSET DOMAIN out]
Iters == [at : Nat, pos : Nat, node : DOMAIN heap]

KeysDiffer(d) ==
  \A i, j \in DOMAIN d.entries : d.entries[i].key = d.entries[j].key => i = j

(* Every variable has its type.                                            *)
TypeOK ==
  /\ heap \in Seq(HeapNodes) /\ \A n \in DOMAIN heap : KeysDiffer(heap[n])
  /\ applied \in Seq(Nat) /\ Len(applied) = Len(heap)
  /\ from \in 0 .. Len(heap)
  /\ frames \in Seq(Frames)
  /\ IsBson(out)
  /\ origins \in Seq(Origins) /\ Len(origins) = Len(out)
  /\ overflow \in BOOLEAN
  /\ bytes \in [docs : Seq(Seq(BsonElements)), invalid : BOOLEAN]
  /\ \A i \in DOMAIN bytes.docs : IsBson(bytes.docs[i])
  /\ read \in 0 .. Len(bytes.docs)
  /\ iters \in Seq(Iters)
  /\ value \in {NoValue, Null, Fatal} \cup [kind : {"node"}, node : DOMAIN heap]
  /\ read # 0 => /\ made \in [0 .. Len(Doc) -> 0 .. Len(heap)]
                 /\ placed \in [DOMAIN Doc -> Nat]
  /\ json \in {Nothing, Null} \cup [kind : {"doc"}, doc : Seq(BsonElements)]
  /\ QueryTypeOK

Init ==
  /\ heap \in [DOMAIN Classes -> [class : ClassNames, entries : {<<>>}]]
  /\ \A n \in DOMAIN heap : heap[n].class \in Classes[n]
  /\ applied = [n \in DOMAIN heap |-> 0]
  /\ EncoderInit /\ DecoderInit
  /\ json = Nothing
  /\ QueriesInit

-----------------------------------------------------------------------------
(* No call is running, and PHP is there.                                   *)
Idle == frames = <<>> /\ ~overflow /\ iters = <<>> /\ value # Fatal

(* The script before its first call.                                       *)
Building == Idle /\ from = 0 /\ bytes = NoBytes /\ value = NoValue /\ json = Nothing /\ given = Nothing

HasNothing(n) == heap[n].entries = <<>>

(* Names that are integers are integer keys in an array, and only objects  *)
(* have private properties.                                                *)
HasKey(n, key) ==
  key.type \in IF heap[n].class = "array" THEN {"int", "name"}
               ELSE {"int", "digits", "name", "private"}

(* $n[$key] = $v or $n->$key = $v, by reference for a node.                *)
Assign(n, key, v) ==
  /\ Building /\ HasKey(n, key) /\ Same(heap[n].entries, key) = {}
  /\ Cardinality({e \in (DOMAIN heap) \X (1 .. MaxEntries) : e[2] \in DOMAIN heap[e[1]].entries}) < MaxEntries
  /\ heap' = [heap EXCEPT ![n].entries = Append(@, [key |-> key, value |-> v])]
  /\ UNCHANGED <<applied, encoder, decoder, json, query, given>>

(* BSON\fromArray of what the script has built, or of what it has decoded. *)
FromArray(n) ==
  /\ \/ Building /\ n \in Roots
     \/ Idle /\ from = 0 /\ value = Reference(n)
  /\ StartEncoding(n)
  /\ UNCHANGED <<heap, decoder, json, query, given>>

Encode == EncoderNext /\ UNCHANGED <<heap, decoder, json, query, given>>

(* The string that fromArray has returned.                                 *)
Encoded == IF from # 0 /\ frames = <<>> THEN {out} ELSE {}

(* A string from somewhere, or one behind another; the last may be cut     *)
(* off.  Bound: one that the script has encoded is alone, unless it is     *)
(* empty, and is of one node.                                              *)
Receive(doc, invalid) ==
  /\ Idle /\ value = NoValue /\ json = Nothing /\ given = Nothing
  /\ Len(bytes.docs) < 2 /\ ~bytes.invalid
  /\ \A n \in DOMAIN heap : (from = n /\ doc \in Encoded /\ bytes = NoBytes /\ ~invalid) \/ HasNothing(n)
  /\ bytes' = [docs |-> IF invalid THEN bytes.docs ELSE Append(bytes.docs, doc), invalid |-> invalid]
  /\ UNCHANGED <<heap, applied, encoder, read, iters, value, made, placed, json, query, given>>

(* BSON\toArray.                                                           *)
ToArray ==
  /\ Idle /\ bytes # NoBytes /\ value = NoValue /\ json = Nothing
  /\ StartDecoding
  /\ from' = 0 /\ out' = <<>> /\ origins' = <<>>
  /\ UNCHANGED <<frames, overflow, bytes, json, query, given>>

Decode == DecoderNext /\ UNCHANGED <<encoder, json, query, given>>

(* BSON\toJSON: the first document of the string, whatever follows it.     *)
ToJSON ==
  /\ Idle /\ bytes # NoBytes /\ json = Nothing /\ value = NoValue
  /\ json' = IF bytes.docs = <<>> THEN Null ELSE [kind |-> "doc", doc |-> bytes.docs[1]]
  /\ UNCHANGED <<heap, applied, encoder, decoder, query, given>>

(* BSON\fromJSON: the document, or null when it is not JSON.               *)
FromJSON(doc) ==
  /\ Building /\ \A n \in DOMAIN heap : HasNothing(n)
  /\ json' = [kind |-> "doc", doc |-> doc]
  /\ bytes' = [docs |-> <<doc>>, invalid |-> FALSE]
  /\ UNCHANGED <<heap, applied, encoder, read, iters, value, made, placed, query, given>>

(* Query::__construct, which throws nothing.                               *)
NewQuery ==
  /\ Building /\ \A n \in DOMAIN heap : HasNothing(n)
  /\ ConstructQuery
  /\ UNCHANGED <<heap, applied, encoder, decoder, json>>

Next ==
  \/ \E n \in DOMAIN heap, key \in Keys, v \in [kind : {"node"}, node : DOMAIN heap] \cup [kind : Leaves] :
       Assign(n, key, v)
  \/ \E n \in DOMAIN heap : FromArray(n)
  \/ Encode
  \/ \E doc \in Received \cup Encoded, invalid \in BOOLEAN : Receive(doc, invalid)
  \/ ToArray \/ Decode \/ ToJSON
  \/ \E doc \in Received : FromJSON(doc)
  \/ NewQuery

Spec == Init /\ [][Next]_vars

-----------------------------------------------------------------------------
(* Properties.                                                             *)

(* What fromArray was given is encoded.                                    *)
IsEncoded == from # 0 /\ frames = <<>>

RefersTo(m, n) == \E i \in DOMAIN heap[m].entries : heap[m].entries[i].value = Reference(n)

(* The nodes in every set that has n and all its members refer to.         *)
Reachable(n) ==
  {m \in DOMAIN heap : \A S \in SUBSET DOMAIN heap :
     n \in S /\ (\A a \in S, b \in DOMAIN heap : RefersTo(a, b) => b \in S) => m \in S}

(* There is a cycle of nodes that are no lists.                            *)
Endless(n) ==
  \E C \in SUBSET {m \in Reachable(n) : ~IsList(heap[m])} :
    C # {} /\ \A a \in C : \E b \in C : RefersTo(a, b)

(* Only lists are counted while they are encoded, so it is exactly a cycle *)
(* without a list that overflows the stack; every other value, cyclic or   *)
(* not, is encoded (phongo_bson_append, the guard of zval_to_bson).        *)
EncodesUnlessEndless ==
  /\ overflow => Endless(from)
  /\ IsEncoded => ~Endless(from)

(* p comes before q, in the same document.                                 *)
Siblings(doc, p, q) == p < q /\ doc[p].in = doc[q].in

(* The entry an element was written from, and the node its document was.   *)
EntryOf(p) == heap[origins[p].node].entries[origins[p].entry]
NodeOf(p) == IF p = 0 THEN from ELSE EntryOf(p).value.node

(* An array that is written has the numbers from 0 in their order, with a  *)
(* gap only where a value could not be encoded (php_phongo_is_array_or_    *)
(* document, phongo_bson_append).  That takes a list whose numbers are not *)
(* cut: a hash table of PHP 5 holds no longer one.                         *)
ArraysAscend ==
  IsEncoded =>
    /\ \A p \in DOMAIN out : out[p].in # 0 /\ out[out[p].in].type = "array" => out[p].name.isnum
    /\ \A p, q \in DOMAIN out :
         /\ Siblings(out, p, q) /\ out[p].in # 0 /\ out[out[p].in].type = "array"
         /\ Len(heap[NodeOf(out[p].in)].entries) <= Wrap
         => out[p].name.num < out[q].name.num

(* A list that is in itself is written once more.                          *)
IsCut(p) == p # 0 /\ out[p].type = "array" /\ \E q \in origins[p].within : NodeOf(q) = NodeOf(p)

ShowsItsEntry(p) ==
  LET v == EntryOf(p).value
  IN  /\ origins[p].node = NodeOf(out[p].in)
      /\ out[p].name = BsonName(EntryOf(p).key)
      /\ out[p].type = IF v.kind # "node" THEN v.kind ELSE IF IsList(heap[v.node]) THEN "array" ELSE "document"

(* Of the document that is written for a node, no entry that BSON can hold *)
(* is left out, unless it is the document of a list in itself, which is    *)
(* empty.                                                                  *)
LeavesNothingOut(p) ==
  LET children == {q \in DOMAIN out : out[q].in = p}
      entries == heap[NodeOf(p)].entries
  IN  IF IsCut(p) THEN children = {}
      ELSE \A e \in DOMAIN entries :
             entries[e].value.kind \in Encodable \cup {"node"} => \E q \in children : origins[q].entry = e

(* The document is the script's value with nothing lost, added, repeated   *)
(* or moved: each element has the name and the kind of an entry of what it *)
(* is in, elements are in the order of their entries, and none is missing  *)
(* (zval_to_bson).                                                         *)
LeavesKeepTheirPaths ==
  IsEncoded =>
    /\ \A p \in DOMAIN out : ShowsItsEntry(p)
    /\ \A p, q \in DOMAIN out : Siblings(out, p, q) => origins[p].entry < origins[q].entry
    /\ \A p \in {0} \cup {q \in DOMAIN out : out[q].type \in Nested} : LeavesNothingOut(p)

IsChanged(key) == key.type \in {"private", "digits"} \/ (key.type = "int" /\ key.num \notin 0 .. Wrap - 1)

(* Two entries get the same name only when an integer key, a large or a    *)
(* negative one, is cut to 32 bits, or a private property or one of digits *)
(* hides another one (zval_to_bson).                                       *)
NamesClashOnlyWhenCut ==
  IsEncoded =>
    \A p, q \in DOMAIN out :
      Siblings(out, p, q) /\ out[p].name = out[q].name => IsChanged(EntryOf(p).key) \/ IsChanged(EntryOf(q).key)

(* A document that has each name once, and at its top no integer for one   *)
(* that is cut when it is encoded again, as negative ones are.             *)
HasPlainNames(doc) ==
  /\ \A p, q \in DOMAIN doc : Siblings(doc, p, q) => doc[p].name # doc[q].name
  /\ \A p \in DOMAIN doc : doc[p].in = 0 /\ doc[p].name.isnum => doc[p].name.num \in 0 .. Wrap - 1

StopsVisiting(element) == element.type \in {"corrupt", "invalid_utf8"}

IsClean(doc) == HasPlainNames(doc) /\ \A p \in DOMAIN doc : ~StopsVisiting(doc[p])

(* new is what of doc is in kept, but for its arrays, which are documents: *)
(* f finds each element of new in doc.                                     *)
IsLoosened(new, doc, kept) ==
  \E f \in [DOMAIN new -> kept] :
    /\ \A p \in kept : \E q \in DOMAIN new : f[q] = p
    /\ \A q, r \in DOMAIN new : f[q] = f[r] => q = r
    /\ \A q \in DOMAIN new :
         /\ new[q].name = doc[f[q]].name
         /\ new[q].type = IF doc[f[q]].type = "array" THEN "document" ELSE doc[f[q]].type
         /\ doc[f[q]].in = IF new[q].in = 0 THEN 0 ELSE f[new[q].in]
    /\ \A q, r \in DOMAIN new : Siblings(new, q, r) => f[q] < f[r]

(* Encoding what toArray returned gives the last document of the string    *)
(* again, with its arrays loosened to objects and without what has no      *)
(* visitor; nothing of the documents before it is left (bson_to_zval, the  *)
(* visitors).                                                              *)
DecodingIsUndone ==
  value.kind = "node" /\ from = value.node /\ IsClean(Doc) =>
    /\ ~overflow
    /\ frames = <<>> => IsLoosened(out, Doc, {p \in DOMAIN Doc : Doc[p].type # "unsupported"})

(* Nothing before p, in its document, ends the iteration.                  *)
IsReached(doc, p) == \A q \in DOMAIN doc : Siblings(doc, q, p) => ~StopsVisiting(doc[q])

(* The elements that are decoded when the iteration of a document ends     *)
(* early: those before the end, a corrupt element's document too, but not  *)
(* one in which a string is not UTF-8, and nothing in that.                *)
Decodable(doc) ==
  LET dropped == {doc[q].in : q \in {r \in DOMAIN doc : doc[r].type = "invalid_utf8" /\ IsReached(doc, r)}}
  IN  CHOOSE kept \in SUBSET DOMAIN doc :
        \A p \in DOMAIN doc :
          p \in kept <=> /\ doc[p].type \in Encodable \cup Nested
                        /\ IsReached(doc, p) /\ p \notin dropped
                        /\ doc[p].in \in kept \cup {0}

(* Corruption takes from a document exactly what comes after it in the     *)
(* same nested one, or that one as a whole: what toArray returned, without *)
(* an error, and encoded again has all the rest (bson_to_zval and the      *)
(* visitor of a document, which alone asks bson_iter_visit_all how it      *)
(* ended).                                                                 *)
CorruptionIsLocal ==
  value.kind = "node" /\ from = value.node /\ frames = <<>> /\ HasPlainNames(Doc) =>
    IsLoosened(out, Doc, Decodable(Doc))

=============================================================================
