----------------------------- MODULE BsonCodec ------------------------------
(***************************************************************************)
(* The data of bson.c: PHP arrays and objects, and BSON documents.         *)
(*                                                                         *)
(* A value is a leaf or a reference to a node of the heap, an array or an  *)
(* object with its entries in order; references make cycles.  Leaves are   *)
(* told apart by what the encoder does with them.  A BSON document is the  *)
(* sequence of its elements, those of the documents in it included: each   *)
(* names the element it is in by its place.  The bytes are not modelled.   *)
(*                                                                         *)
(* The flags that add an _id are in WriteExecution.  Keys of an array that *)
(* contain a zero byte, which cuts the name of the element off, are left   *)
(* out.                                                                    *)
(***************************************************************************)
EXTENDS Integers, Sequences

CONSTANT Wrap  (* What an integer key is cut to: 2^32 in the code.         *)

ASSUME WrapAssumption == Wrap \in Nat \ {0}

VARIABLES
  heap,    (* The arrays and objects.                                      *)
  applied  (* nApplyCount of the hash table of each.                       *)

(* null, bool, long, double and valid strings are scalars; "type" is an    *)
(* object of another BSON class than ObjectID, "class" one of any other.   *)
Encodable == {"scalar", "oid"}
LeafKinds == Encodable \cup {"type", "class", "invalid_utf8", "resource"}

(* The keys of an array and the names of properties: integers, the decimal *)
(* strings of integers (which only objects have), other strings, mangled   *)
(* private names.  "-5" is such a string, "-0" and "05" are not.           *)
IntKey(n) == [type |-> "int", num |-> n]
DigitsKey(n) == [type |-> "digits", num |-> n]
NameKey(s) == [type |-> "name", str |-> s]
PrivateKey(s) == [type |-> "private", str |-> s]

PhpKeys == [type : {"int", "digits"}, num : Int] \cup [type : {"name", "private"}, str : STRING]

Reference(n) == [kind |-> "node", node |-> n]
Leaf(kind) == [kind |-> kind]

Values == [kind : {"node"}, node : DOMAIN heap] \cup [kind : LeafKinds]

HeapNodes == [class : {"array", "stdClass"}, entries : Seq([key : PhpKeys, value : Values])]

Node(class) == [class |-> class, entries |-> <<>>]

(* The names of BSON elements, decimals of integers apart from other       *)
(* strings.                                                                *)
Num(n) == [isnum |-> TRUE, num |-> n]
Str(s) == [isnum |-> FALSE, str |-> s]

BsonNames == [isnum : {TRUE}, num : Int] \cup [isnum : {FALSE}, str : STRING]

(* An element that is directly in the document is in 0.                    *)
Element(name, type, in) == [name |-> name, type |-> type, in |-> in]

Nested == {"document", "array"}

(* Types without a visitor are "unsupported"; at what is "corrupt" libbson *)
(* ends the iteration, at a string that is not UTF-8 it ends it as if a    *)
(* visitor had asked for that.                                             *)
ElementTypes == Encodable \cup Nested \cup {"unsupported", "corrupt", "invalid_utf8"}

BsonElements == [name : BsonNames, type : ElementTypes, in : Nat]

IsBson(doc) ==
  /\ doc \in Seq(BsonElements)
  /\ \A p \in DOMAIN doc : /\ doc[p].in < p
                           /\ doc[p].in # 0 => doc[doc[p].in].type \in Nested

-----------------------------------------------------------------------------
(* Defect: the keys 0 to n-1 in any order are taken for a list.            *)
IsListInAnyOrder(data) ==
  LET keys == {data.entries[i].key : i \in DOMAIN data.entries}
  IN  data.class = "array" /\ data.entries # <<>>
      /\ keys = {IntKey(i - 1) : i \in DOMAIN data.entries}

(* php_phongo_is_array_or_document: an array with the keys 0, 1, 2 and so  *)
(* on in this order, and not empty, is a list.                             *)
IsList(data) ==
  /\ data.class = "array" /\ data.entries # <<>>
  /\ \A i \in DOMAIN data.entries : data.entries[i].key = IntKey(i - 1)

(* Defect: an integer key is cut to half its width.                        *)
BsonNameShort(key) == IF key.type = "int" THEN Num(key.num % (Wrap \div 2))
                      ELSE IF key.type = "digits" THEN Num(key.num) ELSE Str(key.str)

(* The name of an entry's element.  An integer is cut to 32 bits without a *)
(* sign, and the class is stripped off the name of a private property.     *)
BsonName(key) == IF key.type = "int" THEN Num(key.num % Wrap)
                 ELSE IF key.type = "digits" THEN Num(key.num) ELSE Str(key.str)

(* The names that are integers become integer keys in an array, negative   *)
(* ones too (zend_symtable_update); a property keeps the string.           *)
PhpKey(class, name) ==
  IF ~name.isnum THEN NameKey(name.str)
  ELSE IF class = "array" THEN IntKey(name.num) ELSE DigitsKey(name.num)

(* All but the last of a stack.                                            *)
Pop(stack) == SubSeq(stack, 1, Len(stack) - 1)

=============================================================================
