----------------------------- MODULE QueryInit ------------------------------
(***************************************************************************)
(* phongo_query_init (php_phongo.c): the filter and the options of a Query *)
(* become the query document, the selector and the numbers that mongoc is  *)
(* given.                                                                  *)
(*                                                                         *)
(* An option is absent, or a PHP value of a type.  The keys of the         *)
(* modifiers are all that is told of their contents.  What is put into the *)
(* query document is named after the argument it comes from; the encoding  *)
(* is Encoder's.  The counts of the references to the arguments are left   *)
(* out.                                                                    *)
(***************************************************************************)
EXTENDS Integers, Sequences, FiniteSets

CONSTANT Width  (* What a number is cut to: 2^32 in the code.              *)

ASSUME WidthAssumption == Width \in Nat \ {0}

Arguments == {"filter", "modifiers", "projection", "sort"}

Absent == "absent"

Given == {"array", "object", "other"}

IsDocument(arg) == arg \in {"array", "object"}

(* An instance of the class before its constructor: all zero.              *)
Unbuilt == [query |-> <<>>, built |-> FALSE, selector |-> FALSE, limit |-> 0, warned |-> FALSE]

Warn(q) == [q EXCEPT !.warned = TRUE]

(* add_assoc_zval_ex: replaces a key in its place, or adds it at the end.  *)
AddAssoc(doc, key, from) ==
  LET same == {i \in DOMAIN doc : doc[i].key = key}
      entry == [key |-> key, from |-> from]
  IN  IF same = {} THEN Append(doc, entry) ELSE [doc EXCEPT ![CHOOSE i \in same : TRUE] = entry]

(* Defect: the number is kept as it is.                                    *)
FetchNumbersUncut(q, limit) == [q EXCEPT !.limit = limit]

(* php_array_fetchc_long cut to a uint32_t, as limit, skip and batchSize   *)
(* are.                                                                    *)
FetchNumbers(q, limit) == [q EXCEPT !.limit = limit % Width]

(* The document is empty until the modifiers are merged into it.           *)
MergeModifiers(q, arg, keys) ==
  IF arg = Absent THEN q
  ELSE IF ~IsDocument(arg) THEN Warn(q)
  ELSE [q EXCEPT !.query = [i \in DOMAIN keys |-> [key |-> keys[i], from |-> "modifiers"]]]

MakeSelector(q, arg) ==
  IF q.warned \/ arg = Absent THEN q
  ELSE IF ~IsDocument(arg) THEN Warn(q)
  ELSE [q EXCEPT !.selector = TRUE]

(* The sort replaces an $orderby of the modifiers.                         *)
AddSort(q, arg) ==
  IF q.warned \/ arg = Absent THEN q
  ELSE IF ~IsDocument(arg) THEN Warn(q)
  ELSE [q EXCEPT !.query = AddAssoc(@, "$orderby", "sort")]

(* Defect: a $query among the modifiers is kept.                           *)
AddFilterUnlessThere(q) ==
  IF q.warned THEN q
  ELSE [q EXCEPT !.query = IF \E i \in DOMAIN @ : @[i].key = "$query" THEN @
                           ELSE AddAssoc(@, "$query", "filter"),
                 !.built = TRUE]

(* The filter replaces a $query of the modifiers, and all is encoded.      *)
AddFilter(q) ==
  IF q.warned THEN q
  ELSE [q EXCEPT !.query = AddAssoc(@, "$query", "filter"), !.built = TRUE]

(* The query document exists only when it is built.                        *)
Result(q) == IF q.built THEN q ELSE [q EXCEPT !.query = <<>>]

(* The whole function.                                                     *)
PhongoQueryInit(filter, modifiers, keys, projection, sort, limit) ==
  IF ~IsDocument(filter) THEN Warn(Unbuilt)
  ELSE Result(AddFilter(AddSort(MakeSelector(MergeModifiers(
         FetchNumbers(Unbuilt, limit), modifiers, keys), projection), sort)))

=============================================================================
