---------------------------- MODULE QueriesProofs -----------------------------
(***************************************************************************)
(* Proofs about Queries: for any arguments, any modifiers and any numbers, *)
(* whatever these are cut to.                                              *)
(***************************************************************************)
EXTENDS Queries, SequenceTheorems, TLAPS

-----------------------------------------------------------------------------
(* The query document: entries with distinct keys.                         *)

HasDistinctKeys(doc) == \A i \in DOMAIN doc : \A j \in DOMAIN doc : doc[i].key = doc[j].key => i = j

SourcesOf(doc, key) == {doc[i].from : i \in {j \in DOMAIN doc : doc[j].key = key}}

(* A key is added or replaced, and no other entry changes.                 *)
LEMMA AddAssocFacts ==
  ASSUME NEW doc \in Seq(Entries), HasDistinctKeys(doc), NEW key \in EntryKeys, NEW source \in Arguments
  PROVE  /\ AddAssoc(doc, key, source) \in Seq(Entries)
         /\ HasDistinctKeys(AddAssoc(doc, key, source))
         /\ SourcesOf(AddAssoc(doc, key, source), key) = {source}
         /\ \A k : k # key => SourcesOf(AddAssoc(doc, key, source), k) = SourcesOf(doc, k)
<1> DEFINE same == {i \in DOMAIN doc : doc[i].key = key}
<1>1. PICK entry \in Entries : entry = [key |-> key, from |-> source]
  BY DEF Entries
<1>2. PICK d : d = AddAssoc(doc, key, source)
  OBVIOUS
<1>3. PICK n \in Nat : n = Len(doc) /\ DOMAIN doc = 1..n
  <2>1. Len(doc) \in Nat /\ DOMAIN doc = 1..Len(doc)
    BY LenProperties
  <2>. HIDE DEF same
  <2>. QED
    BY <2>1
<1>4. PICK m \in Nat, c \in Nat :
        /\ c \in 1..m
        /\ d \in Seq(Entries)
        /\ DOMAIN d = 1..m
        /\ d[c] = entry
        /\ \A i \in 1..m : i # c => i \in 1..n /\ d[i] = doc[i] /\ doc[i].key # key
        /\ \A i \in 1..n : i \in 1..m /\ (i = c => doc[i].key = key)
  <2>1. CASE same = {}
    <3>1. d = Append(doc, entry)
      BY <1>1, <1>2, <2>1 DEF AddAssoc
    <3>2. /\ d \in Seq(Entries)
          /\ DOMAIN d = 1..n + 1
          /\ d[n + 1] = entry
          /\ \A i \in 1..n : d[i] = doc[i]
      BY <1>3, <3>1
    <3>3. \A i \in 1..n + 1 : i # n + 1 => i \in 1..n /\ d[i] = doc[i] /\ doc[i].key # key
      BY <1>3, <2>1, <3>2
    <3>4. n + 1 \in Nat /\ n + 1 \in 1..n + 1 /\ n + 1 \notin 1..n
      OBVIOUS
    <3>5. \A i \in 1..n : i \in 1..n + 1 /\ (i = n + 1 => doc[i].key = key)
      BY <3>4
    <3>. QED
      BY <3>2, <3>3, <3>4, <3>5
  <2>2. CASE same # {}
    <3>1. PICK c \in same : d = [doc EXCEPT ![c] = entry]
      BY <1>1, <1>2, <2>2 DEF AddAssoc
    <3>2. c \in 1..n /\ doc[c].key = key
      BY <1>3
    <3>3. /\ d \in Seq(Entries)
          /\ DOMAIN d = 1..n
          /\ d[c] = entry
          /\ \A i \in 1..n : i # c => d[i] = doc[i]
      BY <1>3, <3>1, <3>2
    <3>4. \A i \in 1..n : i # c => doc[i].key # key
      BY <1>3, <3>2 DEF HasDistinctKeys
    <3>. QED
      BY <3>2, <3>3, <3>4
  <2>. QED
    BY <2>1, <2>2
<1>5. entry.key = key /\ entry.from = source
  BY <1>1
<1>6. HasDistinctKeys(d)
  <2>1. SUFFICES ASSUME NEW i \in 1..m, NEW j \in 1..m, d[i].key = d[j].key
                 PROVE  i = j
    BY <1>4 DEF HasDistinctKeys
  <2>2. CASE i = c \/ j = c
    BY <1>4, <1>5, <2>1, <2>2
  <2>3. CASE i # c /\ j # c
    BY <1>3, <1>4, <2>1, <2>3 DEF HasDistinctKeys
  <2>. QED
    BY <2>2, <2>3
<1>7. SourcesOf(d, key) = {source}
  BY <1>4, <1>5 DEF SourcesOf
<1>8. ASSUME NEW k, k # key
      PROVE  SourcesOf(d, k) = SourcesOf(doc, k)
  BY <1>3, <1>4, <1>5, <1>8 DEF SourcesOf
<1>. QED
  BY <1>2, <1>4, <1>6, <1>7, <1>8

-----------------------------------------------------------------------------
(* The stages of phongo_query_init.                                        *)

(* What is so of a query under construction at every stage.                *)
IsPartial(q, args, keys) ==
  /\ q \in QueryObjects
  /\ ~q.built
  /\ HasDistinctKeys(q.query)
  /\ ~q.warned /\ args["modifiers"] # Absent =>
       \A i \in DOMAIN keys : SourcesOf(q.query, keys[i]) # {}

HasSelector(q, args) == ~q.warned => (q.selector <=> args["projection"] # Absent)

HasSort(q, args) == ~q.warned /\ args["sort"] # Absent => SourcesOf(q.query, "$orderby") = {"sort"}

(* A query under construction that has nothing in it yet.                  *)
IsEmpty(q) ==
  /\ q \in QueryObjects
  /\ q.query = <<>> /\ ~q.built /\ ~q.selector /\ ~q.warned

(* An object before its constructor.                                       *)
LEMMA UnbuiltFacts == IsEmpty(Unbuilt)
<1>1. PICK doc \in Seq(Entries) : doc = <<>>
  <2>1. <<>> \in Seq(Entries)
    OBVIOUS
  <2>. QED
    BY <2>1
<1>2. 0 \in 0..Width - 1
  BY WidthAssumption
<1>3. PICK u : u = Unbuilt
  OBVIOUS
<1>4. u = [query |-> doc, built |-> FALSE, selector |-> FALSE, limit |-> 0, warned |-> FALSE]
  BY <1>1, <1>3 DEF Unbuilt
<1>5. IsEmpty(u)
  BY <1>1, <1>2, <1>4 DEF IsEmpty, QueryObjects
<1>. QED
  BY <1>3, <1>5

(* Before the modifiers.                                                   *)
LEMMA FetchNumbersFacts ==
  ASSUME NEW limit \in Limits
  PROVE  IsEmpty(FetchNumbers(Unbuilt, limit))
<1>1. limit % Width \in 0..Width - 1
  BY LimitAssumption, WidthAssumption
<1>2. PICK cut \in 0..Width - 1 : cut = limit % Width
  BY <1>1
<1>3. PICK u : u = Unbuilt /\ IsEmpty(u)
  BY UnbuiltFacts
<1>4. FetchNumbers(u, limit) = [u EXCEPT !.limit = cut]
  BY <1>2 DEF FetchNumbers
<1>5. IsEmpty([u EXCEPT !.limit = cut])
  BY <1>3 DEF IsEmpty, QueryObjects
<1>. QED
  BY <1>3, <1>4, <1>5

(* A warning ends the construction, and changes nothing else.              *)
LEMMA WarnFacts ==
  ASSUME NEW q \in QueryObjects
  PROVE  /\ Warn(q) \in QueryObjects
         /\ Warn(q).warned
         /\ Warn(q).query = q.query
         /\ Warn(q).built = q.built
         /\ Warn(q).selector = q.selector
  BY DEF Warn, QueryObjects

(* The keys of a hash table are distinct, and each gets into the query.    *)
LEMMA ModifierEntries ==
  ASSUME NEW keys \in Modifiers
  PROVE  LET doc == [i \in DOMAIN keys |-> [key |-> keys[i], from |-> "modifiers"]]
         IN  /\ doc \in Seq(Entries)
             /\ HasDistinctKeys(doc)
             /\ \A i \in DOMAIN keys : SourcesOf(doc, keys[i]) # {}
<1>1. PICK n \in Nat : DOMAIN keys = 1..n
  <2>1. keys \in Seq(EntryKeys)
    BY ModifierAssumption
  <2>2. Len(keys) \in Nat /\ DOMAIN keys = 1..Len(keys)
    BY <2>1, LenProperties
  <2>. QED
    BY <2>2
<1>2. PICK doc : doc = [i \in 1..n |-> [key |-> keys[i], from |-> "modifiers"]]
  OBVIOUS
<1>3. \A i \in 1..n : keys[i] \in EntryKeys
  BY <1>1, ModifierAssumption
<1>4. DOMAIN doc = 1..n /\ \A i \in 1..n : doc[i].key = keys[i] /\ doc[i] \in Entries
  BY <1>2, <1>3 DEF Entries, Arguments
<1>5. doc \in Seq(Entries)
  <2>1. doc \in [1..n -> Entries]
    BY <1>2, <1>4
  <2>. QED
    BY <2>1
<1>6. HasDistinctKeys(doc)
  BY <1>1, <1>4, ModifierAssumption DEF HasDistinctKeys
<1>7. ASSUME NEW i \in 1..n
      PROVE  SourcesOf(doc, keys[i]) # {}
  BY <1>4 DEF SourcesOf
<1>. QED
  BY <1>1, <1>2, <1>5, <1>6, <1>7

(* Setting the document, the selector or the mark of a built query changes *)
(* nothing else.                                                           *)
LEMMA SetQueryFacts ==
  ASSUME NEW q \in QueryObjects, NEW doc \in Seq(Entries)
  PROVE  LET r == [q EXCEPT !.query = doc]
         IN  /\ r \in QueryObjects
             /\ r.query = doc /\ r.built = q.built /\ r.selector = q.selector
             /\ r.warned = q.warned
  BY DEF QueryObjects

(* The modifiers are the first to get into the document.                   *)
LEMMA MergeModifiersFacts ==
  ASSUME NEW args \in QueryArguments, NEW keys \in Modifiers, NEW q, IsEmpty(q)
  PROVE  LET r == MergeModifiers(q, args["modifiers"], keys)
         IN  IsPartial(r, args, keys) /\ ~r.selector
<1>1. PICK arg : arg = args["modifiers"]
  OBVIOUS
<1>2. PICK r : r = MergeModifiers(q, arg, keys)
  OBVIOUS
<1>3. q \in QueryObjects /\ q.query = <<>> /\ ~q.built /\ ~q.selector /\ ~q.warned
  BY DEF IsEmpty
<1>4. HasDistinctKeys(q.query)
  BY <1>3 DEF HasDistinctKeys
<1> DEFINE Merged == IsPartial(r, args, keys) /\ ~r.selector
<1>5. ASSUME arg = Absent PROVE Merged
  <2>1. r = q
    BY <1>2, <1>5 DEF MergeModifiers
  <2>2. args["modifiers"] = Absent
    BY <1>1, <1>5
  <2>. QED
    BY <1>3, <1>4, <2>1, <2>2 DEF IsPartial
<1>6. ASSUME arg # Absent /\ ~IsDocument(arg) PROVE Merged
  <2>1. r = Warn(q)
    BY <1>2, <1>6 DEF MergeModifiers
  <2>2. /\ r \in QueryObjects /\ r.warned
        /\ r.query = q.query /\ r.built = q.built /\ r.selector = q.selector
    BY <1>3, <2>1, WarnFacts
  <2>. QED
    BY <1>3, <1>4, <2>2 DEF IsPartial
<1>7. ASSUME arg # Absent /\ IsDocument(arg) PROVE Merged
  <2>1. PICK doc \in Seq(Entries) :
          /\ doc = [i \in DOMAIN keys |-> [key |-> keys[i], from |-> "modifiers"]]
          /\ HasDistinctKeys(doc)
          /\ \A i \in DOMAIN keys : SourcesOf(doc, keys[i]) # {}
    BY ModifierEntries
  <2>2. r = [q EXCEPT !.query = doc]
    BY <1>2, <1>7, <2>1 DEF MergeModifiers
  <2>3. /\ r \in QueryObjects
        /\ r.query = doc /\ r.built = q.built /\ r.selector = q.selector /\ r.warned = q.warned
    BY <1>3, <2>2, SetQueryFacts
  <2>. QED
    BY <1>3, <2>1, <2>3 DEF IsPartial
<1>8. Merged
  BY <1>5, <1>6, <1>7
<1>. QED
  BY <1>1, <1>2, <1>8

(* See SetQueryFacts.                                                      *)
LEMMA SetSelectorFacts ==
  ASSUME NEW q \in QueryObjects
  PROVE  LET r == [q EXCEPT !.selector = TRUE]
         IN  /\ r \in QueryObjects
             /\ r.query = q.query /\ r.built = q.built /\ r.selector
             /\ r.warned = q.warned
  BY DEF QueryObjects

(* The projection does not touch the document.                             *)
LEMMA MakeSelectorFacts ==
  ASSUME NEW args \in QueryArguments, NEW keys \in Modifiers, NEW q,
         IsPartial(q, args, keys), ~q.selector
  PROVE  LET r == MakeSelector(q, args["projection"])
         IN  IsPartial(r, args, keys) /\ HasSelector(r, args)
<1>1. PICK arg : arg = args["projection"]
  OBVIOUS
<1>2. PICK r : r = MakeSelector(q, arg)
  OBVIOUS
<1>3. q \in QueryObjects
  BY DEF IsPartial
<1>4. CASE q.warned \/ arg = Absent
  <2>1. r = q
    BY <1>2, <1>4 DEF MakeSelector
  <2>. QED
    BY <1>1, <1>2, <1>4, <2>1 DEF HasSelector
<1>5. CASE ~q.warned /\ arg # Absent /\ ~IsDocument(arg)
  <2>1. r = Warn(q)
    BY <1>2, <1>5 DEF MakeSelector
  <2>. QED
    BY <1>1, <1>2, <1>3, <2>1, WarnFacts DEF IsPartial, HasSelector
<1>6. CASE ~q.warned /\ arg # Absent /\ IsDocument(arg)
  <2>1. r = [q EXCEPT !.selector = TRUE]
    BY <1>2, <1>6 DEF MakeSelector
  <2>2. /\ r \in QueryObjects
        /\ r.query = q.query /\ r.built = q.built /\ r.selector
        /\ r.warned = q.warned
    BY <1>3, <2>1, SetSelectorFacts
  <2>. QED
    BY <1>1, <1>2, <1>6, <2>2 DEF IsPartial, HasSelector
<1>. QED
  BY <1>4, <1>5, <1>6

(* A field of the document replaces one of the same name.                  *)
AddEntry(q, key, name) == [q EXCEPT !.query = AddAssoc(@, key, name)]

LEMMA AddEntryFacts ==
  ASSUME NEW q \in QueryObjects, HasDistinctKeys(q.query),
         NEW key \in EntryKeys, NEW name \in Arguments,
         NEW r, r = AddEntry(q, key, name)
  PROVE  /\ r \in QueryObjects
         /\ HasDistinctKeys(r.query)
         /\ SourcesOf(r.query, key) = {name}
         /\ \A k : k # key => SourcesOf(r.query, k) = SourcesOf(q.query, k)
         /\ r.built = q.built /\ r.selector = q.selector /\ r.warned = q.warned
<1>1. q.query \in Seq(Entries)
  BY DEF QueryObjects
<1>2. PICK doc \in Seq(Entries) :
        /\ doc = AddAssoc(q.query, key, name)
        /\ HasDistinctKeys(doc)
        /\ SourcesOf(doc, key) = {name}
        /\ \A k : k # key => SourcesOf(doc, k) = SourcesOf(q.query, k)
  BY <1>1, AddAssocFacts
<1>3. r = [q EXCEPT !.query = doc]
  BY <1>2 DEF AddEntry
<1>4. /\ r \in QueryObjects
      /\ r.query = doc /\ r.built = q.built /\ r.selector = q.selector /\ r.warned = q.warned
  BY <1>3, SetQueryFacts
<1>. QED
  BY <1>2, <1>4

(* The sort replaces what the modifiers called $orderby, and nothing else. *)
LEMMA AddSortFacts ==
  ASSUME NEW args \in QueryArguments, NEW keys \in Modifiers, NEW q,
         IsPartial(q, args, keys), HasSelector(q, args)
  PROVE  LET r == AddSort(q, args["sort"])
         IN  /\ IsPartial(r, args, keys)
             /\ HasSelector(r, args)
             /\ HasSort(r, args)
<1>1. PICK arg : arg = args["sort"]
  OBVIOUS
<1>2. PICK r : r = AddSort(q, arg)
  OBVIOUS
<1>3. q \in QueryObjects /\ HasDistinctKeys(q.query)
  BY DEF IsPartial
<1>4. CASE q.warned \/ arg = Absent
  <2>1. r = q
    BY <1>2, <1>4 DEF AddSort
  <2>. QED
    BY <1>1, <1>2, <1>4, <2>1 DEF HasSort
<1>5. CASE ~q.warned /\ arg # Absent /\ ~IsDocument(arg)
  <2>1. r = Warn(q)
    BY <1>2, <1>5 DEF AddSort
  <2>. QED
    BY <1>1, <1>2, <1>3, <2>1, WarnFacts DEF IsPartial, HasSelector, HasSort
<1>6. CASE ~q.warned /\ arg # Absent /\ IsDocument(arg)
  <2>1. PICK name \in Arguments, key \in EntryKeys : name = "sort" /\ key = "$orderby"
    BY DEF Arguments, EntryKeys
  <2>2. r = AddEntry(q, key, name)
    BY <1>2, <1>6, <2>1 DEF AddSort, AddEntry
  <2>3. /\ r \in QueryObjects
        /\ HasDistinctKeys(r.query)
        /\ SourcesOf(r.query, key) = {name}
        /\ \A k : k # key => SourcesOf(r.query, k) = SourcesOf(q.query, k)
        /\ r.built = q.built /\ r.selector = q.selector /\ r.warned = q.warned
    BY <1>3, <2>2, AddEntryFacts
  <2>4. ASSUME args["modifiers"] # Absent, NEW i \in DOMAIN keys
        PROVE  SourcesOf(r.query, keys[i]) # {}
    BY <1>6, <2>3, <2>4 DEF IsPartial
  <2>5. IsPartial(r, args, keys)
    BY <2>3, <2>4 DEF IsPartial
  <2>. QED
    BY <1>1, <1>2, <2>1, <2>3, <2>5 DEF HasSelector, HasSort
<1>. QED
  BY <1>4, <1>5, <1>6

(* What the function returns.                                              *)
IsComplete(q, args, keys) ==
  /\ q \in QueryObjects
  /\ q.built <=> ~q.warned
  /\ q.built =>
       /\ SourcesOf(q.query, "$query") = {"filter"}
       /\ args["sort"] # Absent => SourcesOf(q.query, "$orderby") = {"sort"}
       /\ q.selector <=> args["projection"] # Absent
       /\ args["modifiers"] # Absent => \A i \in DOMAIN keys : SourcesOf(q.query, keys[i]) # {}

(* See SetQueryFacts.                                                      *)
LEMMA SetBuiltFacts ==
  ASSUME NEW q \in QueryObjects
  PROVE  LET r == [q EXCEPT !.built = TRUE]
         IN  /\ r \in QueryObjects
             /\ r.query = q.query /\ r.built /\ r.selector = q.selector
             /\ r.warned = q.warned
  BY DEF QueryObjects

(* The last stage, and what a construction that ended with a warning keeps. *)
LEMMA AddFilterFacts ==
  ASSUME NEW args \in QueryArguments, NEW keys \in Modifiers, NEW q,
         IsPartial(q, args, keys), HasSelector(q, args), HasSort(q, args)
  PROVE  IsComplete(Result(AddFilter(q)), args, keys)
<1>1. q \in QueryObjects /\ ~q.built /\ HasDistinctKeys(q.query)
  BY DEF IsPartial
<1>2. PICK r : r = Result(AddFilter(q))
  OBVIOUS
<1>3. CASE q.warned
  <2>1. AddFilter(q) = q
    BY <1>3 DEF AddFilter
  <2>2. PICK doc \in Seq(Entries) : doc = <<>>
    <3>1. <<>> \in Seq(Entries)
      OBVIOUS
    <3>. QED
      BY <3>1
  <2>3. r = [q EXCEPT !.query = doc]
    BY <1>1, <1>2, <2>1, <2>2 DEF Result
  <2>4. r \in QueryObjects /\ r.built = q.built /\ r.warned = q.warned
    BY <1>1, <2>3, SetQueryFacts
  <2>. QED
    BY <1>1, <1>2, <1>3, <2>4 DEF IsComplete
<1>4. CASE ~q.warned
  <2>1. PICK name \in Arguments, key \in EntryKeys : name = "filter" /\ key = "$query"
    BY DEF Arguments, EntryKeys
  <2>2. PICK s : s = AddEntry(q, key, name)
    OBVIOUS
  <2>3. /\ s \in QueryObjects
        /\ SourcesOf(s.query, key) = {name}
        /\ \A k : k # key => SourcesOf(s.query, k) = SourcesOf(q.query, k)
        /\ s.selector = q.selector /\ s.warned = q.warned
    BY <1>1, <2>2, AddEntryFacts
  <2>4. AddFilter(q) = [s EXCEPT !.built = TRUE]
    <3>1. AddFilter(q) = [q EXCEPT !.query = AddAssoc(@, "$query", "filter"), !.built = TRUE]
      BY <1>4 DEF AddFilter
    <3>2. s = [q EXCEPT !.query = AddAssoc(@, "$query", "filter")]
      BY <2>1, <2>2 DEF AddEntry
    <3>. QED
      BY <1>1, <3>1, <3>2 DEF QueryObjects
  <2>5. /\ r \in QueryObjects
        /\ r.query = s.query /\ r.built /\ r.selector = s.selector /\ r.warned = s.warned
    <3>1. PICK b : b = [s EXCEPT !.built = TRUE]
      OBVIOUS
    <3>2. /\ b \in QueryObjects
          /\ b.query = s.query /\ b.built /\ b.selector = s.selector /\ b.warned = s.warned
      BY <2>3, <3>1, SetBuiltFacts
    <3>3. r = b
      BY <1>2, <2>4, <3>1, <3>2 DEF Result
    <3>. QED
      BY <3>2, <3>3
  <2>6. args["modifiers"] # Absent => \A i \in DOMAIN keys : SourcesOf(r.query, keys[i]) # {}
    BY <1>4, <2>3, <2>5 DEF IsPartial
  <2>7. args["sort"] # Absent => SourcesOf(r.query, "$orderby") = {"sort"}
    BY <1>4, <2>1, <2>3, <2>5 DEF HasSort
  <2>8. r.selector <=> args["projection"] # Absent
    BY <1>4, <2>3, <2>5 DEF HasSelector
  <2>. QED
    BY <1>2, <1>4, <2>1, <2>3, <2>5, <2>6, <2>7, <2>8 DEF IsComplete
<1>. QED
  BY <1>3, <1>4

(* phongo_query_init, for any arguments.                                   *)
LEMMA PhongoQueryInitFacts ==
  ASSUME NEW args \in QueryArguments, NEW keys \in Modifiers, NEW limit \in Limits
  PROVE  IsComplete(PhongoQueryInit(args["filter"], args["modifiers"], keys,
                                    args["projection"], args["sort"], limit), args, keys)
<1>1. CASE ~IsDocument(args["filter"])
  <2>1. PICK u : u = Unbuilt /\ IsEmpty(u)
    BY UnbuiltFacts
  <2>2. PICK w : w = Warn(u)
    OBVIOUS
  <2>3. w \in QueryObjects /\ w.warned /\ ~w.built
    BY <2>1, <2>2, WarnFacts DEF IsEmpty
  <2>4. IsComplete(w, args, keys)
    BY <2>3 DEF IsComplete
  <2>. QED
    BY <1>1, <2>1, <2>2, <2>4 DEF PhongoQueryInit
<1>2. CASE IsDocument(args["filter"])
  <2>1. PICK q1 : q1 = FetchNumbers(Unbuilt, limit)
    OBVIOUS
  <2>2. IsEmpty(q1)
    BY <2>1, FetchNumbersFacts
  <2>3. PICK q2 : q2 = MergeModifiers(q1, args["modifiers"], keys)
    OBVIOUS
  <2>4. IsPartial(q2, args, keys) /\ ~q2.selector
    BY <2>2, <2>3, MergeModifiersFacts
  <2>5. PICK q3 : q3 = MakeSelector(q2, args["projection"])
    OBVIOUS
  <2>6. IsPartial(q3, args, keys) /\ HasSelector(q3, args)
    BY <2>4, <2>5, MakeSelectorFacts
  <2>7. PICK q4 : q4 = AddSort(q3, args["sort"])
    OBVIOUS
  <2>8. IsPartial(q4, args, keys) /\ HasSelector(q4, args) /\ HasSort(q4, args)
    BY <2>6, <2>7, AddSortFacts
  <2>9. IsComplete(Result(AddFilter(q4)), args, keys)
    BY <2>8, AddFilterFacts
  <2>. QED
    BY <1>2, <2>1, <2>3, <2>5, <2>7, <2>9 DEF PhongoQueryInit
<1>. QED
  BY <1>1, <1>2

-----------------------------------------------------------------------------
(* The theorems.                                                           *)

QueryInv == QueryTypeOK /\ BuiltMeansComplete

LEMMA QueriesStart == QueriesInit => QueryInv
<1>1. Unbuilt \in QueryObjects
  BY UnbuiltFacts DEF IsEmpty
<1>2. Nothing.kind # "query"
  BY DEF Nothing
<1>. QED
  BY <1>1, <1>2 DEF QueriesInit, QueryInv, QueryTypeOK, BuiltMeansComplete

(* Whatever Query::__construct is given.                                   *)
LEMMA ConstructQueryFacts ==
  ASSUME ConstructQuery
  PROVE  QueryInv'
<1>1. PICK args \in QueryArguments, keys \in Modifiers, limit \in Limits :
        /\ given' = [kind |-> "query", args |-> args, keys |-> keys, limit |-> limit]
        /\ query' = PhongoQueryInit(args["filter"], args["modifiers"], keys,
                                    args["projection"], args["sort"], limit)
  BY DEF ConstructQuery
<1>2. IsComplete(query', args, keys)
  BY <1>1, PhongoQueryInitFacts
<1>3. given'.args = args /\ given'.keys = keys
  BY <1>1
<1>4. QueryTypeOK'
  BY <1>1, <1>2 DEF QueryTypeOK, IsComplete
<1>5. BuiltMeansComplete'
  BY <1>2, <1>3 DEF IsComplete, BuiltMeansComplete, SourcesOf
<1>. QED
  BY <1>4, <1>5 DEF QueryInv

(* Every state of a script that constructs queries: the object has its     *)
(* type, and a query without a warning is complete.                        *)
THEOREM Invariance == QueriesSpec => []QueryInv
<1>1. QueryInv /\ [ConstructQuery]_<<query, given>> => QueryInv'
  <2>1. CASE ConstructQuery
    BY <2>1, ConstructQueryFacts
  <2>2. ASSUME QueryInv, UNCHANGED <<query, given>> PROVE QueryInv'
    <3>1. query' = query /\ given' = given
      BY <2>2
    <3>2. QueryTypeOK'
      BY <2>2, <3>1 DEF QueryInv, QueryTypeOK
    <3> DEFINE Says(q, g) ==
          g.kind = "query" =>
            LET sources(key) == {q.query[i].from : i \in {j \in DOMAIN q.query : q.query[j].key = key}}
            IN  /\ q.built <=> ~q.warned
                /\ q.built =>
                     /\ sources("$query") = {"filter"}
                     /\ g.args["sort"] # Absent => sources("$orderby") = {"sort"}
                     /\ q.selector <=> g.args["projection"] # Absent
                     /\ g.args["modifiers"] # Absent =>
                          \A i \in DOMAIN g.keys : sources(g.keys[i]) # {}
    <3>3. Says(query, given)
      BY <2>2, Zenon DEF QueryInv, BuiltMeansComplete
    <3>4. Says(query', given') => BuiltMeansComplete'
      BY Zenon DEF BuiltMeansComplete
    <3>5. Says(query', given')
      <4> HIDE DEF Says
      <4>. QED
        BY <3>1, <3>3
    <3>. QED
      BY <3>2, <3>4, <3>5 DEF QueryInv
  <2>. QED
    BY <2>1, <2>2
<1>. QED
  BY QueriesStart, <1>1, PTL DEF QueriesSpec

(* The object and the history of its arguments have their types.           *)
THEOREM TypeCorrect == QueriesSpec => []QueryTypeOK
  BY Invariance, PTL DEF QueryInv

(* A query that was constructed without a warning holds the filter, once,  *)
(* and each option that was given, whatever the keys of the modifiers.     *)
THEOREM QueriesAreComplete == QueriesSpec => []BuiltMeansComplete
  BY Invariance, PTL DEF QueryInv

=============================================================================
